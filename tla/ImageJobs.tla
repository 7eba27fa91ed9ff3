------------------------------ MODULE ImageJobs ------------------------------
(***************************************************************************)
(* Image jobs of one key (internal/gateway/images.go).  A batch is         *)
(* admitted whole against the day: one hold for each image, kept until the *)
(* image is charged or released.  One worker sends the jobs to the engine, *)
(* one after another; after a lost request it waits for a fresh probe, and *)
(* after two failed generations the engine is suspect: the next request    *)
(* waits for a backoff, and its failure costs nothing.                     *)
(***************************************************************************)
EXTENDS Naturals, FiniteSets

CONSTANTS
    Pictures,     \* image jobs, each submitted at most once
    DailyImages,  \* the key's images of a day; zero is no limit
    QueueCap,     \* the key's MaxQueuedImages
    Nobody

ASSUME PicturesAssumption ==
    IsFiniteSet(Pictures) /\ {DailyImages, QueueCap} \subseteq Nat /\ Nobody \notin Pictures

VARIABLES
    picture,     \* the run of each job: new, queued, running, over
    admitting,   \* a batch whose offer has been checked, not yet reserved
    holds,       \* keyState.imageHolds
    spent,       \* the images meter, today
    owner, at,   \* the job of the kind's worker, and where proxyImage is with it
    suspect,     \* imageRequest.suspect of that job
    interrupted, \* its context is done
    abandons,    \* Destination.imageAbandons, two standing for more
    due,         \* imageRetryAt has passed
    recovering,  \* Destination.imageProbeAfter: none, open (its window), shut
    closing,     \* the manager has been closed: its context is done
    health, fresh,  \* the engine's last probe succeeded; it is later than imageProbeAfter
    costs        \* history: charged failures since the last stored image or restart

pictureVars == <<picture, admitting, holds, spent, owner, at, suspect, interrupted, abandons, due,
                 recovering, closing, health, fresh, costs>>
workVars == <<owner, at, suspect, interrupted>>
breakerVars == <<abandons, due, recovering, health, fresh>>

PicturesInit ==
    /\ picture = [p \in Pictures |-> "new"] /\ admitting = {} /\ holds = {} /\ spent = 0
    /\ owner = Nobody /\ at = "none" /\ suspect = FALSE /\ interrupted = FALSE
    /\ abandons = 0 /\ due = TRUE /\ recovering = "none" /\ health = TRUE /\ fresh = TRUE
    /\ costs = 0 /\ closing = FALSE

In(state) == {p \in Pictures : picture[p] = state}

----------------------------------------------------------------------------
(* Submission. *)

\* prepareImageBatch looks at the offer before any lock of the manager is taken.
CheckOffer ==
    /\ admitting = {} /\ health
    /\ \E batch \in SUBSET In("new") \ {{}} : admitting' = batch
    /\ UNCHANGED <<picture, holds, spent, workVars, breakerVars, costs, closing>>

\* Mutant: the batch is checked against what was charged only.
HoldlessDayFits(batch) == DailyImages = 0 \/ spent + Cardinality(batch) <= DailyImages
\* Charges and promises together stay within the day.
ImageDayFits(batch) == DailyImages = 0 \/ spent + Cardinality(holds) + Cardinality(batch) <= DailyImages

\* createBatch with the gateway's Reserve: a closed manager, a full line or day refuses the whole
\* batch, a store that cannot commit gives the holds back.
SubmitPictures ==
    /\ admitting # {} /\ admitting' = {}
    /\ \/ /\ ~closing /\ Cardinality(In("queued")) + Cardinality(admitting) <= QueueCap /\ ImageDayFits(admitting)
          /\ holds' = holds \cup admitting
          /\ picture' = [p \in Pictures |-> IF p \in admitting THEN "queued" ELSE picture[p]]
       \/ UNCHANGED <<holds, picture>>
    /\ UNCHANGED <<spent, workVars, breakerVars, costs, closing>>

\* A queued job ends at once, and its hold with it unless a worker is about to send it.  A
\* running one is left to finish.
CancelPicture(p) ==
    /\ picture[p] = "queued" /\ picture' = [picture EXCEPT ![p] = "over"]
    /\ interrupted' = (interrupted \/ owner = p)
    /\ holds' = IF owner = p THEN holds ELSE holds \ {p}
    /\ UNCHANGED <<admitting, spent, owner, at, suspect, breakerVars, costs, closing>>

----------------------------------------------------------------------------
(* The worker: proxyImage. *)

\* The image kind is serial: a worker for one queued job.
DrivePicture(p) ==
    /\ owner = Nobody /\ picture[p] = "queued" /\ ~closing
    /\ owner' = p /\ at' = "prepare" /\ suspect' = FALSE /\ interrupted' = FALSE
    /\ UNCHANGED <<picture, admitting, holds, spent, breakerVars, costs, closing>>

\* The job fails before it is sent; its hold stays with the worker, unless a managed member's lease
\* had been admitted, which is settled at once.
EndUnsent ==
    /\ at' = "ending" /\ holds' \in {holds, holds \ {owner}}
    /\ UNCHANGED <<picture, owner, suspect, interrupted>>

Proceed(step) == at' = step /\ UNCHANGED <<picture, holds, owner, interrupted>>

\* An engine that is down opens one recovery window, unless one is known.
PrepareImage ==
    /\ at = "prepare"
    /\ recovering' = IF ~health /\ recovering = "none" THEN "open" ELSE recovering
    /\ fresh' = (fresh /\ recovering' = recovering)
    /\ \/ Proceed(IF recovering' = "none" THEN "ready" ELSE "recover") /\ UNCHANGED suspect
       \/ EndUnsent
    /\ UNCHANGED <<admitting, spent, abandons, due, health, costs, closing>>

\* A fresh successful probe ends the recovery; the end of the window or of the context fails the
\* job.
AwaitRecovery ==
    /\ at = "recover"
    /\ IF health /\ fresh
       THEN recovering' = "none" /\ Proceed("offer") /\ UNCHANGED suspect
       ELSE (interrupted \/ recovering = "shut") /\ EndUnsent /\ UNCHANGED recovering
    /\ UNCHANGED <<admitting, spent, abandons, due, health, fresh, costs, closing>>

\* The offer is looked at again after a recovery.
OfferAgain ==
    /\ at = "offer"
    /\ IF health THEN Proceed("ready") /\ UNCHANGED suspect ELSE EndUnsent
    /\ UNCHANGED <<admitting, spent, breakerVars, costs, closing>>

\* A suspect engine is sent nothing before its backoff, nor when it is down after it.
AwaitBackoff ==
    /\ at = "ready"
    /\ \/ abandons < 2 /\ Proceed("slot") /\ UNCHANGED suspect
       \/ abandons >= 2 /\ due /\ health /\ Proceed("slot") /\ suspect' = TRUE
       \/ abandons >= 2 /\ (interrupted \/ (due /\ ~health)) /\ EndUnsent
    /\ UNCHANGED <<admitting, spent, breakerVars, costs, closing>>

\* settleImage: a request that was sent costs an image, unless the engine definitely made none or
\* was suspect and did not deliver.
Charges(sent, definitive, measured) == sent /\ ~definitive /\ ~(suspect /\ ~measured)

\* recordImageResult and settleImage, before the manager learns of the result.
SettlePicture(sent, definitive, oversized, measured) ==
    LET counted == sent /\ ~measured /\ (~definitive \/ oversized)
        charged == Charges(sent, definitive, measured)
    IN  /\ abandons' = IF measured THEN 0 ELSE IF counted /\ abandons < 2 THEN abandons + 1 ELSE abandons
        /\ due' = IF measured THEN TRUE ELSE IF counted /\ abandons' = 2 THEN FALSE ELSE due
        /\ spent' = IF charged THEN spent + 1 ELSE spent
        /\ costs' = IF measured THEN 0 ELSE IF charged THEN costs + 1 ELSE costs
        /\ at' = "ending" /\ holds' = holds \ {owner}
        /\ UNCHANGED <<picture, admitting, owner, suspect, interrupted>>

\* reserveImage and acquireSlot: without its hold, its slot or its queued row nothing is sent.
AcquireImageSlot ==
    /\ at = "slot"
    /\ \/ /\ owner \in holds /\ picture[owner] = "queued"
          /\ picture' = [picture EXCEPT ![owner] = "running"] /\ at' = "sent"
          /\ UNCHANGED <<admitting, holds, spent, owner, suspect, interrupted, abandons, due, costs>>
       \/ SettlePicture(FALSE, FALSE, FALSE, FALSE)
    /\ UNCHANGED <<recovering, health, fresh, closing>>

\* The engine's answer: an image that is stored, or cannot be; no image at all; a candidate that
\* is no image; a response without end; or an error before or after the request was written.  The
\* last asks for a fresh probe.
EngineAnswersImage ==
    /\ at = "sent"
    /\ \/ SettlePicture(TRUE, FALSE, FALSE, TRUE) /\ UNCHANGED <<recovering, fresh>>
       \/ SettlePicture(TRUE, TRUE, FALSE, FALSE) /\ UNCHANGED <<recovering, fresh>>
       \/ SettlePicture(TRUE, FALSE, FALSE, FALSE) /\ UNCHANGED <<recovering, fresh>>
       \/ SettlePicture(TRUE, TRUE, TRUE, FALSE) /\ UNCHANGED <<recovering, fresh>>
       \/ SettlePicture(FALSE, FALSE, FALSE, FALSE) /\ UNCHANGED <<recovering, fresh>>
       \/ SettlePicture(TRUE, FALSE, FALSE, FALSE) /\ recovering' = "open" /\ fresh' = FALSE
    /\ UNCHANGED <<health, closing>>

\* The manager's finish, and the end of the worker, which releases what is left of the hold.
WorkerEnds ==
    /\ at = "ending"
    /\ owner' = Nobody /\ at' = "none" /\ suspect' = FALSE /\ interrupted' = FALSE
    /\ picture' = [picture EXCEPT ![owner] = "over"] /\ holds' = holds \ {owner}
    /\ UNCHANGED <<admitting, spent, breakerVars, costs, closing>>

----------------------------------------------------------------------------
(* Clocks, probes and restarts. *)

\* A probe, the host's or the recovery window's; one that fails during a generation may be passed over.
ProbeImages ==
    /\ \/ health' \in BOOLEAN /\ fresh' = TRUE
       \/ at = "sent" /\ UNCHANGED <<health, fresh>>
    /\ UNCHANGED <<picture, admitting, holds, spent, workVars, abandons, due, recovering, costs, closing>>

BackoffElapses ==
    /\ ~due /\ due' = TRUE
    /\ UNCHANGED <<picture, admitting, holds, spent, workVars, abandons, recovering, health, fresh, costs, closing>>

WindowShuts ==
    /\ recovering = "open" /\ recovering' = "shut"
    /\ UNCHANGED <<picture, admitting, holds, spent, workVars, abandons, due, health, fresh, costs, closing>>

\* prune at midnight: the meter starts over, the holds stay.
ImageDayTurns ==
    /\ spent > 0 /\ spent' = 0
    /\ UNCHANGED <<picture, admitting, holds, workVars, breakerVars, costs, closing>>

\* The manager's Close: every context is cancelled and every hold given back; the worker is waited
\* for, and nothing starts any more.
ManagerCloses ==
    /\ ~closing /\ closing' = TRUE /\ holds' = {} /\ interrupted' = (owner # Nobody)
    /\ UNCHANGED <<picture, admitting, spent, owner, at, suspect, breakerVars, costs>>

\* The host starts again, after a Close or a kill: recovery ends the live jobs, the meter is seeded
\* from what reached usage.jsonl, the breaker and the holds are forgotten.
HostRestarts ==
    /\ picture' = [p \in Pictures |-> IF picture[p] = "new" THEN "new" ELSE "over"]
    /\ spent' \in 0..spent /\ admitting' = {} /\ holds' = {}
    /\ owner' = Nobody /\ at' = "none" /\ suspect' = FALSE /\ interrupted' = FALSE
    /\ abandons' = 0 /\ due' = TRUE /\ recovering' = "none" /\ health' \in BOOLEAN /\ fresh' = TRUE
    /\ costs' = 0 /\ closing' = FALSE

PicturesNext ==
    \/ CheckOffer \/ SubmitPictures
    \/ \E p \in Pictures : CancelPicture(p) \/ DrivePicture(p)
    \/ PrepareImage \/ AwaitRecovery \/ OfferAgain \/ AwaitBackoff \/ AcquireImageSlot
    \/ EngineAnswersImage \/ WorkerEnds
    \/ ProbeImages \/ BackoffElapses \/ WindowShuts \/ ImageDayTurns \/ ManagerCloses \/ HostRestarts

PicturesSpec == PicturesInit /\ [][PicturesNext]_pictureVars

----------------------------------------------------------------------------

\* docs/IMAGES.md on the daily budget: what was charged today and what is promised to live jobs
\* never exceed the key's images of a day, whatever is cancelled, fails late or crosses midnight;
\* every job that may still be sent has its hold, until a Close gives the holds back and sends no
\* more, and no hold outlives its job; and of the failed generations between two stored images
\* only the first two cost one.
ImageDayHolds ==
    /\ DailyImages > 0 => spent + Cardinality(holds) <= DailyImages
    /\ ~closing => In("queued") \cup In("running") \subseteq holds \cup {p \in {owner} : at = "ending"}
    /\ holds \subseteq In("queued") \cup In("running") \cup {owner}
    /\ costs <= 2
=============================================================================
