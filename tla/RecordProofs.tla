---------------------------- MODULE RecordProofs ----------------------------
(***************************************************************************)
(* Theorems about what the host writes down and gives out, for any number  *)
(* of installers, image jobs, audio calls, stored images and followers,    *)
(* and any limit of a day.                                                 *)
(***************************************************************************)
EXTENDS AgentInstall, ImageJobs, AudioCalls, RunImages, RunFeed, SumProofs, SequenceTheorems

-----------------------------------------------------------------------------
(* The agent's runtime. *)

\* A tree is published by the installer that has marked it ready.
InstallInv ==
    /\ RuntimeStays
    /\ succeeded \in BOOLEAN
    /\ phase \in [Installers -> {"idle", "download", "unpack", "harness", "helper", "mark", "publish"}]
    /\ built \in [Installers -> {"absent", "archive", "node", "packages", "helped", "ready"}]
    /\ \A i \in Installers : phase[i] = "publish" => built[i] = "ready"

\* The rename gives the runtime's name to a marked tree only, and takes no
\* runtime away: however many installers work at once, fail or are killed, the
\* runtime is complete once it is there, and stays.
THEOREM RuntimeAlwaysStays == InstallSpec => []RuntimeStays
<1>1. InstallInit => InstallInv
  BY DEF InstallInit, InstallInv, RuntimeStays
<1>2. InstallInv /\ [InstallNext]_installVars => InstallInv'
  <2> SUFFICES ASSUME InstallInv, [InstallNext]_installVars PROVE InstallInv'
    OBVIOUS
  <2> USE DEF InstallInv, RuntimeStays, Installed
  <2>1. ASSUME NEW i \in Installers, InstallStarts(i) PROVE InstallInv'
    BY <2>1 DEF InstallStarts, Returns
  <2>2. ASSUME NEW i \in Installers,
               Download(i) \/ UnpackNode(i) \/ InstallHarness(i) \/ SetHelper(i) \/ Mark(i)
        PROVE  InstallInv'
    BY <2>2 DEF Download, UnpackNode, InstallHarness, SetHelper, Mark, Builds
  <2>3. ASSUME NEW i \in Installers, PublishRuntime(i) PROVE InstallInv'
    BY <2>3 DEF PublishRuntime, Returns
  <2>4. ASSUME NEW i \in Installers, InstallFails(i) \/ InstallerKilled(i) PROVE InstallInv'
    <3>1. /\ phase' = [phase EXCEPT ![i] = "idle"] /\ built' = [built EXCEPT ![i] = "absent"]
          /\ runtime' = runtime
      BY <2>4 DEF InstallFails, InstallerKilled, Returns
    <3>2. succeeded' = succeeded
      BY <2>4 DEF InstallFails, InstallerKilled, Returns
    <3> QED
      BY <3>1, <3>2
  <2>5. CASE UNCHANGED installVars
    BY <2>5 DEF installVars
  <2> QED
    BY <2>1, <2>2, <2>3, <2>4, <2>5 DEF InstallNext
<1>3. InstallInv => RuntimeStays
  BY DEF InstallInv
<1> QED
  BY <1>1, <1>2, <1>3, PTL DEF InstallSpec

-----------------------------------------------------------------------------
(* Image jobs. *)

Places == {"none", "prepare", "recover", "offer", "ready", "slot", "sent", "ending"}

PicturesTypeOK ==
    /\ picture \in [Pictures -> {"new", "queued", "running", "over"}]
    /\ admitting \in SUBSET Pictures
    /\ holds \in SUBSET Pictures
    /\ spent \in Nat
    /\ owner \in Pictures \cup {Nobody}
    /\ at \in Places
    /\ suspect \in BOOLEAN
    /\ abandons \in 0..2
    /\ costs \in Nat
    /\ closing \in BOOLEAN

\* The worker has a job exactly while it is at work, and what it has sent is
\* running and held, until a Close gives the holds back.
WorkerOwns ==
    /\ owner = Nobody <=> at = "none"
    /\ at = "sent" => owner \in holds \/ closing

\* The breaker has counted every failure that cost an image, and lets an
\* unsuspected request through only while it has counted less than two.
BreakerCounts ==
    /\ costs <= abandons
    /\ at \in {"slot", "sent"} /\ ~suspect => abandons < 2

DayCovers == DailyImages > 0 => spent + Cardinality(holds) <= DailyImages
LiveIsHeld == ~closing => \A p \in Pictures : picture[p] \in {"queued", "running"} =>
                 p \in holds \/ (p = owner /\ at = "ending")
HoldIsLive == \A p \in holds : picture[p] \in {"queued", "running"} \/ p = owner

\* After a Close nothing is promised, and the day still has room for the image that is being made.
SentFits == closing => holds = {} /\ (at = "sent" /\ DailyImages > 0 => spent + 1 <= DailyImages)

PicturesInv == PicturesTypeOK /\ WorkerOwns /\ BreakerCounts /\ DayCovers /\ LiveIsHeld /\ HoldIsLive /\ SentFits

\* The invariant is what the property says, and more.
LEMMA PicturesImplies == PicturesInv => ImageDayHolds
<1> SUFFICES ASSUME PicturesInv PROVE ImageDayHolds
  OBVIOUS
<1>1. costs <= 2
  BY DEF PicturesInv, BreakerCounts, PicturesTypeOK
<1>2. ~closing => In("queued") \cup In("running") \subseteq holds \cup {p \in {owner} : at = "ending"}
  BY DEF PicturesInv, LiveIsHeld, In
<1>3. holds \subseteq In("queued") \cup In("running") \cup {owner}
  BY DEF PicturesInv, HoldIsLive, In, PicturesTypeOK
<1> QED
  BY <1>1, <1>2, <1>3 DEF PicturesInv, DayCovers, ImageDayHolds

\* Holds are counted; one that is given back or charged counts one less.
LEMMA HoldsCount ==
    ASSUME PicturesTypeOK
    PROVE  /\ IsFiniteSet(holds) /\ Cardinality(holds) \in Nat
           /\ \A S \in SUBSET holds : Cardinality(S) \in Nat /\ Cardinality(S) <= Cardinality(holds)
           /\ \A p \in holds : Cardinality(holds \ {p}) = Cardinality(holds) - 1
           /\ \A B \in SUBSET Pictures : /\ Cardinality(B) \in Nat
                                         /\ Cardinality(holds \cup B) \in Nat
                                         /\ Cardinality(holds \cup B) <= Cardinality(holds) + Cardinality(B)
<1>1. IsFiniteSet(Pictures) /\ \A B \in SUBSET Pictures : IsFiniteSet(B) /\ Cardinality(B) \in Nat
  BY PicturesAssumption, FS_Subset, FS_CardinalityType
<1>2. holds \in SUBSET Pictures
  BY DEF PicturesTypeOK
<1>3. \A S \in SUBSET holds : Cardinality(S) <= Cardinality(holds)
  BY <1>1, <1>2, FS_Subset
<1>4. \A p \in holds : Cardinality(holds \ {p}) = Cardinality(holds) - 1
  BY <1>1, <1>2, FS_RemoveElement
<1>5. ASSUME NEW B \in SUBSET Pictures
      PROVE  Cardinality(holds \cup B) <= Cardinality(holds) + Cardinality(B)
  <2>1. Cardinality(holds \cup B) = Cardinality(holds) + Cardinality(B) - Cardinality(holds \cap B)
    BY <1>1, <1>2, FS_Union
  <2>2. Cardinality(holds \cap B) \in Nat
    BY <1>1
  <2> QED
    BY <1>1, <1>2, <2>1, <2>2
<1>6. \A S \in SUBSET holds : S \in SUBSET Pictures
  BY <1>2
<1>7. \A B \in SUBSET Pictures : holds \cup B \in SUBSET Pictures
  BY <1>2
<1> QED
  BY <1>1, <1>2, <1>3, <1>4, <1>5, <1>6, <1>7

\* A step that charges nothing and promises nothing new keeps the day.
LEMMA DayKept ==
    ASSUME PicturesTypeOK, DayCovers, holds' \in SUBSET holds, spent' = spent
    PROVE  DayCovers'
<1>1. /\ Cardinality(holds) \in Nat /\ Cardinality(holds') \in Nat
      /\ Cardinality(holds') <= Cardinality(holds)
  BY HoldsCount
<1> QED
  BY <1>1, PicturesAssumption DEF DayCovers, PicturesTypeOK

\* A step that promises and sends nothing leaves room for what is being made.
LEMMA SentKept ==
    ASSUME PicturesTypeOK, SentFits, holds' \in SUBSET holds, closing' = closing, spent' \in Nat,
           at' = "sent" => at = "sent" /\ spent' <= spent
    PROVE  SentFits'
<1>1. spent \in Nat /\ DailyImages \in Nat
  BY PicturesAssumption DEF PicturesTypeOK
<1>2. ASSUME closing PROVE holds' = {}
  BY <1>2 DEF SentFits
<1>3. ASSUME closing, at' = "sent", DailyImages > 0 PROVE spent' + 1 <= DailyImages
  <2>1. spent + 1 <= DailyImages /\ spent' <= spent
    BY <1>3 DEF SentFits
  <2>2. \A a, b, d \in Nat : b <= a /\ a + 1 <= d => b + 1 <= d
    OBVIOUS
  <2>3. spent' \in Nat
    OBVIOUS
  <2> QED
    BY ONLY <1>1, <2>1, <2>2, <2>3, Zenon
<1>4. closing' <=> closing
  OBVIOUS
<1> QED
  BY <1>2, <1>3, <1>4 DEF SentFits

\* createBatch promises what the day has room for.
LEMMA SubmitKeeps ==
    ASSUME PicturesInv, SubmitPictures
    PROVE  PicturesInv'
<1>0. /\ admitting' = {} /\ UNCHANGED <<spent, owner, at, suspect, abandons, costs, closing>>
      /\ PicturesTypeOK
  BY DEF SubmitPictures, workVars, breakerVars, PicturesInv
<1>1. CASE UNCHANGED <<holds, picture>>
  <2>1. DayCovers'
    BY <1>0, <1>1, DayKept DEF PicturesInv
  <2> QED
    BY <1>0, <1>1, <2>1
       DEF PicturesInv, PicturesTypeOK, WorkerOwns, BreakerCounts, LiveIsHeld, HoldIsLive, SentFits
<1>2. CASE /\ ImageDayFits(admitting) /\ ~closing
           /\ holds' = holds \cup admitting
           /\ picture' = [p \in Pictures |-> IF p \in admitting THEN "queued" ELSE picture[p]]
  <2>0. admitting \in SUBSET Pictures /\ spent \in Nat /\ DailyImages \in Nat
    BY <1>0, PicturesAssumption DEF PicturesTypeOK
  <2>1. /\ Cardinality(holds') \in Nat /\ Cardinality(holds) \in Nat /\ Cardinality(admitting) \in Nat
        /\ Cardinality(holds') <= Cardinality(holds) + Cardinality(admitting)
    BY <1>0, <1>2, <2>0, HoldsCount
  <2>2. DailyImages > 0 => spent + Cardinality(holds) + Cardinality(admitting) <= DailyImages
    BY <1>2, <2>0 DEF ImageDayFits
  <2>3. DayCovers'
    BY <1>0, <2>0, <2>1, <2>2 DEF DayCovers
  <2>4. PicturesTypeOK' /\ WorkerOwns' /\ BreakerCounts'
    BY <1>0, <1>2 DEF PicturesInv, PicturesTypeOK, WorkerOwns, BreakerCounts
  <2>5. LiveIsHeld' /\ HoldIsLive' /\ SentFits'
    BY <1>0, <1>2 DEF PicturesInv, PicturesTypeOK, LiveIsHeld, HoldIsLive, SentFits
  <2> QED
    BY <2>3, <2>4, <2>5 DEF PicturesInv
<1> QED
  BY <1>1, <1>2 DEF SubmitPictures

\* settleImage charges an image of the promised ones, in exchange for its hold.
LEMMA SettlePictureKeeps ==
    ASSUME PicturesInv, NEW sent \in BOOLEAN, NEW definitive \in BOOLEAN, NEW oversized \in BOOLEAN,
           NEW measured \in BOOLEAN, SettlePicture(sent, definitive, oversized, measured),
           at = "slot" \/ at = "sent", sent => at = "sent", measured => sent, closing' = closing
    PROVE  PicturesInv'
<1>1. /\ at' = "ending" /\ holds' = holds \ {owner}
      /\ UNCHANGED <<picture, admitting, owner, suspect, interrupted>>
      /\ owner # Nobody /\ spent \in Nat /\ costs \in Nat /\ abandons \in 0..2 /\ closing \in BOOLEAN
  BY DEF SettlePicture, PicturesInv, WorkerOwns, PicturesTypeOK
<1> DEFINE charged == Charges(sent, definitive, measured)
           counted1 == sent /\ ~measured /\ (~definitive \/ oversized)
<1>2. /\ spent' = IF charged THEN spent + 1 ELSE spent
      /\ costs' = IF measured THEN 0 ELSE IF charged THEN costs + 1 ELSE costs
      /\ abandons' = IF measured THEN 0
                     ELSE IF counted1 /\ abandons < 2 THEN abandons + 1 ELSE abandons
  BY DEF SettlePicture
<1>3. charged => at = "sent"
  BY DEF Charges
<1>4. charged /\ ~measured => counted1 /\ abandons < 2
  BY DEF Charges, PicturesInv, BreakerCounts
<1> HIDE DEF charged, counted1
<1>5. spent' \in Nat /\ costs' \in Nat /\ abandons' \in 0..2 /\ costs' <= abandons'
  BY <1>1, <1>2, <1>4 DEF PicturesInv, BreakerCounts
<1>6. PicturesTypeOK'
  BY <1>1, <1>5 DEF PicturesInv, PicturesTypeOK, Places
<1>7. DayCovers'
  <2>1. CASE charged
    <3>1. owner \in holds \/ closing
      BY <1>3, <2>1 DEF PicturesInv, WorkerOwns
    <3>2. CASE owner \in holds
      <4>1. Cardinality(holds') = Cardinality(holds) - 1 /\ Cardinality(holds) \in Nat
        BY <1>1, <3>2, HoldsCount DEF PicturesInv
      <4> QED
        BY <1>1, <1>2, <2>1, <4>1, PicturesAssumption DEF PicturesInv, DayCovers
    <3>3. CASE closing
      <4>1. holds' = {} /\ Cardinality(holds') = 0
        BY <1>1, <3>3, FS_EmptySet DEF PicturesInv, SentFits
      <4>2. DailyImages > 0 => spent + 1 <= DailyImages
        BY <1>3, <2>1, <3>3 DEF PicturesInv, SentFits
      <4> QED
        BY <1>1, <1>2, <2>1, <4>1, <4>2, PicturesAssumption DEF DayCovers
    <3> QED
      BY <3>1, <3>2, <3>3
  <2>2. CASE ~charged
    BY <1>1, <1>2, <2>2, DayKept DEF PicturesInv
  <2> QED
    BY <2>1, <2>2
<1>8. WorkerOwns' /\ BreakerCounts'
  BY <1>1, <1>5 DEF WorkerOwns, BreakerCounts
<1>9. LiveIsHeld' /\ HoldIsLive'
  BY <1>1 DEF PicturesInv, LiveIsHeld, HoldIsLive
<1>10. SentFits'
  BY <1>1, <1>5, SentKept DEF PicturesInv
<1> QED
  BY <1>6, <1>7, <1>8, <1>9, <1>10 DEF PicturesInv

\* A worker that gives up before it has sent anything.
LEMMA EndUnsentKeeps ==
    ASSUME PicturesInv, EndUnsent, at # "none", UNCHANGED <<admitting, spent, abandons, costs, closing>>
    PROVE  PicturesInv'
<1>1. /\ at' = "ending" /\ holds' \in {holds, holds \ {owner}}
      /\ UNCHANGED <<picture, owner, suspect>> /\ PicturesTypeOK /\ owner # Nobody
  BY DEF EndUnsent, PicturesInv, WorkerOwns
<1>2. DayCovers'
  BY <1>1, DayKept DEF PicturesInv
<1>5. SentFits'
  BY <1>1, SentKept DEF PicturesInv, PicturesTypeOK
<1>3. PicturesTypeOK' /\ WorkerOwns' /\ BreakerCounts'
  BY <1>1 DEF PicturesInv, PicturesTypeOK, WorkerOwns, BreakerCounts, Places
<1>4. LiveIsHeld' /\ HoldIsLive'
  BY <1>1 DEF PicturesInv, PicturesTypeOK, LiveIsHeld, HoldIsLive
<1> QED
  BY <1>2, <1>3, <1>4, <1>5 DEF PicturesInv

\* A worker that goes on to the next step before it has sent anything.
LEMMA ProceedKeeps ==
    ASSUME PicturesInv, NEW step \in {"ready", "recover", "offer", "slot"}, Proceed(step),
           at \notin {"none", "sent", "ending"}, suspect' \in BOOLEAN,
           step = "slot" => (suspect' \/ abandons < 2), UNCHANGED <<admitting, spent, abandons, costs, closing>>
    PROVE  PicturesInv'
<1>1. /\ at' = step /\ UNCHANGED <<picture, holds, owner>> /\ PicturesTypeOK /\ owner # Nobody
  BY DEF Proceed, PicturesInv, WorkerOwns
<1>2. DayCovers'
  BY <1>1, DayKept DEF PicturesInv
<1>5. SentFits'
  BY <1>1, SentKept DEF PicturesInv, PicturesTypeOK
<1>3. PicturesTypeOK' /\ WorkerOwns' /\ BreakerCounts'
  BY <1>1 DEF PicturesInv, PicturesTypeOK, WorkerOwns, BreakerCounts, Places
<1>4. LiveIsHeld' /\ HoldIsLive'
  BY <1>1 DEF PicturesInv, PicturesTypeOK, LiveIsHeld, HoldIsLive
<1> QED
  BY <1>2, <1>3, <1>4, <1>5 DEF PicturesInv

\* Every step keeps the invariant.
LEMMA PicturesStep == PicturesInv /\ [PicturesNext]_pictureVars => PicturesInv'
<1> SUFFICES ASSUME PicturesInv, [PicturesNext]_pictureVars PROVE PicturesInv'
  OBVIOUS
<1>0. PicturesTypeOK /\ DayCovers /\ SentFits /\ suspect \in BOOLEAN /\ spent \in Nat
  BY DEF PicturesInv, PicturesTypeOK
\* The steps that touch neither the worker, the holds, the meter nor the breaker.
<1>1. ASSUME admitting' \in SUBSET Pictures,
             UNCHANGED <<picture, holds, spent, owner, at, suspect, abandons, costs, closing>>
      PROVE  PicturesInv'
  <2>1. DayCovers'
    BY <1>0, <1>1, DayKept
  <2> QED
    BY <1>1, <2>1 DEF PicturesInv, PicturesTypeOK, WorkerOwns, BreakerCounts, LiveIsHeld, HoldIsLive, SentFits
<1>2. CASE CheckOffer
  <2>1. admitting' \in SUBSET Pictures
    BY <1>2 DEF CheckOffer, In
  <2> QED
    BY <1>1, <1>2, <2>1 DEF CheckOffer, workVars, breakerVars
<1>3. CASE SubmitPictures
  BY <1>3, SubmitKeeps
<1>4. ASSUME NEW p \in Pictures, CancelPicture(p) PROVE PicturesInv'
  <2>1. /\ picture[p] = "queued" /\ picture' = [picture EXCEPT ![p] = "over"]
        /\ holds' = IF owner = p THEN holds ELSE holds \ {p}
        /\ UNCHANGED <<admitting, spent, owner, at, suspect, abandons, costs, closing>>
    BY <1>4 DEF CancelPicture, breakerVars
  <2>2. DayCovers'
    BY <1>0, <2>1, DayKept
  <2>3. PicturesTypeOK' /\ WorkerOwns' /\ BreakerCounts'
    BY <2>1 DEF PicturesInv, PicturesTypeOK, WorkerOwns, BreakerCounts
  <2>4. LiveIsHeld' /\ HoldIsLive'
    BY <2>1 DEF PicturesInv, PicturesTypeOK, LiveIsHeld, HoldIsLive
  <2>5. SentFits'
    BY <1>0, <2>1, SentKept
  <2> QED
    BY <2>2, <2>3, <2>4, <2>5 DEF PicturesInv
<1>5. ASSUME NEW p \in Pictures, DrivePicture(p) PROVE PicturesInv'
  <2>1. /\ owner = Nobody /\ owner' = p /\ at' = "prepare" /\ suspect' = FALSE
        /\ UNCHANGED <<picture, admitting, holds, spent, abandons, costs, closing>>
    BY <1>5 DEF DrivePicture, breakerVars
  <2>2. DayCovers'
    BY <1>0, <2>1, DayKept
  <2>3. PicturesTypeOK' /\ WorkerOwns' /\ BreakerCounts'
    BY <2>1, PicturesAssumption DEF PicturesInv, PicturesTypeOK, WorkerOwns, BreakerCounts, Places
  <2>4. LiveIsHeld' /\ HoldIsLive'
    BY <2>1, PicturesAssumption DEF PicturesInv, PicturesTypeOK, WorkerOwns, LiveIsHeld, HoldIsLive
  <2>5. SentFits'
    BY <1>0, <2>1, SentKept
  <2> QED
    BY <2>2, <2>3, <2>4, <2>5 DEF PicturesInv
<1>6. CASE PrepareImage
  <2>1. /\ at = "prepare" /\ UNCHANGED <<admitting, spent, abandons, costs, closing>>
        /\ \/ (Proceed("ready") \/ Proceed("recover")) /\ UNCHANGED suspect
           \/ EndUnsent
    BY <1>6 DEF PrepareImage
  <2> QED
    BY <1>0, <2>1, ProceedKeeps, EndUnsentKeeps
<1>7. CASE AwaitRecovery
  <2>1. /\ at = "recover" /\ UNCHANGED <<admitting, spent, abandons, costs, closing>>
        /\ (Proceed("offer") /\ UNCHANGED suspect) \/ EndUnsent
    BY <1>7 DEF AwaitRecovery
  <2> QED
    BY <1>0, <2>1, ProceedKeeps, EndUnsentKeeps
<1>8. CASE OfferAgain
  <2>1. /\ at = "offer" /\ UNCHANGED <<admitting, spent, abandons, costs, closing>>
        /\ (Proceed("ready") /\ UNCHANGED suspect) \/ EndUnsent
    BY <1>8 DEF OfferAgain, breakerVars
  <2> QED
    BY <1>0, <2>1, ProceedKeeps, EndUnsentKeeps
<1>9. CASE AwaitBackoff
  <2>1. /\ at = "ready" /\ UNCHANGED <<admitting, spent, abandons, costs, closing>>
        /\ \/ abandons < 2 /\ Proceed("slot") /\ UNCHANGED suspect
           \/ Proceed("slot") /\ suspect' = TRUE
           \/ EndUnsent
    BY <1>9 DEF AwaitBackoff, breakerVars
  <2>2. CASE abandons < 2 /\ Proceed("slot") /\ UNCHANGED suspect
    BY <1>0, <2>1, <2>2, ProceedKeeps
  <2>3. CASE Proceed("slot") /\ suspect' = TRUE
    <3>1. suspect' /\ suspect' \in BOOLEAN
      BY <2>3
    <3> QED
      BY <2>1, <2>3, <3>1, ProceedKeeps
  <2> QED
    BY <2>1, <2>2, <2>3, EndUnsentKeeps
<1>10. CASE AcquireImageSlot
  <2>0. closing' = closing
    BY <1>10 DEF AcquireImageSlot
  <2>1. CASE SettlePicture(FALSE, FALSE, FALSE, FALSE)
    BY <1>10, <2>0, <2>1, SettlePictureKeeps DEF AcquireImageSlot
  <2>2. CASE /\ owner \in holds /\ picture[owner] = "queued"
             /\ picture' = [picture EXCEPT ![owner] = "running"] /\ at' = "sent"
             /\ UNCHANGED <<admitting, holds, spent, owner, suspect, interrupted, abandons, due, costs>>
    <3>1. at = "slot"
      BY <1>10 DEF AcquireImageSlot
    <3>2. DayCovers'
      BY <1>0, <2>2, DayKept
    <3>3. PicturesTypeOK' /\ WorkerOwns' /\ BreakerCounts'
      BY <2>0, <2>2, <3>1 DEF PicturesInv, PicturesTypeOK, WorkerOwns, BreakerCounts, Places
    <3>4. LiveIsHeld' /\ HoldIsLive' /\ SentFits'
      BY <2>0, <2>2, <3>1 DEF PicturesInv, PicturesTypeOK, LiveIsHeld, HoldIsLive, SentFits
    <3> QED
      BY <3>2, <3>3, <3>4 DEF PicturesInv
  <2> QED
    BY <1>10, <2>1, <2>2 DEF AcquireImageSlot
<1>11. CASE EngineAnswersImage
  <2>1. at = "sent" /\ closing' = closing
    BY <1>11 DEF EngineAnswersImage
  <2>2. \E sent, definitive, oversized, measured \in BOOLEAN :
           (measured => sent) /\ SettlePicture(sent, definitive, oversized, measured)
    BY <1>11 DEF EngineAnswersImage
  <2> QED
    BY <2>1, <2>2, SettlePictureKeeps
<1>12. CASE WorkerEnds
  <2>1. /\ at = "ending" /\ owner' = Nobody /\ at' = "none" /\ suspect' = FALSE
        /\ picture' = [picture EXCEPT ![owner] = "over"] /\ holds' = holds \ {owner}
        /\ UNCHANGED <<admitting, spent, abandons, costs, closing>>
    BY <1>12 DEF WorkerEnds, breakerVars
  <2>2. DayCovers'
    BY <1>0, <2>1, DayKept
  <2>3. PicturesTypeOK' /\ WorkerOwns' /\ BreakerCounts'
    BY <2>1 DEF PicturesInv, PicturesTypeOK, WorkerOwns, BreakerCounts, Places
  <2>4. LiveIsHeld' /\ HoldIsLive'
    BY <2>1 DEF PicturesInv, PicturesTypeOK, LiveIsHeld, HoldIsLive
  <2>5. SentFits'
    BY <1>0, <2>1, SentKept
  <2> QED
    BY <2>2, <2>3, <2>4, <2>5 DEF PicturesInv
<1>13. CASE ProbeImages \/ BackoffElapses \/ WindowShuts \/ UNCHANGED pictureVars
  <2>1. UNCHANGED <<admitting, picture, holds, spent, owner, at, suspect, abandons, costs, closing>>
    BY <1>13 DEF ProbeImages, BackoffElapses, WindowShuts, pictureVars, workVars
  <2> QED
    BY <1>0, <1>1, <2>1 DEF PicturesTypeOK
<1>14. CASE ImageDayTurns
  <2>1. /\ spent' = 0 /\ UNCHANGED <<picture, admitting, holds, owner, at, suspect, abandons, costs, closing>>
    BY <1>14 DEF ImageDayTurns, workVars, breakerVars
  <2>2. Cardinality(holds) \in Nat /\ DailyImages \in Nat /\ spent \in Nat
    BY <1>0, HoldsCount, PicturesAssumption DEF PicturesTypeOK
  <2>3. DayCovers'
    BY <1>0, <2>1, <2>2 DEF DayCovers
  <2>4. SentFits'
    BY <1>0, <2>1, <2>2, SentKept
  <2> QED
    BY <2>1, <2>3, <2>4 DEF PicturesInv, PicturesTypeOK, WorkerOwns, BreakerCounts, LiveIsHeld, HoldIsLive
<1>16. CASE ManagerCloses
  <2>1. /\ closing' = TRUE /\ holds' = {} /\ ~closing
        /\ UNCHANGED <<picture, admitting, spent, owner, at, suspect, abandons, costs>>
    BY <1>16 DEF ManagerCloses, breakerVars
  <2>2. DayCovers'
    BY <1>0, <2>1, DayKept
  <2>3. PicturesTypeOK' /\ WorkerOwns' /\ BreakerCounts' /\ LiveIsHeld' /\ HoldIsLive'
    BY <2>1 DEF PicturesInv, PicturesTypeOK, WorkerOwns, BreakerCounts, LiveIsHeld, HoldIsLive
  <2>4. ASSUME at = "sent", DailyImages > 0 PROVE spent + 1 <= DailyImages
    <3>1. owner \in holds
      BY <2>1, <2>4 DEF PicturesInv, WorkerOwns
    <3>2. /\ Cardinality(holds \ {owner}) = Cardinality(holds) - 1
          /\ Cardinality(holds \ {owner}) \in Nat /\ Cardinality(holds) \in Nat
      BY <1>0, <3>1, HoldsCount
    <3>3. Cardinality(holds) >= 1
      BY <3>2
    <3>4. spent + Cardinality(holds) <= DailyImages /\ DailyImages \in Nat
      BY <1>0, <2>4, PicturesAssumption DEF DayCovers
    <3> QED
      BY <1>0, <3>2, <3>3, <3>4
  <2>5. SentFits'
    BY <2>1, <2>4 DEF SentFits
  <2> QED
    BY <2>2, <2>3, <2>5 DEF PicturesInv
<1>15. CASE HostRestarts
  <2>1. /\ picture' = [p \in Pictures |-> IF picture[p] = "new" THEN "new" ELSE "over"]
        /\ spent' \in 0..spent /\ admitting' = {} /\ holds' = {}
        /\ owner' = Nobody /\ at' = "none" /\ abandons' = 0 /\ costs' = 0 /\ closing' = FALSE
    BY <1>15 DEF HostRestarts
  <2>8. suspect' \in BOOLEAN /\ closing' \in BOOLEAN
    BY <1>15 DEF HostRestarts
  <2>2. Cardinality(holds) \in Nat /\ DailyImages \in Nat /\ spent \in Nat
    BY <1>0, HoldsCount, PicturesAssumption DEF PicturesTypeOK
  <2>7. spent' \in Nat /\ spent' <= spent
    BY <2>1, <2>2
  <2>3. Cardinality(holds') = 0
    BY <2>1, FS_EmptySet
  <2>9. DailyImages > 0 => spent' <= DailyImages
    BY <1>0, <2>2, <2>7 DEF DayCovers
  <2>10. \A x \in Nat : x + 0 = x
    OBVIOUS
  <2>11. spent' + Cardinality(holds') = spent'
    BY <2>3, <2>7, <2>10, Zenon
  <2>4. DayCovers'
    BY <2>9, <2>11 DEF DayCovers
  <2>5. PicturesTypeOK' /\ WorkerOwns' /\ BreakerCounts'
    BY <2>1, <2>7, <2>8 DEF PicturesInv, PicturesTypeOK, WorkerOwns, BreakerCounts, Places
  <2>6. LiveIsHeld' /\ HoldIsLive' /\ SentFits'
    BY <2>1 DEF LiveIsHeld, HoldIsLive, SentFits
  <2> QED
    BY <2>4, <2>5, <2>6 DEF PicturesInv
<1> QED
  BY <1>2, <1>3, <1>4, <1>5, <1>6, <1>7, <1>8, <1>9, <1>10, <1>11, <1>12, <1>13, <1>14, <1>15, <1>16
     DEF PicturesNext

\* However jobs are submitted, cancelled, lost, answered late or cut off by a
\* restart or a midnight, no day gives out more images than the key's limit,
\* and the failures that cost one are at most two between two stored images.
THEOREM ImageDayAlwaysHolds == PicturesSpec => []ImageDayHolds
<1>1. PicturesInit => PicturesInv
  <2> SUFFICES ASSUME PicturesInit PROVE PicturesInv
    OBVIOUS
  <2>0. /\ picture = [p \in Pictures |-> "new"] /\ admitting = {} /\ holds = {} /\ spent = 0
        /\ owner = Nobody /\ at = "none" /\ abandons = 0 /\ costs = 0 /\ closing = FALSE
    BY DEF PicturesInit
  <2>1. Cardinality({}) = 0 /\ DailyImages \in Nat
    BY FS_EmptySet, PicturesAssumption
  <2>2. DayCovers
    BY <2>0, <2>1 DEF DayCovers
  <2>5. suspect \in BOOLEAN /\ closing \in BOOLEAN
    BY DEF PicturesInit
  <2>3. PicturesTypeOK
    BY <2>0, <2>5 DEF PicturesTypeOK, Places
  <2>4. WorkerOwns /\ BreakerCounts /\ LiveIsHeld /\ HoldIsLive /\ SentFits
    BY <2>0 DEF WorkerOwns, BreakerCounts, LiveIsHeld, HoldIsLive, SentFits
  <2> QED
    BY <2>2, <2>3, <2>4 DEF PicturesInv
<1> QED
  BY <1>1, PicturesStep, PicturesImplies, PTL DEF PicturesSpec

----------------------------------------------------------------------------
(***************************************************************************)
(* The day of speech and transcription.  Every call has one claim on its   *)
(* class's day: what it reserved while it is under way, and, once it is in *)
(* today's meters, what it was charged up to that.  The claims of a class  *)
(* never exceed its limit; only a duration an engine measured beyond the   *)
(* reservation takes the meter further.                                    *)
(***************************************************************************)
AudioPlaces == {"new", "reserve", "queue", "call", "relay", "settle", "over"}
Underway == {"queue", "call", "relay", "settle"}

AudioTypeOK ==
    /\ call \in [Audio -> AudioPlaces] /\ held \in [Audio -> Nat] /\ cost \in [Audio -> Nat]
    /\ counted \in SUBSET Audio

\* A call is charged and counted at its end.
ChargedAtEnd == \A r \in Audio : (r \in counted \/ cost[r] > 0) => call[r] = "over"

\* Nothing is held before a reservation.
HeldAfterReserve == \A r \in Audio : call[r] \in {"new", "reserve"} => held[r] = 0

\* The second half of AudioDayHolds.
CostIsEarned ==
    \A r \in Audio : cost[r] > 0 =>
       /\ r \in written
       /\ r \in Voices => cost[r] = held[r] /\ (result[r] = "served" \/ r \in heard)

Kept(r) == IF cost[r] > held[r] THEN held[r] ELSE cost[r]
Claim == [r \in Audio |-> IF r \in counted THEN Kept(r)
                          ELSE IF call[r] \in Underway THEN held[r] ELSE 0]

ClaimsFit ==
    \A C \in {Voices, Notes} : \A r \in C : DayLimit(r) > 0 => SumOn(Claim, C) <= DayLimit(r)

ResultIsMap == result = [r \in Audio |-> result[r]]
AudioInv ==
    AudioTypeOK /\ ResultIsMap /\ ChargedAtEnd /\ HeldAfterReserve /\ CostIsEarned /\ ClaimsFit

\* Claims are numbers over finite classes.
LEMMA ClaimType ==
    ASSUME AudioTypeOK
    PROVE  /\ Claim \in [Audio -> Nat]
           /\ \A C \in {Voices, Notes} : IsFiniteSet(C) /\ C \subseteq Audio /\ NatOn(Claim, C)
                                          /\ SumOn(Claim, C) \in Nat
<1>1. \A r \in Audio : held[r] \in Nat /\ cost[r] \in Nat
  BY DEF AudioTypeOK
<1>2. \A r \in Audio : Kept(r) \in Nat
  BY <1>1 DEF Kept
<1>3. Claim \in [Audio -> Nat]
  BY <1>1, <1>2 DEF Claim
<1> HIDE DEF Claim
<1>4. ASSUME NEW C \in {Voices, Notes}
      PROVE  IsFiniteSet(C) /\ C \subseteq Audio /\ NatOn(Claim, C)
  BY <1>3, AudioAssumption DEF Audio, NatOn
<1> QED
  BY <1>3, <1>4, SumType

\* The claims of a class are its charges, as far as they were reserved, and
\* its live reservations.
LEMMA ClaimsAreCharges ==
    ASSUME AudioTypeOK, ChargedAtEnd, NEW C \in {Voices, Notes}
    PROVE  /\ SumOn(Claim, C) = SumOn([r \in Audio |-> Kept(r)], counted \cap C)
                                  + SumOn(held, Reserving(C))
           /\ SumOn(cost, counted \cap C)
                = SumOn([r \in Audio |-> Kept(r)], counted \cap C)
                    + SumOn([r \in Audio |-> Beyond(r)], counted \cap C)
           /\ SumOn([r \in Audio |-> Kept(r)], counted \cap C) \in Nat
           /\ SumOn([r \in Audio |-> Beyond(r)], counted \cap C) \in Nat
           /\ SumOn(held, Reserving(C)) \in Nat
<1> DEFINE kept == [r \in Audio |-> Kept(r)]
           more == [r \in Audio |-> Beyond(r)]
           A == counted \cap C
           B == Reserving(C)
           R == C \ (A \cup B)
<1>1. C \subseteq Audio /\ IsFiniteSet(C) /\ Claim \in [Audio -> Nat]
  BY ClaimType
<1>2. A \subseteq C /\ B \subseteq C /\ R \subseteq C /\ A \cap B = {}
  BY <1>1 DEF ChargedAtEnd, Reserving
<1>3. IsFiniteSet(A) /\ IsFiniteSet(B) /\ IsFiniteSet(R) /\ IsFiniteSet(A \cup B)
  BY <1>1, <1>2, FS_Subset, A \cup B \subseteq C
<1>4. (A \cup B) \cap R = {} /\ (A \cup B) \cup R = C
  BY <1>2
<1>5. \A r \in Audio : held[r] \in Nat /\ cost[r] \in Nat
  BY DEF AudioTypeOK
<1>6. \A r \in Audio : kept[r] \in Nat /\ more[r] \in Nat /\ cost[r] = kept[r] + more[r]
  BY <1>5 DEF Kept, Beyond
<1>7. \A r \in A : kept[r] = Claim[r]
  BY <1>1, <1>2 DEF Claim
<1>8. \A r \in B : held[r] = Claim[r]
  BY <1>1, <1>2 DEF Claim, Reserving, Underway
<1>9. \A r \in R : Claim[r] = 0
  BY <1>1, <1>2 DEF Claim, Reserving, Underway
<1> HIDE DEF kept, more, A, B, R, Claim
<1>10. /\ NatOn(Claim, A) /\ NatOn(Claim, B) /\ NatOn(Claim, A \cup B) /\ NatOn(Claim, R)
       /\ NatOn(kept, A) /\ NatOn(more, A) /\ NatOn(held, B)
  BY <1>1, <1>2, <1>5, <1>6 DEF NatOn
<1>11. SumOn(Claim, C) = SumOn(Claim, A \cup B) + SumOn(Claim, R)
  BY <1>3, <1>4, <1>10, SumDisjoint
<1>12. SumOn(Claim, A \cup B) = SumOn(Claim, A) + SumOn(Claim, B)
  BY <1>2, <1>3, <1>10, SumDisjoint
<1>13. SumOn(Claim, R) = 0
  BY <1>3, <1>9, SumZero
<1>14. SumOn(kept, A) = SumOn(Claim, A)
  BY <1>3, <1>7, <1>10, SumSame
<1>15. SumOn(held, B) = SumOn(Claim, B)
  BY <1>3, <1>8, <1>10, SumSame
<1>16. \A r \in A : cost[r] = kept[r] + more[r]
  BY <1>1, <1>2, <1>6
<1>17. SumOn(cost, A) = SumOn(kept, A) + SumOn(more, A)
  BY <1>3, <1>10, <1>16, SumPlus
<1>18. SumOn(kept, A) \in Nat /\ SumOn(more, A) \in Nat /\ SumOn(held, B) \in Nat
  BY <1>3, <1>10, SumType
<1>19. SumOn(Claim, C) = SumOn(kept, A) + SumOn(held, B)
  BY <1>11, <1>12, <1>13, <1>14, <1>15, <1>18
<1> QED
  BY <1>17, <1>18, <1>19 DEF kept, more, A, B

\* The invariant says what the key was promised.
LEMMA AudioImplies == AudioInv => AudioDayHolds
<1> SUFFICES ASSUME AudioInv PROVE AudioDayHolds
  OBVIOUS
<1>1. ASSUME NEW C \in {Voices, Notes}, NEW r \in C, DayLimit(r) > 0
      PROVE  Total(cost, counted \cap C) + Total(held, Reserving(C))
               <= DayLimit(r) + Total([x \in Audio |-> Beyond(x)], counted \cap C)
  <2> DEFINE k == SumOn([x \in Audio |-> Kept(x)], counted \cap C)
             b == SumOn([x \in Audio |-> Beyond(x)], counted \cap C)
             c == SumOn(cost, counted \cap C)
             h == SumOn(held, Reserving(C))
             s == SumOn(Claim, C)
  <2>1. s = k + h /\ c = k + b /\ k \in Nat /\ b \in Nat /\ h \in Nat
    BY ClaimsAreCharges DEF AudioInv
  <2>2. s <= DayLimit(r) /\ DayLimit(r) \in Nat
    BY <1>1, AudioAssumption DEF AudioInv, ClaimsFit, DayLimit
  <2> HIDE DEF k, b, c, h, s
  <2>3. c + h <= DayLimit(r) + b
    BY <2>1, <2>2
  <2> QED
    BY <2>3 DEF Total, SumOn, b, c, h
<1> QED
  BY <1>1 DEF AudioInv, AudioDayHolds, CostIsEarned

\* The same after a step.
LEMMA ClaimTypeAfter == AudioTypeOK' => Claim' \in [Audio -> Nat]
<1>1. AudioTypeOK => Claim \in [Audio -> Nat]
  BY ClaimType
<1>2. (AudioTypeOK => Claim \in [Audio -> Nat])'
  BY <1>1, PTL
<1> QED
  BY <1>2

\* Steps that raise no claim keep the claims within the day.
LEMMA ClaimsShrink ==
    ASSUME AudioTypeOK, AudioTypeOK', ClaimsFit, \A r \in Audio : Claim'[r] <= Claim[r]
    PROVE  ClaimsFit'
<1>1. Claim' \in [Audio -> Nat]
  BY ClaimTypeAfter
<1>2. ASSUME NEW C \in {Voices, Notes}, NEW r \in C, DayLimit(r) > 0
      PROVE  SumOn(Claim', C) <= DayLimit(r)
  <2>1. IsFiniteSet(C) /\ C \subseteq Audio /\ NatOn(Claim, C) /\ SumOn(Claim, C) \in Nat
    BY ClaimType
  <2>2. NatOn(Claim', C)
    BY <1>1, <2>1 DEF NatOn
  <2>3. \A x \in C : Claim'[x] <= Claim[x]
    BY <2>1
  <2>4. SumOn(Claim, C) <= DayLimit(r) /\ DayLimit(r) \in Nat
    BY <1>2, AudioAssumption DEF ClaimsFit, DayLimit
  <2> DEFINE before == Claim
             after == Claim'
  <2>5. /\ NatOn(before, C) /\ NatOn(after, C) /\ \A x \in C : after[x] <= before[x]
    BY <2>1, <2>2, <2>3
  <2> HIDE DEF before, after
  <2>6. SumOn(after, C) <= SumOn(before, C) /\ SumOn(after, C) \in Nat
    BY <2>1, <2>5, SumMonotone, SumType
  <2> QED
    BY <2>1, <2>4, <2>6 DEF before, after
<1> QED
  BY <1>2 DEF ClaimsFit

\* A reservation that was found room for raises one claim, by as much.
LEMMA ReserveKeeps ==
    ASSUME AudioInv, AudioTypeOK', NEW r \in Audio, NEW need \in Amounts,
           call[r] = "reserve", RoomFor(r, need),
           Claim' = [Claim EXCEPT ![r] = need], Claim[r] = 0
    PROVE  ClaimsFit'
<1>1. Claim' \in [Audio -> Nat] /\ Claim \in [Audio -> Nat]
  BY ClaimTypeAfter, ClaimType DEF AudioInv
<1>2. ASSUME NEW C \in {Voices, Notes}, NEW q \in C, DayLimit(q) > 0
      PROVE  SumOn(Claim', C) <= DayLimit(q)
  <2>1. IsFiniteSet(C) /\ C \subseteq Audio /\ SumOn(Claim, C) \in Nat
    BY ClaimType DEF AudioInv
  <2>2. DayLimit(q) \in Nat /\ need \in Nat
    BY AudioAssumption DEF DayLimit
  <2>3. SumOn(Claim, C) <= DayLimit(q)
    BY <1>2 DEF AudioInv, ClaimsFit
  <2> DEFINE before == Claim
             after == Claim'
  <2>4. /\ NatOn(before, C) /\ NatOn(after, C) /\ before[r] = 0 /\ after[r] = need
        /\ \A x \in C \ {r} : after[x] = before[x]
    BY <1>1, <2>1 DEF NatOn
  <2>5. CASE r \notin C
    <3> HIDE DEF before, after
    <3>1. \A x \in C : before[x] = after[x]
      BY <2>4, <2>5
    <3>2. SumOn(before, C) = SumOn(after, C)
      BY <2>1, <2>4, <3>1, SumSame
    <3> QED
      BY <2>3, <3>2 DEF before, after
  <2>6. CASE r \in C
    <3>1. Class(r) = C /\ DayLimit(r) = DayLimit(q)
      BY <2>6, AudioAssumption DEF Class, DayLimit
    <3> DEFINE k == SumOn([x \in Audio |-> Kept(x)], counted \cap C)
               b == SumOn([x \in Audio |-> Beyond(x)], counted \cap C)
               c == SumOn(cost, counted \cap C)
               h == SumOn(held, Reserving(C))
               s == SumOn(before, C)
               t == SumOn(after, C)
    <3>2. s = k + h /\ c = k + b /\ k \in Nat /\ b \in Nat /\ h \in Nat
      BY ClaimsAreCharges DEF AudioInv
    <3>3. c + h + need <= DayLimit(q)
      <4>1. DayLimit(r) # 0
        BY <1>2, <2>2, <3>1
      <4> QED
        BY <3>1, <4>1 DEF RoomFor, Total, SumOn
    <3>4. s + need <= DayLimit(q)
      <4> HIDE DEF k, b, c, h, s, t
      <4> QED
        BY <2>2, <3>2, <3>3
    <3> HIDE DEF before, after
    <3>5. t = SumOn(after, C \ {r}) + need /\ s = SumOn(before, C \ {r}) + 0
      BY <2>1, <2>4, <2>6, SumRemove
    <3>6. IsFiniteSet(C \ {r}) /\ NatOn(before, C \ {r})
      BY <2>1, <2>4, FS_Subset, C \ {r} \subseteq C DEF NatOn
    <3>7. SumOn(before, C \ {r}) = SumOn(after, C \ {r}) /\ SumOn(before, C \ {r}) \in Nat
      BY <2>4, <3>6, SumSame, SumType
    <3> HIDE DEF s, t
    <3>8. t <= DayLimit(q)
      BY <2>2, <3>4, <3>5, <3>7
    <3> QED
      BY <3>8 DEF t, after
  <2> QED
    BY <2>5, <2>6
<1> QED
  BY <1>2 DEF ClaimsFit

\* A step of a call under way that changes neither what it holds nor what it
\* costs: it may only move it on, and note where it failed or that it is heard.
LEMMA CallMovesKeep ==
    ASSUME AudioInv, NEW r \in Audio, NEW to \in AudioPlaces,
           call[r] # "over", to \in Underway => call[r] \in Underway \/ held[r] = 0,
           to \in {"new", "reserve"} => held[r] = 0,
           call' = [call EXCEPT ![r] = to], UNCHANGED <<held, cost, counted>>,
           \A q \in Audio : q # r => result'[q] = result[q], ResultIsMap',
           written \subseteq written', heard \subseteq heard'
    PROVE  AudioInv'
<1>1. AudioTypeOK'
  BY DEF AudioInv, AudioTypeOK
<1>2. r \notin counted /\ cost[r] \in Nat /\ ~(cost[r] > 0)
  BY DEF AudioInv, ChargedAtEnd, AudioTypeOK
<1>3. ChargedAtEnd'
  BY <1>2 DEF AudioInv, ChargedAtEnd, AudioTypeOK
<1>4. CostIsEarned'
  BY <1>2 DEF AudioInv, CostIsEarned, AudioTypeOK
<1>5. \A q \in Audio : held[q] \in Nat /\ cost[q] \in Nat
  BY DEF AudioInv, AudioTypeOK
<1>6. \A q \in Audio : Kept(q)' = Kept(q) /\ Kept(q) \in Nat
  BY <1>5 DEF Kept
<1>7. \A q \in Audio : Claim'[q] <= Claim[q]
  <2> TAKE q \in Audio
  <2>1. CASE q = r
    BY <1>2, <1>5, <2>1 DEF Claim, AudioInv, AudioTypeOK
  <2>2. CASE q # r
    BY <1>5, <1>6, <2>2 DEF Claim, AudioInv, AudioTypeOK
  <2> QED
    BY <2>1, <2>2
<1>8. ClaimsFit'
  BY <1>1, <1>7, ClaimsShrink DEF AudioInv
<1>9. HeldAfterReserve'
  BY DEF AudioInv, HeldAfterReserve, AudioTypeOK
<1> QED
  BY <1>1, <1>3, <1>4, <1>8, <1>9 DEF AudioInv

\* Moves and Fails, as the lemma above wants them.
LEMMA MovesOn ==
    ASSUME ResultIsMap, NEW r \in Audio, NEW to, NEW o
    PROVE  /\ Moves(r, to) => /\ call' = [call EXCEPT ![r] = to] /\ ResultIsMap'
                              /\ \A q \in Audio : q # r => result'[q] = result[q]
           /\ Fails(r, o) => /\ call' = [call EXCEPT ![r] = "settle"] /\ ResultIsMap'
                             /\ \A q \in Audio : q # r => result'[q] = result[q]
BY DEF Moves, Fails, ResultIsMap

\* Every step keeps the invariant.
LEMMA AudioStep == AudioInv /\ [AudioNext(Voices) \/ AudioNext(Notes)]_audioVars => AudioInv'
<1> SUFFICES ASSUME AudioInv, [AudioNext(Voices) \/ AudioNext(Notes)]_audioVars PROVE AudioInv'
  OBVIOUS
<1>0. AudioTypeOK /\ ResultIsMap /\ ChargedAtEnd /\ HeldAfterReserve /\ CostIsEarned /\ ClaimsFit
  BY DEF AudioInv
<1>1. ASSUME NEW r \in Audio, AudioArrives(r) PROVE AudioInv'
  <2>1. held[r] = 0 /\ call[r] = "new" /\ UNCHANGED <<held, cost, counted, written, heard>>
    BY <1>0, <1>1 DEF AudioArrives, HeldAfterReserve
  <2>2. Moves(r, "reserve") \/ Fails(r, "rejected") \/ Moves(r, "over")
    BY <1>1 DEF AudioArrives
  <2>3. CASE Moves(r, "reserve")
    BY <1>0, <2>1, <2>3, MovesOn, CallMovesKeep DEF AudioPlaces, Underway
  <2>4. CASE Fails(r, "rejected")
    BY <1>0, <2>1, <2>4, MovesOn, CallMovesKeep DEF AudioPlaces, Underway
  <2>5. CASE Moves(r, "over")
    BY <1>0, <2>1, <2>5, MovesOn, CallMovesKeep DEF AudioPlaces, Underway
  <2> QED
    BY <2>2, <2>3, <2>4, <2>5
<1>2. ASSUME NEW r \in Audio, ReserveAudio(r) PROVE AudioInv'
  <2>1. held[r] = 0 /\ call[r] = "reserve" /\ UNCHANGED <<cost, counted, written, heard>>
    BY <1>0, <1>2 DEF ReserveAudio, HeldAfterReserve
  <2>2. PICK need \in Amounts :
           \/ RoomFor(r, need) /\ held' = [held EXCEPT ![r] = need] /\ Moves(r, "queue")
           \/ ~RoomFor(r, need) /\ Fails(r, "rejected") /\ UNCHANGED held
    BY <1>2 DEF ReserveAudio
  <2>3. CASE Fails(r, "rejected") /\ UNCHANGED held
    BY <1>0, <2>1, <2>3, MovesOn, CallMovesKeep DEF AudioPlaces, Underway
  <2>4. CASE RoomFor(r, need) /\ held' = [held EXCEPT ![r] = need] /\ Moves(r, "queue")
    <3>1. call' = [call EXCEPT ![r] = "queue"] /\ result' = result /\ need \in Nat
      BY <2>4, AudioAssumption DEF Moves
    <3>2. AudioTypeOK'
      BY <1>0, <2>1, <2>4, <3>1 DEF AudioTypeOK, AudioPlaces
    <3>3. \A q \in Audio : held[q] \in Nat /\ cost[q] \in Nat
      BY <1>0 DEF AudioTypeOK
    <3>4. r \notin counted /\ ~(cost[r] > 0)
      BY <1>0, <2>1, <3>3 DEF ChargedAtEnd
    <3>5. ResultIsMap' /\ ChargedAtEnd' /\ HeldAfterReserve'
      BY <1>0, <2>1, <2>4, <3>1, <3>3, <3>4
         DEF ResultIsMap, ChargedAtEnd, HeldAfterReserve, AudioTypeOK
    <3>6. CostIsEarned'
      BY <1>0, <2>1, <2>4, <3>1, <3>4 DEF CostIsEarned, AudioTypeOK
    <3>7. \A q \in Audio : q # r => held'[q] = held[q] /\ call'[q] = call[q]
      BY <1>0, <2>4, <3>1 DEF AudioTypeOK
    <3>8. \A q \in Audio : q # r => Kept(q)' = Kept(q)
      BY <2>1, <3>7 DEF Kept
    <3>9. Claim[r] = 0 /\ Claim'[r] = need
      BY <1>0, <2>1, <2>4, <3>1, <3>4 DEF Claim, AudioTypeOK, Underway
    <3>10. \A q \in Audio : q # r => Claim'[q] = Claim[q]
      BY <2>1, <3>7, <3>8 DEF Claim
    <3>11. Claim' = [Claim EXCEPT ![r] = need]
      BY <3>9, <3>10 DEF Claim
    <3>12. ClaimsFit'
      BY <2>1, <2>4, <3>2, <3>9, <3>11, ReserveKeeps
    <3> QED
      BY <3>2, <3>5, <3>6, <3>12 DEF AudioInv
  <2> QED
    BY <2>2, <2>3, <2>4
<1>3. ASSUME NEW r \in Audio, AudioSlot(r) PROVE AudioInv'
  <2>1. /\ call[r] = "queue" /\ UNCHANGED <<held, cost, counted, written, heard>>
        /\ Moves(r, "call") \/ Fails(r, "queue_lost")
    BY <1>3 DEF AudioSlot
  <2>2. CASE Moves(r, "call")
    BY <1>0, <2>1, <2>2, MovesOn, CallMovesKeep DEF AudioPlaces, Underway
  <2>3. CASE Fails(r, "queue_lost")
    BY <1>0, <2>1, <2>3, MovesOn, CallMovesKeep DEF AudioPlaces, Underway
  <2> QED
    BY <2>1, <2>2, <2>3
<1>4. ASSUME NEW r \in Audio, CallAudio(r) PROVE AudioInv'
  <2>1. /\ call[r] = "call" /\ UNCHANGED <<held, cost, counted, heard>> /\ written \subseteq written'
    BY <1>4 DEF CallAudio
  <2>2. Moves(r, "relay") \/ \E o \in {"cut", "engine_err"} : Fails(r, o)
    BY <1>4 DEF CallAudio
  <2>3. CASE Moves(r, "relay")
    BY <1>0, <2>1, <2>3, MovesOn, CallMovesKeep DEF AudioPlaces, Underway
  <2>4. CASE \E o \in {"cut", "engine_err"} : Fails(r, o)
    <3>1. PICK o \in {"cut", "engine_err"} : Fails(r, o)
      BY <2>4
    <3> QED
      BY <1>0, <2>1, <3>1, MovesOn, CallMovesKeep DEF AudioPlaces, Underway
  <2> QED
    BY <2>2, <2>3, <2>4
<1>5. ASSUME NEW r \in Audio, RelayText(r) \/ RelaySpeech(r) PROVE AudioInv'
  <2>1. /\ call[r] = "relay" /\ UNCHANGED <<held, cost, counted, written>> /\ heard \subseteq heard'
    BY <1>5 DEF RelayText, RelaySpeech
  <2>2. UNCHANGED <<call, result>> \/ \E o \in {"cut", "engine_err", "served", "left"} : Fails(r, o)
    BY <1>5 DEF RelayText, RelaySpeech
  <2>3. CASE UNCHANGED <<call, result>>
    <3>1. call' = [call EXCEPT ![r] = "relay"]
      BY <1>0, <2>1, <2>3 DEF AudioTypeOK
    <3>2. ResultIsMap' /\ \A q \in Audio : q # r => result'[q] = result[q]
      BY <1>0, <2>3 DEF ResultIsMap
    <3> QED
      BY <2>1, <3>1, <3>2, CallMovesKeep DEF AudioPlaces, Underway
  <2>4. CASE \E o \in {"cut", "engine_err", "served", "left"} : Fails(r, o)
    <3>1. PICK o \in {"cut", "engine_err", "served", "left"} : Fails(r, o)
      BY <2>4
    <3> QED
      BY <1>0, <2>1, <3>1, MovesOn, CallMovesKeep DEF AudioPlaces, Underway
  <2> QED
    BY <2>2, <2>3, <2>4
<1>6. ASSUME NEW r \in Audio, SettleAudio(r) PROVE AudioInv'
  <2>1. /\ call[r] = "settle" /\ call' = [call EXCEPT ![r] = "over"]
        /\ counted' = counted \cup {r} /\ UNCHANGED <<held, written, heard, result>>
    BY <1>6 DEF SettleAudio
  <2>2. PICK c \in AudioCosts(r) : cost' = [cost EXCEPT ![r] = c]
    BY <1>6 DEF SettleAudio
  <2>3. \A q \in Audio : held[q] \in Nat /\ cost[q] \in Nat
    BY <1>0 DEF AudioTypeOK
  <2>4. c \in Nat
    BY <2>2, <2>3, AudioAssumption DEF AudioCosts
  <2>5. c > 0 => /\ r \in written
                 /\ r \in Voices => c = held[r] /\ (result[r] = "served" \/ r \in heard)
    BY <2>2 DEF AudioCosts
  <2>6. AudioTypeOK'
    BY <1>0, <2>1, <2>2, <2>4 DEF AudioTypeOK, AudioPlaces
  <2>7. ResultIsMap' /\ ChargedAtEnd' /\ HeldAfterReserve'
    BY <1>0, <2>1, <2>2 DEF ResultIsMap, ChargedAtEnd, HeldAfterReserve, AudioTypeOK
  <2>8. CostIsEarned'
    BY <1>0, <2>1, <2>2, <2>5 DEF CostIsEarned, AudioTypeOK
  <2>9. \A q \in Audio : q # r => Claim'[q] = Claim[q] /\ Claim[q] \in Nat
    <3>1. \A q \in Audio : q # r => /\ held'[q] = held[q] /\ cost'[q] = cost[q] /\ call'[q] = call[q]
                                    /\ q \in counted' <=> q \in counted
      BY <1>0, <2>1, <2>2 DEF AudioTypeOK
    <3>2. \A q \in Audio : q # r => Kept(q)' = Kept(q)
      BY <3>1 DEF Kept
    <3>3. Claim \in [Audio -> Nat]
      BY <1>0, ClaimType
    <3>4. \A q \in Audio : q # r => Claim'[q] = Claim[q]
      BY <3>1, <3>2 DEF Claim
    <3> QED
      BY <3>3, <3>4
  <2>10. Claim'[r] <= Claim[r]
    <3>1. Claim[r] = held[r]
      BY <1>0, <2>1 DEF Claim, ChargedAtEnd, Underway
    <3>2. Claim'[r] = Kept(r)'
      BY <2>1 DEF Claim
    <3>3. Kept(r)' = IF c > held[r] THEN held[r] ELSE c
      BY <1>0, <2>1, <2>2 DEF Kept, AudioTypeOK
    <3> QED
      BY <2>3, <2>4, <3>1, <3>2, <3>3
  <2>11. \A q \in Audio : Claim'[q] <= Claim[q]
    BY <2>9, <2>10
  <2>12. ClaimsFit'
    BY <1>0, <2>6, <2>11, ClaimsShrink
  <2> QED
    BY <2>6, <2>7, <2>8, <2>12 DEF AudioInv
<1>7. CASE /\ counted' \in SUBSET counted /\ UNCHANGED <<held, written, heard, result, cost>>
           /\ \/ UNCHANGED call
              \/ call' = [r \in Audio |-> IF call[r] = "new" THEN "new" ELSE "over"]
  <2>1. AudioTypeOK' /\ ResultIsMap'
    BY <1>0, <1>7 DEF AudioTypeOK, AudioPlaces, ResultIsMap
  <2>2. ChargedAtEnd' /\ HeldAfterReserve' /\ CostIsEarned'
    BY <1>0, <1>7 DEF AudioTypeOK, ChargedAtEnd, HeldAfterReserve, CostIsEarned
  <2>3. \A q \in Audio : held[q] \in Nat /\ cost[q] \in Nat
    BY <1>0 DEF AudioTypeOK
  <2>4. \A q \in Audio : Kept(q)' = Kept(q) /\ Kept(q) \in Nat
    BY <1>7, <2>3 DEF Kept
  <2>5. ASSUME NEW q \in Audio PROVE Claim'[q] <= Claim[q]
    <3>1. CASE q \in counted
      <4>1. Claim[q] = Kept(q) /\ call[q] = "over"
        BY <1>0, <3>1 DEF Claim, ChargedAtEnd
      <4>2. call'[q] = "over"
        BY <1>7, <4>1
      <4>3. Claim'[q] \in {Kept(q)', 0}
        BY <4>2 DEF Claim, Underway
      <4> QED
        BY <2>4, <4>1, <4>3
    <3>2. CASE q \notin counted
      <4>1. q \notin counted' /\ (call'[q] \in Underway => call[q] \in Underway)
        BY <1>7, <3>2 DEF Underway
      <4>2. Claim'[q] = IF call'[q] \in Underway THEN held'[q] ELSE 0
        BY <4>1 DEF Claim
      <4>3. Claim[q] = IF call[q] \in Underway THEN held[q] ELSE 0
        BY <3>2 DEF Claim
      <4> QED
        BY <1>7, <2>3, <4>1, <4>2, <4>3
    <3> QED
      BY <3>1, <3>2
  <2>6. ClaimsFit'
    BY <1>0, <2>1, <2>5, ClaimsShrink
  <2> QED
    BY <2>1, <2>2, <2>6 DEF AudioInv
<1>8. ASSUME NEW r \in Audio, ListenerLeaves(r) PROVE AudioInv'
  BY <1>7, <1>8 DEF ListenerLeaves
<1>9. CASE AudioDayTurns \/ AudioRestarts \/ UNCHANGED audioVars
  BY <1>7, <1>9 DEF AudioDayTurns, AudioRestarts, audioVars
<1> QED
  <2>1. AudioDayTurns \/ AudioRestarts \/ UNCHANGED audioVars
        \/ \E r \in Audio : \/ AudioArrives(r) \/ ReserveAudio(r) \/ AudioSlot(r) \/ CallAudio(r)
                            \/ RelayText(r) \/ RelaySpeech(r) \/ SettleAudio(r) \/ ListenerLeaves(r)
    BY DEF AudioNext, Audio
  <2> QED
    BY <1>1, <1>2, <1>3, <1>4, <1>5, <1>6, <1>8, <1>9, <2>1

\* However calls of a key overlap, fail, are left by their friend or are cut
\* off by a restart or a midnight, the charges and reservations of a day stay
\* within it but for measured overruns, and only delivered speech costs.
THEOREM AudioDayAlwaysHolds == AudioSpec => []AudioDayHolds
<1>1. AudioInit => AudioInv
  <2> SUFFICES ASSUME AudioInit PROVE AudioInv
    OBVIOUS
  <2>1. /\ call = [r \in Audio |-> "new"] /\ held = [r \in Audio |-> 0] /\ cost = held
        /\ counted = {} /\ result = [r \in Audio |-> "none"]
    BY DEF AudioInit
  <2>2. AudioTypeOK
    BY <2>1 DEF AudioTypeOK, AudioPlaces
  <2>3. ResultIsMap /\ ChargedAtEnd /\ HeldAfterReserve /\ CostIsEarned
    BY <2>1 DEF ResultIsMap, ChargedAtEnd, HeldAfterReserve, CostIsEarned
  <2>4. \A r \in Audio : Claim[r] = 0
    BY <2>1 DEF Claim, Underway
  <2>5. ASSUME NEW C \in {Voices, Notes}, NEW r \in C, DayLimit(r) > 0
        PROVE  SumOn(Claim, C) <= DayLimit(r)
    <3>1. IsFiniteSet(C) /\ C \subseteq Audio
      BY <2>2, ClaimType
    <3> HIDE DEF Claim
    <3>2. SumOn(Claim, C) = 0
      BY <2>4, <3>1, SumZero
    <3>3. DayLimit(r) \in Nat
      BY AudioAssumption DEF DayLimit
    <3> QED
      BY <3>2, <3>3
  <2> QED
    BY <2>2, <2>3, <2>5 DEF AudioInv, ClaimsFit
<1> QED
  BY <1>1, AudioStep, AudioImplies, PTL DEF AudioSpec

-----------------------------------------------------------------------------
(* The image files.                                                        *)
(*                                                                         *)
(* ImagesAccounted alone is not inductive: a step may unlink what the      *)
(* operation's plan, the retry set or an intent names, so the invariant    *)
(* also says what those may name.                                          *)

\* A snapshot is a record of rows, and no intent names a run that is still in it.
LedgerOK(v) ==
    /\ v = [runs |-> v.runs, cleanup |-> v.cleanup]
    /\ v.runs = [r \in DOMAIN v.runs |-> v.runs[r]]
    /\ \A r \in DOMAIN v.runs : v.runs[r] = Row(v.runs[r].state, v.runs[r].image, v.runs[r].born)
    /\ v.cleanup \cap DOMAIN v.runs = {}

\* The plan of an operation: what only a first step can be, and what never ends it.
LaterSteps == {"drain", "retry", "expire", "scan", "write"}
PlanOK(q) ==
    /\ q \in Seq({q[i] : i \in 1..Len(q)})
    /\ \A i \in 2..Len(q) : q[i].do \in LaterSteps
    /\ \A i \in 1..Len(q) : q[i].do = "expire" => i < Len(q)
    /\ Len(q) # 0 /\ q[1].do \in {"record", "unlink"} => Len(q) = 1

\* What the next step of the plan may rely on.
ForgetOK(set) == set \subseteq catalog.cleanup /\ catalog.cleanup \cap files \subseteq set
RecordOK(r) == r \in files \ pend /\ r \in DOMAIN catalog.runs \ Held(catalog)
UnlinkOK(set) == set \cap Held(catalog) = {} /\ set \cap Held(saved) \subseteq unsure
NextOK(q) ==
    Len(q) # 0 =>
      /\ q[1].do = "forget" => ForgetOK(q[1].set)
      /\ q[1].do = "record" => RecordOK(q[1].run)
      /\ q[1].do = "unlink" => UnlinkOK(q[1].set)
      /\ down => q[1].do = "unlink"

\* Until the key breaks, memory and disk agree and a retry unlinks no held image.
UpOK ==
    /\ catalog = saved
    /\ pend \cap DOMAIN catalog.runs \subseteq files
    /\ pend \cap Held(catalog) = {}

ImagesInv ==
    /\ LedgerOK(catalog) /\ LedgerOK(saved)
    /\ down \in BOOLEAN
    /\ PlanOK(todo) /\ NextOK(todo)
    /\ ~down => UpOK
    /\ ImagesAccounted

\* The fields of a row.
LEMMA RowFields ==
    \A s, i, b : Row(s, i, b).state = s /\ Row(s, i, b).image = i /\ Row(s, i, b).born = b
BY DEF Row

\* w is v with the row (s, i, b) for r, or without the runs of S and with the intents C.
GivesRow(v, w, r, s, i, b) ==
    /\ w = [runs |-> w.runs, cleanup |-> v.cleanup]
    /\ w.runs = [x \in DOMAIN v.runs \cup {r} |-> IF x = r THEN Row(s, i, b) ELSE v.runs[x]]
Drops(v, w, S, C) ==
    /\ w = [Without(v, S) EXCEPT !.cleanup = C]
    /\ C \cap (DOMAIN v.runs \ S) = {}

\* What each change of a snapshot makes of its runs, its held images and its intents.
LEMMA LedgerGone ==
    ASSUME NEW v, LedgerOK(v), NEW S
    PROVE  /\ LedgerOK(WithGone(v, S))
           /\ DOMAIN WithGone(v, S).runs = DOMAIN v.runs
           /\ WithGone(v, S).cleanup = v.cleanup
           /\ Held(WithGone(v, S)) = Held(v) \ S
<1> DEFINE w == WithGone(v, S)
<1>1. v = [runs |-> v.runs, cleanup |-> v.cleanup]
  BY DEF LedgerOK
<1>2. w = [runs |-> w.runs, cleanup |-> v.cleanup] /\ w.cleanup = v.cleanup
  BY <1>1 DEF WithGone
<1>3. w.runs = [r \in DOMAIN v.runs |-> IF r \in S THEN [v.runs[r] EXCEPT !.image = "gone"] ELSE v.runs[r]]
  BY <1>1 DEF WithGone
<1>4. \A r \in DOMAIN v.runs : v.runs[r] = Row(v.runs[r].state, v.runs[r].image, v.runs[r].born)
  BY DEF LedgerOK
<1>5. \A r \in DOMAIN v.runs : w.runs[r] = IF r \in S THEN Row(v.runs[r].state, "gone", v.runs[r].born) ELSE v.runs[r]
  BY <1>3, <1>4 DEF Row
<1>6. DOMAIN w.runs = DOMAIN v.runs
  BY <1>3
<1>7. w.runs = [r \in DOMAIN w.runs |-> w.runs[r]]
  BY <1>3
<1> HIDE DEF w
<1>8. \A r \in DOMAIN w.runs : w.runs[r] = Row(w.runs[r].state, w.runs[r].image, w.runs[r].born)
  <2> TAKE r \in DOMAIN w.runs
  <2>1. CASE r \in S
    <3>1. w.runs[r] = Row(v.runs[r].state, "gone", v.runs[r].born)
      BY <2>1, <1>5, <1>6
    <3> QED
      BY <3>1, RowFields
  <2>2. CASE r \notin S
    BY <2>2, <1>4, <1>5, <1>6
  <2> QED
    BY <2>1, <2>2
<1>9. LedgerOK(w)
  BY <1>2, <1>6, <1>7, <1>8 DEF LedgerOK
<1>10. Held(w) = Held(v) \ S
  <2>1. \A r \in DOMAIN w.runs \cap S : w.runs[r].image = "gone"
    BY <1>5, <1>6, RowFields
  <2>2. \A r \in DOMAIN w.runs \ S : w.runs[r] = v.runs[r]
    BY <1>5, <1>6
  <2>3. "gone" # "held"
    OBVIOUS
  <2> QED
    BY <2>1, <2>2, <2>3, <1>6 DEF Held
<1> QED
  BY <1>2, <1>6, <1>9, <1>10 DEF w

\* Runs leave the snapshot, and its intents are replaced by ones that name none that stays.
LEMMA LedgerWithout ==
    ASSUME NEW v, NEW w, NEW S, NEW C, LedgerOK(v), Drops(v, w, S, C)
    PROVE  LedgerOK(w) /\ DOMAIN w.runs = DOMAIN v.runs \ S /\ w.cleanup = C /\ Held(w) = Held(v) \ S
<1> USE DEF Drops
<1>1. v = [runs |-> v.runs, cleanup |-> v.cleanup]
  BY DEF LedgerOK
<1>2. w = [runs |-> w.runs, cleanup |-> w.cleanup] /\ w.cleanup = C
  BY <1>1 DEF Without
<1>3. w.runs = [r \in DOMAIN v.runs \ S |-> v.runs[r]]
  BY <1>1 DEF Without
<1>4. DOMAIN w.runs = DOMAIN v.runs \ S /\ w.runs = [r \in DOMAIN w.runs |-> w.runs[r]]
  BY <1>3
<1>5. \A r \in DOMAIN w.runs : w.runs[r] = v.runs[r]
  BY <1>3
<1>6. \A r \in DOMAIN w.runs : w.runs[r] = Row(w.runs[r].state, w.runs[r].image, w.runs[r].born)
  BY <1>4, <1>5 DEF LedgerOK
<1>7. LedgerOK(w)
  BY <1>2, <1>4, <1>6 DEF LedgerOK
<1> QED
  BY <1>2, <1>4, <1>5, <1>7 DEF Held

\* One row is replaced, or added.
LEMMA LedgerRow ==
    ASSUME NEW v, NEW w, NEW r, NEW s, NEW i, NEW b,
           LedgerOK(v), r \notin v.cleanup, GivesRow(v, w, r, s, i, b)
    PROVE  /\ LedgerOK(w) /\ DOMAIN w.runs = DOMAIN v.runs \cup {r} /\ w.cleanup = v.cleanup
           /\ Held(w) = (Held(v) \ {r}) \cup (IF i = "held" THEN {r} ELSE {})
<1> USE DEF GivesRow
<1>1. w.cleanup = v.cleanup
  OBVIOUS
<1>2. DOMAIN w.runs = DOMAIN v.runs \cup {r} /\ w.runs = [x \in DOMAIN w.runs |-> w.runs[x]]
  OBVIOUS
<1>3. \A x \in DOMAIN w.runs : w.runs[x] = IF x = r THEN Row(s, i, b) ELSE v.runs[x]
  OBVIOUS
<1>4. \A x \in DOMAIN w.runs : w.runs[x] = Row(w.runs[x].state, w.runs[x].image, w.runs[x].born)
  BY <1>2, <1>3 DEF LedgerOK, Row
<1>5. LedgerOK(w)
  BY <1>1, <1>2, <1>4, ZenonT(60) DEF LedgerOK
<1>6. Held(w) = (Held(v) \ {r}) \cup (IF i = "held" THEN {r} ELSE {})
  BY <1>2, <1>3 DEF Held, Row
<1> QED
  BY <1>1, <1>2, <1>5, <1>6

\* The steps after the first are a plan again, and begin with a step that relies on nothing.
Quiet(q) == Len(q) # 0 => q[1].do \in LaterSteps
\* What remains of a plan when its first step is done.
LEMMA PlanTail ==
    ASSUME NEW q, PlanOK(q), q # <<>>
    PROVE  /\ PlanOK(Tail(q)) /\ Quiet(Tail(q)) /\ Head(q) = q[1] /\ Len(q) # 0
           /\ Head(q).do = "expire" => Tail(q) # <<>>
<1> DEFINE T == {q[i] : i \in 1..Len(q)}
           p == Tail(q)
           U == {p[i] : i \in 1..Len(p)}
<1>1. q \in Seq(T)
  BY DEF PlanOK
<1> HIDE DEF T
<1>2. Len(q) \in Nat /\ Len(q) # 0 /\ Head(q) = q[1]
  BY <1>1
<1>3. p \in Seq(T) /\ Len(p) = Len(q) - 1 /\ \A i \in 1..Len(p) : p[i] = q[i + 1]
  BY <1>1, <1>2
<1> HIDE DEF p
<1>4. \A i \in 1..Len(p) : p[i] \in U
  OBVIOUS
<1>5. p \in Seq(U)
  <2>1. DOMAIN p = 1..Len(p) /\ p = [i \in 1..Len(p) |-> p[i]] /\ Len(p) \in Nat
    BY <1>3
  <2> QED
    BY <2>1, <1>4
<1>6. \A i \in 1..Len(p) : i + 1 \in 2..Len(q) /\ i + 1 \in 1..Len(q)
  BY <1>2, <1>3
<1>7. \A i \in 1..Len(p) : p[i].do \in LaterSteps /\ (p[i].do = "expire" => i < Len(p))
  <2> TAKE i \in 1..Len(p)
  <2>1. p[i].do \in LaterSteps
    BY <1>3, <1>6 DEF PlanOK
  <2>2. p[i].do = "expire" => i + 1 < Len(q)
    BY <1>3, <1>6 DEF PlanOK
  <2>3. i + 1 < Len(q) => i < Len(p)
    BY <1>2, <1>3
  <2> QED
    BY <2>1, <2>2, <2>3
<1>8. Quiet(p)
  BY <1>2, <1>3, <1>7 DEF Quiet
<1>9. PlanOK(p)
  <2>1. \A i \in 2..Len(p) : p[i].do \in LaterSteps
    BY <1>2, <1>3, <1>7
  <2>2. Len(p) # 0 => p[1].do \notin {"record", "unlink"}
    BY <1>8 DEF Quiet, LaterSteps
  <2> QED
    BY <1>5, <1>7, <2>1, <2>2 DEF PlanOK
<1>10. Head(q).do = "expire" => p # <<>>
  BY <1>2, <1>3 DEF PlanOK
<1> QED
  BY <1>2, <1>8, <1>9, <1>10 DEF p

\* A quiet plan may get a step to do before it.
LEMMA PlanBefore ==
    ASSUME NEW q, PlanOK(q), Quiet(q), NEW x, x.do \in {"forget", "drain"}
    PROVE  PlanOK(<<x>> \o q) /\ Len(<<x>> \o q) # 0 /\ (<<x>> \o q)[1] = x
<1> DEFINE T == {q[i] : i \in 1..Len(q)} \cup {x}
           p == <<x>> \o q
           U == {p[i] : i \in 1..Len(p)}
<1>1. q \in Seq(T)
  <2>1. q \in Seq({q[i] : i \in 1..Len(q)})
    BY DEF PlanOK
  <2> QED
    BY <2>1
<1>2. x \in T
  OBVIOUS
<1>3. \A i \in 1..Len(q) : q[i].do = "expire" => i < Len(q)
  BY DEF PlanOK
<1>4. \A i \in 2..Len(q) : q[i].do \in LaterSteps
  BY DEF PlanOK
<1> HIDE DEF T
<1>5. p \in Seq(T) /\ Len(p) = Len(q) + 1 /\ Len(q) \in Nat /\ p[1] = x
  BY <1>1, <1>2
<1>6. \A i \in 2..Len(p) : p[i] = q[i - 1]
  BY <1>1, <1>2
<1> HIDE DEF p
<1>7. p \in Seq(U)
  <2>1. DOMAIN p = 1..Len(p) /\ p = [i \in 1..Len(p) |-> p[i]] /\ Len(p) \in Nat
    BY <1>5
  <2>2. \A i \in 1..Len(p) : p[i] \in U
    OBVIOUS
  <2> QED
    BY <2>1, <2>2
<1>8. \A i \in 2..Len(p) : p[i].do \in LaterSteps
  BY <1>4, <1>5, <1>6 DEF Quiet
<1>9. \A i \in 1..Len(p) : p[i].do = "expire" => i < Len(p)
  BY <1>3, <1>5, <1>6
<1>10. PlanOK(p)
  BY <1>5, <1>7, <1>8, <1>9 DEF PlanOK
<1> QED
  BY <1>5, <1>10 DEF p

\* No step, and one step, are plans.
LEMMA PlanShort ==
    /\ PlanOK(<<>>) /\ Len(<<>>) = 0
    /\ \A x : x.do \in {"record", "unlink", "write"} =>
                PlanOK(<<x>>) /\ Len(<<x>>) = 1 /\ <<x>>[1] = x /\ Len(<<x>>) # 0
<1>1. PlanOK(<<>>) /\ Len(<<>>) = 0
  BY DEF PlanOK
<1>2. ASSUME NEW x, x.do \in {"record", "unlink", "write"}
      PROVE  PlanOK(<<x>>) /\ Len(<<x>>) = 1 /\ <<x>>[1] = x /\ Len(<<x>>) # 0
  <2> DEFINE p == <<x>>
             U == {p[i] : i \in 1..Len(p)}
  <2>1. Len(p) = 1 /\ p[1] = x
    OBVIOUS
  <2>2. x \in U
    BY <2>1
  <2>3. p \in Seq(U)
    BY <2>2
  <2> HIDE DEF p
  <2>4. PlanOK(p)
    BY <2>1, <2>3, <1>2 DEF PlanOK
  <2> QED
    BY <2>1, <2>4 DEF p
<1> QED
  BY <1>1, <1>2

\* Four elements of a set are a sequence over it.
LEMMA FourSteps ==
    ASSUME NEW U, NEW a \in U, NEW b \in U, NEW c \in U, NEW d \in U
    PROVE  << a, b, c, d >> \in Seq(U)
OBVIOUS

\* The sweep is a plan, alone and before the write of an artifact.
LEMMA PlanSweep ==
    /\ PlanOK(SweepSteps) /\ Quiet(SweepSteps)
    /\ \A r : LET q == SweepSteps \o << [do |-> "write", run |-> r] >> IN PlanOK(q) /\ Quiet(q)
<1> DEFINE p == SweepSteps
           U == {p[i] : i \in 1..Len(p)}
<1>1. Len(p) = 4 /\ p[1] = [do |-> "drain"] /\ p[2] = [do |-> "retry"] /\ p[3] = [do |-> "expire"] /\ p[4] = [do |-> "scan"]
  BY DEF SweepSteps
<1>2. p[1] \in U /\ p[2] \in U /\ p[3] \in U /\ p[4] \in U
  BY <1>1
<1>3. p = << p[1], p[2], p[3], p[4] >>
  BY DEF SweepSteps
<1> HIDE DEF U
<1>4. << p[1], p[2], p[3], p[4] >> \in Seq(U)
  <2> HIDE DEF p
  <2> QED
    BY <1>2, FourSteps
<1> HIDE DEF p
<1>5. p \in Seq(U)
  BY <1>3, <1>4
<1>6. \A i \in 1..Len(p) : p[i].do \in LaterSteps /\ (p[i].do = "expire" => i < Len(p))
  <2> TAKE i \in 1..Len(p)
  <2>1. i = 1 \/ i = 2 \/ i = 3 \/ i = 4
    BY <1>1
  <2>2. "drain" # "expire" /\ "retry" # "expire" /\ "scan" # "expire"
    OBVIOUS
  <2>3. p[1].do = "drain" /\ p[2].do = "retry" /\ p[3].do = "expire" /\ p[4].do = "scan"
    BY <1>1
  <2>4. p[i].do \in LaterSteps
    BY <2>1, <2>3 DEF LaterSteps
  <2>5. p[i].do = "expire" => i = 3
    BY <2>1, <2>2, <2>3
  <2> QED
    BY <1>1, <2>4, <2>5
<1>7. Quiet(p) /\ p[1].do \notin {"record", "unlink"} /\ \A i \in 2..Len(p) : i \in 1..Len(p)
  BY <1>1, <1>6 DEF Quiet
<1>8. PlanOK(p) /\ Quiet(p)
  BY <1>5, <1>6, <1>7 DEF PlanOK, U
<1>9. ASSUME NEW r PROVE LET q == p \o << [do |-> "write", run |-> r] >> IN PlanOK(q) /\ Quiet(q)
  <2> DEFINE x == [do |-> "write", run |-> r]
             q == p \o <<x>>
             W == {q[i] : i \in 1..Len(q)}
             T == U \cup {x}
  <2>1. x.do = "write"
    OBVIOUS
  <2> HIDE DEF x
  <2>2. p \in Seq(T) /\ x \in T
    BY <1>5
  <2> HIDE DEF T
  <2>3. q \in Seq(T) /\ Len(q) = 5 /\ q[5] = x /\ \A i \in 1..4 : q[i] = p[i]
    <3>1. q = Append(p, x)
      BY <2>2, AppendIsConcat
    <3> HIDE DEF q
    <3>2. q \in Seq(T) /\ Len(q) = Len(p) + 1 /\ q[Len(p) + 1] = x /\ \A i \in 1..Len(p) : q[i] = p[i]
      BY <2>2, <3>1, AppendProperties
    <3> QED
      BY <1>1, <3>2
  <2> HIDE DEF q
  <2>4. q \in Seq(W)
    <3>1. DOMAIN q = 1..Len(q) /\ q = [i \in 1..Len(q) |-> q[i]] /\ Len(q) \in Nat
      BY <2>3
    <3>2. \A i \in 1..Len(q) : q[i] \in W
      OBVIOUS
    <3> QED
      BY <3>1, <3>2
  <2>5. \A i \in 1..Len(q) : q[i].do \in LaterSteps /\ (q[i].do = "expire" => i < Len(q))
    <3> TAKE i \in 1..Len(q)
    <3>1. CASE i = 5
      BY <3>1, <2>1, <2>3 DEF LaterSteps
    <3>2. CASE i \in 1..4
      BY <3>2, <2>3, <1>1, <1>6
    <3> QED
      BY <3>1, <3>2, <2>3
  <2>6. Quiet(q) /\ q[1].do \notin {"record", "unlink"} /\ \A i \in 2..Len(q) : i \in 1..Len(q)
    BY <2>3, <2>5, <1>7 DEF Quiet
  <2>7. PlanOK(q)
    BY <2>4, <2>5, <2>6 DEF PlanOK
  <2> QED
    BY <2>6, <2>7 DEF q, x
<1> QED
  BY <1>8, <1>9 DEF p

\* No step, and a step of a later kind, rely on nothing.
LEMMA QuietNext ==
    ASSUME PlanOK(todo)', Quiet(todo)', Len(todo)' = 0 \/ ~down'
    PROVE  NextOK(todo)'
BY DEF NextOK, Quiet, LaterSteps

\* A commit keeps the invariant when the new snapshot accounts for the files, whichever
\* contents of state.json a failure leaves.
LEMMA SaveKeeps ==
    ASSUME ImagesInv, ~down, NEW v, NEW rest, NEW onFail, Save(v, rest, onFail), files' = files,
           LedgerOK(v), files \ Strays \subseteq DOMAIN v.runs \cup v.cleanup, Held(v) \subseteq files \cup unsure,
           PlanOK(rest), PlanOK(onFail),
           Quiet(rest) \/ (rest[1].do = "unlink" /\ rest[1].set \cap Held(v) = {}),
           Len(onFail) = 0 \/ (onFail[1].do = "unlink" /\ onFail[1].set \cap Held(catalog) = {}),
           ~down' => pend' \cap DOMAIN v.runs \subseteq files /\ pend' \cap Held(v) = {}
    PROVE  ImagesInv'
<1>1. catalog = saved /\ LedgerOK(catalog) /\ Held(catalog) \subseteq files \cup unsure
      /\ files \ Strays \subseteq DOMAIN saved.runs \cup saved.cleanup
  BY DEF ImagesInv, UpOK, ImagesAccounted, ImageTraceable, HeldImageExists
<1>2. CASE catalog' = v /\ saved' = v /\ todo' = rest /\ down' = down /\ unsure' = unsure
  <2>1. LedgerOK(catalog)' /\ LedgerOK(saved)' /\ down' \in BOOLEAN /\ ~down'
    <3>1. LedgerOK(catalog)' /\ LedgerOK(saved)'
      BY <1>2
    <3>2. down' \in BOOLEAN /\ ~down'
      BY <1>2 DEF ImagesInv
    <3> QED
      BY <3>1, <3>2
  <2>2. PlanOK(todo)'
    BY <1>2
  <2>3. UpOK'
    BY <1>2, <2>1 DEF UpOK
  <2>4. ImagesAccounted'
    BY <1>2 DEF ImagesAccounted, ImageTraceable, HeldImageExists
  <2>5. NextOK(todo)'
    <3>1. CASE Quiet(rest)
      BY <3>1, <2>1, <2>2, <1>2, QuietNext DEF Quiet
    <3>2. CASE rest[1].do = "unlink" /\ rest[1].set \cap Held(v) = {}
      <4>1. todo'[1].do = "unlink" /\ UnlinkOK(todo[1].set)'
        BY <3>2, <1>2 DEF UnlinkOK
      <4> QED
        BY <4>1 DEF NextOK
    <3> QED
      BY <3>1, <3>2
  <2> QED
    BY <2>1, <2>2, <2>3, <2>4, <2>5 DEF ImagesInv
<1>3. CASE /\ down' = TRUE /\ todo' = onFail /\ catalog' = catalog
           /\ \/ saved' = saved /\ unsure' = unsure
              \/ saved' = v /\ unsure' = unsure \cup (Held(v) \ Held(catalog))
  <2>1. LedgerOK(catalog)' /\ LedgerOK(saved)' /\ down' \in BOOLEAN /\ down'
    BY <1>1, <1>3
  <2>2. PlanOK(todo)'
    BY <1>3
  <2>3. ImagesAccounted'
    BY <1>1, <1>3 DEF ImagesAccounted, ImageTraceable, HeldImageExists
  <2>4. NextOK(todo)'
    <3>1. CASE Len(onFail) = 0
      BY <3>1, <1>3 DEF NextOK
    <3>2. CASE onFail[1].do = "unlink" /\ onFail[1].set \cap Held(catalog) = {}
      <4>1. todo'[1].do = "unlink"
        BY <3>2, <1>3
      <4>2. UnlinkOK(todo[1].set)'
        BY <3>2, <1>1, <1>3 DEF UnlinkOK
      <4> QED
        BY <4>1, <4>2 DEF NextOK
    <3> QED
      BY <3>1, <3>2
  <2> QED
    BY <2>1, <2>2, <2>3, <2>4 DEF ImagesInv
<1> QED
  BY <1>2, <1>3 DEF Save

\* Unlinking keeps the records right when it spares the held images.
LEMMA UnlinkedKeeps ==
    ASSUME ImagesInv, NEW S, NEW stuck, Unlinked(S, stuck), UNCHANGED <<catalog, saved, down, unsure>>,
           S \cap Held(catalog) = {}, S \cap Held(saved) \subseteq unsure, PlanOK(todo)', NextOK(todo)'
    PROVE  ImagesInv'
<1>1. stuck \subseteq S \cap files /\ files' = files \ (S \ stuck) /\ pend' = (pend \ S) \cup stuck
  BY DEF Unlinked
<1>2. LedgerOK(catalog)' /\ LedgerOK(saved)' /\ down' \in BOOLEAN
  BY DEF ImagesInv
<1>3. ~down' => UpOK'
  BY <1>1 DEF ImagesInv, UpOK
<1>4. ImagesAccounted'
  BY <1>1 DEF ImagesInv, ImagesAccounted, ImageTraceable, HeldImageExists
<1> QED
  BY <1>2, <1>3, <1>4 DEF ImagesInv

\* A step that finds the plan not broken off works on a key that is up.
LEMMA StepIsUp ==
    ASSUME ImagesInv, NEW what, Step(what)
    PROVE  /\ todo # <<>> /\ Len(todo) # 0 /\ Head(todo) = todo[1] /\ todo[1].do = what
           /\ PlanOK(Rest) /\ Quiet(Rest)
           /\ what # "unlink" => ~down /\ UpOK
<1>1. PlanOK(todo) /\ todo # <<>>
  BY DEF ImagesInv, Step
<1>2. PlanOK(Rest) /\ Quiet(Rest) /\ Head(todo) = todo[1] /\ Len(todo) # 0
  BY <1>1, PlanTail DEF Rest
<1>3. todo[1].do = what
  BY <1>2 DEF Step
<1>4. what # "unlink" => ~down /\ UpOK
  BY <1>2, <1>3 DEF ImagesInv, NextOK
<1> QED
  BY <1>1, <1>2, <1>3, <1>4

\* An operation that takes the lock finds the key up and nothing left to do.
LEMMA IdleIsUp ==
    ASSUME ImagesInv, Idle
    PROVE  /\ ~down /\ LedgerOK(catalog) /\ catalog = saved
           /\ pend \cap DOMAIN catalog.runs \subseteq files /\ pend \cap Held(catalog) = {}
           /\ files \ Strays \subseteq DOMAIN catalog.runs \cup catalog.cleanup
           /\ Held(catalog) \subseteq files \cup unsure
           /\ catalog.cleanup \cap DOMAIN catalog.runs = {}
BY DEF ImagesInv, Idle, UpOK, LedgerOK, ImagesAccounted, ImageTraceable, HeldImageExists

\* create adds a row without an image, for an id that nothing names.
LEMMA CreateKeeps ==
    ASSUME ImagesInv, NEW r, Create(r)
    PROVE  ImagesInv'
<1> DEFINE v == [catalog EXCEPT !.runs = [x \in DOMAIN @ \cup {r} |-> IF x = r THEN Row("live", "none", 0) ELSE @[x]]]
<1>1. Idle /\ Save(v, <<>>, <<>>) /\ files' = files /\ pend' = pend
      /\ r \notin catalog.cleanup /\ r \notin pend /\ r \notin DOMAIN catalog.runs
  BY DEF Create
<1>2. /\ ~down /\ LedgerOK(catalog) /\ catalog = saved
      /\ pend \cap DOMAIN catalog.runs \subseteq files /\ pend \cap Held(catalog) = {}
      /\ files \ Strays \subseteq DOMAIN catalog.runs \cup catalog.cleanup
      /\ Held(catalog) \subseteq files \cup unsure
  BY <1>1, IdleIsUp
<1>3. v = [runs |-> v.runs, cleanup |-> catalog.cleanup]
      /\ v.runs = [x \in DOMAIN catalog.runs \cup {r} |-> IF x = r THEN Row("live", "none", 0) ELSE catalog.runs[x]]
  BY <1>2 DEF LedgerOK
<1> HIDE DEF v
<1>4. /\ LedgerOK(v) /\ DOMAIN v.runs = DOMAIN catalog.runs \cup {r} /\ v.cleanup = catalog.cleanup
      /\ Held(v) = (Held(catalog) \ {r}) \cup (IF "none" = "held" THEN {r} ELSE {})
  <2>1. LedgerOK(catalog) /\ r \notin catalog.cleanup
    BY <1>1, <1>2
  <2>2. GivesRow(catalog, v, r, "live", "none", 0)
    BY <1>3 DEF GivesRow
  <2> QED
    BY <2>1, <2>2, LedgerRow
<1>5. Held(v) \subseteq Held(catalog)
  BY <1>4
<1>6. pend' \cap DOMAIN v.runs \subseteq files /\ pend' \cap Held(v) = {}
  BY <1>1, <1>2, <1>4, <1>5
<1>7. files \ Strays \subseteq DOMAIN v.runs \cup v.cleanup /\ Held(v) \subseteq files \cup unsure
  BY <1>2, <1>4, <1>5
<1>8. PlanOK(<<>>) /\ Len(<<>>) = 0 /\ Quiet(<<>>)
  BY PlanShort DEF Quiet
<1> QED
  BY <1>1, <1>2, <1>4, <1>6, <1>7, <1>8, SaveKeeps

\* finish changes the state of a row and not its image.
LEMMA FinishImageKeeps ==
    ASSUME ImagesInv, NEW r, FinishImage(r)
    PROVE  ImagesInv'
<1> DEFINE v == [catalog EXCEPT !.runs[r].state = "over"]
           s == "over"
           i == catalog.runs[r].image
           b == catalog.runs[r].born
<1>1. Idle /\ Save(v, <<>>, <<>>) /\ files' = files /\ pend' = pend /\ r \in DOMAIN catalog.runs
  BY DEF FinishImage
<1>2. /\ ~down /\ LedgerOK(catalog) /\ catalog = saved
      /\ pend \cap DOMAIN catalog.runs \subseteq files /\ pend \cap Held(catalog) = {}
      /\ files \ Strays \subseteq DOMAIN catalog.runs \cup catalog.cleanup
      /\ Held(catalog) \subseteq files \cup unsure /\ catalog.cleanup \cap DOMAIN catalog.runs = {}
  BY <1>1, IdleIsUp
<1>3. /\ catalog = [runs |-> catalog.runs, cleanup |-> catalog.cleanup]
      /\ catalog.runs = [x \in DOMAIN catalog.runs |-> catalog.runs[x]]
      /\ catalog.runs[r] = Row(catalog.runs[r].state, i, b)
  BY <1>1, <1>2 DEF LedgerOK
<1>4. [catalog.runs[r] EXCEPT !.state = "over"] = Row(s, i, b)
  BY <1>3 DEF Row
<1>5. v = [runs |-> v.runs, cleanup |-> catalog.cleanup]
      /\ v.runs = [catalog.runs EXCEPT ![r] = [catalog.runs[r] EXCEPT !.state = "over"]]
  BY <1>3
<1>6. v.runs = [x \in DOMAIN catalog.runs \cup {r} |-> IF x = r THEN Row(s, i, b) ELSE catalog.runs[x]]
  <2> HIDE DEF v, i, b, s
  <2>1. v.runs = [catalog.runs EXCEPT ![r] = Row(s, i, b)]
    BY <1>4, <1>5
  <2>2. DOMAIN catalog.runs \cup {r} = DOMAIN catalog.runs
    BY <1>1
  <2> QED
    BY <1>1, <1>3, <2>1, <2>2
<1> HIDE DEF v, s
<1>7. /\ LedgerOK(v) /\ DOMAIN v.runs = DOMAIN catalog.runs \cup {r} /\ v.cleanup = catalog.cleanup
      /\ Held(v) = (Held(catalog) \ {r}) \cup (IF i = "held" THEN {r} ELSE {})
  <2> HIDE DEF i, b
  <2>1. LedgerOK(catalog) /\ r \notin catalog.cleanup
    BY <1>1, <1>2
  <2>2. GivesRow(catalog, v, r, s, i, b)
    BY <1>5, <1>6 DEF GivesRow
  <2> QED
    BY <2>1, <2>2, LedgerRow
<1>8. Held(v) = Held(catalog)
  BY <1>1, <1>7 DEF Held
<1>9. pend' \cap DOMAIN v.runs \subseteq files /\ pend' \cap Held(v) = {}
  BY <1>1, <1>2, <1>7, <1>8
<1>10. files \ Strays \subseteq DOMAIN v.runs \cup v.cleanup /\ Held(v) \subseteq files \cup unsure
  BY <1>2, <1>7, <1>8
<1>11. PlanOK(<<>>) /\ Len(<<>>) = 0 /\ Quiet(<<>>)
  BY PlanShort DEF Quiet
<1> QED
  BY <1>1, <1>2, <1>7, <1>9, <1>10, <1>11, SaveKeeps

\* PutImage only makes its plan.
LEMMA PutImageKeeps ==
    ASSUME ImagesInv, NEW r, PutImage(r)
    PROVE  ImagesInv'
<1>1. ~down /\ ~down' /\ todo' = SweepSteps \o << [do |-> "write", run |-> r] >>
  BY DEF PutImage, Idle
<1>2. PlanOK(todo)' /\ Quiet(todo)'
  BY <1>1, PlanSweep
<1>3. NextOK(todo)'
  BY <1>1, <1>2, QuietNext
<1> QED
  BY <1>1, <1>2, <1>3 DEF PutImage, ImagesInv, UpOK, ImagesAccounted, ImageTraceable, HeldImageExists

\* DiscardImage records that the image is gone before it unlinks the file.
LEMMA DiscardImageKeeps ==
    ASSUME ImagesInv, NEW r, DiscardImage(r)
    PROVE  ImagesInv'
<1> DEFINE v == WithGone(catalog, {r})
           rest == << [do |-> "unlink", set |-> {r}] >>
<1>1. Idle /\ Save(v, rest, <<>>) /\ files' = files /\ pend' = pend
  BY DEF DiscardImage
<1>2. /\ ~down /\ LedgerOK(catalog) /\ catalog = saved
      /\ pend \cap DOMAIN catalog.runs \subseteq files /\ pend \cap Held(catalog) = {}
      /\ files \ Strays \subseteq DOMAIN catalog.runs \cup catalog.cleanup
      /\ Held(catalog) \subseteq files \cup unsure
  BY <1>1, IdleIsUp
<1>3. LedgerOK(v) /\ DOMAIN v.runs = DOMAIN catalog.runs /\ v.cleanup = catalog.cleanup /\ Held(v) = Held(catalog) \ {r}
  BY <1>2, LedgerGone
<1>4. PlanOK(rest) /\ rest[1].do = "unlink" /\ rest[1].set = {r}
  <2>1. [do |-> "unlink", set |-> {r}].do = "unlink" /\ [do |-> "unlink", set |-> {r}].set = {r}
    OBVIOUS
  <2> QED
    BY <2>1, PlanShort
<1> HIDE DEF v, rest
<1>5. rest[1].set \cap Held(v) = {}
  BY <1>3, <1>4
<1>6. pend' \cap DOMAIN v.runs \subseteq files /\ pend' \cap Held(v) = {}
  BY <1>1, <1>2, <1>3
<1>7. files \ Strays \subseteq DOMAIN v.runs \cup v.cleanup /\ Held(v) \subseteq files \cup unsure
  BY <1>2, <1>3
<1>8. PlanOK(<<>>) /\ Len(<<>>) = 0
  BY PlanShort
<1> QED
  BY <1>1, <1>2, <1>3, <1>4, <1>5, <1>6, <1>7, <1>8, SaveKeeps

\* Sweep turns expired runs into intents in one commit.
LEMMA SweepKeeps ==
    ASSUME ImagesInv, NEW gone, Sweep(gone)
    PROVE  ImagesInv'
<1> DEFINE v == [Without(catalog, gone) EXCEPT !.cleanup = @ \cup gone]
           C == catalog.cleanup \cup gone
<1>1. Idle /\ files' = files /\ pend' = pend
  BY DEF Sweep
<1>2. /\ ~down /\ LedgerOK(catalog) /\ catalog = saved
      /\ pend \cap DOMAIN catalog.runs \subseteq files /\ pend \cap Held(catalog) = {}
      /\ files \ Strays \subseteq DOMAIN catalog.runs \cup catalog.cleanup
      /\ Held(catalog) \subseteq files \cup unsure /\ catalog.cleanup \cap DOMAIN catalog.runs = {}
  BY <1>1, IdleIsUp
<1>3. PlanOK(SweepSteps) /\ Quiet(SweepSteps) /\ PlanOK(<<>>) /\ Len(<<>>) = 0
  BY PlanSweep, PlanShort
<1>4. CASE gone = {}
  <2>1. todo' = SweepSteps /\ UNCHANGED <<catalog, saved, down, unsure, files, pend>>
    BY <1>4 DEF Sweep
  <2>2. PlanOK(todo)' /\ Quiet(todo)' /\ ~down'
    BY <2>1, <1>2, <1>3
  <2>3. NextOK(todo)'
    BY <2>2, QuietNext
  <2> QED
    BY <2>1, <2>2, <2>3 DEF ImagesInv, UpOK, ImagesAccounted, ImageTraceable, HeldImageExists
<1>5. CASE gone # {}
  <2>1. Save(v, SweepSteps, <<>>)
    BY <1>5 DEF Sweep
  <2>2. v = [Without(catalog, gone) EXCEPT !.cleanup = C]
    BY <1>2 DEF Without, LedgerOK
  <2>3. C \cap (DOMAIN catalog.runs \ gone) = {}
    BY <1>2
  <2> HIDE DEF v, C
  <2>4. LedgerOK(v) /\ DOMAIN v.runs = DOMAIN catalog.runs \ gone /\ v.cleanup = C /\ Held(v) = Held(catalog) \ gone
    <3>1. LedgerOK(catalog)
      BY <1>2
    <3>2. Drops(catalog, v, gone, C)
      BY <2>2, <2>3 DEF Drops
    <3> QED
      BY <3>1, <3>2, LedgerWithout
  <2>5. pend' \cap DOMAIN v.runs \subseteq files /\ pend' \cap Held(v) = {}
    BY <1>1, <1>2, <2>4
  <2>6. files \ Strays \subseteq DOMAIN v.runs \cup v.cleanup /\ Held(v) \subseteq files \cup unsure
    BY <1>2, <2>4 DEF C
  <2> QED
    BY <1>1, <1>2, <1>3, <2>1, <2>4, <2>5, <2>6, SaveKeeps
<1> QED
  BY <1>4, <1>5

\* ClearTerminal does the same for the settled runs; the retries it makes durable name
\* no run that stays.
LEMMA ClearTerminalKeeps ==
    ASSUME ImagesInv, ClearTerminal
    PROVE  ImagesInv'
<1> DEFINE cleared == Over(catalog) \ working
           retried == {p \in pend : p \in DOMAIN catalog.runs => p \in cleared}
           intents == catalog.cleanup \cup cleared \cup retried
           v == [Without(catalog, cleared) EXCEPT !.cleanup = intents]
           rest == IF DOMAIN v.runs = {} THEN SweepSteps ELSE <<>>
           all == << [do |-> "drain"] >> \o rest
<1>1. Idle /\ files' = files
  BY DEF ClearTerminal
<1>2. /\ ~down /\ LedgerOK(catalog) /\ catalog = saved
      /\ pend \cap DOMAIN catalog.runs \subseteq files /\ pend \cap Held(catalog) = {}
      /\ files \ Strays \subseteq DOMAIN catalog.runs \cup catalog.cleanup
      /\ Held(catalog) \subseteq files \cup unsure /\ catalog.cleanup \cap DOMAIN catalog.runs = {}
  BY <1>1, IdleIsUp
<1>3. PlanOK(SweepSteps) /\ Quiet(SweepSteps) /\ PlanOK(<<>>) /\ Len(<<>>) = 0 /\ Quiet(<<>>)
  BY PlanSweep, PlanShort DEF Quiet
<1>4. PlanOK(rest) /\ Quiet(rest)
  BY <1>3
<1>5. CASE intents = {}
  <2>1. todo' = rest /\ UNCHANGED <<catalog, saved, down, unsure, pend>>
    BY <1>5 DEF ClearTerminal
  <2> HIDE DEF rest
  <2>2. PlanOK(todo)' /\ Quiet(todo)' /\ ~down'
    BY <2>1, <1>2, <1>4
  <2>3. NextOK(todo)'
    BY <2>2, QuietNext
  <2> QED
    BY <2>1, <2>2, <2>3, <1>1 DEF ImagesInv, UpOK, ImagesAccounted, ImageTraceable, HeldImageExists
<1>6. CASE intents # {}
  <2>1. Save(v, all, <<>>) /\ pend' = IF down' THEN pend ELSE pend \cup intents
    BY <1>6 DEF ClearTerminal
  <2>2. PlanOK(all) /\ Quiet(all)
    <3>1. [do |-> "drain"].do \in {"forget", "drain"} /\ [do |-> "drain"].do = "drain"
      OBVIOUS
    <3> HIDE DEF rest
    <3>2. PlanOK(all) /\ all[1] = [do |-> "drain"]
      BY <3>1, <1>4, PlanBefore
    <3>3. Quiet(all)
      BY <3>1, <3>2 DEF Quiet, LaterSteps
    <3> QED
      BY <3>2, <3>3
  <2> HIDE DEF all
  <2>3. intents \cap (DOMAIN catalog.runs \ cleared) = {}
    BY <1>2
  <2>4. Drops(catalog, v, cleared, intents)
    BY <2>3 DEF Drops
  <2>5. catalog.cleanup \cup cleared \subseteq intents
    OBVIOUS
  <2> HIDE DEF v, cleared, intents
  <2>6. LedgerOK(v) /\ DOMAIN v.runs = DOMAIN catalog.runs \ cleared /\ v.cleanup = intents /\ Held(v) = Held(catalog) \ cleared
    <3>1. LedgerOK(catalog)
      BY <1>2
    <3> QED
      BY <3>1, <2>4, LedgerWithout
  <2>7. Held(v) \subseteq DOMAIN v.runs
    BY DEF Held
  <2>8. ~down' => pend' \cap DOMAIN v.runs \subseteq files /\ pend' \cap Held(v) = {}
    BY <1>2, <2>1, <2>3, <2>6, <2>7
  <2>9. files \ Strays \subseteq DOMAIN v.runs \cup v.cleanup /\ Held(v) \subseteq files \cup unsure
    BY <1>2, <2>5, <2>6
  <2> QED
    BY <1>1, <1>2, <1>3, <2>1, <2>2, <2>6, <2>8, <2>9, SaveKeeps
<1> QED
  BY <1>5, <1>6

\* The facts a step other than unlink finds.
LEMMA StepFacts ==
    ASSUME ImagesInv, NEW what, Step(what), what # "unlink"
    PROVE  /\ ~down /\ LedgerOK(catalog) /\ catalog = saved
           /\ pend \cap DOMAIN catalog.runs \subseteq files /\ pend \cap Held(catalog) = {}
           /\ files \ Strays \subseteq DOMAIN catalog.runs \cup catalog.cleanup
           /\ Held(catalog) \subseteq files \cup unsure /\ catalog.cleanup \cap DOMAIN catalog.runs = {}
BY StepIsUp DEF ImagesInv, UpOK, LedgerOK, ImagesAccounted, ImageTraceable, HeldImageExists

\* drainCleanup unlinks what the intents name, and no run has one.
LEMMA DrainKeeps ==
    ASSUME ImagesInv, Drain
    PROVE  ImagesInv'
<1>1. Step("drain") /\ UNCHANGED <<catalog, saved, down, unsure>>
  BY DEF Drain
<1>2. /\ ~down /\ LedgerOK(catalog) /\ catalog = saved
      /\ pend \cap DOMAIN catalog.runs \subseteq files /\ pend \cap Held(catalog) = {}
      /\ files \ Strays \subseteq DOMAIN catalog.runs \cup catalog.cleanup
      /\ Held(catalog) \subseteq files \cup unsure /\ catalog.cleanup \cap DOMAIN catalog.runs = {}
  BY <1>1, StepFacts
<1>3. PlanOK(Rest) /\ Quiet(Rest) /\ ~down'
  BY <1>1, <1>2, StepIsUp
<1>4. PICK stuck \in SUBSET files :
         /\ Unlinked(catalog.cleanup, stuck)
         /\ todo' = IF stuck = catalog.cleanup THEN Rest ELSE << [do |-> "forget", set |-> stuck] >> \o Rest
  BY DEF Drain
<1>5. catalog.cleanup \cap Held(catalog) = {} /\ catalog.cleanup \cap Held(saved) \subseteq unsure
  BY <1>2 DEF Held
<1>6. PlanOK(todo)' /\ NextOK(todo)'
  <2>1. CASE stuck = catalog.cleanup
    <3>1. PlanOK(todo)' /\ Quiet(todo)'
      BY <1>3, <1>4, <2>1
    <3> QED
      BY <3>1, <1>3, QuietNext
  <2>2. CASE stuck # catalog.cleanup
    <3> DEFINE x == [do |-> "forget", set |-> stuck]
    <3>1. x.do = "forget" /\ x.set = stuck
      OBVIOUS
    <3>2. todo' = <<x>> \o Rest
      BY <1>4, <2>2
    <3> HIDE DEF x
    <3>3. PlanOK(<<x>> \o Rest) /\ Len(<<x>> \o Rest) # 0 /\ (<<x>> \o Rest)[1] = x
      BY <3>1, <1>3, PlanBefore
    <3>4. PlanOK(todo)' /\ todo'[1] = x
      BY <3>2, <3>3
    <3>5. ForgetOK(stuck)'
      BY <1>1, <1>4 DEF ForgetOK, Unlinked
    <3>6. NextOK(todo)'
      BY <3>1, <3>4, <3>5, <1>3 DEF NextOK
    <3> QED
      BY <3>4, <3>6
  <2> QED
    BY <2>1, <2>2
<1> QED
  BY <1>1, <1>4, <1>5, <1>6, UnlinkedKeeps

\* The second step of the drain forgets intents whose files are gone.
LEMMA ForgetKeeps ==
    ASSUME ImagesInv, Forget
    PROVE  ImagesInv'
<1> DEFINE C == Head(todo).set
           v == [catalog EXCEPT !.cleanup = C]
<1>1. Step("forget") /\ Save(v, Rest, <<>>) /\ files' = files /\ pend' = pend
  BY DEF Forget
<1>2. /\ ~down /\ LedgerOK(catalog) /\ catalog = saved
      /\ pend \cap DOMAIN catalog.runs \subseteq files /\ pend \cap Held(catalog) = {}
      /\ files \ Strays \subseteq DOMAIN catalog.runs \cup catalog.cleanup
      /\ Held(catalog) \subseteq files \cup unsure /\ catalog.cleanup \cap DOMAIN catalog.runs = {}
  BY <1>1, StepFacts
<1>3. PlanOK(Rest) /\ Quiet(Rest) /\ Len(todo) # 0 /\ todo[1].do = "forget" /\ Head(todo) = todo[1]
  BY <1>1, StepIsUp
<1>4. C \subseteq catalog.cleanup /\ catalog.cleanup \cap files \subseteq C
  BY <1>3 DEF ImagesInv, NextOK, ForgetOK
<1>5. v = [runs |-> catalog.runs, cleanup |-> C] /\ v.runs = catalog.runs /\ v.cleanup = C
  BY <1>2 DEF LedgerOK
<1> HIDE DEF v, C
<1>6. LedgerOK(v) /\ DOMAIN v.runs = DOMAIN catalog.runs /\ Held(v) = Held(catalog)
  BY <1>2, <1>4, <1>5 DEF LedgerOK, Held
<1>7. pend' \cap DOMAIN v.runs \subseteq files /\ pend' \cap Held(v) = {}
  BY <1>1, <1>2, <1>6
<1>8. files \ Strays \subseteq DOMAIN v.runs \cup v.cleanup /\ Held(v) \subseteq files \cup unsure
  BY <1>2, <1>4, <1>5, <1>6
<1>9. PlanOK(<<>>) /\ Len(<<>>) = 0
  BY PlanShort
<1> QED
  BY <1>1, <1>2, <1>3, <1>6, <1>7, <1>8, <1>9, SaveKeeps

\* The retries and the scan of the directory spare the held images.
LEMMA RetryScanKeep ==
    ASSUME ImagesInv, Retry \/ Scan
    PROVE  ImagesInv'
<1>1. \/ Step("retry") /\ \E stuck \in SUBSET files : Unlinked(pend, stuck)
      \/ Step("scan") /\ \E stuck \in SUBSET files : Unlinked(files \ Held(catalog), stuck)
  BY DEF Retry, Scan
<1>2. todo' = Rest /\ UNCHANGED <<catalog, saved, down, unsure>>
  BY DEF Retry, Scan
<1>3. /\ ~down /\ LedgerOK(catalog) /\ catalog = saved
      /\ pend \cap DOMAIN catalog.runs \subseteq files /\ pend \cap Held(catalog) = {}
      /\ files \ Strays \subseteq DOMAIN catalog.runs \cup catalog.cleanup
      /\ Held(catalog) \subseteq files \cup unsure /\ catalog.cleanup \cap DOMAIN catalog.runs = {}
  BY <1>1, StepFacts
<1>4. PlanOK(Rest) /\ Quiet(Rest)
  BY <1>1, StepIsUp
<1>5. PlanOK(todo)' /\ Quiet(todo)' /\ ~down'
  BY <1>2, <1>3, <1>4
<1>6. NextOK(todo)'
  BY <1>5, QuietNext
<1>7. PICK S, stuck : Unlinked(S, stuck) /\ S \cap Held(catalog) = {}
  BY <1>1, <1>3
<1>8. S \cap Held(saved) \subseteq unsure
  BY <1>3, <1>7
<1> QED
  BY <1>2, <1>5, <1>6, <1>7, <1>8, UnlinkedKeeps

\* What has expired is recorded as gone; a ledger without runs ends the sweep.
LEMMA ExpireKeeps ==
    ASSUME ImagesInv, Expire
    PROVE  ImagesInv'
<1> DEFINE v == WithGone(catalog, Expired(catalog))
           E == Expired(catalog)
<1>1. Step("expire") /\ files' = files /\ pend' = pend
  BY DEF Expire
<1>2. /\ ~down /\ LedgerOK(catalog) /\ catalog = saved
      /\ pend \cap DOMAIN catalog.runs \subseteq files /\ pend \cap Held(catalog) = {}
      /\ files \ Strays \subseteq DOMAIN catalog.runs \cup catalog.cleanup
      /\ Held(catalog) \subseteq files \cup unsure /\ catalog.cleanup \cap DOMAIN catalog.runs = {}
  BY <1>1, StepFacts
<1>3. PlanOK(Rest) /\ Quiet(Rest) /\ todo # <<>> /\ todo[1].do = "expire" /\ Head(todo) = todo[1]
  BY <1>1, StepIsUp
<1>4. Rest # <<>>
  BY <1>3, PlanTail DEF ImagesInv, Rest
<1>5. PlanOK(Tail(Rest)) /\ Quiet(Tail(Rest))
  BY <1>3, <1>4, PlanTail
<1>6. CASE todo' \in {Rest, Tail(Rest)} /\ UNCHANGED <<catalog, saved, down, unsure>>
  <2>1. PlanOK(todo)' /\ Quiet(todo)' /\ ~down'
    BY <1>2, <1>3, <1>5, <1>6
  <2>2. NextOK(todo)'
    BY <2>1, QuietNext
  <2> QED
    BY <2>1, <2>2, <1>1, <1>6 DEF ImagesInv, UpOK, ImagesAccounted, ImageTraceable, HeldImageExists
<1>7. CASE Save(v, Rest, <<>>)
  <2>1. LedgerOK(v) /\ DOMAIN v.runs = DOMAIN catalog.runs /\ v.cleanup = catalog.cleanup /\ Held(v) = Held(catalog) \ E
    <3>1. LedgerOK(catalog)
      BY <1>2
    <3> HIDE DEF E
    <3> QED
      BY <3>1, LedgerGone DEF E
  <2> HIDE DEF v, E
  <2>2. pend' \cap DOMAIN v.runs \subseteq files /\ pend' \cap Held(v) = {}
    BY <1>1, <1>2, <2>1
  <2>3. files \ Strays \subseteq DOMAIN v.runs \cup v.cleanup /\ Held(v) \subseteq files \cup unsure
    BY <1>2, <2>1
  <2>4. PlanOK(<<>>) /\ Len(<<>>) = 0
    BY PlanShort
  <2> QED
    BY <1>1, <1>2, <1>3, <1>7, <2>1, <2>2, <2>3, <2>4, SaveKeeps
<1> QED
  BY <1>6, <1>7 DEF Expire

\* The artifact is written for a run of the ledger, under a name that no file and so no
\* retry has.
LEMMA WriteArtifactKeeps ==
    ASSUME ImagesInv, WriteArtifact
    PROVE  ImagesInv'
<1>0. PICK r : r = Head(todo).run
  OBVIOUS
<1> DEFINE x == [do |-> "record", run |-> r]
<1>1. Step("write") /\ UNCHANGED <<catalog, saved, pend, down, unsure>>
  BY DEF WriteArtifact
<1>2. /\ ~down /\ LedgerOK(catalog) /\ catalog = saved
      /\ pend \cap DOMAIN catalog.runs \subseteq files /\ pend \cap Held(catalog) = {}
      /\ files \ Strays \subseteq DOMAIN catalog.runs \cup catalog.cleanup
      /\ Held(catalog) \subseteq files \cup unsure /\ catalog.cleanup \cap DOMAIN catalog.runs = {}
  BY <1>1, StepFacts
<1>3. x.do = "record" /\ x.run = r
  OBVIOUS
<1>4. \/ files' = files /\ todo' = <<>>
      \/ /\ r \in DOMAIN catalog.runs /\ catalog.runs[r] = Row("live", "none", 0) /\ r \notin files
         /\ files' = files \cup {r} /\ todo' \in {<<>>, <<x>>}
  BY <1>0 DEF WriteArtifact
<1> HIDE DEF x
<1>5. PlanOK(<<>>) /\ Len(<<>>) = 0 /\ PlanOK(<<x>>) /\ Len(<<x>>) = 1 /\ <<x>>[1] = x
  BY <1>3, PlanShort
<1>6. PlanOK(todo)'
  BY <1>4, <1>5
<1>7. /\ LedgerOK(catalog)' /\ LedgerOK(saved)' /\ down' \in BOOLEAN
  BY <1>1 DEF ImagesInv
<1>8. ~down' => UpOK'
  BY <1>1, <1>2, <1>4 DEF UpOK
<1>9. ImagesAccounted'
  BY <1>1, <1>2, <1>4 DEF ImagesAccounted, ImageTraceable, HeldImageExists
<1>10. NextOK(todo)'
  <2>1. CASE todo' = <<>>
    BY <2>1, <1>5 DEF NextOK
  <2>2. CASE /\ r \in DOMAIN catalog.runs /\ catalog.runs[r] = Row("live", "none", 0) /\ r \notin files
             /\ files' = files \cup {r} /\ todo' = <<x>>
    <3>1. r \notin pend
      BY <2>2, <1>2
    <3>2. r \notin Held(catalog)
      <4>1. catalog.runs[r].image = "none"
        BY <2>2, RowFields
      <4> QED
        BY <4>1 DEF Held
    <3>3. RecordOK(r)'
      <4>1. r \in files' /\ r \notin pend' /\ r \in DOMAIN catalog'.runs /\ r \notin Held(catalog')
        BY <2>2, <3>1, <3>2, <1>1
      <4> QED
        BY <4>1 DEF RecordOK
    <3>4. todo'[1] = x /\ ~down'
      BY <2>2, <1>1, <1>2, <1>5
    <3> QED
      BY <3>3, <3>4, <1>3 DEF NextOK
  <2> QED
    BY <2>1, <2>2, <1>4
<1> QED
  BY <1>6, <1>7, <1>8, <1>9, <1>10 DEF ImagesInv

\* The record of an image that was written, with the evictions; their files are unlinked
\* after it, and the new one when it failed.
LEMMA RecordKeeps ==
    ASSUME ImagesInv, Record
    PROVE  ImagesInv'
<1> DEFINE r == Head(todo).run
           E == Evicted
           u == WithGone(catalog, E)
           v == [u EXCEPT !.runs[r].image = "held", !.runs[r].born = puts + 1]
           x == [do |-> "unlink", set |-> E]
           y == [do |-> "unlink", set |-> {r}]
           rest == IF E = {} THEN <<>> ELSE <<x>>
           b == puts + 1
           s == u.runs[r].state
<1>1. Step("record") /\ Save(v, rest, <<y>>) /\ files' = files /\ pend' = pend
  BY DEF Record
<1>2. /\ ~down /\ LedgerOK(catalog) /\ catalog = saved
      /\ pend \cap DOMAIN catalog.runs \subseteq files /\ pend \cap Held(catalog) = {}
      /\ files \ Strays \subseteq DOMAIN catalog.runs \cup catalog.cleanup
      /\ Held(catalog) \subseteq files \cup unsure /\ catalog.cleanup \cap DOMAIN catalog.runs = {}
  BY <1>1, StepFacts
<1>3. r \in files /\ r \notin pend /\ r \in DOMAIN catalog.runs /\ r \notin Held(catalog)
  <2>1. Len(todo) # 0 /\ todo[1].do = "record" /\ Head(todo) = todo[1]
    BY <1>1, StepIsUp
  <2>2. RecordOK(r)
    BY <2>1 DEF ImagesInv, NextOK
  <2> QED
    BY <2>2 DEF RecordOK
<1>4. E \subseteq Held(catalog)
  BY DEF Evicted
<1>5. x.do = "unlink" /\ x.set = E /\ y.do = "unlink" /\ y.set = {r}
  OBVIOUS
<1> HIDE DEF E, r, x, y, b
<1>6. LedgerOK(u) /\ DOMAIN u.runs = DOMAIN catalog.runs /\ u.cleanup = catalog.cleanup /\ Held(u) = Held(catalog) \ E
  <2>1. LedgerOK(catalog)
    BY <1>2
  <2> QED
    BY <2>1, LedgerGone
<1> HIDE DEF u
<1>7. GivesRow(u, v, r, s, "held", b)
  <2>1. /\ u = [runs |-> u.runs, cleanup |-> u.cleanup] /\ u.runs = [z \in DOMAIN u.runs |-> u.runs[z]]
        /\ u.runs[r] = Row(s, u.runs[r].image, u.runs[r].born) /\ r \in DOMAIN u.runs
    BY <1>3, <1>6 DEF LedgerOK
  <2> DEFINE w == [u EXCEPT !.runs[r].image = "held"]
  <2>2. w = [runs |-> w.runs, cleanup |-> u.cleanup] /\ w.runs = [u.runs EXCEPT ![r] = [u.runs[r] EXCEPT !.image = "held"]]
    BY <2>1
  <2>3. [u.runs[r] EXCEPT !.image = "held"] = Row(s, "held", u.runs[r].born)
    BY <2>1 DEF Row
  <2>4. v = [w EXCEPT !.runs[r].born = b]
    BY DEF b
  <2> HIDE DEF w, v, s
  <2>5. w.runs = [u.runs EXCEPT ![r] = Row(s, "held", u.runs[r].born)] /\ w.runs[r] = Row(s, "held", u.runs[r].born)
        /\ DOMAIN w.runs = DOMAIN u.runs
    BY <2>1, <2>2, <2>3
  <2>6. [w.runs[r] EXCEPT !.born = b] = Row(s, "held", b)
    BY <2>5 DEF Row
  <2>7. v = [runs |-> v.runs, cleanup |-> u.cleanup] /\ v.runs = [w.runs EXCEPT ![r] = [w.runs[r] EXCEPT !.born = b]]
    BY <2>2, <2>4
  <2>8. v.runs = [w.runs EXCEPT ![r] = Row(s, "held", b)]
    BY <2>6, <2>7
  <2>9. v.runs = [z \in DOMAIN u.runs \cup {r} |-> IF z = r THEN Row(s, "held", b) ELSE u.runs[z]]
    BY <2>1, <2>5, <2>8
  <2> QED
    BY <2>7, <2>9 DEF GivesRow
<1> HIDE DEF v, s
<1>8. LedgerOK(v) /\ DOMAIN v.runs = DOMAIN catalog.runs /\ v.cleanup = catalog.cleanup /\ Held(v) = (Held(catalog) \ E) \cup {r}
  <2>1. r \notin u.cleanup /\ r \notin Held(u)
    BY <1>2, <1>3, <1>6
  <2>2. /\ LedgerOK(v) /\ DOMAIN v.runs = DOMAIN u.runs \cup {r} /\ v.cleanup = u.cleanup
        /\ Held(v) = (Held(u) \ {r}) \cup (IF "held" = "held" THEN {r} ELSE {})
    BY <1>6, <1>7, <2>1, LedgerRow
  <2> QED
    BY <1>3, <1>6, <2>1, <2>2
<1>9. PlanOK(<<>>) /\ Len(<<>>) = 0 /\ PlanOK(<<x>>) /\ <<x>>[1] = x /\ PlanOK(<<y>>) /\ <<y>>[1] = y
  BY <1>5, PlanShort
<1>10. PlanOK(rest) /\ (Quiet(rest) \/ (rest[1].do = "unlink" /\ rest[1].set \cap Held(v) = {}))
  <2>1. CASE E = {}
    BY <2>1, <1>9 DEF Quiet
  <2>2. CASE E # {}
    <3>1. rest = <<x>>
      BY <2>2
    <3>2. E \cap Held(v) = {}
      BY <1>3, <1>4, <1>8
    <3> QED
      BY <3>1, <3>2, <1>5, <1>9
  <2> QED
    BY <2>1, <2>2
<1>11. <<y>>[1].do = "unlink" /\ <<y>>[1].set \cap Held(catalog) = {}
  BY <1>3, <1>5, <1>9
<1>12. pend' \cap DOMAIN v.runs \subseteq files /\ pend' \cap Held(v) = {}
  BY <1>1, <1>2, <1>3, <1>8
<1>13. files \ Strays \subseteq DOMAIN v.runs \cup v.cleanup /\ Held(v) \subseteq files \cup unsure
  BY <1>2, <1>3, <1>8
<1> HIDE DEF rest
<1>14. PlanOK(<<y>>) /\ ~down /\ LedgerOK(v)
  BY <1>2, <1>8, <1>9
<1> QED
  BY <1>1, <1>14, <1>10, <1>11, <1>12, <1>13, SaveKeeps

\* The unlink after a record.
LEMMA UnlinkKeeps ==
    ASSUME ImagesInv, Unlink
    PROVE  ImagesInv'
<1>1. Step("unlink") /\ todo' = Rest /\ UNCHANGED <<catalog, saved, down, unsure>>
  BY DEF Unlink
<1>2. Len(todo) # 0 /\ Head(todo) = todo[1] /\ todo[1].do = "unlink" /\ PlanOK(Rest) /\ Quiet(Rest)
  BY <1>1, StepIsUp
<1>3. UnlinkOK(Head(todo).set)
  BY <1>2 DEF ImagesInv, NextOK
<1>4. PICK stuck \in SUBSET files : Unlinked(Head(todo).set, stuck)
  BY DEF Unlink
<1>5. Len(Rest) = 0
  <2>1. Len(todo) = 1
    BY <1>2 DEF ImagesInv, PlanOK
  <2>2. PICK T : todo \in Seq(T)
    BY DEF ImagesInv, PlanOK
  <2> QED
    BY <2>1, <2>2 DEF Rest
<1>6. PlanOK(todo)' /\ NextOK(todo)'
  BY <1>1, <1>2, <1>5 DEF NextOK
<1>7. Head(todo).set \cap Held(catalog) = {} /\ Head(todo).set \cap Held(saved) \subseteq unsure
  BY <1>3 DEF UnlinkOK
<1> QED
  BY <1>1, <1>4, <1>6, <1>7, UnlinkedKeeps

\* A restart reads state.json, fails what was live and retries what it intended.
LEMMA CrashKeeps ==
    ASSUME ImagesInv, Crash
    PROVE  ImagesInv'
<1> DEFINE live == DOMAIN saved.runs \ Over(saved)
           Ended(S) == [saved EXCEPT !.runs = [r \in DOMAIN @ |-> IF r \in S THEN [@[r] EXCEPT !.state = "over"] ELSE @[r]]]
<1>1. PICK S \in SUBSET live :
        /\ saved' = Ended(S) /\ catalog' = Ended(S)
        /\ down' = (S # live \/ saved.cleanup \cap DOMAIN saved.runs # {})
  BY DEF Crash
<1>2. todo' = <<>> /\ pend' = saved.cleanup /\ files' = files /\ unsure' = unsure
  BY DEF Crash
<1>3. LedgerOK(saved) /\ ImagesAccounted
  BY DEF ImagesInv
<1> DEFINE v == Ended(S)
<1>4. v = [runs |-> v.runs, cleanup |-> saved.cleanup] /\ v.cleanup = saved.cleanup
      /\ v.runs = [r \in DOMAIN saved.runs |-> IF r \in S THEN [saved.runs[r] EXCEPT !.state = "over"] ELSE saved.runs[r]]
  BY <1>3 DEF LedgerOK
<1>5. catalog' = v /\ saved' = v
  BY <1>1
<1> HIDE DEF v, live, Ended
<1>6. \A r \in DOMAIN saved.runs : saved.runs[r] = Row(saved.runs[r].state, saved.runs[r].image, saved.runs[r].born)
  BY <1>3 DEF LedgerOK
<1>7. \A r \in DOMAIN saved.runs :
        v.runs[r] = IF r \in S THEN Row("over", saved.runs[r].image, saved.runs[r].born) ELSE saved.runs[r]
  BY <1>4, <1>6 DEF Row
<1>8. DOMAIN v.runs = DOMAIN saved.runs /\ v.runs = [r \in DOMAIN v.runs |-> v.runs[r]]
  BY <1>4
<1>9. \A r \in DOMAIN v.runs : /\ v.runs[r] = Row(v.runs[r].state, v.runs[r].image, v.runs[r].born)
                               /\ v.runs[r].image = saved.runs[r].image
  <2> TAKE r \in DOMAIN v.runs
  <2>1. CASE r \in S
    <3>1. v.runs[r] = Row("over", saved.runs[r].image, saved.runs[r].born)
      BY <2>1, <1>7, <1>8
    <3> QED
      BY <3>1, RowFields
  <2>2. CASE r \notin S
    BY <2>2, <1>6, <1>7, <1>8
  <2> QED
    BY <2>1, <2>2
<1>10. LedgerOK(v)
  BY <1>3, <1>4, <1>8, <1>9 DEF LedgerOK
<1>11. Held(v) = Held(saved)
  BY <1>8, <1>9 DEF Held
<1>12. LedgerOK(catalog)' /\ LedgerOK(saved)'
  BY <1>5, <1>10
<1>13. down' \in BOOLEAN
  BY <1>1
<1>14. UpOK'
  <2>1. saved.cleanup \cap DOMAIN saved.runs = {}
    BY <1>3 DEF LedgerOK
  <2>2. Held(v) \subseteq DOMAIN v.runs
    BY DEF Held
  <2>3. pend' \cap DOMAIN v.runs = {}
    BY <1>2, <1>8, <2>1
  <2> QED
    BY <1>5, <2>2, <2>3 DEF UpOK
<1>15. ImagesAccounted'
  BY <1>2, <1>3, <1>4, <1>5, <1>8, <1>11 DEF ImagesAccounted, ImageTraceable, HeldImageExists
<1>16. PlanOK(todo)' /\ NextOK(todo)'
  BY <1>2, PlanShort DEF NextOK
<1> QED
  BY <1>12, <1>13, <1>14, <1>15, <1>16 DEF ImagesInv

\* Every step keeps the invariant.
LEMMA ImagesStepKeeps == ImagesInv /\ [ImagesNext]_imageVars => ImagesInv'
<1> SUFFICES ASSUME ImagesInv, [ImagesNext]_imageVars PROVE ImagesInv'
  OBVIOUS
<1>1. CASE UNCHANGED <<catalog, saved, files, pend, down, todo, unsure>>
  <2>1. (LedgerOK(catalog) /\ LedgerOK(saved))' /\ down' \in BOOLEAN /\ PlanOK(todo)'
    BY <1>1 DEF ImagesInv
  <2>2. NextOK(todo)'
    BY <1>1 DEF ImagesInv, NextOK, ForgetOK, RecordOK, UnlinkOK
  <2>3. (~down => UpOK)' /\ ImagesAccounted'
    BY <1>1 DEF ImagesInv, UpOK, ImagesAccounted, ImageTraceable, HeldImageExists
  <2> QED
    BY <2>1, <2>2, <2>3 DEF ImagesInv
<1>2. ASSUME NEW r \in Rids, Create(r) \/ FinishImage(r) \/ PutImage(r) \/ DiscardImage(r) PROVE ImagesInv'
  BY <1>2, CreateKeeps, FinishImageKeeps, PutImageKeeps, DiscardImageKeeps
<1>3. ASSUME NEW gone \in SUBSET Rids, Sweep(gone) PROVE ImagesInv'
  BY <1>3, SweepKeeps
<1>4. CASE ClearTerminal \/ Drain \/ Forget \/ Retry \/ Expire \/ Scan
  BY <1>4, ClearTerminalKeeps, DrainKeeps, ForgetKeeps, RetryScanKeep, ExpireKeeps
<1>5. CASE WriteArtifact \/ Record \/ Unlink \/ Crash
  BY <1>5, WriteArtifactKeeps, RecordKeeps, UnlinkKeeps, CrashKeeps
<1>6. ASSUME NEW r \in Rids, SettleImage(r) PROVE ImagesInv'
  BY <1>1, <1>6 DEF SettleImage
<1>7. CASE ImagesAge
  BY <1>1, <1>7 DEF ImagesAge
<1>8. CASE UNCHANGED imageVars
  BY <1>1, <1>8 DEF imageVars
<1> QED
  BY <1>2, <1>3, <1>4, <1>5, <1>6, <1>7, <1>8 DEF ImagesNext

\* Image files and the ledger account for each other: whatever the host dies between, whichever
\* unlinks fail and whatever a failed write leaves on disk, state.json names the run of every
\* file or holds the intent to delete it, and a run recorded as holding an image has its file
\* unless a commit failed after replacing state.json (PutImage, Sweep, drainCleanup, load).
THEOREM ImagesAlwaysAccounted == ImagesSpec => []ImagesAccounted
<1>1. ImagesInit => ImagesInv
  <2> SUFFICES ASSUME ImagesInit PROVE ImagesInv
    OBVIOUS
  <2>1. catalog = [runs |-> <<>>, cleanup |-> {}] /\ saved = catalog /\ files = Strays /\ pend = {} /\ down = FALSE /\ todo = <<>>
    BY DEF ImagesInit
  <2>2. catalog.runs = <<>> /\ DOMAIN catalog.runs = {} /\ catalog.cleanup = {}
    BY <2>1
  <2>3. LedgerOK(catalog)
    BY <2>1, <2>2 DEF LedgerOK
  <2>4. PlanOK(todo) /\ NextOK(todo)
    BY <2>1, PlanShort DEF NextOK
  <2>5. Held(catalog) = {}
    BY <2>2 DEF Held
  <2>6. UpOK /\ ImagesAccounted
    BY <2>1, <2>2, <2>5 DEF UpOK, ImagesAccounted, ImageTraceable, HeldImageExists
  <2> QED
    BY <2>1, <2>3, <2>4, <2>6 DEF ImagesInv
<1>2. ImagesInv => ImagesAccounted
  BY DEF ImagesInv
<1> QED
  BY <1>1, <1>2, ImagesStepKeeps, PTL DEF ImagesSpec

-----------------------------------------------------------------------------
(***************************************************************************)
(* RunFeed.  Shapes of its state.                                          *)
(***************************************************************************)

FeedStates == {"queued", "running", "done", "failed"}
Rows == UNION {[S -> FeedStates] : S \in SUBSET Ids}
Entry == [n : Nat, run : Ids, state : FeedStates]
Snapshot == [epoch : Nat, seq : Nat, runs : Rows, events : Seq(Entry)]
EventSent == [kind : {"event"}, epoch : Nat, n : Nat, run : Ids, state : FeedStates]
ResetSent == [kind : {"reset"}, epoch : Nat, n : Nat, runs : Rows]
Sent == EventSent \cup ResetSent
Follower == [on : BOOLEAN, epoch : Nat, seq : Nat, chan : Seq(Sent), shows : Rows]

FeedTypeOK ==
    /\ disk \in Snapshot /\ ledger \in Snapshot
    /\ unwritable \in BOOLEAN /\ loaded \in BOOLEAN
    /\ feed \in [Followers -> Follower] /\ created \in SUBSET Ids

(* What a follower w will show once it has received the first i entries of its channel, *)
(* and the cursor it will then have.                                                    *)
EpochAt(w, i) == IF i = 0 THEN w.epoch ELSE w.chan[i].epoch
SeqAt(w, i) == IF i = 0 THEN w.seq ELSE w.chan[i].n
Holds(m, r, s) == IF r \in DOMAIN m THEN m[r] = s ELSE s = "queued"
About(e, r) == e.kind = "reset" \/ e.run = r
TellsState(e, r, s) == IF e.kind = "reset" THEN Holds(e.runs, r, s) ELSE e.state = s
Says(w, i, r, s) ==
    \/ \E j \in 1..i : /\ About(w.chan[j], r) /\ TellsState(w.chan[j], r, s)
                       /\ \A k \in (j + 1)..i : ~About(w.chan[k], r)
    \/ (\A k \in 1..i : ~About(w.chan[k], r)) /\ Holds(w.shows, r, s)

\* No event that a snapshot keeps after the cursor n is about r.
Unheard(v, n, r) == \A j \in 1..Len(v.events) : v.events[j].n > n => v.events[j].run # r

\* Wherever a follower's connection ends, its cursor is not ahead of the snapshot, and what
\* it shows, with the events after the cursor, is what the snapshot holds.
Faithful(w, v) ==
    \A i \in 0..Len(w.chan) : EpochAt(w, i) = v.epoch =>
        /\ SeqAt(w, i) <= v.seq
        /\ SeqAt(w, i) >= v.seq - Len(v.events) =>
              \A r \in DOMAIN v.runs : Unheard(v, SeqAt(w, i), r) => Says(w, i, r, v.runs[r])

\* Events are numbered without a gap up to seq, and the last one about a run has its state.
EventsSound(v) ==
    /\ Len(v.events) <= v.seq
    /\ \A j \in 1..Len(v.events) : v.events[j].n = v.seq - Len(v.events) + j
    /\ \A j \in 1..Len(v.events) :
          /\ v.events[j].run \in DOMAIN v.runs
          /\ \A k \in (j + 1)..Len(v.events) : v.events[k].run # v.events[j].run
          => v.events[j].state = v.runs[v.events[j].run]

\* Only ids that were handed out occur.
KnownBySnapshot(v, ids) == DOMAIN v.runs \subseteq ids
                           /\ \A j \in 1..Len(v.events) : v.events[j].run \in ids
KnownByFollower(w, ids) ==
    /\ DOMAIN w.shows \subseteq ids
    /\ \A i \in 1..Len(w.chan) : IF w.chan[i].kind = "reset" THEN DOMAIN w.chan[i].runs \subseteq ids
                                 ELSE w.chan[i].run \in ids

\* A follower has heard of no epoch after n.
EpochsUpTo(w, n) == \A i \in 0..Len(w.chan) : EpochAt(w, i) <= n

\* Whoever is subscribed will, with what is in its channel, be level with the ledger.
Level(w, v) == w.on => EpochAt(w, Len(w.chan)) = v.epoch /\ SeqAt(w, Len(w.chan)) = v.seq

\* What the invariant says of a follower w and the snapshot v.
Fits(w, v, ids) ==
    /\ w \in Follower /\ Faithful(w, v) /\ KnownByFollower(w, ids)
    /\ EpochsUpTo(w, v.epoch) /\ Level(w, v)

\* What a restart reads is what the host goes by, unless a write has failed or none was made.
DiskAgrees ==
    /\ ledger.epoch > 0
    /\ ~unwritable => disk = ledger \/ disk.epoch = 0
    /\ disk.epoch = 0 \/ disk.epoch >= ledger.epoch

FeedInv ==
    /\ FeedTypeOK /\ DiskAgrees
    /\ EventsSound(disk) /\ EventsSound(ledger)
    /\ KnownBySnapshot(disk, created) /\ KnownBySnapshot(ledger, created)
    /\ \A f \in Followers : /\ Fits(feed[f], ledger, created) /\ Faithful(feed[f], disk)
                            /\ feed[f].on => loaded

(* t is the end of q. *)
EndOf(t, q) == /\ Len(t) <= Len(q)
               /\ \A j \in 1..Len(t) : t[j] = q[Len(q) - Len(t) + j]

\* The entries of a channel, and the cursor after each.
LEMMA SentFacts ==
    ASSUME NEW w \in Follower
    PROVE  /\ w.chan \in Seq(Sent) /\ Len(w.chan) \in Nat /\ w.shows \in Rows
           /\ \A i \in 1..Len(w.chan) : /\ w.chan[i] \in Sent
                                        /\ w.chan[i].epoch \in Nat /\ w.chan[i].n \in Nat
           /\ \A i \in 0..Len(w.chan) : EpochAt(w, i) \in Nat /\ SeqAt(w, i) \in Nat
<1>1. w.chan \in Seq(Sent) /\ w.epoch \in Nat /\ w.seq \in Nat /\ w.shows \in Rows
  BY DEF Follower
<1>2. \A e \in Sent : e.epoch \in Nat /\ e.n \in Nat
  BY DEF Sent, EventSent, ResetSent
<1>3. Len(w.chan) \in Nat /\ \A i \in 1..Len(w.chan) : w.chan[i] \in Sent
  BY <1>1
<1>4. \A i \in 1..Len(w.chan) : w.chan[i].epoch \in Nat /\ w.chan[i].n \in Nat
  BY <1>2, <1>3
<1>5. ASSUME NEW i \in 0..Len(w.chan) PROVE EpochAt(w, i) \in Nat /\ SeqAt(w, i) \in Nat
  <2>1. CASE i = 0
    BY <1>1, <2>1 DEF EpochAt, SeqAt
  <2>2. CASE i # 0
    <3>1. i \in 1..Len(w.chan)
      BY <1>3, <2>2
    <3> QED
      BY <1>4, <2>2, <3>1 DEF EpochAt, SeqAt
  <2> QED
    BY <2>1, <2>2
<1> QED
  BY <1>1, <1>3, <1>4, <1>5

\* The fields of a snapshot.
LEMMA SnapshotFacts ==
    ASSUME NEW v \in Snapshot
    PROVE  /\ v.epoch \in Nat /\ v.seq \in Nat /\ v.events \in Seq(Entry) /\ Len(v.events) \in Nat
           /\ v.runs \in Rows /\ DOMAIN v.runs \in SUBSET Ids
           /\ \A r \in DOMAIN v.runs : v.runs[r] \in FeedStates
           /\ v.runs \in [DOMAIN v.runs -> FeedStates]
           /\ \A j \in 1..Len(v.events) : v.events[j] \in Entry /\ v.events[j].n \in Nat
                                          /\ v.events[j].run \in Ids
<1>1. v.epoch \in Nat /\ v.seq \in Nat /\ v.events \in Seq(Entry) /\ v.runs \in Rows
  BY DEF Snapshot
<1>2. \A j \in 1..Len(v.events) : v.events[j] \in Entry
  BY <1>1
<1>3. \A e \in Entry : e.n \in Nat /\ e.run \in Ids
  BY DEF Entry
<1>4. PICK S \in SUBSET Ids : v.runs \in [S -> FeedStates]
  BY <1>1 DEF Rows
<1> QED
  BY <1>1, <1>2, <1>3, <1>4

\* The last of some places.
LEMMA GreatestPlace ==
    ASSUME NEW i \in Nat, NEW R \in SUBSET (1..i), R # {}
    PROVE  \E j \in R : \A k \in R : k <= j
<1> DEFINE M == {i - k : k \in R}
<1>1. M \in SUBSET Nat /\ M # {}
  <2>1. \A k \in R : k \in Int /\ k <= i
    OBVIOUS
  <2>2. \A k \in R : i - k \in Nat
    BY <2>1
  <2> QED
    BY <2>2
<1>2. PICK m \in M : \A n \in M : m <= n
  <2> HIDE DEF M
  <2> QED
    BY <1>1, LeastNatural
<1>3. PICK j \in R : m = i - j
  OBVIOUS
<1>4. ASSUME NEW k \in R PROVE k <= j
  <2>1. i - k \in M /\ i \in Int /\ j \in Int /\ k \in Int
    OBVIOUS
  <2>2. m <= i - k
    BY <1>2, <2>1
  <2> QED
    BY <1>3, <2>1, <2>2
<1> QED
  BY <1>4

\* A follower that has never heard of a run takes it for queued.
LEMMA SaysOfUnknown ==
    ASSUME NEW ids, NEW w \in Follower, KnownByFollower(w, ids), NEW r, r \notin ids,
           NEW i \in 0..Len(w.chan)
    PROVE  Says(w, i, r, "queued")
<1>0. Len(w.chan) \in Nat
  BY SentFacts
<1>1. \A j \in 1..i : w.chan[j].kind # "reset" => w.chan[j].run # r
  BY <1>0 DEF KnownByFollower
<1>2. \A j \in 1..i : w.chan[j].kind = "reset" => r \notin DOMAIN w.chan[j].runs
  BY <1>0 DEF KnownByFollower
<1>3. Holds(w.shows, r, "queued")
  BY DEF KnownByFollower, Holds
<1> DEFINE R == {j \in 1..i : w.chan[j].kind = "reset"}
<1>4. CASE R = {}
  <2>1. \A k \in 1..i : ~About(w.chan[k], r)
    BY <1>1, <1>4 DEF About
  <2> QED
    BY <1>3, <2>1 DEF Says
<1>5. CASE R # {}
  <2>1. R \in SUBSET (1..i) /\ i \in Nat
    BY <1>0
  <2>2. \E j \in R : \A k \in R : k <= j
    <3> HIDE DEF R
    <3> QED
      BY <1>5, <2>1, GreatestPlace
  <2>3. PICK j \in R : \A k \in R : k <= j
    BY <2>2
  <2>4. j \in 1..i /\ w.chan[j].kind = "reset"
    OBVIOUS
  <2>5. \A k \in (j + 1)..i : ~About(w.chan[k], r)
    <3> SUFFICES ASSUME NEW k \in (j + 1)..i PROVE ~About(w.chan[k], r)
      OBVIOUS
    <3>1. k \in 1..i /\ ~(k <= j)
      BY <1>0, <2>4
    <3>2. k \notin R
      BY <2>3, <3>1
    <3> QED
      BY <1>1, <3>1, <3>2 DEF About
  <2>6. About(w.chan[j], r) /\ TellsState(w.chan[j], r, "queued")
    BY <1>2, <2>4 DEF About, TellsState, Holds
  <2> QED
    BY <2>4, <2>5, <2>6 DEF Says
<1> QED
  BY <1>4, <1>5

(* u is v with one more event, which tells that r has reached s; new rows are queued, and *)
(* old events may be gone.                                                                *)
Told(v, r, s) == [n |-> v.seq + 1, run |-> r, state |-> s]
Follows(v, u, r, s, ids) ==
    /\ u.epoch = v.epoch /\ u.seq = v.seq + 1
    /\ r \in DOMAIN u.runs /\ u.runs[r] = s /\ DOMAIN v.runs \subseteq DOMAIN u.runs
    /\ \A x \in DOMAIN u.runs : x # r =>
          IF x \in DOMAIN v.runs THEN u.runs[x] = v.runs[x] ELSE u.runs[x] = "queued" /\ x \notin ids
    /\ r \in DOMAIN v.runs \/ r \notin ids
    /\ EndOf(u.events, Append(v.events, Told(v, r, s)))

\* The events of the next snapshot, by their place in the previous one.
LEMMA FollowsEvents ==
    ASSUME NEW ids, NEW v \in Snapshot, NEW u \in Snapshot, NEW r \in Ids, NEW s \in FeedStates,
           Follows(v, u, r, s, ids)
    PROVE  /\ Len(u.events) <= Len(v.events) + 1
           /\ \A j \in 1..Len(u.events) :
                 LET k == Len(v.events) + 1 - Len(u.events) + j
                 IN  /\ k \in 1..(Len(v.events) + 1)
                     /\ k <= Len(v.events) => u.events[j] = v.events[k]
                     /\ k = Len(v.events) + 1 => u.events[j] = Told(v, r, s)
<1> DEFINE e == Told(v, r, s)
           q == Append(v.events, e)
<1>1. v.events \in Seq(Entry) /\ Len(v.events) \in Nat /\ Len(u.events) \in Nat /\ v.seq \in Nat
  BY SnapshotFacts
<1>2. e \in Entry
  BY <1>1 DEF Told, Entry
<1> HIDE DEF e
<1>3. /\ Len(q) = Len(v.events) + 1 /\ q[Len(v.events) + 1] = e
      /\ \A k \in 1..Len(v.events) : q[k] = v.events[k]
  BY <1>1, <1>2, AppendProperties
<1>4. EndOf(u.events, q)
  BY DEF Follows, e
<1> HIDE DEF q
<1>5. Len(u.events) <= Len(v.events) + 1
  BY <1>3, <1>4 DEF EndOf
<1>6. ASSUME NEW j \in 1..Len(u.events)
      PROVE  LET k == Len(v.events) + 1 - Len(u.events) + j
             IN  /\ k \in 1..(Len(v.events) + 1)
                 /\ k <= Len(v.events) => u.events[j] = v.events[k]
                 /\ k = Len(v.events) + 1 => u.events[j] = e
  <2> DEFINE k == Len(v.events) + 1 - Len(u.events) + j
  <2>1. k \in 1..(Len(v.events) + 1)
    <3> DEFINE L == Len(v.events)
               M == Len(u.events)
    <3>1. L \in Nat /\ M \in Nat /\ j \in 1..M /\ M <= L + 1
      BY <1>1, <1>5
    <3> HIDE DEF L, M
    <3>2. L + 1 - M + j \in 1..(L + 1)
      BY <3>1
    <3> QED
      BY <3>2 DEF L, M
  <2>2. u.events[j] = q[Len(q) - Len(u.events) + j]
    BY <1>4 DEF EndOf
  <2>3. u.events[j] = q[k]
    BY <1>3, <2>2
  <2> HIDE DEF k
  <2>4. k <= Len(v.events) => k \in 1..Len(v.events)
    BY <1>1, <2>1
  <2>5. /\ k <= Len(v.events) => u.events[j] = v.events[k]
        /\ k = Len(v.events) + 1 => u.events[j] = e
    BY <1>3, <2>3, <2>4
  <2> QED
    BY <2>1, <2>5 DEF k
<1> QED
  BY <1>5, <1>6 DEF e

\* The events of the next snapshot are numbered without a gap, and tell of the last states.
LEMMA FollowsSound ==
    ASSUME NEW ids, NEW v \in Snapshot, NEW u \in Snapshot, NEW r \in Ids, NEW s \in FeedStates,
           Follows(v, u, r, s, ids), EventsSound(v), KnownBySnapshot(v, ids)
    PROVE  EventsSound(u)
<1> DEFINE L == Len(v.events)
           M == Len(u.events)
           K(j) == L + 1 - M + j
<1>1. /\ L \in Nat /\ M \in Nat /\ v.seq \in Nat /\ u.seq = v.seq + 1 /\ L <= v.seq
      /\ M <= L + 1
  BY SnapshotFacts, FollowsEvents DEF Follows, EventsSound
<1>2. M <= u.seq
  BY <1>1
<1>3. \A j \in 1..M : /\ K(j) \in 1..(L + 1)
                      /\ K(j) <= L => u.events[j] = v.events[K(j)]
                      /\ K(j) = L + 1 => u.events[j] = Told(v, r, s)
  BY FollowsEvents, ZenonT(60)
<1>4. \A k \in 1..L : v.events[k].n = v.seq - L + k /\ v.events[k].run \in ids
  BY DEF EventsSound, KnownBySnapshot
<1>5. Told(v, r, s).n = v.seq + 1 /\ Told(v, r, s).run = r /\ Told(v, r, s).state = s
  BY DEF Told
<1> HIDE DEF L, M
<1>6. ASSUME NEW j \in 1..M PROVE u.events[j].n = u.seq - M + j
  <2>1. CASE K(j) <= L
    <3>1. K(j) \in 1..L
      BY <1>1, <1>3, <2>1
    <3>2. u.events[j].n = v.seq - L + K(j)
      BY <1>3, <1>4, <2>1, <3>1
    <3> QED
      BY <1>1, <3>2
  <2>2. CASE ~(K(j) <= L)
    <3>1. K(j) = L + 1 /\ j = M
      BY <1>1, <1>3, <2>2
    <3>2. u.events[j].n = v.seq + 1
      BY <1>3, <1>5, <3>1
    <3> QED
      BY <1>1, <3>1, <3>2
  <2> QED
    BY <2>1, <2>2
<1>7. ASSUME NEW j \in 1..M, u.events[j].run \in DOMAIN u.runs,
             \A k \in (j + 1)..M : u.events[k].run # u.events[j].run
      PROVE  u.events[j].state = u.runs[u.events[j].run]
  <2>1. CASE K(j) <= L
    <3>0. K(j) \in 1..L /\ u.events[j] = v.events[K(j)]
      BY <1>1, <1>3, <2>1
    <3> DEFINE x == v.events[K(j)].run
    <3>1. K(M) = L + 1 /\ M \in (j + 1)..M
      BY <1>1, <2>1
    <3>2. u.events[M].run = r
      BY <1>1, <1>3, <1>5, <3>1
    <3>3. x # r
      BY <1>7, <3>0, <3>1, <3>2
    <3>4. x \in ids /\ x \in DOMAIN u.runs
      BY <1>4, <1>7, <3>0
    <3>5. x \in DOMAIN v.runs /\ u.runs[x] = v.runs[x]
      BY <3>3, <3>4 DEF Follows
    <3>6. \A k \in (K(j) + 1)..L : v.events[k].run # x
      <4> SUFFICES ASSUME NEW k \in (K(j) + 1)..L PROVE v.events[k].run # x
        OBVIOUS
      <4>1. k - (L + 1 - M) \in (j + 1)..M /\ K(k - (L + 1 - M)) = k /\ k <= L
            /\ k - (L + 1 - M) \in 1..M
        BY <1>1, <3>0
      <4>2. u.events[k - (L + 1 - M)] = v.events[k]
        BY <1>3, <4>1
      <4> QED
        BY <1>7, <3>0, <4>1, <4>2
    <3> HIDE DEF x
    <3>7. v.events[K(j)].state = v.runs[x]
      BY <3>0, <3>5, <3>6 DEF EventsSound, L, x
    <3> QED
      BY <3>0, <3>5, <3>7 DEF x
  <2>2. CASE ~(K(j) <= L)
    <3>1. K(j) = L + 1
      BY <1>1, <1>3, <2>2
    <3>2. u.events[j].run = r /\ u.events[j].state = s
      BY <1>3, <1>5, <3>1
    <3> QED
      BY <3>2 DEF Follows
  <2> QED
    BY <2>1, <2>2
<1> QED
  BY <1>2, <1>6, <1>7 DEF EventsSound, M

\* Before the new event, whatever the follower has not heard of in the new snapshot it had
\* not heard of in the old one, and shows as it should.
LEMMA FollowsShown ==
    ASSUME NEW ids, NEW v \in Snapshot, NEW u \in Snapshot, NEW r \in Ids, NEW s \in FeedStates,
           Follows(v, u, r, s, ids), EventsSound(v), NEW w \in Follower, KnownByFollower(w, ids),
           Faithful(w, v), NEW i \in 0..Len(w.chan), EpochAt(w, i) = v.epoch,
           SeqAt(w, i) >= u.seq - Len(u.events), NEW x \in DOMAIN u.runs, x # r,
           Unheard(u, SeqAt(w, i), x)
    PROVE  Says(w, i, x, u.runs[x])
<1> DEFINE L == Len(v.events)
           M == Len(u.events)
           c == SeqAt(w, i)
           K(j) == L + 1 - M + j
<1>1. /\ L \in Nat /\ M \in Nat /\ v.seq \in Nat /\ u.seq = v.seq + 1 /\ L <= v.seq
      /\ M <= L + 1 /\ c \in Nat
  BY SnapshotFacts, FollowsEvents, SentFacts DEF Follows, EventsSound
<1>2. \A j \in 1..M : /\ K(j) \in 1..(L + 1)
                      /\ K(j) <= L => u.events[j] = v.events[K(j)]
  BY FollowsEvents, ZenonT(60)
<1>3. \A k \in 1..L : v.events[k].n = v.seq - L + k
  BY DEF EventsSound
<1>4. c >= u.seq - M
  OBVIOUS
<1>5. \A j \in 1..M : u.events[j].n > c => u.events[j].run # x
  BY DEF Unheard
<1> HIDE DEF L, M, c
<1>6. CASE x \in DOMAIN v.runs
  <2>1. ASSUME NEW k \in 1..L, v.events[k].n > c PROVE v.events[k].run # x
    <3>1. v.seq - L + k > c
      BY <1>3, <2>1
    <3>2. k - (L + 1 - M) \in 1..M /\ K(k - (L + 1 - M)) = k /\ k <= L
      BY <1>1, <1>4, <3>1
    <3>3. u.events[k - (L + 1 - M)] = v.events[k]
      BY <1>2, <3>2
    <3> QED
      BY <1>5, <2>1, <3>2, <3>3
  <2>2. Unheard(v, c, x)
    BY <2>1 DEF Unheard, L
  <2>3. c >= v.seq - L
    BY <1>1, <1>4
  <2>4. Says(w, i, x, v.runs[x])
    BY <1>6, <2>2, <2>3 DEF Faithful, c, L
  <2>5. u.runs[x] = v.runs[x]
    BY <1>6 DEF Follows
  <2> QED
    BY <2>4, <2>5
<1>7. CASE x \notin DOMAIN v.runs
  BY <1>7, SaysOfUnknown DEF Follows
<1> QED
  BY <1>6, <1>7

\* A follower that is not told of the next snapshot can still catch up with it.
LEMMA Untold ==
    ASSUME NEW ids, NEW v \in Snapshot, NEW u \in Snapshot, NEW r \in Ids, NEW s \in FeedStates,
           Follows(v, u, r, s, ids), EventsSound(v), NEW w \in Follower, KnownByFollower(w, ids),
           Faithful(w, v)
    PROVE  Faithful(w, u)
<1> SUFFICES ASSUME NEW i \in 0..Len(w.chan), EpochAt(w, i) = u.epoch
             PROVE  /\ SeqAt(w, i) <= u.seq
                    /\ SeqAt(w, i) >= u.seq - Len(u.events) =>
                         \A x \in DOMAIN u.runs : Unheard(u, SeqAt(w, i), x) => Says(w, i, x, u.runs[x])
  BY DEF Faithful
<1>1. EpochAt(w, i) = v.epoch /\ u.seq = v.seq + 1
  BY DEF Follows
<1>2. v.seq \in Nat /\ Len(u.events) \in Nat /\ SeqAt(w, i) \in Nat /\ Len(v.events) \in Nat
  BY SnapshotFacts, SentFacts
<1>3. SeqAt(w, i) <= v.seq
  BY <1>1 DEF Faithful
<1>4. ASSUME SeqAt(w, i) >= u.seq - Len(u.events), NEW x \in DOMAIN u.runs,
             Unheard(u, SeqAt(w, i), x)
      PROVE  Says(w, i, x, u.runs[x])
  <2>1. Len(u.events) >= 1 /\ Len(v.events) + 1 - Len(u.events) + Len(u.events) = Len(v.events) + 1
    BY <1>1, <1>2, <1>3, <1>4
  <2>2. Len(u.events) \in 1..Len(u.events)
    BY <1>2, <2>1
  <2>3. u.events[Len(u.events)] = Told(v, r, s)
    BY <2>1, <2>2, FollowsEvents, ZenonT(60)
  <2>4. u.events[Len(u.events)].n > SeqAt(w, i) /\ u.events[Len(u.events)].run = r
    BY <1>2, <1>3, <2>3 DEF Told
  <2>5. x # r
    BY <1>4, <2>2, <2>4 DEF Unheard
  <2> QED
    BY <1>1, <1>4, <2>5, FollowsShown
<1> QED
  BY <1>1, <1>2, <1>3, <1>4

-----------------------------------------------------------------------------
(* What the steps of the host do to one follower. *)

\* What a follower will show is settled by the entries it receives up to there.
LEMMA SaysSame ==
    ASSUME NEW w, NEW y, NEW i \in Nat, NEW r, NEW s,
           y.shows = w.shows, \A k \in 1..i : y.chan[k] = w.chan[k], Says(w, i, r, s)
    PROVE  Says(y, i, r, s)
<1>1. CASE \E j \in 1..i : /\ About(w.chan[j], r) /\ TellsState(w.chan[j], r, s)
                           /\ \A k \in (j + 1)..i : ~About(w.chan[k], r)
  <2>1. PICK j \in 1..i : /\ About(w.chan[j], r) /\ TellsState(w.chan[j], r, s)
                          /\ \A k \in (j + 1)..i : ~About(w.chan[k], r)
    BY <1>1
  <2>2. \A k \in (j + 1)..i : k \in 1..i
    OBVIOUS
  <2>3. \A k \in (j + 1)..i : ~About(y.chan[k], r)
    BY <2>1, <2>2
  <2>4. About(y.chan[j], r) /\ TellsState(y.chan[j], r, s)
    BY <2>1
  <2> QED
    BY <2>3, <2>4 DEF Says
<1>2. CASE (\A k \in 1..i : ~About(w.chan[k], r)) /\ Holds(w.shows, r, s)
  <2>1. \A k \in 1..i : ~About(y.chan[k], r)
    BY <1>2
  <2>2. Holds(y.shows, r, s)
    BY <1>2
  <2> QED
    BY <2>1, <2>2 DEF Says
<1> QED
  BY <1>1, <1>2 DEF Says

\* What an entry at the end of the channel tells is what will be shown.
LEMMA SaysLast ==
    ASSUME NEW w, NEW i \in Nat, i >= 1, NEW r, NEW s,
           About(w.chan[i], r), TellsState(w.chan[i], r, s)
    PROVE  Says(w, i, r, s)
<1>1. i \in 1..i /\ \A k \in (i + 1)..i : ~About(w.chan[k], r)
  OBVIOUS
<1> QED
  BY <1>1 DEF Says

\* An entry that is about another run changes nothing for this one.
LEMMA SaysNext ==
    ASSUME NEW w, NEW i \in Nat, NEW r, NEW s, Says(w, i, r, s), ~About(w.chan[i + 1], r)
    PROVE  Says(w, i + 1, r, s)
<1>1. CASE \E j \in 1..i : /\ About(w.chan[j], r) /\ TellsState(w.chan[j], r, s)
                           /\ \A k \in (j + 1)..i : ~About(w.chan[k], r)
  <2>1. PICK j \in 1..i : /\ About(w.chan[j], r) /\ TellsState(w.chan[j], r, s)
                          /\ \A k \in (j + 1)..i : ~About(w.chan[k], r)
    BY <1>1
  <2>2. \A k \in (j + 1)..(i + 1) : k \in (j + 1)..i \/ k = i + 1
    OBVIOUS
  <2>3. j \in 1..(i + 1) /\ \A k \in (j + 1)..(i + 1) : ~About(w.chan[k], r)
    BY <2>1, <2>2
  <2> QED
    BY <2>1, <2>3 DEF Says
<1>2. CASE (\A k \in 1..i : ~About(w.chan[k], r)) /\ Holds(w.shows, r, s)
  <2>1. \A k \in 1..(i + 1) : k \in 1..i \/ k = i + 1
    OBVIOUS
  <2> QED
    BY <1>2, <2>1 DEF Says
<1> QED
  BY <1>1, <1>2 DEF Says

\* The cursors and the shown states of a channel that has grown by e.
LEMMA GrownFacts ==
    ASSUME NEW w \in Follower, NEW e \in Sent, NEW y, y = [w EXCEPT !.chan = Append(@, e)]
    PROVE  /\ y \in Follower /\ y.on = w.on /\ y.shows = w.shows
           /\ Len(y.chan) = Len(w.chan) + 1 /\ y.chan[Len(w.chan) + 1] = e
           /\ \A k \in 1..Len(w.chan) : y.chan[k] = w.chan[k]
           /\ \A i \in 0..Len(w.chan) : EpochAt(y, i) = EpochAt(w, i) /\ SeqAt(y, i) = SeqAt(w, i)
           /\ EpochAt(y, Len(w.chan) + 1) = e.epoch /\ SeqAt(y, Len(w.chan) + 1) = e.n
<1> DEFINE q == Append(w.chan, e)
<1>1. w.chan \in Seq(Sent) /\ Len(w.chan) \in Nat
  BY SentFacts
<1>2. /\ q \in Seq(Sent) /\ Len(q) = Len(w.chan) + 1 /\ q[Len(w.chan) + 1] = e
      /\ \A k \in 1..Len(w.chan) : q[k] = w.chan[k]
  BY <1>1, AppendProperties
<1>3. y = [w EXCEPT !.chan = q]
  OBVIOUS
<1> HIDE DEF q
<1>4. y \in Follower /\ y.on = w.on /\ y.shows = w.shows /\ y.chan = q /\ y.epoch = w.epoch /\ y.seq = w.seq
  BY <1>2, <1>3 DEF Follower
<1>5. ASSUME NEW i \in 0..Len(w.chan)
      PROVE  EpochAt(y, i) = EpochAt(w, i) /\ SeqAt(y, i) = SeqAt(w, i)
  <2>1. CASE i = 0
    BY <1>4, <2>1 DEF EpochAt, SeqAt
  <2>2. CASE i # 0
    <3>1. i \in 1..Len(w.chan)
      BY <1>1, <2>2
    <3> QED
      BY <1>2, <1>4, <2>2, <3>1 DEF EpochAt, SeqAt
  <2> QED
    BY <2>1, <2>2
<1>6. EpochAt(y, Len(w.chan) + 1) = e.epoch /\ SeqAt(y, Len(w.chan) + 1) = e.n
  <2>1. Len(w.chan) + 1 # 0
    BY <1>1
  <2> QED
    BY <1>2, <1>4, <2>1 DEF EpochAt, SeqAt
<1> QED
  BY <1>2, <1>4, <1>5, <1>6

\* A follower with room is told of the next snapshot, and will be level with it.
LEMMA ToldOfEvent ==
    ASSUME NEW ids, NEW v \in Snapshot, NEW u \in Snapshot, NEW r \in Ids, NEW s \in FeedStates,
           Follows(v, u, r, s, ids), EventsSound(v), NEW w \in Follower, KnownByFollower(w, ids),
           Faithful(w, v), EpochAt(w, Len(w.chan)) = v.epoch, SeqAt(w, Len(w.chan)) = v.seq,
           NEW e \in EventSent, e.epoch = u.epoch, e.n = u.seq, e.run = r, e.state = s,
           NEW y, y = [w EXCEPT !.chan = Append(@, e)]
    PROVE  Faithful(y, u)
<1> DEFINE n == Len(w.chan)
<1>0. e \in Sent /\ n \in Nat
  BY SentFacts DEF Sent
<1>1. /\ y.shows = w.shows /\ Len(y.chan) = n + 1 /\ y.chan[n + 1] = e
      /\ \A k \in 1..n : y.chan[k] = w.chan[k]
      /\ \A i \in 0..n : EpochAt(y, i) = EpochAt(w, i) /\ SeqAt(y, i) = SeqAt(w, i)
      /\ EpochAt(y, n + 1) = e.epoch /\ SeqAt(y, n + 1) = e.n
  BY <1>0, GrownFacts
<1>2. Faithful(w, u)
  BY Untold
<1>3. /\ u.epoch = v.epoch /\ u.seq = v.seq + 1 /\ v.seq \in Nat /\ Len(v.events) \in Nat
      /\ r \in DOMAIN u.runs /\ u.runs[r] = s
  BY SnapshotFacts DEF Follows
<1> HIDE DEF n
<1>4. ASSUME NEW i \in 0..n, EpochAt(y, i) = u.epoch
      PROVE  /\ SeqAt(y, i) <= u.seq
             /\ SeqAt(y, i) >= u.seq - Len(u.events) =>
                  \A x \in DOMAIN u.runs : Unheard(u, SeqAt(y, i), x) => Says(y, i, x, u.runs[x])
  <2>0. EpochAt(y, i) = EpochAt(w, i) /\ SeqAt(y, i) = SeqAt(w, i)
    BY <1>1
  <2>1. i \in 0..Len(w.chan) /\ EpochAt(w, i) = u.epoch /\ SeqAt(y, i) = SeqAt(w, i) /\ i \in Nat
    BY <1>0, <1>4, <2>0 DEF n
  <2>2. ASSUME NEW x \in DOMAIN u.runs, Says(w, i, x, u.runs[x]) PROVE Says(y, i, x, u.runs[x])
    <3>1. \A k \in 1..i : y.chan[k] = w.chan[k]
      BY <1>0, <1>1
    <3> QED
      BY <1>1, <2>1, <2>2, <3>1, SaysSame
  <2> QED
    BY <1>2, <2>1, <2>2 DEF Faithful
<1>5. ASSUME NEW x \in DOMAIN u.runs PROVE Says(y, n + 1, x, u.runs[x])
  <2>1. CASE x = r
    <3>1. About(y.chan[n + 1], x) /\ TellsState(y.chan[n + 1], x, u.runs[x])
      BY <1>1, <1>3, <2>1 DEF About, TellsState, EventSent
    <3>2. n + 1 \in Nat /\ n + 1 >= 1
      BY <1>0
    <3> QED
      BY <3>1, <3>2, SaysLast
  <2>2. CASE x # r
    <3>1. Says(w, n, x, u.runs[x])
      <4>1. CASE x \in DOMAIN v.runs
        <5>1. Unheard(v, v.seq, x)
          <6>1. \A j \in 1..Len(v.events) : ~(v.events[j].n > v.seq)
            BY <1>3 DEF EventsSound
          <6> QED
            BY <6>1 DEF Unheard
        <5>2. Says(w, n, x, v.runs[x])
          BY <1>0, <1>3, <4>1, <5>1 DEF Faithful, n
        <5> QED
          BY <2>2, <4>1, <5>2 DEF Follows
      <4>2. CASE x \notin DOMAIN v.runs
        BY <1>0, <2>2, <4>2, SaysOfUnknown DEF Follows, n
      <4> QED
        BY <4>1, <4>2
    <3>2. Says(y, n, x, u.runs[x])
      BY <1>0, <1>1, <3>1, SaysSame
    <3>3. ~About(y.chan[n + 1], x)
      BY <1>1, <2>2 DEF About, EventSent
    <3> QED
      BY <1>0, <3>2, <3>3, SaysNext
  <2> QED
    BY <2>1, <2>2
<1>6. \A i \in 0..(n + 1) : i \in 0..n \/ i = n + 1
  BY <1>0
<1>7. SeqAt(y, n + 1) <= u.seq
  BY <1>1, <1>3
<1> QED
  <2> SUFFICES ASSUME NEW i \in 0..(n + 1), EpochAt(y, i) = u.epoch
               PROVE  /\ SeqAt(y, i) <= u.seq
                      /\ SeqAt(y, i) >= u.seq - Len(u.events) =>
                           \A x \in DOMAIN u.runs : Unheard(u, SeqAt(y, i), x) => Says(y, i, x, u.runs[x])
    BY <1>1 DEF Faithful
  <2> QED
    BY <1>4, <1>5, <1>6, <1>7

\* A reset, at the end of the channel, tells of everything.
LEMMA ToldOfReset ==
    ASSUME NEW u \in Snapshot, NEW w \in Follower, NEW e \in ResetSent,
           e.epoch = u.epoch, e.n = u.seq, e.runs = u.runs,
           NEW y, y = [w EXCEPT !.chan = Append(@, e)],
           \A i \in 0..Len(w.chan) : EpochAt(w, i) # u.epoch
    PROVE  Faithful(y, u)
<1> DEFINE n == Len(w.chan)
<1>0. e \in Sent /\ n \in Nat /\ u.seq \in Nat
  BY SentFacts, SnapshotFacts DEF Sent
<1>1. /\ Len(y.chan) = n + 1 /\ y.chan[n + 1] = e
      /\ \A i \in 0..n : EpochAt(y, i) = EpochAt(w, i)
      /\ SeqAt(y, n + 1) = e.n
  BY <1>0, GrownFacts
<1>2. \A i \in 0..n : EpochAt(y, i) # u.epoch
  BY <1>1
<1> HIDE DEF n
<1>3. ASSUME NEW x \in DOMAIN u.runs PROVE Says(y, n + 1, x, u.runs[x])
  <2>1. About(e, x) /\ TellsState(e, x, u.runs[x])
    BY DEF About, TellsState, Holds, ResetSent
  <2>2. n + 1 \in Nat /\ n + 1 >= 1
    BY <1>0
  <2> QED
    BY <1>1, <2>1, <2>2, SaysLast
<1>4. \A i \in 0..(n + 1) : i \in 0..n \/ i = n + 1
  BY <1>0
<1>5. SeqAt(y, n + 1) <= u.seq
  BY <1>0, <1>1
<1> QED
  <2> SUFFICES ASSUME NEW i \in 0..(n + 1), EpochAt(y, i) = u.epoch
               PROVE  /\ SeqAt(y, i) <= u.seq
                      /\ SeqAt(y, i) >= u.seq - Len(u.events) =>
                           \A x \in DOMAIN u.runs : Unheard(u, SeqAt(y, i), x) => Says(y, i, x, u.runs[x])
    BY <1>1 DEF Faithful
  <2> QED
    BY <1>2, <1>3, <1>4, <1>5

\* The deletion of rows asks less of what is shown.
LEMMA Deleted ==
    ASSUME NEW ids, NEW v \in Snapshot, EventsSound(v), KnownBySnapshot(v, ids), NEW S
    PROVE  LET u == [v EXCEPT !.runs = [x \in DOMAIN v.runs \ S |-> v.runs[x]]]
           IN  /\ u \in Snapshot /\ EventsSound(u) /\ KnownBySnapshot(u, ids)
               /\ \A w : Faithful(w, v) => Faithful(w, u)
<1> DEFINE u == [v EXCEPT !.runs = [x \in DOMAIN v.runs \ S |-> v.runs[x]]]
           m == [x \in DOMAIN v.runs \ S |-> v.runs[x]]
<1>1. m \in Rows /\ DOMAIN m = DOMAIN v.runs \ S /\ \A x \in DOMAIN m : m[x] = v.runs[x]
  <2>1. m \in [DOMAIN v.runs \ S -> FeedStates] /\ DOMAIN v.runs \ S \in SUBSET Ids
    BY SnapshotFacts
  <2> QED
    BY <2>1 DEF Rows
<1>2. u = [v EXCEPT !.runs = m]
  OBVIOUS
<1> HIDE DEF m, u
<1>3. /\ u \in Snapshot /\ u.epoch = v.epoch /\ u.seq = v.seq /\ u.events = v.events /\ u.runs = m
  BY <1>1, <1>2 DEF Snapshot
<1>4. \A w : Faithful(w, v) => Faithful(w, u)
  BY <1>1, <1>3 DEF Faithful, Unheard
<1>5. EventsSound(u)
  BY <1>1, <1>3 DEF EventsSound
<1>6. KnownBySnapshot(u, ids)
  BY <1>1, <1>3 DEF KnownBySnapshot
<1> QED
  BY <1>3, <1>4, <1>5, <1>6 DEF u

\* Wherever its connection ends, a follower keeps the cursor and the states it has: that is
\* the beginning of its channel.
LEMMA CutOff ==
    ASSUME NEW ids, NEW w \in Follower, NEW v, Faithful(w, v),
           NEW y \in Follower, y.epoch = w.epoch, y.seq = w.seq, y.shows = w.shows, y.chan = <<>>
    PROVE  Faithful(y, v) /\ (KnownByFollower(w, ids) => KnownByFollower(y, ids))
           /\ (\A n : EpochsUpTo(w, n) => EpochsUpTo(y, n))
<1>1. Len(y.chan) = 0 /\ 0 \in 0..Len(w.chan)
  BY SentFacts
<1>2. \A i \in 0..0 : i = 0
  OBVIOUS
<1>3. EpochAt(y, 0) = EpochAt(w, 0) /\ SeqAt(y, 0) = SeqAt(w, 0)
  BY DEF EpochAt, SeqAt
<1>4. \A r, s : Says(w, 0, r, s) => Says(y, 0, r, s)
  <2> SUFFICES ASSUME NEW r, NEW s, Says(w, 0, r, s) PROVE Says(y, 0, r, s)
    OBVIOUS
  <2>1. \A k \in 1..0 : y.chan[k] = w.chan[k]
    OBVIOUS
  <2> QED
    BY <2>1, SaysSame
<1>5. Faithful(y, v)
  BY <1>1, <1>2, <1>3, <1>4 DEF Faithful
<1>6. KnownByFollower(w, ids) => KnownByFollower(y, ids)
  BY <1>1 DEF KnownByFollower
<1>7. \A n : EpochsUpTo(w, n) => EpochsUpTo(y, n)
  BY <1>1, <1>2, <1>3 DEF EpochsUpTo
<1> QED
  BY <1>5, <1>6, <1>7

\* The follower w after it has received the first entry of its channel.
Received(w) ==
    LET e == Head(w.chan)
    IN  [w EXCEPT !.chan = Tail(@), !.epoch = e.epoch, !.seq = e.n,
                  !.shows = IF e.kind = "reset" THEN e.runs ELSE Set(@, e.run, e.state)]

\* Its rest is the beginning of what was under way.
LEMMA ReceivedFacts ==
    ASSUME NEW w \in Follower, w.chan # <<>>, NEW y, y = Received(w)
    PROVE  /\ y \in Follower /\ y.on = w.on /\ Len(w.chan) >= 1 /\ Len(y.chan) = Len(w.chan) - 1
           /\ y.shows = IF w.chan[1].kind = "reset" THEN w.chan[1].runs
                        ELSE Set(w.shows, w.chan[1].run, w.chan[1].state)
           /\ \A k \in 1..(Len(w.chan) - 1) : y.chan[k] = w.chan[k + 1]
           /\ \A i \in 0..(Len(w.chan) - 1) : EpochAt(y, i) = EpochAt(w, i + 1)
                                              /\ SeqAt(y, i) = SeqAt(w, i + 1)
<1> DEFINE e == w.chan[1]
           n == Len(w.chan)
           t == Tail(w.chan)
           m == IF e.kind = "reset" THEN e.runs ELSE Set(w.shows, e.run, e.state)
<1>1. w.chan \in Seq(Sent) /\ n \in Nat
  BY SentFacts
<1>2. /\ Head(w.chan) = e /\ t \in Seq(Sent) /\ n >= 1 /\ Len(t) = n - 1
      /\ \A k \in 1..(n - 1) : t[k] = w.chan[k + 1]
  <2>1. w.chan # <<>> /\ w.chan \in Seq(Sent)
    BY <1>1
  <2>2. /\ Head(w.chan) = e /\ t \in Seq(Sent) /\ Len(t) = n - 1
        /\ \A k \in 1..Len(t) : t[k] = w.chan[k + 1]
    BY <2>1, HeadTailProperties
  <2>3. n # 0
    BY <2>1, EmptySeq
  <2> QED
    BY <1>1, <2>2, <2>3
<1>3. e \in Sent /\ e.epoch \in Nat /\ e.n \in Nat
  BY <1>1, <1>2, SentFacts
<1>4. m \in Rows
  <2>1. CASE e.kind = "reset"
    BY <1>3, <2>1 DEF Sent, EventSent, ResetSent
  <2>2. CASE e.kind # "reset"
    <3>1. e.run \in Ids /\ e.state \in FeedStates
      BY <1>3, <2>2 DEF Sent, EventSent, ResetSent
    <3>2. PICK S \in SUBSET Ids : w.shows \in [S -> FeedStates]
      BY DEF Follower, Rows
    <3>3. Set(w.shows, e.run, e.state) \in [S \cup {e.run} -> FeedStates]
      BY <3>1, <3>2 DEF Set
    <3>4. S \cup {e.run} \in SUBSET Ids
      BY <3>1
    <3> QED
      BY <2>2, <3>3, <3>4 DEF Rows
  <2> QED
    BY <2>1, <2>2
<1>5. y = [w EXCEPT !.chan = t, !.epoch = e.epoch, !.seq = e.n, !.shows = m]
  BY <1>2 DEF Received
<1> HIDE DEF m, t, e
<1>6. /\ y \in Follower /\ y.on = w.on /\ y.chan = t /\ y.epoch = e.epoch /\ y.seq = e.n /\ y.shows = m
  BY <1>2, <1>3, <1>4, <1>5 DEF Follower
<1>7. ASSUME NEW i \in 0..(n - 1)
      PROVE  EpochAt(y, i) = EpochAt(w, i + 1) /\ SeqAt(y, i) = SeqAt(w, i + 1)
  <2>1. CASE i = 0
    BY <1>6, <2>1 DEF EpochAt, SeqAt, e
  <2>2. CASE i # 0
    <3>1. i \in 1..(n - 1) /\ i + 1 # 0
      BY <1>1, <2>2
    <3> QED
      BY <1>2, <1>6, <2>2, <3>1 DEF EpochAt, SeqAt
  <2> QED
    BY <2>1, <2>2
<1> QED
  BY <1>2, <1>6, <1>7 DEF m, e

\* Receiving moves a follower along what it would have shown anyway.
LEMMA ReceivedFaithful ==
    ASSUME NEW w \in Follower, w.chan # <<>>, NEW y, y = Received(w), NEW v, Faithful(w, v)
    PROVE  Faithful(y, v)
<1> DEFINE n == Len(w.chan)
           e == w.chan[1]
<1>1. /\ n \in Nat /\ n >= 1 /\ Len(y.chan) = n - 1
      /\ y.shows = IF e.kind = "reset" THEN e.runs ELSE Set(w.shows, e.run, e.state)
      /\ \A k \in 1..(n - 1) : y.chan[k] = w.chan[k + 1]
      /\ \A i \in 0..(n - 1) : EpochAt(y, i) = EpochAt(w, i + 1) /\ SeqAt(y, i) = SeqAt(w, i + 1)
  BY ReceivedFacts, SentFacts
<1>2. e \in Sent
  BY <1>1, SentFacts
<1> HIDE DEF e
<1>3. ASSUME NEW i \in 0..(n - 1), NEW r, NEW s, Says(w, i + 1, r, s) PROVE Says(y, i, r, s)
  <2>0. \A k \in 1..i : y.chan[k] = w.chan[k + 1]
    BY <1>1
  <2>1. CASE \E j \in 1..(i + 1) : /\ About(w.chan[j], r) /\ TellsState(w.chan[j], r, s)
                                   /\ \A k \in (j + 1)..(i + 1) : ~About(w.chan[k], r)
    <3>1. PICK j \in 1..(i + 1) : /\ About(w.chan[j], r) /\ TellsState(w.chan[j], r, s)
                                  /\ \A k \in (j + 1)..(i + 1) : ~About(w.chan[k], r)
      BY <2>1
    <3>2. CASE j = 1
      <4>1. \A k \in 1..i : ~About(y.chan[k], r)
        <5>1. \A k \in 1..i : k + 1 \in (j + 1)..(i + 1)
          BY <3>2
        <5> QED
          BY <2>0, <3>1, <5>1
      <4>2. Holds(y.shows, r, s)
        BY <1>1, <1>2, <3>1, <3>2 DEF About, TellsState, Holds, Set, e, Sent, EventSent, ResetSent
      <4> QED
        BY <4>1, <4>2 DEF Says
    <3>3. CASE j # 1
      <4>1. j - 1 \in 1..i /\ (j - 1) + 1 = j
        BY <3>3
      <4>2. About(y.chan[j - 1], r) /\ TellsState(y.chan[j - 1], r, s)
        BY <2>0, <3>1, <4>1
      <4>3. \A k \in ((j - 1) + 1)..i : k \in 1..i /\ k + 1 \in (j + 1)..(i + 1)
        BY <3>3
      <4>4. \A k \in ((j - 1) + 1)..i : ~About(y.chan[k], r)
        BY <2>0, <3>1, <4>3
      <4> QED
        BY <4>1, <4>2, <4>4 DEF Says
    <3> QED
      BY <3>2, <3>3
  <2>2. CASE (\A k \in 1..(i + 1) : ~About(w.chan[k], r)) /\ Holds(w.shows, r, s)
    <3>1. \A k \in 1..i : k + 1 \in 1..(i + 1)
      OBVIOUS
    <3>2. \A k \in 1..i : ~About(y.chan[k], r)
      BY <2>0, <2>2, <3>1
    <3>3. ~About(e, r)
      BY <2>2, 1 \in 1..(i + 1) DEF e
    <3>4. Holds(y.shows, r, s)
      BY <1>1, <2>2, <3>3 DEF About, Holds, Set
    <3> QED
      BY <3>2, <3>4 DEF Says
  <2> QED
    BY <1>3, <2>1, <2>2 DEF Says
<1>4. \A i \in 0..(n - 1) : i + 1 \in 0..n
  BY <1>1
<1> HIDE DEF n
<1> QED
  <2> SUFFICES ASSUME NEW i \in 0..(n - 1), EpochAt(y, i) = v.epoch
               PROVE  /\ SeqAt(y, i) <= v.seq
                      /\ SeqAt(y, i) >= v.seq - Len(v.events) =>
                           \A x \in DOMAIN v.runs : Unheard(v, SeqAt(y, i), x) => Says(y, i, x, v.runs[x])
    BY <1>1 DEF Faithful
  <2>1. EpochAt(y, i) = EpochAt(w, i + 1) /\ SeqAt(y, i) = SeqAt(w, i + 1) /\ i + 1 \in 0..Len(w.chan)
    BY <1>1, <1>4 DEF n
  <2> QED
    BY <1>3, <2>1 DEF Faithful

-----------------------------------------------------------------------------
(* Subscribe. *)

\* The entries of a sequence at its last places are its end.
LEMMA SelectedEnd ==
    ASSUME NEW E, NEW q \in Seq(E), NEW a \in 0..Len(q)
    PROVE  LET t == Selected(q, (a + 1)..Len(q))
           IN  /\ t \in Seq(E) /\ Len(t) = Len(q) - a
               /\ \A i \in 1..(Len(q) - a) : t[i] = q[a + i]
<1> DEFINE L == Len(q)
           S == (a + 1)..L
           P(i) == CHOOSE j \in S : Cardinality({k \in S : k <= j}) = i
<1>0. L \in Nat /\ a \in Nat /\ a <= L
  OBVIOUS
<1>1. Cardinality(S) = L - a
  <2>1. a + 1 \in Int /\ L \in Int
    BY <1>0
  <2>2. Cardinality(S) = IF a + 1 > L THEN 0 ELSE L - (a + 1) + 1
    BY <2>1, FS_Interval
  <2> QED
    BY <1>0, <2>2
<1>2. ASSUME NEW j \in S PROVE Cardinality({k \in S : k <= j}) = j - a
  <2>1. {k \in S : k <= j} = (a + 1)..j /\ j \in Int /\ a + 1 <= j
    BY <1>0
  <2>2. Cardinality((a + 1)..j) = IF a + 1 > j THEN 0 ELSE j - (a + 1) + 1
    BY <1>0, <2>1, FS_Interval
  <2>3. Cardinality((a + 1)..j) = j - a
    BY <1>0, <2>1, <2>2
  <2> HIDE DEF S
  <2> QED
    BY <2>1, <2>3
<1>3. ASSUME NEW i \in 1..(L - a) PROVE P(i) = a + i /\ q[a + i] \in E
  <2>1. a + i \in S /\ (a + i) - a = i
    BY <1>0
  <2>2. \A j \in S : Cardinality({k \in S : k <= j}) = i => j = a + i
    <3> SUFFICES ASSUME NEW j \in S, Cardinality({k \in S : k <= j}) = i PROVE j = a + i
      OBVIOUS
    <3>1. j - a = i /\ j \in Int
      BY <1>2
    <3> QED
      BY <1>0, <3>1
  <2>3. Cardinality({k \in S : k <= a + i}) = i
    BY <1>2, <2>1
  <2> HIDE DEF S
  <2>4. P(i) = a + i
    BY <2>1, <2>2, <2>3
  <2>5. q[a + i] \in E
    BY <1>0, a + i \in 1..Len(q)
  <2> HIDE DEF P
  <2> QED
    BY <2>4, <2>5
<1> DEFINE t == Selected(q, S)
<1>4. t = [i \in 1..(L - a) |-> q[P(i)]]
  BY <1>1 DEF Selected
<1> HIDE DEF P, S, t
<1>5. t = [i \in 1..(L - a) |-> q[a + i]]
  BY <1>3, <1>4
<1>6. t \in Seq(E) /\ Len(t) = L - a
  <2>1. L - a \in Nat /\ \A i \in 1..(L - a) : q[a + i] \in E
    BY <1>0, <1>3
  <2> QED
    BY <1>5, <2>1
<1> QED
  BY <1>5, <1>6 DEF t, S

(* Replay, of a snapshot v to a follower w. *)
ReplayTo(w, v) ==
    LET later == Selected(v.events, {i \in 1 .. Len(v.events) : v.events[i].n > w.seq})
    IN  IF w.epoch # v.epoch \/ w.seq < v.seq - Len(v.events)
        THEN <<[kind |-> "reset", epoch |-> v.epoch, n |-> v.seq, runs |-> v.runs]>>
        ELSE [i \in 1 .. Len(later) |->
                [kind |-> "event", epoch |-> v.epoch, n |-> later[i].n, run |-> later[i].run, state |-> later[i].state]]

\* A reset brings a follower level.
LEMMA ReplayOfReset ==
    ASSUME NEW ids, NEW v \in Snapshot, KnownBySnapshot(v, ids), NEW w \in Follower,
           w.epoch # v.epoch \/ w.seq < v.seq - Len(v.events),
           NEW y \in Follower, y.epoch = w.epoch, y.seq = w.seq, y.shows = w.shows,
           y.chan = ReplayTo(w, v), ~(w.epoch = v.epoch /\ w.seq > v.seq)
    PROVE  /\ Faithful(y, v) /\ Level(y, v)
           /\ \A i \in 1..Len(y.chan) : y.chan[i].kind = "reset" /\ y.chan[i].epoch = v.epoch
                                        /\ y.chan[i].runs = v.runs
<1> DEFINE e == [kind |-> "reset", epoch |-> v.epoch, n |-> v.seq, runs |-> v.runs]
<1>1. y.chan = <<e>>
  BY DEF ReplayTo
<1>2. e.kind = "reset" /\ e.epoch = v.epoch /\ e.n = v.seq /\ e.runs = v.runs
  OBVIOUS
<1> HIDE DEF e
<1>3. Len(y.chan) = 1 /\ y.chan[1] = e
  BY <1>1
<1>4. /\ EpochAt(y, 0) = w.epoch /\ SeqAt(y, 0) = w.seq
      /\ EpochAt(y, 1) = v.epoch /\ SeqAt(y, 1) = v.seq
  BY <1>2, <1>3 DEF EpochAt, SeqAt
<1>5. v.seq \in Nat /\ w.seq \in Nat /\ Len(v.events) \in Nat
  BY SnapshotFacts DEF Follower
<1>6. ASSUME NEW x \in DOMAIN v.runs PROVE Says(y, 1, x, v.runs[x])
  <2>1. About(y.chan[1], x) /\ TellsState(y.chan[1], x, v.runs[x])
    BY <1>2, <1>3 DEF About, TellsState, Holds
  <2> QED
    BY <2>1, SaysLast
<1>7. \A i \in 0..1 : i = 0 \/ i = 1
  OBVIOUS
<1>8. Faithful(y, v)
  <2> SUFFICES ASSUME NEW i \in 0..1, EpochAt(y, i) = v.epoch
               PROVE  /\ SeqAt(y, i) <= v.seq
                      /\ SeqAt(y, i) >= v.seq - Len(v.events) =>
                           \A x \in DOMAIN v.runs : Unheard(v, SeqAt(y, i), x) => Says(y, i, x, v.runs[x])
    BY <1>3 DEF Faithful
  <2> QED
    BY <1>4, <1>5, <1>6, <1>7
<1>9. \A i \in 1..1 : i = 1
  OBVIOUS
<1> QED
  BY <1>2, <1>3, <1>4, <1>8, <1>9 DEF Level

\* The events after a cursor are those from a place on, one after the other.
LEMMA LaterEvents ==
    ASSUME NEW v \in Snapshot, EventsSound(v), NEW c \in Nat, c <= v.seq,
           c >= v.seq - Len(v.events), NEW a, a = c + Len(v.events) - v.seq
    PROVE  /\ a \in 0..Len(v.events)
           /\ {i \in 1..Len(v.events) : v.events[i].n > c} = (a + 1)..Len(v.events)
           /\ \A i \in 1..(Len(v.events) - a) : a + i \in 1..Len(v.events)
                                                /\ v.events[a + i].n = c + i
<1> DEFINE L == Len(v.events)
<1>1. L \in Nat /\ v.seq \in Nat
  BY SnapshotFacts
<1>2. \A j \in 1..L : v.events[j].n = v.seq - L + j
  BY DEF EventsSound
<1>3. c >= v.seq - L /\ a = c + L - v.seq
  OBVIOUS
<1> HIDE DEF L
<1>4. a \in 0..L
  BY <1>1, <1>3, SMTT(60)
<1>5. ASSUME NEW i \in 1..L PROVE v.events[i].n > c <=> i >= a + 1
  <2>1. v.events[i].n = v.seq - L + i
    BY <1>2
  <2> QED
    BY <1>1, <1>3, <1>4, <2>1, SMTT(60)
<1>6. {i \in 1..L : v.events[i].n > c} = (a + 1)..L
  BY <1>1, <1>4, <1>5
<1>7. ASSUME NEW i \in 1..(L - a) PROVE a + i \in 1..L /\ v.events[a + i].n = c + i
  <2>1. a + i \in 1..L
    BY <1>1, <1>4
  <2>2. v.events[a + i].n = v.seq - L + (a + i)
    BY <1>2, <2>1
  <2>3. v.seq - L + (a + i) = c + i
    <3>1. c \in Int /\ L \in Int /\ v.seq \in Int /\ i \in Int /\ a = c + L - v.seq
      BY <1>1, <1>3, <1>4
    <3> QED
      BY <3>1, SMTT(60)
  <2> QED
    BY <2>1, <2>2, <2>3
<1> QED
  BY <1>4, <1>6, <1>7 DEF L

\* The events after its cursor bring a follower level, wherever it stops reading them.
LEMMA ReplayOfEvents ==
    ASSUME NEW ids, NEW v \in Snapshot, KnownBySnapshot(v, ids), EventsSound(v),
           NEW w \in Follower, w.chan = <<>>, Faithful(w, v),
           ~(w.epoch # v.epoch \/ w.seq < v.seq - Len(v.events)),
           NEW y \in Follower, y.epoch = w.epoch, y.seq = w.seq, y.shows = w.shows,
           y.chan = ReplayTo(w, v), ~(w.epoch = v.epoch /\ w.seq > v.seq)
    PROVE  /\ Faithful(y, v) /\ Level(y, v)
           /\ \A i \in 1..Len(y.chan) : y.chan[i].kind = "event" /\ y.chan[i].epoch = v.epoch
                                        /\ y.chan[i].run \in ids
<1> DEFINE c == w.seq
           L == Len(v.events)
           a == c + L - v.seq
           S == {i \in 1..L : v.events[i].n > c}
           t == Selected(v.events, S)
           m == L - a
           q == [i \in 1..Len(t) |->
                  [kind |-> "event", epoch |-> v.epoch, n |-> t[i].n, run |-> t[i].run, state |-> t[i].state]]
<1>0. /\ c \in Nat /\ v.seq \in Nat /\ L \in Nat /\ v.events \in Seq(Entry) /\ c <= v.seq
      /\ c >= v.seq - L /\ w.epoch = v.epoch
  BY SnapshotFacts DEF Follower
<1>1. /\ a \in 0..L /\ S = (a + 1)..L
      /\ \A i \in 1..m : a + i \in 1..L /\ v.events[a + i].n = c + i
  BY <1>0, LaterEvents
<1>2. Len(t) = m /\ \A i \in 1..m : t[i] = v.events[a + i]
  BY <1>0, <1>1, SelectedEnd, ZenonT(60)
<1>3. y.chan = q
  BY <1>0 DEF ReplayTo
<1>4. m \in Nat /\ m = v.seq - c
  BY <1>0, <1>1
<1> HIDE DEF t, S
<1>5. /\ Len(q) = m
      /\ \A i \in 1..m : /\ q[i].kind = "event" /\ q[i].epoch = v.epoch /\ q[i].n = c + i
                         /\ q[i].run = v.events[a + i].run /\ q[i].state = v.events[a + i].state
  BY <1>1, <1>2, <1>4
<1>6. \A j \in 1..L : v.events[j].run \in ids
  BY DEF KnownBySnapshot
<1> HIDE DEF q, c, L, m
<1>7. ASSUME NEW i \in 0..m PROVE EpochAt(y, i) = v.epoch /\ SeqAt(y, i) = c + i
  <2>1. CASE i = 0
    BY <1>0, <2>1 DEF EpochAt, SeqAt, c
  <2>2. CASE i # 0
    <3>1. i \in 1..m
      BY <1>4, <2>2
    <3> QED
      BY <1>3, <1>5, <2>2, <3>1 DEF EpochAt, SeqAt
  <2> QED
    BY <2>1, <2>2
<1>8. ASSUME NEW i \in 0..m, NEW x \in DOMAIN v.runs, Unheard(v, c + i, x)
      PROVE  Says(y, i, x, v.runs[x])
  <2> DEFINE R == {k \in 1..i : q[k].run = x}
  <2>0. i \in Nat /\ \A k \in 1..i : k \in 1..m
    BY <1>4
  <2>1. CASE R = {}
    <3>1. \A k \in 1..i : ~About(y.chan[k], x)
      BY <1>3, <1>5, <2>0, <2>1 DEF About
    <3>2. Unheard(v, c, x)
      <4> SUFFICES ASSUME NEW j \in 1..Len(v.events), v.events[j].n > c PROVE v.events[j].run # x
        BY DEF Unheard
      <4>1. CASE v.events[j].n > c + i
        BY <1>8, <4>1 DEF Unheard
      <4>2. CASE ~(v.events[j].n > c + i)
        <5>1. v.events[j].n = v.seq - L + j /\ j \in 1..L
          BY DEF EventsSound, L
        <5>2. j - a \in 1..i /\ a + (j - a) = j
          <6>1. /\ v.seq - L + j > c /\ ~(v.seq - L + j > c + i)
                /\ c \in Int /\ L \in Int /\ v.seq \in Int /\ j \in Int /\ i \in Int
            BY <1>0, <2>0, <4>2, <5>1
          <6> QED
            BY <6>1, SMTT(60)
        <5>3. j - a \in 1..m
          BY <2>0, <5>2
        <5>4. q[j - a].run = v.events[j].run
          BY <1>5, <5>2, <5>3
        <5> QED
          BY <2>1, <5>2, <5>4
      <4> QED
        BY <4>1, <4>2
    <3>3. Len(w.chan) = 0 /\ EpochAt(w, 0) = v.epoch /\ SeqAt(w, 0) = c /\ 0 \in 0..0
      BY <1>0 DEF EpochAt, SeqAt, c
    <3>4. Says(w, 0, x, v.runs[x])
      BY <1>0, <3>2, <3>3 DEF Faithful, L
    <3>5. Holds(w.shows, x, v.runs[x])
      BY <3>4 DEF Says
    <3> QED
      BY <3>1, <3>5 DEF Says
  <2>2. CASE R # {}
    <3>1. PICK k \in R : \A j \in R : j <= k
      <4>1. R \in SUBSET (1..i)
        OBVIOUS
      <4> HIDE DEF R
      <4> QED
        BY <2>0, <2>2, <4>1, GreatestPlace
    <3>2. k \in 1..i /\ k \in 1..m /\ q[k].run = x /\ v.events[a + k].run = x /\ a + k \in 1..L
      BY <1>1, <1>5, <2>0
    <3>3. \A j \in (a + k + 1)..L : v.events[j].run # x
      <4> SUFFICES ASSUME NEW j \in (a + k + 1)..L PROVE v.events[j].run # x
        OBVIOUS
      <4>1. j - a \in 1..m /\ a + (j - a) = j /\ j \in 1..L /\ j - a > k
        <5>1. /\ a \in Int /\ L \in Int /\ k \in Int /\ j \in Int /\ m = L - a
              /\ a >= 0 /\ k >= 1 /\ j >= a + k + 1 /\ j <= L
          BY <1>0, <1>1, <3>2 DEF m
        <5> HIDE DEF a
        <5> QED
          BY <5>1
      <4>2. CASE j - a <= i
        <5>1. j - a \in 1..i
          BY <4>1, <4>2
        <5>2. j - a \notin R
          BY <3>1, <3>2, <4>1
        <5> QED
          BY <1>5, <4>1, <5>1, <5>2
      <4>3. CASE ~(j - a <= i)
        <5>1. v.events[j].n = c + (j - a)
          BY <1>1, <4>1
        <5>2. v.events[j].n > c + i
          BY <1>0, <2>0, <4>1, <4>3, <5>1
        <5> QED
          BY <1>8, <4>1, <5>2 DEF Unheard, L
      <4> QED
        BY <4>2, <4>3
    <3>4. v.events[a + k].state = v.runs[x]
      BY <3>2, <3>3 DEF EventsSound, L
    <3>5. About(y.chan[k], x) /\ TellsState(y.chan[k], x, v.runs[x])
      BY <1>3, <1>5, <3>2, <3>4 DEF About, TellsState
    <3>6. \A j \in (k + 1)..i : ~About(y.chan[j], x)
      <4> SUFFICES ASSUME NEW j \in (k + 1)..i PROVE ~About(y.chan[j], x)
        OBVIOUS
      <4>1. j \in 1..i /\ j \in 1..m /\ ~(j <= k)
        BY <1>4, <3>2
      <4>2. q[j].run # x
        BY <3>1, <4>1
      <4> QED
        BY <1>3, <1>5, <4>1, <4>2 DEF About
    <3> QED
      BY <3>2, <3>5, <3>6 DEF Says
  <2> QED
    BY <2>1, <2>2
<1>9. Faithful(y, v)
  <2> SUFFICES ASSUME NEW i \in 0..m, EpochAt(y, i) = v.epoch
               PROVE  /\ SeqAt(y, i) <= v.seq
                      /\ SeqAt(y, i) >= v.seq - Len(v.events) =>
                           \A x \in DOMAIN v.runs : Unheard(v, SeqAt(y, i), x) => Says(y, i, x, v.runs[x])
    BY <1>3, <1>5 DEF Faithful
  <2>1. SeqAt(y, i) = c + i /\ c + i <= v.seq
    BY <1>0, <1>4, <1>7
  <2> QED
    BY <1>8, <2>1
<1>10. Level(y, v)
  <2>1. m \in 0..m /\ c + m = v.seq
    BY <1>0, <1>4
  <2> QED
    BY <1>3, <1>5, <1>7, <2>1 DEF Level
<1>11. \A i \in 1..m : y.chan[i].kind = "event" /\ y.chan[i].epoch = v.epoch /\ y.chan[i].run \in ids
  BY <1>1, <1>3, <1>5, <1>6
<1> QED
  BY <1>3, <1>5, <1>9, <1>10, <1>11

-----------------------------------------------------------------------------
(* What a commit writes. *)

\* The end of an end is an end, and of the same entries.
LEMMA EndTrimmed ==
    ASSUME NEW E, NEW q \in Seq(E), NEW t \in Seq(E), EndOf(t, q), NEW k \in Nat
    PROVE  SubSeq(t, k + 1, Len(t)) \in Seq(E) /\ EndOf(SubSeq(t, k + 1, Len(t)), q)
<1> DEFINE u == SubSeq(t, k + 1, Len(t))
<1>1. Len(t) \in Nat /\ Len(q) \in Nat /\ Len(t) <= Len(q)
      /\ \A j \in 1..Len(t) : t[j] = q[Len(q) - Len(t) + j]
  BY DEF EndOf
<1>2. /\ u \in Seq(E)
      /\ Len(u) = IF k + 1 <= Len(t) THEN Len(t) - (k + 1) + 1 ELSE 0
      /\ \A j \in 1..(Len(t) - (k + 1) + 1) : u[j] = t[(k + 1) + j - 1]
  <2>1. k + 1 \in Int /\ Len(t) \in Int /\ \A j \in (k + 1)..Len(t) : t[j] \in E
    BY <1>1
  <2> QED
    BY <2>1, SubSeqProperties
<1> HIDE DEF u
<1>3. Len(u) \in Nat /\ Len(u) <= Len(t) /\ (Len(u) > 0 => Len(u) = Len(t) - k)
  BY <1>1, <1>2
<1>4. ASSUME NEW j \in 1..Len(u) PROVE u[j] = q[Len(q) - Len(u) + j]
  <2>1. Len(u) = Len(t) - k /\ j \in 1..(Len(t) - (k + 1) + 1) /\ (k + 1) + j - 1 = k + j
        /\ k + j \in 1..Len(t)
    BY <1>1, <1>3
  <2>2. u[j] = t[k + j]
    BY <1>2, <2>1
  <2>3. t[k + j] = q[Len(q) - Len(t) + (k + j)]
    BY <1>1, <2>1
  <2>4. Len(q) - Len(t) + (k + j) = Len(q) - Len(u) + j
    BY <1>1, <2>1
  <2> QED
    BY <2>2, <2>3, <2>4
<1>5. Len(u) <= Len(q)
  <2>1. Len(u) \in Int /\ Len(t) \in Int /\ Len(q) \in Int /\ Len(u) <= Len(t) /\ Len(t) <= Len(q)
    BY <1>1, <1>3
  <2> QED
    BY <2>1
<1>6. EndOf(u, q)
  BY <1>4, <1>5 DEF EndOf
<1> QED
  BY <1>2, <1>6 DEF u

\* The newest events are the end of all of them.
LEMMA NewestEnd ==
    ASSUME NEW q \in Seq(Entry)
    PROVE  Newest(q) \in Seq(Entry) /\ EndOf(Newest(q), q)
<1>1. EventCap \in Nat /\ Len(q) \in Nat
  BY FeedAssumption
<1>2. EndOf(q, q)
  <2>1. \A j \in 1..Len(q) : Len(q) - Len(q) + j = j
    BY <1>1
  <2> QED
    BY <1>1, <2>1 DEF EndOf
<1>3. CASE Len(q) > EventCap
  <2>1. Len(q) - EventCap \in Nat
    BY <1>1, <1>3
  <2>2. Newest(q) = SubSeq(q, (Len(q) - EventCap) + 1, Len(q))
    BY <1>3 DEF Newest
  <2> QED
    BY <1>2, <2>1, <2>2, EndTrimmed
<1>4. CASE ~(Len(q) > EventCap)
  BY <1>2, <1>4 DEF Newest
<1> QED
  BY <1>3, <1>4

\* v0 is v with rows for ids that were not handed out yet.
Extends(v, v0, ids) ==
    /\ v0.epoch = v.epoch /\ v0.seq = v.seq /\ v0.events = v.events
    /\ DOMAIN v.runs \subseteq DOMAIN v0.runs
    /\ \A x \in DOMAIN v0.runs : IF x \in DOMAIN v.runs THEN v0.runs[x] = v.runs[x]
                                 ELSE v0.runs[x] = "queued" /\ x \notin ids

\* A snapshot without its oldest k events.
CutTo(u, k) == [u EXCEPT !.events = SubSeq(@, k + 1, Len(@))]

\* commitFor numbers the event and keeps the newest; a row that does not fit makes room.
LEMMA NumberedFollows ==
    ASSUME NEW ids, NEW v \in Snapshot, NEW v0 \in Snapshot, Extends(v, v0, ids),
           NEW r \in Ids, NEW s \in FeedStates, r \in DOMAIN v.runs \/ r \notin ids
    PROVE  /\ Numbered(v0, r, s) \in Snapshot /\ Follows(v, Numbered(v0, r, s), r, s, ids)
           /\ DOMAIN Numbered(v0, r, s).runs \subseteq DOMAIN v0.runs \cup {r}
           /\ \A k \in Nat : /\ CutTo(Numbered(v0, r, s), k) \in Snapshot
                             /\ Follows(v, CutTo(Numbered(v0, r, s), k), r, s, ids)
                             /\ DOMAIN CutTo(Numbered(v0, r, s), k).runs \subseteq DOMAIN v0.runs \cup {r}
<1> DEFINE u == Numbered(v0, r, s)
           e == Told(v, r, s)
           q == Append(v.events, e)
           m == Set(v0.runs, r, s)
           es == Newest(q)
<1>1. v.events \in Seq(Entry) /\ v.seq \in Nat /\ v.epoch \in Nat
  BY SnapshotFacts
<1>2. e \in Entry
  BY <1>1 DEF Told, Entry
<1>3. q \in Seq(Entry)
  BY <1>1, <1>2, AppendProperties
<1>4. es \in Seq(Entry) /\ EndOf(es, q)
  BY <1>3, NewestEnd
<1>5. /\ m \in Rows /\ DOMAIN m = DOMAIN v0.runs \cup {r} /\ m[r] = s
      /\ \A x \in DOMAIN v0.runs : x # r => m[x] = v0.runs[x]
  <2>1. v0.runs \in [DOMAIN v0.runs -> FeedStates] /\ DOMAIN v0.runs \in SUBSET Ids
    BY SnapshotFacts
  <2>2. m \in [DOMAIN v0.runs \cup {r} -> FeedStates]
    BY <2>1 DEF Set
  <2>3. DOMAIN v0.runs \cup {r} \in SUBSET Ids
    BY <2>1
  <2>4. m \in Rows
    BY <2>2, <2>3 DEF Rows
  <2> QED
    BY <2>2, <2>4 DEF Set
<1>6. u = [v0 EXCEPT !.seq = v.seq + 1, !.runs = m, !.events = es]
  BY DEF Numbered, Extends, Told
<1> HIDE DEF es, m, q, u
<1>7. /\ u \in Snapshot /\ u.epoch = v.epoch /\ u.seq = v.seq + 1 /\ u.runs = m /\ u.events = es
  <2>1. v.seq + 1 \in Nat /\ v0.epoch = v.epoch
    BY <1>1 DEF Extends
  <2> QED
    BY <1>4, <1>5, <1>6, <2>1 DEF Snapshot
<1>8. ASSUME NEW y \in Snapshot, y.epoch = v.epoch, y.seq = v.seq + 1, y.runs = m, EndOf(y.events, q)
      PROVE  Follows(v, y, r, s, ids)
  <2>1. \A x \in DOMAIN y.runs : x # r =>
          IF x \in DOMAIN v.runs THEN y.runs[x] = v.runs[x] ELSE y.runs[x] = "queued" /\ x \notin ids
    BY <1>5, <1>8 DEF Extends
  <2>2. DOMAIN v.runs \subseteq DOMAIN y.runs /\ r \in DOMAIN y.runs /\ y.runs[r] = s
    BY <1>5, <1>8 DEF Extends
  <2> QED
    BY <1>8, <2>1, <2>2 DEF Follows, q
<1>9. ASSUME NEW k \in Nat
      PROVE  /\ CutTo(u, k) \in Snapshot /\ Follows(v, CutTo(u, k), r, s, ids)
             /\ DOMAIN CutTo(u, k).runs \subseteq DOMAIN v0.runs \cup {r}
  <2> DEFINE y == CutTo(u, k)
             t == SubSeq(es, k + 1, Len(es))
  <2>1. t \in Seq(Entry) /\ EndOf(t, q)
    BY <1>3, <1>4, EndTrimmed
  <2>2. y = [u EXCEPT !.events = t]
    BY <1>7 DEF CutTo
  <2> HIDE DEF t, y
  <2>3. /\ y \in Snapshot /\ y.epoch = v.epoch /\ y.seq = v.seq + 1 /\ y.runs = m /\ y.events = t
    BY <1>7, <2>1, <2>2 DEF Snapshot
  <2>4. Follows(v, y, r, s, ids)
    BY <1>8, <2>1, <2>3
  <2> QED
    BY <1>5, <2>3, <2>4 DEF y
<1>10. Follows(v, u, r, s, ids)
  BY <1>4, <1>7, <1>8
<1>11. DOMAIN u.runs = DOMAIN v0.runs \cup {r}
  BY <1>5, <1>7
<1> QED
  BY <1>7, <1>9, <1>10, <1>11 DEF u

-----------------------------------------------------------------------------
(* What a commit does to the followers. *)

\* Ids that are handed out stay handed out.
LEMMA KnownMono ==
    ASSUME NEW ids, NEW jds, ids \subseteq jds
    PROVE  /\ \A w : KnownByFollower(w, ids) => KnownByFollower(w, jds)
           /\ \A v : KnownBySnapshot(v, ids) => KnownBySnapshot(v, jds)
<1>1. ASSUME NEW w, KnownByFollower(w, ids) PROVE KnownByFollower(w, jds)
  BY <1>1 DEF KnownByFollower
<1>2. ASSUME NEW v, KnownBySnapshot(v, ids) PROVE KnownBySnapshot(v, jds)
  BY <1>2 DEF KnownBySnapshot
<1> QED
  BY <1>1, <1>2

\* What a follower will show depends on its cursor, its channel and what it shows.
LEMMA SameChannel ==
    ASSUME NEW w, NEW y, y.epoch = w.epoch, y.seq = w.seq, y.shows = w.shows, y.chan = w.chan
    PROVE  /\ \A v : Faithful(w, v) => Faithful(y, v)
           /\ \A ids : KnownByFollower(w, ids) => KnownByFollower(y, ids)
           /\ \A n : EpochsUpTo(w, n) => EpochsUpTo(y, n)
<1>1. \A i : EpochAt(y, i) = EpochAt(w, i) /\ SeqAt(y, i) = SeqAt(w, i)
  BY DEF EpochAt, SeqAt
<1>2. \A i, r, s : Says(y, i, r, s) <=> Says(w, i, r, s)
  BY DEF Says
<1> QED
  BY <1>1, <1>2 DEF Faithful, KnownByFollower, EpochsUpTo

\* A cursor says nothing of an epoch its owner has not heard of.
LEMMA NewEpoch ==
    ASSUME NEW w \in Follower, NEW n \in Nat, EpochsUpTo(w, n), NEW u \in Snapshot, u.epoch > n
    PROVE  Faithful(w, u) /\ EpochsUpTo(w, u.epoch) /\ \A i \in 0..Len(w.chan) : EpochAt(w, i) # u.epoch
<1>1. \A i \in 0..Len(w.chan) : EpochAt(w, i) \in Nat /\ EpochAt(w, i) <= n
  BY SentFacts DEF EpochsUpTo
<1>2. u.epoch \in Nat
  BY SnapshotFacts
<1>3. \A i \in 0..Len(w.chan) : EpochAt(w, i) # u.epoch /\ EpochAt(w, i) <= u.epoch
  BY <1>1, <1>2
<1> QED
  BY <1>3 DEF Faithful, EpochsUpTo

\* The follower w once e is published.
Heard(w, e) ==
    IF ~w.on THEN w
    ELSE IF Len(w.chan) < ChanCap THEN [w EXCEPT !.chan = Append(@, e)]
    ELSE [w EXCEPT !.on = FALSE]

\* Cut off, a follower is what it was, but unsubscribed.
LEMMA HeardFacts ==
    ASSUME NEW w \in Follower, NEW e \in Sent, NEW y, y = Heard(w, e)
    PROVE  /\ y \in Follower /\ (y.on => w.on)
           /\ \/ w.on /\ y = [w EXCEPT !.chan = Append(@, e)]
              \/ /\ ~y.on /\ y.epoch = w.epoch /\ y.seq = w.seq /\ y.shows = w.shows /\ y.chan = w.chan
<1>1. CASE ~w.on
  BY <1>1 DEF Heard
<1>2. CASE w.on /\ Len(w.chan) < ChanCap
  <2>1. y = [w EXCEPT !.chan = Append(@, e)]
    BY <1>2 DEF Heard
  <2>2. y \in Follower
    BY <2>1, GrownFacts
  <2> QED
    BY <1>2, <2>1, <2>2
<1>3. CASE w.on /\ ~(Len(w.chan) < ChanCap)
  <2>1. y = [w EXCEPT !.on = FALSE]
    BY <1>3 DEF Heard
  <2> QED
    BY <1>3, <2>1 DEF Follower
<1> QED
  BY <1>1, <1>2, <1>3

\* What a channel that has grown knows, and of which epochs.
LEMMA GrownKnows ==
    ASSUME NEW ids, NEW w \in Follower, KnownByFollower(w, ids), NEW n \in Nat, EpochsUpTo(w, n),
           NEW e \in Sent, e.epoch <= n, IF e.kind = "reset" THEN DOMAIN e.runs \subseteq ids ELSE e.run \in ids,
           NEW y, y = [w EXCEPT !.chan = Append(@, e)]
    PROVE  KnownByFollower(y, ids) /\ EpochsUpTo(y, n)
<1> DEFINE m == Len(w.chan)
<1>1. /\ y.shows = w.shows /\ Len(y.chan) = m + 1 /\ y.chan[m + 1] = e
      /\ \A k \in 1..m : y.chan[k] = w.chan[k]
      /\ \A i \in 0..m : EpochAt(y, i) = EpochAt(w, i)
      /\ EpochAt(y, m + 1) = e.epoch
  BY GrownFacts
<1>2. m \in Nat
  BY SentFacts
<1>3. \A k \in 1..m : IF w.chan[k].kind = "reset" THEN DOMAIN w.chan[k].runs \subseteq ids ELSE w.chan[k].run \in ids
  BY DEF KnownByFollower
<1>4. \A i \in 0..m : EpochAt(w, i) <= n
  BY DEF EpochsUpTo
<1>5. DOMAIN y.shows \subseteq ids
  BY <1>1 DEF KnownByFollower
<1> HIDE DEF m
<1>6. \A k \in 1..(m + 1) : k \in 1..m \/ k = m + 1
  BY <1>2
<1>7. \A k \in 1..(m + 1) : IF y.chan[k].kind = "reset" THEN DOMAIN y.chan[k].runs \subseteq ids ELSE y.chan[k].run \in ids
  <2> SUFFICES ASSUME NEW k \in 1..(m + 1)
               PROVE  IF y.chan[k].kind = "reset" THEN DOMAIN y.chan[k].runs \subseteq ids ELSE y.chan[k].run \in ids
    OBVIOUS
  <2>1. CASE k \in 1..m
    BY <1>1, <1>3, <2>1
  <2>2. CASE k = m + 1
    BY <1>1, <2>2
  <2> QED
    BY <1>6, <2>1, <2>2
<1>8. \A i \in 0..(m + 1) : i \in 0..m \/ i = m + 1
  BY <1>2
<1>9. \A i \in 0..(m + 1) : EpochAt(y, i) <= n
  BY <1>1, <1>4, <1>8
<1> QED
  BY <1>1, <1>5, <1>7, <1>9 DEF KnownByFollower, EpochsUpTo

\* After a commit that tells of its event every follower fits the new snapshot, whether it
\* had room, had none, or is away.
LEMMA EventPublished ==
    ASSUME NEW ids, NEW v \in Snapshot, NEW u \in Snapshot, NEW r \in Ids, NEW s \in FeedStates,
           Follows(v, u, r, s, ids), EventsSound(v), NEW w, Fits(w, v, ids),
           NEW jds, ids \subseteq jds, r \in jds,
           NEW e \in EventSent, e.epoch = u.epoch, e.n = u.seq, e.run = r, e.state = s,
           NEW y, y = Heard(w, e)
    PROVE  Fits(y, u, jds) /\ Faithful(w, u) /\ (y.on => w.on)
<1>1. /\ w \in Follower /\ Faithful(w, v) /\ KnownByFollower(w, ids)
      /\ EpochsUpTo(w, v.epoch) /\ Level(w, v)
  BY DEF Fits
<1>2. u.epoch = v.epoch /\ v.epoch \in Nat
  BY SnapshotFacts DEF Follows
<1>3. e \in Sent /\ e.kind = "event"
  BY DEF Sent, EventSent
<1>4. KnownByFollower(w, jds)
  BY <1>1, KnownMono
<1>5. Faithful(w, u)
  BY <1>1, Untold
<1>6. /\ y \in Follower /\ (y.on => w.on)
      /\ \/ w.on /\ y = [w EXCEPT !.chan = Append(@, e)]
         \/ /\ ~y.on /\ y.epoch = w.epoch /\ y.seq = w.seq /\ y.shows = w.shows /\ y.chan = w.chan
  BY <1>1, <1>3, HeardFacts
<1>7. CASE w.on /\ y = [w EXCEPT !.chan = Append(@, e)]
  <2>1. EpochAt(w, Len(w.chan)) = v.epoch /\ SeqAt(w, Len(w.chan)) = v.seq
    BY <1>1, <1>7 DEF Level
  <2>2. Faithful(y, u)
    BY <1>1, <1>7, <2>1, ToldOfEvent
  <2>3. KnownByFollower(y, jds) /\ EpochsUpTo(y, u.epoch)
    <3>1. e.epoch <= u.epoch
      BY <1>2
    <3>2. IF e.kind = "reset" THEN DOMAIN e.runs \subseteq jds ELSE e.run \in jds
      BY <1>3
    <3> QED
      BY <1>1, <1>2, <1>3, <1>4, <1>7, <3>1, <3>2, GrownKnows
  <2>4. Level(y, u)
    BY <1>1, <1>3, <1>7, GrownFacts DEF Level
  <2> QED
    BY <1>5, <1>6, <2>2, <2>3, <2>4 DEF Fits
<1>8. CASE ~y.on /\ y.epoch = w.epoch /\ y.seq = w.seq /\ y.shows = w.shows /\ y.chan = w.chan
  <2>1. Faithful(y, u) /\ KnownByFollower(y, jds) /\ EpochsUpTo(y, u.epoch)
    BY <1>1, <1>2, <1>4, <1>5, <1>8, SameChannel
  <2>2. Level(y, u)
    BY <1>8 DEF Level
  <2> QED
    BY <1>5, <1>6, <2>1, <2>2 DEF Fits
<1> QED
  BY <1>6, <1>7, <1>8

\* The same of a commit that starts a new epoch.
LEMMA ResetPublished ==
    ASSUME NEW ids, NEW v \in Snapshot, NEW u \in Snapshot, u.epoch > v.epoch, DOMAIN u.runs \subseteq ids,
           NEW w, Fits(w, v, ids),
           NEW e \in ResetSent, e.epoch = u.epoch, e.n = u.seq, e.runs = u.runs,
           NEW y, y = Heard(w, e)
    PROVE  Fits(y, u, ids) /\ Faithful(w, u) /\ (y.on => w.on)
<1>1. w \in Follower /\ KnownByFollower(w, ids) /\ EpochsUpTo(w, v.epoch)
  BY DEF Fits
<1>2. u.epoch \in Nat /\ v.epoch \in Nat
  BY SnapshotFacts
<1>3. e \in Sent /\ e.kind = "reset"
  BY DEF Sent, ResetSent
<1>4. Faithful(w, u) /\ EpochsUpTo(w, u.epoch) /\ \A i \in 0..Len(w.chan) : EpochAt(w, i) # u.epoch
  BY <1>1, <1>2, NewEpoch
<1>5. /\ y \in Follower /\ (y.on => w.on)
      /\ \/ w.on /\ y = [w EXCEPT !.chan = Append(@, e)]
         \/ /\ ~y.on /\ y.epoch = w.epoch /\ y.seq = w.seq /\ y.shows = w.shows /\ y.chan = w.chan
  BY <1>1, <1>3, HeardFacts
<1>6. CASE w.on /\ y = [w EXCEPT !.chan = Append(@, e)]
  <2>1. Faithful(y, u)
    BY <1>1, <1>4, <1>6, ToldOfReset
  <2>2. KnownByFollower(y, ids) /\ EpochsUpTo(y, u.epoch)
    <3>1. e.epoch <= u.epoch
      BY <1>2
    <3>2. IF e.kind = "reset" THEN DOMAIN e.runs \subseteq ids ELSE e.run \in ids
      BY <1>3
    <3> QED
      BY <1>1, <1>2, <1>3, <1>4, <1>6, <3>1, <3>2, GrownKnows
  <2>3. Level(y, u)
    BY <1>1, <1>3, <1>6, GrownFacts DEF Level
  <2> QED
    BY <1>4, <1>5, <2>1, <2>2, <2>3 DEF Fits
<1>7. CASE ~y.on /\ y.epoch = w.epoch /\ y.seq = w.seq /\ y.shows = w.shows /\ y.chan = w.chan
  <2>1. Faithful(y, u) /\ KnownByFollower(y, ids) /\ EpochsUpTo(y, u.epoch)
    BY <1>1, <1>4, <1>7, SameChannel
  <2>2. Level(y, u)
    BY <1>7 DEF Level
  <2> QED
    BY <1>4, <1>5, <2>1, <2>2 DEF Fits
<1> QED
  BY <1>5, <1>6, <1>7

\* The entry at a place of what Subscribe replays is one that can be sent.
LEMMA ReplayTyped ==
    ASSUME NEW v \in Snapshot, EventsSound(v), NEW w \in Follower, ~(w.epoch = v.epoch /\ w.seq > v.seq)
    PROVE  ReplayTo(w, v) \in Seq(Sent)
<1>1. v.epoch \in Nat /\ v.seq \in Nat /\ v.runs \in Rows /\ v.events \in Seq(Entry) /\ Len(v.events) \in Nat
  BY SnapshotFacts
<1>2. w.seq \in Nat
  BY DEF Follower
<1>3. CASE w.epoch # v.epoch \/ w.seq < v.seq - Len(v.events)
  <2> DEFINE e == [kind |-> "reset", epoch |-> v.epoch, n |-> v.seq, runs |-> v.runs]
  <2>1. e \in Sent
    BY <1>1 DEF Sent, ResetSent
  <2>2. ReplayTo(w, v) = <<e>>
    BY <1>3 DEF ReplayTo
  <2> HIDE DEF e
  <2> QED
    BY <2>1, <2>2
<1>4. CASE ~(w.epoch # v.epoch \/ w.seq < v.seq - Len(v.events))
  <2> DEFINE L == Len(v.events)
             a == w.seq + L - v.seq
             S == {i \in 1..L : v.events[i].n > w.seq}
             t == Selected(v.events, S)
             e(i) == [kind |-> "event", epoch |-> v.epoch, n |-> t[i].n, run |-> t[i].run, state |-> t[i].state]
  <2>1. a \in 0..L /\ S = (a + 1)..L
    <3>1. w.seq <= v.seq /\ w.seq >= v.seq - Len(v.events)
      BY <1>1, <1>2, <1>4
    <3> QED
      BY <1>2, <3>1, LaterEvents
  <2>2. t \in Seq(Entry)
    BY <1>1, <2>1, SelectedEnd
  <2>3. ReplayTo(w, v) = [i \in 1..Len(t) |-> e(i)]
    BY <1>4 DEF ReplayTo
  <2> HIDE DEF t
  <2>4. ASSUME NEW i \in 1..Len(t) PROVE e(i) \in Sent
    <3>1. t[i] \in Entry
      BY <2>2
    <3> QED
      BY <1>1, <3>1 DEF Sent, EventSent, Entry
  <2>5. Len(t) \in Nat
    BY <2>2
  <2> HIDE DEF e
  <2> QED
    BY <2>3, <2>4, <2>5
<1> QED
  BY <1>3, <1>4

\* A follower that subscribes fits the ledger, and what is on disk.
LEMMA ReplayFits ==
    ASSUME NEW ids, NEW v \in Snapshot, EventsSound(v), KnownBySnapshot(v, ids),
           NEW w, Fits(w, v, ids), w.chan = <<>>, ~(w.epoch = v.epoch /\ w.seq > v.seq),
           NEW d \in Snapshot, Faithful(w, d), d = v \/ (d.epoch = 0 /\ v.epoch > 0),
           NEW y, y = [w EXCEPT !.on = TRUE, !.chan = ReplayTo(w, v)]
    PROVE  Fits(y, v, ids) /\ Faithful(y, d)
<1>1. /\ w \in Follower /\ Faithful(w, v) /\ KnownByFollower(w, ids) /\ EpochsUpTo(w, v.epoch)
  BY DEF Fits
<1>2. ReplayTo(w, v) \in Seq(Sent)
  BY <1>1, ReplayTyped
<1>3. /\ y \in Follower /\ y.epoch = w.epoch /\ y.seq = w.seq /\ y.shows = w.shows /\ y.chan = ReplayTo(w, v)
  BY <1>1, <1>2 DEF Follower
<1>4. Len(w.chan) = 0 /\ EpochAt(w, 0) = w.epoch /\ SeqAt(w, 0) = w.seq
      /\ EpochAt(y, 0) = w.epoch /\ SeqAt(y, 0) = w.seq /\ w.epoch \in Nat /\ v.epoch \in Nat /\ d.epoch \in Nat
  BY <1>1, <1>3, SnapshotFacts DEF EpochAt, SeqAt, Follower
<1>5. 0 \in 0..0 /\ w.epoch <= v.epoch
  BY <1>1, <1>4 DEF EpochsUpTo
<1>6. DOMAIN y.shows \subseteq ids
  BY <1>1, <1>3 DEF KnownByFollower
<1>7. /\ Faithful(y, v) /\ Level(y, v)
      /\ \A i \in 1..Len(y.chan) : /\ y.chan[i].epoch = v.epoch
                                   /\ IF y.chan[i].kind = "reset" THEN DOMAIN y.chan[i].runs \subseteq ids
                                      ELSE y.chan[i].run \in ids
  <2>1. CASE w.epoch # v.epoch \/ w.seq < v.seq - Len(v.events)
    <3>1. /\ Faithful(y, v) /\ Level(y, v)
          /\ \A i \in 1..Len(y.chan) : y.chan[i].kind = "reset" /\ y.chan[i].epoch = v.epoch
                                       /\ y.chan[i].runs = v.runs
      BY <1>1, <1>3, <2>1, ReplayOfReset
    <3> QED
      BY <3>1 DEF KnownBySnapshot
  <2>2. CASE ~(w.epoch # v.epoch \/ w.seq < v.seq - Len(v.events))
    <3>1. /\ Faithful(y, v) /\ Level(y, v)
          /\ \A i \in 1..Len(y.chan) : y.chan[i].kind = "event" /\ y.chan[i].epoch = v.epoch
                                       /\ y.chan[i].run \in ids
      <4>1. /\ v \in Snapshot /\ KnownBySnapshot(v, ids) /\ EventsSound(v)
            /\ w \in Follower /\ w.chan = <<>> /\ Faithful(w, v)
            /\ ~(w.epoch # v.epoch \/ w.seq < v.seq - Len(v.events))
            /\ y \in Follower /\ y.epoch = w.epoch /\ y.seq = w.seq /\ y.shows = w.shows
            /\ y.chan = ReplayTo(w, v) /\ ~(w.epoch = v.epoch /\ w.seq > v.seq)
        BY <1>1, <1>3, <2>2
      <4> QED
        BY ONLY <4>1, ReplayOfEvents, SMTT(60)
    <3> QED
      BY <3>1
  <2> QED
    BY <2>1, <2>2
<1>8. KnownByFollower(y, ids)
  BY <1>6, <1>7 DEF KnownByFollower
<1>9. Len(y.chan) \in Nat
  BY <1>3, SentFacts
<1>10. ASSUME NEW i \in 0..Len(y.chan) PROVE i = 0 \/ (i \in 1..Len(y.chan) /\ EpochAt(y, i) = v.epoch)
  <2>1. CASE i = 0
    BY <2>1
  <2>2. CASE i # 0
    <3>1. i \in 1..Len(y.chan)
      BY <1>9, <2>2
    <3> QED
      BY <1>7, <2>2, <3>1 DEF EpochAt
  <2> QED
    BY <2>1, <2>2
<1>11. EpochsUpTo(y, v.epoch)
  BY <1>4, <1>5, <1>10 DEF EpochsUpTo
<1>12. Faithful(y, d)
  <2>1. CASE d = v
    BY <1>7, <2>1
  <2>2. CASE d.epoch = 0 /\ v.epoch > 0
    <3>1. \A r, s : Says(w, 0, r, s) => Says(y, 0, r, s)
      <4> SUFFICES ASSUME NEW r, NEW s, Says(w, 0, r, s) PROVE Says(y, 0, r, s)
        OBVIOUS
      <4>1. \A k \in 1..0 : y.chan[k] = w.chan[k]
        OBVIOUS
      <4> QED
        BY <1>3, <4>1, SaysSame, ZenonT(60)
    <3> SUFFICES ASSUME NEW i \in 0..Len(y.chan), EpochAt(y, i) = d.epoch
                 PROVE  /\ SeqAt(y, i) <= d.seq
                        /\ SeqAt(y, i) >= d.seq - Len(d.events) =>
                             \A x \in DOMAIN d.runs : Unheard(d, SeqAt(y, i), x) => Says(y, i, x, d.runs[x])
      BY DEF Faithful
    <3>2. i = 0
      BY <1>10, <2>2
    <3> QED
      BY <1>4, <1>5, <3>1, <3>2 DEF Faithful
  <2> QED
    BY <2>1, <2>2
<1> QED
  BY <1>3, <1>7, <1>8, <1>11, <1>12 DEF Fits

\* A follower that receives an entry still fits.
LEMMA ReceivedFits ==
    ASSUME NEW ids, NEW v \in Snapshot, NEW w, Fits(w, v, ids), w.chan # <<>>, NEW y, y = Received(w)
    PROVE  Fits(y, v, ids) /\ y.on = w.on
<1>1. /\ w \in Follower /\ Faithful(w, v) /\ KnownByFollower(w, ids) /\ EpochsUpTo(w, v.epoch) /\ Level(w, v)
  BY DEF Fits
<1> DEFINE n == Len(w.chan)
           e == w.chan[1]
<1>2. /\ y \in Follower /\ y.on = w.on /\ n >= 1 /\ Len(y.chan) = n - 1
      /\ y.shows = IF e.kind = "reset" THEN e.runs ELSE Set(w.shows, e.run, e.state)
      /\ \A k \in 1..(n - 1) : y.chan[k] = w.chan[k + 1]
      /\ \A i \in 0..(n - 1) : EpochAt(y, i) = EpochAt(w, i + 1) /\ SeqAt(y, i) = SeqAt(w, i + 1)
      /\ n \in Nat
  BY <1>1, ReceivedFacts, SentFacts
<1>3. Faithful(y, v)
  BY <1>1, ReceivedFaithful
<1>4. \A k \in 1..n : IF w.chan[k].kind = "reset" THEN DOMAIN w.chan[k].runs \subseteq ids ELSE w.chan[k].run \in ids
  BY <1>1 DEF KnownByFollower
<1>5. \A k \in 0..(n - 1) : k + 1 \in 1..n /\ k + 1 \in 0..n
  BY <1>2
<1>6. DOMAIN y.shows \subseteq ids
  <2>1. 1 \in 1..n /\ DOMAIN w.shows \subseteq ids
    BY <1>1, <1>2 DEF KnownByFollower
  <2> HIDE DEF n
  <2> QED
    BY <1>2, <1>4, <2>1 DEF Set
<1>7. \A k \in 1..(n - 1) : k \in 0..(n - 1)
  BY <1>2
<1>8. EpochsUpTo(y, v.epoch)
  <2>1. \A i \in 0..n : EpochAt(w, i) <= v.epoch
    BY <1>1 DEF EpochsUpTo
  <2> QED
    BY <1>2, <1>5, <2>1 DEF EpochsUpTo
<1>9. Level(y, v)
  <2>1. n - 1 \in 0..(n - 1) /\ (n - 1) + 1 = n
    BY <1>2
  <2> QED
    BY <1>1, <1>2, <2>1 DEF Level
<1> HIDE DEF n, e
<1>10. \A k \in 1..(n - 1) : IF y.chan[k].kind = "reset" THEN DOMAIN y.chan[k].runs \subseteq ids
                             ELSE y.chan[k].run \in ids
  BY <1>2, <1>4, <1>5, <1>7
<1>11. KnownByFollower(y, ids)
  BY <1>2, <1>6, <1>10 DEF KnownByFollower
<1> QED
  BY <1>2, <1>3, <1>8, <1>9, <1>11 DEF Fits

\* So does one that loses its connection.
LEMMA CutOffFits ==
    ASSUME NEW ids, NEW v \in Snapshot, NEW w \in Follower, KnownByFollower(w, ids),
           Faithful(w, v), EpochsUpTo(w, v.epoch), NEW y, y = [w EXCEPT !.on = FALSE, !.chan = <<>>]
    PROVE  Fits(y, v, ids) /\ ~y.on
<1>1. /\ y \in Follower /\ y.epoch = w.epoch /\ y.seq = w.seq /\ y.shows = w.shows /\ y.chan = <<>> /\ ~y.on
  <2>1. <<>> \in Seq(Sent)
    OBVIOUS
  <2> QED
    BY <2>1 DEF Follower
<1>2. Faithful(y, v) /\ KnownByFollower(y, ids) /\ EpochsUpTo(y, v.epoch)
  BY <1>1, CutOff
<1> QED
  BY <1>1, <1>2 DEF Fits, Level

\* What its cursor means of another snapshot stays true when the connection is lost.
LEMMA CutOffFaithful ==
    ASSUME NEW v, NEW w \in Follower, Faithful(w, v), NEW y, y = [w EXCEPT !.on = FALSE, !.chan = <<>>]
    PROVE  Faithful(y, v)
<1>1. /\ y \in Follower /\ y.epoch = w.epoch /\ y.seq = w.seq /\ y.shows = w.shows /\ y.chan = <<>>
  <2>1. <<>> \in Seq(Sent)
    OBVIOUS
  <2> QED
    BY <2>1 DEF Follower
<1> QED
  BY <1>1, CutOff

-----------------------------------------------------------------------------
(* The invariant. *)

\* A commit, told or untold, done or refused, keeps the invariant when everybody fits what
\* it writes.
LEMMA WriteKeeps ==
    ASSUME FeedInv, NEW u \in Snapshot, NEW told, CommitWrites(u, told),
           loaded' \in BOOLEAN, created' \in SUBSET Ids, created \subseteq created',
           EventsSound(u), KnownBySnapshot(u, created'), u.epoch >= ledger.epoch,
           told \in [Followers -> Follower],
           \A f \in Followers : /\ Faithful(feed[f], u) /\ Fits(told[f], u, created')
                                /\ (feed[f].on => loaded') /\ (told[f].on => loaded')
    PROVE  FeedInv'
<1>1. /\ disk \in Snapshot /\ ledger \in Snapshot /\ unwritable \in BOOLEAN /\ loaded \in BOOLEAN
      /\ feed \in [Followers -> Follower] /\ created \in SUBSET Ids
      /\ ledger.epoch > 0 /\ (~unwritable => disk = ledger \/ disk.epoch = 0)
      /\ (disk.epoch = 0 \/ disk.epoch >= ledger.epoch)
      /\ EventsSound(disk) /\ EventsSound(ledger)
      /\ KnownBySnapshot(disk, created) /\ KnownBySnapshot(ledger, created)
      /\ \A f \in Followers : /\ Fits(feed[f], ledger, created) /\ Faithful(feed[f], disk)
  BY DEF FeedInv, FeedTypeOK, DiskAgrees
<1>2. /\ KnownBySnapshot(disk, created') /\ KnownBySnapshot(ledger, created')
      /\ \A f \in Followers : Fits(feed[f], ledger, created')
  BY <1>1, KnownMono DEF Fits
<1>3. ledger.epoch \in Nat /\ u.epoch \in Nat
  BY <1>1, SnapshotFacts
<1>4. CASE disk' = u /\ ledger' = u /\ unwritable' = FALSE /\ feed' = told
  <2>1. FeedTypeOK'
    BY <1>4 DEF FeedTypeOK
  <2>2. DiskAgrees'
    BY <1>1, <1>3, <1>4 DEF DiskAgrees
  <2>3. \A f \in Followers : Fits(told[f], u, created') /\ Faithful(told[f], u) /\ (told[f].on => loaded')
    BY DEF Fits
  <2> QED
    BY <1>4, <2>1, <2>2, <2>3 DEF FeedInv
<1>5. CASE unwritable' = TRUE /\ disk' \in {disk, u} /\ ledger' = ledger /\ feed' = feed
  <2>1. FeedTypeOK'
    BY <1>1, <1>5 DEF FeedTypeOK
  <2>2. DiskAgrees'
    BY <1>1, <1>3, <1>5 DEF DiskAgrees
  <2>3. \A f \in Followers : Faithful(feed[f], disk')
    BY <1>1, <1>5
  <2>4. EventsSound(disk') /\ KnownBySnapshot(disk', created')
    BY <1>1, <1>2, <1>5
  <2> QED
    BY <1>1, <1>2, <1>5, <2>1, <2>2, <2>3, <2>4 DEF FeedInv
<1> QED
  BY <1>4, <1>5 DEF CommitWrites

\* What is true of the ledger, and of a follower that looks at it.
LEMMA InvFacts ==
    ASSUME FeedInv
    PROVE  /\ ledger \in Snapshot /\ disk \in Snapshot /\ feed \in [Followers -> Follower]
           /\ loaded \in BOOLEAN /\ created \in SUBSET Ids
           /\ EventsSound(ledger) /\ KnownBySnapshot(ledger, created)
           /\ EventsSound(disk) /\ KnownBySnapshot(disk, created)
           /\ ledger.epoch \in Nat /\ disk.epoch \in Nat /\ ledger.seq \in Nat
           /\ DOMAIN ledger.runs \subseteq created
           /\ \A f \in Followers : /\ feed[f] \in Follower /\ Fits(feed[f], ledger, created)
                                   /\ Faithful(feed[f], ledger) /\ Faithful(feed[f], disk)
                                   /\ (feed[f].on => loaded)
<1>1. ledger \in Snapshot /\ disk \in Snapshot
  BY DEF FeedInv, FeedTypeOK
<1>2. ledger.epoch \in Nat /\ disk.epoch \in Nat /\ ledger.seq \in Nat
  BY <1>1, SnapshotFacts
<1> QED
  BY <1>1, <1>2 DEF FeedInv, FeedTypeOK, Fits, KnownBySnapshot

\* The next snapshot has no event of an id that was not handed out.
LEMMA FollowsKnown ==
    ASSUME NEW ids, NEW v \in Snapshot, NEW u \in Snapshot, NEW r \in Ids, NEW s \in FeedStates,
           Follows(v, u, r, s, ids), KnownBySnapshot(v, ids), NEW jds, ids \subseteq jds,
           DOMAIN u.runs \subseteq jds
    PROVE  KnownBySnapshot(u, jds)
<1>1. r \in jds /\ Len(v.events) \in Nat
  BY SnapshotFacts DEF Follows
<1>2. ASSUME NEW j \in 1..Len(u.events) PROVE u.events[j].run \in jds
  <2> DEFINE k == Len(v.events) + 1 - Len(u.events) + j
  <2>1. /\ k \in 1..(Len(v.events) + 1)
        /\ k <= Len(v.events) => u.events[j] = v.events[k]
        /\ k = Len(v.events) + 1 => u.events[j] = Told(v, r, s)
    BY FollowsEvents, ZenonT(60)
  <2> HIDE DEF k
  <2>2. CASE k <= Len(v.events)
    <3>1. k \in 1..Len(v.events)
      BY <1>1, <2>1, <2>2
    <3> QED
      BY <2>1, <2>2, <3>1 DEF KnownBySnapshot
  <2>3. CASE k = Len(v.events) + 1
    BY <1>1, <2>1, <2>3 DEF Told
  <2> QED
    BY <1>1, <2>1, <2>2, <2>3
<1> QED
  BY <1>2 DEF KnownBySnapshot

\* A commit that tells of its event keeps the invariant.
LEMMA TellsKeeps ==
    ASSUME FeedInv, NEW r \in Ids, NEW s \in FeedStates, NEW u \in Snapshot,
           Follows(ledger, u, r, s, created), Tells(u, r), loaded /\ loaded',
           created' \in SUBSET Ids, created \subseteq created', DOMAIN u.runs \subseteq created'
    PROVE  FeedInv'
<1> DEFINE e == [kind |-> "event", epoch |-> u.epoch, n |-> u.seq, run |-> r, state |-> u.runs[r]]
           told == Published(e)
<1>1. /\ ledger \in Snapshot /\ EventsSound(ledger) /\ KnownBySnapshot(ledger, created)
      /\ \A f \in Followers : feed[f] \in Follower /\ Fits(feed[f], ledger, created) /\ (feed[f].on => loaded)
      /\ ledger.epoch \in Nat
  BY InvFacts
<1>2. u.epoch \in Nat /\ u.seq \in Nat /\ r \in DOMAIN u.runs /\ u.runs[r] = s /\ u.epoch = ledger.epoch
  BY SnapshotFacts DEF Follows
<1>3. e \in EventSent /\ e.epoch = u.epoch /\ e.n = u.seq /\ e.run = r /\ e.state = s
  BY <1>2 DEF EventSent
<1>4. told = [f \in Followers |-> Heard(feed[f], e)]
  BY DEF Published, Heard
<1> HIDE DEF e
<1>5. ASSUME NEW f \in Followers
      PROVE  Fits(told[f], u, created') /\ Faithful(feed[f], u) /\ (told[f].on => feed[f].on)
  <2>1. told[f] = Heard(feed[f], e)
    BY <1>4
  <2>2. r \in created'
    BY <1>2
  <2> HIDE DEF told
  <2>3. /\ ledger \in Snapshot /\ u \in Snapshot /\ r \in Ids /\ s \in FeedStates
        /\ Follows(ledger, u, r, s, created) /\ EventsSound(ledger) /\ Fits(feed[f], ledger, created)
        /\ created \subseteq created' /\ r \in created'
    BY <1>1, <2>2
  <2> QED
    BY ONLY <1>3, <2>1, <2>3, EventPublished
<1>6. told \in [Followers -> Follower]
  <2>1. \A f \in Followers : Heard(feed[f], e) \in Follower
    BY <1>4, <1>5 DEF Fits
  <2> QED
    BY <1>4, <2>1
<1>7. EventsSound(u)
  BY <1>1, FollowsSound
<1>8. KnownBySnapshot(u, created')
  BY <1>1, FollowsKnown
<1>9. CommitWrites(u, told)
  BY DEF Tells, e
<1>10. u.epoch >= ledger.epoch
  BY <1>1, <1>2
<1> HIDE DEF told
<1> QED
  BY <1>1, <1>5, <1>6, <1>7, <1>8, <1>9, <1>10, WriteKeeps

\* commitFor, on a run that exists.
LEMMA ChangeKeeps ==
    ASSUME FeedInv, loaded, NEW r \in Ids, r \in DOMAIN ledger.runs, NEW s \in FeedStates,
           Tells(Numbered(ledger, r, s), r) \/ Commits(r, s), loaded' = loaded, created' = created
    PROVE  FeedInv'
<1>1. ledger \in Snapshot /\ created \in SUBSET Ids /\ DOMAIN ledger.runs \subseteq created
  BY InvFacts
<1>2. Extends(ledger, ledger, created)
  BY DEF Extends
<1>3. ASSUME NEW t \in FeedStates
      PROVE  LET u == Numbered(ledger, r, t)
             IN  /\ u \in Snapshot /\ Follows(ledger, u, r, t, created) /\ DOMAIN u.runs \subseteq created
                 /\ \A k \in Nat : /\ CutTo(u, k) \in Snapshot /\ Follows(ledger, CutTo(u, k), r, t, created)
                                   /\ DOMAIN CutTo(u, k).runs \subseteq created
  <2>1. /\ Numbered(ledger, r, t) \in Snapshot /\ Follows(ledger, Numbered(ledger, r, t), r, t, created)
        /\ DOMAIN Numbered(ledger, r, t).runs \subseteq DOMAIN ledger.runs \cup {r}
        /\ \A k \in Nat : /\ CutTo(Numbered(ledger, r, t), k) \in Snapshot
                          /\ Follows(ledger, CutTo(Numbered(ledger, r, t), k), r, t, created)
                          /\ DOMAIN CutTo(Numbered(ledger, r, t), k).runs \subseteq DOMAIN ledger.runs \cup {r}
    BY <1>1, <1>2, NumberedFollows
  <2> QED
    BY <1>1, <2>1
<1>4. ASSUME NEW t \in FeedStates, Tells(Numbered(ledger, r, t), r) PROVE FeedInv'
  <2> DEFINE u == Numbered(ledger, r, t)
  <2>1. u \in Snapshot /\ Follows(ledger, u, r, t, created) /\ DOMAIN u.runs \subseteq created /\ Tells(u, r)
    BY <1>3, <1>4
  <2> HIDE DEF u
  <2> QED
    BY <1>1, <2>1, TellsKeeps
<1>5. ASSUME NEW k \in 0..EventCap,
             Tells([Numbered(ledger, r, "failed") EXCEPT !.events = SubSeq(@, k + 1, Len(@))], r)
      PROVE  FeedInv'
  <2> DEFINE y == CutTo(Numbered(ledger, r, "failed"), k)
  <2>1. k \in Nat /\ "failed" \in FeedStates
    BY FeedAssumption DEF FeedStates
  <2>2. y \in Snapshot /\ Follows(ledger, y, r, "failed", created) /\ DOMAIN y.runs \subseteq created
    BY <1>3, <2>1
  <2>3. Tells(y, r)
    BY <1>5 DEF CutTo
  <2> HIDE DEF y
  <2> QED
    BY <1>1, <2>1, <2>2, <2>3, TellsKeeps
<1> QED
  BY <1>4, <1>5 DEF Commits

\* The rows of a batch are queued, and one event tells of the first.
LEMMA CreateBatchKeeps ==
    ASSUME FeedInv, CreateBatch
    PROVE  FeedInv'
<1>1. PICK r \in Ids \ created, S \in SUBSET (Ids \ created) :
        LET rows == S \cup {r}
            v0 == [ledger EXCEPT !.runs = [x \in DOMAIN @ \cup rows |-> IF x \in rows THEN "queued" ELSE @[x]]]
            v == Numbered(v0, r, "queued")
        IN  Tells(v, r) /\ created' = created \cup rows
  BY DEF CreateBatch
<1> DEFINE rows == S \cup {r}
           m == [x \in DOMAIN ledger.runs \cup rows |-> IF x \in rows THEN "queued" ELSE ledger.runs[x]]
           v0 == [ledger EXCEPT !.runs = m]
           u == Numbered(v0, r, "queued")
<1>2. ledger \in Snapshot /\ created \in SUBSET Ids /\ DOMAIN ledger.runs \subseteq created
      /\ ledger.runs \in [DOMAIN ledger.runs -> FeedStates] /\ "queued" \in FeedStates
  BY InvFacts, SnapshotFacts DEF FeedStates
<1>3. Tells(u, r) /\ created' = created \cup rows /\ loaded /\ loaded'
  BY <1>1 DEF CreateBatch, Ready
<1>4. rows \in SUBSET Ids /\ r \in rows /\ rows \cap created = {}
  OBVIOUS
<1> HIDE DEF rows
<1>5. m \in Rows /\ DOMAIN m = DOMAIN ledger.runs \cup rows
  <2>1. m \in [DOMAIN ledger.runs \cup rows -> FeedStates]
    BY <1>2
  <2>2. DOMAIN ledger.runs \cup rows \in SUBSET Ids
    BY <1>2, <1>4
  <2> QED
    BY <2>1, <2>2 DEF Rows
<1>6. \A x \in DOMAIN m : IF x \in DOMAIN ledger.runs THEN m[x] = ledger.runs[x]
                          ELSE m[x] = "queued" /\ x \notin created
  BY <1>2, <1>4
<1> HIDE DEF m
<1>7. v0 \in Snapshot /\ v0.runs = m /\ v0.epoch = ledger.epoch /\ v0.seq = ledger.seq /\ v0.events = ledger.events
  BY <1>2, <1>5 DEF Snapshot
<1> HIDE DEF v0
<1>8. Extends(ledger, v0, created)
  BY <1>5, <1>6, <1>7 DEF Extends
<1>9. r \in Ids /\ r \notin created
  BY <1>1
<1>10. u \in Snapshot /\ Follows(ledger, u, r, "queued", created) /\ DOMAIN u.runs \subseteq DOMAIN v0.runs \cup {r}
  BY <1>2, <1>7, <1>8, <1>9, NumberedFollows
<1> HIDE DEF u
<1>11. created' \in SUBSET Ids /\ created \subseteq created' /\ DOMAIN u.runs \subseteq created'
  BY <1>2, <1>3, <1>4, <1>5, <1>7, <1>10
<1> QED
  BY <1>2, <1>3, <1>9, <1>10, <1>11, TellsKeeps

\* The deletion of an expired run is told to nobody, and takes nothing back.
LEMMA ExpireRunKeeps ==
    ASSUME FeedInv, NEW r \in Ids, ExpireRun(r)
    PROVE  FeedInv'
<1> DEFINE u == [ledger EXCEPT !.runs = [x \in DOMAIN ledger.runs \ {r} |-> ledger.runs[x]]]
<1>1. /\ CommitWrites(u, feed) /\ loaded' = loaded /\ created' = created
  BY DEF ExpireRun
<1>2. /\ ledger \in Snapshot /\ feed \in [Followers -> Follower] /\ loaded \in BOOLEAN /\ created \in SUBSET Ids
      /\ EventsSound(ledger) /\ KnownBySnapshot(ledger, created) /\ ledger.epoch \in Nat
      /\ \A f \in Followers : Fits(feed[f], ledger, created) /\ (feed[f].on => loaded)
  BY InvFacts
<1>3. u.epoch = ledger.epoch /\ u.seq = ledger.seq
  BY <1>2 DEF Snapshot
<1>4. /\ u \in Snapshot /\ EventsSound(u) /\ KnownBySnapshot(u, created)
      /\ \A w : Faithful(w, ledger) => Faithful(w, u)
  BY <1>2, Deleted
<1> HIDE DEF u
<1>5. \A f \in Followers : Faithful(feed[f], u) /\ Fits(feed[f], u, created)
  BY <1>2, <1>3, <1>4 DEF Fits, Level
<1> QED
  BY <1>1, <1>2, <1>3, <1>4, <1>5, WriteKeeps

\* A new epoch is told to everybody; old cursors say nothing of it.
LEMMA ClearKeeps ==
    ASSUME FeedInv, ClearEpoch
    PROVE  FeedInv'
<1> DEFINE kept == {r \in DOMAIN ledger.runs : ~FeedTerminal(ledger.runs[r])}
           u == [epoch |-> ledger.epoch + 1, seq |-> 0, runs |-> [r \in kept |-> ledger.runs[r]], events |-> <<>>]
           e == [kind |-> "reset", epoch |-> u.epoch, n |-> 0, runs |-> u.runs]
           told == Published(e)
<1>1. CommitWrites(u, told) /\ loaded /\ loaded' = loaded /\ created' = created
  BY DEF ClearEpoch, Ready
<1>2. /\ ledger \in Snapshot /\ loaded \in BOOLEAN /\ created \in SUBSET Ids
      /\ ledger.epoch \in Nat /\ DOMAIN ledger.runs \subseteq created
      /\ ledger.runs \in [DOMAIN ledger.runs -> FeedStates]
      /\ \A f \in Followers : Fits(feed[f], ledger, created) /\ (feed[f].on => loaded)
  BY InvFacts, SnapshotFacts
<1>3. /\ u.runs \in Rows /\ DOMAIN u.runs \subseteq created /\ u.epoch = ledger.epoch + 1 /\ u.seq = 0
      /\ u.events = <<>>
  <2>1. u.runs \in [kept -> FeedStates] /\ kept \in SUBSET Ids /\ kept \subseteq created
    BY <1>2
  <2> QED
    BY <2>1 DEF Rows
<1>4. u \in Snapshot
  <2>1. <<>> \in Seq(Entry)
    OBVIOUS
  <2> QED
    BY <1>2, <1>3, <2>1 DEF Snapshot
<1>5. e \in ResetSent /\ e.epoch = u.epoch /\ e.n = u.seq /\ e.runs = u.runs
  BY <1>2, <1>3 DEF ResetSent
<1>6. told = [f \in Followers |-> Heard(feed[f], e)]
  BY DEF Published, Heard
<1>7. EventsSound(u) /\ KnownBySnapshot(u, created)
  <2>1. Len(u.events) = 0 /\ \A j \in 1..Len(u.events) : FALSE
    BY <1>3
  <2> QED
    BY <1>3, <2>1 DEF EventsSound, KnownBySnapshot
<1>8. u.epoch > ledger.epoch /\ u.epoch >= ledger.epoch
  BY <1>2, <1>3
<1> HIDE DEF u, e
<1>9. ASSUME NEW f \in Followers
      PROVE  Fits(told[f], u, created) /\ Faithful(feed[f], u) /\ (told[f].on => feed[f].on)
  <2>1. told[f] = Heard(feed[f], e)
    BY <1>6
  <2> HIDE DEF told
  <2> QED
    BY <1>2, <1>3, <1>4, <1>5, <1>8, <2>1, ResetPublished, ZenonT(60)
<1>10. told \in [Followers -> Follower]
  <2>1. \A f \in Followers : Heard(feed[f], e) \in Follower
    BY <1>6, <1>9 DEF Fits
  <2> QED
    BY <1>6, <2>1
<1> HIDE DEF told
<1> QED
  BY <1>1, <1>2, <1>4, <1>7, <1>8, <1>9, <1>10, WriteKeeps

\* The recovery of a key tells nobody: nobody is subscribed to a key that is not loaded.
LEMMA RecoverKeeps ==
    ASSUME FeedInv, Recover
    PROVE  FeedInv'
<1> DEFINE live == {r \in DOMAIN ledger.runs : ~FeedTerminal(ledger.runs[r])}
<1>1. /\ ledger \in Snapshot /\ loaded \in BOOLEAN /\ created \in SUBSET Ids /\ feed \in [Followers -> Follower]
      /\ DOMAIN ledger.runs \subseteq created /\ EventsSound(ledger) /\ KnownBySnapshot(ledger, created)
      /\ \A f \in Followers : /\ Fits(feed[f], ledger, created) /\ (feed[f].on => loaded)
                              /\ Faithful(feed[f], ledger)
  BY InvFacts
<1>2. ~loaded /\ created' = created
  BY DEF Recover
<1>3. CASE live = {} /\ loaded' = TRUE /\ UNCHANGED <<disk, ledger, unwritable, feed>>
  BY <1>1, <1>2, <1>3 DEF FeedInv, FeedTypeOK, DiskAgrees
<1>4. ASSUME NEW r \in live, loaded' = FALSE, CommitWrites(Numbered(ledger, r, "failed"), feed)
      PROVE  FeedInv'
  <2> DEFINE u == Numbered(ledger, r, "failed")
  <2>0. r \in Ids /\ r \in DOMAIN ledger.runs /\ "failed" \in FeedStates
    BY <1>1 DEF FeedStates
  <2>1. Extends(ledger, ledger, created)
    BY DEF Extends
  <2>2. u \in Snapshot /\ Follows(ledger, u, r, "failed", created) /\ DOMAIN u.runs \subseteq DOMAIN ledger.runs \cup {r}
    BY <1>1, <2>0, <2>1, NumberedFollows
  <2>3. CommitWrites(u, feed)
    BY <1>4
  <2> HIDE DEF u
  <2>4. EventsSound(u)
    BY <1>1, <2>0, <2>2, FollowsSound
  <2>5. KnownBySnapshot(u, created)
    BY <1>1, <2>0, <2>2, FollowsKnown
  <2>6. u.epoch = ledger.epoch /\ u.epoch \in Nat
    BY <2>2, SnapshotFacts DEF Follows
  <2>7. ASSUME NEW f \in Followers
        PROVE  Faithful(feed[f], u) /\ Fits(feed[f], u, created)
    <3>1. feed[f] \in Follower /\ KnownByFollower(feed[f], created) /\ Faithful(feed[f], ledger)
          /\ EpochsUpTo(feed[f], u.epoch) /\ ~feed[f].on
      BY <1>1, <1>2, <2>6 DEF Fits
    <3>2. Faithful(feed[f], u)
      BY <1>1, <2>0, <2>2, <3>1, Untold
    <3> QED
      BY <3>1, <3>2 DEF Fits, Level
  <2>8. \A f \in Followers : ~feed[f].on
    BY <1>1, <1>2
  <2>9. u.epoch >= ledger.epoch
    BY <2>6
  <2> QED
    BY <1>1, <1>2, <1>4, <2>2, <2>3, <2>4, <2>5, <2>7, <2>8, <2>9, WriteKeeps
<1> QED
  BY <1>3, <1>4 DEF Recover

\* A restart: what it reads is on disk, or a new epoch.
LEMMA ReopenKeeps ==
    ASSUME FeedInv, Reopen
    PROVE  FeedInv'
<1> DEFINE cut(f) == [feed[f] EXCEPT !.on = FALSE, !.chan = <<>>]
<1>1. /\ disk \in Snapshot /\ ledger \in Snapshot /\ feed \in [Followers -> Follower] /\ created \in SUBSET Ids
      /\ EventsSound(disk) /\ KnownBySnapshot(disk, created) /\ disk.epoch \in Nat /\ ledger.epoch \in Nat
      /\ \A f \in Followers : /\ feed[f] \in Follower /\ Fits(feed[f], ledger, created)
                              /\ Faithful(feed[f], disk)
  BY InvFacts
<1>2. /\ feed' = [f \in Followers |-> cut(f)] /\ disk' = disk /\ created' = created
      /\ unwritable' = FALSE /\ loaded' = FALSE
  BY DEF Reopen
<1>3. \A f \in Followers : /\ KnownByFollower(feed[f], created) /\ EpochsUpTo(feed[f], ledger.epoch)
                           /\ feed'[f] = cut(f)
  BY <1>1, <1>2 DEF Fits
<1>4. CASE disk.epoch = 0 /\ ledger' = [disk EXCEPT !.epoch = ledger.epoch + 1]
  <2> DEFINE u == [disk EXCEPT !.epoch = ledger.epoch + 1]
  <2>1. /\ u \in Snapshot /\ u.epoch = ledger.epoch + 1 /\ u.seq = disk.seq /\ u.events = disk.events
        /\ u.runs = disk.runs
    BY <1>1 DEF Snapshot
  <2> HIDE DEF u
  <2>2. EventsSound(u) /\ KnownBySnapshot(u, created)
    BY <1>1, <2>1 DEF EventsSound, KnownBySnapshot
  <2>3. u.epoch > ledger.epoch /\ u.epoch > 0
    BY <1>1, <2>1
  <2>4. ASSUME NEW f \in Followers PROVE Fits(cut(f), u, created) /\ Faithful(cut(f), disk) /\ ~cut(f).on
    <3>1. Faithful(feed[f], u) /\ EpochsUpTo(feed[f], u.epoch)
      BY <1>1, <1>3, <2>1, <2>3, NewEpoch
    <3>2. Fits(cut(f), u, created) /\ ~cut(f).on
      BY <1>1, <1>3, <2>1, <3>1, CutOffFits
    <3>3. Faithful(cut(f), disk)
      BY <1>1, <1>3, CutOffFaithful
    <3> QED
      BY <3>2, <3>3
  <2>5. ledger' = u
    BY <1>4 DEF u
  <2> HIDE DEF cut
  <2>6. feed' \in [Followers -> Follower] /\ \A f \in Followers : feed'[f] = cut(f)
    BY <1>2, <2>4 DEF Fits
  <2>7. FeedTypeOK'
    BY <1>1, <1>2, <2>1, <2>5, <2>6 DEF FeedTypeOK
  <2>8. DiskAgrees'
    BY <1>2, <1>4, <2>3, <2>5 DEF DiskAgrees
  <2> QED
    BY <1>1, <1>2, <2>2, <2>4, <2>5, <2>6, <2>7, <2>8 DEF FeedInv
<1>5. CASE disk.epoch # 0 /\ ledger' = disk
  <2>1. disk.epoch >= ledger.epoch /\ disk.epoch > 0
    BY <1>1, <1>5 DEF FeedInv, DiskAgrees
  <2>2. ASSUME NEW f \in Followers PROVE Fits(cut(f), disk, created) /\ Faithful(cut(f), disk) /\ ~cut(f).on
    <3>1. EpochsUpTo(feed[f], disk.epoch)
      <4>1. \A i \in 0..Len(feed[f].chan) : EpochAt(feed[f], i) \in Nat /\ EpochAt(feed[f], i) <= ledger.epoch
        BY <1>1, <1>3, SentFacts DEF EpochsUpTo
      <4>2. \A i \in 0..Len(feed[f].chan) : EpochAt(feed[f], i) <= disk.epoch
        BY <1>1, <2>1, <4>1
      <4> QED
        BY <4>2 DEF EpochsUpTo
    <3>2. Fits(cut(f), disk, created) /\ ~cut(f).on
      BY <1>1, <1>3, <3>1, CutOffFits
    <3> QED
      BY <3>2 DEF Fits
  <2> HIDE DEF cut
  <2>3. feed' \in [Followers -> Follower] /\ \A f \in Followers : feed'[f] = cut(f)
    BY <1>2, <2>2 DEF Fits
  <2>4. FeedTypeOK'
    BY <1>1, <1>2, <1>5, <2>3 DEF FeedTypeOK
  <2>5. DiskAgrees'
    BY <1>2, <1>1, <1>5, <2>1 DEF DiskAgrees
  <2> QED
    BY <1>1, <1>2, <1>5, <2>2, <2>3, <2>4, <2>5 DEF FeedInv
<1> QED
  BY <1>4, <1>5 DEF Reopen

\* Replay and registration, in one step, leave no gap.
LEMMA SubscribeKeeps ==
    ASSUME FeedInv, NEW f \in Followers, Subscribe(f)
    PROVE  FeedInv'
<1> DEFINE w == feed[f]
           y == [w EXCEPT !.on = TRUE, !.chan = ReplayTo(w, ledger)]
<1>1. /\ ledger \in Snapshot /\ disk \in Snapshot /\ feed \in [Followers -> Follower] /\ ledger.epoch \in Nat
      /\ EventsSound(ledger) /\ KnownBySnapshot(ledger, created)
      /\ \A g \in Followers : /\ feed[g] \in Follower /\ Fits(feed[g], ledger, created)
                              /\ Faithful(feed[g], disk) /\ (feed[g].on => loaded)
  BY InvFacts
<1>2. /\ loaded /\ ~unwritable /\ w.chan = <<>> /\ ~(w.epoch = ledger.epoch /\ w.seq > ledger.seq)
      /\ UNCHANGED <<disk, ledger, unwritable, loaded, created>>
  BY DEF Subscribe, Ready
<1>3. feed' = [feed EXCEPT ![f] = y]
  <2>1. Replay(f) = ReplayTo(w, ledger)
    BY DEF Replay, ReplayTo
  <2>2. feed' = [feed EXCEPT ![f].on = TRUE, ![f].chan = ReplayTo(w, ledger)]
    BY <2>1 DEF Subscribe
  <2> QED
    BY <1>1, <2>2
<1>4. disk = ledger \/ (disk.epoch = 0 /\ ledger.epoch > 0)
  BY <1>2 DEF FeedInv, DiskAgrees
<1>5. Fits(y, ledger, created) /\ Faithful(y, disk)
  BY <1>1, <1>2, <1>4, ReplayFits
<1> HIDE DEF y, w
<1>6. /\ feed' \in [Followers -> Follower]
      /\ \A g \in Followers : feed'[g] = IF g = f THEN y ELSE feed[g]
  BY <1>1, <1>3, <1>5 DEF Fits
<1>7. FeedTypeOK'
  BY <1>2, <1>6 DEF FeedInv, FeedTypeOK
<1>8. DiskAgrees'
  BY <1>2 DEF FeedInv, DiskAgrees
<1>9. \A g \in Followers : Fits(feed'[g], ledger, created) /\ Faithful(feed'[g], disk) /\ (feed'[g].on => loaded)
  BY <1>1, <1>2, <1>5, <1>6
<1> QED
  BY <1>2, <1>7, <1>8, <1>9 DEF FeedInv

\* A follower reads on, through what it was to be told anyway.
LEMMA ReceiveKeeps ==
    ASSUME FeedInv, NEW f \in Followers, Receive(f)
    PROVE  FeedInv'
<1> DEFINE w == feed[f]
           y == Received(w)
<1>1. /\ ledger \in Snapshot /\ feed \in [Followers -> Follower]
      /\ \A g \in Followers : /\ feed[g] \in Follower /\ Fits(feed[g], ledger, created)
                              /\ Faithful(feed[g], disk) /\ (feed[g].on => loaded)
  BY InvFacts
<1>2. w.chan # <<>> /\ UNCHANGED <<disk, ledger, unwritable, loaded, created>>
  BY DEF Receive
<1>3. feed' = [feed EXCEPT ![f] = y]
  BY <1>1 DEF Receive, Received
<1>4. Fits(y, ledger, created) /\ Faithful(y, disk) /\ y.on = w.on
  BY <1>1, <1>2, ReceivedFits, ReceivedFaithful
<1>5. /\ feed' \in [Followers -> Follower]
      /\ \A g \in Followers : feed'[g] = IF g = f THEN y ELSE feed[g]
  <2>1. y \in Follower
    BY <1>4 DEF Fits
  <2> HIDE DEF y
  <2> QED
    BY <1>1, <1>3, <2>1
<1> HIDE DEF y
<1>6. FeedTypeOK'
  BY <1>2, <1>5 DEF FeedInv, FeedTypeOK
<1>7. DiskAgrees'
  BY <1>2 DEF FeedInv, DiskAgrees
<1>8. \A g \in Followers : Fits(feed'[g], ledger, created) /\ Faithful(feed'[g], disk) /\ (feed'[g].on => loaded)
  BY <1>1, <1>4, <1>5
<1> QED
  BY <1>2, <1>6, <1>7, <1>8 DEF FeedInv

\* What was in flight is lost, and the cursor stays where it is.
LEMMA DisconnectKeeps ==
    ASSUME FeedInv, NEW f \in Followers, Disconnect(f)
    PROVE  FeedInv'
<1> DEFINE w == feed[f]
           y == [w EXCEPT !.on = FALSE, !.chan = <<>>]
<1>1. /\ ledger \in Snapshot /\ feed \in [Followers -> Follower]
      /\ \A g \in Followers : /\ feed[g] \in Follower /\ Fits(feed[g], ledger, created)
                              /\ Faithful(feed[g], disk) /\ (feed[g].on => loaded)
  BY InvFacts
<1>2. UNCHANGED <<disk, ledger, unwritable, loaded, created>>
  BY DEF Disconnect
<1>3. feed' = [feed EXCEPT ![f] = y]
  BY <1>1 DEF Disconnect
<1>4. Fits(y, ledger, created) /\ Faithful(y, disk) /\ ~y.on
  <2>1. /\ w \in Follower /\ KnownByFollower(w, created) /\ Faithful(w, ledger) /\ Faithful(w, disk)
        /\ EpochsUpTo(w, ledger.epoch)
    BY <1>1 DEF Fits
  <2> QED
    BY <1>1, <2>1, CutOffFits, CutOffFaithful
<1>5. /\ feed' \in [Followers -> Follower]
      /\ \A g \in Followers : feed'[g] = IF g = f THEN y ELSE feed[g]
  <2>1. y \in Follower
    BY <1>4 DEF Fits
  <2> HIDE DEF y
  <2> QED
    BY <1>1, <1>3, <2>1
<1> HIDE DEF y
<1>6. FeedTypeOK'
  BY <1>2, <1>5 DEF FeedInv, FeedTypeOK
<1>7. DiskAgrees'
  BY <1>2 DEF FeedInv, DiskAgrees
<1>8. \A g \in Followers : Fits(feed'[g], ledger, created) /\ Faithful(feed'[g], disk) /\ (feed'[g].on => loaded)
  BY <1>1, <1>4, <1>5
<1> QED
  BY <1>2, <1>6, <1>7, <1>8 DEF FeedInv

\* The invariant of the run store and its followers is inductive.
LEMMA FeedInvInit == FeedInit => FeedInv
<1> SUFFICES ASSUME FeedInit PROVE FeedInv
  OBVIOUS
<1> DEFINE none == [epoch |-> 0, seq |-> 0, runs |-> <<>>, events |-> <<>>]
           one == [none EXCEPT !.epoch = 1]
           w == [on |-> FALSE, epoch |-> 0, seq |-> 0, chan |-> <<>>, shows |-> <<>>]
<1>1. disk = none /\ ledger = one /\ unwritable = FALSE /\ loaded = TRUE
      /\ feed = [f \in Followers |-> w] /\ created = {}
  BY DEF FeedInit
<1>2. <<>> \in Rows /\ <<>> \in Seq(Entry) /\ <<>> \in Seq(Sent) /\ Len(<<>>) = 0 /\ DOMAIN <<>> = {}
  <2>1. <<>> \in [{} -> FeedStates] /\ {} \in SUBSET Ids
    OBVIOUS
  <2>2. <<>> \in Rows
    BY <2>1 DEF Rows
  <2>3. <<>> \in Seq(Entry) /\ <<>> \in Seq(Sent) /\ Len(<<>>) = 0
    OBVIOUS
  <2>4. DOMAIN <<>> = {}
    BY <2>1
  <2> QED
    BY <2>2, <2>3, <2>4
<1>3. none \in Snapshot /\ one \in Snapshot /\ w \in Follower
  BY <1>2 DEF Snapshot, Follower
<1>4. none.epoch = 0 /\ one.epoch = 1 /\ none.seq = 0 /\ one.seq = 0 /\ none.runs = <<>> /\ one.runs = <<>>
      /\ none.events = <<>> /\ one.events = <<>>
      /\ w.on = FALSE /\ w.epoch = 0 /\ w.seq = 0 /\ w.chan = <<>> /\ w.shows = <<>>
  OBVIOUS
<1> HIDE DEF none, one, w
<1>5. \A v \in {none, one} : EventsSound(v) /\ KnownBySnapshot(v, {})
  <2>1. \A j \in 1..Len(<<>>) : FALSE
    BY <1>2
  <2> QED
    BY <1>2, <1>4, <2>1 DEF EventsSound, KnownBySnapshot
<1>6. \A i \in 0..Len(w.chan) : i = 0 /\ EpochAt(w, i) = 0 /\ SeqAt(w, i) = 0
  BY <1>2, <1>4 DEF EpochAt, SeqAt
<1>7. Faithful(w, none) /\ Faithful(w, one)
  BY <1>2, <1>4, <1>6 DEF Faithful
<1>8. KnownByFollower(w, {}) /\ EpochsUpTo(w, one.epoch) /\ Level(w, one)
  <2>1. \A j \in 1..Len(w.chan) : FALSE
    BY <1>2, <1>4
  <2> QED
    BY <1>2, <1>4, <1>6, <2>1 DEF KnownByFollower, EpochsUpTo, Level
<1>9. FeedTypeOK
  BY <1>1, <1>3 DEF FeedTypeOK
<1>10. DiskAgrees
  BY <1>1, <1>4 DEF DiskAgrees
<1> QED
  BY <1>1, <1>3, <1>4, <1>5, <1>7, <1>8, <1>9, <1>10 DEF FeedInv, Fits

\* It is kept by every step.
LEMMA FeedInvNext == FeedInv /\ [FeedNext]_feedVars => FeedInv'
<1> SUFFICES ASSUME FeedInv, [FeedNext]_feedVars PROVE FeedInv'
  OBVIOUS
<1>1. CASE CreateBatch
  BY <1>1, CreateBatchKeeps
<1>2. CASE ClearEpoch
  BY <1>2, ClearKeeps
<1>3. CASE Reopen
  BY <1>3, ReopenKeeps
<1>4. CASE Recover
  BY <1>4, RecoverKeeps
<1>5. ASSUME NEW r \in Ids, Change(r) PROVE FeedInv'
  <2>1. /\ loaded /\ r \in DOMAIN ledger.runs /\ loaded' = loaded /\ created' = created
    BY <1>5 DEF Change, Ready
  <2>2. ledger.runs[r] \in FeedStates /\ {"running", "done", "failed"} \subseteq FeedStates
    BY <2>1, InvFacts, SnapshotFacts DEF FeedStates
  <2>3. \E s \in FeedStates : Tells(Numbered(ledger, r, s), r) \/ Commits(r, s)
    BY <1>5, <2>2 DEF Change
  <2> QED
    BY <2>1, <2>3, ChangeKeeps
<1>6. ASSUME NEW r \in Ids, ExpireRun(r) PROVE FeedInv'
  BY <1>6, ExpireRunKeeps
<1>7. ASSUME NEW f \in Followers, Subscribe(f) PROVE FeedInv'
  BY <1>7, SubscribeKeeps
<1>8. ASSUME NEW f \in Followers, Receive(f) PROVE FeedInv'
  BY <1>8, ReceiveKeeps
<1>9. ASSUME NEW f \in Followers, Disconnect(f) PROVE FeedInv'
  BY <1>9, DisconnectKeeps
<1>10. CASE UNCHANGED feedVars
  BY <1>10 DEF FeedInv, FeedTypeOK, DiskAgrees, feedVars
<1> QED
  BY <1>1, <1>2, <1>3, <1>4, <1>5, <1>6, <1>7, <1>8, <1>9, <1>10 DEF FeedNext

\* It says what the followers rely on.
LEMMA FeedInvMeans == FeedInv => FollowerShowsTheTruth /\ CursorsAreDurable
<1> SUFFICES ASSUME FeedInv PROVE FollowerShowsTheTruth /\ CursorsAreDurable
  OBVIOUS
<1>1. /\ ledger \in Snapshot /\ EventsSound(ledger) /\ ledger.seq \in Nat
      /\ \A f \in Followers : /\ feed[f] \in Follower /\ Fits(feed[f], ledger, created)
                              /\ Faithful(feed[f], ledger) /\ Faithful(feed[f], disk)
  BY InvFacts
<1>2. ASSUME NEW f \in Followers, feed[f].on, feed[f].chan = <<>>, NEW r \in DOMAIN ledger.runs
      PROVE  IF r \in DOMAIN feed[f].shows THEN feed[f].shows[r] = ledger.runs[r] ELSE ledger.runs[r] = "queued"
  <2>1. Len(feed[f].chan) = 0
    BY <1>2
  <2>2. EpochAt(feed[f], 0) = ledger.epoch /\ SeqAt(feed[f], 0) = ledger.seq
    BY <1>1, <1>2, <2>1 DEF Fits, Level
  <2>3. Unheard(ledger, ledger.seq, r)
    <3>1. \A j \in 1..Len(ledger.events) : ~(ledger.events[j].n > ledger.seq)
      BY <1>1, SnapshotFacts DEF EventsSound
    <3> QED
      BY <3>1 DEF Unheard
  <2>4. ledger.seq >= ledger.seq - Len(ledger.events)
    BY <1>1, SnapshotFacts
  <2>5. 0 \in 0..0
    OBVIOUS
  <2>6. Says(feed[f], 0, r, ledger.runs[r])
    BY <1>1, <2>1, <2>2, <2>3, <2>4, <2>5 DEF Faithful
  <2>7. \A j \in 1..0 : FALSE
    OBVIOUS
  <2>8. Holds(feed[f].shows, r, ledger.runs[r])
    BY <2>6, <2>7 DEF Says
  <2> QED
    BY <2>8 DEF Holds
<1>3. ASSUME NEW f \in Followers, feed[f].epoch = disk.epoch PROVE feed[f].seq <= disk.seq
  <2>1. 0 \in 0..Len(feed[f].chan)
    BY <1>1, SentFacts
  <2>2. EpochAt(feed[f], 0) = feed[f].epoch /\ SeqAt(feed[f], 0) = feed[f].seq
    BY DEF EpochAt, SeqAt
  <2> QED
    BY <1>1, <1>3, <2>1, <2>2 DEF Faithful
<1> QED
  BY <1>2, <1>3 DEF FollowerShowsTheTruth, CursorsAreDurable

\* For any runs and followers, and any capacities: a follower that has received everything sent
\* to it shows the stored state of every run it knows, through replays, trimmed events, cut-offs,
\* new epochs, failed writes and restarts (store.go, Subscribe, commit and publish).
THEOREM FeedAlwaysTrue == FeedSpec => []FollowerShowsTheTruth
<1>1. FeedInv => FollowerShowsTheTruth
  BY FeedInvMeans
<1> QED
  BY <1>1, FeedInvInit, FeedInvNext, PTL DEF FeedSpec

\* No follower holds a cursor that a restart can take back, so none is refused as one from the
\* future: a commit publishes only what is on disk.
THEOREM CursorsAlwaysDurable == FeedSpec => []CursorsAreDurable
<1>1. FeedInv => CursorsAreDurable
  BY FeedInvMeans
<1> QED
  BY <1>1, FeedInvInit, FeedInvNext, PTL DEF FeedSpec
=============================================================================
