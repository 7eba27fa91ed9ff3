----------------------------- MODULE RunImages -----------------------------
(***************************************************************************)
(* The image files of one key's runs (internal/run/images.go, cleanup.go,  *)
(* stored.go): each file is named after its run, state.json says which are *)
(* held, and the two are written one after the other with no transaction.  *)
(* Every operation works under the store's lock, so its steps (todo) are   *)
(* not interleaved with another operation's, but the host can die between  *)
(* any two of them, an unlink can fail, and a write of state.json can fail *)
(* with the old or the new contents on disk.                               *)
(***************************************************************************)
EXTENDS Naturals, FiniteSets, Sequences

CONSTANTS
    Rids,         \* run ids; one that has left no trace stands for a fresh one
    Strays,       \* files in the directory that no record ever named
    ImageBudget,  \* images a key may hold, each of one unit (256 MiB)
    MaxPuts       \* bound on the images ever stored

ASSUME ImagesAssumption == MaxPuts \in Nat /\ ImageBudget \in Nat \ {0} /\ Rids \cap Strays = {}

VARIABLES
    catalog,  \* the snapshot in memory: runs with their image, and cleanup intents
    saved,    \* the snapshot in state.json
    files,    \* names in the images directory
    pend,     \* imageCleanup: unlinks to retry
    down,     \* the key is broken until a restart
    todo,     \* steps left of the operation that holds the lock
    working,  \* runs whose worker has not settled
    puts,     \* images stored so far, which orders them by age
    horizon,  \* every image stored up to here has expired
    unsure    \* runs whose record a failed commit may have left on disk

imageVars == <<catalog, saved, files, pend, down, todo, working, puts, horizon, unsure>>

Row(state, image, born) == [state |-> state, image |-> image, born |-> born]
Over(v) == {r \in DOMAIN v.runs : v.runs[r].state = "over"}
Held(v) == {r \in DOMAIN v.runs : v.runs[r].image = "held"}
Expired(v) == {r \in Held(v) : v.runs[r].born <= horizon}
WithGone(v, S) == [v EXCEPT !.runs = [r \in DOMAIN @ |-> IF r \in S THEN [@[r] EXCEPT !.image = "gone"] ELSE @[r]]]
Without(v, S) == [v EXCEPT !.runs = [r \in DOMAIN @ \ S |-> @[r]]]

ImagesInit ==
    /\ catalog = [runs |-> <<>>, cleanup |-> {}]
    /\ saved = catalog
    /\ files = Strays
    /\ pend = {} /\ working = {} /\ unsure = {}
    /\ down = FALSE
    /\ todo = <<>>
    /\ puts = 0 /\ horizon = 0

Idle == ~down /\ todo = <<>>

\* commit: on disk and in memory, or the key is broken and the operation ends with onFail.
Save(v, rest, onFail) ==
    \/ /\ catalog' = v /\ saved' = v
       /\ todo' = rest
       /\ UNCHANGED <<down, unsure>>
    \/ /\ down' = TRUE
       /\ todo' = onFail
       /\ \/ UNCHANGED <<saved, unsure>>
          \/ saved' = v /\ unsure' = unsure \cup (Held(v) \ Held(catalog))
       /\ UNCHANGED catalog

\* unlinkImage for each of S: the ones that fail are remembered for a retry.
Unlinked(S, stuck) ==
    /\ stuck \subseteq S \cap files
    /\ files' = files \ (S \ stuck)
    /\ pend' = (pend \ S) \cup stuck

SweepSteps == << [do |-> "drain"], [do |-> "retry"], [do |-> "expire"], [do |-> "scan"] >>

----------------------------------------------------------------------------
(* The operations that take the lock. *)

Create(r) ==
    /\ Idle
    /\ r \notin DOMAIN catalog.runs \cup catalog.cleanup \cup DOMAIN saved.runs \cup saved.cleanup
    /\ r \notin files \cup pend \cup working \cup unsure
    /\ Save([catalog EXCEPT !.runs = [x \in DOMAIN @ \cup {r} |-> IF x = r THEN Row("live", "none", 0) ELSE @[x]]], <<>>, <<>>)
    /\ working' = working \cup {r}
    /\ UNCHANGED <<files, pend, puts, horizon>>

\* Mutant: the worker's result replaces the stored output.
FinishImageOverwrites(r) ==
    /\ Idle /\ r \in DOMAIN catalog.runs /\ catalog.runs[r].state = "live"
    /\ Save([catalog EXCEPT !.runs[r].state = "over", !.runs[r].image = IF @ = "none" THEN "none" ELSE "held"], <<>>, <<>>)
    /\ UNCHANGED <<files, pend, working, puts, horizon>>

\* finish: the terminal record keeps the image that was stored, discarded or not.
FinishImage(r) ==
    /\ Idle /\ r \in DOMAIN catalog.runs /\ catalog.runs[r].state = "live"
    /\ Save([catalog EXCEPT !.runs[r].state = "over"], <<>>, <<>>)
    /\ UNCHANGED <<files, pend, working, puts, horizon>>

SettleImage(r) ==
    /\ r \in working /\ (r \in DOMAIN catalog.runs => catalog.runs[r].state = "over")
    /\ working' = working \ {r}
    /\ UNCHANGED <<catalog, saved, files, pend, down, todo, puts, horizon, unsure>>

\* PutImage sweeps first, then writes the file, then the record.
PutImage(r) ==
    /\ Idle /\ r \in working /\ puts < MaxPuts
    /\ todo' = SweepSteps \o << [do |-> "write", run |-> r] >>
    /\ UNCHANGED <<catalog, saved, files, pend, down, working, puts, horizon, unsure>>

DiscardImage(r) ==
    /\ Idle /\ r \in Held(catalog)
    /\ Save(WithGone(catalog, {r}), << [do |-> "unlink", set |-> {r}] >>, <<>>)
    /\ UNCHANGED <<files, pend, working, puts, horizon>>

\* Sweep: expired terminal runs leave the ledger and become cleanup intents in one commit.
Sweep(gone) ==
    /\ Idle
    /\ gone \subseteq {r \in Over(catalog) : r \in Held(catalog) => r \in Expired(catalog)}
    /\ IF gone = {} THEN todo' = SweepSteps /\ UNCHANGED <<catalog, saved, down, unsure>>
       ELSE Save([Without(catalog, gone) EXCEPT !.cleanup = @ \cup gone], SweepSteps, <<>>)
    /\ UNCHANGED <<files, pend, working, puts, horizon>>

\* ClearTerminal: the same for every settled run, and pending unlinks of gone runs become
\* durable intents too; the directory is swept only when no run is left.
ClearTerminal ==
    LET cleared == Over(catalog) \ working
        retried == {p \in pend : p \in DOMAIN catalog.runs => p \in cleared}
        intents == catalog.cleanup \cup cleared \cup retried
        v == [Without(catalog, cleared) EXCEPT !.cleanup = intents]
        rest == IF DOMAIN v.runs = {} THEN SweepSteps ELSE <<>>
    IN  /\ Idle
        /\ IF intents = {} THEN todo' = rest /\ UNCHANGED <<catalog, saved, down, unsure, pend>>
           ELSE /\ Save(v, << [do |-> "drain"] >> \o rest, <<>>)
                /\ pend' = IF down' THEN pend ELSE pend \cup intents
        /\ UNCHANGED <<files, working, puts, horizon>>

----------------------------------------------------------------------------
(* Their steps. *)

Step(what) == todo # <<>> /\ Head(todo).do = what
Rest == Tail(todo)

\* drainCleanup unlinks first and forgets the intents it could carry out in a second step.
Drain ==
    /\ Step("drain")
    /\ \E stuck \in SUBSET files :
         /\ Unlinked(catalog.cleanup, stuck)
         /\ todo' = IF stuck = catalog.cleanup THEN Rest ELSE << [do |-> "forget", set |-> stuck] >> \o Rest
    /\ UNCHANGED <<catalog, saved, down, working, puts, horizon, unsure>>

Forget ==
    /\ Step("forget")
    /\ Save([catalog EXCEPT !.cleanup = Head(todo).set], Rest, <<>>)
    /\ UNCHANGED <<files, pend, working, puts, horizon>>

Retry ==
    /\ Step("retry")
    /\ \E stuck \in SUBSET files : Unlinked(pend, stuck)
    /\ todo' = Rest
    /\ UNCHANGED <<catalog, saved, down, working, puts, horizon, unsure>>

\* A ledger without runs ends the sweep here: its unknown files are only reported.
Expire ==
    LET v == WithGone(catalog, Expired(catalog))
    IN  /\ Step("expire")
        /\ IF DOMAIN catalog.runs = {} \/ v = catalog
           THEN /\ todo' = IF DOMAIN catalog.runs = {} THEN Tail(Rest) ELSE Rest
                /\ UNCHANGED <<catalog, saved, down, unsure>>
           ELSE Save(v, Rest, <<>>)
        /\ UNCHANGED <<files, pend, working, puts, horizon>>

Scan ==
    /\ Step("scan")
    /\ \E stuck \in SUBSET files : Unlinked(files \ Held(catalog), stuck)
    /\ todo' = Rest
    /\ UNCHANGED <<catalog, saved, down, working, puts, horizon, unsure>>

\* The file, unless the run has ended or a file is in the way; a failing write may leave it.
WriteArtifact ==
    LET r == Head(todo).run
    IN  /\ Step("write")
        /\ IF r \in DOMAIN catalog.runs /\ catalog.runs[r] = Row("live", "none", 0) /\ r \notin files
           THEN \/ files' = files \cup {r} /\ todo' = << [do |-> "record", run |-> r] >>
                \/ files' \in {files, files \cup {r}} /\ todo' = <<>>
           ELSE todo' = <<>> /\ UNCHANGED files
        /\ UNCHANGED <<catalog, saved, pend, down, working, puts, horizon, unsure>>

\* The oldest images that no longer fit beside the new one.
Evicted == {r \in Held(catalog) :
              Cardinality({x \in Held(catalog) : catalog.runs[x].born >= catalog.runs[r].born}) + 1 > ImageBudget}

\* The record, with the evictions it makes necessary; files are unlinked only after it.
Record ==
    LET r == Head(todo).run
    IN  /\ Step("record")
        /\ puts' = puts + 1
        /\ Save([WithGone(catalog, Evicted) EXCEPT !.runs[r].image = "held", !.runs[r].born = puts + 1],
                IF Evicted = {} THEN <<>> ELSE << [do |-> "unlink", set |-> Evicted] >>,
                << [do |-> "unlink", set |-> {r}] >>)
        /\ UNCHANGED <<files, pend, working, horizon>>

Unlink ==
    /\ Step("unlink")
    /\ \E stuck \in SUBSET files : Unlinked(Head(todo).set, stuck)
    /\ todo' = Rest
    /\ UNCHANGED <<catalog, saved, down, working, puts, horizon, unsure>>

----------------------------------------------------------------------------
(* Time and restarts. *)

ImagesAge ==
    /\ horizon < puts
    /\ horizon' = horizon + 1
    /\ UNCHANGED <<catalog, saved, files, pend, down, todo, working, puts, unsure>>

\* The host dies at any step.  load refuses a ledger whose intents name a run; recoverKey
\* fails what was live, one commit at a time, and leaves the key broken when one fails.
Crash ==
    LET live == DOMAIN saved.runs \ Over(saved)
        Ended(S) == [saved EXCEPT !.runs = [r \in DOMAIN @ |-> IF r \in S THEN [@[r] EXCEPT !.state = "over"] ELSE @[r]]]
    IN  /\ \E S \in SUBSET live :
             /\ saved' = Ended(S) /\ catalog' = Ended(S)
             /\ down' = (S # live \/ saved.cleanup \cap DOMAIN saved.runs # {})
        /\ todo' = <<>> /\ working' = {}
        /\ pend' = saved.cleanup
        /\ UNCHANGED <<files, puts, horizon, unsure>>

ImagesNext ==
    \/ \E r \in Rids : Create(r) \/ FinishImage(r) \/ SettleImage(r) \/ PutImage(r) \/ DiscardImage(r)
    \/ \E gone \in SUBSET Rids : Sweep(gone)
    \/ ClearTerminal \/ Drain \/ Forget \/ Retry \/ Expire \/ Scan
    \/ WriteArtifact \/ Record \/ Unlink \/ ImagesAge \/ Crash

ImagesSpec == ImagesInit /\ [][ImagesNext]_imageVars

----------------------------------------------------------------------------
(* Properties. *)

\* No image is lost track of: whatever the host dies between, state.json names the run of
\* every file, or holds the intent to delete it, so a later sweep can reach it.
ImageTraceable == files \ Strays \subseteq DOMAIN saved.runs \cup saved.cleanup

\* A run recorded as holding an image has its file, in memory and after a restart; only a
\* commit that failed after replacing state.json can leave a record without one.
HeldImageExists == Held(catalog) \cup Held(saved) \subseteq files \cup unsure

\* Files and records account for each other, whatever the host dies between.
ImagesAccounted == ImageTraceable /\ HeldImageExists
=============================================================================
