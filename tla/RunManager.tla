----------------------------- MODULE RunManager -----------------------------
(***************************************************************************)
(* internal/run/manager.go, join.go and consumer.go: runs of the three     *)
(* kinds the host registers, from submission to a terminal state.  A       *)
(* worker drives each run it is started for; a joiner bounds how long a    *)
(* cancelled worker is waited for; a stop hook ends the runtime of one     *)
(* that does not come back.  Every action is one critical section of the   *)
(* manager's or the store's mutex.  A kill loses everything but the        *)
(* stored rows.                                                            *)
(***************************************************************************)
EXTENDS Integers, Sequences, FiniteSets

CONSTANTS Runs,          \* runs, each submitted at most once
          Planted,       \* those of the lower priority
          Mixes,         \* which kinds the runs may be of
          Asks,          \* agents that ask for approvals
          MaxLive,       \* MaxLiveKey
          StorageTight   \* whether the store may run out of room

\* SetRuns and StartAdapter: the registered kinds and their policies.  Images
\* are pulled one step at a time; chats and agents are consumers.
Kinds == {"chat", "image", "agent"}
Serial == {"image", "agent"}
JoinCancel == {"chat", "agent"}
InProcess == {"chat"}
DeferredCancel == {"image"}

ASSUME RunAssumption == /\ Planted \subseteq Runs
                        /\ Asks \subseteq Runs
                        /\ Mixes \subseteq [Runs -> Kinds \cup {"unregistered"}]
                        /\ MaxLive \in Nat
                        /\ StorageTight \in BOOLEAN

VARIABLES
    kind,         \* the kind of each run, chosen once
    order,        \* submitted runs in the order of Created
    state,        \* Run.State, "none" before the submission
    cancelled,    \* runs with CancelRequested
    tried,        \* images with an attempt on record
    approval,     \* Retained.Approval.Status of each run
    active,       \* Manager.active
    blocked,      \* Manager.blocked
    quarantined,  \* Manager.quarantined
    releases,     \* Manager.releases: reservations not given back
    line,         \* Manager.positions of each kind, as a sequence
    closed,       \* Manager.ctx is done
    worker,       \* where the goroutine of start is
    verdict,      \* what it is about to pass to finish, or the step's result
    stopped,      \* runs whose execution's context is cancelled
    lease,        \* Store.reserved of each run
    wake,         \* runs with a signal in execution.answer
    joiner,       \* where the goroutine of boundJoin is
    expired,      \* execution.expired
    stopper,      \* where the goroutine calling ForceStop is
    abandoned     \* execution.stopAbandoned

rows == <<order, state, cancelled, tried, approval>>
control == <<active, blocked, quarantined, releases, line, closed>>
work == <<worker, verdict, stopped, lease, wake>>
joins == <<joiner, expired, stopper, abandoned>>
runVars == <<kind, rows, control, work, joins>>

Terminal == {"done", "failed", "cancelled"}
Live == {"queued", "running", "waiting"}
WorkerPlaces == {"none", "top", "consume", "begin", "execute", "acquired", "dispatched",
           "settle", "asking", "approving", "seen", "listening", "finish", "exit", "gone"}

RunInit == /\ kind \in Mixes
           /\ order = <<>>
           /\ state = [r \in Runs |-> "none"]
           /\ cancelled = {}
           /\ tried = {}
           /\ approval = [r \in Runs |-> "none"]
           /\ active = {}
           /\ blocked = [k \in Kinds |-> 0]
           /\ quarantined = {}
           /\ releases = {}
           /\ line = [k \in Kinds |-> <<>>]
           /\ closed = FALSE
           /\ worker = [r \in Runs |-> "none"]
           /\ verdict = [r \in Runs |-> "none"]
           /\ stopped = {}
           /\ lease = [r \in Runs |-> "none"]
           /\ wake = {}
           /\ joiner = [r \in Runs |-> "none"]
           /\ expired = {}
           /\ stopper = [r \in Runs |-> "none"]
           /\ abandoned = {}

-----------------------------------------------------------------------------
(* Store.change, as far as the manager sees it. *)

\* The states a change of r to st may leave in the file: a change of the
\* lifecycle that finds no room is committed as Failed ("storage exhausted").
Committed(r, st, cancels) ==
    {st} \cup (IF StorageTight /\ (st # state[r] \/ (cancels /\ r \notin cancelled))
               THEN {"failed"} ELSE {})

\* commit drops the lease of a terminal run unless its owner is late.
Leases(l, st) == [r \in Runs |-> IF st[r] \in Terminal /\ l[r] = "held" THEN "none" ELSE l[r]]

Writes(r, st) == /\ state' = [state EXCEPT ![r] = st]
                 /\ lease' = Leases(lease, state')

-----------------------------------------------------------------------------
(* The line of a serial kind. *)

\* The numbers of the finite set I in order, and the entries of s at those places.
Rising(I) == CHOOSE f \in [1..Cardinality(I) -> I] : \A i, j \in 1..Cardinality(I) : i < j => f[i] < f[j]
Entries(s, I) == [n \in 1..Cardinality(I) |-> s[Rising(I)[n]]]

\* queued: the interactive ones first, each in the order of submission; ord
\* and st are the rows it is read from.
Queued(k, ord, st) ==
    LET waits == {i \in 1..Len(ord) : kind[ord[i]] = k /\ st[ord[i]] = "queued"}
        planted == {i \in waits : ord[i] \in Planted}
    IN  Entries(ord, waits \ planted) \o Entries(ord, planted)

Available(k) == k \notin quarantined /\ blocked[k] = 0

\* start: the runs of S get a worker; act and at are active and worker before.
Starts(S, act, at) == /\ active' = act \cup S
                      /\ worker' = [r \in Runs |-> IF r \in S THEN "top" ELSE at[r]]

\* schedule, at the end of an action that has changed everything else.
Schedule(k, act, at) ==
    LET q == Queued(k, order', state')
        open == ~closed' /\ k \notin quarantined' /\ blocked'[k] = 0
        idle == \A a \in act : kind[a] # k
    IN  /\ line' = IF open THEN [line EXCEPT ![k] = q] ELSE line
        /\ Starts(IF open /\ idle /\ q # <<>> THEN {Head(q)} ELSE {}, act, at)

ScheduleIfSerial(k, act, at) ==
    IF k \in Serial THEN Schedule(k, act, at)
    ELSE Starts({}, act, at) /\ UNCHANGED line

\* Mutant: nobody bounds the join.
UnboundJoin(S) == UNCHANGED joiner
\* boundJoin, once per execution.
BoundJoin(S) == joiner' = [r \in Runs |-> IF r \in S /\ joiner[r] = "none"
                                          THEN "waiting" ELSE joiner[r]]

\* stopTerminal: the owner is told; a run without one gives back its
\* reservation.
StopTerminal(r) ==
    IF r \in active
    THEN /\ stopped' = stopped \cup {r}
         /\ BoundJoin(IF kind[r] \in JoinCancel THEN {r} ELSE {})
         /\ UNCHANGED releases
    ELSE /\ releases' = releases \ {r}
         /\ UNCHANGED <<stopped, joiner>>

-----------------------------------------------------------------------------
(* Submission.  Admission and validation run between two critical sections *)
(* that check the same things; what they refuse leaves no trace.           *)

LiveRuns == {r \in Runs : state[r] \in Live}

\* SubmitBatch of images, Submit of anything else.
Submit(batch) ==
    /\ batch # <<>>
    /\ \A i, j \in 1..Len(batch) : batch[i] = batch[j] => i = j
    /\ \A i \in 1..Len(batch) : /\ state[batch[i]] = "none"
                                /\ kind[batch[i]] = kind[batch[1]]
    /\ Len(batch) > 1 => kind[batch[1]] = "image"
    /\ kind[batch[1]] \in Kinds
    /\ Available(kind[batch[1]]) /\ ~closed
    /\ Cardinality(LiveRuns) + Len(batch) <= MaxLive
    /\ LET k == kind[batch[1]]
           S == {batch[i] : i \in 1..Len(batch)}
       IN  /\ state' = [r \in Runs |-> IF r \in S THEN "queued" ELSE state[r]]
           /\ order' = order \o batch
           /\ releases' = IF k = "image" THEN releases \cup S ELSE releases
           /\ UNCHANGED <<blocked, quarantined, closed>>
           /\ IF k \in Serial THEN Schedule(k, active, worker)
              ELSE Starts(S, active, worker) /\ UNCHANGED line
    /\ UNCHANGED <<kind, cancelled, tried, approval, joins>>
    /\ UNCHANGED <<verdict, stopped, lease, wake>>

Batches == {<<r>> : r \in Runs} \cup (Runs \X Runs)

-----------------------------------------------------------------------------
(* drive and attempt: the worker of run r. *)

Moves(r, to) == worker' = [worker EXCEPT ![r] = to]
Says(r, v) == verdict' = [verdict EXCEPT ![r] = v]
Consumer(r) == kind[r] \in {"chat", "agent"}

\* The loop's head, and the kind's decision: an image takes one attempt and
\* then returns its output.
Drive(r) ==
    /\ worker[r] = "top"
    /\ \/ r \in stopped /\ Moves(r, "finish") /\ Says(r, "cancelled")
       \/ /\ r \notin stopped
          /\ \/ Consumer(r) /\ Moves(r, "consume") /\ UNCHANGED verdict
             \/ ~Consumer(r) /\ r \notin tried /\ Moves(r, "begin") /\ UNCHANGED verdict
             \/ ~Consumer(r) /\ r \in tried /\ Moves(r, "finish") /\ Says(r, "done")
             \/ ~Consumer(r) /\ Moves(r, "finish") /\ Says(r, "failed")
    /\ UNCHANGED <<kind, rows, control, joins, stopped, lease, wake>>

\* Store.Admit, for a step or an approval of a consumer.
Admittable(r) == state[r] \in Live /\ r \notin cancelled /\ lease[r] = "none"

ConsumerSteps(r) ==
    /\ worker[r] = "consume"
    /\ Admittable(r)
    /\ \/ r \notin stopped /\ Moves(r, "begin")
       \/ kind[r] = "agent" /\ r \in Asks /\ Moves(r, "asking")
    /\ lease' = [lease EXCEPT ![r] = "held"]
    /\ UNCHANGED <<kind, rows, control, joins, verdict, stopped, wake>>

\* The callback returns, an error or a panic included; Consumer lets go of
\* the last lease.
ConsumerReturns(r) ==
    /\ worker[r] = "consume"
    /\ lease' = [lease EXCEPT ![r] = "none"]
    /\ Moves(r, "finish")
    /\ \E v \in {"done", "failed"} : Says(r, v)
    /\ UNCHANGED <<kind, rows, control, joins, stopped, wake>>

\* Work.Abort.
ConsumerAborts(r) ==
    /\ kind[r] = "agent"
    /\ worker[r] \notin {"none", "top", "finish", "exit", "gone"}
    /\ r \in active
    /\ stopped' = stopped \cup {r}
    /\ BoundJoin({r})
    /\ UNCHANGED <<kind, rows, control, worker, verdict, lease, wake, expired, stopper, abandoned>>

\* releaseAfter: a lease outlives a step that ends under a done context.
LeaseAfter(l, r) == IF r \in stopped THEN l ELSE [l EXCEPT ![r] = "none"]

\* An attempt may start, and may take the slot, in these states only.
MayRun(r) == /\ state[r] = "queued" \/ (Consumer(r) /\ state[r] = "running")
             /\ r \notin cancelled

\* attempt's first change.  One that is refused ends an image.
BeginAttempt(r) ==
    /\ worker[r] = "begin"
    /\ \/ /\ MayRun(r)
          /\ \E st \in Committed(r, IF Consumer(r) THEN "running" ELSE "queued", FALSE) :
                /\ state' = [state EXCEPT ![r] = st]
                /\ tried' = IF Consumer(r) THEN tried ELSE tried \cup {r}
                /\ IF st = "failed"
                   THEN /\ Moves(r, "consume")
                        /\ lease' = LeaseAfter(Leases(lease, state'), r)
                        /\ StopTerminal(r)
                   ELSE /\ Moves(r, "execute")
                        /\ UNCHANGED <<lease, stopped, joiner, releases>>
          /\ UNCHANGED verdict
       \/ /\ ~MayRun(r)
          /\ IF Consumer(r) THEN Moves(r, "consume") /\ UNCHANGED verdict
             ELSE Moves(r, "finish") /\ Says(r, "failed")
          /\ lease' = LeaseAfter(lease, r)
          /\ UNCHANGED <<state, tried, stopped, joiner, releases>>
    /\ UNCHANGED <<kind, order, cancelled, approval, active, blocked, quarantined, line,
                   closed, wake, expired, stopper, abandoned>>

\* The executor has a slot: the callback commits Running, or refuses it.
TakeSlot(r) ==
    /\ worker[r] = "execute"
    /\ \/ /\ MayRun(r)
          /\ \E st \in Committed(r, "running", FALSE) :
                /\ Writes(r, st)
                /\ IF st = "running" THEN Moves(r, "acquired") /\ UNCHANGED verdict
                   ELSE Moves(r, "settle") /\ Says(r, "error")
       \/ ~MayRun(r) /\ Moves(r, "settle") /\ Says(r, "error") /\ UNCHANGED <<state, lease>>
    /\ UNCHANGED <<kind, order, cancelled, tried, approval, control, joins, stopped, wake>>

\* The executor fails without a slot: refused, timed out, or told to stop.
NoSlot(r) ==
    /\ worker[r] = "execute"
    /\ Moves(r, "settle")
    /\ Says(r, "error") \/ (r \in stopped /\ Says(r, "stopped"))
    /\ UNCHANGED <<kind, rows, control, joins, stopped, lease, wake>>

\* acquiredPosition.
LeavePosition(r) ==
    /\ worker[r] = "acquired"
    /\ line' = [line EXCEPT ![kind[r]] = Entries(@, {i \in 1..Len(@) : @[i] # r})]
    /\ Moves(r, "dispatched")
    /\ UNCHANGED <<kind, rows, active, blocked, quarantined, releases, closed, joins,
                   verdict, stopped, lease, wake>>

EngineAnswers(r) ==
    /\ worker[r] = "dispatched"
    /\ Moves(r, "settle")
    /\ \/ Says(r, "error")
       \/ r \in stopped /\ Says(r, "stopped")
       \/ (Consumer(r) \/ state[r] \in Live) /\ Says(r, "ok")
    /\ UNCHANGED <<kind, rows, control, joins, stopped, lease, wake>>

\* What attempt's last change makes of the run; an image that succeeded has
\* been stored, and stays running until its terminal snapshot.
SettledState(r) ==
    IF state[r] \in Terminal THEN state[r]
    ELSE IF Consumer(r) THEN "running"
    ELSE IF r \in cancelled THEN (IF verdict[r] = "ok" THEN "done" ELSE "cancelled")
    ELSE CASE verdict[r] = "stopped" -> "cancelled"
           [] verdict[r] = "error" -> "failed"
           [] verdict[r] = "ok" -> "running"

SettleAttempt(r) ==
    /\ worker[r] = "settle"
    /\ \E st \in Committed(r, SettledState(r), FALSE) :
          /\ state' = [state EXCEPT ![r] = st]
          /\ IF Consumer(r)
             THEN /\ Moves(r, "consume")
                  /\ lease' = LeaseAfter(Leases(lease, state'), r)
                  /\ Says(r, "none")
                  /\ UNCHANGED <<stopped, joiner, releases>>
             ELSE /\ IF verdict[r] # "ok" \/ st # SettledState(r)
                     THEN Moves(r, "finish") /\ Says(r, "failed")
                     ELSE /\ Moves(r, IF st \in Terminal THEN "exit" ELSE "top")
                          /\ Says(r, "none")
                  /\ UNCHANGED <<lease, stopped, joiner, releases>>
    /\ UNCHANGED <<kind, order, cancelled, tried, approval, active, blocked, quarantined,
                   line, closed, wake, expired, stopper, abandoned>>

-----------------------------------------------------------------------------
(* Approval and Answer. *)

\* Approval's change: the question is on record and the run waits.
AskApproval(r) ==
    /\ worker[r] = "asking"
    /\ \/ /\ state[r] \in Live /\ r \notin cancelled
          /\ approval[r] # "pending"
          /\ \E st \in Committed(r, "waiting", FALSE) :
                /\ state' = [state EXCEPT ![r] = st]
                /\ IF st = "waiting"
                   THEN /\ approval' = [approval EXCEPT ![r] = "pending"]
                        /\ Moves(r, "approving")
                        /\ UNCHANGED <<lease, stopped, joiner, releases>>
                   ELSE /\ Moves(r, "consume")
                        /\ lease' = LeaseAfter(Leases(lease, state'), r)
                        /\ StopTerminal(r)
                        /\ UNCHANGED approval
       \/ /\ state[r] \in Terminal \/ r \in cancelled \/ approval[r] = "pending"
          /\ Moves(r, "consume")
          /\ lease' = LeaseAfter(lease, r)
          /\ UNCHANGED <<state, approval, stopped, joiner, releases>>
    /\ UNCHANGED <<kind, order, cancelled, tried, active, blocked, quarantined, line, closed,
                   verdict, wake, expired, stopper, abandoned>>

\* One turn of the wait: a look at the context and the record; the select is
\* reached later, and the answer may come between the two.
CheckApproval(r) ==
    /\ worker[r] = "approving"
    /\ IF r \in stopped \/ approval[r] = "answered"
       THEN Moves(r, "consume") /\ lease' = LeaseAfter(lease, r)
       ELSE Moves(r, "seen") /\ UNCHANGED lease
    /\ UNCHANGED <<kind, rows, control, joins, verdict, stopped, wake>>

AwaitAnswer(r) == /\ worker[r] = "seen"
                  /\ Moves(r, "listening")
                  /\ UNCHANGED <<kind, rows, control, joins, verdict, stopped, lease, wake>>

HearAnswer(r) ==
    /\ worker[r] = "listening"
    /\ \/ /\ r \in stopped
          /\ Moves(r, "consume")
          /\ lease' = LeaseAfter(lease, r)
          /\ UNCHANGED wake
       \/ /\ r \in wake
          /\ wake' = wake \ {r}
          /\ Moves(r, "approving")
          /\ UNCHANGED lease
    /\ UNCHANGED <<kind, rows, control, joins, verdict, stopped>>

\* A signal into a channel that holds one.
Signalled(r) == wake \cup {r}

Answer(r) ==
    /\ state[r] # "none"
    /\ \/ /\ state[r] \in Terminal
          /\ StopTerminal(r)
          /\ UNCHANGED <<state, approval, lease, wake>>
       \/ /\ state[r] = "waiting" /\ r \in active /\ r \notin cancelled
          /\ approval[r] = "pending"
          /\ \E st \in Committed(r, "running", FALSE) :
                /\ Writes(r, st)
                /\ IF st = "running"
                   THEN /\ wake' = Signalled(r)
                        /\ approval' = [approval EXCEPT ![r] = "answered"]
                        /\ UNCHANGED <<stopped, joiner, releases>>
                   ELSE StopTerminal(r) /\ UNCHANGED <<wake, approval>>
    /\ UNCHANGED <<kind, order, cancelled, tried, active, blocked, quarantined, line, closed,
                   worker, verdict, expired, stopper, abandoned>>

-----------------------------------------------------------------------------
(* finish, and the worker's exit. *)

FinalState(r, v) ==
    IF r \in active \cap expired THEN "cancelled"
    ELSE IF r \in cancelled /\ ~(kind[r] \in DeferredCancel /\ v = "done") THEN "cancelled"
    ELSE v

\* Mutant: a start that failed does not end the run.
LenientFinishAs(r, v) ==
    IF state[r] \in Terminal \/ v = "failed"
    THEN UNCHANGED <<state, lease, stopped, joiner, releases>>
    ELSE \E st \in Committed(r, FinalState(r, v), FALSE) :
            /\ Writes(r, st)
            /\ UNCHANGED <<stopped, joiner, releases>>

\* finish with v: a run that is terminal stays what it is.
FinishAs(r, v) ==
    IF state[r] \in Terminal
    THEN UNCHANGED <<state, lease, stopped, joiner, releases>>
    ELSE \E st \in Committed(r, FinalState(r, v), FALSE) :
            /\ Writes(r, st)
            /\ IF st # FinalState(r, v) THEN StopTerminal(r)
               ELSE UNCHANGED <<stopped, joiner, releases>>

Finish(r) == /\ worker[r] = "finish"
             /\ FinishAs(r, verdict[r])
             /\ Moves(r, "exit")
             /\ Says(r, "none")
             /\ UNCHANGED <<kind, order, cancelled, tried, approval, active, blocked,
                            quarantined, line, closed, wake, expired, stopper, abandoned>>

\* start's deferred function: a worker whose join expired owns nothing.  Its
\* channel goes with it.
Exit(r) ==
    /\ worker[r] = "exit"
    /\ IF r \in active \ expired
       THEN /\ releases' = releases \ {r}
            /\ UNCHANGED <<order, state, blocked, quarantined, closed>>
            /\ ScheduleIfSerial(kind[r], active \ {r}, [worker EXCEPT ![r] = "gone"])
       ELSE Moves(r, "gone") /\ UNCHANGED <<order, state, control>>
    /\ wake' = wake \ {r}
    /\ UNCHANGED <<kind, cancelled, tried, approval, verdict, stopped, lease, joins>>

-----------------------------------------------------------------------------
(* Cancel, by a friend, by a parent run or by Sweep. *)

\* A run nobody works on, or an image that has no slot yet, ends here; any
\* other is asked to.
CancelTarget(r) ==
    IF r \notin active \/ (state[r] # "running" /\ kind[r] \notin JoinCancel)
    THEN "cancelled" ELSE state[r]

CancelTerminal(r) ==
    /\ state[r] \in Terminal
    /\ StopTerminal(r)
    /\ UNCHANGED <<kind, rows, active, blocked, quarantined, line, closed, worker, verdict,
                   lease, wake, expired, stopper, abandoned>>

Cancel(r) ==
    /\ state[r] \in Live
    /\ cancelled' = cancelled \cup {r}
    /\ \E st \in Committed(r, CancelTarget(r), TRUE) :
          /\ Writes(r, st)
          /\ IF st \in Terminal THEN StopTerminal(r)
             ELSE IF st = "running" /\ kind[r] \in DeferredCancel
             THEN UNCHANGED <<stopped, joiner, releases>>
             ELSE /\ stopped' = stopped \cup {r}
                  /\ BoundJoin(IF kind[r] \in JoinCancel THEN {r} ELSE {})
                  /\ UNCHANGED releases
    /\ UNCHANGED <<order, blocked, quarantined, closed>>
    /\ ScheduleIfSerial(kind[r], active, worker)
    /\ UNCHANGED <<kind, tried, approval, verdict, wake, expired, stopper, abandoned>>

-----------------------------------------------------------------------------
(* boundJoin's goroutine, and the one that calls the stop hook. *)

JoinerSeesDone(r) == /\ joiner[r] = "waiting"
                     /\ worker[r] = "gone"
                     /\ joiner' = [joiner EXCEPT ![r] = "over"]
                     /\ UNCHANGED <<kind, rows, control, work, expired, stopper, abandoned>>

\* The join bound passes.  A late chat keeps its lease; an agent's runtime is
\* to be stopped, and its kind blocked until it is.
JoinerTimesOut(r) ==
    /\ joiner[r] = "waiting"
    /\ stopped' = stopped \cup {r}
    /\ IF r \notin active
       THEN /\ joiner' = [joiner EXCEPT ![r] = "over"]
            /\ UNCHANGED <<lease, expired, blocked, stopper>>
       ELSE IF kind[r] \in InProcess
       THEN /\ lease' = [lease EXCEPT ![r] = IF @ = "held" THEN "late" ELSE @]
            /\ joiner' = [joiner EXCEPT ![r] = "late"]
            /\ UNCHANGED <<expired, blocked, stopper>>
       ELSE /\ expired' = expired \cup {r}
            /\ blocked' = [blocked EXCEPT ![kind[r]] = @ + 1]
            /\ stopper' = [stopper EXCEPT ![r] = "calling"]
            /\ joiner' = [joiner EXCEPT ![r] = "stopping"]
            /\ UNCHANGED lease
    /\ UNCHANGED <<kind, rows, active, quarantined, releases, line, closed, worker, verdict,
                   wake, abandoned>>

\* Then the row is cancelled: at once for a chat, and for an agent when the
\* hook returned or its own bound passed.
JoinerFinishes(r) ==
    /\ joiner[r] \in {"late", "stopping"}
    /\ IF state[r] \in Terminal THEN UNCHANGED <<state, lease>>
       ELSE \E st \in Committed(r, "cancelled", FALSE) : Writes(r, st)
    /\ joiner' = [joiner EXCEPT ![r] = IF @ = "late" THEN "over" ELSE "ending"]
    /\ UNCHANGED <<kind, order, cancelled, tried, approval, control, worker, verdict,
                   stopped, wake, expired, stopper, abandoned>>

\* Mutant: the kind is usable again, but nobody looks at its line.
ForgetfulRecovers(k, act) == /\ quarantined' = quarantined \ {k}
                             /\ UNCHANGED <<state, releases, line>>
                             /\ Starts({}, act, worker)
\* recoveredKind.
Recovers(k, act) == /\ quarantined' = quarantined \ {k}
                    /\ UNCHANGED <<state, releases>>
                    /\ ScheduleIfSerial(k, act, worker)

\* quarantine: the accepted work of the kind that nobody drives fails.
Quarantines(k, act) ==
    LET S == IF closed THEN {}
             ELSE {s \in Runs : kind[s] = k /\ state[s] \in {"queued", "waiting"} /\ s \notin act}
    IN  /\ quarantined' = IF closed THEN quarantined ELSE quarantined \cup {k}
        /\ state' = [s \in Runs |-> IF s \in S THEN "failed" ELSE state[s]]
        /\ releases' = releases \ S
        /\ UNCHANGED line
        /\ Starts({}, act, worker)

\* The agent's run is let go; a hook that has still not returned is abandoned.
JoinerEnds(r) ==
    /\ joiner[r] = "ending"
    /\ joiner' = [joiner EXCEPT ![r] = "over"]
    /\ blocked' = [blocked EXCEPT ![kind[r]] = @ - 1]
    /\ abandoned' = IF stopper[r] = "calling" THEN abandoned \cup {r} ELSE abandoned
    /\ UNCHANGED <<order, closed>>
    /\ IF stopper[r] = "ok" THEN Recovers(kind[r], active \ {r})
       ELSE Quarantines(kind[r], active \ {r})
    /\ UNCHANGED <<kind, cancelled, tried, approval, verdict, stopped, lease, wake,
                   expired, stopper>>

\* ForceStop returns: the joiner is told, or, abandoned, recovers the kind.
\* Images have no hook, which never fails.
StopReturns(r, result) ==
    /\ stopper[r] = "calling"
    /\ result = "failed" => kind[r] = "agent"
    /\ stopper' = [stopper EXCEPT ![r] = result]
    /\ UNCHANGED <<order, blocked, closed>>
    /\ IF r \in abandoned /\ result = "ok" THEN Recovers(kind[r], active)
       ELSE UNCHANGED <<state, quarantined, releases, line, active, worker>>
    /\ UNCHANGED <<kind, cancelled, tried, approval, verdict, stopped, lease, wake,
                   joiner, expired, abandoned>>

-----------------------------------------------------------------------------
(* The life of the process. *)

Close == /\ ~closed
         /\ closed' = TRUE
         /\ stopped' = stopped \cup active
         /\ releases' = {}
         /\ BoundJoin(active)
         /\ UNCHANGED <<kind, rows, active, blocked, quarantined, line, worker, verdict,
                        lease, wake, expired, stopper, abandoned>>

\* A new process: New's recovery fails every live row, and nothing else is
\* left of the old one.
Restart ==
    /\ state' = [r \in Runs |-> IF state[r] \in Live THEN "failed" ELSE state[r]]
    /\ active' = {}
    /\ blocked' = [k \in Kinds |-> 0]
    /\ quarantined' = {}
    /\ releases' = {}
    /\ line' = [k \in Kinds |-> <<>>]
    /\ closed' = FALSE
    /\ worker' = [r \in Runs |-> IF worker[r] = "none" THEN "none" ELSE "gone"]
    /\ stopped' = {}
    /\ lease' = [r \in Runs |-> "none"]
    /\ wake' = {}
    /\ joiner' = [r \in Runs |-> "none"]
    /\ expired' = {}
    /\ stopper' = [r \in Runs |-> "none"]
    /\ abandoned' = {}
    /\ verdict' = [r \in Runs |-> "none"]
    /\ UNCHANGED <<kind, order, cancelled, tried, approval>>

Drives(r) == \/ Drive(r) \/ BeginAttempt(r) \/ TakeSlot(r) \/ NoSlot(r) \/ LeavePosition(r)
             \/ EngineAnswers(r) \/ SettleAttempt(r) \/ AskApproval(r) \/ CheckApproval(r)
             \/ AwaitAnswer(r) \/ HearAnswer(r) \/ Finish(r) \/ Exit(r)
Consumes(r) == ConsumerSteps(r) \/ ConsumerReturns(r) \/ ConsumerAborts(r)
Joins(r) == \/ JoinerSeesDone(r) \/ JoinerTimesOut(r) \/ JoinerFinishes(r) \/ JoinerEnds(r)

RunNext == \/ \E batch \in Batches : Submit(batch)
           \/ \E r \in Runs : \/ Drives(r) \/ Consumes(r) \/ Joins(r)
                              \/ Cancel(r) \/ CancelTerminal(r) \/ Answer(r)
                              \/ \E result \in {"ok", "failed"} : StopReturns(r, result)
           \/ Close \/ Restart

RunSafety == RunInit /\ [][RunNext]_runVars

(***************************************************************************)
(* Fairness: the worker's own steps go on, the engine's included, for each *)
(* has a deadline; the joiner has a timer.  A consumer may never come back *)
(* and a stop hook may never return.                                       *)
(***************************************************************************)
RunFairness == \A r \in Runs : WF_runVars(Drives(r)) /\ WF_runVars(Joins(r))
RunSpec == RunSafety /\ RunFairness

-----------------------------------------------------------------------------
(* Properties *)

RunTypeOK ==
    /\ kind \in Mixes
    /\ order \in Seq(Runs)
    /\ state \in [Runs -> {"none"} \cup Live \cup Terminal]
    /\ approval \in [Runs -> {"none", "pending", "answered"}]
    /\ cancelled \cup tried \cup active \cup releases \cup stopped \cup wake \cup expired
          \cup abandoned \subseteq Runs
    /\ blocked \in [Kinds -> Nat]
    /\ quarantined \subseteq Kinds
    /\ line \in [Kinds -> Seq(Runs)]
    /\ closed \in BOOLEAN
    /\ worker \in [Runs -> WorkerPlaces]
    /\ verdict \in [Runs -> {"none", "ok", "error", "stopped"} \cup Terminal]
    /\ lease \in [Runs -> {"none", "held", "late"}]
    /\ joiner \in [Runs -> {"none", "waiting", "late", "stopping", "ending", "over"}]
    /\ stopper \in [Runs -> {"none", "calling", "ok", "failed"}]

\* "Only a nil hook result permits the next queued run": a serial kind never
\* has two owners, and while a run of it is driven, the runtime of every run
\* that failed to join has been stopped for certain.
OneGeneration ==
    \A r \in active : kind[r] \in Serial =>
        \A s \in Runs \ {r} : kind[s] = kind[r] =>
            /\ s \notin active
            /\ s \in expired => stopper[s] = "ok"

\* No accepted run is forgotten: one that nobody drives waits behind a run of
\* its kind that is driven or being stopped, and one that is past its line is
\* driven until it is terminal.
LiveHasOwner ==
    \A r \in Runs : state[r] \in Live /\ r \notin active /\ ~closed =>
        /\ state[r] = "queued" /\ worker[r] = "none"
        /\ kind[r] \in Serial
        /\ blocked[kind[r]] > 0 \/ \E s \in active : kind[s] = kind[r]

\* An image's reservation is held as long as the image may still be made, and
\* not longer.
ReservationFollowsRun ==
    /\ \A r \in releases : state[r] \in Live \/ r \in active
    /\ ~closed => \A r \in Runs : kind[r] = "image" /\ state[r] \in Live => r \in releases

InStep(r) == worker[r] \in {"begin", "execute", "acquired", "dispatched", "settle",
                           "asking", "approving", "seen", "listening"}
\* A chat that is late to join keeps the room it reserved for its settlement,
\* although its friend has been told it is cancelled; and no lease is left
\* behind by a worker that has returned.
LeaseFollowsOwner ==
    \A r \in Runs :
        /\ kind[r] = "chat" /\ InStep(r) /\ state[r] = "cancelled" => lease[r] = "late"
        /\ worker[r] \in {"none", "top", "finish", "exit", "gone"} => lease[r] = "none"

\* A place in the line of images belongs to an image that still waits, or
\* that its worker is about to take out.
NoGhostInLine ==
    ~closed => \A i \in 1..Len(line["image"]) :
        LET r == line["image"][i] IN state[r] = "queued" \/ r \in active

\* A terminal state is final: no late worker, answer, quarantine, cancel or
\* restart replaces it.
TerminalIsFinal ==
    [][\A r \in Runs : state[r] \in Terminal => state'[r] = state[r]]_runVars

\* A run is never replayed: whatever fails, no second worker is started for it.
NeverReplayed == [][\A r \in active' \ active : worker[r] = "none"]_runVars

\* Every cancel is answered, by a consumer that hangs and a stop hook that
\* hangs too.
CancelEnds == \A r \in Runs : r \in cancelled ~> state[r] \in Terminal

\* Every accepted image comes to an end, however the line is cancelled or
\* overtaken, unless the host is shut down.
ImagesEnd == \A r \in Runs : kind[r] = "image" /\ state[r] \in Live ~>
                                  (state[r] \in Terminal \/ closed)

\* A committed answer reaches the consumer that waits for it.
AnswerHeard == \A r \in Runs : worker[r] = "listening" /\ approval[r] = "answered" ~>
                                   worker[r] # "listening"

\* Every accepted run has an owner, alone in a serial kind, and what it holds follows it.
RunsHold ==
    /\ RunTypeOK /\ OneGeneration /\ LiveHasOwner /\ NoGhostInLine
    /\ ReservationFollowsRun /\ LeaseFollowsOwner

\* What has ended stays as it ended, and what has run is not run again.
HistoryIsFinal == TerminalIsFinal /\ NeverReplayed

\* Cancels, images and answers all get where they are going.
RunsProgress == CancelEnds /\ ImagesEnd /\ AnswerHeard
=============================================================================
