---------------------------- MODULE ManagedMember ---------------------------
(***************************************************************************)
(* internal/profile/runtime.go over internal/supervise: one engine that    *)
(* the host starts, watches and stops itself.  Callers lease it through    *)
(* acquire, a goroutine of its own carries out each start, a loop ticks    *)
(* once a second, and Close ends all of it.  An action is one critical     *)
(* section of managed.mu or one step taken without it.                     *)
(***************************************************************************)
EXTENDS Integers, FiniteSets

CONSTANTS Requests,   \* callers of acquire, one call at a time each
          Policies    \* the policies and owners the member may have

ASSUME MemberAssumption ==
    /\ IsFiniteSet(Requests)
    /\ Policies \subseteq {"resident", "on-demand", "external", "unavailable"}

VARIABLES
    policy,     \* Policy.Kind, External or Unavailable; chosen once
    closed,     \* managed.ctx is done
    refs,       \* managed.refs
    status,     \* status.State
    healthy,    \* status.Healthy
    process,    \* managed.process: none, or a child that runs or has exited
    starting,   \* managed.starting # nil
    retry,      \* now is before managed.retry
    idle,       \* the idle clock: never set, running, or past IdleSeconds
    failures,   \* managed.failures; three and more are not told apart
    starter,    \* where the goroutine of startLocked is
    child,      \* the process that goroutine holds
    lost,       \* running children that nothing refers to any more
    loop,       \* where loop is
    closer,     \* where Close is
    pos,        \* where each caller is in acquire
    told,       \* callers whose start's channel is closed
    gone        \* callers whose context is done

shared == <<refs, status, healthy, process, starting, retry, idle, failures>>
launch == <<starter, child, lost>>
callers == <<pos, told, gone>>
memberVars == <<policy, closed, shared, launch, loop, closer, callers>>

FailuresToStop == 3
Owned == policy \in {"resident", "on-demand"}

MemberInit ==
    /\ policy \in Policies
    /\ closed = FALSE
    /\ refs = 0
    /\ status = IF Owned THEN "dormant" ELSE policy
    /\ healthy = FALSE
    /\ process = "none"
    /\ starting = FALSE
    /\ retry = FALSE
    /\ idle = "unset"
    /\ failures = 0
    /\ starter = "none"
    /\ child = "none"
    /\ lost = 0
    /\ loop = "select"
    /\ closer = "none"
    /\ pos = [r \in Requests |-> "idle"]
    /\ told = {}
    /\ gone = {}

-----------------------------------------------------------------------------
(* startLocked: the part under the caller's lock. *)

\* Mutant: a caller still inside acquire starts the engine of a closed host.
HeedlessStart ==
    /\ starting' = TRUE
    /\ status' = "starting"
    /\ healthy' = FALSE
    /\ starter' = "verify"
    /\ UNCHANGED <<process, child, lost>>

StartUnlessClosed ==
    /\ starting' = ~closed
    /\ status' = IF closed THEN status ELSE "starting"
    /\ healthy' = (closed /\ healthy)
    /\ starter' = IF closed THEN starter ELSE "verify"
    /\ UNCHANGED <<process, child, lost>>

-----------------------------------------------------------------------------
(* acquire and release. *)

Goes(r, to) == pos' = [pos EXCEPT ![r] = to]

\* The checks before the lease, and the lease.
Enter(r) ==
    /\ pos[r] = "idle"
    /\ IF r \in gone \/ closed \/ ~Owned
       THEN Goes(r, "over") /\ UNCHANGED refs
       ELSE Goes(r, "looking") /\ refs' = refs + 1
    /\ UNCHANGED <<policy, closed, status, healthy, process, starting, retry, idle, failures,
                   launch, loop, closer, told, gone>>

\* The loop's head: ready; in back-off; or a start to wait for, which this
\* caller begins unless one is under way.
Look(r) ==
    /\ pos[r] = "looking"
    /\ \/ /\ status = "ready"
          /\ Goes(r, "holding")
          /\ UNCHANGED <<status, healthy, process, starting, launch>>
       \/ /\ status # "ready" /\ ~starting /\ retry
          /\ Goes(r, "releasing")
          /\ UNCHANGED <<status, healthy, process, starting, launch>>
       \/ /\ status # "ready" /\ ~starting /\ ~retry
          /\ Goes(r, "waiting")
          /\ StartUnlessClosed
       \/ /\ status # "ready" /\ starting
          /\ Goes(r, "waiting")
          /\ UNCHANGED <<status, healthy, process, starting, launch>>
    /\ told' = told \ {r}
    /\ UNCHANGED <<policy, closed, refs, retry, idle, failures, loop, closer, gone>>

\* The start is over: look again if it ended well, give up otherwise.
Wake(r) ==
    /\ pos[r] = "waiting"
    /\ r \in told
    /\ Goes(r, IF status = "ready" THEN "looking" ELSE "releasing")
    /\ UNCHANGED <<policy, closed, shared, launch, loop, closer, told, gone>>

\* Mutant: the caller's own context is not looked at.
PatientGiveUp(r) ==
    /\ pos[r] = "waiting"
    /\ closed
    /\ Goes(r, "releasing")
    /\ UNCHANGED <<policy, closed, shared, launch, loop, closer, told, gone>>

\* ctx.Done or m.ctx.Done, which select may prefer to a start that is over.
GivesUp(r) ==
    /\ pos[r] = "waiting"
    /\ r \in gone \/ closed
    /\ Goes(r, "releasing")
    /\ UNCHANGED <<policy, closed, shared, launch, loop, closer, told, gone>>

\* Mutant: a caller that was not served does not start the idle clock.
ClocklessRelease(r) ==
    /\ pos[r] \in {"holding", "releasing"}
    /\ Goes(r, "over")
    /\ refs' = refs - 1
    /\ idle' = IF refs' = 0 /\ pos[r] = "holding" THEN "running" ELSE idle
    /\ UNCHANGED <<policy, closed, status, healthy, process, starting, retry, failures,
                   launch, loop, closer, told, gone>>

\* The lease is there, but the engine does not answer Refresh.
RefreshFails(r) ==
    /\ pos[r] = "holding"
    /\ Goes(r, "releasing")
    /\ UNCHANGED <<policy, closed, shared, launch, loop, closer, told, gone>>

\* release, once: for a caller that is not served, or in finish.
Release(r) ==
    /\ pos[r] \in {"holding", "releasing"}
    /\ Goes(r, "over")
    /\ refs' = refs - 1
    /\ idle' = IF refs' = 0 THEN "running" ELSE idle
    /\ UNCHANGED <<policy, closed, status, healthy, process, starting, retry, failures,
                   launch, loop, closer, told, gone>>

\* The friend leaves, or prepareManaged's two minutes are over.
Depart(r) == /\ r \notin gone
             /\ pos[r] \in {"idle", "looking", "waiting"}
             /\ gone' = gone \cup {r}
             /\ UNCHANGED <<policy, closed, shared, launch, loop, closer, pos, told>>

NextCall(r) == /\ pos[r] = "over"
               /\ Goes(r, "idle")
               /\ told' = told \ {r}
               /\ gone' = gone \ {r}
               /\ UNCHANGED <<policy, closed, shared, launch, loop, closer>>

-----------------------------------------------------------------------------
(* The goroutine of startLocked, and supervise.Process under it. *)

\* The installed bytes are what setup recorded, or the start fails.
Verify == /\ starter = "verify"
          /\ starter' \in {"spawn", "failed"}
          /\ UNCHANGED <<policy, closed, shared, child, lost, loop, closer, callers>>

\* Materialize and supervise.Start: a bad command, a port that is taken, a
\* guardian that cannot be started; or a child.
Spawn == /\ starter = "spawn"
         /\ \/ starter' = "health" /\ child' = "running"
            \/ starter' = "failed" /\ UNCHANGED child
         /\ UNCHANGED <<policy, closed, shared, lost, loop, closer, callers>>

\* WaitHealth: ready; the child has exited; two minutes are over, or Close.
WaitHealth == /\ starter = "health"
              /\ \/ child = "running" /\ starter' = "ready"
                 \/ starter' = "abort"
              /\ UNCHANGED <<policy, closed, shared, child, lost, loop, closer, callers>>

\* Process.Close, which returns when the guardian's process group is gone.
AbortStart == /\ starter = "abort"
              /\ starter' = "failed"
              /\ child' = "none"
              /\ UNCHANGED <<policy, closed, shared, lost, loop, closer, callers>>

\* The start's last critical section.
Install ==
    /\ starter \in {"ready", "failed"}
    /\ process' = child
    /\ lost' = IF process = "running" THEN lost + 1 ELSE lost
    /\ child' = "none"
    /\ starter' = "none"
    /\ healthy' = (starter = "ready")
    /\ status' = IF starter = "ready" THEN "ready" ELSE "backoff"
    /\ failures' = IF starter = "ready" THEN 0 ELSE failures
    /\ retry' = (retry \/ starter = "failed")
    /\ starting' = FALSE
    /\ told' = told \cup {r \in Requests : pos[r] = "waiting"}
    /\ UNCHANGED <<policy, closed, refs, idle, loop, closer, pos, gone>>

-----------------------------------------------------------------------------
(* loop: one tick at a time, the probe without the lock. *)

\* failedLocked.
Failed == /\ process' = "none"
          /\ status' = "backoff"
          /\ healthy' = FALSE
          /\ retry' = TRUE

MayTick == loop = "select" /\ Owned /\ ~starting

IdleTooLong == policy = "on-demand" /\ refs = 0 /\ idle = "elapsed"

TickIdle == /\ MayTick /\ IdleTooLong
            /\ process' = "none"
            /\ status' = "dormant"
            /\ healthy' = FALSE
            /\ UNCHANGED <<policy, closed, refs, starting, retry, idle, failures, launch,
                           loop, closer, callers>>

\* A child that has exited; its back-off rules out a start in this tick.  The
\* loop goes on to no probe, for there is no process.
TickExited == /\ MayTick /\ ~IdleTooLong
              /\ process = "exited"
              /\ Failed
              /\ UNCHANGED <<policy, closed, refs, starting, idle, failures, launch,
                             loop, closer, callers>>

\* Mutant: a resident engine is started whether or not it runs.
RepeatedTickStart ==
    /\ MayTick /\ ~IdleTooLong /\ ~closed /\ ~retry
    /\ policy # "on-demand" \/ refs > 0
    /\ StartUnlessClosed
    /\ UNCHANGED <<policy, closed, refs, retry, idle, failures, loop, closer, callers>>

TickStart == /\ MayTick /\ ~IdleTooLong /\ ~closed
             /\ process = "none" /\ ~retry
             /\ policy # "on-demand" \/ refs > 0
             /\ StartUnlessClosed
             /\ UNCHANGED <<policy, closed, refs, retry, idle, failures, loop, closer, callers>>

TickProbe == /\ MayTick /\ ~IdleTooLong
             /\ process = "running" /\ refs = 0
             /\ loop' = "probing"
             /\ UNCHANGED <<policy, closed, shared, launch, closer, callers>>

\* Mutant: no second look at the leases after the probe.
HastyProbed ==
    /\ loop = "probing"
    /\ loop' = "select"
    /\ \/ /\ failures' = 0
          /\ UNCHANGED <<process, status, healthy, retry>>
       \/ /\ failures' = IF failures < FailuresToStop THEN failures + 1 ELSE failures
          /\ IF failures' >= FailuresToStop /\ process # "none" THEN Failed
             ELSE UNCHANGED <<process, status, healthy, retry>>
    /\ UNCHANGED <<policy, closed, refs, starting, idle, launch, closer, callers>>

\* The probe's answer, with the lock again: leases may have come meanwhile.
Probed ==
    /\ loop = "probing"
    /\ loop' = "select"
    /\ \/ /\ failures' = 0
          /\ UNCHANGED <<process, status, healthy, retry>>
       \/ /\ failures' = IF failures < FailuresToStop THEN failures + 1 ELSE failures
          /\ IF failures' >= FailuresToStop /\ refs = 0 /\ process # "none" THEN Failed
             ELSE UNCHANGED <<process, status, healthy, retry>>
    /\ UNCHANGED <<policy, closed, refs, starting, idle, launch, closer, callers>>

\* An engine the host does not own is only looked at.
TickExternal == /\ loop = "select" /\ policy = "external"
                /\ healthy' \in BOOLEAN
                /\ UNCHANGED <<policy, closed, refs, status, process, starting, retry, idle,
                               failures, launch, loop, closer, callers>>

LoopEnds == /\ loop = "select" /\ closed
            /\ loop' = "gone"
            /\ UNCHANGED <<policy, closed, shared, launch, closer, callers>>

-----------------------------------------------------------------------------
(* Close: cancel, wait for the loop and for a start, then stop the engine. *)

CloseCancels == /\ closer = "none"
                /\ closer' = "draining"
                /\ closed' = TRUE
                /\ UNCHANGED <<policy, shared, launch, loop, callers>>

CloseDrains == /\ closer = "draining"
               /\ loop = "gone" /\ ~starting
               /\ closer' = "stopping"
               /\ UNCHANGED <<policy, closed, shared, launch, loop, callers>>

CloseStops == /\ closer = "stopping"
              /\ closer' = "done"
              /\ process' = "none"
              /\ UNCHANGED <<policy, closed, refs, status, healthy, starting, retry, idle,
                             failures, launch, loop, callers>>

-----------------------------------------------------------------------------
(* The engine's own end, and time. *)

EngineExits == /\ \/ process = "running" /\ process' = "exited" /\ UNCHANGED child
                  \/ child = "running" /\ child' = "exited" /\ UNCHANGED process
               /\ UNCHANGED <<policy, closed, refs, status, healthy, starting, retry, idle,
                              failures, starter, lost, loop, closer, callers>>

RetryDue == /\ retry
            /\ retry' = FALSE
            /\ UNCHANGED <<policy, closed, refs, status, healthy, process, starting, idle,
                           failures, launch, loop, closer, callers>>

IdleElapses == /\ idle = "running"
               /\ idle' = "elapsed"
               /\ UNCHANGED <<policy, closed, refs, status, healthy, process, starting, retry,
                              failures, launch, loop, closer, callers>>

Acquires(r) == Look(r) \/ Wake(r) \/ GivesUp(r)
StartGoesOn == Verify \/ Spawn \/ WaitHealth \/ AbortStart \/ Install
Ticks == TickIdle \/ TickExited \/ TickStart \/ TickProbe
Closes == CloseDrains \/ CloseStops

MemberNext == \/ \E r \in Requests : \/ Enter(r) \/ Acquires(r) \/ RefreshFails(r)
                                     \/ Release(r) \/ Depart(r) \/ NextCall(r)
              \/ StartGoesOn \/ Ticks \/ Probed \/ TickExternal \/ LoopEnds
              \/ CloseCancels \/ Closes
              \/ EngineExits \/ RetryDue \/ IdleElapses

MemberSafety == MemberInit /\ [][MemberNext]_memberVars

(***************************************************************************)
(* Fairness: goroutines run on.  A start is bounded by two minutes and     *)
(* stopping a child by three seconds and a kill; the ticker and the two    *)
(* deadlines fire; a done context is chosen by some select in the end, for *)
(* the choice is random.  Nothing is assumed of engines, of friends, of    *)
(* holders or of Close.                                                    *)
(***************************************************************************)
MemberSpec == /\ MemberSafety
              /\ \A r \in Requests : /\ WF_memberVars(Acquires(r))
                                     /\ SF_memberVars(GivesUp(r))
                                     /\ WF_memberVars(pos[r] \in {"looking", "waiting"} /\ Depart(r))
                                     /\ WF_memberVars(pos[r] = "releasing" /\ Release(r))
              /\ WF_memberVars(StartGoesOn)
              /\ WF_memberVars(Ticks)
              /\ WF_memberVars(Probed)
              /\ WF_memberVars(LoopEnds)
              /\ WF_memberVars(Closes)
              /\ WF_memberVars(RetryDue)
              /\ WF_memberVars(IdleElapses)

-----------------------------------------------------------------------------
(* Properties *)

MemberTypeOK ==
    /\ policy \in Policies
    /\ closed \in BOOLEAN
    /\ refs \in Nat
    /\ status \in {"dormant", "starting", "ready", "backoff", "external", "unavailable"}
    /\ healthy \in BOOLEAN
    /\ process \in {"none", "running", "exited"}
    /\ starting \in BOOLEAN
    /\ retry \in BOOLEAN
    /\ idle \in {"unset", "running", "elapsed"}
    /\ failures \in 0..FailuresToStop
    /\ starter \in {"none", "verify", "spawn", "health", "abort", "ready", "failed"}
    /\ child \in {"none", "running", "exited"}
    /\ lost \in Nat
    /\ loop \in {"select", "probing", "gone"}
    /\ closer \in {"none", "draining", "stopping", "done"}
    /\ pos \in [Requests -> {"idle", "looking", "waiting", "holding", "releasing", "over"}]
    /\ told \subseteq Requests
    /\ gone \subseteq Requests

\* Callers, the loop and a start under way never give the host two children:
\* starts are coalesced, a start never replaces an engine that runs, and no
\* child is forgotten.
OneEngine == /\ lost = 0
             /\ starting => process = "none"
             /\ child # "none" => starting

\* The lease holds: an engine that runs is stopped by idleness, by failed
\* probes or by a new start only when no caller has it or is about to.
Leasing == {r \in Requests : pos[r] \in {"looking", "waiting", "holding", "releasing"}}
HeldEngineRuns ==
    [][process = "running" /\ process' = "none" => Leasing = {} \/ closed]_memberVars

\* When Close has returned no child is left and none will come, whoever was
\* still inside acquire.
NoneSurvives == closer = "done" => process = "none" /\ child = "none" /\ ~starting

\* What the mutex protects, between any two critical sections: a start has its
\* goroutine, which alone holds its child, and a process has been ready.
StartShape == /\ starting <=> starter # "none"
              /\ child # "none" => starter \in {"health", "abort", "ready"}
              /\ process # "none" => status = "ready"

\* How far Close has come says who may still act.
CloseShape == /\ closed <=> closer # "none"
              /\ closer \in {"stopping", "done"} => loop = "gone" /\ ~starting
              /\ closer = "done" => process = "none"

\* Each caller inside acquire or holding the engine has one lease.
LeasesExact == refs = Cardinality(Leasing)

\* The inductive invariant of the member.
MemberInv == MemberTypeOK /\ StartShape /\ OneEngine /\ CloseShape /\ LeasesExact

\* Every call of acquire returns, though starts fail, engines die and other
\* callers start them again.
AcquireReturns ==
    \A r \in Requests : pos[r] \in {"looking", "waiting"} ~> pos[r] \notin {"looking", "waiting"}

\* An on-demand engine that nobody uses is stopped, one whose callers all
\* left while it started included; a resident one is started again.
EngineFollowsUse ==
    /\ policy = "on-demand" /\ process = "running" /\ refs = 0
           ~> (process # "running" \/ refs > 0)
    /\ policy = "resident" /\ process = "none" /\ ~closed
           ~> (starting \/ closed)
=============================================================================
