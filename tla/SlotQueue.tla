------------------------------ MODULE SlotQueue -----------------------------
(***************************************************************************)
(* internal/gateway/queue.go: the FIFO in front of one destination's       *)
(* engine.  Every step below is one critical section of slotQueue.mu, or   *)
(* one branch of the select in wait, which runs without the mutex: between *)
(* the two a hand-over, a timeout and a departing friend race.             *)
(***************************************************************************)
EXTENDS Integers, Sequences, FiniteSets

CONSTANTS Requests,    \* requests, each one call of acquire at a time
          Streaming,   \* those whose friend is told of the wait (queued # nil)
          MaxSlots     \* bound: the most slots the engine ever reports

ASSUME QueueAssumption == /\ IsFiniteSet(Requests)
                          /\ Streaming \subseteq Requests
                          /\ MaxSlots \in Nat

VARIABLES slots,       \* engine.Info().Slots, read live through cap
          inFlight,    \* slotQueue.inFlight
          waiters,     \* slotQueue.waiters
          handed,      \* waiters whose channel is closed
          place,       \* where each request stands in acquire
          gone,        \* requests whose context is done
          why          \* how the last acquire of each request ended

queueState == <<inFlight, waiters, handed, place, why>>
queueVars == <<slots, gone, queueState>>

\* idle: acquire not called.  waiting: in wait's select.  leaving: wait has
\* returned an error, the mutex not yet retaken.  holding: acquire returned a
\* slot.  done: the slot is back, or none was ever held.
Places == {"idle", "waiting", "leaving", "holding", "done"}
Reasons == {"none", "rejected", "queue_timeout", "client_closed"}

\* limit(): the cap read now, never below one.
Limit == IF slots < 1 THEN 1 ELSE slots
MaxWaiting == IF 2 * Limit < 2 THEN 2 ELSE 2 * Limit

\* Mutant: fill hands out one slot at most, as if its loop were an if.
SingleFillCount(n, q) == IF n < Limit /\ Len(q) > 0 THEN 1 ELSE 0

\* fill's loop, as a count: how many waiters it hands a slot to when n slots
\* are spent.
FillCount(n, q) ==
    LET free == Limit - n
    IN  IF free <= 0 THEN 0 ELSE IF Len(q) < free THEN Len(q) ELSE free

Oldest(q, k) == {q[i] : i \in 1..k}
AfterOldest(q, k) == SubSeq(q, k + 1, Len(q))

\* fill with n slots spent; then taken more slots are spent and joining queues.
Fill(n, taken, joining) ==
    LET k == FillCount(n, waiters)
    IN  /\ inFlight' = n + k + taken
        /\ waiters' = AfterOldest(waiters, k) \o joining
        /\ handed' = handed \cup Oldest(waiters, k)

QueueInit == /\ slots \in 0..MaxSlots
             /\ inFlight = 0
             /\ waiters = <<>>
             /\ handed = {}
             /\ place = [r \in Requests |-> "idle"]
             /\ gone = {}
             /\ why = [r \in Requests |-> "none"]

Goes(r, to, reason) == /\ place' = [place EXCEPT ![r] = to]
                       /\ why' = [why EXCEPT ![r] = reason]

-----------------------------------------------------------------------------
(* acquire's first critical section: fill, then one of three ways on. *)

\* Mutant: the newcomer looks at the count before the line is served.
OvertakingAcquireNow(r) ==
    /\ place[r] = "idle"
    /\ inFlight < Limit
    /\ inFlight' = inFlight + 1
    /\ Goes(r, "holding", "none")
    /\ UNCHANGED <<waiters, handed, slots, gone>>

\* A slot is left after fill: taken at once, the context not consulted.
AcquireNow(r) ==
    /\ place[r] = "idle"
    /\ inFlight + FillCount(inFlight, waiters) < Limit
    /\ Fill(inFlight, 1, <<>>)
    /\ Goes(r, "holding", "none")
    /\ UNCHANGED <<slots, gone>>

AcquireRefused(r) ==
    /\ place[r] = "idle"
    /\ inFlight + FillCount(inFlight, waiters) >= Limit
    /\ Len(waiters) - FillCount(inFlight, waiters) >= MaxWaiting
    /\ Fill(inFlight, 0, <<>>)
    /\ Goes(r, "done", "rejected")
    /\ UNCHANGED <<slots, gone>>

AcquireWaits(r) ==
    /\ place[r] = "idle"
    /\ inFlight + FillCount(inFlight, waiters) >= Limit
    /\ Len(waiters) - FillCount(inFlight, waiters) < MaxWaiting
    /\ Fill(inFlight, 0, <<r>>)
    /\ Goes(r, "waiting", "none")
    /\ UNCHANGED <<slots, gone>>

-----------------------------------------------------------------------------
(* wait's select: one action per case, the mutex not held. *)

\* <-w.ch, with ctx.Err() = nil.
WaitHanded(r) ==
    /\ place[r] = "waiting"
    /\ r \in handed
    /\ r \notin gone
    /\ Goes(r, "holding", "none")
    /\ UNCHANGED <<slots, inFlight, waiters, handed, gone>>

\* <-t.C, which may be chosen although w.ch is closed too.
WaitTimeout(r) ==
    /\ place[r] = "waiting"
    /\ Goes(r, "leaving", "queue_timeout")
    /\ UNCHANGED <<slots, inFlight, waiters, handed, gone>>

\* <-ctx.Done(), or <-w.ch with the context done.
WaitGone(r) ==
    /\ place[r] = "waiting"
    /\ r \in gone
    /\ Goes(r, "leaving", "client_closed")
    /\ UNCHANGED <<slots, inFlight, waiters, handed, gone>>

\* queued() failed, on joining or at a tick.
WaitWriteFails(r) ==
    /\ place[r] = "waiting"
    /\ r \in Streaming
    /\ Goes(r, "leaving", "client_closed")
    /\ UNCHANGED <<slots, inFlight, waiters, handed, gone>>

-----------------------------------------------------------------------------
(* acquire's second critical section, and release. *)

DropAt(q, i) == SubSeq(q, 1, i - 1) \o SubSeq(q, i + 1, Len(q))
InLine(r) == \E i \in 1..Len(waiters) : waiters[i] = r

\* Still in line: out of it, and nothing is handed to anyone.
LeaveLine(r) ==
    /\ place[r] = "leaving"
    /\ \E i \in 1..Len(waiters) : waiters[i] = r /\ waiters' = DropAt(waiters, i)
    /\ Goes(r, "done", why[r])
    /\ UNCHANGED <<slots, inFlight, handed, gone>>

\* Mutant: the race with the hand-over is forgotten.
KeepHandedSlot(r) ==
    /\ place[r] = "leaving"
    /\ ~InLine(r)
    /\ Goes(r, "done", why[r])
    /\ UNCHANGED <<slots, inFlight, waiters, handed, gone>>

\* No longer in line: the slot that came as the request gave up goes on.
HandOn(r) ==
    /\ place[r] = "leaving"
    /\ ~InLine(r)
    /\ Fill(inFlight - 1, 0, <<>>)
    /\ Goes(r, "done", why[r])
    /\ UNCHANGED <<slots, gone>>

\* Mutant: the slot goes back to the pool, the line is not looked at.
SilentRelease(r) ==
    /\ place[r] = "holding"
    /\ inFlight' = inFlight - 1
    /\ Goes(r, "done", why[r])
    /\ UNCHANGED <<slots, gone, waiters, handed>>

Release(r) ==
    /\ place[r] = "holding"
    /\ Fill(inFlight - 1, 0, <<>>)
    /\ Goes(r, "done", why[r])
    /\ UNCHANGED <<slots, gone>>

-----------------------------------------------------------------------------
(* Around the queue: the friend, the engine, and the next request. *)

Depart(r) == /\ r \notin gone
             /\ gone' = gone \cup {r}
             /\ UNCHANGED <<slots, queueState>>

SlotsChange == /\ slots' \in 0..MaxSlots \ {slots}
               /\ UNCHANGED <<gone, queueState>>

\* A later request takes the place of one that is over, with a waiter and a
\* context of its own.
NextRequest(r) == /\ place[r] = "done"
                  /\ Goes(r, "idle", "none")
                  /\ handed' = handed \ {r}
                  /\ gone' = gone \ {r}
                  /\ UNCHANGED <<slots, inFlight, waiters>>

Acquire(r) == AcquireNow(r) \/ AcquireRefused(r) \/ AcquireWaits(r)
Wait(r) == WaitHanded(r) \/ WaitTimeout(r) \/ WaitGone(r) \/ WaitWriteFails(r)
GiveUp(r) == LeaveLine(r) \/ HandOn(r)

QueueNext == \/ \E r \in Requests : \/ Acquire(r) \/ Wait(r) \/ GiveUp(r)
                                    \/ Release(r) \/ Depart(r) \/ NextRequest(r)
             \/ SlotsChange

(***************************************************************************)
(* Fairness: a goroutine whose channel is closed or whose mutex is free    *)
(* runs on, and a request that holds a slot ends (finish is deferred).     *)
(* Neither the timer nor the friend is fair: the line must move without    *)
(* them.                                                                   *)
(***************************************************************************)
QueueFairness == \A r \in Requests : /\ WF_queueVars(WaitHanded(r))
                                     /\ WF_queueVars(WaitGone(r))
                                     /\ WF_queueVars(GiveUp(r))
                                     /\ WF_queueVars(Release(r))

QueueSafety == QueueInit /\ [][QueueNext]_queueVars
QueueSpec == QueueSafety /\ QueueFairness

-----------------------------------------------------------------------------
(* Properties *)

QueueTypeOK == /\ slots \in 0..MaxSlots
               /\ inFlight \in Nat
               /\ waiters \in Seq(Requests)
               /\ handed \subseteq Requests
               /\ gone \subseteq Requests
               /\ place \in [Requests -> Places]
               /\ why \in [Requests -> Reasons]

\* Requests a slot is spent on: holders, and waiters a slot was handed to who
\* have not yet taken or declined it.
Owners == {r \in Requests : \/ place[r] = "holding"
                            \/ place[r] \in {"waiting", "leaving"} /\ r \in handed}

\* The counter is exactly the number of slots spent: no slot leaks through
\* the race of a hand-over with a timeout or a departure, none is given back
\* twice (acquire's second critical section, release).
SlotAccounting == inFlight = Cardinality(Owners)

Distinct(q) == \A i, j \in 1..Len(q) : q[i] = q[j] => i = j
Members(q) == {q[i] : i \in 1..Len(q)}
Unserved == {r \in Requests : place[r] \in {"waiting", "leaving"} /\ r \notin handed}
\* The line is exactly the requests that wait and were handed nothing, each
\* once: a request that gave up is never found in it by a later fill.
LineExact == Distinct(waiters) /\ Members(waiters) = Unserved

\* Somebody is always about to give a slot back while anybody waits: a line
\* in front of an idle engine would never move, for nothing else calls fill.
NeverStranded == waiters # <<>> => Owners # {}

\* A request that has not asked yet has a channel nobody has closed.
IdleFresh == \A r \in Requests : place[r] = "idle" => r \notin handed

\* The inductive invariant of the queue.
QueueInv == QueueTypeOK /\ SlotAccounting /\ LineExact /\ NeverStranded /\ IdleFresh

\* Nobody overtakes: when a step gives a request a slot, everyone who stood
\* in line before it has been handed one too (fill before the fast path).
NoOvertaking ==
    [][\A r \in Owners' \ Owners : \A i \in 1..Len(waiters) :
          (r \notin Oldest(waiters, i)) => waiters[i] \in Owners']_queueVars

\* A friend who left while in line is never given the engine: the hand-over
\* that raced the departure is declined (wait's second look at ctx.Err()).
DepartedDeclines ==
    [][\A r \in gone : place[r] = "waiting" => place'[r] # "holding"]_queueVars

\* Every request in line leaves it, by the slots coming back alone.
LineMoves == \A r \in Requests : place[r] = "waiting" ~> place[r] # "waiting"

Pool == INSTANCE SlotPool WITH owners <- Owners, line <- waiters

\* The queue with its races implements the pool that has none.
ImplementsPool == Pool!PoolSpec

\* The line is fair to those in it and to those who left it.
LineIsFair == NoOvertaking /\ DepartedDeclines
=============================================================================
