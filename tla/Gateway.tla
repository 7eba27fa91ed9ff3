------------------------------- MODULE Gateway ------------------------------
(***************************************************************************)
(* internal/gateway/request.go, gateway.go and internal/usage/recorder.go: *)
(* requests of one key through the pipeline to one unmanaged engine, and   *)
(* out through finish.  The limiter and the queue are the modules of those *)
(* names; each stage is a step, and finish is one step per lock it takes,  *)
(* so requests interleave inside it.  The host may be killed at any time   *)
(* and starts again from usage.jsonl.                                      *)
(***************************************************************************)
EXTENDS Integers, Sequences, FiniteSets, Functions

CONSTANTS Requests, Streaming, Lists,  \* Lists: GET /v1/models
          MaxSlots,
          MaxConcurrent, RPM, TPM, DailyTokens,
          Prompts, Outs, MinOutput, Overrun,
          Window, Day, MaxTime,
          BufferedEvents,    \* capacity of the recorder's channel
          DiskFaults         \* whether a kill may tear a line, and a write fail

\* What the queue and the limiter assume of theirs, and the recorder's own.
ASSUME GatewayAssumption ==
    /\ IsFiniteSet(Requests) /\ Streaming \subseteq Requests /\ Lists \subseteq Requests \ Streaming
    /\ {MaxSlots, MaxConcurrent, RPM, TPM, DailyTokens, Overrun, MaxTime} \subseteq Nat
    /\ {MinOutput, Window, Day, BufferedEvents} \subseteq Nat \ {0}
    /\ Prompts \subseteq Nat /\ Outs \subseteq Int /\ DiskFaults \in BOOLEAN

VARIABLES
    slots, slotInFlight, waiters, handed, place, gone, why,         \* the queue
    now, log, keyInFlight, charges, today, reserved, day, adm,      \* the limiter
    stage,     \* where each request is in proxy, models or finish
    outcome,   \* request.outcome
    timedOut,  \* requests whose event says queue_timeout when finish reads it
    sent,      \* requests the engine was sent (httptrace WroteRequest)
    buffered,  \* request.buffered
    bodies,    \* Gateway.bodies
    buffer,    \* FileRecorder.ch
    page,      \* events encoded into the bufio.Writer, not yet flushed
    ledger,    \* events in usage.jsonl
    torn,      \* usage.jsonl ends in half a line
    stuck,     \* the bufio.Writer has seen a write fail and takes no more
    closed,    \* FileRecorder.closed: serve is ending
    dropped,   \* events this process dropped
    lost       \* events this process wrote into a torn line, or could not write

queueVars == <<slots, slotInFlight, waiters, handed, place, gone, why>>
limiterVars == <<now, log, keyInFlight, charges, today, reserved, day, adm>>
bodyVars == <<buffered, bodies>>
fileVars == <<page, ledger, torn, stuck, lost>>
recorderVars == <<buffer, dropped, closed, fileVars>>
resourceVars == <<queueVars, limiterVars, bodyVars, recorderVars>>
vars == <<resourceVars, stage, outcome, timedOut, sent>>

Queue == INSTANCE SlotQueue WITH inFlight <- slotInFlight
Limits == INSTANCE Limiter WITH Calls <- Requests, Detached <- {}

Outcomes == {"none", "rejected", "queue_lost", "engine_err", "served", "cut"}

\* "release", "settle", "unbuffer" and "record" are finish's steps, in order;
\* a request starts at the first that has something to give back.
Stages == {"new", "admit", "list", "body", "prepare", "budget", "queue", "waiting",
           "call", "relay", "release", "settle", "unbuffer", "record", "over", "dead"}

GatewayInit == /\ Queue!QueueInit
               /\ Limits!LimiterInit
               /\ stage = [r \in Requests |-> "new"]
               /\ outcome = [r \in Requests |-> "none"]
               /\ timedOut = {}
               /\ sent = {}
               /\ buffered = {}
               /\ bodies = 0
               /\ buffer = <<>>
               /\ page = <<>>
               /\ ledger = {}
               /\ torn = FALSE
               /\ stuck = FALSE
               /\ closed = FALSE
               /\ dropped = {}
               /\ lost = {}

Proceeds(r, to) == /\ stage' = [stage EXCEPT ![r] = to]
                   /\ UNCHANGED <<outcome, timedOut, sent>>

\* The pipeline ends with outcome o; finish is next.
Ends(r, o, to) == /\ stage' = [stage EXCEPT ![r] = to]
                  /\ outcome' = [outcome EXCEPT ![r] = o]

-----------------------------------------------------------------------------
(* The stages before the queue: a failure is a rejection. *)

\* authenticate and checkHealth pass.
Arrive(r) == /\ stage[r] = "new" /\ ~closed
             /\ Proceeds(r, "admit")
             /\ UNCHANGED resourceVars

\* An unknown key, of which no event is recorded; a paused key, or an engine
\* that is down.  Nothing was taken.
TurnedAway(r) == /\ stage[r] = "new" /\ ~closed
                 /\ \E to \in {"record", "over"} : Ends(r, "rejected", to)
                 /\ UNCHANGED <<resourceVars, timedOut, sent>>

AdmitKey(r) ==
    /\ stage[r] = "admit"
    /\ \/ /\ Limits!Admit(r)
          /\ Proceeds(r, IF r \in Lists THEN "list" ELSE "body")
       \/ /\ Limits!AdmitRefused(r)
          /\ Ends(r, "rejected", "record")
          /\ UNCHANGED <<timedOut, sent>>
    /\ UNCHANGED <<queueVars, bodyVars, recorderVars>>

\* models: an admission, but no body, no reservation and no slot.
ListModels(r) == /\ stage[r] = "list"
                 /\ \E o \in {"engine_err", "served"} : Ends(r, o, "settle")
                 /\ UNCHANGED <<resourceVars, timedOut, sent>>

\* readBody counts the body before it reads it, unless its declared length
\* is over the cap already.
ReadBody(r) ==
    /\ stage[r] = "body"
    /\ \/ /\ Proceeds(r, "prepare")
          /\ buffered' = buffered \cup {r}
          /\ bodies' = bodies + 1
       \/ /\ Ends(r, "rejected", "settle")
          /\ UNCHANGED <<bodyVars, timedOut, sent>>
    /\ UNCHANGED <<queueVars, limiterVars, recorderVars>>

\* The rest of readBody, routeHostTools, normalize and count: on to the
\* budgets, a rejection, or a chat handed to a run before it has an outcome.
Prepare(r) ==
    /\ stage[r] = "prepare"
    /\ \/ Proceeds(r, "budget")
       \/ \E o \in {"rejected", "none"} : Ends(r, o, "settle") /\ UNCHANGED <<timedOut, sent>>
    /\ UNCHANGED resourceVars

\* fitContext, then limiter.reserve.
CheckBudgets(r) ==
    /\ stage[r] = "budget"
    /\ \/ /\ Limits!Reserve(r)
          /\ Proceeds(r, "queue")
       \/ /\ Limits!ReserveRefused(r) \/ UNCHANGED limiterVars
          /\ Ends(r, "rejected", "settle")
          /\ UNCHANGED <<timedOut, sent>>
    /\ UNCHANGED <<queueVars, bodyVars, recorderVars>>

-----------------------------------------------------------------------------
(* acquireSlot: the queue's own steps, and what the request makes of them. *)

AcquireSlot(r) ==
    /\ stage[r] = "queue"
    /\ Queue!Acquire(r)
    /\ IF place'[r] = "done"
       THEN Ends(r, "rejected", "settle") /\ UNCHANGED <<timedOut, sent>>
       ELSE Proceeds(r, IF place'[r] = "holding" THEN "call" ELSE "waiting")
    /\ UNCHANGED <<limiterVars, bodyVars, recorderVars>>

\* fail(queue_timeout): a friend who has gone meanwhile turns the code into
\* client_closed, unless the head of the stream is out.
ReportsTimeout(r) == why[r] = "queue_timeout" /\ (r \in Streaming \/ r \notin gone)

Queued(r) ==
    /\ stage[r] = "waiting"
    /\ \/ Queue!WaitHanded(r) /\ Proceeds(r, "call")
       \/ Queue!WaitTimeout(r) /\ UNCHANGED <<stage, outcome, timedOut, sent>>
       \/ Queue!WaitGone(r) /\ UNCHANGED <<stage, outcome, timedOut, sent>>
       \/ Queue!WaitWriteFails(r) /\ UNCHANGED <<stage, outcome, timedOut, sent>>
       \/ /\ Queue!GiveUp(r)
          /\ Ends(r, "queue_lost", "settle")
          /\ timedOut' = IF ReportsTimeout(r) THEN timedOut \cup {r} ELSE timedOut
          /\ UNCHANGED sent
    /\ UNCHANGED <<limiterVars, bodyVars, recorderVars>>

-----------------------------------------------------------------------------
(* callUpstream and relay, with the slot held. *)

\* Mutant: a cancelled call is Cut whether or not the engine was sent anything.
BluntCallOutcome(r, wrote) == IF r \in gone THEN "cut" ELSE "engine_err"
CallOutcome(r, wrote) == IF r \notin gone THEN "engine_err"
                         ELSE IF wrote THEN "cut" ELSE "queue_lost"

\* A 2xx; an error of Do, before or after the request was written; a status.
CallUpstream(r) ==
    /\ stage[r] = "call"
    /\ \/ stage' = [stage EXCEPT ![r] = "relay"] /\ sent' = sent \cup {r} /\ UNCHANGED outcome
       \/ Ends(r, CallOutcome(r, TRUE), "release") /\ sent' = sent \cup {r}
       \/ Ends(r, CallOutcome(r, FALSE), "release") /\ UNCHANGED sent
       \/ Ends(r, "engine_err", "release") /\ sent' = sent \cup {r}
    /\ UNCHANGED <<resourceVars, timedOut>>

\* pipeStream: a read or a write that fails is Cut.  pipeBody: a read that
\* fails is Cut when the friend left; a body that is no JSON is the engine's.
Relay(r) ==
    /\ stage[r] = "relay"
    /\ \/ Ends(r, "served", "release")
       \/ r \in Streaming \cup gone /\ Ends(r, "cut", "release")
       \/ r \notin Streaming /\ Ends(r, "engine_err", "release")
    /\ UNCHANGED <<resourceVars, timedOut, sent>>

\* Mutant: finish is not deferred.
AbruptPanic(r) == /\ stage[r] \in {"prepare", "call", "relay"}
                  /\ Proceeds(r, "over")
                  /\ UNCHANGED resourceVars

\* A stage panics: finish is deferred and the outcome is still none.
Panic(r) == /\ stage[r] \in {"prepare", "call", "relay"}
            /\ Proceeds(r, IF stage[r] = "prepare" THEN "settle" ELSE "release")
            /\ UNCHANGED resourceVars

-----------------------------------------------------------------------------
(* finish, in its order: the slot, the settlement, the body, the event. *)

\* Mutant: finish needs an outcome, which a request that panicked has not.
OutcomeReleaseSlot(r) == /\ stage[r] = "release"
                         /\ outcome[r] # "none"
                         /\ Queue!Release(r)
                         /\ Proceeds(r, "settle")
                         /\ UNCHANGED <<limiterVars, bodyVars, recorderVars>>

ReleaseSlot(r) == /\ stage[r] = "release"
                  /\ Queue!Release(r)
                  /\ Proceeds(r, "settle")
                  /\ UNCHANGED <<limiterVars, bodyVars, recorderVars>>

\* settleRow: <<counted, charged>>.  What the engine reports, or what was
\* streamed before a cut, is up to the engine.
SettleRow(r) ==
    LET reported == 0..(adm[r].reserved + Overrun)
    IN  IF r \in Lists THEN {<<FALSE, 0>>}
        ELSE CASE outcome[r] = "queue_lost" -> {<<r \in timedOut, 0>>}
               [] outcome[r] = "engine_err" -> {<<TRUE, 0>>}
               [] outcome[r] = "served" -> {TRUE} \X reported
               [] outcome[r] = "cut" -> IF r \in Streaming THEN {TRUE} \X reported
                                        ELSE {<<TRUE, adm[r].reserved>>}
               [] OTHER -> {<<FALSE, 0>>}

SettleAdmission(r) ==
    /\ stage[r] = "settle"
    /\ \E row \in SettleRow(r) : Limits!SettleAs(r, row[1], row[2])
    /\ Proceeds(r, IF r \in buffered THEN "unbuffer" ELSE "record")
    /\ UNCHANGED <<queueVars, bodyVars, recorderVars>>

Unbuffer(r) == /\ stage[r] = "unbuffer"
               /\ bodies' = bodies - 1
               /\ buffered' = buffered \ {r}
               /\ Proceeds(r, "record")
               /\ UNCHANGED <<queueVars, limiterVars, recorderVars>>

\* FileRecorder.Record: never blocks, so a full channel drops the event, and
\* so does a recorder that is closed.
Record(r) ==
    /\ stage[r] = "record"
    /\ IF ~closed /\ Len(buffer) < BufferedEvents
       THEN buffer' = Append(buffer, r) /\ UNCHANGED dropped
       ELSE dropped' = dropped \cup {r} /\ UNCHANGED buffer
    /\ Proceeds(r, "over")
    /\ UNCHANGED <<queueVars, limiterVars, bodyVars, closed, fileVars>>

-----------------------------------------------------------------------------
(* The recorder's writer, and the life of the process. *)

WriterTakes == /\ buffer # <<>>
               /\ page' = Append(page, Head(buffer))
               /\ buffer' = Tail(buffer)
               /\ UNCHANGED <<ledger, torn, stuck, closed, dropped, lost, queueVars, limiterVars,
                              bodyVars, stage, outcome, timedOut, sent>>

\* Mutant: the recorder is closed without draining its channel.
HastyWrites == page
\* FileRecorder.Close: what was queued is written and flushed.
Writes == page \o buffer

\* Of the lines written now, the ones that can be read again: a file that
\* ends in half a line spoils the first.
Legible(written) ==
    IF stuck THEN {} ELSE {written[i] : i \in (IF torn THEN 2 ELSE 1)..Len(written)}

\* The loop flushes when the channel is drained; a full page spills earlier.
WriterFlushes ==
    /\ page # <<>>
    /\ ledger' = ledger \cup Legible(page)
    /\ lost' = lost \cup (Range(page) \ Legible(page))
    /\ torn' = (torn /\ stuck)
    /\ page' = <<>>
    /\ UNCHANGED <<buffer, stuck, closed, dropped, queueVars, limiterVars, bodyVars,
                   stage, outcome, timedOut, sent>>

\* A write fails, perhaps in the middle of a line: it is logged, and the
\* bufio.Writer refuses every later one.
WriterFails ==
    /\ DiskFaults /\ page # <<>> /\ ~stuck
    /\ stuck' = TRUE
    /\ torn' \in {torn, TRUE}
    /\ lost' = lost \cup Range(page)
    /\ page' = <<>>
    /\ UNCHANGED <<buffer, ledger, closed, dropped, queueVars, limiterVars, bodyVars,
                   stage, outcome, timedOut, sent>>

\* Mutant: the day of a charge is the day its request came in.
ArrivalTime(r) == adm[r].since
\* Event.AccountingTime: SettledAt, the instant settle itself read.
AccountingTime(r) == adm[r].at

ChargedToday(S) ==
    LET charged == [r \in Requests |-> adm[r].charged]
    IN  FoldFunctionOnSet(LAMBDA a, b : a + b, 0, charged,
            {r \in S : Limits!DayOf(AccountingTime(r)) = Limits!DayOf(now)})

Unended(r) == stage[r] \notin {"new", "over", "dead"}
At(S) == {r \in Requests : stage[r] \in S}

\* seedCounters, seedToday: the day's charges in usage.jsonl.
SeededToday(file) == ChargedToday(file)

\* New after the process ended with this file: everything kept in memory is
\* gone, and so are the requests under way.
StartsFrom(file) ==
    /\ slotInFlight' = 0
    /\ waiters' = <<>>
    /\ handed' = {}
    /\ place' = [r \in Requests |-> IF stage[r] = "new" THEN "idle" ELSE "done"]
    /\ log' = <<>>
    /\ keyInFlight' = 0
    /\ charges' = <<>>
    /\ reserved' = 0
    /\ today' = SeededToday(file)
    /\ day' = Limits!DayOf(now)
    /\ adm' = [r \in Requests |->
                  IF Unended(r) /\ adm[r].stage # "settled"
                  THEN [Limits!NoAdmission EXCEPT !.stage = "settled"]
                  ELSE adm[r]]
    /\ stage' = [r \in Requests |-> IF Unended(r) THEN "dead" ELSE stage[r]]
    /\ buffered' = {}
    /\ bodies' = 0
    /\ buffer' = <<>>
    /\ page' = <<>>
    /\ dropped' = {}
    /\ lost' = {}
    /\ stuck' = FALSE
    /\ closed' = FALSE
    /\ ledger' = file
    /\ UNCHANGED <<slots, gone, why, now, outcome, timedOut, sent>>

\* The process ends and the next one starts.  A page that had spilled into
\* the file leaves half a line there.
KilledAndRestarted ==
    /\ torn' \in {torn, torn \/ (DiskFaults /\ page # <<>> /\ ~stuck)}
    /\ StartsFrom(ledger)

\* The end of serve: Shutdown stops accepting, waits for the requests under
\* way until its grace is over and cuts off the rest; then the recorder is
\* closed.  The requests that are left go on until the process ends.
ShutsDown ==
    /\ ~closed /\ closed' = TRUE
    /\ gone' = gone \cup At({"queue", "waiting", "call", "relay"})
    /\ ledger' = ledger \cup Legible(Writes)
    /\ lost' = lost \cup (Range(Writes) \ Legible(Writes))
    /\ torn' = (torn /\ (stuck \/ Writes = <<>>))
    /\ buffer' = <<>>
    /\ page' = <<>>
    /\ UNCHANGED <<slots, slotInFlight, waiters, handed, place, why, stuck, dropped,
                   limiterVars, bodyVars, stage, outcome, timedOut, sent>>

\* Only these stages look at the request's context; a friend who leaves
\* before them is seen to have gone in them.
FriendDeparts(r) == /\ stage[r] \in {"queue", "waiting", "call", "relay"}
                    /\ Queue!Depart(r)
                    /\ UNCHANGED <<limiterVars, bodyVars, recorderVars,
                                   stage, outcome, timedOut, sent>>

EngineResizes == /\ Queue!SlotsChange
                 /\ UNCHANGED <<limiterVars, bodyVars, recorderVars,
                                stage, outcome, timedOut, sent>>

TimePasses == /\ Limits!Tick
              /\ UNCHANGED <<queueVars, bodyVars, recorderVars,
                             stage, outcome, timedOut, sent>>

Works(r) == \/ AdmitKey(r) \/ ListModels(r) \/ ReadBody(r) \/ Prepare(r)
            \/ CheckBudgets(r) \/ AcquireSlot(r) \/ Queued(r) \/ CallUpstream(r)
            \/ Relay(r) \/ ReleaseSlot(r) \/ SettleAdmission(r) \/ Unbuffer(r)
            \/ Record(r)

GatewayNext == \/ \E r \in Requests : \/ Arrive(r) \/ TurnedAway(r) \/ Works(r)
                                      \/ Panic(r) \/ FriendDeparts(r)
               \/ WriterTakes \/ WriterFlushes \/ WriterFails
               \/ KilledAndRestarted \/ ShutsDown
               \/ EngineResizes \/ TimePasses

GatewaySafety == GatewayInit /\ [][GatewayNext]_vars

(***************************************************************************)
(* Fairness: a request's goroutine keeps going.  Every blocking call in it *)
(* has a deadline: readTimeout, ProbeTimeout, queueTimeout, the engine's   *)
(* first byte, idleTimeout, writeTimeout.  Nothing is assumed of friends,  *)
(* engines, kills or the clock.                                            *)
(***************************************************************************)
GatewaySpec == GatewaySafety /\ \A r \in Requests : WF_vars(Works(r))

-----------------------------------------------------------------------------
(* Properties *)

GatewayTypeOK == /\ Queue!QueueTypeOK
                 /\ Limits!LimiterTypeOK
                 /\ stage \in [Requests -> Stages]
                 /\ outcome \in [Requests -> Outcomes]
                 /\ timedOut \subseteq Requests
                 /\ sent \subseteq Requests
                 /\ buffered \subseteq Requests
                 /\ bodies \in Nat
                 /\ buffer \in Seq(Requests)
                 /\ Len(buffer) <= BufferedEvents
                 /\ page \in Seq(Requests)
                 /\ ledger \subseteq Requests
                 /\ dropped \subseteq Requests
                 /\ lost \subseteq Requests
                 /\ {torn, stuck, closed} \subseteq BOOLEAN

Admitted == At({"list", "body", "prepare", "budget", "queue", "waiting", "call",
                "relay", "release", "settle"})

\* What the host has lent out is what the requests under way hold, at every
\* step and through every exit, kill and restart: finish gives everything
\* back exactly once, on every path.
NothingLeaks ==
    /\ slotInFlight = Cardinality(At({"call", "relay", "release"})
                                  \cup (At({"waiting"}) \cap handed))
    /\ keyInFlight = Cardinality(Admitted)
    /\ reserved = FoldFunctionOnSet(LAMBDA a, b : a + b, 0,
                      [r \in Requests |-> adm[r].reserved], Admitted)
    /\ bodies = Cardinality(buffered)

\* The engine works only for a request whose admission is live, whose worst
\* case is reserved and whose body the host holds.
EngineWorkIsCovered ==
    \A r \in At({"call", "relay"}) : /\ place[r] = "holding"
                                     /\ adm[r].stage = "reserved"
                                     /\ r \in buffered

\* Only a request the engine was sent is charged, and one whose friend left
\* before that does not even count (callUpstream's sent, settleRow).
UnsentIsFree ==
    \A r \in Requests :
        adm[r].stage = "settled" /\ r \notin sent =>
            /\ adm[r].charged = 0
            /\ adm[r].counted => (outcome[r] = "engine_err" \/ r \in timedOut)

\* The day the limiter enforces is the day the file would give back after a
\* restart, plus what this process has settled and not yet written, has
\* dropped or has lost: the counter and the replay charge the same UTC day.
Settled == {r \in At({"unbuffer", "record"}) : adm[r].stage = "settled"}
Unwritten == Settled \cup Range(buffer) \cup Range(page) \cup dropped \cup lost
CounterMatchesFile == Limits!PrunedToday = ChargedToday(ledger \cup Unwritten)

\* A kill or a restart never hands out a fresh daily budget: what the file
\* holds for today and what is reserved stay within it.
BudgetSurvivesRestart ==
    DailyTokens > 0 => ChargedToday(ledger) + reserved <= DailyTokens

\* A host that is shut down, not killed, forgets of what its recorder took
\* only what could not be written, and the one event that met a line torn by
\* an earlier kill; the rest of what it forgets are the events dropped for a
\* full channel and those of requests that outlived the grace.
ShutdownKeepsTheDay ==
    [][closed /\ ~closed' =>
          /\ today' = Limits!PrunedToday - ChargedToday(dropped \cup lost \cup Settled)
          /\ stuck \/ Cardinality(lost) <= 1]_vars

\* Every request that comes in is over in the end, by a response, an error or
\* the end of the process: nothing waits for ever on the queue or in finish.
EveryRequestEnds == \A r \in Requests : Unended(r) ~> ~Unended(r)

\* What is lent out is held by a request under way, and the engine works for covered ones only.
ResourcesCovered == GatewayTypeOK /\ NothingLeaks /\ EngineWorkIsCovered

\* The day's budget is the same in memory and in the file, and a restart keeps it.
DayIsKept == CounterMatchesFile /\ BudgetSurvivesRestart
=============================================================================
