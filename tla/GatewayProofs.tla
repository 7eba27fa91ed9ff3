--------------------------- MODULE GatewayProofs ---------------------------
(***************************************************************************)
(* Theorems about Gateway, for any requests, limits, slots and sizes of    *)
(* the recorder's channel: what the host has lent out is what the requests *)
(* under way hold; a request that was not sent costs nothing; and through  *)
(* kills, shutdowns, torn lines and failing disks the day's counter is     *)
(* what usage.jsonl would give back.                                       *)
(***************************************************************************)
EXTENDS Gateway, SumProofs, SequenceTheorems

QueueFacts == INSTANCE SlotQueueProofs WITH inFlight <- slotInFlight
LimitsFacts == INSTANCE LimiterProofs WITH Calls <- Requests, Detached <- {}

(***************************************************************************)
(* The queue and the limiter are instances here, and so are the modules of *)
(* their proofs: what a lemma there says of a step is said of this one.    *)
(***************************************************************************)

\* The queue's assumption is part of the gateway's.
LEMMA QueueAssumed ==
    QueueFacts!IsFiniteSet(Requests) /\ Streaming \subseteq Requests /\ MaxSlots \in Nat
BY GatewayAssumption DEF QueueFacts!IsFiniteSet, IsFiniteSet

\* So is the limiter's.
LEMMA LimitsAssumed ==
    /\ LimitsFacts!IsFiniteSet(Requests) /\ {} \subseteq Requests
    /\ MaxConcurrent \in Nat /\ RPM \in Nat /\ TPM \in Nat /\ DailyTokens \in Nat
    /\ Prompts \subseteq Nat /\ Outs \subseteq Int
    /\ MinOutput \in Nat \ {0} /\ Overrun \in Nat
    /\ Window \in Nat \ {0} /\ Day \in Nat \ {0} /\ MaxTime \in Nat
BY GatewayAssumption DEF LimitsFacts!IsFiniteSet, IsFiniteSet

\* The invariant of the queue.
LEMMA SameQueueInv == Queue!QueueInv <=> QueueFacts!QueueInv
BY DEF Queue!QueueInv, QueueFacts!QueueInv, Queue!QueueTypeOK, QueueFacts!QueueTypeOK,
   Queue!SlotAccounting, QueueFacts!SlotAccounting, Queue!LineExact, QueueFacts!LineExact,
   Queue!NeverStranded, QueueFacts!NeverStranded, Queue!IdleFresh, QueueFacts!IdleFresh,
   Queue!Owners, QueueFacts!Owners, Queue!Unserved, QueueFacts!Unserved, Queue!Distinct, QueueFacts!Distinct,
   Queue!Members, QueueFacts!Members, Queue!Cardinality, QueueFacts!Cardinality, Queue!Places, QueueFacts!Places,
   Queue!Reasons, QueueFacts!Reasons

\* The two instances of the queue have the same steps.
LEMMA SameQueueNext == Queue!QueueNext <=> QueueFacts!QueueNext
BY DEF Queue!QueueNext, QueueFacts!QueueNext, Queue!Acquire, QueueFacts!Acquire, Queue!Wait, QueueFacts!Wait,
   Queue!GiveUp, QueueFacts!GiveUp, Queue!Release, QueueFacts!Release, Queue!Depart, QueueFacts!Depart,
   Queue!NextRequest, QueueFacts!NextRequest, Queue!SlotsChange, QueueFacts!SlotsChange,
   Queue!AcquireNow, QueueFacts!AcquireNow, Queue!AcquireRefused, QueueFacts!AcquireRefused,
   Queue!AcquireWaits, QueueFacts!AcquireWaits, Queue!WaitHanded, QueueFacts!WaitHanded,
   Queue!WaitTimeout, QueueFacts!WaitTimeout, Queue!WaitGone, QueueFacts!WaitGone,
   Queue!WaitWriteFails, QueueFacts!WaitWriteFails, Queue!LeaveLine, QueueFacts!LeaveLine,
   Queue!HandOn, QueueFacts!HandOn, Queue!InLine, QueueFacts!InLine, Queue!DropAt, QueueFacts!DropAt,
   Queue!Fill, QueueFacts!Fill, Queue!FillCount, QueueFacts!FillCount, Queue!Limit, QueueFacts!Limit,
   Queue!MaxWaiting, QueueFacts!MaxWaiting, Queue!Goes, QueueFacts!Goes, Queue!Oldest, QueueFacts!Oldest,
   Queue!AfterOldest, QueueFacts!AfterOldest, Queue!queueState, QueueFacts!queueState

\* The queue's invariant is inductive here as well.
LEMMA QueueStep == Queue!QueueInv /\ (Queue!QueueNext \/ UNCHANGED queueVars) => Queue!QueueInv'
<1>1. QueueFacts!QueueInv /\ [QueueFacts!QueueNext]_(QueueFacts!queueVars) => QueueFacts!QueueInv'
  BY QueueAssumed, QueueFacts!QueueInvStep
<1>2. (Queue!QueueInv <=> QueueFacts!QueueInv)'
  BY SameQueueInv, PTL
<1>3. UNCHANGED queueVars => UNCHANGED QueueFacts!queueVars
  BY DEF queueVars, QueueFacts!queueVars, QueueFacts!queueState
<1> QED
  BY <1>1, <1>2, <1>3, SameQueueInv, SameQueueNext

\* The steps of the limiter.
LEMMA SameLimits ==
    ASSUME NEW r, NEW counted, NEW c
    PROVE  /\ Limits!LimiterInit <=> LimitsFacts!LimiterInit
           /\ Limits!Admit(r) <=> LimitsFacts!Admit(r)
           /\ Limits!AdmitRefused(r) <=> LimitsFacts!AdmitRefused(r)
           /\ Limits!Reserve(r) <=> LimitsFacts!Reserve(r)
           /\ Limits!ReserveRefused(r) <=> LimitsFacts!ReserveRefused(r)
           /\ Limits!SettleAs(r, counted, c) <=> LimitsFacts!SettleAs(r, counted, c)
           /\ Limits!Tick <=> LimitsFacts!Tick
           /\ Limits!PrunedToday = LimitsFacts!PrunedToday
           /\ Limits!LimiterTypeOK <=> LimitsFacts!LimiterTypeOK
<1> USE DEF Limits!PrunedLog, LimitsFacts!PrunedLog, Limits!PrunedCharges, LimitsFacts!PrunedCharges,
      Limits!Unexpired, LimitsFacts!Unexpired, Limits!LeadingExpired, LimitsFacts!LeadingExpired,
      Limits!PrunedToday, LimitsFacts!PrunedToday, Limits!PruneDay, LimitsFacts!PruneDay,
      Limits!DayOf, LimitsFacts!DayOf, Limits!Prune, LimitsFacts!Prune,
      Limits!ConcurrencyFull, LimitsFacts!ConcurrencyFull, Limits!RateFull, LimitsFacts!RateFull
<1>1. /\ Limits!Admit(r) <=> LimitsFacts!Admit(r)
      /\ Limits!AdmitRefused(r) <=> LimitsFacts!AdmitRefused(r)
  BY DEF Limits!Admit, LimitsFacts!Admit, Limits!AdmitRefused, LimitsFacts!AdmitRefused
<1>2. /\ Limits!Reserve(r) <=> LimitsFacts!Reserve(r)
      /\ Limits!ReserveRefused(r) <=> LimitsFacts!ReserveRefused(r)
  BY DEF Limits!Reserve, LimitsFacts!Reserve, Limits!ReserveRefused, LimitsFacts!ReserveRefused,
     Limits!MinuteFits, LimitsFacts!MinuteFits, Limits!DayFits, LimitsFacts!DayFits,
     Limits!MinuteOut, LimitsFacts!MinuteOut, Limits!DayOut, LimitsFacts!DayOut,
     Limits!Fits, LimitsFacts!Fits, Limits!FitBudget, LimitsFacts!FitBudget,
     Limits!DoesNotFit, LimitsFacts!DoesNotFit, Limits!MaxOf, LimitsFacts!MaxOf,
     Limits!Live, LimitsFacts!Live, Limits!DayUsed, LimitsFacts!DayUsed, Limits!Tokens, LimitsFacts!Tokens,
     Limits!FoldFunction, LimitsFacts!FoldFunction, Limits!FoldFunctionOnSet, LimitsFacts!FoldFunctionOnSet,
     Limits!MapThenFoldSet, LimitsFacts!MapThenFoldSet
<1>3. Limits!SettleAs(r, counted, c) <=> LimitsFacts!SettleAs(r, counted, c)
  BY DEF Limits!SettleAs, LimitsFacts!SettleAs, Limits!SettledInFlight, LimitsFacts!SettledInFlight,
     Limits!SettledReserved, LimitsFacts!SettledReserved, Limits!SettledLog, LimitsFacts!SettledLog,
     Limits!WithoutEntry, LimitsFacts!WithoutEntry
<1>4. /\ Limits!LimiterInit <=> LimitsFacts!LimiterInit
      /\ Limits!Tick <=> LimitsFacts!Tick
      /\ Limits!LimiterTypeOK <=> LimitsFacts!LimiterTypeOK
  BY DEF Limits!LimiterInit, LimitsFacts!LimiterInit, Limits!NoAdmission, LimitsFacts!NoAdmission,
     Limits!Tick, LimitsFacts!Tick, Limits!LimiterTypeOK, LimitsFacts!LimiterTypeOK,
     Limits!Stages, LimitsFacts!Stages
<1>5. Limits!PrunedToday = LimitsFacts!PrunedToday
  OBVIOUS
<1> QED
  BY <1>1, <1>2, <1>3, <1>4, <1>5

\* The sums of the two instances are the same sums.
LEMMA SameSum == ASSUME NEW f, NEW S PROVE LimitsFacts!SumOn(f, S) = SumOn(f, S)
BY DEF SumOn, LimitsFacts!SumOn, FoldFunctionOnSet, LimitsFacts!FoldFunctionOnSet,
   MapThenFoldSet, LimitsFacts!MapThenFoldSet

\* A step that is none of the limiter's.
LEMMA LimitsStutter ==
    ASSUME LimitsFacts!Lending, UNCHANGED limiterVars
    PROVE  LimitsFacts!Lending'
BY DEF limiterVars, LimitsFacts!Lending, LimitsFacts!LimiterTypeOK, LimitsFacts!InFlightExact,
   LimitsFacts!ReservedExact, LimitsFacts!HoldsWhileReserved, LimitsFacts!LiveRequests

\* What each step of the limiter keeps.
LEMMA LimitsStep ==
    ASSUME LimitsFacts!Lending, NEW r \in Requests, NEW counted \in BOOLEAN, NEW c \in Nat,
           \/ Limits!Admit(r) \/ Limits!AdmitRefused(r) \/ Limits!Reserve(r) \/ Limits!ReserveRefused(r)
           \/ Limits!SettleAs(r, counted, c) \/ Limits!Tick \/ UNCHANGED limiterVars
    PROVE  LimitsFacts!Lending'
<1>1. CASE LimitsFacts!Admit(r)
  BY ONLY <1>1, LimitsAssumed, LimitsFacts!Lending, r \in Requests, LimitsFacts!AdmitLends
<1>2. CASE LimitsFacts!AdmitRefused(r)
  <2>1. LimitsFacts!Prune /\ UNCHANGED <<now, keyInFlight, reserved, adm>>
    BY <1>2 DEF LimitsFacts!AdmitRefused
  <2> QED
    BY ONLY <2>1, LimitsAssumed, LimitsFacts!Lending, LimitsFacts!QuietLends
<1>3. CASE LimitsFacts!Reserve(r)
  BY ONLY <1>3, LimitsAssumed, LimitsFacts!Lending, r \in Requests, LimitsFacts!ReserveLends
<1>4. CASE LimitsFacts!ReserveRefused(r)
  BY ONLY <1>4, LimitsAssumed, LimitsFacts!Lending, r \in Requests, LimitsFacts!ReserveRefusedLends
<1>5. CASE LimitsFacts!SettleAs(r, counted, c)
  BY ONLY <1>5, LimitsAssumed, LimitsFacts!Lending, r \in Requests, counted \in BOOLEAN, c \in Nat,
          LimitsFacts!SettleLends
<1>6. CASE LimitsFacts!Tick
  BY ONLY <1>6, LimitsAssumed, LimitsFacts!Lending, LimitsFacts!TickLends
<1>7. CASE UNCHANGED limiterVars
  BY <1>7, LimitsStutter
<1> QED
  BY <1>1, <1>2, <1>3, <1>4, <1>5, <1>6, <1>7, SameLimits
-----------------------------------------------------------------------------
(* The queue and the limiter through every step of the gateway. *)

\* A step that moves nobody in the queue, but may end the context of some.
LEMMA DepartsKeepQueue ==
    ASSUME Queue!QueueInv, UNCHANGED <<slots, slotInFlight, waiters, handed, place, why>>,
           gone' \subseteq Requests
    PROVE  Queue!QueueInv'
BY DEF Queue!QueueInv, Queue!QueueTypeOK, Queue!SlotAccounting, Queue!LineExact, Queue!NeverStranded,
   Queue!IdleFresh, Queue!Owners, Queue!Unserved, Queue!Distinct, Queue!Members

\* The queue of a process that has just started is empty.
LEMMA RestartKeepsQueue ==
    ASSUME Queue!QueueInv, KilledAndRestarted
    PROVE  Queue!QueueInv'
<1>1. /\ slotInFlight' = 0 /\ waiters' = <<>> /\ handed' = {} /\ UNCHANGED <<slots, gone, why>>
      /\ place' = [r \in Requests |-> IF stage[r] = "new" THEN "idle" ELSE "done"]
  BY DEF KilledAndRestarted, StartsFrom
<1>2. Queue!Owners' = {} /\ Queue!Unserved' = {}
  BY <1>1 DEF Queue!Owners, Queue!Unserved
<1>3. Queue!QueueTypeOK'
  BY <1>1 DEF Queue!QueueInv, Queue!QueueTypeOK, Queue!Places
<1>4. Queue!SlotAccounting'
  <2>1. Queue!Cardinality({}) = 0
    BY FS_EmptySet DEF Cardinality, Queue!Cardinality
  <2> QED
    BY <1>1, <1>2, <2>1 DEF Queue!SlotAccounting
<1>5. Queue!LineExact' /\ Queue!NeverStranded' /\ Queue!IdleFresh'
  BY <1>1, <1>2 DEF Queue!LineExact, Queue!NeverStranded, Queue!IdleFresh, Queue!Distinct, Queue!Members
<1> QED
  BY <1>3, <1>4, <1>5 DEF Queue!QueueInv

\* Every step of the gateway is one of the queue's, or leaves it alone, or starts it anew.
LEMMA QueueKept ==
    ASSUME Queue!QueueInv, [GatewayNext]_vars
    PROVE  Queue!QueueInv'
<1>1. ASSUME NEW r \in Requests, AcquireSlot(r) \/ Queued(r) \/ ReleaseSlot(r) \/ FriendDeparts(r)
      PROVE  Queue!QueueNext
  BY <1>1 DEF AcquireSlot, Queued, ReleaseSlot, FriendDeparts, Queue!QueueNext, Queue!Wait
<1>2. CASE EngineResizes
  BY <1>2, QueueStep DEF EngineResizes, Queue!QueueNext
<1>3. CASE ShutsDown
  <2>1. gone' \subseteq Requests
    BY <1>3 DEF ShutsDown, At, Queue!QueueInv, Queue!QueueTypeOK
  <2> QED
    BY <1>3, <2>1, DepartsKeepQueue DEF ShutsDown
<1>4. CASE KilledAndRestarted
  BY <1>4, RestartKeepsQueue
<1>5. ASSUME NEW r \in Requests,
             \/ Arrive(r) \/ TurnedAway(r) \/ AdmitKey(r) \/ ListModels(r) \/ ReadBody(r) \/ Prepare(r)
             \/ CheckBudgets(r) \/ CallUpstream(r) \/ Relay(r) \/ SettleAdmission(r) \/ Unbuffer(r) \/ Record(r)
             \/ Panic(r)
      PROVE  UNCHANGED queueVars
  BY <1>5 DEF Arrive, TurnedAway, AdmitKey, ListModels, ReadBody, Prepare, CheckBudgets, CallUpstream, Relay,
     SettleAdmission, Unbuffer, Record, Panic, resourceVars
<1>6. CASE WriterTakes \/ WriterFlushes \/ WriterFails \/ TimePasses \/ UNCHANGED vars
  <2>1. UNCHANGED queueVars
    BY <1>6 DEF WriterTakes, WriterFlushes, WriterFails, TimePasses, vars, resourceVars
  <2> QED
    BY <2>1, QueueStep
<1> QED
  BY <1>1, <1>2, <1>3, <1>4, <1>5, <1>6, QueueStep DEF GatewayNext, Works

-----------------------------------------------------------------------------
(* What is lent out. *)

\* Where a request stands says what it holds: its admission is at that stage
\* of the limiter, its call of acquire at that place, its body counted.
HasSlot == {"call", "relay", "release"}
HasBody == {"prepare", "budget", "queue", "waiting", "call", "relay", "release", "unbuffer"}
IsAdmitted == {"list", "body", "prepare", "budget", "queue", "waiting", "call", "relay", "release", "settle"}
LentOK(st, a, p, b) ==
    /\ st \in {"new", "admit"} => a = "new"
    /\ st \in {"list", "body", "prepare", "budget"} => a = "admitted"
    /\ st \in {"queue", "waiting", "call", "relay", "release"} => a = "reserved"
    /\ st = "settle" => a \in {"admitted", "refused", "reserved"}
    /\ st = "unbuffer" => a = "settled"
    /\ st \in {"record", "over", "dead"} => a \in {"new", "settled"}
    /\ st \in {"new", "admit", "list", "body", "prepare", "budget", "queue"} => p = "idle"
    /\ st = "waiting" => p \in {"waiting", "leaving"}
    /\ st \in HasSlot => p = "holding"
    /\ st \in {"settle", "unbuffer", "record", "over", "dead"} => p \in {"idle", "done"}
    /\ st \in HasBody => b
    /\ b => st \in HasBody \cup {"settle"}

RecorderTypeOK ==
    /\ buffer \in Seq(Requests) /\ Len(buffer) <= BufferedEvents /\ page \in Seq(Requests)
    /\ ledger \subseteq Requests /\ dropped \subseteq Requests /\ lost \subseteq Requests
    /\ torn \in BOOLEAN /\ stuck \in BOOLEAN /\ closed \in BOOLEAN

PipelineTypeOK ==
    /\ stage \in [Requests -> Stages] /\ outcome \in [Requests -> Outcomes]
    /\ timedOut \subseteq Requests /\ sent \subseteq Requests /\ buffered \subseteq Requests
    /\ bodies = Cardinality(buffered)

LentInv ==
    /\ Queue!QueueInv /\ LimitsFacts!Lending /\ PipelineTypeOK /\ RecorderTypeOK
    /\ \A r \in Requests : LentOK(stage[r], adm[r].stage, place[r], r \in buffered)

\* What the invariant says of the variables' types.
LEMMA LentTypes ==
    ASSUME LentInv
    PROVE  /\ place \in [Requests -> Queue!Places] /\ why \in [Requests -> Queue!Reasons]
           /\ gone \subseteq Requests /\ handed \subseteq Requests
           /\ adm \in [Requests -> LimitsFacts!Admission] /\ reserved \in Nat /\ now \in Nat
           /\ stage \in [Requests -> Stages] /\ outcome \in [Requests -> Outcomes]
           /\ buffered \subseteq Requests /\ IsFiniteSet(buffered)
<1>1. /\ place \in [Requests -> Queue!Places] /\ why \in [Requests -> Queue!Reasons]
      /\ gone \subseteq Requests /\ handed \subseteq Requests
  BY DEF LentInv, Queue!QueueInv, Queue!QueueTypeOK
<1>2. adm \in [Requests -> LimitsFacts!Admission] /\ reserved \in Nat /\ now \in Nat
  <2>1. LimitsFacts!LimiterTypeOK /\ MaxTime \in Nat
    BY LimitsAssumed DEF LentInv, LimitsFacts!Lending
  <2> QED
    BY <2>1 DEF LimitsFacts!LimiterTypeOK, LimitsFacts!Admission
<1>3. /\ stage \in [Requests -> Stages] /\ outcome \in [Requests -> Outcomes]
      /\ buffered \subseteq Requests
  BY DEF LentInv, PipelineTypeOK
<1>4. IsFiniteSet(buffered)
  BY <1>3, GatewayAssumption, FS_Subset
<1> QED
  BY <1>1, <1>2, <1>3, <1>4

\* A step of one request: what the others hold is left alone.
OneLends(r) ==
    \A q \in Requests \ {r} : /\ stage'[q] = stage[q] /\ place'[q] = place[q]
                              /\ adm'[q].stage = adm[q].stage /\ (q \in buffered' <=> q \in buffered)

\* A step that moves one request keeps the invariant if that request comes out right.
LEMMA OneLendsKeeps ==
    ASSUME LentInv, NEW r \in Requests, OneLends(r), PipelineTypeOK', RecorderTypeOK',
           Queue!QueueInv', LimitsFacts!Lending',
           LentOK(stage'[r], adm'[r].stage, place'[r], r \in buffered')
    PROVE  LentInv'
<1>1. ASSUME NEW q \in Requests
      PROVE  LentOK(stage'[q], adm'[q].stage, place'[q], q \in buffered')
  <2>1. CASE q = r
    BY <2>1
  <2>2. CASE q # r
    <3>1. /\ stage'[q] = stage[q] /\ place'[q] = place[q] /\ adm'[q].stage = adm[q].stage
          /\ (q \in buffered' <=> q \in buffered)
      BY <2>2 DEF OneLends
    <3>2. LentOK(stage[q], adm[q].stage, place[q], q \in buffered)
      BY DEF LentInv
    <3> QED
      BY <3>1, <3>2 DEF LentOK
  <2> QED
    BY <2>1, <2>2
<1> QED
  BY <1>1 DEF LentInv

-----------------------------------------------------------------------------
(* The steps of a request. *)

\* The steps that touch neither the limiter nor the queue nor the body.
LEMMA PassesLend ==
    ASSUME LentInv, Queue!QueueInv', NEW r \in Requests,
           Arrive(r) \/ TurnedAway(r) \/ ListModels(r) \/ Prepare(r) \/ CallUpstream(r) \/ Relay(r) \/ Panic(r)
    PROVE  LentInv'
<1>1. LentOK(stage[r], adm[r].stage, place[r], r \in buffered) /\ PipelineTypeOK /\ RecorderTypeOK
  BY DEF LentInv
<1>2. UNCHANGED <<queueVars, limiterVars, bodyVars, recorderVars>>
  BY DEF Arrive, TurnedAway, ListModels, Prepare, CallUpstream, Relay, Panic, resourceVars
<1>3. LimitsFacts!Lending'
  BY <1>2, LimitsStutter DEF LentInv
<1>4. /\ RecorderTypeOK'
      /\ UNCHANGED <<adm, place, buffered, bodies>>
  BY <1>1, <1>2 DEF RecorderTypeOK, recorderVars, fileVars, queueVars, limiterVars, bodyVars
<1>5. PipelineTypeOK'
  BY <1>1, <1>4 DEF PipelineTypeOK, Arrive, TurnedAway, ListModels, Prepare, CallUpstream, Relay, Panic,
     Proceeds, Ends, CallOutcome, Stages, Outcomes
<1>6. OneLends(r)
  BY <1>1, <1>4 DEF PipelineTypeOK, Arrive, TurnedAway, ListModels, Prepare, CallUpstream, Relay, Panic,
     Proceeds, Ends, OneLends
<1>7. LentOK(stage'[r], adm'[r].stage, place'[r], r \in buffered')
  BY <1>1, <1>4 DEF PipelineTypeOK, LentOK, HasSlot, HasBody, Arrive, TurnedAway, ListModels, Prepare, CallUpstream,
     Relay, Panic, Proceeds, Ends
<1> QED
  BY <1>3, <1>4, <1>5, <1>6, <1>7, OneLendsKeeps

\* admit and reserve.
LEMMA AdmitLendsHere ==
    ASSUME LentInv, Queue!QueueInv', NEW r \in Requests, AdmitKey(r) \/ CheckBudgets(r)
    PROVE  LentInv'
<1>1. /\ LentOK(stage[r], adm[r].stage, place[r], r \in buffered) /\ PipelineTypeOK /\ RecorderTypeOK
      /\ adm \in [Requests -> LimitsFacts!Admission]
  BY LentTypes DEF LentInv
<1>2. UNCHANGED <<queueVars, bodyVars, recorderVars>>
  BY DEF AdmitKey, CheckBudgets
<1>3. Limits!Admit(r) \/ Limits!AdmitRefused(r) \/ Limits!Reserve(r) \/ Limits!ReserveRefused(r)
      \/ UNCHANGED limiterVars
  BY DEF AdmitKey, CheckBudgets
<1>4. LimitsFacts!Lending'
  BY <1>3, LimitsStep, 0 \in Nat, TRUE \in BOOLEAN DEF LentInv
<1>5. RecorderTypeOK' /\ UNCHANGED <<place, buffered, bodies>>
  BY <1>1, <1>2 DEF RecorderTypeOK, recorderVars, fileVars, queueVars, bodyVars
<1>6. \/ /\ stage[r] = "admit" /\ Proceeds(r, IF r \in Lists THEN "list" ELSE "body")
         /\ adm' = [adm EXCEPT ![r].stage = "admitted", ![r].since = now]
      \/ /\ stage[r] = "admit" /\ Ends(r, "rejected", "record") /\ UNCHANGED <<timedOut, sent>> /\ adm' = adm
      \/ /\ stage[r] = "budget" /\ Proceeds(r, "queue")
         /\ \E w : adm' = [adm EXCEPT ![r].stage = "reserved", ![r].reserved = w]
      \/ /\ stage[r] = "budget" /\ Ends(r, "rejected", "settle") /\ UNCHANGED <<timedOut, sent>>
         /\ adm' = adm \/ adm' = [adm EXCEPT ![r].stage = "refused"]
  BY DEF AdmitKey, CheckBudgets, Limits!Admit, Limits!AdmitRefused, Limits!Reserve, Limits!ReserveRefused,
     limiterVars
<1>7. PipelineTypeOK'
  BY <1>1, <1>5, <1>6 DEF PipelineTypeOK, Proceeds, Ends, Stages, Outcomes
<1>8. /\ \A q \in Requests \ {r} : adm'[q] = adm[q]
      /\ stage'[r] \in {"list", "body"} => adm'[r].stage = "admitted"
      /\ stage'[r] = "queue" => adm'[r].stage = "reserved"
      /\ stage'[r] = "settle" => adm'[r].stage \in {adm[r].stage, "refused"}
      /\ stage'[r] = "record" => adm'[r].stage = adm[r].stage
      /\ \/ stage[r] = "admit" /\ stage'[r] \in {"list", "body", "record"}
         \/ stage[r] = "budget" /\ stage'[r] \in {"queue", "settle"}
  BY <1>1, <1>6 DEF PipelineTypeOK, Proceeds, Ends, LimitsFacts!Admission
<1>9. OneLends(r)
  BY <1>1, <1>5, <1>6, <1>8 DEF PipelineTypeOK, Proceeds, Ends, OneLends
<1>10. LentOK(stage'[r], adm'[r].stage, place'[r], r \in buffered')
  BY <1>1, <1>5, <1>8 DEF LentOK, HasSlot, HasBody
<1> QED
  BY <1>4, <1>5, <1>7, <1>9, <1>10, OneLendsKeeps

\* acquire, its wait, and release.
LEMMA QueueLends ==
    ASSUME LentInv, Queue!QueueInv', NEW r \in Requests, AcquireSlot(r) \/ Queued(r) \/ ReleaseSlot(r)
    PROVE  LentInv'
<1>1. /\ LentOK(stage[r], adm[r].stage, place[r], r \in buffered) /\ PipelineTypeOK /\ RecorderTypeOK
      /\ place \in [Requests -> Queue!Places]
  BY LentTypes DEF LentInv
<1>2. UNCHANGED <<limiterVars, bodyVars, recorderVars>>
  BY DEF AcquireSlot, Queued, ReleaseSlot
<1>3. LimitsFacts!Lending'
  BY <1>2, LimitsStutter DEF LentInv
<1>4. RecorderTypeOK' /\ UNCHANGED <<adm, buffered, bodies>>
  BY <1>1, <1>2 DEF RecorderTypeOK, recorderVars, fileVars, limiterVars, bodyVars
<1>5. \E to \in {"holding", "waiting", "leaving", "done"} : place' = [place EXCEPT ![r] = to]
  BY DEF AcquireSlot, Queued, ReleaseSlot, Queue!Acquire, Queue!AcquireNow, Queue!AcquireRefused,
     Queue!AcquireWaits, Queue!WaitHanded, Queue!WaitTimeout, Queue!WaitGone, Queue!WaitWriteFails,
     Queue!GiveUp, Queue!LeaveLine, Queue!HandOn, Queue!Release, Queue!Goes
<1>6. \/ /\ stage[r] = "queue" /\ place'[r] = "done" /\ Ends(r, "rejected", "settle")
         /\ UNCHANGED <<timedOut, sent>>
      \/ stage[r] = "queue" /\ place'[r] = "holding" /\ Proceeds(r, "call")
      \/ stage[r] = "queue" /\ place'[r] = "waiting" /\ Proceeds(r, "waiting")
      \/ stage[r] = "waiting" /\ place'[r] = "holding" /\ Proceeds(r, "call")
      \/ stage[r] = "waiting" /\ place'[r] = "leaving" /\ UNCHANGED <<stage, outcome, timedOut, sent>>
      \/ /\ stage[r] = "waiting" /\ place'[r] = "done" /\ Ends(r, "queue_lost", "settle")
         /\ timedOut' \in {timedOut, timedOut \cup {r}} /\ UNCHANGED sent
      \/ stage[r] = "release" /\ place'[r] = "done" /\ Proceeds(r, "settle")
  BY <1>1 DEF AcquireSlot, Queued, ReleaseSlot, Queue!Acquire, Queue!AcquireNow, Queue!AcquireRefused,
     Queue!AcquireWaits, Queue!WaitHanded, Queue!WaitTimeout, Queue!WaitGone, Queue!WaitWriteFails,
     Queue!GiveUp, Queue!LeaveLine, Queue!HandOn, Queue!Release, Queue!Goes
<1>7. PipelineTypeOK'
  BY <1>1, <1>4, <1>6 DEF PipelineTypeOK, Proceeds, Ends, Stages, Outcomes
<1>8. OneLends(r)
  BY <1>1, <1>4, <1>5, <1>6 DEF PipelineTypeOK, Proceeds, Ends, OneLends
<1>9. LentOK(stage'[r], adm'[r].stage, place'[r], r \in buffered')
  BY <1>1, <1>4, <1>6 DEF PipelineTypeOK, Proceeds, Ends, LentOK, HasSlot, HasBody
<1> QED
  BY <1>3, <1>4, <1>7, <1>8, <1>9, OneLendsKeeps

\* What settleRow charges: nothing, or what the engine reported within Overrun
\* of the reservation.
LEMMA RowCharges ==
    ASSUME NEW r \in Requests, adm[r].reserved \in Nat, NEW row \in SettleRow(r)
    PROVE  row[1] \in BOOLEAN /\ row[2] \in Nat /\ row[2] <= adm[r].reserved + Overrun
<1>1. Overrun \in Nat
  BY GatewayAssumption
<1> DEFINE reported == 0..(adm[r].reserved + Overrun)
<1>2. \/ row \in {TRUE} \X reported
      \/ \E b \in BOOLEAN : row = <<b, 0>> \/ row = <<b, adm[r].reserved>>
  <2>1. CASE r \in Lists \/ outcome[r] \notin {"queue_lost", "engine_err", "served", "cut"}
    <3>1. SettleRow(r) = {<<FALSE, 0>>}
      BY <2>1 DEF SettleRow
    <3> QED
      BY <3>1
  <2>2. CASE r \notin Lists /\ outcome[r] = "queue_lost"
    <3>1. SettleRow(r) = {<<r \in timedOut, 0>>} /\ (r \in timedOut) \in BOOLEAN
      BY <2>2 DEF SettleRow
    <3> QED
      BY <3>1
  <2>3. CASE r \notin Lists /\ outcome[r] = "engine_err"
    <3>1. SettleRow(r) = {<<TRUE, 0>>}
      BY <2>3 DEF SettleRow
    <3> QED
      BY <3>1
  <2>4. CASE r \notin Lists /\ (outcome[r] = "served" \/ (outcome[r] = "cut" /\ r \in Streaming))
    <3>1. SettleRow(r) = {TRUE} \X reported
      BY <2>4 DEF SettleRow
    <3> QED
      BY <3>1
  <2>5. CASE r \notin Lists /\ outcome[r] = "cut" /\ r \notin Streaming
    <3>1. SettleRow(r) = {<<TRUE, adm[r].reserved>>}
      BY <2>5 DEF SettleRow
    <3> QED
      BY <3>1
  <2> QED
    BY <2>1, <2>2, <2>3, <2>4, <2>5
<1>3. CASE row \in {TRUE} \X reported
  <2>1. row[1] = TRUE
    BY <1>3
  <2>2. row[2] \in 0..(adm[r].reserved + Overrun)
    BY <1>3
  <2>3. row[2] \in Nat /\ row[2] <= adm[r].reserved + Overrun
    BY <1>1, <2>2
  <2> QED
    BY <2>1, <2>3
<1>4. CASE \E b \in BOOLEAN : row = <<b, 0>> \/ row = <<b, adm[r].reserved>>
  <2>1. PICK b \in BOOLEAN : row = <<b, 0>> \/ row = <<b, adm[r].reserved>>
    BY <1>4
  <2>2. row[1] = b /\ row[2] \in {0, adm[r].reserved}
    BY <2>1
  <2> QED
    BY <1>1, <2>2
<1> QED
  BY <1>2, <1>3, <1>4

\* settle: the first thing finish gives back after the slot.
LEMMA SettleLendsHere ==
    ASSUME LentInv, Queue!QueueInv', NEW r \in Requests, SettleAdmission(r)
    PROVE  LentInv'
<1>1. /\ LentOK(stage[r], adm[r].stage, place[r], r \in buffered) /\ PipelineTypeOK /\ RecorderTypeOK
      /\ adm \in [Requests -> LimitsFacts!Admission]
  BY LentTypes DEF LentInv
<1>2. /\ UNCHANGED <<queueVars, bodyVars, recorderVars>>
      /\ stage[r] = "settle" /\ Proceeds(r, IF r \in buffered THEN "unbuffer" ELSE "record")
  BY DEF SettleAdmission
<1>3. PICK row \in SettleRow(r) : Limits!SettleAs(r, row[1], row[2])
  BY DEF SettleAdmission
<1>4. row[1] \in BOOLEAN /\ row[2] \in Nat
  BY <1>1, RowCharges DEF LimitsFacts!Admission
<1>5. LimitsFacts!Lending'
  BY <1>3, <1>4, LimitsStep DEF LentInv
<1>6. RecorderTypeOK' /\ UNCHANGED <<place, buffered, bodies>>
  BY <1>1, <1>2 DEF RecorderTypeOK, recorderVars, fileVars, queueVars, bodyVars
<1>7. adm'[r].stage = "settled" /\ \A q \in Requests \ {r} : adm'[q] = adm[q]
  BY <1>1, <1>3 DEF Limits!SettleAs, LimitsFacts!Admission
<1>8. PipelineTypeOK'
  BY <1>1, <1>2, <1>6 DEF PipelineTypeOK, Proceeds, Stages
<1>9. OneLends(r)
  BY <1>1, <1>2, <1>6, <1>7 DEF PipelineTypeOK, Proceeds, OneLends
<1>10. LentOK(stage'[r], adm'[r].stage, place'[r], r \in buffered')
  BY <1>1, <1>2, <1>6, <1>7 DEF PipelineTypeOK, Proceeds, LentOK, HasSlot, HasBody
<1> QED
  BY <1>5, <1>6, <1>8, <1>9, <1>10, OneLendsKeeps

\* readBody counts the body, and finish counts it out again.
LEMMA BodyLends ==
    ASSUME LentInv, Queue!QueueInv', NEW r \in Requests, ReadBody(r) \/ Unbuffer(r)
    PROVE  LentInv'
<1>1. /\ LentOK(stage[r], adm[r].stage, place[r], r \in buffered) /\ PipelineTypeOK /\ RecorderTypeOK
      /\ IsFiniteSet(buffered)
  BY LentTypes DEF LentInv
<1>2. UNCHANGED <<queueVars, limiterVars, recorderVars>>
  BY DEF ReadBody, Unbuffer
<1>3. LimitsFacts!Lending'
  BY <1>2, LimitsStutter DEF LentInv
<1>4. RecorderTypeOK' /\ UNCHANGED <<place, adm>>
  BY <1>1, <1>2 DEF RecorderTypeOK, recorderVars, fileVars, queueVars, limiterVars
<1>5. \/ /\ stage[r] = "body" /\ Proceeds(r, "prepare") /\ r \notin buffered
         /\ buffered' = buffered \cup {r} /\ bodies' = bodies + 1
      \/ /\ stage[r] = "body" /\ Ends(r, "rejected", "settle") /\ UNCHANGED <<bodyVars, timedOut, sent>>
      \/ /\ stage[r] = "unbuffer" /\ Proceeds(r, "record") /\ r \in buffered
         /\ buffered' = buffered \ {r} /\ bodies' = bodies - 1
  BY <1>1 DEF ReadBody, Unbuffer, LentOK, HasBody
<1>6. Cardinality(buffered \cup {r}) = IF r \in buffered THEN Cardinality(buffered) ELSE Cardinality(buffered) + 1
  BY <1>1, FS_AddElement
<1>7. Cardinality(buffered \ {r}) = IF r \in buffered THEN Cardinality(buffered) - 1 ELSE Cardinality(buffered)
  BY <1>1, FS_RemoveElement
<1>8. PipelineTypeOK'
  <2>1. bodies' = Cardinality(buffered') /\ buffered' \subseteq Requests
    BY <1>1, <1>5, <1>6, <1>7 DEF PipelineTypeOK, bodyVars
  <2> QED
    BY <1>1, <1>5, <2>1 DEF PipelineTypeOK, Proceeds, Ends, Stages, Outcomes
<1>9. OneLends(r)
  BY <1>1, <1>4, <1>5 DEF PipelineTypeOK, Proceeds, Ends, OneLends, bodyVars
<1>10. LentOK(stage'[r], adm'[r].stage, place'[r], r \in buffered')
  BY <1>1, <1>4, <1>5 DEF PipelineTypeOK, Proceeds, Ends, LentOK, HasSlot, HasBody, bodyVars
<1> QED
  BY <1>3, <1>4, <1>8, <1>9, <1>10, OneLendsKeeps

\* The event at the end of finish.
LEMMA RecordLends ==
    ASSUME LentInv, Queue!QueueInv', NEW r \in Requests, Record(r)
    PROVE  LentInv'
<1>1. /\ LentOK(stage[r], adm[r].stage, place[r], r \in buffered) /\ PipelineTypeOK /\ RecorderTypeOK
  BY LentTypes DEF LentInv
<1>2. /\ UNCHANGED <<queueVars, limiterVars, bodyVars, closed, fileVars>>
      /\ stage[r] = "record" /\ Proceeds(r, "over")
  BY DEF Record
<1>3. LimitsFacts!Lending'
  BY <1>2, LimitsStutter DEF LentInv
<1>4. RecorderTypeOK'
  <2>1. Len(buffer) < BufferedEvents => Append(buffer, r) \in Seq(Requests) /\ Len(Append(buffer, r)) <= BufferedEvents
    BY <1>1, GatewayAssumption DEF RecorderTypeOK
  <2>2. /\ buffer' \in Seq(Requests) /\ Len(buffer') <= BufferedEvents /\ dropped' \subseteq Requests
    BY <1>1, <2>1 DEF Record, RecorderTypeOK
  <2> QED
    BY <1>1, <1>2, <2>2 DEF RecorderTypeOK, fileVars
<1>5. UNCHANGED <<place, adm, buffered, bodies>>
  BY <1>2 DEF queueVars, limiterVars, bodyVars
<1>6. PipelineTypeOK'
  BY <1>1, <1>2, <1>5 DEF PipelineTypeOK, Proceeds, Stages
<1>7. OneLends(r)
  BY <1>1, <1>2, <1>5 DEF PipelineTypeOK, Proceeds, OneLends
<1>8. LentOK(stage'[r], adm'[r].stage, place'[r], r \in buffered')
  BY <1>1, <1>2, <1>5 DEF PipelineTypeOK, Proceeds, LentOK, HasSlot, HasBody
<1> QED
  BY <1>3, <1>4, <1>6, <1>7, <1>8, OneLendsKeeps

-----------------------------------------------------------------------------
(* The recorder, the clock, and the life of the process. *)

\* What can be read again of what is written is among what is written.
LEMMA LegibleWritten ==
    ASSUME NEW w \in Seq(Requests)
    PROVE  Legible(w) \subseteq Range(w) /\ Range(w) \subseteq Requests
BY DEF Legible, Range

\* A step that moves no request.
LEMMA StillLend ==
    ASSUME LentInv, Queue!QueueInv', LimitsFacts!Lending', RecorderTypeOK',
           \A q \in Requests : adm'[q].stage = adm[q].stage,
           UNCHANGED <<stage, outcome, timedOut, sent, buffered, bodies, place>>
    PROVE  LentInv'
BY DEF LentInv, PipelineTypeOK

\* The recorder's writer and the start of a shutdown.
LEMMA RecorderLends ==
    ASSUME LentInv, Queue!QueueInv', WriterTakes \/ WriterFlushes \/ WriterFails \/ ShutsDown
    PROVE  LentInv'
<1>1. RecorderTypeOK
  BY DEF LentInv
<1>2. UNCHANGED <<stage, outcome, timedOut, sent, bodyVars, limiterVars, place>>
  BY DEF WriterTakes, WriterFlushes, WriterFails, ShutsDown, queueVars
<1>3. LimitsFacts!Lending'
  BY <1>2, LimitsStutter DEF LentInv
<1>4. RecorderTypeOK'
  <2>1. CASE WriterTakes
    <3>1. Tail(buffer) \in Seq(Requests) /\ Len(Tail(buffer)) <= BufferedEvents
          /\ Append(page, Head(buffer)) \in Seq(Requests)
      BY <1>1, <2>1, GatewayAssumption DEF RecorderTypeOK, WriterTakes
    <3> QED
      BY <1>1, <2>1, <3>1 DEF RecorderTypeOK, WriterTakes
  <2>2. CASE WriterFlushes
    <3>1. Legible(page) \subseteq Requests /\ Range(page) \subseteq Requests
      BY <1>1, LegibleWritten DEF RecorderTypeOK
    <3> QED
      BY <1>1, <2>2, <3>1 DEF RecorderTypeOK, WriterFlushes
  <2>3. CASE WriterFails
    <3>1. Range(page) \subseteq Requests
      BY <1>1, LegibleWritten DEF RecorderTypeOK
    <3> QED
      <4>1. torn' \in BOOLEAN /\ stuck' \in BOOLEAN
        BY <1>1, <2>3 DEF RecorderTypeOK, WriterFails
      <4> QED
        BY <1>1, <2>3, <3>1, <4>1 DEF RecorderTypeOK, WriterFails
  <2>4. CASE ShutsDown
    <3>1. Writes \in Seq(Requests)
      BY <1>1 DEF RecorderTypeOK, Writes
    <3>2. Legible(Writes) \subseteq Requests /\ Range(Writes) \subseteq Requests
      BY <3>1, LegibleWritten
    <3>3. Len(<<>>) <= BufferedEvents /\ <<>> \in Seq(Requests)
      BY GatewayAssumption
    <3>4. (torn /\ (stuck \/ Writes = <<>>)) \in BOOLEAN
      OBVIOUS
    <3> QED
      BY <1>1, <2>4, <3>2, <3>3, <3>4 DEF RecorderTypeOK, ShutsDown
  <2> QED
    BY <2>1, <2>2, <2>3, <2>4
<1> QED
  BY <1>2, <1>3, <1>4, StillLend DEF limiterVars, bodyVars

\* The limiter of a process that has just started: nothing is lent, and the day
\* is what the file says.
LEMMA ChargesAreNat ==
    ASSUME adm \in [Requests -> LimitsFacts!Admission]
    PROVE  \A S \in SUBSET Requests : ChargedToday(S) \in Nat
<1> DEFINE charged == [r \in Requests |-> adm[r].charged]
<1> SUFFICES ASSUME NEW S \in SUBSET Requests PROVE ChargedToday(S) \in Nat
  OBVIOUS
<1> DEFINE T == {r \in S : Limits!DayOf(AccountingTime(r)) = Limits!DayOf(now)}
<1>1. IsFiniteSet(T)
  BY GatewayAssumption, FS_Subset, T \in SUBSET Requests
<1>2. NatOn(charged, T)
  BY DEF NatOn, LimitsFacts!Admission
<1>3. ChargedToday(S) = SumOn(charged, T)
  BY DEF ChargedToday, SumOn
<1> HIDE DEF charged, T
<1> QED
  BY <1>1, <1>2, <1>3, SumType

\* A new process has a fresh limiter with the day seeded from the file.
LEMMA RestartLimits ==
    ASSUME LentInv, KilledAndRestarted
    PROVE  LimitsFacts!Lending'
<1>1. /\ log' = <<>> /\ keyInFlight' = 0 /\ charges' = <<>> /\ reserved' = 0 /\ now' = now
      /\ today' = ChargedToday(ledger) /\ day' = Limits!DayOf(now)
      /\ adm' = [r \in Requests |-> IF Unended(r) /\ adm[r].stage # "settled"
                                    THEN [Limits!NoAdmission EXCEPT !.stage = "settled"] ELSE adm[r]]
  BY DEF KilledAndRestarted, StartsFrom, SeededToday
<1>2. /\ adm \in [Requests -> LimitsFacts!Admission] /\ now \in Nat /\ ledger \in SUBSET Requests
      /\ LimitsFacts!LimiterTypeOK /\ LimitsFacts!HoldsWhileReserved
      /\ stage \in [Requests -> Stages]
      /\ \A r \in Requests : LentOK(stage[r], adm[r].stage, place[r], r \in buffered)
  BY LentTypes DEF LentInv, RecorderTypeOK, LimitsFacts!Lending
<1> DEFINE none == [Limits!NoAdmission EXCEPT !.stage = "settled"]
<1>3. none \in LimitsFacts!Admission /\ none.stage = "settled" /\ none.reserved = 0
  BY DEF Limits!NoAdmission, LimitsFacts!Admission, LimitsFacts!Stages
<1>4. adm' = [r \in Requests |-> IF Unended(r) /\ adm[r].stage # "settled" THEN none ELSE adm[r]]
  BY <1>1
<1> HIDE DEF none
<1>5. adm' \in [Requests -> LimitsFacts!Admission]
  BY <1>2, <1>3, <1>4
<1>6. \A r \in Requests : adm'[r].stage \in {"new", "settled"} /\ adm'[r].reserved = 0
  <2> SUFFICES ASSUME NEW r \in Requests
               PROVE  adm'[r].stage \in {"new", "settled"} /\ adm'[r].reserved = 0
    OBVIOUS
  <2>1. adm'[r] = IF Unended(r) /\ adm[r].stage # "settled" THEN none ELSE adm[r]
    BY <1>4
  <2>2. CASE adm[r].stage = "settled"
    BY <1>2, <2>1, <2>2 DEF LimitsFacts!HoldsWhileReserved
  <2>3. CASE Unended(r) /\ adm[r].stage # "settled"
    BY <1>3, <2>1, <2>3
  <2>4. CASE ~Unended(r) /\ adm[r].stage # "settled"
    <3>1. adm[r].stage = "new"
      BY <1>2, <2>4 DEF Unended, LentOK
    <3> QED
      BY <1>2, <2>1, <2>4, <3>1 DEF LimitsFacts!HoldsWhileReserved
  <2> QED
    BY <2>2, <2>3, <2>4
<1>7. day' \in Nat /\ today' \in Nat
  <2>1. LimitsFacts!DayOf(now) \in Nat
    BY <1>2, LimitsAssumed, LimitsFacts!DayFacts
  <2>2. Limits!DayOf(now) = LimitsFacts!DayOf(now)
    BY DEF Limits!DayOf, LimitsFacts!DayOf
  <2> QED
    BY <1>1, <1>2, <2>1, <2>2, ChargesAreNat
<1>8. LimitsFacts!LimiterTypeOK'
  <2>1. now' \in 0..MaxTime
    BY <1>1, <1>2 DEF LimitsFacts!LimiterTypeOK
  <2>2. log' \in Seq([t : Nat, seq : Requests]) /\ charges' \in Seq([t : Nat, amount : Nat])
    BY <1>1
  <2>3. keyInFlight' \in Nat /\ reserved' \in Nat
    BY <1>1
  <2>4. adm' \in [Requests -> [stage : LimitsFacts!Stages, reserved : Nat, since : Nat,
                             counted : BOOLEAN, charged : Nat, at : Nat]]
    BY <1>5 DEF LimitsFacts!Admission
  <2> QED
    BY <1>7, <2>1, <2>2, <2>3, <2>4 DEF LimitsFacts!LimiterTypeOK
<1>9. LimitsFacts!LiveRequests' = {}
  BY <1>6 DEF LimitsFacts!LiveRequests
<1>10. LimitsFacts!InFlightExact'
  <2>1. LimitsFacts!Cardinality({} \ {}) = 0
    BY FS_EmptySet, {} \ {} = {} DEF Cardinality, LimitsFacts!Cardinality
  <2> QED
    BY <1>1, <1>9, <2>1, LimitsAssumed DEF LimitsFacts!InFlightExact
<1>11. LimitsFacts!ReservedExact'
  <2>1. \A f : LimitsFacts!SumOver({}, f) = SumOn(f, {})
    BY DEF SumOn, LimitsFacts!SumOver, FoldFunctionOnSet, LimitsFacts!FoldFunctionOnSet,
       MapThenFoldSet, LimitsFacts!MapThenFoldSet
  <2>2. \A f : LimitsFacts!SumOver({}, f) = 0
    BY <2>1, SumEmpty
  <2> QED
    BY <1>1, <1>9, <2>2 DEF LimitsFacts!ReservedExact
<1> QED
  BY <1>6, <1>8, <1>10, <1>11 DEF LimitsFacts!Lending, LimitsFacts!HoldsWhileReserved

\* A kill, and the process that follows.
LEMMA RestartLends ==
    ASSUME LentInv, Queue!QueueInv', KilledAndRestarted
    PROVE  LentInv'
<1>1. /\ PipelineTypeOK /\ RecorderTypeOK
      /\ \A r \in Requests : LentOK(stage[r], adm[r].stage, place[r], r \in buffered)
  BY DEF LentInv
<1>2. /\ place' = [r \in Requests |-> IF stage[r] = "new" THEN "idle" ELSE "done"]
      /\ stage' = [r \in Requests |-> IF Unended(r) THEN "dead" ELSE stage[r]]
      /\ adm' = [r \in Requests |-> IF Unended(r) /\ adm[r].stage # "settled"
                                    THEN [Limits!NoAdmission EXCEPT !.stage = "settled"] ELSE adm[r]]
      /\ buffered' = {} /\ bodies' = 0 /\ buffer' = <<>> /\ page' = <<>> /\ dropped' = {} /\ lost' = {}
      /\ stuck' = FALSE /\ closed' = FALSE /\ ledger' = ledger
      /\ UNCHANGED <<outcome, timedOut, sent>>
      /\ torn' \in {torn, torn \/ (DiskFaults /\ page # <<>> /\ ~stuck)}
  BY DEF KilledAndRestarted, StartsFrom
<1>3. RecorderTypeOK'
  <2>1. torn' \in BOOLEAN
    BY <1>1, <1>2 DEF RecorderTypeOK
  <2>2. <<>> \in Seq(Requests) /\ Len(<<>>) <= BufferedEvents
    BY GatewayAssumption
  <2> QED
    BY <1>1, <1>2, <2>1, <2>2 DEF RecorderTypeOK
<1>4. PipelineTypeOK'
  BY <1>1, <1>2, FS_EmptySet DEF PipelineTypeOK, Stages
<1>5. ASSUME NEW r \in Requests
      PROVE  LentOK(stage'[r], adm'[r].stage, place'[r], r \in buffered')
  <2>1. /\ stage'[r] = IF Unended(r) THEN "dead" ELSE stage[r]
        /\ place'[r] = IF stage[r] = "new" THEN "idle" ELSE "done"
        /\ r \notin buffered'
    BY <1>2
  <2>2. adm'[r].stage = IF Unended(r) /\ adm[r].stage # "settled" THEN "settled" ELSE adm[r].stage
    BY <1>2 DEF Limits!NoAdmission
  <2>3. stage[r] \in Stages /\ LentOK(stage[r], adm[r].stage, place[r], r \in buffered)
    BY <1>1 DEF PipelineTypeOK
  <2> QED
    BY <2>1, <2>2, <2>3 DEF LentOK, Unended, HasSlot, HasBody, Stages
<1> QED
  BY <1>3, <1>4, <1>5, RestartLimits DEF LentInv

\* At the start nothing is lent.
LEMMA LentInit == GatewayInit => LentInv
<1> SUFFICES ASSUME GatewayInit PROVE LentInv
  OBVIOUS
<1>1. Queue!QueueInv
  <2>1. QueueFacts!QueueInit => QueueFacts!QueueInv
    BY QueueAssumed, QueueFacts!QueueInvInit
  <2>2. QueueFacts!QueueInit
    BY DEF GatewayInit, Queue!QueueInit, QueueFacts!QueueInit
  <2> QED
    BY <2>1, <2>2, SameQueueInv
<1>2. LimitsFacts!Lending
  <2>1. LimitsFacts!LimiterInit => LimitsFacts!Exactness
    BY LimitsAssumed, LimitsFacts!ExactnessInit
  <2>2. LimitsFacts!LimiterInit
    BY SameLimits DEF GatewayInit
  <2> QED
    BY <2>1, <2>2 DEF LimitsFacts!Exactness
<1>3. RecorderTypeOK
  <2>1. <<>> \in Seq(Requests) /\ Len(<<>>) <= BufferedEvents
    BY GatewayAssumption
  <2> QED
    BY <2>1 DEF GatewayInit, RecorderTypeOK
<1>4. PipelineTypeOK
  BY FS_EmptySet DEF GatewayInit, PipelineTypeOK, Stages, Outcomes
<1>5. ASSUME NEW r \in Requests
      PROVE  LentOK(stage[r], adm[r].stage, place[r], r \in buffered)
  BY DEF GatewayInit, LentOK, HasSlot, HasBody, Queue!QueueInit, Limits!LimiterInit, Limits!NoAdmission
<1> QED
  BY <1>1, <1>2, <1>3, <1>4, <1>5 DEF LentInv

\* No step loses what is lent.
LEMMA LentNext == LentInv /\ [GatewayNext]_vars => LentInv'
<1> SUFFICES ASSUME LentInv, [GatewayNext]_vars PROVE LentInv'
  OBVIOUS
<1>0. Queue!QueueInv'
  BY QueueKept DEF LentInv
<1>1. ASSUME NEW r \in Requests, Arrive(r) \/ TurnedAway(r) \/ Works(r) \/ Panic(r)
      PROVE  LentInv'
  <2>1. CASE AdmitKey(r) \/ CheckBudgets(r)
    BY <1>0, <2>1, AdmitLendsHere
  <2>2. CASE AcquireSlot(r) \/ Queued(r) \/ ReleaseSlot(r)
    BY <1>0, <2>2, QueueLends
  <2>3. CASE SettleAdmission(r)
    BY <1>0, <2>3, SettleLendsHere
  <2>4. CASE ReadBody(r) \/ Unbuffer(r)
    BY <1>0, <2>4, BodyLends
  <2>5. CASE Record(r)
    BY <1>0, <2>5, RecordLends
  <2>6. CASE Arrive(r) \/ TurnedAway(r) \/ ListModels(r) \/ Prepare(r) \/ CallUpstream(r) \/ Relay(r) \/ Panic(r)
    BY <1>0, <2>6, PassesLend
  <2> QED
    BY <1>1, <2>1, <2>2, <2>3, <2>4, <2>5, <2>6 DEF Works
<1>2. CASE WriterTakes \/ WriterFlushes \/ WriterFails \/ ShutsDown
  BY <1>0, <1>2, RecorderLends
<1>3. CASE (\E r \in Requests : FriendDeparts(r)) \/ EngineResizes \/ UNCHANGED vars
  <2>1. UNCHANGED <<limiterVars, bodyVars, recorderVars, stage, outcome, timedOut, sent, place>>
    BY <1>3 DEF FriendDeparts, EngineResizes, vars, resourceVars, queueVars, Queue!Depart, Queue!SlotsChange,
       Queue!queueState
  <2>2. LimitsFacts!Lending'
    BY <2>1, LimitsStutter DEF LentInv
  <2>3. RecorderTypeOK'
    BY <2>1 DEF LentInv, RecorderTypeOK, recorderVars, fileVars
  <2> QED
    BY <1>0, <2>1, <2>2, <2>3, StillLend DEF limiterVars, bodyVars
<1>4. CASE TimePasses
  <2>1. Limits!Tick /\ UNCHANGED <<queueVars, bodyVars, recorderVars, stage, outcome, timedOut, sent>>
    BY <1>4 DEF TimePasses
  <2>2. LimitsFacts!Lending'
    <3>1. LimitsFacts!Tick
      BY <2>1, SameLimits
    <3> QED
      BY <3>1, LimitsAssumed, LimitsFacts!TickLends DEF LentInv
  <2>3. RecorderTypeOK'
    BY <2>1 DEF LentInv, RecorderTypeOK, recorderVars, fileVars
  <2>4. adm' = adm
    BY <2>1 DEF Limits!Tick
  <2> QED
    BY <1>0, <2>1, <2>2, <2>3, <2>4, StillLend DEF queueVars, bodyVars
<1>5. CASE KilledAndRestarted
  BY <1>0, <1>5, RestartLends
<1> QED
  BY <1>1, <1>2, <1>3, <1>4, <1>5 DEF GatewayNext

\* In terms of the requests' stages, the owners of a slot, the key's live
\* admissions.
LEMMA WhoHolds ==
    ASSUME LentInv
    PROVE  /\ Queue!Owners = At({"call", "relay", "release"}) \cup (At({"waiting"}) \cap handed)
           /\ LimitsFacts!LiveRequests = Admitted
<1>1. /\ \A r \in Requests : LentOK(stage[r], adm[r].stage, place[r], r \in buffered)
      /\ \A r \in Requests : stage[r] \in Stages
  BY DEF LentInv, PipelineTypeOK
<1>2. ASSUME NEW r \in Requests
      PROVE  r \in Queue!Owners <=> r \in At({"call", "relay", "release"}) \cup (At({"waiting"}) \cap handed)
  BY <1>1 DEF Queue!Owners, At, LentOK, HasSlot, Stages
<1>3. ASSUME NEW r \in Requests
      PROVE  r \in LimitsFacts!LiveRequests <=> r \in Admitted
  BY <1>1 DEF LimitsFacts!LiveRequests, Admitted, At, LentOK, HasSlot, Stages
<1>4. Queue!Owners \subseteq Requests /\ LimitsFacts!LiveRequests \subseteq Requests
      /\ Admitted \subseteq Requests /\ \A S : At(S) \subseteq Requests
  BY DEF Queue!Owners, LimitsFacts!LiveRequests, Admitted, At
<1> QED
  BY <1>2, <1>3, <1>4

\* And from the invariant follows the property.
LEMMA LentCovers == LentInv => ResourcesCovered
<1> SUFFICES ASSUME LentInv PROVE ResourcesCovered
  OBVIOUS
<1>1. GatewayTypeOK
  <2>1. Queue!QueueTypeOK /\ PipelineTypeOK /\ RecorderTypeOK
    BY DEF LentInv, Queue!QueueInv
  <2>2. Limits!LimiterTypeOK
    BY SameLimits DEF LentInv, LimitsFacts!Lending
  <2>3. bodies \in Nat
    BY LentTypes, FS_CardinalityType, <2>1 DEF PipelineTypeOK
  <2> QED
    BY <2>1, <2>2, <2>3 DEF GatewayTypeOK, PipelineTypeOK, RecorderTypeOK
<1>2. NothingLeaks
  <2>1. slotInFlight = Cardinality(At({"call", "relay", "release"}) \cup (At({"waiting"}) \cap handed))
    <3>1. slotInFlight = Queue!Cardinality(Queue!Owners)
      BY DEF LentInv, Queue!QueueInv, Queue!SlotAccounting
    <3> QED
      BY <3>1, WhoHolds DEF Cardinality, Queue!Cardinality
  <2>2. keyInFlight = Cardinality(Admitted)
    <3>1. keyInFlight = LimitsFacts!Cardinality(Admitted \ {})
      BY WhoHolds DEF LentInv, LimitsFacts!Lending, LimitsFacts!InFlightExact
    <3>2. Admitted \ {} = Admitted
      OBVIOUS
    <3> QED
      BY <3>1, <3>2 DEF Cardinality, LimitsFacts!Cardinality
  <2>3. reserved = FoldFunctionOnSet(LAMBDA a, b : a + b, 0, [r \in Requests |-> adm[r].reserved], Admitted)
    <3>1. reserved = LimitsFacts!SumOver(Admitted, [r \in Requests |-> adm[r].reserved])
      BY WhoHolds DEF LentInv, LimitsFacts!Lending, LimitsFacts!ReservedExact
    <3> QED
      BY <3>1 DEF LimitsFacts!SumOver, FoldFunctionOnSet, LimitsFacts!FoldFunctionOnSet,
         MapThenFoldSet, LimitsFacts!MapThenFoldSet
  <2>4. bodies = Cardinality(buffered)
    BY DEF LentInv, PipelineTypeOK
  <2> QED
    BY <2>1, <2>2, <2>3, <2>4 DEF NothingLeaks
<1>3. EngineWorkIsCovered
  BY DEF LentInv, LentOK, EngineWorkIsCovered, At, HasSlot, HasBody
<1> QED
  BY <1>1, <1>2, <1>3 DEF ResourcesCovered

\* For any requests, limits and slots, and whatever panics, kills and restarts happen in
\* between: what the host has lent out is what the requests under way hold, and the engine
\* works for covered ones only (finish, acquire, reserve, readBody).
THEOREM ResourcesAlwaysCovered == GatewaySafety => []ResourcesCovered
BY LentInit, LentNext, LentCovers, PTL DEF GatewaySafety
-----------------------------------------------------------------------------
(* What a request that was not sent can cost. *)

Early == {"new", "admit", "list", "body", "prepare", "budget", "queue", "waiting", "call", "relay"}
Spent == {"unbuffer", "record", "over", "dead"}

\* The request r at st, with outcome o, admission a, sent or not (s), reported as timed out or
\* not (t): an outcome comes with finish, only what was sent or lists models is served or cut,
\* and what is settled without being sent is free.
FreeOK(r, st, o, a, s, t) ==
    /\ st = "list" => r \in Lists
    /\ st = "relay" => s
    /\ st \in Early => o = "none"
    /\ st \in {"release", "settle"} /\ ~s /\ r \notin Lists => o \notin {"served", "cut"}
    /\ a.stage = "settled" => st \in Spent
    /\ a.stage = "settled" /\ ~s => a.charged = 0 /\ (a.counted => o = "engine_err" \/ t)

\* The fields of an admission, whatever they hold.
Shaped(a) == a = [stage |-> a.stage, reserved |-> a.reserved, since |-> a.since, counted |-> a.counted,
                  charged |-> a.charged, at |-> a.at]

FreeTypeOK ==
    /\ stage \in [Requests -> Stages] /\ outcome \in [Requests -> Outcomes]
    /\ adm = [r \in Requests |-> adm[r]] /\ \A r \in Requests : Shaped(adm[r])

FreeInv ==
    /\ FreeTypeOK
    /\ \A r \in Requests : FreeOK(r, stage[r], outcome[r], adm[r], r \in sent, r \in timedOut)

\* A step of one request: what it does to the others' part is nothing.
OneMoves(r) ==
    /\ \A q \in Requests \ {r} : stage'[q] = stage[q] /\ outcome'[q] = outcome[q] /\ adm'[q] = adm[q]
    /\ \A q \in Requests \ {r} : (q \in sent' <=> q \in sent) /\ (q \in timedOut' <=> q \in timedOut)

\* A step that moves one request keeps the invariant if that request comes out free or sent.
LEMMA OneMovesKeeps ==
    ASSUME FreeInv, NEW r \in Requests, OneMoves(r), FreeTypeOK',
           FreeOK(r, stage'[r], outcome'[r], adm'[r], r \in sent', r \in timedOut')
    PROVE  FreeInv'
<1> SUFFICES ASSUME NEW q \in Requests
             PROVE  FreeOK(q, stage'[q], outcome'[q], adm'[q], q \in sent', q \in timedOut')
  BY DEF FreeInv
<1>1. CASE q = r
  BY <1>1
<1>2. CASE q # r
  <2>1. /\ stage'[q] = stage[q] /\ outcome'[q] = outcome[q] /\ adm'[q] = adm[q]
        /\ (q \in sent' <=> q \in sent) /\ (q \in timedOut' <=> q \in timedOut)
    BY <1>2 DEF OneMoves
  <2>2. FreeOK(q, stage[q], outcome[q], adm[q], q \in sent, q \in timedOut)
    BY DEF FreeInv
  <2> QED
    BY <2>1, <2>2 DEF FreeOK
<1> QED
  BY <1>1, <1>2

\* The steps that leave adm alone.
LEMMA PassesKeeps ==
    ASSUME FreeInv, NEW r \in Requests, UNCHANGED <<adm, now>>,
           Arrive(r) \/ TurnedAway(r) \/ ListModels(r) \/ ReadBody(r) \/ Prepare(r) \/ CallUpstream(r)
             \/ Relay(r) \/ ReleaseSlot(r) \/ Unbuffer(r) \/ Record(r) \/ Panic(r)
    PROVE  FreeInv'
<1>1. FreeTypeOK /\ FreeOK(r, stage[r], outcome[r], adm[r], r \in sent, r \in timedOut)
  BY DEF FreeInv
<1>2. FreeTypeOK'
  BY <1>1 DEF FreeTypeOK, Arrive, TurnedAway, ListModels, ReadBody, Prepare, CallUpstream, Relay, ReleaseSlot,
     Unbuffer, Record, Panic, Proceeds, Ends, CallOutcome, Stages, Outcomes
<1>3. OneMoves(r)
  BY <1>1 DEF FreeTypeOK, Arrive, TurnedAway, ListModels, ReadBody, Prepare, CallUpstream, Relay, ReleaseSlot,
     Unbuffer, Record, Panic, Proceeds, Ends, OneMoves
<1>4. FreeOK(r, stage'[r], outcome'[r], adm'[r], r \in sent', r \in timedOut')
  BY <1>1 DEF FreeTypeOK, FreeOK, Arrive, TurnedAway, ListModels, ReadBody, Prepare, CallUpstream, Relay,
     ReleaseSlot, Unbuffer, Record, Panic, Proceeds, Ends, CallOutcome, Early, Spent
<1> QED
  BY <1>2, <1>3, <1>4, OneMovesKeeps

\* The steps that do not touch the limiter.
LEMMA PassesLeaveLimits ==
    ASSUME NEW r \in Requests,
           Arrive(r) \/ TurnedAway(r) \/ ListModels(r) \/ ReadBody(r) \/ Prepare(r) \/ CallUpstream(r)
             \/ Relay(r) \/ ReleaseSlot(r) \/ Unbuffer(r) \/ Record(r) \/ Panic(r)
    PROVE  UNCHANGED <<adm, now>>
BY DEF Arrive, TurnedAway, ListModels, ReadBody, Prepare, CallUpstream, Relay, ReleaseSlot, Unbuffer, Record,
   Panic, resourceVars, limiterVars

\* admit, and reserve with what precedes it.
LEMMA AdmitKeepsFree ==
    ASSUME FreeInv, NEW r \in Requests, AdmitKey(r) \/ CheckBudgets(r)
    PROVE  FreeInv'
<1>1. FreeTypeOK /\ FreeOK(r, stage[r], outcome[r], adm[r], r \in sent, r \in timedOut)
  BY DEF FreeInv
<1>2. Shaped(adm[r])
  BY <1>1 DEF FreeTypeOK
<1>3. CASE Limits!Admit(r) /\ stage[r] = "admit" /\ Proceeds(r, IF r \in Lists THEN "list" ELSE "body")
  <2>1. adm' = [adm EXCEPT ![r].stage = "admitted", ![r].since = now] /\ now' = now
    BY <1>3 DEF Limits!Admit
  <2>2. FreeTypeOK'
    BY <1>1, <1>3, <2>1 DEF FreeTypeOK, Proceeds, Stages, Shaped
  <2>3. OneMoves(r)
    BY <1>1, <1>3, <2>1 DEF FreeTypeOK, Proceeds, OneMoves
  <2>4. FreeOK(r, stage'[r], outcome'[r], adm'[r], r \in sent', r \in timedOut')
    <3>1. adm'[r].stage = "admitted"
      BY <1>1, <2>1 DEF FreeTypeOK, Shaped
    <3>2. /\ stage'[r] \in {"list", "body"} /\ (stage'[r] = "list" => r \in Lists)
          /\ outcome'[r] = outcome[r] /\ outcome[r] = "none"
      BY <1>1, <1>3 DEF FreeTypeOK, FreeOK, Proceeds, Early
    <3> QED
      BY <3>1, <3>2 DEF FreeOK
  <2> QED
    BY <2>2, <2>3, <2>4, OneMovesKeeps
<1>4. CASE Limits!Reserve(r) /\ stage[r] = "budget" /\ Proceeds(r, "queue")
  <2>1. PICK worst : adm' = [adm EXCEPT ![r].stage = "reserved", ![r].reserved = worst] /\ now' = now
    BY <1>4 DEF Limits!Reserve
  <2>2. FreeTypeOK'
    BY <1>1, <1>4, <2>1 DEF FreeTypeOK, Proceeds, Stages, Shaped
  <2>3. OneMoves(r)
    BY <1>1, <1>4, <2>1 DEF FreeTypeOK, Proceeds, OneMoves
  <2>4. FreeOK(r, stage'[r], outcome'[r], adm'[r], r \in sent', r \in timedOut')
    <3>1. adm'[r].stage = "reserved"
      BY <1>1, <2>1 DEF FreeTypeOK, Shaped
    <3>2. /\ stage'[r] \in {"queue"} /\ (stage'[r] = "list" => r \in Lists)
          /\ outcome'[r] = outcome[r] /\ outcome[r] = "none"
      BY <1>1, <1>4 DEF FreeTypeOK, FreeOK, Proceeds, Early
    <3> QED
      BY <3>1, <3>2 DEF FreeOK
  <2> QED
    BY <2>2, <2>3, <2>4, OneMovesKeeps
<1>5. CASE /\ Limits!AdmitRefused(r) \/ Limits!ReserveRefused(r) \/ UNCHANGED limiterVars
           /\ stage[r] \in {"admit", "budget"} /\ UNCHANGED <<timedOut, sent>>
           /\ \E to \in {"record", "settle"} : Ends(r, "rejected", to)
  <2>1. adm' = adm \/ adm' = [adm EXCEPT ![r].stage = "refused"]
    BY <1>5 DEF Limits!AdmitRefused, Limits!ReserveRefused, limiterVars
  <2>2. now' = now
    BY <1>5 DEF Limits!AdmitRefused, Limits!ReserveRefused, limiterVars
  <2>3. FreeTypeOK'
    BY <1>1, <1>5, <2>1, <2>2 DEF FreeTypeOK, Ends, Stages, Outcomes, Shaped
  <2>4. OneMoves(r)
    BY <1>1, <1>5, <2>1 DEF FreeTypeOK, Ends, OneMoves
  <2>5. FreeOK(r, stage'[r], outcome'[r], adm'[r], r \in sent', r \in timedOut')
    BY <1>1, <1>5, <2>1 DEF FreeTypeOK, FreeOK, Ends, Early, Spent, Shaped
  <2> QED
    BY <2>3, <2>4, <2>5, OneMovesKeeps
<1> QED
  BY <1>3, <1>4, <1>5 DEF AdmitKey, CheckBudgets

\* settle: what settleRow says a request costs.
LEMMA SettleKeepsFree ==
    ASSUME FreeInv, NEW r \in Requests, SettleAdmission(r)
    PROVE  FreeInv'
<1>1. FreeTypeOK /\ FreeOK(r, stage[r], outcome[r], adm[r], r \in sent, r \in timedOut)
  BY DEF FreeInv
<1>2. stage[r] = "settle" /\ Proceeds(r, IF r \in buffered THEN "unbuffer" ELSE "record")
  BY DEF SettleAdmission
<1>3. PICK row \in SettleRow(r) : Limits!SettleAs(r, row[1], row[2])
  BY DEF SettleAdmission
<1>4. adm' = [adm EXCEPT ![r].stage = "settled", ![r].counted = row[1], ![r].charged = row[2],
                         ![r].at = now, ![r].reserved = 0] /\ now' = now
  BY <1>3 DEF Limits!SettleAs
<1>6. r \notin sent => row[2] = 0 /\ (row[1] => outcome[r] = "engine_err" \/ r \in timedOut)
  <2>1. CASE r \in Lists
    <3>1. SettleRow(r) = {<<FALSE, 0>>}
      BY <2>1 DEF SettleRow
    <3>2. row = <<FALSE, 0>>
      BY <1>3, <3>1
    <3> QED
      BY <3>2
  <2>2. CASE r \notin Lists /\ outcome[r] \in {"served", "cut"}
    BY <1>1, <1>2, <2>2 DEF FreeOK
  <2>3. CASE r \notin Lists /\ outcome[r] = "queue_lost"
    <3>1. SettleRow(r) = {<<r \in timedOut, 0>>}
      BY <2>3 DEF SettleRow
    <3>2. row = <<r \in timedOut, 0>>
      BY <1>3, <3>1
    <3> QED
      BY <3>2
  <2>4. CASE r \notin Lists /\ outcome[r] = "engine_err"
    BY <1>3, <2>4 DEF SettleRow
  <2>5. CASE r \notin Lists /\ outcome[r] \notin {"served", "cut", "queue_lost", "engine_err"}
    <3>1. SettleRow(r) = {<<FALSE, 0>>}
      BY <2>5 DEF SettleRow
    <3>2. row = <<FALSE, 0>>
      BY <1>3, <3>1
    <3> QED
      BY <3>2
  <2> QED
    BY <2>1, <2>2, <2>3, <2>4, <2>5
<1>7. FreeTypeOK'
  BY <1>1, <1>2, <1>4 DEF FreeTypeOK, Proceeds, Stages, Shaped
<1>8. OneMoves(r)
  BY <1>1, <1>2, <1>4 DEF FreeTypeOK, Proceeds, OneMoves
<1>9. FreeOK(r, stage'[r], outcome'[r], adm'[r], r \in sent', r \in timedOut')
  <2>1. adm'[r].stage = "settled" /\ adm'[r].charged = row[2] /\ adm'[r].counted = row[1]
    BY <1>1, <1>4 DEF FreeTypeOK, Shaped
  <2>2. stage'[r] \in Spent /\ stage'[r] \notin Early /\ stage'[r] \notin {"list", "relay", "release", "settle"}
        /\ outcome'[r] = outcome[r] /\ sent' = sent /\ timedOut' = timedOut
    BY <1>1, <1>2 DEF FreeTypeOK, Proceeds, Spent, Early
  <2> QED
    BY <1>6, <2>1, <2>2 DEF FreeOK
<1> QED
  BY <1>7, <1>8, <1>9, OneMovesKeeps

\* acquire and its wait: no engine has been asked yet.
LEMMA QueueKeepsFree ==
    ASSUME FreeInv, NEW r \in Requests, AcquireSlot(r) \/ Queued(r)
    PROVE  FreeInv'
<1>1. FreeTypeOK /\ FreeOK(r, stage[r], outcome[r], adm[r], r \in sent, r \in timedOut)
  BY DEF FreeInv
<1>2. adm' = adm /\ now' = now
  BY DEF AcquireSlot, Queued, limiterVars
<1>3. /\ stage[r] \in {"queue", "waiting"}
      /\ \/ \E to \in {"call", "waiting"} : Proceeds(r, to)
         \/ UNCHANGED <<stage, outcome, timedOut, sent>>
         \/ \E o \in {"rejected", "queue_lost"} : /\ Ends(r, o, "settle")
                                                  /\ sent' = sent /\ timedOut' \in {timedOut, timedOut \cup {r}}
  BY DEF AcquireSlot, Queued
<1>4. FreeTypeOK'
  BY <1>1, <1>2, <1>3 DEF FreeTypeOK, Proceeds, Ends, Stages, Outcomes
<1>5. OneMoves(r)
  BY <1>1, <1>2, <1>3 DEF FreeTypeOK, Proceeds, Ends, OneMoves
<1>6. FreeOK(r, stage'[r], outcome'[r], adm'[r], r \in sent', r \in timedOut')
  BY <1>1, <1>2, <1>3 DEF FreeTypeOK, FreeOK, Proceeds, Ends, Early, Spent
<1> QED
  BY <1>4, <1>5, <1>6, OneMovesKeeps

\* A kill settles what was under way for nothing.
LEMMA RestartKeepsFree ==
    ASSUME FreeInv, KilledAndRestarted
    PROVE  FreeInv'
<1>1. FreeTypeOK /\ \A r \in Requests : FreeOK(r, stage[r], outcome[r], adm[r], r \in sent, r \in timedOut)
  BY DEF FreeInv
<1>2. /\ adm' = [r \in Requests |-> IF Unended(r) /\ adm[r].stage # "settled"
                                    THEN [Limits!NoAdmission EXCEPT !.stage = "settled"] ELSE adm[r]]
      /\ stage' = [r \in Requests |-> IF Unended(r) THEN "dead" ELSE stage[r]]
      /\ UNCHANGED <<now, outcome, timedOut, sent>>
  BY DEF KilledAndRestarted, StartsFrom
<1> DEFINE none == [Limits!NoAdmission EXCEPT !.stage = "settled"]
<1>3. Shaped(none) /\ none.stage = "settled" /\ none.charged = 0 /\ none.counted = FALSE
  <2>1. none = [stage |-> "settled", reserved |-> 0, since |-> 0, counted |-> FALSE, charged |-> 0, at |-> 0]
    <3> DEFINE Blank == [stage : {"new", "settled"}, reserved : {0}, since : {0}, counted : {FALSE}, charged : {0},
                         at : {0}]
    <3>1. Limits!NoAdmission \in Blank
      BY DEF Limits!NoAdmission
    <3>2. none \in Blank /\ none.stage = "settled"
      BY <3>1
    <3> HIDE DEF none
    <3> QED
      BY <3>2
  <2> HIDE DEF none
  <2> QED
    BY <2>1 DEF Shaped
<1> HIDE DEF none
<1>4. \A r \in Requests : /\ adm'[r] = IF Unended(r) /\ adm[r].stage # "settled" THEN none ELSE adm[r]
                          /\ stage'[r] = IF Unended(r) THEN "dead" ELSE stage[r]
                          /\ outcome'[r] = outcome[r] /\ (r \in sent' <=> r \in sent)
                          /\ (r \in timedOut' <=> r \in timedOut)
  BY <1>2 DEF none
<1>5. FreeTypeOK'
  <2>1. adm' = [r \in Requests |-> adm'[r]] /\ \A r \in Requests : Shaped(adm'[r])
    BY <1>1, <1>2, <1>3, <1>4 DEF FreeTypeOK
  <2>2. stage' \in [Requests -> Stages]
    BY <1>1, <1>2 DEF FreeTypeOK, Stages
  <2> QED
    BY <1>1, <1>2, <2>1, <2>2 DEF FreeTypeOK
<1>6. ASSUME NEW r \in Requests
      PROVE  FreeOK(r, stage'[r], outcome'[r], adm'[r], r \in sent', r \in timedOut')
  <2>1. FreeOK(r, stage[r], outcome[r], adm[r], r \in sent, r \in timedOut)
    BY <1>1
  <2>2. CASE Unended(r)
    BY <1>3, <1>4, <2>1, <2>2 DEF FreeOK, Early, Spent
  <2>3. CASE ~Unended(r)
    BY <1>4, <2>1, <2>3 DEF FreeOK
  <2> QED
    BY <2>2, <2>3
<1> QED
  BY <1>5, <1>6 DEF FreeInv

\* At the start no request has an outcome.
LEMMA FreeInit == GatewayInit => FreeInv
BY DEF GatewayInit, FreeInv, FreeTypeOK, FreeOK, Limits!LimiterInit, Limits!NoAdmission, Shaped,
   Stages, Outcomes, Early, Spent

\* No step charges what was not sent.
LEMMA FreeNext == FreeInv /\ [GatewayNext]_vars => FreeInv'
<1> SUFFICES ASSUME FreeInv, [GatewayNext]_vars PROVE FreeInv'
  OBVIOUS
<1>1. ASSUME NEW r \in Requests, Arrive(r) \/ TurnedAway(r) \/ Works(r) \/ Panic(r)
      PROVE  FreeInv'
  <2>1. CASE AdmitKey(r) \/ CheckBudgets(r)
    BY <2>1, AdmitKeepsFree
  <2>2. CASE AcquireSlot(r) \/ Queued(r)
    BY <2>2, QueueKeepsFree
  <2>3. CASE SettleAdmission(r)
    BY <2>3, SettleKeepsFree
  <2>4. CASE Arrive(r) \/ TurnedAway(r) \/ ListModels(r) \/ ReadBody(r) \/ Prepare(r) \/ CallUpstream(r)
             \/ Relay(r) \/ ReleaseSlot(r) \/ Unbuffer(r) \/ Record(r) \/ Panic(r)
    BY <2>4, PassesKeeps, PassesLeaveLimits
  <2> QED
    BY <1>1, <2>1, <2>2, <2>3, <2>4 DEF Works
<1>2. CASE \/ \E r \in Requests : FriendDeparts(r)
           \/ WriterTakes \/ WriterFlushes \/ WriterFails \/ ShutsDown \/ EngineResizes \/ UNCHANGED vars
  <2>1. UNCHANGED <<stage, outcome, timedOut, sent, adm, now>>
    BY <1>2 DEF FriendDeparts, WriterTakes, WriterFlushes, WriterFails, ShutsDown, EngineResizes, vars, resourceVars,
       limiterVars
  <2> QED
    BY <2>1 DEF FreeInv, FreeTypeOK
<1>3. CASE TimePasses
  <2>1. UNCHANGED <<stage, outcome, timedOut, sent, adm>> /\ now' = now + 1
    BY <1>3 DEF TimePasses, Limits!Tick
  <2> QED
    BY <2>1 DEF FreeInv, FreeTypeOK
<1>4. CASE KilledAndRestarted
  BY <1>4, RestartKeepsFree
<1> QED
  BY <1>1, <1>2, <1>3, <1>4 DEF GatewayNext

\* For any requests, limits and slots, with kills and restarts at any time: a request that was
\* not sent to the engine is charged nothing, and counts only when the engine failed it or it
\* was told of a timeout (callUpstream's sent, settleRow).
THEOREM UnsentAlwaysFree == GatewaySafety => []UnsentIsFree
<1>1. FreeInv => UnsentIsFree
  BY DEF FreeInv, FreeOK, UnsentIsFree
<1> QED
  BY <1>1, FreeInit, FreeNext, PTL DEF GatewaySafety
-----------------------------------------------------------------------------
(* The day: what the counter says, and what the file would say. *)

\* Events the recorder took, wherever they are now; with the requests that have
\* settled and not yet got to it.
Recorded == ledger \cup Range(buffer) \cup Range(page) \cup dropped \cup lost
Kept == Recorded \cup Settled

Charged == [r \in Requests |-> adm[r].charged]
OfDay(S, d) == {r \in S : Limits!DayOf(adm[r].at) = d}

\* An event is of a request that is over, and in one place: the channel, the
\* page, the file, or among those that never get there.  Only a line torn by an
\* earlier kill, or a failing disk, loses one.
FileOK ==
    /\ \A r \in Recorded : stage[r] = "over"
    /\ \A i, j \in 1..Len(buffer) : buffer[i] = buffer[j] => i = j
    /\ Range(page) \cap Range(buffer) = {}
    /\ (ledger \cup dropped \cup lost) \cap (Range(page) \cup Range(buffer)) = {}
    /\ ledger \cap (dropped \cup lost) = {}
    /\ closed => buffer = <<>> /\ page = <<>>
    /\ ~stuck => (torn => lost = {}) /\ Cardinality(lost) <= 1

\* The counter is the charges of its day, of every request kept; with the
\* reservations it is within the limit when nothing is charged over its own.
DayOK ==
    /\ \A r \in Requests : /\ adm[r].charged # 0 => adm[r].stage = "settled"
                           /\ Limits!DayOf(adm[r].at) <= day
    /\ day <= Limits!DayOf(now)
    /\ today = SumOn(Charged, OfDay(Kept, day))
    /\ Overrun = 0 /\ DailyTokens > 0 => Limits!PrunedToday + reserved <= DailyTokens

DayInv == LentInv /\ FileOK /\ DayOK

\* Days follow each other.
LEMMA DayArith ==
    ASSUME NEW t \in Nat
    PROVE  Limits!DayOf(t) \in Nat /\ Limits!DayOf(t) <= Limits!DayOf(t + 1)
BY LimitsAssumed, LimitsFacts!DayFacts DEF Limits!DayOf, LimitsFacts!DayOf

\* The types of what the day is made of.
LEMMA DayTypes ==
    ASSUME LentInv
    PROVE  /\ now \in Nat /\ day \in Nat /\ today \in Nat /\ reserved \in Nat
           /\ \A r \in Requests : /\ adm[r].charged \in Nat /\ adm[r].at \in Nat
                                  /\ Limits!DayOf(adm[r].at) \in Nat
           /\ Limits!DayOf(now) \in Nat /\ DailyTokens \in Nat
           /\ Kept \in SUBSET Requests /\ Recorded \in SUBSET Requests
<1>1. now \in Nat /\ reserved \in Nat /\ adm \in [Requests -> LimitsFacts!Admission]
  BY LentTypes
<1>2. day \in Nat /\ today \in Nat
  BY DEF LentInv, LimitsFacts!Lending, LimitsFacts!LimiterTypeOK
<1>3. \A r \in Requests : adm[r].charged \in Nat /\ adm[r].at \in Nat
  BY <1>1 DEF LimitsFacts!Admission
<1>4. \A r \in Requests : Limits!DayOf(adm[r].at) \in Nat
  BY <1>3, DayArith
<1>5. Kept \subseteq Requests /\ Recorded \subseteq Requests
  <2>1. Range(buffer) \subseteq Requests /\ Range(page) \subseteq Requests
    BY LegibleWritten DEF LentInv, RecorderTypeOK
  <2>2. ledger \subseteq Requests /\ dropped \subseteq Requests /\ lost \subseteq Requests
    BY DEF LentInv, RecorderTypeOK
  <2> QED
    BY <2>1, <2>2 DEF Kept, Recorded, Settled, At
<1> QED
  BY <1>1, <1>2, <1>3, <1>4, <1>5, DayArith, LimitsAssumed

\* What a set of requests was charged on a day is a number.
LEMMA DaySums ==
    ASSUME LentInv, NEW S \in SUBSET Requests, NEW d
    PROVE  /\ IsFiniteSet(S) /\ IsFiniteSet(OfDay(S, d)) /\ NatOn(Charged, S) /\ NatOn(Charged, OfDay(S, d))
           /\ SumOn(Charged, OfDay(S, d)) \in Nat
<1>1. OfDay(S, d) \in SUBSET S
  BY DEF OfDay
<1>2. IsFiniteSet(S) /\ IsFiniteSet(OfDay(S, d))
  BY <1>1, GatewayAssumption, FS_Subset
<1>3. NatOn(Charged, S) /\ NatOn(Charged, OfDay(S, d))
  BY <1>1, DayTypes DEF NatOn, Charged
<1> QED
  BY <1>2, <1>3, SumType

\* What the file charges today, as a sum.
LEMMA ChargedIs ==
    ASSUME NEW S
    PROVE  ChargedToday(S) = SumOn(Charged, OfDay(S, Limits!DayOf(now)))
BY DEF ChargedToday, SumOn, Charged, OfDay, AccountingTime

\* The counter, once pruned, is the charges of today.
LEMMA CounterExact ==
    ASSUME LentInv, DayOK
    PROVE  Limits!PrunedToday = SumOn(Charged, OfDay(Kept, Limits!DayOf(now)))
<1>1. CASE Limits!DayOf(now) = day
  BY <1>1 DEF DayOK, Limits!PrunedToday
<1>2. CASE Limits!DayOf(now) # day
  <2>1. \A r \in Kept : Limits!DayOf(adm[r].at) # Limits!DayOf(now)
    BY <1>2, DayTypes DEF DayOK
  <2>2. OfDay(Kept, Limits!DayOf(now)) = {}
    BY <2>1 DEF OfDay
  <2> QED
    BY <1>2, <2>2, SumEmpty DEF Limits!PrunedToday
<1> QED
  BY <1>1, <1>2

\* Requests charged nothing change no sum, nor do those of other days.
LEMMA FreeAdditions ==
    ASSUME LentInv, NEW S \in SUBSET Requests, NEW T \in SUBSET Requests, S \subseteq T, NEW d,
           \A r \in T \ S : adm[r].charged = 0
    PROVE  SumOn(Charged, OfDay(T, d)) = SumOn(Charged, OfDay(S, d))
<1> DEFINE Z == OfDay(T, d) \ OfDay(S, d)
<1>1. OfDay(S, d) \cap Z = {} /\ OfDay(T, d) = OfDay(S, d) \cup Z /\ Z \in SUBSET OfDay(T, d)
  BY DEF OfDay
<1>2. \A r \in Z : r \in Requests /\ Charged[r] = 0
  BY DEF OfDay, Charged
<1> HIDE DEF Z
<1>3. IsFiniteSet(Z) /\ NatOn(Charged, Z)
  BY <1>1, <1>2, DaySums, FS_Subset DEF NatOn
<1>4. SumOn(Charged, Z) = 0
  BY <1>2, <1>3, SumZero
<1>5. IsFiniteSet(OfDay(S, d)) /\ NatOn(Charged, OfDay(S, d)) /\ SumOn(Charged, OfDay(S, d)) \in Nat
  BY DaySums
<1>6. SumOn(Charged, OfDay(S, d) \cup Z) = SumOn(Charged, OfDay(S, d)) + SumOn(Charged, Z)
  BY <1>1, <1>3, <1>5, SumDisjoint
<1> QED
  BY <1>1, <1>4, <1>5, <1>6

\* What DayInv says: the two counts agree, and stay within the limit.
LEMMA DayCounts ==
    ASSUME DayInv
    PROVE  CounterMatchesFile /\ (Overrun = 0 => BudgetSurvivesRestart)
<1>1. ledger \cup Unwritten = Kept
  BY DEF Unwritten, Kept, Recorded
<1>2. Limits!PrunedToday = ChargedToday(Kept)
  BY CounterExact, ChargedIs DEF DayInv
<1>3. ChargedToday(ledger) <= ChargedToday(Kept) /\ ChargedToday(ledger) \in Nat /\ ChargedToday(Kept) \in Nat
  <2>1. ledger \in SUBSET Requests /\ Kept \in SUBSET Requests
    BY DayTypes DEF DayInv, LentInv, RecorderTypeOK
  <2>2. OfDay(ledger, Limits!DayOf(now)) \in SUBSET OfDay(Kept, Limits!DayOf(now))
    BY DEF OfDay, Kept, Recorded
  <2>3. /\ IsFiniteSet(OfDay(Kept, Limits!DayOf(now))) /\ NatOn(Charged, OfDay(Kept, Limits!DayOf(now)))
        /\ SumOn(Charged, OfDay(Kept, Limits!DayOf(now))) \in Nat
        /\ SumOn(Charged, OfDay(ledger, Limits!DayOf(now))) \in Nat
    BY <2>1, DaySums DEF DayInv
  <2> QED
    BY <2>2, <2>3, SumSubset, ChargedIs
<1>4. Overrun = 0 => BudgetSurvivesRestart
  <2>1. reserved \in Nat /\ DailyTokens \in Nat
    BY DayTypes DEF DayInv
  <2>2. Overrun = 0 /\ DailyTokens > 0 => Limits!PrunedToday + reserved <= DailyTokens
    BY DEF DayInv, DayOK
  <2> QED
    BY <1>2, <1>3, <2>1, <2>2 DEF BudgetSurvivesRestart
<1> QED
  BY <1>1, <1>2, <1>4 DEF CounterMatchesFile

\* A step that leaves the counter and the admissions alone.
LEMMA DayStill ==
    ASSUME LentInv, LentInv', DayOK, UNCHANGED <<today, day, reserved, adm>>, now' = now \/ now' = now + 1,
           Kept \subseteq Kept', \A r \in Kept' \ Kept : adm[r].charged = 0
    PROVE  DayOK'
<1>1. /\ \A S, d : OfDay(S, d)' = OfDay(S', d')
      /\ Charged' = Charged
  BY DEF OfDay, Charged, Limits!DayOf
<1>2. Kept \in SUBSET Requests /\ Kept' \in SUBSET Requests
  <2>1. (Kept \in SUBSET Requests)'
    BY DayTypes, PTL
  <2> QED
    BY <2>1, DayTypes
<1>3. today' = SumOn(Charged, OfDay(Kept, day))'
  <2>1. SumOn(Charged, OfDay(Kept', day)) = SumOn(Charged, OfDay(Kept, day))
    BY <1>2, FreeAdditions
  <2>2. OfDay(Kept, day)' = OfDay(Kept', day)
    BY DEF OfDay, Limits!DayOf
  <2>3. SumOn(Charged, OfDay(Kept, day))' = SumOn(Charged, OfDay(Kept', day))
    BY <1>1, <2>2
  <2> QED
    BY <2>1, <2>3 DEF DayOK
<1>4. Limits!DayOf(now) <= Limits!DayOf(now') /\ Limits!DayOf(now') \in Nat
  BY DayTypes, DayArith
<1>5. day <= Limits!DayOf(now')
  BY <1>4, DayTypes DEF DayOK
<1>6. Limits!PrunedToday' <= Limits!PrunedToday /\ Limits!PrunedToday' \in Nat /\ Limits!PrunedToday \in Nat
  <2>1. Limits!PrunedToday' = IF Limits!DayOf(now') = day THEN today ELSE 0
    BY DEF Limits!PrunedToday, Limits!DayOf
  <2>2. Limits!PrunedToday = IF Limits!DayOf(now) = day THEN today ELSE 0
    BY DEF Limits!PrunedToday
  <2> QED
    BY <1>4, <2>1, <2>2, DayTypes DEF DayOK
<1>7. Overrun = 0 /\ DailyTokens > 0 => Limits!PrunedToday' + reserved' <= DailyTokens
  BY <1>6, DayTypes DEF DayOK
<1> QED
  BY <1>3, <1>5, <1>7 DEF DayOK, Limits!DayOf

\* A step of the limiter that settles nothing: it prunes the day.
LEMMA DayPruned ==
    ASSUME LentInv, LentInv', DayOK, now' = now, today' = Limits!PrunedToday, day' = Limits!DayOf(now),
           Kept' = Kept,
           \A r \in Requests : adm'[r].charged = adm[r].charged /\ adm'[r].at = adm[r].at,
           \A r \in Requests : adm[r].stage = "settled" => adm'[r].stage = "settled",
           Overrun = 0 /\ DailyTokens > 0 => Limits!PrunedToday + reserved' <= DailyTokens
    PROVE  DayOK'
<1>1. Charged' = Charged
  BY DEF Charged
<1>2. OfDay(Kept, day)' = OfDay(Kept, Limits!DayOf(now))
  BY DayTypes DEF OfDay, Limits!DayOf
<1>3. today' = SumOn(Charged, OfDay(Kept, day))'
  <2>1. SumOn(Charged, OfDay(Kept, day))' = SumOn(Charged, OfDay(Kept, Limits!DayOf(now)))
    BY <1>1, <1>2
  <2> QED
    BY <2>1, CounterExact
<1>4. Limits!PrunedToday' = Limits!PrunedToday
  BY DEF Limits!PrunedToday, Limits!DayOf
<1>5. \A r \in Requests : Limits!DayOf(adm[r].at) <= Limits!DayOf(now)
  BY DayTypes DEF DayOK
<1>6. \A r \in Requests : /\ adm'[r].charged # 0 => adm'[r].stage = "settled"
                          /\ (Limits!DayOf(adm[r].at) <= day)'
  BY <1>5 DEF DayOK, Limits!DayOf
<1>7. (day <= Limits!DayOf(now))'
  BY DayTypes DEF Limits!DayOf
<1>8. (Overrun = 0 /\ DailyTokens > 0 => Limits!PrunedToday + reserved <= DailyTokens)'
  BY <1>4
<1> QED
  BY <1>3, <1>6, <1>7, <1>8 DEF DayOK

\* What a step of the request r alone does to those kept.
LEMMA KeptAt ==
    ASSUME LentInv, NEW r \in Requests, UNCHANGED recorderVars,
           stage' = [stage EXCEPT ![r] = stage'[r]],
           \A q \in Requests \ {r} : adm'[q].stage = adm[q].stage
    PROVE  /\ \A q \in Requests \ {r} : q \in Kept' <=> q \in Kept
           /\ r \in Kept' <=> r \in Recorded \/ (stage'[r] \in {"unbuffer", "record"} /\ adm'[r].stage = "settled")
<1>1. Recorded' = Recorded
  BY DEF Recorded, recorderVars, fileVars
<1>2. \A q \in Requests \ {r} : stage'[q] = stage[q]
  BY DEF LentInv, PipelineTypeOK
<1> QED
  BY <1>1, <1>2 DEF Kept, Settled, At

\* A step that leaves the recorder alone and takes no request back from its end.
LEMMA FileStill ==
    ASSUME LentInv, FileOK, UNCHANGED recorderVars,
           \A q \in Requests : stage[q] = "over" => stage'[q] = "over"
    PROVE  FileOK'
<1>1. Recorded' = Recorded /\ Recorded \subseteq Requests
  BY DayTypes DEF Recorded, recorderVars, fileVars
<1>2. UNCHANGED <<buffer, page, ledger, torn, stuck, closed, dropped, lost>>
  BY DEF recorderVars, fileVars
<1> QED
  BY <1>1, <1>2 DEF FileOK

\* The steps of a request before it settles.
LEMMA PassesKeepDay ==
    ASSUME DayInv, LentInv', NEW r \in Requests,
           \/ Arrive(r) \/ TurnedAway(r) \/ ListModels(r) \/ ReadBody(r) \/ Prepare(r) \/ CallUpstream(r)
           \/ Relay(r) \/ AcquireSlot(r) \/ Queued(r) \/ ReleaseSlot(r) \/ Panic(r) \/ Unbuffer(r)
    PROVE  DayInv'
<1>1. /\ stage \in [Requests -> Stages] /\ LentOK(stage[r], adm[r].stage, place[r], r \in buffered)
      /\ LentInv /\ FileOK /\ DayOK
  BY DEF DayInv, LentInv, PipelineTypeOK
<1>2. UNCHANGED <<limiterVars, recorderVars>>
  BY DEF Arrive, TurnedAway, ListModels, ReadBody, Prepare, CallUpstream, Relay, AcquireSlot, Queued, ReleaseSlot,
     Panic, Unbuffer, resourceVars
<1>3. UNCHANGED <<now, today, day, reserved, adm>>
  BY <1>2 DEF limiterVars
<1>4. /\ stage' = [stage EXCEPT ![r] = stage'[r]]
      /\ stage[r] # "over"
      /\ \/ stage[r] \notin {"unbuffer", "record"} /\ (stage'[r] \in {"unbuffer", "record"} => stage[r] = "new")
         \/ stage[r] = "unbuffer" /\ stage'[r] = "record"
  BY <1>1 DEF Arrive, TurnedAway, ListModels, ReadBody, Prepare, CallUpstream, Relay, AcquireSlot, Queued, ReleaseSlot,
     Panic, Unbuffer, Proceeds, Ends
<1>5. FileOK'
  <2>1. \A q \in Requests : stage[q] = "over" => stage'[q] = "over"
    BY <1>1, <1>4
  <2> QED
    BY <1>1, <1>2, <2>1, FileStill
<1>6. Kept' = Kept
  <2>1. /\ \A q \in Requests \ {r} : q \in Kept' <=> q \in Kept
        /\ r \in Kept' <=> r \in Recorded \/ (stage'[r] \in {"unbuffer", "record"} /\ adm[r].stage = "settled")
    BY <1>1, <1>2, <1>3, <1>4, KeptAt
  <2>2. r \in Kept <=> r \in Recorded \/ (stage[r] \in {"unbuffer", "record"} /\ adm[r].stage = "settled")
    BY DEF Kept, Settled, At
  <2>3. stage[r] = "new" => adm[r].stage = "new"
    BY <1>1 DEF LentOK
  <2>4. r \in Kept' <=> r \in Kept
    BY <1>4, <2>1, <2>2, <2>3
  <2>5. (Kept \in SUBSET Requests)'
    BY DayTypes, PTL
  <2>6. Kept \in SUBSET Requests
    BY <1>1, DayTypes
  <2> QED
    BY <2>1, <2>4, <2>5, <2>6
<1>7. DayOK'
  BY <1>1, <1>3, <1>6, DayStill
<1> QED
  BY <1>5, <1>7 DEF DayInv

\* admit and reserve, and their refusals.
LEMMA AdmitKeepsDay ==
    ASSUME DayInv, LentInv', NEW r \in Requests, AdmitKey(r) \/ CheckBudgets(r)
    PROVE  DayInv'
<1>1. /\ stage \in [Requests -> Stages] /\ adm \in [Requests -> LimitsFacts!Admission]
      /\ LentOK(stage[r], adm[r].stage, place[r], r \in buffered)
      /\ LentInv /\ FileOK /\ DayOK
  BY LentTypes DEF DayInv, LentInv, PipelineTypeOK
<1>2. UNCHANGED recorderVars
  BY DEF AdmitKey, CheckBudgets
<1>3. /\ stage' = [stage EXCEPT ![r] = stage'[r]]
      /\ stage[r] \in {"admit", "budget"} /\ adm[r].stage \in {"new", "admitted"}
      /\ stage'[r] \in {"unbuffer", "record"} => stage[r] = "admit" /\ adm' = adm
  BY <1>1 DEF AdmitKey, CheckBudgets, Proceeds, Ends, LentOK, Limits!AdmitRefused
<1>4. /\ \A q \in Requests \ {r} : adm'[q] = adm[q]
      /\ adm'[r].charged = adm[r].charged /\ adm'[r].at = adm[r].at
  <2>1. \/ adm' = adm
        \/ adm' = [adm EXCEPT ![r].stage = "admitted", ![r].since = now]
        \/ \E w : adm' = [adm EXCEPT ![r].stage = "reserved", ![r].reserved = w]
        \/ adm' = [adm EXCEPT ![r].stage = "refused"]
    BY DEF AdmitKey, CheckBudgets, Limits!Admit, Limits!AdmitRefused, Limits!Reserve, Limits!ReserveRefused,
       limiterVars
  <2> QED
    BY <1>1, <2>1 DEF LimitsFacts!Admission
<1>5. FileOK'
  <2>1. \A q \in Requests : stage[q] = "over" => stage'[q] = "over"
    BY <1>1, <1>3
  <2> QED
    BY <1>1, <1>2, <2>1, FileStill
<1>6. Kept' = Kept
  <2>1. /\ \A q \in Requests \ {r} : q \in Kept' <=> q \in Kept
        /\ r \in Kept' <=> r \in Recorded \/ (stage'[r] \in {"unbuffer", "record"} /\ adm'[r].stage = "settled")
    BY <1>1, <1>2, <1>3, <1>4, KeptAt
  <2>2. r \in Kept <=> r \in Recorded \/ (stage[r] \in {"unbuffer", "record"} /\ adm[r].stage = "settled")
    BY DEF Kept, Settled, At
  <2>3. r \in Kept' <=> r \in Kept
    BY <1>3, <2>1, <2>2
  <2>4. (Kept \in SUBSET Requests)'
    BY DayTypes, PTL
  <2>5. Kept \in SUBSET Requests
    BY <1>1, DayTypes
  <2> QED
    BY <2>1, <2>3, <2>4, <2>5
<1>7. CASE UNCHANGED limiterVars
  <2>1. UNCHANGED <<now, today, day, reserved, adm>>
    BY <1>7 DEF limiterVars
  <2>2. DayOK'
    BY <1>1, <1>6, <2>1, DayStill
  <2> QED
    BY <1>5, <2>2 DEF DayInv
<1>8. CASE Limits!Admit(r) \/ Limits!AdmitRefused(r) \/ Limits!Reserve(r) \/ Limits!ReserveRefused(r)
  <2>1. now' = now /\ today' = Limits!PrunedToday /\ day' = Limits!DayOf(now)
    BY <1>8 DEF Limits!Admit, Limits!AdmitRefused, Limits!Reserve, Limits!ReserveRefused, Limits!Prune,
       Limits!PruneDay
  <2>2. Overrun = 0 /\ DailyTokens > 0 => Limits!PrunedToday + reserved' <= DailyTokens
    <3>1. CASE Limits!Reserve(r)
      <4>1. LimitsFacts!Lending /\ LimitsFacts!Reserve(r)
        BY <1>1, <3>1, SameLimits DEF LentInv
      <4>2. DailyTokens > 0 => LimitsFacts!PrunedToday + reserved' <= DailyTokens
        BY ONLY <4>1, LimitsAssumed, r \in Requests, LimitsFacts!ReserveFits
      <4> QED
        BY <4>2, SameLimits
    <3>2. CASE Limits!Admit(r) \/ Limits!AdmitRefused(r) \/ Limits!ReserveRefused(r)
      <4>1. reserved' = reserved
        BY <3>2 DEF Limits!Admit, Limits!AdmitRefused, Limits!ReserveRefused
      <4> QED
        BY <1>1, <4>1 DEF DayOK
    <3> QED
      BY <1>8, <3>1, <3>2
  <2>3. \A q \in Requests : adm'[q].charged = adm[q].charged /\ adm'[q].at = adm[q].at
    BY <1>4
  <2>4. \A q \in Requests : adm[q].stage = "settled" => adm'[q].stage = "settled"
    BY <1>3, <1>4
  <2>5. DayOK'
    BY <1>1, <1>6, <2>1, <2>2, <2>3, <2>4, DayPruned
  <2> QED
    BY <1>5, <2>5 DEF DayInv
<1> QED
  BY <1>7, <1>8 DEF AdmitKey, CheckBudgets

\* settle: the charge enters the counter and the request those kept.
LEMMA SettleKeepsDay ==
    ASSUME DayInv, LentInv', NEW r \in Requests, SettleAdmission(r)
    PROVE  DayInv'
<1>1. /\ stage \in [Requests -> Stages] /\ adm \in [Requests -> LimitsFacts!Admission]
      /\ LentInv /\ FileOK /\ DayOK
  BY LentTypes DEF DayInv, LentInv, PipelineTypeOK
<1>2. /\ UNCHANGED recorderVars /\ stage[r] = "settle"
      /\ Proceeds(r, IF r \in buffered THEN "unbuffer" ELSE "record")
  BY DEF SettleAdmission
<1>3. PICK row \in SettleRow(r) : Limits!SettleAs(r, row[1], row[2])
  BY DEF SettleAdmission
<1> DEFINE c == row[2]
<1>4. /\ row[1] \in BOOLEAN /\ c \in Nat /\ c <= adm[r].reserved + Overrun
      /\ adm[r].reserved \in Nat /\ Overrun \in Nat
  BY <1>1, RowCharges, GatewayAssumption DEF LimitsFacts!Admission
<1>5. /\ today' = Limits!PrunedToday + c /\ day' = Limits!DayOf(now) /\ now' = now
      /\ reserved' = reserved - adm[r].reserved
      /\ adm' = [adm EXCEPT ![r].stage = "settled", ![r].counted = row[1], ![r].charged = c, ![r].at = now,
                            ![r].reserved = 0]
  BY <1>3 DEF Limits!SettleAs, Limits!PruneDay, Limits!SettledReserved
<1> HIDE DEF c
<1>6. /\ \A q \in Requests \ {r} : adm'[q] = adm[q]
      /\ adm'[r].charged = c /\ adm'[r].at = now /\ adm'[r].stage = "settled"
  BY <1>1, <1>5 DEF LimitsFacts!Admission
<1>7. /\ stage' = [stage EXCEPT ![r] = stage'[r]] /\ stage'[r] \in {"unbuffer", "record"}
  BY <1>1, <1>2 DEF Proceeds
<1>8. FileOK'
  <2>1. \A q \in Requests : stage[q] = "over" => stage'[q] = "over"
    BY <1>1, <1>2, <1>7
  <2> QED
    BY <1>1, <1>2, <2>1, FileStill
<1>9. /\ \A q \in Requests \ {r} : q \in Kept' <=> q \in Kept
      /\ r \in Kept' /\ r \notin Kept
  <2>1. r \notin Kept
    BY <1>1, <1>2 DEF Kept, Settled, At, FileOK
  <2> QED
    BY <1>1, <1>2, <1>6, <1>7, <2>1, KeptAt
<1> DEFINE d == Limits!DayOf(now)
<1> DEFINE S == OfDay(Kept, d)
<1> DEFINE T == OfDay(Kept, day)'
<1>10. S \in SUBSET Requests /\ T \in SUBSET Requests /\ S \ {r} = T \ {r} /\ r \notin S /\ r \in T
  <2>1. Kept \subseteq Requests
    BY <1>1, DayTypes
  <2>2. Kept' \subseteq Requests
    <3>1. (Kept \in SUBSET Requests)'
      BY DayTypes, PTL
    <3> QED
      BY <3>1
  <2>3. T = {q \in Kept' : Limits!DayOf(adm'[q].at) = d}
    BY <1>5 DEF OfDay, Limits!DayOf
  <2> QED
    BY <1>6, <1>9, <2>1, <2>2, <2>3 DEF OfDay
<1>11. SumOn(Charged', T) = SumOn(Charged, S) + c
  <2>1. /\ \A x \in Requests : x # r => Charged[x] = Charged'[x]
        /\ Charged'[r] = c
    BY <1>6 DEF Charged
  <2>2. NatOn(Charged, Requests) /\ NatOn(Charged', Requests)
    <3>1. \A q \in Requests : adm[q].charged \in Nat
      BY <1>1, DayTypes
    <3> QED
      BY <1>4, <1>6, <3>1 DEF NatOn, Charged
  <2>3. SumOn(Charged, S) \in Nat
    <3>1. Kept \in SUBSET Requests
      BY <1>1, DayTypes
    <3> QED
      BY <1>1, <3>1, DaySums
  <2>4. IsFiniteSet(Requests)
    BY GatewayAssumption
  <2> HIDE DEF S, T
  <2>5. SumOn(Charged', T) + (IF r \in S THEN Charged[r] ELSE 0)
          = SumOn(Charged, S) + (IF r \in T THEN Charged'[r] ELSE 0)
    <3> DEFINE f == Charged
    <3> DEFINE g == Charged'
    <3>1. /\ IsFiniteSet(Requests) /\ NatOn(f, Requests) /\ NatOn(g, Requests)
          /\ \A x \in Requests : x # r => f[x] = g[x]
          /\ S \in SUBSET Requests /\ T \in SUBSET Requests /\ S \ {r} = T \ {r}
      BY <1>10, <2>1, <2>2, <2>4
    <3> HIDE DEF f, g
    <3>2. SumOn(g, T) + (IF r \in S THEN f[r] ELSE 0) = SumOn(f, S) + (IF r \in T THEN g[r] ELSE 0)
      BY ONLY <3>1, SumChange
    <3> QED
      BY <3>2 DEF f, g
  <2>6. SumOn(Charged', T) + 0 = SumOn(Charged, S) + c
    BY <1>10, <2>1, <2>5
  <2>7. SumOn(Charged', T) \in Nat
    <3>1. IsFiniteSet(T) /\ NatOn(Charged', T)
      BY <1>10, <2>2, <2>4, FS_Subset DEF NatOn
    <3> QED
      BY <3>1, SumType
  <2> QED
    BY <2>6, <2>7
<1>12. today' = SumOn(Charged', T)
  BY <1>1, <1>5, <1>11, CounterExact
<1>13. /\ Limits!PrunedToday' = Limits!PrunedToday + c /\ Limits!PrunedToday \in Nat
       /\ reserved \in Nat /\ DailyTokens \in Nat
  <2>1. Limits!PrunedToday' = today'
    BY <1>5 DEF Limits!PrunedToday, Limits!DayOf
  <2>2. today \in Nat /\ reserved \in Nat /\ DailyTokens \in Nat
    BY <1>1, DayTypes
  <2> QED
    BY <1>5, <2>1, <2>2 DEF Limits!PrunedToday
<1>14. Overrun = 0 /\ DailyTokens > 0 => Limits!PrunedToday' + reserved' <= DailyTokens
  <2>1. Overrun = 0 /\ DailyTokens > 0 => Limits!PrunedToday + reserved <= DailyTokens
    BY <1>1 DEF DayOK
  <2> QED
    BY <1>4, <1>5, <1>13, <2>1
<1>15. \A q \in Requests : /\ adm'[q].charged # 0 => adm'[q].stage = "settled"
                           /\ (Limits!DayOf(adm[q].at) <= day)'
  <2>1. \A q \in Requests : Limits!DayOf(adm[q].at) <= d
    BY <1>1, DayTypes DEF DayOK
  <2>2. d \in Nat
    BY <1>1, DayTypes
  <2> QED
    BY <1>1, <1>5, <1>6, <2>1, <2>2 DEF DayOK, Limits!DayOf
<1>16. (day <= Limits!DayOf(now))'
  BY <1>1, <1>5, DayTypes DEF Limits!DayOf
<1>17. DayOK'
  BY <1>12, <1>14, <1>15, <1>16 DEF DayOK
<1> QED
  BY <1>8, <1>17 DEF DayInv

\* Appending adds one member.
LEMMA RangeAppend ==
    ASSUME NEW s \in Seq(Requests), NEW x \in Requests
    PROVE  Range(Append(s, x)) = Range(s) \cup {x}
<1> DEFINE t == Append(s, x)
<1>1. /\ Len(s) \in Nat /\ Len(t) = Len(s) + 1 /\ t[Len(s) + 1] = x
      /\ \A i \in 1..Len(s) : t[i] = s[i]
      /\ DOMAIN t = 1..Len(t) /\ DOMAIN s = 1..Len(s)
  OBVIOUS
<1> HIDE DEF t
<1>2. \A i \in 1..Len(t) : i \in 1..Len(s) \/ i = Len(s) + 1
  BY <1>1
<1>3. Len(s) + 1 \in 1..Len(t) /\ 1..Len(s) \subseteq 1..Len(t)
  BY <1>1
<1>4. Range(t) \subseteq Range(s) \cup {x}
  BY <1>1, <1>2 DEF Range
<1>5. Range(s) \cup {x} \subseteq Range(t)
  BY <1>1, <1>3 DEF Range
<1> QED
  BY <1>4, <1>5 DEF t

\* The event of a request that is over.
LEMMA RecordKeepsDay ==
    ASSUME DayInv, LentInv', NEW r \in Requests, Record(r)
    PROVE  DayInv'
<1>1. /\ stage \in [Requests -> Stages] /\ LentInv /\ FileOK /\ DayOK
      /\ buffer \in Seq(Requests) /\ page \in Seq(Requests)
  BY DEF DayInv, LentInv, PipelineTypeOK, RecorderTypeOK
<1>2. /\ stage[r] = "record" /\ stage' = [stage EXCEPT ![r] = "over"]
      /\ UNCHANGED <<limiterVars, closed, fileVars>>
      /\ \/ ~closed /\ buffer' = Append(buffer, r) /\ dropped' = dropped
         \/ dropped' = dropped \cup {r} /\ buffer' = buffer
  BY DEF Record, Proceeds
<1>3. UNCHANGED <<now, today, day, reserved, adm, page, ledger, torn, stuck, lost, closed>>
  BY <1>2 DEF limiterVars, fileVars
<1>4. r \notin Recorded /\ Recorded \subseteq Requests
  BY <1>1, <1>2, DayTypes DEF FileOK
<1>5. Range(Append(buffer, r)) = Range(buffer) \cup {r}
  BY <1>1, RangeAppend
<1>6. Recorded' = Recorded \cup {r}
  BY <1>2, <1>3, <1>5 DEF Recorded
<1>7. FileOK'
  <2>1. \A q \in Recorded' : stage'[q] = "over"
    BY <1>1, <1>2, <1>4, <1>6 DEF FileOK
  <2>2. \A i, j \in 1..Len(buffer') : buffer'[i] = buffer'[j] => i = j
    <3>1. CASE buffer' = buffer
      BY <1>1, <3>1 DEF FileOK
    <3>2. CASE buffer' = Append(buffer, r)
      <4>1. \A i \in 1..Len(buffer) : buffer[i] # r
        BY <1>1, <1>4 DEF Recorded, Range
      <4>2. /\ Len(buffer') = Len(buffer) + 1 /\ Len(buffer) \in Nat /\ buffer'[Len(buffer) + 1] = r
            /\ \A i \in 1..Len(buffer) : buffer'[i] = buffer[i]
        BY <1>1, <3>2
      <4>3. \A i, j \in 1..Len(buffer) : buffer[i] = buffer[j] => i = j
        BY <1>1 DEF FileOK
      <4>4. \A i \in 1..Len(buffer') : i \in 1..Len(buffer) \/ i = Len(buffer) + 1
        BY <4>2
      <4> QED
        BY <4>1, <4>2, <4>3, <4>4
    <3> QED
      BY <1>2, <3>1, <3>2
  <2>3. /\ Range(page') \cap Range(buffer') = {}
        /\ (ledger' \cup dropped' \cup lost') \cap (Range(page') \cup Range(buffer')) = {}
        /\ ledger' \cap (dropped' \cup lost') = {}
    <3>1. r \notin ledger /\ r \notin Range(page) /\ r \notin Range(buffer) /\ r \notin dropped /\ r \notin lost
      BY <1>4 DEF Recorded
    <3>2. \/ Range(buffer') = Range(buffer) \cup {r} /\ dropped' = dropped
          \/ Range(buffer') = Range(buffer) /\ dropped' = dropped \cup {r}
      BY <1>2, <1>5
    <3> QED
      BY <1>1, <1>3, <3>1, <3>2 DEF FileOK
  <2>4. closed' => buffer' = <<>> /\ page' = <<>>
    BY <1>1, <1>2, <1>3 DEF FileOK
  <2>5. ~stuck' => (torn' => lost' = {}) /\ Cardinality(lost') <= 1
    BY <1>1, <1>3 DEF FileOK
  <2> QED
    BY <2>1, <2>2, <2>3, <2>4, <2>5 DEF FileOK
<1>8. Kept \subseteq Kept' /\ \A q \in Kept' \ Kept : adm[q].charged = 0
  <2>1. Settled \subseteq Settled' \cup {r} /\ Settled' \subseteq Settled
    BY <1>1, <1>2, <1>3 DEF Settled, At
  <2>2. Kept \subseteq Kept' /\ Kept' \subseteq Kept \cup {r}
    BY <1>6, <2>1 DEF Kept
  <2>3. r \notin Kept => adm[r].stage # "settled"
    BY <1>2 DEF Kept, Settled, At
  <2> QED
    BY <1>1, <2>2, <2>3 DEF DayOK
<1>9. DayOK'
  BY <1>1, <1>3, <1>8, DayStill
<1> QED
  BY <1>7, <1>9 DEF DayInv

\* What a write of w can lose: nothing, or its first line to one that is torn.
LEMMA WriteLoses ==
    ASSUME NEW w \in Seq(Requests), ~stuck
    PROVE  /\ ~torn => Range(w) \ Legible(w) = {}
           /\ IsFiniteSet(Range(w) \ Legible(w)) /\ Cardinality(Range(w) \ Legible(w)) <= 1
<1>1. ASSUME NEW x \in Range(w) \ Legible(w)
      PROVE  torn /\ x = w[1]
  <2>1. PICK i \in 1..Len(w) : x = w[i]
    BY DEF Range
  <2>2. i \notin (IF torn THEN 2 ELSE 1)..Len(w)
    BY <2>1 DEF Legible
  <2> QED
    BY <2>1, <2>2
<1>2. Range(w) \ Legible(w) = {} \/ Range(w) \ Legible(w) = {w[1]}
  BY <1>1
<1> DEFINE D == Range(w) \ Legible(w)
<1> SUFFICES (~torn => D = {}) /\ IsFiniteSet(D) /\ Cardinality(D) <= 1
  OBVIOUS
<1>3. CASE D = {}
  <2>1. IsFiniteSet({}) /\ Cardinality({}) = 0
    BY FS_EmptySet
  <2> HIDE DEF D
  <2> QED
    BY <1>3, <2>1
<1>4. CASE D = {w[1]}
  <2>1. torn
    BY <1>1, <1>4
  <2>2. IsFiniteSet({w[1]}) /\ Cardinality({w[1]}) = 1
    BY FS_Singleton
  <2> HIDE DEF D
  <2> QED
    BY <1>4, <2>1, <2>2
<1> QED
  BY <1>2, <1>3, <1>4

\* A step of the writer keeps the events it moves.
LEMMA WriterKeepsDay ==
    ASSUME DayInv, LentInv', WriterTakes \/ WriterFlushes \/ WriterFails \/ ShutsDown
    PROVE  DayInv'
<1>1. /\ LentInv /\ FileOK /\ DayOK /\ RecorderTypeOK
  BY DEF DayInv, LentInv
<1>2. UNCHANGED <<limiterVars, stage, dropped>>
  BY DEF WriterTakes, WriterFlushes, WriterFails, ShutsDown
<1>3. UNCHANGED <<now, today, day, reserved, adm>>
  BY <1>2 DEF limiterVars
<1>4. buffer \in Seq(Requests) /\ page \in Seq(Requests) /\ Range(<<>>) = {}
  BY <1>1 DEF RecorderTypeOK, Range
<1>5. Recorded' = Recorded /\ FileOK'
  <2>1. CASE WriterTakes
    <3>1. /\ buffer # <<>> /\ page' = Append(page, Head(buffer)) /\ buffer' = Tail(buffer)
          /\ UNCHANGED <<ledger, torn, stuck, closed, lost>>
      BY <2>1 DEF WriterTakes
    <3> DEFINE h == Head(buffer)
    <3>2. Range(page') = Range(page) \cup {h}
      <4>1. h \in Requests
        BY <1>4, <3>1
      <4> QED
        BY <1>4, <3>1, <4>1, RangeAppend
    <3>3. /\ Len(buffer) \in Nat /\ Len(buffer) >= 1 /\ Len(buffer') = Len(buffer) - 1 /\ buffer[1] = h
          /\ \A i \in 1..Len(buffer') : buffer'[i] = buffer[i + 1]
      BY <1>4, <3>1
    <3>4. Range(buffer) = Range(buffer') \cup {h} /\ h \notin Range(buffer')
      <4>1. \A i \in 1..Len(buffer) : i = 1 \/ (i - 1 \in 1..Len(buffer') /\ buffer[i] = buffer'[i - 1])
        BY <3>3
      <4>2. \A i \in 1..Len(buffer') : i + 1 \in 1..Len(buffer) /\ i + 1 # 1
        BY <3>3
      <4>3. 1 \in 1..Len(buffer)
        BY <3>3
      <4>4. DOMAIN buffer = 1..Len(buffer) /\ DOMAIN buffer' = 1..Len(buffer')
        BY <1>4, <3>1
      <4>5. \A i, j \in 1..Len(buffer) : buffer[i] = buffer[j] => i = j
        BY <1>1 DEF FileOK
      <4> HIDE DEF h
      <4>6. h \notin Range(buffer')
        BY <3>3, <4>2, <4>3, <4>4, <4>5 DEF Range
      <4>7. Range(buffer) \subseteq Range(buffer') \cup {h}
        <5> SUFFICES ASSUME NEW i \in 1..Len(buffer) PROVE buffer[i] \in Range(buffer') \cup {h}
          BY <4>4 DEF Range
        <5> QED
          BY <3>3, <4>1, <4>4 DEF Range
      <4>8. Range(buffer') \cup {h} \subseteq Range(buffer)
        <5>1. h \in Range(buffer)
          BY <3>3, <4>3, <4>4 DEF Range
        <5>2. ASSUME NEW i \in 1..Len(buffer') PROVE buffer'[i] \in Range(buffer)
          BY <3>3, <4>2, <4>4 DEF Range
        <5> QED
          BY <4>4, <5>1, <5>2 DEF Range
      <4> QED
        BY <4>6, <4>7, <4>8
    <3>5. Recorded' = Recorded
      BY <1>2, <3>1, <3>2, <3>4 DEF Recorded
    <3>6. \A i, j \in 1..Len(buffer') : buffer'[i] = buffer'[j] => i = j
      <4>1. \A i \in 1..Len(buffer') : i \in Int /\ i + 1 \in 1..Len(buffer)
        BY <3>3
      <4>2. \A i, j \in 1..Len(buffer) : buffer[i] = buffer[j] => i = j
        BY <1>1 DEF FileOK
      <4>3. ASSUME NEW i \in 1..Len(buffer'), NEW j \in 1..Len(buffer'), buffer'[i] = buffer'[j]
            PROVE  i = j
        <5>1. buffer'[i] = buffer[i + 1] /\ buffer'[j] = buffer[j + 1]
          BY <3>3
        <5>2. i + 1 \in 1..Len(buffer) /\ j + 1 \in 1..Len(buffer) /\ buffer[i + 1] = buffer[j + 1]
          BY <4>1, <4>3, <5>1
        <5>3. i + 1 = j + 1
          BY <4>2, <5>2
        <5> QED
          BY <4>1, <5>3
      <4> QED
        BY <4>3
    <3>7. /\ Range(page') \cap Range(buffer') = {}
          /\ (ledger' \cup dropped' \cup lost') \cap (Range(page') \cup Range(buffer')) = {}
          /\ ledger' \cap (dropped' \cup lost') = {}
      <4> HIDE DEF h
      <4> QED
        BY <1>1, <1>2, <3>1, <3>2, <3>4 DEF FileOK
    <3>8. closed' => buffer' = <<>> /\ page' = <<>>
      BY <1>1, <3>1 DEF FileOK
    <3>9. ~stuck' => (torn' => lost' = {}) /\ Cardinality(lost') <= 1
      BY <1>1, <3>1 DEF FileOK
    <3>10. \A q \in Recorded' : stage'[q] = "over"
      BY <1>1, <1>2, <3>5 DEF FileOK
    <3> QED
      BY <3>5, <3>6, <3>7, <3>8, <3>9, <3>10 DEF FileOK
  <2>2. CASE WriterFlushes \/ ShutsDown
    <3> DEFINE w == IF WriterFlushes THEN page ELSE Writes
    <3>1. /\ w \in Seq(Requests) /\ Range(w) \subseteq Range(page) \cup Range(buffer)
          /\ Range(w) \cup Range(page') \cup Range(buffer') = Range(page) \cup Range(buffer)
          /\ Range(w) \cap Range(buffer') = {} /\ page' = <<>> /\ (buffer' = buffer \/ buffer' = <<>>)
      <4>1. CASE WriterFlushes
        BY <1>1, <1>4, <4>1 DEF WriterFlushes, FileOK
      <4>2. CASE ~WriterFlushes
        <5>1. page' = <<>> /\ buffer' = <<>> /\ w = page \o buffer
          BY <2>2, <4>2 DEF ShutsDown, Writes
        <5>2. page \o buffer \in Seq(Requests) /\ Range(page \o buffer) = Range(page) \cup Range(buffer)
          BY <1>4, RangeConcatenation
        <5> QED
          BY <1>4, <5>1, <5>2
      <4> QED
        BY <4>1, <4>2
    <3>2. /\ ledger' = ledger \cup Legible(w) /\ lost' = lost \cup (Range(w) \ Legible(w))
          /\ stuck' = stuck /\ (torn' => torn)
          /\ torn' /\ ~stuck => w = <<>>
      BY <2>2 DEF WriterFlushes, ShutsDown
    <3>3. closed' => closed \/ (buffer' = <<>> /\ page' = <<>>)
      BY <2>2 DEF WriterFlushes, ShutsDown
    <3> HIDE DEF w
    <3>4. Legible(w) \subseteq Range(w)
      BY <3>1, LegibleWritten
    <3>5. Recorded' = Recorded
      <4>1. ledger' \cup lost' = ledger \cup lost \cup Range(w)
        BY <3>2, <3>4
      <4> QED
        BY <1>2, <3>1, <4>1 DEF Recorded
    <3>6. \A i, j \in 1..Len(buffer') : buffer'[i] = buffer'[j] => i = j
      BY <1>1, <3>1 DEF FileOK
    <3>7. /\ Range(page') \cap Range(buffer') = {}
          /\ (ledger' \cup dropped' \cup lost') \cap (Range(page') \cup Range(buffer')) = {}
          /\ ledger' \cap (dropped' \cup lost') = {}
      <4>1. Range(page') = {} /\ Range(buffer') \subseteq Range(buffer)
        BY <1>4, <3>1
      <4>2. (ledger \cup dropped \cup lost) \cap (Range(page) \cup Range(buffer)) = {}
            /\ ledger \cap (dropped \cup lost) = {}
        BY <1>1 DEF FileOK
      <4> QED
        BY <1>2, <3>1, <3>2, <3>4, <4>1, <4>2
    <3>8. closed' => buffer' = <<>> /\ page' = <<>>
      BY <1>1, <3>1, <3>3 DEF FileOK
    <3>9. ~stuck' => (torn' => lost' = {}) /\ Cardinality(lost') <= 1
      <4> SUFFICES ASSUME ~stuck PROVE (torn' => lost' = {}) /\ Cardinality(lost') <= 1
        BY <3>2
      <4>1. (torn => lost = {}) /\ Cardinality(lost) <= 1
        BY <1>1 DEF FileOK
      <4>2. /\ ~torn => Range(w) \ Legible(w) = {}
            /\ Cardinality(Range(w) \ Legible(w)) <= 1
        BY <3>1, WriteLoses
      <4>3. lost' = lost \/ lost' = Range(w) \ Legible(w)
        BY <3>2, <4>1, <4>2
      <4>4. torn' => lost' = {}
        BY <1>4, <3>2, <4>1
      <4> QED
        BY <4>1, <4>2, <4>3, <4>4
    <3>10. \A q \in Recorded' : stage'[q] = "over"
      BY <1>1, <1>2, <3>5 DEF FileOK
    <3> QED
      BY <3>5, <3>6, <3>7, <3>8, <3>9, <3>10 DEF FileOK
  <2>3. CASE WriterFails
    <3>1. /\ stuck' = TRUE /\ lost' = lost \cup Range(page) /\ page' = <<>> /\ UNCHANGED <<buffer, ledger, closed>>
      BY <2>3 DEF WriterFails
    <3>2. Recorded' = Recorded
      BY <1>2, <1>4, <3>1 DEF Recorded
    <3>3. /\ Range(page') \cap Range(buffer') = {}
          /\ (ledger' \cup dropped' \cup lost') \cap (Range(page') \cup Range(buffer')) = {}
          /\ ledger' \cap (dropped' \cup lost') = {}
      BY <1>1, <1>2, <1>4, <3>1 DEF FileOK
    <3>4. /\ \A q \in Recorded' : stage'[q] = "over"
          /\ closed' => buffer' = <<>> /\ page' = <<>>
          /\ \A i, j \in 1..Len(buffer') : buffer'[i] = buffer'[j] => i = j
      BY <1>1, <1>2, <3>1, <3>2 DEF FileOK
    <3> QED
      BY <3>1, <3>2, <3>3, <3>4 DEF FileOK
  <2> QED
    BY <2>1, <2>2, <2>3
<1>6. Kept' = Kept
  BY <1>2, <1>3, <1>5 DEF Kept, Settled, At
<1>7. DayOK'
  BY <1>1, <1>3, <1>6, DayStill
<1> QED
  BY <1>5, <1>7 DEF DayInv

\* The next process counts what the file holds of today.
LEMMA RestartKeepsDay ==
    ASSUME DayInv, LentInv', KilledAndRestarted
    PROVE  DayInv'
<1>1. /\ LentInv /\ FileOK /\ DayOK /\ stage \in [Requests -> Stages] /\ ledger \subseteq Requests
      /\ adm \in [Requests -> LimitsFacts!Admission]
  BY LentTypes DEF DayInv, LentInv, PipelineTypeOK, RecorderTypeOK
<1>2. /\ today' = ChargedToday(ledger) /\ day' = Limits!DayOf(now) /\ now' = now /\ reserved' = 0
      /\ buffer' = <<>> /\ page' = <<>> /\ dropped' = {} /\ lost' = {} /\ ledger' = ledger
      /\ stage' = [r \in Requests |-> IF Unended(r) THEN "dead" ELSE stage[r]]
      /\ adm' = [r \in Requests |-> IF Unended(r) /\ adm[r].stage # "settled"
                                    THEN [Limits!NoAdmission EXCEPT !.stage = "settled"] ELSE adm[r]]
  BY DEF KilledAndRestarted, StartsFrom, SeededToday
<1>3. Range(<<>>) = {}
  BY DEF Range
<1>4. Recorded' = ledger /\ \A r \in ledger : stage[r] = "over"
  BY <1>1, <1>2, <1>3 DEF Recorded, FileOK
<1>5. \A r \in Requests : /\ stage'[r] \notin {"unbuffer", "record"}
                          /\ stage[r] = "over" => stage'[r] = "over" /\ adm'[r] = adm[r]
  BY <1>1, <1>2 DEF Unended
<1>6. Kept' = ledger
  BY <1>4, <1>5 DEF Kept, Settled, At
<1>7. FileOK'
  <2>1. \A r \in Recorded' : stage'[r] = "over"
    BY <1>1, <1>4, <1>5
  <2>2. Cardinality({}) = 0 /\ Len(<<>>) = 0
    BY FS_EmptySet
  <2> QED
    BY <1>2, <1>3, <2>1, <2>2 DEF FileOK
<1>8. Limits!DayOf(0) = 0
  BY GatewayAssumption DEF Limits!DayOf
<1>9. \A r \in Requests : /\ adm'[r].charged # 0 => adm'[r].stage = "settled"
                          /\ adm'[r].at = adm[r].at \/ adm'[r].at = 0
  <2> SUFFICES ASSUME NEW r \in Requests
               PROVE  /\ adm'[r].charged # 0 => adm'[r].stage = "settled"
                      /\ adm'[r].at = adm[r].at \/ adm'[r].at = 0
    OBVIOUS
  <2>1. CASE adm'[r] = adm[r]
    BY <1>1, <2>1 DEF DayOK
  <2>2. CASE adm'[r] = [Limits!NoAdmission EXCEPT !.stage = "settled"]
    BY <2>2 DEF Limits!NoAdmission
  <2> QED
    BY <1>2, <2>1, <2>2
<1>10. \A r \in Requests : (Limits!DayOf(adm[r].at) <= day)'
  <2> SUFFICES ASSUME NEW r \in Requests PROVE Limits!DayOf(adm'[r].at) <= Limits!DayOf(now)
    BY <1>2 DEF Limits!DayOf
  <2>1. /\ Limits!DayOf(adm[r].at) <= day /\ day <= Limits!DayOf(now) /\ Limits!DayOf(adm[r].at) \in Nat
        /\ day \in Nat /\ Limits!DayOf(now) \in Nat
    BY <1>1, DayTypes DEF DayOK
  <2>2. CASE adm'[r].at = adm[r].at
    BY <2>1, <2>2
  <2>3. CASE adm'[r].at = 0
    BY <1>8, <2>1, <2>3
  <2> QED
    BY <1>9, <2>2, <2>3
<1>11. (day <= Limits!DayOf(now))'
  BY <1>1, <1>2, DayTypes DEF Limits!DayOf
<1>12. today' = SumOn(Charged, OfDay(Kept, day))'
  <2> DEFINE S == OfDay(ledger, Limits!DayOf(now))
  <2>1. OfDay(Kept, day)' = {r \in ledger : Limits!DayOf(adm'[r].at) = Limits!DayOf(now)}
    BY <1>2, <1>6 DEF OfDay, Limits!DayOf
  <2>2. OfDay(Kept, day)' = S
    BY <1>1, <1>4, <1>5, <2>1 DEF OfDay
  <2>3. S \in SUBSET ledger
    BY DEF OfDay
  <2>4. \A r \in S : Charged[r] = Charged'[r]
    BY <1>1, <1>4, <1>5, <2>3 DEF Charged
  <2>5. IsFiniteSet(S) /\ NatOn(Charged, S)
    BY <1>1, DaySums
  <2>6. today' = SumOn(Charged, S)
    BY <1>2, ChargedIs
  <2> HIDE DEF S
  <2>7. SumOn(Charged, S) = SumOn(Charged', S)
    <3> DEFINE f == Charged
    <3> DEFINE g == Charged'
    <3>1. IsFiniteSet(S) /\ NatOn(f, S) /\ \A x \in S : f[x] = g[x]
      BY <2>4, <2>5
    <3> HIDE DEF f, g
    <3>2. SumOn(f, S) = SumOn(g, S)
      BY ONLY <3>1, SumSame
    <3> QED
      BY <3>2 DEF f, g
  <2> QED
    BY <2>2, <2>6, <2>7
<1>13. (Overrun = 0 /\ DailyTokens > 0 => Limits!PrunedToday + reserved <= DailyTokens)'
  <2>1. Limits!PrunedToday' = today'
    BY <1>2 DEF Limits!PrunedToday, Limits!DayOf
  <2>2. Overrun = 0 /\ DailyTokens > 0 => ChargedToday(ledger) + reserved <= DailyTokens
    BY DayCounts DEF BudgetSurvivesRestart
  <2>3. ChargedToday(ledger) \in Nat /\ reserved \in Nat /\ DailyTokens \in Nat
    BY <1>1, DayTypes, ChargesAreNat
  <2> QED
    BY <1>2, <2>1, <2>2, <2>3
<1>14. DayOK'
  BY <1>9, <1>10, <1>11, <1>12, <1>13 DEF DayOK
<1> QED
  BY <1>7, <1>14 DEF DayInv

\* The first process finds an empty file and an empty day.
LEMMA DayInit == GatewayInit => DayInv
<1> SUFFICES ASSUME GatewayInit PROVE DayInv
  OBVIOUS
<1>1. LentInv
  BY LentInit
<1>2. Range(<<>>) = {} /\ Cardinality({}) = 0 /\ Len(<<>>) = 0
  BY FS_EmptySet DEF Range
<1>3. Recorded = {} /\ Settled = {}
  BY <1>2 DEF GatewayInit, Recorded, Settled, At
<1>4. FileOK
  BY <1>2, <1>3 DEF GatewayInit, FileOK
<1>5. Limits!DayOf(0) = 0
  BY GatewayAssumption DEF Limits!DayOf
<1>6. /\ now = 0 /\ day = 0 /\ today = 0 /\ reserved = 0
      /\ \A r \in Requests : adm[r].charged = 0 /\ adm[r].at = 0
  BY DEF GatewayInit, Limits!LimiterInit, Limits!NoAdmission
<1>7. today = SumOn(Charged, OfDay(Kept, day))
  <2>1. OfDay(Kept, day) = {}
    BY <1>3 DEF OfDay, Kept
  <2> QED
    BY <1>6, <2>1, SumEmpty
<1>8. DailyTokens \in Nat /\ Limits!PrunedToday = 0
  BY <1>1, <1>6, DayTypes DEF Limits!PrunedToday
<1>9. DayOK
  BY <1>5, <1>6, <1>7, <1>8 DEF DayOK
<1> QED
  BY <1>1, <1>4, <1>9 DEF DayInv

\* No step parts the counter from the file.
LEMMA DayNext == DayInv /\ [GatewayNext]_vars => DayInv'
<1> SUFFICES ASSUME DayInv, [GatewayNext]_vars PROVE DayInv'
  OBVIOUS
<1>0. LentInv' /\ LentInv /\ FileOK /\ DayOK
  BY LentNext DEF DayInv
<1>1. ASSUME NEW r \in Requests, Arrive(r) \/ TurnedAway(r) \/ Works(r) \/ Panic(r)
      PROVE  DayInv'
  <2>1. CASE AdmitKey(r) \/ CheckBudgets(r)
    BY <1>0, <2>1, AdmitKeepsDay
  <2>2. CASE SettleAdmission(r)
    BY <1>0, <2>2, SettleKeepsDay
  <2>3. CASE Record(r)
    BY <1>0, <2>3, RecordKeepsDay
  <2>4. CASE \/ Arrive(r) \/ TurnedAway(r) \/ ListModels(r) \/ ReadBody(r) \/ Prepare(r) \/ CallUpstream(r)
             \/ Relay(r) \/ AcquireSlot(r) \/ Queued(r) \/ ReleaseSlot(r) \/ Panic(r) \/ Unbuffer(r)
    BY <1>0, <2>4, PassesKeepDay
  <2> QED
    BY <1>1, <2>1, <2>2, <2>3, <2>4 DEF Works
<1>2. CASE WriterTakes \/ WriterFlushes \/ WriterFails \/ ShutsDown
  BY <1>0, <1>2, WriterKeepsDay
<1>3. CASE (\E r \in Requests : FriendDeparts(r)) \/ EngineResizes \/ TimePasses \/ UNCHANGED vars
  <2>1. /\ UNCHANGED <<recorderVars, stage, today, day, reserved, adm>>
        /\ now' = now \/ now' = now + 1
    BY <1>3 DEF FriendDeparts, EngineResizes, TimePasses, Limits!Tick, vars, resourceVars, limiterVars
  <2>2. FileOK'
    BY <1>0, <2>1, FileStill
  <2>3. Kept' = Kept
    BY <2>1 DEF Kept, Recorded, Settled, At, recorderVars, fileVars
  <2>4. DayOK'
    BY <1>0, <2>1, <2>3, DayStill
  <2> QED
    BY <1>0, <2>2, <2>4 DEF DayInv
<1>4. CASE KilledAndRestarted
  BY <1>0, <1>4, RestartKeepsDay
<1> QED
  BY <1>1, <1>2, <1>3, <1>4 DEF GatewayNext

\* For any requests and limits, with kills, shutdowns and disk faults at any
\* time, whatever is charged: the counter of the day is what the file would give
\* back, plus what this process has settled and not written (seedToday, Record).
THEOREM CounterAlwaysMatches == GatewaySafety => []CounterMatchesFile
BY DayInit, DayNext, DayCounts, PTL DEF GatewaySafety

\* And no restart hands out a fresh budget, when no charge exceeds its
\* reservation (reserve, seedCounters).
THEOREM DayAlwaysKept ==
    ASSUME Overrun = 0
    PROVE  GatewaySafety => []DayIsKept
<1>1. DayInv => DayIsKept
  BY DayCounts DEF DayIsKept
<1> QED
  BY <1>1, DayInit, DayNext, PTL DEF GatewaySafety

\* What a process that was shut down had counted, less what the next one counts.
LEMMA ShutdownForgets ==
    ASSUME DayInv, KilledAndRestarted, closed
    PROVE  /\ today' = Limits!PrunedToday - ChargedToday(dropped \cup lost \cup Settled)
           /\ stuck \/ Cardinality(lost) <= 1
<1>1. LentInv /\ FileOK /\ DayOK
  BY DEF DayInv
<1> DEFINE Gone == dropped \cup lost \cup Settled
           d == Limits!DayOf(now)
<1>2. buffer = <<>> /\ page = <<>> /\ Range(<<>>) = {}
  BY <1>1 DEF FileOK, Range
<1>3. Kept = ledger \cup Gone
  BY <1>2 DEF Kept, Recorded
<1>4. ledger \cap Gone = {}
  <2>1. ledger \cap Settled = {}
    BY <1>1 DEF FileOK, Recorded, Settled, At
  <2> QED
    BY <1>1, <2>1 DEF FileOK
<1>5. today' = ChargedToday(ledger)
  BY DEF KilledAndRestarted, StartsFrom, SeededToday
<1>6. ledger \in SUBSET Requests /\ Gone \in SUBSET Requests
  BY <1>1, <1>3, DayTypes
<1>7. OfDay(Kept, d) = OfDay(ledger, d) \cup OfDay(Gone, d) /\ OfDay(ledger, d) \cap OfDay(Gone, d) = {}
  BY <1>3, <1>4 DEF OfDay
<1>8. ChargedToday(ledger) \in Nat /\ ChargedToday(Gone) \in Nat
  BY <1>1, <1>6, ChargesAreNat, LentTypes
<1> HIDE DEF Gone
<1>9. SumOn(Charged, OfDay(ledger, d) \cup OfDay(Gone, d))
        = SumOn(Charged, OfDay(ledger, d)) + SumOn(Charged, OfDay(Gone, d))
  <2>1. /\ IsFiniteSet(OfDay(ledger, d)) /\ NatOn(Charged, OfDay(ledger, d))
        /\ IsFiniteSet(OfDay(Gone, d)) /\ NatOn(Charged, OfDay(Gone, d))
    BY <1>1, <1>6, DaySums
  <2> QED
    BY <1>7, <2>1, SumDisjoint
<1>10. Limits!PrunedToday = ChargedToday(ledger) + ChargedToday(Gone)
  BY <1>1, <1>7, <1>9, CounterExact, ChargedIs
<1>11. today' = Limits!PrunedToday - ChargedToday(Gone)
  BY <1>5, <1>8, <1>10
<1> QED
  BY <1>1, <1>11 DEF FileOK, Gone

\* A host that is shut down forgets nothing it took but the dropped, the cut
\* off and, when no write fails, one event that met a torn line (Close).
THEOREM ShutdownAlwaysKeepsTheDay == GatewaySafety => ShutdownKeepsTheDay
<1>1. DayInv /\ [GatewayNext]_vars =>
        [closed /\ ~closed' => /\ today' = Limits!PrunedToday - ChargedToday(dropped \cup lost \cup Settled)
                               /\ stuck \/ Cardinality(lost) <= 1]_vars
  <2> SUFFICES ASSUME DayInv, [GatewayNext]_vars, closed, ~closed'
               PROVE  /\ today' = Limits!PrunedToday - ChargedToday(dropped \cup lost \cup Settled)
                      /\ stuck \/ Cardinality(lost) <= 1
    OBVIOUS
  <2>1. CASE KilledAndRestarted
    BY <2>1, ShutdownForgets
  <2>2. CASE ~KilledAndRestarted
    <3>1. ASSUME NEW r \in Requests, Arrive(r) \/ TurnedAway(r) \/ Works(r) \/ Panic(r) \/ FriendDeparts(r)
          PROVE  closed' = closed
      BY <3>1 DEF Works, Arrive, TurnedAway, AdmitKey, ListModels, ReadBody, Prepare, CheckBudgets, AcquireSlot,
         Queued, CallUpstream, Relay, ReleaseSlot, SettleAdmission, Unbuffer, Record, Panic, FriendDeparts,
         resourceVars, recorderVars
    <3>2. CASE WriterTakes \/ WriterFlushes \/ WriterFails \/ ShutsDown \/ EngineResizes \/ TimePasses \/ UNCHANGED vars
      <4>1. closed' \in {closed, TRUE}
        BY <3>2 DEF WriterTakes, WriterFlushes, WriterFails, ShutsDown, EngineResizes, TimePasses, vars,
           resourceVars, recorderVars
      <4> QED
        BY <4>1
    <3> QED
      BY <2>2, <3>1, <3>2 DEF GatewayNext
  <2> QED
    BY <2>1, <2>2
<1> QED
  BY <1>1, DayInit, DayNext, PTL DEF GatewaySafety, ShutdownKeepsTheDay
=============================================================================
