------------------------------- MODULE Limiter ------------------------------
(***************************************************************************)
(* internal/gateway/limits.go: the limits of one key.  Every action is one *)
(* critical section of keyState.mu; a request calls admit, then reserve,   *)
(* then settle, with the calls of the key's other requests and the passing *)
(* of time between them.  Keys share nothing, so one key is modelled.      *)
(***************************************************************************)
EXTENDS Integers, Sequences, FiniteSets, Functions

CONSTANTS Calls,       \* requests of the key, each admitted at most once
          Detached,       \* those that hold no concurrency (admitResource)
          MaxConcurrent,  \* keys.Limits; zero is no limit, here and below
          RPM, TPM, DailyTokens,
          Prompts, Outs,  \* prompt counts and max_tokens a request may ask
          MinOutput,      \* minOutputTokens
          Overrun,        \* tokens a charge may exceed its reservation by
          Window, Day,    \* the sliding log and the UTC day, in clock ticks
          MaxTime         \* bound on the clock

ASSUME LimiterAssumption ==
    /\ IsFiniteSet(Calls) /\ Detached \subseteq Calls
    /\ MaxConcurrent \in Nat /\ RPM \in Nat /\ TPM \in Nat /\ DailyTokens \in Nat
    /\ Prompts \subseteq Nat /\ Outs \subseteq Int
    /\ MinOutput \in Nat \ {0} /\ Overrun \in Nat
    /\ Window \in Nat \ {0} /\ Day \in Nat \ {0} /\ MaxTime \in Nat

VARIABLES now,        \* the limiter's clock
          log,        \* keyState.log: admissions, [t, seq]
          keyInFlight, \* keyState.inFlight
          charges,    \* meter("tokens").log: [t, amount]
          today,      \* meter("tokens").today
          reserved,   \* meter("tokens").reserved
          day,        \* keyState.day
          adm         \* the admission of each request, and what became of it

limiterVars == <<now, log, keyInFlight, charges, today, reserved, day, adm>>

Stages == {"new", "admitted", "refused", "reserved", "settled"}

\* reserved is the admission's own field; since, counted, charged and at are
\* kept for the properties only.
NoAdmission == [stage |-> "new", reserved |-> 0, since |-> 0,
                counted |-> FALSE, charged |-> 0, at |-> 0]

DayOf(t) == t \div Day
MinOf(a, b) == IF a < b THEN a ELSE b
MaxOf(a, b) == IF a < b THEN b ELSE a

LimiterInit == /\ now = 0
               /\ log = <<>>
               /\ keyInFlight = 0
               /\ charges = <<>>
               /\ today = 0
               /\ reserved = 0
               /\ day = 0
               /\ adm = [r \in Calls |-> NoAdmission]

-----------------------------------------------------------------------------
(* prune and used. *)

\* prune's loop: how many entries lead the log that are not after the cutoff.
LeadingExpired(q, t) ==
    CHOOSE k \in 0..Len(q) : /\ \A i \in 1..k : q[i].t <= t - Window
                             /\ k < Len(q) => q[k + 1].t > t - Window
Unexpired(q, t) == SubSeq(q, LeadingExpired(q, t) + 1, Len(q))

PrunedToday == IF DayOf(now) = day THEN today ELSE 0
PrunedLog == Unexpired(log, now)
PrunedCharges == Unexpired(charges, now)

Tokens(q) == LET amounts == [i \in 1..Len(q) |-> q[i].amount]
             IN  FoldFunction(LAMBDA a, b : a + b, 0, amounts)

PruneDay == day' = DayOf(now)
Prune == /\ log' = PrunedLog
         /\ charges' = PrunedCharges
         /\ today' = PrunedToday
         /\ PruneDay

-----------------------------------------------------------------------------
(* fitBudget and floorFor: the shrink-to-fit rule.  -1 is "does not fit";  *)
(* an unbounded output is negative too, and comes back only from no limit. *)

DoesNotFit == -1

FitBudget(limit, used, prompt, out) ==
    LET room == limit - used - prompt
    IN  IF limit <= 0 THEN out
        ELSE IF out = 0 THEN (IF room >= 0 THEN 0 ELSE DoesNotFit)
        ELSE IF out > 0 /\ out <= room THEN out
        ELSE IF room >= MinOutput THEN room
        ELSE DoesNotFit

Fits(limit, used, prompt, out) ==
    limit <= 0 \/ FitBudget(limit, used, prompt, out) # DoesNotFit

FloorFor(out) == IF out = 0 THEN 0
                 ELSE IF out < 0 THEN MinOutput
                 ELSE MinOf(out, MinOutput)

-----------------------------------------------------------------------------
(* admitResource *)

ConcurrencyFull(r) == /\ r \notin Detached
                      /\ MaxConcurrent > 0
                      /\ keyInFlight >= MaxConcurrent
RateFull == RPM > 0 /\ Len(PrunedLog) >= RPM

AdmitRefused(r) == /\ adm[r].stage = "new"
                   /\ ConcurrencyFull(r) \/ RateFull
                   /\ Prune
                   /\ UNCHANGED <<now, keyInFlight, reserved, adm>>

Admit(r) ==
    /\ adm[r].stage = "new"
    /\ ~ConcurrencyFull(r)
    /\ ~RateFull
    /\ keyInFlight' = IF r \in Detached THEN keyInFlight ELSE keyInFlight + 1
    /\ log' = Append(PrunedLog, [t |-> now, seq |-> r])
    /\ charges' = PrunedCharges
    /\ today' = PrunedToday
    /\ PruneDay
    /\ adm' = [adm EXCEPT ![r].stage = "admitted", ![r].since = now]
    /\ UNCHANGED <<now, reserved>>

(* The Retry-After of a full minute: when the oldest admission expires. *)
RateRetry == MaxOf(1, Head(PrunedLog).t + Window - now)

-----------------------------------------------------------------------------
(* reserve: TPM first, then the day with the output TPM left. *)

Live == Tokens(PrunedCharges) + reserved

\* Mutant: the minute forgets the live reservations.
BlindMinuteOut(p, out) == FitBudget(TPM, Tokens(PrunedCharges), p, out)
MinuteOut(p, out) == FitBudget(TPM, Live, p, out)

DayUsed == PrunedToday + reserved
DayOut(p, out) == FitBudget(DailyTokens, DayUsed, p, MinuteOut(p, out))

MinuteFits(p, out) == Fits(TPM, Live, p, out)
DayFits(p, out) == Fits(DailyTokens, DayUsed, p, MinuteOut(p, out))

ReserveRefused(r) ==
    /\ adm[r].stage = "admitted"
    /\ \E p \in Prompts, out \in Outs : ~(MinuteFits(p, out) /\ DayFits(p, out))
    /\ Prune
    /\ adm' = [adm EXCEPT ![r].stage = "refused"]
    /\ UNCHANGED <<now, keyInFlight, reserved>>

Reserve(r) ==
    /\ adm[r].stage = "admitted"
    /\ \E p \in Prompts, out \in Outs :
        LET worst == p + MaxOf(DayOut(p, out), 0)
        IN  /\ MinuteFits(p, out)
            /\ DayFits(p, out)
            /\ adm' = [adm EXCEPT ![r].stage = "reserved", ![r].reserved = worst]
            /\ reserved' = reserved + worst
    /\ Prune
    /\ UNCHANGED <<now, keyInFlight>>

(* The Retry-After of a spent minute, for a request that needs at least n  *)
(* tokens: when enough charges have expired, or a whole window when live   *)
(* reservations alone are in the way.                                      *)
StillLive(k) == Live - Tokens(SubSeq(PrunedCharges, 1, k))
\* Mutant: the wait for the oldest charge, whether or not that is enough.
HopefulTokenRetry(n) == IF PrunedCharges = <<>> THEN Window
                        ELSE MaxOf(1, Head(PrunedCharges).t + Window - now)
TokenRetry(n) ==
    LET enough == {k \in 1..Len(PrunedCharges) : StillLive(k) + n <= TPM}
    IN  IF enough = {} THEN Window
        ELSE LET k == CHOOSE k \in enough : \A j \in enough : k <= j
             IN  MaxOf(1, PrunedCharges[k].t + Window - now)

-----------------------------------------------------------------------------
(* settle, with the row of the settle table the request came to. *)

Rows(r) ==
    LET most == IF adm[r].stage = "reserved" THEN adm[r].reserved + Overrun ELSE 0
    IN  {<<FALSE, 0>>} \cup ({TRUE} \X (0..most))

\* The entry of the admission r, if prune has left it, is cut out of the log.
WithoutEntry(q, r) ==
    LET found == {i \in 1..Len(q) : q[i].seq = r}
    IN  IF found = {} THEN q
        ELSE LET i == CHOOSE i \in found : \A j \in found : i <= j
             IN  SubSeq(q, 1, i - 1) \o SubSeq(q, i + 1, Len(q))

SettledLog(r, counted) == IF counted THEN PrunedLog ELSE WithoutEntry(PrunedLog, r)

SettledInFlight(r, counted) == IF r \in Detached THEN keyInFlight ELSE keyInFlight - 1

SettledReserved(r, charged) == reserved - adm[r].reserved

SettleAs(r, counted, charged) ==
    /\ adm[r].stage \in {"admitted", "refused", "reserved"}
    /\ keyInFlight' = SettledInFlight(r, counted)
    /\ reserved' = SettledReserved(r, charged)
    /\ log' = SettledLog(r, counted)
    /\ charges' = IF charged > 0
                  THEN Append(PrunedCharges, [t |-> now, amount |-> charged])
                  ELSE PrunedCharges
    /\ today' = PrunedToday + charged
    /\ PruneDay
    /\ adm' = [adm EXCEPT ![r].stage = "settled", ![r].counted = counted,
                          ![r].charged = charged, ![r].at = now,
                          ![r].reserved = 0]
    /\ UNCHANGED now

Settle(r) == \E row \in Rows(r) : SettleAs(r, row[1], row[2])

\* counters: what /me and the console read; reading prunes.
Counters == /\ Prune
            /\ UNCHANGED <<now, keyInFlight, reserved, adm>>

Tick == /\ now < MaxTime
        /\ now' = now + 1
        /\ UNCHANGED <<log, keyInFlight, charges, today, reserved, day, adm>>

LimiterNext == \/ \E r \in Calls : \/ Admit(r) \/ AdmitRefused(r)
                                      \/ Reserve(r) \/ ReserveRefused(r)
                                      \/ Settle(r)
               \/ Counters
               \/ Tick

LimiterSpec == LimiterInit /\ [][LimiterNext]_limiterVars

-----------------------------------------------------------------------------
(* Properties *)

LiveRequests == {r \in Calls : adm[r].stage \in {"admitted", "refused", "reserved"}}
SumOver(S, f) == FoldFunctionOnSet(LAMBDA a, b : a + b, 0, f, S)

LimiterTypeOK ==
    /\ now \in 0..MaxTime
    /\ log \in Seq([t : Nat, seq : Calls])
    /\ keyInFlight \in Nat
    /\ charges \in Seq([t : Nat, amount : Nat])
    /\ today \in Nat
    /\ reserved \in Nat
    /\ day \in Nat
    /\ adm \in [Calls -> [stage : Stages, reserved : Nat, since : Nat,
                             counted : BOOLEAN, charged : Nat, at : Nat]]

\* The key's concurrency counter is the number of its requests that are
\* under way, refused ones included until they settle, and never exceeds the
\* limit: neither a double settle nor a forgotten one.
InFlightExact ==
    /\ keyInFlight = Cardinality(LiveRequests \ Detached)
    /\ MaxConcurrent > 0 => keyInFlight <= MaxConcurrent

\* The reservation counter is what the requests under way hold.
ReservedExact == reserved = SumOver(LiveRequests, [r \in Calls |-> adm[r].reserved])

\* "At most N requests in any 60 s": of the admissions that count or may yet
\* come to count, no window, past or present, holds more than RPM.
Counting(r) == adm[r].stage # "new" /\ (adm[r].stage = "settled" => adm[r].counted)
RPMCeiling ==
    RPM > 0 => \A end \in 0..now :
        Cardinality({r \in Calls : /\ Counting(r)
                                      /\ adm[r].since \in (end - Window + 1)..end}) <= RPM

\* "Sum of reservations + sum of charges never exceeds TPM": over the last
\* window, counted from the requests themselves and not from the pruned log.
ChargedWith(when(_)) ==
    SumOver({r \in Calls : adm[r].stage = "settled" /\ when(adm[r].at)},
            [r \in Calls |-> adm[r].charged])
ReservedNow == SumOver(LiveRequests, [r \in Calls |-> adm[r].reserved])
TokenCeiling ==
    TPM > 0 => ChargedWith(LAMBDA t : t > now - Window) + ReservedNow <= TPM

\* The day's charges and the live reservations never exceed the daily budget,
\* whether or not anything has touched the key since midnight.
DailyCeiling ==
    DailyTokens > 0 =>
        ChargedWith(LAMBDA t : DayOf(t) = DayOf(now)) + ReservedNow <= DailyTokens

\* The Retry-After of a refusal is exact: after it, and not one tick before,
\* the refused request would be let in if nothing else happened.
Admittable(t) == Len(Unexpired(log, t)) < RPM
Reservable(t, n) == Tokens(Unexpired(charges, t)) + reserved + n <= TPM
RetryAfterExact ==
    /\ RateFull => /\ Admittable(now + RateRetry)
                   /\ ~Admittable(now + RateRetry - 1)
    /\ \A n \in 1..(TPM - reserved) :
        ~Reservable(now, n) => /\ Reservable(now + TokenRetry(n), n)
                               /\ ~Reservable(now + TokenRetry(n) - 1, n)

\* No limit of the key is exceeded, and the counters that say so are exact, at every step.
LimitsHold ==
    LimiterTypeOK /\ InFlightExact /\ ReservedExact /\ RPMCeiling /\ TokenCeiling /\ DailyCeiling
=============================================================================
