---------------------------- MODULE LimiterProofs ---------------------------
(***************************************************************************)
(* Theorems about Limiter, for any number of requests, any limits and any  *)
(* clock: its counters are exact, no ceiling is ever exceeded, and the     *)
(* Retry-After of a refusal is neither too early nor too late.             *)
(***************************************************************************)
EXTENDS Limiter, SumProofs, SequenceTheorems

LogEntry == [t : Nat, seq : Calls]
Charge == [t : Nat, amount : Nat]
Admission == [stage : Stages, reserved : Nat, since : Nat,
              counted : BOOLEAN, charged : Nat, at : Nat]

(***************************************************************************)
(* prune: the prefix it drops is well defined, holds only what has left    *)
(* the window, and the rest of the log follows in its order.               *)
(***************************************************************************)
LEMMA LeadingExpiredFacts ==
    ASSUME NEW E, NEW q \in Seq(E), \A i \in 1..Len(q) : q[i].t \in Nat, NEW t \in Nat,
           NEW k, k = LeadingExpired(q, t)
    PROVE  /\ k \in 0..Len(q)
           /\ \A i \in 1..k : q[i].t <= t - Window
           /\ k < Len(q) => q[k + 1].t > t - Window
<1> DEFINE N == {i \in 1..Len(q) : q[i].t > t - Window}
           P(j) == /\ \A i \in 1..j : q[i].t <= t - Window
                   /\ j < Len(q) => q[j + 1].t > t - Window
<1>0. Len(q) \in Nat /\ Window \in Nat
  BY LimiterAssumption
<1>1. \E j \in 0..Len(q) : P(j)
  <2>1. CASE N = {}
    <3>1. P(Len(q))
      BY <1>0, <2>1
    <3> QED
      BY <1>0, <3>1
  <2>2. CASE N # {}
    <3>1. N \in SUBSET Nat
      BY <1>0
    <3>2. PICK m \in N : \A n \in N : m <= n
      BY <2>2, <3>1, LeastNatural
    <3>3. m - 1 \in 0..Len(q) /\ (m - 1) + 1 = m /\ m \in 1..Len(q)
      BY <1>0
    <3>4. ASSUME NEW i \in 1..(m - 1) PROVE q[i].t <= t - Window
      <4>1. i \in 1..Len(q) /\ ~(m <= i)
        BY <3>3
      <4>2. i \notin N
        BY <3>2, <4>1
      <4> QED
        BY <1>0, <4>1, <4>2
    <3>5. P(m - 1)
      BY <3>3, <3>4
    <3> QED
      BY <3>3, <3>5
  <2> QED
    BY <2>1, <2>2
<1>2. k = CHOOSE j \in 0..Len(q) : P(j)
  BY DEF LeadingExpired
<1>3. k \in 0..Len(q) /\ P(k)
  <2> HIDE DEF P
  <2> QED
    BY <1>1, <1>2
<1> QED
  BY <1>3

\* What prune leaves.
LEMMA UnexpiredFacts ==
    ASSUME NEW E, NEW q \in Seq(E), \A i \in 1..Len(q) : q[i].t \in Nat, NEW t \in Nat
    PROVE  /\ LeadingExpired(q, t) \in 0..Len(q)
           /\ Unexpired(q, t) \in Seq(E)
           /\ Len(Unexpired(q, t)) = Len(q) - LeadingExpired(q, t)
           /\ \A i \in 1..(Len(q) - LeadingExpired(q, t)) :
                 Unexpired(q, t)[i] = q[LeadingExpired(q, t) + i]
<1> DEFINE k == LeadingExpired(q, t)
<1>0. k = LeadingExpired(q, t)
  OBVIOUS
<1> HIDE DEF k
<1>1. k \in 0..Len(q) /\ Len(q) \in Nat
  BY <1>0, LeadingExpiredFacts
<1> DEFINE u == SubSeq(q, k + 1, Len(q))
<1>2. \A i \in (k + 1)..Len(q) : q[i] \in E
  BY <1>1
<1>3. k + 1 \in Int /\ Len(q) \in Int
  BY <1>1
<1>4. /\ u \in Seq(E)
      /\ Len(u) = IF k + 1 <= Len(q) THEN Len(q) - (k + 1) + 1 ELSE 0
      /\ \A i \in 1..(Len(q) - (k + 1) + 1) : u[i] = q[(k + 1) + i - 1]
  BY <1>2, <1>3, SubSeqProperties
<1>5. Unexpired(q, t) = u
  BY <1>0 DEF Unexpired
<1> HIDE DEF u
<1>6. \A i \in 1..(Len(q) - k) : (k + 1) + i - 1 = k + i
  BY <1>1
<1>7. /\ u \in Seq(E) /\ Len(u) = Len(q) - k
      /\ \A i \in 1..(Len(q) - k) : u[i] = q[k + i]
  BY <1>1, <1>4, <1>6
<1> QED
  BY <1>0, <1>1, <1>5, <1>7

\* An entry is cut out of the log: the others stay.
LEMMA WithoutEntryFacts ==
    ASSUME NEW q \in Seq(LogEntry), NEW r
    PROVE  /\ WithoutEntry(q, r) \in Seq(LogEntry)
           /\ \A i \in 1..Len(WithoutEntry(q, r)) : \E j \in 1..Len(q) :
                 WithoutEntry(q, r)[i] = q[j]
           /\ \A j \in 1..Len(q) : q[j].seq # r =>
                 \E i \in 1..Len(WithoutEntry(q, r)) : WithoutEntry(q, r)[i] = q[j]
<1> DEFINE found == {i \in 1..Len(q) : q[i].seq = r}
           n == CHOOSE i \in found : \A j \in found : i <= j
           a == SubSeq(q, 1, n - 1)
           b == SubSeq(q, n + 1, Len(q))
           w == WithoutEntry(q, r)
<1>1. CASE found = {}
  BY <1>1 DEF WithoutEntry
<1>2. CASE found # {}
  <2>1. w = a \o b
    BY <1>2 DEF WithoutEntry
  <2>2. n \in found
    <3>1. found \in SUBSET Nat
      OBVIOUS
    <3>2. \E i \in found : \A j \in found : i <= j
      <4> HIDE DEF found
      <4> QED
        BY <1>2, <3>1, LeastNatural
    <3> QED
      BY <3>2
  <2>3. n \in 1..Len(q) /\ q[n].seq = r /\ Len(q) \in Nat
    BY <2>2
  <2> HIDE DEF n, w
  <2>4. /\ a \in Seq(LogEntry)
        /\ Len(a) = n - 1
        /\ \A j \in 1..(n - 1) : a[j] = q[j]
    BY <2>3, SubSeqProperties
  <2>5. /\ b \in Seq(LogEntry)
        /\ Len(b) = Len(q) - n
        /\ \A j \in 1..(Len(q) - n) : b[j] = q[n + j]
    BY <2>3, SubSeqProperties
  <2> HIDE DEF a, b
  <2>6. /\ w \in Seq(LogEntry)
        /\ Len(w) = Len(a) + Len(b)
        /\ \A j \in 1..(Len(a) + Len(b)) :
              w[j] = IF j <= Len(a) THEN a[j] ELSE b[j - Len(a)]
    BY <2>1, <2>4, <2>5, ConcatProperties
  <2>7. ASSUME NEW i \in 1..Len(w) PROVE \E j \in 1..Len(q) : w[i] = q[j]
    <3>1. CASE i <= n - 1
      <4>1. w[i] = q[i] /\ i \in 1..Len(q)
        BY <2>3, <2>4, <2>5, <2>6, <3>1
      <4> QED
        BY <4>1
    <3>2. CASE ~(i <= n - 1)
      <4>1. i - (n - 1) \in 1..(Len(q) - n) /\ n + (i - (n - 1)) \in 1..Len(q)
        BY <2>3, <2>4, <2>5, <2>6, <3>2
      <4>2. w[i] = b[i - (n - 1)]
        BY <2>3, <2>4, <2>5, <2>6, <3>2
      <4>3. w[i] = q[n + (i - (n - 1))]
        BY <2>5, <4>1, <4>2
      <4> QED
        BY <4>1, <4>3
    <3> QED
      BY <3>1, <3>2
  <2>8. ASSUME NEW j \in 1..Len(q), q[j].seq # r PROVE \E i \in 1..Len(w) : w[i] = q[j]
    <3>1. CASE j < n
      <4>1. w[j] = q[j] /\ j \in 1..Len(w)
        BY <2>3, <2>4, <2>5, <2>6, <3>1
      <4> QED
        BY <4>1
    <3>2. CASE j > n
      <4>1. j - 1 \in 1..Len(w) /\ ~(j - 1 <= Len(a)) /\ (j - 1) - Len(a) = j - n
        BY <2>3, <2>4, <2>5, <2>6, <3>2
      <4>2. j - n \in 1..(Len(q) - n) /\ n + (j - n) = j
        BY <2>3, <3>2
      <4>3. w[j - 1] = b[j - n]
        BY <2>6, <4>1
      <4>4. w[j - 1] = q[j]
        BY <2>5, <4>2, <4>3
      <4> QED
        BY <4>1, <4>4
    <3>3. j # n
      BY <2>3, <2>8
    <3> QED
      BY <2>3, <3>1, <3>2, <3>3
  <2> QED
    BY <2>6, <2>7, <2>8 DEF w
<1> QED
  BY <1>1, <1>2
-----------------------------------------------------------------------------
(* The inductive invariant. *)

Amounts(q) == [i \in 1..Len(q) |-> q[i].amount]
After(q, t) == {i \in 1..Len(q) : q[i].t > t - Window}
Charged == [r \in Calls |-> adm[r].charged]
Held == [r \in Calls |-> adm[r].reserved]
Spent(t) == {r \in Calls : adm[r].stage = "settled" /\ adm[r].at > t - Window}
SpentOn(d) == {r \in Calls : adm[r].stage = "settled" /\ DayOf(adm[r].at) = d}

\* Only a request that has reserved, and has not settled, holds tokens.
HoldsWhileReserved == \A r \in Calls : adm[r].stage # "reserved" => adm[r].reserved = 0

\* The log of admissions holds each request that counts, or may come to count,
\* for as long as its admission is in the window.
LogKept ==
    /\ \A i \in 1..Len(log) : /\ adm[log[i].seq].stage # "new"
                              /\ adm[log[i].seq].since = log[i].t
    /\ \A r \in Calls : Counting(r) /\ adm[r].since > now - Window =>
                           \E i \in 1..Len(log) : log[i].seq = r
    /\ \A r \in Calls : adm[r].stage # "new" => adm[r].since <= now

\* The log of charges, as it is read now or at any later time, adds up to what
\* the requests settled within the window were charged.
MinuteExact ==
    \A t \in Nat : t >= now => SumOn(Amounts(charges), After(charges, t)) = SumOn(Charged, Spent(t))

\* today is what was charged on the day of the last prune, after which no
\* request has settled.
DayExact ==
    /\ day <= DayOf(now)
    /\ \A r \in Calls : adm[r].stage = "settled" => DayOf(adm[r].at) <= day
    /\ today = SumOn(Charged, SpentOn(day))

\* What is lent out is what the requests under way hold.  This part needs no
\* memory of settled requests, so that it holds of a host that starts again too.
Lending == LimiterTypeOK /\ InFlightExact /\ ReservedExact /\ HoldsWhileReserved

Exactness == Lending /\ RPMCeiling /\ LogKept /\ MinuteExact /\ DayExact

-----------------------------------------------------------------------------
(* The clock's day. *)

\* Days are natural numbers and do not go back.
LEMMA DayFacts ==
    ASSUME NEW t \in Nat
    PROVE  DayOf(t) \in Nat /\ DayOf(t) <= DayOf(t + 1)
<1>1. Day \in Nat /\ Day > 0
  BY LimiterAssumption
<1>2. t \div Day \in Nat /\ t \div Day <= (t + 1) \div Day
  BY <1>1
<1> QED
  BY <1>2 DEF DayOf

-----------------------------------------------------------------------------
(* The sums of the properties, in the terms of SumProofs. *)

\* Finite sums of natural numbers, all of them.
LEMMA SumsAreFinite ==
    ASSUME LimiterTypeOK
    PROVE  /\ \A S \in SUBSET Calls : IsFiniteSet(S) /\ NatOn(Charged, S) /\ NatOn(Held, S)
           /\ \A q \in Seq(Charge) : \A S \in SUBSET (1..Len(q)) :
                 IsFiniteSet(S) /\ NatOn(Amounts(q), S)
<1>1. ASSUME NEW S \in SUBSET Calls
      PROVE  IsFiniteSet(S) /\ NatOn(Charged, S) /\ NatOn(Held, S)
  <2>1. IsFiniteSet(S)
    BY LimiterAssumption, FS_Subset
  <2>2. NatOn(Charged, S) /\ NatOn(Held, S)
    BY DEF LimiterTypeOK, NatOn, Charged, Held
  <2> QED
    BY <2>1, <2>2
<1>2. ASSUME NEW q \in Seq(Charge), NEW S \in SUBSET (1..Len(q))
      PROVE  IsFiniteSet(S) /\ NatOn(Amounts(q), S)
  <2>1. IsFiniteSet(1..Len(q))
    BY FS_Interval, 1 \in Int, Len(q) \in Int
  <2>2. IsFiniteSet(S)
    BY <2>1, FS_Subset
  <2>3. NatOn(Amounts(q), S)
    <3> SUFFICES ASSUME NEW i \in S PROVE Amounts(q)[i] \in Nat
      BY DEF NatOn
    <3>1. i \in 1..Len(q) /\ q[i] \in Charge
      OBVIOUS
    <3> QED
      BY <3>1 DEF Amounts, Charge
  <2> QED
    BY <2>2, <2>3
<1> QED
  BY <1>1, <1>2

\* The counter of reservations is compared with the sum of what is held.
LEMMA ReservedIsSum == ReservedExact <=> reserved = SumOn(Held, LiveRequests)
BY DEF ReservedExact, SumOver, SumOn, Held

\* The sums the ceilings speak of.
LEMMA SumsOfProperties ==
    /\ ReservedNow = SumOn(Held, LiveRequests)
    /\ ChargedWith(LAMBDA t : t > now - Window) = SumOn(Charged, Spent(now))
    /\ ChargedWith(LAMBDA t : DayOf(t) = DayOf(now)) = SumOn(Charged, SpentOn(DayOf(now)))
BY DEF ReservedNow, ChargedWith, SumOver, SumOn, Held, Charged, Spent, SpentOn

\* used adds up the amounts of the log.
LEMMA TokensIsSum ==
    ASSUME NEW q
    PROVE  Tokens(q) = SumOn(Amounts(q), 1..Len(q))
<1>1. DOMAIN Amounts(q) = 1..Len(q)
  BY DEF Amounts
<1>2. Tokens(q) = SumOn(Amounts(q), DOMAIN Amounts(q))
  BY DEF Tokens, FoldFunction, SumOn, Amounts
<1> QED
  BY <1>1, <1>2

-----------------------------------------------------------------------------
(* What prune leaves of the two logs. *)

\* The charges that are in the window now or later survive prune, and the sum
\* reserve compares with the minute counts all of them.
LEMMA PrunedChargesFacts ==
    ASSUME LimiterTypeOK
    PROVE  /\ PrunedCharges \in Seq(Charge)
           /\ \A t \in Nat : t >= now =>
                 SumOn(Amounts(PrunedCharges), After(PrunedCharges, t))
                    = SumOn(Amounts(charges), After(charges, t))
           /\ Tokens(PrunedCharges) \in Nat
           /\ SumOn(Amounts(charges), After(charges, now)) <= Tokens(PrunedCharges)
<1> DEFINE k == LeadingExpired(charges, now)
           p == PrunedCharges
<1>0. charges \in Seq(Charge) /\ now \in Nat /\ Window \in Nat /\ Len(charges) \in Nat
  BY LimiterAssumption DEF LimiterTypeOK, Charge
<1>1. \A i \in 1..Len(charges) : charges[i] \in Charge /\ charges[i].t \in Nat
  <2>1. \A i \in 1..Len(charges) : charges[i] \in Charge
    BY <1>0
  <2>2. \A e \in Charge : e.t \in Nat
    BY DEF Charge
  <2> QED
    BY <2>1, <2>2
<1>2. /\ k \in 0..Len(charges)
      /\ \A i \in 1..k : charges[i].t <= now - Window
  BY <1>0, <1>1, LeadingExpiredFacts
<1>3. /\ p \in Seq(Charge)
      /\ Len(p) = Len(charges) - k
      /\ \A i \in 1..(Len(charges) - k) : p[i] = charges[k + i]
  BY <1>0, <1>1, UnexpiredFacts DEF PrunedCharges
<1> HIDE DEF k, p
<1>4. ASSUME NEW t \in Nat, t >= now
      PROVE  SumOn(Amounts(p), After(p, t)) = SumOn(Amounts(charges), After(charges, t))
  <2> DEFINE S == After(p, t)
             T == After(charges, t)
             b == [i \in S |-> k + i]
  <2>1. \A i \in S : i \in 1..Len(p) /\ k + i \in T /\ p[i] = charges[k + i]
    BY <1>0, <1>2, <1>3 DEF After
  <2>2. ASSUME NEW j \in T PROVE j - k \in S /\ k + (j - k) = j
    <3>1. j \in 1..Len(charges) /\ charges[j].t > t - Window
      BY DEF After
    <3>2. ~(j \in 1..k)
      BY <1>0, <1>1, <1>2, <1>4, <3>1
    <3>3. j - k \in 1..Len(p) /\ k + (j - k) = j /\ j - k \in 1..(Len(charges) - k)
      BY <1>0, <1>2, <1>3, <3>1, <3>2
    <3>4. p[j - k] = charges[j]
      BY <1>3, <3>3
    <3> QED
      BY <3>1, <3>3, <3>4 DEF After
  <2>3. b \in Bijection(S, T)
    <3>1. b \in [S -> T]
      BY <2>1
    <3>2. \A x, y \in S : b[x] = b[y] => x = y
      BY <1>2, <2>1, <1>3, <1>0
    <3>3. \A j \in T : \E i \in S : b[i] = j
      BY <2>2
    <3> HIDE DEF b
    <3> QED
      BY <3>1, <3>2, <3>3 DEF Bijection, Injection, Surjection, IsInjective
  <2>4. IsFiniteSet(S) /\ NatOn(Amounts(p), S)
    BY <1>3, SumsAreFinite DEF After
  <2>5. ASSUME NEW x \in S PROVE Amounts(charges)[b[x]] = Amounts(p)[x]
    <3>1. b[x] = k + x /\ x \in 1..Len(p) /\ k + x \in 1..Len(charges) /\ p[x] = charges[k + x]
      BY <2>1 DEF After
    <3> QED
      BY <3>1 DEF Amounts
  <2> HIDE DEF b, S, T
  <2>6. SumOn(Amounts(charges), T) = SumOn(Amounts(p), S)
    BY <2>3, <2>4, <2>5, SumBijection
  <2> QED
    BY <2>6 DEF S, T
<1>5. IsFiniteSet(1..Len(p)) /\ NatOn(Amounts(p), 1..Len(p)) /\ After(p, now) \in SUBSET (1..Len(p))
  BY <1>3, SumsAreFinite DEF After
<1>6. Tokens(p) = SumOn(Amounts(p), 1..Len(p))
  BY TokensIsSum
<1>7. Tokens(p) \in Nat
  BY <1>5, <1>6, SumType
<1>8. SumOn(Amounts(p), After(p, now)) <= Tokens(p)
  BY <1>5, <1>6, SumSubset
<1>9. SumOn(Amounts(charges), After(charges, now)) <= Tokens(p)
  BY <1>0, <1>4, <1>8
<1> QED
  BY <1>3, <1>4, <1>7, <1>9 DEF p

\* An admission in the window survives prune, and prune adds none.
LEMMA PrunedLogFacts ==
    ASSUME LimiterTypeOK
    PROVE  /\ PrunedLog \in Seq(LogEntry)
           /\ \A i \in 1..Len(PrunedLog) : \E j \in 1..Len(log) : PrunedLog[i] = log[j]
           /\ \A j \in 1..Len(log) : log[j].t > now - Window =>
                 \E i \in 1..Len(PrunedLog) : PrunedLog[i] = log[j]
<1> DEFINE k == LeadingExpired(log, now)
           p == PrunedLog
<1>0. log \in Seq(LogEntry) /\ now \in Nat /\ Window \in Nat /\ Len(log) \in Nat
  BY LimiterAssumption DEF LimiterTypeOK, LogEntry
<1>1. \A i \in 1..Len(log) : log[i] \in LogEntry /\ log[i].t \in Nat
  <2>1. \A i \in 1..Len(log) : log[i] \in LogEntry
    BY <1>0
  <2>2. \A e \in LogEntry : e.t \in Nat
    BY DEF LogEntry
  <2> QED
    BY <2>1, <2>2
<1>2. /\ k \in 0..Len(log)
      /\ \A i \in 1..k : log[i].t <= now - Window
  BY <1>0, <1>1, LeadingExpiredFacts
<1>3. /\ p \in Seq(LogEntry)
      /\ Len(p) = Len(log) - k
      /\ \A i \in 1..(Len(log) - k) : p[i] = log[k + i]
  BY <1>0, <1>1, UnexpiredFacts DEF PrunedLog
<1> HIDE DEF k, p
<1>4. ASSUME NEW i \in 1..Len(p) PROVE \E j \in 1..Len(log) : p[i] = log[j]
  BY <1>0, <1>2, <1>3, k + i \in 1..Len(log)
<1>5. ASSUME NEW j \in 1..Len(log), log[j].t > now - Window
      PROVE  \E i \in 1..Len(p) : p[i] = log[j]
  <2>1. ~(j \in 1..k)
    BY <1>0, <1>1, <1>2, <1>5
  <2>2. j - k \in 1..Len(p) /\ k + (j - k) = j /\ j - k \in 1..(Len(log) - k)
    BY <1>0, <1>2, <1>3, <2>1
  <2>3. p[j - k] = log[j]
    BY <1>3, <2>2
  <2> QED
    BY <2>2, <2>3
<1> QED
  BY <1>3, <1>4, <1>5 DEF p

\* The day as prune leaves it is what was charged on the day it now is.
LEMMA PrunedTodayFacts ==
    ASSUME LimiterTypeOK, DayExact
    PROVE  /\ PrunedToday = SumOn(Charged, SpentOn(DayOf(now)))
           /\ PrunedToday \in Nat
           /\ DayOf(now) \in Nat
           /\ \A r \in Calls : adm[r].stage = "settled" => DayOf(adm[r].at) <= DayOf(now)
<1>1. now \in Nat /\ day \in Nat /\ DayOf(now) \in Nat
  BY DayFacts DEF LimiterTypeOK
<1>2. \A r \in Calls : adm[r].stage = "settled" => adm[r].at \in Nat /\ DayOf(adm[r].at) \in Nat
  BY DayFacts DEF LimiterTypeOK
<1>3. PrunedToday = SumOn(Charged, SpentOn(DayOf(now)))
  <2>1. CASE DayOf(now) = day
    BY <2>1 DEF PrunedToday, DayExact
  <2>2. CASE DayOf(now) # day
    <3>1. SpentOn(DayOf(now)) = {}
      BY <1>1, <1>2, <2>2 DEF SpentOn, DayExact
    <3> QED
      BY <2>2, <3>1, SumEmpty DEF PrunedToday
  <2> QED
    BY <2>1, <2>2
<1>4. SpentOn(DayOf(now)) \in SUBSET Calls
  BY DEF SpentOn
<1>5. PrunedToday \in Nat
  BY <1>3, <1>4, SumsAreFinite, SumType
<1> QED
  BY <1>1, <1>2, <1>3, <1>5 DEF DayExact

\* A charge at the end of the log adds its amount while it is in the window.
LEMMA AppendedCharge ==
    ASSUME LimiterTypeOK, NEW q \in Seq(Charge), NEW e \in Charge, NEW t \in Nat
    PROVE  SumOn(Amounts(Append(q, e)), After(Append(q, e), t))
             = SumOn(Amounts(q), After(q, t)) + (IF e.t > t - Window THEN e.amount ELSE 0)
<1> DEFINE a == Append(q, e)
           n == Len(q) + 1
           C == 1..n
           S == After(q, t)
           T == After(a, t)
<1>0. Len(q) \in Nat /\ n \in Nat /\ n \notin 1..Len(q) /\ C = (1..Len(q)) \cup {n}
  OBVIOUS
<1>1. /\ a \in Seq(Charge) /\ Len(a) = n /\ a[n] = e
      /\ \A i \in 1..Len(q) : a[i] = q[i]
  BY AppendProperties
<1> HIDE DEF a, n
<1>2. S \in SUBSET (1..Len(q)) /\ T \in SUBSET C /\ n \in C
  BY <1>0, <1>1 DEF After
<1>3. n \in T <=> e.t > t - Window
  BY <1>1, <1>2 DEF After
<1>4. S = T \ {n}
  BY <1>0, <1>1 DEF After
<1>5. IsFiniteSet(T) /\ NatOn(Amounts(a), T) /\ IsFiniteSet(S) /\ NatOn(Amounts(q), S)
  BY <1>1, <1>2, SumsAreFinite
<1>6. \A i \in S : Amounts(q)[i] = Amounts(a)[i]
  BY <1>0, <1>1, <1>2 DEF Amounts
<1>7. SumOn(Amounts(q), S) = SumOn(Amounts(a), S)
  BY <1>5, <1>6, SumSame
<1>8. Amounts(a)[n] = e.amount
  BY <1>0, <1>1, <1>2 DEF Amounts
<1>9. SumOn(Amounts(q), S) \in Nat
  BY <1>5, SumType
<1> HIDE DEF S, T
<1>10. CASE n \in T
  <2>1. SumOn(Amounts(a), T) = SumOn(Amounts(a), T \ {n}) + Amounts(a)[n]
    BY <1>5, <1>10, SumRemove
  <2> QED
    BY <1>3, <1>4, <1>7, <1>8, <1>10, <2>1 DEF S, T, a
<1>11. CASE n \notin T
  <2>1. T = S
    BY <1>4, <1>11
  <2> QED
    BY <1>3, <1>7, <1>9, <1>11, <2>1 DEF S, T, a
<1> QED
  BY <1>10, <1>11

-----------------------------------------------------------------------------
(* What the steps keep, part by part. *)

\* A step that settles nothing and prunes keeps the minute and the day.
LEMMA PruneKeepsCharges ==
    ASSUME Exactness, now' = now, charges' = PrunedCharges, today' = PrunedToday, PruneDay,
           \A r \in Calls : /\ adm'[r].stage = "settled" <=> adm[r].stage = "settled"
                            /\ adm'[r].at = adm[r].at
                            /\ adm'[r].charged = adm[r].charged
    PROVE  MinuteExact' /\ DayExact'
<1>0. LimiterTypeOK /\ MinuteExact /\ DayExact
  BY DEF Exactness, Lending
<1>1. Charged' = Charged
  BY DEF Charged
<1>2. MinuteExact'
  <2> SUFFICES ASSUME NEW t \in Nat, t >= now
               PROVE  SumOn(Amounts(charges'), After(charges', t)) = SumOn(Charged', Spent(t)')
    BY DEF MinuteExact
  <2>1. Spent(t)' = Spent(t)
    BY DEF Spent
  <2>2. SumOn(Amounts(PrunedCharges), After(PrunedCharges, t))
          = SumOn(Amounts(charges), After(charges, t))
    BY <1>0, PrunedChargesFacts
  <2>3. SumOn(Amounts(charges), After(charges, t)) = SumOn(Charged, Spent(t))
    BY <1>0 DEF MinuteExact
  <2> QED
    BY <1>1, <2>1, <2>2, <2>3
<1>3. DayExact'
  <2>1. day' = DayOf(now) /\ DayOf(now) \in Nat
    BY <1>0, PrunedTodayFacts DEF PruneDay
  <2>2. SpentOn(day)' = SpentOn(DayOf(now))
    BY <2>1 DEF SpentOn
  <2>3. /\ PrunedToday = SumOn(Charged, SpentOn(DayOf(now)))
        /\ \A r \in Calls : adm[r].stage = "settled" => DayOf(adm[r].at) <= DayOf(now)
    BY <1>0, PrunedTodayFacts
  <2> QED
    BY <1>1, <2>1, <2>2, <2>3 DEF DayExact
<1> QED
  BY <1>2, <1>3

\* A step that admits nothing and prunes keeps the log of admissions.
LEMMA PruneKeepsLog ==
    ASSUME Exactness, now' = now, log' = PrunedLog,
           \A r \in Calls : /\ adm'[r].stage = "new" <=> adm[r].stage = "new"
                            /\ adm'[r].since = adm[r].since
                            /\ Counting(r)' => Counting(r)
    PROVE  RPMCeiling' /\ LogKept'
<1>0. LimiterTypeOK /\ LogKept /\ RPMCeiling
  BY DEF Exactness, Lending
<1>1. /\ PrunedLog \in Seq(LogEntry)
      /\ \A i \in 1..Len(PrunedLog) : \E j \in 1..Len(log) : PrunedLog[i] = log[j]
      /\ \A j \in 1..Len(log) : log[j].t > now - Window =>
            \E i \in 1..Len(PrunedLog) : PrunedLog[i] = log[j]
  BY <1>0, PrunedLogFacts
<1>2. RPMCeiling'
  <2> SUFFICES ASSUME RPM > 0, NEW end \in 0..now
               PROVE  Cardinality({r \in Calls : Counting(r)' /\ adm'[r].since \in (end - Window + 1)..end})
                        <= RPM
    BY DEF RPMCeiling
  <2> DEFINE A == {r \in Calls : Counting(r) /\ adm[r].since \in (end - Window + 1)..end}
             B == {r \in Calls : Counting(r)' /\ adm'[r].since \in (end - Window + 1)..end}
  <2>1. Cardinality(A) <= RPM
    BY <1>0 DEF RPMCeiling
  <2>2. IsFiniteSet(A)
    <3>1. A \in SUBSET Calls
      OBVIOUS
    <3> QED
      BY <3>1, LimiterAssumption, FS_Subset
  <2>3. B \in SUBSET A
    OBVIOUS
  <2> HIDE DEF A, B
  <2>4. Cardinality(B) <= Cardinality(A) /\ Cardinality(A) \in Nat /\ Cardinality(B) \in Nat /\ RPM \in Nat
    BY <2>2, <2>3, FS_Subset, FS_CardinalityType, LimiterAssumption
  <2>5. Cardinality(B) <= RPM
    BY <2>1, <2>4
  <2> QED
    BY <2>5 DEF B
<1>3. \A j \in 1..Len(log) : log[j] \in LogEntry
  <2>1. log \in Seq(LogEntry)
    BY <1>0 DEF LimiterTypeOK, LogEntry
  <2> QED
    BY <2>1
<1>4. \A j \in 1..Len(log) : log[j].seq \in Calls
  BY <1>3 DEF LogEntry
<1>5. LogKept'
  <2>1. ASSUME NEW i \in 1..Len(PrunedLog)
        PROVE  /\ adm'[PrunedLog[i].seq].stage # "new"
               /\ adm'[PrunedLog[i].seq].since = PrunedLog[i].t
    <3>1. PICK j \in 1..Len(log) : PrunedLog[i] = log[j]
      BY <1>1
    <3> QED
      BY <1>0, <1>4, <3>1 DEF LogKept
  <2>2. ASSUME NEW r \in Calls, Counting(r)', adm'[r].since > now - Window
        PROVE  \E i \in 1..Len(PrunedLog) : PrunedLog[i].seq = r
    <3>1. PICK j \in 1..Len(log) : log[j].seq = r
      BY <1>0, <2>2 DEF LogKept
    <3>2. log[j].t > now - Window
      BY <1>0, <2>2, <3>1 DEF LogKept
    <3> QED
      BY <1>1, <3>1, <3>2
  <2>3. \A r \in Calls : adm'[r].stage # "new" => adm'[r].since <= now
    BY <1>0 DEF LogKept
  <2> QED
    BY <2>1, <2>2, <2>3 DEF LogKept
<1> QED
  BY <1>2, <1>5

\* A step that leaves who is under way and what they hold alone keeps both
\* counters.
LEMMA SameHolders ==
    ASSUME Lending, UNCHANGED <<keyInFlight, reserved>>,
           LimiterTypeOK',
           \A r \in Calls : /\ r \in LiveRequests' <=> r \in LiveRequests
                            /\ adm'[r].reserved = adm[r].reserved
    PROVE  InFlightExact' /\ ReservedExact'
<1>1. LiveRequests' = LiveRequests
  BY DEF LiveRequests
<1>2. Held' = Held
  BY DEF Held
<1>3. ReservedExact'
  <2>1. reserved = SumOn(Held, LiveRequests)
    BY ReservedIsSum DEF Exactness, Lending
  <2>2. (reserved = SumOn(Held, LiveRequests))'
    BY <1>1, <1>2, <2>1
  <2>3. (ReservedExact <=> reserved = SumOn(Held, LiveRequests))'
    BY ReservedIsSum, PTL
  <2> QED
    BY <2>2, <2>3
<1> QED
  BY <1>1, <1>3 DEF Exactness, Lending, InFlightExact

-----------------------------------------------------------------------------
(* The invariant holds at first, and every step keeps it. *)

\* The invariant holds at first.
LEMMA ExactnessInit == LimiterInit => Exactness
<1> SUFFICES ASSUME LimiterInit PROVE Exactness
  OBVIOUS
<1>0. /\ \A r \in Calls : adm[r] = NoAdmission
      /\ now = 0 /\ day = 0 /\ today = 0 /\ reserved = 0 /\ keyInFlight = 0
      /\ log = <<>> /\ charges = <<>>
  BY DEF LimiterInit
<1>1. NoAdmission \in Admission /\ NoAdmission.stage = "new" /\ NoAdmission.reserved = 0
  BY DEF NoAdmission, Admission, Stages
<1>2. LimiterTypeOK
  BY <1>1, LimiterAssumption DEF LimiterInit, LimiterTypeOK, Admission
<1>3. LiveRequests = {} /\ \A r \in Calls : ~Counting(r)
  BY <1>0, <1>1 DEF LiveRequests, Counting
<1>4. InFlightExact /\ ReservedExact /\ HoldsWhileReserved
  <2>1. InFlightExact
    BY <1>0, <1>3, FS_EmptySet, LimiterAssumption DEF InFlightExact
  <2>2. ReservedExact
    BY <1>0, <1>3, SumEmpty, ReservedIsSum
  <2> QED
    BY <1>0, <1>1, <2>1, <2>2 DEF HoldsWhileReserved
<1>5. RPMCeiling
  <2> SUFFICES ASSUME NEW end \in 0..now
               PROVE  Cardinality({r \in Calls : /\ Counting(r)
                                                 /\ adm[r].since \in (end - Window + 1)..end}) <= RPM
    BY DEF RPMCeiling
  <2>1. {r \in Calls : Counting(r) /\ adm[r].since \in (end - Window + 1)..end} = {}
    BY <1>3
  <2> QED
    BY <2>1, FS_EmptySet, LimiterAssumption
<1>6. LogKept
  BY <1>0, <1>1, <1>3 DEF LogKept
<1>7. MinuteExact
  <2> SUFFICES ASSUME NEW t \in Nat
               PROVE  SumOn(Amounts(charges), After(charges, t)) = SumOn(Charged, Spent(t))
    BY DEF MinuteExact
  <2>1. After(charges, t) = {} /\ Spent(t) = {}
    BY <1>0, <1>1 DEF After, Spent
  <2> QED
    BY <2>1, SumEmpty
<1>8. DayExact
  <2>1. SpentOn(day) = {}
    BY <1>0, <1>1 DEF SpentOn
  <2>2. 0 <= DayOf(0) /\ DayOf(0) \in Nat
    BY DayFacts
  <2> QED
    BY <1>0, <1>1, <2>1, <2>2, SumEmpty DEF DayExact
<1> QED
  BY <1>2, <1>4, <1>5, <1>6, <1>7, <1>8 DEF Exactness, Lending

\* What every step that prunes has in common.
LEMMA PrunedTypes ==
    ASSUME Lending
    PROVE  /\ PrunedLog \in Seq(LogEntry) /\ PrunedCharges \in Seq(Charge)
           /\ PrunedToday \in Nat /\ DayOf(now) \in Nat /\ now \in Nat
           /\ adm \in [Calls -> Admission]
<1>1. LimiterTypeOK /\ now \in Nat /\ today \in Nat
  BY LimiterAssumption DEF Lending, LimiterTypeOK
<1> QED
  BY <1>1, PrunedLogFacts, PrunedChargesFacts, DayFacts DEF LimiterTypeOK, Admission, PrunedToday

\* admit that refuses, and a reading of the counters: prune alone.
LEMMA QuietLends ==
    ASSUME Lending, Prune, UNCHANGED <<now, keyInFlight, reserved, adm>>
    PROVE  Lending'
<1>1. LimiterTypeOK'
  BY PrunedTypes DEF Lending, LimiterTypeOK, Prune, PruneDay, LogEntry, Charge
<1>2. InFlightExact' /\ ReservedExact'
  BY <1>1, SameHolders DEF LiveRequests
<1> QED
  BY <1>1, <1>2 DEF Lending, HoldsWhileReserved

\* A step that only prunes drops nothing that still counts.
LEMMA QuietKeeps ==
    ASSUME Exactness, Prune, UNCHANGED <<now, keyInFlight, reserved, adm>>
    PROVE  Exactness'
<1>1. Lending'
  BY QuietLends DEF Exactness
<1>2. MinuteExact' /\ DayExact'
  BY PruneKeepsCharges DEF Prune
<1>3. RPMCeiling' /\ LogKept'
  BY PruneKeepsLog DEF Prune, Counting
<1> QED
  BY <1>1, <1>2, <1>3 DEF Exactness

\* A reservation that does not fit.
LEMMA ReserveRefusedLends ==
    ASSUME Lending, NEW r \in Calls, ReserveRefused(r)
    PROVE  /\ Lending'
           /\ adm[r].stage = "admitted" /\ adm'[r].stage = "refused"
           /\ adm'[r].since = adm[r].since /\ adm'[r].at = adm[r].at /\ adm'[r].charged = adm[r].charged
           /\ \A x \in Calls : x # r => adm'[x] = adm[x]
<1>0. adm \in [Calls -> Admission] /\ HoldsWhileReserved /\ adm[r].stage = "admitted"
  BY PrunedTypes DEF Lending, ReserveRefused
<1>1. Prune /\ UNCHANGED <<now, keyInFlight, reserved>>
      /\ adm' = [adm EXCEPT ![r].stage = "refused"]
  BY DEF ReserveRefused
<1>2. adm' \in [Calls -> Admission]
  BY <1>0, <1>1 DEF Admission, Stages
<1>3. /\ adm'[r] = [adm[r] EXCEPT !.stage = "refused"]
      /\ \A x \in Calls : x # r => adm'[x] = adm[x]
  BY <1>0, <1>1
<1>4. /\ adm'[r].stage = "refused" /\ adm'[r].since = adm[r].since /\ adm'[r].at = adm[r].at
      /\ adm'[r].charged = adm[r].charged /\ adm'[r].reserved = adm[r].reserved
  BY <1>0, <1>3 DEF Admission
<1>5. LimiterTypeOK'
  BY <1>1, <1>2, PrunedTypes
     DEF Lending, LimiterTypeOK, Prune, PruneDay, LogEntry, Charge, Admission
<1>6. InFlightExact' /\ ReservedExact'
  <2>1. \A x \in Calls : /\ x \in LiveRequests' <=> x \in LiveRequests
                         /\ adm'[x].reserved = adm[x].reserved
    BY <1>0, <1>3, <1>4 DEF LiveRequests
  <2> QED
    BY <1>1, <1>5, <2>1, SameHolders
<1>7. HoldsWhileReserved'
  BY <1>0, <1>3, <1>4 DEF HoldsWhileReserved
<1> QED
  BY <1>0, <1>3, <1>4, <1>5, <1>6, <1>7 DEF Lending

\* A refusal of the budgets reserves nothing.
LEMMA ReserveRefusedKeeps ==
    ASSUME Exactness, NEW r \in Calls, ReserveRefused(r)
    PROVE  Exactness'
<1>1. /\ Lending' /\ Prune /\ now' = now
      /\ adm[r].stage = "admitted" /\ adm'[r].stage = "refused"
      /\ adm'[r].since = adm[r].since /\ adm'[r].at = adm[r].at /\ adm'[r].charged = adm[r].charged
      /\ \A x \in Calls : x # r => adm'[x] = adm[x]
  BY ReserveRefusedLends DEF Exactness, ReserveRefused
<1>2. MinuteExact' /\ DayExact'
  BY <1>1, PruneKeepsCharges DEF Prune
<1>3. RPMCeiling' /\ LogKept'
  BY <1>1, PruneKeepsLog DEF Prune, Counting
<1> QED
  BY <1>1, <1>2, <1>3 DEF Exactness

\* What the one request r that moves adds to, or takes from, the reservations.
LEMMA HeldChange ==
    ASSUME Lending, NEW r \in Calls, adm' \in [Calls -> Admission],
           \A x \in Calls : x # r => adm'[x] = adm[x]
    PROVE  /\ LiveRequests' \ {r} = LiveRequests \ {r}
           /\ SumOn(Held, LiveRequests)' + (IF r \in LiveRequests THEN adm[r].reserved ELSE 0)
                = reserved + (IF r \in LiveRequests' THEN adm'[r].reserved ELSE 0)
<1>0. LimiterTypeOK /\ reserved = SumOn(Held, LiveRequests)
  BY ReservedIsSum DEF Exactness, Lending
<1>1. LiveRequests' \ {r} = LiveRequests \ {r}
  BY DEF LiveRequests
<1>2. LiveRequests \in SUBSET Calls /\ LiveRequests' \in SUBSET Calls /\ IsFiniteSet(Calls)
  BY LimiterAssumption DEF LiveRequests
<1>3. NatOn(Held, Calls)
  BY <1>0, SumsAreFinite
<1>4. NatOn(Held', Calls)
  BY DEF NatOn, Held, Admission
<1>5. \A x \in Calls : x # r => Held[x] = Held'[x]
  BY DEF Held
<1>6. Held[r] = adm[r].reserved /\ Held'[r] = adm'[r].reserved
  BY DEF Held
<1>7. SumOn(Held', LiveRequests') + (IF r \in LiveRequests THEN Held[r] ELSE 0)
        = SumOn(Held, LiveRequests) + (IF r \in LiveRequests' THEN Held'[r] ELSE 0)
  BY <1>1, <1>2, <1>3, <1>4, <1>5, SumChange
<1> QED
  BY <1>0, <1>1, <1>6, <1>7

\* The worst case a request reserves is a natural number.
LEMMA WorstIsNat ==
    ASSUME Lending, NEW p \in Prompts, NEW out \in Outs
    PROVE  /\ Tokens(PrunedCharges) \in Nat /\ Live \in Nat /\ DayUsed \in Nat
           /\ MinuteOut(p, out) \in Int /\ DayOut(p, out) \in Int
           /\ p \in Nat /\ out \in Int
           /\ p + MaxOf(DayOut(p, out), 0) \in Nat
<1>1. /\ Tokens(PrunedCharges) \in Nat /\ PrunedToday \in Nat /\ reserved \in Nat
  BY PrunedChargesFacts, PrunedTypes DEF Lending, LimiterTypeOK
<1>2. /\ TPM \in Nat /\ DailyTokens \in Nat /\ MinOutput \in Nat /\ p \in Nat /\ out \in Int
  BY LimiterAssumption
<1>3. Live \in Nat /\ DayUsed \in Nat
  BY <1>1 DEF Live, DayUsed
<1>4. MinuteOut(p, out) \in Int
  BY <1>2, <1>3 DEF MinuteOut, FitBudget, DoesNotFit
<1>5. DayOut(p, out) \in Int
  BY <1>2, <1>3, <1>4 DEF DayOut, FitBudget, DoesNotFit
<1>6. p + MaxOf(DayOut(p, out), 0) \in Nat
  BY <1>2, <1>5 DEF MaxOf
<1> QED
  BY <1>1, <1>2, <1>3, <1>4, <1>5, <1>6

\* A reservation that fits.
LEMMA ReserveLends ==
    ASSUME Lending, NEW r \in Calls, Reserve(r)
    PROVE  /\ Lending'
           /\ adm[r].stage = "admitted" /\ adm'[r].stage = "reserved"
           /\ adm'[r].since = adm[r].since /\ adm'[r].at = adm[r].at /\ adm'[r].charged = adm[r].charged
           /\ \A x \in Calls : x # r => adm'[x] = adm[x]
<1>0. adm \in [Calls -> Admission] /\ HoldsWhileReserved /\ adm[r].stage = "admitted"
      /\ reserved \in Nat
  BY PrunedTypes DEF Lending, Reserve, LimiterTypeOK
<1>1. PICK p \in Prompts, out \in Outs :
        LET worst == p + MaxOf(DayOut(p, out), 0)
        IN  /\ adm' = [adm EXCEPT ![r].stage = "reserved", ![r].reserved = worst]
            /\ reserved' = reserved + worst
  BY DEF Reserve
<1> DEFINE w == p + MaxOf(DayOut(p, out), 0)
<1>2. w \in Nat
  BY WorstIsNat
<1>3. adm' = [adm EXCEPT ![r].stage = "reserved", ![r].reserved = w] /\ reserved' = reserved + w
  BY <1>1
<1> HIDE DEF w
<1>4. Prune /\ UNCHANGED <<now, keyInFlight>>
  BY DEF Reserve
<1>5. adm' \in [Calls -> Admission]
  BY <1>0, <1>2, <1>3 DEF Admission, Stages
<1>6. /\ adm'[r].stage = "reserved" /\ adm'[r].since = adm[r].since /\ adm'[r].at = adm[r].at
      /\ adm'[r].charged = adm[r].charged /\ adm'[r].reserved = w
      /\ \A x \in Calls : x # r => adm'[x] = adm[x]
  BY <1>0, <1>3 DEF Admission
<1>7. LimiterTypeOK'
  <2>1. reserved' \in Nat
    BY <1>0, <1>2, <1>3
  <2> QED
    BY <1>4, <1>5, <2>1, PrunedTypes
       DEF Lending, LimiterTypeOK, Prune, PruneDay, LogEntry, Charge, Admission
<1>10. r \in LiveRequests /\ r \in LiveRequests' /\ LiveRequests' = LiveRequests
  BY <1>0, <1>6 DEF LiveRequests
<1>11. InFlightExact'
  BY <1>4, <1>10 DEF InFlightExact, Lending
<1>12. ReservedExact'
  <2>1. adm[r].reserved = 0
    BY <1>0 DEF HoldsWhileReserved
  <2>2. SumOn(Held, LiveRequests)' + 0 = reserved + w
    BY <1>5, <1>6, <1>10, <2>1, HeldChange
  <2>3. NatOn(Held', LiveRequests') /\ IsFiniteSet(LiveRequests')
    BY <1>5, LimiterAssumption, FS_Subset, LiveRequests' \in SUBSET Calls
       DEF NatOn, Held, Admission, LiveRequests
  <2>4. SumOn(Held, LiveRequests)' \in Nat
    BY <2>3, SumType
  <2>5. (reserved = SumOn(Held, LiveRequests))'
    BY <1>0, <1>2, <1>3, <2>2, <2>4
  <2>6. (ReservedExact <=> reserved = SumOn(Held, LiveRequests))'
    BY ReservedIsSum, PTL
  <2> QED
    BY <2>5, <2>6
<1>13. HoldsWhileReserved'
  BY <1>0, <1>6 DEF HoldsWhileReserved
<1> QED
  BY <1>0, <1>6, <1>7, <1>11, <1>12, <1>13 DEF Lending

\* reserve holds what fits.
LEMMA ReserveKeeps ==
    ASSUME Exactness, NEW r \in Calls, Reserve(r)
    PROVE  Exactness'
<1>1. /\ Lending' /\ Prune /\ now' = now
      /\ adm[r].stage = "admitted" /\ adm'[r].stage = "reserved"
      /\ adm'[r].since = adm[r].since /\ adm'[r].at = adm[r].at /\ adm'[r].charged = adm[r].charged
      /\ \A x \in Calls : x # r => adm'[x] = adm[x]
  BY ReserveLends DEF Exactness, Reserve
<1>2. MinuteExact' /\ DayExact'
  BY <1>1, PruneKeepsCharges DEF Prune
<1>3. RPMCeiling' /\ LogKept'
  BY <1>1, PruneKeepsLog DEF Prune, Counting
<1> QED
  BY <1>1, <1>2, <1>3 DEF Exactness

\* An admission.
LEMMA AdmitLends ==
    ASSUME Lending, NEW r \in Calls, Admit(r)
    PROVE  Lending'
<1> DEFINE e == [t |-> now, seq |-> r]
<1>0. /\ adm \in [Calls -> Admission] /\ HoldsWhileReserved /\ adm[r].stage = "new"
      /\ PrunedLog \in Seq(LogEntry) /\ now \in Nat /\ keyInFlight \in Nat
      /\ MaxConcurrent \in Nat /\ Window \in Nat /\ LimiterTypeOK
  BY PrunedTypes, LimiterAssumption DEF Lending, Admit, LimiterTypeOK
<1>1. /\ adm' = [adm EXCEPT ![r].stage = "admitted", ![r].since = now]
      /\ log' = Append(PrunedLog, e)
      /\ charges' = PrunedCharges /\ today' = PrunedToday /\ PruneDay
      /\ UNCHANGED <<now, reserved>>
      /\ keyInFlight' = IF r \in Detached THEN keyInFlight ELSE keyInFlight + 1
  BY DEF Admit
<1>2. adm' \in [Calls -> Admission]
  BY <1>0, <1>1 DEF Admission, Stages
<1>3. /\ adm'[r].stage = "admitted" /\ adm'[r].since = now /\ adm'[r].at = adm[r].at
      /\ adm'[r].charged = adm[r].charged /\ adm'[r].reserved = adm[r].reserved
      /\ \A x \in Calls : x # r => adm'[x] = adm[x]
  BY <1>0, <1>1 DEF Admission
<1>4. /\ log' \in Seq(LogEntry) /\ Len(log') = Len(PrunedLog) + 1
      /\ log'[Len(PrunedLog) + 1] = e
      /\ \A i \in 1..Len(PrunedLog) : log'[i] = PrunedLog[i]
  <2>1. e \in LogEntry
    BY <1>0 DEF LogEntry
  <2> HIDE DEF e
  <2> QED
    BY <1>0, <1>1, <2>1, AppendProperties
<1>5. LimiterTypeOK'
  <2>1. keyInFlight' \in Nat
    BY <1>0, <1>1
  <2> QED
    BY <1>1, <1>2, <1>4, <2>1, PrunedTypes
       DEF Lending, LimiterTypeOK, PruneDay, LogEntry, Charge, Admission
<1>7. r \notin LiveRequests /\ LiveRequests' = LiveRequests \cup {r}
  BY <1>0, <1>3 DEF LiveRequests
<1>8. InFlightExact'
  <2>1. keyInFlight = Cardinality(LiveRequests \ Detached)
        /\ (MaxConcurrent > 0 => keyInFlight <= MaxConcurrent)
    BY DEF Lending, InFlightExact
  <2>2. IsFiniteSet(LiveRequests \ Detached)
    BY LimiterAssumption, FS_Subset, LiveRequests \ Detached \in SUBSET Calls DEF LiveRequests
  <2>3. CASE r \in Detached
    <3>1. LiveRequests' \ Detached = LiveRequests \ Detached
      BY <1>7, <2>3
    <3> QED
      BY <1>1, <2>1, <2>3, <3>1 DEF InFlightExact
  <2>4. CASE r \notin Detached
    <3>1. LiveRequests' \ Detached = (LiveRequests \ Detached) \cup {r}
      BY <1>7, <2>4
    <3>2. Cardinality((LiveRequests \ Detached) \cup {r}) = Cardinality(LiveRequests \ Detached) + 1
      BY <1>7, <2>2, FS_AddElement
    <3>3. MaxConcurrent > 0 => keyInFlight + 1 <= MaxConcurrent
      BY <1>0, <2>4 DEF Admit, ConcurrencyFull
    <3>4. keyInFlight' = Cardinality(LiveRequests' \ Detached)
      BY <1>1, <2>1, <2>4, <3>1, <3>2
    <3>5. keyInFlight' = keyInFlight + 1
      BY <1>1, <2>4
    <3> QED
      BY <3>3, <3>4, <3>5 DEF InFlightExact
  <2> QED
    BY <2>3, <2>4
<1>9. ReservedExact'
  <2>1. adm[r].reserved = 0 /\ adm'[r].reserved = 0
    BY <1>0, <1>3 DEF HoldsWhileReserved
  <2>2. SumOn(Held, LiveRequests)' + 0 = reserved + 0
    BY <1>2, <1>3, <1>7, <2>1, HeldChange
  <2>3. NatOn(Held', LiveRequests') /\ IsFiniteSet(LiveRequests')
    BY <1>2, LimiterAssumption, FS_Subset, LiveRequests' \in SUBSET Calls
       DEF NatOn, Held, Admission, LiveRequests
  <2>4. SumOn(Held, LiveRequests)' \in Nat /\ reserved \in Nat
    BY <1>0, <2>3, SumType DEF LimiterTypeOK
  <2>5. (reserved = SumOn(Held, LiveRequests))'
    BY <1>1, <2>2, <2>4
  <2>6. (ReservedExact <=> reserved = SumOn(Held, LiveRequests))'
    BY ReservedIsSum, PTL
  <2> QED
    BY <2>5, <2>6
<1>10. HoldsWhileReserved'
  BY <1>0, <1>3 DEF HoldsWhileReserved
<1> QED
  BY <1>5, <1>8, <1>9, <1>10 DEF Lending

\* admit counts the request and notes its time.
LEMMA AdmitKeeps ==
    ASSUME Exactness, NEW r \in Calls, Admit(r)
    PROVE  Exactness'
<1> DEFINE e == [t |-> now, seq |-> r]
<1>0. /\ adm \in [Calls -> Admission] /\ HoldsWhileReserved /\ adm[r].stage = "new"
      /\ PrunedLog \in Seq(LogEntry) /\ now \in Nat /\ keyInFlight \in Nat
      /\ MaxConcurrent \in Nat /\ Window \in Nat /\ LimiterTypeOK /\ LogKept
  BY PrunedTypes, LimiterAssumption DEF Exactness, Lending, Admit, LimiterTypeOK
<1>1. /\ adm' = [adm EXCEPT ![r].stage = "admitted", ![r].since = now]
      /\ log' = Append(PrunedLog, e)
      /\ charges' = PrunedCharges /\ today' = PrunedToday /\ PruneDay
      /\ UNCHANGED <<now, reserved>>
      /\ keyInFlight' = IF r \in Detached THEN keyInFlight ELSE keyInFlight + 1
  BY DEF Admit
<1>2. adm' \in [Calls -> Admission]
  BY <1>0, <1>1 DEF Admission, Stages
<1>3. /\ adm'[r].stage = "admitted" /\ adm'[r].since = now /\ adm'[r].at = adm[r].at
      /\ adm'[r].charged = adm[r].charged /\ adm'[r].reserved = adm[r].reserved
      /\ \A x \in Calls : x # r => adm'[x] = adm[x]
  BY <1>0, <1>1 DEF Admission
<1>4. /\ log' \in Seq(LogEntry) /\ Len(log') = Len(PrunedLog) + 1
      /\ log'[Len(PrunedLog) + 1] = e
      /\ \A i \in 1..Len(PrunedLog) : log'[i] = PrunedLog[i]
  <2>1. e \in LogEntry
    BY <1>0 DEF LogEntry
  <2> HIDE DEF e
  <2> QED
    BY <1>0, <1>1, <2>1, AppendProperties
<1>5. Lending'
  BY AdmitLends DEF Exactness
<1>6. MinuteExact' /\ DayExact'
  BY <1>0, <1>1, <1>3, PruneKeepsCharges
<1>11. /\ \A i \in 1..Len(PrunedLog) : \E j \in 1..Len(log) : PrunedLog[i] = log[j]
       /\ \A j \in 1..Len(log) : log[j].t > now - Window =>
             \E i \in 1..Len(PrunedLog) : PrunedLog[i] = log[j]
       /\ \A j \in 1..Len(log) : log[j].seq \in Calls
  <2>1. log \in Seq(LogEntry)
    BY <1>0 DEF LimiterTypeOK, LogEntry
  <2>2. \A j \in 1..Len(log) : log[j] \in LogEntry
    BY <2>1
  <2>3. \A j \in 1..Len(log) : log[j].seq \in Calls
    BY <2>2 DEF LogEntry
  <2> QED
    BY <1>0, <2>3, PrunedLogFacts
<1>12. ASSUME NEW x \in Calls, Counting(x), adm[x].since > now - Window
       PROVE  \E i \in 1..Len(PrunedLog) : PrunedLog[i].seq = x
  <2>1. PICK j \in 1..Len(log) : log[j].seq = x
    BY <1>0, <1>12 DEF LogKept
  <2>2. log[j].t > now - Window
    BY <1>0, <1>12, <2>1 DEF LogKept
  <2> QED
    BY <1>11, <2>1, <2>2
<1>13. \A x \in Calls : x # r => (Counting(x)' <=> Counting(x))
  BY <1>3 DEF Counting
<1>14. LogKept'
  <2>1. ASSUME NEW i \in 1..Len(log')
        PROVE  adm'[log'[i].seq].stage # "new" /\ adm'[log'[i].seq].since = log'[i].t
    <3>1. CASE i = Len(PrunedLog) + 1
      BY <1>3, <1>4, <3>1
    <3>2. CASE i # Len(PrunedLog) + 1
      <4>1. i \in 1..Len(PrunedLog) /\ log'[i] = PrunedLog[i]
        BY <1>0, <1>4, <3>2
      <4>2. PICK j \in 1..Len(log) : PrunedLog[i] = log[j]
        BY <1>11, <4>1
      <4>3. log[j].seq # r /\ log[j].seq \in Calls
        BY <1>0, <1>11 DEF LogKept
      <4> QED
        BY <1>0, <1>3, <4>1, <4>2, <4>3 DEF LogKept
    <3> QED
      BY <3>1, <3>2
  <2>2. ASSUME NEW x \in Calls, Counting(x)', adm'[x].since > now - Window
        PROVE  \E i \in 1..Len(log') : log'[i].seq = x
    <3>1. CASE x = r
      <4>1. Len(PrunedLog) + 1 \in 1..Len(log')
        BY <1>0, <1>4
      <4> QED
        BY <1>4, <3>1, <4>1
    <3>2. CASE x # r
      <4>1. PICK i \in 1..Len(PrunedLog) : PrunedLog[i].seq = x
        BY <1>3, <1>12, <1>13, <2>2, <3>2
      <4>2. i \in 1..Len(log') /\ log'[i].seq = x
        BY <1>0, <1>4, <4>1
      <4> QED
        BY <4>2
    <3> QED
      BY <3>1, <3>2
  <2>3. \A x \in Calls : adm'[x].stage # "new" => adm'[x].since <= now
    BY <1>0, <1>3 DEF LogKept
  <2> QED
    BY <1>1, <2>1, <2>2, <2>3 DEF LogKept
<1>15. RPMCeiling'
  <2> SUFFICES ASSUME RPM > 0, NEW end \in 0..now
               PROVE  Cardinality({x \in Calls : Counting(x)' /\ adm'[x].since \in (end - Window + 1)..end})
                        <= RPM
    BY <1>1 DEF RPMCeiling
  <2> DEFINE A == {x \in Calls : Counting(x) /\ adm[x].since \in (end - Window + 1)..end}
             B == {x \in Calls : Counting(x)' /\ adm'[x].since \in (end - Window + 1)..end}
  <2>1. Cardinality(A) <= RPM /\ RPM \in Nat
    BY LimiterAssumption DEF Exactness, Lending, RPMCeiling
  <2>2. IsFiniteSet(A) /\ Cardinality(A) \in Nat
    <3>1. A \in SUBSET Calls
      OBVIOUS
    <3> QED
      BY <3>1, LimiterAssumption, FS_Subset, FS_CardinalityType
  <2>3. CASE end < now
    <3>1. B = A
      BY <1>0, <1>3, <1>13, <2>3 DEF Counting
    <3> QED
      BY <2>1, <3>1
  <2>4. CASE end = now
    <3>1. B \subseteq A \cup {r} /\ r \notin A
      BY <1>0, <1>3, <1>13 DEF Counting
    <3>2. Cardinality(A \cup {r}) = Cardinality(A) + 1 /\ IsFiniteSet(A \cup {r})
      BY <2>2, <3>1, FS_AddElement
    <3>3. Cardinality(B) <= Cardinality(A) + 1 /\ Cardinality(B) \in Nat
      <4>1. B \in SUBSET (A \cup {r})
        BY <3>1
      <4> HIDE DEF A, B
      <4>2. Cardinality(B) <= Cardinality(A \cup {r}) /\ IsFiniteSet(B)
        BY <3>2, <4>1, FS_Subset
      <4> QED
        BY <3>2, <4>2, FS_CardinalityType
    <3>4. Cardinality(A) <= Len(PrunedLog)
      <4> DEFINE S == {i \in 1..Len(PrunedLog) : PrunedLog[i].seq \in A}
                 m == [i \in S |-> PrunedLog[i].seq]
      <4>1. \A x \in A : \E i \in S : PrunedLog[i].seq = x
        <5> SUFFICES ASSUME NEW x \in A PROVE \E i \in S : PrunedLog[i].seq = x
          OBVIOUS
        <5>1. x \in Calls /\ Counting(x) /\ adm[x].since > now - Window
          BY <1>0, <2>4 DEF Admission
        <5>2. PICK i \in 1..Len(PrunedLog) : PrunedLog[i].seq = x
          BY <1>12, <5>1
        <5> QED
          BY <5>2
      <4> HIDE DEF A
      <4>2. m \in Surjection(S, A)
        BY <4>1 DEF Surjection
      <4>3. IsFiniteSet(1..Len(PrunedLog)) /\ Cardinality(1..Len(PrunedLog)) = Len(PrunedLog)
        BY <1>0, FS_Interval, 1 \in Int, Len(PrunedLog) \in Nat
      <4>4. S \in SUBSET (1..Len(PrunedLog))
        OBVIOUS
      <4> HIDE DEF S, m
      <4>5. IsFiniteSet(S) /\ Cardinality(S) <= Len(PrunedLog) /\ Cardinality(S) \in Nat
        BY <4>3, <4>4, FS_Subset, FS_CardinalityType
      <4>6. Cardinality(A) <= Cardinality(S)
        BY <4>2, <4>5, FS_Surjection
      <4> QED
        BY <1>0, <2>2, <4>5, <4>6
    <3>5. Len(PrunedLog) < RPM /\ Len(PrunedLog) \in Nat
      BY <1>0, <2>1 DEF Admit, RateFull
    <3> HIDE DEF A, B
    <3>6. Cardinality(B) <= RPM
      BY <2>1, <2>2, <3>3, <3>4, <3>5
    <3> QED
      BY <3>6 DEF B
  <2> QED
    BY <1>0, <2>3, <2>4
<1> QED
  BY <1>5, <1>6, <1>14, <1>15 DEF Exactness

\* The most a request may be charged: nothing unless it reserved.
LEMMA RowFacts ==
    ASSUME Exactness, NEW r \in Calls, NEW row \in Rows(r)
    PROVE  /\ row[1] \in BOOLEAN /\ row[2] \in Nat
           /\ row[2] <= adm[r].reserved + Overrun
<1>1. /\ adm[r].reserved \in Nat /\ Overrun \in Nat
      /\ adm[r].stage # "reserved" => adm[r].reserved = 0
  BY LimiterAssumption DEF Exactness, Lending, LimiterTypeOK, HoldsWhileReserved
<1> DEFINE most == IF adm[r].stage = "reserved" THEN adm[r].reserved + Overrun ELSE 0
<1>2. most \in Nat /\ most <= adm[r].reserved + Overrun
  BY <1>1
<1>3. row \in {<<FALSE, 0>>} \cup ({TRUE} \X (0..most))
  BY DEF Rows
<1> HIDE DEF most
<1>4. CASE row = <<FALSE, 0>>
  <2>1. row[1] \in BOOLEAN
    BY <1>4
  <2>2. row[2] = 0
    BY <1>4
  <2>3. row[2] \in Nat /\ row[2] <= adm[r].reserved + Overrun
    BY <1>1, <2>2
  <2> QED
    BY <2>1, <2>3
<1>5. CASE row \in {TRUE} \X (0..most)
  <2>1. row[1] \in BOOLEAN
    BY <1>5
  <2>2. row[2] \in 0..most
    BY <1>5
  <2>3. row[2] \in Nat /\ row[2] <= adm[r].reserved + Overrun
    BY <1>1, <1>2, <2>2
  <2> QED
    BY <2>1, <2>3
<1> QED
  BY <1>3, <1>4, <1>5

\* What settle makes of the requests: r is charged c now, the others stay.
LEMMA SettledFacts ==
    ASSUME Lending, NEW r \in Calls, NEW counted \in BOOLEAN, NEW c \in Nat,
           SettleAs(r, counted, c)
    PROVE  /\ adm' \in [Calls -> Admission]
           /\ adm'[r].stage = "settled" /\ adm'[r].since = adm[r].since /\ adm'[r].at = now
           /\ adm'[r].charged = c /\ adm'[r].reserved = 0
           /\ \A x \in Calls : x # r => adm'[x] = adm[x]
           /\ r \notin LiveRequests' /\ LiveRequests' = LiveRequests \ {r}
           /\ r \in LiveRequests /\ adm[r].stage # "settled"
<1>0. /\ adm \in [Calls -> Admission] /\ r \in LiveRequests /\ now \in Nat /\ LimiterTypeOK
  BY PrunedTypes DEF Exactness, Lending, SettleAs, LiveRequests
<1>1. adm' = [adm EXCEPT ![r].stage = "settled", ![r].counted = counted,
                         ![r].charged = c, ![r].at = now, ![r].reserved = 0]
  BY DEF SettleAs
<1>2. adm' \in [Calls -> Admission]
  <2> DEFINE a == [stage |-> "settled", reserved |-> 0, since |-> adm[r].since,
                   counted |-> counted, charged |-> c, at |-> now]
  <2>1. adm[r] \in Admission /\ adm[r].since \in Nat
    BY <1>0 DEF Admission
  <2>2. a \in Admission
    BY <1>0, <2>1 DEF Admission, Stages
  <2>3. adm'[r] = a
    BY <1>0, <1>1, <2>1 DEF Admission
  <2> HIDE DEF a
  <2>4. DOMAIN adm' = Calls /\ adm' = [x \in Calls |-> adm'[x]]
        /\ \A x \in Calls : x # r => adm'[x] = adm[x]
    BY <1>0, <1>1
  <2>5. \A x \in Calls : adm'[x] \in Admission
    BY <1>0, <2>2, <2>3, <2>4
  <2> QED
    BY <2>4, <2>5
<1>3. /\ adm'[r].stage = "settled" /\ adm'[r].since = adm[r].since /\ adm'[r].at = now
      /\ adm'[r].charged = c /\ adm'[r].reserved = 0
      /\ \A x \in Calls : x # r => adm'[x] = adm[x]
  BY <1>0, <1>1 DEF Admission
<1>4. r \notin LiveRequests' /\ LiveRequests' = LiveRequests \ {r} /\ adm[r].stage # "settled"
  BY <1>0, <1>3 DEF LiveRequests
<1>5. adm' \in [Calls -> Admission] /\ r \in LiveRequests
  BY <1>0, <1>2
<1> QED
  BY <1>3, <1>4, <1>5

\* What settle charges.
LEMMA SettledCharge ==
    ASSUME Exactness, NEW r \in Calls, NEW counted \in BOOLEAN, NEW c \in Nat,
           SettleAs(r, counted, c)
    PROVE  /\ IsFiniteSet(Calls) /\ NatOn(Charged, Calls) /\ NatOn(Charged', Calls)
           /\ \A x \in Calls : x # r => Charged[x] = Charged'[x]
           /\ Charged'[r] = c
<1>1. LimiterTypeOK /\ adm' \in [Calls -> Admission] /\ adm'[r].charged = c
      /\ \A x \in Calls : x # r => adm'[x] = adm[x]
  BY SettledFacts DEF Exactness, Lending
<1>2. IsFiniteSet(Calls) /\ NatOn(Charged, Calls)
  BY <1>1, SumsAreFinite
<1>3. NatOn(Charged', Calls)
  BY <1>1 DEF NatOn, Charged, Admission
<1> QED
  BY <1>1, <1>2, <1>3 DEF Charged

\* settle: what is lent to the request comes back.
LEMMA SettleLends ==
    ASSUME Lending, NEW r \in Calls, NEW counted \in BOOLEAN, NEW c \in Nat,
           SettleAs(r, counted, c)
    PROVE  Lending'
<1>0. /\ adm \in [Calls -> Admission] /\ HoldsWhileReserved /\ r \in LiveRequests
      /\ PrunedLog \in Seq(LogEntry) /\ PrunedCharges \in Seq(Charge) /\ now \in Nat
      /\ keyInFlight \in Nat /\ PrunedToday \in Nat /\ DayOf(now) \in Nat
      /\ LimiterTypeOK /\ reserved \in Nat
      /\ MaxConcurrent \in Nat /\ Window \in Nat
  BY PrunedTypes, LimiterAssumption DEF Lending, SettleAs, LimiterTypeOK, LiveRequests
<1>1. /\ adm' = [adm EXCEPT ![r].stage = "settled", ![r].counted = counted,
                            ![r].charged = c, ![r].at = now, ![r].reserved = 0]
      /\ keyInFlight' = IF r \in Detached THEN keyInFlight ELSE keyInFlight - 1
      /\ reserved' = reserved - adm[r].reserved
      /\ log' = IF counted THEN PrunedLog ELSE WithoutEntry(PrunedLog, r)
      /\ charges' = IF c > 0 THEN Append(PrunedCharges, [t |-> now, amount |-> c])
                    ELSE PrunedCharges
      /\ today' = PrunedToday + c
      /\ day' = DayOf(now)
      /\ now' = now
  BY DEF SettleAs, SettledInFlight, SettledReserved, SettledLog, PruneDay
<1>2. adm' \in [Calls -> Admission]
  BY SettledFacts
<1>3. /\ adm'[r].stage = "settled" /\ adm'[r].since = adm[r].since /\ adm'[r].at = now
      /\ adm'[r].counted = counted /\ adm'[r].charged = c /\ adm'[r].reserved = 0
      /\ \A x \in Calls : x # r => adm'[x] = adm[x]
  BY <1>0, <1>1 DEF Admission
<1>4. r \notin LiveRequests' /\ LiveRequests' = LiveRequests \ {r} /\ adm[r].stage # "settled"
  BY SettledFacts
<1>5. InFlightExact' /\ keyInFlight' \in Nat
  <2>1. keyInFlight = Cardinality(LiveRequests \ Detached)
        /\ (MaxConcurrent > 0 => keyInFlight <= MaxConcurrent)
    BY DEF Lending, InFlightExact
  <2>2. IsFiniteSet(LiveRequests \ Detached)
    BY LimiterAssumption, FS_Subset, LiveRequests \ Detached \in SUBSET Calls DEF LiveRequests
  <2>3. CASE r \in Detached
    <3>1. LiveRequests' \ Detached = LiveRequests \ Detached
      BY <1>4, <2>3
    <3> QED
      BY <1>0, <1>1, <2>1, <2>3, <3>1 DEF InFlightExact
  <2>4. CASE r \notin Detached
    <3>1. LiveRequests' \ Detached = (LiveRequests \ Detached) \ {r} /\ r \in LiveRequests \ Detached
      BY <1>0, <1>4, <2>4
    <3>2. Cardinality((LiveRequests \ Detached) \ {r}) = Cardinality(LiveRequests \ Detached) - 1
          /\ IsFiniteSet((LiveRequests \ Detached) \ {r})
      BY <2>2, <3>1, FS_RemoveElement
    <3>3. Cardinality((LiveRequests \ Detached) \ {r}) \in Nat
      BY <3>2, FS_CardinalityType
    <3>4. keyInFlight' = Cardinality(LiveRequests' \ Detached) /\ keyInFlight' = keyInFlight - 1
      BY <1>1, <2>1, <2>4, <3>1, <3>2
    <3>5. keyInFlight' \in Nat
      BY <3>1, <3>3, <3>4
    <3> QED
      BY <1>0, <2>1, <3>4, <3>5 DEF InFlightExact
  <2> QED
    BY <2>3, <2>4
<1>6. ReservedExact' /\ reserved' \in Nat
  <2>1. SumOn(Held, LiveRequests)' + adm[r].reserved = reserved + 0
    BY <1>0, <1>2, <1>3, <1>4, HeldChange
  <2>2. NatOn(Held', LiveRequests') /\ IsFiniteSet(LiveRequests')
    BY <1>2, LimiterAssumption, FS_Subset, LiveRequests' \in SUBSET Calls
       DEF NatOn, Held, Admission, LiveRequests
  <2>3. SumOn(Held, LiveRequests)' \in Nat /\ adm[r].reserved \in Nat
    BY <1>0, <2>2, SumType DEF Admission
  <2>4. (reserved = SumOn(Held, LiveRequests))' /\ reserved' \in Nat
    BY <1>0, <1>1, <2>1, <2>3, SMTT(60)
  <2>5. (ReservedExact <=> reserved = SumOn(Held, LiveRequests))'
    BY ReservedIsSum, PTL
  <2> QED
    BY <2>4, <2>5
<1>7. HoldsWhileReserved'
  BY <1>0, <1>3 DEF HoldsWhileReserved
<1> DEFINE e == [t |-> now, amount |-> c]
<1>8. e \in Charge /\ e.t = now /\ e.amount = c
  BY <1>0 DEF Charge
<1>9. charges' \in Seq(Charge)
  BY <1>0, <1>1, <1>8, AppendProperties
<1>14. /\ log' \in Seq(LogEntry)
       /\ \A i \in 1..Len(log') : \E j \in 1..Len(PrunedLog) : log'[i] = PrunedLog[j]
       /\ \A j \in 1..Len(PrunedLog) : (counted \/ PrunedLog[j].seq # r) =>
             \E i \in 1..Len(log') : log'[i] = PrunedLog[j]
  BY <1>0, <1>1, WithoutEntryFacts
<1>19. LimiterTypeOK'
  <2>1. today' \in Nat
    BY <1>0, <1>1
  <2> QED
    BY <1>0, <1>1, <1>2, <1>5, <1>6, <1>9, <1>14, <2>1 DEF LimiterTypeOK, LogEntry, Charge, Admission
<1> QED
  BY <1>5, <1>6, <1>7, <1>19 DEF Lending

\* settle: what is charged moves from the reservations to the minute and the
\* day, whatever the row of the settle table.
LEMMA SettleKeeps ==
    ASSUME Exactness, NEW r \in Calls, NEW counted \in BOOLEAN, NEW c \in Nat,
           SettleAs(r, counted, c)
    PROVE  Exactness'
<1>0. /\ adm \in [Calls -> Admission] /\ HoldsWhileReserved /\ r \in LiveRequests
      /\ PrunedLog \in Seq(LogEntry) /\ PrunedCharges \in Seq(Charge) /\ now \in Nat
      /\ keyInFlight \in Nat /\ PrunedToday \in Nat /\ DayOf(now) \in Nat
      /\ LimiterTypeOK /\ LogKept /\ MinuteExact /\ DayExact /\ reserved \in Nat
      /\ MaxConcurrent \in Nat /\ Window \in Nat
  BY PrunedTypes, LimiterAssumption DEF Exactness, Lending, SettleAs, LimiterTypeOK, LiveRequests
<1>1. /\ adm' = [adm EXCEPT ![r].stage = "settled", ![r].counted = counted,
                            ![r].charged = c, ![r].at = now, ![r].reserved = 0]
      /\ keyInFlight' = IF r \in Detached THEN keyInFlight ELSE keyInFlight - 1
      /\ reserved' = reserved - adm[r].reserved
      /\ log' = IF counted THEN PrunedLog ELSE WithoutEntry(PrunedLog, r)
      /\ charges' = IF c > 0 THEN Append(PrunedCharges, [t |-> now, amount |-> c])
                    ELSE PrunedCharges
      /\ today' = PrunedToday + c
      /\ day' = DayOf(now)
      /\ now' = now
  BY DEF SettleAs, SettledInFlight, SettledReserved, SettledLog, PruneDay
<1>2. adm' \in [Calls -> Admission]
  BY SettledFacts DEF Exactness
<1>3. /\ adm'[r].stage = "settled" /\ adm'[r].since = adm[r].since /\ adm'[r].at = now
      /\ adm'[r].counted = counted /\ adm'[r].charged = c /\ adm'[r].reserved = 0
      /\ \A x \in Calls : x # r => adm'[x] = adm[x]
  BY <1>0, <1>1 DEF Admission
<1>4. r \notin LiveRequests' /\ LiveRequests' = LiveRequests \ {r} /\ adm[r].stage # "settled"
  BY SettledFacts DEF Exactness
<1>5. Lending'
  BY SettleLends DEF Exactness
<1> DEFINE e == [t |-> now, amount |-> c]
<1>8. e \in Charge /\ e.t = now /\ e.amount = c
  BY <1>0 DEF Charge
<1>10. ASSUME NEW t \in Nat, t >= now
       PROVE  SumOn(Amounts(charges'), After(charges', t))
                = SumOn(Amounts(charges), After(charges, t)) + (IF now > t - Window THEN c ELSE 0)
  <2>0. SumOn(Amounts(PrunedCharges), After(PrunedCharges, t))
          = SumOn(Amounts(charges), After(charges, t))
    BY <1>0, <1>10, PrunedChargesFacts
  <2>1. CASE c > 0
    <3>1. charges' = Append(PrunedCharges, e)
      BY <1>1, <2>1
    <3> HIDE DEF e
    <3>2. SumOn(Amounts(Append(PrunedCharges, e)), After(Append(PrunedCharges, e), t))
            = SumOn(Amounts(PrunedCharges), After(PrunedCharges, t))
                + (IF e.t > t - Window THEN e.amount ELSE 0)
      BY <1>0, <1>8, AppendedCharge
    <3> QED
      BY <1>8, <2>0, <3>1, <3>2
  <2>2. CASE c = 0
    <3>1. charges' = PrunedCharges
      BY <1>1, <2>2
    <3>2. SumOn(Amounts(PrunedCharges), After(PrunedCharges, t)) \in Nat
      BY <1>0, SumsAreFinite, SumType, After(PrunedCharges, t) \in SUBSET (1..Len(PrunedCharges))
         DEF After
    <3> QED
      BY <2>0, <2>2, <3>1, <3>2
  <2> QED
    BY <2>1, <2>2
<1>11. /\ IsFiniteSet(Calls) /\ NatOn(Charged, Calls) /\ NatOn(Charged', Calls)
       /\ \A x \in Calls : x # r => Charged[x] = Charged'[x]
       /\ Charged'[r] = c
  BY SettledCharge
<1>12. MinuteExact'
  <2> SUFFICES ASSUME NEW t \in Nat, t >= now
               PROVE  SumOn(Amounts(charges'), After(charges', t)) = SumOn(Charged', Spent(t)')
    BY <1>1 DEF MinuteExact
  <2>1. /\ Spent(t) \in SUBSET Calls /\ Spent(t)' \in SUBSET Calls
        /\ Spent(t) \ {r} = Spent(t)' \ {r}
        /\ r \notin Spent(t)
        /\ r \in Spent(t)' <=> now > t - Window
    BY <1>3, <1>4 DEF Spent
  <2>2. SumOn(Charged', Spent(t)') + (IF r \in Spent(t) THEN Charged[r] ELSE 0)
          = SumOn(Charged, Spent(t)) + (IF r \in Spent(t)' THEN Charged'[r] ELSE 0)
    BY <1>11, <2>1, SumChange
  <2>3. SumOn(Charged', Spent(t)') \in Nat
    <3>1. IsFiniteSet(Spent(t)') /\ NatOn(Charged', Spent(t)')
      BY <1>11, <2>1, FS_Subset DEF NatOn
    <3> QED
      BY <3>1, SumType
  <2>4. SumOn(Amounts(charges), After(charges, t)) = SumOn(Charged, Spent(t))
    BY <1>0 DEF MinuteExact
  <2> QED
    BY <1>10, <1>11, <2>1, <2>2, <2>3, <2>4
<1>13. DayExact'
  <2> DEFINE d == DayOf(now)
  <2>1. /\ PrunedToday = SumOn(Charged, SpentOn(d))
        /\ \A x \in Calls : adm[x].stage = "settled" => DayOf(adm[x].at) <= d
    BY <1>0, PrunedTodayFacts
  <2>2. /\ SpentOn(d) \in SUBSET Calls /\ SpentOn(day)' \in SUBSET Calls
        /\ SpentOn(d) \ {r} = SpentOn(day)' \ {r}
        /\ r \notin SpentOn(d)
        /\ r \in SpentOn(day)'
    BY <1>1, <1>3, <1>4 DEF SpentOn
  <2>3. SumOn(Charged', SpentOn(day)') + (IF r \in SpentOn(d) THEN Charged[r] ELSE 0)
          = SumOn(Charged, SpentOn(d)) + (IF r \in SpentOn(day)' THEN Charged'[r] ELSE 0)
    BY <1>11, <2>2, SumChange
  <2>4. SumOn(Charged', SpentOn(day)') \in Nat
    <3>1. IsFiniteSet(SpentOn(day)') /\ NatOn(Charged', SpentOn(day)')
      BY <1>11, <2>2, FS_Subset DEF NatOn
    <3> QED
      BY <3>1, SumType
  <2>5. today' = SumOn(Charged', SpentOn(day)')
    BY <1>1, <1>11, <2>1, <2>2, <2>3, <2>4
  <2>6. DayOf(now') = d /\ day' = d /\ d \in Nat
    BY <1>0, <1>1
  <2>7. \A x \in Calls : adm'[x].stage = "settled" => DayOf(adm'[x].at) <= d
    BY <1>0, <1>3, <2>1
  <2> QED
    BY <2>5, <2>6, <2>7 DEF DayExact
<1>14. /\ log' \in Seq(LogEntry)
       /\ \A i \in 1..Len(log') : \E j \in 1..Len(PrunedLog) : log'[i] = PrunedLog[j]
       /\ \A j \in 1..Len(PrunedLog) : (counted \/ PrunedLog[j].seq # r) =>
             \E i \in 1..Len(log') : log'[i] = PrunedLog[j]
  BY <1>0, <1>1, WithoutEntryFacts
<1>15. /\ \A i \in 1..Len(PrunedLog) : \E j \in 1..Len(log) : PrunedLog[i] = log[j]
       /\ \A j \in 1..Len(log) : log[j].t > now - Window =>
             \E i \in 1..Len(PrunedLog) : PrunedLog[i] = log[j]
       /\ \A j \in 1..Len(log) : log[j].seq \in Calls
  <2>1. log \in Seq(LogEntry)
    BY <1>0 DEF LimiterTypeOK, LogEntry
  <2>2. \A j \in 1..Len(log) : log[j] \in LogEntry
    BY <2>1
  <2>3. \A j \in 1..Len(log) : log[j].seq \in Calls
    BY <2>2 DEF LogEntry
  <2> QED
    BY <1>0, <2>3, PrunedLogFacts
<1>16. ASSUME NEW x \in Calls, Counting(x)'
       PROVE  Counting(x) /\ adm'[x].since = adm[x].since /\ (x = r => counted)
  BY <1>0, <1>3, <1>16 DEF Counting, LiveRequests
<1>17. LogKept'
  <2>1. ASSUME NEW i \in 1..Len(log')
        PROVE  adm'[log'[i].seq].stage # "new" /\ adm'[log'[i].seq].since = log'[i].t
    <3>1. PICK j \in 1..Len(log) : log'[i] = log[j]
      BY <1>14, <1>15
    <3>2. /\ log[j].seq \in Calls /\ adm[log[j].seq].stage # "new"
          /\ adm[log[j].seq].since = log[j].t
      BY <1>0, <1>15 DEF LogKept
    <3>3. /\ adm'[log[j].seq].stage # "new" /\ adm'[log[j].seq].since = adm[log[j].seq].since
      BY <1>3, <3>2
    <3> QED
      BY <3>1, <3>2, <3>3
  <2>2. ASSUME NEW x \in Calls, Counting(x)', adm'[x].since > now - Window
        PROVE  \E i \in 1..Len(log') : log'[i].seq = x
    <3>1. Counting(x) /\ adm[x].since > now - Window /\ (x = r => counted)
      BY <1>16, <2>2
    <3>2. PICK j \in 1..Len(log) : log[j].seq = x
      BY <1>0, <3>1 DEF LogKept
    <3>3. log[j].t > now - Window
      BY <1>0, <3>1, <3>2 DEF LogKept
    <3>4. PICK k \in 1..Len(PrunedLog) : PrunedLog[k] = log[j]
      BY <1>15, <3>3
    <3>5. \E i \in 1..Len(log') : log'[i] = PrunedLog[k]
      BY <1>14, <3>1, <3>2, <3>4
    <3> QED
      BY <3>2, <3>4, <3>5
  <2>3. \A x \in Calls : adm'[x].stage # "new" => adm'[x].since <= now
    BY <1>0, <1>3 DEF LogKept, LiveRequests
  <2> QED
    BY <1>1, <2>1, <2>2, <2>3, ZenonT(60) DEF LogKept
<1>18. RPMCeiling'
  <2> SUFFICES ASSUME RPM > 0, NEW end \in 0..now
               PROVE  Cardinality({x \in Calls : Counting(x)' /\ adm'[x].since \in (end - Window + 1)..end})
                        <= RPM
    BY <1>1 DEF RPMCeiling
  <2> DEFINE A == {x \in Calls : Counting(x) /\ adm[x].since \in (end - Window + 1)..end}
             B == {x \in Calls : Counting(x)' /\ adm'[x].since \in (end - Window + 1)..end}
  <2>1. Cardinality(A) <= RPM /\ RPM \in Nat
    BY LimiterAssumption DEF Exactness, Lending, RPMCeiling
  <2>2. IsFiniteSet(A)
    <3>1. A \in SUBSET Calls
      OBVIOUS
    <3> QED
      BY <3>1, LimiterAssumption, FS_Subset
  <2>3. B \in SUBSET A
    BY <1>16
  <2> HIDE DEF A, B
  <2>4. Cardinality(B) <= Cardinality(A) /\ Cardinality(A) \in Nat /\ Cardinality(B) \in Nat
    BY <2>2, <2>3, FS_Subset, FS_CardinalityType
  <2>5. Cardinality(B) <= RPM
    BY <2>1, <2>4
  <2> QED
    BY <2>5 DEF B
<1> QED
  BY <1>5, <1>12, <1>13, <1>17, <1>18 DEF Exactness

\* Time passes: windows and days only lose what they held.
LEMMA TickLends ==
    ASSUME Lending, Tick
    PROVE  Lending'
<1>0. /\ now' = now + 1 /\ now \in Nat /\ now' \in Nat /\ now < MaxTime
      /\ UNCHANGED <<log, keyInFlight, charges, today, reserved, day, adm>>
      /\ LimiterTypeOK /\ MaxTime \in Nat
  BY LimiterAssumption DEF Tick, Lending, LimiterTypeOK
<1>1. LimiterTypeOK'
  BY <1>0 DEF LimiterTypeOK
<1>2. InFlightExact' /\ ReservedExact'
  BY <1>0, <1>1, SameHolders DEF LiveRequests
<1> QED
  BY <1>0, <1>1, <1>2 DEF Lending, HoldsWhileReserved

\* The clock only makes entries older.
LEMMA TickKeeps ==
    ASSUME Exactness, Tick
    PROVE  Exactness'
<1>0. /\ now' = now + 1 /\ now \in Nat /\ now' \in Nat /\ now < MaxTime
      /\ UNCHANGED <<log, keyInFlight, charges, today, reserved, day, adm>>
      /\ LimiterTypeOK /\ Window \in Nat /\ MaxTime \in Nat
  BY LimiterAssumption DEF Tick, Exactness, Lending, LimiterTypeOK
<1>1. Lending'
  BY TickLends DEF Exactness
<1>4. LogKept'
  <2>1. \A r \in Calls : Counting(r)' <=> Counting(r)
    BY <1>0 DEF Counting
  <2>2. \A r \in Calls : adm[r].since \in Nat
    BY <1>0 DEF LimiterTypeOK
  <2> QED
    BY <1>0, <2>1, <2>2 DEF Exactness, Lending, LogKept
<1>5. MinuteExact'
  <2> SUFFICES ASSUME NEW t \in Nat, t >= now'
               PROVE  SumOn(Amounts(charges'), After(charges', t)) = SumOn(Charged', Spent(t)')
    BY DEF MinuteExact
  <2>1. Charged' = Charged /\ Spent(t)' = Spent(t)
    BY <1>0 DEF Charged, Spent
  <2>2. t >= now
    BY <1>0
  <2> QED
    BY <1>0, <2>1, <2>2 DEF Exactness, Lending, MinuteExact
<1>6. DayExact'
  <2>1. DayOf(now) \in Nat /\ DayOf(now) <= DayOf(now + 1) /\ DayOf(now + 1) \in Nat /\ day \in Nat
    BY <1>0, DayFacts DEF LimiterTypeOK
  <2>2. Charged' = Charged /\ SpentOn(day)' = SpentOn(day)
    BY <1>0 DEF Charged, SpentOn
  <2> QED
    BY <1>0, <2>1, <2>2 DEF Exactness, Lending, DayExact
<1>7. RPMCeiling'
  <2> SUFFICES ASSUME RPM > 0, NEW end \in 0..now'
               PROVE  Cardinality({r \in Calls : Counting(r)' /\ adm'[r].since \in (end - Window + 1)..end})
                        <= RPM
    BY DEF RPMCeiling
  <2> DEFINE last == IF end = now' THEN now ELSE end
             A == {r \in Calls : Counting(r) /\ adm[r].since \in (last - Window + 1)..last}
             B == {r \in Calls : Counting(r)' /\ adm'[r].since \in (end - Window + 1)..end}
  <2>1. last \in 0..now
    BY <1>0
  <2>2. Cardinality(A) <= RPM /\ RPM \in Nat
    BY <2>1, LimiterAssumption DEF Exactness, Lending, RPMCeiling
  <2>3. IsFiniteSet(A)
    <3>1. A \in SUBSET Calls
      OBVIOUS
    <3> QED
      BY <3>1, LimiterAssumption, FS_Subset
  <2>4. B \in SUBSET A
    <3> SUFFICES ASSUME NEW r \in B PROVE r \in A
      OBVIOUS
    <3>1. r \in Calls /\ Counting(r) /\ adm[r].since \in Nat /\ adm[r].since <= now
      BY <1>0 DEF Exactness, Lending, LogKept, Counting, LimiterTypeOK
    <3>2. adm[r].since \in (end - Window + 1)..end
      BY <1>0
    <3>3. adm[r].since \in (last - Window + 1)..last
      BY <1>0, <3>1, <3>2
    <3> QED
      BY <3>1, <3>3
  <2> HIDE DEF A, B
  <2>5. Cardinality(B) <= Cardinality(A) /\ Cardinality(A) \in Nat /\ Cardinality(B) \in Nat
    BY <2>3, <2>4, FS_Subset, FS_CardinalityType
  <2>6. Cardinality(B) <= RPM
    BY <2>2, <2>5
  <2> QED
    BY <2>6 DEF B
<1> QED
  BY <1>1, <1>4, <1>5, <1>6, <1>7 DEF Exactness

\* Every step keeps the invariant.
LEMMA ExactnessStep == Exactness /\ [LimiterNext]_limiterVars => Exactness'
<1> SUFFICES ASSUME Exactness, [LimiterNext]_limiterVars PROVE Exactness'
  OBVIOUS
<1>1. ASSUME NEW r \in Calls, Admit(r) PROVE Exactness'
  BY <1>1, AdmitKeeps
<1>2. ASSUME NEW r \in Calls, AdmitRefused(r) PROVE Exactness'
  BY <1>2, QuietKeeps DEF AdmitRefused
<1>3. ASSUME NEW r \in Calls, Reserve(r) PROVE Exactness'
  BY <1>3, ReserveKeeps
<1>4. ASSUME NEW r \in Calls, ReserveRefused(r) PROVE Exactness'
  BY <1>4, ReserveRefusedKeeps
<1>5. ASSUME NEW r \in Calls, Settle(r) PROVE Exactness'
  <2>1. PICK row \in Rows(r) : SettleAs(r, row[1], row[2])
    BY <1>5 DEF Settle
  <2>2. row[1] \in BOOLEAN /\ row[2] \in Nat
    BY RowFacts
  <2> QED
    BY <2>1, <2>2, SettleKeeps
<1>6. CASE Counters
  BY <1>6, QuietKeeps DEF Counters
<1>7. CASE Tick
  BY <1>7, TickKeeps
<1>8. CASE UNCHANGED limiterVars
  BY <1>8 DEF limiterVars, Exactness, Lending, LimiterTypeOK, InFlightExact, ReservedExact,
              HoldsWhileReserved, RPMCeiling, LogKept, MinuteExact, DayExact, LiveRequests,
              Counting, Charged, Held, Spent, SpentOn
<1> QED
  BY <1>1, <1>2, <1>3, <1>4, <1>5, <1>6, <1>7, <1>8 DEF LimiterNext

\* Whatever the requests are charged, the counters of a key are exact: the
\* concurrency and the reservations are those of the requests under way, the
\* minute and the day are what the settled requests were charged, and no
\* window of the past or the present holds more than RPM admissions.
THEOREM CountersExact == LimiterSpec => []Exactness
<1>1. Exactness /\ [LimiterNext]_limiterVars => Exactness'
  BY ExactnessStep
<1> QED
  BY <1>1, ExactnessInit, PTL DEF LimiterSpec

-----------------------------------------------------------------------------
(***************************************************************************)
(* The ceilings of the minute and the day.  They rest on every charge      *)
(* staying within its reservation (Overrun = 0): the run limiter_overrun   *)
(* shows them exceeded otherwise.                                          *)
(***************************************************************************)

UnderMinute == TPM > 0 => SumOn(Charged, Spent(now)) + reserved <= TPM
UnderDay == DailyTokens > 0 => SumOn(Charged, SpentOn(DayOf(now))) + reserved <= DailyTokens

\* The two ceilings, in the terms of the counters.
LEMMA CeilingsAreSums ==
    ASSUME Exactness
    PROVE  (TokenCeiling <=> UnderMinute) /\ (DailyCeiling <=> UnderDay)
<1>1. reserved = ReservedNow
  BY DEF Exactness, Lending, ReservedExact, ReservedNow
<1> QED
  BY <1>1, SumsOfProperties DEF TokenCeiling, DailyCeiling, UnderMinute, UnderDay

\* The sums are natural numbers.
LEMMA SpentIsNat ==
    ASSUME Exactness, NEW t
    PROVE  SumOn(Charged, Spent(t)) \in Nat /\ SumOn(Charged, SpentOn(t)) \in Nat
<1>1. Spent(t) \in SUBSET Calls /\ SpentOn(t) \in SUBSET Calls
  BY DEF Spent, SpentOn
<1> QED
  BY <1>1, SumsAreFinite, SumType DEF Exactness, Lending

\* fitBudget and floorFor: what is granted fits in the minute and in the day
\* next to everything charged and reserved there.
LEMMA WorstFits ==
    ASSUME Lending, NEW p \in Prompts, NEW out \in Outs, MinuteFits(p, out), DayFits(p, out),
           NEW w, w = p + MaxOf(DayOut(p, out), 0)
    PROVE  /\ w \in Nat
           /\ TPM > 0 => Live + w <= TPM
           /\ DailyTokens > 0 => DayUsed + w <= DailyTokens
<1>1. /\ Live \in Nat /\ DayUsed \in Nat /\ p \in Nat /\ out \in Int /\ w \in Nat
      /\ MinuteOut(p, out) \in Int /\ DayOut(p, out) \in Int
  BY WorstIsNat
<1>2. TPM \in Nat /\ DailyTokens \in Nat /\ MinOutput \in Nat /\ MinOutput > 0
  BY LimiterAssumption
<1> DEFINE m == MinuteOut(p, out)
           d == DayOut(p, out)
<1>3. TPM > 0 => m >= 0 /\ Live + p + m <= TPM
  BY <1>1, <1>2 DEF MinuteFits, Fits, MinuteOut, FitBudget, DoesNotFit
<1>4. d = FitBudget(DailyTokens, DayUsed, p, m) /\ Fits(DailyTokens, DayUsed, p, m)
  BY DEF DayOut, DayFits
<1>5. m \in Int /\ d \in Int /\ w = p + (IF d < 0 THEN 0 ELSE d)
  BY <1>1 DEF MaxOf
<1> HIDE DEF m, d
<1>6. DailyTokens > 0 => d >= 0 /\ DayUsed + p + d <= DailyTokens
  BY <1>1, <1>2, <1>4, <1>5 DEF Fits, FitBudget, DoesNotFit
<1>7. m >= 0 => d <= m
  BY <1>1, <1>2, <1>4, <1>5 DEF Fits, FitBudget, DoesNotFit
<1> QED
  BY <1>1, <1>2, <1>3, <1>5, <1>6, <1>7

\* A reservation that was granted fits in what is left of the day.
LEMMA ReserveFits ==
    ASSUME Lending, NEW r \in Calls, Reserve(r)
    PROVE  DailyTokens > 0 => PrunedToday + reserved' <= DailyTokens
<1>1. PICK p \in Prompts, out \in Outs :
        /\ MinuteFits(p, out) /\ DayFits(p, out)
        /\ reserved' = reserved + (p + MaxOf(DayOut(p, out), 0))
  BY DEF Reserve
<1> DEFINE w == p + MaxOf(DayOut(p, out), 0)
<1>2. w \in Nat /\ (DailyTokens > 0 => DayUsed + w <= DailyTokens)
  BY <1>1, WorstFits
<1>3. reserved' = reserved + w /\ reserved \in Nat /\ PrunedToday \in Nat /\ DailyTokens \in Nat
  BY <1>1, PrunedTypes, LimiterAssumption DEF Lending, LimiterTypeOK
<1> HIDE DEF w
<1> QED
  BY <1>2, <1>3 DEF DayUsed

\* A step in which nobody settles and no time passes leaves the sums alone.
LEMMA SpentSame ==
    ASSUME now' = now,
           \A r \in Calls : /\ adm'[r].stage = "settled" <=> adm[r].stage = "settled"
                            /\ adm'[r].at = adm[r].at
                            /\ adm'[r].charged = adm[r].charged
    PROVE  /\ SumOn(Charged, Spent(now))' = SumOn(Charged, Spent(now))
           /\ SumOn(Charged, SpentOn(DayOf(now)))' = SumOn(Charged, SpentOn(DayOf(now)))
<1>1. Charged' = Charged /\ Spent(now)' = Spent(now) /\ SpentOn(DayOf(now))' = SpentOn(DayOf(now))
  BY DEF Charged, Spent, SpentOn
<1> QED
  BY <1>1

\* A request that settles moves its charge from the reservations to the sums.
LEMMA SettleUnder ==
    ASSUME Exactness, UnderMinute, UnderDay, NEW r \in Calls, NEW counted \in BOOLEAN,
           NEW c \in Nat, c <= adm[r].reserved, SettleAs(r, counted, c)
    PROVE  UnderMinute' /\ UnderDay'
<1>0. /\ now' = now /\ reserved' = reserved - adm[r].reserved /\ now \in Nat
      /\ adm[r].reserved \in Nat /\ reserved \in Nat /\ TPM \in Nat /\ DailyTokens \in Nat
      /\ Window \in Nat /\ Window > 0
  BY LimiterAssumption, SMTT(60) DEF SettleAs, SettledReserved, Exactness, Lending, LimiterTypeOK
<1>1. /\ \A x \in Calls : x # r => adm'[x] = adm[x]
      /\ adm'[r].stage = "settled" /\ adm'[r].at = now /\ adm[r].stage # "settled"
  BY SettledFacts DEF Exactness
<1>2. /\ IsFiniteSet(Calls) /\ NatOn(Charged, Calls) /\ NatOn(Charged', Calls)
      /\ \A x \in Calls : x # r => Charged[x] = Charged'[x]
      /\ Charged'[r] = c
  BY SettledCharge
<1>3. /\ Spent(now) \in SUBSET Calls /\ Spent(now)' \in SUBSET Calls
      /\ Spent(now) \ {r} = Spent(now)' \ {r} /\ r \notin Spent(now) /\ r \in Spent(now)'
  BY <1>0, <1>1 DEF Spent
<1>4. /\ SpentOn(DayOf(now)) \in SUBSET Calls /\ SpentOn(DayOf(now))' \in SUBSET Calls
      /\ SpentOn(DayOf(now)) \ {r} = SpentOn(DayOf(now))' \ {r}
      /\ r \notin SpentOn(DayOf(now)) /\ r \in SpentOn(DayOf(now))'
  BY <1>0, <1>1 DEF SpentOn
<1>5. SumOn(Charged, Spent(now)) \in Nat /\ SumOn(Charged, SpentOn(DayOf(now))) \in Nat
  BY SpentIsNat
<1>6. /\ IsFiniteSet(Spent(now)') /\ NatOn(Charged', Spent(now)')
      /\ IsFiniteSet(SpentOn(DayOf(now))') /\ NatOn(Charged', SpentOn(DayOf(now))')
  BY <1>2, <1>3, <1>4, FS_Subset DEF NatOn
<1>7. SumOn(Charged', Spent(now)') \in Nat /\ SumOn(Charged', SpentOn(DayOf(now))') \in Nat
  BY <1>6, SumType
<1>8. SumOn(Charged', Spent(now)') = SumOn(Charged, Spent(now)) + c
  <2>1. SumOn(Charged', Spent(now)') + (IF r \in Spent(now) THEN Charged[r] ELSE 0)
          = SumOn(Charged, Spent(now)) + (IF r \in Spent(now)' THEN Charged'[r] ELSE 0)
    BY <1>2, <1>3, SumChange
  <2> QED
    BY <1>2, <1>3, <1>5, <1>7, <2>1
<1>9. SumOn(Charged', SpentOn(DayOf(now))') = SumOn(Charged, SpentOn(DayOf(now))) + c
  <2>1. SumOn(Charged', SpentOn(DayOf(now))')
            + (IF r \in SpentOn(DayOf(now)) THEN Charged[r] ELSE 0)
          = SumOn(Charged, SpentOn(DayOf(now)))
            + (IF r \in SpentOn(DayOf(now))' THEN Charged'[r] ELSE 0)
    BY <1>2, <1>4, SumChange
  <2> QED
    BY <1>2, <1>4, <1>5, <1>7, <2>1
<1> QED
  BY <1>0, <1>5, <1>8, <1>9 DEF UnderMinute, UnderDay

\* Time passes: the minute loses charges, and a new day starts with none.
LEMMA TickUnder ==
    ASSUME Exactness, UnderMinute, UnderDay, Tick
    PROVE  UnderMinute' /\ UnderDay'
<1>0. /\ now' = now + 1 /\ now \in Nat /\ adm' = adm /\ reserved' = reserved /\ reserved \in Nat
      /\ Window \in Nat /\ TPM \in Nat /\ DailyTokens \in Nat /\ LimiterTypeOK
  BY LimiterAssumption DEF Tick, Exactness, Lending, LimiterTypeOK
<1>1. Charged' = Charged
  BY <1>0 DEF Charged
<1>2. /\ SumOn(Charged, Spent(now)) \in Nat /\ SumOn(Charged, Spent(now + 1)) \in Nat
      /\ SumOn(Charged, SpentOn(DayOf(now))) \in Nat
  BY SpentIsNat
<1>3. UnderMinute'
  <2>1. Spent(now)' = Spent(now + 1)
    BY <1>0 DEF Spent
  <2>2. \A r \in Calls : adm[r].at \in Nat
    BY <1>0 DEF LimiterTypeOK
  <2>3. Spent(now + 1) \in SUBSET Spent(now) /\ Spent(now) \in SUBSET Calls
    BY <1>0, <2>2 DEF Spent
  <2>4. IsFiniteSet(Spent(now)) /\ NatOn(Charged, Spent(now))
    BY <1>0, <2>3, SumsAreFinite
  <2>5. SumOn(Charged, Spent(now + 1)) <= SumOn(Charged, Spent(now))
    BY <2>3, <2>4, SumSubset
  <2>6. SumOn(Charged, Spent(now))' = SumOn(Charged, Spent(now + 1))
    BY <1>1, <2>1
  <2> QED
    BY <1>0, <1>2, <2>5, <2>6 DEF UnderMinute
<1>4. UnderDay'
  <2>1. SpentOn(DayOf(now))' = SpentOn(DayOf(now + 1))
    BY <1>0 DEF SpentOn
  <2>2. /\ DayOf(now) \in Nat /\ DayOf(now + 1) \in Nat /\ DayOf(now) <= DayOf(now + 1)
    BY <1>0, DayFacts
  <2>3. CASE DayOf(now + 1) = DayOf(now)
    BY <1>0, <1>1, <2>1, <2>3 DEF UnderDay
  <2>4. CASE DayOf(now + 1) # DayOf(now)
    <3>1. \A r \in Calls : adm[r].stage = "settled" => /\ DayOf(adm[r].at) <= DayOf(now)
                                                       /\ DayOf(adm[r].at) \in Nat
      BY <1>0, DayFacts, PrunedTodayFacts DEF Exactness, Lending, LimiterTypeOK
    <3>2. SpentOn(DayOf(now + 1)) = {}
      BY <2>2, <2>4, <3>1 DEF SpentOn
    <3>3. SumOn(Charged, SpentOn(DayOf(now)))' = 0
      BY <1>1, <2>1, <3>2, SumEmpty
    <3> QED
      BY <1>0, <1>2, <3>3 DEF UnderDay
  <2> QED
    BY <2>3, <2>4
<1> QED
  BY <1>3, <1>4

\* A reservation that fits leaves both sums under their ceilings.
LEMMA ReserveUnder ==
    ASSUME Exactness, UnderMinute, UnderDay, NEW r \in Calls, Reserve(r)
    PROVE  UnderMinute' /\ UnderDay'
<1>0. adm \in [Calls -> Admission] /\ adm[r].stage = "admitted" /\ now' = now
      /\ LimiterTypeOK /\ DayExact /\ MinuteExact /\ now \in Nat /\ reserved \in Nat
      /\ TPM \in Nat /\ DailyTokens \in Nat
  BY PrunedTypes, LimiterAssumption DEF Exactness, Lending, Reserve, LimiterTypeOK
<1>1. PICK p \in Prompts, out \in Outs :
        /\ MinuteFits(p, out) /\ DayFits(p, out)
        /\ adm' = [adm EXCEPT ![r].stage = "reserved",
                              ![r].reserved = p + MaxOf(DayOut(p, out), 0)]
        /\ reserved' = reserved + (p + MaxOf(DayOut(p, out), 0))
  BY DEF Reserve
<1> DEFINE w == p + MaxOf(DayOut(p, out), 0)
<1>2. /\ adm' = [adm EXCEPT ![r].stage = "reserved", ![r].reserved = w]
      /\ reserved' = reserved + w
  BY <1>1
<1>3. /\ w \in Nat /\ (TPM > 0 => Live + w <= TPM)
      /\ (DailyTokens > 0 => DayUsed + w <= DailyTokens)
  BY <1>1, WorstFits DEF Exactness
<1> HIDE DEF w
<1>4. /\ adm'[r].stage = "reserved" /\ adm'[r].at = adm[r].at /\ adm'[r].charged = adm[r].charged
      /\ \A x \in Calls : x # r => adm'[x] = adm[x]
  BY <1>0, <1>2 DEF Admission
<1>5. /\ SumOn(Charged, Spent(now))' = SumOn(Charged, Spent(now))
      /\ SumOn(Charged, SpentOn(DayOf(now)))' = SumOn(Charged, SpentOn(DayOf(now)))
  BY <1>0, <1>4, SpentSame
<1>6. SumOn(Charged, Spent(now)) \in Nat /\ SumOn(Charged, SpentOn(DayOf(now))) \in Nat
  BY SpentIsNat
<1>7. SumOn(Charged, Spent(now)) <= Tokens(PrunedCharges) /\ Tokens(PrunedCharges) \in Nat
  <2>1. SumOn(Amounts(charges), After(charges, now)) = SumOn(Charged, Spent(now))
    BY <1>0 DEF MinuteExact
  <2> QED
    BY <1>0, <2>1, PrunedChargesFacts
<1>8. SumOn(Charged, SpentOn(DayOf(now))) = PrunedToday
  BY <1>0, PrunedTodayFacts
<1> QED
  BY <1>0, <1>2, <1>3, <1>5, <1>6, <1>7, <1>8 DEF UnderMinute, UnderDay, Live, DayUsed

\* No limit of a key is ever exceeded, for any number of requests and any
\* limits, when no charge exceeds its reservation.
THEOREM LimitsAlwaysHold ==
    ASSUME Overrun = 0
    PROVE  LimiterSpec => []LimitsHold
<1> DEFINE Under == Exactness /\ UnderMinute /\ UnderDay
<1>1. LimiterInit => Under
  <2> SUFFICES ASSUME LimiterInit PROVE Under
    OBVIOUS
  <2>1. Exactness /\ reserved = 0 /\ TPM \in Nat /\ DailyTokens \in Nat
    BY ExactnessInit, LimiterAssumption DEF LimiterInit
  <2>2. \A t : Spent(t) = {} /\ SpentOn(t) = {}
    BY DEF LimiterInit, NoAdmission, Spent, SpentOn
  <2>3. SumOn(Charged, Spent(now)) = 0 /\ SumOn(Charged, SpentOn(DayOf(now))) = 0
    BY <2>2, SumEmpty
  <2> QED
    BY <2>1, <2>3 DEF UnderMinute, UnderDay
<1>2. Under /\ [LimiterNext]_limiterVars => Under'
  <2> SUFFICES ASSUME Exactness, UnderMinute, UnderDay, [LimiterNext]_limiterVars
               PROVE  UnderMinute' /\ UnderDay'
    BY ExactnessStep
  <2>0. adm \in [Calls -> Admission]
    BY PrunedTypes DEF Exactness
  <2>1. ASSUME UNCHANGED <<now, reserved>>,
               \A r \in Calls : /\ adm'[r].stage = "settled" <=> adm[r].stage = "settled"
                                /\ adm'[r].at = adm[r].at
                                /\ adm'[r].charged = adm[r].charged
        PROVE  UnderMinute' /\ UnderDay'
    BY <2>1, SpentSame DEF UnderMinute, UnderDay
  <2>2. ASSUME NEW r \in Calls, Admit(r) PROVE UnderMinute' /\ UnderDay'
    <3>1. \A x \in Calls : /\ adm'[x].stage = "settled" <=> adm[x].stage = "settled"
                           /\ adm'[x].at = adm[x].at
                           /\ adm'[x].charged = adm[x].charged
      BY <2>0, <2>2 DEF Admit, Admission
    <3> QED
      BY <2>1, <2>2, <3>1 DEF Admit
  <2>3. ASSUME NEW r \in Calls, AdmitRefused(r) PROVE UnderMinute' /\ UnderDay'
    BY <2>1, <2>3 DEF AdmitRefused
  <2>4. ASSUME NEW r \in Calls, Reserve(r) PROVE UnderMinute' /\ UnderDay'
    BY <2>4, ReserveUnder
  <2>5. ASSUME NEW r \in Calls, ReserveRefused(r) PROVE UnderMinute' /\ UnderDay'
    <3>1. \A x \in Calls : /\ adm'[x].stage = "settled" <=> adm[x].stage = "settled"
                           /\ adm'[x].at = adm[x].at
                           /\ adm'[x].charged = adm[x].charged
      BY <2>0, <2>5 DEF ReserveRefused, Admission
    <3> QED
      BY <2>1, <2>5, <3>1 DEF ReserveRefused
  <2>6. ASSUME NEW r \in Calls, Settle(r) PROVE UnderMinute' /\ UnderDay'
    <3>1. PICK row \in Rows(r) : SettleAs(r, row[1], row[2])
      BY <2>6 DEF Settle
    <3>2. row[1] \in BOOLEAN /\ row[2] \in Nat /\ row[2] <= adm[r].reserved + Overrun
      BY RowFacts
    <3>3. row[2] <= adm[r].reserved
      BY <2>0, <3>2 DEF Admission
    <3> QED
      BY <3>1, <3>2, <3>3, SettleUnder
  <2>7. CASE Counters
    BY <2>1, <2>7 DEF Counters
  <2>8. CASE Tick
    BY <2>8, TickUnder
  <2>9. CASE UNCHANGED limiterVars
    BY <2>1, <2>9 DEF limiterVars
  <2> QED
    BY <2>2, <2>3, <2>4, <2>5, <2>6, <2>7, <2>8, <2>9 DEF LimiterNext
<1>3. Under => LimitsHold
  BY CeilingsAreSums DEF LimitsHold, Exactness, Lending
<1> QED
  BY <1>1, <1>2, <1>3, PTL DEF LimiterSpec

-----------------------------------------------------------------------------
(***************************************************************************)
(* The Retry-After of a refusal.  prune may drop only a prefix of a log,   *)
(* so the answers rest on the charges' being in the order of time, and on  *)
(* the log of admissions' never being longer than the limit.               *)
(***************************************************************************)

ChargesInOrder ==
    /\ \A i \in 1..Len(charges) : charges[i].t <= now
    /\ \A i, j \in 1..Len(charges) : i <= j => charges[i].t <= charges[j].t
LogBounded == RPM > 0 => Len(log) <= RPM

RetryInv == Exactness /\ ChargesInOrder /\ LogBounded

\* The entries of a log, as far as prune looks at them.
LEMMA LogTypes ==
    ASSUME LimiterTypeOK
    PROVE  /\ charges \in Seq(Charge) /\ \A i \in 1..Len(charges) : charges[i].t \in Nat
           /\ log \in Seq(LogEntry) /\ \A i \in 1..Len(log) : log[i].t \in Nat
           /\ Len(charges) \in Nat /\ Len(log) \in Nat
           /\ now \in Nat /\ reserved \in Nat /\ Window \in Nat /\ Window > 0
           /\ RPM \in Nat /\ TPM \in Nat
<1>1. charges \in Seq(Charge) /\ log \in Seq(LogEntry)
  BY DEF LimiterTypeOK, Charge, LogEntry
<1>2. \A i \in 1..Len(charges) : charges[i] \in Charge
  BY <1>1
<1>3. \A i \in 1..Len(log) : log[i] \in LogEntry
  BY <1>1
<1>4. (\A e \in Charge : e.t \in Nat) /\ (\A e \in LogEntry : e.t \in Nat)
  BY DEF Charge, LogEntry
<1> QED
  BY <1>1, <1>2, <1>3, <1>4, LimiterAssumption DEF LimiterTypeOK

\* prune at time t drops at least the first k entries when all of them have
\* left the window, and at most j when the next one has not.
LEMMA ExpiredBounds ==
    ASSUME NEW E, NEW q \in Seq(E), \A i \in 1..Len(q) : q[i].t \in Nat, NEW t \in Nat
    PROVE  /\ \A k \in 0..Len(q) : (\A i \in 1..k : q[i].t <= t - Window)
                                      => k <= LeadingExpired(q, t)
           /\ \A k \in 1..Len(q) : q[k].t > t - Window => LeadingExpired(q, t) < k
<1> DEFINE m == LeadingExpired(q, t)
<1>1. /\ m \in 0..Len(q) /\ Len(q) \in Nat
      /\ \A i \in 1..m : q[i].t <= t - Window
      /\ m < Len(q) => q[m + 1].t > t - Window
  BY LeadingExpiredFacts
<1>0. Window \in Nat
  BY LimiterAssumption
<1> HIDE DEF m
<1>2. ASSUME NEW k \in 0..Len(q), \A i \in 1..k : q[i].t <= t - Window, ~(k <= m)
      PROVE  FALSE
  <2>1. m + 1 \in 1..k /\ m < Len(q) /\ m + 1 \in 1..Len(q)
    BY <1>1, <1>2
  <2>2. q[m + 1].t > t - Window /\ q[m + 1].t <= t - Window /\ q[m + 1].t \in Nat
    BY <1>1, <1>2, <2>1
  <2> QED
    BY <1>0, <2>2
<1>3. ASSUME NEW k \in 1..Len(q), q[k].t > t - Window, ~(m < k)
      PROVE  FALSE
  <2>1. k \in 1..m
    BY <1>1, <1>3
  <2>2. q[k].t <= t - Window /\ q[k].t \in Nat
    BY <1>1, <2>1
  <2> QED
    BY <1>0, <1>3, <2>2
<1> QED
  BY <1>2, <1>3 DEF m

\* What used adds up for a part of the log of charges, in the places it has there.
LEMMA SliceTokens ==
    ASSUME LimiterTypeOK, NEW u \in Seq(Charge), NEW d \in Nat, d + Len(u) <= Len(charges),
           \A i \in 1..Len(u) : u[i] = charges[d + i]
    PROVE  Tokens(u) = SumOn(Amounts(charges), (d + 1)..(d + Len(u)))
<1>0. charges \in Seq(Charge) /\ Len(charges) \in Nat /\ Len(u) \in Nat
  BY LogTypes
<1> DEFINE S == 1..Len(u)
           T == (d + 1)..(d + Len(u))
           b == [i \in S |-> d + i]
<1>1. b \in Bijection(S, T)
  <2>1. b \in [S -> T]
    BY <1>0
  <2>2. \A x, y \in S : b[x] = b[y] => x = y
    BY <1>0
  <2>3. \A j \in T : \E i \in S : b[i] = j
    <3> SUFFICES ASSUME NEW j \in T PROVE \E i \in S : b[i] = j
      OBVIOUS
    <3>1. j - d \in S /\ d + (j - d) = j
      BY <1>0
    <3> QED
      BY <3>1
  <2> HIDE DEF b, S, T
  <2> QED
    BY <2>1, <2>2, <2>3 DEF Bijection, Injection, Surjection, IsInjective
<1>2. IsFiniteSet(S) /\ NatOn(Amounts(u), S)
  BY SumsAreFinite, S \in SUBSET (1..Len(u))
<1>3. ASSUME NEW i \in S PROVE Amounts(charges)[b[i]] = Amounts(u)[i]
  <2>1. b[i] = d + i /\ d + i \in 1..Len(charges) /\ u[i] = charges[d + i]
    BY <1>0
  <2> QED
    BY <2>1 DEF Amounts
<1> HIDE DEF b, T
<1>4. SumOn(Amounts(charges), T) = SumOn(Amounts(u), S)
  BY <1>1, <1>2, <1>3, SumBijection
<1>5. Tokens(u) = SumOn(Amounts(u), S)
  BY TokensIsSum
<1> QED
  BY <1>4, <1>5 DEF T

\* Neighbouring parts of the log of charges add up.
LEMMA SliceSums ==
    ASSUME LimiterTypeOK, NEW a \in Nat, NEW b \in Nat, NEW c \in Nat,
           a <= b, b <= c, c <= Len(charges)
    PROVE  LET f == Amounts(charges)
           IN  /\ SumOn(f, (a + 1)..c) = SumOn(f, (a + 1)..b) + SumOn(f, (b + 1)..c)
               /\ SumOn(f, (a + 1)..c) \in Nat /\ SumOn(f, (a + 1)..b) \in Nat
               /\ SumOn(f, (b + 1)..c) \in Nat
<1> DEFINE f == Amounts(charges)
           S == (a + 1)..b
           T == (b + 1)..c
           U == (a + 1)..c
<1>0. Len(charges) \in Nat /\ charges \in Seq(Charge)
  BY LogTypes
<1>1. /\ S \in SUBSET (1..Len(charges)) /\ T \in SUBSET (1..Len(charges))
      /\ U \in SUBSET (1..Len(charges)) /\ S \cap T = {} /\ U = S \cup T
  BY <1>0
<1> HIDE DEF S, T, U
<1>2. /\ IsFiniteSet(S) /\ NatOn(f, S) /\ IsFiniteSet(T) /\ NatOn(f, T)
      /\ IsFiniteSet(U) /\ NatOn(f, U)
  BY <1>0, <1>1, SumsAreFinite
<1> HIDE DEF f
<1>3. SumOn(f, S) \in Nat /\ SumOn(f, T) \in Nat /\ SumOn(f, U) \in Nat
  BY <1>2, SumType
<1>4. SumOn(f, S \cup T) = SumOn(f, S) + SumOn(f, T)
  BY <1>1, <1>2, SumDisjoint
<1> QED
  BY <1>1, <1>3, <1>4 DEF f, S, T, U

\* The charges in the window at time t, and their sum: a suffix of the log.
LEMMA UnexpiredTokens ==
    ASSUME LimiterTypeOK, NEW t \in Nat
    PROVE  /\ LeadingExpired(charges, t) \in 0..Len(charges)
           /\ Tokens(Unexpired(charges, t))
                = SumOn(Amounts(charges), (LeadingExpired(charges, t) + 1)..Len(charges))
<1>0. charges \in Seq(Charge) /\ \A i \in 1..Len(charges) : charges[i].t \in Nat
  BY LogTypes
<1> DEFINE k == LeadingExpired(charges, t)
           u == Unexpired(charges, t)
<1>1. k \in 0..Len(charges) /\ Len(charges) \in Nat
  BY <1>0, LeadingExpiredFacts
<1>2. /\ u \in Seq(Charge) /\ Len(u) = Len(charges) - k
      /\ \A i \in 1..(Len(charges) - k) : u[i] = charges[k + i]
  BY <1>0, UnexpiredFacts
<1> HIDE DEF k, u
<1>3. /\ k \in Nat /\ k + Len(u) = Len(charges) /\ k + Len(u) <= Len(charges)
      /\ \A i \in 1..Len(u) : u[i] = charges[k + i]
  BY <1>1, <1>2
<1>4. Tokens(u) = SumOn(Amounts(charges), (k + 1)..(k + Len(u)))
  BY <1>2, <1>3, SliceTokens
<1> QED
  BY <1>1, <1>3, <1>4 DEF k, u

\* The Retry-After of a full minute is exact: at that time the oldest
\* admission, and it alone need, has left the log.
LEMMA RateRetryExact ==
    ASSUME LimiterTypeOK, LogBounded, RateFull
    PROVE  Admittable(now + RateRetry) /\ ~Admittable(now + RateRetry - 1)
<1>0. /\ log \in Seq(LogEntry) /\ \A i \in 1..Len(log) : log[i].t \in Nat
      /\ Len(log) \in Nat /\ now \in Nat /\ Window \in Nat /\ Window > 0 /\ RPM \in Nat
  BY LogTypes
<1> DEFINE k == LeadingExpired(log, now)
           T == now + RateRetry
           V == now + RateRetry - 1
<1>1. /\ k \in 0..Len(log)
      /\ \A i \in 1..k : log[i].t <= now - Window
      /\ k < Len(log) => log[k + 1].t > now - Window
  BY <1>0, LeadingExpiredFacts
<1>2. /\ PrunedLog \in Seq(LogEntry) /\ Len(PrunedLog) = Len(log) - k
      /\ \A i \in 1..(Len(log) - k) : PrunedLog[i] = log[k + i]
  BY <1>0, UnexpiredFacts DEF PrunedLog
<1> HIDE DEF k
<1>3. RPM > 0 /\ Len(log) - k >= RPM /\ Len(log) <= RPM
  BY <1>2 DEF RateFull, LogBounded
<1>4. k < Len(log) /\ k + 1 \in 1..Len(log) /\ k \in Nat
  BY <1>0, <1>1, <1>3
<1>5. PrunedLog # <<>> /\ Head(PrunedLog) = log[k + 1]
  <2>1. PrunedLog # <<>> /\ Head(PrunedLog) = PrunedLog[1]
    BY <1>0, <1>2, <1>3, HeadTailProperties
  <2>2. PrunedLog[1] = log[k + 1]
    BY <1>0, <1>1, <1>2, <1>3
  <2> QED
    BY <2>1, <2>2
<1>6. /\ T = log[k + 1].t + Window /\ T \in Nat /\ T > now
      /\ V = T - 1 /\ V \in Nat
  <2>1. log[k + 1].t \in Nat /\ log[k + 1].t + Window - now >= 1
    BY <1>0, <1>1, <1>4
  <2>2. RateRetry = log[k + 1].t + Window - now
    BY <1>0, <1>5, <2>1 DEF RateRetry, MaxOf
  <2> QED
    BY <1>0, <2>1, <2>2, SMTT(60)
<1> HIDE DEF T, V
<1>7. Len(Unexpired(log, T)) = Len(log) - LeadingExpired(log, T)
  BY <1>0, <1>6, UnexpiredFacts
<1>8. Len(Unexpired(log, V)) = Len(log) - LeadingExpired(log, V)
  BY <1>0, <1>6, UnexpiredFacts
<1>9. LeadingExpired(log, T) \in 0..Len(log) /\ LeadingExpired(log, V) \in 0..Len(log)
  BY <1>0, <1>6, LeadingExpiredFacts
<1>10. k + 1 <= LeadingExpired(log, T)
  <2>1. \A i \in 1..(k + 1) : log[i].t <= T - Window
    <3> SUFFICES ASSUME NEW i \in 1..(k + 1) PROVE log[i].t <= T - Window
      OBVIOUS
    <3>1. i \in 1..k \/ i = k + 1
      BY <1>4
    <3>2. i \in 1..Len(log) /\ log[i].t \in Nat /\ log[k + 1].t \in Nat
      BY <1>0, <1>4
    <3>3. CASE i \in 1..k
      <4>1. log[i].t <= now - Window
        BY <1>1, <3>3
      <4> QED
        <5>1. now \in Nat /\ Window \in Nat /\ T \in Nat /\ T > now
          BY <1>0, <1>6
        <5>2. log[i].t \in Nat
          BY <3>2
        <5> QED
          BY <4>1, <5>1, <5>2
    <3>4. CASE i = k + 1
      BY <1>0, <1>6, <3>2, <3>4
    <3> QED
      BY <3>1, <3>3, <3>4
  <2>2. k + 1 \in 0..Len(log)
    BY <1>4
  <2> QED
    BY <1>0, <1>6, <2>1, <2>2, ExpiredBounds
<1>11. LeadingExpired(log, V) < k + 1
  <2>1. log[k + 1].t > V - Window
    BY <1>0, <1>4, <1>6, SMTT(60)
  <2> QED
    BY <1>0, <1>4, <1>6, <2>1, ExpiredBounds
<1>12. Admittable(T)
  BY <1>0, <1>3, <1>4, <1>7, <1>9, <1>10 DEF Admittable
<1>13. ~Admittable(V)
  BY <1>0, <1>3, <1>4, <1>8, <1>9, <1>11 DEF Admittable
<1> QED
  BY <1>12, <1>13 DEF T, V

\* The charges in the window are the log's, from the first that is in it.
LEMMA PrunedChargesShape ==
    ASSUME LimiterTypeOK
    PROVE  /\ PrunedCharges \in Seq(Charge)
           /\ Len(PrunedCharges) = Len(charges) - LeadingExpired(charges, now)
           /\ \A i \in 1..(Len(charges) - LeadingExpired(charges, now)) :
                 PrunedCharges[i] = charges[LeadingExpired(charges, now) + i]
<1> DEFINE k == LeadingExpired(charges, now)
           p == PrunedCharges
<1>0. charges \in Seq(Charge) /\ now \in Nat
  BY LogTypes
<1>1. \A i \in 1..Len(charges) : charges[i].t \in Nat
  BY LogTypes
<1>2. /\ p \in Seq(Charge)
      /\ Len(p) = Len(charges) - k
      /\ \A i \in 1..(Len(charges) - k) : p[i] = charges[k + i]
  BY <1>0, <1>1, UnexpiredFacts DEF PrunedCharges
<1> QED
  BY <1>2

\* What TokenRetry subtracts for the k oldest charges in the window.
LEMMA StillLiveFacts ==
    ASSUME LimiterTypeOK, NEW m, m = LeadingExpired(charges, now)
    PROVE  /\ m \in 0..Len(charges) /\ Len(PrunedCharges) = Len(charges) - m
           /\ \A i \in 1..(Len(charges) - m) : PrunedCharges[i] = charges[m + i]
           /\ Tokens(PrunedCharges) = SumOn(Amounts(charges), (m + 1)..Len(charges))
           /\ \A k \in 1..Len(PrunedCharges) :
                 StillLive(k) = SumOn(Amounts(charges), (m + k + 1)..Len(charges)) + reserved
<1>0. /\ charges \in Seq(Charge) /\ \A i \in 1..Len(charges) : charges[i].t \in Nat
      /\ Len(charges) \in Nat /\ now \in Nat /\ reserved \in Nat
  BY LogTypes
<1> DEFINE p == PrunedCharges
           f == Amounts(charges)
<1>1. m \in 0..Len(charges) /\ m \in Nat
  BY <1>0, LeadingExpiredFacts
<1>2. /\ p \in Seq(Charge) /\ Len(p) = Len(charges) - m
      /\ \A i \in 1..(Len(charges) - m) : p[i] = charges[m + i]
  BY PrunedChargesShape
<1>3. Tokens(p) = SumOn(f, (m + 1)..Len(charges))
  BY <1>0, UnexpiredTokens DEF PrunedCharges
<1> HIDE DEF p, f
<1>4. ASSUME NEW k \in 1..Len(p)
      PROVE  StillLive(k) = SumOn(f, (m + k + 1)..Len(charges)) + reserved
  <2> DEFINE u == SubSeq(p, 1, k)
  <2>1. k \in Nat /\ k <= Len(p) /\ m + k \in Nat /\ m <= m + k /\ m + k <= Len(charges)
    BY <1>0, <1>1, <1>2
  <2>2. \A i \in 1..k : p[i] \in Charge
    BY <1>2, <2>1
  <2>3. u \in Seq(Charge) /\ Len(u) = k /\ \A i \in 1..k : u[i] = p[i]
    <3>1. /\ u \in Seq(Charge)
          /\ Len(u) = IF 1 <= k THEN k - 1 + 1 ELSE 0
          /\ \A i \in 1..(k - 1 + 1) : u[i] = p[1 + i - 1]
      BY <2>1, <2>2, SubSeqProperties
    <3>2. \A i \in 1..k : 1 + i - 1 = i
      OBVIOUS
    <3> HIDE DEF u
    <3> QED
      BY <2>1, <3>1, <3>2
  <2> HIDE DEF u
  <2>4. m + Len(u) <= Len(charges) /\ \A i \in 1..Len(u) : u[i] = charges[m + i]
    BY <1>2, <2>1, <2>3
  <2>5. Tokens(u) = SumOn(f, (m + 1)..(m + k))
    BY <1>1, <2>3, <2>4, SliceTokens DEF f
  <2>6. /\ SumOn(f, (m + 1)..Len(charges))
             = SumOn(f, (m + 1)..(m + k)) + SumOn(f, (m + k + 1)..Len(charges))
        /\ SumOn(f, (m + 1)..Len(charges)) \in Nat /\ SumOn(f, (m + 1)..(m + k)) \in Nat
        /\ SumOn(f, (m + k + 1)..Len(charges)) \in Nat
    BY <1>0, <1>1, <2>1, SliceSums DEF f
  <2>7. StillLive(k) = Tokens(p) + reserved - Tokens(u)
    <3>1. Live = Tokens(p) + reserved
      BY DEF Live, p
    <3>2. StillLive(k) = Live - Tokens(u)
      BY DEF StillLive, p, u
    <3>3. Tokens(p) \in Nat /\ Tokens(u) \in Nat /\ reserved \in Nat
      BY <1>0, <1>3, <2>5, <2>6
    <3> QED
      BY <3>1, <3>2, <3>3
  <2> QED
    BY <1>0, <1>3, <2>5, <2>6, <2>7
<1> QED
  BY <1>1, <1>2, <1>3, <1>4 DEF p, f

\* The Retry-After of a spent minute is exact, for a need that the minute can
\* meet at all: then enough charges have expired, and one tick before they had not.
LEMMA TokenRetryExact ==
    ASSUME LimiterTypeOK, ChargesInOrder, NEW n \in 1..(TPM - reserved), ~Reservable(now, n)
    PROVE  Reservable(now + TokenRetry(n), n) /\ ~Reservable(now + TokenRetry(n) - 1, n)
<1>0. /\ charges \in Seq(Charge) /\ Len(charges) \in Nat /\ now \in Nat /\ reserved \in Nat
      /\ Window \in Nat /\ Window > 0 /\ TPM \in Nat /\ n \in Nat /\ reserved + n <= TPM
  BY LogTypes
<1>1. \A i \in 1..Len(charges) : charges[i].t \in Nat
  BY LogTypes
<1> DEFINE L == Len(charges)
           m == LeadingExpired(charges, now)
           p == PrunedCharges
           F(j) == SumOn(Amounts(charges), (j + 1)..L)
<1>2. /\ m \in 0..L
      /\ m < L => charges[m + 1].t > now - Window
      /\ \A i \in 1..m : charges[i].t <= now - Window
  BY <1>0, <1>1, LeadingExpiredFacts
<1>3. /\ Len(p) = L - m
      /\ \A i \in 1..(L - m) : p[i] = charges[m + i]
  BY PrunedChargesShape
<1>4. Tokens(p) = F(m) /\ \A k \in 1..Len(p) : StillLive(k) = F(m + k) + reserved
  BY StillLiveFacts
<1>5. \A t \in Nat : LeadingExpired(charges, t) \in 0..L
                     /\ Tokens(Unexpired(charges, t)) = F(LeadingExpired(charges, t))
  BY UnexpiredTokens
<1>6. \A a, b \in 0..L : a <= b => F(a) \in Nat /\ F(b) \in Nat /\ F(b) <= F(a)
  <2> SUFFICES ASSUME NEW a \in 0..L, NEW b \in 0..L, a <= b
               PROVE  F(a) \in Nat /\ F(b) \in Nat /\ F(b) <= F(a)
    OBVIOUS
  <2>1. /\ F(a) = SumOn(Amounts(charges), (a + 1)..b) + F(b)
        /\ F(a) \in Nat /\ F(b) \in Nat /\ SumOn(Amounts(charges), (a + 1)..b) \in Nat
    BY <1>0, SliceSums
  <2> HIDE DEF F
  <2> QED
    BY <2>1
<1>7. F(L) = 0
  <2>1. (L + 1)..L = {}
    BY <1>0
  <2> QED
    BY <2>1, SumEmpty
<1>8. L \in Nat /\ L = Len(charges)
  BY <1>0
<1> HIDE DEF L, m, F
<1>9. ~(F(m) + reserved + n <= TPM)
  <2>1. Unexpired(charges, now) = p
    BY DEF PrunedCharges
  <2> HIDE DEF p
  <2> QED
    BY <1>4, <2>1 DEF Reservable
<1> HIDE DEF p
<1>10. m < L
  BY <1>0, <1>2, <1>7, <1>8, <1>9
<1> DEFINE enough == {k \in 1..Len(p) : StillLive(k) + n <= TPM}
           c == CHOOSE k \in enough : \A j \in enough : k <= j
<1>11. enough = {k \in 1..(L - m) : F(m + k) + reserved + n <= TPM}
  BY <1>3, <1>4
<1>12. L - m \in enough
  <2>1. L - m \in 1..(L - m) /\ m + (L - m) = L
    BY <1>2, <1>8, <1>10
  <2> HIDE DEF enough
  <2> QED
    BY <1>0, <1>7, <1>11, <2>1
<1>13. c \in enough /\ \A j \in enough : c <= j
  <2>1. enough \in SUBSET Nat
    BY <1>2, <1>8, <1>11
  <2>2. \E k \in enough : \A j \in enough : k <= j
    <3> HIDE DEF enough
    <3> QED
      BY <1>12, <2>1, LeastNatural
  <2> HIDE DEF enough
  <2> QED
    BY <2>2
<1>14. TokenRetry(n) = MaxOf(1, p[c].t + Window - now)
  <2>1. enough # {}
    BY <1>12
  <2> QED
    BY <2>1 DEF TokenRetry, p
<1> HIDE DEF c, enough
<1>15. /\ c \in 1..(L - m) /\ F(m + c) + reserved + n <= TPM
       /\ \A j \in 1..(L - m) : j < c => ~(F(m + j) + reserved + n <= TPM)
  BY <1>2, <1>8, <1>11, <1>13
<1>16. /\ m + c \in 1..L /\ m + 1 \in 1..L /\ m + 1 <= m + c /\ p[c] = charges[m + c]
       /\ m \in Nat /\ c \in Nat
  BY <1>2, <1>3, <1>8, <1>10, <1>15
<1>17. /\ charges[m + c].t \in Nat /\ charges[m + 1].t \in Nat
       /\ charges[m + 1].t <= charges[m + c].t /\ charges[m + 1].t > now - Window
  BY <1>1, <1>2, <1>8, <1>10, <1>16 DEF ChargesInOrder
<1> DEFINE e == charges[m + c].t
           T == now + TokenRetry(n)
           V == now + TokenRetry(n) - 1
<1>18. e + Window - now >= 1 /\ e \in Nat
  BY <1>0, <1>17
<1>19. T = e + Window /\ T \in Nat /\ V = T - 1 /\ V \in Nat
  <2>1. TokenRetry(n) = e + Window - now
    BY <1>0, <1>14, <1>16, <1>18 DEF MaxOf
  <2> HIDE DEF e
  <2> QED
    BY <1>0, <1>18, <2>1
<1>20. e = charges[m + c].t
  OBVIOUS
<1> HIDE DEF e, T, V
<1>21. m + c <= LeadingExpired(charges, T)
  <2>1. ASSUME NEW i \in 1..(m + c) PROVE charges[i].t <= T - Window
    <3>1. i \in 1..L /\ i <= m + c
      BY <1>8, <1>16
    <3>2. charges[i].t <= e /\ charges[i].t \in Nat
      BY <1>1, <1>8, <1>16, <1>20, <3>1 DEF ChargesInOrder
    <3>3. T - Window = e
      BY <1>0, <1>18, <1>19
    <3> QED
      BY <3>2, <3>3
  <2>2. m + c \in 0..Len(charges)
    BY <1>8, <1>16
  <2> QED
    BY <1>0, <1>1, <1>19, <2>1, <2>2, ExpiredBounds
<1>22. LeadingExpired(charges, V) < m + c
  <2>1. charges[m + c].t > V - Window
    <3>1. V - Window = e - 1 /\ e > e - 1
      BY <1>0, <1>18, <1>19
    <3> QED
      BY <1>20, <3>1
  <2>2. m + c \in 1..Len(charges)
    BY <1>8, <1>16
  <2> QED
    BY <1>0, <1>1, <1>19, <2>1, <2>2, ExpiredBounds
<1>23. Reservable(T, n)
  <2> DEFINE K == LeadingExpired(charges, T)
  <2>1. K \in 0..L /\ Tokens(Unexpired(charges, T)) = F(K) /\ m + c <= K /\ m + c \in 0..L
    BY <1>5, <1>8, <1>16, <1>19, <1>21
  <2> HIDE DEF K
  <2>2. F(m + c) \in Nat /\ F(K) \in Nat /\ F(K) <= F(m + c)
    BY <1>6, <2>1
  <2>3. F(K) + reserved + n <= TPM
    BY <1>0, <1>15, <2>2
  <2> QED
    BY <2>1, <2>3 DEF Reservable
<1>24. ~Reservable(V, n)
  <2> DEFINE J == LeadingExpired(charges, V)
  <2>1. J \in 0..L /\ Tokens(Unexpired(charges, V)) = F(J) /\ J < m + c
    BY <1>5, <1>8, <1>19, <1>22
  <2> HIDE DEF J
  <2>2. ~(F(J) + reserved + n <= TPM)
    <3>1. CASE J <= m
      <4>1. F(J) \in Nat /\ F(m) \in Nat /\ F(m) <= F(J)
        BY <1>2, <1>6, <2>1, <3>1
      <4> QED
        BY <1>0, <1>9, <4>1
    <3>2. CASE ~(J <= m)
      <4>1. J - m \in 1..(L - m) /\ J - m < c /\ m + (J - m) = J
        BY <1>8, <1>15, <1>16, <2>1, <3>2
      <4> QED
        BY <1>15, <4>1
    <3> QED
      BY <3>1, <3>2
  <2> QED
    BY <2>1, <2>2 DEF Reservable
<1> QED
  BY <1>23, <1>24 DEF T, V

\* What prune leaves of the charges is in their order.
LEMMA PrunedInOrder ==
    ASSUME LimiterTypeOK, ChargesInOrder
    PROVE  /\ \A i \in 1..Len(PrunedCharges) : PrunedCharges[i].t <= now
           /\ \A i, j \in 1..Len(PrunedCharges) : i <= j => PrunedCharges[i].t <= PrunedCharges[j].t
<1> DEFINE m == LeadingExpired(charges, now)
           p == PrunedCharges
<1>1. m \in 0..Len(charges) /\ Len(charges) \in Nat
  BY LogTypes, UnexpiredTokens
<1>2. /\ Len(p) = Len(charges) - m
      /\ \A i \in 1..(Len(charges) - m) : p[i] = charges[m + i]
  BY PrunedChargesShape
<1> HIDE DEF m, p
<1>3. ASSUME NEW i \in 1..Len(p) PROVE p[i] = charges[m + i] /\ m + i \in 1..Len(charges)
  BY <1>1, <1>2
<1>4. ASSUME NEW i \in 1..Len(p) PROVE p[i].t <= now
  BY <1>3 DEF ChargesInOrder
<1>5. ASSUME NEW i \in 1..Len(p), NEW j \in 1..Len(p), i <= j PROVE p[i].t <= p[j].t
  <2>1. m + i <= m + j
    BY <1>1, <1>2, <1>5
  <2> QED
    BY <1>3, <2>1 DEF ChargesInOrder
<1> QED
  BY <1>4, <1>5 DEF p

\* A charge is appended at the present time.
LEMMA AppendInOrder ==
    ASSUME LimiterTypeOK, ChargesInOrder, now' = now,
           NEW e \in Charge, e.t = now, charges' = Append(PrunedCharges, e)
    PROVE  ChargesInOrder'
<1> DEFINE p == PrunedCharges
           a == Append(p, e)
<1>1. p \in Seq(Charge) /\ Len(p) \in Nat /\ now \in Nat
  BY LogTypes, PrunedChargesShape
<1>2. /\ \A i \in 1..Len(p) : p[i].t <= now
      /\ \A i, j \in 1..Len(p) : i <= j => p[i].t <= p[j].t
  BY PrunedInOrder
<1> HIDE DEF p
<1>3. /\ Len(a) = Len(p) + 1 /\ a[Len(p) + 1] = e
      /\ \A i \in 1..Len(p) : a[i] = p[i]
  BY <1>1, AppendProperties
<1>4. charges' = a
  BY DEF p
<1> HIDE DEF a
<1>5. ASSUME NEW i \in 1..Len(a) PROVE a[i].t <= now
  <2>1. i \in 1..Len(p) \/ i = Len(p) + 1
    BY <1>1, <1>3
  <2> QED
    BY <1>1, <1>2, <1>3, <2>1
<1>6. ASSUME NEW i \in 1..Len(a), NEW j \in 1..Len(a), i <= j PROVE a[i].t <= a[j].t
  <2>1. CASE j = Len(p) + 1
    BY <1>3, <1>5, <2>1
  <2>2. CASE j # Len(p) + 1
    <3>1. i \in 1..Len(p) /\ j \in 1..Len(p)
      BY <1>1, <1>3, <1>6, <2>2
    <3> QED
      BY <1>2, <1>3, <1>6, <3>1
  <2> QED
    BY <2>1, <2>2
<1> QED
  BY <1>4, <1>5, <1>6 DEF ChargesInOrder

\* prune only shortens the log of admissions.
LEMMA PrunedLogShorter ==
    ASSUME LimiterTypeOK
    PROVE  Len(PrunedLog) \in Nat /\ Len(PrunedLog) <= Len(log)
<1>1. /\ LeadingExpired(log, now) \in 0..Len(log)
      /\ Len(Unexpired(log, now)) = Len(log) - LeadingExpired(log, now)
  BY LogTypes, UnexpiredFacts
<1>2. PrunedLog = Unexpired(log, now) /\ Len(log) \in Nat
  BY LogTypes DEF PrunedLog
<1> QED
  BY <1>1, <1>2

\* So does the return of an admission that does not count.
LEMMA LogShrinks ==
    ASSUME Exactness, NEW r \in Calls
    PROVE  /\ Len(WithoutEntry(PrunedLog, r)) \in Nat
           /\ Len(WithoutEntry(PrunedLog, r)) <= Len(PrunedLog)
<1> DEFINE q == PrunedLog
           found == {i \in 1..Len(q) : q[i].seq = r}
           n == CHOOSE i \in found : \A j \in found : i <= j
           w == WithoutEntry(q, r)
<1>1. q \in Seq(LogEntry) /\ Len(q) \in Nat
  BY PrunedTypes DEF Exactness
<1> HIDE DEF q
<1>2. Len(w) \in Nat /\ Len(w) <= Len(q)
  <2>1. CASE found = {}
    BY <1>1, <2>1 DEF WithoutEntry
  <2>2. CASE found # {}
    <3>1. w = SubSeq(q, 1, n - 1) \o SubSeq(q, n + 1, Len(q))
      BY <2>2 DEF WithoutEntry
    <3>2. n \in found
      <4>1. found \in SUBSET Nat
        OBVIOUS
      <4>2. \E i \in found : \A j \in found : i <= j
        <5> HIDE DEF found
        <5> QED
          BY <2>2, <4>1, LeastNatural
      <4> QED
        BY <4>2
    <3>3. n \in 1..Len(q)
      BY <3>2
    <3> HIDE DEF n, w
    <3>4. SubSeq(q, 1, n - 1) \in Seq(LogEntry) /\ Len(SubSeq(q, 1, n - 1)) = n - 1
      BY <1>1, <3>3, SubSeqProperties
    <3>5. SubSeq(q, n + 1, Len(q)) \in Seq(LogEntry) /\ Len(SubSeq(q, n + 1, Len(q))) = Len(q) - n
      BY <1>1, <3>3, SubSeqProperties
    <3>6. Len(w) = (n - 1) + (Len(q) - n)
      BY <3>1, <3>4, <3>5, ConcatProperties
    <3> QED
      BY <1>1, <3>3, <3>6
  <2> QED
    BY <2>1, <2>2
<1> QED
  BY <1>2 DEF q, w

\* The Retry-After of a refusal is exact, for any number of requests, any
\* limits and any clock, whatever the charges: RetryAfterExact.
THEOREM RetryAlwaysExact == LimiterSpec => []RetryAfterExact
<1>1. LimiterInit => RetryInv
  <2> SUFFICES ASSUME LimiterInit PROVE ChargesInOrder /\ LogBounded
    BY ExactnessInit DEF RetryInv
  <2>1. Len(charges) = 0 /\ Len(log) = 0 /\ RPM \in Nat
    BY LimiterAssumption DEF LimiterInit
  <2> QED
    BY <2>1 DEF ChargesInOrder, LogBounded
<1>2. RetryInv /\ [LimiterNext]_limiterVars => RetryInv'
  <2> SUFFICES ASSUME Exactness, ChargesInOrder, LogBounded, [LimiterNext]_limiterVars
               PROVE  ChargesInOrder' /\ LogBounded'
    BY ExactnessStep DEF RetryInv
  <2>0. /\ LimiterTypeOK /\ RPM \in Nat /\ Len(log) \in Nat /\ now \in Nat
        /\ \A i \in 1..Len(charges) : charges[i].t \in Nat
        /\ PrunedLog \in Seq(LogEntry)
    BY LogTypes, PrunedTypes DEF Exactness, Lending
  <2>1. ASSUME now' = now, charges' = PrunedCharges PROVE ChargesInOrder'
    BY <2>0, <2>1, PrunedInOrder DEF ChargesInOrder
  <2>2. ASSUME log' = PrunedLog PROVE LogBounded'
    BY <2>0, <2>2, PrunedLogShorter DEF LogBounded
  <2>3. ASSUME NEW r \in Calls, Admit(r) PROVE ChargesInOrder' /\ LogBounded'
    <3>1. ChargesInOrder'
      BY <2>1, <2>3 DEF Admit
    <3>2. Len(log') = Len(PrunedLog) + 1 /\ Len(PrunedLog) \in Nat
      <4> DEFINE q == PrunedLog
      <4>1. q \in Seq(LogEntry) /\ [t |-> now, seq |-> r] \in LogEntry
        BY <2>0 DEF LogEntry
      <4>2. log' = Append(q, [t |-> now, seq |-> r])
        BY <2>3 DEF Admit
      <4> HIDE DEF q
      <4>3. Len(log') = Len(q) + 1 /\ Len(q) \in Nat
        BY <4>1, <4>2, AppendProperties
      <4> QED
        BY <4>3 DEF q
    <3>3. RPM > 0 => ~(Len(PrunedLog) >= RPM)
      BY <2>3 DEF Admit, RateFull
    <3> QED
      BY <2>0, <3>1, <3>2, <3>3 DEF LogBounded
  <2>4. ASSUME NEW r \in Calls, AdmitRefused(r) PROVE ChargesInOrder' /\ LogBounded'
    BY <2>1, <2>2, <2>4 DEF AdmitRefused, Prune
  <2>5. ASSUME NEW r \in Calls, Reserve(r) PROVE ChargesInOrder' /\ LogBounded'
    BY <2>1, <2>2, <2>5 DEF Reserve, Prune
  <2>6. ASSUME NEW r \in Calls, ReserveRefused(r) PROVE ChargesInOrder' /\ LogBounded'
    BY <2>1, <2>2, <2>6 DEF ReserveRefused, Prune
  <2>7. ASSUME NEW r \in Calls, Settle(r) PROVE ChargesInOrder' /\ LogBounded'
    <3>1. PICK row \in Rows(r) : SettleAs(r, row[1], row[2])
      BY <2>7 DEF Settle
    <3>2. row[2] \in Nat
      BY RowFacts
    <3>3. CASE row[2] > 0
      <4>1. /\ charges' = Append(PrunedCharges, [t |-> now, amount |-> row[2]])
            /\ now' = now
        BY <3>1, <3>3 DEF SettleAs
      <4>2. [t |-> now, amount |-> row[2]] \in Charge
        BY <2>0, <3>2 DEF Charge
      <4>3. ChargesInOrder'
        BY <2>0, <4>1, <4>2, AppendInOrder
      <4>4. log' = SettledLog(r, row[1])
        BY <3>1 DEF SettleAs
      <4>5. LogBounded'
        BY <2>0, <4>4, PrunedLogShorter, LogShrinks DEF SettledLog, LogBounded
      <4> QED
        BY <4>3, <4>5
    <3>4. CASE ~(row[2] > 0)
      <4>1. charges' = PrunedCharges /\ now' = now
        BY <3>1, <3>4 DEF SettleAs
      <4>2. log' = SettledLog(r, row[1])
        BY <3>1 DEF SettleAs
      <4>3. LogBounded'
        BY <2>0, <4>2, PrunedLogShorter, LogShrinks DEF SettledLog, LogBounded
      <4> QED
        BY <2>1, <4>1, <4>3
    <3> QED
      BY <3>3, <3>4
  <2>8. CASE Counters
    BY <2>1, <2>2, <2>8 DEF Counters, Prune
  <2>9. CASE Tick
    BY <2>0, <2>9 DEF Tick, ChargesInOrder, LogBounded
  <2>10. CASE UNCHANGED limiterVars
    BY <2>10 DEF limiterVars, ChargesInOrder, LogBounded
  <2> QED
    BY <2>3, <2>4, <2>5, <2>6, <2>7, <2>8, <2>9, <2>10 DEF LimiterNext
<1>3. RetryInv => RetryAfterExact
  BY RateRetryExact, TokenRetryExact DEF RetryInv, Exactness, Lending, RetryAfterExact
<1> QED
  BY <1>1, <1>2, <1>3, PTL DEF LimiterSpec

=============================================================================
