-------------------------- MODULE SlotQueueProofs ---------------------------
(***************************************************************************)
(* Theorems about SlotQueue, for any finite set of requests and any engine.*)
(***************************************************************************)
EXTENDS SlotQueue, FiniteSetTheorems, SequenceTheorems, TLAPS

(***************************************************************************)
(* The line: its oldest members, what is left without them, and what is    *)
(* left without one that gave up.                                          *)
(***************************************************************************)

\* fill never hands over more than there are waiters.
LEMMA FillCountBounds ==
    ASSUME NEW q \in Seq(Requests), NEW n \in Int, slots \in Nat
    PROVE  FillCount(n, q) \in 0..Len(q)
BY DEF FillCount, Limit

\* The k oldest of a line without repetitions are k requests.
LEMMA OldestCardinality ==
    ASSUME NEW q \in Seq(Requests), Distinct(q), NEW k \in 0..Len(q)
    PROVE  /\ IsFiniteSet(Oldest(q, k))
           /\ Cardinality(Oldest(q, k)) = k
<1> DEFINE f == [i \in 1..k |-> q[i]]
<1>1. f \in Bijection(1..k, Oldest(q, k))
  BY DEF Bijection, Injection, Surjection, IsInjective, Oldest, Distinct
<1>2. ExistsBijection(1..k, Oldest(q, k))
  BY <1>1 DEF ExistsBijection
<1> QED
  BY <1>2, FS_CountingElements, FS_NatBijection, k \in Nat

\* What is left of the line after its k oldest.
LEMMA AfterOldestFacts ==
    ASSUME NEW q \in Seq(Requests), Distinct(q), NEW k \in 0..Len(q)
    PROVE  /\ AfterOldest(q, k) \in Seq(Requests)
           /\ Len(AfterOldest(q, k)) = Len(q) - k
           /\ \A i \in 1..(Len(q) - k) : AfterOldest(q, k)[i] = q[k + i]
           /\ Distinct(AfterOldest(q, k))
           /\ Members(AfterOldest(q, k)) = Members(q) \ Oldest(q, k)
<1> DEFINE t == AfterOldest(q, k)
<1>1. /\ t \in Seq(Requests)
      /\ Len(t) = Len(q) - k
      /\ \A i \in 1..(Len(q) - k) : t[i] = q[k + i]
  <2>1. \A i \in (k + 1)..Len(q) : q[i] \in Requests
    OBVIOUS
  <2>2. k + 1 \in Int /\ Len(q) \in Int
    OBVIOUS
  <2>3. /\ SubSeq(q, k + 1, Len(q)) \in Seq(Requests)
        /\ Len(SubSeq(q, k + 1, Len(q))) = IF k + 1 <= Len(q) THEN Len(q) - (k + 1) + 1 ELSE 0
        /\ \A i \in 1..(Len(q) - (k + 1) + 1) : SubSeq(q, k + 1, Len(q))[i] = q[(k + 1) + i - 1]
    BY <2>1, <2>2, SubSeqProperties
  <2>4. t = SubSeq(q, k + 1, Len(q))
    BY DEF AfterOldest
  <2> HIDE DEF t
  <2>5. \A i \in 1..(Len(q) - k) : (k + 1) + i - 1 = k + i
    OBVIOUS
  <2> QED
    BY <2>3, <2>4, <2>5
<1> HIDE DEF t
<1>2. Distinct(t)
  <2> SUFFICES ASSUME NEW x \in 1..Len(t), NEW y \in 1..Len(t), t[x] = t[y]
               PROVE  x = y
    BY DEF Distinct
  <2>1. q[k + x] = q[k + y] /\ k + x \in 1..Len(q) /\ k + y \in 1..Len(q)
    BY <1>1
  <2> QED
    BY <2>1 DEF Distinct
<1>3. Members(t) \subseteq Members(q) \ Oldest(q, k)
  <2> SUFFICES ASSUME NEW x \in 1..Len(t)
               PROVE  t[x] \in Members(q) \ Oldest(q, k)
    BY DEF Members
  <2>1. t[x] = q[k + x] /\ k + x \in 1..Len(q) /\ k + x > k
    BY <1>1
  <2> QED
    BY <2>1 DEF Members, Oldest, Distinct
<1>4. Members(q) \ Oldest(q, k) \subseteq Members(t)
  <2> SUFFICES ASSUME NEW j \in 1..Len(q), q[j] \notin Oldest(q, k)
               PROVE  q[j] \in Members(t)
    BY DEF Members
  <2>1. j > k
    BY DEF Oldest
  <2>2. j - k \in 1..(Len(q) - k)
    BY <2>1
  <2>3. t[j - k] = q[j]
    BY <2>2, <1>1
  <2> QED
    BY <2>2, <2>3, <1>1 DEF Members
<1> QED
  BY <1>1, <1>2, <1>3, <1>4 DEF t

\* A newcomer at the end of the line.
LEMMA AppendedFacts ==
    ASSUME NEW q \in Seq(Requests), Distinct(q), NEW r \in Requests, r \notin Members(q)
    PROVE  /\ q \o <<r>> \in Seq(Requests)
           /\ Distinct(q \o <<r>>)
           /\ Members(q \o <<r>>) = Members(q) \cup {r}
<1> DEFINE t == q \o <<r>>
<1>1. /\ t \in Seq(Requests)
      /\ Len(t) = Len(q) + 1
      /\ \A i \in 1..Len(q) : t[i] = q[i]
      /\ t[Len(q) + 1] = r
  OBVIOUS
<1> HIDE DEF t
<1>2. Distinct(t)
  BY <1>1 DEF Distinct, Members
<1>3. Members(t) = Members(q) \cup {r}
  BY <1>1 DEF Members
<1> QED
  BY <1>1, <1>2, <1>3 DEF t

\* The line without the request that stood at place i.
LEMMA DropAtFacts ==
    ASSUME NEW q \in Seq(Requests), Distinct(q), NEW i \in 1..Len(q)
    PROVE  /\ DropAt(q, i) \in Seq(Requests)
           /\ Distinct(DropAt(q, i))
           /\ Members(DropAt(q, i)) = Members(q) \ {q[i]}
<1> DEFINE a == SubSeq(q, 1, i - 1)
           b == SubSeq(q, i + 1, Len(q))
           t == a \o b
<1>1. /\ a \in Seq(Requests)
      /\ Len(a) = i - 1
      /\ \A j \in 1..(i - 1) : a[j] = q[j]
  BY SubSeqProperties
<1>2. /\ b \in Seq(Requests)
      /\ Len(b) = Len(q) - i
      /\ \A j \in 1..(Len(q) - i) : b[j] = q[i + j]
  BY SubSeqProperties
<1> HIDE DEF a, b
<1>3. /\ t \in Seq(Requests)
      /\ Len(t) = Len(q) - 1
      /\ \A j \in 1..(Len(q) - 1) : t[j] = IF j < i THEN q[j] ELSE q[j + 1]
  <2>1. /\ t \in Seq(Requests)
        /\ Len(t) = Len(a) + Len(b)
        /\ \A j \in 1..(Len(a) + Len(b)) :
              t[j] = IF j <= Len(a) THEN a[j] ELSE b[j - Len(a)]
    BY <1>1, <1>2, ConcatProperties
  <2> HIDE DEF t
  <2>2. Len(t) = Len(q) - 1
    BY <2>1, <1>1, <1>2
  <2>3. ASSUME NEW j \in 1..(Len(q) - 1), j < i
        PROVE  t[j] = q[j]
    BY <2>1, <2>3, <1>1, <1>2, SMTT(60)
  <2>4. ASSUME NEW j \in 1..(Len(q) - 1), ~(j < i)
        PROVE  t[j] = q[j + 1]
    <3>1. j \in 1..(Len(a) + Len(b)) /\ ~(j <= Len(a))
      BY <2>4, <1>1, <1>2
    <3>2. t[j] = b[j - Len(a)]
      BY <2>1, <3>1
    <3>3. j - (i - 1) \in 1..(Len(q) - i) /\ i + (j - (i - 1)) = j + 1
      BY <2>4
    <3> QED
      BY <3>2, <3>3, <1>1, <1>2
  <2> QED
    BY <2>1, <2>2, <2>3, <2>4
<1>4. t = DropAt(q, i)
  BY DEF DropAt, a, b
<1> HIDE DEF t
<1>5. Distinct(t)
  BY <1>3 DEF Distinct
<1>6. Members(t) \subseteq Members(q) \ {q[i]}
  BY <1>3 DEF Members, Distinct
<1>7. Members(q) \ {q[i]} \subseteq Members(t)
  <2> SUFFICES ASSUME NEW j \in 1..Len(q), q[j] # q[i]
               PROVE  q[j] \in Members(t)
    BY DEF Members
  <2>1. CASE j < i
    BY <2>1, <1>3 DEF Members
  <2>2. CASE j > i
    <3>1. j - 1 \in 1..(Len(q) - 1) /\ t[j - 1] = q[j]
      BY <2>2, <1>3
    <3> QED
      BY <3>1, <1>3 DEF Members
  <2> QED
    BY <2>1, <2>2
<1> QED
  BY <1>3, <1>4, <1>5, <1>6, <1>7

-----------------------------------------------------------------------------
(***************************************************************************)
(* What fill does to a line that is exact: it serves k unserved requests   *)
(* and leaves the others, and a line is left only when a slot is spent.    *)
(***************************************************************************)
LEMMA FillFacts ==
    ASSUME QueueTypeOK, LineExact, NEW n \in Int, NEW k, k = FillCount(n, waiters)
    PROVE  /\ k \in 0..Len(waiters)
           /\ Oldest(waiters, k) \subseteq Unserved
           /\ IsFiniteSet(Oldest(waiters, k))
           /\ Cardinality(Oldest(waiters, k)) = k
           /\ AfterOldest(waiters, k) \in Seq(Requests)
           /\ Distinct(AfterOldest(waiters, k))
           /\ Members(AfterOldest(waiters, k)) = Unserved \ Oldest(waiters, k)
           /\ AfterOldest(waiters, k) # <<>> => n + k >= 1
<1>1. waiters \in Seq(Requests) /\ slots \in Nat /\ Distinct(waiters)
  BY QueueAssumption DEF QueueTypeOK, LineExact
<1>2. k \in 0..Len(waiters)
  BY <1>1, FillCountBounds
<1>3. Oldest(waiters, k) \subseteq Members(waiters)
  BY <1>2 DEF Oldest, Members
<1>4. ASSUME AfterOldest(waiters, k) # <<>>
      PROVE  n + k >= 1
  <2>1. k < Len(waiters)
    BY <1>1, <1>2, <1>4, AfterOldestFacts
  <2> QED
    BY <1>1, <2>1 DEF FillCount, Limit
<1> QED
  BY <1>1, <1>2, <1>3, <1>4, OldestCardinality, AfterOldestFacts DEF LineExact

\* Slots handed to requests that had none add up.
LEMMA DisjointCount ==
    ASSUME NEW S, NEW T, IsFiniteSet(S), IsFiniteSet(T), S \cap T = {}
    PROVE  /\ IsFiniteSet(S \cup T)
           /\ Cardinality(S \cup T) = Cardinality(S) + Cardinality(T)
<1>1. Cardinality(S \cap T) = 0
  BY FS_EmptySet
<1>2. Cardinality(S) \in Nat /\ Cardinality(T) \in Nat
  BY FS_CardinalityType
<1>3. /\ IsFiniteSet(S \cup T)
      /\ Cardinality(S \cup T) = Cardinality(S) + Cardinality(T) - Cardinality(S \cap T)
  BY FS_Union
<1> QED
  BY <1>1, <1>2, <1>3

\* Owners are finitely many, and none of them is unserved.
LEMMA OwnersFacts ==
    /\ IsFiniteSet(Owners)
    /\ Cardinality(Owners) \in Nat
    /\ Owners \cap Unserved = {}
<1>1. Owners \in SUBSET Requests
  BY DEF Owners
<1>2. IsFiniteSet(Owners)
  BY <1>1, QueueAssumption, FS_Subset
<1>3. Owners \cap Unserved = {}
  BY DEF Owners, Unserved
<1> QED
  BY <1>2, <1>3, FS_CardinalityType

(***************************************************************************)
(* The invariant holds at first, and every step keeps it.  One lemma per   *)
(* step that calls fill; the others move one request.                      *)
(***************************************************************************)
LEMMA QueueInvInit == QueueInit => QueueInv
<1> SUFFICES ASSUME QueueInit PROVE QueueInv
  OBVIOUS
<1>1. QueueTypeOK
  BY QueueAssumption DEF QueueInit, QueueTypeOK, Places, Reasons
<1>2. Owners = {} /\ Unserved = {}
  BY DEF QueueInit, Owners, Unserved
<1>3. SlotAccounting
  BY <1>2, FS_EmptySet DEF SlotAccounting, QueueInit
<1>4. LineExact /\ NeverStranded /\ IdleFresh
  BY <1>2 DEF LineExact, NeverStranded, IdleFresh, Distinct, Members, QueueInit
<1> QED
  BY <1>1, <1>3, <1>4 DEF QueueInv

(***************************************************************************)
(* The shape all steps that call fill share: from the owners B that keep   *)
(* their slots, the k oldest become owners and new requests N may too.     *)
(***************************************************************************)
LEMMA FillKeepsInv ==
    ASSUME QueueInv, NEW n \in Int, NEW taken \in Nat, NEW joining \in Seq(Requests),
           Fill(n, taken, joining),
           NEW k, k = FillCount(n, waiters),
           NEW B, IsFiniteSet(B), B \cap Unserved = {},
           n + taken = Cardinality(B),
           Owners' = B \cup Oldest(waiters, k),
           Distinct(AfterOldest(waiters, k) \o joining),
           AfterOldest(waiters, k) \o joining \in Seq(Requests),
           Members(AfterOldest(waiters, k) \o joining) = Unserved',
           joining # <<>> => n + k >= 1
    PROVE  /\ SlotAccounting'
           /\ inFlight' \in Nat
           /\ waiters' \in Seq(Requests)
           /\ LineExact'
           /\ NeverStranded'
<1> DEFINE H == Oldest(waiters, k)
<1>1. /\ k \in 0..Len(waiters)
      /\ H \subseteq Unserved /\ IsFiniteSet(H) /\ Cardinality(H) = k
      /\ AfterOldest(waiters, k) \in Seq(Requests)
      /\ AfterOldest(waiters, k) # <<>> => n + k >= 1
  BY FillFacts DEF QueueInv
<1>2. B \cap H = {}
  BY <1>1
<1>3. IsFiniteSet(B \cup H) /\ Cardinality(B \cup H) = Cardinality(B) + k
  BY <1>1, <1>2, DisjointCount, ZenonT(60)
<1>4. Cardinality(B) \in Nat
  BY FS_CardinalityType
<1>5. inFlight' = n + k + taken
  BY DEF Fill
<1>6. waiters' = AfterOldest(waiters, k) \o joining
  BY DEF Fill
<1>7. k \in Nat
  BY <1>1, waiters \in Seq(Requests) DEF QueueInv, QueueTypeOK
<1>8. inFlight' = Cardinality(Owners') /\ inFlight' \in Nat
  BY <1>3, <1>4, <1>5, <1>7
<1>9. SlotAccounting'
  BY <1>8 DEF SlotAccounting
<1>10. LineExact'
  BY <1>6 DEF LineExact, Distinct, Members
<1>11. NeverStranded'
  <2> SUFFICES ASSUME waiters' # <<>> PROVE Owners' # {}
    BY DEF NeverStranded
  <2>1. n + k >= 1
    BY <1>1, <1>6, ConcatEqualIffEmpty
  <2>2. inFlight' # 0
    BY <2>1, <1>5, <1>7
  <2> QED
    BY <1>8, <2>2, FS_EmptySet
<1> QED
  BY <1>6, <1>8, <1>9, <1>10, <1>11

\* A request is given a slot at once.
LEMMA AcquireNowKeepsInv ==
    ASSUME QueueInv, NEW r \in Requests, AcquireNow(r)
    PROVE  QueueInv'
<1> DEFINE k == FillCount(inFlight, waiters)
           H == Oldest(waiters, k)
<1>0. QueueTypeOK /\ SlotAccounting /\ LineExact /\ IdleFresh
  BY DEF QueueInv
<1>1. /\ inFlight \in Nat /\ k \in 0..Len(waiters) /\ H \subseteq Unserved
      /\ AfterOldest(waiters, k) \in Seq(Requests)
      /\ Distinct(AfterOldest(waiters, k))
      /\ Members(AfterOldest(waiters, k)) = Unserved \ H
  BY <1>0, FillFacts, inFlight \in Int DEF QueueTypeOK
<1>2. AfterOldest(waiters, k) \o <<>> = AfterOldest(waiters, k)
  BY <1>1, ConcatEmptySeq
<1>3. r \notin Owners /\ r \notin Unserved /\ r \notin H
  BY <1>1 DEF AcquireNow, Owners, Unserved
<1>4. /\ place' = [place EXCEPT ![r] = "holding"]
      /\ why' = [why EXCEPT ![r] = "none"]
      /\ handed' = handed \cup H
      /\ UNCHANGED <<slots, gone>>
      /\ Fill(inFlight, 1, <<>>)
  BY DEF AcquireNow, Goes, Fill
<1> HIDE DEF H, k
<1>5. Owners' = (Owners \cup {r}) \cup H
  BY <1>0, <1>1, <1>3, <1>4 DEF Owners, Unserved, QueueTypeOK, Places
<1>6. Unserved' = Unserved \ H
  BY <1>0, <1>1, <1>3, <1>4 DEF Unserved, QueueTypeOK, Places
<1>7. /\ IsFiniteSet(Owners \cup {r})
      /\ Cardinality(Owners \cup {r}) = inFlight + 1
      /\ (Owners \cup {r}) \cap Unserved = {}
  BY <1>0, <1>3, OwnersFacts, FS_AddElement DEF SlotAccounting
<1>8. SlotAccounting' /\ inFlight' \in Nat /\ waiters' \in Seq(Requests)
      /\ LineExact' /\ NeverStranded'
  BY <1>1, <1>2, <1>4, <1>5, <1>6, <1>7, FillKeepsInv, inFlight \in Int, 1 \in Nat,
     <<>> \in Seq(Requests) DEF H, k
<1>9. QueueTypeOK' /\ IdleFresh'
  BY <1>0, <1>1, <1>3, <1>4, <1>8 DEF QueueTypeOK, IdleFresh, Places, Reasons, Unserved
<1> QED
  BY <1>8, <1>9 DEF QueueInv

\* A request finds the line full; the line was served all the same.
LEMMA AcquireRefusedKeepsInv ==
    ASSUME QueueInv, NEW r \in Requests, AcquireRefused(r)
    PROVE  QueueInv'
<1> DEFINE k == FillCount(inFlight, waiters)
           H == Oldest(waiters, k)
<1>0. QueueTypeOK /\ SlotAccounting /\ LineExact /\ IdleFresh
  BY DEF QueueInv
<1>1. /\ inFlight \in Nat /\ k \in 0..Len(waiters) /\ H \subseteq Unserved
      /\ AfterOldest(waiters, k) \in Seq(Requests)
      /\ Distinct(AfterOldest(waiters, k))
      /\ Members(AfterOldest(waiters, k)) = Unserved \ H
  BY <1>0, FillFacts, inFlight \in Int DEF QueueTypeOK
<1>2. AfterOldest(waiters, k) \o <<>> = AfterOldest(waiters, k)
  BY <1>1, ConcatEmptySeq
<1>3. r \notin Owners /\ r \notin Unserved /\ r \notin H
  BY <1>1 DEF AcquireRefused, Owners, Unserved
<1>4. /\ place' = [place EXCEPT ![r] = "done"]
      /\ why' = [why EXCEPT ![r] = "rejected"]
      /\ handed' = handed \cup H
      /\ UNCHANGED <<slots, gone>>
      /\ Fill(inFlight, 0, <<>>)
  BY DEF AcquireRefused, Goes, Fill
<1> HIDE DEF H, k
<1>5. Owners' = Owners \cup H
  BY <1>0, <1>1, <1>3, <1>4 DEF Owners, Unserved, QueueTypeOK, Places
<1>6. Unserved' = Unserved \ H
  BY <1>0, <1>1, <1>3, <1>4 DEF Unserved, QueueTypeOK, Places
<1>7. IsFiniteSet(Owners) /\ inFlight + 0 = Cardinality(Owners) /\ Owners \cap Unserved = {}
  BY <1>0, OwnersFacts DEF SlotAccounting
<1>8. SlotAccounting' /\ inFlight' \in Nat /\ waiters' \in Seq(Requests)
      /\ LineExact' /\ NeverStranded'
  BY <1>1, <1>2, <1>4, <1>5, <1>6, <1>7, FillKeepsInv, inFlight \in Int, 0 \in Nat,
     <<>> \in Seq(Requests) DEF H, k
<1>9. QueueTypeOK' /\ IdleFresh'
  BY <1>0, <1>1, <1>3, <1>4, <1>8 DEF QueueTypeOK, IdleFresh, Places, Reasons, Unserved
<1> QED
  BY <1>8, <1>9 DEF QueueInv

\* A request joins the line, behind what fill left of it.
LEMMA AcquireWaitsKeepsInv ==
    ASSUME QueueInv, NEW r \in Requests, AcquireWaits(r)
    PROVE  QueueInv'
<1> DEFINE k == FillCount(inFlight, waiters)
           H == Oldest(waiters, k)
           rest == AfterOldest(waiters, k)
<1>0. QueueTypeOK /\ SlotAccounting /\ LineExact /\ IdleFresh
  BY DEF QueueInv
<1>1. /\ inFlight \in Nat /\ k \in 0..Len(waiters) /\ H \subseteq Unserved
      /\ rest \in Seq(Requests)
      /\ Distinct(rest)
      /\ Members(rest) = Unserved \ H
  BY <1>0, FillFacts, inFlight \in Int DEF QueueTypeOK
<1>2. r \notin Owners /\ r \notin Unserved /\ r \notin H /\ r \notin handed
  BY <1>0, <1>1 DEF AcquireWaits, Owners, Unserved, IdleFresh
<1>3. /\ rest \o <<r>> \in Seq(Requests)
      /\ Distinct(rest \o <<r>>)
      /\ Members(rest \o <<r>>) = (Unserved \ H) \cup {r}
  BY <1>1, <1>2, AppendedFacts
<1>4. /\ place' = [place EXCEPT ![r] = "waiting"]
      /\ why' = [why EXCEPT ![r] = "none"]
      /\ handed' = handed \cup H
      /\ UNCHANGED <<slots, gone>>
      /\ Fill(inFlight, 0, <<r>>)
      /\ inFlight + k >= Limit
  BY DEF AcquireWaits, Goes, Fill
<1>5. inFlight + k >= 1
  BY <1>0, <1>1, <1>4, QueueAssumption DEF Limit, QueueTypeOK
<1> HIDE DEF H, k, rest
<1>6. Owners' = Owners \cup H
  BY <1>0, <1>1, <1>2, <1>4 DEF Owners, Unserved, QueueTypeOK, Places
<1>7. Unserved' = (Unserved \ H) \cup {r}
  BY <1>0, <1>1, <1>2, <1>4 DEF Unserved, QueueTypeOK, Places
<1>8. IsFiniteSet(Owners) /\ inFlight + 0 = Cardinality(Owners) /\ Owners \cap Unserved = {}
  BY <1>0, OwnersFacts DEF SlotAccounting
<1>9. SlotAccounting' /\ inFlight' \in Nat /\ waiters' \in Seq(Requests)
      /\ LineExact' /\ NeverStranded'
  BY <1>1, <1>3, <1>4, <1>5, <1>6, <1>7, <1>8, FillKeepsInv, inFlight \in Int, 0 \in Nat,
     <<r>> \in Seq(Requests) DEF H, k, rest
<1>10. QueueTypeOK' /\ IdleFresh'
  BY <1>0, <1>1, <1>2, <1>4, <1>9 DEF QueueTypeOK, IdleFresh, Places, Reasons, Unserved
<1> QED
  BY <1>9, <1>10 DEF QueueInv

\* A slot comes back: from a holder, or from one who gave up as it came.
LEMMA GiveBackKeepsInv ==
    ASSUME QueueInv, NEW r \in Owners,
           Fill(inFlight - 1, 0, <<>>),
           Goes(r, "done", why[r]),
           UNCHANGED <<slots, gone>>
    PROVE  QueueInv'
<1> DEFINE k == FillCount(inFlight - 1, waiters)
           H == Oldest(waiters, k)
           B == Owners \ {r}
<1>0. QueueTypeOK /\ SlotAccounting /\ LineExact /\ IdleFresh /\ r \in Requests
  BY DEF QueueInv, Owners
<1>1. /\ inFlight \in Nat /\ inFlight - 1 \in Int
      /\ k \in 0..Len(waiters) /\ H \subseteq Unserved
      /\ AfterOldest(waiters, k) \in Seq(Requests)
      /\ Distinct(AfterOldest(waiters, k))
      /\ Members(AfterOldest(waiters, k)) = Unserved \ H
  <2>1. inFlight \in Nat /\ inFlight - 1 \in Int
    BY <1>0 DEF QueueTypeOK
  <2> QED
    BY <2>1, <1>0, FillFacts
<1>2. AfterOldest(waiters, k) \o <<>> = AfterOldest(waiters, k)
  BY <1>1, ConcatEmptySeq
<1>3. r \notin Unserved /\ r \notin H
  BY <1>1, OwnersFacts
<1>4. /\ place' = [place EXCEPT ![r] = "done"]
      /\ why' = [why EXCEPT ![r] = why[r]]
      /\ handed' = handed \cup H
  BY DEF Goes, Fill
<1> HIDE DEF H, k
<1>5. Owners' = B \cup H
  BY <1>0, <1>1, <1>3, <1>4 DEF Owners, Unserved, QueueTypeOK, Places
<1>6. Unserved' = Unserved \ H
  BY <1>0, <1>1, <1>3, <1>4 DEF Unserved, QueueTypeOK, Places
<1>7. /\ IsFiniteSet(B)
      /\ (inFlight - 1) + 0 = Cardinality(B)
      /\ B \cap Unserved = {}
  BY <1>0, OwnersFacts, FS_RemoveElement DEF SlotAccounting
<1> HIDE DEF B
<1>8. SlotAccounting' /\ inFlight' \in Nat /\ waiters' \in Seq(Requests)
      /\ LineExact' /\ NeverStranded'
  BY <1>1, <1>2, <1>5, <1>6, <1>7, FillKeepsInv, 0 \in Nat, <<>> \in Seq(Requests) DEF H, k
<1>9. QueueTypeOK' /\ IdleFresh'
  BY <1>0, <1>1, <1>3, <1>4, <1>8 DEF QueueTypeOK, IdleFresh, Places, Reasons, Unserved
<1> QED
  BY <1>8, <1>9 DEF QueueInv

\* A step of wait moves a request on with the slot it was handed, or towards
\* the door; who owns a slot and who is in line stay the same.
LEMMA WaitKeepsInv ==
    ASSUME QueueInv, NEW r \in Requests, Wait(r)
    PROVE  QueueInv'
<1>1. /\ place[r] = "waiting"
      /\ UNCHANGED <<slots, inFlight, waiters, handed, gone>>
      /\ \E p \in {"holding", "leaving"}, w \in Reasons :
            /\ Goes(r, p, w)
            /\ p = "holding" => r \in handed
  BY DEF Wait, WaitHanded, WaitTimeout, WaitGone, WaitWriteFails, Reasons
<1>2. Owners' = Owners /\ Unserved' = Unserved
  BY <1>1 DEF Owners, Unserved, Goes, QueueInv, QueueTypeOK
<1>3. QueueTypeOK' /\ IdleFresh'
  BY <1>1 DEF QueueInv, QueueTypeOK, IdleFresh, Goes, Places
<1> QED
  BY <1>1, <1>2, <1>3 DEF QueueInv, SlotAccounting, LineExact, NeverStranded, Distinct, Members

\* A request that gives up in line leaves the others in their order.
LEMMA LeaveLineKeepsInv ==
    ASSUME QueueInv, NEW r \in Requests, LeaveLine(r)
    PROVE  QueueInv'
<1>0. QueueTypeOK /\ LineExact /\ waiters \in Seq(Requests) /\ Distinct(waiters)
  BY DEF QueueInv, QueueTypeOK, LineExact
<1>1. PICK i \in 1..Len(waiters) : waiters[i] = r /\ waiters' = DropAt(waiters, i)
  BY DEF LeaveLine
<1>2. r \in Unserved
  BY <1>0, <1>1 DEF LineExact, Members
<1>3. /\ waiters' \in Seq(Requests)
      /\ Distinct(waiters')
      /\ Members(waiters') = Unserved \ {r}
  BY <1>0, <1>1, DropAtFacts DEF LineExact
<1>4. /\ Goes(r, "done", why[r])
      /\ UNCHANGED <<slots, inFlight, handed, gone>>
  BY DEF LeaveLine
<1>5. Owners' = Owners /\ Unserved' = Unserved \ {r}
  BY <1>0, <1>2, <1>4 DEF Owners, Unserved, Goes, QueueTypeOK
<1>6. QueueTypeOK' /\ IdleFresh'
  BY <1>3, <1>4 DEF QueueInv, QueueTypeOK, IdleFresh, Goes, Places
<1>7. LineExact'
  BY <1>3, <1>5 DEF LineExact, Distinct, Members
<1>8. NeverStranded'
  BY <1>0, <1>1, <1>5 DEF QueueInv, NeverStranded
<1> QED
  BY <1>4, <1>5, <1>6, <1>7, <1>8 DEF QueueInv, SlotAccounting

\* A new request takes the place of one that is over.
LEMMA NextRequestKeepsInv ==
    ASSUME QueueInv, NEW r \in Requests, NextRequest(r)
    PROVE  QueueInv'
<1>1. Owners' = Owners /\ Unserved' = Unserved
  BY DEF NextRequest, Goes, Owners, Unserved, QueueInv, QueueTypeOK
<1>2. QueueTypeOK' /\ IdleFresh'
  BY DEF NextRequest, Goes, QueueInv, QueueTypeOK, IdleFresh, Places, Reasons
<1> QED
  BY <1>1, <1>2 DEF NextRequest, QueueInv, SlotAccounting, LineExact, NeverStranded,
                    Distinct, Members

\* Every step of the queue keeps its invariant.
LEMMA QueueInvStep == QueueInv /\ [QueueNext]_queueVars => QueueInv'
<1> SUFFICES ASSUME QueueInv, [QueueNext]_queueVars PROVE QueueInv'
  OBVIOUS
<1>1. ASSUME NEW r \in Requests, Acquire(r) PROVE QueueInv'
  BY <1>1, AcquireNowKeepsInv, AcquireRefusedKeepsInv, AcquireWaitsKeepsInv DEF Acquire
<1>2. ASSUME NEW r \in Requests, Wait(r) PROVE QueueInv'
  BY <1>2, WaitKeepsInv
<1>3. ASSUME NEW r \in Requests, LeaveLine(r) PROVE QueueInv'
  BY <1>3, LeaveLineKeepsInv
<1>4. ASSUME NEW r \in Requests, HandOn(r) PROVE QueueInv'
  <2>1. r \in Owners
    BY <1>4 DEF HandOn, InLine, Owners, Unserved, QueueInv, LineExact, Members
  <2> QED
    BY <1>4, <2>1, GiveBackKeepsInv DEF HandOn
<1>5. ASSUME NEW r \in Requests, Release(r) PROVE QueueInv'
  <2>1. r \in Owners
    BY <1>5 DEF Release, Owners
  <2> QED
    BY <1>5, <2>1, GiveBackKeepsInv DEF Release
<1>6. ASSUME NEW r \in Requests, Depart(r) PROVE QueueInv'
  BY <1>6 DEF Depart, queueState, QueueInv, QueueTypeOK, SlotAccounting, LineExact,
              NeverStranded, IdleFresh, Owners, Unserved, Distinct, Members
<1>7. ASSUME NEW r \in Requests, NextRequest(r) PROVE QueueInv'
  BY <1>7, NextRequestKeepsInv
<1>8. ASSUME SlotsChange PROVE QueueInv'
  BY <1>8 DEF SlotsChange, queueState, QueueInv, QueueTypeOK, SlotAccounting, LineExact,
              NeverStranded, IdleFresh, Owners, Unserved, Distinct, Members
<1>9. ASSUME UNCHANGED queueVars PROVE QueueInv'
  BY <1>9 DEF queueVars, queueState, QueueInv, QueueTypeOK, SlotAccounting, LineExact,
              NeverStranded, IdleFresh, Owners, Unserved, Distinct, Members
<1> QED
  BY <1>1, <1>2, <1>3, <1>4, <1>5, <1>6, <1>7, <1>8, <1>9 DEF QueueNext, GiveUp

-----------------------------------------------------------------------------
(***************************************************************************)
(* The same steps as the friend and the pool see them: who owns a slot     *)
(* after the step, and in what order the line was served.                  *)
(***************************************************************************)

\* After a step that calls fill and moves r, the owners are those there were,
\* without r unless r holds a slot now, and the oldest of the line.
LEMMA FillOwners ==
    ASSUME QueueTypeOK, LineExact, NEW n \in Int, NEW taken, NEW joining,
           Fill(n, taken, joining),
           NEW r \in Requests, r \notin Unserved,
           NEW p \in {"holding", "waiting", "done"}, NEW w, Goes(r, p, w),
           p = "waiting" => r \notin handed
    PROVE  Owners' = ((Owners \ {r}) \cup (IF p = "holding" THEN {r} ELSE {}))
                        \cup Oldest(waiters, FillCount(n, waiters))
<1> DEFINE H == Oldest(waiters, FillCount(n, waiters))
<1>1. H \subseteq Unserved
  BY FillFacts
<1>2. handed' = handed \cup H
  BY DEF Fill
<1>3. place' = [place EXCEPT ![r] = p]
  BY DEF Goes
<1> HIDE DEF H
<1>4. r \notin H
  BY <1>1
<1>5. ASSUME NEW x \in Requests, x # r
      PROVE  x \in Owners' <=> x \in Owners \cup H
  BY <1>1, <1>2, <1>3, <1>5 DEF Owners, Unserved, QueueTypeOK
<1>6. r \in Owners' <=> p = "holding"
  BY <1>2, <1>3, <1>4 DEF Owners, QueueTypeOK
<1>7. Owners \subseteq Requests /\ Owners' \subseteq Requests /\ H \subseteq Requests
  BY <1>1 DEF Owners, Unserved
<1> QED
  BY <1>4, <1>5, <1>6, <1>7 DEF H

\* The body of NoOvertaking.
NoneOvertaken ==
    \A r \in Owners' \ Owners : \A i \in 1..Len(waiters) :
       (r \notin Oldest(waiters, i)) => waiters[i] \in Owners'

\* Whoever is served when the k oldest are has nobody unserved before it.
LEMMA OldestFirst ==
    ASSUME waiters \in Seq(Requests), NEW k \in 0..Len(waiters),
           Oldest(waiters, k) \subseteq Owners',
           \/ Owners' \ Owners \subseteq Oldest(waiters, k)
           \/ k = Len(waiters)
    PROVE  NoneOvertaken
<1> SUFFICES ASSUME NEW r \in Owners' \ Owners, NEW i \in 1..Len(waiters),
                    r \notin Oldest(waiters, i)
             PROVE  waiters[i] \in Owners'
  BY DEF NoneOvertaken
<1>1. CASE k = Len(waiters)
  BY <1>1 DEF Oldest
<1>2. CASE Owners' \ Owners \subseteq Oldest(waiters, k)
  <2>1. PICK j \in 1..k : waiters[j] = r
    BY <1>2 DEF Oldest
  <2>2. i \in 1..k
    BY <2>1 DEF Oldest
  <2> QED
    BY <2>2 DEF Oldest
<1> QED
  BY <1>1, <1>2

\* No step of the queue lets a request overtake.
LEMMA NoneOvertakenStep == QueueInv /\ [QueueNext]_queueVars => NoneOvertaken
<1> SUFFICES ASSUME QueueInv, [QueueNext]_queueVars PROVE NoneOvertaken
  OBVIOUS
<1>0. QueueTypeOK /\ LineExact /\ IdleFresh /\ waiters \in Seq(Requests)
      /\ inFlight \in Int /\ inFlight - 1 \in Int /\ slots \in Nat
  BY QueueAssumption DEF QueueInv, QueueTypeOK
<1>a. ASSUME NEW n \in Int PROVE FillCount(n, waiters) \in 0..Len(waiters)
  BY <1>0, FillCountBounds
<1>1. ASSUME NEW r \in Requests, AcquireNow(r) PROVE NoneOvertaken
  <2> DEFINE k == FillCount(inFlight, waiters)
  <2>1. Owners' = ((Owners \ {r}) \cup {r}) \cup Oldest(waiters, k)
    BY <1>0, <1>1, FillOwners DEF AcquireNow, Unserved
  <2>2. k = Len(waiters)
    BY <1>0, <1>1 DEF AcquireNow, FillCount, Limit
  <2> QED
    BY <1>0, <1>a, <2>1, <2>2, OldestFirst
<1>2. ASSUME NEW r \in Requests, AcquireRefused(r) \/ AcquireWaits(r) PROVE NoneOvertaken
  <2> DEFINE k == FillCount(inFlight, waiters)
  <2>1. Owners' = (Owners \ {r}) \cup Oldest(waiters, k)
    <3>1. r \notin Unserved /\ r \notin handed
      BY <1>0, <1>2 DEF AcquireRefused, AcquireWaits, Unserved, IdleFresh
    <3> QED
      BY <1>0, <1>2, <3>1, FillOwners DEF AcquireRefused, AcquireWaits
  <2> QED
    BY <1>0, <1>a, <2>1, OldestFirst
<1>3. ASSUME NEW r \in Requests, HandOn(r) \/ Release(r) PROVE NoneOvertaken
  <2> DEFINE k == FillCount(inFlight - 1, waiters)
  <2>1. Owners' = (Owners \ {r}) \cup Oldest(waiters, k)
    <3>1. r \notin Unserved
      BY <1>0, <1>3 DEF HandOn, Release, Unserved, InLine, LineExact, Members
    <3> QED
      BY <1>0, <1>3, <3>1, FillOwners DEF HandOn, Release
  <2> QED
    BY <1>0, <1>a, <2>1, OldestFirst
<1>4. ASSUME NEW r \in Requests, Wait(r) \/ LeaveLine(r) \/ Depart(r) \/ NextRequest(r)
      PROVE  NoneOvertaken
  <2>1. Owners' \subseteq Owners
    BY <1>0, <1>4 DEF Wait, WaitHanded, WaitTimeout, WaitGone, WaitWriteFails, LeaveLine,
                      Depart, NextRequest, Goes, Owners, queueState, QueueTypeOK
  <2> QED
    BY <2>1 DEF NoneOvertaken
<1>5. ASSUME SlotsChange \/ UNCHANGED queueVars PROVE NoneOvertaken
  <2>1. Owners' = Owners
    BY <1>5 DEF SlotsChange, queueVars, queueState, Owners
  <2> QED
    BY <2>1 DEF NoneOvertaken
<1> QED
  BY <1>1, <1>2, <1>3, <1>4, <1>5 DEF QueueNext, Acquire, GiveUp

\* A waiter whose context is done is never moved to holding.
LEMMA DepartedStep ==
    QueueInv /\ [QueueNext]_queueVars
       => \A r \in gone : place[r] = "waiting" => place'[r] # "holding"
<1> SUFFICES ASSUME QueueInv, [QueueNext]_queueVars, NEW g \in gone, place[g] = "waiting"
             PROVE  place'[g] # "holding"
  OBVIOUS
<1>0. place \in [Requests -> Places] /\ g \in Requests
  BY DEF QueueInv, QueueTypeOK
<1>1. ASSUME NEW r \in Requests, Acquire(r) \/ GiveUp(r) \/ Release(r) \/ NextRequest(r)
      PROVE  place'[g] # "holding"
  BY <1>0, <1>1 DEF Acquire, AcquireNow, AcquireRefused, AcquireWaits, GiveUp, LeaveLine,
                    HandOn, Release, NextRequest, Goes
<1>2. ASSUME NEW r \in Requests, Wait(r) PROVE place'[g] # "holding"
  BY <1>0, <1>2 DEF Wait, WaitHanded, WaitTimeout, WaitGone, WaitWriteFails, Goes
<1>3. ASSUME UNCHANGED place PROVE place'[g] # "holding"
  BY <1>3
<1> QED
  BY <1>1, <1>2, <1>3 DEF QueueNext, Depart, SlotsChange, queueVars, queueState

-----------------------------------------------------------------------------
(***************************************************************************)
(* The queue implements the pool: acquire joins or is turned away, a slot  *)
(* that comes back is returned, a request that gives up in line quits, and *)
(* the steps of wait, of the friend and of the next request change nothing.*)
(***************************************************************************)

\* The pool serves as many of a line as fill does when n slots are spent.
LEMMA ServedIsFillCount ==
    ASSUME NEW own, NEW n, n = Cardinality(own), NEW q
    PROVE  Pool!Served(own, q) = FillCount(n, q)
BY DEF Pool!Served, Pool!Room, Pool!Cardinality, Cardinality, FillCount, Limit

\* With room for more than the line, a line that has r at its end is served
\* whole, r with it.
LEMMA AppendServedWhole ==
    ASSUME NEW q \in Seq(Requests), NEW r \in Requests, NEW n \in Int, slots \in Nat,
           NEW k, k = FillCount(n, q), n + k < Limit
    PROVE  /\ FillCount(n, Append(q, r)) = Len(q) + 1
           /\ {Append(q, r)[i] : i \in 1..(Len(q) + 1)} = Oldest(q, k) \cup {r}
           /\ SubSeq(Append(q, r), Len(q) + 2, Len(q) + 1) = AfterOldest(q, k)
<1> DEFINE a == Append(q, r)
<1>a. /\ a \in Seq(Requests) /\ Len(a) = Len(q) + 1 /\ a[Len(q) + 1] = r
      /\ \A i \in 1..Len(q) : a[i] = q[i]
  BY AppendProperties
<1>b. k \in 0..Len(q) /\ Len(q) \in Nat /\ Limit \in Nat
  BY FillCountBounds DEF Limit
<1> HIDE DEF a
<1>1. k = Len(q)
  BY <1>b DEF FillCount
<1>2. FillCount(n, a) = Len(q) + 1
  BY <1>a, <1>b, <1>1 DEF FillCount
<1>3. {a[i] : i \in 1..(Len(q) + 1)} = Oldest(q, k) \cup {r}
  BY <1>a, <1>b, <1>1 DEF Oldest
<1>4. SubSeq(a, Len(q) + 2, Len(q) + 1) = <<>>
  BY <1>a, <1>b, SubSeqProperties
<1>5. AfterOldest(q, k) = <<>>
  BY <1>b, <1>1, SubSeqProperties DEF AfterOldest
<1> QED
  BY <1>2, <1>3, <1>4, <1>5 DEF a

\* With no room to spare it is served as without r, who waits at its end.
LEMMA AppendServedPart ==
    ASSUME NEW q \in Seq(Requests), NEW r \in Requests, NEW n \in Int, slots \in Nat,
           NEW k, k = FillCount(n, q), n + k >= Limit
    PROVE  /\ FillCount(n, Append(q, r)) = k
           /\ Oldest(Append(q, r), k) = Oldest(q, k)
           /\ AfterOldest(Append(q, r), k) = AfterOldest(q, k) \o <<r>>
<1> DEFINE a == Append(q, r)
<1>a. /\ a \in Seq(Requests) /\ Len(a) = Len(q) + 1 /\ a[Len(q) + 1] = r
      /\ \A i \in 1..Len(q) : a[i] = q[i]
  BY AppendProperties
<1>b. k \in 0..Len(q) /\ Len(q) \in Nat /\ Limit \in Nat
  BY FillCountBounds DEF Limit
<1> HIDE DEF a
<1>1. FillCount(n, a) = k
  BY <1>a, <1>b DEF FillCount
<1>2. Oldest(a, k) = Oldest(q, k)
  BY <1>a, <1>b, SMTT(60) DEF Oldest
<1>3. SubSeq(a, k + 1, Len(q) + 1) = AfterOldest(q, k) \o <<r>>
  <2> DEFINE s == SubSeq(a, k + 1, Len(q) + 1)
             t == AfterOldest(q, k)
             u == t \o <<r>>
  <2>1. /\ s \in Seq(Requests) /\ Len(s) = Len(q) + 1 - k
        /\ \A i \in 1..(Len(q) + 1 - k) : s[i] = a[k + i]
    <3>1. \A i \in (k + 1)..(Len(q) + 1) : a[i] \in Requests
      BY <1>a, <1>b
    <3>2. k + 1 \in Int /\ Len(q) + 1 \in Int
      BY <1>b
    <3>3. /\ s \in Seq(Requests)
          /\ Len(s) = IF k + 1 <= Len(q) + 1 THEN (Len(q) + 1) - (k + 1) + 1 ELSE 0
          /\ \A i \in 1..((Len(q) + 1) - (k + 1) + 1) : s[i] = a[(k + 1) + i - 1]
      BY <3>1, <3>2, SubSeqProperties
    <3> HIDE DEF s
    <3>4. \A i \in 1..(Len(q) + 1 - k) : (k + 1) + i - 1 = k + i
      BY <1>b
    <3> QED
      BY <1>b, <3>3, <3>4, SMTT(60)
  <2>2. /\ t \in Seq(Requests) /\ Len(t) = Len(q) - k
        /\ \A i \in 1..(Len(q) - k) : t[i] = q[k + i]
    BY <1>a, <1>b, SubSeqProperties DEF AfterOldest
  <2> HIDE DEF s, t
  <2>3. /\ u \in Seq(Requests) /\ Len(u) = Len(q) - k + 1
        /\ \A i \in 1..(Len(q) - k) : u[i] = t[i]
        /\ u[Len(q) - k + 1] = r
    BY <1>b, <2>2
  <2> HIDE DEF u
  <2>4. \A i \in 1..Len(s) : s[i] = u[i]
    <3> SUFFICES ASSUME NEW i \in 1..(Len(q) + 1 - k) PROVE s[i] = u[i]
      BY <2>1
    <3>1. CASE i = Len(q) + 1 - k
      BY <1>a, <1>b, <2>1, <2>3, <3>1, SMTT(60)
    <3>2. CASE i # Len(q) + 1 - k
      <4>1. i \in 1..(Len(q) - k) /\ k + i \in 1..Len(q)
        BY <1>b, <3>2
      <4> QED
        BY <4>1, <1>a, <2>1, <2>2, <2>3
    <3> QED
      BY <3>1, <3>2
  <2>5. Len(s) = Len(u)
    BY <1>b, <2>1, <2>3
  <2>6. s = u
    BY <2>1, <2>3, <2>4, <2>5, SeqEqual
  <2> QED
    BY <2>6 DEF s, t, u
<1> QED
  BY <1>1, <1>2, <1>3, <1>a DEF a, AfterOldest

\* acquire with a slot left, and acquire that queues: the pool's Join.
LEMMA AcquireJoins ==
    ASSUME QueueInv, NEW r \in Requests, AcquireNow(r) \/ AcquireWaits(r)
    PROVE  Pool!Join(r)
<1> DEFINE k == FillCount(inFlight, waiters)
<1>0. /\ QueueTypeOK /\ LineExact /\ waiters \in Seq(Requests) /\ inFlight \in Int
      /\ slots \in Nat /\ inFlight = Cardinality(Owners) /\ place[r] = "idle"
      /\ Len(waiters) \in Nat /\ r \notin handed
  BY QueueAssumption DEF QueueInv, QueueTypeOK, SlotAccounting, AcquireNow, AcquireWaits,
                         IdleFresh
<1>1. r \notin Owners /\ r \notin Unserved /\ Unserved = Pool!InLine
  BY <1>0 DEF Owners, Unserved, LineExact, Members, Pool!InLine
<1>2. /\ Pool!Served(Owners, waiters) = k
      /\ Pool!Served(Owners, Append(waiters, r)) = FillCount(inFlight, Append(waiters, r))
  BY <1>0, ServedIsFillCount
<1>3. Pool!Places = MaxWaiting /\ MaxWaiting \in Nat /\ MaxWaiting >= 2 /\ Limit \in Nat
  BY <1>0 DEF Pool!Places, Pool!Room, MaxWaiting, Limit
<1>4. k \in 0..Len(waiters) /\ Len(Append(waiters, r)) = Len(waiters) + 1
  BY <1>0, FillCountBounds
<1>5. k = FillCount(inFlight, waiters)
  OBVIOUS
<1> HIDE DEF k
<1>6. CASE AcquireNow(r)
  <2>1. inFlight + k < Limit
    BY <1>6, <1>5 DEF AcquireNow
  <2>2. Owners' = (Owners \cup {r}) \cup Oldest(waiters, k)
    <3>1. Owners' = ((Owners \ {r}) \cup {r}) \cup Oldest(waiters, k)
      BY <1>0, <1>1, <1>6, <1>5, FillOwners DEF AcquireNow
    <3> QED
      BY <3>1
  <2>3. waiters' = AfterOldest(waiters, k) /\ slots' = slots
    <3>1. waiters' = AfterOldest(waiters, k) \o <<>>
      BY <1>6, <1>5 DEF AcquireNow, Fill
    <3> QED
      BY <1>0, <1>6, <1>5, <3>1, FillFacts, ConcatEmptySeq DEF AcquireNow
  <2>4. k = Len(waiters)
    BY <1>0, <1>5, <2>1 DEF FillCount, Limit
  <2>5. /\ FillCount(inFlight, Append(waiters, r)) = Len(waiters) + 1
        /\ {Append(waiters, r)[i] : i \in 1..(Len(waiters) + 1)} = Oldest(waiters, k) \cup {r}
        /\ SubSeq(Append(waiters, r), Len(waiters) + 2, Len(waiters) + 1)
             = AfterOldest(waiters, k)
    BY <1>0, <1>5, <2>1, AppendServedWhole
  <2>6. Pool!Serve(Owners, Append(waiters, r))
    <3>1. (Len(waiters) + 1) + 1 = Len(waiters) + 2
      BY <1>0
    <3> QED
      BY <1>2, <1>4, <2>2, <2>3, <2>5, <3>1 DEF Pool!Serve
  <2>7. Len(waiters) - k < MaxWaiting
    BY <1>0, <1>3, <2>4
  <2> QED
    BY <1>1, <1>2, <1>3, <2>6, <2>7 DEF Pool!Join
<1>7. CASE AcquireWaits(r)
  <2>1. inFlight + k >= Limit /\ Len(waiters) - k < MaxWaiting
    BY <1>7, <1>5 DEF AcquireWaits
  <2>2. Owners' = Owners \cup Oldest(waiters, k)
    <3>1. Owners' = (Owners \ {r}) \cup Oldest(waiters, k)
      BY <1>0, <1>1, <1>7, <1>5, FillOwners DEF AcquireWaits
    <3> QED
      BY <1>1, <3>1
  <2>3. waiters' = AfterOldest(waiters, k) \o <<r>> /\ slots' = slots
    BY <1>7, <1>5 DEF AcquireWaits, Fill
  <2>4. /\ FillCount(inFlight, Append(waiters, r)) = k
        /\ Oldest(Append(waiters, r), k) = Oldest(waiters, k)
        /\ AfterOldest(Append(waiters, r), k) = AfterOldest(waiters, k) \o <<r>>
    BY <1>0, <1>5, <2>1, AppendServedPart
  <2>5. Pool!Serve(Owners, Append(waiters, r))
    BY <1>2, <2>2, <2>3, <2>4 DEF Pool!Serve, Oldest, AfterOldest
  <2> QED
    BY <1>1, <1>2, <1>3, <2>1, <2>5 DEF Pool!Join
<1> QED
  BY <1>6, <1>7

\* A step that calls fill for the owners own of n slots serves the pool's line.
LEMMA FillServes ==
    ASSUME QueueTypeOK, LineExact, NEW n \in Int, Fill(n, 0, <<>>), NEW own,
           n = Cardinality(own),
           Owners' = own \cup Oldest(waiters, FillCount(n, waiters)),
           slots' = slots
    PROVE  Pool!Serve(own, waiters)
<1> DEFINE k == FillCount(n, waiters)
<1>1. Pool!Served(own, waiters) = k
  BY ServedIsFillCount
<1>2. waiters' = AfterOldest(waiters, k)
  <2>1. waiters' = AfterOldest(waiters, k) \o <<>>
    BY DEF Fill
  <2> QED
    BY <2>1, FillFacts, ConcatEmptySeq
<1> HIDE DEF k
<1>3. Owners' = own \cup Oldest(waiters, k)
  BY DEF k
<1> QED
  BY <1>1, <1>2, <1>3 DEF Pool!Serve, Oldest, AfterOldest

\* acquire that refuses: the pool's TurnAway.
LEMMA RefusalTurnsAway ==
    ASSUME QueueInv, NEW r \in Requests, AcquireRefused(r)
    PROVE  Pool!TurnAway(r)
<1> DEFINE k == FillCount(inFlight, waiters)
<1>0. /\ QueueTypeOK /\ LineExact /\ inFlight \in Int
      /\ slots \in Nat /\ inFlight = Cardinality(Owners) /\ place[r] = "idle"
  BY QueueAssumption DEF QueueInv, QueueTypeOK, SlotAccounting, AcquireRefused
<1>1. r \notin Owners /\ r \notin Unserved /\ Unserved = Pool!InLine
  BY <1>0 DEF Owners, Unserved, LineExact, Members, Pool!InLine, QueueInv, IdleFresh
<1>2. Pool!Served(Owners, waiters) = k /\ Pool!Places = MaxWaiting
  BY <1>0, ServedIsFillCount DEF Pool!Places, Pool!Room, MaxWaiting, Limit
<1>3. Owners' = Owners \cup Oldest(waiters, k)
  <2>1. Owners' = (Owners \ {r}) \cup Oldest(waiters, k)
    BY <1>0, <1>1, FillOwners DEF AcquireRefused
  <2> QED
    BY <1>1, <2>1
<1>4. Pool!Serve(Owners, waiters)
  BY <1>0, <1>3, FillServes DEF AcquireRefused
<1> QED
  BY <1>1, <1>2, <1>4 DEF Pool!TurnAway, AcquireRefused

\* release, and the slot passed on by one who gave up: the pool's Return.
LEMMA GiveBackReturns ==
    ASSUME QueueInv, NEW r \in Requests, HandOn(r) \/ Release(r)
    PROVE  Pool!Return(r)
<1>0. /\ QueueTypeOK /\ LineExact /\ inFlight \in Int /\ inFlight - 1 \in Int
      /\ inFlight = Cardinality(Owners)
  BY DEF QueueInv, QueueTypeOK, SlotAccounting
<1>1. r \in Owners
  BY <1>0 DEF HandOn, Release, InLine, Owners, Unserved, LineExact, Members
<1>2. r \notin Unserved
  BY <1>1, OwnersFacts
<1>3. Owners' = (Owners \ {r}) \cup Oldest(waiters, FillCount(inFlight - 1, waiters))
  BY <1>0, <1>2, FillOwners DEF HandOn, Release
<1>4. inFlight - 1 = Cardinality(Owners \ {r})
  BY <1>0, <1>1, OwnersFacts, FS_RemoveElement
<1>5. Pool!Serve(Owners \ {r}, waiters)
  BY <1>0, <1>3, <1>4, FillServes DEF HandOn, Release
<1> QED
  BY <1>1, <1>5 DEF Pool!Return

\* Every step of the queue is a step of the pool, or leaves it alone.
LEMMA PoolStep == QueueInv /\ [QueueNext]_queueVars => [Pool!PoolNext]_(Pool!poolVars)
<1> SUFFICES ASSUME QueueInv, [QueueNext]_queueVars
             PROVE  Pool!PoolNext \/ UNCHANGED Pool!poolVars
  OBVIOUS
<1>0. QueueTypeOK
  BY DEF QueueInv
<1>1. ASSUME NEW r \in Requests, Acquire(r) PROVE Pool!PoolNext
  BY <1>1, AcquireJoins, RefusalTurnsAway DEF Acquire, Pool!PoolNext
<1>2. ASSUME NEW r \in Requests, HandOn(r) \/ Release(r) PROVE Pool!PoolNext
  BY <1>2, GiveBackReturns DEF Pool!PoolNext
<1>3. ASSUME NEW r \in Requests, LeaveLine(r) PROVE Pool!PoolNext
  <2>1. r \notin handed
    BY <1>3 DEF LeaveLine, QueueInv, LineExact, Members, Unserved
  <2>2. Owners' = Owners
    BY <1>0, <1>3, <2>1 DEF LeaveLine, Goes, Owners, QueueTypeOK
  <2>3. Pool!Quit(r)
    BY <1>3, <2>2 DEF LeaveLine, DropAt, Pool!Quit
  <2> QED
    BY <2>3 DEF Pool!PoolNext
<1>4. ASSUME NEW r \in Requests, Wait(r) \/ Depart(r) \/ NextRequest(r)
      PROVE  UNCHANGED Pool!poolVars
  <2>1. Owners' = Owners
    BY <1>0, <1>4 DEF Wait, WaitHanded, WaitTimeout, WaitGone, WaitWriteFails, Depart,
                      NextRequest, Goes, Owners, queueState, QueueTypeOK
  <2>2. UNCHANGED <<waiters, slots>>
    BY <1>4 DEF Wait, WaitHanded, WaitTimeout, WaitGone, WaitWriteFails, Depart,
                NextRequest, queueState
  <2> QED
    BY <2>1, <2>2 DEF Pool!poolVars
<1>5. ASSUME SlotsChange PROVE Pool!PoolNext
  BY <1>5 DEF SlotsChange, queueState, Owners, Pool!PoolNext, Pool!Resize
<1>6. ASSUME UNCHANGED queueVars PROVE UNCHANGED Pool!poolVars
  BY <1>6 DEF queueVars, queueState, Owners, Pool!poolVars
<1> QED
  BY <1>1, <1>2, <1>3, <1>4, <1>5, <1>6 DEF QueueNext, GiveUp

-----------------------------------------------------------------------------
(* The theorems. *)

\* The inductive invariant holds in every reachable state.
THEOREM QueueInvariant == QueueSafety => []QueueInv
BY QueueInvInit, QueueInvStep, PTL DEF QueueSafety

\* Type correctness: in particular inFlight is never negative, so no slot is
\* ever given back twice.
THEOREM QueueTypeCorrect == QueueSafety => []QueueTypeOK
<1>1. QueueInv => QueueTypeOK
  BY DEF QueueInv
<1> QED
  BY <1>1, QueueInvariant, PTL

\* Slots are never leaked or minted: inFlight counts exactly the requests a
\* slot is spent on, whatever races a hand-over.
THEOREM SlotsAccounted == QueueSafety => []SlotAccounting
<1>1. QueueInv => SlotAccounting
  BY DEF QueueInv
<1> QED
  BY <1>1, QueueInvariant, PTL

\* The line holds exactly those who wait for a slot, each once.
THEOREM LineIsExact == QueueSafety => []LineExact
<1>1. QueueInv => LineExact
  BY DEF QueueInv
<1> QED
  BY <1>1, QueueInvariant, PTL

\* Nobody is ever left in line in front of an engine nobody uses.
THEOREM NobodyStranded == QueueSafety => []NeverStranded
<1>1. QueueInv => NeverStranded
  BY DEF QueueInv
<1> QED
  BY <1>1, QueueInvariant, PTL

\* The line is fair: no step gives a request a slot before those who stood in
\* line ahead of it, and none gives the engine to a friend who left the line.
THEOREM LineFairness == QueueSafety => LineIsFair
<1>1. QueueSafety => NoOvertaking
  <2>1. QueueInv /\ [QueueNext]_queueVars => [NoneOvertaken]_queueVars
    BY NoneOvertakenStep
  <2>2. QueueSafety => [][NoneOvertaken]_queueVars
    BY <2>1, QueueInvariant, PTL DEF QueueSafety
  <2> QED
    BY <2>2 DEF NoOvertaking, NoneOvertaken
<1>2. QueueSafety => DepartedDeclines
  <2>1. QueueInv /\ [QueueNext]_queueVars
          => [\A r \in gone : place[r] = "waiting" => place'[r] # "holding"]_queueVars
    BY DepartedStep
  <2> QED
    BY <2>1, QueueInvariant, PTL DEF QueueSafety, DepartedDeclines
<1> QED
  BY <1>1, <1>2 DEF LineIsFair

\* The queue, with its races of hand-over, timeout and departure, implements
\* the pool that has none of them.
THEOREM QueueImplementsPool == QueueSafety => ImplementsPool
<1>1. QueueInit => Pool!PoolInit
  BY DEF QueueInit, Pool!PoolInit, Owners
<1> QED
  BY <1>1, PoolStep, QueueInvariant, PTL DEF QueueSafety, ImplementsPool, Pool!PoolSpec
=============================================================================
