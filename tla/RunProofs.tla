----------------------------- MODULE RunProofs ------------------------------
(***************************************************************************)
(* What is proved of runs.  Of the run manager, for any set of runs of any *)
(* kinds: every accepted run has an owner, alone in a serial kind, what it *)
(* holds follows it, and what has ended stays as it ended.  Of what is     *)
(* done in a run: chats, for any number of chats, deltas and rounds, and   *)
(* an agent run with its child, for any number of questions and any        *)
(* session that holds two frames or more.                                  *)
(***************************************************************************)
EXTENDS RunManager, ChatRun, AgentRun, SumProofs, SequenceTheorems

-----------------------------------------------------------------------------
(* The line: what Queued reads from the rows. *)

IsRising(f, I) ==
    /\ f \in [1..Cardinality(I) -> I]
    /\ \A i, j \in 1..Cardinality(I) : i < j => f[i] < f[j]

Numbered(I) == \E n \in Nat : I \subseteq 1..n

\* A set of numbers up to n that is not empty has a greatest.
LEMMA Greatest ==
    ASSUME NEW n \in Nat, NEW I \in SUBSET (1..n), I # {}
    PROVE  \E x \in I : \A i \in I : i <= x
<1> DEFINE N == {m \in Nat : \A i \in I : i <= m}
<1>1. n \in N
  OBVIOUS
<1>2. PICK x \in N : \A m \in N : x <= m
  BY <1>1, LeastNatural, N \in SUBSET Nat
<1>3. ASSUME x \notin I PROVE FALSE
  <2>1. PICK i \in I : TRUE
    OBVIOUS
  <2>2. i \in Nat /\ 1 <= i /\ i <= x /\ x \in Nat
    BY <1>2
  <2>3. x - 1 \in Nat /\ \A j \in I : j <= x - 1
    BY <1>2, <1>3, <2>2
  <2>4. x <= x - 1
    BY <1>2, <2>3
  <2> QED
    BY <2>2, <2>4
<1> QED
  BY <1>2, <1>3

\* Places can be put in order.
LEMMA RisingExists ==
    ASSUME NEW I, IsFiniteSet(I), Numbered(I)
    PROVE  \E f : IsRising(f, I)
<1> DEFINE B == {J \in SUBSET I : ~\E f : IsRising(f, J)}
<1>3. B \in SUBSET SUBSET I
  OBVIOUS
<1>4. \A J \in SUBSET I : J \in B <=> ~\E f : IsRising(f, J)
  OBVIOUS
<1> HIDE DEF B
<1>2. ASSUME B # {} PROVE FALSE
  <2>1. PICK m \in B : \A t \in B : t \subseteq m => t = m
    BY <1>2, <1>3, MinimalSubset
  <2>2. m \in SUBSET I /\ ~\E f : IsRising(f, m)
    BY <1>3, <1>4, <2>1
  <2>5. IsFiniteSet(m)
    BY <2>2, FS_Subset
  <2>3. CASE m = {}
    <3>1. Cardinality(m) = 0
      BY <2>3, FS_EmptySet
    <3>2. IsRising([i \in {} |-> 0], m)
      BY <2>3, <3>1 DEF IsRising
    <3> QED
      BY <2>2, <3>2
  <2>4. CASE m # {}
    <3>1. PICK x \in m : \A i \in m : i <= x
      <4>1. PICK n \in Nat : I \subseteq 1..n
        BY DEF Numbered
      <4>2. m \in SUBSET (1..n)
        BY <2>2, <4>1
      <4> QED
        BY <2>4, <4>2, Greatest
    <3> DEFINE t == m \ {x}
               c == Cardinality(t)
    <3>2. IsFiniteSet(t) /\ c \in Nat /\ Cardinality(m) = c + 1
      <4>0. IsFiniteSet(m) /\ x \in m
        BY <2>5
      <4>1. IsFiniteSet(t) /\ Cardinality(t) = Cardinality(m) - 1 /\ Cardinality(m) \in Nat
        BY <4>0, FS_RemoveElement, FS_CardinalityType
      <4>2. Cardinality(t) \in Nat
        BY <4>1, FS_CardinalityType
      <4> QED
        BY <4>1, <4>2
    <3>3. PICK f : IsRising(f, t)
      <4>1. t \in SUBSET I /\ t \subseteq m /\ t # m
        BY <2>2
      <4> QED
        BY <1>4, <2>1, <4>1
    <3> DEFINE g == [i \in 1..(c + 1) |-> IF i = c + 1 THEN x ELSE f[i]]
    <3>4. f \in [1..c -> t] /\ \A i, j \in 1..c : i < j => f[i] < f[j]
      BY <3>3 DEF IsRising
    <3>5. \A i \in t : i < x /\ i \in Nat
      <4>1. m \subseteq Nat
        BY <2>2 DEF Numbered
      <4> QED
        BY <3>1, <4>1
    <3> HIDE DEF t, c
    <3>6. g \in [1..(c + 1) -> m]
      <4>1. \A i \in 1..(c + 1) : i # c + 1 => i \in 1..c
        BY <3>2
      <4> QED
        BY <3>4, <4>1 DEF t
    <3>7. ASSUME NEW i \in 1..(c + 1), NEW j \in 1..(c + 1), i < j PROVE g[i] < g[j]
      <4>1. i \in 1..c /\ (j # c + 1 => j \in 1..c)
        BY <3>2, <3>7
      <4>2. g[i] = f[i] /\ f[i] \in t
        BY <3>2, <3>4, <4>1
      <4>3. CASE j = c + 1
        BY <3>5, <4>2, <4>3
      <4>4. CASE j # c + 1
        <5>1. g[j] = f[j]
          BY <4>4
        <5> QED
          BY <3>4, <3>7, <4>1, <4>2, <4>4, <5>1
      <4> QED
        BY <4>3, <4>4
    <3>8. IsRising(g, m)
      BY <3>2, <3>6, <3>7 DEF IsRising
    <3> QED
      BY <2>2, <3>8
  <2> QED
    BY <2>3, <2>4
<1> QED
  BY <1>2, <1>4

\* The entries of a sequence at some of its places.
LEMMA EntriesFacts ==
    ASSUME NEW E, NEW s \in Seq(E), NEW I \in SUBSET (1..Len(s))
    PROVE  /\ Entries(s, I) \in Seq(E)
           /\ \A n \in 1..Len(Entries(s, I)) : \E i \in I : Entries(s, I)[n] = s[i]
           /\ I # {} => Len(Entries(s, I)) >= 1
<1> DEFINE c == Cardinality(I)
           f == Rising(I)
<1>0. Len(s) \in Nat /\ Len(s) \in Int /\ IsFiniteSet(1..Len(s))
  BY FS_Interval, 1 \in Int, Len(s) \in Int
<1>1. IsFiniteSet(I) /\ c \in Nat
  BY <1>0, FS_Subset, FS_CardinalityType
<1>2. f \in [1..c -> I]
  <2>1. \E h : IsRising(h, I)
    BY <1>0, <1>1, RisingExists DEF Numbered
  <2> QED
    BY <2>1 DEF Rising, IsRising
<1>3. I # {} => c # 0
  BY <1>1, FS_EmptySet
<1> HIDE DEF f
<1>4. Entries(s, I) = [n \in 1..c |-> s[f[n]]]
  BY DEF Entries, f
<1> HIDE DEF c
<1>5. \A n \in 1..c : f[n] \in I /\ s[f[n]] \in E
  <2>1. \A i \in 1..Len(s) : s[i] \in E
    OBVIOUS
  <2>2. \A n \in 1..c : f[n] \in I /\ f[n] \in 1..Len(s)
    BY <1>2
  <2> QED
    BY <2>1, <2>2
<1>6. Entries(s, I) \in Seq(E) /\ Len(Entries(s, I)) = c
  BY <1>1, <1>4, <1>5
<1>7. \A n \in 1..c : Entries(s, I)[n] = s[f[n]]
  BY <1>4
<1>8. c # 0 => c >= 1
  BY <1>1
<1> HIDE DEF c
<1> QED
  BY <1>3, <1>5, <1>6, <1>7, <1>8

\* The line of a kind holds queued runs of the kind, and is empty only when
\* there are none.
LEMMA QueuedFacts ==
    ASSUME NEW ord \in Seq(Runs), NEW st, NEW k, NEW q, q = Queued(k, ord, st)
    PROVE  /\ q \in Seq(Runs)
           /\ \A n \in 1..Len(q) : kind[q[n]] = k /\ st[q[n]] = "queued"
           /\ q = <<>> => \A i \in 1..Len(ord) : ~(kind[ord[i]] = k /\ st[ord[i]] = "queued")
<1> DEFINE waits == {i \in 1..Len(ord) : kind[ord[i]] = k /\ st[ord[i]] = "queued"}
           planted == {i \in waits : ord[i] \in Planted}
           others == waits \ planted
           a == Entries(ord, others)
           b == Entries(ord, planted)
<1>1. q = a \o b
  BY DEF Queued
<1>2. others \in SUBSET (1..Len(ord)) /\ planted \in SUBSET (1..Len(ord))
  OBVIOUS
<1>3. \A i \in others \cup planted : kind[ord[i]] = k /\ st[ord[i]] = "queued"
  OBVIOUS
<1>4. waits = others \cup planted
  OBVIOUS
<1>5. \A i \in 1..Len(ord) : kind[ord[i]] = k /\ st[ord[i]] = "queued" => i \in others \cup planted
  BY <1>4
<1> HIDE DEF waits, planted, others
<1>6. /\ a \in Seq(Runs) /\ (others # {} => Len(a) >= 1)
      /\ \A n \in 1..Len(a) : \E i \in others : a[n] = ord[i]
  BY <1>2, EntriesFacts
<1>7. /\ b \in Seq(Runs) /\ (planted # {} => Len(b) >= 1)
      /\ \A n \in 1..Len(b) : \E i \in planted : b[n] = ord[i]
  BY <1>2, EntriesFacts
<1> HIDE DEF a, b
<1>8. q \in Seq(Runs) /\ Len(q) = Len(a) + Len(b) /\ Len(a) \in Nat /\ Len(b) \in Nat
  BY <1>1, <1>6, <1>7
<1>9. ASSUME NEW n \in 1..Len(q) PROVE kind[q[n]] = k /\ st[q[n]] = "queued"
  <2>1. CASE n <= Len(a)
    <3>1. q[n] = a[n] /\ n \in 1..Len(a)
      BY <1>1, <1>6, <1>7, <1>8, <2>1
    <3> QED
      BY <1>3, <1>6, <3>1
  <2>2. CASE ~(n <= Len(a))
    <3>1. q[n] = b[n - Len(a)] /\ n - Len(a) \in 1..Len(b)
      BY <1>1, <1>6, <1>7, <1>8, <2>2
    <3> QED
      BY <1>3, <1>7, <3>1
  <2> QED
    BY <2>1, <2>2
<1>10. ASSUME q = <<>> PROVE others = {} /\ planted = {}
  <2>1. Len(q) = 0
    BY <1>10
  <2> QED
    BY <1>6, <1>7, <1>8, <2>1, SMTT(60)
<1> QED
  BY <1>5, <1>8, <1>9, <1>10

-----------------------------------------------------------------------------
(***************************************************************************)
(* The inductive invariant.  Its parts that speak of the owners (active)   *)
(* and the workers take them as parameters, because an action that ends    *)
(* with schedule changes them twice.                                       *)
(***************************************************************************)

Steps == {"begin", "execute", "acquired", "dispatched", "settle",
          "asking", "approving", "seen", "listening"}
Settling(r) == joiner[r] \in {"stopping", "ending"}

\* The type invariant but for owners, workers and lines.
RestOK ==
    /\ kind \in Mixes /\ order \in Seq(Runs)
    /\ state \in [Runs -> {"none"} \cup Live \cup Terminal]
    /\ approval \in [Runs -> {"none", "pending", "answered"}]
    /\ cancelled \cup tried \cup releases \cup stopped \cup wake \cup expired \cup abandoned \subseteq Runs
    /\ blocked \in [Kinds -> Nat]
    /\ quarantined \subseteq Kinds
    /\ verdict \in [Runs -> {"none", "ok", "error", "stopped"} \cup Terminal]
    /\ lease \in [Runs -> {"none", "held", "late"}]
    /\ joiner \in [Runs -> {"none", "waiting", "late", "stopping", "ending", "over"}]
    /\ stopper \in [Runs -> {"none", "calling", "ok", "failed"}]

OwnersOK ==
    /\ active \in SUBSET Runs /\ worker \in [Runs -> WorkerPlaces] /\ line \in [Kinds -> Seq(Runs)]

\* A run is listed once it has a row.
Listed ==
    \A r \in Runs : state[r] # "none" => kind[r] \in Kinds /\ \E i \in 1..Len(order) : order[i] = r

\* A run without a row has no worker, and one without a worker is held by nobody.
Fresh(act, at) ==
    \A r \in Runs :
        /\ state[r] = "none" => at[r] = "none"
        /\ at[r] = "none" => r \notin act /\ r \notin expired /\ joiner[r] = "none"

ConsumerPlaces == {"consume", "asking", "approving", "seen", "listening"}

\* Who is driven, and what a worker has done by the time it leaves.
Driven(act, at) ==
    \A r \in Runs :
        /\ r \in act /\ at[r] = "gone" => r \in expired
        /\ at[r] \notin {"none", "gone"} => r \in act \/ r \in expired
        /\ at[r] \in {"exit", "gone"} => state[r] \in Terminal
        /\ at[r] = "finish" => verdict[r] \in Terminal
        /\ at[r] = "settle" => verdict[r] \in {"ok", "error", "stopped"}
        /\ at[r] \in ConsumerPlaces => kind[r] # "image"

\* A serial kind has one owner.
Alone(act) == \A r, s \in act : kind[r] = kind[s] /\ kind[r] \in Serial => r = s

\* A join that expired is being settled as long as the run is owned; the run
\* has ended before it is let go.
Expiry(act) ==
    \A r \in Runs :
        /\ r \in expired => kind[r] \in Serial
        /\ r \in expired /\ r \notin act => joiner[r] = "over" /\ state[r] \in Terminal
        /\ r \in act /\ r \in expired <=> Settling(r)

JoinShape ==
    \A r \in Runs :
        /\ joiner[r] = "ending" => state[r] \in Terminal
        /\ joiner[r] = "late" => kind[r] = "chat"
        /\ joiner[r] # "none" => r \in stopped
        /\ r \in abandoned => r \in expired /\ joiner[r] = "over"
        /\ stopper[r] = "calling" => r \in expired /\ (joiner[r] = "over" => r \in abandoned)

\* A kind is blocked for as long as one of its joins is being settled.
BlockedExact ==
    \A k \in Kinds : blocked[k] = IF \E r \in Runs : kind[r] = k /\ Settling(r) THEN 1 ELSE 0

\* A runtime that may still be there keeps its kind in quarantine, and there is
\* at most one of a kind.
Doubt(act) ==
    \A r \in expired : stopper[r] # "ok" =>
        /\ r \in act \/ closed \/ kind[r] \in quarantined
        /\ \A s \in expired : kind[s] = kind[r] /\ stopper[s] # "ok" => s = r

\* A kind in quarantine is empty.
Quarantine(act) ==
    \A k \in quarantined :
        /\ k = "agent"
        /\ \A r \in Runs : kind[r] = k => r \notin act /\ (closed \/ state[r] \notin Live)

\* Images are joined at shutdown only, and lease nothing.
ImageShape ==
    /\ \A r \in Runs : kind[r] = "image" => lease[r] = "none" /\ (joiner[r] # "none" => closed)
    /\ \A r \in releases : kind[r] = "image"
    /\ closed => releases = {}

\* The lease of a chat in a step, and that of nobody.
ChatLease(kd, place, st, l, j) ==
    kd = "chat" /\ place \in Steps =>
        st = "failed" \/ l = "late" \/ (l = "held" /\ j \notin {"late", "over"} /\ st \in Live)
NoStepNoLease(place, l) == place \in {"none", "top", "finish", "exit", "gone"} => l = "none"
Leased(at) ==
    \A r \in Runs : /\ ChatLease(kind[r], at[r], state[r], lease[r], joiner[r])
                    /\ NoStepNoLease(at[r], lease[r])

\* The properties of RunsHold that speak of owners and workers.
Generation(act) ==
    \A r \in act : kind[r] \in Serial =>
        \A s \in Runs : s # r /\ kind[s] = kind[r] /\ s \in expired => stopper[s] = "ok"
HasToWait(r, at) == state[r] = "queued" /\ at[r] = "none" /\ kind[r] \in Serial
Behind(r, act) == blocked[kind[r]] > 0 \/ \E s \in act : kind[s] = kind[r]
Owners(act, at) ==
    \A r \in Runs : state[r] \in Live /\ r \notin act /\ ~closed => HasToWait(r, at) /\ Behind(r, act)
\* The same before k has been scheduled.
OwnersBut(k, act, at) ==
    \A r \in Runs : state[r] \in Live /\ r \notin act /\ ~closed =>
        HasToWait(r, at) /\ (kind[r] # k => Behind(r, act))
NoGhost(q, act) ==
    \A i \in 1..Len(q) : kind[q[i]] = "image" /\ (~closed => state[q[i]] = "queued" \/ q[i] \in act)
Reservation(act) ==
    /\ \A r \in releases : state[r] \in Live \/ r \in act
    /\ ~closed => \A r \in Runs : kind[r] = "image" /\ state[r] \in Live => r \in releases

\* What no schedule changes, and what it may.
Fixed == RestOK /\ Listed /\ JoinShape /\ BlockedExact /\ ImageShape
Held(act, at) ==
    /\ Fresh(act, at) /\ Driven(act, at) /\ Alone(act) /\ Expiry(act) /\ Doubt(act)
    /\ Quarantine(act) /\ Generation(act) /\ Reservation(act) /\ Leased(at)

RunInv ==
    /\ Fixed /\ closed \in BOOLEAN /\ OwnersOK /\ Held(active, worker)
    /\ Owners(active, worker) /\ NoGhost(line["image"], active)

\* The invariant says what a run's owner may rely on.
LEMMA RunInvImplies == RunInv => RunsHold
<1> SUFFICES ASSUME RunInv PROVE RunsHold
  OBVIOUS
<1>1. RunTypeOK
  <2>1. closed \in BOOLEAN
    BY DEF RunInv
  <2> QED
    BY <2>1 DEF RunInv, Fixed, RestOK, OwnersOK, RunTypeOK
<1>2. OneGeneration
  BY DEF RunInv, Held, Alone, Generation, OneGeneration, OwnersOK
<1>3. LiveHasOwner
  BY DEF RunInv, Owners, HasToWait, Behind, LiveHasOwner
<1>4. NoGhostInLine
  BY DEF RunInv, NoGhost, NoGhostInLine
<1>5. ReservationFollowsRun
  BY DEF RunInv, Held, Reservation, ReservationFollowsRun
<1>6. LeaseFollowsOwner
  <2> SUFFICES ASSUME NEW r \in Runs
               PROVE  /\ kind[r] = "chat" /\ InStep(r) /\ state[r] = "cancelled" => lease[r] = "late"
                      /\ worker[r] \in {"none", "top", "finish", "exit", "gone"} => lease[r] = "none"
    BY DEF LeaseFollowsOwner
  <2>1. /\ ChatLease(kind[r], worker[r], state[r], lease[r], joiner[r])
        /\ NoStepNoLease(worker[r], lease[r])
    BY DEF RunInv, Held, Leased
  <2> QED
    BY <2>1 DEF ChatLease, NoStepNoLease, InStep, Steps, Live
<1> QED
  BY <1>1, <1>2, <1>3, <1>4, <1>5, <1>6 DEF RunsHold

\* The invariant holds at first.
LEMMA RunInvInit == RunInit => RunInv
<1> SUFFICES ASSUME RunInit PROVE RunInv
  OBVIOUS
<1>1. RestOK /\ Listed /\ JoinShape /\ ImageShape
  BY RunAssumption DEF RunInit, RestOK, Listed, JoinShape, ImageShape, Live, Terminal
<1>2. BlockedExact
  BY DEF RunInit, BlockedExact, Settling
<1>3. OwnersOK
  BY DEF RunInit, OwnersOK, WorkerPlaces
<1>4. /\ Fresh(active, worker) /\ Driven(active, worker) /\ Alone(active) /\ Expiry(active)
      /\ Doubt(active) /\ Quarantine(active) /\ Generation(active)
  BY DEF RunInit, Fresh, Driven, ConsumerPlaces, Alone, Expiry, Settling, Doubt, Quarantine, Generation
<1>5. Reservation(active) /\ Leased(worker) /\ Owners(active, worker)
  BY DEF RunInit, Reservation, Leased, ChatLease, Steps, NoStepNoLease, Owners, Live
<1>6. NoGhost(line["image"], active)
  BY DEF RunInit, NoGhost, Kinds
<1>7. closed \in BOOLEAN
  BY DEF RunInit
<1> QED
  BY <1>1, <1>2, <1>3, <1>4, <1>5, <1>6, <1>7 DEF RunInv, Fixed, Held

-----------------------------------------------------------------------------
(* schedule. *)

Open(k) == ~closed /\ k \notin quarantined /\ blocked[k] = 0

\* What schedule does to the lines, and to the owners and the workers: S is
\* whom it starts.
Relined(k) ==
    /\ line' \in [Kinds -> Seq(Runs)] /\ \A j \in Kinds : j # k => line'[j] = line[j]
    /\ Open(k)' => \A i \in 1..Len(line'[k]) : kind[line'[k][i]] = k /\ state'[line'[k][i]] = "queued"
    /\ ~Open(k)' => line' = line
Started(S, k, act, at) ==
    /\ active' = act \cup S
    /\ worker' = [r \in Runs |-> IF r \in S THEN "top" ELSE at[r]]
    /\ \A r \in S : /\ Open(k)' /\ kind[r] = k /\ state'[r] = "queued"
                    /\ \A a \in act : kind[a] # k
                    /\ \A s \in S : s = r
    /\ Open(k)' /\ (\A a \in act : kind[a] # k) /\ S = {} =>
          \A i \in 1..Len(order') : ~(kind[order'[i]] = k /\ state'[order'[i]] = "queued")

\* What schedule does to the owners, the workers and the line of its kind:
\* it starts at most one run, a queued one of a free kind, and leaves nobody
\* waiting in a kind it could start.
LEMMA ScheduleFacts ==
    ASSUME NEW k \in Kinds, NEW act \in SUBSET Runs, NEW at \in [Runs -> WorkerPlaces],
           kind' = kind, order' \in Seq(Runs), line \in [Kinds -> Seq(Runs)], Schedule(k, act, at)
    PROVE  Relined(k) /\ \E S \in SUBSET Runs : Started(S, k, act, at)
<1> DEFINE q == Queued(k, order', state')
           idle == \A a \in act : kind[a] # k
           S == IF Open(k)' /\ idle /\ q # <<>> THEN {Head(q)} ELSE {}
<1>1. /\ q \in Seq(Runs)
      /\ \A n \in 1..Len(q) : kind[q[n]] = k /\ state'[q[n]] = "queued"
      /\ q = <<>> => \A i \in 1..Len(order') : ~(kind[order'[i]] = k /\ state'[order'[i]] = "queued")
  <2> HIDE DEF q
  <2>1. q = Queued(k, order', state')
    BY DEF q
  <2> QED
    BY <2>1, QueuedFacts
<1>2. /\ line' = IF Open(k)' THEN [line EXCEPT ![k] = q] ELSE line
      /\ active' = act \cup S
      /\ worker' = [r \in Runs |-> IF r \in S THEN "top" ELSE at[r]]
  BY DEF Schedule, Starts, Open
<1> HIDE DEF q
<1>3. q # <<>> => Head(q) \in Runs /\ kind[Head(q)] = k /\ state'[Head(q)] = "queued"
  <2> SUFFICES ASSUME q # <<>> PROVE Head(q) \in Runs /\ kind[Head(q)] = k /\ state'[Head(q)] = "queued"
    OBVIOUS
  <2>1. Head(q) = q[1] /\ 1 \in 1..Len(q) /\ q[1] \in Runs
    BY <1>1
  <2> QED
    BY <1>1, <2>1
<1>4. line' \in [Kinds -> Seq(Runs)] /\ \A j \in Kinds : j # k => line'[j] = line[j]
  BY <1>1, <1>2
<1>5. (Open(k)' => line'[k] = q) /\ (~Open(k)' => line' = line)
  BY <1>2
<1>6. S \in SUBSET Runs
  BY <1>3
<1>7. \A r \in S : /\ Open(k)' /\ kind[r] = k /\ state'[r] = "queued"
                   /\ \A a \in act : kind[a] # k
                   /\ \A s \in S : s = r
  BY <1>3
<1>8. Open(k)' /\ idle /\ S = {} => q = <<>>
  OBVIOUS
<1>9. Relined(k)
  BY <1>1, <1>4, <1>5 DEF Relined
<1>10. Started(S, k, act, at)
  BY <1>1, <1>2, <1>7, <1>8 DEF Started
<1> HIDE DEF S
<1> QED
  BY <1>6, <1>9, <1>10

\* An image's kind is free as long as the manager is not closed.
LEMMA ImagesAreFree ==
    ASSUME RestOK, BlockedExact, ImageShape, NEW act, Quarantine(act)
    PROVE  ~closed => "image" \notin quarantined /\ blocked["image"] = 0
BY DEF RestOK, BlockedExact, ImageShape, Quarantine, Settling, Kinds

\* The same after a step.
LEMMA ImagesAreFreeAfter ==
    ASSUME RestOK', BlockedExact', ImageShape', NEW act, Quarantine(act)'
    PROVE  ~closed' => "image" \notin quarantined' /\ blocked'["image"] = 0
BY DEF RestOK, BlockedExact, ImageShape, Quarantine, Settling, Kinds

\* A schedule that follows a change completes the invariant.
LEMMA ScheduleKeeps ==
    ASSUME NEW k \in Serial, NEW act \in SUBSET Runs, NEW at \in [Runs -> WorkerPlaces],
           kind' = kind, line \in [Kinds -> Seq(Runs)], Schedule(k, act, at),
           Fixed', (closed \in BOOLEAN)', Held(act, at)', OwnersBut(k, act, at)',
           \A i \in 1..Len(line["image"]) :
              /\ kind[line["image"][i]] = "image"
              /\ k # "image" /\ ~closed' => state'[line["image"][i]] = "queued" \/ line["image"][i] \in act
    PROVE  RunInv'
<1>0. k \in Kinds /\ "image" \in Kinds
  BY DEF Serial, Kinds
<1>a. RestOK' /\ Listed' /\ JoinShape' /\ BlockedExact' /\ ImageShape' /\ order' \in Seq(Runs)
  BY DEF Fixed, RestOK
<1>b. /\ Fresh(act, at)' /\ Driven(act, at)' /\ Alone(act)' /\ Expiry(act)' /\ Doubt(act)'
      /\ Quarantine(act)' /\ Generation(act)' /\ Reservation(act)' /\ Leased(at)'
  BY DEF Held
<1>s. Relined(k) /\ \E S \in SUBSET Runs : Started(S, k, act, at)
  BY <1>0, <1>a, ScheduleFacts
<1>1. /\ line' \in [Kinds -> Seq(Runs)] /\ \A j \in Kinds : j # k => line'[j] = line[j]
      /\ Open(k)' => \A i \in 1..Len(line'[k]) : kind[line'[k][i]] = k /\ state'[line'[k][i]] = "queued"
      /\ ~Open(k)' => line' = line
  BY <1>s DEF Relined
<1>2. PICK S \in SUBSET Runs :
            /\ active' = act \cup S
            /\ worker' = [r \in Runs |-> IF r \in S THEN "top" ELSE at[r]]
            /\ \A r \in S : /\ Open(k)' /\ kind[r] = k /\ state'[r] = "queued"
                            /\ \A a \in act : kind[a] # k
                            /\ \A s \in S : s = r
            /\ Open(k)' /\ (\A a \in act : kind[a] # k) /\ S = {} =>
                  \A i \in 1..Len(order') : ~(kind[order'[i]] = k /\ state'[order'[i]] = "queued")
  BY <1>s DEF Started
<1>3. \A r \in S : r \notin act /\ at[r] = "none" /\ r \notin expired' /\ joiner'[r] = "none"
  <2>1. \A r \in S : r \in Runs /\ r \notin act /\ state'[r] \in Live /\ ~closed'
    BY <1>2 DEF Live, Open
  <2>2. \A r \in S : at[r] = "none"
    BY <2>1 DEF OwnersBut, HasToWait
  <2> QED
    BY <1>b, <2>1, <2>2 DEF Fresh
<1>4. \A r \in Runs : /\ r \in active' <=> r \in act \/ r \in S
                      /\ worker'[r] = IF r \in S THEN "top" ELSE at[r]
  BY <1>2
<1>5. OwnersOK'
  BY <1>1, <1>2 DEF OwnersOK, WorkerPlaces
<1>6. Fresh(active, worker)' /\ Driven(active, worker)'
  BY <1>b, <1>2, <1>3, <1>4 DEF Fresh, Driven, ConsumerPlaces
<1>7. Alone(active)'
  BY <1>b, <1>2 DEF Alone
<1>8. Expiry(active)'
  BY <1>b, <1>3, <1>4 DEF Expiry, Settling
<1>9. Doubt(active)'
  BY <1>b, <1>2 DEF Doubt
<1>10. Quarantine(active)'
  BY <1>b, <1>2 DEF Quarantine, Open
<1>11. Generation(active)'
  <2> SUFFICES ASSUME NEW r \in active', kind[r] \in Serial, NEW s \in Runs, s # r, kind[s] = kind[r], s \in expired'
               PROVE  stopper'[s] = "ok"
    BY DEF Generation
  <2>1. CASE r \in act
    BY <1>b, <2>1 DEF Generation
  <2>2. CASE r \in S
    <3>1. s \notin act /\ ~closed' /\ kind[s] \notin quarantined'
      BY <1>2, <2>2 DEF Open
    <3> QED
      BY <1>b, <3>1 DEF Doubt
  <2> QED
    BY <1>2, <2>1, <2>2
<1>12. Reservation(active)' /\ Leased(worker)'
  <2>1. Reservation(active)'
    BY <1>b, <1>2 DEF Reservation
  <2>2. ASSUME NEW r \in Runs
        PROVE  /\ ChatLease(kind[r], worker'[r], state'[r], lease'[r], joiner'[r])
               /\ NoStepNoLease(worker'[r], lease'[r])
    <3>1. /\ ChatLease(kind[r], at[r], state'[r], lease'[r], joiner'[r])
          /\ NoStepNoLease(at[r], lease'[r])
      BY <1>b DEF Leased
    <3>2. CASE r \notin S
      BY <1>4, <3>1, <3>2
    <3>3. CASE r \in S
      <4>1. worker'[r] = "top" /\ lease'[r] = "none"
        BY <1>3, <1>4, <3>1, <3>3 DEF NoStepNoLease
      <4> QED
        BY <4>1 DEF ChatLease, NoStepNoLease, Steps
    <3> QED
      BY <3>2, <3>3
  <2>3. Leased(worker)'
    BY <2>2 DEF Leased
  <2> QED
    BY <2>1, <2>3
<1>13. Owners(active, worker)'
  <2> SUFFICES ASSUME NEW r \in Runs, state'[r] \in Live, r \notin active', ~closed'
               PROVE  HasToWait(r, worker)' /\ Behind(r, active)'
    BY DEF Owners
  <2>1. r \notin act /\ r \notin S
    BY <1>4
  <2>2. /\ state'[r] = "queued" /\ at[r] = "none" /\ kind[r] \in Serial
        /\ kind[r] # k => blocked'[kind[r]] > 0 \/ \E s \in act : kind[s] = kind[r]
    BY <2>1 DEF OwnersBut, HasToWait, Behind
  <2>3. HasToWait(r, worker)'
    BY <1>4, <2>1, <2>2 DEF HasToWait
  <2>4. ASSUME NEW s \in active', kind[s] = kind[r] PROVE Behind(r, active)'
    BY <2>4 DEF Behind
  <2>5. ASSUME blocked'[kind[r]] > 0 PROVE Behind(r, active)'
    BY <2>5 DEF Behind
  <2>6. ASSUME NEW s \in act, kind[s] = kind[r] PROVE Behind(r, active)'
    BY <1>2, <2>4, <2>6
  <2>7. ASSUME kind[r] = k, ~(blocked'[kind[r]] > 0), \A s \in act : kind[s] # kind[r]
        PROVE  Behind(r, active)'
    <3>1. k \notin quarantined'
      BY <1>b, <2>7 DEF Quarantine
    <3>2. blocked'[k] \in Nat
      BY <1>0, <1>a DEF RestOK
    <3>3. Open(k)' /\ \A a \in act : kind[a] # k
      BY <2>7, <3>1, <3>2 DEF Open
    <3>4. \E i \in 1..Len(order') : order'[i] = r
      BY <1>a, <2>2 DEF Listed
    <3>5. S # {}
      BY <1>2, <2>2, <2>7, <3>3, <3>4
    <3>6. PICK s \in S : TRUE
      BY <3>5
    <3>7. s \in active' /\ kind[s] = kind[r]
      BY <1>2, <2>7
    <3> QED
      BY <2>4, <3>7
  <2> QED
    BY <2>2, <2>3, <2>5, <2>6, <2>7
<1>14. NoGhost(line["image"], active)'
  <2>1. CASE k = "image"
    <3>1. ~closed' => Open(k)'
      BY <1>a, <1>b, <2>1, ImagesAreFreeAfter DEF Open
    <3>2. kind' = kind
      OBVIOUS
    <3>3. CASE Open(k)'
      <4>1. ASSUME NEW i \in 1..Len(line'["image"])
            PROVE  kind'[line'["image"][i]] = "image" /\ state'[line'["image"][i]] = "queued"
        <5>1. kind[line'[k][i]] = k /\ state'[line'[k][i]] = "queued"
          BY <1>1, <2>1, <3>3
        <5> QED
          BY <2>1, <3>2, <5>1
      <4> QED
        BY <4>1 DEF NoGhost
    <3>4. CASE ~Open(k)'
      BY <1>1, <2>1, <3>1, <3>2, <3>4 DEF NoGhost
    <3> QED
      BY <3>3, <3>4
  <2>2. CASE k # "image"
    <3>1. line'["image"] = line["image"]
      BY <1>0, <1>1, <2>2
    <3> QED
      BY <1>2, <2>2, <3>1 DEF NoGhost
  <2> QED
    BY <2>1, <2>2
<1>15. Held(active, worker)'
  BY <1>6, <1>7, <1>8, <1>9, <1>10, <1>11, <1>12 DEF Held
<1> QED
  BY <1>5, <1>13, <1>14, <1>15 DEF RunInv

-----------------------------------------------------------------------------
(***************************************************************************)
(* A step of one run that has a worker: where it changes the row, the      *)
(* worker, the lease and the verdict of that run only, and at most tells   *)
(* it to stop.  Most actions are such steps.                               *)
(***************************************************************************)

\* What such a step leaves alone.
Untouched ==
    /\ kind' = kind /\ order' = order /\ active' = active /\ blocked' = blocked
    /\ quarantined' = quarantined /\ releases' = releases /\ closed' = closed
    /\ expired' = expired /\ stopper' = stopper /\ abandoned' = abandoned

\* Rows that no invariant but the type invariant speaks of.
LooseOK ==
    /\ approval' \in [Runs -> {"none", "pending", "answered"}]
    /\ cancelled' \subseteq Runs /\ tried' \subseteq Runs /\ wake' \subseteq Runs

RowStep(r, st) ==
    /\ state' = [state EXCEPT ![r] = st]
    /\ st = state[r] \/ (r \in active /\ state[r] \in Live /\ st \in Live \cup Terminal)

WorkStep(r, st, to) ==
    /\ worker[r] \notin {"none", "gone"} /\ to \in WorkerPlaces \ {"none", "gone"}
    /\ worker' = [worker EXCEPT ![r] = to]
    /\ to = "exit" => st \in Terminal
    /\ to \in ConsumerPlaces => kind[r] # "image"

VerdictStep(r, to) ==
    /\ verdict' \in [Runs -> {"none", "ok", "error", "stopped"} \cup Terminal]
    /\ \A q \in Runs : q # r => verdict'[q] = verdict[q]
    /\ to = "finish" => verdict'[r] \in Terminal
    /\ to = "settle" => verdict'[r] \in {"ok", "error", "stopped"}

LeaseStep(r, st, to) ==
    /\ lease' \in [Runs -> {"none", "held", "late"}]
    /\ \A q \in Runs : q # r =>
          lease'[q] = lease[q] \/ (lease'[q] = "none" /\ lease[q] = "held" /\ state[q] \in Terminal)
    /\ kind[r] = "image" => lease'[r] = "none"
    /\ NoStepNoLease(to, lease'[r])
    /\ ChatLease(kind[r], to, st, lease'[r], joiner'[r])

JoinStep(r) ==
    /\ \/ joiner' = joiner
       \/ joiner' = [joiner EXCEPT ![r] = "waiting"] /\ joiner[r] = "none" /\ kind[r] \in JoinCancel
    /\ stopped \subseteq stopped' /\ stopped' \subseteq Runs
    /\ joiner' # joiner => r \in stopped'

LineStep ==
    /\ line' \in [Kinds -> Seq(Runs)]
    /\ \A i \in 1..Len(line'["image"]) :
          \E j \in 1..Len(line["image"]) : line'["image"][i] = line["image"][j]

\* Such a step keeps the invariant.
LEMMA StepKeeps ==
    ASSUME RunInv, NEW r \in Runs, NEW st, NEW to,
           Untouched, LooseOK, RowStep(r, st), WorkStep(r, st, to), VerdictStep(r, to),
           LeaseStep(r, st, to), JoinStep(r), LineStep
    PROVE  RunInv'
<1>a. RestOK /\ Listed /\ JoinShape /\ BlockedExact /\ ImageShape /\ OwnersOK
  BY DEF RunInv, Fixed
<1>b. /\ Fresh(active, worker) /\ Driven(active, worker) /\ Alone(active) /\ Expiry(active)
      /\ Doubt(active) /\ Quarantine(active) /\ Generation(active) /\ Reservation(active)
      /\ Leased(worker) /\ Owners(active, worker) /\ NoGhost(line["image"], active)
  BY DEF RunInv, Held
<1>1. \A q \in Runs : /\ state'[q] = IF q = r THEN st ELSE state[q]
                      /\ worker'[q] = IF q = r THEN to ELSE worker[q]
  BY <1>a DEF RowStep, WorkStep, RestOK, OwnersOK
<1>2. \A q \in Runs : /\ joiner'[q] = joiner[q] \/ (q = r /\ joiner[q] = "none" /\ joiner'[q] = "waiting"
                                                   /\ kind[q] \in JoinCancel /\ q \in stopped')
                      /\ q \in stopped => q \in stopped'
  BY <1>a DEF JoinStep, RestOK
<1>3. state[r] # "none" /\ (r \in active \/ (r \in expired /\ state[r] \in Terminal /\ st = state[r]))
  BY <1>b DEF Fresh, Driven, Expiry, WorkStep, RowStep, Live, Terminal
<1>4. st \in Live \cup Terminal /\ (state[r] \in Terminal => st = state[r])
  BY <1>3, <1>a DEF RowStep, RestOK, Live, Terminal
<1>5. RestOK'
  <2>1. state' \in [Runs -> {"none"} \cup Live \cup Terminal]
    BY <1>a, <1>4 DEF RestOK, RowStep
  <2>2. joiner' \in [Runs -> {"none", "waiting", "late", "stopping", "ending", "over"}]
    BY <1>a DEF RestOK, JoinStep
  <2> QED
    BY <1>a, <2>1, <2>2 DEF RestOK, Untouched, LooseOK, VerdictStep, LeaseStep, JoinStep
<1>6. OwnersOK'
  BY <1>a DEF OwnersOK, Untouched, WorkStep, LineStep
<1>7. Listed'
  BY <1>a, <1>1, <1>3 DEF Listed, Untouched
<1>8. JoinShape'
  BY <1>a, <1>1, <1>2, <1>4 DEF JoinShape, Untouched
<1>9. \A q \in Runs : Settling(q)' <=> Settling(q)
  BY <1>2 DEF Settling
<1>10. BlockedExact'
  BY <1>a, <1>9 DEF BlockedExact, Untouched
<1>11. ImageShape'
  BY <1>a, <1>2 DEF ImageShape, Untouched, LeaseStep, JoinCancel
<1>12. Fresh(active, worker)'
  BY <1>b, <1>1, <1>2, <1>3, <1>4 DEF Fresh, Untouched, WorkStep, Live, Terminal
<1>13. Driven(active, worker)'
  BY <1>b, <1>1, <1>3, <1>4 DEF Driven, Untouched, WorkStep, VerdictStep
<1>14. Alone(active)' /\ Doubt(active)' /\ Generation(active)'
  BY <1>b DEF Alone, Doubt, Generation, Untouched
<1>15. Expiry(active)'
  BY <1>b, <1>1, <1>2, <1>3, <1>9 DEF Expiry, Untouched
<1>16. Quarantine(active)'
  BY <1>b, <1>1, <1>3 DEF Quarantine, Untouched
<1>17. Reservation(active)'
  <2>1. \A q \in releases' : state'[q] \in Live \/ q \in active'
    BY <1>a, <1>b, <1>1, <1>3 DEF Reservation, Untouched, RestOK
  <2>2. ASSUME NEW q \in Runs, kind'[q] = "image", state'[q] \in Live, ~closed' PROVE q \in releases'
    <3>1. kind[q] = "image" /\ ~closed /\ state[q] \in Live
      BY <1>1, <2>2 DEF Untouched, RowStep
    <3> QED
      BY <1>b, <3>1 DEF Reservation, Untouched
  <2> QED
    BY <2>1, <2>2 DEF Reservation
<1>18. Leased(worker)'
  <2> SUFFICES ASSUME NEW q \in Runs
               PROVE  /\ ChatLease(kind'[q], worker'[q], state'[q], lease'[q], joiner'[q])
                      /\ NoStepNoLease(worker'[q], lease'[q])
    BY DEF Leased
  <2>1. CASE q = r
    BY <1>1, <2>1 DEF LeaseStep, Untouched
  <2>2. CASE q # r
    <3>1. /\ ChatLease(kind[q], worker[q], state[q], lease[q], joiner[q])
          /\ NoStepNoLease(worker[q], lease[q])
      BY <1>b DEF Leased
    <3>2. /\ kind'[q] = kind[q] /\ worker'[q] = worker[q] /\ state'[q] = state[q] /\ joiner'[q] = joiner[q]
          /\ lease'[q] = lease[q] \/ (lease'[q] = "none" /\ lease[q] = "held" /\ state[q] \in Terminal)
      BY <1>1, <1>2, <2>2 DEF LeaseStep, Untouched
    <3> QED
      BY <3>1, <3>2 DEF ChatLease, NoStepNoLease, Live, Terminal
  <2> QED
    BY <2>1, <2>2
<1>19. Owners(active, worker)'
  <2> SUFFICES ASSUME NEW q \in Runs, state'[q] \in Live, q \notin active', ~closed'
               PROVE  HasToWait(q, worker)' /\ Behind(q, active)'
    BY DEF Owners
  <2>1. q # r
    BY <1>1, <1>3 DEF Untouched, Live, Terminal
  <2>2. HasToWait(q, worker) /\ Behind(q, active)
    BY <1>b, <1>1, <2>1 DEF Owners, Untouched
  <2>3. HasToWait(q, worker)'
    BY <1>1, <2>1, <2>2 DEF HasToWait, Untouched
  <2>4. Behind(q, active)'
    BY <2>2 DEF Behind, Untouched
  <2> QED
    BY <2>3, <2>4
<1>20. NoGhost(line["image"], active)'
  <2> SUFFICES ASSUME NEW i \in 1..Len(line'["image"])
               PROVE  /\ kind'[line'["image"][i]] = "image"
                      /\ ~closed' => state'[line'["image"][i]] = "queued" \/ line'["image"][i] \in active'
    BY DEF NoGhost
  <2>1. PICK j \in 1..Len(line["image"]) : line'["image"][i] = line["image"][j]
    BY DEF LineStep
  <2> DEFINE q == line["image"][j]
  <2>2. kind[q] = "image" /\ (~closed => state[q] = "queued" \/ q \in active) /\ q \in Runs
    BY <1>a, <1>b DEF NoGhost, Untouched, OwnersOK, Kinds
  <2> HIDE DEF q
  <2>3. kind'[q] = "image" /\ (~closed' => state'[q] = "queued" \/ q \in active')
    BY <1>1, <1>3, <2>2 DEF Untouched, Terminal
  <2> QED
    BY <2>1, <2>3 DEF q
<1>21. closed' \in BOOLEAN
  BY DEF Untouched, RunInv
<1> QED
  BY <1>5, <1>6, <1>7, <1>8, <1>10, <1>11, <1>12, <1>13, <1>14, <1>15, <1>16, <1>17, <1>18, <1>19,
     <1>20, <1>21 DEF RunInv, Fixed, Held

\* What is known of a run that has a worker.
LEMMA AtWork ==
    ASSUME RunInv, NEW r \in Runs, worker[r] \notin {"none", "gone"}
    PROVE  /\ kind[r] \in Kinds /\ state[r] \in Live \cup Terminal
           /\ state[r] \in Live => r \in active
           /\ r \in active \/ r \in expired
           /\ lease[r] \in {"none", "held", "late"} /\ (kind[r] = "image" => lease[r] = "none")
           /\ NoStepNoLease(worker[r], lease[r])
           /\ ChatLease(kind[r], worker[r], state[r], lease[r], joiner[r])
           /\ joiner[r] # "none" => r \in stopped
           /\ worker[r] = "finish" => verdict[r] \in Terminal
           /\ worker[r] = "settle" => verdict[r] \in {"ok", "error", "stopped"}
           /\ worker[r] \in ConsumerPlaces => kind[r] # "image"
BY DEF RunInv, Fixed, RestOK, Listed, ImageShape, JoinShape, OwnersOK, Held, Fresh, Driven, Expiry,
       Leased, Live, Terminal

\* The types of what a step changes.
LEMMA RunTypes ==
    ASSUME RunInv
    PROVE  /\ state \in [Runs -> {"none"} \cup Live \cup Terminal]
           /\ worker \in [Runs -> WorkerPlaces]
           /\ verdict \in [Runs -> {"none", "ok", "error", "stopped"} \cup Terminal]
           /\ lease \in [Runs -> {"none", "held", "late"}]
           /\ joiner \in [Runs -> {"none", "waiting", "late", "stopping", "ending", "over"}]
           /\ stopper \in [Runs -> {"none", "calling", "ok", "failed"}]
           /\ approval \in [Runs -> {"none", "pending", "answered"}]
           /\ blocked \in [Kinds -> Nat] /\ line \in [Kinds -> Seq(Runs)]
           /\ stopped \subseteq Runs /\ active \subseteq Runs /\ expired \subseteq Runs
           /\ cancelled \subseteq Runs /\ tried \subseteq Runs /\ wake \subseteq Runs
           /\ kind \in Mixes /\ order \in Seq(Runs)
BY DEF RunInv, Fixed, RestOK, OwnersOK

\* A line that stays, and a row that stays.
LEMMA Stays ==
    ASSUME RunInv
    PROVE  /\ line' = line => LineStep
           /\ \A r \in Runs : state' = state => RowStep(r, state[r])
           /\ joiner' = joiner /\ stopped' = stopped => \A r \in Runs : JoinStep(r)
           /\ approval' = approval /\ cancelled' = cancelled /\ tried' = tried /\ wake' = wake => LooseOK
<1>1. line' = line => LineStep
  BY RunTypes DEF LineStep
<1>2. \A r \in Runs : state' = state => RowStep(r, state[r])
  BY RunTypes DEF RowStep
<1>3. joiner' = joiner /\ stopped' = stopped => \A r \in Runs : JoinStep(r)
  BY RunTypes DEF JoinStep
<1>4. approval' = approval /\ cancelled' = cancelled /\ tried' = tried /\ wake' = wake => LooseOK
  BY RunTypes DEF LooseOK
<1> QED
  BY <1>1, <1>2, <1>3, <1>4

\* A change leaves the state asked for, or failed.
LEMMA CommittedFacts ==
    ASSUME NEW r \in Runs, NEW x, NEW c, NEW st \in Committed(r, x, c)
    PROVE  st = x \/ (st = "failed" /\ (x # state[r] \/ c))
BY DEF Committed

\* stopTerminal, and the bound on a join, of a run that is owned.
LEMMA TellsToStop ==
    ASSUME RunInv, NEW r \in active
    PROVE  /\ StopTerminal(r) => JoinStep(r) /\ releases' = releases
           /\ /\ stopped' = stopped \cup {r}
              /\ BoundJoin(IF kind[r] \in JoinCancel THEN {r} ELSE {})
              => JoinStep(r)
<1>1. r \in Runs
  BY RunTypes
<1>2. ASSUME stopped' = stopped \cup {r}, BoundJoin(IF kind[r] \in JoinCancel THEN {r} ELSE {})
      PROVE  JoinStep(r)
  <2>1. stopped \subseteq stopped' /\ stopped' \subseteq Runs /\ r \in stopped'
    BY <1>1, <1>2, RunTypes
  <2>2. CASE kind[r] \in JoinCancel /\ joiner[r] = "none"
    <3>1. joiner' = [joiner EXCEPT ![r] = "waiting"]
      BY <1>1, <1>2, <2>2, RunTypes DEF BoundJoin
    <3> QED
      BY <2>1, <2>2, <3>1 DEF JoinStep
  <2>3. CASE ~(kind[r] \in JoinCancel /\ joiner[r] = "none")
    <3>1. joiner' = joiner
      BY <1>1, <1>2, <2>3, RunTypes DEF BoundJoin
    <3> QED
      BY <2>1, <3>1 DEF JoinStep
  <2> QED
    BY <2>2, <2>3
<1>3. ASSUME StopTerminal(r) PROVE JoinStep(r) /\ releases' = releases
  BY <1>2, <1>3 DEF StopTerminal
<1> QED
  BY <1>2, <1>3

\* After a step ends, its lease is given back or outlives it.
LEMMA LeaseEnds ==
    ASSUME RunInv, NEW r \in Runs, worker[r] \in Steps, NEW st,
           \/ lease' = LeaseAfter(lease, r)
           \/ state' = [state EXCEPT ![r] = st] /\ lease' = LeaseAfter(Leases(lease, state'), r)
    PROVE  LeaseStep(r, st, "consume")
<1>1. lease \in [Runs -> {"none", "held", "late"}] /\ state \in [Runs -> {"none"} \cup Live \cup Terminal]
  BY RunTypes
<1>2. kind[r] = "image" => lease[r] = "none"
  BY AtWork DEF Steps
<1>3. lease' \in [Runs -> {"none", "held", "late"}]
  BY <1>1 DEF LeaseAfter, Leases
<1>4. \A q \in Runs : q # r =>
          lease'[q] = lease[q] \/ (lease'[q] = "none" /\ lease[q] = "held" /\ state[q] \in Terminal)
  BY <1>1 DEF LeaseAfter, Leases
<1>5. kind[r] = "image" => lease'[r] = "none"
  BY <1>1, <1>2 DEF LeaseAfter, Leases
<1> QED
  BY <1>3, <1>4, <1>5 DEF LeaseStep, NoStepNoLease, ChatLease, Steps

-----------------------------------------------------------------------------
(* The worker's steps. *)

\* The loop's head.
LEMMA DriveKeeps == ASSUME RunInv, NEW r \in Runs, Drive(r) PROVE RunInv'
<1>1. /\ worker[r] = "top" /\ Untouched /\ lease' = lease /\ state' = state
      /\ line' = line /\ joiner' = joiner /\ stopped' = stopped
      /\ approval' = approval /\ cancelled' = cancelled /\ tried' = tried /\ wake' = wake
  BY DEF Drive, rows, control, joins, Untouched
<1>2. lease[r] = "none"
  BY <1>1, AtWork DEF NoStepNoLease
<1>3. LineStep /\ RowStep(r, state[r]) /\ JoinStep(r) /\ LooseOK
  BY <1>1, Stays
<1>4. PICK to \in {"finish", "consume", "begin"} :
         /\ Moves(r, to)
         /\ (to = "begin" => ~Consumer(r)) /\ (to = "consume" => Consumer(r))
         /\ (verdict' = verdict /\ to # "finish") \/ (\E v \in Terminal : Says(r, v))
  BY DEF Drive, Terminal
<1>5. WorkStep(r, state[r], to)
  BY <1>1, <1>4 DEF WorkStep, Moves, WorkerPlaces, ConsumerPlaces, Consumer
<1>6. VerdictStep(r, to)
  <2>1. to # "settle"
    BY <1>4
  <2>2. CASE verdict' = verdict /\ to # "finish"
    BY <2>1, <2>2, RunTypes DEF VerdictStep
  <2>3. CASE \E v \in Terminal : Says(r, v)
    BY <2>1, <2>3, RunTypes DEF VerdictStep, Says
  <2> QED
    BY <1>4, <2>2, <2>3
<1>7. LeaseStep(r, state[r], to)
  BY <1>1, <1>2, <1>4, RunTypes DEF LeaseStep, NoStepNoLease, ChatLease, Steps, Consumer
<1> QED
  BY <1>1, <1>3, <1>5, <1>6, <1>7, StepKeeps

\* A consumer's admission.
LEMMA ConsumerStepsKeeps == ASSUME RunInv, NEW r \in Runs, ConsumerSteps(r) PROVE RunInv'
<1>1. /\ worker[r] = "consume" /\ Untouched /\ lease' = [lease EXCEPT ![r] = "held"] /\ state' = state
      /\ line' = line /\ joiner' = joiner /\ stopped' = stopped /\ verdict' = verdict
      /\ approval' = approval /\ cancelled' = cancelled /\ tried' = tried /\ wake' = wake
      /\ state[r] \in Live /\ r \notin cancelled /\ lease[r] = "none"
  BY DEF ConsumerSteps, rows, control, joins, Untouched, Admittable
<1>2. PICK to \in {"begin", "asking"} : Moves(r, to) /\ (r \notin stopped \/ kind[r] # "chat")
  BY DEF ConsumerSteps
<1>3. LineStep /\ RowStep(r, state[r]) /\ JoinStep(r) /\ LooseOK
  BY <1>1, Stays
<1>8. kind[r] # "image" /\ (joiner[r] # "none" => r \in stopped)
  BY <1>1, AtWork DEF ConsumerPlaces
<1>4. WorkStep(r, state[r], to)
  BY <1>1, <1>2, <1>8 DEF WorkStep, Moves, WorkerPlaces
<1>5. VerdictStep(r, to)
  BY <1>1, <1>2, RunTypes DEF VerdictStep
<1>6. LeaseStep(r, state[r], to)
  BY <1>1, <1>2, <1>8, RunTypes DEF LeaseStep, NoStepNoLease, ChatLease
<1> QED
  BY <1>1, <1>3, <1>4, <1>5, <1>6, StepKeeps

\* A consumer's return.
LEMMA ConsumerReturnsKeeps == ASSUME RunInv, NEW r \in Runs, ConsumerReturns(r) PROVE RunInv'
<1>1. /\ worker[r] = "consume" /\ Untouched /\ lease' = [lease EXCEPT ![r] = "none"] /\ state' = state
      /\ line' = line /\ joiner' = joiner /\ stopped' = stopped /\ Moves(r, "finish")
      /\ approval' = approval /\ cancelled' = cancelled /\ tried' = tried /\ wake' = wake
      /\ \E v \in {"done", "failed"} : Says(r, v)
  BY DEF ConsumerReturns, rows, control, joins, Untouched
<1>3. LineStep /\ RowStep(r, state[r]) /\ JoinStep(r) /\ LooseOK
  BY <1>1, Stays
<1>4. WorkStep(r, state[r], "finish")
  BY <1>1 DEF WorkStep, Moves, WorkerPlaces, ConsumerPlaces
<1>5. VerdictStep(r, "finish")
  BY <1>1, RunTypes DEF VerdictStep, Says, Terminal
<1>6. LeaseStep(r, state[r], "finish")
  BY <1>1, RunTypes DEF LeaseStep, NoStepNoLease, ChatLease, Steps
<1> QED
  BY <1>1, <1>3, <1>4, <1>5, <1>6, StepKeeps

\* Work.Abort.
LEMMA ConsumerAbortsKeeps == ASSUME RunInv, NEW r \in Runs, ConsumerAborts(r) PROVE RunInv'
<1>1. /\ worker[r] \notin {"none", "top", "finish", "exit", "gone"} /\ Untouched /\ lease' = lease
      /\ state' = state /\ worker' = worker /\ verdict' = verdict /\ line' = line
      /\ stopped' = stopped \cup {r} /\ BoundJoin({r}) /\ kind[r] = "agent" /\ r \in active
      /\ approval' = approval /\ cancelled' = cancelled /\ tried' = tried /\ wake' = wake
  BY DEF ConsumerAborts, rows, control, Untouched
<1>2. JoinStep(r)
  BY <1>1, TellsToStop DEF JoinCancel
<1>3. LineStep /\ RowStep(r, state[r]) /\ LooseOK
  BY <1>1, Stays
<1>4. WorkStep(r, state[r], worker[r])
  BY <1>1, RunTypes DEF WorkStep
<1>5. VerdictStep(r, worker[r])
  BY <1>1, AtWork, RunTypes DEF VerdictStep
<1>6. LeaseStep(r, state[r], worker[r])
  BY <1>1, AtWork, RunTypes DEF LeaseStep, NoStepNoLease, ChatLease
<1> QED
  BY <1>1, <1>2, <1>3, <1>4, <1>5, <1>6, StepKeeps

\* attempt's first change.
LEMMA BeginAttemptKeeps == ASSUME RunInv, NEW r \in Runs, BeginAttempt(r) PROVE RunInv'
<1>0. /\ worker[r] = "begin" /\ kind' = kind /\ order' = order /\ active' = active
      /\ blocked' = blocked /\ quarantined' = quarantined /\ closed' = closed
      /\ expired' = expired /\ stopper' = stopper /\ abandoned' = abandoned /\ line' = line
      /\ cancelled' = cancelled /\ approval' = approval /\ wake' = wake
  BY DEF BeginAttempt
<1>1. /\ kind[r] \in Kinds /\ (state[r] \in Live => r \in active)
      /\ (kind[r] = "image" => lease[r] = "none") /\ lease[r] \in {"none", "held", "late"}
      /\ ChatLease(kind[r], "begin", state[r], lease[r], joiner[r])
  BY <1>0, AtWork
<1>2. LineStep
  BY <1>0, Stays
<1>3. ASSUME MayRun(r), NEW st \in Committed(r, IF Consumer(r) THEN "running" ELSE "queued", FALSE),
             state' = [state EXCEPT ![r] = st], tried' = IF Consumer(r) THEN tried ELSE tried \cup {r},
             verdict' = verdict,
             IF st = "failed"
             THEN /\ Moves(r, "consume") /\ lease' = LeaseAfter(Leases(lease, state'), r) /\ StopTerminal(r)
             ELSE /\ Moves(r, "execute") /\ UNCHANGED <<lease, stopped, joiner, releases>>
      PROVE  RunInv'
  <2>1. state[r] \in Live /\ r \in active
    BY <1>1, <1>3 DEF MayRun, Live
  <2>2. st \in {"running", "queued", "failed"} /\ (st = "failed" => Consumer(r))
    BY <1>3, CommittedFacts DEF MayRun, Consumer
  <2>3. RowStep(r, st) /\ LooseOK
    BY <1>0, <1>3, <2>1, <2>2, RunTypes DEF RowStep, LooseOK, Live, Terminal
  <2>4. CASE st = "failed"
    <3>1. JoinStep(r) /\ releases' = releases
      BY <1>3, <2>1, <2>4, TellsToStop
    <3>2. LeaseStep(r, st, "consume")
      BY <1>0, <1>3, <2>4, LeaseEnds DEF Steps
    <3>3. WorkStep(r, st, "consume") /\ VerdictStep(r, "consume")
      BY <1>0, <1>3, <2>2, <2>4, RunTypes DEF WorkStep, VerdictStep, Moves, WorkerPlaces, Consumer
    <3>4. Untouched
      BY <1>0, <3>1 DEF Untouched
    <3> QED
      BY <1>2, <2>3, <3>1, <3>2, <3>3, <3>4, StepKeeps
  <2>5. CASE st # "failed"
    <3>1. /\ Moves(r, "execute") /\ lease' = lease /\ stopped' = stopped /\ joiner' = joiner
          /\ releases' = releases
      BY <1>3, <2>5
    <3>2. JoinStep(r) /\ Untouched
      BY <1>0, <3>1, Stays DEF Untouched
    <3>3. WorkStep(r, st, "execute") /\ VerdictStep(r, "execute")
      BY <1>0, <1>3, <3>1, RunTypes DEF WorkStep, VerdictStep, Moves, WorkerPlaces, ConsumerPlaces
    <3>4. LeaseStep(r, st, "execute")
      BY <1>1, <2>1, <2>2, <2>5, <3>1, RunTypes
         DEF LeaseStep, NoStepNoLease, ChatLease, Steps, Live, Terminal
    <3> QED
      BY <1>2, <2>3, <3>2, <3>3, <3>4, StepKeeps
  <2> QED
    BY <2>4, <2>5
<1>4. ASSUME IF Consumer(r) THEN Moves(r, "consume") /\ UNCHANGED verdict
             ELSE Moves(r, "finish") /\ Says(r, "failed"),
             lease' = LeaseAfter(lease, r), UNCHANGED <<state, tried, stopped, joiner, releases>>
      PROVE  RunInv'
  <2>1. Untouched /\ JoinStep(r) /\ RowStep(r, state[r]) /\ LooseOK
    BY <1>0, <1>4, Stays DEF Untouched
  <2>2. CASE Consumer(r)
    <3>1. WorkStep(r, state[r], "consume") /\ VerdictStep(r, "consume")
      BY <1>0, <1>4, <2>2, RunTypes DEF WorkStep, VerdictStep, Moves, WorkerPlaces, Consumer
    <3>2. LeaseStep(r, state[r], "consume")
      BY <1>0, <1>4, LeaseEnds DEF Steps
    <3> QED
      BY <1>2, <2>1, <3>1, <3>2, StepKeeps
  <2>3. CASE ~Consumer(r)
    <3>1. WorkStep(r, state[r], "finish") /\ VerdictStep(r, "finish")
      BY <1>0, <1>4, <2>3, RunTypes
         DEF WorkStep, VerdictStep, Moves, Says, WorkerPlaces, ConsumerPlaces, Terminal
    <3>2. LeaseStep(r, state[r], "finish")
      BY <1>1, <1>4, <2>3, RunTypes
         DEF LeaseStep, LeaseAfter, NoStepNoLease, ChatLease, Steps, Consumer, Kinds
    <3> QED
      BY <1>2, <2>1, <3>1, <3>2, StepKeeps
  <2> QED
    BY <2>2, <2>3
<1> QED
  BY <1>3, <1>4 DEF BeginAttempt

\* The executor's callback.
LEMMA TakeSlotKeeps == ASSUME RunInv, NEW r \in Runs, TakeSlot(r) PROVE RunInv'
<1>0. /\ worker[r] = "execute" /\ Untouched /\ line' = line /\ joiner' = joiner /\ stopped' = stopped
      /\ approval' = approval /\ cancelled' = cancelled /\ tried' = tried /\ wake' = wake
  BY DEF TakeSlot, control, joins, Untouched
<1>1. /\ kind[r] \in Kinds /\ (state[r] \in Live => r \in active)
      /\ (kind[r] = "image" => lease[r] = "none") /\ lease[r] \in {"none", "held", "late"}
      /\ ChatLease(kind[r], "execute", state[r], lease[r], joiner[r])
  BY <1>0, AtWork
<1>2. LineStep /\ JoinStep(r) /\ LooseOK
  BY <1>0, Stays
<1>3. ASSUME NEW to \in {"acquired", "settle"}, Moves(r, to), NEW st
      PROVE  WorkStep(r, st, to)
  BY <1>0, <1>3 DEF WorkStep, Moves, WorkerPlaces, ConsumerPlaces
<1>4. ASSUME MayRun(r), NEW st \in Committed(r, "running", FALSE), Writes(r, st),
             IF st = "running" THEN Moves(r, "acquired") /\ UNCHANGED verdict
             ELSE Moves(r, "settle") /\ Says(r, "error")
      PROVE  RunInv'
  <2>1. state[r] \in Live /\ r \in active
    BY <1>1, <1>4 DEF MayRun, Live
  <2>2. st = "running" \/ st = "failed"
    BY <1>4, CommittedFacts
  <2>3. RowStep(r, st)
    BY <1>4, <2>1, <2>2 DEF RowStep, Writes, Live, Terminal
  <2> DEFINE to == IF st = "running" THEN "acquired" ELSE "settle"
  <2>4. to \in {"acquired", "settle"} /\ Moves(r, to)
    BY <1>4
  <2>5. VerdictStep(r, to)
    BY <1>4, RunTypes DEF VerdictStep, Says
  <2>6. LeaseStep(r, st, to)
    <3>1. /\ lease' \in [Runs -> {"none", "held", "late"}]
          /\ \A q \in Runs : q # r =>
                lease'[q] = lease[q] \/ (lease'[q] = "none" /\ lease[q] = "held" /\ state[q] \in Terminal)
          /\ kind[r] = "image" => lease'[r] = "none"
          /\ st = "running" => lease'[r] = lease[r]
      BY <1>1, <1>4, RunTypes DEF Writes, Leases, Terminal
    <3>2. ChatLease(kind[r], to, st, lease'[r], joiner'[r])
      BY <1>0, <1>1, <2>1, <2>2, <3>1 DEF ChatLease, Steps, Live, Terminal
    <3>3. NoStepNoLease(to, lease'[r])
      BY DEF NoStepNoLease
    <3> QED
      BY <3>1, <3>2, <3>3 DEF LeaseStep
  <2>7. WorkStep(r, st, to)
    BY <1>3, <2>4
  <2> HIDE DEF to
  <2> QED
    BY <1>0, <1>2, <2>3, <2>5, <2>6, <2>7, StepKeeps
<1>5. ASSUME Moves(r, "settle"), Says(r, "error"), UNCHANGED <<state, lease>> PROVE RunInv'
  <2>1. RowStep(r, state[r]) /\ WorkStep(r, state[r], "settle")
    BY <1>3, <1>5, Stays
  <2>2. VerdictStep(r, "settle")
    BY <1>5, RunTypes DEF VerdictStep, Says
  <2>3. LeaseStep(r, state[r], "settle")
    BY <1>0, <1>1, <1>5, RunTypes DEF LeaseStep, ChatLease, NoStepNoLease, Steps
  <2> QED
    BY <1>0, <1>2, <2>1, <2>2, <2>3, StepKeeps
<1> QED
  BY <1>4, <1>5 DEF TakeSlot

\* A worker in a step goes on to the next; nothing but its verdict changes.
LEMMA InStepKeeps ==
    ASSUME RunInv, NEW r \in Runs, worker[r] \in Steps, NEW to \in Steps, Moves(r, to),
           to \in ConsumerPlaces => worker[r] \in ConsumerPlaces,
           Untouched, state' = state, lease' = lease, joiner' = joiner, stopped' = stopped,
           LooseOK, LineStep,
           \/ verdict' = verdict /\ to # "settle"
           \/ \E v \in {"ok", "error", "stopped"} : Says(r, v)
    PROVE  RunInv'
<1>1. RowStep(r, state[r]) /\ JoinStep(r)
  BY Stays
<1>2. WorkStep(r, state[r], to)
  BY AtWork DEF WorkStep, Moves, WorkerPlaces, Steps
<1>3. VerdictStep(r, to)
  BY RunTypes DEF VerdictStep, Says, Steps
<1>4. LeaseStep(r, state[r], to)
  <2>1. /\ (kind[r] = "image" => lease[r] = "none")
        /\ ChatLease(kind[r], worker[r], state[r], lease[r], joiner[r])
    BY AtWork DEF Steps
  <2>2. ChatLease(kind[r], to, state[r], lease'[r], joiner'[r])
    BY <2>1 DEF ChatLease
  <2>3. NoStepNoLease(to, lease'[r])
    BY DEF NoStepNoLease, Steps
  <2> QED
    BY <2>1, <2>2, <2>3, RunTypes DEF LeaseStep
<1> QED
  BY <1>1, <1>2, <1>3, <1>4, StepKeeps

\* The executor gives up, the engine answers, the consumer waits for an answer.
LEMMA WaitingKeeps ==
    ASSUME RunInv, NEW r \in Runs, NoSlot(r) \/ EngineAnswers(r) \/ AwaitAnswer(r)
    PROVE  RunInv'
<1>1. /\ Untouched /\ state' = state /\ lease' = lease /\ joiner' = joiner /\ stopped' = stopped
      /\ line' = line /\ approval' = approval /\ cancelled' = cancelled /\ tried' = tried /\ wake' = wake
  BY DEF NoSlot, EngineAnswers, AwaitAnswer, rows, control, joins, Untouched
<1>2. LooseOK /\ LineStep
  BY <1>1, Stays
<1>3. CASE NoSlot(r) \/ EngineAnswers(r)
  <2>1. worker[r] \in Steps /\ Moves(r, "settle") /\ \E v \in {"ok", "error", "stopped"} : Says(r, v)
    BY <1>3 DEF NoSlot, EngineAnswers, Steps
  <2> QED
    BY <1>1, <1>2, <2>1, InStepKeeps DEF Steps, ConsumerPlaces
<1>4. CASE AwaitAnswer(r)
  <2>1. worker[r] = "seen" /\ Moves(r, "listening") /\ verdict' = verdict
    BY <1>4 DEF AwaitAnswer
  <2> QED
    BY <1>1, <1>2, <2>1, InStepKeeps DEF Steps, ConsumerPlaces
<1> QED
  BY <1>3, <1>4

\* acquiredPosition takes places out of the line.
LEMMA LeavePositionKeeps == ASSUME RunInv, NEW r \in Runs, LeavePosition(r) PROVE RunInv'
<1>1. /\ worker[r] = "acquired" /\ Moves(r, "dispatched") /\ verdict' = verdict
      /\ Untouched /\ state' = state /\ lease' = lease /\ joiner' = joiner /\ stopped' = stopped
      /\ approval' = approval /\ cancelled' = cancelled /\ tried' = tried /\ wake' = wake
  BY DEF LeavePosition, rows, joins, Untouched
<1>2. LooseOK
  BY <1>1, Stays
<1>3. kind[r] \in Kinds
  BY <1>1, AtWork
<1> DEFINE s == line[kind[r]]
           I == {i \in 1..Len(s) : s[i] # r}
           e == Entries(s, I)
<1>4. s \in Seq(Runs) /\ I \in SUBSET (1..Len(s)) /\ line' = [line EXCEPT ![kind[r]] = e]
  BY <1>3, RunTypes DEF LeavePosition
<1> HIDE DEF s, I
<1>5. e \in Seq(Runs) /\ \A n \in 1..Len(e) : \E i \in I : e[n] = s[i]
  BY <1>4, EntriesFacts
<1> HIDE DEF e
<1>6. line' \in [Kinds -> Seq(Runs)]
  BY <1>4, <1>5, RunTypes
<1>7. \A i \in 1..Len(line'["image"]) :
          \E j \in 1..Len(line["image"]) : line'["image"][i] = line["image"][j]
  <2>1. CASE kind[r] = "image"
    <3>1. line'["image"] = e /\ s = line["image"]
      BY <1>3, <1>4, <2>1, RunTypes DEF s
    <3> QED
      BY <1>4, <1>5, <3>1
  <2>2. CASE kind[r] # "image"
    <3>1. line'["image"] = line["image"]
      BY <1>4, <2>2, RunTypes DEF Kinds
    <3> QED
      BY <3>1
  <2> QED
    BY <2>1, <2>2
<1>8. LineStep
  BY <1>6, <1>7 DEF LineStep
<1> QED
  BY <1>1, <1>2, <1>8, InStepKeeps DEF Steps, ConsumerPlaces

\* attempt's last change.
LEMMA SettleAttemptKeeps == ASSUME RunInv, NEW r \in Runs, SettleAttempt(r) PROVE RunInv'
<1>0. /\ worker[r] = "settle" /\ kind' = kind /\ order' = order /\ active' = active
      /\ blocked' = blocked /\ quarantined' = quarantined /\ closed' = closed
      /\ expired' = expired /\ stopper' = stopper /\ abandoned' = abandoned /\ line' = line
      /\ cancelled' = cancelled /\ approval' = approval /\ wake' = wake /\ tried' = tried
  BY DEF SettleAttempt
<1>1. /\ kind[r] \in Kinds /\ state[r] \in Live \cup Terminal /\ (state[r] \in Live => r \in active)
      /\ (kind[r] = "image" => lease[r] = "none") /\ verdict[r] \in {"ok", "error", "stopped"}
  BY <1>0, AtWork
<1>2. PICK st \in Committed(r, SettledState(r), FALSE) :
         /\ state' = [state EXCEPT ![r] = st]
         /\ IF Consumer(r)
            THEN /\ Moves(r, "consume")
                 /\ lease' = LeaseAfter(Leases(lease, state'), r)
                 /\ Says(r, "none")
                 /\ UNCHANGED <<stopped, joiner, releases>>
            ELSE /\ IF verdict[r] # "ok" \/ st # SettledState(r)
                    THEN Moves(r, "finish") /\ Says(r, "failed")
                    ELSE /\ Moves(r, IF st \in Terminal THEN "exit" ELSE "top")
                         /\ Says(r, "none")
                 /\ UNCHANGED <<lease, stopped, joiner, releases>>
  BY DEF SettleAttempt
<1>3. Untouched /\ joiner' = joiner /\ stopped' = stopped
  BY <1>0, <1>2 DEF Untouched
<1>4. LineStep /\ JoinStep(r) /\ LooseOK
  BY <1>0, <1>3, Stays
<1>5. RowStep(r, st)
  <2>1. SettledState(r) \in Live \cup Terminal /\ (state[r] \in Terminal => SettledState(r) = state[r])
    BY <1>1 DEF SettledState, Live, Terminal
  <2>2. st = SettledState(r) \/ (st = "failed" /\ SettledState(r) # state[r])
    BY DEF Committed
  <2> QED
    BY <1>1, <1>2, <2>1, <2>2 DEF RowStep, Live, Terminal
<1>6. CASE Consumer(r)
  <2>1. /\ Moves(r, "consume") /\ lease' = LeaseAfter(Leases(lease, state'), r) /\ Says(r, "none")
        /\ state' = [state EXCEPT ![r] = st]
    BY <1>2, <1>6
  <2>2. LeaseStep(r, st, "consume")
    BY <1>0, <2>1, LeaseEnds DEF Steps
  <2>3. WorkStep(r, st, "consume") /\ VerdictStep(r, "consume")
    BY <1>0, <1>6, <2>1, RunTypes DEF WorkStep, VerdictStep, Moves, Says, WorkerPlaces, Consumer
  <2> QED
    BY <1>3, <1>4, <1>5, <2>2, <2>3, StepKeeps
<1>7. CASE ~Consumer(r)
  <2>1. lease' = lease /\ kind[r] = "image"
    BY <1>1, <1>2, <1>7 DEF Consumer, Kinds
  <2>2. PICK to \in {"finish", "exit", "top"} :
           /\ Moves(r, to) /\ (to = "exit" => st \in Terminal)
           /\ Says(r, IF to = "finish" THEN "failed" ELSE "none")
    BY <1>2, <1>7
  <2>3. WorkStep(r, st, to)
    BY <1>0, <2>2 DEF WorkStep, Moves, WorkerPlaces, ConsumerPlaces
  <2>4. VerdictStep(r, to)
    BY <2>2, RunTypes DEF VerdictStep, Says, Terminal
  <2>5. LeaseStep(r, st, to)
    BY <1>1, <2>1, <2>2, RunTypes DEF LeaseStep, NoStepNoLease, ChatLease
  <2> QED
    BY <1>3, <1>4, <1>5, <2>3, <2>4, <2>5, StepKeeps
<1> QED
  BY <1>6, <1>7

\* A consumer's step ends and gives back its lease; the row is what it was.
LEMMA StepEndsKeeps ==
    ASSUME RunInv, NEW r \in Runs, worker[r] \in Steps, kind[r] # "image", Moves(r, "consume"),
           Untouched, state' = state, lease' = LeaseAfter(lease, r), joiner' = joiner,
           stopped' = stopped, verdict' = verdict, LooseOK, LineStep
    PROVE  RunInv'
<1>1. RowStep(r, state[r]) /\ JoinStep(r)
  BY Stays
<1>2. WorkStep(r, state[r], "consume") /\ VerdictStep(r, "consume")
  BY RunTypes DEF WorkStep, VerdictStep, Moves, WorkerPlaces, Steps
<1>3. LeaseStep(r, state[r], "consume")
  BY LeaseEnds
<1> QED
  BY <1>1, <1>2, <1>3, StepKeeps

\* Approval's change.
LEMMA AskApprovalKeeps == ASSUME RunInv, NEW r \in Runs, AskApproval(r) PROVE RunInv'
<1>0. /\ worker[r] = "asking" /\ kind' = kind /\ order' = order /\ active' = active
      /\ blocked' = blocked /\ quarantined' = quarantined /\ closed' = closed
      /\ expired' = expired /\ stopper' = stopper /\ abandoned' = abandoned /\ line' = line
      /\ cancelled' = cancelled /\ wake' = wake /\ tried' = tried /\ verdict' = verdict
  BY DEF AskApproval
<1>1. /\ kind[r] # "image" /\ (state[r] \in Live => r \in active)
      /\ ChatLease(kind[r], "asking", state[r], lease[r], joiner[r])
  BY <1>0, AtWork DEF ConsumerPlaces
<1>2. LineStep
  BY <1>0, Stays
<1>3. ASSUME state[r] \in Live, NEW st \in Committed(r, "waiting", FALSE), state' = [state EXCEPT ![r] = st],
             st = "waiting", approval' = [approval EXCEPT ![r] = "pending"],
             Moves(r, "approving"), UNCHANGED <<lease, stopped, joiner, releases>>
      PROVE  RunInv'
  <2>1. Untouched /\ JoinStep(r)
    BY <1>0, <1>3, Stays DEF Untouched
  <2>2. LooseOK /\ RowStep(r, st)
    BY <1>0, <1>1, <1>3, RunTypes DEF LooseOK, RowStep, Live
  <2>3. WorkStep(r, st, "approving") /\ VerdictStep(r, "approving")
    BY <1>0, <1>1, <1>3, RunTypes DEF WorkStep, VerdictStep, Moves, WorkerPlaces
  <2>4. ChatLease(kind[r], "approving", st, lease'[r], joiner'[r])
    BY <1>1, <1>3 DEF ChatLease, Steps, Live, Terminal
  <2>5. LeaseStep(r, st, "approving")
    BY <1>1, <1>3, <2>4, RunTypes DEF LeaseStep, NoStepNoLease
  <2> QED
    BY <1>2, <2>1, <2>2, <2>3, <2>5, StepKeeps
<1>4. ASSUME state[r] \in Live, NEW st \in Committed(r, "waiting", FALSE), state' = [state EXCEPT ![r] = st],
             st # "waiting", Moves(r, "consume"), lease' = LeaseAfter(Leases(lease, state'), r),
             StopTerminal(r), UNCHANGED approval
      PROVE  RunInv'
  <2>1. st = "failed" /\ r \in active
    BY <1>1, <1>4, CommittedFacts
  <2>2. JoinStep(r) /\ releases' = releases
    BY <1>4, <2>1, TellsToStop
  <2>3. Untouched
    BY <1>0, <2>2 DEF Untouched
  <2>4. LooseOK /\ RowStep(r, st)
    BY <1>0, <1>1, <1>4, <2>1, RunTypes DEF LooseOK, RowStep, Live, Terminal
  <2>5. WorkStep(r, st, "consume") /\ VerdictStep(r, "consume")
    BY <1>0, <1>1, <1>4, RunTypes DEF WorkStep, VerdictStep, Moves, WorkerPlaces
  <2>6. LeaseStep(r, st, "consume")
    BY <1>0, <1>4, LeaseEnds DEF Steps
  <2> QED
    BY <1>2, <2>2, <2>3, <2>4, <2>5, <2>6, StepKeeps
<1>5. ASSUME Moves(r, "consume"), lease' = LeaseAfter(lease, r),
             UNCHANGED <<state, approval, stopped, joiner, releases>>
      PROVE  RunInv'
  <2>1. Untouched /\ LooseOK
    BY <1>0, <1>5, Stays DEF Untouched
  <2> QED
    BY <1>0, <1>1, <1>2, <1>5, <2>1, StepEndsKeeps DEF Steps
<1> QED
  BY <1>3, <1>4, <1>5 DEF AskApproval

\* The two sides of the wait for an answer.
LEMMA ApprovalWaitKeeps ==
    ASSUME RunInv, NEW r \in Runs, CheckApproval(r) \/ HearAnswer(r)
    PROVE  RunInv'
<1>1. /\ worker[r] \in {"approving", "listening"} /\ Untouched /\ state' = state
      /\ joiner' = joiner /\ stopped' = stopped /\ verdict' = verdict
      /\ line' = line /\ approval' = approval /\ cancelled' = cancelled /\ tried' = tried
      /\ wake' = wake \/ wake' = wake \ {r}
  BY DEF CheckApproval, HearAnswer, rows, control, joins, Untouched
<1>2. LooseOK /\ LineStep
  BY <1>1, Stays, RunTypes DEF LooseOK
<1>3. kind[r] # "image"
  BY <1>1, AtWork DEF ConsumerPlaces
<1>4. \/ Moves(r, "consume") /\ lease' = LeaseAfter(lease, r)
      \/ \E to \in {"seen", "approving"} : Moves(r, to) /\ lease' = lease
  BY DEF CheckApproval, HearAnswer
<1>5. CASE Moves(r, "consume") /\ lease' = LeaseAfter(lease, r)
  BY <1>1, <1>2, <1>3, <1>5, StepEndsKeeps DEF Steps
<1>6. CASE \E to \in {"seen", "approving"} : Moves(r, to) /\ lease' = lease
  BY <1>1, <1>2, <1>6, InStepKeeps DEF Steps, ConsumerPlaces
<1> QED
  BY <1>4, <1>5, <1>6

\* finish: the run is terminal when its worker leaves.
LEMMA FinishKeeps == ASSUME RunInv, NEW r \in Runs, Finish(r) PROVE RunInv'
<1>0. /\ worker[r] = "finish" /\ kind' = kind /\ order' = order /\ active' = active
      /\ blocked' = blocked /\ quarantined' = quarantined /\ closed' = closed
      /\ expired' = expired /\ stopper' = stopper /\ abandoned' = abandoned /\ line' = line
      /\ cancelled' = cancelled /\ approval' = approval /\ wake' = wake /\ tried' = tried
      /\ Moves(r, "exit") /\ Says(r, "none") /\ FinishAs(r, verdict[r])
  BY DEF Finish
<1>1. /\ kind[r] \in Kinds /\ state[r] \in Live \cup Terminal /\ (state[r] \in Live => r \in active)
      /\ verdict[r] \in Terminal /\ lease[r] = "none"
  BY <1>0, AtWork DEF NoStepNoLease
<1>2. LineStep /\ LooseOK
  BY <1>0, Stays
<1>3. VerdictStep(r, "exit")
  BY <1>0, RunTypes DEF VerdictStep, Says
<1>4. ASSUME NEW st \in Terminal PROVE WorkStep(r, st, "exit")
  BY <1>0 DEF WorkStep, Moves, WorkerPlaces, ConsumerPlaces
<1>5. CASE state[r] \in Terminal
  <2>1. UNCHANGED <<state, lease, stopped, joiner, releases>>
    BY <1>0, <1>5 DEF FinishAs
  <2>2. Untouched /\ RowStep(r, state[r]) /\ JoinStep(r)
    BY <1>0, <2>1, Stays DEF Untouched
  <2>3. LeaseStep(r, state[r], "exit")
    BY <1>1, <2>1, RunTypes DEF LeaseStep, NoStepNoLease, ChatLease, Steps
  <2> QED
    BY <1>2, <1>3, <1>4, <1>5, <2>2, <2>3, StepKeeps
<1>6. CASE state[r] \in Live
  <2>1. PICK st \in Committed(r, FinalState(r, verdict[r]), FALSE) :
           /\ Writes(r, st)
           /\ IF st # FinalState(r, verdict[r]) THEN StopTerminal(r)
              ELSE UNCHANGED <<stopped, joiner, releases>>
    BY <1>0, <1>6 DEF FinishAs, Live, Terminal
  <2>2. st \in Terminal /\ r \in active
    BY <1>1, <1>6, <2>1, CommittedFacts DEF FinalState, Terminal
  <2>3. JoinStep(r) /\ releases' = releases
    BY <2>1, <2>2, TellsToStop, Stays
  <2>4. Untouched /\ RowStep(r, st)
    BY <1>0, <1>6, <2>1, <2>2, <2>3 DEF Untouched, RowStep, Writes
  <2>5. LeaseStep(r, st, "exit")
    BY <1>1, <2>1, RunTypes DEF LeaseStep, NoStepNoLease, ChatLease, Steps, Writes, Leases
  <2> QED
    BY <1>2, <1>3, <1>4, <2>2, <2>3, <2>4, <2>5, StepKeeps
<1> QED
  BY <1>1, <1>5, <1>6

-----------------------------------------------------------------------------
(* What others do to a run: stopTerminal, the joiner, the life of the process. *)

\* A run that is terminal is told to stop, or gives back its reservation.
LEMMA ToldKeeps ==
    ASSUME RunInv, NEW r \in Runs, state[r] \in Terminal, StopTerminal(r),
           UNCHANGED <<kind, rows, active, blocked, quarantined, line, closed, worker, verdict,
                       lease, wake, expired, stopper, abandoned>>
    PROVE  RunInv'
<1>a. RestOK /\ Listed /\ JoinShape /\ BlockedExact /\ ImageShape /\ OwnersOK
  BY DEF RunInv, Fixed
<1>b. /\ Fresh(active, worker) /\ Driven(active, worker) /\ Alone(active) /\ Expiry(active)
      /\ Doubt(active) /\ Quarantine(active) /\ Generation(active) /\ Reservation(active)
      /\ Leased(worker) /\ Owners(active, worker) /\ NoGhost(line["image"], active)
  BY DEF RunInv, Held
<1>c. /\ kind' = kind /\ order' = order /\ state' = state /\ cancelled' = cancelled /\ tried' = tried
      /\ approval' = approval /\ active' = active /\ blocked' = blocked /\ quarantined' = quarantined
      /\ line' = line /\ closed' = closed /\ worker' = worker /\ verdict' = verdict /\ lease' = lease
      /\ wake' = wake /\ expired' = expired /\ stopper' = stopper /\ abandoned' = abandoned
  BY DEF rows
<1>1. /\ \A q \in Runs : /\ joiner'[q] = joiner[q] \/ (q = r /\ q \in active /\ joiner[q] = "none"
                                     /\ joiner'[q] = "waiting" /\ kind[q] \in JoinCancel /\ q \in stopped')
                         /\ q \in stopped => q \in stopped'
      /\ stopped' \subseteq Runs
      /\ joiner' \in [Runs -> {"none", "waiting", "late", "stopping", "ending", "over"}]
      /\ releases' = releases \/ (r \notin active /\ releases' = releases \ {r})
  <2>1. CASE r \in active
    <3>1. JoinStep(r) /\ releases' = releases
      BY <2>1, TellsToStop
    <3>2. stopped \subseteq stopped' /\ stopped' \subseteq Runs
      BY <3>1 DEF JoinStep
    <3>3. CASE joiner' = joiner
      BY <3>1, <3>2, <3>3, RunTypes
    <3>4. CASE joiner' # joiner
      <4>1. /\ joiner' = [joiner EXCEPT ![r] = "waiting"] /\ joiner[r] = "none"
            /\ kind[r] \in JoinCancel /\ r \in stopped'
        BY <3>1, <3>4 DEF JoinStep
      <4> QED
        BY <2>1, <3>1, <3>2, <4>1, RunTypes
    <3> QED
      BY <3>3, <3>4
  <2>2. CASE r \notin active
    BY <2>2, RunTypes DEF StopTerminal
  <2> QED
    BY <2>1, <2>2
<1>2. \A q \in Runs : Settling(q)' <=> Settling(q)
  BY <1>1 DEF Settling
<1>3. RestOK' /\ OwnersOK' /\ Listed'
  <2>1. RestOK'
    BY <1>a, <1>c, <1>1 DEF RestOK
  <2> QED
    BY <1>a, <1>c, <2>1 DEF OwnersOK, Listed
<1>4. JoinShape' /\ ImageShape'
  BY <1>a, <1>c, <1>1 DEF JoinShape, ImageShape, JoinCancel
<1>5. BlockedExact'
  BY <1>a, <1>c, <1>2 DEF BlockedExact
<1>6. Fresh(active, worker)' /\ Driven(active, worker)'
  BY <1>b, <1>c, <1>1 DEF Fresh, Driven
<1>7. Alone(active)' /\ Doubt(active)' /\ Quarantine(active)' /\ Generation(active)'
  BY <1>b, <1>c DEF Alone, Doubt, Quarantine, Generation
<1>8. Expiry(active)'
  BY <1>b, <1>c, <1>1, <1>2 DEF Expiry
<1>9. Reservation(active)'
  BY <1>b, <1>c, <1>1 DEF Reservation, Live, Terminal
<1>10. Leased(worker)'
  <2> SUFFICES ASSUME NEW q \in Runs
               PROVE  /\ ChatLease(kind[q], worker[q], state[q], lease[q], joiner'[q])
                      /\ NoStepNoLease(worker[q], lease[q])
    BY <1>c DEF Leased
  <2>1. /\ ChatLease(kind[q], worker[q], state[q], lease[q], joiner[q])
        /\ NoStepNoLease(worker[q], lease[q])
    BY <1>b DEF Leased
  <2> QED
    BY <1>1, <2>1 DEF ChatLease
<1>11. Owners(active, worker)' /\ NoGhost(line["image"], active)'
  BY <1>b, <1>c DEF Owners, HasToWait, Behind, NoGhost
<1>12. closed' \in BOOLEAN
  BY <1>c DEF RunInv
<1> QED
  BY <1>3, <1>4, <1>5, <1>6, <1>7, <1>8, <1>9, <1>10, <1>11, <1>12 DEF RunInv, Fixed, Held

\* Cancel of a run that has ended.
LEMMA CancelTerminalKeeps == ASSUME RunInv, NEW r \in Runs, CancelTerminal(r) PROVE RunInv'
BY ToldKeeps DEF CancelTerminal

\* Answer.
LEMMA AnswerKeeps == ASSUME RunInv, NEW r \in Runs, Answer(r) PROVE RunInv'
<1>0. UNCHANGED <<kind, order, cancelled, tried, active, blocked, quarantined, line, closed,
                  worker, verdict, expired, stopper, abandoned>>
  BY DEF Answer
<1>1. ASSUME state[r] \in Terminal, StopTerminal(r), UNCHANGED <<state, approval, lease, wake>>
      PROVE  RunInv'
  <2>1. UNCHANGED <<kind, rows, active, blocked, quarantined, line, closed, worker, verdict,
                    lease, wake, expired, stopper, abandoned>>
    BY <1>0, <1>1 DEF rows
  <2> QED
    BY <1>1, <2>1, ToldKeeps
<1>2. ASSUME state[r] = "waiting", r \in active, NEW st \in Committed(r, "running", FALSE), Writes(r, st),
             IF st = "running"
             THEN /\ wake' = Signalled(r)
                  /\ approval' = [approval EXCEPT ![r] = "answered"]
                  /\ UNCHANGED <<stopped, joiner, releases>>
             ELSE StopTerminal(r) /\ UNCHANGED <<wake, approval>>
      PROVE  RunInv'
  <2>1. worker[r] \notin {"none", "gone", "exit"} /\ worker[r] \in WorkerPlaces
    <3>1. Fresh(active, worker) /\ Driven(active, worker) /\ state[r] \notin Terminal
      BY <1>2 DEF RunInv, Held, Terminal
    <3> QED
      BY <1>2, <3>1, RunTypes DEF Fresh, Driven
  <2>2. st = "running" \/ st = "failed"
    BY <1>2, CommittedFacts
  <2>3. JoinStep(r) /\ releases' = releases
    BY <1>2, TellsToStop, Stays
  <2>4. Untouched /\ RowStep(r, st) /\ LineStep
    BY <1>0, <1>2, <2>2, <2>3, Stays DEF Untouched, RowStep, Writes, Live, Terminal
  <2>5. LooseOK
    BY <1>0, <1>2, RunTypes DEF LooseOK, Signalled
  <2>6. WorkStep(r, st, worker[r]) /\ VerdictStep(r, worker[r])
    BY <1>0, <2>1, AtWork, RunTypes DEF WorkStep, VerdictStep
  <2>7. LeaseStep(r, st, worker[r])
    <3>1. /\ lease[r] \in {"none", "held", "late"} /\ (kind[r] = "image" => lease[r] = "none")
          /\ ChatLease(kind[r], worker[r], state[r], lease[r], joiner[r])
          /\ NoStepNoLease(worker[r], lease[r])
      BY <2>1, AtWork
    <3>2. /\ lease' \in [Runs -> {"none", "held", "late"}]
          /\ \A q \in Runs : q # r =>
                lease'[q] = lease[q] \/ (lease'[q] = "none" /\ lease[q] = "held" /\ state[q] \in Terminal)
          /\ lease'[r] = lease[r] \/ (lease'[r] = "none" /\ st = "failed")
      BY <1>2, <2>2, RunTypes DEF Writes, Leases, Terminal
    <3>3. st = "running" => joiner'[r] = joiner[r]
      BY <1>2
    <3>4. ChatLease(kind[r], worker[r], st, lease'[r], joiner'[r])
      BY <1>2, <2>2, <3>1, <3>2, <3>3 DEF ChatLease, Live, Terminal
    <3>5. NoStepNoLease(worker[r], lease'[r])
      BY <3>1, <3>2 DEF NoStepNoLease
    <3> QED
      BY <3>1, <3>2, <3>4, <3>5 DEF LeaseStep
  <2> QED
    BY <2>3, <2>4, <2>5, <2>6, <2>7, StepKeeps
<1> QED
  BY <1>1, <1>2 DEF Answer

\* A joiner whose worker is gone, or whose run is not owned, does nothing more.
LEMMA JoinOverKeeps ==
    ASSUME RunInv, NEW r \in Runs, joiner[r] = "waiting", worker[r] = "gone" \/ r \notin active,
           joiner' = [joiner EXCEPT ![r] = "over"], stopped \subseteq stopped', stopped' \subseteq Runs,
           UNCHANGED <<kind, rows, control, worker, verdict, lease, wake, expired, stopper, abandoned>>
    PROVE  RunInv'
<1>a. RestOK /\ Listed /\ JoinShape /\ BlockedExact /\ ImageShape /\ OwnersOK
  BY DEF RunInv, Fixed
<1>b. /\ Fresh(active, worker) /\ Driven(active, worker) /\ Alone(active) /\ Expiry(active)
      /\ Doubt(active) /\ Quarantine(active) /\ Generation(active) /\ Reservation(active)
      /\ Leased(worker) /\ Owners(active, worker) /\ NoGhost(line["image"], active)
  BY DEF RunInv, Held
<1>c. /\ kind' = kind /\ order' = order /\ state' = state /\ cancelled' = cancelled /\ tried' = tried
      /\ approval' = approval /\ active' = active /\ blocked' = blocked /\ quarantined' = quarantined
      /\ line' = line /\ closed' = closed /\ worker' = worker /\ verdict' = verdict /\ lease' = lease
      /\ wake' = wake /\ expired' = expired /\ stopper' = stopper /\ abandoned' = abandoned
      /\ releases' = releases
  BY DEF rows, control
<1>1. \A q \in Runs : joiner'[q] = IF q = r THEN "over" ELSE joiner[q]
  BY RunTypes
<1>2. r \notin expired /\ stopper[r] # "calling"
  BY <1>a, <1>b DEF Expiry, JoinShape, Settling
<1>3. kind[r] = "chat" => worker[r] \notin Steps
  BY <1>b, <1>2 DEF Driven, Steps
<1>4. \A q \in Runs : Settling(q)' <=> Settling(q)
  BY <1>1 DEF Settling
<1>5. RestOK' /\ OwnersOK' /\ Listed'
  <2>1. RestOK'
    BY <1>a, <1>c DEF RestOK
  <2> QED
    BY <1>a, <1>c, <2>1 DEF OwnersOK, Listed
<1>6. JoinShape' /\ ImageShape'
  BY <1>a, <1>c, <1>1, <1>2 DEF JoinShape, ImageShape
<1>7. BlockedExact'
  BY <1>a, <1>c, <1>4 DEF BlockedExact
<1>8. Fresh(active, worker)' /\ Driven(active, worker)'
  BY <1>b, <1>c, <1>1 DEF Fresh, Driven
<1>9. /\ Alone(active)' /\ Doubt(active)' /\ Quarantine(active)' /\ Generation(active)'
      /\ Reservation(active)'
  BY <1>b, <1>c DEF Alone, Doubt, Quarantine, Generation, Reservation
<1>10. Expiry(active)'
  BY <1>b, <1>c, <1>1, <1>4 DEF Expiry
<1>11. Leased(worker)'
  <2> SUFFICES ASSUME NEW q \in Runs
               PROVE  /\ ChatLease(kind[q], worker[q], state[q], lease[q], joiner'[q])
                      /\ NoStepNoLease(worker[q], lease[q])
    BY <1>c DEF Leased
  <2>1. /\ ChatLease(kind[q], worker[q], state[q], lease[q], joiner[q])
        /\ NoStepNoLease(worker[q], lease[q])
    BY <1>b DEF Leased
  <2> QED
    BY <1>1, <1>3, <2>1 DEF ChatLease
<1>12. Owners(active, worker)' /\ NoGhost(line["image"], active)'
  BY <1>b, <1>c DEF Owners, HasToWait, Behind, NoGhost
<1>13. closed' \in BOOLEAN
  BY <1>c DEF RunInv
<1> QED
  BY <1>5, <1>6, <1>7, <1>8, <1>9, <1>10, <1>11, <1>12, <1>13 DEF RunInv, Fixed, Held

\* The worker is gone when its joiner looks.
LEMMA JoinerSeesDoneKeeps == ASSUME RunInv, NEW r \in Runs, JoinerSeesDone(r) PROVE RunInv'
<1>1. /\ joiner[r] = "waiting" /\ worker[r] = "gone" /\ joiner' = [joiner EXCEPT ![r] = "over"]
      /\ stopped' = stopped
      /\ UNCHANGED <<kind, rows, control, worker, verdict, lease, wake, expired, stopper, abandoned>>
  BY DEF JoinerSeesDone, work
<1> QED
  BY <1>1, JoinOverKeeps, RunTypes

\* The join bound passes.
LEMMA JoinerTimesOutKeeps == ASSUME RunInv, NEW r \in Runs, JoinerTimesOut(r) PROVE RunInv'
<1>a. RestOK /\ Listed /\ JoinShape /\ BlockedExact /\ ImageShape /\ OwnersOK
  BY DEF RunInv, Fixed
<1>b. /\ Fresh(active, worker) /\ Driven(active, worker) /\ Alone(active) /\ Expiry(active)
      /\ Doubt(active) /\ Quarantine(active) /\ Generation(active) /\ Reservation(active)
      /\ Leased(worker) /\ Owners(active, worker) /\ NoGhost(line["image"], active)
  BY DEF RunInv, Held
<1>c. /\ kind' = kind /\ order' = order /\ state' = state /\ cancelled' = cancelled /\ tried' = tried
      /\ approval' = approval /\ active' = active /\ quarantined' = quarantined
      /\ line' = line /\ closed' = closed /\ worker' = worker /\ verdict' = verdict
      /\ wake' = wake /\ abandoned' = abandoned /\ releases' = releases
      /\ joiner[r] = "waiting" /\ stopped' = stopped \cup {r} /\ rows' = rows
  BY DEF JoinerTimesOut, rows
<1>d. closed' \in BOOLEAN
  BY <1>c DEF RunInv
<1>e. OwnersOK' /\ Listed' /\ NoGhost(line["image"], active)' /\ Alone(active)' /\ Reservation(active)'
      /\ Quarantine(active)'
  BY <1>a, <1>b, <1>c DEF OwnersOK, Listed, NoGhost, Alone, Reservation, Quarantine
<1>1. r \notin expired /\ stopper[r] # "calling" /\ r \notin abandoned /\ ~Settling(r)
  BY <1>a, <1>b, <1>c DEF Expiry, JoinShape, Settling
<1>2. CASE r \notin active
  <2>1. joiner' = [joiner EXCEPT ![r] = "over"] /\ UNCHANGED <<lease, expired, blocked, stopper>>
    BY <1>2 DEF JoinerTimesOut
  <2>2. UNCHANGED <<kind, rows, control, worker, verdict, lease, wake, expired, stopper, abandoned>>
    BY <1>c, <2>1 DEF control
  <2>3. stopped \subseteq stopped' /\ stopped' \subseteq Runs
    BY <1>c, RunTypes
  <2> QED
    BY <1>2, <1>c, <2>1, <2>2, <2>3, JoinOverKeeps
<1>3. CASE r \in active /\ kind[r] = "chat"
  <2>1. /\ lease' = [lease EXCEPT ![r] = IF @ = "held" THEN "late" ELSE @]
        /\ joiner' = [joiner EXCEPT ![r] = "late"]
        /\ expired' = expired /\ blocked' = blocked /\ stopper' = stopper
    BY <1>3 DEF JoinerTimesOut, InProcess
  <2>2. \A q \in Runs : /\ joiner'[q] = IF q = r THEN "late" ELSE joiner[q]
                        /\ lease'[q] = IF q = r /\ lease[q] = "held" THEN "late" ELSE lease[q]
    BY <2>1, RunTypes
  <2>3. \A q \in Runs : Settling(q)' <=> Settling(q)
    BY <1>1, <2>2 DEF Settling
  <2>4. RestOK'
    BY <1>a, <1>c, <2>1 DEF RestOK
  <2>5. JoinShape' /\ ImageShape'
    BY <1>a, <1>c, <1>1, <1>3, <2>1, <2>2 DEF JoinShape, ImageShape
  <2>6. BlockedExact'
    BY <1>a, <1>c, <2>1, <2>3 DEF BlockedExact
  <2>7. Fresh(active, worker)' /\ Driven(active, worker)'
    BY <1>b, <1>c, <1>3, <2>1, <2>2 DEF Fresh, Driven
  <2>8. Doubt(active)' /\ Generation(active)'
    BY <1>b, <1>c, <2>1 DEF Doubt, Generation
  <2>9. Expiry(active)'
    BY <1>b, <1>c, <1>1, <2>1, <2>2, <2>3 DEF Expiry
  <2>10. Leased(worker)'
    <3> SUFFICES ASSUME NEW q \in Runs
                 PROVE  /\ ChatLease(kind[q], worker[q], state[q], lease'[q], joiner'[q])
                        /\ NoStepNoLease(worker[q], lease'[q])
      BY <1>c DEF Leased
    <3>1. /\ ChatLease(kind[q], worker[q], state[q], lease[q], joiner[q])
          /\ NoStepNoLease(worker[q], lease[q])
      BY <1>b DEF Leased
    <3> QED
      BY <2>2, <3>1 DEF ChatLease, NoStepNoLease
  <2>11. Owners(active, worker)'
    BY <1>b, <1>c, <2>1 DEF Owners, HasToWait, Behind
  <2> QED
    BY <1>d, <1>e, <2>4, <2>5, <2>6, <2>7, <2>8, <2>9, <2>10, <2>11 DEF RunInv, Fixed, Held
<1>4. CASE r \in active /\ kind[r] # "chat"
  <2>0. kind[r] \in Serial /\ kind[r] \in Kinds
    BY <1>a, <1>b, <1>4 DEF Listed, Fresh, Serial, Kinds
  <2>1. /\ expired' = expired \cup {r}
        /\ blocked' = [blocked EXCEPT ![kind[r]] = @ + 1]
        /\ stopper' = [stopper EXCEPT ![r] = "calling"]
        /\ joiner' = [joiner EXCEPT ![r] = "stopping"]
        /\ lease' = lease
    BY <1>4 DEF JoinerTimesOut, InProcess
  <2>2. \A q \in Runs : /\ joiner'[q] = IF q = r THEN "stopping" ELSE joiner[q]
                        /\ stopper'[q] = IF q = r THEN "calling" ELSE stopper[q]
                        /\ Settling(q)' <=> q = r \/ Settling(q)
    BY <2>1, RunTypes DEF Settling
  <2>3. \A q \in Runs : Settling(q) => kind[q] # kind[r]
    BY <1>1, <1>4, <1>b, <2>0 DEF Expiry, Alone
  <2>4. BlockedExact'
    <3> SUFFICES ASSUME NEW k \in Kinds
                 PROVE  blocked'[k] = IF \E q \in Runs : kind[q] = k /\ Settling(q)' THEN 1 ELSE 0
      BY <1>c DEF BlockedExact
    <3>1. CASE k = kind[r]
      <4>1. blocked[k] = 0
        BY <1>a, <2>3, <3>1 DEF BlockedExact
      <4>2. blocked'[k] = 1
        BY <2>0, <2>1, <3>1, <4>1, RunTypes
      <4> QED
        BY <2>2, <3>1, <4>2
    <3>2. CASE k # kind[r]
      <4>1. blocked'[k] = blocked[k]
        BY <2>1, <3>2, RunTypes
      <4>2. (\E q \in Runs : kind[q] = k /\ Settling(q)') <=> (\E q \in Runs : kind[q] = k /\ Settling(q))
        BY <2>2, <3>2
      <4> QED
        BY <1>a, <4>1, <4>2 DEF BlockedExact
    <3> QED
      BY <3>1, <3>2
  <2>5. \A k \in Kinds : blocked'[k] \in Nat /\ (blocked[k] > 0 => blocked'[k] > 0)
    BY <2>0, <2>1, RunTypes
  <2>6. RestOK'
    <3>1. blocked' \in [Kinds -> Nat]
      BY <2>1, <2>5, RunTypes
    <3> QED
      BY <1>a, <1>c, <2>1, <3>1 DEF RestOK
  <2>7. JoinShape' /\ ImageShape'
    BY <1>a, <1>c, <1>1, <1>4, <2>1, <2>2 DEF JoinShape, ImageShape
  <2>8. Fresh(active, worker)' /\ Driven(active, worker)'
    BY <1>b, <1>c, <1>4, <2>1, <2>2 DEF Fresh, Driven
  <2>9. \A q \in expired : q # r /\ kind[q] = kind[r] => stopper[q] = "ok"
    BY <1>b, <1>4, <2>0, RunTypes DEF Generation
  <2>10. Doubt(active)'
    <3>1. \A q \in expired' : q \in Runs
      BY <2>1, RunTypes
    <3> QED
      BY <1>b, <1>c, <1>4, <2>1, <2>2, <2>9, <3>1 DEF Doubt
  <2>11. Generation(active)'
    BY <1>b, <1>c, <1>4, <2>0, <2>1, <2>2 DEF Generation, Alone
  <2>12. Expiry(active)'
    BY <1>b, <1>c, <1>4, <2>0, <2>1, <2>2 DEF Expiry
  <2>13. Leased(worker)'
    <3> SUFFICES ASSUME NEW q \in Runs
                 PROVE  /\ ChatLease(kind[q], worker[q], state[q], lease[q], joiner'[q])
                        /\ NoStepNoLease(worker[q], lease[q])
      BY <1>c, <2>1 DEF Leased
    <3>1. /\ ChatLease(kind[q], worker[q], state[q], lease[q], joiner[q])
          /\ NoStepNoLease(worker[q], lease[q])
      BY <1>b DEF Leased
    <3> QED
      BY <1>4, <2>2, <3>1 DEF ChatLease
  <2>14. Owners(active, worker)'
    <3> SUFFICES ASSUME NEW q \in Runs, state[q] \in Live, q \notin active, ~closed
                 PROVE  HasToWait(q, worker)' /\ Behind(q, active)'
      BY <1>c DEF Owners
    <3>1. HasToWait(q, worker) /\ Behind(q, active)
      BY <1>b DEF Owners
    <3>2. HasToWait(q, worker)'
      BY <1>c, <3>1 DEF HasToWait
    <3>3. kind[q] \in Kinds
      BY <3>1 DEF HasToWait, Serial, Kinds
    <3>4. Behind(q, active)'
      BY <1>c, <2>5, <3>1, <3>3 DEF Behind
    <3> QED
      BY <3>2, <3>4
  <2> QED
    BY <1>d, <1>e, <2>4, <2>6, <2>7, <2>8, <2>10, <2>11, <2>12, <2>13, <2>14 DEF RunInv, Fixed, Held
<1> QED
  BY <1>2, <1>3, <1>4

\* The joiner ends the row of a run whose worker is late.
LEMMA JoinerFinishesKeeps == ASSUME RunInv, NEW r \in Runs, JoinerFinishes(r) PROVE RunInv'
<1>a. RestOK /\ Listed /\ JoinShape /\ BlockedExact /\ ImageShape /\ OwnersOK
  BY DEF RunInv, Fixed
<1>b. /\ Fresh(active, worker) /\ Driven(active, worker) /\ Alone(active) /\ Expiry(active)
      /\ Doubt(active) /\ Quarantine(active) /\ Generation(active) /\ Reservation(active)
      /\ Leased(worker) /\ Owners(active, worker) /\ NoGhost(line["image"], active)
  BY DEF RunInv, Held
<1>c. /\ kind' = kind /\ order' = order /\ cancelled' = cancelled /\ tried' = tried
      /\ approval' = approval /\ active' = active /\ blocked' = blocked /\ quarantined' = quarantined
      /\ line' = line /\ closed' = closed /\ worker' = worker /\ verdict' = verdict
      /\ wake' = wake /\ expired' = expired /\ stopper' = stopper /\ abandoned' = abandoned
      /\ releases' = releases /\ stopped' = stopped /\ joiner[r] \in {"late", "stopping"}
      /\ joiner' = [joiner EXCEPT ![r] = IF @ = "late" THEN "over" ELSE "ending"]
  BY DEF JoinerFinishes, control
<1>1. PICK st \in Terminal :
         /\ state' = [state EXCEPT ![r] = st] /\ (state[r] \in Terminal => st = state[r])
         /\ lease' = lease \/ lease' = Leases(lease, state')
  <2>1. CASE state[r] \in Terminal
    <3>1. state' = state /\ lease' = lease
      BY <2>1 DEF JoinerFinishes
    <3>2. state' = [state EXCEPT ![r] = state[r]]
      BY <3>1, RunTypes
    <3> QED
      BY <2>1, <3>1, <3>2
  <2>2. CASE state[r] \notin Terminal
    <3>1. PICK st \in Committed(r, "cancelled", FALSE) : Writes(r, st)
      BY <2>2 DEF JoinerFinishes
    <3>2. st \in Terminal
      BY <3>1, CommittedFacts DEF Terminal
    <3> QED
      BY <2>2, <3>1, <3>2 DEF Writes
  <2> QED
    BY <2>1, <2>2
<1>2. \A q \in Runs :
         /\ state'[q] = IF q = r THEN st ELSE state[q]
         /\ state[q] \in Terminal => state'[q] = state[q]
         /\ state'[q] \in Live => q # r
         /\ joiner'[q] = IF q = r THEN (IF joiner[q] = "late" THEN "over" ELSE "ending") ELSE joiner[q]
         /\ Settling(q)' <=> Settling(q)
  <2>1. \A q \in Runs : state'[q] = IF q = r THEN st ELSE state[q]
    BY <1>1, RunTypes
  <2>2. \A q \in Runs : joiner'[q] = IF q = r THEN (IF joiner[q] = "late" THEN "over" ELSE "ending") ELSE joiner[q]
    BY <1>c, RunTypes
  <2>3. st \in Terminal /\ st \notin Live /\ (state[r] \in Terminal => st = state[r])
    BY <1>1 DEF Live, Terminal
  <2> QED
    BY <1>c, <2>1, <2>2, <2>3 DEF Settling
<1>3. \A q \in Runs : lease'[q] = lease[q] \/ (lease'[q] = "none" /\ lease[q] = "held" /\ state'[q] \in Terminal)
  BY <1>1, RunTypes DEF Leases
<1>4. joiner[r] = "late" => kind[r] = "chat" /\ r \notin expired /\ stopper[r] # "calling"
  BY <1>a, <1>b DEF JoinShape, Expiry, Serial
<1>5. joiner[r] = "stopping" => r \in active /\ r \in expired /\ kind[r] # "chat"
  BY <1>a, <1>b DEF Expiry, Serial, Settling
<1>6. state[r] # "none" /\ r \notin abandoned /\ (state[r] = "queued" /\ ~closed => r \in active)
  <2>1. worker[r] # "none"
    BY <1>b, <1>c DEF Fresh
  <2>2. state[r] = "queued" => state[r] \in Live
    BY DEF Live
  <2> QED
    BY <1>a, <1>b, <1>c, <2>1, <2>2 DEF Fresh, JoinShape, Owners, HasToWait
<1>7. RestOK'
  <2>1. state' \in [Runs -> {"none"} \cup Live \cup Terminal]
    BY <1>1, RunTypes
  <2>2. lease' \in [Runs -> {"none", "held", "late"}]
    BY <1>1, RunTypes DEF Leases
  <2>3. joiner' \in [Runs -> {"none", "waiting", "late", "stopping", "ending", "over"}]
    BY <1>c, RunTypes
  <2> QED
    BY <1>a, <1>c, <2>1, <2>2, <2>3 DEF RestOK
<1>8. OwnersOK' /\ Listed'
  BY <1>a, <1>c, <1>2, <1>6 DEF OwnersOK, Listed
<1>9. JoinShape'
  BY <1>a, <1>c, <1>1, <1>2, <1>4, <1>6 DEF JoinShape
<1>10. ImageShape'
  BY <1>a, <1>c, <1>2, <1>3 DEF ImageShape
<1>11. BlockedExact'
  BY <1>a, <1>c, <1>2 DEF BlockedExact
<1>12. Fresh(active, worker)' /\ Driven(active, worker)'
  <2>1. \A q \in Runs : state'[q] = "none" => state[q] = "none"
    BY <1>1, <1>2 DEF Terminal
  <2>2. \A q \in Runs : joiner[q] = "none" => joiner'[q] = "none"
    BY <1>2, <1>c
  <2> QED
    BY <1>b, <1>c, <1>2, <2>1, <2>2 DEF Fresh, Driven
<1>13. Alone(active)' /\ Doubt(active)' /\ Generation(active)'
  BY <1>b, <1>c DEF Alone, Doubt, Generation
<1>14. Expiry(active)'
  BY <1>b, <1>c, <1>2, <1>4, <1>5 DEF Expiry
<1>15. Quarantine(active)'
  BY <1>b, <1>c, <1>2 DEF Quarantine
<1>16. Reservation(active)'
  <2>1. r \in releases => r \in active
    BY <1>a, <1>c DEF ImageShape
  <2>2. releases \subseteq Runs
    BY <1>a DEF RestOK
  <2>3. \A q \in releases' : state'[q] \in Live \/ q \in active'
    BY <1>b, <1>c, <1>2, <2>1, <2>2 DEF Reservation
  <2>4. ~closed' => \A q \in Runs : kind'[q] = "image" /\ state'[q] \in Live => q \in releases'
    BY <1>b, <1>c, <1>2 DEF Reservation
  <2> QED
    BY <2>3, <2>4 DEF Reservation
<1>17. Leased(worker)'
  <2> SUFFICES ASSUME NEW q \in Runs
               PROVE  /\ ChatLease(kind[q], worker[q], state'[q], lease'[q], joiner'[q])
                      /\ NoStepNoLease(worker[q], lease'[q])
    BY <1>c DEF Leased
  <2>1. /\ ChatLease(kind[q], worker[q], state[q], lease[q], joiner[q])
        /\ NoStepNoLease(worker[q], lease[q])
    BY <1>b DEF Leased
  <2>2. NoStepNoLease(worker[q], lease'[q])
    BY <1>3, <2>1 DEF NoStepNoLease
  <2>3. CASE q = r
    <3>1. kind[r] = "chat" => joiner[r] = "late"
      BY <1>5, <1>c
    <3>2. ASSUME kind[r] = "chat", worker[r] \in Steps PROVE state'[r] = "failed" \/ lease'[r] = "late"
      <4>1. state[r] = "failed" \/ lease[r] = "late"
        BY <2>1, <2>3, <3>1, <3>2 DEF ChatLease
      <4> QED
        BY <1>2, <1>3, <4>1 DEF Terminal
    <3> QED
      BY <2>2, <2>3, <3>2 DEF ChatLease
  <2>4. CASE q # r
    BY <1>2, <1>3, <2>1, <2>2, <2>4 DEF ChatLease, Live, Terminal
  <2> QED
    BY <2>3, <2>4
<1>18. Owners(active, worker)'
  BY <1>b, <1>c, <1>2 DEF Owners, HasToWait, Behind
<1>19. NoGhost(line["image"], active)'
  <2>1. \A i \in 1..Len(line["image"]) : line["image"][i] \in Runs
    BY RunTypes DEF Kinds
  <2> QED
    BY <1>b, <1>c, <1>2, <1>6, <2>1 DEF NoGhost
<1>20. closed' \in BOOLEAN
  BY <1>c DEF RunInv
<1> QED
  BY <1>7, <1>8, <1>9, <1>10, <1>11, <1>12, <1>13, <1>14, <1>15, <1>16, <1>17, <1>18, <1>19, <1>20
     DEF RunInv, Fixed, Held

\* Shutdown bounds the join of every owner.
LEMMA CloseKeeps == ASSUME RunInv, Close PROVE RunInv'
<1>a. RestOK /\ Listed /\ JoinShape /\ BlockedExact /\ ImageShape /\ OwnersOK
  BY DEF RunInv, Fixed
<1>b. /\ Fresh(active, worker) /\ Driven(active, worker) /\ Alone(active) /\ Expiry(active)
      /\ Doubt(active) /\ Quarantine(active) /\ Generation(active) /\ Leased(worker)
      /\ NoGhost(line["image"], active)
  BY DEF RunInv, Held
<1>c. /\ kind' = kind /\ order' = order /\ state' = state /\ cancelled' = cancelled /\ tried' = tried
      /\ approval' = approval /\ active' = active /\ blocked' = blocked /\ quarantined' = quarantined
      /\ line' = line /\ worker' = worker /\ verdict' = verdict /\ lease' = lease
      /\ wake' = wake /\ expired' = expired /\ stopper' = stopper /\ abandoned' = abandoned
      /\ releases' = {} /\ stopped' = stopped \cup active
  BY DEF Close, rows
<1>d. closed' = TRUE
  BY DEF Close
<1>1. \A q \in Runs : joiner'[q] = IF q \in active /\ joiner[q] = "none" THEN "waiting" ELSE joiner[q]
  BY DEF Close, BoundJoin
<1>2. \A q \in Runs : Settling(q)' <=> Settling(q)
  BY <1>1 DEF Settling
<1>3. RestOK'
  <2>1. joiner' \in [Runs -> {"none", "waiting", "late", "stopping", "ending", "over"}]
    BY RunTypes DEF Close, BoundJoin
  <2> QED
    BY <1>a, <1>c, <2>1 DEF RestOK, OwnersOK
<1>4. OwnersOK' /\ Listed'
  BY <1>a, <1>c DEF OwnersOK, Listed
<1>5. JoinShape'
  BY <1>a, <1>c, <1>1 DEF JoinShape
<1>6. ImageShape'
  BY <1>a, <1>c, <1>d DEF ImageShape
<1>7. BlockedExact'
  BY <1>a, <1>c, <1>2 DEF BlockedExact
<1>8. Fresh(active, worker)' /\ Driven(active, worker)'
  BY <1>b, <1>c, <1>1 DEF Fresh, Driven
<1>9. Alone(active)' /\ Generation(active)'
  BY <1>b, <1>c DEF Alone, Generation
<1>10. Doubt(active)' /\ Quarantine(active)'
  BY <1>b, <1>c, <1>d DEF Doubt, Quarantine
<1>11. Expiry(active)'
  BY <1>b, <1>c, <1>1, <1>2 DEF Expiry
<1>12. Leased(worker)'
  <2> SUFFICES ASSUME NEW q \in Runs
               PROVE  /\ ChatLease(kind[q], worker[q], state[q], lease[q], joiner'[q])
                      /\ NoStepNoLease(worker[q], lease[q])
    BY <1>c DEF Leased
  <2>1. /\ ChatLease(kind[q], worker[q], state[q], lease[q], joiner[q])
        /\ NoStepNoLease(worker[q], lease[q])
    BY <1>b DEF Leased
  <2> QED
    BY <1>1, <2>1 DEF ChatLease
<1>13. Reservation(active)' /\ Owners(active, worker)'
  BY <1>c, <1>d DEF Reservation, Owners
<1>14. NoGhost(line["image"], active)'
  BY <1>b, <1>c, <1>d DEF NoGhost
<1>15. closed' \in BOOLEAN
  BY <1>d
<1> QED
  BY <1>3, <1>4, <1>5, <1>6, <1>7, <1>8, <1>9, <1>10, <1>11, <1>12, <1>13, <1>14, <1>15
     DEF RunInv, Fixed, Held

\* A new process owns nothing, and nothing is live.
LEMMA RestartKeeps == ASSUME RunInv, Restart PROVE RunInv'
<1>a. RestOK /\ Listed /\ OwnersOK /\ Fresh(active, worker)
  BY DEF RunInv, Fixed, Held
<1>1. /\ kind' = kind /\ order' = order /\ cancelled' = cancelled /\ tried' = tried /\ approval' = approval
      /\ active' = {} /\ blocked' = [k \in Kinds |-> 0] /\ quarantined' = {} /\ releases' = {}
      /\ line' = [k \in Kinds |-> <<>>] /\ stopped' = {} /\ wake' = {} /\ expired' = {} /\ abandoned' = {}
  BY DEF Restart
<1>2. closed' = FALSE
  BY DEF Restart
<1>3. \A q \in Runs :
         /\ state'[q] = IF state[q] \in Live THEN "failed" ELSE state[q]
         /\ state'[q] \notin Live /\ (state'[q] = "none" <=> state[q] = "none")
         /\ worker'[q] = IF worker[q] = "none" THEN "none" ELSE "gone"
         /\ lease'[q] = "none" /\ joiner'[q] = "none" /\ stopper'[q] = "none"
         /\ ~Settling(q)'
  BY <1>a DEF Restart, Settling, RestOK, Live, Terminal
<1>4. RestOK'
  <2>1. /\ state' \in [Runs -> {"none"} \cup Live \cup Terminal]
        /\ verdict' \in [Runs -> {"none", "ok", "error", "stopped"} \cup Terminal]
        /\ lease' \in [Runs -> {"none", "held", "late"}]
        /\ joiner' \in [Runs -> {"none", "waiting", "late", "stopping", "ending", "over"}]
        /\ stopper' \in [Runs -> {"none", "calling", "ok", "failed"}]
    BY RunTypes DEF Restart, Live, Terminal
  <2> QED
    BY <1>a, <1>1, <2>1 DEF RestOK
<1>5. OwnersOK'
  BY <1>1, RunTypes DEF OwnersOK, Restart, WorkerPlaces
<1>6. Listed'
  BY <1>a, <1>1, <1>3 DEF Listed
<1>7. JoinShape' /\ ImageShape'
  BY <1>1, <1>2, <1>3 DEF JoinShape, ImageShape
<1>8. BlockedExact'
  BY <1>1, <1>3 DEF BlockedExact
<1>9. Fresh(active, worker)'
  BY <1>a, <1>1, <1>3 DEF Fresh
<1>10. Driven(active, worker)'
  <2>1. \A q \in Runs : worker'[q] # "none" => state'[q] \in Terminal
    BY <1>a, <1>3 DEF Fresh, RestOK, Terminal
  <2> QED
    BY <1>1, <1>3, <2>1 DEF Driven, ConsumerPlaces
<1>11. /\ Alone(active)' /\ Expiry(active)' /\ Doubt(active)' /\ Quarantine(active)'
       /\ Generation(active)' /\ Reservation(active)'
  BY <1>1, <1>3 DEF Alone, Expiry, Doubt, Quarantine, Generation, Reservation
<1>12. Leased(worker)'
  BY <1>1, <1>3 DEF Leased, ChatLease, NoStepNoLease, Steps
<1>13. Owners(active, worker)'
  BY <1>3 DEF Owners
<1>14. NoGhost(line["image"], active)'
  BY <1>1 DEF NoGhost, Kinds
<1>15. closed' \in BOOLEAN
  BY <1>2
<1> QED
  BY <1>4, <1>5, <1>6, <1>7, <1>8, <1>9, <1>10, <1>11, <1>12, <1>13, <1>14, <1>15
     DEF RunInv, Fixed, Held

-----------------------------------------------------------------------------
(* The actions that end with schedule. *)

\* What is left of the line of images when others are scheduled.
Lined(k, act) ==
    \A i \in 1..Len(line["image"]) :
       /\ kind[line["image"][i]] = "image"
       /\ k # "image" /\ ~closed' => state'[line["image"][i]] = "queued" \/ line["image"][i] \in act

\* A change that is followed by a schedule of its kind, if that is serial.
LEMMA ScheduledKeeps ==
    ASSUME NEW k \in Kinds, NEW act \in SUBSET Runs, NEW at \in [Runs -> WorkerPlaces],
           kind' = kind, line \in [Kinds -> Seq(Runs)], ScheduleIfSerial(k, act, at),
           Fixed', (closed \in BOOLEAN)', Held(act, at)', OwnersBut(k, act, at)', Lined(k, act)
    PROVE  RunInv'
<1>1. CASE k \in Serial
  <2>1. Schedule(k, act, at)
    BY <1>1 DEF ScheduleIfSerial
  <2> QED
    BY <1>1, <2>1, ScheduleKeeps DEF Lined
<1>2. CASE k \notin Serial
  <2>1. active' = act /\ worker' = at /\ line' = line
    BY <1>2 DEF ScheduleIfSerial, Starts
  <2>2. Held(active, worker)'
    BY <2>1 DEF Held, Fresh, Driven, Alone, Expiry, Doubt, Quarantine, Generation, Reservation, Leased
  <2>3. Owners(active, worker)'
    BY <1>2, <2>1 DEF OwnersBut, Owners, HasToWait, Behind
  <2>4. NoGhost(line["image"], active)'
    BY <1>2, <2>1 DEF NoGhost, Lined, Serial
  <2>5. OwnersOK'
    BY <2>1 DEF OwnersOK
  <2> QED
    BY <2>2, <2>3, <2>4, <2>5 DEF RunInv
<1> QED
  BY <1>1, <1>2

\* start's deferred function.
LEMMA ExitKeeps == ASSUME RunInv, NEW r \in Runs, Exit(r) PROVE RunInv'
<1>a. RestOK /\ Listed /\ JoinShape /\ BlockedExact /\ ImageShape /\ OwnersOK
  BY DEF RunInv, Fixed
<1>b. /\ Fresh(active, worker) /\ Driven(active, worker) /\ Alone(active) /\ Expiry(active)
      /\ Doubt(active) /\ Quarantine(active) /\ Generation(active) /\ Reservation(active)
      /\ Leased(worker) /\ Owners(active, worker) /\ NoGhost(line["image"], active)
  BY DEF RunInv, Held
<1>c. /\ kind' = kind /\ order' = order /\ state' = state /\ cancelled' = cancelled /\ tried' = tried
      /\ approval' = approval /\ blocked' = blocked /\ quarantined' = quarantined
      /\ closed' = closed /\ verdict' = verdict /\ lease' = lease /\ stopped' = stopped
      /\ wake' = wake \ {r} /\ joiner' = joiner /\ expired' = expired /\ stopper' = stopper
      /\ abandoned' = abandoned /\ worker[r] = "exit"
      /\ releases' = releases \ {r} \/ releases' = releases
  BY DEF Exit, joins, control
<1>d. (closed \in BOOLEAN)'
  BY <1>c DEF RunInv
<1>1. Fixed'
  <2>1. RestOK'
    BY <1>a, <1>c DEF RestOK
  <2>2. Listed' /\ JoinShape' /\ BlockedExact' /\ ImageShape'
    BY <1>a, <1>c DEF Listed, JoinShape, BlockedExact, ImageShape, Settling
  <2> QED
    BY <2>1, <2>2 DEF Fixed
<1>2. /\ state[r] \in Terminal /\ state[r] \notin Live /\ lease[r] = "none" /\ kind[r] \in Kinds
      /\ r \in active \/ r \in expired
  BY <1>a, <1>b, <1>c, AtWork DEF Driven, NoStepNoLease, Live, Terminal
<1>3. PICK at : at = [worker EXCEPT ![r] = "gone"]
  OBVIOUS
<1>4. at \in [Runs -> WorkerPlaces] /\ \A q \in Runs : at[q] = IF q = r THEN "gone" ELSE worker[q]
  BY <1>3, RunTypes DEF WorkerPlaces
<1>5. Leased(at)'
  <2> SUFFICES ASSUME NEW q \in Runs
               PROVE  /\ ChatLease(kind[q], at[q], state[q], lease[q], joiner[q])
                      /\ NoStepNoLease(at[q], lease[q])
    BY <1>c DEF Leased
  <2>1. /\ ChatLease(kind[q], worker[q], state[q], lease[q], joiner[q])
        /\ NoStepNoLease(worker[q], lease[q])
    BY <1>b DEF Leased
  <2> QED
    BY <1>2, <1>4, <2>1 DEF ChatLease, NoStepNoLease, Steps
<1>6. CASE r \in active \ expired
  <2>1. PICK act : act = active \ {r}
    OBVIOUS
  <2>2. act \in SUBSET Runs /\ \A q : q \in act <=> q \in active /\ q # r
    BY <2>1, RunTypes
  <2>3. ScheduleIfSerial(kind[r], act, at) /\ releases' = releases \ {r}
    BY <1>3, <1>6, <2>1 DEF Exit
  <2>4. Fresh(act, at)' /\ Driven(act, at)'
    BY <1>b, <1>c, <1>2, <1>4, <2>2 DEF Fresh, Driven, ConsumerPlaces
  <2>5. Alone(act)' /\ Expiry(act)' /\ Doubt(act)'
    BY <1>b, <1>c, <1>6, <2>2 DEF Alone, Expiry, Doubt, Settling
  <2>6. Quarantine(act)' /\ Generation(act)'
    BY <1>b, <1>c, <2>2 DEF Quarantine, Generation
  <2>7. Reservation(act)'
    BY <1>b, <1>c, <1>2, <2>2, <2>3 DEF Reservation
  <2>8. Held(act, at)'
    BY <1>5, <2>4, <2>5, <2>6, <2>7 DEF Held
  <2>9. OwnersBut(kind[r], act, at)'
    <3> SUFFICES ASSUME NEW q \in Runs, state[q] \in Live, q \notin act, ~closed
                 PROVE  /\ state[q] = "queued" /\ at[q] = "none" /\ kind[q] \in Serial
                        /\ kind[q] # kind[r] => blocked[kind[q]] > 0 \/ \E s \in act : kind[s] = kind[q]
      BY <1>c DEF OwnersBut, HasToWait, Behind
    <3>1. q # r /\ q \notin active
      BY <1>2, <2>2
    <3>2. /\ state[q] = "queued" /\ worker[q] = "none" /\ kind[q] \in Serial
          /\ blocked[kind[q]] > 0 \/ \E s \in active : kind[s] = kind[q]
      BY <1>b, <3>1 DEF Owners, HasToWait, Behind
    <3> QED
      BY <1>4, <2>2, <3>1, <3>2
  <2>10. Lined(kind[r], act)
    BY <1>b, <1>c, <2>2 DEF NoGhost, Lined
  <2>11. PICK k : k = kind[r]
    OBVIOUS
  <2>12. OwnersBut(k, act, at)' /\ k \in Kinds /\ Lined(k, act) /\ ScheduleIfSerial(k, act, at)
    <3>1. kind'[r] = kind[r]
      BY <1>c
    <3> QED
      BY <1>2, <2>3, <2>9, <2>10, <2>11, <3>1
  <2> QED
    BY <1>c, <1>d, <1>1, <1>4, <2>2, <2>8, <2>12, ScheduledKeeps, RunTypes
<1>7. CASE r \notin active \ expired
  <2>1. worker' = at /\ active' = active /\ line' = line /\ releases' = releases
    BY <1>3, <1>7 DEF Exit, Moves, control
  <2>2. Fresh(active, worker)' /\ Driven(active, worker)'
    BY <1>b, <1>c, <1>2, <1>4, <1>7, <2>1 DEF Fresh, Driven, ConsumerPlaces
  <2>3. Alone(active)' /\ Expiry(active)' /\ Doubt(active)'
    BY <1>b, <1>c, <2>1 DEF Alone, Expiry, Doubt, Settling
  <2>4. Quarantine(active)' /\ Generation(active)' /\ Reservation(active)'
    BY <1>b, <1>c, <2>1 DEF Quarantine, Generation, Reservation
  <2>5. Leased(worker)'
    BY <1>5, <2>1 DEF Leased
  <2>6. Owners(active, worker)' /\ NoGhost(line["image"], active)'
    BY <1>b, <1>c, <1>2, <1>4, <2>1 DEF Owners, HasToWait, Behind, NoGhost
  <2>7. OwnersOK'
    BY <1>4, <2>1, RunTypes DEF OwnersOK
  <2> QED
    BY <1>d, <1>1, <2>2, <2>3, <2>4, <2>5, <2>6, <2>7 DEF RunInv, Held
<1> QED
  BY <1>6, <1>7

\* Cancel of a live run.
LEMMA CancelKeeps == ASSUME RunInv, NEW r \in Runs, Cancel(r) PROVE RunInv'
<1>a. RestOK /\ Listed /\ JoinShape /\ BlockedExact /\ ImageShape /\ OwnersOK
  BY DEF RunInv, Fixed
<1>b. /\ Fresh(active, worker) /\ Driven(active, worker) /\ Alone(active) /\ Expiry(active)
      /\ Doubt(active) /\ Quarantine(active) /\ Generation(active) /\ Reservation(active)
      /\ Leased(worker) /\ Owners(active, worker) /\ NoGhost(line["image"], active)
  BY DEF RunInv, Held
<1>c. /\ kind' = kind /\ order' = order /\ tried' = tried /\ approval' = approval
      /\ blocked' = blocked /\ quarantined' = quarantined /\ closed' = closed
      /\ verdict' = verdict /\ wake' = wake /\ expired' = expired /\ stopper' = stopper
      /\ abandoned' = abandoned /\ cancelled' = cancelled \cup {r} /\ state[r] \in Live
      /\ ScheduleIfSerial(kind[r], active, worker)
  BY DEF Cancel
<1>d. (closed \in BOOLEAN)'
  BY <1>c DEF RunInv
<1>1. PICK st \in Committed(r, CancelTarget(r), TRUE) :
          /\ Writes(r, st)
          /\ IF st \in Terminal THEN StopTerminal(r)
             ELSE IF st = "running" /\ kind[r] \in DeferredCancel
             THEN UNCHANGED <<stopped, joiner, releases>>
             ELSE /\ stopped' = stopped \cup {r}
                  /\ BoundJoin(IF kind[r] \in JoinCancel THEN {r} ELSE {})
                  /\ UNCHANGED releases
  BY DEF Cancel
<1>2. st = CancelTarget(r) \/ st = "failed"
  BY <1>1 DEF Committed
<1>3. /\ st \in Live \cup Terminal /\ (r \notin active => st \in Terminal)
      /\ st \in Live => st = state[r]
      /\ kind[r] = "chat" /\ r \in active => st = state[r] \/ st = "failed"
  BY <1>c, <1>2 DEF CancelTarget, JoinCancel, Live, Terminal
<1>4. \/ /\ r \in active /\ JoinStep(r) /\ releases' = releases
      \/ /\ r \notin active /\ joiner' = joiner /\ stopped' = stopped /\ releases' = releases \ {r}
  <2>1. CASE r \in active
    <3>1. CASE st \in Terminal
      BY <1>1, <2>1, <3>1, TellsToStop
    <3>2. CASE st \notin Terminal
      BY <1>1, <2>1, <3>2, TellsToStop, Stays
    <3> QED
      BY <3>1, <3>2
  <2>2. CASE r \notin active
    BY <1>1, <1>3, <2>2 DEF StopTerminal
  <2> QED
    BY <2>1, <2>2
<1>5. \A q \in Runs : state'[q] = IF q = r THEN st ELSE state[q]
  BY <1>1, RunTypes DEF Writes
<1>6. \A q \in Runs :
         /\ joiner'[q] = joiner[q] \/ (q = r /\ q \in active /\ joiner[q] = "none" /\ joiner'[q] = "waiting"
                                       /\ kind[q] \in JoinCancel /\ q \in stopped')
         /\ q \in stopped => q \in stopped'
         /\ Settling(q)' <=> Settling(q)
  <2>1. CASE joiner' = joiner
    BY <1>4, <2>1 DEF JoinStep, Settling
  <2>2. CASE joiner' # joiner
    <3>1. /\ joiner' = [joiner EXCEPT ![r] = "waiting"] /\ joiner[r] = "none" /\ r \in active
          /\ kind[r] \in JoinCancel /\ r \in stopped' /\ stopped \subseteq stopped'
      BY <1>4, <2>2 DEF JoinStep
    <3> QED
      BY <3>1, RunTypes DEF Settling
  <2> QED
    BY <2>1, <2>2
<1>7. \A q \in Runs : lease'[q] = lease[q] \/ (lease'[q] = "none" /\ lease[q] = "held" /\ state'[q] \in Terminal)
  BY <1>1, RunTypes DEF Writes, Leases
<1>8. kind[r] \in Kinds /\ worker[r] \notin {"exit", "gone"} /\ state[r] # "none"
  BY <1>a, <1>b, <1>c DEF Listed, Driven, Live, Terminal
<1>9. RestOK'
  <2>1. state' \in [Runs -> {"none"} \cup Live \cup Terminal]
    BY <1>1, <1>3, RunTypes DEF Writes
  <2>2. lease' \in [Runs -> {"none", "held", "late"}]
    BY <1>1, RunTypes DEF Writes, Leases
  <2>3. joiner' \in [Runs -> {"none", "waiting", "late", "stopping", "ending", "over"}]
    BY <1>4, RunTypes DEF JoinStep
  <2>4. stopped' \subseteq Runs /\ releases' \subseteq Runs
    BY <1>4, <1>a DEF JoinStep, RestOK
  <2> QED
    BY <1>a, <1>c, <2>1, <2>2, <2>3, <2>4 DEF RestOK
<1>10. Listed' /\ JoinShape'
  BY <1>a, <1>c, <1>3, <1>5, <1>6, <1>8 DEF Listed, JoinShape, Live, Terminal
<1>11. BlockedExact'
  BY <1>a, <1>c, <1>6 DEF BlockedExact
<1>12. ImageShape'
  BY <1>a, <1>c, <1>4, <1>6, <1>7 DEF ImageShape, JoinCancel
<1>13. Fixed'
  BY <1>9, <1>10, <1>11, <1>12 DEF Fixed
<1>14. PICK act, at, k : act = active /\ at = worker /\ k = kind[r]
  OBVIOUS
<1>15. Fresh(act, at)' /\ Driven(act, at)'
  BY <1>b, <1>c, <1>3, <1>5, <1>6, <1>8, <1>14 DEF Fresh, Driven, Live, Terminal
<1>16. Alone(act)' /\ Doubt(act)' /\ Generation(act)'
  BY <1>b, <1>c, <1>14 DEF Alone, Doubt, Generation
<1>17. Expiry(act)'
  BY <1>b, <1>c, <1>5, <1>6, <1>14 DEF Expiry, Live, Terminal
<1>18. Quarantine(act)'
  BY <1>b, <1>c, <1>5, <1>14 DEF Quarantine
<1>19. Reservation(act)'
  <2>1. \A q \in releases' : q \in Runs /\ (state'[q] \in Live \/ q \in act)
    BY <1>a, <1>b, <1>4, <1>5, <1>14 DEF Reservation, RestOK
  <2>2. ASSUME NEW q \in Runs, kind[q] = "image", state'[q] \in Live, ~closed PROVE q \in releases'
    <3>1. q = r => r \in active
      BY <1>3, <1>5, <2>2 DEF Live, Terminal
    <3>2. state[q] \in Live
      BY <1>c, <1>5, <2>2
    <3> QED
      BY <1>b, <1>4, <2>2, <3>1, <3>2 DEF Reservation
  <2> QED
    BY <1>c, <2>1, <2>2 DEF Reservation
<1>20. Leased(at)'
  <2> SUFFICES ASSUME NEW q \in Runs
               PROVE  /\ ChatLease(kind[q], worker[q], state'[q], lease'[q], joiner'[q])
                      /\ NoStepNoLease(worker[q], lease'[q])
    BY <1>c, <1>14 DEF Leased
  <2>1. /\ ChatLease(kind[q], worker[q], state[q], lease[q], joiner[q])
        /\ NoStepNoLease(worker[q], lease[q])
    BY <1>b DEF Leased
  <2>2. NoStepNoLease(worker[q], lease'[q])
    BY <1>7, <2>1 DEF NoStepNoLease
  <2>3. CASE q = r
    <3>1. kind[r] = "chat" /\ worker[r] \in Steps => r \in active
      BY <1>c, AtWork DEF Steps
    <3>2. state[r] # "failed"
      BY <1>c DEF Live
    <3> QED
      BY <1>3, <1>5, <1>6, <1>7, <2>1, <2>2, <2>3, <3>1, <3>2 DEF ChatLease, Live, Terminal
  <2>4. CASE q # r
    BY <1>5, <1>6, <1>7, <2>1, <2>2, <2>4 DEF ChatLease, Live, Terminal
  <2> QED
    BY <2>3, <2>4
<1>21. Held(act, at)'
  BY <1>15, <1>16, <1>17, <1>18, <1>19, <1>20 DEF Held
<1>22. OwnersBut(k, act, at)'
  <2> SUFFICES ASSUME NEW q \in Runs, state'[q] \in Live, q \notin active, ~closed
               PROVE  /\ state'[q] = "queued" /\ worker[q] = "none" /\ kind[q] \in Serial
                      /\ blocked[kind[q]] > 0 \/ \E s \in active : kind[s] = kind[q]
    BY <1>c, <1>14 DEF OwnersBut, HasToWait, Behind
  <2>1. q # r
    BY <1>3, <1>5 DEF Live, Terminal
  <2> QED
    BY <1>b, <1>5, <2>1 DEF Owners, HasToWait, Behind
<1>23. Lined(k, act)
  <2>1. \A i \in 1..Len(line["image"]) : line["image"][i] \in Runs
    BY RunTypes DEF Kinds
  <2> QED
    BY <1>b, <1>c, <1>5, <1>14, <2>1 DEF NoGhost, Lined
<1>24. act \in SUBSET Runs /\ at \in [Runs -> WorkerPlaces] /\ k \in Kinds /\ ScheduleIfSerial(k, act, at)
  BY <1>c, <1>8, <1>14, RunTypes
<1> QED
  BY <1>c, <1>d, <1>13, <1>21, <1>22, <1>23, <1>24, ScheduledKeeps, RunTypes

\* A batch of one or two runs.
LEMMA BatchFacts ==
    ASSUME NEW batch \in Batches, batch # <<>>
    PROVE  batch \in Seq(Runs) /\ 1 \in 1..Len(batch) /\ Len(batch) \in {1, 2}
<1>1. ASSUME NEW r \in Runs, batch = <<r>>
      PROVE  batch \in Seq(Runs) /\ 1 \in 1..Len(batch) /\ Len(batch) \in {1, 2}
  <2>1. batch \in Seq(Runs) /\ Len(batch) = 1
    BY <1>1
  <2> QED
    BY <2>1
<1>2. ASSUME NEW r \in Runs, NEW s \in Runs, batch = <<r, s>>
      PROVE  batch \in Seq(Runs) /\ 1 \in 1..Len(batch) /\ Len(batch) \in {1, 2}
  <2>1. batch \in Seq(Runs) /\ Len(batch) = 2
    BY <1>2
  <2> QED
    BY <2>1
<1>3. (\E r \in Runs : batch = <<r>>) \/ (\E r, s \in Runs : batch = <<r, s>>)
  BY DEF Batches
<1> QED
  BY <1>1, <1>2, <1>3

\* Submit: the new runs wait for the schedule, or are started at once.
LEMMA SubmitKeeps == ASSUME RunInv, NEW batch \in Batches, Submit(batch) PROVE RunInv'
<1>a. RestOK /\ Listed /\ JoinShape /\ BlockedExact /\ ImageShape /\ OwnersOK
  BY DEF RunInv, Fixed
<1>b. /\ Fresh(active, worker) /\ Driven(active, worker) /\ Alone(active) /\ Expiry(active)
      /\ Doubt(active) /\ Quarantine(active) /\ Generation(active) /\ Reservation(active)
      /\ Leased(worker) /\ Owners(active, worker) /\ NoGhost(line["image"], active)
  BY DEF RunInv, Held
<1>1. PICK k, S : k = kind[batch[1]] /\ S = {batch[i] : i \in 1..Len(batch)}
  OBVIOUS
<1>c. /\ kind' = kind /\ cancelled' = cancelled /\ tried' = tried /\ approval' = approval
      /\ blocked' = blocked /\ quarantined' = quarantined /\ closed' = closed
      /\ verdict' = verdict /\ wake' = wake /\ lease' = lease /\ stopped' = stopped
      /\ joiner' = joiner /\ expired' = expired /\ stopper' = stopper /\ abandoned' = abandoned
      /\ k \in Kinds /\ Available(k) /\ order' = order \o batch
      /\ state' = [r \in Runs |-> IF r \in S THEN "queued" ELSE state[r]]
      /\ releases' = IF k = "image" THEN releases \cup S ELSE releases
  BY <1>1 DEF Submit, joins
<1>d. (closed \in BOOLEAN)' /\ ~closed
  BY <1>c DEF RunInv, Submit
<1>2. batch \in Seq(Runs) /\ 1 \in 1..Len(batch) /\ Len(batch) \in {1, 2}
  BY BatchFacts DEF Submit
<1>3. \A q \in S : q \in Runs /\ state[q] = "none" /\ kind[q] = k
  BY <1>1, <1>2 DEF Submit
<1>4. \A q \in S : /\ worker[q] = "none" /\ q \notin active /\ q \notin expired /\ joiner[q] = "none"
                   /\ lease[q] = "none"
  BY <1>3, <1>b DEF Fresh, Leased, NoStepNoLease
<1>5. \A q \in Runs : /\ state'[q] = IF q \in S THEN "queued" ELSE state[q]
                      /\ state'[q] = "none" => state[q] = "none"
                      /\ state[q] \in Terminal => state'[q] = state[q]
                      /\ q \notin S => state'[q] = state[q]
  BY <1>c, <1>3 DEF Terminal
<1>6. RestOK'
  <2>1. state' \in [Runs -> {"none"} \cup Live \cup Terminal]
    BY <1>c, RunTypes DEF Live
  <2>2. order' \in Seq(Runs)
    BY <1>c, <1>2, RunTypes
  <2>3. releases' \subseteq Runs
    BY <1>a, <1>c, <1>3 DEF RestOK
  <2> QED
    BY <1>a, <1>c, <2>1, <2>2, <2>3 DEF RestOK
<1>7. Listed'
  <2> SUFFICES ASSUME NEW q \in Runs, state'[q] # "none"
               PROVE  kind[q] \in Kinds /\ \E i \in 1..Len(order') : order'[i] = q
    BY <1>c DEF Listed
  <2>0. order \in Seq(Runs) /\ Len(order') = Len(order) + Len(batch) /\ Len(order) \in Nat
    BY <1>c, <1>2, RunTypes
  <2>1. CASE q \in S
    <3>1. PICK i \in 1..Len(batch) : q = batch[i]
      BY <1>1, <2>1
    <3>2. Len(order) + i \in 1..Len(order') /\ order'[Len(order) + i] = q
      BY <1>c, <1>2, <2>0, <3>1
    <3> QED
      BY <1>c, <1>3, <2>1, <3>2
  <2>2. CASE q \notin S
    <3>1. kind[q] \in Kinds /\ \E i \in 1..Len(order) : order[i] = q
      BY <1>a, <1>5, <2>2 DEF Listed
    <3>2. PICK i \in 1..Len(order) : order[i] = q
      BY <3>1
    <3>3. i \in 1..Len(order') /\ order'[i] = q
      BY <1>c, <1>2, <2>0, <3>2
    <3> QED
      BY <3>1, <3>3
  <2> QED
    BY <2>1, <2>2
<1>8. JoinShape' /\ BlockedExact'
  BY <1>a, <1>c, <1>5 DEF JoinShape, BlockedExact, Settling
<1>9. ImageShape'
  BY <1>a, <1>c, <1>d, <1>3 DEF ImageShape
<1>10. Fixed'
  BY <1>6, <1>7, <1>8, <1>9 DEF Fixed
<1>11. \A q \in Runs : kind[q] = "image" /\ state'[q] \in Live => q \in releases'
  BY <1>b, <1>c, <1>d, <1>3, <1>5 DEF Reservation
<1>12. \A q \in Runs : /\ ChatLease(kind[q], worker[q], state'[q], lease[q], joiner[q])
                       /\ NoStepNoLease(worker[q], lease[q])
  <2> SUFFICES ASSUME NEW q \in Runs
               PROVE  /\ ChatLease(kind[q], worker[q], state'[q], lease[q], joiner[q])
                      /\ NoStepNoLease(worker[q], lease[q])
    OBVIOUS
  <2>1. /\ ChatLease(kind[q], worker[q], state[q], lease[q], joiner[q])
        /\ NoStepNoLease(worker[q], lease[q])
    BY <1>b DEF Leased
  <2> QED
    BY <1>4, <1>5, <2>1 DEF ChatLease, Steps
<1>13. \A q \in Runs : state'[q] \in Live /\ q \notin active /\ q \notin S =>
          /\ state'[q] = "queued" /\ worker[q] = "none" /\ kind[q] \in Serial
          /\ blocked[kind[q]] > 0 \/ \E s \in active : kind[s] = kind[q]
  BY <1>b, <1>d, <1>5 DEF Owners, HasToWait, Behind
<1>14. \A i \in 1..Len(line["image"]) :
          LET q == line["image"][i] IN q \in Runs /\ kind[q] = "image" /\ (state'[q] = "queued" \/ q \in active)
  <2>1. \A i \in 1..Len(line["image"]) : line["image"][i] \in Runs
    BY RunTypes DEF Kinds
  <2> QED
    BY <1>b, <1>d, <1>5, <2>1 DEF NoGhost
<1>15. CASE k \in Serial
  <2>1. PICK act, at : act = active /\ at = worker
    OBVIOUS
  <2>2. act \in SUBSET Runs /\ at \in [Runs -> WorkerPlaces] /\ ScheduleIfSerial(k, act, at)
    BY <1>1, <1>15, <2>1, RunTypes DEF Submit, ScheduleIfSerial
  <2>3. Fresh(act, at)' /\ Driven(act, at)'
    BY <1>b, <1>c, <1>3, <1>4, <1>5, <2>1 DEF Fresh, Driven, ConsumerPlaces
  <2>4. Alone(act)' /\ Doubt(act)' /\ Generation(act)'
    BY <1>b, <1>c, <2>1 DEF Alone, Doubt, Generation
  <2>5. Expiry(act)'
    BY <1>b, <1>c, <1>5, <2>1 DEF Expiry, Settling
  <2>6. Quarantine(act)'
    BY <1>b, <1>c, <1>3, <1>5, <2>1 DEF Quarantine, Available
  <2>7. Reservation(act)'
    <3>1. \A q \in releases' : q \in Runs /\ (state'[q] \in Live \/ q \in act)
      BY <1>a, <1>b, <1>c, <1>3, <1>5, <2>1 DEF Reservation, RestOK, Live
    <3> QED
      BY <1>c, <1>11, <3>1 DEF Reservation
  <2>8. Leased(at)'
    BY <1>c, <1>12, <2>1 DEF Leased
  <2>9. Held(act, at)'
    BY <2>3, <2>4, <2>5, <2>6, <2>7, <2>8 DEF Held
  <2>10. OwnersBut(k, act, at)'
    <3> SUFFICES ASSUME NEW q \in Runs, state'[q] \in Live, q \notin active, ~closed
                 PROVE  /\ state'[q] = "queued" /\ worker[q] = "none" /\ kind[q] \in Serial
                        /\ kind[q] # k => blocked[kind[q]] > 0 \/ \E s \in active : kind[s] = kind[q]
      BY <1>c, <2>1 DEF OwnersBut, HasToWait, Behind
    <3> QED
      BY <1>3, <1>4, <1>5, <1>13, <1>15
  <2>11. Lined(k, act)
    BY <1>14, <2>1 DEF Lined
  <2> QED
    BY <1>c, <1>d, <1>10, <2>2, <2>9, <2>10, <2>11, ScheduledKeeps, RunTypes
<1>16. CASE k \notin Serial
  <2>1. /\ active' = active \cup S /\ line' = line
        /\ worker' = [r \in Runs |-> IF r \in S THEN "top" ELSE worker[r]]
    BY <1>1, <1>16 DEF Submit, Starts
  <2>2. \A q \in Runs : worker'[q] = IF q \in S THEN "top" ELSE worker[q]
    BY <2>1
  <2>3. OwnersOK'
    BY <1>3, <2>1, RunTypes DEF OwnersOK, WorkerPlaces
  <2>4. Fresh(active, worker)' /\ Driven(active, worker)'
    BY <1>b, <1>c, <1>3, <1>4, <1>5, <2>1, <2>2 DEF Fresh, Driven, ConsumerPlaces
  <2>5. Alone(active)' /\ Doubt(active)' /\ Generation(active)'
    BY <1>b, <1>c, <1>3, <1>16, <2>1 DEF Alone, Doubt, Generation
  <2>6. Expiry(active)'
    BY <1>b, <1>c, <1>4, <1>5, <2>1 DEF Expiry, Settling
  <2>7. Quarantine(active)'
    BY <1>b, <1>c, <1>3, <1>5, <2>1 DEF Quarantine, Available
  <2>8. Reservation(active)'
    <3>1. \A q \in releases' : q \in Runs /\ (state'[q] \in Live \/ q \in active')
      BY <1>a, <1>b, <1>c, <1>3, <1>5, <2>1 DEF Reservation, RestOK, Live
    <3> QED
      BY <1>c, <1>11, <3>1 DEF Reservation
  <2>9. Leased(worker)'
    <3> SUFFICES ASSUME NEW q \in Runs
                 PROVE  /\ ChatLease(kind[q], worker'[q], state'[q], lease[q], joiner[q])
                        /\ NoStepNoLease(worker'[q], lease[q])
      BY <1>c DEF Leased
    <3>1. CASE q \in S
      BY <1>4, <2>2, <3>1 DEF ChatLease, NoStepNoLease, Steps
    <3>2. CASE q \notin S
      BY <1>12, <2>2, <3>2
    <3> QED
      BY <3>1, <3>2
  <2>10. Owners(active, worker)'
    <3> SUFFICES ASSUME NEW q \in Runs, state'[q] \in Live, q \notin active'
                 PROVE  HasToWait(q, worker)' /\ Behind(q, active)'
      BY DEF Owners
    <3>1. q \notin active /\ q \notin S
      BY <2>1
    <3>2. /\ state'[q] = "queued" /\ worker[q] = "none" /\ kind[q] \in Serial
          /\ blocked[kind[q]] > 0 \/ \E s \in active : kind[s] = kind[q]
      BY <1>13, <3>1
    <3>3. HasToWait(q, worker)'
      BY <1>c, <2>2, <3>1, <3>2 DEF HasToWait
    <3>4. Behind(q, active)'
      BY <1>c, <2>1, <3>2 DEF Behind
    <3> QED
      BY <3>3, <3>4
  <2>11. NoGhost(line["image"], active)'
    BY <1>14, <1>c, <2>1 DEF NoGhost
  <2> QED
    BY <1>d, <1>10, <2>3, <2>4, <2>5, <2>6, <2>7, <2>8, <2>9, <2>10, <2>11 DEF RunInv, Held
<1> QED
  BY <1>15, <1>16

\* The joiner lets an agent go: its kind is used again, or put in quarantine.
LEMMA JoinerEndsKeeps == ASSUME RunInv, NEW r \in Runs, JoinerEnds(r) PROVE RunInv'
<1>a. RestOK /\ Listed /\ JoinShape /\ BlockedExact /\ ImageShape /\ OwnersOK
  BY DEF RunInv, Fixed
<1>b. /\ Fresh(active, worker) /\ Driven(active, worker) /\ Alone(active) /\ Expiry(active)
      /\ Doubt(active) /\ Quarantine(active) /\ Generation(active) /\ Reservation(active)
      /\ Leased(worker) /\ Owners(active, worker) /\ NoGhost(line["image"], active)
  BY DEF RunInv, Held
<1>1. PICK act, at, k : act = active \ {r} /\ at = worker /\ k = kind[r]
  OBVIOUS
<1>c. /\ kind' = kind /\ order' = order /\ cancelled' = cancelled /\ tried' = tried
      /\ approval' = approval /\ verdict' = verdict /\ lease' = lease /\ stopped' = stopped
      /\ wake' = wake /\ expired' = expired /\ stopper' = stopper /\ closed' = closed
      /\ joiner[r] = "ending" /\ joiner' = [joiner EXCEPT ![r] = "over"]
      /\ blocked' = [blocked EXCEPT ![k] = @ - 1]
      /\ abandoned' = IF stopper[r] = "calling" THEN abandoned \cup {r} ELSE abandoned
  BY <1>1 DEF JoinerEnds
<1>d. (closed \in BOOLEAN)'
  BY <1>c DEF RunInv
<1>2. /\ r \in active /\ r \in expired /\ k \in Serial /\ k \in Kinds /\ state[r] \in Terminal
      /\ k = "image" => closed
  BY <1>a, <1>b, <1>c, <1>1 DEF Expiry, Settling, JoinShape, ImageShape, Serial, Kinds
<1>3. \A q \in Runs : joiner'[q] = (IF q = r THEN "over" ELSE joiner[q]) /\ (Settling(q)' <=> q # r /\ Settling(q))
  BY <1>c, RunTypes DEF Settling
<1>4. \A q \in Runs : q # r /\ kind[q] = k => q \notin active /\ ~Settling(q)
  BY <1>b, <1>1, <1>2 DEF Expiry, Alone
<1>5. \A q : q \in act <=> q \in active /\ q # r
  BY <1>1
<1>6. act \in SUBSET Runs /\ at \in [Runs -> WorkerPlaces]
  BY <1>1, RunTypes
<1>7. blocked[k] = 1 /\ blocked'[k] = 0 /\ (\A j \in Kinds : j # k => blocked'[j] = blocked[j])
      /\ blocked' \in [Kinds -> Nat]
  <2>1. Settling(r)
    BY <1>c DEF Settling
  <2>2. blocked[k] = 1
    BY <1>a, <1>1, <1>2, <2>1 DEF BlockedExact
  <2> QED
    BY <1>c, <1>2, <2>2, RunTypes
<1>8. BlockedExact'
  <2> SUFFICES ASSUME NEW j \in Kinds
               PROVE  blocked'[j] = IF \E q \in Runs : kind[q] = j /\ Settling(q)' THEN 1 ELSE 0
    BY <1>c DEF BlockedExact
  <2>1. CASE j = k
    BY <1>3, <1>4, <1>7, <2>1
  <2>2. CASE j # k
    <3>1. (\E q \in Runs : kind[q] = j /\ Settling(q)') <=> (\E q \in Runs : kind[q] = j /\ Settling(q))
      BY <1>1, <1>3, <2>2
    <3> QED
      BY <1>a, <1>7, <2>2, <3>1 DEF BlockedExact
  <2> QED
    BY <2>1, <2>2
<1>9. \A q \in Runs : /\ ChatLease(kind[q], at[q], state[q], lease[q], joiner'[q])
                      /\ NoStepNoLease(at[q], lease[q])
  <2> SUFFICES ASSUME NEW q \in Runs
               PROVE  /\ ChatLease(kind[q], at[q], state[q], lease[q], joiner'[q])
                      /\ NoStepNoLease(at[q], lease[q])
    OBVIOUS
  <2>1. /\ ChatLease(kind[q], at[q], state[q], lease[q], joiner[q])
        /\ NoStepNoLease(at[q], lease[q])
    BY <1>b, <1>1 DEF Leased
  <2>2. q = r => kind[q] # "chat"
    BY <1>1, <1>2 DEF Serial
  <2> QED
    BY <1>3, <2>1, <2>2 DEF ChatLease
<1>10. r \notin releases /\ releases \subseteq Runs
  BY <1>a, <1>1, <1>2 DEF ImageShape, RestOK
<1>11. state[r] \notin Live
  BY <1>2 DEF Live, Terminal
<1>12. CASE stopper[r] = "ok"
  <2>1. /\ quarantined' = quarantined \ {k} /\ state' = state /\ releases' = releases
        /\ ScheduleIfSerial(k, act, at)
    BY <1>1, <1>12 DEF JoinerEnds, Recovers
  <2>2. Fixed'
    <3>1. RestOK'
      <4>1. joiner' \in [Runs -> {"none", "waiting", "late", "stopping", "ending", "over"}]
        BY <1>c, RunTypes
      <4>2. abandoned' \subseteq Runs
        BY <1>a, <1>c DEF RestOK
      <4> QED
        BY <1>a, <1>c, <1>7, <2>1, <4>1, <4>2 DEF RestOK
    <3>2. Listed' /\ JoinShape' /\ ImageShape'
      BY <1>a, <1>c, <1>2, <1>3, <2>1 DEF Listed, JoinShape, ImageShape
    <3> QED
      BY <1>8, <3>1, <3>2 DEF Fixed
  <2>3. Fresh(act, at)' /\ Driven(act, at)'
    BY <1>b, <1>c, <1>1, <1>2, <1>3, <1>5, <2>1 DEF Fresh, Driven
  <2>4. Alone(act)' /\ Quarantine(act)'
    BY <1>b, <1>c, <1>5, <2>1 DEF Alone, Quarantine
  <2>5. Expiry(act)'
    BY <1>b, <1>c, <1>2, <1>3, <1>5, <2>1 DEF Expiry
  <2>6. Doubt(act)'
    <3> SUFFICES ASSUME NEW q \in expired, stopper[q] # "ok"
                 PROVE  /\ q \in act \/ closed \/ kind[q] \in quarantined'
                        /\ \A s \in expired : kind[s] = kind[q] /\ stopper[s] # "ok" => s = q
      BY <1>c DEF Doubt
    <3>1. q \in Runs /\ q # r
      BY <1>12, RunTypes
    <3>2. kind[q] # k
      BY <1>b, <1>1, <1>2, <3>1 DEF Generation
    <3> QED
      BY <1>b, <1>5, <2>1, <3>1, <3>2 DEF Doubt
  <2>7. Generation(act)'
    BY <1>b, <1>c, <1>5 DEF Generation
  <2>8. Reservation(act)'
    BY <1>b, <1>c, <1>5, <1>10, <2>1 DEF Reservation
  <2>9. Leased(at)'
    BY <1>c, <1>9, <2>1 DEF Leased
  <2>10. Held(act, at)'
    BY <2>3, <2>4, <2>5, <2>6, <2>7, <2>8, <2>9 DEF Held
  <2>11. OwnersBut(k, act, at)'
    <3> SUFFICES ASSUME NEW q \in Runs, state[q] \in Live, q \notin act, ~closed
                 PROVE  /\ state[q] = "queued" /\ at[q] = "none" /\ kind[q] \in Serial
                        /\ kind[q] # k => blocked'[kind[q]] > 0 \/ \E s \in act : kind[s] = kind[q]
      BY <1>c, <2>1 DEF OwnersBut, HasToWait, Behind
    <3>1. q \notin active
      BY <1>5, <1>11
    <3>2. /\ state[q] = "queued" /\ worker[q] = "none" /\ kind[q] \in Serial
          /\ blocked[kind[q]] > 0 \/ \E s \in active : kind[s] = kind[q]
      BY <1>b, <3>1 DEF Owners, HasToWait, Behind
    <3>3. kind[q] \in Kinds
      BY <3>2 DEF Serial, Kinds
    <3> QED
      BY <1>1, <1>5, <1>7, <3>2, <3>3
  <2>12. Lined(k, act)
    BY <1>b, <1>c, <1>1, <1>5, <2>1 DEF NoGhost, Lined
  <2> QED
    BY <1>c, <1>d, <1>2, <1>6, <2>1, <2>2, <2>10, <2>11, <2>12, ScheduledKeeps, RunTypes
<1>13. CASE stopper[r] # "ok"
  <2>1. PICK S : S = IF closed THEN {}
                     ELSE {s \in Runs : kind[s] = k /\ state[s] \in {"queued", "waiting"} /\ s \notin act}
    OBVIOUS
  <2>2. /\ quarantined' = IF closed THEN quarantined ELSE quarantined \cup {k}
        /\ state' = [s \in Runs |-> IF s \in S THEN "failed" ELSE state[s]]
        /\ releases' = releases \ S /\ line' = line /\ active' = act /\ worker' = at
    <3>1. Quarantines(k, act)
      BY <1>1, <1>13 DEF JoinerEnds
    <3>2. active' = act /\ worker' = at
      BY <1>1, <1>6, <3>1 DEF Quarantines, Starts
    <3> QED
      BY <2>1, <3>1, <3>2 DEF Quarantines
  <2>3. /\ \A q \in Runs : /\ state'[q] = IF q \in S THEN "failed" ELSE state[q]
                           /\ state'[q] = "none" => state[q] = "none"
                           /\ state[q] \in Terminal => state'[q] = state[q]
                           /\ state'[q] \in Live => q \notin S /\ state'[q] = state[q]
        /\ \A q \in S : /\ q \in Runs /\ kind[q] = k /\ ~closed /\ state[q] \in Live /\ q \notin act /\ q # r
                        /\ q \notin active
    <3>1. \A q \in S : /\ q \in Runs /\ kind[q] = k /\ ~closed /\ state[q] \in {"queued", "waiting"} /\ q \notin act
      BY <2>1
    <3>2. \A q \in S : state[q] \in Live /\ q # r /\ q \notin active /\ state[q] \notin Terminal
      BY <1>5, <1>11, <3>1 DEF Live, Terminal
    <3>3. \A q \in Runs : state'[q] = IF q \in S THEN "failed" ELSE state[q]
      BY <2>2
    <3> QED
      BY <3>1, <3>2, <3>3 DEF Live, Terminal
  <2>4. ~closed => \A q \in Runs : kind[q] = k => q \notin act /\ state'[q] \notin Live
    <3> SUFFICES ASSUME ~closed, NEW q \in Runs, kind[q] = k PROVE q \notin act /\ state'[q] \notin Live
      OBVIOUS
    <3>1. q \notin act
      BY <1>4, <1>5
    <3>2. CASE state[q] \in Live
      <4>1. q # r /\ q \notin active
        BY <1>4, <1>11, <3>2
      <4>2. state[q] = "queued"
        BY <1>b, <3>2, <4>1 DEF Owners, HasToWait
      <4>3. q \in S
        BY <2>1, <3>1, <4>2
      <4> QED
        BY <2>3, <3>1, <4>3
    <3>3. CASE state[q] \notin Live
      BY <2>3, <3>1, <3>3
    <3> QED
      BY <3>2, <3>3
  <2>5. RestOK'
    <3>1. joiner' \in [Runs -> {"none", "waiting", "late", "stopping", "ending", "over"}]
      BY <1>c, RunTypes
    <3>2. abandoned' \subseteq Runs
      BY <1>a, <1>c DEF RestOK
    <3>3. state' \in [Runs -> {"none"} \cup Live \cup Terminal]
      BY <2>2, RunTypes DEF Terminal
    <3>4. quarantined' \subseteq Kinds
      BY <1>a, <1>2, <2>2 DEF RestOK
    <3> QED
      BY <1>a, <1>c, <1>7, <2>2, <3>1, <3>2, <3>3, <3>4 DEF RestOK
  <2>6. Listed' /\ JoinShape' /\ ImageShape'
    <3>1. \A q \in Runs : state[q] = "none" => state'[q] = "none"
      BY <2>3 DEF Live
    <3>2. Listed'
      BY <1>a, <1>c, <3>1 DEF Listed
    <3>3. JoinShape'
      BY <1>a, <1>c, <1>2, <1>3, <2>3 DEF JoinShape
    <3>4. ImageShape'
      BY <1>a, <1>c, <1>1, <1>2, <1>3, <2>2 DEF ImageShape
    <3> QED
      BY <3>2, <3>3, <3>4
  <2>7. Fixed'
    BY <1>8, <2>5, <2>6 DEF Fixed
  <2>8. Fresh(active, worker)' /\ Driven(active, worker)'
    BY <1>b, <1>c, <1>1, <1>2, <1>3, <1>5, <2>2, <2>3 DEF Fresh, Driven
  <2>9. Alone(active)' /\ Generation(active)'
    BY <1>b, <1>c, <1>5, <2>2 DEF Alone, Generation
  <2>10. Quarantine(active)'
    <3>1. ~closed => k = "agent"
      BY <1>2 DEF Serial
    <3>2. \A q \in Runs : state'[q] \in Live => state[q] \in Live
      BY <2>3
    <3> QED
      BY <1>b, <1>c, <1>5, <2>2, <2>4, <3>1, <3>2 DEF Quarantine
  <2>11. Expiry(active)'
    BY <1>b, <1>c, <1>2, <1>3, <1>5, <2>2, <2>3 DEF Expiry
  <2>12. Doubt(active)'
    BY <1>b, <1>c, <1>1, <1>5, <2>2 DEF Doubt
  <2>13. Reservation(active)'
    <3>1. \A q \in releases' : q \in Runs /\ (state'[q] \in Live \/ q \in active')
      BY <1>b, <1>5, <1>10, <2>2, <2>3 DEF Reservation
    <3>2. ~closed' => \A q \in Runs : kind'[q] = "image" /\ state'[q] \in Live => q \in releases'
      BY <1>b, <1>c, <2>2, <2>3 DEF Reservation
    <3> QED
      BY <3>1, <3>2 DEF Reservation
  <2>14. Leased(worker)'
    <3> SUFFICES ASSUME NEW q \in Runs
                 PROVE  /\ ChatLease(kind[q], at[q], state'[q], lease[q], joiner'[q])
                        /\ NoStepNoLease(at[q], lease[q])
      BY <1>c, <2>2 DEF Leased
    <3> QED
      BY <1>9, <2>3 DEF ChatLease
  <2>15. Owners(active, worker)'
    <3> SUFFICES ASSUME NEW q \in Runs, state'[q] \in Live, q \notin active', ~closed
                 PROVE  HasToWait(q, worker)' /\ Behind(q, active)'
      BY <1>c DEF Owners
    <3>1. state'[q] = state[q] /\ q \notin active /\ kind[q] # k
      BY <1>5, <1>11, <2>2, <2>3, <2>4
    <3>2. /\ state[q] = "queued" /\ worker[q] = "none" /\ kind[q] \in Serial
          /\ blocked[kind[q]] > 0 \/ \E s \in active : kind[s] = kind[q]
      BY <1>b, <3>1 DEF Owners, HasToWait, Behind
    <3>3. HasToWait(q, worker)'
      BY <1>1, <1>c, <2>2, <3>1, <3>2 DEF HasToWait
    <3>4. kind[q] \in Kinds
      BY <3>2 DEF Serial, Kinds
    <3>5. Behind(q, active)'
      BY <1>1, <1>c, <1>5, <1>7, <2>2, <3>1, <3>2, <3>4 DEF Behind
    <3> QED
      BY <3>3, <3>5
  <2>16. NoGhost(line["image"], active)'
    <3>1. \A i \in 1..Len(line["image"]) : line["image"][i] \in Runs
      BY RunTypes DEF Kinds
    <3> QED
      BY <1>b, <1>c, <1>1, <1>2, <1>5, <2>2, <2>3, <3>1 DEF NoGhost
  <2>17. OwnersOK'
    BY <1>6, <2>2, RunTypes DEF OwnersOK
  <2> QED
    BY <1>d, <2>7, <2>8, <2>9, <2>10, <2>11, <2>12, <2>13, <2>14, <2>15, <2>16, <2>17 DEF RunInv, Held
<1> QED
  BY <1>12, <1>13

\* The stop hook returns.
LEMMA StopReturnsKeeps ==
    ASSUME RunInv, NEW r \in Runs, NEW result \in {"ok", "failed"}, StopReturns(r, result)
    PROVE  RunInv'
<1>a. RestOK /\ Listed /\ JoinShape /\ BlockedExact /\ ImageShape /\ OwnersOK
  BY DEF RunInv, Fixed
<1>b. /\ Fresh(active, worker) /\ Driven(active, worker) /\ Alone(active) /\ Expiry(active)
      /\ Doubt(active) /\ Quarantine(active) /\ Generation(active) /\ Reservation(active)
      /\ Leased(worker) /\ Owners(active, worker) /\ NoGhost(line["image"], active)
  BY DEF RunInv, Held
<1>1. PICK act, at, k : act = active /\ at = worker /\ k = kind[r]
  OBVIOUS
<1>c. /\ kind' = kind /\ order' = order /\ cancelled' = cancelled /\ tried' = tried
      /\ approval' = approval /\ verdict' = verdict /\ lease' = lease /\ stopped' = stopped
      /\ wake' = wake /\ expired' = expired /\ closed' = closed /\ blocked' = blocked
      /\ joiner' = joiner /\ abandoned' = abandoned /\ stopper[r] = "calling"
      /\ stopper' = [stopper EXCEPT ![r] = result]
  BY DEF StopReturns
<1>d. (closed \in BOOLEAN)'
  BY <1>c DEF RunInv
<1>e. \/ r \in abandoned /\ result = "ok" /\ Recovers(k, act)
      \/ UNCHANGED <<state, quarantined, releases, line, active, worker>>
  BY <1>1 DEF StopReturns
<1>2. /\ state' = state /\ releases' = releases
      /\ quarantined' = quarantined \/ (quarantined' = quarantined \ {k} /\ r \in abandoned /\ result = "ok")
  BY <1>e DEF Recovers
<1>3. \A q \in Runs : stopper'[q] = IF q = r THEN result ELSE stopper[q]
  BY <1>c, RunTypes
<1>4. r \in expired /\ k \in Serial /\ k \in Kinds
  BY <1>a, <1>b, <1>c, <1>1 DEF JoinShape, Expiry, Serial, Kinds
<1>5. Fixed'
  <2>1. stopper' \in [Runs -> {"none", "calling", "ok", "failed"}]
    BY <1>c, RunTypes
  <2>2. RestOK'
    BY <1>a, <1>c, <1>2, <2>1 DEF RestOK
  <2>3. Listed' /\ JoinShape' /\ BlockedExact' /\ ImageShape'
    BY <1>a, <1>c, <1>2, <1>3 DEF Listed, JoinShape, BlockedExact, ImageShape, Settling
  <2> QED
    BY <2>2, <2>3 DEF Fixed
<1>6. Fresh(act, at)' /\ Driven(act, at)'
  BY <1>b, <1>c, <1>1, <1>2 DEF Fresh, Driven
<1>7. Alone(act)' /\ Expiry(act)' /\ Quarantine(act)' /\ Reservation(act)' /\ Leased(at)'
  BY <1>b, <1>c, <1>1, <1>2 DEF Alone, Expiry, Settling, Quarantine, Reservation, Leased
<1>8. Doubt(act)'
  <2> SUFFICES ASSUME NEW q \in expired, stopper'[q] # "ok"
               PROVE  /\ q \in active \/ closed \/ kind[q] \in quarantined'
                      /\ \A s \in expired : kind[s] = kind[q] /\ stopper'[s] # "ok" => s = q
    BY <1>c, <1>1 DEF Doubt
  <2>1. expired \subseteq Runs
    BY RunTypes
  <2>2. \A s \in expired : stopper'[s] # "ok" => stopper[s] # "ok"
    BY <1>c, <1>3, <2>1
  <2>3. /\ q \in active \/ closed \/ kind[q] \in quarantined
        /\ \A s \in expired : kind[s] = kind[q] /\ stopper[s] # "ok" => s = q
    BY <1>b, <2>2 DEF Doubt
  <2>4. quarantined' # quarantined => kind[q] # k
    <3>1. ASSUME result = "ok", kind[q] = k PROVE FALSE
      <4>1. q # r
        BY <1>3, <3>1
      <4>2. q = r
        BY <1>b, <1>c, <1>1, <1>4, <2>2, <3>1 DEF Doubt
      <4> QED
        BY <4>1, <4>2
    <3> QED
      BY <1>2, <3>1
  <2> QED
    BY <1>2, <2>2, <2>3, <2>4
<1>9. Generation(act)'
  <2> SUFFICES ASSUME NEW q \in active, kind[q] \in Serial, NEW s \in Runs, s # q, kind[s] = kind[q], s \in expired
               PROVE  stopper'[s] = "ok"
    BY <1>c, <1>1 DEF Generation
  <2>1. stopper[s] = "ok"
    BY <1>b DEF Generation
  <2> QED
    BY <1>c, <1>3, <2>1
<1>10. Held(act, at)'
  BY <1>6, <1>7, <1>8, <1>9 DEF Held
<1>11. Owners(act, at)' /\ OwnersBut(k, act, at)'
  BY <1>b, <1>c, <1>1, <1>2 DEF Owners, OwnersBut, HasToWait, Behind
<1>12. act \in SUBSET Runs /\ at \in [Runs -> WorkerPlaces]
  BY <1>1, RunTypes
<1>13. CASE Recovers(k, act)
  <2>1. ScheduleIfSerial(k, act, at)
    BY <1>1, <1>13 DEF Recovers
  <2>2. Lined(k, act)
    BY <1>b, <1>c, <1>1, <1>2 DEF NoGhost, Lined
  <2> QED
    BY <1>c, <1>d, <1>4, <1>5, <1>10, <1>11, <1>12, <2>1, <2>2, ScheduledKeeps, RunTypes
<1>14. CASE UNCHANGED <<state, quarantined, releases, line, active, worker>>
  <2>1. active' = act /\ worker' = at /\ line' = line
    BY <1>1, <1>14
  <2>2. Held(active, worker)'
    BY <1>10, <2>1 DEF Held, Fresh, Driven, Alone, Expiry, Doubt, Quarantine, Generation, Reservation, Leased
  <2>3. Owners(active, worker)'
    BY <1>11, <2>1 DEF Owners, HasToWait, Behind
  <2>4. NoGhost(line["image"], active)'
    BY <1>b, <1>c, <1>1, <1>2, <2>1 DEF NoGhost
  <2>5. OwnersOK'
    BY <1>12, <2>1, RunTypes DEF OwnersOK
  <2> QED
    BY <1>d, <1>5, <2>2, <2>3, <2>4, <2>5 DEF RunInv
<1> QED
  BY <1>e, <1>13, <1>14

-----------------------------------------------------------------------------
(* The theorems. *)

\* No step breaks the invariant.
LEMMA RunInvStep == RunInv /\ [RunNext]_runVars => RunInv'
<1> SUFFICES ASSUME RunInv, [RunNext]_runVars PROVE RunInv'
  OBVIOUS
<1>1. ASSUME NEW batch \in Batches, Submit(batch) PROVE RunInv'
  BY <1>1, SubmitKeeps
<1>2. ASSUME NEW r \in Runs, Drives(r) PROVE RunInv'
  BY <1>2, DriveKeeps, BeginAttemptKeeps, TakeSlotKeeps, WaitingKeeps, LeavePositionKeeps,
     SettleAttemptKeeps, AskApprovalKeeps, ApprovalWaitKeeps, FinishKeeps, ExitKeeps DEF Drives
<1>3. ASSUME NEW r \in Runs, Consumes(r) PROVE RunInv'
  BY <1>3, ConsumerStepsKeeps, ConsumerReturnsKeeps, ConsumerAbortsKeeps DEF Consumes
<1>4. ASSUME NEW r \in Runs, Joins(r) PROVE RunInv'
  BY <1>4, JoinerSeesDoneKeeps, JoinerTimesOutKeeps, JoinerFinishesKeeps, JoinerEndsKeeps DEF Joins
<1>5. ASSUME NEW r \in Runs, Cancel(r) \/ CancelTerminal(r) \/ Answer(r) PROVE RunInv'
  BY <1>5, CancelKeeps, CancelTerminalKeeps, AnswerKeeps
<1>6. ASSUME NEW r \in Runs, NEW result \in {"ok", "failed"}, StopReturns(r, result) PROVE RunInv'
  BY <1>6, StopReturnsKeeps
<1>7. ASSUME Close PROVE RunInv'
  BY <1>7, CloseKeeps
<1>8. ASSUME Restart PROVE RunInv'
  BY <1>8, RestartKeeps
<1>9. ASSUME UNCHANGED runVars PROVE RunInv'
  <2>1. /\ kind' = kind /\ order' = order /\ state' = state /\ cancelled' = cancelled /\ tried' = tried
        /\ approval' = approval /\ active' = active /\ blocked' = blocked /\ quarantined' = quarantined
        /\ releases' = releases /\ line' = line /\ closed' = closed /\ worker' = worker
        /\ verdict' = verdict /\ stopped' = stopped /\ lease' = lease /\ wake' = wake
        /\ joiner' = joiner /\ expired' = expired /\ stopper' = stopper /\ abandoned' = abandoned
    BY <1>9 DEF runVars, rows, control, work, joins
  <2>2. Fixed'
    BY <2>1 DEF RunInv, Fixed, RestOK, Listed, JoinShape, BlockedExact, ImageShape, Settling
  <2>3. Held(active, worker)'
    BY <2>1 DEF RunInv, Held, Fresh, Driven, Alone, Expiry, Settling, Doubt, Quarantine, Generation,
                Reservation, Leased
  <2>4. OwnersOK' /\ Owners(active, worker)' /\ NoGhost(line["image"], active)'
    BY <2>1 DEF RunInv, OwnersOK, Owners, HasToWait, Behind, NoGhost
  <2>5. closed' \in BOOLEAN
    BY <2>1 DEF RunInv
  <2> QED
    BY <2>2, <2>3, <2>4, <2>5 DEF RunInv
<1> QED
  BY <1>1, <1>2, <1>3, <1>4, <1>5, <1>6, <1>7, <1>8, <1>9 DEF RunNext

\* Every run the manager accepted has an owner or waits behind one, a serial
\* kind never has two generations at work, and reservations, leases and places
\* in the line follow the runs that hold them: of manager.go, join.go and
\* consumer.go, for any runs, kinds and limits.
THEOREM RunsAlwaysHold == RunSafety => []RunsHold
<1>1. RunSafety => []RunInv
  BY RunInvInit, RunInvStep, PTL DEF RunSafety
<1> QED
  BY <1>1, RunInvImplies, PTL

\* What a step may not do to what has ended, and whom it may start.
Final == \A q \in Runs : state[q] \in Terminal => state'[q] = state[q]
StartsNew == \A q \in active' \ active : q \in Runs /\ ~closed /\ state[q] \in {"none", "queued"}

\* Whom a schedule starts was queued.
LEMMA ScheduleStartsQueued ==
    ASSUME RunInv, NEW k \in Kinds, NEW act \in SUBSET Runs, NEW at \in [Runs -> WorkerPlaces],
           kind' = kind, order' \in Seq(Runs), closed' = closed, ScheduleIfSerial(k, act, at)
    PROVE  \A q \in active' \ act : q \in Runs /\ ~closed /\ state'[q] = "queued"
<1>1. CASE k \in Serial
  <2>1. Schedule(k, act, at)
    BY <1>1 DEF ScheduleIfSerial
  <2>2. PICK S \in SUBSET Runs : Started(S, k, act, at)
    BY <2>1, ScheduleFacts, RunTypes
  <2> QED
    BY <2>2 DEF Started, Open
<1>2. CASE k \notin Serial
  BY <1>2 DEF ScheduleIfSerial, Starts
<1> QED
  BY <1>1, <1>2

\* The worker's own steps.
LEMMA DrivesFinal == ASSUME RunInv, NEW r \in Runs, Drives(r) PROVE Final /\ StartsNew
<1>1. ASSUME state' = state, active' = active PROVE Final /\ StartsNew
  BY <1>1 DEF Final, StartsNew
<1>2. ASSUME NEW st, state' = [state EXCEPT ![r] = st], active' = active, state[r] \in Terminal => st = state[r]
      PROVE  Final /\ StartsNew
  BY <1>2, RunTypes DEF Final, StartsNew
<1>3. Drive(r) \/ NoSlot(r) \/ LeavePosition(r) \/ EngineAnswers(r) \/ CheckApproval(r) \/ AwaitAnswer(r)
      \/ HearAnswer(r) => Final /\ StartsNew
  BY <1>1 DEF Drive, NoSlot, LeavePosition, EngineAnswers, CheckApproval, AwaitAnswer, HearAnswer, rows, control
<1>4. ASSUME BeginAttempt(r) PROVE Final /\ StartsNew
  <2>0. MayRun(r) => state[r] \notin Terminal
    BY DEF MayRun, Terminal
  <2> QED
    BY <1>1, <1>2, <1>4, <2>0 DEF BeginAttempt
<1>5. ASSUME TakeSlot(r) PROVE Final /\ StartsNew
  <2>0. MayRun(r) => state[r] \notin Terminal
    BY DEF MayRun, Terminal
  <2> QED
    BY <1>1, <1>2, <1>5, <2>0 DEF TakeSlot, Writes, control
<1>6. ASSUME SettleAttempt(r) PROVE Final /\ StartsNew
  <2>1. PICK st \in Committed(r, SettledState(r), FALSE) : state' = [state EXCEPT ![r] = st] /\ active' = active
    BY <1>6 DEF SettleAttempt
  <2>2. state[r] \in Terminal => st = state[r]
    BY <2>1 DEF Committed, SettledState
  <2> QED
    BY <1>2, <2>1, <2>2
<1>7. ASSUME AskApproval(r) PROVE Final /\ StartsNew
  <2>0. state[r] \in Live => state[r] \notin Terminal
    BY DEF Live, Terminal
  <2> QED
    BY <1>1, <1>2, <1>7, <2>0 DEF AskApproval
<1>8. ASSUME Finish(r) PROVE Final /\ StartsNew
  BY <1>1, <1>2, <1>8 DEF Finish, FinishAs, Writes
<1>9. ASSUME Exit(r) PROVE Final /\ StartsNew
  <2>1. state' = state /\ closed' = closed /\ kind' = kind /\ order' = order /\ worker[r] = "exit"
    BY <1>9 DEF Exit, control
  <2>2. Final
    BY <2>1 DEF Final
  <2>3. CASE r \in active \ expired
    <3>1. PICK act, at, k : act = active \ {r} /\ at = [worker EXCEPT ![r] = "gone"] /\ k = kind[r]
      OBVIOUS
    <3>2. ScheduleIfSerial(k, act, at)
      BY <1>9, <2>3, <3>1 DEF Exit
    <3>3. act \in SUBSET Runs /\ at \in [Runs -> WorkerPlaces] /\ order' \in Seq(Runs)
      BY <2>1, <3>1, RunTypes DEF WorkerPlaces
    <3>4. k \in Kinds
      BY <2>1, <3>1, AtWork
    <3>5. \A q \in active' \ act : q \in Runs /\ ~closed /\ state'[q] = "queued"
      BY <2>1, <3>2, <3>3, <3>4, ScheduleStartsQueued
    <3> QED
      BY <2>1, <2>2, <3>1, <3>5 DEF StartsNew
  <2>4. CASE r \notin active \ expired
    BY <1>1, <1>9, <2>1, <2>4 DEF Exit, control
  <2> QED
    BY <2>3, <2>4
<1> QED
  BY <1>3, <1>4, <1>5, <1>6, <1>7, <1>8, <1>9 DEF Drives

\* Cancel.
LEMMA CancelFinal == ASSUME RunInv, NEW r \in Runs, Cancel(r) PROVE Final /\ StartsNew
<1>1. /\ state[r] \in Live /\ closed' = closed /\ kind' = kind /\ order' = order
      /\ ScheduleIfSerial(kind[r], active, worker)
      /\ \E st : state' = [state EXCEPT ![r] = st]
  BY DEF Cancel, Writes
<1>2. \A q \in Runs : q # r => state'[q] = state[q]
  BY <1>1, RunTypes
<1>3. state[r] \notin Terminal
  BY <1>1 DEF Live, Terminal
<1>4. Final
  BY <1>2, <1>3 DEF Final
<1>5. PICK act, at, k : act = active /\ at = worker /\ k = kind[r]
  OBVIOUS
<1>6. act \in SUBSET Runs /\ at \in [Runs -> WorkerPlaces] /\ order' \in Seq(Runs) /\ k \in Kinds
  <2>1. Listed /\ state[r] # "none"
    BY <1>1 DEF RunInv, Fixed, Live
  <2> QED
    BY <1>1, <1>5, <2>1, RunTypes DEF Listed
<1>7. \A q \in active' \ act : q \in Runs /\ ~closed /\ state'[q] = "queued"
  BY <1>1, <1>5, <1>6, ScheduleStartsQueued
<1>8. r \notin active => state'[r] # "queued"
  <2> SUFFICES ASSUME r \notin active PROVE state'[r] # "queued"
    OBVIOUS
  <2>1. PICK st \in Committed(r, CancelTarget(r), TRUE) : state' = [state EXCEPT ![r] = st]
    BY DEF Cancel, Writes
  <2>2. st \in Terminal
    BY <2>1 DEF Committed, CancelTarget, Terminal
  <2> QED
    BY <2>1, <2>2, RunTypes DEF Terminal
<1> QED
  BY <1>2, <1>4, <1>5, <1>7, <1>8 DEF StartsNew

\* The joiner and the stop hook.
LEMMA JoinsFinal == ASSUME RunInv, NEW r \in Runs, Joins(r) PROVE Final /\ StartsNew
<1>1. ASSUME state' = state, active' = active PROVE Final /\ StartsNew
  BY <1>1 DEF Final, StartsNew
<1>2. JoinerSeesDone(r) \/ JoinerTimesOut(r) => Final /\ StartsNew
  BY <1>1 DEF JoinerSeesDone, JoinerTimesOut, rows, control
<1>3. ASSUME JoinerFinishes(r) PROVE Final /\ StartsNew
  <2>1. state' = state \/ (state[r] \notin Terminal /\ \E st : state' = [state EXCEPT ![r] = st])
    BY <1>3 DEF JoinerFinishes, Writes
  <2>2. active' = active
    BY <1>3 DEF JoinerFinishes, control
  <2> QED
    BY <2>1, <2>2, RunTypes DEF Final, StartsNew
<1>4. ASSUME JoinerEnds(r) PROVE Final /\ StartsNew
  <2>1. PICK act, at, k : act = active \ {r} /\ at = worker /\ k = kind[r]
    OBVIOUS
  <2>2. /\ closed' = closed /\ kind' = kind /\ order' = order /\ joiner[r] = "ending"
        /\ Recovers(k, act) \/ Quarantines(k, act)
    BY <1>4, <2>1 DEF JoinerEnds
  <2>3. CASE Recovers(k, act)
    <3>1. state' = state /\ ScheduleIfSerial(k, act, at)
      BY <2>1, <2>3 DEF Recovers
    <3>2. state[r] \in Terminal /\ k \in Kinds
      BY <2>1, <2>2 DEF RunInv, Fixed, JoinShape, Held, Expiry, Settling, Serial, Kinds
    <3>3. act \in SUBSET Runs /\ at \in [Runs -> WorkerPlaces] /\ order' \in Seq(Runs)
      BY <2>1, <2>2, RunTypes
    <3>4. \A q \in active' \ act : q \in Runs /\ ~closed /\ state'[q] = "queued"
      BY <2>2, <3>1, <3>2, <3>3, ScheduleStartsQueued
    <3> QED
      BY <2>1, <3>1, <3>4 DEF Final, StartsNew
  <2>4. CASE Quarantines(k, act)
    <3>1. active' = act
      BY <2>4 DEF Quarantines, Starts
    <3>2. \A q \in Runs : state'[q] = state[q] \/ state[q] \in {"queued", "waiting"}
      BY <2>4 DEF Quarantines
    <3>3. Final
      BY <3>2 DEF Final, Terminal
    <3> QED
      BY <2>1, <3>1, <3>3 DEF StartsNew
  <2> QED
    BY <2>2, <2>3, <2>4
<1> QED
  BY <1>2, <1>3, <1>4 DEF Joins

\* The stop hook returns.
LEMMA StopFinal ==
    ASSUME RunInv, NEW r \in Runs, NEW result \in {"ok", "failed"}, StopReturns(r, result)
    PROVE  Final /\ StartsNew
<1>1. PICK act, at, k : act = active /\ at = worker /\ k = kind[r]
  OBVIOUS
<1>2. /\ closed' = closed /\ kind' = kind /\ order' = order /\ stopper[r] = "calling"
      /\ Recovers(k, act) \/ (state' = state /\ active' = active)
  BY <1>1 DEF StopReturns
<1>3. CASE Recovers(k, act)
  <2>1. state' = state /\ ScheduleIfSerial(k, act, at)
    BY <1>1, <1>3 DEF Recovers
  <2>2. k \in Kinds
    BY <1>1, <1>2 DEF RunInv, Fixed, JoinShape, Held, Expiry, Serial, Kinds
  <2>3. act \in SUBSET Runs /\ at \in [Runs -> WorkerPlaces] /\ order' \in Seq(Runs)
    BY <1>1, <1>2, RunTypes
  <2>4. \A q \in active' \ act : q \in Runs /\ ~closed /\ state'[q] = "queued"
    BY <1>2, <2>1, <2>2, <2>3, ScheduleStartsQueued
  <2> QED
    BY <1>1, <2>1, <2>4 DEF Final, StartsNew
<1>4. CASE state' = state /\ active' = active
  BY <1>4 DEF Final, StartsNew
<1> QED
  BY <1>2, <1>3, <1>4

\* Submit.
LEMMA SubmitFinal == ASSUME RunInv, NEW batch \in Batches, Submit(batch) PROVE Final /\ StartsNew
<1>1. PICK k, S : k = kind[batch[1]] /\ S = {batch[i] : i \in 1..Len(batch)}
  OBVIOUS
<1>2. /\ kind' = kind /\ closed' = closed /\ k \in Kinds /\ order' = order \o batch
      /\ state' = [r \in Runs |-> IF r \in S THEN "queued" ELSE state[r]]
      /\ IF k \in Serial THEN Schedule(k, active, worker)
         ELSE Starts(S, active, worker) /\ UNCHANGED line
  BY <1>1 DEF Submit
<1>3. ~closed
  BY DEF Submit
<1>4. batch \in Seq(Runs)
  BY BatchFacts DEF Submit
<1>5. \A q \in S : q \in Runs /\ state[q] = "none"
  BY <1>1, <1>4 DEF Submit
<1>6. Final
  BY <1>2, <1>5 DEF Final, Terminal
<1>7. CASE k \in Serial
  <2>1. PICK act, at : act = active /\ at = worker
    OBVIOUS
  <2>2. act \in SUBSET Runs /\ at \in [Runs -> WorkerPlaces] /\ ScheduleIfSerial(k, act, at)
    BY <1>2, <1>7, <2>1, RunTypes DEF ScheduleIfSerial
  <2>3. order' \in Seq(Runs)
    BY <1>2, <1>4, RunTypes
  <2>4. \A q \in active' \ act : q \in Runs /\ ~closed /\ state'[q] = "queued"
    BY <1>2, <2>2, <2>3, ScheduleStartsQueued
  <2> QED
    BY <1>2, <1>5, <1>6, <2>1, <2>4 DEF StartsNew
<1>8. CASE k \notin Serial
  <2>1. active' = active \cup S
    BY <1>2, <1>8 DEF Starts
  <2> QED
    BY <1>3, <1>5, <1>6, <2>1 DEF StartsNew
<1> QED
  BY <1>7, <1>8

\* No step replaces what has ended, or starts what has run.
LEMMA HistoryStep ==
    RunInv /\ [RunNext]_runVars =>
        /\ [\A r \in Runs : state[r] \in Terminal => state'[r] = state[r]]_runVars
        /\ [\A r \in active' \ active : worker[r] = "none"]_runVars
<1> SUFFICES ASSUME RunInv, RunNext PROVE Final /\ \A r \in active' \ active : worker[r] = "none"
  BY DEF Final
<1>0. ASSUME state' = state, active' = active PROVE Final /\ StartsNew
  BY <1>0 DEF Final, StartsNew
<1>1. ASSUME NEW batch \in Batches, Submit(batch) PROVE Final /\ StartsNew
  BY <1>1, SubmitFinal
<1>2. ASSUME NEW r \in Runs, Drives(r) PROVE Final /\ StartsNew
  BY <1>2, DrivesFinal
<1>3. ASSUME NEW r \in Runs, Consumes(r) PROVE Final /\ StartsNew
  BY <1>0, <1>3 DEF Consumes, ConsumerSteps, ConsumerReturns, ConsumerAborts, rows, control
<1>4. ASSUME NEW r \in Runs, Joins(r) PROVE Final /\ StartsNew
  BY <1>4, JoinsFinal
<1>5. ASSUME NEW r \in Runs, Cancel(r) PROVE Final /\ StartsNew
  BY <1>5, CancelFinal
<1>6. ASSUME NEW r \in Runs, CancelTerminal(r) PROVE Final /\ StartsNew
  BY <1>0, <1>6 DEF CancelTerminal, rows
<1>7. ASSUME NEW r \in Runs, Answer(r) PROVE Final /\ StartsNew
  <2>1. active' = active /\ (state' = state \/ (state[r] = "waiting" /\ \E st : state' = [state EXCEPT ![r] = st]))
    BY <1>7 DEF Answer, Writes
  <2>2. \A q \in Runs : state'[q] = state[q] \/ state[q] = "waiting"
    BY <2>1, RunTypes
  <2> QED
    BY <2>1, <2>2 DEF Final, StartsNew, Terminal
<1>8. ASSUME NEW r \in Runs, NEW result \in {"ok", "failed"}, StopReturns(r, result) PROVE Final /\ StartsNew
  BY <1>8, StopFinal
<1>9. ASSUME Close PROVE Final /\ StartsNew
  BY <1>0, <1>9 DEF Close, rows
<1>10. ASSUME Restart PROVE Final /\ StartsNew
  <2>1. active' = {} /\ \A q \in Runs : state'[q] = state[q] \/ state[q] \in Live
    BY <1>10 DEF Restart
  <2> QED
    BY <2>1 DEF Final, StartsNew, Live, Terminal
<1>11. Final /\ StartsNew
  BY <1>1, <1>2, <1>3, <1>4, <1>5, <1>6, <1>7, <1>8, <1>9, <1>10 DEF RunNext
<1>12. ASSUME NEW r \in active' \ active PROVE worker[r] = "none"
  <2>1. r \in Runs /\ ~closed /\ state[r] \in {"none", "queued"}
    BY <1>11 DEF StartsNew
  <2>2. CASE state[r] = "none"
    BY <2>1, <2>2 DEF RunInv, Held, Fresh
  <2>3. CASE state[r] = "queued"
    BY <2>1, <2>3 DEF RunInv, Owners, HasToWait, Live
  <2> QED
    BY <2>1, <2>2, <2>3
<1> QED
  BY <1>11, <1>12

\* No late worker, answer, quarantine, cancel or restart replaces a terminal
\* state, and no run is started twice, whatever fails and in whatever order.
THEOREM HistoryAlwaysFinal == RunSafety => HistoryIsFinal
<1>1. RunSafety => []RunInv
  BY RunInvInit, RunInvStep, PTL DEF RunSafety
<1> QED
  BY <1>1, HistoryStep, PTL DEF RunSafety, HistoryIsFinal, TerminalIsFinal, NeverReplayed

-----------------------------------------------------------------------------
(* Chats.  The invariant follows each delta from the model to the friend,  *)
(* and each batch of a tool's work to the round and the step it is in; the *)
(* ceiling of the day's searches is inductive by itself.                   *)

\* Where the request and the consumer of a chat are.
Followers == {"none", "routed", "following", "confirming", "leaving", "ended"}
Consumers == {"none", "start", "wait", "step", "stream", "tool", "search", "searching", "image", "close",
              "return", "finish", "gone"}

\* The types of the state.
ChatTypeOK ==
    /\ follower \in [Chats -> Followers] /\ consumer \in [Chats -> Consumers]
    /\ told \in [Chats -> {"none", "done", "error"}]
    /\ got \in [Chats -> Nat] /\ deltas \in [Chats -> Nat] /\ emitted \in [Chats -> Nat]
    /\ round \in [Chats -> Nat] /\ opened \in [Chats -> Nat] /\ batches \in [Chats -> Nat] /\ searches \in [Chats -> Nat]
    /\ asked \in [Chats -> {"none", "search", "image", "refused"}]
    /\ outcome \in [Chats -> {"none", "ran", "failed", "fatal"}]
    /\ chatState \in [Chats -> {"none", "running", "done", "failed", "cancelled"}]
    /\ searchedToday \in Nat /\ searchReserved \in Int /\ elsewhere \in Int

\* A delta is with the friend or in the channel, unless the consumer has failed; a consumer
\* that closed done streams no more, and who waits for the stored state has drained the channel.
DeltasOK(c) ==
    /\ follower[c] = "none" => consumer[c] = "none"
    /\ c \notin chatErr => got[c] + deltas[c] = emitted[c]
    /\ c \in finished => consumer[c] \in {"finish", "gone"}
    /\ follower[c] = "confirming" => c \in finished /\ deltas[c] = 0
    /\ told[c] = "done" => /\ follower[c] \in {"leaving", "ended"} /\ consumer[c] \in {"finish", "gone"}
                           /\ got[c] = emitted[c] /\ chatState[c] = "done"

\* A batch is submitted in a round of its own, inside an opened step; the last round answers.
Calling == {"none", "start", "wait", "step", "stream", "tool", "search", "searching", "image"}
RoundsOK(c) ==
    /\ c \notin answerOnly => round[c] < MaxToolRounds
    /\ consumer[c] = "tool" => asked[c] \in {"search", "image", "refused"} /\ (c \in answerOnly => asked[c] = "refused")
    /\ consumer[c] \in {"search", "searching", "image"} => c \notin answerOnly
    /\ consumer[c] \in Calling => batches[c] <= round[c]
    /\ consumer[c] = "close" => batches[c] <= round[c] + 1
    /\ batches[c] <= MaxToolRounds
    /\ batches[c] <= opened[c]
    /\ consumer[c] = "image" => batches[c] < opened[c]

\* The invariant.
ChatInv == ChatTypeOK /\ SearchCeiling /\ \A c \in Chats : DeltasOK(c) /\ RoundsOK(c)

\* The invariant is enough for what the runs check.
LEMMA ChatInvImplies == ChatInv => SearchCeiling /\ ChatIsFaithful
BY DEF ChatInv, ChatIsFaithful, AnswerComplete, SubmissionHasTrace, DeltasOK, RoundsOK

\* It holds when the host has just started.
LEMMA ChatInitHolds == ChatInit => ChatInv
<1> SUFFICES ASSUME ChatInit PROVE ChatInv
  OBVIOUS
<1>1. MaxToolRounds \in Nat \ {0} /\ SearchLimit \in Nat \ {0}
  BY ChatAssumption
<1>2. ChatTypeOK
  BY DEF ChatInit, ChatTypeOK, Followers, Consumers
<1>3. SearchCeiling
  BY <1>1 DEF ChatInit, SearchCeiling
<1>4. ASSUME NEW c \in Chats PROVE DeltasOK(c)
  BY DEF ChatInit, DeltasOK
<1>5. ASSUME NEW c \in Chats PROVE RoundsOK(c)
  BY <1>1 DEF ChatInit, RoundsOK
<1> QED
  BY <1>2, <1>3, <1>4, <1>5 DEF ChatInv

\* The request's steps.
LEMMA FollowerKeeps ==
    ASSUME ChatInv, NEW c \in Chats,
           Route(c) \/ Follow(c) \/ TakeDelta(c) \/ PollState(c) \/ SeeDone(c) \/ Confirm(c) \/ Leave(c)
             \/ Unconfirmed(c) \/ FriendLeaves(c) \/ DeleteRun(c) \/ JoinExpires(c)
    PROVE  ChatInv'
<1> USE DEF ChatInv, ChatTypeOK, Followers, Consumers, delivery, loop, ledgerRow, meter
<1>1. CASE Route(c)
  BY <1>1, SMTT(60) DEF Route, FollowerAt, ConsumerAt, SearchCeiling, DeltasOK, RoundsOK, Calling
<1>2. CASE Follow(c)
  BY <1>2 DEF Follow, FollowerAt, SearchCeiling, DeltasOK, RoundsOK, Calling
<1>3. CASE TakeDelta(c)
  BY <1>3 DEF TakeDelta, SearchCeiling, DeltasOK, RoundsOK, Calling
<1>4. CASE PollState(c)
  BY <1>4 DEF PollState, Tell, FollowerAt, SearchCeiling, DeltasOK, RoundsOK, Calling
<1>5. CASE SeeDone(c)
  BY <1>5 DEF SeeDone, FollowerAt, SearchCeiling, DeltasOK, RoundsOK, Calling
<1>6. CASE Confirm(c)
  BY <1>6 DEF Confirm, Tell, FollowerAt, SearchCeiling, DeltasOK, RoundsOK, Calling
<1>7. CASE Leave(c)
  BY <1>7 DEF Leave, FollowerAt, Cancelling, Over, SearchCeiling, DeltasOK, RoundsOK, Calling
<1>8. CASE Unconfirmed(c)
  BY <1>8 DEF Unconfirmed, Tell, FollowerAt, SearchCeiling, DeltasOK, RoundsOK, Calling
<1>9. CASE FriendLeaves(c)
  BY <1>9 DEF FriendLeaves, FollowerAt, SearchCeiling, DeltasOK, RoundsOK, Calling
<1>10. CASE DeleteRun(c)
  BY <1>10 DEF DeleteRun, Cancelling, Over, SearchCeiling, DeltasOK, RoundsOK, Calling
<1>11. CASE JoinExpires(c)
  BY <1>11 DEF JoinExpires, SearchCeiling, DeltasOK, RoundsOK, Calling
<1> QED
  BY <1>1, <1>2, <1>3, <1>4, <1>5, <1>6, <1>7, <1>8, <1>9, <1>10, <1>11

\* The consumer's steps.
LEMMA ConsumerKeeps ==
    ASSUME ChatInv, NEW c \in Chats, ConsumerNext(c)
    PROVE  ChatInv'
<1> USE DEF ChatInv, ChatTypeOK, Followers, Consumers, delivery, loop, ledgerRow, meter
<1>0. MaxToolRounds \in Nat \ {0} /\ SearchLimit \in Nat \ {0}
  BY ChatAssumption
<1>1. CASE Claim(c)
  BY <1>1 DEF Claim, ConsumerAt, SearchCeiling, DeltasOK, RoundsOK, Calling
<1>2. CASE AwaitReady(c)
  BY <1>2 DEF AwaitReady, Fails, ConsumerAt, SearchCeiling, DeltasOK, RoundsOK, Calling
<1>3. CASE BeginStep(c)
  BY <1>3 DEF BeginStep, Fails, ConsumerAt, SearchCeiling, DeltasOK, RoundsOK, Calling
<1>4. CASE Emit(c)
  BY <1>4 DEF Emit, Fails, ConsumerAt, SearchCeiling, DeltasOK, RoundsOK, Calling
<1>5. CASE StreamEnds(c)
  BY <1>5 DEF StreamEnds, Fails, ConsumerAt, SearchCeiling, DeltasOK, RoundsOK, Calling
<1>6. CASE OpenTool(c)
  BY <1>6 DEF OpenTool, Fails, ConsumerAt, SearchCeiling, DeltasOK, RoundsOK, Calling
<1>7. CASE SubmitImages(c)
  BY <1>0, <1>7 DEF SubmitImages, ConsumerAt, SearchCeiling, DeltasOK, RoundsOK, Calling
<1>8. CASE ReserveSearch(c)
  BY <1>0, <1>8 DEF ReserveSearch, SearchRoom, ConsumerAt, SearchCeiling, DeltasOK, RoundsOK, Calling
<1>9. CASE SettleSearch(c)
  BY <1>0, <1>9 DEF SettleSearch, ConsumerAt, SearchCeiling, DeltasOK, RoundsOK, Calling
<1>10. CASE CloseTool(c)
  <2>1. consumer[c] = "close"
        /\ UNCHANGED <<follower, told, got, listed, ready, deltas, finished, asked, outcome, searches,
                       emitted, opened, batches, ledgerRow, meter>>
    BY <1>10 DEF CloseTool
  <2>2. CASE Fails(c) /\ UNCHANGED <<round, answerOnly>>
    BY <2>1, <2>2 DEF Fails, ConsumerAt, SearchCeiling, DeltasOK, RoundsOK, Calling
  <2>3. CASE /\ c \notin answerOnly
             /\ ConsumerAt(c, "step") /\ UNCHANGED chatErr
             /\ round' = [round EXCEPT ![c] = @ + 1]
             /\ answerOnly' = answerOnly \cup (IF outcome[c] = "failed" \/ round[c] + 1 = MaxToolRounds THEN {c} ELSE {})
    <3>1. ChatTypeOK' /\ SearchCeiling'
      BY <2>1, <2>3 DEF ConsumerAt, SearchCeiling
    <3>2. \A d \in Chats : DeltasOK(d)'
      BY <2>1, <2>3 DEF ConsumerAt, DeltasOK
    <3>3. RoundsOK(c)'
      <4>1. round'[c] = round[c] + 1 /\ consumer'[c] = "step" /\ round[c] < MaxToolRounds
        BY <2>3 DEF ConsumerAt, RoundsOK
      <4>2. c \notin answerOnly' => round'[c] < MaxToolRounds
        BY <2>3, <4>1, <1>0
      <4> QED
        BY <4>1, <4>2, <2>1 DEF RoundsOK, Calling
    <3>4. ASSUME NEW d \in Chats, d # c PROVE RoundsOK(d)'
      <4>1. round'[d] = round[d] /\ consumer'[d] = consumer[d] /\ (d \in answerOnly' <=> d \in answerOnly)
        BY <2>3, <3>4 DEF ConsumerAt
      <4> QED
        BY <4>1, <2>1 DEF RoundsOK
    <3> QED
      BY <3>1, <3>2, <3>3, <3>4
  <2> QED
    BY <1>10, <2>2, <2>3 DEF CloseTool
<1>11. CASE Return(c)
  BY <1>11 DEF Return, ConsumerAt, SearchCeiling, DeltasOK, RoundsOK, Calling
<1>12. CASE FinishChat(c)
  BY <1>12 DEF FinishChat, ConsumerAt, Over, SearchCeiling, DeltasOK, RoundsOK, Calling
<1> QED
  BY <1>1, <1>2, <1>3, <1>4, <1>5, <1>6, <1>7, <1>8, <1>9, <1>10, <1>11, <1>12 DEF ConsumerNext

\* The key's day and its other chats.
LEMMA SearchKeeps ==
    ASSUME ChatInv, SearchDayTurns \/ SearchElsewhere
    PROVE  ChatInv'
<1> USE DEF ChatInv, ChatTypeOK, Followers, Consumers, delivery, loop, ledgerRow, meter
<1>0. MaxToolRounds \in Nat \ {0} /\ SearchLimit \in Nat \ {0}
  BY ChatAssumption
<1>1. CASE SearchDayTurns
  BY <1>0, <1>1 DEF SearchDayTurns, SearchCeiling, DeltasOK, RoundsOK, Calling
<1>2. CASE SearchElsewhere
  BY <1>0, <1>2 DEF SearchElsewhere, SearchRoom, SearchCeiling, DeltasOK, RoundsOK, Calling
<1> QED
  BY <1>1, <1>2

\* Every step keeps it.
LEMMA ChatStepKeeps == ChatInv /\ [ChatNext]_chatVars => ChatInv'
<1> SUFFICES ASSUME ChatInv, [ChatNext]_chatVars PROVE ChatInv'
  OBVIOUS
<1>1. CASE UNCHANGED chatVars
  BY <1>1 DEF chatVars, ChatInv, ChatTypeOK, Followers, Consumers, delivery, loop, ledgerRow, meter,
              SearchCeiling, DeltasOK, RoundsOK, Calling
<1>2. CASE ChatNext
  BY <1>2, FollowerKeeps, ConsumerKeeps, SearchKeeps DEF ChatNext, FollowerNext
<1> QED
  BY <1>1, <1>2

\* A friend told that a chat is done holds every delta of its answer and the stored run is done;
\* every batch of work has its step in the trace, and there are no more of them than rounds
\* (chat_run.go; ChatIsFaithful of ChatRun).
THEOREM ChatAlwaysFaithful == ChatSpec => []ChatIsFaithful
BY ChatInvImplies, ChatInitHolds, ChatStepKeeps, PTL DEF ChatSpec

\* A key's searches and reservations stay within its day, whatever its chats and its other
\* devices do at the same time (search.go, limits.go; SearchCeiling of ChatRun).
THEOREM SearchCeilingHolds == ChatSpec => []SearchCeiling
BY ChatInvImplies, ChatInitHolds, ChatStepKeeps, PTL DEF ChatSpec

-----------------------------------------------------------------------------
(* Agents.  AgentTypeOK and HoldsOK hold all the time.  Until the run has  *)
(* met its first failure, Quiet holds too: it says of every frame and      *)
(* message on the wires which question of the plugin it belongs to, and    *)
(* which of the plugin's events are in the record at that point.           *)

\* What goes over the two wires, and where the plugin is.
Types == {"checkpoint", "stream", "error", "model_cancel", "approval_error", "settled", "model", "approval",
          "start", "cancel", "reply", "result"}
Stages == {"none", "model", "tool", "approval", "terminal", "failed", "ok", "error"}
Frames == [type : Types, stage : Stages, id : Nat, n : Nat]
Asking == {"ask_model", "ask_tool", "ask_approval", "ask_terminal"}
Turns == {"none", "think", "granted", "tool", "model", "approval", "settled"} \cup Asking

\* The types of the state.
AgentTypeOK ==
    /\ host \in {"start", "wait", "loop", "join", "approval", "ending", "closing", "over"}
    /\ stop \in SUBSET {"cancel", "abort", "close"} 
    /\ failure \in BOOLEAN /\ spoilt \in BOOLEAN /\ workspace \in BOOLEAN
    /\ callModel \in {"idle", "running", "ok", "failed"}
    /\ proc \in {"none", "starting", "healthy", "dead"} /\ turn \in Turns
    /\ toHost \in Seq(Frames) /\ toChild \in Seq(Frames)
    /\ asks \in Nat /\ pend \in Nat /\ made \in Nat /\ kept \in Nat

\* What the consumer has not yet made, and what it has given up.
HoldsOK ==
    /\ host = "start" => proc = "none" /\ ~workspace
    /\ host \in {"start", "wait"} => callModel = "idle" /\ turnLease = "none"
    /\ host \in {"closing", "over"} => callModel # "running" /\ turnLease = "none"
    /\ host = "over" => ~Alive /\ ~workspace
    /\ host = "approval" => toHost # <<>>
    /\ agentRow = "done" => host = "over" /\ ~failure /\ "cancel" \notin stop

\* Before its start a child has done nothing; after its end it does nothing.
FreshOK ==
    /\ host \in {"start", "wait"} => toChild = <<>> /\ turn = "none"
    /\ turn = "none" /\ proc # "dead" =>
         toHost = <<>> /\ callModel = "idle" /\ made = 0 /\ kept = 0 /\ pend = 0 /\ ~spoilt
    /\ proc = "dead" => turn = "none" /\ toChild = <<>>

\* Which events are in the record, for each turn of the plugin.
Kept == kept = made
TurnOK ==
    /\ turn = "think" => spoilt \/ kept + pend = made
    /\ turn \in {"model", "granted", "tool", "approval", "ask_approval"} => Kept /\ ~spoilt
    /\ turn \notin {"think"} => pend = 0
    /\ turn = "model" => Len(toHost) <= 1

\* A plugin that dropped an event has told the host to abort, before anything else it asks.
SpoiltOK ==
    /\ spoilt /\ turn \in {"think", "ask_model", "ask_tool"} =>
         "abort" \in stop \/ \E i \in 1..Len(toHost) : toHost[i].type = "model_cancel"
    /\ "abort" \in stop /\ host \in {"start", "wait", "loop", "join", "approval"} => spoilt

\* A reply to the question the plugin asks.
Answers(m) == m.type = "reply" /\ m.id = asks
Left == "cancel" \in stop \/ "close" \in stop

\* A question is the last frame on the wire, and not answered yet.
FrameOK(f, last) ==
    /\ f.type \in {"checkpoint", "approval", "settled"} => last
    /\ f.type \in {"checkpoint", "approval"} => f.id = asks /\ \A i \in 1..Len(toChild) : ~Answers(toChild[i])
    /\ f.type = "checkpoint" => /\ turn \in Asking \/ proc = "dead"
                                /\ f.stage = "terminal" => turn = "ask_terminal" \/ proc = "dead"
                                /\ spoilt \/ kept + f.n = made
    /\ f.type = "approval" => turn = "approval" \/ proc = "dead"
    /\ f.type = "settled" => /\ turn = "settled" \/ proc = "dead"
                             /\ f.stage # "failed" => Left \/ Kept
    /\ f.type = "model_cancel" => spoilt
HostFrames ==
    /\ \A i \in 1..Len(toHost) : FrameOK(toHost[i], i = Len(toHost))
    /\ host = "approval" => Len(toHost) # 0 /\ toHost[1].type = "approval"

\* An answer finds the plugin waiting for it, and a good one is given for what is kept.
MsgOK(m) ==
    /\ m.type # "cancel"
    /\ m.type = "start" => turn = "none" /\ Len(toChild) = 1
    /\ m.type = "reply" => m.id <= asks
    /\ Answers(m) => /\ toHost = <<>> /\ turn \in Asking \cup {"approval"}
                     /\ m.stage # "ok" => turn = "approval"
                     /\ m.stage = "ok" => IF turn = "ask_terminal" THEN spoilt \/ Left \/ Kept ELSE ~spoilt /\ Kept
ChildMsgs ==
    /\ \A i \in 1..Len(toChild) : MsgOK(toChild[i])
    /\ \A i, j \in 1..Len(toChild) : Answers(toChild[i]) /\ Answers(toChild[j]) => i = j

\* A consumer that ends without a failure has seen the plugin settle.
EndOK == host \in {"ending", "closing", "over"} => (turn = "settled" \/ proc = "dead") /\ (Left \/ Kept)

\* All that holds of a run that has not failed, and the invariant.
Quiet == FreshOK /\ TurnOK /\ SpoiltOK /\ HostFrames /\ ChildMsgs /\ EndOK
AgentInv == AgentTypeOK /\ HoldsOK /\ (failure \/ Quiet)

\* What the session makes of frames it is told.
LEMMA FramesMade ==
    ASSUME NEW t \in Types, NEW s \in Stages, NEW i \in Nat, NEW n \in Nat
    PROVE  Frame(t, s, i, n) \in Frames
BY DEF Frame, Frames

\* Adding one element.
LEMMA SeqMade ==
    ASSUME NEW S, NEW q \in Seq(S), NEW e \in S
    PROVE  /\ q \o <<e>> \in Seq(S) /\ Len(q \o <<e>>) = Len(q) + 1
           /\ \A i \in 1..Len(q) : (q \o <<e>>)[i] = q[i]
           /\ (q \o <<e>>)[Len(q) + 1] = e
<1>1. <<e>> \in Seq(S) /\ Len(<<e>>) = 1
  OBVIOUS
<1> QED
  BY <1>1, ConcatProperties

\* Taking the first element.
LEMMA SeqTaken ==
    ASSUME NEW S, NEW q \in Seq(S), q # <<>>
    PROVE  /\ Head(q) \in S /\ Head(q) = q[1] /\ Len(q) \in Nat \ {0}
           /\ Tail(q) \in Seq(S) /\ Len(Tail(q)) = Len(q) - 1
           /\ \A i \in 1..Len(Tail(q)) : Tail(q)[i] = q[i + 1]
BY HeadTailProperties

\* The reader adds the child's frames to the session, or loses it.
LEMMA ToldFrames ==
    ASSUME toHost \in Seq(Frames), NEW fs \in Seq(Frames), Told(fs)
    PROVE  toHost' \in Seq(Frames) /\ (toHost # <<>> => toHost' # <<>>)
<1>1. Len(toHost) \in Nat /\ Len(fs) \in Nat
  OBVIOUS
<1>2. toHost \o fs \in Seq(Frames) /\ Len(toHost \o fs) = Len(toHost) + Len(fs)
  BY ConcatProperties
<1>3. \A q \in Seq(Frames) : q # <<>> <=> Len(q) # 0
  BY EmptySeq
<1>4. toHost' = toHost \/ toHost' = toHost \o fs
  BY DEF Told
<1>5. CASE toHost' = toHost
  BY <1>5
<1>6. CASE toHost' = toHost \o fs
  <2>1. toHost # <<>> => Len(toHost \o fs) # 0
    BY <1>1, <1>2, <1>3
  <2> QED
    BY <1>2, <1>3, <1>6, <2>1
<1> QED
  BY <1>4, <1>5, <1>6
\* The same of what the consumer sends,
LEMMA SentFrames ==
    ASSUME toChild \in Seq(Frames), NEW ms \in Seq(Frames), Sent(ms)
    PROVE  toChild' \in Seq(Frames)
BY ConcatProperties DEF Sent
\* and of the short sequences both are made of.
LEMMA FrameSeq ==
    ASSUME NEW f \in Frames, NEW g \in Frames
    PROVE  <<f>> \in Seq(Frames) /\ <<f>> \o <<g>> \in Seq(Frames) /\ <<>> \o <<g>> \in Seq(Frames)
BY ConcatProperties

\* A reply is a frame.
LEMMA ReplyFrame ==
    ASSUME NEW i \in Nat, NEW ok \in BOOLEAN, NEW allow \in BOOLEAN
    PROVE  Reply(i, ok, allow) \in Seq(Frames)
<1>1. Frame("reply", IF ok THEN "ok" ELSE "error", i, IF allow THEN 1 ELSE 0) \in Frames
  BY FramesMade DEF Types, Stages
<1> QED
  BY <1>1, FrameSeq DEF Reply

\* A wire that only grows.
ToHostKept == toHost' \in Seq(Frames) /\ (toHost # <<>> => toHost' # <<>>)

\* What the child sends.
LEMMA ChildFrames ==
    ASSUME AgentTypeOK, ChildNext
    PROVE  ToHostKept /\ toChild' \in Seq(Frames)
<1> USE DEF AgentTypeOK
<1>1. /\ asks \in Nat /\ pend \in Nat /\ asks + 1 \in Nat
      /\ toHost \in Seq(Frames) /\ toChild \in Seq(Frames)
  OBVIOUS
<1>2. ASSUME NEW s \in {"model", "tool", "approval"}, Ask(s)
      PROVE  ToHostKept
  <2>1. Frame("checkpoint", s, asks + 1, pend) \in Frames
    BY <1>1, FramesMade DEF Types, Stages
  <2>2. <<Frame("checkpoint", s, asks + 1, pend)>> \in Seq(Frames)
    BY <2>1, FrameSeq
  <2> QED
    BY <1>1, <1>2, <2>2, ToldFrames DEF Ask, ToHostKept
<1>3. ASSUME NEW t \in Types, NEW s \in Stages, NEW i \in Nat, Told(<<Frame(t, s, i, 0)>>)
      PROVE  ToHostKept
  <2>1. <<Frame(t, s, i, 0)>> \in Seq(Frames)
    BY <1>3, FramesMade
  <2> QED
    BY <1>1, <1>3, <2>1, ToldFrames DEF ToHostKept
<1>4. ASSUME NEW t \in Types, NEW b,
             Told((IF b THEN <<Frame(t, "none", 0, 0)>> ELSE <<>>) \o <<Frame("checkpoint", "terminal", asks + 1, pend)>>)
      PROVE  ToHostKept
  <2>1. Frame(t, "none", 0, 0) \in Frames /\ Frame("checkpoint", "terminal", asks + 1, pend) \in Frames
    BY <1>1, FramesMade DEF Types, Stages
  <2>2. (IF b THEN <<Frame(t, "none", 0, 0)>> ELSE <<>>) \o <<Frame("checkpoint", "terminal", asks + 1, pend)>>
          \in Seq(Frames)
    BY <2>1, FrameSeq
  <2> QED
    BY <1>1, <1>4, <2>2, ToldFrames DEF ToHostKept
<1>5. CASE Think
  BY <1>1, <1>2, <1>3, <1>5 DEF ToHostKept, Think, Types, Stages
<1>6. CASE EndTurn
  BY <1>1, <1>4, <1>6 DEF EndTurn, Types
<1>7. CASE BufferFull
  BY <1>1, <1>3, <1>7 DEF BufferFull, Types, Stages
<1>8. CASE RunTool \/ ToolReturns
  BY <1>1, <1>8 DEF ToHostKept, RunTool, ToolReturns, wireVars
<1>9. CASE ChildAsks
  BY <1>1, <1>2, <1>3, <1>9 DEF ChildAsks, Types, Stages
<1>10. CASE Hear
  <2>1. toChild' \in Seq(Frames)
    BY <1>1, <1>10, SeqTaken DEF Hear
  <2>2. ASSUME Settles PROVE ToHostKept
    BY <1>1, <1>3, <2>2 DEF Settles, Types, Stages
  <2>3. \/ toHost' = toHost
        \/ Settles
        \/ Told((IF turn = "model" THEN <<Frame("model_cancel", "none", 0, 0)>> ELSE <<>>)
                          \o <<Frame("checkpoint", "terminal", asks + 1, pend)>>)
        \/ Told(<<Frame("model", "none", asks, 0)>>)
        \/ Told(<<Frame("approval", "none", asks + 1, 0)>>)
    BY <1>10 DEF Hear
  <2> QED
    BY <1>1, <1>3, <1>4, <2>1, <2>2, <2>3 DEF ToHostKept, Types, Stages
<1> QED
  BY <1>5, <1>6, <1>7, <1>8, <1>9, <1>10 DEF ChildNext

\* What the consumer takes and sends.
LEMMA HostWires ==
    ASSUME AgentTypeOK, HoldsOK, AgentConsumerNext
    PROVE  toHost' \in Seq(Frames) /\ toChild' \in Seq(Frames)
<1>1. toHost \in Seq(Frames) /\ toChild \in Seq(Frames)
  BY DEF AgentTypeOK
<1>2. ASSUME NEW t \in Types, Sent(<<Frame(t, "none", 0, 0)>>)
      PROVE  toChild' \in Seq(Frames)
  <2>1. Frame(t, "none", 0, 0) \in Frames
    BY <1>2, FramesMade DEF Stages
  <2>2. <<Frame(t, "none", 0, 0)>> \in Seq(Frames)
    BY <2>1, FrameSeq
  <2> QED
    BY <1>1, <1>2, <2>2, SentFrames
<1>3. toHost # <<>> => Head(toHost) \in Frames /\ Head(toHost).id \in Nat /\ Tail(toHost) \in Seq(Frames)
  <2>1. toHost # <<>> => Head(toHost) \in Frames /\ Tail(toHost) \in Seq(Frames)
    BY <1>1, SeqTaken
  <2> QED
    BY <2>1 DEF Frames
<1>4. ASSUME NEW ok \in BOOLEAN, NEW allow \in BOOLEAN, toHost # <<>>, Sent(Reply(Head(toHost).id, ok, allow))
      PROVE  toChild' \in Seq(Frames)
  <2>1. Reply(Head(toHost).id, ok, allow) \in Seq(Frames)
    BY <1>3, <1>4, ReplyFrame
  <2> QED
    BY <1>1, <1>4, <2>1, SentFrames
<1>5. <<>> \in Seq(Frames)
  OBVIOUS
<1>6. CASE Prepare
  BY <1>1, <1>6 DEF Prepare, wireVars
<1>7. CASE WaitChild
  BY <1>1, <1>2, <1>7 DEF WaitChild, Unsent, Types
<1>8. CASE LoopDone
  BY <1>1, <1>2, <1>5, <1>8 DEF LoopDone, Gone, Types
<1>9. CASE LoopLost \/ CheckpointJoins \/ EndWork \/ FinishRun
  BY <1>1, <1>9 DEF LoopLost, CheckpointJoins, EndWork, FinishRun, wireVars
<1>10. CASE LoopModel \/ JoinModel
  BY <1>1, <1>2, <1>10 DEF LoopModel, JoinModel, TakeModel, Unsent, Types
<1>11. CASE CheckpointLate
  <2>1. PICK ok \in BOOLEAN : toHost # <<>> /\ Taken /\ (Sent(Reply(Head(toHost).id, ok, FALSE)) \/ Unsent)
    BY <1>11 DEF CheckpointLate, AtCheckpoint, Incoming
  <2> QED
    BY <1>1, <1>3, <1>4, <2>1 DEF Taken, Unsent
<1>12. CASE CheckpointKept
  <2>1. toHost # <<>> /\ Taken /\ (Sent(Reply(Head(toHost).id, TRUE, FALSE)) \/ Unsent)
    BY <1>12 DEF CheckpointKept, AtCheckpoint, Incoming
  <2> QED
    BY <1>1, <1>3, <1>4, <2>1 DEF Taken, Unsent
<1>13. CASE CheckpointRefused
  <2>1. toHost # <<>> /\ Taken /\ (Sent(Reply(Head(toHost).id, FALSE, FALSE)) \/ Unsent)
    BY <1>13 DEF CheckpointRefused, AtCheckpoint, Incoming
  <2> QED
    BY <1>1, <1>3, <1>4, <2>1 DEF Taken, Unsent
<1>14. CASE ModelFrame \/ OtherFrame \/ SettledFrame
  BY <1>1, <1>3, <1>14 DEF ModelFrame, OtherFrame, SettledFrame, Incoming, Taken
<1>15. CASE ApprovalFrame
  <2>1. toHost # <<>> /\ \/ UNCHANGED <<toHost, toChild>>
                         \/ Taken /\ (Sent(Reply(Head(toHost).id, FALSE, FALSE)) \/ Unsent)
    BY <1>15 DEF ApprovalFrame, Incoming
  <2> QED
    BY <1>1, <1>3, <1>4, <2>1 DEF Taken, Unsent
<1>16. CASE CloseChild
  BY <1>1, <1>5, <1>16 DEF CloseChild, Gone
<1>17. CASE ApprovalEnds
  <2>1. toHost # <<>>
    BY <1>17 DEF ApprovalEnds, HoldsOK
  <2>2. PICK ok \in BOOLEAN : Taken /\ (Sent(Reply(Head(toHost).id, ok, ruling = "allow")) \/ Unsent)
    BY <1>17 DEF ApprovalEnds
  <2>3. (ruling = "allow") \in BOOLEAN
    OBVIOUS
  <2> QED
    BY <1>1, <1>3, <1>4, <2>1, <2>2, <2>3 DEF Taken, Unsent
<1> QED
  BY <1>17, <1>6, <1>7, <1>8, <1>9, <1>10, <1>11, <1>12, <1>13, <1>14, <1>15, <1>16 DEF AgentConsumerNext

\* The child's steps leave the consumer's variables alone.
LEMMA ChildHolds ==
    ASSUME AgentTypeOK, HoldsOK, ChildNext
    PROVE  AgentTypeOK' /\ HoldsOK'
<1>1. ToHostKept /\ toChild' \in Seq(Frames)
  BY ChildFrames
<1>2. UNCHANGED <<host, stop, failure, callModel, turnLease, workspace, proc, agentRow, kept>>
  BY DEF ChildNext, Think, EndTurn, BufferFull, RunTool, ChildAsks, ToolReturns, Hear, consumerVars, recordVars
<1>3. turn' \in Turns
  <2>1. CASE Hear
    BY <2>1 DEF AgentTypeOK, Turns, Asking, Hear, Settles
  <2>2. CASE Think \/ ChildAsks
    BY <2>2 DEF AgentTypeOK, Turns, Asking, Think, ChildAsks, Ask, Waits
  <2>3. CASE EndTurn \/ BufferFull \/ RunTool \/ ToolReturns
    BY <2>3 DEF AgentTypeOK, Turns, Asking, EndTurn, BufferFull, RunTool, ToolReturns
  <2> QED
    BY <2>1, <2>2, <2>3 DEF ChildNext
<1>4. asks' \in Nat /\ pend' \in Nat /\ made' \in Nat
  <2>0. asks \in Nat /\ pend \in Nat /\ made \in Nat
    BY DEF AgentTypeOK
  <2>1. CASE Think \/ ChildAsks
    BY <2>0, <2>1 DEF Think, ChildAsks, Ask
  <2>2. CASE EndTurn \/ BufferFull \/ RunTool \/ ToolReturns
    <3>1. asks' \in {asks, asks + 1} /\ pend' \in {0, pend, pend + 1} /\ made' \in {made, made + 1}
      BY <2>2, Zenon DEF EndTurn, BufferFull, RunTool, ToolReturns
    <3> QED
      BY <2>0, <3>1
  <2>3. CASE Hear
    <3>1. asks' \in {asks, asks + 1} /\ pend' \in {0, pend} /\ made' = made
      BY <2>3 DEF Hear
    <3> QED
      BY <2>0, <3>1
  <2> QED
    BY <2>1, <2>2, <2>3 DEF ChildNext
<1>5. spoilt' \in BOOLEAN
  BY DEF AgentTypeOK, ChildNext, Think, EndTurn, BufferFull, RunTool, ChildAsks, ToolReturns, Hear
<1> QED
  BY <1>1, <1>2, <1>3, <1>4, <1>5 DEF AgentTypeOK, HoldsOK, Alive, ToHostKept

\* The consumer's steps keep the types and what a consumer at each point holds.
LEMMA HostHolds ==
    ASSUME AgentTypeOK, HoldsOK, AgentConsumerNext
    PROVE  AgentTypeOK' /\ HoldsOK'
<1>1. toHost' \in Seq(Frames) /\ toChild' \in Seq(Frames)
  BY HostWires
<1>2. toHost # <<>> => Head(toHost).n \in Nat
  <2>1. toHost # <<>> => Head(toHost) \in Frames
    BY SeqTaken DEF AgentTypeOK
  <2> QED
    BY <2>1 DEF Frames
<1> USE DEF AgentTypeOK, HoldsOK, Alive, Turns, Asking, Stopped
<1> USE DEF consumerVars, wireVars, childVars, recordVars, WorkFails, Returns, Gone, AtCheckpoint, Incoming
<1>3. CASE Prepare
  <2>1. AgentTypeOK'
    BY <1>1, <1>3 DEF Prepare
  <2>2. HoldsOK'
    BY <1>1, <1>3 DEF Prepare
  <2> QED
    BY <2>1, <2>2
<1>4. CASE WaitChild
  BY <1>1, <1>4 DEF WaitChild, Sent
<1>5. CASE LoopDone
  BY <1>1, <1>5 DEF LoopDone, Sent
<1>6. CASE LoopLost \/ CheckpointJoins
  <2>1. AgentTypeOK'
    BY <1>1, <1>6, ZenonT(60) DEF LoopLost, CheckpointJoins
  <2>2. HoldsOK'
    BY <1>6 DEF LoopLost, CheckpointJoins
  <2> QED
    BY <2>1, <2>2
<1>7. CASE LoopModel \/ JoinModel
  BY <1>1, <1>7 DEF LoopModel, JoinModel, TakeModel
<1>8. CASE CheckpointLate
  BY <1>1, <1>8 DEF CheckpointLate
<1>9. CASE CheckpointKept
  <2>1. kept' \in Nat
    BY <1>2, <1>9 DEF CheckpointKept
  <2>2. AgentTypeOK'
    BY <1>1, <2>1, <1>9 DEF CheckpointKept
  <2>3. HoldsOK'
    BY <1>9 DEF CheckpointKept
  <2> QED
    BY <2>2, <2>3
<1>10. CASE CheckpointRefused
  <2>1. kept' \in Nat
    <3>1. kept' = kept \/ kept' = kept + Head(toHost).n
      BY <1>10 DEF CheckpointRefused
    <3> QED
      BY <1>2, <1>10, <3>1 DEF CheckpointRefused
  <2>2. AgentTypeOK'
    BY <1>1, <2>1, <1>10 DEF CheckpointRefused
  <2>3. HoldsOK'
    BY <1>10 DEF CheckpointRefused
  <2> QED
    BY <2>2, <2>3
<1>11. CASE ModelFrame
  BY <1>1, <1>11, ZenonT(60) DEF ModelFrame
<1>12. CASE OtherFrame
  BY <1>1, <1>12, ZenonT(60) DEF OtherFrame
<1>13. CASE ApprovalFrame
  BY <1>1, <1>13, ZenonT(60) DEF ApprovalFrame
<1>14. CASE ApprovalEnds
  BY <1>1, <1>14, ZenonT(60) DEF ApprovalEnds
<1>15. CASE SettledFrame
  BY <1>1, <1>15 DEF SettledFrame
<1>16. CASE EndWork
  BY <1>1, <1>16, ZenonT(60) DEF EndWork
<1>17. CASE CloseChild
  BY <1>1, <1>17 DEF CloseChild
<1>18. CASE FinishRun
  BY <1>1, <1>18 DEF FinishRun
<1> QED
  BY <1>3, <1>4, <1>5, <1>6, <1>7, <1>8, <1>9, <1>10, <1>11, <1>12, <1>13, <1>14, <1>15, <1>16, <1>17, <1>18
  DEF AgentConsumerNext

OtherNext == Healthy \/ Dies \/ ModelEnds \/ CancelRun \/ CloseHost \/ AnswerApproval \/ AgentJoinExpires
\* So do the steps around the run.
LEMMA OtherHolds ==
    ASSUME AgentTypeOK, HoldsOK, OtherNext
    PROVE  AgentTypeOK' /\ HoldsOK'
<1>0. <<>> \in Seq(Frames)
  OBVIOUS
<1> USE <1>0 DEF AgentTypeOK, HoldsOK, Alive, Turns, Asking, Stopped
<1> USE DEF consumerVars, wireVars, childVars, recordVars, Gone
<1>1. CASE Healthy
  BY <1>1 DEF Healthy
<1>2. CASE Dies
  BY <1>2 DEF Dies
<1>3. CASE ModelEnds
  BY <1>3 DEF ModelEnds
<1>4. CASE CancelRun \/ CloseHost
  <2>1. stop' \in SUBSET {"cancel", "abort", "close"}
    BY <1>4 DEF CancelRun, CloseHost
  <2>2. AgentTypeOK'
    BY <1>4, <2>1 DEF CancelRun, CloseHost
  <2>3. HoldsOK'
    BY <1>4 DEF CancelRun, CloseHost
  <2> QED
    BY <2>2, <2>3
<1>5. CASE AnswerApproval
  BY <1>5 DEF AnswerApproval
<1>6. CASE AgentJoinExpires
  <2>0. proc' \in {proc, "dead"} /\ turn' \in {turn, "none"} /\ pend' \in {pend, 0} /\ toChild' \in {toChild, <<>>}
    BY <1>6 DEF AgentJoinExpires
  <2>4. toHost' = toHost
    BY <1>6 DEF AgentJoinExpires
  <2>5. turn' \in Turns /\ pend' \in Nat
    BY <2>0
  <2>6. toChild' \in Seq(Frames)
    BY <2>0
  <2>3. toHost' \in Seq(Frames) /\ toChild' \in Seq(Frames) /\ turn' \in Turns /\ pend' \in Nat
    BY <2>4, <2>5, <2>6
  <2>1. AgentTypeOK'
    BY <2>0, <2>3, <1>6 DEF AgentJoinExpires
  <2>2. HoldsOK'
    BY <1>6 DEF AgentJoinExpires
  <2> QED
    BY <2>1, <2>2
<1> QED
  BY <1>1, <1>2, <1>3, <1>4, <1>5, <1>6 DEF OtherNext

\* Types and holdings are inductive without the rest.
LEMMA AgentHolds == AgentTypeOK /\ HoldsOK /\ [AgentNext]_agentVars => AgentTypeOK' /\ HoldsOK'
<1> SUFFICES ASSUME AgentTypeOK, HoldsOK, [AgentNext]_agentVars PROVE AgentTypeOK' /\ HoldsOK'
  OBVIOUS
<1>1. CASE UNCHANGED agentVars
  BY <1>1 DEF agentVars, consumerVars, wireVars, childVars, recordVars, AgentTypeOK, HoldsOK, Alive
<1>2. CASE AgentNext
  BY <1>2, ChildHolds, HostHolds, OtherHolds DEF AgentNext, OtherNext
<1> QED
  BY <1>1, <1>2

\* They hold of a run that has not begun.
LEMMA AgentStarts == AgentInit => AgentTypeOK /\ HoldsOK
<1>1. <<>> \in Seq(Frames)
  OBVIOUS
<1> SUFFICES ASSUME AgentInit PROVE AgentTypeOK /\ HoldsOK
  OBVIOUS
<1>2. AgentTypeOK
  BY <1>1 DEF AgentInit, AgentTypeOK, Turns
<1>3. HoldsOK
  BY DEF AgentInit, HoldsOK, Alive
<1> QED
  BY <1>2, <1>3

\* When the consumer of an agent run has returned, its child is joined, its model call is over,
\* its workspace removed and its lease given up, however it ended (adapter.go, runtime.go;
\* NothingOutlives of AgentRun).
THEOREM NothingEverOutlives == AgentSpec => []NothingOutlives
<1>1. HoldsOK => NothingOutlives
  BY DEF HoldsOK, NothingOutlives
<1> QED
  BY <1>1, AgentStarts, AgentHolds, PTL DEF AgentSpec

-----------------------------------------------------------------------------
\* A frame that is no question, and no cancelled call of a plugin that spoilt nothing.
Questions == {"checkpoint", "approval", "settled"}
Calm(f) == f.type \notin Questions /\ (f.type = "model_cancel" => spoilt)

\* A plugin that waits for no answer has no question on the wire, and no answer comes.
LEMMA NothingAsked ==
    ASSUME AgentTypeOK, Quiet, Alive, turn \notin Asking \cup {"approval", "settled"}
    PROVE  /\ \A i \in 1..Len(toHost) : Calm(toHost[i])
           /\ \A i \in 1..Len(toChild) : ~Answers(toChild[i])
<1>1. proc # "dead"
  BY DEF Alive
<1>2. ASSUME NEW i \in 1..Len(toHost) PROVE Calm(toHost[i])
  BY <1>1, <1>2 DEF Quiet, HostFrames, FrameOK, Calm, Questions, Asking
<1>3. ASSUME NEW i \in 1..Len(toChild) PROVE ~Answers(toChild[i])
  BY <1>3 DEF Quiet, ChildMsgs, MsgOK
<1> QED
  BY <1>2, <1>3

\* What a told frame does to the wire.
Added(q, r, f) ==
    /\ Len(r) = Len(q) + 1 /\ r[Len(r)] = f
    /\ \A i \in 1..Len(q) : r[i] = q[i]
\* A frame the reader is told is added, or the session is lost and nothing is.
LEMMA ToldOne ==
    ASSUME toHost \in Seq(Frames), NEW f \in Frames, Told(<<f>>)
    PROVE  toHost' = toHost \/ Added(toHost, toHost', f)
<1>1. Len(toHost \o <<f>>) = Len(toHost) + 1 /\ (\A i \in 1..Len(toHost) : (toHost \o <<f>>)[i] = toHost[i])
      /\ (toHost \o <<f>>)[Len(toHost) + 1] = f
  BY SeqMade
<1> QED
  BY <1>1 DEF Told, Added
\* A message that is sent is added to the others.
LEMMA SentOne ==
    ASSUME toChild \in Seq(Frames), NEW f \in Frames, Sent(<<f>>)
    PROVE  Added(toChild, toChild', f)
<1>1. Len(toChild \o <<f>>) = Len(toChild) + 1 /\ (\A i \in 1..Len(toChild) : (toChild \o <<f>>)[i] = toChild[i])
      /\ (toChild \o <<f>>)[Len(toChild) + 1] = f
  BY SeqMade
<1> QED
  BY <1>1 DEF Sent, Added

\* A question told while the wire is calm.
LEMMA QuestionFrames ==
    ASSUME toHost \in Seq(Frames), toHost' \in Seq(Frames), NEW f \in Frames,
           toHost' = toHost \/ Added(toHost, toHost', f),
           \A i \in 1..Len(toHost) : Calm(toHost[i]), spoilt => spoilt',
           FrameOK(f, TRUE)', host' # "approval"
    PROVE  HostFrames'
<1>1. ASSUME NEW i \in 1..Len(toHost') PROVE FrameOK(toHost[i], i = Len(toHost))'
  <2>1. CASE i \in 1..Len(toHost)
    <3>1. toHost'[i] = toHost[i] /\ Calm(toHost[i])
      BY <2>1 DEF Added
    <3> QED
      BY <3>1 DEF FrameOK, Calm, Questions
  <2>2. CASE i \notin 1..Len(toHost)
    <3>1. toHost'[i] = f /\ i = Len(toHost')
      BY <1>1, <2>2 DEF Added
    <3> QED
      BY <3>1 DEF FrameOK
  <2> QED
    BY <2>1, <2>2
<1> QED
  BY <1>1 DEF HostFrames

\* A plugin that is not to be answered may ask its next question.
LEMMA MessagesStay ==
    ASSUME AgentTypeOK, ChildMsgs, turn # "none", asks' \in {asks, asks + 1}, toChild' = toChild,
           \A i \in 1..Len(toChild) : ~Answers(toChild[i])
    PROVE  ChildMsgs' /\ \A i \in 1..Len(toChild') : ~Answers(toChild[i])'
<1>1. ASSUME NEW i \in 1..Len(toChild)
      PROVE  /\ toChild[i].type \notin {"cancel", "start"} /\ (toChild[i].type = "reply" => toChild[i].id <= asks')
             /\ ~(toChild[i].type = "reply" /\ toChild[i].id = asks')
  <2>0. toChild[i] \in Frames
    BY <1>1 DEF AgentTypeOK
  <2>1. toChild[i].id \in Nat
    BY <2>0 DEF Frames
  <2> QED
    BY <1>1, <2>1 DEF ChildMsgs, MsgOK, Answers, AgentTypeOK
<1> QED
  BY <1>1 DEF ChildMsgs, MsgOK, Answers

\* The plugin's own steps.
LEMMA ThinkQuiet ==
    ASSUME AgentTypeOK, AgentTypeOK', HoldsOK, Quiet, Think
    PROVE  Quiet'
<1>1. /\ Alive /\ turn = "think" /\ UNCHANGED <<consumerVars, toChild, proc, recordVars>>
  BY DEF Think
<1>2. /\ \A i \in 1..Len(toHost) : Calm(toHost[i])
      /\ \A i \in 1..Len(toChild) : ~Answers(toChild[i])
  BY <1>1, NothingAsked DEF Asking
<1>3. /\ host \notin {"start", "wait", "approval"} /\ proc # "dead" /\ asks' \in {asks, asks + 1}
      /\ host \notin {"ending", "closing", "over"} /\ spoilt' = spoilt
  <2>1. host # "approval"
    BY <1>1, <1>2 DEF Quiet, HostFrames, Calm, Questions, AgentTypeOK
  <2>2. host \notin {"start", "wait"} /\ host \notin {"ending", "closing", "over"} /\ proc # "dead"
    BY <1>1 DEF Quiet, FreshOK, EndOK, Alive
  <2>3. asks' \in {asks, asks + 1} /\ spoilt' = spoilt
    BY DEF Think, Ask
  <2> QED
    BY <2>1, <2>2, <2>3
<1>4. ChildMsgs' /\ \A i \in 1..Len(toChild') : ~Answers(toChild[i])'
  BY <1>1, <1>2, <1>3, MessagesStay DEF Quiet
<1>5. FreshOK' /\ EndOK' /\ turn' # "none"
  BY <1>1, <1>3 DEF FreshOK, EndOK, consumerVars, Think, Ask, Waits
<1>6. toHost \in Seq(Frames) /\ toHost' \in Seq(Frames) /\ pend \in Nat /\ asks \in Nat
  BY DEF AgentTypeOK
<1>7. ASSUME NEW s \in {"model", "tool"}, Ask(s), UNCHANGED <<made, spoilt>>
      PROVE  Quiet'
  <2>0. Frame("checkpoint", s, asks + 1, pend) \in Frames
    BY <1>6, FramesMade DEF Types, Stages
  <2>1. PICK f \in Frames : f = Frame("checkpoint", s, asks + 1, pend)
    BY <2>0
  <2>8. f.type = "checkpoint" /\ f.stage = s /\ f.id = asks + 1 /\ f.n = pend
    BY <2>1 DEF Frame
  <2>2. Told(<<f>>) /\ turn' \in {"ask_model", "ask_tool"} /\ pend' = 0 /\ asks' = asks + 1
    BY <1>7, <2>1 DEF Ask, Waits
  <2>3. toHost' = toHost \/ Added(toHost, toHost', f)
    BY <1>6, <2>1, <2>2, ToldOne
  <2>4. FrameOK(f, TRUE)'
    <3>1. spoilt \/ kept + pend = made
      BY <1>1 DEF Quiet, TurnOK
    <3> QED
      BY <1>1, <1>4, <1>7, <2>8, <2>2, <3>1 DEF FrameOK, Answers, Asking, recordVars
  <2>5. HostFrames'
    BY <1>1, <1>2, <1>3, <1>6, <2>1, <2>3, <2>4, QuestionFrames DEF consumerVars
  <2>6. TurnOK'
    BY <2>2 DEF TurnOK
  <2>7. SpoiltOK'
    <3>1. stop' = stop /\ host' = host
      BY <1>1 DEF consumerVars
    <3>2. spoilt => "abort" \in stop \/ \E i \in 1..Len(toHost') : toHost'[i].type = "model_cancel"
      BY <1>1, <2>3, <1>6 DEF Quiet, SpoiltOK, Added
    <3>3. "abort" \in stop /\ host \in {"start", "wait", "loop", "join", "approval"} => spoilt
      BY DEF Quiet, SpoiltOK
    <3> QED
      BY <3>1, <3>2, <3>3, <1>3 DEF SpoiltOK
  <2> QED
    BY <1>4, <1>5, <2>5, <2>6, <2>7 DEF Quiet
<1>8. ASSUME made' = made + 1, pend' = pend + 1, UNCHANGED <<toHost, turn, asks, spoilt>>
      PROVE  Quiet'
  <2>1. TurnOK'
    <3>1. spoilt \/ kept + pend = made
      BY <1>1 DEF Quiet, TurnOK
    <3>2. spoilt' \/ kept' + pend' = made'
      BY <3>1, <1>1, <1>8 DEF recordVars, AgentTypeOK
    <3> QED
      BY <3>2, <1>1, <1>8 DEF TurnOK
  <2>2. SpoiltOK'
    BY <1>1, <1>8 DEF Quiet, SpoiltOK, consumerVars
  <2>3. HostFrames'
    <3>1. ASSUME NEW i \in 1..Len(toHost') PROVE FrameOK(toHost[i], i = Len(toHost))'
      <4>1. Calm(toHost[i]) /\ toHost'[i] = toHost[i]
        BY <1>2, <1>8
      <4> QED
        BY <4>1, <1>8 DEF FrameOK, Calm, Questions
    <3> QED
      BY <3>1, <1>1, <1>3 DEF HostFrames, consumerVars
  <2> QED
    BY <1>4, <1>5, <2>1, <2>2, <2>3 DEF Quiet
<1>9. ASSUME Told(<<Frame("stream", "none", 0, 0)>>), UNCHANGED <<turn, asks, pend, made, spoilt>>
      PROVE  Quiet'
  <2> DEFINE f == Frame("stream", "none", 0, 0)
  <2>1. f \in Frames /\ f.type = "stream"
    <3>1. f \in Frames
      BY FramesMade DEF Types, Stages
    <3> QED
      BY <3>1 DEF Frame
  <2>2. Told(<<f>>)
    BY <1>9
  <2> HIDE DEF f
  <2>3. toHost' = toHost \/ Added(toHost, toHost', f)
    BY <1>6, <2>1, <2>2, ToldOne
  <2>4. FrameOK(f, TRUE)'
    BY <2>1 DEF FrameOK
  <2>5. HostFrames'
    BY <1>1, <1>2, <1>3, <1>6, <2>1, <2>3, <2>4, QuestionFrames DEF consumerVars
  <2>6. TurnOK'
    BY <1>1, <1>9 DEF Quiet, TurnOK, recordVars
  <2>7. SpoiltOK'
    <3>1. stop' = stop /\ host' = host
      BY <1>1 DEF consumerVars
    <3>2. spoilt => "abort" \in stop \/ \E i \in 1..Len(toHost') : toHost'[i].type = "model_cancel"
      BY <1>1, <2>3, <1>6 DEF Quiet, SpoiltOK, Added
    <3>3. "abort" \in stop /\ host \in {"start", "wait", "loop", "join", "approval"} => spoilt
      BY DEF Quiet, SpoiltOK
    <3> QED
      BY <3>1, <3>2, <3>3, <1>3 DEF SpoiltOK
  <2> QED
    BY <1>4, <1>5, <2>5, <2>6, <2>7 DEF Quiet
<1> QED
  BY <1>7, <1>8, <1>9 DEF Think

\* A plugin that works on and asks nothing leaves the rest as it was.
LEMMA WorksOn ==
    ASSUME AgentTypeOK, HoldsOK, Quiet, Alive, turn \in {"think", "granted", "model", "tool"},
           UNCHANGED <<consumerVars, toChild, proc, recordVars>>,
           asks' \in {asks, asks + 1}, turn' # "none"
    PROVE  /\ \A i \in 1..Len(toHost) : Calm(toHost[i])
           /\ ChildMsgs' /\ \A i \in 1..Len(toChild') : ~Answers(toChild[i])'
           /\ FreshOK' /\ EndOK' /\ host' = host /\ host \in {"loop", "join"} /\ proc # "dead"
<1>1. /\ \A i \in 1..Len(toHost) : Calm(toHost[i])
      /\ \A i \in 1..Len(toChild) : ~Answers(toChild[i])
  BY NothingAsked DEF Asking
<1>2. ChildMsgs' /\ \A i \in 1..Len(toChild') : ~Answers(toChild[i])'
  BY <1>1, MessagesStay DEF Quiet
<1>3. host # "approval"
  BY <1>1 DEF Quiet, HostFrames, Calm, Questions, AgentTypeOK
<1>4. host \in {"loop", "join"} /\ proc # "dead"
  BY <1>3 DEF Quiet, FreshOK, EndOK, Alive, AgentTypeOK
<1>5. FreshOK' /\ EndOK' /\ host' = host
  BY <1>4 DEF FreshOK, EndOK, consumerVars
<1> QED
  BY <1>1, <1>2, <1>4, <1>5

\* A frame that is told keeps the others on the wire.
LEMMA CancelStays ==
    ASSUME toHost \in Seq(Frames), Quiet, turn \in {"think", "ask_model", "ask_tool"}, NEW f \in Frames,
           toHost' = toHost \/ Added(toHost, toHost', f), UNCHANGED consumerVars, spoilt' = spoilt
    PROVE  SpoiltOK'
<1>1. stop' = stop /\ host' = host
  BY DEF consumerVars
<1>2. spoilt => "abort" \in stop \/ \E i \in 1..Len(toHost') : toHost'[i].type = "model_cancel"
  BY DEF Quiet, SpoiltOK, Added
<1>3. "abort" \in stop /\ host \in {"start", "wait", "loop", "join", "approval"} => spoilt
  BY DEF Quiet, SpoiltOK
<1> QED
  BY <1>1, <1>2, <1>3 DEF SpoiltOK

\* A granted tool runs and returns; its event is not sent yet.
LEMMA RunToolQuiet ==
    ASSUME AgentTypeOK, HoldsOK, Quiet, RunTool \/ ToolReturns
    PROVE  Quiet'
<1>1. /\ Alive /\ turn \in {"granted", "tool"} /\ turn' \in {"tool", "think"} /\ asks' = asks /\ spoilt' = spoilt
      /\ UNCHANGED <<consumerVars, toChild, proc, recordVars>> /\ toHost' = toHost
  BY DEF RunTool, ToolReturns, wireVars
<1>2. /\ \A i \in 1..Len(toHost) : Calm(toHost[i])
      /\ ChildMsgs' /\ \A i \in 1..Len(toChild') : ~Answers(toChild[i])'
      /\ FreshOK' /\ EndOK' /\ host' = host /\ host \in {"loop", "join"} /\ proc # "dead"
  BY <1>1, WorksOn
<1>3. Kept /\ ~spoilt /\ pend = 0
  BY <1>1 DEF Quiet, TurnOK
<1>4. TurnOK'
  <2>1. CASE RunTool
    BY <2>1, <1>1, <1>3 DEF RunTool, TurnOK, Kept, recordVars
  <2>2. CASE ToolReturns
    <3>1. kept' + pend' = made'
      BY <2>2, <1>1, <1>3 DEF ToolReturns, Kept, recordVars, AgentTypeOK
    <3> QED
      BY <2>2, <3>1 DEF ToolReturns, TurnOK
  <2> QED
    BY <2>1, <2>2
<1>5. SpoiltOK'
  BY <1>1, <1>3 DEF Quiet, SpoiltOK, consumerVars
<1>6. HostFrames'
  <2>1. ASSUME NEW i \in 1..Len(toHost') PROVE FrameOK(toHost[i], i = Len(toHost))'
    <3>1. Calm(toHost[i]) /\ toHost'[i] = toHost[i]
      BY <1>1, <1>2
    <3> QED
      BY <3>1, <1>1 DEF FrameOK, Calm, Questions
  <2> QED
    BY <2>1, <1>2 DEF HostFrames
<1> QED
  BY <1>2, <1>4, <1>5, <1>6 DEF Quiet

\* The dropped event is answered for: the model_cancel that aborts the run is on the wire.
LEMMA BufferFullQuiet ==
    ASSUME AgentTypeOK, AgentTypeOK', HoldsOK, Quiet, BufferFull
    PROVE  Quiet'
<1>1. /\ Alive /\ turn = "model" /\ turn' = "think" /\ asks' = asks /\ spoilt'
      /\ UNCHANGED <<consumerVars, toChild, proc, recordVars>>
  BY DEF BufferFull
<1>2. /\ \A i \in 1..Len(toHost) : Calm(toHost[i])
      /\ ChildMsgs' /\ \A i \in 1..Len(toChild') : ~Answers(toChild[i])'
      /\ FreshOK' /\ EndOK' /\ host' = host /\ host \in {"loop", "join"} /\ proc # "dead"
  BY <1>1, WorksOn
<1>3. Frame("model_cancel", "none", 0, 0) \in Frames
  BY FramesMade DEF Types, Stages
<1>4. PICK f \in Frames : f = Frame("model_cancel", "none", 0, 0)
  BY <1>3
<1>5. f.type = "model_cancel" /\ Told(<<f>>) /\ Len(<<f>>) = 1
  BY <1>4 DEF Frame, BufferFull
<1>6. toHost \in Seq(Frames) /\ toHost' \in Seq(Frames)
  BY DEF AgentTypeOK
<1>7. Len(toHost) + 1 <= FrameCap
  BY <1>1, <1>6, AgentAssumption DEF Quiet, TurnOK
<1>8. Added(toHost, toHost', f)
  <2>1. toHost' = toHost \o <<f>>
    BY <1>5, <1>7 DEF Told
  <2> QED
    BY <1>6, <2>1, SeqMade DEF Added
<1>9. HostFrames'
  <2>1. FrameOK(f, TRUE)'
    BY <1>1, <1>5 DEF FrameOK
  <2> QED
    BY <1>1, <1>2, <1>6, <1>8, <2>1, QuestionFrames
<1>10. SpoiltOK'
  <2>1. toHost'[Len(toHost')].type = "model_cancel" /\ Len(toHost') \in 1..Len(toHost')
    BY <1>5, <1>6, <1>8 DEF Added
  <2> QED
    BY <1>1, <2>1 DEF SpoiltOK
<1>11. TurnOK'
  BY <1>1 DEF TurnOK
<1> QED
  BY <1>2, <1>9, <1>10, <1>11 DEF Quiet

\* The plugin asks for an approval, or says that it cannot.
LEMMA ChildAsksQuiet ==
    ASSUME AgentTypeOK, AgentTypeOK', HoldsOK, Quiet, ChildAsks
    PROVE  Quiet'
<1>1. /\ Alive /\ turn = "granted" /\ turn' \in {"think", "ask_approval"} /\ asks' \in {asks, asks + 1} /\ spoilt' = spoilt
      /\ UNCHANGED <<consumerVars, toChild, proc, recordVars>> /\ made' = made /\ pend' \in {0, pend}
  BY DEF ChildAsks, Ask, Waits
<1>2. /\ \A i \in 1..Len(toHost) : Calm(toHost[i])
      /\ ChildMsgs' /\ \A i \in 1..Len(toChild') : ~Answers(toChild[i])'
      /\ FreshOK' /\ EndOK' /\ host' = host /\ host \in {"loop", "join"} /\ proc # "dead"
  BY <1>1, WorksOn
<1>3. Kept /\ ~spoilt /\ pend = 0
  BY <1>1 DEF Quiet, TurnOK
<1>4. TurnOK'
  <2>0. kept' = kept /\ pend' = 0 /\ made' = made /\ kept = made /\ kept \in Nat
    BY <1>1, <1>3 DEF Kept, recordVars, AgentTypeOK
  <2>1. kept' + pend' = made' /\ Kept' /\ pend' = 0
    BY <2>0 DEF Kept
  <2> QED
    BY <1>1, <1>3, <2>1 DEF TurnOK
<1>5. SpoiltOK'
  BY <1>1, <1>3 DEF Quiet, SpoiltOK, consumerVars
<1>6. toHost \in Seq(Frames) /\ toHost' \in Seq(Frames) /\ asks \in Nat /\ pend \in Nat
  BY DEF AgentTypeOK
<1>7. HostFrames'
  <2>1. CASE Ask("approval")
    <3>1. Frame("checkpoint", "approval", asks + 1, pend) \in Frames
      BY <1>6, FramesMade DEF Types, Stages
    <3>2. PICK f \in Frames : f = Frame("checkpoint", "approval", asks + 1, pend)
      BY <3>1
    <3>3. f.type = "checkpoint" /\ f.stage = "approval" /\ f.id = asks + 1 /\ f.n = pend
      BY <3>2 DEF Frame
    <3>4. Told(<<f>>) /\ turn' = "ask_approval" /\ asks' = asks + 1
      BY <2>1, <3>2 DEF Ask, Waits
    <3>5. toHost' = toHost \/ Added(toHost, toHost', f)
      BY <1>6, <3>4, ToldOne
    <3>6. kept' + f.n = made'
      BY <1>1, <1>3, <3>3 DEF Kept, recordVars, AgentTypeOK
    <3>7. FrameOK(f, TRUE)'
      BY <1>2, <3>3, <3>4, <3>6 DEF FrameOK, Answers, Asking
    <3> QED
      BY <1>1, <1>2, <1>6, <3>5, <3>7, QuestionFrames
  <2>2. CASE Told(<<Frame("approval_error", "none", 0, 0)>>)
    <3>1. Frame("approval_error", "none", 0, 0) \in Frames
      BY FramesMade DEF Types, Stages
    <3>2. PICK f \in Frames : f = Frame("approval_error", "none", 0, 0)
      BY <3>1
    <3>3. f.type = "approval_error" /\ Told(<<f>>)
      BY <2>2, <3>2 DEF Frame
    <3>5. toHost' = toHost \/ Added(toHost, toHost', f)
      BY <1>6, <3>3, ToldOne
    <3>7. FrameOK(f, TRUE)'
      BY <3>3 DEF FrameOK
    <3> QED
      BY <1>1, <1>2, <1>6, <3>5, <3>7, QuestionFrames
  <2> QED
    BY <2>1, <2>2 DEF ChildAsks
<1> QED
  BY <1>2, <1>4, <1>5, <1>7 DEF Quiet

\* The last question goes alone, or after the error that led to it.
LEMMA ToldTwo ==
    ASSUME toHost \in Seq(Frames), NEW e \in Frames, NEW f \in Frames, NEW b \in BOOLEAN,
           Told((IF b THEN <<e>> ELSE <<>>) \o <<f>>)
    PROVE  \/ toHost' = toHost
           \/ Added(toHost, toHost', f)
           \/ \E q \in Seq(Frames) : Added(toHost, q, e) /\ Added(q, toHost', f)
<1>1. CASE b
  <2>1. toHost' = toHost \/ toHost' = toHost \o (<<e>> \o <<f>>)
    BY <1>1 DEF Told
  <2>2. /\ <<e>> \in Seq(Frames) /\ <<f>> \in Seq(Frames)
    OBVIOUS
  <2>3. toHost \o (<<e>> \o <<f>>) = (toHost \o <<e>>) \o <<f>>
    BY <2>2, ConcatAssociative
  <2>4. toHost \o <<e>> \in Seq(Frames) /\ Added(toHost, toHost \o <<e>>, e)
    BY SeqMade DEF Added
  <2>5. Added(toHost \o <<e>>, (toHost \o <<e>>) \o <<f>>, f)
    BY <2>4, SeqMade DEF Added
  <2> QED
    BY <2>1, <2>3, <2>4, <2>5
<1>2. CASE ~b
  <2>1. <<>> \o <<f>> = <<f>>
    OBVIOUS
  <2>2. Told(<<f>>)
    BY <1>2, <2>1
  <2> QED
    BY <2>2, ToldOne
<1> QED
  BY <1>1, <1>2

\* The turn ends and the plugin asks a last time.
LEMMA EndTurnQuiet ==
    ASSUME AgentTypeOK, AgentTypeOK', HoldsOK, Quiet, EndTurn
    PROVE  Quiet'
<1>1. /\ Alive /\ turn \in {"think", "granted"} /\ turn' = "ask_terminal" /\ asks' = asks + 1 /\ pend' = 0
      /\ UNCHANGED <<consumerVars, toChild, proc, recordVars>> /\ made' = made
  BY DEF EndTurn
<1>2. /\ \A i \in 1..Len(toHost) : Calm(toHost[i])
      /\ ChildMsgs' /\ \A i \in 1..Len(toChild') : ~Answers(toChild[i])'
      /\ FreshOK' /\ EndOK' /\ host' = host /\ host \in {"loop", "join"} /\ proc # "dead"
  BY <1>1, WorksOn
<1>3. spoilt => spoilt'
  BY DEF EndTurn
<1>4. TurnOK'
  BY <1>1 DEF TurnOK
<1>5. SpoiltOK'
  BY <1>1, <1>3 DEF Quiet, SpoiltOK, consumerVars
<1>6. toHost \in Seq(Frames) /\ toHost' \in Seq(Frames) /\ asks \in Nat /\ pend \in Nat /\ spoilt' \in BOOLEAN
  BY DEF AgentTypeOK
<1>7. spoilt' \/ kept + pend = made
  <2>1. CASE turn = "think"
    BY <1>3, <2>1 DEF Quiet, TurnOK
  <2>2. CASE turn = "granted"
    <3>1. kept = made /\ pend = 0 /\ kept \in Nat
      BY <2>2 DEF Quiet, TurnOK, Kept, AgentTypeOK
    <3> QED
      BY <3>1
  <2> QED
    BY <1>1, <2>1, <2>2
<1>8. Frame("checkpoint", "terminal", asks + 1, pend) \in Frames /\ Frame("error", "none", 0, 0) \in Frames
  BY <1>6, FramesMade DEF Types, Stages
<1>9. PICK f \in Frames : f = Frame("checkpoint", "terminal", asks + 1, pend)
  BY <1>8
<1>10. PICK e \in Frames : e = Frame("error", "none", 0, 0)
  BY <1>8
<1>11. f.type = "checkpoint" /\ f.id = asks + 1 /\ f.n = pend /\ e.type = "error"
  BY <1>9, <1>10 DEF Frame
<1>12. FrameOK(f, TRUE)'
  BY <1>1, <1>2, <1>7, <1>11 DEF FrameOK, Answers, Asking, recordVars
<1>13. PICK b \in BOOLEAN : b = spoilt'
  BY <1>6
<1>14. Told((IF b THEN <<e>> ELSE <<>>) \o <<f>>)
  BY <1>9, <1>10, <1>13 DEF EndTurn
<1>15. \/ toHost' = toHost
       \/ Added(toHost, toHost', f)
       \/ \E q \in Seq(Frames) : Added(toHost, q, e) /\ Added(q, toHost', f)
  BY <1>6, <1>14, ToldTwo
<1>16. HostFrames'
  <2>1. CASE toHost' = toHost \/ Added(toHost, toHost', f)
    BY <1>1, <1>2, <1>3, <1>6, <1>12, <2>1, QuestionFrames
  <2>2. ASSUME NEW q \in Seq(Frames), Added(toHost, q, e), Added(q, toHost', f)
        PROVE  HostFrames'
    <3>1. ASSUME NEW i \in 1..Len(toHost') PROVE FrameOK(toHost[i], i = Len(toHost))'
      <4>1. CASE i \in 1..Len(toHost)
        <5>1. toHost'[i] = toHost[i] /\ Calm(toHost[i])
          BY <4>1, <1>2, <1>6, <2>2 DEF Added
        <5> QED
          BY <1>3, <5>1 DEF FrameOK, Calm, Questions
      <4>2. CASE i = Len(toHost) + 1
        <5>1. toHost'[i].type = "error"
          BY <4>2, <1>6, <1>11, <2>2 DEF Added
        <5> QED
          BY <5>1 DEF FrameOK
      <4>3. CASE i = Len(toHost) + 2
        <5>1. toHost'[i] = f /\ i = Len(toHost')
          BY <4>3, <1>6, <2>2 DEF Added
        <5> QED
          BY <1>12, <5>1 DEF FrameOK
      <4>4. Len(toHost') = Len(toHost) + 2
        BY <1>6, <2>2 DEF Added
      <4> QED
        BY <1>6, <3>1, <4>1, <4>2, <4>3, <4>4
    <3> QED
      BY <1>2, <3>1 DEF HostFrames
  <2> QED
    BY <1>15, <2>1, <2>2
<1> QED
  BY <1>2, <1>4, <1>5, <1>16 DEF Quiet

\* What is left on the wire when the plugin has heard a message.
Rest(m) ==
    /\ toChild' \in Seq(Frames) /\ Len(toChild') = Len(toChild) - 1
    /\ \A i \in 1..Len(toChild') : toChild'[i] = toChild[i + 1]
    /\ \A i \in 1..Len(toChild') : toChild'[i].type \notin {"cancel", "start"}
    /\ \A i \in 1..Len(toChild') : toChild'[i].id \in Nat
    /\ \A i \in 1..Len(toChild') : toChild'[i].type = "reply" => toChild'[i].id <= asks
    /\ Answers(m) => \A i \in 1..Len(toChild') : ~Answers(toChild'[i])

\* A message is heard: it was in order, and so is what is left.
LEMMA HeardRest ==
    ASSUME AgentTypeOK, ChildMsgs, toChild # <<>>, toChild' = Tail(toChild)
    PROVE  Head(toChild) = toChild[1] /\ 1 \in 1..Len(toChild) /\ MsgOK(Head(toChild)) /\ Rest(Head(toChild))
<1>1. /\ Head(toChild) \in Frames /\ Head(toChild) = toChild[1] /\ Len(toChild) \in Nat \ {0}
      /\ Tail(toChild) \in Seq(Frames) /\ Len(Tail(toChild)) = Len(toChild) - 1
      /\ \A i \in 1..Len(Tail(toChild)) : Tail(toChild)[i] = toChild[i + 1]
  BY SeqTaken DEF AgentTypeOK
<1>2. MsgOK(Head(toChild)) /\ 1 \in 1..Len(toChild)
  BY <1>1 DEF ChildMsgs
<1>3. ASSUME NEW i \in 1..Len(toChild')
      PROVE  /\ i + 1 \in 1..Len(toChild) /\ i + 1 # 1 /\ toChild'[i] = toChild[i + 1]
             /\ toChild[i + 1] \in Frames /\ MsgOK(toChild[i + 1]) /\ Len(toChild) # 1
  <2>1. i + 1 \in 1..Len(toChild) /\ i + 1 # 1 /\ toChild'[i] = toChild[i + 1] /\ Len(toChild) # 1
    BY <1>1, <1>3
  <2>2. toChild[i + 1] \in Frames
    BY <2>1 DEF AgentTypeOK
  <2> QED
    BY <2>1, <2>2 DEF ChildMsgs
<1>4. ASSUME NEW i \in 1..Len(toChild')
      PROVE  /\ toChild'[i].type \notin {"cancel", "start"} /\ toChild'[i].id \in Nat
             /\ toChild'[i].type = "reply" => toChild'[i].id <= asks
  BY <1>3, <1>4 DEF MsgOK, Frames
<1>5. ASSUME NEW i \in 1..Len(toChild'), Answers(Head(toChild)), Answers(toChild'[i])
      PROVE  FALSE
  <2>1. Answers(toChild[1]) /\ Answers(toChild[i + 1]) /\ i + 1 # 1 /\ i + 1 \in 1..Len(toChild)
    BY <1>1, <1>3, <1>5
  <2> QED
    BY <1>2, <2>1 DEF ChildMsgs
<1> QED
  BY <1>1, <1>2, <1>3, <1>4, <1>5 DEF Rest

\* None of the rest answers what the plugin asks next.
LEMMA RestUnasked ==
    ASSUME NEW m, Rest(m), asks \in Nat,
           \/ asks' = asks + 1
           \/ asks' = asks /\ \A i \in 1..Len(toChild') : ~Answers(toChild'[i])
    PROVE  ChildMsgs' /\ \A i \in 1..Len(toChild') : ~Answers(toChild[i])'
<1>1. ASSUME NEW i \in 1..Len(toChild')
      PROVE  /\ toChild'[i].type \notin {"cancel", "start"} /\ ~(toChild'[i].type = "reply" /\ toChild'[i].id = asks')
             /\ toChild'[i].type = "reply" => toChild'[i].id <= asks'
  BY <1>1 DEF Rest, Answers
<1> QED
  BY <1>1 DEF ChildMsgs, MsgOK, Answers

\* What a plugin in its turn that hears a message leaves alone.
LEMMA HearsOn ==
    ASSUME AgentTypeOK, Quiet, Alive, toChild # <<>>, UNCHANGED <<consumerVars, proc, made, recordVars>>,
           turn # "settled", turn' # "none"
    PROVE  /\ FreshOK' /\ EndOK' /\ proc # "dead" /\ host' = host /\ stop' = stop
           /\ host \in {"loop", "join", "approval"} /\ kept' = kept /\ made' = made
<1>1. host' = host /\ stop' = stop /\ kept' = kept /\ made' = made /\ proc' = proc /\ callModel' = callModel
  BY DEF consumerVars, recordVars
<1>2. proc # "dead"
  BY DEF Alive
<1>3. host \in {"loop", "join", "approval"}
  BY <1>2 DEF Quiet, FreshOK, EndOK, AgentTypeOK
<1> QED
  BY <1>1, <1>2, <1>3 DEF FreshOK, EndOK

\* An answer to a question in the turn: what led to it is kept.
LEMMA HearsAnswer ==
    ASSUME AgentTypeOK, AgentTypeOK', HoldsOK, Quiet, Hear, Answers(Head(toChild)), turn # "ask_terminal"
    PROVE  Quiet'
<1>1. PICK m \in Frames : m = Head(toChild)
  BY SeqTaken DEF Hear, AgentTypeOK
<1>2. Alive /\ toChild # <<>> /\ toChild' = Tail(toChild) /\ UNCHANGED <<consumerVars, proc, made, recordVars>>
  BY DEF Hear
<1>3. MsgOK(m) /\ Rest(m) /\ Answers(m)
  BY <1>1, <1>2, HeardRest DEF Quiet
<1>4. m.type = "reply" /\ m.id = asks /\ toHost = <<>> /\ turn \in {"ask_model", "ask_tool", "ask_approval", "approval"}
  BY <1>3 DEF MsgOK, Answers, Asking
<1>5. Kept /\ ~spoilt /\ pend = 0
  <2>1. pend = 0
    BY <1>4 DEF Quiet, TurnOK
  <2>2. CASE m.stage = "ok"
    BY <1>3, <1>4, <2>1, <2>2 DEF MsgOK
  <2>3. CASE m.stage # "ok"
    <3>1. turn = "approval"
      BY <1>3, <2>3 DEF MsgOK
    <3> QED
      BY <2>1, <3>1 DEF Quiet, TurnOK
  <2> QED
    BY <2>2, <2>3
<1>6. /\ spoilt' = spoilt /\ pend' = pend
      /\ \/ turn' \in {"think", "granted", "tool"} /\ asks' = asks /\ toHost' = toHost
         \/ turn' = "model" /\ asks' = asks /\ Told(<<Frame("model", "none", asks, 0)>>)
         \/ turn' = "approval" /\ asks' = asks + 1 /\ Told(<<Frame("approval", "none", asks + 1, 0)>>)
  BY <1>1, <1>4 DEF Hear
<1>7. /\ FreshOK' /\ EndOK' /\ proc # "dead" /\ host' = host /\ stop' = stop
      /\ host \in {"loop", "join", "approval"} /\ kept' = kept /\ made' = made
  BY <1>2, <1>4, <1>6, HearsOn
<1>8. toHost \in Seq(Frames) /\ toHost' \in Seq(Frames) /\ asks \in Nat /\ Len(toHost) = 0
  BY <1>4 DEF AgentTypeOK
<1>9. host' # "approval"
  BY <1>7, <1>8 DEF Quiet, HostFrames
<1>10. ChildMsgs' /\ \A i \in 1..Len(toChild') : ~Answers(toChild[i])'
  <2>1. \A i \in 1..Len(toChild') : ~Answers(toChild'[i])
    BY <1>3 DEF Rest
  <2> QED
    BY <1>3, <1>6, <1>8, <2>1, RestUnasked
<1>11. SpoiltOK'
  BY <1>5, <1>6, <1>7 DEF Quiet, SpoiltOK
<1>12. Kept' /\ ~spoilt' /\ pend' = 0 /\ kept' + pend' = made'
  <2>1. kept' = kept /\ made' = made /\ pend' = 0 /\ kept = made /\ kept \in Nat /\ ~spoilt'
    BY <1>5, <1>6, <1>7 DEF Kept, AgentTypeOK
  <2>2. kept' + pend' = made'
    BY <2>1
  <2> QED
    BY <2>1, <2>2 DEF Kept
<1>13. CASE turn' \in {"think", "granted", "tool"} /\ toHost' = toHost
  <2>1. TurnOK'
    BY <1>12, <1>13 DEF TurnOK
  <2>2. HostFrames'
    BY <1>8, <1>9, <1>13 DEF HostFrames
  <2> QED
    BY <1>7, <1>10, <1>11, <2>1, <2>2 DEF Quiet
<1>14. ASSUME NEW f \in Frames, turn' \in {"model", "approval"}, Told(<<f>>), FrameOK(f, TRUE)'
       PROVE  Quiet'
  <2>1. toHost' = toHost \/ Added(toHost, toHost', f)
    BY <1>8, <1>14, ToldOne
  <2>2. Len(toHost') <= 1
    BY <1>8, <2>1 DEF Added
  <2>3. HostFrames'
    <3>1. \A i \in 1..Len(toHost) : Calm(toHost[i])
      BY <1>8
    <3> QED
      BY <1>6, <1>8, <1>9, <1>14, <2>1, <3>1, QuestionFrames
  <2>4. TurnOK'
    BY <1>12, <1>14, <2>2 DEF TurnOK
  <2> QED
    BY <1>7, <1>10, <1>11, <2>3, <2>4 DEF Quiet
<1>15. CASE turn' = "model" /\ asks' = asks /\ Told(<<Frame("model", "none", asks, 0)>>)
  <2>1. Frame("model", "none", asks, 0) \in Frames
    BY <1>8, FramesMade DEF Types, Stages
  <2>2. PICK f \in Frames : f = Frame("model", "none", asks, 0)
    BY <2>1
  <2>3. f.type = "model"
    BY <2>2 DEF Frame
  <2>4. FrameOK(f, TRUE)'
    BY <2>3 DEF FrameOK
  <2> QED
    BY <1>14, <1>15, <2>2, <2>4
<1>16. CASE turn' = "approval" /\ asks' = asks + 1 /\ Told(<<Frame("approval", "none", asks + 1, 0)>>)
  <2>1. Frame("approval", "none", asks + 1, 0) \in Frames
    BY <1>8, FramesMade DEF Types, Stages
  <2>2. PICK f \in Frames : f = Frame("approval", "none", asks + 1, 0)
    BY <2>1
  <2>3. f.type = "approval" /\ f.id = asks + 1
    BY <2>2 DEF Frame
  <2>4. FrameOK(f, TRUE)'
    BY <1>10, <1>16, <2>3 DEF FrameOK, Answers
  <2> QED
    BY <1>14, <1>16, <2>2, <2>4
<1> QED
  BY <1>6, <1>13, <1>15, <1>16

\* The answer to the last question: the plugin settles.
LEMMA HearsLast ==
    ASSUME AgentTypeOK, AgentTypeOK', HoldsOK, Quiet, Hear, Answers(Head(toChild)), turn = "ask_terminal"
    PROVE  Quiet'
<1>1. PICK m \in Frames : m = Head(toChild)
  BY SeqTaken DEF Hear, AgentTypeOK
<1>2. Alive /\ toChild # <<>> /\ toChild' = Tail(toChild) /\ UNCHANGED <<consumerVars, proc, made, recordVars>>
  BY DEF Hear
<1>3. MsgOK(m) /\ Rest(m) /\ Answers(m)
  BY <1>1, <1>2, HeardRest DEF Quiet
<1>4. m.type = "reply" /\ m.id = asks /\ toHost = <<>>
  BY <1>3 DEF MsgOK, Answers
<1>5. m.stage = "ok" /\ (spoilt \/ Left \/ Kept) /\ pend = 0
  BY <1>3 DEF MsgOK, Quiet, TurnOK
<1>6. /\ turn' = "settled" /\ asks' = asks /\ pend' = pend /\ (spoilt => spoilt') /\ (spoilt' => spoilt)
      /\ Told(<<Frame("settled", IF spoilt' THEN "failed" ELSE "none", 0, 0)>>)
  BY <1>1, <1>4, <1>5 DEF Hear, Settles
<1>7. /\ FreshOK' /\ EndOK' /\ proc # "dead" /\ host' = host /\ stop' = stop
      /\ host \in {"loop", "join", "approval"} /\ kept' = kept /\ made' = made
  BY <1>2, <1>6, HearsOn
<1>8. toHost \in Seq(Frames) /\ toHost' \in Seq(Frames) /\ asks \in Nat /\ Len(toHost) = 0
  BY <1>4 DEF AgentTypeOK
<1>9. host' # "approval"
  BY <1>7, <1>8 DEF Quiet, HostFrames
<1>10. ChildMsgs'
  <2>1. \A i \in 1..Len(toChild') : ~Answers(toChild'[i])
    BY <1>3 DEF Rest
  <2> QED
    BY <1>3, <1>6, <1>8, <2>1, RestUnasked
<1>11. SpoiltOK'
  BY <1>6, <1>7 DEF Quiet, SpoiltOK
<1>12. TurnOK'
  BY <1>5, <1>6 DEF TurnOK
<1>13. Frame("settled", IF spoilt' THEN "failed" ELSE "none", 0, 0) \in Frames
  BY FramesMade DEF Types, Stages
<1>14. PICK f \in Frames : f = Frame("settled", IF spoilt' THEN "failed" ELSE "none", 0, 0)
  BY <1>13
<1>15. f.type = "settled" /\ (f.stage # "failed" => ~spoilt)
  BY <1>6, <1>14 DEF Frame
<1>16. f.stage # "failed" => (Left \/ Kept)'
  BY <1>5, <1>7, <1>15 DEF Left, Kept
<1>17. FrameOK(f, TRUE)'
  BY <1>6, <1>15, <1>16 DEF FrameOK
<1>18. HostFrames'
  <2>1. \A i \in 1..Len(toHost) : Calm(toHost[i])
    BY <1>8
  <2>2. toHost' = toHost \/ Added(toHost, toHost', f)
    BY <1>6, <1>8, <1>14, ToldOne
  <2> QED
    BY <1>6, <1>8, <1>9, <1>17, <2>1, <2>2, QuestionFrames
<1> QED
  BY <1>7, <1>10, <1>11, <1>12, <1>18 DEF Quiet

\* Frames nobody touches stay as they should be.
LEMMA FramesStay ==
    ASSUME HostFrames, UNCHANGED <<toHost, asks, kept, made>>, spoilt => spoilt', Left => Left',
           (turn' = turn /\ (proc = "dead" => proc' = "dead")) \/ proc' = "dead",
           \/ \A i \in 1..Len(toChild') : \E j \in 1..Len(toChild) : toChild'[i] = toChild[j]
           \/ Len(toChild') = 0,
           host' = "approval" => host = "approval"
    PROVE  HostFrames'
<1>1. ASSUME NEW i \in 1..Len(toHost') PROVE FrameOK(toHost[i], i = Len(toHost))'
  <2>1. FrameOK(toHost[i], i = Len(toHost)) /\ toHost' = toHost
    BY <1>1 DEF HostFrames
  <2>2. (\A j \in 1..Len(toChild) : ~Answers(toChild[j])) => \A j \in 1..Len(toChild') : ~Answers(toChild[j])'
    BY DEF Answers
  <2> QED
    BY <2>1, <2>2 DEF FrameOK, Left, Kept, Answers
<1> QED
  BY <1>1 DEF HostFrames

\* A message that answers nothing: the start, a model's result, a late answer.
LEMMA HearsOther ==
    ASSUME AgentTypeOK, AgentTypeOK', HoldsOK, Quiet, Hear, ~Answers(Head(toChild))
    PROVE  Quiet'
<1>1. PICK m \in Frames : m = Head(toChild)
  BY SeqTaken DEF Hear, AgentTypeOK
<1>2. Alive /\ toChild # <<>> /\ toChild' = Tail(toChild) /\ UNCHANGED <<consumerVars, proc, made, recordVars>>
  BY DEF Hear
<1>3. MsgOK(m) /\ Rest(m) /\ ~Answers(m)
  BY <1>1, <1>2, HeardRest DEF Quiet
<1>4. /\ asks' = asks /\ pend' = pend /\ spoilt' = spoilt /\ toHost' = toHost
      /\ \/ m.type = "start" /\ turn' = "think"
         \/ m.type = "result" /\ turn = "model" /\ turn' = "think"
         \/ turn' = turn
  <2>1. m.type # "cancel" /\ ~(m.type = "reply" /\ m.id = asks)
    BY <1>3 DEF MsgOK, Answers
  <2> QED
    BY <1>1, <2>1 DEF Hear
<1>5. toHost \in Seq(Frames) /\ Len(toHost) \in Nat /\ kept' = kept /\ made' = made /\ host' = host /\ stop' = stop
      /\ proc' = proc /\ callModel' = callModel /\ proc # "dead" /\ asks \in Nat
  BY <1>2 DEF consumerVars, recordVars, AgentTypeOK, Alive
<1>6. CASE turn \in {"none", "model"} /\ turn' = "think"
  <2>1. /\ \A i \in 1..Len(toHost) : Calm(toHost[i])
        /\ \A i \in 1..Len(toChild) : ~Answers(toChild[i])
    BY <1>2, <1>6, NothingAsked DEF Asking
  <2>2. ChildMsgs'
    <3>1. \A i \in 1..Len(toChild') : ~Answers(toChild'[i])
      <4>1. ASSUME NEW i \in 1..Len(toChild') PROVE i + 1 \in 1..Len(toChild) /\ toChild'[i] = toChild[i + 1]
        BY <1>3, <4>1 DEF Rest, AgentTypeOK
      <4> QED
        BY <2>1, <4>1
    <3> QED
      BY <1>3, <1>4, <1>5, <3>1, RestUnasked
  <2>3. Kept /\ ~spoilt /\ pend = 0
    <3>1. CASE turn = "model"
      BY <3>1 DEF Quiet, TurnOK
    <3>2. CASE turn = "none"
      BY <1>5, <3>2 DEF Quiet, FreshOK, Kept
    <3> QED
      BY <1>6, <3>1, <3>2
  <2>4. TurnOK'
    <3>1. kept' = kept /\ made' = made /\ pend' = 0 /\ kept = made /\ kept \in Nat
      BY <1>4, <1>5, <2>3 DEF Kept, AgentTypeOK
    <3>2. kept' + pend' = made'
      BY <3>1
    <3> QED
      BY <1>6, <3>2 DEF TurnOK
  <2>5. SpoiltOK'
    BY <1>4, <1>5, <2>3 DEF Quiet, SpoiltOK
  <2>6. FreshOK' /\ EndOK'
    BY <1>2, <1>5, <1>6 DEF Quiet, FreshOK, EndOK
  <2>7. HostFrames'
    <3>1. ASSUME NEW i \in 1..Len(toHost') PROVE FrameOK(toHost[i], i = Len(toHost))'
      <4>1. Calm(toHost[i]) /\ toHost'[i] = toHost[i]
        BY <1>4, <2>1
      <4> QED
        BY <4>1, <1>4 DEF FrameOK, Calm, Questions
    <3>2. host # "approval"
      BY <2>1, <1>5 DEF Quiet, HostFrames, Calm, Questions
    <3> QED
      BY <3>1, <3>2, <1>5 DEF HostFrames
  <2> QED
    BY <2>2, <2>4, <2>5, <2>6, <2>7 DEF Quiet
<1>7. CASE turn' = turn
  <2>1. FreshOK' /\ TurnOK' /\ SpoiltOK' /\ EndOK'
    <3>1. FreshOK' /\ EndOK'
      BY <1>2, <1>4, <1>5, <1>7 DEF Quiet, FreshOK, EndOK, Left, Kept
    <3>2. TurnOK'
      BY <1>4, <1>5, <1>7 DEF Quiet, TurnOK, Kept
    <3>3. SpoiltOK'
      BY <1>4, <1>5, <1>7 DEF Quiet, SpoiltOK
    <3> QED
      BY <3>1, <3>2, <3>3
  <2>2. ASSUME NEW i \in 1..Len(toChild')
        PROVE  i + 1 \in 1..Len(toChild) /\ toChild'[i] = toChild[i + 1] /\ MsgOK(toChild[i + 1])
    <3>1. i + 1 \in 1..Len(toChild) /\ toChild'[i] = toChild[i + 1]
      BY <1>3, <2>2 DEF Rest, AgentTypeOK
    <3> QED
      BY <3>1 DEF Quiet, ChildMsgs
  <2>3. HostFrames'
    <3>1. \A i \in 1..Len(toChild') : \E j \in 1..Len(toChild) : toChild'[i] = toChild[j]
      BY <2>2
    <3> QED
      BY <1>4, <1>5, <1>7, <3>1, FramesStay DEF Quiet, Left
  <2>4. ChildMsgs'
    <3>1. ASSUME NEW i \in 1..Len(toChild') PROVE MsgOK(toChild[i])'
      <4>1. toChild'[i].type \notin {"cancel", "start"} /\ (toChild'[i].type = "reply" => toChild'[i].id <= asks)
        BY <1>3, <3>1 DEF Rest
      <4> QED
        BY <1>4, <1>5, <1>7, <2>2, <3>1, <4>1 DEF MsgOK, Answers, Left, Kept
    <3>2. ASSUME NEW i \in 1..Len(toChild'), NEW j \in 1..Len(toChild'), Answers(toChild[i])', Answers(toChild[j])'
          PROVE  i = j
      <4>1. Answers(toChild[i + 1]) /\ Answers(toChild[j + 1])
        BY <1>4, <2>2, <3>2 DEF Answers
      <4>2. i + 1 = j + 1
        BY <2>2, <4>1 DEF Quiet, ChildMsgs
      <4> QED
        BY <4>2
    <3> QED
      BY <3>1, <3>2 DEF ChildMsgs
  <2> QED
    BY <2>1, <2>3, <2>4 DEF Quiet
<1> QED
  BY <1>3, <1>4, <1>6, <1>7 DEF MsgOK

Early == {"start", "wait", "loop", "join", "approval"}
Ended == {"ending", "closing", "over"}

\* A process that is gone.
LEMMA GoneQuiet ==
    ASSUME Quiet, Gone, UNCHANGED <<toHost, asks, made, spoilt, kept, stop>>,
           host' \in Early => host' = host, host' \in Ended => host \in Ended
    PROVE  Quiet'
<1>1. Len(toChild') = 0 /\ proc' = "dead" /\ turn' = "none" /\ pend' = 0 /\ toChild' = <<>>
  BY DEF Gone
<1>2. HostFrames'
  BY <1>1, FramesStay DEF Quiet, Left, Early
<1>3. FreshOK' /\ TurnOK' /\ SpoiltOK'
  BY <1>1 DEF Quiet, FreshOK, TurnOK, SpoiltOK, Early
<1>4. EndOK'
  BY <1>1 DEF Quiet, EndOK, Left, Kept, Ended
<1>5. ChildMsgs'
  BY <1>1 DEF ChildMsgs
<1> QED
  BY <1>2, <1>3, <1>4, <1>5 DEF Quiet

\* A step that leaves the plugin, the wires and the record alone.
LEMMA ApartQuiet ==
    ASSUME Quiet, UNCHANGED <<toHost, toChild, turn, asks, pend, made, spoilt, kept>>, Left => Left',
           proc = "dead" <=> proc' = "dead", host' = "approval" => host = "approval"
    PROVE  HostFrames' /\ ChildMsgs' /\ TurnOK'
<1>1. HostFrames'
  BY FramesStay DEF Quiet
<1>2. ChildMsgs'
  BY DEF Quiet, ChildMsgs, MsgOK, Answers, Left, Kept
<1>3. TurnOK'
  BY DEF Quiet, TurnOK, Kept
<1> QED
  BY <1>1, <1>2, <1>3

\* The steps around the run.
LEMMA OtherQuiet ==
    ASSUME AgentTypeOK, HoldsOK, Quiet, ~failure, OtherNext
    PROVE  Quiet'
<1> USE DEF consumerVars, wireVars, childVars, recordVars
<1>1. CASE Healthy
  <2>1. HostFrames' /\ ChildMsgs' /\ TurnOK'
    BY <1>1, ApartQuiet DEF Healthy, Left
  <2> QED
    BY <1>1, <2>1 DEF Healthy, Quiet, FreshOK, SpoiltOK, EndOK, Left, Kept
<1>2. CASE Dies
  BY <1>2, GoneQuiet DEF Dies, Early
<1>3. CASE ModelEnds
  <2>1. HostFrames' /\ ChildMsgs' /\ TurnOK'
    BY <1>3, ApartQuiet DEF ModelEnds, Left
  <2> QED
    BY <1>3, <2>1 DEF ModelEnds, Quiet, FreshOK, SpoiltOK, EndOK, Left, Kept
<1>4. CASE CancelRun \/ CloseHost
  <2>1. HostFrames' /\ ChildMsgs' /\ TurnOK'
    BY <1>4, ApartQuiet DEF CancelRun, CloseHost, Left
  <2> QED
    BY <1>4, <2>1 DEF CancelRun, CloseHost, Quiet, FreshOK, SpoiltOK, EndOK, Left, Kept
<1>5. CASE AnswerApproval
  <2>1. HostFrames' /\ ChildMsgs' /\ TurnOK'
    BY <1>5, ApartQuiet DEF AnswerApproval, Left
  <2> QED
    BY <1>5, <2>1 DEF AnswerApproval, Quiet, FreshOK, SpoiltOK, EndOK, Left, Kept
<1>6. CASE AgentJoinExpires
  <2>1. CASE Gone
    BY <1>6, <2>1, GoneQuiet DEF AgentJoinExpires, Early
  <2>2. CASE UNCHANGED <<proc, turn, pend, toChild>>
    <3>1. HostFrames' /\ ChildMsgs' /\ TurnOK'
      BY <1>6, <2>2, ApartQuiet DEF AgentJoinExpires, Left
    <3> QED
      BY <1>6, <2>2, <3>1 DEF AgentJoinExpires, Quiet, FreshOK, SpoiltOK, EndOK, Left, Kept
  <2> QED
    BY <1>6, <2>1, <2>2 DEF AgentJoinExpires
<1> QED
  BY <1>1, <1>2, <1>3, <1>4, <1>5, <1>6 DEF OtherNext

\* The frame the consumer looks at, and what is left when it takes it.
LEMMA HeadFrame ==
    ASSUME AgentTypeOK, HostFrames, toHost # <<>>, toHost' = Tail(toHost)
    PROVE  /\ Head(toHost) \in Frames /\ Head(toHost) = toHost[1] /\ FrameOK(Head(toHost), 1 = Len(toHost))
           /\ 1 \in 1..Len(toHost) /\ Len(toHost) \in Nat /\ Len(toHost') = Len(toHost) - 1
           /\ \A i \in 1..Len(toHost') : i + 1 \in 1..Len(toHost) /\ toHost'[i] = toHost[i + 1]
<1>1. /\ Head(toHost) \in Frames /\ Head(toHost) = toHost[1] /\ Len(toHost) \in Nat \ {0}
      /\ Tail(toHost) \in Seq(Frames) /\ Len(Tail(toHost)) = Len(toHost) - 1
      /\ \A i \in 1..Len(Tail(toHost)) : Tail(toHost)[i] = toHost[i + 1]
  BY SeqTaken DEF AgentTypeOK
<1>2. 1 \in 1..Len(toHost) /\ \A i \in 1..Len(toHost') : i + 1 \in 1..Len(toHost) /\ toHost'[i] = toHost[i + 1]
  BY <1>1
<1>3. FrameOK(Head(toHost), 1 = Len(toHost))
  BY <1>1, <1>2 DEF HostFrames
<1> QED
  BY <1>1, <1>2, <1>3

\* No answer is under way while a frame is on the wire.
LEMMA NoAnswerYet ==
    ASSUME ChildMsgs, toHost # <<>>
    PROVE  \A i \in 1..Len(toChild) : ~Answers(toChild[i])
BY DEF ChildMsgs, MsgOK

\* A frame is taken and nothing is answered.
LEMMA FrameTaken ==
    ASSUME AgentTypeOK, Quiet, toHost # <<>>, Taken, UNCHANGED <<toChild, childVars, kept>>, Left => Left',
           host' # "approval"
    PROVE  /\ HostFrames' /\ ChildMsgs' /\ TurnOK'
           /\ FrameOK(Head(toHost), 1 = Len(toHost))
           /\ Head(toHost).type # "model_cancel" =>
                ((\E i \in 1..Len(toHost) : toHost[i].type = "model_cancel")
                   => \E i \in 1..Len(toHost') : toHost'[i].type = "model_cancel")
<1>1. toHost' = Tail(toHost) /\ UNCHANGED <<proc, turn, asks, pend, made, spoilt>>
  BY DEF Taken, childVars
<1>2. /\ Head(toHost) \in Frames /\ Head(toHost) = toHost[1] /\ FrameOK(Head(toHost), 1 = Len(toHost))
      /\ 1 \in 1..Len(toHost) /\ Len(toHost) \in Nat /\ Len(toHost') = Len(toHost) - 1
      /\ \A i \in 1..Len(toHost') : i + 1 \in 1..Len(toHost) /\ toHost'[i] = toHost[i + 1]
  BY <1>1, HeadFrame DEF Quiet
<1>3. HostFrames'
  <2>1. ASSUME NEW i \in 1..Len(toHost') PROVE FrameOK(toHost[i], i = Len(toHost))'
    <3>1. FrameOK(toHost[i + 1], i + 1 = Len(toHost)) /\ toHost'[i] = toHost[i + 1]
      BY <1>2, <2>1 DEF Quiet, HostFrames
    <3>2. i + 1 = Len(toHost) <=> i = Len(toHost')
      BY <1>2, <2>1
    <3> QED
      BY <1>1, <3>1, <3>2 DEF FrameOK, Left, Kept, Answers
  <2> QED
    BY <2>1 DEF HostFrames
<1>4. ChildMsgs'
  <2>1. \A i \in 1..Len(toChild) : ~Answers(toChild[i])
    BY NoAnswerYet DEF Quiet
  <2> QED
    BY <1>1, <2>1 DEF Quiet, ChildMsgs, MsgOK, Answers
<1>5. TurnOK'
  <2>1. turn = "model" => Len(toHost') <= 1
    BY <1>2 DEF Quiet, TurnOK
  <2> QED
    BY <1>1, <2>1 DEF Quiet, TurnOK, Kept
<1>6. ASSUME Head(toHost).type # "model_cancel", NEW i \in 1..Len(toHost), toHost[i].type = "model_cancel"
      PROVE  \E j \in 1..Len(toHost') : toHost'[j].type = "model_cancel"
  <2>1. i # 1 /\ i - 1 \in 1..Len(toHost')
    BY <1>2, <1>6
  <2>2. toHost'[i - 1] = toHost[i]
    BY <1>2, <2>1
  <2> QED
    BY <1>6, <2>1, <2>2
<1> QED
  BY <1>2, <1>3, <1>4, <1>5, <1>6

\* A question is taken and answered: it was the only frame, and this is the only answer.
LEMMA AnswerSent ==
    ASSUME AgentTypeOK, Quiet, toHost # <<>>, Taken, UNCHANGED childVars,
           Head(toHost).type \in {"checkpoint", "approval"}, NEW ok \in BOOLEAN, NEW allow \in BOOLEAN,
           Sent(Reply(Head(toHost).id, ok, allow)),
           ok => IF turn = "ask_terminal" THEN (spoilt \/ Left \/ Kept)' ELSE ~spoilt /\ Kept',
           ~ok => turn = "approval", host' # "approval"
    PROVE  /\ HostFrames' /\ ChildMsgs' /\ toHost' = <<>> /\ Len(toHost) = 1
           /\ turn \in Asking \cup {"approval"} /\ proc # "dead"
<1>1. toHost' = Tail(toHost) /\ UNCHANGED <<proc, turn, asks, pend, made, spoilt>> /\ Alive /\ proc # "dead"
  BY DEF Taken, childVars, Sent, Alive
<1>2. /\ Head(toHost) \in Frames /\ Head(toHost) = toHost[1] /\ FrameOK(Head(toHost), 1 = Len(toHost))
      /\ 1 \in 1..Len(toHost) /\ Len(toHost) \in Nat /\ Len(toHost') = Len(toHost) - 1
      /\ \A i \in 1..Len(toHost') : i + 1 \in 1..Len(toHost) /\ toHost'[i] = toHost[i + 1]
  BY <1>1, HeadFrame DEF Quiet
<1>3. /\ Len(toHost) = 1 /\ Head(toHost).id = asks /\ turn \in Asking \cup {"approval"}
      /\ \A i \in 1..Len(toChild) : ~Answers(toChild[i])
  BY <1>1, <1>2 DEF FrameOK, Asking
<1>4. toHost' = <<>> /\ Len(toHost') = 0
  <2>1. Tail(toHost) \in Seq(Frames) /\ Len(Tail(toHost)) = 0
    BY <1>1, <1>2, <1>3, SeqTaken DEF AgentTypeOK
  <2>2. Tail(toHost) = <<>>
    BY <2>1, EmptySeq
  <2> QED
    BY <1>1, <2>1, <2>2
<1>5. HostFrames'
  BY <1>4 DEF HostFrames
<1>6. Frame("reply", IF ok THEN "ok" ELSE "error", asks, IF allow THEN 1 ELSE 0) \in Frames
  BY FramesMade DEF Types, Stages, AgentTypeOK
<1>7. PICK m \in Frames : m = Frame("reply", IF ok THEN "ok" ELSE "error", asks, IF allow THEN 1 ELSE 0)
  BY <1>6
<1>8. m.type = "reply" /\ m.id = asks /\ (m.stage = "ok" <=> ok)
  BY <1>7 DEF Frame
<1>9. Added(toChild, toChild', m)
  <2>1. Sent(<<m>>)
    BY <1>3, <1>7 DEF Reply
  <2> QED
    BY <2>1, SentOne DEF AgentTypeOK
<1>10. ASSUME NEW i \in 1..Len(toChild'), i # Len(toChild')
       PROVE  /\ i \in 1..Len(toChild) /\ toChild'[i] = toChild[i] /\ MsgOK(toChild[i]) /\ ~Answers(toChild[i])
  <2>1. i \in 1..Len(toChild) /\ toChild'[i] = toChild[i]
    BY <1>9, <1>10 DEF Added, AgentTypeOK
  <2> QED
    BY <1>3, <2>1 DEF Quiet, ChildMsgs
<1>11. toChild'[Len(toChild')] = m
  BY <1>9 DEF Added
<1>12. ASSUME NEW i \in 1..Len(toChild') PROVE MsgOK(toChild[i])'
  <2>1. CASE i # Len(toChild')
    <3>1. toChild'[i].type \notin {"start", "cancel"}
      BY <1>3, <1>10, <2>1 DEF MsgOK, Asking
    <3> QED
      BY <1>1, <1>10, <2>1, <3>1 DEF MsgOK, Answers
  <2>2. CASE i = Len(toChild')
    <3>1. toChild'[i] = m /\ asks \in Nat
      BY <1>11, <2>2 DEF AgentTypeOK
    <3>2. m.stage = "ok" => IF turn' = "ask_terminal" THEN spoilt' \/ Left' \/ Kept' ELSE ~spoilt' /\ Kept'
      BY <1>1, <1>8
    <3>3. m.stage # "ok" => turn' = "approval"
      BY <1>1, <1>8
    <3>4. turn' \in Asking \cup {"approval"} /\ asks' = asks /\ asks <= asks
      BY <1>1, <1>3, <3>1
    <3> QED
      BY <1>4, <1>8, <3>1, <3>2, <3>3, <3>4 DEF MsgOK
  <2> QED
    BY <2>1, <2>2
<1>13. ChildMsgs'
  <2>1. ASSUME NEW i \in 1..Len(toChild'), Answers(toChild[i])' PROVE i = Len(toChild')
    BY <1>1, <1>10, <2>1 DEF Answers
  <2> QED
    BY <1>12, <2>1 DEF ChildMsgs
<1> QED
  BY <1>1, <1>3, <1>4, <1>5, <1>13

\* A message that answers nothing is sent: the start, or a model's result.
LEMMA MessageSent ==
    ASSUME AgentTypeOK, Quiet, NEW m \in Frames, m.type \in {"start", "result"}, Sent(<<m>>),
           IF m.type = "start" THEN turn = "none" /\ toChild = <<>> ELSE turn # "none",
           UNCHANGED <<toHost, childVars, kept>>, Left => Left', host' # "approval"
    PROVE  HostFrames' /\ ChildMsgs' /\ TurnOK'
<1>1. Added(toChild, toChild', m) /\ UNCHANGED <<proc, turn, asks, pend, made, spoilt>>
  BY SentOne DEF AgentTypeOK, childVars
<1>2. ASSUME NEW i \in 1..Len(toChild')
      PROVE  \/ i = Len(toChild') /\ toChild'[i] = m
             \/ i \in 1..Len(toChild) /\ toChild'[i] = toChild[i]
  BY <1>1, <1>2 DEF Added, AgentTypeOK
<1>3. ASSUME NEW i \in 1..Len(toHost') PROVE FrameOK(toHost[i], i = Len(toHost))'
  <2>1. FrameOK(toHost[i], i = Len(toHost)) /\ toHost' = toHost
    BY <1>3 DEF Quiet, HostFrames
  <2>2. (\A j \in 1..Len(toChild) : ~Answers(toChild[j])) => \A j \in 1..Len(toChild') : ~Answers(toChild[j])'
    BY <1>1, <1>2 DEF Answers
  <2> QED
    BY <1>1, <2>1, <2>2 DEF FrameOK, Left, Kept, Answers
<1>4. HostFrames'
  BY <1>3 DEF HostFrames
<1>5. TurnOK'
  BY <1>1 DEF Quiet, TurnOK, Kept
<1>6. CASE m.type = "start"
  <2>1. Len(toChild') = 1 /\ toChild'[1] = m /\ turn' = "none"
    BY <1>1, <1>6 DEF Added, AgentTypeOK
  <2>2. ChildMsgs'
    BY <1>6, <2>1 DEF ChildMsgs, MsgOK, Answers
  <2> QED
    BY <1>4, <1>5, <2>2
<1>7. CASE m.type = "result"
  <2>1. ASSUME NEW i \in 1..Len(toChild') PROVE MsgOK(toChild[i])'
    <3>1. CASE toChild'[i] = m
      BY <1>7, <3>1 DEF MsgOK, Answers
    <3>2. CASE i \in 1..Len(toChild) /\ toChild'[i] = toChild[i]
      <4>1. MsgOK(toChild[i])
        BY <3>2 DEF Quiet, ChildMsgs
      <4> QED
        BY <1>1, <1>7, <3>2, <4>1 DEF MsgOK, Answers, Left, Kept
    <3> QED
      BY <1>2, <2>1, <3>1, <3>2
  <2>2. ASSUME NEW i \in 1..Len(toChild'), Answers(toChild[i])' PROVE i \in 1..Len(toChild) /\ Answers(toChild[i])
    BY <1>1, <1>2, <1>7, <2>2 DEF Answers
  <2> QED
    BY <1>4, <1>5, <2>1, <2>2 DEF Quiet, ChildMsgs
<1> QED
  BY <1>6, <1>7

\* The consumer's steps that answer no question.
LEMMA HostQuiet ==
    ASSUME AgentTypeOK, HoldsOK, Quiet, ~failure, ~failure',
           \/ Prepare \/ WaitChild \/ LoopModel \/ JoinModel \/ CheckpointJoins \/ EndWork \/ CloseChild \/ FinishRun
           \/ ModelFrame \/ OtherFrame \/ SettledFrame
    PROVE  Quiet'
<1> USE DEF consumerVars, wireVars, recordVars
<1>1. CASE Prepare
  <2>1. /\ host = "start" /\ host' = "wait" /\ proc' = "starting" /\ proc = "none" /\ stop' = stop /\ callModel' = callModel
        /\ UNCHANGED <<toHost, toChild, turn, asks, pend, made, spoilt, kept>>
    BY <1>1 DEF Prepare, HoldsOK
  <2>2. HostFrames' /\ ChildMsgs' /\ TurnOK'
    BY <2>1, ApartQuiet DEF Left
  <2> QED
    BY <2>1, <2>2 DEF Quiet, FreshOK, SpoiltOK, EndOK
<1>2. CASE WaitChild
  <2>1. /\ host = "wait" /\ host' = "loop" /\ proc = "healthy" /\ Sent(<<Frame("start", "none", 0, 0)>>)
        /\ stop' = stop /\ callModel' = callModel /\ UNCHANGED <<toHost, childVars, kept>>
    BY <1>2 DEF WaitChild, Returns
  <2>2. Frame("start", "none", 0, 0) \in Frames
    BY FramesMade DEF Types, Stages
  <2>3. PICK m \in Frames : m = Frame("start", "none", 0, 0)
    BY <2>2
  <2>4. m.type = "start" /\ Sent(<<m>>)
    BY <2>1, <2>3 DEF Frame
  <2>5. turn = "none" /\ toChild = <<>>
    BY <2>1 DEF Quiet, FreshOK
  <2>6. HostFrames' /\ ChildMsgs' /\ TurnOK'
    BY <2>1, <2>4, <2>5, MessageSent DEF Left
  <2>7. FreshOK' /\ SpoiltOK' /\ EndOK'
    BY <2>1 DEF Quiet, FreshOK, SpoiltOK, EndOK, childVars
  <2> QED
    BY <2>6, <2>7 DEF Quiet
<1>3. CASE LoopModel \/ JoinModel
  <2>1. /\ host \in {"loop", "join"} /\ host' = "loop" /\ callModel # "idle" /\ Sent(<<Frame("result", "none", 0, 0)>>)
        /\ callModel' = "idle" /\ stop' = stop /\ UNCHANGED <<toHost, childVars, kept>>
    BY <1>3 DEF LoopModel, JoinModel, TakeModel, Returns
  <2>2. Frame("result", "none", 0, 0) \in Frames
    BY FramesMade DEF Types, Stages
  <2>3. PICK m \in Frames : m = Frame("result", "none", 0, 0)
    BY <2>2
  <2>4. m.type = "result" /\ Sent(<<m>>) /\ proc # "dead"
    BY <2>1, <2>3 DEF Frame, Sent, Alive
  <2>5. turn # "none"
    BY <2>1, <2>4 DEF Quiet, FreshOK
  <2>6. HostFrames' /\ ChildMsgs' /\ TurnOK'
    BY <2>1, <2>4, <2>5, MessageSent DEF Left
  <2>7. FreshOK' /\ SpoiltOK' /\ EndOK'
    BY <2>1, <2>4, <2>5 DEF Quiet, FreshOK, SpoiltOK, EndOK, childVars
  <2> QED
    BY <2>6, <2>7 DEF Quiet
<1>4. CASE CheckpointJoins
  <2>1. HostFrames' /\ ChildMsgs' /\ TurnOK'
    BY <1>4, ApartQuiet DEF CheckpointJoins, Left, childVars
  <2> QED
    BY <1>4, <2>1 DEF CheckpointJoins, Incoming, Quiet, FreshOK, SpoiltOK, EndOK, childVars
<1>5. CASE EndWork
  <2>1. HostFrames' /\ ChildMsgs' /\ TurnOK'
    BY <1>5, ApartQuiet DEF EndWork, Left, childVars
  <2>2. FreshOK' /\ SpoiltOK'
    BY <1>5 DEF EndWork, Quiet, FreshOK, SpoiltOK, childVars
  <2>3. EndOK'
    BY <1>5 DEF EndWork, Quiet, EndOK, Left, Kept, childVars
  <2> QED
    BY <2>1, <2>2, <2>3 DEF Quiet
<1>6. CASE CloseChild
  BY <1>6, GoneQuiet DEF CloseChild, Early, Ended
<1>7. CASE FinishRun
  <2>1. HostFrames' /\ ChildMsgs' /\ TurnOK'
    BY <1>7, ApartQuiet DEF FinishRun, Left, childVars
  <2> QED
    BY <1>7, <2>1 DEF FinishRun, Quiet, FreshOK, SpoiltOK, EndOK, Left, Kept, childVars
<1>8. CASE ModelFrame
  <2>1. /\ host = "loop" /\ host' = "loop" /\ toHost # <<>> /\ Taken /\ Head(toHost).type = "model" /\ stop' = stop
        /\ UNCHANGED <<toChild, childVars, kept>>
    BY <1>8 DEF ModelFrame, Incoming, WorkFails
  <2>2. /\ HostFrames' /\ ChildMsgs' /\ TurnOK'
        /\ FrameOK(Head(toHost), 1 = Len(toHost))
        /\ Head(toHost).type # "model_cancel" =>
             ((\E i \in 1..Len(toHost) : toHost[i].type = "model_cancel")
                => \E i \in 1..Len(toHost') : toHost'[i].type = "model_cancel")
    BY <2>1, FrameTaken DEF Left
  <2>3. FreshOK' /\ EndOK'
    BY <2>1 DEF Quiet, FreshOK, EndOK, childVars
  <2>4. SpoiltOK'
    BY <2>1, <2>2 DEF Quiet, SpoiltOK, childVars
  <2> QED
    BY <2>2, <2>3, <2>4 DEF Quiet
<1>9. CASE OtherFrame
  <2>1. /\ host = "loop" /\ host' = "loop" /\ toHost # <<>> /\ Taken /\ UNCHANGED <<toChild, childVars, kept>>
        /\ callModel' = callModel
        /\ \/ stop' = stop /\ Head(toHost).type # "model_cancel"
           \/ stop' = stop \cup {"abort"} /\ Head(toHost).type = "model_cancel"
    BY <1>9 DEF OtherFrame, Incoming, WorkFails
  <2>2. /\ HostFrames' /\ ChildMsgs' /\ TurnOK'
        /\ FrameOK(Head(toHost), 1 = Len(toHost))
        /\ Head(toHost).type # "model_cancel" =>
             ((\E i \in 1..Len(toHost) : toHost[i].type = "model_cancel")
                => \E i \in 1..Len(toHost') : toHost'[i].type = "model_cancel")
    BY <2>1, FrameTaken DEF Left
  <2>3. FreshOK' /\ EndOK'
    BY <2>1 DEF Quiet, FreshOK, EndOK, childVars
  <2>4. SpoiltOK'
    <3>1. CASE stop' = stop /\ Head(toHost).type # "model_cancel"
      BY <2>1, <2>2, <3>1 DEF Quiet, SpoiltOK, childVars
    <3>2. CASE stop' = stop \cup {"abort"} /\ Head(toHost).type = "model_cancel"
      <4>1. spoilt' /\ "abort" \in stop'
        BY <2>1, <2>2, <3>2 DEF FrameOK, childVars
      <4> QED
        BY <4>1 DEF SpoiltOK
    <3> QED
      BY <2>1, <3>1, <3>2
  <2> QED
    BY <2>2, <2>3, <2>4 DEF Quiet
<1>10. CASE SettledFrame
  <2>1. /\ host = "loop" /\ host' = "ending" /\ toHost # <<>> /\ Taken /\ Head(toHost).type = "settled" /\ stop' = stop
        /\ UNCHANGED <<toChild, childVars, kept>> /\ Head(toHost).stage # "failed" /\ callModel' = callModel
    BY <1>10 DEF SettledFrame, Incoming
  <2>2. /\ HostFrames' /\ ChildMsgs' /\ TurnOK'
        /\ FrameOK(Head(toHost), 1 = Len(toHost))
        /\ Head(toHost).type # "model_cancel" =>
             ((\E i \in 1..Len(toHost) : toHost[i].type = "model_cancel")
                => \E i \in 1..Len(toHost') : toHost'[i].type = "model_cancel")
    BY <2>1, FrameTaken DEF Left
  <2>3. FreshOK'
    BY <2>1 DEF Quiet, FreshOK, childVars
  <2>4. EndOK'
    BY <2>1, <2>2 DEF FrameOK, EndOK, Left, Kept, childVars
  <2>5. SpoiltOK'
    BY <2>1, <2>2 DEF Quiet, SpoiltOK, childVars
  <2> QED
    BY <2>2, <2>3, <2>4, <2>5 DEF Quiet
<1> QED
  BY <1>1, <1>2, <1>3, <1>4, <1>5, <1>6, <1>7, <1>8, <1>9, <1>10

\* What an answered question leaves: the plugin waits, the wire to the host is empty.
LEMMA AnsweredQuiet ==
    ASSUME Quiet, HostFrames', ChildMsgs', toHost' = <<>>, Len(toHost) = 1, toHost[1].type # "model_cancel",
           turn \in Asking \cup {"approval"}, proc # "dead", UNCHANGED childVars, stop' = stop,
           host \in {"loop", "approval"}, host' = "loop",
           turn \in {"ask_approval", "approval"} => Kept'
    PROVE  Quiet'
<1>1. UNCHANGED <<proc, turn, asks, pend, made, spoilt>>
  BY DEF childVars
<1>2. FreshOK' /\ EndOK'
  BY <1>1 DEF FreshOK, EndOK, Asking
<1>3. TurnOK'
  BY <1>1 DEF Quiet, TurnOK, Asking
<1>4. SpoiltOK'
  <2>1. ~\E i \in 1..Len(toHost) : toHost[i].type = "model_cancel"
    OBVIOUS
  <2> QED
    BY <1>1, <2>1 DEF Quiet, SpoiltOK, Asking
<1> QED
  BY <1>2, <1>3, <1>4 DEF Quiet

\* The consumer's steps that take a question.
LEMMA AnswerQuiet ==
    ASSUME AgentTypeOK, HoldsOK, Quiet, ~failure, ~failure',
           CheckpointLate \/ CheckpointKept \/ ApprovalFrame \/ ApprovalEnds
    PROVE  Quiet'
<1>0. toHost # <<>> => Head(toHost) = toHost[1] /\ 1 \in 1..Len(toHost) /\ FrameOK(Head(toHost), 1 = Len(toHost))
                       /\ Head(toHost) \in Frames
  <2>1. toHost # <<>> => Head(toHost) = toHost[1] /\ Len(toHost) \in Nat \ {0} /\ Head(toHost) \in Frames
    BY SeqTaken DEF AgentTypeOK
  <2>2. toHost # <<>> => 1 \in 1..Len(toHost)
    BY <2>1
  <2> QED
    BY <2>1, <2>2 DEF Quiet, HostFrames
<1>1. CASE CheckpointLate
  <2>1. /\ host = "loop" /\ host' = "loop" /\ toHost # <<>> /\ Head(toHost).type = "checkpoint" /\ Stopped /\ Taken
        /\ Head(toHost).stage = "terminal" /\ Sent(Reply(Head(toHost).id, TRUE, FALSE)) /\ stop' = stop
        /\ UNCHANGED <<childVars, kept>>
    BY <1>1 DEF CheckpointLate, AtCheckpoint, Incoming, Returns
  <2>2. turn = "ask_terminal"
    BY <1>0, <2>1 DEF FrameOK, Sent, Alive
  <2>3. spoilt \/ Left
    <3>1. "abort" \in stop => spoilt
      BY <2>1 DEF Quiet, SpoiltOK
    <3> QED
      BY <2>1, <3>1 DEF AgentTypeOK, Stopped, Left
  <2>4. (spoilt \/ Left \/ Kept)'
    BY <2>1, <2>3 DEF Left, childVars
  <2>5. /\ HostFrames' /\ ChildMsgs' /\ toHost' = <<>> /\ Len(toHost) = 1
        /\ turn \in Asking \cup {"approval"} /\ proc # "dead"
    BY <2>1, <2>2, <2>4, AnswerSent
  <2> QED
    BY <1>0, <2>1, <2>2, <2>5, AnsweredQuiet
<1>2. CASE CheckpointKept
  <2>1. /\ host = "loop" /\ host' = "loop" /\ toHost # <<>> /\ Head(toHost).type = "checkpoint" /\ ~Stopped /\ Taken
        /\ Sent(Reply(Head(toHost).id, TRUE, FALSE)) /\ stop' = stop
        /\ UNCHANGED childVars /\ kept' = kept + Head(toHost).n
    BY <1>2 DEF CheckpointKept, AtCheckpoint, Incoming, Returns
  <2>2. turn \in Asking /\ Len(toHost) = 1 /\ (spoilt \/ kept + Head(toHost).n = made)
    BY <1>0, <2>1 DEF FrameOK, Sent, Alive
  <2>3. spoilt \/ Kept'
    BY <2>1, <2>2 DEF Kept, childVars
  <2>4. turn # "ask_terminal" => ~spoilt
    <3>1. ~\E i \in 1..Len(toHost) : toHost[i].type = "model_cancel"
      BY <1>0, <2>1, <2>2
    <3>2. "abort" \notin stop
      BY <2>1 DEF Stopped
    <3> QED
      BY <2>2, <3>1, <3>2 DEF Quiet, SpoiltOK, TurnOK, Asking
  <2>5. IF turn = "ask_terminal" THEN (spoilt \/ Left \/ Kept)' ELSE ~spoilt /\ Kept'
    BY <2>1, <2>3, <2>4 DEF childVars
  <2>6. /\ HostFrames' /\ ChildMsgs' /\ toHost' = <<>> /\ Len(toHost) = 1
        /\ turn \in Asking \cup {"approval"} /\ proc # "dead"
    BY <2>1, <2>5, AnswerSent
  <2>7. turn \in {"ask_approval", "approval"} => Kept'
    BY <2>5
  <2> QED
    BY <1>0, <2>1, <2>6, <2>7, AnsweredQuiet
<1>3. CASE ApprovalFrame
  <2>1. /\ host = "loop" /\ host' = "approval" /\ toHost # <<>> /\ Head(toHost).type = "approval" /\ stop' = stop
        /\ UNCHANGED <<toHost, toChild, proc, turn, asks, pend, made, spoilt, kept, callModel>>
    BY <1>3 DEF ApprovalFrame, Incoming, WorkFails, childVars
  <2>2. ChildMsgs' /\ TurnOK' /\ FreshOK' /\ EndOK' /\ SpoiltOK'
    <3>1. ChildMsgs'
      BY <2>1 DEF Quiet, ChildMsgs, MsgOK, Answers, Left, Kept
    <3>2. TurnOK' /\ SpoiltOK'
      BY <2>1 DEF Quiet, TurnOK, Kept, SpoiltOK
    <3>3. FreshOK' /\ EndOK'
      BY <2>1 DEF Quiet, FreshOK, EndOK
    <3> QED
      BY <3>1, <3>2, <3>3
  <2>3. ASSUME NEW i \in 1..Len(toHost') PROVE FrameOK(toHost[i], i = Len(toHost))'
    <3>1. FrameOK(toHost[i], i = Len(toHost))
      BY <2>1, <2>3 DEF Quiet, HostFrames
    <3> QED
      BY <2>1, <3>1 DEF FrameOK, Answers, Left, Kept
  <2>4. HostFrames'
    <3>1. Len(toHost') # 0 /\ toHost'[1].type = "approval"
      BY <1>0, <2>1 DEF AgentTypeOK
    <3> QED
      BY <2>3, <3>1 DEF HostFrames
  <2> QED
    BY <2>2, <2>4 DEF Quiet
<1>4. CASE ApprovalEnds
  <2>1. toHost # <<>> /\ Head(toHost).type = "approval"
    BY <1>0, <1>4 DEF ApprovalEnds, HoldsOK, Quiet, HostFrames
  <2>2. PICK ok \in BOOLEAN : /\ host = "approval" /\ host' = "loop" /\ Taken /\ stop' = stop
                              /\ Sent(Reply(Head(toHost).id, ok, ruling = "allow")) /\ UNCHANGED <<childVars, kept>>
    BY <1>4 DEF ApprovalEnds, WorkFails, recordVars
  <2>3. turn = "approval"
    BY <1>0, <2>1, <2>2 DEF FrameOK, Sent, Alive
  <2>4. Kept' /\ ~spoilt
    BY <2>2, <2>3 DEF Quiet, TurnOK, Kept, childVars
  <2>5. PICK allow \in BOOLEAN : allow = (ruling = "allow")
    OBVIOUS
  <2>6. /\ HostFrames' /\ ChildMsgs' /\ toHost' = <<>> /\ Len(toHost) = 1
        /\ turn \in Asking \cup {"approval"} /\ proc # "dead"
    BY <2>1, <2>2, <2>3, <2>4, <2>5, AnswerSent
  <2> QED
    BY <1>0, <2>1, <2>2, <2>4, <2>6, AnsweredQuiet
<1> QED
  BY <1>1, <1>2, <1>3, <1>4

\* Every step, as long as nothing has failed.
LEMMA QuietKept ==
    ASSUME AgentTypeOK, AgentTypeOK', HoldsOK, Quiet, ~failure, ~failure', AgentNext
    PROVE  Quiet'
<1>1. CASE AgentConsumerNext
  <2>1. ~LoopDone /\ ~LoopLost /\ ~CheckpointRefused
    BY DEF LoopDone, LoopLost, CheckpointRefused, Returns, WorkFails
  <2> QED
    BY <1>1, <2>1, HostQuiet, AnswerQuiet DEF AgentConsumerNext
<1>2. CASE ChildNext
  <2>1. CASE Hear
    BY <2>1, HearsAnswer, HearsLast, HearsOther
  <2> QED
    BY <1>2, <2>1, ThinkQuiet, EndTurnQuiet, BufferFullQuiet, RunToolQuiet, ChildAsksQuiet DEF ChildNext
<1>3. CASE OtherNext
  BY <1>3, OtherQuiet
<1> QED
  BY <1>1, <1>2, <1>3 DEF AgentNext, OtherNext

\* A failure is never taken back.
LEMMA FailureStays ==
    ASSUME AgentTypeOK, failure, AgentNext
    PROVE  failure'
<1> USE DEF consumerVars
<1>1. CASE AgentConsumerNext
  BY <1>1 DEF AgentConsumerNext, Prepare, WaitChild, LoopDone, LoopLost, LoopModel, JoinModel, TakeModel, CheckpointJoins,
     CheckpointLate, CheckpointKept, CheckpointRefused, ModelFrame, OtherFrame, ApprovalFrame, ApprovalEnds, SettledFrame,
     EndWork, CloseChild, FinishRun, Returns, WorkFails
<1>2. CASE ChildNext
  BY <1>2 DEF ChildNext, Think, EndTurn, BufferFull, RunTool, ChildAsks, ToolReturns, Hear
<1>3. CASE OtherNext
  BY <1>3 DEF OtherNext, Healthy, Dies, ModelEnds, CancelRun, CloseHost, AnswerApproval, AgentJoinExpires
<1> QED
  BY <1>1, <1>2, <1>3 DEF AgentNext, OtherNext

\* So the invariant is inductive,
LEMMA AgentStepKeeps == AgentInv /\ [AgentNext]_agentVars => AgentInv'
<1> SUFFICES ASSUME AgentInv, [AgentNext]_agentVars PROVE AgentInv'
  OBVIOUS
<1>1. AgentTypeOK' /\ HoldsOK'
  BY AgentHolds DEF AgentInv
<1>2. CASE AgentNext
  <2>1. failure' \/ Quiet'
    BY <1>1, <1>2, QuietKept, FailureStays DEF AgentInv
  <2> QED
    BY <1>1, <2>1 DEF AgentInv
<1>3. CASE UNCHANGED agentVars
  <2>1. UNCHANGED <<host, stop, failure, callModel, toHost, toChild, proc, turn, asks, pend, made, spoilt, kept>>
    BY <1>3 DEF agentVars, consumerVars, wireVars, childVars, recordVars
  <2>2. ASSUME Quiet PROVE Quiet'
    <3>1. HostFrames' /\ ChildMsgs' /\ TurnOK'
      BY <2>1, <2>2, ApartQuiet DEF Left
    <3> QED
      BY <2>1, <2>2, <3>1 DEF Quiet, FreshOK, SpoiltOK, EndOK, Left, Kept
  <2> QED
    BY <1>1, <2>1, <2>2 DEF AgentInv
<1> QED
  BY <1>2, <1>3

\* holds at the start,
LEMMA AgentInitHolds == AgentInit => AgentInv
<1> SUFFICES ASSUME AgentInit PROVE AgentInv
  OBVIOUS
<1>1. AgentTypeOK /\ HoldsOK
  BY AgentStarts
<1>2. Len(toHost) = 0 /\ Len(toChild) = 0
  BY DEF AgentInit
<1>3. HostFrames /\ ChildMsgs
  BY <1>2 DEF AgentInit, HostFrames, ChildMsgs
<1>4. FreshOK /\ TurnOK /\ SpoiltOK /\ EndOK
  BY DEF AgentInit, FreshOK, TurnOK, SpoiltOK, EndOK
<1> QED
  BY <1>1, <1>3, <1>4 DEF AgentInv, Quiet

\* and is enough.
LEMMA AgentInvImplies == AgentInv => ToolIsAuthorized /\ DoneKeepsAll
<1> SUFFICES ASSUME AgentInv PROVE ToolIsAuthorized /\ DoneKeepsAll
  OBVIOUS
<1>1. ToolIsAuthorized
  BY DEF AgentInv, ToolIsAuthorized, Quiet, TurnOK, Kept
<1>2. DoneKeepsAll
  <2>1. ASSUME agentRow = "done", "close" \notin stop PROVE kept = made
    <3>1. host = "over" /\ ~failure /\ "cancel" \notin stop
      BY <2>1 DEF AgentInv, HoldsOK
    <3> QED
      BY <2>1, <3>1 DEF AgentInv, Quiet, EndOK, Left, Kept
  <2> QED
    BY <2>1 DEF DoneKeepsAll
<1> QED
  BY <1>1, <1>2

\* Until a run has met a failure, a tool runs only when every event that led to it is in the
\* run's record (adapter.go, adapter.mjs; ToolIsAuthorized of AgentRun).
THEOREM ToolsAlwaysAuthorized == AgentSpec => []ToolIsAuthorized
BY AgentInvImplies, AgentInitHolds, AgentStepKeeps, PTL DEF AgentSpec

\* A run recorded as done while the host was not closing has every event of its child in its
\* record (adapter.go, manager.go; DoneKeepsAll of AgentRun).
THEOREM DoneAlwaysKeepsAll == AgentSpec => []DoneKeepsAll
BY AgentInvImplies, AgentInitHolds, AgentStepKeeps, PTL DEF AgentSpec
=============================================================================
