---------------------------- MODULE BridgeProofs ----------------------------
(***************************************************************************)
(* Theorems about the two ends of the bridge, for any finite set of jobs   *)
(* and any number of slots: neither refuses a frame of the other, and what *)
(* a client sees end is complete.                                          *)
(***************************************************************************)
EXTENDS Bridge, SumProofs, SequenceTheorems

-----------------------------------------------------------------------------
(***************************************************************************)
(* The two ends of the bridge, for any jobs, slots and connections: what   *)
(* each end keeps of a job and the frames about it that are on their way   *)
(* fit together (JobFine), and so do the numbers of jobs (RoomOK).         *)
(***************************************************************************)

RelayKinds == {"request", "ack", "cancel", "ready"}
EdgeKinds == {"response", "data", "end", "cancel", "ready"}
FrameKinds == RelayKinds \cup EdgeKinds
RelayFrames == [type : RelayKinds, job : Jobs] \cup [type : {"closed", "keys_ready"}]
EdgeFrames == [type : EdgeKinds, job : Jobs] \cup [type : {"closed", "keys"}]

\* Frame f is a t about j; such a frame is on the wire q; and the kinds of those that are.
Speaks(f, t, j) == f.type = t /\ f.job = j
Carries(q, t, j) == \E i \in 1..Len(q) : Speaks(q[i], t, j)
Coming(q, j) == {t \in FrameKinds : Carries(q, t, j)}

\* The frames about j are on the wire in an order that is one of pairs.
InOrder(q, pairs, j) ==
    \A m, n \in 1..Len(q) : \A t, u \in FrameKinds :
        m < n /\ Speaks(q[m], t, j) /\ Speaks(q[n], u, j) => <<t, u>> \in pairs

\* A wire with s behind q.
LEMMA CarriesConcat ==
    ASSUME NEW S, NEW q \in Seq(S), NEW s \in Seq(S), NEW t, NEW j
    PROVE  Carries(q \o s, t, j) <=> Carries(q, t, j) \/ Carries(s, t, j)
<1> DEFINE L == Len(q)
           M == Len(s)
           c == q \o s
<1>1. /\ L \in Nat /\ M \in Nat /\ Len(c) = L + M
      /\ \A i \in 1..(L + M) : c[i] = IF i <= L THEN q[i] ELSE s[i - L]
  BY ConcatProperties
<1> HIDE DEF L, M, c
<1>2. ASSUME NEW i \in 1..Len(c), Speaks(c[i], t, j)
      PROVE  Carries(q, t, j) \/ Carries(s, t, j)
  <2>1. CASE i <= L
    BY <1>1, <1>2, <2>1 DEF Carries, L
  <2>2. CASE i > L
    <3>1. i - L \in 1..M /\ c[i] = s[i - L]
      BY <1>1, <2>2
    <3> QED
      BY <3>1, <1>2 DEF Carries, M
  <2> QED
    BY <1>1, <2>1, <2>2
<1>3. ASSUME NEW i \in 1..L, Speaks(q[i], t, j) PROVE Carries(c, t, j)
  <2>1. i \in 1..Len(c) /\ c[i] = q[i]
    BY <1>1
  <2> QED
    BY <2>1, <1>3 DEF Carries
<1>4. ASSUME NEW i \in 1..M, Speaks(s[i], t, j) PROVE Carries(c, t, j)
  <2>1. L + i \in 1..Len(c) /\ c[L + i] = s[i]
    BY <1>1
  <2> QED
    BY <2>1, <1>4 DEF Carries
<1>5. Carries(c, t, j) <=> Carries(q, t, j) \/ Carries(s, t, j)
  BY <1>2, <1>3, <1>4 DEF Carries, L, M
<1> QED
  BY <1>5 DEF c

\* Frames in order, followed by frames in order that may each follow them, are in order.
LEMMA OrderConcat ==
    ASSUME NEW S, NEW q \in Seq(S), NEW s \in Seq(S), NEW pairs, NEW j,
           InOrder(q, pairs, j), InOrder(s, pairs, j),
           \A t, u \in FrameKinds : Carries(q, t, j) /\ Carries(s, u, j) => <<t, u>> \in pairs
    PROVE  InOrder(q \o s, pairs, j)
<1> DEFINE L == Len(q)
           M == Len(s)
           c == q \o s
<1>1. /\ L \in Nat /\ M \in Nat /\ Len(c) = L + M
      /\ \A i \in 1..(L + M) : c[i] = IF i <= L THEN q[i] ELSE s[i - L]
  BY ConcatProperties
<1> HIDE DEF L, M, c
<1>2. ASSUME NEW m \in 1..Len(c), NEW n \in 1..Len(c), NEW t \in FrameKinds, NEW u \in FrameKinds,
             m < n, Speaks(c[m], t, j), Speaks(c[n], u, j)
      PROVE  <<t, u>> \in pairs
  <2>1. CASE n <= L
    <3>1. m \in 1..L /\ n \in 1..L /\ c[m] = q[m] /\ c[n] = q[n]
      BY <1>1, <1>2, <2>1
    <3> QED
      BY <3>1, <1>2 DEF InOrder, L
  <2>2. CASE m > L
    <3>1. m - L \in 1..M /\ n - L \in 1..M /\ m - L < n - L /\ c[m] = s[m - L] /\ c[n] = s[n - L]
      BY <1>1, <1>2, <2>2
    <3> QED
      BY <3>1, <1>2 DEF InOrder, M
  <2>3. CASE m <= L /\ n > L
    <3>1. m \in 1..L /\ n - L \in 1..M /\ c[m] = q[m] /\ c[n] = s[n - L]
      BY <1>1, <1>2, <2>3
    <3>2. Carries(q, t, j) /\ Carries(s, u, j)
      BY <3>1, <1>2 DEF Carries, L, M
    <3> QED
      BY <3>2
  <2> QED
    BY <1>1, <2>1, <2>2, <2>3
<1>3. InOrder(c, pairs, j)
  BY <1>2 DEF InOrder
<1> QED
  BY <1>3 DEF c

\* A wire with one frame, and an empty one.
LEMMA OneFrame ==
    ASSUME NEW f, NEW t, NEW j, NEW pairs
    PROVE  /\ Carries(<<f>>, t, j) <=> Speaks(f, t, j)
           /\ ~Carries(<<>>, t, j)
           /\ InOrder(<<f>>, pairs, j) /\ InOrder(<<>>, pairs, j)
<1>1. Len(<<f>>) = 1 /\ <<f>>[1] = f /\ Len(<<>>) = 0
  OBVIOUS
<1>2. Carries(<<f>>, t, j) <=> Speaks(f, t, j)
  BY <1>1 DEF Carries
<1>3. \A m, n \in 1..1 : ~(m < n)
  OBVIOUS
<1> QED
  BY <1>1, <1>2, <1>3 DEF Carries, InOrder

\* The wire once its first frame has been taken.
LEMMA TailFrames ==
    ASSUME NEW S, NEW q \in Seq(S), q # <<>>, NEW j
    PROVE  /\ \A t : Carries(q, t, j) <=> Speaks(Head(q), t, j) \/ Carries(Tail(q), t, j)
           /\ \A pairs : InOrder(q, pairs, j) =>
                 /\ InOrder(Tail(q), pairs, j)
                 /\ \A t, u \in FrameKinds :
                       Speaks(Head(q), t, j) /\ Carries(Tail(q), u, j) => <<t, u>> \in pairs
<1> DEFINE L == Len(q)
           r == Tail(q)
<1>1. /\ L \in Nat /\ L >= 1 /\ Len(r) = L - 1 /\ \A i \in 1..(L - 1) : r[i] = q[i + 1]
      /\ Head(q) = q[1]
  BY EmptySeq, HeadTailProperties
<1> HIDE DEF L, r
<1>2. ASSUME NEW t PROVE Carries(q, t, j) <=> Speaks(q[1], t, j) \/ Carries(r, t, j)
  <2>1. ASSUME NEW i \in 1..L, Speaks(q[i], t, j), i # 1 PROVE Carries(r, t, j)
    <3>1. i - 1 \in 1..(L - 1) /\ r[i - 1] = q[i]
      BY <1>1, <2>1
    <3> QED
      BY <1>1, <2>1, <3>1 DEF Carries
  <2>2. ASSUME NEW i \in 1..(L - 1), Speaks(r[i], t, j) PROVE Carries(q, t, j)
    <3>1. i + 1 \in 1..L /\ r[i] = q[i + 1]
      BY <1>1
    <3> QED
      BY <2>2, <3>1 DEF Carries, L
  <2>3. 1 \in 1..L
    BY <1>1
  <2> QED
    BY <1>1, <2>1, <2>2, <2>3 DEF Carries, L
<1>3. ASSUME NEW pairs, InOrder(q, pairs, j)
      PROVE  /\ InOrder(r, pairs, j)
             /\ \A t, u \in FrameKinds : Speaks(q[1], t, j) /\ Carries(r, u, j) => <<t, u>> \in pairs
  <2>1. ASSUME NEW m \in 1..Len(r), NEW n \in 1..Len(r), NEW t \in FrameKinds, NEW u \in FrameKinds,
               m < n, Speaks(r[m], t, j), Speaks(r[n], u, j)
        PROVE  <<t, u>> \in pairs
    <3>1. m + 1 \in 1..L /\ n + 1 \in 1..L /\ m + 1 < n + 1 /\ r[m] = q[m + 1] /\ r[n] = q[n + 1]
      BY <1>1, <2>1
    <3> QED
      BY <1>3, <2>1, <3>1 DEF InOrder, L
  <2>2. ASSUME NEW n \in 1..Len(r), NEW t \in FrameKinds, NEW u \in FrameKinds,
               Speaks(q[1], t, j), Speaks(r[n], u, j)
        PROVE  <<t, u>> \in pairs
    <3>1. 1 \in 1..L /\ n + 1 \in 1..L /\ 1 < n + 1 /\ r[n] = q[n + 1]
      BY <1>1
    <3> QED
      BY <1>3, <2>2, <3>1 DEF InOrder, L
  <2> QED
    BY <2>1, <2>2 DEF InOrder, Carries
<1> QED
  BY <1>1, <1>2, <1>3 DEF r

\* The wire of a connection that breaks: what had been sent comes through up to a point.
LEMMA CutFrames ==
    ASSUME NEW S, NEW q \in Seq(S), NEW n \in 0..Len(q), NEW j
    PROVE  /\ SubSeq(q, 1, n) \in Seq(S)
           /\ \A t : Carries(SubSeq(q, 1, n), t, j) => Carries(q, t, j)
           /\ \A pairs : InOrder(q, pairs, j) => InOrder(SubSeq(q, 1, n), pairs, j)
<1> DEFINE L == Len(q)
           c == SubSeq(q, 1, n)
<1>1. /\ L \in Nat /\ n \in 0..L /\ c \in Seq(S) /\ Len(c) = n
      /\ \A i \in 1..n : i \in 1..L /\ c[i] = q[i]
  <2>1. L \in Nat /\ \A i \in 1..n : i \in 1..L /\ q[i] \in S
    BY ElementOfSeq
  <2>2. c \in Seq(S) /\ Len(c) = n /\ \A i \in 1..n : c[i] = q[i]
    BY <2>1, SubSeqProperties
  <2> QED
    BY <2>1, <2>2
<1> HIDE DEF c, L
<1>2. \A t : Carries(c, t, j) => Carries(q, t, j)
  BY <1>1 DEF Carries, L
<1>3. \A pairs : InOrder(q, pairs, j) => InOrder(c, pairs, j)
  BY <1>1 DEF InOrder, L
<1> QED
  BY <1>1, <1>2, <1>3 DEF c

\* Putting frames on a wire, and taking the first from it.
LEMMA ComingConcat ==
    ASSUME NEW S, NEW q \in Seq(S), NEW s \in Seq(S), NEW j
    PROVE  Coming(q \o s, j) = Coming(q, j) \cup Coming(s, j)
BY CarriesConcat DEF Coming

\* Sending one frame about x: what is now on its way about each job, and when order is kept.
LEMMA SendsPacket ==
    ASSUME NEW S, NEW q \in Seq(S), NEW t \in FrameKinds, NEW x, Packet(t, x) \in S
    PROVE  /\ Append(q, Packet(t, x)) \in Seq(S)
           /\ Coming(Append(q, Packet(t, x)), x) = Coming(q, x) \cup {t}
           /\ \A y : y # x => Coming(Append(q, Packet(t, x)), y) = Coming(q, y)
           /\ \A pairs, y :
                 InOrder(q, pairs, y) /\ (y = x => \A u \in Coming(q, x) : <<u, t>> \in pairs)
                     => InOrder(Append(q, Packet(t, x)), pairs, y)
<1> DEFINE f == Packet(t, x)
           s == <<f>>
<1>1. s \in Seq(S) /\ Append(q, f) = q \o s /\ Append(q, f) \in Seq(S)
  <2>1. f \in S
    OBVIOUS
  <2> HIDE DEF f
  <2>2. s \in Seq(S)
    BY <2>1
  <2>3. Append(q, f) \in Seq(S) /\ Append(q, f) = q \o s
    BY <2>1, AppendProperties, AppendIsConcat
  <2> QED
    BY <2>2, <2>3
<1>2. \A u, y : Speaks(f, u, y) <=> u = t /\ y = x
  BY DEF Speaks, Packet
<1>3. ASSUME NEW u, NEW y PROVE Carries(s, u, y) <=> u = t /\ y = x
  BY <1>2, OneFrame
<1> HIDE DEF f, s
<1>4. ASSUME NEW y PROVE Coming(Append(q, f), y) = Coming(q, y) \cup (IF y = x THEN {t} ELSE {})
  <2>1. Coming(s, y) = IF y = x THEN {t} ELSE {}
    BY <1>3 DEF Coming
  <2>2. Coming(q \o s, y) = Coming(q, y) \cup Coming(s, y)
    BY <1>1, ComingConcat
  <2> QED
    BY <1>1, <2>1, <2>2
<1>5. ASSUME NEW pairs, NEW y, InOrder(q, pairs, y), y = x => \A u \in Coming(q, x) : <<u, t>> \in pairs
      PROVE  InOrder(Append(q, f), pairs, y)
  <2>1. InOrder(s, pairs, y)
    BY OneFrame DEF s
  <2>2. ASSUME NEW u \in FrameKinds, NEW v \in FrameKinds, Carries(q, u, y), Carries(s, v, y)
        PROVE  <<u, v>> \in pairs
    BY <1>3, <1>5, <2>2 DEF Coming
  <2> QED
    BY <1>1, <1>5, <2>1, <2>2, OrderConcat
<1>6. \A y : y # x => Coming(Append(q, f), y) = Coming(q, y)
  BY <1>4
<1>7. Coming(Append(q, f), x) = Coming(q, x) \cup {t}
  BY <1>4
<1> QED
  BY <1>1, <1>5, <1>6, <1>7 DEF f

\* A frame about no job changes nothing about any job.
LEMMA SendsHello ==
    ASSUME NEW S, NEW q \in Seq(S), NEW type, type \notin FrameKinds, Hello(type) \in S
    PROVE  /\ Append(q, Hello(type)) \in Seq(S)
           /\ \A y : Coming(Append(q, Hello(type)), y) = Coming(q, y)
           /\ \A pairs, y : InOrder(q, pairs, y) => InOrder(Append(q, Hello(type)), pairs, y)
<1> DEFINE f == Hello(type)
           s == <<f>>
<1>1. s \in Seq(S) /\ Append(q, f) = q \o s /\ Append(q, f) \in Seq(S)
  <2>1. f \in S
    OBVIOUS
  <2> HIDE DEF f
  <2>2. s \in Seq(S)
    BY <2>1
  <2>3. Append(q, f) \in Seq(S) /\ Append(q, f) = q \o s
    BY <2>1, AppendProperties, AppendIsConcat
  <2> QED
    BY <2>2, <2>3
<1>2. \A u \in FrameKinds : \A y : ~Speaks(f, u, y)
  BY DEF Speaks, Hello
<1>3. ASSUME NEW u \in FrameKinds, NEW y PROVE ~Carries(s, u, y)
  BY <1>2, OneFrame
<1> HIDE DEF f, s
<1>4. ASSUME NEW y PROVE Coming(Append(q, f), y) = Coming(q, y)
  <2>1. Coming(s, y) = {}
    BY <1>3 DEF Coming
  <2>2. Coming(q \o s, y) = Coming(q, y) \cup Coming(s, y)
    BY <1>1, ComingConcat
  <2> QED
    BY <1>1, <2>1, <2>2
<1>5. ASSUME NEW pairs, NEW y, InOrder(q, pairs, y)
      PROVE  InOrder(Append(q, f), pairs, y)
  <2>1. InOrder(s, pairs, y)
    BY OneFrame DEF s
  <2> QED
    BY <1>1, <1>3, <1>5, <2>1, OrderConcat
<1> QED
  BY <1>1, <1>4, <1>5 DEF f

\* Taking the first frame: what is left about each job, all of which may follow it.
LEMMA TakesFrame ==
    ASSUME NEW S, NEW q \in Seq(S), q # <<>>
    PROVE  /\ Tail(q) \in Seq(S) /\ Head(q) \in S
           /\ \A y : ~(Head(q).type \in FrameKinds /\ Head(q).job = y) => Coming(Tail(q), y) = Coming(q, y)
           /\ \A y : Head(q).type \in FrameKinds /\ Head(q).job = y =>
                 Coming(q, y) = {Head(q).type} \cup Coming(Tail(q), y)
           /\ \A pairs, y : InOrder(q, pairs, y) =>
                 /\ InOrder(Tail(q), pairs, y)
                 /\ Head(q).type \in FrameKinds /\ Head(q).job = y =>
                       \A u \in Coming(Tail(q), y) : <<Head(q).type, u>> \in pairs
<1>1. Tail(q) \in Seq(S) /\ Head(q) \in S
  BY HeadTailProperties
<1>2. ASSUME NEW y, NEW t PROVE Carries(q, t, y) <=> (Head(q).type = t /\ Head(q).job = y) \/ Carries(Tail(q), t, y)
  BY TailFrames DEF Speaks
<1>3. ASSUME NEW y, ~(Head(q).type \in FrameKinds /\ Head(q).job = y) PROVE Coming(Tail(q), y) = Coming(q, y)
  BY <1>2, <1>3 DEF Coming
<1>4. ASSUME NEW y, Head(q).type \in FrameKinds, Head(q).job = y
      PROVE  Coming(q, y) = {Head(q).type} \cup Coming(Tail(q), y)
  BY <1>2, <1>4 DEF Coming
<1>5. ASSUME NEW pairs, NEW y, InOrder(q, pairs, y)
      PROVE  /\ InOrder(Tail(q), pairs, y)
             /\ Head(q).type \in FrameKinds /\ Head(q).job = y =>
                   \A u \in Coming(Tail(q), y) : <<Head(q).type, u>> \in pairs
  <2>1. /\ InOrder(Tail(q), pairs, y)
        /\ \A t, u \in FrameKinds : Speaks(Head(q), t, y) /\ Carries(Tail(q), u, y) => <<t, u>> \in pairs
    BY <1>5, TailFrames
  <2> QED
    BY <2>1 DEF Coming, Speaks
<1> QED
  BY <1>1, <1>3, <1>4, <1>5

\* Cutting a wire short.
LEMMA CutComing ==
    ASSUME NEW S, NEW q \in Seq(S), NEW n \in 0..Len(q), NEW y
    PROVE  Coming(SubSeq(q, 1, n), y) \subseteq Coming(q, y)
BY CutFrames DEF Coming

-----------------------------------------------------------------------------
(* One job, and all of them. *)

\* Which frames about a job may follow which.
RelayPairs == {p \in {"request", "ack"} \X {"ack", "cancel", "ready"} : p # <<"ack", "ack">>}
EdgePairs == {p \in {"response", "data", "end", "cancel"} \X EdgeKinds :
                 (p[1] \in {"end", "cancel"} => p[2] = "ready") /\ p # <<"data", "data">>}

\* What is said of a job: at the object it is jb, seen as sn, its writer is by, g chunks were given
\* to its client and w written, its handler is at h; E and R are the frames about it on their way
\* to the object and to the client, whose session is at on; the object's socket is up; and it is
\* kept (k), acknowledged (a), settling (s), stopped (x), cancelled (c), cut (u).

\* A job that was not sent is unknown to the host, and one the host has not heard of has had none of
\* its attention.
EarlyFine(jb, by, g, w, h, E, R, k, a, s, x, c, u) ==
    /\ jb \in {"new", "reading", "queued"} => h = "none" /\ ~c /\ R = {}
    /\ h = "none" =>
          /\ E = {} /\ R \subseteq {"request", "cancel"}
          /\ by = "free" /\ g = 0 /\ w = 0 /\ ~k /\ ~a /\ ~s /\ ~x /\ ~u

\* Whoever has a slot at one end has it at the other, or a frame on its way says otherwise; a frame to
\* the host finds the job there.
HostFine(jb, h, E, R, on, up, k, s, x, c, u) ==
    /\ h \in {"work", "ack", "bad"} => k
    /\ s => c
    /\ on = "on" /\ x /\ h \in {"work", "ack"} => c
    /\ u => h = "over"
    /\ on = "on" /\ up # 0 /\ k /\ "ready" \notin R => jb = "active"
    /\ "request" \in R => h = "none" /\ (up # 0 => jb = "active")
    /\ jb = "active" => up # 0 /\ (on = "on" => k \/ "request" \in R \/ "ready" \in E)
    /\ "ack" \in R \/ "cancel" \in R \/ "ready" \in R => ~s /\ (k \/ "request" \in R)
    /\ "cancel" \in R => c
    /\ "ready" \in R => jb = "gone" /\ h = "over"

\* A frame to the object finds the job active; the last word is the host's when the job was cancelled.
EdgeFine(jb, by, h, E, up, k, c) ==
    /\ E # {} /\ up # 0 => jb = "active"
    /\ "ready" \in E => c /\ ~k /\ h = "over"
    /\ "end" \in E \/ "cancel" \in E \/ by = "close" => h = "over"
    /\ by = "close" => E \subseteq {"ready"}

\* A chunk is on its way, being written, or acknowledged, and not more than one; nothing is lost of
\* what was written unless the job was cancelled, and an end follows all of it.
DataFine(jb, sn, by, g, w, h, E, R, on, a, c, u) ==
    /\ h = "work" \/ "end" \in E => "data" \notin E /\ by # "write"
    /\ h = "work" => "ack" \notin R /\ ~a
    /\ "data" \in E => by # "write"
    /\ "data" \in E \/ by = "write" => "ack" \notin R /\ ~a
    /\ "ack" \in R => ~a
    /\ on = "on" /\ jb = "active" /\ ~c => w = (IF "data" \in E \/ by = "write" THEN g + 1 ELSE g)
    /\ ("end" \in E \/ by = "close") /\ jb = "active" /\ ~c => g = w /\ ~u
    /\ sn = "complete" => jb = "gone" /\ h = "over" /\ g = w /\ ~u

JobFine(jb, sn, by, g, w, h, E, R, on, up, k, a, s, x, c, u) ==
    /\ EarlyFine(jb, by, g, w, h, E, R, k, a, s, x, c, u)
    /\ HostFine(jb, h, E, R, on, up, k, s, x, c, u)
    /\ EdgeFine(jb, by, h, E, up, k, c)
    /\ DataFine(jb, sn, by, g, w, h, E, R, on, a, c, u)

\* What a client whose session is on may still hear of j.
Heard(on, q, j) == IF on = "on" THEN Coming(q, j) ELSE {}

JobOK(j) ==
    JobFine(job[j], seen[j], busy[j], got[j], wrote[j], handler[j],
            Coming(toEdge, j), Heard(relay, toRelay, j), relay, socket,
            j \in kept, j \in acks, j \in settling, j \in stopped, j \in cancelled, j \in cut)

OrderOK ==
    \A j \in Jobs : InOrder(toEdge, EdgePairs, j) /\ (relay = "on" => InOrder(toRelay, RelayPairs, j))

BridgeTypeOK ==
    /\ job \in [Jobs -> {"new", "reading", "queued", "active", "gone"}]
    /\ seen \in [Jobs -> {"none", "open", "complete", "failed"}]
    /\ busy \in [Jobs -> {"free", "write", "close"}]
    /\ got \in [Jobs -> Nat] /\ wrote \in [Jobs -> Nat]
    /\ handler \in [Jobs -> {"none", "work", "ack", "bad", "over"}]
    /\ line \in Seq(Jobs) /\ toEdge \in Seq(EdgeFrames) /\ toRelay \in Seq(RelayFrames)
    /\ relay \in {"off", "on", "ending"} /\ kept \subseteq Jobs
    /\ published \in {0, Capacity} /\ limit \in {0, Capacity} /\ conns \in Nat
    /\ broken \in BOOLEAN /\ early \in BOOLEAN

\* The line has each queued job once, and is the line of a connection.
LineFine(state, queue) ==
    /\ \A m, n \in 1..Len(queue) : queue[m] = queue[n] => m = n
    /\ \A j \in Jobs : state[j] = "queued" <=> \E n \in 1..Len(queue) : queue[n] = j
    /\ socket # 0 \/ Len(queue) = 0
LineOK == LineFine(job, line)

\* What a client that keeps K will have kept when it has heard the first i frames of q.
UpTo(q, i, t, j) == \E n \in 1..i : Speaks(q[n], t, j)
KeptAfter(K, q, i) == {j \in Jobs : (j \in K \/ UpTo(q, i, "request", j)) /\ ~UpTo(q, i, "ready", j)}

\* No frame on the wire finds the client with more jobs than slots.
WireRoom(K, q) == \A i \in 0..Len(q) : Cardinality(KeptAfter(K, q, i)) <= Capacity

EdgeRoom == IF published = 0 THEN 1 ELSE published

\* No end has more jobs than slots, now and after each frame.
RoomOK ==
    /\ Cardinality(Active) <= EdgeRoom
    /\ Cardinality(kept) <= Capacity /\ (relay = "off" => kept = {})
    /\ relay = "on" => WireRoom(kept, toRelay)

\* The slots are on the wire before every request; and they are on the wire.
KeysBefore(q) ==
    \A i \in 1..Len(q) : q[i].type = "request" => \E n \in 1..(i - 1) : q[n].type = "keys_ready"
KeysComing(q) == \E n \in 1..Len(q) : q[n].type = "keys_ready"

\* Unless a request was early, a client that has no slots yet will hear of them before any request.
KeysFirst ==
    early \/
        /\ ~broken
        /\ relay = "on" /\ limit = 0 =>
             KeysBefore(toRelay) /\ (socket # 0 /\ published # 0 => KeysComing(toRelay))

JobsOK == \A j \in Jobs : JobOK(j)
BridgeInv == BridgeTypeOK /\ LineOK /\ JobsOK /\ OrderOK /\ RoomOK /\ KeysFirst

-----------------------------------------------------------------------------
(* Steps that leave a job alone, and what the host's handlers do. *)

Same(y) ==
    /\ job'[y] = job[y] /\ seen'[y] = seen[y] /\ busy'[y] = busy[y] /\ got'[y] = got[y]
    /\ wrote'[y] = wrote[y] /\ handler'[y] = handler[y]
    /\ Coming(toEdge', y) = Coming(toEdge, y) /\ Heard(relay', toRelay', y) = Heard(relay, toRelay, y)
    /\ relay' = relay /\ socket' = socket
    /\ (y \in kept' <=> y \in kept) /\ (y \in acks' <=> y \in acks) /\ (y \in settling' <=> y \in settling)
    /\ (y \in stopped' <=> y \in stopped) /\ (y \in cancelled' <=> y \in cancelled) /\ (y \in cut' <=> y \in cut)

\* A job none of whose state changed is as it was.
LEMMA SameJob == ASSUME NEW y \in Jobs, JobOK(y), Same(y) PROVE JobOK(y)'
BY DEF Same, JobOK, JobFine, EarlyFine, HostFine, EdgeFine, DataFine

\* A step about one job keeps all of them when it keeps that one.
LEMMA OneJob ==
    ASSUME JobsOK, NEW x \in Jobs, \A y \in Jobs \ {x} : Same(y), JobOK(x)'
    PROVE  JobsOK'
<1>1. ASSUME NEW y \in Jobs PROVE JobOK(y)'
  <2>1. CASE y = x
    BY <2>1
  <2>2. CASE y # x
    BY <2>2, SameJob DEF JobsOK
  <2> QED
    BY <2>1, <2>2
<1> QED
  BY <1>1 DEF JobsOK

\* A step that neither starts nor ends a job at either end, nor sends the host anything.
LEMMA RoomStays ==
    ASSUME BridgeInv, UNCHANGED <<job, line, kept, toRelay, relay, socket, published, limit, early, broken>>
    PROVE  /\ LineOK' /\ RoomOK' /\ KeysFirst'
           /\ \A j \in Jobs : relay' = "on" => InOrder(toRelay', RelayPairs, j)
           /\ \A j : Heard(relay', toRelay', j) = Heard(relay, toRelay, j)
BY DEF BridgeInv, LineOK, LineFine, RoomOK, KeysFirst, OrderOK, Active, EdgeRoom, Heard

\* What Says puts on the wire.
LEMMA OneSaid ==
    ASSUME NEW q \in Seq(EdgeFrames), NEW t \in EdgeKinds, NEW x \in Jobs
    PROVE  q \o [i \in DOMAIN <<t>> |-> Packet(<<t>>[i], x)] = Append(q, Packet(t, x))
<1>1. [i \in DOMAIN <<t>> |-> Packet(<<t>>[i], x)] = <<Packet(t, x)>>
  OBVIOUS
<1>2. Packet(t, x) \in EdgeFrames
  BY DEF Packet, EdgeFrames
<1> HIDE DEF Packet
<1> QED
  BY <1>1, <1>2, AppendIsConcat

\* Two frames sent together are one followed by the other.
LEMMA PairConcat == ASSUME NEW a, NEW b PROVE <<a>> \o <<b>> = <<a, b>>
<1> DEFINE S == {a, b}
           c == <<a>> \o <<b>>
           d == <<a, b>>
<1>1. <<a>> \in Seq(S) /\ <<b>> \in Seq(S) /\ d \in Seq(S)
  OBVIOUS
<1>2. Len(<<a>>) = 1 /\ Len(<<b>>) = 1 /\ Len(d) = 2 /\ <<a>>[1] = a /\ <<b>>[1] = b /\ d[1] = a /\ d[2] = b
  OBVIOUS
<1>3. c \in Seq(S) /\ Len(c) = 2 /\ \A i \in 1..2 : c[i] = IF i <= 1 THEN <<a>>[i] ELSE <<b>>[i - 1]
  BY <1>1, <1>2, ConcatProperties
<1> HIDE DEF S, c, d
<1>4. c[1] = a /\ c[2] = b
  BY <1>2, <1>3
<1>5. \A i \in 1..Len(c) : c[i] = d[i]
  BY <1>2, <1>3, <1>4
<1>6. c = d
  BY <1>1, <1>2, <1>3, <1>5, SeqEqual
<1> QED
  BY <1>6 DEF c, d

\* A host that says its response and one thing more sends the two, in that order.
LEMMA TwoSaid ==
    ASSUME NEW q \in Seq(EdgeFrames), NEW t \in EdgeKinds, NEW x \in Jobs
    PROVE  q \o [i \in DOMAIN (<<"response">> \o <<t>>) |-> Packet((<<"response">> \o <<t>>)[i], x)]
               = Append(Append(q, Packet("response", x)), Packet(t, x))
<1> DEFINE a == Packet("response", x)
           b == Packet(t, x)
<1>1. a \in EdgeFrames /\ b \in EdgeFrames
  BY DEF Packet, EdgeFrames, EdgeKinds
<1>2. <<"response">> \o <<t>> = <<"response", t>>
  BY PairConcat
<1>3. [i \in DOMAIN <<"response", t>> |-> Packet(<<"response", t>>[i], x)] = <<a, b>>
  OBVIOUS
<1> HIDE DEF a, b
<1>4. q \o <<a, b>> = Append(Append(q, a), b)
  <2>0. <<a, b>> = <<a>> \o <<b>>
    BY PairConcat
  <2>1. <<a>> \in Seq(EdgeFrames) /\ <<b>> \in Seq(EdgeFrames)
    BY ONLY <1>1
  <2>2. Append(q, a) \in Seq(EdgeFrames) /\ Append(q, a) = q \o <<a>>
    BY <1>1, AppendProperties, AppendIsConcat
  <2>3. Append(Append(q, a), b) = (q \o <<a>>) \o <<b>>
    BY <1>1, <2>2, AppendIsConcat
  <2>4. (q \o <<a>>) \o <<b>> = q \o (<<a>> \o <<b>>)
    BY <2>1, ConcatAssociative
  <2> QED
    BY <2>0, <2>3, <2>4
<1> QED
  BY <1>2, <1>3, <1>4 DEF a, b

\* The end of what a handler says, after its head if that was not sent yet.
LEMMA SaysLast ==
    ASSUME BridgeTypeOK, OrderOK, NEW x \in Jobs, NEW t \in {"data", "end"}, relay = "on",
           Says(Opening(x) \o <<t>>, x), Coming(toEdge, x) \subseteq {"response"}
    PROVE  /\ toEdge' \in Seq(EdgeFrames) /\ \A j \in Jobs : InOrder(toEdge', EdgePairs, j)
           /\ t \in Coming(toEdge', x) /\ Coming(toEdge', x) \subseteq {"response", t}
           /\ \A y : y # x => Coming(toEdge', y) = Coming(toEdge, y)
<1> DEFINE p == Packet("response", x)
           q == IF x \in started THEN toEdge ELSE Append(toEdge, p)
<1>1. toEdge \in Seq(EdgeFrames) /\ t \in EdgeKinds /\ t \in FrameKinds /\ "response" \in FrameKinds
  BY DEF BridgeTypeOK, EdgeKinds, FrameKinds
<1>2. p \in EdgeFrames /\ Packet(t, x) \in EdgeFrames
  BY <1>1 DEF Packet, EdgeFrames, EdgeKinds
<1>3. /\ q \in Seq(EdgeFrames) /\ Coming(q, x) \subseteq {"response"}
      /\ \A y : y # x => Coming(q, y) = Coming(toEdge, y)
      /\ \A j \in Jobs : InOrder(q, EdgePairs, j)
  <2>1. CASE x \in started
    BY <1>1, <2>1 DEF OrderOK
  <2>2. CASE x \notin started
    <3>1. <<"response", "response">> \in EdgePairs
      BY DEF EdgePairs, EdgeKinds
    <3> QED
      BY <1>1, <1>2, <2>2, <3>1, SendsPacket DEF OrderOK
  <2> QED
    BY <2>1, <2>2
<1>4. toEdge' = Append(q, Packet(t, x))
  <2>1. CASE x \in started
    <3>1. <<>> \o <<t>> = <<t>>
      OBVIOUS
    <3> QED
      BY <1>1, <2>1, <3>1, OneSaid DEF Says, Opening
  <2>2. CASE x \notin started
    BY <1>1, <2>2, TwoSaid DEF Says, Opening
  <2> QED
    BY <2>1, <2>2
<1> HIDE DEF q
<1>5. <<"response", t>> \in EdgePairs
  BY DEF EdgePairs, EdgeKinds
<1>6. /\ toEdge' \in Seq(EdgeFrames) /\ Coming(toEdge', x) = Coming(q, x) \cup {t}
      /\ \A y : y # x => Coming(toEdge', y) = Coming(q, y)
      /\ \A j \in Jobs : InOrder(q, EdgePairs, j) /\ (j = x => \A u \in Coming(q, x) : <<u, t>> \in EdgePairs)
                            => InOrder(toEdge', EdgePairs, j)
  BY <1>1, <1>2, <1>3, <1>4, SendsPacket
<1> QED
  BY <1>3, <1>5, <1>6

\* The kinds of frames each end hears.
LEMMA KindsHeard ==
    ASSUME BridgeTypeOK, NEW j
    PROVE  Coming(toEdge, j) \subseteq EdgeKinds /\ Coming(toRelay, j) \subseteq RelayKinds
<1>1. ASSUME NEW t \in FrameKinds, NEW i \in 1..Len(toEdge), Speaks(toEdge[i], t, j)
      PROVE  t \in EdgeKinds
  <2>1. toEdge[i] \in EdgeFrames
    BY ElementOfSeq DEF BridgeTypeOK
  <2> QED
    BY <1>1, <2>1 DEF EdgeFrames, Speaks, FrameKinds, RelayKinds, EdgeKinds
<1>2. ASSUME NEW t \in FrameKinds, NEW i \in 1..Len(toRelay), Speaks(toRelay[i], t, j)
      PROVE  t \in RelayKinds
  <2>1. toRelay[i] \in RelayFrames
    BY ElementOfSeq DEF BridgeTypeOK
  <2> QED
    BY <1>2, <2>1 DEF RelayFrames, Speaks, FrameKinds, RelayKinds, EdgeKinds
<1> QED
  BY <1>1, <1>2 DEF Coming, Carries

\* A handler at work has at most its head on the wire.
LEMMA WorkingSaid ==
    ASSUME BridgeTypeOK, NEW x \in Jobs, JobOK(x), handler[x] = "work"
    PROVE  Coming(toEdge, x) \subseteq {"response"}
BY KindsHeard DEF JobOK, JobFine, EdgeFine, DataFine, EdgeKinds

\* The handler writes one chunk, and its response before the first: the chunk is then the one on its
\* way.
LEMMA WritesKeep ==
    ASSUME BridgeInv, NEW x \in Jobs, RelayWrites(x)
    PROVE  BridgeInv'
<1>1. BridgeTypeOK /\ OrderOK /\ JobsOK /\ JobOK(x)
  BY DEF BridgeInv, JobsOK
<1>2. UNCHANGED <<job, line, kept, toRelay, relay, socket, published, limit, early, broken>>
  BY DEF RelayWrites, edgeVars
<1>3. /\ LineOK' /\ RoomOK' /\ KeysFirst'
      /\ \A j \in Jobs : relay' = "on" => InOrder(toRelay', RelayPairs, j)
      /\ \A j : Heard(relay', toRelay', j) = Heard(relay, toRelay, j)
  BY <1>2, RoomStays
<1>4. Coming(toEdge, x) \subseteq {"response"}
  BY <1>1, WorkingSaid DEF RelayWrites
<1>5. /\ toEdge' \in Seq(EdgeFrames) /\ \A j \in Jobs : InOrder(toEdge', EdgePairs, j)
      /\ \A y : y # x => Coming(toEdge', y) = Coming(toEdge, y)
      /\ relay = "on" => "data" \in Coming(toEdge', x) /\ Coming(toEdge', x) \subseteq {"response", "data"}
      /\ relay # "on" => toEdge' = toEdge
  <2>1. CASE relay = "on"
    BY <1>1, <1>4, <2>1, SaysLast DEF RelayWrites
  <2>2. CASE relay # "on"
    BY <1>1, <2>2 DEF RelayWrites, Says, BridgeTypeOK, OrderOK
  <2> QED
    BY <2>1, <2>2
<1>6. /\ UNCHANGED <<job, seen, busy, got, kept, acks, settling, stopped, cancelled, cut, relay, socket>>
      /\ handler[x] = "work" /\ wrote[x] \in Nat
      /\ IF relay = "on" THEN handler' = [handler EXCEPT ![x] = "ack"] /\ wrote' = [wrote EXCEPT ![x] = @ + 1]
         ELSE handler' = [handler EXCEPT ![x] = "bad"] /\ wrote' = wrote
      /\ handler \in [Jobs -> {"none", "work", "ack", "bad", "over"}] /\ wrote \in [Jobs -> Nat]
  BY <1>1 DEF RelayWrites, edgeVars, BridgeTypeOK
<1>7. \A y \in Jobs \ {x} : Same(y)
  BY <1>3, <1>5, <1>6 DEF Same
<1>8. JobOK(x)'
  <2>1. CASE relay = "on"
    <3>1. /\ handler'[x] = "ack" /\ wrote'[x] = wrote[x] + 1 /\ wrote[x] \in Nat
          /\ "data" \in Coming(toEdge', x) /\ Coming(toEdge', x) \subseteq {"response", "data"}
      BY <1>5, <1>6, <2>1
    <3>2. Heard(relay', toRelay', x) = Heard(relay, toRelay, x)
      BY <1>3
    <3> QED
      BY <1>1, <1>4, <1>6, <2>1, <3>1, <3>2 DEF JobOK, JobFine, EarlyFine, HostFine, EdgeFine, DataFine
  <2>2. CASE relay # "on"
    <3>1. handler'[x] = "bad" /\ wrote' = wrote /\ toEdge' = toEdge
      BY <1>5, <1>6, <2>2
    <3>2. Heard(relay', toRelay', x) = Heard(relay, toRelay, x)
      BY <1>3
    <3> QED
      BY <1>1, <1>4, <1>6, <2>2, <3>1, <3>2 DEF JobOK, JobFine, EarlyFine, HostFine, EdgeFine, DataFine
  <2> QED
    BY <2>1, <2>2
<1>9. JobsOK'
  BY <1>1, <1>7, <1>8, OneJob
<1>10. BridgeTypeOK'
  <2>1. conns' = conns
    BY DEF RelayWrites
  <2>2. handler' \in [Jobs -> {"none", "work", "ack", "bad", "over"}] /\ wrote' \in [Jobs -> Nat]
    <3>1. CASE relay = "on"
      <4>1. handler' \in [Jobs -> {"none", "work", "ack", "bad", "over"}]
        BY <1>6, <3>1
      <4>2. wrote' \in [Jobs -> Nat]
        BY <1>6, <3>1
      <4> QED
        BY <4>1, <4>2
    <3>2. CASE relay # "on"
      BY <1>6, <3>2
    <3> QED
      BY <3>1, <3>2
  <2> QED
    BY <1>1, <1>2, <1>5, <1>6, <2>1, <2>2 DEF BridgeTypeOK
<1> QED
  BY <1>3, <1>5, <1>9, <1>10 DEF BridgeInv, OrderOK

\* The wait for an acknowledgement, and its end.
LEMMA WaitsKeep ==
    ASSUME BridgeInv, NEW x \in Jobs, RelayAcked(x) \/ RelayUnacked(x)
    PROVE  BridgeInv'
<1>1. BridgeTypeOK /\ OrderOK /\ JobsOK /\ JobOK(x)
  BY DEF BridgeInv, JobsOK
<1>2. UNCHANGED <<job, line, kept, toRelay, relay, socket, published, limit, early, broken>>
  BY DEF RelayAcked, RelayUnacked, edgeVars
<1>3. /\ LineOK' /\ RoomOK' /\ KeysFirst'
      /\ \A j \in Jobs : relay' = "on" => InOrder(toRelay', RelayPairs, j)
      /\ \A j : Heard(relay', toRelay', j) = Heard(relay, toRelay, j)
  BY <1>2, RoomStays
<1>4. /\ UNCHANGED <<job, seen, busy, got, wrote, kept, settling, cancelled, cut, relay, socket, toEdge, toRelay>>
      /\ handler \in [Jobs -> {"none", "work", "ack", "bad", "over"}] /\ handler[x] = "ack"
      /\ \/ x \in acks /\ acks' = acks \ {x} /\ handler' = [handler EXCEPT ![x] = "work"] /\ stopped' = stopped
         \/ acks' = acks /\ handler' = [handler EXCEPT ![x] = "bad"] /\ stopped' = stopped \cup {x}
  BY <1>1 DEF RelayAcked, RelayUnacked, edgeVars, BridgeTypeOK
<1>5. \A y \in Jobs \ {x} : Same(y)
  BY <1>4 DEF Same
<1>6. JobOK(x)'
  <2>1. CASE x \in acks /\ acks' = acks \ {x} /\ handler' = [handler EXCEPT ![x] = "work"] /\ stopped' = stopped
    BY <1>1, <1>4, <2>1 DEF JobOK, JobFine, EarlyFine, HostFine, EdgeFine, DataFine
  <2>2. CASE acks' = acks /\ handler' = [handler EXCEPT ![x] = "bad"] /\ stopped' = stopped \cup {x}
    BY <1>1, <1>4, <2>2 DEF JobOK, JobFine, EarlyFine, HostFine, EdgeFine, DataFine
  <2> QED
    BY <1>4, <2>1, <2>2
<1>7. JobsOK'
  BY <1>1, <1>5, <1>6, OneJob
<1>8. BridgeTypeOK'
  <2>1. conns' = conns
    BY DEF RelayAcked, RelayUnacked
  <2>2. handler' \in [Jobs -> {"none", "work", "ack", "bad", "over"}]
    BY <1>4
  <2> QED
    BY <1>1, <1>2, <1>4, <2>1, <2>2 DEF BridgeTypeOK
<1> QED
  BY <1>1, <1>3, <1>4, <1>7, <1>8 DEF BridgeInv, OrderOK

\* finish, well or not.
LEMMA FinishesKeep ==
    ASSUME BridgeInv, NEW x \in Jobs, RelayFinishes(x)
    PROVE  BridgeInv'
<1>1. BridgeTypeOK /\ OrderOK /\ JobsOK /\ JobOK(x)
  BY DEF BridgeInv, JobsOK
<1>2. UNCHANGED <<job, line, kept, toRelay, relay, socket, published, limit, early, broken>>
  BY DEF RelayFinishes, edgeVars
<1>3. /\ LineOK' /\ RoomOK' /\ KeysFirst'
      /\ \A j \in Jobs : relay' = "on" => InOrder(toRelay', RelayPairs, j)
      /\ \A j : Heard(relay', toRelay', j) = Heard(relay, toRelay, j)
  BY <1>2, RoomStays
<1>4. /\ UNCHANGED <<job, seen, busy, got, wrote, kept, acks, settling, stopped, cancelled, relay, socket>>
      /\ handler \in [Jobs -> {"none", "work", "ack", "bad", "over"}] /\ handler[x] \in {"work", "bad"}
      /\ handler' = [handler EXCEPT ![x] = "over"] /\ cut' = IF x \in stopped THEN cut \cup {x} ELSE cut
  BY <1>1 DEF RelayFinishes, edgeVars, BridgeTypeOK
<1>5. /\ toEdge' \in Seq(EdgeFrames) /\ \A j \in Jobs : InOrder(toEdge', EdgePairs, j)
      /\ \A y : y # x => Coming(toEdge', y) = Coming(toEdge, y)
      /\ relay = "on" /\ handler[x] = "work" =>
            /\ Coming(toEdge, x) \subseteq {"response"}
            /\ "end" \in Coming(toEdge', x) /\ Coming(toEdge', x) \subseteq {"response", "end"}
      /\ relay = "on" /\ handler[x] = "bad" => Coming(toEdge', x) = Coming(toEdge, x) \cup {"cancel"}
      /\ relay # "on" => toEdge' = toEdge
  <2>1. CASE relay = "on" /\ handler[x] = "work"
    <3>1. Says(Opening(x) \o <<"end">>, x) /\ Coming(toEdge, x) \subseteq {"response"}
      BY <1>1, <2>1, WorkingSaid DEF RelayFinishes
    <3> QED
      BY <1>1, <2>1, <3>1, SaysLast
  <2>2. CASE relay = "on" /\ handler[x] = "bad"
    <3>1. /\ toEdge \in Seq(EdgeFrames) /\ "cancel" \in EdgeKinds /\ "cancel" \in FrameKinds
          /\ Packet("cancel", x) \in EdgeFrames
      BY <1>1 DEF BridgeTypeOK, EdgeKinds, FrameKinds, Packet, EdgeFrames
    <3>2. toEdge' = Append(toEdge, Packet("cancel", x))
      BY <2>2, <3>1, OneSaid DEF RelayFinishes, Says
    <3>3. Coming(toEdge, x) \subseteq {"response", "data"}
      BY <1>1, <2>2, KindsHeard DEF JobOK, JobFine, EdgeFine, EdgeKinds
    <3>4. \A u \in {"response", "data"} : <<u, "cancel">> \in EdgePairs
      BY DEF EdgePairs, EdgeKinds
    <3>5. /\ toEdge' \in Seq(EdgeFrames) /\ Coming(toEdge', x) = Coming(toEdge, x) \cup {"cancel"}
          /\ \A y : y # x => Coming(toEdge', y) = Coming(toEdge, y)
          /\ \A y \in Jobs : InOrder(toEdge, EdgePairs, y) /\ (y = x => \A u \in Coming(toEdge, x) : <<u, "cancel">> \in EdgePairs)
                                => InOrder(toEdge', EdgePairs, y)
      BY <3>1, <3>2, SendsPacket
    <3>6. \A j \in Jobs : InOrder(toEdge', EdgePairs, j)
      BY <1>1, <3>3, <3>4, <3>5 DEF OrderOK
    <3> QED
      BY <2>2, <3>5, <3>6
  <2>3. CASE relay # "on"
    BY <1>1, <2>3 DEF RelayFinishes, Says, BridgeTypeOK, OrderOK
  <2> QED
    BY <1>4, <2>1, <2>2, <2>3
<1>6. \A y \in Jobs \ {x} : Same(y)
  BY <1>3, <1>4, <1>5 DEF Same
<1>7. JobOK(x)'
  <2>1. /\ Heard(relay', toRelay', x) = Heard(relay, toRelay, x) /\ handler'[x] = "over"
        /\ (x \in cut' => x \in stopped \/ x \in cut)
    BY <1>3, <1>4
  <2>2. CASE relay = "on" /\ handler[x] = "work"
    BY <1>1, <1>4, <1>5, <2>1, <2>2 DEF JobOK, JobFine, EarlyFine, HostFine, EdgeFine, DataFine
  <2>3. CASE relay = "on" /\ handler[x] = "bad"
    <3>1. Coming(toEdge', x) = Coming(toEdge, x) \cup {"cancel"}
      BY <1>5, <2>3
    <3> QED
      BY <1>1, <1>4, <2>1, <2>3, <3>1 DEF JobOK, JobFine, EarlyFine, HostFine, EdgeFine, DataFine
  <2>4. CASE relay # "on"
    BY <1>1, <1>4, <1>5, <2>1, <2>4 DEF JobOK, JobFine, EarlyFine, HostFine, EdgeFine, DataFine
  <2> QED
    BY <1>4, <2>2, <2>3, <2>4
<1>8. JobsOK'
  BY <1>1, <1>6, <1>7, OneJob
<1>9. BridgeTypeOK'
  <2>1. conns' = conns
    BY DEF RelayFinishes
  <2>2. handler' \in [Jobs -> {"none", "work", "ack", "bad", "over"}]
    BY <1>4
  <2> QED
    BY <1>1, <1>2, <1>4, <1>5, <2>1, <2>2 DEF BridgeTypeOK
<1> QED
  BY <1>3, <1>5, <1>8, <1>9 DEF BridgeInv, OrderOK

-----------------------------------------------------------------------------
(* The numbers of jobs and the slots, as frames come and go. *)

\* A part of a set of jobs is no larger.
LEMMA FewerJobs ==
    ASSUME NEW A, NEW B, A \subseteq B, B \subseteq Jobs
    PROVE  Cardinality(A) <= Cardinality(B) /\ Cardinality(A) \in Nat /\ Cardinality(B) \in Nat
<1>1. IsFiniteSet(Jobs)
  BY BridgeAssumption
<1>2. IsFiniteSet(B)
  BY <1>1, FS_Subset
<1> QED
  BY <1>2, FS_Subset, FS_CardinalityType

\* What will be kept are jobs.
LEMMA KeptJobs == ASSUME NEW K, NEW q, NEW i PROVE KeptAfter(K, q, i) \subseteq Jobs
BY DEF KeptAfter

\* A client that keeps fewer jobs has room for the same frames.
LEMMA FewerKept ==
    ASSUME NEW K, NEW M, M \subseteq K, NEW q, WireRoom(K, q)
    PROVE  WireRoom(M, q)
<1>1. ASSUME NEW i \in 0..Len(q) PROVE Cardinality(KeptAfter(M, q, i)) <= Capacity
  <2>1. KeptAfter(M, q, i) \subseteq KeptAfter(K, q, i)
    BY DEF KeptAfter
  <2>2. Cardinality(KeptAfter(K, q, i)) <= Capacity
    BY DEF WireRoom
  <2>3. Capacity \in Nat
    BY BridgeAssumption
  <2> QED
    BY <2>1, <2>2, <2>3, KeptJobs, FewerJobs
<1> QED
  BY <1>1 DEF WireRoom

\* A frame that is not a request is sent.
LEMMA RoomSends ==
    ASSUME NEW K, NEW q \in Seq(RelayFrames), NEW f \in RelayFrames, f.type # "request", WireRoom(K, q)
    PROVE  WireRoom(K, Append(q, f))
<1> DEFINE L == Len(q)
           c == Append(q, f)
<1>1. L \in Nat /\ Len(c) = L + 1 /\ (\A i \in 1..L : c[i] = q[i]) /\ c[L + 1] = f
  BY AppendProperties
<1> HIDE DEF L, c
<1>2. ASSUME NEW i \in 0..Len(c) PROVE Cardinality(KeptAfter(K, c, i)) <= Capacity
  <2>1. PICK m \in 0..L : KeptAfter(K, c, i) \subseteq KeptAfter(K, q, m)
    <3>1. CASE i <= L
      <4>1. \A n \in 1..i : c[n] = q[n]
        BY <1>1, <3>1
      <4>2. KeptAfter(K, c, i) = KeptAfter(K, q, i)
        BY <4>1 DEF KeptAfter, UpTo
      <4> QED
        BY <1>1, <3>1, <4>2
    <3>2. CASE i > L
      <4>1. i = L + 1
        BY <1>1, <3>2
      <4>2. ASSUME NEW j, UpTo(c, i, "request", j) PROVE UpTo(q, L, "request", j)
        BY <1>1, <4>1, <4>2 DEF UpTo, Speaks
      <4>3. ASSUME NEW j, UpTo(q, L, "ready", j) PROVE UpTo(c, i, "ready", j)
        <5>1. PICK n \in 1..L : Speaks(q[n], "ready", j)
          BY <4>3 DEF UpTo
        <5>2. n \in 1..i /\ c[n] = q[n]
          BY <1>1, <4>1
        <5> QED
          BY <5>1, <5>2 DEF UpTo
      <4>4. KeptAfter(K, c, i) \subseteq KeptAfter(K, q, L)
        BY <4>2, <4>3 DEF KeptAfter
      <4> QED
        BY <1>1, <4>4
    <3> QED
      BY <1>1, <3>1, <3>2
  <2>2. Cardinality(KeptAfter(K, q, m)) <= Capacity
    BY DEF WireRoom, L
  <2>3. Capacity \in Nat
    BY BridgeAssumption
  <2> QED
    BY <2>1, <2>2, <2>3, KeptJobs, FewerJobs
<1>3. WireRoom(K, c)
  BY <1>2 DEF WireRoom
<1> QED
  BY <1>3 DEF c

\* A frame put last keeps the slots before the requests when it is no request.
LEMMA KeysSent ==
    ASSUME NEW q \in Seq(RelayFrames), NEW f \in RelayFrames
    PROVE  /\ f.type # "request" /\ KeysBefore(q) => KeysBefore(Append(q, f))
           /\ KeysComing(q) \/ f.type = "keys_ready" => KeysComing(Append(q, f))
<1> DEFINE L == Len(q)
           c == Append(q, f)
<1>1. L \in Nat /\ Len(c) = L + 1 /\ (\A i \in 1..L : c[i] = q[i]) /\ c[L + 1] = f
  BY AppendProperties
<1> HIDE DEF L, c
<1>2. ASSUME f.type # "request", KeysBefore(q), NEW i \in 1..Len(c), c[i].type = "request"
      PROVE  \E n \in 1..(i - 1) : c[n].type = "keys_ready"
  <2>1. i \in 1..L /\ q[i].type = "request"
    BY <1>1, <1>2
  <2>2. PICK n \in 1..(i - 1) : q[n].type = "keys_ready"
    BY <1>2, <2>1 DEF KeysBefore, L
  <2>3. n \in 1..L
    BY <1>1, <2>1
  <2> QED
    BY <1>1, <2>2, <2>3
<1>3. ASSUME KeysComing(q) PROVE KeysComing(c)
  <2>1. PICK n \in 1..L : q[n].type = "keys_ready"
    BY <1>3 DEF KeysComing, L
  <2>2. n \in 1..Len(c)
    BY <1>1
  <2> QED
    BY <1>1, <2>1, <2>2 DEF KeysComing
<1>4. ASSUME f.type = "keys_ready" PROVE KeysComing(c)
  <2>1. L + 1 \in 1..Len(c)
    BY <1>1
  <2> QED
    BY <1>1, <1>4, <2>1 DEF KeysComing
<1> QED
  BY <1>2, <1>3, <1>4 DEF KeysBefore, c

\* The client takes the next frame: what it will have kept after i of the rest.
LEMMA RoomTakes ==
    ASSUME NEW K, NEW M, NEW q \in Seq(RelayFrames), q # <<>>, WireRoom(K, q),
           \A y \in Jobs : InOrder(q, RelayPairs, y),
           \A y \in Jobs :
              /\ y \in M => y \in K \/ Speaks(Head(q), "request", y)
              /\ Speaks(Head(q), "ready", y) => y \notin M
    PROVE  WireRoom(M, Tail(q))
<1> DEFINE L == Len(q)
           r == Tail(q)
<1>1. /\ L \in Nat /\ L >= 1 /\ Len(r) = L - 1 /\ \A i \in 1..(L - 1) : r[i] = q[i + 1]
      /\ Head(q) = q[1]
  BY EmptySeq, HeadTailProperties
<1> HIDE DEF L, r
<1>2. ASSUME NEW i \in 0..Len(r) PROVE Cardinality(KeptAfter(M, r, i)) <= Capacity
  <2>0. i \in Nat /\ i + 1 \in 0..L /\ i <= L - 1
    BY <1>1
  <2>1. ASSUME NEW t, NEW y PROVE UpTo(q, i + 1, t, y) <=> Speaks(q[1], t, y) \/ UpTo(r, i, t, y)
    <3>1. ASSUME NEW n \in 1..(i + 1), Speaks(q[n], t, y), n # 1 PROVE UpTo(r, i, t, y)
      <4>1. n - 1 \in 1..i /\ r[n - 1] = q[n]
        BY <1>1, <2>0, <3>1
      <4> QED
        BY <3>1, <4>1 DEF UpTo
    <3>2. ASSUME NEW n \in 1..i, Speaks(r[n], t, y) PROVE UpTo(q, i + 1, t, y)
      <4>1. n + 1 \in 1..(i + 1) /\ r[n] = q[n + 1]
        BY <1>1, <2>0
      <4> QED
        BY <3>2, <4>1 DEF UpTo
    <3>3. 1 \in 1..(i + 1)
      BY <2>0
    <3> QED
      BY <3>1, <3>2, <3>3 DEF UpTo
  <2>2. ASSUME NEW y \in Jobs, Speaks(q[1], "ready", y) PROVE ~UpTo(r, i, "request", y)
    <3>1. SUFFICES ASSUME NEW n \in 1..i, Speaks(r[n], "request", y) PROVE FALSE
      BY DEF UpTo
    <3>2. 1 \in 1..L /\ n + 1 \in 1..L /\ 1 < n + 1 /\ r[n] = q[n + 1]
      BY <1>1, <2>0
    <3>3. <<"ready", "request">> \in RelayPairs
      BY <2>2, <3>1, <3>2 DEF InOrder, L, FrameKinds, RelayKinds
    <3> QED
      BY <3>3 DEF RelayPairs
  <2>3. ASSUME NEW y \in KeptAfter(M, r, i) PROVE y \in KeptAfter(K, q, i + 1)
    <3>1. y \in Jobs /\ (y \in M \/ UpTo(r, i, "request", y)) /\ ~UpTo(r, i, "ready", y)
      BY DEF KeptAfter
    <3>2. ~Speaks(q[1], "ready", y)
      BY <1>1, <2>2, <3>1
    <3>3. (y \in K \/ UpTo(q, i + 1, "request", y)) /\ ~UpTo(q, i + 1, "ready", y)
      BY <1>1, <2>1, <3>1, <3>2
    <3> QED
      BY <3>1, <3>3 DEF KeptAfter
  <2>4. Cardinality(KeptAfter(K, q, i + 1)) <= Capacity
    BY <2>0 DEF WireRoom, L
  <2>5. Capacity \in Nat
    BY BridgeAssumption
  <2> QED
    BY <2>3, <2>4, <2>5, KeptJobs, FewerJobs
<1>3. WireRoom(M, r)
  BY <1>2 DEF WireRoom
<1> QED
  BY <1>3 DEF r

\* While the slots come before the requests, the first frame is no request, and the rest is as ordered
\* until the slots are taken.
LEMMA KeysTaken ==
    ASSUME NEW q \in Seq(RelayFrames), q # <<>>, KeysBefore(q)
    PROVE  /\ Head(q).type # "request"
           /\ Head(q).type # "keys_ready" => KeysBefore(Tail(q)) /\ (KeysComing(q) => KeysComing(Tail(q)))
<1> DEFINE L == Len(q)
           r == Tail(q)
<1>1. /\ L \in Nat /\ L >= 1 /\ Len(r) = L - 1 /\ \A i \in 1..(L - 1) : r[i] = q[i + 1]
      /\ Head(q) = q[1]
  BY EmptySeq, HeadTailProperties
<1> HIDE DEF L, r
<1>2. q[1].type # "request"
  <2>1. 1 \in 1..L /\ 1..(1 - 1) = {}
    BY <1>1
  <2> QED
    BY <2>1 DEF KeysBefore, L
<1>3. ASSUME q[1].type # "keys_ready", NEW i \in 1..L, NEW n \in 1..i, q[n].type = "keys_ready"
      PROVE  n - 1 \in 1..(i - 1) /\ r[n - 1] = q[n]
  BY <1>1, <1>3
<1>4. ASSUME q[1].type # "keys_ready", NEW i \in 1..Len(r), r[i].type = "request"
      PROVE  \E n \in 1..(i - 1) : r[n].type = "keys_ready"
  <2>1. i + 1 \in 1..L /\ q[i + 1].type = "request" /\ (i + 1) - 1 = i
    BY <1>1, <1>4
  <2>2. PICK n \in 1..i : q[n].type = "keys_ready"
    BY <2>1 DEF KeysBefore, L
  <2>3. i \in 1..L
    BY <1>1
  <2> QED
    BY <1>3, <1>4, <2>2, <2>3
<1>5. ASSUME q[1].type # "keys_ready", KeysComing(q) PROVE KeysComing(r)
  <2>1. PICK n \in 1..L : q[n].type = "keys_ready"
    BY <1>5 DEF KeysComing, L
  <2>2. n - 1 \in 1..Len(r) /\ r[n - 1] = q[n]
    BY <1>1, <1>5, <2>1
  <2> QED
    BY <2>1, <2>2 DEF KeysComing
<1> QED
  BY <1>1, <1>2, <1>4, <1>5 DEF KeysBefore, r

-----------------------------------------------------------------------------
(* The client's session. *)

\* A cancelled handler gives its slot back.
LEMMA SettledKeeps ==
    ASSUME BridgeInv, NEW x \in Jobs, RelaySettled(x)
    PROVE  BridgeInv'
<1>1. /\ BridgeTypeOK /\ LineOK /\ OrderOK /\ JobsOK /\ JobOK(x) /\ RoomOK /\ KeysFirst
      /\ relay = "on" /\ x \in settling /\ x \in kept /\ handler[x] = "over"
      /\ kept' = kept \ {x} /\ toEdge' = Append(toEdge, Packet("ready", x))
  BY DEF BridgeInv, JobsOK, RelaySettled
<1>2. /\ UNCHANGED <<job, seen, busy, got, wrote, handler, acks, settling, stopped, cancelled, cut, relay, socket>>
      /\ UNCHANGED <<line, toRelay, published, limit, conns, early, broken>>
  BY DEF RelaySettled, edgeVars
<1>3. /\ "ready" \notin Coming(toEdge, x) /\ Coming(toEdge, x) \subseteq EdgeKinds
      /\ toEdge \in Seq(EdgeFrames) /\ Packet("ready", x) \in EdgeFrames /\ "ready" \in FrameKinds
  <2>1. "ready" \notin Coming(toEdge, x)
    BY <1>1 DEF JobOK, JobFine, EdgeFine
  <2> QED
    BY <1>1, <2>1, KindsHeard DEF BridgeTypeOK, Packet, EdgeFrames, EdgeKinds, FrameKinds
<1>4. \A u \in Coming(toEdge, x) : <<u, "ready">> \in EdgePairs
  BY <1>3 DEF EdgePairs, EdgeKinds
<1>5. /\ toEdge' \in Seq(EdgeFrames) /\ Coming(toEdge', x) = Coming(toEdge, x) \cup {"ready"}
      /\ \A y : y # x => Coming(toEdge', y) = Coming(toEdge, y)
      /\ \A y \in Jobs : InOrder(toEdge, EdgePairs, y)
                            /\ (y = x => \A u \in Coming(toEdge, x) : <<u, "ready">> \in EdgePairs)
                         => InOrder(toEdge', EdgePairs, y)
  BY <1>1, <1>3, SendsPacket
<1>6. OrderOK'
  BY <1>1, <1>2, <1>4, <1>5 DEF OrderOK
<1>7. Heard(relay', toRelay', x) = Heard(relay, toRelay, x)
  BY <1>2
<1>8. JobOK(x)'
  <2>1. x \notin kept' /\ Coming(toEdge', x) = Coming(toEdge, x) \cup {"ready"}
    BY <1>1, <1>5
  <2> QED
    BY <1>1, <1>2, <1>3, <1>7, <2>1 DEF JobOK, JobFine, EarlyFine, HostFine, EdgeFine, DataFine
<1>9. \A y \in Jobs \ {x} : Same(y)
  BY <1>1, <1>2, <1>5 DEF Same
<1>10. JobsOK'
  BY <1>1, <1>8, <1>9, OneJob
<1>11. RoomOK'
  <2>1. kept' \subseteq kept /\ kept \subseteq Jobs /\ Capacity \in Nat
    BY <1>1, BridgeAssumption DEF BridgeTypeOK
  <2>2. WireRoom(kept', toRelay)
    BY <1>1, <2>1, FewerKept DEF RoomOK
  <2>3. Cardinality(kept') <= Capacity
    BY <1>1, <2>1, FewerJobs DEF RoomOK
  <2> QED
    BY <1>1, <1>2, <2>2, <2>3 DEF RoomOK, Active, EdgeRoom
<1>12. BridgeTypeOK' /\ LineOK' /\ KeysFirst'
  BY <1>1, <1>2, <1>5 DEF BridgeTypeOK, LineOK, LineFine, KeysFirst
<1> QED
  BY <1>6, <1>10, <1>11, <1>12 DEF BridgeInv

\* A snapshot of the keys is about no job.
LEMMA PublishesKeep ==
    ASSUME BridgeInv, RelayPublish
    PROVE  BridgeInv'
<1>1. BridgeTypeOK /\ OrderOK /\ JobsOK /\ toEdge' = Append(toEdge, Hello("keys"))
  BY DEF BridgeInv, RelayPublish, Snapshot
<1>2. /\ UNCHANGED <<job, seen, busy, got, wrote, handler, kept, acks, settling, stopped, cancelled, cut, relay, socket>>
      /\ UNCHANGED <<line, toRelay, published, limit, conns, early, broken>>
  BY DEF RelayPublish, edgeVars, relayVars
<1>3. LineOK' /\ RoomOK' /\ KeysFirst'
  BY <1>2, RoomStays
<1>4. toEdge \in Seq(EdgeFrames) /\ Hello("keys") \in EdgeFrames /\ "keys" \notin FrameKinds
  BY <1>1 DEF BridgeTypeOK, Hello, EdgeFrames, FrameKinds, RelayKinds, EdgeKinds
<1>5. /\ toEdge' \in Seq(EdgeFrames) /\ \A y : Coming(toEdge', y) = Coming(toEdge, y)
      /\ \A y : InOrder(toEdge, EdgePairs, y) => InOrder(toEdge', EdgePairs, y)
  BY <1>1, <1>4, SendsHello
<1>6. \A y \in Jobs : Same(y)
  BY <1>2, <1>5 DEF Same
<1>7. JobsOK'
  BY <1>1, <1>6, SameJob DEF JobsOK
<1> QED
  BY <1>1, <1>2, <1>3, <1>5, <1>7 DEF BridgeInv, BridgeTypeOK, OrderOK

\* The session ends, with or without a refusal.
LEMMA EndsKeeps ==
    ASSUME BridgeInv, relay = "on", RelayEnds, UNCHANGED <<edgeVars, cut, early>>,
           broken' \in BOOLEAN, broken' => broken \/ early
    PROVE  BridgeInv'
<1>1. /\ BridgeTypeOK /\ LineOK /\ OrderOK /\ JobsOK /\ RoomOK /\ KeysFirst
      /\ relay' = "ending" /\ stopped' = stopped \cup Running /\ toRelay' = <<>>
  BY DEF BridgeInv, RelayEnds
<1>2. PICK n \in 0..Len(toEdge) : toEdge' = Append(SubSeq(toEdge, 1, n), Hello("closed"))
  BY DEF RelayEnds
<1>3. /\ UNCHANGED <<job, seen, busy, got, wrote, handler, kept, acks, settling, cancelled, cut, socket>>
      /\ UNCHANGED <<line, published, limit, conns, early>>
  BY DEF RelayEnds, edgeVars
<1>4. /\ toEdge' \in Seq(EdgeFrames)
      /\ \A y : Coming(toEdge', y) \subseteq Coming(toEdge, y)
      /\ \A y \in Jobs : InOrder(toEdge', EdgePairs, y)
  <2>1. toEdge \in Seq(EdgeFrames) /\ Hello("closed") \in EdgeFrames /\ "closed" \notin FrameKinds
    BY <1>1 DEF BridgeTypeOK, Hello, EdgeFrames, FrameKinds, RelayKinds, EdgeKinds
  <2>2. /\ SubSeq(toEdge, 1, n) \in Seq(EdgeFrames)
        /\ \A y \in Jobs : InOrder(toEdge, EdgePairs, y) => InOrder(SubSeq(toEdge, 1, n), EdgePairs, y)
        /\ \A y : Coming(SubSeq(toEdge, 1, n), y) \subseteq Coming(toEdge, y)
    BY <2>1, CutFrames, CutComing
  <2>3. PICK q \in Seq(EdgeFrames) : q = SubSeq(toEdge, 1, n)
    BY <2>2
  <2>4. /\ toEdge' \in Seq(EdgeFrames) /\ \A y : Coming(toEdge', y) = Coming(q, y)
        /\ \A p, y : InOrder(q, p, y) => InOrder(toEdge', p, y)
    <3>1. toEdge' = Append(q, Hello("closed")) /\ q \in Seq(EdgeFrames)
      BY <1>2, <2>3
    <3> QED
      BY ONLY <2>1, <3>1, SendsHello
  <2> QED
    BY <1>1, <2>2, <2>3, <2>4 DEF OrderOK
<1>5. ASSUME NEW y \in Jobs PROVE JobOK(y)'
  <2>1. JobOK(y)
    BY <1>1 DEF JobsOK
  <2>2. /\ Heard(relay', toRelay', y) = {} /\ Coming(toEdge', y) \subseteq Coming(toEdge, y)
        /\ (y \in stopped' <=> y \in stopped \/ handler[y] \in {"work", "ack", "bad"})
    BY <1>1, <1>4 DEF Heard, Running
  <2> HIDE DEF Coming, Heard
  <2> QED
    BY <1>1, <1>3, <2>1, <2>2 DEF JobOK, JobFine, EarlyFine, HostFine, EdgeFine, DataFine
<1>6. BridgeTypeOK' /\ LineOK' /\ RoomOK' /\ KeysFirst' /\ OrderOK'
  <2>1. toRelay' \in Seq(RelayFrames)
    BY <1>1
  <2>2. BridgeTypeOK'
    BY <1>1, <1>3, <1>4, <2>1 DEF BridgeTypeOK
  <2>3. RoomOK'
    BY <1>1, <1>3 DEF RoomOK, Active, EdgeRoom
  <2> QED
    BY <1>1, <1>3, <1>4, <2>2, <2>3 DEF LineOK, LineFine, KeysFirst, OrderOK
<1> QED
  BY <1>5, <1>6 DEF BridgeInv, JobsOK

\* The session is over once no handler runs: all it kept is given up at once.
LEMMA JoinsKeep ==
    ASSUME BridgeInv, RelayJoins
    PROVE  BridgeInv'
<1>1. /\ BridgeTypeOK /\ LineOK /\ OrderOK /\ JobsOK /\ RoomOK /\ KeysFirst
      /\ relay = "ending" /\ relay' = "off" /\ Running = {} /\ kept' = {} /\ settling' = {} /\ acks' = {}
  BY DEF BridgeInv, RelayJoins
<1>2. /\ UNCHANGED <<job, seen, busy, got, wrote, handler, stopped, cancelled, cut, socket, toEdge, toRelay>>
      /\ UNCHANGED <<line, published, limit, conns, early, broken>>
  BY DEF RelayJoins, edgeVars
<1>3. ASSUME NEW y \in Jobs PROVE JobOK(y)'
  <2>1. JobOK(y)
    BY <1>1 DEF JobsOK
  <2>2. /\ Heard(relay', toRelay', y) = {} /\ Heard(relay, toRelay, y) = {}
        /\ handler[y] \notin {"work", "ack", "bad"} /\ Coming(toEdge', y) = Coming(toEdge, y)
    BY <1>1, <1>2 DEF Heard, Running
  <2> QED
    BY <1>1, <1>2, <2>1, <2>2 DEF JobOK, JobFine, EarlyFine, HostFine, EdgeFine, DataFine
<1>4. BridgeTypeOK'
  BY <1>1, <1>2 DEF BridgeTypeOK
<1>5. RoomOK'
  <2>1. Cardinality(kept') = 0 /\ Capacity \in Nat
    BY <1>1, FS_EmptySet, BridgeAssumption
  <2> QED
    BY <1>1, <1>2, <2>1 DEF RoomOK, Active, EdgeRoom
<1>6. LineOK' /\ KeysFirst' /\ OrderOK'
  BY <1>1, <1>2 DEF LineOK, LineFine, KeysFirst, OrderOK
<1> QED
  BY <1>3, <1>4, <1>5, <1>6 DEF BridgeInv, JobsOK

\* A job that is lost is neither in the line nor active any more.
LEMMA LostJobs ==
    ASSUME BridgeTypeOK, LineOK, NEW dropped, dropped = Active \cup ToSet(line)
    PROVE  /\ dropped \subseteq Jobs
           /\ \A y \in Jobs : y \in dropped <=> job[y] \in {"queued", "active"}
<1>1. line \in Seq(Jobs) /\ \A j \in Jobs : job[j] = "queued" <=> \E n \in 1..Len(line) : line[n] = j
  BY DEF BridgeTypeOK, LineOK, LineFine
<1>2. ToSet(line) = {line[n] : n \in 1..Len(line)}
  BY <1>1, LenProperties DEF ToSet
<1>3. \A n \in 1..Len(line) : line[n] \in Jobs
  BY <1>1, ElementOfSeq
<1> QED
  BY <1>1, <1>2, <1>3 DEF Active

\* A new connection drops every job of the one before, on both wires.
LEMMA ConnectKeeps ==
    ASSUME BridgeInv, RelayConnect
    PROVE  BridgeInv'
<1> DEFINE dropped == Active \cup ToSet(line)
<1>1. /\ BridgeTypeOK /\ LineOK /\ OrderOK /\ JobsOK /\ RoomOK /\ KeysFirst
      /\ relay = "off" /\ relay' = "on" /\ limit' = 0 /\ line' = <<>> /\ published' = 0
      /\ conns' = conns + 1 /\ socket' = conns + 1 /\ socket' # 0 /\ toRelay' = <<>> /\ toEdge' = <<Hello("keys")>>
  BY DEF BridgeInv, RelayConnect, Snapshot, BridgeTypeOK
<1>2. /\ UNCHANGED <<busy, got, wrote, handler, kept, acks, settling, stopped, cut, early, broken>>
      /\ job' = [j \in Jobs |-> IF j \in dropped THEN "gone" ELSE job[j]]
      /\ seen' = Spoiled(dropped) /\ cancelled' = cancelled \cup dropped
  BY DEF RelayConnect
<1>3. dropped \subseteq Jobs /\ \A y \in Jobs : y \in dropped <=> job[y] \in {"queued", "active"}
  BY <1>1, LostJobs
<1> HIDE DEF dropped
<1>4. /\ \A y : Coming(toEdge', y) = {} /\ Coming(toRelay', y) = {}
      /\ \A y, p : InOrder(toEdge', p, y) /\ InOrder(toRelay', p, y)
  <2>1. \A t \in FrameKinds : \A y : ~Speaks(Hello("keys"), t, y)
    BY DEF Speaks, Hello, FrameKinds, RelayKinds, EdgeKinds
  <2> QED
    BY <1>1, <2>1, OneFrame DEF Coming
<1>5. kept = {}
  BY <1>1 DEF RoomOK
<1>6. ASSUME NEW y \in Jobs PROVE JobOK(y)'
  <2>1. JobOK(y) /\ y \notin kept
    BY <1>1, <1>5 DEF JobsOK
  <2>2. /\ Heard(relay', toRelay', y) = {} /\ Coming(toEdge', y) = {} /\ Heard(relay, toRelay, y) = {}
        /\ job'[y] = IF y \in dropped THEN "gone" ELSE job[y]
        /\ seen'[y] = IF y \in dropped /\ seen[y] # "complete" THEN "failed" ELSE seen[y]
    BY <1>1, <1>2, <1>4 DEF Heard, Spoiled
  <2>3. y \in dropped <=> job[y] \in {"queued", "active"}
    BY <1>3
  <2> QED
    BY <1>1, <1>2, <2>1, <2>2, <2>3 DEF JobOK, JobFine, EarlyFine, HostFine, EdgeFine, DataFine
<1>7. BridgeTypeOK'
  <2>1. toEdge' \in Seq(EdgeFrames) /\ toRelay' \in Seq(RelayFrames) /\ line' \in Seq(Jobs)
    <3>1. Hello("keys") \in EdgeFrames
      BY DEF Hello, EdgeFrames
    <3> QED
      BY <1>1, <3>1
  <2>2. /\ job' \in [Jobs -> {"new", "reading", "queued", "active", "gone"}]
        /\ seen' \in [Jobs -> {"none", "open", "complete", "failed"}]
    BY <1>1, <1>2 DEF BridgeTypeOK, Spoiled
  <2> QED
    BY <1>1, <1>2, <2>1, <2>2 DEF BridgeTypeOK
<1>8. LineOK' /\ KeysFirst' /\ OrderOK'
  <2>1. Len(line') = 0 /\ Len(toRelay') = 0
    BY <1>1
  <2>2. LineOK'
    BY <1>1, <1>2, <1>3, <2>1 DEF LineOK, LineFine
  <2>3. KeysFirst'
    BY <1>1, <1>2, <2>1 DEF KeysFirst, KeysBefore
  <2> QED
    BY <1>4, <2>2, <2>3 DEF OrderOK
<1>9. RoomOK'
  <2>1. Active' = {}
    BY <1>2, <1>3 DEF Active
  <2>3. Cardinality({}) = 0 /\ Capacity \in Nat
    BY FS_EmptySet, BridgeAssumption
  <2>2. ASSUME NEW i \in 0..Len(toRelay') PROVE Cardinality(KeptAfter(kept', toRelay', i)) <= Capacity
    <3>1. KeptAfter(kept', toRelay', i) = {}
      BY <1>1, <1>2, <1>5 DEF KeptAfter, UpTo
    <3> QED
      BY <2>3, <3>1
  <2>4. WireRoom(kept', toRelay')
    BY <2>2 DEF WireRoom
  <2> QED
    BY <1>1, <1>2, <1>5, <2>1, <2>3, <2>4 DEF RoomOK, EdgeRoom
<1> QED
  BY <1>6, <1>7, <1>8, <1>9 DEF BridgeInv, JobsOK

\* What holds of any frame the client takes.
Took ==
    /\ relay = "on" /\ toRelay # <<>> /\ toRelay' = Tail(toRelay)
    /\ UNCHANGED <<relay, toEdge, conns, started, wrote, broken, edgeVars, cut, early>>

\* What the client knows when it has taken a frame: the order, the room and the jobs the frame is not
\* about.
LEMMA TookFrame ==
    ASSUME BridgeInv, Took, NEW f, f = Head(toRelay)
    PROVE  /\ toRelay \in Seq(RelayFrames) /\ toRelay' \in Seq(RelayFrames) /\ f \in RelayFrames
           /\ LineOK' /\ OrderOK' /\ Cardinality(Active') <= EdgeRoom'
           /\ \A y \in Jobs : Heard(relay, toRelay, y) = Coming(toRelay, y) /\ Heard(relay', toRelay', y) = Coming(toRelay', y)
           /\ \A y \in Jobs : ~(f.type \in FrameKinds /\ f.job = y) => Coming(toRelay', y) = Coming(toRelay, y)
           /\ \A y \in Jobs : f.type \in FrameKinds /\ f.job = y =>
                 /\ Coming(toRelay, y) = {f.type} \cup Coming(toRelay', y)
                 /\ \A u \in Coming(toRelay', y) : <<f.type, u>> \in RelayPairs
           /\ \A M : (\A y \in Jobs : /\ y \in M => y \in kept \/ Speaks(f, "request", y)
                                      /\ Speaks(f, "ready", y) => y \notin M)
                        => WireRoom(M, toRelay')
           /\ f.type # "keys_ready" /\ limit' = limit => KeysFirst'
<1>1. /\ toRelay \in Seq(RelayFrames) /\ toRelay # <<>> /\ toRelay' = Tail(toRelay) /\ relay = "on"
      /\ WireRoom(kept, toRelay) /\ \A y \in Jobs : InOrder(toRelay, RelayPairs, y)
  BY DEF BridgeInv, BridgeTypeOK, Took, RoomOK, OrderOK
<1>2. UNCHANGED <<relay, toEdge, job, line, socket, published, early, broken>>
  BY DEF Took, edgeVars
<1>3. /\ toRelay' \in Seq(RelayFrames) /\ f \in RelayFrames
      /\ \A y : ~(f.type \in FrameKinds /\ f.job = y) => Coming(toRelay', y) = Coming(toRelay, y)
      /\ \A y : f.type \in FrameKinds /\ f.job = y => Coming(toRelay, y) = {f.type} \cup Coming(toRelay', y)
      /\ \A pairs, y : InOrder(toRelay, pairs, y) =>
            /\ InOrder(toRelay', pairs, y)
            /\ f.type \in FrameKinds /\ f.job = y => \A u \in Coming(toRelay', y) : <<f.type, u>> \in pairs
  BY <1>1, TakesFrame
<1>4. LineOK' /\ OrderOK' /\ Cardinality(Active') <= EdgeRoom'
  BY <1>1, <1>2, <1>3 DEF BridgeInv, LineOK, LineFine, OrderOK, RoomOK, Active, EdgeRoom
<1>5. \A y \in Jobs : Heard(relay, toRelay, y) = Coming(toRelay, y) /\ Heard(relay', toRelay', y) = Coming(toRelay', y)
  BY <1>1, <1>2 DEF Heard
<1>6. ASSUME NEW M, \A y \in Jobs : /\ y \in M => y \in kept \/ Speaks(f, "request", y)
                                    /\ Speaks(f, "ready", y) => y \notin M
      PROVE  WireRoom(M, toRelay')
  BY <1>1, <1>6, RoomTakes
<1>7. ASSUME f.type # "keys_ready", limit' = limit PROVE KeysFirst'
  <2>1. KeysBefore(toRelay) => KeysBefore(toRelay') /\ (KeysComing(toRelay) => KeysComing(toRelay'))
    BY <1>1, <1>7, KeysTaken
  <2> QED
    BY <1>2, <1>7, <2>1 DEF BridgeInv, KeysFirst
<1> QED
  BY <1>1, <1>3, <1>4, <1>5, <1>6, <1>7

\* A request is taken.
LEMMA RequestTaken ==
    ASSUME BridgeInv, Took, NEW x \in Jobs, NEW f, f = Head(toRelay), f.type = "request", f.job = x,
           Cardinality(kept) < limit, x \notin kept, kept' = kept \cup {x},
           handler' = [handler EXCEPT ![x] = "work"], UNCHANGED <<limit, settling, stopped, acks>>
    PROVE  BridgeInv'
<1>1. BridgeTypeOK /\ JobsOK /\ JobOK(x) /\ RoomOK
  BY DEF BridgeInv, JobsOK
<1>2. UNCHANGED <<job, seen, busy, got, wrote, acks, settling, stopped, cancelled, cut, relay, socket,
                  line, published, toEdge, limit, conns, early, broken>>
  BY DEF Took, edgeVars
<1>3. /\ toRelay' \in Seq(RelayFrames) /\ LineOK' /\ OrderOK' /\ KeysFirst' /\ Cardinality(Active') <= EdgeRoom'
      /\ Heard(relay, toRelay, x) = Coming(toRelay, x) /\ Heard(relay', toRelay', x) = Coming(toRelay', x)
      /\ Coming(toRelay, x) = {"request"} \cup Coming(toRelay', x)
      /\ \A u \in Coming(toRelay', x) : <<"request", u>> \in RelayPairs
      /\ \A y \in Jobs \ {x} : Heard(relay', toRelay', y) = Heard(relay, toRelay, y)
      /\ WireRoom(kept', toRelay')
  <2>1. "request" \in FrameKinds
    BY DEF FrameKinds, RelayKinds
  <2>2. \A y \in Jobs : /\ y \in kept' => y \in kept \/ Speaks(f, "request", y)
                        /\ Speaks(f, "ready", y) => y \notin kept'
    BY DEF Speaks
  <2>3. f.type # "keys_ready" /\ limit' = limit
    OBVIOUS
  <2> QED
    BY <2>1, <2>2, <2>3, TookFrame
<1>4. "request" \notin Coming(toRelay', x)
  BY <1>3 DEF RelayPairs
<1>5. handler \in [Jobs -> {"none", "work", "ack", "bad", "over"}] /\ handler'[x] = "work" /\ x \in kept'
  BY <1>1 DEF BridgeTypeOK
<1>6. JobOK(x)'
  BY <1>1, <1>2, <1>3, <1>4, <1>5 DEF JobOK, JobFine, EarlyFine, HostFine, EdgeFine, DataFine
<1>7. \A y \in Jobs \ {x} : Same(y)
  BY <1>2, <1>3, <1>5 DEF Same
<1>8. JobsOK'
  BY <1>1, <1>6, <1>7, OneJob
<1>9. BridgeTypeOK'
  <2>1. handler' \in [Jobs -> {"none", "work", "ack", "bad", "over"}] /\ kept' \subseteq Jobs
    BY <1>1, <1>5 DEF BridgeTypeOK
  <2> QED
    BY <1>1, <1>2, <1>3, <2>1 DEF BridgeTypeOK
<1>10. RoomOK'
  <2>1. Cardinality(kept') = Cardinality(kept) + 1 /\ Cardinality(kept) \in Nat
    <3>1. IsFiniteSet(kept)
      BY <1>1, BridgeAssumption, FS_Subset DEF BridgeTypeOK
    <3> QED
      BY <3>1, FS_AddElement, FS_CardinalityType
  <2>2. Cardinality(kept') <= Capacity
    BY <1>1, <2>1, BridgeAssumption DEF BridgeTypeOK
  <2> QED
    BY <1>2, <1>3, <2>2 DEF RoomOK, Took
<1> QED
  BY <1>3, <1>8, <1>9, <1>10 DEF BridgeInv

\* An acknowledgement, a cancel, a ready or the slots: the client's books without the room.
LEMMA BooksKeep ==
    ASSUME BridgeInv, Took, NEW x \in Jobs, NEW f, f = Head(toRelay), f.type \in {"ack", "cancel", "ready"}, f.job = x,
           kept' \subseteq kept, f.type = "ready" => x \notin kept', UNCHANGED <<limit, handler>>, JobOK(x)',
           \A y \in Jobs \ {x} :
              /\ y \in kept' <=> y \in kept
              /\ y \in acks' <=> y \in acks
              /\ y \in settling' <=> y \in settling
              /\ y \in stopped' <=> y \in stopped
    PROVE  BridgeInv'
<1>1. BridgeTypeOK /\ JobsOK /\ RoomOK
  BY DEF BridgeInv
<1>2. UNCHANGED <<job, seen, busy, got, wrote, handler, cancelled, cut, relay, socket,
                  line, published, toEdge, limit, conns, early, broken>>
  BY DEF Took, edgeVars
<1>3. /\ toRelay' \in Seq(RelayFrames) /\ LineOK' /\ OrderOK' /\ KeysFirst' /\ Cardinality(Active') <= EdgeRoom'
      /\ \A y \in Jobs \ {x} : Heard(relay', toRelay', y) = Heard(relay, toRelay, y)
      /\ WireRoom(kept', toRelay')
  <2>2. \A y \in Jobs : /\ y \in kept' => y \in kept \/ Speaks(f, "request", y)
                        /\ Speaks(f, "ready", y) => y \notin kept'
    BY DEF Speaks
  <2>3. f.type # "keys_ready" /\ limit' = limit
    OBVIOUS
  <2> QED
    BY <2>2, <2>3, TookFrame
<1>4. \A y \in Jobs \ {x} : Same(y)
  BY <1>2, <1>3 DEF Same
<1>5. JobsOK'
  BY <1>1, <1>4, OneJob
<1>6. BridgeTypeOK'
  BY <1>1, <1>2, <1>3 DEF BridgeTypeOK
<1>7. RoomOK'
  <2>1. kept \subseteq Jobs /\ Capacity \in Nat
    BY <1>1, BridgeAssumption DEF BridgeTypeOK
  <2>2. Cardinality(kept') <= Capacity
    BY <1>1, <2>1, FewerJobs DEF RoomOK
  <2> QED
    BY <1>2, <1>3, <2>2 DEF RoomOK, Took
<1> QED
  BY <1>3, <1>5, <1>6, <1>7 DEF BridgeInv

\* The slots are taken.
LEMMA SlotsTaken ==
    ASSUME BridgeInv, Took, NEW f, f = Head(toRelay), f.type = "keys_ready", limit' = Capacity,
           UNCHANGED <<handler, kept, settling, stopped, acks>>
    PROVE  BridgeInv'
<1>1. BridgeTypeOK /\ JobsOK /\ RoomOK /\ KeysFirst /\ Capacity \in Nat /\ Capacity > 0
  BY BridgeAssumption DEF BridgeInv
<1>2. UNCHANGED <<job, seen, busy, got, wrote, handler, kept, acks, settling, stopped, cancelled, cut, relay, socket,
                  line, published, toEdge, conns, early, broken>>
  BY DEF Took, edgeVars
<1>3. /\ toRelay' \in Seq(RelayFrames) /\ LineOK' /\ OrderOK' /\ Cardinality(Active') <= EdgeRoom'
      /\ \A y \in Jobs : Heard(relay', toRelay', y) = Heard(relay, toRelay, y)
      /\ WireRoom(kept', toRelay')
  <2>1. f.type \notin FrameKinds
    BY DEF FrameKinds, RelayKinds, EdgeKinds
  <2>2. \A y \in Jobs : /\ y \in kept' => y \in kept \/ Speaks(f, "request", y)
                        /\ Speaks(f, "ready", y) => y \notin kept'
    BY DEF Speaks
  <2> QED
    BY <2>1, <2>2, TookFrame
<1>4. JobsOK'
  <2>1. \A y \in Jobs : Same(y)
    BY <1>2, <1>3 DEF Same
  <2> QED
    BY <1>1, <2>1, SameJob DEF JobsOK
<1>5. KeysFirst'
  BY <1>1, <1>2 DEF KeysFirst
<1>6. RoomOK'
  BY <1>1, <1>2, <1>3 DEF RoomOK, Took
<1>7. BridgeTypeOK'
  BY <1>1, <1>2, <1>3 DEF BridgeTypeOK
<1> QED
  BY <1>3, <1>4, <1>5, <1>6, <1>7 DEF BridgeInv

\* A frame about a job finds it as it should be.
LEMMA FrameFits ==
    ASSUME BridgeInv, relay = "on", toRelay # <<>>, NEW x \in Jobs, NEW f, f = Head(toRelay), f.job = x,
           f.type \in RelayKinds
    PROVE  /\ f.type = "request" => x \notin kept /\ (~early => limit > 0 /\ Cardinality(kept) < limit)
           /\ f.type = "ack" => x \in kept /\ x \notin acks
           /\ f.type = "cancel" => x \in kept
           /\ f.type = "ready" => x \in kept \ settling
<1>1. /\ BridgeTypeOK /\ JobOK(x) /\ RoomOK /\ KeysFirst /\ Capacity \in Nat /\ Capacity > 0
      /\ toRelay \in Seq(RelayFrames) /\ InOrder(toRelay, RelayPairs, x) /\ f.type \in FrameKinds
      /\ Heard(relay, toRelay, x) = Coming(toRelay, x)
  BY BridgeAssumption DEF BridgeInv, JobsOK, BridgeTypeOK, OrderOK, FrameKinds, Heard
<1>2. /\ Coming(toRelay, x) = {f.type} \cup Coming(Tail(toRelay), x)
      /\ \A u \in Coming(Tail(toRelay), x) : <<f.type, u>> \in RelayPairs
  BY <1>1, TakesFrame
<1>3. ASSUME f.type = "request", ~early PROVE limit > 0 /\ Cardinality(kept) < limit
  <2>1. limit = Capacity
    <3>1. ~KeysBefore(toRelay)
      BY <1>1, <1>3, KeysTaken
    <3> QED
      BY <1>1, <1>3, <3>1 DEF KeysFirst, BridgeTypeOK
  <2>2. x \notin kept
    BY <1>1, <1>2, <1>3 DEF JobOK, JobFine, EarlyFine, HostFine
  <2>3. kept \cup {x} \subseteq KeptAfter(kept, toRelay, 1)
    <3>1. toRelay[1] = f /\ 1..1 = {1}
      BY <1>1, HeadTailProperties
    <3>2. \A y : ~UpTo(toRelay, 1, "ready", y)
      BY <1>3, <3>1 DEF UpTo, Speaks
    <3>3. UpTo(toRelay, 1, "request", x)
      BY <1>3, <3>1 DEF UpTo, Speaks
    <3> QED
      BY <1>1, <3>2, <3>3 DEF KeptAfter, BridgeTypeOK
  <2>4. Cardinality(KeptAfter(kept, toRelay, 1)) <= Capacity
    <3>1. 1 \in 0..Len(toRelay)
      BY <1>1, EmptySeq, LenProperties
    <3> QED
      BY <1>1, <3>1 DEF RoomOK, WireRoom
  <2>5. Cardinality(kept \cup {x}) = Cardinality(kept) + 1 /\ Cardinality(kept) \in Nat
    <3>1. IsFiniteSet(kept)
      BY <1>1, BridgeAssumption, FS_Subset DEF BridgeTypeOK
    <3> QED
      BY <2>2, <3>1, FS_AddElement, FS_CardinalityType
  <2> QED
    BY <1>1, <2>1, <2>3, <2>4, <2>5, KeptJobs, FewerJobs
<1>4. f.type = "request" => x \notin kept
  BY <1>1, <1>2 DEF JobOK, JobFine, EarlyFine, HostFine
<1>5. f.type # "request" => "request" \notin Coming(toRelay, x)
  BY <1>2 DEF RelayPairs
<1>6. f.type \in {"ack", "cancel", "ready"} => x \in kept /\ x \notin settling
  BY <1>1, <1>2, <1>5 DEF JobOK, JobFine, HostFine
<1>7. f.type = "ack" => x \notin acks
  BY <1>1, <1>2 DEF JobOK, JobFine, DataFine
<1> QED
  BY <1>3, <1>4, <1>6, <1>7

\* The client takes a frame: it is refused only when it was a request that came early.
LEMMA HearsKeeps ==
    ASSUME BridgeInv, RelayHears
    PROVE  BridgeInv'
<1>0. PICK f, x : f = Head(toRelay) /\ x = f.job
  OBVIOUS
<1> DEFINE Takes == toRelay' = Tail(toRelay) /\ UNCHANGED <<relay, toEdge, conns, started, wrote, broken>>
           Refuses == RelayEnds /\ broken' = TRUE
<1>1. /\ BridgeTypeOK /\ JobsOK /\ relay = "on" /\ toRelay # <<>> /\ UNCHANGED <<edgeVars, cut, early>>
      /\ toRelay \in Seq(RelayFrames) /\ f \in RelayFrames
  BY <1>0, HeadTailProperties DEF BridgeInv, BridgeTypeOK, RelayHears
<1>2. ASSUME Takes PROVE Took
  BY <1>1, <1>2 DEF Took, edgeVars
<1>3. f.type \in {"closed", "keys_ready"} \/ (f.type \in RelayKinds /\ x \in Jobs)
  BY <1>0, <1>1 DEF RelayFrames
<1>4. CASE f.type = "closed"
  <2>1. RelayEnds /\ broken' = broken
    BY <1>0, <1>4 DEF RelayHears
  <2> QED
    BY <1>1, <2>1, EndsKeeps DEF BridgeTypeOK
<1>5. CASE f.type = "keys_ready"
  <2>1. limit' = Capacity /\ Takes /\ UNCHANGED <<handler, kept, settling, stopped, acks>>
    BY <1>0, <1>5 DEF RelayHears
  <2> QED
    BY <1>0, <1>2, <1>5, <2>1, SlotsTaken
<1>6. CASE f.type = "request" /\ x \in Jobs
  <2>1. /\ x \notin kept /\ (~early => limit > 0 /\ Cardinality(kept) < limit)
    BY <1>0, <1>1, <1>6, FrameFits DEF RelayKinds
  <2>2. \/ /\ Cardinality(kept) < limit
           /\ kept' = kept \cup {x} /\ handler' = [handler EXCEPT ![x] = "work"]
           /\ Takes /\ UNCHANGED <<limit, settling, stopped, acks>>
        \/ early /\ Refuses
    BY <1>0, <1>6, <2>1 DEF RelayHears
  <2>3. CASE early /\ Refuses
    BY <1>1, <2>3, EndsKeeps
  <2>4. CASE ~(early /\ Refuses)
    BY <1>0, <1>2, <1>6, <2>1, <2>2, <2>4, RequestTaken
  <2> QED
    BY <2>3, <2>4
<1>7. CASE f.type \in {"ack", "cancel", "ready"} /\ x \in Jobs
  <2>1. /\ f.type = "ack" => x \in kept /\ x \notin acks
        /\ f.type = "cancel" => x \in kept
        /\ f.type = "ready" => x \in kept \ settling
    BY <1>0, <1>1, <1>7, FrameFits DEF RelayKinds
  <2>2. /\ Takes /\ UNCHANGED <<limit, handler>>
        /\ \/ /\ f.type = "ack" /\ acks' = acks \cup {x} /\ UNCHANGED <<kept, settling, stopped>>
           \/ /\ f.type = "cancel" /\ settling' = settling \cup {x} /\ stopped' = stopped \cup {x} /\ UNCHANGED <<kept, acks>>
           \/ /\ f.type = "ready" /\ kept' = kept \ {x} /\ UNCHANGED <<settling, stopped, acks>>
    <3>1. CASE f.type = "ack"
      BY <1>0, <2>1, <3>1 DEF RelayHears
    <3>2. CASE f.type = "cancel"
      BY <1>0, <2>1, <3>2 DEF RelayHears
    <3>3. CASE f.type = "ready"
      BY <1>0, <2>1, <3>3 DEF RelayHears
    <3> QED
      BY <1>7, <3>1, <3>2, <3>3
  <2>3. Took
    BY <1>2, <2>2
  <2>4. /\ Heard(relay, toRelay, x) = Coming(toRelay, x) /\ Heard(relay', toRelay', x) = Coming(toRelay', x)
        /\ Coming(toRelay, x) = {f.type} \cup Coming(toRelay', x)
        /\ \A u \in Coming(toRelay', x) : <<f.type, u>> \in RelayPairs
    BY <1>0, <1>7, <2>3, TookFrame DEF FrameKinds, RelayKinds
  <2>5. UNCHANGED <<job, seen, busy, got, wrote, handler, cancelled, cut, relay, socket, toEdge>>
    BY <2>2, <2>3 DEF Took, edgeVars
  <2>6. JobOK(x) /\ f.type \in Coming(toRelay, x)
    BY <1>1, <1>7, <2>4 DEF JobsOK
  <2> DEFINE E == Coming(toEdge, x)
             R == Coming(toRelay, x)
             S == Coming(toRelay', x)
  <2>7. /\ R = {f.type} \cup S /\ \A u \in S : <<f.type, u>> \in RelayPairs
        /\ JobFine(job[x], seen[x], busy[x], got[x], wrote[x], handler[x], E, R, "on", socket, x \in kept, x \in acks,
                   x \in settling, x \in stopped, x \in cancelled, x \in cut)
        /\ JobOK(x)' <=>
              JobFine(job[x], seen[x], busy[x], got[x], wrote[x], handler[x], E, S, "on", socket, x \in kept', x \in acks',
                      x \in settling', x \in stopped', x \in cancelled, x \in cut)
    BY <1>1, <2>4, <2>5, <2>6 DEF JobOK
  <2> HIDE DEF E, R, S
  <2>8. JobOK(x)'
    <3>1. CASE f.type = "ack" /\ acks' = acks \cup {x} /\ UNCHANGED <<kept, settling, stopped>>
      <4>1. "ack" \notin S /\ "request" \notin S /\ x \in acks'
        BY <2>7, <3>1 DEF RelayPairs
      <4> QED
        BY <2>1, <2>7, <3>1, <4>1 DEF JobFine, EarlyFine, HostFine, EdgeFine, DataFine
    <3>2. CASE f.type = "cancel" /\ settling' = settling \cup {x} /\ stopped' = stopped \cup {x} /\ UNCHANGED <<kept, acks>>
      <4>1. S = {} /\ x \in settling' /\ x \in stopped'
        BY <2>7, <3>2 DEF RelayPairs
      <4> QED
        BY <2>1, <2>7, <3>2, <4>1 DEF JobFine, EarlyFine, HostFine, EdgeFine, DataFine
    <3>3. CASE f.type = "ready" /\ kept' = kept \ {x} /\ UNCHANGED <<settling, stopped, acks>>
      <4>1. S = {} /\ x \notin kept'
        BY <2>7, <3>3 DEF RelayPairs
      <4> QED
        BY <2>1, <2>7, <3>3, <4>1 DEF JobFine, EarlyFine, HostFine, EdgeFine, DataFine
    <3> QED
      BY <2>2, <3>1, <3>2, <3>3
  <2>9. /\ kept' \subseteq kept /\ (f.type = "ready" => x \notin kept')
        /\ \A y \in Jobs \ {x} :
              /\ y \in kept' <=> y \in kept
              /\ y \in acks' <=> y \in acks
              /\ y \in settling' <=> y \in settling
              /\ y \in stopped' <=> y \in stopped
    BY <2>2
  <2> QED
    BY <1>0, <1>7, <2>2, <2>3, <2>8, <2>9, BooksKeep
<1> QED
  BY <1>3, <1>4, <1>5, <1>6, <1>7 DEF RelayKinds

-----------------------------------------------------------------------------
(* The object. *)

\* A job that is being read is at neither end.
LEMMA AdmitKeeps ==
    ASSUME BridgeInv, NEW x \in Jobs, EdgeAdmit(x)
    PROVE  BridgeInv'
<1>1. /\ BridgeTypeOK /\ LineOK /\ JobsOK /\ JobOK(x) /\ OrderOK /\ RoomOK /\ KeysFirst
      /\ job \in [Jobs -> {"new", "reading", "queued", "active", "gone"}]
      /\ job[x] = "new" /\ job' = [job EXCEPT ![x] = "reading"]
  BY DEF BridgeInv, JobsOK, EdgeAdmit, BridgeTypeOK
<1>2. UNCHANGED <<seen, busy, got, wrote, handler, kept, acks, settling, stopped, cancelled, cut, relay, socket,
                  line, published, toEdge, toRelay, limit, conns, early, broken>>
  BY DEF EdgeAdmit, relayVars
<1>3. /\ job'[x] = "reading" /\ \A y \in Jobs \ {x} : job'[y] = job[y]
      /\ Heard(relay', toRelay', x) = Heard(relay, toRelay, x)
  BY <1>1, <1>2
<1>4. JobOK(x)'
  BY <1>1, <1>2, <1>3 DEF JobOK, JobFine, EarlyFine, HostFine, EdgeFine, DataFine
<1>5. \A y \in Jobs \ {x} : Same(y)
  BY <1>2, <1>3 DEF Same
<1>6. JobsOK'
  BY <1>1, <1>4, <1>5, OneJob
<1>7. \A y \in Jobs : (job'[y] = "queued" <=> job[y] = "queued") /\ (job'[y] = "active" <=> job[y] = "active")
  BY <1>1, <1>3
<1>8. LineOK' /\ RoomOK' /\ BridgeTypeOK'
  <2>1. Active' = Active
    BY <1>7 DEF Active
  <2>2. LineOK'
    BY <1>1, <1>2, <1>7 DEF LineOK, LineFine
  <2>3. RoomOK'
    BY <1>1, <1>2, <2>1 DEF RoomOK, EdgeRoom
  <2>4. job' \in [Jobs -> {"new", "reading", "queued", "active", "gone"}]
    BY <1>1
  <2>5. BridgeTypeOK'
    BY <1>1, <1>2, <2>4 DEF BridgeTypeOK
  <2> QED
    BY <2>2, <2>3, <2>5
<1>9. OrderOK' /\ KeysFirst'
  BY <1>1, <1>2 DEF OrderOK, KeysFirst
<1> QED
  BY <1>6, <1>8, <1>9 DEF BridgeInv

\* The host's frames as they were, or without the first.
Quieter ==
    /\ toEdge' \in Seq(EdgeFrames)
    /\ \A y \in Jobs : Coming(toEdge', y) \subseteq Coming(toEdge, y) /\ InOrder(toEdge', EdgePairs, y)

\* The object is done with the host's socket.
LEMMA DisconnectKeeps ==
    ASSUME BridgeInv, EdgeDisconnect, Quieter, UNCHANGED <<busy, got, relayVars, cut, broken>>
    PROVE  BridgeInv'
<1> DEFINE dropped == Active \cup ToSet(line)
<1>1. /\ BridgeTypeOK /\ LineOK /\ OrderOK /\ JobsOK /\ RoomOK /\ KeysFirst
      /\ socket' = 0 /\ published' = 0 /\ line' = <<>> /\ toRelay' = Append(toRelay, Hello("closed"))
  BY DEF BridgeInv, EdgeDisconnect
<1>2. /\ UNCHANGED <<busy, got, wrote, handler, kept, acks, settling, stopped, cut, relay, limit, conns, early, broken>>
      /\ job' = [j \in Jobs |-> IF j \in dropped THEN "gone" ELSE job[j]]
      /\ seen' = Spoiled(dropped) /\ cancelled' = cancelled \cup dropped
  BY DEF EdgeDisconnect, relayVars
<1>3. dropped \subseteq Jobs /\ \A y \in Jobs : y \in dropped <=> job[y] \in {"queued", "active"}
  BY <1>1, LostJobs
<1> HIDE DEF dropped
<1>4. /\ toRelay \in Seq(RelayFrames) /\ Hello("closed") \in RelayFrames
      /\ "closed" \notin FrameKinds /\ Hello("closed").type = "closed"
  BY <1>1 DEF BridgeTypeOK, Hello, RelayFrames, FrameKinds, RelayKinds, EdgeKinds
<1>5. /\ toRelay' \in Seq(RelayFrames) /\ \A y : Coming(toRelay', y) = Coming(toRelay, y)
      /\ \A y : InOrder(toRelay, RelayPairs, y) => InOrder(toRelay', RelayPairs, y)
  BY <1>1, <1>4, SendsHello
<1>6. ASSUME NEW y \in Jobs PROVE JobOK(y)'
  <2>1. JobOK(y) /\ Coming(toEdge', y) \subseteq Coming(toEdge, y)
    BY <1>1 DEF JobsOK, Quieter
  <2>2. /\ Heard(relay', toRelay', y) = Heard(relay, toRelay, y)
        /\ job'[y] = IF y \in dropped THEN "gone" ELSE job[y]
        /\ seen'[y] = IF y \in dropped /\ seen[y] # "complete" THEN "failed" ELSE seen[y]
    BY <1>1, <1>2, <1>5 DEF Heard, Spoiled
  <2>3. y \in dropped <=> job[y] \in {"queued", "active"}
    BY <1>3
  <2> QED
    BY <1>1, <1>2, <2>1, <2>2, <2>3 DEF JobOK, JobFine, EarlyFine, HostFine, EdgeFine, DataFine
<1>7. BridgeTypeOK'
  <2>1. line' \in Seq(Jobs)
    BY <1>1
  <2>2. /\ job' \in [Jobs -> {"new", "reading", "queued", "active", "gone"}]
        /\ seen' \in [Jobs -> {"none", "open", "complete", "failed"}]
    BY <1>1, <1>2 DEF BridgeTypeOK, Spoiled
  <2> QED
    BY <1>1, <1>2, <1>5, <2>1, <2>2 DEF BridgeTypeOK, Quieter
<1>8. LineOK' /\ KeysFirst' /\ OrderOK'
  <2>1. Len(line') = 0
    BY <1>1
  <2>2. LineOK'
    BY <1>1, <1>2, <1>3, <2>1 DEF LineOK, LineFine
  <2>3. KeysBefore(toRelay) => KeysBefore(toRelay')
    BY <1>1, <1>4, KeysSent
  <2>4. KeysFirst'
    BY <1>1, <1>2, <2>3 DEF KeysFirst
  <2> QED
    BY <1>1, <1>2, <1>5, <2>2, <2>4 DEF OrderOK, Quieter
<1>9. RoomOK'
  <2>1. Active' = {}
    BY <1>2, <1>3 DEF Active
  <2>2. WireRoom(kept, toRelay) => WireRoom(kept, toRelay')
    BY <1>1, <1>4, RoomSends
  <2>3. Cardinality({}) = 0
    BY FS_EmptySet
  <2> QED
    BY <1>1, <1>2, <2>1, <2>2, <2>3 DEF RoomOK, EdgeRoom
<1> QED
  BY <1>6, <1>7, <1>8, <1>9 DEF BridgeInv, JobsOK

\* What the wire to the client is when the object has sent one more frame about x that is no request.
LEMMA EdgeSends ==
    ASSUME BridgeInv, NEW x \in Jobs, NEW t \in {"ack", "cancel", "ready"},
           relay = "on" => \A u \in Coming(toRelay, x) : <<u, t>> \in RelayPairs
    PROVE  \E q \in Seq(RelayFrames) :
              /\ q = Append(toRelay, Packet(t, x))
              /\ Coming(q, x) = Coming(toRelay, x) \cup {t}
              /\ \A y : y # x => Coming(q, y) = Coming(toRelay, y)
              /\ relay = "on" => (\A y \in Jobs : InOrder(q, RelayPairs, y)) /\ WireRoom(kept, q)
              /\ (KeysBefore(toRelay) => KeysBefore(q)) /\ (KeysComing(toRelay) => KeysComing(q))
<1> DEFINE q == Append(toRelay, Packet(t, x))
<1>1. /\ toRelay \in Seq(RelayFrames) /\ Packet(t, x) \in RelayFrames /\ t \in FrameKinds /\ Packet(t, x).type # "request"
      /\ relay = "on" => (\A y \in Jobs : InOrder(toRelay, RelayPairs, y)) /\ WireRoom(kept, toRelay)
  BY DEF BridgeInv, BridgeTypeOK, Packet, RelayFrames, FrameKinds, RelayKinds, OrderOK, RoomOK
<1>2. /\ q \in Seq(RelayFrames) /\ Coming(q, x) = Coming(toRelay, x) \cup {t}
      /\ \A y : y # x => Coming(q, y) = Coming(toRelay, y)
      /\ \A y \in Jobs : InOrder(toRelay, RelayPairs, y) /\ (y = x => \A u \in Coming(toRelay, x) : <<u, t>> \in RelayPairs)
                            => InOrder(q, RelayPairs, y)
  BY <1>1, SendsPacket
<1>3. relay = "on" => WireRoom(kept, q)
  BY <1>1, RoomSends
<1>4. (KeysBefore(toRelay) => KeysBefore(q)) /\ (KeysComing(toRelay) => KeysComing(q))
  BY <1>1, KeysSent
<1> QED
  BY <1>1, <1>2, <1>3, <1>4

\* The writer has given its client a chunk.
LEMMA WroteKeeps ==
    ASSUME BridgeInv, NEW x \in Jobs, EdgeWrote(x)
    PROVE  BridgeInv'
<1> DEFINE live == job[x] = "active" /\ x \notin cancelled
<1>1. /\ BridgeTypeOK /\ LineOK /\ JobsOK /\ JobOK(x) /\ OrderOK /\ RoomOK /\ KeysFirst
      /\ busy \in [Jobs -> {"free", "write", "close"}] /\ got \in [Jobs -> Nat] /\ toRelay \in Seq(RelayFrames)
      /\ busy[x] = "write" /\ busy' = [busy EXCEPT ![x] = "free"]
      /\ got' = (IF live THEN [got EXCEPT ![x] = @ + 1] ELSE got)
      /\ toRelay' = IF live THEN Append(toRelay, Packet("ack", x)) ELSE toRelay
  BY DEF BridgeInv, JobsOK, EdgeWrote, BridgeTypeOK
<1>2. UNCHANGED <<job, seen, wrote, handler, kept, acks, settling, stopped, cancelled, cut, relay, socket,
                  line, published, toEdge, limit, conns, early, broken>>
  BY DEF EdgeWrote, relayVars
<1>3. ASSUME live, relay = "on" PROVE Coming(toRelay, x) \subseteq {"request"}
  <2>1. Coming(toRelay, x) \subseteq RelayKinds
    BY <1>1, KindsHeard
  <2>2. Heard(relay, toRelay, x) = Coming(toRelay, x)
    BY <1>3 DEF Heard
  <2>3. "ack" \notin Coming(toRelay, x) /\ "cancel" \notin Coming(toRelay, x) /\ "ready" \notin Coming(toRelay, x)
    BY <1>1, <1>3, <2>2 DEF JobOK, JobFine, HostFine, DataFine
  <2> QED
    BY <2>1, <2>3 DEF RelayKinds
<1>4. /\ toRelay' \in Seq(RelayFrames) /\ Coming(toRelay', x) = Coming(toRelay, x) \cup (IF live THEN {"ack"} ELSE {})
      /\ \A y : y # x => Coming(toRelay', y) = Coming(toRelay, y)
      /\ relay = "on" => (\A y \in Jobs : InOrder(toRelay', RelayPairs, y)) /\ WireRoom(kept, toRelay')
      /\ (KeysBefore(toRelay) => KeysBefore(toRelay')) /\ (KeysComing(toRelay) => KeysComing(toRelay'))
  <2>1. CASE live
    <3>1. <<"request", "ack">> \in RelayPairs
      BY DEF RelayPairs
    <3>2. relay = "on" => \A u \in Coming(toRelay, x) : <<u, "ack">> \in RelayPairs
      BY <1>3, <2>1, <3>1
    <3>3. toRelay' = Append(toRelay, Packet("ack", x))
      BY <1>1, <2>1
    <3>4. /\ toRelay' \in Seq(RelayFrames) /\ Coming(toRelay', x) = Coming(toRelay, x) \cup {"ack"}
          /\ \A y : y # x => Coming(toRelay', y) = Coming(toRelay, y)
          /\ relay = "on" => (\A y \in Jobs : InOrder(toRelay', RelayPairs, y)) /\ WireRoom(kept, toRelay')
          /\ (KeysBefore(toRelay) => KeysBefore(toRelay')) /\ (KeysComing(toRelay) => KeysComing(toRelay'))
      <4>1. PICK q \in Seq(RelayFrames) :
              /\ q = Append(toRelay, Packet("ack", x))
              /\ Coming(q, x) = Coming(toRelay, x) \cup {"ack"}
              /\ \A y : y # x => Coming(q, y) = Coming(toRelay, y)
              /\ relay = "on" => (\A y \in Jobs : InOrder(q, RelayPairs, y)) /\ WireRoom(kept, q)
              /\ (KeysBefore(toRelay) => KeysBefore(q)) /\ (KeysComing(toRelay) => KeysComing(q))
        BY <3>2, EdgeSends
      <4> QED
        BY <3>3, <4>1
    <3> QED
      BY <2>1, <3>4
  <2>2. CASE ~live
    BY <1>1, <2>2 DEF OrderOK, RoomOK
  <2> QED
    BY <2>1, <2>2
<1>5. /\ busy'[x] = "free" /\ got'[x] = (IF live THEN got[x] + 1 ELSE got[x]) /\ got[x] \in Nat
      /\ \A y \in Jobs \ {x} : busy'[y] = busy[y] /\ got'[y] = got[y]
  BY <1>1
<1>6. JobOK(x)'
  <2>1. CASE live
    <3>1. Heard(relay', toRelay', x) = IF relay = "on" THEN Heard(relay, toRelay, x) \cup {"ack"} ELSE {}
      BY <1>2, <1>4, <2>1 DEF Heard
    <3>2. relay # "on" => Heard(relay, toRelay, x) = {}
      BY DEF Heard
    <3>3. job[x] = "active" /\ x \notin cancelled /\ got'[x] = got[x] + 1 /\ got[x] \in Nat
      BY <1>5, <2>1
    <3>4. relay = "on" => Heard(relay, toRelay, x) \subseteq {"request"}
      BY <1>3, <2>1 DEF Heard
    <3> HIDE DEF live
    <3> QED
      BY <1>1, <1>2, <1>5, <3>1, <3>2, <3>3, <3>4 DEF JobOK, JobFine, EarlyFine, HostFine, EdgeFine, DataFine
  <2>2. CASE ~live
    <3>1. Heard(relay', toRelay', x) = Heard(relay, toRelay, x) /\ got'[x] = got[x]
      BY <1>1, <1>2, <1>5, <2>2
    <3> QED
      BY <1>1, <1>2, <1>5, <2>2, <3>1 DEF JobOK, JobFine, EarlyFine, HostFine, EdgeFine, DataFine
  <2> QED
    BY <2>1, <2>2
<1>7. \A y \in Jobs \ {x} : Same(y)
  BY <1>2, <1>4, <1>5 DEF Same, Heard
<1>8. JobsOK'
  BY <1>1, <1>6, <1>7, OneJob
<1>9. BridgeTypeOK'
  <2>1. busy' \in [Jobs -> {"free", "write", "close"}]
    BY <1>1
  <2>2. got' \in [Jobs -> Nat]
    BY <1>1
  <2> QED
    BY <1>1, <1>2, <1>4, <2>1, <2>2 DEF BridgeTypeOK
<1>10. LineOK' /\ RoomOK' /\ OrderOK' /\ KeysFirst'
  BY <1>1, <1>2, <1>4 DEF LineOK, LineFine, RoomOK, Active, EdgeRoom, OrderOK, KeysFirst
<1> QED
  BY <1>8, <1>9, <1>10 DEF BridgeInv

\* The object gives up an active job: its host is told.
LEMMA GivesUpKeeps ==
    ASSUME BridgeInv, NEW x \in Jobs, job[x] = "active", EdgeFail(x), Quieter,
           \A y \in Jobs \ {x} : Coming(toEdge', y) = Coming(toEdge, y),
           "ready" \in Coming(toEdge, x) => "ready" \in Coming(toEdge', x),
           UNCHANGED <<busy, got, relayVars, cut, broken>>
    PROVE  BridgeInv'
<1>1. /\ BridgeTypeOK /\ LineOK /\ JobsOK /\ JobOK(x) /\ OrderOK /\ RoomOK /\ KeysFirst
      /\ x \notin cancelled /\ cancelled' = cancelled \cup {x} /\ seen' = Spoiled({x})
      /\ toRelay' = Append(toRelay, Packet("cancel", x))
  BY DEF BridgeInv, JobsOK, EdgeFail
<1>2. UNCHANGED <<job, busy, got, wrote, handler, kept, acks, settling, stopped, cut, relay, socket,
                  line, published, limit, conns, early, broken>>
  BY DEF EdgeFail, relayVars
<1>3. ASSUME relay = "on" PROVE Coming(toRelay, x) \subseteq {"request", "ack"}
  <2>1. Coming(toRelay, x) \subseteq RelayKinds
    BY <1>1, KindsHeard
  <2>2. Heard(relay, toRelay, x) = Coming(toRelay, x)
    BY <1>3 DEF Heard
  <2>3. "cancel" \notin Coming(toRelay, x) /\ "ready" \notin Coming(toRelay, x)
    BY <1>1, <1>3, <2>2 DEF JobOK, JobFine, HostFine
  <2> QED
    BY <2>1, <2>3 DEF RelayKinds
<1>4. /\ toRelay' \in Seq(RelayFrames) /\ Coming(toRelay', x) = Coming(toRelay, x) \cup {"cancel"}
      /\ \A y : y # x => Coming(toRelay', y) = Coming(toRelay, y)
      /\ relay = "on" => (\A y \in Jobs : InOrder(toRelay', RelayPairs, y)) /\ WireRoom(kept, toRelay')
      /\ (KeysBefore(toRelay) => KeysBefore(toRelay')) /\ (KeysComing(toRelay) => KeysComing(toRelay'))
  <2>1. \A u \in {"request", "ack"} : <<u, "cancel">> \in RelayPairs
    BY DEF RelayPairs
  <2>2. relay = "on" => \A u \in Coming(toRelay, x) : <<u, "cancel">> \in RelayPairs
    BY <1>3, <2>1
  <2>3. PICK q \in Seq(RelayFrames) :
          /\ q = Append(toRelay, Packet("cancel", x))
          /\ Coming(q, x) = Coming(toRelay, x) \cup {"cancel"}
          /\ \A y : y # x => Coming(q, y) = Coming(toRelay, y)
          /\ relay = "on" => (\A y \in Jobs : InOrder(q, RelayPairs, y)) /\ WireRoom(kept, q)
          /\ (KeysBefore(toRelay) => KeysBefore(q)) /\ (KeysComing(toRelay) => KeysComing(q))
    BY <2>2, EdgeSends
  <2> QED
    BY <1>1, <2>3
<1>5. /\ seen[x] # "complete" /\ seen'[x] = "failed" /\ x \in cancelled'
      /\ \A y \in Jobs \ {x} : seen'[y] = seen[y]
      /\ seen' \in [Jobs -> {"none", "open", "complete", "failed"}]
  <2>1. seen[x] # "complete"
    BY <1>1 DEF JobOK, JobFine, DataFine
  <2> QED
    BY <1>1, <2>1 DEF Spoiled, BridgeTypeOK
<1>6. JobOK(x)'
  <2>1. Heard(relay', toRelay', x) = IF relay = "on" THEN Heard(relay, toRelay, x) \cup {"cancel"} ELSE {}
    BY <1>2, <1>4 DEF Heard
  <2>2. relay # "on" => Heard(relay, toRelay, x) = {}
    BY DEF Heard
  <2>3. relay = "on" => Heard(relay, toRelay, x) \subseteq {"request", "ack"}
    BY <1>3 DEF Heard
  <2>4. Coming(toEdge', x) \subseteq Coming(toEdge, x)
    BY DEF Quieter
  <2> QED
    BY <1>1, <1>2, <1>5, <2>1, <2>2, <2>3, <2>4 DEF JobOK, JobFine, EarlyFine, HostFine, EdgeFine, DataFine
<1>7. \A y \in Jobs \ {x} : Same(y)
  BY <1>1, <1>2, <1>4, <1>5 DEF Same, Heard
<1>8. JobsOK'
  BY <1>1, <1>6, <1>7, OneJob
<1>9. BridgeTypeOK' /\ OrderOK'
  BY <1>1, <1>2, <1>4, <1>5 DEF BridgeTypeOK, Quieter, OrderOK
<1>10. LineOK' /\ RoomOK' /\ KeysFirst'
  BY <1>1, <1>2, <1>4 DEF LineOK, LineFine, RoomOK, Active, EdgeRoom, KeysFirst
<1> QED
  BY <1>8, <1>9, <1>10 DEF BridgeInv

\* The host's first frame is taken from the wire.
LEMMA HeadTaken ==
    ASSUME BridgeInv, toEdge # <<>>, toEdge' = Tail(toEdge), NEW f, f = Head(toEdge)
    PROVE  /\ f \in EdgeFrames /\ Quieter
           /\ \A y \in Jobs : ~(f.type \in FrameKinds /\ f.job = y) => Coming(toEdge', y) = Coming(toEdge, y)
           /\ \A y \in Jobs : f.type \in FrameKinds /\ f.job = y =>
                 /\ Coming(toEdge, y) = {f.type} \cup Coming(toEdge', y)
                 /\ \A u \in Coming(toEdge', y) : <<f.type, u>> \in EdgePairs
<1>1. toEdge \in Seq(EdgeFrames) /\ \A y \in Jobs : InOrder(toEdge, EdgePairs, y)
  BY DEF BridgeInv, BridgeTypeOK, OrderOK
<1>2. /\ toEdge' \in Seq(EdgeFrames) /\ f \in EdgeFrames
      /\ \A y : ~(f.type \in FrameKinds /\ f.job = y) => Coming(toEdge', y) = Coming(toEdge, y)
      /\ \A y : f.type \in FrameKinds /\ f.job = y => Coming(toEdge, y) = {f.type} \cup Coming(toEdge', y)
      /\ \A pairs, y : InOrder(toEdge, pairs, y) =>
            /\ InOrder(toEdge', pairs, y)
            /\ f.type \in FrameKinds /\ f.job = y => \A u \in Coming(toEdge', y) : <<f.type, u>> \in pairs
  BY <1>1, TakesFrame
<1>3. Quieter
  BY <1>1, <1>2 DEF Quieter
<1> QED
  BY <1>1, <1>2, <1>3

\* A frame that only its job's client or writer is touched by.
LEMMA HeardKeeps ==
    ASSUME BridgeInv, toEdge # <<>>, toEdge' = Tail(toEdge), NEW x \in Jobs, Head(toEdge).job = x, JobOK(x)',
           NEW sn \in {"none", "open", "complete", "failed"}, NEW by \in {"free", "write", "close"},
           seen' = [seen EXCEPT ![x] = sn], busy' = [busy EXCEPT ![x] = by],
           UNCHANGED <<job, line, cancelled, published, socket, toRelay, early, broken, got, relayVars, cut>>
    PROVE  BridgeInv'
<1>1. /\ BridgeTypeOK /\ LineOK /\ JobsOK /\ OrderOK /\ RoomOK /\ KeysFirst
      /\ seen \in [Jobs -> {"none", "open", "complete", "failed"}] /\ busy \in [Jobs -> {"free", "write", "close"}]
  BY DEF BridgeInv, BridgeTypeOK
<1>2. UNCHANGED <<wrote, handler, kept, acks, settling, stopped, relay, limit, conns>>
  BY DEF relayVars
<1>3. Quieter /\ \A y \in Jobs \ {x} : Coming(toEdge', y) = Coming(toEdge, y)
  BY HeadTaken
<1>4. \A y \in Jobs \ {x} : seen'[y] = seen[y] /\ busy'[y] = busy[y]
  BY <1>1
<1>5. \A y \in Jobs \ {x} : Same(y)
  BY <1>2, <1>3, <1>4 DEF Same
<1>6. JobsOK'
  BY <1>1, <1>5, OneJob
<1>7. LineOK' /\ RoomOK' /\ KeysFirst' /\ \A j \in Jobs : relay' = "on" => InOrder(toRelay', RelayPairs, j)
  BY <1>2, RoomStays
<1>8. seen' \in [Jobs -> {"none", "open", "complete", "failed"}]
  BY <1>1
<1>9. busy' \in [Jobs -> {"free", "write", "close"}]
  BY <1>1
<1>10. BridgeTypeOK' /\ OrderOK'
  BY <1>1, <1>2, <1>3, <1>7, <1>8, <1>9 DEF BridgeTypeOK, OrderOK, Quieter
<1> QED
  BY <1>6, <1>7, <1>10 DEF BridgeInv

\* The host's snapshot: its slots are announced.
LEMMA KeysKeep ==
    ASSUME BridgeInv, toEdge # <<>>, toEdge' = Tail(toEdge), Head(toEdge).type = "keys", socket # 0,
           published' = Capacity, toRelay' = Append(toRelay, Hello("keys_ready")),
           UNCHANGED <<job, seen, line, cancelled, socket, early, busy, broken, got, relayVars, cut>>
    PROVE  BridgeInv'
<1>1. /\ BridgeTypeOK /\ LineOK /\ JobsOK /\ OrderOK /\ RoomOK /\ KeysFirst /\ Capacity \in Nat /\ Capacity > 0
      /\ toRelay \in Seq(RelayFrames) /\ Hello("keys_ready") \in RelayFrames
      /\ "keys_ready" \notin FrameKinds /\ Hello("keys_ready").type = "keys_ready"
  BY BridgeAssumption DEF BridgeInv, BridgeTypeOK, Hello, RelayFrames, FrameKinds, RelayKinds, EdgeKinds
<1>2. UNCHANGED <<wrote, handler, kept, acks, settling, stopped, relay, limit, conns>>
  BY DEF relayVars
<1>3. /\ Quieter /\ \A y \in Jobs : Coming(toEdge', y) = Coming(toEdge, y)
  <2>1. "keys" \notin FrameKinds
    BY DEF FrameKinds, RelayKinds, EdgeKinds
  <2> QED
    BY <2>1, HeadTaken
<1>4. /\ toRelay' \in Seq(RelayFrames) /\ \A y : Coming(toRelay', y) = Coming(toRelay, y)
      /\ \A y : InOrder(toRelay, RelayPairs, y) => InOrder(toRelay', RelayPairs, y)
  BY <1>1, SendsHello
<1>5. JobsOK'
  <2>1. \A y \in Jobs : Same(y)
    BY <1>2, <1>3, <1>4 DEF Same, Heard
  <2> QED
    BY <1>1, <2>1, SameJob DEF JobsOK
<1>6. BridgeTypeOK' /\ OrderOK' /\ LineOK'
  BY <1>1, <1>2, <1>3, <1>4 DEF BridgeTypeOK, OrderOK, Quieter, LineOK, LineFine
<1>7. KeysFirst'
  <2>1. (KeysBefore(toRelay) => KeysBefore(toRelay')) /\ KeysComing(toRelay')
    BY <1>1, KeysSent
  <2> QED
    BY <1>1, <1>2, <2>1 DEF KeysFirst
<1>8. RoomOK'
  <2>1. WireRoom(kept, toRelay) => WireRoom(kept, toRelay')
    BY <1>1, RoomSends
  <2>2. Active' = Active /\ Cardinality(Active) \in Nat
    <3>1. Active' = Active
      BY DEF Active
    <3> QED
      BY <3>1, FewerJobs DEF Active
  <2>3. Cardinality(Active') <= EdgeRoom'
    BY <1>1, <2>2 DEF RoomOK, EdgeRoom, BridgeTypeOK
  <2> QED
    BY <1>1, <1>2, <2>1, <2>3 DEF RoomOK
<1> QED
  BY <1>5, <1>6, <1>7, <1>8 DEF BridgeInv

-----------------------------------------------------------------------------
(* Jobs of the line are started: first n of the queue, one request each. *)

Held(state) == {j \in Jobs : state[j] = "active"}
Ahead(queue, n, y) == \E i \in 1..n : queue[i] = y

\* The requests of the first n jobs of a queue.
RequestsFor(req, queue, n) == Len(req) = n /\ \A i \in 1..n : req[i] = Packet("request", queue[i])

\* Starting the line takes its first n jobs, sends a request for each, and fills no more than the room
\* there is.
LEMMA StartsFacts ==
    ASSUME BridgeTypeOK, NEW state \in [Jobs -> {"new", "reading", "queued", "active", "gone"}],
           NEW queue \in Seq(Jobs), NEW sent, Starts(state, queue, sent),
           Cardinality(Held(state)) <= EdgeRoom
    PROVE  \E n \in 0..Len(queue) : \E req \in Seq(RelayFrames) :
              /\ n + Cardinality(Held(state)) <= EdgeRoom
              /\ RequestsFor(req, queue, n) /\ toRelay' = (toRelay \o sent) \o req
              /\ job' = [y \in Jobs |-> IF Ahead(queue, n, y) THEN "active" ELSE state[y]]
              /\ line' \in Seq(Jobs) /\ Len(line') = Len(queue) - n
              /\ \A i \in 1..(Len(queue) - n) : line'[i] = queue[n + i]
              /\ early' = (early \/ (n > 0 /\ published = 0))
<1> DEFINE L == Len(queue)
           C == Cardinality(Held(state))
           room == EdgeRoom - C
           n == IF room < L THEN room ELSE L
           first == SubSeq(queue, 1, n)
           req == [i \in 1..n |-> Packet("request", first[i])]
<1>1. C \in Nat /\ EdgeRoom \in Nat /\ L \in Nat
  <2>1. C \in Nat
    BY FewerJobs DEF Held
  <2> QED
    BY <2>1, BridgeAssumption DEF EdgeRoom, BridgeTypeOK
<1>2. room \in Nat /\ n \in 0..L /\ n + C <= EdgeRoom
  BY <1>1
<1>3. /\ job' = [j \in Jobs |-> IF j \in ToSet(first) THEN "active" ELSE state[j]]
      /\ line' = SubSeq(queue, n + 1, L) /\ toRelay' = toRelay \o sent \o req
      /\ early' = (early \/ (n > 0 /\ published = 0))
  BY DEF Starts, EdgeRoom, Held
<1> HIDE DEF C, room, n
<1>4. \A i \in 1..L : queue[i] \in Jobs
  BY ElementOfSeq
<1>5. first \in Seq(Jobs) /\ Len(first) = n /\ \A i \in 1..n : first[i] = queue[i]
  <2>1. \A i \in 1..n : queue[i] \in Jobs
    BY <1>1, <1>2, <1>4
  <2> QED
    BY <1>2, <2>1, SubSeqProperties
<1>6. /\ line' \in Seq(Jobs) /\ Len(line') = L - n
      /\ \A i \in 1..(L - n) : line'[i] = queue[n + i]
  <2>1. n + 1 \in Int /\ \A i \in (n + 1)..L : queue[i] \in Jobs
    BY <1>1, <1>2, <1>4
  <2>2. /\ line' \in Seq(Jobs) /\ Len(line') = IF n + 1 <= L THEN L - (n + 1) + 1 ELSE 0
        /\ \A i \in 1..(L - (n + 1) + 1) : line'[i] = queue[(n + 1) + i - 1]
    BY <1>1, <1>3, <2>1, SubSeqProperties
  <2> QED
    BY <1>1, <1>2, <2>2
<1>7. \A y : y \in ToSet(first) <=> Ahead(queue, n, y)
  BY <1>5, LenProperties DEF ToSet, Ahead
<1> HIDE DEF first, L
<1>8. req \in Seq(RelayFrames) /\ RequestsFor(req, queue, n)
  <2>1. \A i \in 1..n : Packet("request", first[i]) \in RelayFrames
    BY <1>1, <1>2, <1>4, <1>5 DEF Packet, RelayFrames, RelayKinds
  <2> HIDE DEF req
  <2>2. req \in Seq(RelayFrames) /\ Len(req) = n /\ \A i \in 1..n : req[i] = Packet("request", first[i])
    BY <1>2, <2>1 DEF req
  <2> QED
    BY <1>5, <2>2 DEF RequestsFor
<1>9. job' = [y \in Jobs |-> IF Ahead(queue, n, y) THEN "active" ELSE state[y]]
  BY <1>3, <1>7
<1> QED
  BY <1>2, <1>3, <1>6, <1>8, <1>9 DEF C, L

\* The wire with the requests behind it.
LEMMA StartedWire ==
    ASSUME NEW q \in Seq(RelayFrames), NEW queue \in Seq(Jobs), NEW n \in 0..Len(queue),
           NEW req \in Seq(RelayFrames), RequestsFor(req, queue, n),
           \A a, b \in 1..Len(queue) : queue[a] = queue[b] => a = b, NEW y \in Jobs
    PROVE  /\ q \o req \in Seq(RelayFrames)
           /\ Ahead(queue, n, y) => Coming(q \o req, y) = Coming(q, y) \cup {"request"}
           /\ ~Ahead(queue, n, y) => Coming(q \o req, y) = Coming(q, y)
           /\ InOrder(q, RelayPairs, y) /\ (Ahead(queue, n, y) => Coming(q, y) = {})
                 => InOrder(q \o req, RelayPairs, y)
<1>1. /\ n \in Nat /\ Len(req) = n /\ \A i \in 1..n : i \in 1..Len(queue) /\ req[i] = Packet("request", queue[i])
      /\ q \o req \in Seq(RelayFrames)
  BY ConcatProperties, LenProperties DEF RequestsFor
<1>2. \A i \in 1..n : \A t : Speaks(req[i], t, y) <=> t = "request" /\ queue[i] = y
  BY <1>1 DEF Speaks, Packet
<1>3. Coming(req, y) = IF Ahead(queue, n, y) THEN {"request"} ELSE {}
  <2>1. \A t : Carries(req, t, y) <=> t = "request" /\ Ahead(queue, n, y)
    BY <1>1, <1>2 DEF Carries, Ahead
  <2> QED
    BY <2>1 DEF Coming, FrameKinds, RelayKinds
<1>4. Coming(q \o req, y) = Coming(q, y) \cup Coming(req, y)
  BY ComingConcat
<1>5. InOrder(req, RelayPairs, y)
  <2>1. ASSUME NEW a \in 1..n, NEW b \in 1..n, a < b, NEW t, NEW u, Speaks(req[a], t, y), Speaks(req[b], u, y)
        PROVE  FALSE
    <3>1. queue[a] = y /\ queue[b] = y /\ a \in 1..Len(queue) /\ b \in 1..Len(queue)
      BY <1>1, <1>2, <2>1
    <3>2. a = b
      BY <3>1
    <3> QED
      BY <1>1, <2>1, <3>2
  <2> QED
    BY <1>1, <2>1 DEF InOrder
<1>6. ASSUME InOrder(q, RelayPairs, y), Ahead(queue, n, y) => Coming(q, y) = {}
      PROVE  InOrder(q \o req, RelayPairs, y)
  <2>1. ASSUME NEW t \in FrameKinds, NEW u \in FrameKinds, Carries(q, t, y), Carries(req, u, y)
        PROVE  FALSE
    <3>1. t \in Coming(q, y) /\ u \in Coming(req, y)
      BY <2>1 DEF Coming
    <3> QED
      BY <1>3, <1>6, <3>1
  <2> QED
    BY <1>5, <1>6, <2>1, OrderConcat
<1> QED
  BY <1>1, <1>3, <1>4, <1>6

\* The number of active jobs once the first n of the queue are started.
LEMMA StartedNumber ==
    ASSUME NEW state, NEW queue \in Seq(Jobs), NEW n \in 0..Len(queue), NEW A,
           A = Held(state) \cup {y \in Jobs : Ahead(queue, n, y)}
    PROVE  Cardinality(A) <= Cardinality(Held(state)) + n /\ Cardinality(A) \in Nat
<1> DEFINE F == {queue[i] : i \in 1..n}
<1>1. n \in Nat /\ IsFiniteSet(1..n) /\ Cardinality(1..n) = n
  <2>1. n \in Nat
    OBVIOUS
  <2>2. IsFiniteSet(1..n) /\ Cardinality(1..n) = IF 1 > n THEN 0 ELSE n - 1 + 1
    BY <2>1, FS_Interval
  <2> QED
    BY <2>1, <2>2
<1>2. IsFiniteSet(F) /\ Cardinality(F) <= n
  <2> DEFINE pick == [i \in 1..n |-> queue[i]]
  <2>1. pick \in Surjection(1..n, F)
    BY DEF Surjection
  <2> HIDE DEF pick, F
  <2> QED
    BY <1>1, <2>1, FS_Surjection
<1>3. IsFiniteSet(Held(state)) /\ Held(state) \subseteq Jobs
  BY BridgeAssumption, FS_Subset DEF Held
<1>4. A \subseteq Held(state) \cup F
  BY DEF Ahead
<1> HIDE DEF F
<1>5. /\ Cardinality(Held(state) \cup F) <= Cardinality(Held(state)) + Cardinality(F)
      /\ IsFiniteSet(Held(state) \cup F) /\ Cardinality(Held(state)) \in Nat /\ Cardinality(F) \in Nat
      /\ Cardinality(Held(state) \cup F) \in Nat
  <2>1. IsFiniteSet(Held(state) \cup F)
    BY <1>2, <1>3, FS_Union
  <2>2. Cardinality(Held(state) \cup F) = Cardinality(Held(state)) + Cardinality(F) - Cardinality(Held(state) \cap F)
    BY <1>2, <1>3, FS_Union
  <2>3. IsFiniteSet(Held(state) \cap F)
    BY <1>2, FS_Subset
  <2>4. /\ Cardinality(Held(state)) \in Nat /\ Cardinality(F) \in Nat
        /\ Cardinality(Held(state) \cup F) \in Nat /\ Cardinality(Held(state) \cap F) \in Nat
    BY <1>2, <1>3, <2>1, <2>3, FS_CardinalityType
  <2> QED
    BY <2>1, <2>2, <2>4
<1>6. IsFiniteSet(A) /\ Cardinality(A) <= Cardinality(Held(state) \cup F) /\ Cardinality(A) \in Nat
  <2>1. IsFiniteSet(A) /\ Cardinality(A) <= Cardinality(Held(state) \cup F)
    BY <1>4, <1>5, FS_Subset
  <2> QED
    BY <2>1, FS_CardinalityType
<1> QED
  BY <1>1, <1>2, <1>5, <1>6

\* The wire finds the client with no more jobs than are active at the object.
LEMMA StartedRoom ==
    ASSUME BridgeTypeOK, NEW q \in Seq(RelayFrames), NEW queue \in Seq(Jobs), NEW n \in 0..Len(queue),
           NEW req \in Seq(RelayFrames), RequestsFor(req, queue, n), WireRoom(kept, q),
           NEW A, A \subseteq Jobs, Cardinality(A) <= Capacity,
           \A y \in Jobs :
              Ahead(queue, n, y) \/ ((y \in kept \/ "request" \in Coming(q, y)) /\ "ready" \notin Coming(q, y)) => y \in A
    PROVE  WireRoom(kept, q \o req)
<1> DEFINE L == Len(q)
           c == q \o req
<1>1. /\ L \in Nat /\ n \in Nat /\ Len(c) = L + n
      /\ \A i \in 1..L : c[i] = q[i]
      /\ \A i \in 1..n : c[L + i] = Packet("request", queue[i])
  <2>1. /\ L \in Nat /\ n \in Nat /\ Len(c) = L + n
        /\ \A i \in 1..(L + n) : c[i] = IF i <= L THEN q[i] ELSE req[i - L]
    BY ConcatProperties, LenProperties DEF RequestsFor
  <2> HIDE DEF c, L
  <2>2. ASSUME NEW i \in 1..n PROVE c[L + i] = Packet("request", queue[i])
    <3>1. L + i \in 1..(L + n) /\ ~(L + i <= L) /\ (L + i) - L = i
      BY <2>1
    <3>2. c[L + i] = req[i]
      BY <2>1, <3>1
    <3> QED
      BY <3>2 DEF RequestsFor
  <2> QED
    BY <2>1, <2>2
<1> HIDE DEF c, L
<1>2. ASSUME NEW i \in 0..Len(c) PROVE Cardinality(KeptAfter(kept, c, i)) <= Capacity
  <2>1. CASE i <= L
    <3>1. KeptAfter(kept, c, i) = KeptAfter(kept, q, i)
      <4>1. \A m \in 1..i : c[m] = q[m]
        BY <1>1, <2>1
      <4> QED
        BY <4>1 DEF KeptAfter, UpTo
    <3> QED
      BY <1>1, <2>1, <3>1 DEF WireRoom, L
  <2>2. CASE i > L
    <3>1. ASSUME NEW t \in FrameKinds, NEW y, t \in Coming(q, y) PROVE UpTo(c, i, t, y)
      <4>1. PICK m \in 1..L : Speaks(q[m], t, y)
        BY <3>1 DEF Coming, Carries, L
      <4>2. m \in 1..i /\ c[m] = q[m]
        BY <1>1, <2>2, <4>1
      <4> QED
        BY <4>1, <4>2 DEF UpTo
    <3>2. ASSUME NEW y, UpTo(c, i, "request", y) PROVE "request" \in Coming(q, y) \/ Ahead(queue, n, y)
      <4>1. PICK m \in 1..i : Speaks(c[m], "request", y)
        BY <3>2 DEF UpTo
      <4>2. CASE m <= L
        <5>1. m \in 1..L /\ Speaks(q[m], "request", y)
          BY <1>1, <4>1, <4>2
        <5> QED
          BY <5>1 DEF Coming, Carries, FrameKinds, RelayKinds, L
      <4>3. CASE m > L
        <5>1. m - L \in 1..n /\ L + (m - L) = m
          BY <1>1, <1>2, <4>1, <4>3
        <5>2. c[m] = Packet("request", queue[m - L])
          BY <1>1, <5>1
        <5>3. queue[m - L] = y
          BY <4>1, <5>2 DEF Speaks, Packet
        <5> QED
          BY <5>1, <5>3 DEF Ahead
      <4> QED
        BY <1>1, <1>2, <4>1, <4>2, <4>3
    <3>3. ASSUME NEW y \in KeptAfter(kept, c, i) PROVE y \in A
      <4>1. /\ y \in Jobs /\ (y \in kept \/ UpTo(c, i, "request", y)) /\ ~UpTo(c, i, "ready", y)
            /\ "ready" \in FrameKinds
        BY DEF KeptAfter, FrameKinds, RelayKinds
      <4>2. "ready" \notin Coming(q, y)
        BY <3>1, <4>1
      <4> QED
        BY <3>2, <4>1, <4>2
    <3>4. Capacity \in Nat
      BY BridgeAssumption
    <3> QED
      BY <3>3, <3>4, FewerJobs
  <2> QED
    BY <1>1, <2>1, <2>2
<1>3. WireRoom(kept, c)
  BY <1>2 DEF WireRoom
<1> QED
  BY <1>3 DEF c

\* The slots are ahead of the requests.
LEMMA StartedKeys ==
    ASSUME NEW q \in Seq(RelayFrames), NEW req \in Seq(RelayFrames)
    PROVE  /\ KeysBefore(q) /\ KeysComing(q) => KeysBefore(q \o req)
           /\ KeysComing(q) => KeysComing(q \o req)
<1> DEFINE L == Len(q)
           M == Len(req)
           c == q \o req
<1>1. L \in Nat /\ M \in Nat /\ Len(c) = L + M /\ \A i \in 1..L : i \in 1..(L + M) /\ c[i] = q[i]
  <2>1. /\ L \in Nat /\ M \in Nat /\ Len(c) = L + M
        /\ \A i \in 1..(L + M) : c[i] = IF i <= L THEN q[i] ELSE req[i - L]
    BY ConcatProperties, LenProperties
  <2> HIDE DEF c, L, M
  <2> QED
    BY <2>1
<1> HIDE DEF c, L, M
<1>2. ASSUME KeysComing(q) PROVE KeysComing(c)
  BY <1>1, <1>2 DEF KeysComing, L
<1>3. ASSUME KeysBefore(q), KeysComing(q), NEW i \in 1..Len(c), c[i].type = "request"
      PROVE  \E m \in 1..(i - 1) : c[m].type = "keys_ready"
  <2>1. CASE i <= L
    <3>1. i \in 1..L /\ q[i].type = "request"
      BY <1>1, <1>3, <2>1
    <3>2. PICK m \in 1..(i - 1) : q[m].type = "keys_ready"
      BY <1>3, <3>1 DEF KeysBefore, L
    <3>3. m \in 1..L
      BY <1>1, <3>1
    <3> QED
      BY <1>1, <3>2, <3>3
  <2>2. CASE i > L
    <3>1. PICK m \in 1..L : q[m].type = "keys_ready"
      BY <1>3 DEF KeysComing, L
    <3>2. m \in 1..(i - 1)
      BY <1>1, <2>2, <3>1
    <3> QED
      BY <1>1, <3>1, <3>2
  <2> QED
    BY <1>1, <2>1, <2>2
<1> QED
  BY <1>2, <1>3 DEF KeysBefore, c

\* What is left of the line.
LEMMA StartedLine ==
    ASSUME NEW queue \in Seq(Jobs), NEW n \in 0..Len(queue), NEW rest, Len(rest) = Len(queue) - n,
           \A i \in 1..(Len(queue) - n) : rest[i] = queue[n + i],
           \A a, b \in 1..Len(queue) : queue[a] = queue[b] => a = b
    PROVE  /\ \A a, b \in 1..Len(rest) : rest[a] = rest[b] => a = b
           /\ \A y : (\E i \in 1..Len(rest) : rest[i] = y) <=>
                        (\E i \in 1..Len(queue) : queue[i] = y) /\ ~Ahead(queue, n, y)
<1> DEFINE L == Len(queue)
<1>1. L \in Nat /\ n \in 0..L /\ Len(rest) = L - n /\ \A i \in 1..(L - n) : n + i \in 1..L /\ rest[i] = queue[n + i]
  BY LenProperties
<1> HIDE DEF L
<1>2. ASSUME NEW a \in 1..(L - n), NEW b \in 1..(L - n), rest[a] = rest[b] PROVE a = b
  <2>1. n + a = n + b
    BY <1>1, <1>2 DEF L
  <2> QED
    BY <1>1, <2>1
<1>3. ASSUME NEW y, NEW i \in 1..(L - n), rest[i] = y
      PROVE  (\E m \in 1..L : queue[m] = y) /\ ~Ahead(queue, n, y)
  <2>1. n + i \in 1..L /\ queue[n + i] = y
    BY <1>1, <1>3
  <2>2. ASSUME NEW m \in 1..n, queue[m] = y PROVE FALSE
    <3>1. m \in 1..L
      BY <1>1
    <3>2. m = n + i
      BY <2>1, <2>2, <3>1 DEF L
    <3> QED
      BY <1>1, <2>2, <3>2
  <2> QED
    BY <2>1, <2>2 DEF Ahead
<1>4. ASSUME NEW y, NEW m \in 1..L, queue[m] = y, ~Ahead(queue, n, y)
      PROVE  \E i \in 1..(L - n) : rest[i] = y
  <2>1. m > n
    BY <1>1, <1>4 DEF Ahead
  <2>2. m - n \in 1..(L - n) /\ n + (m - n) = m
    BY <1>1, <2>1
  <2>3. rest[m - n] = y
    BY <1>1, <1>4, <2>2
  <2> QED
    BY <2>2, <2>3
<1> QED
  BY <1>1, <1>2, <1>3, <1>4 DEF L

\* What the object's books are between a job's leaving and the start of the next: the states, the
\* queue and the wire to the client as given, the rest as it will be.
MidFine(state, q, y) ==
    JobFine(state[y], seen'[y], busy'[y], got'[y], wrote[y], handler[y],
            Coming(toEdge', y), Heard(relay, q, y), relay, socket,
            y \in kept, y \in acks, y \in settling, y \in stopped, y \in cancelled', y \in cut)
MidOK(state, queue, q) ==
    /\ state \in [Jobs -> {"new", "reading", "queued", "active", "gone"}]
    /\ queue \in Seq(Jobs) /\ q \in Seq(RelayFrames)
    /\ LineFine(state, queue)
    /\ \A y \in Jobs : MidFine(state, q, y) /\ (relay = "on" => InOrder(q, RelayPairs, y))
    /\ Cardinality(Held(state)) <= EdgeRoom
    /\ relay = "on" => WireRoom(kept, q)
    /\ KeysBefore(toRelay) => KeysBefore(q)
    /\ KeysComing(toRelay) => KeysComing(q)

\* A queued job that is started.
LEMMA StartedJob ==
    ASSUME BridgeTypeOK, NEW state, NEW q, NEW p, NEW y \in Jobs, MidFine(state, q, y), state[y] = "queued", socket # 0,
           Coming(p, y) = Coming(q, y) \cup {"request"}
    PROVE  /\ JobFine("active", seen'[y], busy'[y], got'[y], wrote[y], handler[y],
                      Coming(toEdge', y), Heard(relay, p, y), relay, socket,
                      y \in kept, y \in acks, y \in settling, y \in stopped, y \in cancelled', y \in cut)
           /\ relay = "on" => Coming(q, y) = {}
<1>1. relay = "on" => Coming(q, y) = {}
  BY DEF MidFine, JobFine, EarlyFine, Heard
<1>2. Heard(relay, p, y) = IF relay = "on" THEN {"request"} ELSE {}
  BY <1>1 DEF Heard
<1>3. wrote[y] \in Nat
  BY DEF BridgeTypeOK
<1>4. JobFine("active", seen'[y], busy'[y], got'[y], wrote[y], handler[y],
                      Coming(toEdge', y), Heard(relay, p, y), relay, socket,
                      y \in kept, y \in acks, y \in settling, y \in stopped, y \in cancelled', y \in cut)
  BY <1>2, <1>3 DEF MidFine, JobFine, EarlyFine, HostFine, EdgeFine, DataFine
<1> QED
  BY <1>1, <1>4

\* The line is started from a state that is sound but for the room just made.
LEMMA StartsKeep ==
    ASSUME BridgeInv, NEW state, NEW queue, NEW sent, Starts(state, queue, sent), MidOK(state, queue, toRelay \o sent),
           Quieter, UNCHANGED <<published, socket, relayVars, cut, broken>>,
           seen' \in [Jobs -> {"none", "open", "complete", "failed"}], busy' \in [Jobs -> {"free", "write", "close"}],
           got' \in [Jobs -> Nat]
    PROVE  BridgeInv'
<1>1. /\ BridgeTypeOK /\ RoomOK /\ KeysFirst
      /\ state \in [Jobs -> {"new", "reading", "queued", "active", "gone"}]
      /\ queue \in Seq(Jobs) /\ Cardinality(Held(state)) <= EdgeRoom /\ Capacity \in Nat /\ Capacity > 0
  BY BridgeAssumption DEF BridgeInv, MidOK
<1>2. PICK q \in Seq(RelayFrames) : q = toRelay \o sent
  BY DEF MidOK
<1>3. MidOK(state, queue, q)
  BY <1>2
<1>4. PICK n \in 0..Len(queue) : \E req \in Seq(RelayFrames) :
         /\ n + Cardinality(Held(state)) <= EdgeRoom
         /\ RequestsFor(req, queue, n) /\ toRelay' = q \o req
         /\ job' = [y \in Jobs |-> IF Ahead(queue, n, y) THEN "active" ELSE state[y]]
         /\ line' \in Seq(Jobs) /\ Len(line') = Len(queue) - n
         /\ \A i \in 1..(Len(queue) - n) : line'[i] = queue[n + i]
         /\ early' = (early \/ (n > 0 /\ published = 0))
  <2>1. \E n \in 0..Len(queue) : \E req \in Seq(RelayFrames) :
           /\ n + Cardinality(Held(state)) <= EdgeRoom
           /\ RequestsFor(req, queue, n) /\ toRelay' = (toRelay \o sent) \o req
           /\ job' = [y \in Jobs |-> IF Ahead(queue, n, y) THEN "active" ELSE state[y]]
           /\ line' \in Seq(Jobs) /\ Len(line') = Len(queue) - n
           /\ \A i \in 1..(Len(queue) - n) : line'[i] = queue[n + i]
           /\ early' = (early \/ (n > 0 /\ published = 0))
    BY ONLY ZenonT(60), <1>1, Starts(state, queue, sent), StartsFacts
  <2> QED
    BY ONLY <1>2, <2>1
<1>5. PICK req \in Seq(RelayFrames) :
         /\ n + Cardinality(Held(state)) <= EdgeRoom
         /\ RequestsFor(req, queue, n) /\ toRelay' = q \o req
         /\ job' = [y \in Jobs |-> IF Ahead(queue, n, y) THEN "active" ELSE state[y]]
         /\ line' \in Seq(Jobs) /\ Len(line') = Len(queue) - n
         /\ \A i \in 1..(Len(queue) - n) : line'[i] = queue[n + i]
         /\ early' = (early \/ (n > 0 /\ published = 0))
  BY <1>4
<1>6. UNCHANGED <<relay, conns, limit, handler, kept, acks, settling, stopped, wrote, cut, broken, published, socket>>
  BY DEF relayVars
<1>7. /\ \A a, b \in 1..Len(queue) : queue[a] = queue[b] => a = b
      /\ \A y \in Jobs : state[y] = "queued" <=> \E i \in 1..Len(queue) : queue[i] = y
      /\ socket # 0 \/ Len(queue) = 0
  BY <1>3 DEF MidOK, LineFine
<1>8. n \in Nat /\ Len(queue) \in Nat /\ n <= Len(queue)
  BY <1>1, LenProperties
<1>9. \A y \in Jobs : Ahead(queue, n, y) => state[y] = "queued" /\ socket # 0 /\ n > 0
  <2>1. ASSUME NEW i \in 1..n PROVE i \in 1..Len(queue) /\ n > 0 /\ Len(queue) # 0
    BY <1>8
  <2> QED
    BY <1>7, <2>1 DEF Ahead
<1>10. \A y \in Jobs :
          /\ toRelay' \in Seq(RelayFrames)
          /\ Ahead(queue, n, y) => Coming(toRelay', y) = Coming(q, y) \cup {"request"}
          /\ ~Ahead(queue, n, y) => Coming(toRelay', y) = Coming(q, y)
          /\ InOrder(q, RelayPairs, y) /\ (Ahead(queue, n, y) => Coming(q, y) = {})
                => InOrder(toRelay', RelayPairs, y)
  <2>1. PICK p : p = q \o req
    OBVIOUS
  <2>2. \A y \in Jobs :
          /\ p \in Seq(RelayFrames)
          /\ Ahead(queue, n, y) => Coming(p, y) = Coming(q, y) \cup {"request"}
          /\ ~Ahead(queue, n, y) => Coming(p, y) = Coming(q, y)
          /\ InOrder(q, RelayPairs, y) /\ (Ahead(queue, n, y) => Coming(q, y) = {}) => InOrder(p, RelayPairs, y)
    <3>1. RequestsFor(req, queue, n)
      BY <1>5
    <3> QED
      BY ONLY SMTT(60), <1>1, <1>7, <2>1, <3>1, StartedWire
  <2> QED
    BY <1>5, <2>1, <2>2
<1>11. ASSUME NEW y \in Jobs
       PROVE  /\ JobOK(y)' /\ (relay = "on" => InOrder(toRelay', RelayPairs, y))
              /\ Ahead(queue, n, y) /\ relay = "on" => Coming(q, y) = {}
  <2>1. MidFine(state, q, y) /\ (relay = "on" => InOrder(q, RelayPairs, y))
    BY <1>3 DEF MidOK
  <2>2. CASE Ahead(queue, n, y)
    <3>1. state[y] = "queued" /\ socket # 0 /\ job'[y] = "active"
      BY <1>5, <1>9, <2>2
    <3>2. Coming(toRelay', y) = Coming(q, y) \cup {"request"}
      BY <1>10, <2>2
    <3>3. /\ JobFine("active", seen'[y], busy'[y], got'[y], wrote[y], handler[y],
                     Coming(toEdge', y), Heard(relay, toRelay', y), relay, socket,
                     y \in kept, y \in acks, y \in settling, y \in stopped, y \in cancelled', y \in cut)
          /\ relay = "on" => Coming(q, y) = {}
      BY <1>1, <2>1, <3>1, <3>2, StartedJob
    <3>4. JobOK(y)'
      BY <1>6, <3>1, <3>3 DEF JobOK
    <3> QED
      BY <1>10, <2>1, <2>2, <3>3, <3>4
  <2>3. CASE ~Ahead(queue, n, y)
    <3>1. job'[y] = state[y] /\ Coming(toRelay', y) = Coming(q, y)
      BY <1>5, <1>10, <2>3
    <3>2. Heard(relay, toRelay', y) = Heard(relay, q, y)
      BY <3>1 DEF Heard
    <3>3. JobOK(y)'
      BY <1>6, <2>1, <3>1, <3>2 DEF JobOK, MidFine
    <3> QED
      BY <1>10, <2>1, <2>3, <3>3
  <2> QED
    BY <2>2, <2>3
<1>12. Active' = Held(state) \cup {y \in Jobs : Ahead(queue, n, y)}
  BY <1>5 DEF Active, Held
<1>13. Cardinality(Active') <= EdgeRoom /\ Cardinality(Active') <= Capacity
  <2>1. Cardinality(Active') <= Cardinality(Held(state)) + n /\ Cardinality(Active') \in Nat
    BY <1>1, <1>12, StartedNumber
  <2>2. Cardinality(Held(state)) \in Nat
    BY FewerJobs DEF Held
  <2>3. EdgeRoom \in Nat /\ EdgeRoom <= Capacity
    BY <1>1 DEF EdgeRoom, BridgeTypeOK
  <2>4. n + Cardinality(Held(state)) <= EdgeRoom
    BY <1>5
  <2> HIDE DEF EdgeRoom
  <2> QED
    BY <1>1, <1>8, <2>1, <2>2, <2>3, <2>4
<1>14. RoomOK'
  <2>1. ASSUME relay = "on" PROVE WireRoom(kept, toRelay')
    <3>1. CASE socket # 0
      <4>1. ASSUME NEW y \in Jobs, Ahead(queue, n, y) \/ ((y \in kept \/ "request" \in Coming(q, y)) /\ "ready" \notin Coming(q, y))
            PROVE  y \in Active'
        <5>1. Heard(relay, q, y) = Coming(q, y) /\ MidFine(state, q, y)
          BY <1>3, <2>1 DEF Heard, MidOK
        <5>2. Ahead(queue, n, y) \/ state[y] = "active"
          BY <2>1, <3>1, <4>1, <5>1 DEF MidFine, JobFine, HostFine
        <5> QED
          BY <1>12, <5>2 DEF Held
      <4>2. Active' \subseteq Jobs /\ WireRoom(kept, q)
        BY <1>3, <2>1 DEF Active, MidOK
      <4>3. PICK A : A = Active'
        OBVIOUS
      <4>4. WireRoom(kept, q \o req)
        BY <1>1, <1>5, <1>13, <4>1, <4>2, <4>3, StartedRoom
      <4> QED
        BY <1>5, <4>4
    <3>2. CASE socket = 0
      <4>1. n = 0
        BY <1>7, <1>8, <3>2
      <4>2. toRelay' = q
        <5>1. req = <<>>
          BY <1>5, <4>1, EmptySeq DEF RequestsFor
        <5> QED
          BY <1>5, <5>1, ConcatEmptySeq
      <4> QED
        BY <1>3, <2>1, <4>2 DEF MidOK
    <3> QED
      BY <3>1, <3>2
  <2> QED
    BY <1>1, <1>6, <1>13, <2>1 DEF RoomOK, EdgeRoom
<1>15. KeysFirst'
  <2>1. CASE early
    BY <1>5, <2>1 DEF KeysFirst
  <2>2. CASE ~early /\ n = 0
    <3>1. toRelay' = q
      <4>1. req = <<>>
        BY <1>5, <2>2, EmptySeq DEF RequestsFor
      <4> QED
        BY <1>5, <4>1, ConcatEmptySeq
    <3> QED
      BY <1>1, <1>3, <1>6, <2>2, <3>1 DEF KeysFirst, MidOK
  <2>3. CASE ~early /\ n > 0
    <3>1. socket # 0
      BY <1>7, <1>8, <2>3
    <3>2. published # 0 \/ early'
      BY <1>5, <2>3
    <3>3. /\ KeysBefore(q) /\ KeysComing(q) => KeysBefore(toRelay')
          /\ KeysComing(q) => KeysComing(toRelay')
      BY <1>5, StartedKeys
    <3>4. (KeysBefore(toRelay) => KeysBefore(q)) /\ (KeysComing(toRelay) => KeysComing(q))
      BY <1>3 DEF MidOK
    <3> QED
      BY <1>1, <1>6, <2>3, <3>1, <3>2, <3>3, <3>4 DEF KeysFirst
  <2> QED
    BY <1>8, <2>1, <2>2, <2>3
<1>16. LineOK'
  <2>1. /\ \A a, b \in 1..Len(line') : line'[a] = line'[b] => a = b
        /\ \A y : (\E i \in 1..Len(line') : line'[i] = y) <=>
                     (\E i \in 1..Len(queue) : queue[i] = y) /\ ~Ahead(queue, n, y)
    BY <1>1, <1>5, <1>7, StartedLine
  <2>2. \A y \in Jobs : job'[y] = "queued" <=> state[y] = "queued" /\ ~Ahead(queue, n, y)
    BY <1>5
  <2>3. socket' # 0 \/ Len(line') = 0
    BY <1>5, <1>6, <1>7, <1>8
  <2> QED
    BY <1>7, <2>1, <2>2, <2>3 DEF LineOK, LineFine
<1>17. BridgeTypeOK'
  <2>1. job' \in [Jobs -> {"new", "reading", "queued", "active", "gone"}]
    BY <1>1, <1>5
  <2>2. toRelay' \in Seq(RelayFrames)
    BY <1>5, ConcatProperties
  <2>3. early' \in BOOLEAN
    BY <1>1, <1>5 DEF BridgeTypeOK
  <2> QED
    BY <1>1, <1>5, <1>6, <2>1, <2>2, <2>3 DEF BridgeTypeOK, Quieter
<1>18. OrderOK' /\ JobsOK'
  BY <1>6, <1>11 DEF OrderOK, JobsOK, Quieter
<1> QED
  BY <1>14, <1>15, <1>16, <1>17, <1>18 DEF BridgeInv

\* The line when one job has left it.
LEMMA LineLeft ==
    ASSUME NEW x, line \in Seq(Jobs), \E i \in 1..Len(line) : line[i] = x,
           \A a, b \in 1..Len(line) : line[a] = line[b] => a = b
    PROVE  /\ LineWithout(x) \in Seq(Jobs)
           /\ \A a, b \in 1..Len(LineWithout(x)) : LineWithout(x)[a] = LineWithout(x)[b] => a = b
           /\ \A y : (\E i \in 1..Len(LineWithout(x)) : LineWithout(x)[i] = y) <=>
                        (\E i \in 1..Len(line) : line[i] = y) /\ y # x
<1> DEFINE L == Len(line)
           at == CHOOSE i \in DOMAIN line : line[i] = x
           u == SubSeq(line, 1, at - 1)
           v == SubSeq(line, at + 1, L)
           c == u \o v
<1>1. L \in Nat /\ at \in 1..L /\ line[at] = x /\ \A i \in 1..L : line[i] \in Jobs
  <2>1. L \in Nat /\ DOMAIN line = 1..L /\ \A i \in 1..L : line[i] \in Jobs
    BY LenProperties, ElementOfSeq
  <2> QED
    BY <2>1
<1>2. LineWithout(x) = c
  BY DEF LineWithout, RemoveAt
<1> HIDE DEF at, L
<1>3. u \in Seq(Jobs) /\ Len(u) = at - 1 /\ \A i \in 1..(at - 1) : u[i] = line[i]
  <2>1. at - 1 \in Nat /\ \A i \in 1..(at - 1) : line[i] \in Jobs
    BY <1>1
  <2> QED
    BY <2>1, SubSeqProperties
<1>4. v \in Seq(Jobs) /\ Len(v) = L - at /\ \A i \in 1..(L - at) : v[i] = line[at + i]
  <2>1. at + 1 \in Int /\ L \in Int /\ \A i \in (at + 1)..L : line[i] \in Jobs
    BY <1>1
  <2>2. /\ v \in Seq(Jobs) /\ Len(v) = IF at + 1 <= L THEN L - (at + 1) + 1 ELSE 0
        /\ \A i \in 1..(L - (at + 1) + 1) : v[i] = line[(at + 1) + i - 1]
    BY <2>1, SubSeqProperties
  <2> QED
    BY <1>1, <2>2
<1> HIDE DEF u, v
<1>5. c \in Seq(Jobs) /\ Len(c) = L - 1 /\ \A i \in 1..(L - 1) : c[i] = IF i < at THEN line[i] ELSE line[i + 1]
  <2>1. /\ c \in Seq(Jobs) /\ Len(c) = (at - 1) + (L - at)
        /\ \A i \in 1..((at - 1) + (L - at)) : c[i] = IF i <= at - 1 THEN u[i] ELSE v[i - (at - 1)]
    <3>1. /\ c \in Seq(Jobs) /\ Len(c) = Len(u) + Len(v)
          /\ \A i \in 1..(Len(u) + Len(v)) : c[i] = IF i <= Len(u) THEN u[i] ELSE v[i - Len(u)]
      <4>1. u \in Seq(Jobs) /\ v \in Seq(Jobs)
        BY <1>3, <1>4
      <4> QED
        BY ONLY <4>1, ConcatProperties
    <3> HIDE DEF c
    <3> QED
      BY <1>3, <1>4, <3>1
  <2> HIDE DEF c
  <2>2. ASSUME NEW i \in 1..(L - 1) PROVE c[i] = IF i < at THEN line[i] ELSE line[i + 1]
    <3>1. CASE i < at
      <4>1. i \in 1..(at - 1) /\ i \in 1..((at - 1) + (L - at)) /\ i <= at - 1
        BY <1>1, <3>1
      <4> QED
        BY <1>3, <2>1, <3>1, <4>1
    <3>2. CASE ~(i < at)
      <4>1. /\ i - (at - 1) \in 1..(L - at) /\ i \in 1..((at - 1) + (L - at)) /\ ~(i <= at - 1)
            /\ at + (i - (at - 1)) = i + 1
        BY <1>1, <3>2
      <4>2. c[i] = v[i - (at - 1)]
        BY <2>1, <4>1
      <4>3. v[i - (at - 1)] = line[i + 1]
        BY <1>4, <4>1
      <4> QED
        BY <3>2, <4>2, <4>3
    <3> QED
      BY <3>1, <3>2
  <2> QED
    BY <1>1, <2>1, <2>2
<1> HIDE DEF c
<1>6. \A i \in 1..(L - 1) : i \in 1..L /\ i + 1 \in 1..L
  BY <1>1
<1>7. ASSUME NEW a \in 1..(L - 1), NEW b \in 1..(L - 1), c[a] = c[b] PROVE a = b
  <2>1. (IF a < at THEN a ELSE a + 1) = (IF b < at THEN b ELSE b + 1)
    BY <1>5, <1>6, <1>7 DEF L
  <2> QED
    BY <1>1, <2>1
<1>8. ASSUME NEW i \in 1..(L - 1) PROVE (\E m \in 1..L : line[m] = c[i]) /\ c[i] # x
  <2>1. PICK m \in 1..L : c[i] = line[m] /\ m # at
    BY <1>1, <1>5, <1>6
  <2> QED
    BY <1>1, <2>1 DEF L
<1>9. ASSUME NEW m \in 1..L, line[m] # x PROVE \E i \in 1..(L - 1) : c[i] = line[m]
  <2>1. CASE m < at
    <3>1. m \in 1..(L - 1)
      BY <1>1, <2>1
    <3> QED
      BY <1>5, <2>1, <3>1
  <2>2. CASE m > at
    <3>1. m - 1 \in 1..(L - 1) /\ ~(m - 1 < at) /\ (m - 1) + 1 = m
      BY <1>1, <2>2
    <3>2. c[m - 1] = line[m]
      BY <1>5, <3>1
    <3> QED
      BY <3>1, <3>2
  <2> QED
    BY <1>1, <1>9, <2>1, <2>2
<1>10. /\ \A a, b \in 1..Len(c) : c[a] = c[b] => a = b
       /\ \A y : (\E i \in 1..Len(c) : c[i] = y) <=> (\E i \in 1..L : line[i] = y) /\ y # x
  <2>1. Len(c) = L - 1
    BY <1>5
  <2>2. \A a, b \in 1..Len(c) : c[a] = c[b] => a = b
    BY <1>7, <2>1
  <2>3. \A y : (\E i \in 1..Len(c) : c[i] = y) => (\E i \in 1..L : line[i] = y) /\ y # x
    BY <1>8, <2>1
  <2>4. \A y : (\E i \in 1..L : line[i] = y) /\ y # x => \E i \in 1..Len(c) : c[i] = y
    BY <1>9, <2>1
  <2> QED
    BY <2>2, <2>3, <2>4
<1> QED
  BY <1>2, <1>5, <1>10 DEF L

\* Nothing sent besides the requests.
LEMMA SendsNothing == ASSUME NEW q \in Seq(RelayFrames) PROVE q \o <<>> = q
BY ConcatEmptySeq

\* One job is not active any more, or not yet: there is room.
LEMMA MidStates ==
    ASSUME BridgeInv, NEW x \in Jobs, NEW state, state[x] # "active", \A y \in Jobs \ {x} : state[y] = job[y]
    PROVE  Cardinality(Held(state)) <= EdgeRoom
<1>1. Cardinality(Active) <= EdgeRoom
  BY DEF BridgeInv, RoomOK
<1>2. Held(state) \subseteq Active /\ Active \subseteq Jobs
  BY DEF Held, Active
<1>3. EdgeRoom \in Nat
  BY BridgeAssumption DEF EdgeRoom, BridgeInv, BridgeTypeOK
<1>4. Cardinality(Held(state)) <= Cardinality(Active) /\ Cardinality(Held(state)) \in Nat /\ Cardinality(Active) \in Nat
  BY <1>2, FewerJobs
<1> QED
  BY <1>1, <1>3, <1>4

\* An active job is gone: the line is as it was.
LEMMA MidLine ==
    ASSUME LineOK, NEW x \in Jobs, job[x] = "active", NEW state, state[x] = "gone", \A y \in Jobs \ {x} : state[y] = job[y]
    PROVE  LineFine(state, line)
BY DEF LineOK, LineFine

\* With the body in, the request joins the line, or is told that it cannot.
LEMMA EnqueueKeeps ==
    ASSUME BridgeInv, NEW x \in Jobs, EdgeEnqueue(x)
    PROVE  BridgeInv'
<1>1. /\ BridgeTypeOK /\ LineOK /\ JobsOK /\ JobOK(x) /\ OrderOK /\ RoomOK /\ KeysFirst
      /\ job[x] = "reading" /\ job \in [Jobs -> {"new", "reading", "queued", "active", "gone"}]
      /\ seen \in [Jobs -> {"none", "open", "complete", "failed"}]
  BY DEF BridgeInv, JobsOK, EdgeEnqueue, BridgeTypeOK
<1>2. UNCHANGED <<busy, got, cancelled, published, socket, toEdge, relayVars, cut, broken>>
  BY DEF EdgeEnqueue
<1>3. UNCHANGED <<wrote, handler, kept, acks, settling, stopped, relay, limit, conns>>
  BY <1>2 DEF relayVars
<1>4. CASE socket # 0 /\ Starts([job EXCEPT ![x] = "queued"], Append(line, x), <<>>) /\ seen' = seen
  <2>1. PICK state : state = [job EXCEPT ![x] = "queued"]
    OBVIOUS
  <2>2. PICK queue : queue = Append(line, x)
    OBVIOUS
  <2>3. /\ state \in [Jobs -> {"new", "reading", "queued", "active", "gone"}]
        /\ state[x] = "queued" /\ \A y \in Jobs \ {x} : state[y] = job[y]
        /\ Cardinality(Held(state)) <= EdgeRoom
    <3>1. /\ state \in [Jobs -> {"new", "reading", "queued", "active", "gone"}]
          /\ state[x] = "queued" /\ \A y \in Jobs \ {x} : state[y] = job[y]
      BY <1>1, <2>1
    <3>2. state[x] # "active"
      BY <3>1
    <3> QED
      BY <3>1, <3>2, MidStates
  <2>4. queue \in Seq(Jobs) /\ LineFine(state, queue)
    <3> DEFINE L == Len(line)
    <3>1. /\ line \in Seq(Jobs) /\ \A a, b \in 1..L : line[a] = line[b] => a = b
          /\ \A y \in Jobs : job[y] = "queued" <=> \E i \in 1..L : line[i] = y
      BY <1>1 DEF BridgeTypeOK, LineOK, LineFine
    <3>2. /\ L \in Nat /\ queue \in Seq(Jobs) /\ Len(queue) = L + 1 /\ queue[L + 1] = x
          /\ \A i \in 1..L : queue[i] = line[i]
      BY <2>2, <3>1, AppendProperties, LenProperties
    <3>3. \A i \in 1..L : line[i] # x
      BY <1>1, <3>1
    <3> HIDE DEF L
    <3>4. \A a, b \in 1..(L + 1) : queue[a] = queue[b] => a = b
      <4>1. ASSUME NEW a \in 1..(L + 1), NEW b \in 1..(L + 1), queue[a] = queue[b] PROVE a = b
        <5>1. (a \in 1..L \/ a = L + 1) /\ (b \in 1..L \/ b = L + 1)
          BY <3>2
        <5> QED
          BY <3>1, <3>2, <3>3, <4>1, <5>1
      <4> QED
        BY <4>1
    <3>5. \A y \in Jobs : state[y] = "queued" <=> \E i \in 1..(L + 1) : queue[i] = y
      <4>1. ASSUME NEW y \in Jobs PROVE (\E i \in 1..(L + 1) : queue[i] = y) <=> (\E i \in 1..L : line[i] = y) \/ y = x
        <5>1. \A i \in 1..(L + 1) : i \in 1..L \/ i = L + 1
          BY <3>2
        <5>2. L + 1 \in 1..(L + 1) /\ \A i \in 1..L : i \in 1..(L + 1)
          BY <3>2
        <5> QED
          BY <3>2, <5>1, <5>2
      <4> QED
        BY <2>3, <3>1, <4>1
    <3> QED
      BY <1>4, <3>2, <3>4, <3>5 DEF LineFine
  <2>5. ASSUME NEW y \in Jobs PROVE MidFine(state, toRelay, y)
    <3>1. JobOK(y)
      BY <1>1 DEF JobsOK
    <3>2. CASE y = x
      BY <1>1, <1>2, <1>4, <2>3, <3>1, <3>2
         DEF MidFine, JobOK, JobFine, EarlyFine, HostFine, EdgeFine, DataFine
    <3>3. CASE y # x
      BY <1>2, <1>4, <2>3, <3>1, <3>3 DEF MidFine, JobOK
    <3> QED
      BY <3>2, <3>3
  <2>6. MidOK(state, queue, toRelay)
    BY <1>1, <2>3, <2>4, <2>5 DEF MidOK, BridgeTypeOK, OrderOK, RoomOK
  <2>7. toRelay \o <<>> = toRelay
    BY <1>1, SendsNothing DEF BridgeTypeOK
  <2>8. Quieter
    BY <1>1, <1>2 DEF Quieter, BridgeTypeOK, OrderOK
  <2>9. busy' \in [Jobs -> {"free", "write", "close"}] /\ got' \in [Jobs -> Nat]
    BY <1>1, <1>2 DEF BridgeTypeOK
  <2> QED
    BY <1>1, <1>2, <1>4, <2>1, <2>2, <2>6, <2>7, <2>8, <2>9, StartsKeep
<1>5. CASE job' = [job EXCEPT ![x] = "gone"] /\ seen' = [seen EXCEPT ![x] = "failed"] /\ UNCHANGED <<line, toRelay, early>>
  <2>1. /\ job'[x] = "gone" /\ seen'[x] = "failed"
        /\ \A y \in Jobs \ {x} : job'[y] = job[y] /\ seen'[y] = seen[y]
        /\ Heard(relay', toRelay', x) = Heard(relay, toRelay, x)
    BY <1>1, <1>3, <1>5
  <2>2. JobOK(x)'
    BY <1>1, <1>2, <1>3, <2>1 DEF JobOK, JobFine, EarlyFine, HostFine, EdgeFine, DataFine
  <2>3. \A y \in Jobs \ {x} : Same(y)
    BY <1>2, <1>3, <1>5, <2>1 DEF Same
  <2>4. JobsOK'
    BY <1>1, <2>2, <2>3, OneJob
  <2>5. \A y \in Jobs : (job'[y] = "queued" <=> job[y] = "queued") /\ (job'[y] = "active" <=> job[y] = "active")
    BY <1>1, <2>1
  <2>6. Active' = Active
    BY <2>5 DEF Active
  <2>7. LineOK'
    BY <1>1, <1>2, <1>5, <2>5 DEF LineOK, LineFine
  <2>8. RoomOK'
    BY <1>1, <1>2, <1>3, <1>5, <2>6 DEF RoomOK, EdgeRoom
  <2>9. job' \in [Jobs -> {"new", "reading", "queued", "active", "gone"}]
    BY <1>1, <1>5
  <2>10. seen' \in [Jobs -> {"none", "open", "complete", "failed"}]
    BY <1>1, <1>5
  <2>11. BridgeTypeOK' /\ OrderOK' /\ KeysFirst'
    BY <1>1, <1>2, <1>3, <1>5, <2>9, <2>10 DEF BridgeTypeOK, OrderOK, KeysFirst
  <2> QED
    BY <2>4, <2>7, <2>8, <2>11 DEF BridgeInv
<1> QED
  BY <1>4, <1>5 DEF EdgeEnqueue

\* A waiting job leaves the line, and the next may start.
LEMMA LeavesKeep ==
    ASSUME BridgeInv, NEW x \in Jobs, job[x] = "queued", EdgeFail(x),
           UNCHANGED <<busy, got, toEdge, relayVars, cut, broken>>
    PROVE  BridgeInv'
<1>1. /\ BridgeTypeOK /\ LineOK /\ JobsOK /\ JobOK(x) /\ OrderOK /\ RoomOK
      /\ seen \in [Jobs -> {"none", "open", "complete", "failed"}]
      /\ cancelled' = cancelled \cup {x} /\ seen' = Spoiled({x}) /\ UNCHANGED <<published, socket>>
      /\ Starts([job EXCEPT ![x] = "gone"], LineWithout(x), <<>>)
  BY DEF BridgeInv, JobsOK, EdgeFail, BridgeTypeOK
<1>2. PICK state : state = [job EXCEPT ![x] = "gone"]
  OBVIOUS
<1>3. PICK queue : queue = LineWithout(x)
  OBVIOUS
<1>4. /\ state \in [Jobs -> {"new", "reading", "queued", "active", "gone"}]
      /\ state[x] = "gone" /\ \A y \in Jobs \ {x} : state[y] = job[y]
      /\ Cardinality(Held(state)) <= EdgeRoom
  <2>1. /\ state \in [Jobs -> {"new", "reading", "queued", "active", "gone"}]
        /\ state[x] = "gone" /\ \A y \in Jobs \ {x} : state[y] = job[y]
    BY <1>1, <1>2 DEF BridgeTypeOK
  <2>2. state[x] # "active"
    BY <2>1
  <2> QED
    BY <2>1, <2>2, MidStates
<1>5. queue \in Seq(Jobs) /\ LineFine(state, queue)
  <2>1. /\ line \in Seq(Jobs) /\ \A a, b \in 1..Len(line) : line[a] = line[b] => a = b
        /\ \A y \in Jobs : job[y] = "queued" <=> \E i \in 1..Len(line) : line[i] = y
        /\ socket # 0 \/ Len(line) = 0
    BY <1>1 DEF BridgeTypeOK, LineOK, LineFine
  <2>2. \E i \in 1..Len(line) : line[i] = x
    BY <2>1
  <2>3. /\ queue \in Seq(Jobs)
        /\ \A a, b \in 1..Len(queue) : queue[a] = queue[b] => a = b
        /\ \A y : (\E i \in 1..Len(queue) : queue[i] = y) <=> (\E i \in 1..Len(line) : line[i] = y) /\ y # x
    <3>1. /\ LineWithout(x) \in Seq(Jobs)
          /\ \A a, b \in 1..Len(LineWithout(x)) : LineWithout(x)[a] = LineWithout(x)[b] => a = b
          /\ \A y : (\E i \in 1..Len(LineWithout(x)) : LineWithout(x)[i] = y) <=> (\E i \in 1..Len(line) : line[i] = y) /\ y # x
      <4>1. line \in Seq(Jobs) /\ \A a, b \in 1..Len(line) : line[a] = line[b] => a = b
        BY <2>1
      <4> QED
        BY ONLY <2>2, <4>1, LineLeft
    <3> QED
      BY <1>3, <3>1
  <2>4. socket # 0
    BY <2>1, <2>2
  <2> QED
    <3>1. ASSUME NEW y \in Jobs PROVE state[y] = "queued" <=> \E i \in 1..Len(queue) : queue[i] = y
      <4>1. state[y] = "queued" <=> job[y] = "queued" /\ y # x
        BY ONLY <1>4, <3>1
      <4> QED
        BY ONLY <2>1, <2>3, <3>1, <4>1
    <3> QED
      BY ONLY <2>3, <2>4, <3>1 DEF LineFine
<1>6. /\ seen'[x] # "complete" /\ \A y \in Jobs \ {x} : seen'[y] = seen[y]
      /\ seen' \in [Jobs -> {"none", "open", "complete", "failed"}]
  <2>1. seen[x] # "complete"
    BY <1>1 DEF JobOK, JobFine, DataFine
  <2> QED
    BY <1>1, <2>1 DEF Spoiled
<1>7. ASSUME NEW y \in Jobs PROVE MidFine(state, toRelay, y)
  <2>1. JobOK(y)
    BY <1>1 DEF JobsOK
  <2>2. CASE y = x
    BY <1>1, <1>4, <1>6, <2>1, <2>2 DEF MidFine, JobOK, JobFine, EarlyFine, HostFine, EdgeFine, DataFine
  <2>3. CASE y # x
    <3>1. /\ state[y] = job[y] /\ seen'[y] = seen[y] /\ busy' = busy /\ got' = got /\ toEdge' = toEdge
          /\ y \in cancelled' <=> y \in cancelled
      BY <1>1, <1>4, <1>6, <2>3
    <3> QED
      BY ONLY <2>1, <3>1 DEF MidFine, JobOK, JobFine, EarlyFine, HostFine, EdgeFine, DataFine
  <2> QED
    BY <2>2, <2>3
<1>8. MidOK(state, queue, toRelay)
  BY <1>1, <1>4, <1>5, <1>7 DEF MidOK, BridgeTypeOK, OrderOK, RoomOK
<1>9. toRelay \o <<>> = toRelay
  BY <1>1, SendsNothing DEF BridgeTypeOK
<1>10. Quieter /\ busy' \in [Jobs -> {"free", "write", "close"}] /\ got' \in [Jobs -> Nat]
  BY <1>1 DEF Quieter, BridgeTypeOK, OrderOK
<1> QED
  BY <1>1, <1>2, <1>3, <1>6, <1>8, <1>9, <1>10, StartsKeep

\* The client has taken the end of its response, or an answer it no longer waits for.
LEMMA ClosedKeeps ==
    ASSUME BridgeInv, NEW x \in Jobs, EdgeClosed(x)
    PROVE  BridgeInv'
<1>1. /\ BridgeTypeOK /\ LineOK /\ JobsOK /\ JobOK(x) /\ OrderOK /\ RoomOK /\ KeysFirst
      /\ job \in [Jobs -> {"new", "reading", "queued", "active", "gone"}]
      /\ seen \in [Jobs -> {"none", "open", "complete", "failed"}]
      /\ busy \in [Jobs -> {"free", "write", "close"}] /\ got \in [Jobs -> Nat]
      /\ busy[x] = "close" /\ busy' = [busy EXCEPT ![x] = "free"]
  BY DEF BridgeInv, JobsOK, EdgeClosed, BridgeTypeOK
<1>2. UNCHANGED <<got, cancelled, published, socket, toEdge, relayVars, cut, broken>>
  BY DEF EdgeClosed
<1>3. UNCHANGED <<wrote, handler, kept, acks, settling, stopped, relay, limit, conns>>
  BY <1>2 DEF relayVars
<1>4. /\ busy'[x] = "free" /\ \A y \in Jobs \ {x} : busy'[y] = busy[y]
      /\ busy' \in [Jobs -> {"free", "write", "close"}] /\ got' \in [Jobs -> Nat]
  BY <1>1, <1>2
<1>5. CASE job[x] = "active" /\ x \notin cancelled
  <2>1. /\ seen' = [seen EXCEPT ![x] = "complete"]
        /\ Starts([job EXCEPT ![x] = "gone"], line, <<Packet("ready", x)>>)
    BY <1>5 DEF EdgeClosed
  <2>2. PICK state : state = [job EXCEPT ![x] = "gone"]
    OBVIOUS
  <2>3. /\ state \in [Jobs -> {"new", "reading", "queued", "active", "gone"}]
        /\ state[x] = "gone" /\ (\A y \in Jobs \ {x} : state[y] = job[y]) /\ state[x] # "active"
    BY <1>1, <2>2
  <2>4. Cardinality(Held(state)) <= EdgeRoom /\ LineFine(state, line)
    BY <1>1, <1>5, <2>3, MidStates, MidLine
  <2>5. "ready" \notin Coming(toEdge, x) /\ Coming(toEdge, x) = {} /\ handler[x] = "over"
        /\ got[x] = wrote[x] /\ x \notin cut /\ socket # 0
    BY <1>1, <1>5 DEF JobOK, JobFine, HostFine, EdgeFine, DataFine
  <2>6. ASSUME relay = "on" PROVE Coming(toRelay, x) \subseteq {"ack"} /\ x \in kept /\ x \notin settling
    <3>1. Coming(toRelay, x) \subseteq RelayKinds /\ Heard(relay, toRelay, x) = Coming(toRelay, x)
      BY <1>1, <2>6, KindsHeard DEF Heard
    <3>2. /\ "cancel" \notin Coming(toRelay, x) /\ "ready" \notin Coming(toRelay, x) /\ "request" \notin Coming(toRelay, x)
          /\ x \in kept /\ x \notin settling
      BY <1>1, <1>5, <2>5, <2>6, <3>1 DEF JobOK, JobFine, HostFine
    <3> QED
      BY <3>1, <3>2 DEF RelayKinds
  <2>7. relay = "on" => \A u \in Coming(toRelay, x) : <<u, "ready">> \in RelayPairs
    <3>1. <<"ack", "ready">> \in RelayPairs
      BY DEF RelayPairs
    <3> QED
      BY <2>6, <3>1
  <2>8. PICK q \in Seq(RelayFrames) :
          /\ q = Append(toRelay, Packet("ready", x))
          /\ Coming(q, x) = Coming(toRelay, x) \cup {"ready"}
          /\ \A y : y # x => Coming(q, y) = Coming(toRelay, y)
          /\ relay = "on" => (\A y \in Jobs : InOrder(q, RelayPairs, y)) /\ WireRoom(kept, q)
          /\ (KeysBefore(toRelay) => KeysBefore(q)) /\ (KeysComing(toRelay) => KeysComing(q))
    BY <2>7, EdgeSends
  <2>9. q = toRelay \o <<Packet("ready", x)>>
    <3>1. toRelay \in Seq(RelayFrames) /\ Packet("ready", x) \in RelayFrames
      BY <1>1 DEF BridgeTypeOK, Packet, RelayFrames, RelayKinds
    <3> HIDE DEF Packet
    <3> QED
      BY <2>8, <3>1, AppendIsConcat
  <2>10. /\ seen'[x] = "complete" /\ \A y \in Jobs \ {x} : seen'[y] = seen[y]
         /\ seen' \in [Jobs -> {"none", "open", "complete", "failed"}]
    BY <1>1, <2>1
  <2>11. ASSUME NEW y \in Jobs PROVE MidFine(state, q, y)
    <3>1. JobOK(y)
      BY <1>1 DEF JobsOK
    <3>2. CASE y = x
      <4>1. Heard(relay, q, x) = IF relay = "on" THEN Coming(toRelay, x) \cup {"ready"} ELSE {}
        BY <2>8 DEF Heard
      <4>2. Heard(relay, toRelay, x) = IF relay = "on" THEN Coming(toRelay, x) ELSE {}
        BY DEF Heard
      <4> QED
        BY <1>1, <1>2, <1>4, <1>5, <2>3, <2>5, <2>6, <2>10, <3>1, <3>2, <4>1, <4>2
           DEF MidFine, JobOK, JobFine, EarlyFine, HostFine, EdgeFine, DataFine
    <3>3. CASE y # x
      <4>1. Heard(relay, q, y) = Heard(relay, toRelay, y)
        BY <2>8, <3>3 DEF Heard
      <4> QED
        BY <1>2, <1>4, <2>3, <2>10, <3>1, <3>3, <4>1 DEF MidFine, JobOK
    <3> QED
      BY <3>2, <3>3
  <2>12. MidOK(state, line, q)
    BY <1>1, <2>3, <2>4, <2>8, <2>11 DEF MidOK, BridgeTypeOK
  <2>13. Quieter
    BY <1>1, <1>2 DEF Quieter, BridgeTypeOK, OrderOK
  <2> QED
    BY <1>2, <1>4, <2>1, <2>2, <2>9, <2>10, <2>12, <2>13, StartsKeep
<1>6. CASE ~(job[x] = "active" /\ x \notin cancelled)
  <2>1. UNCHANGED <<seen, job, line, toRelay, early>>
    BY <1>6 DEF EdgeClosed
  <2>2. LineOK' /\ RoomOK' /\ KeysFirst' /\ \A j : Heard(relay', toRelay', j) = Heard(relay, toRelay, j)
    BY <1>2, <1>3, <2>1, RoomStays
  <2>3. JobOK(x)'
    BY <1>1, <1>2, <1>3, <1>4, <1>6, <2>1, <2>2 DEF JobOK, JobFine, EarlyFine, HostFine, EdgeFine, DataFine
  <2>4. \A y \in Jobs \ {x} : Same(y)
    BY <1>2, <1>3, <1>4, <2>1 DEF Same
  <2>5. JobsOK'
    BY <1>1, <2>3, <2>4, OneJob
  <2> QED
    BY <1>1, <1>2, <1>3, <1>4, <2>1, <2>2, <2>5 DEF BridgeInv, BridgeTypeOK, OrderOK
<1> QED
  BY <1>5, <1>6

\* The host's last word about a cancelled job.
LEMMA ReadyKeeps ==
    ASSUME BridgeInv, NEW x \in Jobs, toEdge # <<>>, toEdge' = Tail(toEdge), NEW f, f = Head(toEdge),
           f.type = "ready", f.job = x, socket # 0, job[x] = "active", x \in cancelled,
           Starts([job EXCEPT ![x] = "gone"], line, <<>>),
           UNCHANGED <<seen, cancelled, published, socket, busy, broken, got, relayVars, cut>>
    PROVE  BridgeInv'
<1>1. /\ BridgeTypeOK /\ LineOK /\ JobsOK /\ JobOK(x) /\ OrderOK /\ RoomOK
      /\ job \in [Jobs -> {"new", "reading", "queued", "active", "gone"}]
  BY DEF BridgeInv, JobsOK, BridgeTypeOK
<1>2. /\ Quieter /\ (\A y \in Jobs \ {x} : Coming(toEdge', y) = Coming(toEdge, y))
      /\ "ready" \in Coming(toEdge, x) /\ Coming(toEdge', x) = {}
  <2>1. "ready" \in FrameKinds
    BY DEF FrameKinds, RelayKinds
  <2>2. /\ Quieter /\ \A y \in Jobs \ {x} : Coming(toEdge', y) = Coming(toEdge, y)
        /\ Coming(toEdge, x) = {"ready"} \cup Coming(toEdge', x)
        /\ \A u \in Coming(toEdge', x) : <<"ready", u>> \in EdgePairs
    BY <2>1, HeadTaken
  <2> QED
    BY <2>2 DEF EdgePairs
<1>3. PICK state : state = [job EXCEPT ![x] = "gone"]
  OBVIOUS
<1>4. /\ state \in [Jobs -> {"new", "reading", "queued", "active", "gone"}]
      /\ state[x] = "gone" /\ (\A y \in Jobs \ {x} : state[y] = job[y]) /\ state[x] # "active"
  BY <1>1, <1>3
<1>5. Cardinality(Held(state)) <= EdgeRoom /\ LineFine(state, line)
  BY <1>1, <1>4, MidStates, MidLine
<1>6. ASSUME NEW y \in Jobs PROVE MidFine(state, toRelay, y)
  <2>1. JobOK(y)
    BY <1>1 DEF JobsOK
  <2>2. CASE y = x
    <3>1. "ready" \in Coming(toEdge, x) /\ Coming(toEdge', x) = {} /\ state[x] = "gone"
      BY <1>2, <1>4
    <3> QED
      BY <2>1, <2>2, <3>1 DEF MidFine, JobOK, JobFine, EarlyFine, HostFine, EdgeFine, DataFine
  <2>3. CASE y # x
    <3>1. Coming(toEdge', y) = Coming(toEdge, y) /\ state[y] = job[y]
      BY <1>2, <1>4, <2>3
    <3> QED
      BY <2>1, <3>1 DEF MidFine, JobOK
  <2> QED
    BY <2>2, <2>3
<1>7. MidOK(state, line, toRelay)
  BY <1>1, <1>4, <1>5, <1>6 DEF MidOK, BridgeTypeOK, OrderOK, RoomOK
<1>8. toRelay \o <<>> = toRelay
  BY <1>1, SendsNothing DEF BridgeTypeOK
<1>9. /\ seen' \in [Jobs -> {"none", "open", "complete", "failed"}]
      /\ busy' \in [Jobs -> {"free", "write", "close"}] /\ got' \in [Jobs -> Nat]
  BY <1>1 DEF BridgeTypeOK
<1> QED
  BY <1>2, <1>3, <1>7, <1>8, <1>9, StartsKeep

\* The object takes a frame; none is about a job that is not active, nor a ready for one not cancelled.
LEMMA EdgeHearsKeeps ==
    ASSUME BridgeInv, EdgeHears
    PROVE  BridgeInv'
<1>0. PICK f, x : f = Head(toEdge) /\ x = f.job
  OBVIOUS
<1>1. /\ BridgeTypeOK /\ JobsOK /\ socket # 0 /\ toEdge # <<>> /\ toEdge' = Tail(toEdge)
      /\ UNCHANGED <<got, relayVars, cut>>
      /\ seen \in [Jobs -> {"none", "open", "complete", "failed"}] /\ busy \in [Jobs -> {"free", "write", "close"}]
  BY DEF BridgeInv, BridgeTypeOK, EdgeHears
<1>2. /\ f \in EdgeFrames /\ Quieter
      /\ \A y \in Jobs : ~(f.type \in FrameKinds /\ f.job = y) => Coming(toEdge', y) = Coming(toEdge, y)
      /\ \A y \in Jobs : f.type \in FrameKinds /\ f.job = y =>
            /\ Coming(toEdge, y) = {f.type} \cup Coming(toEdge', y)
            /\ \A u \in Coming(toEdge', y) : <<f.type, u>> \in EdgePairs
  BY <1>0, <1>1, HeadTaken
<1>3. f.type \in {"closed", "keys"} \/ (f.type \in EdgeKinds /\ x \in Jobs)
  BY <1>0, <1>2 DEF EdgeFrames
<1>4. CASE f.type = "closed"
  <2>1. EdgeDisconnect /\ UNCHANGED <<busy, broken>>
    BY <1>0, <1>4 DEF EdgeHears
  <2> QED
    BY <1>1, <1>2, <2>1, DisconnectKeeps
<1>5. CASE f.type = "keys"
  <2>1. /\ published' = Capacity /\ toRelay' = Append(toRelay, Hello("keys_ready"))
        /\ UNCHANGED <<job, seen, line, cancelled, socket, early, busy, broken>>
    BY <1>0, <1>5 DEF EdgeHears
  <2> QED
    BY <1>0, <1>1, <1>5, <2>1, KeysKeep
<1>6. CASE f.type \in EdgeKinds /\ x \in Jobs
  <2>1. /\ Coming(toEdge, x) = {f.type} \cup Coming(toEdge', x)
        /\ \A u \in Coming(toEdge', x) : <<f.type, u>> \in EdgePairs
        /\ \A y \in Jobs \ {x} : Coming(toEdge', y) = Coming(toEdge, y)
        /\ JobOK(x) /\ job[x] = "active"
    <3>1. f.type \in FrameKinds
      BY <1>6 DEF FrameKinds
    <3>2. /\ Coming(toEdge, x) = {f.type} \cup Coming(toEdge', x)
          /\ \A u \in Coming(toEdge', x) : <<f.type, u>> \in EdgePairs
          /\ \A y \in Jobs \ {x} : Coming(toEdge', y) = Coming(toEdge, y)
      BY <1>0, <1>2, <1>6, <3>1
    <3>3. JobOK(x) /\ Coming(toEdge, x) # {}
      BY <1>1, <1>6, <3>2 DEF JobsOK
    <3>4. job[x] = "active"
      BY <1>1, <3>3 DEF JobOK, JobFine, EdgeFine
    <3> QED
      BY <3>2, <3>3, <3>4
  <2>2. f.type \notin {"closed", "keys"}
    BY <1>6 DEF EdgeKinds
  <2> DEFINE Stays == UNCHANGED <<job, line, cancelled, published, socket, toRelay, early, broken>>
  <2>3. CASE f.type = "ready"
    <3>1. x \in cancelled
      BY <2>1, <2>3 DEF JobOK, JobFine, EdgeFine
    <3>2. Starts([job EXCEPT ![x] = "gone"], line, <<>>) /\ UNCHANGED <<seen, cancelled, published, socket, busy, broken>>
      BY <1>0, <2>1, <2>3, <3>1 DEF EdgeHears
    <3> QED
      BY <1>0, <1>1, <1>6, <2>1, <2>3, <3>1, <3>2, ReadyKeeps
  <2>4. CASE f.type # "ready" /\ x \in cancelled
    <3>1. Stays /\ seen' = [seen EXCEPT ![x] = seen[x]] /\ busy' = [busy EXCEPT ![x] = busy[x]]
      BY <1>0, <1>1, <2>1, <2>2, <2>4 DEF EdgeHears
    <3>2. UNCHANGED <<wrote, handler, kept, acks, settling, stopped, relay, seen, busy>>
          /\ Heard(relay', toRelay', x) = Heard(relay, toRelay, x)
      BY <1>1, <1>6, <3>1 DEF relayVars
    <3>3. "ready" \in Coming(toEdge', x) <=> "ready" \in Coming(toEdge, x)
      BY <2>1, <2>4
    <3>4. JobOK(x)'
      <4>1. Coming(toEdge', x) \subseteq Coming(toEdge, x)
        BY <2>1
      <4> QED
        BY <1>1, <2>1, <2>4, <3>1, <3>2, <3>3, <4>1 DEF JobOK, JobFine, EarlyFine, HostFine, EdgeFine, DataFine
    <3>5. seen[x] \in {"none", "open", "complete", "failed"} /\ busy[x] \in {"free", "write", "close"}
      BY <1>1, <1>6
    <3> QED
      BY <1>0, <1>1, <1>6, <3>1, <3>4, <3>5, HeardKeeps
  <2>5. CASE f.type = "cancel" /\ x \notin cancelled
    <3>1. EdgeFail(x) /\ UNCHANGED <<busy, broken>>
      BY <1>0, <2>1, <2>5 DEF EdgeHears
    <3>2. "ready" \in Coming(toEdge, x) => "ready" \in Coming(toEdge', x)
      BY <2>1, <2>5
    <3> QED
      BY <1>1, <1>2, <1>6, <2>1, <3>1, <3>2, GivesUpKeeps
  <2>6. CASE f.type = "response" /\ x \notin cancelled
    <3>1. Stays /\ seen' = [seen EXCEPT ![x] = "open"] /\ busy' = busy
      BY <1>0, <2>1, <2>6 DEF EdgeHears
    <3>2. UNCHANGED <<wrote, handler, kept, acks, settling, stopped, relay>>
          /\ Heard(relay', toRelay', x) = Heard(relay, toRelay, x) /\ seen'[x] = "open"
          /\ busy' = [busy EXCEPT ![x] = busy[x]] /\ busy[x] \in {"free", "write", "close"}
      BY <1>1, <1>6, <3>1 DEF relayVars
    <3>3. \A t : t # "response" => (t \in Coming(toEdge', x) <=> t \in Coming(toEdge, x))
      BY <2>1, <2>6
    <3>4. JobOK(x)'
      <4>1. Coming(toEdge', x) \subseteq Coming(toEdge, x)
        BY <2>1
      <4> QED
        BY <1>1, <2>1, <2>6, <3>1, <3>2, <3>3, <4>1 DEF JobOK, JobFine, EarlyFine, HostFine, EdgeFine, DataFine
    <3> QED
      BY <1>0, <1>1, <1>6, <3>1, <3>2, <3>4, HeardKeeps
  <2>7. CASE f.type = "data" /\ x \notin cancelled
    <3>1. Stays /\ seen' = seen /\ busy' = [busy EXCEPT ![x] = "write"]
      BY <1>0, <2>1, <2>7 DEF EdgeHears
    <3>2. UNCHANGED <<wrote, handler, kept, acks, settling, stopped, relay>>
          /\ Heard(relay', toRelay', x) = Heard(relay, toRelay, x) /\ busy'[x] = "write"
          /\ seen' = [seen EXCEPT ![x] = seen[x]] /\ seen[x] \in {"none", "open", "complete", "failed"}
      BY <1>1, <1>6, <3>1 DEF relayVars
    <3>3. "data" \notin Coming(toEdge', x) /\ Coming(toEdge', x) \subseteq Coming(toEdge, x)
      BY <2>1, <2>7 DEF EdgePairs
    <3>4. \A t : t # "data" => (t \in Coming(toEdge', x) <=> t \in Coming(toEdge, x))
      BY <2>1, <2>7
    <3>5. "data" \in Coming(toEdge, x)
      BY <2>1, <2>7
    <3>6. JobOK(x)'
      BY <1>1, <2>1, <2>7, <3>1, <3>2, <3>3, <3>4, <3>5 DEF JobOK, JobFine, EarlyFine, HostFine, EdgeFine, DataFine
    <3> QED
      BY <1>0, <1>1, <1>6, <3>1, <3>2, <3>6, HeardKeeps
  <2>8. CASE f.type = "end" /\ x \notin cancelled
    <3>1. Stays /\ seen' = seen /\ busy' = [busy EXCEPT ![x] = "close"]
      BY <1>0, <2>1, <2>8 DEF EdgeHears
    <3>2. UNCHANGED <<wrote, handler, kept, acks, settling, stopped, relay>>
          /\ Heard(relay', toRelay', x) = Heard(relay, toRelay, x) /\ busy'[x] = "close"
          /\ seen' = [seen EXCEPT ![x] = seen[x]] /\ seen[x] \in {"none", "open", "complete", "failed"}
      BY <1>1, <1>6, <3>1 DEF relayVars
    <3>3. "end" \in Coming(toEdge, x) /\ "ready" \notin Coming(toEdge, x)
      BY <2>1, <2>8 DEF JobOK, JobFine, EdgeFine
    <3>4. Coming(toEdge', x) = {}
      BY <2>1, <2>8, <3>3 DEF EdgePairs
    <3>5. JobOK(x)'
      BY <1>1, <2>1, <2>8, <3>1, <3>2, <3>3, <3>4 DEF JobOK, JobFine, EarlyFine, HostFine, EdgeFine, DataFine
    <3> QED
      BY <1>0, <1>1, <1>6, <3>1, <3>2, <3>5, HeardKeeps
  <2> QED
    BY <1>6, <2>3, <2>4, <2>5, <2>6, <2>7, <2>8 DEF EdgeKinds
<1> QED
  BY <1>3, <1>4, <1>5, <1>6

-----------------------------------------------------------------------------
(* The invariant, and what it gives. *)

\* Nothing is on its way when the object is made.
LEMMA BridgeStarts == ASSUME BridgeInit PROVE BridgeInv
<1>1. /\ \A q, p, y : q = <<>> => Coming(q, y) = {} /\ InOrder(q, p, y)
      /\ Len(<<>>) = 0 /\ toEdge = <<>> /\ toRelay = <<>> /\ line = <<>> /\ kept = {} /\ relay = "off"
      /\ Capacity \in Nat /\ Cardinality({}) = 0
  BY OneFrame, FS_EmptySet, BridgeAssumption DEF BridgeInit, Coming
<1>2. BridgeTypeOK
  <2>1. line \in Seq(Jobs) /\ toEdge \in Seq(EdgeFrames) /\ toRelay \in Seq(RelayFrames)
    BY <1>1
  <2>2. got \in [Jobs -> Nat] /\ wrote \in [Jobs -> Nat] /\ busy \in [Jobs -> {"free", "write", "close"}]
    BY DEF BridgeInit
  <2>3. /\ job \in [Jobs -> {"new", "reading", "queued", "active", "gone"}]
        /\ seen \in [Jobs -> {"none", "open", "complete", "failed"}]
        /\ handler \in [Jobs -> {"none", "work", "ack", "bad", "over"}]
    BY DEF BridgeInit
  <2>4. /\ relay = "off" /\ kept = {} /\ published = 0 /\ limit = 0 /\ conns = 0
        /\ broken = FALSE /\ early = FALSE
    BY DEF BridgeInit
  <2> QED
    BY <2>1, <2>2, <2>3, <2>4 DEF BridgeTypeOK
<1>3. LineOK /\ KeysFirst
  BY <1>1 DEF BridgeInit, LineOK, LineFine, KeysFirst
<1>4. ASSUME NEW y \in Jobs PROVE JobOK(y)
  <2>1. Heard(relay, toRelay, y) = {} /\ Coming(toEdge, y) = {}
    BY <1>1 DEF Heard
  <2>2. /\ job[y] = "new" /\ seen[y] = "none" /\ busy[y] = "free" /\ got[y] = 0 /\ wrote[y] = 0 /\ handler[y] = "none"
        /\ kept = {} /\ acks = {} /\ settling = {} /\ stopped = {} /\ cancelled = {} /\ cut = {} /\ relay = "off"
    BY DEF BridgeInit
  <2> QED
    BY <2>1, <2>2 DEF JobOK, JobFine, EarlyFine, HostFine, EdgeFine, DataFine
<1>5. OrderOK
  BY <1>1 DEF OrderOK
<1>6. RoomOK
  <2>1. Active = {}
    BY DEF Active, BridgeInit
  <2>2. published = 0
    BY DEF BridgeInit
  <2> QED
    BY <1>1, <2>1, <2>2 DEF RoomOK, EdgeRoom
<1> QED
  BY <1>2, <1>3, <1>4, <1>5, <1>6 DEF BridgeInv, JobsOK

\* Every step of either end keeps the invariant.
LEMMA BridgeSteps == ASSUME BridgeInv, [BridgeNext]_bridgeVars PROVE BridgeInv'
<1>1. CASE UNCHANGED bridgeVars
  BY <1>1 DEF bridgeVars, edgeVars, relayVars, BridgeInv, BridgeTypeOK, LineOK, LineFine, JobsOK, JobOK, OrderOK,
              RoomOK, Active, EdgeRoom, KeysFirst
<1>2. CASE RelayConnect
  BY <1>2, ConnectKeeps
<1>3. CASE RelayPublish
  BY <1>3, PublishesKeep
<1>4. CASE RelayBreaks
  <2>1. relay = "on" /\ RelayEnds /\ UNCHANGED <<edgeVars, cut, early>> /\ broken' = broken
    BY <1>4 DEF RelayBreaks
  <2>2. broken \in BOOLEAN
    BY DEF BridgeInv, BridgeTypeOK
  <2> QED
    BY <2>1, <2>2, EndsKeeps
<1>5. CASE RelayJoins
  BY <1>5, JoinsKeep
<1>6. CASE RelayHears
  BY <1>6, HearsKeeps
<1>7. CASE EdgeHears
  BY <1>7, EdgeHearsKeeps
<1>8. ASSUME NEW j \in Jobs, EdgeGivesUp(j) PROVE BridgeInv'
  <2>1. EdgeFail(j) /\ UNCHANGED <<busy, got, toEdge, relayVars, cut, broken>>
    BY <1>8 DEF EdgeGivesUp
  <2>2. job[j] \in {"queued", "active"}
    BY <2>1 DEF EdgeFail
  <2>3. CASE job[j] = "queued"
    BY <2>1, <2>3, LeavesKeep
  <2>4. CASE job[j] = "active"
    <3>1. Quieter
      BY <2>1 DEF Quieter, BridgeInv, BridgeTypeOK, OrderOK
    <3>2. \A y : Coming(toEdge', y) = Coming(toEdge, y)
      BY <2>1
    <3> QED
      BY <2>1, <2>4, <3>1, <3>2, GivesUpKeeps
  <2> QED
    BY <2>2, <2>3, <2>4
<1>9. ASSUME NEW j \in Jobs, EdgeCancelExpires(j) PROVE BridgeInv'
  <2>1. EdgeDisconnect /\ UNCHANGED <<busy, got, toEdge, relayVars, cut, broken>>
    BY <1>9 DEF EdgeCancelExpires
  <2>2. Quieter
    BY <2>1 DEF Quieter, BridgeInv, BridgeTypeOK, OrderOK
  <2> QED
    BY <2>1, <2>2, DisconnectKeeps
<1>10. ASSUME NEW j \in Jobs,
              \/ EdgeAdmit(j) \/ EdgeEnqueue(j) \/ EdgeWrote(j) \/ EdgeClosed(j) \/ RelaySettled(j) \/ RelayWrites(j)
              \/ RelayAcked(j) \/ RelayUnacked(j) \/ RelayFinishes(j)
       PROVE  BridgeInv'
  BY <1>10, AdmitKeeps, EnqueueKeeps, WroteKeeps, ClosedKeeps, SettledKeeps, WritesKeep, WaitsKeep, FinishesKeep
<1>11. CASE EdgeDrops
  <2>1. EdgeDisconnect /\ UNCHANGED <<busy, got, toEdge, relayVars, cut, broken>>
    BY <1>11 DEF EdgeDrops
  <2>2. Quieter
    BY <2>1 DEF Quieter, BridgeInv, BridgeTypeOK, OrderOK
  <2> QED
    BY <2>1, <2>2, DisconnectKeeps
<1> QED
  BY <1>1, <1>2, <1>3, <1>4, <1>5, <1>6, <1>7, <1>8, <1>9, <1>10, <1>11 DEF BridgeNext

\* What each end keeps of a job always fits what is on its way.
LEMMA BridgeAlwaysInv == BridgeSpec => []BridgeInv
BY BridgeStarts, BridgeSteps, PTL DEF BridgeSpec

\* Neither end refuses a frame of the other, whatever is cancelled, late or in flight, unless a request
\* was started before the host's first snapshot; and no more handlers run at the host than it has slots,
\* over cancels, disconnects and reconnects.
THEOREM EndsAlwaysKeepStep == BridgeSpec => []EndsKeepStep
<1>1. ASSUME BridgeInv PROVE EndsKeepStep
  <2>1. EndsAgree
    BY <1>1 DEF BridgeInv, KeysFirst, BridgeTypeOK, EndsAgree
  <2>2. Running \subseteq kept /\ kept \subseteq Jobs /\ Cardinality(kept) <= Capacity /\ Capacity \in Nat
    BY <1>1, BridgeAssumption DEF BridgeInv, JobsOK, JobOK, JobFine, HostFine, Running, BridgeTypeOK, RoomOK
  <2>3. HostNotOverrun
    BY <2>2, FewerJobs DEF HostNotOverrun
  <2> QED
    BY <2>1, <2>3 DEF EndsKeepStep
<1> QED
  BY <1>1, BridgeAlwaysInv, PTL

\* A client of the bridge that saw its response end has every chunk the host wrote, and the handler was
\* not cut short, whatever was cancelled, broken off or reconnected meanwhile.
THEOREM CompleteAlwaysMeansAll == BridgeSpec => []CompleteMeansAll
<1>1. ASSUME BridgeInv PROVE CompleteMeansAll
  BY <1>1 DEF BridgeInv, JobsOK, JobOK, JobFine, DataFine, CompleteMeansAll
<1> QED
  BY <1>1, BridgeAlwaysInv, PTL
=============================================================================
