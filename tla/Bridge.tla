------------------------------- MODULE Bridge -------------------------------
(***************************************************************************)
(* The public bridge: the Durable Object that holds a host's socket        *)
(* (bridge/src/index.ts) and the host's client (internal/bridge/client.go, *)
(* config.go).  The object admits public requests, keeps a short line and  *)
(* at most the negotiated number of active jobs, and speaks one ordered    *)
(* socket with the client, which runs one handler for each job.  Clients   *)
(* go away or stall, deadlines pass, the socket breaks and the host        *)
(* reconnects, each at any time.  A request frame stands for request, body *)
(* and end, which the object sends in one go.                              *)
(***************************************************************************)
EXTENDS Naturals, Sequences, FiniteSets, SequencesExt

CONSTANTS
    Jobs,       \* public requests
    Capacity,   \* the host's slots, sampled when it connects
    LineCap,    \* waiting jobs of a host (4)
    MaxData,    \* bound on the chunks of a response
    MaxConns    \* bound on connections

ASSUME BridgeAssumption ==
    IsFiniteSet(Jobs) /\ {Capacity, LineCap, MaxData, MaxConns} \subseteq Nat /\ Capacity > 0

VARIABLES
    job,        \* the object's request: new, reading, queued, active, gone
    seen,       \* what its client has: none, open, complete, failed
    busy,       \* what its writer awaits: free, write, close
    got,        \* chunks the client was given
    line, cancelled, published, edgeKeys,
    socket,     \* the object's socket: 0, or the number of the connection
    toEdge, toRelay,
    relay,      \* the client: off, on, ending
    conns,      \* connections so far
    limit,      \* slots the client was granted, 0 before
    handler,    \* of each job at the host: none, work, ack, bad, over
    kept,       \* jobs in the client's map
    settling, stopped, \* jobs being settled, handlers whose context is cancelled
    started, acks, wrote,
    cut,        \* history: handlers that returned because their context was cancelled
    early,      \* history: a job was started on a socket before its first snapshot
    broken      \* history: one side refused the other's frame

edgeVars == <<job, seen, busy, got, line, cancelled, published, edgeKeys, socket>>
relayVars == <<relay, conns, limit, handler, kept, settling, stopped, started, acks, wrote>>
bridgeVars == <<edgeVars, toEdge, toRelay, relayVars, cut, early, broken>>

BridgeInit ==
    /\ job = [j \in Jobs |-> "new"] /\ seen = [j \in Jobs |-> "none"]
    /\ busy = [j \in Jobs |-> "free"] /\ got = [j \in Jobs |-> 0]
    /\ line = <<>> /\ cancelled = {} /\ published = 0 /\ edgeKeys = FALSE /\ socket = 0
    /\ toEdge = <<>> /\ toRelay = <<>>
    /\ relay = "off" /\ conns = 0 /\ limit = 0
    /\ handler = [j \in Jobs |-> "none"] /\ kept = {} /\ settling = {} /\ stopped = {}
    /\ started = {} /\ acks = {} /\ wrote = [j \in Jobs |-> 0]
    /\ cut = {} /\ early = FALSE /\ broken = FALSE

Packet(type, j) == [type |-> type, job |-> j]
Hello(type) == [type |-> type]
Active == {j \in Jobs : job[j] = "active"}
Running == {j \in Jobs : handler[j] \in {"work", "ack", "bad"}}

----------------------------------------------------------------------------
(* The object. *)

\* next(): jobs of the line start while there is room; before a snapshot there is room for one.
Starts(state, queue, sent) ==
    LET room == (IF published = 0 THEN 1 ELSE published) - Cardinality({j \in Jobs : state[j] = "active"})
        n == IF room < Len(queue) THEN room ELSE Len(queue)
        first == SubSeq(queue, 1, n)
    IN  /\ job' = [j \in Jobs |-> IF j \in ToSet(first) THEN "active" ELSE state[j]]
        /\ line' = SubSeq(queue, n + 1, Len(queue))
        /\ toRelay' = toRelay \o sent \o [i \in 1..n |-> Packet("request", first[i])]
        /\ early' = (early \/ (n > 0 /\ published = 0))

\* A request passes the key check and the line's, then its body is read.
EdgeAdmit(j) ==
    /\ job[j] = "new" /\ edgeKeys /\ socket # 0 /\ Len(line) < LineCap
    /\ job' = [job EXCEPT ![j] = "reading"]
    /\ UNCHANGED <<seen, busy, got, line, cancelled, published, edgeKeys, socket, toEdge, toRelay, relayVars, cut, early, broken>>

\* With the body in, only the socket and the line are looked at again.
EdgeEnqueue(j) ==
    /\ job[j] = "reading"
    /\ \/ /\ socket # 0 /\ Len(line) < LineCap
          /\ Starts([job EXCEPT ![j] = "queued"], Append(line, j), <<>>)
          /\ UNCHANGED seen
       \/ /\ job' = [job EXCEPT ![j] = "gone"] /\ seen' = [seen EXCEPT ![j] = "failed"]
          /\ UNCHANGED <<line, toRelay, early>>
    /\ UNCHANGED <<busy, got, cancelled, published, edgeKeys, socket, toEdge, relayVars, cut, broken>>

\* The line when j, which waits in it once, has left it.
LineWithout(j) == RemoveAt(line, CHOOSE i \in DOMAIN line : line[i] = j)

Spoiled(js) == [j \in Jobs |-> IF j \in js /\ seen[j] # "complete" THEN "failed" ELSE seen[j]]

\* disconnect(): every job fails and the client learns of the close after what was sent.
EdgeDisconnect ==
    LET lost == Active \cup ToSet(line)
    IN  /\ socket' = 0 /\ published' = 0 /\ line' = <<>>
        /\ job' = [j \in Jobs |-> IF j \in lost THEN "gone" ELSE job[j]]
        /\ seen' = Spoiled(lost) /\ cancelled' = cancelled \cup lost
        /\ toRelay' = Append(toRelay, Hello("closed"))
        /\ UNCHANGED early

\* Mutant: the slot of a cancelled job is taken back at once.
EdgeFailAtOnce(j) ==
    /\ job[j] \in {"queued", "active"} /\ j \notin cancelled
    /\ cancelled' = cancelled \cup {j} /\ seen' = Spoiled({j})
    /\ IF job[j] = "active"
       THEN Starts([job EXCEPT ![j] = "gone"], line, <<Packet("cancel", j)>>)
       ELSE Starts([job EXCEPT ![j] = "gone"], LineWithout(j), <<>>)
    /\ UNCHANGED <<published, socket>>

\* fail(): a waiting job leaves the line; an active one keeps its slot until the host confirms.
EdgeFail(j) ==
    /\ job[j] \in {"queued", "active"} /\ j \notin cancelled
    /\ cancelled' = cancelled \cup {j} /\ seen' = Spoiled({j})
    /\ IF job[j] = "active"
       THEN toRelay' = Append(toRelay, Packet("cancel", j)) /\ UNCHANGED <<job, line, early>>
       ELSE Starts([job EXCEPT ![j] = "gone"], LineWithout(j), <<>>)
    /\ UNCHANGED <<published, socket>>

\* The client goes away, its write fails, or the deadline passes.
EdgeGivesUp(j) ==
    /\ EdgeFail(j)
    /\ UNCHANGED <<busy, got, edgeKeys, toEdge, relayVars, cut, broken>>

\* The host has not confirmed a cancel in time.
EdgeCancelExpires(j) ==
    /\ job[j] = "active" /\ j \in cancelled /\ socket # 0
    /\ EdgeDisconnect
    /\ UNCHANGED <<busy, got, edgeKeys, toEdge, relayVars, cut, broken>>

\* The object drops the socket of itself: the host is registered anew or disabled, or a frame of a
\* job that starts cannot be sent.  (Keys, which registration clears, count only with a socket.)
EdgeDrops ==
    /\ socket # 0 /\ EdgeDisconnect
    /\ UNCHANGED <<busy, got, edgeKeys, toEdge, relayVars, cut, broken>>

\* The client has taken a chunk; the host is told unless the job was given up meanwhile.
EdgeWrote(j) ==
    /\ busy[j] = "write" /\ busy' = [busy EXCEPT ![j] = "free"]
    /\ LET live == job[j] = "active" /\ j \notin cancelled
       IN  /\ got' = IF live THEN [got EXCEPT ![j] = @ + 1] ELSE got
           /\ toRelay' = IF live THEN Append(toRelay, Packet("ack", j)) ELSE toRelay
    /\ UNCHANGED <<job, seen, line, cancelled, published, edgeKeys, socket, toEdge, relayVars, cut, early, broken>>

\* The client has taken the end: the slot is free and the host is told so.
EdgeClosed(j) ==
    /\ busy[j] = "close" /\ busy' = [busy EXCEPT ![j] = "free"]
    /\ IF job[j] = "active" /\ j \notin cancelled
       THEN /\ seen' = [seen EXCEPT ![j] = "complete"]
            /\ Starts([job EXCEPT ![j] = "gone"], line, <<Packet("ready", j)>>)
       ELSE UNCHANGED <<seen, job, line, toRelay, early>>
    /\ UNCHANGED <<got, cancelled, published, edgeKeys, socket, toEdge, relayVars, cut, broken>>

\* webSocketMessage and webSocketClose; the frames of a cancelled job are drained until the
\* host's ready.
EdgeHears ==
    /\ socket # 0 /\ toEdge # <<>>
    /\ toEdge' = Tail(toEdge)
    /\ LET f == Head(toEdge)
           j == f.job
           Same == UNCHANGED <<job, seen, line, cancelled, published, socket, toRelay, early>>
       IN  CASE f.type = "closed" -> EdgeDisconnect /\ UNCHANGED <<busy, edgeKeys, broken>>
             [] f.type = "keys" ->
                  /\ published' = Capacity /\ edgeKeys' = TRUE
                  /\ toRelay' = Append(toRelay, Hello("keys_ready"))
                  /\ UNCHANGED <<job, seen, line, cancelled, socket, early, busy, broken>>
             [] f.type \notin {"closed", "keys"} /\ job[j] # "active" ->
                  EdgeDisconnect /\ broken' = TRUE /\ UNCHANGED <<busy, edgeKeys>>
             [] f.type = "ready" /\ job[j] = "active" ->
                  IF j \in cancelled
                  THEN /\ Starts([job EXCEPT ![j] = "gone"], line, <<>>)
                       /\ UNCHANGED <<seen, cancelled, published, socket, busy, edgeKeys, broken>>
                  ELSE EdgeDisconnect /\ broken' = TRUE /\ UNCHANGED <<busy, edgeKeys>>
             [] f.type \notin {"closed", "keys", "ready"} /\ job[j] = "active" ->
                  IF j \in cancelled THEN Same /\ UNCHANGED <<busy, edgeKeys, broken>>
                  ELSE CASE f.type = "cancel" -> EdgeFail(j) /\ UNCHANGED <<busy, edgeKeys, broken>>
                         [] f.type = "response" ->
                              /\ seen' = [seen EXCEPT ![j] = "open"]
                              /\ UNCHANGED <<job, line, cancelled, published, socket, toRelay, early, busy, edgeKeys, broken>>
                         [] f.type \in {"data", "end"} ->
                              /\ busy' = [busy EXCEPT ![j] = IF f.type = "data" THEN "write" ELSE "close"]
                              /\ Same /\ UNCHANGED <<edgeKeys, broken>>
    /\ UNCHANGED <<got, relayVars, cut>>

----------------------------------------------------------------------------
(* The host's client. *)

\* publish(): the complete set of active keys, and the slots.
Snapshot == Hello("keys")

\* A session: the object drops the old socket and its keys, and the client's first frame is a
\* complete snapshot.
RelayConnect ==
    /\ relay = "off" /\ conns < MaxConns
    /\ relay' = "on" /\ conns' = conns + 1 /\ limit' = 0
    /\ LET lost == Active \cup ToSet(line)
       IN  /\ job' = [j \in Jobs |-> IF j \in lost THEN "gone" ELSE job[j]]
           /\ seen' = Spoiled(lost) /\ cancelled' = cancelled \cup lost
    /\ line' = <<>> /\ published' = 0 /\ edgeKeys' = FALSE /\ socket' = conns + 1
    /\ toRelay' = <<>> /\ toEdge' = <<Snapshot>>
    /\ UNCHANGED <<busy, got, handler, kept, settling, stopped, started, acks, wrote, cut, early, broken>>

\* A reload or a changed key publishes the snapshot again (here: once the last is acknowledged).
RelayPublish ==
    /\ relay = "on" /\ limit > 0
    /\ \A f \in ToSet(toEdge) \cup ToSet(toRelay) : f.type \notin {"keys", "keys_ready"}
    /\ toEdge' = Append(toEdge, Snapshot)
    /\ UNCHANGED <<edgeVars, toRelay, relayVars, cut, early, broken>>

\* The session ends: every handler's context is cancelled, and they are joined.
RelayEnds ==
    /\ relay' = "ending" /\ stopped' = stopped \cup Running
    /\ toRelay' = <<>>
    /\ \E n \in 0..Len(toEdge) : toEdge' = Append(SubSeq(toEdge, 1, n), Hello("closed"))
    /\ UNCHANGED <<conns, limit, handler, kept, settling, started, acks, wrote>>
RelayBreaks ==
    /\ relay = "on" /\ conns < MaxConns /\ RelayEnds
    /\ UNCHANGED <<edgeVars, cut, early, broken>>

RelayJoins ==
    /\ relay = "ending" /\ Running = {}
    /\ relay' = "off" /\ kept' = {} /\ settling' = {} /\ acks' = {}
    /\ UNCHANGED <<edgeVars, toEdge, toRelay, conns, limit, handler, stopped, started, wrote, cut, early, broken>>

\* The dispatcher takes the next frame.
RelayHears ==
    /\ relay = "on" /\ toRelay # <<>>
    /\ LET f == Head(toRelay)
           j == f.job
           Takes == toRelay' = Tail(toRelay) /\ UNCHANGED <<relay, toEdge, conns, started, wrote, broken>>
           Refuses == RelayEnds /\ broken' = TRUE
       IN  CASE f.type = "closed" -> RelayEnds /\ UNCHANGED broken
             [] f.type = "keys_ready" ->
                  limit' = Capacity /\ Takes /\ UNCHANGED <<handler, kept, settling, stopped, acks>>
             [] f.type = "request" ->
                  IF limit > 0 /\ Cardinality(kept) < limit /\ j \notin kept
                  THEN /\ kept' = kept \cup {j} /\ handler' = [handler EXCEPT ![j] = "work"]
                       /\ Takes /\ UNCHANGED <<limit, settling, stopped, acks>>
                  ELSE Refuses
             [] f.type = "ack" ->
                  IF j \in kept /\ j \notin acks
                  THEN acks' = acks \cup {j} /\ Takes /\ UNCHANGED <<limit, handler, kept, settling, stopped>>
                  ELSE Refuses
             [] f.type = "cancel" ->
                  IF j \in kept
                  THEN /\ settling' = settling \cup {j} /\ stopped' = stopped \cup {j}
                       /\ Takes /\ UNCHANGED <<limit, handler, kept, acks>>
                  ELSE Refuses
             [] f.type = "ready" ->
                  IF j \in kept \ settling
                  THEN /\ handler[j] = "over" /\ kept' = kept \ {j}
                       /\ Takes /\ UNCHANGED <<limit, handler, settling, stopped, acks>>
                  ELSE Refuses
    /\ UNCHANGED <<edgeVars, cut, early>>

\* A cancelled handler has ended: its slot is given back.
RelaySettled(j) ==
    /\ relay = "on" /\ j \in settling \cap kept /\ handler[j] = "over"
    /\ kept' = kept \ {j}
    /\ toEdge' = Append(toEdge, Packet("ready", j))
    /\ UNCHANGED <<edgeVars, toRelay, relay, conns, limit, handler, settling, stopped, started, acks, wrote, cut, early, broken>>

\* The response of a handler: its head, a chunk that waits for its acknowledgement, its end.
\* Once the session is over nothing is sent any more.
Says(types, j) ==
    toEdge' = IF relay = "on" THEN toEdge \o [i \in DOMAIN types |-> Packet(types[i], j)] ELSE toEdge
Opening(j) == IF j \in started THEN <<>> ELSE <<"response">>
RelayWrites(j) ==
    /\ handler[j] = "work" /\ wrote[j] < MaxData
    /\ IF relay = "on" THEN handler' = [handler EXCEPT ![j] = "ack"] /\ wrote' = [wrote EXCEPT ![j] = @ + 1]
       ELSE handler' = [handler EXCEPT ![j] = "bad"] /\ UNCHANGED wrote
    /\ Says(Opening(j) \o <<"data">>, j) /\ started' = started \cup {j}
    /\ UNCHANGED <<edgeVars, toRelay, relay, conns, limit, kept, settling, stopped, acks, cut, early, broken>>
RelayAcked(j) ==
    /\ handler[j] = "ack" /\ j \in acks
    /\ acks' = acks \ {j} /\ handler' = [handler EXCEPT ![j] = "work"]
    /\ UNCHANGED <<edgeVars, toEdge, toRelay, relay, conns, limit, kept, settling, stopped, started, wrote, cut, early, broken>>
\* No acknowledgement: the context is done, or the wait has passed and cancels it.
RelayUnacked(j) ==
    /\ handler[j] = "ack"
    /\ handler' = [handler EXCEPT ![j] = "bad"] /\ stopped' = stopped \cup {j}
    /\ UNCHANGED <<edgeVars, toEdge, toRelay, relay, conns, limit, kept, settling, started, acks, wrote, cut, early, broken>>

\* Mutant: a response that could not be delivered ends like one that was.
RelayFinishesAnyway(j) ==
    /\ handler[j] \in {"work", "bad"} /\ handler' = [handler EXCEPT ![j] = "over"]
    /\ cut' = IF j \in stopped THEN cut \cup {j} ELSE cut
    /\ Says(Opening(j) \o <<"end">>, j) /\ started' = started \cup {j}
    /\ UNCHANGED <<edgeVars, toRelay, relay, conns, limit, kept, settling, stopped, acks, wrote, early, broken>>

\* finish(): the end, or a cancel when something went wrong.  A handler whose context is
\* cancelled returns early, and its answer may still end well.
RelayFinishes(j) ==
    /\ handler[j] \in {"work", "bad"} /\ handler' = [handler EXCEPT ![j] = "over"]
    /\ cut' = IF j \in stopped THEN cut \cup {j} ELSE cut
    /\ IF handler[j] = "work" THEN Says(Opening(j) \o <<"end">>, j) /\ started' = started \cup {j}
       ELSE Says(<<"cancel">>, j) /\ UNCHANGED started
    /\ UNCHANGED <<edgeVars, toRelay, relay, conns, limit, kept, settling, stopped, acks, wrote, early, broken>>

BridgeNext ==
    \/ RelayConnect \/ RelayPublish \/ RelayBreaks \/ RelayJoins \/ RelayHears \/ EdgeHears \/ EdgeDrops
    \/ \E j \in Jobs :
         \/ EdgeAdmit(j) \/ EdgeEnqueue(j) \/ EdgeGivesUp(j) \/ EdgeCancelExpires(j) \/ EdgeWrote(j) \/ EdgeClosed(j)
         \/ RelaySettled(j) \/ RelayWrites(j) \/ RelayAcked(j) \/ RelayUnacked(j) \/ RelayFinishes(j)

BridgeSpec == BridgeInit /\ [][BridgeNext]_bridgeVars

----------------------------------------------------------------------------
(* Properties. *)

\* Two faithful ends never refuse each other's frames, whatever is cancelled, late or in
\* flight; the one exception is a request that was read while the host reconnected.
EndsAgree == broken => early

\* A client that saw its response end has every chunk the host wrote, and the handler was not
\* cut short.
CompleteMeansAll == \A j \in Jobs : seen[j] = "complete" => got[j] = wrote[j] /\ j \notin cut

\* No more handlers run at the host than it has slots, over cancels, disconnects and reconnects.
HostNotOverrun == Cardinality(Running) <= Capacity

\* bridge/README.md: "A new socket starts fail-closed with an empty set until its first
\* snapshot arrives", so nothing is started on a socket before that.
FailClosed == ~early

\* The two ends keep step: no frame is refused and no slot is given out twice.
EndsKeepStep == EndsAgree /\ HostNotOverrun
=============================================================================
