-------------------------- MODULE ResponsesStream --------------------------
(***************************************************************************)
(* POST /v1/responses over a chat engine (internal/gateway/responses.go,   *)
(* responses_stream.go): the request's history is translated to chat       *)
(* messages, and the engine's chat chunks are translated back, as they     *)
(* come, to the items and events of a Responses stream.  The engine may    *)
(* cut its answer into chunks anywhere, interleave function calls, change  *)
(* its mind, or stop; the client may stop reading at any event.            *)
(***************************************************************************)
EXTENDS Naturals, Sequences, SequencesExt, FiniteSets

CONSTANTS
    Indices,    \* tool call indices the engine uses
    CallIds,    \* tool call ids the engine uses
    MaxChunks,  \* bound on the engine's chunks
    MaxHistory  \* bound on the items of the request's input

ASSUME ResponsesAssumption == Indices \subseteq Nat /\ MaxChunks \in Nat /\ MaxHistory \in Nat

VARIABLES
    history,   \* the request's input items, until they are sent
    messages,  \* the chat messages they become, likewise
    items,     \* responseOutput.items
    calls,     \* responseOutput.calls
    reason,    \* finishReason
    events,    \* what the client was sent
    upstream,  \* the engine's stream: open, done, ended
    response,  \* the request: new, translated, open, completing, closed
    chunks,    \* chunks with a choice so far, also the payload of the current one; a chunk
               \* without one, such as the usage, changes nothing
    said       \* history: the pieces of the answer, in the engine's order

responseVars == <<history, messages, items, calls, reason, events, upstream, response, chunks, said>>

----------------------------------------------------------------------------
(* translateResponses: the input items, in order. *)

HistoryKinds == {"message", "reasoning", "call", "output"}

\* Reasoning is dropped; calls that stand next to each other are one assistant turn.
Translated(h) ==
    FoldLeft(LAMBDA ms, i :
               CASE h[i] = "reasoning" -> ms
                 [] h[i] = "call" /\ ms # <<>> /\ ms[Len(ms)].kind = "calls" -> [ms EXCEPT ![Len(ms)].of = Append(@, i)]
                 [] OTHER -> Append(ms, [kind |-> IF h[i] = "call" THEN "calls" ELSE h[i], of |-> <<i>>]),
             <<>>, [i \in 1 .. Len(h) |-> i])

ResponsesInit ==
    /\ history \in UNION {[1 .. n -> HistoryKinds] : n \in 0 .. MaxHistory}
    /\ messages = <<>> /\ items = <<>> /\ events = <<>> /\ said = <<>>
    /\ calls = [i \in {} |-> 0]
    /\ reason = "" /\ upstream = "open" /\ response = "new"
    /\ chunks = 0

----------------------------------------------------------------------------
(* A chunk, piece by piece: out is what has been assembled and sent so far. *)

Whole == <<"response", 0>>
Kind(k) == <<k, 0>>
Out == [items |-> items, calls |-> calls, sent |-> <<>>, error |-> FALSE]
Send(out, kind, slot) == [out EXCEPT !.sent = Append(@, [kind |-> kind, slot |-> slot])]
Refuse(out) == [out EXCEPT !.error = TRUE]
Slots(its) == {its[i].slot : i \in DOMAIN its}
At(its, slot) == CHOOSE i \in DOMAIN its : its[i].slot = slot
Added(out, slot) ==
    Send([out EXCEPT !.items = Append(@, [slot |-> slot, payload |-> <<>>])], "added", slot)
Delta(out, slot, p) ==
    Send([out EXCEPT !.items[At(out.items, slot)].payload = Append(@, p)], "delta", slot)

\* textDelta: the first delta of a kind adds its item (and part), the others go to it.
TextDelta(out, kind, p) ==
    IF out.error THEN out
    ELSE Delta(IF Kind(kind) \in Slots(out.items) THEN out ELSE Send(Added(out, Kind(kind)), "part", Kind(kind)), Kind(kind), p)

\* startCall: an item of its own, unless a call that has begun has the same id; without an
\* id the call gets a fresh one, here its own index.
StartCall(out, i) ==
    LET cid == IF out.calls[i].cid = <<>> THEN <<i>> ELSE out.calls[i].cid
    IN  IF out.error \/ <<"call", i>> \in Slots(out.items) THEN out
        ELSE IF \E j \in DOMAIN out.calls \ {i} : <<"call", j>> \in Slots(out.items) /\ out.calls[j].cid = cid
        THEN Refuse(out)
        ELSE Added([out EXCEPT !.calls[i].cid = cid], <<"call", i>>)

\* toolDelta: the id comes in fragments until the call has begun and must not change after.
ToolDelta(out, d, p) ==
    LET known == IF d.index \in DOMAIN out.calls THEN out.calls
                 ELSE [i \in DOMAIN out.calls \cup {d.index} |-> IF i = d.index THEN [cid |-> <<>>] ELSE out.calls[i]]
        o1 == [out EXCEPT !.calls = known]
        cid == known[d.index].cid
        running == <<"call", d.index>> \in Slots(out.items)
        o2 == IF running THEN IF d.cid # <<>> /\ d.cid # cid THEN Refuse(o1) ELSE o1
              ELSE [o1 EXCEPT !.calls[d.index].cid = IF d.cid = @ THEN @ ELSE @ \o d.cid]
        o3 == StartCall(o2, d.index)
    IN  IF out.error THEN out
        ELSE IF o2.error \/ ~d.args THEN o2
        ELSE IF o3.error THEN o3
        ELSE Delta(o3, <<"call", d.index>>, p)

\* What the client receives of the events of one step: all, or it stops reading at one.  A
\* step that fails is followed by one attempt to send response.failed.
Delivered(sent, fails) ==
    \/ /\ ~fails /\ events' = events \o sent
       /\ UNCHANGED response
    \/ /\ fails /\ events' = events \o sent \o << [kind |-> "failed", slot |-> Whole] >>
       /\ response' = "closed"
    \/ /\ \E k \in 0 .. Len(sent) : events' = events \o SubSeq(sent, 1, k)
       /\ response' = "closed"

----------------------------------------------------------------------------
(* The stream. *)

Translate ==
    /\ response = "new"
    /\ messages' = Translated(history)
    /\ response' = "translated"
    /\ UNCHANGED <<history, items, calls, reason, events, upstream, chunks, said>>

\* The pipeline before the engine may still refuse; otherwise the body goes to the engine and
\* the stream begins.
BeginResponse ==
    /\ response = "translated"
    /\ \/ response' = "open" /\ events' = << [kind |-> "created", slot |-> Whole] >>
       \/ response' = "closed" /\ UNCHANGED events
    /\ history' = <<>> /\ messages' = <<>>
    /\ UNCHANGED <<items, calls, reason, upstream, chunks, said>>

ToolDeltas == [index : Indices, cid : {<<>>} \cup {<<c>> : c \in CallIds}, args : BOOLEAN]

Deliver(out) == items' = out.items /\ calls' = out.calls /\ Delivered(out.sent, out.error)

\* One chunk with any of reasoning, text and refusal and up to one tool delta.  A chunk of several
\* tool deltas is as many chunks in a row: nothing tells the two apart.
Chunk(kinds, tool) ==
    LET p == chunks + 1
        o1 == IF "reasoning" \in kinds THEN TextDelta(Out, "reasoning", p) ELSE Out
        o2 == IF "text" \in kinds THEN TextDelta(o1, "text", p) ELSE o1
        o3 == IF "refusal" \in kinds THEN TextDelta(o2, "refusal", p) ELSE o2
        o4 == IF tool = {} THEN o3 ELSE ToolDelta(o3, CHOOSE d \in tool : TRUE, p)
        pieces == SelectSeq(<<Kind("reasoning"), Kind("text"), Kind("refusal")>>, LAMBDA k : k[1] \in kinds)
                  \o (IF tool = {} THEN <<>> ELSE << <<"call", (CHOOSE d \in tool : TRUE).index>> >>)
    IN  /\ response = "open" /\ upstream = "open" /\ chunks < MaxChunks
        /\ chunks' = p
        /\ IF reason = "" THEN Deliver(o4)
           ELSE IF kinds = {} /\ tool = {} THEN Deliver(Out) ELSE Deliver(Refuse(Out))
        /\ said' = said \o [i \in DOMAIN pieces |-> [slot |-> pieces[i], p |-> p,
                              args |-> tool # {} /\ (CHOOSE d \in tool : TRUE).args]]
        /\ \E r \in {"", "stop", "length"} : reason' = IF reason = "" THEN r ELSE reason
        /\ UNCHANGED <<history, messages, upstream>>

\* An error object, several choices, or text that is no chunk.
BadChunk ==
    /\ response = "open" /\ upstream = "open"
    /\ Deliver(Refuse(Out))
    /\ UNCHANGED <<history, messages, reason, upstream, chunks, said>>

\* [DONE], the end of the body, or a broken body; without an end of its own the answer fails.
StreamStops ==
    /\ response = "open" /\ upstream = "open"
    /\ \/ upstream' = "done" /\ response' = "completing" /\ UNCHANGED events
       \/ /\ upstream' = "ended"
          /\ \/ reason # "" /\ response' = "completing" /\ UNCHANGED events
             \/ Delivered(<<>>, TRUE)
    /\ UNCHANGED <<history, messages, items, calls, reason, chunks, said>>

\* Mutant: calls that have not begun are added in the order the map gives them.
PendingShuffled == SetToSortSeq(DOMAIN calls, LAMBDA a, b : a > b)
\* The calls the engine named without arguments, by index.
Pending == SetToSortSeq(DOMAIN calls, LAMBDA a, b : a < b)

DoneEvents(its) ==
    FlattenSeq([i \in DOMAIN its |-> << [kind |-> "payload", slot |-> its[i].slot],
                                        [kind |-> "done", slot |-> its[i].slot] >>])

\* complete: start what was only named, close every item in order, close the response; without
\* a reason to stop of the engine's own it is incomplete.  It fails when no chunk had a choice, and
\* at any event that takes the response over its size.
Complete ==
    LET opened == FoldLeft(StartCall, Out, Pending)
        status == IF reason = "stop" THEN "completed" ELSE "incomplete"
        out == [opened EXCEPT !.sent = @ \o DoneEvents(opened.items) \o << [kind |-> status, slot |-> Whole] >>]
    IN  /\ response = "completing"
        /\ IF chunks = 0 THEN Delivered(<<>>, TRUE) /\ UNCHANGED <<items, calls>>
           ELSE IF opened.error THEN Deliver(opened)
           ELSE /\ items' = out.items /\ calls' = out.calls
                /\ \E k \in 0 .. Len(out.sent) :
                      \/ events' = events \o SubSeq(out.sent, 1, k)
                      \/ k < Len(out.sent) /\ events' = events \o SubSeq(out.sent, 1, k) \o << [kind |-> "failed", slot |-> Whole] >>
                /\ response' = "closed"
        /\ UNCHANGED <<history, messages, reason, upstream, chunks, said>>

ResponsesNext ==
    \/ Translate \/ BeginResponse \/ BadChunk \/ StreamStops \/ Complete
    \/ \E kinds \in {{}, {"reasoning"}, {"text"}, {"refusal"}, {"reasoning", "text", "refusal"}} : Chunk(kinds, {})
    \/ \E kinds \in {{}, {"text"}}, d \in ToolDeltas : Chunk(kinds, {d})

ResponsesSpec == ResponsesInit /\ [][ResponsesNext]_responseVars

----------------------------------------------------------------------------
(* Properties. *)

Completed == events # <<>> /\ events[Len(events)].kind \in {"completed", "incomplete"}

\* The items of a response that was ended in order are those of the engine's whole answer, whatever the
\* chunks: one per kind and call, in the order in which they began, calls without arguments
\* last by index, each with exactly its own pieces.
AnswerIsChunkFree ==
    Completed =>
      LET Pieces(s) == SelectSeq(said, LAMBDA x : x.slot = s /\ (s[1] = "call" => x.args))
          begun == {s \in {said[i].slot : i \in DOMAIN said} : Pieces(s) # <<>>}
          named == {said[i].slot : i \in DOMAIN said} \ begun
          Begins(s) == CHOOSE i \in DOMAIN said : said[i] = Head(Pieces(s))
          order == SetToSortSeq(begun, LAMBDA a, b : Begins(a) < Begins(b))
                   \o SetToSortSeq(named, LAMBDA a, b : a[2] < b[2])
      IN  items = [i \in DOMAIN order |->
                     [slot |-> order[i], payload |-> [k \in DOMAIN Pieces(order[i]) |-> Pieces(order[i])[k].p]]]

\* The events are well formed at every moment, read or cut off: an item's deltas lie between
\* its one added and its one done, and nothing follows the event that ends the response.
EventsWellFormed ==
    /\ \A i \in DOMAIN events :
         /\ events[i].kind \in {"completed", "incomplete", "failed"} => i = Len(events)
         /\ events[i].kind \in {"delta", "part", "payload", "done"} =>
              Cardinality({j \in 1 .. i - 1 : events[j] = [kind |-> "added", slot |-> events[i].slot]}) = 1
         /\ events[i].kind = "delta" => ~\E j \in 1 .. i - 1 : events[j] = [kind |-> "done", slot |-> events[i].slot]
    /\ Completed => \A s \in Slots(items) : Cardinality({i \in DOMAIN events : events[i] = [kind |-> "done", slot |-> s]}) = 1

\* The chat history is the client's, in order and complete but for reasoning, and every tool
\* output comes after the turn of the calls that stood before it.
HistoryKept ==
    response = "translated" =>
      FlattenSeq([i \in DOMAIN messages |-> messages[i].of])
        = SelectSeq([i \in 1 .. Len(history) |-> i], LAMBDA i : history[i] # "reasoning")

\* The engine is asked with the client's history, and the stream the client reads is the engine's
\* answer, whole and well formed.
StreamIsFaithful == HistoryKept /\ AnswerIsChunkFree /\ EventsWellFormed
=============================================================================
