------------------------------ MODULE SlotPool ------------------------------
(***************************************************************************)
(* What the queue in front of one engine promises, without its mutex, its  *)
(* channels or its races: some requests own a slot, others stand in line,  *)
(* and every change serves the line oldest first while the engine has room.*)
(***************************************************************************)
EXTENDS Integers, Sequences, FiniteSets

CONSTANTS Requests,   \* requests that may ask for a slot
          MaxSlots    \* bound: the most slots the engine ever reports

VARIABLES owners,     \* requests a slot is spent on
          line,       \* requests waiting, oldest first
          slots       \* what the engine reports now

poolVars == <<owners, line, slots>>

Room == IF slots < 1 THEN 1 ELSE slots
Places == IF 2 * Room < 2 THEN 2 ELSE 2 * Room

\* How many of the line a pool with these owners can serve.
Served(own, q) ==
    LET free == Room - Cardinality(own)
    IN  IF free <= 0 THEN 0 ELSE IF Len(q) < free THEN Len(q) ELSE free

Serve(own, q) ==
    LET k == Served(own, q)
    IN  /\ owners' = own \cup {q[i] : i \in 1..k}
        /\ line' = SubSeq(q, k + 1, Len(q))
        /\ UNCHANGED slots

InLine == {line[i] : i \in 1..Len(line)}

PoolInit == /\ owners = {}
            /\ line = <<>>
            /\ slots \in 0..MaxSlots

\* A request joins the end of the line and the line is served.
Join(r) == /\ r \notin owners \cup InLine
           /\ Len(line) - Served(owners, line) < Places
           /\ Serve(owners, Append(line, r))

\* The line is full even after serving it: the newcomer is turned away.
TurnAway(r) == /\ r \notin owners \cup InLine
               /\ Len(line) - Served(owners, line) >= Places
               /\ Serve(owners, line)

\* An owner is done with its slot, or never wanted it.
Return(r) == /\ r \in owners
             /\ Serve(owners \ {r}, line)

\* A request leaves the line.
Quit(r) == /\ \E i \in 1..Len(line) :
                /\ line[i] = r
                /\ line' = SubSeq(line, 1, i - 1) \o SubSeq(line, i + 1, Len(line))
           /\ UNCHANGED <<owners, slots>>

Resize == /\ slots' \in 0..MaxSlots
          /\ UNCHANGED <<owners, line>>

PoolNext == \/ Resize
            \/ \E r \in Requests : Join(r) \/ TurnAway(r) \/ Return(r) \/ Quit(r)

PoolSpec == PoolInit /\ [][PoolNext]_poolVars
=============================================================================
