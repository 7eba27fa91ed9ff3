------------------------------- MODULE MCRuns --------------------------------
(***************************************************************************)
(* What stands in line: requests for the engine's slots, and runs for      *)
(* their kind's worker.  The two lines share no state, so a behaviour is   *)
(* one of the two, chosen at the start.                                    *)
(***************************************************************************)
EXTENDS SlotQueue, RunManager, TLC

CONSTANTS a, b
VARIABLE part

\* A line of images; an agent that asks, alone; a chat, alone.
LiveMixes == {[r \in Runs |-> "image"], a :> "agent" @@ b :> "unregistered",
              a :> "chat" @@ b :> "unregistered"}

LinesInit ==
    /\ QueueInit /\ RunInit /\ part \in {"queue", "manager"}
    /\ part # "manager" => kind = [r \in Runs |-> "image"]
    /\ part # "queue" => slots = MaxSlots

QueueStep == part = "queue" /\ QueueNext /\ UNCHANGED <<runVars, part>>
ManagerStep == part = "manager" /\ RunNext /\ UNCHANGED <<queueVars, part>>

LinesSpec ==
    /\ LinesInit /\ [][QueueStep \/ ManagerStep]_<<queueVars, runVars, part>>
    /\ QueueFairness /\ RunFairness
=============================================================================
