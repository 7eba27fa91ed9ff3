------------------------------- MODULE MCFront -------------------------------
(***************************************************************************)
(* At the door: the line for the engine's slots, the console from a        *)
(* distance, setup and the public bridge.  They share no state, so a       *)
(* behaviour is one of the four, chosen at the start.                      *)
(***************************************************************************)
EXTENDS SlotQueue, RemoteConsole, ProfileSetup, Bridge, TLC

VARIABLE part

SetupProfile == <<"text", "image">>
SetupNeeds == [m \in {"text", "image"} |-> <<"engine", "weights">>]

FrontInit ==
    /\ QueueInit /\ ConsoleInit /\ SetupInit /\ BridgeInit
    /\ part \in {"queue", "console", "setup", "bridge"}
    /\ part # "queue" => slots = MaxSlots

QueueStep == part = "queue" /\ QueueNext /\ UNCHANGED <<consoleVars, setupVars, bridgeVars, part>>
ConsoleStep == part = "console" /\ ConsoleNext /\ UNCHANGED <<queueVars, setupVars, bridgeVars, part>>
SetupStep == part = "setup" /\ SetupNext /\ UNCHANGED <<queueVars, consoleVars, bridgeVars, part>>
BridgeStep == part = "bridge" /\ BridgeNext /\ UNCHANGED <<queueVars, consoleVars, setupVars, part>>

frontVars == <<queueVars, consoleVars, setupVars, bridgeVars, part>>
FrontSpec == FrontInit /\ [][QueueStep \/ ConsoleStep \/ SetupStep \/ BridgeStep]_frontVars

\* Requests that are not told of their wait, calls, jobs and names of trees are the same three
\* model values.
FrontSymmetry == Permutations(Jobs)
=============================================================================
