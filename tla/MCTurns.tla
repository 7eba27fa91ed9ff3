----------------------------- MODULE MCTurns --------------------------------
(***************************************************************************)
(* Inside a run: a chat and an agent, each with the fairness its own       *)
(* module states.  They share no state, so a behaviour is one of the two,  *)
(* chosen at the start.                                                    *)
(***************************************************************************)
EXTENDS ChatRun, AgentRun

VARIABLE part

TurnsInit == ChatInit /\ AgentInit /\ part \in {"chat", "agent"}

ChatStep == part = "chat" /\ ChatNext /\ UNCHANGED <<agentVars, part>>
AgentStep == part = "agent" /\ AgentNext /\ UNCHANGED <<chatVars, part>>

\* The fairness of ChatRun and of AgentRun, of the part that runs.
TurnsSpec ==
    /\ TurnsInit /\ [][ChatStep \/ AgentStep]_<<chatVars, agentVars, part>>
    /\ \A c \in Chats : /\ WF_chatVars(part = "chat" /\ FollowerNext(c))
                        /\ WF_chatVars(part = "chat" /\ JoinExpires(c))
    /\ WF_agentVars(part = "agent" /\ AgentConsumerNext)
    /\ WF_agentVars(part = "agent" /\ Stopped /\ ModelEnds)
    /\ WF_agentVars(part = "agent" /\ AgentJoinExpires)
=============================================================================
