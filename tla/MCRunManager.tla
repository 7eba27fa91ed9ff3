---------------------------- MODULE MCRunManager ----------------------------
EXTENDS RunManager, TLC

CONSTANTS a, b

\* Two runs of one kind, for each of the kinds, and a run of each of two
\* kinds that share nothing but the manager.
AllMixes == {[r \in Runs |-> k] : k \in Kinds} \cup {a :> "chat" @@ b :> "image"}
=============================================================================
