----------------------------- MODULE AgentInstall -----------------------------
(***************************************************************************)
(* infercat agent install (internal/agent/install.go).  Installers take no *)
(* lock: each builds a tree in a stage directory of its own and renames it *)
(* to the runtime's name.  An installer can fail or be killed at every     *)
(* point; hosts use the runtime that is installed.                         *)
(***************************************************************************)
EXTENDS Naturals, FiniteSets

CONSTANTS Installers

VARIABLES
    phase,      \* of each installer: idle, download, unpack, harness, helper, mark, publish
    built,      \* the tree in its stage directory: absent, archive, node, packages, helped, ready
    runtime,    \* the tree at the runtime's name, "absent" when there is none
    succeeded   \* an installer has reported success

installVars == <<phase, built, runtime, succeeded>>

InstallInit ==
    /\ phase = [i \in Installers |-> "idle"] /\ built = [i \in Installers |-> "absent"]
    /\ runtime = "absent" /\ succeeded = FALSE

\* Installed(): the marker and the two programs are there.
Installed == runtime = "ready"

\* The installer returns; its deferred removal clears the stage directory.
Returns(i, ok) ==
    /\ phase' = [phase EXCEPT ![i] = "idle"] /\ built' = [built EXCEPT ![i] = "absent"]
    /\ succeeded' = (succeeded \/ ok)

\* A stage directory of its own, unless the runtime is installed already.
InstallStarts(i) ==
    /\ phase[i] = "idle"
    /\ IF Installed THEN Returns(i, TRUE)
       ELSE phase' = [phase EXCEPT ![i] = "download"] /\ UNCHANGED <<built, succeeded>>
    /\ UNCHANGED runtime

Builds(i, from, to, dir) ==
    /\ phase[i] = from /\ phase' = [phase EXCEPT ![i] = to] /\ built' = [built EXCEPT ![i] = dir]
    /\ UNCHANGED <<runtime, succeeded>>

\* download(): the archive is kept only with the pinned hash.
Download(i) == Builds(i, "download", "unpack", "archive")

\* Mutant: the archive is unpacked at the runtime's own name.
UnpackInPlace(i) ==
    /\ phase[i] = "unpack" /\ phase' = [phase EXCEPT ![i] = "harness"] /\ runtime' = "node"
    /\ UNCHANGED <<built, succeeded>>
\* The archive, the harness by npm ci, its helper's mode and, last, the marker.
UnpackNode(i) == Builds(i, "unpack", "harness", "node")
InstallHarness(i) == Builds(i, "harness", "helper", "packages")
SetHelper(i) == Builds(i, "helper", "mark", "helped")
Mark(i) == Builds(i, "mark", "publish", "ready")

\* The rename fails when the name is taken; then the other's runtime is as good.
PublishRuntime(i) ==
    /\ phase[i] = "publish"
    /\ IF runtime = "absent" THEN runtime' = built[i] /\ Returns(i, TRUE)
       ELSE Returns(i, Installed) /\ UNCHANGED runtime

\* An error of a step, or an interrupt.
InstallFails(i) == phase[i] # "idle" /\ Returns(i, FALSE) /\ UNCHANGED runtime

\* A kill leaves the stage directory, whose name is not used again.
InstallerKilled(i) ==
    /\ phase[i] # "idle" /\ phase' = [phase EXCEPT ![i] = "idle"] /\ built' = [built EXCEPT ![i] = "absent"]
    /\ UNCHANGED <<runtime, succeeded>>

InstallNext ==
    \E i \in Installers :
        \/ InstallStarts(i) \/ Download(i) \/ UnpackNode(i) \/ InstallHarness(i) \/ SetHelper(i)
        \/ Mark(i) \/ PublishRuntime(i) \/ InstallFails(i) \/ InstallerKilled(i)

InstallSpec == InstallInit /\ [][InstallNext]_installVars

----------------------------------------------------------------------------

\* "Install publishes a verified complete tree atomically": a runtime that is there is complete,
\* and from the first reported success on there is one, whatever other installers do.
RuntimeStays ==
    /\ runtime \in {"absent", "ready"}
    /\ succeeded => Installed
=============================================================================
