----------------------------- MODULE ProfileSetup -----------------------------
(***************************************************************************)
(* infercat setup (cmd/infercat/setup.go, internal/profile): members of a  *)
(* profile are checked, fetched, unpacked and tried one after another; the *)
(* installation is saved, then the configuration that names it, then the   *)
(* trees nothing names any more are retired.  The process can be           *)
(* interrupted or killed at every point.  The host and setup exclude each  *)
(* other by host.lock, which serve takes after it has read config.json.    *)
(***************************************************************************)
EXTENDS Naturals, Sequences, FiniteSets

CONSTANTS
    Profile,    \* the members of the profile, in its order
    Anchor,     \* its text member
    Needs,      \* of each member: the sequence of its assets
    Engines,    \* assets that are engines, obtained once for a setup
    Archives,   \* assets that are unpacked
    Trees,      \* bound: names of unpacked trees
    Size,       \* length of an asset
    None

ProfileMembers == {Profile[i] : i \in DOMAIN Profile}
Assets == UNION {{Needs[m][i] : i \in DOMAIN Needs[m]} : m \in ProfileMembers}

ASSUME SetupAssumption ==
    /\ Profile \in Seq(ProfileMembers) /\ \A m \in ProfileMembers : Needs[m] \in Seq(Assets)
    /\ Anchor \in ProfileMembers /\ Size \in Nat \ {0} /\ Engines \cup Archives \subseteq Assets

VARIABLES
    holder,     \* of host.lock: free, setup, serve
    step, stopping,  \* where setup is; its context is cancelled
    turn, need, stage,
    inst,       \* the installation being prepared: at (the tree of each unpacked asset),
                \* files, odd (trees left by a walk that failed, some of whose files are
                \* recorded), bad and ext (members that are unavailable, and that run already)
    piece, spoiled,     \* of each asset: bytes of its .part, and whether some are wrong
    download,       \* of each asset: the published download: none, good, bad
    unpacked,       \* of each name: none, partial, whole
    config,     \* config.json: the installation and the endpoint of each member
    load,       \* the configuration a starting host has read
    stated,     \* history: members whose profile address somebody has stated since the
                \* installation: a custom setup that found them running, or a flag of serve
    undone      \* history: a host has written back a configuration older than a setup's

fetchVars == <<piece, spoiled, download>>
hostVars == <<load, undone>>
diskVars == <<fetchVars, unpacked, config, stated, hostVars>>
runVars == <<holder, step, stopping, turn, need, stage, inst>>
setupVars == <<runVars, diskVars>>

Blank == [at |-> {}, files |-> {}, odd |-> {}, bad |-> {}, ext |-> {}]

SetupInit ==
    /\ holder = "free" /\ step = "idle" /\ stopping = FALSE
    /\ turn = 1 /\ need = 1 /\ stage = None /\ inst = Blank
    /\ piece = [a \in Assets |-> 0] /\ spoiled = [a \in Assets |-> FALSE]
    /\ download = [a \in Assets |-> "none"] /\ unpacked = [t \in Trees |-> "none"]
    /\ config = [install |-> None, field |-> [m \in ProfileMembers |-> "none"]]
    /\ load = None /\ stated = {} /\ undone = FALSE

\* The trees an installation records for a set of assets.
TreesOf(in, assets) == {p[2] : p \in {q \in in.at : q[1] \in assets}}
Have == {a \in Engines : TreesOf(inst, {a}) # {}}

\* The member and the asset in hand.
Member == Profile[turn]
Asset == Needs[Member][need]

\* Setup returns, or is killed; the lock goes with the process.
Quit ==
    /\ holder' = "free" /\ step' = "idle" /\ stopping' = FALSE
    /\ turn' = 1 /\ need' = 1 /\ stage' = None /\ inst' = Blank

NextMember(in) ==
    /\ inst' = in /\ need' = 1 /\ stage' = None
    /\ IF turn < Len(Profile) THEN turn' = turn + 1 /\ step' = "member"
                              ELSE step' = "save" /\ UNCHANGED turn
    /\ UNCHANGED <<holder, stopping>>

\* The failure of a member ends the setup when it is the anchor or the setup was interrupted.
FailsWith(in) ==
    IF Member = Anchor \/ stopping THEN Quit ELSE NextMember([in EXCEPT !.bad = @ \cup {Member}])
MemberFails == FailsWith(inst)

NextAsset(in) ==
    /\ inst' = in /\ need' = need + 1 /\ step' = "asset" /\ stage' = None
    /\ UNCHANGED <<holder, stopping, turn>>

GoTo(s) == step' = s /\ UNCHANGED <<holder, stopping, turn, need, stage, inst>>

----------------------------------------------------------------------------
(* Locks, interruption and kill. *)

\* Settings that are not the profile's are refused before anything is fetched.  A host that is
\* about to start is left out here: it reads the same until the configuration is saved.
SetupStarts ==
    /\ holder = "free" /\ load = None /\ \A m \in ProfileMembers : config.field[m] # "own"
    /\ holder' = "setup" /\ step' = "member"
    /\ UNCHANGED <<stopping, turn, need, stage, inst, diskVars>>

Interrupt ==
    /\ holder = "setup" /\ ~stopping /\ stopping' = TRUE
    /\ UNCHANGED <<holder, step, turn, need, stage, inst, diskVars>>

Killed == holder # "free" /\ Quit /\ UNCHANGED diskVars

\* cmdServe reads the configuration before it asks for the lock.
ServeLoads ==
    /\ load = None /\ step \in {"idle", "config"} /\ holder # "serve" /\ load' = config
    /\ UNCHANGED <<runVars, fetchVars, unpacked, config, stated, undone>>

\* verify: the bytes of a member are those the installation records.
Verified(in, m) ==
    LET assets == {Needs[m][i] : i \in DOMAIN Needs[m]}
    IN  /\ \A t \in TreesOf(in, assets) : unpacked[t] = "whole"
        /\ \A a \in assets \cap in.files : download[a] = "good"

\* With the lock, serve refuses addresses other than the profile's, starts an anchor it owns, and
\* saves what it read with its flags.  A flag may name the profile's address of a member that the
\* installation has as unavailable.
ServeStarts ==
    /\ load # None /\ holder = "free" /\ load' = None /\ holder' = "serve"
    /\ load.install # None => Anchor \in load.install.ext \/ Verified(load.install, Anchor)
    /\ \E field \in [ProfileMembers -> {"none", "profile", "own"}] :
          /\ load.install # None => \A m \in ProfileMembers : field[m] # "own"
          /\ config' = [load EXCEPT !.field = field]
          /\ stated' = stated \cup {m \in ProfileMembers : field[m] = "profile" /\ load.field[m] # "profile"}
    /\ undone' = (undone \/ load # config)
    /\ UNCHANGED <<step, stopping, turn, need, stage, inst, fetchVars, unpacked>>

\* The lock is taken, or serve refuses or fails before it has saved.
ServeGivesUp ==
    /\ load # None /\ load' = None
    /\ UNCHANGED <<runVars, fetchVars, unpacked, config, stated, undone>>

\* setup --custom checks running engines only; it keeps the installation of the configuration.
SetupCustom ==
    /\ holder = "free"
    /\ \E url \in [ProfileMembers -> {"none", "profile", "own"}], up \in SUBSET ProfileMembers :
          /\ Anchor \in up /\ \A m \in up : url[m] # "none"
          /\ \A m \in ProfileMembers : url[m] = "none" \/ config.field[m] \in {"none", url[m]}
          /\ config' = [config EXCEPT !.field =
                           [m \in ProfileMembers |-> IF m \in up THEN url[m] ELSE @[m]]]
          /\ stated' = stated \cup up
    /\ UNCHANGED <<runVars, fetchVars, unpacked, hostVars>>

----------------------------------------------------------------------------
(* Prepare. *)

\* Check: an engine that runs is taken as it is; a port or a pin that is wrong is a failure.
CheckMember ==
    /\ step = "member"
    /\ \/ ~stopping /\ NextMember([inst EXCEPT !.ext = @ \cup {Member}])
       \/ ~stopping /\ GoTo("asset")
       \/ MemberFails
    /\ UNCHANGED diskVars

\* What obtain does with the asset's file.
Obtained ==
    LET in == [inst EXCEPT !.files = @ \cup {Asset}]
    IN  IF Asset \in Archives
        THEN inst' = in /\ step' = "unpack" /\ UNCHANGED <<holder, stopping, turn, need, stage>>
        ELSE NextAsset(in)

\* The next asset: there already, in a cache, published by an earlier setup, or to be fetched.
ObtainAsset ==
    /\ step = "asset"
    /\ IF need > Len(Needs[Member]) THEN GoTo("dry") /\ UNCHANGED fetchVars
       ELSE \/ Asset \in Have /\ NextAsset(inst) /\ UNCHANGED fetchVars
            \/ /\ Asset \notin Engines
               /\ IF Asset \in Archives THEN GoTo("unpack") ELSE NextAsset(inst)
               /\ UNCHANGED fetchVars
            \/ /\ Asset \notin Have /\ download[Asset] # "none"
               /\ IF stopping \/ download[Asset] = "bad" THEN MemberFails ELSE Obtained
               /\ UNCHANGED fetchVars
            \/ /\ Asset \notin Have /\ download[Asset] = "none"
               /\ \/ piece[Asset] > Size /\ MemberFails /\ UNCHANGED fetchVars
                  \/ piece[Asset] = Size /\ GoTo("verify") /\ UNCHANGED fetchVars
                  \/ piece[Asset] < Size /\ MemberFails /\ UNCHANGED fetchVars
                  \* 206 goes on from the part, 200 starts over
                  \/ piece[Asset] < Size /\ GoTo("copy") /\ UNCHANGED fetchVars
                  \/ /\ piece[Asset] < Size /\ GoTo("copy")
                     /\ piece' = [piece EXCEPT ![Asset] = 0]
                     /\ spoiled' = [spoiled EXCEPT ![Asset] = FALSE]
                     /\ UNCHANGED download
    /\ UNCHANGED <<unpacked, config, stated, hostVars>>

\* The body arrives; it may be wrong, short, or longer than the pin.
CopyBytes ==
    /\ step = "copy"
    /\ \/ \E wrong \in BOOLEAN :
             /\ piece[Asset] <= Size
             /\ piece' = [piece EXCEPT ![Asset] = @ + 1]
             /\ spoiled' = [spoiled EXCEPT ![Asset] = @ \/ wrong]
             /\ UNCHANGED <<holder, step, stopping, turn, need, stage, inst>>
       \/ piece[Asset] < Size /\ MemberFails /\ UNCHANGED <<piece, spoiled>>
       \/ piece[Asset] = Size /\ GoTo("verify") /\ UNCHANGED <<piece, spoiled>>
       \/ /\ piece[Asset] > Size /\ MemberFails
          /\ piece' = [piece EXCEPT ![Asset] = 0] /\ spoiled' = [spoiled EXCEPT ![Asset] = FALSE]
    /\ UNCHANGED <<download, unpacked, config, stated, hostVars>>

\* Mutant: a part of the pinned size is published unread.
PublishBySize ==
    /\ step = "verify" /\ Obtained
    /\ piece' = [piece EXCEPT ![Asset] = 0] /\ spoiled' = [spoiled EXCEPT ![Asset] = FALSE]
    /\ download' = [download EXCEPT ![Asset] = IF spoiled[Asset] THEN "bad" ELSE "good"]
    /\ UNCHANGED <<unpacked, config, stated, hostVars>>

\* The part's hash decides; a wrong or an unread part is removed.
Publish ==
    /\ step = "verify"
    /\ \/ /\ ~stopping /\ ~spoiled[Asset] /\ Obtained
          /\ download' = [download EXCEPT ![Asset] = "good"]
          /\ piece' = [piece EXCEPT ![Asset] = 0] /\ UNCHANGED spoiled
       \/ /\ stopping \/ spoiled[Asset]
          /\ piece' = [piece EXCEPT ![Asset] = 0] /\ spoiled' = [spoiled EXCEPT ![Asset] = FALSE]
          /\ MemberFails /\ UNCHANGED download
       \/ MemberFails /\ UNCHANGED fetchVars
    /\ UNCHANGED <<unpacked, config, stated, hostVars>>

\* A tree of its own for every unpacking.
UnpackStarts ==
    /\ step = "unpack" /\ step' = "walk"
    /\ \E t \in Trees : unpacked[t] = "none" /\ stage' = t /\ unpacked' = [unpacked EXCEPT ![t] = "partial"]
    /\ UNCHANGED <<holder, stopping, turn, need, inst, fetchVars, config, stated, hostVars>>

\* The tree is complete and its files are recorded, all of them or those before a walk failed; a
\* failed unpacking removes it.
UnpackEnds ==
    /\ step = "walk"
    /\ \/ /\ unpacked' = [unpacked EXCEPT ![stage] = "whole"]
          /\ \/ NextAsset([inst EXCEPT !.at = @ \cup {<<Asset, stage>>}])
             \/ \E seen \in {{}, {stage}} : FailsWith([inst EXCEPT !.odd = @ \cup seen])
       \/ unpacked' = [unpacked EXCEPT ![stage] = "none"] /\ MemberFails
    /\ UNCHANGED <<fetchVars, config, stated, hostVars>>

\* The engine is started once, answers or not, and is stopped.
DryCheck ==
    /\ step = "dry"
    /\ \/ ~stopping /\ NextMember(inst)
       \/ MemberFails
    /\ UNCHANGED diskVars

----------------------------------------------------------------------------
(* What setup commits. *)

Save ==
    /\ step = "save"
    /\ \/ ~stopping /\ GoTo("config")
       \/ Quit
    /\ UNCHANGED diskVars

\* The endpoints setup leaves in the configuration.
Endpoints ==
    [m \in ProfileMembers |->
        IF m \notin inst.bad THEN "profile"
        ELSE IF config.field[m] = "profile" THEN "none" ELSE config.field[m]]

SaveConfig ==
    /\ step = "config"
    /\ \/ /\ ~stopping /\ GoTo("retire")
          /\ config' = [install |-> inst, field |-> Endpoints]
          /\ stated' = {}
       \/ Quit /\ UNCHANGED <<config, stated>>
    /\ UNCHANGED <<fetchVars, unpacked, hostVars>>

\* RetireTrees, one tree after another; it stops at the first it cannot remove.
Retire ==
    /\ step = "retire"
    /\ \/ \E t \in Trees \ (TreesOf(inst, Assets) \cup inst.odd) :
             /\ unpacked[t] # "none" /\ unpacked' = [unpacked EXCEPT ![t] = "none"] /\ GoTo("retire")
       \/ Quit /\ UNCHANGED unpacked
    /\ UNCHANGED <<fetchVars, config, stated, hostVars>>

\* Once a setup has been undone nothing more is asked of the configuration.
SetupNext ==
    /\ ~undone
    /\ \/ SetupStarts \/ Interrupt \/ Killed \/ ServeLoads \/ ServeStarts \/ ServeGivesUp
       \/ SetupCustom
       \/ CheckMember \/ ObtainAsset \/ CopyBytes \/ Publish
       \/ UnpackStarts \/ UnpackEnds \/ DryCheck
       \/ Save \/ SaveConfig \/ Retire

SetupSpec == SetupInit /\ [][SetupNext]_setupVars

----------------------------------------------------------------------------

\* The installation that config.json names can be served: whatever was interrupted or killed,
\* each tree it records files of is complete and each download in it has the pinned bytes, unless
\* a host has written back an older configuration.
ConfiguredIsWhole ==
    config.install # None /\ ~undone =>
        /\ \A t \in TreesOf(config.install, Assets) \cup config.install.odd : unpacked[t] = "whole"
        /\ \A a \in config.install.files : download[a] = "good"

\* Setup and hosts of their own accord never point the gateway at an engine of the profile that
\* its installation has as unavailable: the address is there only when it has been stated since,
\* by a custom setup that found the engine running or by a flag of serve, or when a host has
\* written back an older configuration.
EndpointHasEngine ==
    config.install # None /\ ~undone =>
        \A m \in ProfileMembers : config.field[m] = "profile" => 
            m \notin config.install.bad \/ m \in stated

\* host.lock "excludes concurrent host lifecycles in one data directory": what a setup has saved
\* is not undone by a host that read its configuration before.
SetupNotUndone == ~undone

\* The saved configuration is sound: what it names is there, and what it points at was found
\* running or stated by somebody.
ConfigurationSound == ConfiguredIsWhole /\ EndpointHasEngine
=============================================================================
