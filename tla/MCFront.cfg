\* Queue: four requests, one of which keeps its friend informed while it waits; the engine
\* reports 0, 1 or 2 slots and may change its mind at any time.  Console: three calls from two
\* peers, one failure allowed in a minute of two ticks, two codes.  Setup: two members that
\* share an engine and their weights, three names for trees, downloads of two bytes.  Bridge:
\* three requests for one slot and a line of one, over two connections.
CONSTANTS
    Requests = {m1, m2, m3, s}
    Streaming = {s}
    MaxSlots = 2
    Calls = {m1, m2, m3}
    Peers = {p1, p2}
    MaxPeers = 2
    MaxFailures = 1
    MaxReads = 2
    MaxWrites = 1
    ReadsAtOnce = 1
    WritesAtOnce = 1
    Minute = 2
    MaxTime = 2
    MaxCodes = 2
    Profile <- SetupProfile
    Anchor = "text"
    Needs <- SetupNeeds
    Engines = {"engine"}
    Archives = {"engine"}
    Trees = {m1, m2, m3}
    Size = 2
    None = None
    Jobs = {m1, m2, m3}
    Capacity = 1
    LineCap = 1
    MaxData = 1
    MaxConns = 2
SPECIFICATION FrontSpec
SYMMETRY FrontSymmetry
CHECK_DEADLOCK FALSE
INVARIANTS
    SlotAccounting
    NeverStranded
    ConsoleGuarded
    ConfigurationSound
    EndsKeepStep
    CompleteMeansAll
PROPERTIES
    LineIsFair
    ImplementsPool
