\* One chat with three tool rounds and one agent that asks twice; the channel of deltas and the
\* pipe of frames are short enough to fill.  No symmetry, for it is unsound with liveness.
CONSTANTS
    Chats = {c1}
    MaxToolRounds = 3
    MaxSearchCalls = 2
    SearchLimit = 2
    DeltaCap = 1
    MaxDeltas = 2
    MaxAsks = 2
    FrameCap = 2
SPECIFICATION TurnsSpec
CHECK_DEADLOCK FALSE
INVARIANTS
    ChatIsFaithful
    SearchCeiling
    ToolIsAuthorized
    DoneKeepsAll
    NothingOutlives
PROPERTIES
    ChatEnds
    CancelledRunEnds
