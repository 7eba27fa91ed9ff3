\* Two members that share an engine and their weights.
CONSTANTS
    Profile <- MCProfile
    Anchor = "text"
    Needs <- MCNeeds
    Engines = {"engine"}
    Archives = {"engine"}
    Trees = {t1, t2, t3}
    Size = 2
    None = None
SPECIFICATION SetupSpec
CHECK_DEADLOCK FALSE
INVARIANTS
    SetupNotUndone
