\* Two callers of an engine that is resident, on demand, owned by someone else or not
\* installed; no symmetry, for it is unsound with liveness.
CONSTANTS
    Requests = {a, b}
    Policies = {"resident", "on-demand", "external", "unavailable"}
SPECIFICATION MemberSpec
INVARIANTS
    OneEngine
    NoneSurvives
PROPERTIES
    HeldEngineRuns
    AcquireReturns
    EngineFollowsUse
