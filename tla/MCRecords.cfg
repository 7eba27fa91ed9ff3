\* Limits: three requests of one key, one of them an image job; two minutes fit in a day, the
\* clock passes a midnight and every budget can be exhausted.  Keys: two commands and a host
\* that starts and stops.  Feed: two runs, a follower whose channel and snapshot hold two events,
\* two epochs.  Images: two runs, a stray file, room for one image.  Responses: up to three
\* chunks that may carry pieces of two calls, and histories of up to five items.  Install: two
\* installers.  Pictures: four jobs, so that three generations can fail and a fourth batch be
\* refused, two images a day, a line of two.
\* Audio: two calls of a class, which may not both fit the day, and an engine that measures more
\* than was reserved.
CONSTANTS
    Calls = {m1, m2, image}
    Detached = {image}
    MaxConcurrent = 1
    RPM = 2
    TPM = 4
    DailyTokens = 5
    Prompts = {1}
    Outs <- SomeOuts
    MinOutput = 2
    Overrun = 0
    Window = 2
    Day = 3
    MaxTime = 4
    Commands = {m1, m2}
    Keys = {k1, k2}
    FirstKey = k1
    First = f
    Host = h
    MaxStarts = 1
    Ids = {m1, m2}
    Followers = {f1}
    EventCap = 2
    ChanCap = 2
    MaxSubs = 2
    MaxEpochs = 2
    MaxSeq = 2
    Rids = {m1, m2}
    Strays = {s1}
    ImageBudget = 1
    MaxPuts = 2
    Indices = {0, 1}
    CallIds = {m1, m2}
    MaxChunks = 3
    MaxHistory = 5
    Installers = {m1, m2}
    Pictures = {m1, m2, p3, p4}
    DailyImages = 2
    QueueCap = 2
    Nobody = nobody
    Voices = {v1, v2}
    Notes = {n1, n2}
    Amounts = {1, 2}
    Measures = {0, 3}
    VoiceDay = 2
    NoteDay = 2
SPECIFICATION RecordsSpec
SYMMETRY RecordsSymmetry
CHECK_DEADLOCK FALSE
INVARIANTS
    LimitsHold
    RetryAfterExact
    InForceOnReturn
    FollowerShowsTheTruth
    CursorsAreDurable
    ImagesAccounted
    StreamIsFaithful
    RuntimeStays
    ImageDayHolds
    AudioDayHolds
PROPERTIES
    KeepsOthersChanges
