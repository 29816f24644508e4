\* Auto mode: every call may fail, entries age, the process may die, and two
\* workers race.
CONSTANTS
    w1 = w1
    w2 = w2
    a1 = a1
    a2 = a2
    a3 = a3
    a4 = a4
    f1 = f1
    f2 = f2
    fm = fm
    dev = dev
    prod = prod
    Idle = Idle
    Exited = Exited
    Foreign = Foreign
    TopLevel = TopLevel
    None = None
    Worker = {w1, w2}
    Alert = {a1, a2}
    QueueSize = 1
    MaxRestarts = 1
    Fingerprint = {f1, fm}
    Env = {prod}
    DefaultEnv = prod
    Messenger = {1}
    NoId = {}
    Listener = {1}
    MaxLLM = 1
    Mode = "auto"
    Mishaps = {"record", "mark", "send", "save", "get", "find", "cancel",
               "analyze", "short", "set"}
    Aging = TRUE
    MentionFp <- SameMentionFp
SPECIFICATION Spec
SYMMETRY PipelineSymmetry
INVARIANTS
    LLMBound
    RightThread
    CacheIntegrity
    PendingMatches
    OneAnswer
    ReanalyzeIsFresh
PROPERTIES
    PoolSpec
CHECK_DEADLOCK FALSE
