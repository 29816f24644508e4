\* One worker, two alerts with one fingerprint from two environments.
CONSTANTS
    w1 = w1
    w2 = w2
    a1 = a1
    a2 = a2
    a3 = a3
    a4 = a4
    f1 = f1
    f2 = f2
    fm = fm
    dev = dev
    prod = prod
    Idle = Idle
    Exited = Exited
    Foreign = Foreign
    TopLevel = TopLevel
    None = None
    Worker = {w1}
    Alert = {a1, a2}
    QueueSize = 2
    MaxRestarts = 0
    Fingerprint = {f1, fm}
    Env = {dev, prod}
    DefaultEnv = prod
    Messenger = {1}
    NoId = {}
    Listener = {}
    MaxLLM = 1
    Mode = "auto"
    Mishaps = {}
    Aging = FALSE
    MentionFp <- SameMentionFp
SPECIFICATION Spec
SYMMETRY PipelineSymmetry
INVARIANTS
    RightEnvironment
CHECK_DEADLOCK FALSE
