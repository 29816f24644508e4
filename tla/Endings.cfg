\* Fair workers: accepted alerts are processed and mentions answered; and
\* both ways down, with requests and mentions in flight.
CONSTANTS
    Idle = Idle
    Exited = Exited
    Foreign = Foreign
    TopLevel = TopLevel
    None = None
    fm = fm
    Worker = {w1, w2}
    Alert = {a1, a2, a3}
    Arriving = {a1, a2}
    QueueSize = 2
    MaxRestarts = 0
    Request = {r1, r2}
    Fingerprint = {f1, fm}
    Env = {prod}
    DefaultEnv = prod
    Messenger = {1}
    MaxLLM = 1
SPECIFICATION MCSpec
INVARIANTS
    WorkersBeforeCache
    NoWebhookCutShort
PROPERTIES
    ShutdownCompletes
    EventuallyProcessed
    MentionAnswered
CHECK_DEADLOCK FALSE
