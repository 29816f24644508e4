\* Auto and manual mode, each with constants of its own: see MCModes.
CONSTANTS
    f1 = f1
    f2 = f2
    fm = fm
    Idle = Idle
    Exited = Exited
    Foreign = Foreign
    TopLevel = TopLevel
    None = None
    Worker = {w1, w2}
    Alert = {a1, a2, a3}
    QueueSize = 2
    Env = {prod}
    DefaultEnv = prod
    Listener = {1}
    MaxLLM = 1
SPECIFICATION Spec
SYMMETRY Symmetry
INVARIANTS
    Told
    ManualOnDemand
PROPERTIES
    MentionRecovers
    ResolvedStays
CHECK_DEADLOCK FALSE
