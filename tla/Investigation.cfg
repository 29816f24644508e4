\* Two iterations of up to two calls each, one result kept, a budget that
\* one costly request exceeds, and one outage.
CONSTANTS
    logs = logs
    pods = pods
    Tool = {logs, pods}
    Builtin = {logs}
    McpTool = {pods}
    Category <- MCCategory
    MaxIterations = 2
    MaxCalls = 2
    KeepRecent = 1
    SoftLimit = 3
    Tokens = {1, 4}
    Configured = {"base"}
    MaxOutages = 1
SPECIFICATION Spec
INVARIANTS
    RequestsWellFormed
    TraceHonest
    BestEffort
    OfferedStaysCallable
    CallsWhereItMet
PROPERTIES
    Terminates
CHECK_DEADLOCK FALSE
