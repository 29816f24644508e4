CONSTANTS
    Part = {"dashboard"}
    Conversations <- MCConversations
    Listened = {"ops", "dev"}
    Subscriptions <- MCSubscriptions
    MaxFaults = 1
    MaxUpdates = 3
    MaxFailures = 1
    MaxDeaths = 1
    Sender = {s1}
    Client = {"slack", "telegram", "webhook", "bot", "anthropic", "openai"}
    Retries <- MCRetries
    Channel = {"ops", "dev"}
    Hook = "ops"
    Alert <- MCAlerts
    None = None
    ToolCall = {c1, c2}
    Style = {"gcp", "azure", "teams", "vsphere"}
    MaxAges = 1
    MaxDrops = 2
    Nobody = Nobody
    Press = {p1, p2}
    Loop = Loop
    Environment = {prod}
    All = All
    Interval = 2
    Window = 1
    MaxMishaps = 1
    Name = {1, 2}
    Header = {"", "default", "prod"}
    Retention = 2
    MaxDays = 2
    MaxEvents = 3
    Fp = {f1, f2, f3}
    Zone = {""}
    Limit = 1
    MaxSeconds = 1
    MaxWrites = 3
    Alarm <- MCAlarms
    Source = {"alertmanager", "grafana", "loki", "zabbix", "datadog", "elk", "generic"}
    EnvHeader = {"prod", "not valid"}
    ChannelHeader = {"ops"}
    BatchSize = 3
    MaxBatches = 3
    Configuration <- MCConfigurations
    AlertEnv = {"", "default", "prod", "staging"}
    ServerTools <- MCServerTools
    Top = Top
SPECIFICATION Spec
INVARIANTS
    PendingAreUnanalyzed
CHECK_DEADLOCK FALSE
