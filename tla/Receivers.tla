------------------------------ MODULE Receivers ------------------------------
(***************************************************************************)
(* The webhook receivers of internal/receiver: what each of the seven      *)
(* makes of its system's payload, the headers the router applies, and      *)
(* GroupAlerts, between a monitoring system that fires, repeats and        *)
(* resolves its alarms and the handler that submits alerts to the pool.    *)
(*                                                                         *)
(* An alarm is something that is wrong, as the monitoring system knows it. *)
(* Texts, dates and URLs are left out.                                     *)
(***************************************************************************)
EXTENDS Integers, SequencesExt

CONSTANTS
    Alarm,         \* alarms: a name, a team, a pod and how bad they are
    Source,        \* the receivers looked at
    EnvHeader,     \* values of X-Environment
    ChannelHeader, \* values of X-Channel-Slack, "" if it is not sent
    BatchSize,     \* bound: alarms in one payload
    MaxBatches     \* bound: payloads

ASSUME ReceiversAssumption ==
    /\ Alarm \subseteq [name : STRING, team : STRING, pod : STRING, severity : STRING]
    /\ Source \subseteq {"alertmanager", "grafana", "loki", "zabbix", "datadog", "elk", "generic"}
    /\ BatchSize \in Nat \ {0} /\ MaxBatches \in Nat

\* Alarms have names, and no team is called like a label: in a payload of the
\* generic receiver its tag would be taken for that label.
ASSUME AlarmsAssumption ==
    \A a \in Alarm :
        /\ a.name # ""
        /\ a.team \notin {"alertname", "team", "pod", "instance", "pod_name", "container_id"}

VARIABLES
    source,    \* the monitoring system
    active,    \* its alarms that have fired and are not resolved
    episode,   \* how often each has fired anew
    batches,   \* how many payloads it sent
    request,   \* the latest: its notifications and headers
    webhook,   \* the alerts the handler got for it
    known      \* history: the fingerprints under which an episode was received

receiverVars == <<source, active, episode, batches, request, webhook, known>>

NoRequest == [told |-> <<>>, env |-> "", channel |-> ""]

ReceiversTypeOK ==
    /\ source \in Source
    /\ active \subseteq Alarm
    /\ episode \in [Alarm -> Nat]
    /\ batches \in 0..MaxBatches
    /\ request.told \in Seq([alarm : Alarm, resolved : BOOLEAN, episode : Nat])
    /\ \A i \in DOMAIN webhook : webhook[i].severity \in {"critical", "warning", "info"}

ReceiversInit ==
    /\ source \in Source
    /\ active = {} /\ episode = [a \in Alarm |-> 0] /\ batches = 0
    /\ request = NoRequest /\ webhook = <<>>
    /\ known = [a \in Alarm |-> {}]

-----------------------------------------------------------------------------
(* Payloads, as the monitoring systems write them.                         *)

Grouping == {"alertmanager", "grafana", "loki"}  \* several alarms in a payload
Resolves == Grouping \cup {"zabbix", "generic"}  \* tell that an alarm is over

LabelsOf(a) == [alertname |-> a.name, team |-> a.team, pod |-> a.pod, severity |-> a.severity]

\* own is the fingerprint the payload brings along: Alertmanager's and
\* Grafana's, over all labels; Loki's come from an Alertmanager that has none.
\* Zabbix tells the event that began the episode,
\* ElastAlert how many matches it counted.  Two users of the generic receiver
\* write their payloads in different ways.
Payload(n) ==
    IF source \in Grouping
    THEN [labels |-> LabelsOf(n.alarm), status |-> IF n.resolved THEN "resolved" ELSE "firing",
          own |-> IF source = "loki" THEN {} ELSE {[name |-> "", labels |-> LabelsOf(n.alarm)]}]
    ELSE IF source = "zabbix"
    THEN [trigger |-> n.alarm.name, host |-> n.alarm.pod, event |-> n.episode,
          severity |-> IF n.alarm.severity = "critical" THEN "High" ELSE "Average",
          status |-> IF n.resolved THEN "OK" ELSE "PROBLEM"]
    ELSE IF source = "datadog"
    THEN [title |-> n.alarm.name, type |-> IF n.alarm.severity = "critical" THEN "error" ELSE n.alarm.severity,
          tags |-> <<<<"team", n.alarm.team>>, <<"pod", n.alarm.pod>>, <<"monitor">>>>]
    ELSE IF source = "elk"
    THEN [rule |-> n.alarm.name, matches |-> batches + 1, body |-> [team |-> n.alarm.team]]
    ELSE IF n.alarm.severity = "critical"
    THEN [name |-> "", title |-> n.alarm.name, priority |-> "critical",
          state |-> IF n.resolved THEN "ok" ELSE "alerting", tags |-> <<n.alarm.team>>]
    ELSE [alertname |-> n.alarm.name, severity |-> n.alarm.severity,
          status |-> IF n.resolved THEN "resolved" ELSE "firing", labels |-> [team |-> n.alarm.team]]

-----------------------------------------------------------------------------
(* The receivers.                                                          *)

\* Faulty: the name is not part of the fingerprint.
FingerprintOfLabels(name, labels) ==
    [name |-> "", labels |-> [l \in DOMAIN labels \ {"pod", "instance", "pod_name", "container_id", "alertname"} |-> labels[l]]]

\* domain.Fingerprint: the name and the labels that outlive a pod, hashed as
\* "name|key=value,key=value".  Nothing is escaped: that other names or labels
\* make another text is so only while none contains one of | = and a comma.
Fingerprint(name, labels) ==
    [name |-> name, labels |-> [l \in DOMAIN labels \ {"pod", "instance", "pod_name", "container_id"} |-> labels[l]]]

\* Two sets of labels; where both have one, the first's stands.
Merge(labels, others) ==
    [l \in DOMAIN labels \cup DOMAIN others |-> IF l \in DOMAIN labels THEN labels[l] ELSE others[l]]

mapSeverity(s) == IF s \in {"critical", "warning"} THEN s ELSE "info"

mapZabbixSeverity(s) ==
    IF s \in {"Disaster", "High", "disaster", "high"} THEN "critical"
    ELSE IF s \in {"Average", "Warning", "average", "warning"} THEN "warning" ELSE "info"

mapDatadogSeverity(s) == IF s = "error" THEN "critical" ELSE IF s = "warning" THEN s ELSE "info"

Parsed(name, severity, resolved, fingerprint) ==
    [name |-> name, severity |-> severity, resolved |-> resolved, fingerprint |-> fingerprint,
     env |-> "", channel |-> "", grouped |-> <<>>]

\* Its own fingerprint, or one made of its labels.
OwnOrMade(p) ==
    IF p.own = {} THEN Fingerprint(p.labels.alertname, p.labels) ELSE CHOOSE f \in p.own : TRUE

\* One entry of the payload.
ParseAlertmanager(p) ==
    Parsed(p.labels.alertname, mapSeverity(p.labels.severity), p.status = "resolved", OwnOrMade(p))

ParseLoki(p) == ParseAlertmanager(p)

ParseGrafana(p) ==
    Parsed(p.labels.alertname, mapSeverity(p.labels.severity), p.status = "resolved", OwnOrMade(p))

ParseZabbix(p) ==
    Parsed(p.trigger, mapZabbixSeverity(p.severity), p.status = "OK",
           Fingerprint(p.trigger, [host |-> p.host, alertname |-> p.trigger, event_id |-> p.event]))

\* A tag without a value is true; of two of one name the later stands.
parseDatadogTags(tags) ==
    [l \in {t[1] : t \in Range(tags)} |->
        LET t == SelectLastInSeq(tags, LAMBDA u : u[1] = l) IN
        IF Len(tags[t]) = 2 THEN tags[t][2] ELSE "true"]

\* Datadog's and ElastAlert's payloads have no status.
ParseDatadog(p) ==
    Parsed(p.title, mapDatadogSeverity(p.type), FALSE,
           Fingerprint(p.title, Merge([alertname |-> p.title], parseDatadogTags(p.tags))))

ParseElk(p) ==
    Parsed(p.rule, "warning", FALSE,
           Fingerprint(p.rule, [alertname |-> p.rule, num_matches |-> p.matches, match_team |-> p.body.team]))

\* The first of the keys with a text that is not empty.
extractString(p, keys) ==
    LET k == SelectInSeq(keys, LAMBDA key : key \in DOMAIN p /\ p[key] # "") IN
    IF k = 0 THEN "" ELSE p[keys[k]]

extractLabelsMap(p) ==
    IF "labels" \in DOMAIN p THEN p.labels
    ELSE [t \in (IF "tags" \in DOMAIN p THEN Range(p.tags) ELSE {}) |-> "true"]

ParseGeneric(p) ==
    LET given == extractString(p, <<"alertname", "name", "title", "rule_name", "alert">>)
        name  == IF given = "" THEN "unknown" ELSE given
    IN  Parsed(name, mapSeverity(extractString(p, <<"severity", "priority", "level">>)),
               extractString(p, <<"status", "state">>) \in {"resolved", "ok", "OK"},
               Fingerprint(name, Merge(extractLabelsMap(p), [alertname |-> name])))

Parse(p) ==
    IF source = "alertmanager" THEN ParseAlertmanager(p)
    ELSE IF source = "loki" THEN ParseLoki(p)
    ELSE IF source = "grafana" THEN ParseGrafana(p)
    ELSE IF source = "zabbix" THEN ParseZabbix(p)
    ELSE IF source = "datadog" THEN ParseDatadog(p)
    ELSE IF source = "elk" THEN ParseElk(p)
    ELSE ParseGeneric(p)

-----------------------------------------------------------------------------
(* The router.                                                             *)

\* Values with other characters than letters, digits and -_. are ignored.
applyEnvironmentHeader(env, alerts) ==
    [i \in DOMAIN alerts |-> [alerts[i] EXCEPT !.env = IF env = "not valid" THEN "" ELSE env]]

applyChannelHeaders(channel, alerts) ==
    [i \in DOMAIN alerts |-> [alerts[i] EXCEPT !.channel = channel]]

\* Faulty: a group has the first alert's severity.
SeverityOfFirst(i, members) == members[i].severity

\* A group is critical if one of its alerts is, else as bad as the first: the
\* loop under "Use highest severity in the group" looks for nothing else.
SeverityOf(i, members) ==
    IF \E j \in DOMAIN members : members[j].severity = "critical" THEN "critical" ELSE members[i].severity

\* Alerts of one name become one, the first, which then carries them all.
\* What is made is known by the position of its first alert.
GroupAlerts(alerts) ==
    LET indices(i) == {j \in DOMAIN alerts : alerts[j].name = alerts[i].name}
        members(i) == [j \in indices(i) |-> alerts[j]]
    IN  [i \in {k \in DOMAIN alerts : \A j \in indices(k) : k <= j} |->
           IF indices(i) = {i} THEN alerts[i]
           ELSE [alerts[i] EXCEPT !.grouped = members(i), !.severity = SeverityOf(i, members(i))]]

\* The handler of a route, for a POST with a payload that parses: the others
\* are turned away before the handler sees them.
HandleBatch(told, env, channel) ==
    LET parsed == [i \in DOMAIN told |-> Parse(Payload(told[i]))] IN
    webhook' = GroupAlerts(applyChannelHeaders(channel, applyEnvironmentHeader(env, parsed)))

-----------------------------------------------------------------------------
\* The monitoring system tells of some alarms: new, still active, or over.
Firing(a) == [alarm |-> a, resolved |-> FALSE, episode |-> IF a \in active THEN episode[a] ELSE episode[a] + 1]
Over(a)   == [alarm |-> a, resolved |-> TRUE, episode |-> episode[a]]
Tidings   == {Firing(a) : a \in Alarm} \cup (IF source \in Resolves THEN {Over(a) : a \in active} ELSE {})

Notify(told, env, channel) ==
    /\ batches < MaxBatches
    /\ \A i, j \in DOMAIN told : told[i].alarm = told[j].alarm => i = j
    /\ batches' = batches + 1
    /\ request' = [told |-> told, env |-> env, channel |-> channel]
    /\ HandleBatch(told, env, channel)
    /\ active' = {a \in Alarm : \/ \E i \in DOMAIN told : told[i].alarm = a /\ ~told[i].resolved
                                \/ a \in active /\ \A i \in DOMAIN told : told[i].alarm # a}
    /\ episode' = [a \in Alarm |-> IF \E i \in DOMAIN told : told[i].alarm = a /\ ~told[i].resolved
                                   THEN Firing(a).episode ELSE episode[a]]
    /\ known' = [a \in Alarm |->
                   IF \E i \in DOMAIN told : told[i].alarm = a
                   THEN (IF episode'[a] = episode[a] THEN known[a] ELSE {})
                        \cup {Parse(Payload(told[i])).fingerprint : i \in {j \in DOMAIN told : told[j].alarm = a}}
                   ELSE known[a]]
    /\ UNCHANGED source

ReceiversNext ==
    \E n \in 1..(IF source \in Grouping THEN BatchSize ELSE 1), env \in EnvHeader, channel \in ChannelHeader :
        \E told \in [1..n -> Tidings] : Notify(told, env, channel)

ReceiversSpec == ReceiversInit /\ [][ReceiversNext]_receiverVars

-----------------------------------------------------------------------------
\* The notifications that alert i of the handler stands for, and what became
\* of the j-th of them.
Carried(i)   == IF webhook[i].grouped = <<>> THEN {i} ELSE DOMAIN webhook[i].grouped
Member(i, j) == IF webhook[i].grouped = <<>> THEN webhook[i] ELSE webhook[i].grouped[j]

\* Every notification of a payload is in exactly one alert the pipeline gets,
\* itself still firing or resolved, under the environment and the channel of its
\* request; and a critical one makes that alert critical.  What else becomes of
\* a group's severity and status is asked below.
NotificationsHandedOn ==
    /\ \A i \in DOMAIN webhook : Carried(i) \subseteq DOMAIN request.told
    /\ \A j \in DOMAIN request.told : \E i \in DOMAIN webhook :
          LET n == request.told[j] IN
          /\ \A k \in DOMAIN webhook : j \in Carried(k) <=> k = i
          /\ Member(i, j).resolved = n.resolved
          /\ webhook[i].env = (IF request.env = "not valid" THEN "" ELSE request.env)
          /\ webhook[i].channel = request.channel
          /\ (n.alarm.severity = "critical" /\ source # "elk") => webhook[i].severity = "critical"

\* While an alarm lasts every notification of it has the same fingerprint, so
\* that its repetitions find the cached analysis and its resolution the row to
\* mark (not ElastAlert, whose number of matches is a label); and alarms that
\* differ in name or team never share one (Zabbix knows hosts, not teams).
FingerprintsIdentify ==
    /\ source # "elk" => \A a \in Alarm : Cardinality(known[a]) <= 1
    /\ \A a, b \in Alarm :
          (a.name # b.name \/ (a.team # b.team /\ source # "zabbix")) => known[a] \cap known[b] = {}

-----------------------------------------------------------------------------
(* What the repository says of groups and the code does not keep.          *)

Rank(severity) == IF severity = "critical" THEN 2 ELSE IF severity = "warning" THEN 1 ELSE 0

\* "Use highest severity in the group" (GroupAlerts): an alert is as bad as
\* the worst of those it carries.
GroupSeverityIsHighest ==
    \A i \in DOMAIN webhook : \A j \in Carried(i) :
        Rank(Member(i, j).severity) <= Rank(webhook[i].severity)

\* "analyze every alert immediately (default)" (config.example.yaml): what is
\* firing is in an alert that is, or the pipeline neither posts it as firing
\* nor analyzes it.
FiringHandedOn ==
    \A i \in DOMAIN webhook : \A j \in Carried(i) :
        ~Member(i, j).resolved => ~webhook[i].resolved
=============================================================================
