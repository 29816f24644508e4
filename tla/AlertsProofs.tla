----------------------------- MODULE AlertsProofs -----------------------------
(***************************************************************************)
(* Proofs about what surrounds the analysis of one alert: Receivers, where *)
(* it gets its fingerprint, and Routing, where it gets its tools.          *)
(*                                                                         *)
(* What a receiver makes of a notification is a matter of operators: the   *)
(* fingerprint is one of the alarm's Prints in its episode (PrintMade),    *)
(* there is one of them (PrintSingle), and other alarms have others        *)
(* (PrintsApart).  The invariant keeps an alarm's known fingerprints and   *)
(* its episode together (PrintInv).  That every notification is handed on  *)
(* rests on parsers that keep what they are told (Faithful), and on where  *)
(* GroupAlerts puts it (Grouped, FirstAlike; HandInv).                     *)
(*                                                                         *)
(* What a registry holds is fixed by the configuration, so whose its       *)
(* executors are is a fact about the operators too (Stocked).  What        *)
(* changes is which of them list tools, and that only grows: a tool that   *)
(* was offered can still be found when the model calls it, though maybe at *)
(* an executor that listed nothing when it was offered (Offered, Complete, *)
(* Called).                                                                *)
(***************************************************************************)
EXTENDS Routing, Receivers, WellFoundedInduction, FiniteSetTheorems, TLAPS

\* Among numbers there is a least one.
LEMMA SomeLeast ==
    ASSUME NEW I, I \subseteq Nat, I # {}
    PROVE  \E x \in I : \A y \in I : x <= y
<1>1. PICK x \in I : \A y \in I : <<y, x>> \notin OpToRel(<, Nat)
    BY NatLessThanWellFounded, WFMin
<1>2. ASSUME NEW y \in I PROVE x =< y
    <2>1. <<y, x>> \in Nat \X Nat /\ <<y, x>>[1] = y /\ <<y, x>>[2] = x
        OBVIOUS
    <2>2. ~(y < x)
        BY <1>1, <2>1 DEF OpToRel
    <2> QED BY <2>2
<1> QED BY <1>2

\* And that is Min.
LEMMA LeastExists ==
    ASSUME NEW I, I \subseteq Nat, I # {}
    PROVE  Min(I) \in I
BY SomeLeast DEF Min

-----------------------------------------------------------------------------
(* Receivers.                                                              *)

\* The labels a Datadog notification has.
TagsOf(a) == <<<<"team", a.team>>, <<"pod", a.pod>>, <<"monitor">>>>

\* The fingerprints a notification of an alarm may get in an episode.
Prints(a, e) ==
    IF source = "loki" THEN {Fingerprint(a.name, LabelsOf(a))}
    ELSE IF source \in Grouping THEN {[name |-> "", labels |-> LabelsOf(a)]}
    ELSE IF source = "zabbix"
    THEN {Fingerprint(a.name, [host |-> a.pod, alertname |-> a.name, event_id |-> e])}
    ELSE IF source = "datadog"
    THEN {Fingerprint(a.name, Merge([alertname |-> a.name], parseDatadogTags(TagsOf(a))))}
    ELSE IF source = "elk"
    THEN {Fingerprint(a.name, [alertname |-> a.name, num_matches |-> m, match_team |-> a.team]) : m \in Nat}
    ELSE IF a.severity = "critical"
    THEN {Fingerprint(a.name, Merge([t \in {a.team} |-> "true"], [alertname |-> a.name]))}
    ELSE {Fingerprint(a.name, Merge([team |-> a.team], [alertname |-> a.name]))}

\* Alertmanager and Grafana bring their fingerprint along; Loki's is made.
LEMMA GroupingPrint ==
    ASSUME source \in Grouping, NEW n
    PROVE  Parse(Payload(n)).fingerprint \in Prints(n.alarm, n.episode)
<1> DEFINE p == [labels |-> LabelsOf(n.alarm), status |-> IF n.resolved THEN "resolved" ELSE "firing",
                 own |-> IF source = "loki" THEN {} ELSE {[name |-> "", labels |-> LabelsOf(n.alarm)]}]
<1>1. Payload(n) = p
    BY DEF Payload
<1>2. OwnOrMade(p) = IF source = "loki" THEN Fingerprint(n.alarm.name, LabelsOf(n.alarm))
                     ELSE [name |-> "", labels |-> LabelsOf(n.alarm)]
    <2>1. p.labels = LabelsOf(n.alarm) /\ p.labels.alertname = n.alarm.name
        BY DEF LabelsOf
    <2>2. CASE source = "loki"
        BY <2>1, <2>2 DEF OwnOrMade
    <2>3. CASE source # "loki"
        BY <2>3 DEF OwnOrMade
    <2> QED BY <2>2, <2>3
<1> HIDE DEF p
<1>3. Parse(p).fingerprint = OwnOrMade(p)
    BY DEF Parse, ParseLoki, ParseAlertmanager, ParseGrafana, Parsed, Grouping
<1> QED BY <1>1, <1>2, <1>3 DEF Prints

\* Zabbix' has the host and the event.
LEMMA ZabbixPrint ==
    ASSUME source = "zabbix", NEW n
    PROVE  Parse(Payload(n)).fingerprint \in Prints(n.alarm, n.episode)
BY DEF Parse, ParseZabbix, Parsed, Payload, Grouping, Prints

\* Datadog's has the tags.
LEMMA DatadogPrint ==
    ASSUME source = "datadog", NEW n
    PROVE  Parse(Payload(n)).fingerprint \in Prints(n.alarm, n.episode)
BY DEF Parse, ParseDatadog, Parsed, Payload, Grouping, Prints, TagsOf

\* ElastAlert's has the number of matches.
LEMMA ElkPrint ==
    ASSUME source = "elk", batches \in Nat, NEW n
    PROVE  Parse(Payload(n)).fingerprint \in Prints(n.alarm, n.episode)
BY DEF Parse, ParseElk, Parsed, Payload, Grouping, Prints

\* An alarm with a name.
HasName(a) == a.name # ""

\* A set of one number.
LEMMA OnlyOne ==
    ASSUME NEW I, NEW j \in Nat, \A i : i \in I <=> i = j
    PROVE  I # {} /\ Min(I) = j
<1>1. I = {j}
    OBVIOUS
<1>2. I \subseteq Nat /\ I # {}
    BY <1>1
<1> QED BY <1>1, <1>2, LeastExists

\* The generic receiver goes by the name it finds.
LEMMA GenericParsed ==
    ASSUME NEW p, NEW name, name # "",
           extractString(p, <<"alertname", "name", "title", "rule_name", "alert">>) = name
    PROVE  ParseGeneric(p).fingerprint = Fingerprint(name, Merge(extractLabelsMap(p), [alertname |-> name]))
<1> DEFINE given == extractString(p, <<"alertname", "name", "title", "rule_name", "alert">>)
           called == IF given = "" THEN "unknown" ELSE given
           severity == mapSeverity(extractString(p, <<"severity", "priority", "level">>))
           resolved == extractString(p, <<"status", "state">>) \in {"resolved", "ok", "OK"}
           fingerprint == Fingerprint(called, Merge(extractLabelsMap(p), [alertname |-> called]))
<1>1. ParseGeneric(p) = Parsed(called, severity, resolved, fingerprint)
    BY DEF ParseGeneric
<1>2. called = name
    OBVIOUS
<1>3. Parsed(called, severity, resolved, fingerprint).fingerprint = fingerprint
    <2> HIDE DEF called, severity, resolved, fingerprint
    <2> QED BY DEF Parsed
<1> HIDE DEF called, severity, resolved
<1> QED BY <1>1, <1>2, <1>3

\* The indices of five keys.
LEMMA OneOfFive == \A i \in 1..5 : i = 1 \/ i = 2 \/ i = 3 \/ i = 4 \/ i = 5
OBVIOUS

\* It finds the title, the third key, or the alertname, the first.
LEMMA GenericPrint ==
    ASSUME source = "generic", NEW n, HasName(n.alarm)
    PROVE  Parse(Payload(n)).fingerprint \in Prints(n.alarm, n.episode)
<1> DEFINE p == Payload(n)
           keys == <<"alertname", "name", "title", "rule_name", "alert">>
           Has(i) == keys[i] \in DOMAIN p /\ p[keys[i]] # ""
           I == {i \in 1..Len(keys) : Has(i)}
           k == IF I # {} THEN Min(I) ELSE 0
<1>1. extractString(p, keys) = IF k = 0 THEN "" ELSE p[keys[k]]
    BY DEF extractString, SelectInSeq
<1>2. /\ Len(keys) = 5
      /\ keys[1] = "alertname" /\ keys[2] = "name" /\ keys[3] = "title" /\ keys[4] = "rule_name" /\ keys[5] = "alert"
    OBVIOUS
<1>3. CASE n.alarm.severity = "critical"
    <2> DEFINE state == IF n.resolved THEN "ok" ELSE "alerting"
    <2>1. p = [name |-> "", title |-> n.alarm.name, priority |-> "critical", state |-> state, tags |-> <<n.alarm.team>>]
        BY <1>3 DEF Payload, Grouping
    <2> HIDE DEF p, state
    <2>2. DOMAIN p = {"name", "title", "priority", "state", "tags"} /\ p["title"] = n.alarm.name /\ p["name"] = ""
        BY <2>1
    <2>3. \A i : i \in I <=> i = 3
        <3> HIDE DEF keys
        <3>1. \A i \in 1..5 : Has(i) <=> i = 3
            BY <1>2, <2>2, OneOfFive DEF HasName
        <3> HIDE DEF Has
        <3>2. \A i : i \in I <=> i \in 1..5 /\ Has(i)
            BY <1>2
        <3> HIDE DEF I
        <3> QED BY <3>1, <3>2
    <2>4. k = 3
        <3> HIDE DEF I
        <3> QED BY <2>3, OnlyOne
    <2> HIDE DEF I, k
    <2>5. extractString(p, keys) = n.alarm.name
        BY <1>1, <1>2, <2>2, <2>4
    <2>6. extractLabelsMap(p) = [t \in {n.alarm.team} |-> "true"]
        <3>1. p.tags = <<n.alarm.team>> /\ "labels" \notin DOMAIN p /\ "tags" \in DOMAIN p
            BY <2>1, <2>2
        <3>2. Range(<<n.alarm.team>>) = {n.alarm.team}
            <4>1. DOMAIN <<n.alarm.team>> = {1}
                OBVIOUS
            <4> QED BY <4>1 DEF Range
        <3> QED BY <3>1, <3>2 DEF extractLabelsMap
    <2>7. Parse(p).fingerprint = Fingerprint(n.alarm.name, Merge([t \in {n.alarm.team} |-> "true"], [alertname |-> n.alarm.name]))
        <3>1. Parse(p) = ParseGeneric(p)
            BY DEF Parse
        <3>2. ParseGeneric(p).fingerprint = Fingerprint(n.alarm.name, Merge(extractLabelsMap(p), [alertname |-> n.alarm.name]))
            <4>1. extractString(p, <<"alertname", "name", "title", "rule_name", "alert">>) = n.alarm.name
                BY <2>5
            <4> QED BY <4>1, GenericParsed DEF HasName
        <3> QED BY <2>6, <3>1, <3>2
    <2> QED BY <1>3, <2>7 DEF Prints, Grouping, p
<1>4. CASE n.alarm.severity # "critical"
    <2> DEFINE status == IF n.resolved THEN "resolved" ELSE "firing"
    <2>1. p = [alertname |-> n.alarm.name, severity |-> n.alarm.severity, status |-> status, labels |-> [team |-> n.alarm.team]]
        BY <1>4 DEF Payload, Grouping
    <2> HIDE DEF p, status
    <2>2. DOMAIN p = {"alertname", "severity", "status", "labels"} /\ p["alertname"] = n.alarm.name
        BY <2>1
    <2>3. \A i : i \in I <=> i = 1
        <3> HIDE DEF keys
        <3>1. \A i \in 1..5 : Has(i) <=> i = 1
            BY <1>2, <2>2, OneOfFive DEF HasName
        <3> HIDE DEF Has
        <3>2. \A i : i \in I <=> i \in 1..5 /\ Has(i)
            BY <1>2
        <3> HIDE DEF I
        <3> QED BY <3>1, <3>2
    <2>4. k = 1
        <3> HIDE DEF I
        <3> QED BY <2>3, OnlyOne
    <2> HIDE DEF I, k
    <2>5. extractString(p, keys) = n.alarm.name
        BY <1>1, <1>2, <2>2, <2>4
    <2>6. extractLabelsMap(p) = [team |-> n.alarm.team]
        BY <2>1, <2>2 DEF extractLabelsMap
    <2>7. Parse(p).fingerprint = Fingerprint(n.alarm.name, Merge([team |-> n.alarm.team], [alertname |-> n.alarm.name]))
        <3>1. Parse(p) = ParseGeneric(p)
            BY DEF Parse
        <3>2. ParseGeneric(p).fingerprint = Fingerprint(n.alarm.name, Merge(extractLabelsMap(p), [alertname |-> n.alarm.name]))
            <4>1. extractString(p, <<"alertname", "name", "title", "rule_name", "alert">>) = n.alarm.name
                BY <2>5
            <4> QED BY <4>1, GenericParsed DEF HasName
        <3> QED BY <2>6, <3>1, <3>2
    <2> QED BY <1>4, <2>7 DEF Prints, Grouping, p
<1> QED BY <1>3, <1>4

\* Whatever the source, a notification gets one of the prints.
LEMMA PrintMade ==
    ASSUME source \in Source, batches \in Nat, NEW n, n.alarm \in Alarm
    PROVE  Parse(Payload(n)).fingerprint \in Prints(n.alarm, n.episode)
<1>1. source \in Grouping \/ source \in {"zabbix", "datadog", "elk", "generic"}
    BY ReceiversAssumption DEF Grouping
<1>2. HasName(n.alarm)
    BY AlarmsAssumption DEF HasName
<1> QED BY <1>1, <1>2, GroupingPrint, ZabbixPrint, DatadogPrint, ElkPrint, GenericPrint

\* Only ElastAlert's prints differ.
LEMMA PrintSingle ==
    ASSUME source # "elk", NEW a, NEW e
    PROVE  \E f : Prints(a, e) = {f}
BY DEF Prints

\* The labels of two maps, the first before the second.
LEMMA Joined ==
    ASSUME NEW f, NEW g
    PROVE  /\ DOMAIN Merge(f, g) = DOMAIN f \cup DOMAIN g
           /\ \A x \in DOMAIN f : Merge(f, g)[x] = f[x]
           /\ \A x \in DOMAIN g : x \notin DOMAIN f => Merge(f, g)[x] = g[x]
BY DEF Merge

\* Fingerprint keeps the labels that outlive a pod.
LEMMA LabelKept ==
    ASSUME NEW name, NEW labels
    PROVE  /\ Fingerprint(name, labels).name = name
           /\ DOMAIN Fingerprint(name, labels).labels = DOMAIN labels \ {"pod", "instance", "pod_name", "container_id"}
           /\ \A l \in DOMAIN labels \ {"pod", "instance", "pod_name", "container_id"} :
                  Fingerprint(name, labels).labels[l] = labels[l]
BY DEF Fingerprint

\* Whose payloads bring their fingerprint along.
BringsOwn == source \in Grouping \ {"loki"}

\* The print tells the alarm's name.
LEMMA PrintName ==
    ASSUME NEW a, NEW e, NEW f \in Prints(a, e)
    PROVE  IF BringsOwn THEN f.labels = LabelsOf(a) ELSE f.name = a.name
<1>1. CASE BringsOwn
    <2>1. f = [name |-> "", labels |-> LabelsOf(a)]
        BY <1>1 DEF Prints, BringsOwn
    <2> QED BY <1>1, <2>1
<1>2. CASE ~BringsOwn
    <2>1. \E labels : f = Fingerprint(a.name, labels)
        BY <1>2 DEF Prints, BringsOwn
    <2> QED BY <1>2, <2>1, LabelKept
<1> QED BY <1>1, <1>2

\* A Datadog notification's label "team" is its tag.
LEMMA TeamTag ==
    ASSUME NEW a
    PROVE  "team" \in DOMAIN parseDatadogTags(TagsOf(a)) /\ parseDatadogTags(TagsOf(a))["team"] = a.team

<1> DEFINE tags == TagsOf(a)
           I == {i \in 1..Len(tags) : tags[i][1] = "team"}
           t == IF I # {} THEN Max(I) ELSE 0
<1>1. /\ Len(tags) = 3 /\ DOMAIN tags = 1..3
      /\ tags[1] = <<"team", a.team>> /\ tags[2] = <<"pod", a.pod>> /\ tags[3] = <<"monitor">>
    BY DEF TagsOf
<1> HIDE DEF tags
<1>2. \A i : i \in I <=> i = 1
    <2>1. \A i \in 1..3 : i = 1 \/ i = 2 \/ i = 3
        OBVIOUS
    <2>2. tags[1][1] = "team" /\ tags[2][1] = "pod" /\ tags[3][1] = "monitor"
        BY <1>1
    <2> QED BY <1>1, <2>1, <2>2
<1>3. t = 1
    <2> HIDE DEF I
    <2> QED BY <1>2 DEF Max
<1>4. "team" \in {u[1] : u \in Range(tags)}
    BY <1>1 DEF Range
<1>5. parseDatadogTags(tags)["team"] = IF Len(tags[t]) = 2 THEN tags[t][2] ELSE "true"
    <2> HIDE DEF tags
    <2> QED BY <1>4 DEF parseDatadogTags, SelectLastInSeq
<1>6. "team" \in DOMAIN parseDatadogTags(tags)
    BY <1>4 DEF parseDatadogTags
<1> HIDE DEF t
<1>7. parseDatadogTags(tags)["team"] = a.team
    BY <1>1, <1>3, <1>5
<1> QED BY <1>6, <1>7 DEF tags

\* What the generic receiver may take a team's tag for.
LabelNames == {"alertname", "team", "pod", "instance", "pod_name", "container_id"}

\* The labels of a print of the generic receiver's critical alarms: the team is
\* the name of one.
LEMMA TeamAsLabel ==
    ASSUME NEW a, a.team \notin LabelNames, NEW name
    PROVE  DOMAIN Fingerprint(name, Merge([t \in {a.team} |-> "true"], [alertname |-> a.name])).labels = {a.team, "alertname"}
<1> DEFINE labels == Merge([t \in {a.team} |-> "true"], [alertname |-> a.name])
<1>1. DOMAIN labels = {a.team, "alertname"}
    <2> DEFINE f == [t \in {a.team} |-> "true"]
               g == [alertname |-> a.name]
    <2>1. DOMAIN f = {a.team} /\ DOMAIN g = {"alertname"}
        OBVIOUS
    <2> HIDE DEF f, g
    <2>2. DOMAIN Merge(f, g) = DOMAIN f \cup DOMAIN g
        BY Joined
    <2> QED BY <2>1, <2>2 DEF f, g
<1> HIDE DEF labels
<1>2. DOMAIN Fingerprint(name, labels).labels = {a.team, "alertname"} \ {"pod", "instance", "pod_name", "container_id"}
    BY <1>1, LabelKept
<1> QED BY <1>2 DEF LabelNames, labels

\* The other prints have the team as a value.
LEMMA TeamAsValue ==
    ASSUME NEW a, NEW name, NEW labels, "team" \in DOMAIN labels, labels["team"] = a.team
    PROVE  LET f == Fingerprint(name, labels) IN "team" \in DOMAIN f.labels /\ f.labels["team"] = a.team
BY LabelKept

\* The print tells the alarm's team, unless it is Zabbix' or ElastAlert's.
LEMMA PrintTeam ==
    ASSUME source \in Source, ~BringsOwn, source \notin {"zabbix", "elk"},
           NEW a, a.team \notin LabelNames, NEW e, NEW f \in Prints(a, e)
    PROVE  \/ source = "generic" /\ DOMAIN f.labels = {a.team, "alertname"}
           \/ "team" \in DOMAIN f.labels /\ f.labels["team"] = a.team
<1>1. CASE source = "datadog"
    <2> DEFINE labels == Merge([alertname |-> a.name], parseDatadogTags(TagsOf(a)))
    <2>1. f = Fingerprint(a.name, labels)
        BY <1>1 DEF Prints, Grouping
    <2>2. "team" \in DOMAIN labels /\ labels["team"] = a.team
        <3> DEFINE f1 == [alertname |-> a.name]
                   g1 == parseDatadogTags(TagsOf(a))
        <3>1. "team" \notin DOMAIN f1
            OBVIOUS
        <3>2. "team" \in DOMAIN g1 /\ g1["team"] = a.team
            BY TeamTag
        <3> HIDE DEF f1, g1
        <3>3. DOMAIN Merge(f1, g1) = DOMAIN f1 \cup DOMAIN g1
            BY Joined
        <3>4. \A x \in DOMAIN g1 : x \notin DOMAIN f1 => Merge(f1, g1)[x] = g1[x]
            BY Joined
        <3>5. "team" \in DOMAIN Merge(f1, g1) /\ Merge(f1, g1)["team"] = a.team
            BY <3>1, <3>2, <3>3, <3>4
        <3> QED BY <3>5 DEF f1, g1
    <2> HIDE DEF labels
    <2> QED BY <2>1, <2>2, TeamAsValue
<1>2. CASE source = "generic" /\ a.severity = "critical"
    <2>1. f = Fingerprint(a.name, Merge([t \in {a.team} |-> "true"], [alertname |-> a.name]))
        BY <1>2 DEF Prints, Grouping
    <2> QED BY <1>2, <2>1, TeamAsLabel
<1>3. CASE source = "generic" /\ a.severity # "critical"
    <2> DEFINE labels == Merge([team |-> a.team], [alertname |-> a.name])
    <2>1. f = Fingerprint(a.name, labels)
        BY <1>3 DEF Prints, Grouping
    <2>2. "team" \in DOMAIN labels /\ labels["team"] = a.team
        <3> DEFINE f1 == [team |-> a.team]
                   g1 == [alertname |-> a.name]
        <3>1. "team" \in DOMAIN f1 /\ f1["team"] = a.team
            OBVIOUS
        <3> HIDE DEF f1, g1
        <3>2. DOMAIN Merge(f1, g1) = DOMAIN f1 \cup DOMAIN g1
            BY Joined
        <3>3. \A x \in DOMAIN f1 : Merge(f1, g1)[x] = f1[x]
            BY Joined
        <3>4. "team" \in DOMAIN Merge(f1, g1) /\ Merge(f1, g1)["team"] = a.team
            BY <3>1, <3>2, <3>3
        <3> QED BY <3>4 DEF f1, g1
    <2> HIDE DEF labels
    <2> QED BY <2>1, <2>2, TeamAsValue
<1>4. CASE source = "loki"
    <2>1. f = Fingerprint(a.name, LabelsOf(a))
        BY <1>4 DEF Prints
    <2>2. "team" \in DOMAIN LabelsOf(a) /\ LabelsOf(a)["team"] = a.team
        BY DEF LabelsOf
    <2> QED BY <2>1, <2>2, TeamAsValue
<1> QED BY <1>1, <1>2, <1>3, <1>4, ReceiversAssumption DEF Grouping, BringsOwn

\* ElastAlert's has it as match_team.
LEMMA ElkTeam ==
    ASSUME source = "elk", NEW a, NEW e, NEW f \in Prints(a, e)
    PROVE  f.labels["match_team"] = a.team
<1>1. PICK m \in Nat : f = Fingerprint(a.name, [alertname |-> a.name, num_matches |-> m, match_team |-> a.team])
    BY DEF Prints, Grouping
<1> DEFINE labels == [alertname |-> a.name, num_matches |-> m, match_team |-> a.team]
<1>2. "match_team" \in DOMAIN labels /\ labels["match_team"] = a.team
    OBVIOUS
<1> HIDE DEF labels
<1>3. "match_team" \notin {"pod", "instance", "pod_name", "container_id"}
    OBVIOUS
<1>4. Fingerprint(a.name, labels).labels["match_team"] = labels["match_team"]
    BY <1>2, <1>3, LabelKept
<1> QED BY <1>1, <1>2, <1>4 DEF labels

\* Alarms that differ in name or team have no print in common.
LEMMA PrintsApart ==
    ASSUME source \in Source, NEW a \in Alarm, NEW b \in Alarm, NEW d, NEW e,
           a.name # b.name \/ (a.team # b.team /\ source # "zabbix"),
           NEW f, f \in Prints(a, d), f \in Prints(b, e)
    PROVE  FALSE
<1>1. a.team \notin LabelNames /\ b.team \notin LabelNames
    BY AlarmsAssumption DEF LabelNames
<1>2. CASE BringsOwn
    <2>1. LabelsOf(a) = LabelsOf(b)
        BY <1>2, PrintName
    <2>2. a.name = b.name /\ a.team = b.team
        BY <2>1 DEF LabelsOf
    <2> QED BY <2>2
<1>3. CASE ~BringsOwn
    <2>1. a.name = b.name
        BY <1>3, PrintName
    <2>2. CASE source = "elk"
        BY <2>1, <2>2, ElkTeam
    <2>3. CASE source \notin {"zabbix", "elk"}
        <3>1. \/ DOMAIN f.labels = {a.team, "alertname"}
              \/ "team" \in DOMAIN f.labels /\ f.labels["team"] = a.team
            BY <1>1, <1>3, <2>3, PrintTeam
        <3>2. \/ DOMAIN f.labels = {b.team, "alertname"}
              \/ "team" \in DOMAIN f.labels /\ f.labels["team"] = b.team
            BY <1>1, <1>3, <2>3, PrintTeam
        <3>3. a.team # b.team
            BY <2>1, <2>3
        <3> QED BY <1>1, <3>1, <3>2, <3>3 DEF LabelNames
    <2> QED BY <2>1, <2>2, <2>3
<1> QED BY <1>2, <1>3

\* Whatever is known of an alarm are prints of its latest episode.
PrintInv ==
    /\ source \in Source
    /\ batches \in Nat
    /\ active \subseteq Alarm
    /\ \A a \in Alarm : \A f \in known[a] : f \in Prints(a, episode[a])

\* The invariant holds at first.
LEMMA PrintInvInit == ReceiversInit => PrintInv
BY DEF ReceiversInit, PrintInv

\* Every notification tells the episode its alarm is in after it.
LEMMA NotifyStep ==
    ASSUME PrintInv, NEW told, NEW env, NEW channel,
           \A i \in DOMAIN told : told[i] \in Tidings, Notify(told, env, channel)
    PROVE  PrintInv'
<1> USE DEF PrintInv
<1>1. source' = source /\ batches' = batches + 1 /\ batches' \in Nat /\ active' \subseteq Alarm
    BY DEF Notify
<1>2. \A a, e : Prints(a, e)' = Prints(a, e)
    BY <1>1 DEF Prints
<1>3. ASSUME NEW i \in DOMAIN told
      PROVE  /\ told[i].alarm \in Alarm
             /\ told[i] = Firing(told[i].alarm) \/ told[i] = Over(told[i].alarm)
             /\ told[i].resolved => told[i].episode = episode[told[i].alarm]
             /\ ~told[i].resolved => told[i].episode = Firing(told[i].alarm).episode
    <2>1. PICK a \in Alarm : told[i] = Firing(a) \/ told[i] = Over(a)
        <3>1. told[i] \in Tidings
            OBVIOUS
        <3>2. active \subseteq Alarm
            OBVIOUS
        <3> QED BY <3>1, <3>2 DEF Tidings
    <2>2. /\ Firing(a).alarm = a /\ ~Firing(a).resolved
          /\ Over(a).alarm = a /\ Over(a).resolved /\ Over(a).episode = episode[a]
        BY DEF Firing, Over
    <2> QED BY <2>1, <2>2
<1>4. ASSUME NEW a \in Alarm, NEW f \in known'[a] PROVE f \in Prints(a, episode'[a])
    <2>1. CASE \A i \in DOMAIN told : told[i].alarm # a
        <3>1. known'[a] = known[a] /\ episode'[a] = episode[a]
            BY <2>1 DEF Notify
        <3> QED BY <1>4, <3>1
    <2>2. CASE \E i \in DOMAIN told : told[i].alarm = a
        <3>1. PICK i \in DOMAIN told : told[i].alarm = a
            BY <2>2
        <3>2. \A j \in DOMAIN told : told[j].alarm = a => j = i
            BY <3>1 DEF Notify
        <3>3. episode'[a] = IF ~told[i].resolved THEN Firing(a).episode ELSE episode[a]
            BY <3>1, <3>2 DEF Notify
        <3>4. told[i].episode = episode'[a]
            BY <1>3, <3>1, <3>3
        <3>5. \/ episode'[a] = episode[a] /\ f \in known[a]
              \/ f = Parse(Payload(told[i])).fingerprint
            <4>1. known'[a] = (IF episode'[a] = episode[a] THEN known[a] ELSE {})
                              \cup {Parse(Payload(told[j])).fingerprint : j \in {h \in DOMAIN told : told[h].alarm = a}}
                BY <2>2 DEF Notify
            <4> QED BY <1>4, <3>2, <4>1
        <3>6. Parse(Payload(told[i])).fingerprint \in Prints(a, episode'[a])
            BY <1>3, <3>1, <3>4, PrintMade
        <3> QED BY <3>5, <3>6
    <2> QED BY <2>1, <2>2
<1> QED BY <1>1, <1>2, <1>4

\* The invariant is inductive.
LEMMA PrintInvStep == PrintInv /\ [ReceiversNext]_receiverVars => PrintInv'
<1> SUFFICES ASSUME PrintInv, [ReceiversNext]_receiverVars PROVE PrintInv'
    OBVIOUS
<1>1. CASE ReceiversNext
    <2>1. PICK n \in 1..(IF source \in Grouping THEN BatchSize ELSE 1), env \in EnvHeader, channel \in ChannelHeader :
              \E told \in [1..n -> Tidings] : Notify(told, env, channel)
        BY <1>1 DEF ReceiversNext
    <2>2. PICK told \in [1..n -> Tidings] : Notify(told, env, channel)
        BY <2>1
    <2>3. \A i \in DOMAIN told : told[i] \in Tidings
        BY <2>2
    <2> QED BY <2>2, <2>3, NotifyStep
<1>2. CASE UNCHANGED receiverVars
    <2>1. source' = source /\ batches' = batches /\ active' = active /\ known' = known /\ episode' = episode
        BY <1>2 DEF receiverVars
    <2> QED BY <2>1 DEF PrintInv, Prints
<1> QED BY <1>1, <1>2

\* It says what the property says.
LEMMA PrintInvIdentifies == PrintInv => FingerprintsIdentify
<1> SUFFICES ASSUME PrintInv PROVE FingerprintsIdentify
    OBVIOUS
<1> USE DEF PrintInv
<1>1. ASSUME source # "elk", NEW a \in Alarm PROVE Cardinality(known[a]) <= 1
    <2>1. PICK f : Prints(a, episode[a]) = {f}
        BY <1>1, PrintSingle
    <2>2. known[a] \subseteq {f}
        BY <2>1
    <2>3. IsFiniteSet({f}) /\ Cardinality({f}) = 1
        BY FS_Singleton
    <2> QED BY <2>2, <2>3, FS_Subset
<1>2. ASSUME NEW a \in Alarm, NEW b \in Alarm, a.name # b.name \/ (a.team # b.team /\ source # "zabbix")
      PROVE  known[a] \cap known[b] = {}
    BY <1>2, PrintsApart
<1> QED BY <1>1, <1>2 DEF FingerprintsIdentify

\* For any alarms and any payloads, while an alarm lasts its notifications have
\* one fingerprint, and alarms that differ in name or team have none in common
\* (Parse of the receivers, domain.Fingerprint).
THEOREM AlarmsIdentified == ReceiversSpec => []FingerprintsIdentify
BY PrintInvInit, PrintInvStep, PrintInvIdentifies, PTL DEF ReceiversSpec

-----------------------------------------------------------------------------
(* What the handler gets.                                                  *)

\* A payload has a text under a key.
HasText(p, key) == key \in DOMAIN p /\ p[key] # ""

\* Of m keys the k-th alone has one.
OnlyText(p, keys, m, k) ==
    /\ m \in Nat /\ Len(keys) = m /\ k \in 1..m
    /\ \A i \in 1..m : HasText(p, keys[i]) <=> i = k

\* Where one key alone has a text, that text is found.
LEMMA TextFound ==
    ASSUME NEW p, NEW keys, NEW m, NEW k, OnlyText(p, keys, m, k)
    PROVE  extractString(p, keys) = p[keys[k]]
<1>0. /\ m \in Nat /\ Len(keys) = m /\ k \in 1..m
      /\ \A i \in 1..m : HasText(p, keys[i]) <=> i = k
    BY DEF OnlyText
<1> DEFINE Has(i) == HasText(p, keys[i])
           I == {i \in 1..Len(keys) : Has(i)}
           first == IF I # {} THEN Min(I) ELSE 0
<1>1. extractString(p, keys) = IF first = 0 THEN "" ELSE p[keys[first]]
    BY DEF extractString, SelectInSeq, HasText
<1>2. \A i \in 1..m : Has(i) <=> i = k
    BY <1>0
<1>3. \A i : i \in I <=> i = k
    <2> HIDE DEF Has
    <2> QED BY <1>0, <1>2
<1>4. first = k
    <2>1. k \in Nat
        BY <1>0
    <2> HIDE DEF I
    <2> QED BY <1>3, <2>1, OnlyOne
<1>5. k # 0
    BY <1>0
<1> HIDE DEF first
<1> QED BY <1>1, <1>4, <1>5

\* An alert with all its fields.
Alerted(name, severity, resolved, fingerprint, env, channel, grouped) ==
    [name |-> name, severity |-> severity, resolved |-> resolved, fingerprint |-> fingerprint,
     env |-> env, channel |-> channel, grouped |-> grouped]

Severities == {"critical", "warning", "info"}

\* The parsers keep an alarm's name, never make a critical one harmless, and
\* tell whether it is over if their system does.
Faithful(p, n) ==
    /\ p = Alerted(p.name, p.severity, p.resolved, p.fingerprint, "", "", <<>>)
    /\ p.name = n.alarm.name
    /\ p.severity \in Severities
    /\ n.alarm.severity = "critical" /\ source # "elk" => p.severity = "critical"
    /\ p.resolved = (n.resolved /\ source \in Resolves)

\* The severities the three maps return.
LEMMA SeveritiesMapped ==
    /\ \A s : mapSeverity(s) \in Severities /\ mapZabbixSeverity(s) \in Severities
              /\ mapDatadogSeverity(s) \in Severities
    /\ mapSeverity("critical") = "critical" /\ mapZabbixSeverity("High") = "critical"
    /\ mapDatadogSeverity("error") = "critical"
BY DEF mapSeverity, mapZabbixSeverity, mapDatadogSeverity, Severities

\* Alertmanager, Grafana and Loki.
LEMMA GroupingFaithful ==
    ASSUME source \in Grouping, NEW n, n.resolved \in BOOLEAN
    PROVE  Faithful(Parse(Payload(n)), n)
<1> DEFINE status == IF n.resolved THEN "resolved" ELSE "firing"
           p == [labels |-> LabelsOf(n.alarm), status |-> status,
                 own |-> IF source = "loki" THEN {} ELSE {[name |-> "", labels |-> LabelsOf(n.alarm)]}]
           over == p.status = "resolved"
           q == Parsed(p.labels.alertname, mapSeverity(p.labels.severity), over, OwnOrMade(p))
<1>1. Payload(n) = p
    BY DEF Payload
<1>2. p.status = status /\ p.labels.alertname = n.alarm.name /\ p.labels.severity = n.alarm.severity
    BY DEF LabelsOf
<1>3. over = n.resolved
    BY <1>2
<1> HIDE DEF p
<1>4. Parse(p) = q
    BY DEF Parse, ParseLoki, ParseAlertmanager, ParseGrafana, Grouping
<1>5. /\ q = Alerted(q.name, q.severity, q.resolved, q.fingerprint, "", "", <<>>)
      /\ q.name = p.labels.alertname /\ q.severity = mapSeverity(p.labels.severity)
      /\ q.resolved = over
    <2> HIDE DEF over
    <2> QED BY DEF Parsed, Alerted
<1> HIDE DEF q, over
<1>6. source \in Resolves
    BY DEF Resolves
<1> QED BY <1>1, <1>2, <1>3, <1>4, <1>5, <1>6, SeveritiesMapped DEF Faithful

\* Zabbix.
LEMMA ZabbixFaithful ==
    ASSUME source = "zabbix", NEW n, n.resolved \in BOOLEAN
    PROVE  Faithful(Parse(Payload(n)), n)
<1> DEFINE how == IF n.alarm.severity = "critical" THEN "High" ELSE "Average"
           status == IF n.resolved THEN "OK" ELSE "PROBLEM"
           p == [trigger |-> n.alarm.name, host |-> n.alarm.pod, event |-> n.episode,
                 severity |-> how, status |-> status]
           print == Fingerprint(p.trigger, [host |-> p.host, alertname |-> p.trigger, event_id |-> p.event])
           over == p.status = "OK"
           q == Parsed(p.trigger, mapZabbixSeverity(p.severity), over, print)
<1>1. Payload(n) = p
    BY DEF Payload, Grouping
<1>2. p.trigger = n.alarm.name /\ p.severity = how /\ over = n.resolved
    OBVIOUS
<1> HIDE DEF p
<1>3. Parse(p) = q
    BY DEF Parse, ParseZabbix
<1>4. /\ q = Alerted(q.name, q.severity, q.resolved, q.fingerprint, "", "", <<>>)
      /\ q.name = p.trigger /\ q.severity = mapZabbixSeverity(p.severity)
      /\ q.resolved = over
    <2> HIDE DEF print, over
    <2> QED BY DEF Parsed, Alerted
<1> HIDE DEF q, over
<1>5. source \in Resolves
    BY DEF Resolves
<1> QED BY <1>1, <1>2, <1>3, <1>4, <1>5, SeveritiesMapped DEF Faithful

\* Datadog, which does not tell that an alarm is over.
LEMMA DatadogFaithful ==
    ASSUME source = "datadog", NEW n, n.resolved \in BOOLEAN
    PROVE  Faithful(Parse(Payload(n)), n)
<1> DEFINE type == IF n.alarm.severity = "critical" THEN "error" ELSE n.alarm.severity
           p == [title |-> n.alarm.name, type |-> type,
                 tags |-> <<<<"team", n.alarm.team>>, <<"pod", n.alarm.pod>>, <<"monitor">>>>]
           print == Fingerprint(p.title, Merge([alertname |-> p.title], parseDatadogTags(p.tags)))
           q == Parsed(p.title, mapDatadogSeverity(p.type), FALSE, print)
<1>1. Payload(n) = p
    BY DEF Payload, Grouping
<1>2. p.title = n.alarm.name /\ p.type = type
    OBVIOUS
<1> HIDE DEF p
<1>3. Parse(p) = q
    BY DEF Parse, ParseDatadog
<1>4. /\ q = Alerted(q.name, q.severity, q.resolved, q.fingerprint, "", "", <<>>)
      /\ q.name = p.title /\ q.severity = mapDatadogSeverity(p.type)
      /\ q.resolved = FALSE
    <2> HIDE DEF print
    <2> QED BY DEF Parsed, Alerted
<1> HIDE DEF q
<1>5. source \notin Resolves
    BY DEF Resolves, Grouping
<1> QED BY <1>1, <1>2, <1>3, <1>4, <1>5, SeveritiesMapped DEF Faithful

\* ElastAlert, which does not tell how bad it is either.
LEMMA ElkFaithful ==
    ASSUME source = "elk", NEW n, n.resolved \in BOOLEAN
    PROVE  Faithful(Parse(Payload(n)), n)
<1> DEFINE p == [rule |-> n.alarm.name, matches |-> batches + 1, body |-> [team |-> n.alarm.team]]
           print == Fingerprint(p.rule, [alertname |-> p.rule, num_matches |-> p.matches, match_team |-> p.body.team])
           q == Parsed(p.rule, "warning", FALSE, print)
<1>1. Payload(n) = p
    BY DEF Payload, Grouping
<1>2. p.rule = n.alarm.name
    OBVIOUS
<1> HIDE DEF p
<1>3. Parse(p) = q
    BY DEF Parse, ParseElk
<1>4. /\ q = Alerted(q.name, q.severity, q.resolved, q.fingerprint, "", "", <<>>)
      /\ q.name = p.rule /\ q.severity = "warning" /\ q.resolved = FALSE
    <2> HIDE DEF print
    <2> QED BY DEF Parsed, Alerted
<1> HIDE DEF q
<1>5. source \notin Resolves
    BY DEF Resolves, Grouping
<1> QED BY <1>1, <1>2, <1>3, <1>4, <1>5 DEF Faithful, Severities

\* The keys the generic receiver looks for.
NameKeys     == <<"alertname", "name", "title", "rule_name", "alert">>
SeverityKeys == <<"severity", "priority", "level">>
StatusKeys   == <<"status", "state">>

\* The generic receiver keeps what it finds.
LEMMA GenericKeeps ==
    ASSUME NEW p, NEW name, name # "", NEW over \in BOOLEAN,
           extractString(p, NameKeys) = name,
           (extractString(p, StatusKeys) \in {"resolved", "ok", "OK"}) = over
    PROVE  LET q == ParseGeneric(p)
           IN  /\ q = Alerted(q.name, q.severity, q.resolved, q.fingerprint, "", "", <<>>)
               /\ q.name = name
               /\ q.severity = mapSeverity(extractString(p, SeverityKeys))
               /\ q.resolved = over
<1> DEFINE given == extractString(p, <<"alertname", "name", "title", "rule_name", "alert">>)
           called == IF given = "" THEN "unknown" ELSE given
           severity == mapSeverity(extractString(p, <<"severity", "priority", "level">>))
           status == extractString(p, <<"status", "state">>) \in {"resolved", "ok", "OK"}
           fingerprint == Fingerprint(called, Merge(extractLabelsMap(p), [alertname |-> called]))
           q == Parsed(called, severity, status, fingerprint)
<1>1. ParseGeneric(p) = q
    BY DEF ParseGeneric
<1>2. called = name
    BY DEF NameKeys
<1>3. status = over
    BY DEF StatusKeys
<1>4. severity = mapSeverity(extractString(p, SeverityKeys))
    BY DEF SeverityKeys
<1>5. /\ q = Alerted(q.name, q.severity, q.resolved, q.fingerprint, "", "", <<>>)
      /\ q.name = called /\ q.severity = severity /\ q.resolved = status
    <2> HIDE DEF called, severity, status, fingerprint
    <2> QED BY DEF Parsed, Alerted
<1> HIDE DEF q, called, severity, status
<1> QED BY <1>1, <1>2, <1>3, <1>4, <1>5

\* The two ways to write to the generic receiver.
LEMMA GenericFaithful ==
    ASSUME source = "generic", NEW n, HasName(n.alarm), n.resolved \in BOOLEAN
    PROVE  Faithful(Parse(Payload(n)), n)
<1> DEFINE p == Payload(n)
<1>1. Parse(p) = ParseGeneric(p)
    BY DEF Parse
<1>2. /\ Len(NameKeys) = 5 /\ Len(SeverityKeys) = 3 /\ Len(StatusKeys) = 2
      /\ NameKeys[1] = "alertname" /\ NameKeys[2] = "name" /\ NameKeys[3] = "title"
      /\ NameKeys[4] = "rule_name" /\ NameKeys[5] = "alert"
      /\ SeverityKeys[1] = "severity" /\ SeverityKeys[2] = "priority" /\ SeverityKeys[3] = "level"
      /\ StatusKeys[1] = "status" /\ StatusKeys[2] = "state"
    BY DEF NameKeys, SeverityKeys, StatusKeys
<1>3. (\A i \in 1..3 : i = 1 \/ i = 2 \/ i = 3) /\ (\A i \in 1..2 : i = 1 \/ i = 2)
    OBVIOUS
<1>4. source \in Resolves
    BY DEF Resolves
<1>5. CASE n.alarm.severity = "critical"
    <2> DEFINE state == IF n.resolved THEN "ok" ELSE "alerting"
    <2>1. p = [name |-> "", title |-> n.alarm.name, priority |-> "critical", state |-> state, tags |-> <<n.alarm.team>>]
        BY <1>5 DEF Payload, Grouping
    <2>2. state # "" /\ (state \in {"resolved", "ok", "OK"}) = n.resolved
        OBVIOUS
    <2> HIDE DEF p, state
    <2>3. /\ DOMAIN p = {"name", "title", "priority", "state", "tags"}
          /\ p["title"] = n.alarm.name /\ p["name"] = "" /\ p["priority"] = "critical" /\ p["state"] = state
        BY <2>1
    <2>4. /\ \A i \in 1..5 : HasText(p, NameKeys[i]) <=> i = 3
          /\ \A i \in 1..3 : HasText(p, SeverityKeys[i]) <=> i = 2
          /\ \A i \in 1..2 : HasText(p, StatusKeys[i]) <=> i = 2
        <3>1. \A i \in 1..5 : HasText(p, NameKeys[i]) <=> i = 3
            BY <1>2, <2>3, OneOfFive DEF HasText, HasName
        <3>2. \A i \in 1..3 : HasText(p, SeverityKeys[i]) <=> i = 2
            BY <1>2, <1>3, <2>3 DEF HasText
        <3>3. \A i \in 1..2 : HasText(p, StatusKeys[i]) <=> i = 2
            BY <1>2, <1>3, <2>2, <2>3 DEF HasText
        <3> QED BY <3>1, <3>2, <3>3
    <2>5. extractString(p, NameKeys) = n.alarm.name
        <3>1. OnlyText(p, NameKeys, 5, 3)
            BY <1>2, <2>4 DEF OnlyText
        <3>2. extractString(p, NameKeys) = p[NameKeys[3]]
            BY <3>1, TextFound
        <3> QED BY <1>2, <2>3, <3>2
    <2>6. extractString(p, SeverityKeys) = "critical"
        <3>1. OnlyText(p, SeverityKeys, 3, 2)
            BY <1>2, <2>4 DEF OnlyText
        <3>2. extractString(p, SeverityKeys) = p[SeverityKeys[2]]
            BY <3>1, TextFound
        <3> QED BY <1>2, <2>3, <3>2
    <2>7. extractString(p, StatusKeys) = state
        <3>1. OnlyText(p, StatusKeys, 2, 2)
            BY <1>2, <2>4 DEF OnlyText
        <3>2. extractString(p, StatusKeys) = p[StatusKeys[2]]
            BY <3>1, TextFound
        <3> QED BY <1>2, <2>3, <3>2
    <2>8. (extractString(p, StatusKeys) \in {"resolved", "ok", "OK"}) = n.resolved
        BY <2>2, <2>7
    <2> DEFINE q == ParseGeneric(p)
    <2>9. /\ q = Alerted(q.name, q.severity, q.resolved, q.fingerprint, "", "", <<>>)
          /\ q.name = n.alarm.name /\ q.resolved = n.resolved
          /\ q.severity = mapSeverity("critical")
        BY <2>5, <2>6, <2>8, GenericKeeps DEF HasName
    <2> HIDE DEF q
    <2>10. Faithful(q, n)
        BY <1>4, <2>9, SeveritiesMapped DEF Faithful
    <2> QED BY <1>1, <2>10 DEF q, p
<1>6. CASE n.alarm.severity # "critical"
    <2> DEFINE status == IF n.resolved THEN "resolved" ELSE "firing"
    <2>1. p = [alertname |-> n.alarm.name, severity |-> n.alarm.severity, status |-> status, labels |-> [team |-> n.alarm.team]]
        BY <1>6 DEF Payload, Grouping
    <2>2. status # "" /\ (status \in {"resolved", "ok", "OK"}) = n.resolved
        OBVIOUS
    <2> HIDE DEF p, status
    <2>3. /\ DOMAIN p = {"alertname", "severity", "status", "labels"}
          /\ p["alertname"] = n.alarm.name /\ p["status"] = status
        BY <2>1
    <2>4. /\ \A i \in 1..5 : HasText(p, NameKeys[i]) <=> i = 1
          /\ \A i \in 1..2 : HasText(p, StatusKeys[i]) <=> i = 1
        <3>1. \A i \in 1..5 : HasText(p, NameKeys[i]) <=> i = 1
            BY <1>2, <2>3, OneOfFive DEF HasText, HasName
        <3>2. \A i \in 1..2 : HasText(p, StatusKeys[i]) <=> i = 1
            BY <1>2, <1>3, <2>2, <2>3 DEF HasText
        <3> QED BY <3>1, <3>2
    <2>5. extractString(p, NameKeys) = n.alarm.name
        <3>1. OnlyText(p, NameKeys, 5, 1)
            BY <1>2, <2>4 DEF OnlyText
        <3>2. extractString(p, NameKeys) = p[NameKeys[1]]
            BY <3>1, TextFound
        <3> QED BY <1>2, <2>3, <3>2
    <2>6. extractString(p, StatusKeys) = status
        <3>1. OnlyText(p, StatusKeys, 2, 1)
            BY <1>2, <2>4 DEF OnlyText
        <3>2. extractString(p, StatusKeys) = p[StatusKeys[1]]
            BY <3>1, TextFound
        <3> QED BY <1>2, <2>3, <3>2
    <2>7. (extractString(p, StatusKeys) \in {"resolved", "ok", "OK"}) = n.resolved
        BY <2>2, <2>6
    <2> DEFINE q == ParseGeneric(p)
    <2>8. /\ q = Alerted(q.name, q.severity, q.resolved, q.fingerprint, "", "", <<>>)
          /\ q.name = n.alarm.name /\ q.resolved = n.resolved
          /\ q.severity = mapSeverity(extractString(p, SeverityKeys))
        BY <2>5, <2>7, GenericKeeps DEF HasName
    <2> HIDE DEF q
    <2>9. Faithful(q, n)
        BY <1>4, <1>6, <2>8, SeveritiesMapped DEF Faithful
    <2> QED BY <1>1, <2>9 DEF q, p
<1> QED BY <1>5, <1>6

\* Every parser is faithful.
LEMMA ParsersFaithful ==
    ASSUME source \in Source, NEW n, n.alarm \in Alarm, n.resolved \in BOOLEAN
    PROVE  Faithful(Parse(Payload(n)), n)
<1>1. source \in Grouping \/ source \in {"zabbix", "datadog", "elk", "generic"}
    BY ReceiversAssumption DEF Grouping
<1>2. HasName(n.alarm)
    BY AlarmsAssumption DEF HasName
<1> QED BY <1>1, <1>2, GroupingFaithful, ZabbixFaithful, DatadogFaithful, ElkFaithful, GenericFaithful

\* The fields of an alert.
LEMMA AlertedFields ==
    ASSUME NEW name, NEW severity, NEW resolved, NEW print, NEW env, NEW channel, NEW grouped
    PROVE  LET a == Alerted(name, severity, resolved, print, env, channel, grouped) IN
           /\ a.name = name /\ a.severity = severity /\ a.resolved = resolved
           /\ a.env = env /\ a.channel = channel /\ a.grouped = grouped
BY DEF Alerted

\* A notification.
Notification == [alarm : Alarm, resolved : BOOLEAN, episode : Nat]

\* What the monitoring system tells is one, and it tells that an alarm is over
\* only to receivers that understand it.
LEMMA TidingsTyped ==
    ASSUME ReceiversTypeOK, NEW n \in Tidings
    PROVE  n \in Notification /\ n.alarm \in Alarm /\ n.resolved \in BOOLEAN
           /\ (n.resolved => source \in Resolves)
<1>1. active \subseteq Alarm /\ \A a \in Alarm : episode[a] \in Nat
    BY DEF ReceiversTypeOK
<1>2. PICK a \in Alarm : n = Firing(a) \/ (n = Over(a) /\ source \in Resolves)
    BY <1>1 DEF Tidings
<1>3. CASE n = Firing(a)
    <2> DEFINE e == IF a \in active THEN episode[a] ELSE episode[a] + 1
    <2>1. n = [alarm |-> a, resolved |-> FALSE, episode |-> e]
        BY <1>3 DEF Firing
    <2>2. e \in Nat
        BY <1>1
    <2> HIDE DEF e
    <2> QED BY <2>1, <2>2 DEF Notification
<1>4. CASE n = Over(a) /\ source \in Resolves
    BY <1>1, <1>4 DEF Over, Notification
<1> QED BY <1>2, <1>3, <1>4

\* The alerts of a payload, before they are grouped.
Received(told, env, channel) ==
    applyChannelHeaders(channel, applyEnvironmentHeader(env, [i \in DOMAIN told |-> Parse(Payload(told[i]))]))

EnvOf(env) == IF env = "not valid" THEN "" ELSE env

\* It has the name, the state and the severity of its notification, and the
\* headers of the request.
Carries(alert, n, env, channel) ==
    \E severity \in Severities : \E print :
        /\ alert = Alerted(n.alarm.name, severity, n.resolved, print, EnvOf(env), channel, <<>>)
        /\ n.alarm.severity = "critical" /\ source # "elk" => severity = "critical"

\* Each does.
LEMMA ReceivedFields ==
    ASSUME ReceiversTypeOK, NEW told, \A i \in DOMAIN told : told[i] \in Tidings, NEW env, NEW channel
    PROVE  /\ DOMAIN Received(told, env, channel) = DOMAIN told
           /\ \A i \in DOMAIN told : Carries(Received(told, env, channel)[i], told[i], env, channel)
<1> DEFINE parsed == [i \in DOMAIN told |-> Parse(Payload(told[i]))]
           placed == applyEnvironmentHeader(env, parsed)
<1>1. DOMAIN parsed = DOMAIN told /\ \A i \in DOMAIN told : parsed[i] = Parse(Payload(told[i]))
    OBVIOUS
<1> HIDE DEF parsed
<1>2. /\ DOMAIN placed = DOMAIN told
      /\ \A i \in DOMAIN told : placed[i] = [parsed[i] EXCEPT !.env = EnvOf(env)]
    BY <1>1 DEF applyEnvironmentHeader, EnvOf
<1>3. Received(told, env, channel) = applyChannelHeaders(channel, placed)
    BY DEF Received, parsed
<1> HIDE DEF placed
<1>4. /\ DOMAIN Received(told, env, channel) = DOMAIN told
      /\ \A i \in DOMAIN told : Received(told, env, channel)[i] = [placed[i] EXCEPT !.channel = channel]
    BY <1>2, <1>3 DEF applyChannelHeaders
<1>5. ASSUME NEW i \in DOMAIN told
      PROVE  Carries(Received(told, env, channel)[i], told[i], env, channel)
    <2>1. /\ told[i].alarm \in Alarm /\ told[i].resolved \in BOOLEAN
          /\ told[i].resolved => source \in Resolves
        BY TidingsTyped
    <2>2. Faithful(parsed[i], told[i])
        BY <1>1, <2>1, ParsersFaithful DEF ReceiversTypeOK
    <2> DEFINE severity == parsed[i].severity
               print == parsed[i].fingerprint
    <2>3. parsed[i] = Alerted(told[i].alarm.name, severity, told[i].resolved, print, "", "", <<>>)
        BY <2>1, <2>2 DEF Faithful
    <2>4. /\ severity \in Severities
          /\ told[i].alarm.severity = "critical" /\ source # "elk" => severity = "critical"
        BY <2>2 DEF Faithful
    <2> HIDE DEF severity, print
    <2>5. placed[i] = Alerted(told[i].alarm.name, severity, told[i].resolved, print, EnvOf(env), "", <<>>)
        <3> DEFINE a == Alerted(told[i].alarm.name, severity, told[i].resolved, print, "", "", <<>>)
        <3>1. placed[i] = [a EXCEPT !.env = EnvOf(env)]
            BY <1>2, <2>3
        <3> QED BY <3>1 DEF Alerted
    <2>6. Received(told, env, channel)[i]
             = Alerted(told[i].alarm.name, severity, told[i].resolved, print, EnvOf(env), channel, <<>>)
        <3> DEFINE a == Alerted(told[i].alarm.name, severity, told[i].resolved, print, EnvOf(env), "", <<>>)
        <3>1. Received(told, env, channel)[i] = [a EXCEPT !.channel = channel]
            BY <1>4, <2>5
        <3> QED BY <3>1 DEF Alerted
    <2> QED BY <2>4, <2>6 DEF Carries
<1> QED BY <1>4, <1>5

\* The positions of the alerts of one name, and the first of them.
Alike(alerts, i)   == {j \in DOMAIN alerts : alerts[j].name = alerts[i].name}
IsFirst(alerts, i) == \A j \in Alike(alerts, i) : i <= j

\* What a group has of its first alert, and what it has of all.
LEMMA Grouped ==
    ASSUME NEW alerts, NEW i \in DOMAIN alerts, IsFirst(alerts, i),
           NEW name, NEW severity, NEW resolved, NEW print, NEW env, NEW channel,
           alerts[i] = Alerted(name, severity, resolved, print, env, channel, <<>>)
    PROVE  LET h == GroupAlerts(alerts)[i] IN
           /\ i \in DOMAIN GroupAlerts(alerts)
           /\ h.resolved = resolved /\ h.env = env /\ h.channel = channel
           /\ Alike(alerts, i) = {i} => h.grouped = <<>> /\ h.severity = severity
           /\ Alike(alerts, i) # {i} =>
                /\ h.grouped = [j \in Alike(alerts, i) |-> alerts[j]]
                /\ h.severity = SeverityOf(i, [j \in Alike(alerts, i) |-> alerts[j]])
<1> DEFINE members == [j \in Alike(alerts, i) |-> alerts[j]]
           worst == SeverityOf(i, members)
           h == GroupAlerts(alerts)[i]
<1>1. /\ i \in DOMAIN GroupAlerts(alerts)
      /\ h = IF Alike(alerts, i) = {i} THEN alerts[i]
             ELSE [alerts[i] EXCEPT !.grouped = members, !.severity = worst]
    BY DEF GroupAlerts, IsFirst, Alike
<1> HIDE DEF members, worst, h
<1>2. /\ alerts[i].resolved = resolved /\ alerts[i].env = env /\ alerts[i].channel = channel
      /\ alerts[i].grouped = <<>> /\ alerts[i].severity = severity
    BY AlertedFields
<1>3. CASE Alike(alerts, i) = {i}
    BY <1>1, <1>2, <1>3 DEF h
<1>4. CASE Alike(alerts, i) # {i}
    <2> DEFINE a == Alerted(name, severity, resolved, print, env, channel, <<>>)
    <2>1. h = [a EXCEPT !.grouped = members, !.severity = worst]
        BY <1>1, <1>4
    <2>2. h = Alerted(name, worst, resolved, print, env, channel, members)
        BY <2>1 DEF Alerted
    <2>3. /\ h.resolved = resolved /\ h.env = env /\ h.channel = channel
          /\ h.grouped = members /\ h.severity = worst
        BY <2>2, AlertedFields
    <2> QED BY <1>1, <1>4, <2>3 DEF h, members, worst
<1> QED BY <1>3, <1>4

\* The first alert of a name that a payload has.
LEMMA FirstAlike ==
    ASSUME NEW alerts, NEW n \in Nat, DOMAIN alerts = 1..n, NEW j \in 1..n
    PROVE  \E i \in 1..n : /\ alerts[i].name = alerts[j].name
                           /\ IsFirst(alerts, i) /\ i <= j
                           /\ j \in Alike(alerts, i)
                           /\ \A k \in 1..n : IsFirst(alerts, k) /\ j \in Alike(alerts, k) => k = i
<1> DEFINE I == Alike(alerts, j)
<1>1. I \subseteq Nat /\ j \in I
    BY DEF Alike
<1>2. Min(I) \in I /\ \A y \in I : Min(I) <= y
    <2> HIDE DEF I
    <2>1. Min(I) \in I
        BY <1>1, LeastExists
    <2>2. PICK x \in I : \A y \in I : x <= y
        BY <1>1, SomeLeast
    <2> QED BY <2>1, <2>2 DEF Min
<1> DEFINE i == Min(I)
<1>3. i \in 1..n /\ alerts[i].name = alerts[j].name /\ i <= j
    BY <1>1, <1>2 DEF Alike
<1>4. Alike(alerts, i) = I
    BY <1>3 DEF Alike
<1>5. IsFirst(alerts, i)
    BY <1>2, <1>4 DEF IsFirst
<1>6. ASSUME NEW k \in 1..n, IsFirst(alerts, k), j \in Alike(alerts, k) PROVE k = i
    <2>1. alerts[k].name = alerts[j].name
        BY <1>6 DEF Alike
    <2>2. i \in Alike(alerts, k) /\ k \in I
        BY <1>3, <2>1 DEF Alike
    <2>3. k <= i /\ i <= k
        BY <1>2, <1>6, <2>2 DEF IsFirst
    <2> QED BY <1>3, <2>3
<1> QED BY <1>1, <1>3, <1>4, <1>5, <1>6

\* A payload is handed on whole.
LEMMA HandStep ==
    ASSUME ReceiversTypeOK, NEW n \in Nat, NEW told \in [1..n -> Tidings], NEW env, NEW channel,
           Notify(told, env, channel)
    PROVE  NotificationsHandedOn' /\ \A i \in DOMAIN webhook' : webhook'[i].severity \in Severities
<1> DEFINE alerts == Received(told, env, channel)
<1>1. /\ webhook' = GroupAlerts(alerts) /\ source' = source
      /\ request' = [told |-> told, env |-> env, channel |-> channel]
    BY DEF Notify, HandleBatch, Received
<1>2. request'.told = told /\ request'.env = env /\ request'.channel = channel
    BY <1>1
<1>3. /\ DOMAIN told = 1..n /\ \A i \in DOMAIN told : told[i] \in Tidings
      /\ \A i \in 1..n : told[i].resolved \in BOOLEAN
    BY TidingsTyped
<1>4. /\ DOMAIN alerts = 1..n
      /\ \A i \in 1..n : Carries(alerts[i], told[i], env, channel)
    BY <1>3, ReceivedFields
<1> HIDE DEF alerts
<1>5. ASSUME NEW i \in 1..n
      PROVE  /\ alerts[i].name = told[i].alarm.name /\ alerts[i].resolved = told[i].resolved
             /\ alerts[i].severity \in Severities
             /\ told[i].alarm.severity = "critical" /\ source # "elk" => alerts[i].severity = "critical"
    <2>1. PICK severity, print :
           /\ alerts[i] = Alerted(told[i].alarm.name, severity, told[i].resolved, print, EnvOf(env), channel, <<>>)
           /\ severity \in Severities
           /\ told[i].alarm.severity = "critical" /\ source # "elk" => severity = "critical"
        BY <1>4 DEF Carries
    <2>2. /\ alerts[i].name = told[i].alarm.name /\ alerts[i].resolved = told[i].resolved
          /\ alerts[i].severity = severity
        BY <2>1, AlertedFields
    <2> QED BY <2>1, <2>2
<1>6. ASSUME NEW i \in 1..n, IsFirst(alerts, i)
      PROVE  LET h == webhook'[i] IN
             /\ i \in DOMAIN webhook'
             /\ h.resolved = told[i].resolved /\ h.env = EnvOf(env) /\ h.channel = channel
             /\ Alike(alerts, i) = {i} => h.grouped = <<>> /\ h.severity = alerts[i].severity
             /\ Alike(alerts, i) # {i} =>
                  /\ h.grouped = [j \in Alike(alerts, i) |-> alerts[j]]
                  /\ h.severity = SeverityOf(i, [j \in Alike(alerts, i) |-> alerts[j]])
    <2>1. PICK severity, print :
            alerts[i] = Alerted(told[i].alarm.name, severity, told[i].resolved, print, EnvOf(env), channel, <<>>)
        BY <1>4 DEF Carries
    <2>2. alerts[i].severity = severity
        BY <2>1, AlertedFields
    <2> QED BY <1>1, <1>4, <1>6, <2>1, <2>2, Grouped
<1>7. DOMAIN webhook' = {i \in 1..n : IsFirst(alerts, i)}
    BY <1>1, <1>4 DEF GroupAlerts, IsFirst, Alike
<1>8. ASSUME NEW i \in DOMAIN webhook'
      PROVE  /\ Carried(i)' = Alike(alerts, i) /\ i \in Alike(alerts, i)
             /\ \A j \in Alike(alerts, i) : Member(i, j)'.resolved = alerts[j].resolved
             /\ webhook'[i].severity \in Severities
             /\ \A j \in Alike(alerts, i) :
                  alerts[j].severity = "critical" => webhook'[i].severity = "critical"
    <2>1. i \in 1..n /\ IsFirst(alerts, i) /\ i \in Alike(alerts, i) /\ Alike(alerts, i) \subseteq 1..n
        BY <1>4, <1>7 DEF Alike
    <2>2. CASE Alike(alerts, i) = {i}
        <3>1. /\ webhook'[i].grouped = <<>> /\ webhook'[i].severity = alerts[i].severity
              /\ webhook'[i].resolved = told[i].resolved
            BY <1>6, <2>1, <2>2
        <3> QED BY <1>5, <2>1, <2>2, <3>1 DEF Carried, Member
    <2>3. CASE Alike(alerts, i) # {i}
        <3> DEFINE members == [j \in Alike(alerts, i) |-> alerts[j]]
        <3>1. webhook'[i].grouped = members /\ webhook'[i].severity = SeverityOf(i, members)
            BY <1>6, <2>1, <2>3
        <3>2. /\ DOMAIN members = Alike(alerts, i) /\ members # <<>>
              /\ \A j \in Alike(alerts, i) : members[j] = alerts[j]
            <4>1. DOMAIN <<>> = {}
                OBVIOUS
            <4> QED BY <2>1, <4>1
        <3> HIDE DEF members
        <3>3. SeverityOf(i, members) = IF \E j \in Alike(alerts, i) : alerts[j].severity = "critical"
                                       THEN "critical" ELSE alerts[i].severity
            BY <2>1, <3>2 DEF SeverityOf
        <3> QED BY <1>5, <2>1, <3>1, <3>2, <3>3 DEF Carried, Member, Severities
    <2> QED BY <2>1, <2>2, <2>3
<1>9. \A i \in DOMAIN webhook' : Carried(i)' \subseteq DOMAIN told
    BY <1>3, <1>4, <1>8 DEF Alike
<1>10. ASSUME NEW j \in DOMAIN request'.told
       PROVE  \E i \in DOMAIN webhook' :
          /\ \A k \in DOMAIN webhook' : j \in Carried(k)' <=> k = i
          /\ Member(i, j)'.resolved = request'.told[j].resolved
          /\ webhook'[i].env = (IF request'.env = "not valid" THEN "" ELSE request'.env)
          /\ webhook'[i].channel = request'.channel
          /\ (request'.told[j].alarm.severity = "critical" /\ source' # "elk") => webhook'[i].severity = "critical"
    <2>1. j \in 1..n
        BY <1>2, <1>3
    <2>2. PICK i \in 1..n : /\ alerts[i].name = alerts[j].name
                            /\ IsFirst(alerts, i) /\ i <= j
                            /\ j \in Alike(alerts, i)
                            /\ \A k \in 1..n : IsFirst(alerts, k) /\ j \in Alike(alerts, k) => k = i
        BY <1>4, <2>1, FirstAlike
    <2>3. i \in DOMAIN webhook'
        BY <1>7, <2>2
    <2>4. \A k \in DOMAIN webhook' : j \in Carried(k)' <=> k = i
        BY <1>7, <1>8, <2>2
    <2>5. Member(i, j)'.resolved = told[j].resolved
        BY <1>5, <1>8, <2>1, <2>2, <2>3
    <2>6. webhook'[i].env = EnvOf(env) /\ webhook'[i].channel = channel
        BY <1>6, <2>2
    <2>7. (told[j].alarm.severity = "critical" /\ source # "elk") => webhook'[i].severity = "critical"
        BY <1>5, <1>8, <2>1, <2>2, <2>3
    <2> QED BY <1>1, <1>2, <2>3, <2>4, <2>5, <2>6, <2>7 DEF EnvOf
<1>11. NotificationsHandedOn'
    <2>1. \A i \in DOMAIN webhook' : Carried(i)' \subseteq DOMAIN request'.told
        BY <1>2, <1>9
    <2> QED BY <1>10, <2>1 DEF NotificationsHandedOn
<1> QED BY <1>8, <1>11

\* Types and handing on are inductive together: a parser is faithful to what
\* its system may tell.
HandInv == ReceiversTypeOK /\ NotificationsHandedOn

\* Nothing has been sent in the beginning.
LEMMA HandInvInit == ReceiversInit => HandInv
<1> SUFFICES ASSUME ReceiversInit PROVE HandInv
    OBVIOUS
<1>1. /\ source \in Source /\ active = {} /\ episode = [a \in Alarm |-> 0]
      /\ batches = 0 /\ request.told = <<>> /\ webhook = <<>>
    BY DEF ReceiversInit, NoRequest
<1>2. DOMAIN webhook = {} /\ DOMAIN request.told = {}
    BY <1>1
<1>3. ReceiversTypeOK
    BY <1>1, <1>2, ReceiversAssumption DEF ReceiversTypeOK, ReceiversAssumption
<1>4. NotificationsHandedOn
    BY <1>2 DEF NotificationsHandedOn
<1> QED BY <1>3, <1>4 DEF HandInv

\* A payload keeps the types.
LEMMA NotifyTyped ==
    ASSUME ReceiversTypeOK, NEW n \in Nat, NEW told \in [1..n -> Tidings], NEW env, NEW channel,
           Notify(told, env, channel)
    PROVE  ReceiversTypeOK'
<1>1. \A i \in 1..n : told[i] \in Notification
    BY TidingsTyped
<1>2. request'.told \in Seq(Notification)
    <2>1. request'.told = told
        BY DEF Notify
    <2> QED BY <1>1, <2>1
<1>3. source' \in Source /\ active' \subseteq Alarm
    BY DEF Notify, ReceiversTypeOK
<1>4. batches' \in 0..MaxBatches
    BY ReceiversAssumption DEF Notify, ReceiversTypeOK, ReceiversAssumption
<1>5. episode' \in [Alarm -> Nat]
    <2>1. \A a \in Alarm : episode[a] \in Nat /\ Firing(a).episode \in Nat
        <3>1. \A a \in Alarm : episode[a] \in Nat
            BY DEF ReceiversTypeOK
        <3> QED BY <3>1 DEF Firing
    <2> QED BY <2>1 DEF Notify
<1>6. \A i \in DOMAIN webhook' : webhook'[i].severity \in Severities
    BY HandStep
<1> QED BY <1>2, <1>3, <1>4, <1>5, <1>6 DEF ReceiversTypeOK, Notification, Severities

\* Every step keeps both.
LEMMA HandInvStep == HandInv /\ [ReceiversNext]_receiverVars => HandInv'
<1> SUFFICES ASSUME HandInv, [ReceiversNext]_receiverVars PROVE HandInv'
    OBVIOUS
<1>1. CASE ReceiversNext
    <2>1. PICK n \in 1..(IF source \in Grouping THEN BatchSize ELSE 1), env \in EnvHeader, channel \in ChannelHeader :
              \E told \in [1..n -> Tidings] : Notify(told, env, channel)
        BY <1>1 DEF ReceiversNext
    <2>2. PICK told \in [1..n -> Tidings] : Notify(told, env, channel)
        BY <2>1
    <2>3. n \in Nat
        BY ReceiversAssumption DEF ReceiversAssumption
    <2> QED BY <2>2, <2>3, HandStep, NotifyTyped DEF HandInv
<1>2. CASE UNCHANGED receiverVars
    <2>1. /\ source' = source /\ active' = active /\ episode' = episode /\ batches' = batches
          /\ request' = request /\ webhook' = webhook
        BY <1>2 DEF receiverVars
    <2>2. (\A i : Carried(i)' = Carried(i)) /\ (\A i, j : Member(i, j)' = Member(i, j))
        BY <2>1 DEF Carried, Member
    <2>3. ReceiversTypeOK'
        BY <2>1 DEF HandInv, ReceiversTypeOK
    <2>4. \A i \in DOMAIN webhook' : Carried(i)' \subseteq DOMAIN request'.told
        BY <2>1, <2>2 DEF HandInv, NotificationsHandedOn
    <2>5. ASSUME NEW j \in DOMAIN request'.told
          PROVE  \E i \in DOMAIN webhook' :
             /\ \A k \in DOMAIN webhook' : j \in Carried(k)' <=> k = i
             /\ Member(i, j)'.resolved = request'.told[j].resolved
             /\ webhook'[i].env = (IF request'.env = "not valid" THEN "" ELSE request'.env)
             /\ webhook'[i].channel = request'.channel
             /\ (request'.told[j].alarm.severity = "critical" /\ source' # "elk") => webhook'[i].severity = "critical"
        <3>1. PICK i \in DOMAIN webhook :
             /\ \A k \in DOMAIN webhook : j \in Carried(k) <=> k = i
             /\ Member(i, j).resolved = request.told[j].resolved
             /\ webhook[i].env = (IF request.env = "not valid" THEN "" ELSE request.env)
             /\ webhook[i].channel = request.channel
             /\ (request.told[j].alarm.severity = "critical" /\ source # "elk") => webhook[i].severity = "critical"
            BY <2>1 DEF HandInv, NotificationsHandedOn
        <3> QED BY <2>1, <2>2, <3>1
    <2> QED BY <2>3, <2>4, <2>5 DEF HandInv, NotificationsHandedOn
<1> QED BY <1>1, <1>2

\* Every variable of Receivers keeps its type.
THEOREM ReceiversTypeCorrect == ReceiversSpec => []ReceiversTypeOK
<1>1. HandInv => ReceiversTypeOK
    BY DEF HandInv
<1> QED BY <1>1, HandInvInit, HandInvStep, PTL DEF ReceiversSpec

\* For payloads of any size, alarms of any names and all seven receivers, each
\* notification is in exactly one alert the handler gets, itself firing or
\* resolved as it was told, and a critical one makes that alert critical
\* (GroupAlerts, the parsers and the headers).
THEOREM PayloadsHandedOn == ReceiversSpec => []NotificationsHandedOn
<1>1. HandInv => NotificationsHandedOn
    BY DEF HandInv
<1> QED BY <1>1, HandInvInit, HandInvStep, PTL DEF ReceiversSpec

-----------------------------------------------------------------------------
(* Routing.                                                                *)

\* The registry of the alert analyzed.
Registry == Registries[GetRegistry(envOf)]

\* What the model was offered, its registry has and can still run.
Offered ==
    \A pair \in listed :
        \E i \in DOMAIN Registry :
            pair[2] = Registry[i] /\ pair[1] \in ToolsOf(GetRegistry(envOf), Registry[i])

\* A list of tools has those of all built-in executors.
Complete ==
    listed # {} =>
        \A i \in DOMAIN Registry :
            Registry[i].kind = "builtin" =>
                \A tool \in ToolsOf(GetRegistry(envOf), Registry[i]) : <<tool, Registry[i]>> \in listed

\* A call went to an executor of the registry that offered the tool or has
\* connected.
Called ==
    ran # <<>> =>
        /\ \E i \in DOMAIN Registry : ran[2] = Registry[i]
        /\ ran \in listed \/ <<GetRegistry(envOf), ran[2].name>> \in connected

\* The prompt is the environment's or the top's.
Prompted ==
    promptUsed \in {"", config.top.prompt} \cup (IF envOf \in DOMAIN config.envs THEN {config.envs[envOf].prompt} ELSE {})

RouteInv == RoutingTypeOK /\ Offered /\ Complete /\ Called /\ Prompted

-----------------------------------------------------------------------------
(* What its operators return.                                              *)

\* The elements of a sequence.
LEMMA SeqElement ==
    ASSUME NEW S, NEW s \in Seq(S), NEW i \in DOMAIN s
    PROVE  i \in 1..Len(s) /\ i # 0 /\ s[i] \in S
OBVIOUS

\* Two sequences after each other.
LEMMA SeqJoined ==
    ASSUME NEW S, NEW s \in Seq(S), NEW t \in Seq(S)
    PROVE  s \o t \in Seq(S)
OBVIOUS

\* ResolveProxy makes nothing up.
LEMMA ProxyResolved ==
    ASSUME NEW own, NEW inherited
    PROVE  ResolveProxy(<<own, inherited>>) \in {"", own, inherited}
<1> DEFINE levels == <<own, inherited>>
           I == {i \in 1..Len(levels) : levels[i] # ""}
           set == IF I # {} THEN Min(I) ELSE 0
<1>1. I \subseteq {1, 2} /\ I \subseteq Nat
    <2>1. \A i \in 1..Len(levels) : i \in {1, 2} /\ i \in Nat
        OBVIOUS
    <2>2. \A i \in I : i \in 1..Len(levels)
        OBVIOUS
    <2> HIDE DEF I, levels
    <2> QED BY <2>1, <2>2
<1>2. set \in {0, 1, 2}
    <2>1. I # {} => Min(I) \in I
        <3> HIDE DEF I
        <3> QED BY <1>1, LeastExists
    <2> HIDE DEF I
    <2> QED BY <1>1, <2>1
<1>3. ResolveProxy(levels) = IF set = 0 \/ levels[set] = "direct" THEN "" ELSE levels[set]
    BY DEF ResolveProxy, SelectInSeq
<1>4. levels[1] = own /\ levels[2] = inherited
    OBVIOUS
<1>5. ResolveProxy(levels) \in {"", own, inherited}
    <2> HIDE DEF set, levels
    <2> QED BY <1>2, <1>3, <1>4
<1> QED BY <1>5

\* The clients of a block are its own.
LEMMA ClientsListed ==
    ASSUME NEW block, IsBlock(block), NEW owner
    PROVE  ClientsOf(block, owner) \in Seq([name : DOMAIN ServerTools, owner : {owner}])
<1> DEFINE Client == [name : DOMAIN ServerTools, owner : {owner}]
<1>1. block.mcp \in Seq(DOMAIN ServerTools)
    BY DEF IsBlock
<1>2. DOMAIN block.mcp = 1..Len(block.mcp) /\ Len(block.mcp) \in Nat
    BY <1>1
<1>3. ASSUME NEW i \in DOMAIN block.mcp PROVE [name |-> block.mcp[i], owner |-> owner] \in Client
    BY <1>1, <1>3, SeqElement
<1> HIDE DEF Client
<1>4. ClientsOf(block, owner) \in Seq(Client)
    BY <1>2, <1>3 DEF ClientsOf
<1> QED BY <1>4 DEF Client

\* An executor in the registry of a block: the block's own, or an MCP client of
\* the top if the block lists none; through the block's proxy or the one it
\* inherits.
OwnedBy(block, owner, inherited) ==
    {x \in [kind : {"builtin", "mcp"}, name : BuiltIn \cup DOMAIN ServerTools,
            owner : {owner, Top}, proxy : {"", block.proxy, inherited}] :
        \/ x.owner = owner
        \/ x.kind = "mcp" /\ block.mcp = <<>>}

\* registerTools registers nothing else, if the clients are the block's own or,
\* in the absence of any, the top's.
LEMMA Registered ==
    ASSUME NEW block, NEW owner, NEW inherited, NEW whose \in {owner, Top},
           whose = owner \/ block.mcp = <<>>,
           NEW clients \in Seq([name : DOMAIN ServerTools, owner : {whose}])
    PROVE  registerTools(block, owner, clients, inherited) \in Seq(OwnedBy(block, owner, inherited))
<1> DEFINE S == OwnedBy(block, owner, inherited)
           proxy == ResolveProxy(<<block.proxy, inherited>>)
           Enabled(t) == IF t \in block.tools
                         THEN <<[kind |-> "builtin", name |-> t, owner |-> owner, proxy |-> proxy]>> ELSE <<>>
           Client(i) == [kind |-> "mcp", name |-> clients[i].name, owner |-> clients[i].owner, proxy |-> proxy]
           mcp == [i \in DOMAIN clients |-> Client(i)]
<1>1. proxy \in {"", block.proxy, inherited}
    BY ProxyResolved
<1>2. ASSUME NEW t \in BuiltIn PROVE Enabled(t) \in Seq(S)
    <2>1. [kind |-> "builtin", name |-> t, owner |-> owner, proxy |-> proxy] \in S
        <3> HIDE DEF proxy
        <3> QED BY <1>1, <1>2 DEF OwnedBy
    <2> HIDE DEF S, proxy
    <2> QED BY <2>1
<1>3. ASSUME NEW i \in DOMAIN clients PROVE Client(i) \in S
    <2>1. clients[i] \in [name : DOMAIN ServerTools, owner : {whose}]
        BY <1>3, SeqElement
    <2> HIDE DEF proxy
    <2> QED BY <1>1, <2>1 DEF OwnedBy
<1>4. mcp \in Seq(S)
    <2>1. DOMAIN clients = 1..Len(clients) /\ Len(clients) \in Nat
        OBVIOUS
    <2> HIDE DEF S, Client
    <2> QED BY <1>3, <2>1
<1>5. registerTools(block, owner, clients, inherited)
        = Enabled("prometheus") \o Enabled("victoriametrics") \o Enabled("kubernetes") \o mcp
    BY DEF registerTools
<1>6. Enabled("prometheus") \in Seq(S) /\ Enabled("victoriametrics") \in Seq(S) /\ Enabled("kubernetes") \in Seq(S)
    BY <1>2 DEF BuiltIn
<1> HIDE DEF S, Enabled, mcp
<1>7. (Enabled("prometheus") \o Enabled("victoriametrics")) \o Enabled("kubernetes") \in Seq(S)
    BY <1>6, SeqJoined
<1>8. registerTools(block, owner, clients, inherited) \in Seq(S)
    BY <1>4, <1>5, <1>7, SeqJoined
<1> QED BY <1>8 DEF S

\* The block an alert's environment comes down to, and what it inherits.
OwnBlock == IF Owner = Top THEN config.top ELSE config.envs[Owner]
Inherited == IF Owner = Top THEN "" ELSE config.top.proxy

\* What the configuration is made of.
LEMMA Configured ==
    ASSUME config \in Configuration
    PROVE  /\ IsBlock(config.top)
           /\ \A env \in DOMAIN config.envs : IsBlock(config.envs[env]) /\ env # Top
BY RoutingAssumption

\* The registry of an alert holds what its environment's block says.
LEMMA Stocked ==
    ASSUME config \in Configuration
    PROVE  Registry \in Seq(OwnedBy(OwnBlock, Owner, Inherited))
<1> DEFINE env == GetRegistry(envOf)
<1>1. DOMAIN Registries = DOMAIN config.envs \cup {"default"}
    BY DEF Registries
<1>2. CASE env \in DOMAIN config.envs
    <2>1. Owner = env /\ Owner # Top
        BY <1>1, <1>2, Configured DEF Owner, GetRegistry
    <2>2. Registry = registerTools(config.envs[env], env, inheritDefaultMCPClients(env), config.top.proxy)
        BY <1>1, <1>2 DEF Registry, Registries
    <2>3. IsBlock(config.envs[env]) /\ IsBlock(config.top)
        BY <1>2, Configured
    <2> HIDE DEF env
    <2>4. registerTools(config.envs[env], env, inheritDefaultMCPClients(env), config.top.proxy)
            \in Seq(OwnedBy(config.envs[env], env, config.top.proxy))
        <3>1. CASE config.envs[env].mcp = <<>>
            <4>1. inheritDefaultMCPClients(env) \in Seq([name : DOMAIN ServerTools, owner : {Top}])
                BY <3>1, <2>3, ClientsListed DEF inheritDefaultMCPClients
            <4> QED BY <3>1, <4>1, Registered
        <3>2. CASE config.envs[env].mcp # <<>>
            <4>1. inheritDefaultMCPClients(env) \in Seq([name : DOMAIN ServerTools, owner : {env}])
                BY <3>2, <2>3, ClientsListed DEF inheritDefaultMCPClients
            <4> QED BY <4>1, Registered
        <3> QED BY <3>1, <3>2
    <2> QED BY <2>1, <2>2, <2>4 DEF OwnBlock, Inherited
<1>3. CASE env \notin DOMAIN config.envs
    <2>1. Owner = Top
        BY <1>1, <1>3 DEF Owner, GetRegistry
    <2>2. Registry = registerTools(config.top, Top, ClientsOf(config.top, Top), "")
        BY <1>1, <1>3 DEF Registry, Registries, GetRegistry
    <2>3. ClientsOf(config.top, Top) \in Seq([name : DOMAIN ServerTools, owner : {Top}])
        BY Configured, ClientsListed
    <2>4. registerTools(config.top, Top, ClientsOf(config.top, Top), "") \in Seq(OwnedBy(config.top, Top, ""))
        BY <2>3, Registered
    <2> QED BY <2>1, <2>2, <2>4 DEF OwnBlock, Inherited
<1> QED BY <1>2, <1>3

-----------------------------------------------------------------------------
(* Its invariant.                                                          *)

\* Whose an executor of the alert's registry is.
LEMMA OwnExecutor ==
    ASSUME config \in Configuration, NEW i \in DOMAIN Registry
    PROVE  Registry[i] \in Executor /\ Registry[i] \in OwnedBy(OwnBlock, Owner, Inherited)
<1>1. Registry[i] \in OwnedBy(OwnBlock, Owner, Inherited)
    BY Stocked, SeqElement
<1>2. CASE Owner = Top
    BY <1>1, <1>2 DEF OwnedBy, OwnBlock, Inherited, Executor
<1>3. CASE Owner # Top
    <2>1. Owner \in DOMAIN config.envs
        BY <1>3 DEF Owner
    <2> QED BY <1>1, <1>3, <2>1 DEF OwnedBy, OwnBlock, Inherited, Executor
<1> QED BY <1>1, <1>2, <1>3

\* Registries, and which one an alert gets, are a matter of the configuration.
LEMMA Fixed ==
    ASSUME config' = config
    PROVE  /\ Registries' = Registries
           /\ \A env : GetRegistry(env)' = GetRegistry(env)
           /\ Executor' = Executor
           /\ envOf' = envOf => Registry' = Registry
<1>1. Registries' = Registries
    BY DEF Registries, registerTools, inheritDefaultMCPClients, ClientsOf
<1>2. \A env : GetRegistry(env)' = GetRegistry(env)
    BY <1>1 DEF GetRegistry
<1>3. Executor' = Executor
    BY DEF Executor
<1>4. ASSUME envOf' = envOf PROVE Registry' = Registry
    BY <1>1, <1>4 DEF Registry, GetRegistry
<1> QED BY <1>1, <1>2, <1>3, <1>4

\* The invariant holds at first.
LEMMA RouteInvInit == RoutingInit => RouteInv
BY DEF RoutingInit, RouteInv, RoutingTypeOK, Offered, Complete, Called, Prompted

\* A client connects: its tools can be called from now on.
LEMMA ConnectStep ==
    ASSUME RouteInv, NEW registry \in DOMAIN Registries, NEW name \in DOMAIN ServerTools,
           ClientConnects(registry, name)
    PROVE  RouteInv'
<1> USE DEF RouteInv
<1>1. connected' = connected \cup {<<registry, name>>} /\ UNCHANGED <<config, envOf, promptUsed, listed, ran>>
    BY DEF ClientConnects
<1>2. Registries' = Registries /\ Executor' = Executor /\ Registry' = Registry
      /\ GetRegistry(envOf)' = GetRegistry(envOf)
    BY <1>1, Fixed DEF GetRegistry
<1>3. RoutingTypeOK'
    <2>1. registry \in DOMAIN config.envs \cup {"default"}
        BY DEF Registries
    <2> QED BY <1>1, <1>2, <2>1 DEF RoutingTypeOK
<1>4. ASSUME NEW x PROVE /\ ToolsOf(GetRegistry(envOf), x) \subseteq ToolsOf(GetRegistry(envOf), x)'
                         /\ x.kind = "builtin" => ToolsOf(GetRegistry(envOf), x)' = ToolsOf(GetRegistry(envOf), x)
    BY <1>1, <1>2 DEF ToolsOf
<1>5. Offered'
    BY <1>1, <1>2, <1>4 DEF Offered
<1>6. Complete'
    BY <1>1, <1>2, <1>4 DEF Complete
<1>7. Called'
    BY <1>1, <1>2 DEF Called
<1>8. Prompted'
    BY <1>1 DEF Prompted
<1> QED BY <1>3, <1>5, <1>6, <1>7, <1>8

\* An analysis begins with nothing offered and nothing called.
LEMMA RouteStep ==
    ASSUME RouteInv, NEW env \in AlertEnv, RouteAlert(env)
    PROVE  RouteInv'
<1> USE DEF RouteInv
<1>1. envOf' = env /\ promptUsed' = PromptFor(env) /\ listed' = {} /\ ran' = <<>> /\ UNCHANGED <<config, connected>>
    BY DEF RouteAlert
<1>2. RoutingTypeOK'
    BY <1>1 DEF RoutingTypeOK
<1>3. Prompted'
    BY <1>1 DEF Prompted, PromptFor
<1> QED BY <1>1, <1>2, <1>3 DEF Offered, Complete, Called

\* The model is offered what the registry's executors list now.
LEMMA OfferStep ==
    ASSUME RouteInv, OfferTools
    PROVE  RouteInv'
<1> USE DEF RouteInv
<1> DEFINE registry == GetRegistry(envOf)
<1>1. ran' = <<>> /\ UNCHANGED <<config, connected, envOf, promptUsed>>
    BY DEF OfferTools
<1>2. Registries' = Registries /\ Executor' = Executor /\ Registry' = Registry
      /\ GetRegistry(envOf)' = GetRegistry(envOf)
    BY <1>1, Fixed DEF GetRegistry
<1>3. listed' = UNION {{<<tool, executor>> : tool \in ToolsOf(registry, executor)} : executor \in Range(Registry)}
    BY DEF OfferTools, Registry
<1>4. ASSUME NEW pair \in listed'
      PROVE  \E i \in DOMAIN Registry : pair[2] = Registry[i] /\ pair[1] \in ToolsOf(registry, Registry[i])
    BY <1>3 DEF Range
<1>5. ASSUME NEW i \in DOMAIN Registry, NEW tool \in ToolsOf(registry, Registry[i])
      PROVE  <<tool, Registry[i]>> \in listed'
    BY <1>3 DEF Range
<1>6. \A x : ToolsOf(registry, x)' = ToolsOf(registry, x)
    BY <1>1, <1>2 DEF ToolsOf
<1>7. RoutingTypeOK'
    <2>1. \A pair \in listed' : pair[2] \in Executor
        BY <1>4, OwnExecutor DEF RoutingTypeOK
    <2> QED BY <1>1, <1>2, <2>1 DEF RoutingTypeOK
<1>8. Offered'
    BY <1>1, <1>2, <1>4, <1>6 DEF Offered
<1>9. Complete'
    BY <1>1, <1>2, <1>5, <1>6 DEF Complete
<1>10. Called' /\ Prompted'
    BY <1>1 DEF Called, Prompted
<1> QED BY <1>7, <1>8, <1>9, <1>10

\* A call of a tool that was offered finds the first executor that lists it.
LEMMA ExecuteStep ==
    ASSUME RouteInv, NEW pair \in listed, ExecuteTool(pair[1])
    PROVE  RouteInv'
<1> USE DEF RouteInv
<1> DEFINE registry == GetRegistry(envOf)
           tool == pair[1]
           I == {i \in 1..Len(Registry) : tool \in ToolsOf(registry, Registry[i])}
           first == IF I # {} THEN Min(I) ELSE 0
<1>1. UNCHANGED <<config, connected, envOf, promptUsed, listed>>
    BY DEF ExecuteTool
<1>2. Registries' = Registries /\ Executor' = Executor /\ Registry' = Registry
      /\ GetRegistry(envOf)' = GetRegistry(envOf)
    BY <1>1, Fixed DEF GetRegistry
<1>3. ran' = IF first = 0 THEN <<tool, NotFound>> ELSE <<tool, Registry[first]>>
    BY DEF ExecuteTool, SelectInSeq, Registry
<1>4. DOMAIN Registry = 1..Len(Registry) /\ Len(Registry) \in Nat
    BY Stocked DEF RoutingTypeOK
<1>5. first \in I
    <2>1. \E i \in DOMAIN Registry : tool \in ToolsOf(registry, Registry[i])
        BY DEF Offered
    <2>2. I # {} /\ I \subseteq Nat
        BY <1>4, <2>1
    <2> HIDE DEF I
    <2> QED BY <2>2, LeastExists
<1>6. first \in DOMAIN Registry /\ first # 0 /\ tool \in ToolsOf(registry, Registry[first])
    BY <1>4, <1>5
<1> HIDE DEF first, registry
<1>7. ran' = <<tool, Registry[first]>> /\ ran'[2] = Registry[first]
    BY <1>3, <1>6
<1>8. RoutingTypeOK'
    BY <1>1, <1>2, <1>6, <1>7, OwnExecutor DEF RoutingTypeOK
<1>9. Called'
    <2>1. CASE Registry[first].kind = "builtin"
        <3>1. <<tool, Registry[first]>> \in listed
            BY <1>6, <2>1 DEF Complete, registry
        <3> QED BY <1>1, <1>2, <1>6, <1>7, <3>1 DEF Called
    <2>2. CASE Registry[first].kind = "mcp"
        <3>1. <<registry, Registry[first].name>> \in connected
            BY <1>6, <2>2 DEF ToolsOf
        <3> QED BY <1>1, <1>2, <1>6, <1>7, <3>1 DEF Called, registry
    <2> QED BY <1>6, <2>1, <2>2, OwnExecutor DEF Executor, RoutingTypeOK
<1>10. Offered' /\ Complete' /\ Prompted'
    <2>1. \A x : ToolsOf(GetRegistry(envOf), x)' = ToolsOf(GetRegistry(envOf), x)
        BY <1>1, <1>2 DEF ToolsOf
    <2>2. Offered'
        BY <1>1, <1>2, <2>1 DEF Offered
    <2>3. Complete'
        BY <1>1, <1>2, <2>1 DEF Complete
    <2>4. Prompted'
        BY <1>1 DEF Prompted
    <2> QED BY <2>2, <2>3, <2>4
<1> QED BY <1>8, <1>9, <1>10

\* The invariant is inductive.
LEMMA RouteInvStep == RouteInv /\ [RoutingNext]_routingVars => RouteInv'
<1> SUFFICES ASSUME RouteInv, [RoutingNext]_routingVars PROVE RouteInv'
    OBVIOUS
<1>1. CASE \E registry \in DOMAIN Registries, name \in DOMAIN ServerTools : ClientConnects(registry, name)
    BY <1>1, ConnectStep
<1>2. CASE \E env \in AlertEnv : RouteAlert(env)
    BY <1>2, RouteStep
<1>3. CASE OfferTools
    BY <1>3, OfferStep
<1>4. CASE \E pair \in listed : ExecuteTool(pair[1])
    BY <1>4, ExecuteStep
<1>5. CASE UNCHANGED routingVars
    <2>1. UNCHANGED <<config, connected, envOf, promptUsed, listed, ran>>
        BY <1>5 DEF routingVars
    <2>2. Executor' = Executor /\ Registry' = Registry /\ GetRegistry(envOf)' = GetRegistry(envOf)
        BY <2>1, Fixed DEF GetRegistry
    <2>3. \A x : ToolsOf(GetRegistry(envOf), x)' = ToolsOf(GetRegistry(envOf), x)
        BY <2>1, <2>2 DEF ToolsOf
    <2>4. RoutingTypeOK'
        BY <2>1, <2>2 DEF RouteInv, RoutingTypeOK
    <2>5. Offered'
        BY <2>1, <2>2, <2>3 DEF RouteInv, Offered
    <2>6. Complete'
        BY <2>1, <2>2, <2>3 DEF RouteInv, Complete
    <2>7. Called'
        BY <2>1, <2>2 DEF RouteInv, Called
    <2>8. Prompted'
        BY <2>1 DEF RouteInv, Prompted
    <2> QED BY <2>4, <2>5, <2>6, <2>7, <2>8 DEF RouteInv
<1> QED BY <1>1, <1>2, <1>3, <1>4, <1>5 DEF RoutingNext

\* It says what the property says.
LEMMA RouteInvOwn == RouteInv => OwnToolsOnly
<1> SUFFICES ASSUME RouteInv PROVE OwnToolsOnly
    OBVIOUS
<1> USE DEF RouteInv
<1>1. ASSUME ran # <<>>
      PROVE  /\ ran[2] # NotFound
             /\ \/ ran[2].owner = Owner
                \/ ran[2].owner = Top /\ ran[2].kind = "mcp" /\ config.envs[Owner].mcp = <<>>
             /\ ran[2].proxy \in {"", config.top.proxy} \cup (IF Owner = Top THEN {} ELSE {config.envs[Owner].proxy})
             /\ ran \in listed \/ <<GetRegistry(envOf), ran[2].name>> \in connected
    <2>1. PICK i \in DOMAIN Registry : ran[2] = Registry[i]
        BY <1>1 DEF Called
    <2>2. ran[2] \in Executor /\ ran[2] \in OwnedBy(OwnBlock, Owner, Inherited)
        BY <2>1, OwnExecutor DEF RoutingTypeOK
    <2>3. ran[2] # NotFound
        <3>1. ran[2].kind # "tool not found"
            BY <2>2 DEF Executor
        <3>2. NotFound.kind = "tool not found"
            BY DEF NotFound
        <3> QED BY <3>1, <3>2
    <2>4. CASE Owner = Top
        BY <1>1, <2>2, <2>3, <2>4 DEF OwnedBy, OwnBlock, Inherited, Called
    <2>5. CASE Owner # Top
        BY <1>1, <2>2, <2>3, <2>5 DEF OwnedBy, OwnBlock, Inherited, Called
    <2> QED BY <2>4, <2>5
<1> QED BY <1>1 DEF OwnToolsOnly, Prompted

\* The variables of Routing keep their types (registerTools, RouteAlert,
\* ListTools, Execute).
THEOREM RoutingTypeCorrect == RoutingSpec => []RoutingTypeOK
<1>1. RouteInv => RoutingTypeOK
    BY DEF RouteInv
<1> QED BY <1>1, RouteInvInit, RouteInvStep, PTL DEF RoutingSpec

\* For every configuration and whenever MCP clients connect, an analysis uses
\* the tools, proxies and prompt of its alert's environment only, and a tool it
\* was offered is found (GetRegistry, Execute, inheritDefaultMCPClients).
THEOREM OwnToolsUsed == RoutingSpec => []OwnToolsOnly
BY RouteInvInit, RouteInvStep, RouteInvOwn, PTL DEF RoutingSpec
=============================================================================
