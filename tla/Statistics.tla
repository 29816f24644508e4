----------------------------- MODULE Statistics -----------------------------
(***************************************************************************)
(* The table alert_events and what the Stats page and the review read from *)
(* it: RecordEvent, CleanupEvents, AlertStats and aggregate of             *)
(* internal/cache/events.go, under the hourly janitor of                   *)
(* cmd/sherlockops/main.go.  Percentages and rates are left out, they are  *)
(* computed from the counts; so is the cut after 50 alert names.           *)
(***************************************************************************)
EXTENDS Integers, Sequences, FiniteSets

CONSTANTS
    Name,      \* alert names, numbered in alphabetical order
    Header,    \* values of the X-Environment header
    Retention, \* stats.retention, in days
    MaxDays,   \* bound: days told apart
    MaxEvents  \* bound: alerts received

ASSUME StatisticsAssumption ==
    /\ Name \subseteq Nat
    /\ Header \subseteq STRING
    /\ Retention \in Nat \ {0} /\ MaxEvents \in Nat
    /\ MaxDays \in Nat /\ Retention <= MaxDays

VARIABLES
    rows,     \* the ids in alert_events
    received  \* history: the row of each id that was ever given

statisticsVars == <<rows, received>>

Event == [name : Name, env : Header, resolved : BOOLEAN, age : 0..MaxDays]

StatisticsTypeOK == received \in Seq(Event) /\ rows \subseteq DOMAIN received

StatisticsInit == received = <<>> /\ rows = {}

-----------------------------------------------------------------------------
\* RecordEvent: one row per notification, under the next id.
RecordEvent(n, e, resolved) ==
    /\ Len(received) < MaxEvents
    /\ received' = Append(received, [name |-> n, env |-> e, resolved |-> resolved, age |-> 0])
    /\ rows' = rows \cup {Len(received) + 1}

Aged(row) == [row EXCEPT !.age = IF @ < MaxDays THEN @ + 1 ELSE @]

Day ==
    /\ received' = [i \in DOMAIN received |-> Aged(received[i])]
    /\ UNCHANGED rows

Expired(row) == row.age >= Retention

CleanupEvents ==
    /\ rows' = {i \in rows : ~Expired(received[i])}
    /\ UNCHANGED received

StatisticsNext ==
    \/ \E n \in Name, e \in Header, r \in BOOLEAN : RecordEvent(n, e, r)
    \/ Day
    \/ CleanupEvents

StatisticsSpec == StatisticsInit /\ [][StatisticsNext]_statisticsVars

-----------------------------------------------------------------------------
(* AlertStats, for an environment as the page calls it.                    *)

AllEnvironments == ""
DefaultName     == "default"

displayEnv(e) == IF e = "" THEN DefaultName ELSE e

\* WHERE received_at >= since, and the environment unless all are asked for.
Selected(ids, days, env) ==
    {i \in ids :
        /\ received[i].age < days
        /\ env # AllEnvironments => received[i].env = (IF env = DefaultName THEN "" ELSE env)}

\* Faulty: the buckets are keyed by the name only.
BucketByName(row) == <<row.name, "">>

\* The key of a bucket: name and environment as stored.
BucketOf(row) == <<row.name, row.env>>

\* One bucket per key, with how many notifications fired and resolved.
Bucket(sel, k) ==
    LET under == {i \in sel : BucketOf(received[i]) = k}
    IN  [name |-> k[1], env |-> displayEnv(k[2]), key |-> k,
         firing   |-> Cardinality({i \in under : ~received[i].resolved}),
         resolved |-> Cardinality({i \in under : received[i].resolved})]

Buckets(sel) == {Bucket(sel, BucketOf(received[i])) : i \in sel}

\* The sum of the values of a function, each counted out: a sum without a
\* fold, which the proofs can do without induction.
Sum(values) == Cardinality(UNION {{x} \X (1..values[x]) : x \in DOMAIN values})

Firings(B)     == Sum([b \in B |-> b.firing])
Resolutions(B) == Sum([b \in B |-> b.resolved])
Total(B)       == Firings(B) + Resolutions(B)

Named(B, n) == {b \in B : b.name = n}
HeardIn(B, e) == {b \in B : b.env = e}

\* The alert an environment hears most, the first by name if there are several.
TopAlert(B) ==
    CHOOSE n \in {b.name : b \in B} : \A m \in {b.name : b \in B} :
        \/ Total(Named(B, m)) < Total(Named(B, n))
        \/ Total(Named(B, m)) = Total(Named(B, n)) /\ n <= m

Line(B, n) ==
    [name |-> n, count |-> Total(Named(B, n)), in |-> {b.env : b \in Named(B, n)}]

Tile(B, e) ==
    LET C == HeardIn(B, e)
    IN  [env |-> e, count |-> Total(C), firing |-> Firings(C), resolved |-> Resolutions(C),
         unique |-> Cardinality(C), top |-> TopAlert(C)]

\* aggregate: totals, a line per alert name, a tile per environment.
aggregate(B) ==
    [total |-> Total(B), firing |-> Firings(B), resolved |-> Resolutions(B),
     unique |-> Cardinality({b.name : b \in B}),
     lines  |-> {Line(B, b.name) : b \in B},
     tiles  |-> {Tile(B, b.env) : b \in B}]

AlertStats(ids, days, env) == aggregate(Buckets(Selected(ids, days, env)))

-----------------------------------------------------------------------------
\* An environment's tile shows what the page shows when it is filtered by that
\* environment, and tiles and lines both add up to the total: no notification
\* is counted twice or in another environment.  Only where somebody sends the
\* header with the name of the default environment do two share a tile.
TilesMatchFilters ==
    \A days \in 1..MaxDays :
        LET s == AlertStats(rows, days, AllEnvironments) IN
        /\ s.total = Cardinality(Selected(rows, days, AllEnvironments))
        /\ s.total = Sum([t \in s.tiles |-> t.count])
        /\ s.total = Sum([l \in s.lines |-> l.count])
        /\ \A t \in s.tiles :
              ~(t.env = DefaultName /\ \E i \in rows : received[i].env = DefaultName) =>
                 LET f == AlertStats(rows, days, t.env) IN
                 /\ <<t.count, t.firing, t.resolved, t.unique>> = <<f.total, f.firing, f.resolved, f.unique>>
                 /\ \E l \in f.lines : l.name = t.top /\ \A k \in f.lines : k.count <= l.count

\* The janitor never takes from a page what it shows: over any window within
\* the retention the statistics are those of every notification received.
NothingForgottenEarly ==
    \A days \in 1..Retention, env \in Header \cup {AllEnvironments} :
        AlertStats(rows, days, env) = AlertStats(DOMAIN received, days, env)

\* The page is true, however it is filtered.
StatisticsTrue == TilesMatchFilters /\ NothingForgottenEarly
=============================================================================
