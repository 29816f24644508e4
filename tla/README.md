# SherlockOps verification

TLA+ models, TLC configurations and TLAPS proofs for the Go service in
`src/src` (paths below are relative to it).  SherlockOps receives alerts from
monitoring systems, posts them to messengers, lets an LLM investigate them with
tools, and posts the analysis under the alert; people can ask it to look again,
and a dashboard shows what came in and reviews how noisy it was.

The modules are written from the code.  `PROJECT.json` names, for every
definition that stands for code, the lines it stands for.

## 1. Inventory

| Component (code) | State | Operations | Talks to |
|---|---|---|---|
| Receivers (`internal/receiver`) | none | seven parsers, `applyEnvironmentHeader`, `applyChannelHeaders`, `GroupAlerts` | monitoring systems; `webhookHandler` |
| Worker pool (`internal/pipeline/worker.go`) | the channel `queue`, the goroutines, the wait group | `Submit` (never blocks), `run`, `Stop` | called by webhook and mention handlers; calls `Process` |
| Pipeline (`internal/pipeline/pipeline.go`, `mention.go`, `fingerprint.go`) | none of its own; per call: refs, answer | `Process`, `processManual`, `processSinglePhase`, `processTwoPhase`, `ResolvePendingMention` | cache, messengers, analyzer |
| LLM semaphore (`internal/analyzer/limiter.go`) | the channel `sem` | `Analyze` | wraps the analyzer |
| Analysis (`internal/analyzer/analyzer.go`, `env_analyzer.go`) | per call: messages, records of tool calls, token counts | `Analyze`, `compactToolHistory`, `buildResult` | LLM provider, tool registry |
| LLM providers (`internal/analyzer/llm`) | none | `Chat`, the conversion of a history | Anthropic, OpenAI-compatible APIs |
| Tool registries (`internal/tooling/registry.go`, `env_registry.go`) | executors, fixed after start-up | `ListTools`, `Execute`, `GetRegistry` | tools, MCP clients |
| MCP client, health monitor (`internal/tooling/mcp_client.go`, `healthcheck.go`, `health_monitor.go`) | `url`, `sessionID`, `tools`; the snapshot | `Connect`, `Execute`, `HealthCheck`, `Run` | MCP servers; called by main, the monitor and all workers |
| Tools that log in (`internal/tooling/gcp_monitoring.go`, `azure_monitor.go`, `vsphere.go`) | a token, its expiry, a mutex | `Execute`, `ensureToken`, `authenticate` | Google, Azure, vCenter; called by all workers |
| Other tools (`internal/tooling/*.go`) | none | `Execute` | Prometheus, Kubernetes, databases, clouds |
| Cache and pending store (`internal/cache/sqlite.go`) | tables `alerts_cache`, `pending_alerts` | `Get`, `Set`, `MarkResolved`, `SavePending`, `GetPending`, `CleanupPending`, lists | SQLite |
| Event statistics (`internal/cache/events.go`) | table `alert_events` | `RecordEvent`, `AlertStats`, `CleanupEvents` | SQLite |
| Reviews (`internal/review`, `internal/cache/reviews.go`) | `running`, `lastErr`, table `alert_reviews` | `StartReview`, `Run`, `RunLoop` | events, LLM; the dashboard's button |
| Slack, Telegram, Teams (`internal/messenger`) | seen events, polling offset, Teams' token | `SendAlert`, `SendAnalysisReply`, `SendAnalysis`, `SendError`, listeners | chat platforms; `messengerHandler` |
| Dashboard (`internal/webui`) | none | `apiAlerts`, `apiAlertReviewRun`, statistics, single rows | the stores; a viewer's browser |
| Configuration (`internal/config/config.go`) | the loaded file | `ResolveProxy`, `inheritDefaultMCPClients`, defaults, validation | main |
| Wiring (`cmd/sherlockops/main.go`, `internal/middleware`) | context, HTTP server | start-up, `registerTools`, `webhookHandler`, `messengerHandler`, janitors, shutdown | everything |
| Runbooks, health, metrics, pricing, formatting | read-only or counters | - | - |

What is hard here, and what has to hold:

* **Workers race.**  Two alerts with one fingerprint are processed at the same
  time; each call to the database, a messenger or the LLM is a point at which
  the other worker, a mention, a janitor or a restart may come in.  Whatever
  the order, an answer must land under the right message, a row must hold an
  analysis of its own fingerprint, and the semaphore must balance.
* **State outlives the process only in SQLite.**  The queue does not; the
  messages in the chats do.  A mention after a restart must find its alert.
* **Calls fail one by one.**  An error in the middle of Process leaves a posted
  alert without a row, an answer or a notice; which of these is allowed?
* **Shutdown** closes the queue that handlers still send on, and the database
  that workers still use.
* **The dialog with the LLM** goes wherever the model wants: unknown tools,
  failed tools, tools when none were offered, no text at all.  Requests must
  stay ones both services accept, bounded, and end.
* **Chat platforms repeat, reorder and lose.**  Slack sends two events for one
  mention and repeats what is not acknowledged in time; Telegram repeats what
  is not confirmed by the next poll.  A mention must be handled once and not be
  lost, over broken connections, failed polls and restarts.
* **Requests are repeated** after 429, and an answer may get lost after the
  platform did what it was asked: a message must appear at most once.
* **Tokens expire under several workers**, and half of the clients read them
  without the mutex.
* **MCP servers come and go** while analyses use them, over an URL and a
  session no mutex protects; and the tools an analysis may use depend on the
  environment its alert carries.
* **Alarms have no identity** but the fingerprint each receiver makes of
  different labels: repetitions and resolutions must have the same one, other
  alarms another.
* **Readers and janitors** work on tables that are being written: pages are
  cut by offset, statistics are two queries, old rows go.

The list of hazards, each with its line and the properties against it, is in
`PROJECT.json`.

## 2. Modules

    WorkerPool ----------- Pipeline --- PipelineProperties --- MCPipeline, MCModes
        |   \                  \                    \
        |    \                  \                    +--------- MCEndings
        |     WorkerPoolProofs   PipelineProofs               /
        +---- Shutdown --------------------------------------+
                  \
                   ShutdownProofs

    PipelineProofs and ShutdownProofs EXTEND WorkerPoolProofs

    Analyzer --- Providers --+
                             +-- Investigation --- MCInvestigation
    McpClient ---------------+         \
        \                               InvestigationProofs
         MCMcpClient

    SlackListener, TelegramListener,
    Clients, Credentials -------------- PlatformsProofs
    Receivers, Routing ---------------- AlertsProofs
    Reviews, Statistics, Dashboard ---- DashboardProofs
        \                                   \
         MCServices (the nine modules) ------ ServicesProofs (EXTENDS the three)

    Calls: implemented by Clients and by Credentials (INSTANCE ... WITH)

### Alerts inside the program

**WorkerPool** is the abstract specification of the pool: alert *instances*
move along `new -> queued -> running -> done`, or are dropped, lost with the
process, or panic in the caller.  `Submit` is the `select` of worker.go:51-61,
including the send on a closed channel; `Take`, `Finish` and `Exit` are the range
loop; `Close` and `Joined` the two halves of `Stop`; `Restart` the death of the
process.  Pipeline and Shutdown extend it, use only its operations, and are
shown to implement it: `PoolSpec` is a theorem of both, and a property of
`pipeline`.

**Pipeline** is Process, call by call.  `pc[w]` says which call worker `w` makes
next: `mark` MarkResolved, `notify` and `post` SendAlert, `save` SavePending,
`lookup` cache.Get, `await` and `analyze` the two halves of
RateLimitedAnalyzer.Analyze, `store` cache.Set, `deliver` SendAnalysisReply,
SendAnalysis or SendError.  `Entry` is the case distinction at the top of the
three flows.  `cache`, `pending` and `events` are the SQLite tables; each action
on them is one SQL statement, which SQLite makes atomic.  Alerts come in through
`Webhook` and through `Mention` and `HandIn`, the two halves of
messengerHandler, between which anything may happen.  An alert's text is not
modelled; its fingerprint, environment, status, reply target and command are.
An analysis is known by the alert it was made for.  `posted` and `sent` are
histories of what reached the chats.  `Mishaps` chooses the calls that may fail,
`Aging` whether rows expire and are cleaned up.

**MCPipeline** gives Pipeline its small instances.  **MCModes** has it twice, as an
instance in auto and as one in manual mode, each with constants of its own, and a
variable that says which of them runs; its properties are those of
PipelineProperties, of the one that runs.

**Shutdown** is main.go from the signal on, with webhook handlers and listeners
still submitting, and both ways down: a signal, which leaves the context alive,
and a failed HTTP server, which cancels it.  Requests come while the server
serves; one that comes later is refused by the HTTP server and never a handler.

**MCEndings** has what must come to an end: Shutdown, and Pipeline as an instance
over the same pool; a variable says which of them runs, and each has the fairness
of its own specification.

### The investigation

**Analyzer** is Analyzer.Analyze: `Ask` compacts the history and sends it,
`StopEarly`, `Answer` and `RequestTools` are the three ways a response is dealt
with, `Execute` one tool call, `RunOut` the end of the loop, `Trace` buildResult.
Texts are known by the iteration that wrote them, results by whether they are
whole or summarized.  The provider may return anything.

**Providers** turns the history into what is sent, message by message, for
Anthropic and for OpenAI, and says what of it those services accept: the turns
alternate and begin with the user, every use of a tool is answered in the very
next turn, and nothing is answered that was not asked.  The two services are
external.

**McpClient** is one client with its server and the monitor.  `NextUrl`,
`Initialize`, `Notify` and `List` are the steps of Connect and handshake, one
request each; `Check` is HealthCheck.  The server is external: it serves at the
base path or at /mcp, goes down, comes back with other tools, and forgets its
sessions.

**Investigation** composes these: an analysis whose registry has built-in
tools and those of an MCP client.  `CallBuiltin`, `CallMcp` and `CallUnknown` are
the outcomes of Registry.Execute.

**Routing** is which registry and which prompt an alert gets: main's
`registerTools` for the top of the configuration and for each environment, with
the proxies and the inherited MCP clients of config.go, `GetRegistry` with its
fallbacks, and `ListTools` and `Execute`, between which MCP clients connect.
An executor is known by its kind and name, the block of the configuration that
lists it and the proxy it goes through; `Top` is the block outside all
environments.

### Talking to platforms

**SlackListener** is socketModeLoop and listenWebSocket, one action per step that
waits for something: `Open`, `Round` (the look at the context), `Read`, `Ack`,
then the handler as `Ignore` or `Accept`, with markEventSeen before all filters,
and `HandOn` after the parent message was fetched.  `Key` is the key of
recentEvents, `Wanted` the filters.  Slack is external: an event per
subscription for each post, in any order; repeated until the acknowledgement
arrives; connections break and take the acknowledgements under way with them.
What the listener hands on arrives at messengerHandler, which is `Mention` and
`HandIn` of Pipeline.

**TelegramListener** is pollLoop: `GetUpdates`, `GetUpdatesFails`, `Receive`, then one
`HandleUpdate` for each update, which first moves the offset.  Telegram is
external: it keeps updates until a request's offset confirms them and answers
with any first part of the rest.  `Restart` is a new process, whose offset is 0.

**Clients** is everything that is sent: SendAlert, SendAnalysisReply,
SendAnalysis and SendError of Slack, of Telegram and of Teams in both its modes,
and Chat of the two providers.  They are one loop (`Transmit`, `WaitBackoff`,
`Again`, `GiveUp`) that differs in where the message goes (`TargetOf`,
`ReplyPlace`), in what counts as success and in which 429 is tried again.
`Perform` and `Refuse` are the platform: it may do what it is asked and lose the
answer, or answer with something that cannot be read.

**Credentials** is the login behind a request: the cached token, its expiry and
mutex, of GCP, Azure and Teams, and vSphere's session.  `WantLogin` is the
decision to log in before the mutex is had: vSphere's `authenticate` does not
look again once it has it.  What is read without the mutex may be torn while
another call stores (`ReadTorn`), and half of a string over the empty one is a
nil pointer (`Crash`).  `ExpirySurvived` counts what the service did out of the
ordinary: a call is refused in the end only if each of its tries (`Tries`) met a
token dropped early, an empty one or a torn one.

**Calls** is what both owe their caller, an abstract specification: a call ends
once, what it asks for is done at most once, and success is reported only if it
was done.  `ClientsDeliver` and `ToolsDeliver` say that Clients and Credentials
implement it, the second under a renaming of its variables.

**Receivers** is what each of the seven parsers makes of its payload, the two
headers, `GroupAlerts` and `Fingerprint`, behind a monitoring system whose alarms
fire, repeat and are resolved.  A group is known by the position of its first
alert.  `AlarmsAssumption` says what is assumed of alarms: they have names, and a
team is not called like a label the receivers use.

### Behind the dashboard

**Reviews** is the reviewer: `Claim` takes the flag, `Count`, `Chat` and `Save`
are the calls of a run, each of which may `Stumble`, `Report` is setLastError and
`GiveBack` the end; `RunLoop` is the schedule and `PressButton` the dashboard's.

**Statistics** is alert_events with `RecordEvent` and the janitor, and `AlertStats`
with its two queries and `aggregate`, computed from the rows.  Ids are never
reused, so `received` keeps the row of each id there ever was and `rows` the ids
still in the table.

**Dashboard** is apiAlerts as the three statements it makes, over the writes of
the pipeline, with the viewer who turns pages as `common.js` and `app.js` do.  The
order of an answer is given by how many rows are `Ahead` of one; `Cut` is LIMIT
and OFFSET.

**MCServices** runs one of the nine parts around the pipeline at a time; they
share no state, so the states of one are not multiplied with those of another;
`TypesHold` is the type invariant of the part that runs.  The parts'
own specifications state safety only, and its `Spec` adds their fairness.  It
implements each of them (`ServicesAreParts`), so what is proved of a part
holds where it runs.

Operators marked "Faulty" are variants of the definition after them, a
plausible bug each.  No specification uses them; `PROJECT.json` lists which
property notices which one.

## 3. Runs

All runs use `tlc -config X.cfg M`.  They end in states without successors by
design (all alerts are used up, the process has exited, the analysis is done),
so deadlock is not checked; that the system does not get stuck before is what
the liveness properties say.

| Run | Question | Bounds |
|---|---|---|
| `pipeline` | What survives when any call may fail, rows age and the process dies: threads, rows, the semaphore, one answer, a fresh one when asked for? Is the pool implemented? | auto mode, 2 workers, 2 alerts, queue of 1, 1 messenger, 1 restart, every mishap |
| `modes` | Is everybody told? Do resolutions stay while two workers race? In manual mode, is nothing analyzed unless asked for in a thread, and does asking find the alert, also after a restart? | 3 alerts, queue of 2, failing analyses. Auto: 2 workers, 3 fingerprints, 1 messenger. Manual: 1 busy worker, 2 fingerprints, 2 messengers of which one returns no message IDs, 1 restart |
| `endings` | Does every accepted alert get through, every mention get its answer? Does the database outlive the workers, is no webhook batch cut short, does the shutdown end? | 2 workers; 2 alerts and failing analyses, or 3 alerts and 2 requests on the way down |
| `investigation` | Are requests well formed for both services, is the trace true, are offered tools callable where they were found, does the analysis end? | 2 iterations of up to 2 calls, 1 result kept, 1 outage |
| `services` | The nine parts of MCServices, each alone (below) | |

The parts of `services`:

| Part | Question | Bounds |
|---|---|---|
| slack | Is each mention handed on once, none lost that was acknowledged, each in the end? | 4 pairs of posts of 7 kinds, every subscription, 1 fault |
| telegram | Is none lost that was confirmed, is the order kept, each heard in the end? | 3 updates, 1 failed poll, 1 restart |
| clients | Is everything sent at most once, where it belongs, under a ref that is found again, and does every call end? | 1 sender of 2 calls, 4 kinds of alert, 6 clients, 1 retry |
| credentials | One login per expiry, no call lost to an expired token, none made twice, all end? | 2 calls, 4 clients, 1 expiry, 2 tokens forgotten early or empty |
| reviews | One review at a time with its own error, and do they keep coming? | 2 presses, one for an environment, against the loop, interval 2 h, window 1 h, 1 failure |
| statistics | Do tiles, lines and filtered pages agree, is nothing in the window deleted? | 3 events of 2 names, 3 values of the header, 2 days |
| dashboard | Does paging miss nothing? | 3 fingerprints, 3 writes, pages of 1, a clock of 2 seconds, 3 filters; any statement may fail |
| receivers | Is every notification handed on, and do fingerprints identify alarms? | 7 systems, 3 alarms, payloads of up to 3, 3 payloads |
| routing | Does an analysis use tools, proxies and prompt of its own environment? | 3 configurations, 4 environments, 3 MCP servers |

Why the bounds are enough: an interference takes two workers and two alerts of
one fingerprint; a third alert is the mention that meets both.  A queue of one
is exceeded by the second submission, one of two by the third.  A second restart
starts from tables the first one already produced.  Two posts suffice for a shared ts (the pairs
combine a mention with each of the posts it could be taken for), two envelopes of
one post for duplicates, and one fault for a break or a repetition; posts do not
interact beyond recentEvents.  Two calls per response are needed for pairing and
order, and one result kept out of two to compact.  In a loop whose state is the
history, the third iteration repeats what the second does to the first.
Senders share nothing but the platform, so one is enough, with two calls for an
alert and its reply; the retry counter differs from its limit once.  A login is
shared or not between two calls; a token forgotten twice is what it takes to
fail a call that logs in twice.  Presses differ in nothing, so two are any two;
the loop is the third attempt.  Pages of one row need three for a row that
moves over two boundaries.  A group is told apart from its members by two
alarms of one name, and a third payload can repeat or resolve what the first
two did.  What does not depend on bounds is proved (section 5).

Faithful corners worth knowing when reading the runs:

* A failed SendAlert may have posted the message (the reply was lost).  So no
  pending row is promised for every posted message, only that rows and
  answers never point to a wrong one (`PendingMatches`, `RightThread`).
* Two workers may analyze one fingerprint at the same time: both miss the cache.
  The code accepts the cost, and so do the properties; `CacheIntegrity` and
  `RightThread` say it does no harm.
* A mention is answered by every messenger; those it did not come from post
  outside any thread, as resolveTarget does.  `MentionAnswered` is about the
  one it came from.
* `Told` excuses an alert left without an answer only by failed sends and
  failed database calls, which return from Process without a notice.  That an
  error of cache.Get leaves a posted alert without analysis or notice
  (pipeline.go:324) is what the code does, and no document says otherwise.
* `OneAnswer` is checked with one messenger; that all of them get the same answer
  is `PipelineOneAnswer`.
* `MentionRecovers` is checked and proved while no row ages.  A resolution that
  comes before the analysis is stored finds no row, and the analysis then counts
  as unresolved; `ResolvedStays` is about resolutions on record.
* After an MCP server restarts, its session is unknown, every call fails, and
  HealthCheck still passes, since there are tools in the list.  No document
  promises otherwise, so no property does.
* An answer without text is passed on as it is (analyzer.go:381); only an
  analysis that was cut short gets a canned text.
* The last request of an analysis goes without tools, though its history has
  calls and results (analyzer.go:330-334).  `RequestsWellFormed` is about the
  history; whether a service wants tools to be defined with one is not modelled.
* Only Slack shows the members of a group.
* `Fingerprint` is a record of name and labels.  The code hashes the text
  "name|key=value,key=value" without escaping (alert.go:87-101), so that two
  alarms could share it if names or labels had one of these characters in them:
  that other alarms have other fingerprints (`FingerprintsIdentify`,
  `AlarmsIdentified`) rests on names and labels without them, and on SHA-256.
* Loki's alerts come here without a fingerprint of their own, so that one is made
  of their labels (alertmanager.go:63).
* ElastAlert's number of matches is a label, so no repetition of such an
  alert has the fingerprint of an earlier one; Zabbix's event ID tells episodes
  apart; Alertmanager and Grafana bring a fingerprint over all labels, pods
  included.  `FingerprintsIdentify` is about one episode of an alarm.
* The reviewer's ErrAlreadyRunning and the handler's errReviewRunning are
  different errors; a press that is refused just before the other run ends is
  answered 500 and not 409 (`Reply`).
* `PagingMissesNothing` excuses rows that leave the filter, and rows that join
  it between COUNT and SELECT of a page: by offset both can hide one.  What is
  written over in between without joining or leaving hides none.  Pending rows
  beyond the newest `limit` are not shown on any page.
* In the statistics the header "default" and no header share a tile, but the
  filter "default" selects only the second.
* Teams takes any 2xx for success.  Its bot's fallback for a message without
  activity ID needs the webhook's URL, which a bot has not, so the reply fails
  (`NoWhere`).  X-Channel-Teams is read and not used.
* Prometheus and VictoriaMetrics offer tools of the same names; with both in one
  registry the first runs every call.  Of two MCP clients with a tool of one
  name the earlier takes over once it connects (`OwnToolsOnly` allows it).  An
  environment named "default" replaces the top's registry, not its prompt.

### Disagreements with the repository's own words

Seven runs have a counterexample to something the repository says; the findings
in `PROJECT.json` quote it.

* `synthetic_mention`: processTwoPhase does not ask isSyntheticMention, so a
  mention outside any thread is analyzed and cached, which the comment at
  pipeline.go:255 rules out.
* `environments`: the cache key has no environment, so an alert may be answered
  with the analysis another environment's tools produced.
* `app_mention`: markEventSeen is asked before the kind of event is looked at, so
  with both subscriptions a `message` event that is then ignored makes a duplicate
  of the app_mention that follows it.  That happens to a mention in a thread when
  the listener could not find out its own user ID at start-up, which is the trace
  TLC finds first, and to every mention outside a thread.  The comment at
  slack.go:843 says that an app_mention is always handled.
* `mcp_reconnect`: Connect leaves `c.url` at base+"/mcp" after a failed attempt,
  so a server at the configured root path that was down once is never found
  again, although main logs "will retry on health checks".
* `pending_unanalyzed`: pending rows are kept when their alert is analyzed.
  apiAlerts shows them on the first page, except those whose fingerprint is among
  the analyses of that page.  So an alert that was posted and analyzed, and whose
  analysis has moved to a later page, shows on the first as awaiting one.
  `PendingAreUnanalyzed` is about analyses which were there, matched the filter
  and were newer than the pending row when the page was asked for, and which
  nobody has touched since: an analysis that comes between two statements of
  one request is not held against the page.
* `group_severity`: GroupAlerts raises the severity of a group to critical if one
  of its members is, but not that of an info alert to a warning behind it, though
  the comment at alertmanager.go:144 says "Use highest severity in the group".
  `NotificationsHandedOn` says what holds, of critical ones.
* `group_status`: a group has status and fingerprint of its first alert, so that
  a firing alert behind a resolved one of its name goes out in a resolved one: it
  is neither posted as firing nor analyzed, although auto mode is to "analyze
  every alert immediately" (config.example.yaml:118).

## 4. Fairness

* Workers: weak fairness of each.  The Go scheduler runs every runnable
  goroutine, and every call Process makes returns: HTTP clients have timeouts
  and SQLite a busy timeout.  A worker that waits for the semaphore needs no
  more than that, since alerts are finitely many.
* main: weak fairness of its own steps.  A signal or an error of the server need
  not come.
* The analysis: weak fairness of the dialog and of tool calls, for the
  timeouts' sake.  Nothing is assumed of what the model says.
* The MCP client: weak fairness of connecting and checking, since the monitor's
  ticker goes on (with a positive check interval; otherwise nothing reconnects).
* The listeners: weak fairness of the goroutine, whose reads have deadlines and
  whose requests have timeouts; that Slack delivers on an open connection, and
  that Telegram answers a long poll.  Faults are bounded, so deliveries win.
* Senders and tool calls: weak fairness of each goroutine together with the
  platform it waits for, since every request has a timeout.  How the platform
  answers is not assumed: it may throttle every attempt.  A process that has
  crashed owes nothing.
* Reviews: weak fairness of the loop, of each run (its requests time out) and of
  the clock's hours.  Failures are bounded.
* Arrivals, mentions, presses, outages, restarts, expiry and failures have none.

## 5. Proofs

TLAPS checks every proof; nothing is assumed but the named ASSUMEs of the
modules, which TLC evaluates in every run that uses them.

* **WorkerPoolProofs.**  `PoolInv` adds to the types that an alert is queued
  exactly when it is at one position of the channel, is running exactly when one
  worker has it, and that workers leave an empty closed channel.  Types and
  `OnePlace` are not inductive without each other: that `Take` creates no second
  copy needs the uniqueness of positions, and `Exit` needs the link of outcome
  and channel for `Drained`.  From it follow `OnePlace`, `ExitedAfterDrain`,
  `Drained`, and the action properties `AtMostOnce` and `Fifo` (alerts leave in
  the order they came), which no run repeats, for all numbers of workers,
  alerts, places and restarts.
* **PipelineProofs.**  Each action is one of the pool or leaves it alone, hence
  `PipelineIsPool`.  `PipeInv == TypeOK /\ PoolInv /\ Control`, where `Control`
  says that `pc` is `rest` exactly when the worker has no alert, and that a
  worker about to deliver has something to deliver.  With it `LLMBound` is
  inductive: every way out of an analysis gives its place back.

  What is said in the chats needs more: that worker, tables and messengers tell
  the same story.  Two facts make that provable worker by worker (`Preserved`):
  the contents of an alert never change once it was begun, and a posted message
  stays.  `Story` describes everything else in terms of them: whose thread an
  alert is in (`AlertTrue`), who posted a message (`PostedTrue`), what a pending
  and a cache row copy (`PendingTrue`, `RowTrue`), what the place in Process and
  the locals of a worker imply about its alert (`PlaceTrue`, `LocalTrue`), and
  whom an answer is for (`AnswerTrue`).  `OneAnswer` needs `Underway` besides:
  whoever still processes the alert of an answer is in the last loop, past that
  messenger, with the same answer.  From `Story` follow `RightThread`,
  `CacheIntegrity`, `PendingMatches`, `ManualOnDemand`, `OneAnswer`,
  `ReanalyzeIsFresh` and the action property `ResolvedStays`.

  That nobody is forgotten is shown from the other end.  `Telling` says that a
  messenger which has not heard of an alert is still in `todo` of its worker,
  and that no worker returns before `todo` is empty: hence `Told`.  `Keeping`
  says that a pending row is missing only while the messenger is still before
  its worker (`Unsaved`), so that an alert which is done has all its rows, and
  `MentionRecovers` finds them.  Both are implications: sends, saves and lookups
  work and no row ages, as the properties themselves say.
* **ShutdownProofs.**  `ShutInv` links main's phase with the channel and the
  workers, each alert with at most one request, and a panic with the closed
  channel.  From it: `WorkersBeforeCache`, `NoWebhookCutShort`, `ReplyTells`,
  and `ShutdownIsPool`.
* **InvestigationProofs.**  The client connects only while it has no tools;
  `CallsWhereItMet` is inductive by itself and gives `OfferedCallable`: the
  monitor replaces the list only when it is empty, so nothing offered is taken
  away.  `BudgetIsKept` is inductive as it stands.

  The dialog is described by positions.  A position of the history holds a
  message or, past its end, a call still to do, whose result will be there;
  `InOrder` says that the first is the alert, and that the rest is filled
  without gaps by responses, each followed by exactly its calls, in their order.
  `RequestsWellFormed` is not inductive, as it holds only when nothing is left
  to do; `InOrder` is, at every step.  `DialogInv` adds what the summaries touch
  (`OnlyOld`: nothing with fewer than `KeepRecent` newer results), that the
  records buildResult counts are the results the model got, one by one
  (`Agree`), and which text is the latest (`Latest`).  From it follow the types,
  `RequestsWellFormed` for both providers, `TraceHonest` and `BestEffort`.
* **PlatformsProofs**, Slack.  `HandedOnce` needs to know why a second envelope
  is stopped: `OnceInv` says that a post which is being fetched or was handed
  on has its key in recentEvents, or no envelope of that key can arrive any
  more, which is what `Forget` waits for.  `AcknowledgedHandedOn` runs the other
  way: `AckInv` says that a mention whose key was seen, or one of whose
  envelopes was acknowledged, was taken care of, and that otherwise all its
  envelopes are still due.  It uses that a (channel, ts) is that of one post
  (`PostAssumption`), and the condition `EitherEventTells`, without which the
  run `app_mention` refutes it.

  Telegram.  `Base` is the update up to which
  some life of the process has been: the greater of what is confirmed and the
  one before the offset.  An answer continues at `Base`, so does what is left of
  a batch, and only `HandleUpdate` moves it, by one.  From this follow
  `ConfirmedHeard` and `HeardInOrder`, for any number of updates, failed polls
  and restarts.
  Clients.  Every step of Clients is one of Calls, or none it
  sees.  `Succeed` of Calls needs that the call was performed, and `Serve` that
  it was not before.  `ClientsInv` has why: while a request is still to be made,
  after a throttled one too, nothing was performed; an answer that counts as
  success was preceded by it.  That only 429 leads to another attempt is what
  makes it inductive.

  `MessagesInPlace` compares what is on the platform with alerts that may be
  gone.  `PlacesInv` keeps them together: every message belongs to a call that
  was made (`Posted`), a ref names the message of the sender's own alert
  (`Referred`), and what the platform did can be seen there (`Visible`), so that
  a success has a message behind it.

  Credentials.  The same refinement: a call goes round again only with the
  answer "unauthorized", and then the service has not served it (`AnswersInv`).
  And `ExecutorsShareLogins`, one login per expiry: `Paid` says that behind
  each token issued there is an expiry or an empty token, one more whenever none
  is valid and none about to be stored; it needs that whoever logs in holds the
  mutex (`Exclusive`).  The other half of `ExpiryHandled` counts mishaps:
  `SurvivalInv` says that with none no call can be refused (`Unhurt`), and that
  with one the second try of vSphere will not be (`Recovers`), because the token
  it gets is newer than all that were ever forgotten (`Newer`).
* **AlertsProofs**, Receivers.  `Prints` are the fingerprints an alarm may get
  in an episode; each parser stays within them (`PrintMade`), there is one
  (`PrintSingle`), and those of other alarms are others (`PrintsApart`): the
  inductive `PrintInv` only has to say that what is known of an alarm is from
  its present episode.  `PayloadsHandedOn` needs that a parsed alert has the
  name, the status and the severity it was sent with, as far as that receiver
  reads them (`Faithful`, one lemma per parser), and that every alert is in the
  group of the first one of its name (`FirstAlike`, `Grouped`).

  Routing.  What is in a registry depends on the configuration alone
  (`Stocked`), what its MCP clients offer only grows.  `RouteInv` says that what
  was listed is in the registry and still there (`Offered`), that built-in tools
  are all listed (`Complete`), and that a call went to an executor of that
  registry (`Called`).
* **DashboardProofs**, Reviews.  `TurnInv`: who is between taking the flag and
  giving it back is alone there, and the flag is up because of it; LastError is
  that of the last run, unless a run is about to report.

  Dashboard.  A row is due on a page by its rank, the number of rows ahead of
  it.  New rows and rewritten ones come before or stay where they are, so the
  rank of a row that is left alone never falls (`RanksGrow`): it may move to a
  later page, never to one that was turned.  `PagingInv` says of each row not
  yet seen that its rank is not before the page at hand, and that once the page
  is read either it is on it or there is a page after it; that uses that COUNT
  and SELECT agree, which is what the excuse is for.

  Statistics.  Sums are stated without a fold, as the size of a set of pairs, so
  that no induction is needed: a sum over the parts of a set is the size of the
  set (`SumOfParts`).  Each notification is in one bucket, hence totals of any
  set of buckets count the notifications in them (`CountedOnce`); lines, tiles
  and filtered pages are then about the same notifications (`TilesAgree`), and
  an environment has as many buckets as names if one stored header
  stands behind it (`OneBucketPerName`), which is the condition of
  `TilesMatchFilters`.  `ForgottenLate` says that what the janitor took is still
  older than every window.

* **ServicesProofs.**  The run `services` begins every part as its own
  specification does, and a step of it is one of the part that runs, or of none
  (`PartsStep`).  Hence `ServicesAreParts`, for any choice of parts, and from the
  nine type invariants `TypesHold`.

### What comes to an end

That something ends has two halves.  That whoever can take a step takes it is
fairness, and needs ENABLED and an induction over time: that half is TLC's.  The
other half is the program's: that there is always less to do, that nobody can be
made to start over, and that whoever waits, waits for somebody who does not.  It
is proved, for each of the following, as a count of the steps still to take: a
number with a bound, which each own step lowers and no other step raises.

| Theorem | Of | The count and its bound | What is waited for |
|---|---|---|---|
| `PipelineProcessEnds` | Process | `CallsLeft`: what is left of the flow, and of the loops over messengers; at most 4 per messenger and 7 | A place in the semaphore, which an analyzing worker has, who can go on (`NobodyStuck`) |
| `AnalysisEnds` | Analyze | `StepsLeft`: per iteration the request, the answer and `MaxCalls` calls; at most `MostSteps` | The model and the tools only |
| `ConnectEnds` | Connect | `RequestsLeft`: four per address still to try; at most 9 | The server only |
| `ShutdownEnds` | main | `PhaseNo`, and while the pool drains `WorkLeft`, which neither handlers nor listeners can raise once the queue is closed | A worker that can work (`JoinEnds`) |
| `SendsEnd` | A call to a platform | `SendsLeft`: four steps per attempt; at most 4 per retry and 4 | The platform only |
| `LoginsEnd` | A tool call with a login | `LoginStepsLeft`: one round, and one more after "unauthorized"; at most 14 | The mutex, whose holder is about to log in or to store (`MutexMoves`) |

Two of these needed an assumption on constants, which TLC evaluates: workers and
messengers are finitely many.  `NobodyStuck` needs `LLMBound`: the places taken
in the semaphore are those of the workers that analyze.  `SendsBounded` needs
that tries never exceed the retries of the client (`TriesKept`), `AnalysisEnds`
that a response has at most `MaxCalls` calls (`FewCalls`), and `JoinEnds` that
main waits for the workers only after it has closed the queue.  Who can go on
(`CanGoOn`, `CanWork`) is read off the guards, as ENABLED cannot be.

### What the proofs changed, and what is only model-checked

The attempts at proofs corrected earlier versions of the models.  vSphere's
decision to log in was one step with taking its mutex, so that a call which had
waited used the token another one got; the code does not look again, hence
`WantLogin`.  `ExpirySurvived` looked at the last try for a torn token and at
both for forgotten ones, which is false of a call whose first try was torn and
whose second met a forgotten token; it counts both now.  And the excuse of
`PagingMissesNothing` was wider than its proof needed.

Only model-checked: the liveness properties (`EventuallyProcessed`,
`MentionAnswered`, `ShutdownCompletes`, `Terminates`, `EveryMentionHeard`,
`EveryCallEnds`, `ReviewsKeepComing`), since TLAPS 1.4.5 has no ENABLED.
What their steps contribute is proved as above, except for the listeners and the
reviews.  Every invariant and
every action property of the passing runs is a theorem.

## 6. Not modelled

* Message formatting, cards and texts, the prompts, the parsing of the model's
  answer, pricing and metrics: they translate or count, and no property is about
  what they write.  With the texts goes Telegram's slicing of entities by UTF-16
  offsets (telegram.go:606, a hazard without a property).
* The tools without credentials are single requests whose answers become text.
* The configuration's defaults, environment variables and validation; the
  construction of servers and messengers: straight-line, before anything runs.
* Runbooks are scored by words; the dashboard's other endpoints return one row
  or one value; `List`, `Facets` and `Stats` of sqlite.go fill its other boxes.
* The SSE framing of MCP, and what a health check asks of the other tools.  A
  request of the handshake fails only while the server is away or the address is
  wrong, not by an error of a healthy server, which ends an attempt in the same
  way; and a tools/call may also bring a session ID (mcp_client.go:243-245),
  which is left out.
* A tool's own `proxy_url`, the first level of `ToolProxy` (config.go:65,
  main.go:398): it replaces the proxy of that tool and touches nothing else.

## 7. What is left

1. *Texts*: commands and entities of Telegram, the answer parser.
2. *Stores*: `List`, `Facets` and `Stats` against the rows; runbook matching.
3. *Proofs*: what decreases while a post, a poll or a review is under way, as is
   proved of alerts, analyses, calls and the shutdown; the temporal part stays
   with TLC.
