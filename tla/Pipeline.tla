------------------------------ MODULE Pipeline ------------------------------
(***************************************************************************)
(* What a worker does with one alert: Pipeline.Process and its three       *)
(* flows in internal/pipeline/pipeline.go, over the tables of              *)
(* internal/cache/sqlite.go, the messengers, and the LLM semaphore of      *)
(* internal/analyzer/limiter.go; and the two ways an alert gets in, the    *)
(* webhook handler and the mention handler of cmd/sherlockops/main.go.     *)
(*                                                                         *)
(* The queue and the workers are those of module WorkerPool: every action  *)
(* here is an action of the pool or leaves the pool alone.  One step is    *)
(* one call that other goroutines can observe (a database statement, a     *)
(* message sent, the start and the end of an LLM analysis), so two workers *)
(* interleave exactly between those calls.                                 *)
(***************************************************************************)
EXTENDS WorkerPool, FiniteSets

CONSTANTS
    Fingerprint,   \* values of Alert.Fingerprint
    MentionFp,     \* per messenger, the fingerprint of a synthetic alert
    Env,           \* values of Alert.Environment
    DefaultEnv,    \* the empty environment, which synthetic alerts have
    Messenger,     \* enabled messengers, numbered in configuration order
    NoId,          \* messengers whose SendAlert returns no message ID
    Listener,      \* messengers that receive mentions
    MaxLLM,        \* pipeline.max_concurrent_llm
    Mode,          \* pipeline.mode, "auto" or "manual"
    Mishaps,       \* which calls may fail
    Aging,         \* may cache entries expire and pending ones be cleaned up?
    Foreign,       \* a thread under a message no alert was posted as
    TopLevel,      \* no thread at all: ReplyTarget nil or ThreadID ""
    None           \* an absent row or value

ASSUME PipelineAssumption ==
    /\ Messenger \subseteq Nat
    /\ IsFiniteSet(Messenger)
    /\ IsFiniteSet(Worker)
    /\ NoId \subseteq Messenger
    /\ Listener \subseteq Messenger
    /\ MentionFp \in [Messenger -> Fingerprint]
    /\ DefaultEnv \in Env
    /\ MaxLLM \in Nat \ {0}
    /\ Mode \in {"auto", "manual"}
    /\ Mishaps \subseteq {"record", "mark", "send", "save", "get", "find", "cancel",
                      "analyze", "short", "set"}
    /\ Aging \in BOOLEAN
    /\ Foreign \notin Alert /\ TopLevel \notin Alert /\ Foreign # TopLevel
    /\ None \notin Alert

Thread == Alert \cup {Foreign, TopLevel}

\* The fields of domain.Alert that the flows look at.  "of" is the messenger
\* of the ReplyTarget (None when it is nil) and "thread" its ThreadID: the
\* thread under the message that posted an alert, Foreign, or TopLevel.
Data == [fp        : Fingerprint,
         env       : Env,
         status    : {"firing", "resolved"},
         synthetic : BOOLEAN,
         of        : Messenger \cup {None},
         thread    : Thread,
         command   : {"", "chat", "analyze", "reanalyze"}]

\* A row of alerts_cache: the alert whose analysis it holds, whether it is
\* younger than the TTL, and whether resolved_at is set.
Row == [by : Alert \cup {None}, fresh : BOOLEAN, resolved : BOOLEAN]

\* What the worker is about to deliver: an analysis (of which alert), an
\* error notice, or the hint of the synthetic-mention guard.
Answer == [what : {"analysis", "error", "hint"}, by : Alert \cup {None}]

ASSUME NoneAssumption == None \notin Data /\ None \notin Answer

Step == {"rest", "mark", "notify", "post", "save", "lookup", "await",
         "analyze", "store", "deliver"}

VARIABLES
    data,      \* the contents of each alert instance that has arrived
    pc,        \* where each worker is in Process
    todo,      \* messengers left in the worker's current loop
    refs,      \* messengers whose SendAlert returned a ref (refs []*MessageRef)
    out,       \* what the worker's delivery loop sends
    cache,     \* table alerts_cache
    pending,   \* table pending_alerts, keyed by the message posted for an alert
    events,    \* table alert_events: the alerts counted as occurrences
    slots,     \* occupied places of RateLimitedAnalyzer.sem
    posted,    \* history: which alerts have a message at which messenger
    sent       \* history: every answer delivered, and where it landed

local   == <<pc, todo, refs, out>>
tables  == <<cache, pending, events>>
chat    == <<posted, sent>>
vars    == <<poolVars, data, local, tables, slots, chat>>

Message == [m : Messenger, thread : Thread, what : {"analysis", "error", "hint"},
            by : Alert \cup {None}, for : Alert]

TypeOK ==
    /\ PoolTypeOK
    /\ data \in [Alert -> Data \cup {None}]
    /\ pc \in [Worker -> Step]
    /\ todo \in [Worker -> SUBSET Messenger]
    /\ refs \in [Worker -> SUBSET Messenger]
    /\ out \in [Worker -> Answer \cup {None}]
    /\ cache \in [Fingerprint -> Row]
    /\ pending \in [Messenger \X Alert -> Data \cup {None}]
    /\ events \subseteq Alert
    /\ slots \in Nat
    /\ posted \subseteq Messenger \X Alert
    /\ sent \subseteq Message

Init ==
    /\ PoolInit
    /\ data = [a \in Alert |-> None]
    /\ pc = [w \in Worker |-> "rest"]
    /\ todo = [w \in Worker |-> {}]
    /\ refs = [w \in Worker |-> {}]
    /\ out = [w \in Worker |-> None]
    /\ cache = [f \in Fingerprint |-> [by |-> None, fresh |-> FALSE, resolved |-> FALSE]]
    /\ pending = [k \in Messenger \X Alert |-> None]
    /\ events = {}
    /\ slots = 0
    /\ posted = {}
    /\ sent = {}

InThread(d) == d.thread # TopLevel

\* Faulty: the mode never reaches the pipeline.
NeverManual == FALSE

\* Process chooses processManual by the mode; the pending store is always set.
Manual == Mode = "manual"

\* The two loops of the code run over the messengers in configuration order.
NextIn(S) == {m \in S : \A n \in S : m <= n}

-----------------------------------------------------------------------------
(* Arrivals.                                                               *)

\* webhookHandler: a webhook alert has no ReplyTarget and no UserCommand.
Webhook(a) ==
    /\ data[a] = None
    /\ Submit(a)
    /\ \E fp \in Fingerprint, env \in Env, status \in {"firing", "resolved"} :
          /\ \A m \in Messenger : fp # MentionFp[m]
          /\ data' = [data EXCEPT ![a] =
                        [fp |-> fp, env |-> env, status |-> status, synthetic |-> FALSE,
                         of |-> None, thread |-> TopLevel, command |-> ""]]
    /\ UNCHANGED <<local, tables, slots, chat>>

\* What a listener builds from a user's message: the name is one of the
\* synthetic ones, and Status is left empty, which Process takes for firing.
Synthetic(m, t, c) ==
    [fp |-> MentionFp[m], env |-> DefaultEnv, status |-> "firing", synthetic |-> TRUE,
     of |-> m, thread |-> t, command |-> c]

\* IsAnalyzeCommand: the commands that contain an analyze keyword.
IsAnalyzeCommand(c) == c \in {"analyze", "reanalyze"}

\* Faulty: any stored alert of the messenger will do.
StoredAnywhere(m, t) ==
    LET keys == {k \in Messenger \X Alert : k[1] = m /\ pending[k] # None}
    IN IF t \in Alert /\ keys # {} THEN pending[CHOOSE k \in keys : TRUE] ELSE None

\* The stored alert under the message the mention replies to, if any.
Stored(m, t) == IF t \in Alert THEN pending[<<m, t>>] ELSE None

\* The swap of messengerHandler (and ResolvePendingMention).
Recovered(m, t) ==
    [Stored(m, t) EXCEPT !.of = m, !.thread = t, !.command = "reanalyze"]

\* The first half of messengerHandler: look the thread up in the pending
\* store when the text is an analyze command.  A failed lookup is logged, and
\* the mention goes on as it is.
Mention(a, m, t, c) ==
    LET hit == t # TopLevel /\ IsAnalyzeCommand(c) /\ Stored(m, t) # None IN
    /\ outcome[a] = "new" /\ data[a] = None
    /\ t \in Alert => <<m, t>> \in posted
    /\ \/ hit /\ data' = [data EXCEPT ![a] = Recovered(m, t)]
       \/ /\ ~hit \/ "find" \in Mishaps
          /\ data' = [data EXCEPT ![a] = Synthetic(m, t, c)]
    /\ UNCHANGED <<poolVars, local, tables, slots, chat>>

\* Faulty: the capacity of the queue is not looked at.
HandInUnbounded(a) ==
    /\ data[a] # None /\ outcome[a] = "new"
    /\ queue' = Append(queue, a)
    /\ outcome' = [outcome EXCEPT ![a] = "queued"]
    /\ UNCHANGED <<open, job, restarts, data, local, tables, slots, chat>>

\* The second half: submit whichever alert the lookup yielded.
HandIn(a) ==
    /\ data[a] # None
    /\ Submit(a)
    /\ UNCHANGED <<data, local, tables, slots, chat>>

Arrival(a) ==
    \/ Webhook(a) \/ HandIn(a)
    \/ \E m \in Listener, t \in Thread, c \in {"chat", "analyze", "reanalyze"} :
          Mention(a, m, t, c)

-----------------------------------------------------------------------------
(* Process.                                                                *)

\* Faulty: no guard against synthetic mentions.
EntryUnguarded(d) ==
    IF d.status = "resolved" THEN "mark"
    ELSE IF ~InThread(d) THEN "post"
    ELSE IF d.command = "reanalyze" THEN "await"
    ELSE "lookup"

\* Faulty: resolved alerts are taken for firing ones.
EntryIgnoringStatus(d) ==
    IF ~InThread(d) THEN "post"
    ELSE IF d.synthetic THEN "deliver"
    ELSE IF d.command = "reanalyze" THEN "await"
    ELSE "lookup"

\* Faulty: a recovered mention is answered from the cache.
EntryCached(d) ==
    IF d.status = "resolved" THEN "mark"
    ELSE IF ~InThread(d) THEN "post"
    ELSE IF d.synthetic THEN "deliver"
    ELSE "lookup"

\* Where Process goes first.  All three flows start with resolved alerts.
Entry(d) ==
    IF d.status = "resolved" THEN "mark"
    ELSE IF ~InThread(d) THEN "post"
    ELSE IF d.synthetic THEN "deliver"
    ELSE IF d.command = "reanalyze" THEN "await"
    ELSE "lookup"

\* RecordEvent counts what came by webhook, and what came by mention never.
\* It fails quietly.
Counted(d) == ~InThread(d) /\ ~d.synthetic

\* A worker takes an alert and records it; an in-thread synthetic one is
\* answered with the hint right away, through every messenger.
Begin(w) ==
    LET d == data[Head(queue)] IN
    /\ Take(w)
    /\ pc' = [pc EXCEPT ![w] = Entry(d)]
    /\ todo' = [todo EXCEPT ![w] = IF Entry(d) \in {"post", "deliver"} THEN Messenger ELSE {}]
    /\ out' = [out EXCEPT ![w] =
                 IF Entry(d) = "deliver" THEN [what |-> "hint", by |-> None] ELSE None]
    /\ \/ events' = events \cup (IF Counted(d) THEN {Head(queue)} ELSE {})
       \/ "record" \in Mishaps /\ UNCHANGED events
    /\ UNCHANGED <<refs, data, cache, pending, slots, chat>>

\* Process returns to run().
Return(w) ==
    /\ Finish(w)
    /\ pc' = [pc EXCEPT ![w] = "rest"]
    /\ todo' = [todo EXCEPT ![w] = {}]
    /\ refs' = [refs EXCEPT ![w] = {}]
    /\ out' = [out EXCEPT ![w] = None]
    /\ UNCHANGED <<data, slots>>

\* cache.MarkResolved touches an existing row only; an error ends Process
\* before anybody is told.  Outside a thread the messengers are notified next.
MarkResolved(w) ==
    LET d == data[job[w]] IN
    /\ pc[w] = "mark"
    /\ cache' = [cache EXCEPT ![d.fp].resolved = (cache[d.fp].by # None)]
    /\ UNCHANGED <<pending, events, chat>>
    /\ IF InThread(d)
       THEN Return(w)
       ELSE /\ pc' = [pc EXCEPT ![w] = "notify"]
            /\ todo' = [todo EXCEPT ![w] = Messenger]
            /\ UNCHANGED <<poolVars, data, refs, out, slots>>

MarkResolvedFails(w) ==
    /\ pc[w] = "mark"
    /\ "mark" \in Mishaps
    /\ Return(w)
    /\ UNCHANGED <<tables, chat>>

\* SendAlert of a resolved alert: its ref is discarded, errors are logged.
\* A call that returns an error may still have reached the messenger.
Notify(w) ==
    /\ pc[w] = "notify"
    /\ \E m \in NextIn(todo[w]) :
          /\ \/ posted' = posted \cup {<<m, job[w]>>}
             \/ "send" \in Mishaps /\ posted' = posted
          /\ todo' = [todo EXCEPT ![w] = @ \ {m}]
    /\ UNCHANGED <<poolVars, data, pc, refs, out, tables, slots, sent>>

\* SendAlert of a firing alert (phase 1).  In manual mode the ref is saved
\* before the next messenger's turn; m stays in todo until Save is through.
Post(w) ==
    /\ pc[w] = "post"
    /\ \E m \in NextIn(todo[w]) :
          /\ posted' = posted \cup {<<m, job[w]>>}
          /\ refs' = [refs EXCEPT ![w] = @ \cup {m}]
          /\ IF Manual /\ m \notin NoId
             THEN pc' = [pc EXCEPT ![w] = "save"] /\ UNCHANGED todo
             ELSE todo' = [todo EXCEPT ![w] = @ \ {m}] /\ UNCHANGED pc
    /\ UNCHANGED <<poolVars, data, out, tables, slots, sent>>

\* SendAlert returned an error: no ref, whether or not the message is there.
PostFails(w) ==
    /\ pc[w] = "post"
    /\ "send" \in Mishaps
    /\ \E m \in NextIn(todo[w]) :
          /\ posted' \in {posted, posted \cup {<<m, job[w]>>}}
          /\ todo' = [todo EXCEPT ![w] = @ \ {m}]
    /\ UNCHANGED <<poolVars, data, pc, refs, out, tables, slots, sent>>

\* Faulty: also messengers whose SendAlert failed get a pending row.
AnchorsOfAll(w) == Messenger \ NoId

\* The refs that a later mention can be matched with.
Anchors(w) == refs[w] \ NoId

\* Two-phase delivery goes on to save all refs that carry a message ID.
EndPost(w) ==
    /\ pc[w] = "post" /\ todo[w] = {} /\ ~Manual
    /\ pc' = [pc EXCEPT ![w] = "save"]
    /\ todo' = [todo EXCEPT ![w] = Anchors(w)]
    /\ UNCHANGED <<poolVars, data, refs, out, tables, slots, chat>>

\* pending.SavePending under the message just posted; an error is logged.
Save(w) ==
    /\ pc[w] = "save"
    /\ \E m \in NextIn(todo[w]) :
          /\ \/ pending' = [pending EXCEPT ![<<m, job[w]>>] = data[job[w]]]
             \/ "save" \in Mishaps /\ UNCHANGED pending
          /\ todo' = [todo EXCEPT ![w] = @ \ {m}]
    /\ pc' = [pc EXCEPT ![w] = IF Manual THEN "post" ELSE "save"]
    /\ UNCHANGED <<poolVars, data, refs, out, cache, events, slots, chat>>

\* Step 3 of processTwoPhase: a reanalysis skips the cache.
EndSave(w) ==
    /\ pc[w] = "save" /\ todo[w] = {}
    /\ pc' = [pc EXCEPT ![w] =
                IF data[job[w]].command = "reanalyze" THEN "await" ELSE "lookup"]
    /\ UNCHANGED <<poolVars, data, todo, refs, out, tables, slots, chat>>

\* Faulty: mentions have no refs, so nobody would hear of them.
AudienceOfRefs(w) == refs[w]

\* Whom the answer goes to: the refs of phase 1, or, for a mention in a
\* thread, every messenger.
Audience(w) == IF InThread(data[job[w]]) THEN Messenger ELSE refs[w]

\* Turn to the last loop of the flow, which sends the answer.
Answering(w, answer) ==
    /\ pc' = [pc EXCEPT ![w] = "deliver"]
    /\ out' = [out EXCEPT ![w] = answer]
    /\ todo' = [todo EXCEPT ![w] = Audience(w)]

ErrorNotice == [what |-> "error", by |-> None]

\* cache.Get finds a row younger than the TTL: answer with it.
Hit(w) ==
    LET row == cache[data[job[w]].fp] IN
    /\ pc[w] = "lookup"
    /\ row.by # None /\ row.fresh
    /\ Answering(w, [what |-> "analysis", by |-> row.by])
    /\ UNCHANGED <<poolVars, data, refs, tables, slots, chat>>

Miss(w) ==
    LET row == cache[data[job[w]].fp] IN
    /\ pc[w] = "lookup"
    /\ row.by = None \/ ~row.fresh
    /\ pc' = [pc EXCEPT ![w] = "await"]
    /\ UNCHANGED <<poolVars, data, todo, refs, out, tables, slots, chat>>

\* An error of cache.Get ends Process: nobody hears of the alert again.
LookupFails(w) ==
    /\ pc[w] = "lookup"
    /\ "get" \in Mishaps
    /\ Return(w)
    /\ UNCHANGED <<tables, chat>>

\* RateLimitedAnalyzer.Analyze: wait for a place in the semaphore.
Acquire(w) ==
    /\ pc[w] = "await"
    /\ slots < MaxLLM
    /\ slots' = slots + 1
    /\ pc' = [pc EXCEPT ![w] = "analyze"]
    /\ UNCHANGED <<poolVars, data, todo, refs, out, tables, chat>>

\* The context was cancelled while waiting: an error like any other.
AwaitFails(w) ==
    /\ pc[w] = "await"
    /\ "cancel" \in Mishaps
    /\ Answering(w, ErrorNotice)
    /\ UNCHANGED <<poolVars, data, refs, tables, slots, chat>>

\* The inner analyzer returns; the deferred receive gives the place back.
Analyzed(w) ==
    /\ pc[w] = "analyze"
    /\ slots' = slots - 1
    /\ pc' = [pc EXCEPT ![w] = "store"]
    /\ out' = [out EXCEPT ![w] = [what |-> "analysis", by |-> job[w]]]
    /\ UNCHANGED <<poolVars, data, todo, refs, tables, chat>>

\* Faulty: the place in the semaphore is kept on the error path.
AnalysisFailsLeaking(w) ==
    /\ pc[w] = "analyze"
    /\ "analyze" \in Mishaps
    /\ Answering(w, ErrorNotice)
    /\ UNCHANGED <<poolVars, data, refs, tables, slots, chat>>

AnalysisFails(w) ==
    /\ pc[w] = "analyze"
    /\ "analyze" \in Mishaps
    /\ slots' = slots - 1
    /\ Answering(w, ErrorNotice)
    /\ UNCHANGED <<poolVars, data, refs, tables, chat>>

\* Faulty: the whole row is replaced.
Replaced(row, a) == [by |-> a, fresh |-> TRUE, resolved |-> FALSE]

\* ON CONFLICT DO UPDATE leaves resolved_at as it finds it.
Upserted(row, a) == [row EXCEPT !.by = a, !.fresh = TRUE]

\* cache.Set does nothing for a text below min_length; an error is only logged.
Store(w) ==
    LET fp == data[job[w]].fp IN
    /\ pc[w] = "store"
    /\ \/ cache' = [cache EXCEPT ![fp] = Upserted(@, job[w])]
       \/ Mishaps \cap {"set", "short"} # {} /\ UNCHANGED cache
    /\ pc' = [pc EXCEPT ![w] = "deliver"]
    /\ todo' = [todo EXCEPT ![w] = Audience(w)]
    /\ UNCHANGED <<poolVars, data, refs, out, pending, events, slots, chat>>

\* Faulty: the thread of a mention is forgotten.
PlaceOutside(m, a) == IF InThread(data[a]) \/ m \in NoId THEN TopLevel ELSE a

\* Where an answer of alert a lands at messenger m.  Phase 2 answers under
\* the alert's own message; a messenger without message IDs posts anew.  A
\* mention is answered in its thread, and by every OTHER messenger outside
\* any thread, since resolveTarget ignores a ReplyTarget that is not its own.
Place(m, a) ==
    IF InThread(data[a])
    THEN IF data[a].of = m THEN data[a].thread ELSE TopLevel
    ELSE IF m \in NoId THEN TopLevel ELSE a

\* SendAnalysisReply, SendAnalysis or SendError, one messenger at a time.
Deliver(w) ==
    LET a == job[w] IN
    /\ pc[w] = "deliver"
    /\ \E m \in NextIn(todo[w]) :
          /\ \/ sent' = sent \cup {[m |-> m, thread |-> Place(m, a), what |-> out[w].what,
                                    by |-> out[w].by, for |-> a]}
             \/ "send" \in Mishaps /\ UNCHANGED sent
          /\ todo' = [todo EXCEPT ![w] = @ \ {m}]
    /\ UNCHANGED <<poolVars, data, pc, refs, out, tables, slots, posted>>

\* Faulty: a failed analysis is tried again after it was reported.
CompleteRetrying(w) ==
    /\ todo[w] = {} /\ pc[w] = "deliver"
    /\ IF out[w] = ErrorNotice
       THEN pc' = [pc EXCEPT ![w] = "await"]
            /\ UNCHANGED <<poolVars, data, todo, refs, out, slots>>
       ELSE Return(w)
    /\ UNCHANGED <<tables, chat>>

\* The last loop of each flow is over.
Complete(w) ==
    /\ todo[w] = {}
    /\ \/ pc[w] \in {"deliver", "notify"}
       \/ pc[w] = "post" /\ Manual
    /\ Return(w)
    /\ UNCHANGED <<tables, chat>>

Work(w) ==
    \/ Begin(w)
    \/ MarkResolved(w) \/ MarkResolvedFails(w) \/ Notify(w)
    \/ Post(w) \/ PostFails(w) \/ EndPost(w) \/ Save(w) \/ EndSave(w)
    \/ Hit(w) \/ Miss(w) \/ LookupFails(w)
    \/ Acquire(w) \/ AwaitFails(w) \/ Analyzed(w) \/ AnalysisFails(w) \/ Store(w)
    \/ Deliver(w) \/ Complete(w)

-----------------------------------------------------------------------------
(* Shutdown, death of the process, and the passing of time.                *)

Leave(w) == Exit(w) /\ UNCHANGED <<data, local, tables, slots, chat>>

StopPool == Close /\ UNCHANGED <<data, local, tables, slots, chat>>

\* Only the SQLite tables and the messages already sent survive; a mention
\* not handed in yet dies with its handler.
Reboot ==
    /\ Restart
    /\ pc' = [w \in Worker |-> "rest"]
    /\ todo' = [w \in Worker |-> {}]
    /\ refs' = [w \in Worker |-> {}]
    /\ out' = [w \in Worker |-> None]
    /\ slots' = 0
    /\ data' = [a \in Alert |-> IF outcome[a] = "new" THEN None ELSE data[a]]
    /\ UNCHANGED <<tables, chat>>

\* A row outlives its TTL: Get no longer returns it, but it is not deleted.
Expire(f) ==
    /\ Aging
    /\ cache[f].fresh
    /\ cache' = [cache EXCEPT ![f].fresh = FALSE]
    /\ UNCHANGED <<poolVars, data, local, pending, events, slots, chat>>

\* The hourly janitor deletes a pending row older than thirty days.
CleanupPending(m, a) ==
    /\ Aging
    /\ pending[<<m, a>>] # None
    /\ pending' = [pending EXCEPT ![<<m, a>>] = None]
    /\ UNCHANGED <<poolVars, data, local, cache, events, slots, chat>>

Next ==
    \/ \E a \in Alert : Arrival(a)
    \/ \E w \in Worker : Work(w) \/ Leave(w)
    \/ StopPool
    \/ Reboot
    \/ \E f \in Fingerprint : Expire(f)
    \/ \E m \in Messenger, a \in Alert : CleanupPending(m, a)

Spec == Init /\ [][Next]_vars

(***************************************************************************)
(* Every runnable goroutine runs (weak fairness), and every call returns:  *)
(* the HTTP clients carry timeouts and SQLite a busy timeout.  A worker    *)
(* blocked on the semaphore needs no more: arrivals are finitely many, so  *)
(* the places are not contended for ever.                                  *)
(***************************************************************************)
Fairness == \A w \in Worker : WF_vars(Work(w)) /\ WF_vars(Leave(w))

FairSpec == Spec /\ Fairness
=============================================================================
