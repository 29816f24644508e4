------------------------------ MODULE Shutdown ------------------------------
(***************************************************************************)
(* How cmd/sherlockops/main.go brings the service down, over the pool of   *)
(* module WorkerPool: HTTP server, queue, workers, database, in that       *)
(* order, while webhook handlers and listeners may still be submitting.    *)
(*                                                                         *)
(* There are two ways down.  A signal leaves the context alive until main  *)
(* returns.  An error of the HTTP server cancels the context first; the    *)
(* workers do not look at it, but every call they make with it fails.      *)
(***************************************************************************)
EXTENDS WorkerPool, FiniteSets

CONSTANTS
    Request    \* webhook requests that may arrive

\* pipeline.workers of the configuration is a number.
ASSUME ShutdownAssumption == IsFiniteSet(Worker)

VARIABLES
    phase,     \* where main() is
    ctx,       \* "live" or "cancelled"
    batch,     \* the alerts of each request, {} before it arrives
    left,      \* those its handler has still to submit
    reply,     \* "" while there is none, then "200" or "500"
    timedOut   \* server.Shutdown gave up on a handler

httpVars == <<batch, left, reply>>
vars     == <<poolVars, phase, ctx, httpVars, timedOut>>

(***************************************************************************)
(* "serving"  waiting for a signal or for ctx.Done                         *)
(* "http"     in server.Shutdown, at most fifteen seconds                  *)
(* "stop"     about to close the queue                                     *)
(* "join"     in wg.Wait                                                   *)
(* "cache"    the workers are gone; the database is still open             *)
(* "closed"   the database is closed                                       *)
(* "exited"   main has returned and the process with it                    *)
(***************************************************************************)
Phase == {"serving", "http", "stop", "join", "cache", "closed", "exited"}

TypeOK ==
    /\ PoolTypeOK
    /\ phase \in Phase
    /\ ctx \in {"live", "cancelled"}
    /\ batch \in [Request -> SUBSET Alert]
    /\ left \in [Request -> SUBSET Alert]
    /\ reply \in [Request -> {"", "200", "500"}]
    /\ timedOut \in BOOLEAN

Init ==
    /\ PoolInit
    /\ phase = "serving"
    /\ ctx = "live"
    /\ batch = [r \in Request |-> {}]
    /\ left = [r \in Request |-> {}]
    /\ reply = [r \in Request |-> ""]
    /\ timedOut = FALSE

Alive == phase # "exited"

Handling(r) == batch[r] # {} /\ reply[r] = ""

-----------------------------------------------------------------------------
(* The webhook handler.                                                    *)

\* A request with a batch of alerts, while the server serves: Shutdown closes
\* the listening socket first, and a server that failed has none.
Arrive(r) ==
    /\ phase = "serving" /\ ctx = "live"
    /\ batch[r] = {}
    /\ \E B \in SUBSET {a \in Alert : outcome[a] = "new"} :
          /\ B # {}
          /\ \A q \in Request : batch[q] \cap B = {}
          /\ batch' = [batch EXCEPT ![r] = B]
          /\ left' = [left EXCEPT ![r] = B]
    /\ UNCHANGED <<poolVars, phase, ctx, reply, timedOut>>

\* webhookHandler submits the batch one by one and only logs ErrQueueFull.
\* A send on the closed queue panics; the router recovers, answers 500, and
\* the rest of the batch is gone (the 200 written afterwards is ignored).
SubmitOne(r) ==
    /\ Alive /\ Handling(r)
    /\ \E a \in left[r] :
          /\ Submit(a)
          /\ IF outcome'[a] = "panicked"
             THEN /\ left' = [left EXCEPT ![r] = {}]
                  /\ reply' = [reply EXCEPT ![r] = "500"]
             ELSE /\ left' = [left EXCEPT ![r] = @ \ {a}]
                  /\ UNCHANGED reply
    /\ UNCHANGED <<phase, ctx, batch, timedOut>>

\* 200 {"accepted": len(alerts)}, whatever became of them.
Respond(r) ==
    /\ Alive /\ Handling(r)
    /\ left[r] = {}
    /\ reply' = [reply EXCEPT ![r] = "200"]
    /\ UNCHANGED <<poolVars, phase, ctx, batch, left, timedOut>>

\* messengerHandler, which recovers from the panic of a closed queue.  The
\* messengers are stopped after the pool, and Stop only cancels: a handler
\* that is running goes on.
Listen(a) ==
    /\ Alive
    /\ \A r \in Request : a \notin batch[r]
    /\ Submit(a)
    /\ UNCHANGED <<phase, ctx, httpVars, timedOut>>

-----------------------------------------------------------------------------
(* The workers: run() neither selects on the context nor checks it.        *)

Work(w) ==
    /\ Alive
    /\ Take(w) \/ Finish(w) \/ Exit(w)
    /\ UNCHANGED <<phase, ctx, httpVars, timedOut>>

-----------------------------------------------------------------------------
(* main().                                                                 *)

Signal ==
    /\ phase = "serving"
    /\ phase' = "http"
    /\ UNCHANGED <<poolVars, ctx, httpVars, timedOut>>

\* ListenAndServe failed: its goroutine cancels the context of everything.
ServerError ==
    /\ phase = "serving" /\ ctx = "live"
    /\ ctx' = "cancelled"
    /\ UNCHANGED <<poolVars, phase, httpVars, timedOut>>

\* Faulty: main waits for a signal only.
WakeNever == FALSE

Wake ==
    /\ phase = "serving" /\ ctx = "cancelled"
    /\ phase' = "http"
    /\ UNCHANGED <<poolVars, ctx, httpVars, timedOut>>

\* Faulty: the handlers are not waited for.
HttpClosed ==
    /\ phase = "http"
    /\ phase' = "stop"
    /\ UNCHANGED <<poolVars, ctx, httpVars, timedOut>>

\* server.Shutdown returns when no handler is active ...
HttpDrained ==
    /\ phase = "http"
    /\ \A r \in Request : ~Handling(r)
    /\ phase' = "stop"
    /\ UNCHANGED <<poolVars, ctx, httpVars, timedOut>>

\* ... or after fifteen seconds; the error is logged.
HttpTimeout ==
    /\ phase = "http"
    /\ timedOut' = TRUE
    /\ phase' = "stop"
    /\ UNCHANGED <<poolVars, ctx, httpVars>>

\* workerPool.Stop: close, then wait for the workers.
CloseQueue ==
    /\ phase = "stop"
    /\ Close
    /\ phase' = "join"
    /\ UNCHANGED <<ctx, httpVars, timedOut>>

\* Faulty: Stop returns when the queue is empty.
WorkersIdle ==
    /\ phase = "join"
    /\ queue = <<>>
    /\ phase' = "cache"
    /\ UNCHANGED <<poolVars, ctx, httpVars, timedOut>>

WorkersGone ==
    /\ phase = "join"
    /\ Joined
    /\ phase' = "cache"
    /\ UNCHANGED <<poolVars, ctx, httpVars, timedOut>>

CloseCache ==
    /\ phase = "cache"
    /\ phase' = "closed"
    /\ UNCHANGED <<poolVars, ctx, httpVars, timedOut>>

\* main returns; the deferred cancel runs.
Return ==
    /\ phase = "closed"
    /\ phase' = "exited"
    /\ ctx' = "cancelled"
    /\ UNCHANGED <<poolVars, httpVars, timedOut>>

Main ==
    \/ Wake \/ HttpDrained \/ HttpTimeout \/ CloseQueue
    \/ WorkersGone \/ CloseCache \/ Return

Next ==
    \/ \E r \in Request : Arrive(r) \/ SubmitOne(r) \/ Respond(r)
    \/ \E a \in Alert : Listen(a)
    \/ \E w \in Worker : Work(w)
    \/ Signal \/ ServerError \/ Main

Spec == Init /\ [][Next]_vars

(***************************************************************************)
(* main and the workers run; so do the handlers, though nothing waits for  *)
(* them longer than the timeout.  Process returns: module Pipeline.        *)
(***************************************************************************)
FairSpec ==
    /\ Spec
    /\ WF_vars(Main)
    /\ \A w \in Worker : WF_vars(Work(w))

-----------------------------------------------------------------------------
\* The database is closed only when no worker is inside Process any more and
\* every alert the queue ever accepted has been through it.
WorkersBeforeCache ==
    phase \in {"cache", "closed", "exited"} =>
        /\ Joined
        /\ \A a \in Alert : outcome[a] \notin {"queued", "running"}

\* Unless a handler outlasts the fifteen seconds, shutting down costs no
\* webhook alert: no webhook handler ever sends on the closed queue.
NoWebhookCutShort ==
    ~timedOut => \A r \in Request : \A a \in batch[r] : outcome[a] # "panicked"

\* The reply tells whether the batch was cut short: 200 is sent after every
\* alert of it was offered to the open queue, 500 if one met a closed queue.
ReplyTells ==
    \A r \in Request :
        /\ reply[r] = "200" =>
              \A a \in batch[r] : outcome[a] \notin {"new", "panicked"}
        /\ reply[r] = "500" => \E a \in batch[r] : outcome[a] = "panicked"

\* Once main is on its way down, it gets there, whatever handlers and
\* listeners do, and through whichever of the two ways it began.
ShutdownCompletes == phase # "serving" \/ ctx = "cancelled" ~> phase = "exited"
=============================================================================
