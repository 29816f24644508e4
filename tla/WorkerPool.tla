----------------------------- MODULE WorkerPool -----------------------------
(***************************************************************************)
(* The bounded, in-memory work queue of internal/pipeline/worker.go.       *)
(*                                                                         *)
(* Producers (webhook handlers and messenger listeners) Submit alerts      *)
(* without blocking; a fixed set of workers takes them in FIFO order and   *)
(* runs Pipeline.Process on each.  Stop closes the queue and waits until   *)
(* every worker has drained it and returned.  Nothing in the queue is      *)
(* persistent: when the process dies, what was queued or running is lost.  *)
(*                                                                         *)
(* This module is what the pool promises about alert INSTANCES.  What      *)
(* Process does with one is added by module Pipeline, and the order in     *)
(* which main.go shuts things down by module Shutdown; both extend this    *)
(* module and are shown to implement it.                                   *)
(***************************************************************************)
EXTENDS Integers, Sequences

CONSTANTS
    Worker,       \* the goroutines started by WorkerPool.Start
    Alert,        \* alert instances that may arrive (bounds the history)
    QueueSize,    \* capacity of the channel
    MaxRestarts,  \* how often the process may die and be started again
    Idle,         \* a worker blocked on (or about to read from) the channel
    Exited        \* a worker whose range loop has ended

ASSUME PoolAssumption ==
    /\ Worker # {}
    /\ QueueSize \in Nat \ {0}
    /\ MaxRestarts \in Nat
    /\ Idle \notin Alert
    /\ Exited \notin Alert
    /\ Idle # Exited

VARIABLES
    queue,     \* wp.queue: the alerts buffered in the channel
    open,      \* FALSE once Stop has closed the channel
    job,       \* what each worker is doing: Idle, Exited, or an alert
    outcome,   \* history: how far each alert instance has got
    restarts   \* how often the process has been restarted

poolVars == <<queue, open, job, outcome, restarts>>

(***************************************************************************)
(* "new"      not submitted yet                                            *)
(* "queued"   Submit returned nil; the alert is in the channel             *)
(* "running"  a worker is inside Process                                   *)
(* "done"     Process has returned                                         *)
(* "dropped"  Submit returned ErrQueueFull                                 *)
(* "panicked" Submit sent on the closed channel                            *)
(* "lost"     the process died with the alert queued or running            *)
(***************************************************************************)
Progress ==
    {"new", "queued", "running", "done", "dropped", "panicked", "lost"}

PoolTypeOK ==
    /\ queue \in Seq(Alert)
    /\ Len(queue) <= QueueSize
    /\ open \in BOOLEAN
    /\ job \in [Worker -> Alert \cup {Idle, Exited}]
    /\ outcome \in [Alert -> Progress]
    /\ restarts \in 0..MaxRestarts

PoolInit ==
    /\ queue = <<>>
    /\ open = TRUE
    /\ job = [w \in Worker |-> Idle]
    /\ outcome = [a \in Alert |-> "new"]
    /\ restarts = 0

-----------------------------------------------------------------------------
(***************************************************************************)
(* Submit is a select with a default: it never blocks.  The three cases    *)
(* are the send, the default branch, and the send on a closed channel,     *)
(* which panics in the caller's goroutine.                                 *)
(***************************************************************************)
Enqueue(a) ==
    /\ open
    /\ Len(queue) < QueueSize
    /\ queue' = Append(queue, a)
    /\ outcome' = [outcome EXCEPT ![a] = "queued"]

Overflow(a) ==
    /\ open
    /\ Len(queue) >= QueueSize
    /\ outcome' = [outcome EXCEPT ![a] = "dropped"]
    /\ UNCHANGED queue

SendOnClosed(a) ==
    /\ ~open
    /\ outcome' = [outcome EXCEPT ![a] = "panicked"]
    /\ UNCHANGED queue

Submit(a) ==
    /\ outcome[a] = "new"
    /\ Enqueue(a) \/ Overflow(a) \/ SendOnClosed(a)
    /\ UNCHANGED <<open, job, restarts>>

\* A worker receives the alert at the head of the channel.
Take(w) ==
    /\ job[w] = Idle
    /\ queue # <<>>
    /\ job' = [job EXCEPT ![w] = Head(queue)]
    /\ queue' = Tail(queue)
    /\ outcome' = [outcome EXCEPT ![Head(queue)] = "running"]
    /\ UNCHANGED <<open, restarts>>

\* Process returned, with or without an error: run() logs it and loops.
Finish(w) ==
    /\ job[w] \in Alert
    /\ job' = [job EXCEPT ![w] = Idle]
    /\ outcome' = [outcome EXCEPT ![job[w]] = "done"]
    /\ UNCHANGED <<queue, open, restarts>>

\* The range loop ends only when the channel is closed AND empty.
Exit(w) ==
    /\ job[w] = Idle
    /\ ~open
    /\ queue = <<>>
    /\ job' = [job EXCEPT ![w] = Exited]
    /\ UNCHANGED <<queue, open, outcome, restarts>>

\* The first half of Stop; the second half, wg.Wait, is Joined.
Close ==
    /\ open
    /\ open' = FALSE
    /\ UNCHANGED <<queue, job, outcome, restarts>>

Joined == \A w \in Worker : job[w] = Exited

(***************************************************************************)
(* The process dies (a panic in Process is not recovered by run, or the    *)
(* container is killed) and is started again: NewWorkerPool and Start run  *)
(* once more, over an empty channel.                                       *)
(***************************************************************************)
Restart ==
    /\ restarts < MaxRestarts
    /\ restarts' = restarts + 1
    /\ queue' = <<>>
    /\ open' = TRUE
    /\ job' = [w \in Worker |-> Idle]
    /\ outcome' = [a \in Alert |->
                     IF outcome[a] \in {"queued", "running"}
                     THEN "lost" ELSE outcome[a]]

PoolNext ==
    \/ \E a \in Alert : Submit(a)
    \/ \E w \in Worker : Take(w) \/ Finish(w) \/ Exit(w)
    \/ Close
    \/ Restart

PoolSpec == PoolInit /\ [][PoolNext]_poolVars

-----------------------------------------------------------------------------
\* The positions of the channel that hold a.
Slots(a) == {i \in 1..Len(queue) : queue[i] = a}

\* Every alert is in exactly one place: a submission puts an alert into the
\* channel once, and a receive moves it to one worker.  No alert instance is
\* ever processed by two workers, or queued again while it runs.
OnePlace ==
    /\ \A a \in Alert : outcome[a] = "queued" <=> Slots(a) # {}
    /\ \A a \in Alert : \A i, j \in Slots(a) : i = j
    /\ \A a \in Alert : outcome[a] = "running" <=> \E w \in Worker : job[w] = a
    /\ \A v, w \in Worker : job[v] = job[w] /\ job[v] \in Alert => v = w

\* A worker's loop ends only after the channel was closed and emptied.
ExitedAfterDrain ==
    \A w \in Worker : job[w] = Exited => ~open /\ queue = <<>>

\* When Stop returns, every alert that Submit ever accepted has been
\* processed to the end or died with an earlier incarnation of the process:
\* "Stop worker pool (drains remaining queue items)", main.go:379.
Drained ==
    Joined => \A a \in Alert : outcome[a] \notin {"queued", "running"}

\* What has happened to an alert stays so: a step may move it only along
\* new -> queued | dropped | panicked, queued -> running | lost, and
\* running -> done | lost.  In particular nothing is processed twice.
Successors ==
    [p \in Progress |->
       CASE p = "new"     -> {"queued", "dropped", "panicked"}
         [] p = "queued"  -> {"running", "lost"}
         [] p = "running" -> {"done", "lost"}
         [] OTHER         -> {}]

AtMostOnce ==
    [][\A a \in Alert :
          outcome'[a] # outcome[a] => outcome'[a] \in Successors[outcome[a]]]_poolVars

\* Alerts are taken in the order in which Submit accepted them: as long as
\* both wait in the channel, an alert never overtakes one in front of it.
Fifo ==
    [][\A i, j \in 1..Len(queue) :
          (i < j /\ outcome'[queue[j]] = "running") => outcome'[queue[i]] # "queued"]_poolVars

\* Every accepted alert is eventually processed, unless the process dies.
EventuallyProcessed ==
    \A a \in Alert : outcome[a] = "queued" ~> outcome[a] \in {"done", "lost"}
=============================================================================
