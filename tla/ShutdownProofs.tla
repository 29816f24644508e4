--------------------------- MODULE ShutdownProofs ---------------------------
(***************************************************************************)
(* Shutdown implements WorkerPool, closes the database after the workers   *)
(* are through, costs no webhook alert short of the timeout, and comes     *)
(* nearer to its end with every step: for any number of workers, requests  *)
(* and alerts.                                                             *)
(***************************************************************************)
EXTENDS Shutdown, WorkerPoolProofs, FiniteSetTheorems

\* What the phases of main say of the queue and the workers.
Order ==
    /\ phase \in {"serving", "http", "stop"} => open
    /\ phase \in {"cache", "closed", "exited"} => Joined
    /\ ~timedOut /\ phase \notin {"serving", "http"} => \A r \in Request : ~Handling(r)

\* What the handlers have in hand.
Batches ==
    /\ \A r \in Request : left[r] \subseteq batch[r] /\ (batch[r] = {} => reply[r] = "")
    /\ \A q, r \in Request : \A a \in batch[q] : a \in batch[r] => q = r
    /\ \A r \in Request : reply[r] = "200" => left[r] = {}
    /\ \A r \in Request : \A a \in batch[r] :
          outcome[a] = "new" => a \in left[r] \/ reply[r] = "500"

\* Where panics can have happened.
Panics ==
    /\ open => \A a \in Alert : outcome[a] # "panicked"
    /\ ~timedOut => \A r \in Request : \A a \in batch[r] : outcome[a] # "panicked"
    /\ \A r \in Request :
          reply[r] = "500" <=> \E a \in batch[r] : outcome[a] = "panicked"

ShutInv == TypeOK /\ PoolInv /\ Order /\ Batches /\ Panics

-----------------------------------------------------------------------------
\* Every step of Shutdown is a step of the pool or leaves the pool alone.
LEMMA StepIsPoolStep == TypeOK /\ [Next]_vars => [PoolNext]_poolVars
<1> SUFFICES ASSUME TypeOK, [Next]_vars PROVE [PoolNext]_poolVars
  OBVIOUS
<1>1. CASE \E r \in Request : Arrive(r) \/ Respond(r)
  BY <1>1 DEF Arrive, Respond
<1>2. CASE \E r \in Request : SubmitOne(r)
  BY <1>2 DEF SubmitOne, PoolNext, TypeOK
<1>3. CASE \E a \in Alert : Listen(a)
  BY <1>3 DEF Listen, PoolNext
<1>4. CASE \E w \in Worker : Work(w)
  BY <1>4 DEF Work, PoolNext
<1>5. CASE Signal \/ ServerError \/ Wake \/ HttpDrained \/ HttpTimeout
           \/ WorkersGone \/ CloseCache \/ Return
  BY <1>5 DEF Signal, ServerError, Wake, HttpDrained, HttpTimeout, WorkersGone, CloseCache, Return
<1>6. CASE CloseQueue
  BY <1>6 DEF CloseQueue, PoolNext
<1>7. CASE UNCHANGED vars
  BY <1>7 DEF vars
<1> QED BY <1>1, <1>2, <1>3, <1>4, <1>5, <1>6, <1>7 DEF Next, Main

-----------------------------------------------------------------------------
LEMMA InitShutInv == Init => ShutInv
<1> SUFFICES ASSUME Init PROVE ShutInv
  OBVIOUS
<1>1. PoolInv
  BY PoolInitInv DEF Init
<1>2. TypeOK
  BY <1>1 DEF Init, TypeOK, PoolInv, Phase
<1>3. Order /\ Batches /\ Panics
  BY DEF Init, PoolInit, Order, Batches, Panics, Handling
<1> QED BY <1>1, <1>2, <1>3 DEF ShutInv

\* What Submit does to the outcomes: only a new alert changes, and it panics
\* exactly when the queue is closed.
LEMMA SubmitOutcome ==
    ASSUME PoolTypeOK, NEW a \in Alert, Submit(a)
    PROVE  /\ outcome[a] = "new"
           /\ outcome'[a] # "new"
           /\ outcome'[a] = "panicked" <=> ~open
           /\ \A b \in Alert : b # a => outcome'[b] = outcome[b]
           /\ open' = open /\ job' = job
  BY DEF PoolTypeOK, Submit, Enqueue, Overflow, SendOnClosed

LEMMA ArriveShutInv ==
    ASSUME ShutInv, NEW r \in Request, Arrive(r)
    PROVE  TypeOK' /\ Order' /\ Batches' /\ Panics'
<1> USE DEF ShutInv
<1>1. PICK B \in SUBSET Alert :
        /\ B # {} /\ \A a \in B : outcome[a] = "new"
        /\ \A q \in Request : batch[q] \cap B = {}
        /\ batch' = [batch EXCEPT ![r] = B]
        /\ left' = [left EXCEPT ![r] = B]
  BY DEF Arrive
<1>2. batch[r] = {} /\ left[r] = {} /\ reply[r] = ""
  BY DEF Arrive, Batches
<1>3. /\ batch'[r] = B /\ left'[r] = B
      /\ \A q \in Request : q # r => batch'[q] = batch[q] /\ left'[q] = left[q]
      /\ \A q \in Request : \A a \in B : a \notin batch[q]
  BY <1>1 DEF TypeOK
<1>4. open' = open /\ job' = job /\ reply' = reply /\ outcome' = outcome /\ timedOut' = timedOut
  BY DEF Arrive, poolVars
<1>5. TypeOK'
  BY <1>1 DEF Arrive, TypeOK, PoolTypeOK, poolVars
<1>6. Order'
  BY <1>4 DEF Arrive, Order, Joined
<1>7. Batches'
  <2>1. \A q \in Request : left'[q] \subseteq batch'[q] /\ (batch'[q] = {} => reply'[q] = "")
    BY <1>1, <1>2, <1>3, <1>4, ZenonT(60) DEF Batches
  <2>2. \A p, q \in Request : \A a \in batch'[p] : a \in batch'[q] => p = q
    BY <1>3, ZenonT(60) DEF Batches
  <2>3. \A q \in Request : reply'[q] = "200" => left'[q] = {}
    BY <1>2, <1>3, <1>4 DEF Batches
  <2>4. \A q \in Request : \A a \in batch'[q] :
          outcome'[a] = "new" => a \in left'[q] \/ reply'[q] = "500"
    BY <1>3, <1>4, ZenonT(60) DEF Batches
  <2> QED BY <2>1, <2>2, <2>3, <2>4 DEF Batches
<1>8. Panics'
  <2>1. \A q \in Request : \A a \in batch'[q] :
          outcome'[a] = "panicked" => q # r /\ a \in batch[q]
    BY <1>1, <1>3, <1>4
  <2>2. ASSUME NEW q \in Request
        PROVE  reply'[q] = "500" <=> \E a \in batch'[q] : outcome'[a] = "panicked"
    BY <1>2, <1>3, <1>4, <2>1 DEF Panics
  <2>3. ~timedOut' => \A q \in Request : \A a \in batch'[q] : outcome'[a] # "panicked"
    BY <1>4, <2>1 DEF Panics
  <2>4. open' => \A a \in Alert : outcome'[a] # "panicked"
    BY <1>4 DEF Panics
  <2> QED BY <2>2, <2>3, <2>4 DEF Panics
<1> QED BY <1>5, <1>6, <1>7, <1>8

LEMMA SubmitOneShutInv ==
    ASSUME ShutInv, NEW r \in Request, SubmitOne(r)
    PROVE  TypeOK' /\ Order' /\ Batches' /\ Panics'
<1> USE DEF ShutInv
<1>1. PICK a \in Alert :
        /\ a \in left[r] /\ a \in batch[r]
        /\ Submit(a)
        /\ \/ /\ outcome'[a] = "panicked"
              /\ left' = [left EXCEPT ![r] = {}]
              /\ reply' = [reply EXCEPT ![r] = "500"]
           \/ /\ outcome'[a] # "panicked"
              /\ left' = [left EXCEPT ![r] = left[r] \ {a}]
              /\ reply' = reply
  BY DEF SubmitOne, Batches, TypeOK
<1>2. /\ outcome[a] = "new" /\ outcome'[a] # "new"
      /\ outcome'[a] = "panicked" <=> ~open
      /\ \A b \in Alert : b # a => outcome'[b] = outcome[b]
      /\ open' = open /\ job' = job
  BY <1>1, SubmitOutcome DEF TypeOK
<1>3. /\ phase' = phase /\ batch' = batch /\ timedOut' = timedOut
      /\ Handling(r)
      /\ \A q \in Request : q # r => left'[q] = left[q] /\ reply'[q] = reply[q] /\ a \notin batch[q]
  BY <1>1, ZenonT(60) DEF SubmitOne, TypeOK, Batches
<1>4. \/ /\ outcome'[a] = "panicked" /\ left'[r] = {} /\ reply'[r] = "500"
      \/ /\ outcome'[a] # "panicked" /\ left'[r] = left[r] \ {a} /\ reply'[r] = ""
  BY <1>1, <1>3 DEF TypeOK, Handling
<1>5. TypeOK'
  BY <1>1, SubmitInv DEF SubmitOne, TypeOK, PoolInv
<1>6. Order'
  BY <1>2, <1>3 DEF Order, Joined, Handling
<1>7. Batches'
  <2>1. \A q \in Request : left'[q] \subseteq batch'[q] /\ (batch'[q] = {} => reply'[q] = "")
    BY <1>1, <1>3, <1>4 DEF Batches
  <2>2. \A p, q \in Request : \A b \in batch'[p] : b \in batch'[q] => p = q
    BY <1>3 DEF Batches
  <2>3. \A q \in Request : reply'[q] = "200" => left'[q] = {}
    BY <1>3, <1>4 DEF Batches
  <2>4. ASSUME NEW q \in Request, NEW b \in batch'[q], outcome'[b] = "new"
        PROVE  b \in left'[q] \/ reply'[q] = "500"
    <3>1. b \in Alert /\ b \in batch[q] /\ b # a /\ outcome[b] = "new"
      BY <1>2, <1>3, <2>4 DEF TypeOK
    <3>2. b \in left[q] \/ reply[q] = "500"
      BY <3>1 DEF Batches
    <3> QED BY <1>3, <1>4, <3>1, <3>2 DEF Handling
  <2> QED BY <2>1, <2>2, <2>3, <2>4 DEF Batches
<1>8. Panics'
  <2>1. open' => \A b \in Alert : outcome'[b] # "panicked"
    BY <1>2 DEF Panics
  <2>2. ~timedOut => open
    BY <1>3 DEF Order
  <2>3. ~timedOut' => \A q \in Request : \A b \in batch'[q] : outcome'[b] # "panicked"
    BY <1>2, <1>3, <2>1, <2>2 DEF TypeOK
  <2>4. ASSUME NEW q \in Request
        PROVE  reply'[q] = "500" <=> \E b \in batch'[q] : outcome'[b] = "panicked"
    <3>1. \A b \in batch[q] : b \in Alert
      BY DEF TypeOK
    <3>2. CASE q = r
      <4>1. \A b \in batch[r] : outcome[b] # "panicked"
        BY <1>3 DEF Panics, Handling
      <4> QED BY <1>1, <1>2, <1>3, <1>4, <3>1, <3>2, <4>1
    <3>3. CASE q # r
      BY <1>2, <1>3, <3>1, <3>3 DEF Panics
    <3> QED BY <3>2, <3>3
  <2> QED BY <2>1, <2>3, <2>4 DEF Panics
<1> QED BY <1>5, <1>6, <1>7, <1>8

LEMMA RespondShutInv ==
    ASSUME ShutInv, NEW r \in Request, Respond(r)
    PROVE  TypeOK' /\ Order' /\ Batches' /\ Panics'
<1> USE DEF ShutInv
<1>1. /\ open' = open /\ job' = job /\ outcome' = outcome
      /\ phase' = phase /\ timedOut' = timedOut /\ batch' = batch /\ left' = left
      /\ reply'[r] = "200" /\ \A q \in Request : q # r => reply'[q] = reply[q]
      /\ Handling(r) /\ left[r] = {}
  BY DEF Respond, TypeOK, poolVars
<1>2. TypeOK'
  BY DEF Respond, TypeOK, PoolTypeOK, poolVars
<1>3. Order'
  BY <1>1 DEF Order, Joined, Handling
<1>4. Batches'
  <2>1. ASSUME NEW q \in Request, NEW a \in batch'[q], outcome'[a] = "new"
        PROVE  a \in left'[q] \/ reply'[q] = "500"
    BY <1>1, <2>1 DEF Batches, Handling
  <2> QED BY <1>1, <2>1 DEF Batches, Handling
<1>5. Panics'
  BY <1>1, ZenonT(60) DEF Panics, Handling
<1> QED BY <1>2, <1>3, <1>4, <1>5

LEMMA ListenShutInv ==
    ASSUME ShutInv, NEW a \in Alert, Listen(a)
    PROVE  TypeOK' /\ Order' /\ Batches' /\ Panics'
<1> USE DEF ShutInv, Listen
<1>1. /\ outcome'[a] = "panicked" <=> ~open
      /\ \A b \in Alert : b # a => outcome'[b] = outcome[b]
      /\ open' = open /\ job' = job
  BY SubmitOutcome DEF TypeOK
<1>2. \A r \in Request : \A b \in batch[r] : outcome'[b] = outcome[b]
  BY <1>1 DEF TypeOK
<1>3. TypeOK'
  BY SubmitInv DEF TypeOK, PoolInv, httpVars
<1>4. Order'
  BY <1>1 DEF Order, Joined, Handling, httpVars
<1>5. Batches'
  BY <1>2, ZenonT(60) DEF Batches, httpVars
<1>6. Panics'
  <2>1. open' => \A b \in Alert : outcome'[b] # "panicked"
    BY <1>1 DEF Panics
  <2>2. batch' = batch /\ reply' = reply /\ timedOut' = timedOut
    BY DEF httpVars
  <2> QED BY <1>2, <2>1, <2>2 DEF Panics
<1> QED BY <1>3, <1>4, <1>5, <1>6

\* A worker neither opens the queue nor panics, and an exited one stays so.
LEMMA WorkShutInv ==
    ASSUME ShutInv, NEW w \in Worker, Work(w)
    PROVE  TypeOK' /\ Order' /\ Batches' /\ Panics'
<1> USE DEF ShutInv
<1>1. /\ open' = open
      /\ phase' = phase /\ ctx' = ctx /\ timedOut' = timedOut
      /\ batch' = batch /\ left' = left /\ reply' = reply
  BY DEF Work, Take, Finish, Exit, httpVars
<1>2. \A a \in Alert : outcome'[a] # outcome[a] =>
          /\ outcome[a] # "new" /\ outcome[a] # "panicked"
          /\ outcome'[a] \in {"running", "done"}
  <2>1. CASE Take(w)
    <3>1. queue # <<>> /\ Head(queue) = queue[1] /\ 1 \in 1..Len(queue) /\ queue[1] \in Alert
      BY <2>1 DEF Take, PoolInv, PoolTypeOK
    <3>2. outcome[Head(queue)] = "queued"
      BY <3>1 DEF PoolInv, Queued
    <3> QED BY <2>1, <3>2 DEF Take, PoolInv, PoolTypeOK
  <2>2. CASE Finish(w)
    BY <2>2 DEF Finish, PoolInv, PoolTypeOK, Running
  <2>3. CASE Exit(w)
    BY <2>3 DEF Exit
  <2> QED BY <2>1, <2>2, <2>3 DEF Work
<1>3. Joined => Joined'
  BY PoolAssumption DEF Joined, Work, Take, Finish, Exit
<1>4. PoolTypeOK'
  BY TakeInv, FinishInv, ExitInv DEF Work, PoolInv
<1>6. TypeOK'
  BY <1>1, <1>4 DEF TypeOK
<1>7. Order'
  BY <1>1, <1>3 DEF Order, Handling
<1>8. Batches'
  BY <1>1, <1>2 DEF Batches, TypeOK
<1>9. Panics'
  <2>1. \A r \in Request : \A a \in batch[r] : a \in Alert
    BY DEF TypeOK
  <2>2. \A a \in Alert : outcome'[a] = "panicked" <=> outcome[a] = "panicked"
    BY <1>2
  <2> QED BY <1>1, <2>1, <2>2 DEF Panics
<1> QED BY <1>6, <1>7, <1>8, <1>9

LEMMA MainShutInv ==
    ASSUME ShutInv, Signal \/ ServerError \/ Main
    PROVE  TypeOK' /\ Order' /\ Batches' /\ Panics'
<1> USE DEF ShutInv
<1>1. CASE CloseQueue
  <2>1. /\ phase = "stop" /\ phase' = "join" /\ ~open'
        /\ job' = job /\ outcome' = outcome /\ timedOut' = timedOut
        /\ batch' = batch /\ left' = left /\ reply' = reply
    BY <1>1 DEF CloseQueue, Close, httpVars
  <2>2. TypeOK'
    BY <1>1 DEF CloseQueue, Close, httpVars, TypeOK, PoolTypeOK, Phase
  <2>3. Order' /\ Batches' /\ Panics'
    BY <2>1 DEF Order, Batches, Panics, Joined, Handling
  <2> QED BY <2>2, <2>3
<1>2. CASE Signal \/ ServerError \/ Wake \/ HttpDrained \/ HttpTimeout
           \/ WorkersGone \/ CloseCache \/ Return
  <2> USE DEF Signal, ServerError, Wake, HttpDrained, HttpTimeout, WorkersGone,
              CloseCache, Return
  <2>1. /\ queue' = queue /\ open' = open /\ job' = job /\ outcome' = outcome
        /\ restarts' = restarts /\ batch' = batch /\ left' = left /\ reply' = reply
        /\ timedOut => timedOut'
    BY <1>2 DEF poolVars, httpVars, TypeOK
  <2>2. TypeOK'
    BY <1>2, <2>1 DEF TypeOK, PoolTypeOK, Phase
  <2>3. Order'
    BY <1>2, <2>1 DEF Order, Joined, Handling, TypeOK
  <2>4. Batches'
    BY <2>1 DEF Batches
  <2>5. Panics'
    BY <1>2, <2>1 DEF Panics, TypeOK
  <2> QED BY <2>2, <2>3, <2>4, <2>5
<1> QED BY <1>1, <1>2 DEF Main

LEMMA StepShutInv == ShutInv /\ [Next]_vars => ShutInv'
<1> SUFFICES ASSUME ShutInv, [Next]_vars PROVE ShutInv'
  OBVIOUS
<1>1. PoolInv'
  BY StepIsPoolStep, PoolStepInv DEF ShutInv
<1>2. TypeOK' /\ Order' /\ Batches' /\ Panics'
  <2>1. CASE UNCHANGED vars
    BY <2>1, ZenonT(60) DEF vars, poolVars, httpVars, ShutInv, TypeOK, PoolTypeOK, Order, Batches,
                Panics, Joined, Handling
  <2>2. CASE Next
    BY <2>2, ArriveShutInv, SubmitOneShutInv, RespondShutInv, ListenShutInv,
       WorkShutInv, MainShutInv DEF Next
  <2> QED BY <2>1, <2>2
<1> QED BY <1>1, <1>2 DEF ShutInv

\* The invariant of the way down.
THEOREM ShutdownInvariant == Spec => []ShutInv
  BY InitShutInv, StepShutInv, PTL DEF Spec

-----------------------------------------------------------------------------
\* The pool that main shuts down is the pool of module WorkerPool.
THEOREM ShutdownIsPool == Spec => PoolSpec
<1>1. Init => PoolInit
  BY DEF Init
<1>2. ShutInv => TypeOK
  BY DEF ShutInv
<1> QED BY <1>1, <1>2, StepIsPoolStep, ShutdownInvariant, PTL DEF Spec, PoolSpec

\* Every variable has its type.
THEOREM ShutdownTypeCorrect == Spec => []TypeOK
<1>1. ShutInv => TypeOK
  BY DEF ShutInv
<1> QED BY <1>1, ShutdownInvariant, PTL

\* The database is closed only when the workers are gone and whatever the
\* queue accepted has been processed.
THEOREM ShutdownWorkersBeforeCache == Spec => []WorkersBeforeCache
<1>1. ShutInv => WorkersBeforeCache
  BY InvDrained DEF ShutInv, Order, WorkersBeforeCache, Drained
<1> QED BY <1>1, ShutdownInvariant, PTL

\* No webhook alert meets the closed queue unless server.Shutdown timed out.
THEOREM ShutdownNoWebhookCutShort == Spec => []NoWebhookCutShort
<1>1. ShutInv => NoWebhookCutShort
  BY DEF ShutInv, Panics, NoWebhookCutShort
<1> QED BY <1>1, ShutdownInvariant, PTL

\* A reply of 200 means that the whole batch was offered to the open queue,
\* and one of 500 that it was cut short.
THEOREM ShutdownReplyTells == Spec => []ReplyTells
<1>1. ShutInv => ReplyTells
  <2> SUFFICES ASSUME ShutInv, NEW r \in Request
               PROVE  /\ reply[r] = "200" =>
                            \A a \in batch[r] : outcome[a] \notin {"new", "panicked"}
                      /\ reply[r] = "500" => \E a \in batch[r] : outcome[a] = "panicked"
    BY DEF ReplyTells
  <2> QED BY DEF ShutInv, Batches, Panics
<1> QED BY <1>1, ShutdownInvariant, PTL

-----------------------------------------------------------------------------
(* The way down has an end.                                                *)

\* The phases of main in their order.
PhaseNo ==
    [serving |-> 0, http |-> 1, stop |-> 2, join |-> 3, cache |-> 4, closed |-> 5, exited |-> 6][phase]

\* Workers inside Process, and those that have not left their loop.
Busy   == {w \in Worker : job[w] \in Alert}
Around == {w \in Worker : job[w] # Exited}

\* The steps the workers have left once the queue is closed: two for every
\* alert in it, one for every alert in hand, and one to leave.
WorkLeft == 2 * Len(queue) + Cardinality(Busy) + Cardinality(Around)

\* Every step of main brings it one phase on, and none leads back; once the
\* queue is closed every step of a worker leaves less to do, and neither
\* handlers nor listeners make it more.
ShutdownAdvances ==
    [][/\ Main => PhaseNo' = PhaseNo + 1
       /\ PhaseNo' >= PhaseNo
       /\ ~open =>
             /\ (\E w \in Worker : Work(w)) => WorkLeft' < WorkLeft
             /\ WorkLeft' <= WorkLeft]_vars

\* Take, Finish or Exit: a worker that need not wait for anybody.
CanWork(w) == job[w] \in Alert \/ (job[w] = Idle /\ (queue # <<>> \/ ~open))

\* While main waits for the workers, they are gone or one of them can go on.
JoinEnds == phase = "join" => ~open /\ (Joined \/ \E w \in Worker : CanWork(w))

\* The number of each phase.
LEMMA PhaseTable ==
    /\ phase = "serving" => PhaseNo = 0
    /\ phase = "http"    => PhaseNo = 1
    /\ phase = "stop"    => PhaseNo = 2
    /\ phase = "join"    => PhaseNo = 3
    /\ phase = "cache"   => PhaseNo = 4
    /\ phase = "closed"  => PhaseNo = 5
    /\ phase = "exited"  => PhaseNo = 6
  BY DEF PhaseNo

\* main, phase by phase.
LEMMA PhaseStep ==
    ASSUME TypeOK, [Next]_vars
    PROVE  /\ Main => PhaseNo' = PhaseNo + 1
           /\ PhaseNo' >= PhaseNo
<1>1. \/ phase = "serving" /\ phase' = "http"
      \/ phase = "http" /\ phase' = "stop"
      \/ phase = "stop" /\ phase' = "join"
      \/ phase = "join" /\ phase' = "cache"
      \/ phase = "cache" /\ phase' = "closed"
      \/ phase = "closed" /\ phase' = "exited"
      \/ ~Main /\ phase' = phase
  BY DEF Next, vars, Main, Arrive, SubmitOne, Respond, Listen, Work, Signal, ServerError, Wake,
         HttpDrained, HttpTimeout, CloseQueue, WorkersGone, CloseCache, Return
<1>2. phase \in {"serving", "http", "stop", "join", "cache", "closed", "exited"}
  BY DEF TypeOK, Phase
<1>3. phase' = phase => PhaseNo' = PhaseNo
  BY DEF PhaseNo
<1>4. PhaseNo \in Int
  BY <1>2, PhaseTable
<1>5. /\ phase' = "http"    => PhaseNo' = 1
      /\ phase' = "stop"    => PhaseNo' = 2
      /\ phase' = "join"    => PhaseNo' = 3
      /\ phase' = "cache"   => PhaseNo' = 4
      /\ phase' = "closed"  => PhaseNo' = 5
      /\ phase' = "exited"  => PhaseNo' = 6
  BY DEF PhaseNo
<1> QED BY <1>1, <1>3, <1>4, <1>5, PhaseTable

\* Workers can be counted.
LEMMA WorkersFinite == \A S \in SUBSET Worker : IsFiniteSet(S) /\ Cardinality(S) \in Nat
  BY ShutdownAssumption, FS_Subset, FS_CardinalityType DEF ShutdownAssumption

\* A step of a worker leaves less for the workers to do.
LEMMA WorkDoesSome ==
    ASSUME PoolTypeOK, PoolTypeOK', NEW w \in Worker, Work(w)
    PROVE  WorkLeft' < WorkLeft
<1> DEFINE b == Cardinality(Busy)  r == Cardinality(Around)
<1>1. /\ IsFiniteSet(Busy) /\ b \in Nat /\ IsFiniteSet(Around) /\ r \in Nat /\ Len(queue) \in Nat
  BY WorkersFinite DEF Busy, Around, PoolTypeOK
<1>2. WorkLeft = 2 * Len(queue) + b + r
  BY DEF WorkLeft
<1>3. WorkLeft' = 2 * Len(queue') + Cardinality(Busy') + Cardinality(Around')
  BY DEF WorkLeft
<1>4. \A v \in Worker \ {w} : job'[v] = job[v]
  BY DEF Work, Take, Finish, Exit, PoolTypeOK
<1>5. CASE Take(w)
  <2>1. /\ job[w] = Idle /\ job'[w] \in Alert /\ queue # <<>> /\ queue' = Tail(queue)
    BY <1>5 DEF Take, PoolTypeOK
  <2>2. Len(queue') = Len(queue) - 1
    BY <2>1 DEF PoolTypeOK
  <2>3. Busy' = Busy \cup {w} /\ w \notin Busy
    BY <1>4, <2>1, PoolAssumption DEF Busy
  <2>4. Around' = Around
    BY <1>4, <2>1, PoolAssumption DEF Around
  <2>5. Cardinality(Busy') = b + 1
    BY <1>1, <2>3, FS_AddElement
  <2> HIDE DEF b, r
  <2>6. WorkLeft' = 2 * (Len(queue) - 1) + (b + 1) + Cardinality(Around)
    BY <1>3, <2>2, <2>4, <2>5
  <2> QED BY <1>1, <1>2, <2>6 DEF r
<1>6. CASE Finish(w)
  <2>1. /\ job[w] \in Alert /\ job'[w] = Idle /\ queue' = queue
    BY <1>6 DEF Finish, PoolTypeOK
  <2>2. Busy' = Busy \ {w} /\ w \in Busy
    BY <1>4, <2>1, PoolAssumption DEF Busy
  <2>3. Around' = Around
    BY <1>4, <2>1, PoolAssumption DEF Around
  <2>4. Cardinality(Busy') = b - 1
    BY <1>1, <2>2, FS_RemoveElement
  <2> QED BY <1>1, <1>2, <1>3, <2>1, <2>3, <2>4
<1>7. CASE Exit(w)
  <2>1. /\ job[w] = Idle /\ job'[w] = Exited /\ queue' = queue
    BY <1>7 DEF Exit, PoolTypeOK
  <2>2. Around' = Around \ {w} /\ w \in Around
    BY <1>4, <2>1, PoolAssumption DEF Around
  <2>3. Busy' = Busy
    BY <1>4, <2>1, PoolAssumption DEF Busy
  <2>4. Cardinality(Around') = r - 1
    BY <1>1, <2>2, FS_RemoveElement
  <2> QED BY <1>1, <1>2, <1>3, <2>1, <2>3, <2>4
<1> QED BY <1>5, <1>6, <1>7 DEF Work

\* Nobody else makes work once the queue is closed.
LEMMA NoNewWork ==
    ASSUME [Next]_vars, ~open, ~\E w \in Worker : Work(w)
    PROVE  WorkLeft' = WorkLeft
<1>1. queue' = queue /\ job' = job
  <2>1. CASE \E r \in Request : Arrive(r) \/ Respond(r)
    BY <2>1 DEF Arrive, Respond, poolVars
  <2>2. CASE \E r \in Request : SubmitOne(r)
    BY <2>2 DEF SubmitOne, Submit, Enqueue, Overflow, SendOnClosed
  <2>3. CASE \E a \in Alert : Listen(a)
    BY <2>3 DEF Listen, Submit, Enqueue, Overflow, SendOnClosed
  <2>4. CASE Signal \/ ServerError \/ Main
    BY <2>4 DEF Signal, ServerError, Main, Wake, HttpDrained, HttpTimeout, CloseQueue, Close,
                WorkersGone, CloseCache, Return, poolVars
  <2>5. CASE UNCHANGED vars
    BY <2>5 DEF vars, poolVars
  <2> QED BY <2>1, <2>2, <2>3, <2>4, <2>5 DEF Next
<1> QED BY <1>1 DEF WorkLeft, Busy, Around

\* main waits behind a closed queue.
Closed == phase = "join" => ~open

\* The queue is closed before main waits, and nobody opens it again.
LEMMA ClosedStep == Closed /\ [Next]_vars => Closed'
<1> SUFFICES ASSUME Closed, [Next]_vars, phase' = "join" PROVE ~open'
  BY DEF Closed
<1>1. CASE CloseQueue
  BY <1>1 DEF CloseQueue, Close
<1>2. CASE phase' = phase
  <2>1. ~open
    BY <1>2 DEF Closed
  <2> QED
    BY <1>2, <2>1 DEF Next, vars, poolVars, Main, Arrive, SubmitOne, Respond, Listen, Submit, Enqueue,
           Overflow, SendOnClosed, Work, Take, Finish, Exit, Signal, ServerError, Wake, HttpDrained,
           HttpTimeout, CloseQueue, Close, WorkersGone, CloseCache, Return
<1>3. CloseQueue \/ phase' = phase
  BY DEF Next, vars, Main, Arrive, SubmitOne, Respond, Listen, Work, Signal, ServerError, Wake,
         HttpDrained, HttpTimeout, WorkersGone, CloseCache, Return
<1> QED BY <1>1, <1>2, <1>3

\* main gets down, as far as steps can tell (main.go, after the signal): its
\* phases follow one another, while it waits for the workers the closed queue
\* holds ever less for them, none of them hangs on anything but Process, and
\* neither handlers nor listeners can prolong the wait.
THEOREM ShutdownEnds == Spec => ShutdownAdvances /\ []JoinEnds
<1>1. Init => Closed
  BY DEF Init, Closed
<1>2. ShutInv => TypeOK /\ PoolTypeOK
  BY DEF ShutInv, TypeOK
<1>3. ShutInv /\ ShutInv' /\ [Next]_vars =>
        [/\ Main => PhaseNo' = PhaseNo + 1
         /\ PhaseNo' >= PhaseNo
         /\ ~open =>
               /\ (\E w \in Worker : Work(w)) => WorkLeft' < WorkLeft
               /\ WorkLeft' <= WorkLeft]_vars
  <2> SUFFICES ASSUME ShutInv, ShutInv', [Next]_vars, ~open
               PROVE  /\ (\E w \in Worker : Work(w)) => WorkLeft' < WorkLeft
                      /\ WorkLeft' <= WorkLeft
    BY <1>2, PhaseStep
  <2>1. PoolTypeOK /\ PoolTypeOK'
    BY DEF ShutInv, TypeOK
  <2>2. WorkLeft \in Int
    BY <2>1, WorkersFinite DEF WorkLeft, Busy, Around, PoolTypeOK
  <2>3. (\E w \in Worker : Work(w)) => WorkLeft' < WorkLeft /\ WorkLeft' \in Int
    <3>1. Cardinality(Busy') \in Nat /\ Cardinality(Around') \in Nat /\ Len(queue') \in Nat
      BY <2>1, WorkersFinite DEF Busy, Around, PoolTypeOK
    <3>2. WorkLeft' \in Int
      BY <3>1 DEF WorkLeft
    <3> QED BY <2>1, <3>2, WorkDoesSome
  <2>4. (~\E w \in Worker : Work(w)) => WorkLeft' = WorkLeft
    BY NoNewWork
  <2> QED BY <2>2, <2>3, <2>4
<1>4. ShutInv /\ Closed => JoinEnds
  <2> SUFFICES ASSUME ShutInv, Closed, phase = "join", ~Joined
               PROVE  ~open /\ \E w \in Worker : CanWork(w)
    BY DEF JoinEnds, Closed
  <2>1. ~open
    BY DEF Closed
  <2>2. PICK w \in Worker : job[w] # Exited
    BY DEF Joined
  <2> QED BY <2>1, <2>2 DEF CanWork, ShutInv, TypeOK, PoolTypeOK
<1> QED BY <1>1, <1>3, <1>4, ClosedStep, ShutdownInvariant, PTL DEF Spec, ShutdownAdvances
=============================================================================
