-------------------------- MODULE WorkerPoolProofs --------------------------
(***************************************************************************)
(* The safety properties of WorkerPool, proved for every number of         *)
(* workers, alerts, restarts and every queue size.  The inductive          *)
(* invariant says where each alert is; everything else follows from it.    *)
(***************************************************************************)
EXTENDS WorkerPool, TLAPS

\* The channel holds exactly the queued alerts, each at one position.
Queued ==
    /\ \A a \in Alert : outcome[a] = "queued" <=> \E i \in 1..Len(queue) : queue[i] = a
    /\ \A i, j \in 1..Len(queue) : queue[i] = queue[j] => i = j

\* The workers hold exactly the running alerts, each at one worker.
Running ==
    /\ \A a \in Alert : outcome[a] = "running" <=> \E w \in Worker : job[w] = a
    /\ \A v, w \in Worker : job[v] = job[w] /\ job[v] \in Alert => v = w

PoolInv == PoolTypeOK /\ Queued /\ Running /\ ExitedAfterDrain

-----------------------------------------------------------------------------
LEMMA PoolInitInv == PoolInit => PoolInv
  BY PoolAssumption DEF PoolInit, PoolInv, PoolTypeOK, Queued, Running, ExitedAfterDrain, Progress

LEMMA SubmitInv == ASSUME PoolInv, NEW a \in Alert, Submit(a) PROVE PoolInv'
<1> USE PoolAssumption DEF Submit, PoolInv
<1>1. CASE Enqueue(a)
  <2>1. queue' = Append(queue, a) /\ Len(queue') = Len(queue) + 1
    BY <1>1 DEF Enqueue, PoolTypeOK
  <2>2. \A i \in 1..Len(queue) : queue'[i] = queue[i]
    BY <2>1 DEF PoolTypeOK
  <2>3. queue'[Len(queue) + 1] = a
    BY <2>1 DEF PoolTypeOK
  <2>4. PoolTypeOK'
    BY <1>1, <2>1 DEF Enqueue, PoolTypeOK, Progress
  <2>5. Queued'
    BY <1>1, <2>1, <2>2, <2>3 DEF Enqueue, PoolTypeOK, Queued
  <2>6. Running'
    BY <1>1 DEF Enqueue, PoolTypeOK, Running
  <2>7. ExitedAfterDrain'
    BY <1>1 DEF Enqueue, ExitedAfterDrain
  <2> QED BY <2>4, <2>5, <2>6, <2>7
<1>2. CASE Overflow(a)
  BY <1>2 DEF Overflow, PoolTypeOK, Progress, Queued, Running, ExitedAfterDrain
<1>3. CASE SendOnClosed(a)
  BY <1>3 DEF SendOnClosed, PoolTypeOK, Progress, Queued, Running, ExitedAfterDrain
<1> QED BY <1>1, <1>2, <1>3

LEMMA TakeInv == ASSUME PoolInv, NEW w \in Worker, Take(w) PROVE PoolInv'
<1> USE PoolAssumption DEF Take, PoolInv
<1> DEFINE h == Head(queue)
<1>1. /\ h \in Alert /\ h = queue[1]
      /\ Len(queue') = Len(queue) - 1
      /\ \A i \in 1..Len(queue') : queue'[i] = queue[i + 1]
  BY DEF PoolTypeOK
<1>2. outcome[h] = "queued"
  BY <1>1 DEF Queued, PoolTypeOK
<1>3. PoolTypeOK'
  BY <1>1 DEF PoolTypeOK, Progress
<1>4. Queued'
  <2>1. \A a \in Alert : outcome'[a] = "queued" <=> outcome[a] = "queued" /\ a # h
    BY <1>1 DEF PoolTypeOK
  <2>2. ASSUME NEW a \in Alert, outcome[a] = "queued", a # h
        PROVE  \E i \in 1..Len(queue') : queue'[i] = a
    <3>1. PICK i \in 1..Len(queue) : queue[i] = a
      BY <2>2 DEF Queued
    <3>2. i # 1 /\ i - 1 \in 1..Len(queue') /\ queue'[i - 1] = a
      BY <1>1, <2>2, <3>1 DEF PoolTypeOK
    <3> QED BY <3>2
  <2>3. ASSUME NEW a \in Alert, NEW i \in 1..Len(queue'), queue'[i] = a
        PROVE  outcome[a] = "queued" /\ a # h
    <3>1. i + 1 \in 1..Len(queue) /\ queue[i + 1] = a /\ 1 \in 1..Len(queue)
      BY <1>1, <2>3 DEF PoolTypeOK
    <3> QED BY <1>1, <3>1 DEF Queued
  <2>4. ASSUME NEW i \in 1..Len(queue'), NEW j \in 1..Len(queue'), queue'[i] = queue'[j]
        PROVE  i = j
    <3>1. i + 1 \in 1..Len(queue) /\ j + 1 \in 1..Len(queue) /\ queue[i + 1] = queue[j + 1]
      BY <1>1, <2>4 DEF PoolTypeOK
    <3>2. i + 1 = j + 1
      BY <3>1 DEF Queued
    <3> QED BY <3>2
  <2> QED BY <2>1, <2>2, <2>3, <2>4 DEF Queued
<1>5. Running'
  <2>1. \A v \in Worker : job'[v] = IF v = w THEN h ELSE job[v]
    BY DEF PoolTypeOK
  <2>2. \A v \in Worker : job[v] # h
    BY <1>1, <1>2 DEF Running
  <2>3. \A a \in Alert : outcome'[a] = "running" <=> outcome[a] = "running" \/ a = h
    BY <1>1 DEF PoolTypeOK
  <2>4. job[w] \notin Alert
    OBVIOUS
  <2> QED BY <2>1, <2>2, <2>3, <2>4 DEF Running
<1>6. ExitedAfterDrain'
  BY <1>1 DEF ExitedAfterDrain, PoolTypeOK
<1> QED BY <1>3, <1>4, <1>5, <1>6

LEMMA FinishInv == ASSUME PoolInv, NEW w \in Worker, Finish(w) PROVE PoolInv'
<1> USE PoolAssumption DEF Finish, PoolInv
<1>1. outcome[job[w]] = "running"
  BY DEF Running
<1>2. PoolTypeOK'
  BY DEF PoolTypeOK, Progress
<1>3. Queued'
  BY <1>1 DEF PoolTypeOK, Queued
<1>4. Running'
  BY DEF PoolTypeOK, Running
<1>5. ExitedAfterDrain'
  BY DEF ExitedAfterDrain, PoolTypeOK
<1> QED BY <1>2, <1>3, <1>4, <1>5

LEMMA ExitInv == ASSUME PoolInv, NEW w \in Worker, Exit(w) PROVE PoolInv'
  BY PoolAssumption DEF Exit, PoolInv, PoolTypeOK, Queued, Running, ExitedAfterDrain

LEMMA CloseInv == ASSUME PoolInv, Close PROVE PoolInv'
  BY ZenonT(60) DEF Close, PoolInv, PoolTypeOK, Queued, Running, ExitedAfterDrain

LEMMA RestartInv == ASSUME PoolInv, Restart PROVE PoolInv'
<1> USE PoolAssumption DEF Restart, PoolInv
<1>1. \A a \in Alert : outcome'[a] \notin {"queued", "running"}
  BY DEF PoolTypeOK
<1>2. PoolTypeOK'
  BY DEF PoolTypeOK, Progress
<1>3. Queued'
  BY <1>1 DEF Queued
<1>4. Running'
  BY <1>1 DEF Running
<1>5. ExitedAfterDrain'
  BY DEF ExitedAfterDrain
<1> QED BY <1>2, <1>3, <1>4, <1>5

\* One lemma per action gives the induction step.
LEMMA PoolStepInv == PoolInv /\ [PoolNext]_poolVars => PoolInv'
<1> SUFFICES ASSUME PoolInv, [PoolNext]_poolVars PROVE PoolInv'
  OBVIOUS
<1>1. CASE UNCHANGED poolVars
  BY <1>1 DEF poolVars, PoolInv, PoolTypeOK, Queued, Running, ExitedAfterDrain
<1>2. CASE PoolNext
  BY <1>2, SubmitInv, TakeInv, FinishInv, ExitInv, CloseInv, RestartInv DEF PoolNext
<1> QED BY <1>1, <1>2

\* The invariant of the pool, whatever the constants are.
THEOREM PoolInvariant == PoolSpec => []PoolInv
  BY PoolInitInv, PoolStepInv, PTL DEF PoolSpec

-----------------------------------------------------------------------------
\* The queue never outgrows its capacity, and every variable has its type.
THEOREM PoolTypeCorrect == PoolSpec => []PoolTypeOK
<1>1. PoolInv => PoolTypeOK
  BY DEF PoolInv
<1> QED BY <1>1, PoolInvariant, PTL

\* Every alert is in exactly one place: Submit puts it into the channel once
\* and a receive hands it to one worker.
THEOREM PoolOnePlace == PoolSpec => []OnePlace
<1>1. PoolInv => OnePlace
  BY DEF PoolInv, OnePlace, Queued, Running, Slots
<1> QED BY <1>1, PoolInvariant, PTL

\* A worker's loop ends only over a closed and empty channel.
THEOREM PoolExitedAfterDrain == PoolSpec => []ExitedAfterDrain
<1>1. PoolInv => ExitedAfterDrain
  BY DEF PoolInv
<1> QED BY <1>1, PoolInvariant, PTL

\* When Stop returns nothing that Submit accepted is queued or running.
LEMMA InvDrained == PoolInv => Drained
<1> SUFFICES ASSUME PoolInv, Joined, NEW a \in Alert
             PROVE  outcome[a] \notin {"queued", "running"}
  BY DEF Drained
<1>1. queue = <<>>
  BY PoolAssumption DEF PoolInv, Joined, ExitedAfterDrain
<1>2. outcome[a] # "queued"
  BY <1>1 DEF PoolInv, Queued
<1>3. outcome[a] # "running"
  BY PoolAssumption DEF PoolInv, Running, Joined
<1> QED BY <1>2, <1>3

THEOREM PoolDrained == PoolSpec => []Drained
  BY InvDrained, PoolInvariant, PTL

-----------------------------------------------------------------------------
\* What any step of the pool does to one alert.
LEMMA StepSuccessors ==
    ASSUME PoolInv, [PoolNext]_poolVars, NEW a \in Alert, outcome'[a] # outcome[a]
    PROVE  outcome'[a] \in Successors[outcome[a]]
<1> USE DEF PoolInv
<1>1. outcome[a] \in Progress
  BY DEF PoolTypeOK
<1>2. CASE \E b \in Alert : Submit(b)
  BY <1>1, <1>2 DEF Submit, Enqueue, Overflow, SendOnClosed, PoolTypeOK, Successors
<1>3. ASSUME NEW w \in Worker, Take(w) PROVE outcome'[a] \in Successors[outcome[a]]
  <2>1. Head(queue) = queue[1] /\ 1 \in 1..Len(queue) /\ queue[1] \in Alert
    BY <1>3 DEF Take, PoolTypeOK
  <2>2. outcome[Head(queue)] = "queued"
    BY <2>1 DEF Queued
  <2> QED BY <1>1, <1>3, <2>2 DEF Take, PoolTypeOK, Successors
<1>4. ASSUME NEW w \in Worker, Finish(w) PROVE outcome'[a] \in Successors[outcome[a]]
  BY <1>1, <1>4 DEF Finish, PoolTypeOK, Running, Successors
<1>5. CASE Restart
  BY <1>1, <1>5 DEF Restart, PoolTypeOK, Successors
<1> QED BY <1>2, <1>3, <1>4, <1>5 DEF PoolNext, Exit, Close, poolVars

\* No alert instance is ever processed twice, and none changes its fate.
THEOREM PoolAtMostOnce == PoolSpec => AtMostOnce
<1>1. PoolInv /\ [PoolNext]_poolVars =>
        [\A a \in Alert :
           outcome'[a] # outcome[a] => outcome'[a] \in Successors[outcome[a]]]_poolVars
  BY StepSuccessors
<1> QED BY <1>1, PoolInvariant, PTL DEF PoolSpec, AtMostOnce

\* Only the head of the channel is ever taken.
LEMMA StepHead ==
    ASSUME PoolInv, [PoolNext]_poolVars,
           NEW j \in 1..Len(queue), outcome'[queue[j]] = "running"
    PROVE  j = 1
<1> USE DEF PoolInv
<1>1. queue[j] \in Alert /\ outcome[queue[j]] = "queued"
  BY DEF PoolTypeOK, Queued
<1>2. CASE \E b \in Alert : Submit(b)
  BY <1>1, <1>2 DEF Submit, Enqueue, Overflow, SendOnClosed, PoolTypeOK
<1>3. ASSUME NEW w \in Worker, Take(w) PROVE j = 1
  <2>1. Head(queue) = queue[1] /\ 1 \in 1..Len(queue)
    BY <1>3 DEF Take, PoolTypeOK
  <2>2. queue[j] = queue[1]
    BY <1>1, <1>3, <2>1 DEF Take, PoolTypeOK
  <2> QED BY <2>1, <2>2 DEF Queued
<1>4. ASSUME NEW w \in Worker, Finish(w) PROVE FALSE
  BY <1>1, <1>4 DEF Finish, PoolTypeOK
<1>5. CASE Restart
  BY <1>1, <1>5 DEF Restart, PoolTypeOK
<1> QED BY <1>1, <1>2, <1>3, <1>4, <1>5 DEF PoolNext, Exit, Close, poolVars

\* The workers take the alerts in the order in which Submit accepted them.
THEOREM PoolFifo == PoolSpec => Fifo
<1>1. PoolInv /\ [PoolNext]_poolVars =>
        [\A i, j \in 1..Len(queue) :
           (i < j /\ outcome'[queue[j]] = "running") => outcome'[queue[i]] # "queued"]_poolVars
  BY StepHead
<1> QED BY <1>1, PoolInvariant, PTL DEF PoolSpec, Fifo
=============================================================================
