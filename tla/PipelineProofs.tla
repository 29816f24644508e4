--------------------------- MODULE PipelineProofs ---------------------------
(***************************************************************************)
(* Pipeline implements WorkerPool, keeps its types, never runs more than   *)
(* MaxLLM analyses at once, tells the right people the right thing, and    *)
(* lets no alert stay in Process for ever: for any workers, alerts,        *)
(* messengers, failures and restarts.                                      *)
(***************************************************************************)
EXTENDS PipelineProperties, WorkerPoolProofs, FiniteSetTheorems, WellFoundedInduction

\* Every action is an action of the pool or leaves the pool alone.
LEMMA WorkIsPoolStep == ASSUME NEW w \in Worker, Work(w) PROVE [PoolNext]_poolVars
<1>1. CASE Begin(w)
  BY <1>1 DEF Begin, PoolNext
<1>2. CASE MarkResolved(w)
  BY <1>2 DEF MarkResolved, Return, PoolNext
<1>3. CASE MarkResolvedFails(w) \/ LookupFails(w) \/ Complete(w)
  BY <1>3 DEF MarkResolvedFails, LookupFails, Complete, Return, PoolNext
<1>4. CASE Notify(w) \/ Post(w) \/ PostFails(w) \/ EndPost(w) \/ Save(w) \/ EndSave(w)
  BY <1>4 DEF Notify, Post, PostFails, EndPost, Save, EndSave
<1>5. CASE Hit(w) \/ Miss(w) \/ Acquire(w) \/ AwaitFails(w) \/ Analyzed(w)
           \/ AnalysisFails(w) \/ Store(w) \/ Deliver(w)
  BY <1>5 DEF Hit, Miss, Acquire, AwaitFails, Analyzed, AnalysisFails, Store, Deliver
<1> QED BY <1>1, <1>2, <1>3, <1>4, <1>5 DEF Work

LEMMA StepIsPoolStep == [Next]_vars => [PoolNext]_poolVars
<1> SUFFICES ASSUME [Next]_vars PROVE [PoolNext]_poolVars
  OBVIOUS
<1>1. CASE \E a \in Alert : Arrival(a)
  BY <1>1 DEF Arrival, Webhook, HandIn, Mention, PoolNext
<1>2. CASE \E w \in Worker : Work(w)
  BY <1>2, WorkIsPoolStep
<1>3. CASE \E w \in Worker : Leave(w)
  BY <1>3 DEF Leave, PoolNext
<1>4. CASE StopPool \/ Reboot
  BY <1>4 DEF StopPool, Reboot, PoolNext
<1>5. CASE \E f \in Fingerprint : Expire(f)
  BY <1>5 DEF Expire
<1>6. CASE \E m \in Messenger, a \in Alert : CleanupPending(m, a)
  BY <1>6 DEF CleanupPending
<1>7. CASE UNCHANGED vars
  BY <1>7 DEF vars
<1> QED BY <1>1, <1>2, <1>3, <1>4, <1>5, <1>6, <1>7 DEF Next

\* What the pool promises holds of the pool that runs the pipeline: each
\* alert is processed at most once, in order, and drained by Stop.
THEOREM PipelineIsPool == Spec => PoolSpec
<1>1. Init => PoolInit
  BY DEF Init
<1> QED BY <1>1, StepIsPoolStep, PTL DEF Spec, PoolSpec

-----------------------------------------------------------------------------
\* A worker is inside Process exactly while it has an alert; it has something
\* to deliver when it gets there; and what was submitted has contents.
Control ==
    /\ \A w \in Worker : pc[w] # "rest" <=> job[w] \in Alert
    /\ \A w \in Worker : pc[w] \in {"store", "deliver"} => out[w] # None
    /\ \A a \in Alert : outcome[a] # "new" => data[a] # None

PipeInv == TypeOK /\ PoolInv /\ Control

LEMMA InitPipeInv == Init => PipeInv
<1> SUFFICES ASSUME Init PROVE PipeInv
  OBVIOUS
<1>1. PoolInv
  BY PoolInitInv DEF Init
<1>2. TypeOK
  BY <1>1 DEF Init, TypeOK, PoolInv, Data, Row, Answer, Message, Step
<1>3. Control
  BY PoolAssumption DEF Init, PoolInit, Control
<1> QED BY <1>1, <1>2, <1>3 DEF PipeInv

\* The sentinel is neither the contents of an alert nor an answer.
LEMMA DataIsNotNone == ASSUME NEW d \in Data PROVE d # None
  BY NoneAssumption

LEMMA AnswerIsNotNone == ASSUME NEW x \in Answer PROVE x # None
  BY NoneAssumption

LEMMA SubmitOutcomes ==
    ASSUME PoolTypeOK, NEW a \in Alert, Submit(a)
    PROVE  /\ \A b \in Alert : b # a => outcome'[b] = outcome[b]
           /\ job' = job
  BY DEF PoolTypeOK, Submit, Enqueue, Overflow, SendOnClosed

LEMMA ArrivalPipeInv ==
    ASSUME PipeInv, PoolInv', NEW a \in Alert, Arrival(a) PROVE TypeOK' /\ Control'
<1> USE PipelineAssumption DEF PipeInv
<1>1. PoolTypeOK'
  BY DEF PoolInv
<1>2. ASSUME NEW d \in Data, data' = [data EXCEPT ![a] = d] PROVE data' \in [Alert -> Data \cup {None}]
  BY <1>2 DEF TypeOK
<1>3. CASE Webhook(a)
  <2>1. PICK fp \in Fingerprint, env \in Env, status \in {"firing", "resolved"} :
          data' = [data EXCEPT ![a] =
             [fp |-> fp, env |-> env, status |-> status, synthetic |-> FALSE,
              of |-> None, thread |-> TopLevel, command |-> ""]]
    BY <1>3 DEF Webhook
  <2>2. [fp |-> fp, env |-> env, status |-> status, synthetic |-> FALSE,
         of |-> None, thread |-> TopLevel, command |-> ""] \in Data
    BY DEF Data, Thread
  <2>3. TypeOK'
    BY <1>1, <1>2, <1>3, <2>1, <2>2 DEF Webhook, local, tables, chat, TypeOK
  <2>4. data'[a] # None /\ \A b \in Alert : b # a => data'[b] = data[b]
    BY <2>1, <2>2, DataIsNotNone DEF TypeOK
  <2>5. Control'
    BY <1>3, <2>4, SubmitOutcomes, ZenonT(60) DEF Webhook, local, Control, TypeOK
  <2> QED BY <2>3, <2>5
<1>4. CASE HandIn(a)
  <2>1. TypeOK'
    BY <1>1, <1>4 DEF HandIn, local, tables, chat, TypeOK
  <2>2. Control'
    BY <1>4, SubmitOutcomes DEF HandIn, local, Control, TypeOK
  <2> QED BY <2>1, <2>2
<1>5. ASSUME NEW m \in Listener, NEW t \in Thread, NEW c \in {"chat", "analyze", "reanalyze"},
             Mention(a, m, t, c)
      PROVE  TypeOK' /\ Control'
  <2>1. Synthetic(m, t, c) \in Data
    BY DEF Synthetic, Data
  <2>2. ASSUME Stored(m, t) # None PROVE Recovered(m, t) \in Data
    <3>1. Stored(m, t) \in Data
      BY <2>2 DEF Stored, TypeOK
    <3> QED BY <3>1 DEF Recovered, Data
  <2>3. PICK d \in Data : data' = [data EXCEPT ![a] = d]
    BY <1>5, <2>1, <2>2 DEF Mention
  <2>4. TypeOK'
    BY <1>1, <1>2, <1>5, <2>3 DEF Mention, local, tables, chat, TypeOK
  <2>5. data'[a] # None /\ \A b \in Alert : b # a => data'[b] = data[b]
    BY <2>3, DataIsNotNone DEF TypeOK
  <2>6. Control'
    BY <1>5, <2>5 DEF Mention, local, poolVars, Control
  <2> QED BY <2>4, <2>6
<1> QED BY <1>3, <1>4, <1>5 DEF Arrival

\* What a busy worker is busy with.
LEMMA BusyWorker ==
    ASSUME PipeInv, NEW w \in Worker, pc[w] # "rest"
    PROVE  /\ job[w] \in Alert
           /\ data[job[w]] \in Data
           /\ data[job[w]].fp \in Fingerprint
           /\ cache[data[job[w]].fp] \in Row
           /\ NextIn(todo[w]) \subseteq Messenger
           /\ Audience(w) \in SUBSET Messenger
<1> USE DEF PipeInv
<1>1. job[w] \in Alert /\ outcome[job[w]] = "running"
  BY DEF Control, PoolInv, Running
<1>2. data[job[w]] \in Data
  BY <1>1 DEF Control, TypeOK
<1>3. data[job[w]].fp \in Fingerprint
  BY <1>2 DEF Data
<1> QED BY <1>1, <1>2, <1>3 DEF TypeOK, NextIn, Audience

LEMMA BeginPipeInv ==
    ASSUME PipeInv, PoolInv', NEW w \in Worker, Begin(w) PROVE TypeOK' /\ Control'
<1> USE PipelineAssumption DEF PipeInv
<1>1. PoolTypeOK' /\ Running'
  BY DEF PoolInv
<1>2. Head(queue) \in Alert
  BY DEF Begin, Take, TypeOK, PoolTypeOK
<1>3. Entry(data[Head(queue)]) \in Step \ {"rest", "store"}
  BY DEF Entry, Step
<1>4. TypeOK'
  BY <1>1, <1>2, <1>3 DEF Begin, chat, TypeOK, Answer
<1>5. Control'
  <2>1. \A v \in Worker : v # w => pc'[v] = pc[v] /\ job'[v] = job[v] /\ out'[v] = out[v]
    BY DEF Begin, Take, TypeOK, PoolTypeOK
  <2>2. pc'[w] = Entry(data[Head(queue)]) /\ job'[w] = Head(queue)
    BY DEF Begin, Take, TypeOK, PoolTypeOK
  <2>3. pc'[w] = "deliver" => out'[w] # None
    BY <1>3, <2>2, AnswerIsNotNone DEF Begin, TypeOK, Answer
  <2>4. \A a \in Alert : outcome'[a] # "new" => outcome[a] # "new"
    <3>1. Head(queue) = queue[1] /\ 1 \in 1..Len(queue)
      BY DEF Begin, Take, TypeOK, PoolTypeOK
    <3>2. outcome[Head(queue)] = "queued"
      BY <1>2, <3>1 DEF PoolInv, Queued
    <3> QED BY <3>2 DEF Begin, Take, TypeOK, PoolTypeOK
  <2> QED BY <1>2, <1>3, <2>1, <2>2, <2>3, <2>4 DEF Begin, Control
<1> QED BY <1>4, <1>5

LEMMA ReturnPipeInv ==
    ASSUME PipeInv, PoolInv', NEW w \in Worker, pc[w] # "rest", Return(w),
           cache' \in [Fingerprint -> Row], UNCHANGED <<pending, events, chat>>
    PROVE  TypeOK' /\ Control'
<1> USE PipelineAssumption, PoolAssumption DEF PipeInv
<1>1. PoolTypeOK'
  BY DEF PoolInv
<1>2. TypeOK'
  BY <1>1 DEF Return, chat, TypeOK, Step
<1>3. Control'
  <2>1. \A v \in Worker : v # w => pc'[v] = pc[v] /\ job'[v] = job[v] /\ out'[v] = out[v]
    BY DEF Return, Finish, TypeOK, PoolTypeOK
  <2>2. pc'[w] = "rest" /\ job'[w] = Idle
    BY DEF Return, Finish, TypeOK, PoolTypeOK
  <2>3. \A a \in Alert : outcome'[a] # "new" => outcome[a] # "new"
    <3>1. job[w] \in Alert /\ outcome' = [outcome EXCEPT ![job[w]] = "done"]
      BY DEF Return, Finish
    <3>2. outcome[job[w]] = "running"
      BY <3>1 DEF PoolInv, Running
    <3>3. outcome \in [Alert -> Progress]
      BY DEF PoolInv, PoolTypeOK
    <3> HIDE DEF PipeInv
    <3> QED BY <3>1, <3>2, <3>3
  <2> QED BY <2>1, <2>2, <2>3 DEF Return, Control
<1> QED BY <1>2, <1>3

LEMMA ResolvedPipeInv ==
    ASSUME PipeInv, PoolInv', NEW w \in Worker,
           MarkResolved(w) \/ MarkResolvedFails(w) \/ Notify(w)
    PROVE  TypeOK' /\ Control'
<1> USE DEF PipeInv
<1>1. PoolTypeOK'
  BY DEF PoolInv
<1>2. CASE MarkResolved(w)
  <2>1. pc[w] = "mark"
    BY <1>2 DEF MarkResolved
  <2>2. cache' \in [Fingerprint -> Row]
    BY <1>2, <2>1, BusyWorker, ZenonT(60) DEF MarkResolved, TypeOK, Row
  <2>3. CASE Return(w)
    BY <1>2, <2>1, <2>2, <2>3, ReturnPipeInv DEF MarkResolved
  <2>4. CASE ~InThread(data[job[w]])
    <3>1. TypeOK'
      BY <1>1, <1>2, <2>2, <2>4 DEF MarkResolved, chat, TypeOK, Step
    <3>2. Control'
      BY <1>2, <2>1, <2>4 DEF MarkResolved, poolVars, Control, TypeOK
    <3> QED BY <3>1, <3>2
  <2> QED BY <1>2, <2>3, <2>4 DEF MarkResolved
<1>3. CASE MarkResolvedFails(w)
  BY <1>3, ReturnPipeInv DEF MarkResolvedFails, tables, TypeOK
<1>4. CASE Notify(w)
  <2>1. job[w] \in Alert /\ NextIn(todo[w]) \subseteq Messenger
    BY <1>4, BusyWorker DEF Notify
  <2>2. TypeOK'
    BY <1>1, <1>4, <2>1 DEF Notify, tables, TypeOK
  <2>3. Control'
    BY <1>4 DEF Notify, poolVars, Control
  <2> QED BY <2>2, <2>3
<1> QED BY <1>2, <1>3, <1>4

LEMMA PostPipeInv ==
    ASSUME PipeInv, PoolInv', NEW w \in Worker,
           Post(w) \/ PostFails(w) \/ EndPost(w) \/ Save(w) \/ EndSave(w)
    PROVE  TypeOK' /\ Control'
<1> USE DEF PipeInv
<1>1. PoolTypeOK'
  BY DEF PoolInv
<1>2. /\ job[w] \in Alert /\ data[job[w]] \in Data
      /\ NextIn(todo[w]) \subseteq Messenger
  BY BusyWorker DEF Post, PostFails, EndPost, Save, EndSave
<1>3. CASE Post(w)
  <2>1. TypeOK'
    <3>1. PICK m \in Messenger :
            /\ posted' = posted \cup {<<m, job[w]>>}
            /\ refs' = [refs EXCEPT ![w] = @ \cup {m}]
            /\ \/ pc' = [pc EXCEPT ![w] = "save"] /\ todo' = todo
               \/ pc' = pc /\ todo' = [todo EXCEPT ![w] = @ \ {m}]
      BY <1>2, <1>3 DEF Post
    <3>2. posted' \subseteq Messenger \X Alert
      BY <1>2, <3>1 DEF TypeOK
    <3>3. /\ refs' \in [Worker -> SUBSET Messenger]
          /\ todo' \in [Worker -> SUBSET Messenger]
          /\ pc' \in [Worker -> Step]
      BY <3>1 DEF TypeOK, Step
    <3> QED BY <1>1, <1>3, <3>2, <3>3 DEF Post, tables, TypeOK
  <2>2. Control'
    BY <1>2, <1>3 DEF Post, poolVars, Control, TypeOK
  <2> QED BY <2>1, <2>2
<1>4. CASE PostFails(w)
  <2>1. TypeOK'
    BY <1>1, <1>2, <1>4 DEF PostFails, tables, TypeOK
  <2>2. Control'
    BY <1>4 DEF PostFails, poolVars, Control
  <2> QED BY <2>1, <2>2
<1>5. CASE EndPost(w)
  <2>1. TypeOK'
    BY <1>1, <1>5 DEF EndPost, Anchors, tables, chat, TypeOK, Step
  <2>2. Control'
    BY <1>2, <1>5 DEF EndPost, poolVars, Control, TypeOK
  <2> QED BY <2>1, <2>2
<1>6. CASE Save(w)
  <2>1. TypeOK'
    BY <1>1, <1>2, <1>6 DEF Save, chat, TypeOK, Step
  <2>2. Control'
    BY <1>2, <1>6 DEF Save, poolVars, Control, TypeOK
  <2> QED BY <2>1, <2>2
<1>7. CASE EndSave(w)
  <2>1. TypeOK'
    BY <1>1, <1>7 DEF EndSave, tables, chat, TypeOK, Step
  <2>2. Control'
    BY <1>2, <1>7 DEF EndSave, poolVars, Control, TypeOK
  <2> QED BY <2>1, <2>2
<1> QED BY <1>3, <1>4, <1>5, <1>6, <1>7

LEMMA AnswerPipeInv ==
    ASSUME PipeInv, PoolInv', NEW w \in Worker, slots' \in Nat,
           Hit(w) \/ Miss(w) \/ LookupFails(w) \/ Acquire(w) \/ AwaitFails(w)
             \/ Analyzed(w) \/ AnalysisFails(w)
    PROVE  TypeOK' /\ Control'
<1> USE DEF PipeInv
<1>1. PoolTypeOK'
  BY DEF PoolInv
<1>2. pc[w] \in {"lookup", "await", "analyze"}
  BY DEF Hit, Miss, LookupFails, Acquire, AwaitFails, Analyzed, AnalysisFails
<1>3. /\ job[w] \in Alert
      /\ cache[data[job[w]].fp] \in Row
      /\ Audience(w) \in SUBSET Messenger
  BY <1>2, BusyWorker
<1>4. ASSUME NEW x \in Answer, Answering(w, x), UNCHANGED <<poolVars, data, refs, tables, chat>>
      PROVE  TypeOK' /\ Control'
  <2>1. TypeOK'
    BY <1>1, <1>3, <1>4 DEF Answering, tables, chat, TypeOK, Step
  <2>2. Control'
    BY <1>3, <1>4, AnswerIsNotNone DEF Answering, poolVars, Control, TypeOK
  <2> QED BY <2>1, <2>2
<1>5. ErrorNotice \in Answer
  BY DEF ErrorNotice, Answer
<1>6. CASE Hit(w)
  <2>1. [what |-> "analysis", by |-> cache[data[job[w]].fp].by] \in Answer
    BY <1>3 DEF Row, Answer
  <2> QED BY <1>4, <1>6, <2>1 DEF Hit
<1>7. CASE AwaitFails(w) \/ AnalysisFails(w)
  BY <1>4, <1>5, <1>7 DEF AwaitFails, AnalysisFails
<1>8. CASE LookupFails(w)
  BY <1>8, ReturnPipeInv DEF LookupFails, tables, TypeOK
<1>9. CASE Miss(w) \/ Acquire(w)
  <2>1. TypeOK'
    BY <1>1, <1>9 DEF Miss, Acquire, tables, chat, TypeOK, Step
  <2>2. Control'
    BY <1>3, <1>9 DEF Miss, Acquire, poolVars, Control, TypeOK
  <2> QED BY <2>1, <2>2
<1>10. CASE Analyzed(w)
  <2>1. [what |-> "analysis", by |-> job[w]] \in Answer
    BY <1>3 DEF Answer
  <2>2. TypeOK'
    BY <1>1, <1>10, <2>1 DEF Analyzed, tables, chat, TypeOK, Step
  <2>3. Control'
    BY <1>3, <1>10, <2>1, AnswerIsNotNone DEF Analyzed, poolVars, Control, TypeOK
  <2> QED BY <2>2, <2>3
<1> QED BY <1>6, <1>7, <1>8, <1>9, <1>10

LEMMA DeliverPipeInv ==
    ASSUME PipeInv, PoolInv', NEW w \in Worker, Store(w) \/ Deliver(w) \/ Complete(w)
    PROVE  TypeOK' /\ Control'
<1> USE DEF PipeInv
<1>1. PoolTypeOK'
  BY DEF PoolInv
<1>2. pc[w] # "rest"
  BY DEF Store, Deliver, Complete
<1>3. /\ job[w] \in Alert /\ data[job[w]] \in Data /\ data[job[w]].fp \in Fingerprint
      /\ cache[data[job[w]].fp] \in Row
      /\ NextIn(todo[w]) \subseteq Messenger
      /\ Audience(w) \in SUBSET Messenger
  BY <1>2, BusyWorker
<1>4. CASE Store(w)
  <2>1. Upserted(cache[data[job[w]].fp], job[w]) \in Row
    BY <1>3 DEF Upserted, Row
  <2>2. cache' \in [Fingerprint -> Row]
    BY <1>4, <2>1 DEF Store, TypeOK
  <2>3. TypeOK'
    BY <1>1, <1>3, <1>4, <2>2 DEF Store, chat, TypeOK, Step
  <2>4. Control'
    BY <1>2, <1>4 DEF Store, poolVars, Control, TypeOK
  <2> QED BY <2>3, <2>4
<1>5. CASE Deliver(w)
  <2>1. out[w] \in Answer
    BY <1>5 DEF Deliver, Control, TypeOK
  <2>2. ASSUME NEW m \in Messenger
        PROVE  [m |-> m, thread |-> Place(m, job[w]), what |-> out[w].what,
                by |-> out[w].by, for |-> job[w]] \in Message
    <3>1. data[job[w]].thread \in Thread /\ TopLevel \in Thread /\ job[w] \in Thread
      BY <1>3 DEF Data, Thread
    <3>2. Place(m, job[w]) \in Thread
      BY <3>1 DEF Place
    <3> QED BY <1>3, <2>1, <3>2 DEF Message, Answer
  <2>3. sent' \subseteq Message
    BY <1>3, <1>5, <2>2 DEF Deliver, TypeOK
  <2>4. TypeOK'
    BY <1>1, <1>3, <1>5, <2>3 DEF Deliver, tables, TypeOK
  <2>5. Control'
    BY <1>5 DEF Deliver, poolVars, Control
  <2> QED BY <2>4, <2>5
<1>6. CASE Complete(w)
  BY <1>2, <1>6, ReturnPipeInv DEF Complete, tables, TypeOK
<1> QED BY <1>4, <1>5, <1>6

LEMMA OtherPipeInv ==
    ASSUME PipeInv, PoolInv',
           \/ \E w \in Worker : Leave(w)
           \/ StopPool \/ Reboot
           \/ \E f \in Fingerprint : Expire(f)
           \/ \E m \in Messenger, a \in Alert : CleanupPending(m, a)
           \/ UNCHANGED vars
    PROVE  TypeOK' /\ Control'
<1> USE PoolAssumption DEF PipeInv
<1>1. PoolTypeOK'
  BY DEF PoolInv
<1>2. CASE \E w \in Worker : Leave(w)
  BY <1>1, <1>2 DEF Leave, Exit, local, tables, chat, TypeOK, PoolTypeOK, Control
<1>3. CASE StopPool
  BY <1>1, <1>3 DEF StopPool, Close, local, tables, chat, TypeOK, Control
<1>4. CASE Reboot
  <2>1. TypeOK'
    BY <1>1, <1>4 DEF Reboot, tables, chat, TypeOK, Step
  <2>2. Control'
    BY <1>4 DEF Reboot, Restart, TypeOK, PoolTypeOK, Control
  <2> QED BY <2>1, <2>2
<1>5. CASE \E f \in Fingerprint : Expire(f)
  <2>1. PICK f \in Fingerprint : Expire(f)
    BY <1>5
  <2>2. cache' \in [Fingerprint -> Row]
    BY <2>1, ZenonT(60) DEF Expire, TypeOK, Row
  <2>3. TypeOK'
    BY <1>1, <2>1, <2>2 DEF Expire, local, chat, TypeOK
  <2>4. Control'
    BY <2>1 DEF Expire, local, poolVars, Control
  <2> QED BY <2>3, <2>4
<1>6. CASE \E m \in Messenger, a \in Alert : CleanupPending(m, a)
  BY <1>1, <1>6 DEF CleanupPending, local, poolVars, chat, TypeOK, Control
<1>7. CASE UNCHANGED vars
  BY <1>1, <1>7 DEF vars, local, poolVars, tables, chat, TypeOK, Control
<1> QED BY <1>2, <1>3, <1>4, <1>5, <1>6, <1>7

-----------------------------------------------------------------------------
(* The semaphore.                                                          *)

LEMMA AnalyzingFinite == IsFiniteSet(Analyzing) /\ Cardinality(Analyzing) \in Nat
<1>1. IsFiniteSet(Worker) /\ Analyzing \subseteq Worker
  BY PipelineAssumption DEF Analyzing
<1> QED BY <1>1, FS_Subset, FS_CardinalityType

\* Only the start and the end of an analysis change who is analyzing.
LEMMA AcquireBound ==
    ASSUME PipeInv, LLMBound, NEW w \in Worker, Acquire(w) PROVE LLMBound'
<1> USE PipelineAssumption DEF PipeInv
<1>1. Analyzing' = Analyzing \cup {w} /\ w \notin Analyzing
  BY DEF Acquire, Analyzing, TypeOK
<1>2. Cardinality(Analyzing') = Cardinality(Analyzing) + 1
  BY <1>1, AnalyzingFinite, FS_AddElement
<1> QED BY <1>2, AnalyzingFinite DEF Acquire, LLMBound

LEMMA ReleaseBound ==
    ASSUME PipeInv, LLMBound, NEW w \in Worker, Analyzed(w) \/ AnalysisFails(w)
    PROVE  LLMBound' /\ slots' \in Nat
<1> USE PipelineAssumption DEF PipeInv
<1>1. Analyzing' = Analyzing \ {w} /\ w \in Analyzing
  BY DEF Analyzed, AnalysisFails, Answering, Analyzing, TypeOK
<1>2. Cardinality(Analyzing') = Cardinality(Analyzing) - 1
  BY <1>1, AnalyzingFinite, FS_RemoveElement
<1>3. IsFiniteSet(Analyzing') /\ Cardinality(Analyzing') \in Nat
  BY <1>1, AnalyzingFinite, FS_Subset, FS_CardinalityType
<1> QED BY <1>2, <1>3, AnalyzingFinite DEF Analyzed, AnalysisFails, LLMBound

LEMMA SameBound ==
    ASSUME LLMBound, slots' = slots,
           \A v \in Worker : pc'[v] = "analyze" <=> pc[v] = "analyze"
    PROVE  LLMBound'
<1>1. Analyzing' = Analyzing
  BY DEF Analyzing
<1> QED BY <1>1 DEF LLMBound

LEMMA StepBound ==
    ASSUME PipeInv, LLMBound, [Next]_vars PROVE LLMBound' /\ slots' \in Nat
<1> USE PipelineAssumption DEF PipeInv
<1>1. slots \in Nat
  BY DEF TypeOK
<1>2. ASSUME NEW w \in Worker, Work(w) PROVE LLMBound' /\ slots' \in Nat
  <2>1. CASE Acquire(w)
    <3>1. LLMBound'
      BY <2>1, AcquireBound
    <3>2. slots' \in Nat
      BY <1>1, <2>1 DEF Acquire
    <3> QED BY <3>1, <3>2
  <2>2. CASE Analyzed(w) \/ AnalysisFails(w)
    BY <2>2, ReleaseBound
  <2>3. CASE Begin(w)
    <3>1. pc[w] # "analyze" /\ Entry(data[Head(queue)]) # "analyze"
      BY <2>3, PoolAssumption DEF Begin, Take, Control, Entry
    <3> QED BY <1>1, <2>3, <3>1, SameBound DEF Begin, TypeOK
  <2>4. CASE MarkResolved(w) \/ MarkResolvedFails(w) \/ LookupFails(w) \/ Complete(w)
    <3>1. /\ pc[w] # "analyze" /\ slots' = slots
          /\ pc' = [pc EXCEPT ![w] = "rest"] \/ pc' = [pc EXCEPT ![w] = "notify"]
      BY <2>4 DEF MarkResolved, MarkResolvedFails, LookupFails, Complete, Return
    <3>2. \A v \in Worker : pc'[v] = "analyze" <=> pc[v] = "analyze"
      BY <3>1 DEF TypeOK
    <3> QED BY <1>1, <3>1, <3>2, SameBound
  <2>5. CASE Notify(w) \/ Post(w) \/ PostFails(w) \/ EndPost(w) \/ Save(w) \/ EndSave(w)
    BY <1>1, <2>5, SameBound DEF Notify, Post, PostFails, EndPost, Save, EndSave, TypeOK
  <2>6. CASE Hit(w) \/ Miss(w) \/ AwaitFails(w) \/ Store(w) \/ Deliver(w)
    BY <1>1, <2>6, SameBound DEF Hit, Miss, AwaitFails, Answering, Store, Deliver, TypeOK
  <2> QED BY <1>2, <2>1, <2>2, <2>3, <2>4, <2>5, <2>6 DEF Work
<1>3. CASE Reboot
  <2>1. Analyzing' = {} /\ slots' = 0
    BY <1>3 DEF Reboot, Analyzing
  <2> QED BY <2>1, FS_EmptySet DEF LLMBound
<1>4. CASE \/ \E a \in Alert : Arrival(a)
           \/ \E w \in Worker : Leave(w)
           \/ StopPool
           \/ \E f \in Fingerprint : Expire(f)
           \/ \E m \in Messenger, a \in Alert : CleanupPending(m, a)
           \/ UNCHANGED vars
  <2>1. slots' = slots /\ pc' = pc
    BY <1>4, ZenonT(60) DEF Arrival, Webhook, HandIn, Mention, Leave, StopPool, Expire,
                CleanupPending, vars, local
  <2> QED BY <1>1, <2>1, SameBound
<1> QED BY <1>2, <1>3, <1>4 DEF Next

LEMMA InitBound == Init => LLMBound
<1> SUFFICES ASSUME Init PROVE LLMBound
  OBVIOUS
<1>1. Analyzing = {}
  BY DEF Init, Analyzing
<1> QED BY <1>1, FS_EmptySet, PipelineAssumption DEF Init, LLMBound

-----------------------------------------------------------------------------
LEMMA StepPipeInv == PipeInv /\ LLMBound /\ [Next]_vars => PipeInv' /\ LLMBound'
<1> SUFFICES ASSUME PipeInv, LLMBound, [Next]_vars PROVE PipeInv' /\ LLMBound'
  OBVIOUS
<1>1. PoolInv'
  BY StepIsPoolStep, PoolStepInv DEF PipeInv
<1>2. LLMBound' /\ slots' \in Nat
  BY StepBound
<1>3. TypeOK' /\ Control'
  BY <1>1, <1>2, ArrivalPipeInv, BeginPipeInv, ResolvedPipeInv, PostPipeInv,
     AnswerPipeInv, DeliverPipeInv, OtherPipeInv DEF Next, Work
<1> QED BY <1>1, <1>2, <1>3 DEF PipeInv

\* The types, the pool's invariant, and the control state of the workers.
THEOREM PipelineInvariant == Spec => [](PipeInv /\ LLMBound)
  BY InitPipeInv, InitBound, StepPipeInv, PTL DEF Spec

\* Every variable of the pipeline has its type.
THEOREM PipelineTypeCorrect == Spec => []TypeOK
<1>1. PipeInv => TypeOK
  BY DEF PipeInv
<1> QED BY <1>1, PipelineInvariant, PTL

\* At most MaxLLM analyses run at a time, and no place leaks.
THEOREM PipelineLLMBound == Spec => []LLMBound
  BY PipelineInvariant, PTL

-----------------------------------------------------------------------------
(***************************************************************************)
(* What is said in the chats, and why it is true.  Nothing that a worker   *)
(* relies on can change under it: an alert that is being processed keeps   *)
(* its contents, and a message once posted stays.  So it is enough to say  *)
(* what each alert, row, answer, and each local variable of a worker means *)
(* in terms of those.                                                      *)
(***************************************************************************)
Begun == {"running", "done", "lost"}

\* A thread is under a message that was posted, and a mention that is not a
\* synthetic alert carries the contents of the alert it is about.
AlertTrue(a) ==
    data[a] # None =>
        /\ data[a].thread \in Alert => <<data[a].of, data[a].thread>> \in posted
        /\ InThread(data[a]) /\ ~data[a].synthetic =>
             /\ data[a].thread \in Alert
             /\ Firing(data[a].thread)
             /\ data[data[a].thread].fp = data[a].fp

PostedTrue(m, a) == <<m, a>> \in posted => outcome[a] \in Begun

PendingTrue(m, a) ==
    pending[<<m, a>>] # None =>
        /\ pending[<<m, a>>] = data[a]
        /\ <<m, a>> \in posted
        /\ m \notin NoId
        /\ Firing(a)

RowTrue(f) ==
    /\ cache[f].resolved => cache[f].by # None
    /\ cache[f].by # None =>
         /\ Firing(cache[f].by)
         /\ data[cache[f].by].fp = f
         /\ outcome[cache[f].by] \in Begun

\* The analysis of b may be given to a.
Serves(b, a) ==
    /\ b \in Alert
    /\ Firing(b)
    /\ data[b].fp = data[a].fp
    /\ outcome[b] \in Begun
    /\ data[a].command = "reanalyze" => b = a

\* What a worker's place in Process says about its alert.
PlaceTrue(w) ==
    /\ pc[w] \notin {"rest", "mark", "notify"} => Firing(job[w])
    /\ pc[w] \in {"mark", "notify"} => ~Firing(job[w])
    /\ pc[w] \in {"post", "save"} => ~InThread(data[job[w]])
    /\ \/ pc[w] \in {"lookup", "await", "analyze", "store"}
       \/ pc[w] = "deliver" /\ out[w].what # "hint"
       => ~(InThread(data[job[w]]) /\ data[job[w]].synthetic)
    /\ pc[w] = "lookup" => data[job[w]].command # "reanalyze"
    /\ Manual /\ pc[w] \in {"lookup", "await", "analyze", "store", "deliver"} =>
         InThread(data[job[w]])

\* What its local variables say about the chats.
LocalTrue(w) ==
    /\ pc[w] = "rest" => refs[w] = {}
    /\ \A m \in refs[w] : <<m, job[w]>> \in posted
    /\ pc[w] = "save" =>
         /\ NextIn(todo[w]) \subseteq Anchors(w)
         /\ Manual => todo[w] # {}
         /\ ~Manual => todo[w] \subseteq Anchors(w)
    /\ pc[w] = "deliver" => InThread(data[job[w]]) \/ todo[w] \subseteq refs[w]
    /\ pc[w] \in {"store", "deliver"} /\ out[w].what = "analysis" => Serves(out[w].by, job[w])

AnswerTrue(x) ==
    /\ outcome[x.for] \in Begun
    /\ Firing(x.for)
    /\ x.what = "analysis" => Serves(x.by, x.for)
    /\ Manual => InThread(data[x.for])
    /\ x.thread \in Alert =>
         /\ <<x.m, x.thread>> \in posted
         /\ x.what # "hint" => Firing(x.thread) /\ data[x.thread].fp = data[x.for].fp

\* Whoever still processes the alert of an answer is about to give the same
\* answer to others.
Underway(x, w) ==
    job[w] = x.for =>
        /\ pc[w] = "deliver"
        /\ x.m \notin todo[w]
        /\ out[w].what = x.what /\ out[w].by = x.by

Story ==
    /\ \A a \in Alert : AlertTrue(a)
    /\ \A m \in Messenger, a \in Alert : PostedTrue(m, a) /\ PendingTrue(m, a)
    /\ \A f \in Fingerprint : RowTrue(f)
    /\ \A w \in Worker : PlaceTrue(w) /\ LocalTrue(w)
    /\ \A x \in sent : AnswerTrue(x) /\ \A w \in Worker : Underway(x, w)
    /\ OneAnswer

\* What no step takes back: contents of an alert that was begun, and messages.
Preserved ==
    /\ \A a \in Alert : outcome[a] \in Begun => outcome'[a] \in Begun /\ data'[a] = data[a]
    /\ posted \subseteq posted'

LEMMA InitStory == Init => Story
<1> SUFFICES ASSUME Init PROVE Story
  OBVIOUS
<1>1. \A a \in Alert : AlertTrue(a)
  BY DEF Init, AlertTrue
<1>2. \A m \in Messenger, a \in Alert : PostedTrue(m, a) /\ PendingTrue(m, a)
  BY DEF Init, PostedTrue, PendingTrue
<1>3. \A f \in Fingerprint : RowTrue(f)
  BY DEF Init, RowTrue
<1>4. \A w \in Worker : PlaceTrue(w) /\ LocalTrue(w)
  BY DEF Init, PlaceTrue, LocalTrue
<1> QED BY <1>1, <1>2, <1>3, <1>4 DEF Init, Story, OneAnswer

\* The alert a busy worker has is running.
LEMMA BusyRuns ==
    ASSUME PipeInv, NEW w \in Worker, pc[w] # "rest"
    PROVE  /\ job[w] \in Alert
           /\ outcome[job[w]] = "running" /\ outcome[job[w]] \in Begun
           /\ data[job[w]] \in Data
  BY DEF PipeInv, Control, PoolInv, Running, TypeOK, Begun

\* The contents of an alert change only before it is submitted.
LEMMA DataChanges ==
    ASSUME PipeInv, [Next]_vars, NEW a \in Alert
    PROVE  \/ data'[a] = data[a]
           \/ outcome[a] = "new" /\ data'[a] = None
           \/ /\ outcome[a] = "new" /\ data'[a] # None
              /\ data'[a].thread = TopLevel
           \/ \E m \in Listener, t \in Thread, c \in {"chat", "analyze", "reanalyze"} :
                 /\ outcome[a] = "new"
                 /\ t \in Alert => <<m, t>> \in posted
                 /\ \/ /\ data'[a] = Synthetic(m, t, c)
                       /\ t # TopLevel /\ IsAnalyzeCommand(c) /\ Stored(m, t) # None
                            => "find" \in Mishaps
                    \/ Stored(m, t) # None /\ data'[a] = Recovered(m, t)
<1> USE DEF PipeInv
<1>1. ASSUME NEW b \in Alert, Webhook(b) PROVE \/ data'[a] = data[a]
           \/ /\ outcome[a] = "new" /\ data'[a] # None
              /\ data'[a].thread = TopLevel
  <2>1. outcome[b] = "new"
    BY <1>1 DEF Webhook, Submit
  <2>2. PICK fp \in Fingerprint, env \in Env, status \in {"firing", "resolved"} :
          data' = [data EXCEPT ![b] =
             [fp |-> fp, env |-> env, status |-> status, synthetic |-> FALSE,
              of |-> None, thread |-> TopLevel, command |-> ""]]
    BY <1>1 DEF Webhook
  <2>3. [fp |-> fp, env |-> env, status |-> status, synthetic |-> FALSE,
         of |-> None, thread |-> TopLevel, command |-> ""] \in Data
    BY DEF Data, Thread
  <2>4. CASE a = b
    BY <2>1, <2>2, <2>3, <2>4, DataIsNotNone DEF TypeOK
  <2>5. CASE a # b
    BY <2>2, <2>5 DEF TypeOK
  <2> QED BY <2>4, <2>5
<1>2. ASSUME NEW b \in Alert, NEW m \in Listener, NEW t \in Thread,
             NEW c \in {"chat", "analyze", "reanalyze"}, Mention(b, m, t, c)
      PROVE  \/ data'[a] = data[a]
             \/ /\ outcome[a] = "new"
                /\ t \in Alert => <<m, t>> \in posted
                /\ \/ /\ data'[a] = Synthetic(m, t, c)
                      /\ t # TopLevel /\ IsAnalyzeCommand(c) /\ Stored(m, t) # None
                           => "find" \in Mishaps
                   \/ Stored(m, t) # None /\ data'[a] = Recovered(m, t)
  BY <1>2 DEF Mention, TypeOK
<1>3. CASE \E b \in Alert : HandIn(b)
  BY <1>3 DEF HandIn
<1>4. CASE Reboot
  BY <1>4 DEF Reboot
<1>5. CASE \E w \in Worker : Work(w)
  <2>1. data' = data
    BY <1>5, ZenonT(60) DEF Work, Begin, MarkResolved, MarkResolvedFails, Notify, Post, PostFails, EndPost,
       Save, EndSave, Hit, Miss, LookupFails, Acquire, AwaitFails, Analyzed, AnalysisFails,
       Store, Deliver, Complete, Return
  <2> QED BY <2>1, Zenon
<1>6. CASE \/ \E w \in Worker : Leave(w)
           \/ StopPool
           \/ \E f \in Fingerprint : Expire(f)
           \/ \E m \in Messenger, b \in Alert : CleanupPending(m, b)
           \/ UNCHANGED vars
  BY <1>6 DEF Leave, StopPool, Expire, CleanupPending, vars
<1> QED BY <1>1, <1>2, <1>3, <1>4, <1>5, <1>6 DEF Next, Arrival

\* Messages are posted by a worker about its own alert.
LEMMA PostedChanges ==
    ASSUME [Next]_vars
    PROVE  \/ posted' = posted
           \/ \E w \in Worker : \E m \in NextIn(todo[w]) :
                 /\ Notify(w) \/ Post(w) \/ PostFails(w)
                 /\ pc[w] \in {"notify", "post"}
                 /\ posted' = posted \cup {<<m, job[w]>>}
<1>1. ASSUME NEW w \in Worker, Notify(w) \/ Post(w) \/ PostFails(w)
      PROVE  \/ posted' = posted
             \/ \E m \in NextIn(todo[w]) :
                   pc[w] \in {"notify", "post"} /\ posted' = posted \cup {<<m, job[w]>>}
  BY <1>1 DEF Notify, Post, PostFails
<1>2. ASSUME NEW w \in Worker, Work(w), ~(Notify(w) \/ Post(w) \/ PostFails(w))
      PROVE  posted' = posted
  BY <1>2 DEF Work, Begin, MarkResolved, MarkResolvedFails, EndPost, Save, EndSave, Hit, Miss,
     LookupFails, Acquire, AwaitFails, Analyzed, AnalysisFails, Store, Deliver, Complete, chat
<1>3. CASE \E a \in Alert : Arrival(a)
  BY <1>3 DEF Arrival, Webhook, HandIn, Mention, chat
<1>4. CASE \/ \E w \in Worker : Leave(w)
           \/ StopPool \/ Reboot
           \/ \E f \in Fingerprint : Expire(f)
           \/ \E m \in Messenger, b \in Alert : CleanupPending(m, b)
           \/ UNCHANGED vars
  BY <1>4 DEF Leave, StopPool, Reboot, Expire, CleanupPending, vars, chat
<1> QED BY <1>1, <1>2, <1>3, <1>4 DEF Next

LEMMA StepPreserved == ASSUME PipeInv, [Next]_vars PROVE Preserved
<1>1. ASSUME NEW a \in Alert, outcome[a] \in Begun
      PROVE  outcome'[a] \in Begun /\ data'[a] = data[a]
  <2>1. outcome'[a] # outcome[a] => outcome'[a] \in Successors[outcome[a]]
    BY StepIsPoolStep, StepSuccessors DEF PipeInv
  <2>2. outcome'[a] \in Begun
    BY <1>1, <2>1 DEF Successors, Begun, Progress
  <2>3. data'[a] = data[a]
    BY <1>1, DataChanges DEF Begun
  <2> QED BY <2>2, <2>3
<1>2. posted \subseteq posted'
  BY PostedChanges
<1> QED BY <1>1, <1>2 DEF Preserved

-----------------------------------------------------------------------------
\* What was said of begun alerts stays true.
LEMMA ServesStays ==
    ASSUME Preserved, NEW a \in Alert, outcome[a] \in Begun, NEW b, Serves(b, a)
    PROVE  Serves(b, a)'
  BY DEF Preserved, Serves, Firing

LEMMA FiringStays ==
    ASSUME Preserved, NEW a \in Alert, outcome[a] \in Begun, Firing(a)
    PROVE  Firing(a)'
  BY DEF Preserved, Firing

LEMMA RecoveredKeeps ==
    ASSUME NEW d \in Data, NEW m, NEW t
    PROVE  LET r == [d EXCEPT !.of = m, !.thread = t, !.command = "reanalyze"]
           IN  /\ r.of = m /\ r.thread = t /\ r.command = "reanalyze"
               /\ r.fp = d.fp /\ r.env = d.env /\ r.synthetic = d.synthetic
  BY DEF Data

LEMMA StepAlertTrue ==
    ASSUME PipeInv, Story, [Next]_vars, Preserved, NEW a \in Alert PROVE AlertTrue(a)'
<1> USE PipelineAssumption
<1>1. AlertTrue(a)
  BY DEF Story
<1>2. ASSUME NEW m \in Messenger, NEW t \in Alert, <<m, t>> \in posted
      PROVE  outcome[t] \in Begun /\ <<m, t>> \in posted'
  BY <1>2 DEF Story, PostedTrue, Preserved
<1>3. CASE data'[a] = data[a]
  <2> SUFFICES ASSUME data[a] # None PROVE AlertTrue(a)'
    BY <1>3 DEF AlertTrue
  <2>1. data[a] \in Data
    BY DEF PipeInv, TypeOK
  <2>2. CASE data[a].thread \in Alert
    <3>1. <<data[a].of, data[a].thread>> \in posted /\ data[a].of \in Messenger
      BY <1>1, <2>2 DEF AlertTrue, PipeInv, TypeOK
    <3>2. outcome[data[a].thread] \in Begun /\ <<data[a].of, data[a].thread>> \in posted'
      BY <1>2, <2>2, <3>1
    <3>3. Firing(data[a].thread) => Firing(data[a].thread)'
      BY <1>3, <2>2, <3>2 DEF Preserved, Firing
    <3>4. data'[data[a].thread] = data[data[a].thread]
      BY <2>2, <3>2 DEF Preserved
    <3> QED BY <1>1, <1>3, <2>2, <3>2, <3>3, <3>4 DEF AlertTrue, Firing, InThread
  <2>3. CASE data[a].thread \notin Alert
    BY <1>1, <1>3, <2>3 DEF AlertTrue, InThread
  <2> QED BY <2>2, <2>3
<1>4. CASE data'[a] = None
  BY <1>4 DEF AlertTrue
<1>5. CASE data'[a].thread = TopLevel
  BY <1>5 DEF AlertTrue, InThread
<1>6. ASSUME NEW m \in Listener, NEW t \in Thread, NEW c \in {"chat", "analyze", "reanalyze"},
             t \in Alert => <<m, t>> \in posted,
             data'[a] = Synthetic(m, t, c)
      PROVE  AlertTrue(a)'
  BY <1>2, <1>6 DEF AlertTrue, Synthetic
<1>7. ASSUME NEW m \in Listener, NEW t \in Thread,
             t \in Alert => <<m, t>> \in posted,
             Stored(m, t) # None, data'[a] = Recovered(m, t)
      PROVE  AlertTrue(a)'
  <2>1. t \in Alert /\ Stored(m, t) = pending[<<m, t>>]
    BY <1>7 DEF Stored
  <2>2. pending[<<m, t>>] # None /\ pending[<<m, t>>] = data[t] /\ Firing(t)
    BY <1>7, <2>1 DEF Story, PendingTrue
  <2>3. outcome[t] \in Begun /\ <<m, t>> \in posted' /\ data'[t] = data[t] /\ Firing(t)'
    BY <1>2, <1>7, <2>1, <2>2, FiringStays DEF Preserved
  <2>4. data[t] \in Data
    BY <2>1, <2>2 DEF Firing, PipeInv, TypeOK
  <2>5. data'[a].of = m /\ data'[a].thread = t /\ data'[a].fp = data[t].fp
    BY <1>7, <2>1, <2>2, <2>4, RecoveredKeeps DEF Recovered
  <2> QED BY <2>1, <2>3, <2>5 DEF AlertTrue
<1> QED BY <1>3, <1>4, <1>5, <1>6, <1>7, DataChanges

LEMMA StepPostedTrue ==
    ASSUME PipeInv, Story, [Next]_vars, Preserved, NEW m \in Messenger, NEW a \in Alert
    PROVE  PostedTrue(m, a)'
<1>1. CASE <<m, a>> \in posted
  BY <1>1 DEF Story, PostedTrue, Preserved
<1>2. CASE <<m, a>> \notin posted /\ <<m, a>> \in posted'
  <2>1. PICK w \in Worker : pc[w] # "rest" /\ a = job[w]
    BY <1>2, PostedChanges
  <2> QED BY <2>1, BusyRuns DEF PostedTrue, Preserved
<1> QED BY <1>1, <1>2 DEF PostedTrue

\* Rows of pending_alerts come from Save and go with the janitor.
LEMMA PendingChanges ==
    ASSUME PipeInv, [Next]_vars, NEW m \in Messenger, NEW a \in Alert
    PROVE  \/ pending'[<<m, a>>] = pending[<<m, a>>]
           \/ Aging /\ pending'[<<m, a>>] = None
           \/ \E w \in Worker :
                 /\ pc[w] = "save" /\ a = job[w] /\ m \in NextIn(todo[w])
                 /\ pending'[<<m, a>>] = data[a]
<1> USE DEF PipeInv
<1>1. ASSUME NEW w \in Worker, Save(w)
      PROVE  \/ pending'[<<m, a>>] = pending[<<m, a>>]
             \/ /\ pc[w] = "save" /\ a = job[w] /\ m \in NextIn(todo[w])
                /\ pending'[<<m, a>>] = data[a]
  BY <1>1 DEF Save, TypeOK
<1>2. ASSUME NEW w \in Worker, Work(w), ~Save(w)
      PROVE  pending' = pending
  BY <1>2 DEF Work, Begin, MarkResolved, MarkResolvedFails, Notify, Post, PostFails, EndPost,
     EndSave, Hit, Miss, LookupFails, Acquire, AwaitFails, Analyzed, AnalysisFails, Store,
     Deliver, Complete, tables
<1>3. CASE \E b \in Alert : Arrival(b)
  BY <1>3 DEF Arrival, Webhook, HandIn, Mention, tables
<1>4. CASE \E n \in Messenger, b \in Alert : CleanupPending(n, b)
  BY <1>4 DEF CleanupPending, TypeOK
<1>5. CASE \/ \E w \in Worker : Leave(w)
           \/ StopPool \/ Reboot
           \/ \E f \in Fingerprint : Expire(f)
           \/ UNCHANGED vars
  BY <1>5 DEF Leave, StopPool, Reboot, Expire, vars, tables
<1> QED BY <1>1, <1>2, <1>3, <1>4, <1>5 DEF Next

LEMMA StepPendingTrue ==
    ASSUME PipeInv, Story, [Next]_vars, Preserved, NEW m \in Messenger, NEW a \in Alert
    PROVE  PendingTrue(m, a)'
<1>1. ASSUME <<m, a>> \in posted, Firing(a), m \notin NoId, pending'[<<m, a>>] = data[a]
      PROVE  PendingTrue(m, a)'
  <2>1. outcome[a] \in Begun
    BY <1>1 DEF Story, PostedTrue
  <2>2. data'[a] = data[a] /\ <<m, a>> \in posted' /\ Firing(a)'
    BY <1>1, <2>1, FiringStays DEF Preserved
  <2> QED BY <1>1, <2>2 DEF PendingTrue
<1>2. CASE pending'[<<m, a>>] = pending[<<m, a>>] /\ pending[<<m, a>>] # None
  BY <1>1, <1>2 DEF Story, PendingTrue
<1>3. CASE pending'[<<m, a>>] = None
  BY <1>3 DEF PendingTrue
<1>4. ASSUME NEW w \in Worker, pc[w] = "save", a = job[w], m \in NextIn(todo[w]),
             pending'[<<m, a>>] = data[a]
      PROVE  PendingTrue(m, a)'
  <2>1. Firing(a)
    BY <1>4 DEF Story, PlaceTrue
  <2>2. m \in refs[w] /\ m \notin NoId
    BY <1>4 DEF Story, LocalTrue, Anchors
  <2>3. <<m, a>> \in posted
    BY <1>4, <2>2 DEF Story, LocalTrue
  <2> QED BY <1>1, <1>4, <2>1, <2>2, <2>3
<1> QED BY <1>2, <1>3, <1>4, PendingChanges

\* A row of alerts_cache is resolved, replaced by a worker's own analysis, or
\* expires.
LEMMA CacheChanges ==
    ASSUME PipeInv, [Next]_vars, NEW f \in Fingerprint
    PROVE  \/ /\ cache'[f].by = cache[f].by
              /\ \/ cache'[f].resolved = cache[f].resolved
                 \/ cache'[f].resolved = (cache[f].by # None)
           \/ \E w \in Worker :
                 /\ pc[w] = "store" /\ data[job[w]].fp = f
                 /\ cache'[f].by = job[w] /\ cache'[f].resolved = cache[f].resolved
<1> USE DEF PipeInv
<1>0. cache[f] \in Row
  BY DEF TypeOK
<1>1. ASSUME NEW w \in Worker, MarkResolved(w)
      PROVE  /\ cache'[f].by = cache[f].by
             /\ \/ cache'[f].resolved = cache[f].resolved
                \/ cache'[f].resolved = (cache[f].by # None)
  <2>1. data[job[w]].fp \in Fingerprint /\ cache[data[job[w]].fp] \in Row
    BY <1>1, BusyWorker DEF MarkResolved
  <2> QED BY <1>0, <1>1, <2>1 DEF MarkResolved, TypeOK, Row
<1>2. ASSUME NEW w \in Worker, Store(w)
      PROVE  \/ cache'[f] = cache[f]
             \/ /\ pc[w] = "store" /\ data[job[w]].fp = f
                /\ cache'[f].by = job[w] /\ cache'[f].resolved = cache[f].resolved
  <2>1. data[job[w]].fp \in Fingerprint
    BY <1>2, BusyWorker DEF Store
  <2>2. cache' = cache \/ cache' = [cache EXCEPT ![data[job[w]].fp] = Upserted(@, job[w])]
    BY <1>2 DEF Store
  <2>3. CASE cache' = [cache EXCEPT ![data[job[w]].fp] = Upserted(@, job[w])] /\ f = data[job[w]].fp
    <3>1. cache'[f] = Upserted(cache[f], job[w])
      BY <2>1, <2>3 DEF TypeOK
    <3> QED BY <1>0, <1>2, <2>3, <3>1 DEF Store, Upserted, Row
  <2>4. CASE cache' = [cache EXCEPT ![data[job[w]].fp] = Upserted(@, job[w])] /\ f # data[job[w]].fp
    BY <2>1, <2>4 DEF TypeOK
  <2> QED BY <2>2, <2>3, <2>4
<1>3. ASSUME NEW w \in Worker, Work(w), ~MarkResolved(w), ~Store(w)
      PROVE  cache' = cache
  BY <1>3 DEF Work, Begin, MarkResolvedFails, Notify, Post, PostFails, EndPost, Save,
     EndSave, Hit, Miss, LookupFails, Acquire, AwaitFails, Analyzed, AnalysisFails,
     Deliver, Complete, tables
<1>4. CASE \E b \in Alert : Arrival(b)
  BY <1>4, ZenonT(60) DEF Arrival, Webhook, HandIn, Mention, tables
<1>5. CASE \E g \in Fingerprint : Expire(g)
  BY <1>0, <1>5 DEF Expire, TypeOK, Row
<1>6. CASE \/ \E w \in Worker : Leave(w)
           \/ StopPool \/ Reboot
           \/ \E n \in Messenger, b \in Alert : CleanupPending(n, b)
           \/ UNCHANGED vars
  BY <1>6 DEF Leave, StopPool, Reboot, CleanupPending, vars, tables
<1> QED BY <1>1, <1>2, <1>3, <1>4, <1>5, <1>6 DEF Next

LEMMA StepRowTrue ==
    ASSUME PipeInv, Story, [Next]_vars, Preserved, NEW f \in Fingerprint PROVE RowTrue(f)'
<1> USE PipelineAssumption
<1>1. RowTrue(f) /\ cache[f].by \in Alert \cup {None}
  BY DEF Story, PipeInv, TypeOK, Row
<1>2. CASE cache'[f].by = cache[f].by
  <2>1. cache'[f].resolved => cache'[f].by # None
    BY <1>1, <1>2, CacheChanges DEF RowTrue
  <2>2. cache[f].by # None => /\ Firing(cache[f].by)'
                              /\ data'[cache[f].by].fp = f
                              /\ outcome'[cache[f].by] \in Begun
    BY <1>1, <1>2 DEF RowTrue, Preserved, Firing
  <2> QED BY <1>2, <2>1, <2>2 DEF RowTrue, Firing
<1>3. ASSUME NEW w \in Worker, pc[w] = "store", data[job[w]].fp = f, cache'[f].by = job[w]
      PROVE  RowTrue(f)'
  <2>1. job[w] \in Alert /\ outcome[job[w]] \in Begun
    BY <1>3, BusyRuns
  <2>2. Firing(job[w])
    BY <1>3 DEF Story, PlaceTrue
  <2>3. data'[job[w]] = data[job[w]] /\ outcome'[job[w]] \in Begun
    BY <2>1 DEF Preserved
  <2> QED BY <1>3, <2>1, <2>2, <2>3 DEF RowTrue, Firing
<1> QED BY <1>2, <1>3, CacheChanges

-----------------------------------------------------------------------------
\* A step of one worker leaves the locals of the others alone.
Same(v) ==
    /\ pc'[v] = pc[v] /\ job'[v] = job[v]
    /\ todo'[v] = todo[v] /\ refs'[v] = refs[v] /\ out'[v] = out[v]

LEMMA OthersSame ==
    ASSUME PipeInv, NEW w \in Worker, Work(w), NEW v \in Worker, v # w PROVE Same(v)
<1> USE DEF PipeInv
<1>1. CASE Begin(w)
  BY <1>1 DEF Begin, Take, TypeOK, PoolTypeOK, Same
<1>2. CASE MarkResolved(w) \/ MarkResolvedFails(w) \/ LookupFails(w) \/ Complete(w)
  BY <1>2 DEF MarkResolved, MarkResolvedFails, LookupFails, Complete, Return, Finish, poolVars,
     TypeOK, PoolTypeOK, Same
<1>3. CASE Notify(w) \/ Post(w) \/ PostFails(w) \/ EndPost(w) \/ Save(w) \/ EndSave(w)
  BY <1>3 DEF Notify, Post, PostFails, EndPost, Save, EndSave, poolVars, TypeOK, Same
<1>4. CASE Hit(w) \/ Miss(w) \/ Acquire(w) \/ AwaitFails(w) \/ Analyzed(w) \/ AnalysisFails(w)
           \/ Store(w) \/ Deliver(w)
  BY <1>4 DEF Hit, Miss, Acquire, AwaitFails, Analyzed, AnalysisFails, Answering, Store, Deliver,
     poolVars, TypeOK, Same
<1> QED BY <1>1, <1>2, <1>3, <1>4 DEF Work

LEMMA RestTrue ==
    ASSUME NEW w \in Worker, pc'[w] = "rest", refs'[w] = {}
    PROVE  PlaceTrue(w)' /\ LocalTrue(w)'
  BY DEF PlaceTrue, LocalTrue

\* What is known of a worker's alert while it is busy.
LEMMA BusyKeeps ==
    ASSUME PipeInv, Story, Preserved, NEW w \in Worker, pc[w] # "rest", job'[w] = job[w]
    PROVE  /\ job[w] \in Alert
           /\ data'[job'[w]] = data[job[w]]
           /\ data[job[w]] \in Data
           /\ Firing(job[w]) => Firing(job[w])'
           /\ \A b : Serves(b, job[w]) => Serves(b, job[w])'
           /\ \A m \in refs[w] : <<m, job'[w]>> \in posted'
<1>1. job[w] \in Alert /\ outcome[job[w]] \in Begun /\ data[job[w]] \in Data
  BY BusyRuns
<1>2. data'[job'[w]] = data[job[w]]
  BY <1>1 DEF Preserved
<1>3. Firing(job[w]) => Firing(job[w])'
  BY <1>2 DEF Firing
<1>4. \A b : Serves(b, job[w]) => Serves(b, job[w])'
  BY <1>1, <1>2 DEF Serves, Preserved, Firing
<1>5. \A m \in refs[w] : <<m, job'[w]>> \in posted'
  BY DEF Story, LocalTrue, Preserved
<1> QED BY <1>1, <1>2, <1>3, <1>4, <1>5

LEMMA SameTrue ==
    ASSUME PipeInv, Story, Preserved, NEW v \in Worker, Same(v)
    PROVE  PlaceTrue(v)' /\ LocalTrue(v)'
<1>1. PlaceTrue(v) /\ LocalTrue(v)
  BY DEF Story
<1>2. CASE pc[v] = "rest"
  BY <1>1, <1>2, RestTrue DEF Same, LocalTrue
<1>3. CASE pc[v] # "rest"
  <2>1. /\ data'[job'[v]] = data[job[v]]
        /\ Firing(job[v]) => Firing(job[v])'
        /\ Serves(out[v].by, job[v]) => Serves(out[v].by, job[v])'
        /\ \A m \in refs[v] : <<m, job'[v]>> \in posted'
    BY <1>3, BusyKeeps DEF Same
  <2>2. PlaceTrue(v)'
    BY <1>1, <2>1 DEF Same, PlaceTrue, Firing, InThread
  <2>3. LocalTrue(v)'
    BY <1>1, <2>1 DEF Same, LocalTrue, Serves, Firing, InThread, Anchors, NextIn
  <2> QED BY <2>2, <2>3
<1> QED BY <1>2, <1>3

\* One lemma for each part of Process.
LEMMA EntryMeans ==
    ASSUME NEW d \in Data
    PROVE  /\ Entry(d) \in {"mark", "post", "deliver", "await", "lookup"}
           /\ Entry(d) = "mark" <=> d.status # "firing"
           /\ Entry(d) = "post" => ~InThread(d)
           /\ Entry(d) \in {"deliver", "await", "lookup"} => InThread(d)
           /\ Entry(d) \in {"await", "lookup"} => ~d.synthetic
           /\ Entry(d) = "lookup" => d.command # "reanalyze"
<1>1. d.status \in {"firing", "resolved"} /\ d.synthetic \in BOOLEAN
  BY DEF Data
<1>2. CASE d.status = "resolved"
  <2>1. Entry(d) = "mark"
    BY <1>2 DEF Entry
  <2> QED BY <1>2, <2>1
<1>3. CASE d.status = "firing" /\ ~InThread(d)
  <2>1. Entry(d) = "post"
    BY <1>3 DEF Entry
  <2> QED BY <1>3, <2>1
<1>4. CASE d.status = "firing" /\ InThread(d) /\ d.synthetic
  <2>1. Entry(d) = "deliver"
    BY <1>4 DEF Entry
  <2> QED BY <1>4, <2>1
<1>5. CASE d.status = "firing" /\ InThread(d) /\ ~d.synthetic
  <2>1. Entry(d) = IF d.command = "reanalyze" THEN "await" ELSE "lookup"
    BY <1>5 DEF Entry
  <2> QED BY <1>5, <2>1
<1> QED BY <1>1, <1>2, <1>3, <1>4, <1>5

LEMMA BeginStory ==
    ASSUME PipeInv, Story, Preserved, NEW w \in Worker, Begin(w)
    PROVE  PlaceTrue(w)' /\ LocalTrue(w)'
<1> USE DEF PipeInv
<1> DEFINE h == Head(queue)
<1>1. h \in Alert /\ job[w] = Idle
  BY DEF Begin, Take, TypeOK, PoolTypeOK
<1>2. pc[w] = "rest" /\ refs[w] = {}
  BY <1>1, PoolAssumption DEF Control, Story, LocalTrue
<1>3. outcome[h] = "queued"
  <2>1. h = queue[1] /\ 1 \in 1..Len(queue)
    BY DEF Begin, Take, TypeOK, PoolTypeOK
  <2> QED BY <1>1, <2>1 DEF PoolInv, Queued
<1>4. data[h] \in Data /\ data' = data
  BY <1>1, <1>3 DEF Control, TypeOK, Begin
<1>5. /\ pc'[w] = Entry(data[h]) /\ job'[w] = h /\ refs'[w] = {}
      /\ Entry(data[h]) = "deliver" => out'[w] = [what |-> "hint", by |-> None]
  BY <1>2 DEF Begin, Take, TypeOK, PoolTypeOK
<1> HIDE DEF h
<1>6. /\ Entry(data[h]) = "mark" <=> data[h].status # "firing"
      /\ Entry(data[h]) = "post" => ~InThread(data[h])
      /\ Entry(data[h]) \in {"deliver", "await", "lookup"} => InThread(data[h])
      /\ Entry(data[h]) \in {"await", "lookup"} => ~data[h].synthetic
      /\ Entry(data[h]) = "lookup" => data[h].command # "reanalyze"
      /\ Entry(data[h]) \in {"mark", "post", "deliver", "await", "lookup"}
  BY <1>4, EntryMeans
<1>7. data'[job'[w]] = data[h] /\ data[h] # None
  BY <1>4, <1>5, DataIsNotNone
<1>8. PlaceTrue(w)'
  BY <1>5, <1>6, <1>7 DEF PlaceTrue, Firing, InThread
<1>9. LocalTrue(w)'
  BY <1>5, <1>6, <1>7 DEF LocalTrue, InThread
<1> QED BY <1>8, <1>9

LEMMA ReturnStory ==
    ASSUME PipeInv, NEW w \in Worker, Return(w) PROVE PlaceTrue(w)' /\ LocalTrue(w)'
  BY RestTrue DEF Return, PipeInv, TypeOK

LEMMA ResolvedStory ==
    ASSUME PipeInv, Story, Preserved, NEW w \in Worker,
           MarkResolved(w) \/ MarkResolvedFails(w) \/ Notify(w)
    PROVE  PlaceTrue(w)' /\ LocalTrue(w)'
<1>1. CASE Return(w)
  BY <1>1, ReturnStory
<1>2. CASE ~Return(w)
  <2>1. pc'[w] = "notify" /\ refs'[w] = refs[w] /\ job'[w] = job[w] /\ pc[w] # "rest"
    BY <1>2 DEF MarkResolved, MarkResolvedFails, Notify, poolVars, PipeInv, TypeOK
  <2>2. \A m \in refs[w] : <<m, job'[w]>> \in posted'
    BY <2>1, BusyKeeps
  <2>3. pc[w] \in {"mark", "notify"}
    BY DEF MarkResolved, MarkResolvedFails, Notify
  <2>4. ~Firing(job[w]) /\ data'[job'[w]] = data[job[w]]
    BY <2>1, <2>3, BusyKeeps DEF Story, PlaceTrue
  <2>5. PlaceTrue(w)'
    BY <2>1, <2>4 DEF PlaceTrue, Firing
  <2> QED BY <2>1, <2>2, <2>5 DEF LocalTrue
<1> QED BY <1>1, <1>2

\* The first in the configured order is one.
LEMMA OnlyNext ==
    ASSUME NEW S \in SUBSET Messenger, NEW m \in NextIn(S) PROVE NextIn(S) = {m}
<1>1. ASSUME NEW n \in NextIn(S) PROVE n = m
  <2>1. m \in Nat /\ n \in Nat /\ m <= n /\ n <= m
    BY PipelineAssumption DEF NextIn
  <2> QED BY <2>1
<1> QED BY <1>1

LEMMA PostStory ==
    ASSUME PipeInv, Story, Preserved, NEW w \in Worker, Post(w) \/ PostFails(w)
    PROVE  PlaceTrue(w)' /\ LocalTrue(w)'
<1> USE DEF PipeInv
<1>1. pc[w] = "post" /\ job'[w] = job[w] /\ todo[w] \in SUBSET Messenger
  BY DEF Post, PostFails, poolVars, TypeOK
<1>2. /\ data'[job'[w]] = data[job[w]] /\ Firing(job[w])' /\ ~InThread(data[job[w]])
      /\ \A m \in refs[w] : <<m, job'[w]>> \in posted'
  BY <1>1, BusyKeeps DEF Story, PlaceTrue
<1>3. ASSUME pc'[w] \in {"post", "save"} PROVE PlaceTrue(w)'
  BY <1>2, <1>3 DEF PlaceTrue, InThread
<1>4. CASE PostFails(w)
  <2>1. pc'[w] = "post" /\ refs'[w] = refs[w]
    BY <1>1, <1>4 DEF PostFails
  <2> QED BY <1>2, <1>3, <2>1 DEF LocalTrue
<1>5. CASE Post(w)
  <2>1. PICK m \in NextIn(todo[w]) :
          /\ posted' = posted \cup {<<m, job[w]>>}
          /\ refs' = [refs EXCEPT ![w] = @ \cup {m}]
          /\ \/ pc'[w] = "save" /\ todo'[w] = todo[w] /\ m \notin NoId /\ Manual
             \/ pc'[w] = "post"
    BY <1>1, <1>5 DEF Post, TypeOK
  <2>2. refs'[w] = refs[w] \cup {m}
    BY <2>1 DEF TypeOK
  <2>3. \A n \in refs'[w] : <<n, job'[w]>> \in posted'
    BY <1>1, <1>2, <2>1, <2>2
  <2>4. CASE pc'[w] = "post"
    BY <1>3, <2>3, <2>4 DEF LocalTrue
  <2>5. CASE pc'[w] = "save" /\ todo'[w] = todo[w] /\ m \notin NoId /\ Manual
    <3>1. NextIn(todo[w]) = {m} /\ m \in todo[w]
      BY <1>1, <2>1, OnlyNext DEF NextIn
    <3>2. NextIn(todo'[w]) \subseteq refs'[w] \ NoId /\ todo'[w] # {}
      BY <2>2, <2>5, <3>1
    <3> QED BY <1>3, <2>3, <2>5, <3>2 DEF LocalTrue, Anchors, NextIn, Manual
  <2> QED BY <2>1, <2>4, <2>5
<1> QED BY <1>4, <1>5

LEMMA SaveStory ==
    ASSUME PipeInv, Story, Preserved, NEW w \in Worker, EndPost(w) \/ Save(w) \/ EndSave(w)
    PROVE  PlaceTrue(w)' /\ LocalTrue(w)'
<1> USE DEF PipeInv
<1>1. /\ pc[w] \in {"post", "save"} /\ job'[w] = job[w] /\ todo[w] \in SUBSET Messenger
      /\ refs'[w] = refs[w]
  BY DEF EndPost, Save, EndSave, poolVars, TypeOK
<1>2. /\ data'[job'[w]] = data[job[w]] /\ Firing(job[w])' /\ ~InThread(data[job[w]])
      /\ \A m \in refs'[w] : <<m, job'[w]>> \in posted'
  BY <1>1, BusyKeeps DEF Story, PlaceTrue
<1>3. ASSUME pc'[w] \in {"post", "save"} PROVE PlaceTrue(w)'
  BY <1>2, <1>3 DEF PlaceTrue, InThread
<1>4. CASE EndPost(w)
  <2>1. pc'[w] = "save" /\ todo'[w] = Anchors(w) /\ ~Manual
    BY <1>4 DEF EndPost, TypeOK
  <2> QED BY <1>1, <1>2, <1>3, <2>1 DEF LocalTrue, Anchors, NextIn, Manual
<1>5. CASE Save(w)
  <2>1. PICK m \in NextIn(todo[w]) : todo' = [todo EXCEPT ![w] = @ \ {m}]
    BY <1>5 DEF Save
  <2>2. /\ pc[w] = "save" /\ pc'[w] = IF Manual THEN "post" ELSE "save"
        /\ todo'[w] = todo[w] \ {m}
    BY <1>5, <2>1 DEF Save, TypeOK
  <2>3. ~Manual => todo'[w] \subseteq refs'[w] \ NoId
    BY <1>1, <2>2 DEF Story, LocalTrue, Anchors
  <2> QED BY <1>2, <1>3, <2>2, <2>3 DEF LocalTrue, Anchors, NextIn, Manual
<1>6. CASE EndSave(w)
  <2>1. /\ pc[w] = "save" /\ todo[w] = {}
        /\ pc'[w] = IF data[job[w]].command = "reanalyze" THEN "await" ELSE "lookup"
    BY <1>6 DEF EndSave, TypeOK
  <2>2. ~Manual
    BY <2>1 DEF Story, LocalTrue
  <2>3. PlaceTrue(w)'
    BY <1>2, <2>1, <2>2 DEF PlaceTrue, InThread, Manual
  <2>4. LocalTrue(w)'
    BY <1>2, <2>1 DEF LocalTrue
  <2> QED BY <2>3, <2>4
<1> QED BY <1>4, <1>5, <1>6

LEMMA HitStory ==
    ASSUME PipeInv, Story, Preserved, NEW w \in Worker, Hit(w)
    PROVE  PlaceTrue(w)' /\ LocalTrue(w)'
<1> USE DEF PipeInv
<1> DEFINE b == cache[data[job[w]].fp].by
<1>1. pc[w] = "lookup" /\ job'[w] = job[w] /\ b # None
  BY DEF Hit, poolVars
<1>2. /\ data'[job'[w]] = data[job[w]] /\ Firing(job[w])'
      /\ data[job[w]].fp \in Fingerprint /\ data[job[w]].command # "reanalyze"
      /\ ~(InThread(data[job[w]]) /\ data[job[w]].synthetic)
      /\ Manual => InThread(data[job[w]])
      /\ \A m \in refs[w] : <<m, job'[w]>> \in posted'
      /\ job[w] \in Alert
  BY <1>1, BusyKeeps, BusyWorker DEF Story, PlaceTrue
<1>3. Serves(b, job[w])
  <2>1. cache[data[job[w]].fp] \in Row
    BY <1>2 DEF TypeOK
  <2>2. RowTrue(data[job[w]].fp)
    BY <1>2 DEF Story
  <2> QED BY <1>1, <1>2, <2>1, <2>2 DEF RowTrue, Serves, Row
<1>4. Serves(b, job[w])'
  BY <1>1, <1>3, BusyKeeps DEF Hit, tables
<1>5. /\ pc'[w] = "deliver" /\ out'[w] = [what |-> "analysis", by |-> b]
      /\ todo'[w] = Audience(w) /\ refs'[w] = refs[w] /\ b' = b
  BY <1>1 DEF Hit, Answering, TypeOK, poolVars, tables
<1> HIDE DEF b
<1>6. PlaceTrue(w)'
  BY <1>2, <1>5 DEF PlaceTrue, InThread, Manual
<1>7. LocalTrue(w)'
  BY <1>2, <1>4, <1>5 DEF LocalTrue, Audience, InThread, Serves
<1> QED BY <1>6, <1>7

LEMMA AnalysisStory ==
    ASSUME PipeInv, Story, Preserved, NEW w \in Worker,
           Miss(w) \/ Acquire(w) \/ AwaitFails(w) \/ Analyzed(w) \/ AnalysisFails(w)
    PROVE  PlaceTrue(w)' /\ LocalTrue(w)'
<1> USE DEF PipeInv
<1>1. pc[w] \in {"lookup", "await", "analyze"} /\ job'[w] = job[w] /\ refs'[w] = refs[w]
  BY DEF Miss, Acquire, AwaitFails, Analyzed, AnalysisFails, poolVars
<1>2. /\ data'[job'[w]] = data[job[w]] /\ Firing(job[w])'
      /\ ~(InThread(data[job[w]]) /\ data[job[w]].synthetic)
      /\ Manual => InThread(data[job[w]])
      /\ \A m \in refs'[w] : <<m, job'[w]>> \in posted'
      /\ job[w] \in Alert
  BY <1>1, BusyKeeps DEF Story, PlaceTrue
<1>3. ASSUME pc'[w] \in {"await", "analyze", "store", "deliver"} PROVE PlaceTrue(w)'
  BY <1>2, <1>3 DEF PlaceTrue, InThread, Manual
<1>4. CASE Miss(w) \/ Acquire(w)
  <2>1. pc'[w] \in {"await", "analyze"}
    BY <1>4 DEF Miss, Acquire, TypeOK
  <2> QED BY <1>2, <1>3, <2>1 DEF LocalTrue
<1>5. CASE AwaitFails(w) \/ AnalysisFails(w)
  <2>1. pc'[w] = "deliver" /\ out'[w] = ErrorNotice /\ todo'[w] = Audience(w)
    BY <1>5 DEF AwaitFails, AnalysisFails, Answering, TypeOK
  <2> QED BY <1>1, <1>2, <1>3, <2>1 DEF LocalTrue, Audience, InThread, ErrorNotice
<1>6. CASE Analyzed(w)
  <2>1. pc'[w] = "store" /\ out'[w] = [what |-> "analysis", by |-> job[w]]
    BY <1>6 DEF Analyzed, TypeOK
  <2>2. Serves(job[w], job[w])
    BY <1>1, BusyRuns DEF Serves, Story, PlaceTrue
  <2>3. Serves(job[w], job[w])'
    BY <1>1, <2>2, BusyKeeps
  <2>4. out'[w].by = job'[w]
    BY <1>1, <2>1
  <2> QED BY <1>2, <1>3, <2>1, <2>3, <2>4 DEF LocalTrue, Serves
<1> QED BY <1>4, <1>5, <1>6

LEMMA StoreStory ==
    ASSUME PipeInv, Story, Preserved, NEW w \in Worker, Store(w)
    PROVE  PlaceTrue(w)' /\ LocalTrue(w)'
<1> USE DEF PipeInv
<1>1. /\ pc[w] = "store" /\ job'[w] = job[w] /\ refs'[w] = refs[w] /\ out'[w] = out[w]
      /\ pc'[w] = "deliver" /\ todo'[w] = Audience(w)
  BY DEF Store, poolVars, TypeOK
<1>2. /\ data'[job'[w]] = data[job[w]] /\ Firing(job[w])'
      /\ ~(InThread(data[job[w]]) /\ data[job[w]].synthetic)
      /\ Manual => InThread(data[job[w]])
      /\ \A m \in refs'[w] : <<m, job'[w]>> \in posted'
  BY <1>1, BusyKeeps DEF Story, PlaceTrue
<1>3. out[w].what = "analysis" => Serves(out[w].by, job[w])
  BY <1>1 DEF Story, LocalTrue
<1>4. out[w].what = "analysis" => Serves(out[w].by, job[w])'
  BY <1>1, <1>3, BusyKeeps
<1>5. PlaceTrue(w)'
  BY <1>1, <1>2 DEF PlaceTrue, InThread, Manual
<1>6. LocalTrue(w)'
  BY <1>1, <1>2, <1>4 DEF LocalTrue, Audience, InThread, Serves
<1> QED BY <1>5, <1>6

LEMMA DeliverStory ==
    ASSUME PipeInv, Story, Preserved, NEW w \in Worker, Deliver(w)
    PROVE  PlaceTrue(w)' /\ LocalTrue(w)'
<1> USE DEF PipeInv
<1>1. /\ pc[w] = "deliver" /\ job'[w] = job[w] /\ refs'[w] = refs[w] /\ out'[w] = out[w]
      /\ pc'[w] = "deliver" /\ todo'[w] \subseteq todo[w]
  BY DEF Deliver, poolVars, TypeOK
<1>2. /\ data'[job'[w]] = data[job[w]] /\ Firing(job[w])'
      /\ \A m \in refs'[w] : <<m, job'[w]>> \in posted'
  BY <1>1, BusyKeeps DEF Story, PlaceTrue
<1>3. out[w].what = "analysis" => Serves(out[w].by, job[w])'
  BY <1>1, BusyKeeps DEF Story, LocalTrue
<1>4. PlaceTrue(w) /\ LocalTrue(w)
  BY DEF Story
<1>5. PlaceTrue(w)'
  BY <1>1, <1>2, <1>4 DEF PlaceTrue, InThread, Manual
<1>6. LocalTrue(w)'
  BY <1>1, <1>2, <1>3, <1>4 DEF LocalTrue, InThread, Serves
<1> QED BY <1>5, <1>6

LEMMA WorkStory ==
    ASSUME PipeInv, Story, Preserved, NEW w \in Worker, Work(w)
    PROVE  PlaceTrue(w)' /\ LocalTrue(w)'
<1>1. CASE LookupFails(w) \/ Complete(w)
  BY <1>1, ReturnStory DEF LookupFails, Complete
<1> QED BY <1>1, BeginStory, ResolvedStory, PostStory, SaveStory, HitStory, AnalysisStory,
           StoreStory, DeliverStory DEF Work

\* Steps that are not of a worker in Process leave its locals alone, or reset
\* them with the process.
LEMMA StepLocals ==
    ASSUME PipeInv, Story, [Next]_vars, NEW v \in Worker
    PROVE  \/ Same(v) \/ Work(v)
           \/ pc'[v] = "rest" /\ refs'[v] = {} /\ job'[v] \notin Alert
<1> USE PoolAssumption DEF PipeInv
<1>1. ASSUME NEW w \in Worker, Work(w) PROVE Same(v) \/ Work(v)
  BY <1>1, OthersSame
<1>2. ASSUME NEW w \in Worker, Leave(w)
      PROVE  Same(v) \/ (pc'[v] = "rest" /\ refs'[v] = {} /\ job'[v] \notin Alert)
  <2>1. v # w => Same(v)
    BY <1>2 DEF Leave, Exit, local, TypeOK, PoolTypeOK, Same
  <2>2. pc[w] = "rest" /\ pc' = pc /\ refs' = refs /\ job'[w] = Exited
    BY <1>2 DEF Leave, Exit, local, TypeOK, PoolTypeOK, Control
  <2>3. refs[w] = {}
    BY <2>2 DEF Story, LocalTrue
  <2> QED BY <2>1, <2>2, <2>3
<1>3. CASE Reboot
  BY <1>3 DEF Reboot, Restart
<1>4. ASSUME NEW a \in Alert, Arrival(a) PROVE Same(v)
  <2>1. UNCHANGED local
    BY <1>4 DEF Arrival, Webhook, HandIn, Mention
  <2>2. job' = job
    BY <1>4 DEF Arrival, Webhook, HandIn, Mention, Submit, poolVars
  <2> QED BY <2>1, <2>2 DEF local, Same
<1>5. CASE \/ StopPool
           \/ \E f \in Fingerprint : Expire(f)
           \/ \E m \in Messenger, b \in Alert : CleanupPending(m, b)
           \/ UNCHANGED vars
  BY <1>5 DEF StopPool, Close, Expire, CleanupPending, vars, local, poolVars, Same
<1> QED BY <1>1, <1>2, <1>3, <1>4, <1>5 DEF Next

LEMMA StepWorkerTrue ==
    ASSUME PipeInv, Story, [Next]_vars, Preserved, NEW v \in Worker
    PROVE  PlaceTrue(v)' /\ LocalTrue(v)'
  BY StepLocals, SameTrue, WorkStory, RestTrue

-----------------------------------------------------------------------------
\* What Deliver adds to the chats.
AnswerOf(w, m) ==
    [m |-> m, thread |-> Place(m, job[w]), what |-> out[w].what, by |-> out[w].by, for |-> job[w]]

LEMMA SentChanges ==
    ASSUME [Next]_vars
    PROVE  \/ sent' = sent
           \/ \E w \in Worker : \E m \in NextIn(todo[w]) :
                 /\ Deliver(w)
                 /\ sent' = sent \cup {AnswerOf(w, m)}
                 /\ todo' = [todo EXCEPT ![w] = @ \ {m}]
<1>1. ASSUME NEW w \in Worker, Deliver(w)
      PROVE  \/ sent' = sent
             \/ \E m \in NextIn(todo[w]) : /\ sent' = sent \cup {AnswerOf(w, m)}
                                           /\ todo' = [todo EXCEPT ![w] = @ \ {m}]
  BY <1>1 DEF Deliver, AnswerOf
<1>2. ASSUME NEW w \in Worker, Work(w), ~Deliver(w) PROVE sent' = sent
  BY <1>2 DEF Work, Begin, MarkResolved, MarkResolvedFails, Notify, Post, PostFails, EndPost, Save,
     EndSave, Hit, Miss, LookupFails, Acquire, AwaitFails, Analyzed, AnalysisFails, Store,
     Complete, chat
<1>3. CASE \E a \in Alert : Arrival(a)
  BY <1>3 DEF Arrival, Webhook, HandIn, Mention, chat
<1>4. CASE \/ \E w \in Worker : Leave(w)
           \/ StopPool \/ Reboot
           \/ \E f \in Fingerprint : Expire(f)
           \/ \E m \in Messenger, b \in Alert : CleanupPending(m, b)
           \/ UNCHANGED vars
  BY <1>4 DEF Leave, StopPool, Reboot, Expire, CleanupPending, vars, chat
<1> QED BY <1>1, <1>2, <1>3, <1>4 DEF Next

LEMMA AnswerStays ==
    ASSUME Story, Preserved, NEW x \in Message, AnswerTrue(x) PROVE AnswerTrue(x)'
<1>1. x.for \in Alert /\ x.m \in Messenger
  BY DEF Message
<1>2. outcome'[x.for] \in Begun /\ data'[x.for] = data[x.for]
  BY <1>1 DEF AnswerTrue, Preserved
<1>3. x.what = "analysis" => Serves(x.by, x.for)'
  BY <1>1, ServesStays DEF AnswerTrue
<1>4. ASSUME x.thread \in Alert
      PROVE  /\ <<x.m, x.thread>> \in posted'
             /\ x.what # "hint" => Firing(x.thread)' /\ data'[x.thread].fp = data'[x.for].fp
  <2>1. <<x.m, x.thread>> \in posted /\ outcome[x.thread] \in Begun
    BY <1>1, <1>4 DEF AnswerTrue, Story, PostedTrue
  <2>2. <<x.m, x.thread>> \in posted' /\ data'[x.thread] = data[x.thread]
    BY <1>4, <2>1 DEF Preserved
  <2> QED BY <1>2, <1>4, <2>2 DEF AnswerTrue, Firing
<1> QED BY <1>2, <1>3, <1>4 DEF AnswerTrue, Firing, InThread, Manual, Serves

\* What Deliver says is true when it says it.
LEMMA NewAnswerTrue ==
    ASSUME PipeInv, Story, NEW w \in Worker, NEW m \in todo[w], Deliver(w)
    PROVE  AnswerTrue(AnswerOf(w, m)) /\ AnswerOf(w, m) \in Message
<1> USE DEF PipeInv
<1> DEFINE a == job[w]
           d == data[job[w]]
           x == AnswerOf(w, m)
<1>1. pc[w] = "deliver"
  BY DEF Deliver
<1>2. a \in Alert /\ outcome[a] \in Begun /\ d \in Data /\ m \in Messenger
  BY <1>1, BusyRuns DEF TypeOK
<1>3. out[w] \in Answer
  BY <1>1 DEF Control, TypeOK
<1>4. /\ x.m = m /\ x.what = out[w].what /\ x.by = out[w].by /\ x.for = a
      /\ x.thread = Place(m, a)
  BY DEF AnswerOf
<1>5. x.thread \in Thread
  BY <1>2, <1>4 DEF Place, Thread, Data
<1>6. x \in Message
  BY <1>2, <1>3, <1>4, <1>5 DEF AnswerOf, Message, Answer
<1>7. /\ Firing(a)
      /\ out[w].what # "hint" => ~(InThread(d) /\ d.synthetic)
      /\ Manual => InThread(d)
      /\ \A n \in refs[w] : <<n, a>> \in posted
      /\ InThread(d) \/ todo[w] \subseteq refs[w]
      /\ out[w].what = "analysis" => Serves(out[w].by, a)
      /\ AlertTrue(a)
  BY <1>1, <1>2 DEF Story, PlaceTrue, LocalTrue
<1>8. ASSUME x.thread \in Alert
      PROVE  /\ <<m, x.thread>> \in posted
             /\ x.what # "hint" => Firing(x.thread) /\ data[x.thread].fp = d.fp
  <2>1. CASE InThread(d)
    <3>1. d.of = m /\ x.thread = d.thread
      BY <1>4, <1>8, <2>1, PipelineAssumption DEF Place
    <3> QED BY <1>2, <1>4, <1>7, <1>8, <2>1, <3>1, DataIsNotNone DEF AlertTrue
  <2>2. CASE ~InThread(d)
    <3>1. x.thread = a
      BY <1>4, <1>8, <2>2, PipelineAssumption DEF Place
    <3> QED BY <1>7, <2>2, <3>1
  <2> QED BY <2>1, <2>2
<1> HIDE DEF x
<1>9. AnswerTrue(x)
  BY <1>2, <1>4, <1>7, <1>8 DEF AnswerTrue
<1> QED BY <1>6, <1>9 DEF x

LEMMA StepUnderway ==
    ASSUME PipeInv, Story, [Next]_vars, Preserved, NEW x \in sent, NEW v \in Worker
    PROVE  Underway(x, v)'
<1> USE DEF PipeInv
<1>1. x.for \in Alert /\ outcome[x.for] \in Begun /\ Underway(x, v)
  BY DEF Story, AnswerTrue, TypeOK, Message
<1>2. CASE Same(v)
  BY <1>1, <1>2 DEF Same, Underway
<1>3. CASE job'[v] \notin Alert
  BY <1>1, <1>3 DEF Underway
<1>4. CASE Begin(v)
  <2>1. job'[v] = Head(queue) /\ Head(queue) \in Alert
    BY <1>4 DEF Begin, Take, TypeOK, PoolTypeOK
  <2>2. Head(queue) = queue[1] /\ 1 \in 1..Len(queue)
    BY <1>4 DEF Begin, Take, TypeOK, PoolTypeOK
  <2>3. outcome[Head(queue)] = "queued"
    BY <2>1, <2>2 DEF PoolInv, Queued
  <2> QED BY <1>1, <2>1, <2>3 DEF Underway, Begun
<1>5. CASE Deliver(v)
  <2>1. job'[v] = job[v] /\ pc'[v] = pc[v] /\ out'[v] = out[v] /\ todo'[v] \subseteq todo[v]
    BY <1>5 DEF Deliver, poolVars, TypeOK
  <2> QED BY <1>1, <2>1 DEF Underway
<1>6. CASE Work(v) /\ ~Begin(v) /\ ~Deliver(v)
  <2>1. job'[v] = job[v] \/ job'[v] = Idle
    BY <1>6 DEF Work, MarkResolved, MarkResolvedFails, Notify, Post, PostFails, EndPost, Save,
       EndSave, Hit, Miss, LookupFails, Acquire, AwaitFails, Analyzed, AnalysisFails, Store,
       Complete, Return, Finish, poolVars, TypeOK, PoolTypeOK
  <2>2. CASE job'[v] = Idle
    BY <1>3, <2>2, PoolAssumption
  <2>3. CASE job'[v] = job[v] /\ job'[v] # Idle
    <3>1. ~Complete(v)
      BY <2>3 DEF Complete, Return, Finish, TypeOK, PoolTypeOK
    <3>2. pc[v] # "deliver"
      BY <1>6, <3>1 DEF Work, MarkResolved, MarkResolvedFails, Notify, Post, PostFails, EndPost,
         Save, EndSave, Hit, Miss, LookupFails, Acquire, AwaitFails, Analyzed, AnalysisFails, Store
    <3> QED BY <1>1, <2>3, <3>2 DEF Underway
  <2> QED BY <2>1, <2>2, <2>3
<1> QED BY <1>2, <1>3, <1>4, <1>5, <1>6, StepLocals

LEMMA StepAnswers ==
    ASSUME PipeInv, Story, [Next]_vars, Preserved
    PROVE  /\ \A x \in sent' : AnswerTrue(x)' /\ \A v \in Worker : Underway(x, v)'
           /\ OneAnswer'
<1> USE DEF PipeInv
<1>1. ASSUME NEW x \in sent PROVE AnswerTrue(x)' /\ \A v \in Worker : Underway(x, v)'
  BY <1>1, AnswerStays, StepUnderway DEF Story, TypeOK
<1>2. CASE sent' = sent
  BY <1>1, <1>2 DEF Story, OneAnswer
<1>3. ASSUME NEW w \in Worker, NEW m \in NextIn(todo[w]), Deliver(w),
             sent' = sent \cup {AnswerOf(w, m)}, todo' = [todo EXCEPT ![w] = @ \ {m}]
      PROVE  /\ \A x \in sent' : AnswerTrue(x)' /\ \A v \in Worker : Underway(x, v)'
             /\ OneAnswer'
  <2> DEFINE n == AnswerOf(w, m)
  <2>1. m \in todo[w]
    BY DEF NextIn
  <2>2. n.m = m /\ n.for = job[w] /\ n.what = out[w].what /\ n.by = out[w].by
    BY DEF AnswerOf
  <2>3. job[w] \in Alert
    BY <1>3, BusyRuns DEF Deliver
  <2>4. /\ pc[w] = "deliver" /\ pc' = pc /\ out' = out /\ job' = job
        /\ todo'[w] = todo[w] \ {m}
    BY <1>3 DEF Deliver, poolVars, TypeOK
  <2>5. AnswerTrue(n) /\ n \in Message
    BY <1>3, <2>1, NewAnswerTrue
  <2> HIDE DEF n
  <2>6. ASSUME NEW y \in sent, y.for = n.for
        PROVE  y.what = n.what /\ y.by = n.by /\ y.m # n.m
    <3>1. Underway(y, w)
      BY DEF Story
    <3> QED BY <2>1, <2>2, <2>6, <3>1 DEF Underway
  <2>7. ASSUME NEW y \in Message, y = n, NEW v \in Worker
        PROVE  AnswerTrue(y)' /\ Underway(y, v)'
    <3>1. AnswerTrue(y)'
      BY <2>5, <2>7, AnswerStays
    <3>2. job[v] = job[w] => v = w
      BY <2>3 DEF PoolInv, Running
    <3>3. Underway(y, v)'
      BY <2>2, <2>4, <2>7, <3>2 DEF Underway
    <3> QED BY <3>1, <3>3
  <2>8. \A x \in sent' : x \in sent \/ x = n
    BY <1>3 DEF n
  <2>9. \A x \in sent' : AnswerTrue(x)' /\ \A v \in Worker : Underway(x, v)'
    BY <1>1, <2>5, <2>7, <2>8
  <2>10. ASSUME NEW x \in sent', NEW y \in sent', x.for = y.for
         PROVE  x.what = y.what /\ x.by = y.by /\ (x.m = y.m => x = y)
    <3>1. CASE x \in sent /\ y \in sent
      BY <2>10, <3>1 DEF Story, OneAnswer
    <3>2. CASE x = n \/ y = n
      BY <2>6, <2>8, <2>10, <3>2
    <3> QED BY <2>8, <3>1, <3>2
  <2> QED BY <2>9, <2>10 DEF OneAnswer
<1> QED BY <1>2, <1>3, SentChanges

LEMMA StepStory == ASSUME PipeInv, Story, [Next]_vars PROVE Story'
<1>1. Preserved
  BY StepPreserved
<1>2. \A a \in Alert : AlertTrue(a)'
  BY <1>1, StepAlertTrue
<1>3. \A m \in Messenger, a \in Alert : PostedTrue(m, a)' /\ PendingTrue(m, a)'
  BY <1>1, StepPostedTrue, StepPendingTrue
<1>4. \A f \in Fingerprint : RowTrue(f)'
  BY <1>1, StepRowTrue
<1>5. \A w \in Worker : PlaceTrue(w)' /\ LocalTrue(w)'
  BY <1>1, StepWorkerTrue
<1>6. /\ \A x \in sent' : AnswerTrue(x)' /\ \A v \in Worker : Underway(x, v)'
      /\ OneAnswer'
  BY <1>1, StepAnswers
<1> QED BY <1>2, <1>3, <1>4, <1>5, <1>6 DEF Story

\* Contents, rows, messages and answers agree in every reachable state.
THEOREM PipelineStory == Spec => [](PipeInv /\ Story)
<1>1. PipeInv /\ Story /\ [Next]_vars => Story'
  BY StepStory
<1> QED BY <1>1, InitStory, PipelineInvariant, PTL DEF Spec

\* What is said under a message is about the alert posted there.
THEOREM PipelineRightThread == Spec => []RightThread
<1>1. ASSUME Story, NEW x \in sent, x.thread \in Alert
      PROVE  /\ <<x.m, x.thread>> \in posted
             /\ x.what # "hint" => Firing(x.thread)
             /\ x.what = "analysis" => data[x.by].fp = data[x.thread].fp
             /\ x.what = "error" => data[x.for].fp = data[x.thread].fp
  BY <1>1 DEF Story, AnswerTrue, Serves
<1>2. Story => RightThread
  BY <1>1 DEF RightThread
<1> QED BY <1>2, PipelineStory, PTL

\* A row of alerts_cache is the analysis of a firing alert with its
\* fingerprint that was really begun.
THEOREM PipelineCacheIntegrity == Spec => []CacheIntegrity
<1>1. Story => CacheIntegrity
  BY DEF Story, RowTrue, CacheIntegrity, Begun
<1> QED BY <1>1, PipelineStory, PTL

\* A pending row is a copy of the alert posted as the message it is keyed by.
THEOREM PipelinePendingMatches == Spec => []PendingMatches
<1>1. Story => PendingMatches
  BY DEF Story, PendingTrue, PendingMatches
<1> QED BY <1>1, PipelineStory, PTL

\* In manual mode the LLM and its answers are only for who asked in a thread.
THEOREM PipelineManualOnDemand == Spec => []ManualOnDemand
<1>1. Story => ManualOnDemand
  BY DEF Story, AnswerTrue, PlaceTrue, Manual, Analyzing, ManualOnDemand
<1> QED BY <1>1, PipelineStory, PTL

\* No alert gets two answers.
THEOREM PipelineOneAnswer == Spec => []OneAnswer
<1>1. Story => OneAnswer
  BY DEF Story
<1> QED BY <1>1, PipelineStory, PTL

\* Who asks for a new analysis gets one made for the question.
THEOREM PipelineReanalyzeIsFresh == Spec => []ReanalyzeIsFresh
<1>1. Story => ReanalyzeIsFresh
  BY DEF Story, AnswerTrue, Serves, ReanalyzeIsFresh
<1> QED BY <1>1, PipelineStory, PTL

\* No upsert, expiry or restart takes a resolution back.
THEOREM PipelineResolvedStays == Spec => ResolvedStays
<1>1. PipeInv /\ Story /\ [Next]_vars =>
        [ResolutionKept]_vars
  <2> SUFFICES ASSUME PipeInv, Story, [Next]_vars, NEW f \in Fingerprint, cache[f].resolved
               PROVE  cache'[f].resolved
    BY DEF ResolutionKept
  <2>1. cache[f].by # None
    BY DEF Story, RowTrue
  <2> QED BY <2>1, CacheChanges
<1> QED BY <1>1, PipelineStory, PTL DEF Spec, ResolvedStays

-----------------------------------------------------------------------------
(***************************************************************************)
(* Nobody is forgotten: what is still to be said or saved is in the locals *)
(* of a worker, in a state Process cannot return from.                     *)
(***************************************************************************)
SendsWork == Mishaps \cap {"send", "get", "mark"} = {}
RowsStay  == ~Aging /\ Mishaps \cap {"send", "save", "find"} = {}

\* How far a worker is with telling the messengers.
TellingTrue(w) ==
    /\ pc[w] = "notify" => \A m \in Messenger \ todo[w] : <<m, job[w]>> \in posted
    /\ pc[w] = "post" \/ (pc[w] = "save" /\ Manual) => Messenger \ todo[w] \subseteq refs[w]
    /\ \/ pc[w] = "save" /\ ~Manual
       \/ pc[w] \in {"lookup", "await", "analyze", "store", "deliver"} /\ ~InThread(data[job[w]])
       => Messenger \subseteq refs[w]
    /\ pc[w] = "deliver" => \A m \in Messenger \ todo[w] : AnswersTo(job[w], m) # {}

ToldTrue(a) ==
    outcome[a] = "done" =>
        \A m \in Messenger :
            /\ ~InThread(data[a]) => <<m, a>> \in posted
            /\ Firing(a) /\ (~Manual \/ InThread(data[a])) => AnswersTo(a, m) # {}

\* How far it is with the pending rows: one is missing only while the worker
\* has the messenger before it.
Unsaved(w) ==
    IF pc[w] = "post" /\ ~Manual THEN refs[w]
    ELSE IF pc[w] = "save" THEN (IF Manual THEN NextIn(todo[w]) ELSE todo[w])
    ELSE {}

SavingTrue(w) ==
    pc[w] \notin {"rest", "mark", "notify"} =>
        \A m \in Messenger \ NoId :
            <<m, job[w]>> \in posted => pending[<<m, job[w]>>] # None \/ m \in Unsaved(w)

KeptTrue(m, a) ==
    (outcome[a] = "done" /\ Firing(a) /\ m \notin NoId /\ <<m, a>> \in posted)
        => pending[<<m, a>>] # None

Telling == SendsWork => (\A w \in Worker : TellingTrue(w)) /\ (\A a \in Alert : ToldTrue(a))

Keeping ==
    RowsStay => /\ \A w \in Worker : SavingTrue(w)
                /\ \A m \in Messenger, a \in Alert : KeptTrue(m, a)

LEMMA InitTelling == Init => Telling /\ Keeping
<1> SUFFICES ASSUME Init PROVE Telling /\ Keeping
  OBVIOUS
<1>1. \A w \in Worker : TellingTrue(w) /\ SavingTrue(w)
  BY DEF Init, TellingTrue, SavingTrue
<1>2. \A a \in Alert : ToldTrue(a) /\ \A m \in Messenger : KeptTrue(m, a)
  BY DEF Init, PoolInit, ToldTrue, KeptTrue
<1> QED BY <1>1, <1>2 DEF Telling, Keeping

LEMMA AnswersStay ==
    ASSUME [Next]_vars, NEW a, NEW m, AnswersTo(a, m) # {} PROVE AnswersTo(a, m)' # {}
<1>1. sent \subseteq sent'
  BY SentChanges
<1> QED BY <1>1 DEF AnswersTo

\* A busy worker whose step leaves its alert with it.
LEMMA TellingKeeps ==
    ASSUME PipeInv, Story, Preserved, [Next]_vars, NEW w \in Worker, TellingTrue(w),
           pc[w] # "rest", job'[w] = job[w]
    PROVE  /\ data'[job'[w]] = data[job[w]]
           /\ pc[w] = "notify" => \A m \in Messenger \ todo[w] : <<m, job'[w]>> \in posted'
           /\ pc[w] = "deliver" => \A m \in Messenger \ todo[w] : AnswersTo(job[w], m)' # {}
<1>1. data'[job'[w]] = data[job[w]]
  BY BusyKeeps
<1>2. pc[w] = "notify" => \A m \in Messenger \ todo[w] : <<m, job'[w]>> \in posted'
  BY DEF TellingTrue, Preserved
<1>3. ASSUME pc[w] = "deliver", NEW m \in Messenger \ todo[w] PROVE AnswersTo(job[w], m)' # {}
  <2>1. AnswersTo(job[w], m) # {}
    BY <1>3 DEF TellingTrue
  <2>2. sent \subseteq sent'
    BY SentChanges
  <2> QED BY <2>1, <2>2 DEF AnswersTo
<1> QED BY <1>1, <1>2, <1>3

LEMMA SameTelling ==
    ASSUME PipeInv, Story, Preserved, [Next]_vars, NEW w \in Worker, TellingTrue(w), Same(w)
    PROVE  TellingTrue(w)'
<1>1. CASE pc[w] = "rest"
  BY <1>1 DEF Same, TellingTrue
<1>2. CASE pc[w] # "rest"
  <2>1. /\ data'[job'[w]] = data[job[w]]
        /\ pc[w] = "notify" => \A m \in Messenger \ todo[w] : <<m, job'[w]>> \in posted'
        /\ pc[w] = "deliver" => \A m \in Messenger \ todo[w] : AnswersTo(job[w], m)' # {}
    BY <1>2, TellingKeeps DEF Same
  <2> QED BY <2>1 DEF Same, TellingTrue, InThread, Manual
<1> QED BY <1>1, <1>2

LEMMA PostingTelling ==
    ASSUME PipeInv, Story, Preserved, [Next]_vars, SendsWork, NEW w \in Worker, TellingTrue(w),
           Notify(w) \/ Post(w) \/ PostFails(w) \/ EndPost(w) \/ Save(w) \/ EndSave(w)
    PROVE  TellingTrue(w)'
<1> USE DEF PipeInv
<1>1. job'[w] = job[w] /\ todo[w] \in SUBSET Messenger /\ refs[w] \in SUBSET Messenger
  BY DEF Notify, Post, PostFails, EndPost, Save, EndSave, poolVars, TypeOK
<1>2. CASE Notify(w)
  <2>1. PICK m \in NextIn(todo[w]) :
          posted' = posted \cup {<<m, job[w]>>} /\ todo' = [todo EXCEPT ![w] = @ \ {m}]
    BY <1>2 DEF Notify, SendsWork
  <2>2. pc[w] = "notify" /\ pc'[w] = "notify" /\ todo'[w] = todo[w] \ {m}
    BY <1>2, <2>1 DEF Notify, TypeOK
  <2>3. \A n \in Messenger \ todo[w] : <<n, job'[w]>> \in posted'
    BY <1>1, <2>2, TellingKeeps
  <2> QED BY <1>1, <2>1, <2>2, <2>3 DEF TellingTrue
<1>3. CASE Post(w)
  <2>1. PICK m \in NextIn(todo[w]) :
          /\ refs' = [refs EXCEPT ![w] = @ \cup {m}]
          /\ \/ pc' = [pc EXCEPT ![w] = "save"] /\ todo' = todo /\ Manual
             \/ pc' = pc /\ todo' = [todo EXCEPT ![w] = @ \ {m}]
    BY <1>3 DEF Post
  <2>2. /\ pc[w] = "post" /\ refs'[w] = refs[w] \cup {m}
        /\ \/ pc'[w] = "save" /\ todo'[w] = todo[w] /\ Manual
           \/ pc'[w] = "post" /\ todo'[w] = todo[w] \ {m}
    BY <1>3, <2>1 DEF Post, TypeOK
  <2>3. Messenger \ todo'[w] \subseteq refs'[w]
    BY <2>2 DEF TellingTrue
  <2> QED BY <2>2, <2>3 DEF TellingTrue, Manual
<1>4. CASE PostFails(w)
  BY <1>4 DEF PostFails, SendsWork
<1>5. CASE EndPost(w)
  <2>1. pc[w] = "post" /\ todo[w] = {} /\ pc'[w] = "save" /\ ~Manual /\ refs'[w] = refs[w]
    BY <1>5 DEF EndPost, TypeOK
  <2> QED BY <2>1 DEF TellingTrue, Manual
<1>6. CASE Save(w)
  <2>1. PICK m \in NextIn(todo[w]) : todo' = [todo EXCEPT ![w] = @ \ {m}]
    BY <1>6 DEF Save
  <2>2. /\ pc[w] = "save" /\ pc'[w] = IF Manual THEN "post" ELSE "save"
        /\ todo'[w] = todo[w] \ {m} /\ refs'[w] = refs[w]
    BY <1>6, <2>1 DEF Save, TypeOK
  <2>3. m \in refs[w]
    BY <2>2 DEF Story, LocalTrue, Anchors
  <2> QED BY <2>2, <2>3 DEF TellingTrue, Manual
<1>7. CASE EndSave(w)
  <2>1. /\ pc[w] = "save" /\ todo[w] = {} /\ refs'[w] = refs[w]
        /\ pc'[w] \in {"await", "lookup"}
    BY <1>7 DEF EndSave, TypeOK
  <2>2. ~Manual
    BY <2>1 DEF Story, LocalTrue
  <2> QED BY <2>1, <2>2 DEF TellingTrue
<1> QED BY <1>2, <1>3, <1>4, <1>5, <1>6, <1>7

LEMMA AnsweringTelling ==
    ASSUME PipeInv, Story, Preserved, [Next]_vars, SendsWork, NEW w \in Worker, TellingTrue(w),
           Hit(w) \/ Miss(w) \/ Acquire(w) \/ AwaitFails(w) \/ Analyzed(w) \/ AnalysisFails(w)
             \/ Store(w) \/ Deliver(w)
    PROVE  TellingTrue(w)'
<1> USE DEF PipeInv
<1>1. /\ job'[w] = job[w] /\ pc[w] \in {"lookup", "await", "analyze", "store", "deliver"}
      /\ refs'[w] = refs[w]
  BY DEF Hit, Miss, Acquire, AwaitFails, Analyzed, AnalysisFails, Store, Deliver, poolVars
<1>2. data'[job'[w]] = data[job[w]] /\ (~InThread(data[job[w]]) => Messenger \subseteq refs[w])
  BY <1>1, TellingKeeps DEF TellingTrue
<1>3. CASE Miss(w) \/ Acquire(w) \/ Analyzed(w)
  <2>1. pc'[w] \in {"await", "analyze", "store"}
    BY <1>3 DEF Miss, Acquire, Analyzed, TypeOK
  <2> QED BY <1>1, <1>2, <2>1 DEF TellingTrue, InThread
<1>4. CASE Hit(w) \/ AwaitFails(w) \/ AnalysisFails(w) \/ Store(w)
  <2>1. pc'[w] = "deliver" /\ todo'[w] = Audience(w)
    BY <1>4 DEF Hit, AwaitFails, AnalysisFails, Store, Answering, TypeOK
  <2>2. Messenger \subseteq todo'[w]
    BY <1>2, <2>1 DEF Audience
  <2> QED BY <1>1, <1>2, <2>1, <2>2 DEF TellingTrue, InThread
<1>5. CASE Deliver(w)
  <2>1. PICK m \in NextIn(todo[w]) :
          /\ sent' = sent \cup {AnswerOf(w, m)}
          /\ todo' = [todo EXCEPT ![w] = @ \ {m}]
    BY <1>5 DEF Deliver, AnswerOf, SendsWork
  <2>2. pc[w] = "deliver" /\ pc'[w] = "deliver" /\ todo'[w] = todo[w] \ {m}
    BY <1>5, <2>1 DEF Deliver, TypeOK
  <2>3. AnswersTo(job[w], m)' # {}
    <3>1. AnswerOf(w, m).for = job'[w] /\ AnswerOf(w, m).m = m
      BY <1>1 DEF AnswerOf
    <3>2. AnswerOf(w, m) \in sent'
      BY <2>1
    <3> QED BY <3>1, <3>2 DEF AnswersTo
  <2>4. \A n \in Messenger \ todo'[w] : AnswersTo(job[w], n)' # {}
    BY <1>1, <2>2, <2>3, TellingKeeps
  <2> QED BY <1>1, <1>2, <2>2, <2>4 DEF TellingTrue, InThread
<1> QED BY <1>3, <1>4, <1>5

LEMMA WorkTelling ==
    ASSUME PipeInv, Story, Preserved, [Next]_vars, SendsWork, NEW w \in Worker, TellingTrue(w),
           Work(w)
    PROVE  TellingTrue(w)'
<1> USE DEF PipeInv
<1>1. CASE Begin(w)
  <2>1. Head(queue) \in Alert
    BY <1>1 DEF Begin, Take, TypeOK, PoolTypeOK
  <2>2. data[Head(queue)] \in Data
    <3>1. Head(queue) = queue[1] /\ 1 \in 1..Len(queue)
      BY <1>1 DEF Begin, Take, TypeOK, PoolTypeOK
    <3>2. outcome[Head(queue)] = "queued"
      BY <2>1, <3>1 DEF PoolInv, Queued
    <3> QED BY <2>1, <3>2 DEF Control, TypeOK
  <2>3. /\ pc'[w] = Entry(data[Head(queue)]) /\ job'[w] = Head(queue) /\ data' = data
        /\ Entry(data[Head(queue)]) \in {"post", "deliver"} => todo'[w] = Messenger
    BY <1>1 DEF Begin, Take, TypeOK, PoolTypeOK
  <2>4. /\ pc'[w] \in {"mark", "post", "deliver", "await", "lookup"}
        /\ pc'[w] \in {"deliver", "await", "lookup"} => InThread(data'[job'[w]])
    BY <2>2, <2>3, EntryMeans
  <2> QED BY <2>3, <2>4 DEF TellingTrue, InThread
<1>2. CASE pc'[w] = "rest"
  BY <1>2 DEF TellingTrue
<1>3. CASE MarkResolved(w) /\ pc'[w] # "rest"
  <2>1. pc'[w] = "notify" /\ todo'[w] = Messenger
    BY <1>3 DEF MarkResolved, Return, TypeOK
  <2> QED BY <2>1 DEF TellingTrue
<1>4. CASE MarkResolvedFails(w) \/ LookupFails(w) \/ Complete(w)
  <2>1. pc'[w] = "rest"
    BY <1>4 DEF MarkResolvedFails, LookupFails, Complete, Return, TypeOK
  <2> QED BY <2>1 DEF TellingTrue
<1> QED BY <1>1, <1>2, <1>3, <1>4, PostingTelling, AnsweringTelling DEF Work

\* The ways out of Process.
LEMMA DoneChanges ==
    ASSUME PipeInv, [Next]_vars, NEW a \in Alert, outcome[a] # "done", outcome'[a] = "done"
    PROVE  \E w \in Worker : /\ job[w] = a /\ pc[w] # "rest" /\ data' = data
                             /\ \/ MarkResolved(w) /\ InThread(data[a])
                                \/ MarkResolvedFails(w) \/ LookupFails(w) \/ Complete(w)
<1> USE DEF PipeInv
<1>1. ASSUME NEW w \in Worker, Work(w)
      PROVE  /\ job[w] = a /\ pc[w] # "rest" /\ data' = data
             /\ \/ MarkResolved(w) /\ InThread(data[a])
                \/ MarkResolvedFails(w) \/ LookupFails(w) \/ Complete(w)
  <2>1. CASE Return(w) /\ job[w] \in Alert
    <3>1. job[w] = a /\ data' = data
      BY <2>1 DEF Return, Finish, TypeOK, PoolTypeOK
    <3>2. pc[w] # "rest"
      BY <2>1 DEF Control
    <3>3. ~Begin(w)
      BY <2>1, PoolAssumption DEF Begin, Take
    <3>4. pc'[w] = "rest"
      BY <2>1 DEF Return, TypeOK
    <3>5. ~(Notify(w) \/ Post(w) \/ PostFails(w) \/ EndPost(w) \/ Save(w) \/ EndSave(w))
      BY <3>2, <3>4 DEF Notify, Post, PostFails, EndPost, Save, EndSave, TypeOK
    <3>6. ~(Hit(w) \/ Miss(w) \/ Acquire(w) \/ AwaitFails(w) \/ Analyzed(w) \/ AnalysisFails(w)
             \/ Store(w) \/ Deliver(w))
      BY <3>2, <3>4 DEF Hit, Miss, Acquire, AwaitFails, Analyzed, AnalysisFails, Answering, Store,
         Deliver, TypeOK
    <3>7. MarkResolved(w) => InThread(data[a])
      BY <3>1, <3>4 DEF MarkResolved, TypeOK
    <3> QED BY <1>1, <3>1, <3>2, <3>3, <3>5, <3>6, <3>7 DEF Work
  <2>2. CASE Begin(w)
    BY <2>2 DEF Begin, Take, TypeOK, PoolTypeOK
  <2>3. CASE UNCHANGED poolVars
    BY <2>3 DEF poolVars
  <2>4. (Return(w) /\ job[w] \in Alert) \/ Begin(w) \/ UNCHANGED poolVars
    BY <1>1 DEF Work, MarkResolved, MarkResolvedFails, Notify, Post, PostFails, EndPost, Save,
       EndSave, Hit, Miss, LookupFails, Acquire, AwaitFails, Analyzed, AnalysisFails, Store,
       Deliver, Complete, Return, Finish
  <2> QED BY <2>1, <2>2, <2>3, <2>4
<1>2. ASSUME NEW b \in Alert, Arrival(b) PROVE FALSE
  <2>1. CASE Submit(b)
    BY <2>1 DEF Submit, Enqueue, Overflow, SendOnClosed, TypeOK, PoolTypeOK
  <2>2. CASE UNCHANGED poolVars
    BY <2>2 DEF poolVars
  <2> QED BY <1>2, <2>1, <2>2 DEF Arrival, Webhook, HandIn, Mention
<1>3. CASE Reboot
  BY <1>3 DEF Reboot, Restart, TypeOK, PoolTypeOK
<1>4. CASE \/ \E w \in Worker : Leave(w)
           \/ StopPool
           \/ \E f \in Fingerprint : Expire(f)
           \/ \E m \in Messenger, b \in Alert : CleanupPending(m, b)
           \/ UNCHANGED vars
  BY <1>4 DEF Leave, Exit, StopPool, Close, Expire, CleanupPending, vars, poolVars
<1> QED BY <1>1, <1>2, <1>3, <1>4 DEF Next

LEMMA StepTold ==
    ASSUME PipeInv, Story, Preserved, [Next]_vars, SendsWork, Telling, NEW a \in Alert
    PROVE  ToldTrue(a)'
<1> USE DEF PipeInv
<1>1. ASSUME outcome[a] = "done" PROVE ToldTrue(a)'
  <2>1. data'[a] = data[a] /\ posted \subseteq posted'
    BY <1>1 DEF Preserved, Begun
  <2>2. ToldTrue(a)
    BY DEF Telling
  <2>3. \A m \in Messenger : AnswersTo(a, m) # {} => AnswersTo(a, m)' # {}
    BY AnswersStay
  <2> QED BY <1>1, <2>1, <2>2, <2>3 DEF ToldTrue, Firing, InThread, Manual
<1>2. ASSUME NEW w \in Worker, job[w] = a, pc[w] # "rest", data' = data,
             \/ MarkResolved(w) /\ InThread(data[a])
             \/ MarkResolvedFails(w) \/ LookupFails(w) \/ Complete(w)
      PROVE  ToldTrue(a)'
  <2>0. PlaceTrue(w) /\ LocalTrue(w) /\ TellingTrue(w)
    BY DEF Story, Telling
  <2>1. CASE MarkResolved(w) /\ InThread(data[a])
    <3>1. ~Firing(a)
      BY <1>2, <2>0, <2>1 DEF MarkResolved, PlaceTrue
    <3> QED BY <1>2, <2>1, <3>1 DEF ToldTrue, Firing, InThread
  <2>2. CASE MarkResolvedFails(w) \/ LookupFails(w)
    BY <2>2 DEF MarkResolvedFails, LookupFails, SendsWork
  <2>3. CASE Complete(w) /\ pc[w] = "notify"
    <3>1. ~Firing(a) /\ \A m \in Messenger : <<m, a>> \in posted
      BY <1>2, <2>0, <2>3 DEF Complete, PlaceTrue, TellingTrue
    <3> QED BY <1>2, <3>1 DEF ToldTrue, Firing, InThread, Preserved
  <2>4. CASE Complete(w) /\ pc[w] = "post" /\ Manual
    <3>1. ~InThread(data[a]) /\ \A m \in Messenger : <<m, a>> \in posted
      BY <1>2, <2>0, <2>4 DEF Complete, PlaceTrue, LocalTrue, TellingTrue
    <3> QED BY <1>2, <2>4, <3>1 DEF ToldTrue, Firing, InThread, Manual, Preserved
  <2>5. CASE Complete(w) /\ pc[w] = "deliver"
    <3>1. /\ ~InThread(data[a]) => \A m \in Messenger : <<m, a>> \in posted
          /\ \A m \in Messenger : AnswersTo(a, m) # {}
      BY <1>2, <2>0, <2>5 DEF Complete, LocalTrue, TellingTrue
    <3>2. \A m \in Messenger : AnswersTo(a, m)' # {}
      BY <3>1, AnswersStay
    <3> QED BY <1>2, <3>1, <3>2 DEF ToldTrue, InThread, Preserved
  <2> QED BY <1>2, <2>1, <2>2, <2>3, <2>4, <2>5 DEF Complete
<1>3. CASE outcome'[a] # "done"
  BY <1>3 DEF ToldTrue
<1> QED BY <1>1, <1>2, <1>3, DoneChanges

LEMMA StepTelling == ASSUME PipeInv, Story, Telling, [Next]_vars PROVE Telling'
<1> SUFFICES ASSUME SendsWork
             PROVE  (\A w \in Worker : TellingTrue(w)') /\ (\A a \in Alert : ToldTrue(a)')
  BY DEF Telling, SendsWork
<1>1. Preserved
  BY StepPreserved
<1>2. \A a \in Alert : ToldTrue(a)'
  BY <1>1, StepTold
<1>3. ASSUME NEW w \in Worker PROVE TellingTrue(w)'
  <2>1. TellingTrue(w)
    BY DEF Telling
  <2>2. CASE pc'[w] = "rest"
    BY <2>2 DEF TellingTrue
  <2> QED BY <1>1, <2>1, <2>2, StepLocals, SameTelling, WorkTelling
<1> QED BY <1>2, <1>3

\* When Process has returned, every messenger has been told.
THEOREM PipelineTold == Spec => []Told
<1>1. PipeInv /\ Story /\ Telling /\ [Next]_vars => Telling'
  BY StepTelling
<1>2. Story /\ Telling /\ PipeInv => Told
  <2> SUFFICES ASSUME PipeInv, Story, Telling, SendsWork, NEW a \in Alert, NEW m \in Messenger,
                      outcome[a] = "done"
               PROVE  /\ ~InThread(data[a]) => <<m, a>> \in posted
                      /\ Firing(a) /\ (Mode = "auto" \/ InThread(data[a])) => AnswersTo(a, m) # {}
                      /\ data[a].status = "resolved" => AnswersTo(a, m) = {}
    BY DEF Told, SendsWork
  <2>1. ToldTrue(a)
    BY DEF Telling
  <2>2. Mode = "auto" => ~Manual
    BY DEF Manual
  <2>3. \A x \in sent : data[x.for].status = "firing"
    BY DEF Story, AnswerTrue, Firing
  <2> QED BY <2>1, <2>2, <2>3 DEF ToldTrue, AnswersTo
<1> QED BY <1>1, <1>2, InitTelling, PipelineStory, PTL DEF Spec

\* Without the janitor a row stays.
LEMMA PendingStays ==
    ASSUME PipeInv, [Next]_vars, RowsStay, NEW m \in Messenger, NEW a \in Alert,
           pending[<<m, a>>] # None
    PROVE  pending'[<<m, a>>] # None
<1>1. ASSUME NEW w \in Worker, pc[w] = "save", a = job[w] PROVE data[a] # None
  BY <1>1, BusyRuns, DataIsNotNone
<1> QED BY <1>1, PendingChanges DEF RowsStay

\* A new message is about the alert of the worker that posted it.
LEMMA PostedByOwner ==
    ASSUME PipeInv, [Next]_vars, NEW m, NEW a, <<m, a>> \in posted', <<m, a>> \notin posted
    PROVE  \E w \in Worker : /\ Notify(w) \/ Post(w) \/ PostFails(w)
                             /\ job[w] = a /\ a \in Alert /\ outcome[a] = "running"
<1>1. PICK w \in Worker : /\ Notify(w) \/ Post(w) \/ PostFails(w)
                          /\ pc[w] \in {"notify", "post"} /\ a = job[w]
  BY PostedChanges
<1> QED BY <1>1, BusyRuns

LEMMA PostSaving ==
    ASSUME PipeInv, Story, [Next]_vars, RowsStay, NEW w \in Worker, SavingTrue(w), Post(w)
    PROVE  SavingTrue(w)'
<1> USE DEF PipeInv
<1>1. /\ pc[w] = "post" /\ job'[w] = job[w] /\ job[w] \in Alert
      /\ todo[w] \in SUBSET Messenger
  BY BusyRuns DEF Post, poolVars, TypeOK
<1>2. PICK n \in NextIn(todo[w]) :
        /\ posted' = posted \cup {<<n, job[w]>>}
        /\ refs' = [refs EXCEPT ![w] = @ \cup {n}]
        /\ IF Manual /\ n \notin NoId THEN pc'[w] = "save" /\ todo'[w] = todo[w] ELSE pc'[w] = "post"
  BY <1>1 DEF Post, TypeOK
<1>3. refs'[w] = refs[w] \cup {n} /\ NextIn(todo[w]) = {n}
  BY <1>1, <1>2, OnlyNext DEF TypeOK
<1>4. ASSUME NEW m \in Messenger \ NoId, <<m, job'[w]>> \in posted'
      PROVE  pending'[<<m, job'[w]>>] # None \/ m \in Unsaved(w)'
  <2>1. CASE pending[<<m, job[w]>>] # None
    BY <1>1, <2>1, PendingStays
  <2>2. CASE ~Manual /\ pending[<<m, job[w]>>] = None
    <3>1. m \in refs'[w]
      BY <1>1, <1>2, <1>3, <1>4, <2>2 DEF SavingTrue, Unsaved
    <3> QED BY <1>2, <2>2, <3>1 DEF Unsaved, Manual
  <2>3. CASE Manual /\ pending[<<m, job[w]>>] = None
    <3>1. <<m, job[w]>> \notin posted
      BY <1>1, <1>4, <2>3 DEF SavingTrue, Unsaved
    <3>2. m = n
      BY <1>1, <1>2, <1>4, <3>1
    <3>3. pc'[w] = "save" /\ NextIn(todo'[w]) = {n}
      BY <1>2, <1>3, <1>4, <2>3, <3>2
    <3> QED BY <2>3, <3>2, <3>3 DEF Unsaved, Manual, NextIn
  <2> QED BY <2>1, <2>2, <2>3
<1> QED BY <1>4 DEF SavingTrue

LEMMA SaveSaving ==
    ASSUME PipeInv, Story, [Next]_vars, RowsStay, NEW w \in Worker, SavingTrue(w),
           EndPost(w) \/ Save(w) \/ EndSave(w)
    PROVE  SavingTrue(w)'
<1> USE DEF PipeInv
<1>1. /\ pc[w] \in {"post", "save"} /\ job'[w] = job[w] /\ posted' = posted
      /\ todo[w] \in SUBSET Messenger /\ refs'[w] = refs[w]
  BY DEF EndPost, Save, EndSave, poolVars, chat, TypeOK
<1>2. job[w] \in Alert /\ data[job[w]] \in Data
  BY <1>1, BusyRuns
<1>3. ASSUME NEW m \in Messenger \ NoId, <<m, job[w]>> \in posted
      PROVE  pending'[<<m, job[w]>>] # None \/ m \in Unsaved(w)'
  <2>1. CASE pending[<<m, job[w]>>] # None
    BY <1>2, <2>1, PendingStays
  <2>2. CASE pending[<<m, job[w]>>] = None /\ m \in Unsaved(w)
    <3>1. CASE EndPost(w)
      <4>1. pc'[w] = "save" /\ todo'[w] = Anchors(w) /\ ~Manual /\ pc[w] = "post"
        BY <3>1 DEF EndPost, TypeOK
      <4>2. m \in todo'[w]
        BY <2>2, <4>1 DEF Anchors, Unsaved
      <4> QED BY <4>1, <4>2 DEF Unsaved, Manual
    <3>2. CASE Save(w)
      <4>1. PICK n \in NextIn(todo[w]) :
              /\ pending' = [pending EXCEPT ![<<n, job[w]>>] = data[job[w]]]
              /\ todo' = [todo EXCEPT ![w] = @ \ {n}]
        BY <3>2 DEF Save, RowsStay
      <4>2. /\ pc[w] = "save" /\ pc'[w] = IF Manual THEN "post" ELSE "save"
            /\ todo'[w] = todo[w] \ {n}
        BY <3>2, <4>1 DEF Save, TypeOK
      <4>3. CASE m = n
        <5>1. pending'[<<m, job[w]>>] = data[job[w]]
          BY <1>2, <4>1, <4>3 DEF TypeOK
        <5> QED BY <1>2, <5>1, DataIsNotNone
      <4>4. CASE m # n
        <5>1. NextIn(todo[w]) = {n}
          BY <1>1, OnlyNext
        <5>2. ~Manual /\ m \in todo'[w]
          BY <2>2, <4>2, <4>4, <5>1 DEF Unsaved
        <5> QED BY <4>2, <5>2 DEF Unsaved, Manual
      <4> QED BY <4>3, <4>4
    <3>3. CASE EndSave(w)
      <4>1. pc[w] = "save" /\ todo[w] = {}
        BY <3>3 DEF EndSave
      <4>2. Unsaved(w) = {}
        BY <4>1 DEF Unsaved, NextIn
      <4> QED BY <2>2, <4>2
    <3> QED BY <3>1, <3>2, <3>3
  <2> QED BY <1>1, <1>3, <2>1, <2>2 DEF SavingTrue
<1> QED BY <1>1, <1>3 DEF SavingTrue

LEMMA WorkSaving ==
    ASSUME PipeInv, Story, [Next]_vars, RowsStay, NEW w \in Worker, SavingTrue(w), Work(w)
    PROVE  SavingTrue(w)'
<1> USE DEF PipeInv
<1>1. CASE Begin(w)
  <2>1. job'[w] = Head(queue) /\ posted' = posted /\ Head(queue) \in Alert
    BY <1>1 DEF Begin, Take, chat, TypeOK, PoolTypeOK
  <2>2. Head(queue) = queue[1] /\ 1 \in 1..Len(queue)
    BY <1>1 DEF Begin, Take, TypeOK, PoolTypeOK
  <2>3. outcome[Head(queue)] = "queued"
    BY <2>1, <2>2 DEF PoolInv, Queued
  <2>4. \A m \in Messenger : <<m, job'[w]>> \notin posted'
    BY <2>1, <2>3 DEF Story, PostedTrue, Begun
  <2> QED BY <2>4 DEF SavingTrue
<1>2. CASE pc'[w] \in {"rest", "mark", "notify"}
  BY <1>2 DEF SavingTrue
<1>3. CASE MarkResolved(w) \/ MarkResolvedFails(w) \/ Notify(w) \/ LookupFails(w) \/ Complete(w)
  <2>1. pc'[w] \in {"rest", "notify"}
    BY <1>3 DEF MarkResolved, MarkResolvedFails, Notify, LookupFails, Complete, Return, TypeOK
  <2> QED BY <1>2, <2>1
<1>4. CASE PostFails(w)
  BY <1>4 DEF PostFails, RowsStay
<1>5. CASE Hit(w) \/ Miss(w) \/ Acquire(w) \/ AwaitFails(w) \/ Analyzed(w) \/ AnalysisFails(w)
           \/ Store(w) \/ Deliver(w)
  <2>1. /\ pc[w] \in {"lookup", "await", "analyze", "store", "deliver"}
        /\ pc'[w] \notin {"post", "save"} /\ job'[w] = job[w]
        /\ posted' = posted /\ pending' = pending
    BY <1>5 DEF Hit, Miss, Acquire, AwaitFails, Analyzed, AnalysisFails, Answering, Store, Deliver,
       poolVars, tables, chat, TypeOK
  <2> QED BY <2>1 DEF SavingTrue, Unsaved
<1> QED BY <1>1, <1>3, <1>4, <1>5, PostSaving, SaveSaving DEF Work

LEMMA StepSaving ==
    ASSUME PipeInv, Story, Keeping, [Next]_vars, RowsStay, NEW v \in Worker
    PROVE  SavingTrue(v)'
<1>1. SavingTrue(v)
  BY DEF Keeping
<1>2. CASE Work(v)
  BY <1>1, <1>2, WorkSaving
<1>3. CASE pc'[v] = "rest"
  BY <1>3 DEF SavingTrue
<1>4. CASE Same(v) /\ ~Work(v)
  <2> SUFFICES ASSUME pc[v] \notin {"rest", "mark", "notify"}, NEW m \in Messenger \ NoId,
                      <<m, job[v]>> \in posted'
               PROVE  pending'[<<m, job[v]>>] # None \/ m \in Unsaved(v)'
    BY <1>4 DEF SavingTrue, Same
  <2>1. job[v] \in Alert
    BY BusyRuns
  <2>2. <<m, job[v]>> \in posted
    <3>1. SUFFICES ASSUME NEW w \in Worker, Work(w), job[w] = job[v] PROVE FALSE
      BY PostedByOwner DEF Work
    <3>2. w = v
      BY <2>1, <3>1 DEF PipeInv, PoolInv, Running
    <3> QED BY <1>4, <3>1, <3>2
  <2>3. pending[<<m, job[v]>>] # None \/ m \in Unsaved(v)
    BY <1>1, <2>2 DEF SavingTrue
  <2>4. m \in Unsaved(v) => m \in Unsaved(v)'
    BY <1>4 DEF Same, Unsaved, Manual, NextIn
  <2> QED BY <2>1, <2>3, <2>4, PendingStays
<1> QED BY <1>2, <1>3, <1>4, StepLocals

LEMMA StepKept ==
    ASSUME PipeInv, Story, Keeping, Preserved, [Next]_vars, RowsStay,
           NEW m \in Messenger, NEW a \in Alert
    PROVE  KeptTrue(m, a)'
<1> SUFFICES ASSUME outcome'[a] = "done", Firing(a)', m \notin NoId, <<m, a>> \in posted'
             PROVE  pending'[<<m, a>>] # None
  BY DEF KeptTrue
<1>1. CASE outcome[a] = "done"
  <2>1. data'[a] = data[a]
    BY <1>1 DEF Preserved, Begun
  <2>2. <<m, a>> \in posted
    BY <1>1, PostedByOwner
  <2>3. pending[<<m, a>>] # None
    BY <1>1, <2>1, <2>2 DEF Keeping, KeptTrue, Firing
  <2> QED BY <2>3, PendingStays
<1>2. ASSUME NEW w \in Worker, job[w] = a, pc[w] # "rest", data' = data,
             \/ MarkResolved(w) \/ MarkResolvedFails(w) \/ LookupFails(w) \/ Complete(w)
      PROVE  pending'[<<m, a>>] # None
  <2>1. Firing(a)
    BY <1>2 DEF Firing
  <2>2. pc[w] \notin {"rest", "mark", "notify"}
    BY <1>2, <2>1 DEF Story, PlaceTrue
  <2>3. LookupFails(w) \/ Complete(w)
    BY <1>2, <2>2 DEF MarkResolved, MarkResolvedFails
  <2>4. posted' = posted /\ Unsaved(w) = {}
    BY <2>2, <2>3 DEF LookupFails, Complete, chat, Unsaved
  <2>5. pending[<<m, a>>] # None
    BY <1>2, <2>2, <2>4 DEF Keeping, SavingTrue
  <2> QED BY <2>5, PendingStays
<1> QED BY <1>1, <1>2, DoneChanges

LEMMA StepKeeping == ASSUME PipeInv, Story, Keeping, [Next]_vars PROVE Keeping'
<1> SUFFICES ASSUME RowsStay
             PROVE  /\ \A w \in Worker : SavingTrue(w)'
                    /\ \A m \in Messenger, a \in Alert : KeptTrue(m, a)'
  BY DEF Keeping, RowsStay
<1> QED BY StepSaving, StepKept, StepPreserved

\* A mention under the message of an alert that is over finds the row of it.
LEMMA RecoversStored ==
    ASSUME PipeInv, Story, Keeping, RowsStay, NEW m \in Messenger \ NoId, NEW t \in Alert,
           outcome[t] = "done", Firing(t), <<m, t>> \in posted
    PROVE  Stored(m, t) # None /\ Stored(m, t) = data[t]
<1>1. pending[<<m, t>>] # None
  BY DEF Keeping, KeptTrue
<1> QED BY <1>1 DEF Stored, Story, PendingTrue

LEMMA StepRecovers ==
    ASSUME PipeInv, Story, Keeping, [Next]_vars, RowsStay, NEW a \in Alert, NEW t \in Alert,
           data[a] = None, data'[a] # None,
           data'[a].thread = t, data'[a].of \notin NoId,
           IsAnalyzeCommand(data'[a].command),
           outcome[t] = "done", Firing(t)
    PROVE  /\ data'[a].command = "reanalyze"
           /\ data'[a].fp = data[t].fp /\ data'[a].env = data[t].env
           /\ data'[a].synthetic = data[t].synthetic
<1> USE PipelineAssumption
<1>1. PICK m \in Listener, s \in Thread, c \in {"chat", "analyze", "reanalyze"} :
        /\ s \in Alert => <<m, s>> \in posted
        /\ \/ /\ data'[a] = Synthetic(m, s, c)
              /\ s # TopLevel /\ IsAnalyzeCommand(c) /\ Stored(m, s) # None
                   => "find" \in Mishaps
           \/ Stored(m, s) # None /\ data'[a] = Recovered(m, s)
  <2>1. t # TopLevel
    OBVIOUS
  <2>2. data'[a] # data[a] /\ data'[a].thread # TopLevel
    BY <2>1
  <2> QED BY <2>2, DataChanges, SMTT(30)
<1>2. CASE /\ data'[a] = Synthetic(m, s, c)
           /\ s # TopLevel /\ IsAnalyzeCommand(c) /\ Stored(m, s) # None => "find" \in Mishaps
  <2>1. s = t /\ m \notin NoId /\ IsAnalyzeCommand(c)
    BY <1>2 DEF Synthetic
  <2>2. Stored(m, t) # None
    BY <1>1, <2>1, RecoversStored
  <2> QED BY <1>2, <2>1, <2>2 DEF RowsStay
<1>3. CASE Stored(m, s) # None /\ data'[a] = Recovered(m, s)
  <2>1. Stored(m, s) \in Data
    BY <1>3 DEF Stored, PipeInv, TypeOK
  <2>2. /\ data'[a].of = m /\ data'[a].thread = s /\ data'[a].command = "reanalyze"
        /\ data'[a].fp = Stored(m, s).fp /\ data'[a].env = Stored(m, s).env
        /\ data'[a].synthetic = Stored(m, s).synthetic
    BY <1>3, <2>1, RecoveredKeeps DEF Recovered
  <2>3. s = t /\ m \in Messenger \ NoId /\ <<m, t>> \in posted
    BY <1>1, <2>2
  <2>4. Stored(m, s) = data[t]
    BY <2>3, RecoversStored
  <2> QED BY <2>2, <2>4
<1> QED BY <1>1, <1>2, <1>3

\* In both modes, and also after a restart, an analyze command in the thread
\* of an alert that is over becomes that alert (messengerHandler).
THEOREM PipelineMentionRecovers == Spec => MentionRecovers
<1>1. PipeInv /\ Story /\ Keeping /\ [Next]_vars => Keeping'
  BY StepKeeping
<1>2. PipeInv /\ Story /\ Keeping /\ [Next]_vars => [RecoversMention]_vars
  BY StepRecovers DEF RowsStay, RecoversMention
<1> QED BY <1>1, <1>2, InitTelling, PipelineStory, PTL DEF Spec, MentionRecovers

-----------------------------------------------------------------------------
(* Process comes to an end.  Every call it makes brings a worker closer to  *)
(* its return, nobody else takes it back, and nobody waits for anyone who   *)
(* waits.                                                                   *)

\* How many calls a worker at p has before it at most, with n messengers to go
\* in its loop.  (The two modes differ in where Save belongs.)
CallsFrom(p, n) ==
    LET all == Cardinality(Messenger) IN
    [rest    |-> 0,
     notify  |-> n + 1,
     deliver |-> n + 1,
     mark    |-> all + 2,
     store   |-> all + 2,
     analyze |-> all + 3,
     await   |-> all + 4,
     lookup  |-> all + 5,
     save    |-> IF Manual THEN 2 * all + 6 + 2 * n ELSE all + 6 + n,
     post    |-> 2 * all + 7 + 2 * n][p]

CallsLeft(w) == CallsFrom(pc[w], Cardinality(todo[w]))

\* A loop over messengers has an end.
LEMMA LoopCount ==
    ASSUME NEW S \in SUBSET Messenger
    PROVE  /\ Cardinality(Messenger) \in Nat
           /\ Cardinality(S) \in 0..Cardinality(Messenger)
           /\ \A m \in S : Cardinality(S \ {m}) = Cardinality(S) - 1
<1>1. IsFiniteSet(Messenger)
  BY PipelineAssumption
<1>2. IsFiniteSet(S) /\ Cardinality(S) <= Cardinality(Messenger)
  BY <1>1, FS_Subset
<1>3. Cardinality(S) \in Nat /\ Cardinality(Messenger) \in Nat
  BY <1>1, <1>2, FS_CardinalityType
<1>4. \A m \in S : Cardinality(S \ {m}) = Cardinality(S) - 1
  BY <1>2, FS_RemoveElement
<1> QED BY <1>2, <1>3, <1>4

\* The least of the messengers left is next.
LEMMA SomeNext ==
    ASSUME NEW S \in SUBSET Messenger, S # {}
    PROVE  NextIn(S) # {}
<1>1. S \subseteq Nat
  BY PipelineAssumption
<1>2. PICK m \in S : \A n \in S : <<n, m>> \notin OpToRel(<, Nat)
  BY <1>1, NatLessThanWellFounded, WFMin
<1>3. ASSUME NEW n \in S PROVE m <= n
  <2>1. <<n, m>> \in Nat \X Nat /\ <<n, m>>[1] = n /\ <<n, m>>[2] = m
    BY <1>1
  <2>2. ~(n < m)
    BY <1>2, <2>1 DEF OpToRel
  <2> QED BY <1>1, <2>2
<1> QED BY <1>2, <1>3 DEF NextIn

\* The table, line by line.
LEMMA CallsTable ==
    ASSUME NEW n
    PROVE  LET all == Cardinality(Messenger) IN
           /\ CallsFrom("rest", n) = 0
           /\ CallsFrom("notify", n) = n + 1
           /\ CallsFrom("deliver", n) = n + 1
           /\ CallsFrom("mark", n) = all + 2
           /\ CallsFrom("store", n) = all + 2
           /\ CallsFrom("analyze", n) = all + 3
           /\ CallsFrom("await", n) = all + 4
           /\ CallsFrom("lookup", n) = all + 5
           /\ CallsFrom("save", n) = IF Manual THEN 2 * all + 6 + 2 * n ELSE all + 6 + n
           /\ CallsFrom("post", n) = 2 * all + 7 + 2 * n
BY DEF CallsFrom

\* The control flow of Process: from p, with n messengers to go, to q with k.
Follows(p, n, q, k) ==
    \/ p # "rest" /\ q = "rest"
    \/ p = "mark" /\ q = "notify"
    \/ p \in {"notify", "deliver", "post"} /\ q = p /\ k = n - 1
    \/ p = "post" /\ q = "save" /\ (~Manual \/ k = n)
    \/ p = "save" /\ q = (IF Manual THEN "post" ELSE "save") /\ k = n - 1
    \/ p = "save" /\ q \in {"await", "lookup"}
    \/ p = "lookup" /\ q \in {"await", "deliver"}
    \/ p = "await" /\ q \in {"analyze", "deliver"}
    \/ p = "analyze" /\ q \in {"store", "deliver"}
    \/ p = "store" /\ q = "deliver"

\* A step that follows leaves fewer calls.
LEMMA FollowingAdvances ==
    ASSUME NEW p \in Step, NEW n \in 0..Cardinality(Messenger),
           NEW q \in Step, NEW k \in 0..Cardinality(Messenger), Follows(p, n, q, k)
    PROVE  CallsFrom(q, k) < CallsFrom(p, n)
<1> DEFINE all == Cardinality(Messenger)
<1>1. all \in Nat
  BY PipelineAssumption, FS_CardinalityType
<1>2. n \in Nat /\ k \in Nat /\ n <= all /\ k <= all
  BY <1>1
<1>3. ASSUME p # "rest" PROVE CallsFrom(p, n) > 0
  BY <1>1, <1>2, <1>3, CallsTable DEF Step
<1>4. CASE p # "rest" /\ q = "rest"
  BY <1>1, <1>2, <1>3, <1>4, CallsTable DEF Step
<1>5. CASE p \in {"notify", "deliver", "post"} /\ q = p /\ k = n - 1
  BY <1>1, <1>2, <1>5, CallsTable
<1>6. CASE p = "post" /\ q = "save" /\ (~Manual \/ k = n)
  BY <1>1, <1>2, <1>6, CallsTable
<1>7. CASE p = "save" /\ q = (IF Manual THEN "post" ELSE "save") /\ k = n - 1
  BY <1>1, <1>2, <1>7, CallsTable
<1>8. CASE p \in {"save", "lookup", "await", "analyze", "store", "mark"}
           /\ q \in {"lookup", "await", "analyze", "store", "deliver", "notify"} 
  BY <1>1, <1>2, <1>8, CallsTable, Follows(p, n, q, k) DEF Follows
<1> QED BY <1>4, <1>5, <1>6, <1>7, <1>8 DEF Follows

\* A step of Process follows its control flow.
LEMMA WorkFollows ==
    ASSUME PipeInv, NEW w \in Worker, pc[w] # "rest", Work(w)
    PROVE  Follows(pc[w], Cardinality(todo[w]), pc'[w], Cardinality(todo'[w]))
<1> USE DEF PipeInv
<1>0. /\ todo[w] \in SUBSET Messenger
      /\ \A m \in todo[w] : Cardinality(todo[w] \ {m}) = Cardinality(todo[w]) - 1
      /\ NextIn(todo[w]) \subseteq todo[w]
  BY LoopCount DEF TypeOK, NextIn
<1>1. ~Begin(w)
  BY PoolAssumption DEF Begin, Take, Control, TypeOK, PoolTypeOK
<1>2. ASSUME Return(w) PROVE pc'[w] = "rest"
  BY <1>2 DEF Return, TypeOK
<1>3. CASE MarkResolved(w) \/ MarkResolvedFails(w) \/ LookupFails(w) \/ Complete(w)
  BY <1>2, <1>3 DEF MarkResolved, MarkResolvedFails, LookupFails, Complete, TypeOK, Follows
<1>4. CASE Notify(w) \/ PostFails(w) \/ Deliver(w)
  BY <1>0, <1>4 DEF Notify, PostFails, Deliver, TypeOK, Follows
<1>5. CASE Post(w)
  BY <1>0, <1>5 DEF Post, TypeOK, Follows
<1>6. CASE EndPost(w) \/ EndSave(w)
  BY <1>6 DEF EndPost, EndSave, TypeOK, Follows
<1>7. CASE Save(w)
  BY <1>0, <1>7 DEF Save, TypeOK, Follows
<1>8. CASE Hit(w) \/ Miss(w) \/ Acquire(w) \/ AwaitFails(w) \/ Analyzed(w) \/ AnalysisFails(w)
           \/ Store(w)
  BY <1>8 DEF Hit, Miss, Acquire, AwaitFails, Analyzed, AnalysisFails, Store, Answering, TypeOK,
     Follows
<1> QED BY <1>1, <1>3, <1>4, <1>5, <1>6, <1>7, <1>8 DEF Work

\* Every step a worker takes in Process brings it closer to the end, and no
\* step of anyone else takes it further away.
ProcessAdvances ==
    [][\A w \in Worker : pc[w] # "rest" =>
          /\ Work(w) => CallsLeft(w)' < CallsLeft(w)
          /\ CallsLeft(w)' <= CallsLeft(w)]_vars

\* What a worker waits for is there: the next of its messengers, or a place in
\* the semaphore.  Everything else it only has to do.
CanGoOn(w) ==
    \/ pc[w] \in {"mark", "lookup", "analyze", "store"}
    \/ pc[w] \in {"notify", "post", "save", "deliver"} /\ (todo[w] = {} \/ NextIn(todo[w]) # {})
    \/ pc[w] = "await" /\ slots < MaxLLM

\* Who cannot go on waits for a place, and whoever has it can.
NobodyStuck ==
    \A w \in Worker : pc[w] # "rest" =>
        \/ CanGoOn(w)
        \/ pc[w] = "await" /\ \E v \in Worker : pc[v] = "analyze" /\ CanGoOn(v)

\* At most so many calls are made for an alert.
MaxSteps == 4 * Cardinality(Messenger) + 7

\* Nowhere in Process are there more calls ahead than MaxSteps.
LEMMA CallsBounded ==
    ASSUME TypeOK, NEW w \in Worker
    PROVE  CallsLeft(w) \in 0..MaxSteps
<1> DEFINE all == Cardinality(Messenger)
           n   == Cardinality(todo[w])
<1>1. pc[w] \in Step /\ all \in Nat /\ n \in 0..all
  BY LoopCount DEF TypeOK
<1>2. n \in Nat /\ n <= all
  BY <1>1
<1> QED BY <1>1, <1>2, CallsTable DEF CallsLeft, MaxSteps, Step

\* Every step of a worker leaves it fewer calls, and no other step gives it more.
LEMMA StepAdvances ==
    ASSUME PipeInv, PipeInv', [Next]_vars, NEW w \in Worker, pc[w] # "rest"
    PROVE  /\ Work(w) => CallsLeft(w)' < CallsLeft(w)
           /\ CallsLeft(w)' <= CallsLeft(w)
<1> USE DEF PipeInv
<1>1. /\ pc[w] \in Step /\ Cardinality(todo[w]) \in 0..Cardinality(Messenger)
      /\ pc'[w] \in Step /\ Cardinality(todo'[w]) \in 0..Cardinality(Messenger)
  BY LoopCount DEF TypeOK
<1>2. CallsLeft(w) \in Nat /\ CallsLeft(w)' \in Nat
  <2>1. CallsLeft(w) \in 0..MaxSteps /\ MaxSteps \in Int
    BY CallsBounded, LoopCount DEF MaxSteps
  <2>2. CallsLeft(w)' \in Nat
    BY <1>1, CallsTable, LoopCount DEF CallsLeft, Step
  <2> QED BY <2>1, <2>2
<1>3. ASSUME Work(w) PROVE CallsLeft(w)' < CallsLeft(w)
  BY <1>1, <1>3, WorkFollows, FollowingAdvances DEF CallsLeft
<1>4. CASE pc'[w] = pc[w] /\ todo'[w] = todo[w]
  BY <1>2, <1>3, <1>4 DEF CallsLeft
<1>5. CASE pc'[w] = "rest"
  BY <1>2, <1>3, <1>5, CallsTable DEF CallsLeft
<1>6. CASE Work(w)
  BY <1>2, <1>3, <1>6
<1>7. \/ pc'[w] = pc[w] /\ todo'[w] = todo[w]
      \/ pc'[w] = "rest"
      \/ Work(w)
  <2>1. ASSUME NEW v \in Worker, Work(v) PROVE v = w \/ Same(w)
    BY <2>1, OthersSame
  <2>2. CASE \E a \in Alert : Arrival(a)
    BY <2>2, ZenonT(60) DEF Arrival, Webhook, HandIn, Mention, local
  <2>3. CASE \/ StopPool
             \/ \E v \in Worker : Leave(v)
             \/ \E f \in Fingerprint : Expire(f)
             \/ \E m \in Messenger, b \in Alert : CleanupPending(m, b)
             \/ UNCHANGED vars
    BY <2>3 DEF StopPool, Leave, Expire, CleanupPending, vars, local
  <2>4. CASE Reboot
    BY <2>4 DEF Reboot
  <2> QED BY <2>1, <2>2, <2>3, <2>4 DEF Next, Same
<1> QED BY <1>3, <1>4, <1>5, <1>6, <1>7

\* A worker inside Process can go on, or waits for one that can.
LEMMA NobodyIsStuck == PipeInv /\ LLMBound => NobodyStuck
<1> SUFFICES ASSUME PipeInv, LLMBound, NEW w \in Worker, pc[w] # "rest"
             PROVE  CanGoOn(w) \/ (pc[w] = "await" /\ \E v \in Worker : pc[v] = "analyze" /\ CanGoOn(v))
  BY DEF NobodyStuck
<1>1. pc[w] \in Step /\ todo[w] \in SUBSET Messenger
  BY DEF PipeInv, TypeOK
<1>2. todo[w] = {} \/ NextIn(todo[w]) # {}
  BY <1>1, SomeNext
<1>3. CASE pc[w] = "await" /\ slots >= MaxLLM
  <2>1. Cardinality(Analyzing) # 0
    BY <1>3, PipelineAssumption DEF LLMBound
  <2>2. Analyzing # {}
    BY <2>1, FS_EmptySet
  <2>3. PICK v \in Worker : pc[v] = "analyze"
    BY <2>2 DEF Analyzing
  <2> QED BY <1>3, <2>3 DEF CanGoOn
<1>4. CASE pc[w] = "await" /\ ~(slots >= MaxLLM)
  BY <1>4, PipelineAssumption DEF PipeInv, TypeOK, CanGoOn
<1> QED BY <1>1, <1>2, <1>3, <1>4 DEF Step, CanGoOn

\* A worker is through with an alert after at most MaxSteps calls, whatever
\* fails and whoever else is at work, and is not kept waiting by one who waits.
THEOREM PipelineProcessEnds ==
    Spec => /\ ProcessAdvances
            /\ [](\A w \in Worker : CallsLeft(w) \in 0..MaxSteps)
            /\ []NobodyStuck
<1>1. PipeInv /\ PipeInv' /\ [Next]_vars =>
        [\A w \in Worker : pc[w] # "rest" =>
            /\ Work(w) => CallsLeft(w)' < CallsLeft(w)
            /\ CallsLeft(w)' <= CallsLeft(w)]_vars
  BY StepAdvances
<1>2. PipeInv => \A w \in Worker : CallsLeft(w) \in 0..MaxSteps
  BY CallsBounded DEF PipeInv
<1> QED BY <1>1, <1>2, NobodyIsStuck, PipelineInvariant, PTL DEF Spec, ProcessAdvances
=============================================================================
