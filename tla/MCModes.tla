------------------------------ MODULE MCModes -------------------------------
(***************************************************************************)
(* The pipeline in both modes within one model: "setting" says which, and  *)
(* each is an instance of PipelineProperties with constants of its own.    *)
(*                                                                         *)
(* "auto"    two workers race over one place in the LLM semaphore, on      *)
(*           three alerts of two fingerprints; analyses may fail           *)
(* "manual"  one worker at a time, over a restart, with two messengers of  *)
(*           which one returns no message IDs; analyses may fail           *)
(***************************************************************************)
EXTENDS Integers, FiniteSets, TLC

CONSTANTS
    Worker, Alert, QueueSize, Idle, Exited,
    Env, DefaultEnv, Listener, MaxLLM, Foreign, TopLevel, None,
    f1, f2, fm

VARIABLES
    queue, open, job, outcome, restarts,
    data, pc, todo, refs, out, cache, pending, events, slots, posted, sent,
    setting

\* The synthetic alert's fingerprint only has to differ from those of webhook
\* alerts.
SameMentionFp(messengers) == [m \in messengers |-> fm]

Auto == INSTANCE PipelineProperties WITH
    Mode <- "auto", Mishaps <- {"analyze"}, Aging <- FALSE, MaxRestarts <- 0,
    Messenger <- {1}, NoId <- {}, Fingerprint <- {f1, f2, fm}, MentionFp <- SameMentionFp({1})

ByHand == INSTANCE PipelineProperties WITH
    Mode <- "manual", Mishaps <- {"analyze"}, Aging <- FALSE, MaxRestarts <- 1,
    Messenger <- {1, 2}, NoId <- {2}, Fingerprint <- {f1, fm}, MentionFp <- SameMentionFp({1, 2})

Pool == INSTANCE WorkerPool WITH MaxRestarts <- 1

vars == <<Pool!poolVars, data, pc, todo, refs, out, cache, pending, events,
          slots, posted, sent, setting>>

-----------------------------------------------------------------------------
Init ==
    \/ setting = "auto" /\ Auto!Init
    \/ setting = "manual" /\ ByHand!Init

\* Bound: in manual mode one worker is busy at a time.
Next ==
    /\ UNCHANGED setting
    /\ \/ setting = "auto" /\ Auto!Next
       \/ setting = "manual" /\ ByHand!Next /\ Cardinality({w \in Worker : job'[w] \in Alert}) <= 1

Spec == Init /\ [][Next]_vars

\* Workers run the same loop, and alert instances are told apart by nothing
\* but their data.
Symmetry == Permutations(Worker) \cup Permutations(Alert)

-----------------------------------------------------------------------------
\* What is promised in the mode that runs.
InMode(auto, manual) == IF setting = "auto" THEN auto ELSE manual

\* Nobody is left waiting once Process has returned.
Told == InMode(Auto!Told, ByHand!Told)

\* In manual mode nothing is analyzed unless somebody asked in a thread.
ManualOnDemand == InMode(TRUE, ByHand!ManualOnDemand)

\* A mention asking for an analysis recovers the alert of its thread.
MentionRecovers == [][InMode(Auto!RecoversMention, ByHand!RecoversMention)]_vars

\* A resolution on record stays.
ResolvedStays == [][InMode(Auto!ResolutionKept, ByHand!ResolutionKept)]_vars
=============================================================================
