------------------------------ MODULE MCEndings ------------------------------
(***************************************************************************)
(* What must come to an end, for TLC: the processing of an alert and the   *)
(* shutdown, one model over the pool that both extend.  "part" says which  *)
(* is run; the other stays as it begins.                                   *)
(***************************************************************************)
EXTENDS Shutdown

CONSTANTS
    Arriving,   \* the alerts that arrive where they are processed
    Fingerprint, Env, DefaultEnv, Messenger, MaxLLM, Foreign, TopLevel, None, fm

VARIABLES
    part,
    data, pc, todo, refs, out, cache, pending, events, slots, posted, sent

\* Auto mode with a messenger that returns message IDs; analyses may fail.
Auto == INSTANCE PipelineProperties WITH
    Mode <- "auto", Mishaps <- {"analyze"}, Aging <- FALSE,
    NoId <- {}, Listener <- Messenger, MentionFp <- [m \in Messenger |-> fm]

pipelineVars == <<poolVars, data, pc, todo, refs, out, cache, pending, events, slots, posted, sent>>
allVars      == <<pipelineVars, vars, part>>

MCInit ==
    /\ part \in {"processing", "shutdown"}
    /\ Init
    /\ Auto!Init

Processing ==
    /\ part = "processing"
    /\ Auto!Next
    /\ \A a \in Alert \ Arriving : data'[a] = None
    /\ UNCHANGED <<phase, ctx, httpVars, timedOut>>

ShuttingDown ==
    /\ part = "shutdown"
    /\ Next
    /\ UNCHANGED <<data, pc, todo, refs, out, cache, pending, events, slots, posted, sent>>

MCNext == UNCHANGED part /\ (Processing \/ ShuttingDown)

\* The fairness of Pipeline!FairSpec, and that of Shutdown!FairSpec.
MCSpec ==
    /\ MCInit /\ [][MCNext]_allVars
    /\ \A w \in Worker : /\ WF_pipelineVars(part = "processing" /\ Auto!Work(w))
                         /\ WF_pipelineVars(part = "processing" /\ Auto!Leave(w))
                         /\ WF_vars(part = "shutdown" /\ Work(w))
    /\ WF_vars(part = "shutdown" /\ Main)

-----------------------------------------------------------------------------
\* A mention is answered in the thread it came from.
MentionAnswered == Auto!MentionAnswered
=============================================================================
