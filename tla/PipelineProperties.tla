------------------------- MODULE PipelineProperties -------------------------
(***************************************************************************)
(* What module Pipeline is checked for, and, marked as such at the end,    *)
(* two statements of the repository that it does not live up to.         *)
(***************************************************************************)
EXTENDS Pipeline

-----------------------------------------------------------------------------
(* Safety.                                                                 *)

Firing(a)   == data[a] # None /\ data[a].status = "firing"
Analyzing   == {w \in Worker : pc[w] = "analyze"}
AnswersTo(a, m) == {x \in sent : x.for = a /\ x.m = m}

\* limiter.go: at most MaxLLM analyses run at a time, whichever way earlier
\* ones ended, and a place is occupied exactly as long as one runs: none
\* leaks on the error path or is given back twice.
LLMBound ==
    /\ slots = Cardinality(Analyzing)
    /\ slots <= MaxLLM

\* What is said under an alert's message is about that alert: an analysis
\* there is of an alert with the same fingerprint, an error is of its own
\* processing or of a re-analysis of it, and the message was really posted.
\* Concurrent alerts, cached rows, recovered mentions and failed sends never
\* mix up two threads.
RightThread ==
    \A x \in sent : x.thread \in Alert =>
        /\ <<x.m, x.thread>> \in posted
        /\ x.what # "hint" => Firing(x.thread)
        /\ x.what = "analysis" => data[x.by].fp = data[x.thread].fp
        /\ x.what = "error" => data[x.for].fp = data[x.thread].fp

\* A row of alerts_cache holds the analysis of a firing alert with the row's
\* fingerprint that a worker really began to process, through all upserts,
\* resolutions and restarts.
CacheIntegrity ==
    \A f \in Fingerprint : LET b == cache[f].by IN b # None =>
        /\ Firing(b)
        /\ data[b].fp = f
        /\ outcome[b] \in {"running", "done", "lost"}

\* A pending row is a copy of the alert whose message it is keyed by, and
\* that message was posted by a messenger that returns message IDs.
PendingMatches ==
    \A m \in Messenger, a \in Alert : pending[<<m, a>>] # None =>
        /\ pending[<<m, a>>] = data[a]
        /\ <<m, a>> \in posted
        /\ m \notin NoId

\* Manual mode never runs the LLM, serves the cache or reports an analysis
\* error unless somebody asked in a thread ("@bot analyze" as a reply).
ManualOnDemand ==
    Mode = "manual" =>
        /\ \A x \in sent : InThread(data[x.for])
        /\ \A w \in Analyzing : InThread(data[job[w]])

\* Of one alert every messenger gets the same answer, and only one: never an
\* error followed by an analysis, or an analysis here and an error there.
OneAnswer ==
    \A x, y \in sent : x.for = y.for =>
        /\ x.what = y.what /\ x.by = y.by
        /\ x.m = y.m => x = y

\* Nobody is left waiting: when Process has returned, every messenger has a
\* message about the alert, and an answer if it is one to analyze now.  Only
\* failed sends and failed database calls excuse it, never a failed analysis.
Told ==
    Mishaps \cap {"send", "get", "mark"} = {} =>
        \A a \in Alert, m \in Messenger : outcome[a] = "done" =>
            /\ ~InThread(data[a]) => <<m, a>> \in posted
            /\ Firing(a) /\ (Mode = "auto" \/ InThread(data[a])) => AnswersTo(a, m) # {}
            /\ data[a].status = "resolved" => AnswersTo(a, m) = {}

\* "reanalyze" means a new analysis: the answer to a recovered mention is
\* never the cached one, even when that was stored a moment before.
ReanalyzeIsFresh ==
    \A x \in sent :
        (x.what = "analysis" /\ data[x.for].command = "reanalyze") => x.by = x.for

-----------------------------------------------------------------------------
(* What a step may not do.                                                 *)

\* A mention that asks for an analysis in the thread of an alert whose
\* processing is over always recovers that alert, in both modes and also
\* after a restart (config.example.yaml: pending alerts survive restarts).
RecoversMention ==
    (~Aging /\ Mishaps \cap {"send", "save", "find"} = {}) =>
      \A a, t \in Alert :
         (/\ data[a] = None /\ data'[a] # None
          /\ data'[a].thread = t /\ data'[a].of \notin NoId
          /\ IsAnalyzeCommand(data'[a].command)
          /\ outcome[t] = "done" /\ Firing(t))
         => /\ data'[a].command = "reanalyze"
            /\ data'[a].fp = data[t].fp /\ data'[a].env = data[t].env
            /\ data'[a].synthetic = data[t].synthetic

\* No step takes in a mention in any other way (see RecoversMention).
MentionRecovers == [][RecoversMention]_vars

\* Once a resolution is on record it stays: neither a re-analysis nor a
\* restart clears resolved_at.
ResolutionKept == \A f \in Fingerprint : cache[f].resolved => cache'[f].resolved

\* No step takes a resolution away (see ResolutionKept).
ResolvedStays == [][ResolutionKept]_vars

-----------------------------------------------------------------------------
(* Liveness.                                                               *)

\* A mention in a thread is answered in that thread by the messenger it came
\* from, unless the process dies first or a call to the outside fails.
MentionAnswered ==
    \A a \in Alert :
        (/\ outcome[a] = "queued" /\ data[a] # None /\ InThread(data[a])
         /\ Mishaps \cap {"send", "get"} = {})
        ~> (\/ outcome[a] = "lost"
            \/ \E x \in AnswersTo(a, data[a].of) : x.thread = data[a].thread)

-----------------------------------------------------------------------------
(* What the comments promise and the code does not keep.                   *)

\* "we must not cache them, and must not feed them to the LLM with empty
\* context" (isSyntheticMention).  A mention outside any thread takes the
\* webhook flow, which does not ask isSyntheticMention.
SyntheticNeverAnalyzed ==
    /\ \A w \in Analyzing : ~data[job[w]].synthetic
    /\ \A f \in Fingerprint : cache[f].by # None => ~data[cache[f].by].synthetic

\* The analysis an alert gets was made with the connections of its own
\* environment; the cache is keyed by the fingerprint alone.
RightEnvironment ==
    \A x \in sent : x.what = "analysis" => data[x.by].env = data[x.for].env
=============================================================================
