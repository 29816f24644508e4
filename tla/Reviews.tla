------------------------------- MODULE Reviews -------------------------------
(***************************************************************************)
(* The noise-reduction review: Reviewer of internal/review/review.go, the  *)
(* alert_reviews table (internal/cache/reviews.go) and the dashboard's     *)
(* button (apiAlertReviewRun in internal/webui/handler_pages.go).  The     *)
(* scheduled loop and every press of the button attempt a review; an       *)
(* atomic flag lets one of them through.                                   *)
(*                                                                         *)
(* Time is hours of age, capped where the code stops telling them apart.   *)
(***************************************************************************)
EXTENDS Integers, FiniteSets

CONSTANTS
    Press,       \* bound: presses of the button
    Loop,        \* RunLoop, the goroutine of the schedule
    Environment, \* environments alerts come from
    All,         \* no environment asked for: all of them
    Interval,    \* stats.review_interval, also the window the loop looks at
    Window,      \* the window a press asks for
    MaxMishaps   \* bound: calls to the database and the LLM that fail

ASSUME ReviewsAssumption ==
    /\ Loop \notin Press /\ IsFiniteSet(Press)
    /\ All \notin Environment
    /\ Interval \in Nat \ {0} /\ Window \in Nat \ {0}
    /\ MaxMishaps \in Nat

Attempt == Press \cup {Loop}
Scope   == Environment \cup {All}
Old     == IF Interval < Window THEN Window ELSE Interval

VARIABLES
    reviewing,  \* the running flag
    doing,      \* where each attempt is
    scope,      \* the environment it is about
    outcome,    \* how its run ended
    lastError,  \* the error LastError returns
    reviewAge,  \* hours since the newest review of each environment, Old if none
    alertAge,   \* hours since the last alert of each environment
    ticked,     \* the hourly ticker has fired
    leaving,    \* the program's context is cancelled
    mishaps,
    ended       \* history: the outcome of the run that ended last

recency    == <<reviewAge, alertAge>>
reviewVars == <<reviewing, doing, scope, outcome, lastError, recency, ticked, leaving, mishaps, ended>>

Outcome == {"none", "ok", "stats", "quiet", "llm", "save"}

\* Between taking the flag and giving it back.
Inside == {"count", "chat", "save", "report", "release"}

ReviewsTypeOK ==
    /\ reviewing \in BOOLEAN
    /\ doing \in [Attempt -> {"idle", "sleep", "check", "claim", "ask", "done", "conflict", "error", "gone"} \cup Inside]
    /\ scope \in [Attempt -> Scope]
    /\ outcome \in [Attempt -> Outcome]
    /\ lastError \in Outcome
    /\ reviewAge \in [Scope -> 0..Old]
    /\ alertAge \in [Environment -> 0..Old]
    /\ ticked \in BOOLEAN /\ leaving \in BOOLEAN
    /\ mishaps \in Nat
    /\ ended \in Outcome

\* RunLoop begins with a check; the database may hold a review of earlier.
ReviewsInit ==
    /\ reviewing = FALSE
    /\ doing = [p \in Attempt |-> IF p = Loop THEN "check" ELSE "idle"]
    /\ scope \in {s \in [Attempt -> Scope] : s[Loop] = All}
    /\ outcome = [p \in Attempt |-> "none"]
    /\ lastError = "none"
    /\ reviewAge \in {[e \in Scope |-> IF e = All THEN i ELSE Old] : i \in {0, Old}}
    /\ alertAge = [e \in Environment |-> Old]
    /\ ticked = FALSE /\ leaving = FALSE
    /\ mishaps = 0
    /\ ended = "none"

-----------------------------------------------------------------------------
Moves(p, there) == doing' = [doing EXCEPT ![p] = there]

\* A call fails; with a cancelled context every call of the loop does.
Fails(p) ==
    \/ p = Loop /\ leaving /\ UNCHANGED mishaps
    \/ mishaps < MaxMishaps /\ mishaps' = mishaps + 1
Works(p) == p # Loop \/ ~leaving

\* The run is over.
Ends(p, how) ==
    /\ outcome' = [outcome EXCEPT ![p] = how]
    /\ ended' = how
    /\ Moves(p, "report")

\* The button: the handler asks the reviewer to start.
PressButton(p) ==
    /\ p # Loop /\ doing[p] = "idle"
    /\ Moves(p, "claim")
    /\ UNCHANGED <<reviewing, scope, outcome, lastError, recency, ticked, leaving, mishaps, ended>>

\* The loop's check: LatestReview over all environments.
Fresh == reviewAge[All] < Interval

LoopCheck ==
    /\ doing[Loop] = "check" /\ Works(Loop)
    /\ Moves(Loop, IF Fresh THEN "sleep" ELSE "claim")
    /\ UNCHANGED <<reviewing, scope, outcome, lastError, recency, ticked, leaving, mishaps, ended>>

LoopCannotRead ==
    /\ doing[Loop] = "check" /\ Fails(Loop)
    /\ Moves(Loop, "sleep")
    /\ UNCHANGED <<reviewing, scope, outcome, lastError, recency, ticked, leaving, ended>>

\* CompareAndSwap.
Claim(p) ==
    /\ doing[p] = "claim" /\ ~reviewing
    /\ reviewing' = TRUE
    /\ Moves(p, "count")
    /\ UNCHANGED <<scope, outcome, lastError, recency, ticked, leaving, mishaps, ended>>

\* ErrAlreadyRunning: the loop says nothing, the handler looks at the flag.
Refused(p) ==
    /\ doing[p] = "claim" /\ reviewing
    /\ Moves(p, IF p = Loop THEN "sleep" ELSE "ask")
    /\ UNCHANGED <<reviewing, scope, outcome, lastError, recency, ticked, leaving, mishaps, ended>>

\* The handler's errReviewRunning is another error than the reviewer's, so
\* the flag alone decides between 409 and 500.
Reply(p) ==
    /\ doing[p] = "ask"
    /\ Moves(p, IF reviewing THEN "conflict" ELSE "error")
    /\ UNCHANGED <<reviewing, scope, outcome, lastError, recency, ticked, leaving, mishaps, ended>>

\* Alerts received in the window: AlertStats' Total is not 0.
WindowOf(p) == IF p = Loop THEN Interval ELSE Window
Heard(p)    == \E e \in Environment : scope[p] \in {e, All} /\ alertAge[e] < WindowOf(p)

Count(p) ==
    /\ doing[p] = "count" /\ Works(p)
    /\ IF Heard(p) THEN Moves(p, "chat") /\ UNCHANGED <<outcome, ended>> ELSE Ends(p, "quiet")
    /\ UNCHANGED <<reviewing, scope, lastError, recency, ticked, leaving, mishaps>>

\* The LLM answers with a text.
Chat(p) ==
    /\ doing[p] = "chat" /\ Works(p)
    /\ Moves(p, "save")
    /\ UNCHANGED <<reviewing, scope, outcome, lastError, recency, ticked, leaving, mishaps, ended>>

\* SaveReview inserts a row, the newest of its environment.
Save(p) ==
    /\ doing[p] = "save" /\ Works(p)
    /\ reviewAge' = [reviewAge EXCEPT ![scope[p]] = 0]
    /\ Ends(p, "ok")
    /\ UNCHANGED <<reviewing, scope, lastError, alertAge, ticked, leaving, mishaps>>

\* A call fails, times out, or the LLM answers with nothing.
Stumble(p) ==
    /\ doing[p] \in {"count", "chat", "save"} /\ Fails(p)
    /\ Ends(p, IF doing[p] = "count" THEN "stats" ELSE IF doing[p] = "chat" THEN "llm" ELSE "save")
    /\ UNCHANGED <<reviewing, scope, lastError, recency, ticked, leaving>>

Kept(p) == IF outcome[p] = "ok" THEN "none" ELSE outcome[p]

\* Faulty: the flag is given back first.
ReportLate(p) ==
    \/ /\ doing[p] = "report" /\ reviewing
       /\ reviewing' = FALSE
       /\ UNCHANGED <<doing, scope, outcome, lastError, recency, ticked, leaving, mishaps, ended>>
    \/ /\ doing[p] = "report" /\ ~reviewing
       /\ lastError' = Kept(p)
       /\ Moves(p, "release")
       /\ UNCHANGED <<reviewing, scope, outcome, recency, ticked, leaving, mishaps, ended>>

\* setLastError, which also forgets an earlier error.
Report(p) ==
    /\ doing[p] = "report"
    /\ lastError' = Kept(p)
    /\ Moves(p, "release")
    /\ UNCHANGED <<reviewing, scope, outcome, recency, ticked, leaving, mishaps, ended>>

\* Faulty: the flag is given back after success only.
GiveBackIfDone(p) ==
    /\ doing[p] = "release"
    /\ reviewing' = (outcome[p] # "ok")
    /\ outcome' = [outcome EXCEPT ![p] = "none"]
    /\ Moves(p, IF p = Loop THEN "sleep" ELSE "done")
    /\ UNCHANGED <<scope, lastError, recency, ticked, leaving, mishaps, ended>>

\* The deferred Store(false).
GiveBack(p) ==
    /\ doing[p] = "release"
    /\ reviewing' = FALSE
    /\ outcome' = [outcome EXCEPT ![p] = "none"]
    /\ Moves(p, IF p = Loop THEN "sleep" ELSE "done")
    /\ UNCHANGED <<scope, lastError, recency, ticked, leaving, mishaps, ended>>

Wake ==
    /\ doing[Loop] = "sleep" /\ ticked
    /\ ticked' = FALSE
    /\ Moves(Loop, "check")
    /\ UNCHANGED <<reviewing, scope, outcome, lastError, recency, leaving, mishaps, ended>>

LoopEnds ==
    /\ doing[Loop] = "sleep" /\ leaving
    /\ Moves(Loop, "gone")
    /\ UNCHANGED <<reviewing, scope, outcome, lastError, recency, ticked, leaving, mishaps, ended>>

-----------------------------------------------------------------------------
Running == {p \in Attempt : doing[p] \in Inside}

\* An hour passes: everything gets older and the ticker fires.  A review takes
\* minutes: five at most for a press, the LLM client's timeouts for the loop.
Older(n) == IF n < Old THEN n + 1 ELSE Old

Hour ==
    /\ Running = {}
    /\ reviewAge' = [e \in Scope |-> Older(reviewAge[e])]
    /\ alertAge' = [e \in Environment |-> Older(alertAge[e])]
    /\ ticked' = TRUE
    /\ UNCHANGED <<reviewing, doing, scope, outcome, lastError, leaving, mishaps, ended>>

\* An alert is received (RecordEvent).
Hear(e) ==
    /\ alertAge' = [alertAge EXCEPT ![e] = 0]
    /\ UNCHANGED <<reviewing, doing, scope, outcome, lastError, reviewAge, ticked, leaving, mishaps, ended>>

Cancel ==
    /\ ~leaving /\ leaving' = TRUE
    /\ UNCHANGED <<reviewing, doing, scope, outcome, lastError, recency, ticked, mishaps, ended>>

RunReview(p) == Claim(p) \/ Refused(p) \/ Reply(p) \/ Count(p) \/ Chat(p) \/ Save(p) \/ Stumble(p) \/ Report(p) \/ GiveBack(p)

RunLoop == LoopCheck \/ LoopCannotRead \/ Wake \/ LoopEnds

ReviewsNext ==
    \/ \E p \in Attempt : PressButton(p) \/ RunReview(p)
    \/ RunLoop
    \/ Hour \/ Cancel
    \/ \E e \in Environment : Hear(e)

ReviewsSpec == ReviewsInit /\ [][ReviewsNext]_reviewVars

-----------------------------------------------------------------------------
\* However the presses and the schedule interleave, one review is made at a
\* time, the flag is up exactly while one is, and whenever it is down
\* LastError tells how the last one went: no attempt overwrites the error of
\* a later one.
ReviewsInTurn ==
    /\ Cardinality(Running) = (IF reviewing THEN 1 ELSE 0)
    /\ ~reviewing => lastError = (IF ended = "ok" THEN "none" ELSE ended)

\* While alerts keep coming the scheduled reviews do, too: after any failure,
\* and whatever reviews are asked for in between, the newest review of all
\* environments is again and again younger than the interval.
ReviewsKeepComing ==
    \/ []<>Fresh
    \/ []<>(\A e \in Environment : alertAge[e] >= Interval)
    \/ <>leaving
=============================================================================
