---------------------------- MODULE DashboardProofs ----------------------------
(***************************************************************************)
(* Proofs about what is behind the dashboard.                              *)
(*                                                                         *)
(* Reviews: one at a time, and an error that is the latest one's, for any  *)
(* number of presses, environments and mishaps (TurnInv).                  *)
(*                                                                         *)
(* The alerts page: a row is known by its RowRank, the number of rows in   *)
(* front of it.  Whatever is written, the rank of a row that is left       *)
(* alone only grows (RanksGrow), so a row that is due on a later page      *)
(* stays due, and the page that is read has it or there is one more        *)
(* (PagingInv).                                                            *)
(*                                                                         *)
(* The statistics: every notification is in one bucket, so sums over       *)
(* buckets count notifications (SumOfParts, CountedOnce), and tiles, lines *)
(* and filtered pages are about the same ones (TilesAgree); what the       *)
(* janitor takes has left every window (ForgottenLate).                    *)
(***************************************************************************)
EXTENDS Reviews, Statistics, Dashboard, FiniteSetTheorems, FunctionTheorems, WellFoundedInduction, TLAPS

-----------------------------------------------------------------------------
(* The reviews.                                                            *)

\* Ages stay within what the code tells apart.
LEMMA OldIsNat == Old \in Nat \ {0}
BY ReviewsAssumption DEF Old

LEMMA OlderIsAge == \A n \in 0..Old : Older(n) \in 0..Old
BY OldIsNat DEF Older

DoingPlace == {"idle", "sleep", "check", "claim", "ask", "done", "conflict", "error", "gone"} \cup Inside

\* An attempt goes from one place to another.
LEMMA MovesTyped ==
    ASSUME NEW p \in Attempt, NEW there \in DoingPlace, doing \in [Attempt -> DoingPlace], Moves(p, there)
    PROVE  /\ doing' \in [Attempt -> DoingPlace]
           /\ doing'[p] = there
           /\ \A q \in Attempt \ {p} : doing'[q] = doing[q]
BY DEF Moves

\* Whether a call fails or works, the count of mishaps stays a number.
LEMMA FailsTyped ==
    ASSUME NEW p, mishaps \in Nat, Fails(p)
    PROVE  mishaps' \in Nat
BY DEF Fails

\* Whatever an attempt does, its variables keep their types.
LEMMA RunReviewTyped ==
    ASSUME ReviewsTypeOK, NEW p \in Attempt, PressButton(p) \/ RunReview(p)
    PROVE  ReviewsTypeOK'
<1>1. /\ doing \in [Attempt -> DoingPlace] /\ outcome \in [Attempt -> Outcome] /\ lastError \in Outcome
      /\ reviewAge \in [Scope -> 0..Old] /\ scope \in [Attempt -> Scope] /\ ended \in Outcome
      /\ mishaps \in Nat /\ alertAge \in [Environment -> 0..Old]
      /\ reviewing \in BOOLEAN /\ ticked \in BOOLEAN /\ leaving \in BOOLEAN
    BY DEF ReviewsTypeOK, DoingPlace
<1> SUFFICES /\ doing' \in [Attempt -> DoingPlace] /\ outcome' \in [Attempt -> Outcome] /\ lastError' \in Outcome
             /\ reviewAge' \in [Scope -> 0..Old] /\ scope' \in [Attempt -> Scope] /\ ended' \in Outcome
             /\ mishaps' \in Nat /\ alertAge' \in [Environment -> 0..Old]
             /\ reviewing' \in BOOLEAN /\ ticked' \in BOOLEAN /\ leaving' \in BOOLEAN
    BY DEF ReviewsTypeOK, DoingPlace
<1>2. CASE PressButton(p)
    <2>1. "claim" \in DoingPlace
        BY DEF DoingPlace
    <2> QED BY <1>1, <1>2, <2>1, MovesTyped DEF PressButton, recency
<1>3. CASE Claim(p)
    <2>1. "count" \in DoingPlace
        BY DEF DoingPlace, Inside
    <2> QED BY <1>1, <1>3, <2>1, MovesTyped DEF Claim, recency
<1>4. CASE Refused(p)
    <2>1. (IF p = Loop THEN "sleep" ELSE "ask") \in DoingPlace
        BY DEF DoingPlace
    <2> QED BY <1>1, <1>4, <2>1, MovesTyped DEF Refused, recency
<1>5. CASE Reply(p)
    <2>1. (IF reviewing THEN "conflict" ELSE "error") \in DoingPlace
        BY DEF DoingPlace
    <2> QED BY <1>1, <1>5, <2>1, MovesTyped DEF Reply, recency
<1>6. ASSUME NEW how \in Outcome, Ends(p, how)
      PROVE  /\ doing' \in [Attempt -> DoingPlace] /\ outcome' \in [Attempt -> Outcome] /\ ended' \in Outcome
    <2>1. "report" \in DoingPlace
        BY DEF DoingPlace, Inside
    <2> QED BY <1>1, <1>6, <2>1, MovesTyped DEF Ends
<1>7. CASE Count(p)
    <2>1. "chat" \in DoingPlace
        BY DEF DoingPlace, Inside
    <2>2. "quiet" \in Outcome
        BY DEF Outcome
    <2>3. CASE Heard(p)
        BY <1>1, <1>7, <2>1, <2>3, MovesTyped DEF Count, recency
    <2>4. CASE ~Heard(p)
        BY <1>1, <1>6, <1>7, <2>2, <2>4 DEF Count, recency
    <2> QED BY <2>3, <2>4
<1>8. CASE Chat(p)
    <2>1. "save" \in DoingPlace
        BY DEF DoingPlace, Inside
    <2> QED BY <1>1, <1>8, <2>1, MovesTyped DEF Chat, recency
<1>9. CASE Save(p)
    <2>1. "ok" \in Outcome
        BY DEF Outcome
    <2>2. reviewAge' \in [Scope -> 0..Old]
        BY <1>1, <1>9, OldIsNat DEF Save
    <2> QED BY <1>1, <1>6, <1>9, <2>1, <2>2 DEF Save
<1>10. CASE Stumble(p)
    <2>1. (IF doing[p] = "count" THEN "stats" ELSE IF doing[p] = "chat" THEN "llm" ELSE "save") \in Outcome
        BY DEF Outcome
    <2>2. mishaps' \in Nat
        BY <1>1, <1>10, FailsTyped DEF Stumble
    <2> QED BY <1>1, <1>6, <1>10, <2>1, <2>2 DEF Stumble, recency
<1>11. CASE Report(p)
    <2>1. "release" \in DoingPlace
        BY DEF DoingPlace, Inside
    <2>2. Kept(p) \in Outcome
        BY <1>1 DEF Kept, Outcome
    <2> QED BY <1>1, <1>11, <2>1, <2>2, MovesTyped DEF Report, recency
<1>12. CASE GiveBack(p)
    <2>1. (IF p = Loop THEN "sleep" ELSE "done") \in DoingPlace
        BY DEF DoingPlace
    <2>2. outcome' \in [Attempt -> Outcome]
        BY <1>1, <1>12 DEF GiveBack, Outcome
    <2> QED BY <1>1, <1>12, <2>1, <2>2, MovesTyped DEF GiveBack, recency
<1> QED BY <1>2, <1>3, <1>4, <1>5, <1>7, <1>8, <1>9, <1>10, <1>11, <1>12 DEF RunReview

\* Nor does what goes on around the attempts change a type.
LEMMA AroundTyped ==
    ASSUME ReviewsTypeOK, RunLoop \/ Hour \/ Cancel \/ \E e \in Environment : Hear(e)
    PROVE  ReviewsTypeOK'
<1>1. /\ doing \in [Attempt -> DoingPlace] /\ Loop \in Attempt
      /\ reviewAge \in [Scope -> 0..Old] /\ mishaps \in Nat /\ alertAge \in [Environment -> 0..Old]
    BY DEF ReviewsTypeOK, DoingPlace, Attempt
<1>2. CASE RunLoop
    <2>1. {"sleep", "claim", "check", "gone"} \subseteq DoingPlace
        BY DEF DoingPlace
    <2>2. doing' \in [Attempt -> DoingPlace]
        BY <1>1, <1>2, <2>1, MovesTyped DEF RunLoop, LoopCheck, LoopCannotRead, Wake, LoopEnds
    <2>3. mishaps' \in Nat
        BY <1>1, <1>2, FailsTyped DEF RunLoop, LoopCheck, LoopCannotRead, Wake, LoopEnds
    <2>4. /\ ticked' \in BOOLEAN
          /\ UNCHANGED <<reviewing, scope, outcome, lastError, reviewAge, alertAge, leaving, ended>>
        BY <1>2 DEF RunLoop, LoopCheck, LoopCannotRead, Wake, LoopEnds, recency, ReviewsTypeOK
    <2> QED BY <2>2, <2>3, <2>4 DEF ReviewsTypeOK, DoingPlace
<1>3. CASE Hour
    <2>1. reviewAge' \in [Scope -> 0..Old] /\ alertAge' \in [Environment -> 0..Old]
        BY <1>1, <1>3, OlderIsAge DEF Hour
    <2> QED BY <1>3, <2>1 DEF Hour, ReviewsTypeOK
<1>4. CASE Cancel
    BY <1>4 DEF Cancel, ReviewsTypeOK, recency
<1>5. ASSUME NEW e \in Environment, Hear(e) PROVE ReviewsTypeOK'
    <2>1. alertAge' \in [Environment -> 0..Old]
        BY <1>1, <1>5, OldIsNat DEF Hear
    <2> QED BY <1>5, <2>1 DEF Hear, ReviewsTypeOK
<1> QED BY <1>2, <1>3, <1>4, <1>5

\* The beginning.
LEMMA ReviewsTypedInit == ReviewsInit => ReviewsTypeOK
<1> SUFFICES ASSUME ReviewsInit PROVE ReviewsTypeOK
    OBVIOUS
<1>1. Old \in 0..Old /\ 0 \in 0..Old
    BY OldIsNat
<1>2. reviewAge \in [Scope -> 0..Old] /\ alertAge \in [Environment -> 0..Old]
    BY <1>1 DEF ReviewsInit
<1> QED BY <1>2 DEF ReviewsInit, ReviewsTypeOK, Outcome

\* The variables of the review keep their types.
THEOREM ReviewsTypeCorrect == ReviewsSpec => []ReviewsTypeOK
<1>1. ReviewsTypeOK /\ [ReviewsNext]_reviewVars => ReviewsTypeOK'
    <2> SUFFICES ASSUME ReviewsTypeOK, [ReviewsNext]_reviewVars PROVE ReviewsTypeOK'
        OBVIOUS
    <2>1. CASE UNCHANGED reviewVars
        BY <2>1 DEF reviewVars, recency, ReviewsTypeOK
    <2> QED BY <2>1, RunReviewTyped, AroundTyped DEF ReviewsNext
<1> QED BY <1>1, ReviewsTypedInit, PTL DEF ReviewsSpec

-----------------------------------------------------------------------------
(* One at a time.                                                          *)

\* Whoever is between taking the flag and giving it back is the only one
\* there, and the flag is up because of it.
OneAtATime ==
    /\ \A p \in Attempt : doing[p] \in Inside => reviewing
    /\ \A p, q \in Attempt : doing[p] \in Inside /\ doing[q] \in Inside => p = q
    /\ reviewing => \E p \in Attempt : doing[p] \in Inside

\* Between the end of a run and its report LastError is behind; the run knows.
Told == IF ended = "ok" THEN "none" ELSE ended

ErrorKnown ==
    /\ (\A p \in Attempt : doing[p] # "report") => lastError = Told
    /\ \A p \in Attempt : doing[p] = "report" => outcome[p] = ended

TurnInv == ReviewsTypeOK /\ OneAtATime /\ ErrorKnown

\* No review has been asked for.
LEMMA TurnInvInit == ReviewsInit => TurnInv
<1> SUFFICES ASSUME ReviewsInit PROVE TurnInv
    OBVIOUS
<1>1. reviewing = FALSE /\ lastError = "none" /\ ended = "none" /\ \A p \in Attempt : doing[p] \in {"check", "idle"}
    BY DEF ReviewsInit
<1>2. OneAtATime
    BY <1>1 DEF OneAtATime, Inside
<1>3. ErrorKnown
    BY <1>1 DEF ErrorKnown, Told
<1> QED BY <1>2, <1>3, ReviewsTypedInit DEF TurnInv

\* An attempt that is on neither side of the flag moves on.
LEMMA OutsideStep ==
    ASSUME TurnInv, NEW p \in Attempt, NEW there, Moves(p, there),
           doing[p] \notin Inside, there \notin Inside,
           UNCHANGED <<reviewing, outcome, lastError, ended>>
    PROVE  OneAtATime' /\ ErrorKnown'
<1>1. doing'[p] = there /\ \A q \in Attempt \ {p} : doing'[q] = doing[q]
    BY DEF TurnInv, ReviewsTypeOK, Moves
<1>2. "report" \in Inside
    BY DEF Inside
<1>3. OneAtATime'
    BY <1>1 DEF TurnInv, OneAtATime
<1>4. ErrorKnown'
    BY <1>1, <1>2 DEF TurnInv, ErrorKnown, Told
<1> QED BY <1>3, <1>4

\* The flag is down, so nobody else is inside.
LEMMA ClaimStep ==
    ASSUME TurnInv, NEW p \in Attempt, Claim(p)
    PROVE  OneAtATime' /\ ErrorKnown'
<1>1. /\ doing'[p] = "count" /\ \A q \in Attempt \ {p} : doing'[q] = doing[q]
      /\ UNCHANGED <<outcome, lastError, ended>> /\ ~reviewing /\ reviewing' = TRUE
    BY DEF TurnInv, ReviewsTypeOK, Claim, Moves
<1>2. \A q \in Attempt : doing[q] \notin Inside
    BY <1>1 DEF TurnInv, OneAtATime
<1>3. OneAtATime'
    BY <1>1, <1>2 DEF OneAtATime, Inside
<1>4. ErrorKnown'
    BY <1>1, <1>2 DEF TurnInv, ErrorKnown, Told, Inside
<1> QED BY <1>3, <1>4

\* The review goes on, or is over.
LEMMA RunStep ==
    ASSUME TurnInv, NEW p \in Attempt,
           Count(p) \/ Chat(p) \/ Save(p) \/ Stumble(p)
    PROVE  OneAtATime' /\ ErrorKnown'
<1>1. /\ doing[p] \in {"count", "chat", "save"}
      /\ reviewing' = reviewing /\ lastError' = lastError
    BY DEF Count, Chat, Save, Stumble
<1>2. \/ /\ UNCHANGED <<outcome, ended>>
         /\ \E there \in {"chat", "save"} : Moves(p, there)
      \/ \E how : Ends(p, how)
    BY DEF Count, Chat, Save, Stumble
<1>3. /\ doing[p] \in Inside /\ \A q \in Attempt \ {p} : doing[q] \notin Inside
    BY <1>1 DEF TurnInv, OneAtATime, Inside
<1>4. /\ doing'[p] \in {"chat", "save", "report"}
      /\ \A q \in Attempt \ {p} : doing'[q] = doing[q]
    BY <1>2 DEF TurnInv, ReviewsTypeOK, Moves, Ends
<1>5. OneAtATime'
    BY <1>1, <1>3, <1>4 DEF TurnInv, OneAtATime, Inside
<1>6. \A q \in Attempt : doing[q] # "report"
    BY <1>1, <1>3 DEF Inside
<1>7. CASE UNCHANGED <<outcome, ended>> /\ \E there \in {"chat", "save"} : Moves(p, there)
    <2>1. \A q \in Attempt : doing'[q] # "report"
        BY <1>4, <1>6, <1>7 DEF TurnInv, ReviewsTypeOK, Moves
    <2>2. lastError = Told /\ lastError' = lastError /\ ended' = ended
        BY <1>1, <1>6, <1>7 DEF TurnInv, ErrorKnown
    <2> QED BY <1>5, <2>1, <2>2 DEF ErrorKnown, Told
<1>8. ASSUME NEW how, Ends(p, how) PROVE ErrorKnown'
    <2>1. doing'[p] = "report" /\ outcome'[p] = how /\ ended' = how
        BY <1>8 DEF TurnInv, ReviewsTypeOK, Moves, Ends
    <2> QED BY <1>4, <1>6, <2>1 DEF ErrorKnown
<1> QED BY <1>2, <1>5, <1>7, <1>8

\* LastError catches up.
LEMMA ReportStep ==
    ASSUME TurnInv, NEW p \in Attempt, Report(p)
    PROVE  OneAtATime' /\ ErrorKnown'
<1>1. /\ doing[p] = "report" /\ doing'[p] = "release" /\ \A q \in Attempt \ {p} : doing'[q] = doing[q]
      /\ UNCHANGED <<reviewing, outcome, ended>> /\ lastError' = Kept(p)
    BY DEF TurnInv, ReviewsTypeOK, Report, Moves
<1>2. \A q \in Attempt \ {p} : doing[q] \notin Inside
    BY <1>1 DEF TurnInv, OneAtATime, Inside
<1>3. OneAtATime'
    BY <1>1, <1>2 DEF TurnInv, OneAtATime, Inside
<1>4. lastError' = Told
    BY <1>1 DEF TurnInv, ErrorKnown, Kept, Told
<1>5. ErrorKnown'
    BY <1>1, <1>2, <1>4 DEF ErrorKnown, Told, Inside
<1> QED BY <1>3, <1>5

\* The flag goes down with the only one inside.
LEMMA GiveBackStep ==
    ASSUME TurnInv, NEW p \in Attempt, GiveBack(p)
    PROVE  OneAtATime' /\ ErrorKnown'
<1>1. /\ doing[p] = "release" /\ reviewing' = FALSE /\ UNCHANGED <<lastError, ended>>
      /\ doing'[p] \in {"sleep", "done"}
      /\ \A q \in Attempt \ {p} : doing'[q] = doing[q]
    BY DEF TurnInv, ReviewsTypeOK, GiveBack, Moves
<1>2. \A q \in Attempt \ {p} : doing[q] \notin Inside
    BY <1>1 DEF TurnInv, OneAtATime, Inside
<1>3. \A q \in Attempt : doing'[q] \notin Inside
    BY <1>1, <1>2 DEF Inside
<1>4. \A q \in Attempt : doing[q] # "report"
    BY <1>1, <1>2 DEF Inside
<1>5. OneAtATime'
    BY <1>1, <1>3 DEF OneAtATime
<1>6. ErrorKnown'
    BY <1>1, <1>3, <1>4 DEF TurnInv, ErrorKnown, Told, Inside
<1> QED BY <1>5, <1>6

\* Every step of an attempt keeps the turns.
LEMMA RunReviewStep ==
    ASSUME TurnInv, NEW p \in Attempt, PressButton(p) \/ RunReview(p)
    PROVE  OneAtATime' /\ ErrorKnown'
<1>1. CASE PressButton(p) \/ Refused(p) \/ Reply(p)
    <2>1. /\ doing[p] \notin Inside /\ UNCHANGED <<reviewing, outcome, lastError, ended>>
          /\ \E there \in {"claim", "sleep", "ask", "conflict", "error"} : Moves(p, there)
        BY <1>1 DEF PressButton, Refused, Reply, Inside
    <2>2. {"claim", "sleep", "ask", "conflict", "error"} \cap Inside = {}
        BY DEF Inside
    <2> QED BY <2>1, <2>2, OutsideStep
<1> QED BY <1>1, ClaimStep, RunStep, ReportStep, GiveBackStep DEF RunReview

\* So does what goes on around them.
LEMMA AroundStep ==
    ASSUME TurnInv, RunLoop \/ Hour \/ Cancel \/ \E e \in Environment : Hear(e)
    PROVE  OneAtATime' /\ ErrorKnown'
<1>1. CASE RunLoop
    <2>1. /\ Loop \in Attempt /\ doing[Loop] \notin Inside
          /\ UNCHANGED <<reviewing, outcome, lastError, ended>>
          /\ \E there \in {"claim", "sleep", "check", "gone"} : Moves(Loop, there)
        BY <1>1 DEF RunLoop, LoopCheck, LoopCannotRead, Wake, LoopEnds, Attempt, Inside
    <2>2. {"claim", "sleep", "check", "gone"} \cap Inside = {}
        BY DEF Inside
    <2> QED BY <2>1, <2>2, OutsideStep
<1>2. CASE Hour \/ Cancel \/ \E e \in Environment : Hear(e)
    <2>1. UNCHANGED <<reviewing, doing, outcome, lastError, ended>>
        BY <1>2 DEF Hour, Cancel, Hear
    <2> QED BY <2>1 DEF TurnInv, OneAtATime, ErrorKnown, Told
<1> QED BY <1>1, <1>2

\* The invariant is inductive.
LEMMA TurnInvStep ==
    ASSUME TurnInv, [ReviewsNext]_reviewVars
    PROVE  TurnInv'
<1>1. CASE UNCHANGED reviewVars
    BY <1>1 DEF reviewVars, recency, TurnInv, ReviewsTypeOK, OneAtATime, ErrorKnown, Told
<1>2. ASSUME NEW p \in Attempt, PressButton(p) \/ RunReview(p) PROVE TurnInv'
    <2>1. ReviewsTypeOK'
        BY <1>2, RunReviewTyped DEF TurnInv
    <2> QED BY <1>2, <2>1, RunReviewStep DEF TurnInv
<1>3. CASE RunLoop \/ Hour \/ Cancel \/ \E e \in Environment : Hear(e)
    <2>1. ReviewsTypeOK'
        BY <1>3, AroundTyped DEF TurnInv
    <2> QED BY <1>3, <2>1, AroundStep DEF TurnInv
<1> QED BY <1>1, <1>2, <1>3 DEF ReviewsNext

\* However presses and the schedule interleave, one review is made at a time,
\* the flag is up exactly while one is, and whenever it is down LastError
\* tells how the last one went.
THEOREM ReviewsTakeTurns == ReviewsSpec => []ReviewsInTurn
<1>1. TurnInv => ReviewsInTurn
    <2> SUFFICES ASSUME TurnInv PROVE ReviewsInTurn
        OBVIOUS
    <2>1. CASE reviewing
        <3>1. PICK p \in Attempt : doing[p] \in Inside
            BY <2>1 DEF TurnInv, OneAtATime
        <3>2. Running = {p}
            BY <3>1 DEF TurnInv, OneAtATime, Running
        <3>3. Cardinality(Running) = 1
            BY <3>2, FS_Singleton
        <3> QED BY <2>1, <3>3 DEF ReviewsInTurn
    <2>2. CASE ~reviewing
        <3>1. \A p \in Attempt : doing[p] \notin Inside
            BY <2>2 DEF TurnInv, OneAtATime
        <3>2. Cardinality(Running) = 0
            BY <3>1, FS_EmptySet DEF Running
        <3>3. lastError = Told
            BY <3>1 DEF TurnInv, ErrorKnown, Inside
        <3> QED BY <2>2, <3>2, <3>3 DEF ReviewsInTurn, Told
    <2> QED BY <2>1, <2>2
<1> QED BY <1>1, TurnInvInit, TurnInvStep, PTL DEF ReviewsSpec

-----------------------------------------------------------------------------
(* The alerts page.                                                        *)

\* What a row is made of.
LEMMA RowFields ==
    ASSUME NEW row \in Row
    PROVE  row.fp \in Fp /\ row.env \in Zone /\ row.at \in Nat /\ row.resolved \in BOOLEAN
BY DEF Row

\* A row that is marked.
LEMMA RowMarked ==
    ASSUME NEW row \in Row
    PROVE  /\ [row EXCEPT !.resolved = TRUE] \in Row
           /\ [row EXCEPT !.resolved = TRUE].fp = row.fp
           /\ [row EXCEPT !.resolved = TRUE].at = row.at
BY DEF Row

\* How many rows of the answer come before row i.
RowRank(i) == Cardinality(Ahead(analyses, Matches, i))

\* Chosen rows of a table are finitely many, and so are those before one.
LEMMA RanksAreNumbers ==
    ASSUME NEW table, NEW n \in Nat, DOMAIN table = 1..n,
           NEW chosen \in SUBSET DOMAIN table, NEW i
    PROVE  /\ IsFiniteSet(chosen) /\ Cardinality(chosen) \in Nat
           /\ Ahead(table, chosen, i) \subseteq chosen
           /\ IsFiniteSet(Ahead(table, chosen, i))
           /\ Cardinality(Ahead(table, chosen, i)) \in Nat
           /\ i \in chosen => Cardinality(Ahead(table, chosen, i)) < Cardinality(chosen)
<1>1. IsFiniteSet(chosen)
    <2>1. IsFiniteSet(1..n)
        BY FS_Interval
    <2> QED BY <2>1, FS_Subset
<1>2. /\ Ahead(table, chosen, i) \subseteq chosen
      /\ Ahead(table, chosen, i) \subseteq chosen \ {i}
    BY DEF Ahead
<1>3. IsFiniteSet(Ahead(table, chosen, i))
    BY <1>1, <1>2, FS_Subset
<1>4. Cardinality(chosen) \in Nat /\ Cardinality(Ahead(table, chosen, i)) \in Nat
    BY <1>1, <1>3, FS_CardinalityType
<1>5. ASSUME i \in chosen PROVE Cardinality(Ahead(table, chosen, i)) < Cardinality(chosen)
    <2>1. IsFiniteSet(chosen \ {i}) /\ Cardinality(chosen \ {i}) = Cardinality(chosen) - 1
        BY <1>1, <1>5, FS_RemoveElement
    <2>2. Cardinality(Ahead(table, chosen, i)) <= Cardinality(chosen \ {i})
        BY <1>2, <2>1, FS_Subset
    <2> QED BY <1>4, <2>1, <2>2
<1> QED BY <1>1, <1>2, <1>3, <1>4, <1>5

\* A row that is left alone only moves back: rows that are written come
\* before it, and no row stops coming before it.
LEMMA RanksGrow ==
    ASSUME NEW old \in Seq(Row), NEW new \in Seq(Row),
           NEW T \in SUBSET DOMAIN old, NEW U \in SUBSET DOMAIN new, T \subseteq U,
           NEW i \in T, new[i].at = old[i].at,
           NEW clock \in Nat,
           \A j \in DOMAIN old : old[j].at <= clock /\ new[j].at \in {old[j].at, clock}
    PROVE  Cardinality(Ahead(old, T, i)) <= Cardinality(Ahead(new, U, i))
<1>1. \A j \in T \ {i} : /\ old[j].at \in Nat /\ old[i].at \in Nat
                         /\ old[i].at <= clock /\ old[j].at <= clock
                         /\ new[j].at = old[j].at \/ new[j].at = clock
                         /\ j \in U /\ j \in Nat /\ i \in Nat
    <2>1. \A j \in DOMAIN old : old[j] \in Row /\ j \in Nat
        OBVIOUS
    <2>2. \A j \in DOMAIN old : old[j].at \in Nat
        BY <2>1, RowFields
    <2> QED BY <2>1, <2>2
<1>2. Ahead(old, T, i) \subseteq Ahead(new, U, i)
    <2> SUFFICES ASSUME NEW j \in Ahead(old, T, i) PROVE j \in Ahead(new, U, i)
        OBVIOUS
    <2>1. j \in T \ {i}
        BY DEF Ahead
    <2>2. CASE j < i
        <3>1. old[j].at >= old[i].at
            BY <2>1, <2>2 DEF Ahead, NewerOrSame
        <3>2. new[j].at >= new[i].at
            BY <1>1, <2>1, <3>1
        <3> QED BY <1>1, <2>1, <2>2, <3>2 DEF Ahead, NewerOrSame
    <2>3. CASE ~(j < i)
        <3>1. ~(old[i].at >= old[j].at)
            BY <2>1, <2>3 DEF Ahead, NewerOrSame
        <3>2. ~(new[i].at >= new[j].at)
            BY <1>1, <2>1, <3>1
        <3> QED BY <1>1, <2>1, <2>3, <3>2 DEF Ahead, NewerOrSame
    <2> QED BY <2>2, <2>3
<1>3. Len(new) \in Nat /\ DOMAIN new = 1..Len(new)
    OBVIOUS
<1>4. IsFiniteSet(Ahead(new, U, i))
    BY <1>3, RanksAreNumbers
<1> QED BY <1>2, <1>4, FS_Subset

\* The invariant: the rows still missed are all in the table and match; they
\* come after the pages turned, and once a page is read it has them or they
\* come after it, and there is a page after it.
Further(i, total) == Offset(page) + Limit <= RowRank(i) /\ Offset(page) + Limit < total

Caught(got, i, total) == (\E row \in got : row.fp = analyses[i].fp) \/ Further(i, total)

StillDue(i) ==
    /\ statement # "over"
    /\ Offset(page) <= RowRank(i)
    /\ statement = "pending" => Caught(found.rows, i, found.total)
    /\ statement = "read" => Caught(shown.rows, i, shown.total)

Missed == settled \ seen

OneRowEach == \A i, j \in DOMAIN analyses : analyses[i].fp = analyses[j].fp => i = j

WrittenBefore == \A i \in DOMAIN analyses : analyses[i].at <= seconds

Due ==
    /\ \A f \in Missed : \E i \in Matches : analyses[i].fp = f
    /\ \A i \in Matches : analyses[i].fp \in Missed => StillDue(i)
    /\ statement = "select" => found.total = Cardinality(Matches)

PagingInv ==
    /\ DashboardTypeOK
    /\ OneRowEach
    /\ WrittenBefore
    /\ ~excused => Due

\* What a write does to the table: the rows of f may change, and be written
\* now; the others stay, and the first row of f is added at the end.
RowWritten(f) ==
    /\ analyses' \in Seq(Row)
    /\ \A i \in DOMAIN analyses :
         /\ i \in DOMAIN analyses'
         /\ analyses'[i].fp = analyses[i].fp
         /\ analyses[i].fp # f => analyses'[i] = analyses[i]
         /\ analyses'[i].at \in {analyses[i].at, seconds}
    /\ \A i \in DOMAIN analyses' \ DOMAIN analyses :
         /\ analyses'[i].fp = f
         /\ analyses'[i].at = seconds
         /\ i = Len(analyses) + 1
         /\ \A j \in DOMAIN analyses : analyses[j].fp # f

\* Set writes a row like that.
LEMMA SetWrites ==
    ASSUME DashboardTypeOK, NEW f \in Fp, NEW env \in Zone, Set(f, env)
    PROVE  RowWritten(f)
<1>1. analyses \in Seq(Row) /\ seconds \in Nat
    BY DashboardAssumption DEF DashboardTypeOK, DashboardAssumption
<1>2. CASE \E i \in DOMAIN analyses : analyses[i].fp = f
    <2> DEFINE again(i) == [fp |-> f, env |-> env, at |-> seconds, resolved |-> analyses[i].resolved]
    <2>1. analyses' = [i \in DOMAIN analyses |->
                         IF analyses[i].fp = f THEN again(i) ELSE analyses[i]]
        BY <1>2 DEF Set
    <2>2. \A i \in DOMAIN analyses : analyses[i] \in Row
        BY <1>1
    <2>4. ASSUME NEW i \in DOMAIN analyses
          PROVE  again(i) \in Row /\ again(i).fp = f /\ again(i).at = seconds
        <3>1. analyses[i].resolved \in BOOLEAN
            BY <2>2, RowFields
        <3> QED BY <1>1, <3>1 DEF Row
    <2> HIDE DEF again
    <2>3. \A i \in DOMAIN analyses :
            /\ analyses'[i] \in Row
            /\ analyses'[i].fp = analyses[i].fp
            /\ analyses[i].fp # f => analyses'[i] = analyses[i]
            /\ analyses'[i].at \in {analyses[i].at, seconds}
        BY <2>1, <2>2, <2>4
    <2>6. DOMAIN analyses' = 1..Len(analyses) /\ Len(analyses) \in Nat
          /\ DOMAIN analyses = 1..Len(analyses)
        BY <1>1, <2>1
    <2>7. analyses' \in Seq(Row)
        <3>1. analyses' = [i \in 1..Len(analyses) |-> analyses'[i]]
            BY <2>1, <2>6
        <3> QED BY <2>3, <2>6, <3>1
    <2> QED BY <2>3, <2>6, <2>7 DEF RowWritten
<1>3. CASE ~\E i \in DOMAIN analyses : analyses[i].fp = f
    <2> DEFINE row == [fp |-> f, env |-> env, at |-> seconds, resolved |-> FALSE]
    <2>1. analyses' = Append(analyses, row)
        BY <1>3 DEF Set
    <2>2. row \in Row /\ row.fp = f /\ row.at = seconds
        BY <1>1 DEF Row
    <2> HIDE DEF row
    <2>3. /\ analyses' \in Seq(Row) /\ Len(analyses) \in Nat
          /\ DOMAIN analyses' = 1..(Len(analyses) + 1) /\ DOMAIN analyses = 1..Len(analyses)
          /\ \A i \in DOMAIN analyses : analyses'[i] = analyses[i]
          /\ analyses'[Len(analyses) + 1] = row
        BY <1>1, <2>1, <2>2
    <2>4. \A i \in DOMAIN analyses' \ DOMAIN analyses : i = Len(analyses) + 1
        BY <2>3
    <2> QED BY <1>3, <2>2, <2>3, <2>4 DEF RowWritten
<1> QED BY <1>2, <1>3

\* And so does MarkResolved.
LEMMA ResolvedWrites ==
    ASSUME DashboardTypeOK, NEW f \in Fp, MarkResolved(f)
    PROVE  RowWritten(f)
<1>1. analyses \in Seq(Row)
    BY DEF DashboardTypeOK
<1> DEFINE again(i) == [analyses[i] EXCEPT !.resolved = TRUE]
<1>2. analyses' = [i \in DOMAIN analyses |-> IF analyses[i].fp = f THEN again(i) ELSE analyses[i]]
    BY DEF MarkResolved
<1>3. \A i \in DOMAIN analyses : analyses[i] \in Row
    BY <1>1
<1>5. ASSUME NEW i \in DOMAIN analyses
      PROVE  again(i) \in Row /\ again(i).fp = analyses[i].fp /\ again(i).at = analyses[i].at
    BY <1>3, RowMarked DEF again
<1> HIDE DEF again
<1>4. \A i \in DOMAIN analyses :
        /\ analyses'[i] \in Row
        /\ analyses'[i].fp = analyses[i].fp
        /\ analyses[i].fp # f => analyses'[i] = analyses[i]
        /\ analyses'[i].at = analyses[i].at
    BY <1>2, <1>3, <1>5
<1>7. DOMAIN analyses' = 1..Len(analyses) /\ Len(analyses) \in Nat
      /\ DOMAIN analyses = 1..Len(analyses)
    BY <1>1, <1>2
<1>8. analyses' \in Seq(Row)
    <2>1. analyses' = [i \in 1..Len(analyses) |-> analyses'[i]]
        BY <1>2, <1>7
    <2> QED BY <1>4, <1>7, <2>1
<1> QED BY <1>4, <1>7, <1>8 DEF RowWritten

\* A write keeps one row for each fingerprint, none of the future, and takes
\* nothing off a page that is still to come.
LEMMA WrittenKeeps ==
    ASSUME PagingInv, NEW f \in Fp, RowWritten(f), settled' = settled \ {f}, Excuse,
           UNCHANGED <<seconds, viewer, seen>>
    PROVE  OneRowEach' /\ WrittenBefore' /\ (~excused' => Due')
<1>1. /\ analyses \in Seq(Row) /\ analyses' \in Seq(Row) /\ seconds \in Nat
      /\ page \in Nat /\ Limit \in Nat
    BY DashboardAssumption DEF PagingInv, DashboardTypeOK, DashboardAssumption, RowWritten
<1>2. \A i \in DOMAIN analyses : analyses'[i].fp = analyses[i].fp /\ i \in DOMAIN analyses'
    BY DEF RowWritten
<1>3. OneRowEach'
    <2> SUFFICES ASSUME NEW i \in DOMAIN analyses', NEW j \in DOMAIN analyses',
                        analyses'[i].fp = analyses'[j].fp
                 PROVE  i = j
        BY DEF OneRowEach
    <2>1. CASE i \in DOMAIN analyses /\ j \in DOMAIN analyses
        BY <1>2, <2>1 DEF PagingInv, OneRowEach
    <2>2. CASE i \notin DOMAIN analyses /\ j \notin DOMAIN analyses
        BY <2>2 DEF RowWritten
    <2>3. CASE i \notin DOMAIN analyses /\ j \in DOMAIN analyses
        BY <1>2, <2>3 DEF RowWritten
    <2>4. CASE i \in DOMAIN analyses /\ j \notin DOMAIN analyses
        BY <1>2, <2>4 DEF RowWritten
    <2> QED BY <2>1, <2>2, <2>3, <2>4
<1>4. WrittenBefore'
    <2> SUFFICES ASSUME NEW i \in DOMAIN analyses' PROVE analyses'[i].at <= seconds
        BY DEF WrittenBefore
    <2>1. CASE i \in DOMAIN analyses
        BY <1>1, <2>1 DEF RowWritten, PagingInv, WrittenBefore
    <2>2. CASE i \notin DOMAIN analyses
        BY <1>1, <2>2 DEF RowWritten
    <2> QED BY <2>1, <2>2
<1>5. ASSUME ~excused' PROVE Due'
    <2>1. /\ Due
          /\ Matches \subseteq Matches'
          /\ statement = "select" => Matches' = Matches
          /\ Matches \subseteq DOMAIN analyses /\ Matches' \subseteq DOMAIN analyses'
        BY <1>5 DEF Excuse, PagingInv, Matches, Matching, Selects, viewer
    <2>2. /\ statement' = statement /\ page' = page /\ found' = found /\ shown' = shown
          /\ seen' = seen /\ Offset(page)' = Offset(page) /\ Missed' = Missed \ {f}
        BY DEF viewer, Offset, Missed
    <2>3. \A g \in Missed' : \E i \in Matches' : analyses'[i].fp = g
        BY <1>2, <2>1, <2>2 DEF Due
    <2>4. ASSUME NEW i \in Matches', analyses'[i].fp \in Missed' PROVE StillDue(i)'
        <3>1. i \in DOMAIN analyses /\ analyses[i].fp \in Missed /\ analyses'[i] = analyses[i]
            BY <1>2, <2>1, <2>2, <2>4 DEF RowWritten
        <3>2. i \in Matches
            <4>1. PICK j \in Matches : analyses[j].fp = analyses[i].fp
                BY <2>1, <3>1 DEF Due
            <4> QED BY <2>1, <3>1, <4>1 DEF PagingInv, OneRowEach
        <3>3. StillDue(i)
            BY <2>1, <3>1, <3>2 DEF Due
        <3>4. \A j \in DOMAIN analyses : analyses[j].at <= seconds /\ analyses'[j].at \in {analyses[j].at, seconds}
            BY DEF PagingInv, WrittenBefore, RowWritten
        <3>5. Cardinality(Ahead(analyses, Matches, i)) <= Cardinality(Ahead(analyses', Matches', i))
            BY <1>1, <2>1, <3>1, <3>2, <3>4, RanksGrow
        <3>6. RowRank(i) <= RowRank(i)' /\ RowRank(i) \in Nat /\ RowRank(i)' \in Nat
            <4>1. RowRank(i)' = Cardinality(Ahead(analyses', Matches', i))
                BY DEF RowRank, Ahead, NewerOrSame
            <4>2. /\ Len(analyses) \in Nat /\ DOMAIN analyses = 1..Len(analyses)
                  /\ Len(analyses') \in Nat /\ DOMAIN analyses' = 1..Len(analyses')
                BY <1>1
            <4>3. Cardinality(Ahead(analyses, Matches, i)) \in Nat
                BY <2>1, <4>2, RanksAreNumbers
            <4>4. Cardinality(Ahead(analyses', Matches', i)) \in Nat
                BY <2>1, <4>2, RanksAreNumbers
            <4> QED BY <3>5, <4>1, <4>3, <4>4 DEF RowRank
        <3>7. Offset(page) \in Nat
            BY <1>1 DEF Offset
        <3>8. \A got, total : Caught(got, i, total) => Caught(got, i, total)'
            BY <1>1, <2>2, <3>1, <3>6, <3>7 DEF Caught, Further
        <3> QED BY <2>2, <3>3, <3>6, <3>7, <3>8 DEF StillDue
    <2>5. statement' = "select" => found'.total = Cardinality(Matches')
        BY <2>1, <2>2 DEF Due
    <2> QED BY <2>3, <2>4, <2>5 DEF Due
<1> QED BY <1>3, <1>4, <1>5

\* The types of the tables, of the request and of the history.
TablesTyped ==
    /\ seconds \in 0..MaxSeconds /\ writes \in 0..MaxWrites
    /\ analyses \in Seq(Row) /\ waiting \in Seq(Stub)

RequestTyped ==
    /\ statement \in {"ask", "count", "select", "pending", "read", "failed", "over"}
    /\ filter \in Filter /\ page \in Nat
    /\ found \in Response /\ shown \in Response

HistoryTyped == seen \subseteq Fp /\ settled \subseteq Fp /\ excused \in BOOLEAN

\* They are the type invariant.
LEMMA TypesSplit ==
    /\ DashboardTypeOK <=> TablesTyped /\ RequestTyped /\ HistoryTyped
    /\ DashboardTypeOK' <=> TablesTyped' /\ RequestTyped' /\ HistoryTyped'
BY DEF DashboardTypeOK, TablesTyped, RequestTyped, HistoryTyped

\* Nothing is there in the beginning.
LEMMA PagingInvInit == DashboardInit => PagingInv
<1> SUFFICES ASSUME DashboardInit PROVE PagingInv
    OBVIOUS
<1>1. seconds = 0 /\ writes = 0 /\ analyses = <<>> /\ waiting = <<>>
      /\ settled = {} /\ seen = {} /\ statement = "ask"
    BY DEF DashboardInit
<1>2. TablesTyped
    BY <1>1, DashboardAssumption DEF TablesTyped, DashboardAssumption
<1>3. Nothing \in Response
    BY DEF Nothing, Response
<1>4. RequestTyped
    BY <1>3 DEF RequestTyped, DashboardInit
<1>5. HistoryTyped
    BY DEF HistoryTyped, DashboardInit
<1>6. OneRowEach /\ WrittenBefore
    BY <1>1 DEF OneRowEach, WrittenBefore
<1>7. Due
    BY <1>1 DEF Due, Missed
<1> QED BY <1>2, <1>4, <1>5, <1>6, <1>7, TypesSplit DEF PagingInv

\* A write keeps the invariant.
LEMMA WriteStep ==
    ASSUME PagingInv, NEW f \in Fp, RowWritten(f), Touched(f), Excuse,
           UNCHANGED <<seconds, waiting, viewer, seen>>
    PROVE  PagingInv'
<1>1. OneRowEach' /\ WrittenBefore' /\ (~excused' => Due')
    BY WrittenKeeps DEF Touched
<1>2. TablesTyped /\ RequestTyped /\ HistoryTyped
    BY TypesSplit DEF PagingInv
<1>3. TablesTyped'
    <2>1. writes' \in 0..MaxWrites
        BY <1>2, DashboardAssumption DEF Touched, TablesTyped, DashboardAssumption
    <2> QED BY <1>2, <2>1 DEF TablesTyped, RowWritten
<1>4. RequestTyped'
    BY <1>2 DEF RequestTyped, viewer
<1>5. HistoryTyped'
    <2>1. settled' \subseteq Fp /\ seen' \subseteq Fp
        BY <1>2 DEF HistoryTyped, Touched
    <2>2. excused' \in BOOLEAN
        BY <1>2 DEF Excuse, HistoryTyped
    <2> QED BY <2>1, <2>2 DEF HistoryTyped
<1> QED BY <1>1, <1>3, <1>4, <1>5, TypesSplit DEF PagingInv

\* While the table, the filter and the page stay, so do the ranks.
LEMMA SamePage ==
    ASSUME UNCHANGED <<analyses, filter, page>>
    PROVE  /\ Matches' = Matches /\ Offset(page)' = Offset(page)
           /\ OneRowEach => OneRowEach'
           /\ \A i : RowRank(i)' = RowRank(i)
           /\ \A got, i, total : Caught(got, i, total)' <=> Caught(got, i, total)
<1>1. Matches' = Matches /\ Offset(page)' = Offset(page)
    BY DEF Matches, Matching, Selects, Offset
<1>2. \A i : RowRank(i)' = RowRank(i)
    BY <1>1 DEF RowRank, Ahead, NewerOrSame
<1> QED BY <1>1, <1>2 DEF OneRowEach, Caught, Further

\* What waits, and the clock, concern neither table nor page.
LEMMA BesideStep ==
    ASSUME PagingInv,
           (\E f \in Fp, env \in Zone : SavePending(f, env)) \/ CleanupPending \/ Second
    PROVE  PagingInv'
<1>1. /\ UNCHANGED <<analyses, viewer, seen, settled, excused>>
      /\ UNCHANGED <<analyses, filter, page>>
      /\ UNCHANGED <<statement, found, shown>>
    BY DEF SavePending, CleanupPending, Second, viewer
<1>2. TablesTyped /\ RequestTyped /\ HistoryTyped
    BY TypesSplit DEF PagingInv
<1>3. TablesTyped' /\ seconds <= seconds'
    <2>1. ASSUME NEW f \in Fp, NEW env \in Zone, SavePending(f, env)
          PROVE  TablesTyped' /\ seconds <= seconds'
        <3>1. [fp |-> f, env |-> env, at |-> seconds] \in Stub
            BY <1>2, DashboardAssumption DEF Stub, TablesTyped, DashboardAssumption
        <3>2. waiting' \in Seq(Stub)
            BY <1>2, <2>1, <3>1 DEF SavePending, TablesTyped
        <3>3. writes' \in 0..MaxWrites
            BY <1>2, <2>1, DashboardAssumption DEF SavePending, TablesTyped, DashboardAssumption
        <3> QED BY <1>1, <1>2, <2>1, <3>2, <3>3, DashboardAssumption
                DEF SavePending, TablesTyped, DashboardAssumption
    <2>2. CASE CleanupPending
        <3>1. PICK n \in 1..Len(waiting) : waiting' = SubSeq(waiting, n + 1, Len(waiting))
            BY <2>2 DEF CleanupPending
        <3>2. waiting' \in Seq(Stub)
            BY <1>2, <3>1 DEF TablesTyped
        <3> QED BY <1>1, <1>2, <2>2, <3>2, DashboardAssumption
                DEF CleanupPending, TablesTyped, DashboardAssumption
    <2>3. CASE Second
        BY <1>1, <1>2, <2>3, DashboardAssumption DEF Second, TablesTyped, DashboardAssumption
    <2> QED BY <2>1, <2>2, <2>3
<1>4. RequestTyped' /\ HistoryTyped'
    BY <1>1, <1>2 DEF RequestTyped, HistoryTyped
<1>5. OneRowEach'
    BY <1>1, SamePage DEF PagingInv
<1>6. WrittenBefore'
    <2>1. /\ analyses \in Seq(Row)
          /\ seconds \in Nat /\ seconds' \in Nat
        BY <1>2, <1>3, DashboardAssumption DEF TablesTyped, DashboardAssumption
    <2> SUFFICES ASSUME NEW i \in DOMAIN analyses PROVE analyses[i].at <= seconds'
        BY <1>1 DEF WrittenBefore
    <2>2. analyses[i].at \in Nat
        BY <2>1, RowFields
    <2>3. analyses[i].at <= seconds
        BY DEF PagingInv, WrittenBefore
    <2> QED BY <1>3, <2>1, <2>2, <2>3
<1>7. Due => Due'
    BY <1>1, SamePage DEF Due, StillDue, Missed
<1> QED BY <1>1, <1>3, <1>4, <1>5, <1>6, <1>7, TypesSplit DEF PagingInv

\* The steps of a request leave the tables as they are.
LEMMA RequestStep ==
    ASSUME PagingInv, UNCHANGED <<database, filter>>
    PROVE  /\ TablesTyped' /\ OneRowEach' /\ WrittenBefore'
           /\ TablesTyped /\ RequestTyped /\ HistoryTyped
           /\ UNCHANGED <<analyses, waiting, filter>>
           /\ Matches \in SUBSET DOMAIN analyses
           /\ Len(analyses) \in Nat /\ DOMAIN analyses = 1..Len(analyses)
           /\ Limit \in Nat /\ Limit > 0 /\ page \in Nat
           /\ Offset(page) \in Nat
           /\ \A i : RowRank(i) \in Nat
           /\ \A i \in Matches : RowRank(i) < Cardinality(Matches)
           /\ Cardinality(Matches) \in Nat
<1>1. TablesTyped /\ RequestTyped /\ HistoryTyped
    BY TypesSplit DEF PagingInv
<1>2. TablesTyped' /\ OneRowEach' /\ WrittenBefore' /\ UNCHANGED <<analyses, waiting, filter>>
    BY <1>1 DEF TablesTyped, OneRowEach, WrittenBefore, PagingInv, database
<1>3. /\ Matches \in SUBSET DOMAIN analyses
      /\ Len(analyses) \in Nat /\ DOMAIN analyses = 1..Len(analyses)
      /\ Limit \in Nat /\ Limit > 0 /\ page \in Nat
    BY <1>1, DashboardAssumption DEF TablesTyped, RequestTyped, DashboardAssumption, Matches, Matching
<1>4. Offset(page) \in Nat
    BY <1>3 DEF Offset
<1>5. Cardinality(Matches) \in Nat
    BY <1>3, RanksAreNumbers
<1>6. \A i : RowRank(i) \in Nat
    BY <1>3, RanksAreNumbers DEF RowRank
<1>7. \A i \in Matches : RowRank(i) < Cardinality(Matches)
    BY <1>3, RanksAreNumbers DEF RowRank
<1> QED BY <1>1, <1>2, <1>3, <1>4, <1>5, <1>6, <1>7

\* The first page is asked for with nothing missed but what matches, and
\* every row is still to come.
LEMMA AskStep == ASSUME PagingInv, Ask PROVE PagingInv'
<1>1. UNCHANGED <<database, filter>> /\ UNCHANGED <<analyses, filter, page>>
      /\ UNCHANGED <<found, shown>>
    BY DEF Ask, database
<1>2. /\ RequestTyped /\ HistoryTyped /\ TablesTyped /\ Matches \in SUBSET DOMAIN analyses
      /\ \A i : RowRank(i) \in Nat
    BY <1>1, RequestStep
<1>3. statement = "ask" /\ statement' = "count"
    BY DEF Ask
<1>4. RequestTyped'
    BY <1>1, <1>2, <1>3 DEF RequestTyped
<1>5. HistoryTyped' /\ (~excused' => Due')
    <2>1. CASE page = 0
        <3>1. settled' = {analyses[i].fp : i \in Matches} /\ seen' = {} /\ excused' = FALSE
            BY <2>1 DEF Ask
        <3>2. \A i \in Matches : analyses[i].fp \in Fp
            <4>1. \A i \in DOMAIN analyses : analyses[i] \in Row
                BY <1>2 DEF TablesTyped
            <4> QED BY <1>2, <4>1, RowFields
        <3>3. HistoryTyped'
            BY <3>1, <3>2 DEF HistoryTyped
        <3>4. \A i : Offset(page) <= RowRank(i)
            BY <1>2, <2>1, DashboardAssumption DEF Offset, DashboardAssumption
        <3>5. \A i : StillDue(i)'
            BY <1>1, <1>3, <3>4, SamePage DEF StillDue
        <3>6. \A f \in Missed' : \E i \in Matches : analyses[i].fp = f
            BY <3>1 DEF Missed
        <3> QED BY <1>1, <1>3, <3>3, <3>5, <3>6, SamePage DEF Due
    <2>2. CASE page # 0
        <3>1. UNCHANGED <<seen, settled, excused>>
            BY <2>2 DEF Ask
        <3>2. Due => Due'
            BY <1>1, <1>3, <3>1, SamePage DEF Due, StillDue, Missed
        <3> QED BY <1>2, <3>1, <3>2 DEF HistoryTyped, PagingInv
    <2> QED BY <2>1, <2>2
<1> QED BY <1>1, <1>4, <1>5, RequestStep, TypesSplit DEF PagingInv

\* The table is counted.
LEMMA CountStep == ASSUME PagingInv, CountMatches PROVE PagingInv'
<1>1. UNCHANGED <<database, filter>> /\ UNCHANGED <<analyses, filter, page>>
      /\ UNCHANGED <<shown, seen, settled, excused>>
    BY DEF CountMatches, database
<1>2. RequestTyped /\ HistoryTyped /\ Cardinality(Matches) \in Nat
    BY <1>1, RequestStep
<1>3. statement = "count" /\ statement' = "select"
      /\ found' = [found EXCEPT !.total = Cardinality(Matches)]
    BY DEF CountMatches
<1>4. found' \in Response /\ found'.total = Cardinality(Matches)
    BY <1>2, <1>3 DEF RequestTyped, Response
<1>5. RequestTyped' /\ HistoryTyped'
    BY <1>1, <1>2, <1>3, <1>4 DEF RequestTyped, HistoryTyped
<1>6. Due => Due'
    BY <1>1, <1>3, <1>4, SamePage DEF Due, StillDue, Missed
<1> QED BY <1>1, <1>5, <1>6, RequestStep, TypesSplit DEF PagingInv

\* A page is cut out: a row that is due is on it, or comes after it, and then
\* it has been counted.
LEMMA SelectStep == ASSUME PagingInv, ListFiltered PROVE PagingInv'
<1>1. UNCHANGED <<database, filter>> /\ UNCHANGED <<analyses, filter, page>>
      /\ UNCHANGED <<shown, seen, settled, excused>>
    BY DEF ListFiltered, database
<1>2. /\ RequestTyped /\ HistoryTyped /\ TablesTyped
      /\ Matches \in SUBSET DOMAIN analyses
      /\ Limit \in Nat /\ Offset(page) \in Nat
      /\ Cardinality(Matches) \in Nat
      /\ \A i : RowRank(i) \in Nat
      /\ \A i \in Matches : RowRank(i) < Cardinality(Matches)
    BY <1>1, RequestStep
<1> DEFINE some == {analyses[i] : i \in Cut(analyses, Matches, Offset(page))}
<1>3. statement = "select" /\ statement' = "pending"
      /\ found' = [found EXCEPT !.rows = some]
    BY DEF ListFiltered
<1>4. Cut(analyses, Matches, Offset(page)) \subseteq DOMAIN analyses
    BY <1>2 DEF Cut
<1>5. some \subseteq Row
    BY <1>2, <1>4 DEF TablesTyped
<1>6. \A i \in Matches : Offset(page) <= RowRank(i) =>
          (\E row \in some : row.fp = analyses[i].fp) \/ Offset(page) + Limit <= RowRank(i)
    <2> SUFFICES ASSUME NEW i \in Matches, Offset(page) <= RowRank(i),
                        ~(Offset(page) + Limit <= RowRank(i))
                 PROVE  \E row \in some : row.fp = analyses[i].fp
        OBVIOUS
    <2>1. RowRank(i) \in Offset(page)..(Offset(page) + Limit - 1)
        BY <1>2
    <2>2. i \in Cut(analyses, Matches, Offset(page))
        BY <2>1 DEF Cut, RowRank
    <2> QED BY <2>2
<1> HIDE DEF some
<1>7. /\ found' \in Response /\ found'.rows = some /\ found'.total = found.total
      /\ found.total \in Nat
    BY <1>2, <1>3, <1>5 DEF RequestTyped, Response
<1>8. RequestTyped' /\ HistoryTyped'
    BY <1>1, <1>2, <1>3, <1>7 DEF RequestTyped, HistoryTyped
<1>9. ASSUME Due PROVE Due'
    <2>1. found.total = Cardinality(Matches)
        BY <1>3, <1>9 DEF Due
    <2>2. ASSUME NEW i \in Matches, analyses[i].fp \in Missed
          PROVE  Offset(page) <= RowRank(i) /\ Caught(found'.rows, i, found'.total)
        <3>1. Offset(page) <= RowRank(i)
            BY <1>9, <2>2 DEF Due, StillDue
        <3> QED BY <1>2, <1>6, <1>7, <2>1, <2>2, <3>1 DEF Caught, Further
    <2>3. Missed' = Missed
        BY <1>1 DEF Missed
    <2>4. \A i \in Matches' : analyses'[i].fp \in Missed' => StillDue(i)'
        BY <1>1, <1>3, <2>2, <2>3, SamePage DEF StillDue
    <2> QED BY <1>1, <1>3, <1>9, <2>3, <2>4, SamePage DEF Due
<1> QED BY <1>1, <1>8, <1>9, RequestStep, TypesSplit DEF PagingInv

\* A request that fails shows nothing.
LEMMA ListFailsStep == ASSUME PagingInv, ListFails PROVE PagingInv'
<1>1. UNCHANGED <<database, filter>> /\ UNCHANGED <<analyses, filter, page>>
      /\ UNCHANGED <<found, shown, seen, settled, excused>>
      /\ statement \in {"count", "select"} /\ statement' = "failed"
    BY DEF ListFails, database
<1>2. RequestTyped /\ HistoryTyped
    BY <1>1, RequestStep
<1>3. RequestTyped' /\ HistoryTyped'
    BY <1>1, <1>2 DEF RequestTyped, HistoryTyped
<1>4. Due => Due'
    <2>1. \A i : StillDue(i) => StillDue(i)'
        BY <1>1, SamePage DEF StillDue
    <2> QED BY <1>1, <2>1, SamePage DEF Due, Missed
<1> QED BY <1>1, <1>3, <1>4, RequestStep, TypesSplit DEF PagingInv

\* An answer is complete: it has the rows of the page, and counts no fewer.
LEMMA ShowStep == ASSUME PagingInv, ListPending \/ PendingFails PROVE PagingInv'
<1>1. UNCHANGED <<database, filter>> /\ UNCHANGED <<analyses, filter, page>>
      /\ UNCHANGED <<found, seen, settled, excused>>
      /\ statement = "pending" /\ statement' = "read"
    BY DEF ListPending, PendingFails, database
<1>2. /\ RequestTyped /\ HistoryTyped /\ TablesTyped
      /\ Limit \in Nat /\ Offset(page) \in Nat
      /\ \A i : RowRank(i) \in Nat
    BY <1>1, RequestStep
<1>3. found.rows \in SUBSET Row /\ found.total \in Nat
    BY <1>2 DEF RequestTyped, Response
<1>4. /\ shown' \in Response /\ shown'.rows = found.rows
      /\ shown'.total \in Nat /\ found.total <= shown'.total
    <2>1. CASE ListPending
        <3>1. shown' = [rows |-> found.rows, pending |-> {waiting[i] : i \in Stubs},
                        total |-> found.total + Cardinality(Stubs)]
            BY <2>1 DEF ListPending
        <3>2. Stubs \subseteq DOMAIN waiting
            BY DEF Stubs, Cut
        <3>3. {waiting[i] : i \in Stubs} \in SUBSET Stub
            BY <1>2, <3>2 DEF TablesTyped
        <3>4. Cardinality(Stubs) \in Nat
            <4>1. Len(waiting) \in Nat /\ DOMAIN waiting = 1..Len(waiting)
                BY <1>2 DEF TablesTyped
            <4> QED BY <3>2, <4>1, RanksAreNumbers
        <3> QED BY <1>3, <3>1, <3>3, <3>4 DEF Response
    <2>2. CASE PendingFails
        BY <1>3, <2>2 DEF PendingFails, Response
    <2> QED BY <2>1, <2>2
<1>5. RequestTyped' /\ HistoryTyped'
    BY <1>1, <1>2, <1>4 DEF RequestTyped, HistoryTyped
<1>6. \A i : Caught(found.rows, i, found.total) => Caught(shown'.rows, i, shown'.total)
    BY <1>2, <1>3, <1>4 DEF Caught, Further
<1>7. Due => Due'
    <2>1. \A i : StillDue(i) => StillDue(i)'
        BY <1>1, <1>6, SamePage DEF StillDue
    <2> QED BY <1>1, <2>1, SamePage DEF Due, Missed
<1> QED BY <1>1, <1>5, <1>7, RequestStep, TypesSplit DEF PagingInv

\* How many pages there are, told by their offsets.
LEMMA PagesByOffset ==
    ASSUME Limit \in Nat, Limit > 0, shown.total \in Nat, NEW p \in Nat
    PROVE  /\ Pages \in Nat
           /\ Offset(p) + Limit < shown.total => p < Pages - 1
           /\ Pages <= p => Offset(Pages - 1) <= Offset(p)
<1> DEFINE n == shown.total + Limit - 1
           q == n \div Limit
<1>1. n \in Nat
    OBVIOUS
<1> HIDE DEF n
<1>2. q \in Nat /\ q * Limit <= n /\ n < q * Limit + Limit
    BY <1>1
<1>3. Pages = q
    BY DEF Pages, n
<1> HIDE DEF q
<1>4. \A a, b \in Nat : a <= b => a * Limit <= b * Limit
    OBVIOUS
<1>5. p * Limit \in Nat /\ q * Limit \in Nat /\ (p + 1) * Limit = p * Limit + Limit
    BY <1>2
<1>6. ASSUME Offset(p) + Limit < shown.total PROVE p < q - 1
    <2>1. (p + 1) * Limit + Limit <= n
        BY <1>5, <1>6 DEF Offset, n
    <2>2. ASSUME q <= p + 1 PROVE FALSE
        <3>1. q * Limit <= (p + 1) * Limit
            BY <1>2, <1>4, <2>2
        <3>2. q * Limit + Limit <= n
            BY <1>1, <1>5, <2>1, <3>1
        <3> QED BY <1>1, <1>2, <1>5, <3>2
    <2> QED BY <1>2, <2>2
<1>7. ASSUME q <= p PROVE (q - 1) * Limit <= p * Limit
    <2>1. (q - 1) * Limit <= q * Limit
        BY <1>2
    <2>2. q * Limit <= p * Limit
        BY <1>2, <1>4, <1>7
    <2> QED BY <1>2, <1>5, <2>1, <2>2
<1> QED BY <1>2, <1>3, <1>6, <1>7 DEF Offset

\* A page was read: what was not on it comes after it, and there is a page
\* after it.  A page beyond the last is asked for again further ahead.
LEMMA ReadStep == ASSUME PagingInv, ReadPage PROVE PagingInv'
<1>1. /\ UNCHANGED <<database, filter>> /\ UNCHANGED <<found, shown, settled, excused>>
      /\ statement = "read"
    BY DEF ReadPage
<1>2. /\ RequestTyped /\ HistoryTyped /\ TablesTyped
      /\ UNCHANGED <<analyses, filter>>
      /\ Matches \in SUBSET DOMAIN analyses
      /\ Limit \in Nat /\ Limit > 0 /\ Offset(page) \in Nat /\ page \in Nat
      /\ \A i : RowRank(i) \in Nat
    BY <1>1, RequestStep
<1>3. shown.total \in Nat /\ \A row \in shown.rows : row.fp \in Fp
    BY <1>2, RowFields DEF RequestTyped, Response
<1>4. /\ Pages \in Nat
      /\ Offset(page) + Limit < shown.total => page < Pages - 1
      /\ Pages <= page => Offset(Pages - 1) <= Offset(page)
    BY <1>2, <1>3, PagesByOffset
<1>5. Matches' = Matches /\ \A i : RowRank(i)' = RowRank(i)
    <2>1. Matches' = Matches
        BY <1>2 DEF Matches, Matching, Selects
    <2> QED BY <1>2, <2>1 DEF RowRank, Ahead, NewerOrSame
<1>6. CASE Pages > 0 /\ page >= Pages
    <2>1. page' = Pages - 1 /\ statement' = "ask" /\ seen' = seen
        BY <1>6 DEF ReadPage
    <2>2. RequestTyped' /\ HistoryTyped'
        BY <1>1, <1>2, <1>4, <1>6, <2>1 DEF RequestTyped, HistoryTyped
    <2>3. Offset(page)' = Offset(Pages - 1)
        BY <2>1 DEF Offset
    <2>4. Offset(Pages - 1) \in Int /\ Offset(Pages - 1) <= Offset(page)
        BY <1>2, <1>4, <1>6 DEF Offset
    <2>5. \A i \in Matches : StillDue(i) => StillDue(i)'
        BY <1>2, <1>5, <2>1, <2>3, <2>4 DEF StillDue
    <2>6. Due => Due'
        BY <1>1, <1>2, <1>5, <2>1, <2>5 DEF Due, Missed
    <2> QED BY <1>1, <2>2, <2>6, RequestStep, TypesSplit DEF PagingInv
<1>7. CASE ~(Pages > 0 /\ page >= Pages)
    <2>1. seen' = seen \cup {row.fp : row \in shown.rows}
        BY <1>7 DEF ReadPage
    <2>2. \/ page < Pages - 1 /\ page' = page + 1 /\ statement' = "ask"
          \/ ~(page < Pages - 1) /\ statement' = "over" /\ page' = page
        BY <1>7 DEF ReadPage
    <2>3. RequestTyped' /\ HistoryTyped'
        BY <1>1, <1>2, <1>3, <2>1, <2>2 DEF RequestTyped, HistoryTyped
    <2>4. ASSUME Due PROVE Due'
        <3>1. ASSUME NEW i \in Matches, analyses[i].fp \in Missed' PROVE StillDue(i)'
            <4>1. analyses[i].fp \in Missed /\ ~\E row \in shown.rows : row.fp = analyses[i].fp
                BY <1>1, <2>1, <3>1 DEF Missed
            <4>2. Further(i, shown.total)
                BY <1>1, <2>4, <4>1 DEF Due, StillDue, Caught
            <4>3. page' = page + 1 /\ statement' = "ask"
                BY <1>4, <2>2, <4>2 DEF Further
            <4>4. Offset(page)' = Offset(page) + Limit
                BY <1>2, <4>3 DEF Offset
            <4> QED BY <1>5, <4>2, <4>3, <4>4 DEF StillDue, Further
        <3>2. Missed' \subseteq Missed
            BY <1>1, <2>1 DEF Missed
        <3>3. statement' # "select"
            BY <2>2
        <3> QED BY <1>2, <1>5, <2>4, <3>1, <3>2, <3>3 DEF Due
    <2> QED BY <1>1, <2>3, <2>4, RequestStep, TypesSplit DEF PagingInv
<1> QED BY <1>6, <1>7

\* Every step keeps the invariant.
LEMMA PagingInvStep == PagingInv /\ [DashboardNext]_dashboardVars => PagingInv'
<1> SUFFICES ASSUME PagingInv, [DashboardNext]_dashboardVars PROVE PagingInv'
    OBVIOUS
<1>1. ASSUME NEW f \in Fp, NEW env \in Zone, Set(f, env) PROVE PagingInv'
    <2>1. RowWritten(f)
        BY <1>1, SetWrites DEF PagingInv
    <2> QED BY <1>1, <2>1, WriteStep DEF Set
<1>2. ASSUME NEW f \in Fp, MarkResolved(f) PROVE PagingInv'
    <2>1. RowWritten(f)
        BY <1>2, ResolvedWrites DEF PagingInv
    <2> QED BY <1>2, <2>1, WriteStep DEF MarkResolved
<1>3. ASSUME NEW f \in Fp, NEW env \in Zone, SavePending(f, env) PROVE PagingInv'
    BY <1>3, BesideStep
<1>4. CASE CleanupPending \/ Second
    BY <1>4, BesideStep
<1>5. CASE Viewer
    BY <1>5, AskStep, CountStep, SelectStep, ListFailsStep, ShowStep, ReadStep DEF Viewer
<1>6. CASE UNCHANGED dashboardVars
    <2>1. UNCHANGED <<analyses, filter, page>> /\ UNCHANGED <<database, viewer, seen, settled, excused>>
        BY <1>6 DEF dashboardVars, database, viewer
    <2>2. UNCHANGED <<seconds, writes, analyses, waiting, statement, filter, page, found, shown, seen, settled, excused>>
        BY <2>1 DEF database, viewer
    <2>3. TablesTyped' /\ RequestTyped' /\ HistoryTyped'
        BY <2>2, TypesSplit DEF PagingInv, TablesTyped, RequestTyped, HistoryTyped
    <2>4. OneRowEach' /\ WrittenBefore' /\ (Due => Due')
        BY <2>2, <2>1, SamePage DEF PagingInv, WrittenBefore, Due, StillDue, Missed
    <2> QED BY <2>2, <2>3, <2>4, TypesSplit DEF PagingInv
<1> QED BY <1>1, <1>2, <1>3, <1>4, <1>5, <1>6 DEF DashboardNext

\* Every variable of the alerts page keeps its type.
THEOREM DashboardTypeCorrect == DashboardSpec => []DashboardTypeOK
<1>1. PagingInv => DashboardTypeOK
    BY DEF PagingInv
<1> QED BY <1>1, PagingInvInit, PagingInvStep, PTL DEF DashboardSpec

\* A viewer who goes through to the last page has seen every analysis that
\* was there at the start and left alone, for pages of any size, any number
\* of writes between any two statements, and any filter.
THEOREM PagingSeesAll == DashboardSpec => []PagingMissesNothing
<1>1. PagingInv => PagingMissesNothing
    <2> SUFFICES ASSUME PagingInv, statement = "over", ~excused PROVE settled \subseteq seen
        BY DEF PagingMissesNothing
    <2> QED BY DEF PagingInv, Due, StillDue, Missed
<1> QED BY <1>1, PagingInvInit, PagingInvStep, PTL DEF DashboardSpec

-----------------------------------------------------------------------------
(* The statistics.                                                         *)

\* A row that gets older keeps the rest, and never gets younger.
LEMMA AgedRow ==
    ASSUME NEW row \in Event
    PROVE  Aged(row) \in Event /\ (Expired(row) => Expired(Aged(row)))
<1>1. row.age \in 0..MaxDays /\ MaxDays \in Nat /\ Retention \in Nat
    BY StatisticsAssumption DEF Event, StatisticsAssumption
<1> DEFINE age == IF row.age < MaxDays THEN row.age + 1 ELSE row.age
<1>2. age \in 0..MaxDays /\ row.age <= age
    BY <1>1
<1>3. Aged(row) = [row EXCEPT !.age = age]
    BY DEF Aged
<1> HIDE DEF age
<1>4. Aged(row) \in Event /\ Aged(row).age = age
    BY <1>2, <1>3 DEF Event
<1> QED BY <1>1, <1>2, <1>4 DEF Expired

\* What the janitor took was expired, and is now.
ForgottenLate ==
    /\ StatisticsTypeOK
    /\ \A i \in DOMAIN received \ rows : Expired(received[i])

\* Every step keeps it so.
LEMMA ForgottenLateStep == ForgottenLate /\ [StatisticsNext]_statisticsVars => ForgottenLate'
<1> SUFFICES ASSUME ForgottenLate, [StatisticsNext]_statisticsVars PROVE ForgottenLate'
    OBVIOUS
<1>1. /\ received \in Seq(Event) /\ rows \subseteq DOMAIN received
      /\ Len(received) \in Nat /\ DOMAIN received = 1..Len(received)
      /\ \A i \in DOMAIN received : received[i] \in Event
    BY DEF ForgottenLate, StatisticsTypeOK
<1>2. ASSUME NEW n \in Name, NEW e \in Header, NEW r \in BOOLEAN, RecordEvent(n, e, r)
      PROVE  ForgottenLate'
    <2> DEFINE row == [name |-> n, env |-> e, resolved |-> r, age |-> 0]
    <2>1. row \in Event
        BY StatisticsAssumption DEF Event, StatisticsAssumption
    <2>2. received' = Append(received, row) /\ rows' = rows \cup {Len(received) + 1}
        BY <1>2 DEF RecordEvent
    <2> HIDE DEF row
    <2>3. /\ received' \in Seq(Event) /\ DOMAIN received' = 1..(Len(received) + 1)
          /\ \A i \in DOMAIN received : received'[i] = received[i]
        BY <1>1, <2>1, <2>2
    <2>4. \A i \in DOMAIN received' \ rows' : i \in DOMAIN received \ rows
        BY <1>1, <2>2, <2>3
    <2>5. rows' \subseteq DOMAIN received'
        BY <1>1, <2>2, <2>3
    <2> QED BY <2>3, <2>4, <2>5 DEF ForgottenLate, StatisticsTypeOK, Expired
<1>3. CASE Day
    <2>1. rows' = rows /\ received' = [i \in DOMAIN received |-> Aged(received[i])]
        BY <1>3 DEF Day
    <2>2. \A i \in DOMAIN received :
            received'[i] \in Event /\ (Expired(received[i]) => Expired(received'[i]))
        BY <1>1, <2>1, AgedRow
    <2>3. DOMAIN received' = DOMAIN received
        BY <2>1
    <2>4. received' \in Seq(Event)
        <3>1. received' = [i \in 1..Len(received) |-> received'[i]]
            BY <1>1, <2>1
        <3> QED BY <1>1, <2>2, <3>1
    <2>5. \A i \in DOMAIN received' \ rows' : Expired(received'[i])
        BY <2>1, <2>2, <2>3 DEF ForgottenLate
    <2> QED BY <1>1, <2>1, <2>3, <2>4, <2>5 DEF ForgottenLate, StatisticsTypeOK, Expired
<1>4. CASE CleanupEvents
    BY <1>4, <1>1 DEF CleanupEvents, ForgottenLate, StatisticsTypeOK, Expired
<1>5. CASE UNCHANGED statisticsVars
    BY <1>5 DEF statisticsVars, ForgottenLate, StatisticsTypeOK, Expired
<1> QED BY <1>2, <1>3, <1>4, <1>5 DEF StatisticsNext

\* Nothing is recorded in the beginning.
LEMMA ForgottenLateInit == StatisticsInit => ForgottenLate
BY DEF StatisticsInit, ForgottenLate, StatisticsTypeOK

\* Every variable of the statistics keeps its type.
THEOREM StatisticsTypeCorrect == StatisticsSpec => []StatisticsTypeOK
<1>1. ForgottenLate => StatisticsTypeOK
    BY DEF ForgottenLate
<1> QED BY <1>1, ForgottenLateInit, ForgottenLateStep, PTL DEF StatisticsSpec

\* Among numbers there is a least one.
LEMMA LeastOf ==
    ASSUME NEW I, I \subseteq Nat, I # {}
    PROVE  \E x \in I : \A y \in I : x <= y
<1>1. PICK x \in I : \A y \in I : <<y, x>> \notin OpToRel(<, Nat)
    BY NatLessThanWellFounded, WFMin
<1>2. ASSUME NEW y \in I PROVE x =< y
    <2>1. <<y, x>> \in Nat \X Nat /\ <<y, x>>[1] = y /\ <<y, x>>[2] = x
        OBVIOUS
    <2>2. ~(y < x)
        BY <1>1, <2>1 DEF OpToRel
    <2> QED BY <2>2
<1> QED BY <1>2

\* A sum over the parts of a set is the size of the whole.
LEMMA SumOfParts ==
    ASSUME NEW S, IsFiniteSet(S), NEW B, NEW home \in [S -> B], NEW w,
           w = [b \in B |-> Cardinality({i \in S : home[i] = b})]
    PROVE  Sum(w) = Cardinality(S)
<1> DEFINE part(b) == {i \in S : home[i] = b}
           place(b) == CHOOSE f : f \in Bijection(1..w[b], part(b))
           Pairs    == UNION {{b} \X (1..w[b]) : b \in B}
           count    == [p \in Pairs |-> place(p[1])[p[2]]]
<1>1. ASSUME NEW b \in B
      PROVE  place(b) \in Bijection(1..w[b], part(b))
    <2>1. IsFiniteSet(part(b))
        BY FS_Subset
    <2>2. ExistsBijection(1..w[b], part(b))
        BY <2>1, FS_CardinalityType
    <2> QED BY <2>2 DEF ExistsBijection
<1>2. ASSUME NEW p \in Pairs
      PROVE  /\ p[1] \in B /\ p[2] \in 1..w[p[1]] /\ p = <<p[1], p[2]>>
    <2>1. PICK b \in B : p \in {b} \X (1..w[b])
        OBVIOUS
    <2> QED BY <2>1
<1>3. ASSUME NEW b \in B, NEW k \in 1..w[b]
      PROVE  <<b, k>> \in Pairs
    OBVIOUS
<1> HIDE DEF place, Pairs
<1>4. ASSUME NEW b \in B, NEW k \in 1..w[b]
      PROVE  place(b)[k] \in S /\ home[place(b)[k]] = b
    <2>1. place(b) \in [1..w[b] -> part(b)]
        BY <1>1 DEF Bijection, Injection
    <2>2. place(b)[k] \in part(b)
        BY <2>1
    <2> QED BY <2>2
<1>5. ASSUME NEW b \in B, NEW k \in 1..w[b], NEW l \in 1..w[b], place(b)[k] = place(b)[l]
      PROVE  k = l
    BY <1>1, <1>5 DEF Bijection, Injection, IsInjective
<1>6. ASSUME NEW i \in S
      PROVE  \E k \in 1..w[home[i]] : place(home[i])[k] = i
    <2>1. home[i] \in B /\ i \in part(home[i])
        OBVIOUS
    <2> QED BY <2>1, <1>1 DEF Bijection, Surjection
<1>7. count \in [Pairs -> S]
    BY <1>2, <1>4
<1>8. count \in Injection(Pairs, S)
    <2> SUFFICES ASSUME NEW p \in Pairs, NEW q \in Pairs, count[p] = count[q] PROVE p = q
        BY <1>7 DEF Injection, IsInjective
    <2>1. place(p[1])[p[2]] = place(q[1])[q[2]]
        OBVIOUS
    <2>2. p[1] = q[1]
        <3>1. home[place(p[1])[p[2]]] = p[1] /\ home[place(q[1])[q[2]]] = q[1]
            BY <1>2, <1>4
        <3> QED BY <2>1, <3>1
    <2>3. p[2] = q[2]
        BY <2>1, <2>2, <1>2, <1>5
    <2> QED BY <2>2, <2>3, <1>2
<1>9. count \in Surjection(Pairs, S)
    <2> SUFFICES ASSUME NEW i \in S PROVE \E p \in Pairs : count[p] = i
        BY <1>7 DEF Surjection
    <2>1. PICK k \in 1..w[home[i]] : place(home[i])[k] = i
        BY <1>6
    <2>2. <<home[i], k>> \in Pairs
        BY <1>3
    <2>3. count[<<home[i], k>>] = i
        BY <2>1, <2>2
    <2> QED BY <2>2, <2>3
<1>10. ExistsBijection(Pairs, S)
    BY <1>8, <1>9 DEF ExistsBijection, Bijection
<1>11. Cardinality(Pairs) = Cardinality(S)
    BY <1>10, FS_Bijection, Fun_ExistsBijSymmetric
<1>12. DOMAIN w = B
    OBVIOUS
<1> QED BY <1>11, <1>12 DEF Sum, Pairs

\* The bucket of a notification, and the notifications of some buckets.
Home(sel) == [i \in sel |-> Bucket(sel, BucketOf(received[i]))]
Within(sel, C) == {i \in sel : Home(sel)[i] \in C}

Fired(ids) == {i \in ids : ~received[i].resolved}
Resolved(ids) == {i \in ids : received[i].resolved}

\* A bucket says of its notifications what they say themselves.
LEMMA BucketFields ==
    ASSUME NEW sel, NEW i \in sel
    PROVE  /\ Home(sel)[i] \in Buckets(sel)
           /\ Home(sel)[i].name = received[i].name
           /\ Home(sel)[i].env = displayEnv(received[i].env)
           /\ Home(sel)[i].key = <<received[i].name, received[i].env>>
           /\ Home(sel)[i].firing = Cardinality(Fired({j \in sel : Home(sel)[j] = Home(sel)[i]}))
           /\ Home(sel)[i].resolved = Cardinality(Resolved({j \in sel : Home(sel)[j] = Home(sel)[i]}))
<1> DEFINE k == BucketOf(received[i])
           under == {j \in sel : BucketOf(received[j]) = k}
<1>1. Home(sel)[i] = [name |-> k[1], env |-> displayEnv(k[2]), key |-> k,
                      firing |-> Cardinality(Fired(under)), resolved |-> Cardinality(Resolved(under))]
    BY DEF Home, Bucket, Fired, Resolved
<1>2. k = <<received[i].name, received[i].env>> /\ k[1] = received[i].name /\ k[2] = received[i].env
    BY DEF BucketOf
<1>3. Home(sel)[i] \in Buckets(sel)
    BY DEF Home, Buckets
<1>4. \A j \in sel : Home(sel)[j].key = BucketOf(received[j])
    BY DEF Home, Bucket
<1>5. \A j \in sel : BucketOf(received[j]) = k => Home(sel)[j] = Home(sel)[i]
    BY DEF Home
<1> HIDE DEF k
<1>6. under = {j \in sel : Home(sel)[j] = Home(sel)[i]}
    <2>1. Home(sel)[i].key = k
        BY <1>1
    <2> QED BY <2>1, <1>4, <1>5
<1> HIDE DEF under
<1> QED BY <1>1, <1>2, <1>3, <1>6, SMTT(30)

\* Every bucket is somebody's.
LEMMA BucketsAreHomes == \A sel : \A b \in Buckets(sel) : \E i \in sel : Home(sel)[i] = b
BY DEF Buckets, Home

\* What some buckets count is how many notifications are in them.
LEMMA CountedOnce ==
    ASSUME NEW sel, IsFiniteSet(sel), NEW C, C \subseteq Buckets(sel)
    PROVE  /\ Firings(C) = Cardinality(Fired(Within(sel, C)))
           /\ Resolutions(C) = Cardinality(Resolved(Within(sel, C)))
           /\ Total(C) = Cardinality(Within(sel, C))
<1> DEFINE I == Within(sel, C)
<1>1. IsFiniteSet(I) /\ IsFiniteSet(Fired(I)) /\ IsFiniteSet(Resolved(I))
    BY FS_Subset DEF Within, Fired, Resolved
<1>2. ASSUME NEW b \in C
      PROVE  /\ b.firing = Cardinality(Fired({j \in sel : Home(sel)[j] = b}))
             /\ b.resolved = Cardinality(Resolved({j \in sel : Home(sel)[j] = b}))
    <2>1. PICK i \in sel : Home(sel)[i] = b
        BY <1>2, BucketsAreHomes
    <2>2. {j \in sel : Home(sel)[j] = b} = {j \in sel : Home(sel)[j] = Home(sel)[i]}
        BY <2>1
    <2>3. /\ Home(sel)[i].firing = Cardinality(Fired({j \in sel : Home(sel)[j] = Home(sel)[i]}))
          /\ Home(sel)[i].resolved = Cardinality(Resolved({j \in sel : Home(sel)[j] = Home(sel)[i]}))
        BY BucketFields, ZenonT(60)
    <2> QED BY <2>1, <2>2, <2>3
<1>3. Firings(C) = Cardinality(Fired(I))
    <2> DEFINE S == Fired(I)
               home == [i \in S |-> Home(sel)[i]]
               w == [b \in C |-> Cardinality({i \in S : home[i] = b})]
    <2>1. home \in [S -> C]
        BY DEF Fired, Within
    <2>2. ASSUME NEW b \in C PROVE b.firing = w[b]
        <3>1. {i \in S : home[i] = b} = Fired({j \in sel : Home(sel)[j] = b})
            BY DEF Fired, Within
        <3> QED BY <3>1, <1>2
    <2>3. [b \in C |-> b.firing] = w
        BY <2>2
    <2> HIDE DEF S, home
    <2>4. Sum(w) = Cardinality(S)
        BY <2>1, <1>1, SumOfParts DEF S
    <2> QED BY <2>3, <2>4 DEF Firings, S
<1>4. Resolutions(C) = Cardinality(Resolved(I))
    <2> DEFINE S == Resolved(I)
               home == [i \in S |-> Home(sel)[i]]
               w == [b \in C |-> Cardinality({i \in S : home[i] = b})]
    <2>1. home \in [S -> C]
        BY DEF Resolved, Within
    <2>2. ASSUME NEW b \in C PROVE b.resolved = w[b]
        <3>1. {i \in S : home[i] = b} = Resolved({j \in sel : Home(sel)[j] = b})
            BY DEF Resolved, Within
        <3> QED BY <3>1, <1>2
    <2>3. [b \in C |-> b.resolved] = w
        BY <2>2
    <2> HIDE DEF S, home
    <2>4. Sum(w) = Cardinality(S)
        BY <2>1, <1>1, SumOfParts DEF S
    <2> QED BY <2>3, <2>4 DEF Resolutions, S
<1>5. Cardinality(Fired(I)) + Cardinality(Resolved(I)) = Cardinality(I)
    <2>1. I = Fired(I) \cup Resolved(I) /\ Fired(I) \cap Resolved(I) = {}
        BY DEF Fired, Resolved
    <2>2. Cardinality(Fired(I) \cap Resolved(I)) = 0
        BY <2>1, FS_EmptySet
    <2>3. /\ Cardinality(Fired(I)) \in Nat /\ Cardinality(Resolved(I)) \in Nat
        BY <1>1, FS_CardinalityType
    <2>4. Cardinality(I) = Cardinality(Fired(I)) + Cardinality(Resolved(I)) - Cardinality(Fired(I) \cap Resolved(I))
        BY <1>1, <2>1, FS_Union
    <2> QED BY <2>2, <2>3, <2>4
<1> QED BY <1>3, <1>4, <1>5 DEF Total

\* The notifications of a name, and of an environment as it is displayed.
OfName(sel, n) == {i \in sel : received[i].name = n}
OfEnv(sel, e) == {i \in sel : displayEnv(received[i].env) = e}

\* Which notifications lines and tiles are about.
LEMMA WithinParts ==
    ASSUME NEW sel
    PROVE  /\ Within(sel, Buckets(sel)) = sel
           /\ \A n : Within(sel, Named(Buckets(sel), n)) = OfName(sel, n)
           /\ \A e : Within(sel, HeardIn(Buckets(sel), e)) = OfEnv(sel, e)
           /\ \A e, n : Within(sel, Named(HeardIn(Buckets(sel), e), n)) = OfName(OfEnv(sel, e), n)
<1>1. \A i \in sel : /\ Home(sel)[i] \in Buckets(sel)
                     /\ Home(sel)[i].name = received[i].name
                     /\ Home(sel)[i].env = displayEnv(received[i].env)
    BY BucketFields
<1> QED BY <1>1 DEF Within, Named, HeardIn, OfName, OfEnv

\* Names, environments and buckets that appear are those of notifications.
LEMMA Appearing ==
    ASSUME NEW sel
    PROVE  /\ {b.name : b \in Buckets(sel)} = {received[i].name : i \in sel}
           /\ {b.env : b \in Buckets(sel)} = {displayEnv(received[i].env) : i \in sel}
           /\ \A e : {b.name : b \in HeardIn(Buckets(sel), e)} = {received[i].name : i \in OfEnv(sel, e)}
<1>1. \A i \in sel : /\ Home(sel)[i] \in Buckets(sel)
                     /\ Home(sel)[i].name = received[i].name
                     /\ Home(sel)[i].env = displayEnv(received[i].env)
    BY BucketFields
<1>2. \A b \in Buckets(sel) : \E i \in sel : Home(sel)[i] = b
    BY BucketsAreHomes
<1>3. {b.name : b \in Buckets(sel)} = {received[i].name : i \in sel}
    BY <1>1, <1>2
<1>4. {b.env : b \in Buckets(sel)} = {displayEnv(received[i].env) : i \in sel}
    BY <1>1, <1>2
<1>5. ASSUME NEW e
      PROVE  {b.name : b \in HeardIn(Buckets(sel), e)} = {received[i].name : i \in OfEnv(sel, e)}
    BY <1>1, <1>2 DEF HeardIn, OfEnv
<1> QED BY <1>3, <1>4, <1>5

\* Among finitely many names there is one that is heard most, first by name.
LEMMA MostHeard ==
    ASSUME NEW N, N \subseteq Nat, N # {}, NEW bound \in Nat,
           NEW count \in [N -> Nat], \A n \in N : count[n] <= bound
    PROVE  \E n \in N : \A m \in N : count[m] < count[n] \/ (count[m] = count[n] /\ n <= m)
<1> DEFINE Gaps == {bound - count[n] : n \in N}
<1>1. Gaps \subseteq Nat /\ Gaps # {}
    <2>1. \A n \in N : bound - count[n] \in Nat
        OBVIOUS
    <2> QED BY <2>1
<1>2. PICK gap \in Gaps : \A other \in Gaps : gap <= other
    BY <1>1, LeastOf
<1>3. PICK most \in N : \A m \in N : count[m] <= count[most]
    <2>1. PICK n \in N : gap = bound - count[n]
        BY <1>2
    <2>2. \A m \in N : bound - count[n] <= bound - count[m]
        BY <1>2, <2>1
    <2>3. \A m \in N : count[m] <= count[n]
        BY <2>2
    <2> QED BY <2>3
<1> DEFINE Leaders == {n \in N : count[n] = count[most]}
<1>4. Leaders \subseteq Nat /\ Leaders # {}
    OBVIOUS
<1>5. PICK first \in Leaders : \A m \in Leaders : first <= m
    BY <1>4, LeastOf
<1>6. ASSUME NEW m \in N PROVE count[m] < count[first] \/ (count[m] = count[first] /\ first <= m)
    BY <1>3, <1>5
<1> QED BY <1>5, <1>6

\* The lines of a page: one for each name, with as many notifications.
LEMMA LinesCount ==
    ASSUME NEW sel, IsFiniteSet(sel)
    PROVE  /\ \A l \in {Line(Buckets(sel), b.name) : b \in Buckets(sel)} :
                 l = Line(Buckets(sel), l.name)
           /\ \A n : Line(Buckets(sel), n).name = n
           /\ \A n : Line(Buckets(sel), n).count = Cardinality(OfName(sel, n))
           /\ \A i \in sel : Line(Buckets(sel), received[i].name) \in
                                {Line(Buckets(sel), b.name) : b \in Buckets(sel)}
<1> DEFINE B == Buckets(sel)
<1>1. \A n : Line(B, n).name = n /\ Line(B, n).count = Total(Named(B, n))
    BY DEF Line
<1>2. ASSUME NEW n PROVE Total(Named(B, n)) = Cardinality(OfName(sel, n))
    <2>1. Named(B, n) \subseteq Buckets(sel)
        BY DEF Named
    <2> QED BY <2>1, CountedOnce, WithinParts
<1>3. \A i \in sel : \E b \in B : b.name = received[i].name
    BY BucketFields
<1> HIDE DEF B
<1>4. \A l \in {Line(B, b.name) : b \in B} : l = Line(B, l.name)
    BY <1>1
<1>5. \A i \in sel : Line(B, received[i].name) \in {Line(B, b.name) : b \in B}
    BY <1>3
<1> QED BY <1>1, <1>2, <1>4, <1>5 DEF B

\* The tiles likewise.
LEMMA TilesCount ==
    ASSUME NEW sel, IsFiniteSet(sel)
    PROVE  /\ \A t \in {Tile(Buckets(sel), b.env) : b \in Buckets(sel)} :
                 t = Tile(Buckets(sel), t.env) /\ \E i \in sel : t.env = displayEnv(received[i].env)
           /\ \A e : /\ Tile(Buckets(sel), e).env = e
                     /\ Tile(Buckets(sel), e).count = Cardinality(OfEnv(sel, e))
                     /\ Tile(Buckets(sel), e).firing = Cardinality(Fired(OfEnv(sel, e)))
                     /\ Tile(Buckets(sel), e).resolved = Cardinality(Resolved(OfEnv(sel, e)))
                     /\ Tile(Buckets(sel), e).unique = Cardinality(HeardIn(Buckets(sel), e))
                     /\ Tile(Buckets(sel), e).top = TopAlert(HeardIn(Buckets(sel), e))
           /\ \A i \in sel : Tile(Buckets(sel), displayEnv(received[i].env)) \in
                                {Tile(Buckets(sel), b.env) : b \in Buckets(sel)}
<1> DEFINE B == Buckets(sel)
<1>1. \A e : /\ Tile(B, e).env = e
             /\ Tile(B, e).count = Total(HeardIn(B, e))
             /\ Tile(B, e).firing = Firings(HeardIn(B, e))
             /\ Tile(B, e).resolved = Resolutions(HeardIn(B, e))
             /\ Tile(B, e).unique = Cardinality(HeardIn(B, e))
             /\ Tile(B, e).top = TopAlert(HeardIn(B, e))
    BY DEF Tile
<1>2. ASSUME NEW e
      PROVE  /\ Total(HeardIn(B, e)) = Cardinality(OfEnv(sel, e))
             /\ Firings(HeardIn(B, e)) = Cardinality(Fired(OfEnv(sel, e)))
             /\ Resolutions(HeardIn(B, e)) = Cardinality(Resolved(OfEnv(sel, e)))
    <2>1. HeardIn(B, e) \subseteq Buckets(sel)
        BY DEF HeardIn
    <2> QED BY <2>1, CountedOnce, WithinParts
<1>3. \A i \in sel : \E b \in B : b.env = displayEnv(received[i].env)
    BY BucketFields
<1>4. \A b \in B : \E i \in sel : b.env = displayEnv(received[i].env)
    <2>1. \A i \in sel : Home(sel)[i].env = displayEnv(received[i].env)
        BY BucketFields
    <2> QED BY <2>1, BucketsAreHomes
<1> HIDE DEF B
<1>5. \A t \in {Tile(B, b.env) : b \in B} :
         t = Tile(B, t.env) /\ \E i \in sel : t.env = displayEnv(received[i].env)
    BY <1>1, <1>4
<1>6. \A i \in sel : Tile(B, displayEnv(received[i].env)) \in {Tile(B, b.env) : b \in B}
    BY <1>3
<1> QED BY <1>1, <1>2, <1>5, <1>6 DEF B

\* As many buckets as names, where the environment is one and the same.
LEMMA OneBucketPerName ==
    ASSUME NEW sel, IsFiniteSet(sel), NEW e,
           \A i, j \in OfEnv(sel, e) : received[i].env = received[j].env
    PROVE  Cardinality(HeardIn(Buckets(sel), e)) = Cardinality({received[i].name : i \in OfEnv(sel, e)})
<1> DEFINE C == HeardIn(Buckets(sel), e)
           N == {b.name : b \in C}
           naming == [b \in C |-> b.name]
<1>1. IsFiniteSet(C)
    <2>1. Home(sel) \in Surjection(sel, Buckets(sel))
        BY DEF Home, Buckets, Surjection
    <2>2. IsFiniteSet(Buckets(sel))
        BY <2>1, FS_Surjection
    <2>3. C \in SUBSET Buckets(sel)
        BY DEF HeardIn
    <2> HIDE DEF C
    <2> QED BY <2>2, <2>3, FS_Subset
<1>2. ASSUME NEW b \in C, NEW c \in C, b.name = c.name
      PROVE  b = c
    <2>1. PICK i \in sel : Home(sel)[i] = b
        BY BucketsAreHomes DEF HeardIn
    <2>2. PICK j \in sel : Home(sel)[j] = c
        BY BucketsAreHomes DEF HeardIn
    <2>3. b.name = received[i].name /\ b.env = displayEnv(received[i].env)
        BY <2>1, BucketFields
    <2>4. c.name = received[j].name /\ c.env = displayEnv(received[j].env)
        BY <2>2, BucketFields
    <2>5. i \in OfEnv(sel, e) /\ j \in OfEnv(sel, e)
        BY <2>3, <2>4 DEF HeardIn, OfEnv
    <2>6. BucketOf(received[i]) = BucketOf(received[j])
        BY <2>3, <2>4, <2>5, <1>2 DEF BucketOf
    <2> QED BY <2>1, <2>2, <2>6 DEF Home
<1>3. naming \in Bijection(C, N)
    <2> HIDE DEF C
    <2> QED BY <1>2 DEF Bijection, Injection, Surjection, IsInjective
<1>4. ExistsBijection(C, N)
    BY <1>3 DEF ExistsBijection
<1>5. Cardinality(N) = Cardinality(C)
    <2> HIDE DEF C, N
    <2> QED BY <1>1, <1>4, FS_Bijection
<1>6. N = {received[i].name : i \in OfEnv(sel, e)}
    BY Appearing
<1> QED BY <1>5, <1>6

\* The alert at the top is there, and none is heard more.
LEMMA TopIsMost ==
    ASSUME StatisticsTypeOK, NEW sel, IsFiniteSet(sel), sel \subseteq DOMAIN received,
           NEW e, OfEnv(sel, e) # {}
    PROVE  LET top == TopAlert(HeardIn(Buckets(sel), e))
               I   == OfEnv(sel, e)
           IN  /\ \E i \in I : received[i].name = top
               /\ \A i \in I : Cardinality(OfName(I, received[i].name)) <= Cardinality(OfName(I, top))
<1> DEFINE I == OfEnv(sel, e)
           C == HeardIn(Buckets(sel), e)
           N == {received[i].name : i \in I}
           count == [n \in N |-> Total(Named(C, n))]
           first(n) == \A m \in N : count[m] < count[n] \/ (count[m] = count[n] /\ n <= m)
<1>1. IsFiniteSet(I) /\ I \subseteq sel
    BY FS_Subset DEF OfEnv
<1>2. \A n : Total(Named(C, n)) = Cardinality(OfName(I, n))
    <2> SUFFICES ASSUME NEW n PROVE Total(Named(C, n)) = Cardinality(OfName(I, n))
        OBVIOUS
    <2>1. Named(C, n) \subseteq Buckets(sel)
        BY DEF Named, HeardIn
    <2> QED BY <2>1, CountedOnce, WithinParts
<1>3. \A n : Cardinality(OfName(I, n)) \in Nat /\ Cardinality(OfName(I, n)) <= Cardinality(I)
    <2> SUFFICES ASSUME NEW n
                 PROVE  Cardinality(OfName(I, n)) \in Nat /\ Cardinality(OfName(I, n)) <= Cardinality(I)
        OBVIOUS
    <2>1. OfName(I, n) \in SUBSET I
        BY DEF OfName
    <2> HIDE DEF I
    <2> QED BY <1>1, <2>1, FS_Subset, FS_CardinalityType
<1>4. N \subseteq Nat /\ N # {}
    <2>1. \A i \in DOMAIN received : received[i] \in Event
        BY DEF StatisticsTypeOK
    <2>2. \A i \in DOMAIN received : received[i].name \in Nat
        BY <2>1, StatisticsAssumption DEF Event, StatisticsAssumption
    <2>3. I # {} /\ \A i \in I : received[i].name \in Nat
        BY <1>1, <2>2
    <2> HIDE DEF I
    <2> QED BY <2>3
<1>5. Cardinality(I) \in Nat
    BY <1>1, FS_CardinalityType
<1>6. {b.name : b \in C} = N
    BY Appearing
<1>7. TopAlert(C) = CHOOSE n \in N : first(n)
    <2> HIDE DEF N, C
    <2>1. TopAlert(C) = CHOOSE n \in N : \A m \in N :
              \/ Total(Named(C, m)) < Total(Named(C, n))
              \/ Total(Named(C, m)) = Total(Named(C, n)) /\ n <= m
        BY <1>6 DEF TopAlert
    <2>2. \A n \in N : count[n] = Total(Named(C, n))
        OBVIOUS
    <2> HIDE DEF count
    <2>3. \A n \in N : first(n) <=> \A m \in N :
              \/ Total(Named(C, m)) < Total(Named(C, n))
              \/ Total(Named(C, m)) = Total(Named(C, n)) /\ n <= m
        BY <2>2
    <2> QED BY <2>1, <2>3
<1>8. count \in [N -> Nat] /\ \A n \in N : count[n] = Cardinality(OfName(I, n))
    <2> HIDE DEF N, C, I
    <2> QED BY <1>2, <1>3
<1>9. \E n \in N : first(n)
    <2> HIDE DEF count, N, I
    <2>1. \A n \in N : count[n] <= Cardinality(I)
        BY <1>3, <1>8
    <2>2. \E n \in N : \A m \in N : count[m] < count[n] \/ (count[m] = count[n] /\ n <= m)
        BY <1>4, <1>5, <1>8, <2>1, MostHeard
    <2> QED BY <2>2
<1>10. TopAlert(C) \in N /\ first(TopAlert(C))
    <2> HIDE DEF first, N
    <2> QED BY <1>7, <1>9
<1>11. \A m \in N : count[m] <= count[TopAlert(C)]
    <2> HIDE DEF count, N, C
    <2> QED BY <1>8, <1>10
<1>12. \A i \in I : Cardinality(OfName(I, received[i].name)) <= Cardinality(OfName(I, TopAlert(C)))
    <2>1. \A i \in I : received[i].name \in N
        OBVIOUS
    <2> HIDE DEF count, N, C, I
    <2> QED BY <1>8, <1>10, <1>11, <2>1
<1>13. \E i \in I : received[i].name = TopAlert(C)
    <2> HIDE DEF C, I, first
    <2> QED BY <1>10 DEF N
<1> QED BY <1>12, <1>13

\* What is selected is finite, and of every environment if all are asked for.
LEMMA SelectedFinite ==
    ASSUME StatisticsTypeOK, NEW days, NEW env
    PROVE  /\ IsFiniteSet(Selected(rows, days, env))
           /\ Selected(rows, days, env) \subseteq DOMAIN received
           /\ Selected(rows, days, env) \subseteq rows
<1>1. Len(received) \in Nat /\ DOMAIN received = 1..Len(received) /\ rows \subseteq DOMAIN received
    BY DEF StatisticsTypeOK
<1>2. IsFiniteSet(1..Len(received))
    BY <1>1, FS_Interval
<1>3. Selected(rows, days, env) \subseteq rows
    BY DEF Selected
<1>4. Selected(rows, days, env) \in SUBSET (1..Len(received))
    BY <1>1, <1>3
<1>5. IsFiniteSet(Selected(rows, days, env))
    BY <1>2, <1>4, FS_Subset
<1> QED BY <1>1, <1>3, <1>5

\* The tile of an environment, which only stored headers of one value go
\* into, shows what the page shows for that environment.
LEMMA TileIsFilter ==
    ASSUME StatisticsTypeOK, NEW days, NEW e,
           OfEnv(Selected(rows, days, AllEnvironments), e) # {},
           ~(e = DefaultName /\ \E i \in rows : received[i].env = DefaultName)
    PROVE  /\ Selected(rows, days, e) = OfEnv(Selected(rows, days, AllEnvironments), e)
           /\ \A i, j \in Selected(rows, days, e) : received[i].env = received[j].env
<1>1. e # AllEnvironments
    BY DEF OfEnv, displayEnv, AllEnvironments, DefaultName
<1>2. \A i \in rows : displayEnv(received[i].env) = e
                        <=> received[i].env = (IF e = DefaultName THEN "" ELSE e)
    BY <1>1 DEF displayEnv, AllEnvironments, DefaultName
<1> QED BY <1>1, <1>2 DEF Selected, OfEnv, AllEnvironments

\* Tiles, lines and filtered pages agree.
LEMMA TilesAgree == StatisticsTypeOK => TilesMatchFilters
<1> SUFFICES ASSUME StatisticsTypeOK, NEW days \in 1..MaxDays
             PROVE  LET s == AlertStats(rows, days, AllEnvironments) IN
                    /\ s.total = Cardinality(Selected(rows, days, AllEnvironments))
                    /\ s.total = Sum([t \in s.tiles |-> t.count])
                    /\ s.total = Sum([l \in s.lines |-> l.count])
                    /\ \A t \in s.tiles :
                          ~(t.env = DefaultName /\ \E i \in rows : received[i].env = DefaultName) =>
                             LET f == AlertStats(rows, days, t.env) IN
                             /\ <<t.count, t.firing, t.resolved, t.unique>> = <<f.total, f.firing, f.resolved, f.unique>>
                             /\ \E l \in f.lines : l.name = t.top /\ \A k \in f.lines : k.count <= l.count
    BY DEF TilesMatchFilters
<1> DEFINE sel == Selected(rows, days, AllEnvironments)
           B == Buckets(sel)
           s == AlertStats(rows, days, AllEnvironments)
           Tiles == {Tile(B, b.env) : b \in B}
           Lines == {Line(B, b.name) : b \in B}
<1>0. IsFiniteSet(sel) /\ sel \subseteq DOMAIN received /\ sel \subseteq rows
    BY SelectedFinite
<1>1. s.total = Total(B) /\ s.lines = Lines /\ s.tiles = Tiles
    BY DEF AlertStats, aggregate
<1>2. Total(B) = Cardinality(sel)
    <2>1. Within(sel, B) = sel
        BY WithinParts
    <2> QED BY <1>0, <2>1, CountedOnce
<1>3. Sum([t \in Tiles |-> t.count]) = Cardinality(sel)
    <2> DEFINE home == [i \in sel |-> Tile(B, displayEnv(received[i].env))]
               w == [t \in Tiles |-> Cardinality({i \in sel : home[i] = t})]
    <2> HIDE DEF sel
    <2>1. home \in [sel -> Tiles]
        BY <1>0, TilesCount
    <2>2. ASSUME NEW t \in Tiles PROVE t.count = w[t]
        <3>1. t = Tile(B, t.env) /\ t.count = Cardinality(OfEnv(sel, t.env))
            BY <1>0, TilesCount
        <3>2. \A i \in sel : home[i].env = displayEnv(received[i].env)
            BY <1>0, TilesCount
        <3>3. {i \in sel : home[i] = t} = OfEnv(sel, t.env)
            BY <3>1, <3>2 DEF OfEnv
        <3> QED BY <3>1, <3>3
    <2>3. [t \in Tiles |-> t.count] = w
        BY <2>2
    <2>4. w = [t \in Tiles |-> Cardinality({i \in sel : home[i] = t})]
        OBVIOUS
    <2> HIDE DEF home, Tiles, w
    <2>5. Sum(w) = Cardinality(sel)
        BY ONLY <1>0, <2>1, <2>4, SumOfParts
    <2> QED BY <2>3, <2>5
<1>4. Sum([l \in Lines |-> l.count]) = Cardinality(sel)
    <2> DEFINE home == [i \in sel |-> Line(B, received[i].name)]
               w == [l \in Lines |-> Cardinality({i \in sel : home[i] = l})]
    <2> HIDE DEF sel
    <2>1. home \in [sel -> Lines]
        BY <1>0, LinesCount
    <2>2. ASSUME NEW l \in Lines PROVE l.count = w[l]
        <3>1. l = Line(B, l.name) /\ l.count = Cardinality(OfName(sel, l.name))
            BY <1>0, LinesCount
        <3>2. \A i \in sel : home[i].name = received[i].name
            BY <1>0, LinesCount
        <3>3. {i \in sel : home[i] = l} = OfName(sel, l.name)
            BY <3>1, <3>2 DEF OfName
        <3> QED BY <3>1, <3>3
    <2>3. [l \in Lines |-> l.count] = w
        BY <2>2
    <2>4. w = [l \in Lines |-> Cardinality({i \in sel : home[i] = l})]
        OBVIOUS
    <2> HIDE DEF home, Lines, w
    <2>5. Sum(w) = Cardinality(sel)
        BY ONLY <1>0, <2>1, <2>4, SumOfParts
    <2> QED BY <2>3, <2>5
<1>5. ASSUME NEW t \in Tiles,
             ~(t.env = DefaultName /\ \E i \in rows : received[i].env = DefaultName)
      PROVE  LET f == AlertStats(rows, days, t.env) IN
             /\ <<t.count, t.firing, t.resolved, t.unique>> = <<f.total, f.firing, f.resolved, f.unique>>
             /\ \E l \in f.lines : l.name = t.top /\ \A k \in f.lines : k.count <= l.count
    <2> DEFINE e == t.env
               I == OfEnv(sel, e)
               f == AlertStats(rows, days, e)
               D == Buckets(I)
               top == TopAlert(HeardIn(B, e))
    <2>1. /\ I # {}
          /\ t.count = Cardinality(I) /\ t.firing = Cardinality(Fired(I)) /\ t.resolved = Cardinality(Resolved(I))
          /\ t.unique = Cardinality(HeardIn(B, e)) /\ t.top = top
        <3> HIDE DEF sel
        <3>1. t = Tile(B, e) /\ \E i \in sel : e = displayEnv(received[i].env)
            BY <1>0, TilesCount
        <3>2. I # {}
            BY <3>1 DEF OfEnv
        <3> QED BY <1>0, <3>1, <3>2, TilesCount
    <2>2. Selected(rows, days, e) = I /\ \A i, j \in I : received[i].env = received[j].env
        BY <1>5, <2>1, TileIsFilter
    <2>3. IsFiniteSet(I) /\ I \subseteq DOMAIN received
        BY <2>2, SelectedFinite
    <2>4. /\ f.total = Total(D) /\ f.firing = Firings(D) /\ f.resolved = Resolutions(D)
          /\ f.unique = Cardinality({b.name : b \in D}) /\ f.lines = {Line(D, b.name) : b \in D}
        BY <2>2 DEF AlertStats, aggregate
    <2> HIDE DEF sel, I, f
    <2>5. f.total = Cardinality(I) /\ f.firing = Cardinality(Fired(I)) /\ f.resolved = Cardinality(Resolved(I))
        <3>1. Within(I, D) = I
            BY WithinParts
        <3> QED BY <2>3, <2>4, <3>1, CountedOnce
    <2>6. f.unique = t.unique
        <3>1. {b.name : b \in D} = {received[i].name : i \in I}
            BY Appearing
        <3>2. Cardinality(HeardIn(B, e)) = Cardinality({received[i].name : i \in I})
            BY <1>0, <2>2, OneBucketPerName DEF I
        <3> QED BY <2>1, <2>4, <3>1, <3>2
    <2>7. PICK i \in I : received[i].name = top
        BY <1>0, <2>1, TopIsMost DEF I
    <2>8. \A j \in I : Cardinality(OfName(I, received[j].name)) <= Cardinality(OfName(I, top))
        BY <1>0, <2>1, TopIsMost DEF I
    <2> HIDE DEF e, top
    <2>9. /\ Line(D, top) \in f.lines /\ Line(D, top).name = top
          /\ Line(D, top).count = Cardinality(OfName(I, top))
        BY <2>3, <2>4, <2>7, LinesCount
    <2>10. ASSUME NEW k \in f.lines PROVE k.count <= Cardinality(OfName(I, top))
        <3>1. PICK b \in D : k = Line(D, b.name)
            BY <2>4
        <3>2. PICK j \in I : b.name = received[j].name
            BY Appearing
        <3>3. k.count = Cardinality(OfName(I, received[j].name))
            BY <2>3, <3>1, <3>2, LinesCount
        <3> QED BY <2>8, <3>3
    <2>11. \E l \in f.lines : l.name = t.top /\ \A k \in f.lines : k.count <= l.count
        BY <2>1, <2>9, <2>10
    <2> QED BY <2>1, <2>5, <2>6, <2>11 DEF f, e
<1> HIDE DEF s, Tiles, Lines, sel
<1>6. /\ s.total = Cardinality(sel)
      /\ s.total = Sum([t \in s.tiles |-> t.count])
      /\ s.total = Sum([l \in s.lines |-> l.count])
    BY <1>1, <1>2, <1>3, <1>4
<1> QED BY <1>1, <1>5, <1>6 DEF s, sel

\* The page is true, however it is filtered: tiles, lines and the pages of
\* one environment agree, for any notifications, and over any window within
\* the retention, for any environment, the statistics are those of every
\* notification that was ever received.
THEOREM StatisticsAreTrue == StatisticsSpec => []StatisticsTrue
<1>1. ForgottenLate => NothingForgottenEarly
    <2> SUFFICES ASSUME ForgottenLate,
                        NEW days \in 1..Retention, NEW env \in Header \cup {AllEnvironments}
                 PROVE  AlertStats(rows, days, env) = AlertStats(DOMAIN received, days, env)
        BY DEF NothingForgottenEarly
    <2>1. Retention \in Nat /\ days <= Retention
        BY StatisticsAssumption DEF StatisticsAssumption
    <2>2. \A i \in DOMAIN received : received[i].age \in Nat
        <3>1. \A i \in DOMAIN received : received[i] \in Event
            BY DEF ForgottenLate, StatisticsTypeOK
        <3> QED BY <3>1, StatisticsAssumption DEF Event, StatisticsAssumption
    <2>3. \A i \in DOMAIN received \ rows : ~(received[i].age < days)
        BY <2>1, <2>2 DEF ForgottenLate, Expired
    <2>4. rows \subseteq DOMAIN received
        BY DEF ForgottenLate, StatisticsTypeOK
    <2>5. Selected(rows, days, env) = Selected(DOMAIN received, days, env)
        BY <2>3, <2>4 DEF Selected
    <2> QED BY <2>5 DEF AlertStats
<1>2. ForgottenLate => StatisticsTrue
    BY <1>1, TilesAgree DEF ForgottenLate, StatisticsTrue
<1> QED BY <1>2, ForgottenLateInit, ForgottenLateStep, PTL DEF StatisticsSpec
=============================================================================
