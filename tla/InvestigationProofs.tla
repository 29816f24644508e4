------------------------- MODULE InvestigationProofs -------------------------
(***************************************************************************)
(* The MCP client and the analysis that uses it, for every set of tools    *)
(* and every bound.  The argument about the client rests on one fact: it   *)
(* connects only while it has no tools.  That about the dialog is about    *)
(* positions: the history followed by the calls still to do is an alert    *)
(* and turns that are complete (InOrder; DialogInv).  That both come to    *)
(* an end is about what they have left (StepsLeft, RequestsLeft).          *)
(***************************************************************************)
EXTENDS Investigation, TLAPS, FiniteSetTheorems

\* The two lengths a list of URLs may have.
LEMMA OneElement ==
    ASSUME NEW a
    PROVE  Head(<<a>>) = a /\ Tail(<<a>>) = <<>>
  OBVIOUS

\* With two URLs, the rest is the second.
LEMMA TwoElements ==
    ASSUME NEW a, NEW b
    PROVE  Head(<<a, b>>) = a /\ Tail(<<a, b>>) = <<b>>
  OBVIOUS

\* The incarnations of a server that goes down at most m times.
LEMMA Epochs ==
    ASSUME NEW m \in Nat, NEW e \in 1..m + 1
    PROVE  e \in 0..m + 1 /\ (e <= m => e + 1 \in 1..m + 1)
  OBVIOUS

McpStep == [Connecting \/ Serving]_mcpVars

\* The types hold before the first attempt.
LEMMA McpTypeInit == McpAssumption /\ McpInit => McpTypeOK
<1> SUFFICES ASSUME McpAssumption, McpInit PROVE McpTypeOK
    OBVIOUS
<1>1. config \in {"base", "mcp"}
    BY DEF McpAssumption, McpInit
<1>2. home \in {"base", "mcp"}
    BY <1>1 DEF McpInit
<1>3. urls \in {<<>>, <<"mcp">>, <<"base", "mcp">>}
    BY <1>1 DEF McpInit, Candidates
<1>4. epoch \in 1..MaxOutages + 1 /\ session \in 0..MaxOutages + 1
    <2>1. MaxOutages \in Nat
        BY DEF McpAssumption
    <2>2. epoch = 1 /\ session = 0
        BY DEF McpInit
    <2> QED
        BY <2>1, <2>2
<1> QED
    BY <1>1, <1>2, <1>3, <1>4 DEF McpInit, McpTypeOK

\* Every step of the client, the monitor and the server keeps the types.
LEMMA McpTypeStep == McpAssumption /\ McpTypeOK /\ McpStep => McpTypeOK'
<1> SUFFICES ASSUME McpAssumption, McpTypeOK, McpStep PROVE McpTypeOK'
    OBVIOUS
<1> USE DEF McpAssumption, McpTypeOK, server, client, monitor
<1>1. CASE GoDown
    <2>1. epoch' = epoch + 1 /\ epoch <= MaxOutages /\ up' = FALSE
        BY <1>1 DEF GoDown
    <2>2. epoch' \in 1..MaxOutages + 1
        BY <2>1, Epochs, Zenon
    <2>3. /\ config' = config /\ home' = home /\ serves' = serves /\ url' = url
         /\ session' = session /\ tools' = tools /\ attempt' = attempt /\ urls' = urls
         /\ checking' = checking /\ health' = health /\ met' = met
        BY <1>1 DEF GoDown
    <2> QED
        BY <2>1, <2>2, <2>3, ZenonT(60)
<1>2. CASE ComeUp      BY <1>2 DEF ComeUp
<1>3. CASE NextUrl
    <2>1. urls # <<>> /\ url' = Head(urls) /\ urls' = Tail(urls) /\ attempt' = "initialize"
        BY <1>3 DEF NextUrl
    <2>2. url' \in {"base", "mcp"} /\ urls' \in {<<>>, <<"mcp">>, <<"base", "mcp">>}
        <3>1. CASE urls = <<"mcp">>
            BY <2>1, <3>1, OneElement, Zenon
        <3>2. CASE urls = <<"base", "mcp">>
            BY <2>1, <3>2, TwoElements, Zenon
        <3> QED
            BY <2>1, <3>1, <3>2
    <2>3. /\ config' = config /\ home' = home /\ serves' = serves /\ up' = up
         /\ epoch' = epoch /\ session' = session /\ tools' = tools
         /\ checking' = checking /\ health' = health /\ met' = met
        BY <1>3 DEF NextUrl
    <2> QED
        BY <2>1, <2>2, <2>3, ZenonT(60)
<1>4. CASE AllFailed   BY <1>4 DEF AllFailed
<1>5. CASE Initialize
    <2>1. session' = epoch /\ attempt' = "notify"
        BY <1>5 DEF Initialize
    <2>2. session' \in 0..MaxOutages + 1
        BY <2>1, Epochs, Zenon
    <2>3. /\ config' = config /\ home' = home /\ serves' = serves /\ up' = up
         /\ epoch' = epoch /\ url' = url /\ tools' = tools /\ urls' = urls
         /\ checking' = checking /\ health' = health /\ met' = met
        BY <1>5 DEF Initialize
    <2> QED
        BY <2>1, <2>2, <2>3, ZenonT(60)
<1>6. CASE Notify      BY <1>6 DEF Notify
<1>7. CASE List        BY <1>7 DEF List
<1>8. CASE RequestFails BY <1>8 DEF RequestFails
<1>9. CASE Check       BY <1>9 DEF Check, Candidates
<1>10. CASE UNCHANGED mcpVars BY <1>10, ZenonT(60) DEF mcpVars
<1> QED
    BY <1>1, <1>2, <1>3, <1>4, <1>5, <1>6, <1>7, <1>8, <1>9, <1>10
    DEF McpStep, Connecting, Serving

\* The client has tools only where its last handshake was completed, and no
\* attempt is under way then.
LEMMA CallsStep == CallsWhereItMet /\ McpStep => CallsWhereItMet'
<1> SUFFICES ASSUME CallsWhereItMet, McpStep PROVE CallsWhereItMet'
    OBVIOUS
<1> USE DEF CallsWhereItMet, server, client, monitor
<1>1. CASE Serving     BY <1>1 DEF Serving, GoDown, ComeUp
<1>2. CASE NextUrl     BY <1>2 DEF NextUrl
<1>3. CASE AllFailed   BY <1>3 DEF AllFailed
<1>4. CASE Initialize  BY <1>4 DEF Initialize
<1>5. CASE Notify      BY <1>5 DEF Notify
<1>6. CASE List        BY <1>6 DEF List, Served, Reached
<1>7. CASE RequestFails BY <1>7 DEF RequestFails
<1>8. CASE Check       BY <1>8 DEF Check
<1>9. CASE UNCHANGED mcpVars BY <1>9 DEF mcpVars
<1> QED
    BY <1>1, <1>2, <1>3, <1>4, <1>5, <1>6, <1>7, <1>8, <1>9 DEF McpStep, Connecting

\* There are no tools to call at first.
LEMMA CallsInit == McpInit => CallsWhereItMet
  BY DEF McpInit, CallsWhereItMet

\* Type correctness of the client, the monitor and the server.
THEOREM McpTypeCorrect == McpSpec => []McpTypeOK
<1>1. McpInit => McpTypeOK
    BY McpTypeInit, McpAssumption
<1>2. McpTypeOK /\ [Connecting \/ Serving]_mcpVars => McpTypeOK'
    BY McpTypeStep, McpAssumption DEF McpStep
<1> QED
    BY <1>1, <1>2, PTL DEF McpSpec

\* The url no mutex protects never changes while workers may use it: calls
\* go where the last handshake was completed (mcp_client.go, Execute).
THEOREM McpCallsWhereItMet == McpSpec => []CallsWhereItMet
<1>1. CallsWhereItMet /\ [Connecting \/ Serving]_mcpVars => CallsWhereItMet'
    BY CallsStep DEF McpStep
<1> QED
    BY <1>1, CallsInit, PTL DEF McpSpec

-----------------------------------------------------------------------------
\* What a step of the whole does to the client: one of its own, or nothing.
LEMMA StepOfMcp == [Next]_vars => McpStep
  BY DEF Next, vars, Start, Talk, UseTool, Connect, McpStep

\* A tool of the registry stays in it.
LEMMA ListToolsGrow ==
    ASSUME CallsWhereItMet, McpStep
    PROVE  ListTools \subseteq ListTools'
<1>1. CASE List
    BY <1>1 DEF List, CallsWhereItMet, ListTools
<1>2. CASE UNCHANGED tools
    BY <1>2 DEF ListTools
<1>3. List \/ UNCHANGED tools
    BY DEF McpStep, mcpVars, client, server, monitor, Connecting, Serving, GoDown, ComeUp,
           NextUrl, AllFailed, Initialize, Notify, RequestFails, Check
<1> QED
    BY <1>1, <1>2, <1>3

\* What a step of the whole does to the analysis.
LEMMA StepOfAnalysis ==
    ASSUME [Next]_vars
    PROVE  \/ Begin(ListTools)
           \/ Converse
           \/ \E ok \in BOOLEAN : Execute(ok)
           \/ UNCHANGED analysis
  BY DEF Next, vars, Start, Talk, UseTool, Connect, CallBuiltin, CallMcp, CallUnknown,
         CallSucceeds, Served, Reached

\* A tool that was offered to the model is found by Registry.Execute until
\* the analysis is over (registry.go), for any set of tools.
THEOREM OfferedCallable == Spec => []OfferedStaysCallable
<1> DEFINE Inv == CallsWhereItMet /\ OfferedStaysCallable
<1>1. Init => Inv
    BY CallsInit DEF Init, AnalyzerInit, OfferedStaysCallable
<1>2. Inv /\ [Next]_vars => Inv'
    <2> SUFFICES ASSUME Inv, [Next]_vars PROVE Inv'
        OBVIOUS
    <2>1. McpStep
        BY StepOfMcp
    <2>2. CallsWhereItMet'
        BY <2>1, CallsStep
    <2>3. ListTools \subseteq ListTools'
        BY <2>1, ListToolsGrow
    <2>4. \/ offered' = ListTools
          \/ at # "idle" /\ offered' = offered
          \/ at' = at /\ offered' = offered
        BY StepOfAnalysis
        DEF Begin, Converse, Execute, Ask, ChatFails, Respond, StopEarly, Answer, RequestTools,
            Hear, NextIteration, RunOut, dialog, analysis
    <2>5. OfferedStaysCallable'
        BY <2>3, <2>4 DEF OfferedStaysCallable
    <2> QED
        BY <2>2, <2>5
<1> QED
    BY <1>1, <1>2, PTL DEF Spec

-----------------------------------------------------------------------------
\* After the response that exceeds contextSoftLimitTokens nothing more is
\* asked or executed (analyzer.go), whatever responses cost.
THEOREM BudgetIsKept == Spec => []BudgetKept
<1>1. Init => BudgetKept
    <2> SUFFICES ASSUME Init PROVE ~(SoftLimit > 0 /\ spent > SoftLimit)
        BY DEF BudgetKept
    <2>1. spent = 0 /\ SoftLimit \in Nat
        BY AnalyzerAssumption DEF Init, AnalyzerInit
    <2> QED
        BY <2>1
<1>2. BudgetKept /\ [Next]_vars => BudgetKept'
    <2> SUFFICES ASSUME BudgetKept, [Next]_vars PROVE BudgetKept'
        OBVIOUS
    <2>1. \/ Begin(ListTools) \/ Converse \/ UNCHANGED analysis
          \/ \E ok \in BOOLEAN : Execute(ok)
        BY StepOfAnalysis
    <2>2. CASE UNCHANGED analysis
        BY <2>2 DEF analysis, dialog, BudgetKept
    <2>3. CASE Begin(ListTools)
        BY <2>3 DEF Begin, BudgetKept
    <2>4. CASE \E ok \in BOOLEAN : Execute(ok)
        BY <2>4 DEF Execute, BudgetKept
    <2>5. CASE Converse
        <3>1. CASE Ask \/ ChatFails \/ NextIteration \/ RunOut
            BY <3>1 DEF Ask, ChatFails, NextIteration, RunOut, dialog, BudgetKept
        <3>2. CASE Respond
            <4>1. at' = "done" \/ ~OverLimit
                BY <3>2 DEF Respond, StopEarly, Answer, RequestTools
            <4> QED
                BY <4>1 DEF OverLimit, BudgetKept
        <3> QED
            BY <2>5, <3>1, <3>2 DEF Converse
    <2> QED
        BY <2>1, <2>2, <2>3, <2>4, <2>5
<1> QED
    BY <1>1, <1>2, PTL DEF Spec

-----------------------------------------------------------------------------
(* The history.  Position p holds a message, or, past the end, the call of *)
(* todo whose result will be there.                                        *)

IsCall(ms, p) == p > Len(ms) \/ ms[p].role = "tool"

CallAt(ms, td, p) == IF p > Len(ms) THEN td[p - Len(ms)] ELSE ms[p].call

Extent(ms, td) == Len(ms) + Len(td)

\* The calls of the message at i have their results right after it, in the
\* order of the calls, and then comes the next response, if there is one.
AnsweredInTurn(ms, td, i) ==
    LET n == Len(ms[i].calls) IN
    /\ n >= 1
    /\ i + n <= Extent(ms, td)
    /\ \A k \in 1..n : IsCall(ms, i + k) /\ CallAt(ms, td, i + k) = ms[i].calls[k]
    /\ i + n < Extent(ms, td) => i + n < Len(ms) /\ ms[i + n + 1].role = "assistant"
    /\ \A k, l \in 1..n : ms[i].calls[k].id = ms[i].calls[l].id => k = l

\* Position p is in the turn of the response at j.
Within(ms, j, p) == ms[j].role = "assistant" /\ j <= p /\ p <= j + Len(ms[j].calls)

\* The alert comes first, and then nothing but responses with the results of
\* their calls.
InOrder(ms, td) ==
    /\ ms # <<>> => ms[1].role = "user"
    /\ \A i \in 2..Len(ms) : ms[i].role # "user"
    /\ \A i \in 1..Len(ms) : ms[i].role = "assistant" => AnsweredInTurn(ms, td, i)
    /\ \A p \in 2..Extent(ms, td) : \E j \in 2..Len(ms) : Within(ms, j, p)

\* What an append does.
LEMMA Grown ==
    ASSUME NEW S, NEW s \in Seq(S), NEW e
    PROVE  /\ Len(Append(s, e)) = Len(s) + 1 /\ Len(s) \in Nat
           /\ Append(s, e)[Len(s) + 1] = e
           /\ \A i \in 1..Len(s) : Append(s, e)[i] = s[i]
           /\ Append(s, e) # <<>>
<1> DEFINE T == S \cup {e}
<1>1. s \in Seq(T) /\ e \in T
    OBVIOUS
<1>2. Len(Append(s, e)) = Len(s) + 1 /\ Len(s) \in Nat /\ Append(s, e)[Len(s) + 1] = e
    BY <1>1
<1>3. \A i \in 1..Len(s) : Append(s, e)[i] = s[i]
    BY <1>1
<1>4. Append(s, e) # <<>>
    BY <1>2
<1> QED
    BY <1>2, <1>3, <1>4


\* The fields of a message, by its role.
LEMMA Fields ==
    ASSUME NEW m \in Message
    PROVE  /\ m.role \in {"user", "assistant", "tool"}
           /\ m.role = "assistant" => /\ m.calls \in Seq(Call) /\ m.text \in 0..MaxIterations
                                      /\ Len(m.calls) \in Nat
                                      /\ DOMAIN m.calls = 1..Len(m.calls)
           /\ m.role = "tool" => /\ m.call \in Call /\ m.ok \in BOOLEAN
                                 /\ m.is \in {"full", "summary"}
<1>1. CASE m \in [role : {"user"}]
    BY <1>1
<1>2. CASE m \in [role : {"assistant"}, calls : Seq(Call), text : 0..MaxIterations]
    <2>1. m.role = "assistant" /\ m.calls \in Seq(Call) /\ m.text \in 0..MaxIterations
        BY <1>2
    <2> QED
        BY <2>1
<1>3. CASE m \in [role : {"tool"}, call : Call, is : {"full", "summary"}, ok : BOOLEAN]
    BY <1>3
<1> QED
    BY <1>1, <1>2, <1>3 DEF Message

\* A call is executed: its result takes the place it had.
LEMMA ExecuteKeepsOrder ==
    ASSUME NEW ms \in Seq(Message), NEW td \in Seq(Call), td # <<>>, InOrder(ms, td), ms # <<>>,
           NEW m, m.role = "tool", m.call = Head(td)
    PROVE  InOrder(Append(ms, m), Tail(td))
<1> DEFINE mt == Append(ms, m)
           tt == Tail(td)
           L == Len(ms)
<1>1. /\ Len(mt) = L + 1 /\ L \in Nat /\ mt[L + 1] = m
      /\ \A i \in 1..L : mt[i] = ms[i]
    BY Grown
<1>2. /\ Len(tt) \in Nat /\ Len(td) = Len(tt) + 1
      /\ \A i \in 1..Len(tt) : tt[i] = td[i + 1]
      /\ Head(td) = td[1]
    OBVIOUS
<1>3. Extent(mt, tt) = Extent(ms, td) /\ Extent(ms, td) \in Nat /\ L + 1 <= Extent(ms, td)
    BY <1>1, <1>2 DEF Extent
<1>4. L >= 1
    OBVIOUS
<1> HIDE DEF mt, tt, L
<1>5. \A p \in 1..Extent(ms, td) :
        /\ IsCall(ms, p) => IsCall(mt, p)
        /\ IsCall(ms, p) => CallAt(mt, tt, p) = CallAt(ms, td, p)
    <2> SUFFICES ASSUME NEW p \in 1..Extent(ms, td), IsCall(ms, p)
                 PROVE  IsCall(mt, p) /\ CallAt(mt, tt, p) = CallAt(ms, td, p)
        OBVIOUS
    <2>1. CASE p <= L
        <3>1. ~(p > Len(ms)) /\ ~(p > Len(mt)) /\ mt[p] = ms[p]
            BY <1>1, <2>1 DEF L
        <3> QED
            BY <3>1 DEF IsCall, CallAt
    <2>2. CASE p = L + 1
        <3>1. p > Len(ms) /\ ~(p > Len(mt)) /\ mt[p] = m /\ p - Len(ms) = 1
            BY <1>1, <2>2 DEF L
        <3> QED
            BY <3>1, <1>2 DEF IsCall, CallAt
    <2>3. CASE p > L + 1
        <3>1. p > Len(ms) /\ p > Len(mt) /\ p - Len(ms) = (p - Len(mt)) + 1
              /\ p - Len(mt) \in 1..Len(tt)
            BY <1>1, <1>2, <1>3, <2>3 DEF L, Extent
        <3> QED
            BY <3>1, <1>2 DEF IsCall, CallAt
    <2> QED
        BY <2>1, <2>2, <2>3, <1>1
<1>6. ASSUME NEW i \in 1..Len(mt), mt[i].role = "assistant"
      PROVE  AnsweredInTurn(mt, tt, i)
    <2>1. i \in 1..L /\ mt[i] = ms[i]
        BY <1>1, <1>6
    <2>2. AnsweredInTurn(ms, td, i)
        BY <2>1, <1>6 DEF InOrder, L
    <2> DEFINE n == Len(ms[i].calls)
    <2>3. n \in Nat /\ n = Len(mt[i].calls)
        BY <2>1, <1>6, Fields DEF L
    <2>4. n >= 1 /\ i + n <= Extent(mt, tt)
        BY <2>2, <1>3 DEF AnsweredInTurn
    <2>5. ASSUME NEW k \in 1..n
          PROVE  IsCall(mt, i + k) /\ CallAt(mt, tt, i + k) = mt[i].calls[k]
        <3>1. IsCall(ms, i + k) /\ CallAt(ms, td, i + k) = ms[i].calls[k]
            BY <2>2 DEF AnsweredInTurn
        <3>2. i + k \in 1..Extent(ms, td)
            BY <2>3, <2>4, <1>3, <2>1, <1>1, SMTT(30)
        <3> QED
            BY <3>1, <3>2, <1>5, <2>1
    <2>6. ASSUME i + n < Extent(mt, tt)
          PROVE  i + n < Len(mt) /\ mt[i + n + 1].role = "assistant"
        <3>1. i + n < L /\ ms[i + n + 1].role = "assistant"
            BY <2>2, <2>6, <1>3 DEF AnsweredInTurn, L
        <3>2. i + n + 1 \in 1..L
            BY <3>1, <2>1, <2>3, <1>1
        <3> QED
            BY <3>1, <3>2, <1>1, <2>1, <2>3
    <2>7. \A k, l \in 1..n : mt[i].calls[k].id = mt[i].calls[l].id => k = l
        BY <2>2, <2>1 DEF AnsweredInTurn
    <2> QED
        BY <2>3, <2>4, <2>5, <2>6, <2>7 DEF AnsweredInTurn
<1>7. ASSUME NEW p \in 2..Extent(mt, tt)
      PROVE  \E j \in 2..Len(mt) : Within(mt, j, p)
    <2>1. PICK j \in 2..L : Within(ms, j, p)
        BY <1>3 DEF InOrder, L
    <2>2. mt[j] = ms[j] /\ j \in 2..Len(mt)
        BY <1>1
    <2> QED
        BY <2>1, <2>2 DEF Within
<1>8. mt[1].role = "user"
    BY <1>1, <1>4 DEF InOrder
<1>9. \A i \in 2..Len(mt) : mt[i].role # "user"
    <2> SUFFICES ASSUME NEW i \in 2..Len(mt) PROVE mt[i].role # "user"
        OBVIOUS
    <2>1. CASE i \in 2..L
        BY <2>1, <1>1 DEF InOrder, L
    <2>2. CASE i = L + 1
        BY <2>2, <1>1
    <2> QED
        BY <2>1, <2>2, <1>1
<1> QED
    BY <1>6, <1>7, <1>8, <1>9 DEF InOrder, mt, tt

\* The model asks for tool calls: the last turn is complete, and a new one begins.
LEMMA RequestKeepsOrder ==
    ASSUME NEW ms \in Seq(Message), ms # <<>>, InOrder(ms, <<>>),
           NEW m, m.role = "assistant", m.calls \in Seq(Call), m.calls # <<>>,
           \A k, l \in 1..Len(m.calls) : m.calls[k].id = m.calls[l].id => k = l
    PROVE  InOrder(Append(ms, m), m.calls)
<1> DEFINE mt == Append(ms, m)
           L == Len(ms)
           N == Len(m.calls)
<1>1. /\ Len(mt) = L + 1 /\ L \in Nat /\ mt[L + 1] = m
      /\ \A i \in 1..L : mt[i] = ms[i]
    BY Grown
<1>2. N \in Nat /\ N >= 1 /\ Len(<<>>) = 0 /\ L >= 1
    OBVIOUS
<1>3. Extent(ms, <<>>) = L /\ Extent(mt, m.calls) = L + 1 + N
    BY <1>1, <1>2 DEF Extent
<1> HIDE DEF mt, L, N
<1>4. \A p \in 1..L :
        /\ IsCall(ms, p) => IsCall(mt, p)
        /\ CallAt(mt, m.calls, p) = CallAt(ms, <<>>, p)
    BY <1>1, <1>2 DEF IsCall, CallAt, L
<1>5. \A k \in 1..N : IsCall(mt, L + 1 + k) /\ CallAt(mt, m.calls, L + 1 + k) = m.calls[k]
    BY <1>1, <1>2 DEF IsCall, CallAt
<1>6. ASSUME NEW i \in 1..L, mt[i].role = "assistant"
      PROVE  AnsweredInTurn(mt, m.calls, i)
    <2>1. mt[i] = ms[i]
        BY <1>1
    <2>2. AnsweredInTurn(ms, <<>>, i)
        BY <2>1, <1>6 DEF InOrder, L
    <2> DEFINE n == Len(ms[i].calls)
    <2>3. n \in Nat /\ n = Len(mt[i].calls)
        BY <2>1, <1>6, Fields DEF L
    <2>4. n >= 1 /\ i + n <= L
        BY <2>2, <1>3 DEF AnsweredInTurn
    <2>5. ASSUME NEW k \in 1..n
          PROVE  IsCall(mt, i + k) /\ CallAt(mt, m.calls, i + k) = mt[i].calls[k]
        <3>1. IsCall(ms, i + k) /\ CallAt(ms, <<>>, i + k) = ms[i].calls[k]
            BY <2>2 DEF AnsweredInTurn
        <3>2. i + k \in 1..L
            BY <2>3, <2>4, <1>1
        <3> QED
            BY <3>1, <3>2, <1>4, <2>1
    <2>6. i + n < Len(mt) /\ mt[i + n + 1].role = "assistant"
        <3>0. i + n < L => ms[i + n + 1].role = "assistant"
            BY <2>2, <1>3 DEF AnsweredInTurn
        <3> HIDE DEF n
        <3>1. CASE i + n < L
            <4>1. ms[i + n + 1].role = "assistant"
                BY <3>0, <3>1
            <4>2. i + n + 1 \in 1..L
                BY <3>1, <2>3, <1>1
            <4>3. mt[i + n + 1] = ms[i + n + 1]
                BY <4>2, <1>1
            <4>4. i + n < Len(mt)
                BY <3>1, <2>3, <1>1
            <4> QED
                BY <4>1, <4>3, <4>4
        <3>2. CASE i + n = L
            <4>0. L \in Nat /\ n \in Nat /\ i \in Nat /\ Len(mt) = L + 1
                BY <1>1, <2>3
            <4>1. i + n < Len(mt) /\ i + n + 1 = L + 1
                BY <3>2, <4>0
            <4>2. mt[i + n + 1] = m
                BY <4>1, <1>1
            <4> QED
                BY <4>1, <4>2
        <3>3. i + n < L \/ i + n = L
            <4>1. i \in Nat /\ n \in Nat /\ L \in Nat /\ i + n <= L
                BY <2>3, <2>4, <1>1
            <4> QED
                BY <4>1
        <3> QED
            BY <3>1, <3>2, <3>3
    <2>7. \A k, l \in 1..n : mt[i].calls[k].id = mt[i].calls[l].id => k = l
        BY <2>2, <2>1 DEF AnsweredInTurn
    <2>8. i + n <= Extent(mt, m.calls)
        BY <2>4, <2>3, <1>3, <1>2, <1>1
    <2> QED
        BY <2>3, <2>4, <2>5, <2>6, <2>7, <2>8 DEF AnsweredInTurn
<1>7. AnsweredInTurn(mt, m.calls, L + 1)
    <2>1. mt[L + 1].calls = m.calls
        BY <1>1
    <2>2. L + 1 + N <= Extent(mt, m.calls) /\ ~(L + 1 + N < Extent(mt, m.calls))
        BY <1>1, <1>2, <1>3
    <2> QED
        BY <2>1, <2>2, <1>2, <1>5 DEF AnsweredInTurn, N
<1>8. \A i \in 1..Len(mt) : mt[i].role = "assistant" => AnsweredInTurn(mt, m.calls, i)
    BY <1>6, <1>7, <1>1
<1>9. ASSUME NEW p \in 2..Extent(mt, m.calls)
      PROVE  \E j \in 2..Len(mt) : Within(mt, j, p)
    <2>1. CASE p <= L
        <3>1. PICK j \in 2..L : Within(ms, j, p)
            BY <2>1, <1>3, <1>1 DEF InOrder, L
        <3>2. mt[j] = ms[j] /\ j \in 2..Len(mt)
            BY <1>1
        <3> QED
            BY <3>1, <3>2 DEF Within
    <2>2. CASE p > L
        <3>1. L + 1 \in 2..Len(mt) /\ L + 1 <= p /\ p <= L + 1 + N
            BY <2>2, <1>1, <1>2, <1>3
        <3>2. mt[L + 1].role = "assistant" /\ Len(mt[L + 1].calls) = N
            BY <1>1 DEF N
        <3>3. Within(mt, L + 1, p)
            BY <3>1, <3>2 DEF Within
        <3> QED
            BY <3>1, <3>3
    <2> QED
        BY <2>1, <2>2, <1>1
<1>10. mt[1].role = "user"
    BY <1>1, <1>2 DEF InOrder
<1>11. \A i \in 2..Len(mt) : mt[i].role # "user"
    <2> SUFFICES ASSUME NEW i \in 2..Len(mt) PROVE mt[i].role # "user"
        OBVIOUS
    <2>1. CASE i \in 2..L
        BY <2>1, <1>1 DEF InOrder, L
    <2>2. CASE i = L + 1
        BY <2>2, <1>1
    <2> QED
        BY <2>1, <2>2, <1>1
<1> QED
    BY <1>8, <1>9, <1>10, <1>11 DEF InOrder, mt

\* What compacting leaves alone.
LEMMA CompactingChangesNoCall ==
    ASSUME NEW ms \in Seq(Message)
    PROVE  /\ Compacted(ms) \in Seq(Message) /\ Len(Compacted(ms)) = Len(ms)
           /\ \A i \in 1..Len(ms) :
                /\ Compacted(ms)[i].role = ms[i].role
                /\ ms[i].role = "assistant" => Compacted(ms)[i] = ms[i]
                /\ ms[i].role = "tool" => /\ Compacted(ms)[i].call = ms[i].call
                                          /\ Compacted(ms)[i].ok = ms[i].ok
<1> DEFINE old(i) == i \in ToolAt(ms) /\ Newer(ms, i) > KeepRecent /\ KeepRecent > 0
           c == Compacted(ms)
<1>1. /\ DOMAIN ms = 1..Len(ms) /\ Len(ms) \in Nat
      /\ c = [i \in 1..Len(ms) |-> IF old(i) THEN [ms[i] EXCEPT !.is = "summary"] ELSE ms[i]]
    BY DEF Compacted
<1>2. \A i \in 1..Len(ms) : old(i) => ms[i].role = "tool"
    BY DEF ToolAt
<1> HIDE DEF old, c
<1>3. ASSUME NEW i \in 1..Len(ms)
      PROVE  /\ c[i] \in Message
             /\ c[i].role = ms[i].role
             /\ ms[i].role = "assistant" => c[i] = ms[i]
             /\ ms[i].role = "tool" => c[i].call = ms[i].call /\ c[i].ok = ms[i].ok
    <2>1. CASE ~old(i)
        BY <2>1, <1>1
    <2>2. CASE old(i)
        <3>1. ms[i].role = "tool" /\ c[i] = [ms[i] EXCEPT !.is = "summary"]
            BY <2>2, <1>1, <1>2
        <3>2. ms[i] \in [role : {"tool"}, call : Call, is : {"full", "summary"}, ok : BOOLEAN]
            BY <3>1 DEF Message
        <3> QED
            BY <3>1, <3>2 DEF Message
    <2> QED
        BY <2>1, <2>2
<1>4. c \in Seq(Message) /\ Len(c) = Len(ms)
    BY <1>1, <1>3
<1> QED
    BY <1>3, <1>4 DEF c

\* Nor does it disturb the order.
LEMMA CompactingKeepsOrder ==
    ASSUME NEW ms \in Seq(Message), InOrder(ms, <<>>), ms # <<>>
    PROVE  InOrder(Compacted(ms), <<>>)
<1> DEFINE c == Compacted(ms)
           L == Len(ms)
<1>1. /\ Len(c) = L /\ L \in Nat
      /\ \A i \in 1..L :
            /\ c[i].role = ms[i].role
            /\ ms[i].role = "assistant" => c[i] = ms[i]
            /\ ms[i].role = "tool" => c[i].call = ms[i].call
    BY CompactingChangesNoCall
<1>2. Extent(ms, <<>>) = L /\ Extent(c, <<>>) = L
    BY <1>1 DEF Extent
<1> HIDE DEF c, L
<1>3. \A p \in 1..L : IsCall(ms, p) =>
        IsCall(c, p) /\ CallAt(c, <<>>, p) = CallAt(ms, <<>>, p)
    BY <1>1 DEF IsCall, CallAt, L
<1>4. ASSUME NEW i \in 1..L, c[i].role = "assistant"
      PROVE  AnsweredInTurn(c, <<>>, i)
    <2>1. c[i] = ms[i] /\ ms[i].role = "assistant"
        BY <1>1, <1>4
    <2>2. AnsweredInTurn(ms, <<>>, i)
        BY <2>1, <1>4 DEF InOrder, L
    <2> DEFINE n == Len(ms[i].calls)
    <2>3. n \in Nat /\ n = Len(c[i].calls)
        BY <2>1, <1>4, Fields DEF L
    <2>4. n >= 1 /\ i + n <= L
        BY <2>2, <1>2 DEF AnsweredInTurn
    <2>5. ASSUME NEW k \in 1..n
          PROVE  IsCall(c, i + k) /\ CallAt(c, <<>>, i + k) = c[i].calls[k]
        <3>1. IsCall(ms, i + k) /\ CallAt(ms, <<>>, i + k) = ms[i].calls[k]
            BY <2>2 DEF AnsweredInTurn
        <3>2. i + k \in 1..L
            BY <2>3, <2>4, <1>1
        <3> QED
            BY <3>1, <3>2, <1>3, <2>1
    <2>6. ASSUME i + n < L
          PROVE  c[i + n + 1].role = "assistant"
        <3>1. ms[i + n + 1].role = "assistant"
            BY <2>2, <2>6, <1>2 DEF AnsweredInTurn
        <3>2. i + n + 1 \in 1..L
            BY <2>6, <2>3, <1>1
        <3> QED
            BY <3>1, <3>2, <1>1
    <2>7. \A k, l \in 1..n : c[i].calls[k].id = c[i].calls[l].id => k = l
        BY <2>2, <2>1 DEF AnsweredInTurn
    <2> QED
        BY <2>3, <2>4, <2>5, <2>6, <2>7, <1>1, <1>2 DEF AnsweredInTurn
<1>5. ASSUME NEW p \in 2..L
      PROVE  \E j \in 2..L : Within(c, j, p)
    <2>1. PICK j \in 2..L : Within(ms, j, p)
        BY <1>2 DEF InOrder, L
    <2>2. c[j] = ms[j]
        BY <1>1, <2>1 DEF Within
    <2> QED
        BY <2>1, <2>2 DEF Within
<1>6. c[1].role = "user" /\ \A i \in 2..L : c[i].role # "user"
    <2>1. 1 \in 1..L
        BY DEF L
    <2> QED
        BY <2>1, <1>1 DEF InOrder, L
<1> QED
    BY <1>1, <1>2, <1>4, <1>5, <1>6 DEF InOrder, c, L

\* The alert alone.
LEMMA BeginsInOrder == InOrder(<<[role |-> "user"]>>, <<>>)
<1>1. Len(<<[role |-> "user"]>>) = 1 /\ Len(<<>>) = 0 /\ <<[role |-> "user"]>>[1] = [role |-> "user"]
    OBVIOUS
<1> QED
    BY <1>1 DEF InOrder, Extent

-----------------------------------------------------------------------------
(* What the services make of such a history.                               *)

\* The calls of a response, as both providers write them.
LEMMA UsesOf ==
    ASSUME NEW calls \in Seq(Call)
    PROVE  /\ Len(Uses(calls)) = Len(calls) /\ Len(calls) \in Nat
           /\ DOMAIN Uses(calls) = 1..Len(calls)
           /\ Uses(calls) \in Seq({[type |-> "tool_use", id |-> calls[k].id] : k \in 1..Len(calls)})
           /\ \A k \in 1..Len(calls) : Uses(calls)[k] = [type |-> "tool_use", id |-> calls[k].id]
<1>1. DOMAIN calls = 1..Len(calls) /\ Len(calls) \in Nat
    OBVIOUS
<1>2. Uses(calls) = [k \in 1..Len(calls) |-> [type |-> "tool_use", id |-> calls[k].id]]
    BY <1>1 DEF Uses
<1> QED
    BY <1>1, <1>2

\* The wire of OpenAI, message by message.
LEMMA OpenAIForm ==
    ASSUME NEW ms \in Seq(Message)
    PROVE  LET wire == convertToOpenAIMessages(ms) IN
           /\ Len(wire) = Len(ms) + 1 /\ DOMAIN wire = 1..Len(ms) + 1 /\ Len(ms) \in Nat
           /\ wire[1].calls = <<>> /\ wire[1].answers = {}
           /\ \A i \in 1..Len(ms) : wire[i + 1] = OpenAIMessage(ms[i])
<1> DEFINE wire == convertToOpenAIMessages(ms)
<1>1. Len(ms) \in Nat
    OBVIOUS
<1>2. wire = [i \in 1..Len(ms) + 1 |->
                IF i = 1 THEN [role |-> "system", calls |-> <<>>, answers |-> {}]
                ELSE OpenAIMessage(ms[i - 1])]
    BY DEF convertToOpenAIMessages
<1> HIDE DEF wire
<1>3. DOMAIN wire = 1..Len(ms) + 1 /\ Len(wire) = Len(ms) + 1
    BY <1>1, <1>2
<1>4. wire[1].calls = <<>> /\ wire[1].answers = {}
    BY <1>1, <1>2
<1>5. ASSUME NEW i \in 1..Len(ms) PROVE wire[i + 1] = OpenAIMessage(ms[i])
    <2>1. i + 1 \in 1..Len(ms) + 1 /\ i + 1 # 1 /\ (i + 1) - 1 = i
        BY <1>1
    <2> QED
        BY <2>1, <1>2
<1> QED
    BY <1>1, <1>3, <1>4, <1>5 DEF wire

\* OpenAI accepts an ordered history.
LEMMA OrderedForOpenAI ==
    ASSUME NEW ms \in Seq(Message), ms # <<>>, InOrder(ms, <<>>)
    PROVE  OpenAIAccepts(convertToOpenAIMessages(ms))
<1> DEFINE wire == convertToOpenAIMessages(ms)
           L == Len(ms)
<1>1. /\ Len(wire) = L + 1 /\ DOMAIN wire = 1..L + 1 /\ L \in Nat
      /\ wire[1].calls = <<>> /\ wire[1].answers = {}
      /\ \A i \in 1..L : wire[i + 1] = OpenAIMessage(ms[i])
    BY OpenAIForm
<1>2. Extent(ms, <<>>) = L
    BY <1>1 DEF Extent
<1> HIDE DEF wire, L
<1> DEFINE n(i) == Len(wire[i].calls)
           id(i, k) == wire[i].calls[k].id
<1>3. ASSUME NEW i \in 1..L + 1
      PROVE  /\ i + n(i) <= L + 1
             /\ UNION {wire[i + k].answers : k \in 1..n(i)} = {id(i, k) : k \in 1..n(i)}
             /\ \A k, l \in 1..n(i) : id(i, k) = id(i, l) => k = l
    <2>1. CASE wire[i].calls = <<>>
        <3>1. n(i) = 0
            BY <2>1
        <3> HIDE DEF n
        <3>2. 1..n(i) = {}
            BY <3>1
        <3> QED
            BY <3>1, <3>2, <1>1
    <2>2. CASE wire[i].calls # <<>>
        <3> DEFINE p == i - 1
        <3>1. i # 1 /\ p \in 1..L /\ wire[i] = OpenAIMessage(ms[p])
            <4>1. i # 1
                BY <2>2, <1>1
            <4>2. p \in 1..L /\ p + 1 = i
                BY <4>1, <1>1
            <4> HIDE DEF p
            <4> QED
                BY <4>1, <4>2, <1>1
        <3> HIDE DEF p
        <3>2. ms[p].role = "assistant" /\ wire[i].calls = Uses(ms[p].calls)
            BY <3>1, <2>2 DEF OpenAIMessage
        <3>3. ms[p].calls \in Seq(Call)
            BY <3>1, <3>2, Fields DEF L
        <3>4. /\ n(i) = Len(ms[p].calls) /\ n(i) \in Nat
              /\ \A k \in 1..n(i) : id(i, k) = ms[p].calls[k].id
            <4> DEFINE cs == ms[p].calls
            <4>1. /\ Len(Uses(cs)) = Len(cs) /\ Len(cs) \in Nat
                  /\ \A k \in 1..Len(cs) : Uses(cs)[k] = [type |-> "tool_use", id |-> cs[k].id]
                BY <3>3, UsesOf
            <4>2. wire[i].calls = Uses(cs)
                BY <3>2
            <4> HIDE DEF cs
            <4>3. n(i) = Len(cs) /\ n(i) \in Nat
                BY <4>1, <4>2
            <4>4. \A k \in 1..Len(cs) : id(i, k) = cs[k].id
                <5> SUFFICES ASSUME NEW k \in 1..Len(cs) PROVE id(i, k) = cs[k].id
                    OBVIOUS
                <5>1. Uses(cs)[k] = [type |-> "tool_use", id |-> cs[k].id]
                    BY <4>1
                <5>2. id(i, k) = Uses(cs)[k].id
                    BY <4>2, Zenon
                <5> QED
                    BY <5>1, <5>2
            <4> HIDE DEF n, id
            <4> QED
                BY <4>3, <4>4 DEF cs
        <3>5. AnsweredInTurn(ms, <<>>, p)
            BY <3>1, <3>2 DEF InOrder, L
        <3> HIDE DEF n, id
        <3>6. /\ p + n(i) <= L
              /\ \A k \in 1..n(i) :
                    IsCall(ms, p + k) /\ CallAt(ms, <<>>, p + k) = ms[p].calls[k]
              /\ \A k, l \in 1..n(i) : ms[p].calls[k].id = ms[p].calls[l].id => k = l
            BY <3>4, <3>5, <1>2 DEF AnsweredInTurn
        <3>7. ASSUME NEW k \in 1..n(i) PROVE wire[i + k].answers = {id(i, k)}
            <4>1. p + k \in 1..L /\ p + k + 1 = i + k
                BY <3>1, <3>4, <3>6, <1>1 DEF p
            <4>2. ms[p + k].role = "tool" /\ ms[p + k].call = ms[p].calls[k]
                BY <3>6, <4>1, <1>1 DEF IsCall, CallAt, L
            <4>3. wire[i + k] = OpenAIMessage(ms[p + k])
                BY <4>1, <1>1
            <4> QED
                BY <4>2, <4>3, <3>4 DEF OpenAIMessage
        <3>8. UNION {wire[i + k].answers : k \in 1..n(i)} = {id(i, k) : k \in 1..n(i)}
            <4>1. ASSUME NEW x \in UNION {wire[i + k].answers : k \in 1..n(i)}
                  PROVE  x \in {id(i, k) : k \in 1..n(i)}
                <5>1. PICK k \in 1..n(i) : x \in wire[i + k].answers
                    OBVIOUS
                <5>2. x = id(i, k)
                    BY <5>1, <3>7
                <5> QED
                    BY <5>2
            <4>2. ASSUME NEW k \in 1..n(i)
                  PROVE  id(i, k) \in UNION {wire[i + l].answers : l \in 1..n(i)}
                BY <3>7
            <4> QED
                BY <4>1, <4>2
        <3>9. i + n(i) <= L + 1
            BY <3>1, <3>4, <3>6, <1>1 DEF p
        <3> QED
            BY <3>4, <3>6, <3>8, <3>9
    <2> QED
        BY <2>1, <2>2
<1>4. ASSUME NEW i \in 1..L + 1, wire[i].answers # {}
      PROVE  \E j \in 1..(i - 1) : wire[j].role = "assistant" /\ i - j <= n(j)
    <2> DEFINE p == i - 1
    <2>1. i # 1
        BY <1>1, <1>4
    <2>2. p \in 1..L /\ p + 1 = i
        BY <2>1, <1>1
    <2> HIDE DEF p
    <2>3. wire[i] = OpenAIMessage(ms[p])
        BY <2>2, <1>1
    <2>4. ms[p].role = "tool"
        BY <2>3, <1>4 DEF OpenAIMessage
    <2>5. p # 1
        BY <2>4 DEF InOrder
    <2>6. PICK j \in 2..L : Within(ms, j, p)
        BY <2>2, <2>5, <1>2, <1>1 DEF InOrder, L
    <2>7. j # p /\ j <= p /\ p <= j + Len(ms[j].calls) /\ ms[j].role = "assistant"
        BY <2>4, <2>6 DEF Within
    <2>8. wire[j + 1] = OpenAIMessage(ms[j])
        BY <2>6, <1>1
    <2>9. ms[j].calls \in Seq(Call)
        BY <2>7, <2>6, Fields DEF L
    <2>10. wire[j + 1].role = "assistant" /\ n(j + 1) = Len(ms[j].calls) /\ n(j + 1) \in Nat
        <3>1. wire[j + 1].role = "assistant" /\ wire[j + 1].calls = Uses(ms[j].calls)
            BY <2>7, <2>8 DEF OpenAIMessage
        <3>2. Len(Uses(ms[j].calls)) = Len(ms[j].calls) /\ Len(ms[j].calls) \in Nat
            BY <2>9, UsesOf
        <3> QED
            BY <3>1, <3>2
    <2> HIDE DEF n
    <2>11. j + 1 \in 1..(i - 1) /\ i - (j + 1) <= n(j + 1)
        <3> DEFINE N == Len(ms[j].calls)
        <3>1. N \in Nat /\ n(j + 1) = N /\ p <= j + N /\ j <= p /\ j # p
            BY <2>7, <2>10
        <3> HIDE DEF N
        <3> QED
            BY <3>1, <2>2, <2>6, <1>1
    <2> QED
        BY <2>10, <2>11
<1> QED
    BY <1>1, <1>3, <1>4 DEF OpenAIAccepts, wire

\* The messages from a to b of a wire are a turn.
IsTurn(wire, a, b) ==
    /\ a \in DOMAIN wire /\ b \in DOMAIN wire /\ a <= b
    /\ \A k \in a..b : wire[k].role = wire[a].role
    /\ a - 1 \in DOMAIN wire => wire[a - 1].role # wire[a].role
    /\ b + 1 \in DOMAIN wire => wire[b + 1].role # wire[a].role

\* A turn reaches as far as the messages next to it are of another role.
LEMMA TurnReaches ==
    ASSUME NEW wire, NEW L \in Nat, DOMAIN wire = 1..L, NEW a, NEW b, IsTurn(wire, a, b)
    PROVE  TurnOf(wire, a) = a..b
<1>1. a \in 1..L /\ b \in 1..L /\ a <= b
    BY DEF IsTurn
<1> DEFINE T == TurnOf(wire, a)
           Same(j) == \A k \in DOMAIN wire :
                        (a <= k /\ k <= j) \/ (j <= k /\ k <= a) => wire[k].role = wire[a].role
<1>2. ASSUME NEW j \in a..b PROVE j \in 1..L /\ Same(j)
    BY <1>1 DEF IsTurn
<1>3. ASSUME NEW j \in 1..L, j \notin a..b PROVE ~Same(j)
    <2>1. CASE j < a
        <3>1. a - 1 \in 1..L /\ j <= a - 1 /\ a - 1 <= a
            BY <2>1, <1>1
        <3> QED
            BY <3>1 DEF IsTurn
    <2>2. CASE j > b
        <3>1. b + 1 \in 1..L /\ a <= b + 1 /\ b + 1 <= j
            BY <2>2, <1>1
        <3> QED
            BY <3>1 DEF IsTurn
    <2> QED
        BY <1>1, <1>3, <2>1, <2>2
<1>4. T = {j \in 1..L : Same(j)}
    BY DEF TurnOf
<1> HIDE DEF T, Same
<1>5. \A j \in 1..L : j \in a..b <=> Same(j)
    BY <1>2, <1>3
<1>6. a..b \subseteq 1..L
    BY <1>1
<1> QED
    BY <1>4, <1>5, <1>6, Zenon DEF T

\* Membership in Blocks.
LEMMA InBlocks ==
    ASSUME NEW wire, NEW turn, NEW type, NEW b
    PROVE  b \in Blocks(wire, turn, type) <=>
              \E j \in turn : \E k \in DOMAIN wire[j].content :
                 wire[j].content[k].type = type /\ b = <<j, k>>
<1> DEFINE At(j) == {k \in DOMAIN wire[j].content : wire[j].content[k].type = type}
<1>1. b \in Blocks(wire, turn, type) <=> \E j \in turn : b \in {j} \X At(j)
    BY Zenon DEF Blocks
<1>2. \A j : b \in {j} \X At(j) <=> \E k \in At(j) : b = <<j, k>>
    <2> HIDE DEF At
    <2> QED
        OBVIOUS
<1> QED
    BY <1>1, <1>2

\* A message with at most a text and the calls cs.
AsksFor(content, o, cs) ==
    /\ o \in Nat
    /\ DOMAIN content = 1..(o + Len(cs))
    /\ \A k \in 1..o : content[k].type = "text"
    /\ \A k \in 1..Len(cs) : content[o + k].type = "tool_use" /\ content[o + k].id = cs[k].id

\* A message with nothing but the result of the call c.
Gives(content, c) ==
    DOMAIN content = {1} /\ content[1].type = "tool_result" /\ content[1].id = c.id

\* No two of the calls have the same ID.
DistinctCalls(cs) == \A k, l \in 1..Len(cs) : cs[k].id = cs[l].id => k = l

IdsOf(cs) == {cs[k].id : k \in 1..Len(cs)}

\* A text before the calls.
LEMMA Preceded ==
    ASSUME NEW S, NEW e \in S, NEW s \in Seq(S)
    PROVE  /\ Len(<<e>> \o s) = 1 + Len(s) /\ DOMAIN (<<e>> \o s) = 1..1 + Len(s)
           /\ (<<e>> \o s)[1] = e
           /\ \A k \in 1..Len(s) : (<<e>> \o s)[1 + k] = s[k]
<1>1. <<e>> \in Seq(S) /\ Len(<<e>>) = 1 /\ <<e>>[1] = e /\ Len(s) \in Nat
    OBVIOUS
<1> DEFINE t == <<e>>
<1> HIDE DEF t
<1>2. t \o s \in Seq(S)
    BY <1>1 DEF t
<1>3. Len(t \o s) = Len(t) + Len(s)
    BY <1>1 DEF t
<1>4. DOMAIN (t \o s) = 1..Len(t \o s)
    BY <1>2
<1>5. Len(t) = 1
   BY <1>1 DEF t
<1>6. (t \o s)[1] = t[1]
    BY <1>1, <1>5 DEF t
<1>7. \A k \in 1..Len(s) : (t \o s)[1 + k] = s[k]
    <2> SUFFICES ASSUME NEW k \in 1..Len(s) PROVE (t \o s)[1 + k] = s[k]
      OBVIOUS
    <2>1. 1 + k \in 1..Len(t) + Len(s) /\ ~(1 + k <= Len(t)) /\ 1 + k - Len(t) = k
      BY <1>1, <1>5
    <2> QED
      BY <2>1, <1>1, <1>3 DEF t
<1> QED
    BY <1>1, <1>3, <1>4, <1>5, <1>6, <1>7 DEF t

\* The alert becomes a text.
LEMMA WireOfAlert ==
    ASSUME NEW m, m.role = "user"
    PROVE  /\ DOMAIN AnthropicMessage(m).content = {1}
           /\ AnthropicMessage(m).content[1].type = "text"
  BY DEF AnthropicMessage

\* A result becomes a message with nothing else.
LEMMA WireOfResult ==
    ASSUME NEW m, m.role = "tool"
    PROVE  Gives(AnthropicMessage(m).content, m.call)
  BY DEF AnthropicMessage, Gives

\* A response becomes its text, if any, and its calls.
LEMMA WireOfResponse ==
    ASSUME NEW m \in Message, m.role = "assistant"
    PROVE  \E o : AsksFor(AnthropicMessage(m).content, o, m.calls)
<1> DEFINE cs == m.calls
           u == Uses(cs)
           N == Len(cs)
           w == AnthropicMessage(m)
<1>1. cs \in Seq(Call)
    BY Fields
<1>2. w.content = Text(m.text) \o u
    BY DEF AnthropicMessage
<1>3. /\ Len(u) = N /\ N \in Nat /\ DOMAIN u = 1..N
      /\ u \in Seq({[type |-> "tool_use", id |-> cs[k].id] : k \in 1..N})
      /\ \A k \in 1..N : u[k] = [type |-> "tool_use", id |-> cs[k].id]
    BY <1>1, UsesOf
<1>4. \A k \in 1..N : u[k].type = "tool_use" /\ u[k].id = cs[k].id
    <2> SUFFICES ASSUME NEW k \in 1..N PROVE u[k].type = "tool_use" /\ u[k].id = cs[k].id
        OBVIOUS
    <2>1. u[k] = [type |-> "tool_use", id |-> cs[k].id]
        BY <1>3
    <2> HIDE DEF u
    <2> QED
        BY <2>1
<1> DEFINE Use == {[type |-> "tool_use", id |-> cs[k].id] : k \in 1..N}
           Block == {[type |-> "text"]} \cup Use
           t == [type |-> "text"]
<1>5. u \in Seq(Use)
    BY <1>3
<1> HIDE DEF u, N, Use
<1>6. u \in Seq(Block) /\ t \in Block /\ <<>> \in Seq(Block) /\ t.type = "text"
    BY <1>5
<1> HIDE DEF Block, t, cs, w
<1>7. CASE m.text = 0
    <2>1. w.content = <<>> \o u
        BY <1>2, <1>7 DEF Text
    <2>2. w.content = u
        BY <1>6, <2>1
    <2>3. \A k \in 1..N : 0 + k = k
        BY <1>3
    <2>4. /\ 0 \in Nat /\ 0 + N = N /\ 1..0 = {}
        BY <1>3
    <2>5. AsksFor(w.content, 0, cs)
        BY <1>3, <1>4, <2>2, <2>3, <2>4, Zenon DEF AsksFor, N
    <2> QED
        BY <2>5 DEF w, cs
<1>8. CASE m.text # 0
    <2>1. w.content = <<t>> \o u
        BY <1>2, <1>8 DEF Text, t
    <2>2. /\ DOMAIN (<<t>> \o u) = 1..1 + N
          /\ (<<t>> \o u)[1] = t
          /\ \A k \in 1..N : (<<t>> \o u)[1 + k] = u[k]
        BY <1>3, <1>6, Preceded
    <2>3. \A k \in 1..1 : k = 1
        OBVIOUS
    <2>4. AsksFor(w.content, 1, cs)
        <3> DEFINE v == <<t>> \o u
        <3> HIDE DEF v
        <3>1. \A k \in 1..1 : v[k].type = "text"
            BY <1>6, <2>2, <2>3 DEF v
        <3>2. \A k \in 1..N : v[1 + k].type = "tool_use" /\ v[1 + k].id = cs[k].id
            BY <1>4, <2>2, Zenon DEF v
        <3>3. AsksFor(v, 1, cs)
            BY <3>1, <3>2, <2>2 DEF AsksFor, N, v
        <3> QED
            BY <2>1, <3>3 DEF v
    <2> QED
        BY <2>4 DEF w, cs
<1> QED
    BY <1>7, <1>8

\* The wire of Anthropic, message by message.
LEMMA AnthropicWire ==
    ASSUME NEW ms \in Seq(Message)
    PROVE  LET wire == convertToAnthropicMessages(ms) IN
           /\ DOMAIN wire = 1..Len(ms) /\ Len(wire) = Len(ms) /\ Len(ms) \in Nat
           /\ \A i \in 1..Len(ms) : /\ wire[i] = AnthropicMessage(ms[i])
                                    /\ ms[i].role = "assistant" => wire[i].role = "assistant"
                                    /\ ms[i].role # "assistant" => wire[i].role = "user"
<1> DEFINE wire == convertToAnthropicMessages(ms)
<1>1. Len(ms) \in Nat /\ DOMAIN ms = 1..Len(ms)
    OBVIOUS
<1>2. wire = [i \in 1..Len(ms) |-> AnthropicMessage(ms[i])]
    BY <1>1 DEF convertToAnthropicMessages
<1> HIDE DEF wire
<1>3. DOMAIN wire = 1..Len(ms) /\ Len(wire) = Len(ms) /\ \A i \in 1..Len(ms) : wire[i] = AnthropicMessage(ms[i])
    BY <1>1, <1>2
<1>4. ASSUME NEW i \in 1..Len(ms)
      PROVE  /\ ms[i].role = "assistant" => AnthropicMessage(ms[i]).role = "assistant"
             /\ ms[i].role # "assistant" => AnthropicMessage(ms[i]).role = "user"
    <2>1. ms[i].role \in {"user", "tool", "assistant"}
        BY Fields
    <2> QED
        BY <2>1 DEF AnthropicMessage
<1> QED
    BY <1>1, <1>3, <1>4, Zenon DEF wire


\* The tool calls of a turn of one message.
LEMMA AskedOnce ==
    ASSUME NEW wire, NEW i, NEW o, NEW cs, Len(cs) \in Nat,
           AsksFor(wire[i].content, o, cs), DistinctCalls(cs)
    PROVE  /\ Ids(wire, Blocks(wire, {i}, "tool_use")) = IdsOf(cs)
           /\ Distinct(wire, Blocks(wire, {i}, "tool_use"))
<1> DEFINE A == Blocks(wire, {i}, "tool_use")
           c == wire[i].content
           n == Len(cs)
<1>1. \A b : b \in A <=> \E j \in {i} : \E k \in DOMAIN wire[j].content :
                            wire[j].content[k].type = "tool_use" /\ b = <<j, k>>
    BY InBlocks
<1> HIDE DEF A
<1>2. \A b : b \in A <=> \E k \in DOMAIN c : c[k].type = "tool_use" /\ b = <<i, k>>
    BY <1>1
<1>3. /\ o \in Nat /\ n \in Nat /\ DOMAIN c = 1..(o + n)
      /\ \A k \in 1..o : c[k].type = "text"
      /\ \A k \in 1..n : c[o + k].type = "tool_use" /\ c[o + k].id = cs[k].id
    BY DEF AsksFor
<1> HIDE DEF c, n
<1>4. \A k \in 1..(o + n) : k \in 1..o \/ (k - o \in 1..n /\ k = o + (k - o))
    BY <1>3
<1>5. \A k \in 1..n : o + k \in 1..(o + n)
    BY <1>3
<1>6. ASSUME NEW b \in A PROVE \E k \in 1..n : b = <<i, o + k>>
    <2>1. PICK k \in 1..(o + n) : c[k].type = "tool_use" /\ b = <<i, k>>
        BY <1>2, <1>3, <1>6
    <2>2. k \notin 1..o
        BY <2>1, <1>3
    <2>3. k - o \in 1..n /\ k = o + (k - o)
        BY <2>1, <2>2, <1>4
    <2> QED
        BY <2>1, <2>3
<1>7. ASSUME NEW k \in 1..n PROVE <<i, o + k>> \in A /\ IdOf(wire, <<i, o + k>>) = cs[k].id
    <2>1. o + k \in DOMAIN c /\ c[o + k].type = "tool_use" /\ c[o + k].id = cs[k].id
        BY <1>3, <1>5
    <2>2. <<i, o + k>> \in A
        BY <1>2, <2>1
    <2>3. <<i, o + k>>[1] = i /\ <<i, o + k>>[2] = o + k
        OBVIOUS
    <2>4. IdOf(wire, <<i, o + k>>) = c[o + k].id
        BY <2>3, Zenon DEF IdOf, c
    <2> QED
        BY <2>1, <2>2, <2>4
<1>8. Ids(wire, A) = {cs[k].id : k \in 1..n}
    <2>1. ASSUME NEW x \in Ids(wire, A) PROVE x \in {cs[k].id : k \in 1..n}
        <3>1. PICK b \in A : x = IdOf(wire, b)
            BY DEF Ids
        <3>2. PICK k \in 1..n : b = <<i, o + k>>
            BY <1>6
        <3>3. x = cs[k].id
            BY <3>1, <3>2, <1>7
        <3> QED
            BY <3>3
    <2>2. ASSUME NEW k \in 1..n PROVE cs[k].id \in Ids(wire, A)
        BY <1>7, Zenon DEF Ids
    <2> QED
        BY <2>1, <2>2
<1>9. Distinct(wire, A)
    <2> SUFFICES ASSUME NEW b \in A, NEW d \in A, IdOf(wire, b) = IdOf(wire, d) PROVE b = d
        BY DEF Distinct
    <2>1. PICK k \in 1..n : b = <<i, o + k>>
        BY <1>6
    <2>2. PICK l \in 1..n : d = <<i, o + l>>
        BY <1>6
    <2>3. cs[k].id = cs[l].id
        BY <2>1, <2>2, <1>7, Zenon
    <2>4. k = l
        BY <2>3 DEF DistinctCalls, n
    <2> QED
        BY <2>1, <2>2, <2>4
<1> QED
    BY <1>8, <1>9 DEF A, n, IdsOf

\* The results in a turn of messages of one result each.
LEMMA GivenOnce ==
    ASSUME NEW wire, NEW i \in Nat, NEW cs, Len(cs) \in Nat, DistinctCalls(cs),
           \A k \in 1..Len(cs) : Gives(wire[i + k].content, cs[k])
    PROVE  LET turn == (i + 1)..(i + Len(cs)) IN
           /\ Ids(wire, Blocks(wire, turn, "tool_result")) = IdsOf(cs)
           /\ Distinct(wire, Blocks(wire, turn, "tool_result"))
<1> DEFINE n == Len(cs)
           turn == (i + 1)..(i + n)
           G == Blocks(wire, turn, "tool_result")
<1>1. \A b : b \in G <=> \E j \in turn : \E k \in DOMAIN wire[j].content :
                            wire[j].content[k].type = "tool_result" /\ b = <<j, k>>
    BY InBlocks
<1> HIDE DEF G, n
<1>2. \A k \in 1..n : /\ DOMAIN wire[i + k].content = {1}
                      /\ wire[i + k].content[1].type = "tool_result"
                      /\ wire[i + k].content[1].id = cs[k].id
    BY DEF Gives, n
<1>3. \A j \in turn : j - i \in 1..n /\ j = i + (j - i)
    BY DEF n
<1>4. \A k \in 1..n : i + k \in turn
    BY DEF n
<1> HIDE DEF turn
<1>5. ASSUME NEW b \in G PROVE \E k \in 1..n : b = <<i + k, 1>>
    <2>1. PICK j \in turn : \E k \in DOMAIN wire[j].content :
                        wire[j].content[k].type = "tool_result" /\ b = <<j, k>>
        BY <1>1, Zenon
    <2>2. j - i \in 1..n /\ j = i + (j - i)
        BY <1>3
    <2>3. DOMAIN wire[j].content = {1}
        BY <2>2, <1>2, Zenon
    <2>4. b = <<j, 1>>
        BY <2>1, <2>3, Zenon
    <2> QED
        BY <2>2, <2>4, Zenon
<1>6. ASSUME NEW k \in 1..n PROVE <<i + k, 1>> \in G /\ IdOf(wire, <<i + k, 1>>) = cs[k].id
    <2>1. 1 \in DOMAIN wire[i + k].content /\ wire[i + k].content[1].type = "tool_result"
        BY <1>2
    <2>2. <<i + k, 1>> \in G
        BY <2>1, <1>1, <1>4, Zenon
    <2>3. <<i + k, 1>>[1] = i + k /\ <<i + k, 1>>[2] = 1
        OBVIOUS
    <2> QED
        BY <2>2, <1>2, <2>3, Zenon DEF IdOf
<1>7. Ids(wire, G) = {cs[k].id : k \in 1..n}
    <2>1. ASSUME NEW x \in Ids(wire, G) PROVE x \in {cs[k].id : k \in 1..n}
        <3>1. PICK b \in G : x = IdOf(wire, b)
            BY DEF Ids
        <3>2. PICK k \in 1..n : b = <<i + k, 1>>
            BY <1>5
        <3>3. x = cs[k].id
            BY <3>1, <3>2, <1>6
        <3> QED
            BY <3>3
    <2>2. ASSUME NEW k \in 1..n PROVE cs[k].id \in Ids(wire, G)
        BY <1>6, Zenon DEF Ids
    <2> QED
        BY <2>1, <2>2
<1>8. Distinct(wire, G)
    <2> SUFFICES ASSUME NEW b \in G, NEW d \in G, IdOf(wire, b) = IdOf(wire, d) PROVE b = d
        BY DEF Distinct
    <2>1. PICK k \in 1..n : b = <<i + k, 1>>
        BY <1>5
    <2>2. PICK l \in 1..n : d = <<i + l, 1>>
        BY <1>5
    <2>3. cs[k].id = cs[l].id
        BY <2>1, <2>2, <1>6, Zenon
    <2>4. k = l
        BY <2>3 DEF DistinctCalls, n
    <2> QED
        BY <2>1, <2>2, <2>4
<1> QED
    BY <1>7, <1>8 DEF G, turn, n, IdsOf

\* Around a response: its turn is that message alone, and the next one the
\* results of its calls.
LEMMA OrderedForAnthropic ==
    ASSUME NEW ms \in Seq(Message), ms # <<>>, InOrder(ms, <<>>)
    PROVE  AnthropicAccepts(convertToAnthropicMessages(ms))
<1> DEFINE wire == convertToAnthropicMessages(ms)
           L == Len(ms)
<1>1. L \in Nat /\ L >= 1 /\ Extent(ms, <<>>) = L
    BY DEF Extent
<1>2. /\ DOMAIN wire = 1..L /\ Len(wire) = L
      /\ \A i \in 1..L : /\ wire[i] = AnthropicMessage(ms[i])
                         /\ ms[i].role = "assistant" => wire[i].role = "assistant"
                         /\ ms[i].role # "assistant" => wire[i].role = "user"
    BY AnthropicWire
<1> HIDE DEF wire, L
<1>3. \A i \in 1..L : /\ wire[i].role = "assistant" <=> ms[i].role = "assistant"
                      /\ wire[i].role = "user" <=> ms[i].role # "assistant"
    BY <1>2
<1>4. ms[1].role = "user" /\ (L >= 2 => ms[2].role = "assistant")
    <2>1. ASSUME L >= 2 PROVE ms[2].role = "assistant"
        <3>1. 2 \in 2..L
            BY <1>1, <2>1
        <3>2. PICK j \in 2..L : Within(ms, j, 2)
            BY <3>1, <1>1 DEF InOrder, L
        <3>3. j = 2 /\ ms[j].role = "assistant"
            BY <3>2, <1>1 DEF Within
        <3> QED
            BY <3>3
    <2> QED
        BY <2>1 DEF InOrder
<1>5. Blocks(wire, TurnOf(wire, 1), "tool_result") = {}
    <2>1. IsTurn(wire, 1, 1)
        BY <1>1, <1>2, <1>3, <1>4 DEF IsTurn
    <2>2. TurnOf(wire, 1) = 1..1
        BY <2>1, <1>1, <1>2, TurnReaches
    <2>3. wire[1] = AnthropicMessage(ms[1])
        BY <1>1, <1>2
    <2>4. DOMAIN wire[1].content = {1} /\ wire[1].content[1].type = "text"
        BY <1>4, <2>3, WireOfAlert
    <2>5. \A j \in 1..1 : \A k \in DOMAIN wire[j].content : wire[j].content[k].type # "tool_result"
        BY <2>4
    <2>6. \A b : b \notin Blocks(wire, TurnOf(wire, 1), "tool_result")
        BY <2>2, <2>5, InBlocks
    <2> QED
        BY <2>6
<1>6. ASSUME NEW i \in 1..L, wire[i].role = "assistant"
      PROVE  LET asked == Blocks(wire, TurnOf(wire, i), "tool_use")
                 given == IF i = Len(wire) THEN {}
                          ELSE Blocks(wire, TurnOf(wire, i + 1), "tool_result")
             IN  /\ Ids(wire, given) = Ids(wire, asked)
                 /\ Distinct(wire, asked) /\ Distinct(wire, given)
    <2> DEFINE cs == ms[i].calls
               n == Len(cs)
    <2>1. ms[i].role = "assistant" /\ AnsweredInTurn(ms, <<>>, i)
        BY <1>3, <1>6 DEF InOrder, L
    <2>2. ms[i] \in Message /\ cs \in Seq(Call) /\ n \in Nat
        BY <2>1, Fields DEF L
    <2>3. /\ n >= 1 /\ i + n <= L
          /\ \A k \in 1..n : IsCall(ms, i + k) /\ CallAt(ms, <<>>, i + k) = cs[k]
          /\ i + n < L => ms[i + n + 1].role = "assistant"
          /\ DistinctCalls(cs)
        BY <2>1, <1>1 DEF AnsweredInTurn, DistinctCalls
    <2>4. PICK o : AsksFor(wire[i].content, o, cs)
        <3>1. wire[i] = AnthropicMessage(ms[i])
            BY <1>2
        <3> QED
            BY <2>1, <2>2, <3>1, WireOfResponse
    <2> HIDE DEF n, cs
    <2>5. ASSUME NEW k \in 1..n
          PROVE  i + k \in 1..L /\ wire[i + k].role = "user" /\ Gives(wire[i + k].content, cs[k])
        <3>1. i + k \in 1..L
            BY <1>1, <2>2, <2>3
        <3>2. ms[i + k].role = "tool" /\ ms[i + k].call = cs[k]
            BY <2>3, <3>1, <1>1 DEF IsCall, CallAt, L
        <3>3. wire[i + k] = AnthropicMessage(ms[i + k])
            BY <3>1, <1>2
        <3>4. wire[i + k].role = "user"
            BY <3>1, <3>2, <1>3
        <3> QED
            BY <3>1, <3>2, <3>3, <3>4, WireOfResult
    <2>6. i > 1 => ms[i - 1].role # "assistant"
        <3> SUFFICES ASSUME i > 1, ms[i - 1].role = "assistant" PROVE FALSE
            OBVIOUS
        <3> DEFINE q == Len(ms[i - 1].calls)
        <3>1. i - 1 \in 1..L
            BY <1>1
        <3>2. AnsweredInTurn(ms, <<>>, i - 1)
            BY <3>1 DEF InOrder, L
        <3>3. q >= 1 /\ q \in Nat /\ \A k \in 1..q : IsCall(ms, (i - 1) + k)
            BY <3>1, <3>2, Fields DEF AnsweredInTurn, L
        <3> HIDE DEF q
        <3>4. 1 \in 1..q /\ (i - 1) + 1 = i
            BY <3>3
        <3>5. IsCall(ms, i)
            BY <3>3, <3>4
        <3>6. ms[i].role = "tool"
            BY <3>5, <1>1 DEF IsCall, L
        <3> QED
            BY <3>6, <2>1
    <2>7. TurnOf(wire, i) = {i}
        <3>1. 1 \in 1..n /\ wire[i + 1].role = "user"
            BY <2>2, <2>3, <2>5
        <3>2. i - 1 \in 1..L => i > 1
            OBVIOUS
        <3>3. i - 1 \in 1..L => wire[i - 1].role # "assistant"
            BY <3>2, <2>6, <1>3
        <3>4. IsTurn(wire, i, i)
            BY <1>2, <1>6, <3>1, <3>3 DEF IsTurn
        <3>5. TurnOf(wire, i) = i..i
            BY <3>4, <1>1, <1>2, TurnReaches
        <3> QED
            BY <3>5
    <2>8. TurnOf(wire, i + 1) = (i + 1)..(i + n)
        <3> DEFINE a == i + 1
                   b == i + n
        <3>1. a \in 1..L /\ b \in 1..L /\ a <= b /\ a - 1 = i /\ b + 1 = i + n + 1
            BY <1>1, <2>2, <2>3
        <3>2. \A k \in a..b : wire[k].role = "user"
            <4> SUFFICES ASSUME NEW k \in a..b PROVE wire[k].role = "user"
                OBVIOUS
            <4>1. k - i \in 1..n /\ i + (k - i) = k
                BY <2>2, <1>1
            <4> QED
                BY <4>1, <2>5
        <3>3. b + 1 \in 1..L => wire[b + 1].role = "assistant"
            <4> SUFFICES ASSUME b + 1 \in 1..L PROVE wire[b + 1].role = "assistant"
                OBVIOUS
            <4>1. i + n < L /\ i + n + 1 \in 1..L
                BY <1>1, <2>2, <3>1
            <4>2. ms[i + n + 1].role = "assistant"
                BY <4>1, <2>3
            <4>3. wire[i + n + 1].role = "assistant"
                BY <4>1, <4>2, <1>3
            <4> QED
                BY <4>3, <3>1
        <3> HIDE DEF a, b
        <3>4. IsTurn(wire, a, b)
            BY <3>1, <3>2, <3>3, <1>2, <1>6 DEF IsTurn
        <3>5. TurnOf(wire, a) = a..b
            BY <3>4, <1>1, <1>2, TurnReaches
        <3> QED
            BY <3>5 DEF a, b
    <2> DEFINE A == Blocks(wire, TurnOf(wire, i), "tool_use")
               G == Blocks(wire, TurnOf(wire, i + 1), "tool_result")
    <2>9. Ids(wire, A) = IdsOf(cs) /\ Distinct(wire, A)
        BY <2>2, <2>3, <2>4, <2>7, AskedOnce DEF n
    <2>10. Ids(wire, G) = IdsOf(cs) /\ Distinct(wire, G)
        <3>1. i \in Nat /\ \A k \in 1..n : Gives(wire[i + k].content, cs[k])
            BY <2>5
        <3> QED
            BY <2>2, <2>3, <2>8, <3>1, GivenOnce DEF n
    <2> HIDE DEF A, G
    <2>11. i # Len(wire)
        BY <1>2, <2>2, <2>3
    <2> QED
        BY <2>9, <2>10, <2>11 DEF A, G
<1>7. ASSUME NEW i \in 1..L PROVE wire[i].content # <<>>
    <2>1. wire[i] = AnthropicMessage(ms[i]) /\ ms[i] \in Message
        BY <1>2 DEF L
    <2>2. CASE ms[i].role = "user"
        <3>1. 1 \in DOMAIN wire[i].content
            BY <2>1, <2>2, WireOfAlert
        <3> QED
            BY <3>1
    <2>3. CASE ms[i].role = "tool"
        <3>1. 1 \in DOMAIN wire[i].content
            BY <2>1, <2>3, WireOfResult DEF Gives
        <3> QED
            BY <3>1
    <2>4. CASE ms[i].role = "assistant"
        <3> DEFINE n == Len(ms[i].calls)
        <3>1. PICK o : AsksFor(wire[i].content, o, ms[i].calls)
            BY <2>1, <2>4, WireOfResponse
        <3>2. n >= 1 /\ n \in Nat
            BY <2>1, <2>4, Fields DEF InOrder, AnsweredInTurn, L
        <3>3. o \in Nat /\ DOMAIN wire[i].content = 1..(o + n)
            BY <3>1 DEF AsksFor
        <3> HIDE DEF n
        <3>4. 1 \in DOMAIN wire[i].content
            BY <3>2, <3>3
        <3> QED
            BY <3>4
    <2> QED
        BY <2>1, <2>2, <2>3, <2>4, Fields
<1>8. wire # <<>> /\ wire[1].role = "user"
    BY <1>1, <1>2, <1>3, <1>4
<1> QED
    BY <1>2, <1>5, <1>6, <1>7, <1>8, Zenon DEF AnthropicAccepts, wire

\* The same, one by one.
LEMMA StepOfDialog ==
    ASSUME [Next]_vars
    PROVE  \/ Begin(ListTools)
           \/ Ask \/ ChatFails \/ NextIteration \/ RunOut
           \/ \E text \in BOOLEAN, tokens \in Tokens : StopEarly(text, tokens)
           \/ \E text \in BOOLEAN, tokens \in Tokens : Answer(text, tokens)
           \/ \E text \in BOOLEAN, tokens \in Tokens, n \in 1..MaxCalls :
                 \E ts \in [1..n -> Tool] : RequestTools(text, tokens, ts)
           \/ \E ok \in BOOLEAN : Execute(ok)
           \/ UNCHANGED analysis
<1>1. CASE Converse
    BY <1>1, Zenon DEF Converse, Respond
<1> QED
    BY <1>1, StepOfAnalysis, Zenon

-----------------------------------------------------------------------------
(* The invariant of the dialog.                                            *)

\* There is an iteration to go while the model is asked.
InTime ==
    /\ at \in {"idle", "ask", "chat"} => last <= iteration
    /\ at = "tools" => last <= iteration + 1
    /\ at \in {"chat", "tools"} => iteration < MaxIterations

Beginning ==
    /\ at = "idle" => messages = <<>> /\ used = <<>>
    /\ at # "idle" => messages # <<>>
    /\ at # "tools" => todo = <<>>

\* Only results with KeepRecent newer ones were ever summarized.
OnlyOld(ms) ==
    \A i \in ToolAt(ms) : ms[i].is = "summary" => Newer(ms, i) > KeepRecent /\ KeepRecent > 0

Results(ms, c) == {i \in ToolAt(ms) : Category[ms[i].call.tool] = c}

Records(us, c) == {i \in DOMAIN us : Category[us[i].tool] = c}

\* What buildResult will count is what the model got.
Agree(ms, us) ==
    \A c \in {Category[t] : t \in Tool} :
        /\ Cardinality(Results(ms, c)) = Cardinality(Records(us, c))
        /\ (\E i \in Results(ms, c) : ms[i].ok) <=> (\E i \in Records(us, c) : us[i].ok)

\* No text is newer than the one kept as the last.
Latest ==
    /\ \A i \in DOMAIN messages : messages[i].role = "assistant" => messages[i].text <= last
    /\ result.how \in {"budget", "iterations"} => result.text = last
    /\ at # "done" => result = [how |-> "pending"]

DialogInv ==
    /\ AnalyzerTypeOK
    /\ InTime
    /\ Beginning
    /\ InOrder(messages, todo)
    /\ OnlyOld(messages)
    /\ RecentResultsKept
    /\ Agree(messages, used)
    /\ Latest

\* It holds before the analysis.
LEMMA DialogInit == AnalyzerInit => DialogInv
<1> SUFFICES ASSUME AnalyzerInit PROVE DialogInv
    OBVIOUS
<1>1. /\ at = "idle" /\ iteration = 0 /\ messages = <<>> /\ offered = {} /\ todo = <<>>
      /\ used = <<>> /\ spent = 0 /\ last = 0 /\ result = [how |-> "pending"]
    BY DEF AnalyzerInit
<1>2. MaxIterations \in Nat
    BY AnalyzerAssumption DEF AnalyzerAssumption
<1>3. AnalyzerTypeOK
    BY <1>1, <1>2 DEF AnalyzerTypeOK, Result
<1>4. InTime /\ Beginning
    BY <1>1 DEF InTime, Beginning
<1>5. DOMAIN messages = {} /\ DOMAIN used = {} /\ Len(messages) = 0 /\ Len(todo) = 0
    BY <1>1
<1>6. InOrder(messages, todo)
    BY <1>1, <1>5 DEF InOrder, Extent
<1>7. ToolAt(messages) = {}
    BY <1>5 DEF ToolAt
<1>8. OnlyOld(messages) /\ RecentResultsKept
    BY <1>1, <1>7 DEF OnlyOld, RecentResultsKept
<1>9. Agree(messages, used)
    <2>1. \A c : Results(messages, c) = {} /\ Records(used, c) = {}
        BY <1>5, <1>7 DEF Results, Records
    <2> QED
        BY <2>1 DEF Agree
<1>10. Latest
    BY <1>1, <1>5 DEF Latest
<1> QED
    BY <1>3, <1>4, <1>6, <1>8, <1>9, <1>10 DEF DialogInv

-----------------------------------------------------------------------------
(* Counting tool results.                                                  *)

\* The results after an append are those before it, and the new message.
LEMMA ToolsGrown ==
    ASSUME NEW S, NEW ms \in Seq(S), NEW m
    PROVE  /\ ToolAt(ms) \subseteq 1..Len(ms) /\ IsFiniteSet(ToolAt(ms))
           /\ IsFiniteSet(ToolAt(Append(ms, m)))
           /\ m.role # "tool" => ToolAt(Append(ms, m)) = ToolAt(ms)
           /\ m.role = "tool" => ToolAt(Append(ms, m)) = ToolAt(ms) \cup {Len(ms) + 1}
<1> DEFINE L == Len(ms)
           mt == Append(ms, m)
<1>1. L \in Nat /\ DOMAIN ms = 1..L
    OBVIOUS
<1>2. /\ Len(mt) = L + 1 /\ DOMAIN mt = 1..L + 1
      /\ mt[L + 1] = m /\ \A i \in 1..L : mt[i] = ms[i]
    <2>1. mt \in Seq(S \cup {m})
        OBVIOUS
    <2>2. DOMAIN mt = 1..Len(mt)
        BY <2>1
    <2> QED
        BY <2>2, Grown
<1> HIDE DEF L, mt
<1>3. ToolAt(ms) \subseteq 1..L /\ ToolAt(mt) \subseteq 1..L + 1
    BY <1>1, <1>2 DEF ToolAt
<1>4. IsFiniteSet(1..L) /\ IsFiniteSet(1..L + 1)
    BY <1>1, FS_Interval
<1>5. IsFiniteSet(ToolAt(ms)) /\ IsFiniteSet(ToolAt(mt))
    BY <1>3, <1>4, FS_Subset
<1>6. m.role # "tool" => ToolAt(mt) = ToolAt(ms)
    BY <1>1, <1>2 DEF ToolAt
<1>7. m.role = "tool" => ToolAt(mt) = ToolAt(ms) \cup {L + 1}
    BY <1>1, <1>2 DEF ToolAt
<1> QED
    BY <1>3, <1>5, <1>6, <1>7 DEF L, mt

\* What is old stays old.
LEMMA AppendKeepsOnlyOld ==
    ASSUME NEW S, NEW ms \in Seq(S), NEW m, OnlyOld(ms),
           m.role = "tool" => m.is # "summary"
    PROVE  OnlyOld(Append(ms, m))
<1> DEFINE mt == Append(ms, m)
           L == Len(ms)
<1>1. /\ L \in Nat /\ mt[L + 1] = m /\ \A i \in 1..L : mt[i] = ms[i]
    BY Grown
<1>2. /\ ToolAt(ms) \subseteq 1..L /\ IsFiniteSet(ToolAt(mt))
      /\ ToolAt(ms) \subseteq ToolAt(mt)
      /\ \A i \in ToolAt(mt) : i \in ToolAt(ms) \/ (i = L + 1 /\ m.role = "tool")
    BY ToolsGrown, Zenon
<1> HIDE DEF mt, L
<1> SUFFICES ASSUME NEW i \in ToolAt(mt), mt[i].is = "summary"
             PROVE  Newer(mt, i) > KeepRecent /\ KeepRecent > 0
    BY DEF OnlyOld, mt
<1>3. i \in ToolAt(ms) /\ mt[i] = ms[i]
    BY <1>1, <1>2
<1>4. Newer(ms, i) > KeepRecent /\ KeepRecent > 0
    BY <1>3 DEF OnlyOld
<1>5. Newer(mt, i) >= Newer(ms, i) /\ Newer(mt, i) \in Nat /\ Newer(ms, i) \in Nat
    <2> DEFINE A == {j \in ToolAt(ms) : j >= i}
               B == {j \in ToolAt(mt) : j >= i}
    <2>1. A \subseteq B /\ B \subseteq ToolAt(mt)
        BY <1>2
    <2>2. IsFiniteSet(B)
        BY <2>1, <1>2, FS_Subset
    <2>3. IsFiniteSet(A) /\ Cardinality(A) <= Cardinality(B)
        BY <2>1, <2>2, FS_Subset
    <2> HIDE DEF A, B
    <2>4. Cardinality(A) \in Nat /\ Cardinality(B) \in Nat
        BY <2>2, <2>3, FS_CardinalityType
    <2> QED
        BY <2>3, <2>4 DEF Newer, A, B
<1>6. KeepRecent \in Nat
    BY AnalyzerAssumption DEF AnalyzerAssumption
<1> QED
    BY <1>4, <1>5, <1>6

\* Compacting summarizes the old results, and only those.
LEMMA CompactedAsMeant ==
    ASSUME NEW ms \in Seq(Message), OnlyOld(ms)
    PROVE  LET c == Compacted(ms) IN
           /\ OnlyOld(c)
           /\ KeepRecent > 0 =>
                \A i \in ToolAt(c) : c[i].is = "summary" <=> Newer(c, i) > KeepRecent
<1> DEFINE c == Compacted(ms)
           old(i) == i \in ToolAt(ms) /\ Newer(ms, i) > KeepRecent /\ KeepRecent > 0
<1>1. /\ DOMAIN ms = 1..Len(ms)
      /\ c = [i \in 1..Len(ms) |-> IF old(i) THEN [ms[i] EXCEPT !.is = "summary"] ELSE ms[i]]
    BY DEF Compacted
<1>2. DOMAIN c = 1..Len(ms) /\ \A i \in 1..Len(ms) : c[i].role = ms[i].role
    BY <1>1, CompactingChangesNoCall
<1> HIDE DEF c, old
<1>3. ToolAt(c) = ToolAt(ms)
    BY <1>1, <1>2 DEF ToolAt
<1>4. \A i : Newer(c, i) = Newer(ms, i)
    BY <1>3 DEF Newer
<1>5. ASSUME NEW i \in ToolAt(ms)
      PROVE  c[i].is = "summary" <=> old(i)
    <2>1. i \in 1..Len(ms) /\ ms[i].role = "tool"
        BY <1>1 DEF ToolAt
    <2>2. ms[i] \in [role : {"tool"}, call : Call, is : {"full", "summary"}, ok : BOOLEAN]
        BY <2>1 DEF Message
    <2>3. CASE old(i)
        <3>1. c[i] = [ms[i] EXCEPT !.is = "summary"]
            BY <1>1, <2>1, <2>3
        <3> QED
            BY <2>2, <2>3, <3>1
    <2>4. CASE ~old(i)
        <3>1. c[i] = ms[i]
            BY <1>1, <2>1, <2>4
        <3>2. ms[i].is # "summary"
            BY <2>4 DEF OnlyOld, old
        <3> QED
            BY <2>4, <3>1, <3>2
    <2> QED
        BY <2>3, <2>4
<1>6. OnlyOld(c)
    BY <1>3, <1>4, <1>5 DEF OnlyOld, old
<1>7. KeepRecent > 0 => \A i \in ToolAt(c) : c[i].is = "summary" <=> Newer(c, i) > KeepRecent
    BY <1>3, <1>4, <1>5 DEF old
<1> QED
    BY <1>6, <1>7 DEF c

\* The trace after a call: both sides count one more of its category.
LEMMA ExecuteKeepsAgreement ==
    ASSUME NEW ms \in Seq(Message), NEW S, NEW us \in Seq(S), Agree(ms, us),
           NEW m, m.role = "tool", NEW u, u.tool = m.call.tool, u.ok = m.ok
    PROVE  Agree(Append(ms, m), Append(us, u))
<1> DEFINE mt == Append(ms, m)
           ut == Append(us, u)
           L == Len(ms)
           K == Len(us)
<1>1. /\ L \in Nat /\ mt[L + 1] = m /\ \A i \in 1..L : mt[i] = ms[i]
      /\ K \in Nat /\ ut[K + 1] = u /\ \A i \in 1..K : ut[i] = us[i]
    BY Grown
<1>2. /\ ToolAt(ms) \subseteq 1..L /\ IsFiniteSet(ToolAt(ms))
      /\ ToolAt(mt) = ToolAt(ms) \cup {L + 1}
    BY ToolsGrown
<1>3. DOMAIN us = 1..K /\ DOMAIN ut = 1..K + 1
    OBVIOUS
<1> HIDE DEF mt, ut, L, K
<1> SUFFICES ASSUME NEW c \in {Category[t] : t \in Tool}
             PROVE  /\ Cardinality(Results(mt, c)) = Cardinality(Records(ut, c))
                    /\ (\E i \in Results(mt, c) : mt[i].ok) <=> (\E i \in Records(ut, c) : ut[i].ok)
    BY DEF Agree, mt, ut
<1>4. /\ Cardinality(Results(ms, c)) = Cardinality(Records(us, c))
      /\ (\E i \in Results(ms, c) : ms[i].ok) <=> (\E i \in Records(us, c) : us[i].ok)
    BY DEF Agree
<1>5. /\ Results(ms, c) \subseteq 1..L /\ IsFiniteSet(Results(ms, c))
      /\ Records(us, c) \subseteq 1..K /\ IsFiniteSet(Records(us, c))
    <2>1. Results(ms, c) \subseteq ToolAt(ms)
        BY DEF Results
    <2>2. Records(us, c) \subseteq 1..K
        BY <1>3 DEF Records
    <2>3. IsFiniteSet(1..K)
        <3>1. 1 \in Int /\ K \in Int
            BY <1>1
        <3> QED
            BY <3>1, FS_Interval, Zenon
    <2> QED
        BY <1>2, <2>1, <2>2, <2>3, FS_Subset
<1>6. CASE Category[u.tool] = c
    <2>1. Results(mt, c) = Results(ms, c) \cup {L + 1}
        BY <1>1, <1>2, <1>6 DEF Results
    <2>2. Records(ut, c) = Records(us, c) \cup {K + 1}
        BY <1>1, <1>3, <1>6 DEF Records
    <2>3. L + 1 \notin Results(ms, c) /\ K + 1 \notin Records(us, c)
        BY <1>1, <1>5
    <2>4. Cardinality(Results(mt, c)) = Cardinality(Results(ms, c)) + 1
        BY <2>1, <2>3, <1>5, FS_AddElement
    <2>5. Cardinality(Records(ut, c)) = Cardinality(Records(us, c)) + 1
        BY <2>2, <2>3, <1>5, FS_AddElement
    <2>6. (\E i \in Results(mt, c) : mt[i].ok) <=> (\E i \in Results(ms, c) : ms[i].ok) \/ m.ok
        BY <2>1, <1>1, <1>5, Zenon
    <2>7. (\E i \in Records(ut, c) : ut[i].ok) <=> (\E i \in Records(us, c) : us[i].ok) \/ u.ok
        BY <2>2, <1>1, <1>5, Zenon
    <2> QED
        BY <1>4, <2>4, <2>5, <2>6, <2>7, Zenon
<1>7. CASE Category[u.tool] # c
    <2>1. Results(mt, c) = Results(ms, c)
        BY <1>1, <1>2, <1>7 DEF Results
    <2>2. Records(ut, c) = Records(us, c)
        BY <1>1, <1>3, <1>7 DEF Records
    <2>3. (\E i \in Results(mt, c) : mt[i].ok) <=> (\E i \in Results(ms, c) : ms[i].ok)
        BY <2>1, <1>1, <1>5, Zenon
    <2>4. (\E i \in Records(ut, c) : ut[i].ok) <=> (\E i \in Records(us, c) : us[i].ok)
        BY <2>2, <1>1, <1>5, Zenon
    <2> QED
        BY <1>4, <2>1, <2>2, <2>3, <2>4, Zenon
<1> QED
    BY <1>6, <1>7

\* Other messages, and compacting, leave it as it is.
LEMMA OthersKeepAgreement ==
    ASSUME NEW ms \in Seq(Message), NEW us, Agree(ms, us), NEW mt, ToolAt(mt) = ToolAt(ms),
           \A i \in ToolAt(ms) : mt[i].call = ms[i].call /\ mt[i].ok = ms[i].ok
    PROVE  Agree(mt, us)
<1>1. ASSUME NEW c
      PROVE  /\ Results(mt, c) = Results(ms, c)
             /\ (\E i \in Results(mt, c) : mt[i].ok) <=> (\E i \in Results(ms, c) : ms[i].ok)
    <2>1. Results(mt, c) = Results(ms, c)
        BY DEF Results
    <2>2. Results(ms, c) \subseteq ToolAt(ms)
        BY DEF Results
    <2> QED
        BY <2>1, <2>2, Zenon
<1> QED
    BY <1>1, Zenon DEF Agree

-----------------------------------------------------------------------------
(* The steps, one lemma each for what they do to the invariant.            *)

\* The alert is written down.
LEMMA BeginStep == DialogInv /\ Begin(ListTools) /\ offered' \subseteq Tool => DialogInv'
<1> SUFFICES ASSUME DialogInv, Begin(ListTools), offered' \subseteq Tool PROVE DialogInv'
    OBVIOUS
<1> DEFINE ms == <<[role |-> "user"]>>
<1>1. /\ at = "idle" /\ at' = "ask" /\ messages' = ms /\ iteration' = iteration
      /\ todo' = todo /\ used' = used /\ spent' = spent /\ last' = last /\ result' = result
    BY DEF Begin
<1>2. AnalyzerTypeOK /\ todo = <<>> /\ used = <<>> /\ last <= iteration
    BY <1>1 DEF DialogInv, Beginning, InTime
<1>3. ms \in Seq(Message) /\ DOMAIN ms = {1} /\ ms[1].role = "user" /\ ms # <<>>
    BY DEF Message
<1> HIDE DEF ms
<1>4. AnalyzerTypeOK'
    BY <1>1, <1>2, <1>3 DEF AnalyzerTypeOK
<1>5. InTime' /\ Beginning'
    BY <1>1, <1>2, <1>3 DEF InTime, Beginning
<1>6. InOrder(messages', todo')
    BY <1>1, <1>2, BeginsInOrder DEF ms
<1>7. ToolAt(ms) = {}
    BY <1>3 DEF ToolAt
<1>8. OnlyOld(messages') /\ RecentResultsKept'
    BY <1>1, <1>7 DEF OnlyOld, RecentResultsKept
<1>9. Agree(messages', used')
    <2>1. DOMAIN used = {}
        BY <1>2
    <2>2. \A c : Results(ms, c) = {} /\ Records(used, c) = {}
        BY <1>7, <2>1 DEF Results, Records
    <2> QED
        BY <1>1, <2>2 DEF Agree
<1>10. Latest'
    BY <1>1, <1>3 DEF DialogInv, Latest
<1> QED
    BY <1>4, <1>5, <1>6, <1>8, <1>9, <1>10 DEF DialogInv

\* A request is sent, after compacting.
LEMMA AskStep == DialogInv /\ Ask => DialogInv'
<1> SUFFICES ASSUME DialogInv, Ask PROVE DialogInv'
    OBVIOUS
<1> DEFINE ms == Compacted(messages)
<1>1. /\ at = "ask" /\ iteration < MaxIterations /\ at' = "chat" /\ messages' = ms
      /\ iteration' = iteration /\ todo' = todo /\ used' = used /\ spent' = spent
      /\ last' = last /\ offered' = offered /\ result' = result
    BY DEF Ask
<1>2. /\ AnalyzerTypeOK /\ todo = <<>> /\ messages # <<>> /\ messages \in Seq(Message)
      /\ InOrder(messages, <<>>) /\ OnlyOld(messages) /\ Agree(messages, used) /\ Latest /\ InTime
    BY <1>1 DEF DialogInv, Beginning, AnalyzerTypeOK
<1>3. /\ ms \in Seq(Message) /\ Len(ms) = Len(messages)
      /\ \A i \in 1..Len(messages) :
           /\ ms[i].role = messages[i].role
           /\ messages[i].role = "assistant" => ms[i] = messages[i]
           /\ messages[i].role = "tool" => ms[i].call = messages[i].call /\ ms[i].ok = messages[i].ok
    BY <1>2, CompactingChangesNoCall
<1>4. DOMAIN messages = 1..Len(messages) /\ DOMAIN ms = 1..Len(messages) /\ ms # <<>>
    BY <1>2, <1>3
<1>5. InOrder(ms, <<>>)
    BY <1>2, CompactingKeepsOrder
<1>6. OnlyOld(ms) /\ (KeepRecent > 0 =>
                        \A i \in ToolAt(ms) : ms[i].is = "summary" <=> Newer(ms, i) > KeepRecent)
    BY <1>2, CompactedAsMeant
<1> HIDE DEF ms
<1>7. ToolAt(ms) = ToolAt(messages)
    BY <1>3, <1>4 DEF ToolAt
<1>8. \A i \in ToolAt(messages) : ms[i].call = messages[i].call /\ ms[i].ok = messages[i].ok
    BY <1>3, <1>4 DEF ToolAt
<1>9. Agree(ms, used)
    BY <1>2, <1>7, <1>8, OthersKeepAgreement
<1>10. AnalyzerTypeOK'
    BY <1>1, <1>2, <1>3 DEF AnalyzerTypeOK
<1>11. InTime' /\ Beginning'
    BY <1>1, <1>2, <1>4 DEF InTime, Beginning
<1>12. Latest'
    <2>1. \A i \in DOMAIN ms : ms[i].role = "assistant" => ms[i].text <= last
        BY <1>2, <1>3, <1>4 DEF Latest
    <2>2. result = [how |-> "pending"]
        BY <1>1, <1>2 DEF Latest
    <2> QED
        BY <1>1, <2>1, <2>2 DEF Latest
<1>13. InOrder(messages', todo') /\ OnlyOld(messages') /\ RecentResultsKept' /\ Agree(messages', used')
    BY <1>1, <1>2, <1>5, <1>6, <1>9 DEF RecentResultsKept
<1> QED
    BY <1>10, <1>11, <1>12, <1>13 DEF DialogInv

\* The model asks for calls.
LEMMA RequestStep ==
    ASSUME DialogInv, NEW text \in BOOLEAN, NEW tokens \in Tokens, NEW n \in 1..MaxCalls,
           NEW ts \in [1..n -> Tool], RequestTools(text, tokens, ts)
    PROVE  DialogInv'
<1> DEFINE calls == [k \in DOMAIN ts |-> [id |-> <<iteration + 1, k>>, tool |-> ts[k]]]
           m == [role |-> "assistant", calls |-> calls, text |-> IF text THEN iteration + 1 ELSE 0]
           mt == Append(messages, m)
           L == Len(messages)
<1>1. /\ at = "chat" /\ at' = "tools" /\ messages' = mt /\ todo' = calls
      /\ spent' = spent + tokens /\ last' = IF text THEN iteration + 1 ELSE last
      /\ iteration' = iteration /\ used' = used /\ offered' = offered /\ result' = result
    BY DEF RequestTools, Hear
<1>2. /\ AnalyzerTypeOK /\ todo = <<>> /\ messages # <<>> /\ messages \in Seq(Message)
      /\ InOrder(messages, <<>>) /\ OnlyOld(messages) /\ Agree(messages, used)
      /\ iteration < MaxIterations /\ last <= iteration /\ Latest
    BY <1>1 DEF DialogInv, Beginning, AnalyzerTypeOK, InTime
<1>3. /\ m \in Message /\ calls \in Seq(Call) /\ calls # <<>>
      /\ \A k, l \in 1..Len(calls) : calls[k].id = calls[l].id => k = l
    <2>1. MaxCalls \in Nat /\ n \in Nat /\ n >= 1 /\ n <= MaxCalls /\ DOMAIN ts = 1..n
        BY AnalyzerAssumption DEF AnalyzerAssumption
    <2>2. iteration + 1 \in 1..MaxIterations /\ MaxIterations \in Nat
        BY <1>2, AnalyzerAssumption DEF AnalyzerAssumption, AnalyzerTypeOK
    <2>3. ASSUME NEW k \in 1..n
          PROVE  [id |-> <<iteration + 1, k>>, tool |-> ts[k]] \in Call
        <3>1. k \in 1..MaxCalls /\ ts[k] \in Tool
            BY <2>1
        <3> QED
            BY <2>2, <3>1 DEF Call
    <2>4. calls = [k \in 1..n |-> [id |-> <<iteration + 1, k>>, tool |-> ts[k]]]
        BY <2>1
    <2> HIDE DEF calls
    <2>5. calls \in Seq(Call) /\ Len(calls) = n
        BY <2>1, <2>3, <2>4
    <2>6. calls # <<>>
        BY <2>1, <2>5
    <2>7. \A k \in 1..n : calls[k].id = <<iteration + 1, k>>
        BY <2>4
    <2>8. \A k, l \in 1..n : calls[k].id = calls[l].id => k = l
        BY <2>7
    <2>9. (IF text THEN iteration + 1 ELSE 0) \in 0..MaxIterations
        BY <2>2
    <2>10. m \in Message
        BY <2>5, <2>9 DEF Message
    <2> QED
        BY <2>5, <2>6, <2>8, <2>10
<1>4. m.role = "assistant" /\ m.calls = calls /\ m.text = IF text THEN iteration + 1 ELSE 0
    OBVIOUS
<1> HIDE DEF m, calls
<1>5. mt \in Seq(Message) /\ InOrder(mt, calls) /\ mt # <<>>
    <2>1. mt \in Seq(Message)
        BY <1>2, <1>3
    <2>2. /\ m.calls \in Seq(Call) /\ m.calls # <<>>
          /\ \A k, l \in 1..Len(m.calls) : m.calls[k].id = m.calls[l].id => k = l
        BY <1>3, <1>4
    <2>3. InOrder(mt, m.calls)
        BY <1>2, <1>4, <2>2, RequestKeepsOrder
    <2>4. mt # <<>>
        BY <1>2, Grown
    <2> QED
        BY <1>4, <2>1, <2>3, <2>4
<1>6. /\ L \in Nat /\ Len(mt) = L + 1 /\ mt[L + 1] = m /\ \A i \in 1..L : mt[i] = messages[i]
      /\ DOMAIN messages = 1..L /\ DOMAIN mt = 1..Len(mt)
    BY <1>2, <1>5, Grown
<1>7. ToolAt(mt) = ToolAt(messages) /\ ToolAt(messages) \subseteq 1..L
    BY <1>2, <1>4, ToolsGrown
<1>8. OnlyOld(mt)
    BY <1>2, <1>4, AppendKeepsOnlyOld
<1> HIDE DEF mt, L
<1>9. Agree(mt, used)
    BY <1>2, <1>6, <1>7, OthersKeepAgreement
<1>10. iteration \in Nat /\ last \in 0..MaxIterations /\ MaxIterations \in Nat
       /\ spent \in Nat /\ tokens \in Nat
    BY <1>2, AnalyzerAssumption DEF AnalyzerTypeOK, AnalyzerAssumption
<1>11. AnalyzerTypeOK'
    <2>1. last' \in 0..MaxIterations /\ spent' \in Nat
        BY <1>1, <1>2, <1>10
    <2> QED
        BY <1>1, <1>2, <1>3, <1>5, <2>1 DEF AnalyzerTypeOK
<1>12. InTime' /\ Beginning'
    BY <1>1, <1>2, <1>5, <1>10 DEF InTime, Beginning
<1>13. Latest'
    <2>1. ASSUME NEW i \in DOMAIN mt, mt[i].role = "assistant" PROVE mt[i].text <= last'
        <3>1. CASE i = L + 1
            BY <1>1, <1>4, <1>6, <1>10, <3>1
        <3>2. CASE i \in 1..L
            <4>1. messages[i].role = "assistant" /\ messages[i].text <= last
                BY <1>2, <1>6, <2>1, <3>2 DEF Latest
            <4>2. messages[i].text \in 0..MaxIterations
                BY <1>2, <1>6, <3>2, <4>1, Fields
            <4>3. last <= last'
                BY <1>1, <1>2, <1>10
            <4>4. last' \in Nat /\ mt[i] = messages[i]
                BY <1>1, <1>6, <1>10, <3>2
            <4> QED
                BY <1>10, <4>1, <4>2, <4>3, <4>4
        <3> QED
            BY <1>6, <3>1, <3>2
    <2>2. result = [how |-> "pending"]
        BY <1>1, <1>2 DEF Latest
    <2> QED
        BY <1>1, <2>1, <2>2 DEF Latest
<1>14. InOrder(messages', todo') /\ OnlyOld(messages') /\ RecentResultsKept' /\ Agree(messages', used')
    BY <1>1, <1>5, <1>8, <1>9 DEF RecentResultsKept
<1> QED
    BY <1>11, <1>12, <1>13, <1>14 DEF DialogInv

\* A call gets its result.
LEMMA ExecuteStep ==
    ASSUME DialogInv, NEW ok \in BOOLEAN, Execute(ok)
    PROVE  DialogInv'
<1> DEFINE m == [role |-> "tool", call |-> Head(todo), is |-> "full", ok |-> ok]
           u == [tool |-> Head(todo).tool, ok |-> ok]
           mt == Append(messages, m)
           L == Len(messages)
<1>1. /\ at = "tools" /\ todo # <<>> /\ at' = at /\ messages' = mt /\ todo' = Tail(todo)
      /\ used' = Append(used, u) /\ spent' = spent /\ last' = last
      /\ iteration' = iteration /\ offered' = offered /\ result' = result
    BY DEF Execute
<1>2. /\ AnalyzerTypeOK /\ todo \in Seq(Call) /\ messages # <<>> /\ messages \in Seq(Message)
      /\ used \in Seq([tool : Tool, ok : BOOLEAN])
      /\ InOrder(messages, todo) /\ OnlyOld(messages) /\ Agree(messages, used) /\ InTime /\ Latest
    BY <1>1 DEF DialogInv, Beginning, AnalyzerTypeOK
<1>3. Head(todo) \in Call /\ Tail(todo) \in Seq(Call)
    BY <1>1, <1>2
<1>4. /\ m.role = "tool" /\ m.call = Head(todo) /\ m.is = "full" /\ m.ok = ok
      /\ u.tool = m.call.tool /\ u.ok = m.ok
    OBVIOUS
<1>5. m \in Message
    BY <1>3 DEF Message
<1>6. u \in [tool : Tool, ok : BOOLEAN]
    BY <1>3 DEF Call
<1> HIDE DEF m, u
<1>7. mt \in Seq(Message) /\ Append(used, u) \in Seq([tool : Tool, ok : BOOLEAN]) /\ mt # <<>>
    BY <1>2, <1>5, <1>6, Grown
<1>8. InOrder(mt, Tail(todo))
    BY <1>1, <1>2, <1>4, ExecuteKeepsOrder
<1>9. OnlyOld(mt)
    <2>1. m.is # "summary"
        BY <1>4
    <2> QED
        BY <1>2, <2>1, AppendKeepsOnlyOld
<1>10. Agree(mt, Append(used, u))
    BY <1>2, <1>4, ExecuteKeepsAgreement
<1>11. /\ L \in Nat /\ Len(mt) = L + 1 /\ mt[L + 1] = m /\ \A i \in 1..L : mt[i] = messages[i]
       /\ DOMAIN messages = 1..L /\ DOMAIN mt = 1..Len(mt)
    BY <1>2, <1>7, Grown
<1> HIDE DEF mt, L
<1>12. AnalyzerTypeOK'
    BY <1>1, <1>2, <1>3, <1>7 DEF AnalyzerTypeOK
<1>13. InTime' /\ Beginning'
    BY <1>1, <1>2, <1>7 DEF InTime, Beginning
<1>14. Latest'
    <2>1. \A i \in DOMAIN mt : mt[i].role = "assistant" => mt[i].text <= last
        BY <1>2, <1>4, <1>11 DEF Latest
    <2>2. result = [how |-> "pending"]
        BY <1>1, <1>2 DEF Latest
    <2> QED
        BY <1>1, <2>1, <2>2 DEF Latest
<1>15. InOrder(messages', todo') /\ OnlyOld(messages') /\ RecentResultsKept' /\ Agree(messages', used')
    BY <1>1, <1>8, <1>9, <1>10 DEF RecentResultsKept
<1> QED
    BY <1>12, <1>13, <1>14, <1>15 DEF DialogInv

\* Everything else leaves the history as it is.
LEMMA QuietStep ==
    ASSUME DialogInv, UNCHANGED <<messages, todo, used, offered>>, AnalyzerTypeOK', InTime',
           at \notin {"idle", "tools"} \/ at' = at \/ todo = <<>>, at' # "idle" \/ at = "idle",
           at' # "chat", at = "idle" => at' = "idle",
           result'.how \in {"budget", "iterations"} => result'.text = last',
           at' # "done" => result' = [how |-> "pending"],
           last <= last', last \in Nat, last' \in Nat
    PROVE  DialogInv'
<1>1. Beginning'
    BY DEF DialogInv, Beginning
<1>2. InOrder(messages', todo') /\ OnlyOld(messages') /\ RecentResultsKept' /\ Agree(messages', used')
    BY DEF DialogInv, RecentResultsKept
<1>3. Latest'
    <2>1. ASSUME NEW i \in DOMAIN messages, messages[i].role = "assistant"
          PROVE  messages[i].text <= last'
        <3>1. messages[i].text <= last
            BY <2>1 DEF DialogInv, Latest
        <3>2. messages[i] \in Message
            BY DEF DialogInv, AnalyzerTypeOK
        <3>3. messages[i].text \in 0..MaxIterations /\ MaxIterations \in Nat
            BY <2>1, <3>2, Fields, AnalyzerAssumption DEF AnalyzerAssumption
        <3> QED
            BY <3>1, <3>3
    <2> QED
        BY <2>1 DEF Latest
<1> QED
    BY <1>1, <1>2, <1>3 DEF DialogInv

\* What is sent is well-formed.
LEMMA InOrderIsAccepted == DialogInv => RequestsWellFormed
<1> SUFFICES ASSUME DialogInv, at = "chat" PROVE
        /\ AnthropicAccepts(convertToAnthropicMessages(messages))
        /\ OpenAIAccepts(convertToOpenAIMessages(messages))
        /\ RecentResultsKept
    BY DEF RequestsWellFormed
<1>1. messages \in Seq(Message) /\ messages # <<>> /\ InOrder(messages, <<>>)
    BY DEF DialogInv, AnalyzerTypeOK, Beginning
<1> QED
    BY <1>1, OrderedForAnthropic, OrderedForOpenAI DEF DialogInv

\* What agrees is traced truly.
LEMMA AgreementIsTraced == DialogInv => TraceHonest
<1> SUFFICES ASSUME DialogInv, NEW c \in {Category[t] : t \in Tool}
             PROVE  LET of == {i \in ToolAt(messages) : Category[messages[i].call.tool] = c} IN
                    IF of = {} THEN c \notin DOMAIN Trace(used)
                    ELSE Trace(used)[c] = [ok    |-> \E i \in of : messages[i].ok,
                                           count |-> Cardinality(of)]
    BY Zenon DEF TraceHonest
<1> DEFINE R == Results(messages, c)
           U == Records(used, c)
<1>1. messages \in Seq(Message) /\ used \in Seq([tool : Tool, ok : BOOLEAN])
    BY DEF DialogInv, AnalyzerTypeOK
<1>2. Cardinality(R) = Cardinality(U) /\ ((\E i \in R : messages[i].ok) <=> (\E i \in U : used[i].ok))
    BY DEF DialogInv, Agree
<1>3. IsFiniteSet(R) /\ IsFiniteSet(U)
    <2>1. R \subseteq ToolAt(messages) /\ IsFiniteSet(ToolAt(messages))
        BY <1>1, ToolsGrown DEF Results
    <2>2. Len(used) \in Int /\ 1 \in Int /\ DOMAIN used = 1..Len(used)
        BY <1>1
    <2>3. IsFiniteSet(DOMAIN used)
        BY <2>2, FS_Interval
    <2>4. U \subseteq DOMAIN used
        BY DEF Records
    <2> QED
        BY <2>1, <2>3, <2>4, FS_Subset
<1>4. R = {} <=> U = {}
    BY <1>2, <1>3, FS_EmptySet
<1>5. c \in DOMAIN Trace(used) <=> U # {}
    BY Zenon DEF Trace, Records
<1>6. U # {} => Trace(used)[c] = [ok |-> \E i \in U : used[i].ok, count |-> Cardinality(U)]
    BY Zenon DEF Trace, Records
<1>7. R = {i \in ToolAt(messages) : Category[messages[i].call.tool] = c}
    BY DEF Results
<1> HIDE DEF R, U
<1>8. U # {} => Trace(used)[c] = [ok |-> \E i \in R : messages[i].ok, count |-> Cardinality(R)]
    BY <1>2, <1>6, Zenon
<1> QED
    BY <1>4, <1>5, <1>7, <1>8, Zenon

\* The last text is the best.
LEMMA LatestIsBest == DialogInv => BestEffort
  BY DEF DialogInv, Latest, BestEffort

\* The registry lists tools.
LEMMA ListedAreTools == McpTypeOK => ListTools \subseteq Tool
  BY ToolAssumption DEF ToolAssumption, McpTypeOK, ListTools

\* Every step keeps the invariant.
LEMMA DialogStep ==
    ASSUME DialogInv, McpTypeOK, [Next]_vars
    PROVE  DialogInv'
<1>1. AnalyzerTypeOK /\ InTime /\ Latest /\ Beginning
    BY DEF DialogInv
<1>2. /\ iteration \in 0..MaxIterations /\ last \in 0..MaxIterations /\ MaxIterations \in Nat
      /\ spent \in Nat /\ Tokens \subseteq Nat /\ result \in Result
    BY <1>1, AnalyzerAssumption DEF AnalyzerTypeOK, AnalyzerAssumption
<1>3. CASE Begin(ListTools)
    <2>1. offered' \subseteq Tool
        BY <1>3, ListedAreTools DEF Begin
    <2> QED
        BY <1>3, <2>1, BeginStep
<1>4. CASE Ask
    BY <1>4, AskStep
<1>5. CASE \E text \in BOOLEAN, tokens \in Tokens, n \in 1..MaxCalls :
              \E ts \in [1..n -> Tool] : RequestTools(text, tokens, ts)
    BY <1>5, RequestStep
<1>6. CASE \E ok \in BOOLEAN : Execute(ok)
    BY <1>6, ExecuteStep
<1>7. CASE ChatFails
    <2>1. /\ at = "chat" /\ at' = "done" /\ result' = [how |-> "error"] /\ offered' = offered
          /\ iteration' = iteration /\ messages' = messages /\ todo' = todo /\ used' = used
          /\ spent' = spent /\ last' = last
        BY <1>7 DEF ChatFails, dialog
    <2>2. AnalyzerTypeOK'
        BY <1>1, <2>1 DEF AnalyzerTypeOK, Result
    <2>3. InTime'
        BY <2>1 DEF InTime
    <2>4. todo = <<>>
        BY <1>1, <2>1 DEF Beginning
    <2> QED
        BY <1>2, <2>1, <2>2, <2>3, <2>4, QuietStep
<1>8. CASE NextIteration
    <2>1. /\ at = "tools" /\ todo = <<>> /\ at' = "ask" /\ iteration' = iteration + 1
          /\ result' = result /\ offered' = offered /\ messages' = messages /\ todo' = todo
          /\ used' = used /\ spent' = spent /\ last' = last
        BY <1>8 DEF NextIteration
    <2>2. iteration' \in 0..MaxIterations /\ InTime'
        BY <1>1, <1>2, <2>1 DEF InTime
    <2>3. AnalyzerTypeOK'
        BY <1>1, <2>1, <2>2 DEF AnalyzerTypeOK
    <2>4. result = [how |-> "pending"]
        BY <1>1, <2>1 DEF Latest
    <2> QED
        BY <1>2, <2>1, <2>2, <2>3, <2>4, QuietStep
<1>9. CASE RunOut
    <2>1. /\ at = "ask" /\ at' = "done" /\ result' = [how |-> "iterations", text |-> last]
          /\ offered' = offered /\ iteration' = iteration /\ messages' = messages
          /\ todo' = todo /\ used' = used /\ spent' = spent /\ last' = last
        BY <1>9 DEF RunOut, dialog
    <2>2. AnalyzerTypeOK'
        BY <1>1, <1>2, <2>1 DEF AnalyzerTypeOK, Result
    <2>3. InTime'
        BY <2>1 DEF InTime
    <2>4. todo = <<>>
        BY <1>1, <2>1 DEF Beginning
    <2> QED
        BY <1>2, <2>1, <2>2, <2>3, <2>4, QuietStep
<1>10. ASSUME NEW text \in BOOLEAN, NEW tokens \in Tokens,
              StopEarly(text, tokens) \/ Answer(text, tokens)
       PROVE  DialogInv'
    <2>1. /\ at = "chat" /\ at' = "done" /\ offered' = offered /\ iteration' = iteration
          /\ messages' = messages /\ todo' = todo /\ used' = used /\ spent' = spent + tokens
          /\ last' = IF text THEN iteration + 1 ELSE last
          /\ \/ result' = [how |-> "budget", text |-> last']
             \/ result' = [how |-> "answered", text |-> IF text THEN iteration + 1 ELSE 0]
        BY <1>10 DEF StopEarly, Answer, Hear
    <2>2. iteration < MaxIterations /\ last <= iteration
        BY <1>1, <2>1 DEF InTime
    <2>3. /\ last' \in 0..MaxIterations /\ last <= last' /\ spent' \in Nat
          /\ (IF text THEN iteration + 1 ELSE 0) \in 0..MaxIterations
        BY <1>2, <2>1, <2>2
    <2>4. result' \in Result /\ (result'.how \in {"budget", "iterations"} => result'.text = last')
        BY <2>1, <2>3 DEF Result
    <2>5. AnalyzerTypeOK'
        BY <1>1, <2>1, <2>3, <2>4 DEF AnalyzerTypeOK
    <2>6. InTime'
        BY <2>1 DEF InTime
    <2>7. todo = <<>> /\ last \in Nat /\ last' \in Nat
        BY <1>1, <1>2, <2>1, <2>3 DEF Beginning
    <2> QED
        BY <2>1, <2>3, <2>4, <2>5, <2>6, <2>7, QuietStep
<1>11. CASE UNCHANGED analysis
    <2>1. /\ at' = at /\ offered' = offered /\ iteration' = iteration /\ messages' = messages
          /\ todo' = todo /\ used' = used /\ spent' = spent /\ last' = last /\ result' = result
        BY <1>11 DEF analysis, dialog
    <2>2. AnalyzerTypeOK' /\ InTime' /\ Beginning'
        BY <1>1, <2>1 DEF AnalyzerTypeOK, InTime, Beginning
    <2>3. InOrder(messages', todo') /\ OnlyOld(messages') /\ Agree(messages', used')
        BY <2>1 DEF DialogInv
    <2>4. RecentResultsKept' /\ Latest'
        BY <2>1 DEF DialogInv, RecentResultsKept, Latest
    <2> QED
        BY <2>2, <2>3, <2>4 DEF DialogInv
<1> QED
    BY <1>3, <1>4, <1>5, <1>6, <1>7, <1>8, <1>9, <1>10, <1>11, StepOfDialog

\* The invariant holds throughout.
LEMMA DialogKept == Spec => [](DialogInv /\ McpTypeOK)
<1>1. Init => DialogInv /\ McpTypeOK
    BY DialogInit, McpTypeInit, McpAssumption DEF Init
<1>2. (DialogInv /\ McpTypeOK) /\ [Next]_vars => (DialogInv /\ McpTypeOK)'
    BY DialogStep, StepOfMcp, McpTypeStep, McpAssumption
<1> QED
    BY <1>1, <1>2, PTL DEF Spec

\* Type correctness of the analysis and its MCP client (analyzer.go, mcp_client.go).
THEOREM InvestigationTypeCorrect == Spec => []TypeOK
<1>1. DialogInv /\ McpTypeOK => TypeOK
    BY DEF DialogInv, TypeOK
<1> QED
    BY <1>1, DialogKept, PTL

\* Every request is one that both providers accept, with the newest results in
\* full (analyzer.go, Analyze and compactToolHistory; anthropic.go, openai.go),
\* for any tools, calls per response, iterations and number of results kept.
THEOREM RequestsAccepted == Spec => []RequestsWellFormed
  BY InOrderIsAccepted, DialogKept, PTL

\* The trace tells what the dialog was (analyzer.go, buildResult).
THEOREM TracesTrue == Spec => []TraceHonest
  BY AgreementIsTraced, DialogKept, PTL

\* An analysis cut short returns its latest text (analyzer.go, Analyze).
THEOREM BestTextReturned == Spec => []BestEffort
  BY LatestIsBest, DialogKept, PTL
-----------------------------------------------------------------------------
(* An analysis and a connection attempt have only so many steps.           *)

\* The turns the analysis may still take, each a request, a response, its
\* calls and what comes after them.
TurnsLeft == MaxIterations - iteration

\* The steps it may still take.
StepsLeft ==
    LET turn == MaxCalls + 3 IN
    [idle  |-> 0,
     ask   |-> TurnsLeft * turn + 1,
     chat  |-> TurnsLeft * turn,
     tools |-> (TurnsLeft - 1) * turn + 2 + Len(todo),
     done  |-> 0][at]

\* Each of its steps brings the analysis nearer to its end, no other step
\* takes it away from there, and having ended it does nothing more.
AnalysisAdvances ==
    [][/\ at \notin {"idle", "done"} =>
             /\ Talk \/ UseTool => StepsLeft' < StepsLeft
             /\ StepsLeft' <= StepsLeft
       /\ at = "done" => UNCHANGED analysis]_vars

\* The most steps an analysis may take.
MostSteps == MaxIterations * (MaxCalls + 3) + 1

\* The requests a connection attempt may still make, and one step more for
\* every URL and at the end.
RequestsLeft ==
    [idle |-> 0, next |-> 1, list |-> 2, notify |-> 3, initialize |-> 4][attempt] + 4 * Len(urls)

\* The same for an attempt to connect.
ConnectAdvances ==
    [][attempt # "idle" =>
          /\ Connecting => RequestsLeft' < RequestsLeft
          /\ RequestsLeft' <= RequestsLeft]_vars

\* The count, place by place.
LEMMA StepsTable ==
    /\ at = "idle"  => StepsLeft = 0
    /\ at = "ask"   => StepsLeft = TurnsLeft * (MaxCalls + 3) + 1
    /\ at = "chat"  => StepsLeft = TurnsLeft * (MaxCalls + 3)
    /\ at = "tools" => StepsLeft = (TurnsLeft - 1) * (MaxCalls + 3) + 2 + Len(todo)
    /\ at = "done"  => StepsLeft = 0
  BY DEF StepsLeft

\* Of the products of natural numbers.
LEMMA OneMore == ASSUME NEW n \in Nat, NEW w \in Nat PROVE n * w \in Nat /\ (n + 1) * w = n * w + w
  OBVIOUS

\* More turns are more steps.
LEMMA Products ==
    ASSUME NEW n \in Nat, NEW m \in Nat, n <= m, NEW w \in Nat
    PROVE  n * w <= m * w
<1>1. m - n \in Nat /\ m = n + (m - n)
    OBVIOUS
<1>2. (m - n) * w \in Nat /\ (n + (m - n)) * w = n * w + (m - n) * w
    BY <1>1
<1>3. n * w \in Nat
    OBVIOUS
<1> QED
    BY <1>1, <1>2, <1>3

\* What is to be executed comes from one response.
FewCalls == Len(todo) \in 0..MaxCalls

\* The ranges of what is counted.
LEMMA Limits ==
    ASSUME DialogInv
    PROVE  /\ MaxIterations \in Nat \ {0} /\ MaxCalls + 3 \in Nat /\ MaxCalls \in Nat
           /\ iteration \in Nat /\ TurnsLeft \in Nat /\ TurnsLeft <= MaxIterations
           /\ at \in {"chat", "tools"} => TurnsLeft # 0
           /\ at \in {"idle", "ask", "chat", "tools", "done"}
           /\ todo \in Seq(Call) /\ Len(todo) \in Nat
<1>1. /\ MaxIterations \in Nat \ {0} /\ MaxCalls \in Nat \ {0}
    BY AnalyzerAssumption DEF AnalyzerAssumption
<1>2. /\ iteration \in 0..MaxIterations /\ todo \in Seq(Call)
      /\ at \in {"idle", "ask", "chat", "tools", "done"}
      /\ at \in {"chat", "tools"} => iteration < MaxIterations
    BY DEF DialogInv, AnalyzerTypeOK, InTime
<1> QED
    BY <1>1, <1>2 DEF TurnsLeft

\* A response with tools in it asks for at most MaxCalls.
LEMMA CallsOfResponse ==
    ASSUME NEW text, NEW tokens, NEW n \in 1..MaxCalls, NEW ts \in [1..n -> Tool],
           RequestTools(text, tokens, ts), MaxCalls \in Nat
    PROVE  Len(todo') = n
<1>1. DOMAIN ts = 1..n /\ n \in Nat
    OBVIOUS
<1>2. todo' = [k \in 1..n |-> [id |-> <<iteration + 1, k>>, tool |-> ts[k]]]
    BY <1>1 DEF RequestTools
<1> QED
    BY <1>1, <1>2

\* What a step of the whole means for the count of steps.
LEMMA StepCounts ==
    ASSUME DialogInv, McpTypeOK, FewCalls, DialogInv', [Next]_vars
    PROVE  /\ FewCalls'
           /\ at \notin {"idle", "done"} =>
                 /\ ~(UNCHANGED analysis) => StepsLeft' < StepsLeft
                 /\ StepsLeft' <= StepsLeft
           /\ at = "done" => UNCHANGED analysis
<1> DEFINE w == MaxCalls + 3
<1>1. /\ MaxIterations \in Nat \ {0} /\ w \in Nat /\ MaxCalls \in Nat
      /\ iteration \in Nat /\ TurnsLeft \in Nat
      /\ at \in {"chat", "tools"} => TurnsLeft # 0
      /\ at \in {"idle", "ask", "chat", "tools", "done"}
      /\ todo \in Seq(Call) /\ Len(todo) \in Nat
    BY Limits
<1>2. TurnsLeft' \in Nat /\ Len(todo') \in Nat /\ at' \in {"idle", "ask", "chat", "tools", "done"}
    <2>1. /\ MaxIterations \in Nat /\ iteration' \in 0..MaxIterations /\ todo' \in Seq(Call)
          /\ at' \in {"idle", "ask", "chat", "tools", "done"}
        BY <1>1 DEF DialogInv, AnalyzerTypeOK
    <2>2. TurnsLeft' = MaxIterations - iteration' /\ Len(todo') \in Nat
        BY <2>1 DEF TurnsLeft
    <2>3. \A i \in 0..MaxIterations : MaxIterations - i \in Nat
        BY <2>1
    <2> QED
        BY <2>1, <2>2, <2>3
<1>3. /\ at = "idle"  => StepsLeft = 0
      /\ at = "ask"   => StepsLeft = TurnsLeft * w + 1
      /\ at = "chat"  => StepsLeft = TurnsLeft * w
      /\ at = "tools" => StepsLeft = (TurnsLeft - 1) * w + 2 + Len(todo)
      /\ at = "done"  => StepsLeft = 0
    BY StepsTable
<1>4. /\ at' = "idle"  => StepsLeft' = 0
      /\ at' = "ask"   => StepsLeft' = TurnsLeft' * w + 1
      /\ at' = "chat"  => StepsLeft' = TurnsLeft' * w
      /\ at' = "tools" => StepsLeft' = (TurnsLeft' - 1) * w + 2 + Len(todo')
      /\ at' = "done"  => StepsLeft' = 0
    BY DEF StepsLeft, TurnsLeft
<1>5. FewCalls <=> Len(todo) \in 0..MaxCalls
    BY DEF FewCalls
<1>6. FewCalls' <=> Len(todo') \in 0..MaxCalls
    BY DEF FewCalls
<1>7. TurnsLeft * w \in Nat
    BY <1>1, OneMore
<1>8. ASSUME TurnsLeft # 0
      PROVE  (TurnsLeft - 1) * w \in Nat /\ TurnsLeft * w = (TurnsLeft - 1) * w + w
    <2>1. TurnsLeft - 1 \in Nat /\ TurnsLeft = (TurnsLeft - 1) + 1
        BY <1>1, <1>8
    <2> HIDE DEF w
    <2>2. /\ (TurnsLeft - 1) * w \in Nat
          /\ ((TurnsLeft - 1) + 1) * w = (TurnsLeft - 1) * w + w
        BY <1>1, <2>1, OneMore
    <2> QED
        BY <2>1, <2>2
<1>9. w = MaxCalls + 3
    OBVIOUS
<1> HIDE DEF w
<1>10. CASE Begin(ListTools)
    <2>1. at = "idle" /\ todo' = todo
        BY <1>10 DEF Begin
    <2> QED
        BY <1>5, <1>6, <2>1
<1>11. CASE Ask
    <2>1. at = "ask" /\ at' = "chat" /\ todo' = todo /\ TurnsLeft' = TurnsLeft
        BY <1>11 DEF Ask, TurnsLeft
    <2> QED
        BY <1>3, <1>4, <1>5, <1>6, <1>7, <2>1
<1>12. ASSUME at' = "done", at \in {"ask", "chat"}, todo' = todo
       PROVE  FewCalls' /\ StepsLeft' < StepsLeft
    <2>1. TurnsLeft # 0 => StepsLeft' < StepsLeft
        BY <1>1, <1>3, <1>4, <1>7, <1>8, <1>9, <1>12
    <2>2. at = "ask" => StepsLeft' < StepsLeft
        BY <1>3, <1>4, <1>7, <1>12
    <2> QED
        BY <1>1, <1>5, <1>6, <1>12, <2>1, <2>2
<1>13. ChatFails \/ RunOut
         \/ (\E text \in BOOLEAN, tokens \in Tokens : StopEarly(text, tokens))
         \/ (\E text \in BOOLEAN, tokens \in Tokens : Answer(text, tokens))
       => at' = "done" /\ at \in {"ask", "chat"} /\ todo' = todo
    BY DEF ChatFails, RunOut, StopEarly, Answer, Hear, dialog
<1>14. CASE NextIteration
    <2>1. /\ at = "tools" /\ at' = "ask" /\ todo' = todo /\ todo = <<>>
          /\ iteration' = iteration + 1
        BY <1>14 DEF NextIteration
    <2>2. TurnsLeft' = TurnsLeft - 1
        BY <1>1, <2>1 DEF TurnsLeft
    <2>3. Len(todo) = 0
        BY <2>1
    <2>4. (TurnsLeft - 1) * w \in Nat
        BY <1>1, <1>8, <2>1
    <2>5. StepsLeft = (TurnsLeft - 1) * w + 2 /\ StepsLeft' = (TurnsLeft - 1) * w + 1
        BY <1>3, <1>4, <2>1, <2>2, <2>3, <2>4
    <2> QED
        BY <1>5, <1>6, <2>1, <2>4, <2>5
<1>15. ASSUME NEW text \in BOOLEAN, NEW tokens \in Tokens, NEW n \in 1..MaxCalls,
              NEW ts \in [1..n -> Tool], RequestTools(text, tokens, ts)
       PROVE  at = "chat" /\ FewCalls' /\ StepsLeft' < StepsLeft
    <2>1. at = "chat" /\ at' = "tools" /\ TurnsLeft' = TurnsLeft
        BY <1>15 DEF RequestTools, Hear, TurnsLeft
    <2>2. Len(todo') = n
        BY <1>1, <1>15, CallsOfResponse
    <2>3. TurnsLeft # 0
        BY <1>1, <2>1
    <2>4. (TurnsLeft - 1) * w \in Nat /\ TurnsLeft * w = (TurnsLeft - 1) * w + w
        BY <1>8, <2>3
    <2>5. StepsLeft = (TurnsLeft - 1) * w + w /\ StepsLeft' = (TurnsLeft - 1) * w + 2 + n
        BY <1>3, <1>4, <2>1, <2>2, <2>4
    <2> QED
        BY <1>1, <1>6, <1>9, <2>1, <2>2, <2>4, <2>5
<1>16. CASE \E ok \in BOOLEAN : Execute(ok)
    <2>1. /\ at = "tools" /\ at' = "tools" /\ todo # <<>> /\ todo' = Tail(todo)
          /\ TurnsLeft' = TurnsLeft
        BY <1>16 DEF Execute, TurnsLeft
    <2>2. Len(todo') = Len(todo) - 1
        BY <1>1, <2>1
    <2>3. (TurnsLeft - 1) * w \in Nat
        BY <1>1, <1>8, <2>1
    <2>4. /\ StepsLeft = (TurnsLeft - 1) * w + 2 + Len(todo)
          /\ StepsLeft' = (TurnsLeft - 1) * w + 2 + (Len(todo) - 1)
        BY <1>3, <1>4, <2>1, <2>2
    <2> QED
        BY <1>1, <1>2, <1>5, <1>6, <2>1, <2>2, <2>3, <2>4
<1>17. CASE UNCHANGED analysis
    <2>1. at' = at /\ todo' = todo /\ TurnsLeft' = TurnsLeft
        BY <1>17 DEF analysis, dialog, TurnsLeft
    <2>2. at \notin {"idle", "done"} => StepsLeft \in Int /\ StepsLeft' = StepsLeft
        <3>1. at = "tools" => (TurnsLeft - 1) * w \in Nat
            BY <1>1, <1>8
        <3> QED
            BY <1>1, <1>3, <1>4, <1>7, <2>1, <3>1
    <2> QED
        BY <1>5, <1>6, <1>17, <2>1, <2>2
<1>18. StepsLeft' < StepsLeft /\ at \notin {"idle", "done"} => StepsLeft' <= StepsLeft
    <2>1. at = "tools" => (TurnsLeft - 1) * w \in Nat
        BY <1>1, <1>8
    <2>2. at \notin {"idle", "done"} => StepsLeft \in Nat
        BY <1>1, <1>3, <1>7, <2>1
    <2>3. at' = "tools" => StepsLeft' \in Int
        <3>1. TurnsLeft' - 1 \in Int /\ w \in Int
            BY <1>1, <1>2
        <3> QED
            BY <1>2, <1>4, <3>1
    <2>4. StepsLeft' \in Int
        BY <1>1, <1>2, <1>4, <2>3
    <2> QED
        BY <2>2, <2>4
<1> QED
    BY <1>10, <1>11, <1>12, <1>13, <1>14, <1>15, <1>16, <1>17, <1>18, StepOfDialog

\* Never more than MostSteps of them.
LEMMA StepsBounded ==
    ASSUME DialogInv, FewCalls
    PROVE  StepsLeft \in 0..MostSteps
<1> DEFINE w == MaxCalls + 3
<1>1. /\ MaxIterations \in Nat \ {0} /\ w \in Nat /\ MaxCalls \in Nat
      /\ TurnsLeft \in Nat /\ TurnsLeft <= MaxIterations
      /\ at \in {"chat", "tools"} => TurnsLeft # 0
      /\ at \in {"idle", "ask", "chat", "tools", "done"}
      /\ Len(todo) \in 0..MaxCalls
    BY Limits DEF FewCalls
<1>2. w = MaxCalls + 3 /\ MostSteps = MaxIterations * w + 1
    BY DEF MostSteps
<1>3. /\ at = "idle"  => StepsLeft = 0
      /\ at = "ask"   => StepsLeft = TurnsLeft * w + 1
      /\ at = "chat"  => StepsLeft = TurnsLeft * w
      /\ at = "tools" => StepsLeft = (TurnsLeft - 1) * w + 2 + Len(todo)
      /\ at = "done"  => StepsLeft = 0
    BY StepsTable
<1> HIDE DEF w
<1>4. TurnsLeft * w \in Nat /\ MaxIterations * w \in Nat /\ TurnsLeft * w <= MaxIterations * w
    BY <1>1, OneMore, Products
<1>5. CASE at = "tools"
    <2>1. TurnsLeft - 1 \in Nat /\ TurnsLeft = (TurnsLeft - 1) + 1
        BY <1>1, <1>5
    <2>2. /\ (TurnsLeft - 1) * w \in Nat
          /\ ((TurnsLeft - 1) + 1) * w = (TurnsLeft - 1) * w + w
        BY <1>1, <2>1, OneMore
    <2>3. TurnsLeft * w = (TurnsLeft - 1) * w + w
        BY <2>1, <2>2
    <2> QED
        BY <1>1, <1>2, <1>3, <1>4, <1>5, <2>2, <2>3
<1> QED
    BY <1>1, <1>2, <1>3, <1>4, <1>5

\* Every analysis ends, as far as steps can tell (analyzer.go, Analyze): for
\* any tools, iterations and calls per response, and whatever the model asks
\* for, it has at most MostSteps steps left, each of its steps leaves it fewer,
\* no step of the monitor or of the server gives it more, and it ends once.
THEOREM AnalysisEnds ==
    Spec => AnalysisAdvances /\ [](StepsLeft \in 0..MostSteps)
<1> DEFINE Inv == DialogInv /\ McpTypeOK /\ FewCalls
<1>1. Init => FewCalls
    <2> SUFFICES ASSUME Init PROVE FewCalls
        OBVIOUS
    <2>1. todo = <<>> /\ MaxCalls \in Nat
        BY AnalyzerAssumption DEF Init, AnalyzerInit
    <2> QED
        BY <2>1 DEF FewCalls
<1>2. Init => Inv
    BY <1>1, DialogInit, McpTypeInit, McpAssumption DEF Init
<1>3. Inv /\ [Next]_vars => Inv'
    BY DialogStep, StepOfMcp, McpTypeStep, McpAssumption, StepCounts
<1>4. Inv /\ Inv' /\ [Next]_vars =>
        [/\ at \notin {"idle", "done"} =>
               /\ Talk \/ UseTool => StepsLeft' < StepsLeft
               /\ StepsLeft' <= StepsLeft
         /\ at = "done" => UNCHANGED analysis]_vars
    <2> SUFFICES ASSUME Inv, Inv', [Next]_vars, at \notin {"idle", "done"}, Talk \/ UseTool
                 PROVE  StepsLeft' < StepsLeft
        BY StepCounts
    <2>1. StepsLeft' < StepsLeft \/ UNCHANGED analysis
        BY StepCounts
    <2>2. ~(UNCHANGED analysis)
        <3>1. at' = at /\ todo' = todo => at = "tools" /\ todo # <<>> /\ todo' = Tail(todo)
            BY DEF Talk, UseTool, CallBuiltin, CallMcp, CallUnknown, Execute, Converse, Ask,
                   ChatFails, Respond, StopEarly, Answer, RequestTools, Hear, NextIteration, RunOut
        <3>2. todo \in Seq(Call)
            BY Limits
        <3>3. todo # <<>> => Tail(todo) # todo
            BY <3>2
        <3> QED
            BY <3>1, <3>3 DEF analysis, dialog
    <2> QED
        BY <2>1, <2>2
<1>5. Inv => StepsLeft \in 0..MostSteps
    BY StepsBounded
<1> QED
    BY <1>2, <1>3, <1>4, <1>5, PTL DEF Spec, AnalysisAdvances

\* The count, place by place.
LEMMA RequestsTable ==
    /\ attempt = "idle"       => RequestsLeft = 4 * Len(urls)
    /\ attempt = "next"       => RequestsLeft = 1 + 4 * Len(urls)
    /\ attempt = "list"       => RequestsLeft = 2 + 4 * Len(urls)
    /\ attempt = "notify"     => RequestsLeft = 3 + 4 * Len(urls)
    /\ attempt = "initialize" => RequestsLeft = 4 + 4 * Len(urls)
  BY DEF RequestsLeft

\* At most eight, and at most four in the middle of a handshake.
LEMMA Fourfold ==
    ASSUME NEW n \in 0..2
    PROVE  4 * n \in 0..8 /\ (n \in 0..1 => 4 * n \in 0..4)
  OBVIOUS

\* While an attempt is under way there is at most one URL to come.
Trying == attempt \in {"list", "notify", "initialize"} => Len(urls) \in {0, 1}

\* What a step means for the count of requests.
LEMMA StepConnects ==
    ASSUME McpTypeOK, McpTypeOK', Trying, McpStep
    PROVE  /\ Trying'
           /\ attempt # "idle" =>
                 /\ Connecting => RequestsLeft' < RequestsLeft
                 /\ RequestsLeft' <= RequestsLeft
<1>1. /\ attempt \in {"next", "initialize", "notify", "list", "idle"}
      /\ urls \in {<<>>, <<"mcp">>, <<"base", "mcp">>}
    BY DEF McpTypeOK
<1>2. Len(urls) \in 0..2 /\ (urls = <<>> => Len(urls) = 0)
    BY <1>1
<1>3. /\ attempt = "idle"       => RequestsLeft = 4 * Len(urls)
      /\ attempt = "next"       => RequestsLeft = 1 + 4 * Len(urls)
      /\ attempt = "list"       => RequestsLeft = 2 + 4 * Len(urls)
      /\ attempt = "notify"     => RequestsLeft = 3 + 4 * Len(urls)
      /\ attempt = "initialize" => RequestsLeft = 4 + 4 * Len(urls)
    BY RequestsTable
<1>4. /\ attempt' = "idle"       => RequestsLeft' = 4 * Len(urls')
      /\ attempt' = "next"       => RequestsLeft' = 1 + 4 * Len(urls')
      /\ attempt' = "list"       => RequestsLeft' = 2 + 4 * Len(urls')
      /\ attempt' = "notify"     => RequestsLeft' = 3 + 4 * Len(urls')
      /\ attempt' = "initialize" => RequestsLeft' = 4 + 4 * Len(urls')
    BY DEF RequestsLeft
<1>5. CASE NextUrl
    <2>1. attempt = "next" /\ urls # <<>> /\ urls' = Tail(urls) /\ attempt' = "initialize"
        BY <1>5 DEF NextUrl
    <2>2. Len(urls') = Len(urls) - 1 /\ Len(urls') \in {0, 1}
        BY <1>1, <2>1
    <2> QED
        BY <1>2, <1>3, <1>4, <2>1, <2>2 DEF Trying
<1>6. CASE AllFailed
    <2>1. attempt = "next" /\ urls = <<>> /\ urls' = urls /\ attempt' = "idle"
        BY <1>6 DEF AllFailed
    <2> QED
        BY <1>2, <1>3, <1>4, <2>1 DEF Trying
<1>7. CASE Initialize \/ Notify \/ RequestFails
    <2>1. /\ urls' = urls
          /\ \/ attempt = "initialize" /\ attempt' = "notify"
             \/ attempt = "notify" /\ attempt' = "list"
             \/ attempt \in {"initialize", "notify", "list"} /\ attempt' = "next"
        BY <1>7 DEF Initialize, Notify, RequestFails
    <2> QED
        BY <1>2, <1>3, <1>4, <2>1 DEF Trying
<1>8. CASE List
    <2>1. attempt = "list" /\ urls' = <<>> /\ attempt' = "idle"
        BY <1>8 DEF List
    <2>2. Len(urls') = 0
        BY <2>1
    <2> QED
        BY <1>2, <1>3, <1>4, <2>1, <2>2 DEF Trying
<1>9. CASE Check
    <2>1. attempt = "idle" /\ attempt' \in {"idle", "next"}
        BY <1>9 DEF Check
    <2> QED
        BY <2>1 DEF Trying
<1>10. CASE Serving \/ UNCHANGED mcpVars
    <2>1. attempt' = attempt /\ urls' = urls
        BY <1>10 DEF Serving, GoDown, ComeUp, mcpVars, monitor
    <2>2. ~Connecting \/ attempt = "idle"
        BY <2>1 DEF Connecting, NextUrl, AllFailed, Initialize, Notify, List, RequestFails, Check
    <2> QED
        BY <1>1, <1>2, <1>3, <1>4, <2>1, <2>2 DEF Trying
<1> QED
    BY <1>5, <1>6, <1>7, <1>8, <1>9, <1>10 DEF McpStep, Connecting

\* Every attempt to connect ends, as far as steps can tell (mcp_client.go,
\* Connect): it never has more than nine steps left, every request, answered
\* or failed, leaves it fewer, and nothing the server does gives it more.
THEOREM ConnectEnds == Spec => ConnectAdvances /\ [](RequestsLeft \in 0..9)
<1> DEFINE Inv == McpTypeOK /\ Trying
<1>1. Init => Inv
    BY McpTypeInit, McpAssumption DEF Init, McpInit, Trying
<1>2. Inv /\ [Next]_vars => Inv'
    BY StepOfMcp, McpTypeStep, McpAssumption, StepConnects
<1>3. Inv /\ Inv' /\ [Next]_vars =>
        [attempt # "idle" =>
            /\ Connecting => RequestsLeft' < RequestsLeft
            /\ RequestsLeft' <= RequestsLeft]_vars
    BY StepOfMcp, StepConnects
<1>4. Inv => RequestsLeft \in 0..9
    <2> SUFFICES ASSUME Inv PROVE RequestsLeft \in 0..9
        OBVIOUS
    <2>1. /\ attempt \in {"next", "initialize", "notify", "list", "idle"}
          /\ urls \in {<<>>, <<"mcp">>, <<"base", "mcp">>}
        BY DEF McpTypeOK
    <2>2. Len(urls) \in 0..2 /\ (attempt \in {"initialize", "notify", "list"} => Len(urls) \in 0..1)
        BY <2>1 DEF Trying
    <2>3. 4 * Len(urls) \in 0..8 /\ (Len(urls) \in 0..1 => 4 * Len(urls) \in 0..4)
        BY <2>2, Fourfold
    <2> QED
        BY <2>1, <2>2, <2>3, RequestsTable
<1> QED
    BY <1>1, <1>2, <1>3, <1>4, PTL DEF Spec, ConnectAdvances
=============================================================================
