------------------------------ MODULE Analyzer ------------------------------
(***************************************************************************)
(* One LLM analysis, Analyzer.Analyze of internal/analyzer/analyzer.go:    *)
(* the dialog in which the model asks for tool calls and gets their        *)
(* results, until it answers, the iterations or the tokens run out, or a   *)
(* request fails.  What the model says is arbitrary.  How a tool call goes *)
(* is left to the module that composes the analyzer with its tools.        *)
(*                                                                         *)
(* Texts are known by the iteration they were written in, tool results by  *)
(* how much is left of them.                                               *)
(***************************************************************************)
EXTENDS Integers, Sequences, FiniteSets

CONSTANTS
    Tool,           \* names the model may call, listed or made up
    Category,       \* per tool, the prefix of its name
    MaxIterations,  \* maxIterations
    KeepRecent,     \* keepRecentToolResults; 0 keeps everything
    SoftLimit,      \* contextSoftLimitTokens; 0 is no limit
    MaxCalls,       \* bound: tool calls in one response
    Tokens          \* bound: what a request may cost

ASSUME AnalyzerAssumption ==
    /\ DOMAIN Category = Tool
    /\ MaxIterations \in Nat \ {0}
    /\ KeepRecent \in Nat
    /\ SoftLimit \in Nat
    /\ MaxCalls \in Nat \ {0}
    /\ Tokens \subseteq Nat

VARIABLES
    at,        \* where Analyze is
    iteration, \* i
    messages,  \* the message history
    offered,   \* availableTools
    todo,      \* calls of the last response that are still to be executed
    used,      \* toolsUsed
    spent,     \* totalInput + totalOutput
    last,      \* the iteration that wrote lastContent, 0 if none did
    result     \* what Analyze returns

dialog == <<iteration, messages, todo, used, spent, last>>
analysis == <<at, dialog, offered, result>>

\* A tool call: its ID (response and position) and the tool it names.
Call == [id : (1..MaxIterations) \X (1..MaxCalls), tool : Tool]

\* An entry of the history.  A response carries calls, a tool result the call
\* it belongs to: as the tool gave it (up to maxToolOutputChars), or summarized.
Message ==
    [role : {"user"}]
    \cup [role : {"assistant"}, calls : Seq(Call), text : 0..MaxIterations]
    \cup [role : {"tool"}, call : Call, is : {"full", "summary"}, ok : BOOLEAN]

\* How Analyze ended and the iteration its text is from; 0 is no text, for
\* which a canned one is used when the analysis was cut short.
Result ==
    [how : {"answered", "budget", "iterations"}, text : 0..MaxIterations]
    \cup [how : {"pending", "error"}]

AnalyzerTypeOK ==
    /\ at \in {"idle", "ask", "chat", "tools", "done"}
    /\ iteration \in 0..MaxIterations
    /\ messages \in Seq(Message)
    /\ offered \subseteq Tool
    /\ todo \in Seq(Call)
    /\ used \in Seq([tool : Tool, ok : BOOLEAN])
    /\ spent \in Nat
    /\ last \in 0..MaxIterations
    /\ result \in Result

AnalyzerInit ==
    /\ at = "idle"
    /\ iteration = 0
    /\ messages = <<>>
    /\ offered = {}
    /\ todo = <<>>
    /\ used = <<>>
    /\ spent = 0
    /\ last = 0
    /\ result = [how |-> "pending"]

-----------------------------------------------------------------------------
ToolAt(ms) == {i \in DOMAIN ms : ms[i].role = "tool"}

\* How many tool results there are from position i on.
Newer(ms, i) == Cardinality({j \in ToolAt(ms) : j >= i})

\* compactToolHistory: all but the newest KeepRecent tool results become a
\* line each.  Nothing is removed.
Compacted(ms) ==
    [i \in DOMAIN ms |->
       IF i \in ToolAt(ms) /\ Newer(ms, i) > KeepRecent /\ KeepRecent > 0
       THEN [ms[i] EXCEPT !.is = "summary"] ELSE ms[i]]

\* Analyze lists the tools once and writes the alert into the first message.
Begin(listed) ==
    /\ at = "idle"
    /\ at' = "ask"
    /\ messages' = <<[role |-> "user"]>>
    /\ offered' = listed
    /\ UNCHANGED <<iteration, todo, used, spent, last, result>>

\* The top of the loop: compact, and send the request.  The last one goes
\* without tools, though its history has calls and results all the same; what
\* a service makes of that is not modelled.
Ask ==
    /\ at = "ask"
    /\ iteration < MaxIterations
    /\ messages' = Compacted(messages)
    /\ at' = "chat"
    /\ UNCHANGED <<iteration, todo, used, spent, last, offered, result>>

\* Any error of the provider ends the analysis.
ChatFails ==
    /\ at = "chat"
    /\ at' = "done"
    /\ result' = [how |-> "error"]
    /\ UNCHANGED <<dialog, offered>>

\* Faulty: a response without text wipes out the text there was.
HearOverwriting(text, tokens) ==
    /\ at = "chat"
    /\ spent' = spent + tokens
    /\ last' = IF text THEN iteration + 1 ELSE 0

\* A response as the loop takes notice of it, whatever comes next.
Hear(text, tokens) ==
    /\ at = "chat"
    /\ spent' = spent + tokens
    /\ last' = IF text THEN iteration + 1 ELSE last

OverLimit == SoftLimit > 0 /\ spent' > SoftLimit

\* Too many tokens: the best text so far, whatever the response says.
StopEarly(text, tokens) ==
    /\ Hear(text, tokens)
    /\ OverLimit
    /\ at' = "done"
    /\ result' = [how |-> "budget", text |-> last']
    /\ UNCHANGED <<iteration, messages, todo, used, offered>>

\* The model is done, or asks for nothing: its answer is taken as it is.
Answer(text, tokens) ==
    /\ Hear(text, tokens)
    /\ ~OverLimit
    /\ at' = "done"
    /\ result' = [how |-> "answered", text |-> IF text THEN iteration + 1 ELSE 0]
    /\ UNCHANGED <<iteration, messages, todo, used, offered>>

\* The model asks for tool calls; also in the last iteration, where it was
\* offered none, they are executed.
RequestTools(text, tokens, tools) ==
    LET calls == [k \in DOMAIN tools |-> [id |-> <<iteration + 1, k>>, tool |-> tools[k]]] IN
    /\ Hear(text, tokens)
    /\ ~OverLimit
    /\ messages' = Append(messages, [role |-> "assistant", calls |-> calls,
                                     text |-> IF text THEN iteration + 1 ELSE 0])
    /\ todo' = calls
    /\ at' = "tools"
    /\ UNCHANGED <<iteration, used, offered, result>>

\* Faulty: a failed call is made again.
ExecuteRetrying(ok) ==
    /\ at = "tools" /\ todo # <<>> /\ ok
    /\ used' = Append(used, [tool |-> Head(todo).tool, ok |-> ok])
    /\ messages' = Append(messages, [role |-> "tool", call |-> Head(todo), is |-> "full", ok |-> ok])
    /\ todo' = Tail(todo)
    /\ UNCHANGED <<at, iteration, spent, last, offered, result>>

\* tools.Execute of the next call.  An error, too, becomes a result.
Execute(ok) ==
    /\ at = "tools" /\ todo # <<>>
    /\ used' = Append(used, [tool |-> Head(todo).tool, ok |-> ok])
    /\ messages' = Append(messages, [role |-> "tool", call |-> Head(todo), is |-> "full", ok |-> ok])
    /\ todo' = Tail(todo)
    /\ UNCHANGED <<at, iteration, spent, last, offered, result>>

NextIteration ==
    /\ at = "tools" /\ todo = <<>>
    /\ iteration' = iteration + 1
    /\ at' = "ask"
    /\ UNCHANGED <<messages, todo, used, spent, last, offered, result>>

\* The loop is over without an answer: the best text so far.
RunOut ==
    /\ at = "ask"
    /\ iteration = MaxIterations
    /\ at' = "done"
    /\ result' = [how |-> "iterations", text |-> last]
    /\ UNCHANGED <<dialog, offered>>

\* What a provider may return: text or none, tool calls or none.
Respond ==
    \E text \in BOOLEAN, tokens \in Tokens :
        \/ StopEarly(text, tokens)
        \/ Answer(text, tokens)
        \/ \E n \in 1..MaxCalls : \E tools \in [1..n -> Tool] : RequestTools(text, tokens, tools)

\* Everything but the beginning and the tools.
Converse == Ask \/ ChatFails \/ Respond \/ NextIteration \/ RunOut

-----------------------------------------------------------------------------
\* Faulty: the last call of a category decides.
TraceOfLast(us) ==
    LET of(c) == {i \in DOMAIN us : Category[us[i].tool] = c}
    IN [c \in {Category[us[i].tool] : i \in DOMAIN us} |->
          [ok    |-> us[CHOOSE i \in of(c) : \A j \in of(c) : j <= i].ok,
           count |-> Cardinality(of(c))]]

\* buildResult: per category, whether any call succeeded, and how many
\* there were.
Trace(us) ==
    LET of(c) == {i \in DOMAIN us : Category[us[i].tool] = c}
    IN [c \in {Category[us[i].tool] : i \in DOMAIN us} |->
          [ok    |-> \E i \in of(c) : us[i].ok,
           count |-> Cardinality(of(c))]]

-----------------------------------------------------------------------------
\* The context stays bounded and the model keeps what it saw last: a request
\* carries the newest KeepRecent tool results in full and no older one.
RecentResultsKept ==
    (at = "chat" /\ KeepRecent > 0) =>
        \A i \in ToolAt(messages) :
            messages[i].is = "summary" <=> Newer(messages, i) > KeepRecent

\* Once the token budget is exceeded nothing more is asked or executed.
BudgetKept == (SoftLimit > 0 /\ spent > SoftLimit) => at = "done"

\* The trace shown to the user tells the truth about the dialog: per category
\* the number of results the model got, and success if one of them was.
TraceHonest ==
    at = "done" =>
        LET of(c) == {i \in ToolAt(messages) : Category[messages[i].call.tool] = c} IN
        \A c \in {Category[t] : t \in Tool} :
            IF of(c) = {} THEN c \notin DOMAIN Trace(used)
            ELSE Trace(used)[c] = [ok    |-> \E i \in of(c) : messages[i].ok,
                                   count |-> Cardinality(of(c))]

\* An analysis that was cut short returns the latest text the model wrote,
\* and a canned one only if it wrote none.
BestEffort ==
    result.how \in {"budget", "iterations"} =>
        \A i \in DOMAIN messages :
            messages[i].role = "assistant" => messages[i].text <= result.text
=============================================================================
