------------------------------ MODULE Providers ------------------------------
(***************************************************************************)
(* What the two LLM providers (internal/analyzer/llm) make of a request    *)
(* of the analyzer: the history in the form of Anthropic's messages or of  *)
(* OpenAI's chat completions, and what of it those services accept.  A     *)
(* wire message is its role and its blocks; texts are left out but for     *)
(* whether there is one.                                                   *)
(***************************************************************************)
EXTENDS Analyzer

Uses(calls) == [k \in DOMAIN calls |-> [type |-> "tool_use", id |-> calls[k].id]]

Text(written) == IF written = 0 THEN <<>> ELSE <<[type |-> "text"]>>

\* Faulty: the result of a failed call is left out.
AnthropicMessageOfSuccess(m) ==
    IF m.role = "assistant" THEN [role |-> "assistant", content |-> Text(m.text) \o Uses(m.calls)]
    ELSE IF m.role = "tool"
    THEN [role |-> "user",
          content |-> IF m.ok THEN <<[type |-> "tool_result", id |-> m.call.id]>> ELSE <<>>]
    ELSE [role |-> m.role, content |-> <<[type |-> "text"]>>]

\* A tool result becomes a message of the user; a text only a block if there is one.
AnthropicMessage(m) ==
    IF m.role = "assistant" THEN [role |-> "assistant", content |-> Text(m.text) \o Uses(m.calls)]
    ELSE IF m.role = "tool"
    THEN [role |-> "user", content |-> <<[type |-> "tool_result", id |-> m.call.id]>>]
    ELSE [role |-> m.role, content |-> <<[type |-> "text"]>>]

convertToAnthropicMessages(ms) == [i \in DOMAIN ms |-> AnthropicMessage(ms[i])]

\* The calls are a field of the message they are in.
OpenAIMessage(m) ==
    [role    |-> m.role,
     calls   |-> IF m.role = "assistant" THEN Uses(m.calls) ELSE <<>>,
     answers |-> IF m.role = "tool" THEN {m.call.id} ELSE {}]

\* The system prompt goes first.
convertToOpenAIMessages(ms) ==
    [i \in 1..Len(ms) + 1 |->
       IF i = 1 THEN [role |-> "system", calls |-> <<>>, answers |-> {}]
       ELSE OpenAIMessage(ms[i - 1])]

-----------------------------------------------------------------------------
(* The services.                                                           *)

\* Anthropic takes neighbouring messages of one role for one turn: that of i.
TurnOf(wire, i) ==
    {j \in DOMAIN wire : \A k \in DOMAIN wire :
        (i <= k /\ k <= j) \/ (j <= k /\ k <= i) => wire[k].role = wire[i].role}

\* The blocks of a type in a turn: the message each is in, and its place there.
Blocks(wire, turn, type) ==
    UNION {{j} \X {k \in DOMAIN wire[j].content : wire[j].content[k].type = type} : j \in turn}

IdOf(wire, b) == wire[b[1]].content[b[2]].id

Ids(wire, blocks) == {IdOf(wire, b) : b \in blocks}

Distinct(wire, blocks) == \A b, c \in blocks : IdOf(wire, b) = IdOf(wire, c) => b = c

\* The user's turn comes first, no message is empty, and the tool results of a
\* turn are those the turn before asks for: all of them and no other, each once.
AnthropicAccepts(wire) ==
    /\ wire # <<>> /\ wire[1].role = "user"
    /\ Blocks(wire, TurnOf(wire, 1), "tool_result") = {}
    /\ \A i \in DOMAIN wire :
          /\ wire[i].content # <<>>
          /\ wire[i].role = "assistant" /\ (i = Len(wire) \/ wire[i + 1].role = "user") =>
                LET asked == Blocks(wire, TurnOf(wire, i), "tool_use")
                    given == IF i = Len(wire) THEN {}
                             ELSE Blocks(wire, TurnOf(wire, i + 1), "tool_result")
                IN  /\ Ids(wire, given) = Ids(wire, asked)
                    /\ Distinct(wire, asked) /\ Distinct(wire, given)

\* The messages right after one with tool calls answer them, all of them and
\* each once, and nothing else answers anything.
OpenAIAccepts(wire) ==
    \A i \in DOMAIN wire :
        /\ LET n == Len(wire[i].calls)
               id(k) == wire[i].calls[k].id
           IN  /\ i + n <= Len(wire)
               /\ UNION {wire[i + k].answers : k \in 1..n} = {id(k) : k \in 1..n}
               /\ \A k, l \in 1..n : id(k) = id(l) => k = l
        /\ wire[i].answers # {} =>
              \E j \in 1..(i - 1) : wire[j].role = "assistant" /\ i - j <= Len(wire[j].calls)

\* Whatever the model asked for, whichever calls failed and however often the
\* history was compacted, every request is one that Anthropic and OpenAI
\* accept: each call has its result where they look for it.  (Both refuse a
\* history in which one is missing, and so would every later request be.)  And
\* the newest results are in it whole.
RequestsWellFormed ==
    at = "chat" =>
        /\ AnthropicAccepts(convertToAnthropicMessages(messages))
        /\ OpenAIAccepts(convertToOpenAIMessages(messages))
        /\ RecentResultsKept
=============================================================================
