--------------------------- MODULE Investigation ---------------------------
(***************************************************************************)
(* One analysis (Analyzer) with the tools it has: the built-in ones, which *)
(* are there from the start, and those of an MCP client (McpClient), which *)
(* the health monitor may connect at any time.  The registry               *)
(* (internal/tooling/registry.go) looks every call up by its name, anew.   *)
(***************************************************************************)
EXTENDS Providers, McpClient

CONSTANT Builtin  \* tools of the other executors of the registry

ASSUME ToolAssumption == Builtin \cup McpTool \subseteq Tool

vars == <<analysis, mcpVars>>

Init == AnalyzerInit /\ McpInit

\* Registry.ListTools: what all executors have now.
ListTools == Builtin \cup tools

\* The workers start after main's connection attempt and its first check.
Start ==
    /\ health # "unknown"
    /\ Begin(ListTools)
    /\ UNCHANGED mcpVars


\* Registry.Execute: a built-in tool may report an error.
CallBuiltin ==
    /\ todo # <<>> /\ Head(todo).tool \in Builtin
    /\ \E ok \in BOOLEAN : Execute(ok)

\* MCPClient.Execute: an error of the transport is an error of the tool.  A
\* response may bring a session ID here too; the server's does not.
CallMcp ==
    /\ todo # <<>> /\ Head(todo).tool \in tools \ Builtin
    /\ \E ok \in {FALSE, CallSucceeds} : Execute(ok)

\* No executor has it: "tool not found".
CallUnknown ==
    /\ todo # <<>> /\ Head(todo).tool \notin ListTools
    /\ Execute(FALSE)

UseTool == (CallBuiltin \/ CallMcp \/ CallUnknown) /\ UNCHANGED mcpVars

Talk == Converse /\ UNCHANGED mcpVars

Connect == Connecting /\ UNCHANGED analysis

Next ==
    \/ Start
    \/ Talk
    \/ UseTool
    \/ Connect
    \/ Serving /\ UNCHANGED analysis

\* Requests to the provider, to tools and to MCP servers have timeouts, and
\* the monitor's ticker goes on.
Spec == Init /\ [][Next]_vars /\ WF_vars(Talk \/ UseTool) /\ WF_vars(Connect)

TypeOK == AnalyzerTypeOK /\ McpTypeOK

-----------------------------------------------------------------------------
\* A tool the model was offered stays callable until the analysis is over:
\* the registry looks it up in the client's present list, which the monitor
\* replaces only while it is empty.
OfferedStaysCallable == at # "idle" => offered \subseteq ListTools

\* Every analysis comes to an end, with an answer or an error, whatever the
\* model asks for and whatever its tools and their servers do.
Terminates == at # "idle" ~> at = "done"
=============================================================================
