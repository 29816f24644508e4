----------------------------- MODULE McpClient ------------------------------
(***************************************************************************)
(* One MCP client (internal/tooling/mcp_client.go) with the server it is   *)
(* configured for, and the health monitor that reconnects it               *)
(* (healthcheck.go, health_monitor.go).  main.go connects once at startup  *)
(* and then lets the monitor check in regular intervals, so at most one    *)
(* connection attempt is under way; workers call the tools meanwhile.      *)
(* Neither url nor sessionID is protected by the client's mutex.           *)
(*                                                                         *)
(* The server is the environment: it serves at one of the two paths the    *)
(* client knows, goes down and comes back, and forgets its sessions then.  *)
(***************************************************************************)
EXTENDS Integers, Sequences

CONSTANTS
    Configured,   \* the URLs that may be configured: "base", "mcp"
    McpTool,      \* the tools the server may have
    MaxOutages    \* bound: how often the server goes down

ASSUME McpAssumption ==
    /\ Configured \subseteq {"base", "mcp"}
    /\ MaxOutages \in Nat

VARIABLES
    config,    \* the configured URL: "mcp" when its path ends in /mcp
    home,      \* the URL the server serves at
    serves,    \* the tools it has
    up,        \* whether it answers
    epoch,     \* its incarnation, which its sessions belong to
    url,       \* c.url
    session,   \* c.sessionID, 0 for none
    tools,     \* c.tools
    attempt,   \* where the connection attempt is
    urls,      \* the URLs it has left to try
    checking,  \* whether it is the monitor's and not main's
    health,    \* the status in the monitor's snapshot
    met        \* history: the URL of the last completed handshake

server  == <<config, home, serves, up, epoch>>
client  == <<url, session, tools>>
monitor == <<attempt, urls, checking, health>>
mcpVars == <<server, client, monitor, met>>

McpTypeOK ==
    /\ config \in Configured
    /\ home \in {"base", "mcp"}
    /\ serves \subseteq McpTool
    /\ up \in BOOLEAN
    /\ epoch \in 1..MaxOutages + 1
    /\ url \in {"base", "mcp"}
    /\ session \in 0..MaxOutages + 1
    /\ tools \subseteq McpTool
    /\ attempt \in {"next", "initialize", "notify", "list", "idle"}
    /\ urls \in {<<>>, <<"mcp">>, <<"base", "mcp">>}
    /\ checking \in BOOLEAN
    /\ health \in {"unknown", "ok", "failed"}
    /\ met \in {"", "base", "mcp"}

\* The URLs Connect tries: the current one, then /mcp below it.
Candidates(u) == IF u = "mcp" THEN <<"mcp">> ELSE <<"base", "mcp">>

\* main connects before anything else runs.  A URL configured with /mcp is
\* the server's; without it, the server may be at either path.
McpInit ==
    /\ config \in Configured
    /\ home \in IF config = "mcp" THEN {"mcp"} ELSE {"base", "mcp"}
    /\ serves \in SUBSET McpTool
    /\ up \in BOOLEAN
    /\ epoch = 1
    /\ url = config
    /\ session = 0
    /\ tools = {}
    /\ attempt = "next"
    /\ urls = Candidates(config)
    /\ checking = FALSE
    /\ health = "unknown"
    /\ met = ""

-----------------------------------------------------------------------------
(* The server.                                                             *)

GoDown ==
    /\ up /\ epoch <= MaxOutages
    /\ up' = FALSE /\ epoch' = epoch + 1
    /\ UNCHANGED <<config, home, serves, client, monitor, met>>

\* It may come back with other tools.
ComeUp ==
    /\ ~up
    /\ up' = TRUE
    /\ serves' \in SUBSET McpTool
    /\ UNCHANGED <<config, home, epoch, client, monitor, met>>

\* A POST to c.url reaches the server, which knows the session it carries.
Reached == up /\ url = home
Served == Reached /\ session = epoch

-----------------------------------------------------------------------------
(* Connect and handshake.                                                  *)

\* c.url = u, and so it stays when the handshake fails.
NextUrl ==
    /\ attempt = "next" /\ urls # <<>>
    /\ url' = Head(urls) /\ urls' = Tail(urls)
    /\ attempt' = "initialize"
    /\ UNCHANGED <<server, session, tools, checking, health, met>>

\* "all endpoints failed"; at startup main logs it and goes on.
AllFailed ==
    /\ attempt = "next" /\ urls = <<>>
    /\ attempt' = "idle"
    /\ health' = IF checking THEN "failed" ELSE health
    /\ UNCHANGED <<server, client, urls, checking, met>>

\* initialize starts a new session; its ID is in the response's headers.  A
\* request fails only while the server is away or the address is wrong: the
\* error of a server that is there would end the attempt in the same way.
Initialize ==
    /\ attempt = "initialize" /\ Reached
    /\ session' = epoch
    /\ attempt' = "notify"
    /\ UNCHANGED <<server, url, tools, urls, checking, health, met>>

Notify ==
    /\ attempt = "notify" /\ Served
    /\ attempt' = "list"
    /\ UNCHANGED <<server, client, urls, checking, health, met>>

\* tools/list completes the handshake, also when the list is empty; only the
\* health check minds.
List ==
    /\ attempt = "list" /\ Served
    /\ tools' = serves
    /\ met' = url
    /\ attempt' = "idle" /\ urls' = <<>>
    /\ health' = IF ~checking THEN health
                  ELSE IF serves = {} THEN "failed" ELSE "ok"
    /\ UNCHANGED <<server, url, session, checking>>

\* A request of the handshake failed: Connect goes on to the next URL.
RequestFails ==
    /\ \/ attempt = "initialize" /\ ~Reached
       \/ attempt \in {"notify", "list"} /\ ~Served
    /\ attempt' = "next"
    /\ UNCHANGED <<server, client, urls, checking, health, met>>

\* Faulty: the client is probed by connecting it again.
CheckAlways ==
    /\ attempt = "idle"
    /\ checking' = TRUE
    /\ attempt' = "next" /\ urls' = Candidates(url)
    /\ UNCHANGED <<server, client, health, met>>

\* HealthCheck: a client with tools passes without a request, and one
\* without any connects.
Check ==
    /\ attempt = "idle"
    /\ checking' = TRUE
    /\ IF tools # {}
       THEN health' = "ok" /\ UNCHANGED <<attempt, urls>>
       ELSE attempt' = "next" /\ urls' = Candidates(url) /\ UNCHANGED health
    /\ UNCHANGED <<server, client, met>>

Connecting ==
    NextUrl \/ AllFailed \/ Initialize \/ Notify \/ List \/ RequestFails \/ Check

Serving == GoDown \/ ComeUp

-----------------------------------------------------------------------------
\* tools/call, by a worker: it succeeds when the server knows the session.
\* (What the tool itself reports may still be an error.)
CanCall(t) == t \in tools
CallSucceeds == Served

McpSpec == McpInit /\ [][Connecting \/ Serving]_mcpVars

\* The monitor's ticker never stops, and its requests time out.
FairMcpSpec == McpSpec /\ WF_mcpVars(Connecting)

-----------------------------------------------------------------------------
\* Workers only ever call a server that completed the handshake, and call it
\* where it did so: as long as there are tools to call, no attempt to connect
\* is under way that could move the unprotected url from under them.
CallsWhereItMet ==
    tools # {} => attempt = "idle" /\ url = met /\ url = home

\* "MCP client unavailable, will retry on health checks" (main.go) and
\* "reconnects if no tools were discovered yet" (MCPClient.HealthCheck): the
\* same for every URL the client accepts.
Reconnects == <>[](up /\ serves # {}) => <>(tools # {})
=============================================================================
