------------------------------- MODULE Routing -------------------------------
(***************************************************************************)
(* Which tools and which prompt the analysis of an alert gets: the         *)
(* registries main builds from the configuration, one for each environment *)
(* (inheritDefaultMCPClients, registerTools, EnvRegistry), EnvAnalyzer,    *)
(* that picks one by the alert's environment, and Registry, that finds the *)
(* executor of a call, while MCP clients that were down when the program   *)
(* started connect later.                                                  *)
(*                                                                         *)
(* A block is what one place of the configuration says: the built-in tools *)
(* it enables, its MCP clients, the proxy of its tools and a prompt.       *)
(***************************************************************************)
EXTENDS Integers, SequencesExt

CONSTANTS
    Configuration, \* configurations: the top block, and one per environment
    AlertEnv,      \* what alerts carry as their environment
    ServerTools,   \* the tools of each MCP client's server
    Top            \* stands for the top block where others have their name

BuiltIn == {"prometheus", "victoriametrics", "kubernetes"}

IsBlock(b) == b.tools \subseteq BuiltIn /\ b.mcp \in Seq(DOMAIN ServerTools)

ASSUME RoutingAssumption ==
    \A cfg \in Configuration :
        /\ IsBlock(cfg.top)
        /\ \A env \in DOMAIN cfg.envs : IsBlock(cfg.envs[env])
        /\ Top \notin DOMAIN cfg.envs

VARIABLES
    config,     \* as the file has it
    connected,  \* MCP clients with a list of tools: the registry's name, theirs
    envOf,      \* the environment of the alert analyzed
    promptUsed, \* the prompt of its analysis
    listed,     \* the latest list of tools the model got: tools and executors
    ran         \* the executor of the latest call

routingVars == <<config, connected, envOf, promptUsed, listed, ran>>

NoAlert == "no alert"

\* What registerTools puts into a registry: a built-in tool or an MCP client,
\* the block that lists it, and the proxy it goes through.
Executor ==
    [kind : {"builtin", "mcp"}, name : BuiltIn \cup DOMAIN ServerTools,
     owner : DOMAIN config.envs \cup {Top},
     proxy : {"", config.top.proxy} \cup {config.envs[env].proxy : env \in DOMAIN config.envs}]

NotFound == [kind |-> "tool not found", name |-> "", owner |-> "", proxy |-> ""]

RoutingTypeOK ==
    /\ config \in Configuration
    /\ connected \subseteq (DOMAIN config.envs \cup {"default"}) \X DOMAIN ServerTools
    /\ envOf \in AlertEnv \cup {NoAlert}
    /\ \A pair \in listed : pair[2] \in Executor
    /\ ran # <<>> => ran[2] \in Executor \cup {NotFound}

-----------------------------------------------------------------------------
\* The first level that is not empty counts; "direct" stands for no proxy.
ResolveProxy(levels) ==
    LET set == SelectInSeq(levels, LAMBDA level : level # "") IN
    IF set = 0 \/ levels[set] = "direct" THEN "" ELSE levels[set]

\* Clients, and whose they are.
ClientsOf(block, owner) == [i \in DOMAIN block.mcp |-> [name |-> block.mcp[i], owner |-> owner]]

\* Faulty: environments with clients of their own get the top's as well.
InheritAlways(env) == ClientsOf(config.envs[env], env) \o ClientsOf(config.top, Top)

\* An environment without MCP clients has the top's.
inheritDefaultMCPClients(env) ==
    IF config.envs[env].mcp = <<>> THEN ClientsOf(config.top, Top) ELSE ClientsOf(config.envs[env], env)

\* The built-in tools first, in this order, then the MCP clients.  A proxy of a
\* tool's own, which would come before the block's, is left out.
registerTools(block, owner, clients, inherited) ==
    LET proxy      == ResolveProxy(<<block.proxy, inherited>>)
        Enabled(t) == IF t \in block.tools
                      THEN <<[kind |-> "builtin", name |-> t, owner |-> owner, proxy |-> proxy]>> ELSE <<>>
    IN  Enabled("prometheus") \o Enabled("victoriametrics") \o Enabled("kubernetes")
        \o [i \in DOMAIN clients |-> [kind |-> "mcp", name |-> clients[i].name, owner |-> clients[i].owner, proxy |-> proxy]]

\* The registry "default" is the top's, unless an environment has that name.
Registries ==
    [env \in DOMAIN config.envs \cup {"default"} |->
        IF env \in DOMAIN config.envs
        THEN registerTools(config.envs[env], env, inheritDefaultMCPClients(env), config.top.proxy)
        ELSE registerTools(config.top, Top, ClientsOf(config.top, Top), "")]

\* The registry of an alert's environment: default if it has none.
GetRegistry(env) == IF env # "" /\ env \in DOMAIN Registries THEN env ELSE "default"

\* EnvAnalyzer.Analyze: an environment's own prompt, if it has one.
PromptFor(env) ==
    IF env \in DOMAIN config.envs /\ config.envs[env].prompt # "" THEN config.envs[env].prompt ELSE config.top.prompt

-----------------------------------------------------------------------------
\* VictoriaMetrics is a PrometheusExecutor: its tools have the same names.
ToolsOf(registry, executor) ==
    IF executor.kind = "mcp"
    THEN IF <<registry, executor.name>> \in connected THEN ServerTools[executor.name] ELSE {}
    ELSE IF executor.name = "kubernetes" THEN {"kubernetes_get"} ELSE {"prometheus_query"}

RoutingInit ==
    /\ config \in Configuration
    /\ connected = {} /\ envOf = NoAlert /\ promptUsed = "" /\ listed = {} /\ ran = <<>>

\* Connect, when registerTools calls it or the health monitor does, in one of
\* the registries; each has a client of its own.
ClientConnects(registry, name) ==
    /\ \E i \in DOMAIN Registries[registry] :
          Registries[registry][i].kind = "mcp" /\ Registries[registry][i].name = name
    /\ <<registry, name>> \notin connected
    /\ connected' = connected \cup {<<registry, name>>}
    /\ UNCHANGED <<config, envOf, promptUsed, listed, ran>>

\* An analysis of an alert of this environment begins.
RouteAlert(env) ==
    /\ envOf' = env /\ promptUsed' = PromptFor(env)
    /\ listed' = {} /\ ran' = <<>>
    /\ UNCHANGED <<config, connected>>

\* Registry.ListTools, once for each request to the model.
OfferTools ==
    /\ envOf # NoAlert
    /\ LET registry == GetRegistry(envOf) IN
       listed' = UNION {{<<tool, executor>> : tool \in ToolsOf(registry, executor)} :
                           executor \in Range(Registries[registry])}
    /\ ran' = <<>>
    /\ UNCHANGED <<config, connected, envOf, promptUsed>>

\* Registry.Execute: the first executor that lists a tool of this name.
ExecuteTool(tool) ==
    LET registry == GetRegistry(envOf)
        first    == SelectInSeq(Registries[registry], LAMBDA x : tool \in ToolsOf(registry, x))
    IN  /\ ran = <<>>
        /\ ran' = IF first = 0 THEN <<tool, NotFound>> ELSE <<tool, Registries[registry][first]>>
        /\ UNCHANGED <<config, connected, envOf, promptUsed, listed>>

RoutingNext ==
    \/ \E registry \in DOMAIN Registries, name \in DOMAIN ServerTools : ClientConnects(registry, name)
    \/ \E env \in AlertEnv : RouteAlert(env)
    \/ OfferTools
    \/ \E pair \in listed : ExecuteTool(pair[1])

RoutingSpec == RoutingInit /\ [][RoutingNext]_routingVars

-----------------------------------------------------------------------------
\* Whose tools and words the analysis of an alert may use: its environment's,
\* or if the configuration has none of that name, the environment "default" or
\* else the top's.
Owner ==
    IF envOf # "" /\ envOf \in DOMAIN config.envs THEN envOf
    ELSE IF "default" \in DOMAIN config.envs THEN "default" ELSE Top

\* A tool the model was offered is found, whatever connects meanwhile, and a
\* call of it goes to the alert's own environment: to an executor of that
\* block, or to an MCP client of the top if the block lists none; through a
\* proxy that block or the top names; and to one that offered the tool itself,
\* unless one before it has connected since.  The prompt is that environment's
\* or the top's.
OwnToolsOnly ==
    /\ ran # <<>> =>
          LET by == ran[2] IN
          /\ by # NotFound
          /\ \/ by.owner = Owner
             \/ by.owner = Top /\ by.kind = "mcp" /\ config.envs[Owner].mcp = <<>>
          /\ by.proxy \in {"", config.top.proxy} \cup (IF Owner = Top THEN {} ELSE {config.envs[Owner].proxy})
          /\ ran \in listed \/ <<GetRegistry(envOf), by.name>> \in connected
    /\ promptUsed \in {"", config.top.prompt} \cup (IF envOf \in DOMAIN config.envs THEN {config.envs[envOf].prompt} ELSE {})
=============================================================================
