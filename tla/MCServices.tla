----------------------------- MODULE MCServices -----------------------------
(***************************************************************************)
(* Small instances for TLC of what goes on around the pipeline.  The parts *)
(* share nothing with each other, so each is run alone: "part" chooses     *)
(* one of those a configuration looks at, and the others stay in a state   *)
(* they begin in.                                                          *)
(***************************************************************************)
EXTENDS SlackListener, TelegramListener, Clients, Credentials, Reviews, Statistics, Dashboard, Receivers, Routing

CONSTANT Part  \* parts to look at

VARIABLE part

outside(p) ==
    /\ p # "slack" => UNCHANGED slackVars
    /\ p # "telegram" => UNCHANGED telegramVars
    /\ p # "clients" => UNCHANGED clientVars
    /\ p # "credentials" => UNCHANGED credentialVars
    /\ p # "reviews" => UNCHANGED reviewVars
    /\ p # "statistics" => UNCHANGED statisticsVars
    /\ p # "dashboard" => UNCHANGED dashboardVars
    /\ p # "receivers" => UNCHANGED receiverVars
    /\ p # "routing" => UNCHANGED routingVars

allVars == <<slackVars, telegramVars, clientVars, credentialVars, reviewVars,
             statisticsVars, dashboardVars, receiverVars, routingVars, part>>

-----------------------------------------------------------------------------
LOCAL Item(what, channel, time, author, inThread, mentions) ==
    [kind |-> what, channel |-> channel, ts |-> time, by |-> author,
     thread |-> inThread, mention |-> mentions]

MCAsked   == Item("post", "ops", 1, "user", TRUE, TRUE)
MCTop     == Item("post", "dev", 1, "user", FALSE, TRUE)
MCChat    == Item("post", "dev", 1, "user", TRUE, FALSE)
MCForeign == Item("post", "hr", 1, "user", TRUE, TRUE)
MCBot     == Item("post", "ops", 2, "bot", TRUE, TRUE)
MCCommand == Item("command", "ops", 3, "user", TRUE, FALSE)
MCEdit    == Item("edit", "ops", 4, "user", TRUE, TRUE)

MCConversations ==
    {{MCAsked, MCChat}, {MCTop, MCCommand}, {MCChat, MCForeign}, {MCBot, MCEdit}}

MCSubscriptions == {{"message"}, {"app_mention"}, {"message", "app_mention"}}

\* maxRetries is three for the LLM providers and five for the messengers.
MCRetries == [c \in Client |-> IF c = "openai" THEN 0 ELSE 1]

LOCAL About(header, asked) == [override |-> header, mention |-> asked]
LOCAL NoHeader == About(None, None)

MCAlerts ==
    {NoHeader,
     About([of |-> "ops", by |-> "name"], None),
     About([of |-> "dev", by |-> "id"], None),
     About([of |-> "ops", by |-> "id"], [channel |-> "dev", thread |-> 7])}

LOCAL Wrong(what, whose, where, how) == [name |-> what, team |-> whose, pod |-> where, severity |-> how]

MCAlarms ==
    {Wrong("disk", "db", "p1", "warning"), Wrong("disk", "web", "p2", "critical"), Wrong("cpu", "db", "p1", "info")}

\* One name, and nothing critical.
MCGroup == {Wrong("disk", "db", "p1", "info"), Wrong("disk", "web", "p2", "warning")}

LOCAL Section(enabled, clients, through, words) ==
    [tools |-> enabled, mcp |-> clients, proxy |-> through, prompt |-> words]

LOCAL Usual   == Section({"prometheus"}, <<"wiki">>, "proxy", "prompt")
LOCAL Prod    == Section({"prometheus", "victoriametrics"}, <<>>, "", "prompt of prod")
LOCAL Staging == Section({"victoriametrics", "kubernetes"}, <<"grafana", "deploys">>, "direct", "")
LOCAL Spare   == Section({}, <<"deploys">>, "spare proxy", "")

MCConfigurations ==
    {[top |-> Usual, envs |-> <<>>],
     [top |-> Usual, envs |-> [env \in {"prod", "staging"} |-> IF env = "prod" THEN Prod ELSE Staging]],
     [top |-> Usual, envs |-> [env \in {"default", "staging"} |-> IF env = "default" THEN Spare ELSE Staging]]}

\* Two of the servers have a tool of the same name.
MCServerTools ==
    [c \in {"wiki", "grafana", "deploys"} |->
        CASE c = "wiki" -> {"search"} [] c = "grafana" -> {"query"} [] OTHER -> {"query", "history"}]

\* Presses differ in nothing but what they ask for: one asks for an
\* environment, the others for all.
LOCAL APress == CHOOSE p \in Press : TRUE

MCScopes ==
    {[a \in Attempt |-> IF a = APress THEN s ELSE All] : s \in Environment}

\* Nothing set, a status, and both.
MCFilters ==
    {[env |-> "", status |-> ""], [env |-> "", status |-> "firing"], [env |-> "default", status |-> "resolved"]}

-----------------------------------------------------------------------------
LOCAL AtRest(p) ==
    \/ p = part
    \/ p = "slack" /\ posted = {MCBot, MCEdit} /\ subscribed = {"message"} /\ knowsItself
    \/ p = "clients" /\ client = "slack" /\ home = None /\ alert = [s \in Sender |-> NoHeader]
    \/ p = "credentials" /\ style = "gcp"
    \/ p = "reviews" /\ reviewAge[All] = 0
    \/ p = "dashboard" /\ filter = [env |-> "", status |-> ""]
    \/ p = "receivers" /\ source = "grafana"
    \/ p = "routing" /\ config.envs = <<>>

Init ==
    /\ part \in Part
    /\ SlackInit /\ AtRest("slack")
    /\ TelegramInit
    /\ ClientsInit /\ AtRest("clients")
    /\ CredentialsInit /\ AtRest("credentials")
    /\ ReviewsInit /\ scope \in MCScopes /\ AtRest("reviews")
    /\ StatisticsInit
    /\ DashboardInit /\ filter \in MCFilters /\ AtRest("dashboard")
    /\ ReceiversInit /\ AtRest("receivers")
    /\ RoutingInit /\ AtRest("routing")

Next ==
    /\ UNCHANGED part
    /\ outside(part)
    /\ \/ part = "slack" /\ SlackNext
       \/ part = "telegram" /\ TelegramNext
       \/ part = "clients" /\ ClientsNext
       \/ part = "credentials" /\ CredentialsNext
       \/ part = "reviews" /\ ReviewsNext
       \/ part = "statistics" /\ StatisticsNext
       \/ part = "dashboard" /\ DashboardNext
       \/ part = "receivers" /\ ReceiversNext
       \/ part = "routing" /\ RoutingNext

\* The goroutines that go on: the listeners and what answers them, whoever
\* sends and its platform, one for each tool call, the review loop, its
\* ticker, and one for each press of the button.
Spec ==
    /\ Init /\ [][Next]_allVars
    /\ WF_slackVars(part = "slack" /\ Listen)
    /\ WF_slackVars(part = "slack" /\ Deliver)
    /\ WF_telegramVars(part = "telegram" /\ Poll)
    /\ WF_telegramVars(part = "telegram" /\ Serve)
    /\ \A s \in Sender : WF_clientVars(part = "clients" /\ (Work(s) \/ Platform(s)))
    /\ \A c \in ToolCall : WF_credentialVars(part = "credentials" /\ alive /\ (Step(c) \/ Service(c)))
    /\ WF_reviewVars(part = "reviews" /\ Hour)
    /\ WF_reviewVars(part = "reviews" /\ RunLoop)
    /\ \A p \in Attempt : WF_reviewVars(part = "reviews" /\ RunReview(p))

-----------------------------------------------------------------------------
\* The variables of every part keep their types.
TypesHold ==
    /\ part = "slack" => SlackTypeOK
    /\ part = "telegram" => TelegramTypeOK
    /\ part = "clients" => ClientsTypeOK
    /\ part = "credentials" => CredentialsTypeOK
    /\ part = "reviews" => ReviewsTypeOK
    /\ part = "statistics" => StatisticsTypeOK
    /\ part = "dashboard" => DashboardTypeOK
    /\ part = "receivers" => ReceiversTypeOK
    /\ part = "routing" => RoutingTypeOK

\* Whatever the network and the platforms do in between, each mention is
\* handed on in the end, and each update that reached the bot is heard.
EveryMentionHeard == MentionHandedOn /\ UpdateHeard

\* Every message and every tool call comes to an end, however often it is
\* throttled and whatever the others run into meanwhile.
EveryCallEnds == CallsEnd /\ CallsAnswered
=============================================================================
