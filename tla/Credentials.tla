----------------------------- MODULE Credentials -----------------------------
(***************************************************************************)
(* The executors that log in before they ask: VSphereExecutor (a session), *)
(* GCPMonitoringExecutor, AzureMonitorExecutor and TeamsMessenger (OAuth   *)
(* tokens that expire).  All workers share one client and its cached       *)
(* token; each call here is one tool call, or one attempt of Teams'        *)
(* doRequestWithRetry.                                                     *)
(*                                                                         *)
(* Tokens are numbered as the service issues them, 0 is the empty string.  *)
(***************************************************************************)
EXTENDS Integers

CONSTANTS
    ToolCall, \* bound: tool calls, each in a goroutine of its own
    Style,    \* the clients looked at
    MaxAges,  \* bound: how often the cached token gets old
    MaxDrops, \* bound: tokens the service forgets early, and empty ones
    Nobody

ASSUME CredentialsAssumption ==
    /\ Style \subseteq {"gcp", "azure", "teams", "vsphere"}
    /\ MaxAges \in Nat /\ MaxDrops \in Nat
    /\ Nobody \notin ToolCall

Torn == -1

VARIABLES
    style,      \* the client in use
    token,      \* the cached token
    fresh,      \* its expiry is more than a minute away
    lock,       \* who holds mu
    at,         \* where each call is
    held,       \* the token it sends
    relogged,   \* vSphere: it has logged in again
    response,   \* the service's answer
    toolStage,  \* how the calls ended
    toolServed, \* how often the service did what they ask for
    issued,     \* the service: tokens issued,
    accepted,   \* and those it accepts
    agings,     \* how often the cached token got old
    drops,      \* how often the service forgot a token early
    empties,    \* how often it issued an empty one
    tears,      \* how often something torn was sent instead of a token
    alive       \* the process has not crashed

cache   == <<token, fresh>>
service == <<issued, accepted, agings, drops, empties>>
credentialVars == <<style, cache, lock, at, held, relogged, response, toolStage, toolServed, service, tears, alive>>

CredentialsTypeOK ==
    /\ style \in Style
    /\ token \in Nat /\ issued \in Nat
    /\ fresh \in BOOLEAN /\ alive \in BOOLEAN
    /\ lock \in ToolCall \cup {Nobody}
    /\ at \in [ToolCall -> {"new", "ensure", "wait", "login", "store", "read", "request", "answered", "done"}]
    /\ held \in [ToolCall -> Int]
    /\ relogged \in [ToolCall -> BOOLEAN]
    /\ response \in [ToolCall -> {"none", "ok", "garbled", "unauthorized", "error"}]
    /\ toolStage \in [ToolCall -> {"new", "open", "ok", "failed"}]
    /\ toolServed \in [ToolCall -> Nat]
    /\ accepted \subseteq Nat
    /\ agings \in Nat /\ drops \in Nat /\ empties \in Nat /\ tears \in Nat

CredentialsInit ==
    /\ style \in Style
    /\ token = 0 /\ fresh = FALSE /\ alive = TRUE
    /\ lock = Nobody
    /\ at = [c \in ToolCall |-> "new"]
    /\ held = [c \in ToolCall |-> 0]
    /\ relogged = [c \in ToolCall |-> FALSE]
    /\ response = [c \in ToolCall |-> "none"]
    /\ toolStage = [c \in ToolCall |-> "new"]
    /\ toolServed = [c \in ToolCall |-> 0]
    /\ issued = 0 /\ accepted = {} /\ agings = 0 /\ drops = 0 /\ empties = 0 /\ tears = 0

OAuth == style # "vsphere"

-----------------------------------------------------------------------------
Goto(c, p) == at' = [at EXCEPT ![c] = p]

\* The call ends; whoever has the mutex gives it back (deferred Unlock).
End(c, how) ==
    /\ Goto(c, "done")
    /\ toolStage' = [toolStage EXCEPT ![c] = how]

Release(c) == lock' = IF lock = c THEN Nobody ELSE lock

\* Execute finds the tool and its arguments are there.
Start(c) ==
    /\ at[c] = "new"
    /\ Goto(c, "ensure")
    /\ toolStage' = [toolStage EXCEPT ![c] = "open"]
    /\ UNCHANGED <<style, cache, lock, held, relogged, response, toolServed, service, tears, alive>>

\* An unknown tool, a missing argument, a vm_id that is none: an error result
\* without a request.
Reject(c) ==
    /\ at[c] = "ensure"
    /\ End(c, "failed")
    /\ UNCHANGED <<style, cache, lock, held, relogged, response, toolServed, service, tears, alive>>

\* vSphere looks whether there is a token without the mutex.
SkipLogin(c) ==
    /\ ~OAuth /\ at[c] = "ensure" /\ token # 0
    /\ Goto(c, "read")
    /\ UNCHANGED <<style, cache, lock, held, relogged, response, toolStage, toolServed, service, tears, alive>>

\* The cached token will do for the next minute.
TokenValid == token # 0 /\ fresh

\* ensureToken finds a token.  Only GCP's returns it.  (What it looks at is
\* only written under the mutex, so taking it and giving it back is one step.)
UseCached(c) ==
    /\ OAuth /\ at[c] = "ensure" /\ lock = Nobody /\ TokenValid
    /\ held' = [held EXCEPT ![c] = IF style = "gcp" THEN token ELSE @]
    /\ Goto(c, IF style = "gcp" THEN "request" ELSE "read")
    /\ UNCHANGED <<style, cache, lock, relogged, response, toolStage, toolServed, service, tears, alive>>

\* It finds none: authenticate will ask for one, whatever another call gets
\* while this one waits for the mutex.
WantLogin(c) ==
    /\ ~OAuth /\ at[c] = "ensure" /\ token = 0
    /\ Goto(c, "wait")
    /\ UNCHANGED <<style, cache, lock, held, relogged, response, toolStage, toolServed, service, tears, alive>>

\* Faulty: whether a token is needed is decided before the mutex is taken.
LockAnyway(c) ==
    /\ at[c] = (IF OAuth THEN "ensure" ELSE "wait") /\ lock = Nobody
    /\ lock' = c
    /\ Goto(c, "login")
    /\ UNCHANGED <<style, cache, held, relogged, response, toolStage, toolServed, service, tears, alive>>

\* ensureToken finds no valid token and keeps the mutex while it asks for one;
\* vSphere's authenticate does not look again.
Lock(c) ==
    /\ lock = Nobody
    /\ IF OAuth THEN at[c] = "ensure" /\ ~TokenValid ELSE at[c] = "wait"
    /\ lock' = c
    /\ Goto(c, "login")
    /\ UNCHANGED <<style, cache, held, relogged, response, toolStage, toolServed, service, tears, alive>>

\* The service issues a token.
Login(c) ==
    /\ at[c] = "login"
    /\ issued' = issued + 1
    /\ accepted' = accepted \cup {issued + 1}
    /\ held' = [held EXCEPT ![c] = issued + 1]
    /\ Goto(c, "store")
    /\ UNCHANGED <<style, cache, lock, relogged, response, toolStage, toolServed, agings, drops, empties, tears, alive>>

\* Status 200 without a token.  vSphere and GCP look, Azure and Teams do not.
LoginEmpty(c) ==
    /\ at[c] = "login" /\ style \in {"azure", "teams"} /\ drops + empties < MaxDrops
    /\ empties' = empties + 1
    /\ token' = 0 /\ fresh' = TRUE
    /\ Release(c)
    /\ Goto(c, "read")
    /\ UNCHANGED <<style, held, relogged, response, toolStage, toolServed, issued, accepted, agings, drops, tears, alive>>

\* No key, no connection, another status, a body that cannot be read.
LoginFails(c) ==
    /\ at[c] = "login"
    /\ End(c, "failed")
    /\ Release(c)
    /\ UNCHANGED <<style, cache, held, relogged, response, toolServed, service, tears, alive>>

Store(c) ==
    /\ at[c] = "store"
    /\ token' = held[c] /\ fresh' = TRUE
    /\ Release(c)
    /\ Goto(c, IF style = "gcp" THEN "request" ELSE "read")
    /\ UNCHANGED <<style, held, relogged, response, toolStage, toolServed, service, tears, alive>>

\* The request takes the token from the field again: Teams under the mutex,
\* Azure and vSphere without.
ReadToken(c) ==
    /\ at[c] = "read"
    /\ style = "teams" => lock = Nobody
    /\ held' = [held EXCEPT ![c] = token]
    /\ Goto(c, "request")
    /\ UNCHANGED <<style, cache, lock, relogged, response, toolStage, toolServed, service, tears, alive>>

\* While another call writes the field, pointer and length may be of
\* different strings: not a token, or, over the empty string, a nil pointer.
Racing(c) ==
    /\ at[c] = "read" /\ style \in {"azure", "vsphere"}
    /\ \E d \in ToolCall \ {c} : at[d] = "store"

ReadTorn(c) ==
    /\ Racing(c)
    /\ held' = [held EXCEPT ![c] = Torn]
    /\ tears' = tears + 1
    /\ Goto(c, "request")
    /\ UNCHANGED <<style, cache, lock, relogged, response, toolStage, toolServed, service, alive>>

\* vSphere's check sees the length of a first token, its request the pointer
\* of the empty string.  Nothing recovers a worker.
Crash(c) ==
    /\ at[c] = "ensure" /\ style = "vsphere" /\ token = 0
    /\ \E d \in ToolCall \ {c} : at[d] = "store"
    /\ alive' = FALSE
    /\ UNCHANGED <<style, cache, lock, at, held, relogged, response, toolStage, toolServed, service, tears>>

-----------------------------------------------------------------------------
\* The service answers the request, or nothing does.
Authorized(c) ==
    /\ at[c] = "request" /\ held[c] \in accepted
    /\ toolServed' = [toolServed EXCEPT ![c] = @ + 1]
    /\ \E a \in {"ok", "garbled", "error"} : response' = [response EXCEPT ![c] = a]
    /\ Goto(c, "answered")
    /\ UNCHANGED <<style, cache, lock, held, relogged, toolStage, service, tears, alive>>

Unauthorized(c) ==
    /\ at[c] = "request" /\ held[c] \notin accepted
    /\ response' = [response EXCEPT ![c] = "unauthorized"]
    /\ Goto(c, "answered")
    /\ UNCHANGED <<style, cache, lock, held, relogged, toolStage, toolServed, service, tears, alive>>

Breaks(c) ==
    /\ at[c] = "request"
    /\ response' = [response EXCEPT ![c] = "error"]
    /\ Goto(c, "answered")
    /\ UNCHANGED <<style, cache, lock, held, relogged, toolStage, toolServed, service, tears, alive>>

\* Faulty: a request without an answer is made again too.
SecondTryAnyway(c) == style = "vsphere" /\ ~relogged[c] /\ response[c] \in {"unauthorized", "error"}

\* vSphere's doGet logs in once more.
SecondTry(c) == style = "vsphere" /\ ~relogged[c] /\ response[c] = "unauthorized"

Relogin(c) ==
    /\ at[c] = "answered" /\ SecondTry(c)
    /\ relogged' = [relogged EXCEPT ![c] = TRUE]
    /\ response' = [response EXCEPT ![c] = "none"]
    /\ Goto(c, "wait")
    /\ UNCHANGED <<style, cache, lock, held, toolStage, toolServed, service, tears, alive>>

\* A body that does not parse is an error to vSphere; GCP's and Azure's
\* formatters return it as text, and Teams' attempt does not look at it.
Answer(c) ==
    /\ at[c] = "answered" /\ ~SecondTry(c)
    /\ End(c, IF response[c] = "ok" \/ (response[c] = "garbled" /\ OAuth) THEN "ok" ELSE "failed")
    /\ UNCHANGED <<style, cache, lock, held, relogged, response, toolServed, service, tears, alive>>

-----------------------------------------------------------------------------
\* Less than a minute is left of the cached token.
Age ==
    /\ OAuth /\ fresh /\ agings < MaxAges
    /\ fresh' = FALSE /\ agings' = agings + 1
    /\ UNCHANGED <<style, token, lock, at, held, relogged, response, toolStage, toolServed, issued, accepted, drops, empties, tears, alive>>

\* An OAuth token runs out.  The minute is enough for whoever found it valid
\* to get its request through.
Expire(t) ==
    /\ OAuth /\ t \in accepted
    /\ t = token => ~fresh
    /\ \A c \in ToolCall :
          /\ at[c] \in {"request", "store"} => held[c] # t
          /\ at[c] = "read" => token # t
    /\ accepted' = accepted \ {t}
    /\ UNCHANGED <<style, cache, lock, at, held, relogged, response, toolStage, toolServed, issued, agings, drops, empties, tears, alive>>

\* The service forgets a token before its time, or a session is idle for too long.
Drop(t) ==
    /\ t \in accepted /\ drops + empties < MaxDrops
    /\ accepted' = accepted \ {t} /\ drops' = drops + 1
    /\ UNCHANGED <<style, cache, lock, at, held, relogged, response, toolStage, toolServed, issued, agings, empties, tears, alive>>

Step(c) ==
    \/ Start(c) \/ Reject(c) \/ SkipLogin(c) \/ WantLogin(c) \/ Lock(c) \/ UseCached(c)
    \/ LoginFails(c) \/ Store(c) \/ ReadToken(c) \/ ReadTorn(c) \/ Crash(c) \/ Relogin(c) \/ Answer(c)

Service(c) == Login(c) \/ LoginEmpty(c) \/ Authorized(c) \/ Unauthorized(c) \/ Breaks(c)

CredentialsNext ==
    /\ alive
    /\ \/ \E c \in ToolCall : Step(c) \/ Service(c)
       \/ Age
       \/ \E t \in accepted : Expire(t) \/ Drop(t)

CredentialsSpec == CredentialsInit /\ [][CredentialsNext]_credentialVars

-----------------------------------------------------------------------------
Answers == INSTANCE Calls WITH Call <- ToolCall, stage <- toolStage, served <- toolServed

\* Every tool call is answered once, asks the service for the same thing at
\* most once although it may log in again in between, and its result is no
\* error only if the service did it: the executors implement Calls.
ToolsDeliver == Answers!CallsSpec

\* However many workers find the token old at the same time, one of them gets
\* a new one: tokens are asked for once per expiry.
LoginsShared ==
    OAuth => issued <= 1 + agings + empties

\* A token that expires makes no call fail: OAuth tokens are replaced in time,
\* and vSphere logs in again.  Every try of a call that is refused in the end
\* has cost the service a token it forgot before its time, or an empty one, or
\* it was sent something torn.
Tries == IF OAuth THEN 1 ELSE 2

ExpirySurvived ==
    \A c \in ToolCall :
        (at[c] = "done" /\ response[c] = "unauthorized") => drops + empties + tears >= Tries

\* Expired tokens cost neither a second login nor a call.
ExpiryHandled == LoginsShared /\ ExpirySurvived

\* Every call that was started ends, whatever the others run into while they
\* log in, unless the process crashes.
CallsAnswered ==
    <>[](alive => \A c \in ToolCall : at[c] \in {"new", "done"})
=============================================================================
