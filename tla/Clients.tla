------------------------------- MODULE Clients -------------------------------
(***************************************************************************)
(* The program as a client of the platforms it talks to: SendAlert,        *)
(* SendAnalysisReply, SendAnalysis and SendError of the three messengers   *)
(* (internal/messenger) and Chat of the two LLM providers                  *)
(* (internal/analyzer/llm).  All of them build a request, send it, and     *)
(* send it again when the platform answers 429; they differ in where the   *)
(* message goes, how often they try and what they take for an answer.      *)
(*                                                                         *)
(* Teams has two modes: "webhook" and "bot" (Bot Framework).  Texts, cards *)
(* and conversations are left out: a message is where it went and which    *)
(* call it came from.                                                      *)
(***************************************************************************)
EXTENDS Integers, Sequences

CONSTANTS
    Sender,   \* goroutines that send, a worker each
    Client,   \* the clients looked at
    Retries,  \* per client, maxRetries
    Channel,  \* channels, as the platform identifies them
    Hook,     \* the channel behind Teams' incoming webhook
    Alert,    \* bound: what is sent about
    None

Messenger == {"slack", "telegram", "webhook", "bot"}
Teams     == {"webhook", "bot"}

\* A channel as someone writes it down: by its ID, or by a name that only
\* Slack resolves.
Written == [of : Channel, by : {"id", "name"}]
ById(channel) == [of |-> channel, by |-> "id"]

\* Where a mention came from.
Origin == [channel : Channel, thread : Nat]

ASSUME ClientsAssumption ==
    /\ Client \subseteq Messenger \cup {"anthropic", "openai"}
    /\ Retries \in [Client -> Nat]
    /\ Hook \in Channel
    /\ Alert \subseteq [override : Written \cup {None}, mention : Origin \cup {None}]
    /\ None \notin Channel \cup Written \cup Origin

\* A message's place; thread is the message it answers, 0 for none.
Place == [channel : Written \cup {None}, thread : Nat]

\* Every sender makes two calls at most, one after the other.
Call == Sender \X (1..2)

VARIABLES
    client,  \* the client in use
    home,    \* its default channel, None if there is none
    alert,   \* what each sender sends about
    count,   \* how many calls it made
    kind,    \* its latest call
    sending, \* where that is
    tries,   \* attempt
    reply,   \* the response to the latest request
    ref,     \* the MessageRef it got for its alert
    stage,   \* how the calls ended
    served,  \* how often the platform did what they ask for
    wall     \* what is on the platform: messages and edits, as they came

clientVars == <<client, home, alert, count, kind, sending, tries, reply, ref, stage, served, wall>>
setting    == <<client, home, alert>>

NoRef == [channel |-> None, id |-> -1]

ClientsTypeOK ==
    /\ client \in Client
    /\ home \in Written \cup {None}
    /\ alert \in [Sender -> Alert]
    /\ count \in [Sender -> 0..2]
    /\ kind \in [Sender -> {"none", "alert", "analysis", "error", "reply", "chat"}]
    /\ sending \in [Sender -> {"idle", "attempt", "sent", "answered", "backoff"}]
    /\ tries \in [Sender -> Nat]
    /\ reply \in [Sender -> {"none", "ok", "garbled", "throttled", "refused", "lost"}]
    /\ ref \in [Sender -> [channel : Written \cup {None}, id : Int]]
    /\ stage \in [Call -> {"new", "open", "ok", "failed"}]
    /\ served \in [Call -> Nat]
    /\ wall \in Seq([by : Call, place : Place, edits : Nat])

\* Telegram's chats are numbers in the configuration too, and so are Teams'
\* conversations.
ClientsInit ==
    /\ client \in Client
    /\ home \in Written \cup {None}
    /\ (client # "slack" /\ home # None) => home.by = "id"
    /\ alert \in [Sender -> Alert]
    /\ count = [s \in Sender |-> 0]
    /\ kind = [s \in Sender |-> "none"]
    /\ sending = [s \in Sender |-> "idle"]
    /\ tries = [s \in Sender |-> 0]
    /\ reply = [s \in Sender |-> "none"]
    /\ ref = [s \in Sender |-> NoRef]
    /\ stage = [c \in Call |-> "new"]
    /\ served = [c \in Call |-> 0]
    /\ wall = <<>>

Current(s) == <<s, count[s]>>

-----------------------------------------------------------------------------
(* Where a message goes.                                                   *)

\* An alert names a channel in a header of its webhook (override), or it is a
\* mention from a channel and, maybe, a thread.
FromMention(s) == alert[s].mention # None

\* resolveTarget of Slack.
SlackTarget(s) ==
    IF FromMention(s) THEN [channel |-> ById(alert[s].mention.channel), thread |-> alert[s].mention.thread]
    ELSE [channel |-> IF alert[s].override # None THEN alert[s].override ELSE home, thread |-> 0]

\* resolveTarget of Telegram: what is not a number is passed over.
TelegramTarget(s) ==
    IF FromMention(s) THEN [channel |-> ById(alert[s].mention.channel), thread |-> alert[s].mention.thread]
    ELSE [channel |-> IF alert[s].override # None /\ alert[s].override.by = "id"
                      THEN alert[s].override ELSE home,
          thread |-> 0]

\* resolveConversationID: a mention's conversation or the configured one.
Conversation(s) == IF FromMention(s) THEN ById(alert[s].mention.channel) ELSE home

\* SendAlert, SendAnalysis and SendError.  Only Telegram treats them
\* differently: its alerts answer no message.
TargetOf(s) ==
    IF client = "slack" THEN SlackTarget(s)
    ELSE IF client = "telegram"
         THEN [TelegramTarget(s) EXCEPT !.thread = IF kind[s] = "alert" THEN 0 ELSE @]
    ELSE IF client = "webhook" THEN [channel |-> ById(Hook), thread |-> 0]
    ELSE IF client = "bot" THEN [channel |-> Conversation(s), thread |-> 0]
    ELSE [channel |-> None, thread |-> 0]

\* SendAnalysisReply: Slack answers in the alert's thread, a webhook posts
\* anew, Telegram and the bot edit the alert's message.
ReplyPlace(s) ==
    IF client = "slack" THEN [channel |-> ref[s].channel, thread |-> ref[s].id]
    ELSE IF client = "webhook" THEN [channel |-> ById(Hook), thread |-> 0]
    ELSE [channel |-> ref[s].channel, thread |-> 0]

PlaceOf(s) == IF kind[s] = "reply" THEN ReplyPlace(s) ELSE TargetOf(s)
Edits(s)   == IF kind[s] = "reply" /\ client \in {"telegram", "bot"} THEN ref[s].id ELSE 0

-----------------------------------------------------------------------------
(* A call.                                                                 *)

\* A reply needs the ref of an alert that was sent.
Begin(s, k) ==
    /\ sending[s] = "idle" /\ count[s] < 2
    /\ IF client \in Messenger THEN k \in {"alert", "analysis", "error", "reply"} ELSE k = "chat"
    /\ k = "reply" => ref[s] # NoRef
    /\ count' = [count EXCEPT ![s] = @ + 1]
    /\ kind' = [kind EXCEPT ![s] = k]
    /\ sending' = [sending EXCEPT ![s] = "attempt"]
    /\ tries' = [tries EXCEPT ![s] = 0]
    /\ reply' = [reply EXCEPT ![s] = "none"]
    /\ stage' = [stage EXCEPT ![<<s, count[s] + 1>>] = "open"]
    /\ UNCHANGED <<setting, ref, served, wall>>

\* The end of a call that reports failure.
Failed(s) ==
    /\ sending' = [sending EXCEPT ![s] = "idle"]
    /\ stage' = [stage EXCEPT ![Current(s)] = "failed"]
    /\ UNCHANGED <<setting, count, kind, tries, reply, ref, served, wall>>

\* Teams' bot needs a conversation, and for a reply also the message to edit:
\* without, updateCard falls back on the webhook's URL, which the bot has not.
NoWhere(s) ==
    /\ client = "bot"
    /\ PlaceOf(s).channel = None \/ (kind[s] = "reply" /\ ref[s].id = 0)

\* A request cannot be made: nowhere to send it, or no token for it.
CannotSend(s) ==
    /\ sending[s] = "attempt"
    /\ client = "bot"
    /\ Failed(s)

Transmit(s) ==
    /\ sending[s] = "attempt"
    /\ ~NoWhere(s)
    /\ sending' = [sending EXCEPT ![s] = "sent"]
    /\ UNCHANGED <<setting, count, kind, tries, reply, ref, stage, served, wall>>

Answered(s, r) ==
    /\ sending' = [sending EXCEPT ![s] = "answered"]
    /\ reply' = [reply EXCEPT ![s] = r]
    /\ UNCHANGED <<setting, count, kind, tries, ref, stage>>

\* The platform does what it is asked.  Its answer may get lost on the way
\* back or be something the client cannot read.
Perform(s) ==
    /\ sending[s] = "sent"
    /\ client \in Messenger => PlaceOf(s).channel # None
    /\ served' = [served EXCEPT ![Current(s)] = @ + 1]
    /\ wall' = Append(wall, [by |-> Current(s), place |-> PlaceOf(s), edits |-> Edits(s)])
    /\ \E r \in {"ok", "garbled", "lost"} : Answered(s, r)

\* Or it does nothing: too many requests, an error (also one with status 200),
\* a connection that breaks on the way there, a context that is cancelled.
Refuse(s) ==
    /\ sending[s] = "sent"
    /\ \E r \in {"throttled", "refused", "lost"} : Answered(s, r)
    /\ UNCHANGED <<served, wall>>

\* The message this call put on the platform.
Mine(s) == CHOOSE i \in DOMAIN wall : wall[i].by = Current(s)

\* Faulty: the ref has the channel as it was asked for.
NewRefAsAsked(s) ==
    [channel |-> IF client \in Teams THEN Conversation(s) ELSE PlaceOf(s).channel,
     id |-> IF client = "webhook" \/ reply[s] = "garbled" THEN 0 ELSE Mine(s)]

\* The MessageRef of SendAlert.  Slack's answer has the channel's ID; a
\* webhook's answer and one that cannot be read have no activity ID.
NewRef(s) ==
    [channel |-> IF client \in Teams THEN Conversation(s)
                 ELSE IF client = "slack" THEN ById(PlaceOf(s).channel.of)
                 ELSE PlaceOf(s).channel,
     id |-> IF client = "webhook" \/ reply[s] = "garbled" THEN 0 ELSE Mine(s)]

\* Teams takes any status 2xx for success, the others must read the answer.
Success(s) == reply[s] = "ok" \/ (reply[s] = "garbled" /\ client \in Teams)

Succeed(s) ==
    /\ sending[s] = "answered" /\ Success(s)
    /\ sending' = [sending EXCEPT ![s] = "idle"]
    /\ stage' = [stage EXCEPT ![Current(s)] = "ok"]
    /\ ref' = IF kind[s] = "alert" THEN [ref EXCEPT ![s] = NewRef(s)] ELSE ref
    /\ UNCHANGED <<setting, count, kind, tries, reply, served, wall>>

\* Faulty: a request without an answer is made again as well.
ThrottledOrLost(s) == reply[s] \in {"throttled", "lost"}

\* 429.  Anthropic's client takes the last one for an answer, OpenAI's every
\* one; the messengers' wait even after the last.
Throttled(s) ==
    /\ reply[s] = "throttled"
    /\ client = "openai" => FALSE
    /\ client = "anthropic" => tries[s] < Retries[client]

ReadFailure(s) ==
    /\ sending[s] = "answered" /\ ~Success(s) /\ ~Throttled(s)
    /\ Failed(s)

WaitBackoff(s) ==
    /\ sending[s] = "answered" /\ Throttled(s)
    /\ sending' = [sending EXCEPT ![s] = "backoff"]
    /\ UNCHANGED <<setting, count, kind, tries, reply, ref, stage, served, wall>>

\* Faulty: the attempts are not counted.
AgainForEver(s) ==
    /\ sending[s] = "backoff"
    /\ sending' = [sending EXCEPT ![s] = "attempt"]
    /\ UNCHANGED <<setting, count, kind, tries, reply, ref, stage, served, wall>>

\* The next round of the loop.
Again(s) ==
    /\ sending[s] = "backoff" /\ tries[s] < Retries[client]
    /\ tries' = [tries EXCEPT ![s] = @ + 1]
    /\ sending' = [sending EXCEPT ![s] = "attempt"]
    /\ UNCHANGED <<setting, count, kind, reply, ref, stage, served, wall>>

\* "max retries exceeded", or the context is cancelled while waiting.
GiveUp(s) == sending[s] = "backoff" /\ Failed(s)

Work(s) ==
    \/ CannotSend(s) \/ Transmit(s)
    \/ Succeed(s) \/ ReadFailure(s) \/ WaitBackoff(s) \/ Again(s) \/ GiveUp(s)

Platform(s) == Perform(s) \/ Refuse(s)

ClientsNext ==
    \E s \in Sender :
        \/ \E k \in {"alert", "analysis", "error", "reply", "chat"} : Begin(s, k)
        \/ Work(s)
        \/ Platform(s)

ClientsSpec == ClientsInit /\ [][ClientsNext]_clientVars

-----------------------------------------------------------------------------
Owed == INSTANCE Calls

\* Every call to a messenger or a provider ends once, posts its message (or
\* pays for its completion) at most once over all its retries, and reports
\* success only if it did: the clients implement Calls.
ClientsDeliver == Owed!CallsSpec

\* The ref SendAlert returns is the alert's message, named the way the
\* platform's later events name it, whatever the channel was called in the
\* header or the configuration.
RefIsOwn(s) ==
    (ref[s] # NoRef /\ ref[s].id # 0) =>
        /\ ref[s].id \in DOMAIN wall
        /\ wall[ref[s].id].by[1] = s
        /\ wall[ref[s].id].edits = 0
        /\ ref[s].channel = ById(wall[ref[s].id].place.channel.of)

\* A message by a sender whose alert asks for a place.
Landed(i) ==
    LET a == alert[wall[i].by[1]]
        p == wall[i].place
    IN  IF a.mention # None THEN p.channel.of = a.mention.channel
        ELSE (a.override # None /\ (client = "telegram" => a.override.by = "id"))
                => p.channel.of = a.override.of

\* Whatever Slack's and Telegram's messengers post or edit, be it an alert, its
\* analysis or an error, is in the channel the mention came from or, for a
\* webhook, in the one its header names; an analysis that answers a ref is at
\* the alert's own message; and the ref is one that the pending store finds
\* again by what the platform's events say.
MessagesInPlace ==
    /\ \A s \in Sender : RefIsOwn(s)
    /\ client \in {"slack", "telegram"} =>
        \A i \in DOMAIN wall :
            /\ Landed(i)
            /\ LET s == wall[i].by[1] IN
               (wall[i].by = Current(s) /\ kind[s] = "reply") =>
                    ref[s].id = (IF client = "slack" THEN wall[i].place.thread ELSE wall[i].edits)

\* A call comes to an end, however often it is throttled.
CallsEnd ==
    <>[](\A s \in Sender : sending[s] = "idle")
=============================================================================
