--------------------------- MODULE SlackListener ---------------------------
(***************************************************************************)
(* Slack's side of a conversation with the bot and the goroutine that      *)
(* listens to it (internal/messenger/slack.go): socketModeLoop opens a     *)
(* websocket, listenWebSocket reads one envelope after the other,          *)
(* acknowledges it and then handles it, and markEventSeen drops what was   *)
(* seen before.  A mention that passes every filter is handed to           *)
(* messengerHandler of main.go, where module Pipeline takes it up.         *)
(*                                                                         *)
(* Slack is the environment.  For one post it sends an event per           *)
(* subscription, in any order, sends again what was not acknowledged, and  *)
(* may drop the connection at any time.                                    *)
(***************************************************************************)
EXTENDS Integers, Sequences, Functions

CONSTANTS
    Conversations,   \* the sets of posts there may be: see PostAssumption
    Listened,        \* listenChannels; none for every channel
    Subscriptions,   \* the sets of events the app may be subscribed to
    MaxFaults        \* bound: how many connections break and events are repeated

Post == UNION Conversations

\* A post has its channel and ts, which are its own, is by a user or by a bot
\* (this one, too), is a reply in a thread or not, and mentions the bot or not.
\* So does an edit of one, with a ts of its own, and an invocation of /analyze.
ASSUME PostAssumption ==
    /\ \A p \in Post : /\ DOMAIN p = {"kind", "channel", "ts", "by", "thread", "mention"}
                       /\ p.kind \in {"post", "edit", "command"}
                       /\ p.by \in {"user", "bot"}
                       /\ {p.thread, p.mention} \subseteq BOOLEAN
    /\ \A c \in Conversations : \A p, q \in {r \in c : r.kind = "post"} :
          p.channel = q.channel /\ p.ts = q.ts => p = q
    /\ Subscriptions \subseteq SUBSET {"message", "app_mention"}
    /\ MaxFaults \in Nat

VARIABLES
    subscribed,     \* the events the Slack app is subscribed to
    posted,         \* what is posted
    due,            \* the envelopes Slack has no acknowledgement for
    conn,           \* the websocket: "closed", "open" or "broken"
    wire,           \* the envelopes sent on it and not read
    offered,        \* those that were sent on it at all
    acks,           \* the acknowledgements under way on it
    faults,         \* how many there were
    step,           \* where the listener is
    cur,            \* the envelope it holds
    recentEvents,   \* the (channel, ts) seen within recentEventTTL
    knowsItself,    \* whether resolveBotUserID found the bot's ID
    cancelled,      \* whether Stop has cancelled the context
    handed          \* history: how often each post was handed on

slack    == <<subscribed, posted, due>>
socket   == <<conn, wire, offered, acks>>
listener == <<step, cur, recentEvents, knowsItself, cancelled>>
slackVars == <<slack, socket, faults, listener, handed>>

Envelope == [type : {"message", "app_mention", "command"}, of : Post]

SlackTypeOK ==
    /\ subscribed \in Subscriptions
    /\ posted \in Conversations
    /\ {due, offered, acks} \subseteq SUBSET Envelope
    /\ conn \in {"closed", "open", "broken"}
    /\ wire \in Seq(Envelope)
    /\ faults \in 0..MaxFaults
    /\ step \in {"dial", "loop", "read", "ack", "handle", "fetch", "stopped"}
    /\ step \in {"ack", "handle", "fetch"} => cur \in Envelope
    /\ recentEvents \subseteq {<<p.channel, p.ts>> : p \in Post}
    /\ {knowsItself, cancelled} \subseteq BOOLEAN
    /\ handed \in [Post -> Nat]

\* "Slack will fire BOTH for a single user mention."
Events(p) ==
    {e \in Envelope :
        /\ e.of = p
        /\ IF p.kind = "command"
           THEN e.type = "command"
           ELSE e.type \in subscribed /\ (e.type = "app_mention" => p.kind = "post" /\ p.mention)}

\* Start: it may fail to resolve the bot's ID, and goes on without it.
SlackInit ==
    /\ subscribed \in Subscriptions
    /\ posted \in Conversations
    /\ due = UNION {Events(p) : p \in posted}
    /\ conn = "closed" /\ wire = <<>> /\ offered = {} /\ acks = {}
    /\ faults = 0
    /\ step = "dial" /\ cur = <<>>
    /\ recentEvents = {}
    /\ knowsItself \in BOOLEAN
    /\ cancelled = FALSE
    /\ handed = [p \in Post |-> 0]

-----------------------------------------------------------------------------
(* Slack.                                                                  *)

Send(e) ==
    /\ conn = "open" /\ e \in due \ offered
    /\ wire' = Append(wire, e)
    /\ offered' = offered \cup {e}
    /\ UNCHANGED <<slack, conn, acks, faults, listener, handed>>

\* The listener takes its time to acknowledge, and Slack loses patience.
Repeat(e) ==
    /\ conn = "open" /\ e \in due \cap offered
    /\ faults < MaxFaults
    /\ faults' = faults + 1
    /\ wire' = Append(wire, e)
    /\ UNCHANGED <<slack, conn, offered, acks, listener, handed>>

AckArrives(e) ==
    /\ e \in acks
    /\ acks' = acks \ {e}
    /\ due' = due \ {e}
    /\ UNCHANGED <<subscribed, posted, conn, wire, offered, faults, listener, handed>>

\* Acknowledgements under way are lost; what was sent may still be read.
Break ==
    /\ conn = "open" /\ faults < MaxFaults
    /\ faults' = faults + 1
    /\ conn' = "broken" /\ acks' = {}
    /\ UNCHANGED <<slack, wire, offered, listener, handed>>

-----------------------------------------------------------------------------
(* socketModeLoop and listenWebSocket.                                     *)

Hang(next) ==
    /\ step' = next
    /\ conn' = "closed" /\ wire' = <<>> /\ offered' = {} /\ acks' = {}

\* openConnection and DialContext; the loop comes back while they fail.
Open ==
    /\ step = "dial" /\ ~cancelled
    /\ conn' = "open" /\ step' = "loop"
    /\ UNCHANGED <<slack, wire, offered, acks, faults, cur, recentEvents, knowsItself,
                   cancelled, handed>>

\* Both loops look at the context before each round, and only then.
Stopped ==
    /\ step \in {"dial", "loop"} /\ cancelled
    /\ Hang("stopped")
    /\ UNCHANGED <<slack, faults, cur, recentEvents, knowsItself, cancelled, handed>>

Round ==
    /\ step = "loop" /\ ~cancelled
    /\ step' = "read"
    /\ UNCHANGED <<slack, socket, faults, cur, recentEvents, knowsItself, cancelled, handed>>

\* ReadJSON returns an envelope; it does not notice the context.
Read ==
    /\ step = "read" /\ wire # <<>>
    /\ cur' = Head(wire) /\ wire' = Tail(wire)
    /\ step' = "ack"
    /\ UNCHANGED <<slack, conn, offered, acks, faults, recentEvents, knowsItself,
                   cancelled, handed>>

ReadFails ==
    /\ step = "read" /\ conn = "broken"
    /\ Hang("dial")
    /\ UNCHANGED <<slack, faults, cur, recentEvents, knowsItself, cancelled, handed>>

\* Written, though perhaps to nobody.
Ack ==
    /\ step = "ack"
    /\ acks' = IF conn = "open" THEN acks \cup {cur} ELSE acks
    /\ step' = "handle"
    /\ UNCHANGED <<slack, conn, wire, offered, faults, cur, recentEvents, knowsItself,
                   cancelled, handed>>

\* Faulty: the duplicates' filter comes before the acknowledgement.
AckFailsMarked ==
    /\ step = "ack" /\ conn = "broken"
    /\ recentEvents' = recentEvents \cup {<<cur.of.channel, cur.of.ts>>}
    /\ Hang("dial") /\ cur' = <<>>
    /\ UNCHANGED <<slack, faults, knowsItself, cancelled, handed>>

\* The envelope is not handled: Slack sends it again.
AckFails ==
    /\ step = "ack" /\ conn = "broken"
    /\ Hang("dial") /\ cur' = <<>>
    /\ UNCHANGED <<slack, faults, recentEvents, knowsItself, cancelled, handed>>

-----------------------------------------------------------------------------
(* handleEventPayload and handleSlashCommandPayload.                       *)

\* Faulty: a ts is taken to be unique.
KeyOfTs == <<"", cur.of.ts>>

Key == <<cur.of.channel, cur.of.ts>>

\* Neither message_changed and message_deleted nor a command are looked up.
IsPost == cur.of.kind = "post"

\* Faulty: an app_mention is always handled.
DuplicateMessage == cur.type = "message" /\ IsPost /\ Key \in recentEvents

Duplicate == IsPost /\ Key \in recentEvents

isListenChannel(c) == Listened = {} \/ c \in Listened

\* handleSlashCommandPayload: /analyze, wherever it listens.
WantedCommand == cur.type = "command" /\ isListenChannel(cur.of.channel)

\* The filters after the duplicates' one.  (The bot's own posts carry a
\* bot_id like those of any other bot.)
Wanted ==
    \/ WantedCommand
    \/ /\ IsPost
       /\ cur.of.by = "user"
       /\ isListenChannel(cur.of.channel)
       /\ \/ cur.type = "app_mention"
          \/ knowsItself /\ cur.of.mention /\ cur.of.thread

\* markEventSeen, which comes before every other filter.
Mark == recentEvents' = recentEvents \cup IF IsPost THEN {Key} ELSE {}

Ignore ==
    /\ step = "handle" /\ (Duplicate \/ ~Wanted)
    /\ step' = "loop" /\ cur' = <<>>
    /\ Mark
    /\ UNCHANGED <<slack, socket, faults, knowsItself, cancelled, handed>>

\* handleBotMention asks for the parent message first; a command needs none.
Accept ==
    /\ step = "handle" /\ ~Duplicate /\ Wanted
    /\ step' = "fetch"
    /\ Mark
    /\ UNCHANGED <<slack, socket, faults, cur, knowsItself, cancelled, handed>>

\* s.handler(alert), whatever became of the parent's text.
HandOn ==
    /\ step = "fetch"
    /\ step' = "loop" /\ cur' = <<>>
    /\ handed' = [handed EXCEPT ![cur.of] = @ + 1]
    /\ UNCHANGED <<slack, socket, faults, recentEvents, knowsItself, cancelled>>

Listen ==
    \/ Open \/ Stopped \/ Round \/ Read \/ ReadFails \/ Ack \/ AckFails
    \/ Ignore \/ Accept \/ HandOn

-----------------------------------------------------------------------------
\* An entry outlives recentEventTTL, or is collected then: "Slack rarely
\* re-delivers an event more than a few seconds after the original."
Forget(k) ==
    /\ \A e \in due \cup Range(wire) \cup {cur} : e # <<>> => <<e.of.channel, e.of.ts>> # k
    /\ recentEvents' = recentEvents \ {k}
    /\ UNCHANGED <<slack, socket, faults, step, cur, knowsItself, cancelled, handed>>

Stop ==
    /\ ~cancelled
    /\ cancelled' = TRUE
    /\ UNCHANGED <<slack, socket, faults, step, cur, recentEvents, knowsItself, handed>>

SlackNext ==
    \/ \E e \in due : Send(e) \/ Repeat(e)
    \/ \E e \in acks : AckArrives(e)
    \/ Break
    \/ Listen
    \/ \E k \in recentEvents : Forget(k)
    \/ Stop

\* What Slack does of its own accord in the end.
Deliver == \E e \in due : Send(e)

SlackSpec == SlackInit /\ [][SlackNext]_slackVars

-----------------------------------------------------------------------------
\* A user asks for an analysis.  Not every mention counts: see AppMentionIsMention.
Asks(p) ==
    /\ p.by = "user" /\ p.mention /\ p.kind = "post"
    /\ isListenChannel(p.channel)

\* The mention is found in whichever event of it comes first.
EitherEventTells(p) ==
    \/ subscribed = {"app_mention"}
    \/ subscribed # {} /\ p.thread /\ knowsItself

InHand(p) == step \in {"handle", "fetch"} /\ cur.of = p

\* Slack was told that every event of the post has arrived.
Acknowledged(p) == p \in posted /\ Events(p) \cap due = {}

\* A post is handed on once, although Slack sends two events for it and
\* repeats them, over as many connections.  (Commands are not deduplicated.)
HandedOnce ==
    \A p \in Post : p.kind = "post" => handed[p] <= 1

\* The listener acknowledges before it handles.  Still what it acknowledged it
\* handed on or is about to, through failed writes and broken connections.
AcknowledgedHandedOn ==
    \A p \in Post :
        (Asks(p) /\ EitherEventTells(p) /\ Acknowledged(p))
            => handed[p] > 0 \/ InHand(p)

\* A mention is handed on in the end, unless the process is stopped.
MentionHandedOn ==
    <>[](cancelled \/ \A p \in posted : Asks(p) /\ EitherEventTells(p) => handed[p] > 0)

\* "app_mention always means 'user pinged the bot' -- handle it as a mention"
\* (handleEventPayload): an app_mention that was acknowledged is handed on.
AppMentionIsMention ==
    \A p \in Post :
        (Asks(p) /\ "app_mention" \in subscribed /\ Acknowledged(p))
            => handed[p] > 0 \/ InHand(p)
=============================================================================
