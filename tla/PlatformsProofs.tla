---------------------------- MODULE PlatformsProofs ----------------------------
(***************************************************************************)
(* The program and the platforms it talks to.  The two listeners, for any  *)
(* posts, updates, subscriptions, failures and deaths.  The program as a   *)
(* client: the messengers and LLM providers (Clients) and the executors    *)
(* that log in (Credentials) implement Calls, for any number of            *)
(* goroutines, channels, retries, expiries and forgotten tokens; and what  *)
(* else they promise.                                                      *)
(***************************************************************************)
EXTENDS SlackListener, TelegramListener, Clients, Credentials, TLAPS

-----------------------------------------------------------------------------
(* Slack's socket.  Both arguments are about recentEvents: what is in it   *)
(* was taken care of, and what was taken care of is in it or can no        *)
(* longer arrive.                                                          *)

\* What is on the wire.
LEMMA Sent ==
    ASSUME NEW S, NEW s \in Seq(S), NEW e \in S
    PROVE  /\ Append(s, e) \in Seq(S)
           /\ Range(Append(s, e)) \subseteq Range(s) \cup {e}
<1>1. Append(s, e) \in Seq(S)
    OBVIOUS
<1>2. ASSUME NEW x \in Range(Append(s, e)) PROVE x \in Range(s) \cup {e}
    <2>1. PICK i \in 1..Len(s) + 1 : x = Append(s, e)[i]
        BY <1>2 DEF Range
    <2>2. CASE i \in 1..Len(s)
        <3>1. x = s[i] /\ i \in DOMAIN s
            BY <2>1, <2>2
        <3> QED
            BY <3>1 DEF Range
    <2>3. CASE i = Len(s) + 1
        BY <2>1, <2>3
    <2> QED
        BY <2>2, <2>3
<1> QED
    BY <1>1, <1>2

LEMMA TakenOff ==
    ASSUME NEW S, NEW s \in Seq(S), s # <<>>
    PROVE  /\ Head(s) \in S /\ Head(s) \in Range(s)
           /\ Tail(s) \in Seq(S) /\ Range(Tail(s)) \subseteq Range(s)
<1>1. Head(s) \in S /\ Tail(s) \in Seq(S)
    OBVIOUS
<1>2. Head(s) = s[1] /\ 1 \in DOMAIN s
    OBVIOUS
<1>3. ASSUME NEW x \in Range(Tail(s)) PROVE x \in Range(s)
    <2>1. PICK i \in 1..Len(s) - 1 : x = Tail(s)[i]
        BY <1>3 DEF Range
    <2>2. x = s[i + 1] /\ i + 1 \in DOMAIN s
        BY <2>1
    <2> QED
        BY <2>2 DEF Range
<1> QED
    BY <1>1, <1>2, <1>3 DEF Range

LEMMA Unsent == Range(<<>>) = {}
    BY DEF Range

\* An envelope is not the empty one.
LEMMA EnvelopeIsSome == \A e \in Envelope : e # <<>> /\ e.of \in Post
<1> TAKE e \in Envelope
<1>1. e.of \in Post /\ DOMAIN e = {"type", "of"}
    BY DEF Envelope
<1>2. DOMAIN <<>> = {}
    OBVIOUS
<1> QED
    BY <1>1, <1>2

-----------------------------------------------------------------------------
(* Types.                                                                  *)

LEMMA SlackTypeInit == PostAssumption /\ SlackInit => SlackTypeOK
<1> SUFFICES ASSUME PostAssumption, SlackInit PROVE SlackTypeOK
    OBVIOUS
<1>1. due \subseteq Envelope
    BY DEF SlackInit, Events
<1>2. handed \in [Post -> Nat]
    BY DEF SlackInit
<1>3. wire \in Seq(Envelope) /\ faults \in 0..MaxFaults
    BY DEF SlackInit, PostAssumption
<1> QED
    BY <1>1, <1>2, <1>3 DEF SlackInit, SlackTypeOK

LEMMA SlackTypeStep == PostAssumption /\ SlackTypeOK /\ [SlackNext]_slackVars => SlackTypeOK'
<1> SUFFICES ASSUME PostAssumption, SlackTypeOK, [SlackNext]_slackVars PROVE SlackTypeOK'
    OBVIOUS
<1>0. MaxFaults \in Nat
    BY DEF PostAssumption
<1> USE DEF SlackTypeOK
<1>1. ASSUME NEW e \in due, Send(e) PROVE SlackTypeOK'
    BY <1>1, Sent DEF Send, slack, listener
<1>2. ASSUME NEW e \in due, Repeat(e) PROVE SlackTypeOK'
    <2>1. wire' \in Seq(Envelope)
        BY <1>2, Sent DEF Repeat
    <2>2. faults' \in 0..MaxFaults
        BY <1>0, <1>2 DEF Repeat
    <2> QED
        BY <1>2, <2>1, <2>2 DEF Repeat, slack, listener
<1>3. ASSUME NEW e \in acks, AckArrives(e) PROVE SlackTypeOK'
    BY <1>3 DEF AckArrives, listener
<1>4. CASE Break
    <2>1. faults' \in 0..MaxFaults
        BY <1>0, <1>4 DEF Break
    <2> QED
        BY <1>4, <2>1 DEF Break, slack, listener
<1>5. CASE Open
    BY <1>5 DEF Open, slack
<1>6. CASE Stopped
    BY <1>6 DEF Stopped, Hang, slack
<1>7. CASE Round
    BY <1>7 DEF Round, slack, socket
<1>8. CASE Read
    BY <1>8, TakenOff DEF Read, slack
<1>9. CASE ReadFails
    BY <1>9 DEF ReadFails, Hang, slack
<1>10. CASE Ack
    BY <1>10 DEF Ack, slack
<1>11. CASE AckFails
    BY <1>11 DEF AckFails, Hang, slack
<1>12. CASE Ignore \/ Accept
    <2>1. cur \in Envelope
        BY <1>12 DEF Ignore, Accept
    <2>2. recentEvents' \subseteq {<<p.channel, p.ts>> : p \in Post}
        BY <1>12, <2>1, EnvelopeIsSome DEF Ignore, Accept, Mark, Key
    <2> QED
        BY <1>12, <2>1, <2>2 DEF Ignore, Accept, slack, socket
<1>13. CASE HandOn
    <2>1. cur.of \in Post
        BY <1>13, EnvelopeIsSome DEF HandOn
    <2>2. handed' \in [Post -> Nat]
        BY <1>13, <2>1 DEF HandOn
    <2> QED
        BY <1>13, <2>2 DEF HandOn, slack, socket
<1>14. ASSUME NEW k \in recentEvents, Forget(k) PROVE SlackTypeOK'
    BY <1>14 DEF Forget, slack, socket
<1>15. CASE Stop
    BY <1>15 DEF Stop, slack, socket
<1>16. CASE UNCHANGED slackVars
    BY <1>16 DEF slackVars, slack, socket, listener
<1> QED
    BY <1>1, <1>2, <1>3, <1>4, <1>5, <1>6, <1>7, <1>8, <1>9, <1>10, <1>11, <1>12, <1>13,
       <1>14, <1>15, <1>16 DEF SlackNext, Listen

\* Slack, the socket and the listener keep their types.
THEOREM SlackTypeCorrect == SlackSpec => []SlackTypeOK
<1>1. SlackInit => SlackTypeOK
    BY PostAssumption, SlackTypeInit
<1>2. SlackTypeOK /\ [SlackNext]_slackVars => SlackTypeOK'
    BY PostAssumption, SlackTypeStep
<1> QED
    BY <1>1, <1>2, PTL DEF SlackSpec

-----------------------------------------------------------------------------
(* What a step does to what is under way, seen and handed on.              *)

KeyOf(p) == <<p.channel, p.ts>>

\* The envelopes that may still reach the listener's filter.
Coming == due \cup Range(wire) \cup {cur}

Fetching(p) == step = "fetch" /\ cur.of = p

\* Nothing arrives that was not due at the beginning.
LEMMA ComingShrinks ==
    SlackTypeOK /\ [SlackNext]_slackVars => Coming' \subseteq Coming \cup {<<>>}
<1> SUFFICES ASSUME SlackTypeOK, [SlackNext]_slackVars
             PROVE  Coming' \subseteq Coming \cup {<<>>}
    OBVIOUS
<1> USE DEF Coming
<1>0. wire \in Seq(Envelope) /\ due \subseteq Envelope
    BY DEF SlackTypeOK
<1>1. ASSUME NEW e \in due, Send(e) \/ Repeat(e) PROVE Coming' \subseteq Coming \cup {<<>>}
    <2>1. Range(wire') \subseteq Range(wire) \cup {e}
        BY <1>0, <1>1, Sent DEF Send, Repeat
    <2> QED
        BY <1>1, <2>1 DEF Send, Repeat, slack, listener
<1>2. ASSUME NEW e \in acks, AckArrives(e) PROVE Coming' \subseteq Coming \cup {<<>>}
    BY <1>2 DEF AckArrives, listener
<1>3. CASE Read
    BY <1>0, <1>3, TakenOff DEF Read, slack
<1>4. CASE Stopped \/ ReadFails \/ AckFails
    BY <1>4, Unsent DEF Stopped, ReadFails, AckFails, Hang, slack
<1>5. CASE Break \/ Open \/ Round \/ Ack \/ Stop
    BY <1>5 DEF Break, Open, Round, Ack, Stop, slack, socket, listener
<1>6. CASE Ignore \/ Accept \/ HandOn
    BY <1>6 DEF Ignore, Accept, HandOn, slack, socket
<1>7. ASSUME NEW k \in recentEvents, Forget(k) PROVE Coming' \subseteq Coming \cup {<<>>}
    BY <1>7 DEF Forget, slack, socket
<1>8. CASE UNCHANGED slackVars
    BY <1>8 DEF slackVars, slack, socket, listener
<1> QED
    BY <1>1, <1>2, <1>3, <1>4, <1>5, <1>6, <1>7, <1>8 DEF SlackNext, Listen

\* All but four actions leave the filter and what passed it alone.
Calm ==
    /\ handed' = handed /\ recentEvents' = recentEvents
    /\ \A p \in Post : (Fetching(p)' <=> Fetching(p)) /\ (InHand(p) => InHand(p)')

LEMMA MostlyCalm ==
    SlackTypeOK /\ [SlackNext]_slackVars =>
        Calm \/ Ignore \/ Accept \/ HandOn \/ \E k \in recentEvents : Forget(k)
<1> SUFFICES ASSUME SlackTypeOK, [SlackNext]_slackVars,
                    ~ (Ignore \/ Accept \/ HandOn \/ \E k \in recentEvents : Forget(k))
             PROVE  Calm
    OBVIOUS
<1>1. CASE \/ \E e \in due : Send(e) \/ Repeat(e)
           \/ \E e \in acks : AckArrives(e)
           \/ Break \/ Stop \/ UNCHANGED slackVars
    BY <1>1 DEF Send, Repeat, AckArrives, Break, Stop, slackVars, listener, Calm, Fetching, InHand
<1>2. CASE Open \/ Stopped \/ Round \/ Read \/ ReadFails \/ Ack \/ AckFails
    BY <1>2 DEF Open, Stopped, Round, Read, ReadFails, Ack, AckFails, Hang, Calm, Fetching, InHand
<1> QED
    BY <1>1, <1>2 DEF SlackNext, Listen

-----------------------------------------------------------------------------
(* Once: a post in or past the listener's hands is known, or cannot come.  *)

Settled(p) ==
    \/ KeyOf(p) \in recentEvents
    \/ \A e \in Coming : e # <<>> => KeyOf(e.of) # KeyOf(p)

Once(p) ==
    /\ handed[p] \in {0, 1}
    /\ Fetching(p) => handed[p] = 0
    /\ Fetching(p) \/ handed[p] = 1 => Settled(p)

OnceInv == \A p \in Post : p.kind = "post" => Once(p)

\* To see a key, or to lose one that cannot come, settles nothing less.
LEMMA SettledStays ==
    ASSUME NEW p \in Post, Settled(p), Coming' \subseteq Coming \cup {<<>>},
           recentEvents \subseteq recentEvents'
    PROVE  Settled(p)'
<1>1. CASE KeyOf(p) \in recentEvents
    BY <1>1 DEF Settled, KeyOf
<1>2. CASE \A e \in Coming : e # <<>> => KeyOf(e.of) # KeyOf(p)
    BY <1>2 DEF Settled, KeyOf
<1> QED
    BY <1>1, <1>2 DEF Settled

LEMMA OnceStep ==
    SlackTypeOK /\ OnceInv /\ [SlackNext]_slackVars => OnceInv'
<1> SUFFICES ASSUME SlackTypeOK, OnceInv, [SlackNext]_slackVars,
                    NEW p \in Post, p.kind = "post"
             PROVE  Once(p)'
    BY DEF OnceInv
<1>0. Once(p) /\ Coming' \subseteq Coming \cup {<<>>}
    BY ComingShrinks DEF OnceInv
<1>1. CASE Calm
    <2>1. handed'[p] = handed[p] /\ (Fetching(p)' <=> Fetching(p))
        BY <1>1 DEF Calm
    <2>2. Settled(p) => Settled(p)'
        BY <1>0, <1>1, SettledStays DEF Calm
    <2> QED
        BY <1>0, <2>1, <2>2 DEF Once
<1>2. CASE Ignore
    <2>1. /\ handed' = handed /\ recentEvents \subseteq recentEvents'
          /\ step = "handle" /\ step' = "loop"
        BY <1>2 DEF Ignore, Mark
    <2>2. Settled(p) => Settled(p)'
        BY <1>0, <2>1, SettledStays
    <2> QED
        BY <1>0, <2>1, <2>2 DEF Once, Fetching
<1>3. CASE Accept
    <2>1. /\ handed' = handed /\ recentEvents \subseteq recentEvents'
          /\ step = "handle" /\ step' = "fetch" /\ cur' = cur
        BY <1>3 DEF Accept, Mark
    <2>2. Settled(p) => Settled(p)'
        BY <1>0, <2>1, SettledStays
    <2>3. CASE cur.of # p
        BY <1>0, <2>1, <2>2, <2>3 DEF Once, Fetching
    <2>4. CASE cur.of = p
        <3>1. cur \in Coming /\ cur # <<>>
            BY <2>1, EnvelopeIsSome DEF Coming, SlackTypeOK
        <3>2. KeyOf(p) \notin recentEvents /\ KeyOf(p) \in recentEvents'
            BY <1>3, <2>4 DEF Accept, Duplicate, IsPost, Key, KeyOf, Mark
        <3>3. ~Settled(p)
            BY <2>4, <3>1, <3>2 DEF Settled
        <3>4. handed[p] = 0
            BY <1>0, <3>3 DEF Once
        <3>5. Settled(p)'
            BY <3>2 DEF Settled, KeyOf
        <3> QED
            BY <2>1, <3>4, <3>5 DEF Once
    <2> QED
        BY <2>3, <2>4
<1>4. CASE HandOn
    <2>1. /\ recentEvents' = recentEvents /\ step = "fetch" /\ step' = "loop"
          /\ handed' = [handed EXCEPT ![cur.of] = @ + 1]
        BY <1>4 DEF HandOn
    <2>2. Settled(p) => Settled(p)'
        BY <1>0, <2>1, SettledStays
    <2>3. handed'[p] = IF cur.of = p THEN handed[p] + 1 ELSE handed[p]
        BY <2>1 DEF SlackTypeOK
    <2>4. ~Fetching(p)'
        BY <2>1 DEF Fetching
    <2>5. CASE cur.of = p
        <3>1. Fetching(p)
            BY <2>1, <2>5 DEF Fetching
        <3>2. handed'[p] = 1
            BY <1>0, <2>3, <2>5, <3>1 DEF Once
        <3> QED
            BY <1>0, <2>2, <2>4, <3>1, <3>2 DEF Once
    <2>6. CASE cur.of # p
        BY <1>0, <2>2, <2>3, <2>4, <2>6 DEF Once
    <2> QED
        BY <2>5, <2>6
<1>5. ASSUME NEW k \in recentEvents, Forget(k) PROVE Once(p)'
    <2>1. /\ recentEvents' = recentEvents \ {k}
          /\ handed' = handed /\ step' = step /\ cur' = cur
        BY <1>5 DEF Forget
    <2>2. \A e \in Coming : e # <<>> => KeyOf(e.of) # k
        BY <1>5 DEF Forget, Coming, KeyOf
    <2>3. Settled(p) => Settled(p)'
        <3>1. CASE KeyOf(p) = k
            BY <1>0, <2>2, <3>1 DEF Settled, KeyOf
        <3>2. CASE KeyOf(p) # k
            BY <1>0, <2>1, <3>2 DEF Settled, KeyOf
        <3> QED
            BY <3>1, <3>2
    <2> QED
        BY <1>0, <2>1, <2>3 DEF Once, Fetching
<1> QED
    BY <1>1, <1>2, <1>3, <1>4, <1>5, MostlyCalm

\* A post is handed on at most once, whatever is repeated and however the
\* connection breaks.
THEOREM SlackHandedOnce == SlackSpec => []HandedOnce
<1>1. SlackInit => OnceInv
    <2> SUFFICES ASSUME SlackInit, NEW p \in Post PROVE Once(p)
        BY DEF OnceInv
    <2>1. handed[p] = 0 /\ step = "dial"
        BY DEF SlackInit
    <2> QED
        BY <2>1 DEF Once, Fetching
<1>2. SlackInit => SlackTypeOK
    BY PostAssumption, SlackTypeInit
<1>3. SlackTypeOK /\ OnceInv /\ [SlackNext]_slackVars => (SlackTypeOK /\ OnceInv)'
    BY PostAssumption, SlackTypeStep, OnceStep
<1>4. OnceInv => HandedOnce
    BY DEF OnceInv, Once, HandedOnce
<1> QED
    BY <1>1, <1>2, <1>3, <1>4, PTL DEF SlackSpec

-----------------------------------------------------------------------------
(* At least once: what is acknowledged or seen was taken care of.          *)

\* A mention that either of its events tells.
Counts(p) == Asks(p) /\ EitherEventTells(p)

Cared(p) == handed[p] > 0 \/ InHand(p)

\* Every envelope is one of a post.
Genuine == \A e \in Coming \cup acks : e # <<>> => e.of \in posted /\ e \in Events(e.of)

SeenIsCared ==
    \A p \in posted : Counts(p) /\ KeyOf(p) \in recentEvents => handed[p] > 0 \/ Fetching(p)

AckedIsCared == \A e \in acks : Counts(e.of) => Cared(e.of)

DueOrCared == \A p \in posted : Counts(p) => Cared(p) \/ Events(p) \subseteq due

AckInv == Genuine /\ SeenIsCared /\ AckedIsCared /\ DueOrCared

\* What does not change, and how acknowledgements travel.
LEMMA Unchanging ==
    [SlackNext]_slackVars =>
        /\ posted' = posted /\ subscribed' = subscribed /\ knowsItself' = knowsItself
        /\ \/ acks' \subseteq acks
           \/ /\ acks' \subseteq acks \cup {cur}
              /\ step = "ack" /\ step' = "handle" /\ cur' = cur
        /\ due' = due \/ \E e \in acks : due' = due \ {e}
<1> SUFFICES ASSUME [SlackNext]_slackVars
             PROVE  /\ posted' = posted /\ subscribed' = subscribed /\ knowsItself' = knowsItself
                    /\ \/ acks' \subseteq acks
                       \/ /\ acks' \subseteq acks \cup {cur}
                          /\ step = "ack" /\ step' = "handle" /\ cur' = cur
                    /\ due' = due \/ \E e \in acks : due' = due \ {e}
    OBVIOUS
<1>1. CASE \E e \in acks : AckArrives(e)
    BY <1>1 DEF AckArrives, listener
<1>2. CASE Ack
    BY <1>2 DEF Ack, slack
<1>3. CASE \/ \E e \in due : Send(e) \/ Repeat(e)
           \/ Break \/ Stop \/ \E k \in recentEvents : Forget(k)
           \/ UNCHANGED slackVars
    BY <1>3 DEF Send, Repeat, Break, Stop, Forget, slackVars, slack, socket, listener
<1>4. CASE Open \/ Stopped \/ Round \/ Read \/ ReadFails \/ AckFails
    BY <1>4 DEF Open, Stopped, Round, Read, ReadFails, AckFails, Hang, slack, socket
<1>5. CASE Ignore \/ Accept \/ HandOn
    BY <1>5 DEF Ignore, Accept, HandOn, slack, socket
<1> QED
    BY <1>1, <1>2, <1>3, <1>4, <1>5 DEF SlackNext, Listen

\* The filter lets such a mention pass.
LEMMA CountsIsWanted ==
    SlackTypeOK /\ Genuine /\ step = "handle" /\ Counts(cur.of)
        => Wanted /\ IsPost /\ cur.of \in posted
<1> SUFFICES ASSUME SlackTypeOK, Genuine, step = "handle", Counts(cur.of)
             PROVE  Wanted /\ IsPost /\ cur.of \in posted
    OBVIOUS
<1>1. cur \in Envelope /\ cur # <<>> /\ cur \in Coming
    BY EnvelopeIsSome DEF SlackTypeOK, Coming
<1>2. cur.of \in posted /\ cur \in Events(cur.of)
    BY <1>1 DEF Genuine
<1>3. /\ cur.of.by = "user" /\ cur.of.mention /\ cur.of.kind = "post"
      /\ isListenChannel(cur.of.channel) /\ EitherEventTells(cur.of)
    BY DEF Counts, Asks
<1>4. cur.type \in subscribed
    BY <1>2, <1>3 DEF Events
<1>5. cur.type = "app_mention" \/ (knowsItself /\ cur.of.mention /\ cur.of.thread)
    BY <1>3, <1>4 DEF EitherEventTells
<1> QED
    BY <1>2, <1>3, <1>5 DEF Wanted, IsPost

\* A post is known by its channel and ts.
LEMMA KeyTells ==
    PostAssumption /\ SlackTypeOK =>
        \A p, q \in posted : p.kind = "post" /\ q.kind = "post" /\ KeyOf(p) = KeyOf(q) => p = q
    BY DEF PostAssumption, SlackTypeOK, KeyOf

\* Marking a post, the listener takes it, or had it, or need not.
LEMMA MarkedIsCared ==
    PostAssumption /\ SlackTypeOK /\ Genuine /\ SeenIsCared /\ (Ignore \/ Accept) =>
        \A p \in posted : Counts(p) /\ KeyOf(p) \in recentEvents'
            => handed[p] > 0 \/ (Accept /\ cur.of = p)
<1> SUFFICES ASSUME PostAssumption, SlackTypeOK, Genuine, SeenIsCared, Ignore \/ Accept,
                    NEW p \in posted, Counts(p), KeyOf(p) \in recentEvents'
             PROVE  handed[p] > 0 \/ (Accept /\ cur.of = p)
    OBVIOUS
<1>1. step = "handle" /\ recentEvents' = recentEvents \cup IF IsPost THEN {Key} ELSE {}
    BY DEF Ignore, Accept, Mark
<1>2. CASE KeyOf(p) \in recentEvents
    BY <1>1, <1>2 DEF SeenIsCared, Fetching
<1>3. CASE KeyOf(p) \notin recentEvents
    <2>1. IsPost /\ KeyOf(p) = KeyOf(cur.of)
        BY <1>1, <1>3 DEF Key, KeyOf
    <2>2. cur # <<>> /\ cur \in Coming
        BY <1>1, EnvelopeIsSome DEF SlackTypeOK, Coming
    <2>3. cur.of \in posted
        BY <2>2 DEF Genuine
    <2>4. p.kind = "post" /\ cur.of.kind = "post"
        BY <2>1 DEF Counts, Asks, IsPost
    <2>5. p = cur.of
        BY <2>1, <2>3, <2>4, KeyTells
    <2>6. Wanted
        BY <1>1, <2>5, CountsIsWanted
    <2>7. ~Duplicate
        BY <1>3, <2>1, <2>5 DEF Duplicate, Key, KeyOf
    <2> QED
        BY <2>5, <2>6, <2>7 DEF Ignore
<1> QED
    BY <1>2, <1>3

\* Once taken care of, always.
LEMMA CaredStays ==
    PostAssumption /\ SlackTypeOK /\ Genuine /\ SeenIsCared /\ [SlackNext]_slackVars =>
        \A p \in posted : Counts(p) /\ Cared(p) => Cared(p)'
<1> SUFFICES ASSUME PostAssumption, SlackTypeOK, Genuine, SeenIsCared, [SlackNext]_slackVars,
                    NEW p \in posted, Counts(p), Cared(p)
             PROVE  Cared(p)'
    OBVIOUS
<1>0. p \in Post
    BY DEF SlackTypeOK, Post
<1>1. CASE Calm
    BY <1>0, <1>1 DEF Calm, Cared
<1>2. CASE Ignore
    <2>1. step = "handle" /\ handed' = handed /\ (Duplicate \/ ~Wanted)
        BY <1>2 DEF Ignore
    <2>2. CASE handed[p] > 0
        BY <2>1, <2>2 DEF Cared
    <2>3. CASE cur.of = p
        <3>1. Wanted /\ IsPost
            BY <2>1, <2>3, CountsIsWanted
        <3>2. KeyOf(p) \in recentEvents
            BY <2>1, <2>3, <3>1 DEF Duplicate, Key, KeyOf
        <3>3. handed[p] > 0
            BY <2>1, <3>2 DEF SeenIsCared, Fetching
        <3> QED
            BY <2>1, <3>3 DEF Cared
    <2> QED
        BY <2>2, <2>3 DEF Cared, InHand
<1>3. CASE Accept
    <2>1. handed' = handed /\ step' = "fetch" /\ cur' = cur
        BY <1>3 DEF Accept
    <2> QED
        BY <2>1 DEF Cared, InHand
<1>4. CASE HandOn
    <2>1. handed'[p] = IF cur.of = p THEN handed[p] + 1 ELSE handed[p]
        BY <1>0, <1>4 DEF HandOn, SlackTypeOK
    <2>2. handed[p] \in Nat
        BY <1>0 DEF SlackTypeOK
    <2> QED
        BY <2>1, <2>2 DEF Cared, InHand
<1>5. ASSUME NEW k \in recentEvents, Forget(k) PROVE Cared(p)'
    BY <1>5 DEF Forget, Cared, InHand
<1> QED
    BY <1>1, <1>2, <1>3, <1>4, <1>5, MostlyCalm

LEMMA AckStep ==
    PostAssumption /\ SlackTypeOK /\ AckInv /\ [SlackNext]_slackVars => AckInv'
<1> SUFFICES ASSUME PostAssumption, SlackTypeOK, AckInv, [SlackNext]_slackVars PROVE AckInv'
    OBVIOUS
<1>0. /\ Genuine /\ SeenIsCared /\ AckedIsCared /\ DueOrCared
      /\ posted \subseteq Post
    BY DEF AckInv, SlackTypeOK, Post
<1>1. posted' = posted /\ subscribed' = subscribed /\ knowsItself' = knowsItself
    BY Unchanging
<1>2. /\ \A p : Events(p)' = Events(p)
      /\ \A p : Counts(p)' <=> Counts(p)
    BY <1>1 DEF Events, Counts, Asks, EitherEventTells
<1>3. \A p \in posted : Counts(p) /\ Cared(p) => Cared(p)'
    BY <1>0, CaredStays
<1>4. acks' \subseteq acks \cup Coming
    BY Unchanging DEF Coming
<1>5. Genuine'
    <2>1. Coming' \cup acks' \subseteq Coming \cup acks \cup {<<>>}
        BY <1>4, ComingShrinks
    <2> QED
        BY <1>0, <1>1, <1>2, <2>1 DEF Genuine
<1>6. SeenIsCared'
    <2> SUFFICES ASSUME NEW p \in posted, Counts(p), KeyOf(p) \in recentEvents'
                 PROVE  handed'[p] > 0 \/ Fetching(p)'
        BY <1>1, <1>2 DEF SeenIsCared, KeyOf
    <2>1. CASE Calm
        BY <1>0, <2>1 DEF Calm, SeenIsCared
    <2>2. CASE Ignore
        <3>1. handed' = handed
            BY <2>2 DEF Ignore
        <3>2. step = "handle" /\ step' = "loop"
            BY <2>2 DEF Ignore
        <3>3. ~Accept
            BY <3>2 DEF Accept
        <3> QED
            BY <1>0, <2>2, <3>1, <3>3, MarkedIsCared
    <2>3. CASE Accept
        <3>1. handed' = handed /\ step' = "fetch" /\ cur' = cur
            BY <2>3 DEF Accept
        <3>2. handed[p] > 0 \/ cur.of = p
            BY <1>0, <2>3, MarkedIsCared
        <3> QED
            BY <3>1, <3>2 DEF Fetching
    <2>4. CASE HandOn
        <3>1. recentEvents' = recentEvents
            BY <2>4 DEF HandOn
        <3>2. handed[p] > 0 \/ cur.of = p
            BY <1>0, <3>1 DEF SeenIsCared, Fetching
        <3>3. handed'[p] = IF cur.of = p THEN handed[p] + 1 ELSE handed[p]
            BY <1>0, <2>4 DEF HandOn, SlackTypeOK
        <3>4. handed[p] \in Nat
            BY <1>0 DEF SlackTypeOK
        <3> QED
            BY <3>2, <3>3, <3>4
    <2>5. ASSUME NEW k \in recentEvents, Forget(k)
          PROVE  handed'[p] > 0 \/ Fetching(p)'
        <3>1. /\ recentEvents' = recentEvents \ {k} /\ handed' = handed
              /\ step' = step /\ cur' = cur
            BY <2>5 DEF Forget
        <3> QED
            BY <1>0, <3>1 DEF SeenIsCared, Fetching
    <2> QED
        BY <2>1, <2>2, <2>3, <2>4, <2>5, MostlyCalm
<1>7. AckedIsCared'
    <2> SUFFICES ASSUME NEW e \in acks', Counts(e.of) PROVE Cared(e.of)'
        BY <1>2 DEF AckedIsCared
    <2>1. CASE e \in acks
        <3>1. e \in Envelope /\ e # <<>>
            BY <2>1, EnvelopeIsSome DEF SlackTypeOK
        <3>2. e.of \in posted
            BY <1>0, <2>1, <3>1 DEF Genuine
        <3> QED
            BY <1>0, <1>3, <2>1, <3>2 DEF AckedIsCared
    <2>2. CASE e \notin acks
        <3>1. e = cur /\ step' = "handle" /\ cur' = cur
            BY <2>2, Unchanging
        <3> QED
            BY <3>1 DEF Cared, InHand
    <2> QED
        BY <2>1, <2>2
<1>8. DueOrCared'
    <2> SUFFICES ASSUME NEW p \in posted, Counts(p) PROVE Cared(p)' \/ Events(p) \subseteq due'
        BY <1>1, <1>2 DEF DueOrCared
    <2>1. CASE Cared(p)
        BY <1>3, <2>1
    <2>2. CASE Events(p) \subseteq due /\ ~Cared(p)
        <3>1. ASSUME NEW e \in acks PROVE e \notin Events(p)
            BY <1>0, <2>2, <3>1 DEF AckedIsCared, Events
        <3> QED
            BY <2>2, <3>1, Unchanging
    <2> QED
        BY <1>0, <2>1, <2>2 DEF DueOrCared
<1> QED
    BY <1>5, <1>6, <1>7, <1>8 DEF AckInv

\* What the listener acknowledged it handed on or is about to, if either
\* event tells the mention.
THEOREM SlackAcknowledgedHandedOn == SlackSpec => []AcknowledgedHandedOn
<1>1. SlackInit => AckInv
    <2> SUFFICES ASSUME SlackInit PROVE AckInv
        OBVIOUS
    <2>1. /\ due = UNION {Events(p) : p \in posted}
          /\ wire = <<>> /\ acks = {} /\ cur = <<>> /\ recentEvents = {}
        BY DEF SlackInit
    <2>2. Coming = due \cup {<<>>}
        BY <2>1, Unsent DEF Coming
    <2>3. \A e \in due : e.of \in posted /\ e \in Events(e.of)
        BY <2>1 DEF Events
    <2>4. \A p \in posted : Events(p) \subseteq due
        BY <2>1
    <2> QED
        BY <2>1, <2>2, <2>3, <2>4 DEF AckInv, Genuine, SeenIsCared, AckedIsCared, DueOrCared
<1>2. SlackInit => SlackTypeOK
    BY PostAssumption, SlackTypeInit
<1>3. SlackTypeOK /\ AckInv /\ [SlackNext]_slackVars => (SlackTypeOK /\ AckInv)'
    BY PostAssumption, SlackTypeStep, AckStep
<1>4. SlackTypeOK /\ AckInv => AcknowledgedHandedOn
    <2> SUFFICES ASSUME SlackTypeOK, AckInv, NEW p \in Post,
                        Asks(p), EitherEventTells(p), Acknowledged(p)
                 PROVE  Cared(p)
        BY DEF AcknowledgedHandedOn, Cared
    <2>1. p \in posted /\ Events(p) \cap due = {}
        BY DEF Acknowledged
    <2>2. PICK t \in subscribed : TRUE
        BY DEF EitherEventTells
    <2>3. [type |-> t, of |-> p] \in Events(p)
        <3>1. t \in {"message", "app_mention"}
            BY <2>2, PostAssumption DEF SlackTypeOK, PostAssumption
        <3>2. [type |-> t, of |-> p] \in Envelope
            BY <3>1 DEF Envelope
        <3> QED
            BY <2>2, <3>2 DEF Events, Asks
    <2> QED
        BY <2>1, <2>3 DEF AckInv, DueOrCared, Counts
<1> QED
    BY <1>1, <1>2, <1>3, <1>4, PTL DEF SlackSpec

-----------------------------------------------------------------------------
(* Telegram's poller.  All of it rests on one number: the updates up to    *)
(* Base are those that some life of the process has been through.          *)

\* The range of a sequence that grows.
LEMMA Appended ==
    ASSUME NEW S, NEW s \in Seq(S), NEW e \in S
    PROVE  /\ Append(s, e) \in Seq(S) /\ Append(s, e) # <<>>
           /\ Range(Append(s, e)) = Range(s) \cup {e}
           /\ Last(Append(s, e)) = e
           /\ s # <<>> => Append(s, e)[1] = s[1]
<1>1. Append(s, e) \in Seq(S) /\ Append(s, e) # <<>>
    <2>1. Append(s, e) \in Seq(S)
        OBVIOUS
    <2>2. Len(Append(s, e)) = Len(s) + 1 /\ Len(s) \in Nat /\ Len(<<>>) = 0
        OBVIOUS
    <2>3. Len(Append(s, e)) # 0
        BY <2>2
    <2> QED
        BY <2>1, <2>2, <2>3
<1>2. Len(Append(s, e)) = Len(s) + 1 /\ Append(s, e)[Len(s) + 1] = e
    OBVIOUS
<1>3. \A i \in 1..Len(s) : Append(s, e)[i] = s[i]
    OBVIOUS
<1>4. s # <<>> => 1 \in 1..Len(s)
    OBVIOUS
<1>5. DOMAIN Append(s, e) = 1..Len(s) + 1 /\ DOMAIN s = 1..Len(s) /\ Len(s) \in Nat
    OBVIOUS
<1>6. Range(Append(s, e)) = Range(s) \cup {e}
    <2>1. ASSUME NEW x \in Range(Append(s, e)) PROVE x \in Range(s) \cup {e}
        <3>1. PICK i \in 1..Len(s) + 1 : x = Append(s, e)[i]
            BY <1>5, <2>1 DEF Range
        <3>2. CASE i \in 1..Len(s)
            BY <1>3, <1>5, <3>1, <3>2 DEF Range
        <3>3. CASE i = Len(s) + 1
            BY <1>2, <3>1, <3>3
        <3> QED
            BY <1>5, <3>2, <3>3
    <2>2. ASSUME NEW x \in Range(s) PROVE x \in Range(Append(s, e))
        <3>1. PICK i \in 1..Len(s) : x = s[i]
            BY <1>5, <2>2 DEF Range
        <3>2. x = Append(s, e)[i] /\ i \in 1..Len(s) + 1
            BY <1>3, <1>5, <3>1
        <3> QED
            BY <1>5, <3>2 DEF Range
    <2>3. e \in Range(Append(s, e))
        <3>1. Len(s) + 1 \in 1..Len(s) + 1
            BY <1>5
        <3> QED
            BY <1>2, <1>5, <3>1 DEF Range
    <2> QED
        BY <2>1, <2>2, <2>3
<1> QED
    BY <1>1, <1>2, <1>3, <1>4, <1>6 DEF Last

\* The first and the rest of a sequence of consecutive numbers after b.
LEMMA Consecutive ==
    ASSUME NEW b \in Nat, NEW S, NEW s \in Seq(S), s # <<>>,
           \A i \in 1..Len(s) : s[i] = b + i
    PROVE  /\ Head(s) = b + 1 /\ Head(s) \in S
           /\ Tail(s) \in Seq(S) /\ Len(Tail(s)) = Len(s) - 1
           /\ \A i \in 1..Len(s) - 1 : Tail(s)[i] = b + 1 + i
<1>1. Head(s) = s[1] /\ Head(s) \in S /\ Len(s) \in Nat /\ Len(s) # 0
    OBVIOUS
<1>2. 1 \in 1..Len(s)
    BY <1>1
<1>3. Tail(s) \in Seq(S) /\ Len(Tail(s)) = Len(s) - 1
    OBVIOUS
<1>4. ASSUME NEW i \in 1..Len(s) - 1 PROVE Tail(s)[i] = b + 1 + i
    <2>1. Tail(s)[i] = s[i + 1] /\ i + 1 \in 1..Len(s)
        BY <1>1
    <2> QED
        BY <1>1, <2>1
<1> QED
    BY <1>1, <1>2, <1>3, <1>4

-----------------------------------------------------------------------------
\* The updates up to here need not be asked for again.
Base == IF offset - 1 > confirmed THEN offset - 1 ELSE confirmed

\* What is between Telegram and the handler is what comes next.
BaseKept ==
    /\ poll = "answered" =>
          /\ offset - 1 <= confirmed
          /\ \A i \in 1..Len(answer) : answer[i] = confirmed + i
          /\ confirmed + Len(answer) <= Len(updates)
    /\ poll = "handle" =>
          /\ \A i \in 1..Len(batch) : batch[i] = Base + i
          /\ Base + Len(batch) <= Len(updates)

BaseHeard == \A id \in 1..Base : updates[id] => id \in EverHeard

\* The present life has been through everything since its first update.
Increasing(l) == \A i, j \in DOMAIN heard[l] : i < j => heard[l][i] < heard[l][j]

Present ==
    heard[deaths] # <<>> =>
        /\ \A id \in Range(heard[deaths]) : id <= Base
        /\ \A id \in heard[deaths][1]..Base : updates[id] => id \in Range(heard[deaths])

Ordered ==
    \A l \in Life :
        /\ l > deaths => heard[l] = <<>>
        /\ heard[l] # <<>> =>
              /\ Increasing(l)
              /\ Range(heard[l]) \subseteq 1..Len(updates)
              /\ \A id \in heard[l][1]..Last(heard[l]) : updates[id] => id \in Range(heard[l])

TelegramInv == TelegramTypeOK /\ BaseKept /\ BaseHeard /\ Present /\ Ordered

\* Base is a number of an update, or 0.
LEMMA BaseType ==
    TelegramTypeOK => /\ Base \in Nat /\ Base <= Len(updates) /\ confirmed <= Base
                      /\ Len(updates) \in Nat
<1> SUFFICES ASSUME TelegramTypeOK
             PROVE  /\ Base \in Nat /\ Base <= Len(updates) /\ confirmed <= Base
                    /\ Len(updates) \in Nat
    OBVIOUS
<1>1. updates \in Seq(BOOLEAN) /\ confirmed \in 0..Len(updates) /\ offset \in 0..Len(updates) + 1
    BY DEF TelegramTypeOK
<1>2. Len(updates) \in Nat
    BY <1>1
<1> QED
    BY <1>1, <1>2 DEF Base

-----------------------------------------------------------------------------
LEMMA TelegramInit0 == TelegramAssumption /\ TelegramInit => TelegramInv
<1> SUFFICES ASSUME TelegramAssumption, TelegramInit PROVE TelegramInv
    OBVIOUS
<1>0. /\ updates = <<>> /\ confirmed = 0 /\ offset = 0 /\ poll = "ask" /\ answer = <<>>
      /\ batch = <<>> /\ stopping = FALSE /\ failures = 0 /\ deaths = 0
      /\ heard = [l \in Life |-> <<>>] /\ {MaxUpdates, MaxFailures, MaxDeaths} \subseteq Nat
    BY DEF TelegramInit, TelegramAssumption
<1>1. Len(updates) = 0 /\ <<>> \in Seq(BOOLEAN) /\ <<>> \in Seq(Id)
    BY <1>0
<1>2. 0 \in Life
    BY <1>0 DEF Life
<1>3. heard \in [Life -> Seq(Id)]
    BY <1>0, <1>1
<1>4. TelegramTypeOK
    BY <1>0, <1>1, <1>2, <1>3 DEF TelegramTypeOK
<1>5. Base = 0
    BY <1>0 DEF Base
<1>6. \A l \in Life : heard[l] = <<>>
    BY <1>0
<1> QED
    BY <1>0, <1>2, <1>4, <1>5, <1>6 DEF TelegramInv, BaseKept, BaseHeard, Present, Ordered

-----------------------------------------------------------------------------
(* Steps.                                                                  *)

\* A step that hands nothing on and leaves Base where it is.
LEMMA Quiet ==
    TelegramInv /\ heard' = heard /\ deaths' = deaths /\ updates' = updates /\ Base' = Base
        => BaseHeard' /\ Present' /\ Ordered'
<1> SUFFICES ASSUME TelegramInv, heard' = heard, deaths' = deaths, updates' = updates, Base' = Base
             PROVE  BaseHeard' /\ Present' /\ Ordered'
    OBVIOUS
<1>1. BaseHeard' /\ Present'
    BY DEF TelegramInv, BaseHeard, EverHeard, Present
<1>2. Ordered'
    BY DEF TelegramInv, Ordered, Increasing
<1> QED
    BY <1>1, <1>2

LEMMA UpdateStep ==
    ASSUME TelegramAssumption, TelegramInv, NEW asks \in BOOLEAN, Update(asks)
    PROVE  TelegramInv'
<1>1. /\ Len(updates) < MaxUpdates /\ updates' = Append(updates, asks)
      /\ confirmed' = confirmed /\ answer' = answer /\ offset' = offset /\ poll' = poll
      /\ batch' = batch /\ stopping' = stopping /\ failures' = failures /\ deaths' = deaths
      /\ heard' = heard
    BY DEF Update, poller
<1>2. updates \in Seq(BOOLEAN) /\ MaxUpdates \in Nat
    BY DEF TelegramInv, TelegramTypeOK, TelegramAssumption
<1>3. /\ updates' \in Seq(BOOLEAN) /\ Len(updates') = Len(updates) + 1 /\ Len(updates) \in Nat
      /\ \A id \in 1..Len(updates) : updates'[id] = updates[id]
    BY <1>1, <1>2
<1>4. /\ TelegramTypeOK /\ BaseKept /\ BaseHeard /\ Present /\ Ordered
      /\ Base \in Nat /\ Base <= Len(updates) /\ Base' = Base
    BY <1>1, BaseType DEF TelegramInv, Base
<1>5. TelegramTypeOK'
    <2>1. Len(updates') <= MaxUpdates /\ confirmed' \in 0..Len(updates') /\ offset' \in 0..Len(updates') + 1
        BY <1>1, <1>2, <1>3, <1>4 DEF TelegramTypeOK
    <2> QED
        BY <1>1, <1>3, <1>4, <2>1 DEF TelegramTypeOK
<1>6. BaseKept'
    <2>1. answer \in Seq(Id) /\ batch \in Seq(Id) /\ confirmed \in Nat
        BY <1>3, <1>4 DEF TelegramTypeOK
    <2>2. Len(answer) \in Nat /\ Len(batch) \in Nat
        BY <2>1
    <2> QED
        BY <1>1, <1>3, <1>4, <2>1, <2>2 DEF BaseKept
<1>7. BaseHeard'
    BY <1>1, <1>3, <1>4, SMTT(30) DEF BaseHeard, EverHeard
<1>8. ASSUME NEW l \in Life, heard[l] # <<>>
      PROVE  heard[l][1] \in 1..Len(updates) /\ Last(heard[l]) \in 1..Len(updates)
    <2>1. heard[l] \in Seq(Id) /\ Range(heard[l]) \subseteq 1..Len(updates)
        BY <1>4, <1>8 DEF TelegramTypeOK, Ordered
    <2>2. 1 \in DOMAIN heard[l] /\ Len(heard[l]) \in DOMAIN heard[l]
        BY <1>8, <2>1
    <2> QED
        BY <2>1, <2>2 DEF Range, Last
<1>9. Present'
    <2>1. deaths \in Life
        BY <1>4 DEF TelegramTypeOK
    <2> SUFFICES ASSUME heard[deaths] # <<>>
                 PROVE  /\ \A id \in Range(heard[deaths]) : id <= Base
                        /\ \A id \in heard[deaths][1]..Base : updates'[id] => id \in Range(heard[deaths])
        BY <1>1, <1>4 DEF Present
    <2>2. heard[deaths][1] \in 1..Len(updates)
        BY <1>8, <2>1
    <2>3. \A id \in heard[deaths][1]..Base : id \in 1..Len(updates)
        BY <1>3, <1>4, <2>2
    <2> QED
        BY <1>3, <1>4, <2>3 DEF Present
<1>10. Ordered'
    <2> SUFFICES ASSUME NEW l \in Life
                 PROVE  /\ l > deaths => heard[l] = <<>>
                        /\ heard[l] # <<>> =>
                              /\ Increasing(l)
                              /\ Range(heard[l]) \subseteq 1..Len(updates')
                              /\ \A id \in heard[l][1]..Last(heard[l]) :
                                    updates'[id] => id \in Range(heard[l])
        BY <1>1 DEF Ordered, Increasing
    <2>1. CASE heard[l] = <<>>
        BY <2>1
    <2>2. CASE heard[l] # <<>>
        <3>1. heard[l][1] \in 1..Len(updates) /\ Last(heard[l]) \in 1..Len(updates)
            BY <1>8, <2>2
        <3>2. \A id \in heard[l][1]..Last(heard[l]) : id \in 1..Len(updates)
            BY <1>3, <3>1
        <3>3. 1..Len(updates) \subseteq 1..Len(updates')
            BY <1>3
        <3> QED
            BY <1>3, <1>4, <2>2, <3>2, <3>3 DEF Ordered
    <2> QED
        BY <2>1, <2>2
<1> QED
    BY <1>5, <1>6, <1>7, <1>9, <1>10 DEF TelegramInv

\* The answer begins where Base ends, and asking for it moves nothing.
LEMMA ServeStep ==
    ASSUME TelegramAssumption, TelegramInv, Serve
    PROVE  TelegramInv'
<1>1. PICK last \in confirmed'..Len(updates) :
          answer' = [i \in 1..last - confirmed' |-> confirmed' + i]
    BY DEF Serve
<1>2. /\ poll' = "answered" /\ confirmed' = Base
      /\ updates' = updates /\ offset' = offset /\ batch' = batch /\ stopping' = stopping
      /\ failures' = failures /\ deaths' = deaths /\ heard' = heard
    BY DEF Serve, Base
<1>3. /\ TelegramTypeOK /\ Base \in Nat /\ Base <= Len(updates) /\ Len(updates) \in Nat
      /\ Len(updates) <= MaxUpdates /\ MaxUpdates \in Nat /\ offset \in Nat
    BY BaseType DEF TelegramInv, TelegramTypeOK, TelegramAssumption
<1>4. Base' = Base /\ offset - 1 <= Base
    BY <1>2, <1>3 DEF Base, TelegramTypeOK
<1>5. last \in Nat /\ last - Base \in Nat /\ last <= Len(updates)
    BY <1>1, <1>2, <1>3
<1>6. /\ answer' \in Seq(Id) /\ Len(answer') = last - Base
      /\ \A i \in 1..Len(answer') : answer'[i] = Base + i
    <2>1. answer' = [i \in 1..last - Base |-> Base + i]
        BY <1>1, <1>2
    <2>2. \A i \in 1..last - Base : Base + i \in Id
        BY <1>3, <1>5 DEF Id
    <2> QED
        BY <1>5, <2>1, <2>2
<1>7. TelegramTypeOK'
    <2>1. confirmed' \in 0..Len(updates')
        BY <1>2, <1>3
    <2> QED
        BY <1>2, <1>3, <1>6, <2>1 DEF TelegramTypeOK
<1>8. BaseKept'
    BY <1>2, <1>3, <1>4, <1>5, <1>6 DEF BaseKept
<1> QED
    BY <1>2, <1>4, <1>7, <1>8, Quiet DEF TelegramInv

\* The steps of the poller that hand nothing on.
LEMMA PollStep ==
    ASSUME TelegramAssumption, TelegramInv,
           GetUpdates \/ GetUpdatesFails \/ Receive \/ BatchDone \/ PollStopped \/ StopPolling
           \/ UNCHANGED telegramVars
    PROVE  TelegramInv'
<1>1. /\ updates' = updates /\ confirmed' = confirmed /\ offset' = offset
      /\ deaths' = deaths /\ heard' = heard
    BY DEF GetUpdates, GetUpdatesFails, Receive, BatchDone, PollStopped, StopPolling,
           telegramVars, telegram, poller
<1>2. Base' = Base
    BY <1>1 DEF Base
<1>3. TelegramTypeOK /\ BaseKept /\ Len(<<>>) = 0
    BY DEF TelegramInv
<1>4. MaxFailures \in Nat
    BY DEF TelegramAssumption
<1>5. failures' \in 0..MaxFailures
    BY <1>3, <1>4 DEF TelegramTypeOK, GetUpdates, GetUpdatesFails, Receive, BatchDone,
           PollStopped, StopPolling, telegramVars
<1>6. /\ answer' \in Seq(Id) /\ batch' \in Seq(Id) /\ stopping' \in BOOLEAN
      /\ poll' \in {"ask", "asked", "answered", "handle", "stopped"}
    <2>1. /\ answer \in Seq(Id) /\ batch \in Seq(Id) /\ stopping \in BOOLEAN
          /\ poll \in {"ask", "asked", "answered", "handle", "stopped"} /\ <<>> \in Seq(Id)
        BY <1>3 DEF TelegramTypeOK
    <2>2. CASE GetUpdates \/ GetUpdatesFails \/ Receive
        BY <2>1, <2>2 DEF GetUpdates, GetUpdatesFails, Receive
    <2>3. CASE BatchDone \/ PollStopped
        BY <2>1, <2>3 DEF BatchDone, PollStopped
    <2>4. CASE StopPolling \/ UNCHANGED telegramVars
        BY <2>1, <2>4 DEF StopPolling, telegramVars, poller
    <2> QED
        BY <2>2, <2>3, <2>4
<1>7. TelegramTypeOK'
    BY <1>1, <1>3, <1>5, <1>6 DEF TelegramTypeOK
<1>8. BaseKept'
    <2>1. CASE GetUpdates \/ GetUpdatesFails \/ BatchDone \/ PollStopped
        <3>1. poll' \in {"asked", "ask", "stopped"}
            BY <2>1 DEF GetUpdates, GetUpdatesFails, BatchDone, PollStopped
        <3> QED
            BY <3>1 DEF BaseKept
    <2>2. CASE Receive
        <3>1. poll = "answered" /\ poll' = "handle" /\ batch' = answer
            BY <2>2 DEF Receive
        <3>2. Base = confirmed
            BY <1>3, <3>1 DEF BaseKept, Base, TelegramTypeOK
        <3> QED
            BY <1>1, <1>2, <1>3, <3>1, <3>2 DEF BaseKept
    <2>3. CASE StopPolling \/ UNCHANGED telegramVars
        <3>1. poll' = poll /\ answer' = answer /\ batch' = batch
            BY <2>3 DEF StopPolling, telegramVars, poller
        <3> QED
            BY <1>1, <1>2, <1>3, <3>1 DEF BaseKept
    <2> QED
        BY <2>1, <2>2, <2>3
<1> QED
    BY <1>1, <1>2, <1>7, <1>8, Quiet DEF TelegramInv

\* A new life has heard nothing, and asks from what is confirmed.
LEMMA RestartStep ==
    ASSUME TelegramAssumption, TelegramInv, Restart
    PROVE  TelegramInv'
<1>1. /\ deaths < MaxDeaths /\ deaths' = deaths + 1
      /\ offset' = 0 /\ poll' = "ask" /\ answer' = <<>> /\ batch' = <<>> /\ stopping' = FALSE
      /\ updates' = updates /\ confirmed' = confirmed /\ failures' = failures /\ heard' = heard
    BY DEF Restart, telegram
<1>2. /\ TelegramTypeOK /\ BaseHeard /\ Ordered /\ MaxDeaths \in Nat
      /\ Base \in Nat /\ confirmed <= Base /\ Base <= Len(updates) /\ Len(updates) \in Nat
    BY BaseType DEF TelegramInv, TelegramAssumption
<1>3. confirmed \in Nat /\ deaths \in 0..MaxDeaths
    BY <1>2 DEF TelegramTypeOK, Life
<1>4. Base' = confirmed
    BY <1>1, <1>3 DEF Base
<1>5. deaths' \in Life /\ deaths' > deaths
    BY <1>1, <1>2, <1>3 DEF Life
<1>6. TelegramTypeOK'
    <2>1. offset' \in 0..Len(updates') + 1 /\ <<>> \in Seq(Id)
        BY <1>1, <1>2
    <2> QED
        BY <1>1, <1>2, <1>5, <2>1 DEF TelegramTypeOK
<1>7. BaseHeard'
    BY <1>1, <1>2, <1>3, <1>4 DEF BaseHeard, EverHeard
<1>8. Present'
    BY <1>1, <1>2, <1>5 DEF Ordered, Present
<1>9. Ordered'
    BY <1>1, <1>2, <1>3 DEF Ordered, Increasing, Life
<1>10. BaseKept'
    BY <1>1 DEF BaseKept
<1> QED
    BY <1>6, <1>7, <1>8, <1>9, <1>10 DEF TelegramInv

\* The update after Base is handled, and Base moves to it.
LEMMA HandleStep ==
    ASSUME TelegramAssumption, TelegramInv, HandleUpdate
    PROVE  TelegramInv'
<1> DEFINE id == Head(batch)
           h == heard[deaths]
<1>1. /\ poll = "handle" /\ batch # <<>> /\ offset' = id + 1 /\ batch' = Tail(batch)
      /\ heard' = IF updates[id] THEN [heard EXCEPT ![deaths] = Append(@, id)] ELSE heard
      /\ updates' = updates /\ confirmed' = confirmed /\ answer' = answer /\ poll' = poll
      /\ stopping' = stopping /\ failures' = failures /\ deaths' = deaths
    BY DEF HandleUpdate, telegram
<1>2. /\ TelegramTypeOK /\ BaseKept /\ BaseHeard /\ Present /\ Ordered
      /\ Base \in Nat /\ confirmed <= Base /\ Base <= Len(updates) /\ Len(updates) \in Nat
    BY BaseType DEF TelegramInv
<1>3. /\ batch \in Seq(Id) /\ heard \in [Life -> Seq(Id)] /\ deaths \in Life
      /\ confirmed \in Nat /\ updates \in Seq(BOOLEAN)
    BY <1>2 DEF TelegramTypeOK
<1>4. /\ \A i \in 1..Len(batch) : batch[i] = Base + i
      /\ Base + Len(batch) <= Len(updates) /\ Len(batch) \in Nat /\ Len(batch) # 0
    BY <1>1, <1>2, <1>3 DEF BaseKept
<1>5. /\ id = Base + 1 /\ id \in Id
      /\ Tail(batch) \in Seq(Id) /\ Len(Tail(batch)) = Len(batch) - 1
      /\ \A i \in 1..Len(batch) - 1 : Tail(batch)[i] = Base + 1 + i
    BY <1>1, <1>2, <1>3, <1>4, Consecutive
<1> HIDE DEF id
<1>6. Base' = Base + 1 /\ id \in 1..Len(updates)
    <2>1. id \in 1..Len(updates)
        BY <1>2, <1>4, <1>5
    <2>2. offset' - 1 = Base + 1 /\ Base + 1 > confirmed'
        BY <1>1, <1>2, <1>3, <1>5
    <2>3. Base' = IF offset' - 1 > confirmed' THEN offset' - 1 ELSE confirmed'
        BY DEF Base
    <2> QED
        BY <2>1, <2>2, <2>3
<1>7. h \in Seq(Id)
    BY <1>3
<1> HIDE DEF h
<1>8. /\ Append(h, id) \in Seq(Id) /\ Append(h, id) # <<>>
      /\ Range(Append(h, id)) = Range(h) \cup {id}
      /\ Last(Append(h, id)) = id
      /\ h # <<>> => Append(h, id)[1] = h[1]
    BY <1>5, <1>7, Appended
<1>9. /\ heard' \in [Life -> Seq(Id)]
      /\ updates[id] => heard'[deaths] = Append(h, id)
      /\ ~updates[id] => heard'[deaths] = h
      /\ \A l \in Life : l # deaths => heard'[l] = heard[l]
    BY <1>1, <1>3, <1>8 DEF h
<1>10. TelegramTypeOK'
    <2>1. offset' \in 0..Len(updates') + 1
        BY <1>1, <1>2, <1>4, <1>5
    <2> QED
        BY <1>1, <1>2, <1>5, <1>9, <2>1 DEF TelegramTypeOK
<1>11. BaseKept'
    <2>1. /\ Len(batch') = Len(batch) - 1
          /\ \A i \in 1..Len(batch') : batch'[i] = Base' + i
        BY <1>1, <1>2, <1>4, <1>5, <1>6
    <2>2. Base' + Len(batch') <= Len(updates')
        BY <1>1, <1>2, <1>4, <1>6, <2>1
    <2> QED
        BY <1>1, <2>1, <2>2 DEF BaseKept
<1>12. \A x \in EverHeard \cup (IF updates[id] THEN {id} ELSE {}) : x \in EverHeard'
    <2>1. ASSUME NEW l \in Life, NEW x \in Range(heard[l]) PROVE x \in Range(heard'[l])
        BY <1>8, <1>9, <2>1 DEF h
    <2>2. updates[id] => id \in Range(heard'[deaths])
        BY <1>8, <1>9
    <2> QED
        BY <1>3, <2>1, <2>2 DEF EverHeard
<1>13. BaseHeard'
    <2> SUFFICES ASSUME NEW x \in 1..Base', updates[x] PROVE x \in EverHeard'
        BY <1>1 DEF BaseHeard
    <2>1. CASE x = id
        BY <1>12, <2>1
    <2>2. CASE x # id
        <3>1. x \in 1..Base
            BY <1>2, <1>5, <1>6, <2>2
        <3> QED
            BY <1>2, <1>12, <3>1 DEF BaseHeard
    <2> QED
        BY <2>1, <2>2
<1>14. /\ \A x \in Range(h) : x <= Base
       /\ h # <<>> => \A x \in h[1]..Base : updates[x] => x \in Range(h)
    <2>1. CASE h = <<>>
        BY <2>1 DEF Range
    <2>2. CASE h # <<>>
        BY <1>2, <2>2 DEF Present, h
    <2> QED
        BY <2>1, <2>2
<1>15. h # <<>> => h[1] \in Nat
    <2>1. h # <<>> => 1 \in DOMAIN h
        BY <1>7
    <2> QED
        BY <1>7, <2>1 DEF Id
<1>16. ASSUME heard'[deaths] # <<>>
       PROVE  /\ \A x \in Range(heard'[deaths]) : x <= Base'
              /\ \A x \in heard'[deaths][1]..Base' : updates[x] => x \in Range(heard'[deaths])
    <2>0. \A x \in Range(h) : x \in Nat
        BY <1>7 DEF Range, Id
    <2>1. CASE updates[id] /\ h = <<>>
        <3>1. heard'[deaths] = <<id>>
            BY <1>9, <2>1
        <3>2. heard'[deaths][1] = id /\ Range(heard'[deaths]) = {id}
            <4>1. heard'[deaths][1] = id
                BY <3>1
            <4>2. Range(h) = {}
                BY <2>1 DEF Range
            <4>3. Range(heard'[deaths]) = {id}
                BY <1>8, <1>9, <2>1, <4>2
            <4> QED
                BY <4>1, <4>3
        <3> QED
            BY <1>2, <1>5, <1>6, <3>2
    <2>2. CASE updates[id] /\ h # <<>>
        <3>1. heard'[deaths][1] = h[1] /\ Range(heard'[deaths]) = Range(h) \cup {id}
            BY <1>8, <1>9, <2>2
        <3>2. ASSUME NEW x \in h[1]..Base', updates[x] PROVE x \in Range(h) \cup {id}
            <4>1. x = id \/ x \in h[1]..Base
                BY <1>2, <1>5, <1>6, <1>15, <2>2
            <4> QED
                BY <1>14, <2>2, <3>2, <4>1
        <3>3. \A x \in Range(h) \cup {id} : x <= Base'
            BY <1>2, <1>5, <1>6, <1>14, <2>0
        <3> QED
            BY <3>1, <3>2, <3>3
    <2>3. CASE ~updates[id]
        <3>1. heard'[deaths] = h /\ h # <<>>
            BY <1>9, <1>16, <2>3
        <3>2. ASSUME NEW x \in h[1]..Base', updates[x] PROVE x \in Range(h)
            <4>1. x = id \/ x \in h[1]..Base
                BY <1>2, <1>5, <1>6, <1>15, <3>1
            <4> QED
                BY <1>14, <2>3, <3>1, <3>2, <4>1
        <3>3. \A x \in Range(h) : x <= Base'
            BY <1>2, <1>6, <1>14, <2>0
        <3> QED
            BY <3>1, <3>2, <3>3
    <2> QED
        BY <2>1, <2>2, <2>3
<1>17. Present'
    BY <1>1, <1>16 DEF Present
<1>18. Ordered'
    <2> SUFFICES ASSUME NEW l \in Life
                 PROVE  /\ l > deaths => heard'[l] = <<>>
                        /\ heard'[l] # <<>> =>
                              /\ Increasing(l)'
                              /\ Range(heard'[l]) \subseteq 1..Len(updates)
                              /\ \A x \in heard'[l][1]..Last(heard'[l]) :
                                    updates[x] => x \in Range(heard'[l])
        BY <1>1 DEF Ordered
    <2>1. CASE l # deaths \/ ~updates[id]
        <3>1. heard'[l] = heard[l]
            BY <1>9, <2>1 DEF h
        <3> QED
            BY <1>2, <3>1 DEF Ordered, Increasing
    <2>2. CASE l = deaths /\ updates[id]
        <3>1. heard'[l] = Append(h, id) /\ ~(l > deaths)
            BY <1>3, <1>9, <2>2 DEF Life
        <3>2. Range(heard'[l]) \subseteq 1..Len(updates)
            <4>1. Range(h) \subseteq 1..Len(updates)
                <5>1. h = <<>> => Range(h) = {}
                    BY DEF Range
                <5> QED
                    BY <1>2, <1>3, <5>1 DEF Ordered, h
            <4> QED
                BY <1>6, <1>8, <3>1, <4>1
        <3>3. \A x \in heard'[l][1]..Last(heard'[l]) : updates[x] => x \in Range(heard'[l])
            <4>1. Last(heard'[l]) = Base'
                BY <1>5, <1>6, <1>8, <3>1
            <4> QED
                BY <1>8, <1>16, <2>2, <3>1, <4>1
        <3>4. Increasing(l)'
            <4> SUFFICES ASSUME NEW i \in DOMAIN Append(h, id), NEW j \in DOMAIN Append(h, id), i < j
                         PROVE  Append(h, id)[i] < Append(h, id)[j]
                BY <3>1 DEF Increasing
            <4>1. /\ i \in 1..Len(h) /\ Append(h, id)[i] = h[i] /\ i \in DOMAIN h
                  /\ Len(h) \in Nat /\ j \in 1..Len(h) + 1
                BY <1>7, <1>5
            <4>2. CASE j = Len(h) + 1
                <5>1. Append(h, id)[j] = id
                    BY <1>7, <4>2
                <5>2. h[i] \in Range(h) /\ h[i] \in Nat
                    BY <1>7, <4>1 DEF Range, Id
                <5> QED
                    BY <1>2, <1>5, <1>14, <4>1, <5>1, <5>2
            <4>3. CASE j # Len(h) + 1
                <5>1. j \in 1..Len(h) /\ Append(h, id)[j] = h[j] /\ j \in DOMAIN h
                    BY <1>7, <4>1, <4>3
                <5>2. h # <<>>
                    BY <4>1
                <5>3. h[i] < h[j]
                    BY <1>2, <1>3, <4>1, <5>1, <5>2 DEF Ordered, Increasing, h
                <5> QED
                    BY <4>1, <5>1, <5>3
            <4> QED
                BY <4>2, <4>3
        <3> QED
            BY <3>1, <3>2, <3>3, <3>4
    <2> QED
        BY <2>1, <2>2
<1> QED
    BY <1>10, <1>11, <1>13, <1>17, <1>18 DEF TelegramInv

-----------------------------------------------------------------------------
LEMMA TelegramStep ==
    TelegramAssumption /\ TelegramInv /\ [TelegramNext]_telegramVars => TelegramInv'
<1> SUFFICES ASSUME TelegramAssumption, TelegramInv, [TelegramNext]_telegramVars
             PROVE  TelegramInv'
    OBVIOUS
<1>1. CASE \E asks \in BOOLEAN : Update(asks)
    BY <1>1, UpdateStep
<1>2. CASE Serve
    BY <1>2, ServeStep
<1>3. CASE HandleUpdate
    BY <1>3, HandleStep
<1>4. CASE Restart
    BY <1>4, RestartStep
<1>5. CASE GetUpdates \/ GetUpdatesFails \/ Receive \/ BatchDone \/ PollStopped \/ StopPolling
           \/ UNCHANGED telegramVars
    BY <1>5, PollStep
<1> QED
    BY <1>1, <1>2, <1>3, <1>4, <1>5 DEF TelegramNext, Poll

LEMMA TelegramAlways == TelegramSpec => []TelegramInv
<1>1. TelegramInit => TelegramInv
    BY TelegramAssumption, TelegramInit0
<1>2. TelegramInv /\ [TelegramNext]_telegramVars => TelegramInv'
    BY TelegramAssumption, TelegramStep
<1> QED
    BY <1>1, <1>2, PTL DEF TelegramSpec

\* Telegram, the poller and the histories keep their types.
THEOREM TelegramTypeCorrect == TelegramSpec => []TelegramTypeOK
<1>1. TelegramInv => TelegramTypeOK
    BY DEF TelegramInv
<1> QED
    BY <1>1, TelegramAlways, PTL

\* What Telegram is told to forget was handed on, over any number of failed
\* polls and deaths.
THEOREM TelegramConfirmedHeard == TelegramSpec => []ConfirmedHeard
<1>1. TelegramInv => ConfirmedHeard
    <2> SUFFICES ASSUME TelegramInv PROVE ConfirmedHeard
        OBVIOUS
    <2>1. confirmed \in Nat /\ Base \in Nat /\ confirmed <= Base
        BY BaseType DEF TelegramInv, TelegramTypeOK
    <2> QED
        BY <2>1 DEF TelegramInv, BaseHeard, ConfirmedHeard
<1> QED
    BY <1>1, TelegramAlways, PTL

\* Each life hands on in order, without repetition and without a gap.
THEOREM TelegramHeardInOrder == TelegramSpec => []HeardInOrder
<1>1. TelegramInv => HeardInOrder
    BY DEF TelegramInv, Ordered, Increasing, HeardInOrder
<1> QED
    BY <1>1, TelegramAlways, PTL

-----------------------------------------------------------------------------
(* Clients implements Calls.                                               *)

\* A second call has a place in the count.
LEMMA EnoughPlaces ==
    ASSUME NEW n \in 0..2, n < 2
    PROVE  n + 1 \in 1..2 /\ n + 1 \in 0..2 /\ n + 1 # n
OBVIOUS

\* What a sender in the middle of a call knows: the call is open, and the
\* platform did what it asks for only if the latest request may have got there.
Underway ==
    \A s \in Sender : sending[s] # "idle" =>
        /\ count[s] # 0
        /\ stage[Current(s)] = "open"
        /\ sending[s] \in {"attempt", "sent", "backoff"} => served[Current(s)] = 0
        /\ sending[s] = "answered" =>
              /\ reply[s] \in {"ok", "garbled"} => served[Current(s)] = 1
              /\ reply[s] \in {"throttled", "refused"} => served[Current(s)] = 0

\* Calls to come.
Untouched ==
    \A s \in Sender, n \in 1..2 : n > count[s] => stage[<<s, n>>] = "new" /\ served[<<s, n>>] = 0

\* The types the proof of the refinement needs.
Counted ==
    /\ count \in [Sender -> 0..2]
    /\ sending \in [Sender -> {"idle", "attempt", "sent", "answered", "backoff"}]
    /\ reply \in [Sender -> {"none", "ok", "garbled", "throttled", "refused", "lost"}]
    /\ stage \in [Call -> {"new", "open", "ok", "failed"}]
    /\ served \in [Call -> Nat]

ClientsInv == Counted /\ Underway /\ Untouched

\* Nobody has called yet.
LEMMA ClientsInvInit == ClientsInit => ClientsInv
<1> SUFFICES ASSUME ClientsInit PROVE ClientsInv
    OBVIOUS
<1>1. Counted
    BY DEF ClientsInit, Counted
<1>2. Underway
    BY DEF ClientsInit, Underway
<1>3. Untouched
    BY DEF ClientsInit, Untouched, Call
<1> QED BY <1>1, <1>2, <1>3 DEF ClientsInv

\* Current is a call once there is one.
LEMMA CurrentIsCall ==
    \A s \in Sender : Counted /\ count[s] # 0 => Current(s) \in Call
BY DEF Counted, Current, Call

\* Whoever is at "s" changes nothing of the others, whatever it does to itself.
LEMMA OthersCalm ==
    ASSUME NEW s \in Sender, NEW x, NEW y, ClientsInv,
           sending' = [sending EXCEPT ![s] = x], count' = count,
           \/ stage' = stage \/ stage' = [stage EXCEPT ![Current(s)] = y],
           \/ reply' = reply \/ \E r : reply' = [reply EXCEPT ![s] = r],
           \/ served' = served \/ served' = [served EXCEPT ![Current(s)] = @ + 1],
           count[s] # 0
    PROVE  /\ \A r \in Sender \ {s} :
                /\ sending'[r] = sending[r] /\ reply'[r] = reply[r] /\ count'[r] = count[r]
                /\ count[r] # 0 => stage'[Current(r)] = stage[Current(r)] /\ served'[Current(r)] = served[Current(r)]
           /\ Untouched'
<1>1. Current(s) \in Call /\ Current(s) = <<s, count[s]>>
    BY CurrentIsCall DEF ClientsInv, Current
<1>2. \A r \in Sender \ {s} : count[r] # 0 => Current(r) \in Call /\ Current(r) # Current(s)
    BY CurrentIsCall DEF ClientsInv, Current
<1>3. \A c \in Call : c # Current(s) => stage'[c] = stage[c] /\ served'[c] = served[c]
    BY <1>1 DEF ClientsInv, Counted
<1>4. \A r \in Sender \ {s} : sending'[r] = sending[r] /\ reply'[r] = reply[r] /\ count'[r] = count[r]
    BY DEF ClientsInv, Counted
<1>5. Untouched'
    <2> SUFFICES ASSUME NEW r \in Sender, NEW n \in 1..2, n > count[r]
                 PROVE  stage'[<<r, n>>] = "new" /\ served'[<<r, n>>] = 0
        BY DEF Untouched
    <2>1. <<r, n>> \in Call /\ <<r, n>> # Current(s)
        BY <1>1 DEF Call, ClientsInv, Counted
    <2> QED BY <2>1, <1>3 DEF ClientsInv, Untouched
<1> QED BY <1>2, <1>3, <1>4, <1>5

\* With the others calm, what remains is the sender's own state.
LEMMA OwnUnderway ==
    ASSUME NEW s \in Sender, ClientsInv, Counted', Untouched',
           \A r \in Sender \ {s} :
                /\ sending'[r] = sending[r] /\ reply'[r] = reply[r] /\ count'[r] = count[r]
                /\ count[r] # 0 => stage'[Current(r)] = stage[Current(r)] /\ served'[Current(r)] = served[Current(r)],
           count' = count,
           sending'[s] # "idle" =>
                /\ stage'[Current(s)] = "open"
                /\ sending'[s] \in {"attempt", "sent", "backoff"} => served'[Current(s)] = 0
                /\ sending'[s] = "answered" =>
                      /\ reply'[s] \in {"ok", "garbled"} => served'[Current(s)] = 1
                      /\ reply'[s] \in {"throttled", "refused"} => served'[Current(s)] = 0,
           count[s] # 0
    PROVE  ClientsInv'
<1>1. \A r \in Sender : Current(r)' = Current(r)
    BY DEF Current
<1>2. Underway'
    <2> SUFFICES ASSUME NEW r \in Sender, (sending[r] # "idle")'
                 PROVE  (/\ count[r] # 0
                         /\ stage[Current(r)] = "open"
                         /\ sending[r] \in {"attempt", "sent", "backoff"} => served[Current(r)] = 0
                         /\ sending[r] = "answered" =>
                               /\ reply[r] \in {"ok", "garbled"} => served[Current(r)] = 1
                               /\ reply[r] \in {"throttled", "refused"} => served[Current(r)] = 0)'
        BY DEF Underway
    <2>1. CASE r = s
        BY <2>1, <1>1
    <2>2. CASE r # s
        BY <2>2, <1>1 DEF ClientsInv, Underway
    <2> QED BY <2>1, <2>2
<1> QED BY <1>2 DEF ClientsInv

\* A goroutine begins a call.
LEMMA BeginStep ==
    ASSUME NEW s \in Sender, NEW k, ClientsInv, Begin(s, k)
    PROVE  ClientsInv' /\ \E c \in Call : Owed!Open(c)
<1> DEFINE c == <<s, count[s] + 1>>
<1>1. c \in Call /\ count[s] \in 0..2 /\ count'[s] = count[s] + 1 /\ Current(s)' = c
    BY EnoughPlaces DEF Begin, ClientsInv, Counted, Call, Current
<1>2. stage[c] = "new" /\ served[c] = 0
    <2>1. count[s] + 1 \in 1..2 /\ count[s] + 1 > count[s]
        BY <1>1 DEF Begin
    <2> QED BY <2>1 DEF ClientsInv, Untouched
<1>3. stage' = [stage EXCEPT ![c] = "open"] /\ served' = served
    BY DEF Begin
<1>4. Owed!Open(c)
    BY <1>2, <1>3 DEF Owed!Open
<1>5. Counted'
    BY <1>1, <1>3, EnoughPlaces DEF Begin, ClientsInv, Counted
<1>6. \A r \in Sender, n \in 1..2 : <<r, n>> # c => stage'[<<r, n>>] = stage[<<r, n>>]
    BY <1>1, <1>3 DEF ClientsInv, Counted, Call
<1>7. Untouched'
    <2> SUFFICES ASSUME NEW r \in Sender, NEW n \in 1..2, n > count'[r]
                 PROVE  stage'[<<r, n>>] = "new" /\ served'[<<r, n>>] = 0
        BY DEF Untouched
    <2>1. n > count[r] /\ <<r, n>> # c
        BY <1>1 DEF Begin, ClientsInv, Counted
    <2> QED BY <2>1, <1>3, <1>6 DEF ClientsInv, Untouched
<1>8. Underway'
    <2> SUFFICES ASSUME NEW r \in Sender, (sending[r] # "idle")'
                 PROVE  (/\ count[r] # 0
                         /\ stage[Current(r)] = "open"
                         /\ sending[r] \in {"attempt", "sent", "backoff"} => served[Current(r)] = 0
                         /\ sending[r] = "answered" =>
                               /\ reply[r] \in {"ok", "garbled"} => served[Current(r)] = 1
                               /\ reply[r] \in {"throttled", "refused"} => served[Current(r)] = 0)'
        BY DEF Underway
    <2>1. CASE r = s
        <3>1. sending'[s] = "attempt" /\ stage'[c] = "open" /\ served'[c] = 0
            BY <1>1, <1>2, <1>3 DEF Begin, ClientsInv, Counted
        <3> QED BY <2>1, <3>1, <1>1 DEF ClientsInv
    <2>2. CASE r # s
        <3>1. sending'[r] = sending[r] /\ count'[r] = count[r] /\ reply'[r] = reply[r] /\ Current(r)' = Current(r)
            BY <2>2 DEF Begin, ClientsInv, Counted, Current
        <3>2. count[r] # 0 => Current(r) \in Call /\ Current(r) # c
            BY <2>2, CurrentIsCall DEF ClientsInv, Current
        <3>3. count[r] # 0 => stage'[Current(r)] = stage[Current(r)]
            BY <3>2, <1>3 DEF ClientsInv, Counted
        <3> QED BY <3>1, <3>3, <1>3 DEF ClientsInv, Underway
    <2> QED BY <2>1, <2>2
<1> QED BY <1>1, <1>4, <1>5, <1>7, <1>8 DEF ClientsInv

\* The end of a call that failed.
LEMMA FailedStep ==
    ASSUME NEW s \in Sender, ClientsInv, sending[s] # "idle", Failed(s)
    PROVE  ClientsInv' /\ \E c \in Call : Owed!Fail(c)
<1>1. count[s] # 0 /\ Current(s) \in Call /\ stage[Current(s)] = "open"
    BY CurrentIsCall DEF ClientsInv, Underway
<1>2. /\ sending' = [sending EXCEPT ![s] = "idle"] /\ stage' = [stage EXCEPT ![Current(s)] = "failed"]
      /\ count' = count /\ reply' = reply /\ served' = served
    BY DEF Failed
<1>3. Owed!Fail(Current(s))
    BY <1>1, <1>2 DEF Owed!Fail
<1>4. Counted'
    BY <1>1, <1>2 DEF ClientsInv, Counted
<1>5. sending'[s] = "idle"
    BY <1>2 DEF ClientsInv, Counted
<1> HIDE DEF Failed
<1> QED BY <1>1, <1>2, <1>3, <1>4, <1>5, OthersCalm, OwnUnderway

\* A step of a sender, or of its platform, that leaves the call open and undone.
LEMMA OpenStep ==
    ASSUME NEW s \in Sender, NEW x \in {"attempt", "sent", "backoff"}, ClientsInv,
           sending[s] \in {"attempt", "sent", "backoff"} \/ (sending[s] = "answered" /\ reply[s] = "throttled"),
           sending' = [sending EXCEPT ![s] = x],
           count' = count, reply' = reply, stage' = stage, served' = served
    PROVE  ClientsInv'
<1>1. count[s] # 0 /\ stage[Current(s)] = "open" /\ served[Current(s)] = 0
    BY DEF ClientsInv, Underway
<1>2. Counted' /\ sending'[s] = x
    BY DEF ClientsInv, Counted
<1> QED BY <1>1, <1>2, OthersCalm, OwnUnderway

\* The platform does what the call asks for, once.
LEMMA PerformStep ==
    ASSUME NEW s \in Sender, ClientsInv, Perform(s)
    PROVE  ClientsInv' /\ \E c \in Call : Owed!Serve(c)
<1>1. sending[s] = "sent"
    BY DEF Perform
<1>2. count[s] # 0 /\ Current(s) \in Call /\ stage[Current(s)] = "open" /\ served[Current(s)] = 0
    BY <1>1, CurrentIsCall DEF ClientsInv, Underway
<1>3. PICK a \in {"ok", "garbled", "lost"} : Answered(s, a)
    BY DEF Perform
<1>4. /\ sending' = [sending EXCEPT ![s] = "answered"] /\ reply' = [reply EXCEPT ![s] = a]
      /\ count' = count /\ stage' = stage
    BY <1>3 DEF Answered
<1>5. served' = [served EXCEPT ![Current(s)] = @ + 1]
    BY DEF Perform
<1>6. served'[Current(s)] = 1 /\ served' = [served EXCEPT ![Current(s)] = 1]
    BY <1>2, <1>5 DEF ClientsInv, Counted
<1>7. Owed!Serve(Current(s))
    BY <1>2, <1>4, <1>6 DEF Owed!Serve
<1>8. Counted' /\ sending'[s] = "answered" /\ reply'[s] = a
    BY <1>2, <1>4, <1>6 DEF ClientsInv, Counted
<1>9. a \notin {"throttled", "refused"}
    OBVIOUS
<1> QED BY <1>2, <1>4, <1>5, <1>6, <1>7, <1>8, <1>9, OthersCalm, OwnUnderway

\* The platform does nothing, and says so or does not.
LEMMA RefuseStep ==
    ASSUME NEW s \in Sender, ClientsInv, Refuse(s)
    PROVE  ClientsInv' /\ stage' = stage /\ served' = served
<1>1. sending[s] = "sent" /\ served' = served
    BY DEF Refuse
<1>2. count[s] # 0 /\ stage[Current(s)] = "open" /\ served[Current(s)] = 0
    BY <1>1 DEF ClientsInv, Underway
<1>3. PICK a \in {"throttled", "refused", "lost"} : Answered(s, a)
    BY DEF Refuse
<1>4. /\ sending' = [sending EXCEPT ![s] = "answered"] /\ reply' = [reply EXCEPT ![s] = a]
      /\ count' = count /\ stage' = stage
    BY <1>3 DEF Answered
<1>5. Counted' /\ sending'[s] = "answered" /\ reply'[s] = a
    BY <1>1, <1>4 DEF ClientsInv, Counted
<1>6. a \notin {"ok", "garbled"}
    OBVIOUS
<1> QED BY <1>1, <1>2, <1>4, <1>5, <1>6, OthersCalm, OwnUnderway

\* The end of a call that reports success.
LEMMA SucceedStep ==
    ASSUME NEW s \in Sender, ClientsInv, Succeed(s)
    PROVE  ClientsInv' /\ \E c \in Call : Owed!Succeed(c)
<1>1. sending[s] = "answered" /\ reply[s] \in {"ok", "garbled"}
    BY DEF Succeed, Success
<1>2. count[s] # 0 /\ Current(s) \in Call /\ stage[Current(s)] = "open" /\ served[Current(s)] = 1
    BY <1>1, CurrentIsCall DEF ClientsInv, Underway
<1>3. /\ sending' = [sending EXCEPT ![s] = "idle"] /\ stage' = [stage EXCEPT ![Current(s)] = "ok"]
      /\ count' = count /\ reply' = reply /\ served' = served
    BY DEF Succeed
<1>4. Owed!Succeed(Current(s))
    BY <1>2, <1>3 DEF Owed!Succeed
<1>5. Counted' /\ sending'[s] = "idle"
    BY <1>2, <1>3 DEF ClientsInv, Counted
<1> QED BY <1>2, <1>3, <1>4, <1>5, OthersCalm, OwnUnderway

\* A step of the client.
LEMMA WorkStep ==
    ASSUME NEW s \in Sender, ClientsInv, Work(s)
    PROVE  ClientsInv' /\ [Owed!CallsNext]_<<stage, served>>
<1>1. CASE CannotSend(s) \/ ReadFailure(s) \/ GiveUp(s)
    <2>1. sending[s] # "idle" /\ Failed(s)
        BY <1>1 DEF CannotSend, ReadFailure, GiveUp
    <2> QED BY <2>1, FailedStep DEF Owed!CallsNext
<1>2. CASE Transmit(s)
    <2>1. sending[s] = "attempt" /\ sending' = [sending EXCEPT ![s] = "sent"]
          /\ count' = count /\ reply' = reply /\ stage' = stage /\ served' = served
        BY <1>2 DEF Transmit
    <2> QED BY <2>1, OpenStep
<1>3. CASE Succeed(s)
    BY <1>3, SucceedStep DEF Owed!CallsNext
<1>4. CASE WaitBackoff(s)
    <2>1. sending[s] = "answered" /\ reply[s] = "throttled" /\ sending' = [sending EXCEPT ![s] = "backoff"]
          /\ count' = count /\ reply' = reply /\ stage' = stage /\ served' = served
        BY <1>4 DEF WaitBackoff, Throttled
    <2> QED BY <2>1, OpenStep
<1>5. CASE Again(s)
    <2>1. sending[s] = "backoff" /\ sending' = [sending EXCEPT ![s] = "attempt"]
          /\ count' = count /\ reply' = reply /\ stage' = stage /\ served' = served
        BY <1>5 DEF Again
    <2> QED BY <2>1, OpenStep
<1> QED BY <1>1, <1>2, <1>3, <1>4, <1>5 DEF Work

\* Every step of the clients is one of Calls, or changes nothing Calls sees.
LEMMA ClientsInvStep ==
    ASSUME ClientsInv, [ClientsNext]_clientVars
    PROVE  ClientsInv' /\ [Owed!CallsNext]_<<stage, served>>
<1>1. CASE UNCHANGED clientVars
    BY <1>1 DEF clientVars, ClientsInv, Counted, Underway, Untouched, Current
<1>2. ASSUME NEW s \in Sender, NEW k, Begin(s, k)
      PROVE  ClientsInv' /\ [Owed!CallsNext]_<<stage, served>>
    BY <1>2, BeginStep DEF Owed!CallsNext
<1>3. ASSUME NEW s \in Sender, Platform(s)
      PROVE  ClientsInv' /\ [Owed!CallsNext]_<<stage, served>>
    BY <1>3, PerformStep, RefuseStep DEF Platform, Owed!CallsNext
<1> QED BY <1>1, <1>2, <1>3, WorkStep DEF ClientsNext

\* Every call of a messenger or a provider ends once, posts its message at
\* most once over all its retries, and reports success only if it did: the
\* whole of Clients implements Calls.
THEOREM ClientsImplementCalls == ClientsSpec => ClientsDeliver
<1>1. ClientsInit => Owed!CallsInit
    BY DEF ClientsInit, Owed!CallsInit
<1>2. ClientsInv /\ [ClientsNext]_clientVars => ClientsInv' /\ [Owed!CallsNext]_(Owed!callVars)
    BY ClientsInvStep DEF Owed!callVars
<1> QED BY <1>1, <1>2, ClientsInvInit, PTL DEF ClientsSpec, ClientsDeliver, Owed!CallsSpec

-----------------------------------------------------------------------------
(* Where the messages of Clients are.                                      *)

\* A call is a chat to a provider, or something to a messenger; what replies
\* has a ref to reply to.
Kinds(s) ==
    /\ client \notin Messenger => kind[s] \in {"none", "chat"}
    /\ kind[s] = "reply" => ref[s] # NoRef

\* A ref is the alert's message; only Teams' may be without an ID.
Referred(s) ==
    /\ ref[s] # NoRef => ref[s].id \in Nat /\ (client \in {"slack", "telegram"} => ref[s].id # 0)
    /\ RefIsOwn(s)

\* A place sender s's alert allows.
Lands(s, place) ==
    IF alert[s].mention # None THEN place.channel.of = alert[s].mention.channel
    ELSE (alert[s].override # None /\ (client = "telegram" => alert[s].override.by = "id"))
            => place.channel.of = alert[s].override.of

\* What is on the platform: of a call that was made; somewhere; where the
\* alert asks for it; and if of the latest call, where that would still put it.
Posted(i) ==
    /\ wall[i].by[2] <= count[wall[i].by[1]]
    /\ client \in Messenger => wall[i].place.channel # None
    /\ client \in {"slack", "telegram"} => Lands(wall[i].by[1], wall[i].place)
    /\ wall[i].by = Current(wall[i].by[1]) =>
          wall[i].place = PlaceOf(wall[i].by[1]) /\ wall[i].edits = Edits(wall[i].by[1])

HomeById == client # "slack" /\ home # None => home.by = "id"

\* What the platform did can be seen there.
Visible == \A c \in Call : served[c] # 0 => \E i \in DOMAIN wall : wall[i].by = c

Placing ==
    /\ HomeById /\ Visible
    /\ \A s \in Sender : Kinds(s) /\ Referred(s)
    /\ \A i \in DOMAIN wall : Posted(i)

PlacesInv == ClientsTypeOK /\ ClientsInv /\ Placing

\* The platform is empty.
LEMMA PlacesInvInit == ClientsInit => PlacesInv
<1> SUFFICES ASSUME ClientsInit PROVE PlacesInv
    OBVIOUS
<1>1. ClientsTypeOK
    <2>1. NoRef \in [channel : Written \cup {None}, id : Int]
        BY DEF NoRef
    <2> QED BY <2>1 DEF ClientsInit, ClientsTypeOK
<1>2. HomeById
    BY DEF ClientsInit, HomeById
<1>3. DOMAIN wall = {} /\ Visible
    BY DEF ClientsInit, Visible
<1>4. ASSUME NEW s \in Sender PROVE Kinds(s) /\ Referred(s)
    BY DEF ClientsInit, Kinds, Referred, RefIsOwn
<1> QED BY <1>1, <1>2, <1>3, <1>4, ClientsInvInit DEF PlacesInv, Placing

\* The elements of a sequence.
LEMMA InSequence ==
    ASSUME NEW S, NEW s \in Seq(S), NEW i \in DOMAIN s
    PROVE  i \in 1..Len(s) /\ i # 0 /\ s[i] \in S
OBVIOUS

\* What is on the platform.
LEMMA WallTyped ==
    ASSUME PlacesInv, NEW i \in DOMAIN wall
    PROVE  /\ i \in 1..Len(wall) /\ i # 0
           /\ wall[i].by \in Call /\ wall[i].by[1] \in Sender /\ wall[i].by[2] \in 1..2
           /\ wall[i].by = <<wall[i].by[1], wall[i].by[2]>>
           /\ wall[i].place \in Place
<1>1. wall \in Seq([by : Call, place : Place, edits : Nat])
    BY DEF PlacesInv, ClientsTypeOK
<1>2. i \in 1..Len(wall) /\ i # 0 /\ wall[i] \in [by : Call, place : Place, edits : Nat]
    BY <1>1, InSequence
<1>3. \A c \in Call : c[1] \in Sender /\ c[2] \in 1..2 /\ c = <<c[1], c[2]>>
    BY DEF Call
<1> QED BY <1>2, <1>3

\* What an alert asks for.
LEMMA Asking ==
    ASSUME ClientsTypeOK, NEW s \in Sender
    PROVE  /\ alert[s].override \in Written \cup {None}
           /\ alert[s].mention \in Origin \cup {None}
BY ClientsAssumption DEF ClientsTypeOK

\* A call has a place, and edits a message or none.
LEMMA PlaceTyped ==
    ASSUME PlacesInv, NEW s \in Sender
    PROVE  PlaceOf(s) \in Place /\ Edits(s) \in Nat
<1>1. ref[s].channel \in Written \cup {None} /\ home \in Written \cup {None}
    BY DEF PlacesInv, ClientsTypeOK
<1>2. kind[s] = "reply" => ref[s].id \in Nat
    BY DEF PlacesInv, Placing, Kinds, Referred
<1>3. ById(Hook) \in Written /\ \A o \in Origin : ById(o.channel) \in Written
    BY ClientsAssumption DEF ById, Written, Origin
<1>4. alert[s].override \in Written \cup {None} /\ alert[s].mention \in Origin \cup {None}
    BY Asking DEF PlacesInv
<1>5. FromMention(s) => ById(alert[s].mention.channel) \in Written /\ alert[s].mention.thread \in Nat
    BY <1>3, <1>4 DEF FromMention, Origin
<1>6. SlackTarget(s) \in Place /\ TelegramTarget(s) \in Place /\ Conversation(s) \in Written \cup {None}
    BY <1>1, <1>4, <1>5 DEF SlackTarget, TelegramTarget, Conversation, Place
<1>7. TargetOf(s) \in Place
    BY <1>3, <1>6 DEF TargetOf, Place
<1>8. kind[s] = "reply" => ReplyPlace(s) \in Place
    BY <1>1, <1>2, <1>3 DEF ReplyPlace, Place
<1> QED BY <1>2, <1>7, <1>8 DEF PlaceOf, Edits

\* On Slack and Telegram that is a place the alert allows.
LEMMA PlaceAllowed ==
    ASSUME PlacesInv, NEW s \in Sender, client \in {"slack", "telegram"}
    PROVE  Lands(s, PlaceOf(s))
<1>1. CASE kind[s] = "reply"
    <2> DEFINE i == ref[s].id
    <2>1. ref[s] # NoRef /\ i # 0
        BY <1>1 DEF PlacesInv, Placing, Kinds, Referred
    <2>2. /\ i \in DOMAIN wall /\ wall[i].by[1] = s
          /\ ref[s].channel = ById(wall[i].place.channel.of)
        BY <2>1 DEF PlacesInv, Placing, Referred, RefIsOwn
    <2>3. Lands(s, wall[i].place)
        BY <2>2 DEF PlacesInv, Placing, Posted
    <2>4. ref[s].channel.of = wall[i].place.channel.of
        BY <2>2 DEF ById
    <2>5. PlaceOf(s).channel = ref[s].channel
        BY <1>1 DEF PlaceOf, ReplyPlace
    <2> QED BY <2>3, <2>4, <2>5 DEF Lands
<1>2. CASE kind[s] # "reply" /\ client = "slack"
    BY <1>2 DEF PlaceOf, TargetOf, SlackTarget, FromMention, ById, Lands
<1>3. CASE kind[s] # "reply" /\ client = "telegram"
    <2>1. PlaceOf(s).channel = TelegramTarget(s).channel
        BY <1>3 DEF PlaceOf, TargetOf, TelegramTarget
    <2> QED BY <1>3, <2>1 DEF TelegramTarget, FromMention, ById, Lands
<1> QED BY <1>1, <1>2, <1>3

\* Channels are known by their ID wherever the platform does not give it back.
LEMMA PlaceById ==
    ASSUME PlacesInv, NEW s \in Sender, client \in {"telegram", "bot"},
           kind[s] # "reply", PlaceOf(s).channel # None
    PROVE  PlaceOf(s).channel = ById(PlaceOf(s).channel.of)
<1>1. \A w \in Written : w.by = "id" => w = ById(w.of)
    BY DEF Written, ById
<1>2. home # None => home = ById(home.of)
    BY <1>1 DEF PlacesInv, Placing, HomeById, ClientsTypeOK
<1>3. alert[s].override # None /\ alert[s].override.by = "id" => alert[s].override = ById(alert[s].override.of)
    BY <1>1, Asking DEF PlacesInv
<1>4. ById(alert[s].mention.channel) = ById(ById(alert[s].mention.channel).of)
    BY DEF ById
<1>5. CASE client = "telegram"
    <2>1. PlaceOf(s).channel = TelegramTarget(s).channel
        BY <1>5 DEF PlaceOf, TargetOf, TelegramTarget
    <2> QED BY <1>2, <1>3, <1>4, <2>1 DEF TelegramTarget
<1>6. CASE client = "bot"
    <2>1. PlaceOf(s).channel = Conversation(s)
        BY <1>6 DEF PlaceOf, TargetOf
    <2> QED BY <1>2, <1>4, <2>1 DEF Conversation
<1> QED BY <1>5, <1>6

\* A place depends on the setting, the kind of the call and, in a reply, the ref.
LEMMA PlaceKept ==
    ASSUME NEW s \in Sender, UNCHANGED setting, kind'[s] = kind[s],
           ref'[s] = ref[s] \/ kind[s] # "reply"
    PROVE  PlaceOf(s)' = PlaceOf(s) /\ Edits(s)' = Edits(s)
<1>1. client' = client /\ home' = home /\ alert' = alert
    BY DEF setting
<1>2. CASE kind[s] = "reply"
    BY <1>1, <1>2 DEF PlaceOf, ReplyPlace, Edits
<1>3. CASE kind[s] # "reply"
    <2>1. TargetOf(s)' = TargetOf(s)
        BY <1>1 DEF TargetOf, SlackTarget, TelegramTarget, Conversation, FromMention
    <2> QED BY <1>1, <1>3, <2>1 DEF PlaceOf, Edits
<1> QED BY <1>2, <1>3

\* Steps that post nothing, begin nothing and return no ref.
LEMMA QuietPlaces ==
    ASSUME PlacesInv, UNCHANGED <<setting, count, kind, ref, served, wall>>
    PROVE  Placing'
<1>1. UNCHANGED <<client, home, alert, count, kind, ref, served, wall>>
    BY DEF setting
<1>2. HomeById' /\ Visible'
    BY <1>1 DEF PlacesInv, Placing, HomeById, Visible
<1>3. ASSUME NEW s \in Sender PROVE Kinds(s)' /\ Referred(s)'
    BY <1>1 DEF PlacesInv, Placing, Kinds, Referred, RefIsOwn
<1>4. ASSUME NEW i \in DOMAIN wall PROVE Posted(i)'
    <2>1. wall[i].by[1] \in Sender
        BY WallTyped
    <2>2. PlaceOf(wall[i].by[1])' = PlaceOf(wall[i].by[1]) /\ Edits(wall[i].by[1])' = Edits(wall[i].by[1])
        BY <1>1, <2>1, PlaceKept
    <2>3. Posted(i)
        BY DEF PlacesInv, Placing
    <2> QED BY <1>1, <2>2, <2>3 DEF Posted, Lands, Current
<1> QED BY <1>1, <1>2, <1>3, <1>4 DEF Placing

\* A call begins: nothing on the platform is of it yet.
LEMMA BeginPlaces ==
    ASSUME PlacesInv, NEW s \in Sender, NEW k, Begin(s, k)
    PROVE  Placing'
<1>1. /\ UNCHANGED <<client, home, alert, ref, served, wall>> /\ UNCHANGED setting
      /\ count' = [count EXCEPT ![s] = @ + 1] /\ kind' = [kind EXCEPT ![s] = k]
      /\ k = "reply" => ref[s] # NoRef
      /\ client \notin Messenger => k = "chat"
    BY DEF Begin, setting
<1>2. count \in [Sender -> 0..2] /\ kind \in [Sender -> {"none", "alert", "analysis", "error", "reply", "chat"}]
    BY DEF PlacesInv, ClientsTypeOK
<1>3. HomeById' /\ Visible'
    BY <1>1 DEF PlacesInv, Placing, HomeById, Visible
<1>4. ASSUME NEW r \in Sender PROVE Kinds(r)' /\ Referred(r)'
    <2>1. kind'[r] = IF r = s THEN k ELSE kind[r]
        BY <1>1, <1>2
    <2>2. Kinds(r) /\ Referred(r)
        BY DEF PlacesInv, Placing
    <2>3. Referred(r)'
        BY <1>1, <2>2 DEF Referred, RefIsOwn
    <2>4. Kinds(r)'
        BY <1>1, <2>1, <2>2 DEF Kinds
    <2> QED BY <2>3, <2>4
<1>5. ASSUME NEW i \in DOMAIN wall PROVE Posted(i)'
    <2> DEFINE r == wall[i].by[1]
    <2>1. r \in Sender /\ wall[i].by[2] \in 1..2 /\ wall[i].by = <<r, wall[i].by[2]>> /\ Posted(i)
        BY WallTyped DEF PlacesInv, Placing
    <2>2. wall[i].by[2] <= count[r] /\ count[r] \in 0..2
        BY <1>2, <2>1 DEF Posted
    <2>3. wall[i].by[2] <= count'[r]
        BY <1>1, <1>2, <2>1, <2>2
    <2>4. CASE r = s
        <3>1. count'[r] = count[r] + 1
            BY <1>1, <1>2, <2>4
        <3>2. wall[i].by # <<r, count'[r]>>
            BY <2>1, <2>2, <3>1
        <3> QED BY <1>1, <2>1, <2>3, <3>2 DEF Posted, Lands, Current
    <2>5. CASE r # s
        <3>1. count'[r] = count[r] /\ kind'[r] = kind[r] /\ ref'[r] = ref[r]
            BY <1>1, <1>2, <2>1, <2>5
        <3>2. PlaceOf(r)' = PlaceOf(r) /\ Edits(r)' = Edits(r)
            BY <1>1, <2>1, <3>1, PlaceKept
        <3> QED BY <1>1, <2>1, <3>1, <3>2 DEF Posted, Lands, Current
    <2> QED BY <2>4, <2>5
<1> QED BY <1>1, <1>3, <1>4, <1>5 DEF Placing

\* The platform posts a message, or edits one, where the call asks for it.
LEMMA PerformPlaces ==
    ASSUME PlacesInv, NEW s \in Sender, Perform(s)
    PROVE  Placing'
<1> DEFINE e == [by |-> Current(s), place |-> PlaceOf(s), edits |-> Edits(s)]
<1>0. PICK n : n = Len(wall) + 1
    OBVIOUS
<1>1. /\ UNCHANGED <<client, home, alert, count, kind, ref>> /\ UNCHANGED setting
      /\ served' = [served EXCEPT ![Current(s)] = @ + 1] /\ wall' = Append(wall, e)
      /\ client \in Messenger => PlaceOf(s).channel # None
      /\ sending[s] = "sent"
    BY DEF Perform, Answered, setting
<1>2. /\ count[s] \in 0..2 /\ Current(s) \in Call /\ Current(s) = <<s, count[s]>>
    BY <1>1, CurrentIsCall DEF PlacesInv, ClientsInv, Counted, Underway, Current
<1>3. /\ DOMAIN wall' = DOMAIN wall \cup {n} /\ n \notin DOMAIN wall /\ wall'[n] = e
      /\ \A i \in DOMAIN wall : wall'[i] = wall[i]
    <2>1. wall \in Seq([by : Call, place : Place, edits : Nat])
        BY DEF PlacesInv, ClientsTypeOK
    <2>2. Len(wall) \in Nat /\ DOMAIN wall = 1..Len(wall)
        BY <2>1
    <2>3. e \in [by : Call, place : Place, edits : Nat]
        BY <1>2, PlaceTyped
    <2>4. /\ Len(Append(wall, e)) = Len(wall) + 1 /\ DOMAIN Append(wall, e) = 1..(Len(wall) + 1)
          /\ Append(wall, e)[Len(wall) + 1] = e
          /\ \A i \in 1..Len(wall) : Append(wall, e)[i] = wall[i]
        BY <2>1, <2>3
    <2> HIDE DEF e
    <2> QED BY <1>0, <1>1, <2>2, <2>4
<1>4. HomeById'
    BY <1>1 DEF PlacesInv, Placing, HomeById
<1>5. Visible'
    <2> SUFFICES ASSUME NEW c \in Call, served'[c] # 0
                 PROVE  \E i \in DOMAIN wall' : wall'[i].by = c
        BY DEF Visible
    <2>1. CASE c = Current(s)
        BY <1>3, <2>1
    <2>2. CASE c # Current(s)
        <3>1. served'[c] = served[c]
            BY <1>1, <2>2 DEF PlacesInv, ClientsTypeOK
        <3>2. PICK i \in DOMAIN wall : wall[i].by = c
            BY <3>1 DEF PlacesInv, Placing, Visible
        <3> QED BY <1>3, <3>2
    <2> QED BY <2>1, <2>2
<1> HIDE DEF e
<1>6. ASSUME NEW r \in Sender PROVE Kinds(r)' /\ Referred(r)'
    <2>1. Kinds(r) /\ Referred(r)
        BY DEF PlacesInv, Placing
    <2> QED BY <1>1, <1>3, <2>1 DEF Kinds, Referred, RefIsOwn
<1>7. \A r \in Sender : PlaceOf(r)' = PlaceOf(r) /\ Edits(r)' = Edits(r)
    BY <1>1, PlaceKept
<1>8. ASSUME NEW i \in DOMAIN wall PROVE Posted(i)'
    <2>1. Posted(i) /\ wall[i].by[1] \in Sender
        BY WallTyped DEF PlacesInv, Placing
    <2> QED BY <1>1, <1>3, <1>7, <2>1 DEF Posted, Lands, Current
<1>9. Posted(n)'
    <2>1. e.by = Current(s) /\ e.by[1] = s /\ e.by[2] = count[s] /\ e.place = PlaceOf(s) /\ e.edits = Edits(s)
        BY <1>2 DEF e
    <2>2. client \in {"slack", "telegram"} => Lands(s, PlaceOf(s))
        BY PlaceAllowed
    <2> QED BY <1>1, <1>2, <1>3, <1>7, <2>1, <2>2 DEF Posted, Lands, Current
<1> QED BY <1>3, <1>4, <1>5, <1>6, <1>8, <1>9 DEF Placing

\* SendAlert returns the ref of its own message.
LEMMA NewRefIsOwn ==
    ASSUME PlacesInv, NEW s \in Sender, sending[s] = "answered", Success(s), kind[s] = "alert"
    PROVE  /\ NewRef(s).id \in Nat /\ NewRef(s) # NoRef
           /\ client \in {"slack", "telegram"} => NewRef(s).id # 0
           /\ NewRef(s).id # 0 =>
                /\ NewRef(s).id \in DOMAIN wall
                /\ wall[NewRef(s).id].by = Current(s) /\ wall[NewRef(s).id].by[1] = s
                /\ wall[NewRef(s).id].edits = 0
                /\ NewRef(s).channel = ById(wall[NewRef(s).id].place.channel.of)
<1>1. client \in Messenger
    BY DEF PlacesInv, Placing, Kinds
<1>2. Current(s) \in Call /\ served[Current(s)] = 1 /\ reply[s] \in {"ok", "garbled"} /\ Current(s)[1] = s
    BY CurrentIsCall DEF PlacesInv, ClientsInv, Underway, Success, Current
<1>3. \E i \in DOMAIN wall : wall[i].by = Current(s)
    BY <1>2 DEF PlacesInv, Placing, Visible
<1>4. Mine(s) \in DOMAIN wall /\ wall[Mine(s)].by = Current(s)
    BY <1>3 DEF Mine
<1>5. /\ Mine(s) \in Nat /\ Mine(s) # 0
      /\ wall[Mine(s)].place = PlaceOf(s) /\ wall[Mine(s)].edits = Edits(s) /\ PlaceOf(s).channel # None
    <2>1. Posted(Mine(s))
        BY <1>4 DEF PlacesInv, Placing
    <2>2. wall[Mine(s)].by = Current(wall[Mine(s)].by[1])
        BY <1>2, <1>4
    <2>3. Mine(s) \in 1..Len(wall) /\ Mine(s) # 0
        BY <1>4, WallTyped
    <2>4. Len(wall) \in Nat
        BY DEF PlacesInv, ClientsTypeOK
    <2> QED BY <1>1, <1>2, <1>4, <2>1, <2>2, <2>3, <2>4 DEF Posted
<1>6. Edits(s) = 0
    BY DEF Edits
<1>7. NewRef(s).id \in {0, Mine(s)}
    BY DEF NewRef
<1>8. NewRef(s) # NoRef
    BY <1>5, <1>7 DEF NoRef
<1>9. client \in {"slack", "telegram"} => NewRef(s).id = Mine(s)
    BY DEF NewRef, Success, Teams
<1>10. NewRef(s).id # 0 => NewRef(s).channel = ById(PlaceOf(s).channel.of)
    <2>1. CASE client = "slack"
        BY <2>1 DEF NewRef, Teams
    <2>2. CASE client = "telegram"
        <3>1. NewRef(s).channel = PlaceOf(s).channel
            BY <2>2 DEF NewRef, Teams
        <3> QED BY <1>5, <2>2, <3>1, PlaceById
    <2>3. CASE client = "bot"
        <3>1. NewRef(s).channel = PlaceOf(s).channel
            BY <2>3 DEF NewRef, Teams, PlaceOf, TargetOf
        <3> QED BY <1>5, <2>3, <3>1, PlaceById
    <2>4. CASE client = "webhook"
        BY <2>4 DEF NewRef
    <2> QED BY <1>1, <2>1, <2>2, <2>3, <2>4 DEF Messenger
<1> QED BY <1>2, <1>4, <1>5, <1>6, <1>7, <1>8, <1>9, <1>10

\* A call succeeds.
LEMMA SucceedPlaces ==
    ASSUME PlacesInv, NEW s \in Sender, Succeed(s)
    PROVE  Placing'
<1>1. CASE kind[s] # "alert"
    BY <1>1, QuietPlaces DEF Succeed
<1>2. CASE kind[s] = "alert"
    <2>1. /\ UNCHANGED <<client, home, alert, count, kind, served, wall>> /\ UNCHANGED setting
          /\ sending[s] = "answered" /\ Success(s) /\ ref' = [ref EXCEPT ![s] = NewRef(s)]
        BY <1>2 DEF Succeed, setting
    <2>2. ref'[s] = NewRef(s) /\ \A r \in Sender \ {s} : ref'[r] = ref[r]
        BY <2>1 DEF PlacesInv, ClientsTypeOK
    <2>3. HomeById' /\ Visible'
        BY <2>1 DEF PlacesInv, Placing, HomeById, Visible
    <2>4. Kinds(s)' /\ Referred(s)'
        <3>1. Kinds(s)
            BY DEF PlacesInv, Placing
        <3>2. /\ ref'[s].id \in Nat /\ ref'[s] # NoRef
              /\ client \in {"slack", "telegram"} => ref'[s].id # 0
              /\ ref'[s].id # 0 =>
                    /\ ref'[s].id \in DOMAIN wall
                    /\ wall[ref'[s].id].by[1] = s
                    /\ wall[ref'[s].id].edits = 0
                    /\ ref'[s].channel = ById(wall[ref'[s].id].place.channel.of)
            BY <1>2, <2>1, <2>2, NewRefIsOwn
        <3>3. Kinds(s)'
            BY <2>1, <3>1, <3>2 DEF Kinds
        <3>4. Referred(s)'
            BY <2>1, <3>2 DEF Referred, RefIsOwn, NoRef
        <3> QED BY <3>3, <3>4
    <2>5. ASSUME NEW r \in Sender \ {s} PROVE Kinds(r)' /\ Referred(r)'
        <3>1. Kinds(r) /\ Referred(r) /\ ref'[r] = ref[r]
            BY <2>2 DEF PlacesInv, Placing
        <3> QED BY <2>1, <3>1 DEF Kinds, Referred, RefIsOwn
    <2>6. \A r \in Sender : PlaceOf(r)' = PlaceOf(r) /\ Edits(r)' = Edits(r)
        BY <1>2, <2>1, <2>2, PlaceKept
    <2>7. ASSUME NEW i \in DOMAIN wall PROVE Posted(i)'
        <3>1. Posted(i) /\ wall[i].by[1] \in Sender
            BY WallTyped DEF PlacesInv, Placing
        <3> QED BY <2>1, <2>6, <3>1 DEF Posted, Lands, Current
    <2> QED BY <2>1, <2>3, <2>4, <2>5, <2>7 DEF Placing
<1> QED BY <1>1, <1>2

\* A step of a sender keeps the types.
LEMMA WorkTyped ==
    ASSUME PlacesInv, NEW s \in Sender, Work(s)
    PROVE  ClientsTypeOK'
<1> USE DEF PlacesInv
<1>1. CASE CannotSend(s) \/ ReadFailure(s) \/ GiveUp(s)
    <2>1. Failed(s)
        BY <1>1 DEF CannotSend, ReadFailure, GiveUp
    <2> QED BY <2>1 DEF Failed, setting, ClientsTypeOK
<1>2. CASE Transmit(s) \/ WaitBackoff(s)
    BY <1>2 DEF Transmit, WaitBackoff, setting, ClientsTypeOK
<1>3. CASE Again(s)
    BY <1>3 DEF Again, setting, ClientsTypeOK
<1>4. CASE Succeed(s)
    <2>1. ASSUME kind[s] = "alert" PROVE NewRef(s) \in [channel : Written \cup {None}, id : Int]
        <3>1. NewRef(s).id \in Nat
            BY <1>4, <2>1, NewRefIsOwn DEF Succeed
        <3>2. PlaceOf(s).channel \in Written \cup {None}
            BY PlaceTyped DEF Place
        <3>3. Conversation(s) \in Written \cup {None}
            BY Asking, ClientsAssumption DEF Conversation, FromMention, ById, Written, Origin, ClientsTypeOK
        <3>4. ASSUME client = "slack" PROVE ById(PlaceOf(s).channel.of) \in Written
            <4>1. PICK i \in DOMAIN wall : wall[i].by = Current(s)
                BY <1>4, CurrentIsCall DEF Succeed, Success, Placing, ClientsInv, Underway, Visible
            <4>2. PlaceOf(s).channel # None
                BY <3>4, <4>1 DEF Placing, Posted, Current, Messenger
            <4> QED BY <3>2, <4>2 DEF ById, Written
        <3>5. NewRef(s).channel \in Written \cup {None}
            BY <3>2, <3>3, <3>4 DEF NewRef
        <3>6. NewRef(s) = [channel |-> NewRef(s).channel, id |-> NewRef(s).id]
            BY DEF NewRef
        <3> HIDE DEF NewRef
        <3> QED BY <3>1, <3>5, <3>6
    <2>2. ref' \in [Sender -> [channel : Written \cup {None}, id : Int]]
        BY <1>4, <2>1 DEF Succeed, ClientsTypeOK
    <2> QED BY <1>4, <2>2 DEF Succeed, setting, ClientsTypeOK
<1> QED BY <1>1, <1>2, <1>3, <1>4 DEF Work

\* So does one of the platform.
LEMMA PlatformTyped ==
    ASSUME PlacesInv, NEW s \in Sender, Platform(s)
    PROVE  ClientsTypeOK'
<1>1. count[s] # 0 /\ Current(s) \in Call
    <2>1. sending[s] = "sent"
        BY DEF Platform, Perform, Refuse
    <2> QED BY <2>1, CurrentIsCall DEF PlacesInv, ClientsInv, Underway
<1>2. UNCHANGED <<client, home, alert, count, kind, tries, ref, stage>>
    BY DEF Platform, Perform, Refuse, Answered, setting
<1>3. /\ sending' \in [Sender -> {"idle", "attempt", "sent", "answered", "backoff"}]
      /\ reply' \in [Sender -> {"none", "ok", "garbled", "throttled", "refused", "lost"}]
    <2>1. PICK r \in {"ok", "garbled", "throttled", "refused", "lost"} : Answered(s, r)
        BY DEF Platform, Perform, Refuse
    <2>2. sending' = [sending EXCEPT ![s] = "answered"] /\ reply' = [reply EXCEPT ![s] = r]
        BY <2>1 DEF Answered
    <2> QED BY <2>2 DEF PlacesInv, ClientsTypeOK
<1>4. served' \in [Call -> Nat]
    BY <1>1 DEF Platform, Perform, Refuse, PlacesInv, ClientsTypeOK
<1>5. wall' \in Seq([by : Call, place : Place, edits : Nat])
    <2> DEFINE e == [by |-> Current(s), place |-> PlaceOf(s), edits |-> Edits(s)]
    <2>1. e \in [by : Call, place : Place, edits : Nat]
        BY <1>1, PlaceTyped
    <2>2. wall' = Append(wall, e) \/ wall' = wall
        BY DEF Platform, Perform, Refuse
    <2>3. wall \in Seq([by : Call, place : Place, edits : Nat])
        BY DEF PlacesInv, ClientsTypeOK
    <2> HIDE DEF e
    <2>4. Append(wall, e) \in Seq([by : Call, place : Place, edits : Nat])
        BY <2>1, <2>3
    <2> QED BY <2>2, <2>3, <2>4
<1> QED BY <1>2, <1>3, <1>4, <1>5 DEF PlacesInv, ClientsTypeOK

\* So does the beginning of a call.
LEMMA BeginTyped ==
    ASSUME PlacesInv, NEW s \in Sender,
           NEW k \in {"alert", "analysis", "error", "reply", "chat"}, Begin(s, k)
    PROVE  ClientsTypeOK'
<1>1. count[s] \in 0..2 /\ count[s] + 1 \in 0..2
    BY EnoughPlaces DEF Begin, PlacesInv, ClientsTypeOK
<1>2. count' \in [Sender -> 0..2]
    BY <1>1 DEF Begin, PlacesInv, ClientsTypeOK
<1>3. UNCHANGED <<client, home, alert, ref, served, wall>>
    BY DEF Begin, setting
<1> QED BY <1>2, <1>3 DEF Begin, PlacesInv, ClientsTypeOK

\* The invariant is inductive.
LEMMA PlacesInvStep ==
    ASSUME PlacesInv, [ClientsNext]_clientVars
    PROVE  PlacesInv'
<1>1. ClientsInv'
    BY ClientsInvStep DEF PlacesInv
<1>2. CASE UNCHANGED clientVars
    <2>1. ClientsTypeOK'
        BY <1>2 DEF clientVars, PlacesInv, ClientsTypeOK
    <2>2. Placing'
        BY <1>2, QuietPlaces DEF clientVars, setting
    <2> QED BY <1>1, <2>1, <2>2 DEF PlacesInv
<1>3. ASSUME NEW s \in Sender, Work(s) PROVE PlacesInv'
    <2>1. ClientsTypeOK'
        BY <1>3, WorkTyped
    <2>2. Placing'
        <3>1. CASE Succeed(s)
            BY <3>1, SucceedPlaces
        <3>2. CASE ~Succeed(s)
            <4>1. UNCHANGED <<setting, count, kind, ref, served, wall>>
                BY <1>3, <3>2 DEF Work, CannotSend, ReadFailure, GiveUp, Failed, Transmit, WaitBackoff, Again
            <4> QED BY <4>1, QuietPlaces
        <3> QED BY <3>1, <3>2
    <2> QED BY <1>1, <2>1, <2>2 DEF PlacesInv
<1>4. ASSUME NEW s \in Sender, Platform(s) PROVE PlacesInv'
    <2>1. ClientsTypeOK'
        BY <1>4, PlatformTyped
    <2>2. Placing'
        <3>1. CASE Perform(s)
            BY <3>1, PerformPlaces
        <3>2. CASE Refuse(s)
            <4>1. UNCHANGED <<setting, count, kind, ref, served, wall>>
                BY <3>2 DEF Refuse, Answered
            <4> QED BY <4>1, QuietPlaces
        <3> QED BY <1>4, <3>1, <3>2 DEF Platform
    <2> QED BY <1>1, <2>1, <2>2 DEF PlacesInv
<1>5. ASSUME NEW s \in Sender, NEW k \in {"alert", "analysis", "error", "reply", "chat"}, Begin(s, k)
      PROVE  PlacesInv'
    BY <1>1, <1>5, BeginTyped, BeginPlaces DEF PlacesInv
<1> QED BY <1>2, <1>3, <1>4, <1>5 DEF ClientsNext

\* The variables of the clients keep their types.
THEOREM ClientsTypeCorrect == ClientsSpec => []ClientsTypeOK
<1>1. PlacesInv => ClientsTypeOK
    BY DEF PlacesInv
<1> QED BY <1>1, PlacesInvInit, PlacesInvStep, PTL DEF ClientsSpec

\* Whatever Slack's and Telegram's messengers post or edit is in the channel
\* the mention came from or the header names, an analysis that answers a ref
\* is at the alert's own message, and every messenger's ref names that message
\* the way the platform's later events do.
THEOREM MessagesLand == ClientsSpec => []MessagesInPlace
<1>1. PlacesInv => MessagesInPlace
    <2> SUFFICES ASSUME PlacesInv PROVE MessagesInPlace
        OBVIOUS
    <2>1. \A s \in Sender : RefIsOwn(s)
        BY DEF PlacesInv, Placing, Referred
    <2>2. ASSUME client \in {"slack", "telegram"}, NEW i \in DOMAIN wall PROVE Landed(i)
        BY <2>2 DEF PlacesInv, Placing, Posted, Lands, Landed
    <2>3. ASSUME client \in {"slack", "telegram"}, NEW i \in DOMAIN wall,
                 wall[i].by = Current(wall[i].by[1]), kind[wall[i].by[1]] = "reply"
          PROVE  ref[wall[i].by[1]].id = (IF client = "slack" THEN wall[i].place.thread ELSE wall[i].edits)
        <3>1. wall[i].place = ReplyPlace(wall[i].by[1]) /\ wall[i].edits = Edits(wall[i].by[1])
            BY <2>3 DEF PlacesInv, Placing, Posted, PlaceOf
        <3> QED BY <2>3, <3>1 DEF ReplyPlace, Edits
    <2> QED BY <2>1, <2>2, <2>3 DEF MessagesInPlace
<1> QED BY <1>1, PlacesInvInit, PlacesInvStep, PTL DEF ClientsSpec

-----------------------------------------------------------------------------
(* Credentials implements Calls.                                           *)

\* How far a call may be, with this answer of the service, for its caller to
\* see stage st and for the service to have served it sv times.
Fits(p, r, st, sv) ==
    /\ p = "new" => st = "new"
    /\ p \notin {"new", "done"} => st = "open"
    /\ p \notin {"answered", "done"} => sv = 0
    /\ p = "answered" => /\ r \in {"ok", "garbled"} => sv = 1
                         /\ r = "unauthorized" => sv = 0

\* The types the refinement needs.
Placed ==
    /\ at \in [ToolCall -> {"new", "ensure", "wait", "login", "store", "read", "request", "answered", "done"}]
    /\ response \in [ToolCall -> {"none", "ok", "garbled", "unauthorized", "error"}]
    /\ toolStage \in [ToolCall -> {"new", "open", "ok", "failed"}]
    /\ toolServed \in [ToolCall -> Nat]

AnswersInv ==
    /\ Placed
    /\ \A c \in ToolCall : Fits(at[c], response[c], toolStage[c], toolServed[c])

\* No call was started yet.
LEMMA AnswersInvInit == CredentialsInit => AnswersInv
BY DEF CredentialsInit, AnswersInv, Placed, Fits

\* A step of one call leaves the others where they are.
LEMMA AloneStep ==
    ASSUME AnswersInv, NEW c \in ToolCall, Placed',
           \A d \in ToolCall \ {c} :
                /\ at'[d] = at[d] /\ response'[d] = response[d]
                /\ toolStage'[d] = toolStage[d] /\ toolServed'[d] = toolServed[d],
           Fits(at'[c], response'[c], toolStage'[c], toolServed'[c])
    PROVE  AnswersInv'
BY DEF AnswersInv

\* A step within a call that goes on, before there is an answer.
LEMMA InsideStep ==
    ASSUME AnswersInv, NEW c \in ToolCall, NEW p \in {"ensure", "wait", "login", "store", "read", "request"},
           at[c] \in {"ensure", "wait", "login", "store", "read"}, at' = [at EXCEPT ![c] = p],
           response' = response, toolStage' = toolStage, toolServed' = toolServed
    PROVE  AnswersInv'
<1>1. toolStage[c] = "open" /\ toolServed[c] = 0
    BY DEF AnswersInv, Placed, Fits
<1>2. Placed' /\ at'[c] = p /\ \A d \in ToolCall \ {c} : at'[d] = at[d]
    BY DEF AnswersInv, Placed
<1>3. Fits(at'[c], response'[c], toolStage'[c], toolServed'[c])
    BY <1>1, <1>2 DEF Fits
<1> QED BY <1>2, <1>3, AloneStep

\* A call that ends without having asked the service fails.
LEMMA EndStep ==
    ASSUME AnswersInv, NEW c \in ToolCall, at[c] \in {"ensure", "login"}, End(c, "failed"),
           response' = response, toolServed' = toolServed
    PROVE  AnswersInv' /\ Answers!Fail(c)
<1>1. toolStage[c] = "open" /\ toolServed[c] = 0
    BY DEF AnswersInv, Placed, Fits
<1>2. at' = [at EXCEPT ![c] = "done"] /\ toolStage' = [toolStage EXCEPT ![c] = "failed"]
    BY DEF End, Goto
<1>3. /\ Placed' /\ at'[c] = "done"
      /\ \A d \in ToolCall \ {c} : at'[d] = at[d] /\ toolStage'[d] = toolStage[d]
    BY <1>2 DEF AnswersInv, Placed
<1>4. Fits(at'[c], response'[c], toolStage'[c], toolServed'[c])
    BY <1>3 DEF Fits
<1>5. AnswersInv'
    BY <1>3, <1>4, AloneStep
<1>6. Answers!Fail(c)
    BY <1>1, <1>2 DEF Answers!Fail
<1> QED BY <1>5, <1>6

\* The call begins.
LEMMA StartStep ==
    ASSUME AnswersInv, NEW c \in ToolCall, Start(c)
    PROVE  AnswersInv' /\ Answers!Open(c)
<1>1. at[c] = "new" /\ toolStage[c] = "new" /\ toolServed[c] = 0
    BY DEF Start, AnswersInv, Placed, Fits
<1>2. /\ at' = [at EXCEPT ![c] = "ensure"] /\ toolStage' = [toolStage EXCEPT ![c] = "open"]
      /\ response' = response /\ toolServed' = toolServed
    BY DEF Start, Goto
<1>3. /\ Placed' /\ at'[c] = "ensure" /\ toolStage'[c] = "open"
      /\ \A d \in ToolCall \ {c} : at'[d] = at[d] /\ toolStage'[d] = toolStage[d]
    BY <1>2 DEF AnswersInv, Placed
<1>4. Fits(at'[c], response'[c], toolStage'[c], toolServed'[c])
    BY <1>1, <1>2, <1>3 DEF Fits
<1>5. AnswersInv'
    BY <1>2, <1>3, <1>4, AloneStep
<1>6. Answers!Open(c)
    BY <1>1, <1>2 DEF Answers!Open
<1> QED BY <1>5, <1>6

\* The service does what it is asked, once.
LEMMA AuthorizedStep ==
    ASSUME AnswersInv, NEW c \in ToolCall, Authorized(c)
    PROVE  AnswersInv' /\ Answers!Serve(c)
<1>1. at[c] = "request" /\ toolStage[c] = "open" /\ toolServed[c] = 0
    BY DEF Authorized, AnswersInv, Placed, Fits
<1>2. PICK a \in {"ok", "garbled", "error"} : response' = [response EXCEPT ![c] = a]
    BY DEF Authorized
<1>3. /\ at' = [at EXCEPT ![c] = "answered"] /\ toolStage' = toolStage
      /\ toolServed' = [toolServed EXCEPT ![c] = @ + 1]
    BY DEF Authorized, Goto
<1>4. toolServed' = [toolServed EXCEPT ![c] = 1]
    BY <1>1, <1>3 DEF AnswersInv, Placed
<1>5. /\ Placed' /\ at'[c] = "answered" /\ response'[c] = a /\ toolServed'[c] = 1
      /\ \A d \in ToolCall \ {c} :
            at'[d] = at[d] /\ response'[d] = response[d] /\ toolServed'[d] = toolServed[d]
    BY <1>2, <1>3, <1>4 DEF AnswersInv, Placed
<1>6. Fits(at'[c], response'[c], toolStage'[c], toolServed'[c])
    BY <1>1, <1>3, <1>5 DEF Fits
<1>7. AnswersInv'
    BY <1>3, <1>5, <1>6, AloneStep
<1>8. Answers!Serve(c)
    BY <1>1, <1>3, <1>4 DEF Answers!Serve
<1> QED BY <1>7, <1>8

\* The service refuses the token, or nothing answers.
LEMMA UnservedStep ==
    ASSUME AnswersInv, NEW c \in ToolCall, Unauthorized(c) \/ Breaks(c)
    PROVE  AnswersInv' /\ toolStage' = toolStage /\ toolServed' = toolServed
<1>1. at[c] = "request" /\ toolStage[c] = "open" /\ toolServed[c] = 0
    BY DEF Unauthorized, Breaks, AnswersInv, Placed, Fits
<1>2. PICK a \in {"unauthorized", "error"} : response' = [response EXCEPT ![c] = a]
    BY DEF Unauthorized, Breaks
<1>3. at' = [at EXCEPT ![c] = "answered"] /\ toolStage' = toolStage /\ toolServed' = toolServed
    BY DEF Unauthorized, Breaks, Goto
<1>4. /\ Placed' /\ at'[c] = "answered" /\ response'[c] = a
      /\ \A d \in ToolCall \ {c} : at'[d] = at[d] /\ response'[d] = response[d]
    BY <1>2, <1>3 DEF AnswersInv, Placed
<1>5. Fits(at'[c], response'[c], toolStage'[c], toolServed'[c])
    BY <1>1, <1>3, <1>4 DEF Fits
<1> QED BY <1>3, <1>4, <1>5, AloneStep

\* Only a call whose token was refused goes round again: the service has not
\* served it.
LEMMA ReloginStep ==
    ASSUME AnswersInv, NEW c \in ToolCall, Relogin(c)
    PROVE  AnswersInv' /\ toolStage' = toolStage /\ toolServed' = toolServed
<1>1. toolStage[c] = "open" /\ toolServed[c] = 0
    BY DEF Relogin, SecondTry, AnswersInv, Placed, Fits
<1>2. /\ at' = [at EXCEPT ![c] = "wait"] /\ response' = [response EXCEPT ![c] = "none"]
      /\ toolStage' = toolStage /\ toolServed' = toolServed
    BY DEF Relogin, Goto
<1>3. /\ Placed' /\ at'[c] = "wait"
      /\ \A d \in ToolCall \ {c} : at'[d] = at[d] /\ response'[d] = response[d]
    BY <1>2 DEF AnswersInv, Placed
<1>4. Fits(at'[c], response'[c], toolStage'[c], toolServed'[c])
    BY <1>1, <1>2, <1>3 DEF Fits
<1> QED BY <1>2, <1>3, <1>4, AloneStep

\* The call ends with what the service answered.
LEMMA AnswerStep ==
    ASSUME AnswersInv, NEW c \in ToolCall, Answer(c)
    PROVE  AnswersInv' /\ (Answers!Succeed(c) \/ Answers!Fail(c))
<1>1. at[c] = "answered" /\ toolStage[c] = "open"
    BY DEF Answer, AnswersInv, Placed, Fits
<1>2. PICK how \in {"ok", "failed"} :
        /\ how = "ok" => response[c] \in {"ok", "garbled"}
        /\ at' = [at EXCEPT ![c] = "done"] /\ toolStage' = [toolStage EXCEPT ![c] = how]
        /\ response' = response /\ toolServed' = toolServed
    BY DEF Answer, End, Goto
<1>3. /\ Placed' /\ at'[c] = "done"
      /\ \A d \in ToolCall \ {c} : at'[d] = at[d] /\ toolStage'[d] = toolStage[d]
    BY <1>2 DEF AnswersInv, Placed
<1>4. Fits(at'[c], response'[c], toolStage'[c], toolServed'[c])
    BY <1>3 DEF Fits
<1>5. AnswersInv'
    BY <1>2, <1>3, <1>4, AloneStep
<1>6. how = "ok" => toolServed[c] = 1
    BY <1>1, <1>2 DEF AnswersInv, Fits
<1>7. Answers!Succeed(c) \/ Answers!Fail(c)
    BY <1>1, <1>2, <1>6 DEF Answers!Succeed, Answers!Fail
<1> QED BY <1>5, <1>7

\* A step of a call, or of the service for it.
LEMMA CallStep ==
    ASSUME AnswersInv, NEW c \in ToolCall, Step(c) \/ Service(c)
    PROVE  AnswersInv' /\ [Answers!CallsNext]_<<toolStage, toolServed>>
<1>1. CASE Start(c)
    BY <1>1, StartStep DEF Answers!CallsNext
<1>2. CASE Reject(c) \/ LoginFails(c)
    <2>1. at[c] \in {"ensure", "login"} /\ End(c, "failed") /\ response' = response /\ toolServed' = toolServed
        BY <1>2 DEF Reject, LoginFails
    <2> QED BY <2>1, EndStep DEF Answers!CallsNext
<1>3. CASE SkipLogin(c) \/ WantLogin(c) \/ Lock(c) \/ UseCached(c) \/ Store(c) \/ ReadToken(c) \/ ReadTorn(c)
           \/ Login(c) \/ LoginEmpty(c)
    <2>1. /\ at[c] \in {"ensure", "wait", "login", "store", "read"}
          /\ \E p \in {"ensure", "wait", "login", "store", "read", "request"} : at' = [at EXCEPT ![c] = p]
          /\ response' = response /\ toolStage' = toolStage /\ toolServed' = toolServed
        BY <1>3 DEF SkipLogin, WantLogin, Lock, UseCached, Store, ReadToken, ReadTorn, Racing, Login, LoginEmpty, Goto
    <2> QED BY <2>1, InsideStep
<1>4. CASE Crash(c)
    BY <1>4 DEF Crash, AnswersInv, Placed
<1>5. CASE Relogin(c)
    BY <1>5, ReloginStep
<1>6. CASE Answer(c)
    BY <1>6, AnswerStep DEF Answers!CallsNext
<1>7. CASE Authorized(c)
    BY <1>7, AuthorizedStep DEF Answers!CallsNext
<1>8. CASE Unauthorized(c) \/ Breaks(c)
    BY <1>8, UnservedStep
<1> QED BY <1>1, <1>2, <1>3, <1>4, <1>5, <1>6, <1>7, <1>8 DEF Step, Service

\* Every step of the executors is one of Calls, or changes nothing Calls sees.
LEMMA AnswersInvStep ==
    ASSUME AnswersInv, [CredentialsNext]_credentialVars
    PROVE  AnswersInv' /\ [Answers!CallsNext]_<<toolStage, toolServed>>
<1>1. CASE UNCHANGED credentialVars
    BY <1>1 DEF credentialVars, AnswersInv, Placed
<1>2. CASE Age \/ \E t \in accepted : Expire(t) \/ Drop(t)
    <2>1. at' = at /\ response' = response /\ toolStage' = toolStage /\ toolServed' = toolServed
        BY <1>2 DEF Age, Expire, Drop
    <2> QED BY <2>1 DEF AnswersInv, Placed
<1> QED BY <1>1, <1>2, CallStep DEF CredentialsNext

\* Every tool call is answered once, asks the service for the same thing at
\* most once although it may log in again in between, and its result is no
\* error only if the service did it: the whole of Credentials implements Calls.
THEOREM ExecutorsImplementCalls == CredentialsSpec => ToolsDeliver
<1>1. CredentialsInit => Answers!CallsInit
    BY DEF CredentialsInit, Answers!CallsInit
<1>2. AnswersInv /\ [CredentialsNext]_credentialVars => AnswersInv' /\ [Answers!CallsNext]_(Answers!callVars)
    BY AnswersInvStep DEF Answers!callVars
<1> QED BY <1>1, <1>2, AnswersInvInit, PTL DEF CredentialsSpec, ToolsDeliver, Answers!CallsSpec

-----------------------------------------------------------------------------
(* One login per expiry.                                                   *)

\* The counters.
Tallied ==
    /\ token \in Int /\ issued \in Nat /\ agings \in Nat /\ drops \in Nat /\ empties \in Nat
    /\ lock \in ToolCall \cup {Nobody}
    /\ at \in [ToolCall -> {"new", "ensure", "wait", "login", "store", "read", "request", "answered", "done"}]
    /\ held \in [ToolCall -> Int]

\* Whoever logs in, or has a token to store, holds the mutex.
Exclusive == \A c \in ToolCall : at[c] \in {"login", "store"} <=> lock = c

\* Behind a login there is an expiry that paid for it: the one before the
\* cached token stopped being valid.
Paid ==
    OAuth =>
        /\ issued <= 1 + agings + empties
        /\ (~TokenValid /\ \A c \in ToolCall : at[c] # "store") => issued <= agings + empties
        /\ \A c \in ToolCall : /\ at[c] = "login" => ~TokenValid
                               /\ at[c] = "store" => held[c] # 0

LoginInv == Tallied /\ Exclusive /\ Paid

\* No token was issued yet.
LEMMA LoginInvInit == CredentialsInit => LoginInv
<1> SUFFICES ASSUME CredentialsInit PROVE LoginInv
    OBVIOUS
<1>1. /\ token = 0 /\ issued = 0 /\ agings = 0 /\ drops = 0 /\ empties = 0
      /\ fresh = FALSE /\ lock = Nobody /\ held = [c \in ToolCall |-> 0]
      /\ \A c \in ToolCall : at[c] = "new"
    BY DEF CredentialsInit
<1>2. Tallied
    BY <1>1 DEF CredentialsInit, Tallied
<1>3. Exclusive
    BY <1>1, CredentialsAssumption DEF Exclusive
<1>4. Paid
    BY <1>1 DEF Paid
<1> QED BY <1>2, <1>3, <1>4 DEF LoginInv

\* Steps that have nothing to do with the login: the call is not logging in
\* before or after, and what the login looks at stays.
LEMMA AsideStep ==
    ASSUME LoginInv, NEW c \in ToolCall,
           NEW p \in {"new", "ensure", "wait", "read", "request", "answered", "done"},
           at[c] \notin {"login", "store"}, at' = [at EXCEPT ![c] = p],
           held' = held \/ \E h \in Int : held' = [held EXCEPT ![c] = h],
           style' = style, token' = token, fresh' = fresh, lock' = lock,
           issued' = issued, agings' = agings, drops' = drops, empties' = empties
    PROVE  LoginInv'
<1>1. Tallied'
    BY DEF LoginInv, Tallied
<1>2. at'[c] = p /\ \A d \in ToolCall \ {c} : at'[d] = at[d] /\ held'[d] = held[d]
    BY DEF LoginInv, Tallied
<1>3. Exclusive'
    BY <1>2 DEF LoginInv, Exclusive
<1>4. Paid'
    BY <1>2 DEF LoginInv, Tallied, Paid, OAuth, TokenValid
<1> QED BY <1>1, <1>3, <1>4 DEF LoginInv

\* A call finds no valid token.
LEMMA LockStep ==
    ASSUME LoginInv, NEW c \in ToolCall, Lock(c)
    PROVE  LoginInv'
<1>1. /\ at[c] \in {"ensure", "wait"} /\ lock = Nobody /\ lock' = c /\ at' = [at EXCEPT ![c] = "login"]
      /\ style' = style /\ held' = held /\ token' = token /\ fresh' = fresh
      /\ issued' = issued /\ agings' = agings /\ drops' = drops /\ empties' = empties
      /\ OAuth => ~TokenValid
    BY DEF Lock, cache, service, Goto
<1>2. Tallied'
    BY <1>1 DEF LoginInv, Tallied
<1>3. at'[c] = "login" /\ \A d \in ToolCall \ {c} : at'[d] = at[d]
    BY <1>1 DEF LoginInv, Tallied
<1>4. Exclusive'
    BY <1>1, <1>3, CredentialsAssumption DEF LoginInv, Exclusive
<1>5. Paid'
    BY <1>1, <1>3 DEF LoginInv, Tallied, Paid, OAuth, TokenValid
<1> QED BY <1>2, <1>4, <1>5 DEF LoginInv

\* The service issues a token to the one call that logs in.
LEMMA LoginStep ==
    ASSUME LoginInv, NEW c \in ToolCall, Login(c)
    PROVE  LoginInv'
<1>1. /\ at[c] = "login" /\ lock' = lock /\ at' = [at EXCEPT ![c] = "store"]
      /\ style' = style /\ held' = [held EXCEPT ![c] = issued + 1] /\ token' = token /\ fresh' = fresh
      /\ issued' = issued + 1 /\ agings' = agings /\ drops' = drops /\ empties' = empties
    BY DEF Login, cache, Goto
<1>2. Tallied'
    BY <1>1 DEF LoginInv, Tallied
<1>3. /\ at'[c] = "store" /\ held'[c] # 0
      /\ \A d \in ToolCall \ {c} : at'[d] = at[d] /\ held'[d] = held[d]
    BY <1>1 DEF LoginInv, Tallied
<1>4. Exclusive'
    BY <1>1, <1>3 DEF LoginInv, Exclusive
<1>5. \A d \in ToolCall : at[d] # "store"
    BY <1>1 DEF LoginInv, Exclusive
<1>6. OAuth => issued + 1 <= 1 + agings + empties
    BY <1>1, <1>5 DEF LoginInv, Tallied, Paid
<1>7. Paid'
    BY <1>1, <1>3, <1>6 DEF LoginInv, Paid, OAuth, TokenValid
<1> QED BY <1>2, <1>4, <1>7 DEF LoginInv

\* The login is over: the mutex is free again, and either there is a valid
\* token or what an empty one costs is paid.
LEMMA ReleaseStep ==
    ASSUME LoginInv, NEW c \in ToolCall, Store(c) \/ LoginEmpty(c) \/ LoginFails(c)
    PROVE  LoginInv'
<1>1. /\ at[c] \in {"login", "store"} /\ Release(c) /\ style' = style /\ held' = held
      /\ issued' = issued /\ agings' = agings /\ drops' = drops
      /\ empties' \in {empties, empties + 1}
      /\ \E p \in {"read", "request", "done"} : at' = [at EXCEPT ![c] = p]
    BY DEF Store, LoginEmpty, LoginFails, End, Goto, service
<1>2. lock = c /\ lock' = Nobody
    BY <1>1 DEF LoginInv, Exclusive, Release
<1>3. /\ at'[c] \in {"read", "request", "done"}
      /\ \A d \in ToolCall \ {c} : at'[d] = at[d] /\ at[d] \notin {"login", "store"}
    BY <1>1, <1>2 DEF LoginInv, Tallied, Exclusive
<1>4. \A d \in ToolCall : at'[d] \notin {"login", "store"}
    BY <1>3
<1>5. Exclusive'
    BY <1>2, <1>4, CredentialsAssumption DEF Exclusive
<1>6. CASE Store(c)
    <2>1. at[c] = "store" /\ token' = held[c] /\ fresh' = TRUE /\ empties' = empties
        BY <1>6 DEF Store, service
    <2>2. OAuth => held[c] # 0
        BY <2>1 DEF LoginInv, Paid
    <2>3. OAuth' => TokenValid'
        BY <1>1, <2>1, <2>2 DEF OAuth, TokenValid
    <2>4. Paid'
        BY <1>1, <1>4, <2>1, <2>3 DEF LoginInv, Paid, OAuth
    <2>5. Tallied'
        BY <1>1, <1>2, <2>1 DEF LoginInv, Tallied
    <2> QED BY <1>5, <2>4, <2>5 DEF LoginInv
<1>7. CASE LoginEmpty(c)
    <2>1. at[c] = "login" /\ token' = 0 /\ fresh' = TRUE /\ empties' = empties + 1
        BY <1>7 DEF LoginEmpty
    <2>2. Tallied'
        BY <1>1, <1>2, <2>1 DEF LoginInv, Tallied
    <2>3. Paid'
        BY <1>1, <1>4, <2>1 DEF LoginInv, Tallied, Paid, OAuth
    <2> QED BY <1>5, <2>2, <2>3 DEF LoginInv
<1>8. CASE LoginFails(c)
    <2>1. at[c] = "login" /\ token' = token /\ fresh' = fresh /\ empties' = empties
        BY <1>8 DEF LoginFails, cache, service
    <2>2. Tallied'
        BY <1>1, <1>2, <2>1 DEF LoginInv, Tallied
    <2>3. \A d \in ToolCall : at[d] # "store"
        BY <1>3, <2>1
    <2>4. Paid'
        BY <1>1, <1>4, <2>1, <2>3 DEF LoginInv, Paid, OAuth, TokenValid
    <2> QED BY <1>5, <2>2, <2>4 DEF LoginInv
<1> QED BY <1>6, <1>7, <1>8

\* The cached token gets old, which pays for the next login.
LEMMA AgeStep ==
    ASSUME LoginInv, Age
    PROVE  LoginInv'
<1>1. /\ fresh' = FALSE /\ agings' = agings + 1 /\ style' = style /\ token' = token /\ lock' = lock
      /\ at' = at /\ held' = held /\ issued' = issued /\ drops' = drops /\ empties' = empties
    BY DEF Age
<1>2. Tallied'
    BY <1>1 DEF LoginInv, Tallied
<1>3. Exclusive'
    BY <1>1 DEF LoginInv, Exclusive
<1>4. ~TokenValid'
    BY <1>1 DEF TokenValid
<1>5. Paid'
    BY <1>1, <1>4 DEF LoginInv, Tallied, Paid, OAuth
<1> QED BY <1>2, <1>3, <1>5 DEF LoginInv

\* A step of a call, or of the service for it.
LEMMA LoginCallStep ==
    ASSUME LoginInv, NEW c \in ToolCall, Step(c) \/ Service(c)
    PROVE  LoginInv'
<1>1. CASE Lock(c)
    BY <1>1, LockStep
<1>2. CASE Login(c)
    BY <1>2, LoginStep
<1>3. CASE Store(c) \/ LoginEmpty(c) \/ LoginFails(c)
    BY <1>3, ReleaseStep
<1>4. CASE Crash(c)
    BY <1>4 DEF Crash, cache, service, LoginInv, Tallied, Exclusive, Paid, OAuth, TokenValid
<1>5. CASE Start(c) \/ Reject(c) \/ SkipLogin(c) \/ WantLogin(c) \/ Relogin(c) \/ Answer(c)
           \/ Authorized(c) \/ Unauthorized(c) \/ Breaks(c)
    <2>1. /\ at[c] \notin {"login", "store"}
          /\ \E p \in {"new", "ensure", "wait", "read", "request", "answered", "done"} : at' = [at EXCEPT ![c] = p]
          /\ held' = held /\ lock' = lock /\ style' = style
          /\ token' = token /\ fresh' = fresh
          /\ issued' = issued /\ agings' = agings /\ drops' = drops /\ empties' = empties
        BY <1>5 DEF Start, Reject, SkipLogin, WantLogin, Relogin, Answer, Authorized, Unauthorized, Breaks,
                    End, Goto, cache, service
    <2> QED BY <2>1, AsideStep
<1>6. CASE UseCached(c) \/ ReadToken(c) \/ ReadTorn(c)
    <2>1. /\ at[c] \notin {"login", "store"}
          /\ \E p \in {"new", "ensure", "wait", "read", "request", "answered", "done"} : at' = [at EXCEPT ![c] = p]
          /\ lock' = lock /\ style' = style
          /\ token' = token /\ fresh' = fresh
          /\ issued' = issued /\ agings' = agings /\ drops' = drops /\ empties' = empties
        BY <1>6 DEF UseCached, ReadToken, ReadTorn, Racing, Goto, cache, service
    <2>2. \E h \in Int : held' = [held EXCEPT ![c] = h]
        BY <1>6 DEF UseCached, ReadToken, ReadTorn, Torn, LoginInv, Tallied
    <2> QED BY <2>1, <2>2, AsideStep
<1> QED BY <1>1, <1>2, <1>3, <1>4, <1>5, <1>6 DEF Step, Service

\* The invariant is inductive.
LEMMA LoginInvStep ==
    ASSUME LoginInv, [CredentialsNext]_credentialVars
    PROVE  LoginInv'
<1>1. CASE UNCHANGED credentialVars
    BY <1>1 DEF credentialVars, cache, service, LoginInv, Tallied, Exclusive, Paid, OAuth, TokenValid
<1>2. CASE \E t \in accepted : Expire(t) \/ Drop(t)
    <2>1. /\ at' = at /\ held' = held /\ lock' = lock /\ style' = style /\ token' = token /\ fresh' = fresh
          /\ issued' = issued /\ agings' = agings /\ empties' = empties /\ drops' \in {drops, drops + 1}
        BY <1>2 DEF Expire, Drop, cache
    <2> QED BY <2>1 DEF LoginInv, Tallied, Exclusive, Paid, OAuth, TokenValid
<1> QED BY <1>1, <1>2, AgeStep, LoginCallStep DEF CredentialsNext

\* However many workers find the token old at the same time, one of them gets
\* a new one: tokens are asked for once per expiry.
THEOREM ExecutorsShareLogins == CredentialsSpec => []LoginsShared
<1>1. LoginInv => LoginsShared
    BY DEF LoginInv, Paid, LoginsShared
<1> QED BY <1>1, LoginInvInit, LoginInvStep, PTL DEF CredentialsSpec

-----------------------------------------------------------------------------
(* The types of Credentials.                                               *)

\* The token about to be stored is the latest: nobody else logs in meanwhile.
StoresLatest == \A c \in ToolCall : at[c] = "store" => held[c] = issued

TypeInv == CredentialsTypeOK /\ StoresLatest /\ LoginInv

\* Nothing was stored yet.
LEMMA TypeInvInit == CredentialsInit => TypeInv
<1> SUFFICES ASSUME CredentialsInit PROVE TypeInv
    OBVIOUS
<1>1. CredentialsTypeOK
    <2>1. /\ at \in [ToolCall -> {"new", "ensure", "wait", "login", "store", "read", "request", "answered", "done"}]
          /\ response \in [ToolCall -> {"none", "ok", "garbled", "unauthorized", "error"}]
          /\ toolStage \in [ToolCall -> {"new", "open", "ok", "failed"}]
        BY DEF CredentialsInit
    <2>2. held \in [ToolCall -> Int] /\ toolServed \in [ToolCall -> Nat]
        BY DEF CredentialsInit
    <2>3. relogged \in [ToolCall -> BOOLEAN] /\ fresh \in BOOLEAN /\ alive \in BOOLEAN
        BY DEF CredentialsInit
    <2>4. /\ token \in Nat /\ issued \in Nat /\ agings \in Nat /\ drops \in Nat /\ empties \in Nat /\ tears \in Nat
          /\ accepted \subseteq Nat /\ style \in Style /\ lock \in ToolCall \cup {Nobody}
        BY DEF CredentialsInit
    <2> QED BY <2>1, <2>2, <2>3, <2>4 DEF CredentialsTypeOK
<1>2. StoresLatest
    BY DEF CredentialsInit, StoresLatest
<1> QED BY <1>1, <1>2, LoginInvInit DEF TypeInv

\* The steps of a call.
LEMMA StepTyped ==
    ASSUME TypeInv, NEW c \in ToolCall, Step(c)
    PROVE  CredentialsTypeOK'
<1> USE DEF TypeInv
<1>1. CASE Start(c) \/ Reject(c) \/ LoginFails(c) \/ Answer(c)
    BY <1>1 DEF Start, Reject, LoginFails, Answer, End, Goto, Release, cache, service, CredentialsTypeOK
<1>2. CASE SkipLogin(c) \/ WantLogin(c) \/ Lock(c) \/ Relogin(c) \/ Crash(c)
    BY <1>2 DEF SkipLogin, WantLogin, Lock, Relogin, Crash, Goto, cache, service, CredentialsTypeOK
<1>3. CASE UseCached(c) \/ ReadToken(c) \/ ReadTorn(c)
    <2>1. /\ held' \in [ToolCall -> Int] /\ tears' \in Nat
          /\ at' \in [ToolCall -> {"new", "ensure", "wait", "login", "store", "read", "request", "answered", "done"}]
        BY <1>3 DEF UseCached, ReadToken, ReadTorn, Racing, Torn, Goto, CredentialsTypeOK
    <2> QED BY <1>3, <2>1 DEF UseCached, ReadToken, ReadTorn, cache, service, CredentialsTypeOK
<1>4. CASE Store(c)
    BY <1>4 DEF Store, Goto, Release, cache, service, CredentialsTypeOK, StoresLatest
<1> QED BY <1>1, <1>2, <1>3, <1>4 DEF Step

\* The steps of the service.
LEMMA ServiceTyped ==
    ASSUME TypeInv, NEW c \in ToolCall, Service(c)
    PROVE  CredentialsTypeOK'
<1> USE DEF TypeInv
<1>1. CASE Login(c) \/ LoginEmpty(c)
    <2>1. accepted' \subseteq Nat
        <3>1. issued + 1 \in Nat /\ accepted \subseteq Nat
            BY DEF CredentialsTypeOK
        <3>2. accepted' = accepted \cup {issued + 1} \/ accepted' = accepted
            BY <1>1 DEF Login, LoginEmpty
        <3> QED BY <3>1, <3>2
    <2>2. held' \in [ToolCall -> Int] /\ issued' \in Nat /\ empties' \in Nat /\ token' \in Nat
        BY <1>1 DEF Login, LoginEmpty, cache, CredentialsTypeOK
    <2>3. lock' \in ToolCall \cup {Nobody}
        BY <1>1 DEF Login, LoginEmpty, Release, CredentialsTypeOK
    <2>4. at' \in [ToolCall -> {"new", "ensure", "wait", "login", "store", "read", "request", "answered", "done"}]
        BY <1>1 DEF Login, LoginEmpty, Goto, CredentialsTypeOK
    <2> QED BY <1>1, <2>1, <2>2, <2>3, <2>4 DEF Login, LoginEmpty, cache, CredentialsTypeOK
<1>2. CASE Authorized(c)
    BY <1>2 DEF Authorized, Goto, cache, service, CredentialsTypeOK
<1>3. CASE Unauthorized(c) \/ Breaks(c)
    BY <1>3 DEF Unauthorized, Breaks, Goto, cache, service, CredentialsTypeOK
<1> QED BY <1>1, <1>2, <1>3 DEF Service

\* What is stored stays the latest.
LEMMA LatestStep ==
    ASSUME TypeInv, NEW c \in ToolCall, Step(c) \/ Service(c)
    PROVE  StoresLatest'
<1>1. /\ at \in [ToolCall -> {"new", "ensure", "wait", "login", "store", "read", "request", "answered", "done"}]
      /\ held \in [ToolCall -> Int] /\ issued \in Nat
    BY DEF TypeInv, CredentialsTypeOK
<1>2. CASE Login(c)
    <2>1. \A d \in ToolCall : at[d] # "store"
        BY <1>2 DEF Login, TypeInv, LoginInv, Exclusive
    <2> QED BY <1>1, <1>2, <2>1 DEF Login, Goto, StoresLatest
<1>3. ASSUME issued' = issued,
             \E p \in {"new", "ensure", "wait", "login", "read", "request", "answered", "done"} : at' = [at EXCEPT ![c] = p],
             held' = held \/ \E h : held' = [held EXCEPT ![c] = h]
      PROVE  StoresLatest'
    BY <1>1, <1>3 DEF TypeInv, StoresLatest
<1>4. CASE Crash(c)
    BY <1>4 DEF Crash, service, TypeInv, StoresLatest
<1>5. CASE Start(c) \/ Reject(c) \/ SkipLogin(c) \/ WantLogin(c) \/ Lock(c) \/ UseCached(c)
           \/ LoginFails(c) \/ Store(c) \/ ReadToken(c) \/ ReadTorn(c) \/ Relogin(c) \/ Answer(c)
    BY <1>3, <1>5 DEF Start, Reject, SkipLogin, WantLogin, Lock, UseCached, LoginFails, Store, ReadToken,
                      ReadTorn, Racing, Relogin, Answer, End, Goto, service
<1>6. CASE LoginEmpty(c) \/ Authorized(c) \/ Unauthorized(c) \/ Breaks(c)
    BY <1>3, <1>6 DEF LoginEmpty, Authorized, Unauthorized, Breaks, Goto, service
<1> QED BY <1>2, <1>4, <1>5, <1>6 DEF Step, Service

\* The invariant is inductive.
LEMMA TypeInvStep ==
    ASSUME TypeInv, [CredentialsNext]_credentialVars
    PROVE  TypeInv'
<1>1. LoginInv'
    BY LoginInvStep DEF TypeInv
<1>2. CASE UNCHANGED credentialVars
    BY <1>1, <1>2 DEF credentialVars, cache, service, TypeInv, CredentialsTypeOK, StoresLatest
<1>3. CASE Age \/ \E t \in accepted : Expire(t) \/ Drop(t)
    <2>1. CredentialsTypeOK'
        <3>1. accepted' \subseteq Nat
            BY <1>3 DEF Age, Expire, Drop, TypeInv, CredentialsTypeOK
        <3>2. fresh' \in BOOLEAN /\ token' = token
            BY <1>3 DEF Age, Expire, Drop, cache, TypeInv, CredentialsTypeOK
        <3>3. agings' \in Nat /\ drops' \in Nat
            BY <1>3 DEF Age, Expire, Drop, TypeInv, CredentialsTypeOK
        <3> QED BY <1>3, <3>1, <3>2, <3>3 DEF Age, Expire, Drop, TypeInv, CredentialsTypeOK
    <2>2. StoresLatest'
        BY <1>3 DEF Age, Expire, Drop, TypeInv, StoresLatest
    <2> QED BY <1>1, <2>1, <2>2 DEF TypeInv
<1>4. ASSUME NEW c \in ToolCall, Step(c) \/ Service(c) PROVE TypeInv'
    <2>1. CredentialsTypeOK'
        BY <1>4, StepTyped, ServiceTyped
    <2>2. StoresLatest'
        BY <1>4, LatestStep
    <2> QED BY <1>1, <2>1, <2>2 DEF TypeInv
<1> QED BY <1>2, <1>3, <1>4 DEF CredentialsNext

\* The variables of the executors keep their types: a torn string is never
\* cached.
THEOREM CredentialsTypeCorrect == CredentialsSpec => []CredentialsTypeOK
<1>1. TypeInv => CredentialsTypeOK
    BY DEF TypeInv
<1> QED BY <1>1, TypeInvInit, TypeInvStep, PTL DEF CredentialsSpec

-----------------------------------------------------------------------------
(* An expiry costs no call.                                                *)

\* What was out of the ordinary so far.
Cost == drops + empties + tears

\* A token the executor would use.
Usable == token # 0 /\ (OAuth => fresh)

\* Every token the service has forgotten is older than n.
Newer(n) == \A t \in 1..issued : t \notin accepted => t < n

\* As long as nothing is out of the ordinary no call is refused.
Unhurt(c) ==
    /\ at[c] = "read" => token \in accepted
    /\ at[c] \in {"store", "request"} => held[c] \in accepted
    /\ response[c] # "unauthorized"

\* If no more than what the first try ran into is, the second is not refused.
Recovers(c) ==
    /\ at[c] = "store" => Newer(held[c])
    /\ at[c] = "read" => Newer(token)
    /\ at[c] = "request" => held[c] \in accepted
    /\ response[c] # "unauthorized"

Fine(c) ==
    /\ at[c] \in {"new", "ensure"} => ~relogged[c]
    /\ at[c] \notin {"answered", "done"} => response[c] # "unauthorized"
    /\ at[c] = "done" /\ response[c] = "unauthorized" => OAuth \/ relogged[c]
    /\ at[c] = "store" => issued # 0
    /\ ~OAuth /\ at[c] = "read" => token # 0
    /\ relogged[c] => ~OAuth /\ Cost # 0 /\ (Cost = 1 => Recovers(c))
    /\ Cost = 0 => Unhurt(c)

TokensKnown ==
    /\ token <= issued
    /\ accepted \subseteq 1..issued
    /\ Cost = 0 /\ Usable => token \in accepted

SurvivalInv == TypeInv /\ TokensKnown /\ \A c \in ToolCall : Fine(c)

\* The costs are numbers.
LEMMA CostIsNat == TypeInv => Cost \in Nat /\ issued \in Nat /\ token \in Nat
BY DEF TypeInv, CredentialsTypeOK, Cost

\* Nothing has happened yet.
LEMMA SurvivalInvInit == CredentialsInit => SurvivalInv
<1> SUFFICES ASSUME CredentialsInit PROVE SurvivalInv
    OBVIOUS
<1>1. TokensKnown
    BY DEF CredentialsInit, TokensKnown, Usable
<1>2. ASSUME NEW c \in ToolCall PROVE Fine(c)
    <2>1. at[c] = "new" /\ response[c] = "none" /\ ~relogged[c]
        BY DEF CredentialsInit
    <2> QED BY <2>1 DEF Fine, Unhurt
<1> QED BY <1>1, <1>2, TypeInvInit DEF SurvivalInv

\* A step that leaves tokens and costs alone concerns one call.
LEMMA OneMoves ==
    ASSUME SurvivalInv, TypeInv', NEW c \in ToolCall,
           UNCHANGED <<style, token, fresh, issued, accepted, Cost>>,
           \A d \in ToolCall \ {c} : /\ at'[d] = at[d] /\ held'[d] = held[d]
                                     /\ response'[d] = response[d] /\ relogged'[d] = relogged[d],
           Fine(c)'
    PROVE  SurvivalInv'
<1>1. TokensKnown'
    BY DEF SurvivalInv, TokensKnown, Usable, OAuth
<1>2. ASSUME NEW d \in ToolCall \ {c} PROVE Fine(d)'
    BY <1>2 DEF SurvivalInv, Fine, Unhurt, Recovers, Newer, OAuth
<1> QED BY <1>1, <1>2 DEF SurvivalInv

\* A step that costs something excuses whatever it leads to.
LEMMA OneCosts ==
    ASSUME SurvivalInv, TypeInv', Cost' = Cost + 1,
           UNCHANGED <<style, issued, response, relogged>>,
           token' = token \/ (OAuth /\ token' = 0),
           accepted' \subseteq accepted,
           \A d \in ToolCall :
                \/ at'[d] = at[d]
                \/ at[d] \notin {"answered", "done", "store"} /\ at'[d] \in {"read", "request"} /\ (at'[d] = "read" => OAuth)
    PROVE  SurvivalInv'
<1>1. Cost \in Nat /\ Cost' # 0 /\ (Cost # 0 => Cost' # 1) /\ issued \in Nat /\ token \in Nat
    BY CostIsNat DEF SurvivalInv
<1>2. TokensKnown'
    BY <1>1 DEF SurvivalInv, TokensKnown
<1>3. ASSUME NEW d \in ToolCall PROVE Fine(d)'
    <2>1. Fine(d) /\ response'[d] = response[d] /\ relogged'[d] = relogged[d] /\ (OAuth' <=> OAuth)
        BY DEF SurvivalInv, OAuth
    <2>2. token # 0 /\ ~OAuth => token' # 0
        OBVIOUS
    <2> QED BY <1>1, <2>1, <2>2 DEF Fine
<1> QED BY <1>2, <1>3 DEF SurvivalInv

\* The call moves on without a token, or ends without an answer.
LEMMA PlainStep ==
    ASSUME SurvivalInv, TypeInv', NEW c \in ToolCall,
           Start(c) \/ Reject(c) \/ WantLogin(c) \/ Lock(c) \/ LoginFails(c)
    PROVE  SurvivalInv'
<1>1. /\ UNCHANGED <<style, token, fresh, issued, accepted, drops, empties, tears, held, response, relogged>>
      /\ at[c] \notin {"answered", "done"}
      /\ \E p \in {"ensure", "wait", "login", "done"} : at' = [at EXCEPT ![c] = p] /\ (p = "ensure" => at[c] = "new")
    BY DEF Start, Reject, WantLogin, Lock, LoginFails, End, Goto, cache, service
<1>2. /\ at'[c] \in {"ensure", "wait", "login", "done"} /\ (at'[c] = "ensure" => at[c] = "new")
      /\ \A d \in ToolCall \ {c} : at'[d] = at[d]
    BY <1>1 DEF SurvivalInv, TypeInv, CredentialsTypeOK
<1>3. UNCHANGED <<style, token, fresh, issued, accepted, Cost>>
    BY <1>1 DEF Cost
<1>4. Fine(c)'
    BY <1>1, <1>2, <1>3 DEF SurvivalInv, Fine, Unhurt, Recovers, OAuth
<1> QED BY <1>1, <1>2, <1>3, <1>4, OneMoves

\* The cached token will do.
LEMMA CachedStep ==
    ASSUME SurvivalInv, TypeInv', NEW c \in ToolCall, SkipLogin(c) \/ UseCached(c)
    PROVE  SurvivalInv'
<1>1. /\ UNCHANGED <<style, token, fresh, issued, accepted, drops, empties, tears, response, relogged>>
      /\ at[c] = "ensure" /\ Usable /\ token # 0
      /\ \E p \in {"read", "request"} : at' = [at EXCEPT ![c] = p]
      /\ held' = [held EXCEPT ![c] = IF style = "gcp" THEN token ELSE @] \/ held' = held
      /\ at' = [at EXCEPT ![c] = "request"] => held' = [held EXCEPT ![c] = token]
    BY DEF SkipLogin, UseCached, TokenValid, Usable, Goto, cache, service, SurvivalInv, TypeInv, CredentialsTypeOK
<1>2. /\ at'[c] \in {"read", "request"} /\ (at'[c] = "request" => held'[c] = token)
      /\ \A d \in ToolCall \ {c} : at'[d] = at[d] /\ held'[d] = held[d]
    BY <1>1, ZenonT(60) DEF SurvivalInv, TypeInv, CredentialsTypeOK
<1>3. UNCHANGED <<style, token, fresh, issued, accepted, Cost>>
    BY <1>1 DEF Cost
<1>4. Fine(c)'
    <2>1. ~relogged[c] /\ response[c] # "unauthorized"
        BY <1>1 DEF SurvivalInv, Fine
    <2>2. Cost = 0 => token \in accepted
        BY <1>1 DEF SurvivalInv, TokensKnown
    <2> QED BY <1>1, <1>2, <1>3, <2>1, <2>2 DEF Fine, Unhurt, OAuth
<1> QED BY <1>1, <1>2, <1>3, <1>4, OneMoves

\* The request takes the token from the field.
LEMMA ReadTokenStep ==
    ASSUME SurvivalInv, TypeInv', NEW c \in ToolCall, ReadToken(c)
    PROVE  SurvivalInv'
<1>1. /\ UNCHANGED <<style, token, fresh, issued, accepted, drops, empties, tears, response, relogged>>
      /\ at[c] = "read" /\ at' = [at EXCEPT ![c] = "request"] /\ held' = [held EXCEPT ![c] = token]
    BY DEF ReadToken, Goto, cache, service
<1>2. /\ at'[c] = "request" /\ held'[c] = token
      /\ \A d \in ToolCall \ {c} : at'[d] = at[d] /\ held'[d] = held[d]
    BY <1>1 DEF SurvivalInv, TypeInv, CredentialsTypeOK
<1>3. UNCHANGED <<style, token, fresh, issued, accepted, Cost>>
    BY <1>1 DEF Cost
<1>4. relogged[c] /\ Cost = 1 => token \in accepted
    <2> SUFFICES ASSUME relogged[c], Cost = 1 PROVE token \in accepted
        OBVIOUS
    <2>1. Newer(token) /\ token # 0 /\ token <= issued /\ token \in Nat /\ issued \in Nat
        BY <1>1, CostIsNat DEF SurvivalInv, Fine, Recovers, TokensKnown
    <2>2. token \in 1..issued /\ ~(token < token)
        BY <2>1
    <2> QED BY <2>1, <2>2 DEF Newer
<1>5. Fine(c)'
    BY <1>1, <1>2, <1>3, <1>4 DEF SurvivalInv, Fine, Unhurt, Recovers, OAuth
<1> QED BY <1>1, <1>2, <1>3, <1>5, OneMoves

\* The service issues a token, the latest of all.
LEMMA IssueStep ==
    ASSUME SurvivalInv, TypeInv', NEW c \in ToolCall, Login(c)
    PROVE  SurvivalInv'
<1>1. /\ UNCHANGED <<style, token, fresh, drops, empties, tears, response, relogged>>
      /\ at[c] = "login" /\ at' = [at EXCEPT ![c] = "store"] /\ held' = [held EXCEPT ![c] = issued + 1]
      /\ issued' = issued + 1 /\ accepted' = accepted \cup {issued + 1}
    BY DEF Login, Goto, cache
<1>2. /\ at'[c] = "store" /\ held'[c] = issued + 1
      /\ \A d \in ToolCall \ {c} : at'[d] = at[d] /\ held'[d] = held[d] /\ at[d] # "store"
    BY <1>1 DEF SurvivalInv, TypeInv, CredentialsTypeOK, LoginInv, Exclusive
<1>3. issued \in Nat /\ token \in Nat /\ Cost' = Cost
    BY <1>1, CostIsNat DEF SurvivalInv, Cost
<1>4. \A t \in 1..(issued + 1) : t \notin accepted' => t \in 1..issued /\ t \notin accepted /\ t < issued + 1
    BY <1>1, <1>3
<1>5. Newer(token)' <=> Newer(token)
    BY <1>1, <1>3, <1>4 DEF Newer
<1>6. TokensKnown'
    <2>1. token <= issued + 1 /\ accepted' \subseteq 1..(issued + 1)
        BY <1>1, <1>3 DEF SurvivalInv, TokensKnown
    <2> QED BY <1>1, <1>3, <2>1 DEF SurvivalInv, TokensKnown, Usable, OAuth
<1>7. Fine(c)'
    <2>1. Newer(held[c])'
        BY <1>1, <1>2, <1>4 DEF Newer
    <2>2. held'[c] \in accepted' /\ issued' # 0 /\ response'[c] # "unauthorized"
        BY <1>1, <1>2, <1>3 DEF SurvivalInv, Fine
    <2> QED BY <1>1, <1>2, <1>3, <2>1, <2>2 DEF SurvivalInv, Fine, Unhurt, Recovers, Newer, OAuth
<1>8. ASSUME NEW d \in ToolCall \ {c} PROVE Fine(d)'
    <2>1. Fine(d) /\ accepted \subseteq accepted'
        BY <1>1 DEF SurvivalInv
    <2> QED BY <1>1, <1>2, <1>3, <1>5, <2>1 DEF Fine, Unhurt, Recovers, OAuth
<1> QED BY <1>6, <1>7, <1>8 DEF SurvivalInv

\* And it is stored.
LEMMA StoreStep ==
    ASSUME SurvivalInv, TypeInv', NEW c \in ToolCall, Store(c)
    PROVE  SurvivalInv'
<1>1. /\ UNCHANGED <<style, issued, accepted, drops, empties, tears, held, response, relogged>>
      /\ at[c] = "store" /\ at' = [at EXCEPT ![c] = IF style = "gcp" THEN "request" ELSE "read"]
      /\ token' = held[c]
    BY DEF Store, Goto, service
<1>2. /\ at'[c] \in {"read", "request"} /\ (at'[c] = "request" => OAuth)
      /\ \A d \in ToolCall \ {c} : at'[d] = at[d] /\ at[d] # "store"
    BY <1>1 DEF SurvivalInv, TypeInv, CredentialsTypeOK, LoginInv, Exclusive, OAuth
<1>3. /\ held[c] = issued /\ issued # 0 /\ issued \in Nat /\ token \in Nat /\ token <= issued /\ Cost' = Cost
      /\ Cost = 0 => issued \in accepted
    BY <1>1, CostIsNat DEF SurvivalInv, TypeInv, StoresLatest, Fine, Unhurt, TokensKnown, Cost
<1>4. Newer(token) => Newer(token)'
    <2> SUFFICES ASSUME Newer(token), NEW t \in 1..issued, t \notin accepted PROVE t < issued
        BY <1>1, <1>3 DEF Newer
    <2>1. t < token /\ t \in Nat
        BY DEF Newer
    <2> QED BY <1>3, <2>1
<1>5. Newer(held[c]) => Newer(token)'
    BY <1>1 DEF Newer
<1>6. TokensKnown'
    BY <1>1, <1>3 DEF SurvivalInv, TokensKnown
<1>7. Fine(c)'
    BY <1>1, <1>2, <1>3, <1>5 DEF SurvivalInv, Fine, Unhurt, Recovers, OAuth
<1>8. ASSUME NEW d \in ToolCall \ {c} PROVE Fine(d)'
    <2>1. Fine(d)
        BY DEF SurvivalInv
    <2> QED BY <1>1, <1>2, <1>3, <1>4, <2>1 DEF Fine, Unhurt, Recovers, OAuth
<1> QED BY <1>6, <1>7, <1>8 DEF SurvivalInv

\* The service refuses a token only if something was out of the ordinary, and
\* in a second try only if something else was, too.
LEMMA RefusedStep ==
    ASSUME SurvivalInv, TypeInv', NEW c \in ToolCall, Unauthorized(c)
    PROVE  SurvivalInv'
<1>1. /\ UNCHANGED <<style, token, fresh, issued, accepted, drops, empties, tears, held, relogged>>
      /\ at[c] = "request" /\ at' = [at EXCEPT ![c] = "answered"] /\ held[c] \notin accepted
      /\ response' = [response EXCEPT ![c] = "unauthorized"]
    BY DEF Unauthorized, Goto, cache, service
<1>2. /\ at'[c] = "answered" /\ \A d \in ToolCall \ {c} : at'[d] = at[d] /\ response'[d] = response[d]
    BY <1>1 DEF SurvivalInv, TypeInv, CredentialsTypeOK
<1>3. Cost # 0 /\ (relogged[c] => Cost # 1)
    BY <1>1 DEF SurvivalInv, Fine, Unhurt, Recovers
<1>4. UNCHANGED <<style, token, fresh, issued, accepted, Cost>>
    BY <1>1 DEF Cost
<1>5. Fine(c)'
    BY <1>1, <1>2, <1>3, <1>4 DEF SurvivalInv, Fine, OAuth
<1> QED BY <1>1, <1>2, <1>4, <1>5, OneMoves

\* Any other answer, or none.
LEMMA OtherAnswerStep ==
    ASSUME SurvivalInv, TypeInv', NEW c \in ToolCall, Authorized(c) \/ Breaks(c)
    PROVE  SurvivalInv'
<1>1. /\ UNCHANGED <<style, token, fresh, issued, accepted, drops, empties, tears, held, relogged>>
      /\ at[c] = "request" /\ at' = [at EXCEPT ![c] = "answered"]
      /\ \E a \in {"ok", "garbled", "error"} : response' = [response EXCEPT ![c] = a]
    BY DEF Authorized, Breaks, Goto, cache, service
<1>2. /\ at'[c] = "answered" /\ response'[c] # "unauthorized"
      /\ \A d \in ToolCall \ {c} : at'[d] = at[d] /\ response'[d] = response[d]
    BY <1>1 DEF SurvivalInv, TypeInv, CredentialsTypeOK
<1>3. UNCHANGED <<style, token, fresh, issued, accepted, Cost>>
    BY <1>1 DEF Cost
<1>4. Fine(c)'
    BY <1>1, <1>2, <1>3 DEF SurvivalInv, Fine, Unhurt, Recovers, OAuth
<1> QED BY <1>1, <1>2, <1>3, <1>4, OneMoves

\* vSphere logs in once more: its first try has had its excuse.
LEMMA SecondTryStep ==
    ASSUME SurvivalInv, TypeInv', NEW c \in ToolCall, Relogin(c)
    PROVE  SurvivalInv'
<1>1. /\ UNCHANGED <<style, token, fresh, issued, accepted, drops, empties, tears, held>>
      /\ style = "vsphere" /\ response[c] = "unauthorized"
      /\ at' = [at EXCEPT ![c] = "wait"] /\ relogged' = [relogged EXCEPT ![c] = TRUE]
      /\ response' = [response EXCEPT ![c] = "none"]
    BY DEF Relogin, SecondTry, Goto, cache, service
<1>2. /\ at'[c] = "wait" /\ response'[c] = "none"
      /\ \A d \in ToolCall \ {c} : at'[d] = at[d] /\ response'[d] = response[d]
    BY <1>1 DEF SurvivalInv, TypeInv, CredentialsTypeOK
<1>3. \A d \in ToolCall \ {c} : relogged'[d] = relogged[d]
    BY <1>1 DEF SurvivalInv, TypeInv, CredentialsTypeOK
<1>4. Cost # 0
    BY <1>1 DEF SurvivalInv, Fine, Unhurt
<1>5. UNCHANGED <<style, token, fresh, issued, accepted, Cost>>
    BY <1>1 DEF Cost
<1>6. Fine(c)'
    BY <1>1, <1>2, <1>4, <1>5 DEF Fine, Recovers, OAuth
<1> QED BY <1>1, <1>2, <1>3, <1>5, <1>6, OneMoves

\* The call ends with what the service answered.
LEMMA DoneStep ==
    ASSUME SurvivalInv, TypeInv', NEW c \in ToolCall, Answer(c)
    PROVE  SurvivalInv'
<1>1. /\ UNCHANGED <<style, token, fresh, issued, accepted, drops, empties, tears, held, response, relogged>>
      /\ at[c] = "answered" /\ at' = [at EXCEPT ![c] = "done"]
      /\ response[c] = "unauthorized" => OAuth \/ relogged[c]
    BY DEF Answer, SecondTry, OAuth, End, Goto, cache, service
<1>2. at'[c] = "done" /\ \A d \in ToolCall \ {c} : at'[d] = at[d]
    BY <1>1 DEF SurvivalInv, TypeInv, CredentialsTypeOK
<1>3. UNCHANGED <<style, token, fresh, issued, accepted, Cost>>
    BY <1>1 DEF Cost
<1>4. Fine(c)'
    BY <1>1, <1>2, <1>3 DEF SurvivalInv, Fine, Unhurt, Recovers, OAuth
<1> QED BY <1>1, <1>2, <1>3, <1>4, OneMoves

\* An OAuth token gets old, then runs out: nobody who still needs it has it.
LEMMA RunsOutStep ==
    ASSUME SurvivalInv, TypeInv', Age \/ \E t \in accepted : Expire(t)
    PROVE  SurvivalInv'
<1>1. /\ UNCHANGED <<style, token, issued, drops, empties, tears, at, held, response, relogged>>
      /\ OAuth
    BY DEF Age, Expire, cache
<1>2. Cost' = Cost /\ OAuth'
    BY <1>1 DEF Cost, OAuth
<1>3. \A c \in ToolCall : ~relogged[c]
    BY <1>1 DEF SurvivalInv, Fine
<1>4. CASE Age
    <2>1. fresh' = FALSE /\ accepted' = accepted
        BY <1>4 DEF Age
    <2>2. TokensKnown'
        BY <1>1, <1>2, <2>1 DEF SurvivalInv, TokensKnown, Usable
    <2>3. ASSUME NEW c \in ToolCall PROVE Fine(c)'
        BY <1>1, <1>2, <1>3, <2>1 DEF SurvivalInv, Fine, Unhurt
    <2> QED BY <2>2, <2>3 DEF SurvivalInv
<1>5. ASSUME NEW t \in accepted, Expire(t) PROVE SurvivalInv'
    <2>1. /\ accepted' = accepted \ {t} /\ fresh' = fresh /\ (t = token => ~fresh)
          /\ \A c \in ToolCall : /\ at[c] \in {"request", "store"} => held[c] # t
                                 /\ at[c] = "read" => token # t
        BY <1>5 DEF Expire, cache
    <2>2. TokensKnown'
        BY <1>1, <1>2, <2>1 DEF SurvivalInv, TokensKnown, Usable
    <2>3. ASSUME NEW c \in ToolCall PROVE Fine(c)'
        BY <1>1, <1>2, <1>3, <2>1 DEF SurvivalInv, Fine, Unhurt
    <2> QED BY <2>2, <2>3 DEF SurvivalInv
<1> QED BY <1>4, <1>5

\* What costs something.
LEMMA CostlyStep ==
    ASSUME SurvivalInv, TypeInv',
           (\E t \in accepted : Drop(t)) \/ \E c \in ToolCall : LoginEmpty(c) \/ ReadTorn(c)
    PROVE  SurvivalInv'
<1>1. drops \in Nat /\ empties \in Nat /\ tears \in Nat
    BY DEF SurvivalInv, TypeInv, CredentialsTypeOK
<1>2. ASSUME NEW t \in accepted, Drop(t) PROVE SurvivalInv'
    <2>1. /\ UNCHANGED <<style, token, issued, response, relogged, at, empties, tears>>
          /\ accepted' = accepted \ {t} /\ drops' = drops + 1
        BY <1>2 DEF Drop, cache
    <2>2. Cost' = Cost + 1
        BY <1>1, <2>1 DEF Cost
    <2> QED BY <2>1, <2>2, OneCosts
<1>3. ASSUME NEW c \in ToolCall, LoginEmpty(c) PROVE SurvivalInv'
    <2>1. /\ UNCHANGED <<style, issued, accepted, response, relogged, drops, tears>>
          /\ OAuth /\ token' = 0 /\ empties' = empties + 1
          /\ at[c] = "login" /\ at' = [at EXCEPT ![c] = "read"]
        BY <1>3 DEF LoginEmpty, Goto, OAuth
    <2>2. Cost' = Cost + 1
        BY <1>1, <2>1 DEF Cost
    <2>3. at'[c] = "read" /\ \A d \in ToolCall \ {c} : at'[d] = at[d]
        BY <2>1 DEF SurvivalInv, TypeInv, CredentialsTypeOK
    <2> QED BY <2>1, <2>2, <2>3, OneCosts
<1>4. ASSUME NEW c \in ToolCall, ReadTorn(c) PROVE SurvivalInv'
    <2>1. /\ UNCHANGED <<style, token, issued, accepted, response, relogged, drops, empties>>
          /\ tears' = tears + 1
          /\ at[c] = "read" /\ at' = [at EXCEPT ![c] = "request"]
        BY <1>4 DEF ReadTorn, Racing, Goto, cache, service
    <2>2. Cost' = Cost + 1
        BY <1>1, <2>1 DEF Cost
    <2>3. at'[c] = "request" /\ \A d \in ToolCall \ {c} : at'[d] = at[d]
        BY <2>1 DEF SurvivalInv, TypeInv, CredentialsTypeOK
    <2> QED BY <2>1, <2>2, <2>3, OneCosts
<1> QED BY <1>2, <1>3, <1>4

\* The invariant is inductive.
LEMMA SurvivalInvStep ==
    ASSUME SurvivalInv, [CredentialsNext]_credentialVars
    PROVE  SurvivalInv'
<1>1. TypeInv'
    BY TypeInvStep DEF SurvivalInv
<1>2. CASE UNCHANGED credentialVars
    BY <1>1, <1>2 DEF credentialVars, cache, service, SurvivalInv, TokensKnown, Fine, Unhurt, Recovers, Newer, Usable, OAuth, Cost
<1>3. ASSUME NEW c \in ToolCall, Crash(c) PROVE SurvivalInv'
    BY <1>1, <1>3 DEF Crash, cache, service, SurvivalInv, TokensKnown, Fine, Unhurt, Recovers, Newer, Usable, OAuth, Cost
<1>4. ASSUME NEW c \in ToolCall, Step(c) PROVE SurvivalInv'
    BY <1>1, <1>3, <1>4, PlainStep, CachedStep, ReadTokenStep, StoreStep, SecondTryStep, DoneStep, CostlyStep DEF Step
<1>5. ASSUME NEW c \in ToolCall, Service(c) PROVE SurvivalInv'
    BY <1>1, <1>5, IssueStep, RefusedStep, OtherAnswerStep, CostlyStep DEF Service
<1> QED BY <1>1, <1>2, <1>4, <1>5, RunsOutStep, CostlyStep DEF CredentialsNext

\* Expired tokens cost neither a second login nor a call: every try of a call
\* that is refused in the end has cost the service a token it forgot before
\* its time, or an empty one, or it was sent something torn.
THEOREM ExpiryIsHandled == CredentialsSpec => []ExpiryHandled
<1>1. SurvivalInv => ExpiryHandled
    <2> SUFFICES ASSUME SurvivalInv PROVE ExpiryHandled
        OBVIOUS
    <2>1. LoginsShared
        BY DEF SurvivalInv, TypeInv, LoginInv, Paid, LoginsShared
    <2>2. ASSUME NEW c \in ToolCall, at[c] = "done", response[c] = "unauthorized"
          PROVE  Cost >= Tries
        <3>1. Cost \in Nat /\ Cost # 0
            BY <2>2, CostIsNat DEF SurvivalInv, Fine, Unhurt
        <3>2. ~OAuth => Cost # 1
            BY <2>2 DEF SurvivalInv, Fine, Recovers
        <3> QED BY <3>1, <3>2 DEF Tries
    <2>3. ExpirySurvived
        BY <2>2 DEF ExpirySurvived, Cost
    <2> QED BY <2>1, <2>3 DEF ExpiryHandled
<1> QED BY <1>1, SurvivalInvInit, SurvivalInvStep, PTL DEF CredentialsSpec
-----------------------------------------------------------------------------
(* A call to a platform has an end.                                        *)

\* The steps a call may still take: request, answer, pause and what comes
\* of them, in this attempt and in those that maxRetries leaves.
SendsLeft(s) ==
    IF sending[s] = "idle" THEN 0
    ELSE [attempt |-> 4, sent |-> 3, answered |-> 2, backoff |-> 1][sending[s]]
         + 4 * (Retries[client] - tries[s])

\* Every step of a call leaves it fewer, whatever the platform answers, and
\* no other sender's steps have a part in that.
SendsAdvance ==
    [][\A s \in Sender : sending[s] # "idle" =>
          /\ Work(s) \/ Platform(s) => SendsLeft(s)' < SendsLeft(s)
          /\ SendsLeft(s)' <= SendsLeft(s)]_clientVars

\* Four steps per attempt, and maxRetries attempts after the first.
SendsBounded == \A s \in Sender : SendsLeft(s) \in 0..4 * Retries[client] + 4

\* The attempts are counted up to maxRetries.
TriesKept == \A s \in Sender : sending[s] # "idle" => tries[s] \in 0..Retries[client]

\* The count, place by place.
LEMMA SendsTable ==
    ASSUME NEW s \in Sender
    PROVE  /\ sending[s] = "idle"     => SendsLeft(s) = 0
           /\ sending[s] = "attempt"  => SendsLeft(s) = 4 + 4 * (Retries[client] - tries[s])
           /\ sending[s] = "sent"     => SendsLeft(s) = 3 + 4 * (Retries[client] - tries[s])
           /\ sending[s] = "answered" => SendsLeft(s) = 2 + 4 * (Retries[client] - tries[s])
           /\ sending[s] = "backoff"  => SendsLeft(s) = 1 + 4 * (Retries[client] - tries[s])
  BY DEF SendsLeft

\* A step of a call, and the loop around its attempts.
LEMMA SendMoves ==
    ASSUME ClientsTypeOK, NEW s \in Sender, Work(s) \/ Platform(s)
    PROVE  /\ client' = client
           /\ \A r \in Sender \ {s} : sending'[r] = sending[r] /\ tries'[r] = tries[r]
           /\ \/ /\ tries'[s] = tries[s]
                 /\ \/ sending[s] = "attempt" /\ sending'[s] \in {"idle", "sent"}
                    \/ sending[s] = "sent" /\ sending'[s] = "answered"
                    \/ sending[s] = "answered" /\ sending'[s] \in {"idle", "backoff"}
                    \/ sending[s] = "backoff" /\ sending'[s] = "idle"
              \/ /\ sending[s] = "backoff" /\ sending'[s] = "attempt"
                 /\ tries[s] < Retries[client] /\ tries'[s] = tries[s] + 1
<1>1. /\ sending \in [Sender -> {"idle", "attempt", "sent", "answered", "backoff"}]
      /\ tries \in [Sender -> Nat]
    BY DEF ClientsTypeOK
<1>2. CASE CannotSend(s) \/ ReadFailure(s) \/ GiveUp(s)
    BY <1>1, <1>2 DEF CannotSend, ReadFailure, GiveUp, Failed, setting
<1>3. CASE Transmit(s) \/ WaitBackoff(s) \/ Succeed(s)
    BY <1>1, <1>3 DEF Transmit, WaitBackoff, Succeed, setting
<1>4. CASE Again(s)
    BY <1>1, <1>4 DEF Again, setting
<1>5. CASE Platform(s)
    BY <1>1, <1>5 DEF Platform, Perform, Refuse, Answered, setting
<1> QED BY <1>2, <1>3, <1>4, <1>5 DEF Work

\* What is left of one call, before and after a step of it.
LEMMA SendsFall ==
    ASSUME ClientsTypeOK, TriesKept, NEW s \in Sender, Work(s) \/ Platform(s)
    PROVE  /\ SendsLeft(s)' < SendsLeft(s) /\ SendsLeft(s)' <= SendsLeft(s)
           /\ sending'[s] # "idle" => tries'[s] \in 0..Retries[client]
<1> DEFINE R == Retries[client]  t == tries[s]
<1>1. sending[s] # "idle" /\ client' = client /\ client \in Client
    BY SendMoves DEF ClientsTypeOK
<1>2. R \in Nat /\ t \in 0..R
    BY <1>1, ClientsAssumption DEF ClientsAssumption, TriesKept
<1>3. /\ sending'[s] = "idle"     => SendsLeft(s)' = 0
      /\ sending'[s] = "attempt"  => SendsLeft(s)' = 4 + 4 * (R - tries'[s])
      /\ sending'[s] = "sent"     => SendsLeft(s)' = 3 + 4 * (R - tries'[s])
      /\ sending'[s] = "answered" => SendsLeft(s)' = 2 + 4 * (R - tries'[s])
      /\ sending'[s] = "backoff"  => SendsLeft(s)' = 1 + 4 * (R - tries'[s])
    BY <1>1 DEF SendsLeft
<1>4. /\ sending[s] = "attempt"  => SendsLeft(s) = 4 + 4 * (R - t)
      /\ sending[s] = "sent"     => SendsLeft(s) = 3 + 4 * (R - t)
      /\ sending[s] = "answered" => SendsLeft(s) = 2 + 4 * (R - t)
      /\ sending[s] = "backoff"  => SendsLeft(s) = 1 + 4 * (R - t)
    BY SendsTable
<1>5. \/ /\ tries'[s] = t
         /\ \/ sending[s] = "attempt" /\ sending'[s] \in {"idle", "sent"}
            \/ sending[s] = "sent" /\ sending'[s] = "answered"
            \/ sending[s] = "answered" /\ sending'[s] \in {"idle", "backoff"}
            \/ sending[s] = "backoff" /\ sending'[s] = "idle"
      \/ /\ sending[s] = "backoff" /\ sending'[s] = "attempt"
         /\ t < R /\ tries'[s] = t + 1
    BY SendMoves
<1> HIDE DEF R, t
<1>6. 4 * (R - t) \in Nat /\ (t < R => 4 * (R - (t + 1)) = 4 * (R - t) - 4)
    BY <1>2
<1>7. CASE tries'[s] = t
    BY <1>2, <1>3, <1>4, <1>5, <1>6, <1>7 DEF R
<1>8. CASE sending[s] = "backoff" /\ sending'[s] = "attempt" /\ t < R /\ tries'[s] = t + 1
    BY <1>2, <1>3, <1>4, <1>6, <1>8 DEF R
<1> QED BY <1>5, <1>7, <1>8

\* A sender that is not at work keeps what it has left.
LEMMA SendsStay ==
    ASSUME NEW r \in Sender, client' = client, sending'[r] = sending[r], tries'[r] = tries[r]
    PROVE  SendsLeft(r)' = SendsLeft(r)
  BY DEF SendsLeft

\* The count stays in its range while the attempts do.
LEMMA SendsRange ==
    ASSUME ClientsTypeOK, TriesKept
    PROVE  SendsBounded
<1> SUFFICES ASSUME NEW s \in Sender PROVE SendsLeft(s) \in 0..4 * Retries[client] + 4
    BY DEF SendsBounded
<1> DEFINE R == Retries[client]  t == tries[s]
<1>1. R \in Nat /\ sending[s] \in {"idle", "attempt", "sent", "answered", "backoff"}
    BY ClientsAssumption DEF ClientsAssumption, ClientsTypeOK
<1>2. sending[s] # "idle" => t \in 0..R
    BY DEF TriesKept
<1>3. /\ sending[s] = "idle"     => SendsLeft(s) = 0
      /\ sending[s] = "attempt"  => SendsLeft(s) = 4 + 4 * (R - t)
      /\ sending[s] = "sent"     => SendsLeft(s) = 3 + 4 * (R - t)
      /\ sending[s] = "answered" => SendsLeft(s) = 2 + 4 * (R - t)
      /\ sending[s] = "backoff"  => SendsLeft(s) = 1 + 4 * (R - t)
    BY SendsTable
<1> HIDE DEF R, t
<1>4. sending[s] # "idle" => 4 * (R - t) \in 0..4 * R
    BY <1>1, <1>2
<1> QED BY <1>1, <1>3, <1>4 DEF R

\* What a step of the whole means for the count of one call.
LEMMA SendsStep ==
    ASSUME ClientsTypeOK, TriesKept, [ClientsNext]_clientVars, NEW r \in Sender
    PROVE  /\ sending'[r] # "idle" => tries'[r] \in 0..Retries[client']
           /\ sending[r] # "idle" =>
                 /\ Work(r) \/ Platform(r) => SendsLeft(r)' < SendsLeft(r)
                 /\ SendsLeft(r)' <= SendsLeft(r)
<1>1. SendsLeft(r) \in Int /\ Retries[client] \in Nat
    <2>1. SendsLeft(r) \in 0..4 * Retries[client] + 4
        BY SendsRange DEF SendsBounded
    <2>2. Retries[client] \in Nat
        BY ClientsAssumption DEF ClientsAssumption, ClientsTypeOK
    <2> QED BY <2>1, <2>2
<1>2. CASE Work(r) \/ Platform(r)
    <2>1. client' = client
        BY <1>2, SendMoves
    <2> QED BY <1>2, <2>1, SendsFall
<1>3. ASSUME client' = client, sending'[r] = sending[r], tries'[r] = tries[r]
      PROVE  /\ sending'[r] # "idle" => tries'[r] \in 0..Retries[client']
             /\ SendsLeft(r)' <= SendsLeft(r)
    <2>1. SendsLeft(r)' = SendsLeft(r)
        BY <1>3, SendsStay
    <2> QED BY <1>1, <1>3, <2>1 DEF TriesKept
<1>4. ASSUME NEW s \in Sender \ {r}, Work(s) \/ Platform(s)
      PROVE  client' = client /\ sending'[r] = sending[r] /\ tries'[r] = tries[r]
    BY <1>4, SendMoves
<1>5. ASSUME NEW s \in Sender, NEW k \in {"alert", "analysis", "error", "reply", "chat"}, Begin(s, k)
      PROVE  \/ client' = client /\ sending'[r] = sending[r] /\ tries'[r] = tries[r]
             \/ client' = client /\ sending[r] = "idle" /\ tries'[r] = 0
    BY <1>5 DEF Begin, setting, ClientsTypeOK
<1>6. CASE UNCHANGED clientVars
    <2>1. client' = client /\ sending'[r] = sending[r] /\ tries'[r] = tries[r]
        BY <1>6 DEF clientVars
    <2>2. ~(Work(r) \/ Platform(r)) \/ (Work(r) \/ Platform(r))
        OBVIOUS
    <2> QED BY <1>2, <1>3, <2>1
<1>7. CASE ~(Work(r) \/ Platform(r))
    <2>1. \/ client' = client /\ sending'[r] = sending[r] /\ tries'[r] = tries[r]
          \/ client' = client /\ sending[r] = "idle" /\ tries'[r] = 0
        BY <1>4, <1>5, <1>6, <1>7 DEF ClientsNext, clientVars
    <2>2. 0 \in 0..Retries[client]
        BY <1>1
    <2> QED BY <1>3, <1>7, <2>1, <2>2
<1> QED BY <1>2, <1>7

\* Every call to a platform ends, as far as steps can tell (the loops over
\* maxRetries in internal/messenger and internal/analyzer/llm): whatever the
\* platform answers, and whatever other senders do at the same time, each of
\* its steps leaves it fewer, and it never has more than four per attempt.
THEOREM SendsEnd == ClientsSpec => SendsAdvance /\ []SendsBounded
<1> DEFINE Inv == PlacesInv /\ TriesKept
<1>1. ClientsInit => Inv
    BY PlacesInvInit DEF ClientsInit, TriesKept
<1>2. PlacesInv => ClientsTypeOK
    BY DEF PlacesInv
<1>3. Inv /\ [ClientsNext]_clientVars => Inv'
    <2> SUFFICES ASSUME Inv, [ClientsNext]_clientVars PROVE Inv'
        OBVIOUS
    <2>1. \A r \in Sender : sending'[r] # "idle" => tries'[r] \in 0..Retries[client']
        BY <1>2, SendsStep
    <2> QED BY <2>1, PlacesInvStep DEF TriesKept
<1>4. Inv /\ [ClientsNext]_clientVars =>
        [\A s \in Sender : sending[s] # "idle" =>
            /\ Work(s) \/ Platform(s) => SendsLeft(s)' < SendsLeft(s)
            /\ SendsLeft(s)' <= SendsLeft(s)]_clientVars
    BY <1>2, SendsStep
<1>5. Inv => SendsBounded
    BY <1>2, SendsRange
<1> QED BY <1>1, <1>3, <1>4, <1>5, PTL DEF ClientsSpec, SendsAdvance

-----------------------------------------------------------------------------
(* A tool call has an end, too.                                            *)

\* The steps a call may still take; a second login comes once.
LoginStepsLeft(c) ==
    [new |-> 8, ensure |-> 7, wait |-> 6, login |-> 5, store |-> 4, read |-> 3,
     request |-> 2, answered |-> 1, done |-> 0][at[c]]
    + (IF relogged[c] THEN 0 ELSE 6)

\* Every step of a call leaves it fewer, unless the process crashes in it, and
\* nobody else's step changes that.
LoginsAdvance ==
    [][\A c \in ToolCall :
          /\ (Step(c) \/ Service(c)) /\ alive' => LoginStepsLeft(c)' < LoginStepsLeft(c)
          /\ LoginStepsLeft(c)' <= LoginStepsLeft(c)]_credentialVars

\* Whoever has the mutex is on the way to give it back.
MutexMoves == lock # Nobody => at[lock] \in {"login", "store"}

\* The count, place by place.
LEMMA LoginStepsTable ==
    ASSUME NEW c \in ToolCall, NEW n, n = (IF relogged[c] THEN 0 ELSE 6)
    PROVE  /\ at[c] = "new"      => LoginStepsLeft(c) = 8 + n
           /\ at[c] = "ensure"   => LoginStepsLeft(c) = 7 + n
           /\ at[c] = "wait"     => LoginStepsLeft(c) = 6 + n
           /\ at[c] = "login"    => LoginStepsLeft(c) = 5 + n
           /\ at[c] = "store"    => LoginStepsLeft(c) = 4 + n
           /\ at[c] = "read"     => LoginStepsLeft(c) = 3 + n
           /\ at[c] = "request"  => LoginStepsLeft(c) = 2 + n
           /\ at[c] = "answered" => LoginStepsLeft(c) = 1 + n
           /\ at[c] = "done"     => LoginStepsLeft(c) = n
  BY DEF LoginStepsLeft

\* How a call gets from one place to the next.
LEMMA LoginMoves ==
    ASSUME CredentialsTypeOK, NEW c \in ToolCall, Step(c) \/ Service(c)
    PROVE  /\ \A d \in ToolCall \ {c} : at'[d] = at[d] /\ relogged'[d] = relogged[d]
           /\ \/ /\ relogged'[c] = relogged[c]
                 /\ \/ at[c] = "new" /\ at'[c] = "ensure"
                    \/ at[c] = "ensure" /\ at'[c] \in {"wait", "login", "read", "request", "done"}
                    \/ at[c] = "wait" /\ at'[c] = "login"
                    \/ at[c] = "login" /\ at'[c] \in {"store", "read", "done"}
                    \/ at[c] = "store" /\ at'[c] \in {"read", "request"}
                    \/ at[c] = "read" /\ at'[c] = "request"
                    \/ at[c] = "request" /\ at'[c] = "answered"
                    \/ at[c] = "answered" /\ at'[c] = "done"
              \/ /\ ~relogged[c] /\ relogged'[c]
                 /\ at[c] = "answered" /\ at'[c] = "wait"
              \/ at' = at /\ relogged' = relogged /\ alive' = FALSE
<1>1. /\ at \in [ToolCall -> {"new", "ensure", "wait", "login", "store", "read", "request", "answered", "done"}]
      /\ relogged \in [ToolCall -> BOOLEAN]
    BY DEF CredentialsTypeOK
<1>2. CASE Start(c) \/ Reject(c) \/ SkipLogin(c) \/ WantLogin(c) \/ UseCached(c)
    BY <1>1, <1>2 DEF Start, Reject, SkipLogin, WantLogin, UseCached, Goto, End
<1>3. CASE Lock(c)
    BY <1>1, <1>3 DEF Lock, Goto
<1>4. CASE Login(c) \/ LoginEmpty(c) \/ LoginFails(c) \/ Store(c)
    BY <1>1, <1>4 DEF Login, LoginEmpty, LoginFails, Store, Goto, End
<1>5. CASE ReadToken(c) \/ ReadTorn(c)
    BY <1>1, <1>5 DEF ReadToken, ReadTorn, Racing, Goto
<1>6. CASE Authorized(c) \/ Unauthorized(c) \/ Breaks(c) \/ Answer(c)
    BY <1>1, <1>6 DEF Authorized, Unauthorized, Breaks, Answer, Goto, End
<1>7. CASE Relogin(c)
    BY <1>1, <1>7 DEF Relogin, SecondTry, Goto
<1>8. CASE Crash(c)
    BY <1>8 DEF Crash
<1> QED BY <1>2, <1>3, <1>4, <1>5, <1>6, <1>7, <1>8 DEF Step, Service

\* What is left of a call that somebody else leaves alone.
LEMMA LoginStays ==
    ASSUME NEW d \in ToolCall, at'[d] = at[d], relogged'[d] = relogged[d]
    PROVE  LoginStepsLeft(d)' = LoginStepsLeft(d)
  BY DEF LoginStepsLeft

\* No call has more than fourteen steps left.
LEMMA LoginRange ==
    ASSUME CredentialsTypeOK, NEW c \in ToolCall
    PROVE  LoginStepsLeft(c) \in 0..14
<1> DEFINE n == IF relogged[c] THEN 0 ELSE 6
<1>1. n \in {0, 6} /\ n = (IF relogged[c] THEN 0 ELSE 6)
    OBVIOUS
<1>2. at[c] \in {"new", "ensure", "wait", "login", "store", "read", "request", "answered", "done"}
    BY DEF CredentialsTypeOK
<1> HIDE DEF n
<1>3. /\ at[c] = "new"      => LoginStepsLeft(c) = 8 + n
      /\ at[c] = "ensure"   => LoginStepsLeft(c) = 7 + n
      /\ at[c] = "wait"     => LoginStepsLeft(c) = 6 + n
      /\ at[c] = "login"    => LoginStepsLeft(c) = 5 + n
      /\ at[c] = "store"    => LoginStepsLeft(c) = 4 + n
      /\ at[c] = "read"     => LoginStepsLeft(c) = 3 + n
      /\ at[c] = "request"  => LoginStepsLeft(c) = 2 + n
      /\ at[c] = "answered" => LoginStepsLeft(c) = 1 + n
      /\ at[c] = "done"     => LoginStepsLeft(c) = n
    BY <1>1, LoginStepsTable
<1> QED BY <1>1, <1>2, <1>3

\* A step of a call leaves it fewer, also when it logs in again.
LEMMA LoginFalls ==
    ASSUME CredentialsTypeOK, NEW c \in ToolCall, Step(c) \/ Service(c), alive'
    PROVE  LoginStepsLeft(c)' < LoginStepsLeft(c) /\ LoginStepsLeft(c)' <= LoginStepsLeft(c)
<1> DEFINE n == IF relogged[c] THEN 0 ELSE 6  m == IF relogged'[c] THEN 0 ELSE 6
<1>1. /\ n \in {0, 6} /\ n = (IF relogged[c] THEN 0 ELSE 6)
      /\ m \in {0, 6} /\ (relogged'[c] = relogged[c] => m = n)
      /\ ~relogged[c] /\ relogged'[c] => n = 6 /\ m = 0
    OBVIOUS
<1>2. /\ at'[c] = "ensure"   => LoginStepsLeft(c)' = 7 + m
      /\ at'[c] = "wait"     => LoginStepsLeft(c)' = 6 + m
      /\ at'[c] = "login"    => LoginStepsLeft(c)' = 5 + m
      /\ at'[c] = "store"    => LoginStepsLeft(c)' = 4 + m
      /\ at'[c] = "read"     => LoginStepsLeft(c)' = 3 + m
      /\ at'[c] = "request"  => LoginStepsLeft(c)' = 2 + m
      /\ at'[c] = "answered" => LoginStepsLeft(c)' = 1 + m
      /\ at'[c] = "done"     => LoginStepsLeft(c)' = m
    BY DEF LoginStepsLeft
<1> HIDE DEF n, m
<1>3. /\ at[c] = "new"      => LoginStepsLeft(c) = 8 + n
      /\ at[c] = "ensure"   => LoginStepsLeft(c) = 7 + n
      /\ at[c] = "wait"     => LoginStepsLeft(c) = 6 + n
      /\ at[c] = "login"    => LoginStepsLeft(c) = 5 + n
      /\ at[c] = "store"    => LoginStepsLeft(c) = 4 + n
      /\ at[c] = "read"     => LoginStepsLeft(c) = 3 + n
      /\ at[c] = "request"  => LoginStepsLeft(c) = 2 + n
      /\ at[c] = "answered" => LoginStepsLeft(c) = 1 + n
    BY <1>1, LoginStepsTable
<1>4. \/ /\ relogged'[c] = relogged[c]
         /\ \/ at[c] = "new" /\ at'[c] = "ensure"
            \/ at[c] = "ensure" /\ at'[c] \in {"wait", "login", "read", "request", "done"}
            \/ at[c] = "wait" /\ at'[c] = "login"
            \/ at[c] = "login" /\ at'[c] \in {"store", "read", "done"}
            \/ at[c] = "store" /\ at'[c] \in {"read", "request"}
            \/ at[c] = "read" /\ at'[c] = "request"
            \/ at[c] = "request" /\ at'[c] = "answered"
            \/ at[c] = "answered" /\ at'[c] = "done"
      \/ /\ ~relogged[c] /\ relogged'[c]
         /\ at[c] = "answered" /\ at'[c] = "wait"
    BY LoginMoves
<1> QED BY <1>1, <1>2, <1>3, <1>4

\* What a step of the whole means for the count of one call.
LEMMA LoginsStep ==
    ASSUME CredentialsTypeOK, [CredentialsNext]_credentialVars, NEW c \in ToolCall
    PROVE  /\ (Step(c) \/ Service(c)) /\ alive' => LoginStepsLeft(c)' < LoginStepsLeft(c)
           /\ LoginStepsLeft(c)' <= LoginStepsLeft(c)
<1>1. LoginStepsLeft(c) \in Int
    BY LoginRange
<1>2. at'[c] = at[c] /\ relogged'[c] = relogged[c] => LoginStepsLeft(c)' <= LoginStepsLeft(c)
    BY <1>1, LoginStays
<1>3. CASE (Step(c) \/ Service(c)) /\ alive'
    BY <1>3, LoginFalls
<1>4. CASE ~((Step(c) \/ Service(c)) /\ alive')
    <2>1. ASSUME NEW d \in ToolCall, Step(d) \/ Service(d), alive
          PROVE  at'[c] = at[c] /\ relogged'[c] = relogged[c]
        <3>1. CASE d # c
            BY <2>1, <3>1, LoginMoves
        <3>2. CASE d = c
            <4>1. ~alive'
                BY <1>4, <2>1, <3>2
            <4>2. Crash(c) \/ alive' = alive
                BY <2>1, <3>2 DEF Step, Service, Start, Reject, SkipLogin, WantLogin, Lock, UseCached,
                       LoginFails, Store, ReadToken, ReadTorn, Relogin, Answer, Login, LoginEmpty,
                       Authorized, Unauthorized, Breaks
            <4> QED BY <2>1, <4>1, <4>2 DEF Crash
        <3> QED BY <3>1, <3>2
    <2>2. Age \/ (\E t \in accepted : Expire(t) \/ Drop(t)) \/ UNCHANGED credentialVars
            => at' = at /\ relogged' = relogged
        BY DEF Age, Expire, Drop, credentialVars
    <2> QED BY <1>2, <1>4, <2>1, <2>2 DEF CredentialsNext
<1> QED BY <1>3, <1>4

\* Every tool call that was started ends, as far as steps can tell (the
\* executors' doGet, ensureToken and authenticate): each of its steps leaves
\* it fewer of at most fourteen, a second login included, no other call can
\* send it back, and whoever holds the mutex others wait for is on the way to
\* give it back.
THEOREM LoginsEnd ==
    CredentialsSpec => /\ LoginsAdvance
                       /\ [](\A c \in ToolCall : LoginStepsLeft(c) \in 0..14)
                       /\ []MutexMoves
<1>1. TypeInv => CredentialsTypeOK
    BY DEF TypeInv
<1>2. TypeInv /\ [CredentialsNext]_credentialVars =>
        [\A c \in ToolCall :
            /\ (Step(c) \/ Service(c)) /\ alive' => LoginStepsLeft(c)' < LoginStepsLeft(c)
            /\ LoginStepsLeft(c)' <= LoginStepsLeft(c)]_credentialVars
    BY <1>1, LoginsStep
<1>3. TypeInv => \A c \in ToolCall : LoginStepsLeft(c) \in 0..14
    BY <1>1, LoginRange
<1>4. TypeInv => MutexMoves
    BY DEF TypeInv, LoginInv, Tallied, Exclusive, MutexMoves
<1> QED BY <1>2, <1>3, <1>4, TypeInvInit, TypeInvStep, PTL DEF CredentialsSpec, LoginsAdvance
=============================================================================
