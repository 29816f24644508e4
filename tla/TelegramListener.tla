-------------------------- MODULE TelegramListener --------------------------
(***************************************************************************)
(* The goroutine that polls Telegram for updates (pollLoop, getUpdates and *)
(* handleUpdate of internal/messenger/telegram.go), over restarts of the   *)
(* process.  Commands and replies are handed to messengerHandler.          *)
(*                                                                         *)
(* Telegram is the environment.  It numbers updates, keeps them until a    *)
(* getUpdates asks for later ones only, and answers with some of those it  *)
(* has.  The offset to ask from is nowhere but in the process.             *)
(***************************************************************************)
EXTENDS Integers, SequencesExt

CONSTANTS
    MaxUpdates,      \* bound: how many updates there are
    MaxFailures,     \* bound: how many getUpdates fail
    MaxDeaths        \* bound: how often the process dies

ASSUME TelegramAssumption == {MaxUpdates, MaxFailures, MaxDeaths} \subseteq Nat

VARIABLES
    updates,     \* by update_id: whether it is a command or a reply from a
                 \* user in a chat it listens to
    confirmed,   \* Telegram keeps the updates above this one
    offset,      \* t.offset
    poll,        \* where the loop is
    answer,      \* the update_ids of Telegram's answer
    batch,       \* those still to be handled
    stopping,    \* whether Stop has cancelled the context
    failures, deaths,  \* counters for the bounds
    heard        \* history: what each life of the process has handed on

telegram     == <<updates, confirmed>>
poller       == <<offset, poll, batch, stopping>>
telegramVars == <<telegram, answer, poller, failures, deaths, heard>>

Id == 1..MaxUpdates
Life == 0..MaxDeaths

TelegramTypeOK ==
    /\ updates \in Seq(BOOLEAN) /\ Len(updates) <= MaxUpdates
    /\ confirmed \in 0..Len(updates)
    /\ offset \in 0..Len(updates) + 1
    /\ poll \in {"ask", "asked", "answered", "handle", "stopped"}
    /\ answer \in Seq(Id) /\ batch \in Seq(Id)
    /\ stopping \in BOOLEAN
    /\ failures \in 0..MaxFailures /\ deaths \in Life
    /\ heard \in [Life -> Seq(Id)]

TelegramInit ==
    /\ updates = <<>> /\ confirmed = 0
    /\ offset = 0 /\ poll = "ask"
    /\ answer = <<>> /\ batch = <<>>
    /\ stopping = FALSE
    /\ failures = 0 /\ deaths = 0
    /\ heard = [l \in Life |-> <<>>]

-----------------------------------------------------------------------------
(* Telegram.                                                               *)

Update(asks) ==
    /\ Len(updates) < MaxUpdates
    /\ updates' = Append(updates, asks)
    /\ UNCHANGED <<confirmed, answer, poller, failures, deaths, heard>>

\* Some of the first updates from the offset on, or none after 30 seconds
\* without any.  To ask for them confirms all before.
Serve ==
    /\ poll = "asked"
    /\ poll' = "answered"
    /\ confirmed' = IF offset - 1 > confirmed THEN offset - 1 ELSE confirmed
    /\ \E last \in confirmed'..Len(updates) :
          /\ last = confirmed' => last = Len(updates)
          /\ answer' = [i \in 1..last - confirmed' |-> confirmed' + i]
    /\ UNCHANGED <<updates, offset, batch, stopping, failures, deaths, heard>>

-----------------------------------------------------------------------------
(* pollLoop.                                                               *)

GetUpdates ==
    /\ poll = "ask" /\ ~stopping
    /\ poll' = "asked"
    /\ UNCHANGED <<telegram, answer, offset, batch, stopping, failures, deaths, heard>>

\* The request fails on its way there or back; after five seconds the loop
\* asks again, from the same offset.
GetUpdatesFails ==
    /\ poll \in {"asked", "answered"} /\ ~stopping /\ failures < MaxFailures
    /\ failures' = failures + 1
    /\ poll' = "ask" /\ answer' = <<>>
    /\ UNCHANGED <<telegram, offset, batch, stopping, deaths, heard>>

\* Faulty: only the newest update is looked at.
ReceiveNewest ==
    /\ poll = "answered"
    /\ poll' = "handle"
    /\ batch' = SelectSeq(answer, LAMBDA id : id = Last(answer)) /\ answer' = <<>>
    /\ UNCHANGED <<telegram, offset, stopping, failures, deaths, heard>>

Receive ==
    /\ poll = "answered"
    /\ poll' = "handle"
    /\ batch' = answer /\ answer' = <<>>
    /\ UNCHANGED <<telegram, offset, stopping, failures, deaths, heard>>

\* Faulty: the offset is the last update's.
HandleUpdateNot ==
    /\ poll = "handle" /\ batch # <<>>
    /\ offset' = Head(batch)
    /\ batch' = Tail(batch)
    /\ heard' = IF updates[Head(batch)]
                THEN [heard EXCEPT ![deaths] = Append(@, Head(batch))] ELSE heard
    /\ UNCHANGED <<telegram, answer, poll, stopping, failures, deaths>>

\* Faulty: the offset is one too far.
HandleUpdateSkipping ==
    /\ poll = "handle" /\ batch # <<>>
    /\ offset' = Head(batch) + 2
    /\ batch' = Tail(batch)
    /\ heard' = IF updates[Head(batch)]
                THEN [heard EXCEPT ![deaths] = Append(@, Head(batch))] ELSE heard
    /\ UNCHANGED <<telegram, answer, poll, stopping, failures, deaths>>

\* t.offset = update.UpdateID + 1, then handleUpdate; the context is not
\* looked at before the batch is done.
HandleUpdate ==
    /\ poll = "handle" /\ batch # <<>>
    /\ offset' = Head(batch) + 1
    /\ batch' = Tail(batch)
    /\ heard' = IF updates[Head(batch)]
                THEN [heard EXCEPT ![deaths] = Append(@, Head(batch))] ELSE heard
    /\ UNCHANGED <<telegram, answer, poll, stopping, failures, deaths>>

BatchDone ==
    /\ poll = "handle" /\ batch = <<>>
    /\ poll' = "ask"
    /\ UNCHANGED <<telegram, answer, offset, batch, stopping, failures, deaths, heard>>

\* At the top of the loop, or because the request was cancelled.
PollStopped ==
    /\ stopping /\ poll \in {"ask", "asked", "answered"}
    /\ poll' = "stopped" /\ answer' = <<>>
    /\ UNCHANGED <<telegram, offset, batch, stopping, failures, deaths, heard>>

Poll == GetUpdates \/ GetUpdatesFails \/ Receive \/ HandleUpdate \/ BatchDone \/ PollStopped

-----------------------------------------------------------------------------
StopPolling ==
    /\ ~stopping
    /\ stopping' = TRUE
    /\ UNCHANGED <<telegram, answer, offset, poll, batch, failures, deaths, heard>>

\* The process is killed, or exits, and a new one begins without an offset.
Restart ==
    /\ deaths < MaxDeaths
    /\ deaths' = deaths + 1
    /\ offset' = 0 /\ poll' = "ask" /\ answer' = <<>> /\ batch' = <<>> /\ stopping' = FALSE
    /\ UNCHANGED <<telegram, failures, heard>>

TelegramNext ==
    \/ \E asks \in BOOLEAN : Update(asks)
    \/ Serve
    \/ Poll
    \/ StopPolling
    \/ Restart

TelegramSpec == TelegramInit /\ [][TelegramNext]_telegramVars

-----------------------------------------------------------------------------
EverHeard == UNION {Range(heard[l]) : l \in Life}

\* What Telegram will not send again was handed on, if it asks for anything:
\* neither failed polls nor stopping nor any death of the process loses it.
ConfirmedHeard ==
    \A id \in 1..confirmed : updates[id] => id \in EverHeard

\* One life of the process hands on every update at most once, in the order
\* they came, and leaves none out between its first and its last; only the
\* death of the process makes the next one repeat some.
HeardInOrder ==
    \A l \in Life : heard[l] # <<>> =>
        /\ \A i, j \in DOMAIN heard[l] : i < j => heard[l][i] < heard[l][j]
        /\ \A id \in heard[l][1]..Last(heard[l]) : updates[id] => id \in Range(heard[l])

\* A command or reply is handed on in the end, unless the process is stopped
\* for good.
UpdateHeard ==
    <>[](stopping \/ \A id \in DOMAIN updates : updates[id] => id \in EverHeard)
=============================================================================
