-------------------------------- MODULE Calls --------------------------------
(***************************************************************************)
(* What a client of another service owes its caller, whatever the service  *)
(* is and however often a request is repeated underneath: a call ends      *)
(* once, what it asks for is done at most once, and a call that reports    *)
(* success was done.  A call that reports failure may have been done all   *)
(* the same: its answer can get lost.                                      *)
(***************************************************************************)
EXTENDS Integers

CONSTANT Call

VARIABLES
    stage,  \* how far each call is
    served  \* how often the service did what the call asks for

callVars == <<stage, served>>

CallsTypeOK ==
    /\ stage \in [Call -> {"new", "open", "ok", "failed"}]
    /\ served \in [Call -> Nat]

CallsInit ==
    /\ stage = [c \in Call |-> "new"]
    /\ served = [c \in Call |-> 0]

Open(c) ==
    /\ stage[c] = "new"
    /\ stage' = [stage EXCEPT ![c] = "open"]
    /\ UNCHANGED served

\* The service does what the call asks for, while its caller waits.
Serve(c) ==
    /\ stage[c] = "open" /\ served[c] = 0
    /\ served' = [served EXCEPT ![c] = 1]
    /\ UNCHANGED stage

Succeed(c) ==
    /\ stage[c] = "open" /\ served[c] = 1
    /\ stage' = [stage EXCEPT ![c] = "ok"]
    /\ UNCHANGED served

Fail(c) ==
    /\ stage[c] = "open"
    /\ stage' = [stage EXCEPT ![c] = "failed"]
    /\ UNCHANGED served

CallsNext == \E c \in Call : Open(c) \/ Serve(c) \/ Succeed(c) \/ Fail(c)

CallsSpec == CallsInit /\ [][CallsNext]_callVars
=============================================================================
