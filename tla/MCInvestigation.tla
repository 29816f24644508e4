-------------------------- MODULE MCInvestigation --------------------------
(* A small instance of Investigation for TLC. *)
EXTENDS Investigation

CONSTANTS logs, pods

\* The tools of two categories.
MCCategory == [t \in {logs, pods} |-> t]
=============================================================================
