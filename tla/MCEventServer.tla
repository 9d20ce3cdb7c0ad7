---------------------------- MODULE MCEventServer ----------------------------
(***************************************************************************)
(* Instances of EventServer for TLC: a client that wants all events, and   *)
(* one that aggregates and has a filter.                                   *)
(***************************************************************************)
EXTENDS EventServer

TheWanted == [c \in Clients |-> IF c \in Aggregated THEN Events \ {2} ELSE Events]
=============================================================================
