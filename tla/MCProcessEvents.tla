--------------------------- MODULE MCProcessEvents ---------------------------
(***************************************************************************)
(* Instances of ProcessEvents for TLC.  Two pids and three exec ids are    *)
(* enough for a chain of fork and exec, for a child that outlives its      *)
(* parent and for a pid that is used again; the messages of these are      *)
(* handled in every order.                                                 *)
(***************************************************************************)
EXTENDS ProcessEvents

MCProcs == 0 .. MaxKey

=============================================================================
