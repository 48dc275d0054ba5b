---------------------------- MODULE MCLifecycle ----------------------------
(***************************************************************************)
(* A small instance of Lifecycle: a process left over, the one Run started *)
(* and the one a scan is starting, with one to spare, and enough faults    *)
(* for a rebuild that is interrupted and fails.                            *)
(***************************************************************************)
EXTENDS Lifecycle
=============================================================================
