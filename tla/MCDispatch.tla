---------------------------- MODULE MCDispatch ----------------------------
(* Dispatch with two servers, incremental tasks and a full scan. *)
EXTENDS Dispatch
===========================================================================
