---------------------------- MODULE MCMainTask ----------------------------
(* MainTask on small limits. *)
EXTENDS MainTask
===========================================================================
