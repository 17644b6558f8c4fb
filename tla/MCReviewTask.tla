---------------------------- MODULE MCReviewTask ----------------------------
(* ReviewTask on small instances. *)
EXTENDS ReviewTask, TLC

\* Servers, runs and triggers are only compared with each other. Sound for the
\* invariants and the action properties; not used with liveness.
Symmetric ==
    Permutations(Servers) \cup Permutations(Runs) \cup Permutations(Triggers)
=============================================================================
