----------------------------- MODULE MCSnapshot -----------------------------
(* Snapshot on small instances. *)
EXTENDS Snapshot, TLC

CONSTANTS a, b, c, f, g

\* Two blocks share a file, the third has its own.
MCFileOf == [x \in Blocks |-> IF x = c THEN g ELSE f]

\* One block is there from the beginning. Later triggers add a second block to
\* its file or take it back, and add the other file or remove it.
MCFirstTree == {a}
MCTrees == {{a}, {a, b}, {a, c}}

Symmetric == Permutations(Triggers)
=============================================================================
