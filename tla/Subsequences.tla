---------------------------- MODULE Subsequences ----------------------------
(***************************************************************************)
(* The part of a sequence that a condition on its members leaves, as the   *)
(* loops over the lines of a file and of a block build it.                 *)
(***************************************************************************)
EXTENDS Integers, Sequences, FiniteSets

\* The members at these places, in their order.
Picked(s, places) ==
    [n \in 1 .. Cardinality(places) |->
        s[CHOOSE i \in places : Cardinality({j \in places : j <= i}) = n]]
=============================================================================
