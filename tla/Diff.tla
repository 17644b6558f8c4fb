-------------------------------- MODULE Diff --------------------------------
(***************************************************************************)
(* How a changed file becomes blocks of diff lines (diff_service.py).  A   *)
(* change is a sequence of lines marked " " (as before), "-" or "+"; which *)
(* lines difflib pairs is left open, so that every such sequence may occur *)
(* in which the deleted lines of a change come before the inserted ones.   *)
(***************************************************************************)
EXTENDS Integers, Sequences, FiniteSets, FiniteSetsExt, Subsequences

CONSTANTS
    Context,    \* diff_context_lines
    Threshold   \* diff_token_threshold; a line counts as one token

ASSUME DiffAssumption ==
    /\ Context \in Nat
    /\ Threshold \in Nat \ {0}

IsChange(change) ==
    /\ \E i \in DOMAIN change : change[i].mark # " "
    /\ \A i \in 1 .. Len(change) - 1 :
         change[i].mark = "+" => change[i + 1].mark # "-"

\* The file before and after the change.
Side(change, gone) ==
    Picked(change, {i \in DOMAIN change : change[i].mark # gone})

Old(change) == Side(change, "+")

New(change) == Side(change, "-")

\* The number of a line: in the old file if it is deleted, else in the new one.
Number(change, i) ==
    LET gone == IF change[i].mark = "-" THEN "+" ELSE "-"
    IN  Cardinality({j \in 1 .. i : change[j].mark # gone})

\* Every changed line, and Context lines of the new file around it.
Shown(change, i) ==
    \E k \in DOMAIN change :
        /\ change[k].mark # " "
        /\ \/ k = i
           \/ Cardinality({j \in Min({i, k}) + 1 .. Max({i, k}) - 1 :
                              change[j].mark # "-"}) < Context

\* All lines with their numbers; at is the place in the change, which the code
\* does not keep.
Numbered(change) ==
    [i \in DOMAIN change |-> [mark |-> change[i].mark, text |-> change[i].text,
                              number |-> Number(change, i), at |-> i]]

\* create_diff_lines
DiffLines(change) ==
    Picked(Numbered(change), {i \in DOMAIN change : Shown(change, i)})

\* split_code_blocks: a block is as long as the threshold allows.
Split(lines) ==
    [b \in 1 .. (Len(lines) + Threshold - 1) \div Threshold |->
        SubSeq(lines, (b - 1) * Threshold + 1, Min({b * Threshold, Len(lines)}))]
=============================================================================
