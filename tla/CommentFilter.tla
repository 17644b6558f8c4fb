--------------------------- MODULE CommentFilter ---------------------------
(***************************************************************************)
(* Which blocks are not sent to the models because they change comments    *)
(* and blank lines only (comment_filter.py).  The text of a line is        *)
(* reduced to what the scanner sees in it.                                 *)
(***************************************************************************)
EXTENDS Integers, Sequences

\* note: a line comment.  hint: one that tools obey (nolint, coding:, ...).
\* open, close: the begin and the end of a block comment.
CodeTexts == {"code", "more code"}

\* _scan_line: whether a line holds code, and whether the next one begins
\* within a block comment.
HasCode(text, inside) == ~inside /\ text \in CodeTexts \cup {"close"}

Leaves(text, inside) ==
    IF inside THEN text # "close" ELSE text = "open"

\* A changed line that may change what the program does.
Acts(text, inside) == HasCode(text, inside) \/ text = "hint"

\* One line, read on the sides it belongs to.
ScanLine(state, line) ==
    LET reads(side) == line.mark \in {" ", side}
    IN  [old  |-> IF reads("-") THEN Leaves(line.text, state.old) ELSE state.old,
         new  |-> IF reads("+") THEN Leaves(line.text, state.new) ELSE state.new,
         seen |-> state.seen \/ line.mark # " ",
         acts |-> \/ state.acts
                  \/ line.mark = "-" /\ Acts(line.text, state.old)
                  \/ line.mark = "+" /\ Acts(line.text, state.new)]

\* The states before and after the lines of a block.
ScanStates(start, lines) ==
    LET state[n \in 0 .. Len(lines)] ==
            IF n = 0 THEN start ELSE ScanLine(state[n - 1], lines[n])
    IN  state

\* Mutant: every block is read from outside a comment.
ScanBlockAlone(scan, block) ==
    LET state == ScanStates([old |-> FALSE, new |-> FALSE,
                             seen |-> FALSE, acts |-> FALSE], block)[Len(block)]
    IN  [old |-> state.old, new |-> state.new, flag |-> state.seen /\ ~state.acts]

\* The state of the comments, but not the verdict, goes over to the next block.
ScanBlock(scan, block) ==
    LET state == ScanStates([old |-> scan.old, new |-> scan.new,
                             seen |-> FALSE, acts |-> FALSE], block)[Len(block)]
    IN  [old |-> state.old, new |-> state.new, flag |-> state.seen /\ ~state.acts]

\* The states of the comments before and after the blocks.
ScanBlocks(blocks) ==
    LET scan[b \in 0 .. Len(blocks)] ==
            IF b = 0 THEN [old |-> FALSE, new |-> FALSE, flag |-> FALSE]
            ELSE ScanBlock(scan[b - 1], blocks[b])
    IN  scan

\* comment_only_block_flags
CommentOnlyFlags(blocks) ==
    LET scan == ScanBlocks(blocks) IN [b \in DOMAIN blocks |-> scan[b].flag]
============================================================================
