------------------------------ MODULE Evidence ------------------------------
(***************************************************************************)
(* Where in a block the code that a finding quotes is found (evidence.py). *)
(***************************************************************************)
EXTENDS Integers, Sequences, FiniteSets, FiniteSetsExt, Subsequences

CONSTANTS
    Blank,       \* the text of a line that normalization leaves nothing of
    MaxGap,      \* numbers of lines that follow one another differ by no more
    Similarity   \* minimum_similarity, in percent

ASSUME EvidenceAssumption ==
    /\ MaxGap \in Nat \ {0}
    /\ Similarity \in 1 .. 100

NoMatch == [first |-> 0, last |-> 0, score |-> 0, overlap |-> FALSE, ambiguous |-> FALSE]

Matches ==
    [first : Nat, last : Nat, score : Nat, overlap : BOOLEAN, ambiguous : BOOLEAN]

Found(match) == match.first > 0

\* The first line after, or before, a deleted one that is not deleted itself.
Survivors(block, i) ==
    LET after  == {j \in i + 1 .. Len(block) : block[j].mark # "-"}
        before == {j \in 1 .. i - 1 : block[j].mark # "-"}
    IN  (IF after = {} THEN {} ELSE {Min(after)})
          \cup (IF before = {} THEN {} ELSE {Max(before)})

\* reviewable_line_numbers
Reviewable(block) ==
    {block[i].number : i \in
        {i \in DOMAIN block : block[i].mark = "+"}
          \cup UNION {Survivors(block, i) : i \in {i \in DOMAIN block : block[i].mark = "-"}}}

\* _diff_new_side and _full_file_lines
DiffSource(block) ==
    Picked(block, {i \in DOMAIN block : block[i].mark # "-" /\ block[i].text # Blank})

FileSource(file) ==
    Picked([n \in DOMAIN file |-> [number |-> n, text |-> file[n].text]],
           {n \in DOMAIN file : file[n].text # Blank})

Windows(source, width) ==
    {w \in {SubSeq(source, i, i + width - 1) : i \in 1 .. Len(source) - width + 1} :
        \A k \in 1 .. width - 1 : w[k + 1].number - w[k].number \in 1 .. MaxGap}

\* The ratio of difflib is taken to be the share of the lines that agree.
Agreeing(window, code) == Cardinality({k \in DOMAIN code : window[k].text = code[k]})

Enough(score, code) == 100 * score >= Similarity * Len(code)

\* Candidates over both sources; those with the same range are one.
Candidates(block, file, code) ==
    {[first |-> w[1].number, last |-> w[Len(w)].number, score |-> Agreeing(w, code),
      overlap |-> \E k \in DOMAIN w : w[k].number \in Reviewable(block)] :
        w \in Windows(DiffSource(block), Len(code))
                \cup Windows(FileSource(file), Len(code))}

\* sort_key of _select: changed lines before others, then the score, then the
\* distance from the claimed line.
Better(c, d, claim) ==
    LET distance(e) == IF claim = 0 THEN e.first
                       ELSE Max({e.first - claim, claim - e.first})
    IN  \/ c.overlap /\ ~d.overlap
        \/ /\ c.overlap = d.overlap
           /\ \/ c.score > d.score
              \/ /\ c.score = d.score
                 /\ \/ distance(c) < distance(d)
                    \/ distance(c) = distance(d) /\ c.first < d.first

Select(candidates, claim) ==
    LET best == CHOOSE c \in candidates : \A d \in candidates : ~Better(d, c, claim)
        equal == {c \in candidates : c.overlap = best.overlap /\ c.score = best.score}
    IN  [first |-> best.first, last |-> best.last, score |-> best.score,
         overlap |-> best.overlap, ambiguous |-> Cardinality(equal) > 1]

\* locate: an exact match, else one that is similar enough.
Locate(block, file, code, claim) ==
    LET all     == Candidates(block, file, code)
        exact   == {c \in all : c.score = Len(code)}
        similar == {c \in all : Enough(c.score, code)}
    IN  IF exact # {} THEN Select(exact, claim)
        ELSE IF similar # {} THEN Select(similar, claim)
        ELSE [NoMatch EXCEPT !.score = Max({c.score : c \in all} \cup {0})]
=============================================================================
