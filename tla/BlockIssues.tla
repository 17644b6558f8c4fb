---------------------------- MODULE BlockIssues ----------------------------
(***************************************************************************)
(* What becomes of a finding of the main task about a block: it is located *)
(* by the code it quotes, perhaps once more with the help of the model,    *)
(* and then kept or filtered, by rules and by the model                    *)
(* (_run_relocation_task and _run_review_filter_task of                    *)
(* review_service.py, with the default settings).  A block that changes    *)
(* comments only is not reviewed at all.                                   *)
(***************************************************************************)
EXTENDS Diff, CommentFilter, Evidence

CONSTANTS
    Changes,   \* changes of a file that occur
    Quotes,    \* existing_code of a finding: its lines, the blank ones left out
    Claims     \* line numbers of a finding, as they are parsed

ASSUME IssueAssumption ==
    /\ \A c \in Changes :
        /\ c \in Seq([mark : {" ", "-", "+"}, text : STRING])
        /\ IsChange(c)
    /\ Quotes \subseteq Seq(STRING \ {Blank}) \ {<<>>}
    /\ Claims \subseteq Seq(Nat)

VARIABLES
    change,    \* of the file under review
    block,     \* the block under review
    stage,     \* of the review of the block
    issue,     \* the finding under consideration
    refuted,   \* the model has given evidence against it
    doubted    \* or has lowered its confidence or its score

vars == <<change, block, stage, issue, refuted, doubted>>

\* trusted: confidence_level reaches the threshold.  similar: evidence_match_score
\* does.
NoIssue == [code |-> <<>>, lines |-> <<>>, trusted |-> FALSE, similar |-> FALSE,
            match |-> NoMatch, relocation |-> "", filter |-> ""]

Blocks == Split(DiffLines(change))

Init ==
    /\ change \in Changes
    /\ block = <<>>
    /\ stage = "new"
    /\ issue = NoIssue
    /\ refuted = FALSE
    /\ doubted = FALSE

\* _comment_only_block
SkipBlock ==
    /\ stage = "new"
    /\ LET blocks == Blocks
           flags  == CommentOnlyFlags(blocks)
       IN  \E b \in DOMAIN blocks : flags[b] /\ block' = blocks[b]
    /\ stage' = "skipped"
    /\ UNCHANGED <<change, issue, refuted, doubted>>

\* The main task reports a finding.  The tool that takes it (code_comment) refuses
\* one without description, suggestion, code, line numbers or evidence, but the
\* line numbers may be no numbers.
Report ==
    /\ stage = "new"
    /\ LET blocks == Blocks
           flags  == CommentOnlyFlags(blocks)
       IN  \E b \in DOMAIN blocks : ~flags[b] /\ block' = blocks[b]
    /\ \E code \in Quotes, lines \in Claims, trusted \in BOOLEAN :
         issue' = [NoIssue EXCEPT !.code = code, !.lines = lines, !.trusted = trusted]
    /\ stage' = "reported"
    /\ UNCHANGED <<change, refuted, doubted>>

-----------------------------------------------------------------------------
(* Relocation                                                              *)

Claimed(lines) == IF lines = <<>> THEN 0 ELSE lines[1]

\* line_numbers: "first-last", of which _parse_line_numbers finds both ends.
RangeEnds(match) ==
    IF match.first = match.last THEN <<match.first>> ELSE <<match.first, match.last>>

\* Mutants: an ambiguous match is taken as it comes, and the lines of a finding are
\* left as claimed.
LocatedAnywhere(i) ==
    LET match    == Locate(block, New(change), i.code, Claimed(i.lines))
        anchored == {k \in DOMAIN i.lines : i.lines[k] \in match.first .. match.last} # {}
        placed   == Found(match) /\ match.overlap
    IN  [i EXCEPT !.match = match,
                  !.similar = Enough(match.score, i.code),
                  !.lines = IF placed THEN RangeEnds(match) ELSE @,
                  !.relocation = IF ~placed THEN "failed"
                                 ELSE IF anchored THEN "unchanged" ELSE "relocated"]

LocatedAsClaimed(i) ==
    LET match    == Locate(block, New(change), i.code, Claimed(i.lines))
        anchored == {k \in DOMAIN i.lines : i.lines[k] \in match.first .. match.last} # {}
        placed   == Found(match) /\ match.overlap /\ (match.ambiguous => anchored)
    IN  [i EXCEPT !.match = match,
                  !.similar = Enough(match.score, i.code),
                  !.relocation = IF ~placed THEN "failed"
                                 ELSE IF anchored THEN "unchanged" ELSE "relocated"]

\* _relocate_issues_locally
Located(i) ==
    LET match    == Locate(block, New(change), i.code, Claimed(i.lines))
        anchored == {k \in DOMAIN i.lines : i.lines[k] \in match.first .. match.last} # {}
        placed   == Found(match) /\ match.overlap /\ (match.ambiguous => anchored)
    IN  [i EXCEPT !.match = match,
                  !.similar = Enough(match.score, i.code),
                  !.lines = IF placed THEN RangeEnds(match) ELSE @,
                  !.relocation = IF ~placed THEN "failed"
                                 ELSE IF anchored THEN "unchanged" ELSE "relocated"]

Relocate ==
    /\ stage = "reported"
    /\ issue' = Located(issue)
    /\ stage' = IF issue'.relocation = "failed" THEN "unresolved" ELSE "located"
    /\ UNCHANGED <<change, block, refuted, doubted>>

\* The model may answer with other code, lines and confidence; its answer is
\* then located in the same way.
AskRelocation ==
    /\ stage = "unresolved"
    /\ \E code \in Quotes \cup {issue.code}, lines \in Claims \cup {issue.lines},
          trusted \in BOOLEAN :
         /\ issue' = Located([issue EXCEPT !.code = code,
                                           !.lines = IF lines = <<>> THEN @ ELSE lines,
                                           !.trusted = trusted])
         /\ doubted' = (doubted \/ (issue.trusted /\ ~trusted))
    /\ stage' = "located"
    /\ UNCHANGED <<change, block, refuted>>

\* No answer, or one that does not name the finding.
NoRelocation ==
    /\ stage = "unresolved"
    /\ stage' = "located"
    /\ UNCHANGED <<change, block, issue, refuted, doubted>>

\* A finding of a static analyzer supports it (_corroborate_static_findings).
Corroborate ==
    /\ stage = "located"
    /\ ~issue.trusted
    /\ issue.lines # <<>> \/ Found(issue.match)
    /\ issue' = [issue EXCEPT !.trusted = TRUE]
    /\ UNCHANGED <<change, block, stage, refuted, doubted>>

-----------------------------------------------------------------------------
(* Filter                                                                  *)

\* Mutant: a finding that could not be located is judged by its lines alone.
HasFaultButPlace(i) ==
    \/ i.lines = <<>>
    \/ ~i.trusted
    \/ ~i.similar
    \/ /\ Reviewable(block) # {}
       /\ \A k \in DOMAIN i.lines : i.lines[k] \notin Reviewable(block)

\* The reasons for which _filter_issues_locally gives up a finding; those that
\* the tool has refused already are left out.
HasFault(i) ==
    \/ i.lines = <<>>
    \/ i.relocation = "failed"
    \/ ~i.trusted
    \/ ~i.similar
    \/ /\ Reviewable(block) # {}
       /\ \A k \in DOMAIN i.lines : i.lines[k] \notin Reviewable(block)

\* A finding that the model has refuted stays filtered.
Sifted(i) ==
    [i EXCEPT !.filter = IF HasFault(i) \/ i.filter = "filtered" THEN "filtered" ELSE "kept"]

Filter ==
    /\ stage = "located"
    /\ issue' = Sifted(issue)
    /\ stage' = IF issue'.filter = "kept" THEN "checked" ELSE "done"
    /\ UNCHANGED <<change, block, refuted, doubted>>

\* The model is asked about what the rules have kept.  It filters a finding only
\* with evidence against it, but may also set its confidence and its score, and
\* the rules are applied once more.
AskFilter ==
    /\ stage = "checked"
    /\ \E filtered, counter, trusted, similar \in BOOLEAN :
         /\ issue' = Sifted([issue EXCEPT
                         !.filter = IF filtered /\ counter THEN "filtered" ELSE "kept",
                         !.trusted = trusted, !.similar = similar])
         /\ refuted' = (filtered /\ counter)
         /\ doubted' = (doubted \/ ~trusted \/ ~similar)
    /\ stage' = "done"
    /\ UNCHANGED <<change, block>>

\* No answer.
NoFilter ==
    /\ stage = "checked"
    /\ issue' = Sifted(issue)
    /\ stage' = "done"
    /\ UNCHANGED <<change, block, refuted, doubted>>

Next ==
    \/ SkipBlock \/ Report
    \/ Relocate \/ AskRelocation \/ NoRelocation
    \/ Corroborate
    \/ Filter \/ AskFilter \/ NoFilter

Spec == Init /\ [][Next]_vars

-----------------------------------------------------------------------------
(* Properties                                                              *)

Issues ==
    [code : Quotes \cup {<<>>}, lines : Seq(Nat), trusted : BOOLEAN, similar : BOOLEAN,
     match : Matches, relocation : {"", "failed", "unchanged", "relocated"},
     filter : {"", "kept", "filtered"}]

TypeOK ==
    /\ change \in Changes
    /\ \A i \in DOMAIN block : block[i].number \in Nat
    /\ stage \in {"new", "skipped", "reported", "unresolved", "located", "checked", "done"}
    /\ issue \in Issues
    /\ (issue.relocation = "") <=> stage \in {"new", "skipped", "reported"}
    /\ (issue.filter = "") <=> stage \in {"new", "skipped", "reported", "unresolved", "located"}
    /\ {refuted, doubted} \subseteq BOOLEAN

\* What is under review, and what is not yet decided about it.
BlockInv ==
    /\ stage # "new" => \E b \in DOMAIN Blocks : block = Blocks[b]
    /\ stage \notin {"new", "skipped"} =>
         /\ issue.code \in Quotes
         /\ issue.relocation \in {"", "failed"} => issue.lines \in Claims
    /\ stage = "unresolved" => issue.relocation = "failed"

\* A finding keeps the place found for the code it quotes, and its lines are those
\* of this place unless the place was refused.
LocationInv ==
    stage \in {"unresolved", "located", "checked", "done"} =>
        /\ \E lines \in Claims :
             issue.match = Locate(block, New(change), issue.code, Claimed(lines))
        /\ issue.relocation = "failed" =>
             (Found(issue.match) /\ issue.match.overlap => issue.match.ambiguous)
        /\ issue.relocation # "failed" =>
             /\ Found(issue.match) /\ issue.match.overlap
             /\ issue.lines = RangeEnds(issue.match)
        /\ issue.relocation = "relocated" => ~issue.match.ambiguous
        /\ Enough(issue.match.score, issue.code) /\ ~doubted => issue.similar

\* A finding is kept without a fault, and filtered for a fault or by the model.
FilterInv ==
    stage \in {"checked", "done"} =>
        /\ issue.filter = "kept" => ~HasFault(issue)
        /\ issue.filter = "filtered" => stage = "done" /\ (HasFault(issue) \/ refuted)

FindingInv == TypeOK /\ BlockInv /\ LocationInv /\ FilterInv

Kept == stage = "done" /\ issue.filter = "kept"

Place(i) == i.match.first .. i.match.last

\* A finding that is reported stands in the new file where it says it does: most of
\* the code it quotes is there, and the place overlaps a line that has changed, or
\* one that stood next to a deleted line, in the change as a whole.  No answer of
\* the models, to either stage, gets a finding anywhere else.
KeptIsAnchored ==
    Kept =>
        /\ Place(issue) # {}
        /\ Place(issue) \cap Reviewable(Numbered(change)) # {}
        /\ Place(issue) \subseteq DOMAIN New(change)
        /\ \A k \in DOMAIN issue.lines : issue.lines[k] \in Place(issue)
        /\ Enough(Cardinality({k \in DOMAIN issue.code :
                                \E n \in Place(issue) : New(change)[n].text = issue.code[k]}),
                  issue.code)

\* README: code that occurs several times is not moved to a guessed place.  If a
\* reported finding was moved, no other place in the block's changed lines agrees
\* with the quoted code as well.
NothingIsGuessed ==
    Kept /\ issue.relocation = "relocated" =>
        \A n \in DOMAIN New(change) :
            LET w == SubSeq(New(change), n, n + Len(issue.code) - 1)
            IN  /\ n + Len(issue.code) - 1 <= Len(New(change))
                /\ \E k \in DOMAIN w : n + k - 1 \in Reviewable(block)
                /\ \A k \in DOMAIN w : w[k].text = issue.code[k]
                => n = issue.match.first

\* The finding is what the rules ask for, and the model has nothing against it.
Faultless ==
    stage = "done" /\ issue.trusted /\ ~refuted /\ ~doubted

\* A faultless finding about one changed line that occurs once is reported,
\* whichever lines it claimed.
OneLineIsKept ==
    Faultless /\ Len(issue.code) = 1 =>
        \A n \in Reviewable(block) :
            ({m \in DOMAIN New(change) : New(change)[m].text = issue.code[1]} = {n})
                => issue.filter = "kept" /\ issue.lines = <<n>>

\* struct.md: the gate looks for an overlap with the changed lines.
OverlapPassesTheGate ==
    Faultless /\ issue.match.overlap /\ ~issue.match.ambiguous => issue.filter = "kept"

\* A line of a file stands in a comment if one was opened before it and not closed
\* since.
InComment(file, n) ==
    \E k \in 1 .. n - 1 :
        /\ file[k].text = "open"
        /\ \A j \in k + 1 .. n - 1 : file[j].text # "close"

\* A line that acts, when the whole file is read.
TrulyActs(line) ==
    \/ line.mark = "-" /\ Acts(line.text, InComment(Old(change), line.number))
    \/ line.mark = "+" /\ Acts(line.text, InComment(New(change), line.number))

\* comment_filter.py: true only when every changed line is provably comment.
CommentOnlyIsProvable ==
    stage = "skipped" => \A i \in DOMAIN block : ~TrulyActs(block[i])

\* Where the diff hides no line that is so: the comments are followed through the
\* blocks, and a block is skipped just when none of its changes acts.
NothingHiddenNothingMissed ==
    stage = "new" /\ Len(DiffLines(change)) = Len(change) =>
        LET blocks == Blocks
            flags  == CommentOnlyFlags(blocks)
        IN  \A b \in DOMAIN blocks :
                flags[b] <=> /\ \E i \in DOMAIN blocks[b] : blocks[b][i].mark # " "
                             /\ \A i \in DOMAIN blocks[b] : ~TrulyActs(blocks[b][i])
=============================================================================
