----------------------------- MODULE MCFindings -----------------------------
(***************************************************************************)
(* The findings of a block (BlockIssues), those of the blocks of a file    *)
(* and of a batch (FileIssues), and the log of the feedback about them     *)
(* (FeedbackLog), each on all its inputs.                                  *)
(***************************************************************************)
EXTENDS BlockIssues, IssueLists, FeedbackPages

CONSTANTS
    CodeLength,     \* lines of a change of code
    CommentLength   \* lines of a change of comments

File == INSTANCE FileIssues

Log == INSTANCE FeedbackLog

logVars == <<clock, drafts, log, reader>>

ASSUME BatchAssumption == FindingsAssumption /\ LogAssumption

MCChangesOf(texts, length) ==
    {c \in UNION {[1 .. n -> [mark : {" ", "-", "+"}, text : texts]] : n \in 1 .. length} :
        IsChange(c)}

\* Two changes so far apart that the diff hides a line between them.
MCHiding ==
    {c \in [1 .. CodeLength + 1 -> [mark : {" ", "+"}, text : CodeTexts]] :
        \A i \in DOMAIN c : c[i].mark = "+" <=> i \in {1, Len(c)}}

\* The texts have a first one: which of two is called so does not matter.
MCCode ==
    {c \in MCChangesOf(CodeTexts, CodeLength) \cup MCHiding : c[1].text = "code"}

\* A comment that is open where the first block ends.
MCCarried ==
    {c \in [1 .. Threshold + 1 -> [mark : {" ", "-", "+"}, text : {"code", "note", "open", "close"}]] :
        IsChange(c) /\ c[1].text = "open" /\ c[Len(c)].mark # " "}

MCComments ==
    MCChangesOf({"code", "note", "hint", "open", "close"}, CommentLength) \cup MCCarried

MCChanges == MCCode \cup MCComments

\* Changes in comments with a line between them that the diff hides.
MCGaps ==
    {c \in [1 .. 5 -> [mark : {" ", "+"}, text : {"code", "note", "open", "close"}]] :
        \A i \in DOMAIN c : c[i].mark = "+" <=> i \in {1, 5}}

\* Three findings: 1 and 2, and 2 and 3, are equivalent, 1 and 3 are not; 1 and 3
\* differ in what the keys leave out.
MCKey == <<1, 2, 1>>

MCAlike == {<<1, 2>>, <<2, 1>>, <<2, 3>>, <<3, 2>>}

MCGroup == <<1, 2, 2>>

MCSafe ==
    {p \in (1 .. 3) \X SUBSET (1 .. 3) :
        p[1] \in p[2] /\ \A g \in p[2] \ {p[1]} : <<p[1], g>> \in MCAlike}

MCNumBlocks == <<3, 1>>

MCOneBlock == <<1>>

MCQuotes ==
    UNION {[1 .. n -> CodeTexts] : n \in {1, 3}}

MCClaims == {<<>>, <<2, 4>>}

NoBatch ==
    /\ state = [p \in Places |-> "none"]
    /\ stored = [p \in Places |-> <<>>] /\ held = stored
    /\ file = [f \in Files |-> "none"]
    /\ members = {} /\ batch = "none" /\ marked = {} /\ runs = 0 /\ notes = 0

NoBlock ==
    /\ change = <<>> /\ block = <<>> /\ stage = "none" /\ issue = NoIssue
    /\ refuted = FALSE /\ doubted = FALSE

\* In a behaviour without a log, all of its entries are thought to be there.
NoLog == clock = MaxEntries /\ drafts = {} /\ log = {} /\ reader = [pc |-> "none"]

\* A log with two entries and a third on its way, as five of its steps make it.
StartedLog ==
    /\ clock = 3
    /\ \E g, h, i \in Groups :
        /\ log = {[time |-> 1, group |-> g], [time |-> 2, group |-> h]}
        /\ drafts = {[time |-> 3, group |-> i]}
    /\ reader = Away

MCInit ==
    \/ Init /\ NoBatch /\ NoLog
    \/ NoBlock /\ File!Init /\ members = Files /\ NoLog
    \/ NoBlock /\ NoBatch /\ (Log!Init \/ StartedLog)

\* The files of a batch share nothing before it is searched: they are opened in turn.
\* Feedback is given on one finding only, when all blocks of its file have been
\* reviewed for the first time, and what is reviewed again does not fail again.
MCFile ==
    /\ File!Next
    /\ \A f \in members, g \in members :
         g < f /\ file'[f] = "open" => file[g] = "closed"
    /\ notes' # notes =>
         /\ file[1] = "open" /\ runs = 0 /\ \A p \in Places : p[1] = 1 => state[p] # "pending"
         /\ stored'[<<1, 1>>] # stored[<<1, 1>>] /\ stored[<<1, 1>>][1].what = 1
    /\ runs > 0 => \A p \in Places : state'[p] = "failed" => state[p] = "failed"

\* Of a change in comments only the skipping is of interest.
MCNext ==
    \/ change \in MCCode /\ Next /\ UNCHANGED <<fileVars, logVars>>
    \/ change \in MCComments \cup MCGaps /\ SkipBlock
         /\ UNCHANGED <<fileVars, logVars>>
    \/ batch # "none" /\ MCFile /\ UNCHANGED <<vars, logVars>>
    \/ reader.pc # "none" /\ Log!Next /\ UNCHANGED <<vars, fileVars>>

MCSpec == MCInit /\ [][MCNext]_<<vars, fileVars, logVars>>

FindingsTypeOK ==
    /\ stage # "none" => FindingInv
    /\ batch # "none" => File!IssueInv
    /\ reader.pc # "none" => Log!LogInv
=============================================================================
