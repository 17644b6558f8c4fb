----------------------------- MODULE IssueLists -----------------------------
(***************************************************************************)
(* The lists of issues of the blocks of several files, as they are stored  *)
(* and as the run that reviews them holds them in memory, and what is      *)
(* promised of them when files are closed and batches are searched for     *)
(* duplicates (FileIssues).                                                *)
(***************************************************************************)
EXTENDS Integers, Sequences, FiniteSets

CONSTANTS
    Findings,   \* what a finding says
    Key,        \* Key[f]: type, severity, lines, description and suggestion
    Alike,      \* pairs of findings that are semantically equivalent
    Group,      \* Group[f]: type, severity, description and quoted code
    Safe,       \* <<f, s>>: a semantic group may hold the findings s if f is the first
    NumBlocks,  \* NumBlocks[f]: blocks of file f
    MaxIssues,  \* bound on the findings of a block
    MaxRuns,    \* bound on the batches after the first
    MaxNotes    \* bound on the feedback

\* What MCFindings assumes of the constants.
FindingsAssumption ==
    /\ NumBlocks \in Seq(Nat \ {0})
    /\ \A p \in Alike : p \in Findings \X Findings /\ <<p[2], p[1]>> \in Alike
    /\ {MaxIssues, MaxRuns, MaxNotes} \subseteq Nat

VARIABLES
    state,    \* state[p]: how the review of the block at place p ended
    stored,   \* stored[p]: its issues in the database
    held,     \* held[p]: its issues in the document the run works on
    file,     \* file[f]: how far the file has come
    members,  \* the files of the batch
    batch,    \* stage of the batch
    marked,   \* issues this batch has marked as duplicates
    runs,     \* batches so far, the first not counted
    notes     \* how often feedback was given

fileVars == <<state, stored, held, file, members, batch, marked, runs, notes>>

Files == DOMAIN NumBlocks

Places == UNION {{f} \X (1 .. NumBlocks[f]) : f \in Files}

\* An issue is referred to by the place of its block and its index there.
Refs(lists) == UNION {{p} \X DOMAIN lists[p] : p \in Places}

At(lists, r) == lists[r[1]][r[2]]

\* of: the block and the number (from 0) this issue is a duplicate of.
\* note: it has feedback.
NoDuplicate == <<>>

Issue == [what : Findings, reportable : BOOLEAN,
          of : {NoDuplicate} \cup (Places \X (0 .. MaxIssues)), note : BOOLEAN]

\* _is_reportable_issue
Reportable(lists) == {r \in Refs(lists) : At(lists, r).reportable}

-----------------------------------------------------------------------------
(* What is promised of them                                                *)

Related(f, g) == Key[f] = Key[g] \/ <<f, g>> \in Alike

Linked(f, g) ==
    \/ f = g \/ Related(f, g)
    \/ \E h \in Findings : Related(f, h) /\ Related(h, g)

\* A reportable issue of file f that says f's finding g, or is linked to it by
\* findings that do (an entry that has been merged stands for all of them).
Reports(lists, f, g) ==
    \E q \in Reportable(lists) : q[1][1] = f /\ Linked(g, At(lists, q).what)

\* The save when a file is closed passes over what replaced a filtered issue of an
\* earlier block that lost none of its own issues.
PassedOver(r) ==
    \E q \in Refs(stored) \ Reportable(stored) :
        /\ q[1][1] = r[1][1]
        /\ q[1][2] < r[1][2]
        /\ stored'[q[1]] = stored[q[1]]
        /\ Linked(At(held, r).what, At(stored, q).what)

\* Merging loses no finding: for every issue that could be reported before there
\* is one in the merged lists, in the same file, that says the same, and it is
\* stored unless the save passes over it.
MergeKeepsFindings ==
    [][\A f \in Files : file[f] = "open" /\ file'[f] = "closed" =>
         \A r \in Reportable(held) : r[1][1] = f =>
            /\ Reports(held', f, At(held, r).what)
            /\ Reports(stored', f, At(held, r).what) \/ PassedOver(r)]_fileVars

Original(r) == At(held, r).of = NoDuplicate

SaysTheSame(first, g) ==
    \/ Group[first] = Group[g]
    \/ \E p \in Safe : p[1] = first /\ g \in p[2]

\* The block to which an issue refers reports q, which says the same.
Refers(r, q) ==
    /\ q \in Reportable(held)
    /\ At(held, r).of[1] = q[1]
    /\ SaysTheSame(At(held, q).what, At(held, r).what)

\* In the database it does so too, but for a filtered issue that was passed over.
Leads(r, q) ==
    /\ Refers(r, q)
    /\ q \in Refs(stored)
    /\ q \in Reportable(stored) =>
         At(stored, q).what = At(held, q).what /\ At(stored, q).of = At(held, q).of

\* The block an issue of the batch is marked as a duplicate of reports an original
\* that says the same, or one whose own block of reference does (an exact group may
\* have been merged into a semantic one): whoever shows only originals shows every
\* finding.
DuplicatesLeadToOriginals ==
    batch = "done" =>
        \A r \in marked :
            \E q \in Refs(held) :
                /\ Leads(r, q)
                /\ Original(q) \/ \E o \in Refs(held) : Leads(q, o) /\ Original(o)

\* README: the feedback on an issue is saved.  When a file is closed and the block
\* lists the same finding, it has its feedback.
FeedbackStays ==
    [][\A f \in Files : file[f] = "open" /\ file'[f] = "closed" =>
         \A r \in Reportable(stored) : r[1][1] = f /\ At(stored, r).note =>
            \A q \in Reportable(stored') :
                q[1] = r[1] /\ At(stored', q).what = At(stored, r).what => At(stored', q).note]_fileVars

\* prompt.md: when a finding is first filtered and a later block has evidence for
\* it, the more useful one is kept.  The merged file in the database reports it.
EvidenceIsStored ==
    [][\A f \in Files : file[f] = "open" /\ file'[f] = "closed" =>
         \A r \in Reportable(held) : r[1][1] = f =>
            Reports(stored', f, At(held, r).what)]_fileVars

\* duplicate_of names a file, a block and an issue: the issue with that number is an
\* original or a duplicate of one, and says the same.
ReferencesAreExact ==
    batch = "done" =>
        \A r \in Reportable(stored) : At(stored, r).of # NoDuplicate =>
            LET q == <<At(stored, r).of[1], At(stored, r).of[2] + 1>>
            IN  q \in Reportable(stored) /\ SaysTheSame(At(stored, q).what, At(stored, r).what)
=============================================================================
