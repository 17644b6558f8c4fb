----------------------------- MODULE FileIssues -----------------------------
(***************************************************************************)
(* What becomes of the findings of several blocks and files: duplicates    *)
(* within a file are merged when the file is closed, and the files of a    *)
(* batch of a full scan are searched for duplicates, exactly and then by   *)
(* the model (_merge_duplicate_file_issues, _deduplicate_batch_issues and  *)
(* _semantic_batch_deduplicate of review_service.py).  Later batches and   *)
(* runs review what is not complete, and users give feedback on what the   *)
(* report shows (report_service.py).                                       *)
(*                                                                         *)
(* A run works on a copy of the document of a file; a save writes those    *)
(* of its parts that were assigned something else than they held.          *)
(***************************************************************************)
EXTENDS IssueLists

NewLists ==
    UNION {[1 .. n -> [what : Findings, reportable : BOOLEAN, of : {NoDuplicate}, note : {FALSE}]] :
        n \in 0 .. MaxIssues}

Init ==
    /\ state = [p \in Places |-> "pending"]
    /\ stored = [p \in Places |-> <<>>]
    /\ held = [p \in Places |-> <<>>]
    /\ file = [f \in Files |-> "queued"]
    /\ members \in SUBSET Files \ {{}}
    /\ batch = "review"
    /\ marked = {}
    /\ runs = 0
    /\ notes = 0

\* _review_file reads the document,
Open(f) ==
    /\ batch = "review"
    /\ f \in members
    /\ file[f] = "queued"
    /\ file' = [file EXCEPT ![f] = "open"]
    /\ held' = [p \in Places |-> IF p[1] = f THEN stored[p] ELSE held[p]]
    /\ UNCHANGED <<state, stored, members, batch, marked, runs, notes>>

\* and takes the blocks in order: one is completed, or fails with the findings so
\* far, and replaces what was there before.
Review(p) ==
    /\ file[p[1]] = "open"
    /\ state[p] = "pending"
    /\ \A b \in 1 .. p[2] - 1 : state[<<p[1], b>>] # "pending"
    /\ \E issues \in NewLists, end \in {"good", "failed"} :
         /\ state' = [state EXCEPT ![p] = end]
         /\ stored' = [stored EXCEPT ![p] = issues]
         /\ held' = [held EXCEPT ![p] = issues]
    /\ UNCHANGED <<file, members, batch, marked, runs, notes>>

-----------------------------------------------------------------------------
(* The order of files, blocks and issues                                   *)

Earlier(r, q) ==
    \/ r[1][1] < q[1][1]
    \/ r[1][1] = q[1][1] /\ (r[1][2] < q[1][2] \/ (r[1][2] = q[1][2] /\ r[2] < q[2]))

FirstOf(refs) == CHOOSE r \in refs : \A q \in refs \ {r} : Earlier(r, q)

LastOf(refs) == CHOOSE r \in refs : \A q \in refs \ {r} : Earlier(q, r)

InOrder(refs) ==
    CHOOSE list \in [1 .. Cardinality(refs) -> refs] :
        \A i, j \in DOMAIN list : i < j => Earlier(list[i], list[j])

-----------------------------------------------------------------------------
(* Merging within a file                                                   *)

\* Entries of the merged lists: kept[n] is the issue that is kept in the place of
\* n, which was the first of its kind.  An issue belongs to the entry that was first
\* given its key, else to the first that now holds an equivalent issue.
EntryOf(kept, r) ==
    LET byKey  == {n \in DOMAIN kept : Key[At(held, n).what] = Key[At(held, r).what]}
        byText == {n \in DOMAIN kept : <<At(held, kept[n]).what, At(held, r).what>> \in Alike}
    IN  IF byKey # {} THEN byKey ELSE byText

NewEntry(kept, r) == [n \in DOMAIN kept \cup {r} |-> IF n = r THEN r ELSE kept[n]]

\* Mutant: the issue that comes last is the one that stays.
MergeIntoLast(kept, r) ==
    IF EntryOf(kept, r) = {} THEN NewEntry(kept, r)
    ELSE [kept EXCEPT ![FirstOf(EntryOf(kept, r))] = r]

\* A reportable issue takes the place of a filtered one.
Merge(kept, r) ==
    IF EntryOf(kept, r) = {} THEN NewEntry(kept, r)
    ELSE LET n == FirstOf(EntryOf(kept, r))
         IN  IF ~At(held, kept[n]).reportable /\ At(held, r).reportable
             THEN [kept EXCEPT ![n] = r] ELSE kept

\* The issues of a file, merged in their order.
Merged(f) ==
    LET issues == {r \in Refs(held) : r[1][1] = f}
        merged[refs \in SUBSET issues] ==
            IF refs = {} THEN [n \in {} |-> n]
            ELSE Merge(merged[refs \ {LastOf(refs)}], LastOf(refs))
    IN  merged[issues]

IssuesOf(kept, p) ==
    LET entries == InOrder({n \in DOMAIN kept : n[1] = p})
    IN  [k \in DOMAIN entries |-> At(held, kept[entries[k]])]

\* An issue of the block has been merged away.
Shortened(kept, p) == \E k \in DOMAIN held[p] : <<p, k>> \notin DOMAIN kept

\* Every block is assigned its merged list, and the save writes the lists that were
\* shorter than before when they were assigned.  What is put later into the list
\* of a block that lost no issue is in memory only.
Close(f) ==
    /\ file[f] = "open"
    /\ \A p \in Places : p[1] = f => state[p] # "pending"
    /\ LET kept == Merged(f)
       IN  /\ held' = [p \in Places |-> IF p[1] = f THEN IssuesOf(kept, p) ELSE held[p]]
           /\ stored' = [p \in Places |->
                IF p[1] = f /\ Shortened(kept, p) THEN IssuesOf(kept, p) ELSE stored[p]]
    /\ file' = [file EXCEPT ![f] = "closed"]
    /\ UNCHANGED <<state, members, batch, marked, runs, notes>>

-----------------------------------------------------------------------------
(* Duplicates within a batch                                               *)

Marking(lists, of) ==
    [p \in Places |->
        [k \in DOMAIN lists[p] |->
            IF <<p, k>> \in DOMAIN of
            THEN [lists[p][k] EXCEPT !.of = of[<<p, k>>]] ELSE lists[p][k]]]

\* The issues for which "of" is given get it in memory and, by their index, in the
\* database; the others are as they were.
Mark(of) ==
    /\ held' = Marking(held, of)
    /\ stored' = Marking(stored, of)
    /\ marked' = (marked \ DOMAIN of) \cup {r \in DOMAIN of : of[r] # NoDuplicate}

\* A file with a failed block is "partial" and left out of the exact search.
Reviewed(f) == \A p \in Places : p[1] = f => state[p] = "good"

\* What the files of the batch report.
Found == {r \in Reportable(held) : r[1][1] \in members}

\* Issues of reviewed files with the same key.
ExactGroup(r) ==
    {q \in Found : Reviewed(q[1][1]) /\ Group[At(held, q).what] = Group[At(held, r).what]}

InExactGroups == {r \in Found : Reviewed(r[1][1]) /\ ExactGroup(r) # {r}}

\* The reference has the number of the first issue of the group, but if that is 0
\* the one that follows the duplicate's own.
ExactReference(r, first) == <<first[1], IF first[2] = 1 THEN r[2] ELSE first[2] - 1>>

\* Mutant: every issue of a group is marked as a duplicate of another one.
ExactDuplicatesInTurn ==
    /\ batch = "review"
    /\ \A f \in members : file[f] = "closed"
    /\ Mark([r \in InExactGroups |-> ExactReference(r, CHOOSE q \in ExactGroup(r) : q # r)])
    /\ batch' = "exact"
    /\ UNCHANGED <<state, file, members, runs, notes>>

ExactDuplicates ==
    /\ batch = "review"
    /\ \A f \in members : file[f] = "closed"
    /\ Mark([r \in InExactGroups |->
                LET first == FirstOf(ExactGroup(r))
                IN  IF r = first THEN NoDuplicate ELSE ExactReference(r, first)])
    /\ batch' = "exact"
    /\ UNCHANGED <<state, file, members, runs, notes>>

\* The answer of the model: groups that hold every issue once, each with a first
\* member.  A group that is not safe is left aside.
SemanticDuplicates ==
    /\ batch = "exact"
    /\ Cardinality(members) >= 2
    /\ Cardinality(Found) >= 2
    /\ \E first \in [Found -> Found] :
         /\ \A r \in Found : first[first[r]] = first[r]
         /\ LET group(r) == {q \in Found : first[q] = first[r]}
                safe == {r \in Found :
                            /\ group(r) # {r}
                            /\ <<At(held, first[r]).what, {At(held, q).what : q \in group(r)}>> \in Safe}
            IN  Mark([r \in safe |->
                        IF r = first[r] THEN NoDuplicate ELSE <<first[r][1], first[r][2] - 1>>])
    /\ batch' = "done"
    /\ UNCHANGED <<state, file, members, runs, notes>>

\* Too few issues, no answer, or one that does not name every issue once.
NoSemanticDuplicates ==
    /\ batch = "exact"
    /\ batch' = "done"
    /\ UNCHANGED <<state, stored, held, file, members, marked, runs, notes>>

-----------------------------------------------------------------------------
(* Later batches and runs                                                  *)

Complete(f) == file[f] = "closed" /\ Reviewed(f)

\* The next batch, of this run or of one that follows it, however far this one came.
\* A run keeps the complete files and takes some of the others; the blocks of
\* these that failed are reviewed again and list their issues until then.
NextBatch ==
    /\ runs < MaxRuns
    /\ members' \in SUBSET {f \in Files : ~Complete(f)} \ {{}}
    /\ state' = [p \in Places |->
                    IF p[1] \in members' /\ state[p] = "failed" THEN "pending" ELSE state[p]]
    /\ file' = [f \in Files |->
                    IF file[f] = "closed" /\ f \notin members' THEN "closed" ELSE "queued"]
    /\ held' = [p \in Places |-> <<>>]
    /\ batch' = "review"
    /\ marked' = {}
    /\ runs' = runs + 1
    /\ UNCHANGED <<stored, notes>>

-----------------------------------------------------------------------------
(* Feedback                                                                *)

\* save_feedback: the issue is found by the numbers of its block and its own, in
\* the document as it is now; only its feedback is written.
SaveFeedback(r) ==
    /\ notes < MaxNotes
    /\ ~At(stored, r).note
    /\ stored' = [stored EXCEPT ![r[1]][r[2]].note = TRUE]
    /\ notes' = notes + 1
    /\ UNCHANGED <<state, held, file, members, batch, marked, runs>>

Next ==
    \/ \E f \in Files : Open(f) \/ Close(f)
    \/ \E p \in Places : Review(p)
    \/ ExactDuplicates
    \/ SemanticDuplicates
    \/ NoSemanticDuplicates
    \/ NextBatch
    \/ \E r \in Reportable(stored) : SaveFeedback(r)

Spec == Init /\ [][Next]_fileVars

-----------------------------------------------------------------------------
(* The invariant from which FileIssuesProofs derives what is promised.     *)

\* The lists of all blocks.
Lists == {lists \in [Places -> Seq(Issue)] : \A p \in Places : Len(lists[p]) <= MaxIssues}

TypeOK ==
    /\ state \in [Places -> {"pending", "good", "failed"}]
    /\ stored \in Lists
    /\ held \in Lists
    /\ file \in [Files -> {"queued", "open", "closed"}]
    /\ members \subseteq Files
    /\ batch \in {"review", "exact", "done"}
    /\ runs \in 0 .. MaxRuns
    /\ notes \in 0 .. MaxNotes

SameButNote(i, j) == i.what = j.what /\ i.reportable = j.reportable /\ i.of = j.of

\* What a save has passed over is reported in memory and filtered in the database.
Unsaved(i, j) == i.reportable /\ ~j.reportable

\* The run holds what is stored of the files it has opened, but for feedback and, when
\* they are closed, for what has been passed over.
HeldAsStored(p) ==
    IF p[1] \in members /\ file[p[1]] # "queued"
    THEN /\ Len(held[p]) = Len(stored[p])
         /\ \A k \in DOMAIN held[p] :
               \/ SameButNote(held[p][k], stored[p][k])
               \/ file[p[1]] = "closed" /\ Unsaved(held[p][k], stored[p][k])
    ELSE held[p] = <<>>

HeldInv ==
    /\ \A f \in Files : file[f] = "open" => f \in members
    /\ batch # "review" => \A f \in members : file[f] = "closed"
    /\ \A p \in Places : HeldAsStored(p)

\* After the exact search one step leads from a duplicate to an original, after that
\* of the model at most two.
DuplicateInv ==
    /\ batch = "review" => marked = {}
    /\ marked \subseteq Refs(held)
    /\ \A r \in marked :
         \E q \in Refs(held) :
            /\ Refers(r, q)
            /\ \/ Original(q)
               \/ batch = "done" /\ \E o \in Refs(held) : Refers(q, o) /\ Original(o)

IssueInv == TypeOK /\ HeldInv /\ DuplicateInv
=============================================================================
