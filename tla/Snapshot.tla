------------------------------ MODULE Snapshot ------------------------------
(***************************************************************************)
(* The change snapshots of one review task (TaskSnapshotService). Every    *)
(* trigger after the first that finds changed blocks or removed files      *)
(* creates a snapshot of them; a trigger without changes carries the open  *)
(* snapshot forward to its revision; the worker and the triggers copy the  *)
(* results of the code files into the snapshot of the task's revision.     *)
(*                                                                         *)
(* The actors are the triggers, one worker at a time (ReviewTask models    *)
(* how the lease sees to that) and the threads of its pool, one for each   *)
(* file. A block is named by its hash. The database operations of one      *)
(* actor interleave with all the others; the copies of a checkpoint, and   *)
(* the file saves of a synchronization, are one step each.                 *)
(***************************************************************************)
EXTENDS Integers, FiniteSets

CONSTANTS
    Triggers,    \* the calls of POST /tasks/trigger after the first
    Worker,      \* the main thread of the worker
    None,
    Files,       \* the files; their names also stand for the reviewer threads
    Blocks,      \* block hashes
    FileOf,      \* the file a block belongs to
    Trees,       \* what the workspace of a trigger can hold: sets of blocks
    FirstTree,   \* what the first trigger found
    Faults,      \* bound on the disturbances of a behaviour
    FaultKinds   \* which of AllFaults may happen

AllFaults == {"retry", "preempt", "crash", "raise", "trigger_fail"}

ASSUME ActorAssumption ==
    /\ Worker \notin Triggers /\ None \notin Triggers
    /\ Files \cap (Triggers \cup {Worker}) = {}
ASSUME TreeAssumption ==
    /\ FirstTree \subseteq Blocks
    /\ Trees \subseteq SUBSET Blocks
    /\ FileOf \in [Blocks -> Files]
ASSUME FaultAssumption == Faults \in Nat /\ FaultKinds \subseteq AllFaults

VARIABLES
    task,     \* trigger_revision, state and workspace of the TaskModel
    code,     \* the blocks of the CodeFileModel documents
    snaps,    \* the TaskSnapshotModel each trigger created, with its files
    trig,     \* the triggers
    run,      \* the run of the worker
    ck,       \* the checkpoint each actor is in
    races,    \* history: the races of RaceKinds that have happened
    budget    \* disturbances still to come

vars == <<task, code, snaps, trig, run, ck, races, budget>>

Actors == Triggers \cup Files \cup {Worker}

-----------------------------------------------------------------------------
(* Data *)

TaskState == {"PENDING", "RUNNING", "COMPLETED", "PARTIAL", "PREPARING"}

\* A block under its first review counts as pending, as in _aggregate.
Result == {"absent", "pending", "completed", "failed"}

\* The state of a snapshot follows from its completion_status.
Status == {"pending", "running", "completed", "partial", "superseded"}

\* An open snapshot can be superseded or carried forward.
OpenStatus == {"pending", "running", "partial"}

Task == [rev : Nat, state : TaskState, tree : SUBSET Blocks, auto : BOOLEAN]

Snap == [rev     : Nat,             \* trigger_revision; 0: no snapshot
         status  : Status,
         refs    : SUBSET Blocks,   \* changed_blocks
         removed : BOOLEAN,         \* are there removed_file_names?
         copy    : [Blocks -> Result]]

NoCopy == [b \in Blocks |-> "absent"]
NoSnap == [rev |-> 0, status |-> "pending", refs |-> {}, removed |-> FALSE,
           copy |-> NoCopy]

\* The state of trigger(): what its synchronization found, and the snapshot it
\* creates or carries forward, with the status it was loaded with.
Trigger == [pc      : {"idle", "sync", "supersede", "insert", "find", "carry",
                       "publish", "done"},
            rev     : Nat,
            tree    : SUBSET Blocks,
            prev    : TaskState,
            changed : SUBSET Blocks,
            removed : BOOLEAN,
            work    : BOOLEAN,
            key     : Triggers \cup {None},
            found   : Status]

NewTrigger == [pc |-> "idle", rev |-> 0, tree |-> {}, prev |-> "PENDING",
               changed |-> {}, removed |-> FALSE, work |-> FALSE, key |-> None,
               found |-> "pending"]

Run == [pc     : {"idle", "start", "sync", "review", "interrupted", "closing"},
        rev    : Nat,                \* active_trigger_revision
        tree   : SUBSET Blocks,
        todo   : SUBSET Blocks,      \* blocks still to be reviewed
        ok     : BOOLEAN,            \* has no block failed so far?
        stop   : BOOLEAN,            \* is stop_event set?
        thread : [Files -> {"review", "store", "interrupted", "raised"}],
        image  : [Blocks -> Result]] \* the files in memory, about to be saved

NoRun == [pc |-> "idle", rev |-> 0, tree |-> {}, todo |-> {}, ok |-> TRUE,
          stop |-> FALSE, thread |-> [f \in Files |-> "review"], image |-> NoCopy]

\* A checkpoint: the revision it looks for (0: that of the stored task), the
\* snapshot it found, the status it was loaded with and the one to save.
Checkpoint == [pc : {"none", "load", "copy", "save"}, rev : Nat,
               parent : TaskState, finalize : BOOLEAN, key : Triggers \cup {None},
               loaded : Status, new : Status]

NoCheckpoint == [pc |-> "none", rev |-> 0, parent |-> "PENDING", finalize |-> FALSE,
                 key |-> None, loaded |-> "pending", new |-> "pending"]

\* Triggers that overlap; a checkpoint or a file save that lands after a newer
\* trigger has begun (or a last checkpoint that looks for its snapshot then, and
\* misses one that was carried away); checkpoints of two threads at once; a
\* trigger whose code lacks a block of the snapshot it carries forward; a run that
\* dies between its end and its last checkpoint; a trigger that fails before its
\* snapshot is in place.
RaceKinds == {"overlap", "late", "parallel", "vanished", "lost_checkpoint",
              "failed_trigger"}

-----------------------------------------------------------------------------
(* Helpers *)

Exists(k) == snaps[k].rev # 0
Open(k) == Exists(k) /\ snaps[k].status \in OpenStatus

BlocksOf(f) == {x \in Blocks : FileOf[x] = f}
FileMates(b) == BlocksOf(FileOf[b])
FilePresent(b, blocks) == \E x \in FileMates(b) : blocks[x] # "absent"

\* synchronize_with_result: blocks keep their result, new ones are pending.
Synced(tree) ==
    [b \in Blocks |-> IF b \notin tree THEN "absent"
                      ELSE IF code[b] = "absent" THEN "pending" ELSE code[b]]

ChangedBlocks(tree) == {b \in tree : code[b] = "absent"}

SomeFileRemoved(tree) ==
    \E b \in Blocks : code[b] # "absent" /\ FileMates(b) \cap tree = {}

\* _sync_code_files: the snapshot's copy of a file is replaced by the blocks it
\* refers to that are still in the file, and left alone when there are none.
Copied(snap) ==
    LET selected == {x \in snap.refs : code[x] # "absent"}
    IN [b \in Blocks |->
          IF FileMates(b) \cap selected = {} THEN snap.copy[b]
          ELSE IF b \in selected THEN code[b] ELSE "absent"]

\* Mutant: failed blocks are results like any other.
AggregateFailedToo(copy, removed, parent, finalize) ==
    LET blocks  == {b \in Blocks : copy[b] # "absent"}
        pending == {b \in blocks : copy[b] = "pending"}
    IN CASE blocks = {} /\ removed /\ finalize /\ parent = "COMPLETED" -> "completed"
         [] blocks # {} /\ pending = {} -> "completed"
         [] OTHER -> IF parent = "RUNNING" THEN "running" ELSE "pending"

\* _aggregate
Aggregate(copy, removed, parent, finalize) ==
    LET blocks  == {b \in Blocks : copy[b] # "absent"}
        pending == {b \in blocks : copy[b] = "pending"}
        failed  == {b \in blocks : copy[b] = "failed"}
    IN CASE blocks = {} /\ removed /\ finalize /\ parent = "COMPLETED" -> "completed"
         [] blocks # {} /\ failed \cup pending = {} -> "completed"
         [] failed # {} /\ pending = {} -> "partial"
         [] OTHER -> IF parent = "RUNNING" THEN "running" ELSE "pending"

Note(race, happens) == races' = IF happens THEN races \cup {race} ELSE races

Fault(kind) ==
    /\ kind \in FaultKinds
    /\ budget > 0
    /\ budget' = budget - 1

InProgress(t) == trig[t].pc \notin {"idle", "done"}

-----------------------------------------------------------------------------
\* The first trigger is done: it creates no snapshot.
Init ==
    /\ task = [rev |-> 1, state |-> "PENDING", tree |-> FirstTree, auto |-> FALSE]
    /\ code = [b \in Blocks |-> IF b \in FirstTree THEN "pending" ELSE "absent"]
    /\ snaps = [t \in Triggers |-> NoSnap]
    /\ trig = [t \in Triggers |-> NewTrigger]
    /\ run = NoRun
    /\ ck = [a \in Actors |-> NoCheckpoint]
    /\ races = {}
    /\ budget = Faults

-----------------------------------------------------------------------------
(* TaskSnapshotService.checkpoint *)

CheckpointDone(a) == ck' = [ck EXCEPT ![a] = NoCheckpoint]

CkLoad(a) ==
    /\ ck[a].pc = "load"
    /\ LET rev == IF ck[a].rev = 0 THEN task.rev ELSE ck[a].rev
           parent == IF ck[a].rev = 0 THEN task.state ELSE ck[a].parent
           hits == {k \in Triggers :
                      snaps[k].rev = rev /\ snaps[k].status # "superseded"}
       IN /\ \/ /\ hits = {}
                /\ CheckpointDone(a)
             \/ \E k \in hits :
                   ck' = [ck EXCEPT ![a] = [@ EXCEPT !.pc = "copy", !.rev = rev,
                                            !.parent = parent, !.key = k,
                                            !.loaded = snaps[k].status]]
          /\ IF a \in Files
                THEN Note("parallel", \E f \in Files \ {a} : ck[f].pc # "none")
                ELSE Note("late", rev # task.rev)
    /\ UNCHANGED <<task, code, snaps, trig, run, budget>>

CkCopy(a) ==
    /\ ck[a].pc = "copy"
    /\ LET k == ck[a].key
           copy == Copied(snaps[k])
           new == Aggregate(copy, snaps[k].removed, ck[a].parent, ck[a].finalize)
       IN /\ snaps' = [snaps EXCEPT ![k].copy = copy]
          /\ ck' = [ck EXCEPT ![a] = [@ EXCEPT !.pc = "save", !.new = new]]
    /\ Note("late", ck[a].rev # task.rev)
    /\ UNCHANGED <<task, code, trig, run, budget>>

\* Document.save() writes the fields that differ from what was loaded.
CkSave(a) ==
    /\ ck[a].pc = "save"
    /\ snaps' = IF ck[a].new = ck[a].loaded THEN snaps
                ELSE [snaps EXCEPT ![ck[a].key].status = ck[a].new]
    /\ CheckpointDone(a)
    /\ Note("late", ck[a].rev # task.rev)
    /\ UNCHANGED <<task, code, trig, run, budget>>

CkStep(a) == CkLoad(a) \/ CkCopy(a) \/ CkSave(a)

-----------------------------------------------------------------------------
(* TaskSubmissionService.trigger *)

Advance(t, new) == trig' = [trig EXCEPT ![t] = new]

\* Mutant: a submission takes no new revision.
TrigBeginSameRevision(t) ==
    /\ trig[t].pc = "idle"
    /\ \E tree \in Trees :
        /\ task' = [task EXCEPT !.state = "PREPARING", !.tree = tree, !.auto = FALSE]
        /\ Advance(t, [trig[t] EXCEPT !.pc = "sync", !.rev = task.rev,
                                      !.tree = tree, !.prev = task.state])
    /\ Note("overlap", \E u \in Triggers : InProgress(u))
    /\ UNCHANGED <<code, snaps, run, ck, budget>>

TrigBegin(t) ==
    /\ trig[t].pc = "idle"
    /\ \E tree \in Trees :
        /\ task' = [rev |-> task.rev + 1, state |-> "PREPARING", tree |-> tree,
                    auto |-> FALSE]
        /\ Advance(t, [trig[t] EXCEPT !.pc = "sync", !.rev = task.rev + 1,
                                      !.tree = tree, !.prev = task.state])
    /\ Note("overlap", \E u \in Triggers : InProgress(u))
    /\ UNCHANGED <<code, snaps, run, ck, budget>>

TrigSync(t) ==
    /\ trig[t].pc = "sync"
    /\ LET tree    == trig[t].tree
           changed == ChangedBlocks(tree)
           removed == SomeFileRemoved(tree)
           work    == \/ \E b \in tree : code[b] # "completed"
                      \/ trig[t].prev # "COMPLETED"
                      \/ removed
           next    == IF changed # {} \/ removed THEN "supersede" ELSE "find"
       IN /\ code' = Synced(tree)
          /\ Advance(t, [trig[t] EXCEPT !.pc = next, !.changed = changed,
                                        !.removed = removed, !.work = work])
    /\ Note("late", trig[t].rev # task.rev)
    /\ UNCHANGED <<task, snaps, run, ck, budget>>

\* Mutant: only untouched snapshots are superseded.
SupersededWhenPending(k, rev) ==
    IF Exists(k) /\ snaps[k].status = "pending" /\ snaps[k].rev < rev
      THEN [snaps[k] EXCEPT !.status = "superseded"]
      ELSE snaps[k]

\* _supersede_open_snapshots
Superseded(k, rev) ==
    IF Open(k) /\ snaps[k].rev < rev
      THEN [snaps[k] EXCEPT !.status = "superseded"]
      ELSE snaps[k]

TrigSupersede(t) ==
    /\ trig[t].pc = "supersede"
    /\ snaps' = [k \in Triggers |-> Superseded(k, trig[t].rev)]
    /\ Advance(t, [trig[t] EXCEPT !.pc = "insert"])
    /\ UNCHANGED <<task, code, run, ck, races, budget>>

\* The in-memory snapshot of the trigger is checkpointed without being loaded.
CheckpointOf(t, k) ==
    ck' = [ck EXCEPT ![t] = [NoCheckpoint EXCEPT !.pc = "copy", !.rev = trig[t].rev,
                                                 !.parent = "PREPARING", !.key = k]]

Taken(rev) == {k \in Triggers : snaps[k].rev = rev}

\* create: the unique index on the revision turns a second insertion into a
\* checkpoint of the first.
TrigInsert(t) ==
    /\ trig[t].pc = "insert"
    /\ IF Taken(trig[t].rev) = {}
          THEN /\ snaps' = [snaps EXCEPT ![t] =
                    [rev |-> trig[t].rev, status |-> "pending",
                     refs |-> {b \in trig[t].changed : FilePresent(b, code)},
                     removed |-> trig[t].removed, copy |-> NoCopy]]
               /\ Advance(t, [trig[t] EXCEPT !.pc = "publish", !.key = t])
               /\ CheckpointOf(t, t)
          ELSE \E k \in Taken(trig[t].rev) :
               /\ Advance(t, [trig[t] EXCEPT !.pc = "publish", !.key = k])
               /\ ck' = [ck EXCEPT ![t] =
                    [NoCheckpoint EXCEPT !.pc = "load", !.rev = trig[t].rev,
                                         !.parent = "PREPARING"]]
               /\ UNCHANGED snaps
    /\ UNCHANGED <<task, code, run, races, budget>>

\* Mutant: any older snapshot is carried forward.
CarriableAny(t) == {k \in Triggers : Exists(k) /\ snaps[k].rev < trig[t].rev}

\* carry_forward: the newest open snapshot of an older revision.
Carriable(t) == {k \in Triggers : Open(k) /\ snaps[k].rev < trig[t].rev}

TrigFind(t) ==
    /\ trig[t].pc = "find"
    /\ IF Carriable(t) = {}
          THEN Advance(t, [trig[t] EXCEPT !.pc = "publish"])
          ELSE \E k \in Carriable(t) :
               /\ \A l \in Carriable(t) : snaps[l].rev <= snaps[k].rev
               /\ Advance(t, [trig[t] EXCEPT !.pc = "carry", !.key = k,
                                             !.found = snaps[k].status])
    /\ UNCHANGED <<task, code, snaps, run, ck, races, budget>>

\* The rest of carry_forward: its save writes the new revision, and the status
\* if it was not pending when it was loaded.
TrigCarry(t) ==
    /\ trig[t].pc = "carry"
    /\ LET k == trig[t].key
           status == IF trig[t].found = "pending" THEN snaps[k].status ELSE "pending"
       IN /\ snaps' = [snaps EXCEPT ![k].rev = trig[t].rev, ![k].status = status]
          /\ CheckpointOf(t, k)
          /\ Note("vanished", \E b \in snaps[k].refs : code[b] = "absent")
    /\ Advance(t, [trig[t] EXCEPT !.pc = "publish"])
    /\ UNCHANGED <<task, code, run, budget>>

TrigPublish(t) ==
    /\ trig[t].pc = "publish"
    /\ ck[t].pc = "none"
    /\ task' = IF task.rev # trig[t].rev THEN task
               ELSE [task EXCEPT !.state = IF trig[t].work THEN "PENDING"
                                                           ELSE "COMPLETED"]
    /\ Advance(t, [trig[t] EXCEPT !.pc = "done"])
    /\ UNCHANGED <<code, snaps, run, ck, races, budget>>

\* An exception before the snapshot is in place.
TrigFail(t) ==
    /\ Fault("trigger_fail")
    /\ trig[t].pc \in {"sync", "supersede", "insert", "find", "carry"}
    /\ task' = IF task.rev # trig[t].rev THEN task
               ELSE [task EXCEPT !.state = "PARTIAL"]
    /\ Advance(t, [trig[t] EXCEPT !.pc = "done"])
    /\ Note("failed_trigger", TRUE)
    /\ UNCHANGED <<code, snaps, run, ck>>

-----------------------------------------------------------------------------
(* ReviewTaskService.review_task *)

CheckPasses == ~run.stop /\ task.rev = run.rev

Incomplete(blocks) == {b \in Blocks : blocks[b] \in {"pending", "failed"}}

\* The retry of a partial task, automatic or by a user.
Retryable ==
    /\ task.state = "PARTIAL"
    /\ \/ task.auto
       \/ /\ \E b \in Blocks : code[b] = "failed"
          /\ \A b \in Blocks : code[b] # "pending"

Claim ==
    /\ run.pc = "idle"
    /\ \/ task.state \in {"PENDING", "RUNNING"} /\ UNCHANGED budget
       \/ Retryable /\ Fault("retry")
    /\ task' = [task EXCEPT !.state = "RUNNING", !.auto = FALSE]
    /\ run' = [NoRun EXCEPT !.pc = "start", !.rev = task.rev, !.tree = task.tree]
    /\ UNCHANGED <<code, snaps, trig, ck, races>>

RunStart ==
    /\ run.pc = "start"
    /\ run' = [run EXCEPT !.pc = IF CheckPasses THEN "sync" ELSE "interrupted"]
    /\ UNCHANGED <<task, code, snaps, trig, ck, races, budget>>

RunSync ==
    /\ run.pc = "sync"
    /\ code' = Synced(run.tree)
    /\ run' = [run EXCEPT !.pc = "review", !.todo = Incomplete(Synced(run.tree))]
    /\ Note("late", task.rev # run.rev)
    /\ UNCHANGED <<task, snaps, trig, ck, budget>>

\* _review_file: a block of the thread's file, up to the check before the save.
RunReview(f) ==
    /\ run.pc = "review"
    /\ run.thread[f] = "review"
    /\ ck[f].pc = "none"
    /\ \E b \in run.todo \cap BlocksOf(f), result \in {"completed", "failed"} :
        run' = IF CheckPasses
                 THEN [run EXCEPT
                        !.thread[f] = "store", !.todo = @ \ {b},
                        !.ok = @ /\ result = "completed",
                        !.image = [x \in Blocks |->
                                     IF x = b THEN result
                                     ELSE IF FileOf[x] = f THEN code[x] ELSE @[x]]]
                 ELSE [run EXCEPT !.thread[f] = "interrupted"]
    /\ UNCHANGED <<task, code, snaps, trig, ck, races, budget>>

\* The file is saved with its whole list of blocks; were it deleted meanwhile,
\* the save would make a document that no query of the task finds.
RunStore(f) ==
    /\ run.pc = "review"
    /\ run.thread[f] = "store"
    /\ code' = [b \in Blocks |-> IF FileOf[b] = f /\ FilePresent(b, code)
                                    THEN run.image[b] ELSE code[b]]
    /\ run' = [run EXCEPT !.thread[f] = "review",
                          !.image = [b \in Blocks |-> IF FileOf[b] = f THEN "absent"
                                                                      ELSE @[b]]]
    /\ ck' = [ck EXCEPT ![f] = [NoCheckpoint EXCEPT !.pc = "load"]]
    /\ Note("late", task.rev # run.rev)
    /\ UNCHANGED <<task, snaps, trig, budget>>

\* Any other exception of a thread.
RunRaise(f) ==
    /\ Fault("raise")
    /\ run.pc = "review"
    /\ run.thread[f] = "review"
    /\ ck[f].pc = "none"
    /\ run' = [run EXCEPT !.thread[f] = "raised"]
    /\ UNCHANGED <<task, code, snaps, trig, ck, races>>

\* The pool waits for all of its threads, whatever became of the others.
ThreadsDone ==
    /\ run.pc = "review"
    /\ \A f \in Files :
        /\ ck[f].pc = "none"
        /\ run.thread[f] # "store"
        /\ run.thread[f] = "review" => run.todo \cap BlocksOf(f) = {}

\* Mutant: the last checkpoint does not settle what has no blocks.
LastCheckpointNotFinal(rev, state, finalize) ==
    /\ ck' = [ck EXCEPT ![Worker] = [NoCheckpoint EXCEPT
                !.pc = "load", !.rev = rev, !.parent = state]]
    /\ run' = [run EXCEPT !.pc = "closing"]

\* The last checkpoint of a run, with the task as the run holds it.
LastCheckpoint(rev, state, finalize) ==
    /\ ck' = [ck EXCEPT ![Worker] = [NoCheckpoint EXCEPT
                !.pc = "load", !.rev = rev, !.parent = state, !.finalize = finalize]]
    /\ run' = [run EXCEPT !.pc = "closing"]

\* _finish_task; the gap between its check and its save is left to ReviewTask.
RunFinish ==
    /\ ThreadsDone
    /\ \A f \in Files : run.thread[f] = "review"
    /\ IF CheckPasses
          THEN LET state == IF run.ok THEN "COMPLETED" ELSE "PARTIAL"
               IN /\ task' = [task EXCEPT !.state = state, !.auto = ~run.ok]
                  /\ LastCheckpoint(run.rev, state, TRUE)
          ELSE /\ run' = [run EXCEPT !.pc = "interrupted"]
               /\ UNCHANGED <<task, ck>>
    /\ UNCHANGED <<code, snaps, trig, races, budget>>

RunStopped ==
    /\ ThreadsDone
    /\ \E f \in Files : run.thread[f] = "interrupted"
    /\ run' = [run EXCEPT !.pc = "interrupted"]
    /\ UNCHANGED <<task, code, snaps, trig, ck, races, budget>>

\* _mark_task_interrupted
RunInterrupted ==
    /\ run.pc = "interrupted"
    /\ LET state == IF task.rev = run.rev THEN "PENDING" ELSE task.state
       IN /\ task' = [task EXCEPT !.state = state]
          /\ LastCheckpoint(task.rev, state, FALSE)
    /\ UNCHANGED <<code, snaps, trig, races, budget>>

\* The failure path of review_task.
RunFail ==
    /\ ThreadsDone
    /\ \E f \in Files : run.thread[f] = "raised"
    /\ IF task.rev = run.rev
          THEN /\ task' = [task EXCEPT !.state = "PARTIAL", !.auto = TRUE]
               /\ LastCheckpoint(run.rev, "PARTIAL", FALSE)
          ELSE /\ run' = [run EXCEPT !.pc = "interrupted"]
               /\ UNCHANGED <<task, ck>>
    /\ UNCHANGED <<code, snaps, trig, races, budget>>

RunClose ==
    /\ run.pc = "closing"
    /\ ck[Worker].pc = "none"
    /\ run' = NoRun
    /\ UNCHANGED <<task, code, snaps, trig, ck, races, budget>>

Preempt ==
    /\ Fault("preempt")
    /\ run.pc # "idle" /\ ~run.stop
    /\ run' = [run EXCEPT !.stop = TRUE]
    /\ UNCHANGED <<task, code, snaps, trig, ck, races>>

\* The process dies; a task left RUNNING is claimed again once its lease is over.
Crash ==
    /\ Fault("crash")
    /\ run.pc # "idle"
    /\ run' = NoRun
    /\ ck' = [a \in Actors |-> IF a \in Triggers THEN ck[a] ELSE NoCheckpoint]
    /\ Note("lost_checkpoint", run.pc = "closing" /\ ck[Worker].pc # "none")
    /\ UNCHANGED <<task, code, snaps, trig>>

-----------------------------------------------------------------------------
TrigStep(t) ==
    \/ TrigSync(t)
    \/ TrigSupersede(t)
    \/ TrigInsert(t)
    \/ TrigFind(t)
    \/ TrigCarry(t)
    \/ TrigPublish(t)

RunStep ==
    \/ RunStart
    \/ RunSync
    \/ \E f \in Files : RunReview(f) \/ RunStore(f) \/ RunRaise(f)
    \/ RunFinish
    \/ RunStopped
    \/ RunFail
    \/ RunInterrupted
    \/ RunClose

Next ==
    \/ \E t \in Triggers : TrigBegin(t) \/ TrigStep(t) \/ TrigFail(t)
    \/ \E a \in Actors : CkStep(a)
    \/ Claim
    \/ RunStep
    \/ Preempt
    \/ Crash

Spec == Init /\ [][Next]_vars

-----------------------------------------------------------------------------
(* Properties *)

TypeOK ==
    /\ task \in Task
    /\ code \in [Blocks -> Result]
    /\ snaps \in [Triggers -> Snap]
    /\ trig \in [Triggers -> Trigger]
    /\ run \in Run
    /\ ck \in [Actors -> Checkpoint]
    /\ races \in SUBSET RaceKinds
    /\ budget \in Nat

\* Nobody is at work on the task.
Quiet ==
    /\ \A t \in Triggers : ~InProgress(t)
    /\ run.pc = "idle"

\* The unique index on (task_id, trigger_revision) never rejects a snapshot that
\* is inserted or carried forward: the revision it is to have is free.
RevisionIsFree ==
    \A t \in Triggers : trig[t].pc \in {"insert", "carry"} => Taken(trig[t].rev) = {}

\* Once nobody is at work, an open snapshot has the revision of the task: the
\* next checkpoint finds it. So there is one at most.
OpenSnapshotIsCurrent ==
    Quiet /\ races \cap {"overlap", "late", "failed_trigger"} = {}
        => \A k \in Triggers : Open(k) => snaps[k].rev = task.rev

\* A completed task has no snapshot that still waits for results, however the
\* checkpoints of its threads interleaved.
CompletedTaskSettlesSnapshot ==
    Quiet /\ races \subseteq {"parallel"} /\ task.state = "COMPLETED"
        => \A k \in Triggers : ~Open(k)

\* A completed snapshot only ever holds completed blocks and all of its blocks.
CompletedSnapshotIsWhole ==
    races \subseteq {"parallel"} => \A k \in Triggers : snaps[k].status = "completed" =>
        \A b \in snaps[k].refs : snaps[k].copy[b] = "completed"

\* A snapshot that is completed or superseded stays that way while nothing is
\* late: neither a checkpoint nor a trigger that carries it forward reopens it.
\* Two checkpoints of one run may reopen it, until the last one of the run.
SettledSnapshotStays ==
    [][\A k \in Triggers :
         Exists(k) /\ ~Open(k) /\ races' \cap {"late", "overlap", "parallel"} = {}
            => snaps'[k] = snaps[k]]_vars

\* config.md and README.md: later submissions do not overwrite a snapshot, not
\* even when they never overlap each other.
SnapshotIsImmutable ==
    [][\A k \in Triggers :
         Exists(k) /\ ~Open(k) /\ snaps[k].rev < task.rev /\ "overlap" \notin races
            => snaps'[k] = snaps[k]]_vars

\* config.md: newer code supersedes an unfinished snapshot, so an open one only
\* refers to blocks of the current code.
NewerCodeSupersedes ==
    Quiet /\ races \subseteq {"vanished"}
        => \A k \in Triggers : Open(k) =>
              \A b \in snaps[k].refs : code[b] # "absent"

-----------------------------------------------------------------------------
(* The inductive strengthening of RevisionIsFree *)

\* Every trigger that began has a revision of its own.
RevisionInv ==
    /\ \A t \in Triggers :
        /\ trig[t].rev <= task.rev
        /\ trig[t].pc # "idle" => trig[t].rev > 0
    /\ \A t, u \in Triggers : trig[t].rev = trig[u].rev /\ trig[t].rev > 0 => t = u

\* A snapshot has the revision of the trigger that last created or carried it.
OwnerInv ==
    \A k \in Triggers : Exists(k) =>
        \E u \in Triggers : /\ trig[u].pc \in {"publish", "done"}
                            /\ trig[u].rev = snaps[k].rev
                            /\ trig[u].key = k

\* A trigger past its search, and a checkpoint past its load, has a snapshot.
KeyInv ==
    /\ \A t \in Triggers : trig[t].pc = "carry" => trig[t].key \in Triggers
    /\ \A a \in Actors : ck[a].pc \in {"copy", "save"} => ck[a].key \in Triggers

IInv ==
    /\ TypeOK
    /\ RevisionInv
    /\ OwnerInv
    /\ KeyInv

-----------------------------------------------------------------------------
(* The inductive strengthening of OpenSnapshotIsCurrent,                       *)
(* CompletedSnapshotIsWhole, CompletedTaskSettlesSnapshot and                  *)
(* SettledSnapshotStays.                                                       *)

Present == {b \in Blocks : code[b] # "absent"}
AllDone == \A b \in Blocks : code[b] \in {"absent", "completed"}

Copying(a) == ck[a].pc \in {"copy", "save"}
Current(a) == ck[a].pc # "none" /\ ck[a].rev = task.rev

\* A snapshot is the work of the trigger it is named for, and copies what it
\* refers to.
BornInv ==
    \A k \in Triggers :
        /\ Exists(k) => trig[k].pc \in {"publish", "done"}
        /\ \A b \in Blocks \ snaps[k].refs : snaps[k].copy[b] = "absent"
        /\ trig[k].pc = "carry" => Exists(trig[k].key)

\* A run and a submission work on the code they began with, and the run of the
\* current revision begins after its submission.
WorkInv ==
    /\ task.rev > 0
    /\ run.pc # "idle" => /\ 0 < run.rev /\ run.rev <= task.rev
                          /\ run.rev = task.rev => run.tree = task.tree
    /\ \A t \in Triggers : InProgress(t) /\ trig[t].rev = task.rev =>
          /\ task.state = "PREPARING"
          /\ trig[t].tree = task.tree
          /\ run.pc # "idle" => run.rev < task.rev
    /\ \A t \in Triggers :
          trig[t].pc \in {"supersede", "insert", "find", "carry", "publish"} /\ ~trig[t].work
          => trig[t].prev = "COMPLETED"
    /\ run.pc \in {"start", "sync"} => \A f \in Files : run.thread[f] = "review"

\* Whose checkpoint it is says when it happens.
ActorInv ==
    /\ \A f \in Files : ck[f].pc # "none" =>
          /\ run.pc = "review" /\ run.thread[f] = "review"
          /\ ~ck[f].finalize
          /\ ck[f].pc = "load" => ck[f].rev = 0
    /\ ck[Worker].pc # "none" => run.pc = "closing" /\ ck[Worker].rev > 0
    /\ \A t \in Triggers : ck[t].pc # "none" =>
          /\ trig[t].pc = "publish" /\ ck[t].rev = trig[t].rev
          /\ ck[t].parent = "PREPARING" /\ ~ck[t].finalize
    /\ \A a \in Actors : ck[a].rev <= task.rev /\ ck[a].new # "superseded"

Calm == races \cap {"overlap", "late"} = {}

\* One submission at a time, which is the current one; a completed task has no
\* run but one that is closing.
OneInv ==
    /\ \A t \in Triggers : InProgress(t) =>
          /\ trig[t].rev = task.rev
          /\ trig[t].prev = "COMPLETED" => run.pc \in {"idle", "closing"}
    /\ task.state = "COMPLETED" => run.pc \in {"idle", "closing"}

\* A checkpoint of the current revision keeps its snapshot to its end, and so
\* does a submission that is going to carry one.
HoldInv ==
    /\ \A a \in Actors : Copying(a) /\ ck[a].rev = task.rev =>
          snaps[ck[a].key].rev = task.rev /\ snaps[ck[a].key].status # "superseded"
    /\ \A t \in Triggers : trig[t].pc = "carry" =>
          /\ Open(trig[t].key) /\ snaps[trig[t].key].rev < task.rev
          /\ snaps[trig[t].key].status = trig[t].found

\* Has a submission or a run of the current revision synchronized the files?
Synchronized ==
    \/ \E t \in Triggers : trig[t].pc \in {"supersede", "insert", "find", "carry"}
    \/ \E k \in Triggers : Exists(k) /\ snaps[k].rev = task.rev
    \/ run.pc = "review" /\ run.rev = task.rev

\* Then the stored blocks are those of the workspace.
CodeInv ==
    /\ Synchronized => Present = task.tree
    /\ \A t \in Triggers : trig[t].pc \in {"supersede", "insert"} =>
          /\ trig[t].changed \subseteq task.tree
          /\ trig[t].changed # {} \/ trig[t].removed
          /\ trig[t].work
    /\ \A k \in Triggers : Exists(k) => snaps[k].refs # {} \/ snaps[k].removed

\* A run of the current revision only reviews what is unfinished, and keeps the
\* rest of the file it saves.
ReviewInv ==
    run.pc = "review" /\ run.rev = task.rev =>
        /\ \A b \in run.todo : code[b] \in {"pending", "failed"}
        /\ \A b \in Blocks : run.thread[FileOf[b]] = "store" =>
              \/ run.image[b] = code[b]
              \/ /\ b \notin run.todo
                 /\ code[b] \in {"pending", "failed"}
                 /\ run.image[b] \in {"completed", "failed"}
        /\ run.ok => \A b \in Blocks :
              \/ code[b] \in {"absent", "completed"}
              \/ b \in run.todo
              \/ run.thread[FileOf[b]] = "store" /\ run.image[b] = "completed"

\* An open snapshot has the revision of the task, or a submission is about to
\* supersede it or carry it along.
OpenInv ==
    /\ \A k \in Triggers : Open(k) =>
          \/ snaps[k].rev = task.rev
          \/ \E t \in Triggers : trig[t].pc \in {"sync", "supersede", "find", "carry"}
    /\ \A k, l \in Triggers : Open(k) /\ Open(l) => k = l

RefsInv ==
    \A k \in Triggers : Exists(k) /\ snaps[k].rev = task.rev => snaps[k].refs \subseteq task.tree

Whole(k) == \A b \in snaps[k].refs : snaps[k].copy[b] = "completed"

\* What was copied as completed is completed, for as long as it is looked at.
WholeInv ==
    /\ \A k \in Triggers : snaps[k].status = "completed" => Whole(k)
    /\ \A a \in Actors : ck[a].pc = "save" /\ Current(a) /\ ck[a].new = "completed"
                            => Whole(ck[a].key)
    /\ \A k \in Triggers, b \in Blocks :
          /\ Exists(k) /\ (Open(k) \/ snaps[k].rev = task.rev)
          /\ b \in snaps[k].refs /\ snaps[k].copy[b] = "completed"
          => \/ code[b] = "completed"
             \/ /\ code[b] = "absent" /\ snaps[k].rev < task.rev
                /\ \E t \in Triggers : trig[t].pc \in {"supersede", "find", "carry"}

\* Is a submission about to leave a completed task completed?
Idle(t) ==
    \/ trig[t].pc = "sync" /\ trig[t].prev = "COMPLETED"
    \/ trig[t].pc \in {"find", "carry", "publish"} /\ ~trig[t].work

\* A completed task has nothing to review, and its snapshot is settled by the last
\* checkpoint of its run; a later submission may come before that one.
DoneInv ==
    /\ task.state = "COMPLETED" =>
          /\ AllDone
          /\ Current(Worker) =>
                /\ ck[Worker].finalize /\ ck[Worker].parent = "COMPLETED"
                /\ Copying(Worker) => snaps[ck[Worker].key].status = ck[Worker].loaded
                /\ ck[Worker].pc = "save" => ck[Worker].new = "completed"
          /\ \A k \in Triggers : Open(k) => ck[Worker].pc # "none"
    /\ \A t \in Triggers : Idle(t) =>
          /\ trig[t].prev = "COMPLETED" /\ AllDone
          /\ ~Current(Worker)
          /\ \A k \in Triggers :
                Open(k) \/ (Exists(k) /\ snaps[k].rev = task.rev) => ck[Worker].pc # "none"

\* A copy that is complete and up to date: copying again changes nothing.
Settled(k) ==
    /\ Copied(snaps[k]) = snaps[k].copy
    /\ \A b \in Blocks : snaps[k].copy[b] \in {"absent", "completed"}
    /\ \A b \in snaps[k].refs : code[b] \in {"absent", "completed"}

NoBlocks(k) == \A b \in Blocks : snaps[k].copy[b] = "absent"

\* One that holds no blocks is settled by the last checkpoint alone.
Finished(k) ==
    /\ Settled(k)
    /\ NoBlocks(k) => task.state = "COMPLETED" /\ \A a \in Actors : ~Current(a)

\* A checkpoint completes what is settled, and reopens nothing.
SavesFinished(a) ==
    /\ ck[a].new = "completed" =>
          /\ Settled(ck[a].key)
          /\ NoBlocks(ck[a].key) => ck[a].finalize /\ ck[a].parent = "COMPLETED"
    /\ snaps[ck[a].key].status = "completed" => ck[a].new \in {"completed", ck[a].loaded}

\* The checkpoints during a submission come to the same result.
SavesAgreed(a) ==
    /\ ck[a].parent = "PREPARING" /\ ~ck[a].finalize
    /\ ck[a].pc = "save" =>
          LET snap == snaps[ck[a].key]
          IN /\ Copied(snap) = snap.copy
             /\ ck[a].new = Aggregate(snap.copy, snap.removed, "PREPARING", FALSE)

\* A snapshot is completed once, by checkpoints that agree about it.
SettleInv ==
    /\ \A k \in Triggers :
          Exists(k) /\ snaps[k].rev = task.rev /\ snaps[k].status = "completed" => Finished(k)
    /\ \A a \in Actors : ck[a].pc = "save" /\ Current(a) => SavesFinished(a)
    /\ \A a \in Actors, t \in Triggers : Current(a) /\ InProgress(t) => SavesAgreed(a)
    /\ \A f, g \in Files : Copying(f) /\ Copying(g) => f = g
    /\ Current(Worker) /\ ck[Worker].finalize /\ ck[Worker].parent = "COMPLETED" =>
          task.state = "COMPLETED"

SnapInv ==
    /\ IInv
    /\ BornInv /\ WorkInv /\ ActorInv
    /\ Calm => OneInv /\ HoldInv /\ CodeInv /\ ReviewInv
    /\ Calm /\ "failed_trigger" \notin races => OpenInv
    /\ Calm /\ "vanished" \notin races => RefsInv
    /\ races \subseteq {"parallel"} => WholeInv /\ DoneInv
    /\ Calm /\ "parallel" \notin races => SettleInv

=============================================================================
