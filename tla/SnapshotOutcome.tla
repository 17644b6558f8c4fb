--------------------------- MODULE SnapshotOutcome ---------------------------
(***************************************************************************)
(* Machine-checked proofs about Snapshot, for any number of triggers, any  *)
(* blocks and files, and any bound on the disturbances: types and the      *)
(* ownership of revisions first, then what becomes of the snapshots.       *)
(* SnapInv of Snapshot is inductive, and the properties of the open and of *)
(* the completed snapshots follow from it.                                 *)
(***************************************************************************)
EXTENDS Snapshot, TLAPS

USE ActorAssumption, TreeAssumption, FaultAssumption

-----------------------------------------------------------------------------
(* Types of the helpers *)

\* A status computed from the copies is a status.
LEMMA AggregateType ==
    ASSUME NEW copy, NEW removed, NEW parent, NEW finalize
    PROVE  Aggregate(copy, removed, parent, finalize) \in Status
  BY DEF Aggregate, Status

\* The code after a synchronization, and the copy of a snapshot, are results.
LEMMA ResultTypes ==
    ASSUME code \in [Blocks -> Result]
    PROVE  /\ \A tree : Synced(tree) \in [Blocks -> Result]
           /\ \A snap \in Snap : Copied(snap) \in [Blocks -> Result]
  <1>1. \A tree : Synced(tree) \in [Blocks -> Result]
    BY DEF Synced, Result
  <1>2. ASSUME NEW snap \in Snap
        PROVE  Copied(snap) \in [Blocks -> Result]
    <2>1. snap.copy \in [Blocks -> Result]
      BY DEF Snap
    <2>2. QED
      BY <2>1 DEF Copied, Result
  <1>3. QED
    BY <1>1, <1>2

\* The empty records have their types.
LEMMA EmptyTypes ==
    /\ NoCopy \in [Blocks -> Result]
    /\ NoSnap \in Snap
    /\ NewTrigger \in Trigger
    /\ NoRun \in Run
    /\ NoCheckpoint \in Checkpoint
  <1>1. NoCopy \in [Blocks -> Result]
    BY DEF NoCopy, Result
  <1>2. QED
    BY <1>1 DEF NoSnap, Snap, Status, NewTrigger, Trigger, TaskState, NoRun, Run,
                NoCheckpoint, Checkpoint

\* The history of races only holds the races it is about.
LEMMA NoteType ==
    ASSUME races \in SUBSET RaceKinds, NEW race \in RaceKinds, NEW happens \in BOOLEAN,
           Note(race, happens)
    PROVE  races' \in SUBSET RaceKinds
  BY DEF Note

-----------------------------------------------------------------------------
(* Every step keeps the types *)

\* The steps of a checkpoint keep the types, and the key it has found.
LEMMA CheckpointTypes ==
    ASSUME TypeOK, KeyInv, NEW a \in Actors, CkStep(a)
    PROVE  TypeOK' /\ KeyInv'
  <1>0. /\ ck[a] \in Checkpoint /\ task \in Task /\ NoCheckpoint \in Checkpoint
        /\ {"late", "parallel"} \subseteq RaceKinds
    BY EmptyTypes DEF TypeOK, RaceKinds
  <1>1. CASE CkLoad(a)
    <2>1. PICK c \in Checkpoint :
              /\ ck' = [ck EXCEPT ![a] = c]
              /\ c.pc \in {"copy", "save"} => c.key \in Triggers
      <3> DEFINE rev == IF ck[a].rev = 0 THEN task.rev ELSE ck[a].rev
                 parent == IF ck[a].rev = 0 THEN task.state ELSE ck[a].parent
                 hits == {k \in Triggers :
                            snaps[k].rev = rev /\ snaps[k].status # "superseded"}
      <3>1. rev \in Nat /\ parent \in TaskState
        BY <1>0 DEF Task, Checkpoint
      <3>2. CASE CheckpointDone(a)
        BY <3>2, <1>0 DEF CheckpointDone, NoCheckpoint
      <3>3. CASE \E k \in hits :
                ck' = [ck EXCEPT ![a] = [@ EXCEPT !.pc = "copy", !.rev = rev,
                                         !.parent = parent, !.key = k,
                                         !.loaded = snaps[k].status]]
        <4>1. PICK k \in hits :
                ck' = [ck EXCEPT ![a] = [@ EXCEPT !.pc = "copy", !.rev = rev,
                                         !.parent = parent, !.key = k,
                                         !.loaded = snaps[k].status]]
          BY <3>3
        <4>2. snaps[k].status \in Status
          BY DEF TypeOK, Snap
        <4> DEFINE c == [ck[a] EXCEPT !.pc = "copy", !.rev = rev,
                                      !.parent = parent, !.key = k,
                                      !.loaded = snaps[k].status]
        <4>3. c \in Checkpoint /\ c.key \in Triggers
          BY <1>0, <3>1, <4>2 DEF Checkpoint
        <4>4. ck' = [ck EXCEPT ![a] = c]
          BY <4>1
        <4> HIDE DEF c
        <4>5. QED
          BY <4>3, <4>4
      <3>4. QED
        BY <1>1, <3>2, <3>3 DEF CkLoad
    <2>2. ck' \in [Actors -> Checkpoint]
      BY <2>1 DEF TypeOK
    <2>3. KeyInv'
      BY <1>1, <2>1 DEF KeyInv, CkLoad, TypeOK
    <2>4. races' \in SUBSET RaceKinds
      BY <1>0, <1>1, NoteType DEF CkLoad, TypeOK
    <2>5. QED
      BY <1>1, <2>2, <2>3, <2>4 DEF TypeOK, CkLoad
  <1>2. CASE CkCopy(a)
    <2> DEFINE k == ck[a].key
               copy == Copied(snaps[k])
               new == Aggregate(copy, snaps[k].removed, ck[a].parent, ck[a].finalize)
    <2>1. k \in Triggers /\ snaps[k] \in Snap
      BY <1>2 DEF CkCopy, KeyInv, TypeOK
    <2>2. copy \in [Blocks -> Result] /\ new \in Status
      BY <2>1, ResultTypes, AggregateType DEF TypeOK
    <2>3. /\ snaps' = [snaps EXCEPT ![k].copy = copy]
          /\ ck' = [ck EXCEPT ![a] = [@ EXCEPT !.pc = "save", !.new = new]]
      BY <1>2 DEF CkCopy
    <2> HIDE DEF copy, new
    <2>4. snaps' \in [Triggers -> Snap]
      BY <2>1, <2>2, <2>3 DEF TypeOK, Snap
    <2>5. ck' \in [Actors -> Checkpoint]
      BY <1>0, <2>2, <2>3 DEF TypeOK, Checkpoint
    <2>6. races' \in SUBSET RaceKinds
      BY <1>0, <1>2, NoteType DEF CkCopy, TypeOK
    <2>7. KeyInv'
      BY <1>0, <1>2, <2>1, <2>3 DEF KeyInv, CkCopy, TypeOK, Checkpoint
    <2>8. QED
      BY <1>2, <2>4, <2>5, <2>6, <2>7 DEF TypeOK, CkCopy
  <1>3. CASE CkSave(a)
    <2> DEFINE k == ck[a].key
    <2>0. k \in Triggers /\ snaps[k] \in Snap /\ ck[a].new \in Status
      BY <1>0, <1>3 DEF CkSave, KeyInv, TypeOK, Checkpoint
    <2>1. snaps' \in [Triggers -> Snap]
      <3>1. \/ snaps' = snaps
            \/ snaps' = [snaps EXCEPT ![k].status = ck[a].new]
        BY <1>3 DEF CkSave
      <3>2. [snaps[k] EXCEPT !.status = ck[a].new] \in Snap
        BY <2>0 DEF Snap
      <3> HIDE DEF k
      <3>3. QED
        BY <3>1, <3>2, <2>0 DEF TypeOK
    <2>2. ck' \in [Actors -> Checkpoint]
      BY <1>0, <1>3 DEF CkSave, CheckpointDone, TypeOK
    <2>3. races' \in SUBSET RaceKinds
      BY <1>0, <1>3, NoteType DEF CkSave, TypeOK
    <2>4. KeyInv'
      BY <1>3 DEF KeyInv, CkSave, CheckpointDone, NoCheckpoint, TypeOK
    <2>5. QED
      BY <1>3, <2>1, <2>2, <2>3, <2>4 DEF TypeOK, CkSave
  <1>4. QED
    BY <1>1, <1>2, <1>3 DEF CkStep

\* The checkpoint a trigger starts with its own snapshot has a key.
LEMMA CheckpointOfType ==
    ASSUME TypeOK, KeyInv, NEW t \in Triggers, NEW k \in Triggers, CheckpointOf(t, k)
    PROVE  /\ ck' \in [Actors -> Checkpoint]
           /\ \A a \in Actors : ck'[a].pc \in {"copy", "save"} => ck'[a].key \in Triggers
  <1> DEFINE c == [NoCheckpoint EXCEPT !.pc = "copy", !.rev = trig[t].rev,
                                       !.parent = "PREPARING", !.key = k]
  <1>1. trig[t].rev \in Nat
    BY DEF TypeOK, Trigger
  <1>2. c \in Checkpoint /\ c.key \in Triggers
    BY <1>1, EmptyTypes DEF Checkpoint, TaskState
  <1>3. ck' = [ck EXCEPT ![t] = c]
    BY DEF CheckpointOf
  <1> HIDE DEF c
  <1>4. QED
    BY <1>2, <1>3 DEF TypeOK, KeyInv, Actors

\* A trigger that moves on keeps the types and the keys.
LEMMA AdvanceType ==
    ASSUME TypeOK, KeyInv, NEW t \in Triggers, NEW new \in Trigger, Advance(t, new),
           new.pc = "carry" => new.key \in Triggers
    PROVE  /\ trig' \in [Triggers -> Trigger]
           /\ \A u \in Triggers : trig'[u].pc = "carry" => trig'[u].key \in Triggers
  BY DEF TypeOK, KeyInv, Advance

\* The steps of a trigger keep the types, and the keys.
LEMMA TriggerTypes ==
    ASSUME TypeOK, KeyInv, NEW t \in Triggers,
           TrigBegin(t) \/ TrigStep(t) \/ TrigFail(t)
    PROVE  TypeOK' /\ KeyInv'
  <1>0. trig[t] \in Trigger /\ task \in Task /\ budget \in Nat
    BY DEF TypeOK
  <1>a. /\ {"overlap", "late", "vanished", "failed_trigger"} \subseteq RaceKinds
        /\ {"PREPARING", "PARTIAL", "PENDING", "COMPLETED"} \subseteq TaskState
        /\ {"pending", "superseded"} \subseteq Status
    BY DEF RaceKinds, TaskState, Status
  <1>1. CASE TrigBegin(t)
    <2>1. PICK tree \in Trees :
            /\ task' = [rev |-> task.rev + 1, state |-> "PREPARING", tree |-> tree,
                        auto |-> FALSE]
            /\ Advance(t, [trig[t] EXCEPT !.pc = "sync", !.rev = task.rev + 1,
                                          !.tree = tree, !.prev = task.state])
      BY <1>1 DEF TrigBegin
    <2>2. task' \in Task
      BY <1>0, <1>a, <2>1 DEF Task
    <2>3. /\ trig' \in [Triggers -> Trigger]
          /\ \A u \in Triggers : trig'[u].pc = "carry" => trig'[u].key \in Triggers
      <3> DEFINE new == [trig[t] EXCEPT !.pc = "sync", !.rev = task.rev + 1,
                                        !.tree = tree, !.prev = task.state]
      <3>0. tree \subseteq Blocks /\ task.rev + 1 \in Nat /\ task.state \in TaskState
        BY <1>0 DEF Task
      <3>1. new \in Trigger /\ new.pc = "sync"
        BY <1>0, <3>0 DEF Trigger
      <3>2. Advance(t, new)
        BY <2>1
      <3> HIDE DEF new
      <3>3. QED
        BY <3>1, <3>2, AdvanceType
    <2>4. races' \in SUBSET RaceKinds
      BY <1>1, <1>a, NoteType DEF TrigBegin, TypeOK
    <2>5. QED
      BY <1>1, <2>2, <2>3, <2>4 DEF TypeOK, KeyInv, TrigBegin
  <1>2. CASE TrigSync(t)
    <2> DEFINE tree == trig[t].tree
               changed == ChangedBlocks(tree)
               removed == SomeFileRemoved(tree)
               work == \/ \E b \in tree : code[b] # "completed"
                       \/ trig[t].prev # "COMPLETED"
                       \/ removed
               next == IF changed # {} \/ removed THEN "supersede" ELSE "find"
               new == [trig[t] EXCEPT !.pc = next, !.changed = changed,
                                      !.removed = removed, !.work = work]
    <2>1. code' = Synced(tree) /\ Advance(t, new)
      BY <1>2 DEF TrigSync
    <2>2. changed \in SUBSET Blocks /\ removed \in BOOLEAN /\ work \in BOOLEAN
      BY <1>0 DEF ChangedBlocks, SomeFileRemoved, Trigger
    <2>3. next \in {"supersede", "find"}
      OBVIOUS
    <2> HIDE DEF changed, removed, work, next
    <2>4. new \in Trigger /\ new.pc # "carry"
      BY <1>0, <2>2, <2>3 DEF Trigger
    <2> HIDE DEF new
    <2>5. /\ trig' \in [Triggers -> Trigger]
          /\ \A u \in Triggers : trig'[u].pc = "carry" => trig'[u].key \in Triggers
      BY <2>1, <2>4, AdvanceType
    <2>6. code' \in [Blocks -> Result]
      BY <2>1, ResultTypes DEF TypeOK
    <2>7. races' \in SUBSET RaceKinds
      BY <1>2, <1>a, NoteType DEF TrigSync, TypeOK
    <2>8. QED
      BY <1>2, <2>5, <2>6, <2>7 DEF TypeOK, KeyInv, TrigSync
  <1>3. CASE TrigSupersede(t)
    <2>1. ASSUME NEW k \in Triggers
          PROVE  Superseded(k, trig[t].rev) \in Snap
      <3>1. snaps[k] \in Snap
        BY DEF TypeOK
      <3>2. [snaps[k] EXCEPT !.status = "superseded"] \in Snap
        BY <1>a, <3>1 DEF Snap
      <3>3. QED
        BY <3>1, <3>2 DEF Superseded
    <2>2. snaps' \in [Triggers -> Snap]
      BY <1>3, <2>1 DEF TrigSupersede
    <2> DEFINE new == [trig[t] EXCEPT !.pc = "insert"]
    <2>3. new \in Trigger /\ new.pc = "insert" /\ Advance(t, new)
      BY <1>0, <1>3 DEF Trigger, TrigSupersede
    <2> HIDE DEF new
    <2>4. /\ trig' \in [Triggers -> Trigger]
          /\ \A u \in Triggers : trig'[u].pc = "carry" => trig'[u].key \in Triggers
      BY <2>3, AdvanceType
    <2>5. QED
      BY <1>3, <2>2, <2>4 DEF TypeOK, KeyInv, TrigSupersede
  <1>4. CASE TrigInsert(t)
    <2>1. ASSUME NEW k \in Triggers, Advance(t, [trig[t] EXCEPT !.pc = "publish", !.key = k])
          PROVE  /\ trig' \in [Triggers -> Trigger]
                 /\ \A u \in Triggers : trig'[u].pc = "carry" => trig'[u].key \in Triggers
      <3> DEFINE new == [trig[t] EXCEPT !.pc = "publish", !.key = k]
      <3>1. new \in Trigger /\ new.pc = "publish" /\ Advance(t, new)
        BY <1>0, <2>1 DEF Trigger
      <3> HIDE DEF new
      <3>2. QED
        BY <3>1, AdvanceType
    <2>2. CASE Taken(trig[t].rev) = {}
      <3> DEFINE snap == [rev |-> trig[t].rev, status |-> "pending",
                          refs |-> {b \in trig[t].changed : FilePresent(b, code)},
                          removed |-> trig[t].removed, copy |-> NoCopy]
      <3>1. snap \in Snap
        BY <1>0, <1>a, EmptyTypes DEF Snap, Trigger
      <3>2. /\ snaps' = [snaps EXCEPT ![t] = snap]
            /\ Advance(t, [trig[t] EXCEPT !.pc = "publish", !.key = t])
            /\ CheckpointOf(t, t)
        BY <1>4, <2>2 DEF TrigInsert
      <3> HIDE DEF snap
      <3>3. snaps' \in [Triggers -> Snap]
        BY <3>1, <3>2 DEF TypeOK
      <3>4. QED
        BY <1>4, <2>1, <3>2, <3>3, CheckpointOfType DEF TypeOK, KeyInv, TrigInsert
    <2>3. CASE Taken(trig[t].rev) # {}
      <3> DEFINE c == [NoCheckpoint EXCEPT !.pc = "load", !.rev = trig[t].rev,
                                           !.parent = "PREPARING"]
      <3>1. PICK k \in Taken(trig[t].rev) :
              /\ Advance(t, [trig[t] EXCEPT !.pc = "publish", !.key = k])
              /\ ck' = [ck EXCEPT ![t] = c]
              /\ UNCHANGED snaps
        BY <1>4, <2>3 DEF TrigInsert
      <3>2. k \in Triggers
        BY DEF Taken
      <3>3. c \in Checkpoint /\ c.pc = "load"
        BY <1>0, <1>a, EmptyTypes DEF Checkpoint, Trigger
      <3> HIDE DEF c
      <3>4. /\ ck' \in [Actors -> Checkpoint]
            /\ \A a \in Actors : ck'[a].pc \in {"copy", "save"} => ck'[a].key \in Triggers
        BY <3>1, <3>3 DEF TypeOK, KeyInv
      <3>5. QED
        BY <1>4, <2>1, <3>1, <3>2, <3>4 DEF TypeOK, KeyInv, TrigInsert
    <2>4. QED
      BY <2>2, <2>3
  <1>5. CASE TrigFind(t)
    <2>1. PICK new \in Trigger :
            Advance(t, new) /\ (new.pc = "carry" => new.key \in Triggers)
      <3>1. CASE Carriable(t) = {}
        <4>1. [trig[t] EXCEPT !.pc = "publish"] \in Trigger
          BY <1>0 DEF Trigger
        <4>2. QED
          BY <1>5, <3>1, <4>1 DEF TrigFind, Trigger
      <3>2. CASE Carriable(t) # {}
        <4>1. PICK k \in Carriable(t) :
                Advance(t, [trig[t] EXCEPT !.pc = "carry", !.key = k,
                                           !.found = snaps[k].status])
          BY <1>5, <3>2 DEF TrigFind
        <4>2. k \in Triggers /\ snaps[k].status \in Status
          BY DEF Carriable, TypeOK, Snap
        <4> DEFINE new == [trig[t] EXCEPT !.pc = "carry", !.key = k,
                                          !.found = snaps[k].status]
        <4>3. new \in Trigger /\ new.key \in Triggers /\ Advance(t, new)
          BY <1>0, <4>1, <4>2 DEF Trigger
        <4> HIDE DEF new
        <4>4. QED
          BY <4>3
      <3>3. QED
        BY <3>1, <3>2
    <2>2. QED
      BY <1>5, <2>1, AdvanceType DEF TypeOK, KeyInv, TrigFind
  <1>6. CASE TrigCarry(t)
    <2> DEFINE k == trig[t].key
               status == IF trig[t].found = "pending" THEN snaps[k].status ELSE "pending"
               new == [trig[t] EXCEPT !.pc = "publish"]
    <2>1. k \in Triggers /\ snaps[k] \in Snap
      BY <1>6 DEF TrigCarry, KeyInv, TypeOK
    <2>2. status \in Status
      BY <1>a, <2>1 DEF Snap
    <2>3. /\ snaps' = [snaps EXCEPT ![k].rev = trig[t].rev, ![k].status = status]
          /\ CheckpointOf(t, k)
          /\ Advance(t, new)
      BY <1>6 DEF TrigCarry
    <2>4. snaps' \in [Triggers -> Snap]
      <3>1. [snaps[k] EXCEPT !.rev = trig[t].rev, !.status = status] \in Snap
        BY <1>0, <2>1, <2>2 DEF Snap, Trigger
      <3> HIDE DEF k, status
      <3>2. QED
        BY <2>1, <2>3, <3>1 DEF TypeOK
    <2>5. new \in Trigger /\ new.pc = "publish"
      BY <1>0 DEF Trigger
    <2> HIDE DEF new
    <2>6. races' \in SUBSET RaceKinds
      BY <1>6, <1>a, NoteType DEF TrigCarry, TypeOK
    <2>7. QED
      BY <1>6, <2>1, <2>3, <2>4, <2>5, <2>6, AdvanceType, CheckpointOfType
         DEF TypeOK, KeyInv, TrigCarry
  <1>7. CASE TrigPublish(t) \/ TrigFail(t)
    <2> DEFINE new == [trig[t] EXCEPT !.pc = "done"]
    <2>1. new \in Trigger /\ new.pc = "done" /\ Advance(t, new)
      BY <1>0, <1>7 DEF Trigger, TrigPublish, TrigFail
    <2> HIDE DEF new
    <2>2. \A st \in TaskState : [task EXCEPT !.state = st] \in Task
      BY <1>0 DEF Task
    <2>3. task' \in Task
      BY <1>0, <1>7, <1>a, <2>2 DEF TrigPublish, TrigFail
    <2>4. races' \in SUBSET RaceKinds /\ budget' \in Nat
      <3>1. CASE TrigPublish(t)
        BY <3>1 DEF TrigPublish, TypeOK
      <3>2. CASE TrigFail(t)
        <4>1. races' \in SUBSET RaceKinds
          BY <3>2, <1>a, NoteType DEF TrigFail, TypeOK
        <4>2. budget' \in Nat
          BY <3>2, <1>0 DEF TrigFail, Fault
        <4>3. QED
          BY <4>1, <4>2
      <3>3. QED
        BY <1>7, <3>1, <3>2
    <2>5. UNCHANGED <<code, snaps, run, ck>>
      BY <1>7 DEF TrigPublish, TrigFail
    <2>6. /\ trig' \in [Triggers -> Trigger]
          /\ \A u \in Triggers : trig'[u].pc = "carry" => trig'[u].key \in Triggers
      BY <2>1, AdvanceType
    <2>7. QED
      BY <2>3, <2>4, <2>5, <2>6 DEF TypeOK, KeyInv
  <1>8. QED
    BY <1>1, <1>2, <1>3, <1>4, <1>5, <1>6, <1>7 DEF TrigStep

\* The checkpoint a run starts is to be loaded first.
LEMMA RunCheckpointType ==
    ASSUME TypeOK, KeyInv, NEW rev \in Nat, NEW state \in TaskState,
           NEW finalize \in BOOLEAN,
           ck' = [ck EXCEPT ![Worker] = [NoCheckpoint EXCEPT
                    !.pc = "load", !.rev = rev, !.parent = state,
                    !.finalize = finalize]]
    PROVE  /\ ck' \in [Actors -> Checkpoint]
           /\ \A a \in Actors : ck'[a].pc \in {"copy", "save"} => ck'[a].key \in Triggers
  <1> DEFINE c == [NoCheckpoint EXCEPT !.pc = "load", !.rev = rev, !.parent = state,
                                       !.finalize = finalize]
  <1>1. c \in Checkpoint /\ c.pc = "load"
    BY EmptyTypes DEF Checkpoint
  <1>2. ck' = [ck EXCEPT ![Worker] = c]
    OBVIOUS
  <1> HIDE DEF c
  <1>3. QED
    BY <1>1, <1>2 DEF TypeOK, KeyInv, Actors

\* The last checkpoint of a run keeps the types of the run and of the checkpoints.
LEMMA LastCheckpointType ==
    ASSUME TypeOK, KeyInv, NEW rev \in Nat, NEW state \in TaskState,
           NEW finalize \in BOOLEAN, LastCheckpoint(rev, state, finalize)
    PROVE  /\ run' \in Run
           /\ ck' \in [Actors -> Checkpoint]
           /\ \A a \in Actors : ck'[a].pc \in {"copy", "save"} => ck'[a].key \in Triggers
  <1>1. run' \in Run
    BY DEF LastCheckpoint, TypeOK, Run
  <1>2. QED
    BY <1>1, RunCheckpointType DEF LastCheckpoint

\* The steps of the worker keep the types, and the keys.
LEMMA WorkerTypes ==
    ASSUME TypeOK, KeyInv, Claim \/ RunStep \/ Preempt \/ Crash
    PROVE  TypeOK' /\ KeyInv'
  <1>0. run \in Run /\ task \in Task /\ budget \in Nat /\ NoRun \in Run
        /\ NoCheckpoint \in Checkpoint /\ code \in [Blocks -> Result]
    BY EmptyTypes DEF TypeOK
  <1>a. /\ {"late", "lost_checkpoint"} \subseteq RaceKinds
        /\ {"RUNNING", "PARTIAL", "PENDING", "COMPLETED"} \subseteq TaskState
    BY DEF RaceKinds, TaskState
  <1>b. ASSUME NEW pc \in {"sync", "review", "interrupted", "closing"}
        PROVE  [run EXCEPT !.pc = pc] \in Run
    BY <1>0 DEF Run
  <1>d. ASSUME NEW f \in Files, NEW pc \in {"review", "store", "interrupted", "raised"}
        PROVE  [run EXCEPT !.thread[f] = pc] \in Run
    BY <1>0 DEF Run
  <1>c. ASSUME NEW st \in TaskState, NEW auto \in BOOLEAN
        PROVE  [task EXCEPT !.state = st, !.auto = auto] \in Task
    BY <1>0 DEF Task
  <1>1. CASE Claim
    <2>1. task' \in Task
      BY <1>1, <1>a, <1>c DEF Claim
    <2>2. run' \in Run
      BY <1>0, <1>1 DEF Claim, Run, Task
    <2>3. budget' \in Nat
      BY <1>0, <1>1 DEF Claim, Fault
    <2>4. QED
      BY <1>1, <2>1, <2>2, <2>3 DEF TypeOK, KeyInv, Claim
  <1>2. CASE RunStart
    BY <1>2, <1>b DEF TypeOK, KeyInv, RunStart
  <1>3. CASE RunSync
    <2>1. Incomplete(Synced(run.tree)) \in SUBSET Blocks
      BY DEF Incomplete
    <2>2. run' \in Run
      BY <1>0, <1>3, <2>1 DEF RunSync, Run
    <2>3. code' \in [Blocks -> Result]
      BY <1>0, <1>3, ResultTypes DEF RunSync
    <2>4. races' \in SUBSET RaceKinds
      BY <1>3, <1>a, NoteType DEF RunSync, TypeOK
    <2>5. QED
      BY <1>3, <2>2, <2>3, <2>4 DEF TypeOK, KeyInv, RunSync
  <1>4. ASSUME NEW f \in Files, RunReview(f)
        PROVE  TypeOK' /\ KeyInv'
    <2>1. PICK b \in run.todo \cap BlocksOf(f), result \in {"completed", "failed"} :
        run' = IF CheckPasses
                 THEN [run EXCEPT
                        !.thread[f] = "store", !.todo = @ \ {b},
                        !.ok = @ /\ result = "completed",
                        !.image = [x \in Blocks |->
                                     IF x = b THEN result
                                     ELSE IF FileOf[x] = f THEN code[x] ELSE @[x]]]
                 ELSE [run EXCEPT !.thread[f] = "interrupted"]
      BY <1>4 DEF RunReview
    <2> DEFINE image == [x \in Blocks |->
                           IF x = b THEN result
                           ELSE IF FileOf[x] = f THEN code[x] ELSE run.image[x]]
               ok == run.ok /\ result = "completed"
               todo == run.todo \ {b}
    <2>2. image \in [Blocks -> Result]
      BY <1>0 DEF Result, Run
    <2>3. ok \in BOOLEAN /\ todo \in SUBSET Blocks
      BY <1>0 DEF Run
    <2>4. run' = IF CheckPasses
                   THEN [run EXCEPT !.thread[f] = "store", !.todo = todo, !.ok = ok,
                                    !.image = image]
                   ELSE [run EXCEPT !.thread[f] = "interrupted"]
      BY <1>0, <2>1 DEF Run
    <2> HIDE DEF image, ok, todo
    <2>5. [run EXCEPT !.thread[f] = "store", !.todo = todo, !.ok = ok, !.image = image]
             \in Run
      BY <1>0, <2>2, <2>3 DEF Run
    <2>6. run' \in Run
      BY <1>d, <2>4, <2>5
    <2>7. QED
      BY <1>4, <2>6 DEF TypeOK, KeyInv, RunReview
  <1>5. ASSUME NEW f \in Files, RunStore(f)
        PROVE  TypeOK' /\ KeyInv'
    <2>1. run.image \in [Blocks -> Result]
      BY <1>0 DEF Run
    <2>2. code' \in [Blocks -> Result]
      BY <1>0, <1>5, <2>1 DEF RunStore
    <2> DEFINE image == [b \in Blocks |-> IF FileOf[b] = f THEN "absent" ELSE run.image[b]]
    <2>a. image \in [Blocks -> Result]
      BY <2>1 DEF Result
    <2>b. run' = [run EXCEPT !.thread[f] = "review", !.image = image]
      BY <1>0, <1>5 DEF RunStore, Run
    <2> HIDE DEF image
    <2>3. run' \in Run
      BY <1>0, <2>a, <2>b DEF Run
    <2> DEFINE c == [NoCheckpoint EXCEPT !.pc = "load"]
    <2>4. c \in Checkpoint /\ c.pc = "load" /\ ck' = [ck EXCEPT ![f] = c]
      BY <1>0, <1>5 DEF RunStore, Checkpoint
    <2> HIDE DEF c
    <2>5. /\ ck' \in [Actors -> Checkpoint]
          /\ \A a \in Actors : ck'[a].pc \in {"copy", "save"} => ck'[a].key \in Triggers
      BY <2>4 DEF TypeOK, KeyInv, Actors
    <2>6. races' \in SUBSET RaceKinds
      BY <1>5, <1>a, NoteType DEF RunStore, TypeOK
    <2>7. QED
      BY <1>5, <2>2, <2>3, <2>5, <2>6 DEF TypeOK, KeyInv, RunStore
  <1>6. CASE RunFinish
    <2>1. CASE CheckPasses
      <3> DEFINE state == IF run.ok THEN "COMPLETED" ELSE "PARTIAL"
      <3>1. /\ task' = [task EXCEPT !.state = state, !.auto = ~run.ok]
            /\ LastCheckpoint(run.rev, state, TRUE)
        BY <1>6, <2>1 DEF RunFinish
      <3>2. state \in TaskState /\ run.ok \in BOOLEAN /\ run.rev \in Nat
        BY <1>0, <1>a DEF Run
      <3> HIDE DEF state
      <3>3. task' \in Task
        BY <1>c, <3>1, <3>2
      <3>4. QED
        BY <1>6, <3>1, <3>2, <3>3, LastCheckpointType DEF TypeOK, KeyInv, RunFinish
    <2>2. CASE ~CheckPasses
      BY <1>6, <2>2, <1>b DEF TypeOK, KeyInv, RunFinish
    <2>3. QED
      BY <2>1, <2>2
  <1>7. CASE RunInterrupted
    <2> DEFINE state == IF task.rev = run.rev THEN "PENDING" ELSE task.state
    <2>1. task' = [task EXCEPT !.state = state] /\ LastCheckpoint(task.rev, state, FALSE)
      BY <1>7 DEF RunInterrupted
    <2>2. state \in TaskState /\ task.rev \in Nat
      BY <1>0, <1>a DEF Task
    <2> HIDE DEF state
    <2>3. task' \in Task
      BY <1>0, <2>1, <2>2 DEF Task
    <2>4. QED
      BY <1>7, <2>1, <2>2, <2>3, LastCheckpointType DEF TypeOK, KeyInv, RunInterrupted
  <1>8. CASE RunFail
    <2>1. CASE task.rev = run.rev
      <3>1. task' \in Task
        BY <1>8, <2>1, <1>a, <1>c DEF RunFail
      <3>2. LastCheckpoint(run.rev, "PARTIAL", FALSE) /\ run.rev \in Nat
        BY <1>0, <1>8, <2>1 DEF RunFail, Run
      <3>3. QED
        BY <1>8, <1>a, <3>1, <3>2, LastCheckpointType DEF TypeOK, KeyInv, RunFail
    <2>2. CASE task.rev # run.rev
      BY <1>8, <1>b, <2>2 DEF TypeOK, KeyInv, RunFail
    <2>3. QED
      BY <2>1, <2>2
  <1>12. ASSUME NEW f \in Files, RunRaise(f)
         PROVE  TypeOK' /\ KeyInv'
    <2>1. run' \in Run
      BY <1>12, <1>d DEF RunRaise
    <2>2. budget' \in Nat
      BY <1>0, <1>12 DEF RunRaise, Fault
    <2>3. QED
      BY <1>12, <2>1, <2>2 DEF TypeOK, KeyInv, RunRaise
  <1>13. CASE RunStopped
    BY <1>13, <1>b DEF TypeOK, KeyInv, RunStopped
  <1>9. CASE RunClose
    BY <1>0, <1>9 DEF TypeOK, KeyInv, RunClose
  <1>10. CASE Preempt
    <2>1. run' \in Run
      BY <1>0, <1>10 DEF Preempt, Run
    <2>2. budget' \in Nat
      BY <1>0, <1>10 DEF Preempt, Fault
    <2>3. QED
      BY <1>10, <2>1, <2>2 DEF TypeOK, KeyInv, Preempt
  <1>11. CASE Crash
    <2>1. /\ ck' \in [Actors -> Checkpoint]
          /\ \A a \in Actors : ck'[a].pc \in {"copy", "save"} => ck'[a].key \in Triggers
      BY <1>0, <1>11 DEF Crash, CheckpointDone, NoCheckpoint, TypeOK, KeyInv, Actors
    <2>2. races' \in SUBSET RaceKinds
      BY <1>11, <1>a, NoteType DEF Crash, TypeOK
    <2>3. budget' \in Nat
      BY <1>0, <1>11 DEF Crash, Fault
    <2>4. QED
      BY <1>0, <1>11, <2>1, <2>2, <2>3 DEF TypeOK, KeyInv, Crash
  <1>14. QED
    BY <1>1, <1>2, <1>3, <1>4, <1>5, <1>6, <1>7, <1>8, <1>9, <1>10, <1>11, <1>12, <1>13
       DEF RunStep

-----------------------------------------------------------------------------
(* Revisions *)

\* An insertion names the trigger's own snapshot, unless the revision is taken.
LEMMA InsertMoves ==
    ASSUME TypeOK, NEW t \in Triggers, TrigInsert(t)
    PROVE  /\ trig[t].pc = "insert" /\ UNCHANGED task
           /\ \A u \in Triggers \ {t} : trig'[u] = trig[u]
           /\ trig'[t].pc = "publish" /\ trig'[t].rev = trig[t].rev
           /\ Taken(trig[t].rev) = {} => trig'[t].key = t
  <1>0. trig[t] \in Trigger
    BY DEF TypeOK
  <1>1. PICK k : /\ trig' = [trig EXCEPT ![t] = [trig[t] EXCEPT !.pc = "publish",
                                                               !.key = k]]
                 /\ Taken(trig[t].rev) = {} => k = t
    <2>1. CASE Taken(trig[t].rev) = {}
      BY <2>1 DEF TrigInsert, Advance
    <2>2. CASE Taken(trig[t].rev) # {}
      <3>1. PICK k \in Taken(trig[t].rev) :
              Advance(t, [trig[t] EXCEPT !.pc = "publish", !.key = k])
        BY <2>2 DEF TrigInsert
      <3>2. QED
        BY <2>2, <3>1 DEF Advance
    <2>3. QED
      BY <2>1, <2>2
  <1> DEFINE new == [trig[t] EXCEPT !.pc = "publish", !.key = k]
  <1>2. new.pc = "publish" /\ new.rev = trig[t].rev /\ new.key = k
    BY <1>0 DEF Trigger
  <1> HIDE DEF new
  <1>3. trig'[t] = new /\ \A u \in Triggers \ {t} : trig'[u] = trig[u]
    BY <1>1 DEF TypeOK, new
  <1>4. QED
    BY <1>1, <1>2, <1>3 DEF TrigInsert

\* What a step of a trigger does to the triggers: it begins with a revision that
\* nobody has had, or goes on with the one it has.
LEMMA TriggerMoves ==
    ASSUME TypeOK, NEW t \in Triggers, TrigBegin(t) \/ TrigStep(t) \/ TrigFail(t)
    PROVE  /\ \A u \in Triggers \ {t} : trig'[u] = trig[u]
           /\ trig'[t].pc # "idle"
           /\ \/ /\ trig[t].pc = "idle" /\ trig'[t].pc = "sync"
                 /\ task'.rev = task.rev + 1 /\ trig'[t].rev = task'.rev
              \/ /\ trig[t].pc # "idle"
                 /\ task'.rev = task.rev /\ trig'[t].rev = trig[t].rev
           /\ trig[t].pc \in {"publish", "done"} =>
                 trig'[t].pc = "done" /\ trig'[t].key = trig[t].key
  <1>0. trig[t] \in Trigger /\ task \in Task
    BY DEF TypeOK
  <1>1. CASE TrigBegin(t)
    <2>1. PICK tree \in Trees :
            /\ task' = [rev |-> task.rev + 1, state |-> "PREPARING", tree |-> tree,
                        auto |-> FALSE]
            /\ Advance(t, [trig[t] EXCEPT !.pc = "sync", !.rev = task.rev + 1,
                                          !.tree = tree, !.prev = task.state])
      BY <1>1 DEF TrigBegin
    <2> DEFINE new == [trig[t] EXCEPT !.pc = "sync", !.rev = task.rev + 1,
                                      !.tree = tree, !.prev = task.state]
    <2>2. new.pc = "sync" /\ new.rev = task.rev + 1
      BY <1>0 DEF Trigger
    <2>3. trig' = [trig EXCEPT ![t] = new]
      BY <2>1 DEF Advance
    <2>4. task'.rev = task.rev + 1 /\ trig[t].pc = "idle"
      BY <1>1, <2>1 DEF TrigBegin
    <2> HIDE DEF new
    <2>5. trig'[t] = new /\ \A u \in Triggers \ {t} : trig'[u] = trig[u]
      BY <2>3 DEF TypeOK
    <2>6. QED
      BY <2>2, <2>4, <2>5
  <1>2. CASE TrigSync(t)
    BY <1>0, <1>2 DEF TrigSync, Advance, TypeOK, Trigger
  <1>3. CASE TrigSupersede(t)
    BY <1>0, <1>3 DEF TrigSupersede, Advance, TypeOK, Trigger
  <1>4. CASE TrigInsert(t)
    BY <1>0, <1>4, InsertMoves
  <1>5. CASE TrigFind(t)
    <2>0. trig[t].key \in Triggers \cup {None} /\ trig[t].found \in Status
      BY <1>0 DEF Trigger
    <2>1. PICK pc \in {"publish", "carry"}, k \in Triggers \cup {None}, found \in Status :
            trig' = [trig EXCEPT ![t] = [trig[t] EXCEPT !.pc = pc, !.key = k,
                                                        !.found = found]]
      <3>1. CASE Carriable(t) = {}
        <4>1. trig' = [trig EXCEPT ![t] = [trig[t] EXCEPT !.pc = "publish"]]
          BY <1>5, <3>1 DEF TrigFind, Advance
        <4>2. [trig[t] EXCEPT !.pc = "publish"]
                = [trig[t] EXCEPT !.pc = "publish", !.key = trig[t].key,
                                  !.found = trig[t].found]
          BY <1>0 DEF Trigger
        <4>3. QED
          BY <2>0, <4>1, <4>2
      <3>2. CASE Carriable(t) # {}
        <4>1. PICK k \in Carriable(t) :
                Advance(t, [trig[t] EXCEPT !.pc = "carry", !.key = k,
                                           !.found = snaps[k].status])
          BY <1>5, <3>2 DEF TrigFind
        <4>2. k \in Triggers /\ snaps[k].status \in Status
          BY <1>0 DEF Carriable, TypeOK, Snap
        <4>3. QED
          BY <4>1, <4>2 DEF Advance
      <3>3. QED
        BY <3>1, <3>2
    <2> DEFINE new == [trig[t] EXCEPT !.pc = pc, !.key = k, !.found = found]
    <2>2. new.pc = pc /\ new.rev = trig[t].rev
      BY <1>0 DEF Trigger
    <2> HIDE DEF new
    <2>3. trig'[t] = new /\ \A u \in Triggers \ {t} : trig'[u] = trig[u]
      BY <2>1 DEF TypeOK, new
    <2>4. QED
      BY <1>5, <2>2, <2>3 DEF TrigFind
  <1>6. CASE TrigCarry(t)
    BY <1>0, <1>6 DEF TrigCarry, Advance, TypeOK, Trigger
  <1>7. CASE TrigPublish(t)
    <2>1. task'.rev = task.rev
      BY <1>0, <1>7 DEF TrigPublish, Task
    <2>2. QED
      BY <1>0, <1>7, <2>1 DEF TrigPublish, Advance, TypeOK, Trigger
  <1>8. CASE TrigFail(t)
    <2>1. task'.rev = task.rev
      BY <1>0, <1>8 DEF TrigFail, Task
    <2>2. QED
      BY <1>0, <1>8, <2>1 DEF TrigFail, Advance, TypeOK, Trigger
  <1>9. QED
    BY <1>1, <1>2, <1>3, <1>4, <1>5, <1>6, <1>7, <1>8 DEF TrigStep

\* What a step of a trigger does to the revisions of the snapshots: it leaves
\* them alone, or gives its own to the snapshot it creates or carries forward.
LEMMA TriggerStamps ==
    ASSUME TypeOK, KeyInv, NEW t \in Triggers,
           TrigBegin(t) \/ TrigStep(t) \/ TrigFail(t), NEW k \in Triggers
    PROVE  \/ snaps'[k].rev = snaps[k].rev
           \/ /\ snaps'[k].rev = trig[t].rev
              /\ trig'[t].pc = "publish" /\ trig'[t].key = k
  <1>0. trig[t] \in Trigger /\ snaps[k] \in Snap
    BY DEF TypeOK
  <1>1. CASE TrigSupersede(t)
    BY <1>0, <1>1 DEF TrigSupersede, Superseded, Snap
  <1>2. CASE TrigInsert(t)
    <2>1. CASE Taken(trig[t].rev) = {}
      <3>1. snaps'[k] = IF k = t
                          THEN [rev |-> trig[t].rev, status |-> "pending",
                                refs |-> {b \in trig[t].changed : FilePresent(b, code)},
                                removed |-> trig[t].removed, copy |-> NoCopy]
                          ELSE snaps[k]
        BY <1>2, <2>1 DEF TrigInsert, TypeOK
      <3>2. trig'[t].pc = "publish" /\ trig'[t].key = t
        BY <1>2, <2>1, InsertMoves
      <3>3. QED
        BY <3>1, <3>2
    <2>2. CASE Taken(trig[t].rev) # {}
      BY <1>2, <2>2 DEF TrigInsert
    <2>3. QED
      BY <2>1, <2>2
  <1>3. CASE TrigCarry(t)
    <2> DEFINE l == trig[t].key
               status == IF trig[t].found = "pending" THEN snaps[l].status ELSE "pending"
    <2>1. snaps' = [snaps EXCEPT ![l].rev = trig[t].rev, ![l].status = status]
      BY <1>3 DEF TrigCarry
    <2>2. l \in Triggers
      BY <1>3 DEF TrigCarry, KeyInv
    <2>3. trig'[t].pc = "publish" /\ trig'[t].key = l
      BY <1>0, <1>3 DEF TrigCarry, Advance, TypeOK, Trigger
    <2> HIDE DEF l, status
    <2>4. snaps'[k].rev = IF k = l THEN trig[t].rev ELSE snaps[k].rev
      BY <1>0, <2>1, <2>2 DEF TypeOK, Snap
    <2>5. QED
      BY <2>3, <2>4
  <1>4. CASE ~TrigSupersede(t) /\ ~TrigInsert(t) /\ ~TrigCarry(t)
    <2>1. UNCHANGED snaps
      BY <1>4 DEF TrigBegin, TrigStep, TrigSync, TrigFind, TrigPublish, TrigFail
    <2>2. QED
      BY <2>1
  <1>5. QED
    BY <1>1, <1>2, <1>3, <1>4

\* The steps of a trigger keep the revisions of the triggers apart, and with them
\* those of the snapshots.
LEMMA TriggerRevisions ==
    ASSUME IInv, NEW t \in Triggers, TrigBegin(t) \/ TrigStep(t) \/ TrigFail(t)
    PROVE  RevisionInv' /\ OwnerInv'
  <1>0. /\ \A u \in Triggers : trig[u].rev \in Nat
        /\ task.rev \in Nat
        /\ TypeOK /\ KeyInv /\ RevisionInv /\ OwnerInv
    BY DEF IInv, TypeOK, Trigger, Task
  <1>1. /\ \A u \in Triggers \ {t} : trig'[u] = trig[u]
        /\ trig'[t].pc # "idle"
        /\ \/ /\ trig[t].pc = "idle" /\ trig'[t].pc = "sync"
              /\ task'.rev = task.rev + 1 /\ trig'[t].rev = task'.rev
           \/ /\ trig[t].pc # "idle"
              /\ task'.rev = task.rev /\ trig'[t].rev = trig[t].rev
        /\ trig[t].pc \in {"publish", "done"} =>
              trig'[t].pc = "done" /\ trig'[t].key = trig[t].key
    BY <1>0, TriggerMoves
  <1>2. RevisionInv'
    BY <1>0, <1>1 DEF RevisionInv
  <1>3. ASSUME NEW k \in Triggers, Exists(k)'
        PROVE  \E u \in Triggers : /\ trig'[u].pc \in {"publish", "done"}
                                   /\ trig'[u].rev = snaps'[k].rev
                                   /\ trig'[u].key = k
    <2>1. CASE snaps'[k].rev = snaps[k].rev
      <3>1. PICK u \in Triggers : /\ trig[u].pc \in {"publish", "done"}
                                  /\ trig[u].rev = snaps[k].rev
                                  /\ trig[u].key = k
        BY <1>0, <1>3, <2>1 DEF OwnerInv, Exists
      <3>2. CASE u = t
        BY <1>1, <2>1, <3>1, <3>2
      <3>3. CASE u # t
        BY <1>1, <2>1, <3>1, <3>3
      <3>4. QED
        BY <3>2, <3>3
    <2>2. CASE /\ snaps'[k].rev = trig[t].rev
               /\ trig'[t].pc = "publish" /\ trig'[t].key = k
      <3>1. trig'[t].rev = trig[t].rev
        BY <1>1, <2>2
      <3>2. QED
        BY <2>2, <3>1
    <2>3. QED
      BY <1>0, <2>1, <2>2, TriggerStamps
  <1>4. QED
    BY <1>2, <1>3 DEF OwnerInv

\* A checkpoint and the worker leave every revision alone.
LEMMA OtherRevisions ==
    ASSUME IInv,
           \/ \E a \in Actors : CkStep(a)
           \/ Claim \/ RunStep \/ Preempt \/ Crash
    PROVE  RevisionInv' /\ OwnerInv'
  <1>0. /\ TypeOK /\ KeyInv /\ RevisionInv /\ OwnerInv
        /\ task \in Task
    BY DEF IInv, TypeOK
  <1>1. UNCHANGED trig
    BY DEF CkStep, CkLoad, CkCopy, CkSave, Claim, RunStep, RunStart, RunSync,
           RunReview, RunStore, RunRaise, RunFinish, RunStopped, RunFail,
           RunInterrupted, RunClose, Preempt, Crash
  <1>2. task'.rev = task.rev
    <2>1. CASE UNCHANGED task
      BY <2>1
    <2>2. CASE \/ Claim \/ RunFinish \/ RunInterrupted \/ RunFail
      <3>1. CASE Claim
        BY <1>0, <3>1 DEF Task, Claim
      <3>2. CASE RunFinish
        <4>1. UNCHANGED task \/ \E state, auto :
                 task' = [task EXCEPT !.state = state, !.auto = auto]
          BY <3>2 DEF RunFinish
        <4>2. QED
          BY <1>0, <4>1 DEF Task
      <3>3. CASE RunInterrupted
        BY <1>0, <3>3 DEF Task, RunInterrupted
      <3>4. CASE RunFail
        BY <1>0, <3>4 DEF Task, RunFail
      <3>5. QED
        BY <2>2, <3>1, <3>2, <3>3, <3>4
    <2>3. QED
      BY <2>1, <2>2 DEF CkStep, CkLoad, CkCopy, CkSave, RunStep, RunStart, RunSync,
                        RunReview, RunStore, RunRaise, RunStopped, RunClose,
                        Preempt, Crash
  <1>3. ASSUME NEW k \in Triggers
        PROVE  snaps'[k].rev = snaps[k].rev
    <2>0. snaps[k] \in Snap
      BY <1>0 DEF TypeOK
    <2>1. CASE UNCHANGED snaps
      BY <2>1
    <2>2. ASSUME NEW a \in Actors, CkCopy(a) \/ CkSave(a)
          PROVE  snaps'[k].rev = snaps[k].rev
      <3>1. CASE CkCopy(a)
        <4> DEFINE copy == Copied(snaps[ck[a].key])
        <4>1. snaps' = [snaps EXCEPT ![ck[a].key].copy = copy]
          BY <3>1 DEF CkCopy
        <4> HIDE DEF copy
        <4>2. QED
          BY <1>0, <2>0, <4>1 DEF TypeOK, Snap
      <3>2. CASE CkSave(a)
        BY <1>0, <2>0, <3>2 DEF CkSave, TypeOK, Snap
      <3>3. QED
        BY <2>2, <3>1, <3>2
    <2>3. QED
      BY <2>1, <2>2 DEF CkStep, CkLoad, Claim, RunStep, RunStart, RunSync,
                        RunReview, RunStore, RunRaise, RunFinish, RunStopped,
                        RunFail, RunInterrupted, RunClose, Preempt, Crash
  <1>4. QED
    BY <1>0, <1>1, <1>2, <1>3 DEF RevisionInv, OwnerInv, Exists

-----------------------------------------------------------------------------
(* The invariant *)

\* Before the second trigger there is no snapshot.
LEMMA InitInvariant == Init => IInv
  <1> SUFFICES ASSUME Init
               PROVE  IInv
    OBVIOUS
  <1>1. TypeOK
    <2>1. task \in Task
      BY DEF Init, Task, TaskState
    <2>2. code \in [Blocks -> Result]
      BY DEF Init, Result
    <2>3. QED
      BY <2>1, <2>2, EmptyTypes DEF Init, TypeOK, Actors
  <1>2. RevisionInv /\ OwnerInv /\ KeyInv
    BY DEF Init, RevisionInv, OwnerInv, KeyInv, Exists, NoSnap, NewTrigger,
           NoCheckpoint
  <1>3. QED
    BY <1>1, <1>2 DEF IInv

\* Every step keeps the invariant.
LEMMA NextInvariant == IInv /\ [Next]_vars => IInv'
  <1> SUFFICES ASSUME IInv, [Next]_vars
               PROVE  IInv'
    OBVIOUS
  <1>0. TypeOK /\ KeyInv
    BY DEF IInv
  <1>1. CASE UNCHANGED vars
    BY <1>1 DEF vars, IInv, TypeOK, RevisionInv, OwnerInv, KeyInv, Exists
  <1>2. ASSUME NEW t \in Triggers, TrigBegin(t) \/ TrigStep(t) \/ TrigFail(t)
        PROVE  IInv'
    BY <1>0, <1>2, TriggerTypes, TriggerRevisions DEF IInv
  <1>3. ASSUME NEW a \in Actors, CkStep(a)
        PROVE  IInv'
    BY <1>0, <1>3, CheckpointTypes, OtherRevisions DEF IInv
  <1>4. CASE Claim \/ RunStep \/ Preempt \/ Crash
    BY <1>0, <1>4, WorkerTypes, OtherRevisions DEF IInv
  <1>5. QED
    BY <1>1, <1>2, <1>3, <1>4 DEF Next

\* Triggers keep revisions of their own, and every snapshot has the revision of
\* the trigger that last created it or carried it forward.
THEOREM SnapshotInvariant == Spec => []IInv
  BY InitInvariant, NextInvariant, PTL DEF Spec

\* A revision that somebody is about to give to a snapshot has no snapshot yet.
LEMMA FreeFromInvariant == IInv => RevisionIsFree
  <1> SUFFICES ASSUME IInv, NEW t \in Triggers, trig[t].pc \in {"insert", "carry"},
                      NEW k \in Taken(trig[t].rev)
               PROVE  FALSE
    BY DEF RevisionIsFree
  <1>1. trig[t].rev > 0 /\ trig[t].rev \in Nat
    BY DEF IInv, RevisionInv, TypeOK, Trigger
  <1>2. k \in Triggers /\ snaps[k].rev = trig[t].rev
    BY DEF Taken
  <1>3. PICK u \in Triggers : /\ trig[u].pc \in {"publish", "done"}
                              /\ trig[u].rev = trig[t].rev
    BY <1>1, <1>2 DEF IInv, OwnerInv, Exists
  <1>4. u = t
    BY <1>1, <1>3 DEF IInv, RevisionInv
  <1>5. QED
    BY <1>3, <1>4

\* The unique index on the revision of a snapshot never rejects anything, so the
\* NotUniqueError branch of create is dead code and carry_forward never fails.
THEOREM RevisionIsFreeHolds == Spec => []RevisionIsFree
  BY SnapshotInvariant, FreeFromInvariant, PTL

-----------------------------------------------------------------------------
(* The helpers *)

\* A synchronization leaves the blocks of its workspace.
LEMMA SyncedPresent ==
    ASSUME TypeOK, NEW tree \in SUBSET Blocks
    PROVE  /\ {b \in Blocks : Synced(tree)[b] # "absent"} = tree
           /\ \A b \in Blocks : code[b] = "completed" /\ b \in tree
                                  => Synced(tree)[b] = "completed"
  BY DEF Synced

\* A second synchronization with the same workspace changes nothing.
LEMMA SyncedSame ==
    ASSUME TypeOK, Present \subseteq task.tree, task.tree \subseteq Present
    PROVE  Synced(task.tree) = code
  BY DEF TypeOK, Synced, Present, Task

\* What is copied: the stored blocks among those the snapshot refers to.
LEMMA CopiedRefs ==
    ASSUME TypeOK, NEW snap \in Snap, NEW b \in Blocks
    PROVE  /\ b \in snap.refs /\ code[b] # "absent" => Copied(snap)[b] = code[b]
           /\ b \in snap.refs /\ code[b] = "absent" =>
                 Copied(snap)[b] \in {"absent", snap.copy[b]}
           /\ b \notin snap.refs => Copied(snap)[b] \in {"absent", snap.copy[b]}
  <1>1. b \in FileMates(b)
    BY DEF FileMates, BlocksOf
  <1>2. QED
    BY <1>1 DEF Copied

\* Copying once more changes nothing.
LEMMA CopiedTwice ==
    ASSUME TypeOK, NEW snap \in Snap, NEW other \in Snap,
           other.refs = snap.refs, other.copy = Copied(snap)
    PROVE  Copied(other) = Copied(snap)
  BY DEF Copied

\* A snapshot is only completed when nothing it holds is left to be done, and one
\* without blocks only by the last checkpoint of a completed task.
LEMMA AggregateCompleted ==
    ASSUME NEW copy \in [Blocks -> Result], NEW removed, NEW parent, NEW finalize,
           Aggregate(copy, removed, parent, finalize) = "completed"
    PROVE  /\ \A b \in Blocks : copy[b] \in {"absent", "completed"}
           /\ (\A b \in Blocks : copy[b] = "absent") => finalize /\ parent = "COMPLETED"
  BY DEF Aggregate, Result

\* A snapshot is completed when all of its blocks are.
LEMMA AggregateSettles ==
    ASSUME NEW copy \in [Blocks -> Result], NEW removed, NEW parent, NEW finalize,
           \A b \in Blocks : copy[b] \in {"absent", "completed"},
           \/ \E b \in Blocks : copy[b] # "absent"
           \/ removed /\ finalize /\ parent = "COMPLETED"
    PROVE  Aggregate(copy, removed, parent, finalize) = "completed"
  <1> DEFINE blocks == {b \in Blocks : copy[b] # "absent"}
             pending == {b \in blocks : copy[b] = "pending"}
             failed == {b \in blocks : copy[b] = "failed"}
  <1>1. failed \cup pending = {} /\ pending = {} /\ failed = {}
    OBVIOUS
  <1>2. blocks # {} \/ (blocks = {} /\ removed /\ finalize /\ parent = "COMPLETED")
    OBVIOUS
  <1>3. QED
    BY <1>1, <1>2 DEF Aggregate

\* A checkpoint never supersedes.
LEMMA AggregateOpen ==
    ASSUME NEW copy, NEW removed, NEW parent, NEW finalize
    PROVE  Aggregate(copy, removed, parent, finalize) # "superseded"
  BY DEF Aggregate

-----------------------------------------------------------------------------
(* Revisions *)

\* No two snapshots have the same revision, and none is newer than the task.
LEMMA SameRevision ==
    ASSUME IInv
    PROVE  /\ \A k, l \in Triggers : Exists(k) /\ snaps[k].rev = snaps[l].rev => k = l
           /\ \A k \in Triggers : snaps[k].rev \in Nat /\ snaps[k].rev <= task.rev
           /\ task.rev \in Nat
  <1>0. /\ task.rev \in Nat
        /\ \A k \in Triggers : snaps[k].rev \in Nat /\ trig[k].rev \in Nat
    BY DEF IInv, TypeOK, Task, Snap, Trigger
  <1>1. ASSUME NEW k \in Triggers, NEW l \in Triggers, Exists(k),
               snaps[k].rev = snaps[l].rev
        PROVE  k = l
    <2>1. PICK u \in Triggers : trig[u].rev = snaps[k].rev /\ trig[u].key = k
      BY <1>1 DEF IInv, OwnerInv
    <2>2. PICK v \in Triggers : trig[v].rev = snaps[l].rev /\ trig[v].key = l
      BY <1>1 DEF IInv, OwnerInv, Exists
    <2>3. u = v
      BY <1>0, <1>1, <2>1, <2>2 DEF IInv, RevisionInv, Exists
    <2>4. QED
      BY <2>1, <2>2, <2>3
  <1>2. ASSUME NEW k \in Triggers
        PROVE  snaps[k].rev <= task.rev
    <2>1. CASE Exists(k)
      BY <1>0, <2>1 DEF IInv, OwnerInv, RevisionInv
    <2>2. CASE ~Exists(k)
      BY <1>0, <2>2 DEF Exists
    <2>3. QED
      BY <2>1, <2>2
  <1>3. QED
    BY <1>0, <1>1, <1>2

\* Until a submission has put its snapshot in place, its revision has none.
LEMMA NoneYet ==
    ASSUME IInv, NEW t \in Triggers,
           trig[t].pc \in {"sync", "supersede", "insert", "find", "carry"}
    PROVE  \A k \in Triggers : snaps[k].rev # trig[t].rev
  <1> SUFFICES ASSUME NEW k \in Triggers, snaps[k].rev = trig[t].rev
               PROVE  FALSE
    OBVIOUS
  <1>1. trig[t].rev > 0 /\ trig[t].rev \in Nat
    BY DEF IInv, RevisionInv, TypeOK, Trigger
  <1>2. PICK u \in Triggers : /\ trig[u].pc \in {"publish", "done"}
                              /\ trig[u].rev = trig[t].rev
    BY <1>1 DEF IInv, OwnerInv, Exists
  <1>3. u = t
    BY <1>1, <1>2 DEF IInv, RevisionInv
  <1>4. QED
    BY <1>2, <1>3

\* At most one submission is in progress at the revision of the task.
LEMMA Alone ==
    ASSUME IInv, OneInv, NEW t \in Triggers, NEW u \in Triggers,
           InProgress(t), InProgress(u)
    PROVE  t = u
  <1>1. trig[t].rev = task.rev /\ trig[u].rev = task.rev /\ trig[t].rev > 0
    BY DEF OneInv, IInv, RevisionInv, InProgress
  <1>2. QED
    BY <1>1 DEF IInv, RevisionInv

-----------------------------------------------------------------------------
(* What the steps of a trigger do *)

\* A submission begins with the next revision; an overlap is a race.
LEMMA BeginEffect ==
    ASSUME IInv, NEW t \in Triggers, TrigBegin(t)
    PROVE  /\ trig[t].pc = "idle"
           /\ task'.rev = task.rev + 1 /\ task'.state = "PREPARING"
           /\ trig'[t].pc = "sync" /\ trig'[t].rev = task'.rev
           /\ trig'[t].tree = task'.tree /\ trig'[t].prev = task.state
           /\ \A u \in Triggers \ {t} : trig'[u] = trig[u]
           /\ UNCHANGED <<code, snaps, run, ck>>
           /\ races \subseteq races'
           /\ "overlap" \notin races' => \A u \in Triggers : ~InProgress(u)
  <1>0. trig[t] \in Trigger /\ trig \in [Triggers -> Trigger]
    BY DEF IInv, TypeOK
  <1>1. PICK tree \in Trees :
          /\ task' = [rev |-> task.rev + 1, state |-> "PREPARING", tree |-> tree,
                      auto |-> FALSE]
          /\ Advance(t, [trig[t] EXCEPT !.pc = "sync", !.rev = task.rev + 1,
                                        !.tree = tree, !.prev = task.state])
    BY DEF TrigBegin
  <1> DEFINE new == [trig[t] EXCEPT !.pc = "sync", !.rev = task.rev + 1,
                                    !.tree = tree, !.prev = task.state]
  <1>2. /\ new.pc = "sync" /\ new.rev = task.rev + 1 /\ new.tree = tree
        /\ new.prev = task.state
    BY <1>0 DEF Trigger
  <1>3. trig' = [trig EXCEPT ![t] = new]
    BY <1>1 DEF Advance
  <1> HIDE DEF new
  <1>4. trig'[t] = new /\ \A u \in Triggers \ {t} : trig'[u] = trig[u]
    BY <1>0, <1>3
  <1>5. /\ races \subseteq races'
        /\ "overlap" \notin races' => \A u \in Triggers : ~InProgress(u)
    BY DEF TrigBegin, Note
  <1>6. trig[t].pc = "idle" /\ UNCHANGED <<code, snaps, run, ck>>
    BY DEF TrigBegin
  <1>7. QED
    BY <1>1, <1>2, <1>4, <1>5, <1>6

\* It synchronizes the files with its workspace, and has work to do unless nothing
\* is new, unfinished or removed.
LEMMA SyncEffect ==
    ASSUME IInv, NEW t \in Triggers, TrigSync(t)
    PROVE  /\ trig[t].pc = "sync"
           /\ code' = Synced(trig[t].tree)
           /\ trig'[t].pc \in {"supersede", "find"}
           /\ trig'[t].rev = trig[t].rev /\ trig'[t].tree = trig[t].tree
           /\ trig'[t].prev = trig[t].prev /\ trig'[t].key = trig[t].key
           /\ trig'[t].pc = "supersede" =>
                 /\ trig'[t].changed \subseteq trig[t].tree
                 /\ trig'[t].changed # {} \/ trig'[t].removed
                 /\ trig'[t].work
           /\ ~trig'[t].work =>
                 /\ trig[t].prev = "COMPLETED"
                 /\ \A b \in trig[t].tree : code[b] = "completed"
           /\ \A u \in Triggers \ {t} : trig'[u] = trig[u]
           /\ UNCHANGED <<task, snaps, run, ck>>
           /\ races \subseteq races'
           /\ "late" \notin races' => trig[t].rev = task.rev
  <1>0. trig[t] \in Trigger /\ trig \in [Triggers -> Trigger]
    BY DEF IInv, TypeOK
  <1> DEFINE tree == trig[t].tree
             changed == ChangedBlocks(tree)
             removed == SomeFileRemoved(tree)
             work == \/ \E b \in tree : code[b] # "completed"
                     \/ trig[t].prev # "COMPLETED"
                     \/ removed
             next == IF changed # {} \/ removed THEN "supersede" ELSE "find"
             new == [trig[t] EXCEPT !.pc = next, !.changed = changed,
                                    !.removed = removed, !.work = work]
  <1>1. code' = Synced(tree) /\ trig' = [trig EXCEPT ![t] = new]
    BY DEF TrigSync, Advance
  <1>2. /\ next \in {"supersede", "find"}
        /\ next = "supersede" => changed # {} \/ removed
    OBVIOUS
  <1>3. changed \subseteq tree /\ (changed # {} => \E b \in tree : code[b] # "completed")
    BY DEF ChangedBlocks
  <1>4. removed \in BOOLEAN /\ work \in BOOLEAN
    BY DEF SomeFileRemoved
  <1>5. changed # {} \/ removed => work
    BY <1>3
  <1>6. ~work => /\ trig[t].prev = "COMPLETED"
                 /\ \A b \in tree : code[b] = "completed"
    OBVIOUS
  <1> HIDE DEF next, changed, removed, work
  <1>7. /\ new.pc = next /\ new.changed = changed /\ new.removed = removed
        /\ new.work = work /\ new.rev = trig[t].rev /\ new.tree = tree
        /\ new.prev = trig[t].prev /\ new.key = trig[t].key
    BY <1>0 DEF Trigger
  <1> HIDE DEF new
  <1>8. trig'[t] = new /\ \A u \in Triggers \ {t} : trig'[u] = trig[u]
    BY <1>0, <1>1
  <1>9. /\ races \subseteq races'
        /\ "late" \notin races' => trig[t].rev = task.rev
    BY DEF TrigSync, Note
  <1>10. trig[t].pc = "sync" /\ UNCHANGED <<task, snaps, run, ck>>
    BY DEF TrigSync
  <1>11. /\ trig'[t].pc \in {"supersede", "find"}
         /\ trig'[t].rev = trig[t].rev /\ trig'[t].tree = trig[t].tree
         /\ trig'[t].prev = trig[t].prev /\ trig'[t].key = trig[t].key
    BY <1>2, <1>7, <1>8
  <1>12. trig'[t].pc = "supersede" =>
                 /\ trig'[t].changed \subseteq trig[t].tree
                 /\ trig'[t].changed # {} \/ trig'[t].removed
                 /\ trig'[t].work
    BY <1>2, <1>3, <1>5, <1>7, <1>8, Zenon
  <1>13. ~trig'[t].work =>
                 /\ trig[t].prev = "COMPLETED"
                 /\ \A b \in trig[t].tree : code[b] = "completed"
    BY <1>6, <1>7, <1>8, Zenon
  <1>14. QED
    BY <1>1, <1>8, <1>9, <1>10, <1>11, <1>12, <1>13

\* A step of a trigger that only moves its program counter.
LEMMA AdvancePC ==
    ASSUME TypeOK, NEW t \in Triggers, NEW pc, Advance(t, [trig[t] EXCEPT !.pc = pc])
    PROVE  /\ trig'[t].pc = pc
           /\ trig'[t].rev = trig[t].rev /\ trig'[t].tree = trig[t].tree
           /\ trig'[t].prev = trig[t].prev /\ trig'[t].changed = trig[t].changed
           /\ trig'[t].removed = trig[t].removed
           /\ trig'[t].work = trig[t].work /\ trig'[t].key = trig[t].key
           /\ \A u \in Triggers \ {t} : trig'[u] = trig[u]
  <1>0. trig[t] \in Trigger /\ trig \in [Triggers -> Trigger]
    BY DEF TypeOK
  <1> DEFINE new == [trig[t] EXCEPT !.pc = pc]
  <1>1. /\ new.pc = pc /\ new.rev = trig[t].rev /\ new.tree = trig[t].tree
        /\ new.prev = trig[t].prev /\ new.changed = trig[t].changed
        /\ new.removed = trig[t].removed /\ new.work = trig[t].work
        /\ new.key = trig[t].key
    BY <1>0 DEF Trigger
  <1>2. trig' = [trig EXCEPT ![t] = new]
    BY DEF Advance
  <1> HIDE DEF new
  <1>3. trig'[t] = new /\ \A u \in Triggers \ {t} : trig'[u] = trig[u]
    BY <1>0, <1>2
  <1>4. QED
    BY <1>1, <1>3, Zenon

\* It supersedes the open snapshots of older revisions.
LEMMA SupersedeEffect ==
    ASSUME IInv, NEW t \in Triggers, TrigSupersede(t)
    PROVE  /\ trig[t].pc = "supersede" /\ trig'[t].pc = "insert"
           /\ trig'[t].rev = trig[t].rev /\ trig'[t].tree = trig[t].tree
           /\ trig'[t].prev = trig[t].prev /\ trig'[t].changed = trig[t].changed
           /\ trig'[t].removed = trig[t].removed
           /\ trig'[t].work = trig[t].work /\ trig'[t].key = trig[t].key
           /\ \A u \in Triggers \ {t} : trig'[u] = trig[u]
           /\ \A k \in Triggers :
                 /\ snaps'[k].rev = snaps[k].rev /\ snaps'[k].refs = snaps[k].refs
                 /\ snaps'[k].removed = snaps[k].removed
                 /\ snaps'[k].copy = snaps[k].copy
                 /\ Open(k) /\ snaps[k].rev < trig[t].rev =>
                       snaps'[k].status = "superseded"
                 /\ ~(Open(k) /\ snaps[k].rev < trig[t].rev) => snaps'[k] = snaps[k]
           /\ UNCHANGED <<task, code, run, ck, races>>
  <1>0. TypeOK /\ snaps \in [Triggers -> Snap]
    BY DEF IInv, TypeOK
  <1>1. Advance(t, [trig[t] EXCEPT !.pc = "insert"])
    BY DEF TrigSupersede
  <1>2. ASSUME NEW k \in Triggers
        PROVE  /\ snaps'[k].rev = snaps[k].rev /\ snaps'[k].refs = snaps[k].refs
               /\ snaps'[k].removed = snaps[k].removed
               /\ snaps'[k].copy = snaps[k].copy
               /\ Open(k) /\ snaps[k].rev < trig[t].rev => snaps'[k].status = "superseded"
               /\ ~(Open(k) /\ snaps[k].rev < trig[t].rev) => snaps'[k] = snaps[k]
    <2>1. snaps[k] \in Snap /\ snaps'[k] = Superseded(k, trig[t].rev)
      BY <1>0 DEF TrigSupersede
    <2>2. CASE Open(k) /\ snaps[k].rev < trig[t].rev
      <3>1. snaps'[k] = [snaps[k] EXCEPT !.status = "superseded"]
        BY <2>1, <2>2 DEF Superseded
      <3>2. QED
        BY <2>1, <2>2, <3>1 DEF Snap
    <2>3. CASE ~(Open(k) /\ snaps[k].rev < trig[t].rev)
      BY <2>1, <2>3 DEF Superseded
    <2>4. QED
      BY <2>2, <2>3
  <1>3. trig[t].pc = "supersede" /\ UNCHANGED <<task, code, run, ck, races>>
    BY DEF TrigSupersede
  <1>4. QED
    BY <1>0, <1>1, <1>2, <1>3, AdvancePC

\* The checkpoint of its own snapshot that a trigger begins.
LEMMA CheckpointOfEffect ==
    ASSUME TypeOK, NEW t \in Triggers, NEW k \in Triggers, CheckpointOf(t, k)
    PROVE  /\ ck'[t].pc = "copy" /\ ck'[t].rev = trig[t].rev
           /\ ck'[t].parent = "PREPARING" /\ ck'[t].finalize = FALSE
           /\ ck'[t].key = k /\ ck'[t].new = "pending"
           /\ \A a \in Actors \ {t} : ck'[a] = ck[a]
  <1> DEFINE c == [NoCheckpoint EXCEPT !.pc = "copy", !.rev = trig[t].rev,
                                       !.parent = "PREPARING", !.key = k]
  <1>1. /\ c.pc = "copy" /\ c.rev = trig[t].rev /\ c.parent = "PREPARING"
        /\ c.finalize = FALSE /\ c.key = k /\ c.new = "pending"
    BY DEF NoCheckpoint
  <1>2. ck' = [ck EXCEPT ![t] = c] /\ t \in Actors /\ ck \in [Actors -> Checkpoint]
    BY DEF CheckpointOf, Actors, TypeOK
  <1> HIDE DEF c
  <1>3. ck'[t] = c /\ \A a \in Actors \ {t} : ck'[a] = ck[a]
    BY <1>2
  <1>4. QED
    BY <1>1, <1>3, Zenon

\* It inserts its snapshot: what becomes of the trigger.
LEMMA InsertTrigger ==
    ASSUME IInv, NEW t \in Triggers, TrigInsert(t)
    PROVE  /\ trig[t].pc = "insert" /\ trig'[t].pc = "publish"
           /\ trig'[t].rev = trig[t].rev /\ trig'[t].tree = trig[t].tree
           /\ trig'[t].prev = trig[t].prev /\ trig'[t].work = trig[t].work
           /\ \A u \in Triggers \ {t} : trig'[u] = trig[u]
           /\ \A k \in Triggers : snaps[k].rev # trig[t].rev
           /\ UNCHANGED <<task, code, run, races>>
  <1>0. TypeOK /\ trig[t] \in Trigger /\ trig[t].pc = "insert"
        /\ trig \in [Triggers -> Trigger]
    BY DEF IInv, TypeOK, TrigInsert
  <1>1. Taken(trig[t].rev) = {}
    BY <1>0, FreeFromInvariant DEF RevisionIsFree
  <1> DEFINE new == [trig[t] EXCEPT !.pc = "publish", !.key = t]
  <1>2. trig' = [trig EXCEPT ![t] = new]
    BY <1>1 DEF TrigInsert, Advance
  <1>3. /\ new.pc = "publish" /\ new.rev = trig[t].rev /\ new.tree = trig[t].tree
        /\ new.prev = trig[t].prev /\ new.work = trig[t].work
    BY <1>0 DEF Trigger
  <1> HIDE DEF new
  <1>4. trig'[t] = new /\ \A u \in Triggers \ {t} : trig'[u] = trig[u]
    BY <1>0, <1>2
  <1>5. UNCHANGED <<task, code, run, races>>
    BY DEF TrigInsert
  <1>6. \A k \in Triggers : snaps[k].rev # trig[t].rev
    BY <1>1 DEF Taken
  <1>7. /\ trig'[t].pc = "publish"
        /\ trig'[t].rev = trig[t].rev /\ trig'[t].tree = trig[t].tree
        /\ trig'[t].prev = trig[t].prev /\ trig'[t].work = trig[t].work
    BY <1>3, <1>4, Zenon
  <1>8. QED
    BY <1>0, <1>4, <1>5, <1>6, <1>7

\* The snapshot refers to the changed blocks that are stored, and is checkpointed.
LEMMA InsertEffect ==
    ASSUME IInv, NEW t \in Triggers, TrigInsert(t)
    PROVE  /\ snaps'[t].rev = trig[t].rev /\ snaps'[t].status = "pending"
           /\ snaps'[t].refs \subseteq trig[t].changed
           /\ \A b \in trig[t].changed : code[b] # "absent" => b \in snaps'[t].refs
           /\ snaps'[t].removed = trig[t].removed
           /\ \A b \in Blocks : snaps'[t].copy[b] = "absent"
           /\ \A k \in Triggers \ {t} : snaps'[k] = snaps[k]
           /\ ck'[t].pc = "copy" /\ ck'[t].rev = trig[t].rev
           /\ ck'[t].parent = "PREPARING" /\ ck'[t].finalize = FALSE
           /\ ck'[t].key = t /\ ck'[t].new = "pending"
           /\ \A a \in Actors \ {t} : ck'[a] = ck[a]
  <1>0. TypeOK /\ trig[t] \in Trigger /\ trig[t].pc = "insert"
        /\ snaps \in [Triggers -> Snap]
    BY DEF IInv, TypeOK, TrigInsert
  <1>1. Taken(trig[t].rev) = {}
    BY <1>0, FreeFromInvariant DEF RevisionIsFree
  <1> DEFINE snap == [rev |-> trig[t].rev, status |-> "pending",
                      refs |-> {b \in trig[t].changed : FilePresent(b, code)},
                      removed |-> trig[t].removed, copy |-> NoCopy]
  <1>2. snaps' = [snaps EXCEPT ![t] = snap] /\ CheckpointOf(t, t)
    BY <1>1 DEF TrigInsert
  <1>3. snaps'[t] = snap /\ \A k \in Triggers \ {t} : snaps'[k] = snaps[k]
    BY <1>0, <1>2
  <1>4. \A b \in Blocks : snaps'[t].copy[b] = "absent"
    BY <1>3 DEF NoCopy
  <1>5. /\ snaps'[t].rev = trig[t].rev /\ snaps'[t].status = "pending"
        /\ snaps'[t].refs = {b \in trig[t].changed : FilePresent(b, code)}
        /\ snaps'[t].removed = trig[t].removed
    BY <1>3
  <1>6. \A b \in trig[t].changed : code[b] # "absent" => FilePresent(b, code)
    BY <1>0 DEF FilePresent, FileMates, BlocksOf, Trigger
  <1>7. /\ snaps'[t].refs \subseteq trig[t].changed
        /\ \A b \in trig[t].changed : code[b] # "absent" => b \in snaps'[t].refs
    BY <1>5, <1>6
  <1>8. /\ ck'[t].pc = "copy" /\ ck'[t].rev = trig[t].rev
        /\ ck'[t].parent = "PREPARING" /\ ck'[t].finalize = FALSE
        /\ ck'[t].key = t /\ ck'[t].new = "pending"
        /\ \A a \in Actors \ {t} : ck'[a] = ck[a]
    BY <1>0, <1>2, CheckpointOfEffect
  <1> HIDE DEF snap
  <1>9. QED
    BY <1>3, <1>4, <1>5, <1>7, <1>8, Zenon

\* Without changes it looks for the newest open snapshot of an older revision.
LEMMA FindEffect ==
    ASSUME IInv, NEW t \in Triggers, TrigFind(t)
    PROVE  /\ trig[t].pc = "find"
           /\ \/ trig'[t].pc = "publish" /\ Carriable(t) = {}
              \/ /\ trig'[t].pc = "carry" /\ trig'[t].key \in Carriable(t)
                 /\ trig'[t].found = snaps[trig'[t].key].status
           /\ trig'[t].rev = trig[t].rev /\ trig'[t].tree = trig[t].tree
           /\ trig'[t].prev = trig[t].prev /\ trig'[t].work = trig[t].work
           /\ \A u \in Triggers \ {t} : trig'[u] = trig[u]
           /\ UNCHANGED <<task, code, snaps, run, ck, races>>
  <1>0. TypeOK /\ trig[t] \in Trigger /\ trig \in [Triggers -> Trigger]
    BY DEF IInv, TypeOK
  <1>1. CASE Carriable(t) = {}
    BY <1>0, <1>1, AdvancePC DEF TrigFind
  <1>2. CASE Carriable(t) # {}
    <2>1. PICK k \in Carriable(t) :
            Advance(t, [trig[t] EXCEPT !.pc = "carry", !.key = k,
                                       !.found = snaps[k].status])
      BY <1>2 DEF TrigFind
    <2> DEFINE new == [trig[t] EXCEPT !.pc = "carry", !.key = k,
                                      !.found = snaps[k].status]
    <2>2. /\ new.pc = "carry" /\ new.key = k /\ new.found = snaps[k].status
          /\ new.rev = trig[t].rev /\ new.tree = trig[t].tree
          /\ new.prev = trig[t].prev /\ new.work = trig[t].work
      BY <1>0 DEF Trigger
    <2>3. trig' = [trig EXCEPT ![t] = new]
      BY <2>1 DEF Advance
    <2> HIDE DEF new
    <2>4. trig'[t] = new /\ \A u \in Triggers \ {t} : trig'[u] = trig[u]
      BY <1>0, <2>3
    <2>5. trig[t].pc = "find" /\ UNCHANGED <<task, code, snaps, run, ck, races>>
      BY DEF TrigFind
    <2>6. QED
      BY <2>2, <2>4, <2>5, Zenon
  <1>3. QED
    BY <1>1, <1>2

\* It gives the snapshot it found its revision, and checkpoints it.
LEMMA CarryEffect ==
    ASSUME IInv, NEW t \in Triggers, TrigCarry(t)
    PROVE  LET k == trig[t].key
           IN /\ trig[t].pc = "carry" /\ trig'[t].pc = "publish" /\ k \in Triggers
              /\ trig'[t].rev = trig[t].rev /\ trig'[t].tree = trig[t].tree
              /\ trig'[t].prev = trig[t].prev /\ trig'[t].work = trig[t].work
              /\ \A u \in Triggers \ {t} : trig'[u] = trig[u]
              /\ snaps'[k].rev = trig[t].rev
              /\ snaps[k].status = trig[t].found => snaps'[k].status = "pending"
              /\ snaps'[k].refs = snaps[k].refs /\ snaps'[k].removed = snaps[k].removed
              /\ snaps'[k].copy = snaps[k].copy
              /\ \A l \in Triggers \ {k} : snaps'[l] = snaps[l]
              /\ ck'[t].pc = "copy" /\ ck'[t].rev = trig[t].rev
              /\ ck'[t].parent = "PREPARING" /\ ck'[t].finalize = FALSE
              /\ ck'[t].key = k /\ ck'[t].new = "pending"
              /\ \A a \in Actors \ {t} : ck'[a] = ck[a]
              /\ races \subseteq races'
              /\ "vanished" \notin races' =>
                    \A b \in snaps[k].refs : code[b] # "absent"
              /\ UNCHANGED <<task, code, run>>
  <1> DEFINE k == trig[t].key
             status == IF trig[t].found = "pending" THEN snaps[k].status ELSE "pending"
  <1>0. /\ TypeOK /\ trig[t].pc = "carry" /\ k \in Triggers
        /\ snaps \in [Triggers -> Snap] /\ snaps[k] \in Snap
    BY DEF IInv, TypeOK, KeyInv, TrigCarry
  <1>1. snaps[k].status = trig[t].found => status = "pending"
    OBVIOUS
  <1>2. /\ snaps' = [snaps EXCEPT ![k].rev = trig[t].rev, ![k].status = status]
        /\ CheckpointOf(t, k)
        /\ Note("vanished", \E b \in snaps[k].refs : code[b] = "absent")
        /\ Advance(t, [trig[t] EXCEPT !.pc = "publish"])
        /\ UNCHANGED <<task, code, run>>
    BY DEF TrigCarry
  <1> HIDE DEF status
  <1>3. /\ races \subseteq races'
        /\ "vanished" \notin races' => \A b \in snaps[k].refs : code[b] # "absent"
    BY <1>2 DEF Note
  <1> HIDE DEF k
  <1> DEFINE new == [snaps[k] EXCEPT !.rev = trig[t].rev, !.status = status]
  <1>4. /\ new.rev = trig[t].rev /\ new.status = status /\ new.refs = snaps[k].refs
        /\ new.removed = snaps[k].removed /\ new.copy = snaps[k].copy
    BY <1>0 DEF Snap
  <1>5. snaps' = [snaps EXCEPT ![k] = new]
    BY <1>0, <1>2
  <1> HIDE DEF new
  <1>6. snaps'[k] = new /\ \A l \in Triggers \ {k} : snaps'[l] = snaps[l]
    BY <1>0, <1>5
  <1>7. /\ snaps'[k].rev = trig[t].rev
        /\ snaps[k].status = trig[t].found => snaps'[k].status = "pending"
        /\ snaps'[k].refs = snaps[k].refs /\ snaps'[k].removed = snaps[k].removed
        /\ snaps'[k].copy = snaps[k].copy
    BY <1>1, <1>4, <1>6, Zenon
  <1>8. /\ trig'[t].pc = "publish"
        /\ trig'[t].rev = trig[t].rev /\ trig'[t].tree = trig[t].tree
        /\ trig'[t].prev = trig[t].prev /\ trig'[t].work = trig[t].work
        /\ \A u \in Triggers \ {t} : trig'[u] = trig[u]
    BY <1>0, <1>2, AdvancePC
  <1>9. /\ ck'[t].pc = "copy" /\ ck'[t].rev = trig[t].rev
        /\ ck'[t].parent = "PREPARING" /\ ck'[t].finalize = FALSE
        /\ ck'[t].key = k /\ ck'[t].new = "pending"
        /\ \A a \in Actors \ {t} : ck'[a] = ck[a]
    BY <1>0, <1>2, CheckpointOfEffect
  <1>10. QED
    BY <1>0, <1>2, <1>3, <1>6, <1>7, <1>8, <1>9, Zenon DEF k

\* It publishes the task, if that still is its own.
LEMMA PublishEffect ==
    ASSUME IInv, NEW t \in Triggers, TrigPublish(t)
    PROVE  /\ trig[t].pc = "publish" /\ trig'[t].pc = "done" /\ ck[t].pc = "none"
           /\ trig'[t].rev = trig[t].rev
           /\ \A u \in Triggers \ {t} : trig'[u] = trig[u]
           /\ task'.rev = task.rev /\ task'.tree = task.tree
           /\ task.rev # trig[t].rev => task' = task
           /\ task.rev = trig[t].rev =>
                 task'.state = IF trig[t].work THEN "PENDING" ELSE "COMPLETED"
           /\ UNCHANGED <<code, snaps, run, ck, races>>
  <1>1. TypeOK /\ task \in Task /\ Advance(t, [trig[t] EXCEPT !.pc = "done"])
    BY DEF IInv, TypeOK, TrigPublish
  <1>2. /\ task'.rev = task.rev /\ task'.tree = task.tree
        /\ task.rev # trig[t].rev => task' = task
        /\ task.rev = trig[t].rev =>
              task'.state = IF trig[t].work THEN "PENDING" ELSE "COMPLETED"
    BY <1>1 DEF TrigPublish, Task
  <1>3. QED
    BY <1>1, <1>2, AdvancePC DEF TrigPublish

\* It fails before its snapshot is in place, which is a race.
LEMMA FailEffect ==
    ASSUME IInv, NEW t \in Triggers, TrigFail(t)
    PROVE  /\ trig[t].pc \in {"sync", "supersede", "insert", "find", "carry"}
           /\ trig'[t].pc = "done" /\ trig'[t].rev = trig[t].rev
           /\ \A u \in Triggers \ {t} : trig'[u] = trig[u]
           /\ task'.rev = task.rev /\ task'.tree = task.tree
           /\ task.rev # trig[t].rev => task' = task
           /\ task.rev = trig[t].rev => task'.state = "PARTIAL"
           /\ races' = races \cup {"failed_trigger"}
           /\ UNCHANGED <<code, snaps, run, ck>>
  <1>1. TypeOK /\ task \in Task /\ Advance(t, [trig[t] EXCEPT !.pc = "done"])
    BY DEF IInv, TypeOK, TrigFail
  <1>2. /\ task'.rev = task.rev /\ task'.tree = task.tree
        /\ task.rev # trig[t].rev => task' = task
        /\ task.rev = trig[t].rev => task'.state = "PARTIAL"
    BY <1>1 DEF TrigFail, Task
  <1>3. QED
    BY <1>1, <1>2, AdvancePC DEF TrigFail, Note

-----------------------------------------------------------------------------
(* What the steps of a checkpoint do *)

\* The revision a checkpoint looks for.
Wanted(a) == IF ck[a].rev = 0 THEN task.rev ELSE ck[a].rev

\* It takes the snapshot of its revision, unless that is superseded, or ends.
LEMMA LoadEffect ==
    ASSUME IInv, NEW a \in Actors, CkLoad(a)
    PROVE  /\ ck[a].pc = "load"
           /\ \/ /\ ck'[a].pc = "none" /\ ck'[a].rev = 0 /\ ck'[a].new = "pending"
                 /\ \A k \in Triggers :
                       snaps[k].rev = Wanted(a) => snaps[k].status = "superseded"
              \/ /\ ck'[a].pc = "copy" /\ ck'[a].rev = Wanted(a)
                 /\ ck'[a].parent = IF ck[a].rev = 0 THEN task.state ELSE ck[a].parent
                 /\ ck'[a].finalize = ck[a].finalize
                 /\ ck'[a].key \in Triggers
                 /\ snaps[ck'[a].key].rev = Wanted(a)
                 /\ snaps[ck'[a].key].status # "superseded"
                 /\ ck'[a].loaded = snaps[ck'[a].key].status
                 /\ ck'[a].new = ck[a].new
           /\ \A o \in Actors \ {a} : ck'[o] = ck[o]
           /\ UNCHANGED <<task, code, snaps, trig, run>>
           /\ races \subseteq races'
           /\ a \notin Files /\ "late" \notin races' => Wanted(a) = task.rev
           /\ a \in Files /\ "parallel" \notin races' =>
                 \A f \in Files \ {a} : ck[f].pc = "none"
  <1>0. ck[a] \in Checkpoint /\ ck \in [Actors -> Checkpoint]
    BY DEF IInv, TypeOK
  <1> DEFINE rev == IF ck[a].rev = 0 THEN task.rev ELSE ck[a].rev
             parent == IF ck[a].rev = 0 THEN task.state ELSE ck[a].parent
             hits == {k \in Triggers :
                        snaps[k].rev = rev /\ snaps[k].status # "superseded"}
  <1>1. /\ races \subseteq races'
        /\ a \notin Files /\ "late" \notin races' => rev = task.rev
        /\ a \in Files /\ "parallel" \notin races' =>
              \A f \in Files \ {a} : ck[f].pc = "none"
    BY DEF CkLoad, Note
  <1>2. ck[a].pc = "load" /\ UNCHANGED <<task, code, snaps, trig, run>>
    BY DEF CkLoad
  <1>3. CASE hits = {} /\ CheckpointDone(a)
    <2>1. ck'[a] = NoCheckpoint /\ \A o \in Actors \ {a} : ck'[o] = ck[o]
      BY <1>0, <1>3 DEF CheckpointDone
    <2>2. /\ ck'[a].pc = "none" /\ ck'[a].rev = 0 /\ ck'[a].new = "pending"
      BY <2>1 DEF NoCheckpoint
    <2>3. \A k \in Triggers : snaps[k].rev = rev => snaps[k].status = "superseded"
      BY <1>3
    <2>4. QED
      BY <1>1, <1>2, <2>1, <2>2, <2>3, Zenon DEF Wanted
  <1>4. CASE \E k \in hits :
                ck' = [ck EXCEPT ![a] = [@ EXCEPT !.pc = "copy", !.rev = rev,
                                         !.parent = parent, !.key = k,
                                         !.loaded = snaps[k].status]]
    <2>1. PICK k \in hits :
                ck' = [ck EXCEPT ![a] = [@ EXCEPT !.pc = "copy", !.rev = rev,
                                         !.parent = parent, !.key = k,
                                         !.loaded = snaps[k].status]]
      BY <1>4
    <2>2. k \in Triggers /\ snaps[k].rev = rev /\ snaps[k].status # "superseded"
      OBVIOUS
    <2> HIDE DEF rev, parent, hits
    <2> DEFINE new == [ck[a] EXCEPT !.pc = "copy", !.rev = rev,
                                    !.parent = parent, !.key = k,
                                    !.loaded = snaps[k].status]
    <2>3. /\ new.pc = "copy" /\ new.rev = rev /\ new.parent = parent /\ new.key = k
          /\ new.loaded = snaps[k].status /\ new.finalize = ck[a].finalize
          /\ new.new = ck[a].new
      BY <1>0 DEF Checkpoint
    <2>4. ck' = [ck EXCEPT ![a] = new]
      BY <2>1
    <2> HIDE DEF new
    <2>5. ck'[a] = new /\ \A o \in Actors \ {a} : ck'[o] = ck[o]
      BY <1>0, <2>4
    <2>6. /\ ck'[a].pc = "copy" /\ ck'[a].rev = rev /\ ck'[a].parent = parent
          /\ ck'[a].finalize = ck[a].finalize /\ ck'[a].key \in Triggers
          /\ snaps[ck'[a].key].rev = rev
          /\ snaps[ck'[a].key].status # "superseded"
          /\ ck'[a].loaded = snaps[ck'[a].key].status
          /\ ck'[a].new = ck[a].new
      BY <2>2, <2>3, <2>5, Zenon
    <2>7. QED
      BY <1>1, <1>2, <2>5, <2>6, Zenon DEF Wanted, rev, parent
  <1>5. QED
    BY <1>3, <1>4 DEF CkLoad

\* It copies the results of the blocks into the snapshot and aggregates them.
LEMMA CopyEffect ==
    ASSUME IInv, NEW a \in Actors, CkCopy(a)
    PROVE  LET k == ck[a].key
           IN /\ ck[a].pc = "copy" /\ k \in Triggers
              /\ snaps'[k].copy = Copied(snaps[k])
              /\ snaps'[k].rev = snaps[k].rev /\ snaps'[k].status = snaps[k].status
              /\ snaps'[k].refs = snaps[k].refs /\ snaps'[k].removed = snaps[k].removed
              /\ snaps'[k] = [snaps[k] EXCEPT !.copy = Copied(snaps[k])]
              /\ \A l \in Triggers \ {k} : snaps'[l] = snaps[l]
              /\ ck'[a].pc = "save" /\ ck'[a].rev = ck[a].rev
              /\ ck'[a].parent = ck[a].parent /\ ck'[a].finalize = ck[a].finalize
              /\ ck'[a].key = k /\ ck'[a].loaded = ck[a].loaded
              /\ ck'[a].new = Aggregate(Copied(snaps[k]), snaps[k].removed,
                                        ck[a].parent, ck[a].finalize)
              /\ \A o \in Actors \ {a} : ck'[o] = ck[o]
              /\ UNCHANGED <<task, code, trig, run>>
              /\ races \subseteq races'
              /\ "late" \notin races' => ck[a].rev = task.rev
  <1> DEFINE k == ck[a].key
             copy == Copied(snaps[k])
             agg == Aggregate(copy, snaps[k].removed, ck[a].parent, ck[a].finalize)
  <1>0. /\ ck[a] \in Checkpoint /\ ck \in [Actors -> Checkpoint] /\ ck[a].pc = "copy"
        /\ snaps \in [Triggers -> Snap] /\ k \in Triggers /\ snaps[k] \in Snap
    BY DEF IInv, TypeOK, KeyInv, CkCopy
  <1>1. /\ snaps' = [snaps EXCEPT ![k].copy = copy]
        /\ ck' = [ck EXCEPT ![a] = [@ EXCEPT !.pc = "save", !.new = agg]]
        /\ Note("late", ck[a].rev # task.rev)
        /\ UNCHANGED <<task, code, trig, run>>
    BY DEF CkCopy
  <1> HIDE DEF copy, agg
  <1> DEFINE c == [ck[a] EXCEPT !.pc = "save", !.new = agg]
             s == [snaps[k] EXCEPT !.copy = copy]
  <1>2. /\ c.pc = "save" /\ c.rev = ck[a].rev /\ c.parent = ck[a].parent
        /\ c.finalize = ck[a].finalize /\ c.key = k /\ c.loaded = ck[a].loaded
        /\ c.new = agg
    BY <1>0 DEF Checkpoint
  <1>3. /\ s.copy = copy /\ s.rev = snaps[k].rev /\ s.status = snaps[k].status
        /\ s.refs = snaps[k].refs /\ s.removed = snaps[k].removed
    BY <1>0 DEF Snap
  <1>4. ck' = [ck EXCEPT ![a] = c] /\ snaps' = [snaps EXCEPT ![k] = s]
    BY <1>1
  <1>5. /\ races \subseteq races'
        /\ "late" \notin races' => ck[a].rev = task.rev
    BY <1>1 DEF Note
  <1>9. s = [snaps[k] EXCEPT !.copy = copy]
    OBVIOUS
  <1> HIDE DEF c, s, k
  <1>6. /\ ck'[a] = c /\ \A o \in Actors \ {a} : ck'[o] = ck[o]
        /\ snaps'[k] = s /\ \A l \in Triggers \ {k} : snaps'[l] = snaps[l]
    BY <1>0, <1>4
  <1>7. /\ ck'[a].pc = "save" /\ ck'[a].rev = ck[a].rev
        /\ ck'[a].parent = ck[a].parent /\ ck'[a].finalize = ck[a].finalize
        /\ ck'[a].key = k /\ ck'[a].loaded = ck[a].loaded
        /\ ck'[a].new = agg
    BY <1>2, <1>6, Zenon
  <1>8. /\ snaps'[k].copy = copy
        /\ snaps'[k].rev = snaps[k].rev /\ snaps'[k].status = snaps[k].status
        /\ snaps'[k].refs = snaps[k].refs /\ snaps'[k].removed = snaps[k].removed
        /\ snaps'[k] = [snaps[k] EXCEPT !.copy = copy]
    BY <1>3, <1>6, <1>9, Zenon
  <1>10. QED
    BY <1>0, <1>1, <1>5, <1>6, <1>7, <1>8, Zenon DEF k, copy, agg

\* It saves the status, if that has changed since it was loaded.
LEMMA SaveEffect ==
    ASSUME IInv, NEW a \in Actors, CkSave(a)
    PROVE  LET k == ck[a].key
           IN /\ ck[a].pc = "save" /\ k \in Triggers
              /\ snaps'[k].status = IF ck[a].new = ck[a].loaded THEN snaps[k].status
                                    ELSE ck[a].new
              /\ snaps'[k].status = snaps[k].status => snaps'[k] = snaps[k]
              /\ snaps'[k].copy = snaps[k].copy /\ snaps'[k].rev = snaps[k].rev
              /\ snaps'[k].refs = snaps[k].refs /\ snaps'[k].removed = snaps[k].removed
              /\ \A l \in Triggers \ {k} : snaps'[l] = snaps[l]
              /\ ck'[a].pc = "none" /\ ck'[a].rev = 0 /\ ck'[a].new = "pending"
              /\ \A o \in Actors \ {a} : ck'[o] = ck[o]
              /\ UNCHANGED <<task, code, trig, run>>
              /\ races \subseteq races'
              /\ "late" \notin races' => ck[a].rev = task.rev
  <1> DEFINE k == ck[a].key
  <1>0. /\ ck[a] \in Checkpoint /\ ck \in [Actors -> Checkpoint] /\ ck[a].pc = "save"
        /\ snaps \in [Triggers -> Snap] /\ k \in Triggers /\ snaps[k] \in Snap
    BY DEF IInv, TypeOK, KeyInv, CkSave
  <1>1. /\ snaps' = IF ck[a].new = ck[a].loaded THEN snaps
                    ELSE [snaps EXCEPT ![k].status = ck[a].new]
        /\ ck' = [ck EXCEPT ![a] = NoCheckpoint]
        /\ UNCHANGED <<task, code, trig, run>>
    BY DEF CkSave, CheckpointDone
  <1>2. /\ races \subseteq races'
        /\ "late" \notin races' => ck[a].rev = task.rev
    BY DEF CkSave, Note
  <1>3. ck'[a] = NoCheckpoint /\ \A o \in Actors \ {a} : ck'[o] = ck[o]
    BY <1>0, <1>1
  <1>4. ck'[a].pc = "none" /\ ck'[a].rev = 0 /\ ck'[a].new = "pending"
    BY <1>3 DEF NoCheckpoint
  <1> HIDE DEF k
  <1>5. /\ snaps'[k].status = IF ck[a].new = ck[a].loaded THEN snaps[k].status
                              ELSE ck[a].new
        /\ snaps'[k].status = snaps[k].status => snaps'[k] = snaps[k]
        /\ snaps'[k].copy = snaps[k].copy /\ snaps'[k].rev = snaps[k].rev
        /\ snaps'[k].refs = snaps[k].refs /\ snaps'[k].removed = snaps[k].removed
        /\ \A l \in Triggers \ {k} : snaps'[l] = snaps[l]
    <2>1. CASE ck[a].new = ck[a].loaded
      BY <1>1, <2>1
    <2>2. CASE ck[a].new # ck[a].loaded
      <3> DEFINE s == [snaps[k] EXCEPT !.status = ck[a].new]
      <3>1. /\ s.status = ck[a].new /\ s.copy = snaps[k].copy /\ s.rev = snaps[k].rev
            /\ s.refs = snaps[k].refs /\ s.removed = snaps[k].removed
            /\ ck[a].new = snaps[k].status => s = snaps[k]
        BY <1>0 DEF Snap
      <3>2. snaps' = [snaps EXCEPT ![k] = s]
        BY <1>1, <2>2
      <3> HIDE DEF s
      <3>3. snaps'[k] = s /\ \A l \in Triggers \ {k} : snaps'[l] = snaps[l]
        BY <1>0, <3>2
      <3>4. QED
        BY <2>2, <3>1, <3>3
    <2>3. QED
      BY <2>1, <2>2
  <1>6. QED
    BY <1>0, <1>1, <1>2, <1>3, <1>4, <1>5, Zenon DEF k

-----------------------------------------------------------------------------
(* What the steps of the worker do *)

\* A run begins with the revision and the workspace of the task.
LEMMA ClaimEffect ==
    ASSUME IInv, Claim
    PROVE  /\ run.pc = "idle" /\ task.state \in {"PENDING", "RUNNING", "PARTIAL"}
           /\ task'.rev = task.rev /\ task'.tree = task.tree /\ task'.state = "RUNNING"
           /\ run'.pc = "start" /\ run'.rev = task.rev /\ run'.tree = task.tree
           /\ \A f \in Files : run'.thread[f] = "review"
           /\ UNCHANGED <<code, snaps, trig, ck, races>>
  <1>1. task \in Task
    BY DEF IInv, TypeOK
  <1>2. /\ task'.rev = task.rev /\ task'.tree = task.tree /\ task'.state = "RUNNING"
    BY <1>1 DEF Claim, Task
  <1>3. /\ run'.pc = "start" /\ run'.rev = task.rev /\ run'.tree = task.tree
        /\ \A f \in Files : run'.thread[f] = "review"
    BY DEF Claim, NoRun
  <1>4. run.pc = "idle" /\ task.state \in {"PENDING", "RUNNING", "PARTIAL"}
    BY DEF Claim, Retryable
  <1>5. QED
    BY <1>2, <1>3, <1>4 DEF Claim

\* It synchronizes the files with its workspace: what is unfinished is to be done.
LEMMA RunSyncEffect ==
    ASSUME IInv, RunSync
    PROVE  /\ run.pc = "sync" /\ run'.pc = "review"
           /\ code' = Synced(run.tree) /\ run'.todo = Incomplete(code')
           /\ run'.rev = run.rev /\ run'.tree = run.tree
           /\ run'.thread = run.thread /\ run'.ok = run.ok
           /\ UNCHANGED <<task, snaps, trig, ck>>
           /\ races \subseteq races'
           /\ "late" \notin races' => task.rev = run.rev
  <1>1. run \in Run
    BY DEF IInv, TypeOK
  <1>2. /\ races \subseteq races'
        /\ "late" \notin races' => task.rev = run.rev
    BY DEF RunSync, Note
  <1> DEFINE todo == Incomplete(Synced(run.tree))
  <1>3. run' = [run EXCEPT !.pc = "review", !.todo = todo] /\ code' = Synced(run.tree)
    BY DEF RunSync
  <1>4. todo = Incomplete(code')
    BY <1>3
  <1> HIDE DEF todo
  <1>5. /\ run'.pc = "review" /\ run'.todo = todo
        /\ run'.rev = run.rev /\ run'.tree = run.tree
        /\ run'.thread = run.thread /\ run'.ok = run.ok
    BY <1>1, <1>3 DEF Run
  <1>6. QED
    BY <1>2, <1>3, <1>4, <1>5 DEF RunSync

\* It saves a file with the blocks its thread holds, and begins a checkpoint.
LEMMA StoreEffect ==
    ASSUME IInv, NEW f \in Files, RunStore(f)
    PROVE  /\ run.pc = "review" /\ run.thread[f] = "store"
           /\ run'.pc = "review" /\ run'.rev = run.rev /\ run'.tree = run.tree
           /\ run'.todo = run.todo /\ run'.ok = run.ok
           /\ run'.thread[f] = "review"
           /\ \A g \in Files \ {f} : run'.thread[g] = run.thread[g]
           /\ \A b \in Blocks : FileOf[b] # f => run'.image[b] = run.image[b]
           /\ \A b \in Blocks : code'[b] = IF FileOf[b] = f /\ FilePresent(b, code)
                                             THEN run.image[b] ELSE code[b]
           /\ ck'[f].pc = "load" /\ ck'[f].rev = 0 /\ ck'[f].finalize = FALSE
           /\ ck'[f].new = "pending"
           /\ \A a \in Actors \ {f} : ck'[a] = ck[a]
           /\ UNCHANGED <<task, snaps, trig>>
           /\ races \subseteq races'
           /\ "late" \notin races' => task.rev = run.rev
  <1>1. run \in Run /\ ck \in [Actors -> Checkpoint] /\ f \in Actors
    BY DEF IInv, TypeOK, Actors
  <1>2. /\ races \subseteq races'
        /\ "late" \notin races' => task.rev = run.rev
    BY DEF RunStore, Note
  <1> DEFINE c == [NoCheckpoint EXCEPT !.pc = "load"]
             image == [b \in Blocks |-> IF FileOf[b] = f THEN "absent" ELSE run.image[b]]
  <1>3. /\ c.pc = "load" /\ c.rev = 0 /\ c.finalize = FALSE /\ c.new = "pending"
    BY DEF NoCheckpoint
  <1>4. ck' = [ck EXCEPT ![f] = c]
    BY DEF RunStore
  <1>5. run' = [run EXCEPT !.thread[f] = "review", !.image = image]
    BY <1>1 DEF RunStore, Run
  <1>6. \A b \in Blocks : FileOf[b] # f => image[b] = run.image[b]
    OBVIOUS
  <1> HIDE DEF c, image
  <1>7. ck'[f] = c /\ \A a \in Actors \ {f} : ck'[a] = ck[a]
    BY <1>1, <1>4
  <1>8. /\ run'.pc = run.pc /\ run'.rev = run.rev /\ run'.tree = run.tree
        /\ run'.todo = run.todo /\ run'.ok = run.ok
        /\ run'.thread[f] = "review"
        /\ \A g \in Files \ {f} : run'.thread[g] = run.thread[g]
        /\ run'.image = image
    BY <1>1, <1>5 DEF Run
  <1>9. /\ run.pc = "review" /\ run.thread[f] = "store"
        /\ \A b \in Blocks : code'[b] = IF FileOf[b] = f /\ FilePresent(b, code)
                                          THEN run.image[b] ELSE code[b]
        /\ UNCHANGED <<task, snaps, trig>>
    BY DEF RunStore
  <1>10. /\ ck'[f].pc = "load" /\ ck'[f].rev = 0 /\ ck'[f].finalize = FALSE
         /\ ck'[f].new = "pending"
    BY <1>3, <1>7, Zenon
  <1>11. \A b \in Blocks : FileOf[b] # f => run'.image[b] = run.image[b]
    BY <1>6, <1>8
  <1>12. QED
    BY <1>2, <1>7, <1>8, <1>9, <1>10, <1>11

\* The thread of a file has reviewed a block, or is stopped.
LEMMA ReviewEffect ==
    ASSUME IInv, NEW f \in Files, RunReview(f)
    PROVE  /\ run.pc = "review" /\ run.thread[f] = "review" /\ ck[f].pc = "none"
           /\ run'.pc = "review" /\ run'.rev = run.rev /\ run'.tree = run.tree
           /\ \A g \in Files \ {f} : run'.thread[g] = run.thread[g]
           /\ \/ /\ run'.thread[f] = "interrupted"
                 /\ run'.todo = run.todo /\ run'.ok = run.ok /\ run'.image = run.image
              \/ \E b \in run.todo, result \in {"completed", "failed"} :
                    /\ b \in Blocks /\ FileOf[b] = f
                    /\ run'.thread[f] = "store" /\ run'.todo = run.todo \ {b}
                    /\ run'.ok => run.ok /\ result = "completed"
                    /\ \A x \in Blocks :
                          run'.image[x] = IF x = b THEN result
                                          ELSE IF FileOf[x] = f THEN code[x]
                                          ELSE run.image[x]
           /\ UNCHANGED <<task, code, snaps, trig, ck, races>>
  <1>1. run \in Run
    BY DEF IInv, TypeOK
  <1>2. PICK b \in run.todo \cap BlocksOf(f), result \in {"completed", "failed"} :
        run' = IF CheckPasses
                 THEN [run EXCEPT
                        !.thread[f] = "store", !.todo = @ \ {b},
                        !.ok = @ /\ result = "completed",
                        !.image = [x \in Blocks |->
                                     IF x = b THEN result
                                     ELSE IF FileOf[x] = f THEN code[x] ELSE @[x]]]
                 ELSE [run EXCEPT !.thread[f] = "interrupted"]
    BY DEF RunReview
  <1> DEFINE image == [x \in Blocks |->
                         IF x = b THEN result
                         ELSE IF FileOf[x] = f THEN code[x] ELSE run.image[x]]
             ok == run.ok /\ result = "completed"
             todo == run.todo \ {b}
  <1>3. run' = IF CheckPasses
                 THEN [run EXCEPT !.thread[f] = "store", !.todo = todo, !.ok = ok,
                                  !.image = image]
                 ELSE [run EXCEPT !.thread[f] = "interrupted"]
    BY <1>1, <1>2 DEF Run
  <1>4. /\ b \in Blocks /\ FileOf[b] = f /\ b \in run.todo
        /\ ok => run.ok /\ result = "completed"
        /\ \A x \in Blocks :
              image[x] = IF x = b THEN result
                         ELSE IF FileOf[x] = f THEN code[x]
                         ELSE run.image[x]
    BY DEF BlocksOf
  <1>5. /\ run.pc = "review" /\ run.thread[f] = "review" /\ ck[f].pc = "none"
        /\ UNCHANGED <<task, code, snaps, trig, ck, races>>
    BY DEF RunReview
  <1> HIDE DEF image, ok
  <1>6. CASE CheckPasses
    <2>1. /\ run'.pc = run.pc /\ run'.rev = run.rev /\ run'.tree = run.tree
          /\ \A g \in Files \ {f} : run'.thread[g] = run.thread[g]
          /\ run'.thread[f] = "store" /\ run'.todo = run.todo \ {b}
          /\ run'.image = image
      BY <1>1, <1>3, <1>6 DEF Run
    <2>2. run'.ok = ok
      BY <1>1, <1>3, <1>6, Zenon DEF Run
    <2>3. run'.ok => run.ok /\ result = "completed"
      BY <1>4, <2>2, Zenon
    <2>4. \A x \in Blocks :
              run'.image[x] = IF x = b THEN result
                              ELSE IF FileOf[x] = f THEN code[x]
                              ELSE run.image[x]
      BY <1>4, <2>1
    <2>5. QED
      BY <1>4, <1>5, <2>1, <2>3, <2>4
  <1>7. CASE ~CheckPasses
    <2>1. /\ run'.pc = run.pc /\ run'.rev = run.rev /\ run'.tree = run.tree
          /\ \A g \in Files \ {f} : run'.thread[g] = run.thread[g]
          /\ run'.thread[f] = "interrupted"
          /\ run'.todo = run.todo /\ run'.ok = run.ok /\ run'.image = run.image
      BY <1>1, <1>3, <1>7 DEF Run
    <2>2. QED
      BY <1>5, <2>1
  <1>8. QED
    BY <1>6, <1>7

\* The steps of the worker that only change its run, but for RunReview.
RunMoves ==
    \/ RunStart
    \/ \E f \in Files : RunRaise(f)
    \/ RunStopped
    \/ RunFinish /\ ~CheckPasses
    \/ RunFail /\ task.rev # run.rev
    \/ RunClose
    \/ Preempt

\* Such a step goes on with the run, or ends one that is closed.
LEMMA MovesEffect ==
    ASSUME IInv, RunMoves
    PROVE  /\ \/ run'.pc = "idle" /\ run.pc = "closing" /\ ck[Worker].pc = "none"
              \/ run.pc # "idle" /\ run'.pc # "idle"
           /\ run'.pc # "idle" => run'.rev = run.rev /\ run'.tree = run.tree
           /\ run'.pc \in {"start", "sync"} =>
                 run.pc \in {"start", "sync"} /\ run'.thread = run.thread
           /\ run.pc = "closing" => run'.pc \in {"idle", "closing"}
           /\ \A f \in Files : run.pc = "review" /\ ck[f].pc # "none" =>
                 run'.pc = "review" /\ run'.thread[f] = run.thread[f]
           /\ run'.pc = "review" =>
                 /\ run.pc = "review"
                 /\ run'.todo = run.todo /\ run'.ok = run.ok /\ run'.image = run.image
                 /\ \A f \in Files :
                       \/ run'.thread[f] = run.thread[f]
                       \/ run.thread[f] = "review" /\ run'.thread[f] = "raised"
           /\ UNCHANGED <<task, code, snaps, trig, ck, races>>
  <1>0. run \in Run
    BY DEF IInv, TypeOK
  <1>1. CASE RunStart
    <2>1. PICK pc \in {"sync", "interrupted"} : run' = [run EXCEPT !.pc = pc]
      BY <1>1 DEF RunStart
    <2>2. run'.pc = pc /\ run'.rev = run.rev /\ run'.tree = run.tree
          /\ run'.thread = run.thread
      BY <1>0, <2>1 DEF Run
    <2>3. QED
      BY <1>1, <2>2 DEF RunStart
  <1>2. ASSUME NEW f \in Files, RunRaise(f)
        PROVE  /\ run.pc = "review" /\ run'.pc = "review" /\ ck[f].pc = "none"
               /\ run'.rev = run.rev /\ run'.tree = run.tree
               /\ run'.todo = run.todo /\ run'.ok = run.ok /\ run'.image = run.image
               /\ run.thread[f] = "review" /\ run'.thread[f] = "raised"
               /\ \A g \in Files \ {f} : run'.thread[g] = run.thread[g]
               /\ UNCHANGED <<task, code, snaps, trig, ck, races>>
    <2>1. run' = [run EXCEPT !.thread[f] = "raised"] /\ run.pc = "review"
          /\ run.thread[f] = "review" /\ ck[f].pc = "none"
          /\ UNCHANGED <<task, code, snaps, trig, ck, races>>
      BY <1>2 DEF RunRaise
    <2>2. QED
      BY <1>0, <2>1 DEF Run
  <1>3. CASE RunStopped \/ (RunFinish /\ ~CheckPasses) \/ (RunFail /\ task.rev # run.rev)
    <2>1. /\ run' = [run EXCEPT !.pc = "interrupted"] /\ ThreadsDone
          /\ UNCHANGED <<task, code, snaps, trig, ck, races>>
      BY <1>3 DEF RunStopped, RunFinish, RunFail
    <2>2. run'.pc = "interrupted" /\ run'.rev = run.rev /\ run'.tree = run.tree
      BY <1>0, <2>1 DEF Run
    <2>3. run.pc = "review" /\ \A f \in Files : ck[f].pc = "none"
      BY <2>1 DEF ThreadsDone
    <2>4. QED
      BY <2>1, <2>2, <2>3
  <1>4. CASE RunClose
    BY <1>4 DEF RunClose, NoRun
  <1>5. CASE Preempt
    <2>1. run' = [run EXCEPT !.stop = TRUE] /\ run.pc # "idle"
          /\ UNCHANGED <<task, code, snaps, trig, ck, races>>
      BY <1>5 DEF Preempt
    <2>2. /\ run'.pc = run.pc /\ run'.rev = run.rev /\ run'.tree = run.tree
          /\ run'.thread = run.thread /\ run'.todo = run.todo /\ run'.image = run.image
      BY <1>0, <2>1 DEF Run
    <2>3. run'.ok = run.ok
      BY <1>0, <2>1, Zenon DEF Run
    <2>4. QED
      BY <2>1, <2>2, <2>3
  <1>6. CASE \E f \in Files : RunRaise(f)
    <2>1. PICK f \in Files : RunRaise(f)
      BY <1>6
    <2>2. QED
      BY <1>2, <2>1
  <1>7. QED
    BY <1>1, <1>3, <1>4, <1>5, <1>6 DEF RunMoves

\* The steps of the worker that begin its last checkpoint.
RunEnds ==
    \/ RunFinish /\ CheckPasses
    \/ RunFail /\ task.rev = run.rev
    \/ RunInterrupted

\* The last checkpoint of a run that begins.
LEMMA LastCheckpointEffect ==
    ASSUME TypeOK, NEW rev, NEW state, NEW finalize, LastCheckpoint(rev, state, finalize)
    PROVE  /\ ck'[Worker].pc = "load" /\ ck'[Worker].rev = rev
           /\ ck'[Worker].parent = state /\ ck'[Worker].finalize = finalize
           /\ ck'[Worker].new = "pending"
           /\ \A a \in Actors \ {Worker} : ck'[a] = ck[a]
           /\ run'.pc = "closing" /\ run'.rev = run.rev /\ run'.tree = run.tree
  <1>0. run \in Run /\ ck \in [Actors -> Checkpoint] /\ Worker \in Actors
    BY DEF TypeOK, Actors
  <1> DEFINE c == [NoCheckpoint EXCEPT !.pc = "load", !.rev = rev, !.parent = state,
                                       !.finalize = finalize]
  <1>1. /\ c.pc = "load" /\ c.rev = rev /\ c.parent = state /\ c.finalize = finalize
        /\ c.new = "pending"
    BY Zenon DEF NoCheckpoint
  <1>2. ck' = [ck EXCEPT ![Worker] = c] /\ run' = [run EXCEPT !.pc = "closing"]
    BY Zenon DEF LastCheckpoint
  <1> HIDE DEF c
  <1>3. ck'[Worker] = c /\ \A a \in Actors \ {Worker} : ck'[a] = ck[a]
    BY <1>0, <1>2
  <1>4. run'.pc = "closing" /\ run'.rev = run.rev /\ run'.tree = run.tree
    BY <1>0, <1>2 DEF Run
  <1>5. QED
    BY <1>1, <1>3, <1>4, Zenon

\* A run ends as completed when every block has been reviewed without a failure,
\* as partial, or as pending again; it checkpoints the revision of the task.
LEMMA EndsEffect ==
    ASSUME IInv, ActorInv, RunEnds
    PROVE  /\ run.pc \in {"review", "interrupted"} /\ run'.pc = "closing"
           /\ run'.rev = run.rev /\ run'.tree = run.tree
           /\ \A f \in Files : ck[f].pc = "none"
           /\ task'.rev = task.rev /\ task'.tree = task.tree
           /\ ck'[Worker].pc = "load" /\ ck'[Worker].rev = task.rev
           /\ ck'[Worker].parent = task'.state /\ ck'[Worker].finalize \in BOOLEAN
           /\ ck'[Worker].new = "pending"
           /\ \A a \in Actors \ {Worker} : ck'[a] = ck[a]
           /\ \/ /\ run.pc = "review" /\ task.rev = run.rev
                 /\ task'.state \in {"COMPLETED", "PARTIAL"}
                 /\ task'.state = "COMPLETED" =>
                       /\ run.ok /\ ck'[Worker].finalize
                       /\ \A f \in Files :
                             run.thread[f] = "review" /\ run.todo \cap BlocksOf(f) = {}
              \/ /\ run.pc = "interrupted" /\ ck'[Worker].finalize = FALSE
                 /\ task'.state = IF task.rev = run.rev THEN "PENDING" ELSE task.state
           /\ UNCHANGED <<code, snaps, trig, races>>
  <1>0. TypeOK /\ run \in Run /\ task \in Task
    BY DEF IInv, TypeOK
  <1>1. CASE RunFinish /\ CheckPasses
    <2> DEFINE state == IF run.ok THEN "COMPLETED" ELSE "PARTIAL"
    <2>1. /\ task' = [task EXCEPT !.state = state, !.auto = ~run.ok]
          /\ LastCheckpoint(run.rev, state, TRUE)
          /\ UNCHANGED <<code, snaps, trig, races>>
      BY <1>1 DEF RunFinish
    <2>2. /\ run.pc = "review" /\ task.rev = run.rev
          /\ \A f \in Files : /\ ck[f].pc = "none" /\ run.thread[f] = "review"
                              /\ run.todo \cap BlocksOf(f) = {}
      BY <1>1 DEF RunFinish, ThreadsDone, CheckPasses
    <2>3. state \in {"COMPLETED", "PARTIAL"} /\ (state = "COMPLETED" => run.ok)
      OBVIOUS
    <2> HIDE DEF state
    <2>4. task'.state = state /\ task'.rev = task.rev /\ task'.tree = task.tree
      BY <1>0, <2>1 DEF Task
    <2>5. /\ ck'[Worker].pc = "load" /\ ck'[Worker].rev = run.rev
          /\ ck'[Worker].parent = state /\ ck'[Worker].finalize = TRUE
          /\ ck'[Worker].new = "pending"
          /\ \A a \in Actors \ {Worker} : ck'[a] = ck[a]
          /\ run'.pc = "closing" /\ run'.rev = run.rev /\ run'.tree = run.tree
      BY <1>0, <2>1, LastCheckpointEffect
    <2>6. QED
      BY <2>1, <2>2, <2>3, <2>4, <2>5
  <1>2. CASE RunFail /\ task.rev = run.rev
    <2>1. /\ task' = [task EXCEPT !.state = "PARTIAL", !.auto = TRUE]
          /\ LastCheckpoint(run.rev, "PARTIAL", FALSE)
          /\ UNCHANGED <<code, snaps, trig, races>>
      BY <1>2 DEF RunFail
    <2>2. run.pc = "review" /\ \A f \in Files : ck[f].pc = "none"
      BY <1>2 DEF RunFail, ThreadsDone
    <2>3. task'.state = "PARTIAL" /\ task'.rev = task.rev /\ task'.tree = task.tree
      BY <1>0, <2>1 DEF Task
    <2>4. /\ ck'[Worker].pc = "load" /\ ck'[Worker].rev = run.rev
          /\ ck'[Worker].parent = "PARTIAL" /\ ck'[Worker].finalize = FALSE
          /\ ck'[Worker].new = "pending"
          /\ \A a \in Actors \ {Worker} : ck'[a] = ck[a]
          /\ run'.pc = "closing" /\ run'.rev = run.rev /\ run'.tree = run.tree
      BY <1>0, <2>1, LastCheckpointEffect
    <2>5. QED
      BY <1>2, <2>1, <2>2, <2>3, <2>4
  <1>3. CASE RunInterrupted
    <2> DEFINE state == IF task.rev = run.rev THEN "PENDING" ELSE task.state
    <2>1. /\ task' = [task EXCEPT !.state = state]
          /\ LastCheckpoint(task.rev, state, FALSE)
          /\ UNCHANGED <<code, snaps, trig, races>>
          /\ run.pc = "interrupted"
      BY <1>3 DEF RunInterrupted
    <2>2. \A f \in Files : ck[f].pc = "none"
      BY <2>1 DEF ActorInv
    <2> HIDE DEF state
    <2>3. task'.state = state /\ task'.rev = task.rev /\ task'.tree = task.tree
      BY <1>0, <2>1 DEF Task
    <2>4. /\ ck'[Worker].pc = "load" /\ ck'[Worker].rev = task.rev
          /\ ck'[Worker].parent = state /\ ck'[Worker].finalize = FALSE
          /\ ck'[Worker].new = "pending"
          /\ \A a \in Actors \ {Worker} : ck'[a] = ck[a]
          /\ run'.pc = "closing" /\ run'.rev = run.rev /\ run'.tree = run.tree
      BY <1>0, <2>1, LastCheckpointEffect
    <2>5. QED
      BY <2>1, <2>2, <2>3, <2>4 DEF state
  <1>4. QED
    BY <1>1, <1>2, <1>3 DEF RunEnds

\* A crash forgets the run and its checkpoints.
LEMMA CrashEffect ==
    ASSUME IInv, Crash
    PROVE  /\ run.pc # "idle" /\ run'.pc = "idle"
           /\ \A t \in Triggers : ck'[t] = ck[t]
           /\ \A a \in Actors \ Triggers :
                 ck'[a].pc = "none" /\ ck'[a].rev = 0 /\ ck'[a].new = "pending"
           /\ UNCHANGED <<task, code, snaps, trig>>
           /\ races \subseteq races'
           /\ "lost_checkpoint" \notin races' =>
                 ~(run.pc = "closing" /\ ck[Worker].pc # "none")
  <1>1. \A a \in Actors : ck'[a] = IF a \in Triggers THEN ck[a] ELSE NoCheckpoint
    BY DEF Crash
  <1>2. \A a \in Actors \ Triggers :
           ck'[a].pc = "none" /\ ck'[a].rev = 0 /\ ck'[a].new = "pending"
    BY <1>1 DEF NoCheckpoint
  <1>3. \A t \in Triggers : ck'[t] = ck[t]
    BY <1>1 DEF Actors
  <1>4. QED
    BY <1>2, <1>3 DEF Crash, Note, NoRun

\* The steps of the worker, by what they change.
WorkerStep ==
    \/ Claim
    \/ RunSync
    \/ \E f \in Files : RunReview(f) \/ RunStore(f)
    \/ RunMoves
    \/ RunEnds
    \/ Crash

LEMMA WorkerSteps ==
    ASSUME Claim \/ RunStep \/ Preempt \/ Crash
    PROVE  WorkerStep
  BY DEF WorkerStep, RunStep, RunMoves, RunEnds

TriggerStep(t) == TrigBegin(t) \/ TrigStep(t) \/ TrigFail(t)

\* What has raced is not forgotten.
LEMMA RacesGrow ==
    ASSUME IInv, ActorInv,
           \/ \E t \in Triggers : TriggerStep(t)
           \/ \E a \in Actors : CkStep(a)
           \/ WorkerStep
    PROVE  races \subseteq races'
  <1>1. ASSUME NEW t \in Triggers, TriggerStep(t)
        PROVE  races \subseteq races'
    BY <1>1, BeginEffect, SyncEffect, SupersedeEffect, InsertTrigger, FindEffect,
       CarryEffect, PublishEffect, FailEffect DEF TriggerStep, TrigStep
  <1>2. ASSUME NEW a \in Actors, CkStep(a)
        PROVE  races \subseteq races'
    BY <1>2, LoadEffect, CopyEffect, SaveEffect DEF CkStep
  <1>3. CASE WorkerStep
    BY <1>3, ClaimEffect, RunSyncEffect, ReviewEffect, StoreEffect, MovesEffect,
       EndsEffect, CrashEffect DEF WorkerStep
  <1>4. QED
    BY <1>1, <1>2, <1>3

-----------------------------------------------------------------------------
(* A snapshot is the work of the trigger it is named for *)

LEMMA BornTrigger ==
    ASSUME IInv, BornInv, NEW t \in Triggers, TriggerStep(t)
    PROVE  BornInv'
  <1>0. \A u \in Triggers : trig[u].pc = "carry" => trig[u].key \in Triggers
    BY DEF IInv, KeyInv
  <1>1. CASE TrigBegin(t)
    BY <1>1, BeginEffect DEF BornInv, Exists
  <1>2. CASE TrigSync(t)
    BY <1>2, SyncEffect DEF BornInv, Exists
  <1>3. CASE TrigSupersede(t)
    BY <1>0, <1>3, SupersedeEffect DEF BornInv, Exists
  <1>4. CASE TrigInsert(t)
    <2>1. /\ trig[t].pc = "insert" /\ trig'[t].pc = "publish"
          /\ \A u \in Triggers \ {t} : trig'[u] = trig[u]
      BY <1>4, InsertTrigger
    <2>2. /\ snaps'[t].rev = trig[t].rev
          /\ \A b \in Blocks : snaps'[t].copy[b] = "absent"
          /\ \A k \in Triggers \ {t} : snaps'[k] = snaps[k]
      BY <1>4, InsertEffect
    <2>3. trig[t].rev # 0
      BY <2>1 DEF IInv, RevisionInv
    <2>4. QED
      BY <1>0, <2>1, <2>2, <2>3 DEF BornInv, Exists
  <1>5. CASE TrigFind(t)
    BY <1>5, FindEffect DEF BornInv, Exists, Carriable, Open
  <1>6. CASE TrigCarry(t)
    <2> DEFINE k == trig[t].key
    <2>1. /\ trig[t].pc = "carry" /\ trig'[t].pc = "publish" /\ k \in Triggers
          /\ \A u \in Triggers \ {t} : trig'[u] = trig[u]
          /\ snaps'[k].refs = snaps[k].refs /\ snaps'[k].copy = snaps[k].copy
          /\ snaps'[k].rev = trig[t].rev
          /\ \A l \in Triggers \ {k} : snaps'[l] = snaps[l]
      BY <1>6, CarryEffect
    <2>2. Exists(k) /\ trig[t].rev # 0
      BY <2>1 DEF BornInv, IInv, RevisionInv, TypeOK, Trigger
    <2> HIDE DEF k
    <2>3. QED
      BY <1>0, <2>1, <2>2 DEF BornInv, Exists
  <1>7. CASE TrigPublish(t)
    BY <1>7, PublishEffect DEF BornInv, Exists
  <1>8. CASE TrigFail(t)
    BY <1>8, FailEffect DEF BornInv, Exists
  <1>9. QED
    BY <1>1, <1>2, <1>3, <1>4, <1>5, <1>6, <1>7, <1>8 DEF TriggerStep, TrigStep

LEMMA BornCheckpoint ==
    ASSUME IInv, BornInv, NEW a \in Actors, CkStep(a)
    PROVE  BornInv'
  <1>0. \A u \in Triggers : trig[u].pc = "carry" => trig[u].key \in Triggers
    BY DEF IInv, KeyInv
  <1>1. CASE CkLoad(a)
    BY <1>1, LoadEffect DEF BornInv, Exists
  <1>2. CASE CkCopy(a)
    <2> DEFINE k == ck[a].key
    <2>1. /\ k \in Triggers /\ snaps[k] \in Snap
          /\ snaps'[k].copy = Copied(snaps[k])
          /\ snaps'[k].rev = snaps[k].rev /\ snaps'[k].refs = snaps[k].refs
          /\ \A l \in Triggers \ {k} : snaps'[l] = snaps[l]
          /\ UNCHANGED trig
      BY <1>2, CopyEffect DEF IInv, TypeOK
    <2> HIDE DEF k
    <2>2. \A b \in Blocks : b \notin snaps[k].refs => snaps'[k].copy[b] = "absent"
      BY <2>1, CopiedRefs DEF IInv, BornInv
    <2>3. QED
      BY <1>0, <2>1, <2>2 DEF BornInv, Exists
  <1>3. CASE CkSave(a)
    BY <1>0, <1>3, SaveEffect DEF BornInv, Exists
  <1>4. QED
    BY <1>1, <1>2, <1>3 DEF CkStep

LEMMA BornWorker ==
    ASSUME IInv, BornInv, ActorInv, WorkerStep
    PROVE  BornInv'
  <1>1. UNCHANGED <<snaps, trig>>
    BY ClaimEffect, RunSyncEffect, ReviewEffect, StoreEffect, MovesEffect,
       EndsEffect, CrashEffect DEF WorkerStep
  <1>2. QED
    BY <1>1 DEF BornInv, Exists

-----------------------------------------------------------------------------
(* A run and a submission work on the code they began with *)

\* A submission that is in progress at the revision of the task is the only one,
\* and no other step but its last changes the state it has set.
LEMMA WorkTrigger ==
    ASSUME IInv, WorkInv, NEW t \in Triggers, TriggerStep(t)
    PROVE  WorkInv'
  <1>0. /\ task.rev \in Nat /\ run.rev \in Nat
        /\ \A u \in Triggers : trig[u].rev \in Nat /\ trig[u].rev <= task.rev
        /\ \A u, v \in Triggers : trig[u].rev = trig[v].rev /\ trig[u].rev > 0 => u = v
        /\ trig[t].pc # "idle" => trig[t].rev > 0
    BY DEF IInv, TypeOK, Task, Run, Trigger, RevisionInv
  <1>1. CASE TrigBegin(t)
    BY <1>0, <1>1, BeginEffect DEF WorkInv, InProgress
  <1>2. CASE TrigSync(t)
    BY <1>0, <1>2, SyncEffect DEF WorkInv, InProgress
  <1>3. CASE TrigSupersede(t)
    BY <1>0, <1>3, SupersedeEffect DEF WorkInv, InProgress
  <1>4. CASE TrigInsert(t)
    <2>1. /\ trig[t].pc = "insert" /\ trig'[t].pc = "publish"
          /\ trig'[t].rev = trig[t].rev /\ trig'[t].tree = trig[t].tree
          /\ trig'[t].prev = trig[t].prev /\ trig'[t].work = trig[t].work
          /\ \A u \in Triggers \ {t} : trig'[u] = trig[u]
          /\ UNCHANGED <<task, run>>
      BY <1>4, InsertTrigger
    <2>2. QED
      BY <1>0, <2>1 DEF WorkInv, InProgress
  <1>5. CASE TrigFind(t)
    BY <1>0, <1>5, FindEffect DEF WorkInv, InProgress
  <1>6. CASE TrigCarry(t)
    <2>1. /\ trig[t].pc = "carry" /\ trig'[t].pc = "publish"
          /\ trig'[t].rev = trig[t].rev /\ trig'[t].tree = trig[t].tree
          /\ trig'[t].prev = trig[t].prev /\ trig'[t].work = trig[t].work
          /\ \A u \in Triggers \ {t} : trig'[u] = trig[u]
          /\ UNCHANGED <<task, run>>
      BY <1>6, CarryEffect
    <2>2. QED
      BY <1>0, <2>1 DEF WorkInv, InProgress
  <1>7. CASE TrigPublish(t)
    BY <1>0, <1>7, PublishEffect DEF WorkInv, InProgress
  <1>8. CASE TrigFail(t)
    BY <1>0, <1>8, FailEffect DEF WorkInv, InProgress
  <1>9. QED
    BY <1>1, <1>2, <1>3, <1>4, <1>5, <1>6, <1>7, <1>8 DEF TriggerStep, TrigStep

LEMMA WorkCheckpoint ==
    ASSUME IInv, WorkInv, NEW a \in Actors, CkStep(a)
    PROVE  WorkInv'
  <1>1. UNCHANGED <<task, trig, run>>
    BY LoadEffect, CopyEffect, SaveEffect DEF CkStep
  <1>2. QED
    BY <1>1 DEF WorkInv, InProgress

\* The run of the revision of the task begins and ends while no submission of that
\* revision is in progress.
LEMMA WorkWorker ==
    ASSUME IInv, WorkInv, ActorInv, WorkerStep
    PROVE  WorkInv'
  <1>0. task.rev \in Nat /\ run.rev \in Nat /\ \A u \in Triggers : trig[u].rev \in Nat
    BY DEF IInv, TypeOK, Task, Run, Trigger
  <1>1. CASE Claim
    BY <1>0, <1>1, ClaimEffect DEF WorkInv, InProgress
  <1>2. CASE RunSync
    BY <1>0, <1>2, RunSyncEffect DEF WorkInv, InProgress
  <1>3. ASSUME NEW f \in Files, RunReview(f) \/ RunStore(f)
        PROVE  WorkInv'
    <2>1. /\ run.pc = "review" /\ run'.pc = "review"
          /\ run'.rev = run.rev /\ run'.tree = run.tree
          /\ UNCHANGED <<task, trig>>
      BY <1>3, ReviewEffect, StoreEffect
    <2>2. QED
      BY <1>0, <2>1 DEF WorkInv, InProgress
  <1>4. CASE RunMoves
    BY <1>0, <1>4, MovesEffect DEF WorkInv, InProgress
  <1>5. CASE RunEnds
    <2>1. /\ run.pc # "idle" /\ run'.pc = "closing"
          /\ run'.rev = run.rev /\ run'.tree = run.tree
          /\ task'.rev = task.rev /\ task'.tree = task.tree
          /\ task'.state = task.state \/ task.rev = run.rev
          /\ UNCHANGED trig
      BY <1>5, EndsEffect
    <2>2. QED
      BY <1>0, <2>1 DEF WorkInv, InProgress
  <1>6. CASE Crash
    BY <1>0, <1>6, CrashEffect DEF WorkInv, InProgress
  <1>7. QED
    BY <1>1, <1>2, <1>3, <1>4, <1>5, <1>6 DEF WorkerStep

-----------------------------------------------------------------------------
(* Whose checkpoint it is says when it happens *)

\* The actors are the triggers, the worker and the threads.
LEMMA ActorKinds ==
    /\ Worker \in Actors /\ Worker \notin Files
    /\ \A f \in Files : f \in Actors /\ f # Worker /\ f \notin Triggers
    /\ \A t \in Triggers : t \in Actors /\ t # Worker /\ t \notin Files
    /\ \A a \in Actors : a \in Triggers \/ a \in Files \/ a = Worker
  BY DEF Actors

\* A step that begins no checkpoint and leaves the run and the others alone.
LEMMA ActorTrigger ==
    ASSUME IInv, WorkInv, ActorInv, NEW t \in Triggers, TriggerStep(t)
    PROVE  ActorInv'
  <1>0. /\ task.rev \in Nat /\ \A a \in Actors : ck[a].rev \in Nat
        /\ \A u \in Triggers : trig[u].rev \in Nat /\ trig[u].rev <= task.rev
    BY DEF IInv, TypeOK, Task, Checkpoint, RevisionInv, Trigger
  <1>1. CASE TrigBegin(t)
    BY <1>0, <1>1, BeginEffect, ActorKinds DEF ActorInv
  <1>2. CASE TrigSync(t)
    BY <1>0, <1>2, SyncEffect, ActorKinds DEF ActorInv
  <1>3. CASE TrigSupersede(t)
    BY <1>0, <1>3, SupersedeEffect, ActorKinds DEF ActorInv
  <1>4. CASE TrigInsert(t)
    <2>1. /\ trig'[t].pc = "publish" /\ trig'[t].rev = trig[t].rev
          /\ \A u \in Triggers \ {t} : trig'[u] = trig[u]
          /\ UNCHANGED <<task, run>>
      BY <1>4, InsertTrigger
    <2>2. /\ ck'[t].pc = "copy" /\ ck'[t].rev = trig[t].rev
          /\ ck'[t].parent = "PREPARING" /\ ck'[t].finalize = FALSE
          /\ ck'[t].new = "pending"
          /\ \A a \in Actors \ {t} : ck'[a] = ck[a]
      BY <1>4, InsertEffect
    <2>3. QED
      BY <1>0, <2>1, <2>2, ActorKinds DEF ActorInv
  <1>5. CASE TrigFind(t)
    BY <1>0, <1>5, FindEffect, ActorKinds DEF ActorInv
  <1>6. CASE TrigCarry(t)
    <2>1. /\ trig'[t].pc = "publish" /\ trig'[t].rev = trig[t].rev
          /\ \A u \in Triggers \ {t} : trig'[u] = trig[u]
          /\ UNCHANGED <<task, run>>
          /\ ck'[t].pc = "copy" /\ ck'[t].rev = trig[t].rev
          /\ ck'[t].parent = "PREPARING" /\ ck'[t].finalize = FALSE
          /\ ck'[t].new = "pending"
          /\ \A a \in Actors \ {t} : ck'[a] = ck[a]
      BY <1>6, CarryEffect
    <2>2. QED
      BY <1>0, <2>1, ActorKinds DEF ActorInv
  <1>7. CASE TrigPublish(t)
    BY <1>0, <1>7, PublishEffect, ActorKinds DEF ActorInv
  <1>8. CASE TrigFail(t)
    BY <1>0, <1>8, FailEffect, ActorKinds DEF ActorInv
  <1>9. QED
    BY <1>1, <1>2, <1>3, <1>4, <1>5, <1>6, <1>7, <1>8 DEF TriggerStep, TrigStep

LEMMA ActorCheckpoint ==
    ASSUME IInv, WorkInv, ActorInv, NEW a \in Actors, CkStep(a)
    PROVE  ActorInv'
  <1>0. /\ task.rev \in Nat /\ \A o \in Actors : ck[o].rev \in Nat
        /\ \A t \in Triggers : trig[t].rev \in Nat
        /\ \A t \in Triggers : trig[t].pc = "publish" => trig[t].rev > 0
    BY DEF IInv, TypeOK, Task, Checkpoint, Trigger, RevisionInv
  <1>1. CASE CkLoad(a)
    <2>1. CASE ck'[a].pc = "none"
      <3>1. /\ ck'[a].rev = 0 /\ ck'[a].new = "pending"
            /\ \A o \in Actors \ {a} : ck'[o] = ck[o]
            /\ UNCHANGED <<task, trig, run>>
        BY <1>1, <2>1, LoadEffect
      <3>2. QED
        BY <1>0, <2>1, <3>1, ActorKinds DEF ActorInv
    <2>2. CASE ck'[a].pc # "none"
      <3>1. /\ ck[a].pc = "load" /\ ck'[a].pc = "copy"
            /\ ck'[a].rev = Wanted(a)
            /\ ck'[a].parent = IF ck[a].rev = 0 THEN task.state ELSE ck[a].parent
            /\ ck'[a].finalize = ck[a].finalize /\ ck'[a].new = ck[a].new
            /\ \A o \in Actors \ {a} : ck'[o] = ck[o]
            /\ UNCHANGED <<task, trig, run>>
        BY <1>1, <2>2, LoadEffect
      <3>2. /\ ck'[a].rev <= task.rev
            /\ a \notin Files => ck'[a].rev = ck[a].rev /\ ck'[a].parent = ck[a].parent
        BY <1>0, <3>1, ActorKinds DEF ActorInv, Wanted
      <3>3. QED
        BY <1>0, <3>1, <3>2, ActorKinds DEF ActorInv
    <2>3. QED
      BY <2>1, <2>2
  <1>2. CASE CkCopy(a)
    <2>1. /\ ck[a].pc = "copy" /\ ck'[a].pc = "save" /\ ck'[a].rev = ck[a].rev
          /\ ck'[a].parent = ck[a].parent /\ ck'[a].finalize = ck[a].finalize
          /\ \A o \in Actors \ {a} : ck'[o] = ck[o]
          /\ UNCHANGED <<task, trig, run>>
      BY <1>2, CopyEffect, Zenon
    <2>2. ck'[a].new # "superseded"
      <3>1. ck'[a].new = Aggregate(Copied(snaps[ck[a].key]), snaps[ck[a].key].removed,
                                   ck[a].parent, ck[a].finalize)
        BY <1>2, CopyEffect, Zenon
      <3>2. QED
        BY <3>1, AggregateOpen, Zenon
    <2>3. QED
      BY <1>0, <2>1, <2>2, ActorKinds DEF ActorInv
  <1>3. CASE CkSave(a)
    <2>1. /\ ck'[a].pc = "none" /\ ck'[a].rev = 0 /\ ck'[a].new = "pending"
          /\ \A o \in Actors \ {a} : ck'[o] = ck[o]
          /\ UNCHANGED <<task, trig, run>>
      BY <1>3, SaveEffect
    <2>2. QED
      BY <1>0, <2>1, ActorKinds DEF ActorInv
  <1>4. QED
    BY <1>1, <1>2, <1>3 DEF CkStep

LEMMA ActorWorker ==
    ASSUME IInv, WorkInv, ActorInv, WorkerStep
    PROVE  ActorInv'
  <1>0. /\ task.rev \in Nat /\ run.rev \in Nat /\ \A a \in Actors : ck[a].rev \in Nat
        /\ task.rev > 0
    BY DEF IInv, TypeOK, Task, Run, Checkpoint, WorkInv
  <1>1. CASE Claim
    BY <1>0, <1>1, ClaimEffect, ActorKinds DEF ActorInv
  <1>2. CASE RunSync
    BY <1>0, <1>2, RunSyncEffect, ActorKinds DEF ActorInv
  <1>3. ASSUME NEW f \in Files, RunReview(f)
        PROVE  ActorInv'
    <2>1. /\ run.pc = "review" /\ run'.pc = "review" /\ ck[f].pc = "none"
          /\ \A g \in Files \ {f} : run'.thread[g] = run.thread[g]
          /\ UNCHANGED <<task, trig, ck>>
      BY <1>3, ReviewEffect
    <2>2. QED
      BY <1>0, <2>1, ActorKinds DEF ActorInv
  <1>4. ASSUME NEW f \in Files, RunStore(f)
        PROVE  ActorInv'
    <2>1. /\ run.pc = "review" /\ run'.pc = "review" /\ run'.thread[f] = "review"
          /\ \A g \in Files \ {f} : run'.thread[g] = run.thread[g]
          /\ ck'[f].pc = "load" /\ ck'[f].rev = 0 /\ ck'[f].finalize = FALSE
          /\ ck'[f].new = "pending"
          /\ \A a \in Actors \ {f} : ck'[a] = ck[a]
          /\ UNCHANGED <<task, trig>>
      BY <1>4, StoreEffect
    <2>2. QED
      BY <1>0, <2>1, ActorKinds DEF ActorInv
  <1>5. CASE RunMoves
    BY <1>0, <1>5, MovesEffect, ActorKinds DEF ActorInv
  <1>6. CASE RunEnds
    <2>1. /\ run'.pc = "closing" /\ \A f \in Files : ck[f].pc = "none"
          /\ task'.rev = task.rev
          /\ ck'[Worker].pc = "load" /\ ck'[Worker].rev = task.rev
          /\ ck'[Worker].new = "pending"
          /\ \A a \in Actors \ {Worker} : ck'[a] = ck[a]
          /\ UNCHANGED trig
      BY <1>6, EndsEffect
    <2>2. QED
      BY <1>0, <2>1, ActorKinds DEF ActorInv
  <1>7. CASE Crash
    BY <1>0, <1>7, CrashEffect, ActorKinds DEF ActorInv
  <1>8. QED
    BY <1>1, <1>2, <1>3, <1>4, <1>5, <1>6, <1>7 DEF WorkerStep

-----------------------------------------------------------------------------
(* One submission at a time, which is the current one *)

Base == IInv /\ BornInv /\ WorkInv /\ ActorInv

LEMMA OneTrigger ==
    ASSUME Base, OneInv, Calm', NEW t \in Triggers, TriggerStep(t)
    PROVE  OneInv'
  <1>0. /\ "late" \notin races' /\ "overlap" \notin races'
        /\ IInv /\ WorkInv
        /\ \A u \in Triggers : InProgress(t) /\ InProgress(u) => u = t
    BY Alone DEF Base, Calm
  <1>1. CASE TrigBegin(t)
    BY <1>0, <1>1, BeginEffect DEF OneInv, InProgress
  <1>2. CASE TrigSync(t)
    BY <1>0, <1>2, SyncEffect DEF OneInv, InProgress
  <1>3. CASE TrigSupersede(t)
    BY <1>0, <1>3, SupersedeEffect DEF OneInv, InProgress
  <1>4. CASE TrigInsert(t)
    BY <1>0, <1>4, InsertTrigger DEF OneInv, InProgress
  <1>5. CASE TrigFind(t)
    BY <1>0, <1>5, FindEffect DEF OneInv, InProgress
  <1>6. CASE TrigCarry(t)
    <2>1. /\ trig[t].pc = "carry"
          /\ trig'[t].rev = trig[t].rev /\ trig'[t].prev = trig[t].prev
          /\ \A u \in Triggers \ {t} : trig'[u] = trig[u]
          /\ UNCHANGED <<task, run>>
      BY <1>0, <1>6, CarryEffect
    <2>2. QED
      BY <2>1 DEF OneInv, InProgress
  <1>7. CASE TrigPublish(t)
    BY <1>0, <1>7, PublishEffect DEF OneInv, InProgress, WorkInv
  <1>8. CASE TrigFail(t)
    BY <1>0, <1>8, FailEffect DEF OneInv, InProgress
  <1>9. QED
    BY <1>1, <1>2, <1>3, <1>4, <1>5, <1>6, <1>7, <1>8 DEF TriggerStep, TrigStep

LEMMA OneCheckpoint ==
    ASSUME Base, OneInv, NEW a \in Actors, CkStep(a)
    PROVE  OneInv'
  <1>1. UNCHANGED <<task, trig, run>>
    BY LoadEffect, CopyEffect, SaveEffect DEF CkStep, Base
  <1>2. QED
    BY <1>1 DEF OneInv, InProgress

LEMMA OneWorker ==
    ASSUME Base, OneInv, WorkerStep
    PROVE  OneInv'
  <1>0. IInv /\ WorkInv /\ ActorInv
        /\ task.rev \in Nat /\ run.rev \in Nat /\ \A u \in Triggers : trig[u].rev \in Nat
    BY DEF Base, IInv, TypeOK, Task, Run, Trigger
  <1>1. CASE Claim
    BY <1>0, <1>1, ClaimEffect DEF OneInv, WorkInv, InProgress
  <1>2. CASE RunSync
    BY <1>0, <1>2, RunSyncEffect DEF OneInv, InProgress
  <1>3. ASSUME NEW f \in Files, RunReview(f) \/ RunStore(f)
        PROVE  OneInv'
    <2>1. run.pc = "review" /\ run'.pc = "review" /\ UNCHANGED <<task, trig>>
      BY <1>0, <1>3, ReviewEffect, StoreEffect
    <2>2. QED
      BY <2>1 DEF OneInv, InProgress
  <1>4. CASE RunMoves
    BY <1>0, <1>4, MovesEffect DEF OneInv, InProgress
  <1>5. CASE RunEnds
    <2>1. run'.pc = "closing" /\ task'.rev = task.rev /\ UNCHANGED trig
      BY <1>0, <1>5, EndsEffect
    <2>2. QED
      BY <2>1 DEF OneInv, InProgress
  <1>6. CASE Crash
    BY <1>0, <1>6, CrashEffect DEF OneInv, InProgress
  <1>7. QED
    BY <1>1, <1>2, <1>3, <1>4, <1>5, <1>6 DEF WorkerStep

-----------------------------------------------------------------------------
(* A checkpoint of the revision of the task keeps its snapshot *)

LEMMA HoldTrigger ==
    ASSUME Base, OneInv, HoldInv, Calm', NEW t \in Triggers, TriggerStep(t)
    PROVE  HoldInv'
  <1>0. /\ "late" \notin races' /\ "overlap" \notin races' /\ IInv /\ ActorInv
        /\ task.rev \in Nat /\ trig[t].rev \in Nat
        /\ \A k \in Triggers : snaps[k].rev \in Nat /\ snaps[k].rev <= task.rev
        /\ \A a \in Actors : ck[a].rev \in Nat /\ ck[a].rev <= task.rev
        /\ \A a \in Actors : Copying(a) => ck[a].key \in Triggers
        /\ \A u \in Triggers : trig[u].pc = "carry" => trig[u].key \in Triggers
        /\ InProgress(t) => trig[t].rev = task.rev
        /\ \A u \in Triggers : InProgress(t) /\ InProgress(u) => u = t
    BY Alone, SameRevision
       DEF Base, Calm, IInv, TypeOK, Checkpoint, Trigger, ActorInv, KeyInv, Copying, OneInv
  <1>1. CASE TrigBegin(t)
    <2>1. /\ task'.rev = task.rev + 1 /\ trig'[t].pc = "sync"
          /\ \A u \in Triggers \ {t} : trig'[u] = trig[u]
          /\ UNCHANGED <<snaps, ck>> /\ \A u \in Triggers : ~InProgress(u)
      BY <1>0, <1>1, BeginEffect
    <2>2. QED
      BY <1>0, <2>1 DEF HoldInv, Copying, InProgress, Open, Exists
  <1>2. CASE TrigSync(t)
    <2>1. /\ trig[t].pc = "sync" /\ trig'[t].pc \in {"supersede", "find"}
          /\ \A u \in Triggers \ {t} : trig'[u] = trig[u]
          /\ UNCHANGED <<task, snaps, ck>>
      BY <1>0, <1>2, SyncEffect
    <2>2. QED
      BY <1>0, <2>1 DEF HoldInv, Copying, Open, Exists
  <1>3. CASE TrigSupersede(t)
    <2>1. /\ trig[t].pc = "supersede" /\ trig'[t].pc = "insert"
          /\ \A u \in Triggers \ {t} : trig'[u] = trig[u]
          /\ \A k \in Triggers :
                /\ snaps'[k].rev = snaps[k].rev
                /\ snaps[k].rev >= trig[t].rev => snaps'[k] = snaps[k]
          /\ UNCHANGED <<task, ck>>
      BY <1>0, <1>3, SupersedeEffect
    <2>2. InProgress(t)
      BY <2>1 DEF InProgress
    <2>3. \A u \in Triggers : trig'[u].pc # "carry"
      BY <1>0, <2>1, <2>2 DEF InProgress
    <2>4. \A a \in Actors : (Copying(a) /\ ck[a].rev = task.rev)' =>
             snaps'[ck'[a].key].rev = task'.rev /\ snaps'[ck'[a].key].status # "superseded"
      BY <1>0, <2>1, <2>2 DEF HoldInv, Copying
    <2>5. QED
      BY <2>3, <2>4 DEF HoldInv
  <1>4. CASE TrigInsert(t)
    <2>1. /\ trig[t].pc = "insert" /\ trig'[t].pc = "publish"
          /\ \A u \in Triggers \ {t} : trig'[u] = trig[u]
          /\ \A k \in Triggers : snaps[k].rev # trig[t].rev
          /\ UNCHANGED task
      BY <1>0, <1>4, InsertTrigger
    <2>2. /\ snaps'[t].rev = trig[t].rev /\ snaps'[t].status = "pending"
          /\ \A k \in Triggers \ {t} : snaps'[k] = snaps[k]
          /\ ck'[t].pc = "copy" /\ ck'[t].rev = trig[t].rev /\ ck'[t].key = t
          /\ \A a \in Actors \ {t} : ck'[a] = ck[a]
      BY <1>0, <1>4, InsertEffect
    <2>3. InProgress(t) /\ \A u \in Triggers : trig'[u].pc # "carry"
      BY <1>0, <2>1 DEF InProgress
    <2>4. \A a \in Actors : (Copying(a) /\ ck[a].rev = task.rev)' =>
             snaps'[ck'[a].key].rev = task'.rev /\ snaps'[ck'[a].key].status # "superseded"
      BY <1>0, <2>1, <2>2, <2>3 DEF HoldInv, Copying
    <2>5. QED
      BY <2>3, <2>4 DEF HoldInv
  <1>5. CASE TrigFind(t)
    <2>1. /\ trig[t].pc = "find"
          /\ \/ trig'[t].pc = "publish"
             \/ /\ trig'[t].pc = "carry" /\ trig'[t].key \in Carriable(t)
                /\ trig'[t].found = snaps[trig'[t].key].status
          /\ \A u \in Triggers \ {t} : trig'[u] = trig[u]
          /\ UNCHANGED <<task, snaps, ck>>
      BY <1>0, <1>5, FindEffect
    <2>2. InProgress(t)
      BY <2>1 DEF InProgress
    <2>3. QED
      BY <1>0, <2>1, <2>2 DEF HoldInv, Copying, Open, Exists, Carriable
  <1>6. CASE TrigCarry(t)
    <2> DEFINE k == trig[t].key
    <2>1. /\ trig[t].pc = "carry" /\ trig'[t].pc = "publish" /\ k \in Triggers
          /\ \A u \in Triggers \ {t} : trig'[u] = trig[u]
          /\ snaps'[k].rev = trig[t].rev
          /\ snaps[k].status = trig[t].found => snaps'[k].status = "pending"
          /\ \A l \in Triggers \ {k} : snaps'[l] = snaps[l]
          /\ ck'[t].pc = "copy" /\ ck'[t].rev = trig[t].rev /\ ck'[t].key = k
          /\ \A a \in Actors \ {t} : ck'[a] = ck[a]
          /\ UNCHANGED task
      BY <1>0, <1>6, CarryEffect
    <2>2. InProgress(t) /\ \A u \in Triggers : trig'[u].pc # "carry"
      BY <1>0, <2>1 DEF InProgress
    <2>3. snaps'[k].status = "pending" /\ snaps[k].rev < task.rev
      BY <2>1 DEF HoldInv
    <2> HIDE DEF k
    <2>4. \A a \in Actors : (Copying(a) /\ ck[a].rev = task.rev)' =>
             snaps'[ck'[a].key].rev = task'.rev /\ snaps'[ck'[a].key].status # "superseded"
      BY <1>0, <2>1, <2>2, <2>3 DEF HoldInv, Copying
    <2>5. QED
      BY <2>2, <2>4 DEF HoldInv
  <1>7. CASE TrigPublish(t) \/ TrigFail(t)
    <2>1. /\ trig'[t].pc = "done" /\ task'.rev = task.rev
          /\ \A u \in Triggers \ {t} : trig'[u] = trig[u]
          /\ UNCHANGED <<snaps, ck>>
      BY <1>0, <1>7, PublishEffect, FailEffect
    <2>2. QED
      BY <1>0, <2>1 DEF HoldInv, Copying, Open, Exists
  <1>8. QED
    BY <1>1, <1>2, <1>3, <1>4, <1>5, <1>6, <1>7 DEF TriggerStep, TrigStep

LEMMA HoldCheckpoint ==
    ASSUME Base, HoldInv, Calm', NEW a \in Actors, CkStep(a)
    PROVE  HoldInv'
  <1>0. /\ "late" \notin races' /\ IInv /\ ActorInv
        /\ \A o \in Actors : Copying(o) => ck[o].key \in Triggers
        /\ \A u \in Triggers : trig[u].pc = "carry" => trig[u].key \in Triggers
        /\ task.rev \in Nat /\ \A k \in Triggers : snaps[k].rev \in Nat
    BY DEF Base, Calm, IInv, KeyInv, Copying, TypeOK, Task, Snap
  <1>1. CASE CkLoad(a)
    <2>1. /\ \/ ck'[a].pc = "none"
             \/ /\ snaps[ck'[a].key].rev = ck'[a].rev
                /\ snaps[ck'[a].key].status # "superseded"
          /\ \A o \in Actors \ {a} : ck'[o] = ck[o]
          /\ UNCHANGED <<task, snaps, trig>>
      BY <1>0, <1>1, LoadEffect
    <2>2. QED
      BY <1>0, <2>1 DEF HoldInv, Copying, Open, Exists
  <1>2. CASE CkCopy(a)
    <2> DEFINE k == ck[a].key
    <2>1. /\ k \in Triggers
          /\ snaps'[k].rev = snaps[k].rev /\ snaps'[k].status = snaps[k].status
          /\ \A l \in Triggers \ {k} : snaps'[l] = snaps[l]
          /\ ck[a].pc = "copy" /\ ck'[a].rev = ck[a].rev /\ ck'[a].key = ck[a].key
          /\ \A o \in Actors \ {a} : ck'[o] = ck[o]
          /\ UNCHANGED <<task, trig>>
      BY <1>0, <1>2, CopyEffect, Zenon
    <2> HIDE DEF k
    <2>2. \A l \in Triggers : snaps'[l].rev = snaps[l].rev
                              /\ snaps'[l].status = snaps[l].status
      BY <2>1
    <2>3. QED
      BY <1>0, <2>1, <2>2 DEF HoldInv, Copying, Open, Exists
  <1>3. CASE CkSave(a)
    <2> DEFINE k == ck[a].key
    <2>1. /\ ck[a].pc = "save" /\ k \in Triggers
          /\ snaps'[k].status \in {snaps[k].status, ck[a].new}
          /\ snaps'[k].rev = snaps[k].rev
          /\ \A l \in Triggers \ {k} : snaps'[l] = snaps[l]
          /\ ck'[a].pc = "none"
          /\ \A o \in Actors \ {a} : ck'[o] = ck[o]
          /\ UNCHANGED <<task, trig>>
          /\ ck[a].rev = task.rev
      BY <1>0, <1>3, SaveEffect
    <2>2. snaps[k].rev = task.rev /\ snaps[k].status # "superseded"
          /\ ck[a].new # "superseded"
      BY <1>0, <2>1 DEF HoldInv, Copying, ActorInv
    <2> HIDE DEF k
    <2>3. \A u \in Triggers : trig[u].pc = "carry" => trig[u].key # k
      BY <1>0, <2>2 DEF HoldInv
    <2>4. \A l \in Triggers : snaps'[l].rev = snaps[l].rev
                              /\ (snaps[l].status # "superseded" =>
                                    snaps'[l].status # "superseded")
      BY <2>1, <2>2
    <2>5. \A o \in Actors : (Copying(o) /\ ck[o].rev = task.rev)' =>
             snaps'[ck'[o].key].rev = task'.rev /\ snaps'[ck'[o].key].status # "superseded"
      BY <1>0, <2>1, <2>4 DEF HoldInv, Copying
    <2>6. \A u \in Triggers : trig'[u].pc = "carry" =>
             /\ Open(trig[u].key)' /\ snaps'[trig'[u].key].rev < task'.rev
             /\ snaps'[trig'[u].key].status = trig'[u].found
      BY <1>0, <2>1, <2>3 DEF HoldInv, Open, Exists
    <2>7. QED
      BY <2>5, <2>6 DEF HoldInv
  <1>4. QED
    BY <1>1, <1>2, <1>3 DEF CkStep

\* The worker leaves the snapshots, the triggers and every copying alone.
LEMMA WorkerKeeps ==
    ASSUME Base, WorkerStep
    PROVE  /\ task'.rev = task.rev /\ task'.tree = task.tree
           /\ UNCHANGED <<snaps, trig>>
           /\ \A a \in Actors : Copying(a)' => Copying(a) /\ ck'[a] = ck[a]
  <1>0. IInv /\ ActorInv
    BY DEF Base
  <1>1. CASE Claim \/ RunSync \/ RunMoves \/ \E f \in Files : RunReview(f)
    BY <1>0, <1>1, ClaimEffect, RunSyncEffect, MovesEffect, ReviewEffect DEF Copying
  <1>2. ASSUME NEW f \in Files, RunStore(f)
        PROVE  /\ UNCHANGED <<task, snaps, trig>> /\ ck'[f].pc = "load"
               /\ \A a \in Actors \ {f} : ck'[a] = ck[a]
    BY <1>0, <1>2, StoreEffect
  <1>3. CASE RunEnds
    <2>1. /\ task'.rev = task.rev /\ task'.tree = task.tree /\ UNCHANGED <<snaps, trig>>
          /\ ck'[Worker].pc = "load"
          /\ \A a \in Actors \ {Worker} : ck'[a] = ck[a]
      BY <1>0, <1>3, EndsEffect
    <2>2. QED
      BY <2>1 DEF Copying
  <1>4. CASE Crash
    BY <1>0, <1>4, CrashEffect DEF Copying
  <1>5. QED
    BY <1>1, <1>2, <1>3, <1>4 DEF WorkerStep, Copying

\* A checkpoint leaves everything but copies, states and itself alone.
LEMMA CheckpointKeeps ==
    ASSUME IInv, NEW a \in Actors, CkStep(a)
    PROVE  /\ UNCHANGED <<task, code, trig, run>>
           /\ \A l \in Triggers : /\ snaps'[l].rev = snaps[l].rev
                                   /\ snaps'[l].refs = snaps[l].refs
                                   /\ snaps'[l].removed = snaps[l].removed
           /\ \A o \in Actors \ {a} : ck'[o] = ck[o]
  <1>1. CASE CkLoad(a)
    BY <1>1, LoadEffect
  <1>2. CASE CkCopy(a)
    <2> DEFINE k == ck[a].key
    <2>1. /\ snaps'[k].rev = snaps[k].rev /\ snaps'[k].refs = snaps[k].refs
          /\ snaps'[k].removed = snaps[k].removed
          /\ \A l \in Triggers \ {k} : snaps'[l] = snaps[l]
          /\ \A o \in Actors \ {a} : ck'[o] = ck[o]
          /\ UNCHANGED <<task, code, trig, run>>
      BY <1>2, CopyEffect, Zenon
    <2>2. QED
      BY <2>1
  <1>3. CASE CkSave(a)
    <2> DEFINE k == ck[a].key
    <2>1. /\ snaps'[k].rev = snaps[k].rev /\ snaps'[k].refs = snaps[k].refs
          /\ snaps'[k].removed = snaps[k].removed
          /\ \A l \in Triggers \ {k} : snaps'[l] = snaps[l]
          /\ \A o \in Actors \ {a} : ck'[o] = ck[o]
          /\ UNCHANGED <<task, code, trig, run>>
      BY <1>3, SaveEffect, Zenon
    <2>2. QED
      BY <2>1
  <1>4. QED
    BY <1>1, <1>2, <1>3 DEF CkStep

LEMMA HoldWorker ==
    ASSUME Base, HoldInv, WorkerStep
    PROVE  HoldInv'
  BY WorkerKeeps DEF HoldInv, Open, Exists

-----------------------------------------------------------------------------
(* The stored blocks are those of the workspace *)

LEMMA CodeTrigger ==
    ASSUME Base, OneInv, CodeInv, Calm', NEW t \in Triggers, TriggerStep(t)
    PROVE  CodeInv'
  <1>0. /\ "late" \notin races' /\ "overlap" \notin races' /\ IInv /\ TypeOK
        /\ task.rev \in Nat /\ task.rev > 0
        /\ \A k \in Triggers : snaps[k].rev \in Nat /\ snaps[k].rev <= task.rev
        /\ InProgress(t) => /\ trig[t].rev = task.rev /\ trig[t].tree = task.tree
                            /\ run.pc # "idle" => run.rev < task.rev
        /\ \A u \in Triggers : InProgress(t) /\ InProgress(u) => u = t
        /\ run.rev \in Nat /\ (run.pc # "idle" => run.rev <= task.rev)
        /\ task.tree \in SUBSET Blocks
    BY Alone, SameRevision DEF Base, Calm, OneInv, WorkInv, IInv, TypeOK, Task, Run
  <1>1. CASE TrigBegin(t)
    <2>1. /\ task'.rev = task.rev + 1 /\ trig'[t].pc = "sync"
          /\ \A u \in Triggers \ {t} : trig'[u] = trig[u]
          /\ UNCHANGED <<code, snaps, run, ck>> /\ \A u \in Triggers : ~InProgress(u)
      BY <1>0, <1>1, BeginEffect
    <2>2. ~Synchronized'
      BY <1>0, <2>1 DEF Synchronized, InProgress, Exists
    <2>3. QED
      BY <2>1, <2>2 DEF CodeInv, InProgress, Exists
  <1>2. CASE TrigSync(t)
    <2>1. /\ trig[t].pc = "sync" /\ code' = Synced(trig[t].tree)
          /\ trig'[t].pc = "supersede" =>
                 /\ trig'[t].changed \subseteq trig[t].tree
                 /\ trig'[t].changed # {} \/ trig'[t].removed
                 /\ trig'[t].work
          /\ trig'[t].pc \in {"supersede", "find"}
          /\ \A u \in Triggers \ {t} : trig'[u] = trig[u]
          /\ UNCHANGED <<task, snaps, run, ck>>
      BY <1>0, <1>2, SyncEffect
    <2>2. trig[t].tree = task.tree /\ \A u \in Triggers \ {t} : ~InProgress(u)
      BY <1>0, <2>1 DEF InProgress
    <2>3. Present' = task'.tree
      BY <1>0, <2>1, <2>2, SyncedPresent DEF Present
    <2>4. \A u \in Triggers : trig'[u].pc \in {"supersede", "insert"} =>
             /\ trig'[u].changed \subseteq task'.tree
             /\ trig'[u].changed # {} \/ trig'[u].removed
             /\ trig'[u].work
      BY <2>1, <2>2 DEF InProgress
    <2>5. \A k \in Triggers : Exists(k)' => snaps'[k].refs # {} \/ snaps'[k].removed
      BY <2>1 DEF CodeInv, Exists
    <2>6. QED
      BY <2>3, <2>4, <2>5 DEF CodeInv
  <1>3. CASE TrigSupersede(t)
    <2>1. /\ trig[t].pc = "supersede" /\ trig'[t].pc = "insert"
          /\ trig'[t].changed = trig[t].changed
          /\ trig'[t].removed = trig[t].removed /\ trig'[t].work = trig[t].work
          /\ \A u \in Triggers \ {t} : trig'[u] = trig[u]
          /\ \A k \in Triggers :
                 /\ snaps'[k].rev = snaps[k].rev /\ snaps'[k].refs = snaps[k].refs
                 /\ snaps'[k].removed = snaps[k].removed
          /\ UNCHANGED <<task, code, run>>
      BY <1>0, <1>3, SupersedeEffect
    <2>2. Present' = task'.tree
      BY <2>1 DEF CodeInv, Synchronized, Present
    <2>3. QED
      BY <2>1, <2>2 DEF CodeInv, Exists
  <1>4. CASE TrigInsert(t)
    <2>1. /\ trig[t].pc = "insert" /\ trig'[t].pc = "publish"
          /\ \A u \in Triggers \ {t} : trig'[u] = trig[u]
          /\ UNCHANGED <<task, code, run>>
      BY <1>0, <1>4, InsertTrigger
    <2>2. /\ \A b \in trig[t].changed : code[b] # "absent" => b \in snaps'[t].refs
          /\ snaps'[t].removed = trig[t].removed
          /\ \A k \in Triggers \ {t} : snaps'[k] = snaps[k]
      BY <1>0, <1>4, InsertEffect
    <2>3. Present = task.tree
      BY <2>1 DEF CodeInv, Synchronized
    <2>4. \A b \in task.tree : code[b] # "absent"
      BY <2>3 DEF Present
    <2>5. snaps'[t].refs # {} \/ snaps'[t].removed
      BY <2>1, <2>2, <2>4 DEF CodeInv
    <2>6. Present' = task'.tree
      BY <2>1, <2>3 DEF Present
    <2>7. QED
      BY <2>1, <2>2, <2>5, <2>6 DEF CodeInv, Exists
  <1>5. CASE TrigFind(t)
    <2>1. /\ trig[t].pc = "find" /\ trig'[t].pc \in {"publish", "carry"}
          /\ \A u \in Triggers \ {t} : trig'[u] = trig[u]
          /\ UNCHANGED <<task, code, snaps, run>>
      BY <1>0, <1>5, FindEffect
    <2>2. Present' = task'.tree
      BY <2>1 DEF CodeInv, Synchronized, Present
    <2>3. QED
      BY <2>1, <2>2 DEF CodeInv, Exists
  <1>6. CASE TrigCarry(t)
    <2> DEFINE k == trig[t].key
    <2>1. /\ trig[t].pc = "carry" /\ trig'[t].pc = "publish" /\ k \in Triggers
          /\ \A u \in Triggers \ {t} : trig'[u] = trig[u]
          /\ snaps'[k].refs = snaps[k].refs /\ snaps'[k].removed = snaps[k].removed
          /\ \A l \in Triggers \ {k} : snaps'[l] = snaps[l]
          /\ UNCHANGED <<task, code, run>>
      BY <1>0, <1>6, CarryEffect
    <2>2. Present' = task'.tree
      BY <2>1 DEF CodeInv, Synchronized, Present
    <2>3. Exists(k)
      BY <2>1 DEF Base, BornInv
    <2> HIDE DEF k
    <2>4. QED
      BY <2>1, <2>2, <2>3 DEF CodeInv, Exists
  <1>7. CASE TrigPublish(t) \/ TrigFail(t)
    <2>1. /\ trig'[t].pc = "done" /\ task'.rev = task.rev /\ task'.tree = task.tree
          /\ \A u \in Triggers \ {t} : trig'[u] = trig[u]
          /\ UNCHANGED <<code, snaps, run>>
      BY <1>0, <1>7, PublishEffect, FailEffect
    <2>2. Synchronized' => Synchronized
      BY <2>1 DEF Synchronized, Exists
    <2>3. Present' = Present
      BY <2>1 DEF Present
    <2>4. QED
      BY <2>1, <2>2, <2>3 DEF CodeInv, Exists
  <1>8. QED
    BY <1>1, <1>2, <1>3, <1>4, <1>5, <1>6, <1>7 DEF TriggerStep, TrigStep

LEMMA CodeCheckpoint ==
    ASSUME Base, CodeInv, NEW a \in Actors, CkStep(a)
    PROVE  CodeInv'
  <1>1. /\ UNCHANGED <<task, code, trig, run>>
        /\ \A k \in Triggers :
              /\ snaps'[k].rev = snaps[k].rev /\ snaps'[k].refs = snaps[k].refs
              /\ snaps'[k].removed = snaps[k].removed
    <2>1. CASE CkLoad(a)
      BY <2>1, LoadEffect DEF Base
    <2>2. CASE CkCopy(a) \/ CkSave(a)
      <3> DEFINE k == ck[a].key
      <3>1. /\ UNCHANGED <<task, code, trig, run>>
            /\ snaps'[k].rev = snaps[k].rev /\ snaps'[k].refs = snaps[k].refs
            /\ snaps'[k].removed = snaps[k].removed
            /\ \A l \in Triggers \ {k} : snaps'[l] = snaps[l]
        BY <2>2, CopyEffect, SaveEffect, Zenon DEF Base
      <3> HIDE DEF k
      <3>2. QED
        BY <3>1
    <2>3. QED
      BY <2>1, <2>2 DEF CkStep
  <1>2. Synchronized' => Synchronized
    BY <1>1 DEF Synchronized, Exists
  <1>3. Present' = Present
    BY <1>1 DEF Present
  <1>4. QED
    BY <1>1, <1>2, <1>3 DEF CodeInv, Exists

LEMMA CodeWorker ==
    ASSUME Base, CodeInv, ReviewInv, Calm', WorkerStep
    PROVE  CodeInv'
  <1>0. /\ "late" \notin races' /\ IInv /\ TypeOK /\ ActorInv
        /\ task.tree \in SUBSET Blocks
    BY DEF Base, Calm, IInv, TypeOK, Task
  <1>1. CASE RunSync
    <2>1. /\ code' = Synced(run.tree) /\ task.rev = run.rev /\ run.pc = "sync"
          /\ UNCHANGED <<task, snaps, trig>>
      BY <1>0, <1>1, RunSyncEffect
    <2>2. run.tree = task.tree
      BY <2>1 DEF Base, WorkInv
    <2>3. Present' = task'.tree
      BY <1>0, <2>1, <2>2, SyncedPresent DEF Present
    <2>4. QED
      BY <2>1, <2>3 DEF CodeInv, Exists
  <1>2. ASSUME NEW f \in Files, RunStore(f)
        PROVE  CodeInv'
    <2>1. /\ run.pc = "review" /\ run.thread[f] = "store" /\ task.rev = run.rev
          /\ run'.pc = "review" /\ run'.rev = run.rev
          /\ \A b \in Blocks : code'[b] = IF FileOf[b] = f /\ FilePresent(b, code)
                                            THEN run.image[b] ELSE code[b]
          /\ UNCHANGED <<task, snaps, trig>>
      BY <1>0, <1>2, StoreEffect
    <2>2. \A b \in Blocks : code'[b] = "absent" <=> code[b] = "absent"
      BY <2>1 DEF ReviewInv
    <2>3. Present' = Present
      BY <2>2 DEF Present
    <2>4. Synchronized
      BY <2>1 DEF Synchronized
    <2>5. QED
      BY <2>1, <2>3, <2>4 DEF CodeInv, Exists
  <1>3. CASE Claim \/ RunMoves \/ RunEnds \/ Crash \/ \E f \in Files : RunReview(f)
    <2>1. /\ task'.rev = task.rev /\ task'.tree = task.tree
          /\ UNCHANGED <<code, snaps, trig>>
          /\ run'.pc = "review" => run.pc = "review" /\ run'.rev = run.rev
      <3>1. CASE RunEnds
        <4>1. /\ task'.rev = task.rev /\ task'.tree = task.tree
              /\ UNCHANGED <<code, snaps, trig>> /\ run'.pc = "closing"
          BY <1>0, <3>1, EndsEffect
        <4>2. QED
          BY <4>1
      <3>2. ASSUME NEW f \in Files, RunReview(f)
            PROVE  /\ UNCHANGED <<task, code, snaps, trig>>
                   /\ run.pc = "review" /\ run'.rev = run.rev
        BY <1>0, <3>2, ReviewEffect
      <3>3. CASE Claim \/ RunMoves \/ Crash
        BY <1>0, <3>3, ClaimEffect, MovesEffect, CrashEffect
      <3>4. QED
        BY <1>3, <3>1, <3>2, <3>3
    <2>2. Synchronized' => Synchronized
      BY <2>1 DEF Synchronized, Exists
    <2>3. Present' = Present
      BY <2>1 DEF Present
    <2>4. QED
      BY <2>1, <2>2, <2>3 DEF CodeInv, Exists
  <1>4. QED
    BY <1>1, <1>2, <1>3 DEF WorkerStep

-----------------------------------------------------------------------------
(* A run of the current revision reviews what is unfinished *)

\* A submission moves the task on, or synchronizes while no run of its revision
\* is at work.
LEMMA ReviewTrigger ==
    ASSUME Base, OneInv, ReviewInv, Calm', NEW t \in Triggers, TriggerStep(t)
    PROVE  ReviewInv'
  <1>0. /\ "late" \notin races' /\ IInv /\ task.rev \in Nat /\ run.rev \in Nat
        /\ run.pc # "idle" => run.rev <= task.rev
        /\ InProgress(t) /\ run.pc # "idle" => run.rev < task.rev
    BY DEF Base, Calm, OneInv, WorkInv, IInv, TypeOK, Task, Run
  <1>1. CASE TrigBegin(t)
    <2>1. task'.rev = task.rev + 1 /\ UNCHANGED run
      BY <1>0, <1>1, BeginEffect
    <2>2. QED
      BY <1>0, <2>1 DEF ReviewInv
  <1>2. CASE TrigSync(t)
    <2>1. trig[t].pc = "sync" /\ UNCHANGED <<task, run>>
      BY <1>0, <1>2, SyncEffect
    <2>2. QED
      BY <1>0, <2>1 DEF ReviewInv, InProgress
  <1>3. CASE ~TrigBegin(t) /\ ~TrigSync(t)
    <2>1. task'.rev = task.rev /\ UNCHANGED <<code, run>>
      <3>1. CASE TrigSupersede(t) \/ TrigInsert(t) \/ TrigFind(t) \/ TrigCarry(t)
        BY <3>1 DEF TrigSupersede, TrigInsert, TrigFind, TrigCarry
      <3>2. CASE TrigPublish(t) \/ TrigFail(t)
        BY <1>0, <3>2, PublishEffect, FailEffect
      <3>3. QED
        BY <1>3, <3>1, <3>2 DEF TriggerStep, TrigStep
    <2>2. QED
      BY <2>1 DEF ReviewInv
  <1>4. QED
    BY <1>1, <1>2, <1>3

LEMMA ReviewCheckpoint ==
    ASSUME Base, ReviewInv, NEW a \in Actors, CkStep(a)
    PROVE  ReviewInv'
  <1>1. UNCHANGED <<task, code, run>>
    BY LoadEffect, CopyEffect, SaveEffect DEF CkStep, Base
  <1>2. QED
    BY <1>1 DEF ReviewInv

\* The thread of a file takes a block from the list, and saves it with the rest of
\* the file as it was.
LEMMA ReviewWorker ==
    ASSUME Base, CodeInv, ReviewInv, Calm', WorkerStep
    PROVE  ReviewInv'
  <1>0. /\ "late" \notin races' /\ IInv /\ ActorInv
        /\ code \in [Blocks -> Result] /\ run.todo \subseteq Blocks
        /\ \A b \in Blocks : FileOf[b] \in Files
    BY DEF Base, Calm, IInv, TypeOK, Run
  <1>1. CASE RunSync
    <2>1. /\ run.pc = "sync" /\ code' = Synced(run.tree)
          /\ run'.todo = Incomplete(code') /\ run'.thread = run.thread
      BY <1>0, <1>1, RunSyncEffect
    <2>2. \A f \in Files : run'.thread[f] = "review"
      BY <2>1 DEF Base, WorkInv
    <2>3. code' \in [Blocks -> Result]
      BY <1>0, <2>1, ResultTypes
    <2>4. \A b \in Blocks : b \in run'.todo <=> code'[b] \in {"pending", "failed"}
      BY <2>1 DEF Incomplete
    <2>5. run'.todo \subseteq Blocks
      BY <2>1 DEF Incomplete
    <2>6. QED
      BY <1>0, <2>2, <2>3, <2>4, <2>5 DEF ReviewInv, Result
  <1>2. ASSUME NEW f \in Files, RunReview(f), (run.pc = "review" /\ run.rev = task.rev)'
        PROVE  ReviewInv'
    <2>1. /\ run.pc = "review" /\ run.thread[f] = "review" /\ run'.rev = run.rev
          /\ \A g \in Files \ {f} : run'.thread[g] = run.thread[g]
          /\ \/ /\ run'.thread[f] = "interrupted"
                /\ run'.todo = run.todo /\ run'.ok = run.ok /\ run'.image = run.image
             \/ \E b \in run.todo, result \in {"completed", "failed"} :
                   /\ b \in Blocks /\ FileOf[b] = f
                   /\ run'.thread[f] = "store" /\ run'.todo = run.todo \ {b}
                   /\ run'.ok => run.ok /\ result = "completed"
                   /\ \A x \in Blocks :
                         run'.image[x] = IF x = b THEN result
                                         ELSE IF FileOf[x] = f THEN code[x]
                                         ELSE run.image[x]
          /\ UNCHANGED <<task, code>>
      BY <1>0, <1>2, ReviewEffect
    <2>2. /\ \A b \in run.todo : code[b] \in {"pending", "failed"}
          /\ \A b \in Blocks : run.thread[FileOf[b]] = "store" =>
                \/ run.image[b] = code[b]
                \/ /\ b \notin run.todo
                   /\ code[b] \in {"pending", "failed"}
                   /\ run.image[b] \in {"completed", "failed"}
          /\ run.ok => \A b \in Blocks :
                \/ code[b] \in {"absent", "completed"}
                \/ b \in run.todo
                \/ run.thread[FileOf[b]] = "store" /\ run.image[b] = "completed"
      BY <1>2, <2>1 DEF ReviewInv
    <2>3. CASE run'.thread[f] = "interrupted" /\ run'.todo = run.todo
               /\ run'.ok = run.ok /\ run'.image = run.image
      BY <1>0, <2>1, <2>2, <2>3 DEF ReviewInv
    <2>4. ASSUME NEW b \in run.todo, NEW result \in {"completed", "failed"},
                 b \in Blocks, FileOf[b] = f,
                 run'.thread[f] = "store", run'.todo = run.todo \ {b},
                 run'.ok => run.ok /\ result = "completed",
                 \A x \in Blocks :
                    run'.image[x] = IF x = b THEN result
                                    ELSE IF FileOf[x] = f THEN code[x]
                                    ELSE run.image[x]
          PROVE  ReviewInv'
      <3>1. \A x \in run'.todo : code'[x] \in {"pending", "failed"}
        BY <2>1, <2>2, <2>4
      <3>2. \A x \in Blocks : run'.thread[FileOf[x]] = "store" =>
                \/ run'.image[x] = code'[x]
                \/ /\ x \notin run'.todo
                   /\ code'[x] \in {"pending", "failed"}
                   /\ run'.image[x] \in {"completed", "failed"}
        <4> SUFFICES ASSUME NEW x \in Blocks, run'.thread[FileOf[x]] = "store"
                     PROVE  \/ run'.image[x] = code'[x]
                            \/ /\ x \notin run'.todo
                               /\ code'[x] \in {"pending", "failed"}
                               /\ run'.image[x] \in {"completed", "failed"}
          OBVIOUS
        <4>1. CASE x = b
          BY <2>1, <2>2, <2>4, <4>1
        <4>2. CASE x # b /\ FileOf[x] = f
          BY <2>1, <2>4, <4>2
        <4>3. CASE FileOf[x] # f
          BY <1>0, <2>1, <2>2, <2>4, <4>3
        <4>4. QED
          BY <4>1, <4>2, <4>3
      <3>3. run'.ok => \A x \in Blocks :
                \/ code'[x] \in {"absent", "completed"}
                \/ x \in run'.todo
                \/ run'.thread[FileOf[x]] = "store" /\ run'.image[x] = "completed"
        <4> SUFFICES ASSUME run'.ok, NEW x \in Blocks
                     PROVE  \/ code'[x] \in {"absent", "completed"}
                            \/ x \in run'.todo
                            \/ /\ run'.thread[FileOf[x]] = "store"
                               /\ run'.image[x] = "completed"
          OBVIOUS
        <4>0. run.ok /\ result = "completed"
          BY <2>4, Zenon
        <4>1. CASE x = b
          BY <2>4, <4>0, <4>1
        <4>2. CASE x # b /\ FileOf[x] = f
          BY <2>1, <2>2, <2>4, <4>0, <4>2
        <4>3. CASE x # b /\ FileOf[x] # f
          BY <1>0, <2>1, <2>2, <2>4, <4>0, <4>3
        <4>4. QED
          BY <4>1, <4>2, <4>3
      <3>4. QED
        BY <3>1, <3>2, <3>3 DEF ReviewInv
    <2>5. QED
      BY <2>1, <2>3, <2>4
  <1>3. ASSUME NEW f \in Files, RunStore(f)
        PROVE  ReviewInv'
    <2>1. /\ run.pc = "review" /\ run.thread[f] = "store" /\ task.rev = run.rev
          /\ run'.todo = run.todo /\ run'.ok = run.ok
          /\ run'.thread[f] = "review"
          /\ \A g \in Files \ {f} : run'.thread[g] = run.thread[g]
          /\ \A b \in Blocks : FileOf[b] # f => run'.image[b] = run.image[b]
          /\ \A b \in Blocks : code'[b] = IF FileOf[b] = f /\ FilePresent(b, code)
                                             THEN run.image[b] ELSE code[b]
      BY <1>0, <1>3, StoreEffect
    <2>2. /\ \A b \in run.todo : code[b] \in {"pending", "failed"}
          /\ \A b \in Blocks : run.thread[FileOf[b]] = "store" =>
                \/ run.image[b] = code[b]
                \/ /\ b \notin run.todo
                   /\ code[b] \in {"pending", "failed"}
                   /\ run.image[b] \in {"completed", "failed"}
          /\ run.ok => \A b \in Blocks :
                \/ code[b] \in {"absent", "completed"}
                \/ b \in run.todo
                \/ run.thread[FileOf[b]] = "store" /\ run.image[b] = "completed"
      BY <2>1 DEF ReviewInv
    <2>3. \A b \in run'.todo : code'[b] \in {"pending", "failed"}
      BY <1>0, <2>1, <2>2
    <2>4. \A b \in Blocks : run'.thread[FileOf[b]] = "store" =>
                \/ run'.image[b] = code'[b]
                \/ /\ b \notin run'.todo
                   /\ code'[b] \in {"pending", "failed"}
                   /\ run'.image[b] \in {"completed", "failed"}
      BY <1>0, <2>1, <2>2
    <2>5. \A b \in Blocks : FileOf[b] = f /\ code[b] # "absent" => FilePresent(b, code)
      BY DEF FilePresent, FileMates, BlocksOf
    <2>6. run'.ok => \A b \in Blocks :
                \/ code'[b] \in {"absent", "completed"}
                \/ b \in run'.todo
                \/ run'.thread[FileOf[b]] = "store" /\ run'.image[b] = "completed"
      BY <1>0, <2>1, <2>2, <2>5
    <2>7. QED
      BY <2>3, <2>4, <2>6 DEF ReviewInv
  <1>4. CASE RunMoves
    <2>1. /\ UNCHANGED <<task, code>>
          /\ run'.pc = "review" =>
                 /\ run.pc = "review" /\ run'.rev = run.rev
                 /\ run'.todo = run.todo /\ run'.ok = run.ok /\ run'.image = run.image
                 /\ \A f \in Files :
                       \/ run'.thread[f] = run.thread[f]
                       \/ run.thread[f] = "review" /\ run'.thread[f] = "raised"
      BY <1>0, <1>4, MovesEffect
    <2>2. QED
      BY <1>0, <2>1 DEF ReviewInv
  <1>5. CASE Claim \/ RunEnds \/ Crash
    <2>1. run'.pc # "review"
      BY <1>0, <1>5, ClaimEffect, EndsEffect, CrashEffect
    <2>2. QED
      BY <2>1 DEF ReviewInv
  <1>6. ASSUME NEW f \in Files, RunReview(f)
        PROVE  ReviewInv'
    BY <1>2, <1>6 DEF ReviewInv
  <1>7. QED
    BY <1>1, <1>3, <1>4, <1>5, <1>6 DEF WorkerStep

-----------------------------------------------------------------------------
(* An open snapshot has the revision of the task, or is about to be superseded *)
(* or carried along                                                            *)

LEMMA OpenTrigger ==
    ASSUME Base, OneInv, HoldInv, OpenInv, Calm', "failed_trigger" \notin races',
           NEW t \in Triggers, TriggerStep(t)
    PROVE  OpenInv'
  <1>0. /\ "late" \notin races' /\ "overlap" \notin races' /\ IInv
        /\ task.rev \in Nat
        /\ \A k \in Triggers : snaps[k].rev \in Nat /\ snaps[k].rev <= task.rev
        /\ InProgress(t) => trig[t].rev = task.rev
        /\ \A u \in Triggers : InProgress(t) /\ InProgress(u) => u = t
    BY Alone, SameRevision DEF Base, Calm, OneInv
  <1>1. CASE TrigBegin(t)
    BY <1>0, <1>1, BeginEffect DEF OpenInv, Open, Exists
  <1>2. CASE TrigSync(t)
    BY <1>0, <1>2, SyncEffect DEF OpenInv, Open, Exists, InProgress
  <1>3. CASE TrigSupersede(t)
    <2>1. /\ trig[t].rev = task.rev /\ UNCHANGED task
          /\ \A k \in Triggers :
                /\ snaps'[k].rev = snaps[k].rev
                /\ Open(k) /\ snaps[k].rev < trig[t].rev => snaps'[k].status = "superseded"
                /\ ~(Open(k) /\ snaps[k].rev < trig[t].rev) => snaps'[k] = snaps[k]
      BY <1>0, <1>3, SupersedeEffect DEF InProgress
    <2>2. \A k \in Triggers : Open(k)' => Open(k) /\ snaps[k].rev = task.rev
      BY <1>0, <2>1 DEF Open, Exists, OpenStatus
    <2>3. QED
      BY <2>1, <2>2 DEF OpenInv
  <1>4. CASE TrigInsert(t)
    <2>1. /\ trig[t].pc = "insert" /\ UNCHANGED task
          /\ \A k \in Triggers : snaps[k].rev # trig[t].rev
      BY <1>0, <1>4, InsertTrigger
    <2>2. \A k \in Triggers : ~Open(k)
      BY <1>0, <2>1 DEF OpenInv, InProgress
    <2>3. /\ snaps'[t].rev = trig[t].rev
          /\ \A k \in Triggers \ {t} : snaps'[k] = snaps[k]
      BY <1>0, <1>4, InsertEffect
    <2>4. QED
      BY <1>0, <2>1, <2>2, <2>3 DEF OpenInv, Open, Exists, InProgress
  <1>5. CASE TrigFind(t)
    <2>1. /\ trig[t].pc = "find" /\ UNCHANGED <<task, snaps>>
          /\ \A u \in Triggers \ {t} : trig'[u] = trig[u]
          /\ \/ trig'[t].pc = "carry"
             \/ Carriable(t) = {}
      BY <1>0, <1>5, FindEffect
    <2>2. Carriable(t) = {} => \A k \in Triggers : Open(k) => snaps[k].rev = task.rev
      BY <1>0, <2>1 DEF Carriable, InProgress
    <2>3. QED
      BY <1>0, <2>1, <2>2 DEF OpenInv, Open, Exists, InProgress
  <1>6. CASE TrigCarry(t)
    <2> DEFINE k == trig[t].key
    <2>1. /\ trig[t].pc = "carry" /\ k \in Triggers
          /\ snaps'[k].rev = trig[t].rev
          /\ \A l \in Triggers \ {k} : snaps'[l] = snaps[l]
          /\ UNCHANGED task
      BY <1>0, <1>6, CarryEffect, Zenon
    <2>2. Open(k) /\ trig[t].rev = task.rev
      BY <1>0, <2>1 DEF HoldInv, InProgress
    <2>3. \A l \in Triggers : Open(l)' => l = k
      BY <2>1, <2>2 DEF OpenInv, Open, Exists
    <2>4. QED
      BY <2>1, <2>2, <2>3 DEF OpenInv
  <1>7. CASE TrigPublish(t)
    <2>1. /\ trig[t].pc = "publish" /\ task'.rev = task.rev /\ UNCHANGED snaps
          /\ \A u \in Triggers \ {t} : trig'[u] = trig[u]
      BY <1>0, <1>7, PublishEffect
    <2>2. QED
      BY <1>0, <2>1 DEF OpenInv, Open, Exists
  <1>8. CASE TrigFail(t)
    BY <1>0, <1>8, FailEffect
  <1>9. QED
    BY <1>1, <1>2, <1>3, <1>4, <1>5, <1>6, <1>7, <1>8 DEF TriggerStep, TrigStep

\* A checkpoint may open its snapshot again, and there is no other of its revision.
LEMMA OpenCheckpoint ==
    ASSUME Base, OneInv, HoldInv, OpenInv, Calm', NEW a \in Actors, CkStep(a)
    PROVE  OpenInv'
  <1>0. IInv /\ "late" \notin races'
    BY DEF Base, Calm
  <1>1. /\ UNCHANGED <<task, trig>>
        /\ \A k \in Triggers : snaps'[k].rev = snaps[k].rev
    BY <1>0, CheckpointKeeps
  <1>2. CASE \A k \in Triggers : snaps'[k].status = snaps[k].status
    BY <1>1, <1>2 DEF OpenInv, Open, Exists
  <1>3. CASE CkSave(a)
    <2> DEFINE k == ck[a].key
    <2>1. /\ ck[a].pc = "save" /\ k \in Triggers /\ ck[a].rev = task.rev
          /\ \A l \in Triggers \ {k} : snaps'[l] = snaps[l]
      BY <1>0, <1>3, SaveEffect
    <2>2. snaps[k].rev = task.rev /\ task.rev > 0
      BY <2>1 DEF HoldInv, Copying, Base, WorkInv
    <2> HIDE DEF k
    <2>3. \A t \in Triggers : trig[t].pc \notin {"sync", "supersede", "find", "carry"}
      BY <1>0, <2>1, <2>2, NoneYet DEF OneInv, InProgress
    <2>4. \A l \in Triggers : Open(l) => l = k
      BY <1>0, <2>1, <2>2, <2>3, SameRevision DEF OpenInv, Open
    <2>5. QED
      BY <1>1, <2>1, <2>2, <2>4 DEF OpenInv, Open, Exists
  <1>4. CASE CkLoad(a)
    BY <1>0, <1>2, <1>4, LoadEffect
  <1>5. CASE CkCopy(a)
    <2> DEFINE k == ck[a].key
    <2>1. /\ k \in Triggers /\ snaps'[k].status = snaps[k].status
          /\ \A l \in Triggers \ {k} : snaps'[l] = snaps[l]
      BY <1>0, <1>5, CopyEffect, Zenon
    <2>2. QED
      BY <1>2, <2>1
  <1>6. QED
    BY <1>3, <1>4, <1>5 DEF CkStep

LEMMA OpenWorker ==
    ASSUME Base, OpenInv, WorkerStep
    PROVE  OpenInv'
  BY WorkerKeeps DEF OpenInv, Open, Exists

-----------------------------------------------------------------------------
(* A snapshot of the revision of the task refers to its workspace *)

LEMMA RefsTrigger ==
    ASSUME Base, OneInv, CodeInv, RefsInv, Calm', "vanished" \notin races',
           NEW t \in Triggers, TriggerStep(t)
    PROVE  RefsInv'
  <1>0. /\ IInv /\ task.rev \in Nat
        /\ \A k \in Triggers : snaps[k].rev \in Nat /\ snaps[k].rev <= task.rev
        /\ trig[t].pc \in {"supersede", "insert", "find", "carry"} => Present = task.tree
        /\ \A k \in Triggers : snaps[k].refs \subseteq Blocks
    BY SameRevision DEF Base, CodeInv, Synchronized, IInv, TypeOK, Snap
  <1>1. CASE TrigBegin(t)
    <2>1. task'.rev = task.rev + 1 /\ UNCHANGED snaps
      BY <1>0, <1>1, BeginEffect
    <2>2. QED
      BY <1>0, <2>1 DEF RefsInv
  <1>2. CASE TrigSync(t) \/ TrigFind(t)
    BY <1>0, <1>2, SyncEffect, FindEffect DEF RefsInv, Exists
  <1>3. CASE TrigSupersede(t)
    BY <1>0, <1>3, SupersedeEffect DEF RefsInv, Exists
  <1>4. CASE TrigInsert(t)
    <2>1. trig[t].pc = "insert" /\ UNCHANGED task
      BY <1>0, <1>4, InsertTrigger
    <2>2. /\ snaps'[t].refs \subseteq trig[t].changed
          /\ \A k \in Triggers \ {t} : snaps'[k] = snaps[k]
      BY <1>0, <1>4, InsertEffect
    <2>3. trig[t].changed \subseteq task.tree
      BY <2>1 DEF CodeInv
    <2>4. QED
      BY <2>1, <2>2, <2>3 DEF RefsInv, Exists
  <1>5. CASE TrigCarry(t)
    <2> DEFINE k == trig[t].key
    <2>1. /\ trig[t].pc = "carry" /\ k \in Triggers
          /\ snaps'[k].refs = snaps[k].refs
          /\ \A b \in snaps[k].refs : code[b] # "absent"
          /\ \A l \in Triggers \ {k} : snaps'[l] = snaps[l]
          /\ UNCHANGED task
      BY <1>0, <1>5, CarryEffect
    <2> HIDE DEF k
    <2>2. snaps[k].refs \subseteq task.tree
      BY <1>0, <2>1 DEF Present
    <2>3. QED
      BY <2>1, <2>2 DEF RefsInv, Exists
  <1>6. CASE TrigPublish(t) \/ TrigFail(t)
    <2>1. task'.rev = task.rev /\ task'.tree = task.tree /\ UNCHANGED snaps
      BY <1>0, <1>6, PublishEffect, FailEffect
    <2>2. QED
      BY <2>1 DEF RefsInv, Exists
  <1>7. QED
    BY <1>1, <1>2, <1>3, <1>4, <1>5, <1>6 DEF TriggerStep, TrigStep

LEMMA RefsCheckpoint ==
    ASSUME Base, RefsInv, NEW a \in Actors, CkStep(a)
    PROVE  RefsInv'
  BY CheckpointKeeps DEF Base, RefsInv, Exists

LEMMA RefsWorker ==
    ASSUME Base, RefsInv, WorkerStep
    PROVE  RefsInv'
  BY WorkerKeeps DEF RefsInv, Exists

-----------------------------------------------------------------------------
(* A completed snapshot is whole *)

\* What holds while nothing is late, no submission fails, and none carries a
\* snapshot on whose blocks are gone.
Steady == OneInv /\ HoldInv /\ CodeInv /\ ReviewInv /\ OpenInv /\ RefsInv

\* While a submission is about to put its snapshot in place, no checkpoint of the
\* revision of the task has one.
LEMMA NoCopying ==
    ASSUME Base, OneInv, HoldInv, NEW t \in Triggers,
           trig[t].pc \in {"sync", "supersede", "insert", "find", "carry"}
    PROVE  /\ trig[t].rev = task.rev
           /\ \A k \in Triggers : snaps[k].rev # task.rev
           /\ \A a \in Actors : Copying(a) => ck[a].rev # task.rev
  <1>1. trig[t].rev = task.rev
    BY DEF OneInv, InProgress
  <1>2. \A k \in Triggers : snaps[k].rev # task.rev
    BY <1>1, NoneYet DEF Base
  <1>3. \A a \in Actors : Copying(a) => ck[a].key \in Triggers
    BY DEF Base, IInv, KeyInv, Copying
  <1>4. QED
    BY <1>1, <1>2, <1>3 DEF HoldInv

\* A checkpoint that copies has the snapshot of the task's revision, which is made
\* of stored blocks.
LEMMA CopyingCurrent ==
    ASSUME Base, HoldInv, CodeInv, RefsInv, NEW a \in Actors, Copying(a),
           ck[a].rev = task.rev, NEW k, k = ck[a].key
    PROVE  /\ k \in Triggers /\ Exists(k) /\ snaps[k].rev = task.rev
           /\ snaps[k] \in Snap
           /\ \A b \in snaps[k].refs : b \in Blocks /\ code[b] # "absent"
           /\ \A b \in snaps[k].refs : Copied(snaps[k])[b] = code[b]
           /\ \A b \in Blocks \ snaps[k].refs : Copied(snaps[k])[b] = "absent"
           /\ Copied(snaps[k]) \in [Blocks -> Result]
           /\ Present = task.tree
  <1>1. k \in Triggers /\ snaps[k].rev = task.rev /\ task.rev > 0 /\ task.rev \in Nat
    BY DEF Base, IInv, KeyInv, HoldInv, WorkInv, TypeOK, Task, Copying
  <1>2. Exists(k)
    BY <1>1 DEF Exists
  <1>3. snaps[k] \in Snap /\ snaps[k].refs \subseteq Blocks
        /\ snaps[k].copy \in [Blocks -> Result] /\ TypeOK
    BY <1>1 DEF Base, IInv, TypeOK, Snap
  <1>4. Present = task.tree
    BY <1>1, <1>2 DEF CodeInv, Synchronized
  <1>5. \A b \in snaps[k].refs : b \in Blocks /\ code[b] # "absent"
    BY <1>1, <1>2, <1>3, <1>4 DEF RefsInv, Present
  <1>6. \A b \in snaps[k].refs : Copied(snaps[k])[b] = code[b]
    BY <1>3, <1>5, CopiedRefs
  <1>7. \A b \in Blocks \ snaps[k].refs : snaps[k].copy[b] = "absent"
    BY <1>1 DEF Base, BornInv
  <1>8. \A b \in Blocks \ snaps[k].refs : Copied(snaps[k])[b] = "absent"
    BY <1>3, <1>7, CopiedRefs
  <1>9. Copied(snaps[k]) \in [Blocks -> Result]
    BY <1>3, ResultTypes DEF TypeOK
  <1>10. QED
    BY <1>1, <1>2, <1>3, <1>4, <1>5, <1>6, <1>8, <1>9

LEMMA WholeTrigger ==
    ASSUME Base, Steady, WholeInv, Calm', races' \subseteq {"parallel"},
           NEW t \in Triggers, TriggerStep(t)
    PROVE  WholeInv'
  <1>0. /\ "late" \notin races' /\ "overlap" \notin races' /\ IInv
        /\ task.rev \in Nat
        /\ \A k \in Triggers : snaps[k].rev \in Nat /\ snaps[k].rev <= task.rev
        /\ InProgress(t) => trig[t].rev = task.rev /\ trig[t].tree = task.tree
        /\ \A u \in Triggers : InProgress(t) /\ InProgress(u) => u = t
        /\ \A a \in Actors : ck[a].rev \in Nat /\ ck[a].rev <= task.rev
        /\ \A a \in Actors : ck[a].pc = "save" => ck[a].key \in Triggers
        /\ t \in Actors
        /\ \A k \in Triggers : snaps[k].refs \subseteq Blocks
    BY Alone, SameRevision DEF Base, Steady, Calm, OneInv, WorkInv, ActorInv, IInv, KeyInv,
                               TypeOK, Checkpoint, Actors, Snap
  <1>10. IInv /\ "vanished" \notin races'
    BY DEF Base
  <1>1. CASE TrigBegin(t)
    <2>1. /\ task'.rev = task.rev + 1 /\ UNCHANGED <<code, snaps, ck>>
          /\ \A u \in Triggers : ~InProgress(u)
      BY <1>0, <1>1, BeginEffect
    <2>2. \A a \in Actors : ~Current(a)'
      BY <1>0, <2>1 DEF Current
    <2>3. \A k \in Triggers : snaps'[k].rev # task'.rev
      BY <1>0, <2>1
    <2>4. \A u \in Triggers : trig[u].pc \notin {"supersede", "find", "carry"}
      BY <2>1 DEF InProgress
    <2>5. QED
      BY <2>1, <2>2, <2>3, <2>4 DEF WholeInv, Whole, Open, Exists
  <1>2. CASE TrigSync(t)
    <2>1. /\ trig[t].pc = "sync" /\ code' = Synced(task.tree)
          /\ trig'[t].pc \in {"supersede", "find"}
          /\ UNCHANGED <<task, snaps, ck>>
      BY <1>0, <1>2, SyncEffect DEF InProgress
    <2>2. \A k \in Triggers : snaps[k].rev < task.rev
      BY <1>0, <2>1, NoCopying DEF Steady
    <2>3. \A u \in Triggers : trig[u].pc \notin {"supersede", "find", "carry"}
      BY <1>0, <2>1 DEF InProgress
    <2>4. \A b \in Blocks : code[b] = "completed" => code'[b] \in {"completed", "absent"}
      BY <2>1 DEF Synced
    <2>5. QED
      BY <1>0, <2>1, <2>2, <2>3, <2>4 DEF WholeInv, Whole, Current, Open, Exists
  <1>3. CASE TrigSupersede(t)
    <2>1. /\ trig[t].pc = "supersede" /\ UNCHANGED <<task, code, ck>>
          /\ \A k \in Triggers :
                /\ snaps'[k].rev = snaps[k].rev /\ snaps'[k].refs = snaps[k].refs
                /\ snaps'[k].copy = snaps[k].copy
                /\ Open(k) /\ snaps[k].rev < trig[t].rev => snaps'[k].status = "superseded"
                /\ ~(Open(k) /\ snaps[k].rev < trig[t].rev) => snaps'[k] = snaps[k]
      BY <1>0, <1>3, SupersedeEffect
    <2>2. \A k \in Triggers : snaps[k].rev < trig[t].rev /\ snaps[k].rev # task.rev
      BY <1>0, <2>1, NoCopying DEF Steady
    <2>3. \A k \in Triggers : ~Open(k)'
      BY <2>1, <2>2 DEF Open, Exists, OpenStatus
    <2>4. \A k \in Triggers : snaps'[k].status = "completed" => snaps[k].status = "completed"
      BY <2>1
    <2>5. QED
      BY <1>0, <2>1, <2>2, <2>3, <2>4 DEF WholeInv, Whole, Current
  <1>4. CASE TrigInsert(t)
    <2>1. /\ trig[t].pc = "insert" /\ UNCHANGED <<task, code>>
      BY <1>0, <1>4, InsertTrigger
    <2>2. /\ \A k \in Triggers : snaps[k].rev # task.rev
          /\ \A a \in Actors : Copying(a) => ck[a].rev # task.rev
      BY <2>1, NoCopying DEF Steady
    <2>3. \A k \in Triggers : ~Open(k)
      BY <1>0, <2>1, <2>2 DEF Steady, OpenInv, InProgress
    <2>4. /\ snaps'[t].status = "pending"
          /\ snaps'[t].refs \subseteq trig[t].changed
          /\ \A b \in Blocks : snaps'[t].copy[b] = "absent"
          /\ \A k \in Triggers \ {t} : snaps'[k] = snaps[k]
          /\ ck'[t].pc = "copy"
          /\ \A a \in Actors \ {t} : ck'[a] = ck[a]
      BY <1>4, InsertEffect DEF Base
    <2>5. \A a \in Actors : ~(ck'[a].pc = "save" /\ Current(a)')
      BY <2>1, <2>2, <2>4 DEF Current, Copying
    <2>6. \A k \in Triggers : snaps'[k].status = "completed" => Whole(k)'
      BY <2>4 DEF WholeInv, Whole
    <2>7. \A k \in Triggers : Open(k)' \/ snaps'[k].rev = task'.rev => k = t
      BY <2>1, <2>2, <2>3, <2>4 DEF Open, Exists
    <2>8. QED
      BY <2>4, <2>5, <2>6, <2>7 DEF WholeInv
  <1>5. CASE TrigFind(t)
    <2>1. /\ trig[t].pc = "find" /\ UNCHANGED <<task, code, snaps, ck>>
          /\ \/ trig'[t].pc = "publish" /\ Carriable(t) = {}
             \/ trig'[t].pc = "carry"
      BY <1>0, <1>5, FindEffect
    <2>2. \A k \in Triggers : snaps[k].rev < task.rev /\ trig[t].rev = task.rev
      BY <1>0, <2>1, NoCopying DEF Steady
    <2>3. trig'[t].pc = "publish" => \A k \in Triggers : ~Open(k)
      BY <2>1, <2>2 DEF Carriable
    <2>4. QED
      BY <1>0, <2>1, <2>2, <2>3 DEF WholeInv, Whole, Current, Open, Exists
  <1>6. CASE TrigCarry(t)
    <2> DEFINE k == trig[t].key
    <2>1. /\ trig[t].pc = "carry" /\ k \in Triggers
          /\ snaps[k].status = trig[t].found => snaps'[k].status = "pending"
          /\ snaps'[k].refs = snaps[k].refs /\ snaps'[k].copy = snaps[k].copy
          /\ \A l \in Triggers \ {k} : snaps'[l] = snaps[l]
          /\ ck'[t].pc = "copy"
          /\ \A a \in Actors \ {t} : ck'[a] = ck[a]
          /\ \A b \in snaps[k].refs : code[b] # "absent"
          /\ UNCHANGED <<task, code>>
      BY <1>6, <1>10, CarryEffect
    <2>2. Open(k) /\ snaps[k].status = trig[t].found
      BY <2>1 DEF Steady, HoldInv
    <2> HIDE DEF k
    <2>3. /\ \A l \in Triggers : snaps[l].rev # task.rev
          /\ \A a \in Actors : Copying(a) => ck[a].rev # task.rev
      BY <2>1, NoCopying DEF Steady
    <2>4. \A a \in Actors : ~(ck'[a].pc = "save" /\ Current(a)')
      BY <2>1, <2>3 DEF Current, Copying
    <2>5. \A l \in Triggers : snaps'[l].status = "completed" => Whole(l)'
      BY <2>1, <2>2 DEF WholeInv, Whole
    <2>6. \A l \in Triggers : Open(l)' \/ snaps'[l].rev = task'.rev => l = k
      BY <2>1, <2>2, <2>3 DEF Steady, OpenInv, Open, Exists
    <2>7. \A b \in snaps[k].refs : b \in Blocks /\ snaps[k].copy[b] = "completed"
                                     => code[b] = "completed"
      BY <2>1, <2>2 DEF WholeInv, Open
    <2>8. QED
      BY <2>1, <2>4, <2>5, <2>6, <2>7 DEF WholeInv
  <1>7. CASE TrigPublish(t)
    <2>1. /\ trig[t].pc = "publish" /\ task'.rev = task.rev /\ UNCHANGED <<code, snaps, ck>>
          /\ \A u \in Triggers \ {t} : trig'[u] = trig[u]
      BY <1>0, <1>7, PublishEffect
    <2>2. QED
      BY <2>1 DEF WholeInv, Whole, Current, Open, Exists
  <1>8. CASE TrigFail(t)
    BY <1>0, <1>8, FailEffect
  <1>9. QED
    BY <1>1, <1>2, <1>3, <1>4, <1>5, <1>6, <1>7, <1>8 DEF TriggerStep, TrigStep

LEMMA WholeCheckpoint ==
    ASSUME Base, Steady, WholeInv, Calm', NEW a \in Actors, CkStep(a)
    PROVE  WholeInv'
  <1>0. /\ "late" \notin races' /\ IInv
        /\ \A o \in Actors : Copying(o) => ck[o].key \in Triggers
        /\ \A l \in Triggers : snaps[l].refs \subseteq Blocks
        /\ HoldInv /\ CodeInv /\ RefsInv /\ task.rev \in Nat
    BY DEF Base, Steady, Calm, IInv, KeyInv, Copying, TypeOK, Snap, Task
  <1>1. /\ UNCHANGED <<task, code, trig, run>>
        /\ \A l \in Triggers : snaps'[l].rev = snaps[l].rev /\ snaps'[l].refs = snaps[l].refs
        /\ \A o \in Actors \ {a} : ck'[o] = ck[o]
    BY <1>0, CheckpointKeeps
  <1>2. CASE CkLoad(a)
    <2>1. ck'[a].pc \in {"none", "copy"} /\ UNCHANGED snaps
      BY <1>0, <1>2, LoadEffect
    <2>2. QED
      BY <1>1, <2>1 DEF WholeInv, Whole, Current, Open, Exists
  <1>3. CASE CkCopy(a)
    <2> DEFINE k == ck[a].key
    <2>1. /\ k \in Triggers /\ snaps'[k].copy = Copied(snaps[k])
          /\ snaps'[k].status = snaps[k].status
          /\ \A l \in Triggers \ {k} : snaps'[l] = snaps[l]
          /\ ck[a].pc = "copy" /\ ck'[a].key = k /\ ck[a].rev = task.rev
          /\ ck'[a].new = Aggregate(Copied(snaps[k]), snaps[k].removed,
                                    ck[a].parent, ck[a].finalize)
      BY <1>0, <1>3, CopyEffect, Zenon
    <2>10. k = ck[a].key /\ Copying(a)
      BY <2>1 DEF Copying
    <2> HIDE DEF k
    <2>2. /\ Exists(k) /\ snaps[k].rev = task.rev
          /\ \A b \in snaps[k].refs : b \in Blocks /\ code[b] # "absent"
          /\ \A b \in snaps[k].refs : Copied(snaps[k])[b] = code[b]
          /\ Copied(snaps[k]) \in [Blocks -> Result]
      BY <1>0, <2>1, <2>10, CopyingCurrent
    <2>3. \A b \in snaps[k].refs : snaps[k].copy[b] = "completed" => code[b] = "completed"
      <3>1. ~(snaps[k].rev < task.rev)
        BY <1>0, <2>2
      <3>2. QED
        BY <2>1, <2>2, <3>1 DEF WholeInv
    <2>4. \A l \in Triggers : Whole(l) => Whole(l)'
      BY <1>1, <2>1, <2>2, <2>3 DEF Whole
    <2>5. ck'[a].new = "completed" =>
             \A b \in snaps'[k].refs : snaps'[k].copy[b] = "completed"
      <3> DEFINE copy == Copied(snaps[k])
      <3>1. copy \in [Blocks -> Result]
        BY <2>2
      <3>2. ck'[a].new = Aggregate(copy, snaps[k].removed, ck[a].parent, ck[a].finalize)
        BY <2>1
      <3>3. \A b \in snaps[k].refs : b \in Blocks /\ copy[b] # "absent"
        BY <2>2
      <3>4. snaps'[k].copy = copy /\ snaps'[k].refs = snaps[k].refs
        BY <1>1, <2>1
      <3> HIDE DEF copy
      <3>5. ck'[a].new = "completed" => \A b \in Blocks : copy[b] \in {"absent", "completed"}
        BY <3>1, <3>2, AggregateCompleted
      <3>6. QED
        BY <3>3, <3>4, <3>5
    <2>6. \A l \in Triggers : snaps'[l].status = "completed" => Whole(l)'
      BY <2>1, <2>4 DEF WholeInv
    <2>7. \A o \in Actors : ck'[o].pc = "save" /\ Current(o)' /\ ck'[o].new = "completed"
                               => Whole(ck[o].key)'
      <3>1. Whole(ck[a].key)' <=> \A b \in snaps'[k].refs : snaps'[k].copy[b] = "completed"
        BY <2>1 DEF Whole
      <3>2. \A o \in Actors : ck[o].pc = "save" => ck[o].key \in Triggers
        BY <1>0 DEF Copying
      <3>3. \A o \in Actors \ {a} : ck'[o].pc = "save" /\ Current(o)' /\ ck'[o].new = "completed"
                               => Whole(ck[o].key) /\ ck'[o].key = ck[o].key
                                  /\ ck[o].key \in Triggers
        BY <1>1, <3>2 DEF WholeInv, Current
      <3>4. \A o \in Actors \ {a} : ck'[o].pc = "save" /\ Current(o)' /\ ck'[o].new = "completed"
                               => Whole(ck[o].key)'
        BY <2>4, <3>3 DEF Whole
      <3>5. QED
        BY <2>5, <3>1, <3>4
    <2>8. \A l \in Triggers, b \in Blocks :
             /\ Exists(l)' /\ (Open(l)' \/ snaps'[l].rev = task'.rev)
             /\ b \in snaps'[l].refs /\ snaps'[l].copy[b] = "completed"
             => \/ code'[b] = "completed"
                \/ /\ code'[b] = "absent" /\ snaps'[l].rev < task'.rev
                   /\ \E t \in Triggers : trig'[t].pc \in {"supersede", "find", "carry"}
      BY <1>1, <2>1, <2>2 DEF WholeInv, Open, Exists
    <2>9. QED
      BY <2>6, <2>7, <2>8 DEF WholeInv, Whole
  <1>4. CASE CkSave(a)
    <2> DEFINE k == ck[a].key
    <2>1. /\ ck[a].pc = "save" /\ k \in Triggers /\ ck[a].rev = task.rev
          /\ snaps'[k].status \in {snaps[k].status, ck[a].new}
          /\ snaps'[k].copy = snaps[k].copy
          /\ \A l \in Triggers \ {k} : snaps'[l] = snaps[l]
          /\ ck'[a].pc = "none"
      BY <1>0, <1>4, SaveEffect
    <2>2. snaps[k].rev = task.rev
      BY <2>1 DEF HoldInv, Steady, Copying
    <2>3. ck[a].new = "completed" => Whole(k)
      BY <2>1 DEF WholeInv, Current
    <2> HIDE DEF k
    <2>4. \A l \in Triggers : snaps'[l].copy = snaps[l].copy /\ (Whole(l) => Whole(l)')
      BY <1>1, <2>1 DEF Whole
    <2>5. \A l \in Triggers : snaps'[l].status = "completed" => Whole(l)'
      BY <2>1, <2>3, <2>4 DEF WholeInv
    <2>6. \A o \in Actors : ck'[o].pc = "save" /\ Current(o)' /\ ck'[o].new = "completed"
                               => Whole(ck[o].key)' /\ ck'[o].key = ck[o].key
      BY <1>0, <1>1, <2>1, <2>4 DEF WholeInv, Current, Copying
    <2>7. \A l \in Triggers : Exists(l)' /\ (Open(l)' \/ snaps'[l].rev = task'.rev)
                                => Exists(l) /\ (Open(l) \/ snaps[l].rev = task.rev)
      BY <1>1, <2>1, <2>2 DEF Open, Exists
    <2>8. QED
      BY <1>1, <2>4, <2>5, <2>6, <2>7 DEF WholeInv, Whole
  <1>5. QED
    BY <1>2, <1>3, <1>4 DEF CkStep

LEMMA WholeWorker ==
    ASSUME Base, Steady, WholeInv, Calm', WorkerStep
    PROVE  WholeInv'
  <1>0. /\ "late" \notin races' /\ IInv /\ ActorInv /\ task.rev \in Nat
        /\ \A k \in Triggers : snaps[k].rev \in Nat /\ snaps[k].rev <= task.rev
        /\ \A k \in Triggers : snaps[k].refs \subseteq Blocks
    BY SameRevision DEF Base, Calm, IInv, TypeOK, Snap
  <1>1. /\ task'.rev = task.rev /\ UNCHANGED <<snaps, trig>>
        /\ \A a \in Actors : Copying(a)' => Copying(a) /\ ck'[a] = ck[a]
    BY WorkerKeeps
  <1>2. ASSUME \A k \in Triggers, b \in Blocks :
                  /\ Exists(k) /\ (Open(k) \/ snaps[k].rev = task.rev)
                  /\ b \in snaps[k].refs /\ snaps[k].copy[b] = "completed"
                  => \/ code'[b] = "completed"
                     \/ /\ code'[b] = "absent" /\ snaps[k].rev < task.rev
                        /\ \E t \in Triggers : trig[t].pc \in {"supersede", "find", "carry"}
        PROVE  WholeInv'
    <2>1. \A a \in Actors : ck'[a].pc = "save" /\ Current(a)' /\ ck'[a].new = "completed"
                               => Whole(ck'[a].key)
      BY <1>1 DEF WholeInv, Current, Copying
    <2>2. QED
      BY <1>1, <1>2, <2>1 DEF WholeInv, Whole, Open, Exists
  <1>3. CASE UNCHANGED code
    BY <1>2, <1>3 DEF WholeInv
  <1>4. CASE run.pc \in {"sync", "review"} /\ run.rev = task.rev
              /\ \A b \in task.tree : code[b] = "completed" => code'[b] = "completed"
    <2>1. \A t \in Triggers : ~InProgress(t)
      BY <1>0, <1>4 DEF Base, WorkInv, Steady, OneInv
    <2>2. \A k \in Triggers : Open(k) => snaps[k].rev = task.rev
      BY <2>1 DEF Steady, OpenInv, InProgress
    <2>3. \A k \in Triggers : Exists(k) /\ snaps[k].rev = task.rev =>
             snaps[k].refs \subseteq task.tree
      BY DEF Steady, RefsInv
    <2>4. QED
      BY <1>0, <1>2, <1>4, <2>2, <2>3 DEF WholeInv
  <1>5. CASE RunSync
    <2>1. /\ run.pc = "sync" /\ run.rev = task.rev /\ code' = Synced(run.tree)
      BY <1>0, <1>5, RunSyncEffect
    <2>2. run.tree = task.tree /\ task.tree \subseteq Blocks
      BY <2>1 DEF Base, WorkInv, IInv, TypeOK, Task
    <2>3. \A b \in task.tree : code[b] = "completed" => code'[b] = "completed"
      BY <2>1, <2>2 DEF Synced
    <2>4. QED
      BY <1>4, <2>1, <2>3
  <1>6. ASSUME NEW f \in Files, RunStore(f)
        PROVE  WholeInv'
    <2>1. /\ run.pc = "review" /\ run.rev = task.rev /\ run.thread[f] = "store"
          /\ \A b \in Blocks : code'[b] = IF FileOf[b] = f /\ FilePresent(b, code)
                                            THEN run.image[b] ELSE code[b]
      BY <1>0, <1>6, StoreEffect
    <2>2. task.tree \subseteq Blocks
      BY DEF Base, IInv, TypeOK, Task
    <2>3. \A b \in task.tree : code[b] = "completed" => code'[b] = "completed"
      BY <2>1, <2>2 DEF Steady, ReviewInv
    <2>4. QED
      BY <1>4, <2>1, <2>3
  <1>7. CASE RunEnds
    <2>1. UNCHANGED code
      BY <1>0, <1>7, EndsEffect
    <2>2. QED
      BY <1>3, <2>1
  <1>8. CASE Claim \/ RunMoves \/ Crash \/ \E f \in Files : RunReview(f)
    BY <1>0, <1>3, <1>8, ClaimEffect, MovesEffect, CrashEffect, ReviewEffect
  <1>9. QED
    BY <1>5, <1>6, <1>7, <1>8 DEF WorkerStep

-----------------------------------------------------------------------------
(* A completed task is done, and so are its snapshots *)

\* No submission is in progress and no run at work where the task is completed.
LEMMA CompletedAlone ==
    ASSUME Base, Steady, task.state = "COMPLETED"
    PROVE  /\ \A t \in Triggers : ~InProgress(t)
           /\ run.pc \in {"idle", "closing"}
           /\ \A k \in Triggers : Open(k) => snaps[k].rev = task.rev
  BY DEF Base, WorkInv, Steady, OneInv, OpenInv, InProgress

LEMMA IdleAlone ==
    ASSUME Base, Steady, DoneInv, NEW t \in Triggers, Idle(t)
    PROVE  /\ InProgress(t) /\ run.pc \in {"idle", "closing"}
           /\ task.state = "PREPARING"
           /\ \A u \in Triggers : InProgress(u) => u = t
  <1>1. InProgress(t) /\ trig[t].prev = "COMPLETED"
    BY DEF Idle, InProgress, DoneInv
  <1>2. \A u \in Triggers : InProgress(u) => u = t
    BY <1>1, Alone DEF Base, Steady
  <1>3. QED
    BY <1>1, <1>2 DEF Base, WorkInv, Steady, OneInv

LEMMA DoneTrigger ==
    ASSUME Base, Steady, DoneInv, Calm', races' \subseteq {"parallel"},
           NEW t \in Triggers, TriggerStep(t)
    PROVE  DoneInv'
  <1>0. /\ "late" \notin races' /\ "overlap" \notin races' /\ IInv
        /\ task.rev \in Nat
        /\ \A k \in Triggers : snaps[k].rev \in Nat /\ snaps[k].rev <= task.rev
        /\ InProgress(t) => /\ trig[t].rev = task.rev /\ trig[t].tree = task.tree
                            /\ task.state = "PREPARING"
        /\ \A u \in Triggers : InProgress(t) /\ InProgress(u) => u = t
        /\ ck[Worker].rev \in Nat /\ ck[Worker].rev <= task.rev
        /\ Worker \in Actors /\ Worker # t
        /\ \A u \in Triggers : Idle(u) => InProgress(u)
    BY Alone, SameRevision DEF Base, Steady, Calm, OneInv, WorkInv, ActorInv, IInv,
                               TypeOK, Checkpoint, Actors, Idle, InProgress
  <1>10. IInv /\ "failed_trigger" \notin races'
    BY DEF Base
  <1>1. CASE TrigBegin(t)
    <2>1. /\ task'.rev = task.rev + 1 /\ task'.state = "PREPARING"
          /\ trig'[t].pc = "sync" /\ trig'[t].prev = task.state
          /\ \A u \in Triggers \ {t} : trig'[u] = trig[u]
          /\ UNCHANGED <<code, snaps, ck>>
          /\ \A u \in Triggers : ~InProgress(u)
      BY <1>0, <1>1, BeginEffect
    <2>2. ~Current(Worker)' /\ \A k \in Triggers : snaps'[k].rev # task'.rev
      BY <1>0, <2>1 DEF Current
    <2>3. \A u \in Triggers : Idle(u)' => u = t /\ task.state = "COMPLETED"
      BY <1>0, <2>1 DEF Idle
    <2>4. QED
      BY <2>1, <2>2, <2>3 DEF DoneInv, AllDone, Open, Exists
  <1>2. CASE TrigSync(t)
    <2>1. /\ trig[t].pc = "sync" /\ code' = Synced(trig[t].tree)
          /\ trig'[t].pc \in {"supersede", "find"}
          /\ trig'[t].prev = trig[t].prev
          /\ ~trig'[t].work => /\ trig[t].prev = "COMPLETED"
                               /\ \A b \in trig[t].tree : code[b] = "completed"
          /\ \A u \in Triggers \ {t} : trig'[u] = trig[u]
          /\ UNCHANGED <<task, snaps, ck>>
      BY <1>0, <1>2, SyncEffect
    <2>2. task.state = "PREPARING"
      BY <1>0, <2>1 DEF InProgress
    <2>3. ~trig'[t].work => AllDone' /\ Idle(t)
      BY <2>1 DEF AllDone, Synced, Idle
    <2>4. \A u \in Triggers : Idle(u)' => u = t /\ ~trig'[t].work
      BY <1>0, <2>1 DEF Idle, InProgress
    <2>5. QED
      BY <2>1, <2>2, <2>3, <2>4 DEF DoneInv, Current, Open, Exists
  <1>3. CASE TrigSupersede(t) \/ TrigInsert(t)
    <2>1. /\ trig[t].pc \in {"supersede", "insert"}
          /\ trig'[t].pc \in {"insert", "publish"} /\ trig'[t].work = trig[t].work
          /\ \A u \in Triggers \ {t} : trig'[u] = trig[u]
          /\ UNCHANGED task
      BY <1>0, <1>3, SupersedeEffect, InsertTrigger
    <2>2. trig[t].work
      BY <2>1 DEF Steady, CodeInv
    <2>3. \A u \in Triggers : ~Idle(u)'
      BY <1>0, <2>1, <2>2 DEF Idle, InProgress
    <2>4. task'.state # "COMPLETED"
      BY <1>0, <2>1 DEF InProgress
    <2>5. QED
      BY <2>3, <2>4 DEF DoneInv
  <1>4. CASE TrigFind(t)
    <2>1. /\ trig[t].pc = "find" /\ trig'[t].pc \in {"publish", "carry"}
          /\ trig'[t].work = trig[t].work /\ trig'[t].prev = trig[t].prev
          /\ \A u \in Triggers \ {t} : trig'[u] = trig[u]
          /\ UNCHANGED <<task, code, snaps, ck>>
      BY <1>0, <1>4, FindEffect
    <2>2. \A u \in Triggers : Idle(u)' => Idle(u)
      BY <2>1 DEF Idle
    <2>3. task.state # "COMPLETED"
      BY <1>0, <2>1 DEF InProgress
    <2>4. QED
      BY <2>1, <2>2, <2>3 DEF DoneInv, AllDone, Current, Open, Exists
  <1>5. CASE TrigCarry(t)
    <2> DEFINE k == trig[t].key
    <2>1. /\ trig[t].pc = "carry" /\ k \in Triggers
          /\ trig'[t].pc = "publish"
          /\ trig'[t].work = trig[t].work /\ trig'[t].prev = trig[t].prev
          /\ \A u \in Triggers \ {t} : trig'[u] = trig[u]
          /\ \A l \in Triggers \ {k} : snaps'[l] = snaps[l]
          /\ \A a \in Actors \ {t} : ck'[a] = ck[a]
          /\ UNCHANGED <<task, code>>
      BY <1>5, <1>10, CarryEffect
    <2>2. Open(k)
      BY <2>1 DEF Steady, HoldInv
    <2> HIDE DEF k
    <2>3. \A u \in Triggers : Idle(u)' => Idle(u)
      BY <2>1 DEF Idle
    <2>4. task.state # "COMPLETED"
      BY <1>0, <2>1 DEF InProgress
    <2>5. ck'[Worker] = ck[Worker]
      BY <1>0, <2>1
    <2>6. QED
      BY <2>1, <2>2, <2>3, <2>4, <2>5 DEF DoneInv, AllDone, Current, Open, Exists
  <1>6. CASE TrigPublish(t)
    <2>1. /\ trig[t].pc = "publish" /\ trig'[t].pc = "done"
          /\ \A u \in Triggers \ {t} : trig'[u] = trig[u]
          /\ task'.rev = task.rev
          /\ task.rev = trig[t].rev =>
                task'.state = IF trig[t].work THEN "PENDING" ELSE "COMPLETED"
          /\ UNCHANGED <<code, snaps, ck>>
      BY <1>0, <1>6, PublishEffect
    <2>2. \A u \in Triggers : ~Idle(u)'
      BY <1>0, <2>1 DEF Idle, InProgress
    <2>3. task'.state = "COMPLETED" => Idle(t)
      BY <1>0, <2>1 DEF Idle, InProgress
    <2>4. QED
      BY <2>1, <2>2, <2>3 DEF DoneInv, AllDone, Current, Open, Exists
  <1>7. CASE TrigFail(t)
    BY <1>10, <1>7, FailEffect
  <1>8. QED
    BY <1>1, <1>2, <1>3, <1>4, <1>5, <1>6, <1>7 DEF TriggerStep, TrigStep

LEMMA DoneCheckpoint ==
    ASSUME Base, Steady, DoneInv, Calm', NEW a \in Actors, CkStep(a)
    PROVE  DoneInv'
  <1>0. /\ "late" \notin races' /\ IInv
        /\ task.rev \in Nat /\ Worker \in Actors /\ Worker \notin Files
        /\ HoldInv /\ CodeInv /\ RefsInv
    BY ActorKinds DEF Base, Steady, Calm, IInv, TypeOK, Task
  <1>1. /\ UNCHANGED <<task, code, trig, run>>
        /\ \A l \in Triggers : snaps'[l].rev = snaps[l].rev
        /\ \A o \in Actors \ {a} : ck'[o] = ck[o]
    BY <1>0, CheckpointKeeps
  <1>2. ck[a].pc # "none"
    BY <1>0, LoadEffect, CopyEffect, SaveEffect DEF CkStep
  <1>3. ASSUME a # Worker, \A l \in Triggers : snaps'[l].status = snaps[l].status
        PROVE  DoneInv'
    <2>1. ck'[Worker] = ck[Worker]
      BY <1>0, <1>1, <1>3
    <2>2. task.state = "COMPLETED" /\ Current(Worker) /\ Copying(Worker)
            => ck[Worker].key \in Triggers
      BY DEF Base, IInv, KeyInv, Copying, Actors
    <2>3. QED
      BY <1>1, <1>3, <2>1, <2>2 DEF DoneInv, AllDone, Current, Copying, Idle, Open, Exists
  <1>4. ASSUME Current(Worker),
               task.state = "COMPLETED" =>
                  /\ Current(Worker)' =>
                        /\ ck'[Worker].finalize /\ ck'[Worker].parent = "COMPLETED"
                        /\ Copying(Worker)' => snaps'[ck'[Worker].key].status = ck'[Worker].loaded
                        /\ ck'[Worker].pc = "save" => ck'[Worker].new = "completed"
                  /\ \A l \in Triggers : Open(l)' => ck'[Worker].pc # "none"
        PROVE  DoneInv'
    <2>1. \A t \in Triggers : ~Idle(t)
      BY <1>4 DEF DoneInv
    <2>2. QED
      BY <1>1, <1>4, <2>1 DEF DoneInv, AllDone, Idle
  <1>5. CASE CkLoad(a)
    <2>1. UNCHANGED snaps
      BY <1>0, <1>5, LoadEffect
    <2>2. CASE a # Worker
      BY <1>3, <2>1, <2>2
    <2>3. CASE a = Worker
      <3>1. ck[Worker].rev # 0 /\ ck[Worker].pc # "none"
        BY <1>0, <1>2, <2>3 DEF Base, ActorInv, IInv, TypeOK, Checkpoint
      <3>2. /\ ck[Worker].pc = "load" /\ Wanted(Worker) = task.rev
            /\ \/ /\ ck'[Worker].pc = "none"
                  /\ \A l \in Triggers :
                        snaps[l].rev = Wanted(Worker) => snaps[l].status = "superseded"
               \/ /\ ck'[Worker].pc = "copy" /\ ck'[Worker].finalize = ck[Worker].finalize
                  /\ ck'[Worker].parent = ck[Worker].parent
                  /\ ck'[Worker].loaded = snaps[ck'[Worker].key].status
        BY <1>0, <1>5, <2>3, <3>1, LoadEffect
      <3>3. Current(Worker)
        BY <3>1, <3>2 DEF Current, Wanted
      <3>4. task.state = "COMPLETED" /\ ck'[Worker].pc = "none" =>
               \A l \in Triggers : ~Open(l)
        BY <3>2, CompletedAlone DEF Open, OpenStatus
      <3>5. QED
        BY <1>1, <1>4, <2>1, <3>2, <3>3, <3>4 DEF DoneInv, Current, Copying, Open, Exists
    <2>4. QED
      BY <2>2, <2>3
  <1>6. CASE CkCopy(a)
    <2> DEFINE k == ck[a].key
    <2>1. /\ k \in Triggers
          /\ snaps'[k].status = snaps[k].status
          /\ \A l \in Triggers \ {k} : snaps'[l] = snaps[l]
          /\ ck[a].pc = "copy" /\ ck'[a].key = k /\ ck[a].rev = task.rev
          /\ ck'[a].pc = "save" /\ ck'[a].loaded = ck[a].loaded
          /\ ck'[a].parent = ck[a].parent /\ ck'[a].finalize = ck[a].finalize
          /\ ck'[a].new = Aggregate(Copied(snaps[k]), snaps[k].removed,
                                    ck[a].parent, ck[a].finalize)
      BY <1>0, <1>6, CopyEffect, Zenon
    <2>2. k = ck[a].key /\ Copying(a) /\ Current(a)
      BY <2>1 DEF Copying, Current
    <2> HIDE DEF k
    <2>3. \A l \in Triggers : snaps'[l].status = snaps[l].status
      BY <2>1
    <2>4. CASE a # Worker
      BY <1>3, <2>3, <2>4
    <2>5. CASE a = Worker
      <3>1. /\ Exists(k) /\ snaps[k] \in Snap
            /\ \A b \in snaps[k].refs : b \in Blocks /\ code[b] # "absent"
            /\ \A b \in snaps[k].refs : Copied(snaps[k])[b] = code[b]
            /\ \A b \in Blocks \ snaps[k].refs : Copied(snaps[k])[b] = "absent"
            /\ Copied(snaps[k]) \in [Blocks -> Result]
        BY <1>0, <2>1, <2>2, CopyingCurrent
      <3>2. snaps[k].refs # {} \/ snaps[k].removed
        BY <1>0, <2>1, <3>1 DEF CodeInv
      <3>3. ASSUME task.state = "COMPLETED"
            PROVE  ck'[Worker].new = "completed"
        <4>1. AllDone /\ ck[a].finalize /\ ck[a].parent = "COMPLETED"
          BY <2>2, <2>5, <3>3 DEF DoneInv
        <4>2. \A b \in Blocks : Copied(snaps[k])[b] \in {"absent", "completed"}
          BY <3>1, <4>1 DEF AllDone
        <4>3. \/ \E b \in Blocks : Copied(snaps[k])[b] # "absent"
              \/ snaps[k].removed /\ ck[a].finalize /\ ck[a].parent = "COMPLETED"
          BY <3>1, <3>2, <4>1
        <4>4. Aggregate(Copied(snaps[k]), snaps[k].removed, ck[a].parent, ck[a].finalize)
                = "completed"
          BY <3>1, <4>2, <4>3, AggregateSettles
        <4>5. QED
          BY <2>1, <2>5, <4>4
      <3>4. task.state = "COMPLETED" =>
               /\ ck[Worker].finalize /\ ck[Worker].parent = "COMPLETED"
               /\ snaps[k].status = ck[Worker].loaded
        BY <2>2, <2>5 DEF DoneInv
      <3>5. QED
        BY <1>4, <2>1, <2>2, <2>5, <3>3, <3>4
    <2>6. QED
      BY <2>4, <2>5
  <1>7. CASE CkSave(a)
    <2> DEFINE k == ck[a].key
    <2>1. /\ ck[a].pc = "save" /\ k \in Triggers /\ ck[a].rev = task.rev
          /\ snaps'[k].status = IF ck[a].new = ck[a].loaded THEN snaps[k].status
                                ELSE ck[a].new
          /\ \A l \in Triggers \ {k} : snaps'[l] = snaps[l]
          /\ ck'[a].pc = "none"
      BY <1>0, <1>7, SaveEffect
    <2>2. /\ snaps[k].rev = task.rev /\ Exists(k)
      BY <1>0, <2>1 DEF HoldInv, Copying, Exists, Base, WorkInv
    <2>3. CASE a = Worker
      <3>1. Current(Worker)
        BY <2>1, <2>3 DEF Current
      <3>2. ASSUME task.state = "COMPLETED"
            PROVE  \A l \in Triggers : ~Open(l)'
        <4>1. snaps[k].status = ck[a].loaded /\ ck[a].new = "completed"
          BY <2>1, <2>3, <3>1, <3>2 DEF DoneInv, Copying
        <4>2. \A l \in Triggers : Open(l) => l = k
          BY <1>0, <2>1, <2>2, <3>2, CompletedAlone, SameRevision
        <4>3. snaps'[k].status = "completed"
          BY <2>1, <4>1
        <4> HIDE DEF k
        <4>4. QED
          BY <1>1, <2>1, <4>2, <4>3 DEF Open, Exists, OpenStatus
      <3>3. QED
        BY <1>4, <2>1, <2>3, <3>1, <3>2 DEF Current
    <2>4. CASE a \in Files
      <3>1. run.pc = "review"
        BY <1>2, <2>4 DEF Base, ActorInv
      <3>2. task.state # "COMPLETED" /\ \A t \in Triggers : ~Idle(t)
        BY <3>1, CompletedAlone, IdleAlone
      <3>3. QED
        BY <1>1, <3>2 DEF DoneInv, Idle
    <2>5. CASE a \in Triggers
      <3>1. /\ InProgress(a) /\ task.state = "PREPARING"
        BY <1>2, <2>5 DEF Base, ActorInv, WorkInv, Steady, OneInv, InProgress
      <3>2. ck'[Worker] = ck[Worker]
        BY <1>0, <1>1, <2>5
      <3>3. \A t \in Triggers : Idle(t) => ck[Worker].pc # "none"
        BY <2>1, <2>2 DEF DoneInv
      <3>4. QED
        BY <1>1, <3>1, <3>2, <3>3 DEF DoneInv, AllDone, Idle, Current
    <2>6. QED
      BY <2>3, <2>4, <2>5, ActorKinds
  <1>8. QED
    BY <1>5, <1>6, <1>7 DEF CkStep

LEMMA DoneWorker ==
    ASSUME Base, Steady, DoneInv, Calm', races' \subseteq {"parallel"}, WorkerStep
    PROVE  DoneInv'
  <1>0. /\ "late" \notin races' /\ "lost_checkpoint" \notin races' /\ IInv /\ ActorInv
        /\ Worker \in Actors /\ Worker \notin Triggers /\ Worker \notin Files
    BY DEF Base, Calm, Actors
  <1>1. /\ task'.rev = task.rev /\ UNCHANGED <<snaps, trig>>
        /\ \A a \in Actors : Copying(a)' => Copying(a) /\ ck'[a] = ck[a]
    BY WorkerKeeps
  <1>2. CASE run.pc \in {"sync", "review"} /\ UNCHANGED task
    <2>1. task.state # "COMPLETED" /\ \A t \in Triggers : ~Idle(t)
      BY <1>2, CompletedAlone, IdleAlone
    <2>2. QED
      BY <1>1, <1>2, <2>1 DEF DoneInv, Idle
  <1>3. CASE Claim
    <2>1. task.state # "PREPARING" /\ task'.state # "COMPLETED"
      BY <1>0, <1>3, ClaimEffect
    <2>2. \A t \in Triggers : ~Idle(t)
      BY <2>1, IdleAlone
    <2>3. QED
      BY <1>1, <2>1, <2>2 DEF DoneInv, Idle
  <1>4. CASE RunSync
    BY <1>0, <1>2, <1>4, RunSyncEffect
  <1>5. ASSUME NEW f \in Files, RunReview(f) \/ RunStore(f)
        PROVE  DoneInv'
    <2>1. run.pc = "review" /\ UNCHANGED task
      BY <1>0, <1>5, ReviewEffect, StoreEffect
    <2>2. QED
      BY <1>2, <2>1
  <1>6. CASE RunMoves
    <2>1. UNCHANGED <<task, code, snaps, trig, ck>>
      BY <1>0, <1>6, MovesEffect
    <2>2. QED
      BY <2>1 DEF DoneInv, AllDone, Current, Copying, Idle, Open, Exists
  <1>7. CASE RunEnds
    <2>1. /\ run.pc \in {"review", "interrupted"}
          /\ ck'[Worker].pc = "load" /\ ck'[Worker].parent = task'.state
          /\ \/ /\ run.pc = "review" /\ task.rev = run.rev
                /\ task'.state = "COMPLETED" =>
                      /\ run.ok /\ ck'[Worker].finalize
                      /\ \A f \in Files :
                            run.thread[f] = "review" /\ run.todo \cap BlocksOf(f) = {}
             \/ /\ run.pc = "interrupted"
                /\ task'.state = IF task.rev = run.rev THEN "PENDING" ELSE task.state
          /\ UNCHANGED code
      BY <1>0, <1>7, EndsEffect
    <2>2. task.state # "COMPLETED" /\ \A t \in Triggers : ~Idle(t)
      BY <2>1, CompletedAlone, IdleAlone
    <2>3. task'.state = "COMPLETED" => AllDone /\ ck'[Worker].finalize
      <3>1. ASSUME task'.state = "COMPLETED"
            PROVE  /\ run.pc = "review" /\ task.rev = run.rev /\ run.ok
                   /\ ck'[Worker].finalize
                   /\ \A f \in Files : run.thread[f] = "review" /\ run.todo \cap BlocksOf(f) = {}
        BY <2>1, <2>2, <3>1
      <3>2. \A b \in Blocks : FileOf[b] \in Files /\ b \in BlocksOf(FileOf[b])
        BY DEF BlocksOf
      <3>3. QED
        BY <3>1, <3>2 DEF AllDone, Steady, ReviewInv
    <2>4. QED
      BY <1>1, <2>1, <2>2, <2>3 DEF DoneInv, AllDone, Copying, Idle
  <1>8. CASE Crash
    <2>1. /\ ck'[Worker].pc = "none" /\ ck[Worker].pc = "none"
          /\ UNCHANGED <<task, code, snaps, trig>>
      BY <1>0, <1>8, CrashEffect DEF ActorInv
    <2>2. QED
      BY <2>1 DEF DoneInv, AllDone, Current, Copying, Idle, Open, Exists
  <1>9. QED
    BY <1>3, <1>4, <1>5, <1>6, <1>7, <1>8 DEF WorkerStep

-----------------------------------------------------------------------------
(* A snapshot is settled once *)

\* The copy of a snapshot depends on the stored blocks that it refers to.
LEMMA SettledKept ==
    ASSUME NEW k \in Triggers,
           snaps'[k].refs = snaps[k].refs, snaps'[k].copy = snaps[k].copy,
           \A b \in snaps[k].refs : code'[b] = code[b]
    PROVE  /\ (Copied(snaps[k]) = snaps[k].copy)' <=> Copied(snaps[k]) = snaps[k].copy
           /\ Settled(k)' <=> Settled(k)
           /\ NoBlocks(k)' <=> NoBlocks(k)
  <1>1. Copied(snaps[k])' = Copied(snaps[k])
    <2> DEFINE selected == {x \in snaps[k].refs : code[x] # "absent"}
    <2>1. selected' = selected
      OBVIOUS
    <2>2. Copied(snaps[k]) =
            [b \in Blocks |-> IF FileMates(b) \cap selected = {} THEN snaps[k].copy[b]
                              ELSE IF b \in selected THEN code[b] ELSE "absent"]
      BY DEF Copied
    <2>3. Copied(snaps[k])' =
            [b \in Blocks |-> IF FileMates(b) \cap selected' = {} THEN snaps'[k].copy[b]
                              ELSE IF b \in selected' THEN code'[b] ELSE "absent"]
      BY DEF Copied, FileMates, BlocksOf
    <2>4. \A b \in selected : code'[b] = code[b]
      OBVIOUS
    <2> HIDE DEF selected
    <2>5. QED
      BY <2>1, <2>2, <2>3, <2>4
  <1>2. QED
    BY <1>1 DEF Settled, NoBlocks

\* A checkpoint that is left alone saves what it saved, while the blocks of its
\* snapshot do not change.
LEMMA SavesKept ==
    ASSUME NEW a \in Actors, NEW k \in Triggers, ck'[a] = ck[a], k = ck[a].key,
           snaps'[k].refs = snaps[k].refs, snaps'[k].copy = snaps[k].copy,
           snaps'[k].removed = snaps[k].removed,
           \A b \in snaps[k].refs : code'[b] = code[b]
    PROVE  /\ SavesAgreed(a) => SavesAgreed(a)'
           /\ SavesFinished(a) /\ snaps'[k].status = snaps[k].status => SavesFinished(a)'
  <1>1. /\ (Copied(snaps[k]) = snaps[k].copy)' <=> Copied(snaps[k]) = snaps[k].copy
        /\ Settled(k)' <=> Settled(k)
        /\ NoBlocks(k)' <=> NoBlocks(k)
    BY SettledKept
  <1>2. k = ck'[a].key
    OBVIOUS
  <1>3. SavesAgreed(a) => SavesAgreed(a)'
    <2>1. Aggregate(snaps[k].copy, snaps[k].removed, "PREPARING", FALSE) =
          Aggregate(snaps'[k].copy, snaps'[k].removed, "PREPARING", FALSE)
      OBVIOUS
    <2>2. (Aggregate(snaps[k].copy, snaps[k].removed, "PREPARING", FALSE))' =
          Aggregate(snaps'[k].copy, snaps'[k].removed, "PREPARING", FALSE)
      BY DEF Aggregate
    <2>3. QED
      BY <1>1, <1>2, <2>1, <2>2 DEF SavesAgreed
  <1>4. SavesFinished(a) /\ snaps'[k].status = snaps[k].status => SavesFinished(a)'
    BY <1>1, <1>2 DEF SavesFinished
  <1>5. QED
    BY <1>3, <1>4

LEMMA SettleTrigger ==
    ASSUME Base, OneInv, HoldInv, SettleInv, Calm', NEW t \in Triggers, TriggerStep(t)
    PROVE  SettleInv'
  <1>0. /\ "late" \notin races' /\ "overlap" \notin races' /\ IInv
        /\ task.rev \in Nat
        /\ \A k \in Triggers : snaps[k].rev \in Nat /\ snaps[k].rev <= task.rev
        /\ InProgress(t) => trig[t].rev = task.rev /\ task.state = "PREPARING"
        /\ \A u \in Triggers : InProgress(t) /\ InProgress(u) => u = t
        /\ \A a \in Actors : ck[a].rev \in Nat /\ ck[a].rev <= task.rev
    BY Alone, SameRevision DEF Base, Calm, OneInv, WorkInv, ActorInv, IInv,
                               TypeOK, Checkpoint
  <1>10. IInv /\ t \in Actors /\ t # Worker /\ t \notin Files /\ Worker \in Actors
         /\ \A f \in Files : f \in Actors
    BY ActorKinds DEF Base
  <1>1. CASE TrigBegin(t)
    <2>1. /\ task'.rev = task.rev + 1 /\ UNCHANGED <<code, snaps, ck>>
      BY <1>0, <1>1, BeginEffect
    <2>2. /\ \A a \in Actors : ~Current(a)'
          /\ \A k \in Triggers : snaps'[k].rev # task'.rev
          /\ ~Current(Worker)'
      BY <1>0, <1>10, <2>1 DEF Current
    <2>3. QED
      BY <2>1, <2>2 DEF SettleInv, Copying
  <1>2. ASSUME trig[t].pc \in {"sync", "supersede", "insert", "find", "carry"},
               InProgress(t)', UNCHANGED task,
               \A u \in Triggers \ {t} : trig'[u] = trig[u],
               \A a \in Actors \ {t} : ck'[a] = ck[a],
               \/ ck'[t] = ck[t]
               \/ ck'[t].pc = "copy" /\ ck'[t].parent = "PREPARING" /\ ck'[t].finalize = FALSE,
               \A k \in Triggers : snaps'[k].rev = task.rev => snaps'[k].status = "pending"
        PROVE  SettleInv'
    <2>1. \A a \in Actors : ck'[a].pc = "save" => ~Current(a)'
      BY <1>2, NoCopying DEF Current, Copying
    <2>2. \A u \in Triggers : InProgress(u)' => u = t /\ InProgress(t)
      <3>1. InProgress(t) /\ \A u \in Triggers \ {t} : InProgress(u)' => InProgress(u)
        BY <1>2 DEF InProgress
      <3>2. QED
        BY <1>0, <3>1
    <2>3. \A a \in Actors, u \in Triggers : Current(a)' /\ InProgress(u)' => SavesAgreed(a)'
      <3>1. ASSUME NEW a \in Actors \ {t}, Current(a)', InProgress(t)
            PROVE  SavesAgreed(a)'
        <4>1. ck'[a] = ck[a] /\ Current(a)
          BY <1>2, <3>1 DEF Current
        <4>2. SavesAgreed(a)
          BY <3>1, <4>1 DEF SettleInv
        <4>3. ck'[a].pc # "save"
          BY <2>1, <3>1
        <4>4. QED
          BY <4>1, <4>2, <4>3 DEF SavesAgreed
      <3>2. ASSUME Current(t)', InProgress(t)
            PROVE  SavesAgreed(t)'
        <4>1. ck'[t].parent = "PREPARING" /\ ~ck'[t].finalize
          <5>1. CASE ck'[t] = ck[t]
            BY <1>2, <1>10, <3>2, <5>1 DEF SettleInv, SavesAgreed, Current
          <5>2. QED
            BY <1>2, <5>1
        <4>2. ck'[t].pc # "save"
          BY <1>10, <2>1, <3>2
        <4>3. QED
          BY <4>1, <4>2 DEF SavesAgreed
      <3>3. QED
        BY <2>2, <3>1, <3>2
    <2>4. /\ \A f \in Files : ck'[f] = ck[f]
          /\ ck'[Worker] = ck[Worker]
      BY <1>10, <1>2
    <2>5. QED
      BY <1>2, <2>1, <2>3, <2>4 DEF SettleInv, Current, Copying
  <1>3. CASE TrigSync(t) \/ TrigFind(t)
    <2>1. /\ trig[t].pc \in {"sync", "find"} /\ InProgress(t)'
          /\ UNCHANGED <<task, snaps, ck>>
          /\ \A u \in Triggers \ {t} : trig'[u] = trig[u]
      BY <1>0, <1>3, SyncEffect, FindEffect DEF InProgress
    <2>2. \A k \in Triggers : snaps[k].rev # task.rev
      BY <2>1, NoCopying
    <2>3. QED
      BY <1>2, <2>1, <2>2
  <1>4. CASE TrigSupersede(t)
    <2>1. /\ trig[t].pc = "supersede" /\ InProgress(t)'
          /\ UNCHANGED <<task, ck>>
          /\ \A u \in Triggers \ {t} : trig'[u] = trig[u]
          /\ \A k \in Triggers : snaps'[k].rev = snaps[k].rev
      BY <1>0, <1>4, SupersedeEffect DEF InProgress
    <2>2. \A k \in Triggers : snaps'[k].rev # task.rev
      BY <2>1, NoCopying
    <2>3. QED
      BY <1>2, <2>1, <2>2
  <1>5. CASE TrigInsert(t)
    <2>1. /\ trig[t].pc = "insert" /\ InProgress(t)' /\ UNCHANGED task
          /\ \A u \in Triggers \ {t} : trig'[u] = trig[u]
      BY <1>10, <1>5, InsertTrigger DEF InProgress
    <2>2. \A k \in Triggers : snaps[k].rev # task.rev
      BY <2>1, NoCopying
    <2>3. /\ snaps'[t].status = "pending"
          /\ \A k \in Triggers \ {t} : snaps'[k] = snaps[k]
          /\ ck'[t].pc = "copy" /\ ck'[t].parent = "PREPARING" /\ ck'[t].finalize = FALSE
          /\ \A a \in Actors \ {t} : ck'[a] = ck[a]
      BY <1>10, <1>5, InsertEffect
    <2>4. \A k \in Triggers : snaps'[k].rev = task.rev => snaps'[k].status = "pending"
      BY <2>2, <2>3
    <2>5. QED
      BY <1>2, <2>1, <2>3, <2>4
  <1>6. CASE TrigCarry(t)
    <2> DEFINE k == trig[t].key
    <2>1. /\ trig[t].pc = "carry" /\ k \in Triggers /\ trig'[t].pc = "publish"
          /\ snaps[k].status = trig[t].found => snaps'[k].status = "pending"
          /\ \A l \in Triggers \ {k} : snaps'[l] = snaps[l]
          /\ ck'[t].pc = "copy" /\ ck'[t].parent = "PREPARING" /\ ck'[t].finalize = FALSE
          /\ \A a \in Actors \ {t} : ck'[a] = ck[a]
          /\ \A u \in Triggers \ {t} : trig'[u] = trig[u]
          /\ UNCHANGED task
      BY <1>10, <1>6, CarryEffect
    <2>2. snaps[k].status = trig[t].found
      BY <2>1 DEF HoldInv
    <2>3. \A l \in Triggers : snaps[l].rev # task.rev
      BY <2>1, NoCopying
    <2>4. \A l \in Triggers : snaps'[l].rev = task.rev => snaps'[l].status = "pending"
      BY <2>1, <2>2, <2>3
    <2>5. QED
      BY <1>2, <2>1, <2>4 DEF InProgress
  <1>7. CASE TrigPublish(t) \/ TrigFail(t)
    <2>1. /\ trig[t].pc \notin {"idle", "done"} /\ trig'[t].pc = "done"
          /\ \A u \in Triggers \ {t} : trig'[u] = trig[u]
          /\ task'.rev = task.rev
          /\ UNCHANGED <<code, snaps, ck>>
      BY <1>0, <1>7, PublishEffect, FailEffect
    <2>2. InProgress(t) /\ \A u \in Triggers : ~InProgress(u)'
      BY <1>0, <2>1 DEF InProgress
    <2>3. task.state = "PREPARING" /\ (Current(Worker) => ~ck[Worker].finalize)
      BY <1>0, <1>10, <2>2 DEF SettleInv, SavesAgreed
    <2>4. /\ \A a \in Actors : Current(a)' <=> Current(a)
          /\ \A a \in Actors : ck[a].pc = "save" => ck[a].key \in Triggers
      BY <1>10, <2>1 DEF Current, IInv, KeyInv
    <2>5. \A k \in Triggers : Exists(k)' /\ snaps'[k].rev = task'.rev
                                /\ snaps'[k].status = "completed" => Finished(k)'
      <3>1. ASSUME NEW k \in Triggers, Exists(k), snaps[k].rev = task.rev,
                   snaps[k].status = "completed"
            PROVE  Settled(k) /\ ~NoBlocks(k)
        BY <2>3, <3>1 DEF SettleInv, Finished
      <3>2. \A k \in Triggers : /\ Settled(k)' <=> Settled(k)
                                /\ NoBlocks(k)' <=> NoBlocks(k)
        BY <2>1, SettledKept
      <3>3. QED
        BY <2>1, <3>1, <3>2 DEF Finished, Exists
    <2>6. \A a \in Actors : ck'[a].pc = "save" /\ Current(a)' => SavesFinished(a)'
      BY <2>1, <2>4, SavesKept DEF SettleInv
    <2>7. QED
      BY <1>10, <2>1, <2>2, <2>3, <2>4, <2>5, <2>6 DEF SettleInv, Copying
  <1>8. QED
    BY <1>1, <1>3, <1>4, <1>5, <1>6, <1>7 DEF TriggerStep, TrigStep

LEMMA SettleLoad ==
    ASSUME Base, OneInv, SettleInv, Calm', "parallel" \notin races',
           NEW a \in Actors, CkLoad(a)
    PROVE  SettleInv'
  <1>0. /\ "late" \notin races' /\ IInv /\ ActorInv /\ task.rev > 0 /\ task.rev \in Nat
        /\ ck[a].rev \in Nat
    BY DEF Base, Calm, WorkInv, IInv, TypeOK, Checkpoint, Task
  <1>1. /\ ck[a].pc = "load"
        /\ \/ ck'[a].pc = "none"
           \/ /\ ck'[a].pc = "copy"
              /\ ck'[a].parent = IF ck[a].rev = 0 THEN task.state ELSE ck[a].parent
              /\ ck'[a].finalize = ck[a].finalize
        /\ \A o \in Actors \ {a} : ck'[o] = ck[o]
        /\ UNCHANGED <<task, code, snaps, trig, run>>
    BY <1>0, LoadEffect
  <1>2. /\ a \notin Files => Wanted(a) = task.rev
        /\ a \in Files => \A f \in Files \ {a} : ck[f].pc = "none"
    BY <1>0, LoadEffect
  <1>3. a \notin Files => ck[a].rev = task.rev /\ Current(a)
    <2>1. a \notin Files => ck[a].rev # 0
      BY <1>0, <1>1, ActorKinds DEF ActorInv, IInv, RevisionInv
    <2>2. QED
      BY <1>1, <1>2, <2>1 DEF Wanted, Current
  <1>4. a \in Files => /\ ck[a].rev = 0 /\ ~ck[a].finalize
                       /\ task.state # "COMPLETED"
    BY <1>0, <1>1 DEF ActorInv, OneInv
  <1>5. /\ \A o \in Actors \ {a} : Current(o)' <=> Current(o)
        /\ \A t \in Triggers : InProgress(t)' <=> InProgress(t)
        /\ ck'[a].pc # "save"
        /\ \A o \in Actors : ck[o].pc = "save" => ck[o].key \in Triggers
    BY <1>0, <1>1 DEF Current, InProgress, IInv, KeyInv
  <1>6. \A k \in Triggers : Exists(k)' /\ snaps'[k].rev = task'.rev
                              /\ snaps'[k].status = "completed" => Finished(k)'
    <2>1. ASSUME NEW k \in Triggers, Exists(k), snaps[k].rev = task.rev,
                 snaps[k].status = "completed"
          PROVE  /\ Settled(k)
                 /\ NoBlocks(k) => /\ task.state = "COMPLETED"
                                   /\ \A o \in Actors \ {a} : ~Current(o)
                                   /\ a \in Files
      BY <1>3, <2>1 DEF SettleInv, Finished
    <2>2. \A k \in Triggers : /\ Settled(k)' <=> Settled(k)
                              /\ NoBlocks(k)' <=> NoBlocks(k)
      BY <1>1, SettledKept
    <2>3. QED
      BY <1>1, <1>4, <1>5, <2>1, <2>2 DEF Exists, Finished
  <1>7. \A o \in Actors \ {a} : ck'[o].pc = "save" /\ Current(o)' => SavesFinished(o)'
    BY <1>1, <1>5, SavesKept DEF SettleInv
  <1>8. \A o \in Actors \ {a}, t \in Triggers : Current(o)' /\ InProgress(t)' => SavesAgreed(o)'
    <2>1. ASSUME NEW o \in Actors \ {a}, NEW t \in Triggers, Current(o), InProgress(t)
          PROVE  SavesAgreed(o)'
      <3>1. SavesAgreed(o)
        BY <2>1 DEF SettleInv
      <3>2. CASE ck[o].pc = "save"
        BY <1>1, <1>5, <3>1, <3>2, SavesKept
      <3>3. CASE ck[o].pc # "save"
        BY <1>1, <3>1, <3>3 DEF SavesAgreed
      <3>4. QED
        BY <3>2, <3>3
    <2>2. QED
      BY <1>5, <2>1
  <1>9. ASSUME NEW t \in Triggers, InProgress(t), Current(a)'
        PROVE  SavesAgreed(a)'
    <2>1. task.state = "PREPARING"
      BY <1>9 DEF Base, WorkInv, OneInv
    <2>2. ck'[a].parent = "PREPARING" /\ ~ck'[a].finalize
      <3>1. CASE a \in Files
        BY <1>1, <1>4, <1>9, <2>1, <3>1 DEF Current
      <3>2. CASE a \notin Files
        <4>1. SavesAgreed(a)
          BY <1>3, <1>9, <3>2 DEF SettleInv
        <4>2. QED
          BY <1>0, <1>1, <1>3, <1>9, <3>2, <4>1 DEF Current, SavesAgreed
      <3>3. QED
        BY <3>1, <3>2
    <2>3. QED
      BY <1>5, <2>2 DEF SavesAgreed
  <1>10. \A f, g \in Files : Copying(f)' /\ Copying(g)' => f = g
    <2>1. \A f \in Files : f \in Actors
      BY ActorKinds
    <2>2. \A f \in Files \ {a} : Copying(f)' <=> Copying(f)
      BY <1>1, <2>1 DEF Copying
    <2>3. a \in Files => \A f \in Files \ {a} : ~Copying(f)
      BY <1>2 DEF Copying
    <2>4. QED
      BY <2>2, <2>3 DEF SettleInv
  <1>11. Current(Worker)' /\ ck'[Worker].finalize /\ ck'[Worker].parent = "COMPLETED" =>
            task'.state = "COMPLETED"
    <2>1. CASE a = Worker
      BY <1>0, <1>1, <1>3, <2>1, ActorKinds DEF SettleInv, Current
    <2>2. CASE a # Worker
      BY <1>1, <1>5, <2>2, ActorKinds DEF SettleInv
    <2>3. QED
      BY <2>1, <2>2
  <1>12. QED
    BY <1>5, <1>6, <1>7, <1>8, <1>9, <1>10, <1>11 DEF SettleInv

\* What a checkpoint copies is settled when it makes for a completed snapshot.
LEMMA SettledByCopy ==
    ASSUME TypeOK, NEW k \in Triggers, NEW copy, copy = Copied(snaps[k]),
           \A b \in Blocks : copy[b] \in {"absent", "completed"}
    PROVE  \A b \in snaps[k].refs : code[b] \in {"absent", "completed"}
  <1>1. snaps[k] \in Snap /\ snaps[k].refs \subseteq Blocks
    BY DEF TypeOK, Snap
  <1>2. QED
    BY <1>1, CopiedRefs

LEMMA SettleCopy ==
    ASSUME Base, OneInv, HoldInv, SettleInv, Calm', NEW a \in Actors, CkCopy(a)
    PROVE  SettleInv'
  <1>0. /\ "late" \notin races' /\ IInv /\ TypeOK /\ task.rev > 0 /\ task.rev \in Nat
        /\ ck[a].finalize \in BOOLEAN
    BY DEF Base, Calm, WorkInv, IInv, TypeOK, Task, Checkpoint
  <1>1. PICK k \in Triggers : k = ck[a].key
    BY <1>0, CopyEffect
  <1>2. PICK copy : copy = Copied(snaps[k])
    OBVIOUS
  <1>3. /\ ck[a].pc = "copy" /\ ck[a].rev = task.rev
        /\ snaps'[k].copy = copy
        /\ snaps'[k].rev = snaps[k].rev /\ snaps'[k].status = snaps[k].status
        /\ snaps'[k].refs = snaps[k].refs /\ snaps'[k].removed = snaps[k].removed
        /\ \A l \in Triggers \ {k} : snaps'[l] = snaps[l]
        /\ ck'[a].pc = "save" /\ ck'[a].rev = ck[a].rev
        /\ ck'[a].parent = ck[a].parent /\ ck'[a].finalize = ck[a].finalize
        /\ ck'[a].key = k /\ ck'[a].loaded = ck[a].loaded
        /\ ck'[a].new = Aggregate(copy, snaps[k].removed, ck[a].parent, ck[a].finalize)
        /\ \A o \in Actors \ {a} : ck'[o] = ck[o]
        /\ UNCHANGED <<task, code, trig, run>>
    BY <1>0, <1>1, <1>2, CopyEffect, Zenon
  <1>4. /\ snaps[k].rev = task.rev /\ Exists(k) /\ Copying(a) /\ Current(a)
        /\ snaps[k] \in Snap /\ snaps'[k] \in Snap
        /\ copy \in [Blocks -> Result]
    <2>1. snaps[k] \in Snap /\ copy \in [Blocks -> Result]
      BY <1>0, <1>1, <1>2, ResultTypes DEF TypeOK
    <2>2. snaps'[k] = [snaps[k] EXCEPT !.copy = copy]
      BY <1>0, <1>1, <1>2, CopyEffect
    <2>3. snaps'[k] \in Snap
      BY <2>1, <2>2 DEF Snap
    <2>4. QED
      BY <1>0, <1>1, <1>3, <2>1, <2>3 DEF HoldInv, Copying, Current, Exists
  <1>5. /\ Copied(snaps'[k]) = copy
        /\ (Copied(snaps[k]) = snaps[k].copy)'
    <2>1. Copied(snaps'[k]) = Copied(snaps[k])
      BY <1>0, <1>2, <1>3, <1>4, CopiedTwice
    <2>2. Copied(snaps[k])' = Copied(snaps'[k])
      BY <1>3 DEF Copied, FileMates, BlocksOf
    <2>3. QED
      BY <1>2, <1>3, <2>1, <2>2
  <1>6. Copied(snaps[k]) = snaps[k].copy => snaps'[k].copy = snaps[k].copy
    BY <1>2, <1>3
  <1>7. /\ \A o \in Actors : Current(o)' <=> Current(o)
        /\ \A t \in Triggers : InProgress(t)' <=> InProgress(t)
        /\ \A o \in Actors : Copying(o)' <=> Copying(o)
        /\ \A o \in Actors : ck[o].pc = "save" => ck[o].key \in Triggers
    BY <1>0, <1>3 DEF Current, InProgress, Copying, IInv, KeyInv
  <1>8. \A l \in Triggers : Settled(l) => /\ Settled(l)' /\ (NoBlocks(l)' <=> NoBlocks(l))
    <2>1. \A l \in Triggers \ {k} : Settled(l) => /\ Settled(l)' /\ (NoBlocks(l)' <=> NoBlocks(l))
      BY <1>3, SettledKept
    <2>2. Settled(k) => snaps'[k].copy = snaps[k].copy
      BY <1>6 DEF Settled
    <2>3. Settled(k) => /\ Settled(k)' /\ (NoBlocks(k)' <=> NoBlocks(k))
      BY <1>3, <2>2, SettledKept
    <2>4. QED
      BY <2>1, <2>3
  <1>9. snaps[k].status = "completed" => Settled(k) /\ ~NoBlocks(k)
    BY <1>4 DEF SettleInv, Finished
  <1>10. \A l \in Triggers : Exists(l)' /\ snaps'[l].rev = task'.rev
                               /\ snaps'[l].status = "completed" => Finished(l)'
    <2>1. ASSUME NEW l \in Triggers, Exists(l), snaps[l].rev = task.rev,
                 snaps[l].status = "completed"
          PROVE  Finished(l)'
      BY <1>3, <1>7, <1>8, <2>1 DEF SettleInv, Finished
    <2>2. QED
      BY <1>3, <2>1 DEF Exists
  <1>11. SavesFinished(a)'
    <2>1. ASSUME ck'[a].new = "completed"
          PROVE  /\ Settled(k)'
                 /\ NoBlocks(k)' => ck'[a].finalize /\ ck'[a].parent = "COMPLETED"
      <3>1. Aggregate(copy, snaps[k].removed, ck[a].parent, ck[a].finalize) = "completed"
        BY <1>3, <2>1
      <3>2. /\ \A b \in Blocks : copy[b] \in {"absent", "completed"}
            /\ (\A b \in Blocks : copy[b] = "absent") =>
                  ck[a].finalize /\ ck[a].parent = "COMPLETED"
        BY <1>4, <3>1, AggregateCompleted
      <3>3. \A b \in snaps[k].refs : code[b] \in {"absent", "completed"}
        BY <1>0, <1>2, <3>2, SettledByCopy
      <3>4. QED
        BY <1>3, <1>5, <3>2, <3>3 DEF Settled, NoBlocks
    <2>2. ASSUME snaps'[k].status = "completed"
          PROVE  ck'[a].new = "completed"
      <3>1. Settled(k) /\ ~NoBlocks(k)
        BY <1>3, <1>9, <2>2
      <3>2. /\ \A b \in Blocks : copy[b] \in {"absent", "completed"}
            /\ \E b \in Blocks : copy[b] # "absent"
        BY <1>2, <3>1 DEF Settled, NoBlocks
      <3>3. Aggregate(copy, snaps[k].removed, ck[a].parent, ck[a].finalize) = "completed"
        BY <1>4, <3>2, AggregateSettles
      <3>4. QED
        BY <1>3, <3>3
    <2>3. QED
      BY <1>3, <2>1, <2>2 DEF SavesFinished
  <1>12. \A o \in Actors \ {a} : ck'[o].pc = "save" /\ Current(o)' => SavesFinished(o)'
    <2>1. ASSUME NEW o \in Actors \ {a}, ck[o].pc = "save", Current(o)
          PROVE  SavesFinished(o)'
      <3>1. SavesFinished(o) /\ ck'[o] = ck[o]
        BY <1>3, <2>1 DEF SettleInv
      <3>2. ck[o].key \in Triggers /\ snaps'[ck[o].key].status = snaps[ck[o].key].status
        BY <1>3, <1>7, <2>1
      <3>3. QED
        BY <1>8, <3>1, <3>2 DEF SavesFinished
    <2>2. QED
      BY <1>3, <1>7, <2>1
  <1>13. ASSUME NEW t \in Triggers, InProgress(t)
         PROVE  SavesAgreed(a)'
    <2>1. ck[a].parent = "PREPARING" /\ ck[a].finalize = FALSE
      BY <1>0, <1>4, <1>13 DEF SettleInv, SavesAgreed
    <2>2. (Aggregate(snaps[k].copy, snaps[k].removed, "PREPARING", FALSE))' =
          Aggregate(snaps'[k].copy, snaps'[k].removed, "PREPARING", FALSE)
      BY DEF Aggregate
    <2>3. ck'[a].new = Aggregate(snaps'[k].copy, snaps'[k].removed, "PREPARING", FALSE)
      BY <1>3, <2>1
    <2>4. QED
      BY <1>3, <1>5, <2>1, <2>2, <2>3 DEF SavesAgreed
  <1>14. ASSUME NEW t \in Triggers, InProgress(t), NEW o \in Actors \ {a}, Current(o)
         PROVE  SavesAgreed(o)'
    <2>1. SavesAgreed(o) /\ ck'[o] = ck[o]
      BY <1>3, <1>14 DEF SettleInv
    <2>2. CASE ck[o].pc # "save"
      BY <2>1, <2>2 DEF SavesAgreed
    <2>3. CASE ck[o].pc = "save"
      <3>1. PICK l \in Triggers : l = ck[o].key
        BY <1>7, <2>3
      <3>2. Copied(snaps[l]) = snaps[l].copy
        BY <2>1, <2>3, <3>1 DEF SavesAgreed
      <3>3. /\ snaps'[l].copy = snaps[l].copy /\ snaps'[l].refs = snaps[l].refs
            /\ snaps'[l].removed = snaps[l].removed
        BY <1>3, <1>6, <3>2
      <3>4. QED
        BY <1>3, <2>1, <3>1, <3>3, SavesKept
    <2>4. QED
      BY <2>2, <2>3
  <1>15. QED
    <2>1. ck'[Worker].finalize = ck[Worker].finalize /\ ck'[Worker].parent = ck[Worker].parent
      BY <1>3, ActorKinds
    <2>2. Worker \in Actors /\ \A f \in Files : f \in Actors
      BY ActorKinds
    <2>3. QED
      BY <1>3, <1>7, <1>10, <1>11, <1>12, <1>13, <1>14, <2>1, <2>2 DEF SettleInv

\* Two checkpoints of the revision of the task that are about to save come to the
\* same result, for one of them is that of a submission.
LEMMA SavesAlike ==
    ASSUME Base, OneInv, HoldInv, SettleInv, NEW a \in Actors, NEW o \in Actors \ {a},
           ck[a].pc = "save", Current(a), ck[o].pc = "save", Current(o)
    PROVE  ck[a].new = ck[o].new
  <1>1. ck[a].key = ck[o].key
    <2>1. ck[a].key \in Triggers /\ ck[o].key \in Triggers
      BY DEF Base, IInv, KeyInv
    <2>2. snaps[ck[a].key].rev = task.rev /\ snaps[ck[o].key].rev = task.rev
      BY DEF HoldInv, Copying, Current
    <2>3. task.rev > 0 /\ task.rev \in Nat
      BY DEF Base, WorkInv, IInv, TypeOK, Task
    <2>4. QED
      BY <2>1, <2>2, <2>3, SameRevision DEF Exists, Base
  <1>2. ~(a \in Files /\ o \in Files)
    BY DEF SettleInv, Copying
  <1>3. ~(a \in Files /\ o = Worker) /\ ~(o \in Files /\ a = Worker)
    BY DEF Base, ActorInv
  <1>4. a \in Triggers \/ o \in Triggers
    BY <1>2, <1>3, ActorKinds
  <1>5. \E t \in Triggers : InProgress(t)
    BY <1>4 DEF Base, ActorInv, InProgress
  <1>6. SavesAgreed(a) /\ SavesAgreed(o)
    BY <1>5 DEF SettleInv
  <1>7. QED
    BY <1>1, <1>6 DEF SavesAgreed

LEMMA SettleSave ==
    ASSUME Base, OneInv, HoldInv, SettleInv, Calm', NEW a \in Actors, CkSave(a)
    PROVE  SettleInv'
  <1>0. /\ "late" \notin races' /\ IInv /\ task.rev > 0 /\ task.rev \in Nat
    BY DEF Base, Calm, WorkInv, IInv, TypeOK, Task
  <1>1. PICK k \in Triggers : k = ck[a].key
    BY <1>0, SaveEffect
  <1>2. /\ ck[a].pc = "save" /\ ck[a].rev = task.rev
        /\ snaps'[k].status = IF ck[a].new = ck[a].loaded THEN snaps[k].status ELSE ck[a].new
        /\ snaps'[k].copy = snaps[k].copy /\ snaps'[k].rev = snaps[k].rev
        /\ snaps'[k].refs = snaps[k].refs /\ snaps'[k].removed = snaps[k].removed
        /\ \A l \in Triggers \ {k} : snaps'[l] = snaps[l]
        /\ ck'[a].pc = "none"
        /\ \A o \in Actors \ {a} : ck'[o] = ck[o]
        /\ UNCHANGED <<task, code, trig, run>>
    BY <1>0, <1>1, SaveEffect
  <1>3. snaps[k].rev = task.rev /\ Exists(k) /\ Current(a)
    BY <1>0, <1>1, <1>2 DEF HoldInv, Copying, Current, Exists
  <1>4. /\ ~Current(a)' /\ \A o \in Actors \ {a} : Current(o)' <=> Current(o)
        /\ \A t \in Triggers : InProgress(t)' <=> InProgress(t)
        /\ \A o \in Actors : Copying(o)' => Copying(o)
        /\ \A o \in Actors : ck[o].pc = "save" => ck[o].key \in Triggers
    BY <1>0, <1>2 DEF Current, InProgress, Copying, IInv, KeyInv
  <1>5. \A l \in Triggers : /\ Settled(l)' <=> Settled(l)
                            /\ NoBlocks(l)' <=> NoBlocks(l)
    BY <1>2, SettledKept
  <1>6. ck[a].new = "completed" =>
           Settled(k) /\ (NoBlocks(k) => ck[a].finalize /\ ck[a].parent = "COMPLETED")
    BY <1>1, <1>2, <1>3 DEF SettleInv, SavesFinished
  <1>7. snaps'[k].status = "completed" => Finished(k)'
    <2>1. CASE snaps[k].status = "completed"
      <3>1. Settled(k) /\ ~NoBlocks(k)
        BY <1>3, <2>1 DEF SettleInv, Finished
      <3>2. QED
        BY <1>5, <3>1 DEF Finished
    <2>2. CASE ck[a].new = "completed" /\ ~NoBlocks(k)
      BY <1>5, <1>6, <2>2 DEF Finished
    <2>3. CASE ck[a].new = "completed" /\ NoBlocks(k)
      <3>1. a = Worker
        BY <1>2, <1>6, <2>3, ActorKinds DEF Base, ActorInv
      <3>2. task.state = "COMPLETED" /\ run.pc = "closing"
        BY <1>2, <1>3, <1>6, <2>3, <3>1 DEF SettleInv, Base, ActorInv
      <3>3. \A o \in Actors \ {a} : ck[o].pc = "none"
        <4>1. \A f \in Files : ck[f].pc = "none"
          BY <3>2 DEF Base, ActorInv
        <4>2. \A t \in Triggers : ck[t].pc = "none"
          BY <3>2 DEF Base, ActorInv, WorkInv, OneInv, InProgress
        <4>3. QED
          BY <3>1, <4>1, <4>2, ActorKinds
      <3>4. \A o \in Actors : ~Current(o)'
        BY <1>4, <3>3 DEF Current
      <3>5. QED
        BY <1>2, <1>5, <1>6, <2>3, <3>2, <3>4 DEF Finished
    <2>4. QED
      BY <1>2, <2>1, <2>2, <2>3
  <1>8. \A l \in Triggers : Exists(l)' /\ snaps'[l].rev = task'.rev
                              /\ snaps'[l].status = "completed" => Finished(l)'
    <2>1. ASSUME NEW l \in Triggers, Exists(l), snaps[l].rev = task.rev
          PROVE  l = k
      BY <1>0, <1>3, <2>1, SameRevision
    <2>2. QED
      BY <1>2, <1>7, <2>1 DEF Exists
  <1>9. ASSUME NEW o \in Actors \ {a}, ck[o].pc = "save", Current(o)
        PROVE  SavesFinished(o)'
    <2>1. SavesFinished(o) /\ ck'[o] = ck[o] /\ ck[o].key \in Triggers
      BY <1>2, <1>4, <1>9 DEF SettleInv
    <2>2. ck[a].new = ck[o].new
      BY <1>2, <1>3, <1>9, SavesAlike
    <2>3. snaps'[ck[o].key].status = "completed" =>
             snaps[ck[o].key].status = "completed" \/ ck[a].new = "completed"
      BY <1>2, <2>1
    <2>4. QED
      BY <1>5, <2>1, <2>2, <2>3 DEF SavesFinished
  <1>10. ASSUME NEW t \in Triggers, InProgress(t), NEW o \in Actors \ {a}, Current(o)
         PROVE  SavesAgreed(o)'
    <2>1. SavesAgreed(o) /\ ck'[o] = ck[o]
      BY <1>2, <1>10 DEF SettleInv
    <2>2. CASE ck[o].pc # "save"
      BY <2>1, <2>2 DEF SavesAgreed
    <2>3. CASE ck[o].pc = "save"
      <3>1. PICK l \in Triggers : l = ck[o].key
        BY <1>4, <2>3
      <3>2. QED
        BY <1>2, <2>1, <3>1, SavesKept
    <2>4. QED
      BY <2>2, <2>3
  <1>11. Current(Worker)' /\ ck'[Worker].finalize /\ ck'[Worker].parent = "COMPLETED" =>
            task'.state = "COMPLETED"
    BY <1>2, <1>4, ActorKinds DEF SettleInv
  <1>12. \A f, g \in Files : Copying(f)' /\ Copying(g)' => f = g
    BY <1>4, ActorKinds DEF SettleInv
  <1>13. QED
    BY <1>2, <1>4, <1>8, <1>9, <1>10, <1>11, <1>12 DEF SettleInv

LEMMA SettleCheckpoint ==
    ASSUME Base, OneInv, HoldInv, SettleInv, Calm', "parallel" \notin races',
           NEW a \in Actors, CkStep(a)
    PROVE  SettleInv'
  BY SettleLoad, SettleCopy, SettleSave DEF CkStep

\* The worker settles nothing but through its checkpoints: it leaves the blocks of
\* a settled snapshot alone.
LEMMA SettleWorker ==
    ASSUME Base, OneInv, HoldInv, CodeInv, ReviewInv, SettleInv, Calm', WorkerStep
    PROVE  SettleInv'
  <1>0. /\ "late" \notin races' /\ IInv /\ ActorInv /\ TypeOK
        /\ task.rev > 0 /\ task.rev \in Nat
        /\ \A a \in Actors : ck[a].pc = "save" => ck[a].key \in Triggers
        /\ \A k \in Triggers : snaps[k].refs \subseteq Blocks
    BY DEF Base, Calm, WorkInv, IInv, KeyInv, TypeOK, Task, Snap
  <1>1. /\ task'.rev = task.rev /\ UNCHANGED <<snaps, trig>>
        /\ \A a \in Actors : Copying(a)' => Copying(a) /\ ck'[a] = ck[a]
    BY WorkerKeeps
  <1>2. /\ \A t \in Triggers : InProgress(t)' <=> InProgress(t)
        /\ \A f \in Files : f \in Actors
        /\ Worker \in Actors /\ Worker \notin Files
    BY <1>1, ActorKinds DEF InProgress
  \* A step that changes neither a settled block nor, while the task is completed,
  \* anything else.
  <1>3. ASSUME \A k \in Triggers : /\ Exists(k) /\ snaps[k].rev = task.rev /\ Settled(k)
                                   => \A b \in snaps[k].refs : code'[b] = code[b],
               \/ task.state # "COMPLETED"
               \/ task'.state = "COMPLETED" /\ \A a \in Actors : Current(a)' => Current(a),
               (\E t \in Triggers : InProgress(t)) =>
                  /\ UNCHANGED code
                  /\ \A a \in Actors : Current(a)' =>
                        \/ ck'[a] = ck[a]
                        \/ /\ ck'[a].parent = "PREPARING" /\ ~ck'[a].finalize
                           /\ ck'[a].pc # "save",
               Current(Worker)' /\ ck'[Worker].finalize /\ ck'[Worker].parent = "COMPLETED"
                  => task'.state = "COMPLETED"
        PROVE  SettleInv'
    <2>1. \A k \in Triggers : Exists(k) /\ snaps[k].rev = task.rev /\ Settled(k) =>
             /\ Settled(k)' /\ (NoBlocks(k)' <=> NoBlocks(k))
      BY <1>1, <1>3, SettledKept
    <2>2. \A k \in Triggers : Exists(k)' /\ snaps'[k].rev = task'.rev
                                /\ snaps'[k].status = "completed" => Finished(k)'
      <3>1. ASSUME NEW k \in Triggers, Exists(k), snaps[k].rev = task.rev,
                   snaps[k].status = "completed"
            PROVE  Finished(k)'
        <4>1. Finished(k)
          BY <3>1 DEF SettleInv
        <4>2. Settled(k)' /\ (NoBlocks(k)' <=> NoBlocks(k))
          BY <2>1, <3>1, <4>1 DEF Finished
        <4>3. QED
          BY <1>3, <4>1, <4>2 DEF Finished
      <3>2. QED
        BY <1>1, <3>1 DEF Exists
    <2>3. ASSUME NEW a \in Actors, ck'[a].pc = "save", Current(a)'
          PROVE  SavesFinished(a)'
      <3>1. ck'[a] = ck[a] /\ ck[a].pc = "save" /\ Current(a)
        BY <1>1, <2>3 DEF Current, Copying
      <3>2. SavesFinished(a)
        BY <3>1 DEF SettleInv
      <3>3. PICK k \in Triggers : k = ck[a].key
        BY <1>0, <3>1
      <3>4. Exists(k) /\ snaps[k].rev = task.rev
        BY <1>0, <3>1, <3>3 DEF HoldInv, Copying, Current, Exists
      <3>5. QED
        BY <1>1, <2>1, <3>1, <3>2, <3>3, <3>4 DEF SavesFinished
    <2>4. ASSUME NEW t \in Triggers, InProgress(t), NEW a \in Actors, Current(a)'
          PROVE  SavesAgreed(a)'
      <3>1. CASE ck'[a] = ck[a]
        <4>1. SavesAgreed(a)
          BY <1>1, <2>4, <3>1 DEF SettleInv, Current
        <4>2. UNCHANGED code
          BY <1>3, <2>4
        <4>3. CASE ck[a].pc # "save"
          BY <3>1, <4>1, <4>3 DEF SavesAgreed
        <4>4. CASE ck[a].pc = "save"
          <5>1. PICK k \in Triggers : k = ck[a].key
            BY <1>0, <4>4
          <5>2. QED
            BY <1>1, <3>1, <4>1, <4>2, <5>1, SavesKept
        <4>5. QED
          BY <4>3, <4>4
      <3>2. CASE ck'[a].parent = "PREPARING" /\ ~ck'[a].finalize /\ ck'[a].pc # "save"
        BY <3>2 DEF SavesAgreed
      <3>3. QED
        BY <1>3, <2>4, <3>1, <3>2
    <2>5. \A f, g \in Files : Copying(f)' /\ Copying(g)' => f = g
      BY <1>1, <1>2 DEF SettleInv
    <2>6. QED
      BY <1>2, <1>3, <2>2, <2>3, <2>4, <2>5 DEF SettleInv
  <1>4. CASE UNCHANGED <<task, code, ck>>
    BY <1>1, <1>3, <1>4 DEF SettleInv, Current
  <1>5. CASE run.pc \in {"sync", "review"} /\ run.rev = task.rev /\ UNCHANGED task
              /\ (\A a \in Actors : Current(a)' => Current(a))
              /\ ck'[Worker] = ck[Worker]
              /\ \A k \in Triggers : Exists(k) /\ snaps[k].rev = task.rev /\ Settled(k)
                                       => \A b \in snaps[k].refs : code'[b] = code[b]
    <2>1. \A t \in Triggers : ~InProgress(t)
      BY <1>0, <1>5 DEF Base, WorkInv, OneInv
    <2>2. Current(Worker)' /\ ck'[Worker].finalize /\ ck'[Worker].parent = "COMPLETED"
             => task'.state = "COMPLETED"
      BY <1>1, <1>5 DEF SettleInv, Current
    <2>3. task.state # "COMPLETED"
      BY <1>5 DEF OneInv
    <2>4. QED
      BY <1>3, <1>5, <2>1, <2>2, <2>3
  <1>6. CASE Claim
    <2>1. task.state \notin {"COMPLETED", "PREPARING"} /\ UNCHANGED <<code, ck>>
      BY <1>0, <1>6, ClaimEffect
    <2>2. \A t \in Triggers : ~InProgress(t)
      BY <2>1 DEF Base, WorkInv, OneInv
    <2>3. Current(Worker) => ~(ck[Worker].finalize /\ ck[Worker].parent = "COMPLETED")
      BY <2>1 DEF SettleInv
    <2>4. QED
      BY <1>1, <1>3, <2>1, <2>2, <2>3 DEF Current
  <1>7. CASE RunSync
    <2>1. /\ run.pc = "sync" /\ run.rev = task.rev /\ code' = Synced(run.tree)
          /\ UNCHANGED <<task, ck>>
      BY <1>0, <1>7, RunSyncEffect
    <2>2. run.tree = task.tree
      BY <2>1 DEF Base, WorkInv
    <2>3. \A k \in Triggers : Exists(k) /\ snaps[k].rev = task.rev => code' = code
      BY <1>0, <2>1, <2>2, SyncedSame DEF CodeInv, Synchronized
    <2>4. QED
      BY <1>5, <2>1, <2>3 DEF Current
  <1>8. ASSUME NEW f \in Files, RunStore(f)
        PROVE  SettleInv'
    <2>1. /\ run.pc = "review" /\ run.rev = task.rev /\ run.thread[f] = "store"
          /\ \A b \in Blocks : code'[b] = IF FileOf[b] = f /\ FilePresent(b, code)
                                            THEN run.image[b] ELSE code[b]
          /\ ck'[f].rev = 0
          /\ \A a \in Actors \ {f} : ck'[a] = ck[a]
          /\ UNCHANGED task
      BY <1>0, <1>8, StoreEffect
    <2>2. \A b \in Blocks : code[b] \in {"absent", "completed"} => code'[b] = code[b]
      BY <2>1 DEF ReviewInv
    <2>3. \A k \in Triggers : Settled(k) => \A b \in snaps[k].refs : code'[b] = code[b]
      BY <1>0, <2>2 DEF Settled
    <2>4. /\ \A a \in Actors : Current(a)' => Current(a)
          /\ ck'[Worker] = ck[Worker]
      BY <1>0, <1>2, <2>1 DEF Current
    <2>5. QED
      BY <1>5, <2>1, <2>3, <2>4
  <1>9. CASE RunMoves \/ \E f \in Files : RunReview(f)
    BY <1>0, <1>4, <1>9, MovesEffect, ReviewEffect
  <1>10. CASE RunEnds
    <2>1. /\ run.pc \in {"review", "interrupted"}
          /\ ck'[Worker].pc = "load" /\ ck'[Worker].parent = task'.state
          /\ \A a \in Actors \ {Worker} : ck'[a] = ck[a]
          /\ \/ run.pc = "review" /\ task.rev = run.rev
             \/ /\ run.pc = "interrupted" /\ ck'[Worker].finalize = FALSE
                /\ task'.state = IF task.rev = run.rev THEN "PENDING" ELSE task.state
          /\ UNCHANGED code
      BY <1>0, <1>10, EndsEffect
    <2>2. task.state # "COMPLETED"
      BY <2>1 DEF OneInv
    <2>3. (\E t \in Triggers : InProgress(t)) =>
             task.rev # run.rev /\ task.state = "PREPARING"
      BY <1>0, <2>1 DEF Base, WorkInv, OneInv
    <2>4. QED
      BY <1>2, <1>3, <2>1, <2>2, <2>3
  <1>11. CASE Crash
    <2>1. /\ \A t \in Triggers : ck'[t] = ck[t]
          /\ \A a \in Actors \ Triggers : ck'[a].pc = "none"
          /\ UNCHANGED <<task, code>>
      BY <1>0, <1>11, CrashEffect
    <2>2. \A a \in Actors : Current(a)' => Current(a) /\ ck'[a] = ck[a]
      BY <1>1, <2>1 DEF Current
    <2>3. ~Current(Worker)'
      BY <2>1, ActorKinds DEF Current
    <2>4. QED
      BY <1>3, <2>1, <2>2, <2>3
  <1>12. QED
    BY <1>6, <1>7, <1>8, <1>9, <1>10, <1>11 DEF WorkerStep

-----------------------------------------------------------------------------
(* The invariant *)

LEMMA InitSnapInv == Init => SnapInv
  <1> SUFFICES ASSUME Init PROVE SnapInv
    OBVIOUS
  <1>1. IInv
    BY InitInvariant
  <1>2. /\ \A k \in Triggers : /\ ~Exists(k) /\ ~Open(k)
                               /\ snaps[k].status = "pending"
                               /\ \A b \in Blocks : snaps[k].copy[b] = "absent"
        /\ \A t \in Triggers : trig[t].pc = "idle" /\ ~InProgress(t)
        /\ \A a \in Actors : /\ ck[a].pc = "none" /\ ck[a].rev = 0 /\ ck[a].new = "pending"
                             /\ ~Copying(a) /\ ~Current(a)
        /\ run.pc = "idle" /\ task.rev = 1 /\ task.state = "PENDING"
    BY DEF Init, Exists, Open, NoSnap, NoCopy, NewTrigger, NoCheckpoint, NoRun, InProgress,
           Copying, Current
  <1>3. Worker \in Actors /\ \A f \in Files : f \in Actors
    BY ActorKinds
  <1>4. \A t \in Triggers : t \in Actors
    BY ActorKinds
  <1>5. BornInv /\ WorkInv /\ ActorInv
    BY <1>2, <1>3, <1>4 DEF BornInv, WorkInv, ActorInv
  <1>6. OneInv /\ HoldInv /\ ReviewInv /\ OpenInv /\ RefsInv
    BY <1>2 DEF OneInv, HoldInv, ReviewInv, OpenInv, RefsInv
  <1>7. CodeInv
    BY <1>2 DEF CodeInv, Synchronized
  <1>8. WholeInv
    BY <1>2 DEF WholeInv
  <1>9. DoneInv
    BY <1>2 DEF DoneInv, Idle
  <1>10. SettleInv
    BY <1>2, <1>3 DEF SettleInv
  <1>11. QED
    BY <1>1, <1>5, <1>6, <1>7, <1>8, <1>9, <1>10 DEF SnapInv

\* Every part of the invariant survives every step.
LEMMA StepSnapInv ==
    ASSUME SnapInv, IInv',
           \/ \E t \in Triggers : TriggerStep(t)
           \/ \E a \in Actors : CkStep(a)
           \/ WorkerStep
    PROVE  SnapInv'
  <1>0. IInv /\ BornInv /\ WorkInv /\ ActorInv /\ Base
    BY DEF SnapInv, Base
  <1>1. races \subseteq races'
    BY <1>0, RacesGrow
  <1>2. Calm' => Calm
    BY <1>1 DEF Calm
  <1>3. BornInv' /\ WorkInv' /\ ActorInv'
    BY <1>0, BornTrigger, BornCheckpoint, BornWorker, WorkTrigger, WorkCheckpoint, WorkWorker,
       ActorTrigger, ActorCheckpoint, ActorWorker
  <1>4. ASSUME Calm'
        PROVE  OneInv' /\ HoldInv' /\ CodeInv' /\ ReviewInv'
    <2>1. OneInv /\ HoldInv /\ CodeInv /\ ReviewInv
      BY <1>2, <1>4 DEF SnapInv
    <2>2. OneInv'
      BY <1>0, <1>4, <2>1, OneTrigger, OneCheckpoint, OneWorker
    <2>3. HoldInv'
      BY <1>0, <1>4, <2>1, HoldTrigger, HoldCheckpoint, HoldWorker
    <2>4. CodeInv'
      BY <1>0, <1>4, <2>1, CodeTrigger, CodeCheckpoint, CodeWorker
    <2>5. ReviewInv'
      BY <1>0, <1>4, <2>1, ReviewTrigger, ReviewCheckpoint, ReviewWorker
    <2>6. QED
      BY <2>2, <2>3, <2>4, <2>5
  <1>5. ASSUME Calm', "failed_trigger" \notin races'
        PROVE  OpenInv'
    <2>1. OneInv /\ HoldInv /\ OpenInv
      BY <1>1, <1>2, <1>5 DEF SnapInv
    <2>2. QED
      BY <1>0, <1>5, <2>1, OpenTrigger, OpenCheckpoint, OpenWorker
  <1>6. ASSUME Calm', "vanished" \notin races'
        PROVE  RefsInv'
    <2>1. OneInv /\ CodeInv /\ RefsInv
      BY <1>1, <1>2, <1>6 DEF SnapInv
    <2>2. QED
      BY <1>0, <1>6, <2>1, RefsTrigger, RefsCheckpoint, RefsWorker
  <1>7. ASSUME races' \subseteq {"parallel"}
        PROVE  WholeInv' /\ DoneInv'
    <2>1. Calm' /\ races \subseteq {"parallel"}
      BY <1>1, <1>7 DEF Calm
    <2>2. Steady /\ WholeInv /\ DoneInv
      BY <1>2, <2>1 DEF SnapInv, Steady
    <2>3. WholeInv'
      BY <1>0, <1>7, <2>1, <2>2, WholeTrigger, WholeCheckpoint, WholeWorker
    <2>4. DoneInv'
      BY <1>0, <1>7, <2>1, <2>2, DoneTrigger, DoneCheckpoint, DoneWorker
    <2>5. QED
      BY <2>3, <2>4
  <1>8. ASSUME Calm', "parallel" \notin races'
        PROVE  SettleInv'
    <2>1. OneInv /\ HoldInv /\ CodeInv /\ ReviewInv /\ SettleInv
      BY <1>1, <1>2, <1>8 DEF SnapInv
    <2>2. QED
      BY <1>0, <1>8, <2>1, SettleTrigger, SettleCheckpoint, SettleWorker
  <1>9. QED
    BY <1>3, <1>4, <1>5, <1>6, <1>7, <1>8 DEF SnapInv

LEMMA NextSnapInv == SnapInv /\ [Next]_vars => SnapInv'
  <1> SUFFICES ASSUME SnapInv, [Next]_vars PROVE SnapInv'
    OBVIOUS
  <1>1. IInv'
    BY NextInvariant DEF SnapInv
  <1>2. CASE Next
    <2>1. \/ \E t \in Triggers : TriggerStep(t)
          \/ \E a \in Actors : CkStep(a)
          \/ WorkerStep
      BY <1>2, WorkerSteps DEF Next, TriggerStep
    <2>2. QED
      BY <1>1, <2>1, StepSnapInv
  <1>3. CASE UNCHANGED vars
    <2>1. UNCHANGED <<task, code, snaps, trig, run, ck, races>>
      BY <1>3 DEF vars
    <2>2. BornInv' /\ WorkInv' /\ ActorInv'
      BY <2>1 DEF SnapInv, BornInv, WorkInv, ActorInv, Exists, InProgress
    <2>3. Calm' => OneInv' /\ HoldInv' /\ CodeInv' /\ ReviewInv'
      BY <2>1 DEF SnapInv, Calm, OneInv, HoldInv, CodeInv, ReviewInv, Synchronized, Present,
                  Copying, InProgress, Open, Exists
    <2>4. /\ Calm' /\ "failed_trigger" \notin races' => OpenInv'
          /\ Calm' /\ "vanished" \notin races' => RefsInv'
      BY <2>1 DEF SnapInv, Calm, OpenInv, RefsInv, Open, Exists
    <2>5. races' \subseteq {"parallel"} => WholeInv' /\ DoneInv'
      BY <2>1 DEF SnapInv, WholeInv, Whole, DoneInv, AllDone, Idle, Current, Copying, Open,
                  Exists
    <2>6. Calm' /\ "parallel" \notin races' => SettleInv'
      <3>1. \A k \in Triggers : Finished(k)' <=> Finished(k)
        BY <2>1 DEF Finished, Settled, NoBlocks, Copied, FileMates, BlocksOf, Current
      <3>2. \A a \in Actors : SavesFinished(a)' <=> SavesFinished(a)
        BY <2>1 DEF SavesFinished, Settled, NoBlocks, Copied, FileMates, BlocksOf
      <3>3. \A a \in Actors : SavesAgreed(a)' <=> SavesAgreed(a)
        BY <2>1 DEF SavesAgreed, Aggregate, Copied, FileMates, BlocksOf
      <3>4. QED
        BY <2>1, <3>1, <3>2, <3>3 DEF SnapInv, Calm, SettleInv, Current, Copying, InProgress,
                                      Exists
    <2>7. QED
      BY <1>1, <2>2, <2>3, <2>4, <2>5, <2>6 DEF SnapInv
  <1>4. QED
    BY <1>2, <1>3

\* The snapshots and the checkpoints of a task fit together, as far as the races
\* that have happened allow.
THEOREM SnapInvariant == Spec => []SnapInv
  BY InitSnapInv, NextSnapInv, PTL DEF Spec

-----------------------------------------------------------------------------
(* What the invariant implies *)

LEMMA OpenFromInvariant == SnapInv => OpenSnapshotIsCurrent
  <1> SUFFICES ASSUME SnapInv, Quiet, races \cap {"overlap", "late", "failed_trigger"} = {},
                      NEW k \in Triggers, Open(k)
               PROVE  snaps[k].rev = task.rev
    BY DEF OpenSnapshotIsCurrent
  <1>1. OpenInv
    BY DEF SnapInv, Calm
  <1>2. QED
    BY <1>1 DEF OpenInv, Quiet, InProgress

\* Once nobody is at work on the task, an open snapshot has the revision of the
\* task, so that the next checkpoint finds it: the supersession of a trigger with
\* changes and the carrying of one without leave no older one behind.
THEOREM OpenSnapshotIsCurrentHolds == Spec => []OpenSnapshotIsCurrent
  BY SnapInvariant, OpenFromInvariant, PTL

LEMMA SettlesFromInvariant == SnapInv => CompletedTaskSettlesSnapshot
  <1> SUFFICES ASSUME SnapInv, Quiet, races \subseteq {"parallel"},
                      task.state = "COMPLETED", NEW k \in Triggers, Open(k)
               PROVE  FALSE
    BY DEF CompletedTaskSettlesSnapshot
  <1>1. ck[Worker].pc # "none"
    BY DEF SnapInv, DoneInv
  <1>2. QED
    BY <1>1 DEF SnapInv, ActorInv, Quiet

\* A completed task that nobody works on has no open snapshot: the last checkpoint
\* of the run, or the trigger that found nothing to do, has settled it.
THEOREM CompletedTaskSettlesSnapshotHolds == Spec => []CompletedTaskSettlesSnapshot
  BY SnapInvariant, SettlesFromInvariant, PTL

LEMMA WholeFromInvariant == SnapInv => CompletedSnapshotIsWhole
  BY DEF SnapInv, CompletedSnapshotIsWhole, WholeInv, Whole

\* A completed snapshot holds all of its blocks, all of them completed.
THEOREM CompletedSnapshotIsWholeHolds == Spec => []CompletedSnapshotIsWhole
  BY SnapInvariant, WholeFromInvariant, PTL

\* What one step may do to a snapshot that is completed or superseded.
SettledStays ==
    \A k \in Triggers :
       Exists(k) /\ ~Open(k) /\ races' \cap {"late", "overlap", "parallel"} = {}
          => snaps'[k] = snaps[k]

LEMMA SettledStep == SnapInv /\ [Next]_vars => SettledStays
  <1> SUFFICES ASSUME SnapInv, [Next]_vars, NEW k \in Triggers, Exists(k), ~Open(k),
                      races' \cap {"late", "overlap", "parallel"} = {}
               PROVE  snaps'[k] = snaps[k]
    BY DEF SettledStays
  <1>0. IInv /\ BornInv /\ ActorInv /\ Base
    BY DEF SnapInv, Base
  <1>1. CASE UNCHANGED vars
    BY <1>1 DEF vars
  <1>2. CASE Next
    <2>1. \/ \E t \in Triggers : TriggerStep(t)
          \/ \E a \in Actors : CkStep(a)
          \/ WorkerStep
      BY <1>2, WorkerSteps DEF Next, TriggerStep
    <2>2. races \subseteq races'
      BY <1>0, <2>1, RacesGrow
    <2>3. Calm /\ "late" \notin races' /\ "parallel" \notin races
      BY <2>2 DEF Calm
    <2>4. HoldInv /\ SettleInv
      BY <2>3 DEF SnapInv
    <2>5. CASE WorkerStep
      BY <1>0, <2>5, WorkerKeeps
    <2>6. ASSUME NEW t \in Triggers, TriggerStep(t)
          PROVE  snaps'[k] = snaps[k]
      <3>1. CASE TrigBegin(t) \/ TrigSync(t) \/ TrigFind(t) \/ TrigPublish(t) \/ TrigFail(t)
        BY <1>0, <3>1, BeginEffect, SyncEffect, FindEffect, PublishEffect, FailEffect
      <3>2. CASE TrigSupersede(t)
        BY <1>0, <3>2, SupersedeEffect
      <3>3. CASE TrigInsert(t)
        <4>1. trig[t].pc = "insert"
          BY <1>0, <3>3, InsertTrigger
        <4>2. k # t
          BY <1>0, <4>1 DEF BornInv
        <4>3. IInv
          BY <1>0
        <4>4. \A l \in Triggers \ {t} : snaps'[l] = snaps[l]
          BY <3>3, <4>3, InsertEffect
        <4>5. QED
          BY <4>2, <4>4
      <3>4. CASE TrigCarry(t)
        <4> DEFINE l == trig[t].key
        <4>1. IInv
          BY <1>0
        <4>2. /\ trig[t].pc = "carry" /\ l \in Triggers
              /\ \A m \in Triggers \ {l} : snaps'[m] = snaps[m]
          BY <3>4, <4>1, CarryEffect
        <4>3. Open(l)
          BY <2>4, <4>2 DEF HoldInv
        <4>4. QED
          BY <4>2, <4>3
      <3>5. QED
        BY <2>6, <3>1, <3>2, <3>3, <3>4 DEF TriggerStep, TrigStep
    <2>7. ASSUME NEW a \in Actors, CkStep(a)
          PROVE  snaps'[k] = snaps[k]
      <3>1. CASE CkLoad(a)
        BY <1>0, <3>1, LoadEffect
      <3>2. ASSUME Copying(a), ck[a].rev = task.rev, k = ck[a].key
            PROVE  snaps[k].status = "completed" /\ Settled(k)
        <4>1. snaps[k].rev = task.rev /\ snaps[k].status # "superseded"
          BY <2>4, <3>2 DEF HoldInv
        <4>2. snaps[k].status \in Status
          BY <1>0 DEF IInv, TypeOK, Snap
        <4>3. snaps[k].status = "completed"
          BY <4>1, <4>2 DEF Open, OpenStatus, Status
        <4>4. QED
          BY <2>4, <4>1, <4>3 DEF SettleInv, Finished
      <3>3. CASE CkCopy(a)
        <4> DEFINE l == ck[a].key
        <4>1. /\ ck[a].pc = "copy" /\ ck[a].rev = task.rev
              /\ \A m \in Triggers \ {l} : snaps'[m] = snaps[m]
              /\ snaps'[l] = [snaps[l] EXCEPT !.copy = Copied(snaps[l])]
          BY <1>0, <2>3, <3>3, CopyEffect, Zenon
        <4>2. CASE k = ck[a].key
          <5>1. Copied(snaps[k]) = snaps[k].copy
            BY <3>2, <4>1, <4>2 DEF Copying, Settled
          <5>2. snaps[k] \in Snap
            BY <1>0 DEF IInv, TypeOK
          <5>3. QED
            BY <4>1, <4>2, <5>1, <5>2 DEF Snap
        <4>3. QED
          BY <4>1, <4>2
      <3>4. CASE CkSave(a)
        <4>1. /\ ck[a].pc = "save" /\ ck[a].rev = task.rev
              /\ k # ck[a].key => snaps'[k] = snaps[k]
              /\ k = ck[a].key =>
                    /\ snaps'[k].status = IF ck[a].new = ck[a].loaded THEN snaps[k].status
                                          ELSE ck[a].new
                    /\ snaps'[k].status = snaps[k].status => snaps'[k] = snaps[k]
          BY <1>0, <2>3, <3>4, SaveEffect
        <4>2. CASE k = ck[a].key
          <5>1. snaps[k].status = "completed"
            BY <3>2, <4>1, <4>2 DEF Copying
          <5>2. ck[a].new \in {"completed", ck[a].loaded}
            BY <2>4, <4>1, <4>2, <5>1 DEF SettleInv, SavesFinished, Current
          <5>3. QED
            BY <4>1, <4>2, <5>1, <5>2
        <4>3. QED
          BY <4>1, <4>2
      <3>5. QED
        BY <2>7, <3>1, <3>3, <3>4 DEF CkStep
    <2>8. QED
      BY <2>1, <2>5, <2>6, <2>7
  <1>3. QED
    BY <1>1, <1>2

\* While nothing is late and nothing runs in parallel, a completed or superseded
\* snapshot is never written again.
THEOREM SettledSnapshotStaysHolds == Spec => SettledSnapshotStays
  <1>1. SnapInv /\ [Next]_vars => [SettledStays]_vars
    BY SettledStep
  <1>2. QED
    BY <1>1, SnapInvariant, PTL DEF Spec, SettledSnapshotStays, SettledStays

=============================================================================
