-------------------------- MODULE ReviewRunProofs --------------------------
(***************************************************************************)
(* Machine-checked proofs about ReviewRun, for any files, blocks, weights, *)
(* budgets and numbers of runs and interruptions: what the runs of a task  *)
(* leave behind is true, complete and counted once.                        *)
(***************************************************************************)
EXTENDS ReviewRun, TLAPS, FiniteSetTheorems, SequenceTheorems

-----------------------------------------------------------------------------
(* The files and places of a task                                          *)

LEMMA FilesAreNumbers ==
    /\ Len(NumBlocks) \in Nat
    /\ Files = 1 .. Len(NumBlocks)
    /\ \A f \in Files : NumBlocks[f] \in Nat \ {0}
    /\ Conditions \subseteq Nat
    /\ NoCondition \notin Conditions
    /\ MaxRuns \in Nat
  BY RunAssumption DEF Files, NoCondition

LEMMA FilesAreFinite == IsFiniteSet(Files)
  <1>1. 1 \in Int /\ Len(NumBlocks) \in Int
    BY FilesAreNumbers
  <1>2. QED
    BY <1>1, FS_Interval, FilesAreNumbers

LEMMA FileSetsAreFinite ==
    ASSUME NEW S, S \subseteq Files
    PROVE  IsFiniteSet(S) /\ Cardinality(S) \in Nat
  BY FilesAreFinite, FS_Subset, FS_CardinalityType

LEMMA PlacesAreFinite ==
    ASSUME NEW S, S \subseteq Places
    PROVE  IsFiniteSet(S) /\ Cardinality(S) \in Nat
  <1> DEFINE Row(f) == {f} \X (1 .. NumBlocks[f])
             Rows == {Row(f) : f \in Files}
  <1>1. ASSUME NEW f \in Files PROVE IsFiniteSet(Row(f))
    <2>1. 1 \in Int /\ NumBlocks[f] \in Int
      BY FilesAreNumbers
    <2>2. IsFiniteSet(1 .. NumBlocks[f])
      BY <2>1, FS_Interval
    <2>3. IsFiniteSet({f})
      BY FS_Singleton
    <2>4. QED
      BY <2>2, <2>3, FS_Product
  <1>2. IsFiniteSet(Rows)
    <2> DEFINE row == [f \in Files |-> Row(f)]
    <2>1. row \in Surjection(Files, Rows)
      BY DEF Surjection
    <2>2. QED
      <3> HIDE DEF Rows, row
      <3>1. QED
        BY <2>1, FilesAreFinite, FS_Surjection
  <1>3. \A R \in Rows : IsFiniteSet(R)
    BY <1>1
  <1>4. IsFiniteSet(UNION Rows)
    BY <1>2, <1>3, FS_UNION
  <1>5. Places = UNION Rows
    BY DEF Places
  <1>6. QED
    BY <1>4, <1>5, FS_Subset, FS_CardinalityType

-----------------------------------------------------------------------------
(* Documents                                                               *)

LEMMA FunctionsAreSequences ==
    ASSUME NEW S, NEW n \in Nat, NEW s \in [1 .. n -> S]
    PROVE  s \in Seq(S)
  OBVIOUS

LEMMA DocumentIsARecord ==
    ASSUME NEW doc \in FileDoc, NEW blocks \in Seq(Block),
           NEW state \in 0 .. 3, NEW status \in Statuses
    PROVE  /\ [doc EXCEPT !.blocks = blocks] \in FileDoc
           /\ [doc EXCEPT !.blocks = blocks, !.state = state, !.status = status] \in FileDoc
           /\ [doc EXCEPT !.state = state] \in FileDoc
           /\ [doc EXCEPT !.status = status] \in FileDoc
           /\ [doc EXCEPT !.state = state, !.status = status] \in FileDoc
           /\ doc.blocks \in Seq(Block)
           /\ doc.state \in 0 .. 3
           /\ doc.status \in Statuses
  BY DEF FileDoc

\* What it means that a block of a document is replaced by another.
Replaced(f, b, block) ==
    /\ stored' \in [Files -> FileDoc]
    /\ \A g \in Files \ {f} : stored'[g] = stored[g]
    /\ stored'[f].state = stored[f].state
    /\ stored'[f].status = stored[f].status
    /\ stored'[f].condition = stored[f].condition
    /\ DOMAIN stored'[f].blocks = DOMAIN stored[f].blocks
    /\ \A c \in DOMAIN stored[f].blocks :
          stored'[f].blocks[c] = IF c = b THEN block ELSE stored[f].blocks[c]

LEMMA PutBlock ==
    ASSUME stored \in [Files -> FileDoc],
           NEW f \in Files, NEW b \in DOMAIN stored[f].blocks, NEW block \in Block,
           stored' = [stored EXCEPT ![f].blocks[b] = block]
    PROVE  Replaced(f, b, block)
  <1> DEFINE new == [stored[f].blocks EXCEPT ![b] = block]
  <1>1. stored[f] \in FileDoc /\ stored[f].blocks \in Seq(Block)
    BY DEF FileDoc
  <1>2. /\ new \in Seq(Block)
        /\ DOMAIN new = DOMAIN stored[f].blocks
        /\ \A c \in DOMAIN stored[f].blocks :
              new[c] = IF c = b THEN block ELSE stored[f].blocks[c]
    BY <1>1, ExceptSeq
  <1>3. stored' = [stored EXCEPT ![f] = [stored[f] EXCEPT !.blocks = new]]
    OBVIOUS
  <1> HIDE DEF new
  <1>4. /\ stored'[f] = [stored[f] EXCEPT !.blocks = new]
        /\ \A g \in Files \ {f} : stored'[g] = stored[g]
        /\ stored' \in [Files -> FileDoc]
    <2>1. [stored[f] EXCEPT !.blocks = new] \in FileDoc
      BY <1>1, <1>2 DEF FileDoc
    <2>2. QED
      BY <1>3, <2>1
  <1>5. /\ stored'[f].blocks = new
        /\ stored'[f].state = stored[f].state
        /\ stored'[f].status = stored[f].status
        /\ stored'[f].condition = stored[f].condition
    BY <1>1, <1>4 DEF FileDoc
  <1>6. QED
    BY <1>2, <1>4, <1>5 DEF Replaced

\* The state of a block alone.
LEMMA BlockIsARecord ==
    ASSUME NEW old \in Block, NEW s \in 0 .. 3, NEW block, block = [old EXCEPT !.state = s]
    PROVE  /\ block \in Block /\ block.state = s /\ block.by = old.by
           /\ block.done = old.done /\ block.failed = old.failed
           /\ block.condition = old.condition
  <1>1. block \in Block
    BY DEF Block
  <1>2. block.state = s /\ block.by = old.by /\ block.condition = old.condition
    BY DEF Block
  <1>3. block.done = old.done /\ block.failed = old.failed
    BY DEF Block
  <1>4. QED
    BY <1>1, <1>2, <1>3

LEMMA SynchronizedDocument ==
    ASSUME stored \in [Files -> FileDoc], NEW f \in Files
    PROVE  /\ Synchronized(f) \in FileDoc
           /\ Faithful(Synchronized(f), NumBlocks[f])
           /\ Synchronized(f).status \in {"pending", "reviewed"}
           /\ DOMAIN Synchronized(f).blocks = 1 .. NumBlocks[f]
           /\ \A b \in 1 .. NumBlocks[f] :
                 IF b \in DOMAIN stored[f].blocks
                 THEN Synchronized(f).blocks[b]
                        = [stored[f].blocks[b] EXCEPT
                             !.state = IF Good(stored[f].blocks[b]) THEN 2 ELSE 0]
                 ELSE Synchronized(f).blocks[b] = NewBlock
  <1> DEFINE doc == stored[f]
             n == NumBlocks[f]
             old(b) == [doc.blocks[b] EXCEPT !.state = IF Good(doc.blocks[b]) THEN 2 ELSE 0]
             blocks == [b \in 1 .. n |-> IF b \notin DOMAIN doc.blocks THEN NewBlock ELSE old(b)]
             whole == \A b \in DOMAIN blocks : Good(blocks[b])
  <1>1. doc \in FileDoc /\ doc.blocks \in Seq(Block) /\ n \in Nat \ {0}
    BY FilesAreNumbers DEF FileDoc
  <1>2. NewBlock \in Block
    BY FilesAreNumbers DEF NewBlock, Block
  <1>3. ASSUME NEW b \in DOMAIN doc.blocks
        PROVE  old(b) \in Block /\ (old(b).state = 2 => Good(old(b))) /\ old(b).state # 3
    <2>1. doc.blocks[b] \in Block
      BY <1>1, ElementOfSeq
    <2>2. QED
      BY <2>1 DEF Block, Good
  <1>4. /\ blocks \in [1 .. n -> Block]
        /\ \A b \in 1 .. n : (blocks[b].state = 2 => Good(blocks[b])) /\ blocks[b].state # 3
    <2>1. ASSUME NEW b \in 1 .. n
          PROVE  /\ blocks[b] \in Block
                 /\ (blocks[b].state = 2 => Good(blocks[b])) /\ blocks[b].state # 3
      <3>1. CASE b \in DOMAIN doc.blocks
        <4>1. blocks[b] = old(b)
          BY <3>1
        <4> HIDE DEF blocks, old, doc
        <4>2. QED
          BY <3>1, <4>1, <1>3
      <3>2. CASE b \notin DOMAIN doc.blocks
        BY <3>2, <1>2 DEF NewBlock
      <3>3. QED
        BY <3>1, <3>2
    <2>2. QED
      BY <2>1
  <1>5. Synchronized(f) = [doc EXCEPT !.blocks = blocks, !.state = IF whole THEN 2 ELSE 0,
                                      !.status = IF whole THEN "reviewed" ELSE "pending"]
    BY DEF Synchronized
  <1>6. blocks \in Seq(Block) /\ DOMAIN blocks = 1 .. n /\ blocks # <<>>
    <2>1. DOMAIN blocks = 1 .. n
      OBVIOUS
    <2>2. 1 \in DOMAIN blocks
      BY <1>1, <2>1
    <2>3. QED
      <3> HIDE DEF blocks
      <3>1. QED
        BY <1>1, <1>4, <2>1, <2>2, FunctionsAreSequences
  <1> HIDE DEF blocks
  <1>7. /\ Synchronized(f).blocks = blocks
        /\ Synchronized(f).state = (IF whole THEN 2 ELSE 0)
        /\ Synchronized(f).status = (IF whole THEN "reviewed" ELSE "pending")
        /\ Synchronized(f) \in FileDoc
    <2> DEFINE state == IF whole THEN 2 ELSE 0
               status == IF whole THEN "reviewed" ELSE "pending"
    <2>1. state \in 0 .. 3 /\ status \in Statuses
      BY DEF Statuses
    <2> HIDE DEF state, status
    <2>2. Synchronized(f) = [doc EXCEPT !.blocks = blocks, !.state = state, !.status = status]
      BY <1>5 DEF state, status
    <2>3. /\ Synchronized(f).blocks = blocks
          /\ Synchronized(f).state = state
          /\ Synchronized(f).status = status
      <3> HIDE DEF doc
      <3>1. QED
        BY <1>1, <2>2 DEF FileDoc
    <2>4. Synchronized(f) \in FileDoc
      <3> HIDE DEF doc, whole, old
      <3>1. QED
        BY <1>1, <1>6, <2>1, <2>2 DEF FileDoc
    <2>5. QED
      BY <2>3, <2>4 DEF state, status
  <1>8. Faithful(Synchronized(f), NumBlocks[f])
    BY <1>4, <1>6, <1>7 DEF Faithful, GoodFile
  <1>9. QED
    BY <1>6, <1>7, <1>8 DEF blocks

-----------------------------------------------------------------------------
(* What a thread relies on                                                 *)

\* A thread that has been started belongs to a run.
LEMMA StartedThread ==
    ASSUME RunInv, NEW f \in Files, thread[f].pc # "off"
    PROVE  /\ run.active
           /\ task.status \in {"running", "pending"}
           /\ thread[f] \in Thread
           /\ stored[f] \in FileDoc
           /\ Faithful(stored[f], NumBlocks[f])
           /\ ThreadFits(f)
  BY DEF RunInv, TypeOK, DocumentInv, ThreadInv, ThreadFits, StateInv

\* The block that a thread looks at is one of its file.
LEMMA BlockInHand ==
    ASSUME RunInv, NEW f \in Files, AtBlock(f) \/ InBlock(f)
    PROVE  /\ thread[f].b \in 1 .. NumBlocks[f]
           /\ DOMAIN stored[f].blocks = 1 .. NumBlocks[f]
           /\ stored[f].blocks[thread[f].b] \in Block
           /\ stored[f].state = 1
           /\ stored[f].status = "reviewing"
  <1>1. AtWork(f) /\ thread[f].b <= NumBlocks[f]
    BY DEF AtBlock, InBlock, AtWork, RunInv, ThreadInv, ThreadFits
  <1>2. thread[f].pc # "off"
    BY <1>1 DEF AtWork
  <1>3. /\ stored[f].state = 1
        /\ stored[f].status = "reviewing"
        /\ thread[f].b \in 1 .. NumBlocks[f]
    <2>1. ThreadFits(f) /\ thread[f].b \in Nat
      BY <1>2, StartedThread DEF Thread
    <2>2. NumBlocks[f] \in Nat
      BY FilesAreNumbers
    <2>3. QED
      BY <1>1, <2>1, <2>2 DEF ThreadFits
  <1>4. DOMAIN stored[f].blocks = 1 .. NumBlocks[f]
    BY <1>2, <1>3, StartedThread DEF Faithful
  <1>5. stored[f].blocks \in Seq(Block)
    BY <1>2, StartedThread DEF FileDoc
  <1>6. stored[f].blocks[thread[f].b] \in Block
    <2> DEFINE blocks == stored[f].blocks
               b == thread[f].b
    <2>1. blocks \in Seq(Block) /\ b \in DOMAIN blocks
      BY <1>3, <1>4, <1>5
    <2> HIDE DEF blocks, b
    <2>2. blocks[b] \in Block
      BY <2>1
    <2>3. QED
      BY <2>2 DEF blocks, b
  <1>7. QED
    BY <1>3, <1>4, <1>6

\* A step of another thread leaves a thread in order.
LEMMA OtherThread ==
    ASSUME NEW g \in Files, ThreadFits(g),
           thread'[g] = thread[g], stored'[g] = stored[g],
           run'.active = run.active, run'.retry = run.retry,
           run'.condition = run.condition, run'.stop = run.stop
    PROVE  ThreadFits(g)'
  BY DEF ThreadFits, AtWork, InBlock, KeepsResult, HasFailure, Failing, Good

\* The parts of the invariant that are not about threads or numbers.
DocumentsInv == DocumentInv /\ RetryInv /\ StateInv /\ CompletedIsReviewed

\* A thread at work may replace a block of its file by one that says the truth.
LEMMA ReplacedBlock ==
    ASSUME RunInv, NEW f \in Files, AtWork(f),
           NEW b \in DOMAIN stored[f].blocks, NEW block \in Block,
           Replaced(f, b, block),
           block.state = 2 => Good(block),
           block.state = 3 => block.failed,
           task.retry \/ run.retry => block.done \/ block.failed,
           UNCHANGED <<task, run, events>>
    PROVE  DocumentsInv'
  <1>1. /\ thread[f].pc # "off"
        /\ stored[f].state = 1
        /\ stored[f].status = "reviewing"
    BY DEF AtWork, RunInv, ThreadInv, ThreadFits
  <1>2. run.active /\ task.status # "completed" /\ Faithful(stored[f], NumBlocks[f])
    BY <1>1, StartedThread
  <1>3. DocumentInv'
    <2>1. Faithful(stored'[f], NumBlocks[f])
      BY <1>1, <1>2 DEF Faithful, Replaced
    <2>2. ASSUME NEW g \in Files \ {f} PROVE Faithful(stored'[g], NumBlocks[g])
      BY DEF RunInv, DocumentInv, Replaced
    <2>3. QED
      BY <2>1, <2>2 DEF DocumentInv
  <1>4. RetryInv'
    BY DEF RunInv, RetryInv, Replaced
  <1>5. StateInv'
    BY DEF RunInv, StateInv, NoRun
  <1>6. CompletedIsReviewed'
    BY <1>2 DEF CompletedIsReviewed
  <1>7. QED
    BY <1>3, <1>4, <1>5, <1>6 DEF DocumentsInv

\* Nor does a step that leaves the documents alone disturb them.
LEMMA SameDocuments ==
    ASSUME RunInv, run.active, run'.active,
           stored' = stored, task'.status = task.status, task'.retry = task.retry,
           run'.retry = run.retry, run'.superseded = run.superseded,
           events' = events \/ events' = events \cup {"error"}
    PROVE  DocumentsInv'
  <1>1. task.status # "completed" /\ task.status \in {"running", "pending"}
    BY DEF RunInv, StateInv
  <1>2. DocumentInv'
    BY DEF RunInv, DocumentInv
  <1>3. RetryInv'
    BY DEF RunInv, RetryInv
  <1>4. StateInv'
    BY <1>1 DEF RunInv, StateInv
  <1>5. CompletedIsReviewed'
    BY <1>1 DEF CompletedIsReviewed
  <1>6. QED
    BY <1>2, <1>3, <1>4, <1>5 DEF DocumentsInv

-----------------------------------------------------------------------------
(* The steps of a thread.  FlowInv is the invariant but for the numbers.   *)

FlowInv == TypeOK /\ DocumentsInv /\ ThreadInv

LEMMA ThreadIsARecord ==
    ASSUME NEW t \in Thread, NEW next, next = [t EXCEPT !.pc = "block", !.b = t.b + 1]
    PROVE  /\ next \in Thread /\ next.pc = "block" /\ next.b = t.b + 1
           /\ t.b \in Nat
  <1>1. PICK n \in Nat : n = t.b + 1
    BY DEF Thread
  <1>2. next = [t EXCEPT !.pc = "block", !.b = n]
    BY <1>1
  <1>3. next \in Thread
    BY <1>2 DEF Thread
  <1>4. next.pc = "block" /\ next.b = n
    BY <1>2 DEF Thread
  <1>5. t.b \in Nat
    BY DEF Thread
  <1>6. QED
    BY <1>1, <1>3, <1>4, <1>5

LEMMA ThreadGoesTo ==
    ASSUME NEW t \in Thread, NEW pc \in {"asking", "count", "done"},
           NEW next, next = [t EXCEPT !.pc = pc]
    PROVE  /\ next \in Thread /\ next.pc = pc /\ next.b = t.b
           /\ next.done = t.done /\ next.failed = t.failed
  <1>1. next \in Thread
    BY DEF Thread
  <1>2. next.pc = pc /\ next.b = t.b
    BY DEF Thread
  <1>3. next.done = t.done /\ next.failed = t.failed
    BY DEF Thread
  <1>4. QED
    BY <1>1, <1>2, <1>3

LEMMA OpenDocument ==
    ASSUME NEW doc \in FileDoc, NEW open,
           open = [doc EXCEPT !.state = 1, !.status = "reviewing"]
    PROVE  /\ open \in FileDoc /\ open.state = 1 /\ open.status = "reviewing"
           /\ open.blocks = doc.blocks
  <1>1. open \in FileDoc
    <2>1. PICK s \in 0 .. 3, status \in Statuses : s = 1 /\ status = "reviewing"
      BY DEF Statuses
    <2>2. open = [doc EXCEPT !.state = s, !.status = status]
      BY <2>1
    <2>3. QED
      BY <2>2 DEF FileDoc
  <1>2. open.state = 1 /\ open.status = "reviewing" /\ open.blocks = doc.blocks
    BY DEF FileDoc
  <1>3. QED
    BY <1>1, <1>2

\* What it means that a thread alone has moved.
Moved(f, record) ==
    /\ record \in Thread
    /\ thread'[f] = record
    /\ \A g \in Files \ {f} : thread'[g] = thread[g]
    /\ thread' \in [Files -> Thread]

LEMMA MoveThread ==
    ASSUME TypeOK, NEW f \in Files, NEW record \in Thread,
           thread' = [thread EXCEPT ![f] = record]
    PROVE  Moved(f, record)
  BY DEF TypeOK, Moved

\* The other threads stay in order when one moves.
LEMMA ThreadsStayInOrder ==
    ASSUME RunInv, NEW f \in Files, NEW record, Moved(f, record),
           \A g \in Files \ {f} : stored'[g] = stored[g],
           run'.active = run.active, run'.retry = run.retry,
           run'.condition = run.condition, run'.stop = run.stop,
           ThreadFits(f)'
    PROVE  ThreadInv'
  <1>1. ASSUME NEW g \in Files, g # f PROVE ThreadFits(g)'
    BY <1>1, OtherThread DEF Moved, RunInv, ThreadInv
  <1>2. QED
    BY <1>1 DEF ThreadInv

LEMMA OpenFileFlow ==
    ASSUME RunInv, NEW f \in Files, OpenFile(f)
    PROVE  FlowInv'
  <1> DEFINE record == [thread[f] EXCEPT !.pc = "block", !.b = thread[f].b + 1]
  <1>1. /\ run.active /\ task.status \in {"running", "pending"}
        /\ thread[f] \in Thread /\ stored[f] \in FileDoc
        /\ Faithful(stored[f], NumBlocks[f])
        /\ thread[f].b = 0 /\ stored[f].status # "skipped"
    BY StartedThread DEF OpenFile, ThreadFits
  <1>2. TypeOK
    BY DEF RunInv
  <1>3. record \in Thread /\ record.pc = "block" /\ record.b = 1
    <2>1. /\ thread[f] \in Thread /\ thread[f].b = 0
          /\ record = [thread[f] EXCEPT !.pc = "block", !.b = thread[f].b + 1]
      BY <1>1
    <2> HIDE DEF record
    <2>2. record \in Thread /\ record.pc = "block" /\ record.b = thread[f].b + 1
      BY <2>1, ThreadIsARecord, Zenon
    <2>3. QED
      BY <2>1, <2>2
  <1>4. Moved(f, record)
    <2>1. thread' = [thread EXCEPT ![f] = record]
      BY <1>2 DEF TypeOK, OpenFile, NextBlock
    <2> HIDE DEF record
    <2>2. QED
      BY <1>2, <1>3, <2>1, MoveThread
  <1> HIDE DEF record
  <1>5. /\ stored' \in [Files -> FileDoc]
        /\ \A g \in Files \ {f} : stored'[g] = stored[g]
        /\ stored'[f].state = 1 /\ stored'[f].status = "reviewing"
        /\ stored'[f].blocks = stored[f].blocks
    <2> DEFINE doc == [stored[f] EXCEPT !.state = 1, !.status = "reviewing"]
    <2>1. stored[f] \in FileDoc
      BY <1>1
    <2>2. /\ doc \in FileDoc /\ doc.state = 1 /\ doc.status = "reviewing"
          /\ doc.blocks = stored[f].blocks
      BY <2>1, OpenDocument
    <2>3. stored' = [stored EXCEPT ![f] = doc]
      BY <1>2 DEF TypeOK, OpenFile
    <2> HIDE DEF doc
    <2>4. QED
      BY <1>2, <2>1, <2>2, <2>3 DEF TypeOK
  <1>6. UNCHANGED <<task, run, runs, events, spent, lost>>
    BY DEF OpenFile
  <1>7. TypeOK'
    BY <1>2, <1>4, <1>5, <1>6 DEF TypeOK, Moved
  <1>8. DocumentsInv'
    <2>1. DocumentInv'
      <3>1. Faithful(stored'[f], NumBlocks[f])
        BY <1>1, <1>5 DEF Faithful
      <3>2. QED
        BY <1>5, <3>1 DEF RunInv, DocumentInv
    <2>2. RetryInv'
      BY <1>5, <1>6 DEF RunInv, RetryInv
    <2>3. StateInv' /\ CompletedIsReviewed'
      BY <1>1, <1>6 DEF RunInv, StateInv, CompletedIsReviewed, NoRun
    <2>4. QED
      BY <2>1, <2>2, <2>3 DEF DocumentsInv
  <1>9. ThreadInv'
    <2>1. thread'[f].pc = "block" /\ thread'[f].b = 1
      BY <1>3, <1>4 DEF Moved
    <2>2. ThreadFits(f)'
      BY <1>1, <1>5, <1>6, <2>1, FilesAreNumbers DEF ThreadFits, AtWork, InBlock
    <2>3. QED
      BY <1>4, <1>5, <1>6, <2>2, ThreadsStayInOrder
  <1>10. QED
    BY <1>7, <1>8, <1>9 DEF FlowInv

LEMMA ReuseBlockFlow ==
    ASSUME RunInv, NEW f \in Files, ReuseBlock(f)
    PROVE  FlowInv'
  <1> DEFINE b == thread[f].b
             block == [stored[f].blocks[b] EXCEPT !.state = 2]
             record == [thread[f] EXCEPT !.pc = "block", !.b = thread[f].b + 1]
  <1>1. TypeOK
    BY DEF RunInv
  <1>2. /\ b \in 1 .. NumBlocks[f] /\ DOMAIN stored[f].blocks = 1 .. NumBlocks[f]
        /\ stored[f].blocks[b] \in Block
        /\ stored[f].state = 1 /\ stored[f].status = "reviewing"
    BY BlockInHand DEF ReuseBlock
  <1>3. /\ thread[f].pc = "block" /\ Good(stored[f].blocks[b])
        /\ run.active /\ thread[f] \in Thread
    BY StartedThread DEF ReuseBlock, AtBlock, KeepsResult
  <1>4. record \in Thread /\ record.pc = "block" /\ record.b = b + 1
    <2>1. /\ thread[f] \in Thread
          /\ record = [thread[f] EXCEPT !.pc = "block", !.b = thread[f].b + 1]
      BY <1>3
    <2> HIDE DEF record
    <2>2. record \in Thread /\ record.pc = "block" /\ record.b = thread[f].b + 1
      BY <2>1, ThreadIsARecord, Zenon
    <2>3. QED
      BY <2>1, <2>2
  <1>5. Moved(f, record)
    <2>1. thread' = [thread EXCEPT ![f] = record]
      BY <1>1 DEF TypeOK, ReuseBlock, NextBlock
    <2> HIDE DEF record
    <2>2. QED
      BY <1>1, <1>4, <2>1, MoveThread
  <1>6. UNCHANGED <<task, run, runs, events, spent, lost>>
    BY DEF ReuseBlock
  <1>7. /\ Replaced(f, b, block) /\ block \in Block /\ block.state = 2
        /\ block.done = stored[f].blocks[b].done
        /\ block.failed = stored[f].blocks[b].failed
    <2>1. stored' = [stored EXCEPT ![f].blocks[b] = block]
      BY DEF ReuseBlock
    <2>2. /\ b \in DOMAIN stored[f].blocks /\ stored[f].blocks[b] \in Block
          /\ block = [stored[f].blocks[b] EXCEPT !.state = 2]
          /\ stored \in [Files -> FileDoc]
          /\ 2 \in 0 .. 3
      BY <1>1, <1>2 DEF TypeOK
    <2> HIDE DEF b, block
    <2>3. /\ block \in Block /\ block.state = 2
          /\ block.done = stored[f].blocks[b].done
          /\ block.failed = stored[f].blocks[b].failed
      BY <2>2, BlockIsARecord
    <2>4. QED
      BY <2>1, <2>2, <2>3, PutBlock
  <1>8. Good(block) /\ block.state = 2
    BY <1>3, <1>7 DEF Good
  <1> HIDE DEF record, block, b
  <1>9. DocumentsInv'
    <2>1. /\ AtWork(f) /\ b \in DOMAIN stored[f].blocks
          /\ block.state = 2 => Good(block)
          /\ block.state = 3 => block.failed
          /\ task.retry \/ run.retry => block.done \/ block.failed
      BY <1>2, <1>3, <1>8 DEF AtWork, Good
    <2>2. QED
      BY <1>6, <1>7, <2>1, ReplacedBlock
  <1>10. TypeOK'
    BY <1>1, <1>5, <1>6, <1>7 DEF TypeOK, Moved, Replaced
  <1>11. ThreadInv'
    <2>1. thread'[f].pc = "block" /\ thread'[f].b = b + 1
      BY <1>4, <1>5 DEF Moved
    <2>2. stored'[f].state = 1 /\ stored'[f].status = "reviewing"
      BY <1>2, <1>7 DEF Replaced
    <2>3. ThreadFits(f)'
      BY <1>2, <1>3, <1>6, <2>1, <2>2, FilesAreNumbers DEF ThreadFits, AtWork, InBlock
    <2>4. QED
      BY <1>5, <1>6, <1>7, <2>3, ThreadsStayInOrder DEF Replaced
  <1>12. QED
    BY <1>9, <1>10, <1>11 DEF FlowInv

\* A step of a thread that replaces a block of its file.
LEMMA ReplacementFlow ==
    ASSUME RunInv, NEW f \in Files, AtWork(f),
           NEW b \in DOMAIN stored[f].blocks, NEW block \in Block,
           Replaced(f, b, block),
           block.state = 2 => Good(block),
           block.state = 3 => block.failed,
           task.retry \/ run.retry => block.done \/ block.failed,
           NEW record, Moved(f, record),
           UNCHANGED <<task, run, runs, events, spent, lost>>,
           ThreadFits(f)'
    PROVE  FlowInv'
  <1>1. DocumentsInv'
    BY ReplacedBlock
  <1>2. TypeOK'
    BY DEF RunInv, TypeOK, Moved, Replaced
  <1>3. ThreadInv'
    BY ThreadsStayInOrder DEF Replaced
  <1>4. QED
    BY <1>1, <1>2, <1>3 DEF FlowInv

LEMMA SkipCommentsFlow ==
    ASSUME RunInv, NEW f \in Files, SkipComments(f)
    PROVE  FlowInv'
  <1> DEFINE b == thread[f].b
             block == [done |-> TRUE, failed |-> FALSE, state |-> 2,
                       condition |-> run.condition, by |-> runs]
             record == [thread[f] EXCEPT !.pc = "block", !.b = thread[f].b + 1]
  <1>1. TypeOK
    BY DEF RunInv
  <1>2. /\ b \in 1 .. NumBlocks[f] /\ DOMAIN stored[f].blocks = 1 .. NumBlocks[f]
        /\ stored[f].state = 1 /\ stored[f].status = "reviewing"
    BY BlockInHand DEF SkipComments
  <1>3. thread[f].pc = "block" /\ run.active /\ thread[f] \in Thread
    BY StartedThread DEF SkipComments, AtBlock
  <1>4. record \in Thread /\ record.pc = "block" /\ record.b = b + 1
    <2>1. /\ thread[f] \in Thread
          /\ record = [thread[f] EXCEPT !.pc = "block", !.b = thread[f].b + 1]
      BY <1>3
    <2> HIDE DEF record
    <2>2. QED
      BY <2>1, ThreadIsARecord, Zenon
  <1>5. Moved(f, record)
    <2>1. thread' = [thread EXCEPT ![f] = record]
      BY <1>1 DEF TypeOK, SkipComments, NextBlock
    <2> HIDE DEF record
    <2>2. QED
      BY <1>1, <1>4, <2>1, MoveThread
  <1>6. UNCHANGED <<task, run, runs, events, spent, lost>>
    BY DEF SkipComments
  <1>7. block \in Block
    BY <1>1 DEF TypeOK, Run, Block
  <1>8. stored' = [stored EXCEPT ![f].blocks[b] = block]
    BY DEF SkipComments, SetBlock
  <1>9. Good(block) /\ block.state = 2
    BY DEF Good
  <1> HIDE DEF record, block, b
  <1>10. Replaced(f, b, block)
    BY <1>1, <1>2, <1>7, <1>8, PutBlock DEF TypeOK
  <1>11. ThreadFits(f)'
    <2>1. thread'[f].pc = "block" /\ thread'[f].b = b + 1
      BY <1>4, <1>5 DEF Moved
    <2>2. stored'[f].state = 1 /\ stored'[f].status = "reviewing"
      BY <1>2, <1>10 DEF Replaced
    <2>3. QED
      BY <1>2, <1>3, <1>6, <2>1, <2>2, FilesAreNumbers DEF ThreadFits, AtWork, InBlock
  <1>12. /\ AtWork(f) /\ b \in DOMAIN stored[f].blocks
         /\ block.state = 2 => Good(block)
         /\ block.state = 3 => block.failed
         /\ task.retry \/ run.retry => block.done \/ block.failed
    BY <1>2, <1>3, <1>9 DEF AtWork, Good
  <1>13. QED
    BY <1>5, <1>6, <1>7, <1>10, <1>11, <1>12, ReplacementFlow

LEMMA StartBlockFlow ==
    ASSUME RunInv, NEW f \in Files, StartBlock(f)
    PROVE  FlowInv'
  <1> DEFINE b == thread[f].b
             block == [stored[f].blocks[b] EXCEPT !.state = 1]
             record == [thread[f] EXCEPT !.pc = "asking"]
  <1>1. TypeOK
    BY DEF RunInv
  <1>2. /\ b \in 1 .. NumBlocks[f] /\ DOMAIN stored[f].blocks = 1 .. NumBlocks[f]
        /\ stored[f].blocks[b] \in Block
        /\ stored[f].state = 1 /\ stored[f].status = "reviewing"
    BY BlockInHand DEF StartBlock
  <1>3. /\ thread[f].pc = "block" /\ run.active /\ thread[f] \in Thread
        /\ <<f, b>> \notin CommentOnly
        /\ ~KeepsResult(f)
    BY StartedThread DEF StartBlock, AtBlock
  <1>4. record \in Thread /\ record.pc = "asking" /\ record.b = b
    <2>1. /\ thread[f] \in Thread /\ "asking" \in {"asking", "count", "done"}
          /\ record = [thread[f] EXCEPT !.pc = "asking"]
      BY <1>3
    <2> HIDE DEF record
    <2>2. QED
      BY <2>1, ThreadGoesTo
  <1>5. Moved(f, record)
    <2>1. thread' = [thread EXCEPT ![f] = record]
      BY <1>1 DEF TypeOK, StartBlock, Goto
    <2> HIDE DEF record
    <2>2. QED
      BY <1>1, <1>4, <2>1, MoveThread
  <1>6. UNCHANGED <<task, run, runs, events, spent, lost>>
    BY DEF StartBlock
  <1>7. /\ stored' = [stored EXCEPT ![f].blocks[b] = block]
        /\ block = [stored[f].blocks[b] EXCEPT !.state = 1]
        /\ 1 \in 0 .. 3
    BY DEF StartBlock
  <1> HIDE DEF record, block, b
  <1>8. /\ block \in Block /\ block.state = 1
        /\ block.done = stored[f].blocks[b].done
        /\ block.failed = stored[f].blocks[b].failed
        /\ block.condition = stored[f].blocks[b].condition
    BY <1>2, <1>7, BlockIsARecord
  <1>9. Replaced(f, b, block)
    BY <1>1, <1>2, <1>7, <1>8, PutBlock DEF TypeOK
  <1>10. ThreadFits(f)'
    <2>1. thread'[f].pc = "asking" /\ thread'[f].b = b
      BY <1>4, <1>5 DEF Moved
    <2>2. /\ stored'[f].state = 1 /\ stored'[f].status = "reviewing"
          /\ stored'[f].blocks[b] = block
      BY <1>2, <1>9 DEF Replaced
    <2>3. ~KeepsResult(f)'
      BY <1>3, <1>6, <1>8, <2>1, <2>2 DEF KeepsResult, Good, b
    <2>4. QED
      BY <1>2, <1>3, <1>6, <2>1, <2>2, <2>3, FilesAreNumbers
      DEF ThreadFits, AtWork, InBlock
  <1>11. /\ AtWork(f) /\ b \in DOMAIN stored[f].blocks
         /\ block.state = 2 => Good(block)
         /\ block.state = 3 => block.failed
         /\ task.retry \/ run.retry => block.done \/ block.failed
    <2>1. ASSUME task.retry \/ run.retry PROVE block.done \/ block.failed
      <3>1. stored[f].blocks[b].done \/ stored[f].blocks[b].failed
        BY <1>2, <2>1 DEF RunInv, RetryInv
      <3>2. QED
        BY <1>8, <3>1
    <2>2. QED
      BY <1>2, <1>3, <1>8, <2>1 DEF AtWork
  <1>12. QED
    BY <1>5, <1>6, <1>8, <1>9, <1>10, <1>11, ReplacementFlow

\* Whether a stage may fail is a truth value.
LEMMA StagesFailOrNot == StageFailures \subseteq {TRUE, FALSE}
  BY DEF StageFailures

\* A step of a thread that leaves the documents alone.
LEMMA UnwrittenFlow ==
    ASSUME RunInv, NEW f \in Files, thread[f].pc # "off",
           NEW record, Moved(f, record), stored' = stored,
           task' \in Task, task'.status = task.status, task'.retry = task.retry,
           run' \in Run, run'.active = run.active, run'.retry = run.retry,
           run'.condition = run.condition, run'.stop = run.stop,
           run'.superseded = run.superseded,
           runs' = runs, events' = events \/ events' = events \cup {"error"},
           spent' \in Nat, lost' \in Nat,
           ThreadFits(f)'
    PROVE  FlowInv'
  <1>1. run.active /\ run'.active
    BY StartedThread
  <1>2. DocumentsInv'
    BY <1>1, SameDocuments
  <1>3. TypeOK'
    BY DEF RunInv, TypeOK, Moved
  <1>4. ThreadInv'
    BY ThreadsStayInOrder
  <1>5. QED
    BY <1>2, <1>3, <1>4 DEF FlowInv

LEMMA AskModelsFlow ==
    ASSUME RunInv, NEW f \in Files, AskModels(f)
    PROVE  /\ FlowInv'
           /\ thread'[f].pc = "result"
           /\ \A g \in Files \ {f} : thread'[g] = thread[g]
  <1>1. TypeOK /\ thread[f].pc = "asking" /\ thread[f] \in Thread
    BY DEF RunInv, TypeOK, AskModels
  <1>2. PICK plan \in StageFailures, result \in Results :
          \E others \in IF result.commented THEN StageFailures ELSE {FALSE} :
             thread' = [thread EXCEPT ![f].pc = "result",
                                      ![f].done = result.completed,
                                      ![f].failed = result.failed \/ plan \/ others]
    BY DEF AskModels
  <1>3. PICK others \in {TRUE, FALSE} :
             thread' = [thread EXCEPT ![f].pc = "result",
                                      ![f].done = result.completed,
                                      ![f].failed = result.failed \/ plan \/ others]
    BY <1>2, StagesFailOrNot
  <1>4. PICK done \in BOOLEAN, failed \in BOOLEAN :
          /\ done \/ failed
          /\ thread' = [thread EXCEPT ![f].pc = "result", ![f].done = done,
                                      ![f].failed = failed]
    <2>1. /\ result.completed \in BOOLEAN /\ result.failed \in BOOLEAN
          /\ result.completed \/ result.failed
      BY DEF Results, Completions, Failures
    <2> DEFINE bad == result.failed \/ plan \/ others
    <2>2. bad \in BOOLEAN /\ (result.completed \/ bad)
      BY <2>1
    <2>3. thread' = [thread EXCEPT ![f].pc = "result", ![f].done = result.completed,
                                   ![f].failed = bad]
      BY <1>3
    <2> HIDE DEF bad
    <2>4. QED
      BY <2>1, <2>2, <2>3
  <1> DEFINE record == [thread[f] EXCEPT !.pc = "result", !.done = done, !.failed = failed]
  <1>5. record \in Thread
    BY <1>1 DEF Thread
  <1>6. record.pc = "result" /\ record.b = thread[f].b
    BY <1>1 DEF Thread
  <1>7. record.done \/ record.failed
    BY <1>1, <1>4 DEF Thread
  <1>8. Moved(f, record)
    <2>1. thread' = [thread EXCEPT ![f] = record]
      BY <1>4
    <2> HIDE DEF record
    <2>2. QED
      BY <1>1, <1>5, <2>1, MoveThread
  <1> HIDE DEF record
  <1>9. /\ UNCHANGED <<stored, task, run, runs, events, lost>>
        /\ spent' = spent + 1
    BY DEF AskModels
  <1>10. ThreadFits(f)'
    <2>1. thread[f].pc # "off" /\ InBlock(f)
      BY <1>1 DEF InBlock, AtWork
    <2>2. ThreadFits(f)
      BY <2>1, StartedThread
    <2>3. /\ thread'[f].pc = "result" /\ thread'[f].b = thread[f].b
          /\ thread'[f].done \/ thread'[f].failed
      BY <1>6, <1>7, <1>8 DEF Moved
    <2>4. ~KeepsResult(f)'
      BY <1>1, <1>9, <2>2, <2>3 DEF ThreadFits, KeepsResult
    <2>5. QED
      BY <1>1, <1>9, <2>1, <2>2, <2>3, <2>4 DEF ThreadFits, InBlock, AtWork
  <1>11. /\ thread[f].pc # "off" /\ stored' = stored
         /\ task' \in Task /\ run' \in Run
         /\ spent' \in Nat /\ lost' \in Nat
    BY <1>1, <1>9 DEF TypeOK
  <1>12. FlowInv'
    BY <1>8, <1>9, <1>10, <1>11, UnwrittenFlow
  <1>13. QED
    BY <1>6, <1>8, <1>12 DEF Moved

LEMMA SaveBlockFlow ==
    ASSUME RunInv, NEW f \in Files, SaveBlock(f)
    PROVE  FlowInv'
  <1> DEFINE b == thread[f].b
             good == thread[f].done /\ ~thread[f].failed
             block == [done |-> thread[f].done, failed |-> thread[f].failed,
                       state |-> IF good THEN 2 ELSE 3,
                       condition |-> run.condition, by |-> runs]
             record == [thread[f] EXCEPT !.pc = "count"]
  <1>1. TypeOK /\ thread[f].pc = "result" /\ InBlock(f)
    BY DEF RunInv, SaveBlock, InBlock, AtWork
  <1>2. /\ b \in 1 .. NumBlocks[f] /\ DOMAIN stored[f].blocks = 1 .. NumBlocks[f]
        /\ stored[f].state = 1 /\ stored[f].status = "reviewing"
    BY <1>1, BlockInHand
  <1>3. run.active /\ thread[f] \in Thread /\ ThreadFits(f)
    BY <1>1, StartedThread
  <1>4. record \in Thread /\ record.pc = "count" /\ record.b = b
    <2>1. /\ thread[f] \in Thread /\ "count" \in {"asking", "count", "done"}
          /\ record = [thread[f] EXCEPT !.pc = "count"]
      BY <1>3
    <2> HIDE DEF record
    <2>2. QED
      BY <2>1, ThreadGoesTo
  <1>5. Moved(f, record)
    <2>1. thread' = [thread EXCEPT ![f] = record]
      BY <1>1 DEF TypeOK, SaveBlock, Goto
    <2> HIDE DEF record
    <2>2. QED
      BY <1>1, <1>4, <2>1, MoveThread
  <1>6. UNCHANGED <<task, run, runs, events, spent, lost>>
    BY DEF SaveBlock
  <1>7. block \in Block
    <2>1. /\ thread[f].done \in BOOLEAN /\ thread[f].failed \in BOOLEAN
      BY <1>3 DEF Thread
    <2>2. run.condition \in Conditions \cup {NoCondition} /\ runs \in 0 .. MaxRuns
      BY <1>1 DEF TypeOK, Run
    <2>3. QED
      BY <2>1, <2>2 DEF Block
  <1>8. stored' = [stored EXCEPT ![f].blocks[b] = block]
    BY DEF SaveBlock, SetBlock
  <1>9. /\ block.state = 2 => Good(block)
        /\ block.state = 3 => block.failed
        /\ block.done \/ block.failed
    <2>1. thread[f].done \/ thread[f].failed
      BY <1>1, <1>3 DEF ThreadFits
    <2>2. QED
      BY <2>1 DEF Good
  <1> HIDE DEF record, block, b
  <1>10. Replaced(f, b, block)
    BY <1>1, <1>2, <1>7, <1>8, PutBlock DEF TypeOK
  <1>11. ThreadFits(f)'
    <2>1. thread'[f].pc = "count" /\ thread'[f].b = b
      BY <1>4, <1>5 DEF Moved
    <2>2. stored'[f].state = 1 /\ stored'[f].status = "reviewing"
      BY <1>2, <1>10 DEF Replaced
    <2>3. <<f, b>> \notin CommentOnly
      BY <1>1, <1>3 DEF ThreadFits, b
    <2>4. QED
      BY <1>2, <1>3, <1>6, <2>1, <2>2, <2>3, FilesAreNumbers DEF ThreadFits, AtWork, InBlock
  <1>12. AtWork(f) /\ b \in DOMAIN stored[f].blocks
    BY <1>1, <1>2 DEF AtWork
  <1>13. QED
    BY <1>5, <1>6, <1>7, <1>9, <1>10, <1>11, <1>12, ReplacementFlow

LEMMA CountBlockFlow ==
    ASSUME RunInv, NEW f \in Files, CountBlock(f)
    PROVE  /\ FlowInv'
           /\ run'.initial = run.initial /\ run'.ran = run.ran + 1
           /\ thread'[f].pc = "write"
           /\ thread'[f].total = run.initial + run.ran + 1
           /\ \A g \in Files \ {f} : thread'[g] = thread[g]
  <1>1. TypeOK /\ thread[f].pc = "count" /\ thread[f] \in Thread
    BY DEF RunInv, TypeOK, CountBlock
  <1>2. PICK initial \in Nat, ran \in Nat : initial = run.initial /\ ran = run.ran + 1
    BY <1>1 DEF TypeOK, Run
  <1>3. run' = [run EXCEPT !.ran = ran]
    BY <1>2 DEF CountBlock
  <1>4. run' \in Run
    BY <1>1, <1>3 DEF TypeOK, Run
  <1>5. run'.initial = initial /\ run'.ran = ran /\ run'.condition = run.condition
    BY <1>1, <1>2, <1>3 DEF TypeOK, Run
  <1>6. /\ run'.active = run.active /\ run'.retry = run.retry
        /\ run'.stop = run.stop /\ run'.superseded = run.superseded
    BY <1>1, <1>3 DEF TypeOK, Run
  <1>7. PICK total \in Nat : total = initial + ran
    OBVIOUS
  <1> DEFINE record == [thread[f] EXCEPT !.pc = "write", !.total = total]
  <1>8. record \in Thread
    BY <1>1 DEF Thread
  <1>9. record.pc = "write" /\ record.b = thread[f].b /\ record.total = total
    BY <1>1 DEF Thread
  <1>10. Moved(f, record)
    <2>1. thread' = [thread EXCEPT ![f].pc = "write", ![f].total = total]
      BY <1>2, <1>5, <1>7 DEF CountBlock
    <2>2. thread' = [thread EXCEPT ![f] = record]
      BY <2>1
    <2> HIDE DEF record
    <2>3. QED
      BY <1>1, <1>8, <2>2, MoveThread
  <1> HIDE DEF record
  <1>11. UNCHANGED <<stored, task, runs, events, spent, lost>>
    BY DEF CountBlock
  <1>12. thread[f].pc # "off" /\ ThreadFits(f)
    BY <1>1, StartedThread
  <1>13. thread'[f].pc = "write" /\ thread'[f].b = thread[f].b /\ thread'[f].total = total
    BY <1>9, <1>10 DEF Moved
  <1>14. ThreadFits(f)'
    BY <1>1, <1>6, <1>11, <1>12, <1>13 DEF ThreadFits, InBlock, AtWork
  <1>15. FlowInv'
    <2>1. task' \in Task /\ spent' \in Nat /\ lost' \in Nat
      BY <1>1, <1>11 DEF TypeOK
    <2>2. QED
      BY <1>4, <1>5, <1>6, <1>10, <1>11, <1>12, <1>14, <2>1, UnwrittenFlow
  <1>16. run.initial \in Nat /\ run.ran \in Nat
    BY <1>1 DEF TypeOK, Run
  <1>17. thread'[f].total = run.initial + run.ran + 1
    BY <1>2, <1>7, <1>13, <1>16
  <1>18. \A g \in Files \ {f} : thread'[g] = thread[g]
    BY <1>10 DEF Moved
  <1>19. QED
    BY <1>2, <1>5, <1>13, <1>15, <1>17, <1>18

LEMMA WriteUsageFlow ==
    ASSUME RunInv, NEW f \in Files, WriteUsage(f)
    PROVE  /\ FlowInv'
           /\ task'.usage = thread[f].total
           /\ thread'[f].pc = "block"
           /\ \A g \in Files \ {f} : thread'[g] = thread[g]
  <1>1. TypeOK /\ thread[f].pc = "write" /\ thread[f] \in Thread
    BY DEF RunInv, TypeOK, WriteUsage
  <1>2. PICK n \in Nat, total \in Nat : n = thread[f].b + 1 /\ total = thread[f].total
    BY <1>1 DEF Thread
  <1>3. task' = [task EXCEPT !.usage = total]
    BY <1>2 DEF WriteUsage
  <1>4. task' \in Task
    BY <1>1, <1>3 DEF TypeOK, Task
  <1>5. task'.usage = total /\ task'.status = task.status
    BY <1>1, <1>3 DEF TypeOK, Task
  <1>6. task'.retry = task.retry
    BY <1>1, <1>3 DEF TypeOK, Task
  <1> DEFINE record == [thread[f] EXCEPT !.pc = "block", !.b = n, !.done = FALSE,
                                         !.failed = FALSE, !.total = 0]
  <1>7. record \in Thread
    BY <1>1 DEF Thread
  <1>8. record.pc = "block" /\ record.b = n
    BY <1>1 DEF Thread
  <1>9. Moved(f, record)
    <2>1. thread' = [thread EXCEPT ![f] = record]
      BY <1>2 DEF WriteUsage
    <2> HIDE DEF record
    <2>2. QED
      BY <1>1, <1>7, <2>1, MoveThread
  <1> HIDE DEF record
  <1>10. UNCHANGED <<stored, run, runs, events, spent, lost>>
    BY DEF WriteUsage
  <1>11. InBlock(f) /\ thread[f].pc # "off"
    BY <1>1 DEF InBlock, AtWork
  <1>12. thread'[f].pc = "block" /\ thread'[f].b = thread[f].b + 1
    BY <1>2, <1>8, <1>9 DEF Moved
  <1>13. ThreadFits(f)'
    <2>1. thread[f].b \in 1 .. NumBlocks[f] /\ NumBlocks[f] \in Nat
      BY <1>11, BlockInHand, FilesAreNumbers
    <2>2. ThreadFits(f)
      BY <1>11, StartedThread
    <2>3. QED
      BY <1>1, <1>10, <1>11, <1>12, <2>1, <2>2 DEF ThreadFits, InBlock, AtWork
  <1>14. FlowInv'
    <2>1. run' \in Run /\ spent' \in Nat /\ lost' \in Nat
      BY <1>1, <1>10 DEF TypeOK
    <2>2. QED
      BY <1>4, <1>5, <1>6, <1>9, <1>10, <1>11, <1>13, <2>1, UnwrittenFlow
  <1>15. QED
    BY <1>2, <1>5, <1>9, <1>12, <1>14 DEF Moved

\* A file that is closed is given the status that its blocks deserve.
LEMMA ClosedDocument ==
    ASSUME NEW doc \in FileDoc, NEW condition \in Conditions \cup {NoCondition},
           NEW n \in Nat \ {0}, Faithful(doc, n), doc.status # "skipped"
    PROVE  /\ Closed(doc, condition) \in FileDoc
           /\ Faithful(Closed(doc, condition), n)
           /\ Closed(doc, condition).status \in {"reviewed", "partial"}
           /\ Closed(doc, condition).blocks = doc.blocks
  <1>1. PICK state \in 0 .. 3, status \in Statuses :
           /\ state = (IF GoodFile(doc) THEN 2 ELSE 3)
           /\ status = (IF GoodFile(doc) THEN "reviewed" ELSE "partial")
    BY DEF Statuses
  <1>2. Closed(doc, condition)
          = [doc EXCEPT !.state = state, !.status = status, !.condition = condition]
    BY <1>1 DEF Closed
  <1>3. Closed(doc, condition) \in FileDoc
    BY <1>2 DEF FileDoc
  <1>4. /\ Closed(doc, condition).status = status
        /\ Closed(doc, condition).state = state
        /\ Closed(doc, condition).blocks = doc.blocks
    BY <1>2 DEF FileDoc
  <1>5. Faithful(Closed(doc, condition), n)
    BY <1>1, <1>4 DEF Faithful, GoodFile
  <1>6. QED
    BY <1>1, <1>3, <1>4, <1>5

LEMMA CloseFileFlow ==
    ASSUME RunInv, NEW f \in Files, CloseFile(f)
    PROVE  FlowInv'
  <1> DEFINE record == [thread[f] EXCEPT !.pc = "done"]
             doc == Closed(stored[f], run.condition)
  <1>1. TypeOK /\ thread[f].pc = "block" /\ thread[f].pc # "off" /\ AtWork(f)
    BY DEF RunInv, CloseFile, AtWork
  <1>2. /\ run.active /\ task.status \in {"running", "pending"}
        /\ thread[f] \in Thread /\ stored[f] \in FileDoc
        /\ Faithful(stored[f], NumBlocks[f]) /\ ThreadFits(f)
    BY <1>1, StartedThread
  <1>3. stored[f].status = "reviewing"
    BY <1>1, <1>2 DEF ThreadFits
  <1>4. record \in Thread /\ record.pc = "done"
    <2>1. /\ thread[f] \in Thread /\ "done" \in {"asking", "count", "done"}
          /\ record = [thread[f] EXCEPT !.pc = "done"]
      BY <1>2
    <2> HIDE DEF record
    <2>2. QED
      BY <2>1, ThreadGoesTo
  <1>5. Moved(f, record)
    <2>1. thread' = [thread EXCEPT ![f] = record]
      BY <1>1 DEF TypeOK, CloseFile, Goto
    <2> HIDE DEF record
    <2>2. QED
      BY <1>1, <1>4, <2>1, MoveThread
  <1>6. UNCHANGED <<task, run, runs, events, spent, lost>>
    BY DEF CloseFile
  <1>7. /\ doc \in FileDoc /\ Faithful(doc, NumBlocks[f])
        /\ doc.status \in {"reviewed", "partial"}
        /\ doc.blocks = stored[f].blocks
    <2>1. run.condition \in Conditions \cup {NoCondition} /\ NumBlocks[f] \in Nat \ {0}
      BY <1>1, FilesAreNumbers DEF TypeOK, Run
    <2>2. QED
      BY <1>2, <1>3, <2>1, ClosedDocument
  <1>8. stored' = [stored EXCEPT ![f] = doc]
    BY DEF CloseFile
  <1> HIDE DEF record, doc
  <1>9. /\ stored' \in [Files -> FileDoc] /\ stored'[f] = doc
        /\ \A g \in Files \ {f} : stored'[g] = stored[g]
    BY <1>1, <1>7, <1>8 DEF TypeOK
  <1>10. TypeOK'
    BY <1>1, <1>5, <1>6, <1>9 DEF TypeOK, Moved
  <1>11. DocumentsInv'
    <2>1. DocumentInv'
      BY <1>7, <1>9 DEF RunInv, DocumentInv
    <2>2. RetryInv'
      BY <1>6, <1>7, <1>9 DEF RunInv, RetryInv
    <2>3. StateInv' /\ CompletedIsReviewed'
      BY <1>2, <1>6 DEF RunInv, StateInv, CompletedIsReviewed, NoRun
    <2>4. QED
      BY <2>1, <2>2, <2>3 DEF DocumentsInv
  <1>12. ThreadInv'
    <2>1. thread'[f].pc = "done" /\ stored'[f].status \in {"reviewed", "partial"}
      BY <1>4, <1>5, <1>7, <1>9 DEF Moved
    <2>2. ThreadFits(f)'
      BY <1>2, <1>6, <2>1 DEF ThreadFits, AtWork, InBlock
    <2>3. QED
      BY <1>5, <1>6, <1>9, <2>2, ThreadsStayInOrder
  <1>13. QED
    BY <1>10, <1>11, <1>12 DEF FlowInv

LEMMA RaiseFlow ==
    ASSUME RunInv, NEW f \in Files, Raise(f)
    PROVE  /\ FlowInv'
           /\ thread'[f].pc = "raised"
           /\ \A g \in Files \ {f} : thread'[g] = thread[g]
  <1> DEFINE record == [Idle EXCEPT !.pc = "raised"]
  <1>1. TypeOK /\ thread[f].pc # "off" /\ run.stop
    BY DEF RunInv, Raise
  <1>2. record \in Thread /\ record.pc = "raised"
    BY DEF Idle, Thread
  <1>3. thread' = [thread EXCEPT ![f] = record]
    BY DEF Raise
  <1> HIDE DEF record
  <1>4. Moved(f, record)
    BY <1>1, <1>2, <1>3, MoveThread
  <1>5. thread'[f].pc = "raised" /\ run.active
    BY <1>1, <1>2, <1>4, StartedThread DEF Moved
  <1>6. UNCHANGED <<stored, task, run, runs, events>>
    BY DEF Raise
  <1>7. /\ task' \in Task /\ run' \in Run /\ spent' \in Nat /\ lost' \in Nat
    BY <1>1, <1>6 DEF TypeOK, Raise
  <1>8. ThreadFits(f)'
    BY <1>1, <1>5, <1>6 DEF ThreadFits, AtWork, InBlock
  <1>9. FlowInv'
    BY <1>1, <1>4, <1>6, <1>7, <1>8, UnwrittenFlow
  <1>10. QED
    BY <1>4, <1>5, <1>9 DEF Moved

LEMMA BreakFlow ==
    ASSUME RunInv, NEW f \in Files, Break(f)
    PROVE  /\ FlowInv'
           /\ thread'[f].pc = "broken"
           /\ \A g \in Files \ {f} : thread'[g] = thread[g]
  <1> DEFINE record == [Idle EXCEPT !.pc = "broken"]
  <1>1. TypeOK /\ thread[f].pc # "off"
    BY DEF RunInv, Break
  <1>2. record \in Thread /\ record.pc = "broken"
    BY DEF Idle, Thread
  <1>3. thread' = [thread EXCEPT ![f] = record]
    BY DEF Break
  <1> HIDE DEF record
  <1>4. Moved(f, record)
    BY <1>1, <1>2, <1>3, MoveThread
  <1>5. thread'[f].pc = "broken" /\ run.active
    BY <1>1, <1>2, <1>4, StartedThread DEF Moved
  <1>6. UNCHANGED <<stored, task, run, runs>> /\ events' = events \cup {"error"}
    BY DEF Break, MayStop
  <1>7. task' \in Task /\ run' \in Run /\ spent' \in Nat /\ lost' \in Nat
    BY <1>1, <1>6 DEF TypeOK, Break
  <1>8. ThreadFits(f)'
    BY <1>1, <1>5, <1>6 DEF ThreadFits, AtWork, InBlock
  <1>9. FlowInv'
    BY <1>1, <1>4, <1>6, <1>7, <1>8, UnwrittenFlow
  <1>10. QED
    BY <1>4, <1>5, <1>9 DEF Moved

-----------------------------------------------------------------------------
(* The steps between runs, and how a run begins                            *)

\* Between runs nothing of a run is left.
LEMMA BetweenRuns ==
    ASSUME RunInv, ~run.active
    PROVE  run = NoRun /\ \A f \in Files : thread[f].pc = "off"
  BY DEF RunInv, StateInv, ThreadInv, ThreadFits

\* Nothing is in order as simply as no thread.
LEMMA NoThreadsInOrder ==
    ASSUME ~run'.active, \A f \in Files : thread'[f].pc = "off"
    PROVE  ThreadInv'
  BY DEF ThreadInv, ThreadFits, AtWork, InBlock

\* A submission keeps what is good and promises nothing else.
LEMMA SubmitFlow ==
    ASSUME RunInv, Submit
    PROVE  FlowInv'
  <1>1. TypeOK /\ run = NoRun /\ \A f \in Files : thread[f].pc = "off"
    BY BetweenRuns DEF RunInv, Submit
  <1>2. UNCHANGED <<run, thread, runs, events, spent, lost>>
    BY DEF Submit
  <1>3. \A f \in Files : Synchronized(f) \in FileDoc /\ Faithful(Synchronized(f), NumBlocks[f])
    BY <1>1, SynchronizedDocument DEF TypeOK
  <1>4. /\ stored' \in [Files -> FileDoc]
        /\ \A f \in Files : stored'[f] = Synchronized(f)
    <2>1. stored' = [f \in Files |-> Synchronized(f)]
      BY DEF Submit
    <2>2. QED
      BY <1>3, <2>1
  <1>5. task' = [task EXCEPT !.status = "pending", !.retry = FALSE]
    BY DEF Submit
  <1>6. task' \in Task /\ task'.status = "pending"
    BY <1>1, <1>5 DEF TypeOK, Task
  <1>7. ~task'.retry
    BY <1>1, <1>5 DEF TypeOK, Task
  <1>8. TypeOK'
    BY <1>1, <1>2, <1>4, <1>6 DEF TypeOK
  <1>9. DocumentInv'
    BY <1>3, <1>4 DEF DocumentInv
  <1>10. RetryInv'
    BY <1>1, <1>2, <1>7 DEF RetryInv, NoRun
  <1>11. StateInv' /\ CompletedIsReviewed'
    BY <1>1, <1>2, <1>6 DEF StateInv, CompletedIsReviewed, NoRun
  <1>12. ThreadInv'
    BY <1>1, <1>2, NoThreadsInOrder DEF NoRun
  <1>13. QED
    BY <1>8, <1>9, <1>10, <1>11, <1>12 DEF FlowInv, DocumentsInv

\* What makes a retry acceptable is that every block has a result.
LEMMA AskRetryFlow ==
    ASSUME RunInv, AskRetry
    PROVE  FlowInv'
  <1>1. TypeOK /\ run = NoRun /\ \A f \in Files : thread[f].pc = "off"
    BY BetweenRuns DEF RunInv, AskRetry
  <1>2. UNCHANGED <<stored, run, thread, runs, events, spent, lost>>
    BY DEF AskRetry
  <1>3. task' = [task EXCEPT !.status = "retry_pending", !.retry = TRUE]
    BY DEF AskRetry
  <1>4. task' \in Task /\ task'.status = "retry_pending"
    BY <1>1, <1>3 DEF TypeOK, Task
  <1>5. TypeOK'
    BY <1>1, <1>2, <1>4 DEF TypeOK
  <1>6. DocumentInv'
    BY <1>2 DEF RunInv, DocumentInv
  <1>7. ASSUME NEW f \in Files, NEW b \in DOMAIN stored[f].blocks
        PROVE  stored[f].blocks[b].done \/ stored[f].blocks[b].failed
    <2>1. Faithful(stored[f], NumBlocks[f])
      BY DEF RunInv, DocumentInv
    <2>2. \/ Failing(stored[f].blocks[b])
          \/ stored[f].blocks[b].done
          \/ stored[f].blocks[b].state = 2
          \/ stored[f].status \in {"reviewed", "resumed", "skipped"}
      BY DEF AskRetry, Retryable
    <2>3. stored[f].status # "skipped"
      BY <2>1 DEF Faithful
    <2>4. /\ stored[f].blocks[b].state = 2 => Good(stored[f].blocks[b])
          /\ stored[f].blocks[b].state = 3 => stored[f].blocks[b].failed
          /\ stored[f].status \in {"reviewed", "resumed"} => Good(stored[f].blocks[b])
      BY <2>1 DEF Faithful, GoodFile
    <2>5. QED
      BY <2>2, <2>3, <2>4 DEF Failing, Good
  <1>8. RetryInv'
    BY <1>2, <1>7 DEF RetryInv
  <1>9. StateInv' /\ CompletedIsReviewed'
    BY <1>1, <1>2, <1>4 DEF StateInv, CompletedIsReviewed, NoRun
  <1>10. ThreadInv'
    BY <1>1, <1>2, NoThreadsInOrder DEF NoRun
  <1>11. QED
    BY <1>5, <1>6, <1>8, <1>9, <1>10 DEF FlowInv, DocumentsInv

LEMMA ResumedDocument ==
    ASSUME NEW doc \in FileDoc, NEW n \in Nat \ {0}, Faithful(doc, n), GoodFile(doc),
           NEW resumed, resumed = [doc EXCEPT !.status = "resumed"]
    PROVE  /\ resumed \in FileDoc /\ Faithful(resumed, n)
           /\ resumed.status = "resumed" /\ resumed.blocks = doc.blocks
  <1>1. PICK status \in Statuses : status = "resumed"
    BY DEF Statuses
  <1>2. resumed = [doc EXCEPT !.status = status]
    BY <1>1
  <1>3. resumed \in FileDoc
    BY <1>2 DEF FileDoc
  <1>4. resumed.status = "resumed" /\ resumed.blocks = doc.blocks /\ resumed.state = doc.state
    BY <1>1, <1>2 DEF FileDoc
  <1>5. Faithful(resumed, n)
    BY <1>4 DEF Faithful, GoodFile
  <1>6. QED
    BY <1>3, <1>4, <1>5

LEMMA SkippedDocument ==
    ASSUME NEW condition \in Conditions, NEW n \in Nat
    PROVE  /\ Skipped(condition) \in FileDoc /\ Faithful(Skipped(condition), n)
           /\ Skipped(condition).status = "skipped" /\ Skipped(condition).blocks = <<>>
  <1>1. <<>> \in Seq(Block) /\ DOMAIN <<>> = {}
    OBVIOUS
  <1>2. Skipped(condition) \in FileDoc
    BY <1>1 DEF Skipped, FileDoc, Statuses
  <1>3. /\ Skipped(condition).status = "skipped" /\ Skipped(condition).blocks = <<>>
        /\ Skipped(condition).state = 0
    BY DEF Skipped
  <1>4. QED
    BY <1>1, <1>2, <1>3 DEF Faithful

\* What becomes of a file when a run begins: it is left alone, reused, queued or
\* passed over.
Sorted(f, condition) ==
    \/ /\ task.retry /\ ~HasFailure(stored[f])
       /\ stored'[f] = stored[f] /\ thread'[f] = Idle
    \/ /\ stored'[f].status = "resumed" /\ stored'[f].blocks = Synchronized(f).blocks
       /\ thread'[f] = Idle
       /\ task.retry => HasFailure(stored[f])
    \/ /\ stored'[f] = Synchronized(f) /\ thread'[f] = Queued
       /\ task.retry => HasFailure(stored[f])
    \/ /\ stored'[f].status = "skipped" /\ stored'[f].blocks = <<>>
       /\ thread'[f] = Idle

LEMMA BeginSorts ==
    ASSUME RunInv, NEW condition \in Conditions, Begin(condition), NEW f \in Files
    PROVE  /\ stored'[f] \in FileDoc /\ Faithful(stored'[f], NumBlocks[f])
           /\ Sorted(f, condition)
  <1>1. /\ stored \in [Files -> FileDoc]
        /\ Faithful(stored[f], NumBlocks[f])
        /\ NumBlocks[f] \in Nat \ {0}
    BY FilesAreNumbers DEF RunInv, TypeOK, DocumentInv
  <1>2. /\ stored'[f] = IF f \notin Targets THEN stored[f]
                        ELSE IF Reusable(f, condition)
                             THEN [Prepared(f) EXCEPT !.status = "resumed"]
                             ELSE IF Fits(f, condition) THEN Prepared(f)
                             ELSE Skipped(condition)
        /\ thread'[f] = IF f \in Targets /\ ~Reusable(f, condition) /\ Fits(f, condition)
                        THEN Queued ELSE Idle
    BY DEF Begin
  <1>3. CASE f \notin Targets
    <2>1. task.retry /\ ~HasFailure(stored[f])
      BY <1>3 DEF Targets
    <2>2. stored'[f] = stored[f] /\ thread'[f] = Idle
      BY <1>2, <1>3
    <2>3. QED
      BY <1>1, <2>1, <2>2 DEF Sorted
  <1>4. CASE f \in Targets
    <2>1. Prepared(f) = Synchronized(f) /\ (task.retry => HasFailure(stored[f]))
      BY <1>4 DEF Prepared, Targets
    <2>2. Synchronized(f) \in FileDoc /\ Faithful(Synchronized(f), NumBlocks[f])
      BY <1>1, SynchronizedDocument
    <2>3. CASE Reusable(f, condition)
      <3>1. GoodFile(Synchronized(f))
        BY <2>1, <2>3 DEF Reusable
      <3>2. stored'[f] = [Synchronized(f) EXCEPT !.status = "resumed"] /\ thread'[f] = Idle
        BY <1>2, <1>4, <2>1, <2>3
      <3>3. /\ stored'[f] \in FileDoc /\ Faithful(stored'[f], NumBlocks[f])
            /\ stored'[f].status = "resumed" /\ stored'[f].blocks = Synchronized(f).blocks
        BY <1>1, <2>2, <3>1, <3>2, ResumedDocument
      <3>4. QED
        BY <2>1, <3>2, <3>3 DEF Sorted
    <2>4. CASE ~Reusable(f, condition) /\ Fits(f, condition)
      <3>1. stored'[f] = Synchronized(f) /\ thread'[f] = Queued
        BY <1>2, <1>4, <2>1, <2>4
      <3>2. QED
        BY <2>1, <2>2, <3>1 DEF Sorted
    <2>5. CASE ~Reusable(f, condition) /\ ~Fits(f, condition)
      <3>1. stored'[f] = Skipped(condition) /\ thread'[f] = Idle
        BY <1>2, <1>4, <2>5
      <3>2. /\ Skipped(condition) \in FileDoc /\ Faithful(Skipped(condition), NumBlocks[f])
            /\ Skipped(condition).status = "skipped" /\ Skipped(condition).blocks = <<>>
        BY <1>1, SkippedDocument
      <3>3. QED
        BY <3>1, <3>2 DEF Sorted
    <2>6. QED
      BY <2>3, <2>4, <2>5
  <1>5. QED
    BY <1>3, <1>4

\* The greater of two numbers.
LEMMA GreaterOfTwo ==
    ASSUME NEW m \in Int, NEW n \in Int
    PROVE  Max({m, n}) = IF m >= n THEN m ELSE n
  <1>1. \E x \in {m, n} : \A y \in {m, n} : x >= y
    OBVIOUS
  <1>2. Max({m, n}) \in {m, n} /\ \A y \in {m, n} : Max({m, n}) >= y
    BY <1>1 DEF Max
  <1>3. QED
    BY <1>2

\* The places whose blocks have been asked for: Persisted is their number.
Answered == {p \in Places \ CommentOnly : Stored(p) /\ BlockAt(p).by # 0}

LEMMA AnsweredIsFinite == IsFiniteSet(Answered) /\ Cardinality(Answered) \in Nat
  BY PlacesAreFinite DEF Answered

LEMMA PersistedIsNumber == Persisted = Cardinality(Answered) /\ Persisted \in Nat
  BY AnsweredIsFinite DEF Persisted, Answered

LEMMA BeginFlow ==
    ASSUME RunInv, NEW condition \in Conditions, Begin(condition)
    PROVE  /\ FlowInv'
           /\ run'.active /\ run'.ran = 0
           /\ run'.initial = Max({task.usage, Persisted})
           /\ task'.usage = task.usage
  <1>1. TypeOK /\ ~run.active /\ run = NoRun /\ task.usage \in Nat
    BY BetweenRuns DEF RunInv, TypeOK, Task, Begin
  <1>2. PICK initial \in Nat : initial = Max({task.usage, Persisted})
    BY <1>1, PersistedIsNumber, GreaterOfTwo
  <1>3. PICK retry \in BOOLEAN : retry = task.retry
    BY <1>1 DEF TypeOK, Task
  <1>4. run' = [active |-> TRUE, condition |-> condition, retry |-> retry,
                stop |-> FALSE, superseded |-> FALSE, initial |-> initial, ran |-> 0]
    BY <1>2, <1>3 DEF Begin, NoRun
  <1>5. run' \in Run
    BY <1>4 DEF Run
  <1>6. task' = [task EXCEPT !.status = "running"]
    BY DEF Begin
  <1>7. task' \in Task /\ task'.status = "running" /\ task'.usage = task.usage
    BY <1>1, <1>6 DEF TypeOK, Task
  <1>8. task'.retry = task.retry
    BY <1>1, <1>6 DEF TypeOK, Task
  <1>9. runs' \in 0 .. MaxRuns /\ UNCHANGED <<events, spent, lost>>
    BY <1>1, FilesAreNumbers DEF TypeOK, Begin
  <1>10. ASSUME NEW f \in Files
         PROVE  /\ stored'[f] \in FileDoc /\ Faithful(stored'[f], NumBlocks[f])
                /\ Sorted(f, condition)
    BY BeginSorts
  <1>11. stored' \in [Files -> FileDoc]
    <2>1. stored' = [f \in Files |-> stored'[f]]
      BY DEF Begin
    <2>2. QED
      BY <1>10, <2>1
  <1>12. Idle \in Thread /\ Queued \in Thread
    BY DEF Idle, Queued, Thread
  <1>13. thread' \in [Files -> Thread]
    BY <1>12 DEF Begin
  <1>14. TypeOK'
    BY <1>1, <1>5, <1>7, <1>9, <1>11, <1>13 DEF TypeOK
  <1>15. DocumentInv'
    BY <1>10 DEF DocumentInv
  <1>16. RetryInv'
    <2>1. SUFFICES ASSUME task.retry, NEW f \in Files, NEW b \in DOMAIN stored'[f].blocks
                   PROVE  stored'[f].blocks[b].done \/ stored'[f].blocks[b].failed
      BY <1>3, <1>4, <1>8 DEF RetryInv
    <2>2. \A c \in DOMAIN stored[f].blocks :
             stored[f].blocks[c].done \/ stored[f].blocks[c].failed
      BY <2>1 DEF RunInv, RetryInv
    <2>3. CASE stored'[f] = stored[f]
      BY <2>1, <2>2, <2>3
    <2>4. CASE stored'[f].blocks = Synchronized(f).blocks /\ HasFailure(stored[f])
      <3>1. DOMAIN stored[f].blocks = 1 .. NumBlocks[f]
        <4>1. stored[f].blocks # <<>>
          BY <2>4 DEF HasFailure
        <4>2. QED
          BY <4>1 DEF RunInv, DocumentInv, Faithful
      <3>2. /\ b \in 1 .. NumBlocks[f]
            /\ Synchronized(f).blocks[b]
                 = [stored[f].blocks[b] EXCEPT
                      !.state = IF Good(stored[f].blocks[b]) THEN 2 ELSE 0]
        BY <1>1, <2>1, <2>4, <3>1, SynchronizedDocument DEF TypeOK
      <3>3. stored[f].blocks[b] \in Block
        <4>1. PICK blocks \in Seq(Block) : blocks = stored[f].blocks
          BY <1>1 DEF TypeOK, FileDoc
        <4>2. b \in DOMAIN blocks
          BY <3>1, <3>2, <4>1
        <4>3. blocks[b] \in Block
          BY <4>2
        <4>4. QED
          BY <4>1, <4>3
      <3>4. /\ Synchronized(f).blocks[b].done = stored[f].blocks[b].done
            /\ Synchronized(f).blocks[b].failed = stored[f].blocks[b].failed
        BY <3>2, <3>3 DEF Block
      <3>5. QED
        BY <2>2, <2>4, <3>1, <3>2, <3>4
    <2>5. CASE stored'[f].blocks = <<>>
      BY <2>1, <2>5
    <2>6. QED
      BY <1>10, <2>1, <2>3, <2>4, <2>5 DEF Sorted
  <1>17. StateInv' /\ CompletedIsReviewed'
    BY <1>4, <1>7 DEF StateInv, CompletedIsReviewed
  <1>18. ThreadInv'
    <2>1. SUFFICES ASSUME NEW f \in Files PROVE ThreadFits(f)'
      BY DEF ThreadInv
    <2>2. \/ thread'[f] = Idle
          \/ thread'[f] = Queued /\ stored'[f] = Synchronized(f)
      BY <1>10 DEF Sorted
    <2>3. CASE thread'[f] = Idle
      <3>1. thread'[f].pc = "off"
        BY <2>3 DEF Idle
      <3>2. thread'[f] # Queued
        BY <2>3 DEF Idle, Queued
      <3>3. \/ stored'[f].status \in {"resumed", "skipped"}
            \/ task.retry /\ ~HasFailure(stored'[f])
        BY <1>10, <3>2 DEF Sorted
      <3>4. QED
        BY <1>3, <1>4, <3>1, <3>3 DEF ThreadFits, AtWork, InBlock
    <2>4. CASE thread'[f] = Queued /\ stored'[f] = Synchronized(f)
      <3>1. thread'[f].pc = "queued" /\ thread'[f].b = 0
        BY <2>4 DEF Queued, Idle
      <3>2. stored'[f].status # "skipped"
        BY <1>1, <2>4, SynchronizedDocument DEF TypeOK
      <3>3. QED
        BY <1>4, <3>1, <3>2 DEF ThreadFits, AtWork, InBlock
    <2>5. QED
      BY <2>2, <2>3, <2>4
  <1>19. QED
    BY <1>2, <1>4, <1>7, <1>14, <1>15, <1>16, <1>17, <1>18 DEF FlowInv, DocumentsInv

-----------------------------------------------------------------------------
(* How a run ends, and what disturbs it                                    *)

\* Over: no run and no threads are left.
LEMMA OverLeavesNothing ==
    ASSUME TypeOK, Over
    PROVE  /\ run' = NoRun /\ run' \in Run /\ ~run'.active /\ ~run'.retry
           /\ \A f \in Files : thread'[f].pc = "off"
           /\ thread' \in [Files -> Thread]
           /\ UNCHANGED <<runs, spent, lost>>
  <1>1. run' = NoRun /\ UNCHANGED <<runs, spent, lost>>
    BY DEF Over
  <1>2. NoRun \in Run /\ ~NoRun.active /\ ~NoRun.retry
    BY DEF NoRun, Run
  <1>3. Idle \in Thread /\ Idle.pc = "off"
    BY DEF Idle, Thread
  <1>4. thread' = [f \in Files |-> Idle]
    BY DEF Over
  <1>5. QED
    BY <1>1, <1>2, <1>3, <1>4

\* When all threads have ended and none was stopped or broke, what no status calls
\* incomplete is good, which is what _finish_task relies on.
LEMMA JoinedIsGood ==
    ASSUME RunInv, Joined, ~run.stop, ~Broken, NEW f \in Files,
           stored[f].status \notin {"partial", "skipped"}
    PROVE  GoodFile(stored[f])
  <1>1. /\ Faithful(stored[f], NumBlocks[f]) /\ ThreadFits(f) /\ run.active
        /\ NumBlocks[f] \in Nat \ {0}
    BY FilesAreNumbers DEF RunInv, DocumentInv, ThreadInv, Joined
  <1>2. thread[f].pc \in {"off", "done"}
    BY <1>1 DEF Joined, Broken, ThreadFits
  <1>3. CASE stored[f].status \in {"reviewed", "resumed"}
    BY <1>1, <1>3 DEF Faithful
  <1>4. CASE run.retry /\ ~HasFailure(stored[f])
    <2>1. \A b \in DOMAIN stored[f].blocks :
             (stored[f].blocks[b].done \/ stored[f].blocks[b].failed) /\ ~stored[f].blocks[b].failed
      BY <1>4 DEF RunInv, RetryInv, HasFailure, Failing
    <2>2. 1 \in DOMAIN stored[f].blocks
      BY <1>1 DEF Faithful
    <2>3. stored[f].blocks # <<>>
      BY <2>2
    <2>4. QED
      BY <2>1, <2>3 DEF GoodFile, Good
  <1>5. QED
    BY <1>1, <1>2, <1>3, <1>4 DEF ThreadFits

LEMMA FinishFlow ==
    ASSUME RunInv, Finish
    PROVE  FlowInv' /\ task'.usage = run.initial + run.ran
  <1>1. TypeOK /\ run.active
    BY DEF RunInv, Finish, Joined
  <1>2. /\ run' = NoRun /\ run' \in Run /\ ~run'.active /\ ~run'.retry
        /\ \A f \in Files : thread'[f].pc = "off"
        /\ thread' \in [Files -> Thread]
        /\ UNCHANGED <<runs, spent, lost>>
    BY <1>1, OverLeavesNothing DEF Finish
  <1>3. UNCHANGED <<stored, events>>
    BY DEF Finish
  <1>4. PICK usage \in Nat : usage = run.initial + run.ran
    BY <1>1 DEF TypeOK, Run
  <1>5. PICK status \in {"completed", "partial"} :
          /\ task' = [status |-> status, retry |-> FALSE, usage |-> usage]
          /\ status = "completed" =>
                \A f \in Files : stored[f].status \notin {"partial", "skipped"}
    BY <1>4 DEF Finish
  <1>6. /\ task' \in Task /\ task'.status = status /\ ~task'.retry
        /\ task'.usage = usage
    BY <1>5 DEF Task
  <1>7. TypeOK'
    BY <1>1, <1>2, <1>3, <1>6 DEF TypeOK
  <1>8. DocumentInv'
    BY <1>3 DEF RunInv, DocumentInv
  <1>9. RetryInv'
    BY <1>2, <1>6 DEF RetryInv
  <1>10. StateInv'
    BY <1>2 DEF StateInv, NoRun
  <1>11. CompletedIsReviewed'
    <2>1. ASSUME status = "completed", NEW f \in Files PROVE GoodFile(stored[f])
      BY <1>5, <2>1, JoinedIsGood DEF Finish
    <2>2. QED
      BY <1>3, <1>6, <2>1 DEF CompletedIsReviewed
  <1>12. ThreadInv'
    BY <1>2, NoThreadsInOrder
  <1>13. QED
    BY <1>4, <1>6, <1>7, <1>8, <1>9, <1>10, <1>11, <1>12 DEF FlowInv, DocumentsInv

LEMMA MarkInterruptedFlow ==
    ASSUME RunInv, MarkInterrupted
    PROVE  /\ FlowInv'
           /\ task'.usage = IF run.superseded THEN task.usage ELSE run.initial + run.ran
           /\ \A f \in Files : stored'[f].blocks = stored[f].blocks
  <1>1. TypeOK /\ run.active
    BY DEF RunInv, MarkInterrupted, Joined
  <1>2. /\ run' = NoRun /\ run' \in Run /\ ~run'.active /\ ~run'.retry
        /\ \A f \in Files : thread'[f].pc = "off"
        /\ thread' \in [Files -> Thread]
        /\ UNCHANGED <<runs, spent, lost>>
    BY <1>1, OverLeavesNothing DEF MarkInterrupted
  <1>3. events' = events
    BY DEF MarkInterrupted
  <1>4. /\ task' \in Task /\ task'.status # "completed" /\ task'.retry = task.retry
        /\ task'.usage = IF run.superseded THEN task.usage ELSE run.initial + run.ran
    <2>1. CASE run.superseded
      <3>1. task' = task
        BY <2>1 DEF MarkInterrupted
      <3>2. QED
        BY <1>1, <2>1, <3>1 DEF TypeOK, RunInv, StateInv
    <2>2. CASE ~run.superseded
      <3>1. PICK usage \in Nat : usage = run.initial + run.ran
        BY <1>1 DEF TypeOK, Run
      <3>2. task' = [task EXCEPT !.status = "interrupted", !.usage = usage]
        BY <2>2, <3>1 DEF MarkInterrupted
      <3>3. task' \in Task
        BY <1>1, <3>2 DEF TypeOK, Task
      <3>4. task'.status = "interrupted" /\ task'.usage = usage
        BY <1>1, <3>2 DEF TypeOK, Task
      <3>5. task'.retry = task.retry
        BY <1>1, <3>2 DEF TypeOK, Task
      <3>6. QED
        BY <2>2, <3>1, <3>3, <3>4, <3>5
    <2>3. QED
      BY <2>1, <2>2
  <1>5. ASSUME NEW f \in Files
        PROVE  /\ stored'[f] \in FileDoc /\ Faithful(stored'[f], NumBlocks[f])
               /\ stored'[f].blocks = stored[f].blocks
    <2>1. stored'[f] = IF stored[f].state = 1 THEN [stored[f] EXCEPT !.state = 0] ELSE stored[f]
      BY DEF MarkInterrupted
    <2>2. stored[f] \in FileDoc /\ Faithful(stored[f], NumBlocks[f])
      BY <1>1 DEF TypeOK, RunInv, DocumentInv
    <2>3. CASE stored[f].state = 1
      <3>1. PICK state \in 0 .. 3 : state = 0
        OBVIOUS
      <3>2. stored'[f] = [stored[f] EXCEPT !.state = state]
        BY <2>1, <2>3, <3>1
      <3>3. stored'[f] \in FileDoc
        BY <2>2, <3>2 DEF FileDoc
      <3>4. /\ stored'[f].blocks = stored[f].blocks /\ stored'[f].status = stored[f].status
            /\ stored'[f].state = 0
        BY <2>2, <3>1, <3>2 DEF FileDoc
      <3>5. Faithful(stored'[f], NumBlocks[f])
        BY <2>2, <3>4 DEF Faithful, GoodFile
      <3>6. QED
        BY <3>3, <3>4, <3>5
    <2>4. QED
      BY <2>1, <2>2, <2>3
  <1>6. stored' \in [Files -> FileDoc]
    <2>1. stored' = [f \in Files |-> stored'[f]]
      BY DEF MarkInterrupted
    <2>2. QED
      BY <1>5, <2>1
  <1>7. TypeOK'
    BY <1>1, <1>2, <1>3, <1>4, <1>6 DEF TypeOK
  <1>8. DocumentInv'
    BY <1>5 DEF DocumentInv
  <1>9. RetryInv'
    BY <1>2, <1>4, <1>5 DEF RunInv, RetryInv
  <1>10. StateInv' /\ CompletedIsReviewed'
    BY <1>2, <1>4 DEF StateInv, CompletedIsReviewed, NoRun
  <1>11. ThreadInv'
    BY <1>2, NoThreadsInOrder
  <1>12. QED
    BY <1>4, <1>5, <1>7, <1>8, <1>9, <1>10, <1>11 DEF FlowInv, DocumentsInv

LEMMA FailedTaskFlow ==
    ASSUME RunInv, FailedTask, events' = events \/ events' = events \cup {"error"}
    PROVE  FlowInv' /\ task'.usage = run.initial + run.ran
  <1>1. TypeOK /\ run.active
    BY DEF RunInv, FailedTask
  <1>2. /\ run' = NoRun /\ run' \in Run /\ ~run'.active /\ ~run'.retry
        /\ \A f \in Files : thread'[f].pc = "off"
        /\ thread' \in [Files -> Thread]
        /\ UNCHANGED <<runs, spent, lost>>
    BY <1>1, OverLeavesNothing DEF FailedTask
  <1>3. stored' = stored
    BY DEF FailedTask
  <1>4. PICK usage \in Nat : usage = run.initial + run.ran
    BY <1>1 DEF TypeOK, Run
  <1>5. task' = [status |-> "partial", retry |-> FALSE, usage |-> usage]
    BY <1>4 DEF FailedTask
  <1>6. /\ task' \in Task /\ task'.status = "partial" /\ ~task'.retry
        /\ task'.usage = usage
    BY <1>5 DEF Task
  <1>7. TypeOK'
    BY <1>1, <1>2, <1>3, <1>6 DEF TypeOK
  <1>8. DocumentInv'
    BY <1>3 DEF RunInv, DocumentInv
  <1>9. RetryInv'
    BY <1>2, <1>6 DEF RetryInv
  <1>10. StateInv' /\ CompletedIsReviewed'
    BY <1>2, <1>6 DEF StateInv, CompletedIsReviewed, NoRun
  <1>11. ThreadInv'
    BY <1>2, NoThreadsInOrder
  <1>12. QED
    BY <1>4, <1>6, <1>7, <1>8, <1>9, <1>10, <1>11 DEF FlowInv, DocumentsInv

LEMMA CrashFlow ==
    ASSUME RunInv, Crash
    PROVE  FlowInv'
  <1>1. TypeOK /\ run.active /\ task.status # "completed"
    BY DEF RunInv, StateInv, Crash, MayStop
  <1>2. /\ run' = NoRun /\ run' \in Run /\ ~run'.active /\ ~run'.retry
        /\ \A f \in Files : thread'[f].pc = "off"
        /\ thread' \in [Files -> Thread]
        /\ UNCHANGED <<runs, spent, lost>>
    BY <1>1, OverLeavesNothing DEF Crash
  <1>3. UNCHANGED <<stored, task>> /\ events' = events \cup {"crash"}
    BY DEF Crash, MayStop
  <1>4. TypeOK'
    BY <1>1, <1>2, <1>3 DEF TypeOK
  <1>5. DocumentInv'
    BY <1>3 DEF RunInv, DocumentInv
  <1>6. RetryInv'
    BY <1>2, <1>3 DEF RunInv, RetryInv
  <1>7. StateInv' /\ CompletedIsReviewed'
    BY <1>1, <1>2, <1>3 DEF StateInv, CompletedIsReviewed, NoRun
  <1>8. ThreadInv'
    BY <1>2, NoThreadsInOrder
  <1>9. QED
    BY <1>4, <1>5, <1>6, <1>7, <1>8 DEF FlowInv, DocumentsInv

\* What it means that a run is asked to stop and nothing else of it changes.
Stopped ==
    /\ run' \in Run /\ run'.stop
    /\ run'.active = run.active /\ run'.retry = run.retry /\ run'.condition = run.condition
    /\ run'.initial = run.initial /\ run'.ran = run.ran

LEMMA StoppedThreads ==
    ASSUME RunInv, Stopped, UNCHANGED <<stored, thread>>
    PROVE  ThreadInv'
  <1>1. SUFFICES ASSUME NEW f \in Files PROVE ThreadFits(f)'
    BY DEF ThreadInv
  <1>2. ThreadFits(f)
    BY DEF RunInv, ThreadInv
  <1>3. QED
    BY <1>2 DEF Stopped, ThreadFits, AtWork, InBlock, KeepsResult

LEMMA PreemptFlow ==
    ASSUME RunInv, Preempt
    PROVE  FlowInv' /\ Stopped /\ run'.superseded = run.superseded
  <1>1. TypeOK /\ run.active
    BY DEF RunInv, Preempt, MayStop
  <1>2. UNCHANGED <<stored, task, thread, runs, spent, lost>> /\ events' = events \cup {"preempt"}
    BY DEF Preempt, MayStop
  <1>3. run' = [run EXCEPT !.stop = TRUE]
    BY DEF Preempt
  <1>4. run' \in Run
    BY <1>1, <1>3 DEF TypeOK, Run
  <1>5. /\ run'.condition = run.condition /\ run'.initial = run.initial
        /\ run'.ran = run.ran
    BY <1>1, <1>3 DEF TypeOK, Run
  <1>6. /\ run'.stop /\ run'.active = run.active /\ run'.retry = run.retry
        /\ run'.superseded = run.superseded
    BY <1>1, <1>3 DEF TypeOK, Run
  <1>7. Stopped
    BY <1>4, <1>5, <1>6 DEF Stopped
  <1>8. TypeOK'
    BY <1>1, <1>2, <1>4 DEF TypeOK
  <1>9. DocumentInv' /\ RetryInv'
    BY <1>2, <1>6 DEF RunInv, DocumentInv, RetryInv
  <1>10. StateInv' /\ CompletedIsReviewed'
    BY <1>1, <1>2, <1>6 DEF RunInv, StateInv, CompletedIsReviewed
  <1>11. QED
    BY <1>2, <1>6, <1>7, <1>8, <1>9, <1>10, StoppedThreads DEF FlowInv, DocumentsInv

LEMMA SupersedeFlow ==
    ASSUME RunInv, Supersede
    PROVE  FlowInv' /\ Stopped /\ task'.usage = task.usage
  <1>1. TypeOK /\ run.active
    BY DEF RunInv, Supersede, MayStop
  <1>2. UNCHANGED <<stored, thread, runs, spent, lost>> /\ events' = events \cup {"supersede"}
    BY DEF Supersede, MayStop
  <1>3. run' = [run EXCEPT !.stop = TRUE, !.superseded = TRUE]
    BY DEF Supersede
  <1>4. run' \in Run
    BY <1>1, <1>3 DEF TypeOK, Run
  <1>5. /\ run'.condition = run.condition /\ run'.initial = run.initial
        /\ run'.ran = run.ran
    BY <1>1, <1>3 DEF TypeOK, Run
  <1>6. run'.stop /\ run'.active = run.active /\ run'.retry = run.retry
    BY <1>1, <1>3 DEF TypeOK, Run
  <1>7. Stopped
    BY <1>4, <1>5, <1>6 DEF Stopped
  <1>8. task' = [task EXCEPT !.status = "pending", !.retry = FALSE]
    BY DEF Supersede
  <1>9. task' \in Task /\ task'.status = "pending" /\ task'.usage = task.usage
    BY <1>1, <1>8 DEF TypeOK, Task
  <1>10. ~task'.retry
    BY <1>1, <1>8 DEF TypeOK, Task
  <1>11. TypeOK'
    BY <1>1, <1>2, <1>4, <1>9 DEF TypeOK
  <1>12. DocumentInv' /\ RetryInv'
    BY <1>2, <1>6, <1>10 DEF RunInv, DocumentInv, RetryInv
  <1>13. StateInv' /\ CompletedIsReviewed'
    BY <1>1, <1>2, <1>6, <1>9 DEF StateInv, CompletedIsReviewed
  <1>14. QED
    BY <1>2, <1>7, <1>9, <1>11, <1>12, <1>13, StoppedThreads DEF FlowInv, DocumentsInv

\* Every step keeps the documents, the threads and the task in order.
LEMMA NextFlow ==
    ASSUME RunInv, Next
    PROVE  FlowInv'
  <1>1. CASE Submit
    BY <1>1, SubmitFlow
  <1>2. CASE AskRetry
    BY <1>2, AskRetryFlow
  <1>3. ASSUME NEW condition \in Conditions, Begin(condition) PROVE FlowInv'
    BY <1>3, BeginFlow
  <1>4. ASSUME NEW f \in Files, ThreadStep(f) PROVE FlowInv'
    BY <1>4, OpenFileFlow, ReuseBlockFlow, SkipCommentsFlow, StartBlockFlow, AskModelsFlow,
       SaveBlockFlow, CountBlockFlow, WriteUsageFlow, CloseFileFlow, RaiseFlow
    DEF ThreadStep
  <1>5. CASE Finish
    BY <1>5, FinishFlow
  <1>6. CASE MarkInterrupted
    BY <1>6, MarkInterruptedFlow
  <1>7. CASE Preempt
    BY <1>7, PreemptFlow
  <1>8. CASE Supersede
    BY <1>8, SupersedeFlow
  <1>9. CASE Crash
    BY <1>9, CrashFlow
  <1>10. ASSUME NEW f \in Files, Break(f) PROVE FlowInv'
    BY <1>10, BreakFlow
  <1>11. CASE Fail \/ FailItself
    BY <1>11, FailedTaskFlow DEF Fail, FailItself, MayStop
  <1>12. QED
    BY <1>1, <1>2, <1>3, <1>4, <1>5, <1>6, <1>7, <1>8, <1>9, <1>10, <1>11
    DEF Next, RunStep

-----------------------------------------------------------------------------
(* Numbers: the answers that are stored, in memory, and in the totals      *)

LEMMA CountsAreNumbers ==
    /\ Cardinality(Unsaved) \in Nat /\ Cardinality(Uncounted) \in Nat
    /\ Cardinality(Unsaved') \in Nat /\ Cardinality(Uncounted') \in Nat
    /\ Persisted \in Nat /\ Persisted' \in Nat
    /\ Persisted' = Cardinality(Answered')
  <1>1. Unsaved \subseteq Files /\ Uncounted \subseteq Files
    BY DEF Unsaved, Uncounted
  <1>2. Unsaved' \subseteq Files /\ Uncounted' \subseteq Files
    BY DEF Unsaved, Uncounted
  <1>3. Answered' \subseteq Places
    BY DEF Answered
  <1>4. Persisted' = Cardinality(Answered')
    BY DEF Persisted, Answered
  <1>5. Persisted' \in Nat
    BY <1>3, <1>4, PlacesAreFinite
  <1>6. QED
    BY <1>1, <1>2, <1>4, <1>5, FileSetsAreFinite, PersistedIsNumber

LEMMA TotalsAreNumbers ==
    ASSUME TypeOK
    PROVE  /\ task.usage \in Nat /\ run.initial \in Nat /\ run.ran \in Nat
           /\ spent \in Nat /\ lost \in Nat
           /\ \A f \in Files : thread[f].total \in Nat
  <1>1. task.usage \in Nat
    BY DEF TypeOK, Task
  <1>2. run.initial \in Nat /\ run.ran \in Nat
    BY DEF TypeOK, Run
  <1>3. \A f \in Files : thread[f].total \in Nat
    BY DEF TypeOK, Thread
  <1>4. QED
    BY <1>1, <1>2, <1>3 DEF TypeOK

LEMMA OneFileMore ==
    ASSUME NEW S, S \subseteq Files, NEW f \in Files
    PROVE  /\ Cardinality(S \cup {f}) = IF f \in S THEN Cardinality(S) ELSE Cardinality(S) + 1
           /\ Cardinality(S \ {f}) = IF f \in S THEN Cardinality(S) - 1 ELSE Cardinality(S)
  <1>1. IsFiniteSet(S)
    BY FileSetsAreFinite
  <1>2. QED
    BY <1>1, FS_AddElement, FS_RemoveElement

\* When one thread moves, it alone is counted anew.
LEMMA MovedCounts ==
    ASSUME NEW f \in Files, \A g \in Files \ {f} : thread'[g] = thread[g]
    PROVE  /\ Cardinality(Unsaved')
                = Cardinality(Unsaved) + (IF thread'[f].pc = "result" THEN 1 ELSE 0)
                                       - (IF thread[f].pc = "result" THEN 1 ELSE 0)
           /\ Cardinality(Uncounted')
                = Cardinality(Uncounted)
                    + (IF thread'[f].pc \in {"result", "count"} THEN 1 ELSE 0)
                    - (IF thread[f].pc \in {"result", "count"} THEN 1 ELSE 0)
  <1>1. Unsaved' = IF thread'[f].pc = "result" THEN Unsaved \cup {f} ELSE Unsaved \ {f}
    BY DEF Unsaved
  <1>2. Uncounted' = IF thread'[f].pc \in {"result", "count"}
                     THEN Uncounted \cup {f} ELSE Uncounted \ {f}
    BY DEF Uncounted
  <1>3. /\ f \in Unsaved <=> thread[f].pc = "result"
        /\ f \in Uncounted <=> thread[f].pc \in {"result", "count"}
        /\ Unsaved \subseteq Files /\ Uncounted \subseteq Files
    BY DEF Unsaved, Uncounted
  <1>4. /\ Cardinality(Unsaved \cup {f})
             = IF f \in Unsaved THEN Cardinality(Unsaved) ELSE Cardinality(Unsaved) + 1
        /\ Cardinality(Unsaved \ {f})
             = IF f \in Unsaved THEN Cardinality(Unsaved) - 1 ELSE Cardinality(Unsaved)
        /\ Cardinality(Uncounted \cup {f})
             = IF f \in Uncounted THEN Cardinality(Uncounted) ELSE Cardinality(Uncounted) + 1
        /\ Cardinality(Uncounted \ {f})
             = IF f \in Uncounted THEN Cardinality(Uncounted) - 1 ELSE Cardinality(Uncounted)
    BY <1>3, OneFileMore
  <1>5. Cardinality(Unsaved) \in Nat /\ Cardinality(Uncounted) \in Nat
    BY CountsAreNumbers
  <1> HIDE DEF Unsaved, Uncounted
  <1>6. QED
    BY <1>1, <1>2, <1>3, <1>4, <1>5

\* When no thread is left, nothing is in memory only.
LEMMA NothingInMemory ==
    ASSUME \A f \in Files : thread'[f].pc = "off"
    PROVE  Cardinality(Unsaved') = 0 /\ Cardinality(Uncounted') = 0
  <1>1. Unsaved' = {} /\ Uncounted' = {}
    BY DEF Unsaved, Uncounted
  <1>2. QED
    BY <1>1, FS_EmptySet

LEMMA FewerAnswers ==
    ASSUME Answered' \subseteq Answered
    PROVE  Persisted' <= Persisted
  <1>1. Cardinality(Answered') <= Cardinality(Answered)
    BY AnsweredIsFinite, FS_Subset
  <1>2. QED
    BY <1>1, PersistedIsNumber, CountsAreNumbers

LEMMA OneAnswerMore ==
    ASSUME NEW p, Answered' \subseteq Answered \cup {p}
    PROVE  Persisted' <= Persisted + 1
  <1>1. /\ IsFiniteSet(Answered \cup {p})
        /\ Cardinality(Answered \cup {p})
             = IF p \in Answered THEN Cardinality(Answered) ELSE Cardinality(Answered) + 1
    BY AnsweredIsFinite, FS_AddElement
  <1>2. Cardinality(Answered') <= Cardinality(Answered \cup {p})
    BY <1>1, FS_Subset
  <1>3. QED
    BY <1>1, <1>2, PersistedIsNumber, CountsAreNumbers

\* A place that is not replaced keeps its answer.
LEMMA ReplacedAnswers ==
    ASSUME NEW f \in Files, NEW b \in DOMAIN stored[f].blocks, NEW block,
           Replaced(f, b, block)
    PROVE  Answered' \subseteq Answered \cup {<<f, b>>}
  <1>1. SUFFICES ASSUME NEW p \in Answered', p # <<f, b>> PROVE p \in Answered
    OBVIOUS
  <1>2. /\ p \in Places \ CommentOnly
        /\ p[2] \in DOMAIN stored'[p[1]].blocks
        /\ stored'[p[1]].blocks[p[2]].by # 0
    BY DEF Answered, Stored, BlockAt
  <1>3. PICK g \in Files : \E c \in 1 .. NumBlocks[g] : p = <<g, c>>
    BY <1>2 DEF Places
  <1>4. PICK c \in 1 .. NumBlocks[g] : p = <<g, c>>
    BY <1>3
  <1>5. p[1] = g /\ p[2] = c
    BY <1>4
  <1>6. c \in DOMAIN stored[g].blocks /\ stored[g].blocks[c].by # 0
    <2>1. CASE g # f
      BY <1>2, <1>5, <2>1 DEF Replaced
    <2>2. CASE g = f
      <3>1. c # b
        BY <1>1, <1>4, <2>2
      <3>2. QED
        BY <1>2, <1>5, <2>2, <3>1 DEF Replaced
    <2>3. QED
      BY <2>1, <2>2
  <1>7. QED
    BY <1>2, <1>5, <1>6 DEF Answered, Stored, BlockAt

\* The blocks, but for what does not count, are as they were.
LEMMA SameAnswers ==
    ASSUME \A f \in Files : \A b \in DOMAIN stored'[f].blocks :
              \/ /\ b \in DOMAIN stored[f].blocks
                 /\ stored'[f].blocks[b].by = stored[f].blocks[b].by
              \/ stored'[f].blocks[b].by = 0
              \/ <<f, b>> \in CommentOnly
    PROVE  Answered' \subseteq Answered
  <1>1. SUFFICES ASSUME NEW p \in Answered' PROVE p \in Answered
    OBVIOUS
  <1>2. /\ p \in Places \ CommentOnly
        /\ p[2] \in DOMAIN stored'[p[1]].blocks
        /\ stored'[p[1]].blocks[p[2]].by # 0
    BY DEF Answered, Stored, BlockAt
  <1>3. PICK g \in Files : \E c \in 1 .. NumBlocks[g] : p = <<g, c>>
    BY <1>2 DEF Places
  <1>4. PICK c \in 1 .. NumBlocks[g] : p = <<g, c>>
    BY <1>3
  <1>5. p[1] = g /\ p[2] = c
    BY <1>4
  <1>6. c \in DOMAIN stored[g].blocks /\ stored[g].blocks[c].by # 0
    BY <1>2, <1>4, <1>5
  <1>7. QED
    BY <1>2, <1>5, <1>6 DEF Answered, Stored, BlockAt

\* Steps of a thread that neither ask, nor save, nor count.
LEMMA QuietCounts ==
    ASSUME RunInv, NEW f \in Files, thread[f].pc \in {"queued", "block", "asking"},
           thread'[f].pc \in {"block", "asking", "done"},
           \A g \in Files \ {f} : thread'[g] = thread[g],
           Answered' \subseteq Answered,
           UNCHANGED <<task, run, events, spent, lost>>
    PROVE  CountInv'
  <1>1. TypeOK /\ CountInv
    BY DEF RunInv
  <1>2. Persisted' <= Persisted
    BY FewerAnswers
  <1>3. /\ Cardinality(Unsaved') = Cardinality(Unsaved)
        /\ Cardinality(Uncounted') = Cardinality(Uncounted)
    BY MovedCounts, CountsAreNumbers
  <1>4. \A g \in Files : thread'[g].pc = "write" => thread[g].pc = "write" /\ thread'[g] = thread[g]
    OBVIOUS
  <1>5. QED
    BY <1>1, <1>2, <1>3, <1>4, CountsAreNumbers, TotalsAreNumbers DEF CountInv

\* A block changes, and not its answer.
LEMMA KeptAnswers ==
    ASSUME NEW f \in Files, NEW b \in DOMAIN stored[f].blocks, NEW block,
           Replaced(f, b, block),
           block.by = stored[f].blocks[b].by \/ <<f, b>> \in CommentOnly
    PROVE  Answered' \subseteq Answered
  BY SameAnswers DEF Replaced

LEMMA OpenFileCounts ==
    ASSUME RunInv, NEW f \in Files, OpenFile(f)
    PROVE  CountInv'
  <1>1. TypeOK /\ thread[f].pc = "queued"
    BY DEF RunInv, OpenFile
  <1>2. /\ thread'[f].pc = "block"
        /\ \A g \in Files \ {f} : thread'[g] = thread[g]
    BY <1>1 DEF TypeOK, Thread, OpenFile, NextBlock
  <1>3. \A g \in Files : stored'[g].blocks = stored[g].blocks
    BY <1>1 DEF TypeOK, FileDoc, OpenFile
  <1>4. Answered' \subseteq Answered
    BY <1>3, SameAnswers
  <1>5. QED
    BY <1>1, <1>2, <1>4, QuietCounts DEF OpenFile

LEMMA ReuseBlockCounts ==
    ASSUME RunInv, NEW f \in Files, ReuseBlock(f)
    PROVE  CountInv'
  <1> DEFINE b == thread[f].b
             block == [stored[f].blocks[b] EXCEPT !.state = 2]
  <1>1. TypeOK /\ thread[f].pc = "block"
    BY DEF RunInv, ReuseBlock, AtBlock
  <1>2. /\ thread'[f].pc = "block"
        /\ \A g \in Files \ {f} : thread'[g] = thread[g]
    BY <1>1 DEF TypeOK, Thread, ReuseBlock, NextBlock
  <1>3. /\ b \in DOMAIN stored[f].blocks /\ stored[f].blocks[b] \in Block
    BY BlockInHand DEF ReuseBlock
  <1>4. block \in Block /\ block.by = stored[f].blocks[b].by
    BY <1>3, BlockIsARecord
  <1>5. stored' = [stored EXCEPT ![f].blocks[b] = block]
    BY <1>1, <1>3 DEF TypeOK, ReuseBlock
  <1> HIDE DEF block, b
  <1>6. Replaced(f, b, block)
    BY <1>1, <1>3, <1>4, <1>5, PutBlock DEF TypeOK
  <1>7. Answered' \subseteq Answered
    BY <1>3, <1>4, <1>6, KeptAnswers
  <1>8. QED
    BY <1>1, <1>2, <1>7, QuietCounts DEF ReuseBlock

LEMMA SkipCommentsCounts ==
    ASSUME RunInv, NEW f \in Files, SkipComments(f)
    PROVE  CountInv'
  <1> DEFINE b == thread[f].b
             block == [done |-> TRUE, failed |-> FALSE, state |-> 2,
                       condition |-> run.condition, by |-> runs]
  <1>1. TypeOK /\ thread[f].pc = "block"
    BY DEF RunInv, SkipComments, AtBlock
  <1>2. /\ thread'[f].pc = "block"
        /\ \A g \in Files \ {f} : thread'[g] = thread[g]
    BY <1>1 DEF TypeOK, Thread, SkipComments, NextBlock
  <1>3. b \in DOMAIN stored[f].blocks /\ <<f, b>> \in CommentOnly
    BY BlockInHand DEF SkipComments
  <1>4. block \in Block
    BY <1>1 DEF TypeOK, Run, Block
  <1>5. stored' = [stored EXCEPT ![f].blocks[b] = block]
    BY DEF SkipComments, SetBlock
  <1> HIDE DEF block, b
  <1>6. Replaced(f, b, block)
    BY <1>1, <1>3, <1>4, <1>5, PutBlock DEF TypeOK
  <1>7. Answered' \subseteq Answered
    BY <1>3, <1>6, KeptAnswers
  <1>8. QED
    BY <1>1, <1>2, <1>7, QuietCounts DEF SkipComments

LEMMA StartBlockCounts ==
    ASSUME RunInv, NEW f \in Files, StartBlock(f)
    PROVE  CountInv'
  <1> DEFINE b == thread[f].b
             block == [stored[f].blocks[b] EXCEPT !.state = 1]
  <1>1. TypeOK /\ thread[f].pc = "block"
    BY DEF RunInv, StartBlock, AtBlock
  <1>2. /\ thread'[f].pc = "asking"
        /\ \A g \in Files \ {f} : thread'[g] = thread[g]
    BY <1>1 DEF TypeOK, Thread, StartBlock, Goto
  <1>3. /\ b \in DOMAIN stored[f].blocks /\ stored[f].blocks[b] \in Block
    BY BlockInHand DEF StartBlock
  <1>4. block \in Block /\ block.by = stored[f].blocks[b].by
    BY <1>3, BlockIsARecord
  <1>5. stored' = [stored EXCEPT ![f].blocks[b] = block]
    BY <1>1, <1>3 DEF TypeOK, StartBlock
  <1> HIDE DEF block, b
  <1>6. Replaced(f, b, block)
    BY <1>1, <1>3, <1>4, <1>5, PutBlock DEF TypeOK
  <1>7. Answered' \subseteq Answered
    BY <1>3, <1>4, <1>6, KeptAnswers
  <1>8. QED
    BY <1>1, <1>2, <1>7, QuietCounts DEF StartBlock

LEMMA CloseFileCounts ==
    ASSUME RunInv, NEW f \in Files, CloseFile(f)
    PROVE  CountInv'
  <1>1. TypeOK /\ thread[f].pc = "block"
    BY DEF RunInv, CloseFile
  <1>2. /\ thread'[f].pc = "done"
        /\ \A g \in Files \ {f} : thread'[g] = thread[g]
    BY <1>1 DEF TypeOK, Thread, CloseFile, Goto
  <1>3. \A g \in Files : stored'[g].blocks = stored[g].blocks
    BY <1>1 DEF TypeOK, FileDoc, CloseFile, Closed
  <1>4. Answered' \subseteq Answered
    BY <1>3, SameAnswers
  <1>5. QED
    BY <1>1, <1>2, <1>4, QuietCounts DEF CloseFile

LEMMA AskModelsCounts ==
    ASSUME RunInv, NEW f \in Files, AskModels(f)
    PROVE  CountInv'
  <1>1. TypeOK /\ CountInv /\ thread[f].pc = "asking" /\ run.active
    BY StartedThread DEF RunInv, AskModels
  <1>2. /\ thread'[f].pc = "result"
        /\ \A g \in Files \ {f} : thread'[g] = thread[g]
    BY AskModelsFlow
  <1>3. UNCHANGED <<stored, task, run, events, lost>> /\ spent' = spent + 1
    BY DEF AskModels
  <1>4. Persisted' = Persisted
    BY <1>3, CountsAreNumbers, PersistedIsNumber DEF Answered, Stored, BlockAt
  <1>5. /\ Cardinality(Unsaved') = Cardinality(Unsaved) + 1
        /\ Cardinality(Uncounted') = Cardinality(Uncounted) + 1
    BY <1>1, <1>2, MovedCounts, CountsAreNumbers
  <1>6. \A g \in Files : thread'[g].pc = "write" => thread[g].pc = "write" /\ thread'[g] = thread[g]
    BY <1>2
  <1>7. /\ Persisted' + Cardinality(Unsaved') + lost' <= spent'
        /\ run'.initial + run'.ran + Cardinality(Uncounted') + lost' <= spent'
        /\ events' \subseteq {"preempt", "error"} =>
              spent' = lost' + (run'.initial + run'.ran + Cardinality(Uncounted'))
    BY <1>1, <1>3, <1>4, <1>5, CountsAreNumbers, TotalsAreNumbers DEF CountInv
  <1>8. /\ task'.usage <= run'.initial + run'.ran
        /\ \A g \in Files : thread'[g].pc = "write" =>
              thread'[g].total <= run'.initial + run'.ran
    BY <1>1, <1>3, <1>6 DEF CountInv
  <1>9. QED
    BY <1>1, <1>3, <1>7, <1>8 DEF CountInv

\* What is saved is no longer in memory only; a place may have been answered before.
LEMMA SaveBlockCounts ==
    ASSUME RunInv, NEW f \in Files, SaveBlock(f)
    PROVE  CountInv'
  <1> DEFINE b == thread[f].b
             block == [done |-> thread[f].done, failed |-> thread[f].failed,
                       state |-> IF thread[f].done /\ ~thread[f].failed THEN 2 ELSE 3,
                       condition |-> run.condition, by |-> runs]
  <1>1. TypeOK /\ CountInv /\ thread[f].pc = "result" /\ InBlock(f) /\ run.active
    BY StartedThread DEF RunInv, SaveBlock, InBlock, AtWork
  <1>2. /\ thread'[f].pc = "count"
        /\ \A g \in Files \ {f} : thread'[g] = thread[g]
    BY <1>1 DEF TypeOK, Thread, SaveBlock, Goto
  <1>3. UNCHANGED <<task, run, events, spent, lost>>
    BY DEF SaveBlock
  <1>4. b \in DOMAIN stored[f].blocks
    BY <1>1, BlockInHand
  <1>5. block \in Block
    <2>1. /\ thread[f].done \in BOOLEAN /\ thread[f].failed \in BOOLEAN
      BY <1>1 DEF TypeOK, Thread
    <2>2. run.condition \in Conditions \cup {NoCondition} /\ runs \in 0 .. MaxRuns
      BY <1>1 DEF TypeOK, Run
    <2>3. QED
      BY <2>1, <2>2 DEF Block
  <1>6. stored' = [stored EXCEPT ![f].blocks[b] = block]
    BY DEF SaveBlock, SetBlock
  <1> HIDE DEF block, b
  <1>7. Replaced(f, b, block)
    BY <1>1, <1>4, <1>5, <1>6, PutBlock DEF TypeOK
  <1>8. Persisted' <= Persisted + 1
    <2>1. Answered' \subseteq Answered \cup {<<f, b>>}
      BY <1>4, <1>7, ReplacedAnswers
    <2>2. QED
      BY <2>1, OneAnswerMore
  <1>9. /\ Cardinality(Unsaved') = Cardinality(Unsaved) - 1
        /\ Cardinality(Uncounted') = Cardinality(Uncounted)
    BY <1>1, <1>2, MovedCounts, CountsAreNumbers
  <1>10. \A g \in Files : thread'[g].pc = "write" => thread[g].pc = "write" /\ thread'[g] = thread[g]
    BY <1>2
  <1>11. QED
    BY <1>1, <1>3, <1>8, <1>9, <1>10, CountsAreNumbers, TotalsAreNumbers DEF CountInv

LEMMA CountBlockCounts ==
    ASSUME RunInv, NEW f \in Files, CountBlock(f)
    PROVE  CountInv'
  <1>1. TypeOK /\ CountInv /\ thread[f].pc = "count" /\ run.active
    BY StartedThread DEF RunInv, CountBlock
  <1>2. /\ run'.initial = run.initial /\ run'.ran = run.ran + 1
        /\ thread'[f].pc = "write" /\ thread'[f].total = run.initial + run.ran + 1
        /\ \A g \in Files \ {f} : thread'[g] = thread[g]
    BY CountBlockFlow
  <1>3. UNCHANGED <<stored, task, events, spent, lost>> /\ run'.active = run.active
    BY <1>1 DEF CountBlock, TypeOK, Run
  <1>4. Persisted' = Persisted
    BY <1>3, CountsAreNumbers, PersistedIsNumber DEF Answered, Stored, BlockAt
  <1>5. /\ Cardinality(Unsaved') = Cardinality(Unsaved)
        /\ Cardinality(Uncounted') = Cardinality(Uncounted) - 1
    BY <1>1, <1>2, MovedCounts, CountsAreNumbers
  <1>6. ASSUME NEW g \in Files, thread'[g].pc = "write"
        PROVE  thread'[g].total <= run'.initial + run'.ran
    <2>1. CASE g = f
      BY <1>1, <1>2, <2>1, TotalsAreNumbers
    <2>2. CASE g # f
      BY <1>1, <1>2, <1>6, <2>2, TotalsAreNumbers DEF CountInv
    <2>3. QED
      BY <2>1, <2>2
  <1>7. QED
    BY <1>1, <1>2, <1>3, <1>4, <1>5, <1>6, CountsAreNumbers, TotalsAreNumbers DEF CountInv

\* A total that is out of date is too small, never too large.
LEMMA WriteUsageCounts ==
    ASSUME RunInv, NEW f \in Files, WriteUsage(f)
    PROVE  CountInv'
  <1>1. TypeOK /\ CountInv /\ thread[f].pc = "write" /\ run.active
    BY StartedThread DEF RunInv, WriteUsage
  <1>2. /\ task'.usage = thread[f].total /\ thread'[f].pc = "block"
        /\ \A g \in Files \ {f} : thread'[g] = thread[g]
    BY WriteUsageFlow
  <1>3. UNCHANGED <<stored, run, events, spent, lost>>
    BY DEF WriteUsage
  <1>4. Persisted' = Persisted
    BY <1>3, CountsAreNumbers, PersistedIsNumber DEF Answered, Stored, BlockAt
  <1>5. /\ Cardinality(Unsaved') = Cardinality(Unsaved)
        /\ Cardinality(Uncounted') = Cardinality(Uncounted)
    BY <1>1, <1>2, MovedCounts, CountsAreNumbers
  <1>6. \A g \in Files : thread'[g].pc = "write" => thread[g].pc = "write" /\ thread'[g] = thread[g]
    BY <1>2
  <1>7. QED
    BY <1>1, <1>2, <1>3, <1>4, <1>5, <1>6, CountsAreNumbers, TotalsAreNumbers DEF CountInv

\* A thread that ends before its time: what it has in memory is lost.
LEMMA DroppedCounts ==
    ASSUME RunInv, NEW f \in Files,
           thread[f].pc \in {"queued", "block", "asking", "result", "write"},
           thread'[f].pc \in {"raised", "broken"},
           \A g \in Files \ {f} : thread'[g] = thread[g],
           UNCHANGED <<stored, task, run>>,
           events' = events \/ events' = events \cup {"error"},
           spent' = IF thread[f].pc = "asking" THEN spent + 1 ELSE spent,
           lost' = IF thread[f].pc \in {"asking", "result"} THEN lost + 1 ELSE lost
    PROVE  CountInv'
  <1>1. TypeOK /\ CountInv /\ run.active
    BY StartedThread DEF RunInv
  <1>2. events' \subseteq {"preempt", "error"} => events \subseteq {"preempt", "error"}
    OBVIOUS
  <1>3. UNCHANGED <<stored, task, run>>
    OBVIOUS
  <1>4. Persisted' = Persisted
    BY <1>3, CountsAreNumbers, PersistedIsNumber DEF Answered, Stored, BlockAt
  <1>5. \A g \in Files : thread'[g].pc = "write" => thread[g].pc = "write" /\ thread'[g] = thread[g]
    OBVIOUS
  <1>6. /\ spent' = IF thread[f].pc = "asking" THEN spent + 1 ELSE spent
        /\ lost' = IF thread[f].pc \in {"asking", "result"} THEN lost + 1 ELSE lost
    OBVIOUS
  <1>7. CASE thread[f].pc = "result"
    <2>1. /\ Cardinality(Unsaved') = Cardinality(Unsaved) - 1
          /\ Cardinality(Uncounted') = Cardinality(Uncounted) - 1
      BY <1>7, MovedCounts, CountsAreNumbers
    <2>2. spent' = spent /\ lost' = lost + 1
      BY <1>6, <1>7
    <2>3. QED
      BY <1>1, <1>2, <1>3, <1>4, <1>5, <2>1, <2>2, CountsAreNumbers, TotalsAreNumbers DEF CountInv
  <1>8. CASE thread[f].pc # "result"
    <2>1. /\ Cardinality(Unsaved') = Cardinality(Unsaved)
          /\ Cardinality(Uncounted') = Cardinality(Uncounted)
      BY <1>8, MovedCounts, CountsAreNumbers
    <2>2. \/ spent' = spent /\ lost' = lost
          \/ spent' = spent + 1 /\ lost' = lost + 1
      BY <1>6, <1>8
    <2>3. QED
      BY <1>1, <1>2, <1>3, <1>4, <1>5, <2>1, <2>2, CountsAreNumbers, TotalsAreNumbers DEF CountInv
  <1>9. QED
    BY <1>7, <1>8

LEMMA RaiseCounts ==
    ASSUME RunInv, NEW f \in Files, Raise(f)
    PROVE  CountInv'
  <1>1. thread'[f].pc = "raised" /\ \A g \in Files \ {f} : thread'[g] = thread[g]
    BY RaiseFlow
  <1>2. QED
    BY <1>1, DroppedCounts DEF Raise

LEMMA BreakCounts ==
    ASSUME RunInv, NEW f \in Files, Break(f)
    PROVE  CountInv'
  <1>1. thread'[f].pc = "broken" /\ \A g \in Files \ {f} : thread'[g] = thread[g]
    BY BreakFlow
  <1>2. QED
    BY <1>1, DroppedCounts DEF Break, MayStop

LEMMA SynchronizedAnswers ==
    ASSUME stored \in [Files -> FileDoc], NEW f \in Files,
           NEW b \in DOMAIN Synchronized(f).blocks
    PROVE  \/ /\ b \in DOMAIN stored[f].blocks
              /\ Synchronized(f).blocks[b].by = stored[f].blocks[b].by
           \/ Synchronized(f).blocks[b].by = 0
  <1> DEFINE s == IF Good(stored[f].blocks[b]) THEN 2 ELSE 0
  <1>1. /\ b \in 1 .. NumBlocks[f]
        /\ IF b \in DOMAIN stored[f].blocks
           THEN Synchronized(f).blocks[b] = [stored[f].blocks[b] EXCEPT !.state = s]
           ELSE Synchronized(f).blocks[b] = NewBlock
    BY SynchronizedDocument
  <1>2. CASE b \in DOMAIN stored[f].blocks
    <2>1. stored[f].blocks[b] \in Block
      <3>1. stored[f].blocks \in Seq(Block)
        BY DEF FileDoc
      <3>2. QED
        BY <1>2, <3>1, ElementOfSeq
    <2>2. s \in 0 .. 3
      OBVIOUS
    <2>3. Synchronized(f).blocks[b] = [stored[f].blocks[b] EXCEPT !.state = s]
      BY <1>1, <1>2
    <2> HIDE DEF s
    <2>4. Synchronized(f).blocks[b].by = stored[f].blocks[b].by
      BY <2>1, <2>2, <2>3, BlockIsARecord
    <2>5. QED
      BY <1>2, <2>4
  <1>3. CASE b \notin DOMAIN stored[f].blocks
    BY <1>1, <1>3 DEF NewBlock
  <1>4. QED
    BY <1>2, <1>3

LEMMA BeginBlocks ==
    ASSUME RunInv, NEW condition \in Conditions, Begin(condition), NEW f \in Files
    PROVE  \/ stored'[f].blocks = stored[f].blocks
           \/ stored'[f].blocks = Synchronized(f).blocks
           \/ stored'[f].blocks = <<>>
  BY BeginSorts DEF Sorted

\* Between runs, and at their ends, no thread has anything in memory.
LEMMA SubmitCounts ==
    ASSUME RunInv, Submit
    PROVE  CountInv'
  <1>1. TypeOK /\ CountInv /\ ~run.active
    BY DEF RunInv, Submit
  <1>2. UNCHANGED <<run, thread, events, spent, lost>> /\ task'.usage = task.usage
    BY <1>1 DEF Submit, TypeOK, Task
  <1>3. Answered' \subseteq Answered
    <2>1. ASSUME NEW f \in Files, NEW b \in DOMAIN stored'[f].blocks
          PROVE  \/ /\ b \in DOMAIN stored[f].blocks
                    /\ stored'[f].blocks[b].by = stored[f].blocks[b].by
                 \/ stored'[f].blocks[b].by = 0
      <3>1. stored'[f] = Synchronized(f) /\ stored \in [Files -> FileDoc]
        BY <1>1 DEF Submit, TypeOK
      <3>2. QED
        BY <2>1, <3>1, SynchronizedAnswers
    <2>2. QED
      BY <2>1, SameAnswers
  <1>4. Persisted' <= Persisted
    BY <1>3, FewerAnswers
  <1>5. Unsaved' = Unsaved /\ Uncounted' = Uncounted
    BY <1>2 DEF Unsaved, Uncounted
  <1>6. QED
    BY <1>1, <1>2, <1>4, <1>5, CountsAreNumbers, TotalsAreNumbers DEF CountInv

LEMMA AskRetryCounts ==
    ASSUME RunInv, AskRetry
    PROVE  CountInv'
  <1>1. TypeOK /\ CountInv /\ ~run.active
    BY DEF RunInv, AskRetry
  <1>2. UNCHANGED <<stored, run, thread, events, spent, lost>> /\ task'.usage = task.usage
    BY <1>1 DEF AskRetry, TypeOK, Task
  <1>3. Persisted' = Persisted
    BY <1>2, CountsAreNumbers, PersistedIsNumber DEF Answered, Stored, BlockAt
  <1>4. Unsaved' = Unsaved /\ Uncounted' = Uncounted
    BY <1>2 DEF Unsaved, Uncounted
  <1>5. QED
    BY <1>1, <1>2, <1>3, <1>4, CountsAreNumbers, TotalsAreNumbers DEF CountInv

\* The larger of two numbers, each of which counts no review twice.
LEMMA BeginCounts ==
    ASSUME RunInv, NEW condition \in Conditions, Begin(condition)
    PROVE  CountInv'
  <1>1. TypeOK /\ CountInv /\ ~run.active
    BY DEF RunInv, Begin
  <1>2. /\ run'.active /\ run'.ran = 0
        /\ run'.initial = Max({task.usage, Persisted}) /\ task'.usage = task.usage
    BY BeginFlow
  <1>3. UNCHANGED <<events, spent, lost>>
    BY DEF Begin
  <1>4. Answered' \subseteq Answered
    <2>1. ASSUME NEW f \in Files, NEW b \in DOMAIN stored'[f].blocks
          PROVE  \/ /\ b \in DOMAIN stored[f].blocks
                    /\ stored'[f].blocks[b].by = stored[f].blocks[b].by
                 \/ stored'[f].blocks[b].by = 0
      <3>1. \/ stored'[f].blocks = stored[f].blocks
            \/ stored'[f].blocks = Synchronized(f).blocks
            \/ stored'[f].blocks = <<>>
        BY BeginBlocks
      <3>2. stored \in [Files -> FileDoc]
        BY <1>1 DEF TypeOK
      <3>3. QED
        BY <2>1, <3>1, <3>2, SynchronizedAnswers
    <2>2. QED
      BY <2>1, SameAnswers
  <1>5. Persisted' <= Persisted
    BY <1>4, FewerAnswers
  <1>6. \A f \in Files : thread'[f].pc \in {"off", "queued"}
    BY DEF Begin, Idle, Queued
  <1>7. Cardinality(Unsaved') = 0 /\ Cardinality(Uncounted') = 0
    <2>1. Unsaved' = {} /\ Uncounted' = {}
      BY <1>6 DEF Unsaved, Uncounted
    <2>2. QED
      BY <2>1, FS_EmptySet
  <1>8. run'.initial = IF task.usage >= Persisted THEN task.usage ELSE Persisted
    BY <1>1, <1>2, GreaterOfTwo, CountsAreNumbers, TotalsAreNumbers
  <1>9. Persisted + lost <= spent /\ task.usage + lost <= spent
        /\ (events \subseteq {"preempt"} => spent = lost + task.usage)
    BY <1>1, CountsAreNumbers, TotalsAreNumbers DEF CountInv
  <1>10. QED
    BY <1>1, <1>2, <1>3, <1>5, <1>6, <1>7, <1>8, <1>9, CountsAreNumbers, TotalsAreNumbers
    DEF CountInv

\* When all threads have ended, all that is saved has been counted.
LEMMA JoinedCounts ==
    ASSUME RunInv, Joined
    PROVE  Cardinality(Unsaved) = 0 /\ Cardinality(Uncounted) = 0
  <1>1. Unsaved = {} /\ Uncounted = {}
    BY DEF Joined, Unsaved, Uncounted
  <1>2. QED
    BY <1>1, FS_EmptySet

LEMMA FinishCounts ==
    ASSUME RunInv, Finish
    PROVE  CountInv'
  <1>1. TypeOK /\ CountInv /\ run.active
    BY DEF RunInv, Finish, Joined
  <1>2. task'.usage = run.initial + run.ran
    BY FinishFlow
  <1>3. /\ ~run'.active /\ \A f \in Files : thread'[f].pc = "off"
        /\ UNCHANGED <<stored, events, spent, lost>>
    BY <1>1, OverLeavesNothing DEF Finish
  <1>4. Persisted' = Persisted
    BY <1>3, CountsAreNumbers, PersistedIsNumber DEF Answered, Stored, BlockAt
  <1>5. /\ Cardinality(Unsaved') = 0 /\ Cardinality(Uncounted') = 0
        /\ Cardinality(Unsaved) = 0 /\ Cardinality(Uncounted) = 0
    BY <1>3, NothingInMemory, JoinedCounts DEF Finish
  <1>6. QED
    BY <1>1, <1>2, <1>3, <1>4, <1>5, CountsAreNumbers, TotalsAreNumbers DEF CountInv

LEMMA FailedTaskCounts ==
    ASSUME RunInv, FailedTask, events' = events \/ events' = events \cup {"error"}
    PROVE  CountInv'
  <1>1. TypeOK /\ CountInv /\ run.active
    BY DEF RunInv, FailedTask
  <1>2. task'.usage = run.initial + run.ran
    BY FailedTaskFlow
  <1>3. /\ ~run'.active /\ \A f \in Files : thread'[f].pc = "off"
        /\ UNCHANGED <<stored, spent, lost>>
    BY <1>1, OverLeavesNothing DEF FailedTask
  <1>4. Persisted' = Persisted
    BY <1>3, CountsAreNumbers, PersistedIsNumber DEF Answered, Stored, BlockAt
  <1>5. Cardinality(Unsaved) = 0 /\ Cardinality(Uncounted) = 0
    <2>1. Unsaved = {} /\ Uncounted = {}
      BY DEF FailedTask, AtWork, Unsaved, Uncounted
    <2>2. QED
      BY <2>1, FS_EmptySet
  <1>6. Cardinality(Unsaved') = 0 /\ Cardinality(Uncounted') = 0
    BY <1>3, NothingInMemory
  <1>7. events' \subseteq {"preempt", "error"} => events \subseteq {"preempt", "error"}
    OBVIOUS
  <1>8. QED
    BY <1>1, <1>2, <1>3, <1>4, <1>5, <1>6, <1>7, CountsAreNumbers, TotalsAreNumbers
    DEF CountInv

LEMMA MarkInterruptedCounts ==
    ASSUME RunInv, MarkInterrupted
    PROVE  CountInv'
  <1>1. TypeOK /\ CountInv /\ run.active /\ (run.superseded => "supersede" \in events)
    BY DEF RunInv, StateInv, MarkInterrupted, Joined
  <1>2. /\ task'.usage = IF run.superseded THEN task.usage ELSE run.initial + run.ran
        /\ \A f \in Files : stored'[f].blocks = stored[f].blocks
    BY MarkInterruptedFlow
  <1>3. /\ ~run'.active /\ \A f \in Files : thread'[f].pc = "off"
        /\ UNCHANGED <<events, spent, lost>>
    BY <1>1, OverLeavesNothing DEF MarkInterrupted
  <1>4. Persisted' <= Persisted
    BY <1>2, SameAnswers, FewerAnswers
  <1>5. /\ Cardinality(Unsaved') = 0 /\ Cardinality(Uncounted') = 0
        /\ Cardinality(Unsaved) = 0 /\ Cardinality(Uncounted) = 0
    BY <1>3, NothingInMemory, JoinedCounts DEF MarkInterrupted
  <1>6. CASE run.superseded
    BY <1>1, <1>2, <1>3, <1>4, <1>5, <1>6, CountsAreNumbers, TotalsAreNumbers DEF CountInv
  <1>7. CASE ~run.superseded
    BY <1>1, <1>2, <1>3, <1>4, <1>5, <1>7, CountsAreNumbers, TotalsAreNumbers DEF CountInv
  <1>8. QED
    BY <1>6, <1>7

LEMMA CrashCounts ==
    ASSUME RunInv, Crash
    PROVE  CountInv'
  <1>1. TypeOK /\ CountInv /\ run.active
    BY DEF RunInv, Crash, MayStop
  <1>2. /\ ~run'.active /\ \A f \in Files : thread'[f].pc = "off"
        /\ UNCHANGED <<stored, task, spent, lost>> /\ "crash" \in events'
    BY <1>1, OverLeavesNothing DEF Crash, MayStop
  <1>3. Persisted' = Persisted
    BY <1>2, CountsAreNumbers, PersistedIsNumber DEF Answered, Stored, BlockAt
  <1>4. Cardinality(Unsaved') = 0 /\ Cardinality(Uncounted') = 0
    BY <1>2, NothingInMemory
  <1>5. QED
    BY <1>1, <1>2, <1>3, <1>4, CountsAreNumbers, TotalsAreNumbers DEF CountInv

LEMMA StoppedCounts ==
    ASSUME RunInv, run.active, Stopped, UNCHANGED <<stored, thread, spent, lost>>,
           task'.usage = task.usage, NEW how, events' = events \cup {how}
    PROVE  CountInv'
  <1>1. TypeOK /\ CountInv
    BY DEF RunInv
  <1>2. Persisted' = Persisted
    BY CountsAreNumbers, PersistedIsNumber DEF Answered, Stored, BlockAt
  <1>3. Unsaved' = Unsaved /\ Uncounted' = Uncounted
    BY DEF Unsaved, Uncounted
  <1>4. events' \subseteq {"preempt", "error"} => events \subseteq {"preempt", "error"}
    OBVIOUS
  <1>5. QED
    BY <1>1, <1>2, <1>3, <1>4, CountsAreNumbers, TotalsAreNumbers DEF CountInv, Stopped

LEMMA NextCounts ==
    ASSUME RunInv, Next
    PROVE  CountInv'
  <1>1. CASE Submit
    BY <1>1, SubmitCounts
  <1>2. CASE AskRetry
    BY <1>2, AskRetryCounts
  <1>3. ASSUME NEW condition \in Conditions, Begin(condition) PROVE CountInv'
    BY <1>3, BeginCounts
  <1>4. ASSUME NEW f \in Files, ThreadStep(f) PROVE CountInv'
    BY <1>4, OpenFileCounts, ReuseBlockCounts, SkipCommentsCounts, StartBlockCounts,
       AskModelsCounts, SaveBlockCounts, CountBlockCounts, WriteUsageCounts,
       CloseFileCounts, RaiseCounts
    DEF ThreadStep
  <1>5. CASE Finish
    BY <1>5, FinishCounts
  <1>6. CASE MarkInterrupted
    BY <1>6, MarkInterruptedCounts
  <1>7. CASE Preempt
    <2>1. run.active /\ Stopped
      BY <1>7, PreemptFlow DEF Preempt, MayStop
    <2>2. /\ UNCHANGED <<stored, thread, spent, lost>> /\ task'.usage = task.usage
          /\ events' = events \cup {"preempt"}
      BY <1>7 DEF Preempt, MayStop
    <2>3. QED
      BY <2>1, <2>2, StoppedCounts
  <1>8. CASE Supersede
    <2>1. run.active /\ Stopped /\ task'.usage = task.usage
      BY <1>8, SupersedeFlow DEF Supersede, MayStop
    <2>2. /\ UNCHANGED <<stored, thread, spent, lost>>
          /\ events' = events \cup {"supersede"}
      BY <1>8 DEF Supersede, MayStop
    <2>3. QED
      BY <2>1, <2>2, StoppedCounts
  <1>9. CASE Crash
    BY <1>9, CrashCounts
  <1>10. ASSUME NEW f \in Files, Break(f) PROVE CountInv'
    BY <1>10, BreakCounts
  <1>11. CASE Fail \/ FailItself
    BY <1>11, FailedTaskCounts DEF Fail, FailItself, MayStop
  <1>12. QED
    BY <1>1, <1>2, <1>3, <1>4, <1>5, <1>6, <1>7, <1>8, <1>9, <1>10, <1>11
    DEF Next, RunStep

-----------------------------------------------------------------------------
(* The invariant                                                           *)

LEMMA NextRunInv ==
    ASSUME RunInv, [Next]_vars
    PROVE  RunInv'
  <1>1. CASE Next
    <2>1. FlowInv' /\ CountInv'
      BY <1>1, NextFlow, NextCounts
    <2>2. QED
      BY <2>1 DEF RunInv, FlowInv, DocumentsInv
  <1>2. CASE UNCHANGED vars
    <2>1. UNCHANGED <<stored, task, run, thread, runs, events, spent, lost>>
      BY <1>2 DEF vars
    <2>2. TypeOK' /\ DocumentInv' /\ RetryInv' /\ StateInv' /\ CompletedIsReviewed'
      BY <2>1 DEF RunInv, TypeOK, DocumentInv, RetryInv, StateInv, CompletedIsReviewed
    <2>3. ThreadInv'
      BY <2>1 DEF RunInv, ThreadInv, ThreadFits, AtWork, InBlock, KeepsResult, HasFailure
    <2>4. Persisted' = Persisted /\ Unsaved' = Unsaved /\ Uncounted' = Uncounted
      BY <2>1 DEF Persisted, Stored, BlockAt, Unsaved, Uncounted
    <2>5. CountInv'
      BY <2>1, <2>4 DEF RunInv, CountInv
    <2>6. QED
      BY <2>2, <2>3, <2>5 DEF RunInv
  <1>3. QED
    BY <1>1, <1>2

LEMMA InitRunInv ==
    ASSUME Init
    PROVE  RunInv
  <1> DEFINE new(f) == [b \in 1 .. NumBlocks[f] |-> NewBlock]
  <1>1. /\ run = NoRun /\ runs = 0 /\ events = {} /\ spent = 0 /\ lost = 0
        /\ task = [status |-> "pending", retry |-> FALSE, usage |-> 0]
        /\ thread = [f \in Files |-> Idle]
    BY DEF Init
  <1>2. NewBlock \in Block /\ ~Good(NewBlock)
    BY FilesAreNumbers DEF NewBlock, Block, Good
  <1>3. ASSUME NEW f \in Files
        PROVE  /\ stored[f] \in FileDoc
               /\ Faithful(stored[f], NumBlocks[f])
               /\ \A b \in DOMAIN stored[f].blocks : stored[f].blocks[b].by = 0
    <2>1. stored[f] = [state |-> 0, status |-> "pending", condition |-> NoCondition,
                       blocks |-> new(f)]
      BY DEF Init
    <2>2. /\ new(f) \in [1 .. NumBlocks[f] -> Block]
          /\ \A b \in 1 .. NumBlocks[f] : new(f)[b] = NewBlock
      BY <1>2
    <2> HIDE DEF new
    <2>3. new(f) \in Seq(Block) /\ DOMAIN new(f) = 1 .. NumBlocks[f]
      BY <2>2, FilesAreNumbers, FunctionsAreSequences
    <2>4. stored[f] \in FileDoc
      BY <2>1, <2>3 DEF FileDoc, Statuses
    <2>5. /\ stored[f].blocks = new(f) /\ stored[f].state = 0
          /\ stored[f].status = "pending"
      BY <2>1
    <2>6. Faithful(stored[f], NumBlocks[f])
      BY <2>2, <2>3, <2>5 DEF Faithful, NewBlock
    <2>7. \A b \in DOMAIN stored[f].blocks : stored[f].blocks[b].by = 0
      BY <2>2, <2>3, <2>5 DEF NewBlock
    <2>8. QED
      BY <2>4, <2>6, <2>7
  <1>4. stored \in [Files -> FileDoc]
    <2>1. stored = [f \in Files |-> stored[f]]
      BY DEF Init
    <2>2. QED
      BY <1>3, <2>1
  <1> HIDE DEF new
  <1>5. /\ Idle \in Thread /\ Idle.pc = "off" /\ NoRun \in Run
        /\ ~NoRun.active /\ ~NoRun.retry /\ ~NoRun.superseded
    BY DEF Idle, Thread, NoRun, Run
  <1>6. task \in Task /\ task.status = "pending" /\ ~task.retry /\ task.usage = 0
    BY <1>1 DEF Task
  <1>7. \A f \in Files : thread[f].pc = "off"
    BY <1>1, <1>5
  <1>8. TypeOK
    <2>1. thread \in [Files -> Thread]
      BY <1>1, <1>5
    <2>2. runs \in 0 .. MaxRuns
      BY <1>1, FilesAreNumbers
    <2>3. QED
      BY <1>1, <1>4, <1>5, <1>6, <2>1, <2>2 DEF TypeOK
  <1>9. DocumentInv /\ RetryInv /\ StateInv /\ CompletedIsReviewed
    BY <1>1, <1>3, <1>5, <1>6 DEF DocumentInv, RetryInv, StateInv, CompletedIsReviewed
  <1>10. ThreadInv
    BY <1>1, <1>5, <1>7 DEF ThreadInv, ThreadFits, AtWork, InBlock
  <1>11. Persisted = 0
    <2>1. Answered = {}
      <3>1. SUFFICES ASSUME NEW p \in Answered PROVE FALSE
        OBVIOUS
      <3>2. p \in Places /\ p[2] \in DOMAIN stored[p[1]].blocks /\ BlockAt(p).by # 0
        BY <3>1 DEF Answered, Stored
      <3>3. p[1] \in Files
        BY <3>2 DEF Places
      <3>4. QED
        BY <1>3, <3>2, <3>3 DEF BlockAt
    <2>2. QED
      BY <2>1, PersistedIsNumber, FS_EmptySet
  <1>12. Cardinality(Unsaved) = 0 /\ Cardinality(Uncounted) = 0
    <2>1. Unsaved = {} /\ Uncounted = {}
      BY <1>7 DEF Unsaved, Uncounted
    <2>2. QED
      BY <2>1, FS_EmptySet
  <1>13. CountInv
    BY <1>1, <1>5, <1>6, <1>11, <1>12 DEF CountInv
  <1>14. QED
    BY <1>8, <1>9, <1>10, <1>13 DEF RunInv

\* The invariant of the runs of a task: documents say of themselves what follows from
\* their blocks, threads hold what they may replace, and every review that was asked
\* for is counted once by what is stored, by the totals of a run and by the task.
THEOREM RunInvariant == Spec => []RunInv
  <1>1. Init => RunInv
    BY InitRunInv
  <1>2. RunInv /\ [Next]_vars => RunInv'
    BY NextRunInv
  <1>3. QED
    BY <1>1, <1>2, PTL DEF Spec

-----------------------------------------------------------------------------
(* The properties                                                          *)

\* A task that is completed has a result without failure for every block, whatever
\* runs it took: _finish_task looks at statuses only, and these are true.
THEOREM CompletedIsReviewedHolds == Spec => []CompletedIsReviewed
  <1>1. RunInv => CompletedIsReviewed
    BY DEF RunInv
  <1>2. QED
    BY <1>1, RunInvariant, PTL

\* A file that says "reviewed" or "resumed" has good blocks only, at every moment,
\* also while a later run reviews it again.
THEOREM StatusIsHonestHolds == Spec => []StatusIsHonest
  <1>1. RunInv => StatusIsHonest
    BY DEF RunInv, DocumentInv, Faithful, StatusIsHonest
  <1>2. QED
    BY <1>1, RunInvariant, PTL

\* The total of the task never counts a review twice, whatever crashes, and whatever
\* the order in which threads write the totals they have read.
THEOREM NothingIsCountedTwiceHolds == Spec => []NothingIsCountedTwice
  <1>1. ASSUME RunInv PROVE NothingIsCountedTwice
    <2>1. TypeOK /\ CountInv
      BY <1>1 DEF RunInv
    <2>2. QED
      BY <2>1, CountsAreNumbers, TotalsAreNumbers DEF CountInv, NothingIsCountedTwice
  <1>2. QED
    BY <1>1, RunInvariant, PTL

\* Between runs the total is complete, but for results that a thread has dropped when
\* it was interrupted or broke, unless a crash or a newer trigger kept a run from its last write.
THEOREM NothingIsLeftOutHolds == Spec => []NothingIsLeftOut
  <1>1. ASSUME RunInv PROVE NothingIsLeftOut
    <2>1. TypeOK /\ CountInv
      BY <1>1 DEF RunInv
    <2>2. QED
      BY <2>1, TotalsAreNumbers DEF CountInv, NothingIsLeftOut
  <1>2. QED
    BY <1>1, RunInvariant, PTL

\* What the report counts is there or not.
LEMMA CountIsNumber ==
    ASSUME NEW status
    PROVE  /\ Count(status) \in Nat
           /\ Count(status) = 0 <=>
                 ~ \E p \in Places : Stored(p) /\ Shown(stored[p[1]], BlockAt(p)) = status
  <1> DEFINE S == {p \in Places : Stored(p) /\ Shown(stored[p[1]], BlockAt(p)) = status}
  <1>1. IsFiniteSet(S) /\ Cardinality(S) \in Nat
    <2>1. S \subseteq Places
      OBVIOUS
    <2> HIDE DEF S
    <2>2. QED
      BY <2>1, PlacesAreFinite
  <1>2. Cardinality(S) = 0 <=> S = {}
    <2> HIDE DEF S
    <2>1. QED
      BY <1>1, FS_EmptySet
  <1>3. Count(status) = Cardinality(S)
    BY DEF Count
  <1>4. QED
    BY <1>1, <1>2, <1>3

LEMMA StoredPlaces ==
    ASSUME DocumentInv
    PROVE  /\ \A f \in Files : \A b \in DOMAIN stored[f].blocks :
                 /\ <<f, b>> \in Places /\ Stored(<<f, b>>)
                 /\ BlockAt(<<f, b>>) = stored[f].blocks[b]
           /\ \A p \in Places : Stored(p) =>
                 /\ p[1] \in Files /\ p[2] \in DOMAIN stored[p[1]].blocks
                 /\ BlockAt(p) = stored[p[1]].blocks[p[2]]
  <1>1. ASSUME NEW f \in Files, NEW b \in DOMAIN stored[f].blocks
        PROVE  <<f, b>> \in Places
    <2>1. Faithful(stored[f], NumBlocks[f])
      BY DEF DocumentInv
    <2>2. DOMAIN stored[f].blocks = 1 .. NumBlocks[f]
      <3>1. stored[f].blocks # <<>>
        BY <1>1
      <3>2. QED
        BY <2>1, <3>1 DEF Faithful
    <2>3. QED
      BY <2>2 DEF Places
  <1>2. ASSUME NEW p \in Places PROVE p[1] \in Files
    BY <1>2 DEF Places
  <1>3. QED
    BY <1>1, <1>2 DEF Stored, BlockAt

\* What the report shows of a block, by what its document says.
LEMMA ShownAs ==
    ASSUME NEW doc, NEW block
    PROVE  /\ Shown(doc, block) = "failed" <=> Failing(block)
           /\ Shown(doc, block) \in {"pending", "reviewing"} <=>
                 ~(\/ Failing(block) \/ block.done \/ block.state = 2 \/ doc.state = 2
                   \/ doc.status \in {"reviewed", "resumed"})
  <1>1. CASE Failing(block)
    <2>1. Shown(doc, block) = "failed"
      BY <1>1 DEF Shown
    <2>2. QED
      BY <1>1, <2>1
  <1>2. CASE /\ ~Failing(block)
             /\ \/ block.done \/ block.state = 2 \/ doc.state = 2
                \/ doc.status \in {"reviewed", "resumed"}
    <2>1. Shown(doc, block) = "completed"
      BY <1>2 DEF Shown
    <2>2. QED
      BY <1>2, <2>1
  <1>3. CASE ~(\/ Failing(block) \/ block.done \/ block.state = 2 \/ doc.state = 2
               \/ doc.status \in {"reviewed", "resumed"})
    <2>1. Shown(doc, block) = IF block.state = 1 THEN "reviewing" ELSE "pending"
      BY <1>3 DEF Shown
    <2>2. QED
      BY <1>3, <2>1
  <1>4. QED
    BY <1>1, <1>2, <1>3

\* Where nothing is open, what is not shown as failed is shown as completed.
LEMMA CompletedOrFailed ==
    ASSUME Count("pending") = 0, Count("reviewing") = 0
    PROVE  /\ NumFailing \in Nat /\ Count("completed") \in Nat
           /\ NumStored = Count("completed") + NumFailing
  <1> DEFINE S == {p \in Places : Stored(p)}
             F == {p \in Places : Stored(p) /\ Failing(BlockAt(p))}
             C == {p \in Places :
                     Stored(p) /\ Shown(stored[p[1]], BlockAt(p)) = "completed"}
  <1>1. S = C \cup F /\ C \cap F = {}
    <2>1. \A p \in S : Shown(stored[p[1]], BlockAt(p)) \notin {"pending", "reviewing"}
      BY CountIsNumber
    <2>2. \A p \in S : Shown(stored[p[1]], BlockAt(p)) \in
                         {"completed", "failed", "pending", "reviewing"}
      BY DEF Shown
    <2>3. \A p \in S : Shown(stored[p[1]], BlockAt(p)) = "failed" <=> Failing(BlockAt(p))
      BY ShownAs
    <2>4. QED
      BY <2>1, <2>2, <2>3
  <1>2. S \subseteq Places /\ F \subseteq Places /\ C \subseteq Places
    OBVIOUS
  <1>3. NumStored = Cardinality(S) /\ NumFailing = Cardinality(F)
        /\ Count("completed") = Cardinality(C)
    BY DEF NumStored, NumFailing, Count
  <1> HIDE DEF S, F, C
  <1>4. IsFiniteSet(C) /\ Cardinality(C) \in Nat /\ IsFiniteSet(F) /\ Cardinality(F) \in Nat
    BY <1>2, PlacesAreFinite
  <1>5. Cardinality(C \cup F) = Cardinality(C) + Cardinality(F) - Cardinality(C \cap F)
    BY <1>4, FS_Union
  <1>6. Cardinality(C \cap F) = 0
    BY <1>1, FS_EmptySet
  <1>7. QED
    BY <1>1, <1>3, <1>4, <1>5, <1>6

LEMMA RoundedBelow ==
    ASSUME NEW s \in Nat, NEW c \in Nat, NEW f \in Nat
    PROVE  2 * s * c < (2 * s - 1) * (c + f) <=> c + f < 2 * s * f
  <1>1. PICK sc \in Int : sc = s * c
    OBVIOUS
  <1>2. PICK sf \in Int : sf = s * f
    OBVIOUS
  <1>3. 2 * s * c = 2 * sc /\ 2 * s * f = 2 * sf
    BY <1>1, <1>2
  <1>4. (2 * s - 1) * (c + f) = 2 * sc + 2 * sf - c - f
    BY <1>1, <1>2
  <1>5. QED
    BY <1>3, <1>4

\* The percentage is below 100 unless so few blocks failed.
LEMMA BelowWholeByFailures ==
    ASSUME Count("pending") = 0, Count("reviewing") = 0
    PROVE  BelowWhole <=> NumStored < 2 * Scale * NumFailing
  <1>1. /\ NumFailing \in Nat /\ Count("completed") \in Nat
        /\ NumStored = Count("completed") + NumFailing
    BY CompletedOrFailed
  <1>2. Scale \in Nat
    BY RunAssumption
  <1>3. PICK c \in Nat : c = Count("completed")
    BY <1>1
  <1>4. PICK f \in Nat : f = NumFailing
    BY <1>1
  <1>5. 2 * Scale * c < (2 * Scale - 1) * (c + f) <=> c + f < 2 * Scale * f
    BY <1>2, RoundedBelow
  <1>6. QED
    BY <1>1, <1>3, <1>4, <1>5 DEF BelowWhole

\* The report offers a retry just when request_failed_retry would accept it, although
\* the one counts what it shows and the other looks at the documents, but for a task of
\* which so few blocks failed that its rounded progress is complete.
THEOREM RetryButtonWorksHolds == Spec => []RetryButtonWorks
  <1>1. ASSUME RunInv PROVE RetryButtonWorks
    <2>1. /\ DocumentInv /\ \A f \in Files : Faithful(stored[f], NumBlocks[f])
      BY <1>1 DEF RunInv, DocumentInv
    <2> DEFINE Failed == \E f \in Files : \E b \in DOMAIN stored[f].blocks :
                            Failing(stored[f].blocks[b])
               Open(f, b) == ~(\/ Failing(stored[f].blocks[b]) \/ stored[f].blocks[b].done
                               \/ stored[f].blocks[b].state = 2 \/ stored[f].state = 2
                               \/ stored[f].status \in {"reviewed", "resumed"})
               AnyOpen == \E f \in Files : \E b \in DOMAIN stored[f].blocks : Open(f, b)
    <2>2. Count("failed") > 0 <=> Failed
      <3>1. (\E p \in Places : Stored(p) /\ Shown(stored[p[1]], BlockAt(p)) = "failed")
               <=> \E p \in Places : Stored(p) /\ Failing(BlockAt(p))
        BY ShownAs
      <3>2. (\E p \in Places : Stored(p) /\ Failing(BlockAt(p))) <=> Failed
        BY <2>1, StoredPlaces
      <3>3. QED
        BY <3>1, <3>2, CountIsNumber
    <2>3. Count("pending") = 0 /\ Count("reviewing") = 0 <=> ~AnyOpen
      <3>1. Count("pending") = 0 /\ Count("reviewing") = 0 <=>
              ~ \E p \in Places : /\ Stored(p)
                                  /\ Shown(stored[p[1]], BlockAt(p)) \in {"pending", "reviewing"}
        BY CountIsNumber
      <3>2. \A p \in Places : Stored(p) =>
              (Shown(stored[p[1]], BlockAt(p)) \in {"pending", "reviewing"}
                 <=> Open(p[1], p[2]))
        BY <2>1, StoredPlaces, ShownAs
      <3> HIDE DEF Open
      <3>3. (\E p \in Places : Stored(p) /\ Open(p[1], p[2])) <=> AnyOpen
        <4>1. ASSUME NEW f \in Files, NEW b \in DOMAIN stored[f].blocks, Open(f, b)
              PROVE  \E p \in Places : Stored(p) /\ Open(p[1], p[2])
          <5>1. <<f, b>> \in Places /\ Stored(<<f, b>>)
            BY <2>1, StoredPlaces
          <5>2. Open(<<f, b>>[1], <<f, b>>[2])
            BY <4>1
          <5>3. QED
            BY <5>1, <5>2
        <4>2. ASSUME NEW p \in Places, Stored(p), Open(p[1], p[2]) PROVE AnyOpen
          BY <2>1, <4>2, StoredPlaces
        <4>3. QED
          BY <4>1, <4>2
      <3>4. QED
        BY <3>1, <3>2, <3>3
    <2>4. Failed <=> \E f \in Files : stored[f].status # "skipped" /\ HasFailure(stored[f])
      BY <2>1 DEF Faithful, HasFailure
    <2>5. ~AnyOpen <=>
            \A f \in Files : \A b \in DOMAIN stored[f].blocks :
               \/ Failing(stored[f].blocks[b])
               \/ stored[f].blocks[b].done
               \/ stored[f].blocks[b].state = 2
               \/ stored[f].status \in {"reviewed", "resumed", "skipped"}
      <3>1. \A f \in Files : \A b \in DOMAIN stored[f].blocks :
               /\ stored[f].status # "skipped"
               /\ stored[f].state = 2 => stored[f].blocks[b].done
        BY <2>1 DEF Faithful, GoodFile, Good
      <3>2. QED
        BY <3>1
    <2> HIDE DEF Failed, AnyOpen
    <2>6. ~AnyOpen => (BelowWhole <=> NumStored < 2 * Scale * NumFailing)
      BY <2>3, BelowWholeByFailures
    <2>7. Retryable <=> Failed /\ ~AnyOpen
      BY <2>4, <2>5 DEF Retryable
    <2>8. RetryOffered <=> BelowWhole /\ Failed /\ ~AnyOpen /\ task.status = "partial"
      BY <2>2, <2>3 DEF RetryOffered
    <2>9. QED
      BY <2>6, <2>7, <2>8 DEF RetryButtonWorks
  <1>2. QED
    BY <1>1, RunInvariant, PTL

\* What may become of a good result: it stays with its block, or a run that is no
\* retry reviews the block under other conditions.
ResultStays(f, b) ==
    \/ b \in DOMAIN stored'[f].blocks
       /\ stored'[f].blocks[b].by = stored[f].blocks[b].by
       /\ Good(stored'[f].blocks[b])
    \/ /\ run.active /\ ~run.retry
       /\ stored[f].blocks[b].condition # run.condition

\* One block is replaced, and if its result is good that is as good or had to go.
LEMMA OneBlockGoes ==
    ASSUME TypeOK, NEW f \in Files, NEW b \in DOMAIN stored[f].blocks, NEW block \in Block,
           stored' = [stored EXCEPT ![f].blocks[b] = block],
           Good(stored[f].blocks[b]) =>
              \/ block.by = stored[f].blocks[b].by /\ Good(block)
              \/ /\ run.active /\ ~run.retry
                 /\ stored[f].blocks[b].condition # run.condition,
           NEW g \in Files, NEW c \in DOMAIN stored[g].blocks, Good(stored[g].blocks[c])
    PROVE  ResultStays(g, c)
  <1>1. Replaced(f, b, block)
    BY PutBlock DEF TypeOK
  <1>2. CASE g = f /\ c = b
    BY <1>1, <1>2 DEF Replaced, ResultStays
  <1>3. CASE g = f /\ c # b
    BY <1>1, <1>3 DEF Replaced, ResultStays
  <1>4. CASE g # f
    BY <1>1, <1>4 DEF Replaced, ResultStays
  <1>5. QED
    BY <1>2, <1>3, <1>4

LEMMA ThreadKeepsResults ==
    ASSUME RunInv, NEW f \in Files, ThreadStep(f),
           NEW g \in Files, NEW c \in DOMAIN stored[g].blocks, Good(stored[g].blocks[c])
    PROVE  ResultStays(g, c)
  <1> DEFINE b == thread[f].b
             old == stored[f].blocks[b]
  <1>1. TypeOK
    BY DEF RunInv
  <1>2. CASE OpenFile(f) \/ CloseFile(f)
    <2>1. CASE OpenFile(f)
      <3>1. stored'[g].blocks = stored[g].blocks
        BY <1>1, <2>1 DEF TypeOK, FileDoc, OpenFile
      <3>2. QED
        BY <3>1 DEF ResultStays
    <2>2. CASE CloseFile(f)
      <3>1. stored'[g].blocks = stored[g].blocks
        BY <1>1, <2>2 DEF TypeOK, FileDoc, CloseFile, Closed
      <3>2. QED
        BY <3>1 DEF ResultStays
    <2>3. QED
      BY <1>2, <2>1, <2>2
  <1>3. CASE AskModels(f) \/ CountBlock(f) \/ WriteUsage(f) \/ Raise(f)
    <2>1. stored' = stored
      BY <1>3 DEF AskModels, CountBlock, WriteUsage, Raise
    <2>2. QED
      BY <2>1 DEF ResultStays
  <1>4. ASSUME NEW s \in {1, 2}, AtBlock(f), stored' = [stored EXCEPT ![f].blocks[b].state = s]
        PROVE  ResultStays(g, c)
    <2> DEFINE block == [old EXCEPT !.state = s]
    <2>1. b \in DOMAIN stored[f].blocks /\ old \in Block
      BY <1>4, BlockInHand
    <2>2. /\ block \in Block /\ block.by = old.by
          /\ block.done = old.done /\ block.failed = old.failed
      BY <2>1, BlockIsARecord
    <2>3. stored' = [stored EXCEPT ![f].blocks[b] = block]
      BY <1>1, <1>4, <2>1 DEF TypeOK
    <2>4. Good(old) => Good(block)
      BY <2>2 DEF Good
    <2> HIDE DEF block, b
    <2>5. QED
      BY <1>1, <2>1, <2>2, <2>3, <2>4, OneBlockGoes
  <1>5. ASSUME SkipComments(f) \/ SaveBlock(f)
        PROVE  ResultStays(g, c)
    <2>1. /\ run.active /\ ~KeepsResult(f) /\ b \in DOMAIN stored[f].blocks
      <3>1. CASE SkipComments(f)
        BY <3>1, BlockInHand, StartedThread DEF SkipComments, AtBlock
      <3>2. CASE SaveBlock(f)
        BY <3>2, BlockInHand, StartedThread DEF SaveBlock, InBlock, AtWork, ThreadFits
      <3>3. QED
        BY <1>5, <3>1, <3>2
    <2>2. PICK block \in Block : stored' = [stored EXCEPT ![f].blocks[b] = block]
      <3>1. runs \in 0 .. MaxRuns /\ run.condition \in Conditions \cup {NoCondition}
        BY <1>1 DEF TypeOK, Run
      <3>2. CASE SkipComments(f)
        <4>1. [done |-> TRUE, failed |-> FALSE, state |-> 2,
               condition |-> run.condition, by |-> runs] \in Block
          BY <3>1 DEF Block
        <4>2. QED
          BY <3>2, <4>1 DEF SkipComments, SetBlock
      <3>3. CASE SaveBlock(f)
        <4> DEFINE block == [done |-> thread[f].done, failed |-> thread[f].failed,
                             state |-> IF thread[f].done /\ ~thread[f].failed THEN 2 ELSE 3,
                             condition |-> run.condition, by |-> runs]
        <4>1. thread[f].done \in BOOLEAN /\ thread[f].failed \in BOOLEAN
          BY <1>1 DEF TypeOK, Thread
        <4>2. block \in Block
          BY <3>1, <4>1 DEF Block
        <4>3. stored' = [stored EXCEPT ![f].blocks[b] = block]
          BY <3>3 DEF SaveBlock, SetBlock
        <4>4. QED
          BY <4>2, <4>3
      <3>4. QED
        BY <1>5, <3>2, <3>3
    <2>3. Good(old) => ~run.retry /\ old.condition # run.condition
      BY <2>1 DEF KeepsResult
    <2> HIDE DEF b
    <2>4. QED
      BY <1>1, <2>1, <2>2, <2>3, OneBlockGoes
  <1>6. QED
    BY <1>2, <1>3, <1>4, <1>5 DEF ThreadStep, ReuseBlock, StartBlock

LEMMA SynchronizedKeepsResults ==
    ASSUME TypeOK, NEW f \in Files, NEW b \in DOMAIN stored[f].blocks, b \in 1 .. NumBlocks[f],
           Good(stored[f].blocks[b]), stored'[f].blocks = Synchronized(f).blocks
    PROVE  ResultStays(f, b)
  <1> DEFINE s == IF Good(stored[f].blocks[b]) THEN 2 ELSE 0
             block == Synchronized(f).blocks[b]
  <1>1. DOMAIN Synchronized(f).blocks = 1 .. NumBlocks[f]
        /\ block = [stored[f].blocks[b] EXCEPT !.state = s]
    BY SynchronizedDocument DEF TypeOK
  <1>2. stored[f].blocks[b] \in Block
    <2>1. stored[f].blocks \in Seq(Block)
      BY DEF TypeOK, FileDoc
    <2>2. QED
      BY <2>1, ElementOfSeq
  <1>3. s \in 0 .. 3
    OBVIOUS
  <1> HIDE DEF s, block
  <1>4. /\ block.by = stored[f].blocks[b].by /\ block.done = stored[f].blocks[b].done
        /\ block.failed = stored[f].blocks[b].failed
    BY <1>1, <1>2, <1>3, BlockIsARecord
  <1>5. Good(block)
    BY <1>4 DEF Good
  <1>6. QED
    BY <1>1, <1>4, <1>5 DEF ResultStays, block

LEMMA NextKeepsResults ==
    ASSUME RunInv, Next, NEW f \in Files, NEW b \in DOMAIN stored[f].blocks,
           Good(stored[f].blocks[b]), stored'[f].status # "skipped"
    PROVE  ResultStays(f, b)
  <1>1. TypeOK /\ b \in 1 .. NumBlocks[f]
    <2>1. b \in 1 .. NumBlocks[f]
      <3>1. Faithful(stored[f], NumBlocks[f]) /\ stored[f].blocks # <<>>
        BY DEF RunInv, DocumentInv
      <3>2. QED
        BY <3>1 DEF Faithful
    <2>2. QED
      BY <2>1 DEF RunInv
  <1>2. CASE Submit
    <2>1. stored'[f] = Synchronized(f)
      BY <1>2 DEF Submit
    <2>2. QED
      BY <1>1, <2>1, SynchronizedKeepsResults
  <1>3. ASSUME NEW condition \in Conditions, Begin(condition) PROVE ResultStays(f, b)
    <2>1. Sorted(f, condition)
      BY <1>3, BeginSorts
    <2>2. stored'[f] = stored[f] \/ stored'[f].blocks = Synchronized(f).blocks
      BY <2>1 DEF Sorted
    <2>3. QED
      BY <1>1, <2>2, SynchronizedKeepsResults DEF ResultStays
  <1>4. ASSUME NEW g \in Files, ThreadStep(g) PROVE ResultStays(f, b)
    BY <1>4, ThreadKeepsResults
  <1>5. CASE MarkInterrupted
    <2>1. stored'[f].blocks = stored[f].blocks
      BY <1>5, MarkInterruptedFlow
    <2>2. QED
      BY <2>1 DEF ResultStays
  <1>6. CASE AskRetry \/ Finish \/ Preempt \/ Supersede \/ Crash
    <2>1. stored' = stored
      BY <1>6 DEF AskRetry, Finish, Preempt, Supersede, Crash
    <2>2. QED
      BY <2>1 DEF ResultStays
  <1>7. CASE Fail \/ FailItself \/ \E g \in Files : Break(g)
    <2>1. stored' = stored
      BY <1>7 DEF Fail, FailItself, FailedTask, Break
    <2>2. QED
      BY <2>1 DEF ResultStays
  <1>8. QED
    BY <1>2, <1>3, <1>4, <1>5, <1>6, <1>7 DEF Next, RunStep

\* A good result is given up only to a run under other conditions that is no retry,
\* or with its file when the budget does not reach that: no interruption, crash,
\* exception or retry of other blocks costs a review that was paid for.
THEOREM GoodResultsStayHolds == Spec => GoodResultsStay
  <1> DEFINE Stay ==
        \A f \in Files : \A b \in DOMAIN stored[f].blocks :
           Good(stored[f].blocks[b]) /\ stored'[f].status # "skipped" =>
              \/ b \in DOMAIN stored'[f].blocks
                 /\ stored'[f].blocks[b].by = stored[f].blocks[b].by
                 /\ Good(stored'[f].blocks[b])
              \/ /\ run.active /\ ~run.retry
                 /\ stored[f].blocks[b].condition # run.condition
  <1>1. RunInv /\ [Next]_vars => [Stay]_vars
    BY NextKeepsResults DEF ResultStays
  <1>2. QED
    BY <1>1, RunInvariant, PTL DEF Spec, GoodResultsStay

=============================================================================
