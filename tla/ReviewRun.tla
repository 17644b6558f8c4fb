----------------------------- MODULE ReviewRun -----------------------------
(***************************************************************************)
(* The runs of a task over its files: which files and blocks a run reuses, *)
(* the threads that review the others (_review_file), what they save, how  *)
(* the token totals are kept, and how a run ends.  The code under review   *)
(* does not change here; what may change from run to run are the           *)
(* conditions of the review (model, rules, background), of which the       *)
(* review fingerprint is the hash.  ReviewTask says who may run, MainTask  *)
(* how the conversation about one block goes.                              *)
(***************************************************************************)
EXTENDS Integers, FiniteSets, Sequences, FiniteSetsExt, BlockResult

CONSTANTS
    NumBlocks,    \* NumBlocks[f]: blocks of file f, in the order of targets
    CommentOnly,  \* <<f, b>> with nothing but comments or blank lines
    Weight,       \* Weight[f]: estimated tokens of file f
    Budget,       \* full_scan_token_budget; 0: none
    Conditions,   \* the fingerprints that occur
    JsonRetries,  \* llm_json_retry_times
    Scale,        \* what the progress of a task is a fraction of: 100 in the code
    MaxRuns,      \* bound on the number of runs
    MaxStops      \* bound on interruptions, crashes and errors

Files == DOMAIN NumBlocks

NoCondition == 0

ASSUME RunAssumption ==
    /\ NumBlocks \in Seq(Nat \ {0})
    /\ \A c \in CommentOnly : c[1] \in Files /\ c[2] \in 1 .. NumBlocks[c[1]]
    /\ Weight \in [Files -> Nat]
    /\ Budget \in Nat
    /\ Conditions \subseteq Nat \ {NoCondition}
    /\ JsonRetries \in Nat
    /\ Scale \in Nat \ {0} /\ Scale % 2 = 0
    /\ MaxRuns \in Nat \ {0}
    /\ MaxStops \in Nat

VARIABLES
    stored,  \* the CodeFileModel documents
    task,    \* completion_status, retry_failed_only, llm_call_count
    run,     \* the run that is under way
    thread,  \* one reviewer for each file
    runs,    \* runs so far
    events,  \* how runs have been cut short so far
    spent,   \* reviews of blocks that the models were asked for
    lost     \* those of which a thread dropped the result when it was cut short

vars == <<stored, task, run, thread, runs, events, spent, lost>>

-----------------------------------------------------------------------------
(* Documents                                                               *)

\* done: main_task_completed.  failed: failure_message is not empty.  by: the
\* run that produced the result, 0 if there is none.
Block == [done : BOOLEAN, failed : BOOLEAN, state : 0 .. 3,
          condition : Conditions \cup {NoCondition}, by : 0 .. MaxRuns]

NewBlock == [done |-> FALSE, failed |-> FALSE, state |-> 0,
             condition |-> NoCondition, by |-> 0]

Good(block) == block.done /\ ~block.failed

Failing(block) == block.failed \/ block.state = 3

GoodFile(doc) == doc.blocks # <<>> /\ \A b \in DOMAIN doc.blocks : Good(doc.blocks[b])

\* _retry_failed_file_names
HasFailure(doc) == \E b \in DOMAIN doc.blocks : Failing(doc.blocks[b])

\* skipped: extra.status is skipped_budget.
Statuses == {"pending", "reviewing", "reviewed", "partial", "resumed", "skipped"}

FileDoc == [state : 0 .. 3, status : Statuses,
            condition : Conditions \cup {NoCondition}, blocks : Seq(Block)]

\* _synchronize_blocks for code that is as it was: results stay, everything
\* else is pending again, and a file without blocks gets them back.
Synchronized(f) ==
    LET doc == stored[f]
        blocks == [b \in 1 .. NumBlocks[f] |->
                     IF b \notin DOMAIN doc.blocks THEN NewBlock
                     ELSE [doc.blocks[b] EXCEPT
                             !.state = IF Good(doc.blocks[b]) THEN 2 ELSE 0]]
        whole == \A b \in DOMAIN blocks : Good(blocks[b])
    IN  [doc EXCEPT !.blocks = blocks,
                    !.state = IF whole THEN 2 ELSE 0,
                    !.status = IF whole THEN "reviewed" ELSE "pending"]

\* _save_budget_skipped_file deletes the document and inserts one without blocks.
Skipped(condition) ==
    [state |-> 0, status |-> "skipped", condition |-> condition, blocks |-> <<>>]

\* Where blocks are: p[1] is the file and p[2] the number in it.
Places == UNION {{f} \X (1 .. NumBlocks[f]) : f \in Files}

Stored(p) == p[2] \in DOMAIN stored[p[1]].blocks

BlockAt(p) == stored[p[1]].blocks[p[2]]

\* Mutant: blocks that needed no review are counted as well.
PersistedAnyhow ==
    Cardinality({p \in Places : Stored(p) /\ BlockAt(p).by # 0})

\* Reviews whose model rounds are stored with their block (_initialize_usage).
Persisted ==
    Cardinality({p \in Places \ CommentOnly : Stored(p) /\ BlockAt(p).by # 0})

-----------------------------------------------------------------------------
NoRun == [active |-> FALSE, condition |-> NoCondition, retry |-> FALSE,
          stop |-> FALSE, superseded |-> FALSE, initial |-> 0, ran |-> 0]

Idle == [pc |-> "off", b |-> 0, done |-> FALSE, failed |-> FALSE, total |-> 0]

Queued == [Idle EXCEPT !.pc = "queued"]

Init ==
    /\ stored = [f \in Files |->
                   [state |-> 0, status |-> "pending", condition |-> NoCondition,
                    blocks |-> [b \in 1 .. NumBlocks[f] |-> NewBlock]]]
    /\ task = [status |-> "pending", retry |-> FALSE, usage |-> 0]
    /\ run = NoRun
    /\ thread = [f \in Files |-> Idle]
    /\ runs = 0
    /\ events = {}
    /\ spent = 0
    /\ lost = 0

-----------------------------------------------------------------------------
(* Between runs                                                            *)

\* A new submission of the same code.
Submit ==
    /\ ~run.active
    /\ runs < MaxRuns
    /\ task.status \in {"completed", "partial"}
    /\ stored' = [f \in Files |-> Synchronized(f)]
    /\ task' = [task EXCEPT !.status = "pending", !.retry = FALSE]
    /\ UNCHANGED <<run, thread, runs, events, spent, lost>>

\* retryable_failure_summary: nothing is pending or under review.
Retryable ==
    /\ \E f \in Files : stored[f].status # "skipped" /\ HasFailure(stored[f])
    /\ \A f \in Files : \A b \in DOMAIN stored[f].blocks :
         \/ Failing(stored[f].blocks[b])
         \/ stored[f].blocks[b].done
         \/ stored[f].blocks[b].state = 2
         \/ stored[f].status \in {"reviewed", "resumed", "skipped"}

AskRetry ==
    /\ ~run.active
    /\ runs < MaxRuns
    /\ task.status = "partial"
    /\ Retryable
    /\ task' = [task EXCEPT !.status = "retry_pending", !.retry = TRUE]
    /\ UNCHANGED <<stored, run, thread, runs, events, spent, lost>>

-----------------------------------------------------------------------------
(* review_task up to the first batch                                       *)

Targets ==
    IF task.retry THEN {f \in Files : HasFailure(stored[f])} ELSE Files

Prepared(f) == IF f \in Targets THEN Synchronized(f) ELSE stored[f]

\* _find_reusable_code_file
Reusable(f, condition) ==
    Prepared(f).condition = condition /\ GoodFile(Prepared(f))

\* consumed_tokens after the first n targets; a file that does not fit is
\* passed over and a later one may still be taken.
Consumed(condition) ==
    LET consumed[n \in 0 .. Len(NumBlocks)] ==
          IF n = 0 THEN 0
          ELSE LET before == consumed[n - 1]
               IN  IF n \notin Targets \/ Reusable(n, condition)
                        \/ (Budget > 0 /\ before + Weight[n] > Budget)
                   THEN before
                   ELSE before + Weight[n]
    IN  consumed

Fits(f, condition) ==
    Budget = 0 \/ Consumed(condition)[f - 1] + Weight[f] <= Budget

\* The run reads the conditions, which are those of this moment, synchronizes
\* the files, and sorts them into reused, skipped and queued ones.
Begin(condition) ==
    /\ ~run.active
    /\ runs < MaxRuns
    /\ task.status # "completed"
    /\ runs' = runs + 1
    /\ run' = [NoRun EXCEPT !.active = TRUE, !.condition = condition,
                            !.retry = task.retry,
                            !.initial = Max({task.usage, Persisted})]
    /\ task' = [task EXCEPT !.status = "running"]
    /\ stored' = [f \in Files |->
         IF f \notin Targets THEN stored[f]
         ELSE IF Reusable(f, condition)
              THEN [Prepared(f) EXCEPT !.status = "resumed"]
              ELSE IF Fits(f, condition) THEN Prepared(f) ELSE Skipped(condition)]
    /\ thread' = [f \in Files |->
         IF f \in Targets /\ ~Reusable(f, condition) /\ Fits(f, condition)
         THEN Queued ELSE Idle]
    /\ UNCHANGED <<events, spent, lost>>

-----------------------------------------------------------------------------
(* _review_file                                                            *)

MayStop(how) == run.active /\ Cardinality(events) < MaxStops /\ events' = events \cup {how}

Goto(f, pc) == thread' = [thread EXCEPT ![f].pc = pc]

NextBlock(f) == thread' = [thread EXCEPT ![f].pc = "block", ![f].b = @ + 1]

SetBlock(f, b, block) == stored' = [stored EXCEPT ![f].blocks[b] = block]

OpenFile(f) ==
    /\ thread[f].pc = "queued"
    /\ ~run.stop
    /\ stored' = [stored EXCEPT ![f].state = 1, ![f].status = "reviewing"]
    /\ NextBlock(f)
    /\ UNCHANGED <<task, run, runs, events, spent, lost>>

\* A block under consideration, after the check for an interruption.
AtBlock(f) ==
    /\ thread[f].pc = "block"
    /\ thread[f].b <= NumBlocks[f]
    /\ ~run.stop

\* Mutant: only a retry keeps results, whatever the conditions.
KeepsResultIfRetried(f) ==
    Good(stored[f].blocks[thread[f].b]) /\ run.retry

KeepsResult(f) ==
    LET block == stored[f].blocks[thread[f].b]
    IN  Good(block) /\ (run.retry \/ block.condition = run.condition)

ReuseBlock(f) ==
    /\ AtBlock(f)
    /\ KeepsResult(f)
    /\ stored' = [stored EXCEPT ![f].blocks[thread[f].b].state = 2]
    /\ NextBlock(f)
    /\ UNCHANGED <<task, run, runs, events, spent, lost>>

\* _comment_only_block
SkipComments(f) ==
    /\ AtBlock(f)
    /\ ~KeepsResult(f)
    /\ <<f, thread[f].b>> \in CommentOnly
    /\ SetBlock(f, thread[f].b,
                [done |-> TRUE, failed |-> FALSE, state |-> 2,
                 condition |-> run.condition, by |-> runs])
    /\ NextBlock(f)
    /\ UNCHANGED <<task, run, runs, events, spent, lost>>

StartBlock(f) ==
    /\ AtBlock(f)
    /\ ~KeepsResult(f)
    /\ <<f, thread[f].b>> \notin CommentOnly
    /\ stored' = [stored EXCEPT ![f].blocks[thread[f].b].state = 1]
    /\ Goto(f, "asking")
    /\ UNCHANGED <<task, run, runs, events, spent, lost>>

\* _run_json_stage: an answer that is no JSON object, or none at all, is asked for
\* again.  Whether a stage may fail, for some answers.
Attempts == 1 .. JsonRetries + 1

StageFailures ==
    {\A a \in Attempts : answer[a] # "object" :
        answer \in [Attempts -> {"object", "malformed", "none"}]}

\* Plan, main task, relocation and filter.  A plan that fails is no reason to stop;
\* the last two are asked for only if there is an issue.
AskModels(f) ==
    /\ thread[f].pc = "asking"
    /\ \E plan \in StageFailures, result \in Results :
         \E others \in IF result.commented THEN StageFailures ELSE {FALSE} :
             thread' = [thread EXCEPT ![f].pc = "result",
                                      ![f].done = result.completed,
                                      ![f].failed = result.failed \/ plan \/ others]
    /\ spent' = spent + 1
    /\ UNCHANGED <<stored, task, run, runs, events, lost>>

SaveBlock(f) ==
    /\ thread[f].pc = "result"
    /\ ~run.stop
    /\ LET good == thread[f].done /\ ~thread[f].failed
       IN  SetBlock(f, thread[f].b,
                    [done |-> thread[f].done, failed |-> thread[f].failed,
                     state |-> IF good THEN 2 ELSE 3,
                     condition |-> run.condition, by |-> runs])
    /\ Goto(f, "count")
    /\ UNCHANGED <<task, run, runs, events, spent, lost>>

\* _accumulate_block_usage and, under the same lock, _usage_totals.
CountBlock(f) ==
    /\ thread[f].pc = "count"
    /\ run' = [run EXCEPT !.ran = @ + 1]
    /\ thread' = [thread EXCEPT ![f].pc = "write", ![f].total = run.initial + run'.ran]
    /\ UNCHANGED <<stored, task, runs, events, spent, lost>>

\* _checkpoint_task_usage writes the totals it has read before.
WriteUsage(f) ==
    /\ thread[f].pc = "write"
    /\ task' = [task EXCEPT !.usage = thread[f].total]
    /\ thread' = [thread EXCEPT ![f].pc = "block", ![f].b = @ + 1,
                                ![f].done = FALSE, ![f].failed = FALSE, ![f].total = 0]
    /\ UNCHANGED <<stored, run, runs, events, spent, lost>>

\* Mutant: a block that is completed with a failure counts as reviewed.
ClosedIfDone(doc, condition) ==
    LET done == \A b \in DOMAIN doc.blocks : doc.blocks[b].done
    IN  [doc EXCEPT !.state = IF done THEN 2 ELSE 3,
                    !.status = IF done THEN "reviewed" ELSE "partial",
                    !.condition = condition]

\* The file is given the fingerprint of the run, whatever that of its blocks.
Closed(doc, condition) ==
    [doc EXCEPT !.state = IF GoodFile(doc) THEN 2 ELSE 3,
                !.status = IF GoodFile(doc) THEN "reviewed" ELSE "partial",
                !.condition = condition]

CloseFile(f) ==
    /\ thread[f].pc = "block"
    /\ thread[f].b > NumBlocks[f]
    /\ ~run.stop
    /\ stored' = [stored EXCEPT ![f] = Closed(@, run.condition)]
    /\ Goto(f, "done")
    /\ UNCHANGED <<task, run, runs, events, spent, lost>>

\* Mutant: a thread that has not begun is not stopped, and waits for ever.
RaiseIfStarted(f) ==
    /\ run.stop
    /\ thread[f].pc \in {"block", "asking", "result"}
    /\ thread' = [thread EXCEPT ![f] = [Idle EXCEPT !.pc = "raised"]]
    /\ spent' = IF thread[f].pc = "asking" THEN spent + 1 ELSE spent
    /\ lost' = IF thread[f].pc \in {"asking", "result"} THEN lost + 1 ELSE lost
    /\ UNCHANGED <<stored, task, run, runs, events>>

\* _check_interrupted raises; what the models have answered for the block is lost.
Raise(f) ==
    /\ run.stop
    /\ thread[f].pc \in {"queued", "block", "asking", "result"}
    /\ thread' = [thread EXCEPT ![f] = [Idle EXCEPT !.pc = "raised"]]
    /\ spent' = IF thread[f].pc = "asking" THEN spent + 1 ELSE spent
    /\ lost' = IF thread[f].pc \in {"asking", "result"} THEN lost + 1 ELSE lost
    /\ UNCHANGED <<stored, task, run, runs, events>>

\* An exception that _review_file does not catch, say from the database.
Break(f) ==
    /\ MayStop("error")
    /\ thread[f].pc \in {"queued", "block", "asking", "result", "write"}
    /\ thread' = [thread EXCEPT ![f] = [Idle EXCEPT !.pc = "broken"]]
    /\ spent' = IF thread[f].pc = "asking" THEN spent + 1 ELSE spent
    /\ lost' = IF thread[f].pc \in {"asking", "result"} THEN lost + 1 ELSE lost
    /\ UNCHANGED <<stored, task, run, runs>>

ThreadStep(f) ==
    \/ OpenFile(f) \/ ReuseBlock(f) \/ SkipComments(f) \/ StartBlock(f)
    \/ AskModels(f) \/ SaveBlock(f) \/ CountBlock(f) \/ WriteUsage(f)
    \/ CloseFile(f) \/ Raise(f)

-----------------------------------------------------------------------------
(* The end of a run                                                        *)

AtWork(f) == thread[f].pc \in {"block", "asking", "result", "count", "write"}

Broken == \E f \in Files : thread[f].pc = "broken"

\* with ThreadPoolExecutor: all threads have ended.
Joined ==
    run.active /\ \A f \in Files : thread[f].pc \in {"off", "done", "raised", "broken"}

Over ==
    /\ run' = NoRun
    /\ thread' = [f \in Files |-> Idle]
    /\ UNCHANGED <<runs, spent, lost>>

\* Mutants: a file that the budget did not reach is forgotten, or the totals are
\* left as the last thread has written them.
FinishOverSkipped ==
    /\ Joined
    /\ ~run.stop /\ ~Broken
    /\ LET incomplete == {f \in Files : stored[f].status = "partial"}
       IN  task' = [status |-> IF incomplete = {} THEN "completed" ELSE "partial",
                    retry |-> FALSE,
                    usage |-> run.initial + run.ran]
    /\ Over
    /\ UNCHANGED <<stored, events>>

FinishWithoutTotals ==
    /\ Joined
    /\ ~run.stop /\ ~Broken
    /\ LET incomplete == {f \in Files : stored[f].status \in {"partial", "skipped"}}
       IN  task' = [task EXCEPT !.status = IF incomplete = {} THEN "completed" ELSE "partial",
                                !.retry = FALSE]
    /\ Over
    /\ UNCHANGED <<stored, events>>

\* _finish_task
Finish ==
    /\ Joined
    /\ ~run.stop /\ ~Broken
    /\ LET incomplete == {f \in Files : stored[f].status \in {"partial", "skipped"}}
       IN  task' = [status |-> IF incomplete = {} THEN "completed" ELSE "partial",
                    retry |-> FALSE,
                    usage |-> run.initial + run.ran]
    /\ Over
    /\ UNCHANGED <<stored, events>>

\* _mark_task_interrupted; after a newer trigger the task is left to that.  Whether
\* an interruption or an exception goes up is decided by the thread that ended first.
MarkInterrupted ==
    /\ Joined
    /\ run.stop
    /\ task' = IF run.superseded THEN task
               ELSE [task EXCEPT !.status = "interrupted",
                                 !.usage = run.initial + run.ran]
    /\ stored' = [f \in Files |->
         IF stored[f].state = 1 THEN [stored[f] EXCEPT !.state = 0] ELSE stored[f]]
    /\ Over
    /\ UNCHANGED events

\* review_task: an exception ends the run and leaves the files as they are.  Files of
\* later batches are not begun; those of the same batch are reviewed to the end.
FailedTask ==
    /\ run.active
    /\ ~run.superseded
    /\ \A f \in Files : ~AtWork(f)
    /\ task' = [status |-> "partial", retry |-> FALSE, usage |-> run.initial + run.ran]
    /\ Over
    /\ UNCHANGED stored

Fail == Broken /\ FailedTask /\ UNCHANGED events

\* The exception is one of the run itself: before, between or after the batches.
FailItself == MayStop("error") /\ FailedTask

RunStep == (\E f \in Files : ThreadStep(f)) \/ Finish \/ MarkInterrupted \/ Fail

-----------------------------------------------------------------------------
(* The report of a task (report_service.py)                                *)

\* Mutant: a review that the model declared done is shown as completed, although
\* something failed.
ShownIfDone(doc, block) ==
    IF block.done THEN "completed"
    ELSE IF Failing(block) THEN "failed"
    ELSE IF \/ block.state = 2 \/ doc.state = 2
            \/ doc.status \in {"reviewed", "resumed"} THEN "completed"
    ELSE IF block.state = 1 THEN "reviewing" ELSE "pending"

\* _block_status
Shown(doc, block) ==
    IF Failing(block) THEN "failed"
    ELSE IF \/ block.done \/ block.state = 2 \/ doc.state = 2
            \/ doc.status \in {"reviewed", "resumed"} THEN "completed"
    ELSE IF block.state = 1 THEN "reviewing" ELSE "pending"

\* The blocks that the report shows so.
Count(status) ==
    Cardinality({p \in Places :
                    Stored(p) /\ Shown(stored[p[1]], BlockAt(p)) = status})

NumStored == Cardinality({p \in Places : Stored(p)})

\* percentage < 100 in _progress_response.  The percentage is rounded, half way to the
\* even number: from Scale - 1/2 on it is Scale.
BelowWhole == 2 * Scale * Count("completed") < (2 * Scale - 1) * NumStored

\* retry_available: some blocks have failed, none is open.
RetryOffered ==
    /\ BelowWhole
    /\ Count("failed") > 0
    /\ Count("pending") = 0
    /\ Count("reviewing") = 0
    /\ task.status = "partial"

-----------------------------------------------------------------------------
(* Disturbances                                                            *)

Preempt ==
    /\ MayStop("preempt")
    /\ ~run.stop
    /\ run' = [run EXCEPT !.stop = TRUE]
    /\ UNCHANGED <<stored, task, thread, runs, spent, lost>>

\* A trigger while the run is under way.
Supersede ==
    /\ MayStop("supersede")
    /\ ~run.stop
    /\ run' = [run EXCEPT !.stop = TRUE, !.superseded = TRUE]
    /\ task' = [task EXCEPT !.status = "pending", !.retry = FALSE]
    /\ UNCHANGED <<stored, thread, runs, spent, lost>>

Crash ==
    /\ MayStop("crash")
    /\ Over
    /\ UNCHANGED <<stored, task>>

Next ==
    \/ Submit
    \/ AskRetry
    \/ \E condition \in Conditions : Begin(condition)
    \/ RunStep
    \/ Preempt
    \/ Supersede
    \/ Crash
    \/ \E f \in Files : Break(f)
    \/ FailItself

Spec == Init /\ [][Next]_vars

\* Threads run, and every request has a timeout.
FairSpec ==
    /\ Spec
    /\ \A f \in Files : WF_vars(ThreadStep(f))
    /\ WF_vars(Finish \/ MarkInterrupted \/ Fail)

-----------------------------------------------------------------------------
(* Properties                                                              *)

Task == [status : {"pending", "retry_pending", "running", "interrupted",
                    "completed", "partial"},
         retry : BOOLEAN, usage : Nat]

Run == [active : BOOLEAN, condition : Conditions \cup {NoCondition},
        retry : BOOLEAN, stop : BOOLEAN, superseded : BOOLEAN,
        initial : Nat, ran : Nat]

Thread == [pc : {"off", "queued", "block", "asking", "result", "count", "write",
                 "done", "raised", "broken"},
           b : Nat, done : BOOLEAN, failed : BOOLEAN, total : Nat]

TypeOK ==
    /\ stored \in [Files -> FileDoc]
    /\ task \in Task
    /\ run \in Run
    /\ thread \in [Files -> Thread]
    /\ runs \in 0 .. MaxRuns
    /\ events \subseteq {"preempt", "supersede", "crash", "error"}
    /\ spent \in Nat
    /\ lost \in Nat

\* A task that is completed has a result without failure for every block, even
\* when the files were reviewed by several runs, of which some were interrupted
\* and some only retried failures, and _finish_task looked at statuses only.
CompletedIsReviewed ==
    task.status = "completed" => \A f \in Files : GoodFile(stored[f])

\* A file says "reviewed" or "resumed" only while all its blocks are good.
StatusIsHonest ==
    \A f \in Files :
        stored[f].status \in {"reviewed", "resumed"} => GoodFile(stored[f])

\* A good result is given up only for a review under other conditions, or with
\* its file when the budget does not reach it: not by an interruption, a crash,
\* an exception or a retry of other blocks.
GoodResultsStay ==
    [][\A f \in Files : \A b \in DOMAIN stored[f].blocks :
         Good(stored[f].blocks[b]) /\ stored'[f].status # "skipped" =>
            \/ b \in DOMAIN stored'[f].blocks
               /\ stored'[f].blocks[b].by = stored[f].blocks[b].by
               /\ Good(stored'[f].blocks[b])
            \/ /\ run.active /\ ~run.retry
               /\ stored[f].blocks[b].condition # run.condition]_vars

\* No review is counted twice: not by the restart after a crash, which takes the
\* larger of the task's total and the sum over the stored blocks, and not by
\* threads that write the totals in another order than they read them.
NothingIsCountedTwice == task.usage + lost <= spent

\* Between runs nothing is missing either, but for the reviews whose result a thread
\* has dropped when it was interrupted or broke: a stale total that a thread has
\* written is put right at the end of the run, however it ends but for a crash.
NothingIsLeftOut ==
    ~run.active /\ events \subseteq {"preempt", "error"} => task.usage + lost = spent

NumFailing == Cardinality({p \in Places : Stored(p) /\ Failing(BlockAt(p))})

\* The report and the request of a retry count the same documents by rules of their
\* own.  A button that is there is never refused; where the request would be accepted
\* the button is there, but for a task of which so few blocks failed that the rounded
\* progress says that all is done: one in 200, or less.
RetryButtonWorks ==
    RetryOffered <=> /\ task.status = "partial"
                     /\ Retryable
                     /\ NumStored < 2 * Scale * NumFailing

\* Every run ends.
RunsEnd == run.active ~> ~run.active

\* README: a file is resumed only if all conditions of its review are those of
\* the run.
ResumedUnderSameConditions ==
    \A f \in Files : stored[f].status = "resumed" =>
        \A b \in DOMAIN stored[f].blocks :
            stored[f].blocks[b].condition = stored[f].condition

-----------------------------------------------------------------------------
(* The invariant from which ReviewRunProofs derives the properties.  A run     *)
(* relies on what earlier ones, however they ended, have left in the documents. *)

\* A document of a file with n blocks has all of them, or none if the budget passed
\* it over, and what it says of itself and of each block follows from the results.
Faithful(doc, n) ==
    /\ IF doc.status = "skipped" THEN doc.blocks = <<>> ELSE DOMAIN doc.blocks = 1 .. n
    /\ \A b \in DOMAIN doc.blocks :
          /\ doc.blocks[b].state = 2 => Good(doc.blocks[b])
          /\ doc.blocks[b].state = 3 => doc.blocks[b].failed
    /\ doc.state = 2 \/ doc.status \in {"reviewed", "resumed"} => GoodFile(doc)

DocumentInv == \A f \in Files : Faithful(stored[f], NumBlocks[f])

\* A run that only retries failures finds a result, good or bad, in every block,
\* also when an earlier retry broke off: what it leaves alone is good.
RetryInv ==
    task.retry \/ run.retry =>
        \A f \in Files : \A b \in DOMAIN stored[f].blocks :
            stored[f].blocks[b].done \/ stored[f].blocks[b].failed

InBlock(f) == AtWork(f) /\ thread[f].pc # "block"

\* The file of a thread at work is under review, and a result that it is about to
\* replace may be replaced.  Where no thread was started, nothing is left to do or
\* the budget is used up.
ThreadFits(f) ==
    /\ thread[f].pc # "off" => run.active
    /\ thread[f].pc = "off" /\ run.active =>
          \/ stored[f].status \in {"resumed", "skipped"}
          \/ run.retry /\ ~HasFailure(stored[f])
    /\ thread[f].pc = "queued" => thread[f].b = 0 /\ stored[f].status # "skipped"
    /\ AtWork(f) => /\ stored[f].state = 1
                    /\ stored[f].status = "reviewing"
                    /\ thread[f].b \in 1 .. NumBlocks[f] + 1
    /\ InBlock(f) => /\ thread[f].b <= NumBlocks[f]
                     /\ <<f, thread[f].b>> \notin CommentOnly
    /\ thread[f].pc \in {"asking", "result"} => ~KeepsResult(f)
    /\ thread[f].pc = "result" => thread[f].done \/ thread[f].failed
    /\ thread[f].pc = "done" => stored[f].status \in {"reviewed", "partial"}
    /\ thread[f].pc = "raised" => run.stop

ThreadInv == \A f \in Files : ThreadFits(f)

\* The state of the task goes with the run.
StateInv ==
    /\ ~run.active => run = NoRun
    /\ run.active => task.status \in {"running", "pending"}
    /\ run.superseded => "supersede" \in events

\* Answers that are in memory only, and answers that are not yet in the totals.
Unsaved == {f \in Files : thread[f].pc = "result"}
Uncounted == {f \in Files : thread[f].pc \in {"result", "count"}}

\* Every review is asked for once: the blocks, the totals of the run and the total
\* of the task each count some of those that are not lost, and the totals of a
\* run count all of them that have been counted, if no run was cut off before.
CountInv ==
    /\ Persisted + Cardinality(Unsaved) + lost <= spent
    /\ run.active =>
          /\ run.initial + run.ran + Cardinality(Uncounted) + lost <= spent
          /\ task.usage <= run.initial + run.ran
          /\ \A f \in Files : thread[f].pc = "write" =>
                thread[f].total <= run.initial + run.ran
    /\ ~run.active => task.usage + lost <= spent
    /\ events \subseteq {"preempt", "error"} =>
          spent = lost + IF run.active
                         THEN run.initial + run.ran + Cardinality(Uncounted)
                         ELSE task.usage

RunInv ==
    /\ TypeOK
    /\ DocumentInv
    /\ RetryInv /\ ThreadInv /\ StateInv
    /\ CountInv
    /\ CompletedIsReviewed
=============================================================================
