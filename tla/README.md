# A verification of the review service

This project models the protocols of the AI code-review server in TLA+, checks
them with TLC on small instances, and proves the main invariants for every
instance with TLAPS. The server is a FastAPI process over MongoDB: clients submit
a code comparison with `POST /tasks/trigger`, schedulers in one or more server
processes claim the resulting task under a lease, a worker reviews its blocks with
an LLM and saves every result as it goes, and re-submissions of the same
comparison reuse whatever did not change.

All paths below are relative to `src/`; services are in `app/services/`.

## Inventory

| Component | State | Operations | Interacts through |
|---|---|---|---|
| Trigger (`task_submission.py`) | the `TaskModel` document of a submission key | find or create the task, *begin* (new revision, state 4, interrupt request), synchronize files, snapshot, *publish* or *fail* | updates of the task document; the files; the snapshots |
| Scheduler (`scheduler.py`) | active task and lease token, executor, polling job, stop event | poll (heartbeat, release of the slot, preemption), claim, shutdown, restart | atomic updates of lease fields; the stop event of its run |
| Worker run (`review_service.py`) | the in-memory task, revision it works for, pool of reviewer threads | start, collect and synchronize, review, checkpoints, finish, fail, mark as interrupted | saves of whole documents, reads of the revision and of the interrupt request |
| Retry (`task_retry.py`) | retry fields of the task | request of a manual retry (check, then update), time of the automatic retry | the task document, the scheduler's queue |
| Snapshots (`task_snapshot.py`) | one document per change, copies of its files | create, supersede, carry forward, checkpoint | called by triggers and by every thread of the run |
| File synchronization (`task_submission.py`, `diff_service.py`) | `CodeFileModel` documents | match blocks by hash, keep results, delete stale files | called by triggers and by runs |
| Block review (`review_service.py`, `review_tools.py`, `comment_filter.py`, `evidence.py`) | messages, rounds and tool results of a block; the findings with their places | plan, main loop with compression, relocation, filter; merging within a file, duplicates within a batch | the LLM client; the file save |
| LLM client (`llm_client.py`) | none | `chat` with retries and a fallback model | HTTP |
| Feedback and reports (`report_service.py`, `feedback_log_service.py`) | feedback fields inside the blocks, a log | save feedback, progress and retry button, pages of the log | saves of the file documents; inserts into the log |
| Notification, migration, context of a review, dashboards, routes | see `PROJECT.json` | | |

**What is hard.** No lock spans two MongoDB operations. A trigger is a sequence of
six of them, a run is a long computation between a read of the revision and an
unconditional save of the whole document, a claim is a read and a conditional
update, and two server processes and any number of web requests do this at once.
Servers crash, are shut down with a run at work, and come back. What keeps it
together are three devices: the lease token (who may work), the trigger revision
(what the work is for) and the interrupt request. The properties below ask whether
they are enough.

**What makes each component correct.**

* Lease: at most one run works on a task; a lease always has somebody who renews it
  or lets it expire; nobody else's lease is taken away.
* Revision: a run never reports its result for newer code, and a superseded trigger
  never publishes.
* Task: completed means that no block is left; a completed task stays completed
  until a new submission; every task comes to rest.
* Snapshots: an unfinished one is either carried to the newest revision or
  superseded, never lost; a completed one is complete and does not change.
* File synchronization: results survive exactly when the block's code did not change.
* Run: a completed task is reviewed in every block, whichever runs contributed to it;
  token totals neither lose nor repeat a review; the report says what the retry
  request would say.
* Dispatch: tasks are claimed in the documented order, nobody starves, and a task is
  with one server at a time.
* Block review: ends, within its budget, in a result or in a recorded failure; every
  request it sends is one a chat API accepts.
* Findings: a reported finding stands at a changed line whose code it quotes; merging
  and marking of duplicates lose none, but for what the save of a closed file passes over.
* Feedback: stays with its issue; a reader of the log misses none.

The places where this can go wrong are listed as `hazards` in `PROJECT.json`, each at
its line with the property that watches it.

## Modules

| Module | What it is |
|---|---|
| `ReviewTask` | one task document with its triggers, schedulers, runs and retries |
| `ReviewTaskProofs` | the lease and what a task says of its result: the whole invariant of `ReviewTask` |
| `Snapshot` | the change snapshots of a task, with triggers and the threads of a run |
| `SnapshotOutcome` | types, revisions and how snapshots end: the whole invariant of `Snapshot` |
| `TaskQueue` | what the schedulers promise: a queue of tasks, each with one server at a time |
| `Dispatch` | the schedulers of several servers over several tasks; implements `TaskQueue` |
| `DispatchProofs` | the order of claims and the refinement of `TaskQueue`: the invariant of `Dispatch` |
| `ReviewRun` | the runs of a task over its files, with reuse, budget, threads, totals and the report |
| `ReviewRunProofs` | what runs leave behind is true, complete and counted once: the invariant of `ReviewRun` |
| `BlockResult` | what the review of a block may return |
| `MainResult` | what a caller of `_run_main_task` may count on |
| `MainTask` | the conversation about one block; implements `MainResult` |
| `MainTaskProofs` | what is sent, how soon it stops and what the caller gets, proved for all limits of `MainTask` |
| `Subsequences` | the part of a sequence that a condition leaves, as loops over lines build it |
| `Diff` | how a change becomes blocks of diff lines |
| `CommentFilter` | which blocks change comments only |
| `Evidence` | where the code that a finding quotes is found |
| `BlockIssues` | a finding from its report to its filter status, over the three modules above |
| `BlockIssuesProofs` | findings are anchored and not guessed, blocks are skipped rightly: the invariant of `BlockIssues` |
| `IssueLists` | the lists of issues of several files, and what is promised of them |
| `FileIssues` | merging and duplicates of findings over batches and runs, in memory and as stored, and feedback on them |
| `FileIssuesProofs` | what merging keeps, and that duplicates lead to originals: the invariant of `FileIssues` |
| `FeedbackPages` | what a page of the log of feedback shows, and what a reader may expect |
| `FeedbackLog` | the log of feedback and a reader of its pages, step by step |
| `FeedbackLogProofs` | who turns all pages misses nothing: the invariant of `FeedbackLog` |
| `MCReviewTask`, `MCSnapshot`, `MCDispatch`, `MCReviewRun`, `MCMainTask`, `MCFindings` | instances for TLC: symmetry, code trees, weights, changes and findings |

The modules meet where the components do. `ReviewTask` decides who works on a task;
`Snapshot` and `ReviewRun` take one worker at a time from it and look at what the work
does to snapshots, files and totals; `Dispatch` drops what two actors can do to one task
and adds the other tasks. `ReviewRun` takes the results of its blocks from the set
`Results` of `BlockResult`, and `MainTask` is shown to produce no others, by way of
`MainResult`. `BlockIssues` takes blocks from `Diff` and leaves findings to `FileIssues`.

### ReviewTask

`task` is the stored `TaskModel` cut down to the fields that are read to decide
something; `left` says which kinds of unfinished blocks its files hold. A run is
named by its lease token. Each action is one database operation with the local
computation around it:

* trigger: `TrigFind`, `TrigCreate`, `TrigReload`, `TrigBegin`, `TrigPrepare`,
  `TrigPublish`, `TrigFail` follow `trigger()` from top to bottom;
* scheduler: `PollClear`, `Heartbeat`, `Preempt`, `ReadCandidate`, `Claim`,
  `ClaimLost`, `Shutdown`, `Exit`, `Halt`, `Restart`;
* run: `RunStart`, `RunReview`, `RunRaise`, `RunFinish`, `RunClose`, `RunFatal`,
  `RunFail`, `RunLoad`, `RunRelease`, with `RunLateRaise`, `RunLateFatal` and
  `RunLateFail` for an exception after the final save;
* manual retry: `RetryCheck` and `RetryQueue`.

`Document.save()` writes the fields that changed since the document was loaded;
`Written` and `Saved` say this, and it is what makes stale copies dangerous.

Time is abstracted: a lease may be found expired (`LeaseExpired`), and the delay of
an automatic retry may be over, at any moment the code could see it so.

### Snapshot

`ReviewTask` decides who works; `Snapshot` takes one worker at a time as given and
looks at what the work does to the snapshots. It keeps the blocks apart: `code` maps
a block (its hash) to its stored result, `snaps` holds for every trigger the snapshot
it created, with the blocks it refers to and their copied results. Triggers begin
with a workspace taken from `Trees`. The run has one reviewer thread for each file,
named by the file; every thread has its own `checkpoint` of the snapshot (`CkLoad`,
`CkCopy`, `CkSave`), which interleaves with those of the other threads and of the
triggers. `RunFinish`, `RunFail` and `RunStopped` wait for all threads, as the
`with ThreadPoolExecutor` block does, whatever became of the others.

### Dispatch

`doc` is a task document cut down to what the order of claims depends on; `created` the
order of `create_time`. A claim is what `claim_next_task` makes of it: `ReadCandidates`
reads and sorts all candidates (`_ordered_candidates`), then `Claim` or `PassOver` goes
through them one by one while other servers do the same, comparing state, priority and
lease with what was read (`Claimable`), and `ClaimNothing` gives up. `Preempt` is the poll
of a busy server (`_has_higher_priority_task`), `Finish` and `GiveBack` are the ends of a
review, `AskRetry` raises a task's priority, `Crash`, `Restart` and `Expire` are as in
`ReviewTask`. `steady` is a history variable: what has been claimable, unchanged, since a
server read its candidates. The sorted list is given by what it is (`Ordered`: every task before those it
precedes), not by how it is sorted. Tokens are fresh as long as somebody recalls them.

`ImplementsTaskQueue` maps a document to *absent*, *waiting* (`Eligible`), *served*, *done* or
*failed*. Writing `TaskQueue` down brought out one thing a queue would not do: a task that
has failed can be taken although no retry of it is due any more, by a server that read it
before another one ran it (`Take` allows it; the claim compares the state, which is the
same again, not the retry). `ClaimIsDue` says that this is the only way: a task is claimed that was
due when the server read it, unless another one has taken it and failed since.

### ReviewRun

`stored` holds the file documents with their blocks, `task` the status, the retry flag and
`llm_call_count`, `run` what the run keeps in memory, `thread[f]` the reviewer of file `f`.
`Begin` is `review_task` up to the first batch: synchronization, reuse of whole files by
their fingerprint (`Reusable`), and the token budget over the rest in order (`Fits`). A thread
goes through `OpenFile`, then for each block `ReuseBlock`, `SkipComments` or `StartBlock`,
`AskModels`, `SaveBlock`, `CountBlock` and `WriteUsage`, and `CloseFile`; `Raise` is
`_check_interrupted`. `CountBlock` and `WriteUsage` are apart because the code takes the
totals under a lock and writes them without it. `Finish`, `MarkInterrupted`, `Fail` and `Crash` end
a run. An exception may end a thread (`Break`) or come from the run itself (`FailItself`); `Fail` waits
for the threads of the pool, as the `with` block does, leaves files of later batches queued, and sets the task
to partial with its blocks as they are, pending or under review. With an interruption at the same time either
may go up, whichever thread ended first. Between runs `Submit` synchronizes as a trigger of unchanged code does and `AskRetry`
is the request of a retry, with `retryable_failure_summary` as its guard; `Shown`, `Count`
and `RetryOffered` are the report's own view of the same documents; `BelowWhole` is its rounded percentage
(`Scale` is 100 in the code), compared without a division. What changes from
run to run are the conditions of the review (model, rules, background), of which the
fingerprint is the hash.

### MainTask

A message keeps its role, its round, how many tool calls it asks for and its size. A round is
`StartRound` (or `Interrupt`), `Compress` or `SkipCompression`, `Chat`, and after a failure
`ChatFails` and `PlainChat`, which may fail for good (`PlainChatFails`). What the answers
contain is chosen from the kinds of tool calls and of JSON the code tells apart. `LLMClient.chat` is the
set of the outcomes that its attempts allow (`Chats`). `Stop` is the moment from which the
next check would interrupt; `late` counts the requests sent after it.

### BlockIssues, FileIssues, FeedbackLog

`BlockIssues` follows one finding about one change: `Report`, `Relocate` (by rules), then perhaps
`AskRelocation`, `Corroborate`, `Filter` (by rules) and `AskFilter`. The answers of the
models are arbitrary members of what the parsers let through. A change is a sequence of
marked lines, from which `Diff`, `CommentFilter` and `Evidence` compute as the code does; a text
is a string of which only equality and a few kinds matter, the ratio of `difflib` is the share of
equal lines. A loop that leaves lines out is `Picked` (of `Subsequences`), by the places that stay; a loop that
carries a state over lines or blocks is a recursive function on their numbers (`ScanStates`,
`ScanBlocks`). That a line truly stands in a comment (`InComment`) is defined without a scan: one was
opened before it, and not closed since.

`FileIssues` follows the files of one batch after another: a file is read (`Open`), its blocks are completed or
fail with any findings (`Review`), it is closed, which merges its findings (`Close`), and the batch is searched for
duplicates (`ExactDuplicates`, `SemanticDuplicates`). `NextBatch` is a later batch, of the same run or of a
retry: complete files stay as they are, with their marks; failed blocks of the others are reviewed again, also those
that issues were marked as duplicates of. `SaveFeedback` changes a document that a run has read earlier.

What the run holds in memory (`held`) and what the database holds (`stored`) are kept apart, because a save writes only
what was assigned something else than it held. `block.issues = merged_issues` changes nothing when the block lost no
issue, and what is then put into that list from a later block (line 2903) is in memory only: `Close` writes the
lists that were shortened (`Shortened`). Marks change single fields and are written as such, by index (`Mark`).

An issue is referred to by the place of its block and its index. `Merged` goes through the references of a file in their
order (a recursive function on sets of references) and keeps *entries*: for the first issue of each kind, the one that is
kept in its place (`seen_indexes` and `canonical_indexes` of the code: keys belong to the first issue, the
equivalence is asked of the one that is kept). `of` is `duplicate_of`: the block, and a number, which for an exact
duplicate is not always that of its original (`ExactReference`: 0 is taken for missing). What findings say,
which keys they share, which are equivalent and which groups are safe are constants: the text they are computed from
does not matter to what merging does with them.

`FeedbackLog` separates the creation of an entry, which gives it its time, from its insertion
(`Draft`, `Insert`), and the query that counts a page from the one that fetches it. A list is
given by the places of its items (`Position`): how many are first seen no later. That is the place in the
list the code sorts, because no two times are equal.

### Races

`ReviewTask` and `Snapshot` have windows that the code leaves open, and record in `races`
which of them a behaviour has gone through; the main invariants are then stated for
behaviours without them (or with the harmless ones), so that everything else is shown
to be sound, and the windows are named rather than hidden. Nothing is ruled out by
a guard: the racing steps are taken, checked for type correctness and for the
properties that survive them, and the runs named `v_` exhibit what they lead to.

In `ReviewTask`: `expired` (a lease runs out under a run at work), `late_claim`,
`early_trigger` and `late_trigger` (an answer read before another actor's step is
used after it), `late_error` (an exception after the final save), `stale_files` (the
files are synchronized or saved by somebody who has been superseded), `late_retry`
(a trigger between check and update of a manual retry). In `Snapshot`: `overlap`,
`late` (which covers a last checkpoint that looks for its snapshot only after a newer
trigger has begun), `parallel`, `vanished`, `lost_checkpoint`, `failed_trigger`.

## Runs

| Run | Instance | What it shows |
|---|---|---|
| `faults` | 2 servers, 2 run tokens, 2 triggers, 1 disturbance of any kind | the safety properties of the task, and the invariant that the proofs use |
| `failover` | 2 servers, 1 trigger, 1 disturbance, token budget, room for a retry, fairness | the task comes to rest when a server disappears and another takes over |
| `snapshots` | 3 submissions of three different trees over 3 blocks in 2 files, 2 threads, 1 disturbance | the safety properties of snapshots, and the invariant that the proofs use |
| `dispatch` | 2 servers, 2 incremental tasks, 1 full scan, 1 retry, 1 crash | the order of claims and that they are due, the queue, and the invariant that the proofs use |
| `dispatch_live` | 2 servers, 1 incremental task, 2 full scans, 1 crash, fairness | nobody starves, inversions end |
| `review_run` | 3 runs over 3 files (2 + 1 + 1 blocks), a budget for two of them, 2 conditions, 1 interruption, re-trigger, crash or exception, fairness | what is kept, counted and shown, and the invariant that the proofs use |
| `main_task` | 5 rounds, compression by size and by 2 rounds, 2 calls per answer, 2 attempts per request, fairness | well-formed requests, and the result the caller counts on |
| `findings` | all changes of up to 4 lines of code or 3 of comments, findings of 1 or 3 lines; 2 files with 3 + 1 blocks of one finding each, and a later batch over what failed; a log of 4 entries | where findings end up, what merging and marking keep, that paging loses none |
| `v_double_trigger` | 2 triggers, no disturbance | two runs at once after overlapping triggers |
| `v_stale_finish` | a trigger during `_finish_task` | the result of old code overwrites the state of the newer submission |
| `v_comment_gap` | a change whose middle line the diff hides | changed code taken for comment |
| `v_feedback` | one block with two equal findings, one feedback | the feedback is written over when the file is closed |

More configurations, to be run by hand, exhibit further disagreements (the property
named in each is violated) or larger instances:

| Configuration | Module | What it shows |
|---|---|---|
| `ReviewTaskShutdown.cfg` | `MCReviewTask` | an orderly shutdown: two runs at once, because the heartbeat stops before the work does |
| `ReviewTaskLateRetry.cfg` | `MCReviewTask` | a failed trigger during a retry request: a task completed with blocks nobody reviewed |
| `ReviewTaskBackoff.cfg` | `MCReviewTask` | default retry limit: the third failure is not retried |
| `SnapshotImmutable.cfg` | `MCSnapshot` | a checkpoint writes over a superseded snapshot |
| `SnapshotReverted.cfg` | `MCSnapshot` | a carried snapshot waits for a block that no longer exists |
| `FindingsLineGate.cfg` | `MCFindings` | a finding about a changed line between two unchanged ones is filtered: the gate compares the ends of its range |
| `FindingsStored.cfg` | `MCFindings` | a finding with evidence that takes the place of a filtered one of an earlier block is not stored |
| `FindingsReference.cfg` | `MCFindings` | `duplicate_of` names an issue that does not exist or says something else |
| `DispatchBackoff.cfg` | `MCDispatch` | a task that failed once more is claimed before its backoff is over |
| `ReviewRunConditions.cfg` | `MCReviewRun` | a file is resumed although a block of it was reviewed under other conditions |
| `ReviewTaskRetries.cfg`, `ReviewTaskSettles.cfg` | `MCReviewTask` | no violation: two disturbances with everything switched on; one server under fairness |

**Properties of the task.** `LeaseExclusion`: every run at work holds the lease.
`LeaseHasHolder`: a lease belongs to a run at work or to one whose process died.
`DetachedOwnsNothing`: a scheduler never gives up the slot of a run that owns the
lease. `RunningIsLeased`, `CompletedIsComplete`, `RevisionsUnique`,
`InterruptHasRequester` and the action property
`CompletedIsFinal` are stated in the module next to the code behaviour they are
about; `InterruptHasRequester` is checked as a conjunct of `TaskInv`. `TaskSettles` is the liveness property.

**Properties of the snapshots.** `RevisionIsFree`: the unique index never rejects a
snapshot that is inserted or carried. `OpenSnapshotIsCurrent`: when nobody is at work,
an open snapshot has the task's revision, so the next checkpoint finds it.
`CompletedTaskSettlesSnapshot`: a completed task has no open snapshot, even though the
threads of its run may have undone each other's status in between (the last checkpoint
heals it). `CompletedSnapshotIsWhole`: a completed snapshot has a completed copy of every
block it refers to. `SettledSnapshotStays`: a completed or superseded snapshot does not
change.

**Properties of dispatch.** `ClaimIsFirst`: a claim takes the first, in the documented order, of
the tasks that could be claimed ever since the server read its candidates; a candidate
lost to another server costs a place, never a turn. `ClaimIsDue`: what it takes was due when it was
read, unless it has been taken and failed since. `ImplementsTaskQueue` is the refinement.
`EveryTaskIsServed`: if no review takes for ever, no task waits for ever, however often it is
preempted. `InversionEnds`: a server does not stay at a task while one waits that should
come before it, however long the review would take.

**Properties of runs.** `CompletedIsReviewed`: a completed task is reviewed, although `_finish_task`
and reuse decide by statuses, even when several runs, some interrupted, some retrying failures
only, contributed to a file. `StatusIsHonest`, which says so of a file, is a consequence of
`DocumentInv` in the invariant `RunInv` that the run checks. `GoodResultsStay`: a good
result is given up only for other conditions or the budget. `NothingIsCountedTwice` and
`NothingIsLeftOut`: the totals, which threads write out of order and a restart estimates
from the stored blocks, are exact between runs, up to what interrupted or broken threads have dropped.
`RetryButtonWorks`: the report offers a retry just when the request would be accepted and more than one
block in 200 has failed; below that the progress is rounded to 100 percent and the button is off.
`RunsEnd`: also after an interruption, whatever its threads were doing.

**Properties of the conversation.** `RequestsAreWellFormed`: after any compression, tool results
follow the answer that asked for them. `SingleResultSurvives`: a result the model has not
seen is not summarized away. `StopIsPrompt`: at most three requests after an interruption.
`ImplementsMainResult`: under fairness there is one result, completed or with a reason.

**Properties of findings and feedback.** `KeptIsAnchored`, `NothingIsGuessed` and `OneLineIsKept`
say, for all answers of the models, which findings are reported and where.
`NothingHiddenNothingMissed`: where the diff hides no line, a block is skipped just when
no changed line acts. `MergeKeepsFindings`: what was reportable before a merge is said by
something reportable afterwards, up to a chain of two equivalences, because equivalence is not
transitive: in memory always, and in the database unless it took the place of a filtered finding of an earlier
block that lost no issue, which the save passes over. `DuplicatesLeadToOriginals`: once a batch is searched,
whatever earlier batches and runs have left, each issue it marked refers to a block that reports an original saying the same, in the
database too, or a finding whose own block of reference does. `PagingMissesNothing`: who turns all pages sees everything that was there at the
beginning, except a group that a late entry moves forward and a late entry between the two
queries of a page; both exceptions are needed.

**Bounds.** Two servers and two run tokens are the least with a takeover; tokens are
reused once no document, process or scheduler recalls them, so there may be more
runs than tokens in a behaviour. Two triggers are the least with an overlap, and in
`Snapshot` three submissions (the first creates no snapshot) are the least in which
a snapshot is superseded or carried. `Faults` bounds the disturbances of a behaviour,
and the races found need at most one. In `ReviewTask` `MaxRetries` is 1 or 2 except in `ReviewTaskBackoff.cfg`,
where it has the default value of 3; `retry_count` is kept up to the limit, with which
alone it is compared (`CountRetry`). The trees of `MCSnapshot` let a trigger add a block
to a file, take it back, add a file and remove one. The runs that pass have no
deadlock to look for: the system may rest once all triggers are done.

Three tasks are the least with an order of all kinds (retry, type, age), and with two
servers both may be at a full scan when an incremental task arrives; one crash is enough
to orphan a task while the other server reads its candidates. Three runs are the least in which a
review, its interruption and a retry or resubmission follow one another; three
files are the least of which one is reused, one reviewed and one beyond the budget; one
file has two blocks, of which one is a comment. `Scale` is 2, so that one failed block of four
is what one of 200 is in the code: the button is off, which the instance reaches. `MaxStops` counts exceptions too. In `MainTask` the limits are
small in proportion: with 5 rounds, compression after every second and 3 recent messages there are
two compressions, the second over the summary of the first; the sizes are such that
each limit is reached both by one message and by their sum. In `findings` a block is as long as three lines,
so that four lines make two blocks; code occurs twice among two texts; the findings
1-2 and 2-3 are equivalent and 1-3 are not, so that a semantic group of all three is safe only if 2 comes first. A file with three blocks of one
finding each has the chain of all three to merge. `MaxRuns` is 1: one batch after the first, of any of the files that
are not complete, at any moment. `MCFile` narrows what follows: the first batch has both files, which are opened in
turn (they share nothing before the batch is searched); feedback is given on one finding, when all blocks of its file have been
reviewed for the first time; and what is reviewed again does not fail again. The proofs have none of these limits. The log has pages
of one item, so that every insertion moves an item over the end of a page, and four entries in two
groups; besides the empty log, the run starts from the logs of two entries with a third on its way
(`StartedLog`), which are reachable from it and only make counterexamples shorter.

**Fairness** (`FairSpec`). In `ReviewTask` a web request runs to its end, every scheduler keeps
polling (its job runs at a fixed interval and logs its errors), a run that can take a step
takes one (all LLM requests have timeouts), a lease that nobody renews expires, and a server
that is down is started again: `docker-compose.yml` says `restart: unless-stopped`,
and the blue-green deployment starts the new slot before it stops the old one. The
disturbances have no fairness, and the death of a web process inside a trigger
(`trigger_crash`) is left out of the liveness runs: the task then stays in state 4
until somebody submits it again, which is a hazard in the list. `Dispatch` assumes the same of
polls, restarts and leases, and that a review that is asked to stop gives its task back; it
does not assume that reviews end, which `EveryTaskIsServed` states as its condition.
`ReviewRun` has weak fairness for each thread (the pool has room for all files of the
instance) and for the end of the run, `MainTask` for its steps. Triggers, users, retries on
demand and feedback have none.

## Proofs

* `ReviewTaskProofs!TypeCorrect`: `Spec => []TypeOK` (a conjunct of the `TaskInv` that `faults` checks), one lemma for
  each group of actions.
* `ReviewTaskProofs!LeaseInvariant`: `Spec => []IInv`, from which follow
  `LeaseExclusionHolds`, `LeaseHasHolderHolds`, `DetachedOwnsNothingHolds` and
  `RevisionsUniqueHolds`. `LeaseExclusion` alone is not inductive: a claim overwrites
  the token, so one has to know that it was not the token of a run at work
  (`CandidateInv`, `CalmInv`: a live lease is never a candidate); a trigger that clears
  the lease relies on what it read before (`keep` in `CalmInv`); and a run that gives the
  slot back relies on its own copy of the token (`MemoryInv`) and on the order of
  revisions (`RevisionInv`).
* `ReviewTaskProofs!TaskInvariant`: `Spec => []TaskInv`, from which follow
  `CompletedIsCompleteHolds`, `RunningIsLeasedHolds`, `InterruptHasRequesterHolds` and the action property `CompletedIsFinalHolds`. A run saves
  the document it loaded long ago, so the proof has to say what its copy is still worth:
  always that it says RUNNING (`CopyInv`); without races, that the run of the current
  revision is the one that made the task RUNNING, and that the task is RUNNING for just as long
  (`OwnerInv`). What is going to be reported is then true when it is decided and still
  true when it is saved, because nobody else writes files meanwhile (`ReportInv`), and the
  states follow (`StateInv`). The lease invariant is used throughout: only the holder of the lease finishes.
* `SnapshotOutcome!SnapshotInvariant` and `RevisionIsFreeHolds`: the invariant says that
  triggers have revisions of their own (`RevisionInv`) and that every snapshot has the
  revision of the trigger that last created or carried it (`OwnerInv`), so the revision
  of a trigger that has not come to that is free. `KeyInv` ties a checkpoint to the
  snapshot it loaded, which the types alone do not.
* `SnapshotOutcome!SnapInvariant`: `Spec => []SnapInv`, from which follow
  `OpenSnapshotIsCurrentHolds`, `CompletedTaskSettlesSnapshotHolds`, `CompletedSnapshotIsWholeHolds`
  and the action property `SettledSnapshotStaysHolds`. Each conjunct of `SnapInv` names the races
  under which it survives. Always: whose snapshot and whose checkpoint it is (`BornInv`,
  `WorkInv`, `ActorInv`). While nothing overlaps or is late: there is one submission at a
  time (`OneInv`), a checkpoint of the current revision keeps its snapshot to its end (`HoldInv`),
  once synchronized the stored blocks are those of the workspace (`CodeInv`), and a run only
  reviews what is unfinished (`ReviewInv`). From these: an open snapshot is current or
  about to be superseded or carried (`OpenInv`, which a failed trigger breaks), it refers to
  blocks of the workspace (`RefsInv`, which a vanished block breaks), what is copied as completed stays
  completed (`WholeInv`), a completed task has nothing left and its last checkpoint settles the
  snapshot (`DoneInv`), and checkpoints agree about what is settled (`SettleInv`, which parallel
  threads break). The invariant was checked by TLC before it was proved.
* `ReviewRunProofs!RunInvariant`: `Spec => []RunInv`, from which follow `CompletedIsReviewedHolds`,
  `StatusIsHonestHolds`, `NothingIsCountedTwiceHolds`, `NothingIsLeftOutHolds`,
  `RetryButtonWorksHolds` and the action property `GoodResultsStayHolds`: all safety properties of
  `ReviewRun`. That a status is honest is inductive only together with what a document is
  otherwise (`Faithful`: all of its blocks or none, states that follow from results) and with what a thread
  relies on (`ThreadFits`: its file is under review, and a result it is about to replace may be
  replaced). A retry run leaves files alone, so that `_finish_task` is right about these needs to
  know that no block without a result is left when a retry is accepted or breaks off (`RetryInv`).
  Each review is counted in three places: by the stored blocks, by the totals of the run, by the task.
  `CountInv` bounds each of them with what is still in memory (`Unsaved`, `Uncounted`), so that
  a restart may take the larger of two; it also bounds the totals that threads have read and not
  yet written, and when no run was cut off by a crash or a trigger it says that the run's totals are exact. That
the report's count agrees with the request's check needs the number of completed blocks: where none is open they are
those that have not failed (`CompletedOrFailed`), so the rounded percentage depends on the failed ones alone
(`BelowWholeByFailures`). The
  proof goes twice through all actions, for the documents (`NextFlow`) and for the numbers (`NextCounts`).
* `DispatchProofs!DispatchInvariant`: `Spec => []DispatchInv`, from which follow `ClaimIsFirstHolds`, `ClaimIsDueHolds` and
  `ImplementsTaskQueueHolds`, the whole of the refinement, since `TaskQueue` states no fairness. A claim
  is decided by comparing a document with a copy read earlier, so the invariant says what a copy is
  worth. If a running candidate still has its lease, that lease had run out when it was read
  and nobody has renewed it since (`Outdated`), while the lease of a review at work has not
  (`WorksAlone`): so no claim takes a task from under a review. A task that nobody has touched is
  still in the list of the server, and still matches (`SteadyInv`); the list is in the order in which it
  was read (`InOrder`), and a candidate that matches has the priority of then, so what a
  claim takes comes first. Three facts about data carry this: the order of tasks is strict and total
  (`PrecedesOrders`), a task's place in it is the number of those before it, so that the sorted list exists
  and misses none (`OrderExists`, `OrderedIsSorted`), and fewer tokens are in use than there are
  (`FreshTokenExists`).
* `MainTaskProofs!Invariant`: `Spec => []IInv` for a conversation, and from it
  `TypeCorrect`, `RequestsAreAlwaysWellFormed`, `StopIsAlwaysPrompt`, `SingleResultAlwaysSurvives` and
  `GivesOneExplainedAnswer`, the safety part of `ImplementsMainResult`. `RequestsAreWellFormed`
  speaks of the moment a request is sent; the invariant says the same of the history at all times
  (`WellFormed`). It rests on three lemmas about sequences: an answer
  with its results may be added (`AnswerKeepsWellFormed`), the cut of a compression falls at a place
  where no result follows (`CutIsClean`), and what is left behind such a cut is well formed
  (`CutKeepsWellFormed`). `StopIsPrompt` needs to know how many requests
  may have been sent at each place of a round (`LateBounds`) and that a round begins only before a
  stop (`LateAfterStop`). That `Max` and `Min` find an element is proved from the
  well-foundedness of strict inclusion of finite sets, because induction over numbers is not available.
* `FeedbackLogProofs!LogInvariant`: `Spec => []LogInv`, from which follows `PagingMissesNothingHolds`. What
  the reader has not seen is on a page to come (`PageInv`). That survives an insertion because the place
  of an item that keeps its time can only grow (`InsertEffect`), and between the two queries of a page,
  where it has to stay on the pages counted, because it does not move at all unless the
  entry is late; for this no two entries may have the same time (`TimeInv`). That a page asked for
  beyond the last one is the last one does no harm (`PageIsClipped`), and there are enough pages
  (`PagesSuffice`). The invariant was checked by TLC first, on up to 5 entries and pages of 1 and 2.
* `FileIssuesProofs!IssueInvariant`: `Spec => []IssueInv`, from which follow `DuplicatesLeadToOriginalsHolds` and
  the action property `MergeKeepsFindingsHolds`. The run's copy of a file is what is stored but for feedback and, in a
  closed file, for findings that are reported in memory and filtered in the database (`HeldInv`): a list that is not written has
  kept its length, and each of its issues is what it was or took the place of a filtered one. Marks need an invariant
  for each stage of a batch (`DuplicateInv`): none before, one step to an original after the exact search, at most two
  after that of the model; the members of a group agree on its first one, and an original of
  the exact search may have become a member of a semantic group, not more. References are to what the run holds; that the
  database shows the same follows from `HeldInv`. For the merge, the invariant of the entries says what they
  are worth after any number of issues: every issue that could be reported is linked to
  an entry that keeps one, with the first issue of that entry as the link. It is proved by induction over the
  finite set of references. That the recursive function is what its equations say, that a set of references has a first one
  and can be listed in order (by the number of those before) rests
  on the well-foundedness of strict inclusion. The invariant was checked by TLC first.
* `BlockIssuesProofs!FindingInvariant`: `Spec => []FindingInv`, from which follow `KeptAnchored`, `NotGuessed`,
  `OneLineKept` and `SkipsExactly`. The invariant ties a finding to where it comes from: the block is one of the
  change (`BlockInv`), the match is what `Locate` gives for the code of the finding *now* and some line
  it claimed, the lines are those of the match or as claimed, and what is not similar enough is so for a
  reason (`LocationInv`), and a finding is kept without a fault only, and filtered for a fault or by the model
  (`FilterInv`). The rest is about `Locate`. `PickedAt` says what `Picked` picks: the member at place *i* is the one
  with *i* places up to it, in order. From this, numbers are the lines' places in their files (`NewLines`,
  `SideLines`), a block is a part of the change without a gap (`BlockPart`), every window that `Evidence` looks at
  consists of lines of the new file, in order (`WindowLines`), and a line next to a deleted one in a
  block is so in the whole change (`ReviewableGrows`: with any context a diff shows the lines next to a
  deletion, and without context it shows changed lines only). `BestExists` finds a candidate that none is better than, `LocateIs` says what is found.
  For `NotGuessed`, a place where all lines agree is a candidate (`WholeIsCandidate`), and candidates as good as each
  other differ in their range, so that they are finitely many and their number means something
  (`EqualsFinite`, `OnlyOne`). For `SkipsExactly`, the functions that the recursive definitions name exist
  (`ScanStatesIs`, `ScanBlocksIs`), a state of the scan after any line says whether the next one stands in
  a comment of either file (`CommentStep`, `ScannedStep`), and so does the state between two blocks, of whatever
  length (`BlocksAre`, `FollowsBlocks`). The invariant was checked by TLC before it was proved.

All are proved for any number of servers, tasks, runs, triggers, files, blocks, rounds, messages,
weights, budgets, conditions and disturbances, from the assumptions on the constants that the modules name: that
`None` and the worker are no triggers, runs or servers, that limits are natural numbers, that at
least two recent messages are kept, that every block has a file, that a page holds at least one item, that
files have blocks and the equivalence of findings is symmetric, as `_issues_semantically_equivalent` is, in
`Dispatch`, that tasks and servers are finitely many, and, in `BlockIssues`, that a change deletes before it
inserts and changes something, that a finding quotes at least one line that is not blank (`code_comment` refuses it
otherwise), and that the share of lines that must agree lies between 1 and 100 percent.

Only model-checked: `TaskSettles`, `RunsEnd`, `EveryTaskIsServed`, `InversionEnds` and the liveness
part of `ImplementsMainResult`: liveness under fairness is out of the prover's reach, as is `ENABLED`. Every
other property of the passing runs is a theorem. Where a proof needs induction over data, in
`FileIssues`, `Dispatch`, `MainTask`, `FeedbackLog` and `BlockIssues`, it is made for that one definition (the
library's induction theorems take an operator as a parameter), from a smallest counterexample: strict
inclusion of finite sets is well-founded.

## Findings

The `v_` runs are disagreements between the code and what the repository says of it;
`PROJECT.json` quotes the sentence and names the line for each of them. With the
configurations above they come to this: the lease can be cleared or can expire under a run
at work (overlapping triggers, orderly shutdown); the final save of a run and the update
of a manual retry are not conditional on the revision; the retry limit is compared after the
count is raised; a snapshot's save is not conditional on its status, nor does losing a
block count as a change; comments are followed over lines the diff hides; a range is judged by its ends;
closing a file writes over feedback and does not store what took the place of a filtered finding (prompt.md:1313 promises to keep
the more useful of the two); a reference to a duplicate may have the wrong number; a claim may come before a retry is
due; a file may be resumed under other conditions.

Two properties are stated in the modules and hold of the documents only; adding them to a cfg
shows how the code departs from them:

* `MainTask!LastRoundIsKept` (README.md:139, config.md:85: the latest complete tool rounds are
  kept): if the first round has several tool results, compression may drop the round.
* `MainTask!AnswersAreCounted` (README.md:191: totals over all calls): an empty summary, and all rounds of
  a conversation that ends in an exception, are missing from the totals.

Other things met while reading, which no run is about: a snapshot of removed files only
that a newer trigger carries along before the last checkpoint of its run looks for it is never
completed (the proof of `CompletedTaskSettlesSnapshot` brought it out; the model counts it as `late`);
merging a file twice (after a retry) may
merge what one pass keeps apart; a block that only deletes lines and has no line left
around it has no reviewable line, so every place passes the gate; the filter model may also lower confidence and score without
evidence against the finding (README.md:176); the budget deletes completed results of
files it does not reach (README.md:83); the four counts of a summary of the feedback log are four queries, so a
rate may exceed 100 percent while feedback arrives.

## What is left out

* In `ReviewTask`: statistics, scores and mails; several tasks (a preemption is a
  disturbance here, see `Dispatch`); the deletion of tasks and the synchronous review route, which
  takes no lease; which file a block belongs to.
* In `Snapshot`: the lease, the request to interrupt, the retry limit, and the gap
  between check and save in `_finish_task`, all of which are in `ReviewTask`; token
  budgets; a block whose review needs no model (it is saved without a checkpoint); the
  reading and writing of the copies within one checkpoint, which are one step; the
  identity of a file that is deleted and created again. A block under review counts as
  pending, as `_aggregate` does. The files of a run form one batch. The workspace of a
  trigger does not change until its run has read it, and a trigger fails before its
  snapshot is in place or not at all.
* In `Dispatch`: a second submission of a task, and a lease that expires under a run at
  work, which are in `ReviewTask`.
* In `ReviewRun`: changes of the code (`Snapshot`), renamed files, blocks with equal hashes, the order of
  batches by language or directory, scores; a synchronization that breaks off half way (an exception before the first batch
  finds all files synchronized). A run is taken up by one worker at a time.
* In `MainTask`: what prompts and tools say; the backoff between attempts. The elapsed time of a
  file may be over at any round but the first.
* In `BlockIssues`: fields that the tool has refused to accept empty; settings other than the
  defaults. In `FileIssues`: the load and save of one feedback are one step (a second race of
  the same kind as the one shown), numbers of issues on a report that was rendered before, a run that ends within the
  search of a batch between its saves of two files, and changes of the code.
* In `FeedbackLog`: the range of dates, which the page sends with every request, counts and rates.
* Dashboards and the list of tasks: aggregations of stored documents with no state of their own.
* Rules, static analysis, semantic index, related files, exclusions and languages: pure
  functions of files, which prompts are made of.
* Mail, data migration, routes, the front end and deployment: no state that several steps share.

The `FindingInv` of `BlockIssues`, the `IssueInv` of `FileIssues` and the `LogInv` of `FeedbackLog` (in `MCFindings`
together `FindingsTypeOK`) are not in the configurations, because they are theorems; they hold in the
instance of `findings` too, and can be added to it.

## Plan

1. `ReviewTask`. Done, with all its safety properties as theorems.
2. `Snapshot`. Done, with all its safety properties as theorems.
3. `Dispatch` and `TaskQueue`. Done, with `ClaimIsFirst` and the refinement as theorems.
4. `MainTask`, `MainResult` and `BlockResult`. Done, with all their safety properties as theorems.
5. `ReviewRun`. Done, with all its safety properties as theorems.
6. `BlockIssues`, `FileIssues`, `FeedbackLog`. Done, with all their properties as theorems.
7. `FileSync`: `_synchronize_blocks` and `_changed_block_refs` as functions of
   sequences of hashes with duplicates, checked against bag definitions: results are
   kept for as many copies as both sides have, and the changed references are
   what is left. `Snapshot`'s `Synced` and `ChangedBlocks` are its special case without
   duplicates.
8. An abstract task (submitted, under review, at rest) that `ReviewTask` implements.
