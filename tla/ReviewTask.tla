----------------------------- MODULE ReviewTask -----------------------------
(***************************************************************************)
(* The life of one review task document: the triggers that (re)submit it   *)
(* (TaskSubmissionService.trigger), the schedulers that claim it under a   *)
(* lease (ReviewScheduler), the worker runs that review it                 *)
(* (ReviewTaskService.review_task) and the manual retry of its failures    *)
(* (TaskRetryService).                                                     *)
(*                                                                         *)
(* Every action is one atomic MongoDB operation of the code, together with *)
(* the local computation around it; whatever the code does between two     *)
(* such operations can interleave with every other actor.                  *)
(*                                                                         *)
(* A run is named by its lease token: a uuid4 drawn by the claim.          *)
(***************************************************************************)
EXTENDS Integers, FiniteSets

CONSTANTS
    Servers,        \* worker processes, each with one ReviewScheduler
    Runs,           \* lease tokens, hence runs; reused when nobody recalls one
    Triggers,       \* calls of POST /tasks/trigger, one each
    None,
    MaxRetries,     \* settings.scheduler_max_task_retries
    TokenBudget,    \* is it a full scan with a full_scan_token_budget?
    Faults,         \* bound on the disturbances of a behaviour
    FaultKinds      \* which of AllFaults may happen

ASSUME NoneAssumption == None \notin Runs /\ None \notin Servers
ASSUME BoundAssumption == MaxRetries \in Nat /\ Faults \in Nat
ASSUME BudgetAssumption == TokenBudget \in BOOLEAN

\* Preemption for another task, shutdown or crash of a server, the lease of a
\* healthy server running out, the web process dying inside a trigger, a user
\* who retries the failed blocks, and an exception after the task was saved.
AllFaults == {"preempt", "shutdown", "crash", "stall", "trigger_crash", "retry",
              "late_error"}

ASSUME FaultAssumption == FaultKinds \subseteq AllFaults

VARIABLES
    task,      \* the TaskModel document in MongoDB
    left,      \* kinds of unfinished blocks in its CodeFileModel documents
    alive,     \* servers whose scheduler is polling
    active,    \* _active_task / _active_lease_token of each server
    polling,   \* servers between reading the candidates and the claim
    cand,      \* the candidate read by each of them
    pc,        \* where each run is in review_task
    host,      \* the server of each run
    mem,       \* the in-memory TaskModel of each run
    asked,     \* active_trigger_revision of each run
    result,    \* kinds of unfinished blocks the run is about to report
    stop,      \* runs whose stop_event is set
    trig,      \* the triggers
    retrying,  \* is a manual retry between its checks and its update?
    races,     \* history: the races of RaceKinds that have happened
    budget     \* disturbances still to come

taskVars  == <<task, left>>
schedVars == <<alive, active, polling, cand>>
runVars   == <<pc, host, mem, asked, result, stop>>
otherVars == <<trig, retrying, races, budget>>
vars == <<taskVars, schedVars, runVars, otherVars>>

-----------------------------------------------------------------------------
(* Data *)

TaskState == {"PENDING", "RUNNING", "COMPLETED", "PARTIAL", "PREPARING"}

CompletionStatus ==
    {"preparing", "pending", "running", "retry_pending", "retry_running",
     "completed", "partial", "failed", "interrupted", "preparation_failed"}

\* What keeps a block from being reviewed: it has no result yet, its review
\* failed, or its file was skipped because the token budget was used up.
BlockKind == {"pending", "failed", "skipped"}

RetryLimit == IF MaxRetries > 1 THEN MaxRetries ELSE 1

\* retry_count is only ever compared with the limit, so it is kept up to it.
CountRetry(n) == IF n < RetryLimit THEN n + 1 ELSE n

Doc == [state     : TaskState,
        status    : CompletionStatus,
        rev       : Nat,                 \* trigger_revision; 0: no document
        prio      : {0, 100},            \* dispatch_priority
        retryOnly : BOOLEAN,             \* retry_failed_only
        auto      : BOOLEAN,             \* automatic_retry_pending
        retries   : 0 .. RetryLimit,     \* retry_count
        token     : Runs \cup {None},    \* lease_token
        live      : BOOLEAN,             \* lease_expires_at is in the future
        interrupt : BOOLEAN]             \* interrupt_requested

NoDoc == [state |-> "PREPARING", status |-> "preparing", rev |-> 0, prio |-> 0,
          retryOnly |-> FALSE, auto |-> FALSE, retries |-> 0, token |-> None,
          live |-> FALSE, interrupt |-> FALSE]

\* A run before it has given its lease back, and a run past that: its snapshot,
\* its log and its mail, or the handling of an exception in one of them.
ActivePc == {"claimed", "review", "finish", "fatal", "failing",
             "interrupted", "releasing"}
ClosingPc == {"closing", "late_fatal", "late_failing"}

Trigger == [pc      : {"idle", "create", "reload", "begin", "prepare",
                       "publish", "done", "dead"},
            rev     : Nat,        \* the revision this trigger began
            prev    : TaskState,  \* previous_state
            keep    : BOOLEAN,    \* preserve_active_lease
            created : BOOLEAN,
            work    : BOOLEAN]    \* has_pending_work

\* The windows the protocol leaves open. A lease runs out under a run at work; a
\* claim falls between a trigger's look at the task and its update; a trigger
\* looks at a task an earlier trigger took from its run; a trigger comes between
\* a run's last check and its save; a run fails after it has finished; a trigger
\* or a run whose revision is superseded writes files; a retry of failed blocks
\* is queued although blocks became pending since it was checked.
RaceKinds == {"expired", "late_claim", "early_trigger", "late_trigger",
              "late_error", "stale_files", "late_retry"}

NewTrigger == [pc |-> "idle", rev |-> 0, prev |-> "PREPARING", keep |-> FALSE,
               created |-> FALSE, work |-> FALSE]

-----------------------------------------------------------------------------
(* Predicates of the code *)

Active(r) == r \in Runs /\ pc[r] \in ActivePc
HasThread(r) == r \in Runs /\ pc[r] \in ActivePc \cup ClosingPc

\* Mutant: a lease without its expiry.
LeaseNeverExpires(d) == d.token = None

LeaseExpired(d) == d.token = None \/ ~d.live

\* The retry delay (next_retry_time) is time: it may pass at any moment.
Eligible(d) ==
    /\ LeaseExpired(d)
    /\ \/ d.state \in {"PENDING", "RUNNING"}
       \/ /\ d.state = "PARTIAL"
          /\ d.retries < RetryLimit
          /\ d.auto
          /\ d.status \in {"partial", "failed"}

HasActiveWorker(d) == d.state = "RUNNING" /\ ~LeaseExpired(d)

\* Mutant: the state of the task is enough to give the slot up.
ReleasedWhateverTheToken(r) ==
    \/ task.state \in {"PENDING", "COMPLETED", "PARTIAL"}
    \/ task.status \in {"completed", "failed", "interrupted", "partial"}

\* _active_task_released_checkpoint: the slot may be given up, because the
\* database no longer shows the run's token and the task is at rest.
Released(r) ==
    /\ task.token # r
    /\ \/ task.state \in {"PENDING", "COMPLETED", "PARTIAL"}
       \/ task.status \in {"completed", "failed", "interrupted", "partial"}

CheckPasses(r) ==
    /\ r \notin stop
    /\ task.rev = asked[r]
    /\ ~task.interrupt
    /\ task.token = r

\* The run has nothing left to do but to save what it decided on its revision.
MidSave(r) ==
    \/ pc[r] \in {"finish", "failing"}
    \/ pc[r] = "releasing" /\ mem[r].rev = asked[r]

\* Document.save() of the ODM writes the fields whose value differs from the
\* one that was loaded, and no others, without looking at the stored document.
Written(stored, loaded, new) == IF new = loaded THEN stored ELSE new

Saved(loaded, new) ==
    [state     |-> Written(task.state, loaded.state, new.state),
     status    |-> Written(task.status, loaded.status, new.status),
     rev       |-> task.rev,
     prio      |-> Written(task.prio, loaded.prio, new.prio),
     retryOnly |-> Written(task.retryOnly, loaded.retryOnly, new.retryOnly),
     auto      |-> Written(task.auto, loaded.auto, new.auto),
     retries   |-> Written(task.retries, loaded.retries, new.retries),
     token     |-> Written(task.token, loaded.token, new.token),
     live      |-> task.live /\ new.token = loaded.token,
     interrupt |-> Written(task.interrupt, loaded.interrupt, new.interrupt)]

\* A token nobody remembers stands for the next uuid4.
Fresh(r) ==
    /\ ~HasThread(r)
    /\ task.token # r
    /\ \A s \in Servers : active[s] # r /\ cand[s].token # r
    /\ \A x \in Runs : mem[x].token # r

-----------------------------------------------------------------------------
Init ==
    /\ task = NoDoc
    /\ left = {}
    /\ alive = Servers
    /\ active = [s \in Servers |-> None]
    /\ polling = {}
    /\ cand = [s \in Servers |-> NoDoc]
    /\ pc = [r \in Runs |-> "ended"]
    /\ host = [r \in Runs |-> None]
    /\ mem = [r \in Runs |-> NoDoc]
    /\ asked = [r \in Runs |-> 0]
    /\ result = [r \in Runs |-> {}]
    /\ stop = {}
    /\ trig = [t \in Triggers |-> NewTrigger]
    /\ retrying = FALSE
    /\ races = {}
    /\ budget = Faults

-----------------------------------------------------------------------------
(* Runs as threads *)

Goto(r, label) == pc' = [pc EXCEPT ![r] = label]

\* What the runs of a set remember dies with their threads.
Forget(ended) ==
    /\ host' = [r \in Runs |-> IF r \in ended THEN None ELSE host[r]]
    /\ mem' = [r \in Runs |-> IF r \in ended THEN NoDoc ELSE mem[r]]
    /\ asked' = [r \in Runs |-> IF r \in ended THEN 0 ELSE asked[r]]
    /\ result' = [r \in Runs |-> IF r \in ended THEN {} ELSE result[r]]
    /\ stop' = stop \ ended

\* Leaving review_task.
Return(r) ==
    /\ Goto(r, "ended")
    /\ Forget({r})

Note(race, happens) == races' = IF happens THEN races \cup {race} ELSE races

Fault(kind) ==
    /\ kind \in FaultKinds
    /\ budget > 0
    /\ budget' = budget - 1

-----------------------------------------------------------------------------
(* TaskSubmissionService.trigger *)

Advance(t, new) == trig' = [trig EXCEPT ![t] = new]

TrigFind(t) ==
    /\ trig[t].pc = "idle"
    /\ LET next == IF task.rev = 0 THEN "create" ELSE "reload"
       IN Advance(t, [trig[t] EXCEPT !.pc = next])
    /\ UNCHANGED <<taskVars, schedVars, runVars, retrying, races, budget>>

\* The unique submission_key lets one trigger create the document; the others
\* get NotUniqueError and go on as triggers of an existing task.
TrigCreate(t) ==
    /\ trig[t].pc = "create"
    /\ IF task.rev = 0
          THEN /\ task' = [NoDoc EXCEPT !.rev = 1]
               /\ Advance(t, [trig[t] EXCEPT !.pc = "prepare", !.rev = 1,
                                             !.created = TRUE])
          ELSE /\ Advance(t, [trig[t] EXCEPT !.pc = "reload"])
               /\ UNCHANGED task
    /\ UNCHANGED <<left, schedVars, runVars, retrying, races, budget>>

TrigReload(t) ==
    /\ trig[t].pc = "reload"
    /\ Advance(t, [trig[t] EXCEPT !.pc = "begin", !.prev = task.state,
                                  !.keep = HasActiveWorker(task)])
    /\ Note("early_trigger", Active(task.token) /\ task.state # "RUNNING")
    /\ UNCHANGED <<taskVars, schedVars, runVars, retrying, budget>>

\* Mutant: the update that begins a submission takes no new revision.
TrigBeginSameRevision(t) ==
    /\ trig[t].pc = "begin"
    /\ task' = [task EXCEPT !.state = "PREPARING", !.status = "preparing",
                            !.interrupt = TRUE, !.prio = 0, !.retryOnly = FALSE,
                            !.auto = FALSE]
    /\ Advance(t, [trig[t] EXCEPT !.pc = "prepare", !.rev = task.rev])
    /\ Note("late_trigger", \E r \in Runs : MidSave(r))
    /\ UNCHANGED <<left, schedVars, runVars, retrying, budget>>

TrigBegin(t) ==
    /\ trig[t].pc = "begin"
    /\ task' = [task EXCEPT !.state = "PREPARING", !.status = "preparing",
                            !.rev = task.rev + 1, !.interrupt = TRUE,
                            !.prio = 0, !.retryOnly = FALSE, !.auto = FALSE]
    /\ Advance(t, [trig[t] EXCEPT !.pc = "prepare", !.rev = task.rev + 1])
    /\ Note("late_trigger", \E r \in Runs : MidSave(r))
    /\ UNCHANGED <<left, schedVars, runVars, retrying, budget>>

\* What synchronizing the files can leave: blocks without a result, and blocks
\* that already failed and did not change.
SyncOutcomes ==
    {k \in SUBSET {"pending", "failed"} : "failed" \in k => "failed" \in left}

\* Diff, file synchronization and snapshot; nothing in them looks at the revision.
TrigPrepare(t) ==
    /\ trig[t].pc = "prepare"
    /\ \E blocks \in SyncOutcomes, removed \in BOOLEAN :
        /\ left' = blocks
        /\ LET work == \/ blocks # {}
                       \/ /\ ~trig[t].created
                          /\ trig[t].prev # "COMPLETED" \/ removed
           IN Advance(t, [trig[t] EXCEPT !.pc = "publish", !.work = work])
    /\ Note("stale_files", trig[t].rev # task.rev)
    /\ UNCHANGED <<task, schedVars, runVars, retrying, budget>>

Done == [NewTrigger EXCEPT !.pc = "done"]

\* The end of a preparation: the lease is cleared unless it was to be kept.
Published(state, status, keep) ==
    [task EXCEPT !.state = state, !.status = status, !.interrupt = FALSE,
                 !.prio = 0, !.retryOnly = FALSE, !.auto = FALSE,
                 !.token = IF keep THEN task.token ELSE None,
                 !.live = keep /\ task.live]

\* Mutant: a preparation is published without a look at the revision.
TrigPublishAnyRevision(t) ==
    /\ trig[t].pc = "publish"
    /\ Advance(t, Done)
    /\ task' = IF trig[t].work THEN Published("PENDING", "pending", trig[t].keep)
               ELSE Published("COMPLETED", "completed", trig[t].keep)
    /\ UNCHANGED <<left, schedVars, runVars, retrying, races, budget>>

TrigPublish(t) ==
    /\ trig[t].pc = "publish"
    /\ Advance(t, Done)
    /\ task' = IF task.rev # trig[t].rev THEN task
               ELSE IF trig[t].work THEN Published("PENDING", "pending", trig[t].keep)
               ELSE Published("COMPLETED", "completed", trig[t].keep)
    /\ UNCHANGED <<left, schedVars, runVars, retrying, races, budget>>

\* The lease stays as it is.
PreparationFailed ==
    [task EXCEPT !.state = "PARTIAL", !.status = "preparation_failed",
                 !.interrupt = FALSE]

\* Any exception of the preparation, before or after the files were saved.
TrigFail(t) ==
    /\ trig[t].pc = "prepare"
    /\ Advance(t, Done)
    /\ task' = IF task.rev = trig[t].rev THEN PreparationFailed ELSE task
    /\ left' \in {left} \cup SyncOutcomes
    /\ Note("stale_files", left' # left /\ trig[t].rev # task.rev)
    /\ UNCHANGED <<schedVars, runVars, retrying, budget>>

TrigCrash(t) ==
    /\ Fault("trigger_crash")
    /\ trig[t].pc \in {"create", "reload", "begin", "prepare", "publish"}
    /\ Advance(t, [trig[t] EXCEPT !.pc = "dead"])
    /\ UNCHANGED <<taskVars, schedVars, runVars, retrying, races>>

TrigStep(t) ==
    \/ TrigCreate(t)
    \/ TrigReload(t)
    \/ TrigBegin(t)
    \/ TrigPrepare(t)
    \/ TrigPublish(t)
    \/ TrigFail(t)

-----------------------------------------------------------------------------
(* ReviewScheduler *)

\* The finished run, or the one the database no longer knows, leaves the slot.
PollClear(s) ==
    /\ s \in alive
    /\ active[s] # None
    /\ ~HasThread(active[s]) \/ Released(active[s])
    /\ active' = [active EXCEPT ![s] = None]
    /\ UNCHANGED <<taskVars, alive, polling, cand, runVars, otherVars>>

Heartbeat(s) ==
    /\ s \in alive
    /\ Active(active[s])
    /\ task.token = active[s]
    /\ task' = [task EXCEPT !.live = TRUE]
    /\ UNCHANGED <<left, schedVars, runVars, otherVars>>

\* _has_higher_priority_task, of the other tasks in the collection.
Preempt(s) ==
    /\ Fault("preempt")
    /\ s \in alive
    /\ Active(active[s])
    /\ ~Released(active[s])
    /\ stop' = stop \cup {active[s]}
    /\ UNCHANGED <<taskVars, schedVars, pc, host, mem, asked, result, trig,
                   retrying, races>>

ReadCandidate(s) ==
    /\ s \in alive
    /\ active[s] = None
    /\ s \notin polling
    /\ Eligible(task)
    /\ polling' = polling \cup {s}
    /\ cand' = [cand EXCEPT ![s] = task]
    /\ UNCHANGED <<taskVars, alive, active, runVars, otherVars>>

\* Mutants: a claim that compares neither state nor token, or all but the state.
ClaimMatchesRevision(s) ==
    /\ task.rev = cand[s].rev
    /\ task.prio = cand[s].prio
ClaimMatchesAnyState(s) ==
    /\ task.rev = cand[s].rev
    /\ task.prio = cand[s].prio
    /\ task.token = cand[s].token

ClaimMatches(s) ==
    /\ task.state = cand[s].state
    /\ task.rev = cand[s].rev
    /\ task.prio = cand[s].prio
    /\ task.token = cand[s].token

\* The document the claim returns.
Claimed(s, r) ==
    [task EXCEPT
        !.state = "RUNNING",
        !.status = IF cand[s].retryOnly THEN "retry_running" ELSE "running",
        !.token = r, !.live = TRUE, !.auto = FALSE, !.interrupt = FALSE]

\* The claim is made in a thread of its own: when the scheduler was shut down
\* meanwhile, the update still happens and nobody starts the run.
Claim(s) ==
    /\ s \in polling
    /\ ClaimMatches(s)
    /\ \E r \in Runs :
        /\ Fresh(r)
        /\ task' = Claimed(s, r)
        /\ IF s \in alive
              THEN /\ active' = [active EXCEPT ![s] = r]
                   /\ Goto(r, "claimed")
                   /\ host' = [host EXCEPT ![r] = s]
                   /\ mem' = [mem EXCEPT ![r] = Claimed(s, r)]
                   /\ asked' = [asked EXCEPT ![r] = task.rev]
              ELSE /\ Goto(r, "dead")
                   /\ UNCHANGED <<active, host, mem, asked>>
    /\ polling' = polling \ {s}
    /\ cand' = [cand EXCEPT ![s] = NoDoc]
    /\ Note("late_claim", \E t \in Triggers : trig[t].pc = "begin")
    /\ UNCHANGED <<left, alive, result, stop, trig, retrying, budget>>

ClaimLost(s) ==
    /\ s \in polling
    /\ ~ClaimMatches(s)
    /\ polling' = polling \ {s}
    /\ cand' = [cand EXCEPT ![s] = NoDoc]
    /\ UNCHANGED <<taskVars, alive, active, runVars, otherVars>>

Shutdown(s) ==
    /\ Fault("shutdown")
    /\ s \in alive
    /\ alive' = alive \ {s}
    /\ stop' = IF Active(active[s]) THEN stop \cup {active[s]} ELSE stop
    /\ UNCHANGED <<taskVars, active, polling, cand, pc, host, mem, asked, result,
                   trig, retrying, races>>

ThreadsOf(s) == {r \in Runs : HasThread(r) /\ host[r] = s}

\* The end of the process, with every thread in it.
Halt(s) ==
    /\ alive' = alive \ {s}
    /\ active' = [active EXCEPT ![s] = None]
    /\ polling' = polling \ {s}
    /\ cand' = [cand EXCEPT ![s] = NoDoc]
    /\ pc' = [r \in Runs |-> IF r \in ThreadsOf(s) THEN "dead" ELSE pc[r]]
    /\ Forget(ThreadsOf(s))
    /\ UNCHANGED <<taskVars, trig, retrying, races>>

Crash(s) ==
    /\ Fault("crash")
    /\ s \in alive
    /\ Halt(s)

HasThreads(s) ==
    \/ active[s] # None
    \/ s \in polling
    \/ ThreadsOf(s) # {}

\* wait_for_shutdown returned or gave up, and the process exits.
Exit(s) ==
    /\ s \notin alive
    /\ HasThreads(s)
    /\ Halt(s)
    /\ UNCHANGED budget

Restart(s) ==
    /\ s \notin alive
    /\ ~HasThreads(s)
    /\ alive' = alive \cup {s}
    /\ UNCHANGED <<taskVars, active, polling, cand, runVars, otherVars>>

Renewed(r) == Active(r) /\ \E s \in alive : active[s] = r

\* Time: a lease that nobody renews runs out.
LeaseExpires ==
    /\ task.token # None
    /\ task.live
    /\ ~Renewed(task.token)
    /\ task' = [task EXCEPT !.live = FALSE]
    /\ Note("expired", Active(task.token))
    /\ UNCHANGED <<left, schedVars, runVars, trig, retrying, budget>>

\* A blocked event loop or a database outage: the next heartbeat is late.
Stall ==
    /\ Fault("stall")
    /\ Renewed(task.token)
    /\ task.live
    /\ task' = [task EXCEPT !.live = FALSE]
    /\ Note("expired", TRUE)
    /\ UNCHANGED <<left, schedVars, runVars, trig, retrying>>

-----------------------------------------------------------------------------
(* ReviewTaskService.review_task *)

\* The first save writes nothing the claim has not written.
RunStart(r) ==
    /\ pc[r] = "claimed"
    /\ Goto(r, IF CheckPasses(r) THEN "review" ELSE "interrupted")
    /\ UNCHANGED <<taskVars, schedVars, host, mem, asked, result, stop, otherVars>>

\* What a review can leave: a retry of failed blocks looks at no other file.
Reviewed(r) ==
    {k \in SUBSET BlockKind :
        /\ "skipped" \in k => TokenBudget
        /\ mem[r].retryOnly =>
              /\ "pending" \in k <=> "pending" \in left
              /\ "skipped" \in left => "skipped" \in k}

\* The files of a run that is triggered over are not its own any more.
SaveFiles(r) ==
    /\ left' \in Reviewed(r)
    /\ Note("stale_files", left' # left /\ task.rev # asked[r])

\* The review up to the last checkpoint of _finish_task. By then every file that
\* was to be reviewed is completed, partial (failed blocks) or skipped, and only
\* those two are incomplete to _finish_task.
RunReview(r) ==
    /\ pc[r] = "review"
    /\ SaveFiles(r)
    /\ IF CheckPasses(r)
          THEN /\ "pending" \in left' => mem[r].retryOnly
               /\ Goto(r, "finish")
               /\ result' = [result EXCEPT ![r] = left' \ {"pending"}]
          ELSE /\ Goto(r, "interrupted")
               /\ UNCHANGED result
    /\ UNCHANGED <<task, schedVars, host, mem, asked, stop, trig, retrying, budget>>

\* Any other exception of the review.
RunRaise(r) ==
    /\ pc[r] = "review"
    /\ SaveFiles(r)
    /\ Goto(r, "fatal")
    /\ UNCHANGED <<task, schedVars, host, mem, asked, result, stop, trig, retrying,
                   budget>>

RetryFields(r, again) ==
    LET n == CountRetry(mem[r].retries)
    IN [mem[r] EXCEPT !.state = "PARTIAL", !.retries = n, !.prio = 0,
                      !.retryOnly = FALSE, !.auto = again /\ n < RetryLimit,
                      !.token = None, !.live = FALSE]

Finished(r) ==
    IF result[r] = {}
      THEN [mem[r] EXCEPT !.state = "COMPLETED", !.status = "completed",
                          !.prio = 0, !.retryOnly = FALSE, !.auto = FALSE,
                          !.token = None, !.live = FALSE]
      ELSE [RetryFields(r, "failed" \in result[r]) EXCEPT !.status = "partial"]

RunFinish(r) ==
    /\ pc[r] = "finish"
    /\ task' = Saved(mem[r], Finished(r))
    /\ Goto(r, "closing")
    /\ mem' = [mem EXCEPT ![r] = Finished(r)]
    /\ UNCHANGED <<left, schedVars, host, asked, result, stop, otherVars>>

\* The snapshot, the log and the mail are done.
RunClose(r) ==
    /\ pc[r] = "closing"
    /\ Return(r)
    /\ UNCHANGED <<taskVars, schedVars, otherVars>>

\* One of them raised, with the task already saved.
RunLateRaise(r) ==
    /\ Fault("late_error")
    /\ pc[r] = "closing"
    /\ Goto(r, "late_fatal")
    /\ Note("late_error", TRUE)
    /\ UNCHANGED <<taskVars, schedVars, host, mem, asked, result, stop, trig,
                   retrying>>

RunFatal(r) ==
    /\ pc[r] = "fatal"
    /\ Goto(r, IF task.rev = asked[r] THEN "failing" ELSE "interrupted")
    /\ UNCHANGED <<taskVars, schedVars, host, mem, asked, result, stop, otherVars>>

Failed(r) == [RetryFields(r, TRUE) EXCEPT !.status = "failed"]

RunFail(r) ==
    /\ pc[r] = "failing"
    /\ task' = Saved(mem[r], Failed(r))
    /\ Return(r)
    /\ UNCHANGED <<left, schedVars, trig, retrying, races, budget>>

\* The same handler once the task is saved: a run that was triggered over has no
\* lease and no revision left to release.
RunLateFatal(r) ==
    /\ pc[r] = "late_fatal"
    /\ IF task.rev = asked[r]
          THEN /\ Goto(r, "late_failing")
               /\ UNCHANGED <<host, mem, asked, result, stop>>
          ELSE Return(r)
    /\ UNCHANGED <<taskVars, schedVars, otherVars>>

RunLateFail(r) ==
    /\ pc[r] = "late_failing"
    /\ task' = Saved(mem[r], Failed(r))
    /\ Return(r)
    /\ UNCHANGED <<left, schedVars, trig, retrying, races, budget>>

\* _mark_task_interrupted, first half: load the document.
RunLoad(r) ==
    /\ pc[r] = "interrupted"
    /\ Goto(r, "releasing")
    /\ mem' = [mem EXCEPT ![r] = task]
    /\ UNCHANGED <<taskVars, schedVars, host, asked, result, stop, otherVars>>

\* Mutants: the lease is left in the document, and the revision is not compared.
OwnsNoLease(r) == FALSE
AnyRevision(r) == TRUE

OwnsLease(r) == mem[r].token = r
SameRevision(r) == mem[r].rev = asked[r]

\* Mutant: the task does not go back to the queue.
InterruptedStillRunning(r) ==
    IF OwnsLease(r) THEN [mem[r] EXCEPT !.token = None, !.live = FALSE] ELSE mem[r]
Interrupted(r) ==
    LET own  == IF OwnsLease(r)
                  THEN [mem[r] EXCEPT !.token = None, !.live = FALSE]
                  ELSE mem[r]
    IN IF SameRevision(r)
         THEN [own EXCEPT !.state = "PENDING", !.status = "interrupted",
                          !.interrupt = FALSE]
         ELSE own

\* _mark_task_interrupted, second half: save what was changed in it.
RunRelease(r) ==
    /\ pc[r] = "releasing"
    /\ task' = Saved(mem[r], Interrupted(r))
    /\ Return(r)
    /\ UNCHANGED <<left, schedVars, trig, retrying, races, budget>>

RunStep(r) ==
    \/ RunStart(r)
    \/ RunReview(r)
    \/ RunRaise(r)
    \/ RunFinish(r)
    \/ RunClose(r)
    \/ RunFatal(r)
    \/ RunFail(r)
    \/ RunLateFatal(r)
    \/ RunLateFail(r)
    \/ RunLoad(r)
    \/ RunRelease(r)

-----------------------------------------------------------------------------
(* TaskRetryService.request_failed_retry *)

RetryCheck ==
    /\ Fault("retry")
    /\ ~retrying
    /\ task.state = "PARTIAL"
    /\ "failed" \in left /\ "pending" \notin left
    /\ retrying' = TRUE
    /\ UNCHANGED <<taskVars, schedVars, runVars, trig, races>>

RetryMatches == task.state = "PARTIAL" /\ task.token = None

RetryQueue ==
    /\ retrying
    /\ retrying' = FALSE
    /\ task' = IF RetryMatches
                 THEN [task EXCEPT !.state = "PENDING", !.status = "retry_pending",
                                   !.prio = 100, !.retryOnly = TRUE,
                                   !.auto = FALSE, !.interrupt = FALSE]
                 ELSE task
    /\ Note("late_retry", RetryMatches /\ "pending" \in left)
    /\ UNCHANGED <<left, schedVars, runVars, trig, budget>>

-----------------------------------------------------------------------------
SchedStep(s) ==
    \/ PollClear(s)
    \/ Heartbeat(s)
    \/ ReadCandidate(s)
    \/ Claim(s)
    \/ ClaimLost(s)
    \/ Exit(s)
    \/ Restart(s)

Next ==
    \/ \E t \in Triggers : TrigFind(t) \/ TrigStep(t) \/ TrigCrash(t)
    \/ \E s \in Servers : SchedStep(s) \/ Preempt(s) \/ Shutdown(s) \/ Crash(s)
    \/ \E r \in Runs : RunStep(r) \/ RunLateRaise(r)
    \/ LeaseExpires
    \/ Stall
    \/ RetryCheck
    \/ RetryQueue

Spec == Init /\ [][Next]_vars

\* Threads and polls go on, time passes and a stopped process is restarted;
\* users and faults owe nothing. A heartbeat needs no fairness here, because a
\* lease only runs out when the action above lets it.
Fairness ==
    /\ \A t \in Triggers : WF_vars(TrigStep(t))
    /\ \A s \in Servers :
        /\ WF_vars(PollClear(s))
        /\ WF_vars(ReadCandidate(s))
        /\ WF_vars(Claim(s))
        /\ WF_vars(ClaimLost(s))
        /\ WF_vars(Exit(s))
        /\ WF_vars(Restart(s))
    /\ \A r \in Runs : WF_vars(RunStep(r))
    /\ WF_vars(LeaseExpires)
    /\ WF_vars(RetryQueue)

FairSpec == Spec /\ Fairness

-----------------------------------------------------------------------------
(* Properties *)

TypeOK ==
    /\ task \in Doc
    /\ left \in SUBSET BlockKind
    /\ alive \in SUBSET Servers
    /\ active \in [Servers -> Runs \cup {None}]
    /\ polling \in SUBSET Servers
    /\ cand \in [Servers -> Doc]
    /\ pc \in [Runs -> ActivePc \cup ClosingPc \cup {"ended", "dead"}]
    /\ host \in [Runs -> Servers \cup {None}]
    /\ mem \in [Runs -> Doc]
    /\ asked \in [Runs -> Nat]
    /\ result \in [Runs -> SUBSET BlockKind]
    /\ stop \in SUBSET Runs
    /\ trig \in [Triggers -> Trigger]
    /\ retrying \in BOOLEAN
    /\ races \in SUBSET RaceKinds
    /\ budget \in Nat

\* Outside the races every run at work holds the lease, so there is one
\* at most, whatever triggers, crashes, shutdowns and schedulers do.
LeaseExclusion == races = {} => \A r \in Runs : Active(r) => task.token = r

\* A run never leaves its lease behind, whichever way it ends: the document
\* names a run at work, or one whose process died.
LeaseHasHolder == task.token # None => pc[task.token] \in ActivePc \cup {"dead"}

\* A scheduler gives up the slot of a run at work only when the run has lost
\* the lease for good, so no lease is held that nobody renews.
DetachedOwnsNothing ==
    \A r \in Runs : Active(r) /\ host[r] \in alive /\ task.token = r
                       => active[host[r]] = r

\* An interrupt request stands for a trigger that is still preparing (or died
\* doing so): a leftover would stop every later run at its first checkpoint.
InterruptHasRequester ==
    task.interrupt => \E t \in Triggers :
        /\ trig[t].rev = task.rev
        /\ trig[t].pc \in {"prepare", "publish", "dead"}

\* Two triggers in progress never hold the same revision.
RevisionsUnique ==
    \A t, u \in Triggers : trig[t].rev = trig[u].rev /\ trig[t].rev # 0 => t = u

\* Outside the races a completed task has no block left to review: neither a
\* run nor a superseded trigger reports an end that a newer submission undid.
CompletedIsComplete == races = {} /\ task.state = "COMPLETED" => left = {}

\* Outside the races a running task has a lease, without which any scheduler
\* would claim it again.
RunningIsLeased == races = {} /\ task.state = "RUNNING" => task.token # None

\* A completed task is only reopened by a trigger; an interrupted run, a retry
\* or a claim never sends it back to the queue.
CompletedIsFinal ==
    [][task.state = "COMPLETED" /\ task'.state # "COMPLETED" /\ races' = {}
         => task'.rev > task.rev]_vars

\* config.md on several servers: they do not execute a task twice.
NoDuplicateExecution == \A r, x \in Runs : Active(r) /\ Active(x) => r = x

\* The test of _finish_task: it does not overwrite a newer trigger's revision.
FinishKeepsNewerTrigger ==
    [][\A r \in Runs : pc[r] = "finish" /\ pc'[r] = "closing" /\ task.rev # asked[r]
         => task'.state = task.state]_vars

\* config.md on the backoff: after the first, the second and the third failure a
\* task waits for its automatic retry, the default limit being three.
FailuresUpToTheLimitAreRetried ==
    [][\A r \in Runs :
         pc[r] = "failing" /\ pc'[r] = "ended" /\ mem[r].retries < RetryLimit
            => task'.auto]_vars

\* README.md on a retry: it reviews what failed and what was left open. So a
\* task completed after one has no block without a result.
RetryLeavesNothingOpen ==
    races \subseteq {"late_retry"} /\ task.state = "COMPLETED" => left = {}

\* The task comes to rest: completed, or partial with no automatic retry due.
AtRest ==
    \/ task.rev = 0
    \/ task.state = "COMPLETED"
    \/ task.state = "PARTIAL" /\ ~Eligible([task EXCEPT !.token = None])

TaskSettles == <>[]AtRest

-----------------------------------------------------------------------------
(* The inductive strengthening of LeaseExclusion, LeaseHasHolder and           *)
(* DetachedOwnsNothing.                                                        *)

Preparing(t) == trig[t].pc \in {"prepare", "publish"}

\* A trigger and a run are never ahead of the document, and no two triggers
\* share a revision.
RevisionInv ==
    /\ \A t \in Triggers :
        /\ trig[t].rev <= task.rev
        /\ Preparing(t) => trig[t].rev > 0
    /\ \A r \in Runs : asked[r] <= task.rev
    /\ RevisionsUnique

\* Before the first trigger there is nothing to claim and nobody at work.
EmptyInv ==
    task.rev = 0 => /\ task.state = "PREPARING"
                    /\ task.token = None
                    /\ \A r \in Runs : ~HasThread(r)

\* A run knows its own lease until it has read that it lost it, and a lost
\* lease does not come back.
MemoryInv ==
    \A r \in Runs :
        /\ Active(r) /\ pc[r] # "releasing" => mem[r].token = r
        /\ pc[r] = "releasing" /\ mem[r].token # r => task.token # r
        /\ pc[r] \in ClosingPc => mem[r].token = None

CandidateInv == \A s \in polling : Eligible(cand[s])

\* What the absence of races guarantees.
CalmInv ==
    /\ \A r \in Runs : Active(r) => task.token = r
    /\ Active(task.token) => task.live
    /\ \A s \in polling : ~Active(cand[s].token)
    /\ \A t \in Triggers :
        /\ trig[t].pc = "begin" /\ ~trig[t].keep => ~Active(task.token)
        /\ Preparing(t) /\ trig[t].rev = task.rev =>
              /\ task.state = "PREPARING"
              /\ ~trig[t].keep => ~Active(task.token)
              /\ \A r \in Runs : Active(r) => asked[r] # task.rev
    /\ \A r \in Runs : MidSave(r) => asked[r] = task.rev
    /\ \A r \in Runs : pc[r] \notin {"late_fatal", "late_failing"}

\* The inductive invariant: each conjunct is kept by every step of the code.
IInv ==
    /\ TypeOK
    /\ RevisionInv
    /\ EmptyInv
    /\ MemoryInv
    /\ CandidateInv
    /\ LeaseHasHolder
    /\ DetachedOwnsNothing
    /\ races = {} => CalmInv

-----------------------------------------------------------------------------
(* The inductive strengthening of CompletedIsComplete, RunningIsLeased and     *)
(* InterruptHasRequester.                                                      *)

\* What a run has read: the task as it claimed it, or as it was when it was
\* interrupted, which is no older.
CopyInv ==
    \A r \in Runs :
        /\ pc[r] \in ActivePc \ {"releasing"} =>
              mem[r].state = "RUNNING" /\ ~mem[r].auto
        /\ pc[r] = "releasing" => asked[r] <= mem[r].rev /\ mem[r].rev <= task.rev

\* The run of the current revision is the one that made the task RUNNING, and its
\* copy of the task is still true.
OwnerInv ==
    \A r \in Runs :
        /\ Active(r) => (task.state = "RUNNING" <=> asked[r] = task.rev)
        /\ Active(r) /\ pc[r] # "releasing" /\ asked[r] = task.rev =>
              mem[r].retryOnly = task.retryOnly
        /\ pc[r] = "releasing" /\ mem[r].rev = asked[r] => mem[r].state = "RUNNING"

\* What is about to be reported is true: the result of a run, a submission that
\* found no work, and a retry, which looks at nothing that is pending.
ReportInv ==
    /\ \A r \in Runs : pc[r] = "finish" => result[r] = left
    /\ \A t \in Triggers :
          trig[t].pc = "publish" /\ trig[t].rev = task.rev /\ ~trig[t].work => left = {}
    /\ task.retryOnly => "pending" \notin left
    /\ task.state = "PREPARING" => ~task.retryOnly

\* CompletedIsComplete and RunningIsLeased, without races; an automatic retry is only
\* announced below the limit.
StateInv ==
    /\ task.state = "COMPLETED" => left = {}
    /\ task.state = "RUNNING" => task.token # None
    /\ task.auto => task.state = "PARTIAL" /\ task.retries < RetryLimit

TaskInv ==
    /\ IInv
    /\ CopyInv
    /\ InterruptHasRequester
    /\ races = {} => OwnerInv /\ ReportInv /\ StateInv

=============================================================================
