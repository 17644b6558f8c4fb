--------------------------- MODULE ReviewTaskProofs ---------------------------
(***************************************************************************)
(* ReviewTask, proved for every instance: any sets of servers, runs and    *)
(* triggers and any bound on the disturbances.                             *)
(*                                                                         *)
(* First the types and the lease protocol: IInv is inductive, and the      *)
(* lease properties follow from it.  One lemma per conjunct of IInv, with  *)
(* one step per action that can disturb it.  What the exits of a run, the  *)
(* end of a process and a claim do to the lease is stated before.          *)
(*                                                                         *)
(* Then what the task document says of the work: TaskInv is inductive, and *)
(* from it follow what a completed, a running and an automatically retried *)
(* task promise, and that only a trigger reopens a completed one.  The     *)
(* argument: outside the races, the run of the current revision holds the  *)
(* lease from its claim to its save, the task is RUNNING exactly that      *)
(* long, and neither a trigger nor a retry writes files meanwhile.         *)
(***************************************************************************)
EXTENDS ReviewTask, TLAPS

USE NoneAssumption, BoundAssumption

-----------------------------------------------------------------------------
(* Types: documents stay documents                                          *)

\* The retry counter stays within its range when it is advanced.
LEMMA CountRetryType ==
    ASSUME NEW n \in 0 .. RetryLimit
    PROVE  RetryLimit \in Nat /\ CountRetry(n) \in 0 .. RetryLimit
  BY DEF RetryLimit, CountRetry

\* A save of one well-formed document over another leaves one.
LEMMA SavedType ==
    ASSUME task \in Doc, NEW loaded \in Doc, NEW new \in Doc
    PROVE  Saved(loaded, new) \in Doc
  BY DEF Saved, Written, Doc

\* The document with no trigger yet is well formed.
LEMMA NoDocType == NoDoc \in Doc
  <1>1. 0 \in 0 .. RetryLimit
    BY DEF RetryLimit
  <1>2. QED
    BY <1>1 DEF NoDoc, Doc, TaskState, CompletionStatus

\* What the exits of a run save is well formed.
LEMMA ExitTypes ==
    ASSUME TypeOK, NEW r \in Runs
    PROVE  /\ Finished(r) \in Doc
           /\ Failed(r) \in Doc
           /\ Interrupted(r) \in Doc
  <1>1. mem[r] \in Doc /\ result[r] \in SUBSET BlockKind
    BY DEF TypeOK
  <1>2. CountRetry(mem[r].retries) \in 0 .. RetryLimit
    BY <1>1, CountRetryType DEF Doc
  <1>3. ASSUME NEW again \in BOOLEAN, NEW st \in CompletionStatus
        PROVE  [RetryFields(r, again) EXCEPT !.status = st] \in Doc
    BY <1>1, <1>2 DEF RetryFields, Doc, TaskState
  <1>4. Finished(r) \in Doc
    <2>1. CASE result[r] = {}
      BY <2>1, <1>1 DEF Finished, Doc, TaskState, CompletionStatus
    <2>2. CASE result[r] # {}
      <3> DEFINE again == "failed" \in result[r]
      <3>1. again \in BOOLEAN /\ "partial" \in CompletionStatus
        BY DEF CompletionStatus
      <3>2. [RetryFields(r, again) EXCEPT !.status = "partial"] \in Doc
        BY <3>1, <1>3
      <3>3. QED
        BY <3>2, <2>2 DEF Finished
    <2>3. QED
      BY <2>1, <2>2
  <1>5. Interrupted(r) \in Doc
    <2>1. ASSUME NEW d \in Doc
          PROVE  /\ [d EXCEPT !.token = None, !.live = FALSE] \in Doc
                 /\ [d EXCEPT !.state = "PENDING", !.status = "interrupted",
                              !.interrupt = FALSE] \in Doc
      BY <2>1 DEF Doc, TaskState, CompletionStatus
    <2> DEFINE own == IF OwnsLease(r)
                        THEN [mem[r] EXCEPT !.token = None, !.live = FALSE]
                        ELSE mem[r]
    <2>2. own \in Doc
      BY <1>1, <2>1
    <2> HIDE DEF own
    <2>3. Interrupted(r) = IF SameRevision(r)
                             THEN [own EXCEPT !.state = "PENDING",
                                              !.status = "interrupted",
                                              !.interrupt = FALSE]
                             ELSE own
      BY DEF Interrupted, own
    <2>4. QED
      BY <2>1, <2>2, <2>3
  <1>6. QED
    BY <1>3, <1>4, <1>5 DEF CompletionStatus, Failed

-----------------------------------------------------------------------------
(* Type correctness *)

\* What the end of a set of runs resets keeps its type.
LEMMA ForgetType ==
    ASSUME TypeOK, NEW ended \in SUBSET Runs, Forget(ended)
    PROVE  /\ host' \in [Runs -> Servers \cup {None}]
           /\ mem' \in [Runs -> Doc]
           /\ asked' \in [Runs -> Nat]
           /\ result' \in [Runs -> SUBSET BlockKind]
           /\ stop' \in SUBSET Runs
  BY NoDocType DEF TypeOK, Forget

\* Recording a race keeps the history a set of races.
LEMMA NoteType ==
    ASSUME TypeOK, NEW race \in RaceKinds, NEW happens, Note(race, happens)
    PROVE  races' \in SUBSET RaceKinds
  BY DEF TypeOK, Note

\* The type invariant holds in every initial state.
LEMMA InitType == Init => TypeOK
  <1>1. NewTrigger \in Trigger
    BY DEF NewTrigger, Trigger, TaskState
  <1> SUFFICES ASSUME Init
               PROVE  TypeOK
    OBVIOUS
  <1>2. task \in Doc /\ cand \in [Servers -> Doc] /\ mem \in [Runs -> Doc]
    BY NoDocType DEF Init
  <1>3. trig \in [Triggers -> Trigger]
    BY <1>1 DEF Init
  <1>4. /\ pc \in [Runs -> ActivePc \cup ClosingPc \cup {"ended", "dead"}]
        /\ active \in [Servers -> Runs \cup {None}]
        /\ host \in [Runs -> Servers \cup {None}]
        /\ asked \in [Runs -> Nat]
        /\ result \in [Runs -> SUBSET BlockKind]
    BY DEF Init
  <1>5. QED
    BY <1>2, <1>3, <1>4 DEF Init, TypeOK

\* A trigger advances to a well-formed trigger.
LEMMA AdvanceType ==
    ASSUME TypeOK, NEW t \in Triggers, NEW new \in Trigger, Advance(t, new)
    PROVE  trig' \in [Triggers -> Trigger]
  BY DEF TypeOK, Advance

\* What publishing a preparation writes is well formed.
LEMMA PublishedType ==
    ASSUME task \in Doc, NEW state \in TaskState,
           NEW status \in CompletionStatus, NEW keep \in BOOLEAN
    PROVE  Published(state, status, keep) \in Doc
  <1> DEFINE token == IF keep THEN task.token ELSE None
             live == keep /\ task.live
  <1>1. token \in Runs \cup {None} /\ live \in BOOLEAN
    BY DEF Doc
  <1> HIDE DEF token, live
  <1>2. [task EXCEPT !.state = state, !.status = status, !.interrupt = FALSE,
                     !.prio = 0, !.retryOnly = FALSE, !.auto = FALSE,
                     !.token = token, !.live = live] \in Doc
    BY <1>1 DEF Doc
  <1>3. QED
    BY <1>2 DEF Published, token, live

\* A step of a trigger keeps the types.
LEMMA TriggerType ==
    ASSUME TypeOK, NEW t \in Triggers,
           TrigFind(t) \/ TrigStep(t) \/ TrigCrash(t)
    PROVE  TypeOK'
  <1> USE DEF taskVars, schedVars, runVars
  <1>0. task \in Doc /\ trig \in [Triggers -> Trigger] /\ trig[t] \in Trigger
    BY DEF TypeOK
  <1>d. Done \in Trigger
    BY DEF Done, NewTrigger, Trigger, TaskState
  <1>1. CASE TrigFind(t)
    <2>1. ASSUME NEW next \in {"create", "reload"}
          PROVE  [trig[t] EXCEPT !.pc = next] \in Trigger
      BY <1>0 DEF Trigger
    <2>2. trig' \in [Triggers -> Trigger]
      BY <1>1, <2>1, AdvanceType DEF TrigFind
    <2>3. QED
      BY <1>1, <2>2 DEF TypeOK, TrigFind
  <1>2. CASE TrigCreate(t)
    <2>1. [NoDoc EXCEPT !.rev = 1] \in Doc
      BY NoDocType DEF Doc
    <2>2. /\ [trig[t] EXCEPT !.pc = "prepare", !.rev = 1, !.created = TRUE] \in Trigger
          /\ [trig[t] EXCEPT !.pc = "reload"] \in Trigger
      BY <1>0 DEF Trigger
    <2>3. trig' \in [Triggers -> Trigger]
      BY <1>2, <2>2, AdvanceType DEF TrigCreate
    <2>4. QED
      BY <1>0, <1>2, <2>1, <2>3 DEF TypeOK, TrigCreate
  <1>3. CASE TrigReload(t)
    <2>1. task.state \in TaskState /\ HasActiveWorker(task) \in BOOLEAN
      BY <1>0 DEF Doc, HasActiveWorker, LeaseExpired
    <2>2. ASSUME NEW state \in TaskState, NEW keep \in BOOLEAN
          PROVE  [trig[t] EXCEPT !.pc = "begin", !.prev = state, !.keep = keep]
                    \in Trigger
      BY <1>0 DEF Trigger
    <2>3. trig' \in [Triggers -> Trigger]
      BY <1>3, <2>1, <2>2, AdvanceType DEF TrigReload
    <2>4. races' \in SUBSET RaceKinds
      BY <1>3, NoteType DEF TrigReload, RaceKinds
    <2>5. QED
      BY <1>3, <2>3, <2>4 DEF TypeOK, TrigReload
  <1>4. CASE TrigBegin(t)
    <2>1. task.rev + 1 \in Nat
      BY <1>0 DEF Doc
    <2>2. ASSUME NEW rev \in Nat
          PROVE  /\ [task EXCEPT !.state = "PREPARING", !.status = "preparing",
                                 !.rev = rev, !.interrupt = TRUE, !.prio = 0,
                                 !.retryOnly = FALSE, !.auto = FALSE] \in Doc
                 /\ [trig[t] EXCEPT !.pc = "prepare", !.rev = rev] \in Trigger
      <3>1. [task EXCEPT !.state = "PREPARING", !.status = "preparing",
                         !.rev = rev, !.interrupt = TRUE, !.prio = 0,
                         !.retryOnly = FALSE, !.auto = FALSE] \in Doc
        BY <1>0 DEF Doc, TaskState, CompletionStatus
      <3>2. [trig[t] EXCEPT !.pc = "prepare", !.rev = rev] \in Trigger
        BY <1>0 DEF Trigger
      <3>3. QED
        BY <3>1, <3>2
    <2>3. task' \in Doc
      BY <1>4, <2>1, <2>2 DEF TrigBegin
    <2>4. trig' \in [Triggers -> Trigger]
      BY <1>4, <2>1, <2>2, AdvanceType DEF TrigBegin
    <2>5. races' \in SUBSET RaceKinds
      BY <1>4, NoteType DEF TrigBegin, RaceKinds
    <2>6. QED
      BY <1>4, <2>3, <2>4, <2>5 DEF TypeOK, TrigBegin
  <1>5. CASE TrigPrepare(t)
    <2>1. left' \in SUBSET BlockKind
      BY <1>5 DEF TypeOK, TrigPrepare, SyncOutcomes, BlockKind
    <2>2. ASSUME NEW work \in BOOLEAN
          PROVE  [trig[t] EXCEPT !.pc = "publish", !.work = work] \in Trigger
      BY <1>0 DEF Trigger
    <2>3. trig' \in [Triggers -> Trigger]
      BY <1>0, <1>5, <2>2, AdvanceType DEF TrigPrepare
    <2>4. races' \in SUBSET RaceKinds
      BY <1>5, NoteType DEF TrigPrepare, RaceKinds
    <2>5. QED
      BY <1>5, <2>1, <2>3, <2>4 DEF TypeOK, TrigPrepare
  <1>6. CASE TrigPublish(t)
    <2>1. trig[t].keep \in BOOLEAN
      BY <1>0 DEF Trigger
    <2>2. /\ Published("PENDING", "pending", trig[t].keep) \in Doc
          /\ Published("COMPLETED", "completed", trig[t].keep) \in Doc
      BY <1>0, <2>1, PublishedType DEF TaskState, CompletionStatus
    <2>3. task' \in Doc
      BY <1>0, <1>6, <2>2 DEF TrigPublish
    <2>4. trig' \in [Triggers -> Trigger]
      BY <1>6, <1>d, AdvanceType DEF TrigPublish
    <2>5. QED
      BY <1>6, <2>3, <2>4 DEF TypeOK, TrigPublish
  <1>7. CASE TrigFail(t)
    <2>1. PreparationFailed \in Doc
      BY <1>0 DEF PreparationFailed, Doc, TaskState, CompletionStatus
    <2>2. task' \in Doc
      BY <1>0, <1>7, <2>1 DEF TrigFail
    <2>3. trig' \in [Triggers -> Trigger]
      BY <1>7, <1>d, AdvanceType DEF TrigFail
    <2>4. left' \in SUBSET BlockKind
      BY <1>7 DEF TypeOK, TrigFail, SyncOutcomes, BlockKind
    <2>5. races' \in SUBSET RaceKinds
      BY <1>7, NoteType DEF TrigFail, RaceKinds
    <2>6. QED
      BY <1>7, <2>2, <2>3, <2>4, <2>5 DEF TypeOK, TrigFail
  <1>8. CASE TrigCrash(t)
    <2>1. [trig[t] EXCEPT !.pc = "dead"] \in Trigger
      BY <1>0 DEF Trigger
    <2>2. trig' \in [Triggers -> Trigger]
      BY <1>8, <2>1, AdvanceType DEF TrigCrash
    <2>3. QED
      BY <1>8, <2>2 DEF TypeOK, TrigCrash, Fault
  <1>9. QED
    BY <1>1, <1>2, <1>3, <1>4, <1>5, <1>6, <1>7, <1>8 DEF TrigStep

\* What a claim writes is well formed.
LEMMA ClaimedType ==
    ASSUME task \in Doc, NEW s \in Servers, NEW r \in Runs
    PROVE  Claimed(s, r) \in Doc
  <1> DEFINE status == IF cand[s].retryOnly THEN "retry_running" ELSE "running"
  <1>1. status \in CompletionStatus
    BY DEF CompletionStatus
  <1> HIDE DEF status
  <1>2. [task EXCEPT !.state = "RUNNING", !.status = status, !.token = r,
                     !.live = TRUE, !.auto = FALSE, !.interrupt = FALSE] \in Doc
    BY <1>1 DEF Doc, TaskState
  <1>3. QED
    BY <1>2 DEF Claimed, status

\* The end of a process keeps the types.
LEMMA HaltType ==
    ASSUME TypeOK, NEW s \in Servers, Halt(s), budget' \in Nat
    PROVE  TypeOK'
  <1>1. ThreadsOf(s) \in SUBSET Runs
    BY DEF ThreadsOf
  <1>2. /\ host' \in [Runs -> Servers \cup {None}]
        /\ mem' \in [Runs -> Doc]
        /\ asked' \in [Runs -> Nat]
        /\ result' \in [Runs -> SUBSET BlockKind]
        /\ stop' \in SUBSET Runs
    BY <1>1, ForgetType DEF Halt
  <1>3. /\ alive' \in SUBSET Servers
        /\ active' \in [Servers -> Runs \cup {None}]
        /\ polling' \in SUBSET Servers
        /\ cand' \in [Servers -> Doc]
        /\ pc' \in [Runs -> ActivePc \cup ClosingPc \cup {"ended", "dead"}]
    BY NoDocType DEF Halt, TypeOK
  <1>4. UNCHANGED <<task, left, trig, retrying, races>>
    BY DEF Halt, taskVars
  <1>5. QED
    BY <1>2, <1>3, <1>4 DEF TypeOK

\* A step of a scheduler keeps the types.
LEMMA SchedulerType ==
    ASSUME TypeOK, NEW s \in Servers,
           SchedStep(s) \/ Preempt(s) \/ Shutdown(s) \/ Crash(s)
    PROVE  TypeOK'
  <1> USE DEF taskVars, schedVars, runVars, otherVars
  <1>0. task \in Doc
    BY DEF TypeOK
  <1>1. CASE PollClear(s)
    BY <1>1 DEF TypeOK, PollClear
  <1>2. CASE Heartbeat(s)
    <2>1. [task EXCEPT !.live = TRUE] \in Doc
      BY <1>0 DEF Doc
    <2>2. QED
      BY <1>2, <2>1 DEF TypeOK, Heartbeat
  <1>3. CASE ReadCandidate(s)
    BY <1>3 DEF TypeOK, ReadCandidate
  <1>4. CASE Claim(s)
    <2>1. PICK r \in Runs :
            /\ task' = Claimed(s, r)
            /\ IF s \in alive
                  THEN /\ active' = [active EXCEPT ![s] = r]
                       /\ Goto(r, "claimed")
                       /\ host' = [host EXCEPT ![r] = s]
                       /\ mem' = [mem EXCEPT ![r] = Claimed(s, r)]
                       /\ asked' = [asked EXCEPT ![r] = task.rev]
                  ELSE /\ Goto(r, "dead")
                       /\ UNCHANGED <<active, host, mem, asked>>
      BY <1>4 DEF Claim
    <2>2. Claimed(s, r) \in Doc /\ task.rev \in Nat
      BY <1>0, ClaimedType DEF Doc
    <2>3. races' \in SUBSET RaceKinds
      BY <1>4, NoteType DEF Claim, RaceKinds
    <2>4. /\ polling' \in SUBSET Servers
          /\ cand' \in [Servers -> Doc]
      BY <1>4, NoDocType DEF Claim, TypeOK
    <2>5. /\ active' \in [Servers -> Runs \cup {None}]
          /\ pc' \in [Runs -> ActivePc \cup ClosingPc \cup {"ended", "dead"}]
          /\ host' \in [Runs -> Servers \cup {None}]
          /\ mem' \in [Runs -> Doc]
          /\ asked' \in [Runs -> Nat]
      <3>1. CASE s \in alive
        BY <2>1, <2>2, <3>1 DEF TypeOK, Goto, ActivePc
      <3>2. CASE s \notin alive
        BY <2>1, <3>2 DEF TypeOK, Goto
      <3>3. QED
        BY <3>1, <3>2
    <2>6. UNCHANGED <<left, alive, result, stop, trig, retrying, budget>>
      BY <1>4 DEF Claim
    <2>7. QED
      BY <2>1, <2>2, <2>3, <2>4, <2>5, <2>6 DEF TypeOK
  <1>5. CASE ClaimLost(s)
    BY <1>5, NoDocType DEF TypeOK, ClaimLost
  <1>6. CASE Exit(s)
    BY <1>6, HaltType DEF TypeOK, Exit
  <1>7. CASE Restart(s)
    BY <1>7 DEF TypeOK, Restart
  <1>8. CASE Preempt(s)
    <2>1. active[s] \in Runs
      BY <1>8 DEF Preempt, Active
    <2>2. budget' \in Nat /\ stop' \in SUBSET Runs
      BY <1>8, <2>1 DEF TypeOK, Preempt, Fault
    <2>3. QED
      BY <1>8, <2>2 DEF TypeOK, Preempt
  <1>9. CASE Shutdown(s)
    <2>1. budget' \in Nat /\ stop' \in SUBSET Runs
      BY <1>9 DEF TypeOK, Shutdown, Fault, Active
    <2>2. QED
      BY <1>9, <2>1 DEF TypeOK, Shutdown
  <1>10. CASE Crash(s)
    <2>1. budget' \in Nat
      BY <1>10 DEF TypeOK, Crash, Fault
    <2>2. QED
      BY <1>10, <2>1, HaltType DEF Crash
  <1>11. QED
    BY <1>1, <1>2, <1>3, <1>4, <1>5, <1>6, <1>7, <1>8, <1>9, <1>10 DEF SchedStep

\* A run that leaves review_task keeps the types.
LEMMA ReturnType ==
    ASSUME TypeOK, NEW r \in Runs, Return(r), task' \in Doc,
           UNCHANGED <<left, schedVars, trig, retrying, races, budget>>
    PROVE  TypeOK'
  <1>1. /\ host' \in [Runs -> Servers \cup {None}]
        /\ mem' \in [Runs -> Doc]
        /\ asked' \in [Runs -> Nat]
        /\ result' \in [Runs -> SUBSET BlockKind]
        /\ stop' \in SUBSET Runs
    BY ForgetType DEF Return
  <1>2. pc' \in [Runs -> ActivePc \cup ClosingPc \cup {"ended", "dead"}]
    BY DEF TypeOK, Return, Goto
  <1>3. QED
    BY <1>1, <1>2 DEF TypeOK, schedVars

\* A step of a run keeps the types.
LEMMA RunType ==
    ASSUME TypeOK, NEW r \in Runs, RunStep(r) \/ RunLateRaise(r)
    PROVE  TypeOK'
  <1> USE DEF taskVars, schedVars, runVars, otherVars
  <1>0. task \in Doc /\ mem[r] \in Doc
    BY DEF TypeOK
  <1>1. CASE RunStart(r)
    BY <1>1 DEF TypeOK, RunStart, Goto, ActivePc
  <1>f. ASSUME SaveFiles(r)
        PROVE  left' \in SUBSET BlockKind /\ races' \in SUBSET RaceKinds
    BY <1>f, NoteType DEF SaveFiles, Reviewed, RaceKinds
  <1>2. CASE RunReview(r)
    <2>1. pc' \in [Runs -> ActivePc \cup ClosingPc \cup {"ended", "dead"}]
      BY <1>2 DEF TypeOK, RunReview, Goto, ActivePc
    <2>2. left' \in SUBSET BlockKind /\ races' \in SUBSET RaceKinds
      BY <1>2, <1>f DEF RunReview
    <2>3. result' \in [Runs -> SUBSET BlockKind]
      BY <1>2, <2>2 DEF TypeOK, RunReview
    <2>4. QED
      BY <1>2, <2>1, <2>2, <2>3 DEF TypeOK, RunReview
  <1>3. CASE RunRaise(r)
    <2>1. pc' \in [Runs -> ActivePc \cup ClosingPc \cup {"ended", "dead"}]
      BY <1>3 DEF TypeOK, RunRaise, Goto, ActivePc
    <2>2. left' \in SUBSET BlockKind /\ races' \in SUBSET RaceKinds
      BY <1>3, <1>f DEF RunRaise
    <2>3. QED
      BY <1>3, <2>1, <2>2 DEF TypeOK, RunRaise
  <1>4. CASE RunFinish(r)
    <2>1. task' \in Doc /\ mem' \in [Runs -> Doc]
      BY <1>0, <1>4, ExitTypes, SavedType DEF RunFinish, TypeOK
    <2>2. pc' \in [Runs -> ActivePc \cup ClosingPc \cup {"ended", "dead"}]
      BY <1>4 DEF TypeOK, RunFinish, Goto, ClosingPc
    <2>3. QED
      BY <1>4, <2>1, <2>2 DEF TypeOK, RunFinish
  <1>5. CASE RunFatal(r)
    BY <1>5 DEF TypeOK, RunFatal, Goto, ActivePc
  <1>6. CASE RunFail(r)
    BY <1>0, <1>6, ExitTypes, SavedType, ReturnType DEF RunFail
  <1>7. CASE RunLoad(r)
    BY <1>7 DEF TypeOK, RunLoad, Goto, ActivePc
  <1>8. CASE RunRelease(r)
    BY <1>0, <1>8, ExitTypes, SavedType, ReturnType DEF RunRelease
  <1>9. CASE RunClose(r)
    BY <1>0, <1>9, ReturnType DEF RunClose
  <1>10. CASE RunLateRaise(r)
    <2>1. pc' \in [Runs -> ActivePc \cup ClosingPc \cup {"ended", "dead"}]
      BY <1>10 DEF TypeOK, RunLateRaise, Goto, ClosingPc
    <2>2. races' \in SUBSET RaceKinds
      BY <1>10, NoteType DEF RunLateRaise, RaceKinds
    <2>3. budget' \in Nat
      BY <1>10 DEF TypeOK, RunLateRaise, Fault
    <2>4. QED
      BY <1>10, <2>1, <2>2, <2>3 DEF TypeOK, RunLateRaise
  <1>11. CASE RunLateFatal(r)
    <2>1. CASE task.rev = asked[r]
      BY <1>11, <2>1 DEF TypeOK, RunLateFatal, Goto, ClosingPc
    <2>2. CASE task.rev # asked[r]
      BY <1>0, <1>11, <2>2, ReturnType DEF RunLateFatal
    <2>3. QED
      BY <2>1, <2>2
  <1>12. CASE RunLateFail(r)
    BY <1>0, <1>12, ExitTypes, SavedType, ReturnType DEF RunLateFail
  <1>13. QED
    BY <1>1, <1>2, <1>3, <1>4, <1>5, <1>6, <1>7, <1>8, <1>9, <1>10, <1>11, <1>12
       DEF RunStep

\* Time and manual retries keep the types.
LEMMA RestType ==
    ASSUME TypeOK, LeaseExpires \/ Stall \/ RetryCheck \/ RetryQueue
    PROVE  TypeOK'
  <1> USE DEF taskVars, schedVars, runVars, otherVars
  <1>0. task \in Doc
    BY DEF TypeOK
  <1>a. [task EXCEPT !.live = FALSE] \in Doc
    BY <1>0 DEF Doc
  <1>1. CASE LeaseExpires
    <2>1. races' \in SUBSET RaceKinds
      BY <1>1, NoteType DEF LeaseExpires, RaceKinds
    <2>2. QED
      BY <1>1, <1>a, <2>1 DEF TypeOK, LeaseExpires
  <1>2. CASE Stall
    <2>1. races' \in SUBSET RaceKinds
      BY <1>2, NoteType DEF Stall, RaceKinds
    <2>2. budget' \in Nat
      BY <1>2 DEF Stall, Fault, TypeOK
    <2>3. QED
      BY <1>2, <1>a, <2>1, <2>2 DEF TypeOK, Stall
  <1>3. CASE RetryCheck
    BY <1>3 DEF TypeOK, RetryCheck, Fault
  <1>4. CASE RetryQueue
    <2>1. [task EXCEPT !.state = "PENDING", !.status = "retry_pending",
                       !.prio = 100, !.retryOnly = TRUE, !.auto = FALSE,
                       !.interrupt = FALSE] \in Doc
      BY <1>0 DEF Doc, TaskState, CompletionStatus
    <2>2. task' \in Doc
      BY <1>0, <1>4, <2>1 DEF RetryQueue
    <2>3. races' \in SUBSET RaceKinds
      BY <1>4, NoteType DEF RetryQueue, RaceKinds
    <2>4. QED
      BY <1>4, <2>2, <2>3 DEF TypeOK, RetryQueue
  <1>5. QED
    BY <1>1, <1>2, <1>3, <1>4

\* Every step of the system keeps the types.
LEMMA NextType == TypeOK /\ [Next]_vars => TypeOK'
  <1> SUFFICES ASSUME TypeOK, [Next]_vars
               PROVE  TypeOK'
    OBVIOUS
  <1>1. CASE UNCHANGED vars
    BY <1>1 DEF TypeOK, vars, taskVars, schedVars, runVars, otherVars
  <1>2. CASE Next
    BY <1>2, TriggerType, SchedulerType, RunType, RestType DEF Next
  <1>3. QED
    BY <1>1, <1>2

\* The type invariant of the task document and of everything around it.
THEOREM TypeCorrect == Spec => []TypeOK
  BY InitType, NextType, PTL DEF Spec

HIDE BoundAssumption

-----------------------------------------------------------------------------
(* What the larger steps do *)

\* A save writes the fields that were changed and keeps the others.
LEMMA SavedFields ==
    ASSUME NEW loaded, NEW new
    PROVE  /\ Saved(loaded, new).rev = task.rev
           /\ Saved(loaded, new).token =
                IF new.token = loaded.token THEN task.token ELSE new.token
           /\ Saved(loaded, new).state =
                IF new.state = loaded.state THEN task.state ELSE new.state
  BY DEF Saved, Written

\* A run that leaves review_task changes nothing of the other runs.
LEMMA ReturnEffect ==
    ASSUME TypeOK, NEW r \in Runs, Return(r)
    PROVE  /\ pc'[r] = "ended" /\ asked'[r] = 0
           /\ \A x \in Runs \ {r} :
                 /\ pc'[x] = pc[x] /\ mem'[x] = mem[x]
                 /\ asked'[x] = asked[x] /\ host'[x] = host[x]
  BY DEF TypeOK, Return, Goto, Forget

\* The end of a process ends its threads and changes nothing of the others.
LEMMA HaltEffect ==
    ASSUME TypeOK, NEW s \in Servers, Halt(s)
    PROVE  /\ task' = task /\ trig' = trig /\ races' = races
           /\ \A x \in Runs :
                IF HasThread(x) /\ host[x] = s
                  THEN pc'[x] = "dead" /\ asked'[x] = 0
                  ELSE /\ pc'[x] = pc[x] /\ mem'[x] = mem[x]
                       /\ asked'[x] = asked[x] /\ host'[x] = host[x]
  BY DEF TypeOK, Halt, Forget, ThreadsOf, taskVars

\* The saves that give a lease back.
ExitStep(r) == RunFinish(r) \/ RunFail(r) \/ RunRelease(r)

\* A run leaves the protocol with its lease given back, unless it had lost it;
\* it touches the state of the task only when it read its own revision last.
LEMMA ExitEffect ==
    ASSUME TypeOK, MemoryInv, NEW r \in Runs, ExitStep(r)
    PROVE  /\ pc[r] \in ActivePc
           /\ task'.rev = task.rev
           /\ task'.token = None \/ (task'.token = task.token /\ task.token # r)
           /\ task'.state = task.state \/ MidSave(r)
           /\ UNCHANGED <<alive, active, polling, cand, trig, races>>
  <1> USE DEF schedVars, otherVars
  <1>0. mem[r] \in Doc /\ None # r
    BY DEF TypeOK
  <1>1. CASE RunFinish(r)
    <2>1. pc[r] \in ActivePc /\ mem[r].token = r
      BY <1>1 DEF RunFinish, ActivePc, MemoryInv, Active
    <2>2. Finished(r).token = None
      BY <1>0 DEF Finished, RetryFields, Doc
    <2>3. task'.rev = task.rev /\ task'.token = None
      BY <1>0, <1>1, <2>1, <2>2, SavedFields DEF RunFinish
    <2>4. MidSave(r)
      BY <1>1 DEF RunFinish, MidSave
    <2>5. QED
      BY <1>1, <2>1, <2>3, <2>4 DEF RunFinish
  <1>2. CASE RunFail(r)
    <2>1. pc[r] \in ActivePc /\ mem[r].token = r
      BY <1>2 DEF RunFail, ActivePc, MemoryInv, Active
    <2>2. Failed(r).token = None
      BY <1>0 DEF Failed, RetryFields, Doc
    <2>3. task'.rev = task.rev /\ task'.token = None
      BY <1>0, <1>2, <2>1, <2>2, SavedFields DEF RunFail
    <2>4. MidSave(r)
      BY <1>2 DEF RunFail, MidSave
    <2>5. QED
      BY <1>2, <2>1, <2>3, <2>4 DEF RunFail
  <1>3. CASE RunRelease(r)
    <2>1. pc[r] \in ActivePc
      BY <1>3 DEF RunRelease, ActivePc
    <2>2. mem[r].token # r => task.token # r
      BY <1>3 DEF RunRelease, MemoryInv
    <2>3. Interrupted(r).token = IF mem[r].token = r THEN None ELSE mem[r].token
      BY <1>0 DEF Interrupted, OwnsLease, SameRevision, Doc
    <2>4. mem[r].rev # asked[r] => Interrupted(r).state = mem[r].state
      BY <1>0 DEF Interrupted, OwnsLease, SameRevision, Doc
    <2>5. task' = Saved(mem[r], Interrupted(r))
      BY <1>3 DEF RunRelease
    <2>6. /\ task'.rev = task.rev
          /\ task'.token = None \/ (task'.token = task.token /\ task.token # r)
      BY <1>0, <2>2, <2>3, <2>5, SavedFields
    <2>7. task'.state = task.state \/ MidSave(r)
      BY <1>3, <2>4, <2>5, SavedFields DEF RunRelease, MidSave
    <2>8. QED
      BY <1>3, <2>1, <2>6, <2>7 DEF RunRelease
  <1>4. QED
    BY <1>1, <1>2, <1>3 DEF ExitStep

\* After that the run works on without a lease, or has ended, and no other run
\* is concerned.
LEMMA ExitThread ==
    ASSUME TypeOK, MemoryInv, NEW r \in Runs, ExitStep(r)
    PROVE  /\ pc'[r] = "ended" \/ (pc'[r] = "closing" /\ mem'[r].token = None)
           /\ asked'[r] \in {asked[r], 0}
           /\ \A x \in Runs \ {r} :
                 /\ pc'[x] = pc[x] /\ mem'[x] = mem[x]
                 /\ asked'[x] = asked[x] /\ host'[x] = host[x]
  <1>0. mem[r] \in Doc
    BY DEF TypeOK
  <1>1. CASE RunFinish(r)
    <2>1. Finished(r).token = None
      BY <1>0 DEF Finished, RetryFields, Doc
    <2>2. QED
      BY <1>1, <2>1 DEF RunFinish, Goto, TypeOK
  <1>2. CASE RunFail(r) \/ RunRelease(r)
    BY <1>2, ReturnEffect DEF RunFail, RunRelease
  <1>3. QED
    BY <1>1, <1>2 DEF ExitStep

\* What review_task does after its save.
LateStep(r) ==
    RunClose(r) \/ RunLateRaise(r) \/ RunLateFatal(r) \/ RunLateFail(r)

\* The end of a run that has given its lease back changes neither the lease nor
\* the revision, and changes the state only after an exception.
LEMMA LateEffect ==
    ASSUME TypeOK, MemoryInv, NEW r \in Runs, LateStep(r)
    PROVE  /\ pc[r] \in ClosingPc
           /\ task'.rev = task.rev /\ task'.token = task.token
           /\ task' = task \/ pc[r] = "late_failing"
           /\ pc'[r] = "ended" \/ (pc'[r] \in ClosingPc /\ mem'[r] = mem[r])
           /\ asked'[r] \in {asked[r], 0}
           /\ \A x \in Runs \ {r} :
                 /\ pc'[x] = pc[x] /\ mem'[x] = mem[x]
                 /\ asked'[x] = asked[x] /\ host'[x] = host[x]
           /\ UNCHANGED <<alive, active, polling, cand, trig>>
           /\ races' = races \/ races' # {}
           /\ pc'[r] \in {"late_fatal", "late_failing"} =>
                 races' # {} \/ pc[r] = "late_fatal"
  <1> USE DEF schedVars, otherVars, taskVars, ClosingPc
  <1>0. mem[r] \in Doc
    BY DEF TypeOK
  <1>1. CASE RunClose(r)
    BY <1>1, ReturnEffect DEF RunClose
  <1>2. CASE RunLateRaise(r)
    BY <1>2 DEF RunLateRaise, Goto, Note, TypeOK
  <1>3. CASE RunLateFatal(r)
    <2>1. CASE task.rev = asked[r]
      BY <1>3, <2>1 DEF RunLateFatal, Goto, TypeOK
    <2>2. CASE task.rev # asked[r]
      BY <1>3, <2>2, ReturnEffect DEF RunLateFatal
    <2>3. QED
      BY <2>1, <2>2
  <1>4. CASE RunLateFail(r)
    <2>1. Failed(r).token = None
      BY <1>0 DEF Failed, RetryFields, Doc
    <2>2. mem[r].token = None
      BY <1>4 DEF RunLateFail, MemoryInv
    <2>3. task'.rev = task.rev /\ task'.token = task.token
      BY <1>4, <2>1, <2>2, SavedFields DEF RunLateFail
    <2>4. QED
      BY <1>4, <2>3, ReturnEffect DEF RunLateFail
  <1>5. QED
    BY <1>1, <1>2, <1>3, <1>4 DEF LateStep

\* The other steps of a run leave the task document alone and only move the
\* run itself, towards a save only with its revision checked.
LEMMA WorkEffect ==
    ASSUME TypeOK, NEW r \in Runs,
           RunStart(r) \/ RunReview(r) \/ RunRaise(r) \/ RunFatal(r) \/ RunLoad(r)
    PROVE  /\ task' = task
           /\ pc[r] \in ActivePc \ {"releasing"}
           /\ pc'[r] \in ActivePc
           /\ pc'[r] = "releasing" => mem'[r] = task
           /\ pc'[r] # "releasing" => mem'[r] = mem[r]
           /\ pc'[r] \in {"finish", "failing"} => asked[r] = task.rev
           /\ \A x \in Runs \ {r} : pc'[x] = pc[x] /\ mem'[x] = mem[x]
           /\ UNCHANGED <<alive, active, polling, cand, host, asked, trig,
                          retrying, budget>>
           /\ races' = {} => races = {}
  <1> USE DEF TypeOK, Goto, ActivePc, taskVars, schedVars, otherVars
  <1>0. ASSUME SaveFiles(r)
        PROVE  races' = {} => races = {}
    BY <1>0 DEF SaveFiles, Note
  <1>1. CASE RunStart(r)
    BY <1>1 DEF RunStart
  <1>2. CASE RunReview(r)
    BY <1>0, <1>2 DEF RunReview, CheckPasses
  <1>3. CASE RunRaise(r)
    BY <1>0, <1>3 DEF RunRaise
  <1>4. CASE RunFatal(r)
    BY <1>4 DEF RunFatal
  <1>5. CASE RunLoad(r)
    BY <1>5 DEF RunLoad
  <1>6. QED
    BY <1>1, <1>2, <1>3, <1>4, <1>5

\* A claim takes place on the candidate that was read, and on no other; a
\* trigger about to update the task makes it a race.
LEMMA ClaimSource ==
    ASSUME TypeOK, NEW s \in Servers, Claim(s)
    PROVE  /\ task.state = cand[s].state /\ task.token = cand[s].token
           /\ s \in polling /\ polling' = polling \ {s}
           /\ \A z \in polling' : cand'[z] = cand[z]
           /\ alive' = alive /\ trig' = trig
           /\ task'.rev = task.rev /\ task'.live /\ task'.state = "RUNNING"
           /\ races' = {} => races = {} /\ \A t \in Triggers : trig[t].pc # "begin"
  <1>1. /\ task.state = cand[s].state /\ task.token = cand[s].token
        /\ s \in polling /\ polling' = polling \ {s}
        /\ \A z \in polling' : cand'[z] = cand[z]
        /\ alive' = alive /\ trig' = trig
    BY DEF Claim, ClaimMatches, TypeOK
  <1>2. PICK r \in Runs : task' = Claimed(s, r)
    BY DEF Claim
  <1>3. task'.rev = task.rev /\ task'.live /\ task'.state = "RUNNING"
    BY <1>2 DEF TypeOK, Doc, Claimed
  <1>4. races' = {} => races = {} /\ \A t \in Triggers : trig[t].pc # "begin"
    BY DEF Claim, Note
  <1>5. QED
    BY <1>1, <1>3, <1>4

\* Who gets the lease of a claim: a run that nobody remembers.
Granted(s, r) ==
    /\ Fresh(r)
    /\ task'.token = r
    /\ \A x \in Runs \ {r} :
          /\ pc'[x] = pc[x] /\ mem'[x] = mem[x]
          /\ asked'[x] = asked[x] /\ host'[x] = host[x]
    /\ \/ /\ s \in alive
          /\ pc'[r] = "claimed" /\ host'[r] = s
          /\ mem'[r].token = r /\ asked'[r] = task.rev
          /\ active' = [active EXCEPT ![s] = r]
       \/ /\ s \notin alive
          /\ pc'[r] = "dead" /\ active' = active /\ asked' = asked

\* A claim gives the lease to a run at work or (when the scheduler was shut down
\* meanwhile) never to be started.
LEMMA ClaimEffect ==
    ASSUME TypeOK, NEW s \in Servers, Claim(s)
    PROVE  \E r \in Runs : Granted(s, r)
  <1>1. PICK r \in Runs :
          /\ Fresh(r)
          /\ task' = Claimed(s, r)
          /\ IF s \in alive
                THEN /\ active' = [active EXCEPT ![s] = r]
                     /\ Goto(r, "claimed")
                     /\ host' = [host EXCEPT ![r] = s]
                     /\ mem' = [mem EXCEPT ![r] = Claimed(s, r)]
                     /\ asked' = [asked EXCEPT ![r] = task.rev]
                ELSE /\ Goto(r, "dead")
                     /\ UNCHANGED <<active, host, mem, asked>>
    BY DEF Claim
  <1>2. Claimed(s, r).token = r
    BY DEF TypeOK, Doc, Claimed
  <1>3. CASE s \in alive
    <2>1. Granted(s, r)
      BY <1>1, <1>2, <1>3 DEF TypeOK, Goto, Granted
    <2>2. QED
      BY <2>1
  <1>4. CASE s \notin alive
    <2>1. Granted(s, r)
      BY <1>1, <1>2, <1>4 DEF TypeOK, Goto, Granted
    <2>2. QED
      BY <2>1
  <1>5. QED
    BY <1>3, <1>4

\* Triggers, time and manual retries at most take the lease away, and leave
\* schedulers and runs alone.
LEMMA QuietEffect ==
    ASSUME TypeOK,
           \/ \E t \in Triggers : TrigFind(t) \/ TrigStep(t) \/ TrigCrash(t)
           \/ LeaseExpires \/ Stall \/ RetryCheck \/ RetryQueue
    PROVE  /\ UNCHANGED <<alive, active, polling, cand, pc, host, mem, asked>>
           /\ task'.token \in {task.token, None}
  <1> USE DEF taskVars, schedVars, runVars, otherVars
  <1>0. task \in Doc
    BY DEF TypeOK
  <1>1. ASSUME NEW t \in Triggers, TrigFind(t) \/ TrigStep(t) \/ TrigCrash(t)
        PROVE  /\ UNCHANGED <<alive, active, polling, cand, pc, host, mem, asked>>
               /\ task'.token \in {task.token, None}
    <2>1. CASE TrigFind(t) \/ TrigCrash(t) \/ TrigReload(t) \/ TrigPrepare(t)
      BY <2>1 DEF TrigFind, TrigCrash, TrigReload, TrigPrepare
    <2>2. CASE TrigCreate(t)
      BY <2>2, NoDocType DEF TrigCreate, NoDoc
    <2>3. CASE TrigBegin(t)
      BY <1>0, <2>3 DEF TrigBegin, Doc
    <2>4. CASE TrigPublish(t)
      BY <1>0, <2>4 DEF TrigPublish, Published, Doc
    <2>5. CASE TrigFail(t)
      BY <1>0, <2>5 DEF TrigFail, PreparationFailed, Doc
    <2>6. QED
      BY <1>1, <2>1, <2>2, <2>3, <2>4, <2>5 DEF TrigStep
  <1>2. CASE LeaseExpires
    BY <1>0, <1>2 DEF LeaseExpires, Doc
  <1>3. CASE Stall
    BY <1>0, <1>3 DEF Stall, Doc
  <1>4. CASE RetryCheck
    BY <1>4 DEF RetryCheck
  <1>5. CASE RetryQueue
    <2>1. [task EXCEPT !.state = "PENDING", !.status = "retry_pending",
                       !.prio = 100, !.retryOnly = TRUE, !.auto = FALSE,
                       !.interrupt = FALSE].token = task.token
      BY <1>0 DEF Doc
    <2>2. QED
      BY <1>5, <2>1 DEF RetryQueue
  <1>6. QED
    BY <1>1, <1>2, <1>3, <1>4, <1>5

\* The steps of a scheduler that neither claim nor end its process.
PollStep(s) ==
    \/ PollClear(s) \/ Heartbeat(s) \/ Preempt(s) \/ ReadCandidate(s)
    \/ ClaimLost(s) \/ Shutdown(s) \/ Restart(s)

\* Polls that claim nothing and shutdowns change neither the lease nor a run.
LEMMA PollEffect ==
    ASSUME TypeOK, NEW s \in Servers, PollStep(s)
    PROVE  /\ task'.token = task.token /\ task'.rev = task.rev
           /\ task'.state = task.state
           /\ task.live => task'.live
           /\ UNCHANGED <<pc, host, mem, asked, trig, races>>
  <1> USE DEF taskVars, schedVars, runVars, otherVars
  <1>1. CASE Heartbeat(s)
    BY <1>1 DEF Heartbeat, TypeOK, Doc
  <1>2. CASE PollClear(s) \/ ReadCandidate(s) \/ ClaimLost(s) \/ Restart(s)
    BY <1>2 DEF PollClear, ReadCandidate, ClaimLost, Restart
  <1>3. CASE Preempt(s)
    BY <1>3 DEF Preempt
  <1>4. CASE Shutdown(s)
    BY <1>4 DEF Shutdown
  <1>5. QED
    BY <1>1, <1>2, <1>3, <1>4 DEF PollStep

WorkStep(r) ==
    RunStart(r) \/ RunReview(r) \/ RunRaise(r) \/ RunFatal(r) \/ RunLoad(r)
QuietStep ==
    \/ \E t \in Triggers : TrigFind(t) \/ TrigStep(t) \/ TrigCrash(t)
    \/ LeaseExpires \/ Stall \/ RetryCheck \/ RetryQueue

\* Every step is of one of these kinds.
LEMMA StepKinds ==
    ASSUME Next
    PROVE  \/ QuietStep
           \/ \E s \in Servers : PollStep(s) \/ Claim(s) \/ Halt(s)
           \/ \E r \in Runs : WorkStep(r) \/ ExitStep(r) \/ LateStep(r)
  <1>1. ASSUME NEW s \in Servers,
               SchedStep(s) \/ Preempt(s) \/ Shutdown(s) \/ Crash(s)
        PROVE  PollStep(s) \/ Claim(s) \/ Halt(s)
    BY <1>1 DEF SchedStep, Exit, Crash, PollStep
  <1>2. ASSUME NEW r \in Runs, RunStep(r) \/ RunLateRaise(r)
        PROVE  WorkStep(r) \/ ExitStep(r) \/ LateStep(r)
    BY <1>2 DEF RunStep, WorkStep, ExitStep, LateStep
  <1>3. QED
    BY <1>1, <1>2 DEF Next, QuietStep

-----------------------------------------------------------------------------
(* One lemma per conjunct of IInv *)

\* A run at work knows its lease, and a lease that was lost is never given back
\* to the run that lost it.
LEMMA MemoryStep ==
    ASSUME TypeOK, MemoryInv, Next
    PROVE  MemoryInv'
  <1>1. CASE QuietStep
    <2>1. UNCHANGED <<pc, mem>> /\ task'.token \in {task.token, None}
      BY <1>1, QuietEffect DEF QuietStep
    <2>2. QED
      BY <2>1 DEF MemoryInv, Active
  <1>2. ASSUME NEW s \in Servers, PollStep(s)
        PROVE  MemoryInv'
    <2>1. UNCHANGED <<pc, mem>> /\ task'.token = task.token
      BY <1>2, PollEffect
    <2>2. QED
      BY <2>1 DEF MemoryInv, Active
  <1>3. ASSUME NEW s \in Servers, Claim(s)
        PROVE  MemoryInv'
    <2>1. PICK r \in Runs : Granted(s, r)
      BY <1>3, ClaimEffect
    <2>2. QED
      BY <2>1 DEF Granted, MemoryInv, Active, ActivePc, ClosingPc
  <1>4. ASSUME NEW s \in Servers, Halt(s)
        PROVE  MemoryInv'
    <2>1. /\ task' = task
          /\ \A x \in Runs : \/ pc'[x] = "dead"
                             \/ pc'[x] = pc[x] /\ mem'[x] = mem[x]
      BY <1>4, HaltEffect
    <2>2. QED
      BY <2>1 DEF MemoryInv, Active, ActivePc, ClosingPc
  <1>5. ASSUME NEW r \in Runs, WorkStep(r)
        PROVE  MemoryInv'
    <2>1. /\ task' = task
          /\ pc[r] \in ActivePc \ {"releasing"} /\ pc'[r] \in ActivePc
          /\ pc'[r] = "releasing" => mem'[r] = task
          /\ pc'[r] # "releasing" => mem'[r] = mem[r]
          /\ \A x \in Runs \ {r} : pc'[x] = pc[x] /\ mem'[x] = mem[x]
      BY <1>5, WorkEffect DEF WorkStep
    <2>2. QED
      BY <2>1 DEF MemoryInv, Active, ActivePc, ClosingPc
  <1>6. ASSUME NEW r \in Runs, ExitStep(r)
        PROVE  MemoryInv'
    <2>1. /\ task'.token \in {task.token, None}
          /\ pc'[r] = "ended" \/ (pc'[r] = "closing" /\ mem'[r].token = None)
          /\ \A x \in Runs \ {r} : pc'[x] = pc[x] /\ mem'[x] = mem[x]
      BY <1>6, ExitEffect, ExitThread
    <2>2. QED
      BY <2>1 DEF MemoryInv, Active, ActivePc, ClosingPc
  <1>7. ASSUME NEW r \in Runs, LateStep(r)
        PROVE  MemoryInv'
    <2>1. /\ task'.token = task.token /\ pc[r] \in ClosingPc
          /\ pc'[r] = "ended" \/ (pc'[r] \in ClosingPc /\ mem'[r] = mem[r])
          /\ \A x \in Runs \ {r} : pc'[x] = pc[x] /\ mem'[x] = mem[x]
      BY <1>7, LateEffect
    <2>2. QED
      BY <2>1 DEF MemoryInv, Active, ActivePc, ClosingPc
  <1>8. QED
    BY <1>1, <1>2, <1>3, <1>4, <1>5, <1>6, <1>7, StepKinds

\* The lease names a run at work or one whose process died.
LEMMA HolderStep ==
    ASSUME TypeOK, MemoryInv, LeaseHasHolder, Next
    PROVE  LeaseHasHolder'
  <1> USE DEF LeaseHasHolder
  <1>0. task.token \in Runs \cup {None}
    BY DEF TypeOK, Doc
  <1>1. CASE QuietStep
    <2>1. UNCHANGED pc /\ task'.token \in {task.token, None}
      BY <1>1, QuietEffect DEF QuietStep
    <2>2. QED
      BY <2>1
  <1>2. ASSUME NEW s \in Servers, PollStep(s)
        PROVE  LeaseHasHolder'
    <2>1. UNCHANGED pc /\ task'.token = task.token
      BY <1>2, PollEffect
    <2>2. QED
      BY <2>1
  <1>3. ASSUME NEW s \in Servers, Claim(s)
        PROVE  LeaseHasHolder'
    <2>1. PICK r \in Runs : Granted(s, r)
      BY <1>3, ClaimEffect
    <2>2. QED
      BY <2>1 DEF Granted, ActivePc
  <1>4. ASSUME NEW s \in Servers, Halt(s)
        PROVE  LeaseHasHolder'
    <2>1. /\ task' = task
          /\ \A x \in Runs : pc'[x] = "dead" \/ pc'[x] = pc[x]
      BY <1>4, HaltEffect
    <2>2. QED
      BY <1>0, <2>1
  <1>5. ASSUME NEW r \in Runs, WorkStep(r)
        PROVE  LeaseHasHolder'
    <2>1. /\ task' = task /\ pc'[r] \in ActivePc
          /\ \A x \in Runs \ {r} : pc'[x] = pc[x]
      BY <1>5, WorkEffect DEF WorkStep
    <2>2. QED
      BY <1>0, <2>1
  <1>6. ASSUME NEW r \in Runs, ExitStep(r) \/ LateStep(r)
        PROVE  LeaseHasHolder'
    <2>1. /\ \/ task'.token = None
             \/ /\ task'.token = task.token
                /\ task.token # r \/ pc[r] \in ClosingPc
          /\ \A x \in Runs \ {r} : pc'[x] = pc[x]
      BY <1>6, ExitEffect, ExitThread, LateEffect
    <2>2. QED
      BY <1>0, <2>1 DEF ActivePc, ClosingPc
  <1>7. QED
    BY <1>1, <1>2, <1>3, <1>4, <1>5, <1>6, StepKinds

\* The candidates of the schedulers in the middle of a claim were eligible.
LEMMA CandidateStep ==
    ASSUME TypeOK, MemoryInv, CandidateInv, Next
    PROVE  CandidateInv'
  <1> USE DEF CandidateInv
  <1>1. CASE QuietStep
    <2>1. UNCHANGED <<polling, cand>>
      BY <1>1, QuietEffect DEF QuietStep
    <2>2. QED
      BY <2>1 DEF Eligible, LeaseExpired
  <1>2. ASSUME NEW s \in Servers, PollStep(s) \/ Claim(s) \/ Halt(s)
        PROVE  CandidateInv'
    <2>1. polling' \in SUBSET Servers /\ cand' \in [Servers -> Doc]
      <3>1. CASE PollStep(s)
        BY <3>1, SchedulerType DEF PollStep, SchedStep, TypeOK
      <3>2. CASE Claim(s)
        BY <3>2, NoDocType DEF Claim, TypeOK
      <3>3. CASE Halt(s)
        BY <3>3, NoDocType DEF Halt, TypeOK
      <3>4. QED
        BY <1>2, <3>1, <3>2, <3>3
    <2>2. ASSUME NEW z \in polling'
          PROVE  \/ z \in polling /\ cand'[z] = cand[z]
                 \/ cand'[z] = task /\ Eligible(task)
      <3>1. CASE PollStep(s)
        BY <2>2, <3>1 DEF PollStep, PollClear, Heartbeat, Preempt,
                  ReadCandidate, ClaimLost, Shutdown, Restart, TypeOK, schedVars
      <3>2. CASE Claim(s)
        BY <2>2, <3>2, ClaimSource
      <3>3. CASE Halt(s)
        BY <2>2, <3>3 DEF Halt, TypeOK
      <3>4. QED
        BY <1>2, <3>1, <3>2, <3>3
    <2>3. QED
      BY <2>2 DEF Eligible, LeaseExpired
  <1>3. ASSUME NEW r \in Runs, WorkStep(r) \/ ExitStep(r) \/ LateStep(r)
        PROVE  CandidateInv'
    <2>1. UNCHANGED <<polling, cand>>
      BY <1>3, WorkEffect, ExitEffect, LateEffect DEF WorkStep
    <2>2. QED
      BY <2>1 DEF Eligible, LeaseExpired
  <1>4. QED
    BY <1>1, <1>2, <1>3, StepKinds

\* A run that still holds the lease is never left out of its scheduler's slot.
LEMMA DetachedStep ==
    ASSUME TypeOK, MemoryInv, DetachedOwnsNothing, Next
    PROVE  DetachedOwnsNothing'
  <1>1. CASE QuietStep
    <2>1. /\ UNCHANGED <<alive, active, pc, host>>
          /\ task'.token \in {task.token, None}
      BY <1>1, QuietEffect DEF QuietStep
    <2>2. QED
      BY <2>1 DEF DetachedOwnsNothing, Active
  <1>2. ASSUME NEW s \in Servers, PollStep(s)
        PROVE  DetachedOwnsNothing'
    <2>1. UNCHANGED <<pc, host>> /\ task'.token = task.token
      BY <1>2, PollEffect
    <2>2. CASE PollClear(s)
      <3>1. /\ alive' = alive /\ active' = [active EXCEPT ![s] = None]
            /\ active[s] # None
            /\ ~Active(active[s]) \/ task.token # active[s]
        BY <2>2 DEF PollClear, Released, HasThread, Active
      <3>2. QED
        BY <2>1, <3>1 DEF DetachedOwnsNothing, Active, TypeOK
    <2>3. CASE Restart(s)
      <3>1. /\ alive' = alive \cup {s} /\ active' = active
            /\ \A r \in Runs : ~(Active(r) /\ host[r] = s)
        BY <2>3 DEF Restart, HasThreads, ThreadsOf, HasThread, Active
      <3>2. QED
        BY <2>1, <3>1 DEF DetachedOwnsNothing, Active
    <2>4. CASE Shutdown(s)
      <3>1. alive' = alive \ {s} /\ active' = active
        BY <2>4 DEF Shutdown
      <3>2. QED
        BY <2>1, <3>1 DEF DetachedOwnsNothing, Active
    <2>5. CASE Heartbeat(s) \/ Preempt(s) \/ ReadCandidate(s) \/ ClaimLost(s)
      <3>1. UNCHANGED <<alive, active>>
        BY <2>5 DEF Heartbeat, Preempt, ReadCandidate, ClaimLost, schedVars
      <3>2. QED
        BY <2>1, <3>1 DEF DetachedOwnsNothing, Active
    <2>6. QED
      BY <1>2, <2>2, <2>3, <2>4, <2>5 DEF PollStep
  <1>3. ASSUME NEW s \in Servers, Claim(s)
        PROVE  DetachedOwnsNothing'
    <2>1. PICK r \in Runs : Granted(s, r)
      BY <1>3, ClaimEffect
    <2>2. alive' = alive
      BY <1>3, ClaimSource
    <2>3. CASE s \in alive
      <3>1. host'[r] = s /\ active'[s] = r /\ task'.token = r
        BY <2>1, <2>3 DEF Granted, TypeOK
      <3>2. QED
        BY <3>1 DEF DetachedOwnsNothing
    <2>4. CASE s \notin alive
      <3>1. pc'[r] = "dead" /\ task'.token = r
        BY <2>1, <2>4 DEF Granted
      <3>2. QED
        BY <3>1 DEF DetachedOwnsNothing, Active, ActivePc
    <2>5. QED
      BY <2>3, <2>4
  <1>4. ASSUME NEW s \in Servers, Halt(s)
        PROVE  DetachedOwnsNothing'
    <2>1. alive' = alive \ {s} /\ active' = [active EXCEPT ![s] = None]
      BY <1>4 DEF Halt
    <2>2. /\ task' = task
          /\ \A x \in Runs :
                \/ pc'[x] = "dead"
                \/ pc'[x] = pc[x] /\ host'[x] = host[x]
      BY <1>4, HaltEffect
    <2>3. QED
      BY <2>1, <2>2 DEF DetachedOwnsNothing, Active, ActivePc, TypeOK
  <1>5. ASSUME NEW r \in Runs, WorkStep(r)
        PROVE  DetachedOwnsNothing'
    <2>1. /\ task' = task /\ pc[r] \in ActivePc
          /\ \A x \in Runs \ {r} : pc'[x] = pc[x]
          /\ UNCHANGED <<alive, active, host>>
      BY <1>5, WorkEffect DEF WorkStep
    <2>2. QED
      BY <2>1 DEF DetachedOwnsNothing, Active
  <1>6. ASSUME NEW r \in Runs, ExitStep(r) \/ LateStep(r)
        PROVE  DetachedOwnsNothing'
    <2>1. /\ task'.token \in {task.token, None}
          /\ UNCHANGED <<alive, active>>
          /\ pc'[r] \notin ActivePc
          /\ \A x \in Runs \ {r} : pc'[x] = pc[x] /\ host'[x] = host[x]
      BY <1>6, ExitEffect, ExitThread, LateEffect DEF ActivePc, ClosingPc
    <2>2. QED
      BY <2>1 DEF DetachedOwnsNothing, Active
  <1>7. QED
    BY <1>1, <1>2, <1>3, <1>4, <1>5, <1>6, StepKinds

\* The trigger steps that begin no revision.
PlainTrigger(t) ==
    \/ TrigFind(t) \/ TrigReload(t) \/ TrigPrepare(t) \/ TrigPublish(t)
    \/ TrigFail(t) \/ TrigCrash(t)

\* They keep every revision, but for the one a trigger forgets at its end, and
\* prepare nothing that was not being prepared.
LEMMA PlainTriggerEffect ==
    ASSUME TypeOK, NEW t \in Triggers, PlainTrigger(t)
    PROVE  /\ task'.rev = task.rev
           /\ trig'[t].rev \in {trig[t].rev, 0}
           /\ trig'[t].pc = "publish" =>
                 Preparing(t) /\ trig'[t].rev = trig[t].rev
                   /\ trig'[t].keep = trig[t].keep
           /\ trig'[t].pc # "prepare"
           /\ trig'[t].pc = "begin" => TrigReload(t)
           /\ \A u \in Triggers \ {t} : trig'[u] = trig[u]
  <1> USE DEF taskVars, Advance, Preparing
  <1>0. task \in Doc /\ trig \in [Triggers -> Trigger] /\ trig[t] \in Trigger
    BY DEF TypeOK
  <1>1. CASE TrigFind(t)
    BY <1>0, <1>1 DEF TrigFind, Trigger
  <1>2. CASE TrigReload(t)
    BY <1>0, <1>2 DEF TrigReload, Trigger
  <1>3. CASE TrigPrepare(t)
    <2>1. PICK work :
            trig' = [trig EXCEPT ![t] = [trig[t] EXCEPT !.pc = "publish",
                                                        !.work = work]]
      BY <1>3 DEF TrigPrepare
    <2>2. task' = task /\ trig[t].pc = "prepare"
      BY <1>3 DEF TrigPrepare
    <2>3. QED
      BY <1>0, <2>1, <2>2 DEF Trigger
  <1>4. CASE TrigPublish(t)
    <2>1. task'.rev = task.rev
      BY <1>0, <1>4 DEF TrigPublish, Published, Doc
    <2>2. QED
      BY <1>0, <1>4, <2>1 DEF TrigPublish, Done, NewTrigger
  <1>5. CASE TrigFail(t)
    <2>1. task'.rev = task.rev
      BY <1>0, <1>5 DEF TrigFail, PreparationFailed, Doc
    <2>2. QED
      BY <1>0, <1>5, <2>1 DEF TrigFail, Done, NewTrigger
  <1>6. CASE TrigCrash(t)
    BY <1>0, <1>6 DEF TrigCrash, Trigger
  <1>7. QED
    BY <1>1, <1>2, <1>3, <1>4, <1>5, <1>6 DEF PlainTrigger

\* What begins a revision: the creation of the document, and the update of one
\* that exists.
LEMMA BeginEffect ==
    ASSUME TypeOK, NEW t \in Triggers, TrigCreate(t) \/ TrigBegin(t)
    PROVE  /\ \A u \in Triggers \ {t} : trig'[u] = trig[u]
           /\ \/ /\ task.rev # 0 /\ task' = task
                 /\ trig'[t].rev = trig[t].rev /\ trig'[t].pc = "reload"
              \/ /\ task'.rev = task.rev + 1 /\ task'.state = "PREPARING"
                 /\ trig'[t].rev = task.rev + 1 /\ trig'[t].pc = "prepare"
                 /\ \/ task.rev = 0 /\ task'.token = None
                    \/ /\ task'.token = task.token /\ task'.live = task.live
                       /\ trig[t].pc = "begin" /\ trig'[t].keep = trig[t].keep
                       /\ TrigBegin(t)
  <1> USE DEF Advance
  <1>0. task \in Doc /\ trig \in [Triggers -> Trigger] /\ trig[t] \in Trigger
    BY DEF TypeOK
  <1>1. CASE TrigCreate(t) /\ task.rev = 0
    <2>1. /\ task' = [NoDoc EXCEPT !.rev = 1]
          /\ trig' = [trig EXCEPT ![t] = [trig[t] EXCEPT !.pc = "prepare",
                                               !.rev = 1, !.created = TRUE]]
          /\ trig[t].pc = "create"
      BY <1>1 DEF TrigCreate
    <2>2. /\ task'.rev = 1 /\ task'.state = "PREPARING" /\ task'.token = None
      BY <2>1 DEF NoDoc
    <2>3. /\ trig'[t].rev = 1 /\ trig'[t].pc = "prepare"
          /\ \A u \in Triggers \ {t} : trig'[u] = trig[u]
      BY <1>0, <2>1 DEF Trigger
    <2>4. QED
      BY <1>1, <2>2, <2>3
  <1>2. CASE TrigCreate(t) /\ task.rev # 0
    BY <1>0, <1>2 DEF TrigCreate, Trigger
  <1>3. CASE TrigBegin(t)
    <2>1. /\ task'.rev = task.rev + 1 /\ task'.state = "PREPARING"
          /\ task'.token = task.token /\ task'.live = task.live
      BY <1>0, <1>3 DEF TrigBegin, Doc
    <2>2. /\ trig[t].pc = "begin"
          /\ trig' = [trig EXCEPT ![t] = [trig[t] EXCEPT !.pc = "prepare",
                                                         !.rev = task.rev + 1]]
      BY <1>3 DEF TrigBegin
    <2>3. /\ trig'[t].rev = task.rev + 1 /\ trig'[t].pc = "prepare"
          /\ trig'[t].keep = trig[t].keep
          /\ \A u \in Triggers \ {t} : trig'[u] = trig[u]
      BY <1>0, <2>2 DEF Trigger
    <2>4. QED
      BY <1>3, <2>1, <2>2, <2>3
  <1>4. QED
    BY <1>1, <1>2, <1>3

TriggerStep(t) == TrigFind(t) \/ TrigStep(t) \/ TrigCrash(t)

\* Every step of a trigger begins a revision or is a plain one.
LEMMA TriggerKinds ==
    ASSUME NEW t \in Triggers, TriggerStep(t)
    PROVE  PlainTrigger(t) \/ TrigCreate(t) \/ TrigBegin(t)
  BY DEF TriggerStep, TrigStep, PlainTrigger

\* Time and manual retries keep the revision and the triggers.
LEMMA TimeEffect ==
    ASSUME TypeOK, LeaseExpires \/ Stall \/ RetryCheck \/ RetryQueue
    PROVE  /\ task'.rev = task.rev /\ trig' = trig
           /\ task'.token = task.token
           /\ task'.state = task.state
                \/ (task.state = "PARTIAL" /\ task.token = None)
  <1> USE DEF taskVars, otherVars
  <1>0. task \in Doc
    BY DEF TypeOK
  <1>1. CASE LeaseExpires
    BY <1>0, <1>1 DEF LeaseExpires, Doc
  <1>2. CASE Stall
    BY <1>0, <1>2 DEF Stall, Doc
  <1>3. CASE RetryCheck
    BY <1>3 DEF RetryCheck
  <1>4. CASE RetryQueue
    <2>1. CASE task.state = "PARTIAL" /\ task.token = None
      <3> DEFINE queued == [task EXCEPT !.state = "PENDING",
                              !.status = "retry_pending", !.prio = 100,
                              !.retryOnly = TRUE, !.auto = FALSE,
                              !.interrupt = FALSE]
      <3>1. queued.rev = task.rev /\ queued.token = task.token
        BY <1>0 DEF Doc
      <3>2. task' = queued /\ trig' = trig
        BY <1>4, <2>1 DEF RetryQueue, RetryMatches
      <3>3. QED
        BY <2>1, <3>1, <3>2
    <2>2. CASE ~(task.state = "PARTIAL" /\ task.token = None)
      BY <1>4, <2>2 DEF RetryQueue, RetryMatches
    <2>3. QED
      BY <2>1, <2>2
  <1>5. QED
    BY <1>1, <1>2, <1>3, <1>4

\* No step but the two that begin a revision changes it.
LEMMA RevisionEffect ==
    ASSUME TypeOK, MemoryInv, Next
    PROVE  \/ \E t \in Triggers : TrigCreate(t) \/ TrigBegin(t)
           \/ task'.rev = task.rev
  <1>1. ASSUME NEW t \in Triggers, TriggerStep(t)
        PROVE  task'.rev = task.rev \/ TrigCreate(t) \/ TrigBegin(t)
    BY <1>1, TriggerKinds, PlainTriggerEffect
  <1>2. CASE LeaseExpires \/ Stall \/ RetryCheck \/ RetryQueue
    BY <1>2, TimeEffect
  <1>3. ASSUME NEW s \in Servers, PollStep(s) \/ Claim(s) \/ Halt(s)
        PROVE  task'.rev = task.rev
    BY <1>3, PollEffect, ClaimSource, HaltEffect
  <1>4. ASSUME NEW r \in Runs, WorkStep(r) \/ ExitStep(r) \/ LateStep(r)
        PROVE  task'.rev = task.rev
    BY <1>4, WorkEffect, ExitEffect, LateEffect DEF WorkStep
  <1>5. QED
    BY <1>1, <1>2, <1>3, <1>4, StepKinds DEF QuietStep, TriggerStep

\* Neither a trigger nor a run is ahead of the document, and revisions in
\* progress are distinct.
LEMMA RevisionStep ==
    ASSUME TypeOK, MemoryInv, RevisionInv, Next
    PROVE  RevisionInv'
  <1>0. /\ task.rev \in Nat /\ \A t \in Triggers : trig[t].rev \in Nat
        /\ \A r \in Runs : asked[r] \in Nat
    BY DEF TypeOK, Doc, Trigger
  <1>1. ASSUME NEW t \in Triggers, TriggerStep(t)
        PROVE  RevisionInv'
    <2>1. UNCHANGED asked
      BY <1>1, QuietEffect DEF TriggerStep
    <2>2. CASE PlainTrigger(t)
      <3>1. /\ task'.rev = task.rev
            /\ trig'[t].rev \in {trig[t].rev, 0}
            /\ trig'[t].pc = "publish" =>
                  Preparing(t) /\ trig'[t].rev = trig[t].rev
            /\ trig'[t].pc # "prepare"
            /\ \A u \in Triggers \ {t} : trig'[u] = trig[u]
        BY <2>2, PlainTriggerEffect
      <3>2. QED
        BY <1>0, <2>1, <3>1 DEF RevisionInv, RevisionsUnique, Preparing
    <2>3. CASE TrigCreate(t) \/ TrigBegin(t)
      <3>1. /\ \A u \in Triggers \ {t} : trig'[u] = trig[u]
            /\ \/ /\ task' = task
                  /\ trig'[t].rev = trig[t].rev /\ trig'[t].pc = "reload"
               \/ /\ task'.rev = task.rev + 1
                  /\ trig'[t].rev = task.rev + 1
        BY <2>3, BeginEffect
      <3>2. QED
        BY <1>0, <2>1, <3>1 DEF RevisionInv, RevisionsUnique, Preparing
    <2>4. QED
      BY <1>1, <2>2, <2>3, TriggerKinds
  <1>2. CASE LeaseExpires \/ Stall \/ RetryCheck \/ RetryQueue
    <2>1. UNCHANGED <<asked, trig>> /\ task'.rev = task.rev
      BY <1>2, QuietEffect, TimeEffect
    <2>2. QED
      BY <2>1 DEF RevisionInv, RevisionsUnique, Preparing
  <1>3. ASSUME NEW s \in Servers, PollStep(s) \/ Claim(s) \/ Halt(s)
        PROVE  RevisionInv'
    <2>1. task'.rev = task.rev /\ trig' = trig
      BY <1>3, PollEffect, ClaimSource, HaltEffect
    <2>2. \A x \in Runs : asked'[x] \in {asked[x], 0, task.rev}
      <3>1. CASE PollStep(s)
        BY <3>1, PollEffect
      <3>2. CASE Claim(s)
        <4>1. PICK r \in Runs : Granted(s, r)
          BY <3>2, ClaimEffect
        <4>2. QED
          BY <4>1 DEF Granted
      <3>3. CASE Halt(s)
        BY <3>3, HaltEffect
      <3>4. QED
        BY <1>3, <3>1, <3>2, <3>3
    <2>3. QED
      BY <1>0, <2>1, <2>2 DEF RevisionInv, RevisionsUnique, Preparing
  <1>4. ASSUME NEW r \in Runs, WorkStep(r) \/ ExitStep(r) \/ LateStep(r)
        PROVE  RevisionInv'
    <2>1. task'.rev = task.rev /\ trig' = trig
      BY <1>4, WorkEffect, ExitEffect, LateEffect DEF WorkStep
    <2>2. \A x \in Runs : asked'[x] \in {asked[x], 0}
      <3>1. CASE WorkStep(r)
        BY <3>1, WorkEffect DEF WorkStep
      <3>2. CASE ExitStep(r) \/ LateStep(r)
        BY <3>2, ExitThread, LateEffect
      <3>3. QED
        BY <1>4, <3>1, <3>2
    <2>3. QED
      BY <1>0, <2>1, <2>2 DEF RevisionInv, RevisionsUnique, Preparing
  <1>5. QED
    BY <1>1, <1>2, <1>3, <1>4, StepKinds DEF QuietStep, TriggerStep

\* Before the first trigger nothing is claimed and nobody works.
LEMMA EmptyStep ==
    ASSUME TypeOK, RevisionInv, EmptyInv, MemoryInv, CandidateInv, Next
    PROVE  EmptyInv'
  <1> SUFFICES ASSUME task'.rev = 0
               PROVE  /\ task'.state = "PREPARING" /\ task'.token = None
                      /\ \A r \in Runs : pc'[r] \notin ActivePc \cup ClosingPc
    BY DEF EmptyInv, HasThread
  <1>0. task.rev \in Nat /\ task.token \in Runs \cup {None}
    BY DEF TypeOK, Doc
  <1>1. task.rev = 0
    <2>1. CASE task'.rev = task.rev
      BY <2>1
    <2>2. CASE \E t \in Triggers : TrigCreate(t) \/ TrigBegin(t)
      <3>1. task' = task \/ task'.rev = task.rev + 1
        BY <2>2, BeginEffect
      <3>2. QED
        BY <1>0, <3>1
    <2>3. QED
      BY <2>1, <2>2, RevisionEffect
  <1>2. /\ task.state = "PREPARING" /\ task.token = None
        /\ \A r \in Runs : pc[r] \notin ActivePc \cup ClosingPc
    BY <1>1 DEF EmptyInv, HasThread
  <1>3. ASSUME NEW t \in Triggers, TriggerStep(t)
        PROVE  task' = task /\ pc' = pc
    <2>1. pc' = pc
      BY <1>3, QuietEffect DEF TriggerStep
    <2>2. CASE TrigPublish(t) \/ TrigFail(t)
      <3>1. trig[t].rev # task.rev
        BY <1>1, <2>2 DEF RevisionInv, Preparing, TrigPublish, TrigFail
      <3>2. task' = task
        BY <2>2, <3>1 DEF TrigPublish, TrigFail, taskVars
      <3>3. QED
        BY <2>1, <3>2
    <2>3. CASE TrigFind(t) \/ TrigReload(t) \/ TrigPrepare(t) \/ TrigCrash(t)
      <3>1. task' = task
        BY <2>3 DEF TrigFind, TrigReload, TrigPrepare, TrigCrash, taskVars
      <3>2. QED
        BY <2>1, <3>1
    <2>4. CASE TrigCreate(t) \/ TrigBegin(t)
      BY <1>0, <1>1, <2>4, BeginEffect
    <2>5. QED
      BY <1>3, <2>2, <2>3, <2>4 DEF TriggerStep, TrigStep
  <1>4. CASE LeaseExpires \/ Stall \/ RetryCheck \/ RetryQueue
    BY <1>2, <1>4, TimeEffect, QuietEffect
  <1>5. ASSUME NEW s \in Servers, PollStep(s)
        PROVE  task'.state = task.state /\ task'.token = task.token /\ pc' = pc
    BY <1>5, PollEffect
  <1>6. ASSUME NEW s \in Servers, Claim(s)
        PROVE  FALSE
    BY <1>2, <1>6, ClaimSource DEF CandidateInv, Eligible
  <1>7. ASSUME NEW s \in Servers, Halt(s)
        PROVE  /\ task' = task
               /\ \A r \in Runs : pc'[r] = pc[r] \/ pc'[r] = "dead"
    BY <1>7, HaltEffect
  <1>8. ASSUME NEW r \in Runs, WorkStep(r) \/ ExitStep(r) \/ LateStep(r)
        PROVE  FALSE
    BY <1>2, <1>8, WorkEffect, ExitEffect, LateEffect DEF WorkStep
  <1>9. QED
    BY <1>2, <1>3, <1>4, <1>5, <1>6, <1>7, <1>8, StepKinds
       DEF QuietStep, TriggerStep, ActivePc, ClosingPc

\* A race, once it happened, stays in the history.
LEMMA RacesStep ==
    ASSUME TypeOK, MemoryInv, Next
    PROVE  races' = {} => races = {}
  <1> USE DEF Note, otherVars
  <1>1. ASSUME NEW t \in Triggers, TriggerStep(t)
        PROVE  races' = {} => races = {}
    <2>1. CASE TrigReload(t)
      BY <2>1 DEF TrigReload
    <2>2. CASE TrigBegin(t)
      BY <2>2 DEF TrigBegin
    <2>3. CASE TrigFind(t) \/ TrigCreate(t) \/ TrigPrepare(t) \/ TrigPublish(t)
                 \/ TrigFail(t) \/ TrigCrash(t)
      BY <2>3 DEF TrigFind, TrigCreate, TrigPrepare, TrigPublish, TrigFail,
                  TrigCrash
    <2>4. QED
      BY <1>1, <2>1, <2>2, <2>3 DEF TriggerStep, TrigStep
  <1>2. CASE LeaseExpires \/ Stall \/ RetryCheck \/ RetryQueue
    <2>1. CASE LeaseExpires
      BY <2>1 DEF LeaseExpires
    <2>2. CASE Stall
      BY <2>2 DEF Stall
    <2>3. CASE RetryCheck \/ RetryQueue
      BY <2>3 DEF RetryCheck, RetryQueue
    <2>4. QED
      BY <1>2, <2>1, <2>2, <2>3
  <1>3. ASSUME NEW s \in Servers, PollStep(s) \/ Claim(s) \/ Halt(s)
        PROVE  races' = {} => races = {}
    <2>1. CASE PollStep(s)
      BY <2>1, PollEffect
    <2>2. CASE Claim(s)
      BY <2>2, ClaimSource
    <2>3. CASE Halt(s)
      BY <2>3, HaltEffect
    <2>4. QED
      BY <1>3, <2>1, <2>2, <2>3
  <1>4. ASSUME NEW r \in Runs, WorkStep(r) \/ ExitStep(r) \/ LateStep(r)
        PROVE  races' = {} => races = {}
    BY <1>4, WorkEffect, ExitEffect, LateEffect DEF WorkStep
  <1>5. QED
    BY <1>1, <1>2, <1>3, <1>4, StepKinds DEF QuietStep, TriggerStep

\* A trigger keeps what the absence of races guarantees.
LEMMA CalmTrigger ==
    ASSUME TypeOK, RevisionInv, EmptyInv, MemoryInv, CalmInv, races' = {},
           NEW t \in Triggers, TriggerStep(t)
    PROVE  CalmInv'
  <1>0. /\ task \in Doc /\ trig \in [Triggers -> Trigger] /\ trig[t] \in Trigger
        /\ None \notin Runs
    BY DEF TypeOK
  <1>1. /\ UNCHANGED <<polling, cand, pc, mem, asked>>
        /\ task'.token \in {task.token, None}
    BY QuietEffect DEF TriggerStep
  <1>2. CASE TrigCreate(t) \/ TrigBegin(t)
    <2>1. /\ \A u \in Triggers \ {t} : trig'[u] = trig[u]
          /\ \/ /\ task.rev # 0 /\ task' = task
                /\ trig'[t].rev = trig[t].rev /\ trig'[t].pc = "reload"
             \/ /\ task'.rev = task.rev + 1 /\ task'.state = "PREPARING"
                /\ trig'[t].rev = task.rev + 1 /\ trig'[t].pc = "prepare"
                /\ \/ task.rev = 0 /\ task'.token = None
                   \/ /\ task'.token = task.token /\ task'.live = task.live
                      /\ trig[t].pc = "begin" /\ trig'[t].keep = trig[t].keep
                      /\ TrigBegin(t)
      BY <1>2, BeginEffect
    <2>2. CASE task' = task /\ trig'[t].pc = "reload"
      BY <1>1, <2>1, <2>2 DEF CalmInv, Active, MidSave, Preparing
    <2>3. CASE /\ task.rev = 0 /\ task'.rev = task.rev + 1
               /\ task'.state = "PREPARING" /\ task'.token = None
               /\ trig'[t].pc = "prepare"
      <3>1. \A r \in Runs : pc[r] \notin ActivePc \cup ClosingPc
        BY <2>3 DEF EmptyInv, HasThread
      <3>2. \A u \in Triggers \ {t} : Preparing(u) => trig[u].rev # task'.rev
        BY <1>0, <2>3 DEF RevisionInv, Trigger, Doc
      <3>3. QED
        BY <1>0, <1>1, <2>1, <2>3, <3>1, <3>2
           DEF CalmInv, Active, MidSave, Preparing, ActivePc
    <2>4. CASE /\ task'.rev = task.rev + 1 /\ task'.state = "PREPARING"
               /\ task'.token = task.token /\ task'.live = task.live
               /\ trig[t].pc = "begin" /\ trig'[t].pc = "prepare"
               /\ trig'[t].keep = trig[t].keep
               /\ TrigBegin(t)
      <3>1. \A r \in Runs : ~MidSave(r)
        BY <2>4 DEF TrigBegin, Note
      <3>2. \A u \in Triggers \ {t} : Preparing(u) => trig[u].rev # task'.rev
        BY <1>0, <2>4 DEF RevisionInv, Trigger, Doc
      <3>3. \A r \in Runs : asked[r] # task'.rev
        BY <1>0, <2>4 DEF RevisionInv, Doc, TypeOK
      <3>4. QED
        BY <1>0, <1>1, <2>1, <2>4, <3>1, <3>2, <3>3
           DEF CalmInv, Active, MidSave, Preparing
    <2>5. QED
      BY <2>1, <2>2, <2>3, <2>4
  <1>3. CASE PlainTrigger(t)
    <2>1. /\ task'.rev = task.rev
          /\ trig'[t].pc = "publish" =>
                Preparing(t) /\ trig'[t].rev = trig[t].rev
                  /\ trig'[t].keep = trig[t].keep
          /\ trig'[t].pc # "prepare"
          /\ trig'[t].pc = "begin" => TrigReload(t)
          /\ \A u \in Triggers \ {t} : trig'[u] = trig[u]
      BY <1>3, PlainTriggerEffect
    <2>2. CASE TrigFind(t) \/ TrigPrepare(t) \/ TrigCrash(t)
      <3>1. task' = task
        BY <2>2 DEF TrigFind, TrigPrepare, TrigCrash, taskVars
      <3>2. trig'[t].pc # "begin"
        <4>1. CASE TrigFind(t)
          BY <1>0, <4>1 DEF TrigFind, Advance, Trigger
        <4>2. CASE TrigPrepare(t)
          <5>1. PICK work :
                  trig' = [trig EXCEPT ![t] = [trig[t] EXCEPT !.pc = "publish",
                                                              !.work = work]]
            BY <4>2 DEF TrigPrepare, Advance
          <5>2. QED
            BY <1>0, <5>1 DEF Trigger
        <4>3. CASE TrigCrash(t)
          BY <1>0, <4>3 DEF TrigCrash, Advance, Trigger
        <4>4. QED
          BY <2>2, <4>1, <4>2, <4>3
      <3>3. QED
        BY <1>1, <2>1, <3>1, <3>2 DEF CalmInv, Active, MidSave, Preparing
    <2>3. CASE TrigReload(t)
      <3>1. /\ task' = task /\ trig'[t].pc = "begin"
            /\ trig'[t].keep = HasActiveWorker(task)
            /\ ~(Active(task.token) /\ task.state # "RUNNING")
        BY <1>0, <2>3 DEF TrigReload, taskVars, Note, Advance, Trigger
      <3>2. ~trig'[t].keep => ~Active(task.token)
        BY <1>0, <3>1 DEF HasActiveWorker, LeaseExpired, CalmInv, Active
      <3>3. QED
        BY <1>1, <2>1, <3>1, <3>2 DEF CalmInv, Active, MidSave, Preparing
    <2>4. CASE TrigPublish(t)
      <3>1. trig[t].pc = "publish" /\ trig'[t].pc = "done"
        BY <1>0, <2>4 DEF TrigPublish, Advance, Done, NewTrigger
      <3>2. CASE task.rev # trig[t].rev
        <4>1. task' = task
          BY <2>4, <3>2 DEF TrigPublish
        <4>2. QED
          BY <1>1, <2>1, <3>1, <4>1 DEF CalmInv, Active, MidSave, Preparing
      <3>3. CASE task.rev = trig[t].rev
        <4>1. /\ task'.token = IF trig[t].keep THEN task.token ELSE None
              /\ trig[t].keep => task'.live = task.live
          BY <1>0, <2>4, <3>3 DEF TrigPublish, Published, Doc, Trigger
        <4>2. ~trig[t].keep => \A r \in Runs : pc[r] \notin ActivePc
          BY <3>1, <3>3 DEF CalmInv, Preparing, Active
        <4>3. \A u \in Triggers \ {t} : Preparing(u) => trig[u].rev # task.rev
          BY <3>1, <3>3 DEF RevisionInv, RevisionsUnique, Preparing
        <4>4. QED
          BY <1>0, <1>1, <2>1, <3>1, <4>1, <4>2, <4>3
             DEF CalmInv, Active, MidSave, Preparing, ActivePc
      <3>4. QED
        BY <3>2, <3>3
    <2>5. CASE TrigFail(t)
      <3>1. trig[t].pc = "prepare" /\ trig'[t].pc = "done"
        BY <1>0, <2>5 DEF TrigFail, Advance, Done, NewTrigger
      <3>2. CASE task.rev # trig[t].rev
        <4>1. task' = task
          BY <2>5, <3>2 DEF TrigFail, taskVars
        <4>2. QED
          BY <1>1, <2>1, <3>1, <4>1 DEF CalmInv, Active, MidSave, Preparing
      <3>3. CASE task.rev = trig[t].rev
        <4>1. task'.token = task.token /\ task'.live = task.live
          BY <1>0, <2>5, <3>3 DEF TrigFail, PreparationFailed, Doc
        <4>2. \A u \in Triggers \ {t} : Preparing(u) => trig[u].rev # task.rev
          BY <3>1, <3>3 DEF RevisionInv, RevisionsUnique, Preparing
        <4>3. QED
          BY <1>0, <1>1, <2>1, <3>1, <4>1, <4>2
             DEF CalmInv, Active, MidSave, Preparing
      <3>4. QED
        BY <3>2, <3>3
    <2>6. QED
      BY <1>3, <2>2, <2>3, <2>4, <2>5 DEF PlainTrigger
  <1>4. QED
    BY <1>2, <1>3, TriggerKinds

\* So do time and manual retries.
LEMMA CalmTime ==
    ASSUME TypeOK, CalmInv, races' = {},
           LeaseExpires \/ Stall \/ RetryCheck \/ RetryQueue
    PROVE  CalmInv'
  <1>0. task \in Doc /\ None \notin Runs
    BY DEF TypeOK
  <1>1. /\ UNCHANGED <<polling, cand, pc, mem, asked, trig>>
        /\ task'.rev = task.rev /\ task'.token = task.token
        /\ task'.state = task.state \/ (task.state = "PARTIAL" /\ task.token = None)
    BY QuietEffect, TimeEffect
  <1>2. ~Active(task.token) \/ task'.live = task.live
    <2>1. CASE LeaseExpires
      BY <2>1 DEF LeaseExpires, Note
    <2>2. CASE Stall
      BY <2>2 DEF Stall, Note
    <2>3. CASE RetryCheck
      BY <2>3 DEF RetryCheck, taskVars
    <2>4. CASE RetryQueue
      <3>1. CASE task.state = "PARTIAL" /\ task.token = None
        BY <1>0, <3>1 DEF Active
      <3>2. CASE ~(task.state = "PARTIAL" /\ task.token = None)
        BY <2>4, <3>2 DEF RetryQueue
      <3>3. QED
        BY <3>1, <3>2
    <2>5. QED
      BY <2>1, <2>2, <2>3, <2>4
  <1>3. QED
    BY <1>0, <1>1, <1>2 DEF CalmInv, Active, MidSave, Preparing

\* So does a scheduler: it claims only what no run at work holds.
LEMMA CalmScheduler ==
    ASSUME TypeOK, MemoryInv, CandidateInv, CalmInv, races' = {},
           NEW s \in Servers, PollStep(s) \/ Claim(s) \/ Halt(s)
    PROVE  CalmInv'
  <1>0. None \notin Runs /\ task.token \in Runs \cup {None}
    BY DEF TypeOK, Doc
  <1>1. CASE PollStep(s)
    <2>1. /\ task'.token = task.token /\ task'.rev = task.rev
          /\ task'.state = task.state
          /\ task.live => task'.live
          /\ UNCHANGED <<pc, mem, asked, trig>>
      BY <1>1, PollEffect
    <2>2. ASSUME NEW z \in polling'
          PROVE  ~Active(cand'[z].token)
      <3>1. CASE ReadCandidate(s)
        <4>1. /\ polling' = polling \cup {s} /\ cand' = [cand EXCEPT ![s] = task]
              /\ LeaseExpired(task)
          BY <3>1 DEF ReadCandidate, Eligible
        <4>2. ~Active(task.token)
          BY <1>0, <4>1 DEF LeaseExpired, CalmInv, Active
        <4>3. QED
          BY <4>1, <4>2 DEF CalmInv, TypeOK
      <3>2. CASE ClaimLost(s)
        BY <2>2, <3>2 DEF ClaimLost, CalmInv, TypeOK
      <3>3. CASE PollClear(s) \/ Heartbeat(s) \/ Preempt(s) \/ Shutdown(s)
                   \/ Restart(s)
        <4>1. UNCHANGED <<polling, cand>>
          BY <3>3 DEF PollClear, Heartbeat, Preempt, Shutdown, Restart, schedVars
        <4>2. QED
          BY <4>1 DEF CalmInv
      <3>4. QED
        BY <1>1, <3>1, <3>2, <3>3 DEF PollStep
    <2>3. QED
      BY <2>1, <2>2 DEF CalmInv, Active, MidSave, Preparing
  <1>2. CASE Claim(s)
    <2>1. PICK r \in Runs : Granted(s, r)
      BY <1>2, ClaimEffect
    <2>2. /\ task.state = cand[s].state /\ task.token = cand[s].token
          /\ s \in polling /\ polling' = polling \ {s}
          /\ \A z \in polling' : cand'[z] = cand[z]
          /\ trig' = trig /\ task'.live /\ task'.rev = task.rev
          /\ \A t \in Triggers : trig[t].pc # "begin"
      BY <1>2, ClaimSource
    <2>3. task.state # "PREPARING"
      BY <2>2 DEF CandidateInv, Eligible
    <2>4. \A x \in Runs : pc[x] \notin ActivePc
      BY <2>2 DEF CalmInv, Active
    <2>5. /\ \A x \in Runs \ {r} : pc'[x] \notin ActivePc
          /\ pc'[r] \in {"claimed", "dead"} /\ task'.token = r
      BY <2>1, <2>4 DEF Granted
    <2>6. \A t \in Triggers : Preparing(t) => trig[t].rev # task.rev
      BY <2>3 DEF CalmInv
    <2>7. \A z \in Servers : cand[z].token # r
      BY <2>1 DEF Granted, Fresh
    <2>8. \A z \in polling' : ~(cand'[z].token \in Runs
                                  /\ pc'[cand'[z].token] \in ActivePc)
      BY <2>2, <2>5, <2>7 DEF TypeOK
    <2>9. \A x \in Runs : pc'[x] \notin {"late_fatal", "late_failing"}
      BY <2>1, <2>5 DEF Granted, CalmInv
    <2>10. QED
      BY <2>2, <2>5, <2>6, <2>8, <2>9
         DEF CalmInv, Active, MidSave, Preparing, ActivePc
  <1>3. CASE Halt(s)
    <2>1. /\ task' = task /\ trig' = trig
          /\ \A x \in Runs :
                \/ pc'[x] = "dead"
                \/ pc'[x] = pc[x] /\ mem'[x] = mem[x] /\ asked'[x] = asked[x]
      BY <1>3, HaltEffect
    <2>2. /\ \A z \in polling' : z \in polling /\ cand'[z] = cand[z]
      BY <1>3 DEF Halt, TypeOK
    <2>3. QED
      BY <2>1, <2>2 DEF CalmInv, Active, MidSave, Preparing, ActivePc
  <1>4. QED
    BY <1>1, <1>2, <1>3

\* And so does a run: what it saves belongs to its own revision.
LEMMA CalmRun ==
    ASSUME TypeOK, MemoryInv, CalmInv, races' = {},
           NEW r \in Runs, WorkStep(r) \/ ExitStep(r) \/ LateStep(r)
    PROVE  CalmInv'
  <1>0. None \notin Runs
    OBVIOUS
  <1>1. CASE WorkStep(r)
    <2>1. /\ task' = task
          /\ pc[r] \in ActivePc /\ pc'[r] \in ActivePc
          /\ pc'[r] = "releasing" => mem'[r] = task
          /\ pc'[r] \in {"finish", "failing"} => asked[r] = task.rev
          /\ \A x \in Runs \ {r} : pc'[x] = pc[x] /\ mem'[x] = mem[x]
          /\ UNCHANGED <<polling, cand, asked, trig>>
      BY <1>1, WorkEffect DEF WorkStep
    <2>2. \A x \in Runs : MidSave(x)' => asked'[x] = task'.rev
      BY <2>1 DEF CalmInv, MidSave
    <2>3. \A x : Active(x)' <=> Active(x)
      BY <2>1 DEF Active
    <2>4. \A x \in Runs : pc'[x] \notin {"late_fatal", "late_failing"}
      BY <2>1 DEF CalmInv, ActivePc
    <2>5. QED
      BY <2>1, <2>2, <2>3, <2>4 DEF CalmInv, Preparing
  <1>2. CASE ExitStep(r)
    <2>1. /\ pc[r] \in ActivePc /\ task'.rev = task.rev
          /\ task'.token = None \/ (task'.token = task.token /\ task.token # r)
          /\ task'.state = task.state \/ MidSave(r)
          /\ UNCHANGED <<polling, cand, trig>>
      BY <1>2, ExitEffect
    <2>2. /\ pc'[r] \in {"ended", "closing"}
          /\ \A x \in Runs \ {r} : pc'[x] = pc[x]
      BY <1>2, ExitThread
    <2>3. task.token = r /\ task'.token = None
      BY <2>1 DEF CalmInv, Active
    <2>4. \A x \in Runs : pc'[x] \notin ActivePc
      BY <2>2, <2>3 DEF CalmInv, Active, ActivePc
    <2>5. ASSUME NEW t \in Triggers, Preparing(t), trig[t].rev = task.rev
          PROVE  task'.state = "PREPARING"
      <3>1. asked[r] # task.rev /\ task.state = "PREPARING"
        BY <2>1, <2>5 DEF CalmInv, Active
      <3>2. ~MidSave(r)
        BY <3>1 DEF CalmInv
      <3>3. QED
        BY <2>1, <3>1, <3>2
    <2>6. \A x \in Runs : pc'[x] \notin {"late_fatal", "late_failing"}
      BY <2>2 DEF CalmInv
    <2>7. QED
      BY <1>0, <2>1, <2>3, <2>4, <2>5, <2>6
         DEF CalmInv, Active, MidSave, Preparing, ActivePc
  <1>3. CASE LateStep(r)
    <2>1. /\ pc[r] \in ClosingPc
          /\ task'.rev = task.rev /\ task'.token = task.token
          /\ task' = task \/ pc[r] = "late_failing"
          /\ pc'[r] = "ended" \/ (pc'[r] \in ClosingPc /\ mem'[r] = mem[r])
          /\ \A x \in Runs \ {r} :
                /\ pc'[x] = pc[x] /\ mem'[x] = mem[x] /\ asked'[x] = asked[x]
          /\ UNCHANGED <<polling, cand, trig>>
          /\ pc'[r] \in {"late_fatal", "late_failing"} =>
                races' # {} \/ pc[r] = "late_fatal"
      BY <1>3, LateEffect
    <2>2. task' = task /\ pc'[r] \notin {"late_fatal", "late_failing"}
      BY <2>1 DEF CalmInv
    <2>3. pc[r] \notin ActivePc /\ pc'[r] \notin ActivePc
      BY <2>1 DEF ActivePc, ClosingPc
    <2>4. QED
      BY <2>1, <2>2, <2>3 DEF CalmInv, Active, MidSave, Preparing, ActivePc
  <1>4. QED
    BY <1>1, <1>2, <1>3

-----------------------------------------------------------------------------
(* The inductive invariant *)

\* The inductive invariant holds before anything was triggered.
LEMMA InitIInv == Init => IInv
  <1> SUFFICES ASSUME Init
               PROVE  IInv
    OBVIOUS
  <1>0. TypeOK
    BY InitType
  <1>1. /\ task.rev = 0 /\ task.state = "PREPARING" /\ task.token = None
        /\ polling = {} /\ races = {}
        /\ \A r \in Runs : pc[r] = "ended" /\ asked[r] = 0
        /\ \A t \in Triggers : trig[t].pc = "idle" /\ trig[t].rev = 0
    BY DEF Init, NoDoc, NewTrigger
  <1>2. \A r \in Runs : ~Active(r) /\ ~HasThread(r) /\ pc[r] \notin ClosingPc
    BY <1>1 DEF Active, HasThread, ActivePc, ClosingPc
  <1>3. RevisionInv /\ EmptyInv
    BY <1>1, <1>2 DEF RevisionInv, RevisionsUnique, Preparing, EmptyInv
  <1>4. MemoryInv /\ CandidateInv /\ LeaseHasHolder /\ DetachedOwnsNothing
    BY <1>1, <1>2 DEF MemoryInv, CandidateInv, LeaseHasHolder,
                      DetachedOwnsNothing
  <1>5. CalmInv
    BY <1>1, <1>2 DEF CalmInv, Active, MidSave, Preparing
  <1>6. QED
    BY <1>0, <1>3, <1>4, <1>5 DEF IInv

\* Every step of the system keeps the inductive invariant.
LEMMA NextIInv == IInv /\ [Next]_vars => IInv'
  <1> SUFFICES ASSUME IInv, [Next]_vars
               PROVE  IInv'
    OBVIOUS
  <1>0. /\ TypeOK /\ RevisionInv /\ EmptyInv /\ MemoryInv /\ CandidateInv
        /\ LeaseHasHolder /\ DetachedOwnsNothing
        /\ races = {} => CalmInv
    BY DEF IInv
  <1>1. CASE UNCHANGED vars
    <2>1. UNCHANGED <<task, alive, active, polling, cand, pc, host, mem, asked,
                      trig, races>>
      BY <1>1 DEF vars, taskVars, schedVars, runVars, otherVars
    <2>2. TypeOK'
      BY <1>0, NextType
    <2>3. /\ RevisionInv' /\ EmptyInv' /\ MemoryInv' /\ CandidateInv'
          /\ LeaseHasHolder' /\ DetachedOwnsNothing'
      BY <1>0, <2>1 DEF RevisionInv, RevisionsUnique, Preparing, EmptyInv,
           MemoryInv, CandidateInv, Eligible, LeaseExpired, LeaseHasHolder,
           DetachedOwnsNothing, Active, HasThread
    <2>4. races' = {} => CalmInv'
      BY <1>0, <2>1 DEF CalmInv, Active, MidSave, Preparing
    <2>5. QED
      BY <2>2, <2>3, <2>4 DEF IInv
  <1>2. CASE Next
    <2>1. TypeOK'
      BY <1>0, NextType
    <2>2. MemoryInv' /\ LeaseHasHolder' /\ CandidateInv' /\ DetachedOwnsNothing'
      BY <1>0, <1>2, MemoryStep, HolderStep, CandidateStep, DetachedStep
    <2>3. RevisionInv' /\ EmptyInv'
      BY <1>0, <1>2, RevisionStep, EmptyStep
    <2>4. ASSUME races' = {}
          PROVE  CalmInv'
      <3>1. races = {}
        BY <1>0, <1>2, <2>4, RacesStep
      <3>2. CalmInv
        BY <1>0, <3>1
      <3>3. ASSUME NEW t \in Triggers, TriggerStep(t)
            PROVE  CalmInv'
        BY <1>0, <2>4, <3>2, <3>3, CalmTrigger
      <3>4. CASE LeaseExpires \/ Stall \/ RetryCheck \/ RetryQueue
        BY <1>0, <2>4, <3>2, <3>4, CalmTime
      <3>5. ASSUME NEW s \in Servers, PollStep(s) \/ Claim(s) \/ Halt(s)
            PROVE  CalmInv'
        BY <1>0, <2>4, <3>2, <3>5, CalmScheduler
      <3>6. ASSUME NEW r \in Runs, WorkStep(r) \/ ExitStep(r) \/ LateStep(r)
            PROVE  CalmInv'
        BY <1>0, <2>4, <3>2, <3>6, CalmRun
      <3>7. QED
        BY <1>2, <3>3, <3>4, <3>5, <3>6, StepKinds DEF QuietStep, TriggerStep
    <2>5. QED
      BY <2>1, <2>2, <2>3, <2>4 DEF IInv
  <1>3. QED
    BY <1>1, <1>2

\* The inductive invariant of the lease protocol.
THEOREM LeaseInvariant == Spec => []IInv
  BY InitIInv, NextIInv, PTL DEF Spec

\* Outside the races of RaceKinds a run at work holds the lease: no task is
\* executed twice, whatever servers crash, shut down or poll.
THEOREM LeaseExclusionHolds == Spec => []LeaseExclusion
  <1>1. IInv => LeaseExclusion
    BY DEF IInv, CalmInv, LeaseExclusion
  <1>2. QED
    BY <1>1, LeaseInvariant, PTL

\* Even in the races, a lease names a run at work or one whose process died: no
\* exit of review_task leaves its lease behind.
THEOREM LeaseHasHolderHolds == Spec => []LeaseHasHolder
  <1>1. IInv => LeaseHasHolder
    BY DEF IInv
  <1>2. QED
    BY <1>1, LeaseInvariant, PTL

\* Even in the races, a scheduler lets go only of runs that lost the lease.
THEOREM DetachedOwnsNothingHolds == Spec => []DetachedOwnsNothing
  <1>1. IInv => DetachedOwnsNothing
    BY DEF IInv
  <1>2. QED
    BY <1>1, LeaseInvariant, PTL

\* Even in the races, two triggers in progress never share a revision.
THEOREM RevisionsUniqueHolds == Spec => []RevisionsUnique
  <1>1. IInv => RevisionsUnique
    BY DEF IInv, RevisionInv
  <1>2. QED
    BY <1>1, LeaseInvariant, PTL

-----------------------------------------------------------------------------
(* Saves *)

\* What a save does to the fields the lease is not about.
LEMMA SavedRest ==
    ASSUME NEW loaded, NEW new
    PROVE  /\ Saved(loaded, new).interrupt =
                IF new.interrupt = loaded.interrupt THEN task.interrupt ELSE new.interrupt
           /\ Saved(loaded, new).auto =
                IF new.auto = loaded.auto THEN task.auto ELSE new.auto
           /\ Saved(loaded, new).retries =
                IF new.retries = loaded.retries THEN task.retries ELSE new.retries
           /\ Saved(loaded, new).retryOnly =
                IF new.retryOnly = loaded.retryOnly THEN task.retryOnly ELSE new.retryOnly
  BY DEF Saved, Written

-----------------------------------------------------------------------------
(* What a run has read *)

\* A run that works has a copy of the claim, one that is interrupted of a task no
\* older than its own revision.
LEMMA CopyStep ==
    ASSUME IInv, CopyInv, Next
    PROVE  CopyInv'
  <1> USE DEF ActivePc, ClosingPc
  <1>0. /\ TypeOK /\ MemoryInv /\ RevisionInv
        /\ task \in Doc /\ task.rev \in Nat
        /\ \A x \in Runs : asked[x] \in Nat /\ mem[x].rev \in Nat /\ asked[x] <= task.rev
    BY DEF IInv, TypeOK, Doc, RevisionInv
  <1>r. task'.rev \in Nat /\ task.rev <= task'.rev
    <2>1. task'.rev = task.rev \/ task'.rev = task.rev + 1
      BY <1>0, RevisionEffect, BeginEffect
    <2>2. QED
      BY <1>0, <2>1
  <1>1. CASE QuietStep
    <2>1. UNCHANGED <<pc, mem, asked>>
      BY <1>0, <1>1, QuietEffect DEF QuietStep
    <2>2. QED
      BY <1>0, <1>r, <2>1 DEF CopyInv
  <1>2. ASSUME NEW s \in Servers, PollStep(s)
        PROVE  CopyInv'
    <2>1. UNCHANGED <<pc, mem, asked>>
      BY <1>0, <1>2, PollEffect
    <2>2. QED
      BY <1>0, <1>r, <2>1 DEF CopyInv
  <1>3. ASSUME NEW s \in Servers, Claim(s)
        PROVE  CopyInv'
    <2>1. PICK r \in Runs :
            IF s \in alive
              THEN /\ Goto(r, "claimed")
                   /\ mem' = [mem EXCEPT ![r] = Claimed(s, r)]
                   /\ asked' = [asked EXCEPT ![r] = task.rev]
              ELSE /\ Goto(r, "dead")
                   /\ UNCHANGED <<mem, asked>>
      BY <1>3 DEF Claim
    <2>2. Claimed(s, r).state = "RUNNING" /\ ~Claimed(s, r).auto
      BY <1>0 DEF Claimed, Doc
    <2>3. QED
      BY <1>0, <1>r, <2>1, <2>2 DEF CopyInv, Goto, TypeOK
  <1>4. ASSUME NEW s \in Servers, Halt(s)
        PROVE  CopyInv'
    <2>1. \A x \in Runs :
             \/ pc'[x] = "dead"
             \/ pc'[x] = pc[x] /\ mem'[x] = mem[x] /\ asked'[x] = asked[x]
      BY <1>0, <1>4, HaltEffect
    <2>2. QED
      BY <1>0, <1>r, <2>1 DEF CopyInv
  <1>5. ASSUME NEW r \in Runs, WorkStep(r)
        PROVE  CopyInv'
    <2>1. /\ task' = task /\ asked' = asked
          /\ pc[r] \in ActivePc \ {"releasing"} /\ pc'[r] \in ActivePc
          /\ pc'[r] = "releasing" => mem'[r] = task
          /\ pc'[r] # "releasing" => mem'[r] = mem[r]
          /\ \A x \in Runs \ {r} : pc'[x] = pc[x] /\ mem'[x] = mem[x]
      BY <1>0, <1>5, WorkEffect DEF WorkStep
    <2>2. QED
      BY <1>0, <2>1 DEF CopyInv
  <1>6. ASSUME NEW r \in Runs, ExitStep(r) \/ LateStep(r)
        PROVE  CopyInv'
    <2>1. /\ pc'[r] \in {"ended", "closing", "late_fatal", "late_failing"}
          /\ \A x \in Runs \ {r} :
                pc'[x] = pc[x] /\ mem'[x] = mem[x] /\ asked'[x] = asked[x]
      BY <1>0, <1>6, ExitThread, LateEffect
    <2>2. QED
      BY <1>0, <1>r, <2>1 DEF CopyInv
  <1>7. QED
    BY <1>1, <1>2, <1>3, <1>4, <1>5, <1>6, StepKinds

-----------------------------------------------------------------------------
(* The interrupt request *)

\* Only the beginning of a submission requests an interrupt.
LEMMA InterruptEffect ==
    ASSUME TypeOK, CopyInv,
           \/ LeaseExpires \/ Stall \/ RetryCheck \/ RetryQueue
           \/ \E s \in Servers : PollStep(s) \/ Claim(s) \/ Halt(s)
           \/ \E r \in Runs : WorkStep(r) \/ ExitStep(r) \/ LateStep(r)
    PROVE  task'.interrupt \in {task.interrupt, FALSE}
  <1> USE DEF taskVars
  <1>0. task \in Doc /\ \A r \in Runs : mem[r] \in Doc
    BY DEF TypeOK
  <1>1. CASE LeaseExpires \/ Stall \/ RetryCheck
    BY <1>0, <1>1 DEF LeaseExpires, Stall, RetryCheck, Doc
  <1>2. CASE RetryQueue
    <2>1. ~[task EXCEPT !.state = "PENDING", !.status = "retry_pending",
                        !.prio = 100, !.retryOnly = TRUE,
                        !.auto = FALSE, !.interrupt = FALSE].interrupt
      BY <1>0 DEF Doc
    <2>2. QED
      BY <1>2, <2>1 DEF RetryQueue
  <1>3. ASSUME NEW s \in Servers, PollStep(s) \/ Claim(s) \/ Halt(s)
        PROVE  task'.interrupt \in {task.interrupt, FALSE}
    <2>1. CASE Heartbeat(s)
      BY <1>0, <2>1 DEF Heartbeat, Doc
    <2>2. CASE Claim(s)
      <3>1. PICK r \in Runs : task' = Claimed(s, r)
        BY <2>2 DEF Claim
      <3>2. QED
        BY <1>0, <3>1 DEF Claimed, Doc
    <2>3. CASE PollStep(s) /\ ~Heartbeat(s)
      BY <2>3 DEF PollStep, PollClear, Preempt, ReadCandidate, ClaimLost, Shutdown,
                  Restart
    <2>4. CASE Halt(s)
      BY <2>4 DEF Halt
    <2>5. QED
      BY <1>3, <2>1, <2>2, <2>3, <2>4
  <1>4. ASSUME NEW r \in Runs, WorkStep(r) \/ ExitStep(r) \/ LateStep(r)
        PROVE  task'.interrupt \in {task.interrupt, FALSE}
    <2>1. CASE WorkStep(r)
      BY <2>1, WorkEffect DEF WorkStep
    <2>2. /\ Finished(r).interrupt = mem[r].interrupt
          /\ Failed(r).interrupt = mem[r].interrupt
          /\ Interrupted(r).interrupt \in {mem[r].interrupt, FALSE}
      BY <1>0 DEF Finished, Failed, RetryFields, Interrupted, Doc
    <2>3. CASE RunClose(r) \/ RunLateRaise(r) \/ RunLateFatal(r)
      BY <2>3 DEF RunClose, RunLateRaise, RunLateFatal
    <2>4. QED
      <3>1. CASE RunFinish(r)
        <4>1. task' = Saved(mem[r], Finished(r))
          BY <3>1 DEF RunFinish
        <4>2. Finished(r).interrupt = mem[r].interrupt
          BY <2>2
        <4>3. Saved(mem[r], Finished(r)).interrupt = task.interrupt
          BY <4>2, SavedRest
        <4>4. QED
          BY <4>1, <4>3
      <3>2. CASE RunFail(r) \/ RunLateFail(r)
        <4>1. task' = Saved(mem[r], Failed(r))
          BY <3>2 DEF RunFail, RunLateFail
        <4>2. Failed(r).interrupt = mem[r].interrupt
          BY <2>2
        <4>3. Saved(mem[r], Failed(r)).interrupt = task.interrupt
          BY <4>2, SavedRest
        <4>4. QED
          BY <4>1, <4>3
      <3>3. CASE RunRelease(r)
        <4>1. task' = Saved(mem[r], Interrupted(r))
          BY <3>3 DEF RunRelease
        <4>2. Interrupted(r).interrupt \in {mem[r].interrupt, FALSE}
          BY <2>2
        <4>3. Saved(mem[r], Interrupted(r)).interrupt
                \in {task.interrupt, Interrupted(r).interrupt}
          BY SavedRest
        <4>4. CASE Interrupted(r).interrupt = mem[r].interrupt
          <5>1. Saved(mem[r], Interrupted(r)).interrupt = task.interrupt
            BY <4>4, SavedRest
          <5>2. QED
            BY <4>1, <5>1
        <4>5. CASE Interrupted(r).interrupt = FALSE
          BY <4>1, <4>3, <4>5
        <4>6. QED
          BY <4>2, <4>4, <4>5
      <3>4. QED
        BY <1>4, <2>1, <2>3, <3>1, <3>2, <3>3 DEF ExitStep, LateStep
  <1>5. QED
    BY <1>1, <1>2, <1>3, <1>4

\* A trigger takes back the request it made, or leaves it to the trigger that has
\* superseded it.
LEMMA InterruptTrigger ==
    ASSUME TypeOK, InterruptHasRequester, NEW t \in Triggers, TriggerStep(t)
    PROVE  InterruptHasRequester'
  <1> USE DEF Advance
  <1>0. /\ task \in Doc /\ trig \in [Triggers -> Trigger] /\ trig[t] \in Trigger
        /\ task.rev \in Nat
    BY DEF TypeOK, Doc
  <1>1. CASE TrigCreate(t) \/ TrigBegin(t)
    <2>1. CASE TrigBegin(t)
      <3>1. /\ task'.rev = task.rev + 1
            /\ trig' = [trig EXCEPT ![t] = [trig[t] EXCEPT !.pc = "prepare",
                                                           !.rev = task.rev + 1]]
        BY <1>0, <2>1 DEF TrigBegin, Doc
      <3>2. trig'[t].rev = task'.rev /\ trig'[t].pc = "prepare"
        BY <1>0, <3>1 DEF Trigger
      <3>3. QED
        BY <3>2 DEF InterruptHasRequester
    <2>2. CASE TrigCreate(t) /\ task.rev = 0
      BY <2>2 DEF TrigCreate, NoDoc, InterruptHasRequester
    <2>3. CASE TrigCreate(t) /\ task.rev # 0
      BY <1>0, <2>3 DEF TrigCreate, InterruptHasRequester
    <2>4. QED
      BY <1>1, <2>1, <2>2, <2>3
  <1>2. CASE TrigPublish(t) \/ TrigFail(t)
    <2>1. /\ trig'[t].pc = "done"
          /\ \A u \in Triggers \ {t} : trig'[u] = trig[u]
      BY <1>0, <1>2 DEF TrigPublish, TrigFail, Done, NewTrigger
    <2>2. CASE task.rev = trig[t].rev
      <3>1. ~task'.interrupt
        <4>1. CASE TrigPublish(t)
          BY <1>0, <2>2, <4>1 DEF TrigPublish, Published, Doc
        <4>2. CASE TrigFail(t)
          BY <1>0, <2>2, <4>2 DEF TrigFail, PreparationFailed, Doc
        <4>3. QED
          BY <1>2, <4>1, <4>2
      <3>2. QED
        BY <3>1 DEF InterruptHasRequester
    <2>3. CASE task.rev # trig[t].rev
      <3>1. task' = task
        BY <1>2, <2>3 DEF TrigPublish, TrigFail
      <3>2. QED
        BY <2>1, <2>3, <3>1 DEF InterruptHasRequester
    <2>4. QED
      BY <2>2, <2>3
  <1>3. CASE TrigFind(t) \/ TrigReload(t)
    <2>1. task' = task /\ trig[t].pc \in {"idle", "reload"}
      BY <1>3 DEF TrigFind, TrigReload, taskVars
    <2>2. \A u \in Triggers \ {t} : trig'[u] = trig[u]
      BY <1>0, <1>3 DEF TrigFind, TrigReload
    <2>3. QED
      BY <2>1, <2>2 DEF InterruptHasRequester
  <1>4. CASE TrigPrepare(t) \/ TrigCrash(t)
    <2>1. task' = task
      BY <1>4 DEF TrigPrepare, TrigCrash, taskVars
    <2>2. /\ trig'[t].rev = trig[t].rev /\ trig'[t].pc \in {"publish", "dead"}
          /\ \A u \in Triggers \ {t} : trig'[u] = trig[u]
      <3>1. CASE TrigCrash(t)
        BY <1>0, <3>1 DEF TrigCrash, Trigger
      <3>2. CASE TrigPrepare(t)
        <4>1. PICK work :
                trig' = [trig EXCEPT ![t] = [trig[t] EXCEPT !.pc = "publish",
                                                            !.work = work]]
          BY <3>2 DEF TrigPrepare
        <4>2. QED
          BY <1>0, <4>1 DEF Trigger
      <3>3. QED
        BY <1>4, <3>1, <3>2
    <2>3. QED
      BY <2>1, <2>2 DEF InterruptHasRequester
  <1>5. QED
    BY <1>1, <1>2, <1>3, <1>4 DEF TriggerStep, TrigStep

\* An interrupt request always has its trigger.
LEMMA InterruptStep ==
    ASSUME IInv, CopyInv, InterruptHasRequester, Next
    PROVE  InterruptHasRequester'
  <1>0. TypeOK /\ MemoryInv
    BY DEF IInv
  <1>1. ASSUME NEW t \in Triggers, TriggerStep(t)
        PROVE  InterruptHasRequester'
    BY <1>0, <1>1, InterruptTrigger
  <1>2. CASE \/ LeaseExpires \/ Stall \/ RetryCheck \/ RetryQueue
             \/ \E s \in Servers : PollStep(s) \/ Claim(s) \/ Halt(s)
             \/ \E r \in Runs : WorkStep(r) \/ ExitStep(r) \/ LateStep(r)
    <2>1. trig' = trig /\ task'.rev = task.rev
      BY <1>0, <1>2, TimeEffect, PollEffect, ClaimSource, HaltEffect, WorkEffect,
         ExitEffect, LateEffect DEF WorkStep
    <2>2. task'.interrupt \in {task.interrupt, FALSE}
      BY <1>0, <1>2, InterruptEffect
    <2>3. QED
      BY <2>1, <2>2 DEF InterruptHasRequester
  <1>3. QED
    BY <1>1, <1>2, StepKinds DEF QuietStep, TriggerStep

-----------------------------------------------------------------------------
(* What a run reports *)

\* A failure is saved as PARTIAL, and announces a retry only below the limit.
LEMMA FailureSave ==
    ASSUME TypeOK, NEW r \in Runs, NEW again \in BOOLEAN, NEW st \in CompletionStatus,
           mem[r].state = "RUNNING", ~mem[r].auto, ~task.auto,
           task' = Saved(mem[r], [RetryFields(r, again) EXCEPT !.status = st])
    PROVE  /\ task'.state = "PARTIAL"
           /\ task'.auto => task'.retries < RetryLimit
           /\ task'.retryOnly \in {task.retryOnly, FALSE}
  <1> DEFINE n == CountRetry(mem[r].retries)
             new == [RetryFields(r, again) EXCEPT !.status = st]
  <1>0. mem[r] \in Doc /\ task \in Doc /\ mem[r].retries \in 0 .. RetryLimit
    BY DEF TypeOK, Doc
  <1>1. /\ new.state = "PARTIAL" /\ new.retries = n
        /\ new.auto = (again /\ n < RetryLimit) /\ new.retryOnly = FALSE
    BY <1>0 DEF RetryFields, Doc
  <1>2. n < RetryLimit => n # mem[r].retries
    BY <1>0, CountRetryType DEF CountRetry
  <1> HIDE DEF n, new
  <1>3. task' = Saved(mem[r], new)
    BY DEF new
  <1>4. task'.state = "PARTIAL"
    BY <1>1, <1>3, SavedFields
  <1>5. task'.retryOnly \in {task.retryOnly, FALSE}
    <2>1. Saved(mem[r], new).retryOnly \in {task.retryOnly, new.retryOnly}
      BY SavedRest
    <2>2. QED
      BY <1>1, <1>3, <2>1
  <1>6. task'.auto => task'.retries < RetryLimit
    <2>1. CASE n < RetryLimit
      <3>1. Saved(mem[r], new).retries = n
        BY <1>1, <1>2, <2>1, SavedRest
      <3>2. QED
        BY <1>3, <2>1, <3>1
    <2>2. CASE ~(n < RetryLimit)
      <3>1. new.auto = FALSE /\ mem[r].auto = FALSE /\ task.auto = FALSE
        BY <1>0, <1>1, <2>2 DEF Doc
      <3>2. new.auto = mem[r].auto
        BY <3>1
      <3>3. Saved(mem[r], new).auto = task.auto
        BY <3>2, SavedRest
      <3>4. QED
        BY <1>3, <3>1, <3>3
    <2>3. QED
      BY <2>1, <2>2
  <1>7. QED
    BY <1>4, <1>5, <1>6

\* Outside the races, the run of the current revision saves what became of its
\* blocks, and any other run gives its lease back and writes nothing else.
LEMMA ExitOutcome ==
    ASSUME IInv, CopyInv, CalmInv, OwnerInv, ReportInv, StateInv,
           NEW r \in Runs, ExitStep(r)
    PROVE  /\ left' = left
           /\ task'.retryOnly \in {task.retryOnly, FALSE}
           /\ \/ /\ asked[r] = task.rev
                 /\ \/ task'.state = "COMPLETED" /\ left = {} /\ ~task'.auto
                    \/ task'.state = "PARTIAL" /\ (task'.auto => task'.retries < RetryLimit)
                    \/ task'.state = "PENDING" /\ ~task'.auto
              \/ /\ asked[r] # task.rev
                 /\ task'.state = task.state /\ task'.auto = task.auto
                 /\ task'.retries = task.retries
  <1>0. /\ TypeOK /\ MemoryInv
        /\ mem[r] \in Doc /\ task \in Doc
    BY DEF IInv, TypeOK
  <1>a. task.state = "RUNNING" => ~task.auto
    BY DEF StateInv
  <1>1. CASE RunFinish(r)
    <2>1. /\ pc[r] = "finish" /\ task' = Saved(mem[r], Finished(r)) /\ left' = left
      BY <1>1 DEF RunFinish
    <2>2. mem[r].state = "RUNNING" /\ ~mem[r].auto
      BY <2>1 DEF CopyInv, ActivePc
    <2>3. asked[r] = task.rev
      BY <2>1 DEF CalmInv, MidSave
    <2>4. task.state = "RUNNING" /\ result[r] = left
      BY <2>1, <2>3 DEF OwnerInv, ReportInv, Active, ActivePc
    <2>5. CASE result[r] = {}
      <3>1. /\ Finished(r).state = "COMPLETED" /\ Finished(r).auto = FALSE
            /\ Finished(r).retryOnly = FALSE
        BY <1>0, <2>5 DEF Finished, Doc
      <3>2. task'.state = "COMPLETED"
        BY <2>1, <2>2, <3>1, SavedFields
      <3>3. mem[r].auto = FALSE /\ task.auto = FALSE
        BY <1>0, <1>a, <2>2, <2>4 DEF Doc
      <3>4. Saved(mem[r], Finished(r)).auto = task.auto
        <4>1. Finished(r).auto = mem[r].auto
          BY <3>1, <3>3
        <4>2. QED
          BY <4>1, SavedRest
      <3>5. Saved(mem[r], Finished(r)).retryOnly
              \in {task.retryOnly, Finished(r).retryOnly}
        BY SavedRest
      <3>6. QED
        BY <2>1, <2>3, <2>4, <2>5, <3>1, <3>2, <3>3, <3>4, <3>5
    <2>6. CASE result[r] # {}
      <3> DEFINE again == "failed" \in result[r]
      <3>1. Finished(r) = [RetryFields(r, again) EXCEPT !.status = "partial"]
        BY <2>6 DEF Finished
      <3>2. again \in BOOLEAN /\ "partial" \in CompletionStatus
        BY DEF CompletionStatus
      <3> HIDE DEF again
      <3>3. QED
        BY <1>0, <1>a, <2>1, <2>2, <2>3, <2>4, <3>1, <3>2, FailureSave
    <2>7. QED
      BY <2>5, <2>6
  <1>2. CASE RunFail(r)
    <2>1. /\ pc[r] = "failing" /\ left' = left
          /\ task' = Saved(mem[r], [RetryFields(r, TRUE) EXCEPT !.status = "failed"])
      BY <1>2 DEF RunFail, Failed
    <2>2. mem[r].state = "RUNNING" /\ ~mem[r].auto
      BY <2>1 DEF CopyInv, ActivePc
    <2>3. asked[r] = task.rev
      BY <2>1 DEF CalmInv, MidSave
    <2>4. task.state = "RUNNING"
      BY <2>1, <2>3 DEF OwnerInv, Active, ActivePc
    <2>5. QED
      BY <1>0, <1>a, <2>1, <2>2, <2>3, <2>4, FailureSave DEF CompletionStatus
  <1>3. CASE RunRelease(r)
    <2>1. /\ pc[r] = "releasing" /\ left' = left
          /\ task' = Saved(mem[r], Interrupted(r))
      BY <1>3 DEF RunRelease
    <2>2. /\ Interrupted(r).auto = mem[r].auto
          /\ Interrupted(r).retries = mem[r].retries
          /\ Interrupted(r).retryOnly = mem[r].retryOnly
          /\ Interrupted(r).state = IF mem[r].rev = asked[r] THEN "PENDING"
                                                             ELSE mem[r].state
      BY <1>0 DEF Interrupted, OwnsLease, SameRevision, Doc
    <2>3. /\ Saved(mem[r], Interrupted(r)).auto = task.auto
          /\ Saved(mem[r], Interrupted(r)).retries = task.retries
          /\ Saved(mem[r], Interrupted(r)).retryOnly = task.retryOnly
      BY <2>2, SavedRest
    <2>4. CASE mem[r].rev = asked[r]
      <3>1. asked[r] = task.rev
        BY <2>1, <2>4 DEF CalmInv, MidSave
      <3>2. task.state = "RUNNING" /\ mem[r].state = "RUNNING"
        BY <2>1, <2>4, <3>1 DEF OwnerInv, Active, ActivePc
      <3>3. task'.state = "PENDING"
        BY <2>1, <2>2, <2>4, <3>2, SavedFields
      <3>4. QED
        BY <1>a, <2>1, <2>3, <3>1, <3>2, <3>3
    <2>5. CASE mem[r].rev # asked[r]
      <3>1. asked[r] \in Nat /\ mem[r].rev \in Nat /\ task.rev \in Nat
        BY <1>0 DEF TypeOK, Doc
      <3>2. asked[r] <= mem[r].rev /\ mem[r].rev <= task.rev
        BY <2>1 DEF CopyInv
      <3>3. asked[r] # task.rev
        BY <2>5, <3>1, <3>2
      <3>4. task'.state = task.state
        BY <2>1, <2>2, <2>5, SavedFields
      <3>5. QED
        BY <2>1, <2>3, <3>3, <3>4
    <2>6. QED
      BY <2>4, <2>5
  <1>4. QED
    BY <1>1, <1>2, <1>3 DEF ExitStep

-----------------------------------------------------------------------------
(* One lemma per actor *)

OutcomeInv == OwnerInv /\ ReportInv /\ StateInv

\* While the current revision is being prepared no run is about to save.
LEMMA PreparingAlone ==
    ASSUME TypeOK, RevisionInv, CalmInv, ReportInv, StateInv,
           NEW t \in Triggers, Preparing(t), trig[t].rev = task.rev
    PROVE  /\ task.state = "PREPARING" /\ ~task.auto /\ ~task.retryOnly
           /\ \A r \in Runs : Active(r) => asked[r] # task.rev
           /\ \A r \in Runs : ~MidSave(r)
           /\ \A u \in Triggers \ {t} : trig[u].rev # task.rev
  <1>1. task.state = "PREPARING" /\ \A r \in Runs : Active(r) => asked[r] # task.rev
    BY DEF CalmInv
  <1>2. ~task.auto /\ ~task.retryOnly
    BY <1>1 DEF ReportInv, StateInv
  <1>3. \A r \in Runs : MidSave(r) => Active(r) /\ asked[r] = task.rev
    BY DEF CalmInv, MidSave, Active, ActivePc
  <1>4. trig[t].rev # 0
    BY DEF RevisionInv, TypeOK, Trigger
  <1>5. \A u \in Triggers \ {t} : trig[u].rev # task.rev
    BY <1>4 DEF RevisionInv, RevisionsUnique
  <1>6. QED
    BY <1>1, <1>2, <1>3, <1>5

\* The beginning of a submission, outside the races, interrupts runs before
\* anything of theirs is saved.
LEMMA OutcomeBegin ==
    ASSUME TypeOK, RevisionInv, EmptyInv, OutcomeInv, races' = {},
           NEW t \in Triggers, TrigCreate(t) \/ TrigBegin(t)
    PROVE  OutcomeInv'
  <1> USE DEF schedVars, runVars, otherVars
  <1>0. /\ task \in Doc /\ task.rev \in Nat /\ \A r \in Runs : asked[r] \in Nat
        /\ \A u \in Triggers : trig[u].rev \in Nat
    BY DEF TypeOK, Doc, Trigger
  <1>1. UNCHANGED <<left, pc, mem, asked, result>>
    BY DEF TrigCreate, TrigBegin
  <1>2. /\ \A u \in Triggers \ {t} : trig'[u] = trig[u]
        /\ \/ task' = task /\ trig'[t].pc = "reload"
           \/ task'.rev = task.rev + 1 /\ trig'[t].pc = "prepare"
    BY BeginEffect
  <1>3. CASE task' = task /\ trig'[t].pc = "reload"
    <2>1. OwnerInv' /\ StateInv'
      BY <1>1, <1>3 DEF OutcomeInv, OwnerInv, StateInv, Active
    <2>2. ReportInv'
      BY <1>1, <1>2, <1>3 DEF OutcomeInv, ReportInv
    <2>3. QED
      BY <2>1, <2>2 DEF OutcomeInv
  <1>4. CASE task'.rev = task.rev + 1 /\ trig'[t].pc = "prepare"
    <2>1. task'.state = "PREPARING" /\ ~task'.auto /\ ~task'.retryOnly
      <3>1. CASE TrigBegin(t)
        BY <1>0, <3>1 DEF TrigBegin, Doc
      <3>2. CASE TrigCreate(t)
        BY <1>0, <1>4, <3>2 DEF TrigCreate, NoDoc
      <3>3. QED
        BY <3>1, <3>2
    <2>2. \A r \in Runs : ~MidSave(r)
      <3>1. CASE TrigBegin(t)
        BY <3>1 DEF TrigBegin, Note
      <3>2. CASE TrigCreate(t)
        <4>1. task.rev = 0
          BY <1>0, <1>4, <3>2 DEF TrigCreate
        <4>2. QED
          BY <4>1 DEF EmptyInv, HasThread, MidSave, ActivePc
      <3>3. QED
        BY <3>1, <3>2
    <2>3. \A r \in Runs : asked[r] # task'.rev
      BY <1>0, <1>4 DEF RevisionInv
    <2>4. \A u \in Triggers : trig'[u].pc = "publish" => trig'[u].rev # task'.rev
      BY <1>0, <1>2, <1>4 DEF RevisionInv
    <2>5. OwnerInv'
      BY <1>1, <2>1, <2>2, <2>3 DEF OwnerInv, MidSave
    <2>6. ReportInv' /\ StateInv'
      BY <1>1, <2>1, <2>2, <2>4 DEF ReportInv, StateInv, MidSave
    <2>7. QED
      BY <2>5, <2>6 DEF OutcomeInv
  <1>5. QED
    BY <1>2, <1>3, <1>4

\* A submission publishes what its preparation found, and a superseded one
\* changes nothing.
LEMMA OutcomeTrigger ==
    ASSUME TypeOK, RevisionInv, CalmInv, OutcomeInv, races' = {},
           NEW t \in Triggers, PlainTrigger(t)
    PROVE  OutcomeInv'
  <1> USE DEF schedVars, runVars, otherVars, Advance
  <1>0. /\ OwnerInv /\ ReportInv /\ StateInv
        /\ task \in Doc /\ trig \in [Triggers -> Trigger] /\ trig[t] \in Trigger
    BY DEF OutcomeInv, TypeOK
  <1>1. /\ UNCHANGED <<pc, mem, asked, result>>
        /\ \A u \in Triggers \ {t} : trig'[u] = trig[u]
    BY PlainTriggerEffect
       DEF PlainTrigger, TrigFind, TrigReload, TrigPrepare, TrigPublish, TrigFail,
           TrigCrash
  <1>2. CASE TrigFind(t) \/ TrigReload(t) \/ TrigCrash(t)
    <2>1. task' = task /\ left' = left
      BY <1>2 DEF TrigFind, TrigReload, TrigCrash, taskVars
    <2>2. trig'[t].pc # "publish"
      <3>1. CASE TrigFind(t)
        BY <1>0, <3>1 DEF TrigFind, Trigger
      <3>2. CASE TrigReload(t)
        BY <1>0, <3>2 DEF TrigReload, Trigger
      <3>3. CASE TrigCrash(t)
        BY <1>0, <3>3 DEF TrigCrash, Trigger
      <3>4. QED
        BY <1>2, <3>1, <3>2, <3>3
    <2>3. OwnerInv' /\ StateInv'
      BY <1>0, <1>1, <2>1 DEF OwnerInv, StateInv, Active
    <2>4. ReportInv'
      BY <1>0, <1>1, <2>1, <2>2 DEF ReportInv
    <2>5. QED
      BY <2>3, <2>4 DEF OutcomeInv
  <1>3. CASE TrigPrepare(t)
    <2>1. PICK blocks \in SyncOutcomes, removed \in BOOLEAN :
            /\ left' = blocks
            /\ LET work == \/ blocks # {}
                           \/ /\ ~trig[t].created
                              /\ trig[t].prev # "COMPLETED" \/ removed
               IN trig' = [trig EXCEPT ![t] = [trig[t] EXCEPT !.pc = "publish",
                                                              !.work = work]]
      BY <1>3 DEF TrigPrepare
    <2>2. trig'[t].rev = trig[t].rev /\ (~trig'[t].work => left' = {})
      BY <1>0, <2>1 DEF Trigger
    <2>3. task' = task /\ Preparing(t) /\ trig[t].rev = task.rev
      BY <1>3 DEF TrigPrepare, Note, Preparing
    <2>4. /\ task.state = "PREPARING" /\ ~task.auto /\ ~task.retryOnly
          /\ \A r \in Runs : ~MidSave(r)
          /\ \A u \in Triggers \ {t} : trig[u].rev # task.rev
      BY <1>0, <2>3, PreparingAlone
    <2>5. OwnerInv' /\ StateInv'
      BY <1>0, <1>1, <2>3, <2>4 DEF OwnerInv, StateInv, Active
    <2>6. ReportInv'
      BY <1>0, <1>1, <2>2, <2>3, <2>4 DEF ReportInv, MidSave
    <2>7. QED
      BY <2>5, <2>6 DEF OutcomeInv
  <1>4. CASE TrigPublish(t) \/ TrigFail(t)
    <2>1. Preparing(t) /\ trig'[t].pc = "done"
      BY <1>0, <1>4 DEF TrigPublish, TrigFail, Done, NewTrigger, Preparing
    <2>2. CASE trig[t].rev # task.rev
      <3>1. task' = task /\ left' = left
        BY <1>4, <2>2 DEF TrigPublish, TrigFail, Note
      <3>2. OwnerInv' /\ StateInv'
        BY <1>0, <1>1, <3>1 DEF OwnerInv, StateInv, Active
      <3>3. ReportInv'
        BY <1>0, <1>1, <2>1, <3>1 DEF ReportInv
      <3>4. QED
        BY <3>2, <3>3 DEF OutcomeInv
    <2>3. CASE trig[t].rev = task.rev
      <3>1. /\ ~task.auto /\ ~task.retryOnly
            /\ \A r \in Runs : Active(r) => asked[r] # task.rev
            /\ \A r \in Runs : ~MidSave(r)
            /\ \A u \in Triggers \ {t} : trig[u].rev # task.rev
        BY <1>0, <2>1, <2>3, PreparingAlone
      <3>2. /\ task'.rev = task.rev /\ ~task'.auto /\ ~task'.retryOnly
            /\ task'.state \notin {"RUNNING", "PREPARING"}
            /\ task'.state = "COMPLETED" => left' = {}
        <4>1. CASE TrigFail(t)
          BY <1>0, <2>3, <3>1, <4>1 DEF TrigFail, PreparationFailed, Doc
        <4>2. CASE TrigPublish(t) /\ trig[t].work
          BY <1>0, <2>3, <4>2 DEF TrigPublish, Published, Doc
        <4>3. CASE TrigPublish(t) /\ ~trig[t].work
          <5>1. left' = left /\ left = {}
            BY <1>0, <2>3, <4>3 DEF TrigPublish, ReportInv
          <5>2. QED
            BY <1>0, <2>3, <4>3, <5>1 DEF TrigPublish, Published, Doc
        <4>4. QED
          BY <1>4, <4>1, <4>2, <4>3
      <3>3. OwnerInv'
        BY <1>1, <3>1, <3>2 DEF OwnerInv, Active, MidSave
      <3>4. ReportInv'
        BY <1>1, <2>1, <3>1, <3>2 DEF ReportInv, MidSave
      <3>5. StateInv'
        BY <3>2 DEF StateInv
      <3>6. QED
        BY <3>3, <3>4, <3>5 DEF OutcomeInv
    <2>4. QED
      BY <2>2, <2>3
  <1>5. QED
    BY <1>2, <1>3, <1>4 DEF PlainTrigger

\* Time changes how long a lease lives and nothing else, and a retry is queued
\* with nobody at work.
LEMMA OutcomeTime ==
    ASSUME TypeOK, CalmInv, OutcomeInv, races' = {},
           LeaseExpires \/ Stall \/ RetryCheck \/ RetryQueue
    PROVE  OutcomeInv'
  <1> USE DEF taskVars, schedVars, runVars, otherVars
  <1>0. task \in Doc /\ OwnerInv /\ ReportInv /\ StateInv
    BY DEF OutcomeInv, TypeOK
  <1>1. UNCHANGED <<left, pc, mem, asked, result, trig>>
    BY DEF LeaseExpires, Stall, RetryCheck, RetryQueue
  <1>2. ASSUME /\ task'.state = task.state /\ task'.rev = task.rev
               /\ task'.retryOnly = task.retryOnly /\ task'.token = task.token
               /\ task'.auto = task.auto /\ task'.retries = task.retries
        PROVE  OutcomeInv'
    BY <1>0, <1>1, <1>2 DEF OutcomeInv, OwnerInv, ReportInv, StateInv, Active
  <1>3. CASE LeaseExpires
    BY <1>0, <1>2, <1>3 DEF LeaseExpires, Doc
  <1>4. CASE Stall
    BY <1>0, <1>2, <1>4 DEF Stall, Doc
  <1>5. CASE RetryCheck \/ (RetryQueue /\ ~RetryMatches)
    BY <1>2, <1>5 DEF RetryCheck, RetryQueue
  <1>6. CASE RetryQueue /\ RetryMatches
    <2>1. /\ task'.state = "PENDING" /\ ~task'.auto
          /\ task'.rev = task.rev
          /\ task.state = "PARTIAL" /\ task.token = None /\ "pending" \notin left
      BY <1>0, <1>6 DEF RetryQueue, RetryMatches, Note, Doc
    <2>2. \A r \in Runs : pc[r] \notin ActivePc
      BY <2>1 DEF CalmInv, Active
    <2>3. OwnerInv' /\ StateInv'
      BY <1>1, <2>1, <2>2 DEF OwnerInv, StateInv, Active, ActivePc
    <2>4. ReportInv'
      BY <1>0, <1>1, <2>1, <2>2 DEF ReportInv, ActivePc
    <2>5. QED
      BY <2>3, <2>4 DEF OutcomeInv
  <1>7. QED
    BY <1>3, <1>4, <1>5, <1>6

\* A scheduler makes the task RUNNING for the run it starts, which then knows all
\* of it, and only when nobody is at work and nothing is being submitted.
LEMMA OutcomeScheduler ==
    ASSUME TypeOK, CandidateInv, CalmInv, OutcomeInv, races' = {},
           NEW s \in Servers, PollStep(s) \/ Claim(s) \/ Halt(s)
    PROVE  OutcomeInv'
  <1>0. task \in Doc /\ OwnerInv /\ ReportInv /\ StateInv
    BY DEF OutcomeInv, TypeOK
  <1>1. CASE PollStep(s)
    <2> USE DEF taskVars, runVars, otherVars
    <2>1. UNCHANGED <<left, pc, mem, asked, result, trig>>
      <3>1. UNCHANGED <<pc, mem, asked, trig>>
        BY <1>1, PollEffect
      <3>2. UNCHANGED <<left, result>>
        BY <1>1 DEF PollStep, PollClear, Heartbeat, Preempt, ReadCandidate,
                    ClaimLost, Shutdown, Restart
      <3>3. QED
        BY <3>1, <3>2
    <2>2. /\ task'.state = task.state /\ task'.rev = task.rev
          /\ task'.retryOnly = task.retryOnly /\ task'.token = task.token
          /\ task'.auto = task.auto /\ task'.retries = task.retries
      <3>1. CASE Heartbeat(s)
        BY <1>0, <3>1 DEF Heartbeat, Doc
      <3>2. CASE ~Heartbeat(s)
        BY <1>1, <3>2 DEF PollStep, PollClear, Preempt, ReadCandidate, ClaimLost,
                          Shutdown, Restart
      <3>3. QED
        BY <3>1, <3>2
    <2>3. QED
      BY <1>0, <2>1, <2>2 DEF OutcomeInv, OwnerInv, ReportInv, StateInv, Active
  <1>2. CASE Claim(s)
    <2>1. PICK r \in Runs :
            /\ Granted(s, r)
            /\ task' = Claimed(s, r)
            /\ pc'[r] = "claimed" => mem'[r] = task'
      <3>1. PICK r \in Runs :
              /\ Fresh(r)
              /\ task' = Claimed(s, r)
              /\ IF s \in alive
                    THEN /\ active' = [active EXCEPT ![s] = r]
                         /\ Goto(r, "claimed")
                         /\ host' = [host EXCEPT ![r] = s]
                         /\ mem' = [mem EXCEPT ![r] = Claimed(s, r)]
                         /\ asked' = [asked EXCEPT ![r] = task.rev]
                    ELSE /\ Goto(r, "dead")
                         /\ UNCHANGED <<active, host, mem, asked>>
        BY <1>2 DEF Claim
      <3>2. Claimed(s, r).token = r
        BY <1>0 DEF Doc, Claimed
      <3>3. CASE s \in alive
        <4>1. Granted(s, r) /\ mem'[r] = task'
          BY <3>1, <3>2, <3>3 DEF TypeOK, Goto, Granted
        <4>2. QED
          BY <3>1, <4>1
      <3>4. CASE s \notin alive
        <4>1. Granted(s, r) /\ pc'[r] = "dead"
          BY <3>1, <3>2, <3>4 DEF TypeOK, Goto, Granted
        <4>2. QED
          BY <3>1, <4>1
      <3>5. QED
        BY <3>3, <3>4
    <2>2. /\ task'.state = "RUNNING" /\ task'.rev = task.rev /\ task'.token = r
          /\ task'.retryOnly = task.retryOnly /\ ~task'.auto
      BY <1>0, <2>1 DEF Claimed, Doc
    <2>3. /\ task.state = cand[s].state /\ task.token = cand[s].token
          /\ s \in polling /\ trig' = trig
      BY <1>2, ClaimSource
    <2>4. task.state # "PREPARING"
      BY <2>3 DEF CandidateInv, Eligible
    <2>5. \A x \in Runs : pc[x] \notin ActivePc
      BY <2>3 DEF CalmInv, Active
    <2>6. /\ \A x \in Runs \ {r} : pc'[x] \notin ActivePc
          /\ pc'[r] = "dead"
               \/ (pc'[r] = "claimed" /\ asked'[r] = task.rev /\ mem'[r] = task')
      BY <2>1, <2>5 DEF Granted
    <2>7. left' = left
      BY <1>2 DEF Claim
    <2>8. OwnerInv'
      BY <2>2, <2>6 DEF OwnerInv, Active, ActivePc
    <2>9. ReportInv'
      <3>1. \A t \in Triggers : trig[t].pc = "publish" => trig[t].rev # task.rev
        BY <2>4 DEF CalmInv, Preparing
      <3>2. \A x \in Runs : pc'[x] # "finish"
        BY <2>6 DEF ActivePc
      <3>3. QED
        BY <1>0, <2>2, <2>3, <2>7, <3>1, <3>2 DEF ReportInv
    <2>10. StateInv'
      BY <2>2 DEF StateInv
    <2>11. QED
      BY <2>8, <2>9, <2>10 DEF OutcomeInv
  <1>3. CASE Halt(s)
    <2>1. /\ task' = task /\ left' = left /\ trig' = trig
          /\ \A x \in Runs :
                \/ pc'[x] = "dead"
                \/ /\ pc'[x] = pc[x] /\ mem'[x] = mem[x] /\ asked'[x] = asked[x]
                   /\ result'[x] = result[x]
      BY <1>3 DEF Halt, Forget, ThreadsOf, taskVars, TypeOK
    <2>2. OwnerInv' /\ StateInv'
      BY <1>0, <2>1 DEF OwnerInv, StateInv, Active, ActivePc
    <2>3. ReportInv'
      BY <1>0, <2>1 DEF ReportInv
    <2>4. QED
      BY <2>2, <2>3 DEF OutcomeInv
  <1>4. QED
    BY <1>1, <1>2, <1>3

\* What a review leaves behind is what it is going to report, and a run that is
\* triggered over leaves the files alone.
LEMMA OutcomeWork ==
    ASSUME TypeOK, CalmInv, OutcomeInv, races' = {}, NEW r \in Runs, WorkStep(r)
    PROVE  OutcomeInv'
  <1>0. task \in Doc /\ OwnerInv /\ ReportInv /\ StateInv
    BY DEF OutcomeInv, TypeOK
  <1>1. /\ task' = task
        /\ pc[r] \in ActivePc \ {"releasing"} /\ pc'[r] \in ActivePc
        /\ pc'[r] = "releasing" => mem'[r] = task
        /\ pc'[r] # "releasing" => mem'[r] = mem[r]
        /\ \A x \in Runs \ {r} : pc'[x] = pc[x] /\ mem'[x] = mem[x]
        /\ asked' = asked /\ trig' = trig
    BY WorkEffect DEF WorkStep
  <1>2. Active(r) /\ task.token = r /\ \A x \in Runs \ {r} : ~Active(x)
    BY <1>1 DEF CalmInv, Active
  <1>3. OwnerInv'
    BY <1>0, <1>1 DEF OwnerInv, Active
  <1>4. left' = left \/ (asked[r] = task.rev /\ left' \in Reviewed(r))
    <2>1. CASE RunReview(r) \/ RunRaise(r)
      BY <2>1 DEF RunReview, RunRaise, SaveFiles, Note
    <2>2. CASE RunStart(r) \/ RunFatal(r) \/ RunLoad(r)
      BY <2>2 DEF RunStart, RunFatal, RunLoad, taskVars
    <2>3. QED
      BY <2>1, <2>2 DEF WorkStep
  <1>5. asked[r] = task.rev => /\ task.state = "RUNNING"
                               /\ mem[r].retryOnly = task.retryOnly
    BY <1>0, <1>1, <1>2 DEF OwnerInv
  <1>6. task.retryOnly => "pending" \notin left'
    BY <1>0, <1>4, <1>5 DEF Reviewed, ReportInv
  <1>7. pc'[r] = "finish" => result'[r] = left'
    <2>1. CASE RunReview(r) /\ CheckPasses(r)
      <3>1. /\ asked[r] = task.rev
            /\ "pending" \in left' => mem[r].retryOnly
            /\ result'[r] = left' \ {"pending"}
        BY <2>1 DEF RunReview, CheckPasses, TypeOK
      <3>2. "pending" \notin left'
        BY <1>5, <1>6, <3>1
      <3>3. QED
        BY <3>1, <3>2
    <2>2. CASE ~(RunReview(r) /\ CheckPasses(r))
      BY <2>2 DEF WorkStep, RunStart, RunReview, RunRaise, RunFatal, RunLoad, Goto,
                  TypeOK
    <2>3. QED
      BY <2>1, <2>2
  <1>8. ReportInv'
    <2>1. \A x \in Runs : pc'[x] = "finish" => result'[x] = left'
      BY <1>1, <1>2, <1>7 DEF Active, ActivePc
    <2>2. ASSUME NEW t \in Triggers, trig[t].pc = "publish",
                 trig[t].rev = task.rev, ~trig[t].work
          PROVE  left' = {}
      <3>1. asked[r] # task.rev
        BY <1>2, <2>2 DEF CalmInv, Preparing
      <3>2. QED
        BY <1>0, <1>4, <2>2, <3>1 DEF ReportInv
    <2>3. QED
      BY <1>0, <1>1, <1>6, <2>1, <2>2 DEF ReportInv
  <1>9. StateInv'
    BY <1>0, <1>1, <1>4, <1>5 DEF StateInv
  <1>10. QED
    BY <1>3, <1>8, <1>9 DEF OutcomeInv

\* The save of a run is the end of its work, and what follows changes nothing.
LEMMA OutcomeExit ==
    ASSUME IInv, CopyInv, CalmInv, OutcomeInv, races' = {},
           NEW r \in Runs, ExitStep(r) \/ LateStep(r)
    PROVE  OutcomeInv'
  <1>0. /\ TypeOK /\ MemoryInv /\ task \in Doc
        /\ OwnerInv /\ ReportInv /\ StateInv
    BY DEF IInv, OutcomeInv, TypeOK
  <1>1. CASE ExitStep(r)
    <2>1. /\ pc[r] \in ActivePc /\ task'.rev = task.rev /\ trig' = trig
      BY <1>0, <1>1, ExitEffect
    <2>2. /\ pc'[r] \in {"ended", "closing"}
          /\ \A x \in Runs \ {r} : pc'[x] = pc[x]
      BY <1>0, <1>1, ExitThread
    <2>3. Active(r) /\ \A x \in Runs : pc'[x] \notin ActivePc
      BY <2>1, <2>2 DEF CalmInv, Active, ActivePc
    <2>4. /\ left' = left
          /\ task'.retryOnly \in {task.retryOnly, FALSE}
          /\ \/ /\ asked[r] = task.rev
                /\ \/ task'.state = "COMPLETED" /\ left = {} /\ ~task'.auto
                   \/ task'.state = "PARTIAL" /\ (task'.auto => task'.retries < RetryLimit)
                   \/ task'.state = "PENDING" /\ ~task'.auto
             \/ /\ asked[r] # task.rev
                /\ task'.state = task.state /\ task'.auto = task.auto
                /\ task'.retries = task.retries
      BY <1>0, <1>1, ExitOutcome
    <2>5. asked[r] # task.rev => task.state # "RUNNING"
      BY <1>0, <2>3 DEF OwnerInv
    <2>6. OwnerInv'
      BY <2>3 DEF OwnerInv, Active, ActivePc
    <2>7. ReportInv'
      BY <1>0, <2>1, <2>3, <2>4 DEF ReportInv, ActivePc
    <2>8. StateInv'
      BY <1>0, <2>4, <2>5 DEF StateInv
    <2>9. QED
      BY <2>6, <2>7, <2>8 DEF OutcomeInv
  <1>2. CASE LateStep(r)
    <2>1. /\ pc[r] \in ClosingPc
          /\ task' = task \/ pc[r] = "late_failing"
          /\ pc'[r] \in ClosingPc \cup {"ended"}
          /\ \A x \in Runs \ {r} :
                pc'[x] = pc[x] /\ mem'[x] = mem[x] /\ asked'[x] = asked[x]
          /\ trig' = trig
      BY <1>0, <1>2, LateEffect
    <2>2. task' = task
      BY <2>1 DEF CalmInv
    <2>3. pc[r] \notin ActivePc /\ pc'[r] \notin ActivePc
      BY <2>1 DEF ActivePc, ClosingPc
    <2>4. left' = left /\ \A x \in Runs \ {r} : result'[x] = result[x]
      BY <1>2 DEF LateStep, RunClose, RunLateRaise, RunLateFatal, RunLateFail,
                  taskVars, Return, Forget
    <2>5. OwnerInv' /\ StateInv'
      BY <1>0, <2>1, <2>2, <2>3, <2>4 DEF OwnerInv, StateInv, Active, ActivePc
    <2>6. ReportInv'
      BY <1>0, <2>1, <2>2, <2>3, <2>4 DEF ReportInv, ActivePc
    <2>7. QED
      BY <2>5, <2>6 DEF OutcomeInv
  <1>3. QED
    BY <1>1, <1>2

-----------------------------------------------------------------------------
(* The inductive invariant *)

\* Before the first trigger there is nothing to be wrong about.
LEMMA InitTaskInv == Init => TaskInv
  <1> SUFFICES ASSUME Init
               PROVE  TaskInv
    OBVIOUS
  <1>1. /\ task.rev = 0 /\ task.state = "PREPARING" /\ ~task.auto /\ ~task.retryOnly
        /\ ~task.interrupt
        /\ \A r \in Runs : pc[r] = "ended"
        /\ \A t \in Triggers : trig[t].pc = "idle"
    BY DEF Init, NoDoc, NewTrigger
  <1>2. CopyInv /\ InterruptHasRequester
    BY <1>1 DEF CopyInv, ActivePc, InterruptHasRequester
  <1>3. OwnerInv /\ ReportInv /\ StateInv
    BY <1>1 DEF OwnerInv, Active, ActivePc, ReportInv, StateInv
  <1>4. QED
    BY <1>2, <1>3, InitIInv DEF TaskInv

\* Every step keeps it.
LEMMA NextTaskInv == TaskInv /\ [Next]_vars => TaskInv'
  <1> SUFFICES ASSUME TaskInv, [Next]_vars
               PROVE  TaskInv'
    OBVIOUS
  <1>0. /\ IInv /\ CopyInv /\ InterruptHasRequester
        /\ TypeOK /\ RevisionInv /\ EmptyInv /\ MemoryInv /\ CandidateInv
    BY DEF TaskInv, IInv
  <1>1. IInv'
    BY <1>0, NextIInv
  <1>2. CASE UNCHANGED vars
    <2>1. UNCHANGED <<task, left, pc, mem, asked, result, trig, races>>
      BY <1>2 DEF vars, taskVars, runVars, otherVars
    <2>2. CopyInv' /\ InterruptHasRequester'
      BY <1>0, <2>1 DEF CopyInv, InterruptHasRequester
    <2>3. races' = {} => OwnerInv' /\ ReportInv' /\ StateInv'
      BY <2>1 DEF TaskInv, OwnerInv, ReportInv, StateInv, Active
    <2>4. QED
      BY <1>1, <2>2, <2>3 DEF TaskInv
  <1>3. CASE Next
    <2>1. CopyInv' /\ InterruptHasRequester'
      BY <1>0, <1>3, CopyStep, InterruptStep
    <2>2. ASSUME races' = {}
          PROVE  OutcomeInv'
      <3>1. races = {}
        BY <1>0, <1>3, <2>2, RacesStep
      <3>2. CalmInv /\ OutcomeInv
        BY <3>1 DEF TaskInv, IInv, OutcomeInv
      <3>3. ASSUME NEW t \in Triggers, TriggerStep(t)
            PROVE  OutcomeInv'
        BY <1>0, <2>2, <3>2, <3>3, TriggerKinds, OutcomeBegin, OutcomeTrigger
      <3>4. CASE LeaseExpires \/ Stall \/ RetryCheck \/ RetryQueue
        BY <1>0, <2>2, <3>2, <3>4, OutcomeTime
      <3>5. ASSUME NEW s \in Servers, PollStep(s) \/ Claim(s) \/ Halt(s)
            PROVE  OutcomeInv'
        BY <1>0, <2>2, <3>2, <3>5, OutcomeScheduler
      <3>6. ASSUME NEW r \in Runs, WorkStep(r) \/ ExitStep(r) \/ LateStep(r)
            PROVE  OutcomeInv'
        BY <1>0, <2>2, <3>2, <3>6, OutcomeWork, OutcomeExit
      <3>7. QED
        BY <1>3, <3>3, <3>4, <3>5, <3>6, StepKinds DEF QuietStep, TriggerStep
    <2>3. QED
      BY <1>1, <2>1, <2>2 DEF TaskInv, OutcomeInv
  <1>4. QED
    BY <1>2, <1>3

\* The inductive invariant of the task document: leases, copies, requests, reports
\* and states together, in every interleaving of triggers, schedulers and runs.
THEOREM TaskInvariant == Spec => []TaskInv
  BY InitTaskInv, NextTaskInv, PTL DEF Spec

\* Outside the races a task is COMPLETED only with no block left: neither the
\* finish of a run nor the publish of a trigger reports an end that is undone.
THEOREM CompletedIsCompleteHolds == Spec => []CompletedIsComplete
  <1>1. TaskInv => CompletedIsComplete
    BY DEF TaskInv, StateInv, CompletedIsComplete
  <1>2. QED
    BY <1>1, TaskInvariant, PTL

\* Outside the races a RUNNING task has its lease, so no scheduler claims it while
\* it is worked on.
THEOREM RunningIsLeasedHolds == Spec => []RunningIsLeased
  <1>1. TaskInv => RunningIsLeased
    BY DEF TaskInv, StateInv, RunningIsLeased
  <1>2. QED
    BY <1>1, TaskInvariant, PTL

\* Even in the races, an interrupt request belongs to the trigger of the current
\* revision, which is preparing or has died doing so.
THEOREM InterruptHasRequesterHolds == Spec => []InterruptHasRequester
  <1>1. TaskInv => InterruptHasRequester
    BY DEF TaskInv
  <1>2. QED
    BY <1>1, TaskInvariant, PTL

\* A completed task leaves that state only with a new revision.
LEMMA CompletedStays ==
    ASSUME TaskInv, Next, races' = {}, task.state = "COMPLETED"
    PROVE  task'.state = "COMPLETED" \/ task'.rev > task.rev
  <1>0. /\ TypeOK /\ MemoryInv /\ CandidateInv /\ RevisionInv
        /\ task \in Doc /\ task.rev \in Nat
    BY DEF TaskInv, IInv, TypeOK, Doc
  <1>1. CalmInv /\ OwnerInv
    <2>1. races = {}
      BY <1>0, RacesStep
    <2>2. QED
      BY <2>1 DEF TaskInv, IInv
  <1>2. ASSUME NEW t \in Triggers, TrigCreate(t) \/ TrigBegin(t)
        PROVE  task' = task \/ task'.rev > task.rev
    BY <1>0, <1>2, BeginEffect
  <1>3. ASSUME NEW t \in Triggers, PlainTrigger(t)
        PROVE  task' = task
    <2>1. ~(Preparing(t) /\ trig[t].rev = task.rev)
      BY <1>1 DEF CalmInv
    <2>2. QED
      BY <1>3, <2>1 DEF PlainTrigger, Preparing, TrigFind, TrigReload, TrigPrepare,
                        TrigPublish, TrigFail, TrigCrash, taskVars
  <1>4. CASE LeaseExpires \/ Stall \/ RetryCheck \/ RetryQueue
    BY <1>0, <1>4, TimeEffect
  <1>5. ASSUME NEW s \in Servers, PollStep(s) \/ Claim(s) \/ Halt(s)
        PROVE  task'.state = "COMPLETED"
    <2>1. CASE PollStep(s) \/ Halt(s)
      BY <1>0, <2>1, PollEffect, HaltEffect
    <2>2. CASE Claim(s)
      <3>1. task.state = cand[s].state /\ s \in polling
        BY <1>0, <2>2, ClaimSource
      <3>2. QED
        BY <1>0, <3>1 DEF CandidateInv, Eligible
    <2>3. QED
      BY <1>5, <2>1, <2>2
  <1>6. ASSUME NEW r \in Runs, WorkStep(r) \/ ExitStep(r) \/ LateStep(r)
        PROVE  task'.state = "COMPLETED"
    <2>1. CASE WorkStep(r)
      BY <1>0, <2>1, WorkEffect DEF WorkStep
    <2>2. CASE ExitStep(r)
      <3>1. pc[r] \in ActivePc /\ (task'.state = task.state \/ MidSave(r))
        BY <1>0, <2>2, ExitEffect
      <3>2. ~MidSave(r)
        BY <1>1, <3>1 DEF CalmInv, OwnerInv, Active
      <3>3. QED
        BY <3>1, <3>2
    <2>3. CASE LateStep(r)
      BY <1>0, <1>1, <2>3, LateEffect DEF CalmInv
    <2>4. QED
      BY <1>6, <2>1, <2>2, <2>3
  <1>7. QED
    BY <1>2, <1>3, <1>4, <1>5, <1>6, StepKinds, TriggerKinds
       DEF QuietStep, TriggerStep

\* Outside the races only a trigger, which takes a new revision, reopens a
\* completed task: no interrupted run, no retry and no claim sends it back.
THEOREM CompletedIsFinalHolds == Spec => CompletedIsFinal
  <1> DEFINE Final == task.state = "COMPLETED" /\ task'.state # "COMPLETED" /\ races' = {}
                         => task'.rev > task.rev
  <1>1. TaskInv /\ [Next]_vars => [Final]_vars
    BY CompletedStays
  <1>2. QED
    BY <1>1, TaskInvariant, PTL DEF Spec, CompletedIsFinal

=============================================================================
