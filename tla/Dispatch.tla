----------------------------- MODULE Dispatch -----------------------------
(***************************************************************************)
(* The schedulers of several servers over several tasks: the order in      *)
(* which scheduler.py claims tasks, and preemption.  What two actors can   *)
(* do to one and the same task is the subject of ReviewTask; here a lease  *)
(* runs out only when the server that holds it is down, and tasks are not  *)
(* submitted a second time.                                                *)
(***************************************************************************)
EXTENDS Integers, Sequences, FiniteSets

CONSTANTS
    Tasks,
    FullScans,   \* the tasks of type FULL_SCAN; the others are incremental
    Servers,
    None,
    MaxRetries,  \* bound on the retries on demand
    MaxCrashes   \* bound on the crashes of servers

ASSUME DispatchAssumption ==
    /\ IsFiniteSet(Tasks)
    /\ IsFiniteSet(Servers)
    /\ FullScans \subseteq Tasks
    /\ None \notin Tasks \cup Servers
    /\ MaxRetries \in Nat
    /\ MaxCrashes \in Nat

VARIABLES
    doc,      \* the TaskModel documents
    created,  \* the tasks in the order of create_time
    server,   \* the schedulers
    worker,   \* the review a server has started
    retries,
    crashes,
    steady    \* tasks eligible, unchanged, since a server read its candidates

vars == <<doc, created, server, worker, retries, crashes, steady>>

\* state 0, 1, 2, 3 of TaskState; "absent" before the submission.  priority is
\* dispatch_priority: 100 (here 1) after a retry on demand.  due: an automatic
\* retry is pending and its time has come.  lease is the lease_token, 0 for none.
Document == [state : {"absent", "pending", "running", "completed", "partial"},
             priority : {0, 1}, lease : Nat,
             expired : BOOLEAN, due : BOOLEAN]

\* What a claim compares of the candidate it was read from.
Candidate == [task : Tasks, state : {"pending", "running", "partial"},
              priority : {0, 1}, lease : Nat]

\* A scheduler: its slot, and the candidates it goes through while it claims.
Slot == [pc : {"idle", "claiming", "busy", "down"}, active : Tasks \cup {None},
         lease : Nat, priority : {0, 1}, stop : BOOLEAN, candidates : Seq(Candidate)]

-----------------------------------------------------------------------------
(* The order of tasks                                                      *)

CreatedBefore(t, u) ==
    \E i, j \in DOMAIN created : i < j /\ created[i] = t /\ created[j] = u

\* dispatch priority, here p and q, then incremental before full, then create_time.
RanksBefore(t, p, u, q) ==
    \/ p > q
    \/ /\ p = q
       /\ \/ t \notin FullScans /\ u \in FullScans
          \/ /\ t \in FullScans <=> u \in FullScans
             /\ CreatedBefore(t, u)

Precedes(t, u) == RanksBefore(t, doc[t].priority, u, doc[u].priority)

\* _has_higher_priority_task: what preempts a task claimed with a priority.
Beats(t, priority, u) ==
    \/ doc[t].priority > priority
    \/ doc[t].priority = priority /\ u \in FullScans /\ t \notin FullScans

-----------------------------------------------------------------------------
\* Mutant: a lease lasts until it is given back.
LeaseGivenBack(d) == d.lease = 0

LeaseExpired(d) == d.lease = 0 \/ d.expired

\* Mutant: a running task may be claimed whatever its lease.
EligibleWhileRunning(d) ==
    \/ d.state \in {"pending", "running"}
    \/ d.state = "partial" /\ d.due /\ LeaseExpired(d)

Eligible(d) ==
    \/ d.state \in {"pending", "running"} /\ LeaseExpired(d)
    \/ d.state = "partial" /\ d.due /\ LeaseExpired(d)

Waiting == {t \in Tasks : Eligible(doc[t])}

\* Mutant: the candidates are taken as the database returns them.
OrderedByCreation ==
    SelectSeq(created, LAMBDA t : t \in Waiting)

\* _ordered_candidates
Ordered ==
    CHOOSE order \in [1 .. Cardinality(Waiting) -> Waiting] :
        \A i, j \in DOMAIN order : i < j => Precedes(order[i], order[j])

\* The loop of claim_next_task skips what was not eligible when it was read.
Candidates ==
    [i \in DOMAIN Ordered |-> [task |-> Ordered[i], state |-> doc[Ordered[i]].state,
                              priority |-> doc[Ordered[i]].priority,
                              lease |-> doc[Ordered[i]].lease]]

Free == [pc |-> "idle", active |-> None, lease |-> 0, priority |-> 0,
         stop |-> FALSE, candidates |-> <<>>]

Init ==
    /\ doc = [t \in Tasks |-> [state |-> "absent", priority |-> 0, lease |-> 0,
                               expired |-> FALSE, due |-> FALSE]]
    /\ created = <<>>
    /\ server = [s \in Servers |-> Free]
    /\ worker = [s \in Servers |-> "off"]
    /\ retries = 0
    /\ crashes = 0
    /\ steady = [s \in Servers |-> {}]

\* A task that somebody changes is no longer as it was read.
Touch(t) == steady' = [s \in Servers |-> steady[s] \ {t}]

Submit(t) ==
    /\ doc[t].state = "absent"
    /\ doc' = [doc EXCEPT ![t].state = "pending"]
    /\ created' = Append(created, t)
    /\ UNCHANGED <<server, worker, retries, crashes, steady>>

\* request_failed_retry
AskRetry(t) ==
    /\ retries < MaxRetries
    /\ doc[t].state = "partial"
    /\ doc[t].lease = 0
    /\ doc' = [doc EXCEPT ![t].state = "pending", ![t].priority = 1, ![t].due = FALSE]
    /\ retries' = retries + 1
    /\ Touch(t)
    /\ UNCHANGED <<created, server, worker, crashes>>

-----------------------------------------------------------------------------
(* Schedulers                                                              *)

\* The poll of a server without a task, or with one whose review has ended or
\* has given back the lease (the slot is cleared, a review that still sends
\* mails is left alone): claim_next_task reads the candidates.
ReadCandidates(s) ==
    /\ \/ server[s].pc = "idle"
       \/ server[s].pc = "busy" /\ worker[s] = "off"
    /\ Waiting # {}
    /\ server' = [server EXCEPT ![s] =
         [Free EXCEPT !.pc = "claiming", !.candidates = Candidates]]
    /\ steady' = [steady EXCEPT ![s] = Waiting]
    /\ UNCHANGED <<doc, created, worker, retries, crashes>>

\* A poll that finds nothing to claim clears the slot.
PollNothing(s) ==
    /\ server[s].pc = "busy"
    /\ worker[s] = "off"
    /\ Waiting = {}
    /\ server' = [server EXCEPT ![s] = Free]
    /\ UNCHANGED <<doc, created, worker, retries, crashes, steady>>

First(s) == Head(server[s].candidates)

\* Mutant: the lease is not compared.
ClaimableUnderAnyLease(s) ==
    /\ doc[First(s).task].state = First(s).state
    /\ doc[First(s).task].priority = First(s).priority

\* The query of the claim.
Matches(c) ==
    /\ doc[c.task].state = c.state
    /\ doc[c.task].priority = c.priority
    /\ doc[c.task].lease = c.lease

Claimable(s) == Matches(First(s))

\* uuid4: a token that no document, no copy of one and no slot holds.
Fresh(n) ==
    /\ \A t \in Tasks : doc[t].lease # n
    /\ \A s \in Servers :
         /\ server[s].lease # n
         /\ \A i \in DOMAIN server[s].candidates :
              server[s].candidates[i].lease # n

\* There are fewer tokens in use than that.
Tokens == 1..(Cardinality(Tasks) + 1) * (Cardinality(Servers) + 1)

NewToken == CHOOSE n \in Tokens : Fresh(n)

Claim(s) ==
    /\ server[s].pc = "claiming"
    /\ server[s].candidates # <<>>
    /\ Claimable(s)
    /\ LET t == First(s).task
       IN  /\ doc' = [doc EXCEPT ![t].state = "running", ![t].lease = NewToken,
                                 ![t].expired = FALSE, ![t].due = FALSE]
           /\ server' = [server EXCEPT ![s] =
                [Free EXCEPT !.pc = "busy", !.active = t, !.lease = NewToken,
                       !.priority = doc[t].priority]]
           /\ Touch(t)
    /\ worker' = [worker EXCEPT ![s] = "working"]
    /\ UNCHANGED <<created, retries, crashes>>

\* Somebody else has changed the candidate: the next one.
PassOver(s) ==
    /\ server[s].pc = "claiming"
    /\ server[s].candidates # <<>>
    /\ ~Claimable(s)
    /\ server' = [server EXCEPT ![s].candidates = Tail(@)]
    /\ UNCHANGED <<doc, created, worker, retries, crashes, steady>>

ClaimNothing(s) ==
    /\ server[s].pc = "claiming"
    /\ server[s].candidates = <<>>
    /\ server' = [server EXCEPT ![s] = Free]
    /\ UNCHANGED <<doc, created, worker, retries, crashes, steady>>

Outranked(s) ==
    /\ server[s].pc = "busy"
    /\ worker[s] = "working"
    /\ \E t \in Waiting : Beats(t, server[s].priority, server[s].active)

\* Mutant: only a retry on demand preempts.
PreemptForRetry(s) ==
    /\ ~server[s].stop
    /\ Outranked(s)
    /\ \E t \in Waiting : doc[t].priority > server[s].priority
    /\ server' = [server EXCEPT ![s].stop = TRUE]
    /\ UNCHANGED <<doc, created, worker, retries, crashes, steady>>

\* The poll of a server at work.
Preempt(s) ==
    /\ ~server[s].stop
    /\ Outranked(s)
    /\ server' = [server EXCEPT ![s].stop = TRUE]
    /\ UNCHANGED <<doc, created, worker, retries, crashes, steady>>

-----------------------------------------------------------------------------
(* The review of a task                                                    *)

\* _finish_task: completed, or partial with or without an automatic retry.
Finish(s) ==
    /\ worker[s] = "working"
    /\ LET t == server[s].active
       IN  /\ \E state \in {"completed", "partial"}, due \in BOOLEAN :
                /\ due => state = "partial" /\ retries < MaxRetries
                /\ doc' = [doc EXCEPT ![t].state = state, ![t].lease = 0,
                                      ![t].priority = 0, ![t].due = due]
                /\ retries' = IF due THEN retries + 1 ELSE retries
           /\ Touch(t)
    /\ worker' = [worker EXCEPT ![s] = "off"]
    /\ UNCHANGED <<created, server, crashes>>

\* _check_interrupted and _mark_task_interrupted; the priority stays.
GiveBack(s) ==
    /\ worker[s] = "working"
    /\ server[s].stop
    /\ LET t == server[s].active
       IN  /\ doc' = [doc EXCEPT ![t].state = "pending", ![t].lease = 0]
           /\ Touch(t)
    /\ worker' = [worker EXCEPT ![s] = "off"]
    /\ UNCHANGED <<created, server, retries, crashes>>

-----------------------------------------------------------------------------
(* Crashes                                                                 *)

Crash(s) ==
    /\ crashes < MaxCrashes
    /\ server[s].pc # "down"
    /\ server' = [server EXCEPT ![s] = [Free EXCEPT !.pc = "down"]]
    /\ worker' = [worker EXCEPT ![s] = "off"]
    /\ crashes' = crashes + 1
    /\ UNCHANGED <<doc, created, retries, steady>>

Restart(s) ==
    /\ server[s].pc = "down"
    /\ server' = [server EXCEPT ![s] = Free]
    /\ UNCHANGED <<doc, created, worker, retries, crashes, steady>>

\* Nobody renews the lease of a review that died with its server.
Expire(t) ==
    /\ doc[t].lease # 0
    /\ ~doc[t].expired
    /\ \A s \in Servers : worker[s] = "working" => server[s].lease # doc[t].lease
    /\ doc' = [doc EXCEPT ![t].expired = TRUE]
    /\ UNCHANGED <<created, server, worker, retries, crashes, steady>>

-----------------------------------------------------------------------------
Poll(s) ==
    ReadCandidates(s) \/ PollNothing(s) \/ Claim(s) \/ PassOver(s) \/ ClaimNothing(s)

Next ==
    \/ \E t \in Tasks : Submit(t) \/ AskRetry(t) \/ Expire(t)
    \/ \E s \in Servers :
         Poll(s) \/ Preempt(s) \/ Finish(s) \/ GiveBack(s) \/ Crash(s) \/ Restart(s)

Spec == Init /\ [][Next]_vars

\* The polling job runs at its interval; a review that is asked to stop gives back
\* its task at the next check; a lease runs out; a server is started again.  How
\* long a review takes is not bounded.
FairSpec ==
    /\ Spec
    /\ \A s \in Servers :
         /\ WF_vars(Poll(s)) /\ WF_vars(Preempt(s))
         /\ WF_vars(GiveBack(s))
         /\ WF_vars(Restart(s))
    /\ \A t \in Tasks : WF_vars(Expire(t))

-----------------------------------------------------------------------------
(* Properties                                                              *)

TypeOK ==
    /\ doc \in [Tasks -> Document]
    /\ created \in Seq(Tasks)
    /\ server \in [Servers -> Slot]
    /\ worker \in [Servers -> {"off", "working"}]
    /\ retries \in Nat
    /\ crashes \in Nat
    /\ steady \in [Servers -> SUBSET Tasks]

\* A claim takes the first, in the order of README (retries on demand, then
\* incremental tasks, then full scans, and first in first out), of the tasks that
\* could be claimed ever since the server read its candidates: a candidate lost to
\* another server costs a place, never a turn.
ClaimIsFirst ==
    [][\A s \in Servers :
         server[s].pc = "claiming" /\ server'[s].pc = "busy" =>
            \A t \in steady[s] \ {server'[s].active} :
                Precedes(server'[s].active, t)]_vars

\* A claim compares the task with what was read of it, not with the rules again.  It
\* takes only what may be claimed by then, with one exception: a failed task that
\* somebody has claimed since and that has failed again, its next retry not due.
ClaimIsDue ==
    [][\A s \in Servers :
         server[s].pc = "claiming" /\ server'[s].pc = "busy" =>
            LET t == server'[s].active
            IN  \/ Eligible(doc[t])
                \/ doc[t].state = "partial" /\ ~doc[t].due /\ t \notin steady[s]]_vars

\* config.md: after a failure the retry waits for the time of the backoff.
RetriesWait ==
    [][\A s \in Servers :
         server[s].pc = "claiming" /\ server'[s].pc = "busy" =>
            Eligible(doc[server'[s].active])]_vars

\* What a document is to the queue, and which task a server serves.
StatusOf(t) ==
    IF doc[t].state = "absent" THEN "absent"
    ELSE IF Eligible(doc[t]) THEN "waiting"
    ELSE IF doc[t].state = "running" THEN "served"
    ELSE IF doc[t].state = "completed" THEN "done" ELSE "failed"

ServedBy(s) == IF worker[s] = "working" THEN server[s].active ELSE None

\* The schedulers implement the queue: no task is served twice, none is lost.
Queue == INSTANCE TaskQueue WITH
    status <- [t \in Tasks |-> StatusOf(t)],
    serves <- [s \in Servers |-> ServedBy(s)]

ImplementsTaskQueue == Queue!Spec

\* A task that is waiting does not wait for ever, however often it is preempted
\* and whichever server dies with it, if no review takes for ever.
EveryTaskIsServed ==
    (\A s \in Servers : []<>(worker[s] = "off")) =>
        \A t \in Tasks :
            doc[t].state = "pending" ~> doc[t].state \in {"completed", "partial"}

\* A server does not stay at a task while one waits that should come before it,
\* however long the review would take.
InversionEnds == \A s \in Servers : Outranked(s) ~> ~Outranked(s)

-----------------------------------------------------------------------------
(* The invariant from which DispatchProofs derives the safety properties.  A   *)
(* claim compares a document with a copy of it, so the invariant says what such *)
(* a copy is worth.                                                            *)

\* A task has a lease while it is running, however dead its run.
LeaseInv == \A t \in Tasks : doc[t].state = "running" <=> doc[t].lease # 0

CreatedInv ==
    /\ \A i, j \in DOMAIN created : created[i] = created[j] => i = j
    /\ \A t \in Tasks :
          doc[t].state # "absent" <=> \E i \in DOMAIN created : created[i] = t

\* A review at work holds the lease of its task, and no other works on that.
WorksAlone(s) ==
    worker[s] = "working" =>
        /\ server[s].pc = "busy"
        /\ server[s].active \in Tasks
        /\ server[s].lease # 0
        /\ doc[server[s].active].lease = server[s].lease
        /\ ~doc[server[s].active].expired
        /\ \A u \in Servers \ {s} :
              worker[u] = "working" => server[u].active # server[s].active

WorkInv == \A s \in Servers : WorksAlone(s)

\* A document that has the lease of a candidate has had it since that was read, when
\* it had run out.
Outdated(c) ==
    c.state = "running" /\ doc[c.task].state = "running" /\ doc[c.task].lease = c.lease
        => doc[c.task].expired

\* The candidates are in the order in which they were read.
InOrder(list) ==
    \A i, j \in DOMAIN list : i < j =>
        RanksBefore(list[i].task, list[i].priority, list[j].task, list[j].priority)

CandidateInv ==
    \A s \in Servers :
        /\ Len(server[s].candidates) <= Cardinality(Tasks)
        /\ \A i \in DOMAIN server[s].candidates : Outdated(server[s].candidates[i])
        /\ InOrder(server[s].candidates)

\* What has not been touched is still in the list, as it was read.
Listed(list, t) == \E i \in DOMAIN list : list[i].task = t /\ Matches(list[i])

SteadyInv ==
    \A s \in Servers : server[s].pc = "claiming" =>
        \A t \in steady[s] : Listed(server[s].candidates, t)

ClaimInv ==
    TypeOK /\ LeaseInv /\ CreatedInv /\ WorkInv /\ CandidateInv /\ SteadyInv

\* What has not been touched may still be claimed.
UntouchedInv == \A s \in Servers : steady[s] \subseteq Waiting

DispatchInv == ClaimInv /\ UntouchedInv
===========================================================================
