----------------------------- MODULE TaskQueue -----------------------------
(***************************************************************************)
(* What the schedulers of several servers promise: a task that has been    *)
(* submitted waits, is served by one server at a time, and is done, has    *)
(* failed or waits again afterwards.  A server serves one task at a time;  *)
(* when it dies the task is orphaned until its lease has run out.          *)
(* Dispatch implements this specification.                                 *)
(***************************************************************************)

CONSTANTS Tasks, Servers, None

VARIABLES
    status,  \* of each task
    serves   \* the task each server works on, or None

queueVars == <<status, serves>>

Init ==
    /\ status = [t \in Tasks |-> "absent"]
    /\ serves = [s \in Servers |-> None]

\* A submission, a retry on demand or one that has become due.
Arrive(t) ==
    /\ status[t] \in {"absent", "failed"}
    /\ status' = [status EXCEPT ![t] = "waiting"]
    /\ UNCHANGED serves

\* A task that has failed can be taken once more by a server that had read it
\* while its last retry was due: the claim compares the state, not the retry.
Take(s, t) ==
    /\ status[t] \in {"waiting", "failed"}
    /\ serves[s] = None
    /\ status' = [status EXCEPT ![t] = "served"]
    /\ serves' = [serves EXCEPT ![s] = t]

\* The end of a review; a preempted task waits again.
Leave(s, t, next) ==
    /\ serves[s] = t
    /\ status' = [status EXCEPT ![t] = next]
    /\ serves' = [serves EXCEPT ![s] = None]

Die(s) ==
    /\ serves[s] # None
    /\ serves' = [serves EXCEPT ![s] = None]
    /\ UNCHANGED status

Recover(t) ==
    /\ status[t] = "served"
    /\ \A s \in Servers : serves[s] # t
    /\ status' = [status EXCEPT ![t] = "waiting"]
    /\ UNCHANGED serves

Next ==
    \/ \E t \in Tasks : Arrive(t) \/ Recover(t)
    \/ \E s \in Servers : Die(s)
    \/ \E s \in Servers, t \in Tasks :
         \/ Take(s, t)
         \/ \E next \in {"done", "failed", "waiting"} : Leave(s, t, next)

Spec == Init /\ [][Next]_queueVars
============================================================================
