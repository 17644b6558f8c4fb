---------------------------- MODULE MainResult ----------------------------
(***************************************************************************)
(* What the review of a block may count on when it calls _run_main_task:   *)
(* one answer, which is either a completed review or says what went wrong. *)
(* MainTask implements this specification; ReviewRun takes its results     *)
(* from it.                                                                *)
(***************************************************************************)
EXTENDS BlockResult

VARIABLES
    answer,  \* "pending", "result" or "interrupted"
    result

resultVars == <<answer, result>>

Init ==
    /\ answer = "pending"
    /\ result = NoResult

Answer ==
    /\ answer = "pending"
    /\ \/ answer' = "result" /\ result' \in Results
       \/ answer' = "interrupted" /\ UNCHANGED result

Spec == Init /\ [][Answer]_resultVars /\ WF_resultVars(Answer)
===========================================================================
