---------------------------- MODULE BlockResult ----------------------------
(* What _run_main_task may return (MainResult of review_service.py).       *)

\* completed: the model declared the review done.  failed: the failure message
\* is not empty.  commented: issues were accepted.  A review may be completed
\* and failed at once: the model reports FAILED and, in the same answer, DONE.
Completions ==
    [completed : {TRUE}, failed : BOOLEAN, commented : BOOLEAN]

Failures ==
    [completed : {FALSE}, failed : {TRUE}, commented : BOOLEAN]

Results == Completions \cup Failures

\* No result: an interruption leaves none at all.
NoResult == [completed |-> FALSE, failed |-> FALSE, commented |-> FALSE]
============================================================================
