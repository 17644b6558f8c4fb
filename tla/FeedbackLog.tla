---------------------------- MODULE FeedbackLog ----------------------------
(***************************************************************************)
(* The log of feedback, which users append to (save_feedback of            *)
(* report_service.py) while somebody goes through its pages                *)
(* (FeedbackPages).                                                        *)
(***************************************************************************)
EXTENDS FeedbackPages

logVars == <<clock, drafts, log, reader>>

Init ==
    /\ clock = 0
    /\ drafts = {}
    /\ log = {}
    /\ reader = Away

-----------------------------------------------------------------------------
(* Feedback                                                                *)

\* save_feedback has saved the issue and creates the entry: it gets its time here.
Draft(g) ==
    /\ clock < MaxEntries
    /\ clock' = clock + 1
    /\ drafts' = drafts \cup {[time |-> clock', group |-> g]}
    /\ UNCHANGED <<log, reader>>

\* An entry is late if one that was created after it has been inserted before.
Late(entry) == \E other \in log : other.time > entry.time

Insert(entry) ==
    /\ entry \in drafts
    /\ log' = log \cup {entry}
    /\ drafts' = drafts \ {entry}
    /\ reader' = IF reader.pc = "counted" /\ Late(entry)
                 THEN [reader EXCEPT !.shifted = TRUE] ELSE reader
    /\ UNCHANGED clock

\* The insertion fails, or the process dies: the feedback is in the issue only.
Drop(entry) ==
    /\ entry \in drafts
    /\ drafts' = drafts \ {entry}
    /\ UNCHANGED <<clock, log, reader>>

-----------------------------------------------------------------------------
(* The report                                                              *)

\* The reader begins with the first page.
Open(view) ==
    /\ reader.pc \in {"away", "done"}
    /\ reader' = [Away EXCEPT !.pc = "asked", !.view = view,
                    !.base = {<<item, FirstSeen(item, view)>> : item \in Listed(view)}]
    /\ UNCHANGED <<clock, drafts, log>>

\* The entries are counted by one query and fetched by another.
CountEntries ==
    /\ reader.pc = "asked"
    /\ reader.view = "none"
    /\ LET pages == Pages(Cardinality(log))
       IN  reader' = [reader EXCEPT !.pc = "counted", !.pages = pages,
                                    !.page = Page(@, pages)]
    /\ UNCHANGED <<clock, drafts, log>>

FetchEntries ==
    /\ reader.pc = "counted"
    /\ reader' = [reader EXCEPT !.pc = "shown",
                                !.seen = @ \cup OnPage("none", reader.page)]
    /\ UNCHANGED <<clock, drafts, log>>

\* Groups are made, counted and cut from one list.
FetchGroups ==
    /\ reader.pc = "asked"
    /\ reader.view = "group"
    /\ LET pages == Pages(Cardinality(Listed("group")))
           page  == Page(reader.page, pages)
       IN  reader' = [reader EXCEPT !.pc = "shown", !.pages = pages, !.page = page,
                                    !.seen = @ \cup OnPage("group", page)]
    /\ UNCHANGED <<clock, drafts, log>>

Turn ==
    /\ reader.pc = "shown"
    /\ reader' = IF reader.page < reader.pages
                 THEN [reader EXCEPT !.pc = "asked", !.page = @ + 1]
                 ELSE [reader EXCEPT !.pc = "done"]
    /\ UNCHANGED <<clock, drafts, log>>

Next ==
    \/ \E g \in Groups : Draft(g)
    \/ \E entry \in drafts : Insert(entry) \/ Drop(entry)
    \/ \E view \in Views : Open(view)
    \/ CountEntries
    \/ FetchEntries
    \/ FetchGroups
    \/ Turn

Spec == Init /\ [][Next]_logVars

-----------------------------------------------------------------------------
(* The invariant from which FeedbackLogProofs derives PagingMissesNothing. *)

TypeOK ==
    /\ clock \in 0 .. MaxEntries
    /\ drafts \subseteq Entry /\ IsFiniteSet(drafts)
    /\ log \subseteq Entry /\ IsFiniteSet(log)
    /\ reader \in Reader

\* No two entries have the same time, which is that of their creation.
TimeInv ==
    /\ drafts \cap log = {}
    /\ \A e, f \in log \cup drafts : e.time <= clock /\ (e.time = f.time => e = f)

\* How many pages the reader has been shown.
Turned == IF reader.pc \in {"asked", "counted"} THEN reader.page - 1 ELSE reader.page

\* An item that is where it was, and that the reader has not seen.
Missing(b) ==
    /\ FirstSeen(b[1], reader.view) = b[2]
    /\ b[1] \notin reader.seen

\* What is listed stays so and moves only towards the beginning.  What is missing is
\* on pages to come, unless a late entry came between two queries.
PageInv ==
    /\ reader.pc = "counted" => reader.view = "none"
    /\ \A b \in reader.base :
          /\ b[1] \in Listed(reader.view)
          /\ FirstSeen(b[1], reader.view) <= b[2]
          /\ Missing(b) /\ ~reader.shifted =>
                /\ reader.pc \in {"asked", "counted", "shown"}
                /\ Position(b[1], reader.view) > Turned * PageSize
                /\ reader.pc = "counted" =>
                      Position(b[1], reader.view) <= reader.pages * PageSize
                /\ reader.pc = "shown" => reader.page < reader.pages

LogInv == TypeOK /\ TimeInv /\ PageInv
=============================================================================
