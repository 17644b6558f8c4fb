--------------------------- MODULE FeedbackPages ---------------------------
(***************************************************************************)
(* What the log of feedback holds, and what somebody who goes through its  *)
(* pages is shown (feedback_log_service.py), one by one or grouped by      *)
(* version or by author.  Every page is a request of its own, which finds  *)
(* the log as it is then.                                                  *)
(***************************************************************************)
EXTENDS Integers, FiniteSets, FiniteSetsExt

CONSTANTS
    Groups,      \* versions, or authors
    PageSize,
    MaxEntries   \* bound on the feedback

LogAssumption == PageSize \in Nat \ {0} /\ MaxEntries \in Nat

VARIABLES
    clock,   \* create_time of the latest entry
    drafts,  \* entries that have been created but not inserted
    log,     \* the IssueFeedbackLog documents
    reader   \* somebody who goes through the pages

Entry == [time : 1 .. MaxEntries, group : Groups]

Views == {"none", "group"}

Item == Entry \cup Groups

\* base: the items listed at the beginning, each with the time that it had then.
\* shifted: an entry has been late between the two queries of a page.
Reader == [pc : {"away", "asked", "counted", "shown", "done"}, view : Views,
           page : Nat \ {0}, pages : Nat, base : SUBSET (Item \X (1 .. MaxEntries)),
           seen : SUBSET Item, shifted : BOOLEAN]

Away == [pc |-> "away", view |-> "none", page |-> 1, pages |-> 0,
         base |-> {}, seen |-> {}, shifted |-> FALSE]

-----------------------------------------------------------------------------
(* The pages                                                               *)

Times(g) == {entry.time : entry \in {other \in log : other.group = g}}

\* Mutant: every entry of a group sets its place anew.
LastSeen(item, view) ==
    IF view = "none" THEN item.time ELSE Max(Times(item))

\* create_time, or first_seen of a group.
FirstSeen(item, view) ==
    IF view = "none" THEN item.time ELSE Min(Times(item))

Listed(view) ==
    IF view = "none" THEN log ELSE {g \in Groups : Times(g) # {}}

\* The place of an item in the list of _version_items or _author_items, or in the
\* answer to the query of the entries, which are sorted by that.
Position(item, view) ==
    Cardinality({other \in Listed(view) : FirstSeen(other, view) <= FirstSeen(item, view)})

Pages(total) == (total + PageSize - 1) \div PageSize

\* _pagination: a page beyond the last one is the last one.
Page(page, pages) == IF pages = 0 THEN 1 ELSE Min({page, pages})

OnPage(view, page) ==
    {item \in Listed(view) :
        Position(item, view) \in (page - 1) * PageSize + 1 .. page * PageSize}

-----------------------------------------------------------------------------
(* What is promised of them                                                *)

\* Who goes through all pages sees everything that was in the list at the beginning,
\* however much feedback arrives meanwhile, and in whatever order it is inserted:
\* places only move towards pages that are still to come.  Two cases excepted: a group
\* that a late entry gives an earlier place, and a late entry between the two queries
\* of a page.
PagingMissesNothing ==
    reader.pc = "done" /\ ~reader.shifted =>
        \A b \in reader.base :
            FirstSeen(b[1], reader.view) = b[2] => b[1] \in reader.seen
============================================================================
