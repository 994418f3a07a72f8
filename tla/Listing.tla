------------------------------ MODULE Listing -------------------------------
(***************************************************************************)
(* Two things a client reads off the list of memories while others write:  *)
(* the advice of remember and merge about similar memories (_similar_to,   *)
(* memory/service.py), and the pages of list_memories.  remember asks for  *)
(* similar memories before it commits, merge after it has.  A memory is a  *)
(* number, in the order of created_at, which is the start of the           *)
(* transaction: one that commits late appears behind ones already listed.  *)
(***************************************************************************)
EXTENDS Naturals, FiniteSets, FiniteSetsExt, Sequences

CONSTANTS
    Stored,          \* memories written before are 1..Stored
    Writers,         \* memories to be written are Stored+1..Stored+Writers
    Subjects,        \* what a memory is about, in its bucket
    SimilarMost,     \* limits.similar_max_results
    PageSizes,       \* values of limit, clamped
    MaxOffset,       \* limits.list_max_offset
    MaxLeavings      \* bound: memories forgotten or reconfirmed by others

ASSUME ListingAssumption ==
    /\ {Stored, Writers, SimilarMost, MaxOffset, MaxLeavings} \subseteq Nat
    /\ PageSizes \subseteq Nat \ {0}

VARIABLES
    entry,     \* memory -> [state, steps left of its write, advice]
    subject,   \* memory -> its subject, fixed
    beside,    \* history: pairs of writes that ran at the same time
    stale,     \* memories last confirmed before the cutoff
    paging,    \* a client that reads every page of a list
    leavings   \* (bounded)

listingVars == <<entry, subject, beside, stale, paging, leavings>>

Entries == 1..(Stored + Writers)
Listed == {i \in Entries : entry[i].state = "active"}
Writing == {i \in Entries : entry[i].steps # <<>>}
PagingAt(pc) == paging.pc = pc

NoAdvice == [told |-> FALSE, similar |-> {}]
Before(live) ==
    [i \in Entries |->
        [state |-> IF i \in live THEN "active" ELSE IF i <= Stored THEN "retired" ELSE "unborn",
         op |-> "none", steps |-> <<>>, advice |-> NoAdvice]]
ListingInit ==
    /\ \E live \in SUBSET (1..Stored) : entry = Before(live)
    /\ subject \in [Entries -> Subjects]
    /\ beside = {}
    /\ stale \in SUBSET (1..Stored)
    /\ paging = [pc |-> "idle"]
    /\ leavings = 0

(***************************************************************************)
(* Writes.                                                                 *)
(***************************************************************************)
(* Mutant of StepsOf: merge asks before it commits, as remember does. *)
AsksFirst(op) == <<"ask", "commit">>
StepsOf(op) == IF op = "remember" THEN <<"ask", "commit">> ELSE <<"commit", "ask">>

BeginWrite(i, op) ==
    /\ entry[i].state = "unborn" /\ \A j \in Entries : j < i => entry[j].state # "unborn"
    /\ entry' = [entry EXCEPT ![i] = [@ EXCEPT !.state = "open", !.op = op, !.steps = StepsOf(op)]]
    /\ beside' = beside \cup {{i, j} : j \in Writing}
    /\ UNCHANGED <<subject, stale, paging, leavings>>

Stepping(i, step) == entry[i].steps # <<>> /\ Head(entry[i].steps) = step
(* merge retires its sources with the commit.                              *)
CommitWrite(i) ==
    /\ Stepping(i, "commit")
    /\ \E sources \in IF entry[i].op = "merge" THEN kSubset(2, Listed) ELSE {{}} :
          entry' = [j \in Entries |->
                      IF j = i THEN [entry[i] EXCEPT !.state = "active", !.steps = Tail(@)]
                      ELSE IF j \in sources THEN [entry[j] EXCEPT !.state = "retired"]
                      ELSE entry[j]]
    /\ UNCHANGED <<subject, beside, stale, paging, leavings>>

(* The nearest are equal here, so any of them; a check that fails is       *)
(* reported as none.                                                       *)
Alike(i) == {j \in Listed \ {i} : subject[j] = subject[i]}
SimilarActiveTo(i) ==
    IF Cardinality(Alike(i)) <= SimilarMost THEN {Alike(i)} ELSE kSubset(SimilarMost, Alike(i))
AskSimilar(i) ==
    /\ Stepping(i, "ask")
    /\ \E advice \in {NoAdvice} \cup [told : {TRUE}, similar : SimilarActiveTo(i)] :
          entry' = [entry EXCEPT ![i].steps = Tail(@), ![i].advice = advice]
    /\ UNCHANGED <<subject, beside, stale, paging, leavings>>

(***************************************************************************)
(* Pages: a total, then a page of the newest memories of the list.         *)
(***************************************************************************)
Filtered(queue) ==
    CASE queue = "stale" -> Listed \cap stale
      [] queue = "fresh" -> Listed \ stale
      [] OTHER -> Listed
(* History: how many memories have left the list so far. *)
Departed(queue) ==
    Cardinality({i \in Entries : entry[i].state = "retired"})
    + (IF queue = "stale" THEN Stored - Cardinality(stale) ELSE 0)
Clamped(offset) == IF offset < MaxOffset THEN offset ELSE MaxOffset
Newer(i, S) == Cardinality({j \in S : j > i})
(* Mutant of PageOf: the next page begins one row too far. *)
PageFromNext(S, offset, limit) ==
    {i \in S : Newer(i, S) > offset /\ Newer(i, S) <= offset + limit}
PageOf(S, offset, limit) == {i \in S : Newer(i, S) >= offset /\ Newer(i, S) < offset + limit}

StartPaging(queue, limit) ==
    /\ PagingAt("idle")
    /\ paging' = [pc |-> "count", queue |-> queue, limit |-> limit, offset |-> 0, seen |-> {},
                  total |-> 0, whole |-> FALSE, first |-> Filtered(queue),
                  since |-> Departed(queue)]
    /\ UNCHANGED <<entry, subject, beside, stale, leavings>>
CountListed ==
    /\ PagingAt("count")
    /\ paging' = [paging EXCEPT !.pc = "select", !.total = Cardinality(Filtered(paging.queue))]
    /\ UNCHANGED <<entry, subject, beside, stale, leavings>>
(* The client goes on until a page is not full, or is the last it may ask. *)
SelectPage ==
    /\ PagingAt("select")
    /\ LET page == PageOf(Filtered(paging.queue), Clamped(paging.offset), paging.limit)
           whole == Cardinality(page) < paging.limit
       IN paging' = [paging EXCEPT !.pc = IF whole \/ paging.offset >= MaxOffset THEN "end"
                                          ELSE "count",
                                   !.offset = @ + paging.limit, !.seen = @ \cup page,
                                   !.whole = whole]
    /\ UNCHANGED <<entry, subject, beside, stale, leavings>>

(* forget, and remember of what is already there.                          *)
Forget(i) ==
    /\ i \in Listed /\ leavings < MaxLeavings /\ leavings' = leavings + 1
    /\ entry' = [entry EXCEPT ![i].state = "retired"]
    /\ UNCHANGED <<subject, beside, stale, paging>>
ReconfirmStale(i) ==
    /\ i \in Listed \cap stale /\ leavings < MaxLeavings /\ leavings' = leavings + 1
    /\ stale' = stale \ {i}
    /\ UNCHANGED <<entry, subject, beside, paging>>

Queues == {"all", "stale", "fresh"}
Changes ==
    \E i \in Entries :
       \/ BeginWrite(i, "remember") \/ BeginWrite(i, "merge")
       \/ CommitWrite(i) \/ AskSimilar(i) \/ Forget(i) \/ ReconfirmStale(i)
Pages ==
    \/ \E queue \in Queues, limit \in PageSizes : StartPaging(queue, limit)
    \/ CountListed \/ SelectPage
ListingNext == Changes \/ Pages

ListingSpec == ListingInit /\ [][ListingNext]_listingVars

(***************************************************************************)
(* Properties.                                                             *)
(***************************************************************************)
(* Of two memories about the same subject the later one was reported the   *)
(* other, whichever wrote them, unless the check failed or was full.  Two  *)
(* remembers, or a remember and a merge, that run at the same time may     *)
(* miss each other; two merges never do (_similar_to, "Pre-existing        *)
(* memories about the same subject as the one just stored").               *)
Asked(i) == i \in Listed /\ entry[i].steps = <<>> /\ entry[i].op # "none"
Reported(i) == entry[i].advice.told /\ Cardinality(entry[i].advice.similar) < SimilarMost
Crossed(i, j) == {i, j} \in beside /\ {entry[i].op, entry[j].op} # {"merge"}
SimilarAreReported ==
    \A i, j \in Listed :
        /\ Asked(i) /\ Reported(i) /\ j < i /\ subject[i] = subject[j]
        /\ j <= Stored \/ (Asked(j) /\ Reported(j))
        => \/ j \in entry[i].advice.similar \/ i \in entry[j].advice.similar
           \/ Crossed(i, j)

(* A client that reads every page of a list sees what was on it from the   *)
(* first to the last, however much is stored meanwhile, unless a memory    *)
(* left the list; when nothing changed it saw as many as the total said    *)
(* ("the total honours the same filter as the page", list_active).         *)
PagesCoverList ==
    PagingAt("end") /\ paging.whole /\ Departed(paging.queue) = paging.since =>
        LET list == Filtered(paging.queue)
        IN /\ paging.first \cap list \subseteq paging.seen
           /\ paging.first = list => paging.total = Cardinality(paging.seen)

(* What a client reads off the list, in pages or as advice, is complete.   *)
ListIsCovered == SimilarAreReported /\ PagesCoverList
=============================================================================
