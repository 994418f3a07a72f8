-------------------------------- MODULE Data --------------------------------
(***************************************************************************)
(* What several components do with data: the record of a call and what a   *)
(* statement adds to it; and what Python's sorted, its filters and SQL's   *)
(* ORDER BY return, where the place of an element is the number of those   *)
(* that come before it.                                                    *)
(***************************************************************************)
EXTENDS Naturals, Sequences, FiniteSets

(* A record with some of its fields new or replaced. *)
With(state, news) ==
    [f \in DOMAIN state \cup DOMAIN news |-> IF f \in DOMAIN news THEN news[f] ELSE state[f]]

(* Where a sequence has an element. *)
RankIn(ids, id) == CHOOSE i \in DOMAIN ids : ids[i] = id

(* The elements of a finite set, in a strict total order given as pairs.   *)
Arranged(S, before) ==
    LET placed == {<<Cardinality({y \in S : <<y, x>> \in before}), x>> : x \in S}
    IN [k \in 1..Cardinality(S) |-> (CHOOSE p \in placed : p[1] = k - 1)[2]]

(* Numbers from the smallest. *)
Upwards(S) == Arranged(S, {p \in S \X S : p[1] < p[2]})

(* The elements of s at some of its positions, in the order of s. *)
ElementsAt(s, positions) ==
    LET order == Upwards(positions) IN [k \in DOMAIN order |-> s[order[k]]]

(* sorted is stable: elements with equal keys keep their order.  key is a  *)
(* function from elements to numbers; the smallest first, or the greatest. *)
Permuted(s, before) ==
    LET order == Arranged(DOMAIN s, before) IN [k \in DOMAIN order |-> s[order[k]]]
Ascending(s, key) ==
    Permuted(s, {p \in (DOMAIN s) \X (DOMAIN s) :
                    \/ key[s[p[1]]] < key[s[p[2]]]
                    \/ key[s[p[1]]] = key[s[p[2]]] /\ p[1] < p[2]})
Descending(s, key) ==
    Permuted(s, {p \in (DOMAIN s) \X (DOMAIN s) :
                    \/ key[s[p[1]]] > key[s[p[2]]]
                    \/ key[s[p[1]]] = key[s[p[2]]] /\ p[1] < p[2]})
=============================================================================
