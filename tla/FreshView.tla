----------------------------- MODULE FreshView ------------------------------
(***************************************************************************)
(* What a reader of a user's profile is promised, whatever the cache,      *)
(* queue and worker behind it do: an answered read shows the corpus as it  *)
(* is at one instant inside the read (openspec memory-profile, "Lectura    *)
(* nunca sirve perfil anterior a la ultima mutacion confirmada"), or the   *)
(* profile is reported unavailable.  The corpus is its version number.     *)
(***************************************************************************)
EXTENDS Naturals

CONSTANT Readers

VARIABLES version,  \* of the user's corpus
          view      \* reader -> its read in progress

viewVars == <<version, view>>

Init == version = 0 /\ view = [r \in Readers |-> [st |-> "idle"]]

Write == version' > version /\ version' \in Nat /\ UNCHANGED view

Ask(r) == /\ view[r].st = "idle"
          /\ view' = [view EXCEPT ![r] = [st |-> "asked"]]
          /\ UNCHANGED version

(* The answer is the version of this very instant, never a kept one. *)
Answer(r) == /\ view[r].st = "asked"
             /\ view' = [view EXCEPT ![r] = [st |-> "answered", version |-> version]]
             /\ UNCHANGED version

Unavailable(r) == /\ view[r].st = "asked"
                  /\ view' = [view EXCEPT ![r] = [st |-> "idle"]]
                  /\ UNCHANGED version

Take(r) == /\ view[r].st = "answered"
           /\ view' = [view EXCEPT ![r] = [st |-> "idle"]]
           /\ UNCHANGED version

Next == Write \/ \E r \in Readers : Ask(r) \/ Answer(r) \/ Unavailable(r) \/ Take(r)

Spec == Init /\ [][Next]_viewVars
=============================================================================
