---------------------------- MODULE MCWebSessions ---------------------------
(* Instances of WebSessions for TLC; the .cfg files choose the sizes. *)
EXTENDS WebSessions, TLC

Interchangeable == Permutations(Requests)
=============================================================================
