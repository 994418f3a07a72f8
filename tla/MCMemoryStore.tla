---------------------------- MODULE MCMemoryStore ---------------------------
(* Instances of MemoryStore and Audits for TLC; the .cfg files choose the sizes. *)
EXTENDS Audits, TLC

CONSTANT MaxTimeTogether  \* bound: the clock once several contents are in use

Interchangeable == Permutations(Clients) \cup Permutations(Hashes) \cup Permutations(Projects)

(* The dedup keys stored, and those that calls in progress will look for. *)
InProgress == {c \in Clients : "req" \in DOMAIN tx[c]}
KeysInUse == {<<rows[i].bucket, rows[i].hash>> : i \in NotFree}
    \cup {<<tx[c].req.bucket, tx[c].req.hash>> : c \in InProgress}
Together == Cardinality({k[2] : k \in KeysInUse}) > 1

(* Several contents meet in projects and before the last instant: that one *)
(* is for a call whose every attempt loses the race for one content, once  *)
(* every call has begun, and no reassignment touches the global bucket.    *)
Bounded ==
    /\ now > MaxTimeTogether => calls = MaxCalls /\ ~Together
    /\ Together => \A k \in KeysInUse : k[1] # Global

(* What Finished is for, at the earlier bound of the clock. *)
Ended ==
    /\ calls = MaxCalls /\ now = MaxTimeTogether /\ Together
    /\ \A c \in Clients : At(c, "idle")
    /\ UNCHANGED storeVars
(* Only a new call brings a content or a bucket into use. *)
MCNext ==
    \/ \E c \in Clients : (Call(c) /\ Bounded') \/ Continue(c) \/ Announced(c)
    \/ Tick /\ Bounded'
    \/ Finished \/ Ended
MCSpec == Init /\ [][MCNext]_storeVars
=============================================================================
