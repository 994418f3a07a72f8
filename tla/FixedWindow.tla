---------------------------- MODULE FixedWindow ----------------------------
(***************************************************************************)
(* FixedWindowLimiter (src/recallum/http_boundary.py): one bucket per key, *)
(* counting the reservations of the current window, in a map of bounded    *)
(* size.  Its lock is never held across an await, so a call is one step.   *)
(* The callers (Access) pass each key once, so a reservation of a call is  *)
(* never refused by another of the same call.                              *)
(***************************************************************************)
EXTENDS Naturals, FiniteSets, Sequences

CONSTANTS BucketKeys, MaxEntries

VARIABLES
    buckets,    \* key -> its bucket, for the keys that have one
    generation  \* number of buckets ever created

limiter == <<buckets, generation>>

Bucket == [count : Nat \ {0}, expires : Nat, generation : Nat]

LimiterInit == buckets = [k \in {} |-> 0] /\ generation = 0

Restricted(S) == [k \in S |-> buckets[k]]

(* _evict_expired: a window ends at its expiry. *)
Live(now) == {k \in DOMAIN buckets : now < buckets[k].expires}

(* The specifications of a call: a sequence of [key, limit, window].       *)
KeysOf(specs) == {specs[i].key : i \in DOMAIN specs}

(* Mutant of Exceeded: one reservation beyond the limit is let in. *)
ExceededByOne(specs, now) ==
    \E i \in DOMAIN specs : /\ specs[i].key \in Live(now)
                            /\ buckets[specs[i].key].count > specs[i].limit
Exceeded(specs, now) ==
    \E i \in DOMAIN specs : /\ specs[i].key \in Live(now)
                            /\ buckets[specs[i].key].count + 1 > specs[i].limit

(***************************************************************************)
(* _evict_for_capacity: the buckets that expire soonest, older first, make *)
(* room for the new keys; the keys of the call are protected.              *)
(***************************************************************************)
Sooner(j, k) ==
    \/ buckets[j].expires < buckets[k].expires
    \/ /\ buckets[j].expires = buckets[k].expires
       /\ buckets[j].generation < buckets[k].generation

EnoughRoom(kept, keys) == Cardinality(kept \cup keys) <= MaxEntries

Survivors(keys, now) ==
    {S \in SUBSET Live(now) :
        /\ keys \cap Live(now) \subseteq S
        /\ EnoughRoom(S, keys)
        /\ \A j \in Live(now) \ S : /\ ~EnoughRoom(S \cup {j}, keys)
                                    /\ \A k \in S \ keys : Sooner(j, k)}

(* The generation of a bucket that the i-th specification creates. *)
Created(specs, i, now) ==
    generation + Cardinality({j \in 1..i : specs[j].key \notin Live(now)})

(* reserve_many, when no limit is exceeded: all the keys, or none. *)
Reserve(specs, now) ==
    \E S \in Survivors(KeysOf(specs), now) :
        LET spec(k) == CHOOSE i \in DOMAIN specs : specs[i].key = k
        IN /\ buckets' = [k \in S \cup KeysOf(specs) |->
                IF k \notin KeysOf(specs) THEN buckets[k]
                ELSE IF k \in S THEN [buckets[k] EXCEPT !.count = @ + 1]
                ELSE [count |-> 1, expires |-> now + specs[spec(k)].window,
                      generation |-> Created(specs, spec(k), now)]]
           /\ generation' = Created(specs, Len(specs), now)

(* A refusal still drops the expired buckets. *)
Refuse(now) == buckets' = Restricted(Live(now)) /\ UNCHANGED generation

(***************************************************************************)
(* release: nothing for a bucket that is gone or of another generation.    *)
(***************************************************************************)
(* Mutant of Holds: a reservation of an earlier window counts. *)
HoldsKey(res) == res.key \in DOMAIN buckets
Holds(res) == /\ res.key \in DOMAIN buckets
              /\ buckets[res.key].generation = res.generation

Release(res) ==
    /\ UNCHANGED generation
    /\ \/ ~Holds(res) /\ UNCHANGED buckets
       \/ /\ Holds(res) /\ buckets[res.key].count > 1
          /\ buckets' = [buckets EXCEPT ![res.key].count = @ - 1]
       \/ /\ Holds(res) /\ buckets[res.key].count <= 1
          /\ buckets' = Restricted(DOMAIN buckets \ {res.key})
=============================================================================
