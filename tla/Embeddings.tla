----------------------------- MODULE Embeddings -----------------------------
(***************************************************************************)
(* The read path of the embedding client (src/recallum/embeddings/         *)
(* ollama.py, embed_read): a bounded cache of vectors, least recently used *)
(* first, and a window after a failure in which Ollama is not asked.       *)
(* Requests overlap: between the check of the window and the answer others *)
(* fail and succeed, in any order.  embed and embed_batch, the write path, *)
(* keep no state.                                                          *)
(***************************************************************************)
EXTENDS Naturals, Sequences, SequencesExt

CONSTANTS
    Callers, Queries,
    CacheSize,      \* read_cache_size
    Window,         \* read_negative_window_seconds
    MaxAsks, MaxClock   \* bounds: calls of Ollama, time

ASSUME ReadCacheAssumption == CacheSize \in Nat \ {0} /\ Window \in Nat /\ "none" \notin Queries

VARIABLES
    cached,         \* the queries in the cache, the least recently used first
    failedUntil,
    asking,         \* caller -> the query whose answer it waits for, or "none"
    clock, asks,
    used,           \* history: queries with a vector, in order of last use
    outcomes        \* history: [ok, at] of the answers that came

embeddingVars == <<cached, failedUntil, asking, clock, asks, used, outcomes>>

EmbeddingsInit ==
    /\ cached = <<>> /\ failedUntil = 0
    /\ asking = [c \in Callers |-> "none"]
    /\ clock = 0 /\ asks = 0 /\ used = <<>> /\ outcomes = <<>>

ToEnd(s, q) == Append(RemoveFirst(s, q), q)

(* Mutant of Touched: a hit leaves the order as it is. *)
LeftInPlace(q) == cached
Touched(q) == ToEnd(cached, q)

Hit(c, q) ==
    /\ asking[c] = "none" /\ Contains(cached, q)
    /\ cached' = Touched(q) /\ used' = ToEnd(used, q)
    /\ UNCHANGED <<failedUntil, asking, clock, asks, outcomes>>

Skips(q) == ~Contains(cached, q) /\ clock < failedUntil

AskOllama(c, q) ==
    /\ asking[c] = "none" /\ ~Contains(cached, q) /\ ~Skips(q)
    /\ asks < MaxAsks /\ asks' = asks + 1
    /\ asking' = [asking EXCEPT ![c] = q]
    /\ UNCHANGED <<cached, failedUntil, clock, used, outcomes>>

Evicted(s) == IF Len(s) > CacheSize THEN Tail(s) ELSE s

(* Mutant of Reopened: an answer leaves the window to run out. *)
StillClosed == failedUntil
Reopened == 0

Answer(c) ==
    LET q == asking[c]
    IN /\ q # "none"
       /\ failedUntil' = Reopened
       /\ cached' = Evicted(ToEnd(cached, q)) /\ used' = ToEnd(used, q)
       /\ asking' = [asking EXCEPT ![c] = "none"]
       /\ outcomes' = Append(outcomes, [ok |-> TRUE, at |-> clock])
       /\ UNCHANGED <<clock, asks>>

Fail(c) ==
    /\ asking[c] # "none"
    /\ failedUntil' = clock + Window
    /\ asking' = [asking EXCEPT ![c] = "none"]
    /\ outcomes' = Append(outcomes, [ok |-> FALSE, at |-> clock])
    /\ UNCHANGED <<cached, clock, asks, used>>

(* The request is cancelled while it waits.                                *)
CancelAsk(c) ==
    /\ asking[c] # "none" /\ asking' = [asking EXCEPT ![c] = "none"]
    /\ UNCHANGED <<cached, failedUntil, clock, asks, used, outcomes>>

Tick ==
    /\ clock < MaxClock /\ clock' = clock + 1
    /\ UNCHANGED <<cached, failedUntil, asking, asks, used, outcomes>>

EmbeddingsNext ==
    \/ \E c \in Callers : \/ \E q \in Queries : Hit(c, q) \/ AskOllama(c, q)
                          \/ Answer(c) \/ Fail(c) \/ CancelAsk(c)
    \/ Tick

EmbeddingsSpec == EmbeddingsInit /\ [][EmbeddingsNext]_embeddingVars

(***************************************************************************)
(* Properties.                                                             *)
(***************************************************************************)
(* A query among the last CacheSize that had a vector has it still,        *)
(* whatever overlapping answers evict ("reuse a bounded LRU of successful  *)
(* vectors", OllamaEmbeddingClient).                                       *)
RecentTextsStay ==
    /\ Len(cached) <= CacheSize
    /\ \A i \in DOMAIN used : i + CacheSize > Len(used) => Contains(cached, used[i])

(* A read is refused without asking only when the last answer to any read  *)
(* was a failure, less than a window ago: one success, of whichever read,  *)
(* reopens the way ("skip HTTP during a short window after a read          *)
(* failure").                                                              *)
SkipsJustified ==
    (\E q \in Queries : Skips(q)) =>
        /\ outcomes # <<>> /\ ~Last(outcomes).ok
        /\ clock < Last(outcomes).at + Window

(* The cache and the window together: what overlapping reads, whose        *)
(* answers come in any order, may find missing or be refused.              *)
ReadsAreSpared == RecentTextsStay /\ SkipsJustified
=============================================================================
