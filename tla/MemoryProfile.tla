--------------------------- MODULE MemoryProfile ----------------------------
(***************************************************************************)
(* The materialized profile over MemoryStore: memory_profiles rows, the    *)
(* readers that serve them (get_profile and context), the rebuild with its *)
(* generation check, and the background queue and worker that rebuild      *)
(* after a write (memory/service.py, memory/profile_rebuild.py,            *)
(* memory/profile_select.py, memory_repo.py).                              *)
(*                                                                         *)
(* The writers are the actions of MemoryStore, unchanged; here a write is  *)
(* announced by Schedule.  A reader loads the profile row and then the     *)
(* generation, in two statements; a rebuild reads the generation, lists    *)
(* the candidates and upserts, in three.  Other clients run in between.    *)
(* The dynamic slice is computed from live rows on every read and is not   *)
(* kept, so only the static one is modelled; character budgets are not.    *)
(***************************************************************************)
EXTENDS MemoryStore, SequencesExt

CONSTANTS
    Readers,      \* concurrent profile and context reads
    Worker,       \* the task of ProfileRebuildQueue
    StaticLimit,  \* limits.profile_static_max_items
    QueueLimit,   \* buffer_limit of the queue
    BatchSize     \* batch_size of the queue

ASSUME WorkerAssumption == Worker \notin Readers
ASSUME LimitsAssumption ==
    StaticLimit \in Nat /\ QueueLimit \in Nat \ {0} /\ BatchSize \in Nat \ {0}

VARIABLES
    profile,  \* memory_profiles: key -> materialized row
    pending,  \* the queue's keys, oldest first
    batch,    \* keys the worker has taken and not finished
    proc,     \* reader or worker -> its statement and local state
    lost      \* history: keys queued for rebuild and then dropped or given up

profileVars == <<profile, pending, batch, proc, lost>>
vars == <<storeVars, profileVars>>

Keys        == Buckets       \* the key of the global profile is Global
Tasks       == Readers \cup {Worker}
NoProfile   == [built |-> FALSE, gen |-> 0, at |-> 0, items |-> {}]
MaxAttempts == 3

(***************************************************************************)
(* Selection: visible, unexpired rows of the static categories, by         *)
(* importance, then last confirmation, then id.                            *)
(***************************************************************************)
Visible(k) == {Global, k}
Before(i, j) ==
    \/ rows[i].prio > rows[j].prio
    \/ rows[i].prio = rows[j].prio /\ rows[i].seen > rows[j].seen
    \/ rows[i].prio = rows[j].prio /\ rows[i].seen = rows[j].seen /\ i < j

Candidates(k, t) ==
    {i \in Undeleted : rows[i].bucket \in Visible(k) /\ Unexpired(rows[i], t)
                       /\ rows[i].prio > 0}

TopStatic(k, t) ==
    LET cand == Candidates(k, t)
        top  == {i \in cand : Cardinality({j \in cand : Before(j, i)}) < StaticLimit}
    IN {[id |-> i, bucket |-> rows[i].bucket, prio |-> rows[i].prio] : i \in top}

InitProfile ==
    /\ Init
    /\ profile = [k \in Keys |-> NoProfile]
    /\ pending = <<>>
    /\ batch = <<>>
    /\ proc = [p \in Tasks |-> [pc |-> "idle"]]
    /\ lost = {}

Go(p, state) == proc' = [proc EXCEPT ![p] = state]
On(p, where) == proc[p].pc = where

(***************************************************************************)
(* Writers: every step of MemoryStore but Announced, which schedules.  A   *)
(* global memory affects the global key and every materialized project;    *)
(* when listing those fails, only the global key is queued.                *)
(***************************************************************************)
Write(c) == (Call(c) \/ Continue(c)) /\ UNCHANGED profileVars
PassTime == Tick /\ UNCHANGED profileVars

Materialized == {k \in Keys \ {Global} : profile[k].built}

(* Coalesce a queued key; at the limit drop the oldest for the new one. *)
Queued(q, k) ==
    IF k \in ToSet(q) THEN q
    ELSE Append(IF Len(q) >= QueueLimit THEN Tail(q) ELSE q, k)

(* The keys a write affects, given the projects listed; the mutant takes a *)
(* global memory for a memory of the global profile only.                  *)
AffectedOwn(keys, listed) == keys
Affected(keys, listed) ==
    IF keys = <<Global>> THEN <<Global>> \o SetToSeq(listed) ELSE keys

Schedule(c) ==
    /\ Announced(c)
    /\ \E listed \in {Materialized, {}} :
          LET keys == Affected(tx[c].keys, listed)
              missed == IF tx[c].keys = <<Global>> THEN Materialized \ listed ELSE {}
          IN /\ pending' = FoldLeft(Queued, pending, keys)
             /\ lost' = lost \cup missed
                     \cup ((ToSet(pending) \cup ToSet(keys)) \ ToSet(pending'))
    /\ UNCHANGED <<profile, batch, proc>>

(***************************************************************************)
(* Readers.  since and asked remember what had been committed when the     *)
(* read began.                                                             *)
(***************************************************************************)
Ask(r, k) ==
    /\ On(r, "idle")
    /\ Go(r, [pc |-> "row", key |-> k, since |-> generation, asked |-> now])
    /\ UNCHANGED <<storeVars, profile, pending, batch, lost>>

ReadRow(r) ==
    LET s == proc[r]
    IN /\ On(r, "row")
       /\ Go(r, [pc |-> "generation", key |-> s.key, since |-> s.since,
                 asked |-> s.asked, row |-> profile[s.key]])
       /\ UNCHANGED <<storeVars, profile, pending, batch, lost>>

Serve(r, row) ==
    Go(r, [pc |-> "served", since |-> proc[r].since, asked |-> proc[r].asked,
           gen |-> row.gen, items |-> row.items])

(* A stored row is served only if built at the current generation; the     *)
(* mutant serves any.                                                      *)
AnyBuilt(row) == row.built
Current(row)  == row.built /\ row.gen = generation

ReadGeneration(r) ==
    LET s == proc[r]
    IN /\ On(r, "generation")
       /\ IF Current(s.row)
          THEN Serve(r, s.row)
          ELSE Go(r, [pc |-> "rebuild", key |-> s.key, since |-> s.since,
                      asked |-> s.asked, attempt |-> 1])
       /\ UNCHANGED <<storeVars, profile, pending, batch, lost>>

Done(r) ==
    /\ On(r, "served")
    /\ Go(r, [pc |-> "idle"])
    /\ UNCHANGED <<storeVars, profile, pending, batch, lost>>

(***************************************************************************)
(* The worker takes a batch and rebuilds its keys one after the other.     *)
(***************************************************************************)
TakeBatch ==
    /\ On(Worker, "idle") /\ batch = <<>> /\ pending # <<>>
    /\ LET n == IF Len(pending) < BatchSize THEN Len(pending) ELSE BatchSize
       IN /\ batch' = SubSeq(pending, 1, n)
          /\ pending' = SubSeq(pending, n + 1, Len(pending))
    /\ UNCHANGED <<storeVars, profile, proc, lost>>

StartRebuild ==
    /\ On(Worker, "idle") /\ batch # <<>>
    /\ Go(Worker, [pc |-> "rebuild", key |-> Head(batch), since |-> 0, asked |-> 0,
                   attempt |-> 1])
    /\ batch' = Tail(batch)
    /\ UNCHANGED <<storeVars, profile, pending, lost>>

(***************************************************************************)
(* rebuild_profile: up to three transactions, each of which reads the      *)
(* generation, lists, and upserts only if the generation is still the one  *)
(* it read.                                                                *)
(***************************************************************************)
RebuildRead(p) ==
    LET s == proc[p]
    IN /\ On(p, "rebuild")
       /\ Go(p, [pc |-> "list", key |-> s.key, since |-> s.since, asked |-> s.asked,
                 attempt |-> s.attempt, at |-> now, gen |-> generation])
       /\ UNCHANGED <<storeVars, profile, pending, batch, lost>>

RebuildList(p) ==
    LET s == proc[p]
    IN /\ On(p, "list")
       /\ Go(p, [pc |-> "upsert", key |-> s.key, since |-> s.since, asked |-> s.asked,
                 attempt |-> s.attempt,
                 row |-> [built |-> TRUE, gen |-> s.gen, at |-> s.at,
                          items |-> TopStatic(s.key, s.at)]])
       /\ UNCHANGED <<storeVars, profile, pending, batch, lost>>

(* The check of upsert_profile, on the locked user row; the mutant only    *)
(* refuses to replace a newer profile.                                     *)
NotOlder(s) == s.row.gen >= profile[s.key].gen
Unmoved(s)  == s.row.gen = generation

RebuildUpsert(p) ==
    LET s == proc[p]
    IN /\ On(p, "upsert")
       /\ Unmoved(s)
       /\ profile' = [profile EXCEPT ![s.key] = s.row]
       /\ lost' = lost \ {s.key}
       /\ IF p = Worker THEN Go(p, [pc |-> "idle"]) ELSE Serve(p, s.row)
       /\ UNCHANGED <<storeVars, pending, batch>>

RebuildConflict(p) ==
    LET s == proc[p]
    IN /\ On(p, "upsert")
       /\ ~Unmoved(s)
       /\ s.attempt < MaxAttempts
       /\ Go(p, [pc |-> "rebuild", key |-> s.key, since |-> s.since, asked |-> s.asked,
                 attempt |-> s.attempt + 1])
       /\ UNCHANGED <<storeVars, profile, pending, batch, lost>>

(* A reader answers "unavailable"; the worker logs and goes on. *)
RebuildGivesUp(p) ==
    /\ On(p, "upsert")
    /\ ~Unmoved(proc[p])
    /\ proc[p].attempt = MaxAttempts
    /\ lost' = IF p = Worker THEN lost \cup {proc[p].key} ELSE lost
    /\ Go(p, [pc |-> "idle"])
    /\ UNCHANGED <<storeVars, profile, pending, batch>>

Rebuild(p) == \/ RebuildRead(p) \/ RebuildList(p) \/ RebuildUpsert(p)
              \/ RebuildConflict(p) \/ RebuildGivesUp(p)

(* Nothing left to do: bounds reached, writers and worker at rest. *)
Quiet == /\ \A c \in Clients : At(c, "idle")
         /\ pending = <<>> /\ batch = <<>> /\ On(Worker, "idle")
Rest == Finished /\ Quiet /\ UNCHANGED profileVars

NextProfile ==
    \/ \E c \in Clients : Write(c) \/ Schedule(c)
    \/ PassTime
    \/ \E r \in Readers : \/ \E k \in Keys : Ask(r, k)
                          \/ ReadRow(r) \/ ReadGeneration(r) \/ Done(r)
    \/ TakeBatch \/ StartRebuild
    \/ \E p \in Tasks : Rebuild(p)
    \/ Rest

SpecProfile == InitProfile /\ [][NextProfile]_vars

(***************************************************************************)
(* Properties.                                                             *)
(***************************************************************************)
(* A stored profile whose generation is the user's current one holds       *)
(* exactly what selecting from the corpus of this moment would give, at    *)
(* the instant it was built: whatever writers and rebuilds interleaved,    *)
(* the generation check of upsert_profile never lets an older selection    *)
(* pass for the current one.                                               *)
StoredStaticCurrent ==
    \A k \in Keys : profile[k].built /\ profile[k].gen = generation =>
        profile[k].items = TopStatic(k, profile[k].at)

(* "Lectura nunca sirve perfil anterior a la ultima mutacion confirmada"   *)
(* (openspec memory-profile): a read is never answered from before a write *)
(* that had committed when the read began.                                 *)
FreshRead ==
    \A r \in Readers : On(r, "served") => proc[r].gen >= proc[r].since

(* Every read is a FreshView: it shows the corpus version of one instant   *)
(* inside the read, or is answered "unavailable".                          *)
View(s) == CASE s.pc = "idle"   -> [st |-> "idle"]
             [] s.pc = "served" -> [st |-> "answered", version |-> s.gen]
             [] OTHER           -> [st |-> "asked"]
Abstract == INSTANCE FreshView WITH version <- generation,
                                    view <- [r \in Readers |-> View(proc[r])]
ServesFreshView == Abstract!Spec

(* Rebuilding only the keys a write announces is enough: once the writers  *)
(* have returned and the worker has drained the queue, every materialized  *)
(* profile that was not dropped or given up agrees with the corpus, though *)
(* its generation may be older (_rebuild_profiles_for_memory).             *)
QueueCatchesUp ==
    Quiet => \A k \in Keys \ lost : profile[k].built =>
                 profile[k].items = TopStatic(k, profile[k].at)

(* "the memory stops being served everywhere once it expires" (service.py, *)
(* remember): no served item had expired when the read began.              *)
ServedUnexpired ==
    \A r \in Readers : On(r, "served") =>
        \A item \in proc[r].items : Unexpired(rows[item.id], proc[r].asked)
=============================================================================
