---------------------------- MODULE MemoryStore ----------------------------
(***************************************************************************)
(* One user's memories in PostgreSQL and the operations of MemoryService   *)
(* that write them (src/recallum/memory/service.py over                    *)
(* src/recallum/db/repositories/memory_repo.py).                           *)
(*                                                                         *)
(* Every session is READ COMMITTED, so a statement sees all that committed *)
(* before it began.  An operation whose first statement already takes the  *)
(* row locks (FOR UPDATE, or a single UPDATE) is one step; one that reads  *)
(* first and writes later is one step per statement, and other clients run *)
(* in between.  now() is the start of the transaction: "at" below.         *)
(*                                                                         *)
(* Row-level security keeps users apart, so one user is modelled.  A row   *)
(* keeps what the properties distinguish: the dedup key (bucket, hash),    *)
(* the rank in the profile (prio), kind, expiry, the confirmation instant  *)
(* and the replacement.  Content, vectors, anchors and metadata are not    *)
(* kept.                                                                   *)
(***************************************************************************)
EXTENDS Integers, FiniteSets, Sequences

CONSTANTS
    Clients,    \* concurrent requests of the user (sessions of the pool)
    Projects,   \* project keys
    Global,     \* the bucket of scope = 'global'
    Hashes,     \* content hashes
    Prios,      \* 0: not preference/constraint; n > 0: importance of one that is
    Kinds,      \* values of kind a caller may pass (NULL is NoKind)
    Ttls,       \* values of ttl_seconds a caller may pass
    MergeMaxSources,  \* limits.merge_max_sources
    MaxCalls,   \* bound: calls made in a behaviour; each stores at most one row
    MaxTime     \* bound: last instant of the clock

NoKind == "none"
Todo   == "todo"
Never  == 0      \* expires_at IS NULL; instants start at 1
NoRow  == 0      \* superseded_by IS NULL
NoHash == "none" \* of an id not stored yet

ASSUME ClientsAssumption == IsFiniteSet(Clients)
ASSUME ProjectsAssumption == Global \notin Projects
ASSUME PriosAssumption == Prios \subseteq Nat
ASSUME KindsAssumption == Kinds \subseteq STRING /\ NoKind \notin Kinds
ASSUME TtlsAssumption == Ttls \subseteq Nat \ {0}
ASSUME MergeAssumption == MergeMaxSources \in Nat
ASSUME BoundsAssumption == MaxCalls \in Nat /\ MaxTime \in Nat \ {0}

Ids     == 1..MaxCalls
Buckets == Projects \cup {Global}

VARIABLES
    rows,        \* memories: id -> row ("free" ids are not stored yet)
    generation,  \* users.memory_generation
    now,         \* the database clock
    calls,       \* calls made so far
    tx           \* client -> the call in progress: next statement and its state

storeVars == <<rows, generation, now, calls, tx>>

Row == [st : {"free", "active", "retired"}, bucket : Buckets, hash : Hashes \cup {NoHash},
        prio : Nat, kind : Kinds \cup {NoKind}, exp : Nat, seen : Nat,
        succ : Ids \cup {NoRow}]

Optional(S)   == {{}} \cup {{x} : x \in S}
Or(opt, old)  == IF opt = {} THEN old ELSE CHOOSE x \in opt : TRUE

(* The columns an update_attributes call was asked to write. *)
Edit   == [prio : Optional(Nat), kind : Optional(Kinds), exp : Optional(Nat)]
NoEdit == [prio |-> {}, kind |-> {}, exp |-> {}]
Edited(r, e) == [r EXCEPT !.prio = Or(e.prio, @), !.kind = Or(e.kind, @),
                          !.exp = Or(e.exp, @)]

Unexpired(r, t) == r.exp = Never \/ r.exp > t
DurableTodo(r)  == r.kind = Todo /\ r.exp = Never

(* Mutant of Undeleted: a query that forgets "deleted_at IS NULL". *)
NotFree   == {i \in Ids : rows[i].st # "free"}
Undeleted == {i \in Ids : rows[i].st = "active"}
Free      == {i \in Ids : rows[i].st = "free"}
Fresh(i)  == i \in Free /\ \A j \in Free : i <= j
Holders(b, h) == {i \in Undeleted : rows[i].bucket = b /\ rows[i].hash = h}
ActiveByHash(b, h, t) == {i \in Holders(b, h) : Unexpired(rows[i], t)}

NewRow(b, h, p, k, e, t) ==
    [st |-> "active", bucket |-> b, hash |-> h, prio |-> p, kind |-> k,
     exp |-> e, seen |-> t, succ |-> NoRow]

(* Retire S in favour of s, and store "new" under i. *)
Retired(r, s) == [r EXCEPT !.st = "retired", !.succ = s]

(* Mutant of Replaced: the sources of a merge are linked to the first of   *)
(* them, which is retired like the others, not to the consolidated row.    *)
MergedIntoFirst(S, s, i, new) ==
    LET first == CHOOSE x \in S : \A y \in S : x <= y
        to    == IF Cardinality(S) < 2 THEN s ELSE first
    IN [j \in Ids |-> IF j = i THEN new
                      ELSE IF j \in S THEN Retired(rows[j], to) ELSE rows[j]]
Replaced(S, s, i, new) ==
    [j \in Ids |-> IF j = i THEN new
                   ELSE IF j \in S THEN Retired(rows[j], s) ELSE rows[j]]

Expiry(t, ttl) == IF ttl = {} THEN {} ELSE {t + Or(ttl, 0)}

(***************************************************************************)
(* Calls.  tx[c].pc is the statement client c runs next; the other fields  *)
(* are what the code holds in local variables at that point.  "wrote" is a *)
(* committed write whose profile keys are still to be announced, "raised"  *)
(* an IntegrityError on its way to the caller.                             *)
(***************************************************************************)
Enter(c, state) == tx' = [tx EXCEPT ![c] = state]
(* Mutant of Leave: what the call held outlives it. *)
LeaveDirty(c) == Enter(c, [tx[c] EXCEPT !.pc = "idle"])
Leave(c) == Enter(c, [pc |-> "idle"])
Wrote(c, keys) == Enter(c, [pc |-> "wrote", keys |-> keys])
At(c, where) == tx[c].pc = where

Begin(c) == At(c, "idle") /\ calls < MaxCalls /\ calls' = calls + 1

Init ==
    /\ rows = [i \in Ids |-> [st |-> "free", bucket |-> Global,
                              hash |-> NoHash, prio |-> 0, kind |-> NoKind,
                              exp |-> Never, seen |-> 0, succ |-> NoRow]]
    /\ generation = 0
    /\ now = 1
    /\ calls = 0
    /\ tx = [c \in Clients |-> [pc |-> "idle"]]

(***************************************************************************)
(* remember: a first short read decides whether to embed; then, in one     *)
(* transaction per attempt, find the duplicate again and reaffirm it, or   *)
(* create.  An attempt that needs a vector it does not have, or that loses *)
(* the race for the dedup index, is rolled back and tried again.           *)
(***************************************************************************)
Request == [bucket : Buckets, hash : Hashes, prio : Prios, kind : Optional(Kinds),
            ttl : Optional(Ttls), vector : BOOLEAN, attempt : 0..2]

RememberCall(c, b, h, p, k, ttl) ==
    /\ Begin(c)
    /\ Enter(c, [pc |-> "find",
                 req |-> [bucket |-> b, hash |-> h, prio |-> p, kind |-> k,
                          ttl |-> ttl, attempt |-> 0,
                          vector |-> ActiveByHash(b, h, now) = {}]])
    /\ UNCHANGED <<rows, generation, now>>

Found(q) == ActiveByHash(q.bucket, q.hash, now)
NextAttempt(n) == IF n = 2 THEN 2 ELSE n + 1
BareTodo(q) == q.kind = {Todo} /\ q.ttl = {}

(* The duplicate is loaded into the session; "copy" is that ORM object. *)
RememberHit(c) ==
    /\ At(c, "find")
    /\ \E i \in Found(tx[c].req) :
          Enter(c, [pc |-> "reaffirm", req |-> tx[c].req, at |-> now, id |-> i,
                    copy |-> rows[i]])
    /\ UNCHANGED <<rows, generation, now, calls>>

RememberRefused(c) ==
    /\ At(c, "find") /\ Found(tx[c].req) = {} /\ BareTodo(tx[c].req)
    /\ Leave(c)
    /\ UNCHANGED <<rows, generation, now, calls>>

(* The first read saw a duplicate that is gone: embed outside the session. *)
EmbedOutsideSession(c) ==
    /\ At(c, "find") /\ Found(tx[c].req) = {} /\ ~BareTodo(tx[c].req)
    /\ ~tx[c].req.vector
    /\ Enter(c, [pc |-> "find", req |-> [tx[c].req EXCEPT !.vector = TRUE,
                                             !.attempt = NextAttempt(@)]])
    /\ UNCHANGED <<rows, generation, now, calls>>

RememberMiss(c) ==
    /\ At(c, "find") /\ Found(tx[c].req) = {} /\ ~BareTodo(tx[c].req)
    /\ tx[c].req.vector
    /\ Enter(c, [pc |-> "create", req |-> tx[c].req, at |-> now])
    /\ UNCHANGED <<rows, generation, now, calls>>

(* What the request changes, compared with the copy read before the lock. *)
Reassertion(q, copy, t) ==
    [prio |-> IF q.prio = copy.prio THEN {} ELSE {q.prio},
     kind |-> IF q.kind = {copy.kind} THEN {} ELSE q.kind,
     exp  |-> Expiry(t, q.ttl)]

(* What update_attributes adds to the generation: nothing when asked to    *)
(* change nothing.  Its mutant overlooks edits of prio and kind.           *)
BumpsOnExpiry(e) == IF e.exp = {} THEN 0 ELSE 1
Bumps(e) == IF e = NoEdit THEN 0 ELSE 1

(* update_attributes locks the row but keeps the session's copy of it: the *)
(* todo rule is tested on that copy, and only the changed columns are      *)
(* written.  mark_reconfirmed follows in the same transaction.             *)
RememberReaffirm(c) ==
    LET t == tx[c]
        e == Reassertion(t.req, t.copy, t.at)
    IN /\ At(c, "reaffirm")
       /\ t.id \in Undeleted
       /\ ~DurableTodo(Edited(t.copy, e))
       /\ rows' = [rows EXCEPT ![t.id] = [Edited(@, e) EXCEPT !.seen = t.at]]
       /\ generation' = generation + Bumps(e) + 1
       /\ Wrote(c, <<t.req.bucket>>)
       /\ UNCHANGED <<now, calls>>

ReaffirmRefused(c) ==
    /\ At(c, "reaffirm")
    /\ tx[c].id \in Undeleted
    /\ DurableTodo(Edited(tx[c].copy, Reassertion(tx[c].req, tx[c].copy, tx[c].at)))
    /\ Leave(c)
    /\ UNCHANGED <<rows, generation, now, calls>>

(* The duplicate was retired since it was read: both updates match no row, *)
(* and the stale copy is returned as the result.                           *)
ReaffirmRetired(c) ==
    /\ At(c, "reaffirm")
    /\ tx[c].id \notin Undeleted
    /\ Wrote(c, <<tx[c].req.bucket>>)
    /\ UNCHANGED <<rows, generation, now, calls>>

(* An expired holder of the dedup key is retired, then the row inserted;   *)
(* the mutant leaves it in the index.                                      *)
LapsedKept(b, h, t) == {}
Lapsed(b, h, t) == Holders(b, h) \ ActiveByHash(b, h, t)

RememberCreate(c) ==
    LET q == tx[c].req
        t == tx[c].at
        stale == Lapsed(q.bucket, q.hash, t)
    IN /\ At(c, "create")
       /\ Holders(q.bucket, q.hash) \subseteq stale
       /\ \E i \in Ids :
          /\ Fresh(i)
          /\ rows' = Replaced(stale, NoRow, i,
                              NewRow(q.bucket, q.hash, q.prio, Or(q.kind, NoKind),
                                     Or(Expiry(t, q.ttl), Never), t))
       /\ generation' = generation + 1
       /\ Wrote(c, <<q.bucket>>)
       /\ UNCHANGED <<now, calls>>

(* Another client holds the key: IntegrityError, roll back, retry twice. *)
RememberCollides(c) ==
    LET q == tx[c].req
    IN /\ At(c, "create")
       /\ ~(Holders(q.bucket, q.hash) \subseteq Lapsed(q.bucket, q.hash, tx[c].at))
       /\ IF q.attempt = 2
          THEN Enter(c, [pc |-> "raised"])
          ELSE Enter(c, [pc |-> "find", req |-> [q EXCEPT !.attempt = NextAttempt(@)]])
       /\ UNCHANGED <<rows, generation, now, calls>>

(***************************************************************************)
(* update without content, and reconfirm: keyed edits in one transaction.  *)
(* They reach an expired row as long as it is not deleted.  A call that    *)
(* finds no row, or that the todo rule or the dedup index refuses, changes *)
(* nothing: here and below it is no step.                                  *)
(***************************************************************************)
UpdateAttributes(c, i, p, k, ttl, clear) ==
    LET e == [prio |-> p, kind |-> k,
              exp |-> IF clear THEN {Never} ELSE Expiry(now, ttl)]
    IN /\ Begin(c)
       /\ ttl = {} \/ ~clear
       /\ i \in Undeleted
       /\ ~DurableTodo(Edited(rows[i], e))
       /\ rows' = [rows EXCEPT ![i] = Edited(@, e)]
       /\ generation' = generation + Bumps(e)
       /\ Wrote(c, <<rows[i].bucket>>)
       /\ UNCHANGED now

(* Mutant of Reconfirm: the generation is not incremented. *)
ReconfirmSilently(c, i) ==
    /\ Begin(c)
    /\ i \in Undeleted
    /\ rows' = [rows EXCEPT ![i].seen = now]
    /\ Wrote(c, <<rows[i].bucket>>)
    /\ UNCHANGED <<generation, now>>

Reconfirm(c, i) ==
    /\ Begin(c)
    /\ i \in Undeleted
    /\ rows' = [rows EXCEPT ![i].seen = now]
    /\ generation' = generation + 1
    /\ Wrote(c, <<rows[i].bucket>>)
    /\ UNCHANGED now

(***************************************************************************)
(* update with content, and merge: the sources leave the dedup index, the  *)
(* durable replacement enters it, and the sources point at it, all in one  *)
(* transaction.  Any other holder of the key, expired or not, refuses it.  *)
(***************************************************************************)
(* Mutant of Replaceable: the todo rule sees the argument, not the kind    *)
(* the replacement inherits.                                               *)
ReplaceableByArgument(i, h, k) ==
    i \in Undeleted /\ k # {Todo} /\ Holders(rows[i].bucket, h) \subseteq {i}

Replaceable(i, h, k) ==
    /\ i \in Undeleted
    /\ Or(k, rows[i].kind) # Todo
    /\ Holders(rows[i].bucket, h) \subseteq {i}

Supersede(c, i, h, p, k) ==
    /\ Begin(c)
    /\ Replaceable(i, h, k)
    /\ \E j \in Ids :
          /\ Fresh(j)
          /\ rows' = Replaced({i}, j, j, NewRow(rows[i].bucket, h, Or(p, rows[i].prio),
                                                Or(k, rows[i].kind), Never, now))
    /\ generation' = generation + 1
    /\ Wrote(c, <<rows[i].bucket>>)
    /\ UNCHANGED now

(* p is the importance given, or the loudest source's when none is. *)
MergeMemories(S, b, h, p) ==
    /\ S \subseteq Undeleted
    /\ \A i \in S : rows[i].bucket = b
    /\ Holders(b, h) \subseteq S
    /\ \E j \in Ids :
          /\ Fresh(j)
          /\ rows' = Replaced(S, j, j, NewRow(b, h, p, NoKind, Never, now))
    /\ generation' = generation + 1
Merge(c, S, b, h, p) ==
    /\ Begin(c)
    /\ Cardinality(S) >= 2 /\ Cardinality(S) <= MergeMaxSources
    /\ MergeMemories(S, b, h, p)
    /\ Wrote(c, <<b>>)
    /\ UNCHANGED now

(***************************************************************************)
(* forget: get_active tells which profile to rebuild, then soft_delete     *)
(* retires the row, expired or not.  A row get_active did not see is       *)
(* retired without announcing anything.                                    *)
(***************************************************************************)
ForgetRead(c, i) ==
    /\ Begin(c)
    /\ i \in Undeleted
    /\ Enter(c, [pc |-> "delete", id |-> i,
                 keys |-> IF Unexpired(rows[i], now) THEN <<rows[i].bucket>> ELSE <<>>])
    /\ UNCHANGED <<rows, generation, now>>

ForgetDelete(c) ==
    /\ At(c, "delete")
    /\ IF tx[c].id \in Undeleted
       THEN /\ rows' = [rows EXCEPT ![tx[c].id] = Retired(@, NoRow)]
            /\ generation' = generation + 1
            /\ IF tx[c].keys = <<>> THEN Leave(c) ELSE Wrote(c, tx[c].keys)
       ELSE Leave(c) /\ UNCHANGED <<rows, generation>>
    /\ UNCHANGED <<now, calls>>

(***************************************************************************)
(* reassign_project: one statement lists the rows whose content the target *)
(* project already holds; the next moves the others.  The second takes its *)
(* own snapshot, and the rows it writes meet the dedup index as it is then.*)
(***************************************************************************)
InProject(b) == {i \in Undeleted : rows[i].bucket = b}
Conflicting(from, to) == {i \in InProject(from) : Holders(to, rows[i].hash) # {}}

ReassignList(c, from, to) ==
    /\ Begin(c)
    /\ from # to
    /\ Enter(c, [pc |-> "select", from |-> from, to |-> to,
                 conflicts |-> Conflicting(from, to)])
    /\ UNCHANGED <<rows, generation, now>>

ReassignSelect(c) ==
    LET t == tx[c]
        skipped == Conflicting(t.from, t.to)
    IN /\ At(c, "select")
       /\ Enter(c, [pc |-> "move", from |-> t.from, to |-> t.to,
                    conflicts |-> t.conflicts, skipped |-> skipped,
                    moving |-> InProject(t.from) \ skipped])
       /\ UNCHANGED <<rows, generation, now, calls>>

ReassignMove(c) ==
    LET t == tx[c]
        moved == t.moving \cap InProject(t.from)
    IN /\ At(c, "move")
       /\ \A i \in moved : Holders(t.to, rows[i].hash) = {}
       /\ rows' = [i \in Ids |-> IF i \in moved THEN [rows[i] EXCEPT !.bucket = t.to]
                                 ELSE rows[i]]
       /\ IF moved = {}
          THEN Leave(c) /\ UNCHANGED generation
          ELSE Wrote(c, <<t.from, t.to>>) /\ generation' = generation + 1
       /\ UNCHANGED <<now, calls>>

(* A concurrent write took a key in the target: the migration rolls back. *)
ReassignCollides(c) ==
    LET t == tx[c]
    IN /\ At(c, "move")
       /\ \E i \in t.moving \cap InProject(t.from) : Holders(t.to, rows[i].hash) # {}
       /\ Leave(c)
       /\ UNCHANGED <<rows, generation, now, calls>>

(***************************************************************************)
(* The end of a call, the clock, and the next-state relation.  Announcing  *)
(* the changed profiles is this component's one call out: MemoryProfile    *)
(* says what it does.                                                      *)
(***************************************************************************)
Announced(c) == At(c, "wrote") /\ Leave(c) /\ UNCHANGED <<rows, generation, now, calls>>
Raise(c) == At(c, "raised") /\ Leave(c) /\ UNCHANGED <<rows, generation, now, calls>>

Tick ==
    /\ now < MaxTime
    /\ now' = now + 1
    /\ UNCHANGED <<rows, generation, calls, tx>>

Call(c) ==
    \/ \E b \in Buckets, h \in Hashes, p \in Prios, k \in Optional(Kinds),
          ttl \in Optional(Ttls) : RememberCall(c, b, h, p, k, ttl)
    \/ \E i \in Ids, p \in Optional(Prios), k \in Optional(Kinds),
          ttl \in Optional(Ttls), clear \in BOOLEAN :
          UpdateAttributes(c, i, p, k, ttl, clear)
    \/ \E i \in Ids : Reconfirm(c, i) \/ ForgetRead(c, i)
    \/ \E i \in Ids, h \in Hashes, p \in Optional(Prios), k \in Optional(Kinds) :
          Supersede(c, i, h, p, k)
    \/ \E S \in SUBSET Ids, b \in Buckets, h \in Hashes, p \in Prios :
          Merge(c, S, b, h, p)
    \/ \E from, to \in Projects : ReassignList(c, from, to)

Continue(c) ==
    \/ RememberHit(c) \/ RememberRefused(c) \/ EmbedOutsideSession(c)
    \/ RememberMiss(c) \/ RememberReaffirm(c) \/ ReaffirmRefused(c)
    \/ ReaffirmRetired(c) \/ RememberCreate(c) \/ RememberCollides(c)
    \/ ForgetDelete(c)
    \/ ReassignSelect(c) \/ ReassignMove(c) \/ ReassignCollides(c)
    \/ Raise(c)

(* All calls of the bound made and answered, and the clock at its bound. *)
Finished ==
    /\ calls = MaxCalls /\ now = MaxTime
    /\ \A c \in Clients : At(c, "idle")
    /\ UNCHANGED storeVars

Next == \/ \E c \in Clients : Call(c) \/ Continue(c) \/ Announced(c)
        \/ Tick
        \/ Finished

Spec == Init /\ [][Next]_storeVars

(***************************************************************************)
(* Properties.                                                             *)
(***************************************************************************)
Calling == [pc : {"idle", "raised"}]
    \cup [pc : {"wrote"}, keys : Seq(Buckets)]
    \cup [pc : {"find"}, req : Request]
    \cup [pc : {"create"}, req : Request, at : Nat]
    \cup [pc : {"reaffirm"}, req : Request, at : Nat, id : Ids, copy : Row]
    \cup [pc : {"delete"}, id : Ids, keys : Seq(Buckets)]
    \cup [pc : {"select"}, from : Buckets, to : Buckets, conflicts : SUBSET Ids]
    \cup [pc : {"move"}, from : Buckets, to : Buckets, conflicts : SUBSET Ids,
          skipped : SUBSET Ids, moving : SUBSET Ids]

(* Type correctness: rows, counters and every call's local state keep the  *)
(* shape the tables (models.py) and the functions' locals give them.       *)
TypeOK ==
    /\ rows \in [Ids -> Row]
    /\ generation \in Nat
    /\ now \in Nat
    /\ calls \in Nat
    /\ tx \in [Clients -> Calling]

(* The profile cache trusts users.memory_generation: every committed       *)
(* change of a memory the profile could show or rank, by any operation,    *)
(* moves the generation forward in the same transaction, and it never      *)
(* goes back (_increment_generation in each writer of memory_repo.py).     *)
GenerationTracksCorpus ==
    [][(rows' # rows => generation' > generation) /\ generation' >= generation]_storeVars

(* history() walks superseded_by backwards: only a retired row points at a *)
(* replacement, the replacement is a stored row, and following the links   *)
(* never comes back, whatever updates and merges did.                      *)
HistoryIsForest ==
    /\ \A i \in Ids : rows[i].succ # NoRow =>
          rows[i].st = "retired" /\ rows[rows[i].succ].st # "free"
    /\ \A S \in (SUBSET Ids) \ {{}} : \E i \in S : rows[i].succ \notin S

(* A retired memory is history: no late reaffirmation, edit, merge or      *)
(* reassignment that was already under way changes it or brings it back.   *)
RetiredForever ==
    [][\A i \in Ids : rows[i].st = "retired" => rows'[i] = rows[i]]_storeVars

(* "kind='todo' MUST declare a TTL (working memory only, no durable        *)
(* backlog)" (service.py, remember): no stored todo is without expiry.     *)
TodoHasTtl == \A i \in Undeleted : ~DurableTodo(rows[i])

(* "An expired duplicate MUST NOT block re-remembering the same content"   *)
(* (memory_repo.py, create_memory): with nobody racing it, remember never  *)
(* ends in an IntegrityError of the dedup index.                           *)
RememberNeverRaises == \A c \in Clients : ~At(c, "raised")

(* "Both statements share one transaction so the conflict list matches     *)
(* what was actually skipped" (memory_repo.py, reassign_project).          *)
ReassignReportExact ==
    \A c \in Clients : At(c, "move") => tx[c].conflicts = tx[c].skipped
=============================================================================
