# A TLA+ verification of recallum

recallum is a memory service for coding agents: an asyncio process (FastAPI and
FastMCP) over PostgreSQL that stores short memories per user, serves them by
hybrid retrieval, and materializes a small profile per user and project. This
directory models the parts whose correctness depends on the order in which
things happen and the algorithms they share, checks them with TLC on small
instances, and proves the most important results with TLAPS for every size.

Paths below are relative to `src/recallum/` unless they start with `plugins/`.

## 1. Inventory

| Part | State | Operations | What is hard | What makes it correct |
|---|---|---|---|---|
| Memory store (`memory/service.py`, `db/repositories/memory_repo.py`) | `memories` rows, `users.memory_generation` | remember, remember_batch, update, merge, reconfirm, forget, reassign_project, reembed_stale, get, list, statistics | READ COMMITTED transactions of several statements; the dedup index; expiry without deletion; batches that lock each other | generation moves with every change; supersession is a forest and the trail is whole; retired rows stay retired; outcomes are true |
| Retrieval and context (`retrieval.py`, `memory/context.py`, `memory/token_budget.py`) | none | recall, context | a statement sees more than the one before it; ties; three budgets in a row | nothing invisible is served, nothing that goes first is passed over, what is left out is reported |
| Materialized profile (`memory/service.py`, `memory/profile_select.py`) | `memory_profiles` rows | get_profile, context, rebuild_profile | three-statement rebuild against writers; readers that load row and generation apart | a read never shows the corpus of before the read began |
| Profile rebuild queue (`memory/profile_rebuild.py`) | bounded deque, worker | enqueue, flush, start, stop | coalescing, drop-oldest, failures that do not requeue, wake against stop | the keys announced are enough; a waiting key is taken |
| Usage buffer (`memory/usage.py`) | bounded dict, users in flight, worker | record, flush, flush_user, start, stop | overlapping flushes, cancelled requests, failed calls, shutdown | every serve is applied or visibly dropped; a read never hangs |
| Memory graph and hygiene (`hygiene.py`, `memory_repo.py`) | none | graph, related, hygiene report | a cap for both ends of an edge, two ways to read pairs, truncation | strongest edges win; truncation is told; clusters are components |
| Embeddings (`embeddings/ollama.py`) | LRU of vectors, failure window | embed_read | overlapping reads, answers in any order | skips are justified, recent texts stay |
| Web sessions (`auth/web_sessions.py`, `web/auth.py`, `web_session_repo.py`) | `web_sessions` rows, the browser's cookie | login, resolve (rotate, grace, burn), logout | concurrent requests of one page, lost responses, replays, boundaries of four windows | a chain has one live end; a closed chain stays closed; an active user stays |
| Rate limiter and identity cache (`http_boundary.py`, `auth/middleware.py`) | buckets, token hash to identity and instant | reserve_many, release, eviction, authenticate | all-or-nothing under a capacity limit; release of an older window; revocation during a lookup | a bucket counts its charges; a revoked key dies within a TTL |
| HTTP boundary (`http_boundary.py`, `telemetry/http.py`) | messages of one request | body limit, client address, host and origin, one record | chunks, replay, disconnects, exceptions | the body arrives whole or not at all; one true record |
| Users, keys, administration (`web/admin_service.py`, `cli.py`, `user_repo.py`) | users, keys | create, issue, revoke, set_admin | concurrent demotion | one administrator remains |
| Telemetry (`telemetry/`) | bounded deque, worker, rows | record, flush, purge, stop, aggregate | as the usage buffer; labels; retried inserts | events are stored or counted as lost; counts add up |
| Learned skills (`skills/service.py`, `skill_repo.py`) | `skills` rows | save, forget, match | dedup and replacement against concurrent calls; legs read apart | versions form lines; answers are true |
| Readiness (`app.py`) | probes of one request | readiness | a probe that hangs or is cancelled | the report is what the probes found |
| Lifecycle (`app.py`, `container.py`) | running workers, resources | shutdown | order, failures, cancellation | the engine outlives who uses it; shutdown ends |
| Project key of the hooks (`plugins/recallum-memory/hooks/recallum_hook.py`) | key cached in the git directory, anchors | _project | git that times out, nested checkouts | a session keeps its key |
| MCP server, self-service API, configuration, migrations, evaluation, doctor script, deployment | none, or files | forward, validate, measure | - | not modelled (section 5) |

Interactions. A writer of the store, after its commit, *announces* the profile
keys its memory can affect (`_rebuild_profiles_for_memory`); the queue's worker
and stale readers both run `rebuild_profile`; a read that ranks by usage first
calls `flush_user`, and every read records its serves in the usage buffer. Web
requests resolve a session cookie, and MCP requests pass limiter and identity
cache, before they reach any service; both come through the HTTP boundary, and
every tool call leaves an event in the telemetry buffer. At shutdown the three
workers are stopped together and then what they use is closed. The generation
counter in `users` is the only thing that couples the store to the profile.

The hazards are listed one by one in PROJECT.json, each at its line with the
properties aimed at it; those without a property say why.

## 2. Modules

State and transactions:

- `MemoryStore` - one user's rows and every single writer. An operation whose
  first statement takes the row locks is one action (`UpdateAttributes`,
  `Reconfirm`, `Supersede`, `Merge`); one that reads first and writes later is
  one action per statement, with what the code keeps in locals in `tx[c]`
  (`RememberCall`, `RememberHit`/`RememberMiss`, `RememberReaffirm`/
  `RememberCreate` with refusals, collisions and retries; `ForgetRead`,
  `ForgetDelete`; `ReassignList`, `ReassignSelect`, `ReassignMove`). `Tick` is
  the database clock.
- `Audits` EXTENDS `MemoryStore` with what get and statistics report. A history is
  what the recursive query ends with, written as the least set closed under
  "replaced by one of these" (`Closed`).
- `MemoryProfile` EXTENDS `MemoryStore`: the writers are its actions unchanged
  (`Write`), except that announcing becomes `Schedule`, which enqueues. It adds
  readers, the rebuild in three statements, run by readers and by the worker,
  and the worker.
- `FreshView` - the abstract specification of a profile read: it is answered with
  the version of the corpus of one instant inside the read, or not at all.
  `MemoryProfile` implements it with `version <- generation`; TLC checks it
  (`ServesFreshView`) and `Refinement` proves it.
- `BatchWrites` - remember_batch: the locks an item takes are held to the end of
  its transaction; PostgreSQL (external) aborts one call of a circle.
- `Reembed` - pages of stale vectors against writers and failing embeddings.
- `Listing` - list_memories page by page, and the advice about similar memories.
- `Reads` - recall and context, statement by statement, over `Packing` (token
  estimates, strategies, profile slices, assembly) and `Fusion` (reciprocal rank
  fusion, competition votes), which are operators without state. `Data` has what
  Python's `sorted`, filters and SQL's ORDER BY return.
- `MemoryGraph` - graph_snapshot on both paths, related_to, the hygiene report.
- `SkillMatching` - match_skills and the advice about similar skills, over
  `Fusion`; `Skills` - save_skill and forget_skill on one name.
- `Embeddings` - embed_read.

Access and process:

- `WebSessions` - sessions, the browser's cookie and its requests; each repository
  call is one step. `root`, `lastUse`, `closed` and `late` are history.
- `FixedWindow` - the limiter; `Access` EXTENDS it with its two callers, the
  identity cache and the `api_keys` table.
- `Administration` - requests of administrators, which take the advisory lock for
  roles, and commands, which do not.
- `ProjectKey` - _project of the hooks over directories one inside the other.
- `UsageBuffer` - the buffer with its readers and worker in the detail of its
  counts; `Workers` - the loop it shares with the telemetry buffer and the rebuild
  queue, with the shutdown of all three.
- `Boundary`, `Readiness`, `Activity` - one HTTP request through the middleware;
  one readiness request; events from the call to the dashboard.

`Services`, `Runtime` and `Knowledge` put beside each other components that share
no variable. `part` chooses the one that moves; since none reads another's
variables, this shows what each does in any interleaving at the cost of the sum
of their states. Components that do share state are composed by EXTENDS and
interleave: `MemoryProfile` with `MemoryStore`, `Access` with `FixedWindow`, the
three queues and the resources inside `Workers`.

`Services` tells apart a browser with several requests and one that sends a
request when the previous one is over (`alone`), for which more is promised.

`MC*` modules choose instances: `MCProfileQuestions` has two sizes of one model
(`question`), `MCServices` lets the browser that is `alone` live longer,
`MCMemoryStore` bounds the clock and what happens once two contents are in use
(`Bounded`), `MCRuntime` takes users, who are alike, and profile keys, also alike,
for the first time in one order (`UserInOrder`, `ItemInOrder`), the others add symmetry sets and enumerate inputs. `*Proofs` modules hold theorems;
`DataProofs` has the lemmas about sums, folds, lists and orders they share.

Lists are sorted, filtered and joined by operators of `Data` that say at which
place an element ends: the number of those that come before it. `SortSeq` of the
libraries is a CHOOSE over permutations, which TLC evaluates by special code but
no proof can use; `SelectSeq` is recursive, as is the loop of `find` in
`hygiene.py`, which is a fold with as many steps as there are memories (`Found`):
a step at a root changes nothing, and `FoundIs` proves that a root is reached.

A definition written `Mutant of X` just before `X` is what X would be with a
plausible bug; it is used nowhere, and PROJECT.json names the property that
fails when it replaces X.

Where several promises about one component belong together, a property is their
conjunction (`ContextServes`, `RecallServes`, `GraphTellsTrue`, `MatchesAreSound`,
`ListIsCovered`, `ReadsAreSpared`, `DisconnectsHeard`, `RequestIntact`,
`ProbesTold`, `KeyInTime`; for liveness `RuntimeMovesOn` and `KnowledgeEnds`): its
parts are named and commented just before it, and each part has a mutant.

### Abstractions

- Row-level security separates users, so one user is modelled in the store. Row
  ids are taken in increasing order, so "oldest id" and the uuid tie-break are
  both a fixed order. `Reembed` leaves ids in any order.
- A call the code answers without any write (unknown id, validation error, no
  row matched) is no step. Database failures are modelled where the code handles
  them: dedup violations, deadlocks, failing savepoints, lists and usage calls.
- Content, anchors and metadata are not kept. A memory matches each leg of a
  search by a degree; what PostgreSQL computes as similarity is an input.
- `Merge` takes its importance as an input, which includes the loudest source's.
- In `Reads` the rebuild of a missing or stale profile row and the assembly that
  follows are one step: a rebuild that succeeds is as of the instant its
  compare-and-set confirms, and the assembly reads only what the call holds. The
  rebuild's own statements are in `MemoryProfile`.
- In `MemoryProfile` a slice is limited in items; `Packing` has the character
  budgets and the dynamic slice, which feed nothing back to the store.
- In `MemoryProfile` the worker may run at any time; the wake event and the
  intervals are in `Workers`.
- Expiry is written in the service's clock and read in the database's; one
  clock stands for both.
- Weights of fusion are tenths and shares are whole numbers by a common multiple
  (`Scale`), so two scores are equal exactly when the fractions are.
- URLs, addresses and headers have a value or are garbage; they are not parsed.

## 3. Runs

Every bound is a CONSTANT: `MaxCalls`, `MaxTime`, `MaxLogins`, `MaxServes`,
`MaxFailures`, `MaxClock`, `MaxReservations`, `MaxSkills`, `MaxKeys`,
`MaxChanges`, `MaxRecords`, `MaxBroken`, `MaxElapsed`, `MaxSpoiled`, `MaxForgets`,
`MaxWrites`, `MaxStores`, `MaxTouches`, `MaxReplaced`, `MaxAsks`, `MaxLeavings`,
`MaxTimeTogether`.

| Run | Shows | Bounds |
|---|---|---|
| `store_serial` | no durable todo; remember never raises | 1 client, 2 hashes, 2 kinds, every TTL and edit, 4 calls, 2 instants |
| `store_concurrent` | the generation moves with every change; supersession is a forest and the trail leads to every superseded row; retired rows and their history never change | 2 clients, 2 projects, 4 calls; 1 content, any bucket and 3 instants, the third once every call has begun (what a third attempt of remember needs to lose the race), or 2 contents, projects and 2 instants (what merges need) |
| `profile` | refinement of `FreshView`, which includes that reads are fresh; the announced keys suffice once a queue of one is drained | 1 client, 1 project; one reader and 2 writes, or no reader and 3 writes over 2 instants |
| `services` | sessions, limiter and identity cache, administration, skills, project keys | 2 requests and 5 instants, or one at a time and 8; 2 attempts, 2 keys, 3 instants, 3 buckets; 3 people, 2 requests and 1 command; 2 savers, 3 rows; 2 directories, 2 changes |
| `runtime` | usage counts, three workers and shutdown, HTTP boundary, readiness, activity, with liveness | usage buffer of 2 keys, 3 users and 3 serves; the other queues and chunks of one; one failure; bodies up to and over the limits in 1 to 3 chunks, up to 3 proxies; 2 dependencies; 3 events, 2 listed projects |
| `knowledge` | batches, reads, graph, skill matching, re-embedding, embeddings, pages and advice | 2 batches of up to 3 items; corpora of 3 to 5 memories and a write between any two statements; graphs of 4 memories; 3 skills; 3 rows in pages of 2; cache of 2; 6 entries in pages of 2 |

The remaining six runs are the counterexamples of the next section.

Why these bounds are enough: nearly every conflict in this code is between one
read-then-write and one other write, so two actors reach it; windows of sessions
are chosen so that each boundary (grace, threshold, idle, absolute) is a distinct
instant; a limit of one or two makes insertions meet the bound; corpora include
crowds of one category larger than a pool. In the store an index keeps the
undeleted rows of a bucket apart by content, so two contents are what a merge needs,
and all it can have (`MergeMaxSources` is 2): within four calls a merge meets the
reaffirm, forget or move of another client, and its row is replaced in turn. The
global bucket, where no reassignment reaches, has two contents in `store_serial`
only. In the usage buffer three users are what overflows two keys, and a batch of
two fails between its users while the buffer refills.

Deadlock is checked in `store_serial`, `store_concurrent` and `profile`, where
`Finished`, `Ended` and `Rest` are the only states allowed to stop. The other runs have
CHECK_DEADLOCK FALSE: a request, a read or a shutdown ends and nothing follows
it. That calls, runs and stops do end is a property of its own there
(`KnowledgeEnds`, `RuntimeMovesOn`).

Fairness. `UsageBuffer`, `Workers`: weak fairness of every task's own steps; the
event loop runs what is ready, timeouts fire and a repository call returns or
raises. `Activity`: of storing, which the worker retries. `BatchWrites`: of each
call's next statement, and of PostgreSQL's deadlock detector. `Reembed`: of each
run's own steps. Nothing is assumed of requests arriving, of cancellation, of
`Exit` or of any call's success.

### Where the code disagrees with what it says

Six runs check one property each that a comment or a specification of the
repository states and TLC refutes; PROJECT.json quotes the lines.

- `profile_expired` (`ServedUnexpired`): expiry moves no generation, so an item
  of a stored profile is served after it expired.
- `sessions_siblings` (`NeverBurnt`): of two requests of one page load that both
  read the row before it is rotated, the one that loses the rotation burns the
  chain, without the grace the other order gets.
- `sessions_logout` (`ClosedStaysClosed`): a rotation in flight survives the
  logout of its chain. The same happens to a chain that is being revoked for
  reuse (two requests, `Operations = {"page"}`, `Replays = TRUE`).
- `usage_cancel` (`ReadContinues`): a request cancelled in the repository call
  leaves its user in flight, and the user's next read waits. `OnlyTheStrandedWait`,
  which `runtime` checks with cancellation, shows there is no other way to wait
  for ever; `LossObservable` counts the cancelled batch as `lost`.
- `context_snapshot` (`OneSnapshot`): the statements of context each see what is
  committed when they start, so what is served may never have been active
  together. `EachWasVisible` is what holds.
- `hook_foreign` (`OwnKey`): when git fails in a clone nested in a checkout that
  has a cached key, the session gets the key of the checkout around it.

Other claims TLC refutes, for which no run is kept; the constants show how:

- `TodoHasTtl` with two clients, `Kinds = {"todo"}` and three calls: reaffirming
  a duplicate tests the todo rule on a copy of the row that another client has
  edited since (`memory_repo.py:1499`).
- `ReassignReportExact` with two clients and two projects: the list of conflicts
  and the move see different snapshots (`memory_repo.py:1947`).
- `QueueCatchesUp` with `Ttls = {1}` and two instants: forgetting an expired
  memory announces no profile key (`service.py:1696`). The generation still
  moves, so a read rebuilds it.
- `IdleWindowRenewed` with one request: a use before the rotation threshold does
  not renew the idle window (`web_sessions.py:78`). `ActiveUserStays` is what
  holds: at least `Idle - Threshold` remains.
- `FlushUserComplete` with a worker: `flush` does not wait for users in flight
  and releases them, so an overlapping flush_user returns before older serves
  are applied (`usage.py:146`).
- `MaximumRevocationDelay`: a key revoked between the lookup of a request and the
  insertion of what it found is cached for a TTL from the insertion, so longer
  than a TTL after its revocation (`auth/middleware.py:84`).
- `AllCleanupAttempted` with `LifespanCancelled = TRUE`: when the lifespan's task
  is cancelled while it waits for the workers, `shutdown_container` is not
  reached (`app.py:119`).

## 4. Proofs

Every property of a passing run that is not about liveness -- all its invariants,
its action properties and the refinement of `FreshView` -- is proved for all
values of the constants.

Assumptions: only the named ASSUMEs of the modules, which TLC evaluates in every
run. They say that sets the code gets from a database or a loop are finite
(`ClientsAssumption`, `TasksAssumption`), that limits are naturals, positive where
the configuration requires it (`LimitsAssumption`, `SkillLimitsAssumption`,
`ListingAssumption`, `BudgetAssumption`, `TimeoutsAssumption`,
`QueueLimitsAssumption`, `RowIdsAssumption`, `ReadCacheAssumption`), that markers
such as `NoKind`, `Invalid` or the worker's name are not among the values they
mark (`KindsAssumption`, `ItemsAssumption`, `WorkerAssumption`), that windows of
sessions are ordered as the settings validate them (`WindowsAssumption`), that
buckets of different kinds differ (`KeysAssumption`), that there is a first
administrator (`FirstAssumption`), and what inputs look like
(`RequestsAssumption`, `NamesAssumption`, `TokensAssumption`; `ReadsAssumption` and
`SkillRecordsAssumption`: finitely many memories or skills, numbers where the
columns are numbers, one of the four categories of the CHECK constraint;
`GraphAssumption`: finitely many memories, similarities and importances that are
naturals; `FusionAssumption`: the constant of the rank fusion is a natural, the
scale of its shares positive, and by `SkillRecordsAssumption` shares are whole for
every rank of a leg). Three theorems have
hypotheses of their own, without which what they say is false (section 3):
`OneClient` for `TodosExpire` and `NeverRaises`, `OneClient` and no lifetimes
(`Ttls = {}`) for `QueueSuffices`.

### The store

`MemoryStoreProofs`. `TypeCorrect` (TypeOK) by one lemma per action. Everything
else rests on `StepWritesOrKeeps`: every step either edits, replaces or deletes
rows in a stated way with a larger generation, or leaves rows and generation
alone. From it `GenerationTracks` and `RetiredStays` follow directly, and
`HistoryForest` by an invariant: a new link goes from a live row to a row that
was not stored before and points nowhere, so a set closed under links would have
been closed before the step.

`TrailWhole` needs no invariant beyond the forest: it is what a forest means for
a query that follows links backwards. A history is itself closed
(`HistoryIsClosed`), and each of its rows was replaced by the seed or another of
its rows (`HistoryHasNoOrphan`: otherwise the history without that row would be
closed and smaller). The superseded rows in nobody's history would form a set
whose links stay inside it, which is a cycle (`EveryRowHasATip`), and what two
histories share would have a row replaced by none of them (`TipsAreApart`).
`HistoryStays`: a step sets links only to rows it stores itself (`LinksOnlyGrow`),
so the sets closed for a stored row are the same before and after.

`TodosExpire` and `NeverRaises` follow from `SerialInv`, what remember relies on
between its statements when nobody else writes: the copy it reaffirms is still
the row (so the todo rule, applied to the copy, holds of the row), and the key it
inserts has no unexpired holder (so the unexpired collision that ends in
IntegrityError cannot happen).

`MemoryProfileProofs`. The freshness results are not inductive by themselves: a
stored profile may be from an old generation, and a task may hold a row from the
past. The inductive invariant `ProfileInv` says that each profile row is
*faithful* (its generation is at most the current one, and at the current one its
items are the selection) and each task's local state is *sound* (what it read is
at most the current generation, and if equal still describes the corpus; a
reader's answer is no older than its start). It is preserved because every write
moves the generation (`StepWritesOrKeeps` again), which makes every older row
vacuously faithful. `StaticCurrent` and `ReadsAreFresh` follow, and `Refinement`
shows each step is a step of `FreshView` or a stutter: serving a row needs its
generation to equal the one read in that very step.

`QueueSuffices` follows an out-of-date profile from the write that made it so to
the rebuild (`QueueInv`): its key is about to be announced, queued, in the
worker's batch or hands, or counted as lost. The writer's side is `Told`: a step
that changes rows ends in "wrote" with keys that cover every profile which showed
or will show one of them (`Covered`), because a call that read what it will
announce before it writes is still right about it (`KnowsInv`); with a second
client that is where it breaks. The queue's side needs that filling it, a fold
over the announced keys, leaves a queue of keys (`FilledQueue`, by the method of
`DataProofs` below).

### Access

`WebSessionsProofs`. `ChainLine` is what makes the compare-and-set of `rotate`
sufficient, for any number of racing requests, any windows, losses and replays.
It is not inductive: a rotation stores a session for a token a request has been
holding since an earlier step, so `SessionInv` adds `TokensStored`: every token
in the cookie or in a request is that of a stored session, and so is the root of
every session. A new session then cannot be the successor or the root of an old
one, and `Rotatable` makes the rotated session the one end its chain had.
`TypeCorrect` follows from the same invariant.

`AloneStaysClosed` and `AloneStays` are about a browser with one request at a
time, and hold in `AloneInv`. Its core is that rotations of a chain lie at least
`Threshold` apart (`RotationsApart`), and `Threshold` exceeds `Grace`: so the
successor that a request inside the grace window is given cannot have been
rotated itself, and is the live end. The live end is where a closing shows
(`ClosedIsRevoked`: the rows that `revoke_chain` reaches from any token include
it, `DescendantsAreChain`: the youngest of them has no successor) and
where the last use shows (`UsedOnEnd`: its chain was last used less than a
`Threshold` after it was created, which gives `Idle - Threshold`). `Acting` says
what the request in progress may still assume at each of its calls. Both
invariants are false with two requests, which `sessions_logout` and
`sessions_siblings` show.

`AccessProofs`. `RevokedInTime` rests on `Entries` and `EntriesEnd` (an entry ends
at most a TTL from now, and an entry of a key revoked outside a lookup at most a
TTL after its revocation) and on `NoneFound`: no request is between lookup and
insertion with such a key, and a lookup finds none again.

`CountsCharges` is proved with `CountInv`: a request's reservation names a bucket
and the generation it was made in, generations only grow, and a bucket's count is
the number of reservations with its present generation plus failures that stay
charged. So a bucket that is made anew is held by nobody who reserved before, and
a release after its bucket was evicted or its window ended finds nothing to give
back.

`OneRemains` needs what a role change knows between its statements: `LockHeld`
(whoever is inside holds the advisory lock alone) and `CountHolds` (whoever has
counted and is about to write a demotion still has another administrator, unless
a command has demoted one).

`KeysInTime` follows a session of the hooks through its git calls: a checkout that
cached its key since the last change still has the right one, and a session of
such a checkout asks git about that checkout (`InProgressSession`); each call adds
to the time spent at most what is left of the budget.

`VersionsLine` and `AnswersTrue`, of the saves of skills, are proved together from
`SkillsInv`: lines of versions, and for each call what it remembers of the rows
it began with (`CallHolds`) and what it has told (`Told`), which no later call
changes because rows are never reused.

### The process

`RuntimeProofs` has a section for each component.

- `LossIsObservable`: counts move from the buffer to a batch in hand, and from
  there to the table, to `lost` or back, so their sum with what is stored is what
  was served (`UsageInv`: besides types, that only a task that writes has counts in
  hand, and of finitely many keys).
- `NoneForgotten`, `EngineLast`: `Ledger` says of each queue what the loop owes:
  everything recorded and not written or dropped is waiting or in hand, only a
  worker that is flushing has something in hand, and the queue is within its
  limit. `Shutdown` says of each phase which workers have ended and what has been
  closed.
- `RequestsIntact`: at each place of the middleware what has been received is a
  beginning of what was sent, cut off or not, nothing of it has been replayed
  before the application asks, and the address found is the nearest one outside
  the trusted proxies (`BodyInv`). `DisconnectsAreHeard` and `OneRecordEach` add
  what has been answered (`AnswerInv`).
- `ProbesAreTold`: `NoneRunning`, `AllEnded` and `Faithful` follow a readiness
  request through its phases.
- `ActivityIsWhole`: the labels of listed projects are distinct, so the counts
  under them are of disjoint sets of events whose sizes add up to the total.
- `ProcessIsSafe`: all this holds of `Runtime`, which runs them beside each other.

`KnowledgeProofs`:

- `OutcomesAreTrue` from `BatchInv`: each item is to do, deferred or has one
  outcome (`OneOutcome`); the contents stored so far in this call and in the open
  transaction are those answered "created", once each (`CreatedOnce`); and an item
  is deferred only for want of a vector, which every stored text has, so what is
  deferred repeats nothing that was stored.
- `NothingLeft` from `ReembedInv`: a row that was stale when the run began and is
  so still is counted as failed, in the page, or behind it (`Unmet`). It needs
  that a page of the smallest ids leaves no smaller one behind, and that no
  writer makes a row stale.
- `ReadsSpared`: the cache is the set of the last distinct texts used (`IsEnd`,
  which the order of answers does not change), and the failure window is that of
  the last answer (`WindowInv`).
- `ListCovered`: pages (`PagesInv`: while no row left the list, each row of the
  first page's list that has not been seen has at least `offset` newer ones) and
  advice (`AdviceInv`: a write that misses a similar one ran beside it; of two
  merges each asks before it commits, so one of them sees the other).
- `PartsKeep`: all this, with what follows about retrieval, holds of `Knowledge`.

### Data and retrieval

`DataProofs` makes folds, sums and sorted lists usable, although the induction
theorems of the library cannot be instantiated here. Its lemmas take a smallest
counterexample instead: were there a subset on which two solutions of the
recursion of `SumFunctionOnSet` differ, one of the smallest (`SmallestSubset`)
would have a subset on which they differ too. From existence and uniqueness of
the solution come the rules the other proofs cite: `SumRemove`, `SumAdd`,
`SumSame`, `SumChange`, `SumLeq`. A fold over a sequence passes through one value
per element (`FoldExists`, `Trace`), so a property of a fold is proved like an
invariant, over its values. A list in a strict order (`ListOf`) is what the pools,
legs and rankings are: sorting, filtering, joining and cutting it give a list in
an order made of the first.

`RetrievalProofs`:

- `MatchesSound` from `MatchingInv`: each leg that has been read is a list of skills
  that were active since the call began. Fusion gives each skill the sum of its
  shares, so where no leg puts t before s and one puts s before t the sum of s is
  greater.
- `OnlyVisible` from `ReadsInv`: what each statement returned is visible in the
  union of what has been active since the call began, and a profile row of the
  current generation shows only what is active (`RowInv`), since every write moves
  the generation. The generation may move after it has been compared; the row is
  then still of an instant of the call.
- `RecallsServe`: packing is a fold whose values are the prefixes that fit
  (`PackedIs`); two candidates of equal importance get the same competition vote, so
  their scores differ by the legs.
- `ContextsServe`: what the snapshot keeps is a prefix of the packing order, clipped at
  most at its end, so what is passed over goes after all it has, or is in no pool.
  The latter is where the window matters: a pool holds the first of each
  category, more of them than the snapshot can have items, so a memory beyond the
  window is behind that many of its own category, one of which is passed over
  too. The proof needs a window of one more than the items asked for; the code's
  is wider, by what the profile may take. The caps add up because the profile's
  use is subtracted from every budget before the snapshot is packed
  (`Remaining`), and the gaps count because pools and profile are disjoint.
- `GraphsTell` from `GraphInv`, which has two parts: `Lasting` says of what a call
  has read what stays true whatever others do (the degree of no memory exceeds
  the cap, the clusters are the components of the pairs), `Still` what is also true as
  long as nobody has done anything (the pairs are those that qualify). The cap
  keeps every edge that is not crowded out by edges as strong (`CapIs`), and the
  second application leaves a capped list as it is (`CapOfCapped`). The total of
  the scalable path is half the sum of the degrees: each pair is counted from
  both ends (`Handshake`). For the clusters, `Forest` says what union-find
  maintains: parents lead to roots, and a rank, which is no part of the code,
  rises on the way. Halving keeps roots and ranks and leaves fewer nodes above,
  so as many steps as there are memories reach the root (`FoundIs`); after the
  pairs so far, two memories have one root exactly when no set that contains one
  and not the other is left uncut (`Joins`).
- `KnowledgeProofs` carries these invariants through the composition (`PartsKeep`).

Only model-checked: liveness (`RuntimeMovesOn`, `KnowledgeEnds`), which is outside this
prover's reach, and the counterexamples of section 3.

## 5. Not modelled

- `mcp/`, `web/self_service.py`, `web/openapi_responses.py`: declarations that
  forward to the services above and word their answers; no state or order of
  their own.
- `config.py`, `memory/schemas.py`, `memory/limits.py`, `boundary_types.py`:
  validation of values; the limits are the CONSTANTS.
- `memory/language.py`, the ranking inside PostgreSQL and pgvector: heuristics and
  external code; their results are inputs.
- `auth/passwords.py`, key generation: cryptography.
- `migrations/`, `bootstrap.py`, `diagnostics.py`, logging: run once, with the
  service stopped, or only describe.
- `evaluation.py`, `workflow_evaluation.py`, most of `cli.py`: offline benchmarks
  and rendering over the same services.
- `plugins/`: the digest exchange, the prompts and `recallum_doctor.py` are
  requests and installers without shared state; only the project key is modelled.
- attach_anchors and skill listing: one statement each, which nothing modelled
  reads.

## 6. What is left

1. The trigram and text legs under kind and category filters in `Reads`.
2. Anchors and their statistics in `MemoryStore`.
