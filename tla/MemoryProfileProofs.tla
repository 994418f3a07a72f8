------------------------ MODULE MemoryProfileProofs ------------------------
(***************************************************************************)
(* Theorems about MemoryProfile, for every value of its constants: any     *)
(* number of readers, projects and calls, and of writers, except where a   *)
(* theorem says one.                                                       *)
(***************************************************************************)
EXTENDS MemoryProfile, MemoryStoreProofs, DataProofs

(***************************************************************************)
(* The corpus underneath: every step is a step of MemoryStore, or leaves   *)
(* it alone.                                                               *)
(***************************************************************************)
LEMMA StoreStep == [NextProfile]_vars => [Next]_storeVars
BY DEF NextProfile, vars, storeVars, profileVars, Write, PassTime, Schedule, Ask, ReadRow,
       ReadGeneration, Done, TakeBatch, StartRebuild, Rebuild, RebuildRead, RebuildList,
       RebuildUpsert, RebuildConflict, RebuildGivesUp, Rest, Next

LEMMA StoreTypes == SpecProfile => []TypeOK
<1>1. InitProfile => TypeOK
    BY InitTypeOK DEF InitProfile
<1>2. TypeOK /\ [NextProfile]_vars => TypeOK'
    BY StoreStep, NextKeepsTypes
<1> QED BY <1>1, <1>2, PTL DEF SpecProfile

(* Selection reads the rows and nothing else that changes.                 *)
LEMMA SelectionFollowsRows ==
    ASSUME rows' = rows
    PROVE  \A k, t : TopStatic(k, t)' = TopStatic(k, t)
BY DEF TopStatic, Candidates, Before, Undeleted, Visible, Unexpired

(***************************************************************************)
(* The invariant.  A materialized row, stored or on its way, is from no    *)
(* later than the current generation, and if from that very generation, it *)
(* is what selection gives now.                                            *)
(***************************************************************************)
Faithful(k, row) ==
    /\ row.gen \in Nat /\ row.gen <= generation
    /\ row.built /\ row.gen = generation => row.items = TopStatic(k, row.at)

(* A task began after its read's "since", and holds a faithful row when it *)
(* upserts.                                                                *)
Sound(s) ==
    /\ s.pc = "idle" \/ (s.since \in Nat /\ s.since <= generation)
    /\ s.pc = "list" => s.gen \in Nat /\ s.gen <= generation
    /\ s.pc = "upsert" => Faithful(s.key, s.row)
    /\ s.pc = "served" => s.gen \in Nat /\ s.since <= s.gen

ProfileInv ==
    /\ profile = [k \in Keys |-> profile[k]]
    /\ proc = [p \in Tasks |-> proc[p]]
    /\ \A k \in Keys : Faithful(k, profile[k])
    /\ \A p \in Tasks : Sound(proc[p])

(* Whatever a writer does, what was faithful stays faithful: a changed     *)
(* corpus has a later generation.                                          *)
LEMMA WritersKeepFaith ==
    ASSUME TypeOK, TypeOK', [Next]_storeVars, NEW k, NEW row, Faithful(k, row)
    PROVE  Faithful(k, row)'
<1>1. generation \in Nat /\ generation' \in Nat
    BY DEF TypeOK
<1>2. CASE Writing
    BY <1>1, <1>2 DEF Writing, Faithful
<1>3. CASE Keeping
    <2>1. TopStatic(k, row.at)' = TopStatic(k, row.at)
        BY <1>3, SelectionFollowsRows DEF Keeping
    <2> QED BY <1>1, <1>3, <2>1 DEF Keeping, Faithful
<1> QED BY <1>2, <1>3, StepWritesOrKeeps

LEMMA InitProfileInv == InitProfile => ProfileInv
BY DEF InitProfile, Init, ProfileInv, NoProfile, Faithful, Sound

LEMMA WritesKeepInv ==
    ASSUME TypeOK, TypeOK', [Next]_storeVars, ProfileInv, UNCHANGED <<profile, proc>>
    PROVE  ProfileInv'
<1>0. generation \in Nat /\ generation' \in Nat /\ generation' >= generation
    BY StepWritesOrKeeps DEF TypeOK, Writing, Keeping
<1>1. \A k, row : Faithful(k, row) => Faithful(k, row)'
    BY WritersKeepFaith
<1>2. \A k \in Keys : Faithful(k, profile[k])'
    BY <1>1 DEF ProfileInv, Faithful
<1>3. \A s : Sound(s) => Sound(s)'
    <2> SUFFICES ASSUME NEW s, Sound(s) PROVE Sound(s)'
        OBVIOUS
    <2>1. s.pc = "idle" \/ (s.since \in Nat /\ s.since <= generation')
        BY <1>0 DEF Sound
    <2>2. s.pc = "list" => s.gen \in Nat /\ s.gen <= generation'
        BY <1>0 DEF Sound
    <2>3. s.pc = "upsert" => Faithful(s.key, s.row)'
        BY <1>1 DEF Sound
    <2>4. s.pc = "served" => s.gen \in Nat /\ s.since <= s.gen
        BY DEF Sound
    <2> QED BY <2>1, <2>2, <2>3, <2>4 DEF Sound
<1>4. \A p \in Tasks : Sound(proc[p])'
    BY <1>3 DEF ProfileInv, Sound, Faithful
<1>5. profile' = [k \in Keys |-> profile'[k]] /\ proc' = [p \in Tasks |-> proc'[p]]
    BY DEF ProfileInv
<1> QED BY <1>2, <1>4, <1>5 DEF ProfileInv

(* A step of one task that leaves corpus and profiles alone.               *)
LEMMA TaskKeepsInv ==
    ASSUME ProfileInv, UNCHANGED <<storeVars, profile>>, NEW p \in Tasks,
           NEW s, Sound(s), Go(p, s)
    PROVE  ProfileInv'
<1>0. rows' = rows /\ generation' = generation
    BY DEF storeVars
<1>1. \A k, row : Faithful(k, row) => Faithful(k, row)'
    BY <1>0, SelectionFollowsRows DEF Faithful
<1>2. \A k \in Keys : Faithful(k, profile[k])'
    BY <1>1 DEF ProfileInv, Faithful
<1>3. \A x : Sound(x) => Sound(x)'
    BY <1>0, <1>1 DEF Sound
<1>4. proc' = [proc EXCEPT ![p] = s]
    BY DEF Go
<1>5. \A q \in Tasks : proc'[q] = IF q = p THEN s ELSE proc[q]
    BY <1>4 DEF ProfileInv
<1>6. \A q \in Tasks : Sound(proc[q])'
    BY <1>3, <1>5 DEF ProfileInv, Sound, Faithful
<1>7. profile' = [k \in Keys |-> profile'[k]] /\ proc' = [q \in Tasks |-> proc'[q]]
    BY <1>4 DEF ProfileInv
<1> QED BY <1>2, <1>6, <1>7 DEF ProfileInv

LEMMA ReadersKeepInv ==
    ASSUME TypeOK, ProfileInv, NEW r \in Readers,
           (\E k \in Keys : Ask(r, k)) \/ ReadRow(r) \/ ReadGeneration(r) \/ Done(r)
    PROVE  ProfileInv'
<1>0. generation \in Nat /\ r \in Tasks /\ Sound(proc[r])
    BY DEF TypeOK, Tasks, ProfileInv
<1>1. ASSUME NEW k \in Keys, Ask(r, k) PROVE ProfileInv'
    <2> DEFINE s == [pc |-> "row", key |-> k, since |-> generation, asked |-> now]
    <2>1. Sound(s)
        BY <1>0 DEF Sound
    <2>2. Go(r, s) /\ UNCHANGED <<storeVars, profile>>
        BY <1>1 DEF Ask
    <2> HIDE DEF s
    <2> QED BY <1>0, <2>1, <2>2, TaskKeepsInv
<1>2. CASE ReadRow(r)
    <2> DEFINE s == [pc |-> "generation", key |-> proc[r].key, since |-> proc[r].since,
                     asked |-> proc[r].asked, row |-> profile[proc[r].key]]
    <2>1. Sound(s)
        BY <1>0, <1>2 DEF Sound, ReadRow, On
    <2>2. Go(r, s) /\ UNCHANGED <<storeVars, profile>>
        BY <1>2 DEF ReadRow
    <2> HIDE DEF s
    <2> QED BY <1>0, <2>1, <2>2, TaskKeepsInv
<1>3. CASE ReadGeneration(r)
    <2>0. proc[r].since \in Nat /\ proc[r].since <= generation
        BY <1>0, <1>3 DEF Sound, ReadGeneration, On
    <2>1. CASE Current(proc[r].row)
        <3> DEFINE s == [pc |-> "served", since |-> proc[r].since, asked |-> proc[r].asked,
                         gen |-> proc[r].row.gen, items |-> proc[r].row.items]
        <3>1. Sound(s)
            BY <1>0, <2>0, <2>1 DEF Sound, Current
        <3>2. Go(r, s) /\ UNCHANGED <<storeVars, profile>>
            BY <1>3, <2>1 DEF ReadGeneration, Serve
        <3> HIDE DEF s
        <3> QED BY <1>0, <3>1, <3>2, TaskKeepsInv
    <2>2. CASE ~Current(proc[r].row)
        <3> DEFINE s == [pc |-> "rebuild", key |-> proc[r].key, since |-> proc[r].since,
                         asked |-> proc[r].asked, attempt |-> 1]
        <3>1. Sound(s)
            BY <2>0 DEF Sound
        <3>2. Go(r, s) /\ UNCHANGED <<storeVars, profile>>
            BY <1>3, <2>2 DEF ReadGeneration
        <3> HIDE DEF s
        <3> QED BY <1>0, <3>1, <3>2, TaskKeepsInv
    <2> QED BY <2>1, <2>2
<1>4. CASE Done(r)
    <2>1. Sound([pc |-> "idle"])
        BY DEF Sound
    <2> QED BY <1>0, <1>4, <2>1, TaskKeepsInv DEF Done
<1> QED BY <1>1, <1>2, <1>3, <1>4

LEMMA RebuildKeepsInv ==
    ASSUME TypeOK, ProfileInv, NEW p \in Tasks, Rebuild(p)
    PROVE  ProfileInv'
<1>0. generation \in Nat /\ Sound(proc[p])
    BY DEF TypeOK, ProfileInv
<1> DEFINE s == proc[p]
<1>1. CASE RebuildRead(p)
    <2> DEFINE n == [pc |-> "list", key |-> s.key, since |-> s.since, asked |-> s.asked,
                     attempt |-> s.attempt, at |-> now, gen |-> generation]
    <2>1. Sound(n)
        BY <1>0, <1>1 DEF Sound, RebuildRead, On
    <2>2. Go(p, n) /\ UNCHANGED <<storeVars, profile>>
        BY <1>1 DEF RebuildRead
    <2> HIDE DEF n
    <2> QED BY <2>1, <2>2, TaskKeepsInv
<1>2. CASE RebuildList(p)
    <2> DEFINE row == [built |-> TRUE, gen |-> s.gen, at |-> s.at,
                       items |-> TopStatic(s.key, s.at)]
               n == [pc |-> "upsert", key |-> s.key, since |-> s.since, asked |-> s.asked,
                     attempt |-> s.attempt, row |-> row]
    <2>1. Faithful(s.key, row)
        BY <1>0, <1>2 DEF Sound, RebuildList, On, Faithful
    <2>2. Go(p, n) /\ UNCHANGED <<storeVars, profile>>
        BY <1>2 DEF RebuildList
    <2> HIDE DEF row
    <2>3. Sound(n)
        BY <1>0, <1>2, <2>1 DEF Sound, RebuildList, On
    <2> HIDE DEF n
    <2> QED BY <2>2, <2>3, TaskKeepsInv
<1>3. CASE RebuildUpsert(p)
    <2>0. /\ s.pc = "upsert" /\ s.row.gen = generation
          /\ s.since \in Nat /\ s.since <= generation /\ Faithful(s.key, s.row)
        BY <1>0, <1>3 DEF Sound, RebuildUpsert, On, Unmoved
    <2>1. /\ profile' = [profile EXCEPT ![s.key] = s.row]
          /\ rows' = rows /\ generation' = generation
        BY <1>3 DEF RebuildUpsert, storeVars
    <2>2. \A k, row : Faithful(k, row) => Faithful(k, row)'
        BY <2>1, SelectionFollowsRows DEF Faithful
    <2>3. \A k \in Keys : profile'[k] = IF k = s.key THEN s.row ELSE profile[k]
        BY <2>1 DEF ProfileInv
    <2>4. \A k \in Keys : Faithful(k, profile[k])'
        <3> SUFFICES ASSUME NEW k \in Keys PROVE Faithful(k, profile[k])'
            OBVIOUS
        <3>1. PICK row : row = profile'[k] /\ Faithful(k, row)
            BY <2>0, <2>3 DEF ProfileInv
        <3>2. Faithful(k, row)'
            BY <2>2, <3>1
        <3> QED BY <3>1, <3>2 DEF Faithful
    <2>5. PICK n : Go(p, n) /\ Sound(n)
        <3>1. Sound([pc |-> "idle"])
            BY DEF Sound
        <3>2. Sound([pc |-> "served", since |-> s.since, asked |-> s.asked,
                     gen |-> s.row.gen, items |-> s.row.items])
            BY <1>0, <2>0 DEF Sound
        <3>3. \/ Go(p, [pc |-> "idle"])
              \/ Go(p, [pc |-> "served", since |-> s.since, asked |-> s.asked,
                        gen |-> s.row.gen, items |-> s.row.items])
            BY <1>3 DEF RebuildUpsert, Serve
        <3> QED BY <3>1, <3>2, <3>3
    <2>6. \A x : Sound(x) => Sound(x)'
        BY <2>1, <2>2 DEF Sound
    <2>7. proc' = [proc EXCEPT ![p] = n]
        BY <2>5 DEF Go
    <2>8. \A q \in Tasks : proc'[q] = IF q = p THEN n ELSE proc[q]
        BY <2>7 DEF ProfileInv
    <2>9. \A q \in Tasks : Sound(proc[q])'
        BY <2>5, <2>6, <2>8 DEF ProfileInv, Sound, Faithful
    <2>10. profile' = [k \in Keys |-> profile'[k]] /\ proc' = [q \in Tasks |-> proc'[q]]
        BY <2>1, <2>7 DEF ProfileInv
    <2> QED BY <2>4, <2>9, <2>10 DEF ProfileInv
<1>4. CASE RebuildConflict(p)
    <2> DEFINE n == [pc |-> "rebuild", key |-> s.key, since |-> s.since, asked |-> s.asked,
                     attempt |-> s.attempt + 1]
    <2>1. Sound(n)
        BY <1>0, <1>4 DEF Sound, RebuildConflict, On
    <2>2. Go(p, n) /\ UNCHANGED <<storeVars, profile>>
        BY <1>4 DEF RebuildConflict
    <2> HIDE DEF n
    <2> QED BY <2>1, <2>2, TaskKeepsInv
<1>5. CASE RebuildGivesUp(p)
    <2>1. Sound([pc |-> "idle"])
        BY DEF Sound
    <2> QED BY <1>5, <2>1, TaskKeepsInv DEF RebuildGivesUp
<1> QED BY <1>1, <1>2, <1>3, <1>4, <1>5 DEF Rebuild

LEMMA WorkerKeepsInv ==
    ASSUME TypeOK, ProfileInv, StartRebuild
    PROVE  ProfileInv'
<1> DEFINE n == [pc |-> "rebuild", key |-> Head(batch), since |-> 0, asked |-> 0,
                 attempt |-> 1]
<1>1. Sound(n)
    BY DEF Sound, TypeOK
<1>2. Go(Worker, n) /\ UNCHANGED <<storeVars, profile>> /\ Worker \in Tasks
    BY DEF StartRebuild, Tasks
<1> HIDE DEF n
<1> QED BY <1>1, <1>2, TaskKeepsInv

LEMMA NextKeepsInv == TypeOK /\ TypeOK' /\ ProfileInv /\ [NextProfile]_vars => ProfileInv'
<1> SUFFICES ASSUME TypeOK, TypeOK', ProfileInv, [NextProfile]_vars PROVE ProfileInv'
    OBVIOUS
<1>0. [Next]_storeVars
    BY StoreStep
<1>1. CASE \/ \E c \in Clients : Write(c) \/ Schedule(c)
           \/ PassTime \/ TakeBatch \/ Rest \/ UNCHANGED vars
    <2>1. UNCHANGED <<profile, proc>>
        BY <1>1 DEF Write, Schedule, PassTime, TakeBatch, Rest, vars, profileVars
    <2> QED BY <1>0, <2>1, WritesKeepInv
<1>2. ASSUME NEW r \in Readers,
             (\E k \in Keys : Ask(r, k)) \/ ReadRow(r) \/ ReadGeneration(r) \/ Done(r)
      PROVE  ProfileInv'
    BY <1>2, ReadersKeepInv
<1>3. ASSUME NEW p \in Tasks, Rebuild(p) PROVE ProfileInv'
    BY <1>3, RebuildKeepsInv
<1>4. CASE StartRebuild
    BY <1>4, WorkerKeepsInv
<1> QED BY <1>1, <1>2, <1>3, <1>4 DEF NextProfile

LEMMA ProfileInvariant == SpecProfile => []ProfileInv
BY InitProfileInv, NextKeepsInv, StoreTypes, PTL DEF SpecProfile

(***************************************************************************)
(* The theorems.                                                           *)
(***************************************************************************)

(* A stored profile of the current generation is what selection gives now, *)
(* however writers, readers' rebuilds and the worker interleave: the       *)
(* compare-and-set of upsert_profile on the user's generation suffices.    *)
THEOREM StaticCurrent == SpecProfile => []StoredStaticCurrent
<1>1. ProfileInv => StoredStaticCurrent
    BY DEF ProfileInv, Faithful, StoredStaticCurrent
<1> QED BY <1>1, ProfileInvariant, PTL

(* No read is answered from before a write that had committed when the     *)
(* read began (_ensure_profile and the same check in context).             *)
THEOREM ReadsAreFresh == SpecProfile => []FreshRead
<1>1. ProfileInv => FreshRead
    <2> SUFFICES ASSUME ProfileInv, NEW r \in Readers, On(r, "served")
                 PROVE  proc[r].gen >= proc[r].since
        BY DEF FreshRead
    <2>1. r \in Tasks /\ Sound(proc[r])
        BY DEF ProfileInv, Tasks
    <2> QED BY <2>1 DEF Sound, On
<1> QED BY <1>1, ProfileInvariant, PTL

(***************************************************************************)
(* The refinement.                                                         *)
(***************************************************************************)
Shown == [r \in Readers |-> View(proc[r])]

LEMMA ShownStep ==
    ASSUME ProfileInv, NEW r \in Readers, NEW s, Go(r, s)
    PROVE  Shown' = [Shown EXCEPT ![r] = View(s)]
<1>1. proc' = [proc EXCEPT ![r] = s] /\ r \in Tasks
    BY DEF Go, Tasks
<1>2. \A q \in Readers : q \in Tasks /\ proc'[q] = IF q = r THEN s ELSE proc[q]
    BY <1>1 DEF ProfileInv, Tasks
<1>3. \A q \in Readers : View(proc[q])' = IF q = r THEN View(s) ELSE View(proc[q])
    BY <1>2 DEF View
<1> QED BY <1>3 DEF Shown

(* What a reader shows in each state.                                      *)
LEMMA Views ==
    /\ View([pc |-> "idle"]) = [st |-> "idle"]
    /\ \A s : s.pc = "served" => View(s) = [st |-> "answered", version |-> s.gen]
    /\ \A s : s.pc \in {"row", "generation", "rebuild", "list", "upsert"} =>
              View(s) = [st |-> "asked"]
BY DEF View

(* A reader whose read is in progress answers with the current version,    *)
(* keeps asking, or gives up; the others are not touched.                  *)
LEMMA AskedStep ==
    ASSUME ProfileInv, NEW r \in Readers, NEW s, Go(r, s), UNCHANGED storeVars,
           proc[r].pc \in {"row", "generation", "rebuild", "list", "upsert"},
           \/ s = [pc |-> "idle"]
           \/ s.pc = "served" /\ s.gen = generation
           \/ s.pc \in {"row", "generation", "rebuild", "list", "upsert"}
    PROVE  [Abstract!Next]_<<generation, Shown>>
<1>1. Shown' = [Shown EXCEPT ![r] = View(s)] /\ generation' = generation
    BY ShownStep DEF storeVars
<1>2. Shown[r] = [st |-> "asked"]
    BY Views DEF Shown
<1>3. CASE s = [pc |-> "idle"]
    <2>1. Shown' = [Shown EXCEPT ![r] = [st |-> "idle"]]
        BY <1>1, <1>3, Views
    <2>2. Shown[r].st = "asked"
        BY <1>2
    <2>3. Abstract!Unavailable(r)
        BY <1>1, <2>1, <2>2 DEF Abstract!Unavailable, Shown
    <2> QED BY <2>3 DEF Abstract!Next
<1>4. CASE s.pc = "served" /\ s.gen = generation
    <2>1. Shown' = [Shown EXCEPT ![r] = [st |-> "answered", version |-> generation]]
        BY <1>1, <1>4, Views
    <2>2. Shown[r].st = "asked"
        BY <1>2
    <2>3. Abstract!Answer(r)
        BY <1>1, <2>1, <2>2 DEF Abstract!Answer, Shown
    <2> QED BY <2>3 DEF Abstract!Next
<1>5. CASE s.pc \in {"row", "generation", "rebuild", "list", "upsert"}
    <2>1. View(s) = [st |-> "asked"]
        BY <1>5, Views
    <2>2. Shown' = Shown
        BY <1>1, <1>2, <2>1 DEF Shown
    <2> QED BY <1>1, <2>2
<1> QED BY <1>3, <1>4, <1>5

LEMMA CorpusStepRefines ==
    ASSUME TypeOK, TypeOK', [Next]_storeVars, UNCHANGED Shown
    PROVE  [Abstract!Next]_<<generation, Shown>>
<1>1. generation \in Nat /\ generation' \in Nat /\ generation' >= generation
    BY StepWritesOrKeeps DEF TypeOK, Writing, Keeping
<1>2. CASE generation' = generation
    BY <1>2
<1>3. CASE generation' # generation
    <2>1. Abstract!Write
        BY <1>1, <1>3 DEF Abstract!Write, Shown
    <2> QED BY <2>1 DEF Abstract!Next
<1> QED BY <1>2, <1>3

LEMMA ReaderRefines ==
    ASSUME TypeOK, ProfileInv, NEW r \in Readers,
           \/ (\E k \in Keys : Ask(r, k)) \/ ReadRow(r) \/ ReadGeneration(r) \/ Done(r)
           \/ Rebuild(r)
    PROVE  [Abstract!Next]_<<generation, Shown>>
<1>0. r # Worker
    BY WorkerAssumption
<1>1. ASSUME NEW k \in Keys, Ask(r, k) PROVE Abstract!Ask(r)
    <2> DEFINE s == [pc |-> "row", key |-> k, since |-> generation, asked |-> now]
    <2>1. Go(r, s) /\ proc[r].pc = "idle" /\ generation' = generation
        BY <1>1 DEF Ask, On, storeVars
    <2>2. View(s) = [st |-> "asked"]
        BY Views
    <2> HIDE DEF s
    <2>3. Shown' = [Shown EXCEPT ![r] = [st |-> "asked"]]
        BY <2>1, <2>2, ShownStep
    <2>4. Shown[r].st = "idle"
        BY <2>1 DEF Shown, View
    <2> QED BY <2>1, <2>3, <2>4 DEF Abstract!Ask, Shown
<1>2. CASE Done(r)
    <2>1. Go(r, [pc |-> "idle"]) /\ proc[r].pc = "served" /\ generation' = generation
        BY <1>2 DEF Done, On, storeVars
    <2>2. Shown' = [Shown EXCEPT ![r] = [st |-> "idle"]]
        BY <2>1, ShownStep, Views
    <2>3. Shown[r].st = "answered"
        BY <2>1, Views DEF Shown
    <2>4. Abstract!Take(r)
        BY <2>1, <2>2, <2>3 DEF Abstract!Take, Shown
    <2> QED BY <2>4 DEF Abstract!Next
<1>3. CASE ReadRow(r)
    <2> DEFINE s == [pc |-> "generation", key |-> proc[r].key, since |-> proc[r].since,
                     asked |-> proc[r].asked, row |-> profile[proc[r].key]]
    <2>1. Go(r, s) /\ UNCHANGED storeVars /\ proc[r].pc = "row" /\ s.pc = "generation"
        BY <1>3 DEF ReadRow, On
    <2> HIDE DEF s
    <2> QED BY <2>1, AskedStep
<1>4. CASE ReadGeneration(r)
    <2>1. UNCHANGED storeVars /\ proc[r].pc = "generation"
        BY <1>4 DEF ReadGeneration, On
    <2>2. CASE Current(proc[r].row)
        <3> DEFINE s == [pc |-> "served", since |-> proc[r].since, asked |-> proc[r].asked,
                         gen |-> proc[r].row.gen, items |-> proc[r].row.items]
        <3>1. Go(r, s) /\ s.pc = "served" /\ s.gen = generation
            BY <1>4, <2>2 DEF ReadGeneration, Serve, Current
        <3> HIDE DEF s
        <3> QED BY <2>1, <3>1, AskedStep
    <2>3. CASE ~Current(proc[r].row)
        <3> DEFINE s == [pc |-> "rebuild", key |-> proc[r].key, since |-> proc[r].since,
                         asked |-> proc[r].asked, attempt |-> 1]
        <3>1. Go(r, s) /\ s.pc = "rebuild"
            BY <1>4, <2>3 DEF ReadGeneration
        <3> HIDE DEF s
        <3> QED BY <2>1, <3>1, AskedStep
    <2> QED BY <2>2, <2>3
<1>5. CASE Rebuild(r)
    <2>1. /\ UNCHANGED storeVars
          /\ proc[r].pc \in {"row", "generation", "rebuild", "list", "upsert"}
        BY <1>5 DEF Rebuild, RebuildRead, RebuildList, RebuildUpsert, RebuildConflict,
                    RebuildGivesUp, On
    <2>2. CASE RebuildRead(r)
        BY <2>1, <2>2, AskedStep DEF RebuildRead
    <2>3. CASE RebuildList(r)
        BY <2>1, <2>3, AskedStep DEF RebuildList
    <2>4. CASE RebuildUpsert(r)
        BY <1>0, <2>1, <2>4, AskedStep DEF RebuildUpsert, Serve, Unmoved
    <2>5. CASE RebuildConflict(r)
        BY <2>1, <2>5, AskedStep DEF RebuildConflict
    <2>6. CASE RebuildGivesUp(r)
        BY <2>1, <2>6, AskedStep DEF RebuildGivesUp
    <2> QED BY <1>5, <2>2, <2>3, <2>4, <2>5, <2>6 DEF Rebuild
<1> QED BY <1>1, <1>2, <1>3, <1>4, <1>5 DEF Abstract!Next

LEMMA WorkerHidden ==
    ASSUME ProfileInv, NEW s, Go(Worker, s)
    PROVE  UNCHANGED Shown
<1>1. \A r \in Readers : r \in Tasks /\ r # Worker
    BY WorkerAssumption DEF Tasks
<1>2. \A r \in Readers : proc'[r] = proc[r]
    BY <1>1 DEF ProfileInv, Go
<1> QED BY <1>2 DEF Shown, View

LEMMA NextRefines ==
    TypeOK /\ TypeOK' /\ ProfileInv /\ [NextProfile]_vars
        => [Abstract!Next]_<<generation, Shown>>
<1> SUFFICES ASSUME TypeOK, TypeOK', ProfileInv, [NextProfile]_vars
             PROVE  [Abstract!Next]_<<generation, Shown>>
    OBVIOUS
<1>0. [Next]_storeVars
    BY StoreStep
<1>1. CASE \/ \E c \in Clients : Write(c) \/ Schedule(c)
           \/ PassTime \/ TakeBatch \/ Rest \/ UNCHANGED vars
    <2>1. UNCHANGED proc
        BY <1>1 DEF Write, Schedule, PassTime, TakeBatch, Rest, vars, profileVars
    <2> QED BY <1>0, <2>1, CorpusStepRefines DEF Shown, View
<1>2. ASSUME NEW r \in Readers,
             \/ (\E k \in Keys : Ask(r, k)) \/ ReadRow(r) \/ ReadGeneration(r) \/ Done(r)
             \/ Rebuild(r)
      PROVE  [Abstract!Next]_<<generation, Shown>>
    BY <1>2, ReaderRefines
<1>3. CASE StartRebuild \/ Rebuild(Worker)
    <2>1. \E s : Go(Worker, s)
        BY <1>3 DEF StartRebuild, Rebuild, RebuildRead, RebuildList, RebuildUpsert,
                    RebuildConflict, RebuildGivesUp
    <2> QED BY <1>0, <2>1, WorkerHidden, CorpusStepRefines
<1> QED BY <1>1, <1>2, <1>3 DEF NextProfile, Tasks

(* The cache, the retries, the queue and the worker together implement     *)
(* FreshView: every answered read is the corpus version of one instant     *)
(* inside that read, and a read that cannot be is reported unavailable.    *)
THEOREM Refinement == SpecProfile => ServesFreshView
<1>1. InitProfile => Abstract!Init
    BY Views DEF InitProfile, Init, Abstract!Init, Tasks
<1>2. TypeOK /\ TypeOK' /\ ProfileInv /\ [NextProfile]_vars
          => [Abstract!Next]_(Abstract!viewVars)
    BY NextRefines DEF Shown, Abstract!viewVars
<1> QED BY <1>1, <1>2, StoreTypes, ProfileInvariant, PTL
        DEF SpecProfile, ServesFreshView, Abstract!Spec

(***************************************************************************)
(* The keys a write announces are enough, for a user with one request at a *)
(* time whose memories do not expire.  In the store: a call that has read  *)
(* what it will announce and has not written yet is still right about it.  *)
(***************************************************************************)
NothingExpires == \A i \in Undeleted : rows[i].exp = Never
Knows(s) ==
    /\ s.pc = "reaffirm" => rows[s.id].bucket = s.req.bucket
    /\ s.pc = "delete" => s.id \in Undeleted /\ s.keys = <<rows[s.id].bucket>>
    /\ s.pc \in {"select", "move"} => s.from \in Projects /\ s.to \in Projects
KnowsInv == NothingExpires /\ \A c \in Clients : Knows(tx[c])

(* No profile but those of the keys shows a row that changes.              *)
Hidden(k, r) == r.st # "active" \/ r.bucket \notin Visible(k)
Covered(keys) ==
    \A k \in Keys :
        \/ k \in ToSet(keys) \/ keys = <<Global>>
        \/ \A i \in Ids : rows'[i] = rows[i] \/ (Hidden(k, rows[i]) /\ Hidden(k, rows'[i]))

LEMMA SelectionKept ==
    ASSUME NEW k, NEW t,
           \A i \in Ids : rows'[i] = rows[i] \/ (Hidden(k, rows[i]) /\ Hidden(k, rows'[i]))
    PROVE  TopStatic(k, t)' = TopStatic(k, t)
<1> DEFINE C == Candidates(k, t)
<1>1. ASSUME NEW i \in C PROVE i \in Ids /\ rows'[i] = rows[i]
    BY DEF Candidates, Undeleted, Hidden
<1>2. ASSUME NEW i \in Candidates(k, t)' PROVE i \in Ids /\ rows'[i] = rows[i]
    BY DEF Candidates, Undeleted, Hidden, Visible
<1>3. Candidates(k, t)' = C
    BY <1>1, <1>2 DEF Candidates, Undeleted, Visible, Unexpired
<1>4. ASSUME NEW i \in C, NEW j \in C PROVE Before(j, i)' = Before(j, i)
    BY <1>1 DEF Before
<1> HIDE DEF C
<1>5. ASSUME NEW i \in C PROVE {j \in C : Before(j, i)'} = {j \in C : Before(j, i)}
    BY <1>4
<1> DEFINE T == {i \in C : Cardinality({j \in C : Before(j, i)}) < StaticLimit}
           U == {i \in C : Cardinality({j \in C : Before(j, i)'}) < StaticLimit}
           item(i) == [id |-> i, bucket |-> rows[i].bucket, prio |-> rows[i].prio]
           itemNext(i) == [id |-> i, bucket |-> rows'[i].bucket, prio |-> rows'[i].prio]
<1>6. T = U
    BY <1>5
<1>7. TopStatic(k, t) = {item(i) : i \in T}
    BY DEF TopStatic, C
<1>8. TopStatic(k, t)' = {itemNext(i) : i \in U}
    BY <1>3 DEF TopStatic
<1>9. ASSUME NEW i \in T PROVE item(i) = itemNext(i)
    BY <1>1
<1> HIDE DEF T, U, item, itemNext
<1> QED BY <1>6, <1>7, <1>8, <1>9

(* A write that touches one bucket announces it. *)
LEMMA OneBucketCovered ==
    ASSUME NEW b \in Buckets,
           \A i \in Ids : \/ rows'[i] = rows[i]
                          \/ /\ rows[i].st = "active" => rows[i].bucket = b
                             /\ rows'[i].st = "active" => rows'[i].bucket = b
    PROVE  Covered(<<b>>)
<1> SUFFICES ASSUME NEW k \in Keys, k \notin ToSet(<<b>>), <<b>> # <<Global>>
             PROVE  \A i \in Ids : \/ rows'[i] = rows[i]
                                   \/ Hidden(k, rows[i]) /\ Hidden(k, rows'[i])
    BY DEF Covered
<1>1. b # k /\ b # Global
    <2>1. DOMAIN <<b>> = 1..1 /\ <<b>>[1] = b
        OBVIOUS
    <2> QED BY <2>1 DEF ToSet
<1> QED BY <1>1 DEF Hidden, Visible

(* Without lifetimes a request asks for no expiry. *)
LEMMA NoLifetime ==
    ASSUME Ttls = {}
    PROVE  /\ \A ttl \in Optional(Ttls) : ttl = {}
           /\ \A t : Expiry(t, {}) = {}
BY DEF Optional, Expiry

(* An edit of one row. *)
LEMMA EditTold ==
    ASSUME TypeOK, NothingExpires, NEW i \in Undeleted, NEW new,
           new.bucket = rows[i].bucket, new.exp = Never, rows' = [rows EXCEPT ![i] = new]
    PROVE  NothingExpires' /\ Covered(<<rows[i].bucket>>)
<1>1. /\ i \in Ids /\ rows'[i] = new /\ rows[i].bucket \in Buckets
      /\ \A j \in Ids \ {i} : rows'[j] = rows[j]
    BY DEF TypeOK, Undeleted, Row
<1>2. NothingExpires'
    BY <1>1 DEF NothingExpires, Undeleted
<1>3. PICK b \in Buckets : b = rows[i].bucket
    BY <1>1
<1>4. \A j \in Ids : \/ rows'[j] = rows[j]
                     \/ /\ rows[j].st = "active" => rows[j].bucket = b
                        /\ rows'[j].st = "active" => rows'[j].bucket = b
    BY <1>1, <1>3
<1>5. Covered(<<b>>)
    BY <1>4, OneBucketCovered
<1> QED BY <1>2, <1>3, <1>5

(* One row in the place of others of its bucket. *)
LEMMA ReplacementTold ==
    ASSUME TypeOK, NothingExpires, NEW b \in Buckets, NEW S \in SUBSET Undeleted,
           \A j \in S : rows[j].bucket = b, NEW s, NEW i \in Free, NEW new,
           new.bucket = b, new.exp = Never, rows' = Replaced(S, s, i, new)
    PROVE  NothingExpires' /\ Covered(<<b>>)
<1>1. \A j \in Ids : /\ j = i => rows'[j] = new
                     /\ j # i /\ j \notin S => rows'[j] = rows[j]
                     /\ j # i /\ j \in S => rows'[j] = Retired(rows[j], s)
    BY DEF Replaced
<1>2. rows \in [Ids -> Row] /\ i \in Ids /\ rows[i].st = "free"
    BY DEF TypeOK, Free
<1>3. \A j \in Ids : Retired(rows[j], s).st = "retired"
    BY <1>2 DEF Retired, Row
<1>4. NothingExpires'
    <2> SUFFICES ASSUME NEW j \in Ids, rows'[j].st = "active" PROVE rows'[j].exp = Never
        BY DEF NothingExpires, Undeleted
    <2>1. j = i \/ j \notin S
        BY <1>1, <1>3
    <2> QED BY <1>1, <2>1 DEF NothingExpires, Undeleted
<1>5. ASSUME NEW j \in Ids
      PROVE  \/ rows'[j] = rows[j]
             \/ /\ rows[j].st = "active" => rows[j].bucket = b
                /\ rows'[j].st = "active" => rows'[j].bucket = b
    <2>1. CASE j = i
        BY <1>1, <1>2, <2>1
    <2>2. CASE j # i /\ j \in S
        BY <1>1, <1>3, <2>2
    <2>3. CASE j # i /\ j \notin S
        BY <1>1, <2>3
    <2> QED BY <2>1, <2>2, <2>3
<1>6. Covered(<<b>>)
    BY <1>5, OneBucketCovered
<1> QED BY <1>4, <1>6

(* What the only client does is all that is in progress.                   *)
LEMMA OnlyOneKnows ==
    ASSUME TypeOK, OneClient, NEW c \in Clients, NEW s, Enter(c, s), Knows(s)',
           NothingExpires'
    PROVE  KnowsInv'
<1>1. \A d \in Clients : tx'[d] = s
    BY DEF TypeOK, Enter, OneClient
<1>2. \A d \in Clients : Knows(tx[d])'
    BY <1>1 DEF Knows
<1> QED BY <1>2 DEF KnowsInv

(* A write of the store announces what it changed. *)
Told(c) == UNCHANGED rows \/ \E keys : Wrote(c, keys) /\ Covered(keys)

LEMMA ReadTells ==
    ASSUME TypeOK, OneClient, KnowsInv, NEW c \in Clients, NEW s, Enter(c, s),
           UNCHANGED rows, Knows(s)'
    PROVE  KnowsInv' /\ Told(c)
<1>1. NothingExpires'
    BY DEF KnowsInv, NothingExpires, Undeleted
<1> QED BY <1>1, OnlyOneKnows DEF Told

LEMMA WriteTells ==
    ASSUME TypeOK, OneClient, NEW c \in Clients, NEW keys, Wrote(c, keys),
           NothingExpires', Covered(keys)
    PROVE  KnowsInv' /\ Told(c)
<1>1. PICK s : s = [pc |-> "wrote", keys |-> keys]
    OBVIOUS
<1>2. Enter(c, s) /\ Knows(s)'
    BY <1>1 DEF Wrote, Knows
<1> QED BY <1>2, OnlyOneKnows DEF Told

LEMMA CallTells ==
    ASSUME TypeOK, OneClient, Ttls = {}, KnowsInv, NEW c \in Clients, Call(c)
    PROVE  KnowsInv' /\ Told(c) /\ At(c, "idle")
<1>0. rows \in [Ids -> Row] /\ now \in Nat /\ NothingExpires /\ At(c, "idle")
    BY DEF TypeOK, KnowsInv, Call, RememberCall, UpdateAttributes, Reconfirm, ForgetRead,
           Supersede, Merge, ReassignList, Begin
<1>1. ASSUME NEW b \in Buckets, NEW h \in Hashes, NEW p \in Prios,
             NEW k \in Optional(Kinds), NEW ttl \in Optional(Ttls),
             RememberCall(c, b, h, p, k, ttl)
      PROVE  KnowsInv' /\ Told(c)
    <2>1. PICK s : Enter(c, s) /\ s.pc = "find"
        BY <1>1 DEF RememberCall
    <2>2. Knows(s)' /\ UNCHANGED rows
        BY <1>1, <2>1 DEF RememberCall, Knows
    <2> QED BY <2>1, <2>2, ReadTells
<1>2. ASSUME NEW i \in Ids, NEW p \in Optional(Prios), NEW k \in Optional(Kinds),
             NEW ttl \in Optional(Ttls), NEW clear \in BOOLEAN,
             UpdateAttributes(c, i, p, k, ttl, clear)
      PROVE  KnowsInv' /\ Told(c)
    <2>0. ttl = {} /\ Expiry(now, ttl) = {}
        BY NoLifetime
    <2> DEFINE e == [prio |-> p, kind |-> k,
                     exp |-> IF clear THEN {Never} ELSE Expiry(now, ttl)]
    <2>1. /\ i \in Undeleted
          /\ rows' = [rows EXCEPT ![i] = Edited(rows[i], e)]
          /\ Wrote(c, <<rows[i].bucket>>)
        BY <1>2 DEF UpdateAttributes
    <2>2. e.exp = {} \/ e.exp = {Never}
        BY <2>0
    <2> HIDE DEF e
    <2>3. PICK new : new = Edited(rows[i], e)
        OBVIOUS
    <2>4. Or(e.exp, rows[i].exp) = Never
        BY <1>0, <2>1, <2>2 DEF Or, NothingExpires
    <2>5. new.bucket = rows[i].bucket /\ new.exp = Never
        BY <1>0, <2>3, <2>4 DEF Edited, Row
    <2>6. NothingExpires' /\ Covered(<<rows[i].bucket>>)
        BY <1>0, <2>1, <2>3, <2>5, EditTold
    <2> QED BY <2>1, <2>6, WriteTells
<1>3. ASSUME NEW i \in Ids, Reconfirm(c, i)
      PROVE  KnowsInv' /\ Told(c)
    <2>1. PICK new : new = [rows[i] EXCEPT !.seen = now]
        OBVIOUS
    <2>2. /\ i \in Undeleted /\ rows' = [rows EXCEPT ![i] = new]
          /\ Wrote(c, <<rows[i].bucket>>)
        BY <1>3, <2>1 DEF Reconfirm
    <2>3. new.bucket = rows[i].bucket /\ new.exp = Never
        BY <1>0, <2>1, <2>2 DEF Row, NothingExpires
    <2>4. NothingExpires' /\ Covered(<<rows[i].bucket>>)
        BY <1>0, <2>2, <2>3, EditTold
    <2> QED BY <2>2, <2>4, WriteTells
<1>4. ASSUME NEW i \in Ids, ForgetRead(c, i)
      PROVE  KnowsInv' /\ Told(c)
    <2>1. i \in Undeleted /\ UNCHANGED rows
        BY <1>4 DEF ForgetRead
    <2>2. Unexpired(rows[i], now)
        BY <1>0, <2>1 DEF Unexpired, NothingExpires
    <2>3. PICK s : s = [pc |-> "delete", id |-> i, keys |-> <<rows[i].bucket>>]
        OBVIOUS
    <2>4. Enter(c, s)
        BY <1>4, <2>2, <2>3 DEF ForgetRead
    <2>5. Knows(s)'
        BY <2>1, <2>3 DEF Knows, Undeleted
    <2> QED BY <2>1, <2>4, <2>5, ReadTells
<1>5. ASSUME NEW i \in Ids, NEW h \in Hashes, NEW p \in Optional(Prios),
             NEW k \in Optional(Kinds), Supersede(c, i, h, p, k)
      PROVE  KnowsInv' /\ Told(c)
    <2>1. PICK b \in Buckets : b = rows[i].bucket
        BY <1>0 DEF Row
    <2>2. PICK new : new = NewRow(b, h, Or(p, rows[i].prio), Or(k, rows[i].kind), Never, now)
        OBVIOUS
    <2>3. PICK j \in Ids : Fresh(j) /\ rows' = Replaced({i}, j, j, new)
        BY <1>5, <2>1, <2>2 DEF Supersede
    <2>4. new.bucket = b /\ new.exp = Never
        BY <2>2 DEF NewRow
    <2>5. j \in Free /\ {i} \in SUBSET Undeleted /\ Wrote(c, <<b>>)
        BY <1>5, <2>1, <2>3 DEF Supersede, Replaceable, Fresh
    <2>6. NothingExpires' /\ Covered(<<b>>)
        BY <1>0, <2>1, <2>3, <2>4, <2>5, ReplacementTold
    <2> QED BY <2>5, <2>6, WriteTells
<1>6. ASSUME NEW S \in SUBSET Ids, NEW b \in Buckets, NEW h \in Hashes, NEW p \in Prios,
             Merge(c, S, b, h, p)
      PROVE  KnowsInv' /\ Told(c)
    <2>1. PICK new : new = NewRow(b, h, p, NoKind, Never, now)
        OBVIOUS
    <2>2. PICK j \in Ids : Fresh(j) /\ rows' = Replaced(S, j, j, new)
        BY <1>6, <2>1 DEF Merge, MergeMemories
    <2>3. new.bucket = b /\ new.exp = Never
        BY <2>1 DEF NewRow
    <2>4. /\ j \in Free /\ S \in SUBSET Undeleted /\ Wrote(c, <<b>>)
          /\ \A i \in S : rows[i].bucket = b
        BY <1>6, <2>2 DEF Merge, MergeMemories, Fresh
    <2>5. NothingExpires' /\ Covered(<<b>>)
        BY <1>0, <2>2, <2>3, <2>4, ReplacementTold
    <2> QED BY <2>4, <2>5, WriteTells
<1>7. ASSUME NEW from \in Projects, NEW to \in Projects, ReassignList(c, from, to)
      PROVE  KnowsInv' /\ Told(c)
    <2>1. PICK s : s = [pc |-> "select", from |-> from, to |-> to,
                        conflicts |-> Conflicting(from, to)]
        OBVIOUS
    <2>2. Enter(c, s) /\ UNCHANGED rows /\ Knows(s)'
        BY <1>7, <2>1 DEF ReassignList, Knows
    <2> QED BY <2>2, ReadTells
<1> QED BY <1>0, <1>1, <1>2, <1>3, <1>4, <1>5, <1>6, <1>7 DEF Call

LEMMA ContinueTells ==
    ASSUME TypeOK, OneClient, Ttls = {}, SerialInv, KnowsInv, NEW c \in Clients, Continue(c)
    PROVE  KnowsInv' /\ Told(c) /\ ~At(c, "wrote")
<1>0. /\ rows \in [Ids -> Row] /\ now \in Nat /\ NothingExpires
      /\ tx[c] \in Calling /\ Knows(tx[c]) /\ ReliesOn(tx[c])
    BY DEF TypeOK, KnowsInv, SerialInv
<1>a. ~At(c, "wrote")
    BY DEF Continue, RememberHit, RememberRefused, EmbedOutsideSession, RememberMiss,
           RememberReaffirm, ReaffirmRefused, ReaffirmRetired, RememberCreate,
           RememberCollides, ForgetDelete, ReassignSelect, ReassignMove, ReassignCollides,
           Raise, At
<1> SUFFICES KnowsInv' /\ Told(c)
    BY <1>a
<1> DEFINE t == tx[c]
<1>1. CASE RememberHit(c)
    <2>1. PICK i \in Found(t.req) :
             Enter(c, [pc |-> "reaffirm", req |-> t.req, at |-> now, id |-> i,
                       copy |-> rows[i]])
        BY <1>1 DEF RememberHit
    <2>2. PICK s : s = [pc |-> "reaffirm", req |-> t.req, at |-> now, id |-> i,
                        copy |-> rows[i]]
        OBVIOUS
    <2>3. rows[i].bucket = t.req.bucket
        BY DEF Found, ActiveByHash, Holders
    <2>4. UNCHANGED rows
        BY <1>1 DEF RememberHit
    <2>5. Knows(s)'
        BY <2>2, <2>3, <2>4 DEF Knows
    <2> QED BY <2>1, <2>2, <2>4, <2>5, ReadTells
<1>2. CASE RememberMiss(c) \/ EmbedOutsideSession(c) \/ RememberRefused(c)
           \/ ReaffirmRefused(c) \/ RememberCollides(c) \/ ReassignCollides(c) \/ Raise(c)
    <2>1. PICK s : Enter(c, s) /\ s.pc \in {"create", "find", "idle", "raised"}
        BY <1>2 DEF RememberMiss, EmbedOutsideSession, RememberRefused, ReaffirmRefused,
                    RememberCollides, ReassignCollides, Raise, Leave
    <2>2. UNCHANGED rows
        BY <1>2 DEF RememberMiss, EmbedOutsideSession, RememberRefused, ReaffirmRefused,
                    RememberCollides, ReassignCollides, Raise
    <2>3. Knows(s)'
        BY <2>1 DEF Knows
    <2> QED BY <2>1, <2>2, <2>3, ReadTells
<1>3. CASE ReaffirmRetired(c)
    <2>1. PICK s : Enter(c, s) /\ s.pc = "wrote"
        BY <1>3 DEF ReaffirmRetired, Wrote
    <2>2. UNCHANGED rows /\ Knows(s)'
        BY <1>3, <2>1 DEF ReaffirmRetired, Knows
    <2> QED BY <2>1, <2>2, ReadTells
<1>4. CASE RememberReaffirm(c)
    <2> DEFINE e == Reassertion(t.req, t.copy, t.at)
    <2>1. /\ t.req \in Request /\ t.at \in Nat /\ t.id \in Undeleted
          /\ rows[t.id].bucket = t.req.bucket
        BY <1>0, <1>4, CallingFields DEF RememberReaffirm, At, Knows
    <2>2. e.exp = {}
        <3>1. t.req.ttl = {}
            BY <2>1, RequestFields, NoLifetime
        <3> QED BY <3>1, NoLifetime DEF Reassertion
    <2>3. /\ rows' = [rows EXCEPT ![t.id] = [Edited(rows[t.id], e) EXCEPT !.seen = t.at]]
          /\ Wrote(c, <<t.req.bucket>>)
        BY <1>4 DEF RememberReaffirm
    <2> HIDE DEF e
    <2>4. PICK i, new : i = t.id /\ new = [Edited(rows[i], e) EXCEPT !.seen = t.at]
        OBVIOUS
    <2>5. rows[i] \in Row /\ Or(e.exp, rows[i].exp) = Never
        BY <1>0, <2>1, <2>2, <2>4 DEF Or, NothingExpires, Undeleted
    <2>6. new.bucket = rows[i].bucket /\ new.exp = Never
        BY <2>4, <2>5 DEF Edited, Row
    <2>7. i \in Undeleted /\ rows' = [rows EXCEPT ![i] = new]
        BY <2>1, <2>3, <2>4
    <2>8. NothingExpires' /\ Covered(<<rows[i].bucket>>)
        BY <1>0, <2>6, <2>7, EditTold
    <2>9. Wrote(c, <<rows[i].bucket>>)
        BY <2>1, <2>3, <2>4
    <2> QED BY <2>8, <2>9, WriteTells
<1>5. CASE RememberCreate(c)
    <2>1. t.req \in Request /\ t.at \in Nat
        BY <1>0, <1>5, CallingFields DEF RememberCreate, At
    <2>2. PICK b \in Buckets : b = t.req.bucket
        BY <2>1, RequestFields
    <2>3. PICK S : S = Lapsed(b, t.req.hash, t.at)
        OBVIOUS
    <2>4. PICK new : new = NewRow(b, t.req.hash, t.req.prio, Or(t.req.kind, NoKind),
                                  Or(Expiry(t.at, t.req.ttl), Never), t.at)
        OBVIOUS
    <2>5. PICK i \in Ids : Fresh(i) /\ rows' = Replaced(S, NoRow, i, new)
        BY <1>5, <2>2, <2>3, <2>4 DEF RememberCreate
    <2>6. new.bucket = b /\ new.exp = Never
        <3>1. Or(Expiry(t.at, t.req.ttl), Never) = Never
            BY <2>1, RequestFields, NoLifetime DEF Or
        <3> QED BY <2>4, <3>1 DEF NewRow
    <2>7. i \in Free /\ S \in SUBSET Undeleted /\ \A j \in S : rows[j].bucket = b
        BY <2>3, <2>5 DEF Fresh, Lapsed, Holders
    <2>8. Wrote(c, <<b>>)
        BY <1>5, <2>2 DEF RememberCreate
    <2>9. NothingExpires' /\ Covered(<<b>>)
        BY <1>0, <2>5, <2>6, <2>7, ReplacementTold
    <2> QED BY <2>8, <2>9, WriteTells
<1>6. CASE ForgetDelete(c)
    <2>1. PICK i : i = t.id /\ i \in Undeleted /\ t.keys = <<rows[i].bucket>>
        BY <1>0, <1>6 DEF ForgetDelete, At, Knows
    <2>2. PICK b \in Buckets : b = rows[i].bucket
        BY <1>0, <2>1 DEF Undeleted, Row
    <2>3. rows' = [rows EXCEPT ![i] = Retired(rows[i], NoRow)] /\ Wrote(c, <<b>>)
        BY <1>6, <2>1, <2>2 DEF ForgetDelete
    <2>4. /\ i \in Ids /\ rows'[i].st = "retired"
          /\ \A j \in Ids \ {i} : rows'[j] = rows[j]
        BY <1>0, <2>1, <2>3 DEF Undeleted, Retired, Row
    <2>5. NothingExpires'
        BY <1>0, <2>4 DEF NothingExpires, Undeleted
    <2>6. \A j \in Ids : \/ rows'[j] = rows[j]
                         \/ /\ rows[j].st = "active" => rows[j].bucket = b
                            /\ rows'[j].st = "active" => rows'[j].bucket = b
        BY <2>2, <2>4
    <2>7. Covered(<<b>>)
        BY <2>6, OneBucketCovered
    <2> QED BY <2>3, <2>5, <2>7, WriteTells
<1>7. CASE ReassignSelect(c)
    <2>1. PICK s : /\ Enter(c, s) /\ s.pc = "move" /\ s.from = t.from /\ s.to = t.to
        BY <1>7 DEF ReassignSelect
    <2>2. UNCHANGED rows /\ Knows(s)'
        BY <1>0, <1>7, <2>1 DEF ReassignSelect, At, Knows
    <2> QED BY <2>1, <2>2, ReadTells
<1>8. CASE ReassignMove(c)
    <2>1. PICK from \in Projects, to \in Projects : from = t.from /\ to = t.to
        BY <1>0, <1>8 DEF ReassignMove, At, Knows
    <2>2. PICK moved : moved = t.moving \cap InProject(t.from)
        OBVIOUS
    <2>3. rows' = [i \in Ids |-> IF i \in moved THEN [rows[i] EXCEPT !.bucket = to]
                                 ELSE rows[i]]
        BY <1>8, <2>1, <2>2 DEF ReassignMove
    <2>4. \A i \in moved : i \in Undeleted /\ rows[i].bucket = from
        BY <2>1, <2>2 DEF InProject
    <2>5. \A i \in Ids : /\ rows'[i].st = rows[i].st /\ rows'[i].exp = rows[i].exp
                         /\ i \in moved => rows'[i].bucket = to
                         /\ i \notin moved => rows'[i] = rows[i]
        BY <1>0, <2>3 DEF Row
    <2>6. NothingExpires'
        BY <1>0, <2>5 DEF NothingExpires, Undeleted
    <2>7. CASE moved = {}
        <3>1. Leave(c)
            BY <1>8, <2>2, <2>7 DEF ReassignMove
        <3>2. rows' = rows
            BY <1>0, <2>3, <2>7
        <3>3. PICK s : s = [pc |-> "idle"]
            OBVIOUS
        <3>4. Enter(c, s) /\ Knows(s)'
            BY <3>1, <3>3 DEF Leave, Knows
        <3> QED BY <3>2, <3>4, ReadTells
    <2>8. CASE moved # {}
        <3>1. Wrote(c, <<from, to>>)
            BY <1>8, <2>1, <2>2, <2>8 DEF ReassignMove
        <3>2. ASSUME NEW k \in Keys, k \notin ToSet(<<from, to>>), NEW i \in moved
              PROVE  Hidden(k, rows[i]) /\ Hidden(k, rows'[i])
            <4>1. from # k /\ to # k
                <5>1. DOMAIN <<from, to>> = 1..2 /\ <<from, to>>[1] = from /\ <<from, to>>[2] = to
                    OBVIOUS
                <5> QED BY <3>2, <5>1 DEF ToSet
            <4>2. from # Global /\ to # Global
                BY ProjectsAssumption
            <4>3. rows[i].bucket = from /\ rows'[i].bucket = to
                BY <2>4, <2>5 DEF Undeleted
            <4> QED BY <4>1, <4>2, <4>3 DEF Hidden, Visible
        <3>3. Covered(<<from, to>>)
            BY <2>5, <3>2 DEF Covered
        <3> QED BY <2>6, <3>1, <3>3, WriteTells
    <2> QED BY <2>7, <2>8
<1> QED BY <1>1, <1>2, <1>3, <1>4, <1>5, <1>6, <1>7, <1>8 DEF Continue

(***************************************************************************)
(* Filling the queue is a fold over the announced keys; it leaves a queue  *)
(* of keys.  As with sums, the fold is defined by a function that exists   *)
(* for every number of keys, for otherwise there would be a least without. *)
(***************************************************************************)
FilledBy(keys, h, s) ==
    IF s = {} THEN pending ELSE Queued(h[s \ {Max(s)}], keys[Max(s)])
Filling(keys, n, h) ==
    /\ h = [s \in SUBSET DOMAIN keys |-> h[s]]
    /\ \A s \in SUBSET DOMAIN keys : Cardinality(s) <= n => h[s] = FilledBy(keys, h, s)

LEMMA FillingExtends ==
    ASSUME NEW keys \in Seq(Keys), NEW n \in Nat, NEW g, Filling(keys, n, g)
    PROVE  \E h : Filling(keys, n + 1, h)
<1> DEFINE h == [s \in SUBSET DOMAIN keys |->
                    IF Cardinality(s) <= n THEN g[s] ELSE FilledBy(keys, g, s)]
<1>0. DOMAIN keys = 1..Len(keys) /\ Len(keys) \in Nat
    OBVIOUS
<1>1. ASSUME NEW s \in SUBSET DOMAIN keys, s # {}, Cardinality(s) <= n + 1
      PROVE  h[s] = FilledBy(keys, h, s)
    <2>1. /\ s \ {Max(s)} \in SUBSET DOMAIN keys /\ Cardinality(s) \in Nat
          /\ Cardinality(s \ {Max(s)}) = Cardinality(s) - 1
        BY <1>0, <1>1, LastPosition
    <2>2. h[s \ {Max(s)}] = g[s \ {Max(s)}]
        BY <1>1, <2>1
    <2>3. h[s] = FilledBy(keys, g, s)
        BY <1>1, <2>1 DEF Filling
    <2> HIDE DEF h
    <2> QED BY <2>2, <2>3 DEF FilledBy
<1>2. h[{}] = pending
    <2>1. {} \in SUBSET DOMAIN keys /\ Cardinality({}) <= n
        BY FS_EmptySet
    <2>2. h[{}] = g[{}]
        BY <2>1
    <2> QED BY <2>1, <2>2 DEF Filling, FilledBy
<1>3. h = [s \in SUBSET DOMAIN keys |-> h[s]]
    OBVIOUS
<1> HIDE DEF h
<1>4. ASSUME NEW s \in SUBSET DOMAIN keys, Cardinality(s) <= n + 1
      PROVE  h[s] = FilledBy(keys, h, s)
    BY <1>1, <1>2, <1>4 DEF FilledBy
<1> QED BY <1>3, <1>4 DEF Filling

LEMMA FillingExists ==
    ASSUME NEW keys \in Seq(Keys)
    PROVE  \E h : /\ h = [s \in SUBSET DOMAIN keys |-> h[s]]
                  /\ \A s \in SUBSET DOMAIN keys : h[s] = FilledBy(keys, h, s)
<1>0. DOMAIN keys = 1..Len(keys) /\ Len(keys) \in Nat
    OBVIOUS
<1> DEFINE N == {n \in Nat : ~ \E g : Filling(keys, n, g)}
<1>1. N = {}
    <2> SUFFICES ASSUME N # {} PROVE FALSE
        OBVIOUS
    <2>1. PICK n \in N : \A m \in N : n <= m
        BY LeastNatural
    <2>2. Filling(keys, 0, [s \in SUBSET DOMAIN keys |-> pending])
        <3>1. ASSUME NEW s \in SUBSET DOMAIN keys, Cardinality(s) <= 0 PROVE s = {}
            <4> SUFFICES ASSUME s # {} PROVE FALSE
                OBVIOUS
            <4>1. Cardinality(s) \in Nat \ {0}
                BY <1>0, LastPosition
            <4> QED BY <3>1, <4>1
        <3> QED BY <3>1 DEF Filling, FilledBy
    <2>3. n # 0 /\ n - 1 \in Nat /\ n - 1 \notin N
        BY <2>1, <2>2
    <2>4. PICK g : Filling(keys, n - 1, g)
        BY <2>3
    <2>5. \E h : Filling(keys, (n - 1) + 1, h)
        BY <2>3, <2>4, FillingExtends
    <2> QED BY <2>1, <2>5
<1>2. PICK g : Filling(keys, Len(keys), g)
    BY <1>0, <1>1
<1>3. ASSUME NEW s \in SUBSET DOMAIN keys PROVE Cardinality(s) <= Len(keys)
    <2>1. PICK a, b : a = 1 /\ b = Len(keys) /\ a \in Int /\ b \in Int
        BY <1>0
    <2>2. IsFiniteSet(a..b) /\ Cardinality(a..b) = IF a > b THEN 0 ELSE b - a + 1
        BY <2>1, FS_Interval
    <2>3. s \in SUBSET (a..b)
        BY <1>0, <2>1
    <2>4. Cardinality(a..b) = Len(keys)
        BY <1>0, <2>1, <2>2
    <2> QED BY <2>2, <2>3, <2>4, FS_Subset
<1> QED BY <1>2, <1>3 DEF Filling

LEMMA QueuedKeys ==
    ASSUME NEW q \in Seq(Keys), NEW k \in Keys
    PROVE  Queued(q, k) \in Seq(Keys)
<1>1. CASE Len(q) >= QueueLimit
    <2>1. q # <<>>
        BY <1>1, LimitsAssumption
    <2> QED BY <2>1 DEF Queued
<1>2. CASE ~(Len(q) >= QueueLimit)
    BY <1>2 DEF Queued
<1> QED BY <1>1, <1>2

LEMMA FilledQueue ==
    ASSUME NEW keys \in Seq(Keys), pending \in Seq(Keys)
    PROVE  FoldLeft(Queued, pending, keys) \in Seq(Keys)
<1> DEFINE P == SUBSET DOMAIN keys
           Body(h) == [s \in P |-> IF s = {} THEN pending
                                   ELSE Queued(h[s \ {Max(s)}], keys[Max(s)])]
           iter == CHOOSE h : h = Body(h)
<1>0. DOMAIN keys = 1..Len(keys) /\ Len(keys) \in Nat
    OBVIOUS
<1>1. FoldLeft(Queued, pending, keys) = iter[DOMAIN keys]
    BY DEF FoldLeft, MapThenFoldSet
<1>2. PICK g : g = [s \in P |-> g[s]] /\ \A s \in P : g[s] = FilledBy(keys, g, s)
    BY FillingExists
<1>3. g = Body(g)
    BY <1>2 DEF FilledBy
<1>4. iter = Body(iter)
    BY <1>3
<1> DEFINE F == {s \in P : iter[s] \notin Seq(Keys)}
<1>5. F = {}
    <2> SUFFICES ASSUME F # {} PROVE FALSE
        OBVIOUS
    <2>1. PICK a, b : a = 1 /\ b = Len(keys) /\ a \in Int /\ b \in Int
        BY <1>0
    <2>2. IsFiniteSet(a..b)
        BY <2>1, FS_Interval
    <2>3. IsFiniteSet(DOMAIN keys) /\ F \in SUBSET (SUBSET DOMAIN keys)
        BY <1>0, <2>1, <2>2
    <2> HIDE DEF F
    <2>4. PICK s \in F : \A t \in F : t \subseteq s => t = s
        BY <2>3, SmallestSubset
    <2> USE DEF F
    <2>5. s \in P /\ iter[s] \notin Seq(Keys)
        BY <2>4
    <2> HIDE DEF iter
    <2>6. iter[s] = IF s = {} THEN pending ELSE Queued(iter[s \ {Max(s)}], keys[Max(s)])
        BY <1>4, <2>5
    <2>7. s # {}
        BY <2>5, <2>6
    <2>8. Max(s) \in s /\ s \ {Max(s)} \in P
        BY <1>0, <2>5, <2>7, LastPosition
    <2>9. iter[s \ {Max(s)}] \in Seq(Keys)
        BY <2>4, <2>8
    <2>10. keys[Max(s)] \in Keys
        BY <2>5, <2>8
    <2> QED BY <2>5, <2>6, <2>7, <2>9, <2>10, QueuedKeys
<1> HIDE DEF iter
<1>6. DOMAIN keys \in P
    OBVIOUS
<1> QED BY <1>1, <1>5, <1>6

(* A finite set as a sequence. *)
LEMMA ListedOnce ==
    ASSUME NEW S, IsFiniteSet(S)
    PROVE  SetToSeq(S) \in Seq(S) /\ ToSet(SetToSeq(S)) = S
<1>1. PICK n : n = Cardinality(S) /\ n \in Nat /\ ExistsBijection(1..n, S)
    BY FS_CardinalityType
<1>2. PICK a, b : a = 1 /\ b = n /\ a \in Int /\ b \in Int
    BY <1>1
<1>3. IsFiniteSet(a..b) /\ Cardinality(a..b) = IF a > b THEN 0 ELSE b - a + 1
    BY <1>2, FS_Interval
<1>4. Cardinality(a..b) = n
    BY <1>1, <1>2, <1>3
<1>5. PICK f : f = SetToSeq(S)
    OBVIOUS
<1>6. f \in [1..n -> S] /\ IsInjective(f)
    BY <1>1, <1>5 DEF SetToSeq, ExistsBijection, Bijection, Injection
<1>7. f \in Injection(a..b, S)
    BY <1>2, <1>6 DEF Injection
<1>8. f \in Surjection(a..b, S)
    BY <1>1, <1>3, <1>4, <1>7, FS_Injection
<1>9. ToSet(f) = S
    BY <1>2, <1>6, <1>8 DEF ToSet, Surjection
<1> QED BY <1>1, <1>5, <1>6, <1>9

(* A global memory affects every materialized project that was listed. *)
LEMMA AffectedKeys ==
    ASSUME NEW keys \in Seq(Keys), NEW listed \in SUBSET Keys, IsFiniteSet(listed)
    PROVE  /\ Affected(keys, listed) \in Seq(Keys)
           /\ keys # <<Global>> => Affected(keys, listed) = keys
           /\ keys = <<Global>> => /\ Global \in ToSet(Affected(keys, listed))
                                   /\ listed \subseteq ToSet(Affected(keys, listed))
<1>1. CASE keys # <<Global>>
    BY <1>1 DEF Affected
<1>2. CASE keys = <<Global>>
    <2>1. PICK f : f = SetToSeq(listed) /\ f \in Seq(listed) /\ ToSet(f) = listed
        BY ListedOnce
    <2>2. Affected(keys, listed) = <<Global>> \o f
        BY <1>2, <2>1 DEF Affected
    <2>3. f \in Seq(Keys) /\ <<Global>> \in Seq(Keys)
        BY <2>1 DEF Keys, Buckets
    <2>4. <<Global>> \o f \in Seq(Keys) /\ (<<Global>> \o f)[1] = Global
          /\ 1 \in DOMAIN (<<Global>> \o f)
        BY <2>3
    <2>5. ASSUME NEW k \in listed PROVE k \in ToSet(<<Global>> \o f)
        <3>1. PICK i \in DOMAIN f : f[i] = k
            BY <2>1 DEF ToSet
        <3>2. i + 1 \in DOMAIN (<<Global>> \o f) /\ (<<Global>> \o f)[i + 1] = k
            BY <2>3, <3>1
        <3> QED BY <3>2 DEF ToSet
    <2> QED BY <1>2, <2>2, <2>4, <2>5 DEF ToSet
<1> QED BY <1>1, <1>2

(***************************************************************************)
(* From the write to the rebuild: a profile that disagrees with the corpus *)
(* is about to be announced, queued, in the worker's batch or hands, or    *)
(* was dropped or given up.                                                *)
(***************************************************************************)
OutOfDate(k) == profile[k].built /\ profile[k].items # TopStatic(k, profile[k].at)
Announces(s, k) == s.pc = "wrote" /\ (k \in ToSet(s.keys) \/ s.keys = <<Global>>)
InHands(k) == proc[Worker].pc # "idle" /\ proc[Worker].key = k
Awaited(k) ==
    \/ k \in ToSet(pending) \cup ToSet(batch) \/ InHands(k)
    \/ \E c \in Clients : Announces(tx[c], k)
QueueInv ==
    /\ pending \in Seq(Keys) /\ batch \in Seq(Keys) /\ IsFiniteSet(Materialized)
    /\ \A k \in Keys : OutOfDate(k) => k \in lost \/ Awaited(k)

(* Steps that move neither rows nor profiles. *)
LEMMA SameDate ==
    ASSUME UNCHANGED <<rows, profile>>, NEW k
    PROVE  OutOfDate(k)' = OutOfDate(k) /\ Materialized' = Materialized
<1>1. TopStatic(k, profile[k].at)' = TopStatic(k, profile[k].at)
    BY SelectionFollowsRows
<1> QED BY <1>1 DEF OutOfDate, Materialized

LEMMA WaitingStays ==
    ASSUME QueueInv, UNCHANGED <<rows, profile, pending, batch, lost, tx>>,
           \A k \in Keys : InHands(k) => InHands(k)'
    PROVE  QueueInv'
<1>1. ASSUME NEW k \in Keys, OutOfDate(k)' PROVE k \in lost' \/ Awaited(k)'
    <2>1. k \in lost \/ Awaited(k)
        BY <1>1, SameDate DEF QueueInv
    <2> QED BY <2>1 DEF Awaited, Announces
<1>2. Materialized' = Materialized
    BY SameDate
<1> QED BY <1>1, <1>2 DEF QueueInv

LEMMA WriteAwaits ==
    ASSUME TypeOK, OneClient, QueueInv, NEW c \in Clients, ~At(c, "wrote"), Told(c),
           UNCHANGED profileVars
    PROVE  QueueInv'
<1>1. UNCHANGED <<profile, pending, batch, proc, lost>>
    BY DEF profileVars
<1>2. Materialized' = Materialized
    BY <1>1 DEF Materialized
<1>3. \A d \in Clients : \A k : ~Announces(tx[d], k)
    BY DEF OneClient, At, Announces
<1>4. ASSUME NEW k \in Keys, OutOfDate(k) PROVE k \in lost' \/ Awaited(k)'
    BY <1>1, <1>3, <1>4 DEF QueueInv, Awaited, InHands
<1>5. ASSUME NEW k \in Keys, OutOfDate(k)' PROVE k \in lost' \/ Awaited(k)'
    <2>1. CASE UNCHANGED rows
        BY <1>1, <1>4, <1>5, <2>1, SameDate
    <2>2. ASSUME NEW keys, Wrote(c, keys), Covered(keys) PROVE k \in lost' \/ Awaited(k)'
        <3>1. tx'[c] = [pc |-> "wrote", keys |-> keys]
            BY <2>2 DEF TypeOK, Wrote, Enter
        <3>2. CASE k \in ToSet(keys) \/ keys = <<Global>>
            BY <3>1, <3>2 DEF Awaited, Announces
        <3>3. CASE ~(k \in ToSet(keys) \/ keys = <<Global>>)
            <4>1. PICK t : t = profile[k].at
                OBVIOUS
            <4>2. TopStatic(k, t)' = TopStatic(k, t)
                BY <2>2, <3>3, SelectionKept DEF Covered
            <4>3. OutOfDate(k)
                BY <1>1, <1>5, <4>1, <4>2 DEF OutOfDate
            <4> QED BY <1>4, <4>3
        <3> QED BY <3>2, <3>3
    <2> QED BY <2>1, <2>2 DEF Told
<1> QED BY <1>1, <1>2, <1>5 DEF QueueInv

LEMMA ScheduleAwaits ==
    ASSUME TypeOK, OneClient, QueueInv, NEW c \in Clients, Schedule(c)
    PROVE  QueueInv'
<1>1. PICK keys : keys = tx[c].keys /\ keys \in Seq(Keys) /\ tx[c].pc = "wrote"
    BY DEF TypeOK, Calling, Schedule, Announced, At, Keys
<1>listing. PICK listed \in {Materialized, {}} : \E missed, all :
          /\ all = Affected(keys, listed)
          /\ missed = IF keys = <<Global>> THEN Materialized \ listed ELSE {}
          /\ pending' = FoldLeft(Queued, pending, all)
          /\ lost' = lost \cup missed \cup ((ToSet(pending) \cup ToSet(all)) \ ToSet(pending'))
    BY <1>1 DEF Schedule
<1>2. PICK missed, all :
          /\ all = Affected(keys, listed)
          /\ missed = IF keys = <<Global>> THEN Materialized \ listed ELSE {}
          /\ pending' = FoldLeft(Queued, pending, all)
          /\ lost' = lost \cup missed \cup ((ToSet(pending) \cup ToSet(all)) \ ToSet(pending'))
    BY <1>listing
<1>3. UNCHANGED <<rows, profile, batch, proc>>
    BY DEF Schedule, Announced
<1>4. listed \in SUBSET Keys /\ IsFiniteSet(listed)
    BY FS_EmptySet DEF QueueInv, Materialized
<1>5. /\ all \in Seq(Keys)
      /\ keys # <<Global>> => all = keys
      /\ keys = <<Global>> => Global \in ToSet(all) /\ listed \subseteq ToSet(all)
    BY <1>1, <1>2, <1>4, AffectedKeys
<1>6. pending' \in Seq(Keys)
    BY <1>2, <1>5, FilledQueue DEF QueueInv
<1>7. ASSUME NEW k \in Keys, OutOfDate(k)' PROVE k \in lost' \/ Awaited(k)'
    <2>1. OutOfDate(k) /\ profile[k].built
        BY <1>3, <1>7, SameDate DEF OutOfDate
    <2>2. k \in lost \/ Awaited(k)
        BY <2>1 DEF QueueInv
    <2>3. CASE k \in lost \/ k \in ToSet(pending) \/ k \in ToSet(all)
        BY <1>2, <2>3 DEF Awaited
    <2>4. CASE k \in ToSet(batch) \/ InHands(k)
        BY <1>3, <2>4 DEF Awaited, InHands
    <2>5. CASE \E d \in Clients : Announces(tx[d], k)
        <3>1. k \in ToSet(keys) \/ keys = <<Global>>
            BY <1>1, <2>5 DEF OneClient, Announces
        <3>2. CASE keys # <<Global>>
            BY <1>5, <2>3, <3>1, <3>2
        <3>3. CASE keys = <<Global>> /\ k \in {Global} \cup listed
            BY <1>5, <2>3, <3>3
        <3>4. CASE keys = <<Global>> /\ k \notin {Global} \cup listed
            BY <1>2, <2>1, <3>4 DEF Materialized
        <3> QED BY <3>2, <3>3, <3>4
    <2> QED BY <2>2, <2>3, <2>4, <2>5 DEF Awaited
<1>8. batch' \in Seq(Keys) /\ IsFiniteSet(Materialized)'
    BY <1>3 DEF QueueInv, Materialized
<1> QED BY <1>6, <1>7, <1>8 DEF QueueInv

LEMMA TakeAwaits ==
    ASSUME QueueInv, TakeBatch
    PROVE  QueueInv'
<1>1. PICK n \in Nat : /\ n <= Len(pending)
                       /\ batch' = SubSeq(pending, 1, n)
                       /\ pending' = SubSeq(pending, n + 1, Len(pending))
    <2>1. Len(pending) \in Nat /\ BatchSize \in Nat
        BY LimitsAssumption DEF QueueInv
    <2>2. PICK n : /\ n = IF Len(pending) < BatchSize THEN Len(pending) ELSE BatchSize
                   /\ batch' = SubSeq(pending, 1, n)
                   /\ pending' = SubSeq(pending, n + 1, Len(pending))
        BY DEF TakeBatch
    <2>3. n \in Nat /\ n <= Len(pending)
        BY <2>1, <2>2
    <2> QED BY <2>2, <2>3
<1>2. UNCHANGED <<rows, profile, proc, lost, tx>> /\ batch = <<>>
    BY DEF TakeBatch, storeVars
<1>3. pending' \in Seq(Keys) /\ batch' \in Seq(Keys)
    BY <1>1 DEF QueueInv
<1>4. ToSet(pending) \subseteq ToSet(pending') \cup ToSet(batch')
    <2> SUFFICES ASSUME NEW i \in DOMAIN pending
                 PROVE  pending[i] \in ToSet(pending') \cup ToSet(batch')
        BY DEF ToSet
    <2>1. i \in 1..Len(pending) /\ pending \in Seq(Keys)
        BY DEF QueueInv
    <2>2. CASE i <= n
        <3>1. i \in DOMAIN batch' /\ batch'[i] = pending[i]
            BY <1>1, <2>1, <2>2
        <3> QED BY <3>1 DEF ToSet
    <2>3. CASE i > n
        <3>1. i - n \in DOMAIN pending' /\ pending'[i - n] = pending[i]
            BY <1>1, <2>1, <2>3
        <3> QED BY <3>1 DEF ToSet
    <2> QED BY <2>1, <2>2, <2>3
<1>5. ToSet(batch) = {}
    BY <1>2 DEF ToSet
<1>6. ASSUME NEW k \in Keys, OutOfDate(k)' PROVE k \in lost' \/ Awaited(k)'
    <2>1. k \in lost \/ Awaited(k)
        BY <1>2, <1>6, SameDate DEF QueueInv
    <2> QED BY <1>2, <1>4, <1>5, <2>1 DEF Awaited, Announces, InHands
<1>7. IsFiniteSet(Materialized)'
    BY <1>2 DEF QueueInv, Materialized
<1> QED BY <1>3, <1>6, <1>7 DEF QueueInv

LEMMA StartAwaits ==
    ASSUME ProfileInv, QueueInv, StartRebuild
    PROVE  QueueInv'
<1>1. UNCHANGED <<rows, profile, pending, lost, tx>> /\ batch # <<>> /\ batch' = Tail(batch)
    BY DEF StartRebuild, storeVars
<1>a. PICK head : head = Head(batch)
    OBVIOUS
<1>2. InHands(head)' /\ On(Worker, "idle")
    BY <1>a DEF StartRebuild, On, InHands, Go, ProfileInv, Tasks
<1>3. batch \in Seq(Keys) /\ batch' \in Seq(Keys)
    BY <1>1 DEF QueueInv
<1>4. ASSUME NEW i \in DOMAIN batch PROVE batch[i] = head \/ batch[i] \in ToSet(batch')
    <2>1. CASE i = 1
        BY <1>3, <1>a, <2>1
    <2>2. CASE i # 1
        <3>1. i - 1 \in DOMAIN batch' /\ batch'[i - 1] = batch[i]
            BY <1>1, <1>3, <2>2
        <3> QED BY <3>1 DEF ToSet
    <2> QED BY <2>1, <2>2
<1>5. ASSUME NEW k \in Keys, OutOfDate(k)' PROVE k \in lost' \/ Awaited(k)'
    <2>1. k \in lost \/ Awaited(k)
        BY <1>1, <1>5, SameDate DEF QueueInv
    <2>2. CASE k \in ToSet(batch)
        <3>1. PICK i \in DOMAIN batch : k = batch[i]
            BY <2>2 DEF ToSet
        <3> QED BY <1>2, <1>4, <3>1 DEF Awaited
    <2>3. CASE k \notin ToSet(batch)
        BY <1>1, <1>2, <2>1, <2>3 DEF Awaited, Announces, InHands, On
    <2> QED BY <2>2, <2>3
<1>6. IsFiniteSet(Materialized)'
    BY <1>1 DEF QueueInv, Materialized
<1> QED BY <1>1, <1>3, <1>5, <1>6 DEF QueueInv

(* What an upsert stores agrees with the corpus; a worker that gives up    *)
(* counts the key as lost.                                                 *)
LEMMA UpsertAwaits ==
    ASSUME TypeOK, ProfileInv, QueueInv, NEW p \in Tasks, RebuildUpsert(p)
    PROVE  QueueInv'
<1>1. PICK key, row : /\ key = proc[p].key /\ row = proc[p].row
                      /\ row.gen = generation /\ Faithful(key, row)
    BY DEF RebuildUpsert, On, Unmoved, ProfileInv, Sound
<1>2. /\ profile' = [profile EXCEPT ![key] = row] /\ lost' = lost \ {key}
      /\ UNCHANGED <<rows, pending, batch, tx>>
    BY <1>1 DEF RebuildUpsert, storeVars
<1>3. \A k \in Keys : profile'[k] = IF k = key THEN row ELSE profile[k]
    BY <1>2 DEF ProfileInv
<1>4. \A q \in Tasks \ {p} : proc'[q] = proc[q]
    BY DEF RebuildUpsert, Serve, Go, ProfileInv
<1>5. \A k : k # key => InHands(k) = InHands(k)'
    <2>1. CASE p = Worker
        <3>1. proc'[p].pc = "idle"
            BY <2>1 DEF RebuildUpsert, Go, ProfileInv
        <3> QED BY <1>1, <2>1, <3>1 DEF InHands
    <2>2. CASE p # Worker
        BY <1>4, <2>2 DEF InHands, Tasks
    <2> QED BY <2>1, <2>2
<1>6. ASSUME NEW k \in Keys, OutOfDate(k)' PROVE k \in lost' \/ Awaited(k)'
    <2>1. PICK r : r = profile'[k]
        OBVIOUS
    <2>2. r.built /\ r.items # TopStatic(k, r.at)
        BY <1>2, <1>6, <2>1, SelectionFollowsRows DEF OutOfDate
    <2>3. k # key
        BY <1>1, <1>3, <2>1, <2>2 DEF Faithful
    <2>4. OutOfDate(k)
        BY <1>3, <2>1, <2>2, <2>3 DEF OutOfDate
    <2>5. k \in lost \/ Awaited(k)
        BY <2>4 DEF QueueInv
    <2> QED BY <1>2, <1>5, <2>3, <2>5 DEF Awaited, Announces
<1>7. IsFiniteSet(Materialized)'
    <2>1. IsFiniteSet(Materialized \cup {key})
        BY FS_AddElement DEF QueueInv
    <2>2. Materialized' \in SUBSET (Materialized \cup {key})
        BY <1>3 DEF Materialized
    <2> QED BY <2>1, <2>2, FS_Subset
<1> QED BY <1>2, <1>6, <1>7 DEF QueueInv

LEMMA GivesUpAwaits ==
    ASSUME ProfileInv, QueueInv, RebuildGivesUp(Worker)
    PROVE  QueueInv'
<1>1. /\ lost' = lost \cup {proc[Worker].key}
      /\ UNCHANGED <<rows, profile, pending, batch, tx>>
    BY DEF RebuildGivesUp, storeVars
<1>2. ASSUME NEW k \in Keys, OutOfDate(k)' PROVE k \in lost' \/ Awaited(k)'
    <2>1. k \in lost \/ Awaited(k)
        BY <1>1, <1>2, SameDate DEF QueueInv
    <2> QED BY <1>1, <2>1 DEF Awaited, Announces, InHands
<1>3. IsFiniteSet(Materialized)'
    BY <1>1 DEF QueueInv, Materialized
<1> QED BY <1>1, <1>2, <1>3 DEF QueueInv

LEMMA RebuildAwaits ==
    ASSUME TypeOK, ProfileInv, QueueInv, NEW p \in Tasks, Rebuild(p)
    PROVE  QueueInv'
<1>1. CASE RebuildRead(p) \/ RebuildList(p) \/ RebuildConflict(p)
           \/ (RebuildGivesUp(p) /\ p # Worker)
    <2>1. UNCHANGED <<rows, profile, pending, batch, lost, tx>>
        BY <1>1 DEF RebuildRead, RebuildList, RebuildConflict, RebuildGivesUp, storeVars
    <2>2. CASE p # Worker
        <3>1. proc'[Worker] = proc[Worker]
            BY <1>1, <2>2 DEF RebuildRead, RebuildList, RebuildConflict, RebuildGivesUp, Go,
                              ProfileInv, Tasks
        <3> QED BY <2>1, <3>1, WaitingStays DEF InHands
    <2>3. CASE p = Worker
        <3>1. proc'[p].pc # "idle" /\ proc'[p].key = proc[p].key
            BY <1>1, <2>3 DEF RebuildRead, RebuildList, RebuildConflict, Go, ProfileInv
        <3> QED BY <2>1, <2>3, <3>1, WaitingStays DEF InHands
    <2> QED BY <2>2, <2>3
<1>2. CASE RebuildUpsert(p)
    BY <1>2, UpsertAwaits
<1>3. CASE RebuildGivesUp(p) /\ p = Worker
    BY <1>3, GivesUpAwaits
<1> QED BY <1>1, <1>2, <1>3 DEF Rebuild

LEMMA ReaderAwaits ==
    ASSUME ProfileInv, QueueInv, NEW r \in Readers,
           (\E k \in Keys : Ask(r, k)) \/ ReadRow(r) \/ ReadGeneration(r) \/ Done(r)
    PROVE  QueueInv'
<1>1. UNCHANGED <<rows, profile, pending, batch, lost, tx>>
    BY DEF Ask, ReadRow, ReadGeneration, Done, storeVars
<1>2. PICK s : Go(r, s)
    BY DEF Ask, ReadRow, ReadGeneration, Done, Serve
<1>3. proc'[Worker] = proc[Worker]
    BY <1>2, WorkerAssumption DEF Go, ProfileInv, Tasks
<1> QED BY <1>1, <1>3, WaitingStays DEF InHands

(* The three invariants of a user with one request at a time.              *)
SerialQueueInv == SerialInv /\ KnowsInv /\ QueueInv

LEMMA NextAwaits ==
    ASSUME OneClient, Ttls = {}, TypeOK, ProfileInv, SerialQueueInv, [NextProfile]_vars
    PROVE  SerialQueueInv'
<1> USE DEF SerialQueueInv
<1>1. SerialInv'
    BY StoreStep, NextKeepsSerial
<1>2. ASSUME NEW c \in Clients, Write(c) PROVE KnowsInv' /\ QueueInv'
    <2>1. KnowsInv' /\ Told(c) /\ ~At(c, "wrote")
        BY <1>2, CallTells, ContinueTells DEF Write, At
    <2> QED BY <1>2, <2>1, WriteAwaits DEF Write
<1>3. ASSUME NEW c \in Clients, Schedule(c) PROVE KnowsInv' /\ QueueInv'
    <2>1. PICK s : s = [pc |-> "idle"]
        OBVIOUS
    <2>2. Enter(c, s) /\ UNCHANGED rows /\ Knows(s)'
        BY <1>3, <2>1 DEF Schedule, Announced, Leave, Knows
    <2> QED BY <1>3, <2>2, ReadTells, ScheduleAwaits
<1>4. ASSUME UNCHANGED <<rows, tx>> PROVE KnowsInv'
    BY <1>4 DEF KnowsInv, NothingExpires, Knows, Undeleted
<1>5. CASE PassTime \/ Rest \/ UNCHANGED vars
    <2>1. UNCHANGED <<rows, tx, profile, pending, batch, lost, proc>>
        BY <1>5 DEF PassTime, Tick, Rest, Finished, vars, storeVars, profileVars
    <2> QED BY <1>1, <1>4, <2>1, WaitingStays DEF InHands
<1>6. ASSUME NEW r \in Readers,
             (\E k \in Keys : Ask(r, k)) \/ ReadRow(r) \/ ReadGeneration(r) \/ Done(r)
      PROVE  KnowsInv' /\ QueueInv'
    <2>1. UNCHANGED <<rows, tx>>
        BY <1>6 DEF Ask, ReadRow, ReadGeneration, Done, storeVars
    <2> QED BY <1>4, <1>6, <2>1, ReaderAwaits
<1>7. ASSUME NEW p \in Tasks, Rebuild(p) PROVE KnowsInv' /\ QueueInv'
    <2>1. UNCHANGED <<rows, tx>>
        BY <1>7 DEF Rebuild, RebuildRead, RebuildList, RebuildUpsert, RebuildConflict,
                    RebuildGivesUp, storeVars
    <2> QED BY <1>4, <1>7, <2>1, RebuildAwaits
<1>8. CASE TakeBatch \/ StartRebuild
    <2>1. UNCHANGED <<rows, tx>>
        BY <1>8 DEF TakeBatch, StartRebuild, storeVars
    <2> QED BY <1>1, <1>4, <1>8, <2>1, TakeAwaits, StartAwaits
<1> QED BY <1>1, <1>2, <1>3, <1>5, <1>6, <1>7, <1>8 DEF NextProfile

LEMMA InitAwaits == InitProfile => SerialQueueInv
<1> SUFFICES ASSUME InitProfile PROVE SerialQueueInv
    OBVIOUS
<1>1. SerialInv
    BY InitSerial DEF InitProfile
<1>2. KnowsInv
    BY DEF InitProfile, Init, KnowsInv, NothingExpires, Knows, Undeleted
<1>3. Materialized = {} /\ \A k \in Keys : ~OutOfDate(k)
    BY DEF InitProfile, Materialized, NoProfile, OutOfDate
<1>4. pending \in Seq(Keys) /\ batch \in Seq(Keys)
    BY DEF InitProfile
<1> QED BY <1>1, <1>2, <1>3, <1>4, FS_EmptySet DEF SerialQueueInv, QueueInv

(* While a user has one request at a time and no memory expires, rebuilding*)
(* only the keys a write announces is enough: when the writers have        *)
(* returned and the queue is drained, every materialized profile that was  *)
(* not dropped or given up agrees with the corpus, for any projects,       *)
(* queue, batches and readers (_rebuild_profiles_for_memory).              *)
THEOREM QueueSuffices ==
    ASSUME OneClient, Ttls = {} PROVE SpecProfile => []QueueCatchesUp
<1>1. TypeOK /\ ProfileInv /\ SerialQueueInv /\ [NextProfile]_vars => SerialQueueInv'
    BY NextAwaits
<1>2. QueueInv => QueueCatchesUp
    <2> SUFFICES ASSUME QueueInv, Quiet, NEW k \in Keys \ lost, OutOfDate(k)
                 PROVE  FALSE
        BY DEF QueueCatchesUp, OutOfDate
    <2>1. Awaited(k)
        BY DEF QueueInv
    <2>2. ToSet(pending) = {} /\ ToSet(batch) = {} /\ ~InHands(k)
        BY DEF Quiet, ToSet, InHands, On
    <2>3. \A c \in Clients : ~Announces(tx[c], k)
        BY DEF Quiet, At, Announces
    <2> QED BY <2>1, <2>2, <2>3 DEF Awaited
<1>3. SerialQueueInv => QueueInv
    BY DEF SerialQueueInv
<1> QED BY <1>1, <1>2, <1>3, InitAwaits, StoreTypes, ProfileInvariant, PTL DEF SpecProfile
=============================================================================
