--------------------------- MODULE RuntimeProofs ---------------------------
(***************************************************************************)
(* The process around the services: the usage counts, the workers' queues  *)
(* and the shutdown, the boundary of a request, the readiness probes and   *)
(* tool activity; for any number of tasks, requests and events, any sizes  *)
(* and any failures.                                                       *)
(***************************************************************************)
EXTENDS Runtime, DataProofs, SequenceTheorems, TLAPS

(***************************************************************************)
(* The usage counts.  What was served of a memory is in the buffer, in the *)
(* batch of a task that writes it, in the table, or counted as lost; each  *)
(* step moves counts from one place to another.  Only a task that writes   *)
(* holds counts, and of finitely many keys, so that the batches of all     *)
(* tasks have a sum.                                                       *)
(***************************************************************************)
Counts == [Keys -> Nat]
Taking == {"apply", "finish"}
InHand(s) == IF s.pc \in Taking THEN s.batch ELSE Nothing

(* The state of a task: only a flush holds counts, of finitely many keys.  *)
TaskOK(s) ==
    /\ s.pc \in Taking => {"pc", "batch", "left"} \subseteq DOMAIN s
    /\ InHand(s) \in Counts /\ IsFiniteSet(Entries(InHand(s)))

UsageTypes ==
    /\ {pending, dropped, applied, served, repeated, lost} \subseteq Counts
    /\ task = [t \in Tasks |-> task[t]] /\ \A t \in Tasks : TaskOK(task[t])
    /\ IsFiniteSet(Entries(pending))

UsageInv == UsageTypes /\ LossObservable

LEMMA TasksFinite == IsFiniteSet(Tasks)
BY TasksAssumption, FS_Union DEF Tasks

LEMMA NothingHeld ==
    /\ Nothing \in Counts /\ Entries(Nothing) = {} /\ IsFiniteSet(Entries(Nothing))
    /\ Cardinality(Entries(Nothing)) = 0
    /\ \A k \in Keys : Nothing[k] = 0
BY FS_EmptySet DEF Nothing, Counts, Entries

LEMMA PlusCounts ==
    ASSUME NEW f \in Counts, NEW g \in Counts
    PROVE /\ Plus(f, g) \in Counts /\ \A k \in Keys : Plus(f, g)[k] = f[k] + g[k]
          /\ Entries(Plus(f, g)) = Entries(f) \cup Entries(g)
BY DEF Plus, Counts, Entries

LEMMA OnlyCounts ==
    ASSUME NEW f \in Counts, NEW S
    PROVE /\ Only(f, S) \in Counts
          /\ \A k \in Keys : Only(f, S)[k] = IF k \in S THEN f[k] ELSE 0
          /\ Entries(Only(f, S)) = Entries(f) \cap S
BY DEF Only, Counts, Entries

LEMMA BatchIsInHand == \A t : Batch(t) = InHand(task[t])
BY DEF Batch, InHand, Taking

(* One task moves: the counts in batches move by as much.                  *)
LEMMA TaskMoves ==
    ASSUME UsageTypes, NEW t \in Tasks, NEW s, TaskOK(s), Go(t, s)
    PROVE /\ task' = [u \in Tasks |-> task'[u]] /\ \A u \in Tasks : TaskOK(task'[u])
          /\ \A k \in Keys : /\ InBatches(k) \in Nat /\ InBatches(k)' \in Nat
                             /\ InBatches(k)' = InBatches(k) + InHand(s)[k] - InHand(task[t])[k]
<1>1. /\ task' = [u \in Tasks |-> task'[u]]
      /\ \A u \in Tasks : task'[u] = IF u = t THEN s ELSE task[u]
  BY DEF Go, UsageTypes
<1>2. \A u \in Tasks : TaskOK(task'[u])
  BY <1>1 DEF UsageTypes
<1>3. ASSUME NEW k \in Keys
      PROVE /\ InBatches(k) \in Nat /\ InBatches(k)' \in Nat
            /\ InBatches(k)' = InBatches(k) + InHand(s)[k] - InHand(task[t])[k]
  <2> DEFINE f == [u \in Tasks |-> InHand(task[u])[k]]
             g == [u \in Tasks |-> InHand(task'[u])[k]]
  <2>1. InBatches(k) = SumFunctionOnSet(f, Tasks)
    BY BatchIsInHand DEF InBatches
  <2>2. InBatches(k)' = SumFunctionOnSet(g, Tasks)
    BY DEF InBatches, Batch, InHand, Taking
  <2>3. \A u \in Tasks : InHand(task[u])[k] \in Nat /\ InHand(task'[u])[k] \in Nat
    BY <1>2 DEF UsageTypes, TaskOK, Counts
  <2>4. \A u \in Tasks : f[u] \in Nat /\ g[u] \in Nat
    BY <2>3
  <2>5. \A u \in Tasks \ {t} : f[u] = g[u]
    BY <1>1
  <2>6. f[t] = InHand(task[t])[k] /\ g[t] = InHand(s)[k]
    BY <1>1
  <2> HIDE DEF f, g
  <2>7. SumFunctionOnSet(f, Tasks) \in Nat /\ SumFunctionOnSet(g, Tasks) \in Nat
    BY <2>4, TasksFinite, SumNat
  <2>8. SumFunctionOnSet(g, Tasks) = SumFunctionOnSet(f, Tasks) + g[t] - f[t]
    BY <2>4, <2>5, TasksFinite, SumChange
  <2> QED BY <2>1, <2>2, <2>6, <2>7, <2>8
<1> QED BY <1>1, <1>2, <1>3
(***************************************************************************)
(* The actions.                                                            *)
(***************************************************************************)
LEMMA LimitsAre ==
    BufferLimit \in Nat /\ BufferLimit >= 1
BY LimitsAssumption

LEMMA UsageInitially == Init => UsageInv
<1> SUFFICES ASSUME Init PROVE UsageInv
  OBVIOUS
<1>1. UsageTypes
  BY NothingHeld DEF Init, UsageTypes, TaskOK, InHand, Taking
<1>2. ASSUME NEW k \in Keys PROVE InBatches(k) = 0
  <2> DEFINE f == [t \in Tasks |-> Batch(t)[k]]
  <2>1. \A t \in Tasks : f[t] = 0
    BY NothingHeld DEF Init, Batch
  <2> HIDE DEF f
  <2> DEFINE F == {S \in SUBSET Tasks : SumFunctionOnSet(f, S) # 0}
  <2>2. F = {}
    <3> SUFFICES ASSUME F # {} PROVE FALSE
      OBVIOUS
    <3>1. F \in SUBSET (SUBSET Tasks)
      OBVIOUS
    <3> HIDE DEF F
    <3>2. PICK S \in F : \A T \in F : T \subseteq S => T = S
      BY <3>1, TasksFinite, SmallestSubset
    <3>3. S \in SUBSET Tasks /\ SumFunctionOnSet(f, S) # 0
      BY DEF F
    <3>4. S # {} /\ IsFiniteSet(S)
      BY <3>3, SumEmpty, TasksFinite, FS_Subset
    <3>5. Picked(S) \in S /\ S \ {Picked(S)} \in SUBSET S
      BY <3>4, Smaller
    <3>6. SumFunctionOnSet(f, S \ {Picked(S)}) = 0
      BY <3>2, <3>3, <3>5 DEF F
    <3>7. SumFunctionOnSet(f, S) = 0 + 0
      BY <2>1, <3>3, <3>4, <3>5, <3>6, SumStep
    <3> QED BY <3>3, <3>7
  <2>3. SumFunctionOnSet(f, Tasks) = 0
    BY <2>2
  <2> QED BY <2>3 DEF InBatches, f
<1>3. LossObservable
  BY <1>2, NothingHeld, LimitsAre DEF Init, LossObservable
<1> QED BY <1>1, <1>3 DEF UsageInv

(* A serve is added to its key's count, or dropped when it needs a key     *)
(* that the full buffer has not.                                           *)
LEMMA RecordKeeps == ASSUME UsageInv, NEW k \in Keys, Record(k) PROVE UsageInv'
<1>1. UNCHANGED task /\ \A x \in Keys : InBatches(x)' = InBatches(x)
  BY DEF Record, InBatches, Batch
<1>2. /\ pending \in Counts /\ dropped \in Counts /\ served \in Counts
      /\ IsFiniteSet(Entries(pending)) /\ Cardinality(Entries(pending)) \in Nat
  BY FS_CardinalityType DEF UsageInv, UsageTypes
<1>3. /\ served' \in Counts
      /\ \A x \in Keys : served'[x] = IF x = k THEN served[x] + 1 ELSE served[x]
  BY <1>2 DEF Record, Counts
<1>4. ASSUME NEW x \in Keys PROVE InBatches(x) \in Nat
  <2>1. PICK f : f = [t \in Tasks |-> Batch(t)[x]]
    OBVIOUS
  <2>2. \A t \in Tasks : f[t] \in Nat
    BY <2>1, BatchIsInHand DEF UsageInv, UsageTypes, TaskOK, Counts
  <2> QED BY <2>1, <2>2, TasksFinite, SumNat DEF InBatches
<1>5. CASE pending[k] = 0 /\ Cardinality(Entries(pending)) >= BufferLimit
  <2>1. /\ UNCHANGED <<pending, applied, repeated, lost>> /\ dropped' \in Counts
        /\ \A x \in Keys : dropped'[x] = IF x = k THEN dropped[x] + 1 ELSE dropped[x]
    BY <1>2, <1>5 DEF Record, Counts, cancellations
  <2>2. UsageTypes'
    BY <1>1, <1>3, <2>1 DEF UsageInv, UsageTypes, Entries
  <2>3. LossObservable'
    BY <1>1, <1>2, <1>3, <1>4, <2>1 DEF UsageInv, UsageTypes, LossObservable, Counts, Entries
  <2> QED BY <2>2, <2>3 DEF UsageInv
<1>6. CASE ~(pending[k] = 0 /\ Cardinality(Entries(pending)) >= BufferLimit)
  <2>1. /\ UNCHANGED <<dropped, applied, repeated, lost>> /\ pending' \in Counts
        /\ \A x \in Keys : pending'[x] = IF x = k THEN pending[x] + 1 ELSE pending[x]
    BY <1>2, <1>6 DEF Record, Counts, cancellations
  <2>2. Entries(pending)' = Entries(pending) \cup {k}
    BY <1>2, <2>1 DEF Entries, Counts
  <2>3. IsFiniteSet(Entries(pending)')
    BY <1>2, <2>2, FS_AddElement
  <2>4. Cardinality(Entries(pending)') <= BufferLimit
    <3>1. CASE pending[k] = 0
      <4>1. k \notin Entries(pending)
        BY <3>1 DEF Entries
      <4>2. Cardinality(Entries(pending)') = Cardinality(Entries(pending)) + 1
        BY <1>2, <2>2, <4>1, FS_AddElement
      <4>3. ~(Cardinality(Entries(pending)) >= BufferLimit)
        BY <1>6, <3>1
      <4> QED BY <1>2, <4>2, <4>3, LimitsAre
    <3>2. CASE pending[k] # 0
      <4>1. Entries(pending)' = Entries(pending)
        BY <1>2, <2>2, <3>2 DEF Entries, Counts
      <4> QED BY <4>1 DEF UsageInv, LossObservable
    <3> QED BY <3>1, <3>2
  <2>5. UsageTypes'
    BY <1>1, <1>3, <2>1, <2>3 DEF UsageInv, UsageTypes
  <2>6. LossObservable'
    BY <1>1, <1>2, <1>3, <1>4, <2>1, <2>4 DEF UsageInv, UsageTypes, LossObservable, Counts
  <2> QED BY <2>5, <2>6 DEF UsageInv
<1> QED BY <1>5, <1>6

(* A task that has nothing in hand before and after moves no count.        *)
LEMMA NothingMoves ==
    ASSUME UsageInv, NEW t \in Tasks, NEW s, Go(t, s),
           task[t].pc \notin Taking, s.pc \notin Taking,
           UNCHANGED <<pending, dropped, applied, served, repeated, lost>>
    PROVE UsageInv'
<1>1. InHand(s) = Nothing /\ InHand(task[t]) = Nothing /\ TaskOK(s)
  BY NothingHeld DEF InHand, TaskOK
<1>2. /\ task' = [u \in Tasks |-> task'[u]] /\ \A u \in Tasks : TaskOK(task'[u])
      /\ \A k \in Keys : InBatches(k) \in Nat /\ InBatches(k)' = InBatches(k)
  BY <1>1, TaskMoves, NothingHeld DEF UsageInv
<1>3. UsageTypes' /\ Entries(pending)' = Entries(pending)
  BY <1>2 DEF UsageInv, UsageTypes, Entries
<1>4. LossObservable'
  BY <1>2, <1>3 DEF UsageInv, LossObservable
<1> QED BY <1>3, <1>4 DEF UsageInv

(* A flush takes the counts of some keys.                                  *)
LEMMA TakeKeeps ==
    ASSUME UsageInv, NEW t \in Tasks, NEW s, NEW S, NEW users, Go(t, s), Take(S, users),
           task[t].pc \notin Taking, TaskOK(s), InHand(s) = Only(pending, S),
           UNCHANGED <<dropped, applied, served, repeated, lost>>
    PROVE UsageInv'
<1>0. pending \in Counts
  BY DEF UsageInv, UsageTypes
<1>1. \A k \in Keys : /\ InHand(task[t])[k] = 0
                      /\ InHand(s)[k] = IF k \in S THEN pending[k] ELSE 0
  BY <1>0, NothingHeld, OnlyCounts DEF InHand
<1>2. /\ pending' \in Counts /\ Entries(pending)' \subseteq Entries(pending)
      /\ \A k \in Keys : pending'[k] = IF k \in S THEN 0 ELSE pending[k]
  <2>1. pending' = Only(pending, Keys \ S)
    BY DEF Take
  <2> QED BY <1>0, <2>1, OnlyCounts
<1>3. /\ task' = [u \in Tasks |-> task'[u]] /\ \A u \in Tasks : TaskOK(task'[u])
      /\ \A k \in Keys : /\ InBatches(k) \in Nat
                         /\ InBatches(k)' = InBatches(k) + InHand(s)[k] - InHand(task[t])[k]
  BY TaskMoves DEF UsageInv
<1>4. IsFiniteSet(Entries(pending)') /\ Cardinality(Entries(pending)') <= BufferLimit
  <2>1. /\ IsFiniteSet(Entries(pending)) /\ Cardinality(Entries(pending)) \in Nat
        /\ Cardinality(Entries(pending)) <= BufferLimit
    BY FS_CardinalityType DEF UsageInv, UsageTypes, LossObservable
  <2> QED BY <1>2, <2>1, FS_Subset, FS_CardinalityType, LimitsAre
<1>5. UsageTypes'
  BY <1>2, <1>3, <1>4 DEF UsageInv, UsageTypes
<1>6. ASSUME NEW k \in Keys
      PROVE served'[k] + repeated'[k]
                = pending'[k] + InBatches(k)' + applied'[k] + dropped'[k] + lost'[k]
  <2>1. pending[k] \in Nat /\ InBatches(k) \in Nat
    BY <1>0, <1>3 DEF Counts
  <2>2. pending'[k] + InBatches(k)' = pending[k] + InBatches(k)
    BY <1>1, <1>2, <1>3, <2>1
  <2>3. served[k] + repeated[k] = pending[k] + InBatches(k) + applied[k] + dropped[k] + lost[k]
    BY DEF UsageInv, LossObservable
  <2> QED BY <2>2, <2>3
<1>7. LossObservable'
  BY <1>4, <1>6 DEF LossObservable
<1> QED BY <1>5, <1>7 DEF UsageInv

(* A flush settles what it has in hand: applied, or lost with its request. *)
LEMMA SettleKeeps ==
    ASSUME UsageInv, NEW t \in Tasks, NEW s, Go(t, s), TaskOK(s),
           UNCHANGED <<pending, dropped, served>>,
           {applied', repeated', lost'} \subseteq Counts,
           \A k \in Keys :
               InHand(s)[k] + applied'[k] + lost'[k] + repeated[k]
                   = InHand(task[t])[k] + applied[k] + lost[k] + repeated'[k]
    PROVE UsageInv'
<1>1. /\ task' = [u \in Tasks |-> task'[u]] /\ \A u \in Tasks : TaskOK(task'[u])
      /\ \A k \in Keys : /\ InBatches(k) \in Nat
                         /\ InBatches(k)' = InBatches(k) + InHand(s)[k] - InHand(task[t])[k]
  BY TaskMoves DEF UsageInv
<1>2. UsageTypes' /\ Entries(pending)' = Entries(pending)
  BY <1>1 DEF UsageInv, UsageTypes, Entries
<1>3. ASSUME NEW k \in Keys
      PROVE served'[k] + repeated'[k]
                = pending'[k] + InBatches(k)' + applied'[k] + dropped'[k] + lost'[k]
  <2>1. /\ pending[k] \in Nat /\ dropped[k] \in Nat /\ served[k] \in Nat
        /\ applied[k] \in Nat /\ repeated[k] \in Nat /\ lost[k] \in Nat
    BY DEF UsageInv, UsageTypes, Counts
  <2>2. /\ applied'[k] \in Nat /\ repeated'[k] \in Nat /\ lost'[k] \in Nat
    BY DEF Counts
  <2>3. InHand(s)[k] \in Nat /\ InHand(task[t])[k] \in Nat
    BY DEF UsageInv, UsageTypes, TaskOK, Counts
  <2>4. served[k] + repeated[k] = pending[k] + InBatches(k) + applied[k] + dropped[k] + lost[k]
    BY DEF UsageInv, LossObservable
  <2>5. InBatches(k) \in Nat /\ InBatches(k)' = InBatches(k) + InHand(s)[k] - InHand(task[t])[k]
    BY <1>1
  <2>6. InHand(s)[k] + applied'[k] + lost'[k] + repeated[k]
            = InHand(task[t])[k] + applied[k] + lost[k] + repeated'[k]
    OBVIOUS
  <2>7. served'[k] = served[k] /\ pending'[k] = pending[k] /\ dropped'[k] = dropped[k]
    OBVIOUS
  <2>8. PICK a, l, r, h \in Nat : /\ a = applied'[k] /\ l = lost'[k] /\ r = repeated'[k]
                                 /\ h = InHand(s)[k]
    BY <2>2, <2>3
  <2>9. InBatches(k)' = InBatches(k) + h - InHand(task[t])[k]
    BY <2>5, <2>8
  <2>10. h + a + l + repeated[k] = InHand(task[t])[k] + applied[k] + lost[k] + r
    BY <2>6, <2>8
  <2>11. served[k] + r = pending[k] + InBatches(k)' + a + dropped[k] + l
    BY <2>1, <2>3, <2>4, <2>5, <2>9, <2>10
  <2> QED BY <2>7, <2>8, <2>11
<1>4. LossObservable'
  BY <1>2, <1>3 DEF UsageInv, LossObservable
<1> QED BY <1>2, <1>4 DEF UsageInv

LEMMA ApplyUserKeeps ==
    ASSUME UsageInv, NEW t \in Tasks, NEW u, ApplyUser(t, u) PROVE UsageInv'
<1> DEFINE b == task[t].batch
           s == [task[t] EXCEPT !.batch = Remaining(@, u), !.left = @ \ {u}]
<1>1. task[t].pc = "apply" /\ Go(t, s)
  BY DEF ApplyUser, On
<1>2. /\ {"pc", "batch", "left"} \subseteq DOMAIN task[t] /\ InHand(task[t]) = b
      /\ b \in Counts /\ IsFiniteSet(Entries(b))
  BY <1>1 DEF UsageInv, UsageTypes, TaskOK, Taking, InHand
<1>3. s.pc = "apply" /\ s.batch = Only(b, Keys \ Of(u)) /\ DOMAIN s = DOMAIN task[t]
  BY <1>1, <1>2 DEF Remaining
<1> HIDE DEF s
<1>4. /\ InHand(s) = Only(b, Keys \ Of(u)) /\ InHand(s) \in Counts
      /\ Entries(InHand(s)) \subseteq Entries(b)
      /\ \A k \in Keys : InHand(s)[k] = IF k \in Of(u) THEN 0 ELSE b[k]
  BY <1>2, <1>3, OnlyCounts DEF InHand, Taking
<1>5. TaskOK(s)
  BY <1>2, <1>3, <1>4, FS_Subset DEF TaskOK
<1>6. {applied, repeated, lost} \subseteq Counts
  BY DEF UsageInv, UsageTypes
<1>7. /\ Only(b, Of(u)) \in Counts
      /\ \A k \in Keys : Only(b, Of(u))[k] = IF k \in Of(u) THEN b[k] ELSE 0
  BY <1>2, OnlyCounts
<1>8. /\ applied' \in Counts /\ UNCHANGED <<pending, dropped, served, repeated, lost>>
      /\ \A k \in Keys : applied'[k] = applied[k] + (IF k \in Of(u) THEN b[k] ELSE 0)
  BY <1>6, <1>7, PlusCounts DEF ApplyUser, cancellations
<1>9. ASSUME NEW k \in Keys
      PROVE InHand(s)[k] + applied'[k] + lost'[k] + repeated[k]
                = InHand(task[t])[k] + applied[k] + lost[k] + repeated'[k]
  <2>1. b[k] \in Nat /\ applied[k] \in Nat /\ lost[k] \in Nat /\ repeated[k] \in Nat
    BY <1>2, <1>6 DEF Counts
  <2>2. PICK h, a \in Nat : h = InHand(s)[k] /\ a = applied'[k]
    BY <1>4, <1>8 DEF Counts
  <2>3. /\ h = (IF k \in Of(u) THEN 0 ELSE b[k])
        /\ a = applied[k] + (IF k \in Of(u) THEN b[k] ELSE 0)
    BY <1>4, <1>8, <2>2
  <2>4. lost'[k] = lost[k] /\ repeated'[k] = repeated[k] /\ InHand(task[t])[k] = b[k]
    BY <1>2, <1>8
  <2>5. h + a + lost[k] + repeated[k] = b[k] + applied[k] + lost[k] + repeated[k]
    BY <2>1, <2>3
  <2> QED BY <2>2, <2>4, <2>5
<1> HIDE DEF b
<1> QED BY <1>1, <1>5, <1>6, <1>8, <1>9, SettleKeeps

(* The step of a flush changes, and nothing else of it.                    *)
LEMMA ToFinish ==
    ASSUME UsageInv, NEW t \in Tasks, On(t, "apply")
    PROVE LET s == [task[t] EXCEPT !.pc = "finish"]
          IN TaskOK(s) /\ InHand(s) = InHand(task[t])
<1> DEFINE s == [task[t] EXCEPT !.pc = "finish"]
<1>1. {"pc", "batch", "left"} \subseteq DOMAIN task[t] /\ task[t].pc = "apply"
  BY DEF UsageInv, UsageTypes, TaskOK, Taking, On
<1>2. s.pc = "finish" /\ s.batch = task[t].batch /\ DOMAIN s = DOMAIN task[t]
  BY <1>1
<1> HIDE DEF s
<1>3. InHand(s) = InHand(task[t])
  BY <1>1, <1>2 DEF InHand, Taking
<1>4. TaskOK(s)
  BY <1>1, <1>2, <1>3 DEF UsageInv, UsageTypes, TaskOK
<1> QED BY <1>3, <1>4 DEF s

LEMMA AppliedKeeps ==
    ASSUME UsageInv, NEW t \in Tasks, Applied(t) PROVE UsageInv'
<1>1. PICK s : s = [task[t] EXCEPT !.pc = "finish"]
  OBVIOUS
<1>2. TaskOK(s) /\ InHand(s) = InHand(task[t]) /\ Go(t, s)
  BY <1>1, ToFinish DEF Applied
<1>3. UNCHANGED <<pending, dropped, served, applied, repeated, lost>>
  BY DEF Applied, ledger, cancellations
<1>4. {applied', repeated', lost'} \subseteq Counts
  BY <1>3 DEF UsageInv, UsageTypes
<1> QED BY <1>2, <1>3, <1>4, SettleKeeps

(* A call that reports a failure has applied its user's counts, or not.    *)
LEMMA ApplyFailsKeeps ==
    ASSUME UsageInv, NEW t \in Tasks, NEW u, NEW committed, ApplyFails(t, u, committed)
    PROVE UsageInv'
<1>1. PICK s : s = [task[t] EXCEPT !.pc = "finish"]
  OBVIOUS
<1>2. TaskOK(s) /\ InHand(s) = InHand(task[t]) /\ Go(t, s)
  BY <1>1, ToFinish DEF ApplyFails
<1>3. PICK done : /\ done = IF committed THEN Only(task[t].batch, Of(u)) ELSE Nothing
                  /\ applied' = Plus(applied, done) /\ repeated' = Plus(repeated, done)
  BY DEF ApplyFails
<1>4. task[t].batch \in Counts
  BY DEF UsageInv, UsageTypes, TaskOK, InHand, Taking, ApplyFails, On
<1>5. done \in Counts
  BY <1>3, <1>4, OnlyCounts, NothingHeld
<1>6. {applied, repeated, lost} \subseteq Counts
  BY DEF UsageInv, UsageTypes
<1>7. /\ {applied', repeated', lost'} \subseteq Counts
      /\ UNCHANGED <<pending, dropped, served, lost>>
      /\ \A k \in Keys : applied'[k] = applied[k] + done[k] /\ repeated'[k] = repeated[k] + done[k]
  BY <1>3, <1>5, <1>6, PlusCounts DEF ApplyFails, cancellations
<1>8. \A k \in Keys : /\ done[k] \in Nat /\ InHand(task[t])[k] \in Nat
                      /\ applied[k] \in Nat /\ repeated[k] \in Nat /\ lost[k] \in Nat
  BY <1>5, <1>6 DEF Counts, UsageInv, UsageTypes, TaskOK
<1>9. \A k \in Keys : InHand(s)[k] + applied'[k] + lost'[k] + repeated[k]
                          = InHand(task[t])[k] + applied[k] + lost[k] + repeated'[k]
  BY <1>2, <1>7, <1>8
<1> QED BY <1>2, <1>7, <1>9, SettleKeeps

LEMMA CancelKeeps ==
    ASSUME UsageInv, NEW r \in Readers, Cancel(r) PROVE UsageInv'
<1>1. PICK s : s = [pc |-> "idle"]
  OBVIOUS
<1>2. /\ r \in Tasks /\ Go(r, s) /\ s.pc \notin Taking
      /\ UNCHANGED <<pending, dropped, applied, served, repeated>>
  BY <1>1 DEF Cancel, Tasks, Taking
<1>3. CASE On(r, "wait") /\ UNCHANGED cancellations
  BY <1>2, <1>3, NothingMoves DEF On, Taking, cancellations
<1>4. CASE On(r, "apply") /\ lost' = Plus(lost, task[r].batch)
  <2>1. TaskOK(s) /\ \A k \in Keys : InHand(s)[k] = 0
    BY <1>2, NothingHeld DEF TaskOK, InHand
  <2>2. InHand(task[r]) = task[r].batch /\ task[r].batch \in Counts
    BY <1>2, <1>4 DEF UsageInv, UsageTypes, TaskOK, InHand, Taking, On
  <2>3. {applied, repeated, lost} \subseteq Counts
    BY DEF UsageInv, UsageTypes
  <2>4. /\ {applied', repeated', lost'} \subseteq Counts
        /\ \A k \in Keys : lost'[k] = lost[k] + task[r].batch[k]
    BY <1>2, <1>4, <2>2, <2>3, PlusCounts
  <2>5. \A k \in Keys : /\ task[r].batch[k] \in Nat
                        /\ applied[k] \in Nat /\ repeated[k] \in Nat /\ lost[k] \in Nat
    BY <2>2, <2>3 DEF Counts
  <2>6. \A k \in Keys : InHand(s)[k] + applied'[k] + lost'[k] + repeated[k]
                            = InHand(task[r])[k] + applied[k] + lost[k] + repeated'[k]
    BY <1>2, <2>1, <2>2, <2>4, <2>5
  <2> QED BY <1>2, <2>1, <2>4, <2>6, SettleKeeps
<1> QED BY <1>3, <1>4 DEF Cancel

(* What is requeued beyond the limit is counted as dropped.                *)
LEMMA FinishKeeps ==
    ASSUME UsageInv, NEW t \in Tasks, NEW succeeds, NEW next, Finish(t, succeeds, next),
           next.pc \notin Taking
    PROVE UsageInv'
<1> DEFINE b == task[t].batch
           merged == Requeued(b)
<1>1. /\ On(t, "finish") /\ Go(t, next)
      /\ UNCHANGED <<applied, served, repeated, lost>>
  BY DEF Finish, cancellations
<1>2. PICK D \in SUBSET (Entries(b) \ Entries(pending)) :
         /\ Cardinality(D) = Overflow(merged)
         /\ pending' = Only(merged, Keys \ D) /\ dropped' = Plus(dropped, Only(merged, D))
  BY DEF Finish
<1>3. /\ InHand(task[t]) = b /\ b \in Counts /\ IsFiniteSet(Entries(b))
      /\ pending \in Counts /\ IsFiniteSet(Entries(pending)) /\ dropped \in Counts
  BY <1>1 DEF UsageInv, UsageTypes, TaskOK, InHand, Taking, On
<1>4. /\ merged \in Counts /\ \A k \in Keys : merged[k] = pending[k] + b[k]
      /\ Entries(merged) = Entries(pending) \cup Entries(b)
  BY <1>3, PlusCounts DEF Requeued
<1> HIDE DEF merged, b
<1>5. TaskOK(next) /\ \A k \in Keys : InHand(next)[k] = 0
  BY NothingHeld DEF TaskOK, InHand
<1>6. /\ task' = [u \in Tasks |-> task'[u]] /\ \A u \in Tasks : TaskOK(task'[u])
      /\ \A k \in Keys : /\ InBatches(k) \in Nat /\ InBatches(k)' \in Nat
                         /\ InBatches(k)' = InBatches(k) + InHand(next)[k] - InHand(task[t])[k]
  BY <1>1, <1>5, TaskMoves DEF UsageInv
<1>7. /\ pending' \in Counts /\ Entries(pending)' = Entries(merged) \ D
      /\ \A k \in Keys : pending'[k] = IF k \in D THEN 0 ELSE merged[k]
  <2>1. Entries(merged) \cap (Keys \ D) = Entries(merged) \ D
    BY DEF Entries
  <2>2. Entries(pending)' = Entries(Only(merged, Keys \ D))
    BY <1>2 DEF Entries
  <2> QED BY <1>2, <1>4, <2>1, <2>2, OnlyCounts
<1>8. /\ dropped' \in Counts
      /\ \A k \in Keys : dropped'[k] = dropped[k] + (IF k \in D THEN merged[k] ELSE 0)
  <2>1. /\ Only(merged, D) \in Counts
        /\ \A k \in Keys : Only(merged, D)[k] = IF k \in D THEN merged[k] ELSE 0
    BY <1>4, OnlyCounts
  <2> QED BY <1>2, <1>3, <2>1, PlusCounts
<1>9. IsFiniteSet(Entries(pending)') /\ Cardinality(Entries(pending)') <= BufferLimit
  <2>1. IsFiniteSet(Entries(merged)) /\ D \subseteq Entries(merged)
    <3>1. PICK x, y : x = Entries(pending) /\ y = Entries(b)
      OBVIOUS
    <3>2. IsFiniteSet(x \cup y)
      BY <1>3, <3>1, FS_Union
    <3> QED BY <1>4, <3>1, <3>2
  <2>2. /\ IsFiniteSet(Entries(merged) \ D) /\ IsFiniteSet(D)
        /\ Cardinality(Entries(merged) \ D)
               = Cardinality(Entries(merged)) - Cardinality(Entries(merged) \cap D)
    BY <2>1, FS_Difference, FS_Subset
  <2>3. Entries(merged) \cap D = D /\ Cardinality(Entries(merged)) \in Nat
    BY <2>1, FS_CardinalityType
  <2>4. Cardinality(D) = IF Cardinality(Entries(merged)) > BufferLimit
                         THEN Cardinality(Entries(merged)) - BufferLimit ELSE 0
    BY <1>2 DEF Overflow
  <2>5. Cardinality(Entries(merged)) - Cardinality(D) <= BufferLimit
    BY <2>3, <2>4, LimitsAre
  <2> QED BY <1>7, <2>2, <2>3, <2>5
<1>10. UsageTypes'
  BY <1>1, <1>6, <1>7, <1>8, <1>9 DEF UsageInv, UsageTypes
<1>11. ASSUME NEW k \in Keys
       PROVE served'[k] + repeated'[k]
                 = pending'[k] + InBatches(k)' + applied'[k] + dropped'[k] + lost'[k]
  <2>1. /\ pending[k] \in Nat /\ dropped[k] \in Nat /\ b[k] \in Nat
        /\ applied[k] \in Nat /\ lost[k] \in Nat
    BY <1>3 DEF UsageInv, UsageTypes, Counts
  <2>2. InBatches(k) \in Nat /\ InBatches(k)' \in Nat /\ InBatches(k)' = InBatches(k) - b[k]
    <3>1. InHand(next)[k] = 0 /\ InHand(task[t])[k] = b[k]
      BY <1>3, <1>5
    <3> QED BY <1>6, <2>1, <3>1
  <2>3. pending'[k] + dropped'[k] = pending[k] + b[k] + dropped[k]
    BY <1>4, <1>7, <1>8, <2>1
  <2>4. pending'[k] \in Nat /\ dropped'[k] \in Nat
    BY <1>7, <1>8 DEF Counts
  <2>5. served[k] + repeated[k] = pending[k] + InBatches(k) + applied[k] + dropped[k] + lost[k]
    BY DEF UsageInv, LossObservable
  <2>6. PICK p, d, i \in Nat : p = pending'[k] /\ d = dropped'[k] /\ i = InBatches(k)'
    BY <2>2, <2>4
  <2>7. p + d = pending[k] + b[k] + dropped[k] /\ i = InBatches(k) - b[k]
    BY <2>2, <2>3, <2>6
  <2>8. served[k] + repeated[k] = p + i + applied[k] + d + lost[k]
    BY <2>1, <2>2, <2>5, <2>7
  <2> QED BY <1>1, <2>6, <2>8
<1>12. LossObservable'
  BY <1>9, <1>11 DEF LossObservable
<1> QED BY <1>10, <1>12 DEF UsageInv

LEMMA ReaderKeeps ==
    ASSUME UsageInv, NEW r \in Readers, NEW u,
           FlushUser(r, u) \/ ReaderStep(r) \/ Cancel(r)
    PROVE UsageInv'
<1>0. r \in Tasks
  BY DEF Tasks
<1>1. CASE FlushUser(r, u)
  <2>1. PICK s : /\ s = [pc |-> "wait", user |-> u, due |-> Only(served, Of(u))]
    OBVIOUS
  <2>2. /\ Go(r, s) /\ task[r].pc \notin Taking /\ s.pc \notin Taking
        /\ UNCHANGED <<pending, dropped, applied, served, repeated, lost>>
    BY <1>1, <2>1 DEF FlushUser, On, Taking, ledger, cancellations
  <2> QED BY <1>0, <2>2, NothingMoves
<1>2. CASE FlushUserTake(r)
  <2>1. PICK v, s : /\ v = task[r].user
                    /\ s = [pc |-> "apply", batch |-> Only(pending, Of(v)), users |-> {v},
                            left |-> {v}, due |-> task[r].due]
    OBVIOUS
  <2>2. /\ Go(r, s) /\ Take(Of(v), {v}) /\ task[r].pc \notin Taking
        /\ UNCHANGED <<dropped, applied, served, repeated, lost>>
    BY <1>2, <2>1 DEF FlushUserTake, On, Taking, ledger, cancellations
  <2>3. InHand(s) = Only(pending, Of(v)) /\ {"pc", "batch", "left"} \subseteq DOMAIN s
    BY <2>1 DEF InHand, Taking
  <2>4. /\ Only(pending, Of(v)) \in Counts /\ IsFiniteSet(Entries(pending))
        /\ Entries(Only(pending, Of(v))) \subseteq Entries(pending)
    BY OnlyCounts DEF UsageInv, UsageTypes
  <2>5. TaskOK(s)
    BY <2>3, <2>4, FS_Subset DEF TaskOK
  <2> QED BY <1>0, <2>2, <2>3, <2>5, TakeKeeps
<1>3. CASE FlushUserEmpty(r)
  <2>1. PICK s : s = [pc |-> "flushed", due |-> task[r].due]
    OBVIOUS
  <2>2. /\ Go(r, s) /\ task[r].pc \notin Taking /\ s.pc \notin Taking
        /\ UNCHANGED <<pending, dropped, applied, served, repeated, lost>>
    BY <1>3, <2>1 DEF FlushUserEmpty, On, Taking, ledger, cancellations
  <2> QED BY <1>0, <2>2, NothingMoves
<1>4. CASE Continue(r)
  <2>1. PICK s : s = [pc |-> "idle"]
    OBVIOUS
  <2>2. /\ Go(r, s) /\ task[r].pc \notin Taking /\ s.pc \notin Taking
        /\ UNCHANGED <<pending, dropped, applied, served, repeated, lost>>
    BY <1>4, <2>1 DEF Continue, On, Taking, ledger, cancellations
  <2> QED BY <1>0, <2>2, NothingMoves
<1>5. CASE FlushUserFinish(r)
  <2>1. /\ [pc |-> "flushed", due |-> task[r].due].pc \notin Taking
        /\ [pc |-> "idle"].pc \notin Taking
    BY DEF Taking
  <2> QED BY <1>0, <1>5, <2>1, FinishKeeps DEF FlushUserFinish
<1>6. CASE Cancel(r)
  BY <1>6, CancelKeeps
<1> QED BY <1>1, <1>2, <1>3, <1>4, <1>5, <1>6 DEF ReaderStep

LEMMA WorkerKeeps ==
    ASSUME UsageInv, NEW w \in Workers, WorkerStep(w) PROVE UsageInv'
<1>0. w \in Tasks
  BY DEF Tasks
<1>1. /\ [pc |-> "drain"].pc \notin Taking /\ [pc |-> "final"].pc \notin Taking
      /\ [pc |-> "idle"].pc \notin Taking /\ [pc |-> "stopped"].pc \notin Taking
      /\ AfterDrain.pc \notin Taking
  BY DEF Taking, AfterDrain
<1>2. CASE WorkerWakes(w)
  BY <1>0, <1>1, <1>2, NothingMoves
     DEF WorkerWakes, On, Taking, ledger, cancellations
<1>3. CASE WorkerTake(w)
  <2>1. PICK users, s : /\ users = {k[1] : k \in Entries(pending)}
                        /\ s = [pc |-> "apply", batch |-> pending, users |-> users,
                                left |-> users, phase |-> task[w].pc]
    OBVIOUS
  <2>2. /\ Go(w, s) /\ Take(Keys, users) /\ task[w].pc \notin Taking
        /\ UNCHANGED <<dropped, applied, served, repeated, lost>>
    BY <1>3, <2>1 DEF WorkerTake, On, Taking, ledger, cancellations
  <2>3. InHand(s) = pending /\ {"pc", "batch", "left"} \subseteq DOMAIN s
    BY <2>1 DEF InHand, Taking
  <2>4. pending \in Counts /\ IsFiniteSet(Entries(pending)) /\ pending = Only(pending, Keys)
    BY DEF UsageInv, UsageTypes, Counts, Only
  <2>5. TaskOK(s)
    BY <2>3, <2>4 DEF TaskOK
  <2> QED BY <1>0, <2>2, <2>3, <2>4, <2>5, TakeKeeps
<1>4. CASE WorkerEmpty(w)
  <2>1. UNCHANGED <<pending, dropped, applied, served, repeated, lost>> /\ task[w].pc \notin Taking
    BY <1>4 DEF WorkerEmpty, On, Taking, ledger, cancellations
  <2>2. Go(w, AfterDrain) \/ Go(w, [pc |-> "stopped"])
    BY <1>4 DEF WorkerEmpty
  <2> QED BY <1>0, <1>1, <2>1, <2>2, NothingMoves
<1>5. CASE WorkerFinish(w)
  <2>1. \E succeeds, next : Finish(w, succeeds, next) /\ next.pc \notin Taking
    BY <1>1, <1>5 DEF WorkerFinish
  <2> QED BY <1>0, <2>1, FinishKeeps
<1> QED BY <1>2, <1>3, <1>4, <1>5 DEF WorkerStep

LEMMA RestKeeps ==
    ASSUME UsageInv, Stop \/ UNCHANGED vars PROVE UsageInv'
<1>1. UNCHANGED <<pending, task, dropped, applied, served, repeated, lost>>
  BY DEF Stop, vars, cancellations
<1>2. UsageTypes'
  BY <1>1 DEF UsageInv, UsageTypes, Entries
<1>3. \A k \in Keys : InBatches(k)' = InBatches(k)
  BY <1>1 DEF InBatches, Batch
<1>4. LossObservable'
  BY <1>1, <1>3 DEF UsageInv, LossObservable, Entries
<1> QED BY <1>2, <1>4 DEF UsageInv

LEMMA UsageStepKeeps == UsageInv /\ [Next]_vars => UsageInv'
<1> SUFFICES ASSUME UsageInv, [Next]_vars PROVE UsageInv'
  OBVIOUS
<1>1. CASE \E k \in Keys : Record(k)
  BY <1>1, RecordKeeps
<1>2. ASSUME NEW r \in Readers, (\E u \in Users : FlushUser(r, u)) \/ ReaderStep(r) \/ Cancel(r)
      PROVE UsageInv'
  BY <1>2, ReaderKeeps
<1>3. CASE \E w \in Workers : WorkerStep(w)
  BY <1>3, WorkerKeeps
<1>4. CASE \E t \in Tasks : Flush(t)
  BY <1>4, ApplyUserKeeps, ApplyFailsKeeps, AppliedKeeps DEF Flush
<1>5. CASE Stop \/ UNCHANGED vars
  BY <1>5, RestKeeps
<1> QED BY <1>1, <1>2, <1>3, <1>4, <1>5 DEF Next

(* In every reachable state each serve is accounted for.                   *)
LEMMA UsageInvariant == Spec => []UsageInv
BY UsageInitially, UsageStepKeeps, PTL DEF Spec

(* However readers, workers, cancellations and failures interleave, what   *)
(* was served and not written is in the buffer, in a batch in hand, or is  *)
(* counted as dropped (memory/usage.py, UsageBuffer.flush).                *)
THEOREM LossIsObservable == Spec => []LossObservable
<1>1. UsageInv => LossObservable
  BY DEF UsageInv
<1> QED BY <1>1, UsageInvariant, PTL

(***************************************************************************)
(* One queue: what waits (w), what a repository call holds (h), what was   *)
(* recorded and neither written nor counted as dropped (o), and where its  *)
(* worker is (p).  Only a call in progress holds items.                    *)
(***************************************************************************)
InCall == {"flush", "last", "close"}

Kept(w, h, o, p) ==
    /\ w \in Seq(Items) /\ h \in Seq(Items) /\ o \subseteq Items
    /\ Len(w) <= QueueLimit
    /\ p \notin InCall => h = <<>>
    /\ o \subseteq ToSet(w) \cup ToSet(h)

LEMMA Elements ==
    ASSUME NEW S, NEW s \in Seq(S)
    PROVE ToSet(s) = {s[i] : i \in 1..Len(s)}
BY DEF ToSet

(* A sequence has the elements of its two parts, and no others.            *)
LEMMA Halves ==
    ASSUME NEW S, NEW s \in Seq(S), NEW n \in 0..Len(s)
    PROVE /\ SubSeq(s, 1, n) \in Seq(S) /\ SubSeq(s, n + 1, Len(s)) \in Seq(S)
          /\ Len(SubSeq(s, n + 1, Len(s))) = Len(s) - n
          /\ ToSet(s) = ToSet(SubSeq(s, 1, n)) \cup ToSet(SubSeq(s, n + 1, Len(s)))
<1> DEFINE a == SubSeq(s, 1, n)
           b == SubSeq(s, n + 1, Len(s))
<1>0. Len(s) \in Nat /\ n \in Nat /\ n <= Len(s)
  OBVIOUS
<1>1. a \in Seq(S) /\ Len(a) = n /\ \A i \in 1..n : a[i] = s[i]
  BY <1>0
<1>2. /\ b \in Seq(S) /\ Len(b) = Len(s) - n
      /\ \A i \in 1..(Len(s) - n) : b[i] = s[n + i]
  BY <1>0
<1> HIDE DEF a, b
<1>3. ToSet(a) = {a[i] : i \in 1..n} /\ ToSet(b) = {b[i] : i \in 1..(Len(s) - n)}
  <2>1. ToSet(a) = {a[i] : i \in 1..Len(a)}
    BY <1>1, Elements
  <2>2. ToSet(b) = {b[i] : i \in 1..Len(b)}
    BY <1>2, Elements
  <2> QED BY <1>1, <1>2, <2>1, <2>2
<1>4. ToSet(s) = {s[i] : i \in 1..Len(s)}
  BY Elements
<1>5. ASSUME NEW x \in ToSet(s) PROVE x \in ToSet(a) \cup ToSet(b)
  <2>1. PICK i \in 1..Len(s) : x = s[i]
    BY <1>4
  <2>2. CASE i <= n
    BY <1>0, <1>1, <1>3, <2>1, <2>2
  <2>3. CASE i > n
    <3>1. i - n \in 1..(Len(s) - n) /\ n + (i - n) = i
      BY <1>0, <2>3
    <3> QED BY <1>2, <1>3, <2>1, <3>1
  <2> QED BY <1>0, <2>2, <2>3
<1>6. ToSet(a) \subseteq ToSet(s)
  BY <1>0, <1>1, <1>3, <1>4
<1>7. ToSet(b) \subseteq ToSet(s)
  <2>1. ASSUME NEW i \in 1..(Len(s) - n) PROVE n + i \in 1..Len(s)
    BY <1>0
  <2> QED BY <1>2, <1>3, <1>4, <2>1
<1>8. ToSet(s) = ToSet(a) \cup ToSet(b)
  BY <1>5, <1>6, <1>7
<1> QED BY <1>1, <1>2, <1>8 DEF a, b

LEMMA Limits ==
    /\ ChunkSize \in Nat \ {0} /\ QueueLimit \in Nat \ {0} /\ ChunkSize <= QueueLimit
    /\ ToSet(<<>>) = {}
BY QueueLimitsAssumption DEF ToSet

(***************************************************************************)
(* The four things that happen to a queue.                                 *)
(***************************************************************************)
LEMMA TakeKept ==
    ASSUME NEW w, NEW o, NEW p, Kept(w, <<>>, o, p), NEW n \in 0..Len(w), NEW call \in InCall
    PROVE Kept(SubSeq(w, n + 1, Len(w)), SubSeq(w, 1, n), o, call)
<1>1. w \in Seq(Items) /\ Len(w) \in Nat /\ n \in Nat
  BY DEF Kept
<1>2. /\ SubSeq(w, 1, n) \in Seq(Items) /\ SubSeq(w, n + 1, Len(w)) \in Seq(Items)
      /\ Len(SubSeq(w, n + 1, Len(w))) = Len(w) - n
      /\ ToSet(w) = ToSet(SubSeq(w, 1, n)) \cup ToSet(SubSeq(w, n + 1, Len(w)))
  BY <1>1, Halves
<1>3. Len(w) - n <= QueueLimit
  BY <1>1, Limits DEF Kept
<1> QED BY <1>2, <1>3, Limits DEF Kept

LEMMA SuccessKept ==
    ASSUME NEW w, NEW h, NEW o, NEW p, Kept(w, h, o, p), NEW next
    PROVE Kept(w, <<>>, o \ (ToSet(h) \ ToSet(w)), next)
<1>1. <<>> \in Seq(Items)
  OBVIOUS
<1> QED BY <1>1, Limits DEF Kept

LEMMA FailureKept ==
    ASSUME NEW w, NEW h, NEW o, NEW p, Kept(w, h, o, p), NEW next,
           NEW e, e = IF Len(h \o w) > QueueLimit THEN Len(h \o w) - QueueLimit ELSE 0
    PROVE Kept(SubSeq(h \o w, e + 1, Len(h \o w)), <<>>, o \ ToSet(SubSeq(h \o w, 1, e)), next)
<1>0. PICK c : c = h \o w
  OBVIOUS
<1>1. c \in Seq(Items) /\ ToSet(c) = ToSet(h) \cup ToSet(w) /\ Len(c) \in Nat
  BY <1>0, Joined DEF Kept
<1>2. e \in 0..Len(c) /\ Len(c) - e <= QueueLimit
  BY <1>0, <1>1, Limits
<1>3. /\ SubSeq(c, e + 1, Len(c)) \in Seq(Items)
      /\ Len(SubSeq(c, e + 1, Len(c))) = Len(c) - e
      /\ ToSet(c) = ToSet(SubSeq(c, 1, e)) \cup ToSet(SubSeq(c, e + 1, Len(c)))
  BY <1>1, <1>2, Halves
<1>4. o \ ToSet(SubSeq(c, 1, e)) \subseteq ToSet(SubSeq(c, e + 1, Len(c)))
  BY <1>1, <1>3 DEF Kept
<1>5. Kept(SubSeq(c, e + 1, Len(c)), <<>>, o \ ToSet(SubSeq(c, 1, e)), next)
  <2>1. PICK d, x : d = SubSeq(c, e + 1, Len(c)) /\ x = o \ ToSet(SubSeq(c, 1, e))
    OBVIOUS
  <2>2. d \in Seq(Items) /\ Len(d) <= QueueLimit /\ x \subseteq ToSet(d)
    BY <1>2, <1>3, <1>4, <2>1
  <2>3. x \subseteq Items /\ <<>> \in Seq(Items)
    BY <2>1 DEF Kept
  <2> QED BY <2>1, <2>2, <2>3 DEF Kept
<1> QED BY <1>0, <1>5

LEMMA AppendKept ==
    ASSUME NEW w \in Seq(Items), NEW i \in Items
    PROVE /\ Append(w, i) \in Seq(Items) /\ Len(Append(w, i)) = Len(w) + 1
          /\ ToSet(Append(w, i)) = ToSet(w) \cup {i}
<1>1. PICK t : t = <<i>>
  OBVIOUS
<1>2. t \in Seq(Items) /\ Len(t) = 1 /\ ToSet(t) = {i} /\ Append(w, i) = w \o t
  BY <1>1 DEF ToSet
<1>3. /\ w \o t \in Seq(Items) /\ Len(w \o t) = Len(w) + Len(t)
      /\ ToSet(w \o t) = ToSet(w) \cup ToSet(t)
  BY <1>2, Joined
<1> QED BY <1>2, <1>3

LEMMA TailKept ==
    ASSUME NEW w \in Seq(Items), w # <<>>
    PROVE /\ Tail(w) \in Seq(Items) /\ Len(Tail(w)) = Len(w) - 1
          /\ ToSet(w) \subseteq {Head(w)} \cup ToSet(Tail(w))
<1>1. Len(w) \in Nat \ {0}
  OBVIOUS
<1>2. PICK t : t = Tail(w)
  OBVIOUS
<1>3. /\ t \in Seq(Items) /\ Len(t) = Len(w) - 1 /\ Head(w) = w[1]
      /\ \A i \in 1..(Len(w) - 1) : t[i] = w[i + 1]
  BY <1>1, <1>2
<1>4. ToSet(w) = {w[i] : i \in 1..Len(w)} /\ ToSet(t) = {t[i] : i \in 1..(Len(w) - 1)}
  BY <1>3, Elements
<1>5. ASSUME NEW x \in ToSet(w), x # Head(w) PROVE x \in ToSet(t)
  <2>1. PICK i \in 1..Len(w) : x = w[i]
    BY <1>4
  <2>2. i - 1 \in 1..(Len(w) - 1) /\ (i - 1) + 1 = i
    BY <1>1, <1>3, <1>5, <2>1
  <2>3. x = t[i - 1]
    BY <1>3, <2>1, <2>2
  <2> QED BY <1>4, <2>2, <2>3
<1> QED BY <1>2, <1>3, <1>5

LEMMA RecordKept ==
    ASSUME NEW q \in Queues, NEW i \in Items, NEW h, NEW o, NEW p, Kept(waiting[q], h, o, p)
    PROVE Kept(Enqueued(q, i), h, (o \cup {i}) \ Displaced(q, i), p)
<1>0. PICK w : w = waiting[q]
  OBVIOUS
<1>1. w \in Seq(Items) /\ Len(w) \in Nat /\ Len(w) <= QueueLimit
  BY <1>0 DEF Kept
<1>2. CASE ~Full(q)
  <2>1. Enqueued(q, i) = Append(w, i) /\ Displaced(q, i) = {} /\ Len(w) + 1 <= QueueLimit
    BY <1>0, <1>1, <1>2, Limits DEF Full, Enqueued, Displaced
  <2> QED BY <1>0, <1>1, <2>1, AppendKept DEF Kept
<1>3. CASE Full(q) /\ q = "usage"
  <2>1. Enqueued(q, i) = w /\ Displaced(q, i) = {i}
    BY <1>0, <1>3 DEF Enqueued, Displaced
  <2> QED BY <1>0, <2>1 DEF Kept
<1>4. CASE Full(q) /\ q # "usage"
  <2>1. Enqueued(q, i) = Append(Tail(w), i) /\ Displaced(q, i) = {Head(w)} /\ Len(w) = QueueLimit
    BY <1>0, <1>1, <1>4, Limits DEF Full, Enqueued, Displaced
  <2>2. w # <<>>
    BY <1>1, <2>1, Limits
  <2>3. PICK t : t = Tail(w)
    OBVIOUS
  <2>4. t \in Seq(Items) /\ Len(t) = Len(w) - 1 /\ ToSet(w) \subseteq {Head(w)} \cup ToSet(t)
    BY <1>1, <2>2, <2>3, TailKept
  <2>5. /\ Append(t, i) \in Seq(Items) /\ Len(Append(t, i)) = Len(t) + 1
        /\ ToSet(Append(t, i)) = ToSet(t) \cup {i}
    BY <2>4, AppendKept
  <2>6. Len(Append(t, i)) <= QueueLimit
    BY <1>1, <2>4, <2>5
  <2> QED BY <1>0, <1>1, <2>1, <2>3, <2>4, <2>5, <2>6 DEF Kept
<1> QED BY <1>2, <1>3, <1>4

(***************************************************************************)
(* The invariant: every queue keeps its items, and the shutdown goes on    *)
(* only when the workers have ended.  "Down" says that the coordinator has *)
(* waited for all of them; the flush that closing the usage buffer may run *)
(* is the one call after that, and it ends before the engine is reached.   *)
(***************************************************************************)
QueuesType ==
    /\ DOMAIN waiting = Queues /\ DOMAIN inHand = Queues /\ DOMAIN owed = Queues
    /\ DOMAIN pc = Queues /\ asked \in [Queues -> BOOLEAN]
    /\ DOMAIN records = Queues

Ledger == \A q \in Queues : Kept(waiting[q], inHand[q], owed[q], pc[q])

Closing == {"http", "usage", "engine"}
Down == phase \in Closing \/ closed # {}
Shutdown ==
    /\ closed \subseteq tried
    /\ phase \in {"serving", "stopping"} => tried = {}
    /\ Down => \A q \in Queues : asked[q] /\ pc[q] \in {"ended", "close"}
    /\ \A q \in Queues : pc[q] = "close" => q = "usage" /\ phase = "usage" /\ "usage" \in tried
    /\ "engine" \in tried => phase = "exited"

WorkersInv == QueuesType /\ Ledger /\ Shutdown

LEMMA WorkersStart == WorkersInit => WorkersInv
<1> SUFFICES ASSUME WorkersInit PROVE WorkersInv
  OBVIOUS
<1>1. QueuesType
  BY DEF WorkersInit, QueuesType
<1>2. ASSUME NEW q \in Queues PROVE Kept(waiting[q], inHand[q], owed[q], pc[q])
  <2>1. waiting[q] = <<>> /\ inHand[q] = <<>> /\ owed[q] = {}
    BY DEF WorkersInit
  <2>2. <<>> \in Seq(Items) /\ Len(<<>>) = 0
    OBVIOUS
  <2> QED BY <2>1, <2>2, Limits DEF Kept
<1>3. Shutdown
  BY DEF WorkersInit, Shutdown, Down, Closing
<1> QED BY <1>1, <1>2, <1>3 DEF WorkersInv, Ledger

(***************************************************************************)
(* A step of one queue.                                                    *)
(***************************************************************************)
Others(q) ==
    \A r \in Queues \ {q} : /\ waiting'[r] = waiting[r] /\ inHand'[r] = inHand[r]
                            /\ owed'[r] = owed[r] /\ pc'[r] = pc[r]

LEMMA OneQueue ==
    ASSUME Ledger, NEW q \in Queues, Others(q), Kept(waiting'[q], inHand'[q], owed'[q], pc'[q])
    PROVE Ledger'
BY DEF Ledger, Others

(* TakeItems, Succeeds and Fails, as functions of the queue they work on.  *)
LEMMA Takes ==
    ASSUME WorkersInv, NEW q \in Queues, pc[q] \notin InCall, NEW call \in InCall,
           TakeItems(q, call), UNCHANGED <<owed, asked, records>>
    PROVE Ledger' /\ QueuesType'
<1>1. /\ waiting' = [waiting EXCEPT ![q] = SubSeq(@, Taken(q) + 1, Len(@))]
      /\ inHand' = [inHand EXCEPT ![q] = SubSeq(waiting[q], 1, Taken(q))]
      /\ pc' = [pc EXCEPT ![q] = call]
  BY DEF TakeItems
<1>2. /\ waiting'[q] = SubSeq(waiting[q], Taken(q) + 1, Len(waiting[q]))
      /\ inHand'[q] = SubSeq(waiting[q], 1, Taken(q)) /\ pc'[q] = call /\ owed'[q] = owed[q]
      /\ Others(q)
      /\ DOMAIN waiting' = Queues /\ DOMAIN inHand' = Queues /\ DOMAIN pc' = Queues
  BY <1>1 DEF WorkersInv, QueuesType, Others
<1>3. Kept(waiting[q], inHand[q], owed[q], pc[q])
  BY DEF WorkersInv, Ledger
<1>4. inHand[q] = <<>> /\ Len(waiting[q]) \in Nat
  BY <1>3 DEF Kept
<1>5. Taken(q) \in 0..Len(waiting[q])
  BY <1>4, Limits DEF Taken
<1>6. Kept(waiting'[q], inHand'[q], owed'[q], pc'[q])
  BY <1>2, <1>3, <1>4, <1>5, TakeKept
<1>7. Ledger'
  BY <1>2, <1>6, OneQueue DEF WorkersInv
<1> QED BY <1>2, <1>7 DEF WorkersInv, QueuesType

LEMMA Ends ==
    ASSUME WorkersInv, NEW q \in Queues, Succeeds(q) \/ Fails(q), NEW next,
           pc' = [pc EXCEPT ![q] = next], UNCHANGED <<asked, records>>
    PROVE Ledger' /\ QueuesType'
<1>1. Kept(waiting[q], inHand[q], owed[q], pc[q])
  BY DEF WorkersInv, Ledger
<1>2. CASE Succeeds(q)
  <2>1. /\ inHand'[q] = <<>> /\ waiting'[q] = waiting[q] /\ pc'[q] = next
        /\ owed'[q] = owed[q] \ (ToSet(inHand[q]) \ ToSet(waiting[q]))
        /\ Others(q)
        /\ DOMAIN inHand' = Queues /\ DOMAIN owed' = Queues
        /\ DOMAIN waiting' = Queues /\ DOMAIN pc' = Queues
    BY <1>2 DEF Succeeds, WorkersInv, QueuesType, Others
  <2>2. Kept(waiting'[q], inHand'[q], owed'[q], pc'[q])
    BY <1>1, <2>1, SuccessKept
  <2>3. Ledger'
    BY <2>1, <2>2, OneQueue DEF WorkersInv
  <2> QED BY <2>1, <2>3 DEF WorkersInv, QueuesType
<1>3. CASE Fails(q)
  <2>1. PICK e : e = Excess(q)
    OBVIOUS
  <2>2. /\ inHand'[q] = <<>> /\ pc'[q] = next
        /\ waiting'[q] = SubSeq(inHand[q] \o waiting[q], e + 1, Len(inHand[q] \o waiting[q]))
        /\ owed'[q] = owed[q] \ ToSet(SubSeq(inHand[q] \o waiting[q], 1, e))
        /\ Others(q)
        /\ DOMAIN inHand' = Queues /\ DOMAIN owed' = Queues
        /\ DOMAIN waiting' = Queues /\ DOMAIN pc' = Queues
    <3>1. PICK w, o : /\ w = RequeuedItems(q)
                      /\ o = owed[q] \ ToSet(SubSeq(Combined(q), 1, Excess(q)))
      OBVIOUS
    <3>2. /\ waiting' = [waiting EXCEPT ![q] = w] /\ inHand' = [inHand EXCEPT ![q] = <<>>]
          /\ owed' = [owed EXCEPT ![q] = o]
      BY <1>3, <3>1 DEF Fails
    <3>3. /\ waiting'[q] = w /\ inHand'[q] = <<>> /\ owed'[q] = o /\ pc'[q] = next
          /\ DOMAIN inHand' = Queues /\ DOMAIN owed' = Queues
          /\ DOMAIN waiting' = Queues /\ DOMAIN pc' = Queues
      BY <3>2 DEF WorkersInv, QueuesType
    <3>5. Others(q)
      BY <3>2 DEF WorkersInv, QueuesType, Others
    <3>4. /\ w = SubSeq(inHand[q] \o waiting[q], e + 1, Len(inHand[q] \o waiting[q]))
          /\ o = owed[q] \ ToSet(SubSeq(inHand[q] \o waiting[q], 1, e))
      BY <2>1, <3>1 DEF RequeuedItems, Combined
    <3> QED BY <3>3, <3>4, <3>5
  <2>3. e = IF Len(inHand[q] \o waiting[q]) > QueueLimit
            THEN Len(inHand[q] \o waiting[q]) - QueueLimit ELSE 0
    BY <2>1 DEF Excess, Combined
  <2>4. Kept(waiting'[q], inHand'[q], owed'[q], pc'[q])
    <3>1. PICK w, h, o, p : w = waiting[q] /\ h = inHand[q] /\ o = owed[q] /\ p = pc[q]
      OBVIOUS
    <3>2. Kept(w, h, o, p) /\ e = IF Len(h \o w) > QueueLimit THEN Len(h \o w) - QueueLimit ELSE 0
      BY <1>1, <2>3, <3>1
    <3>3. Kept(SubSeq(h \o w, e + 1, Len(h \o w)), <<>>, o \ ToSet(SubSeq(h \o w, 1, e)), next)
      BY <3>2, FailureKept
    <3> QED BY <2>2, <3>1, <3>3
  <2>5. Ledger'
    BY <2>2, <2>4, OneQueue DEF WorkersInv
  <2> QED BY <2>2, <2>5 DEF WorkersInv, QueuesType
<1> QED BY <1>2, <1>3

(* The worker moves, outside a call, and its queue stays.                  *)
LEMMA QueueMoves ==
    ASSUME WorkersInv, NEW q \in Queues, pc[q] \notin InCall, NEW next, next \notin InCall,
           pc' = [pc EXCEPT ![q] = next], UNCHANGED <<waiting, inHand, owed, asked, records>>
    PROVE Ledger' /\ QueuesType'
<1>1. Kept(waiting[q], inHand[q], owed[q], pc[q])
  BY DEF WorkersInv, Ledger
<1>2. pc'[q] = next /\ Others(q) /\ DOMAIN pc' = Queues
  BY DEF WorkersInv, QueuesType, Others
<1>3. Kept(waiting'[q], inHand'[q], owed'[q], pc'[q])
  BY <1>1, <1>2 DEF Kept
<1> QED BY <1>2, <1>3, OneQueue DEF WorkersInv, QueuesType

(***************************************************************************)
(* The worker's steps: none is possible once it ended, so the shutdown is  *)
(* not disturbed.                                                          *)
(***************************************************************************)
LEMMA Busy ==
    ASSUME WorkersInv, NEW q \in Queues, pc[q] \notin {"ended", "close"}, NEW next,
           next # "close", pc' = [pc EXCEPT ![q] = next], UNCHANGED <<phase, closed, tried, asked>>
    PROVE Shutdown'
<1>1. ~Down
  BY DEF WorkersInv, Shutdown
<1>2. \A r \in Queues : pc'[r] = "close" => pc[r] = "close"
  BY DEF WorkersInv, QueuesType
<1> QED BY <1>1, <1>2 DEF WorkersInv, Shutdown, Down

LEMMA WorkerSteps ==
    ASSUME WorkersInv, NEW q \in Queues, QueueStep(q)
    PROVE WorkersInv'
<1>1. CASE Wait(q)
  <2>1. /\ pc[q] = "wait" /\ pc' = [pc EXCEPT ![q] = "drain"]
        /\ UNCHANGED <<waiting, inHand, asked, owed, records, phase, closed, tried>>
    BY <1>1 DEF Wait
  <2> QED BY <2>1, QueueMoves, Busy DEF InCall, WorkersInv
<1>2. CASE Drain(q)
  <2>1. pc[q] = "drain" /\ UNCHANGED <<asked, owed, records, phase, closed, tried>>
    BY <1>2 DEF Drain
  <2>2. CASE TakeItems(q, "flush")
    <3>1. pc' = [pc EXCEPT ![q] = "flush"]
      BY <2>2 DEF TakeItems
    <3> QED BY <2>1, <2>2, <3>1, Takes, Busy DEF InCall, WorkersInv
  <2>3. ASSUME NEW next \in Drained(q), pc' = [pc EXCEPT ![q] = next], UNCHANGED <<waiting, inHand>>
        PROVE WorkersInv'
    <3>1. next \in {"final", "wait", "purge"}
      BY <2>3 DEF Drained, Rest
    <3> QED BY <2>1, <2>3, <3>1, QueueMoves, Busy DEF InCall, WorkersInv
  <2> QED BY <1>2, <2>2, <2>3 DEF Drain
<1>3. CASE Flushed(q)
  <2>1. pc[q] = "flush" /\ UNCHANGED <<asked, records, phase, closed, tried>>
    BY <1>3 DEF Flushed
  <2>2. PICK next \in {"drain"} \cup Drained(q) :
            pc' = [pc EXCEPT ![q] = next] /\ (Succeeds(q) \/ Fails(q))
    BY <1>3 DEF Flushed
  <2>3. next \in {"drain", "final", "wait", "purge"}
    BY <2>2 DEF Drained, Rest
  <2> QED BY <2>1, <2>2, <2>3, Ends, Busy DEF WorkersInv
<1>4. CASE Purged(q)
  <2>1. UNCHANGED <<waiting, inHand, asked, owed, records, phase, closed, tried>>
    BY <1>4 DEF Purged
  <2>2. pc[q] \in {"start", "purge"}
    BY <1>4 DEF Purged
  <2>3. PICK next \in {"wait", "final"} : pc' = [pc EXCEPT ![q] = next]
    BY <1>4 DEF Purged, Rest
  <2> QED BY <2>1, <2>2, <2>3, QueueMoves, Busy DEF InCall, WorkersInv
<1>5. CASE Final(q)
  <2>1. pc[q] = "final" /\ UNCHANGED <<asked, owed, records, phase, closed, tried>>
    BY <1>5 DEF Final
  <2>2. CASE TakeItems(q, "last")
    <3>1. pc' = [pc EXCEPT ![q] = "last"]
      BY <2>2 DEF TakeItems
    <3> QED BY <2>1, <2>2, <3>1, Takes, Busy DEF InCall, WorkersInv
  <2>3. CASE pc' = [pc EXCEPT ![q] = "ended"] /\ UNCHANGED <<waiting, inHand>>
    BY <2>1, <2>3, QueueMoves, Busy DEF InCall, WorkersInv
  <2> QED BY <1>5, <2>2, <2>3 DEF Final
<1>6. CASE FinalFlushed(q)
  <2>1. pc[q] = "last" /\ UNCHANGED <<asked, records, phase, closed, tried>>
    BY <1>6 DEF FinalFlushed
  <2>2. PICK next \in {"final", "ended"} :
            pc' = [pc EXCEPT ![q] = next] /\ (Succeeds(q) \/ Fails(q))
    BY <1>6 DEF FinalFlushed
  <2> QED BY <2>1, <2>2, Ends, Busy DEF WorkersInv
<1> QED BY <1>1, <1>2, <1>3, <1>4, <1>5, <1>6 DEF QueueStep

LEMMA Recording ==
    ASSUME WorkersInv, NEW q \in Queues, NEW i \in Items, RecordItem(q, i)
    PROVE WorkersInv'
<1>1. PICK w, o, n : /\ w = Enqueued(q, i) /\ o = (owed[q] \cup {i}) \ Displaced(q, i)
                     /\ n = records[q] + 1
  OBVIOUS
<1>2. /\ waiting' = [waiting EXCEPT ![q] = w] /\ owed' = [owed EXCEPT ![q] = o]
      /\ records' = [records EXCEPT ![q] = n]
      /\ UNCHANGED <<inHand, pc, asked, phase, closed, tried>>
  BY <1>1 DEF RecordItem
<1>3. /\ waiting'[q] = w /\ owed'[q] = o /\ inHand'[q] = inHand[q] /\ pc'[q] = pc[q] /\ Others(q)
      /\ QueuesType'
  BY <1>2 DEF WorkersInv, QueuesType, Others
<1>4. Kept(waiting[q], inHand[q], owed[q], pc[q])
  BY DEF WorkersInv, Ledger
<1>5. Kept(w, inHand[q], o, pc[q])
  BY <1>1, <1>4, RecordKept
<1>6. Ledger'
  BY <1>3, <1>5, OneQueue DEF WorkersInv
<1>7. Shutdown'
  BY <1>2 DEF WorkersInv, Shutdown, Down
<1> QED BY <1>3, <1>6, <1>7 DEF WorkersInv

(***************************************************************************)
(* The lifespan's steps.                                                   *)
(***************************************************************************)
LEMMA QueuesRest ==
    ASSUME WorkersInv, UNCHANGED <<waiting, inHand, owed, pc, asked, records>>
    PROVE Ledger' /\ QueuesType'
BY DEF WorkersInv, Ledger, QueuesType

LEMMA Stopping ==
    ASSUME WorkersInv, Exit \/ Stopped \/ Cancelled \/ \E q \in Queues : StopWorker(q)
    PROVE WorkersInv'
<1>1. CASE Exit
  <2>1. UNCHANGED queues /\ phase = "serving" /\ phase' = "stopping" /\ UNCHANGED <<closed, tried>>
    BY <1>1 DEF Exit
  <2>2. Ledger' /\ QueuesType'
    BY <2>1, QueuesRest DEF queues
  <2> QED BY <2>1, <2>2 DEF queues, WorkersInv, Shutdown, Down, Closing
<1>2. CASE Stopped
  <2>1. UNCHANGED queues /\ phase = "stopping" /\ phase' = "http" /\ UNCHANGED <<closed, tried>>
        /\ \A q \in Queues : asked[q] /\ pc[q] = "ended"
    BY <1>2 DEF Stopped, AllStopped
  <2>2. Ledger' /\ QueuesType'
    BY <2>1, QueuesRest DEF queues
  <2> QED BY <2>1, <2>2 DEF queues, WorkersInv, Shutdown, Down, Closing
<1>3. ASSUME NEW q \in Queues, StopWorker(q) PROVE WorkersInv'
  <2>1. /\ phase = "stopping" /\ asked' = [asked EXCEPT ![q] = TRUE]
        /\ UNCHANGED <<waiting, inHand, pc, owed, records, phase, closed, tried>>
    BY <1>3 DEF StopWorker
  <2>2. asked' \in [Queues -> BOOLEAN]
    BY <2>1 DEF WorkersInv, QueuesType
  <2> QED BY <2>1, <2>2 DEF WorkersInv, QueuesType, Ledger, Shutdown, Down, Closing
<1>4. CASE Cancelled
  <2>1. /\ phase = "stopping" /\ phase' = "exited"
        /\ UNCHANGED <<waiting, asked, records, closed, tried>>
        /\ DOMAIN pc' = Queues /\ DOMAIN inHand' = Queues /\ DOMAIN owed' = Queues
        /\ \A q \in Queues :
              /\ pc'[q] = IF asked[q] THEN "ended" ELSE pc[q]
              /\ inHand'[q] = IF asked[q] THEN <<>> ELSE inHand[q]
              /\ owed'[q] = IF asked[q] THEN owed[q] \ (ToSet(inHand[q]) \ ToSet(waiting[q]))
                            ELSE owed[q]
    BY <1>4 DEF Cancelled
  <2>2. ASSUME NEW q \in Queues PROVE Kept(waiting'[q], inHand'[q], owed'[q], pc'[q])
    <3>1. Kept(waiting[q], inHand[q], owed[q], pc[q])
      BY DEF WorkersInv, Ledger
    <3>2. CASE asked[q]
      <4>1. Kept(waiting[q], <<>>, owed[q] \ (ToSet(inHand[q]) \ ToSet(waiting[q])), "ended")
        BY <3>1, SuccessKept
      <4> QED BY <2>1, <3>2, <4>1
    <3>3. CASE ~asked[q]
      BY <2>1, <3>1, <3>3
    <3> QED BY <3>2, <3>3
  <2>3. Ledger' /\ QueuesType'
    BY <2>1, <2>2 DEF WorkersInv, QueuesType, Ledger
  <2>4. Shutdown'
    BY <2>1 DEF WorkersInv, Shutdown, Down, Closing
  <2> QED BY <2>3, <2>4 DEF WorkersInv
<1> QED BY <1>1, <1>2, <1>3, <1>4

LEMMA ClosingSteps ==
    ASSUME WorkersInv, Close
    PROVE WorkersInv'
<1>1. ASSUME NEW name \in ToSet(Resources), CloseResource(name) PROVE WorkersInv'
  <2>1. name \in Closing
    BY DEF Resources, ToSet, Closing
  <2>2. /\ UNCHANGED queues /\ phase = name /\ name \notin tried /\ phase' = NextResource(name)
        /\ tried' = tried \cup {name}
        /\ closed' = closed \/ closed' = closed \cup {name}
    BY <1>1 DEF CloseResource
  <2>3. Ledger' /\ QueuesType'
    BY <2>2, QueuesRest DEF queues
  <2>4. \A q \in Queues : asked[q] /\ pc[q] = "ended"
    BY <2>1, <2>2 DEF WorkersInv, Shutdown, Down
  <2>5. /\ phase' \in {"usage", "engine", "exited"} /\ phase # "exited"
        /\ name = "engine" => phase' = "exited"
    BY <2>1, <2>2 DEF NextResource, Closing
  <2>6. Shutdown'
    <3>1. asked' = asked /\ pc' = pc
      BY <2>2 DEF queues
    <3>2. "engine" \in tried' => phase' = "exited"
      BY <2>2, <2>5 DEF WorkersInv, Shutdown
    <3>3. closed' \subseteq tried' /\ phase' \notin {"serving", "stopping"}
      BY <2>2, <2>5 DEF WorkersInv, Shutdown
    <3> QED BY <2>4, <3>1, <3>2, <3>3 DEF Shutdown
  <2> QED BY <2>3, <2>6 DEF WorkersInv
<1>2. CASE FlushOnClose
  <2> DEFINE u == "usage"
  <2>1. /\ phase = "usage" /\ u \in Queues /\ u \notin tried /\ TakeItems(u, "close")
        /\ tried' = tried \cup {u} /\ UNCHANGED <<asked, owed, records, phase, closed>>
        /\ pc' = [pc EXCEPT ![u] = "close"]
    BY <1>2 DEF FlushOnClose, TakeItems
  <2>2. \A q \in Queues : asked[q] /\ pc[q] = "ended"
    BY <2>1 DEF WorkersInv, Shutdown, Down, Closing
  <2>3. Ledger' /\ QueuesType'
    BY <2>1, <2>2, Takes DEF InCall
  <2>4. \A q \in Queues : pc'[q] = IF q = u THEN "close" ELSE "ended"
    BY <2>1, <2>2 DEF WorkersInv, QueuesType
  <2>5. Shutdown'
    BY <2>1, <2>2, <2>4 DEF WorkersInv, Shutdown
  <2> QED BY <2>3, <2>5 DEF WorkersInv
<1>3. CASE FlushedOnClose
  <2> DEFINE u == "usage"
  <2>1. /\ u \in Queues /\ pc[u] = "close" /\ pc' = [pc EXCEPT ![u] = "ended"]
        /\ Succeeds(u) \/ Fails(u)
        /\ phase' = "engine" /\ closed' = closed \cup {u} /\ UNCHANGED <<asked, records, tried>>
    BY <1>3 DEF FlushedOnClose
  <2>2. phase = "usage" /\ u \in tried
    BY <2>1 DEF WorkersInv, Shutdown
  <2>3. Ledger' /\ QueuesType'
    BY <2>1, Ends
  <2>4. \A q \in Queues : asked[q] /\ pc'[q] = "ended"
    BY <2>1, <2>2 DEF WorkersInv, QueuesType, Shutdown, Down, Closing
  <2>5. Shutdown'
    BY <2>1, <2>2, <2>4 DEF WorkersInv, Shutdown
  <2> QED BY <2>3, <2>5 DEF WorkersInv
<1> QED BY <1>1, <1>2, <1>3 DEF Close

LEMMA WorkersStep == WorkersInv /\ [WorkersNext]_workersVars => WorkersInv'
<1> SUFFICES ASSUME WorkersInv, [WorkersNext]_workersVars PROVE WorkersInv'
  OBVIOUS
<1>1. ASSUME NEW q \in Queues, NEW i \in Items, RecordItem(q, i) PROVE WorkersInv'
  BY <1>1, Recording
<1>2. ASSUME NEW q \in Queues, QueueStep(q) PROVE WorkersInv'
  BY <1>2, WorkerSteps
<1>3. CASE Exit \/ Stopped \/ Cancelled \/ \E q \in Queues : StopWorker(q)
  BY <1>3, Stopping
<1>4. CASE Close
  BY <1>4, ClosingSteps
<1>5. CASE UNCHANGED workersVars
  <2>1. UNCHANGED queues /\ UNCHANGED <<phase, closed, tried>>
    BY <1>5 DEF workersVars
  <2>2. Ledger' /\ QueuesType'
    BY <2>1, QueuesRest DEF queues
  <2>3. Shutdown'
    BY <2>1 DEF queues, WorkersInv, Shutdown, Down
  <2> QED BY <2>2, <2>3 DEF WorkersInv
<1> QED BY <1>1, <1>2, <1>3, <1>4, <1>5 DEF WorkersNext

LEMMA WorkersInvariant == WorkersSpec => []WorkersInv
BY WorkersStart, WorkersStep, PTL DEF WorkersSpec

(* Whatever fails and however full the queues are, an item recorded is     *)
(* waiting, in a flush, written or counted as dropped, and no queue        *)
(* outgrows its limit                                                      *)
(* (telemetry/buffer.py, memory/usage.py, memory/profile_rebuild.py).      *)
THEOREM NoneForgotten == WorkersSpec => []NothingForgotten
<1>1. WorkersInv => NothingForgotten
  BY DEF WorkersInv, Ledger, Kept, NothingForgotten
<1> QED BY <1>1, WorkersInvariant, PTL

(* No worker and no flush uses the engine once it is disposed              *)
(* (app.py, _LifecycleCoordinator; container.py, shutdown_container).      *)
THEOREM EngineLast == WorkersSpec => []EngineOutlivesWorkers
<1>1. ASSUME WorkersInv PROVE EngineOutlivesWorkers
  <2>1. SUFFICES ASSUME "engine" \in closed, NEW q \in Queues
                 PROVE pc[q] \notin {"start", "flush", "purge", "last", "close"}
    BY DEF EngineOutlivesWorkers
  <2>2. phase = "exited" /\ Down
    BY <1>1, <2>1 DEF WorkersInv, Shutdown, Down
  <2> QED BY <1>1, <2>2 DEF WorkersInv, Shutdown
<1> QED BY <1>1, WorkersInvariant, PTL

(***************************************************************************)
(* The request.  What has been received is a beginning of what was sent,   *)
(* cut off or not; while it is buffered nobody has read any of it.         *)
(***************************************************************************)
Places == {"limit", "buffer", "resolve", "guard", "app", "emit", "done"}
Before == {"limit", "buffer", "resolve", "guard"}
Sent(messages) ==
    /\ messages \in Seq([size : Nat, more : BOOLEAN, gone : BOOLEAN])
    /\ Len(messages) <= Len(Upload)
    /\ \A n \in 1..Len(messages) : messages[n] \in {Chunk(n), Hangup}
Sender(ip) ==
    LET far == Outside(request.hops)
    IN \/ ip = Last(request.hops) /\ (far = {} \/ Contains(Forwarded, Garbage)
                                      \/ Last(request.hops) \notin TrustedHops)
       \/ \E n \in far : ip = request.hops[n] /\ \A m \in far : m <= n

BoundaryType == request \in Requests /\ where \in Places /\ replayed \in Nat /\ Sent(buffered)
BodyOnItsWay ==
    /\ where \in Before => replayed = 0
    /\ where = "limit" => buffered = <<>>
    /\ where = "buffer" => Limited /\ ~IsWhole(buffered)
    /\ where \in {"resolve", "guard", "app"} /\ Limited =>
          IsWhole(buffered) /\ SizeOf(buffered) <= BodyLimit
    /\ where \in {"resolve", "guard", "app"} /\ ~Limited => replayed = Len(buffered)
    /\ replayed <= Len(buffered)
    /\ status = 413 => Total(Upload) > BodyLimit
SenderKnown == where \in {"guard", "app"} => Sender(clientIp)
BodyInv == BoundaryType /\ BodyOnItsWay /\ SenderKnown

LEMMA Bodies ==
    ASSUME request \in Requests
    PROVE /\ Upload \in Seq(Nat) /\ Upload # <<>> /\ Len(Upload) \in Nat \ {0}
          /\ \A n \in 1..Len(Upload) : Upload[n] \in Nat
          /\ Limited => BodyLimit \in Nat
          /\ request.declared \in {NoLimit, Total(Upload)}
BY RequestsAssumption DEF Upload, Limited, BodyLimit

LEMMA SizeIs ==
    ASSUME NEW messages \in Seq([size : Nat, more : BOOLEAN, gone : BOOLEAN])
    PROVE SizeOf(messages) \in Nat
<1>1. PICK M : M = [size : Nat, more : BOOLEAN, gone : BOOLEAN]
  OBVIOUS
<1>2. DOMAIN messages = 1..Len(messages) /\ Len(messages) \in Nat
  OBVIOUS
<1>3. \A n \in DOMAIN messages : messages[n] \in M
  <2>1. messages \in Seq(M)
    BY <1>1
  <2> QED BY <2>1
<1>4. PICK f : f = [n \in DOMAIN messages |-> messages[n].size]
  OBVIOUS
<1>5. /\ DOMAIN f = DOMAIN messages /\ IsFiniteSet(DOMAIN messages)
      /\ \A n \in DOMAIN messages : f[n] \in Nat
  BY <1>1, <1>2, <1>3, <1>4, FS_Interval
<1>6. SumFunctionOnSet(f, DOMAIN f) \in Nat
  BY <1>5, SumNat
<1> QED BY <1>4, <1>6 DEF SizeOf, Total

(* What was received is no more than what was sent.                        *)
LEMMA NoLarger ==
    ASSUME request \in Requests, NEW messages, Sent(messages)
    PROVE SizeOf(messages) <= Total(Upload)
<1>1. PICK f : f = [n \in DOMAIN messages |-> messages[n].size]
  OBVIOUS
<1>2. PICK S, T : S = DOMAIN Upload /\ T = DOMAIN messages
  OBVIOUS
<1>3. /\ S = 1..Len(Upload) /\ T = 1..Len(messages) /\ Len(messages) \in Nat
      /\ Len(Upload) \in Nat /\ Len(messages) <= Len(Upload)
  BY <1>2, Bodies DEF Sent
<1>4. IsFiniteSet(S) /\ T \in SUBSET S
  BY <1>3, FS_Interval
<1>5. \A n \in S : Upload[n] \in Nat
  BY <1>3, Bodies
<1>6. \A n \in T : messages[n] \in {Chunk(n), Hangup}
  BY <1>3 DEF Sent
<1>7. \A n \in T : messages[n].size \in {Upload[n], 0}
  BY <1>6 DEF Chunk, Hangup
<1>8. \A n \in T : f[n] \in Nat /\ f[n] <= Upload[n]
  BY <1>1, <1>2, <1>4, <1>5, <1>7
<1>9. SumFunctionOnSet(f, T) <= SumFunctionOnSet(Upload, S)
  BY <1>4, <1>5, <1>8, SumLeq
<1>10. DOMAIN f = T
  BY <1>1, <1>2
<1> QED BY <1>1, <1>2, <1>9, <1>10 DEF SizeOf, Total

(* The next message continues the body.                                    *)
LEMMA NextMessage ==
    ASSUME request \in Requests, NEW messages, Sent(messages), ~IsWhole(messages)
    PROVE Sent(Append(messages, Received(messages)))
<1>1. /\ Len(messages) \in Nat /\ Len(Upload) \in Nat \ {0} /\ Len(messages) <= Len(Upload)
      /\ DOMAIN messages = 1..Len(messages)
  BY Bodies DEF Sent
<1>2. Len(messages) < Len(Upload)
  <2>1. CASE messages = <<>>
    BY <1>1, <2>1
  <2>2. CASE messages # <<>>
    <3>1. Last(messages).more
      BY <2>2 DEF IsWhole
    <3>2. Len(messages) \in 1..Len(messages)
      BY <1>1, <2>2 DEF Sent
    <3>3. Last(messages) = Chunk(Len(messages))
      BY <3>1, <3>2 DEF Sent, Last, Hangup
    <3>4. Chunk(Len(messages)).more = (Len(messages) < Len(Upload))
      BY DEF Chunk
    <3> QED BY <3>1, <3>3, <3>4
  <2> QED BY <2>1, <2>2
<1>3. PICK m : m = Received(messages)
  OBVIOUS
<1>4. m \in {Chunk(Len(messages) + 1), Hangup}
  BY <1>3 DEF Received
<1>5. Upload[Len(messages) + 1] \in Nat
  BY <1>1, <1>2, Bodies
<1>6. m \in [size : Nat, more : BOOLEAN, gone : BOOLEAN]
  <2>1. PICK size, more : /\ size = Upload[Len(messages) + 1]
                          /\ more = (Len(messages) + 1 < Len(Upload))
    OBVIOUS
  <2>2. size \in Nat /\ more \in BOOLEAN
    BY <1>5, <2>1
  <2>3. Chunk(Len(messages) + 1) = [size |-> size, more |-> more, gone |-> FALSE]
    BY <2>1 DEF Chunk
  <2>4. Chunk(Len(messages) + 1) \in [size : Nat, more : BOOLEAN, gone : BOOLEAN]
    <3>1. [size |-> size, more |-> more, gone |-> FALSE]
              \in [size : Nat, more : BOOLEAN, gone : BOOLEAN]
      BY <2>2
    <3> QED BY <2>3, <3>1
  <2>5. CASE m = Hangup
    BY <2>5 DEF Hangup
  <2> QED BY <1>4, <2>4, <2>5
<1>7. PICK M : M = [size : Nat, more : BOOLEAN, gone : BOOLEAN]
  OBVIOUS
<1>8. messages \in Seq(M) /\ m \in M
  BY <1>6, <1>7 DEF Sent
<1>9. PICK longer : longer = Append(messages, m)
  OBVIOUS
<1>10. /\ longer \in Seq(M) /\ Len(longer) = Len(messages) + 1
       /\ \A n \in 1..Len(messages) : longer[n] = messages[n]
       /\ longer[Len(messages) + 1] = m
  BY <1>8, <1>9
<1>11. \A n \in 1..Len(longer) : longer[n] \in {Chunk(n), Hangup}
  BY <1>1, <1>4, <1>10 DEF Sent
<1> QED BY <1>1, <1>2, <1>3, <1>7, <1>9, <1>10, <1>11 DEF Sent

(* Read from its end, the header leads to the sender or past every hop.    *)
LEMMA LastOutside ==
    ASSUME NEW s, NEW A, s \in Seq(A), Outside(s) # {}
    PROVE \E n \in Outside(s) : Untrusted(s) = s[n] /\ \A m \in Outside(s) : m <= n
<1>1. Outside(s) \subseteq 1..Len(s) /\ Len(s) \in Nat
  BY DEF Outside
<1>2. PICK N : N = {Len(s) - n : n \in Outside(s)}
  OBVIOUS
<1>3. N \in SUBSET Nat /\ N # {}
  BY <1>1, <1>2
<1>4. PICK k \in N : \A m \in N : k <= m
  BY <1>3, LeastNatural
<1>5. PICK n \in Outside(s) : k = Len(s) - n
  BY <1>2, <1>4
<1>6. \A m \in Outside(s) : Len(s) - m \in N
  BY <1>2
<1>7. \A m \in Outside(s) : m <= n
  BY <1>1, <1>4, <1>5, <1>6
<1> QED BY <1>5, <1>7 DEF Untrusted

LEMMA HopsAre ==
    ASSUME request \in Requests
    PROVE \E A : /\ request.hops \in Seq(A) /\ request.forged \in Seq(A)
                 /\ Forwarded \in Seq(A) /\ Len(request.hops) \in Nat \ {0}
                 /\ Len(Forwarded) = Len(request.forged) + (Len(request.hops) - 1)
                 /\ \A n \in 1..Len(request.forged) : Forwarded[n] = request.forged[n]
                 /\ \A n \in 1..(Len(request.hops) - 1) :
                       Forwarded[Len(request.forged) + n] = request.hops[n]
<1>1. PICK hops, forged, A :
        /\ hops = request.hops /\ forged = request.forged
        /\ A = ToSet(hops) \cup ToSet(forged)
  OBVIOUS
<1>2. /\ hops \in Seq(ToSet(hops)) /\ forged \in Seq(ToSet(forged)) /\ hops # <<>>
  BY <1>1, RequestsAssumption
<1>3. hops \in Seq(A) /\ forged \in Seq(A) /\ Len(hops) \in Nat \ {0}
  BY <1>1, <1>2
<1>4. PICK relayed : relayed = SubSeq(hops, 1, Len(hops) - 1)
  OBVIOUS
<1>5. /\ relayed \in Seq(A) /\ Len(relayed) = Len(hops) - 1
      /\ \A n \in 1..(Len(hops) - 1) : relayed[n] = hops[n]
  <2>1. PICK k : k = Len(hops) - 1
    OBVIOUS
  <2>2. k \in Nat /\ k <= Len(hops) /\ 1 \in Int
    BY <1>3, <2>1
  <2>3. \A n \in 1..k : hops[n] \in A
    BY <1>3, <2>2
  <2>4. /\ relayed \in Seq(A) /\ Len(relayed) = IF 1 <= k THEN k - 1 + 1 ELSE 0
        /\ \A n \in 1..(k - 1 + 1) : relayed[n] = hops[1 + n - 1]
    BY <1>4, <2>1, <2>2, <2>3, SubSeqProperties
  <2>5. Len(relayed) = k
    BY <2>2, <2>4
  <2>6. \A n \in 1..k : relayed[n] = hops[n]
    BY <2>2, <2>4
  <2> QED BY <2>1, <2>4, <2>5, <2>6
<1>6. /\ forged \o relayed \in Seq(A) /\ Len(forged \o relayed) = Len(forged) + Len(relayed)
      /\ \A n \in 1..Len(forged) : (forged \o relayed)[n] = forged[n]
      /\ \A n \in 1..(Len(hops) - 1) : (forged \o relayed)[Len(forged) + n] = hops[n]
  <2>1. PICK both : both = forged \o relayed
    OBVIOUS
  <2>2. Len(forged) \in Nat /\ Len(relayed) \in Nat
    BY <1>3, <1>5
  <2>3. /\ both \in Seq(A) /\ Len(both) = Len(forged) + Len(relayed)
        /\ \A i \in 1..(Len(forged) + Len(relayed)) :
              both[i] = IF i <= Len(forged) THEN forged[i] ELSE relayed[i - Len(forged)]
    BY <1>3, <1>5, <2>1, ConcatProperties
  <2>4. \A n \in 1..Len(forged) : both[n] = forged[n]
    BY <2>2, <2>3
  <2>5. \A n \in 1..Len(relayed) : both[Len(forged) + n] = relayed[n]
    BY <2>2, <2>3
  <2> QED BY <1>5, <2>1, <2>3, <2>4, <2>5
<1>7. Forwarded = forged \o relayed
  BY <1>1, <1>4 DEF Forwarded
<1> QED BY <1>1, <1>3, <1>5, <1>6, <1>7

LEMMA SenderFound ==
    ASSUME request \in Requests
    PROVE Sender(ResolveClientIp(Last(request.hops), Forwarded))
<1>1. PICK hops, forged, forwarded :
        hops = request.hops /\ forged = request.forged /\ forwarded = Forwarded
  OBVIOUS
<1>2. PICK A : /\ hops \in Seq(A) /\ forged \in Seq(A) /\ forwarded \in Seq(A)
               /\ Len(hops) \in Nat \ {0} /\ Len(forged) \in Nat
               /\ Len(forwarded) = Len(forged) + (Len(hops) - 1)
               /\ \A n \in 1..Len(forged) : forwarded[n] = forged[n]
               /\ \A n \in 1..(Len(hops) - 1) : forwarded[Len(forged) + n] = hops[n]
  <2>1. PICK A : /\ request.hops \in Seq(A) /\ request.forged \in Seq(A)
                 /\ Forwarded \in Seq(A) /\ Len(request.hops) \in Nat \ {0}
                 /\ Len(Forwarded) = Len(request.forged) + (Len(request.hops) - 1)
                 /\ \A n \in 1..Len(request.forged) : Forwarded[n] = request.forged[n]
                 /\ \A n \in 1..(Len(request.hops) - 1) :
                       Forwarded[Len(request.forged) + n] = request.hops[n]
    BY HopsAre
  <2>2. Len(request.forged) \in Nat
    BY <2>1
  <2> QED BY <1>1, <2>1, <2>2
<1>3. Last(hops) = hops[Len(hops)]
  BY DEF Last
<1>4. PICK far : far = Outside(hops)
  OBVIOUS
<1>5. far \subseteq 1..Len(hops) /\ \A n \in 1..Len(hops) : n \in far <=> hops[n] \notin TrustedHops
  BY <1>2, <1>4 DEF Outside
<1>6. forged # <<>> => 1 \in far
  BY <1>1, <1>2, <1>5, RequestsAssumption
<1>7. CASE /\ Last(hops) \in TrustedHops /\ forwarded # <<>> /\ ~Contains(forwarded, Garbage)
           /\ Outside(forwarded) # {}
  <2>1. PICK n \in Outside(forwarded) :
            Untrusted(forwarded) = forwarded[n] /\ \A m \in Outside(forwarded) : m <= n
    BY <1>2, <1>7, LastOutside
  <2>2. n \in 1..Len(forwarded) /\ forwarded[n] \notin TrustedHops
    BY <1>2, <2>1 DEF Outside
  <2>3. Len(hops) \notin far
    BY <1>2, <1>3, <1>5, <1>7
  <2>4. \A m \in far : /\ m \in 1..(Len(hops) - 1) /\ Len(forged) + m \in 1..Len(forwarded)
                       /\ forwarded[Len(forged) + m] \notin TrustedHops
    BY <1>2, <1>5, <2>3
  <2>5. \A m \in far : Len(forged) + m \in Outside(forwarded)
    BY <1>2, <2>4 DEF Outside
  <2>6. \A m \in far : Len(forged) + m <= n
    BY <2>1, <2>5
  <2>7. Len(forged) < n
    <3>1. CASE forged = <<>>
      BY <1>2, <2>2, <3>1
    <3>2. CASE forged # <<>>
      BY <1>2, <1>6, <2>2, <2>6, <3>2
    <3> QED BY <3>1, <3>2
  <2>8. PICK j : j = n - Len(forged)
    OBVIOUS
  <2>9. j \in 1..(Len(hops) - 1) /\ n = Len(forged) + j
    BY <1>2, <2>2, <2>7, <2>8
  <2>10. forwarded[n] = hops[j]
    BY <1>2, <2>9
  <2>11. j \in far /\ \A m \in far : m <= j
    BY <1>2, <1>5, <2>2, <2>6, <2>9, <2>10
  <2>12. ResolveClientIp(Last(hops), forwarded) = hops[j]
    BY <1>7, <2>1, <2>10 DEF ResolveClientIp
  <2> QED BY <1>1, <1>4, <2>11, <2>12 DEF Sender
<1>8. CASE ~(/\ Last(hops) \in TrustedHops /\ forwarded # <<>> /\ ~Contains(forwarded, Garbage)
             /\ Outside(forwarded) # {})
  <2>1. ResolveClientIp(Last(hops), forwarded) = Last(hops)
    BY <1>8 DEF ResolveClientIp
  <2>2. CASE Last(hops) \notin TrustedHops \/ Contains(forwarded, Garbage)
    BY <1>1, <2>1, <2>2 DEF Sender
  <2>3. CASE Last(hops) \in TrustedHops /\ (forwarded = <<>> \/ Outside(forwarded) = {})
    <3>1. Len(hops) \notin far
      BY <1>2, <1>3, <1>5, <2>3
    <3>2. ASSUME NEW m \in far PROVE FALSE
      <4>1. m \in 1..(Len(hops) - 1) /\ hops[m] \notin TrustedHops
        BY <1>2, <1>5, <3>1, <3>2
      <4>2. Len(forged) + m \in 1..Len(forwarded) /\ forwarded[Len(forged) + m] = hops[m]
        BY <1>2, <4>1
      <4> QED BY <1>2, <2>3, <4>1, <4>2 DEF Outside
    <3> QED BY <1>1, <1>4, <2>1, <3>2 DEF Sender
  <2> QED BY <1>8, <2>2, <2>3
<1> QED BY <1>7, <1>8

LEMMA BodyStart == BoundaryInit => BodyInv
<1> SUFFICES ASSUME BoundaryInit PROVE BodyInv
  OBVIOUS
<1>1. request \in Requests /\ where = "limit" /\ buffered = <<>> /\ replayed = 0 /\ status = 500
  BY DEF BoundaryInit
<1>2. Sent(buffered)
  BY <1>1, Bodies DEF Sent
<1> QED BY <1>1, <1>2 DEF BodyInv, BoundaryType, BodyOnItsWay, SenderKnown, Places, Before

(* A middleware that lets the request through or answers it leaves the     *)
(* rest of the stack alone.                                                *)
LEMMA Declaring == ASSUME BodyInv, CheckDeclared PROVE BodyInv'
<1>1. /\ where = "limit" /\ buffered = <<>> /\ replayed = 0 /\ request \in Requests
      /\ UNCHANGED <<request, buffered, replayed>>
  BY DEF BodyInv, BoundaryType, BodyOnItsWay, CheckDeclared, Pass, Reject, Before
<1>2. Sent(buffered)' /\ BoundaryType' /\ (BodyLimit = BodyLimit') /\ (Limited = Limited')
      /\ Total(Upload)' = Total(Upload)
  BY <1>1 DEF BodyInv, BoundaryType, Sent, Upload, Chunk, Hangup, Limited, BodyLimit, Places,
              CheckDeclared, Pass, Reject, Total
<1>3. CASE ~Limited /\ Pass("resolve")
  BY <1>1, <1>2, <1>3
     DEF BodyInv, BodyOnItsWay, SenderKnown, Pass, Before
<1>4. CASE Limited /\ Pass("buffer")
  BY <1>1, <1>2, <1>4
     DEF BodyInv, BodyOnItsWay, SenderKnown, Pass, Before, IsWhole
<1>5. CASE Limited /\ request.declared # NoLimit /\ request.declared > BodyLimit /\ Reject(413)
  <2>1. Total(Upload) > BodyLimit
    BY <1>1, <1>5, Bodies
  <2> QED BY <1>1, <1>2, <1>5, <2>1 DEF BodyInv, BodyOnItsWay, SenderKnown, Reject, Before
<1> QED BY <1>3, <1>4, <1>5 DEF CheckDeclared

LEMMA Unmoved ==
    ASSUME UNCHANGED request
    PROVE /\ Upload' = Upload /\ BodyLimit' = BodyLimit /\ Limited' = Limited
          /\ Total(Upload)' = Total(Upload)
          /\ \A messages : Sent(messages)' = Sent(messages)
          /\ \A ip : Sender(ip)' = Sender(ip)
BY DEF Upload, BodyLimit, Limited, Sent, Chunk, Hangup, Sender, Outside, Forwarded, Total

LEMMA Buffering == ASSUME BodyInv, BufferChunk PROVE BodyInv'
<1>1. PICK messages : messages = Append(buffered, Received(buffered))
  OBVIOUS
<1>2. /\ where = "buffer" /\ replayed = 0 /\ request \in Requests /\ Sent(buffered)
      /\ Limited /\ ~IsWhole(buffered) /\ (status = 413 => Total(Upload) > BodyLimit)
      /\ UNCHANGED <<request, replayed>>
  BY DEF BodyInv, BoundaryType, BodyOnItsWay, BufferChunk, Pass, Reject, Before
<1>3. Sent(messages) /\ SizeOf(messages) \in Nat /\ SizeOf(messages) <= Total(Upload)
  <2>1. Sent(messages)
    BY <1>1, <1>2, NextMessage
  <2> QED BY <1>2, <2>1, SizeIs, NoLarger DEF Sent
<1>4. /\ Upload' = Upload /\ BodyLimit' = BodyLimit /\ Limited' = Limited
      /\ Total(Upload)' = Total(Upload) /\ \A m : Sent(m)' = Sent(m)
  BY <1>2, Unmoved
<1>5. BodyLimit \in Nat /\ Total(Upload) \in Nat
  <2>1. BodyLimit \in Nat
    BY <1>2, Bodies
  <2>2. DOMAIN Upload = 1..Len(Upload) /\ IsFiniteSet(1..Len(Upload))
    BY <1>2, Bodies, FS_Interval
  <2>3. Total(Upload) \in Nat
    BY <1>2, <2>2, Bodies, SumNat DEF Total
  <2> QED BY <2>1, <2>3
<1>6. CASE TooLarge(messages) /\ Reject(413) /\ UNCHANGED buffered
  <2>1. Total(Upload) > BodyLimit
    BY <1>3, <1>5, <1>6 DEF TooLarge
  <2>2. where' = "emit" /\ buffered' = buffered
    BY <1>6 DEF Reject
  <2>3. BoundaryType'
    BY <1>2, <1>4, <2>2 DEF BodyInv, BoundaryType, Places
  <2>4. BodyOnItsWay'
    BY <1>2, <1>4, <2>1, <2>2 DEF BodyInv, BodyOnItsWay, Before
  <2> QED BY <2>2, <2>3, <2>4 DEF BodyInv, SenderKnown
<1>7. CASE Reject(422) /\ UNCHANGED buffered
  <2>1. where' = "emit" /\ status' = 422 /\ buffered' = buffered
    BY <1>7 DEF Reject
  <2>2. BoundaryType'
    BY <1>2, <1>4, <2>1 DEF BodyInv, BoundaryType, Places
  <2>3. BodyOnItsWay'
    BY <1>2, <1>4, <2>1 DEF BodyInv, BodyOnItsWay, Before
  <2> QED BY <2>1, <2>2, <2>3 DEF BodyInv, SenderKnown
<1>8. CASE /\ ~TooLarge(messages) /\ buffered' = messages
           /\ \/ Pass("buffer") /\ ~IsWhole(messages)
              \/ Pass("resolve") /\ IsWhole(messages)
  <2>1. /\ SizeOf(buffered)' = SizeOf(messages) /\ SizeOf(messages) <= BodyLimit
        /\ IsWhole(buffered)' = IsWhole(messages) /\ Len(messages) \in Nat
        /\ status' = status
    BY <1>3, <1>5, <1>8 DEF TooLarge, SizeOf, IsWhole, Total, Sent, Pass
  <2>2. BoundaryType'
    BY <1>2, <1>3, <1>4, <1>8 DEF BodyInv, BoundaryType, Places, Pass
  <2>3. BodyOnItsWay'
    BY <1>2, <1>4, <1>8, <2>1 DEF BodyOnItsWay, Pass, Before
  <2>4. SenderKnown'
    BY <1>8 DEF Pass, SenderKnown
  <2> QED BY <2>2, <2>3, <2>4 DEF BodyInv
<1>9. \/ TooLarge(messages) /\ Reject(413) /\ UNCHANGED buffered
      \/ Reject(422) /\ UNCHANGED buffered
      \/ /\ ~TooLarge(messages) /\ buffered' = messages
         /\ \/ Pass("buffer") /\ ~IsWhole(messages)
            \/ Pass("resolve") /\ IsWhole(messages)
  BY <1>1 DEF BufferChunk
<1> QED BY <1>6, <1>7, <1>8, <1>9

(* Past the limit the body stays what it was, and the sender is resolved.  *)
LEMMA Guarding == ASSUME BodyInv, Resolve \/ Guard PROVE BodyInv'
<1>1. /\ where \in {"resolve", "guard"} /\ replayed = 0 /\ request \in Requests
      /\ UNCHANGED <<request, replayed, buffered>>
  BY DEF BodyInv, BoundaryType, BodyOnItsWay, Resolve, Guard, Pass, Reject, Before
<1>2. /\ Upload' = Upload /\ BodyLimit' = BodyLimit /\ Limited' = Limited
      /\ Total(Upload)' = Total(Upload) /\ \A m : Sent(m)' = Sent(m)
      /\ \A ip : Sender(ip)' = Sender(ip)
      /\ IsWhole(buffered)' = IsWhole(buffered) /\ SizeOf(buffered)' = SizeOf(buffered)
  BY <1>1, Unmoved DEF IsWhole, SizeOf, Total
<1>3. CASE Resolve
  <2>1. where' = "guard" /\ status' = status /\ Sender(clientIp')
    BY <1>1, <1>3, SenderFound DEF Resolve, Pass
  <2>2. PICK ip : ip = clientIp'
    OBVIOUS
  <2>3. SenderKnown'
    BY <1>2, <2>1, <2>2 DEF SenderKnown
  <2>4. BoundaryType' /\ BodyOnItsWay'
    BY <1>1, <1>2, <1>3, <2>1
       DEF BodyInv, BoundaryType, BodyOnItsWay, Before, Places, Resolve
  <2> QED BY <2>3, <2>4 DEF BodyInv
<1>4. CASE Guard /\ Pass("app") /\ UNCHANGED clientIp
  <2>1. where = "guard" /\ where' = "app" /\ status' = status /\ clientIp' = clientIp
    BY <1>4 DEF Guard, Pass
  <2>2. BoundaryType' /\ BodyOnItsWay'
    BY <1>1, <1>2, <2>1 DEF BodyInv, BoundaryType, BodyOnItsWay, Before, Places
  <2>3. SenderKnown'
    BY <1>2, <2>1 DEF BodyInv, SenderKnown
  <2> QED BY <2>2, <2>3 DEF BodyInv
<1>5. CASE \E code \in {421, 403, 308} : Reject(code)
  <2>1. where' = "emit" /\ status' # 413
    BY <1>5 DEF Reject
  <2>2. BoundaryType' /\ BodyOnItsWay'
    BY <1>1, <1>2, <2>1 DEF BodyInv, BoundaryType, BodyOnItsWay, Before, Places
  <2> QED BY <2>1, <2>2 DEF BodyInv, SenderKnown
<1> QED BY <1>3, <1>4, <1>5 DEF Guard

LEMMA AppReading == ASSUME BodyInv, AppRead PROVE BodyInv'
<1>1. /\ where = "app" /\ replayed' = replayed + 1 /\ replayed \in Nat /\ request \in Requests
      /\ Sent(buffered) /\ replayed <= Len(buffered) /\ ~IsWhole(Heard)
      /\ UNCHANGED <<request, where, status, clientIp>>
  BY DEF BodyInv, BoundaryType, BodyOnItsWay, AppRead
<1>2. /\ Upload' = Upload /\ BodyLimit' = BodyLimit /\ Limited' = Limited
      /\ Total(Upload)' = Total(Upload) /\ \A m : Sent(m)' = Sent(m)
      /\ \A ip : Sender(ip)' = Sender(ip)
  BY <1>1, Unmoved
<1>3. Len(buffered) \in Nat /\ (replayed = Len(buffered) => Heard = buffered)
  BY <1>1 DEF Sent, Heard
<1>4. SenderKnown'
  BY <1>1, <1>2 DEF BodyInv, SenderKnown
<1>5. CASE Limited
  <2>1. /\ buffered' = buffered /\ IsWhole(buffered) /\ SizeOf(buffered) <= BodyLimit
        /\ IsWhole(buffered)' = IsWhole(buffered) /\ SizeOf(buffered)' = SizeOf(buffered)
    BY <1>1, <1>5 DEF AppRead, BodyInv, BodyOnItsWay, IsWhole, SizeOf, Total
  <2>2. replayed < Len(buffered)
    BY <1>1, <1>3, <2>1
  <2>3. BoundaryType' /\ BodyOnItsWay'
    BY <1>1, <1>2, <1>3, <1>5, <2>1, <2>2
       DEF BodyInv, BoundaryType, BodyOnItsWay, Before, Places
  <2> QED BY <1>4, <2>3 DEF BodyInv
<1>6. CASE ~Limited
  <2>1. PICK messages : messages = Append(buffered, Received(buffered))
    OBVIOUS
  <2>2. replayed = Len(buffered) /\ buffered' = messages
    BY <1>1, <1>6, <2>1 DEF AppRead, BodyInv, BodyOnItsWay
  <2>3. Sent(messages)
    BY <1>1, <1>3, <2>1, <2>2, NextMessage
  <2>4. Len(messages) = Len(buffered) + 1
    BY <1>1, <2>1 DEF Sent
  <2>5. BoundaryType' /\ BodyOnItsWay'
    BY <1>1, <1>2, <1>3, <1>6, <2>2, <2>3, <2>4
       DEF BodyInv, BoundaryType, BodyOnItsWay, Before, Places
  <2> QED BY <1>4, <2>5 DEF BodyInv
<1> QED BY <1>5, <1>6

LEMMA BodyRests ==
    ASSUME BodyInv, UNCHANGED <<request, buffered, replayed, clientIp>>,
           status' = status \/ status' # 413,
           \/ where' = where
           \/ where' \in {"emit", "done"}
    PROVE BodyInv'
<1>1. /\ Upload' = Upload /\ BodyLimit' = BodyLimit /\ Limited' = Limited
      /\ Total(Upload)' = Total(Upload) /\ \A m : Sent(m)' = Sent(m)
      /\ \A ip : Sender(ip)' = Sender(ip)
      /\ IsWhole(buffered)' = IsWhole(buffered) /\ SizeOf(buffered)' = SizeOf(buffered)
  BY Unmoved DEF IsWhole, SizeOf, Total
<1>2. BoundaryType' /\ BodyOnItsWay'
  BY <1>1 DEF BodyInv, BoundaryType, BodyOnItsWay, Before, Places
<1>3. SenderKnown'
  BY <1>1 DEF BodyInv, SenderKnown
<1> QED BY <1>2, <1>3 DEF BodyInv

LEMMA BodyStep == BodyInv /\ [BoundaryNext]_boundaryVars => BodyInv'
<1> SUFFICES ASSUME BodyInv, [BoundaryNext]_boundaryVars PROVE BodyInv'
  OBVIOUS
<1>1. CASE CheckDeclared BY <1>1, Declaring
<1>2. CASE BufferChunk BY <1>2, Buffering
<1>3. CASE Resolve \/ Guard BY <1>3, Guarding
<1>4. CASE AppRead BY <1>4, AppReading
<1>5. CASE HangUp \/ Listen \/ HearDisconnect \/ CompleteAnswer \/ UNCHANGED boundaryVars
  BY <1>5, BodyRests DEF HangUp, Listen, HearDisconnect, CompleteAnswer, boundaryVars
<1>6. CASE StartAnswer BY <1>6, BodyRests DEF StartAnswer
<1>7. CASE AppReturn \/ AppRaise
  BY <1>7, BodyRests DEF AppReturn, AppRaise, LeaveApp, AfterRaise
<1>8. CASE EmitOnce BY <1>8, BodyRests DEF EmitOnce
<1> QED BY <1>1, <1>2, <1>3, <1>4, <1>5, <1>6, <1>7, <1>8
        DEF BoundaryNext, Middleware, Application

LEMMA BodyInvariant == BoundarySpec => []BodyInv
BY BodyStart, BodyStep, PTL DEF BoundarySpec

LEMMA BodyShows == BodyInv => RequestIntact
<1> SUFFICES ASSUME BodyInv PROVE RequestIntact
  OBVIOUS
<1>1. /\ \A n \in 1..replayed : n \in 1..Len(buffered)
      /\ \A n \in 1..Len(buffered) : buffered[n] \in {Chunk(n), Hangup}
  BY DEF BodyInv, BoundaryType, BodyOnItsWay, Sent
<1>2. BodyIntact
  BY <1>1 DEF BodyInv, BodyOnItsWay, BodyIntact
<1>3. AttributedToSender
  BY DEF BodyInv, SenderKnown, Sender, AttributedToSender
<1> QED BY <1>2, <1>3 DEF RequestIntact

(* The application gets the request that was sent: its body from the start *)
(* and within the limit, its sender whatever the header said               *)
(* (http_boundary.py, RequestBodyLimitMiddleware, TrustedClientResolver).  *)
THEOREM RequestsIntact == BoundarySpec => []RequestIntact
BY BodyInvariant, BodyShows, PTL

(***************************************************************************)
(* The answer.  response_complete is set only after the last part of the   *)
(* answer is out, or on the way out; the record follows once.              *)
(***************************************************************************)
AnswerInv ==
    /\ where \in Places /\ answer \in {"none", "started", "complete"}
    /\ listener \in {"off", "waiting", "told"}
    /\ where \in Before => answer = "none" /\ listener = "off" /\ ~completed
    /\ where = "app" /\ listener = "off" /\ handler # "plain" => answer = "none"
    /\ where = "app" /\ completed => answer = "complete"
    /\ answer = "complete" /\ listener = "waiting" => (Limited => completed)
    /\ NoEarlyDisconnect
    /\ where # "done" => telemetry = <<>>
    /\ answer = "none" => status = 500
    /\ OneRecord

LEMMA AnswerStart == BoundaryInit => AnswerInv
BY DEF BoundaryInit, AnswerInv, Places, Before, NoEarlyDisconnect, OneRecord

LEMMA AnswerStep == AnswerInv /\ [BoundaryNext]_boundaryVars => AnswerInv'
<1> SUFFICES ASSUME AnswerInv, [BoundaryNext]_boundaryVars PROVE AnswerInv'
  OBVIOUS
<1> USE DEF AnswerInv, Places, Before, NoEarlyDisconnect, OneRecord
<1>1. Limited' = Limited
  <2>1. CASE Middleware \/ HangUp \/ UNCHANGED boundaryVars
    <3>1. UNCHANGED request
      <4>1. CASE CheckDeclared \/ Guard
        BY <4>1 DEF CheckDeclared, Guard, Pass, Reject
      <4>2. CASE BufferChunk
        <5>1. \/ \E code \in {413, 422} : Reject(code)
              \/ \E next \in {"buffer", "resolve"} : Pass(next)
          BY <4>2 DEF BufferChunk
        <5> QED BY <5>1 DEF Pass, Reject
      <4>3. CASE Resolve \/ EmitOnce \/ HangUp \/ UNCHANGED boundaryVars
        BY <4>3 DEF Resolve, EmitOnce, HangUp, Pass, boundaryVars
      <4> QED BY <2>1, <4>1, <4>2, <4>3 DEF Middleware
    <3> QED BY <3>1, Unmoved
  <2>2. CASE Application \/ AppRaise
    <3>1. UNCHANGED request
      BY <2>2 DEF Application, AppRead, Listen, HearDisconnect, StartAnswer, CompleteAnswer,
                  AppReturn, AppRaise, LeaveApp
    <3> QED BY <3>1, Unmoved
  <2> QED BY <2>1, <2>2 DEF BoundaryNext
<1>2. CASE HangUp BY <1>1, <1>2 DEF HangUp
<1>3. CASE CheckDeclared BY <1>1, <1>3 DEF CheckDeclared, Pass, Reject
<1>4. CASE BufferChunk
  <2>1. /\ where = "buffer" /\ UNCHANGED completed
        /\ \/ \E code \in {413, 422} : Reject(code)
           \/ \E next \in {"buffer", "resolve"} : Pass(next)
    BY <1>4 DEF BufferChunk
  <2> QED BY <1>1, <2>1 DEF Pass, Reject
<1>5. CASE Resolve BY <1>1, <1>5 DEF Resolve, Pass
<1>6. CASE Guard BY <1>1, <1>6 DEF Guard, Pass, Reject
<1>7. CASE AppRead BY <1>1, <1>7 DEF AppRead
<1>8. CASE Listen BY <1>1, <1>8 DEF Listen
<1>9. CASE HearDisconnect BY <1>1, <1>9 DEF HearDisconnect, DisconnectDue
<1>10. CASE StartAnswer BY <1>1, <1>10 DEF StartAnswer
<1>11. CASE CompleteAnswer BY <1>1, <1>11 DEF CompleteAnswer, CompletedNow
<1>12. CASE AppReturn \/ AppRaise BY <1>1, <1>12 DEF AppReturn, AppRaise, LeaveApp, AfterRaise
<1>13. CASE EmitOnce BY <1>1, <1>13 DEF EmitOnce
<1>14. CASE UNCHANGED boundaryVars BY <1>1, <1>14 DEF boundaryVars
<1> QED BY <1>2, <1>3, <1>4, <1>5, <1>6, <1>7, <1>8, <1>9, <1>10, <1>11, <1>12, <1>13, <1>14
        DEF BoundaryNext, Middleware, Application

LEMMA AnswerInvariant == BoundarySpec => []AnswerInv
BY AnswerStart, AnswerStep, PTL DEF BoundarySpec

(* A handler hears of a disconnect only when its answer is complete or its *)
(* client has gone, and one that waits for it when its answer is complete  *)
(* is due to hear of it (http_boundary.py, replay_receive, tracked_send).  *)
THEOREM DisconnectsAreHeard == BoundarySpec => []DisconnectsHeard
<1>1. AnswerInv => DisconnectsHeard
  BY DEF AnswerInv, DisconnectsHeard, ListenerFreed, DisconnectDue
<1> QED BY <1>1, AnswerInvariant, PTL

(* Every request leaves one record, with the status its client was sent    *)
(* (telemetry/http.py, RequestTelemetryMiddleware).                        *)
THEOREM OneRecordEach == BoundarySpec => []OneRecord
<1>1. AnswerInv => OneRecord
  BY DEF AnswerInv
<1> QED BY <1>1, AnswerInvariant, PTL

(***************************************************************************)
(* Once the request stopped probing, no probe is left running: gather saw  *)
(* them all end, or the cancellation reached those that had not.  From the *)
(* moment a report is made, nothing can change what it was made from.      *)
(***************************************************************************)
ProbeStates == {"running", "up", "down", "cancelling", "cancelled"}

ReadinessType ==
    /\ probe \in [Dependencies -> ProbeStates]
    /\ asking \in {"probing", "answering", "abandoned", "answered", "gone"}
    /\ report \in [Dependencies -> BOOLEAN]

NoneRunning == asking # "probing" => \A d \in Dependencies : probe[d] # "running"
AllEnded == asking \in {"answering", "answered", "gone"} => Live = {}
Faithful ==
    asking \in {"answering", "answered"} => \A d \in Dependencies : report[d] <=> probe[d] = "up"

ReadinessInv == ReadinessType /\ NoneRunning /\ AllEnded /\ Faithful

LEMMA ReadinessStart == ReadinessInit => ReadinessInv
BY DEF ReadinessInit, ReadinessInv, ReadinessType, ProbeStates, NoneRunning, AllEnded, Faithful

(* A step of one probe keeps what the request knows. *)
LEMMA ProbeStep ==
    ASSUME NEW d \in Dependencies, ReadinessInv,
           ProbeEnds(d) \/ ProbeTimesOut(d) \/ ProbeCancelled(d)
    PROVE ReadinessInv'
<1>1. asking' = asking /\ report' = report
  BY DEF ProbeEnds, ProbeTimesOut, ProbeCancelled
<1>2. PICK s \in {"up", "down", "cancelled"} : probe' = [probe EXCEPT ![d] = s]
  BY DEF ProbeEnds, ProbeTimesOut, ProbeCancelled
<1>3. d \in Live
  BY DEF ProbeEnds, ProbeTimesOut, ProbeCancelled, Live
<1>4. asking \notin {"answering", "answered", "gone"}
  BY <1>3 DEF ReadinessInv, AllEnded
<1>5. ReadinessType'
  BY <1>1, <1>2 DEF ReadinessInv, ReadinessType, ProbeStates
<1>6. NoneRunning'
  BY <1>1, <1>2 DEF ReadinessInv, ReadinessType, NoneRunning
<1>7. AllEnded' /\ Faithful'
  BY <1>1, <1>4 DEF AllEnded, Faithful
<1> QED BY <1>5, <1>6, <1>7 DEF ReadinessInv

(* Cancelling what still runs leaves nothing running. *)
LEMMA Cancelling ==
    ASSUME ReadinessInv, probe' = CancelLive
    PROVE /\ probe' \in [Dependencies -> ProbeStates]
          /\ \A d \in Dependencies : probe'[d] # "running"
BY DEF ReadinessInv, ReadinessType, ProbeStates, CancelLive

LEMMA ReadinessStep == ReadinessInv /\ [ReadinessNext]_readinessVars => ReadinessInv'
<1> SUFFICES ASSUME ReadinessInv, [ReadinessNext]_readinessVars PROVE ReadinessInv'
  OBVIOUS
<1>1. ASSUME NEW d \in Dependencies, ProbeEnds(d) \/ ProbeTimesOut(d) \/ ProbeCancelled(d)
      PROVE ReadinessInv'
  BY <1>1, ProbeStep
<1>2. CASE Gathered
  <2>1. probe' = probe /\ asking' = "answering" /\ Live = {} /\ report' = Reports
    BY <1>2 DEF Gathered
  <2>2. report' \in [Dependencies -> BOOLEAN]
    BY <2>1 DEF Reports, Completed
  <2>3. \A d \in Dependencies : report'[d] <=> probe'[d] = "up"
    BY <2>1 DEF Reports, Completed
  <2>4. NoneRunning' /\ AllEnded'
    BY <2>1 DEF NoneRunning, AllEnded, Live
  <2> QED BY <2>1, <2>2, <2>3, <2>4 DEF ReadinessInv, ReadinessType, Faithful
<1>3. CASE AggregateTimesOut
  <2>1. asking = "probing" /\ asking' = "probing" /\ report' = report
    BY <1>3 DEF AggregateTimesOut
  <2>2. probe' \in [Dependencies -> ProbeStates]
    BY <1>3, Cancelling DEF AggregateTimesOut
  <2> QED BY <2>1, <2>2 DEF ReadinessInv, ReadinessType, NoneRunning, AllEnded, Faithful
<1>4. CASE Abandon
  <2>1. asking' = "abandoned" /\ report' = report
    BY <1>4 DEF Abandon
  <2>2. probe' \in [Dependencies -> ProbeStates] /\ \A d \in Dependencies : probe'[d] # "running"
    BY <1>4, Cancelling DEF Abandon
  <2> QED BY <2>1, <2>2 DEF ReadinessInv, ReadinessType, NoneRunning, AllEnded, Faithful
<1>5. CASE CleanUp
  BY <1>5 DEF CleanUp, Settled, ReadinessInv, ReadinessType, NoneRunning, AllEnded, Faithful, Live
<1>6. CASE Elapse \/ UNCHANGED readinessVars
  BY <1>6 DEF Elapse, readinessVars, ReadinessInv, ReadinessType, NoneRunning, AllEnded, Faithful,
     Live
<1> QED BY <1>1, <1>2, <1>3, <1>4, <1>5, <1>6 DEF ReadinessNext

LEMMA ReadinessInvariant == ReadinessSpec => []ReadinessInv
BY ReadinessStart, ReadinessStep, PTL DEF ReadinessSpec

(* Whatever hangs, fails or is cancelled, an answer reports exactly the    *)
(* dependencies whose probe ended well (_probe_dependencies).              *)
THEOREM ReportsAreTrue == ReadinessSpec => []HealthyReported
<1>1. ReadinessInv => HealthyReported
  BY DEF ReadinessInv, Faithful, HealthyReported
<1> QED BY <1>1, ReadinessInvariant, PTL

(* No probe is left behind by a request, however it ended.                 *)
THEOREM ProbesEndFirst == ReadinessSpec => []NoProbeOutlives
<1>1. ReadinessInv => NoProbeOutlives
  BY DEF ReadinessInv, AllEnded, NoProbeOutlives
<1> QED BY <1>1, ReadinessInvariant, PTL

(* Both together, as a run checks them (_probe_dependencies).              *)
THEOREM ProbesAreTold == ReadinessSpec => []ProbesTold
<1>1. HealthyReported /\ NoProbeOutlives => ProbesTold
  BY DEF ProbesTold
<1> QED BY <1>1, ReportsAreTrue, ProbesEndFirst, PTL

(***************************************************************************)
(* Activity.  Labels tell projects apart, so the counts of the projects    *)
(* that are listed add up to the events of those projects.                 *)
(***************************************************************************)
LEMMA Apart ==
    ASSUME NEW S, NEW T, IsFiniteSet(S), IsFiniteSet(T), S \cap T = {}
    PROVE Cardinality(S \cup T) = Cardinality(S) + Cardinality(T)
<1>1. PICK m, n, k : m = Cardinality(S) /\ n = Cardinality(T) /\ k = Cardinality(S \cap T)
  OBVIOUS
<1>2. m \in Nat /\ n \in Nat /\ k = 0
  BY <1>1, FS_CardinalityType, FS_EmptySet
<1>3. Cardinality(S \cup T) = m + n - k
  BY <1>1, FS_Union
<1>4. m + n - k = m + n
  BY <1>2
<1> QED BY <1>1, <1>3, <1>4

(* f counts the parts that p divides all into, one for each label of L.    *)
Parted(E, p, L, f, parts, all) ==
    /\ all \subseteq E /\ \A e \in E : e \in all <=> p[e] \in L
    /\ \A l \in L : /\ parts[l] \subseteq E /\ \A e \in E : e \in parts[l] <=> p[e] = l
                   /\ f[l] = Cardinality(parts[l])

LEMMA SumOfParts ==
    ASSUME NEW E, IsFiniteSet(E), NEW p, NEW L, IsFiniteSet(L), NEW f, NEW parts, NEW all,
           Parted(E, p, L, f, parts, all)
    PROVE SumFunctionOnSet(f, L) = Cardinality(all)
<1> USE DEF Parted
<1> DEFINE Having(s) == {e \in E : p[e] \in s}
           F == {s \in SUBSET L : SumFunctionOnSet(f, s) # Cardinality(Having(s))}
<1>0. SUFFICES ASSUME F # {} PROVE FALSE
  <2>1. L \in SUBSET L /\ Having(L) = all
    OBVIOUS
  <2> QED BY <2>1
<1>1. F \in SUBSET (SUBSET L)
  OBVIOUS
<1> HIDE DEF F
<1>2. PICK s \in F : \A t \in F : t \subseteq s => t = s
  BY <1>0, <1>1, SmallestSubset
<1>3. s \in SUBSET L /\ IsFiniteSet(s)
  BY FS_Subset DEF F
<1>4. s # {}
  <2>1. SUFFICES ASSUME s = {} PROVE FALSE
    OBVIOUS
  <2>2. Having(s) = {}
    BY <2>1
  <2>3. SumFunctionOnSet(f, s) = 0 /\ Cardinality(Having(s)) = 0
    BY <2>1, <2>2, SumEmpty, FS_EmptySet
  <2> QED BY <2>3 DEF F
<1>5. PICK x \in s : TRUE
  BY <1>4
<1>6. PICK r : r = s \ {x}
  OBVIOUS
<1>7. r \in SUBSET L /\ r # s /\ r \subseteq s /\ IsFiniteSet(r)
  BY <1>3, <1>5, <1>6, FS_Subset
<1>8. SumFunctionOnSet(f, r) = Cardinality(Having(r))
  BY <1>2, <1>7 DEF F
<1>9. PICK here : here = {e \in E : p[e] = x} /\ here = parts[x]
  BY <1>3, <1>5
<1>10. IsFiniteSet(here) /\ IsFiniteSet(Having(r)) /\ \A l \in L : IsFiniteSet(parts[l])
  BY <1>9, FS_Subset
<1>11. Cardinality(here) \in Nat /\ Cardinality(Having(r)) \in Nat /\ f[x] = Cardinality(here)
       /\ \A l \in s : f[l] \in Int
  <2>1. Cardinality(here) \in Nat /\ Cardinality(Having(r)) \in Nat
    BY <1>10, FS_CardinalityType
  <2>2. f[x] = Cardinality(here)
    BY <1>3, <1>5, <1>9
  <2>3. ASSUME NEW l \in s PROVE f[l] \in Int
    <3>1. Cardinality(parts[l]) \in Nat
      BY <1>3, <1>10, FS_CardinalityType
    <3> QED BY <1>3, <3>1
  <2> QED BY <2>1, <2>2, <2>3
<1>12. SumFunctionOnSet(f, s) = f[x] + SumFunctionOnSet(f, r)
  BY <1>3, <1>5, <1>6, <1>11, SumRemove
<1>13. Having(s) = here \cup Having(r) /\ here \cap Having(r) = {}
  BY <1>5, <1>6, <1>9
<1>14. PICK u, v : u = Having(r) /\ v = Having(s)
  OBVIOUS
<1>15. v = here \cup u /\ here \cap u = {} /\ IsFiniteSet(u)
  BY <1>10, <1>13, <1>14
<1>16. Cardinality(here \cup u) = Cardinality(here) + Cardinality(u)
  BY <1>10, <1>15, Apart
<1>17. SumFunctionOnSet(f, s) = Cardinality(Having(s))
  BY <1>8, <1>11, <1>12, <1>14, <1>15, <1>16
<1> QED BY <1>17 DEF F

(* No two projects, the absent one included, have one label, and none has  *)
(* the label of the others.                                                *)
ProjectNames == Names \cup {NoProject}
LEMMA PrefixedIs ==
    ASSUME NEW W, NEW n \in Seq(W)
    PROVE /\ (<<"project:">> \o n)[1] = "project:"
          /\ Len(<<"project:">> \o n) = 1 + Len(n)
          /\ \A i \in 1..Len(n) : (<<"project:">> \o n)[1 + i] = n[i]
<1>1. PICK A, head : A = W \cup {"project:"} /\ head = <<"project:">>
  OBVIOUS
<1>2. head \in Seq(A) /\ Len(head) = 1 /\ head[1] = "project:" /\ n \in Seq(A)
  BY <1>1
<1>3. PICK both : both = head \o n
  OBVIOUS
<1>4. /\ Len(both) = Len(head) + Len(n)
      /\ \A i \in 1..(Len(head) + Len(n)) :
            both[i] = IF i <= Len(head) THEN head[i] ELSE n[i - Len(head)]
  BY <1>2, <1>3, ConcatProperties
<1>5. Len(n) \in Nat
  OBVIOUS
<1>6. both[1] = "project:" /\ \A i \in 1..Len(n) : both[1 + i] = n[i]
  BY <1>2, <1>4, <1>5
<1> QED BY <1>1, <1>2, <1>3, <1>4, <1>6

LEMMA PrefixedApart ==
    ASSUME NEW V, NEW m \in Seq(V), NEW W, NEW n \in Seq(W),
           <<"project:">> \o m = <<"project:">> \o n
    PROVE m = n
<1>1. PICK a, b : a = <<"project:">> \o m /\ b = <<"project:">> \o n
  OBVIOUS
<1>2. /\ a = b /\ Len(a) = 1 + Len(m) /\ Len(b) = 1 + Len(n)
      /\ \A i \in 1..Len(m) : a[1 + i] = m[i]
      /\ \A i \in 1..Len(n) : b[1 + i] = n[i]
  BY <1>1, PrefixedIs
<1>3. Len(m) = Len(n) /\ Len(m) \in Nat
  BY <1>2
<1>4. \A i \in 1..Len(m) : m[i] = n[i]
  BY <1>2, <1>3
<1>5. m \in Seq(V \cup W) /\ n \in Seq(V \cup W)
  OBVIOUS
<1> QED BY <1>3, <1>4, <1>5, SeqEqual

LEMMA LabelKinds ==
    ASSUME NEW n \in ProjectNames
    PROVE LET sentinel == \/ n \in {<<"none">>, <<"__other__">>} \/ n[1] = "project:"
          IN \/ n = NoProject /\ ProjectBucketLabel(n) = <<"none">>
             \/ /\ n \in Seq(Range(n)) /\ n # NoProject /\ sentinel
                /\ ProjectBucketLabel(n) = <<"project:">> \o n
             \/ /\ n \in Seq(Range(n)) /\ n # NoProject /\ ~sentinel
                /\ ProjectBucketLabel(n) = n
BY NamesAssumption DEF ProjectNames, NoProject, ProjectBucketLabel

LEMMA LabelsApart ==
    ASSUME NEW m \in ProjectNames, NEW n \in ProjectNames
    PROVE /\ ProjectBucketLabel(m) = ProjectBucketLabel(n) => m = n
          /\ ProjectBucketLabel(m) # <<"__other__">>
<1>1. <<"none">>[1] = "none" /\ <<"__other__">>[1] = "__other__"
  OBVIOUS
<1>2. ASSUME NEW k, k \in Seq(Range(k))
      PROVE (<<"project:">> \o k)[1] = "project:"
  BY PrefixedIs
<1>3. ProjectBucketLabel(m) # <<"__other__">>
  BY <1>1, <1>2, LabelKinds
<1>4. ASSUME ProjectBucketLabel(m) = ProjectBucketLabel(n) PROVE m = n
  BY <1>1, <1>2, <1>4, LabelKinds, PrefixedApart
<1> QED BY <1>3, <1>4

ActivityType ==
    /\ projectOf \in [Events -> ProjectNames]
    /\ IsFiniteSet(calls) /\ calls \subseteq Events
    /\ rowEvents \cup waitingEvents \cup batchEvents \subseteq calls
    /\ \/ counting = [step |-> "idle"]
       \/ counting.step = "projects" /\ counting = [step |-> "projects", total |-> counting.total,
                                                    disturbed |-> counting.disturbed]
       \/ /\ counting.step = "shown"
          /\ counting = [step |-> "shown", total |-> counting.total,
                         disturbed |-> counting.disturbed, byProject |-> counting.byProject,
                         listed |-> counting.listed, other |-> counting.other]
ActivityInv ==
    /\ ActivityType
    /\ AggregateAt("projects") /\ ~counting.disturbed => counting.total = Cardinality(rowEvents)
    /\ ActivityAddsUp

LEMMA ActivityStart == (ActivityInit /\ projectOf \in [Events -> ProjectNames]) => ActivityInv
BY FS_EmptySet DEF ActivityInit, ActivityInv, ActivityType, AggregateAt, ActivityAddsUp

(* What is shown adds up when it is taken.                                 *)
LEMMA BucketsAddUp ==
    ASSUME ActivityType, NEW B \in Buckets, NEW labels, NEW counts,
           labels = {ProjectBucketLabel(b) : b \in B},
           counts = [l \in labels |-> CountOf(CHOOSE b \in B : ProjectBucketLabel(b) = l)]
    PROVE /\ \A b \in B : counts[ProjectBucketLabel(b)] = CountOf(b)
          /\ Cardinality(rowEvents) - SumFunctionOnSet(counts, labels)
               = Cardinality({e \in rowEvents : projectOf[e] \notin B})
          /\ <<"__other__">> \notin labels
<1>1. /\ IsFiniteSet(rowEvents) /\ rowEvents \subseteq Events
      /\ \A e \in rowEvents : projectOf[e] \in ProjectNames
  BY FS_Subset DEF ActivityType
<1>2. B \subseteq ProjectNames /\ B \subseteq Named
  BY <1>1 DEF Buckets, Named
<1>3. ASSUME NEW b \in B
      PROVE /\ ProjectBucketLabel(b) \in labels
            /\ (CHOOSE c \in B : ProjectBucketLabel(c) = ProjectBucketLabel(b)) = b
  BY <1>2, LabelsApart
<1>4. \A b \in B : counts[ProjectBucketLabel(b)] = CountOf(b)
  BY <1>3
<1>5. PICK p : p = [e \in rowEvents |-> ProjectBucketLabel(projectOf[e])]
  OBVIOUS
<1>6. IsFiniteSet(labels)
  <2>1. PICK E : E = {e \in rowEvents : projectOf[e] \in B}
    OBVIOUS
  <2>2. IsFiniteSet(E)
    BY <1>1, <2>1, FS_Subset
  <2>3. \A l \in labels : \E e \in E : p[e] = l
    BY <1>2, <1>5, <2>1 DEF Named
  <2>4. PICK q : q = [e \in E |-> p[e]]
    OBVIOUS
  <2>5. \A e \in E : q[e] \in labels
    BY <1>5, <2>1, <2>4
  <2>6. q \in Surjection(E, labels)
    BY <2>3, <2>4, <2>5 DEF Surjection
  <2> QED BY <2>2, <2>6, FS_Surjection
<1>7. PICK parts : parts = [l \in labels |-> {e \in rowEvents : p[e] = l}]
  OBVIOUS
<1>8. SumFunctionOnSet(counts, labels) = Cardinality({e \in rowEvents : p[e] \in labels})
  <2>1. ASSUME NEW l \in labels
        PROVE /\ parts[l] \subseteq rowEvents /\ \A e \in rowEvents : e \in parts[l] <=> p[e] = l
              /\ counts[l] = Cardinality(parts[l])
    <3>1. PICK b \in B : l = ProjectBucketLabel(b)
      OBVIOUS
    <3>2. counts[l] = Cardinality({e \in rowEvents : projectOf[e] = b})
      BY <1>4, <3>1 DEF CountOf
    <3>3. \A e \in rowEvents : p[e] = l <=> projectOf[e] = b
      BY <1>1, <1>2, <1>5, <3>1, LabelsApart
    <3>4. {e \in rowEvents : projectOf[e] = b} = parts[l]
      BY <1>7, <3>3
    <3> QED BY <1>7, <3>2, <3>4
  <2>2. PICK all : all = {e \in rowEvents : p[e] \in labels}
    OBVIOUS
  <2>3. all \subseteq rowEvents /\ \A e \in rowEvents : e \in all <=> p[e] \in labels
    BY <2>2
  <2>4. SumFunctionOnSet(counts, labels) = Cardinality(all)
    <3>1. Parted(rowEvents, p, labels, counts, parts, all)
      BY <2>1, <2>3 DEF Parted
    <3>2. IsFiniteSet(rowEvents)
      BY <1>1
    <3> QED BY <1>6, <3>1, <3>2, SumOfParts
  <2> QED BY <2>2, <2>4
<1>9. \A e \in rowEvents : p[e] \in labels <=> projectOf[e] \in B
  BY <1>1, <1>2, <1>5, LabelsApart
<1>10. PICK inside, outside : /\ inside = {e \in rowEvents : projectOf[e] \in B}
                              /\ outside = {e \in rowEvents : projectOf[e] \notin B}
  OBVIOUS
<1>11. /\ IsFiniteSet(inside) /\ IsFiniteSet(outside)
       /\ inside \cap outside = {} /\ inside \cup outside = rowEvents
  BY <1>1, <1>10, FS_Subset
<1>12. Cardinality(rowEvents) = Cardinality(inside) + Cardinality(outside)
       /\ Cardinality(inside) \in Nat /\ Cardinality(outside) \in Nat
  BY <1>11, Apart, FS_CardinalityType
<1>13. SumFunctionOnSet(counts, labels) = Cardinality(inside)
  BY <1>8, <1>9, <1>10
<1>14. <<"__other__">> \notin labels
  BY <1>2, LabelsApart
<1> QED BY <1>4, <1>10, <1>12, <1>13, <1>14

LEMMA Counting == ASSUME ActivityInv, CountAll \/ CountByProject PROVE ActivityInv'
<1>1. UNCHANGED <<projectOf, calls, waitingEvents, batchEvents, rowEvents>>
  BY DEF CountAll, CountByProject
<1>2. CASE CountAll
  <2>1. counting' = [step |-> "projects", total |-> Cardinality(rowEvents), disturbed |-> FALSE]
    BY <1>2 DEF CountAll
  <2> QED BY <1>1, <2>1 DEF ActivityInv, ActivityType, AggregateAt, ActivityAddsUp
<1>3. CASE CountByProject
  <2>1. PICK B \in Buckets :
          LET labels == {ProjectBucketLabel(b) : b \in B}
              counts == [l \in labels |-> CountOf(CHOOSE b \in B : ProjectBucketLabel(b) = l)]
          IN counting' = [step |-> "shown", total |-> counting.total,
                          disturbed |-> counting.disturbed, byProject |-> counts, listed |-> B,
                          other |-> counting.total - SumFunctionOnSet(counts, labels)]
    BY <1>3 DEF CountByProject
  <2>2. PICK labels, counts :
          /\ labels = {ProjectBucketLabel(b) : b \in B}
          /\ counts = [l \in labels |-> CountOf(CHOOSE b \in B : ProjectBucketLabel(b) = l)]
    OBVIOUS
  <2>3. counting' = [step |-> "shown", total |-> counting.total,
                     disturbed |-> counting.disturbed, byProject |-> counts, listed |-> B,
                     other |-> counting.total - SumFunctionOnSet(counts, labels)]
    BY <2>1, <2>2
  <2>4. ActivityType'
    BY <1>1, <2>3 DEF ActivityInv, ActivityType
  <2>5. AggregateAt("projects") /\ (~counting.disturbed => counting.total = Cardinality(rowEvents))
    BY <1>3 DEF CountByProject, ActivityInv
  <2>6. /\ \A b \in B : counts[ProjectBucketLabel(b)] = CountOf(b)
        /\ Cardinality(rowEvents) - SumFunctionOnSet(counts, labels)
               = Cardinality({e \in rowEvents : projectOf[e] \notin B})
        /\ <<"__other__">> \notin labels /\ DOMAIN counts = labels
    BY <2>2, BucketsAddUp DEF ActivityInv
  <2>7. \A b : CountOf(b)' = CountOf(b)
    BY <1>1 DEF CountOf
  <2>8. ActivityAddsUp'
    BY <1>1, <2>3, <2>5, <2>6, <2>7 DEF ActivityAddsUp
  <2>9. ~AggregateAt("projects")'
    BY <2>3 DEF AggregateAt
  <2> QED BY <2>4, <2>8, <2>9 DEF ActivityInv
<1> QED BY <1>2, <1>3

(* A dashboard in progress is marked when the rows change under it.        *)
LEMMA Storing ==
    ASSUME ActivityInv, UNCHANGED projectOf,
           IsFiniteSet(calls') /\ calls' \subseteq Events,
           rowEvents' \cup waitingEvents' \cup batchEvents' \subseteq calls',
           Disturb \/ UNCHANGED <<rowEvents, counting>>
    PROVE ActivityInv'
<1>1. CASE UNCHANGED <<rowEvents, counting>>
  <2>1. \A b : CountOf(b)' = CountOf(b)
    BY <1>1 DEF CountOf
  <2> QED BY <1>1, <2>1 DEF ActivityInv, ActivityType, AggregateAt, ActivityAddsUp
<1>2. CASE Disturb
  <2>1. ActivityType' /\ (counting.step = "idle" <=> counting'.step = "idle")
    BY <1>2 DEF Disturb, ActivityInv, ActivityType, AggregateAt
  <2>2. CASE AggregateAt("idle")
    BY <2>1, <2>2 DEF ActivityInv, ActivityAddsUp, AggregateAt
  <2>3. CASE ~AggregateAt("idle")
    <3>1. counting'.disturbed = TRUE
      BY <1>2, <2>3 DEF Disturb, ActivityInv, ActivityType, AggregateAt
    <3> QED BY <2>1, <3>1 DEF ActivityInv, ActivityAddsUp
  <2> QED BY <2>2, <2>3
<1> QED BY <1>1, <1>2

LEMMA ActivityStep == ActivityInv /\ [ActivityNext]_activityVars => ActivityInv'
<1> SUFFICES ASSUME ActivityInv, [ActivityNext]_activityVars PROVE ActivityInv'
  OBVIOUS
<1>1. /\ IsFiniteSet(calls) /\ calls \subseteq Events
      /\ rowEvents \cup waitingEvents \cup batchEvents \subseteq calls
  BY DEF ActivityInv, ActivityType
<1>2. ASSUME NEW e \in Events, OnCallTool(e) PROVE ActivityInv'
  <2>1. /\ calls' = calls \cup {e} /\ waitingEvents' = waitingEvents \cup {e}
        /\ UNCHANGED <<projectOf, batchEvents, rowEvents, counting>>
    BY <1>2 DEF OnCallTool
  <2>2. IsFiniteSet(calls')
    BY <1>1, <2>1, FS_AddElement
  <2> QED BY <1>1, <2>1, <2>2, Storing
<1>3. ASSUME NEW e \in Events, PurgeBefore(e) PROVE ActivityInv'
  BY <1>1, <1>3, Storing DEF PurgeBefore
<1>4. CASE TakeBatch
  BY <1>1, <1>4, Storing DEF TakeBatch, Oldest
<1>5. CASE InsertBatch
  BY <1>1, <1>5, Storing DEF InsertBatch
<1>6. CASE SpoilBatch
  BY <1>1, <1>6, Storing DEF SpoilBatch
<1>7. CASE CountAll \/ CountByProject
  BY <1>7, Counting
<1>8. CASE UNCHANGED activityVars
  BY <1>1, <1>8, Storing DEF activityVars
<1> QED BY <1>2, <1>3, <1>4, <1>5, <1>6, <1>7, <1>8 DEF ActivityNext, Store

(* No fairness is needed for it.                                           *)
LEMMA ActivityAlways == ActivityInit /\ [][ActivityNext]_activityVars => []ActivityAddsUp
<1>1. ActivityInit => ActivityInv
  BY ActivityStart DEF ActivityInit, ProjectNames
<1>2. ActivityInv => ActivityAddsUp
  BY DEF ActivityInv
<1> QED BY <1>1, <1>2, ActivityStep, PTL

(* If nothing is inserted or purged between the statements of aggregate,   *)
(* each project listed is shown with its own count, under a label no other *)
(* project and no sentinel has, and all the others in one count            *)
(* (aggregate and project_bucket_label in telemetry/repository.py).        *)
THEOREM ActivityIsWhole == ActivitySpec => []ActivityAddsUp
BY ActivityAlways, PTL DEF ActivitySpec

(***************************************************************************)
(* The process as a whole: every step of it is a step of one component, or *)
(* leaves it alone.                                                        *)
(***************************************************************************)
LEMMA ComponentSteps ==
    [RuntimeNext]_runtimeVars =>
        /\ [Next]_vars /\ [WorkersNext]_workersVars /\ [BoundaryNext]_boundaryVars
        /\ [ReadinessNext]_readinessVars /\ [ActivityNext]_activityVars
BY DEF RuntimeNext, Moves, runtimeVars

(* What is proved of each component holds of the process that runs them    *)
(* all: no serve, item, body, disconnect, record, probe or event is lost   *)
(* from sight, whichever component moves (app.py).                         *)
THEOREM ProcessIsSafe ==
    RuntimeSpec => /\ []LossObservable
                   /\ []NothingForgotten /\ []EngineOutlivesWorkers
                   /\ []RequestIntact /\ []DisconnectsHeard /\ []OneRecord
                   /\ []ProbesTold
                   /\ []ActivityAddsUp
<1>1. RuntimeSpec => /\ Spec /\ WorkersSpec /\ BoundarySpec /\ ReadinessSpec
                     /\ ActivityInit /\ [][ActivityNext]_activityVars
  BY ComponentSteps, PTL
     DEF RuntimeSpec, RuntimeInit, Spec, WorkersSpec, BoundarySpec, ReadinessSpec
<1> QED BY <1>1, LossIsObservable, NoneForgotten, EngineLast, RequestsIntact,
           DisconnectsAreHeard, OneRecordEach, ProbesAreTold, ActivityAlways, PTL
============================================================================
