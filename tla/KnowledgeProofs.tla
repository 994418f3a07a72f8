--------------------------- MODULE KnowledgeProofs ---------------------------
(***************************************************************************)
(* Theorems about the components of Knowledge: the batches of writes, the  *)
(* backfill of embeddings, the embeddings client and the list, each with   *)
(* the invariant it rests on; and about the composition, with the          *)
(* invariants of the reads, of the matching of skills and of the graph     *)
(* (RetrievalProofs).                                                      *)
(***************************************************************************)
EXTENDS Knowledge, RetrievalProofs, SequenceTheorems, TLAPS

(* The smallest of a set of numbers, which both the batches and the        *)
(* backfill take next.                                                     *)
LEMMA LeastIs == ASSUME NEW S \in SUBSET Nat, S # {} PROVE First(S) \in S
BY LeastNatural DEF First

(***************************************************************************)
(* BatchWrites: every item is to do, deferred or has one outcome, and      *)
(* "created" is the outcome of one item for each text that is stored.      *)
(***************************************************************************)
ItemOutcomes == {"invalid", "created", "deduplicated", "conflict"}
BatchState ==
    [pc : {"embed", "reembed", "item", "touch", "insert", "genInsert", "genTouch", "done"},
     items : ItemLists, todo : SUBSET Nat, deferred : SUBSET Nat, vectors : SUBSET Texts,
     out : SUBSET (Nat \X ItemOutcomes), wrote : SUBSET Texts]
HeldState == [mine : SUBSET Texts, locked : SUBSET Texts, gen : BOOLEAN]

OneOutcome(items, todo, deferred, out) ==
    /\ todo \subseteq Valid(items) /\ deferred \subseteq Valid(items)
    /\ todo \cap deferred = {}
    /\ \A i \in DOMAIN items : i \in todo \cup deferred \/ (\E o \in out : o[1] = i)
    /\ \A o \in out : /\ o \in Nat \X ItemOutcomes /\ o[1] \in DOMAIN items
                      /\ o[1] \notin todo \cup deferred
    /\ \A o, p \in out : o[1] = p[1] => o = p
CreatedOnce(items, out, stored) ==
    /\ \A t \in stored : \E o \in out : items[o[1]] = t /\ o[2] = "created"
    /\ \A o \in out : o[2] = "created" => items[o[1]] \in stored
    /\ \A o, p \in out : /\ o[2] = "created" /\ p[2] = "created" /\ items[o[1]] = items[p[1]]
                         => o = p

Current(a) == a.items[First(a.todo)]
StoredBy(a, h) ==
    a.wrote \cup (IF a.pc = "genInsert" THEN h.mine \ {Current(a)} ELSE h.mine)
InSession == {"touch", "insert", "genInsert", "genTouch"}
BatchOK(a, h) ==
    /\ a \in BatchState /\ h \in HeldState
    /\ OneOutcome(a.items, a.todo, a.deferred, a.out)
    /\ CreatedOnce(a.items, a.out, StoredBy(a, h))
    /\ h.mine \cup a.wrote \subseteq a.vectors
    /\ \A i \in a.deferred : a.items[i] \notin a.vectors
    /\ \A i \in a.todo : a.items[i] \notin a.wrote
    /\ a.pc \in {"embed", "reembed", "done"} => h.mine = {}
    /\ a.pc \in InSession => a.todo # {}
    /\ a.pc = "done" => a.todo = {} /\ a.deferred = {}
    /\ a.pc = "insert" => Current(a) \in a.vectors \ h.mine
    /\ a.pc = "genInsert" => Current(a) \in h.mine
BatchInv ==
    /\ DOMAIN batches = Batches /\ held \in [Batches -> HeldState]
    /\ \A b \in Batches : \/ batches[b].pc = "idle" /\ held[b] = Nowhere
                          \/ batches[b].pc = "failed"
                          \/ BatchOK(batches[b], held[b])

LEMMA Items ==
    ASSUME NEW items \in ItemLists
    PROVE /\ DOMAIN items = 1..Len(items) /\ Len(items) \in Nat /\ Valid(items) \subseteq Nat
          /\ \A i \in Valid(items) : i \in DOMAIN items /\ items[i] \in Texts
<1>1. items \in Seq(Texts \cup {Invalid})
  BY ItemsAssumption
<1>2. DOMAIN items = 1..Len(items) /\ Len(items) \in Nat
      /\ \A i \in 1..Len(items) : items[i] \in Texts \cup {Invalid}
  BY <1>1
<1> QED BY <1>2 DEF Valid

LEMMA NowhereIs == Nowhere \in HeldState /\ Nowhere.mine = {}
BY DEF Nowhere, HeldState

(* An outcome more, for an item that was to do.                            *)
LEMMA Settles ==
    ASSUME NEW items \in ItemLists, NEW todo, NEW deferred, NEW out, NEW stored,
           OneOutcome(items, todo, deferred, out), CreatedOnce(items, out, stored),
           NEW i \in todo, NEW w \in ItemOutcomes, NEW stored2,
           \/ w # "created" /\ stored2 = stored
           \/ w = "created" /\ items[i] \notin stored /\ stored2 = stored \cup {items[i]}
    PROVE /\ OneOutcome(items, todo \ {i}, deferred, out \cup {<<i, w>>})
          /\ CreatedOnce(items, out \cup {<<i, w>>}, stored2)
<1>1. i \in Nat /\ i \in DOMAIN items /\ i \notin deferred /\ i \in Valid(items)
  BY Items DEF OneOutcome
<1>2. PICK x : x = <<i, w>>
  OBVIOUS
<1>3. x \in Nat \X ItemOutcomes /\ x[1] = i /\ x[2] = w
  BY <1>1, <1>2
<1>4. OneOutcome(items, todo \ {i}, deferred, out \cup {x})
  BY <1>1, <1>3 DEF OneOutcome
<1>5. CreatedOnce(items, out \cup {x}, stored2)
  <2>1. \A o \in out : o[1] # i
    BY DEF OneOutcome
  <2> QED BY <1>3, <2>1 DEF CreatedOnce
<1> QED BY <1>2, <1>4, <1>5

(* A call moves, and the others stay as they are.                          *)
LEMMA BatchMoves ==
    ASSUME BatchInv, NEW b \in Batches, NEW a, Put(b, a), NEW h \in HeldState,
           held' = [held EXCEPT ![b] = h], BatchOK(a, h) \/ a.pc = "failed"
    PROVE BatchInv'
<1>1. /\ DOMAIN batches' = Batches /\ batches'[b] = a /\ held' \in [Batches -> HeldState]
      /\ held'[b] = h
      /\ \A c \in Batches \ {b} : batches'[c] = batches[c] /\ held'[c] = held[c]
  BY DEF BatchInv, Put
<1>2. ASSUME NEW c \in Batches
      PROVE \/ batches'[c].pc = "idle" /\ held'[c] = Nowhere
            \/ batches'[c].pc = "failed" \/ BatchOK(batches'[c], held'[c])
  <2>1. CASE c = b
    BY <1>1, <2>1
  <2>2. CASE c # b
    BY <1>1, <2>2 DEF BatchInv
  <2> QED BY <2>1, <2>2
<1> QED BY <1>1, <1>2 DEF BatchInv

LEMMA Session ==
    ASSUME BatchInv, NEW b \in Batches, batches[b].pc \notin {"idle", "failed"}
    PROVE /\ BatchOK(batches[b], held[b]) /\ held[b] \in HeldState
          /\ held = [held EXCEPT ![b] = held[b]]
BY DEF BatchInv

(* The item at hand.                                                       *)
LEMMA AtHand ==
    ASSUME BatchInv, NEW b \in Batches, batches[b].pc \notin {"idle", "failed"},
           batches[b].todo # {}
    PROVE /\ Index(b) = First(batches[b].todo) /\ Index(b) \in batches[b].todo
          /\ Text(b) = Current(batches[b]) /\ Text(b) \in Texts /\ Index(b) \in Nat
<1>1. Index(b) = First(batches[b].todo)
  BY DEF Index, First
<1>2. /\ BatchOK(batches[b], held[b]) /\ batches[b].items \in ItemLists
      /\ batches[b].todo \in SUBSET Nat /\ batches[b].todo \subseteq Valid(batches[b].items)
  BY Session DEF BatchOK, BatchState, OneOutcome
<1>3. First(batches[b].todo) \in batches[b].todo
  BY <1>2, LeastIs
<1> QED BY <1>1, <1>2, <1>3, Items DEF Text, Current

LEMMA BatchStart == BatchInit => BatchInv
BY NowhereIs DEF BatchInit, BatchInv

LEMMA StartsBatch ==
    ASSUME BatchInv, NEW b \in Batches, NEW items \in ItemLists, StartBatch(b, items)
    PROVE BatchInv'
<1>1. held[b] = Nowhere /\ held' = [held EXCEPT ![b] = Nowhere]
  <2>1. batches[b].pc = "idle" /\ UNCHANGED held
    BY DEF StartBatch, Where
  <2>2. held[b] = Nowhere
    BY <2>1 DEF BatchInv, BatchOK, BatchState
  <2> QED BY <2>1, <2>2 DEF BatchInv
<1>2. PICK vec : vec = {items[i] : i \in {j \in Valid(items) : ~table[items[j]].active}}
  OBVIOUS
<1>3. PICK out : out = {<<i, "invalid">> : i \in DOMAIN items \ Valid(items)}
  OBVIOUS
<1>4. vec \in SUBSET Texts /\ Valid(items) \in SUBSET Nat
  BY <1>2, Items
<1>5. out \in SUBSET (Nat \X ItemOutcomes)
      /\ \A o \in out : o[1] \in DOMAIN items \ Valid(items) /\ o[2] = "invalid"
  BY <1>3, Items DEF ItemOutcomes
<1>6. PICK a : a = [pc |-> "embed", items |-> items, todo |-> Valid(items), deferred |-> {},
                    vectors |-> vec, out |-> out, wrote |-> {}]
  OBVIOUS
<1>7. a \in BatchState
  BY <1>4, <1>5, <1>6 DEF BatchState
<1>8. Put(b, a)
  BY <1>2, <1>3, <1>6 DEF StartBatch
<1>9. /\ a.pc = "embed" /\ a.items = items /\ a.todo = Valid(items) /\ a.deferred = {}
      /\ a.out = out /\ a.wrote = {}
  BY <1>6
<1>10. OneOutcome(items, Valid(items), {}, out)
  <2>1. ASSUME NEW i \in DOMAIN items \ Valid(items) PROVE \E o \in out : o[1] = i
    <3>1. PICK o : o = <<i, "invalid">>
      OBVIOUS
    <3> QED BY <1>3, <3>1
  <2>2. \A o, p \in out : o[1] = p[1] => o = p
    BY <1>3
  <2>3. Valid(items) \subseteq DOMAIN items
    BY DEF Valid
  <2> QED BY <1>5, <2>1, <2>2, <2>3 DEF OneOutcome
<1>11. CreatedOnce(items, out, StoredBy(a, Nowhere))
  BY <1>5, <1>9, NowhereIs DEF CreatedOnce, StoredBy
<1>12. BatchOK(a, Nowhere)
  BY <1>7, <1>9, <1>10, <1>11, NowhereIs DEF BatchOK, InSession
<1> QED BY <1>1, <1>8, <1>12, NowhereIs, BatchMoves

(* Steps that change nothing but where the call is.                        *)
LEMMA Passes ==
    ASSUME BatchInv, NEW b \in Batches, batches[b].pc \notin {"idle", "failed"}, NEW pc,
           Put(b, [batches[b] EXCEPT !.pc = pc]), UNCHANGED held,
           batches[b].pc # "genInsert",
           \/ pc = "item"
           \/ /\ pc = "touch" \/ pc = "genTouch" \/ pc = "insert"
              /\ batches[b].todo # {} /\ batches[b].pc \notin {"embed", "reembed", "done"}
              /\ pc = "insert" => Current(batches[b]) \in batches[b].vectors \ held[b].mine
    PROVE BatchInv'
<1>1. PICK s, h : s = batches[b] /\ h = held[b]
  OBVIOUS
<1>2. BatchOK(s, h) /\ h \in HeldState /\ held' = [held EXCEPT ![b] = h]
  BY <1>1, Session
<1>3. PICK a : a = [s EXCEPT !.pc = pc]
  OBVIOUS
<1>4. /\ a \in BatchState /\ a.pc = pc /\ a.items = s.items /\ a.todo = s.todo
      /\ a.deferred = s.deferred /\ a.vectors = s.vectors /\ a.out = s.out /\ a.wrote = s.wrote
  BY <1>2, <1>3 DEF BatchOK, BatchState
<1>5. StoredBy(a, h) = StoredBy(s, h) /\ Current(a) = Current(s)
  BY <1>1, <1>4 DEF StoredBy, Current
<1>6. BatchOK(a, h)
  BY <1>1, <1>2, <1>4, <1>5 DEF BatchOK, InSession
<1> QED BY <1>1, <1>2, <1>3, <1>6, BatchMoves

(* Steps that give the item at hand its outcome.                           *)
LEMMA SettlesItem ==
    ASSUME BatchInv, NEW b \in Batches, NEW w \in ItemOutcomes, SettleItem(b, w),
           NEW h \in HeldState, held' = [held EXCEPT ![b] = h], h.mine = held[b].mine,
           batches[b].pc \in InSession,
           batches[b].pc = "genInsert" <=> w = "created"
    PROVE BatchInv'
<1>1. PICK s, i : s = batches[b] /\ i = Index(b)
  OBVIOUS
<1>2. BatchOK(s, held[b]) /\ s.todo # {}
  BY <1>1, Session DEF BatchOK, InSession
<1>3. i \in s.todo /\ i = First(s.todo) /\ s.items[i] = Current(s) /\ i \in Nat
  BY <1>1, <1>2, AtHand DEF InSession, Current
<1>4. PICK T \in SUBSET Nat, O \in SUBSET (Nat \X ItemOutcomes) :
         T = s.todo \ {i} /\ O = s.out \cup {<<i, w>>}
  <2>1. s.todo \in SUBSET Nat /\ s.out \in SUBSET (Nat \X ItemOutcomes)
    BY <1>2 DEF BatchOK, BatchState
  <2>2. PICK o : o = <<i, w>>
    OBVIOUS
  <2>3. o \in Nat \X ItemOutcomes
    BY <1>3, <2>2
  <2>4. s.out \cup {o} \in SUBSET (Nat \X ItemOutcomes)
    BY <2>1, <2>3
  <2> QED BY <2>1, <2>2, <2>4
<1>5. PICK a : a = [s EXCEPT !.pc = "item", !.todo = T, !.out = O]
  OBVIOUS
<1>6. /\ a \in BatchState /\ a.pc = "item" /\ a.items = s.items /\ a.todo = T /\ a.out = O
      /\ a.deferred = s.deferred /\ a.vectors = s.vectors /\ a.wrote = s.wrote
  BY <1>2, <1>5 DEF BatchOK, BatchState
<1>7. Put(b, a)
  BY <1>1, <1>4, <1>5 DEF SettleItem
<1>8. /\ w # "created" => StoredBy(a, h) = StoredBy(s, held[b])
      /\ w = "created" => /\ StoredBy(a, h) = StoredBy(s, held[b]) \cup {Current(s)}
                          /\ Current(s) \notin StoredBy(s, held[b])
  BY <1>1, <1>2, <1>3, <1>6 DEF StoredBy, BatchOK
<1>9. OneOutcome(a.items, a.todo, a.deferred, a.out) /\ CreatedOnce(a.items, a.out, StoredBy(a, h))
  <2>1. s.items \in ItemLists /\ OneOutcome(s.items, s.todo, s.deferred, s.out)
        /\ CreatedOnce(s.items, s.out, StoredBy(s, held[b]))
    BY <1>2 DEF BatchOK, BatchState
  <2>2. PICK S, S2 : S = StoredBy(s, held[b]) /\ S2 = StoredBy(a, h)
    OBVIOUS
  <2>3. \/ w # "created" /\ S2 = S
        \/ w = "created" /\ s.items[i] \notin S /\ S2 = S \cup {s.items[i]}
    BY <1>3, <1>8, <2>2
  <2>4. /\ OneOutcome(s.items, s.todo \ {i}, s.deferred, s.out \cup {<<i, w>>})
        /\ CreatedOnce(s.items, s.out \cup {<<i, w>>}, S2)
    BY <1>3, <2>1, <2>2, <2>3, Settles
  <2> QED BY <1>4, <1>6, <2>2, <2>4
<1>10. BatchOK(a, h)
  BY <1>2, <1>4, <1>6, <1>9 DEF BatchOK, InSession
<1> QED BY <1>7, <1>10, BatchMoves

LEMMA FindsExisting ==
    ASSUME BatchInv, NEW b \in Batches, FindExisting(b) PROVE BatchInv'
<1>1. PICK s, h, i : s = batches[b] /\ h = held[b] /\ i = Index(b)
  OBVIOUS
<1>2. /\ BatchOK(s, h) /\ h \in HeldState /\ s.pc = "item" /\ s.todo # {} /\ UNCHANGED held
      /\ held' = [held EXCEPT ![b] = h]
  BY <1>1, Session DEF FindExisting, Where
<1>3. /\ i \in s.todo /\ i \in Nat /\ Text(b) = Current(s) /\ i = First(s.todo)
      /\ s.items[i] = Current(s)
  BY <1>1, <1>2, AtHand DEF Current
<1>4. CASE Put(b, [batches[b] EXCEPT !.pc = "touch"])
  BY <1>1, <1>2, <1>4, Passes
<1>5. CASE /\ Text(b) \notin held[b].mine /\ Text(b) \in batches[b].vectors
           /\ Put(b, [batches[b] EXCEPT !.pc = "insert"])
  BY <1>1, <1>2, <1>3, <1>5, Passes
<1>6. CASE /\ Text(b) \notin batches[b].vectors
           /\ Put(b, [batches[b] EXCEPT !.todo = @ \ {Index(b)}, !.deferred = @ \cup {Index(b)}])
  <2>1. PICK T \in SUBSET Nat, D \in SUBSET Nat : T = s.todo \ {i} /\ D = s.deferred \cup {i}
    BY <1>2, <1>3 DEF BatchOK, BatchState
  <2>2. PICK a : a = [s EXCEPT !.todo = T, !.deferred = D]
    OBVIOUS
  <2>3. Put(b, a)
    BY <1>1, <1>6, <2>1, <2>2
  <2>4. /\ a \in BatchState /\ a.pc = s.pc /\ a.items = s.items /\ a.todo = T /\ a.deferred = D
        /\ a.vectors = s.vectors /\ a.out = s.out /\ a.wrote = s.wrote
    BY <1>2, <2>2 DEF BatchOK, BatchState
  <2>5. StoredBy(a, h) = StoredBy(s, h)
    BY <1>2, <2>4 DEF StoredBy
  <2>6. OneOutcome(a.items, T, D, a.out)
    BY <1>2, <1>3, <2>1, <2>4 DEF BatchOK, OneOutcome
  <2>7. BatchOK(a, h)
    BY <1>1, <1>2, <1>3, <1>6, <2>1, <2>4, <2>5, <2>6 DEF BatchOK, InSession
  <2> QED BY <1>2, <2>3, <2>7, BatchMoves
<1> QED BY <1>4, <1>5, <1>6 DEF FindExisting

LEMMA Touches == ASSUME BatchInv, NEW b \in Batches, Touch(b) PROVE BatchInv'
<1>1. PICK s, h : s = batches[b] /\ h = held[b]
  OBVIOUS
<1>2. BatchOK(s, h) /\ h \in HeldState /\ s.pc = "touch" /\ s.todo # {}
  BY <1>1, Session DEF Touch, Where, BatchOK, InSession
<1>3. Text(b) \in Texts
  BY <1>1, <1>2, AtHand
<1>4. CASE held' = [held EXCEPT ![b].locked = @ \cup {Text(b)}]
           /\ Put(b, [batches[b] EXCEPT !.pc = "genTouch"])
  <2>1. PICK L \in SUBSET Texts : L = h.locked \cup {Text(b)}
    BY <1>2, <1>3 DEF HeldState
  <2>2. PICK k : k = [h EXCEPT !.locked = L]
    OBVIOUS
  <2>3. held' = [held EXCEPT ![b] = k]
    BY <1>1, <1>4, <2>1, <2>2
  <2>4. k \in HeldState /\ k.mine = h.mine
    BY <1>2, <2>2 DEF HeldState
  <2>5. PICK a : a = [s EXCEPT !.pc = "genTouch"]
    OBVIOUS
  <2>6. /\ a \in BatchState /\ a.pc = "genTouch" /\ a.items = s.items /\ a.todo = s.todo
        /\ a.deferred = s.deferred /\ a.vectors = s.vectors /\ a.out = s.out
        /\ a.wrote = s.wrote
    BY <1>2, <2>5 DEF BatchOK, BatchState
  <2>7. StoredBy(a, k) = StoredBy(s, h)
    BY <1>2, <2>4, <2>6 DEF StoredBy
  <2>8. BatchOK(a, k)
    BY <1>2, <2>4, <2>6, <2>7 DEF BatchOK, InSession
  <2> QED BY <1>1, <1>4, <2>3, <2>4, <2>5, <2>8, BatchMoves
<1>5. CASE SettleItem(b, "deduplicated") /\ UNCHANGED held
  <2>1. held' = [held EXCEPT ![b] = h]
    BY <1>1, <1>5, <1>2, Session
  <2> QED BY <1>1, <1>2, <1>5, <2>1, SettlesItem DEF ItemOutcomes, InSession
<1> QED BY <1>4, <1>5 DEF Touch

LEMMA Inserts == ASSUME BatchInv, NEW b \in Batches, Insert(b) PROVE BatchInv'
<1>1. PICK s, h : s = batches[b] /\ h = held[b]
  OBVIOUS
<1>2. BatchOK(s, h) /\ h \in HeldState /\ s.pc = "insert" /\ s.todo # {}
  BY <1>1, Session DEF Insert, Where, BatchOK, InSession
<1>3. Text(b) \in Texts /\ Text(b) = Current(s) /\ Current(s) \in s.vectors \ h.mine
  BY <1>1, <1>2, AtHand DEF BatchOK
<1>4. CASE held' = [held EXCEPT ![b].mine = @ \cup {Text(b)}]
           /\ Put(b, [batches[b] EXCEPT !.pc = "genInsert"])
  <2>1. PICK M \in SUBSET Texts : M = h.mine \cup {Text(b)}
    BY <1>2, <1>3 DEF HeldState
  <2>2. PICK k : k = [h EXCEPT !.mine = M]
    OBVIOUS
  <2>3. held' = [held EXCEPT ![b] = k]
    BY <1>1, <1>4, <2>1, <2>2
  <2>4. k \in HeldState /\ k.mine = M
    BY <1>2, <2>2 DEF HeldState
  <2>5. PICK a : a = [s EXCEPT !.pc = "genInsert"]
    OBVIOUS
  <2>6. /\ a \in BatchState /\ a.pc = "genInsert" /\ a.items = s.items /\ a.todo = s.todo
        /\ a.deferred = s.deferred /\ a.vectors = s.vectors /\ a.out = s.out
        /\ a.wrote = s.wrote
    BY <1>2, <2>5 DEF BatchOK, BatchState
  <2>7. StoredBy(a, k) = StoredBy(s, h) /\ Current(a) = Current(s)
    BY <1>2, <1>3, <2>1, <2>4, <2>6 DEF StoredBy, Current
  <2>8. BatchOK(a, k)
    BY <1>2, <1>3, <2>1, <2>4, <2>6, <2>7 DEF BatchOK, InSession
  <2> QED BY <1>1, <1>4, <2>3, <2>4, <2>5, <2>8, BatchMoves
<1>5. CASE SettleItem(b, Conflict) /\ UNCHANGED held
  <2>1. held' = [held EXCEPT ![b] = h]
    BY <1>1, <1>5, <1>2, Session
  <2> QED BY <1>1, <1>2, <1>5, <2>1, SettlesItem DEF ItemOutcomes, InSession, Conflict
<1> QED BY <1>4, <1>5 DEF Insert

LEMMA IncrementsGeneration ==
    ASSUME BatchInv, NEW b \in Batches, IncrementGeneration(b) PROVE BatchInv'
<1>1. PICK s, h : s = batches[b] /\ h = held[b]
  OBVIOUS
<1>2. h \in HeldState /\ s.pc \in {"genInsert", "genTouch"}
  BY <1>1, Session DEF IncrementGeneration, Where
<1>3. PICK k : k = [h EXCEPT !.gen = TRUE]
  OBVIOUS
<1>4. k \in HeldState /\ k.mine = h.mine /\ held' = [held EXCEPT ![b] = k]
  BY <1>1, <1>2, <1>3 DEF HeldState, IncrementGeneration
<1>5. PICK w \in {"created", "deduplicated"} :
         SettleItem(b, w) /\ w = IF Where(b, "genInsert") THEN "created" ELSE "deduplicated"
  BY DEF IncrementGeneration
<1>6. batches[b].pc = "genInsert" <=> w = "created"
  BY <1>5 DEF Where
<1> QED BY <1>1, <1>2, <1>4, <1>5, <1>6, SettlesItem DEF ItemOutcomes, InSession

(* The session commits; what was deferred is what the next one has to do.  *)
LEMMA Commits == ASSUME BatchInv, NEW b \in Batches, Commit(b) PROVE BatchInv'
<1>1. PICK s, h : s = batches[b] /\ h = held[b]
  OBVIOUS
<1>2. BatchOK(s, h) /\ h \in HeldState /\ s \in BatchState /\ s.pc = "item" /\ s.todo = {}
  BY <1>1, Session DEF Commit, Where, BatchOK
<1>3. PICK W \in SUBSET Texts : W = s.wrote \cup h.mine
  BY <1>2 DEF BatchState, HeldState
<1>4. StoredBy(s, h) = W
  BY <1>2, <1>3 DEF StoredBy
<1>5. CASE s.deferred = {}
  <2>1. PICK a : a = [s EXCEPT !.pc = "done", !.wrote = W]
    OBVIOUS
  <2>2. /\ a \in BatchState /\ a.pc = "done" /\ a.items = s.items /\ a.todo = s.todo
        /\ a.deferred = s.deferred /\ a.vectors = s.vectors /\ a.out = s.out
        /\ a.wrote = W
    BY <1>2, <2>1 DEF BatchState
  <2>3. AfterCommit(b) = [s EXCEPT !.pc = "done"]
    BY <1>1, <1>5 DEF AfterCommit
  <2>4. Put(b, a)
    BY <1>1, <1>2, <1>3, <2>1, <2>3 DEF Commit, BatchState
  <2>5. StoredBy(a, Nowhere) = W
    BY <2>2, NowhereIs DEF StoredBy
  <2>6. BatchOK(a, Nowhere)
    BY <1>2, <1>3, <1>4, <1>5, <2>2, <2>5, NowhereIs DEF BatchOK, InSession
  <2> QED BY <1>1, <2>4, <2>6, NowhereIs, BatchMoves DEF Commit
<1>6. CASE s.deferred # {}
  <2>1. PICK V \in SUBSET Texts : V = s.vectors \cup {s.items[i] : i \in s.deferred}
    <3>1. \A i \in s.deferred : s.items[i] \in Texts
      BY <1>2, Items DEF BatchOK, BatchState, OneOutcome
    <3> QED BY <1>2, <3>1 DEF BatchState
  <2>2. PICK a : a = [s EXCEPT !.pc = "reembed", !.todo = s.deferred, !.deferred = {},
                               !.vectors = V, !.wrote = W]
    OBVIOUS
  <2>3. /\ a \in BatchState /\ a.pc = "reembed" /\ a.items = s.items /\ a.todo = s.deferred
        /\ a.deferred = {} /\ a.vectors = V /\ a.out = s.out /\ a.wrote = W
    BY <1>2, <2>2 DEF BatchState
  <2>4. AfterCommit(b) = [s EXCEPT !.pc = "reembed", !.todo = s.deferred, !.deferred = {},
                                   !.vectors = V]
    BY <1>1, <1>2, <1>6, <2>1 DEF AfterCommit, BatchState
  <2>5. Put(b, a)
    BY <1>1, <1>2, <1>3, <2>2, <2>4 DEF Commit, BatchState
  <2>6. StoredBy(a, Nowhere) = W
    BY <2>3, NowhereIs DEF StoredBy
  <2>7. OneOutcome(a.items, a.todo, {}, a.out)
    BY <1>2, <2>3 DEF BatchOK, OneOutcome
  <2>8. \A i \in a.todo : a.items[i] \notin W
    BY <1>2, <1>3, <2>3 DEF BatchOK
  <2>9. BatchOK(a, Nowhere)
    BY <1>2, <1>3, <1>4, <1>6, <2>1, <2>3, <2>6, <2>7, <2>8, NowhereIs DEF BatchOK, InSession
  <2> QED BY <1>1, <2>5, <2>9, NowhereIs, BatchMoves DEF Commit
<1> QED BY <1>5, <1>6

LEMMA Aborts == ASSUME BatchInv, NEW b \in Batches, Abort(b) PROVE BatchInv'
<1>1. PICK a : a = [batches[b] EXCEPT !.pc = "failed"]
  OBVIOUS
<1>2. Put(b, a) /\ held' = [held EXCEPT ![b] = Nowhere]
  BY <1>1 DEF Abort
<1>3. a.pc = "failed"
  <2>1. batches[b].pc \notin {"idle", "failed"}
    BY DEF Abort, Deadlocked, Holders, Where
  <2>2. batches[b] \in BatchState
    BY <2>1, Session DEF BatchOK
  <2> QED BY <1>1, <2>2 DEF BatchState
<1> QED BY <1>2, <1>3, NowhereIs, BatchMoves

LEMMA BatchStepKeeps == BatchInv /\ [BatchNext]_batchVars => BatchInv'
<1> SUFFICES ASSUME BatchInv, [BatchNext]_batchVars PROVE BatchInv'
  OBVIOUS
<1>1. ASSUME NEW b \in Batches, NEW items \in ItemLists, StartBatch(b, items) PROVE BatchInv'
  BY <1>1, StartsBatch
<1>2. ASSUME NEW b \in Batches, Embedded(b) PROVE BatchInv'
  BY <1>2, Passes DEF Embedded, Where
<1>3. ASSUME NEW b \in Batches, BatchStep(b) PROVE BatchInv'
  BY <1>2, <1>3, FindsExisting, Touches, Inserts, IncrementsGeneration, Commits DEF BatchStep
<1>4. ASSUME NEW b \in Batches, Abort(b) PROVE BatchInv'
  BY <1>4, Aborts
<1>5. ASSUME NEW t \in Texts, ForgetRow(t) PROVE BatchInv'
  BY <1>5 DEF ForgetRow, BatchInv
<1>6. CASE UNCHANGED batchVars
  BY <1>6 DEF batchVars, BatchInv
<1> QED BY <1>1, <1>3, <1>4, <1>5, <1>6 DEF BatchNext

LEMMA BatchTells == BatchInv => OutcomesTrue
<1> SUFFICES ASSUME BatchInv, NEW b \in Batches, Where(b, "done")
             PROVE /\ {o[1] : o \in Outcomes(b)} = DOMAIN batches[b].items
                   /\ Cardinality(Outcomes(b)) = Len(batches[b].items)
                   /\ \A t \in Texts :
                         Cardinality({o \in Outcomes(b) : /\ batches[b].items[o[1]] = t
                                                          /\ o[2] = "created"})
                            = IF t \in batches[b].wrote THEN 1 ELSE 0
  BY DEF OutcomesTrue
<1>1. PICK s, out, items : s = batches[b] /\ out = Outcomes(b) /\ items = batches[b].items
  OBVIOUS
<1>2. /\ OneOutcome(items, {}, {}, out) /\ items \in ItemLists
      /\ CreatedOnce(items, out, s.wrote)
  <2>1. s.pc = "done" /\ out = s.out /\ items = s.items
    BY <1>1 DEF Where, Outcomes
  <2>2. BatchOK(s, held[b])
    BY <1>1, <2>1, Session
  <2>3. s.todo = {} /\ s.deferred = {} /\ StoredBy(s, held[b]) = s.wrote
    BY <2>1, <2>2 DEF BatchOK, StoredBy, BatchState
  <2> QED BY <2>1, <2>2, <2>3 DEF BatchOK, BatchState
<1>3. /\ \A i \in DOMAIN items : \E o \in out : o[1] = i
      /\ \A o \in out : o[1] \in DOMAIN items
      /\ \A o, p \in out : o[1] = p[1] => o = p
  BY <1>2 DEF OneOutcome
<1>4. {o[1] : o \in out} = DOMAIN items
  <2>1. \A i : i \in {o[1] : o \in out} => i \in DOMAIN items
    BY <1>3
  <2>2. \A i : i \in DOMAIN items => i \in {o[1] : o \in out}
    BY <1>3
  <2> QED BY <2>1, <2>2
<1>5. DOMAIN items = 1..Len(items) /\ Len(items) \in Nat
  BY <1>2, Items
<1>6. Cardinality(out) = Len(items)
  <2>1. PICK f : f = [o \in out |-> o[1]]
    OBVIOUS
  <2>2. f \in [out -> 1..Len(items)] /\ \A o \in out : f[o] = o[1]
    BY <1>3, <1>5, <2>1
  <2>4. IsInjective(f)
    BY <1>3, <2>2 DEF IsInjective
  <2>5. \A i \in 1..Len(items) : \E o \in out : f[o] = i
    BY <1>3, <1>5, <2>2
  <2>6. f \in Injection(out, 1..Len(items)) /\ f \in Surjection(out, 1..Len(items))
    BY <2>2, <2>4, <2>5 DEF Injection, Surjection
  <2>3. IsFiniteSet(1..Len(items)) /\ Cardinality(1..Len(items)) = Len(items)
    BY <1>5, FS_Interval
  <2> QED BY <2>3, <2>6, FS_Injection
<1>7. ASSUME NEW t \in Texts
      PROVE Cardinality({o \in out : items[o[1]] = t /\ o[2] = "created"})
               = IF t \in s.wrote THEN 1 ELSE 0
  <2>1. CASE t \in s.wrote
    <3>1. PICK o \in out : items[o[1]] = t /\ o[2] = "created"
      BY <1>2, <2>1 DEF CreatedOnce
    <3>2. {p \in out : items[p[1]] = t /\ p[2] = "created"} = {o}
      BY <1>2, <3>1 DEF CreatedOnce
    <3> QED BY <2>1, <3>2, FS_Singleton
  <2>2. CASE t \notin s.wrote
    <3>1. {p \in out : items[p[1]] = t /\ p[2] = "created"} = {}
      BY <1>2, <2>2 DEF CreatedOnce
    <3> QED BY <2>2, <3>1, FS_EmptySet
  <2> QED BY <2>1, <2>2
<1> QED BY <1>1, <1>4, <1>6, <1>7

(* Whatever items calls are given, how they wait for each other and what   *)
(* is forgotten meanwhile: a call that returns has one outcome per item,   *)
(* and says "created" of one item for each text that it stored, in its     *)
(* first session or for the items deferred to its second (remember_batch   *)
(* in memory/service.py).                                                  *)
THEOREM OutcomesAreTrue == BatchSpec => []OutcomesTrue
BY BatchStart, BatchStepKeeps, BatchTells, PTL DEF BatchSpec

(***************************************************************************)
(* Reembed: what a run has yet to meet is in its page or behind it.        *)
(***************************************************************************)
Beyond(r) == {i \in RowIds : i > runs[r].after}
Unmet(r) ==
    CASE runs[r].pc = "fetch" -> Beyond(r)
      [] runs[r].pc \in {"embed", "replace", "single"} ->
            runs[r].page \cup {i \in RowIds : \A p \in runs[r].page : p < i}
      [] OTHER -> {}
RunState == [pc : {"fetch", "embed", "replace", "single", "done"}, after : Nat,
            page : SUBSET RowIds, reembedded : Nat, failed : SUBSET RowIds,
            owed : SUBSET RowIds]
RunOK(a) ==
    \/ a = [pc |-> "idle"]
    \/ /\ a \in RunState
       /\ a.pc \in {"embed", "replace", "single"} => a.page # {}
ReembedInv ==
    /\ vectors \in [RowIds -> {"none", "old", "new"}]
    /\ DOMAIN runs = Runs /\ \A r \in Runs : RunOK(runs[r])
    /\ \A r \in Runs : runs[r].pc # "idle" =>
          Stale \cap runs[r].owed \subseteq runs[r].failed \cup Unmet(r)

LEMMA RowNumbers == RowIds \subseteq Nat /\ PageSize \in Nat /\ PageSize > 0
                    /\ \A i \in RowIds : i > 0
BY RowIdsAssumption

(* A page of the smallest leaves out none that is smaller than one in it,  *)
(* and is empty only when there is none.                                   *)
LEMMA SmallestAre ==
    ASSUME NEW S \in SUBSET RowIds, NEW n \in Nat, n > 0
    PROVE /\ Smallest(S, n) \subseteq S
          /\ \A i \in S \ Smallest(S, n) : \A p \in Smallest(S, n) : p < i
          /\ Smallest(S, n) = {} => S = {}
<1> DEFINE Below(i) == {j \in S : j < i}
<1>0. S \subseteq Nat
  BY RowNumbers
<1>1. ASSUME NEW i \in S PROVE IsFiniteSet(Below(i)) /\ Cardinality(Below(i)) \in Nat
  <2>1. i \in Nat /\ \A j \in Below(i) : j \in Nat /\ j <= i
    BY <1>0
  <2> HIDE DEF Below
  <2>2. Below(i) \in SUBSET Nat
    BY <2>1
  <2> QED BY <2>1, <2>2, FS_BoundedSetOfNaturals, FS_CardinalityType
<1>2. ASSUME NEW i \in S \ Smallest(S, n), NEW p \in Smallest(S, n) PROVE p < i
  <2>1. i \in S /\ p \in S /\ Cardinality(Below(p)) < n /\ ~(Cardinality(Below(i)) < n)
    BY DEF Smallest
  <2>2. CASE i <= p
    <3>1. \A j \in Below(i) : j \in Below(p)
      BY <1>0, <2>1, <2>2
    <3> HIDE DEF Below
    <3>2. Cardinality(Below(i)) <= Cardinality(Below(p))
      BY <1>1, <2>1, <3>1, FS_Subset
    <3> QED BY <1>1, <2>1, <3>2
  <2> QED BY <1>0, <2>1, <2>2
<1>3. ASSUME S # {} PROVE Smallest(S, n) # {}
  <2>1. PICK i \in S : \A m \in S : i <= m
    BY <1>0, <1>3, LeastNatural
  <2>a. ASSUME NEW j \in S PROVE ~(j < i)
    BY <1>0, <2>1
  <2>2. Below(i) = {}
    BY <2>a
  <2>3. Cardinality(Below(i)) = 0
    BY <2>2, FS_EmptySet
  <2> QED BY <2>3 DEF Smallest
<1> QED BY <1>2, <1>3 DEF Smallest

LEMMA ReembedStart == ReembedInit => ReembedInv
BY DEF ReembedInit, ReembedInv, RunOK, RunState

(* The other runs keep what they know when no row becomes stale to them.   *)
LEMMA RunMoves ==
    ASSUME ReembedInv, NEW r \in Runs, NEW a, Move(r, a), RunOK(a),
           vectors' \in [RowIds -> {"none", "old", "new"}], Stale' \subseteq Stale,
           a.pc # "idle" => Stale' \cap a.owed \subseteq a.failed \cup Unmet(r)'
    PROVE ReembedInv'
<1>1. DOMAIN runs' = Runs /\ runs'[r] = a /\ \A q \in Runs \ {r} : runs'[q] = runs[q]
  BY DEF ReembedInv, Move
<1>2. \A q \in Runs \ {r} : Unmet(q)' = Unmet(q)
  BY <1>1 DEF Unmet, Beyond
<1>3. ASSUME NEW q \in Runs, runs'[q].pc # "idle"
      PROVE Stale' \cap runs'[q].owed \subseteq runs'[q].failed \cup Unmet(q)'
  BY <1>1, <1>2, <1>3 DEF ReembedInv
<1>4. \A q \in Runs : RunOK(runs'[q])
  BY <1>1 DEF ReembedInv
<1> QED BY <1>1, <1>3, <1>4 DEF ReembedInv

LEMMA Starts == ASSUME ReembedInv, NEW r \in Runs, StartRun(r) PROVE ReembedInv'
<1>1. PICK a : a = [pc |-> "fetch", after |-> 0, page |-> {}, reembedded |-> 0, failed |-> {},
                    owed |-> Stale]
  OBVIOUS
<1>2. Move(r, a) /\ UNCHANGED vectors /\ Stale' = Stale
  BY <1>1 DEF StartRun, Stale
<1>3. RunOK(a) /\ a.pc = "fetch" /\ a.owed = Stale /\ a.after = 0
  BY <1>1 DEF RunOK, RunState, Stale
<1>4. runs'[r] = a
  BY <1>2 DEF Move, ReembedInv
<1>5. Unmet(r)' = RowIds
  BY <1>3, <1>4, RowNumbers DEF Unmet, Beyond
<1> QED BY <1>2, <1>3, <1>5, RunMoves DEF ReembedInv, Stale

LEMMA Fetches == ASSUME ReembedInv, NEW r \in Runs, FetchPage(r) PROVE ReembedInv'
<1> DEFINE b == runs[r]
           S == {i \in Stale : i > b.after}
<1>1. PICK a : a = [b EXCEPT !.pc = IF Page(r) = {} THEN "done" ELSE "embed", !.page = Page(r)]
  OBVIOUS
<1>2. Move(r, a) /\ UNCHANGED vectors /\ Stale' = Stale /\ runs'[r] = a /\ b.pc = "fetch"
  BY <1>1 DEF FetchPage, Stale, Move, ReembedInv, RunAt
<1>3. /\ S \in SUBSET RowIds /\ Page(r) \subseteq S
      /\ \A i \in S \ Page(r) : \A p \in Page(r) : p < i
      /\ Page(r) = {} => S = {}
  <2>1. S \in SUBSET RowIds
    BY DEF Stale
  <2>2. Page(r) = Smallest(S, PageSize)
    BY DEF Page
  <2> HIDE DEF S
  <2> QED BY <2>1, <2>2, SmallestAre, RowNumbers
<1>4. Stale \cap b.owed \subseteq b.failed \cup S
  BY <1>2 DEF ReembedInv, Unmet, Beyond
<1>p. PICK P \in SUBSET RowIds, pc \in {"done", "embed"} :
         P = Page(r) /\ pc = IF Page(r) = {} THEN "done" ELSE "embed"
  <2> HIDE DEF S
  <2> QED BY <1>3
<1>q. a = [b EXCEPT !.pc = pc, !.page = P] /\ b \in RunState
  BY <1>1, <1>2, <1>p DEF ReembedInv, RunOK
<1>r. a \in RunState
  BY <1>q DEF RunState
<1>5. /\ a.owed = b.owed /\ a.failed = b.failed /\ a.page = Page(r)
      /\ a.pc = IF Page(r) = {} THEN "done" ELSE "embed"
  BY <1>1, <1>2 DEF ReembedInv, RunOK, RunState
<1>6. RunOK(a)
  BY <1>r, <1>5 DEF RunOK
<1>7. Stale' \cap a.owed \subseteq a.failed \cup Unmet(r)'
  <2>1. CASE Page(r) = {}
    BY <1>2, <1>3, <1>4, <1>5, <2>1
  <2>2. CASE Page(r) # {}
    <3>1. Unmet(r)' = Page(r) \cup {i \in RowIds : \A p \in Page(r) : p < i}
      BY <1>2, <1>5, <2>2 DEF Unmet
    <3> HIDE DEF S
    <3> QED BY <1>2, <1>3, <1>4, <1>5, <3>1
  <2> QED BY <2>1, <2>2
<1> QED BY <1>2, <1>6, <1>7, RunMoves DEF ReembedInv

LEMMA Embeds == ASSUME ReembedInv, NEW r \in Runs, EmbedPage(r) PROVE ReembedInv'
<1>1. PICK pc \in {"replace", "single"} : Move(r, [runs[r] EXCEPT !.pc = pc])
  BY DEF EmbedPage
<1>2. PICK a : a = [runs[r] EXCEPT !.pc = pc]
  OBVIOUS
<1>3. Move(r, a) /\ UNCHANGED vectors /\ Stale' = Stale /\ runs'[r] = a /\ runs[r].pc = "embed"
  BY <1>1, <1>2 DEF EmbedPage, Stale, Move, ReembedInv, RunAt
<1>4. RunOK(a) /\ a.owed = runs[r].owed /\ a.failed = runs[r].failed /\ a.page = runs[r].page
      /\ a.pc = pc
  BY <1>2, <1>3 DEF ReembedInv, RunOK, RunState
<1>5. Unmet(r)' = Unmet(r)
  BY <1>3, <1>4 DEF Unmet
<1>6. Stale \cap runs[r].owed \subseteq runs[r].failed \cup Unmet(r)
  BY <1>3 DEF ReembedInv
<1> QED BY <1>3, <1>4, <1>5, <1>6, RunMoves DEF ReembedInv

(* The state of a run that has handled row i, whichever way.               *)
Behind(b, i) ==
    [b EXCEPT !.after = i, !.page = b.page \ {i},
              !.pc = IF b.page \ {i} = {} THEN "fetch" ELSE b.pc]

LEMMA HandledIs ==
    ASSUME NEW r, NEW i, NEW b, b = runs[r], b \in RunState
    PROVE Handled(r, i, TRUE) = Behind(b, i) /\ Handled(r, i, FALSE) = Behind(b, i)
BY DEF Handled, Advanced, Behind, RunState

LEMMA BehindIs ==
    ASSUME NEW b \in RunState, b.pc \in {"replace", "single"},
           NEW i \in RowIds, NEW h, h = Behind(b, i)
    PROVE /\ h \in RunState /\ h.after = i /\ h.page = b.page \ {i} /\ h.owed = b.owed
          /\ h.failed = b.failed /\ h.reembedded = b.reembedded
          /\ h.pc = IF b.page \ {i} = {} THEN "fetch" ELSE b.pc
<1>1. PICK P \in SUBSET RowIds, pc \in {"fetch", "replace", "single"} :
         P = b.page \ {i} /\ pc = IF b.page \ {i} = {} THEN "fetch" ELSE b.pc
  BY DEF RunState
<1>2. h = [b EXCEPT !.after = i, !.page = P, !.pc = pc]
  BY <1>1 DEF Behind
<1> QED BY <1>1, <1>2, RowNumbers DEF RunState

(* A row handled leaves the page, and what is left is behind it.           *)
LEMMA Handles ==
    ASSUME ReembedInv, NEW r \in Runs, RunAt(r, "replace") \/ RunAt(r, "single"),
           NEW a, Move(r, a), NEW F \in SUBSET RowIds, NEW i, i = First(runs[r].page),
           a \in RunState, a.after = i, a.page = runs[r].page \ {i}, a.owed = runs[r].owed,
           a.failed = F, a.pc = IF runs[r].page \ {i} = {} THEN "fetch" ELSE runs[r].pc,
           runs[r].failed \subseteq F,
           vectors' \in [RowIds -> {"none", "old", "new"}], Stale' \subseteq Stale,
           Stale' \cap {i} \subseteq F
    PROVE ReembedInv'
<1>0. PICK b : b = runs[r]
  OBVIOUS
<1>1. b \in RunState /\ b.pc \in {"replace", "single"} /\ b.page # {} /\ b.page \in SUBSET RowIds
  BY <1>0 DEF ReembedInv, RunOK, RunAt, RunState
<1>2. i \in b.page /\ i \in Nat /\ i \in RowIds
  BY <1>0, <1>1, LeastIs, RowNumbers
<1>3. Stale \cap b.owed \subseteq b.failed \cup b.page \cup {j \in RowIds : \A p \in b.page : p < j}
  BY <1>0, <1>1 DEF ReembedInv, Unmet
<1>5. /\ a \in RunState /\ a.after = i /\ a.page = b.page \ {i} /\ a.failed = F /\ a.owed = b.owed
      /\ a.pc = IF b.page \ {i} = {} THEN "fetch" ELSE b.pc
  BY <1>0
<1>6. RunOK(a) /\ runs'[r] = a
  BY <1>1, <1>5 DEF RunOK, Move, ReembedInv
<1>7. Stale' \cap a.owed \subseteq a.failed \cup Unmet(r)'
  <2>1. CASE b.page \ {i} = {}
    <3>1. Unmet(r)' = {j \in RowIds : j > i}
      BY <1>5, <1>6, <2>1 DEF Unmet, Beyond
    <3>2. b.page = {i}
      BY <1>2, <2>1
    <3>3. \A j \in RowIds : i < j => j > i
      BY <1>2, RowNumbers
    <3> QED BY <1>0, <1>3, <1>5, <3>1, <3>2, <3>3
  <2>2. CASE b.page \ {i} # {}
    <3>1. Unmet(r)' = (b.page \ {i}) \cup {j \in RowIds : \A p \in b.page \ {i} : p < j}
      BY <1>1, <1>5, <1>6, <2>2 DEF Unmet
    <3> QED BY <1>0, <1>3, <1>5, <3>1
  <2> QED BY <2>1, <2>2
<1> QED BY <1>6, <1>7, RunMoves

LEMMA Fails == ASSUME ReembedInv, NEW r \in Runs, FailOne(r) PROVE ReembedInv'
<1>1. PICK i, h : i = First(runs[r].page) /\ h = Behind(runs[r], i)
  OBVIOUS
<1>2. runs[r] \in RunState /\ runs[r].pc = "single" /\ i \in RowIds /\ RunAt(r, "single")
  <2>1. runs[r].pc = "single" /\ runs[r] \in RunState /\ runs[r].page # {}
    BY DEF FailOne, ReembedInv, RunAt, RunOK
  <2>2. runs[r].page \in SUBSET RowIds
    BY <2>1 DEF RunState
  <2> QED BY <1>1, <2>1, <2>2, LeastIs, RowNumbers DEF RunAt
<1>b. PICK b : b = runs[r]
  OBVIOUS
<1>c. b \in RunState /\ b.pc = "single"
  BY <1>2, <1>b
<1>3. /\ h \in RunState /\ h.failed = runs[r].failed /\ h.reembedded = runs[r].reembedded
      /\ h.after = i /\ h.page = b.page \ {i} /\ h.owed = b.owed
      /\ h.pc = IF b.page \ {i} = {} THEN "fetch" ELSE b.pc
  BY <1>1, <1>2, <1>b, <1>c, BehindIs
<1>4. PICK n \in Nat, F \in SUBSET RowIds : n = h.reembedded /\ F = runs[r].failed \cup {i}
  BY <1>2, <1>3 DEF RunState
<1>5. Move(r, [h EXCEPT !.failed = @ \cup {i}]) /\ UNCHANGED vectors /\ Stale' = Stale
  BY <1>1, <1>2, <1>b, <1>c, HandledIs DEF FailOne, Stale
<1>6. [h EXCEPT !.failed = @ \cup {i}] = [h EXCEPT !.reembedded = n, !.failed = F]
  BY <1>3, <1>4 DEF RunState
<1>7. PICK a : a = [h EXCEPT !.reembedded = n, !.failed = F]
  OBVIOUS
<1>8. Move(r, a) /\ runs[r].failed \subseteq F /\ i \in F
  BY <1>4, <1>5, <1>6, <1>7
<1>9. vectors' \in [RowIds -> {"none", "old", "new"}]
  BY <1>5 DEF ReembedInv
<1>d. Stale' \cap {i} \subseteq F
  BY <1>8
<1>e. /\ a \in RunState /\ a.after = i /\ a.page = runs[r].page \ {i} /\ a.owed = runs[r].owed
      /\ a.failed = F /\ a.pc = IF runs[r].page \ {i} = {} THEN "fetch" ELSE runs[r].pc
  BY <1>3, <1>b, <1>4, <1>7 DEF RunState
<1> QED BY <1>1, <1>2, <1>4, <1>5, <1>8, <1>9, <1>d, <1>e, Handles

LEMMA Replaces == ASSUME ReembedInv, NEW r \in Runs, ReplaceOne(r) PROVE ReembedInv'
<1>1. PICK i, h : i = First(runs[r].page) /\ h = Behind(runs[r], i)
  OBVIOUS
<1>2. /\ runs[r] \in RunState /\ runs[r].pc \in {"single", "replace"} /\ i \in RowIds
      /\ RunAt(r, "single") \/ RunAt(r, "replace")
  <2>1. runs[r].pc \in {"single", "replace"} /\ runs[r] \in RunState /\ runs[r].page # {}
    BY DEF ReplaceOne, ReembedInv, RunAt, RunOK
  <2>2. runs[r].page \in SUBSET RowIds
    BY <2>1 DEF RunState
  <2> QED BY <1>1, <2>1, <2>2, LeastIs, RowNumbers DEF RunAt
<1>b. PICK b : b = runs[r]
  OBVIOUS
<1>c. b \in RunState /\ b.pc \in {"replace", "single"}
  BY <1>2, <1>b
<1>3. /\ h \in RunState /\ h.failed = runs[r].failed /\ h.reembedded = runs[r].reembedded
      /\ h.after = i /\ h.page = b.page \ {i} /\ h.owed = b.owed
      /\ h.pc = IF b.page \ {i} = {} THEN "fetch" ELSE b.pc
  BY <1>1, <1>2, <1>b, <1>c, BehindIs
<1>4. /\ vectors' = IF vectors[i] # "none" THEN [vectors EXCEPT ![i] = "new"] ELSE vectors
      /\ Move(r, [h EXCEPT !.reembedded = IF vectors[i] # "none" THEN @ + 1 ELSE @])
  BY <1>1, <1>2, <1>b, <1>c, HandledIs DEF ReplaceOne
<1>5. vectors' \in [RowIds -> {"none", "old", "new"}] /\ Stale' \subseteq Stale /\ i \notin Stale'
  BY <1>2, <1>4 DEF ReembedInv, Stale
<1>6. PICK n \in Nat, F \in SUBSET RowIds :
         /\ n = IF vectors[i] # "none" THEN h.reembedded + 1 ELSE h.reembedded
         /\ F = runs[r].failed
  BY <1>2, <1>3 DEF RunState
<1>7. [h EXCEPT !.reembedded = IF vectors[i] # "none" THEN @ + 1 ELSE @]
         = [h EXCEPT !.reembedded = n, !.failed = F]
  BY <1>3, <1>6 DEF RunState
<1>8. PICK a : a = [h EXCEPT !.reembedded = n, !.failed = F]
  OBVIOUS
<1>9. Move(r, a) /\ runs[r].failed \subseteq F
  BY <1>4, <1>6, <1>7, <1>8
<1>d. Stale' \cap {i} \subseteq F
  BY <1>5
<1>e. /\ a \in RunState /\ a.after = i /\ a.page = runs[r].page \ {i} /\ a.owed = runs[r].owed
      /\ a.failed = F /\ a.pc = IF runs[r].page \ {i} = {} THEN "fetch" ELSE runs[r].pc
  BY <1>3, <1>b, <1>6, <1>8 DEF RunState
<1> QED BY <1>1, <1>2, <1>5, <1>6, <1>9, <1>d, <1>e, Handles

(* A row that comes or goes is owed by nobody.                             *)
LEMMA OthersKeep ==
    ASSUME ReembedInv, NEW i \in RowIds, NEW provenance \in {"none", "old", "new"},
           Others(i, provenance)
    PROVE ReembedInv'
<1>1. /\ vectors' \in [RowIds -> {"none", "old", "new"}]
      /\ Stale' \subseteq Stale \cup {i}
  BY DEF Others, ReembedInv, Stale
<1>2. ASSUME NEW q \in Runs
      PROVE \/ runs[q].pc = "idle" /\ runs'[q] = runs[q]
            \/ runs[q].pc # "idle" /\ runs'[q] = [runs[q] EXCEPT !.owed = @ \ {i}]
  BY DEF Others, RunAt
<1>3. ASSUME NEW q \in Runs, runs[q].pc # "idle"
      PROVE /\ RunOK(runs'[q]) /\ runs'[q].owed = runs[q].owed \ {i}
            /\ runs'[q].failed = runs[q].failed /\ runs'[q].pc = runs[q].pc
            /\ runs'[q].page = runs[q].page /\ runs'[q].after = runs[q].after
  <2>1. runs[q] \in RunState /\ (runs[q].pc \in {"embed", "replace", "single"} => runs[q].page # {})
    BY <1>3 DEF ReembedInv, RunOK
  <2>2. PICK O \in SUBSET RowIds : O = runs[q].owed \ {i}
    BY <2>1 DEF RunState
  <2>3. PICK b : b = [runs[q] EXCEPT !.owed = O]
    OBVIOUS
  <2>4. runs'[q] = b
    BY <1>2, <1>3, <2>2, <2>3
  <2>5. /\ b \in RunState /\ b.owed = O /\ b.failed = runs[q].failed /\ b.pc = runs[q].pc
        /\ b.page = runs[q].page /\ b.after = runs[q].after
    BY <2>1, <2>3 DEF RunState
  <2> QED BY <2>1, <2>2, <2>4, <2>5 DEF RunOK
<1>4. ASSUME NEW q \in Runs PROVE RunOK(runs'[q])
  BY <1>2, <1>3 DEF ReembedInv
<1>5. ASSUME NEW q \in Runs, runs'[q].pc # "idle"
      PROVE Stale' \cap runs'[q].owed \subseteq runs'[q].failed \cup Unmet(q)'
  <2>1. runs[q].pc # "idle"
    BY <1>2, <1>5
  <2>2. Unmet(q)' = Unmet(q)
    BY <1>3, <2>1 DEF Unmet, Beyond
  <2>3. Stale \cap runs[q].owed \subseteq runs[q].failed \cup Unmet(q)
    BY <2>1 DEF ReembedInv
  <2> QED BY <1>1, <1>3, <2>1, <2>2, <2>3
<1>6. DOMAIN runs' = Runs
  BY DEF Others
<1> QED BY <1>1, <1>4, <1>5, <1>6 DEF ReembedInv

LEMMA ReembedStep == ReembedInv /\ [ReembedNext]_reembedVars => ReembedInv'
<1> SUFFICES ASSUME ReembedInv, [ReembedNext]_reembedVars PROVE ReembedInv'
  OBVIOUS
<1>1. ASSUME NEW r \in Runs, StartRun(r) \/ RunStep(r) PROVE ReembedInv'
  BY <1>1, Starts, Fetches, Embeds, Fails, Replaces DEF RunStep
<1>2. ASSUME NEW i \in RowIds, NEW p \in {"none", "old", "new"}, Others(i, p) PROVE ReembedInv'
  BY <1>2, OthersKeep
<1>3. CASE UNCHANGED reembedVars
  BY <1>3 DEF reembedVars, ReembedInv, Unmet, Beyond, Stale
<1> QED BY <1>1, <1>2, <1>3 DEF ReembedNext

LEMMA ReembedTells == ReembedInv => NothingLeftStale
BY DEF ReembedInv, NothingLeftStale, RunAt, Unmet

(* However runs overlap, rows come and go and embeddings fail, a run that  *)
(* ends has restamped what was stale when it began, or counted it as       *)
(* failed (reembed_stale in memory/service.py).                            *)
THEOREM NothingLeft == ReembedSpec => []NothingLeftStale
BY ReembedStart, ReembedStep, ReembedTells, PTL DEF ReembedSpec

(***************************************************************************)
(* Embeddings: the cache is the end of the order of last use.              *)
(***************************************************************************)
NoneTwice(s) == \A i, j \in 1..Len(s) : s[i] = s[j] => i = j

(* What is used goes to the end, whether or not it was there.              *)
LEMMA RemovedFirst ==
    ASSUME NEW Q, NEW s \in Seq(Q), NoneTwice(s), NEW k \in 1..Len(s)
    PROVE /\ RemoveFirst(s, s[k]) \in Seq(Q)
          /\ Len(RemoveFirst(s, s[k])) = Len(s) - 1
          /\ \A i \in 1..(Len(s) - 1) :
                RemoveFirst(s, s[k])[i] = IF i < k THEN s[i] ELSE s[i + 1]
<1> DEFINE I == {i \in 1..Len(s) : s[i] = s[k]}
<1>0. Len(s) \in Nat /\ k \in Nat
  OBVIOUS
<1>1. I = {k}
  BY DEF NoneTwice
<1>2. SelectInSeq(s, LAMBDA v : v = s[k]) = k
  <2>1. SelectInSeq(s, LAMBDA v : v = s[k]) = IF I # {} THEN Min(I) ELSE 0
    BY DEF SelectInSeq
  <2>2. Min({k}) = k
    BY <1>0 DEF Min
  <2> QED BY <1>1, <2>1, <2>2
<1>3. RemoveFirst(s, s[k]) = SubSeq(s, 1, k - 1) \o SubSeq(s, k + 1, Len(s))
  BY <1>2 DEF RemoveFirst, RemoveAt
<1>4. PICK a, b : a = SubSeq(s, 1, k - 1) /\ b = SubSeq(s, k + 1, Len(s))
  OBVIOUS
<1>5. a \in Seq(Q) /\ Len(a) = k - 1 /\ \A i \in 1..(k - 1) : a[i] = s[i]
  BY <1>0, <1>4
<1>6. b \in Seq(Q) /\ Len(b) = Len(s) - k /\ \A i \in 1..(Len(s) - k) : b[i] = s[k + i]
  BY <1>0, <1>4
<1>7. /\ a \o b \in Seq(Q) /\ Len(a \o b) = Len(a) + Len(b)
      /\ \A i \in 1..(Len(a) + Len(b)) :
            (a \o b)[i] = IF i <= Len(a) THEN a[i] ELSE b[i - Len(a)]
  BY <1>5, <1>6, ConcatProperties
<1>9. Len(a \o b) = Len(s) - 1
  BY <1>0, <1>5, <1>6, <1>7
<1>8. ASSUME NEW i \in 1..(Len(s) - 1) PROVE (a \o b)[i] = IF i < k THEN s[i] ELSE s[i + 1]
  <2>1. CASE i < k
    BY <1>0, <1>5, <1>6, <1>7, <2>1
  <2>2. CASE ~(i < k)
    <3>1. i - (k - 1) \in 1..(Len(s) - k) /\ k + (i - (k - 1)) = i + 1
      BY <1>0, <2>2
    <3>2. (a \o b)[i] = b[i - (k - 1)]
      BY <1>0, <1>5, <1>6, <1>7, <2>2
    <3> QED BY <1>6, <2>2, <3>1, <3>2
  <2> QED BY <2>1, <2>2
<1> QED BY <1>3, <1>4, <1>7, <1>9, <1>8

LEMMA LastUsed ==
    ASSUME NEW Q, NEW s \in Seq(Q), NoneTwice(s), NEW q \in Q,
           NEW k \in 1..Len(s), s[k] = q, NEW t, t = ToEnd(s, q)
    PROVE /\ t \in Seq(Q) /\ NoneTwice(t) /\ Len(t) = Len(s) /\ t[Len(t)] = q
          /\ \A i \in 1..(Len(s) - 1) : t[i] = IF i < k THEN s[i] ELSE s[i + 1]
<1>1. PICK r : r = RemoveFirst(s, q)
  OBVIOUS
<1>2. /\ r \in Seq(Q) /\ Len(r) = Len(s) - 1
      /\ \A i \in 1..(Len(s) - 1) : r[i] = IF i < k THEN s[i] ELSE s[i + 1]
  BY <1>1, RemovedFirst
<1>3. t = Append(r, q)
  BY <1>1 DEF ToEnd
<1>4. /\ t \in Seq(Q) /\ Len(t) = Len(s) /\ t[Len(t)] = q
      /\ \A i \in 1..(Len(s) - 1) : t[i] = r[i]
  BY <1>2, <1>3
<1>5. ASSUME NEW i \in 1..Len(t), NEW j \in 1..Len(t), t[i] = t[j] PROVE i = j
  <2>0. Len(s) \in Nat /\ k \in Nat /\ i \in Nat /\ j \in Nat /\ Len(t) = Len(s)
    BY <1>4
  <2>1. PICK m, n : /\ m = IF i = Len(s) THEN k ELSE IF i < k THEN i ELSE i + 1
                    /\ n = IF j = Len(s) THEN k ELSE IF j < k THEN j ELSE j + 1
    OBVIOUS
  <2>2. m \in 1..Len(s) /\ t[i] = s[m]
    BY <1>2, <1>4, <2>0, <2>1
  <2>3. n \in 1..Len(s) /\ t[j] = s[n]
    BY <1>2, <1>4, <2>0, <2>1
  <2>4. m = n
    BY <1>5, <2>2, <2>3 DEF NoneTwice
  <2> QED BY <2>0, <2>1, <2>4
<1> QED BY <1>2, <1>4, <1>5 DEF NoneTwice

LEMMA NewlyUsed ==
    ASSUME NEW Q, NEW s \in Seq(Q), NoneTwice(s), NEW q \in Q,
           \A k \in 1..Len(s) : s[k] # q, NEW t, t = ToEnd(s, q)
    PROVE /\ t \in Seq(Q) /\ NoneTwice(t) /\ Len(t) = Len(s) + 1 /\ t[Len(t)] = q
          /\ \A i \in 1..Len(s) : t[i] = s[i]
<1>1. t = Append(s, q)
  BY DEF ToEnd, RemoveFirst
<1>2. /\ t \in Seq(Q) /\ Len(t) = Len(s) + 1 /\ t[Len(t)] = q
      /\ \A i \in 1..Len(s) : t[i] = s[i]
  BY <1>1
<1>3. ASSUME NEW i \in 1..Len(t), NEW j \in 1..Len(t), t[i] = t[j] PROVE i = j
  BY <1>2, <1>3 DEF NoneTwice
<1> QED BY <1>2, <1>3 DEF NoneTwice

(* The cache c is the end of the order of use u, as long as may be.        *)
IsEnd(c, u) ==
    /\ c \in Seq(Queries) /\ u \in Seq(Queries) /\ NoneTwice(u)
    /\ Len(c) <= CacheSize /\ Len(c) <= Len(u)
    /\ Len(c) < CacheSize => Len(c) = Len(u)
    /\ \A i \in 1..Len(c) : c[i] = u[i + (Len(u) - Len(c))]

LEMMA EndIsDistinct == ASSUME NEW c, NEW u, IsEnd(c, u) PROVE NoneTwice(c)
<1>1. Len(c) \in Nat /\ Len(u) \in Nat /\ Len(c) <= Len(u)
  BY DEF IsEnd
<1>2. ASSUME NEW i \in 1..Len(c), NEW j \in 1..Len(c), c[i] = c[j] PROVE i = j
  <2>1. PICK m, n : m = i + (Len(u) - Len(c)) /\ n = j + (Len(u) - Len(c))
    OBVIOUS
  <2>2. m \in 1..Len(u) /\ n \in 1..Len(u) /\ u[m] = u[n]
    BY <1>1, <1>2, <2>1 DEF IsEnd
  <2>3. m = n
    BY <2>2 DEF IsEnd, NoneTwice
  <2> QED BY <1>1, <2>1, <2>3
<1> QED BY <1>2 DEF NoneTwice

(* A hit: the query is in both, at the same distance from the end.         *)
LEMMA UsedAgain ==
    ASSUME NEW c, NEW u, IsEnd(c, u), NEW q \in Queries, Contains(c, q)
    PROVE IsEnd(ToEnd(c, q), ToEnd(u, q)) /\ Len(ToEnd(c, q)) <= CacheSize
<1>1. /\ Len(c) \in Nat /\ Len(u) \in Nat /\ Len(c) <= Len(u) /\ NoneTwice(c) /\ NoneTwice(u)
      /\ c \in Seq(Queries) /\ u \in Seq(Queries)
  BY EndIsDistinct DEF IsEnd
<1>2. PICK k \in 1..Len(c) : c[k] = q
  BY DEF Contains
<1>3. PICK d \in Nat : d = Len(u) - Len(c)
  BY <1>1
<1>e. \A i \in 1..Len(c) : c[i] = u[i + d]
  BY <1>3 DEF IsEnd
<1>4. PICK k2 \in 1..Len(u) : k2 = k + d /\ u[k2] = q
  <2>1. k + d \in 1..Len(u)
    BY <1>1, <1>3
  <2> QED BY <1>2, <1>e, <2>1
<1>5. PICK x, y : x = ToEnd(c, q) /\ y = ToEnd(u, q)
  OBVIOUS
<1>6. /\ x \in Seq(Queries) /\ NoneTwice(x) /\ Len(x) = Len(c) /\ x[Len(x)] = q
      /\ \A i \in 1..(Len(c) - 1) : x[i] = IF i < k THEN c[i] ELSE c[i + 1]
  BY <1>1, <1>2, <1>5, LastUsed
<1>7. /\ y \in Seq(Queries) /\ NoneTwice(y) /\ Len(y) = Len(u) /\ y[Len(y)] = q
      /\ \A i \in 1..(Len(u) - 1) : y[i] = IF i < k2 THEN u[i] ELSE u[i + 1]
  BY <1>1, <1>4, <1>5, LastUsed
<1>8. ASSUME NEW i \in 1..Len(x) PROVE x[i] = y[i + d]
  <2>1. CASE i = Len(x)
    BY <1>1, <1>3, <1>6, <1>7, <2>1
  <2>2. CASE i < Len(x)
    <3>1. i \in 1..(Len(c) - 1) /\ i + d \in 1..(Len(u) - 1) /\ (i < k <=> i + d < k2)
      BY <1>1, <1>3, <1>4, <1>6, <2>2
    <3>2. c[i] = u[i + d] /\ c[i + 1] = u[(i + 1) + d] /\ (i + 1) + d = (i + d) + 1
      BY <1>1, <1>3, <3>1 DEF IsEnd
    <3> QED BY <1>6, <1>7, <3>1, <3>2
  <2> QED BY <1>6, <2>1, <2>2
<1>9. Len(y) - Len(x) = d
  BY <1>3, <1>6, <1>7
<1>10. IsEnd(x, y)
  BY <1>1, <1>6, <1>7, <1>8, <1>9 DEF IsEnd
<1> QED BY <1>5, <1>6, <1>10 DEF IsEnd

(* A query that the cache has lost or never had.                           *)
LEMMA UsedAnew ==
    ASSUME NEW c, NEW u, IsEnd(c, u), NEW q \in Queries, ~Contains(c, q)
    PROVE IsEnd(Evicted(ToEnd(c, q)), ToEnd(u, q))
<1>1. /\ Len(c) \in Nat /\ Len(u) \in Nat /\ Len(c) <= Len(u) /\ NoneTwice(c) /\ NoneTwice(u)
      /\ c \in Seq(Queries) /\ u \in Seq(Queries) /\ Len(c) <= CacheSize
      /\ CacheSize \in Nat /\ CacheSize > 0
      /\ Len(c) < CacheSize => Len(c) = Len(u)
  BY EndIsDistinct, ReadCacheAssumption DEF IsEnd
<1>2. \A k \in 1..Len(c) : c[k] # q
  BY DEF Contains
<1>3. PICK d \in Nat : d = Len(u) - Len(c)
  BY <1>1
<1>5. PICK x, y, e : x = ToEnd(c, q) /\ y = ToEnd(u, q) /\ e = Evicted(x)
  OBVIOUS
<1>6. /\ x \in Seq(Queries) /\ Len(x) = Len(c) + 1 /\ x[Len(x)] = q
      /\ \A i \in 1..Len(c) : x[i] = c[i]
  BY <1>1, <1>2, <1>5, NewlyUsed
<1>a. CASE Len(c) < CacheSize
  <2>1. e = x
    BY <1>1, <1>5, <1>6, <1>a DEF Evicted
  <2>2. Len(u) = Len(c) /\ d = 0
    BY <1>1, <1>3, <1>a
  <2>3. \A k \in 1..Len(u) : u[k] = c[k]
    BY <2>2 DEF IsEnd
  <2>4. /\ y \in Seq(Queries) /\ NoneTwice(y) /\ Len(y) = Len(u) + 1 /\ y[Len(y)] = q
        /\ \A i \in 1..Len(u) : y[i] = u[i]
    BY <1>1, <1>2, <1>5, <2>2, <2>3, NewlyUsed
  <2>5. \A i \in 1..Len(x) : x[i] = y[i + (Len(y) - Len(x))]
    BY <1>1, <1>6, <2>2, <2>3, <2>4
  <2> QED BY <1>1, <1>5, <1>6, <1>a, <2>1, <2>2, <2>4, <2>5 DEF IsEnd
<1>b. CASE Len(c) = CacheSize
  <2>1. e = Tail(x)
    BY <1>1, <1>5, <1>6, <1>b DEF Evicted
  <2>2. /\ e \in Seq(Queries) /\ Len(e) = Len(c) /\ e[Len(e)] = q
        /\ \A i \in 1..(Len(c) - 1) : e[i] = c[i + 1]
    BY <1>1, <1>6, <1>b, <2>1
  <2>3. CASE \A k \in 1..Len(u) : u[k] # q
    <3>1. /\ y \in Seq(Queries) /\ NoneTwice(y) /\ Len(y) = Len(u) + 1 /\ y[Len(y)] = q
          /\ \A i \in 1..Len(u) : y[i] = u[i]
      BY <1>1, <1>5, <2>3, NewlyUsed
    <3>2. ASSUME NEW i \in 1..Len(e) PROVE e[i] = y[i + (d + 1)]
      <4>1. CASE i = Len(e)
        BY <1>1, <1>3, <2>2, <3>1, <4>1
      <4>2. CASE i < Len(e)
        <5>1. i + 1 \in 1..Len(c) /\ (i + 1) + d \in 1..Len(u) /\ (i + 1) + d = i + (d + 1)
          BY <1>1, <1>3, <2>2, <4>2
        <5>2. c[i + 1] = u[(i + 1) + d]
          BY <1>3, <5>1 DEF IsEnd
        <5> QED BY <1>1, <2>2, <3>1, <4>2, <5>1, <5>2
      <4> QED BY <2>2, <4>1, <4>2
    <3>3. Len(y) - Len(e) = d + 1
      BY <1>1, <1>3, <2>2, <3>1
    <3> QED BY <1>1, <1>3, <1>5, <1>b, <2>2, <3>1, <3>2, <3>3 DEF IsEnd
  <2>4. CASE \E k \in 1..Len(u) : u[k] = q
    <3>1. PICK k \in 1..Len(u) : u[k] = q
      BY <2>4
    <3>2. k <= d
      <4>1. CASE k > d
        <5>1. k - d \in 1..Len(c) /\ (k - d) + d = k
          BY <1>1, <1>3, <4>1
        <5>2. c[k - d] = u[(k - d) + d]
          BY <1>3, <5>1 DEF IsEnd
        <5> QED BY <1>2, <3>1, <5>1, <5>2
      <4> QED BY <1>3, <4>1
    <3>3. /\ y \in Seq(Queries) /\ NoneTwice(y) /\ Len(y) = Len(u) /\ y[Len(y)] = q
          /\ \A i \in 1..(Len(u) - 1) : y[i] = IF i < k THEN u[i] ELSE u[i + 1]
      BY <1>1, <1>5, <3>1, LastUsed
    <3>4. ASSUME NEW i \in 1..Len(e) PROVE e[i] = y[i + d]
      <4>1. CASE i = Len(e)
        BY <1>1, <1>3, <2>2, <3>3, <4>1
      <4>2. CASE i < Len(e)
        <5>1. /\ i + 1 \in 1..Len(c) /\ i + d \in 1..(Len(u) - 1) /\ ~(i + d < k)
              /\ (i + 1) + d = (i + d) + 1 /\ i \in 1..(Len(c) - 1)
          BY <1>1, <1>3, <2>2, <3>2, <4>2
        <5>2. c[i + 1] = u[(i + 1) + d]
          BY <1>3, <5>1 DEF IsEnd
        <5> QED BY <2>2, <3>3, <5>1, <5>2
      <4> QED BY <2>2, <4>1, <4>2
    <3>5. Len(y) - Len(e) = d
      BY <1>1, <1>3, <2>2, <3>3
    <3> QED BY <1>1, <1>3, <1>5, <1>b, <2>2, <3>3, <3>4, <3>5 DEF IsEnd
  <2> QED BY <2>3, <2>4
<1> QED BY <1>1, <1>a, <1>b

(* The window: the last answer set it.                                     *)
WindowInv ==
    /\ clock \in Nat /\ failedUntil \in Nat
    /\ failedUntil > 0 => /\ outcomes # <<>> /\ ~Last(outcomes).ok
                          /\ failedUntil = Last(outcomes).at + Window
    /\ outcomes \in Seq([ok : BOOLEAN, at : Nat])
EmbeddingsInv ==
    /\ IsEnd(cached, used) /\ asking \in [Callers -> Queries \cup {"none"}] /\ WindowInv

LEMMA EmbeddingsStart == EmbeddingsInit => EmbeddingsInv
BY ReadCacheAssumption DEF EmbeddingsInit, EmbeddingsInv, IsEnd, NoneTwice, WindowInv

LEMMA Recorded ==
    ASSUME WindowInv, NEW ok \in BOOLEAN, outcomes' = Append(outcomes, [ok |-> ok, at |-> clock]),
           UNCHANGED clock, failedUntil' = IF ok THEN 0 ELSE clock + Window
    PROVE WindowInv'
<1>1. PICK o \in [ok : BOOLEAN, at : Nat] : o = [ok |-> ok, at |-> clock]
  BY DEF WindowInv
<1>2. o.ok = ok /\ o.at = clock /\ outcomes' = Append(outcomes, o)
  BY <1>1
<1>3. /\ outcomes' \in Seq([ok : BOOLEAN, at : Nat]) /\ outcomes' # <<>>
      /\ outcomes'[Len(outcomes')] = o
  BY <1>2 DEF WindowInv
<1> QED BY <1>2, <1>3, ReadCacheAssumption DEF WindowInv, Last

LEMMA EmbeddingsStep == EmbeddingsInv /\ [EmbeddingsNext]_embeddingVars => EmbeddingsInv'
<1> SUFFICES ASSUME EmbeddingsInv, [EmbeddingsNext]_embeddingVars PROVE EmbeddingsInv'
  OBVIOUS
<1> USE DEF EmbeddingsInv
<1>1. ASSUME NEW c \in Callers, NEW q \in Queries, Hit(c, q) PROVE EmbeddingsInv'
  <2>1. cached' = ToEnd(cached, q) /\ used' = ToEnd(used, q) /\ Contains(cached, q)
    BY <1>1 DEF Hit, Touched
  <2>2. IsEnd(ToEnd(cached, q), ToEnd(used, q))
    BY <2>1, UsedAgain
  <2>3. IsEnd(cached', used')
    BY <2>1, <2>2
  <2> QED BY <1>1, <2>3 DEF Hit, WindowInv, IsEnd
<1>2. ASSUME NEW c \in Callers, NEW q \in Queries, AskOllama(c, q) PROVE EmbeddingsInv'
  BY <1>2 DEF AskOllama, WindowInv, IsEnd
<1>3. ASSUME NEW c \in Callers, Answer(c) PROVE EmbeddingsInv'
  <2>1. PICK q : q = asking[c]
    OBVIOUS
  <2>2. /\ q \in Queries /\ failedUntil' = 0 /\ cached' = Evicted(ToEnd(cached, q))
        /\ used' = ToEnd(used, q) /\ asking' = [asking EXCEPT ![c] = "none"]
        /\ outcomes' = Append(outcomes, [ok |-> TRUE, at |-> clock]) /\ UNCHANGED clock
    BY <1>3, <2>1 DEF Answer, Reopened
  <2>3. IsEnd(Evicted(ToEnd(cached, q)), ToEnd(used, q))
    <3>1. CASE Contains(cached, q)
      <4>1. IsEnd(ToEnd(cached, q), ToEnd(used, q)) /\ Len(ToEnd(cached, q)) <= CacheSize
        BY <2>2, <3>1, UsedAgain
      <4>2. Evicted(ToEnd(cached, q)) = ToEnd(cached, q)
        BY <4>1, ReadCacheAssumption DEF Evicted, IsEnd
      <4> QED BY <4>1, <4>2
    <3>2. CASE ~Contains(cached, q)
      BY <2>2, <3>2, UsedAnew
    <3> QED BY <3>1, <3>2
  <2>4. IsEnd(cached', used')
    BY <2>2, <2>3
  <2>5. WindowInv'
    BY <2>2, Recorded
  <2> QED BY <2>2, <2>4, <2>5 DEF IsEnd
<1>4. ASSUME NEW c \in Callers, Fail(c) PROVE EmbeddingsInv'
  <2>1. WindowInv'
    BY <1>4, Recorded DEF Fail
  <2> QED BY <1>4, <2>1 DEF Fail, IsEnd
<1>5. ASSUME NEW c \in Callers, CancelAsk(c) PROVE EmbeddingsInv'
  BY <1>5 DEF CancelAsk, WindowInv, IsEnd
<1>6. CASE Tick
  BY <1>6 DEF Tick, WindowInv, IsEnd
<1>7. CASE UNCHANGED embeddingVars
  BY <1>7 DEF embeddingVars, WindowInv, IsEnd
<1> QED BY <1>1, <1>2, <1>3, <1>4, <1>5, <1>6, <1>7 DEF EmbeddingsNext

LEMMA EmbeddingsTell == EmbeddingsInv => ReadsAreSpared
<1>1. EmbeddingsInv => RecentTextsStay
  <2> SUFFICES ASSUME EmbeddingsInv PROVE RecentTextsStay
    OBVIOUS
  <2>1. /\ Len(cached) \in Nat /\ Len(used) \in Nat /\ Len(cached) <= CacheSize
        /\ Len(cached) <= Len(used) /\ (Len(cached) < CacheSize => Len(cached) = Len(used))
        /\ \A i \in 1..Len(cached) : cached[i] = used[i + (Len(used) - Len(cached))]
        /\ DOMAIN used = 1..Len(used) /\ CacheSize \in Nat
    BY ReadCacheAssumption DEF EmbeddingsInv, IsEnd
  <2>2. ASSUME NEW i \in DOMAIN used, i + CacheSize > Len(used) PROVE Contains(cached, used[i])
    <3>1. PICK j : j = i - (Len(used) - Len(cached))
      OBVIOUS
    <3>2. j \in 1..Len(cached) /\ j + (Len(used) - Len(cached)) = i
      BY <2>1, <2>2, <3>1
    <3> QED BY <2>1, <3>2 DEF Contains
  <2> QED BY <2>1, <2>2 DEF RecentTextsStay
<1>2. EmbeddingsInv => SkipsJustified
  BY ReadCacheAssumption DEF EmbeddingsInv, WindowInv, SkipsJustified, Skips
<1> QED BY <1>1, <1>2 DEF ReadsAreSpared

(* For caches of any size and reads that overlap in any order, a query     *)
(* among the last that had a vector has it, and a read is refused unasked  *)
(* only when the last answer to any read failed, within the window         *)
(* (OllamaEmbeddingClient.embed_read in embeddings/ollama.py).             *)
THEOREM ReadsSpared == EmbeddingsSpec => []ReadsAreSpared
BY EmbeddingsStart, EmbeddingsStep, EmbeddingsTell, PTL DEF EmbeddingsSpec

(***************************************************************************)
(* Listing: what the pages have not shown is further on than the offset.   *)
(***************************************************************************)
States == {"unborn", "open", "active", "retired"}
StepLists == {<<>>, <<"ask">>, <<"commit">>, <<"ask", "commit">>, <<"commit", "ask">>}
EntryState ==
    [state : States, op : {"none", "remember", "merge"}, steps : StepLists,
     advice : [told : BOOLEAN, similar : SUBSET Entries]]
EntryTypes == entry \in [Entries -> EntryState] /\ stale \in SUBSET (1..Stored)
Retired == {i \in Entries : entry[i].state = "retired"}

LEMMA ListNumbers ==
    /\ Stored \in Nat /\ Writers \in Nat /\ SimilarMost \in Nat /\ MaxOffset \in Nat
    /\ Entries \subseteq Nat /\ IsFiniteSet(Entries)
    /\ IsFiniteSet(1..Stored) /\ Cardinality(1..Stored) = Stored
    /\ \A n \in PageSizes : n \in Nat /\ n > 0
<1>1. Stored \in Nat /\ Writers \in Nat /\ SimilarMost \in Nat /\ MaxOffset \in Nat
  BY ListingAssumption
<1>2. IsFiniteSet(1..(Stored + Writers))
      /\ IsFiniteSet(1..Stored) /\ Cardinality(1..Stored) = Stored
  BY <1>1, FS_Interval
<1>3. \A n \in PageSizes : n \in Nat /\ n > 0
  BY ListingAssumption
<1> QED BY <1>1, <1>2, <1>3 DEF Entries

LEMMA Counts ==
    ASSUME NEW S \in SUBSET Entries, NEW T \in SUBSET S
    PROVE /\ IsFiniteSet(S) /\ Cardinality(S) \in Nat /\ Cardinality(T) \in Nat
          /\ Cardinality(T) <= Cardinality(S)
          /\ Cardinality(T) = Cardinality(S) => T = S
BY ListNumbers, FS_Subset, FS_CardinalityType

(* The newer of two rows has the lower place in the list.                  *)
LEMMA Places ==
    ASSUME NEW S \in SUBSET Entries, NEW i \in S
    PROVE /\ Newer(i, S) \in Nat /\ Newer(i, S) < Cardinality(S)
          /\ \A j \in S : i < j => Newer(j, S) < Newer(i, S)
<1> DEFINE After(j) == {k \in S : k > j}
<1>0. S \subseteq Nat
  BY ListNumbers
<1>1. \A j \in S : Newer(j, S) = Cardinality(After(j))
  BY DEF Newer
<1>2. \A j \in S : After(j) \in SUBSET S /\ j \notin After(j)
  BY <1>0
<1>3. ASSUME NEW j \in S, i < j PROVE After(j) \in SUBSET After(i) /\ j \in After(i)
  <2>1. i \in Nat /\ j \in Nat
    BY <1>0
  <2>2. ASSUME NEW k \in After(j) PROVE k \in After(i)
    <3>1. k \in Nat /\ k > j /\ k \in S
      BY <1>0
    <3> QED BY <1>3, <2>1, <3>1
  <2> QED BY <1>3, <2>1, <2>2
<1>4. After(i) \in SUBSET Entries
  OBVIOUS
<1> HIDE DEF After
<1>5. Cardinality(After(i)) \in Nat /\ Cardinality(After(i)) < Cardinality(S)
  BY <1>2, Counts
<1>6. ASSUME NEW j \in S, i < j PROVE Cardinality(After(j)) < Cardinality(After(i))
  BY <1>2, <1>3, <1>4, <1>6, Counts
<1> QED BY <1>1, <1>5, <1>6

(* Every place up to that of a row of the list is taken.                   *)
LEMMA PlacesTaken ==
    ASSUME NEW S \in SUBSET Entries, NEW m \in Nat, m < Cardinality(S)
    PROVE \E j \in S : Newer(j, S) = m
<1>1. PICK n \in Nat : n = Cardinality(S) /\ IsFiniteSet(S)
  BY Counts
<1>2. PICK f : f = [j \in S |-> Newer(j, S)]
  OBVIOUS
<1>3. f \in [S -> 0..(n - 1)]
  BY <1>1, <1>2, Places
<1>4. \A i, j \in S : f[i] = f[j] => i = j
  BY <1>2, Places, ListNumbers
<1>5. f \in Injection(S, 0..(n - 1))
  BY <1>3, <1>4 DEF Injection, IsInjective
<1>6. IsFiniteSet(0..(n - 1)) /\ Cardinality(0..(n - 1)) = n
  <2>1. PICK k \in Int : k = n - 1
    BY <1>1
  <2>2. IsFiniteSet(0..k) /\ Cardinality(0..k) = IF 0 > k THEN 0 ELSE k - 0 + 1
    BY FS_Interval
  <2> QED BY <1>1, <2>1, <2>2
<1>7. f \in Surjection(S, 0..(n - 1))
  BY <1>1, <1>5, <1>6, FS_Injection
<1>8. \E j \in S : f[j] = m
  BY <1>1, <1>7 DEF Surjection
<1> QED BY <1>2, <1>8

(* A page that is not full shows the end of the list.                      *)
LEMMA ShortPage ==
    ASSUME NEW S \in SUBSET Entries, NEW c \in Nat, NEW limit \in Nat,
           Cardinality(PageOf(S, c, limit)) < limit, NEW i \in S
    PROVE Newer(i, S) < c + limit
<1>1. Newer(i, S) \in Nat /\ Newer(i, S) < Cardinality(S) /\ Cardinality(S) \in Nat
  BY Places, Counts
<1>2. CASE Newer(i, S) >= c + limit
  <2> DEFINE I == c..(c + limit - 1)
             P == PageOf(S, c, limit)
  <2>1. \A m \in I : \E j \in S : Newer(j, S) = m
    BY <1>1, <1>2, PlacesTaken
  <2>2. PICK f : f = [m \in I |-> CHOOSE j \in S : Newer(j, S) = m]
    OBVIOUS
  <2>3. \A m \in I : f[m] \in S /\ Newer(f[m], S) = m
    BY <2>1, <2>2
  <2>4. \A m \in I : f[m] \in P
    BY <2>3 DEF PageOf
  <2>5. IsFiniteSet(I) /\ Cardinality(I) = limit
    <3>1. PICK k \in Int : k = c + limit - 1
      OBVIOUS
    <3>2. IsFiniteSet(c..k) /\ Cardinality(c..k) = IF c > k THEN 0 ELSE k - c + 1
      BY FS_Interval
    <3> QED BY <3>1, <3>2
  <2>6. P \in SUBSET Entries /\ IsFiniteSet(P) /\ Cardinality(P) \in Nat
    BY Counts DEF PageOf
  <2>7. f \in [I -> P] /\ IsInjective(f)
    BY <2>2, <2>3, <2>4 DEF IsInjective
  <2> HIDE DEF I
  <2>8. f \in Injection(I, P)
    BY <2>7 DEF Injection
  <2>9. Cardinality(I) <= Cardinality(P)
    BY <2>6, <2>8, FS_Injection
  <2> QED BY <2>5, <2>6, <2>9
<1> QED BY <1>1, <1>2

(* A longer list has no row at a lower place than before.                  *)
LEMMA ListGrows ==
    ASSUME NEW S \in SUBSET Entries, NEW T \in SUBSET S, NEW i \in T
    PROVE Newer(i, T) <= Newer(i, S) /\ Newer(i, T) \in Nat /\ Newer(i, S) \in Nat
<1>1. PICK A, B : A = {j \in S : j > i} /\ B = {j \in T : j > i}
  OBVIOUS
<1>2. A \in SUBSET Entries /\ B \in SUBSET A
  BY <1>1
<1>3. Cardinality(B) <= Cardinality(A) /\ Cardinality(A) \in Nat /\ Cardinality(B) \in Nat
  BY <1>2, Counts
<1> QED BY <1>1, <1>3 DEF Newer

LEMMA ListIs ==
    ASSUME EntryTypes, NEW queue
    PROVE /\ Filtered(queue) \in SUBSET Entries /\ Departed(queue) \in Int
          /\ Cardinality(Retired) \in Nat
          /\ Cardinality(stale) \in Nat /\ Cardinality(stale) <= Stored
          /\ Departed(queue) = IF queue = "stale"
               THEN Cardinality(Retired) + (Stored - Cardinality(stale))
               ELSE Cardinality(Retired)
<1>1. Filtered(queue) \in SUBSET Entries
  BY DEF Filtered, Listed
<1>2. Cardinality(Retired) \in Nat
  BY Counts DEF Retired
<1>3. Cardinality(stale) \in Nat /\ Cardinality(stale) <= Stored /\ Stored \in Nat
  BY ListNumbers, FS_Subset, FS_CardinalityType DEF EntryTypes
<1> QED BY <1>1, <1>2, <1>3 DEF Departed, Retired

(* Rows leave the list for good, and those that leave are counted.         *)
LEMMA ListMoves ==
    ASSUME EntryTypes, EntryTypes', Retired \subseteq Retired',
           Listed \subseteq Listed' \cup Retired', stale' \subseteq stale, NEW queue
    PROVE /\ Departed(queue) \in Int /\ Departed(queue)' \in Int
          /\ Departed(queue) <= Departed(queue)'
          /\ Departed(queue)' = Departed(queue) => Filtered(queue) \subseteq Filtered(queue)'
<1>1. PICK R, S, L, U : R = Retired /\ S = Retired' /\ L = stale /\ U = stale'
  OBVIOUS
<1>2. R \in SUBSET S /\ S \in SUBSET Entries /\ U \in SUBSET L /\ L \in SUBSET (1..Stored)
  BY <1>1 DEF Retired, EntryTypes
<1>3. /\ Cardinality(R) \in Nat /\ Cardinality(S) \in Nat /\ Cardinality(R) <= Cardinality(S)
      /\ Cardinality(R) = Cardinality(S) => R = S
  BY <1>2, Counts
<1>4. L \in SUBSET Entries
  BY <1>2, ListNumbers DEF Entries
<1>5. /\ Cardinality(L) \in Nat /\ Cardinality(U) \in Nat /\ Cardinality(U) <= Cardinality(L)
      /\ Cardinality(U) = Cardinality(L) => U = L
  BY <1>2, <1>4, Counts
<1>6. Departed(queue) = IF queue = "stale" THEN Cardinality(R) + (Stored - Cardinality(L))
                        ELSE Cardinality(R)
  BY <1>1, ListIs
<1>7. Departed(queue)' = IF queue = "stale" THEN Cardinality(S) + (Stored - Cardinality(U))
                         ELSE Cardinality(S)
  BY <1>1, <1>3, <1>5, ListNumbers DEF Departed, Retired
<1>8. Departed(queue) <= Departed(queue)'
  BY <1>3, <1>5, <1>6, <1>7, ListNumbers
<1>9. ASSUME Departed(queue)' = Departed(queue) PROVE Filtered(queue) \subseteq Filtered(queue)'
  <2>1. R = S /\ (queue = "stale" => U = L)
    BY <1>3, <1>5, <1>6, <1>7, <1>9, ListNumbers
  <2>2. Listed \subseteq Listed'
    BY <1>1, <2>1 DEF Retired, Listed
  <2> QED BY <1>1, <1>2, <2>1, <2>2 DEF Filtered
<1> QED BY <1>3, <1>5, <1>6, <1>7, <1>8, <1>9, ListNumbers

PagingState ==
    [pc : {"count", "select", "end"}, queue : Queues, limit : PageSizes, offset : Nat,
     seen : SUBSET Entries, total : Nat, whole : BOOLEAN, first : SUBSET Entries, since : Int]
PagesOK(p, list, departed) ==
    /\ p \in PagingState /\ p.since <= departed
    /\ departed = p.since =>
          /\ p.first \subseteq list /\ p.seen \subseteq list
          /\ p.pc \in {"count", "select"} => \A i \in p.first \ p.seen : Newer(i, list) >= p.offset
          /\ p.pc \in {"select", "end"} /\ p.first = list => p.total = Cardinality(list)
          /\ p.pc = "end" /\ p.whole => p.first \subseteq p.seen
PagesInv ==
    paging.pc = "idle" \/ PagesOK(paging, Filtered(paging.queue), Departed(paging.queue))

LEMMA ChangesKeepPages ==
    ASSUME EntryTypes, EntryTypes', PagesInv, Retired \subseteq Retired',
           Listed \subseteq Listed' \cup Retired', stale' \subseteq stale, UNCHANGED paging
    PROVE PagesInv'
<1>1. SUFFICES ASSUME paging.pc # "idle"
               PROVE PagesOK(paging, Filtered(paging.queue), Departed(paging.queue))'
  BY DEF PagesInv
<1>2. PICK q, p : q = paging.queue /\ p = paging
  OBVIOUS
<1>3. PICK A, B, d, e : /\ A = Filtered(q) /\ B = Filtered(q)' /\ d = Departed(q)
                        /\ e = Departed(q)'
  OBVIOUS
<1>4. PagesOK(p, A, d)
  BY <1>1, <1>2, <1>3 DEF PagesInv
<1>5. d <= e /\ (e = d => A \subseteq B) /\ d \in Int /\ e \in Int
  BY <1>3, ListMoves
<1>6. A \in SUBSET Entries /\ B \in SUBSET Entries
  BY <1>3 DEF Filtered, Listed
<1>7. \A i \in A : e = d => Newer(i, A) <= Newer(i, B) /\ Newer(i, A) \in Nat /\ Newer(i, B) \in Nat
  BY <1>5, <1>6, ListGrows
<1>8. PagesOK(p, B, e)
  <2>1. p \in PagingState /\ p.since <= d /\ p.since \in Int /\ p.offset \in Nat
    BY <1>4 DEF PagesOK, PagingState
  <2>2. e = p.since => d = p.since
    BY <1>5, <2>1
  <2> QED BY <1>4, <1>5, <1>6, <1>7, <2>1, <2>2 DEF PagesOK
<1> QED BY <1>2, <1>3, <1>8

LEMMA PagesMove ==
    ASSUME UNCHANGED <<entry, stale>>, NEW a, paging' = a,
           PagesOK(a, Filtered(a.queue), Departed(a.queue))
    PROVE PagesInv'
<1>1. Filtered(paging.queue)' = Filtered(a.queue)
  BY DEF Filtered, Listed
<1>2. Departed(paging.queue)' = Departed(a.queue)
  BY DEF Departed
<1> QED BY <1>1, <1>2 DEF PagesInv

LEMMA StartsPaging ==
    ASSUME EntryTypes, PagesInv, NEW queue \in Queues, NEW limit \in PageSizes,
           StartPaging(queue, limit)
    PROVE PagesInv'
<1>1. PICK list \in SUBSET Entries, d \in Int : list = Filtered(queue) /\ d = Departed(queue)
  BY ListIs
<1>2. PICK a : a = [pc |-> "count", queue |-> queue, limit |-> limit, offset |-> 0, seen |-> {},
                    total |-> 0, whole |-> FALSE, first |-> list, since |-> d]
  OBVIOUS
<1>3. /\ a \in PagingState /\ a.pc = "count" /\ a.queue = queue /\ a.offset = 0 /\ a.seen = {}
      /\ a.first = list /\ a.since = d
  BY <1>1, <1>2 DEF PagingState
<1>4. paging' = a /\ UNCHANGED <<entry, stale>>
  BY <1>1, <1>2 DEF StartPaging
<1>5. \A i \in list : Newer(i, list) \in Nat
  BY <1>1, Places
<1>6. PagesOK(a, list, d)
  BY <1>1, <1>3, <1>5 DEF PagesOK
<1> QED BY <1>1, <1>3, <1>4, <1>6, PagesMove

LEMMA CountsListed == ASSUME EntryTypes, PagesInv, CountListed PROVE PagesInv'
<1>1. PICK p, q, list, d : /\ p = paging /\ q = paging.queue /\ list = Filtered(q)
                           /\ d = Departed(q)
  OBVIOUS
<1>2. PagesOK(p, list, d) /\ p.pc = "count" /\ p \in PagingState
  BY <1>1 DEF PagesInv, CountListed, PagingAt, PagesOK
<1>3. PICK n \in Nat : n = Cardinality(list)
  BY <1>1, ListIs, Counts
<1>4. PICK a : a = [p EXCEPT !.pc = "select", !.total = n]
  OBVIOUS
<1>5. /\ a \in PagingState /\ a.pc = "select" /\ a.queue = q /\ a.offset = p.offset
      /\ a.seen = p.seen /\ a.first = p.first /\ a.since = p.since /\ a.total = n
  BY <1>1, <1>2, <1>4 DEF PagingState
<1>6. paging' = a /\ UNCHANGED <<entry, stale>>
  BY <1>1, <1>3, <1>4 DEF CountListed
<1>7. PagesOK(a, list, d)
  BY <1>2, <1>3, <1>5 DEF PagesOK
<1> QED BY <1>1, <1>5, <1>6, <1>7, PagesMove

LEMMA SelectsPage == ASSUME EntryTypes, PagesInv, SelectPage PROVE PagesInv'
<1>1. PICK p, q, list, d : /\ p = paging /\ q = paging.queue /\ list = Filtered(q)
                           /\ d = Departed(q)
  OBVIOUS
<1>2. PagesOK(p, list, d) /\ p.pc = "select" /\ p \in PagingState
  BY <1>1 DEF PagesInv, SelectPage, PagingAt, PagesOK
<1>3. /\ list \in SUBSET Entries /\ p.offset \in Nat /\ p.limit \in Nat /\ p.limit > 0
      /\ p.seen \in SUBSET Entries /\ p.first \in SUBSET Entries
  <2>1. /\ p.offset \in Nat /\ p.limit \in PageSizes /\ p.seen \in SUBSET Entries
        /\ p.first \in SUBSET Entries
    BY <1>2 DEF PagingState
  <2>2. list \in SUBSET Entries
    BY <1>1, ListIs
  <2> QED BY <2>1, <2>2, ListNumbers
<1>4. PICK c \in Nat : c = Clamped(p.offset) /\ c <= p.offset
                       /\ (p.offset < MaxOffset => c = p.offset)
  BY <1>3, ListNumbers DEF Clamped
<1>5. PICK shown \in SUBSET list : shown = PageOf(list, c, p.limit)
  BY DEF PageOf
<1>6. PICK short \in BOOLEAN : short = (Cardinality(shown) < p.limit)
  <2>1. (Cardinality(shown) < p.limit) \in BOOLEAN
    OBVIOUS
  <2> QED BY <2>1
<1>7. PICK pc \in {"end", "count"} :
         pc = IF short \/ p.offset >= MaxOffset THEN "end" ELSE "count"
  OBVIOUS
<1>8. PICK a : a = [p EXCEPT !.pc = pc, !.offset = p.offset + p.limit,
                             !.seen = p.seen \cup shown, !.whole = short]
  OBVIOUS
<1>9. paging' = a /\ UNCHANGED <<entry, stale>>
  BY <1>1, <1>2, <1>4, <1>5, <1>6, <1>7, <1>8 DEF SelectPage, PagingState
<1>10. /\ a \in PagingState /\ a.pc = pc /\ a.queue = q /\ a.offset = p.offset + p.limit
       /\ a.seen = p.seen \cup shown /\ a.whole = short /\ a.first = p.first
       /\ a.since = p.since /\ a.total = p.total
  <2>1. PICK o \in Nat, n \in SUBSET Entries : o = p.offset + p.limit /\ n = p.seen \cup shown
    <3>1. p.offset + p.limit \in Nat /\ p.seen \cup shown \in SUBSET Entries
      BY <1>3
    <3> QED BY <3>1
  <2> QED BY <1>1, <1>2, <1>8, <2>1 DEF PagingState
<1>11. ASSUME short, NEW i \in list PROVE Newer(i, list) < c + p.limit
  BY <1>3, <1>5, <1>6, <1>11, ShortPage
<1>12. \A i \in list : Newer(i, list) \in Nat
  BY <1>3, Places
<1>13. ASSUME d = p.since, NEW i \in p.first \ a.seen
       PROVE ~short /\ (Newer(i, list) >= p.offset + p.limit \/ p.offset >= MaxOffset)
  <2>1. i \in list /\ Newer(i, list) >= p.offset /\ i \notin shown /\ Newer(i, list) \in Nat
    BY <1>2, <1>10, <1>12, <1>13 DEF PagesOK
  <2>2. Newer(i, list) >= c /\ ~(Newer(i, list) < c + p.limit)
    BY <1>3, <1>4, <1>5, <2>1 DEF PageOf
  <2> QED BY <1>3, <1>4, <1>11, <2>1, <2>2, ListNumbers
<1>14. PagesOK(a, list, d)
  <2>1. a.pc = "count" => ~short /\ ~(p.offset >= MaxOffset)
    BY <1>7, <1>10
  <2> QED BY <1>2, <1>3, <1>5, <1>10, <1>13, <2>1 DEF PagesOK
<1> QED BY <1>1, <1>9, <1>10, <1>14, PagesMove

(***************************************************************************)
(* The advice: a memory that it leaves out was listed later, so if its     *)
(* write began earlier the two ran at the same time; and one that a merge  *)
(* wrote has asked, or has yet to ask, when it was on the list itself.     *)
(***************************************************************************)
ToCommit == {<<"commit">>, <<"ask", "commit">>, <<"commit", "ask">>}
StageOK(i, e) ==
    /\ i <= Stored => e.op = "none" /\ e.state # "unborn"
    /\ i > Stored /\ e.op = "none" => e.state = "unborn"
    /\ e.op = "none" => e.steps = <<>> /\ ~e.advice.told /\ e.state # "open"
    /\ e.state = "unborn" => e.op = "none"
    /\ e.state = "open" <=> e.steps \in ToCommit
    /\ e.op = "remember" => e.steps \notin {<<"ask">>, <<"commit", "ask">>}
    /\ e.op = "merge" => e.steps \notin {<<"commit">>, <<"ask", "commit">>}
    /\ e.steps \notin {<<>>, <<"commit">>} => ~e.advice.told
Begun(i) == entry[i].state # "unborn"
Overlooks(i, j) ==
    i # j /\ subject[i] = subject[j] /\ Reported(i) /\ j \in Listed
    /\ j \notin entry[i].advice.similar
AdviceInv ==
    /\ \A i \in Entries : StageOK(i, entry[i])
    /\ \A i, j \in Entries : j < i /\ Begun(i) => Begun(j)
    /\ \A i, j \in Entries :
          j < i /\ entry[i].op # "none" /\ entry[j].state = "open" => {i, j} \in beside
    /\ \A i, j \in Entries : Overlooks(i, j) =>
          /\ j > Stored
          /\ j < i => {i, j} \in beside
          /\ entry[i].op = "merge" /\ entry[j].op = "merge" /\ i \in Listed =>
                entry[j].steps # <<>> \/ ~Reported(j) \/ i \in entry[j].advice.similar

LEMMA Lists ==
    /\ Head(<<"ask", "commit">>) = "ask" /\ Tail(<<"ask", "commit">>) = <<"commit">>
    /\ Head(<<"commit", "ask">>) = "commit" /\ Tail(<<"commit", "ask">>) = <<"ask">>
    /\ Head(<<"ask">>) = "ask" /\ Tail(<<"ask">>) = <<>>
    /\ Head(<<"commit">>) = "commit" /\ Tail(<<"commit">>) = <<>>
    /\ <<>> \notin ToCommit /\ <<"ask">> \notin ToCommit
    /\ <<"ask">> # <<"commit">> /\ <<"ask">> # <<>> /\ <<"commit">> # <<>>
    /\ <<"commit", "ask">> # <<"commit">> /\ <<"ask", "commit">> # <<"commit">>
    /\ <<"commit", "ask">> # <<"ask">> /\ <<"ask", "commit">> # <<"ask">>
    /\ <<"commit", "ask">> # <<"ask", "commit">>
    /\ <<"commit", "ask">> # <<>> /\ <<"ask", "commit">> # <<>>
BY DEF ToCommit

(* What a change of the list keeps.                                        *)
KeepsList ==
    /\ EntryTypes' /\ AdviceInv' /\ Retired \subseteq Retired'
    /\ Listed \subseteq Listed' \cup Retired' /\ stale' \subseteq stale

LEMMA BeginsWrite ==
    ASSUME EntryTypes, AdviceInv, NEW i \in Entries, NEW op \in {"remember", "merge"},
           BeginWrite(i, op)
    PROVE KeepsList
<1>1. PICK e \in EntryState : e = entry[i] /\ StageOK(i, e) /\ e.state = "unborn"
  BY DEF EntryTypes, AdviceInv, BeginWrite
<1>2. PICK steps \in ToCommit : /\ steps = StepsOf(op) /\ steps \in StepLists
                                /\ op = "remember" => steps = <<"ask", "commit">>
                                /\ op = "merge" => steps = <<"commit", "ask">>
  BY DEF StepsOf, ToCommit, StepLists
<1>3. PICK a : a = [e EXCEPT !.state = "open", !.op = op, !.steps = steps]
  OBVIOUS
<1>4. /\ a \in EntryState /\ a.state = "open" /\ a.op = op /\ a.steps = steps
      /\ a.advice = e.advice
  BY <1>1, <1>2, <1>3 DEF EntryState, States
<1>a. ~e.advice.told /\ e.op = "none" /\ i > Stored
  BY <1>1, ListNumbers DEF StageOK
<1>5. entry' = [entry EXCEPT ![i] = a] /\ stale' = stale /\ subject' = subject
      /\ beside' = beside \cup {{i, j} : j \in Writing}
      /\ \A j \in Entries : j < i => Begun(j)
  BY <1>1, <1>2, <1>3 DEF BeginWrite, Begun
<1>6. entry'[i] = a /\ \A j \in Entries \ {i} : entry'[j] = entry[j]
  BY <1>5 DEF EntryTypes
<1>7. EntryTypes'
  BY <1>4, <1>5 DEF EntryTypes
<1>8. Listed' = Listed /\ Retired' = Retired /\ i \notin Listed
  BY <1>1, <1>4, <1>6 DEF Listed, Retired
<1>9. StageOK(i, a)
  <2>1. ~(i <= Stored) /\ a.op # "none" /\ a.state # "unborn" /\ ~a.advice.told
    BY <1>4, <1>a, ListNumbers
  <2> QED BY <1>2, <1>4, <2>1, Lists DEF StageOK
<1>10. \A j \in Entries : StageOK(j, entry'[j])
  BY <1>6, <1>9 DEF AdviceInv
<1>11. ASSUME NEW k \in Entries, NEW j \in Entries, j < k, Begun(k)' PROVE Begun(j)'
  BY <1>4, <1>5, <1>6, <1>11 DEF AdviceInv, Begun
<1>12. ASSUME NEW k \in Entries, NEW j \in Entries, j < k, entry'[k].op # "none",
              entry'[j].state = "open"
       PROVE {k, j} \in beside'
  <2>1. CASE k = i
    <3>1. j # i /\ entry[j].state = "open"
      BY <1>6, <1>12, <2>1, ListNumbers
    <3>2. j \in Writing
      BY <3>1, Lists DEF Writing, AdviceInv, StageOK
    <3> QED BY <1>5, <2>1, <3>2
  <2>2. CASE j = i
    <3>1. k # i /\ Begun(k)
      BY <1>6, <1>12, <2>2, ListNumbers DEF AdviceInv, StageOK, Begun
    <3>2. Begun(i)
      BY <1>12, <2>2, <3>1 DEF AdviceInv
    <3> QED BY <1>1, <3>2 DEF Begun
  <2>3. CASE k # i /\ j # i
    BY <1>5, <1>6, <1>12, <2>3 DEF AdviceInv
  <2> QED BY <2>1, <2>2, <2>3
<1>13. ASSUME NEW k \in Entries, NEW j \in Entries, Overlooks(k, j)'
       PROVE /\ j > Stored
             /\ j < k => {k, j} \in beside'
             /\ entry'[k].op = "merge" /\ entry'[j].op = "merge" /\ k \in Listed' =>
                   entry'[j].steps # <<>> \/ ~Reported(j)' \/ k \in entry'[j].advice.similar
  <2>1. k # i
    BY <1>4, <1>6, <1>13, <1>a DEF Overlooks, Reported
  <2>2. j # i
    BY <1>8, <1>13 DEF Overlooks
  <2>3. Overlooks(k, j)
    BY <1>5, <1>6, <1>8, <1>13, <2>1, <2>2 DEF Overlooks, Reported
  <2> QED BY <1>5, <1>6, <1>8, <2>1, <2>2, <2>3 DEF AdviceInv, Reported
<1>14. AdviceInv'
  BY <1>10, <1>11, <1>12, <1>13 DEF AdviceInv
<1> QED BY <1>5, <1>7, <1>8, <1>14 DEF KeepsList

LEMMA CommitsWrite ==
    ASSUME EntryTypes, AdviceInv, NEW i \in Entries, CommitWrite(i) PROVE KeepsList
<1>1. PICK e \in EntryState : e = entry[i] /\ StageOK(i, e)
  BY DEF EntryTypes, AdviceInv
<1>2. PICK sources \in SUBSET Listed :
         entry' = [j \in Entries |->
                      IF j = i THEN [entry[i] EXCEPT !.state = "active", !.steps = Tail(@)]
                      ELSE IF j \in sources THEN [entry[j] EXCEPT !.state = "retired"]
                      ELSE entry[j]]
  BY DEF CommitWrite, kSubset
<1>3. UNCHANGED <<subject, beside, stale>>
  BY DEF CommitWrite
<1>4. e.steps \in {<<"commit">>, <<"commit", "ask">>}
  BY <1>1, Lists DEF CommitWrite, Stepping, EntryState, StepLists
<1>5. PICK steps \in StepLists : steps = Tail(e.steps) /\ steps \in {<<>>, <<"ask">>}
  BY <1>4, Lists DEF StepLists
<1>6. PICK a : a = [e EXCEPT !.state = "active", !.steps = steps]
  OBVIOUS
<1>7. /\ a \in EntryState /\ a.state = "active" /\ a.op = e.op /\ a.steps = steps
      /\ a.advice = e.advice /\ e.state = "open" /\ e.op # "none" /\ i > Stored /\ i \notin Listed
  <2>1. e.state = "open" /\ e.op # "none" /\ ~(i <= Stored)
    BY <1>1, <1>4, Lists DEF StageOK, ToCommit
  <2>2. i > Stored /\ i \notin Listed
    BY <1>1, <2>1, ListNumbers DEF Listed
  <2> QED BY <1>1, <1>5, <1>6, <2>1, <2>2 DEF EntryState, States
<1>8. entry'[i] = a
  BY <1>1, <1>2, <1>5, <1>6
<1>9. ASSUME NEW j \in Entries \ {i}
      PROVE /\ entry'[j] \in EntryState /\ StageOK(j, entry'[j])
            /\ entry'[j].op = entry[j].op /\ entry'[j].steps = entry[j].steps
            /\ entry'[j].advice = entry[j].advice
            /\ entry'[j].state = IF j \in sources THEN "retired" ELSE entry[j].state
            /\ j \in sources => entry[j].state = "active"
  <2>1. PICK o \in EntryState : o = entry[j] /\ StageOK(j, o)
    BY DEF EntryTypes, AdviceInv
  <2>2. CASE j \notin sources
    BY <1>2, <2>1, <2>2
  <2>3. CASE j \in sources
    <3>1. PICK n : n = [o EXCEPT !.state = "retired"]
      OBVIOUS
    <3>2. /\ n \in EntryState /\ n.state = "retired" /\ n.op = o.op /\ n.steps = o.steps
          /\ n.advice = o.advice
      BY <3>1 DEF EntryState, States
    <3>3. entry'[j] = n /\ o.state = "active"
      BY <1>2, <2>1, <2>3, <3>1 DEF Listed
    <3>4. StageOK(j, n)
      BY <2>1, <3>2, <3>3 DEF StageOK
    <3> QED BY <2>1, <2>3, <3>2, <3>3, <3>4
  <2> QED BY <2>2, <2>3
<1>10. DOMAIN entry' = Entries /\ entry' = [j \in Entries |-> entry'[j]]
  BY <1>2
<1>11. EntryTypes'
  BY <1>3, <1>7, <1>8, <1>9, <1>10 DEF EntryTypes
<1>12. StageOK(i, a) /\ (a.op = "merge" => a.steps = <<"ask">> /\ ~a.advice.told)
  BY <1>1, <1>4, <1>5, <1>7, Lists DEF StageOK
<1>13. \A j \in Entries : StageOK(j, entry'[j])
  BY <1>8, <1>9, <1>12
<1>14. ASSUME NEW j \in Entries
       PROVE /\ entry'[j].op = entry[j].op /\ entry'[j].advice = entry[j].advice
             /\ entry'[j].state = "open" => entry[j].state = "open"
             /\ j # i => entry'[j].steps = entry[j].steps
             /\ entry'[j].state = "unborn" <=> entry[j].state = "unborn"
  BY <1>1, <1>7, <1>8, <1>9
<1>l. \A j \in Entries : j \in Listed' <=> j = i \/ (j \in Listed /\ j \notin sources)
  BY <1>1, <1>7, <1>8, <1>9 DEF Listed
<1>r. ASSUME NEW j \in Entries PROVE (Reported(j)' <=> Reported(j)) /\ (Begun(j)' <=> Begun(j))
  <2>1. entry'[j].advice = entry[j].advice
    BY <1>14
  <2>2. Reported(j)' <=> Reported(j)
    BY <2>1 DEF Reported
  <2>3. Begun(j)' <=> Begun(j)
    BY <1>14 DEF Begun
  <2> QED BY <2>2, <2>3
<1>15. ASSUME NEW k \in Entries, NEW j \in Entries, Overlooks(k, j)'
       PROVE /\ j > Stored
             /\ j < k => {k, j} \in beside'
             /\ entry'[k].op = "merge" /\ entry'[j].op = "merge" /\ k \in Listed' =>
                   entry'[j].steps # <<>> \/ ~Reported(j)' \/ k \in entry'[j].advice.similar
  <2>1. k # j /\ subject[k] = subject[j] /\ Reported(k) /\ j \notin entry[k].advice.similar
    <3>1. k # j /\ subject'[k] = subject'[j] /\ Reported(k)' /\ j \notin entry'[k].advice.similar
      BY <1>15 DEF Overlooks
    <3> QED BY <1>3, <1>14, <1>r, <3>1
  <2>2. CASE j = i
    <3>1. entry[k].op # "none"
      BY <2>1 DEF Reported, AdviceInv, StageOK
    <3> QED BY <1>1, <1>3, <1>7, <1>8, <1>12, <2>2, <3>1, Lists DEF AdviceInv
  <2>3. CASE j # i
    <3>0. j \in Listed'
      BY <1>15 DEF Overlooks
    <3>1. Overlooks(k, j) /\ j \in Listed
      BY <1>l, <2>1, <2>3, <3>0 DEF Overlooks
    <3>2. k = i => entry'[k].op # "merge"
      BY <1>7, <1>8, <1>12, <2>1, <1>1 DEF Reported
    <3>3. /\ j > Stored
          /\ j < k => {k, j} \in beside
          /\ entry[k].op = "merge" /\ entry[j].op = "merge" /\ k \in Listed =>
                entry[j].steps # <<>> \/ ~Reported(j) \/ k \in entry[j].advice.similar
      BY <3>1 DEF AdviceInv
    <3>4. entry'[k].op = "merge" /\ k \in Listed' => k \in Listed
      BY <1>l, <3>2
    <3> QED BY <1>3, <1>14, <1>r, <2>3, <3>3, <3>4
  <2> QED BY <2>2, <2>3
<1>16. AdviceInv'
  <2>1. ASSUME NEW k \in Entries, NEW j \in Entries, j < k, Begun(k)' PROVE Begun(j)'
    BY <1>r, <2>1 DEF AdviceInv
  <2>2. ASSUME NEW k \in Entries, NEW j \in Entries, j < k, entry'[k].op # "none",
               entry'[j].state = "open"
        PROVE {k, j} \in beside'
    BY <1>3, <1>14, <2>2 DEF AdviceInv
  <2> QED BY <1>13, <1>15, <2>1, <2>2 DEF AdviceInv
<1>17. Retired \subseteq Retired' /\ Listed \subseteq Listed' \cup Retired'
  BY <1>1, <1>7, <1>8, <1>9, <1>14, <1>l DEF Retired, Listed
<1> QED BY <1>3, <1>11, <1>16, <1>17 DEF KeepsList

LEMMA AsksSimilar ==
    ASSUME EntryTypes, AdviceInv, NEW i \in Entries, AskSimilar(i) PROVE KeepsList
<1>1. PICK e \in EntryState : e = entry[i] /\ StageOK(i, e)
  BY DEF EntryTypes, AdviceInv
<1>2. PICK advice \in {NoAdvice} \cup [told : {TRUE}, similar : SimilarActiveTo(i)] :
         entry' = [entry EXCEPT ![i].steps = Tail(@), ![i].advice = advice]
  BY DEF AskSimilar
<1>3. UNCHANGED <<subject, beside, stale>>
  BY DEF AskSimilar
<1>4. e.steps \in {<<"ask">>, <<"ask", "commit">>}
  BY <1>1, Lists DEF AskSimilar, Stepping, EntryState, StepLists
<1>5. PICK steps \in StepLists : steps = Tail(e.steps) /\ steps \in {<<>>, <<"commit">>}
  BY <1>4, Lists DEF StepLists
<1>6. /\ advice \in [told : BOOLEAN, similar : SUBSET Entries]
      /\ advice.told /\ Cardinality(advice.similar) < SimilarMost => advice.similar = Alike(i)
  <2>1. CASE advice = NoAdvice
    BY <2>1 DEF NoAdvice
  <2>2. CASE advice \in [told : {TRUE}, similar : SimilarActiveTo(i)]
    <3>1. advice.similar \in SimilarActiveTo(i) /\ advice.told = TRUE
      BY <2>2
    <3>2. \/ advice.similar = Alike(i)
          \/ advice.similar \in SUBSET Alike(i) /\ Cardinality(advice.similar) = SimilarMost
      BY <3>1 DEF SimilarActiveTo, kSubset
    <3>3. Alike(i) \in SUBSET Entries
      BY DEF Alike, Listed
    <3>4. advice.similar \in SUBSET Entries
      BY <3>2, <3>3
    <3>5. advice \in [told : BOOLEAN, similar : SUBSET Entries]
      BY <2>2, <3>1, <3>4
    <3>6. Cardinality(advice.similar) < SimilarMost => advice.similar = Alike(i)
      BY <3>2, ListNumbers
    <3> QED BY <3>5, <3>6
  <2> QED BY <2>1, <2>2
<1>7. PICK a : a = [e EXCEPT !.steps = steps, !.advice = advice]
  OBVIOUS
<1>8. /\ a \in EntryState /\ a.state = e.state /\ a.op = e.op /\ a.steps = steps
      /\ a.advice = advice /\ e.op # "none"
  BY <1>1, <1>4, <1>6, <1>7, Lists DEF EntryState, StageOK
<1>9. entry' = [entry EXCEPT ![i] = a]
  <2>1. PICK n : n = [entry[i] EXCEPT !.steps = Tail(entry[i].steps), !.advice = advice]
    OBVIOUS
  <2>2. n = a
    BY <1>1, <1>5, <1>7, <2>1
  <2>3. entry' = [entry EXCEPT ![i] = n]
    <3>1. entry \in [Entries -> EntryState]
      BY DEF EntryTypes
    <3>2. PICK m : m = [entry[i] EXCEPT !.steps = Tail(entry[i].steps)]
      OBVIOUS
    <3>3. PICK f : f = [entry EXCEPT ![i] = m]
      OBVIOUS
    <3>4. [entry EXCEPT ![i].steps = Tail(@)] = f /\ f[i] = m
      BY <3>1, <3>2, <3>3
    <3>5. entry' = [f EXCEPT ![i] = [m EXCEPT !.advice = advice]]
      BY <1>2, <3>4
    <3>6. [m EXCEPT !.advice = advice] = n
      BY <2>1, <3>2
    <3> QED BY <3>3, <3>5, <3>6
  <2> QED BY <2>2, <2>3
<1>10. entry'[i] = a /\ \A j \in Entries \ {i} : entry'[j] = entry[j]
  BY <1>9 DEF EntryTypes
<1>11. EntryTypes'
  BY <1>3, <1>8, <1>9 DEF EntryTypes
<1>12. StageOK(i, a)
  <2>1. e.steps = <<"ask">> => steps = <<>>
    BY <1>5, Lists
  <2>2. e.steps = <<"ask", "commit">> => steps = <<"commit">>
    BY <1>5, Lists
  <2> QED BY <1>1, <1>4, <1>8, <2>1, <2>2, Lists DEF StageOK, ToCommit
<1>13. \A j \in Entries : StageOK(j, entry'[j])
  BY <1>10, <1>12 DEF AdviceInv
<1>14. \A j \in Entries : entry'[j].op = entry[j].op /\ entry'[j].state = entry[j].state
  BY <1>1, <1>8, <1>10
<1>r. /\ Listed' = Listed /\ Retired' = Retired
      /\ \A j \in Entries : Begun(j)' = Begun(j)
  BY <1>14 DEF Begun, Listed, Retired
<1>15. ASSUME Reported(i)', NEW k \in Listed, k # i, subject[k] = subject[i]
       PROVE k \in entry'[i].advice.similar
  <2>1. advice.similar = Alike(i)
    BY <1>6, <1>8, <1>10, <1>15 DEF Reported
  <2> QED BY <1>8, <1>10, <1>15, <2>1 DEF Alike
<1>16. ASSUME NEW k \in Entries, NEW j \in Entries, Overlooks(k, j)'
       PROVE /\ j > Stored
             /\ j < k => {k, j} \in beside'
             /\ entry'[k].op = "merge" /\ entry'[j].op = "merge" /\ k \in Listed' =>
                   entry'[j].steps # <<>> \/ ~Reported(j)' \/ k \in entry'[j].advice.similar
  <2>1. k # j /\ subject[k] = subject[j] /\ j \in Listed /\ Reported(k)'
        /\ j \notin entry'[k].advice.similar
    BY <1>3, <1>r, <1>16 DEF Overlooks
  <2>2. k # i
    BY <1>15, <2>1
  <2>3. Overlooks(k, j)
    BY <1>10, <2>1, <2>2 DEF Overlooks, Reported
  <2>4. CASE j = i
    BY <1>3, <1>14, <1>r, <1>15, <2>1, <2>2, <2>3, <2>4 DEF AdviceInv
  <2>5. CASE j # i
    <3>1. Reported(j)' <=> Reported(j)
      BY <1>10, <2>5 DEF Reported
    <3> QED BY <1>3, <1>10, <1>14, <1>r, <2>2, <2>3, <2>5, <3>1 DEF AdviceInv
  <2> QED BY <2>4, <2>5
<1>17. AdviceInv'
  <2>1. ASSUME NEW k \in Entries, NEW j \in Entries, j < k, Begun(k)' PROVE Begun(j)'
    BY <1>r, <2>1 DEF AdviceInv
  <2>2. ASSUME NEW k \in Entries, NEW j \in Entries, j < k, entry'[k].op # "none",
               entry'[j].state = "open"
        PROVE {k, j} \in beside'
    BY <1>3, <1>14, <2>2 DEF AdviceInv
  <2> QED BY <1>13, <1>16, <2>1, <2>2 DEF AdviceInv
<1> QED BY <1>3, <1>11, <1>r, <1>17 DEF KeepsList

LEMMA Forgets ==
    ASSUME EntryTypes, AdviceInv, NEW i \in Entries, Forget(i) PROVE KeepsList
<1>1. PICK e \in EntryState : e = entry[i] /\ StageOK(i, e) /\ e.state = "active"
  BY DEF EntryTypes, AdviceInv, Forget, Listed
<1>2. PICK a : a = [e EXCEPT !.state = "retired"]
  OBVIOUS
<1>3. /\ a \in EntryState /\ a.state = "retired" /\ a.op = e.op /\ a.steps = e.steps
      /\ a.advice = e.advice
  BY <1>2 DEF EntryState, States
<1>4. entry' = [entry EXCEPT ![i] = a] /\ UNCHANGED <<subject, beside, stale>>
  BY <1>1, <1>2 DEF Forget
<1>5. entry'[i] = a /\ \A j \in Entries \ {i} : entry'[j] = entry[j]
  BY <1>4 DEF EntryTypes
<1>6. EntryTypes'
  BY <1>3, <1>4 DEF EntryTypes
<1>7. \A j \in Entries : StageOK(j, entry'[j])
  BY <1>1, <1>3, <1>5 DEF StageOK, AdviceInv
<1>8. Listed' = Listed \ {i} /\ Retired' = Retired \cup {i}
  BY <1>1, <1>3, <1>5 DEF Listed, Retired
<1>9. ASSUME NEW j \in Entries
      PROVE /\ entry'[j].op = entry[j].op /\ entry'[j].steps = entry[j].steps
            /\ entry'[j].advice = entry[j].advice
            /\ entry'[j].state = "open" => entry[j].state = "open"
            /\ entry'[j].state = "unborn" <=> entry[j].state = "unborn"
  BY <1>1, <1>3, <1>5
<1>10. ASSUME NEW j \in Entries PROVE (Reported(j)' <=> Reported(j)) /\ (Begun(j)' <=> Begun(j))
  <2>1. entry'[j].advice = entry[j].advice
    BY <1>9
  <2>2. Reported(j)' <=> Reported(j)
    BY <2>1 DEF Reported
  <2>3. Begun(j)' <=> Begun(j)
    BY <1>9 DEF Begun
  <2> QED BY <2>2, <2>3
<1>11. ASSUME NEW k \in Entries, NEW j \in Entries, Overlooks(k, j)' PROVE Overlooks(k, j)
  BY <1>4, <1>8, <1>9, <1>10, <1>11 DEF Overlooks
<1>12. AdviceInv'
  BY <1>4, <1>7, <1>8, <1>9, <1>10, <1>11 DEF AdviceInv
<1> QED BY <1>4, <1>6, <1>8, <1>12 DEF KeepsList

LEMMA Reconfirms ==
    ASSUME EntryTypes, AdviceInv, NEW i \in Entries, ReconfirmStale(i) PROVE KeepsList
BY DEF ReconfirmStale, KeepsList, EntryTypes, AdviceInv, Retired, Listed, Overlooks, Reported, Begun

LEMMA ChangesKeep ==
    ASSUME EntryTypes, AdviceInv, Changes PROVE KeepsList /\ UNCHANGED paging
<1>1. PICK i \in Entries :
         \/ BeginWrite(i, "remember") \/ BeginWrite(i, "merge")
         \/ CommitWrite(i) \/ AskSimilar(i) \/ Forget(i) \/ ReconfirmStale(i)
  BY DEF Changes
<1>2. KeepsList
  BY <1>1, BeginsWrite, CommitsWrite, AsksSimilar, Forgets, Reconfirms
<1>3. UNCHANGED paging
  BY <1>1 DEF BeginWrite, CommitWrite, AskSimilar, Forget, ReconfirmStale
<1> QED BY <1>2, <1>3

ListInv == EntryTypes /\ AdviceInv /\ PagesInv

LEMMA ListingStart == ListingInit => ListInv
<1> SUFFICES ASSUME ListingInit PROVE ListInv
  OBVIOUS
<1>1. PICK live \in SUBSET (1..Stored) : entry = Before(live)
  BY DEF ListingInit
<1>2. ASSUME NEW i \in Entries
      PROVE /\ entry[i] \in EntryState /\ StageOK(i, entry[i])
            /\ entry[i].op = "none" /\ ~entry[i].advice.told
            /\ Begun(i) <=> i <= Stored
  <2>1. PICK state \in States :
           state = IF i \in live THEN "active" ELSE IF i <= Stored THEN "retired" ELSE "unborn"
    BY DEF States
  <2>2. entry[i] = [state |-> state, op |-> "none", steps |-> <<>>, advice |-> NoAdvice]
    BY <1>1, <2>1 DEF Before
  <2>3. NoAdvice \in [told : BOOLEAN, similar : SUBSET Entries] /\ ~NoAdvice.told
    BY DEF NoAdvice
  <2>4. i \in live => i <= Stored
    OBVIOUS
  <2>5. i \in Nat /\ Stored \in Nat
    BY ListNumbers
  <2> QED BY <2>1, <2>2, <2>3, <2>4, <2>5, Lists DEF EntryState, StepLists, StageOK, Begun
<1>3. EntryTypes
  BY <1>1, <1>2 DEF EntryTypes, Before, ListingInit
<1>4. AdviceInv
  <2>1. \A i, j \in Entries : ~Overlooks(i, j)
    BY <1>2 DEF Overlooks, Reported
  <2>2. ASSUME NEW i \in Entries, NEW j \in Entries, j < i, Begun(i) PROVE Begun(j)
    BY <1>2, <2>2, ListNumbers
  <2> QED BY <1>2, <2>1, <2>2 DEF AdviceInv
<1>5. PagesInv
  BY DEF ListingInit, PagesInv
<1> QED BY <1>3, <1>4, <1>5 DEF ListInv

LEMMA ListingStep == ListInv /\ [ListingNext]_listingVars => ListInv'
<1> SUFFICES ASSUME ListInv, [ListingNext]_listingVars PROVE ListInv'
  OBVIOUS
<1> USE DEF ListInv
<1>1. CASE Changes
  BY <1>1, ChangesKeep, ChangesKeepPages DEF KeepsList
<1>2. CASE Pages
  <2>1. PagesInv'
    BY <1>2, StartsPaging, CountsListed, SelectsPage DEF Pages
  <2>2. UNCHANGED <<entry, subject, beside, stale>>
    BY <1>2 DEF Pages, StartPaging, CountListed, SelectPage
  <2> QED BY <2>1, <2>2 DEF EntryTypes, AdviceInv, Listed, Overlooks, Reported, Begun
<1>3. CASE UNCHANGED listingVars
  BY <1>3 DEF listingVars, EntryTypes, AdviceInv, Listed, Overlooks, Reported, Begun,
              PagesInv, Filtered, Departed
<1> QED BY <1>1, <1>2, <1>3 DEF ListingNext

LEMMA ListTells == ListInv => ListIsCovered
<1>1. ListInv => SimilarAreReported
  <2> SUFFICES ASSUME ListInv, NEW i \in Listed, NEW j \in Listed, Asked(i), Reported(i), j < i,
                      subject[i] = subject[j], j <= Stored \/ (Asked(j) /\ Reported(j)),
                      j \notin entry[i].advice.similar, i \notin entry[j].advice.similar
               PROVE Crossed(i, j)
    BY DEF SimilarAreReported
  <2>1. i \in Entries /\ j \in Entries /\ Overlooks(i, j)
    BY ListNumbers DEF Listed, Overlooks
  <2>2. j > Stored /\ {i, j} \in beside
    BY <2>1 DEF ListInv, AdviceInv
  <2>3. Asked(j) /\ Reported(j)
    BY <2>1, <2>2, ListNumbers
  <2>4. ~(entry[i].op = "merge" /\ entry[j].op = "merge")
    BY <2>1, <2>3 DEF ListInv, AdviceInv, Asked
  <2> QED BY <2>2, <2>4 DEF Crossed
<1>2. ListInv => PagesCoverList
  <2> SUFFICES ASSUME ListInv, PagingAt("end"), paging.whole,
                      Departed(paging.queue) = paging.since
               PROVE LET list == Filtered(paging.queue)
                     IN /\ paging.first \cap list \subseteq paging.seen
                        /\ paging.first = list => paging.total = Cardinality(paging.seen)
    BY DEF PagesCoverList
  <2>1. PICK p, list : p = paging /\ list = Filtered(paging.queue)
    OBVIOUS
  <2>2. PagesOK(p, list, p.since) /\ p.pc = "end" /\ p.whole
    BY <2>1 DEF ListInv, PagesInv, PagingAt
  <2>3. p.since = p.since /\ p.first \subseteq p.seen /\ p.seen \subseteq list
    BY <2>2 DEF PagesOK
  <2>4. p.first = list => p.total = Cardinality(list) /\ p.seen = list
    BY <2>2, <2>3 DEF PagesOK
  <2> QED BY <2>1, <2>3, <2>4
<1> QED BY <1>1, <1>2 DEF ListIsCovered

(* Whatever is written, merged, forgotten and reconfirmed meanwhile, of    *)
(* two similar memories one was reported to the writer of the other unless *)
(* their writes ran at the same time (_similar_to, memory/service.py), and *)
(* pages leave out nothing that stayed on the list (list_active).          *)
THEOREM ListCovered == ListingSpec => []ListIsCovered
BY ListingStart, ListingStep, ListTells, PTL DEF ListingSpec

(***************************************************************************)
(* Together: a part that rests keeps its invariant, and one that moves     *)
(* takes a step of its own.                                                *)
(***************************************************************************)
KnowledgeInv ==
    /\ BatchInv /\ ReembedInv /\ EmbeddingsInv /\ ListInv
    /\ ReadsInv /\ MatchingInv /\ GraphInv
KnowledgeTells ==
    /\ OutcomesTrue /\ NothingLeftStale /\ ReadsAreSpared /\ ListIsCovered
    /\ EachWasVisible /\ RecallServes /\ ContextServes /\ MatchesAreSound
    /\ GraphTellsTrue

(* In any behaviour of the composition, in which one part moves, calls     *)
(* answer for each item, the backfill leaves nothing stale, reads of       *)
(* vectors are spared, the list is complete, what a call returns was       *)
(* visible and is what it should return, the matches of skills are sound   *)
(* and the graph is true: what the theorems say of service.py,             *)
(* memory_repo.py, ollama.py, skills/service.py and hygiene.py, each for   *)
(* itself.                                                                 *)
THEOREM PartsKeep == KnowledgeSpec => []KnowledgeTells
<1>1. KnowledgeInit => KnowledgeInv
  BY BatchStart, ReembedStart, EmbeddingsStart, ListingStart, ReadsStart, MatchingStart,
     GraphStart
     DEF KnowledgeInit, KnowledgeInv
<1>2. KnowledgeInv /\ [KnowledgeNext]_knowledgeVars => KnowledgeInv'
  <2> SUFFICES ASSUME KnowledgeInv, [KnowledgeNext]_knowledgeVars PROVE KnowledgeInv'
    OBVIOUS
  <2>1. [BatchNext]_batchVars
    BY DEF KnowledgeNext, Moves, knowledgeVars
  <2>2. [ReembedNext]_reembedVars
    BY DEF KnowledgeNext, Moves, knowledgeVars
  <2>3. [EmbeddingsNext]_embeddingVars
    BY DEF KnowledgeNext, Moves, knowledgeVars
  <2>4. [ListingNext]_listingVars
    BY DEF KnowledgeNext, Moves, knowledgeVars, ListingNext
  <2>5. [ReadsNext]_readVars
    BY DEF KnowledgeNext, Moves, knowledgeVars
  <2>6. [MatchingNext]_matchingVars
    BY DEF KnowledgeNext, Moves, knowledgeVars
  <2>7. [GraphNext]_graphVars
    BY DEF KnowledgeNext, Moves, knowledgeVars
  <2> QED BY <2>1, <2>2, <2>3, <2>4, <2>5, <2>6, <2>7, BatchStepKeeps, ReembedStep,
             EmbeddingsStep, ListingStep, ReadsStep, MatchingStep, GraphStepKeeps
           DEF KnowledgeInv
<1>3. KnowledgeInv => KnowledgeTells
  BY BatchTells, ReembedTells, EmbeddingsTell, ListTells, ReadsVisible, ReadsServe, MatchingTells,
     GraphTells
     DEF KnowledgeInv, KnowledgeTells
<1> QED BY <1>1, <1>2, <1>3, PTL DEF KnowledgeSpec
=============================================================================
