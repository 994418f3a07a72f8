------------------------- MODULE MemoryStoreProofs --------------------------
(***************************************************************************)
(* Theorems about MemoryStore and Audits, for every value of their         *)
(* constants: any number of projects, hashes and calls, and of clients,    *)
(* except where a theorem says one.                                        *)
(***************************************************************************)
EXTENDS Audits, FiniteSetTheorems, TLAPS

(***************************************************************************)
(* The operators rows are built with.                                      *)
(***************************************************************************)

(* A column is written with the value asked for, or keeps the one it had.  *)
LEMMA OrType ==
    ASSUME NEW S, NEW opt \in Optional(S), NEW old
    PROVE  Or(opt, old) \in S \cup {old}
BY DEF Optional, Or

(* An expiry derived from a ttl is an instant, or no column to write.      *)
LEMMA ExpiryType ==
    ASSUME NEW t \in Nat, NEW ttl \in Optional(Ttls)
    PROVE  Expiry(t, ttl) \in Optional(Nat)
<1>1. CASE ttl = {}
    BY <1>1 DEF Expiry, Optional
<1>2. CASE ttl # {}
    <2>0. Or(ttl, 0) \in Ttls \cup {0}
        BY OrType
    <2>1. Ttls \cup {0} \subseteq Nat
        BY TtlsAssumption
    <2>2. t + Or(ttl, 0) \in Nat
        BY <2>0, <2>1
    <2> QED BY <1>2, <2>2 DEF Expiry, Optional
<1> QED BY <1>1, <1>2

(* An edit of a row is a row, with the same state, key, confirmation and   *)
(* replacement.                                                            *)
LEMMA EditedType ==
    ASSUME NEW r \in Row, NEW e \in Edit
    PROVE  /\ Edited(r, e) \in Row
           /\ Edited(r, e).st = r.st
           /\ Edited(r, e).succ = r.succ
<1>1. Or(e.prio, r.prio) \in Nat
    BY OrType DEF Edit, Row
<1>2. Or(e.kind, r.kind) \in Kinds \cup {NoKind}
    BY OrType DEF Edit, Row
<1>3. Or(e.exp, r.exp) \in Nat
    BY OrType DEF Edit, Row
<1> QED BY <1>1, <1>2, <1>3 DEF Edited, Row

(* An edit that asks for nothing changes nothing.                          *)
LEMMA NoEditChangesNothing ==
    ASSUME NEW r \in Row
    PROVE  Edited(r, NoEdit) = r
BY DEF Edited, NoEdit, Or, Row

(* What a reaffirmed duplicate is asked to change.                         *)
LEMMA ReassertionType ==
    ASSUME NEW q \in Request, NEW copy \in Row, NEW t \in Nat
    PROVE  Reassertion(q, copy, t) \in Edit
<1>1. q.prio \in Nat /\ q.kind \in Optional(Kinds) /\ q.ttl \in Optional(Ttls)
    BY PriosAssumption DEF Request
<1>2. Expiry(t, q.ttl) \in Optional(Nat)
    BY <1>1, ExpiryType
<1>3. {} \in Optional(Nat) /\ {q.prio} \in Optional(Nat) /\ {} \in Optional(Kinds)
    BY <1>1 DEF Optional
<1> QED BY <1>1, <1>2, <1>3 DEF Reassertion, Edit

(* A row stored by an operation is an active row without replacement.      *)
StoredRow(r) == r \in Row /\ r.st = "active" /\ r.succ = NoRow

LEMMA NewRowType ==
    ASSUME NEW b \in Buckets, NEW h \in Hashes, NEW p \in Nat,
           NEW k \in Kinds \cup {NoKind}, NEW e \in Nat, NEW t \in Nat
    PROVE  StoredRow(NewRow(b, h, p, k, e, t))
BY DEF StoredRow, NewRow, Row

LEMMA ReplacedType ==
    ASSUME rows \in [Ids -> Row], NEW S, NEW s \in Ids \cup {NoRow},
           NEW i \in Ids, NEW new \in Row
    PROVE  Replaced(S, s, i, new) \in [Ids -> Row]
BY DEF Replaced, Retired, Row

(***************************************************************************)
(* Local states of a call: what TypeOK says of each statement.             *)
(***************************************************************************)
LEMMA CallingFields ==
    ASSUME NEW s \in Calling
    PROVE  /\ s.pc = "find" => s.req \in Request
           /\ s.pc = "create" => s.req \in Request /\ s.at \in Nat
           /\ s.pc = "reaffirm" => /\ s.req \in Request /\ s.at \in Nat
                                   /\ s.id \in Ids /\ s.copy \in Row
           /\ s.pc = "delete" => s.id \in Ids /\ s.keys \in Seq(Buckets)
           /\ s.pc = "select" => /\ s.from \in Buckets /\ s.to \in Buckets
                                 /\ s.conflicts \in SUBSET Ids
           /\ s.pc = "move" => /\ s.from \in Buckets /\ s.to \in Buckets
                               /\ s.conflicts \in SUBSET Ids
                               /\ s.skipped \in SUBSET Ids /\ s.moving \in SUBSET Ids
BY DEF Calling

LEMMA RequestFields ==
    ASSUME NEW q \in Request
    PROVE  /\ q.bucket \in Buckets /\ q.hash \in Hashes /\ q.prio \in Nat
           /\ q.kind \in Optional(Kinds) /\ q.ttl \in Optional(Ttls)
           /\ q.attempt \in 0..2
BY PriosAssumption DEF Request

LEMMA EnterType ==
    ASSUME tx \in [Clients -> Calling], NEW c \in Clients, NEW s \in Calling, Enter(c, s)
    PROVE  tx' \in [Clients -> Calling]
BY DEF Enter

LEMMA LeaveType ==
    ASSUME tx \in [Clients -> Calling], NEW c \in Clients, Leave(c)
    PROVE  tx' \in [Clients -> Calling]
<1>1. [pc |-> "idle"] \in Calling
    BY DEF Calling
<1> QED BY <1>1, EnterType DEF Leave

LEMMA WroteType ==
    ASSUME tx \in [Clients -> Calling], NEW c \in Clients,
           NEW keys \in Seq(Buckets), Wrote(c, keys)
    PROVE  tx' \in [Clients -> Calling]
<1>1. [pc |-> "wrote", keys |-> keys] \in Calling
    BY DEF Calling
<1> QED BY <1>1, EnterType DEF Wrote

(* The statements of a call each keep the types. *)
LEMMA InitTypeOK == Init => TypeOK
<1> SUFFICES ASSUME Init PROVE TypeOK
    OBVIOUS
<1>1. rows \in [Ids -> Row]
    BY DEF Init, Row, Buckets, Never, NoRow
<1>2. [pc |-> "idle"] \in Calling
    BY DEF Calling
<1>3. tx \in [Clients -> Calling]
    BY <1>2 DEF Init
<1> QED BY <1>1, <1>3 DEF Init, TypeOK

(* A step that leaves the corpus alone and moves a call to a state of the  *)
(* right shape keeps the types.                                            *)
LEMMA LocalStep ==
    ASSUME TypeOK, NEW c \in Clients, NEW s \in Calling, Enter(c, s),
           UNCHANGED <<rows, generation, now>>, calls' \in Nat
    PROVE  TypeOK'
BY EnterType DEF TypeOK

(* A step that writes the corpus and announces buckets keeps the types.    *)
LEMMA WriteStep ==
    ASSUME TypeOK, NEW c \in Clients, NEW keys \in Seq(Buckets), Wrote(c, keys),
           rows' \in [Ids -> Row], generation' \in Nat, UNCHANGED now, calls' \in Nat
    PROVE  TypeOK'
BY WroteType DEF TypeOK

LEMMA BeginType ==
    ASSUME TypeOK, NEW c \in Clients, Begin(c)
    PROVE  calls' \in Nat
BY DEF TypeOK, Begin

LEMMA CallKeepsTypes ==
    ASSUME TypeOK, NEW c \in Clients, Call(c)
    PROVE  TypeOK'
<1>0. /\ rows \in [Ids -> Row] /\ generation \in Nat /\ now \in Nat /\ calls \in Nat
      /\ tx \in [Clients -> Calling]
    BY DEF TypeOK
<1>b. \A i \in Ids : rows[i].bucket \in Buckets /\ <<rows[i].bucket>> \in Seq(Buckets)
    BY <1>0 DEF Row
<1>1. ASSUME NEW b \in Buckets, NEW h \in Hashes, NEW p \in Prios,
             NEW k \in Optional(Kinds), NEW ttl \in Optional(Ttls),
             RememberCall(c, b, h, p, k, ttl)
      PROVE  TypeOK'
    <2> DEFINE v == ActiveByHash(b, h, now) = {}
               q == [bucket |-> b, hash |-> h, prio |-> p, kind |-> k,
                     ttl |-> ttl, attempt |-> 0, vector |-> v]
               s == [pc |-> "find", req |-> q]
    <2>1. q \in Request
        BY DEF Request
    <2>2. s \in Calling
        BY <2>1 DEF Calling
    <2>3. Enter(c, s) /\ Begin(c) /\ UNCHANGED <<rows, generation, now>>
        BY <1>1 DEF RememberCall
    <2> HIDE DEF s
    <2> QED BY <2>2, <2>3, BeginType, LocalStep
<1>2. ASSUME NEW i \in Ids, NEW p \in Optional(Prios), NEW k \in Optional(Kinds),
             NEW ttl \in Optional(Ttls), NEW clear \in BOOLEAN,
             UpdateAttributes(c, i, p, k, ttl, clear)
      PROVE  TypeOK'
    <2> DEFINE e == [prio |-> p, kind |-> k,
                     exp |-> IF clear THEN {Never} ELSE Expiry(now, ttl)]
    <2>1. e \in Edit
        <3>1. p \in Optional(Nat)
            BY PriosAssumption DEF Optional
        <3>2. {Never} \in Optional(Nat) /\ Expiry(now, ttl) \in Optional(Nat)
            BY <1>0, ExpiryType DEF Optional, Never
        <3> QED BY <3>1, <3>2 DEF Edit
    <2>2. /\ rows' = [rows EXCEPT ![i] = Edited(@, e)]
          /\ generation' = generation + Bumps(e)
          /\ Begin(c) /\ Wrote(c, <<rows[i].bucket>>) /\ UNCHANGED now
        BY <1>2 DEF UpdateAttributes
    <2>3. Edited(rows[i], e) \in Row
        BY <1>0, <2>1, EditedType
    <2> HIDE DEF e
    <2>4. rows' \in [Ids -> Row]
        BY <1>0, <2>2, <2>3
    <2>5. generation' \in Nat
        BY <1>0, <2>2 DEF Bumps
    <2> QED BY <1>b, <2>2, <2>4, <2>5, BeginType, WriteStep
<1>3. ASSUME NEW i \in Ids, Reconfirm(c, i)
      PROVE  TypeOK'
    <2>1. rows' \in [Ids -> Row]
        BY <1>0, <1>3 DEF Reconfirm, Row
    <2>2. generation' \in Nat /\ Begin(c) /\ Wrote(c, <<rows[i].bucket>>) /\ UNCHANGED now
        BY <1>0, <1>3 DEF Reconfirm
    <2> QED BY <1>b, <2>1, <2>2, BeginType, WriteStep
<1>4. ASSUME NEW i \in Ids, ForgetRead(c, i)
      PROVE  TypeOK'
    <2> DEFINE s == [pc |-> "delete", id |-> i,
                     keys |-> IF Unexpired(rows[i], now) THEN <<rows[i].bucket>> ELSE <<>>]
    <2>1. s \in Calling
        BY <1>b DEF Calling
    <2>2. Enter(c, s) /\ Begin(c) /\ UNCHANGED <<rows, generation, now>>
        BY <1>4 DEF ForgetRead
    <2> HIDE DEF s
    <2> QED BY <2>1, <2>2, BeginType, LocalStep
<1>5. ASSUME NEW i \in Ids, NEW h \in Hashes, NEW p \in Optional(Prios),
             NEW k \in Optional(Kinds), Supersede(c, i, h, p, k)
      PROVE  TypeOK'
    <2> DEFINE new == NewRow(rows[i].bucket, h, Or(p, rows[i].prio),
                             Or(k, rows[i].kind), Never, now)
    <2>1. StoredRow(new)
        <3>1. Or(p, rows[i].prio) \in Nat
            BY <1>0, OrType, PriosAssumption DEF Row
        <3>2. Or(k, rows[i].kind) \in Kinds \cup {NoKind}
            BY <1>0, OrType DEF Row
        <3>3. Never \in Nat
            BY DEF Never
        <3> QED BY <1>0, <1>b, <3>1, <3>2, <3>3, NewRowType
    <2>2. PICK j \in Ids : rows' = Replaced({i}, j, j, new)
        BY <1>5 DEF Supersede
    <2> HIDE DEF new
    <2>3. rows' \in [Ids -> Row]
        BY <1>0, <2>1, <2>2, ReplacedType DEF StoredRow
    <2>4. generation' \in Nat /\ Begin(c) /\ Wrote(c, <<rows[i].bucket>>) /\ UNCHANGED now
        BY <1>0, <1>5 DEF Supersede
    <2> QED BY <1>b, <2>3, <2>4, BeginType, WriteStep
<1>6. ASSUME NEW S \in SUBSET Ids, NEW b \in Buckets, NEW h \in Hashes, NEW p \in Prios,
             Merge(c, S, b, h, p)
      PROVE  TypeOK'
    <2> DEFINE new == NewRow(b, h, p, NoKind, Never, now)
    <2>1. StoredRow(new)
        BY <1>0, NewRowType, PriosAssumption DEF Never
    <2>2. PICK j \in Ids : rows' = Replaced(S, j, j, new)
        BY <1>6 DEF Merge, MergeMemories
    <2> HIDE DEF new
    <2>3. rows' \in [Ids -> Row]
        BY <1>0, <2>1, <2>2, ReplacedType DEF StoredRow
    <2>4. generation' \in Nat /\ Begin(c) /\ Wrote(c, <<b>>) /\ UNCHANGED now
        BY <1>0, <1>6 DEF Merge, MergeMemories
    <2>5. <<b>> \in Seq(Buckets)
        OBVIOUS
    <2> QED BY <2>3, <2>4, <2>5, BeginType, WriteStep
<1>7. ASSUME NEW from \in Projects, NEW to \in Projects, ReassignList(c, from, to)
      PROVE  TypeOK'
    <2> DEFINE s == [pc |-> "select", from |-> from, to |-> to,
                     conflicts |-> Conflicting(from, to)]
    <2>1. s \in Calling
        BY DEF Calling, Conflicting, InProject, Undeleted, Buckets
    <2>2. Enter(c, s) /\ Begin(c) /\ UNCHANGED <<rows, generation, now>>
        BY <1>7 DEF ReassignList
    <2> HIDE DEF s
    <2> QED BY <2>1, <2>2, BeginType, LocalStep
<1> QED BY <1>1, <1>2, <1>3, <1>4, <1>5, <1>6, <1>7 DEF Call

LEMMA ContinueKeepsTypes ==
    ASSUME TypeOK, NEW c \in Clients, Continue(c)
    PROVE  TypeOK'
<1>0. /\ rows \in [Ids -> Row] /\ generation \in Nat /\ now \in Nat /\ calls \in Nat
      /\ tx \in [Clients -> Calling] /\ tx[c] \in Calling
    BY DEF TypeOK
<1> DEFINE t == tx[c]
<1>1. CASE RememberHit(c)
    <2>1. t.req \in Request
        BY <1>0, <1>1, CallingFields DEF RememberHit, At
    <2>2. PICK i \in Found(t.req) :
             Enter(c, [pc |-> "reaffirm", req |-> t.req, at |-> now, id |-> i,
                       copy |-> rows[i]])
        BY <1>1 DEF RememberHit
    <2>3. i \in Ids
        BY DEF Found, ActiveByHash, Holders, Undeleted
    <2>4. [pc |-> "reaffirm", req |-> t.req, at |-> now, id |-> i,
           copy |-> rows[i]] \in Calling
        BY <1>0, <2>1, <2>3 DEF Calling
    <2>5. UNCHANGED <<rows, generation, now>> /\ calls' \in Nat
        BY <1>0, <1>1 DEF RememberHit
    <2> QED BY <2>2, <2>4, <2>5, LocalStep
<1>2. CASE RememberRefused(c) \/ ReaffirmRefused(c) \/ ReassignCollides(c) \/ Raise(c)
    BY <1>0, <1>2, LeaveType
    DEF TypeOK, RememberRefused, ReaffirmRefused, ReassignCollides, Raise
<1>3. CASE EmbedOutsideSession(c)
    <2> DEFINE q == [t.req EXCEPT !.vector = TRUE, !.attempt = NextAttempt(@)]
    <2>1. t.req \in Request /\ t.req.attempt \in 0..2
        BY <1>0, <1>3, CallingFields, RequestFields DEF EmbedOutsideSession, At
    <2>2. NextAttempt(t.req.attempt) \in 0..2
        BY <2>1 DEF NextAttempt
    <2>3. q \in Request
        BY <2>1, <2>2 DEF Request
    <2>4. Enter(c, [pc |-> "find", req |-> q]) /\ UNCHANGED <<rows, generation, now, calls>>
        BY <1>3 DEF EmbedOutsideSession
    <2> HIDE DEF q
    <2>5. [pc |-> "find", req |-> q] \in Calling
        BY <2>3 DEF Calling
    <2> QED BY <1>0, <2>4, <2>5, LocalStep
<1>4. CASE RememberMiss(c)
    <2>1. t.req \in Request
        BY <1>0, <1>4, CallingFields DEF RememberMiss, At
    <2>2. [pc |-> "create", req |-> t.req, at |-> now] \in Calling
        BY <1>0, <2>1 DEF Calling
    <2> QED BY <1>0, <1>4, <2>2, LocalStep DEF RememberMiss
<1>5. CASE RememberReaffirm(c)
    <2> DEFINE e == Reassertion(t.req, t.copy, t.at)
    <2>1. t.req \in Request /\ t.at \in Nat /\ t.id \in Ids /\ t.copy \in Row
        BY <1>0, <1>5, CallingFields DEF RememberReaffirm, At
    <2>2. e \in Edit
        BY <2>1, ReassertionType
    <2>3. /\ rows' = [rows EXCEPT ![t.id] = [Edited(@, e) EXCEPT !.seen = t.at]]
          /\ generation' = generation + Bumps(e) + 1
          /\ Wrote(c, <<t.req.bucket>>) /\ UNCHANGED <<now, calls>>
        BY <1>5 DEF RememberReaffirm
    <2>4. Edited(rows[t.id], e) \in Row
        BY <1>0, <2>1, <2>2, EditedType
    <2>5. <<t.req.bucket>> \in Seq(Buckets)
        BY <2>1, RequestFields
    <2> HIDE DEF e
    <2>6. rows' \in [Ids -> Row]
        BY <1>0, <2>1, <2>3, <2>4 DEF Row
    <2>7. generation' \in Nat
        BY <1>0, <2>3 DEF Bumps
    <2> QED BY <1>0, <2>3, <2>5, <2>6, <2>7, WriteStep
<1>6. CASE ReaffirmRetired(c)
    <2>1. t.req \in Request
        BY <1>0, <1>6, CallingFields DEF ReaffirmRetired, At
    <2>2. <<t.req.bucket>> \in Seq(Buckets)
        BY <2>1, RequestFields
    <2> QED BY <1>0, <1>6, <2>2, WriteStep DEF ReaffirmRetired
<1>7. CASE RememberCreate(c)
    <2> DEFINE q == t.req
               new == NewRow(q.bucket, q.hash, q.prio, Or(q.kind, NoKind),
                             Or(Expiry(t.at, q.ttl), Never), t.at)
               stale == Lapsed(q.bucket, q.hash, t.at)
    <2>1. q \in Request /\ t.at \in Nat
        BY <1>0, <1>7, CallingFields DEF RememberCreate, At
    <2>2. /\ q.bucket \in Buckets /\ q.hash \in Hashes /\ q.prio \in Nat
          /\ q.kind \in Optional(Kinds) /\ q.ttl \in Optional(Ttls)
        BY <2>1, RequestFields
    <2>3. Or(q.kind, NoKind) \in Kinds \cup {NoKind}
        BY <2>2, OrType
    <2>4. Or(Expiry(t.at, q.ttl), Never) \in Nat
        BY <2>1, <2>2, ExpiryType, OrType DEF Never
    <2>5. StoredRow(new)
        BY <2>1, <2>2, <2>3, <2>4, NewRowType
    <2>6. PICK i \in Ids : rows' = Replaced(stale, NoRow, i, new)
        BY <1>7 DEF RememberCreate
    <2>7. /\ Wrote(c, <<q.bucket>>) /\ generation' = generation + 1
          /\ UNCHANGED <<now, calls>>
        BY <1>7 DEF RememberCreate
    <2>8. <<q.bucket>> \in Seq(Buckets)
        BY <2>2
    <2> HIDE DEF new, stale, q
    <2>9. rows' \in [Ids -> Row]
        BY <1>0, <2>5, <2>6, ReplacedType DEF StoredRow
    <2>10. generation' \in Nat /\ calls' \in Nat /\ UNCHANGED now
        BY <1>0, <2>7
    <2> QED BY <2>7, <2>8, <2>9, <2>10, WriteStep
<1>8. CASE RememberCollides(c)
    <2> DEFINE q == t.req
    <2>1. q \in Request /\ q.attempt \in 0..2
        BY <1>0, <1>8, CallingFields, RequestFields DEF RememberCollides, At
    <2>2. [q EXCEPT !.attempt = NextAttempt(@)] \in Request
        BY <2>1 DEF Request, NextAttempt
    <2>3. /\ [pc |-> "raised"] \in Calling
          /\ [pc |-> "find", req |-> [q EXCEPT !.attempt = NextAttempt(@)]] \in Calling
        BY <2>2 DEF Calling
    <2>4. \E s \in Calling : Enter(c, s)
        BY <1>8, <2>3 DEF RememberCollides
    <2> QED BY <1>0, <1>8, <2>4, LocalStep DEF RememberCollides
<1>9. CASE ForgetDelete(c)
    <2>1. t.id \in Ids /\ t.keys \in Seq(Buckets)
        BY <1>0, <1>9, CallingFields DEF ForgetDelete, At
    <2>2. CASE t.id \in Undeleted
        <3>1. /\ rows' = [rows EXCEPT ![t.id] = Retired(@, NoRow)]
              /\ generation' = generation + 1 /\ UNCHANGED <<now, calls>>
            BY <1>9, <2>2 DEF ForgetDelete
        <3>2. rows' \in [Ids -> Row]
            BY <1>0, <2>1, <3>1 DEF Retired, Row
        <3>3. Leave(c) \/ Wrote(c, t.keys)
            BY <1>9, <2>2 DEF ForgetDelete
        <3>4. tx' \in [Clients -> Calling]
            BY <1>0, <2>1, <3>3, LeaveType, WroteType
        <3> QED BY <1>0, <3>1, <3>2, <3>4 DEF TypeOK
    <2>3. CASE t.id \notin Undeleted
        BY <1>0, <1>9, <2>3, LeaveType DEF TypeOK, ForgetDelete
    <2> QED BY <2>2, <2>3
<1>10. CASE ReassignSelect(c)
    <2>1. t.from \in Buckets /\ t.to \in Buckets /\ t.conflicts \in SUBSET Ids
        BY <1>0, <1>10, CallingFields DEF ReassignSelect, At
    <2> DEFINE skipped == Conflicting(t.from, t.to)
               moving == InProject(t.from) \ skipped
    <2>2. skipped \in SUBSET Ids /\ moving \in SUBSET Ids
        BY DEF Conflicting, InProject, Undeleted
    <2>3. /\ Enter(c, [pc |-> "move", from |-> t.from, to |-> t.to,
                       conflicts |-> t.conflicts, skipped |-> skipped, moving |-> moving])
          /\ UNCHANGED <<rows, generation, now, calls>>
        BY <1>10 DEF ReassignSelect
    <2> HIDE DEF skipped, moving
    <2>4. [pc |-> "move", from |-> t.from, to |-> t.to, conflicts |-> t.conflicts,
           skipped |-> skipped, moving |-> moving] \in Calling
        BY <2>1, <2>2 DEF Calling
    <2> QED BY <1>0, <2>3, <2>4, LocalStep
<1>11. CASE ReassignMove(c)
    <2> DEFINE moved == t.moving \cap InProject(t.from)
    <2>1. t.from \in Buckets /\ t.to \in Buckets
        BY <1>0, <1>11, CallingFields DEF ReassignMove, At
    <2>2. /\ rows' = [i \in Ids |-> IF i \in moved THEN [rows[i] EXCEPT !.bucket = t.to]
                                    ELSE rows[i]]
          /\ UNCHANGED <<now, calls>>
        BY <1>11 DEF ReassignMove
    <2>3. \/ Leave(c) /\ UNCHANGED generation
          \/ Wrote(c, <<t.from, t.to>>) /\ generation' = generation + 1
        BY <1>11 DEF ReassignMove
    <2> HIDE DEF moved
    <2>4. rows' \in [Ids -> Row]
        BY <1>0, <2>1, <2>2 DEF Row
    <2>5. <<t.from, t.to>> \in Seq(Buckets)
        BY <2>1
    <2>6. CASE Leave(c) /\ UNCHANGED generation
        BY <1>0, <2>2, <2>4, <2>6, LeaveType DEF TypeOK
    <2>7. CASE Wrote(c, <<t.from, t.to>>) /\ generation' = generation + 1
        <3>1. generation' \in Nat /\ calls' \in Nat /\ UNCHANGED now
            BY <1>0, <2>2, <2>7
        <3> QED BY <2>4, <2>5, <2>7, <3>1, WriteStep
    <2> QED BY <2>3, <2>6, <2>7
<1> QED BY <1>1, <1>2, <1>3, <1>4, <1>5, <1>6, <1>7, <1>8, <1>9, <1>10, <1>11 DEF Continue

LEMMA NextKeepsTypes == TypeOK /\ [Next]_storeVars => TypeOK'
<1> SUFFICES ASSUME TypeOK, [Next]_storeVars PROVE TypeOK'
    OBVIOUS
<1>1. ASSUME NEW c \in Clients, Call(c) \/ Continue(c) PROVE TypeOK'
    BY <1>1, CallKeepsTypes, ContinueKeepsTypes
<1>2. ASSUME NEW c \in Clients, Announced(c) PROVE TypeOK'
    BY <1>2, LeaveType DEF TypeOK, Announced
<1>3. CASE Tick
    BY <1>3 DEF TypeOK, Tick
<1>4. CASE Finished \/ UNCHANGED storeVars
    BY <1>4 DEF TypeOK, Finished, storeVars
<1> QED BY <1>1, <1>2, <1>3, <1>4 DEF Next

(* Type correctness: rows, counters and the local state of every call in   *)
(* progress keep the shape the tables and the functions' locals give them, *)
(* however many clients write (MemoryService over memory_repo.py).         *)
THEOREM TypeCorrect == Spec => []TypeOK
BY InitTypeOK, NextKeepsTypes, PTL DEF Spec

(***************************************************************************)
(* Every step changes the corpus in one of three ways, or not at all: it   *)
(* edits active rows, it stores one row in the place of active ones, or it *)
(* retires one.                                                            *)
(***************************************************************************)
Editing ==
    \A i \in Ids : \/ rows'[i] = rows[i]
                   \/ /\ i \in Undeleted
                      /\ rows'[i].st = "active" /\ rows'[i].succ = rows[i].succ

Replacing ==
    \E S \in SUBSET Undeleted, i \in Free, s \in Ids \cup {NoRow}, new \in Row :
        /\ s \in {i, NoRow}
        /\ StoredRow(new)
        /\ rows' = Replaced(S, s, i, new)

Deleting ==
    \E i \in Undeleted : rows' = [rows EXCEPT ![i] = Retired(@, NoRow)]

Writing == generation' > generation /\ rows' \in [Ids -> Row]
           /\ (Editing \/ Replacing \/ Deleting)
Keeping == rows' = rows /\ generation' >= generation

LEMMA CallWritesOrKeeps ==
    ASSUME TypeOK, TypeOK', NEW c \in Clients, Call(c)
    PROVE  Writing \/ Keeping
<1>0. /\ rows \in [Ids -> Row] /\ generation \in Nat /\ now \in Nat
      /\ rows' \in [Ids -> Row] /\ generation' \in Nat
    BY DEF TypeOK
<1>1. ASSUME NEW b \in Buckets, NEW h \in Hashes, NEW p \in Prios,
             NEW k \in Optional(Kinds), NEW ttl \in Optional(Ttls),
             RememberCall(c, b, h, p, k, ttl)
      PROVE  Keeping
    BY <1>0, <1>1 DEF RememberCall, Keeping
<1>2. ASSUME NEW i \in Ids, NEW p \in Optional(Prios), NEW k \in Optional(Kinds),
             NEW ttl \in Optional(Ttls), NEW clear \in BOOLEAN,
             UpdateAttributes(c, i, p, k, ttl, clear)
      PROVE  Writing \/ Keeping
    <2> DEFINE e == [prio |-> p, kind |-> k,
                     exp |-> IF clear THEN {Never} ELSE Expiry(now, ttl)]
    <2>1. e \in Edit
        <3>1. p \in Optional(Nat)
            BY PriosAssumption DEF Optional
        <3>2. {Never} \in Optional(Nat) /\ Expiry(now, ttl) \in Optional(Nat)
            BY <1>0, ExpiryType DEF Optional, Never
        <3> QED BY <3>1, <3>2 DEF Edit
    <2>2. /\ i \in Undeleted
          /\ rows' = [rows EXCEPT ![i] = Edited(@, e)]
          /\ generation' = generation + Bumps(e)
        BY <1>2 DEF UpdateAttributes
    <2> HIDE DEF e
    <2>3. CASE e = NoEdit
        <3>1. rows' = rows
            BY <1>0, <2>2, <2>3, NoEditChangesNothing
        <3> QED BY <1>0, <2>2, <2>3, <3>1 DEF Keeping, Bumps
    <2>4. CASE e # NoEdit
        <3>1. generation' > generation
            BY <1>0, <2>2, <2>4 DEF Bumps
        <3>2. Edited(rows[i], e).st = rows[i].st /\ Edited(rows[i], e).succ = rows[i].succ
            BY <1>0, <2>1, EditedType
        <3>3. Editing
            BY <1>0, <2>2, <3>2 DEF Editing, Undeleted
        <3> QED BY <1>0, <3>1, <3>3 DEF Writing
    <2> QED BY <2>3, <2>4
<1>3. ASSUME NEW i \in Ids, Reconfirm(c, i)
      PROVE  Writing
    <2>1. i \in Undeleted /\ rows' = [rows EXCEPT ![i].seen = now] /\ generation' > generation
        BY <1>0, <1>3 DEF Reconfirm
    <2>2. Editing
        BY <1>0, <2>1 DEF Editing, Undeleted, Row
    <2> QED BY <1>0, <2>1, <2>2 DEF Writing
<1>4. ASSUME NEW i \in Ids, ForgetRead(c, i)
      PROVE  Keeping
    BY <1>0, <1>4 DEF ForgetRead, Keeping
<1>5. ASSUME NEW i \in Ids, NEW h \in Hashes, NEW p \in Optional(Prios),
             NEW k \in Optional(Kinds), Supersede(c, i, h, p, k)
      PROVE  Writing
    <2> DEFINE new == NewRow(rows[i].bucket, h, Or(p, rows[i].prio),
                             Or(k, rows[i].kind), Never, now)
    <2>1. StoredRow(new)
        <3>1. Or(p, rows[i].prio) \in Nat
            BY <1>0, OrType, PriosAssumption DEF Row
        <3>2. Or(k, rows[i].kind) \in Kinds \cup {NoKind}
            BY <1>0, OrType DEF Row
        <3>3. Never \in Nat /\ rows[i].bucket \in Buckets
            BY <1>0 DEF Never, Row
        <3> QED BY <1>0, <3>1, <3>2, <3>3, NewRowType
    <2>2. PICK j \in Ids : Fresh(j) /\ rows' = Replaced({i}, j, j, new)
        BY <1>5 DEF Supersede
    <2>3. {i} \in SUBSET Undeleted /\ generation' > generation
        BY <1>0, <1>5 DEF Supersede, Replaceable
    <2> HIDE DEF new
    <2>4. Replacing
        BY <2>1, <2>2, <2>3 DEF Replacing, Fresh, StoredRow
    <2> QED BY <1>0, <2>3, <2>4 DEF Writing
<1>6. ASSUME NEW S \in SUBSET Ids, NEW b \in Buckets, NEW h \in Hashes, NEW p \in Prios,
             Merge(c, S, b, h, p)
      PROVE  Writing
    <2> DEFINE new == NewRow(b, h, p, NoKind, Never, now)
    <2>1. StoredRow(new)
        BY <1>0, NewRowType, PriosAssumption DEF Never
    <2>2. PICK j \in Ids : Fresh(j) /\ rows' = Replaced(S, j, j, new)
        BY <1>6 DEF Merge, MergeMemories
    <2>3. S \in SUBSET Undeleted /\ generation' > generation
        BY <1>0, <1>6 DEF Merge, MergeMemories
    <2> HIDE DEF new
    <2>4. Replacing
        BY <2>1, <2>2, <2>3 DEF Replacing, Fresh, StoredRow
    <2> QED BY <1>0, <2>3, <2>4 DEF Writing
<1>7. ASSUME NEW from \in Projects, NEW to \in Projects, ReassignList(c, from, to)
      PROVE  Keeping
    BY <1>0, <1>7 DEF ReassignList, Keeping
<1> QED BY <1>1, <1>2, <1>3, <1>4, <1>5, <1>6, <1>7 DEF Call

LEMMA ContinueWritesOrKeeps ==
    ASSUME TypeOK, TypeOK', NEW c \in Clients, Continue(c)
    PROVE  Writing \/ Keeping
<1>0. /\ rows \in [Ids -> Row] /\ generation \in Nat /\ now \in Nat
      /\ rows' \in [Ids -> Row] /\ generation' \in Nat
      /\ tx[c] \in Calling
    BY DEF TypeOK
<1> DEFINE t == tx[c]
<1>1. CASE \/ RememberHit(c) \/ RememberRefused(c) \/ EmbedOutsideSession(c)
           \/ RememberMiss(c) \/ ReaffirmRefused(c) \/ ReaffirmRetired(c)
           \/ RememberCollides(c) \/ ReassignSelect(c) \/ ReassignCollides(c) \/ Raise(c)
    BY <1>0, <1>1
    DEF Keeping, RememberHit, RememberRefused, EmbedOutsideSession, RememberMiss,
        ReaffirmRefused, ReaffirmRetired, RememberCollides, ReassignSelect,
        ReassignCollides, Raise
<1>2. CASE RememberReaffirm(c)
    <2> DEFINE e == Reassertion(t.req, t.copy, t.at)
    <2>1. t.req \in Request /\ t.at \in Nat /\ t.id \in Ids /\ t.copy \in Row
        BY <1>0, <1>2, CallingFields DEF RememberReaffirm, At
    <2>2. e \in Edit
        BY <2>1, ReassertionType
    <2>3. /\ t.id \in Undeleted
          /\ rows' = [rows EXCEPT ![t.id] = [Edited(@, e) EXCEPT !.seen = t.at]]
          /\ generation' = generation + Bumps(e) + 1
        BY <1>2 DEF RememberReaffirm
    <2>4. /\ Edited(rows[t.id], e) \in Row
          /\ Edited(rows[t.id], e).st = rows[t.id].st
          /\ Edited(rows[t.id], e).succ = rows[t.id].succ
        BY <1>0, <2>1, <2>2, EditedType
    <2> HIDE DEF e
    <2>5. generation' > generation
        BY <1>0, <2>3 DEF Bumps
    <2>6. rows[t.id].st = "active"
        BY <2>3 DEF Undeleted
    <2>7. rows'[t.id].st = "active" /\ rows'[t.id].succ = rows[t.id].succ
        BY <1>0, <2>1, <2>3, <2>4, <2>6 DEF Row
    <2>8. Editing
        BY <1>0, <2>3, <2>7 DEF Editing
    <2> QED BY <1>0, <2>5, <2>8 DEF Writing
<1>3. CASE RememberCreate(c)
    <2> DEFINE q == t.req
               new == NewRow(q.bucket, q.hash, q.prio, Or(q.kind, NoKind),
                             Or(Expiry(t.at, q.ttl), Never), t.at)
               stale == Lapsed(q.bucket, q.hash, t.at)
    <2>1. q \in Request /\ t.at \in Nat
        BY <1>0, <1>3, CallingFields DEF RememberCreate, At
    <2>2. /\ q.bucket \in Buckets /\ q.hash \in Hashes /\ q.prio \in Nat
          /\ q.kind \in Optional(Kinds) /\ q.ttl \in Optional(Ttls)
        BY <2>1, RequestFields
    <2>3. Or(q.kind, NoKind) \in Kinds \cup {NoKind}
        BY <2>2, OrType
    <2>4. Or(Expiry(t.at, q.ttl), Never) \in Nat
        BY <2>1, <2>2, ExpiryType, OrType DEF Never
    <2>5. StoredRow(new)
        BY <2>1, <2>2, <2>3, <2>4, NewRowType
    <2>6. PICK i \in Ids : Fresh(i) /\ rows' = Replaced(stale, NoRow, i, new)
        BY <1>3 DEF RememberCreate
    <2>7. generation' > generation
        BY <1>0, <1>3 DEF RememberCreate
    <2>8. stale \in SUBSET Undeleted
        BY DEF Lapsed, Holders
    <2> HIDE DEF new, stale, q
    <2>9. Replacing
        BY <2>5, <2>6, <2>8 DEF Replacing, Fresh, StoredRow
    <2> QED BY <1>0, <2>7, <2>9 DEF Writing
<1>4. CASE ForgetDelete(c)
    <2>1. CASE t.id \in Undeleted
        BY <1>0, <1>4, <2>1 DEF ForgetDelete, Writing, Deleting
    <2>2. CASE t.id \notin Undeleted
        BY <1>0, <1>4, <2>2 DEF ForgetDelete, Keeping
    <2> QED BY <2>1, <2>2
<1>5. CASE ReassignMove(c)
    <2> DEFINE moved == t.moving \cap InProject(t.from)
    <2>1. /\ rows' = [i \in Ids |-> IF i \in moved THEN [rows[i] EXCEPT !.bucket = t.to]
                                    ELSE rows[i]]
          /\ \/ moved = {} /\ UNCHANGED generation
             \/ generation' = generation + 1
        BY <1>5 DEF ReassignMove
    <2>2. moved \subseteq Undeleted
        BY DEF InProject
    <2> HIDE DEF moved
    <2>3. CASE moved = {} /\ UNCHANGED generation
        BY <1>0, <2>1, <2>3 DEF Keeping
    <2>4. CASE generation' = generation + 1
        <3>1. Editing
            BY <1>0, <2>1, <2>2 DEF Editing, Undeleted, Row
        <3> QED BY <1>0, <2>4, <3>1 DEF Writing
    <2> QED BY <2>1, <2>3, <2>4
<1> QED BY <1>1, <1>2, <1>3, <1>4, <1>5 DEF Continue

LEMMA StepWritesOrKeeps ==
    ASSUME TypeOK, TypeOK', [Next]_storeVars
    PROVE  Writing \/ Keeping
<1>1. ASSUME NEW c \in Clients, Call(c) \/ Continue(c) PROVE Writing \/ Keeping
    BY <1>1, CallWritesOrKeeps, ContinueWritesOrKeeps
<1>2. CASE (\E c \in Clients : Announced(c)) \/ Tick \/ Finished \/ UNCHANGED storeVars
    BY <1>2 DEF Announced, Tick, Finished, storeVars, Keeping, TypeOK
<1> QED BY <1>1, <1>2 DEF Next

(***************************************************************************)
(* The theorems.                                                           *)
(***************************************************************************)

(* Every committed change of a memory moves the user's generation forward  *)
(* in the same step, whichever operation made it and whatever else was     *)
(* under way (_increment_generation in every writer of memory_repo.py).    *)
THEOREM GenerationTracks == Spec => GenerationTracksCorpus
<1>1. TypeOK /\ TypeOK' /\ [Next]_storeVars =>
          [(rows' # rows => generation' > generation) /\ generation' >= generation]_storeVars
    <2> SUFFICES ASSUME TypeOK, TypeOK', [Next]_storeVars
                 PROVE  (rows' # rows => generation' > generation) /\ generation' >= generation
        OBVIOUS
    <2>1. generation \in Nat /\ generation' \in Nat
        BY DEF TypeOK
    <2> QED BY <2>1, StepWritesOrKeeps DEF Writing, Keeping
<1> QED BY <1>1, TypeCorrect, PTL DEF Spec, GenerationTracksCorpus

(* A retired memory never changes again: no call already under way revives *)
(* or rewrites history (the deleted_at guards of memory_repo.py).          *)
THEOREM RetiredStays == Spec => RetiredForever
<1>1. TypeOK /\ TypeOK' /\ [Next]_storeVars =>
          [\A i \in Ids : rows[i].st = "retired" => rows'[i] = rows[i]]_storeVars
    <2> SUFFICES ASSUME TypeOK, TypeOK', [Next]_storeVars,
                        NEW i \in Ids, rows[i].st = "retired"
                 PROVE  rows'[i] = rows[i]
        OBVIOUS
    <2>1. i \notin Undeleted /\ i \notin Free
        BY DEF Undeleted, Free
    <2>2. CASE Keeping
        BY <2>2 DEF Keeping
    <2>3. CASE Editing
        BY <2>1, <2>3 DEF Editing
    <2>4. CASE Replacing
        BY <2>1, <2>4 DEF Replacing, Replaced
    <2>5. CASE Deleting
        BY <2>1, <2>5 DEF Deleting, TypeOK
    <2> QED BY <2>2, <2>3, <2>4, <2>5, StepWritesOrKeeps DEF Writing
<1> QED BY <1>1, TypeCorrect, PTL DEF Spec, RetiredForever

(* The rows of history() form a forest: a link is set only from a row that *)
(* is retired in that step to the row stored in that step, which has none, *)
(* so no sequence of updates and merges closes a cycle (history, supersede *)
(* and merge_memories in memory_repo.py).                                  *)
THEOREM HistoryForest == Spec => []HistoryIsForest
<1>1. Init => HistoryIsForest
    <2> SUFFICES ASSUME Init PROVE HistoryIsForest
        OBVIOUS
    <2>1. \A i \in Ids : rows[i].succ = NoRow
        BY DEF Init
    <2>2. NoRow \notin Ids
        BY DEF NoRow, Ids
    <2>3. \A S \in (SUBSET Ids) \ {{}} : \E i \in S : rows[i].succ \notin S
        <3> SUFFICES ASSUME NEW S \in (SUBSET Ids) \ {{}}
                     PROVE  \E i \in S : rows[i].succ \notin S
            OBVIOUS
        <3>1. PICK i \in S : i \in Ids
            OBVIOUS
        <3> QED BY <2>1, <2>2, <3>1
    <2> QED BY <2>1, <2>3 DEF HistoryIsForest
<1>2. TypeOK /\ TypeOK' /\ HistoryIsForest /\ [Next]_storeVars => HistoryIsForest'
    <2> SUFFICES ASSUME TypeOK, TypeOK', HistoryIsForest, [Next]_storeVars
                 PROVE  HistoryIsForest'
        OBVIOUS
    <2>0. /\ rows \in [Ids -> Row] /\ rows' \in [Ids -> Row] /\ NoRow \notin Ids
          /\ \A i \in Ids : rows[i].succ \in Ids \cup {NoRow}
        BY DEF TypeOK, NoRow, Ids, Row
    <2>1. CASE Keeping
        BY <2>1 DEF Keeping, HistoryIsForest
    <2>2. CASE Editing
        <3>1. \A i \in Ids : rows'[i].succ = rows[i].succ
            BY <2>2 DEF Editing
        <3>2. \A i \in Ids : rows[i].st = "active" => rows[i].succ = NoRow
            BY <2>0 DEF HistoryIsForest
        <3>3. \A i \in Ids : rows'[i].succ # NoRow => rows'[i].st = "retired"
            BY <2>2, <3>1, <3>2 DEF Editing, Undeleted, HistoryIsForest
        <3>4. \A i \in Ids : rows[i].st # "free" => rows'[i].st # "free"
            BY <2>2 DEF Editing
        <3> QED BY <2>0, <3>1, <3>3, <3>4 DEF HistoryIsForest
    <2>3. CASE Replacing
        <3>1. PICK S \in SUBSET Undeleted, i \in Free, s \in Ids \cup {NoRow}, new \in Row :
                 /\ s \in {i, NoRow} /\ StoredRow(new)
                 /\ rows' = Replaced(S, s, i, new)
            BY <2>3 DEF Replacing
        <3>2. i \in Ids /\ i \notin S /\ rows[i].st = "free"
            BY <3>1 DEF Free, Undeleted
        <3>3. rows'[i].succ = NoRow /\ rows'[i].st = "active"
            BY <3>1, <3>2 DEF Replaced, StoredRow
        <3>4. \A j \in S : rows'[j].succ = s /\ rows'[j].st = "retired"
            BY <2>0, <3>1, <3>2 DEF Replaced, Retired, Row, Undeleted
        <3>5. \A j \in Ids \ (S \cup {i}) : rows'[j] = rows[j]
            BY <3>1 DEF Replaced
        <3>6. \A j \in Ids : rows[j].st # "free" => rows'[j].st # "free"
            BY <3>3, <3>4, <3>5
        <3>7. \A j \in Ids : rows'[j].succ # NoRow =>
                 rows'[j].st = "retired" /\ rows'[rows'[j].succ].st # "free"
            <4> SUFFICES ASSUME NEW j \in Ids, rows'[j].succ # NoRow
                         PROVE  rows'[j].st = "retired" /\ rows'[rows'[j].succ].st # "free"
                OBVIOUS
            <4>1. CASE j \in S
                BY <3>1, <3>3, <3>4, <4>1
            <4>2. CASE j \notin S
                BY <2>0, <3>3, <3>5, <3>6, <4>2 DEF HistoryIsForest
            <4> QED BY <4>1, <4>2
        <3>8. \A T \in (SUBSET Ids) \ {{}} : \E j \in T : rows'[j].succ \notin T
            <4> SUFFICES ASSUME NEW T \in (SUBSET Ids) \ {{}}
                         PROVE  \E j \in T : rows'[j].succ \notin T
                OBVIOUS
            <4>1. CASE i \in T
                BY <2>0, <3>3, <4>1
            <4>2. CASE i \notin T /\ T \cap S # {}
                BY <2>0, <3>1, <3>4, <4>2
            <4>3. CASE i \notin T /\ T \cap S = {}
                BY <3>5, <4>3 DEF HistoryIsForest
            <4> QED BY <4>1, <4>2, <4>3
        <3> QED BY <3>7, <3>8 DEF HistoryIsForest
    <2>4. CASE Deleting
        <3>1. PICK i \in Undeleted : rows' = [rows EXCEPT ![i] = Retired(@, NoRow)]
            BY <2>4 DEF Deleting
        <3>2. i \in Ids /\ rows'[i].succ = NoRow /\ rows'[i].st = "retired"
            BY <2>0, <3>1 DEF Undeleted, Retired, Row
        <3>3. \A j \in Ids \ {i} : rows'[j] = rows[j]
            BY <2>0, <3>1
        <3> QED BY <2>0, <3>2, <3>3 DEF HistoryIsForest
    <2> QED BY <2>1, <2>2, <2>3, <2>4, StepWritesOrKeeps DEF Writing
<1> QED BY <1>1, <1>2, TypeCorrect, PTL DEF Spec

(***************************************************************************)
(* The trail of a memory (Audits).                                         *)
(***************************************************************************)
NoRowIsNoId == NoRow \notin Ids /\ IsFiniteSet(Ids)

LEMMA RowsAreFinite == NoRowIsNoId
BY BoundsAssumption, FS_Interval DEF NoRowIsNoId, NoRow, Ids

(* The rows a history may hold are themselves closed: the least closed set *)
(* is one of the sets it is the least of.                                  *)
LEMMA HistoryIsClosed ==
    ASSUME NEW i \in Ids, rows[i].succ = NoRow
    PROVE  /\ History(i) \in Closed(i)
           /\ \A S \in Closed(i) : History(i) \subseteq S
<1>0. i \notin Superseded
    BY DEF Superseded
<1>1. History(i) = {a \in Superseded : \A S \in Closed(i) : a \in S}
    BY <1>0 DEF History
<1>2. \A S \in Closed(i) : History(i) \subseteq S
    BY <1>1
<1>3. Ancestors({i} \cup History(i)) \subseteq History(i)
    <2> SUFFICES ASSUME NEW a \in Ids, rows[a].succ \in {i} \cup History(i)
                 PROVE  a \in History(i)
        BY DEF Ancestors
    <2>1. a \in Superseded
        BY RowsAreFinite DEF NoRowIsNoId, Superseded, History
    <2>2. ASSUME NEW S \in Closed(i) PROVE a \in S
        <3>1. rows[a].succ \in {i} \cup S
            BY <1>2
        <3> QED BY <3>1 DEF Closed, Ancestors
    <2> QED BY <1>1, <2>1, <2>2
<1> QED BY <1>1, <1>2, <1>3 DEF Closed

(* A row of a history was replaced by the seed or by another of its rows.  *)
LEMMA HistoryHasNoOrphan ==
    ASSUME NEW i \in Ids, rows[i].succ = NoRow, NEW a \in History(i)
    PROVE  rows[a].succ \in {i} \cup History(i)
<1> SUFFICES ASSUME rows[a].succ \notin {i} \cup History(i)
             PROVE  FALSE
    OBVIOUS
<1> DEFINE S == History(i) \ {a}
<1>1. History(i) \in Closed(i)
    BY HistoryIsClosed
<1>2. S \in Closed(i)
    BY <1>1 DEF Closed, Ancestors
<1> HIDE DEF S
<1>3. a \in S
    BY <1>2, HistoryIsClosed
<1> QED BY <1>3 DEF S

(* Every superseded row is in the history of one row that nothing replaced.*)
LEMMA EveryRowHasATip ==
    ASSUME TypeOK, HistoryIsForest, NEW i \in Superseded
    PROVE  \E t \in Tips : i \in History(t)
<1> DEFINE Lost == {a \in Superseded : \A t \in Tips : a \notin History(t)}
<1> SUFFICES ASSUME i \in Lost PROVE FALSE
    OBVIOUS
<1>1. Lost \in (SUBSET Ids) \ {{}}
    BY DEF Superseded
<1> HIDE DEF Lost
<1>2. PICK a \in Lost : rows[a].succ \notin Lost
    BY <1>1 DEF HistoryIsForest
<1>3. a \in Ids /\ a \in Superseded /\ rows[a].succ # NoRow
    BY <1>2 DEF Lost, Superseded
<1>4. PICK u \in Ids : u = rows[a].succ
    BY <1>3 DEF TypeOK, Row
<1>5. rows[u].st # "free"
    BY <1>3, <1>4 DEF HistoryIsForest
<1>6. PICK t \in Tips : u \in {t} \cup History(t)
    <2>1. CASE u \in Tips
        BY <2>1
    <2>2. CASE u \notin Tips
        BY <1>2, <1>4, <1>5, <2>2 DEF Tips, Superseded, Lost
    <2> QED BY <2>1, <2>2
<1>7. History(t) \in Closed(t)
    BY HistoryIsClosed DEF Tips
<1>8. a \in History(t)
    BY <1>3, <1>4, <1>6, <1>7 DEF Closed, Ancestors
<1> QED BY <1>2, <1>6, <1>8 DEF Lost

(* The histories of two rows that nothing replaced share no row.           *)
LEMMA TipsAreApart ==
    ASSUME HistoryIsForest, NEW t \in Tips, NEW u \in Tips,
           NEW i \in History(t), i \in History(u)
    PROVE  t = u
<1> SUFFICES ASSUME t # u PROVE FALSE
    OBVIOUS
<1> DEFINE Shared == History(t) \cap History(u)
<1>0. t \in Ids /\ u \in Ids /\ rows[t].succ = NoRow /\ rows[u].succ = NoRow
    BY DEF Tips
<1>1. Shared \in (SUBSET Ids) \ {{}} /\ Shared \subseteq History(t)
      /\ Shared \subseteq History(u)
    BY DEF History, Superseded
<1>2. PICK a \in Shared : rows[a].succ \notin Shared
    BY <1>1 DEF HistoryIsForest
<1>3. rows[a].succ \in {t} \cup History(t) /\ rows[a].succ \in {u} \cup History(u)
    BY <1>0, <1>1, <1>2, HistoryHasNoOrphan
<1>4. t \notin History(u) /\ u \notin History(t)
    BY <1>0 DEF History, Superseded
<1> QED BY <1>2, <1>3, <1>4

LEMMA TrailFromForest ==
    ASSUME TypeOK, HistoryIsForest
    PROVE  TrailIsWhole
<1>0. IsFiniteSet(Ids)
    BY RowsAreFinite DEF NoRowIsNoId
<1>1. ASSUME NEW i \in Superseded
      PROVE  Cardinality({t \in Tips : i \in History(t)}) = 1
    <2>1. PICK t \in Tips : i \in History(t)
        BY EveryRowHasATip
    <2>2. {u \in Tips : i \in History(u)} = {t}
        BY <2>1, TipsAreApart
    <2> QED BY <2>2, FS_Singleton
<1>2. Superseded = UNION {History(t) : t \in Tips}
    <2>1. \A t : History(t) \subseteq Superseded
        BY DEF History
    <2> QED BY <2>1, EveryRowHasATip
<1>3. Statistics.active + Statistics.retired + Cardinality(Undeleted \ Active)
      = Cardinality(Tips)
    <2> DEFINE A == Active
               R == {i \in Ids : rows[i].st = "retired"} \ Superseded
               E == Undeleted \ Active
    <2>1. IsFiniteSet(A) /\ IsFiniteSet(R) /\ IsFiniteSet(E) /\ IsFiniteSet(A \cup E)
        <3>1. A \subseteq Ids /\ R \subseteq Ids /\ E \subseteq Ids /\ A \cup E \subseteq Ids
            BY DEF Active, Undeleted
        <3> HIDE DEF A, R, E
        <3> QED BY <1>0, <3>1, FS_Subset
    <2>2. A \cap E = {} /\ (A \cup E) \cap R = {}
        BY DEF Active, Undeleted
    <2>3. Tips = (A \cup E) \cup R
        <3>1. \A i \in Ids : rows[i].st \in {"free", "active", "retired"}
            BY DEF TypeOK, Row
        <3>2. \A i \in Undeleted : rows[i].succ = NoRow
            BY DEF Undeleted, HistoryIsForest
        <3>3. A \cup E = Undeleted
            BY DEF Active
        <3> HIDE DEF A, E
        <3> QED BY <3>1, <3>2, <3>3 DEF Tips, Undeleted, Superseded
    <2>4. Statistics.active = Cardinality(A) /\ Statistics.retired = Cardinality(R)
        BY DEF Statistics
    <2> HIDE DEF A, R, E
    <2>5. PICK a \in Nat : a = Cardinality(A)
        BY <2>1, FS_CardinalityType
    <2>6. PICK e \in Nat : e = Cardinality(E)
        BY <2>1, FS_CardinalityType
    <2>7. PICK r \in Nat : r = Cardinality(R)
        BY <2>1, FS_CardinalityType
    <2>8. Cardinality(A \cup E) = a + e
        <3>1. Cardinality(A \cup E) = Cardinality(A) + Cardinality(E) - Cardinality(A \cap E)
            BY <2>1, FS_Union
        <3>2. Cardinality(A \cap E) = 0
            BY <2>2, FS_EmptySet
        <3> QED BY <2>5, <2>6, <3>1, <3>2
    <2>9. Cardinality(Tips) = a + e + r
        <3>1. Cardinality((A \cup E) \cup R)
              = Cardinality(A \cup E) + Cardinality(R) - Cardinality((A \cup E) \cap R)
            BY <2>1, FS_Union
        <3>2. Cardinality((A \cup E) \cap R) = 0
            BY <2>2, FS_EmptySet
        <3> QED BY <2>3, <2>7, <2>8, <3>1, <3>2
    <2>10. Cardinality(Undeleted \ Active) = e
        BY <2>6 DEF E
    <2> QED BY <2>4, <2>5, <2>7, <2>9, <2>10
<1>4. Statistics.superseded = Cardinality(Superseded)
    BY DEF Statistics
<1> QED BY <1>1, <1>2, <1>3, <1>4 DEF TrailIsWhole

(* Nothing is lost and nothing is told twice: however updates, merges and  *)
(* forgets interleave, each superseded row is in the history of exactly    *)
(* one row that nothing replaced, and statistics counts the same rows      *)
(* (history and statistics in memory_repo.py).                             *)
THEOREM TrailWhole == Spec => []TrailIsWhole
BY TypeCorrect, HistoryForest, TrailFromForest, PTL

(***************************************************************************)
(* A link is set once, to a row stored in that step.                       *)
(***************************************************************************)
LEMMA LinksOnlyGrow ==
    ASSUME TypeOK, TypeOK', HistoryIsForest, [Next]_storeVars, NEW a \in Ids
    PROVE  \/ rows'[a].succ = rows[a].succ
           \/ /\ rows[a].succ = NoRow
              /\ rows'[a].succ \in Free
<1>0. rows \in [Ids -> Row] /\ \A i \in Undeleted : rows[i].succ = NoRow
    BY DEF TypeOK, HistoryIsForest, Undeleted
<1>1. CASE Keeping
    BY <1>1 DEF Keeping
<1>2. CASE Editing
    BY <1>2 DEF Editing
<1>3. CASE Replacing
    <2>1. PICK S \in SUBSET Undeleted, i \in Free, s \in Ids \cup {NoRow}, new \in Row :
             /\ s \in {i, NoRow} /\ StoredRow(new)
             /\ rows' = Replaced(S, s, i, new)
        BY <1>3 DEF Replacing
    <2>2. rows[i].succ = NoRow /\ i \in Ids
        BY DEF Free, HistoryIsForest
    <2>3. CASE a = i
        BY <2>1, <2>2, <2>3 DEF Replaced, StoredRow
    <2>4. CASE a # i /\ a \in S
        <3>1. rows'[a].succ = s
            BY <1>0, <2>1, <2>4 DEF Replaced, Retired, Row
        <3> QED BY <1>0, <2>1, <2>4, <3>1
    <2>5. CASE a # i /\ a \notin S
        BY <2>1, <2>5 DEF Replaced
    <2> QED BY <2>3, <2>4, <2>5
<1>4. CASE Deleting
    <2>1. PICK i \in Undeleted : rows' = [rows EXCEPT ![i] = Retired(@, NoRow)]
        BY <1>4 DEF Deleting
    <2>2. CASE a = i
        BY <1>0, <2>1, <2>2 DEF Retired, Row
    <2>3. CASE a # i
        BY <1>0, <2>1, <2>3
    <2> QED BY <2>2, <2>3
<1> QED BY <1>1, <1>2, <1>3, <1>4, StepWritesOrKeeps DEF Writing

(* The history of a stored row is settled when the row is stored: what get *)
(* reads in its second transaction is what its first would have read       *)
(* (get in service.py over history in memory_repo.py).                     *)
THEOREM HistoryStays == Spec => HistoryIsFixed
<1>1. TypeOK /\ TypeOK' /\ HistoryIsForest /\ [Next]_storeVars =>
          [\A i \in Ids : rows[i].st # "free" => History(i)' = History(i)]_storeVars
    <2> SUFFICES ASSUME TypeOK, TypeOK', HistoryIsForest, [Next]_storeVars,
                        NEW i \in Ids, rows[i].st # "free"
                 PROVE  History(i)' = History(i)
        OBVIOUS
    <2>0. /\ \A a \in Ids : rows[a].succ \in Ids \cup {NoRow}
          /\ \A a \in Superseded : rows[a].st # "free"
          /\ NoRow \notin Ids
        BY RowsAreFinite DEF TypeOK, Row, HistoryIsForest, Superseded, NoRowIsNoId
    <2>1. \A a \in Superseded : a \in Superseded' /\ rows'[a].succ = rows[a].succ
        BY LinksOnlyGrow DEF Superseded
    <2>2. \A a \in Ids : rows'[a].succ \in {i} \cup Superseded => rows'[a].succ = rows[a].succ
        BY <2>0, LinksOnlyGrow DEF Free
    <2>3. ASSUME NEW S \in Closed(i) PROVE S \in Closed(i)'
        <3>1. S \subseteq Superseded /\ S \in SUBSET Superseded'
            BY <2>1 DEF Closed
        <3>2. ASSUME NEW a \in Ids, rows'[a].succ \in {i} \cup S PROVE a \in S
            BY <2>2, <3>1, <3>2 DEF Closed, Ancestors
        <3> QED BY <3>1, <3>2 DEF Closed, Ancestors
    <2>4. ASSUME NEW S \in Closed(i)' PROVE S \cap Superseded \in Closed(i)
        <3>1. ASSUME NEW a \in Ids, rows[a].succ \in {i} \cup (S \cap Superseded)
              PROVE  a \in S \cap Superseded
            <4>1. a \in Superseded
                BY <2>0, <3>1 DEF Superseded
            <4>2. rows'[a].succ \in {i} \cup S
                BY <2>1, <3>1, <4>1
            <4> QED BY <4>1, <4>2 DEF Closed, Ancestors
        <3> QED BY <3>1 DEF Closed, Ancestors
    <2>5. Superseded \in Closed(i)
        <3>1. ASSUME NEW a \in Ids, rows[a].succ \in {i} \cup Superseded
              PROVE  a \in Superseded
            BY <2>0, <3>1 DEF Superseded
        <3> QED BY <3>1 DEF Closed, Ancestors
    <2>6. ASSUME NEW a \in History(i) PROVE a \in History(i)'
        BY <2>1, <2>4 DEF History
    <2>7. ASSUME NEW a \in History(i)' PROVE a \in History(i)
        BY <2>3, <2>5 DEF History
    <2> QED BY <2>6, <2>7
<1> QED BY <1>1, TypeCorrect, HistoryForest, PTL DEF Spec, HistoryIsFixed

(***************************************************************************)
(* A user with one request at a time.                                      *)
(***************************************************************************)
OneClient == \A c, d \in Clients : c = d

(* What the statements of remember rely on between one another: the copy   *)
(* of a duplicate is the row itself, and a row about to be created has an  *)
(* expiry if it is a todo, and no holder of its key that is unexpired at   *)
(* the start of the transaction.                                           *)
ReliesOn(s) ==
    /\ s.pc # "raised"
    /\ s.pc = "reaffirm" => s.id \in Undeleted /\ s.copy = rows[s.id]
    /\ s.pc = "create" => /\ ~BareTodo(s.req)
                          /\ ActiveByHash(s.req.bucket, s.req.hash, s.at) = {}

SerialInv == TodoHasTtl /\ \A c \in Clients : ReliesOn(tx[c])

(* A statement that ends elsewhere than before another statement of        *)
(* remember has nothing to show but the rows it leaves.                    *)
LEMMA SerialWrite ==
    ASSUME TypeOK, OneClient, NEW c \in Clients, NEW s, Enter(c, s),
           s.pc \notin {"raised", "reaffirm", "create"}, TodoHasTtl'
    PROVE  SerialInv'
<1>1. \A d \in Clients : tx'[d] = s
    BY DEF TypeOK, Enter, OneClient
<1>2. \A d \in Clients : ReliesOn(tx[d])'
    BY <1>1 DEF ReliesOn
<1> QED BY <1>2 DEF SerialInv

(* One that leaves the rows alone has nothing to show but what it relies   *)
(* on next.                                                                *)
LEMMA SerialRead ==
    ASSUME TypeOK, OneClient, SerialInv, NEW c \in Clients, NEW s, Enter(c, s),
           UNCHANGED rows, ReliesOn(s)
    PROVE  SerialInv'
<1>1. \A d \in Clients : tx'[d] = s
    BY DEF TypeOK, Enter, OneClient
<1>2. \A d \in Clients : ReliesOn(tx[d])'
    BY <1>1 DEF ReliesOn, ActiveByHash, Holders, Undeleted
<1>3. TodoHasTtl'
    BY DEF SerialInv, TodoHasTtl, Undeleted
<1> QED BY <1>2, <1>3 DEF SerialInv

(* An edit the todo rule admits leaves no durable todo. *)
LEMMA EditKeepsTtl ==
    ASSUME TypeOK, TodoHasTtl, NEW i \in Ids, NEW new \in Row, ~DurableTodo(new),
           rows' = [rows EXCEPT ![i] = new]
    PROVE  TodoHasTtl'
BY DEF TypeOK, TodoHasTtl, Undeleted

LEMMA ReplacementKeepsTtl ==
    ASSUME TypeOK, TodoHasTtl, NEW S, NEW s, NEW i \in Ids, NEW new, ~DurableTodo(new),
           rows' = Replaced(S, s, i, new)
    PROVE  TodoHasTtl'
<1>0. rows \in [Ids -> Row]
    BY DEF TypeOK
<1> SUFFICES ASSUME NEW j \in Ids, rows'[j].st = "active"
             PROVE  ~DurableTodo(rows'[j])
    BY DEF TodoHasTtl, Undeleted
<1>1. CASE j = i
    BY <1>1 DEF Replaced
<1>2. CASE j # i /\ j \in S
    <2>1. rows'[j] = Retired(rows[j], s)
        BY <1>2 DEF Replaced
    <2>2. rows'[j].st = "retired"
        BY <1>0, <2>1 DEF Retired, Row
    <2> QED BY <2>2
<1>3. CASE j # i /\ j \notin S
    <2>1. rows'[j] = rows[j]
        BY <1>3 DEF Replaced
    <2> QED BY <2>1 DEF TodoHasTtl, Undeleted
<1> QED BY <1>1, <1>2, <1>3

LEMMA CallKeepsSerial ==
    ASSUME TypeOK, OneClient, SerialInv, NEW c \in Clients, Call(c)
    PROVE  SerialInv'
<1>0. rows \in [Ids -> Row] /\ now \in Nat /\ TodoHasTtl
    BY DEF TypeOK, SerialInv
<1>1. ASSUME NEW b \in Buckets, NEW h \in Hashes, NEW p \in Prios,
             NEW k \in Optional(Kinds), NEW ttl \in Optional(Ttls),
             RememberCall(c, b, h, p, k, ttl)
      PROVE  SerialInv'
    <2>1. PICK s : Enter(c, s) /\ s.pc = "find"
        BY <1>1 DEF RememberCall
    <2> QED BY <1>1, <2>1, SerialRead DEF RememberCall, ReliesOn
<1>2. ASSUME NEW i \in Ids, NEW p \in Optional(Prios), NEW k \in Optional(Kinds),
             NEW ttl \in Optional(Ttls), NEW clear \in BOOLEAN,
             UpdateAttributes(c, i, p, k, ttl, clear)
      PROVE  SerialInv'
    <2> DEFINE e == [prio |-> p, kind |-> k,
                     exp |-> IF clear THEN {Never} ELSE Expiry(now, ttl)]
    <2>1. e \in Edit
        <3>1. p \in Optional(Nat)
            BY PriosAssumption DEF Optional
        <3>2. {Never} \in Optional(Nat) /\ Expiry(now, ttl) \in Optional(Nat)
            BY <1>0, ExpiryType DEF Optional, Never
        <3> QED BY <3>1, <3>2 DEF Edit
    <2>2. /\ ~DurableTodo(Edited(rows[i], e))
          /\ rows' = [rows EXCEPT ![i] = Edited(rows[i], e)]
          /\ Wrote(c, <<rows[i].bucket>>)
        BY <1>2 DEF UpdateAttributes
    <2> HIDE DEF e
    <2>3. Edited(rows[i], e) \in Row
        BY <1>0, <2>1, EditedType
    <2>4. TodoHasTtl'
        BY <1>0, <2>2, <2>3, EditKeepsTtl
    <2> QED BY <2>2, <2>4, SerialWrite DEF Wrote
<1>3. ASSUME NEW i \in Ids, Reconfirm(c, i)
      PROVE  SerialInv'
    <2>1. rows' = [rows EXCEPT ![i] = [rows[i] EXCEPT !.seen = now]]
        BY <1>3 DEF Reconfirm
    <2>2. [rows[i] EXCEPT !.seen = now] \in Row
        BY <1>0 DEF Row
    <2>3. ~DurableTodo([rows[i] EXCEPT !.seen = now])
        BY <1>0, <1>3 DEF TodoHasTtl, DurableTodo, Reconfirm, Row
    <2>4. TodoHasTtl'
        BY <1>0, <2>1, <2>2, <2>3, EditKeepsTtl
    <2> QED BY <1>3, <2>4, SerialWrite DEF Reconfirm, Wrote
<1>4. ASSUME NEW i \in Ids, ForgetRead(c, i)
      PROVE  SerialInv'
    <2>1. PICK s : Enter(c, s) /\ s.pc = "delete"
        BY <1>4 DEF ForgetRead
    <2> QED BY <1>4, <2>1, SerialRead DEF ForgetRead, ReliesOn
<1>5. ASSUME NEW i \in Ids, NEW h \in Hashes, NEW p \in Optional(Prios),
             NEW k \in Optional(Kinds), Supersede(c, i, h, p, k)
      PROVE  SerialInv'
    <2> DEFINE new == NewRow(rows[i].bucket, h, Or(p, rows[i].prio),
                             Or(k, rows[i].kind), Never, now)
    <2>1. ~DurableTodo(new)
        BY <1>5 DEF Supersede, Replaceable, DurableTodo, NewRow
    <2>2. PICK j \in Ids : rows' = Replaced({i}, j, j, new)
        BY <1>5 DEF Supersede
    <2> HIDE DEF new
    <2>3. TodoHasTtl'
        BY <1>0, <2>1, <2>2, ReplacementKeepsTtl
    <2> QED BY <1>5, <2>3, SerialWrite DEF Supersede, Wrote
<1>6. ASSUME NEW S \in SUBSET Ids, NEW b \in Buckets, NEW h \in Hashes, NEW p \in Prios,
             Merge(c, S, b, h, p)
      PROVE  SerialInv'
    <2> DEFINE new == NewRow(b, h, p, NoKind, Never, now)
    <2>1. ~DurableTodo(new)
        BY DEF DurableTodo, NewRow, NoKind, Todo
    <2>2. PICK j \in Ids : rows' = Replaced(S, j, j, new)
        BY <1>6 DEF Merge, MergeMemories
    <2> HIDE DEF new
    <2>3. TodoHasTtl'
        BY <1>0, <2>1, <2>2, ReplacementKeepsTtl
    <2> QED BY <1>6, <2>3, SerialWrite DEF Merge, Wrote
<1>7. ASSUME NEW from \in Projects, NEW to \in Projects, ReassignList(c, from, to)
      PROVE  SerialInv'
    <2>1. PICK s : Enter(c, s) /\ s.pc = "select"
        BY <1>7 DEF ReassignList
    <2> QED BY <1>7, <2>1, SerialRead DEF ReassignList, ReliesOn
<1> QED BY <1>1, <1>2, <1>3, <1>4, <1>5, <1>6, <1>7 DEF Call

LEMMA ContinueKeepsSerial ==
    ASSUME TypeOK, OneClient, SerialInv, NEW c \in Clients, Continue(c)
    PROVE  SerialInv'
<1>0. /\ rows \in [Ids -> Row] /\ now \in Nat /\ TodoHasTtl
      /\ tx[c] \in Calling /\ ReliesOn(tx[c])
    BY DEF TypeOK, SerialInv
<1> DEFINE t == tx[c]
<1>1. CASE RememberHit(c)
    <2>1. PICK i \in Found(t.req) :
             Enter(c, [pc |-> "reaffirm", req |-> t.req, at |-> now, id |-> i,
                       copy |-> rows[i]])
        BY <1>1 DEF RememberHit
    <2>2. i \in Undeleted
        BY DEF Found, ActiveByHash, Holders
    <2>3. ReliesOn([pc |-> "reaffirm", req |-> t.req, at |-> now, id |-> i,
                    copy |-> rows[i]])
        BY <2>2 DEF ReliesOn
    <2> QED BY <1>1, <2>1, <2>3, SerialRead DEF RememberHit
<1>2. CASE RememberMiss(c)
    <2>1. ~BareTodo(t.req) /\ ActiveByHash(t.req.bucket, t.req.hash, now) = {}
        BY <1>2 DEF RememberMiss, Found
    <2>2. ReliesOn([pc |-> "create", req |-> t.req, at |-> now])
        BY <2>1 DEF ReliesOn
    <2> QED BY <1>2, <2>2, SerialRead DEF RememberMiss
<1>3. CASE RememberRefused(c) \/ ReaffirmRefused(c) \/ ReassignCollides(c) \/ Raise(c)
    <2>1. ReliesOn([pc |-> "idle"])
        BY DEF ReliesOn
    <2> QED BY <1>3, <2>1, SerialRead
        DEF RememberRefused, ReaffirmRefused, ReassignCollides, Raise, Leave
<1>4. CASE EmbedOutsideSession(c) \/ ReassignSelect(c) \/ ReaffirmRetired(c)
    <2>1. PICK s : Enter(c, s) /\ s.pc \in {"find", "move", "wrote"}
        BY <1>4 DEF EmbedOutsideSession, ReassignSelect, ReaffirmRetired, Wrote
    <2>2. UNCHANGED rows
        BY <1>4 DEF EmbedOutsideSession, ReassignSelect, ReaffirmRetired
    <2> QED BY <2>1, <2>2, SerialRead DEF ReliesOn
<1>5. CASE RememberReaffirm(c)
    <2> DEFINE e == Reassertion(t.req, t.copy, t.at)
    <2>1. t.req \in Request /\ t.at \in Nat /\ t.id \in Ids /\ t.copy \in Row
        BY <1>0, <1>5, CallingFields DEF RememberReaffirm, At
    <2>2. e \in Edit
        BY <2>1, ReassertionType
    <2>3. t.copy = rows[t.id]
        BY <1>0, <1>5 DEF RememberReaffirm, At, ReliesOn
    <2>4. /\ ~DurableTodo(Edited(t.copy, e))
          /\ rows' = [rows EXCEPT ![t.id] = [Edited(rows[t.id], e) EXCEPT !.seen = t.at]]
          /\ Wrote(c, <<t.req.bucket>>)
        BY <1>5 DEF RememberReaffirm
    <2> HIDE DEF e
    <2>5. Edited(rows[t.id], e) \in Row
        BY <1>0, <2>1, <2>2, EditedType
    <2>6. PICK new : new = [Edited(rows[t.id], e) EXCEPT !.seen = t.at]
        OBVIOUS
    <2>7. new \in Row /\ ~DurableTodo(new)
        BY <2>1, <2>3, <2>4, <2>5, <2>6 DEF Row, DurableTodo
    <2>8. TodoHasTtl'
        BY <1>0, <2>1, <2>4, <2>6, <2>7, EditKeepsTtl
    <2> QED BY <2>4, <2>8, SerialWrite DEF Wrote
<1>6. CASE RememberCreate(c)
    <2> DEFINE q == t.req
               new == NewRow(q.bucket, q.hash, q.prio, Or(q.kind, NoKind),
                             Or(Expiry(t.at, q.ttl), Never), t.at)
               stale == Lapsed(q.bucket, q.hash, t.at)
    <2>1. q \in Request /\ t.at \in Nat
        BY <1>0, <1>6, CallingFields DEF RememberCreate, At
    <2>2. q.kind \in Optional(Kinds) /\ q.ttl \in Optional(Ttls)
        BY <2>1, RequestFields
    <2>3. ~BareTodo(q)
        BY <1>0, <1>6 DEF RememberCreate, At, ReliesOn
    <2>4. ~DurableTodo(new)
        <3>1. CASE q.ttl = {}
            <4>1. q.kind # {Todo}
                BY <2>3, <3>1 DEF BareTodo
            <4>2. Or(q.kind, NoKind) # Todo
                BY <2>2, <4>1 DEF Or, Optional, NoKind, Todo
            <4> QED BY <4>2 DEF DurableTodo, NewRow
        <3>2. CASE q.ttl # {}
            <4>1. PICK n \in Ttls : q.ttl = {n}
                BY <2>2, <3>2 DEF Optional
            <4>2. n \in Nat \ {0}
                BY TtlsAssumption
            <4>3. Or(q.ttl, 0) = n
                BY <4>1 DEF Or
            <4>4. Expiry(t.at, q.ttl) = {t.at + n}
                BY <3>2, <4>3 DEF Expiry
            <4>5. PICK m : m = t.at + n
                OBVIOUS
            <4>6. Or(Expiry(t.at, q.ttl), Never) = m
                BY <4>4, <4>5 DEF Or
            <4>7. m # Never
                BY <2>1, <4>2, <4>5 DEF Never
            <4> QED BY <4>6, <4>7 DEF DurableTodo, NewRow
        <3> QED BY <3>1, <3>2
    <2>5. PICK i \in Ids : rows' = Replaced(stale, NoRow, i, new)
        BY <1>6 DEF RememberCreate
    <2>6. Wrote(c, <<q.bucket>>)
        BY <1>6 DEF RememberCreate
    <2> HIDE DEF new, stale, q
    <2>7. TodoHasTtl'
        BY <1>0, <2>4, <2>5, ReplacementKeepsTtl
    <2> QED BY <2>6, <2>7, SerialWrite DEF Wrote
<1>7. CASE RememberCollides(c)
    <2>1. ActiveByHash(t.req.bucket, t.req.hash, t.at) = {}
        BY <1>0, <1>7 DEF RememberCollides, At, ReliesOn
    <2>2. Holders(t.req.bucket, t.req.hash) \subseteq Lapsed(t.req.bucket, t.req.hash, t.at)
        BY <2>1 DEF Lapsed
    <2> QED BY <1>7, <2>2 DEF RememberCollides
<1>8. CASE ForgetDelete(c)
    <2>1. PICK s : Enter(c, s) /\ s.pc \in {"idle", "wrote"}
        BY <1>8 DEF ForgetDelete, Leave, Wrote
    <2>2. CASE t.id \in Undeleted
        <3>1. rows' = [rows EXCEPT ![t.id] = Retired(rows[t.id], NoRow)] /\ t.id \in Ids
            BY <1>8, <2>2 DEF ForgetDelete, Undeleted
        <3>2. rows'[t.id].st = "retired" /\ \A i \in Ids \ {t.id} : rows'[i] = rows[i]
            BY <1>0, <3>1 DEF Retired, Row
        <3>3. TodoHasTtl'
            BY <1>0, <3>2 DEF TodoHasTtl, Undeleted
        <3> QED BY <2>1, <3>3, SerialWrite
    <2>3. CASE t.id \notin Undeleted
        <3>1. UNCHANGED rows
            BY <1>8, <2>3 DEF ForgetDelete
        <3> QED BY <2>1, <3>1, SerialRead DEF ReliesOn
    <2> QED BY <2>2, <2>3
<1>9. CASE ReassignMove(c)
    <2> DEFINE moved == t.moving \cap InProject(t.from)
    <2>1. rows' = [i \in Ids |-> IF i \in moved THEN [rows[i] EXCEPT !.bucket = t.to]
                                 ELSE rows[i]]
        BY <1>9 DEF ReassignMove
    <2>2. PICK s : Enter(c, s) /\ s.pc \in {"idle", "wrote"}
        BY <1>9 DEF ReassignMove, Leave, Wrote
    <2> HIDE DEF moved
    <2>3. \A i \in Ids : /\ rows'[i].st = rows[i].st /\ rows'[i].kind = rows[i].kind
                         /\ rows'[i].exp = rows[i].exp
        BY <1>0, <2>1 DEF Row
    <2>4. TodoHasTtl'
        BY <1>0, <2>3 DEF TodoHasTtl, Undeleted, DurableTodo
    <2> QED BY <2>2, <2>4, SerialWrite
<1> QED BY <1>1, <1>2, <1>3, <1>4, <1>5, <1>6, <1>7, <1>8, <1>9 DEF Continue

LEMMA NextKeepsSerial ==
    ASSUME TypeOK, OneClient, SerialInv, [Next]_storeVars
    PROVE  SerialInv'
<1>1. ASSUME NEW c \in Clients, Call(c) \/ Continue(c) PROVE SerialInv'
    BY <1>1, CallKeepsSerial, ContinueKeepsSerial
<1>2. ASSUME NEW c \in Clients, Announced(c) PROVE SerialInv'
    <2>1. ReliesOn([pc |-> "idle"])
        BY DEF ReliesOn
    <2> QED BY <1>2, <2>1, SerialRead DEF Announced, Leave
<1>3. CASE Tick \/ Finished \/ UNCHANGED storeVars
    <2>1. UNCHANGED <<rows, tx>>
        BY <1>3 DEF Tick, Finished, storeVars
    <2> QED BY <2>1 DEF SerialInv, TodoHasTtl, ReliesOn, ActiveByHash, Holders, Undeleted
<1> QED BY <1>1, <1>2, <1>3 DEF Next

LEMMA InitSerial == Init => SerialInv
BY DEF Init, SerialInv, TodoHasTtl, Undeleted, ReliesOn

(* While a user has one request at a time, no stored todo is without       *)
(* expiry: the todo rule of remember, update and supersede leaves no way   *)
(* around it (_remember_in_session in service.py; update_attributes and    *)
(* supersede in memory_repo.py).                                           *)
THEOREM TodosExpire ==
    ASSUME OneClient PROVE Spec => []TodoHasTtl
<1>1. TypeOK /\ SerialInv /\ [Next]_storeVars => SerialInv'
    BY NextKeepsSerial
<1>2. SerialInv => TodoHasTtl
    BY DEF SerialInv
<1> QED BY <1>1, <1>2, InitSerial, TypeCorrect, PTL DEF Spec

(* While a user has one request at a time, remember never ends in an       *)
(* IntegrityError: an expired holder of the key has left the index before  *)
(* the insert (create_memory in memory_repo.py).                           *)
THEOREM NeverRaises ==
    ASSUME OneClient PROVE Spec => []RememberNeverRaises
<1>1. TypeOK /\ SerialInv /\ [Next]_storeVars => SerialInv'
    BY NextKeepsSerial
<1>2. SerialInv => RememberNeverRaises
    BY DEF SerialInv, RememberNeverRaises, ReliesOn, At
<1> QED BY <1>1, <1>2, InitSerial, TypeCorrect, PTL DEF Spec
=============================================================================
