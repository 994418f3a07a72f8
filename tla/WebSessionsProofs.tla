------------------------- MODULE WebSessionsProofs --------------------------
(***************************************************************************)
(* Theorems about WebSessions, for any windows, any number of concurrent   *)
(* requests and logins, and any loss and replay; and what more holds, in   *)
(* Services, of a browser that sends one request at a time.                *)
(***************************************************************************)
EXTENDS Services, DataProofs, TLAPS

(***************************************************************************)
(* The inductive invariant: besides the types and the property itself,     *)
(* every token in use belongs to a stored session, and so does the root of *)
(* every session.                                                          *)
(***************************************************************************)
Holding(q) ==
    /\ q.pc \in {"find", "grace", "rotate", "burn", "revoke_chain"} => q.token \in Stored
    /\ q.pc = "grace" => q.row.rotated \in Stored
    /\ q.pc = "served" => q.id \in Stored /\ q.new \in Stored \cup {None}
    /\ q.pc \in {"served", "rejected"} => q.kept.token \in Stored

TokensStored ==
    /\ cookie \in Stored \cup {None}
    /\ \A r \in Requests : Holding(req[r])
    /\ \A i \in Stored : sess[i].root \in Stored

SessionInv == TypeOK /\ TokensStored /\ ChainIsLine

LEMMA IdsArePositive == Ids \subseteq Nat /\ None \notin Ids
BY DEF Ids, None

LEMMA LowerType ==
    ASSUME NEW a \in Nat, NEW b \in Nat
    PROVE  Lower(a, b) \in Nat /\ Lower(a, b) <= b
BY DEF Lower

(* A session made by a login or a rotation is a stored row, not rotated    *)
(* and not revoked, that does not outlive its chain.                       *)
LEMMA NewSessionType ==
    ASSUME NEW t \in Nat, NEW a \in Nat, NEW root \in Ids
    PROVE  /\ NewSession(t, a, root) \in Row
           /\ NewSession(t, a, root).st = "stored"
           /\ NewSession(t, a, root).rotated = None
           /\ NewSession(t, a, root).root = root
           /\ NewSession(t, a, root).absolute = a
           /\ NewSession(t, a, root).idle <= a
<1>1. t + Idle \in Nat
    BY WindowsAssumption
<1>2. Lower(t + Idle, a) \in Nat /\ Lower(t + Idle, a) <= a
    BY <1>1, LowerType
<1> QED BY <1>2 DEF NewSession, Row

LEMMA GoType ==
    ASSUME req \in [Requests -> Resolving], NEW r \in Requests,
           NEW state \in Resolving, Go(r, state)
    PROVE  /\ req' \in [Requests -> Resolving]
           /\ req'[r] = state
           /\ \A o \in Requests : o # r => req'[o] = req[o]
BY DEF Go

(* What a request holds at each of its steps.                              *)
LEMMA RequestShape ==
    ASSUME TypeOK, NEW r \in Requests
    PROVE  /\ On(r, "find") => req[r].op \in {"page", "logout"} /\ req[r].token \in Ids
                                /\ req[r].late \in BOOLEAN
           /\ On(r, "grace") => req[r].op \in {"page", "logout"} /\ req[r].token \in Ids
                                /\ req[r].late \in BOOLEAN
                                /\ req[r].row \in Row /\ req[r].at \in Nat
           /\ On(r, "rotate") => req[r].op \in {"page", "logout"} /\ req[r].token \in Ids
                                /\ req[r].late \in BOOLEAN /\ req[r].at \in Nat
           /\ On(r, "burn") => req[r].op \in {"page", "logout"} /\ req[r].token \in Ids
                                /\ req[r].late \in BOOLEAN /\ req[r].at \in Nat
           /\ On(r, "revoke_chain") => req[r].op \in {"page", "logout"}
                                /\ req[r].token \in Ids
                                /\ req[r].late \in BOOLEAN /\ req[r].at \in Nat
                                /\ req[r].chain \in SUBSET Ids
           /\ On(r, "served") => req[r].kept \in Sent /\ req[r].id \in Ids
                                /\ req[r].new \in Ids \cup {None}
           /\ On(r, "rejected") => req[r].kept \in Sent
<1>1. req[r] \in Resolving
    BY DEF TypeOK
<1>2. CASE req[r] \in [pc : {"idle", "goodbye"}]
    BY <1>2 DEF On
<1>3. CASE req[r] \in [pc : {"find"}, op : {"page", "logout"}, token : Ids, late : BOOLEAN]
    BY <1>3 DEF On
<1>4. CASE req[r] \in [pc : {"grace"}, op : {"page", "logout"}, token : Ids,
                       late : BOOLEAN, row : Row, at : Nat]
    BY <1>4 DEF On
<1>5. CASE req[r] \in [pc : {"rotate", "burn"}, op : {"page", "logout"}, token : Ids,
                       late : BOOLEAN, at : Nat]
    BY <1>5 DEF On
<1>6. CASE req[r] \in [pc : {"revoke_chain"}, op : {"page", "logout"}, token : Ids,
                       late : BOOLEAN, at : Nat, chain : SUBSET Ids]
    BY <1>6 DEF On
<1>7. CASE req[r] \in [pc : {"served"}, kept : Sent, id : Ids, new : Ids \cup {None}]
    BY <1>7 DEF On
<1>8. CASE req[r] \in [pc : {"rejected"}, kept : Sent, at : Nat]
    BY <1>8 DEF On
<1> QED BY <1>1, <1>2, <1>3, <1>4, <1>5, <1>6, <1>7, <1>8 DEF Resolving

(* A step that touches no session keeps what concerns only sessions.       *)
LEMMA KeepSessions ==
    ASSUME UNCHANGED sess
    PROVE  Stored' = Stored /\ (ChainIsLine => ChainIsLine')
BY DEF Stored, ChainIsLine

(* A step of one request that stores no session.                           *)
LEMMA StepOfRequest ==
    ASSUME TypeOK, TokensStored, NEW r \in Requests, NEW state \in Resolving,
           Go(r, state), Holding(state), UNCHANGED sess,
           cookie' \in Stored \cup {None}
    PROVE  TokensStored' /\ req' \in [Requests -> Resolving]
<1>1. /\ req' \in [Requests -> Resolving]
      /\ req'[r] = state
      /\ \A o \in Requests : o # r => req'[o] = req[o]
    BY GoType DEF TypeOK
<1>2. Stored' = Stored
    BY KeepSessions
<1>3. \A o \in Requests : Holding(req[o])'
    BY <1>1, <1>2 DEF TokensStored, Holding
<1> QED BY <1>1, <1>2, <1>3 DEF TokensStored

(* A request that was sent is known by what was sent.                      *)
LEMMA KeptType ==
    ASSUME TypeOK, TokensStored, NEW r \in Requests,
           On(r, "find") \/ On(r, "grace") \/ On(r, "rotate") \/ On(r, "revoke_chain")
    PROVE  Kept(r) \in Sent /\ Kept(r).token \in Stored /\ req[r].token \in Stored
<1>1. req[r].token \in Stored
    BY DEF TokensStored, Holding, On
<1>2. /\ req[r].op \in {"page", "logout"}
      /\ req[r].token \in Ids
      /\ req[r].late \in BOOLEAN
    BY RequestShape
<1> QED BY <1>1, <1>2 DEF Kept, Sent

(* Serving and rejecting, on sessions that do not change in the step.      *)
LEMMA ServeKeeps ==
    ASSUME TypeOK, TokensStored, NEW r \in Requests,
           On(r, "find") \/ On(r, "grace"),
           NEW i \in Stored, NEW t \in Nat, Serve(r, i, t, None),
           UNCHANGED <<sess, now, cookie, closed>>
    PROVE  TypeOK' /\ TokensStored'
<1> DEFINE state == [pc |-> "served", kept |-> Kept(r), id |-> i, new |-> None]
<1>1. Kept(r) \in Sent /\ Kept(r).token \in Stored
    BY KeptType
<1>2. i \in Ids
    BY DEF Stored
<1>3. state \in Resolving
    BY <1>1, <1>2 DEF Resolving
<1>4. Holding(state)
    BY <1>1 DEF Holding
<1>5. Go(r, state)
    BY DEF Serve
<1>6. TokensStored' /\ req' \in [Requests -> Resolving]
    <2> HIDE DEF state
    <2>1. cookie' \in Stored \cup {None}
        BY DEF TokensStored
    <2> QED BY <1>3, <1>4, <1>5, <2>1, StepOfRequest
<1>7. lastUse' \in [Ids -> Nat]
    BY DEF Serve, TypeOK
<1> QED BY <1>6, <1>7 DEF TypeOK

LEMMA RejectKeeps ==
    ASSUME TypeOK, TokensStored, NEW r \in Requests, On(r, "find"),
           NEW t \in Nat, Reject(r, t), UNCHANGED <<sess, now, cookie, lastUse, closed>>
    PROVE  TypeOK' /\ TokensStored'
<1> DEFINE state == [pc |-> "rejected", kept |-> Kept(r), at |-> t]
<1>1. Kept(r) \in Sent /\ Kept(r).token \in Stored
    BY KeptType
<1>2. state \in Resolving
    BY <1>1 DEF Resolving
<1>3. Holding(state)
    BY <1>1 DEF Holding
<1>4. Go(r, state)
    BY DEF Reject
<1>5. TokensStored' /\ req' \in [Requests -> Resolving]
    <2> HIDE DEF state
    <2>1. cookie' \in Stored \cup {None}
        BY DEF TokensStored
    <2> QED BY <1>2, <1>3, <1>4, <2>1, StepOfRequest
<1> QED BY <1>5 DEF TypeOK

(***************************************************************************)
(* The steps that only read sessions.                                      *)
(***************************************************************************)
LEMMA SendKeeps ==
    ASSUME TypeOK, TokensStored, NEW r \in Requests, NEW token \in Ids,
           NEW op \in Operations, Send(r, token, op)
    PROVE  TypeOK' /\ TokensStored' /\ UNCHANGED sess
<1> DEFINE state == [pc |-> "find", op |-> op, token |-> token,
                     late |-> sess[token].root \in closed]
<1>1. token \in Stored
    BY DEF Send, TokensStored
<1>2. state \in Resolving
    BY OperationsAssumption DEF Resolving
<1>3. Holding(state)
    BY <1>1 DEF Holding
<1>4. Go(r, state) /\ UNCHANGED <<sess, now, cookie, lastUse, closed>>
    BY DEF Send
<1>5. TokensStored' /\ req' \in [Requests -> Resolving]
    <2> HIDE DEF state
    <2>1. cookie' \in Stored \cup {None}
        BY <1>4 DEF TokensStored
    <2> QED BY <1>2, <1>3, <1>4, <2>1, StepOfRequest
<1> QED BY <1>4, <1>5 DEF TypeOK

LEMMA FindRotatedKeeps ==
    ASSUME TypeOK, TokensStored, ChainIsLine, NEW r \in Requests, FindRotated(r)
    PROVE  TypeOK' /\ TokensStored' /\ UNCHANGED sess
<1> DEFINE row == sess[req[r].token]
           state == [pc |-> "grace", op |-> req[r].op, token |-> req[r].token,
                     late |-> req[r].late, row |-> row, at |-> now]
<1>1. On(r, "find") /\ row.rotated # None
      /\ Go(r, state) /\ UNCHANGED <<sess, now, cookie, lastUse, closed>>
    BY DEF FindRotated
<1>2. req[r].op \in {"page", "logout"} /\ req[r].token \in Ids /\ req[r].late \in BOOLEAN
    BY <1>1, RequestShape
<1>3. req[r].token \in Stored
    BY <1>1, KeptType
<1>4. row.rotated \in Stored
    BY <1>1, <1>3 DEF ChainIsLine
<1>5. row \in Row
    BY <1>2 DEF TypeOK
<1>6. now \in Nat
    BY DEF TypeOK
<1>7. state \in Resolving
    BY <1>2, <1>5, <1>6 DEF Resolving
<1>8. Holding(state)
    BY <1>3, <1>4 DEF Holding
<1>9. TokensStored' /\ req' \in [Requests -> Resolving]
    <2> HIDE DEF state
    <2>1. cookie' \in Stored \cup {None}
        BY <1>1 DEF TokensStored
    <2> QED BY <1>1, <1>7, <1>8, <2>1, StepOfRequest
<1> QED BY <1>1, <1>9 DEF TypeOK

LEMMA FindDueKeeps ==
    ASSUME TypeOK, TokensStored, NEW r \in Requests, FindDue(r)
    PROVE  TypeOK' /\ TokensStored' /\ UNCHANGED sess
<1> DEFINE state == [pc |-> "rotate", op |-> req[r].op, token |-> req[r].token,
                     late |-> req[r].late, at |-> now]
<1>1. On(r, "find") /\ Go(r, state) /\ UNCHANGED <<sess, now, cookie, lastUse, closed>>
    BY DEF FindDue
<1>2. req[r].op \in {"page", "logout"} /\ req[r].token \in Ids /\ req[r].late \in BOOLEAN
    BY <1>1, RequestShape
<1>3. req[r].token \in Stored
    BY <1>1, KeptType
<1>4. now \in Nat
    BY DEF TypeOK
<1>5. state \in Resolving
    BY <1>2, <1>4 DEF Resolving
<1>6. Holding(state)
    BY <1>3 DEF Holding
<1>7. TokensStored' /\ req' \in [Requests -> Resolving]
    <2> HIDE DEF state
    <2>1. cookie' \in Stored \cup {None}
        BY <1>1 DEF TokensStored
    <2> QED BY <1>1, <1>5, <1>6, <2>1, StepOfRequest
<1> QED BY <1>1, <1>7 DEF TypeOK

(* Both ways to decide that a chain must be revoked.                       *)
LEMMA BurnKeeps ==
    ASSUME TypeOK, TokensStored, NEW r \in Requests, DetectReuse(r) \/ LoseRotation(r)
    PROVE  TypeOK' /\ TokensStored' /\ UNCHANGED sess
<1> DEFINE state == [pc |-> "burn", op |-> req[r].op, token |-> req[r].token,
                     late |-> req[r].late, at |-> req[r].at]
<1>1. /\ On(r, "grace") \/ On(r, "rotate")
      /\ Go(r, state) /\ UNCHANGED <<sess, now, cookie, lastUse, closed>>
    BY DEF DetectReuse, LoseRotation, Burn
<1>2. req[r].op \in {"page", "logout"} /\ req[r].token \in Ids
      /\ req[r].late \in BOOLEAN /\ req[r].at \in Nat
    BY <1>1, RequestShape
<1>3. req[r].token \in Stored
    BY <1>1, KeptType
<1>4. state \in Resolving
    BY <1>2 DEF Resolving
<1>5. Holding(state)
    BY <1>3 DEF Holding
<1>6. TokensStored' /\ req' \in [Requests -> Resolving]
    <2> HIDE DEF state
    <2>1. cookie' \in Stored \cup {None}
        BY <1>1 DEF TokensStored
    <2> QED BY <1>1, <1>4, <1>5, <2>1, StepOfRequest
<1> QED BY <1>1, <1>6 DEF TypeOK

LEMMA SnapshotChainKeeps ==
    ASSUME TypeOK, TokensStored, NEW r \in Requests, SnapshotChain(r)
    PROVE  TypeOK' /\ TokensStored' /\ UNCHANGED sess
<1> DEFINE chain == Descendants(req[r].token)
           state == [pc |-> "revoke_chain", op |-> req[r].op, token |-> req[r].token,
                     late |-> req[r].late, at |-> req[r].at, chain |-> chain]
<1>1. On(r, "burn") /\ Go(r, state) /\ UNCHANGED <<sess, now, cookie, lastUse, closed>>
    BY DEF SnapshotChain
<1>2. req[r].op \in {"page", "logout"} /\ req[r].token \in Ids
      /\ req[r].late \in BOOLEAN /\ req[r].at \in Nat
    BY <1>1, RequestShape
<1>3. req[r].token \in Stored
    BY <1>1 DEF TokensStored, Holding, On
<1>4. chain \in SUBSET Ids
    BY DEF Descendants
<1>5. state \in Resolving
    <2> HIDE DEF chain
    <2> QED BY <1>2, <1>4 DEF Resolving
<1>6. Holding(state)
    BY <1>3 DEF Holding
<1>7. TokensStored' /\ req' \in [Requests -> Resolving]
    <2> HIDE DEF state
    <2>1. cookie' \in Stored \cup {None}
        BY <1>1 DEF TokensStored
    <2> QED BY <1>1, <1>5, <1>6, <2>1, StepOfRequest
<1> QED BY <1>1, <1>7 DEF TypeOK

(* The response reaches the browser, or does not.                          *)
LEMMA DeliverKeeps ==
    ASSUME TypeOK, TokensStored, NEW r \in Requests, Deliver(r) \/ Lose(r)
    PROVE  TypeOK' /\ TokensStored' /\ UNCHANGED sess
<1> DEFINE state == [pc |-> "idle"]
<1>1. Go(r, state) /\ UNCHANGED <<sess, now, lastUse, closed>>
    BY DEF Deliver, Lose
<1>2. cookie' \in Stored \cup {None}
    <2>1. CASE On(r, "served") /\ cookie' = CookieAfter(r)
        BY <2>1 DEF TokensStored, Holding, On, CookieAfter
    <2>2. CASE cookie' = None \/ UNCHANGED cookie
        BY <2>2 DEF TokensStored
    <2> QED BY <2>1, <2>2 DEF Deliver, Lose
<1>3. state \in Resolving
    BY DEF Resolving
<1>4. Holding(state)
    BY DEF Holding
<1>5. TokensStored' /\ req' \in [Requests -> Resolving]
    <2> HIDE DEF state
    <2> QED BY <1>1, <1>2, <1>3, <1>4, StepOfRequest
<1>6. cookie' \in Ids \cup {None}
    BY <1>2 DEF Stored
<1> QED BY <1>1, <1>5, <1>6 DEF TypeOK

(***************************************************************************)
(* The steps that write sessions.                                          *)
(***************************************************************************)
(* A step of one request after which no session is lost.                   *)
LEMMA StepThatWrites ==
    ASSUME TypeOK, TokensStored, NEW r \in Requests, NEW state \in Resolving,
           Go(r, state), Stored \subseteq Stored',
           Holding(req[r])', cookie' \in Stored' \cup {None},
           \A i \in Stored' : sess'[i].root \in Stored'
    PROVE  TokensStored' /\ req' \in [Requests -> Resolving]
<1>1. /\ req' \in [Requests -> Resolving]
      /\ \A o \in Requests : o # r => req'[o] = req[o]
    BY GoType DEF TypeOK
<1>2. \A o \in Requests : o # r => Holding(req[o])'
    BY <1>1 DEF TokensStored, Holding
<1> QED BY <1>1, <1>2 DEF TokensStored

(* Every column but revoked stays as it is.                                *)
OnlyRevokes ==
    \A i \in Ids :
        /\ sess'[i].st = sess[i].st /\ sess'[i].rotated = sess[i].rotated
        /\ sess'[i].root = sess[i].root
        /\ sess'[i].idle = sess[i].idle /\ sess'[i].absolute = sess[i].absolute
        /\ sess'[i].created = sess[i].created

LEMMA RevokingKeeps ==
    ASSUME OnlyRevokes
    PROVE  Stored' = Stored /\ (ChainIsLine => ChainIsLine')
<1>1. Stored' = Stored
    BY DEF OnlyRevokes, Stored
<1>2. Stored \subseteq Ids
    BY DEF Stored
<1>3. ASSUME ChainIsLine PROVE ChainIsLine'
    <2>1. ASSUME NEW i \in Stored, NEW j \in Stored, sess'[i].root = sess'[j].root
          PROVE  /\ sess'[i].rotated = sess'[j].rotated => i = j
                 /\ sess'[i].absolute = sess'[j].absolute
                 /\ sess'[i].idle <= sess'[i].absolute
        BY <1>2, <1>3, <2>1 DEF OnlyRevokes, ChainIsLine
    <2>2. ASSUME NEW i \in Stored, sess'[i].rotated # None
          PROVE  sess'[i].rotated \in Stored /\ sess'[sess'[i].rotated].root = sess'[i].root
        BY <1>2, <1>3, <2>2 DEF OnlyRevokes, ChainIsLine
    <2> QED BY <1>1, <2>1, <2>2 DEF ChainIsLine
<1> QED BY <1>1, <1>3

LEMMA LogoutKeeps ==
    ASSUME SessionInv, NEW r \in Requests, Logout(r)
    PROVE  SessionInv'
<1> USE DEF SessionInv
<1> DEFINE state == [pc |-> "goodbye"]
<1>1. /\ On(r, "served") /\ Go(r, state) /\ UNCHANGED <<now, cookie, lastUse>>
      /\ sess' = [sess EXCEPT ![req[r].id].revoked = TRUE]
      /\ closed' = closed \cup {sess[req[r].id].root}
    BY DEF Logout
<1>2. req[r].id \in Stored
    BY <1>1 DEF TokensStored, Holding, On
<1>3. sess' \in [Ids -> Row] /\ OnlyRevokes
    <2>1. req[r].id \in Ids
        BY <1>2 DEF Stored
    <2>2. sess' \in [Ids -> Row]
        BY <1>1, <2>1 DEF TypeOK, Row
    <2>3. OnlyRevokes
        BY <1>1, <2>1 DEF TypeOK, OnlyRevokes, Row
    <2> QED BY <2>2, <2>3
<1>4. Stored' = Stored /\ ChainIsLine'
    BY <1>3, RevokingKeeps
<1>5. \A i \in Stored' : sess'[i].root \in Stored'
    BY <1>3, <1>4 DEF TokensStored, OnlyRevokes, Stored
<1>6. TokensStored' /\ req' \in [Requests -> Resolving]
    <2>1. state \in Resolving
        BY DEF Resolving
    <2>2. req'[r] = state
        BY <1>1, <2>1, GoType DEF TypeOK
    <2>3. Holding(req[r])'
        BY <2>2 DEF Holding
    <2>4. cookie' \in Stored' \cup {None}
        BY <1>1, <1>4 DEF TokensStored
    <2> HIDE DEF state
    <2> QED BY <1>1, <1>4, <1>5, <2>1, <2>3, <2>4, StepThatWrites
<1>7. closed' \subseteq Ids
    BY <1>1, <1>2 DEF TypeOK, TokensStored, Stored
<1> QED BY <1>1, <1>3, <1>4, <1>6, <1>7 DEF TypeOK

LEMMA RevokeChainKeeps ==
    ASSUME SessionInv, NEW r \in Requests, RevokeChain(r)
    PROVE  SessionInv'
<1> USE DEF SessionInv
<1> DEFINE state == [pc |-> "rejected", kept |-> Kept(r), at |-> req[r].at]
<1>1. /\ On(r, "revoke_chain") /\ Go(r, state) /\ UNCHANGED <<now, cookie, lastUse>>
      /\ sess' = [i \in Ids |-> IF i \in req[r].chain
                                THEN [sess[i] EXCEPT !.revoked = TRUE] ELSE sess[i]]
      /\ closed' = closed \cup {sess[req[r].token].root}
    BY DEF RevokeChain, Reject
<1>2. Kept(r) \in Sent /\ Kept(r).token \in Stored /\ req[r].token \in Stored
    BY <1>1, KeptType
<1>3. sess' \in [Ids -> Row] /\ OnlyRevokes
    <2>1. ASSUME NEW i \in Ids
          PROVE  [sess[i] EXCEPT !.revoked = TRUE] \in Row
        BY DEF TypeOK, Row
    <2>2. sess' \in [Ids -> Row]
        BY <1>1, <2>1 DEF TypeOK
    <2>3. OnlyRevokes
        BY <1>1 DEF TypeOK, OnlyRevokes, Row
    <2> QED BY <2>2, <2>3
<1>4. Stored' = Stored /\ ChainIsLine'
    BY <1>3, RevokingKeeps
<1>5. \A i \in Stored' : sess'[i].root \in Stored'
    BY <1>3, <1>4 DEF TokensStored, OnlyRevokes, Stored
<1>6. TokensStored' /\ req' \in [Requests -> Resolving]
    <2>1. state \in Resolving
        <3>1. req[r].at \in Nat
            BY <1>1, RequestShape
        <3> QED BY <1>2, <3>1 DEF Resolving
    <2>2. req'[r] = state
        <3> HIDE DEF state
        <3> QED BY <1>1, <2>1, GoType DEF TypeOK
    <2>3. Holding(req[r])'
        BY <1>2, <1>4, <2>2 DEF Holding
    <2>4. cookie' \in Stored' \cup {None}
        BY <1>1, <1>4 DEF TokensStored
    <2> HIDE DEF state
    <2> QED BY <1>1, <1>4, <1>5, <2>1, <2>3, <2>4, StepThatWrites
<1>7. closed' \subseteq Ids
    BY <1>1, <1>2 DEF TypeOK, TokensStored, Stored
<1> QED BY <1>1, <1>3, <1>4, <1>6, <1>7 DEF TypeOK

LEMMA LoginKeeps ==
    ASSUME SessionInv, Login
    PROVE  SessionInv'
<1> USE DEF SessionInv
<1>1. PICK i \in Ids :
        /\ Fresh(i)
        /\ sess' = [sess EXCEPT ![i] = NewSession(now, now + Absolute, i)]
        /\ cookie' = i
        /\ lastUse' = [lastUse EXCEPT ![i] = now]
        /\ UNCHANGED <<now, req, closed>>
    BY DEF Login
<1> DEFINE new == NewSession(now, now + Absolute, i)
<1>2. now \in Nat /\ now + Absolute \in Nat
    BY WindowsAssumption DEF TypeOK
<1>3. /\ new \in Row /\ new.st = "stored" /\ new.rotated = None /\ new.root = i
      /\ new.absolute = now + Absolute /\ new.idle <= new.absolute
    BY <1>2, NewSessionType
<1> HIDE DEF new
<1>4. /\ sess' \in [Ids -> Row] /\ sess'[i] = new
      /\ \A j \in Ids : j # i => sess'[j] = sess[j]
    BY <1>1, <1>3 DEF TypeOK, new
<1>5. i \notin Stored /\ Stored' = Stored \cup {i}
    BY <1>1, <1>3, <1>4 DEF Fresh, Stored
<1>6. \A j \in Stored : j \in Ids /\ j # i /\ sess'[j] = sess[j]
    BY <1>4, <1>5 DEF Stored
<1>7. TypeOK'
    BY <1>1, <1>2, <1>4 DEF TypeOK
<1>8. TokensStored'
    <2>1. \A r \in Requests : Holding(req[r])'
        BY <1>1, <1>5 DEF TokensStored, Holding
    <2>2. \A j \in Stored' : sess'[j].root \in Stored'
        BY <1>3, <1>4, <1>5, <1>6 DEF TokensStored
    <2> QED BY <1>1, <1>5, <2>1, <2>2 DEF TokensStored
<1>9. ChainIsLine'
    <2>1. ASSUME NEW j \in Stored', NEW k \in Stored', sess'[j].root = sess'[k].root
          PROVE  /\ sess'[j].rotated = sess'[k].rotated => j = k
                 /\ sess'[j].absolute = sess'[k].absolute
                 /\ sess'[j].idle <= sess'[j].absolute
        <3>1. CASE j \in Stored /\ k \in Stored
            BY <1>6, <2>1, <3>1 DEF ChainIsLine
        <3>2. CASE j = i \/ k = i
            <4>1. j = k
                BY <1>3, <1>4, <1>5, <1>6, <2>1, <3>2 DEF TokensStored
            <4> QED BY <1>3, <1>4, <3>2, <4>1
        <3> QED BY <1>5, <3>1, <3>2
    <2>2. ASSUME NEW j \in Stored', sess'[j].rotated # None
          PROVE  sess'[j].rotated \in Stored' /\ sess'[sess'[j].rotated].root = sess'[j].root
        BY <1>3, <1>4, <1>5, <1>6, <2>2 DEF ChainIsLine
    <2> QED BY <2>1, <2>2 DEF ChainIsLine
<1> QED BY <1>7, <1>8, <1>9

(* The compare-and-set: the session that is rotated was the chain's last.  *)
LEMMA RotateKeeps ==
    ASSUME SessionInv, NEW r \in Requests, Rotate(r)
    PROVE  SessionInv'
<1> USE DEF SessionInv
<1> DEFINE old == req[r].token
<1>1. PICK i \in Ids :
        /\ Fresh(i)
        /\ sess' = [sess EXCEPT ![old].rotated = i,
                                ![i] = NewSession(req[r].at, sess[old].absolute,
                                                  sess[old].root)]
        /\ Serve(r, i, req[r].at, i)
    BY DEF Rotate
<1>2. On(r, "rotate") /\ Rotatable(old) /\ UNCHANGED <<now, cookie, closed>>
    BY DEF Rotate
<1> DEFINE new == NewSession(req[r].at, sess[old].absolute, sess[old].root)
           state == [pc |-> "served", kept |-> Kept(r), id |-> i, new |-> i]
<1>3. Kept(r) \in Sent /\ Kept(r).token \in Stored /\ old \in Stored
    BY <1>2, KeptType
<1>4. old \in Ids /\ req[r].at \in Nat
    BY <1>2, RequestShape
<1>5. sess[old] \in Row /\ sess[old].absolute \in Nat
    BY <1>4 DEF TypeOK, Row
<1>6. sess[old].root \in Stored /\ sess[old].root \in Ids
    BY <1>3 DEF TokensStored, Stored
<1>7. /\ new \in Row /\ new.st = "stored" /\ new.rotated = None
      /\ new.root = sess[old].root
      /\ new.absolute = sess[old].absolute /\ new.idle <= sess[old].absolute
    BY <1>4, <1>5, <1>6, NewSessionType
<1>8. i \notin Stored /\ i # old /\ i # None
    BY <1>1, <1>3, IdsArePositive DEF Fresh
<1>9. /\ sess'[i] = new
      /\ sess'[old] = [sess[old] EXCEPT !.rotated = i]
      /\ \A j \in Ids : j # i /\ j # old => sess'[j] = sess[j]
    <2> HIDE DEF old
    <2> QED BY <1>1, <1>4, <1>8 DEF TypeOK
<1>10. /\ sess'[old] \in Row /\ sess'[old].st = "stored" /\ sess'[old].rotated = i
       /\ sess'[old].root = sess[old].root
       /\ sess'[old].absolute = sess[old].absolute /\ sess'[old].idle = sess[old].idle
    <2>1. sess[old].st = "stored"
        BY <1>3 DEF Stored
    <2> HIDE DEF old
    <2> QED BY <1>5, <1>9, <2>1 DEF Row
<1> HIDE DEF old, new
<1>11. sess' \in [Ids -> Row]
    <2>1. \A j \in Ids : sess'[j] \in Row
        BY <1>7, <1>9, <1>10 DEF TypeOK
    <2>2. sess' = [j \in Ids |-> sess'[j]]
        BY <1>1 DEF TypeOK
    <2> QED BY <2>1, <2>2
<1>12. Stored' = Stored \cup {i}
    BY <1>3, <1>7, <1>9, <1>10 DEF Stored
<1>13. \A j \in Stored : j \in Ids /\ j # i /\ (j # old => sess'[j] = sess[j])
    BY <1>8, <1>9 DEF Stored
<1>14. \A j \in Stored : sess'[j].root = sess[j].root /\ sess'[j].absolute = sess[j].absolute
                         /\ sess'[j].idle = sess[j].idle
    BY <1>10, <1>13
<1>15. TokensStored' /\ req' \in [Requests -> Resolving]
    <2>1. state \in Resolving
        BY <1>3 DEF Resolving
    <2>2. Go(r, state)
        BY <1>1 DEF Serve
    <2>3. req'[r] = state
        <3> HIDE DEF state
        <3> QED BY <2>1, <2>2, GoType DEF TypeOK
    <2>4. Holding(req[r])'
        BY <1>3, <1>12, <2>3 DEF Holding
    <2>5. cookie' \in Stored' \cup {None}
        BY <1>2, <1>12 DEF TokensStored
    <2>6. \A j \in Stored' : sess'[j].root \in Stored'
        BY <1>6, <1>7, <1>9, <1>12, <1>14 DEF TokensStored
    <2>7. Stored \subseteq Stored'
        BY <1>12
    <2> HIDE DEF state
    <2> QED BY <2>1, <2>2, <2>4, <2>5, <2>6, <2>7, StepThatWrites
<1>16. ChainIsLine'
    <2>1. ASSUME NEW j \in Stored', NEW k \in Stored', sess'[j].root = sess'[k].root
          PROVE  /\ sess'[j].rotated = sess'[k].rotated => j = k
                 /\ sess'[j].absolute = sess'[k].absolute
                 /\ sess'[j].idle <= sess'[j].absolute
        <3>1. CASE j \in Stored /\ k \in Stored
            <4>1. sess[j].root = sess[k].root
                BY <1>14, <2>1, <3>1
            <4>2. CASE j # old /\ k # old
                BY <1>13, <2>1, <3>1, <4>1, <4>2 DEF ChainIsLine
            <4>3. CASE j = old /\ k # old
                <5>1. sess'[k].rotated = sess[k].rotated
                    BY <1>13, <3>1, <4>3
                <5>2. sess[k].rotated # i
                    BY <1>8, <3>1 DEF ChainIsLine
                <5> QED BY <1>10, <1>14, <3>1, <4>1, <4>3, <5>1, <5>2 DEF ChainIsLine
            <4>4. CASE j # old /\ k = old
                <5>1. sess'[j].rotated = sess[j].rotated
                    BY <1>13, <3>1, <4>4
                <5>2. sess[j].rotated # i
                    BY <1>8, <3>1 DEF ChainIsLine
                <5> QED BY <1>10, <1>14, <3>1, <4>1, <4>4, <5>1, <5>2 DEF ChainIsLine
            <4>5. CASE j = old /\ k = old
                BY <1>14, <3>1, <4>1, <4>5 DEF ChainIsLine
            <4> QED BY <4>2, <4>3, <4>4, <4>5
        <3>2. CASE j = i /\ k = i
            BY <1>7, <1>9, <3>2
        <3>3. CASE j = i /\ k \in Stored
            <4>1. sess[k].root = sess[old].root
                BY <1>7, <1>9, <1>14, <2>1, <3>3
            <4>2. sess'[k].rotated # None
                BY <1>2, <1>3, <1>8, <1>10, <1>13, <3>3, <4>1 DEF ChainIsLine, Rotatable, old
            <4>3. sess[k].absolute = sess[old].absolute
                BY <1>3, <3>3, <4>1 DEF ChainIsLine
            <4> QED BY <1>7, <1>9, <1>14, <3>3, <4>2, <4>3
        <3>4. CASE j \in Stored /\ k = i
            <4>1. sess[j].root = sess[old].root
                BY <1>7, <1>9, <1>14, <2>1, <3>4
            <4>2. sess'[j].rotated # None
                BY <1>2, <1>3, <1>8, <1>10, <1>13, <3>4, <4>1 DEF ChainIsLine, Rotatable, old
            <4>3. sess[j].absolute = sess[old].absolute /\ sess[j].idle <= sess[j].absolute
                BY <1>3, <3>4, <4>1 DEF ChainIsLine
            <4> QED BY <1>7, <1>9, <1>14, <3>4, <4>2, <4>3
        <3> QED BY <1>12, <3>1, <3>2, <3>3, <3>4
    <2>2. ASSUME NEW j \in Stored', sess'[j].rotated # None
          PROVE  sess'[j].rotated \in Stored' /\ sess'[sess'[j].rotated].root = sess'[j].root
        <3>1. CASE j = old
            BY <1>7, <1>9, <1>10, <1>12, <3>1
        <3>2. CASE j \in Stored /\ j # old
            <4>1. sess'[j] = sess[j]
                BY <1>13, <3>2
            <4>2. sess[j].rotated \in Stored /\ sess[sess[j].rotated].root = sess[j].root
                BY <2>2, <3>2, <4>1 DEF ChainIsLine
            <4> QED BY <1>12, <1>14, <4>1, <4>2
        <3> QED BY <1>7, <1>9, <1>12, <2>2, <3>1, <3>2
    <2> QED BY <2>1, <2>2 DEF ChainIsLine
<1>17. lastUse' \in [Ids -> Nat]
    BY <1>1, <1>4 DEF Serve, TypeOK
<1> QED BY <1>2, <1>11, <1>15, <1>16, <1>17 DEF TypeOK

(* Every step of a request keeps the invariant.                            *)
LEMMA ResolveKeeps ==
    ASSUME SessionInv, NEW r \in Requests, Resolve(r)
    PROVE  SessionInv'
<1> USE DEF SessionInv
<1>1. CASE FindRotated(r)
    BY <1>1, FindRotatedKeeps, KeepSessions
<1>2. CASE FindDead(r)
    <2>1. now \in Nat
        BY DEF TypeOK
    <2>2. /\ On(r, "find") /\ Reject(r, now)
          /\ UNCHANGED <<sess, now, cookie, lastUse, closed>>
        BY <1>2 DEF FindDead
    <2> QED BY <2>1, <2>2, RejectKeeps, KeepSessions
<1>3. CASE FindYoung(r)
    <2>1. now \in Nat
        BY DEF TypeOK
    <2>2. /\ On(r, "find") /\ Serve(r, req[r].token, now, None)
          /\ UNCHANGED <<sess, now, cookie, closed>>
        BY <1>3 DEF FindYoung
    <2>3. req[r].token \in Stored
        BY <2>2, KeptType
    <2> QED BY <2>1, <2>2, <2>3, ServeKeeps, KeepSessions
<1>4. CASE FindDue(r)
    BY <1>4, FindDueKeeps, KeepSessions
<1>5. CASE ServeOnSuccessor(r)
    <2>1. /\ On(r, "grace") /\ Serve(r, req[r].row.rotated, req[r].at, None)
          /\ UNCHANGED <<sess, now, cookie, closed>>
        BY <1>5 DEF ServeOnSuccessor
    <2>2. req[r].row.rotated \in Stored
        BY <2>1 DEF TokensStored, Holding, On
    <2>3. req[r].at \in Nat
        BY <2>1, RequestShape
    <2> QED BY <2>1, <2>2, <2>3, ServeKeeps, KeepSessions
<1>6. CASE DetectReuse(r) \/ LoseRotation(r)
    BY <1>6, BurnKeeps, KeepSessions
<1>7. CASE Rotate(r)
    BY <1>7, RotateKeeps
<1>8. CASE SnapshotChain(r)
    BY <1>8, SnapshotChainKeeps, KeepSessions
<1>9. CASE RevokeChain(r)
    BY <1>9, RevokeChainKeeps
<1> QED BY <1>1, <1>2, <1>3, <1>4, <1>5, <1>6, <1>7, <1>8, <1>9 DEF Resolve

(* The first step: nothing is stored, and no request is in progress.       *)
LEMMA InitSessions ==
    ASSUME Init
    PROVE  SessionInv
<1>1. TypeOK
    <2>1. sess \in [Ids -> Row]
        BY DEF Init, Row
    <2>2. req \in [Requests -> Resolving]
        BY DEF Init, Resolving
    <2> QED BY <2>1, <2>2 DEF Init, TypeOK
<1>2. Stored = {}
    BY DEF Init, Stored
<1>3. TokensStored
    BY <1>2 DEF Init, TokensStored, Holding
<1>4. ChainIsLine
    BY <1>2 DEF ChainIsLine
<1> QED BY <1>1, <1>3, <1>4 DEF SessionInv

(* No step of the service breaks it.                                       *)
LEMMA NextSessions ==
    ASSUME SessionInv, [Next]_vars
    PROVE  SessionInv'
<1> USE DEF SessionInv
<1>1. CASE Login
    BY <1>1, LoginKeeps
<1>2. CASE Tick
    <2>1. now' \in Nat /\ UNCHANGED <<sess, cookie, req, lastUse, closed>>
        BY <1>2 DEF Tick, TypeOK
    <2>2. TypeOK' /\ TokensStored'
        BY <2>1, KeepSessions DEF TypeOK, TokensStored, Holding
    <2> QED BY <2>1, <2>2, KeepSessions
<1>3. CASE UNCHANGED vars
    BY <1>3, KeepSessions DEF vars, TypeOK, TokensStored, Holding
<1>4. CASE \E r \in Requests :
              \/ \E token \in Ids, op \in Operations : Send(r, token, op)
              \/ Resolve(r) \/ Logout(r) \/ Deliver(r) \/ Lose(r)
    <2>1. PICK r \in Requests :
              \/ \E token \in Ids, op \in Operations : Send(r, token, op)
              \/ Resolve(r) \/ Logout(r) \/ Deliver(r) \/ Lose(r)
        BY <1>4
    <2>2. CASE \E token \in Ids, op \in Operations : Send(r, token, op)
        BY <2>2, SendKeeps, KeepSessions
    <2>3. CASE Resolve(r)
        BY <2>3, ResolveKeeps
    <2>4. CASE Logout(r)
        BY <2>4, LogoutKeeps
    <2>5. CASE Deliver(r) \/ Lose(r)
        BY <2>5, DeliverKeeps, KeepSessions
    <2> QED BY <2>1, <2>2, <2>3, <2>4, <2>5
<1> QED BY <1>1, <1>2, <1>3, <1>4 DEF Next, Finished

(* The inductive invariant holds in every state of the service: every      *)
(* token a request acts on is that of a stored session, and rotation       *)
(* never links to a session that does not exist.                           *)
THEOREM SessionInvariant == Spec => []SessionInv
<1>1. SessionInv /\ [Next]_vars => SessionInv'
    BY NextSessions
<1> QED BY <1>1, InitSessions, PTL DEF Spec

(* Rows, cookie and requests in progress keep their types.                 *)
THEOREM TypeCorrect == Spec => []TypeOK
BY SessionInvariant, PTL DEF SessionInv

(* However many requests race to rotate, a chain keeps exactly one session *)
(* that was not rotated, and no session outlives the login's absolute      *)
(* expiry.                                                                 *)
THEOREM ChainLine == Spec => []ChainIsLine
BY SessionInvariant, PTL DEF SessionInv

(***************************************************************************)
(* A browser that sends one request at a time.  Beside SessionInv: the     *)
(* rotations of a chain are Threshold apart, its one end knows whether the *)
(* chain was closed and when it was used last, and the request in progress *)
(* acts on what is still so.                                               *)
(***************************************************************************)
IsLive(i)       == sess[i].rotated = None
SameChain(i, j) == sess[i].root = sess[j].root

IdleKept == \A i \in Stored : sess[i].idle = Lower(sess[i].created + Idle, sess[i].absolute)
RootsAreOwn == \A i \in Stored : SameChain(sess[i].root, i)
RotationsApart ==
    \A i \in Stored :
        /\ sess[i].created <= now
        /\ ~IsLive(i) => sess[sess[i].rotated].created >= sess[i].created + Threshold
ClosedIsRevoked ==
    \A i \in Stored :
        /\ sess[i].revoked => sess[i].root \in closed
        /\ IsLive(i) /\ sess[i].root \in closed => sess[i].revoked
UsedOnEnd ==
    \A i \in Stored : IsLive(i) => lastUse[sess[i].root] < sess[i].created + Threshold

Refusable(token, at) ==
    LET root == sess[token].root
    IN \/ root \in closed
       \/ at >= sess[root].absolute
       \/ at - lastUse[root] > Idle - Threshold
RotatedBy(at) == \A i \in Stored : ~IsLive(i) => sess[sess[i].rotated].created <= at
IsChain(chain, token) ==
    /\ \A i \in chain : i \in Stored /\ SameChain(i, token)
    /\ \A i \in Stored : SameChain(i, token) /\ IsLive(i) => i \in chain

Acting(q) ==
    /\ q.pc \in {"find", "grace", "rotate", "burn", "revoke_chain"} /\ q.late
         => sess[q.token].root \in closed
    /\ q.pc \in {"grace", "rotate"} => q.at <= now /\ RotatedBy(q.at)
    /\ q.pc = "grace" => ~IsLive(q.token) /\ q.row.rotated = sess[q.token].rotated
    /\ q.pc = "rotate" => q.at >= sess[q.token].created + Threshold
    /\ q.pc = "revoke_chain" => IsChain(q.chain, q.token)
    /\ q.pc = "served" => ~q.kept.late /\ IsLive(q.id) /\ SameChain(q.id, q.kept.token)
    /\ q.pc = "rejected" => Refusable(q.kept.token, q.at)

ChainsInv ==
    IdleKept /\ RootsAreOwn /\ RotationsApart /\ ClosedIsRevoked /\ UsedOnEnd
        /\ closed \subseteq Stored

AloneInv ==
    /\ SessionInv /\ ChainsInv /\ AtMostOne(Busy)
    /\ \A r \in Requests : Acting(req[r])

(* What the columns of a stored session hold.                              *)
LEMMA StoredRow ==
    ASSUME TypeOK, NEW i \in Stored
    PROVE  /\ i \in Ids /\ sess[i].created \in Nat /\ sess[i].absolute \in Nat
           /\ sess[i].idle \in Nat /\ sess[i].revoked \in BOOLEAN
           /\ sess[i].st = "stored"
BY DEF Stored, TypeOK, Row

LEMMA RootRow ==
    ASSUME TypeOK, TokensStored, NEW i \in Stored
    PROVE  /\ sess[i].root \in Stored /\ sess[i].root \in Ids
           /\ lastUse[sess[i].root] \in Nat
BY DEF Stored, TypeOK, TokensStored

LEMMA OneLive ==
    ASSUME SessionInv, NEW i \in Stored, NEW j \in Stored, SameChain(i, j),
           IsLive(i), IsLive(j)
    PROVE  i = j
BY DEF SessionInv, ChainIsLine, SameChain, IsLive

LEMMA SuccessorIn ==
    ASSUME SessionInv, NEW i \in Stored, ~IsLive(i)
    PROVE  sess[i].rotated \in Stored /\ SameChain(sess[i].rotated, i)
BY DEF SessionInv, ChainIsLine, SameChain, IsLive

(* Nobody else has a request in progress.                                  *)
LEMMA OthersIdle ==
    ASSUME AtMostOne(Busy), NEW r \in Requests, ~On(r, "idle")
    PROVE  \A o \in Requests : o # r => req[o].pc = "idle"
BY DEF AtMostOne, Busy, On

(* What is reached from a session by rotations: its chain, up to the live  *)
(* end.  In a set closed under rotation, the youngest session of the chain *)
(* can have no successor.                                                  *)
LEMMA DescendantsAreChain ==
    ASSUME SessionInv, RotationsApart, NEW i \in Stored
    PROVE  IsChain(Descendants(i), i)
<1> USE DEF SessionInv
<1>1. ASSUME NEW j \in Descendants(i) PROVE j \in Stored /\ SameChain(j, i)
    <2> DEFINE S == {k \in Stored : SameChain(k, i)}
    <2>1. S \in SUBSET Ids /\ i \in S
        BY DEF Stored, SameChain
    <2>2. ClosedUnderRotation(S)
        BY DEF ChainIsLine, SameChain, ClosedUnderRotation
    <2>3. j \in S
        <3> HIDE DEF S
        <3> QED BY <1>1, <2>1, <2>2 DEF Descendants
    <2> QED BY <2>3
<1>2. ASSUME NEW e \in Stored, SameChain(e, i), IsLive(e) PROVE e \in Descendants(i)
    <2>1. SUFFICES ASSUME NEW S \in SUBSET Ids, i \in S, ClosedUnderRotation(S)
                   PROVE  e \in S
        BY StoredRow DEF Descendants
    <2> DEFINE T == {j \in S : j \in Stored /\ SameChain(j, i)}
               D == {now - sess[j].created : j \in T}
    <2>2. now \in Nat
        BY DEF TypeOK
    <2>3. \A j \in T : sess[j].created \in Nat /\ sess[j].created <= now
        BY StoredRow DEF RotationsApart
    <2>4. D \in SUBSET Nat /\ i \in T
        BY <2>1, <2>2, <2>3 DEF SameChain
    <2>5. PICK n \in D : \A m \in D : n <= m
        <3> HIDE DEF T
        <3>1. D # {}
            BY <2>4
        <3> HIDE DEF D
        <3> QED BY <2>4, <3>1, LeastNatural
    <2>6. PICK j \in T : n = now - sess[j].created
        OBVIOUS
    <2>7. ASSUME ~IsLive(j) PROVE FALSE
        <3>1. PICK k : k = sess[j].rotated
            OBVIOUS
        <3>2. k \in Stored /\ SameChain(k, i)
            BY <2>6, <2>7, <3>1, SuccessorIn DEF SameChain
        <3>3. k \in S
            BY <2>1, <2>6, <2>7, <3>1 DEF ClosedUnderRotation, IsLive
        <3>4. k \in T
            BY <3>2, <3>3
        <3>5. sess[k].created >= sess[j].created + Threshold
            BY <2>6, <2>7, <3>1 DEF RotationsApart
        <3>6. now - sess[k].created \in D
            BY <3>4
        <3>7. n <= now - sess[k].created
            <4> HIDE DEF D
            <4> QED BY <2>5, <3>6
        <3>8. sess[j].created \in Nat /\ sess[k].created \in Nat
            BY <2>3, <2>6, <3>4
        <3> QED BY <2>2, <2>6, <3>5, <3>7, <3>8, WindowsAssumption
    <2>8. j = e
        BY <1>2, <2>6, <2>7, OneLive DEF SameChain
    <2> QED BY <2>6, <2>8
<1> QED BY <1>1, <1>2 DEF IsChain

(* A step that touches nothing but the request and the cookie.             *)
LEMMA QuietKeeps ==
    ASSUME SessionInv, ChainsInv, \A o \in Requests : Acting(req[o]),
           NEW r \in Requests, NEW state \in Resolving, Go(r, state), Acting(state),
           UNCHANGED <<sess, now, lastUse, closed>>
    PROVE  ChainsInv' /\ \A o \in Requests : Acting(req[o])'
<1>1. req'[r] = state /\ \A o \in Requests : o # r => req'[o] = req[o]
    BY GoType DEF SessionInv, TypeOK
<1>2. Stored' = Stored
    BY KeepSessions
<1>3. ChainsInv'
    BY <1>2 DEF ChainsInv, IdleKept, RootsAreOwn, RotationsApart, ClosedIsRevoked, UsedOnEnd,
                IsLive, SameChain
<1>4. ASSUME NEW q, Acting(q) PROVE Acting(q)'
    BY <1>2, <1>4 DEF Acting, IsLive, SameChain, Refusable, RotatedBy, IsChain
<1>5. ASSUME NEW o \in Requests PROVE Acting(req[o])'
    <2>1. Acting(req'[o])
        BY <1>1
    <2>2. PICK q : q = req'[o]
        OBVIOUS
    <2>3. Acting(q)'
        BY <1>4, <2>1, <2>2
    <2> QED BY <2>2, <2>3
<1> QED BY <1>3, <1>5

LEMMA SendActs ==
    ASSUME AloneInv, NEW r \in Requests, NEW token \in Ids, NEW op \in Operations,
           Send(r, token, op)
    PROVE  ChainsInv' /\ \A o \in Requests : Acting(req[o])'
<1> USE DEF AloneInv
<1> DEFINE state == [pc |-> "find", op |-> op, token |-> token,
                     late |-> sess[token].root \in closed]
<1>1. Go(r, state) /\ UNCHANGED <<sess, now, cookie, lastUse, closed>>
    BY DEF Send
<1>2. state \in Resolving
    BY OperationsAssumption DEF Resolving
<1>3. Acting(state)
    BY DEF Acting
<1> HIDE DEF state
<1> QED BY <1>1, <1>2, <1>3, QuietKeeps

(* The rotations of stored sessions are not in the future.                 *)
LEMMA RotatedByNow ==
    ASSUME SessionInv, ChainsInv
    PROVE  RotatedBy(now)
BY SuccessorIn DEF RotatedBy, ChainsInv, RotationsApart

LEMMA FindRotatedActs ==
    ASSUME AloneInv, NEW r \in Requests, FindRotated(r)
    PROVE  ChainsInv' /\ \A o \in Requests : Acting(req[o])'
<1> USE DEF AloneInv, SessionInv
<1> DEFINE row == sess[req[r].token]
           state == [pc |-> "grace", op |-> req[r].op, token |-> req[r].token,
                     late |-> req[r].late, row |-> row, at |-> now]
<1>1. On(r, "find") /\ row.rotated # None
      /\ Go(r, state) /\ UNCHANGED <<sess, now, cookie, lastUse, closed>>
    BY DEF FindRotated
<1>2. req[r].op \in {"page", "logout"} /\ req[r].token \in Ids /\ req[r].late \in BOOLEAN
    BY <1>1, RequestShape
<1>3. row \in Row /\ now \in Nat
    BY <1>2 DEF TypeOK
<1>4. state \in Resolving
    BY <1>2, <1>3 DEF Resolving
<1>5. req[r].late => sess[req[r].token].root \in closed
    BY <1>1 DEF Acting, On
<1>6. Acting(state)
    BY <1>1, <1>3, <1>5, RotatedByNow DEF Acting, IsLive
<1> HIDE DEF state
<1> QED BY <1>1, <1>4, <1>6, QuietKeeps

LEMMA FindDueActs ==
    ASSUME AloneInv, NEW r \in Requests, FindDue(r)
    PROVE  ChainsInv' /\ \A o \in Requests : Acting(req[o])'
<1> USE DEF AloneInv, SessionInv
<1> DEFINE state == [pc |-> "rotate", op |-> req[r].op, token |-> req[r].token,
                     late |-> req[r].late, at |-> now]
<1>1. On(r, "find") /\ Due(sess[req[r].token], now)
      /\ Go(r, state) /\ UNCHANGED <<sess, now, cookie, lastUse, closed>>
    BY DEF FindDue
<1>2. req[r].op \in {"page", "logout"} /\ req[r].token \in Ids /\ req[r].late \in BOOLEAN
    BY <1>1, RequestShape
<1>3. now \in Nat /\ sess[req[r].token].created \in Nat
    BY <1>1, StoredRow, KeptType DEF TypeOK
<1>4. state \in Resolving
    BY <1>2, <1>3 DEF Resolving
<1>5. req[r].late => sess[req[r].token].root \in closed
    BY <1>1 DEF Acting, On
<1>6. now >= sess[req[r].token].created + Threshold
    BY <1>1, <1>3, WindowsAssumption DEF Due
<1>7. Acting(state)
    BY <1>3, <1>5, <1>6, RotatedByNow DEF Acting
<1> HIDE DEF state
<1> QED BY <1>1, <1>4, <1>7, QuietKeeps

(* Who is refused at once: the end of a chain that was closed, or has been *)
(* idle for longer than since its last rotation was due.                   *)
LEMMA FindDeadActs ==
    ASSUME AloneInv, NEW r \in Requests, FindDead(r)
    PROVE  ChainsInv' /\ \A o \in Requests : Acting(req[o])'
<1> USE DEF AloneInv, SessionInv
<1> DEFINE token == req[r].token
           state == [pc |-> "rejected", kept |-> Kept(r), at |-> now]
<1>1. On(r, "find") /\ IsLive(token)
      /\ (sess[token].revoked \/ Expired(sess[token], now))
      /\ Go(r, state) /\ UNCHANGED <<sess, now, cookie, lastUse, closed>>
    BY DEF FindDead, Reject, IsLive
<1>2. Kept(r) \in Sent /\ Kept(r).token \in Stored /\ token \in Stored /\ Kept(r).token = token
    BY <1>1, KeptType DEF Kept
<1>3. now \in Nat
    BY DEF TypeOK
<1>4. state \in Resolving
    BY <1>2, <1>3 DEF Resolving
<1>5. PICK root : root = sess[token].root
    OBVIOUS
<1>6. root \in Stored /\ lastUse[root] \in Nat
    BY <1>2, <1>5, RootRow
<1>7. sess[root].absolute = sess[token].absolute
    BY <1>2, <1>5, <1>6 DEF ChainsInv, RootsAreOwn, SameChain, ChainIsLine
<1>8. root \in closed \/ now >= sess[root].absolute \/ now - lastUse[root] > Idle - Threshold
    <2>1. CASE sess[token].revoked
        BY <1>2, <1>5, <2>1 DEF ChainsInv, ClosedIsRevoked
    <2>2. CASE Expired(sess[token], now) /\ now < sess[token].absolute
        <3>1. sess[token].created \in Nat /\ sess[token].absolute \in Nat
            BY <1>2, StoredRow
        <3>2. sess[token].idle = Lower(sess[token].created + Idle, sess[token].absolute)
            BY <1>2 DEF ChainsInv, IdleKept
        <3>3. now >= sess[token].idle
            BY <1>3, <2>2, <3>1 DEF Expired
        <3>4. now >= sess[token].created + Idle
            BY <1>3, <2>2, <3>1, <3>2, <3>3, WindowsAssumption DEF Lower
        <3>5. lastUse[root] < sess[token].created + Threshold
            BY <1>1, <1>2, <1>5 DEF ChainsInv, UsedOnEnd
        <3> QED BY <1>3, <1>6, <3>1, <3>4, <3>5, WindowsAssumption
    <2>3. CASE now >= sess[token].absolute
        BY <1>7, <2>3
    <2>4. now < sess[token].absolute \/ now >= sess[token].absolute
        BY <1>2, <1>3, StoredRow
    <2> QED BY <1>1, <2>1, <2>2, <2>3, <2>4
<1>9. Refusable(token, now)
    BY <1>5, <1>8 DEF Refusable
<1>10. Acting(state)
    BY <1>2, <1>9 DEF Acting
<1> HIDE DEF state
<1> QED BY <1>1, <1>4, <1>10, QuietKeeps

(* Both ways to decide that a chain must be revoked.                       *)
LEMMA BurnActs ==
    ASSUME AloneInv, NEW r \in Requests, DetectReuse(r) \/ LoseRotation(r)
    PROVE  ChainsInv' /\ \A o \in Requests : Acting(req[o])'
<1> USE DEF AloneInv, SessionInv
<1> DEFINE state == [pc |-> "burn", op |-> req[r].op, token |-> req[r].token,
                     late |-> req[r].late, at |-> req[r].at]
<1>1. /\ On(r, "grace") \/ On(r, "rotate")
      /\ Go(r, state) /\ UNCHANGED <<sess, now, cookie, lastUse, closed>>
    BY DEF DetectReuse, LoseRotation, Burn
<1>2. req[r].op \in {"page", "logout"} /\ req[r].token \in Ids
      /\ req[r].late \in BOOLEAN /\ req[r].at \in Nat
    BY <1>1, RequestShape
<1>3. state \in Resolving
    BY <1>2 DEF Resolving
<1>4. req[r].late => sess[req[r].token].root \in closed
    BY <1>1 DEF Acting, On
<1>5. Acting(state)
    BY <1>4 DEF Acting
<1> HIDE DEF state
<1> QED BY <1>1, <1>3, <1>5, QuietKeeps

LEMMA SnapshotActs ==
    ASSUME AloneInv, NEW r \in Requests, SnapshotChain(r)
    PROVE  ChainsInv' /\ \A o \in Requests : Acting(req[o])'
<1> USE DEF AloneInv, SessionInv
<1> DEFINE chain == Descendants(req[r].token)
           state == [pc |-> "revoke_chain", op |-> req[r].op, token |-> req[r].token,
                     late |-> req[r].late, at |-> req[r].at, chain |-> chain]
<1>1. On(r, "burn") /\ Go(r, state) /\ UNCHANGED <<sess, now, cookie, lastUse, closed>>
    BY DEF SnapshotChain
<1>2. req[r].op \in {"page", "logout"} /\ req[r].token \in Ids
      /\ req[r].late \in BOOLEAN /\ req[r].at \in Nat
    BY <1>1, RequestShape
<1>3. req[r].token \in Stored
    BY <1>1 DEF TokensStored, Holding, On
<1>4. chain \in SUBSET Ids
    BY DEF Descendants
<1>5. IsChain(chain, req[r].token)
    BY <1>3, DescendantsAreChain DEF ChainsInv
<1>6. req[r].late => sess[req[r].token].root \in closed
    BY <1>1 DEF Acting, On
<1> HIDE DEF chain
<1>7. state \in Resolving
    BY <1>2, <1>4 DEF Resolving
<1>8. Acting(state)
    BY <1>5, <1>6 DEF Acting
<1> HIDE DEF state
<1> QED BY <1>1, <1>7, <1>8, QuietKeeps

LEMMA DeliverActs ==
    ASSUME AloneInv, NEW r \in Requests, Deliver(r) \/ Lose(r)
    PROVE  ChainsInv' /\ \A o \in Requests : Acting(req[o])'
<1> USE DEF AloneInv
<1> DEFINE state == [pc |-> "idle"]
<1>1. Go(r, state) /\ UNCHANGED <<sess, now, lastUse, closed>>
    BY DEF Deliver, Lose
<1>2. state \in Resolving
    BY DEF Resolving
<1>3. Acting(state)
    BY DEF Acting
<1> HIDE DEF state
<1> QED BY <1>1, <1>2, <1>3, QuietKeeps

(* Being served on the live end of a chain that was not closed.            *)
LEMMA ServeActs ==
    ASSUME AloneInv, NEW r \in Requests, On(r, "find") \/ On(r, "grace"),
           NEW e \in Stored, IsLive(e), SameChain(e, req[r].token), ~sess[e].revoked,
           NEW t \in Nat, t < sess[e].created + Threshold, Serve(r, e, t, None),
           UNCHANGED <<sess, now, cookie, closed>>
    PROVE  ChainsInv' /\ \A o \in Requests : Acting(req[o])'
<1> USE DEF AloneInv, SessionInv
<1> DEFINE state == [pc |-> "served", kept |-> Kept(r), id |-> e, new |-> None]
<1>1. Kept(r) \in Sent /\ Kept(r).token = req[r].token /\ Kept(r).late = req[r].late
      /\ req[r].token \in Stored
    BY KeptType DEF Kept
<1>2. e \in Ids
    BY StoredRow
<1>3. state \in Resolving
    BY <1>1, <1>2 DEF Resolving
<1>4. req'[r] = state /\ \A o \in Requests : o # r => req'[o] = req[o]
    <2>1. Go(r, state)
        BY DEF Serve
    <2> HIDE DEF state
    <2> QED BY <1>3, <2>1, GoType DEF TypeOK
<1>5. sess[e].root \notin closed
    BY DEF ChainsInv, ClosedIsRevoked
<1>6. ~req[r].late
    BY <1>5 DEF Acting, On, SameChain
<1>7. Stored' = Stored
    BY KeepSessions
<1>8. UsedOnEnd'
    <2>1. lastUse' = [lastUse EXCEPT ![sess[e].root] = t]
        BY DEF Serve, SameChain
    <2>2. sess[e].root \in Ids
        BY RootRow
    <2>3. ASSUME NEW i \in Stored, IsLive(i)
          PROVE  lastUse'[sess[i].root] < sess[i].created + Threshold
        <3>1. CASE SameChain(i, e)
            BY <2>1, <2>2, <2>3, <3>1, OneLive DEF SameChain, TypeOK
        <3>2. CASE ~SameChain(i, e)
            <4>1. lastUse[sess[i].root] < sess[i].created + Threshold
                BY <2>3 DEF ChainsInv, UsedOnEnd
            <4>2. lastUse'[sess[i].root] = lastUse[sess[i].root]
                BY <2>1, <2>2, <3>2 DEF SameChain, TypeOK
            <4> QED BY <4>1, <4>2
        <3> QED BY <3>1, <3>2
    <2> QED BY <1>7, <2>3 DEF UsedOnEnd, IsLive
<1>9. ChainsInv'
    BY <1>7, <1>8 DEF ChainsInv, IdleKept, RootsAreOwn, RotationsApart, ClosedIsRevoked,
                      IsLive, SameChain
<1>10. Acting(req[r])'
    <2>1. PICK j : j = req[r].token
        OBVIOUS
    <2>2. SameChain(e, j)' /\ IsLive(e)'
        BY <2>1 DEF SameChain, IsLive
    <2>3. /\ req'[r].pc = "served" /\ req'[r].id = e
          /\ req'[r].kept.token = j /\ req'[r].kept.late = req[r].late
        BY <1>1, <1>4, <2>1
    <2> QED BY <1>6, <2>2, <2>3 DEF Acting
<1>11. ASSUME NEW o \in Requests, o # r PROVE Acting(req[o])'
    <2>1. req'[o].pc = "idle"
        BY <1>4, <1>11, OthersIdle DEF On
    <2> QED BY <2>1 DEF Acting
<1> QED BY <1>9, <1>10, <1>11

LEMMA FindYoungActs ==
    ASSUME AloneInv, NEW r \in Requests, FindYoung(r)
    PROVE  ChainsInv' /\ \A o \in Requests : Acting(req[o])'
<1> USE DEF AloneInv, SessionInv
<1>1. PICK e : e = req[r].token
    OBVIOUS
<1>2. /\ On(r, "find") /\ IsLive(e) /\ ~sess[e].revoked /\ ~Due(sess[e], now)
      /\ Serve(r, e, now, None) /\ UNCHANGED <<sess, now, cookie, closed>>
    BY <1>1 DEF FindYoung, IsLive
<1>3. e \in Stored /\ SameChain(e, req[r].token)
    BY <1>1, <1>2, KeptType DEF SameChain
<1>4. now \in Nat /\ now < sess[e].created + Threshold
    BY <1>2, <1>3, StoredRow, WindowsAssumption DEF Due, TypeOK
<1> QED BY <1>2, <1>3, <1>4, ServeActs

(* The successor found within the grace window is the live end still: a    *)
(* second rotation would be a Threshold, which is more than Grace, away.   *)
LEMMA ServeOnSuccessorActs ==
    ASSUME AloneInv, NEW r \in Requests, ServeOnSuccessor(r)
    PROVE  ChainsInv' /\ \A o \in Requests : Acting(req[o])'
<1> USE DEF AloneInv, SessionInv
<1>1. PICK e : e = req[r].row.rotated
    OBVIOUS
<1>2. /\ On(r, "grace") /\ ~sess[e].revoked /\ req[r].at - sess[e].created <= Grace
      /\ Serve(r, e, req[r].at, None) /\ UNCHANGED <<sess, now, cookie, closed>>
    BY <1>1 DEF ServeOnSuccessor, StillRotating, Successor
<1>3. req[r].token \in Stored
    BY <1>2, KeptType
<1>4. ~IsLive(req[r].token) /\ e = sess[req[r].token].rotated /\ RotatedBy(req[r].at)
    BY <1>1, <1>2 DEF Acting, On
<1>5. e \in Stored /\ SameChain(e, req[r].token)
    BY <1>3, <1>4, SuccessorIn
<1>6. req[r].at \in Nat /\ sess[e].created \in Nat
    BY <1>2, <1>5, RequestShape, StoredRow
<1>7. IsLive(e)
    <2>1. SUFFICES ASSUME ~IsLive(e) PROVE FALSE
        OBVIOUS
    <2>2. PICK k : k = sess[e].rotated
        OBVIOUS
    <2>3. k \in Stored
        BY <1>5, <2>1, <2>2, SuccessorIn
    <2>4. sess[k].created >= sess[e].created + Threshold
        BY <1>5, <2>1, <2>2 DEF ChainsInv, RotationsApart
    <2>5. sess[k].created <= req[r].at
        BY <1>4, <1>5, <2>1, <2>2 DEF RotatedBy
    <2>6. sess[k].created \in Nat
        BY <2>3, StoredRow
    <2> QED BY <1>2, <1>6, <2>4, <2>5, <2>6, WindowsAssumption
<1>8. req[r].at < sess[e].created + Threshold
    BY <1>2, <1>6, WindowsAssumption
<1> QED BY <1>2, <1>5, <1>6, <1>7, <1>8, ServeActs

(* Revoking: what concerns the other columns stays as it is.               *)
LEMMA RevokingKeepsChains ==
    ASSUME SessionInv, ChainsInv, OnlyRevokes, UNCHANGED <<now, lastUse>>,
           closed' \in SUBSET Stored
    PROVE  /\ Stored' = Stored
           /\ \A i \in Stored : IsLive(i)' <=> IsLive(i)
           /\ \A i, j \in Stored : SameChain(i, j)' <=> SameChain(i, j)
           /\ IdleKept' /\ RootsAreOwn' /\ RotationsApart' /\ UsedOnEnd'
           /\ closed' \subseteq Stored'
<1> USE DEF SessionInv
<1>1. Stored' = Stored
    BY RevokingKeeps
<1>2. \A i \in Stored : i \in Ids /\ sess[i].root \in Ids /\ sess[i].root \in Stored
    BY StoredRow, RootRow
<1>3. \A i \in Stored : IsLive(i)' <=> IsLive(i)
    BY <1>2 DEF OnlyRevokes, IsLive
<1>4. \A i, j \in Stored : SameChain(i, j)' <=> SameChain(i, j)
    BY <1>2 DEF OnlyRevokes, SameChain
<1>5. IdleKept'
    BY <1>1, <1>2 DEF ChainsInv, OnlyRevokes, IdleKept
<1>6. RootsAreOwn'
    BY <1>1, <1>2 DEF ChainsInv, OnlyRevokes, RootsAreOwn, SameChain
<1>7. UsedOnEnd'
    BY <1>1, <1>2 DEF ChainsInv, OnlyRevokes, UsedOnEnd, IsLive
<1>8. RotationsApart'
    <2>1. ASSUME NEW i \in Stored PROVE sess'[i].created <= now'
        BY <1>2 DEF ChainsInv, OnlyRevokes, RotationsApart
    <2>2. ASSUME NEW i \in Stored, ~IsLive(i)'
          PROVE  sess'[sess'[i].rotated].created >= sess'[i].created + Threshold
        <3>1. ~IsLive(i) /\ sess'[i].rotated = sess[i].rotated /\ sess'[i].created = sess[i].created
            BY <1>2, <1>3, <2>2 DEF OnlyRevokes
        <3>2. sess[i].rotated \in Ids
            BY <3>1, <1>2, SuccessorIn
        <3>3. sess'[sess[i].rotated].created = sess[sess[i].rotated].created
            BY <3>2 DEF OnlyRevokes
        <3>4. sess[sess[i].rotated].created >= sess[i].created + Threshold
            BY <3>1 DEF ChainsInv, RotationsApart
        <3> QED BY <3>1, <3>3, <3>4
    <2> QED BY <1>1, <2>1, <2>2 DEF RotationsApart
<1> QED BY <1>1, <1>3, <1>4, <1>5, <1>6, <1>7, <1>8

LEMMA LogoutActs ==
    ASSUME AloneInv, NEW r \in Requests, Logout(r)
    PROVE  ChainsInv' /\ \A o \in Requests : Acting(req[o])'
<1> USE DEF AloneInv, SessionInv
<1> DEFINE state == [pc |-> "goodbye"]
<1>1. PICK e : e = req[r].id
    OBVIOUS
<1>2. /\ On(r, "served") /\ Go(r, state) /\ UNCHANGED <<now, cookie, lastUse>>
      /\ sess' = [sess EXCEPT ![e].revoked = TRUE]
      /\ closed' = closed \cup {sess[e].root}
    BY <1>1 DEF Logout
<1>3. e \in Stored /\ IsLive(e)
    BY <1>1, <1>2 DEF TokensStored, Holding, Acting, On
<1>4. OnlyRevokes /\ sess'[e].revoked /\ \A i \in Ids : i # e => sess'[i].revoked = sess[i].revoked
    BY <1>2, <1>3, StoredRow DEF TypeOK, OnlyRevokes, Row
<1>5. closed' \in SUBSET Stored
    BY <1>2, <1>3, RootRow DEF ChainsInv
<1>6. /\ Stored' = Stored
      /\ \A i \in Stored : IsLive(i)' <=> IsLive(i)
      /\ IdleKept' /\ RootsAreOwn' /\ RotationsApart' /\ UsedOnEnd'
      /\ closed' \subseteq Stored'
    BY <1>2, <1>4, <1>5, RevokingKeepsChains
<1>7. ClosedIsRevoked'
    <2>1. ASSUME NEW i \in Stored
          PROVE  /\ sess'[i].revoked => sess'[i].root \in closed'
                 /\ IsLive(i)' /\ sess'[i].root \in closed' => sess'[i].revoked
        <3>1. i \in Ids /\ sess'[i].root = sess[i].root
            BY <1>4, StoredRow DEF OnlyRevokes
        <3>2. CASE i = e
            BY <1>2, <1>4, <3>1, <3>2
        <3>3. CASE i # e
            <4>1. sess'[i].revoked = sess[i].revoked
                BY <1>4, <3>1, <3>3
            <4>2. IsLive(i) => sess[i].root # sess[e].root
                BY <1>3, <3>3, OneLive DEF SameChain
            <4> QED BY <1>2, <1>6, <3>1, <4>1, <4>2 DEF ChainsInv, ClosedIsRevoked
        <3> QED BY <3>2, <3>3
    <2> QED BY <1>6, <2>1 DEF ClosedIsRevoked
<1>8. ASSUME NEW o \in Requests PROVE Acting(req[o])'
    <2>1. state \in Resolving
        BY DEF Resolving
    <2>2. req'[r] = state /\ \A p \in Requests : p # r => req'[p] = req[p]
        <3> HIDE DEF state
        <3> QED BY <1>2, <2>1, GoType DEF TypeOK
    <2>3. req'[o].pc = "goodbye" \/ req'[o].pc = "idle"
        BY <1>2, <2>2, OthersIdle DEF On
    <2> QED BY <2>3 DEF Acting
<1> QED BY <1>6, <1>7, <1>8 DEF ChainsInv

LEMMA RevokeChainActs ==
    ASSUME AloneInv, NEW r \in Requests, RevokeChain(r)
    PROVE  ChainsInv' /\ \A o \in Requests : Acting(req[o])'
<1> USE DEF AloneInv, SessionInv
<1> DEFINE state == [pc |-> "rejected", kept |-> Kept(r), at |-> req[r].at]
<1>1. PICK token, chain : token = req[r].token /\ chain = req[r].chain
    OBVIOUS
<1>2. /\ On(r, "revoke_chain") /\ Go(r, state) /\ UNCHANGED <<now, cookie, lastUse>>
      /\ sess' = [i \in Ids |-> IF i \in chain THEN [sess[i] EXCEPT !.revoked = TRUE] ELSE sess[i]]
      /\ closed' = closed \cup {sess[token].root}
    BY <1>1 DEF RevokeChain, Reject
<1>3. token \in Stored /\ IsChain(chain, token)
    BY <1>1, <1>2, KeptType DEF Acting, On
<1>4. OnlyRevokes
    BY <1>2 DEF TypeOK, OnlyRevokes, Row
<1>5. \A i \in Ids : IF i \in chain THEN sess'[i].revoked ELSE sess'[i].revoked = sess[i].revoked
    BY <1>2 DEF TypeOK, Row
<1>6. closed' \in SUBSET Stored
    BY <1>2, <1>3, RootRow DEF ChainsInv
<1>7. /\ Stored' = Stored
      /\ \A i \in Stored : IsLive(i)' <=> IsLive(i)
      /\ IdleKept' /\ RootsAreOwn' /\ RotationsApart' /\ UsedOnEnd'
      /\ closed' \subseteq Stored'
    BY <1>2, <1>4, <1>6, RevokingKeepsChains
<1>8. ClosedIsRevoked'
    <2>1. ASSUME NEW i \in Stored
          PROVE  /\ sess'[i].revoked => sess'[i].root \in closed'
                 /\ IsLive(i)' /\ sess'[i].root \in closed' => sess'[i].revoked
        <3>1. i \in Ids /\ sess'[i].root = sess[i].root
            BY <1>4, StoredRow DEF OnlyRevokes
        <3>2. CASE i \in chain
            <4>1. sess[i].root = sess[token].root
                BY <1>3, <3>2 DEF IsChain, SameChain
            <4> QED BY <1>2, <1>5, <3>1, <3>2, <4>1
        <3>3. CASE i \notin chain
            <4>1. sess'[i].revoked = sess[i].revoked
                BY <1>5, <3>1, <3>3
            <4>2. IsLive(i) => sess[i].root # sess[token].root
                BY <1>3, <3>3 DEF IsChain, SameChain
            <4>3. /\ sess[i].revoked => sess[i].root \in closed
                  /\ IsLive(i) /\ sess[i].root \in closed => sess[i].revoked
                BY DEF ChainsInv, ClosedIsRevoked
            <4>4. closed' = closed \cup {sess[token].root} /\ (IsLive(i)' <=> IsLive(i))
                BY <1>2, <1>7
            <4> QED BY <3>1, <4>1, <4>2, <4>3, <4>4
        <3> QED BY <3>2, <3>3
    <2> QED BY <1>7, <2>1 DEF ClosedIsRevoked
<1>9. state \in Resolving
    <2>1. Kept(r) \in Sent /\ req[r].at \in Nat
        BY <1>2, KeptType, RequestShape
    <2> QED BY <2>1 DEF Resolving
<1>10. Kept(r).token = token
    BY <1>1 DEF Kept
<1>11. req'[r] = state /\ \A p \in Requests : p # r => req'[p] = req[p]
    <2> HIDE DEF state
    <2> QED BY <1>2, <1>9, GoType DEF TypeOK
<1>12. Acting(req[r])'
    <2>1. PICK at : at = req[r].at
        OBVIOUS
    <2>2. req'[r].pc = "rejected" /\ req'[r].kept.token = token /\ req'[r].at = at
        BY <1>10, <1>11, <2>1
    <2>3. sess'[token].root = sess[token].root
        BY <1>3, <1>4, StoredRow DEF OnlyRevokes
    <2>4. Refusable(token, at)'
        BY <1>2, <2>3 DEF Refusable
    <2> QED BY <2>2, <2>4 DEF Acting
<1>13. ASSUME NEW o \in Requests, o # r PROVE Acting(req[o])'
    <2>1. req'[o].pc = "idle"
        BY <1>2, <1>11, <1>13, OthersIdle DEF On
    <2> QED BY <2>1 DEF Acting
<1> QED BY <1>7, <1>8, <1>12, <1>13 DEF ChainsInv

(* The compare-and-set took a live session that was not revoked: the chain *)
(* is open, and goes on with a session that is a Threshold younger.        *)
LEMMA RotateActs ==
    ASSUME AloneInv, NEW r \in Requests, Rotate(r)
    PROVE  ChainsInv' /\ \A o \in Requests : Acting(req[o])'
<1> USE DEF AloneInv, SessionInv
<1>1. PICK old, at : old = req[r].token /\ at = req[r].at
    OBVIOUS
<1>2. PICK i \in Ids :
        /\ Fresh(i)
        /\ sess' = [sess EXCEPT ![old].rotated = i,
                                ![i] = NewSession(at, sess[old].absolute, sess[old].root)]
        /\ Serve(r, i, at, i)
    BY <1>1 DEF Rotate
<1>3. On(r, "rotate") /\ IsLive(old) /\ ~sess[old].revoked /\ UNCHANGED <<now, cookie, closed>>
    BY <1>1 DEF Rotate, Rotatable, IsLive
<1>4. old \in Stored /\ old \in Ids /\ at \in Nat
    BY <1>1, <1>3, KeptType, RequestShape
<1>5. at <= now /\ RotatedBy(at) /\ at >= sess[old].created + Threshold
      /\ (req[r].late => sess[old].root \in closed)
    BY <1>1, <1>3 DEF Acting, On
<1>6. sess[old].root \notin closed /\ ~req[r].late
    BY <1>3, <1>4, <1>5 DEF ChainsInv, ClosedIsRevoked
<1>7. i \notin Stored /\ i # old /\ i # None
    BY <1>2, <1>4, IdsArePositive DEF Fresh
<1>8. /\ sess[old].root \in Stored /\ sess[old].root \in Ids /\ sess[old].absolute \in Nat
      /\ sess[old].created \in Nat /\ now \in Nat
    BY <1>4, StoredRow, RootRow DEF TypeOK
<1>9. /\ sess'[i].st = "stored" /\ sess'[i].rotated = None /\ ~sess'[i].revoked
      /\ sess'[i].root = sess[old].root /\ sess'[i].created = at
      /\ sess'[i].absolute = sess[old].absolute
      /\ sess'[i].idle = Lower(at + Idle, sess[old].absolute)
    BY <1>2, <1>7 DEF TypeOK, NewSession
<1>10. /\ sess'[old].st = "stored" /\ sess'[old].rotated = i
       /\ sess'[old].revoked = sess[old].revoked
       /\ sess'[old].root = sess[old].root /\ sess'[old].created = sess[old].created
       /\ sess'[old].absolute = sess[old].absolute /\ sess'[old].idle = sess[old].idle
    BY <1>2, <1>3, <1>4, <1>7, StoredRow DEF TypeOK, Row
<1>11. \A j \in Ids : j # i /\ j # old => sess'[j] = sess[j]
    BY <1>2, <1>4 DEF TypeOK
<1>12. Stored' = Stored \cup {i}
    BY <1>4, <1>9, <1>10, <1>11 DEF Stored
<1>13. ASSUME NEW j \in Stored
       PROVE  /\ j \in Ids /\ j # i /\ sess'[j].root = sess[j].root
              /\ sess'[j].created = sess[j].created /\ sess'[j].absolute = sess[j].absolute
              /\ sess'[j].idle = sess[j].idle /\ sess'[j].revoked = sess[j].revoked
              /\ j # old => sess'[j].rotated = sess[j].rotated
    <2>1. j \in Ids /\ j # i
        BY <1>7 DEF Stored
    <2>2. CASE j = old
        BY <1>3, <1>10, <2>1, <2>2, StoredRow
    <2>3. CASE j # old
        BY <1>11, <2>1, <2>3
    <2> QED BY <2>2, <2>3
<1>14. IdleKept'
    BY <1>9, <1>12, <1>13 DEF ChainsInv, IdleKept
<1>15. RootsAreOwn'
    <2>1. ASSUME NEW j \in Stored PROVE sess'[sess'[j].root].root = sess'[j].root
        BY <1>13, RootRow DEF ChainsInv, RootsAreOwn, SameChain
    <2>2. sess'[sess'[i].root].root = sess'[i].root
        BY <1>4, <1>9, <1>10, <2>1
    <2> QED BY <1>12, <2>1, <2>2 DEF RootsAreOwn, SameChain
<1>16. RotationsApart'
    <2>1. ASSUME NEW j \in Stored'
          PROVE  /\ sess'[j].created <= now'
                 /\ ~IsLive(j)' => sess'[sess'[j].rotated].created >= sess'[j].created + Threshold
        <3>1. CASE j = i
            BY <1>3, <1>5, <1>9, <3>1 DEF IsLive
        <3>2. CASE j = old
            <4>1. sess[old].created <= now
                BY <1>4 DEF ChainsInv, RotationsApart
            <4> QED BY <1>3, <1>5, <1>9, <1>10, <3>2, <4>1
        <3>3. CASE j \in Stored /\ j # old
            <4>1. sess'[j].rotated = sess[j].rotated /\ sess'[j].created = sess[j].created
                BY <1>13, <3>3
            <4>2. sess[j].created <= now
                BY <3>3 DEF ChainsInv, RotationsApart
            <4>3. ASSUME ~IsLive(j)'
                  PROVE  sess'[sess'[j].rotated].created >= sess'[j].created + Threshold
                <5>1. ~IsLive(j)
                    BY <4>1, <4>3 DEF IsLive
                <5>2. PICK k : k = sess[j].rotated
                    OBVIOUS
                <5>3. k \in Stored
                    BY <3>3, <5>1, <5>2, SuccessorIn
                <5>4. sess[k].created >= sess[j].created + Threshold
                    BY <3>3, <5>1, <5>2 DEF ChainsInv, RotationsApart
                <5>5. sess'[k].created = sess[k].created
                    BY <1>13, <5>3
                <5> QED BY <4>1, <5>2, <5>4, <5>5
            <4> QED BY <1>3, <4>1, <4>2, <4>3
        <3> QED BY <1>12, <3>1, <3>2, <3>3
    <2> QED BY <2>1 DEF RotationsApart
<1>17. ClosedIsRevoked'
    <2>1. ASSUME NEW j \in Stored'
          PROVE  /\ sess'[j].revoked => sess'[j].root \in closed'
                 /\ IsLive(j)' /\ sess'[j].root \in closed' => sess'[j].revoked
        <3>1. CASE j = i
            BY <1>3, <1>6, <1>9, <3>1
        <3>2. CASE j = old
            BY <1>3, <1>6, <1>10, <3>2
        <3>3. CASE j \in Stored /\ j # old
            BY <1>3, <1>13, <3>3 DEF ChainsInv, ClosedIsRevoked, IsLive
        <3> QED BY <1>12, <3>1, <3>2, <3>3
    <2> QED BY <2>1 DEF ClosedIsRevoked
<1>18. UsedOnEnd'
    <2>1. lastUse' = [lastUse EXCEPT ![sess[old].root] = at]
        BY <1>1, <1>2 DEF Serve
    <2>2. ASSUME NEW j \in Stored', IsLive(j)'
          PROVE  lastUse'[sess'[j].root] < sess'[j].created + Threshold
        <3>1. CASE j = i
            <4>1. lastUse'[sess[old].root] = at
                BY <1>8, <2>1 DEF TypeOK
            <4> QED BY <1>4, <1>9, <3>1, <4>1, WindowsAssumption
        <3>2. CASE j = old
            BY <1>7, <1>10, <2>2, <3>2 DEF IsLive
        <3>3. CASE j \in Stored /\ j # old
            <4>1. IsLive(j)
                BY <1>13, <2>2, <3>3 DEF IsLive
            <4>2. sess[j].root # sess[old].root
                BY <1>3, <1>4, <3>3, <4>1, OneLive DEF SameChain
            <4>3. lastUse'[sess[j].root] = lastUse[sess[j].root]
                BY <2>1, <3>3, <4>2, RootRow DEF TypeOK
            <4>4. lastUse[sess[j].root] < sess[j].created + Threshold
                BY <3>3, <4>1 DEF ChainsInv, UsedOnEnd
            <4> QED BY <1>13, <3>3, <4>3, <4>4
        <3> QED BY <1>12, <3>1, <3>2, <3>3
    <2> QED BY <2>2 DEF UsedOnEnd
<1>19. closed' \subseteq Stored'
    BY <1>3, <1>12 DEF ChainsInv
<1> DEFINE state == [pc |-> "served", kept |-> Kept(r), id |-> i, new |-> i]
<1>20. req'[r] = state /\ \A o \in Requests : o # r => req'[o] = req[o]
    <2>1. Go(r, state)
        BY <1>2 DEF Serve
    <2>2. state \in Resolving
        BY <1>3, KeptType DEF Resolving
    <2> HIDE DEF state
    <2> QED BY <2>1, <2>2, GoType DEF TypeOK
<1>21. Acting(req[r])'
    <2>1. /\ req'[r].pc = "served" /\ req'[r].id = i
          /\ req'[r].kept.token = old /\ req'[r].kept.late = req[r].late
        BY <1>1, <1>20 DEF Kept
    <2>2. IsLive(i)' /\ SameChain(i, old)'
        BY <1>9, <1>10 DEF IsLive, SameChain
    <2> QED BY <1>6, <2>1, <2>2 DEF Acting
<1>22. ASSUME NEW o \in Requests, o # r PROVE Acting(req[o])'
    <2>1. req'[o].pc = "idle"
        BY <1>3, <1>20, <1>22, OthersIdle DEF On
    <2> QED BY <2>1 DEF Acting
<1> QED BY <1>14, <1>15, <1>16, <1>17, <1>18, <1>19, <1>21, <1>22 DEF ChainsInv

LEMMA LoginActs ==
    ASSUME AloneInv, Login
    PROVE  ChainsInv' /\ \A o \in Requests : Acting(req[o])'
<1> USE DEF AloneInv, SessionInv
<1>1. PICK i \in Ids :
        /\ Fresh(i)
        /\ sess' = [sess EXCEPT ![i] = NewSession(now, now + Absolute, i)]
        /\ lastUse' = [lastUse EXCEPT ![i] = now]
        /\ UNCHANGED <<now, req, closed>>
    BY DEF Login
<1>2. now \in Nat
    BY DEF TypeOK
<1>3. i \notin Stored
    BY <1>1 DEF Fresh
<1>4. /\ sess'[i].st = "stored" /\ sess'[i].rotated = None /\ sess'[i].revoked = FALSE
      /\ sess'[i].root = i /\ sess'[i].created = now
      /\ sess'[i].absolute = now + Absolute
      /\ sess'[i].idle = Lower(now + Idle, now + Absolute)
      /\ lastUse'[i] = now
    BY <1>1 DEF TypeOK, NewSession
<1>5. ASSUME NEW j \in Stored
      PROVE  /\ j \in Ids /\ j # i /\ sess'[j] = sess[j]
             /\ sess[j].root # i /\ lastUse'[sess[j].root] = lastUse[sess[j].root]
    BY <1>1, <1>3, StoredRow, RootRow DEF TypeOK
<1>6. Stored' = Stored \cup {i}
    BY <1>3, <1>4, <1>5, <1>1 DEF Stored, TypeOK
<1>7. IdleKept'
    BY <1>4, <1>5, <1>6 DEF ChainsInv, IdleKept
<1>8. RootsAreOwn'
    <2>1. ASSUME NEW j \in Stored PROVE sess'[sess'[j].root].root = sess'[j].root
        BY <1>5, RootRow DEF ChainsInv, RootsAreOwn, SameChain
    <2> QED BY <1>4, <1>6, <2>1 DEF RootsAreOwn, SameChain
<1>9. RotationsApart'
    <2>1. ASSUME NEW j \in Stored
          PROVE  /\ sess'[j].created <= now'
                 /\ ~IsLive(j)' => sess'[sess'[j].rotated].created >= sess'[j].created + Threshold
        BY <1>1, <1>5, SuccessorIn DEF ChainsInv, RotationsApart, IsLive
    <2> QED BY <1>1, <1>2, <1>4, <1>6, <2>1 DEF RotationsApart, IsLive
<1>10. ClosedIsRevoked'
    BY <1>1, <1>3, <1>4, <1>5, <1>6 DEF ChainsInv, ClosedIsRevoked, IsLive
<1>11. UsedOnEnd'
    <2>1. now < now + Threshold
        BY <1>2, WindowsAssumption
    <2>2. ASSUME NEW j \in Stored, IsLive(j)'
          PROVE  lastUse'[sess'[j].root] < sess'[j].created + Threshold
        BY <1>5, <2>2 DEF ChainsInv, UsedOnEnd, IsLive
    <2> QED BY <1>4, <1>6, <2>1, <2>2 DEF UsedOnEnd
<1>12. closed' \subseteq Stored'
    BY <1>1, <1>6 DEF ChainsInv
<1>13. ASSUME NEW o \in Requests PROVE Acting(req[o])'
    <2>1. PICK q : q = req[o] /\ q = req'[o]
        BY <1>1
    <2>2. Acting(q) /\ Holding(q)
        BY <2>1 DEF TokensStored
    <2>3. q.pc \in {"grace", "rotate"} => RotatedBy(q.at)'
        <3>1. ASSUME RotatedBy(q.at) PROVE RotatedBy(q.at)'
            BY <1>4, <1>5, <1>6, <3>1, SuccessorIn DEF RotatedBy, IsLive
        <3> QED BY <2>2, <3>1 DEF Acting
    <2>4. q.pc = "revoke_chain" => IsChain(q.chain, q.token)'
        <3>1. ASSUME IsChain(q.chain, q.token), q.token \in Stored PROVE IsChain(q.chain, q.token)'
            BY <1>4, <1>5, <1>6, <3>1 DEF IsChain, SameChain, IsLive
        <3> QED BY <2>2, <3>1 DEF Acting, Holding
    <2>5. q.pc = "rejected" => Refusable(q.kept.token, q.at)'
        <3>1. ASSUME Refusable(q.kept.token, q.at), q.kept.token \in Stored
              PROVE  Refusable(q.kept.token, q.at)'
            BY <1>1, <1>5, <3>1, RootRow DEF Refusable
        <3> QED BY <2>2, <3>1 DEF Acting, Holding
    <2>6. Acting(q)'
        BY <1>1, <1>5, <2>2, <2>3, <2>4, <2>5 DEF Acting, Holding, IsLive, SameChain
    <2> QED BY <2>1, <2>6
<1> QED BY <1>7, <1>8, <1>9, <1>10, <1>11, <1>12, <1>13 DEF ChainsInv

LEMMA TickActs ==
    ASSUME AloneInv, Tick
    PROVE  ChainsInv' /\ \A o \in Requests : Acting(req[o])'
<1> USE DEF AloneInv, SessionInv
<1>1. now' = now + 1 /\ now \in Nat /\ UNCHANGED <<sess, cookie, req, lastUse, closed>>
    BY DEF Tick, TypeOK
<1>2. Stored' = Stored
    BY <1>1, KeepSessions
<1>3. RotationsApart'
    BY <1>1, <1>2, StoredRow DEF ChainsInv, RotationsApart, IsLive
<1>4. ChainsInv'
    BY <1>1, <1>2, <1>3 DEF ChainsInv, IdleKept, RootsAreOwn, ClosedIsRevoked, UsedOnEnd,
                            IsLive, SameChain
<1>5. ASSUME NEW o \in Requests PROVE Acting(req[o])'
    <2>1. PICK q : q = req[o] /\ q = req'[o]
        BY <1>1
    <2>2. q.pc \in {"grace", "rotate"} => q.at \in Nat
        BY <2>1, RequestShape DEF On
    <2>3. Acting(q)
        BY <2>1
    <2>4. Acting(q)'
        BY <1>1, <1>2, <2>2, <2>3 DEF Acting, IsLive, SameChain, Refusable, RotatedBy, IsChain
    <2> QED BY <2>1, <2>4
<1> QED BY <1>4, <1>5

(* Every step of a browser that sends one request at a time.               *)
LEMMA AloneStep ==
    ASSUME AloneInv, [Next]_vars, AtMostOne(Busy')
    PROVE  AloneInv'
<1>1. SessionInv'
    BY NextSessions DEF AloneInv
<1>2. AtMostOne(Busy)'
    BY DEF AtMostOne, Busy
<1>3. ChainsInv' /\ \A o \in Requests : Acting(req[o])'
    <2>1. CASE Login
        BY <2>1, LoginActs
    <2>2. CASE Tick
        BY <2>2, TickActs
    <2>3. CASE UNCHANGED vars
        <3>1. Stored' = Stored
            BY <2>3, KeepSessions DEF vars
        <3> QED BY <2>3, <3>1 DEF vars, AloneInv, ChainsInv, IdleKept, RootsAreOwn, RotationsApart,
                   ClosedIsRevoked, UsedOnEnd, IsLive, SameChain, Acting, Refusable,
                   RotatedBy, IsChain
    <2>4. CASE \E r \in Requests :
                  \/ \E token \in Ids, op \in Operations : Send(r, token, op)
                  \/ Resolve(r) \/ Logout(r) \/ Deliver(r) \/ Lose(r)
        <3>1. PICK r \in Requests :
                  \/ \E token \in Ids, op \in Operations : Send(r, token, op)
                  \/ Resolve(r) \/ Logout(r) \/ Deliver(r) \/ Lose(r)
            BY <2>4
        <3>2. CASE \E token \in Ids, op \in Operations : Send(r, token, op)
            BY <3>2, SendActs
        <3>3. CASE Resolve(r)
            BY <3>3, FindRotatedActs, FindDeadActs, FindYoungActs, FindDueActs,
               ServeOnSuccessorActs, BurnActs, RotateActs, SnapshotActs, RevokeChainActs DEF Resolve
        <3>4. CASE Logout(r)
            BY <3>4, LogoutActs
        <3>5. CASE Deliver(r) \/ Lose(r)
            BY <3>5, DeliverActs
        <3> QED BY <3>1, <3>2, <3>3, <3>4, <3>5
    <2> QED BY <2>1, <2>2, <2>3, <2>4 DEF Next, Finished
<1> QED BY <1>1, <1>2, <1>3 DEF AloneInv

LEMMA AloneInit ==
    ASSUME Init
    PROVE  AloneInv
<1>1. SessionInv
    BY InitSessions
<1>2. Stored = {} /\ Busy = {}
    BY DEF Init, Stored, Busy, On
<1>3. ChainsInv
    BY <1>2 DEF Init, ChainsInv, IdleKept, RootsAreOwn, RotationsApart, ClosedIsRevoked, UsedOnEnd
<1>4. \A r \in Requests : Acting(req[r])
    BY DEF Init, Acting
<1> QED BY <1>1, <1>2, <1>3, <1>4 DEF AloneInv, AtMostOne

(* The sessions beside the other services.                                 *)
LEMMA SessionsInvariant == ServicesSpec => [](SessionInv /\ (alone => AloneInv))
<1> DEFINE I == SessionInv /\ (alone => AloneInv)
<1>1. ServicesInit => I
    BY InitSessions, AloneInit DEF ServicesInit
<1>2. I /\ [ServicesNext]_servicesVars => I'
    <2> SUFFICES ASSUME I, [ServicesNext]_servicesVars PROVE I'
        OBVIOUS
    <2>1. [Next]_vars /\ UNCHANGED alone
        BY DEF ServicesNext, servicesVars, Browsing, Serving, Learning, Governing, Identifying
    <2>2. AloneInv => AtMostOne(Busy)
        BY DEF AloneInv
    <2>3. AtMostOne(Busy) /\ UNCHANGED vars => AtMostOne(Busy')
        BY DEF vars, Busy, On, AtMostOne
    <2>4. alone /\ AtMostOne(Busy) => AtMostOne(Busy')
        BY <2>3 DEF ServicesNext, servicesVars, Browsing, Serving, Learning, Governing, Identifying
    <2> QED BY <2>1, <2>2, <2>4, NextSessions, AloneStep
<1> HIDE DEF I
<1>3. ServicesSpec => []I
    BY <1>1, <1>2, PTL DEF ServicesSpec
<1> QED BY <1>3, PTL DEF I

(* Once a logout or a reuse revocation has finished, no token of that      *)
(* chain authenticates a request sent afterwards, for a browser that sends *)
(* one request at a time: the live end of a closed chain is revoked, and   *)
(* only a live end serves.                                                 *)
THEOREM AloneStaysClosed == ServicesSpec => []ClosedStaysClosedAlone
<1>1. AloneInv => ClosedStaysClosed
    BY DEF AloneInv, Acting, ClosedStaysClosed, On
<1> QED BY <1>1, SessionsInvariant, PTL DEF ClosedStaysClosedAlone

(* Such a browser is refused only after its chain was closed, at the       *)
(* absolute expiry, or after more than Idle - Threshold without use.       *)
THEOREM AloneStays == ServicesSpec => []ActiveUserStaysAlone
<1>1. AloneInv => ActiveUserStays
    BY DEF AloneInv, Acting, Refusable, ActiveUserStays, On
<1> QED BY <1>1, SessionsInvariant, PTL DEF ActiveUserStaysAlone
=============================================================================
