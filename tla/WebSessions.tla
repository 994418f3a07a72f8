---------------------------- MODULE WebSessions -----------------------------
(***************************************************************************)
(* Cookie sessions of the web surface (src/recallum/auth/web_sessions.py,  *)
(* db/repositories/web_session_repo.py, web/auth.py): login, the           *)
(* resolution of a cookie by every authenticated request, rotation of its  *)
(* token, revocation of a chain when an old token is reused, and logout.   *)
(*                                                                         *)
(* Each repository call is a transaction of its own, so a request is one   *)
(* step per call and the requests of one browser run in between.  A token  *)
(* is the id of its session row.  One browser keeps one cookie; responses  *)
(* reach it in any order and, if Lossy, not at all; if Replays, a request  *)
(* may carry any token issued before.                                      *)
(***************************************************************************)
EXTENDS Integers, FiniteSets

CONSTANTS
    Requests,     \* requests that may be in progress at once
    Operations,   \* subset of {"page", "logout"}: what requests do
    Idle,         \* idle_window
    Absolute,     \* absolute_window
    Threshold,    \* idle_window * rotation_threshold
    Grace,        \* rotation_grace
    Replays,      \* requests with tokens the browser no longer holds
    Lossy,        \* responses may be lost
    MaxLogins,    \* bound: chains
    MaxTime       \* bound: last instant of the clock

ASSUME OperationsAssumption == Operations \subseteq {"page", "logout"}
ASSUME WindowsAssumption ==
    /\ Idle \in Nat /\ Absolute \in Nat /\ Threshold \in Nat /\ Grace \in Nat
    /\ Grace < Threshold /\ Threshold < Idle /\ Idle <= Absolute
ASSUME SwitchesAssumption == Replays \in BOOLEAN /\ Lossy \in BOOLEAN
ASSUME SizesAssumption == MaxLogins \in Nat /\ MaxTime \in Nat

(* A chain rotates at most every Threshold: these ids are never exhausted. *)
Ids  == 1..(MaxLogins * (1 + MaxTime \div Threshold))
None == 0

VARIABLES
    sess,     \* web_sessions: id -> row ("free" ids are not stored yet)
    now,      \* the service's clock
    cookie,   \* token the browser holds, or None
    req,      \* request -> its next step and local state
    lastUse,  \* history: first session of a chain -> last time it was served
    closed    \* history: chains a logout or a reuse revocation has ended

vars == <<sess, now, cookie, req, lastUse, closed>>

(* root is the chain's first session: history, not a column. *)
Row == [st : {"free", "stored"}, created : Nat, idle : Nat, absolute : Nat,
        rotated : Ids \cup {None}, revoked : BOOLEAN, root : Ids \cup {None}]

Lower(a, b) == IF a < b THEN a ELSE b
Stored   == {i \in Ids : sess[i].st = "stored"}
Fresh(i) == i \in Ids \ Stored /\ \A j \in Ids \ Stored : i <= j

NewSession(t, absolute, root) ==
    [st |-> "stored", created |-> t, idle |-> Lower(t + Idle, absolute),
     absolute |-> absolute, rotated |-> None, revoked |-> FALSE, root |-> root]

Go(r, state) == req' = [req EXCEPT ![r] = state]
On(r, where) == req[r].pc = where

Init ==
    /\ sess = [i \in Ids |-> [st |-> "free", created |-> 0, idle |-> 0, absolute |-> 0,
                              rotated |-> None, revoked |-> FALSE, root |-> None]]
    /\ now = 0
    /\ cookie = None
    /\ req = [r \in Requests |-> [pc |-> "idle"]]
    /\ lastUse = [i \in Ids |-> 0]
    /\ closed = {}

(* Credentials were verified: a session that starts a chain of its own. *)
Login ==
    /\ Cardinality({i \in Stored : sess[i].root = i}) < MaxLogins
    /\ \E i \in Ids :
          /\ Fresh(i)
          /\ sess' = [sess EXCEPT ![i] = NewSession(now, now + Absolute, i)]
          /\ cookie' = i
          /\ lastUse' = [lastUse EXCEPT ![i] = now]
    /\ UNCHANGED <<now, req, closed>>

(* late: the token's chain had been ended before this request was sent. *)
Send(r, token, op) ==
    /\ On(r, "idle")
    /\ token = cookie \/ (Replays /\ token \in Stored)
    /\ token # None
    /\ Go(r, [pc |-> "find", op |-> op, token |-> token,
              late |-> sess[token].root \in closed])
    /\ UNCHANGED <<sess, now, cookie, lastUse, closed>>

(***************************************************************************)
(* resolve.  The row is read once; what follows is decided on that copy.   *)
(***************************************************************************)
Kept(r) == [op |-> req[r].op, token |-> req[r].token, late |-> req[r].late]
Expired(row, t) == t >= row.idle \/ t >= row.absolute

(* Old enough to rotate; the mutant is late by one. *)
DueLate(row, t) == t - row.created > Threshold
Due(row, t)     == t - row.created >= Threshold

Serve(r, id, t, token) ==
    /\ Go(r, [pc |-> "served", kept |-> Kept(r), id |-> id, new |-> token])
    /\ lastUse' = [lastUse EXCEPT ![sess[req[r].token].root] = t]

Reject(r, t) == Go(r, [pc |-> "rejected", kept |-> Kept(r), at |-> t])

FindRotated(r) ==
    LET row == sess[req[r].token]
    IN /\ On(r, "find") /\ row.rotated # None
       /\ Go(r, [pc |-> "grace", op |-> req[r].op, token |-> req[r].token,
                 late |-> req[r].late, row |-> row, at |-> now])
       /\ UNCHANGED <<sess, now, cookie, lastUse, closed>>

FindDead(r) ==
    LET row == sess[req[r].token]
    IN /\ On(r, "find") /\ row.rotated = None
       /\ row.revoked \/ Expired(row, now)
       /\ Reject(r, now)
       /\ UNCHANGED <<sess, now, cookie, lastUse, closed>>

FindYoung(r) ==
    LET row == sess[req[r].token]
    IN /\ On(r, "find") /\ row.rotated = None
       /\ ~row.revoked /\ ~Expired(row, now)
       /\ ~Due(row, now)
       /\ Serve(r, req[r].token, now, None)
       /\ UNCHANGED <<sess, now, cookie, closed>>

FindDue(r) ==
    LET row == sess[req[r].token]
    IN /\ On(r, "find") /\ row.rotated = None
       /\ ~row.revoked /\ ~Expired(row, now)
       /\ Due(row, now)
       /\ Go(r, [pc |-> "rotate", op |-> req[r].op, token |-> req[r].token,
                 late |-> req[r].late, at |-> now])
       /\ UNCHANGED <<sess, now, cookie, lastUse, closed>>

(* _still_rotating: the successor as it is now, the row as it was read. *)
Successor(r) == sess[req[r].row.rotated]
StillRotating(r) ==
    /\ ~req[r].row.revoked
    /\ ~Successor(r).revoked
    /\ req[r].at - Successor(r).created <= Grace
    /\ ~Expired(Successor(r), req[r].at)

ServeOnSuccessor(r) ==
    /\ On(r, "grace") /\ StillRotating(r)
    /\ Serve(r, req[r].row.rotated, req[r].at, None)
    /\ UNCHANGED <<sess, now, cookie, closed>>

Burn(r) == Go(r, [pc |-> "burn", op |-> req[r].op, token |-> req[r].token,
                  late |-> req[r].late, at |-> req[r].at])

DetectReuse(r) ==
    /\ On(r, "grace") /\ ~StillRotating(r)
    /\ Burn(r)
    /\ UNCHANGED <<sess, now, cookie, lastUse, closed>>

(* One UPDATE takes the rotation if nobody has, and nobody revoked the row.*)
(* The mutant forgets the compare-and-set.                                 *)
RotatableTwice(i) == ~sess[i].revoked
Rotatable(i) == sess[i].rotated = None /\ ~sess[i].revoked

Rotate(r) ==
    LET old == req[r].token
    IN /\ On(r, "rotate") /\ Rotatable(old)
       /\ \E i \in Ids :
             /\ Fresh(i)
             /\ sess' = [sess EXCEPT ![old].rotated = i,
                                     ![i] = NewSession(req[r].at, sess[old].absolute,
                                                       sess[old].root)]
             /\ Serve(r, i, req[r].at, i)
       /\ UNCHANGED <<now, cookie, closed>>

LoseRotation(r) ==
    /\ On(r, "rotate") /\ ~Rotatable(req[r].token)
    /\ Burn(r)
    /\ UNCHANGED <<sess, now, cookie, lastUse, closed>>

(***************************************************************************)
(* revoke_chain: one UPDATE, whose snapshot of the chain is taken when it  *)
(* starts; what commits before it writes is not in that snapshot.          *)
(***************************************************************************)
(* Mutant of Descendants: only the presented token is revoked. *)
PresentedOnly(i) == {i}

(* The least set with i that is closed under rotation. *)
ClosedUnderRotation(S) == \A j \in S : sess[j].rotated \in S \cup {None}
Descendants(i) ==
    {j \in Ids : \A S \in SUBSET Ids : i \in S /\ ClosedUnderRotation(S) => j \in S}

SnapshotChain(r) ==
    /\ On(r, "burn")
    /\ Go(r, [pc |-> "revoke_chain", op |-> req[r].op, token |-> req[r].token,
              late |-> req[r].late, at |-> req[r].at,
              chain |-> Descendants(req[r].token)])
    /\ UNCHANGED <<sess, now, cookie, lastUse, closed>>

RevokeChain(r) ==
    /\ On(r, "revoke_chain")
    /\ sess' = [i \in Ids |-> IF i \in req[r].chain
                              THEN [sess[i] EXCEPT !.revoked = TRUE] ELSE sess[i]]
    /\ closed' = closed \cup {sess[req[r].token].root}
    /\ Reject(r, req[r].at)
    /\ UNCHANGED <<now, cookie, lastUse>>

(***************************************************************************)
(* After authentication: logout revokes the session it was resolved to;    *)
(* then the response reaches the browser.                                  *)
(***************************************************************************)
Logout(r) ==
    /\ On(r, "served") /\ req[r].kept.op = "logout"
    /\ sess' = [sess EXCEPT ![req[r].id].revoked = TRUE]
    /\ closed' = closed \cup {sess[req[r].id].root}
    /\ Go(r, [pc |-> "goodbye"])
    /\ UNCHANGED <<now, cookie, lastUse>>

(* The rotated token replaces the cookie. *)
CookieAfter(r) == IF req[r].new = None THEN cookie ELSE req[r].new

Deliver(r) ==
    /\ \/ /\ On(r, "served") /\ req[r].kept.op = "page"
          /\ cookie' = CookieAfter(r)
       \/ On(r, "goodbye") /\ cookie' = None
       \/ On(r, "rejected") /\ UNCHANGED cookie
    /\ Go(r, [pc |-> "idle"])
    /\ UNCHANGED <<sess, now, lastUse, closed>>

Lose(r) ==
    /\ Lossy
    /\ On(r, "goodbye") \/ (On(r, "served") /\ req[r].kept.op = "page")
    /\ Go(r, [pc |-> "idle"])
    /\ UNCHANGED <<sess, now, cookie, lastUse, closed>>

Tick == now < MaxTime /\ now' = now + 1 /\ UNCHANGED <<sess, cookie, req, lastUse, closed>>

Resolve(r) ==
    \/ FindRotated(r) \/ FindDead(r) \/ FindYoung(r) \/ FindDue(r)
    \/ ServeOnSuccessor(r) \/ DetectReuse(r) \/ Rotate(r) \/ LoseRotation(r)
    \/ SnapshotChain(r) \/ RevokeChain(r)

(* The bounds are reached and the browser has no session left. *)
Finished ==
    /\ now = MaxTime /\ cookie = None
    /\ Cardinality({i \in Stored : sess[i].root = i}) = MaxLogins
    /\ \A r \in Requests : On(r, "idle")
    /\ UNCHANGED vars

Next ==
    \/ Login \/ Tick \/ Finished
    \/ \E r \in Requests :
          \/ \E token \in Ids, op \in Operations : Send(r, token, op)
          \/ Resolve(r) \/ Logout(r) \/ Deliver(r) \/ Lose(r)

Spec == Init /\ [][Next]_vars

(***************************************************************************)
(* Properties.                                                             *)
(***************************************************************************)
Sent == [op : {"page", "logout"}, token : Ids, late : BOOLEAN]
Resolving ==
    [pc : {"idle", "goodbye"}]
    \cup [pc : {"find"}, op : {"page", "logout"}, token : Ids, late : BOOLEAN]
    \cup [pc : {"grace"}, op : {"page", "logout"}, token : Ids, late : BOOLEAN,
          row : Row, at : Nat]
    \cup [pc : {"rotate", "burn"}, op : {"page", "logout"}, token : Ids,
          late : BOOLEAN, at : Nat]
    \cup [pc : {"revoke_chain"}, op : {"page", "logout"}, token : Ids,
          late : BOOLEAN, at : Nat, chain : SUBSET Ids]
    \cup [pc : {"served"}, kept : Sent, id : Ids, new : Ids \cup {None}]
    \cup [pc : {"rejected"}, kept : Sent, at : Nat]

(* Type correctness of the rows, the cookie and the requests in progress.  *)
TypeOK ==
    /\ sess \in [Ids -> Row]
    /\ now \in Nat
    /\ cookie \in Ids \cup {None}
    /\ req \in [Requests -> Resolving]
    /\ lastUse \in [Ids -> Nat]
    /\ closed \subseteq Ids

(* The compare-and-set of rotate keeps a chain a line: however many        *)
(* requests present its token at once, it has exactly one session that was *)
(* not rotated, no two sessions share a successor, and none outlives the   *)
(* absolute expiry its login set ("un vencimiento absoluto que no se       *)
(* extiende nunca", openspec web-session-auth).                            *)
ChainIsLine ==
    /\ \A i, j \in Stored : sess[i].root = sess[j].root =>
          /\ sess[i].rotated = sess[j].rotated => i = j
          /\ sess[i].absolute = sess[j].absolute /\ sess[i].idle <= sess[i].absolute
    /\ \A i \in Stored : sess[i].rotated # None =>
          sess[i].rotated \in Stored /\ sess[sess[i].rotated].root = sess[i].root

(* Once a logout or a reuse revocation has finished, no token of that      *)
(* chain authenticates a request sent afterwards ("Reutilizacion tras el   *)
(* cierre", "invalida tambien el testigo vigente de esa cadena").          *)
ClosedStaysClosed ==
    \A r \in Requests : On(r, "served") => ~req[r].kept.late

(* A browser that sends the cookie it holds, with several requests at once *)
(* or one after the other, and receives every response is never taken for  *)
(* a thief ("A single page load fires several requests at once and every   *)
(* one carries the same cookie", _still_rotating).                         *)
NeverBurnt == \A r \in Requests : ~On(r, "burn")

(* A browser that sends one request after the other is refused only after  *)
(* its chain was closed, at the absolute expiry, or after more than        *)
(* Idle - Threshold without use: rotation starts early enough for the idle *)
(* window to be renewed.                                                   *)
ActiveUserStays ==
    \A r \in Requests : On(r, "rejected") =>
        LET root == sess[req[r].kept.token].root
        IN \/ root \in closed
           \/ req[r].at >= sess[root].absolute
           \/ req[r].at - lastUse[root] > Idle - Threshold

(* "el usuario realiza peticiones autenticadas dentro de la ventana de     *)
(* inactividad: la sesion sigue siendo valida" (openspec web-session-auth, *)
(* "Uso continuado").                                                      *)
IdleWindowRenewed ==
    \A r \in Requests : On(r, "rejected") =>
        LET root == sess[req[r].kept.token].root
        IN \/ root \in closed
           \/ req[r].at >= sess[root].absolute
           \/ req[r].at - lastUse[root] >= Idle
=============================================================================
