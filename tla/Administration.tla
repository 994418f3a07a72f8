--------------------------- MODULE Administration ---------------------------
(***************************************************************************)
(* Users, roles and API keys as the administrators change them: the web    *)
(* administration (src/recallum/web/admin.py, admin_service.py), the       *)
(* operator's command line (src/recallum/cli.py) and the two repositories  *)
(* under them.  A repository call is one transaction; changing a role on   *)
(* the web runs several statements under an advisory lock, which the       *)
(* command line does not take.                                             *)
(***************************************************************************)
EXTENDS Naturals, FiniteSets

CONSTANTS
    Admins,      \* requests of the web administration in progress at one time
    Operators,   \* commands in progress at one time
    People,      \* e-mail addresses
    First,       \* the administrators at the beginning
    Passwords,
    MaxKeys      \* bound: keys ever issued

ASSUME FirstAssumption == First # {} /\ First \subseteq People
ASSUME PasswordsAssumption == Passwords # {}

VARIABLES
    users,       \* address -> its row, for the addresses that have one
    keys,        \* key id -> [owner, revoked]
    adminCall,   \* request or command -> its step and local state
    roleLock,    \* holder of the advisory lock, or {}
    cliDemoted   \* history: a command has taken a role away

adminVars == <<users, keys, adminCall, roleLock, cliDemoted>>

Known == DOMAIN users
Administrators == {u \in Known : users[u].admin}
Callers == Admins \cup Operators

Calling(c, where) == adminCall[c].pc = where
CallGo(c, state) == adminCall' = [adminCall EXCEPT ![c] = state]
CallEnd(c) == CallGo(c, [pc |-> "idle"])

AdministrationInit ==
    /\ users = [u \in First |->
           [admin |-> TRUE, password |-> CHOOSE p \in Passwords : TRUE]]
    /\ keys = [k \in {} |-> 0]
    /\ adminCall = [c \in Callers |-> [pc |-> "idle"]]
    /\ roleLock = {} /\ cliDemoted = FALSE

(***************************************************************************)
(* require_admin: the role and the password hash are those of the session's*)
(* user as it was read when the request was authenticated.                 *)
(***************************************************************************)
Authenticate(r, u) ==
    /\ Calling(r, "idle") /\ u \in Administrators
    /\ CallGo(r, [pc |-> "admin", password |-> users[u].password])
    /\ UNCHANGED <<users, keys, roleLock, cliDemoted>>

(***************************************************************************)
(* set_admin_preserving_last: lock, read the row, count, write.            *)
(***************************************************************************)
(* Mutant of LockFree: the lock is not waited for. *)
LockAlways == TRUE
LockFree == roleLock = {}

SetAdminLock(r, u, admin) ==
    /\ Calling(r, "admin") /\ LockFree
    /\ roleLock' = roleLock \cup {r}
    /\ CallGo(r, [pc |-> "role", user |-> u, admin |-> admin])
    /\ UNCHANGED <<users, keys, cliDemoted>>

SetAdminRead(r) ==
    LET u == adminCall[r].user
    IN /\ Calling(r, "role")
       /\ UNCHANGED <<users, keys, cliDemoted>>
       /\ \/ /\ u \notin Known
             /\ CallEnd(r) /\ roleLock' = roleLock \ {r}
          \/ /\ u \in Known /\ users[u].admin /\ ~adminCall[r].admin
             /\ CallGo(r, [adminCall[r] EXCEPT !.pc = "count"]) /\ UNCHANGED roleLock
          \/ /\ u \in Known /\ (users[u].admin => adminCall[r].admin)
             /\ CallGo(r, [pc |-> "write", user |-> u, admin |-> adminCall[r].admin,
                           changed |-> users[u].admin # adminCall[r].admin])
             /\ UNCHANGED roleLock

(* LastAdminError when one administrator is left. *)
LastOne == Cardinality(Administrators) = 1

SetAdminCount(r) ==
    /\ Calling(r, "count")
    /\ UNCHANGED <<users, keys, cliDemoted>>
    /\ \/ LastOne /\ CallEnd(r) /\ roleLock' = roleLock \ {r}
       \/ /\ ~LastOne /\ UNCHANGED roleLock
          /\ CallGo(r, [pc |-> "write", user |-> adminCall[r].user, admin |-> FALSE,
                        changed |-> TRUE])

(* Only an attribute that changed is written. *)
SetAdminWrite(r) ==
    /\ Calling(r, "write")
    /\ users' = IF adminCall[r].changed
                THEN [users EXCEPT ![adminCall[r].user].admin = adminCall[r].admin]
                ELSE users
    /\ CallEnd(r) /\ roleLock' = roleLock \ {r}
    /\ UNCHANGED <<keys, cliDemoted>>

(***************************************************************************)
(* create_user: one transaction for the row (a known address is refused),  *)
(* on the web a second one for the role; either may be the last to run.    *)
(***************************************************************************)
Inserted(u) == [v \in Known \cup {u} |->
    IF v \in Known THEN users[v] ELSE [admin |-> FALSE, password |-> "none"]]

CreateUser(c, u, admin) ==
    /\ \/ Calling(c, "admin")
       \/ c \in Operators /\ Calling(c, "idle") /\ ~admin
    /\ users' = Inserted(u)
    /\ IF u \notin Known /\ admin THEN CallGo(c, [pc |-> "promote", user |-> u])
                                  ELSE CallEnd(c)
    /\ UNCHANGED <<keys, roleLock, cliDemoted>>

Promote(r) ==
    /\ Calling(r, "promote")
    /\ users' = [users EXCEPT ![adminCall[r].user].admin = TRUE]
    /\ CallEnd(r)
    /\ UNCHANGED <<keys, roleLock, cliDemoted>>

(***************************************************************************)
(* Keys.  On the web the administrator's password is verified against the  *)
(* hash read with the session; a command needs none.                       *)
(***************************************************************************)
IssueKey(c, u, password) ==
    /\ \/ Calling(c, "admin") /\ password = adminCall[c].password /\ password # "none"
       \/ c \in Operators /\ Calling(c, "idle")
    /\ u \in Known /\ Cardinality(DOMAIN keys) < MaxKeys
    /\ keys' = [k \in DOMAIN keys \cup {Cardinality(DOMAIN keys) + 1} |->
                   IF k \in DOMAIN keys THEN keys[k] ELSE [owner |-> u, revoked |-> FALSE]]
    /\ CallEnd(c)
    /\ UNCHANGED <<users, roleLock, cliDemoted>>

(* revoke_for_user on the web, revoke in the command line. *)
RevokeKey(c, u, k) ==
    /\ \/ Calling(c, "admin") /\ u \in Known /\ keys[k].owner = u
       \/ c \in Operators /\ Calling(c, "idle")
    /\ ~keys[k].revoked
    /\ keys' = [keys EXCEPT ![k].revoked = TRUE]
    /\ CallEnd(c)
    /\ UNCHANGED <<users, roleLock, cliDemoted>>

(* A request that reads only, is refused, fails or is cancelled; what it   *)
(* committed stays, and its lock goes with its transaction.                *)
Leave(c) ==
    /\ ~Calling(c, "idle")
    /\ CallEnd(c) /\ roleLock' = roleLock \ {c}
    /\ UNCHANGED <<users, keys, cliDemoted>>

(***************************************************************************)
(* grant-admin, revoke-admin and set-password read the user, then write,   *)
(* without the lock and without counting.                                  *)
(***************************************************************************)
Command(o, u, admin) ==
    /\ Calling(o, "idle") /\ u \in Known
    /\ CallGo(o, [pc |-> "command", user |-> u, admin |-> admin])
    /\ UNCHANGED <<users, keys, roleLock, cliDemoted>>

SetRole(o) ==
    /\ Calling(o, "command")
    /\ users' = [users EXCEPT ![adminCall[o].user].admin = adminCall[o].admin]
    /\ cliDemoted' = (cliDemoted \/ ~adminCall[o].admin)
    /\ CallEnd(o)
    /\ UNCHANGED <<keys, roleLock>>

SetPassword(o, password) ==
    /\ Calling(o, "command")
    /\ users' = [users EXCEPT ![adminCall[o].user].password = password]
    /\ CallEnd(o)
    /\ UNCHANGED <<keys, roleLock, cliDemoted>>

AdministrationNext ==
    \/ \E r \in Admins :
          \/ \E u \in People : Authenticate(r, u)
          \/ \E u \in People, admin \in BOOLEAN : SetAdminLock(r, u, admin)
          \/ SetAdminRead(r) \/ SetAdminCount(r) \/ SetAdminWrite(r) \/ Promote(r)
    \/ \E c \in Callers :
          \/ \E u \in People, admin \in BOOLEAN : CreateUser(c, u, admin)
          \/ \E u \in People, p \in Passwords : IssueKey(c, u, p)
          \/ \E u \in People, k \in DOMAIN keys : RevokeKey(c, u, k)
          \/ Leave(c)
    \/ \E o \in Operators :
          \/ \E u \in People, admin \in BOOLEAN : Command(o, u, admin)
          \/ SetRole(o) \/ \E p \in Passwords : SetPassword(o, p)

AdministrationSpec == AdministrationInit /\ [][AdministrationNext]_adminVars

(***************************************************************************)
(* Properties.                                                             *)
(***************************************************************************)
(* However many administrators demote each other or themselves at once,    *)
(* and whatever else the web creates or revokes meanwhile, one remains:    *)
(* only the operator's command line can take the last role away            *)
(* (user_repo.py, set_admin_preserving_last: "refuse removal of the final  *)
(* administrator").                                                        *)
AdminRemains == cliDemoted \/ Administrators # {}
=============================================================================
