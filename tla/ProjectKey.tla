----------------------------- MODULE ProjectKey -----------------------------
(***************************************************************************)
(* The project key of a session (src/plugins/recallum-memory/hooks/        *)
(* recallum_hook.py, _project): the nearest committed anchor, else the     *)
(* remote of the checkout, else its path, while git may time out or be     *)
(* missing and a cache in the git directory stands in for it.              *)
(*                                                                         *)
(* Directories are 1..Depth, each inside the one before; some of them are  *)
(* the root of a repository.  A checkout is the innermost repository of a  *)
(* directory.  Times are tenths of a second; parsing of URLs is left out:  *)
(* a remote has a key or is unusable.                                      *)
(***************************************************************************)
EXTENDS Integers, FiniteSets

CONSTANTS
    Depth,
    RemoteKeys, AnchorKeys,
    GitBudget,   \* GIT_BUDGET_SECONDS
    GitPerCall,  \* _GIT_PER_CALL_SECONDS
    MaxChanges   \* bound: changes of the directories

Dirs == 1..Depth
Absent == "none"
NoRemote == [name |-> Absent, key |-> Absent]
NoKey == <<Absent>>

ASSUME BudgetAssumption == Depth \in Nat /\ GitBudget \in Nat /\ GitPerCall \in Nat

VARIABLES
    repos,    \* directories with a .git
    remote,   \* directory -> its remote
    anchor,   \* directory -> its anchor file: Absent, "malformed" or a key
    keyCache,  \* directory -> the key cached in its .git, or NoKey
    session,  \* the session that is starting
    settled,  \* history: repositories that cached a key since the last change
    had,      \* history: directory -> the remote keys it has had
    changes

directories == <<repos, remote, anchor>>
keyVars == <<repos, remote, anchor, keyCache, session, settled, had, changes>>

Top(d) == {r \in repos : r <= d /\ \A q \in repos : q <= d => q <= r}
Root(d) == IF Top(d) = {} THEN d ELSE CHOOSE r \in Top(d) : TRUE

Nearest(d, S) == {e \in S : e <= d /\ \A f \in S : f <= d => f <= e}
Content(S, file, fallback) == IF S = {} THEN fallback ELSE file[CHOOSE e \in S : TRUE]

(* _anchor_key: a malformed anchor ends the climb.                         *)
AnchorKey(d) ==
    LET content == Content(Nearest(d, {e \in Dirs : anchor[e] # Absent}), anchor, Absent)
    IN IF content \in AnchorKeys THEN <<"anchor", content>> ELSE NoKey

LocalKey(d) == <<"local", d>>

(* _read_cached_key: a repository without a cache is climbed past.         *)
(* Mutant of CachedKey: only a session at the root finds it. *)
CachedAtRoot(d) == IF d \in repos THEN keyCache[d] ELSE NoKey
CachedKey(d) == Content(Nearest(d, {r \in repos : keyCache[r] # NoKey}), keyCache, NoKey)

RemoteKey(r) ==
    IF remote[r].key \in RemoteKeys THEN <<"remote", remote[r].key>> ELSE LocalKey(r)
HealthyKey(d) == IF AnchorKey(d) # NoKey THEN AnchorKey(d) ELSE RemoteKey(Root(d))

KeyInit ==
    /\ repos \in SUBSET Dirs
    /\ remote \in [Dirs -> {NoRemote} \cup [name : {"origin"}, key : RemoteKeys]]
    /\ \A d, e \in Dirs : remote[d] # NoRemote => d \in repos /\ (remote[d] = remote[e] => d = e)
    /\ anchor = [d \in Dirs |-> Absent] /\ keyCache = [d \in Dirs |-> NoKey]
    /\ session = [pc |-> "idle"]
    /\ settled = {} /\ had = [d \in Dirs |-> {remote[d].key} \cap RemoteKeys]
    /\ changes = 0

(***************************************************************************)
(* A session: the anchor, then git, one attempt at a time.                 *)
(***************************************************************************)
Ends(key, t) == session' = [pc |-> "done", dir |-> session.dir, spent |-> session.spent + t,
                            key |-> key, settled |-> session.settled,
                            own |-> had[session.root] \cup had[Root(session.dir)]]

StartSession(d) ==
    /\ session.pc \in {"idle", "done"}
    /\ session' =
          LET started == [pc |-> "root", dir |-> d, root |-> d, spent |-> 0, attempt |-> 1,
                          settled |-> Root(d) \in settled]
          IN IF AnchorKey(d) = NoKey THEN started
             ELSE [pc |-> "done", dir |-> d, spent |-> 0, key |-> AnchorKey(d),
                   settled |-> started.settled, own |-> {}]
    /\ UNCHANGED <<directories, keyCache, settled, had, changes>>

Asking == session.pc \in {"root", "origin", "names", "first"}

(* Mutant of Timeout: the retry forgets the deadline. *)
OwnTimeout == GitPerCall * session.attempt
Timeout ==
    LET left == GitBudget - session.spent
    IN IF left < GitPerCall * session.attempt THEN left ELSE GitPerCall * session.attempt
InTime == session.spent < GitBudget

(* What git answers, and where the key derivation goes from there.         *)
Asks(pc, root, t) ==
    session' = [session EXCEPT !.pc = pc, !.root = root, !.spent = @ + t, !.attempt = 1]
GitAnswers ==
    /\ Asking /\ InTime
    /\ \E t \in {0, Timeout} :
          LET here == remote[session.root].name
          IN CASE session.pc = "root" -> Asks("origin", Root(session.dir), t)
               [] session.pc = "origin" ->
                    Asks(IF here = "origin" THEN "derive" ELSE "names", session.root, t)
               [] session.pc = "names" ->
                    Asks(IF here = Absent THEN "derive" ELSE "first", session.root, t)
               [] session.pc = "first" -> Asks("derive", session.root, t)
    /\ UNCHANGED <<directories, keyCache, settled, had, changes>>

GitRetries ==
    /\ Asking /\ InTime /\ session.attempt = 1
    /\ session' = [session EXCEPT !.attempt = 2, !.spent = @ + Timeout]
    /\ UNCHANGED <<directories, keyCache, settled, had, changes>>

(* A second timeout, a missing binary or no time left: the answer is       *)
(* unknown, and the last key of the checkout is reused.                    *)
GitFails ==
    /\ Asking
    /\ \E t \in IF InTime THEN {0, Timeout} ELSE {0} :
          /\ t # 0 => session.attempt = 2
          /\ Ends(IF CachedKey(session.dir) # NoKey THEN CachedKey(session.dir)
                  ELSE LocalKey(IF session.pc = "root" THEN session.dir ELSE session.root), t)
    /\ UNCHANGED <<directories, keyCache, settled, had, changes>>

(* _remote_key and _write_cached_key, which may fail.                      *)
Derive ==
    /\ session.pc = "derive"
    /\ LET r == session.root
       IN /\ Ends(RemoteKey(r), 0)
          /\ \/ r \in repos /\ keyCache' = [keyCache EXCEPT ![r] = RemoteKey(r)]
                /\ settled' = settled \cup {r}
             \/ UNCHANGED <<keyCache, settled>>
    /\ UNCHANGED <<directories, had, changes>>

(***************************************************************************)
(* The user: other remotes, nested clones, recallum init.                  *)
(***************************************************************************)
Changed ==
    /\ changes < MaxChanges /\ changes' = changes + 1
    /\ settled' = {}
    /\ session' = IF session.pc = "idle" THEN session ELSE [session EXCEPT !.settled = FALSE]
    /\ had' = [d \in Dirs |-> had[d] \cup ({remote'[d].key} \cap RemoteKeys)]

SetRemote(r, name, key) ==
    /\ r \in repos /\ remote' = [remote EXCEPT ![r] = [name |-> name, key |-> key]]
    /\ Changed /\ UNCHANGED <<repos, anchor, keyCache>>

Clone(r, key) ==
    /\ repos' = repos \cup {r}
    /\ remote' = [remote EXCEPT ![r] = [name |-> "origin", key |-> key]]
    /\ keyCache' = [keyCache EXCEPT ![r] = NoKey]
    /\ Changed /\ UNCHANGED anchor

(* _init_anchor: at the root, or where it was called when git fails.       *)
InitAnchor(d, key) ==
    /\ \E root \in {Root(d), d} :
          /\ anchor[root] \notin AnchorKeys
          /\ anchor' = [anchor EXCEPT ![root] = key]
    /\ UNCHANGED <<repos, remote, keyCache>> /\ Changed

BreakAnchor(d) ==
    /\ anchor[d] \in AnchorKeys /\ anchor' = [anchor EXCEPT ![d] = "malformed"]
    /\ UNCHANGED <<repos, remote, keyCache>> /\ Changed

KeyNext ==
    \/ \E d \in Dirs : StartSession(d)
    \/ GitAnswers \/ GitRetries \/ GitFails \/ Derive
    \/ \E r \in Dirs, key \in RemoteKeys :
          SetRemote(r, "other", key) \/ SetRemote(r, "origin", "unusable") \/ Clone(r, key)
    \/ \E d \in Dirs : (\E key \in AnchorKeys : InitAnchor(d, key)) \/ BreakAnchor(d)

KeySpec == KeyInit /\ [][KeyNext]_keyVars

(***************************************************************************)
(* Properties.                                                             *)
(***************************************************************************)
(* Once a session of a checkout has cached its key, every session in any   *)
(* of its directories has that key until something changes, whichever git  *)
(* call times out ("the cache keeps the session on the same project key    *)
(* instead of fragmenting memory", CACHE_FILE).                            *)
KeptKey == session.pc = "done" /\ session.settled => session.key = HealthyKey(session.dir)

(* The probes and their retries share one deadline ("git gets at most 2 s  *)
(* no matter how many probes are needed", GIT_BUDGET_SECONDS).             *)
GitWithinBudget == session.pc # "idle" => session.spent <= GitBudget

(* A session gets the remote key of its own checkout only ("reuse the last *)
(* key this checkout derived", _project): memories of one repository are   *)
(* not stored under another.                                               *)
OwnKey ==
    session.pc = "done" /\ session.key[1] = "remote"
        => session.key[2] \in session.own

(* What a session start gets: its key, and in time.                        *)
KeyInTime == KeptKey /\ GitWithinBudget
=============================================================================
