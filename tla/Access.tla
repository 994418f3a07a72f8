------------------------------- MODULE Access -------------------------------
(***************************************************************************)
(* Who gets in: MCP requests with a bearer token and web logins, against   *)
(* one limiter (FixedWindow), the identity cache of TokenAuthenticator     *)
(* (src/recallum/auth/middleware.py) and the api_keys table.               *)
(*                                                                         *)
(* A request is: reserve, authenticate, answer, release unless it failed   *)
(* to authenticate.  Its database reads and its answer are steps of their  *)
(* own, so time passes, keys are revoked and other requests run between    *)
(* them.  last_used_at, the claims and the session created by a login are  *)
(* not kept (WebSessions has the sessions).                                *)
(***************************************************************************)
EXTENDS FixedWindow

CONSTANTS
    Attempts,          \* requests in progress at one time
    Ips, Accounts,
    ApiKeys,           \* tokens whose hash is in api_keys
    BadTokens,         \* tokens whose hash is not
    McpAttempts, IpAttempts, AccountAttempts,   \* limits
    McpWindow, IpWindow, AccountWindow,         \* window lengths
    CacheTtl, MaxCached,
    MaxClock,          \* bound: the clock
    MaxReservations    \* bound: generations of buckets

ASSUME LimitsAssumption ==
    /\ {McpAttempts, IpAttempts, AccountAttempts} \subseteq Nat \ {0}
    /\ {McpWindow, IpWindow, AccountWindow} \subseteq Nat \ {0}
    /\ CacheTtl \in Nat /\ MaxCached \in Nat \ {0}
    /\ MaxEntries \in Nat /\ MaxEntries >= 3
ASSUME TokensAssumption == ApiKeys \cap BadTokens = {}

Tokens == ApiKeys \cup BadTokens

(* The keys of the limiter: mcp-auth-ip, login-ip, login-account and       *)
(* login-account-global.                                                   *)
McpKey(ip)        == [kind |-> "mcp", ip |-> ip]
LoginKey(ip)      == [kind |-> "login", ip |-> ip]
AccountKey(ip, a) == [kind |-> "account", ip |-> ip, account |-> a]
GlobalKey(a)      == [kind |-> "global", account |-> a]

AllBucketKeys ==
    {McpKey(ip) : ip \in Ips} \cup {LoginKey(ip) : ip \in Ips}
    \cup {AccountKey(ip, a) : ip \in Ips, a \in Accounts}
    \cup {GlobalKey(a) : a \in Accounts}

ASSUME KeysAssumption == BucketKeys = AllBucketKeys

LimitOf(k) == CASE k.kind = "mcp" -> McpAttempts
                [] k.kind = "login" -> IpAttempts
                [] OTHER -> AccountAttempts
WindowOf(k) == CASE k.kind = "mcp" -> McpWindow
                 [] k.kind = "login" -> IpWindow
                 [] OTHER -> AccountWindow
Specs(keys) == [i \in DOMAIN keys |->
    [key |-> keys[i], limit |-> LimitOf(keys[i]), window |-> WindowOf(keys[i])]]

VARIABLES
    clock,    \* the monotonic clock
    attempt,  \* request -> its step and local state
    cache,    \* token -> when its entry expires, for the tokens cached
    revoked,  \* api key -> when it was revoked, for the keys that were
    failed,   \* history: key -> failures charged to its last bucket
    late      \* history: keys revoked between a lookup and its insertion

accessVars == <<buckets, generation, clock, attempt, cache, revoked, failed, late>>

Turn(r, state) == attempt' = [attempt EXCEPT ![r] = state]
At(r, where) == attempt[r].pc = where
Held(r) == IF At(r, "idle") THEN {} ELSE attempt[r].held

AccessInit ==
    /\ LimiterInit
    /\ clock = 0
    /\ attempt = [r \in Attempts |-> [pc |-> "idle"]]
    /\ cache = [t \in {} |-> 0] /\ revoked = [t \in {} |-> 0]
    /\ failed = [k \in BucketKeys |-> 0] /\ late = {}

(***************************************************************************)
(* MCPAuthRateLimitMiddleware and login both reserve before they           *)
(* authenticate; a refusal is answered 429.                                *)
(***************************************************************************)
Reserved(specs) ==
    {[key |-> specs[i].key, generation |-> buckets'[specs[i].key].generation] :
        i \in DOMAIN specs}

Admit(r, keys, state) ==
    LET specs == Specs(keys)
    IN /\ At(r, "idle")
       /\ UNCHANGED <<clock, cache, revoked, late>>
       /\ \/ /\ Exceeded(specs, clock) /\ Refuse(clock)
             /\ UNCHANGED <<attempt, failed>>
          \/ /\ ~Exceeded(specs, clock) /\ Reserve(specs, clock)
             /\ generation' <= MaxReservations
             /\ failed' = [k \in BucketKeys |->
                    IF k \in KeysOf(specs) \ Live(clock) THEN 0 ELSE failed[k]]
             /\ Turn(r, [state EXCEPT !.held = Reserved(specs)])

McpRequest(r, ip, t) ==
    Admit(r, <<McpKey(ip)>>, [pc |-> "auth", token |-> t, held |-> {}])

PasswordLogin(r, ip, a) ==
    Admit(r, <<LoginKey(ip), AccountKey(ip, a), GlobalKey(a)>>,
          [pc |-> "verify", held |-> {}])

(***************************************************************************)
(* TokenAuthenticator.authenticate: a live cache entry, or one lookup and  *)
(* an entry for what it found.                                             *)
(***************************************************************************)
Without(t) == [u \in DOMAIN cache \ {t} |-> cache[u]]
Accept(r) ==
    Turn(r, [pc |-> "ok", token |-> attempt[r].token, held |-> attempt[r].held, at |-> clock])

(* _cached: an entry counts until it expires. *)
(* Mutant of EntryLives: what is in the cache is taken. *)
InCache(t)    == t \in DOMAIN cache
EntryLives(t) == t \in DOMAIN cache /\ clock < cache[t]

Cached(r) ==
    /\ At(r, "auth") /\ EntryLives(attempt[r].token)
    /\ Accept(r)
    /\ UNCHANGED <<limiter, clock, cache, revoked, failed, late>>

(* find_active_by_hash: a key that is not revoked. *)
Lookup(r) ==
    LET t == attempt[r].token
    IN /\ At(r, "auth") /\ ~EntryLives(t)
       /\ cache' = Without(t)
       /\ t \in ApiKeys \ DOMAIN revoked
       /\ Turn(r, [attempt[r] EXCEPT !.pc = "found"])
       /\ UNCHANGED <<limiter, clock, revoked, failed, late>>

(* _remember: a full cache first drops what expired, then the entry        *)
(* closest to its expiry.                                                  *)
Dropped(C) == IF Cardinality(C) < MaxCached THEN {{}}
              ELSE {{t} : t \in {u \in C : \A v \in C : cache[u] <= cache[v]}}

Remembered(t) ==
    LET kept == IF Cardinality(DOMAIN cache) < MaxCached THEN DOMAIN cache
                ELSE {u \in DOMAIN cache : clock < cache[u]}
    IN \E D \in Dropped(kept) :
          cache' = [u \in (kept \ D) \cup {t} |->
                        IF u = t THEN clock + CacheTtl ELSE cache[u]]

Remember(r) ==
    /\ At(r, "found")
    /\ \/ CacheTtl = 0 /\ UNCHANGED cache
       \/ CacheTtl > 0 /\ Remembered(attempt[r].token)
    /\ Accept(r)
    /\ UNCHANGED <<limiter, clock, revoked, failed, late>>

(***************************************************************************)
(* Answers.  401 keeps the reservations; anything else, a cancellation     *)
(* included, releases them.  A login's releases are shielded tasks, so     *)
(* each is a step.                                                         *)
(***************************************************************************)
(* Keeping a reservation charges the bucket it still holds. *)
Charged(held) == [k \in BucketKeys |->
    IF \E res \in held : res.key = k /\ Holds(res) THEN failed[k] + 1 ELSE failed[k]]

Fail(r) ==
    /\ failed' = Charged(Held(r))
    /\ Turn(r, [pc |-> "idle"])
    /\ UNCHANGED <<limiter, clock, revoked, late>>

Unknown(r) ==
    LET t == attempt[r].token
    IN /\ At(r, "auth") /\ ~EntryLives(t)
       /\ cache' = Without(t)
       /\ t \notin ApiKeys \ DOMAIN revoked
       /\ Fail(r)

WrongPassword(r) == At(r, "verify") /\ Fail(r) /\ UNCHANGED cache

(* Accepted, refused by an error, or cancelled while it awaits. *)
Settled(r) == [pc |-> "release", held |-> Held(r)]

Settle(r) ==
    /\ ~At(r, "idle") /\ ~At(r, "release")
    /\ Turn(r, Settled(r))
    /\ UNCHANGED <<limiter, clock, cache, revoked, failed, late>>

ReleaseOne(r) ==
    \E res \in Held(r) :
        /\ At(r, "release")
        /\ Release(res)
        /\ Turn(r, [attempt[r] EXCEPT !.held = @ \ {res}])
        /\ UNCHANGED <<clock, cache, revoked, failed, late>>

Done(r) ==
    /\ At(r, "release") /\ Held(r) = {}
    /\ Turn(r, [pc |-> "idle"])
    /\ UNCHANGED <<limiter, clock, cache, revoked, failed, late>>

(***************************************************************************)
(* The world: time, and revocation by an administrator or the owner.       *)
(***************************************************************************)
Revoke(t) ==
    /\ t \in ApiKeys \ DOMAIN revoked
    /\ revoked' = [u \in DOMAIN revoked \cup {t} |-> IF u = t THEN clock ELSE revoked[u]]
    /\ late' = IF \E r \in Attempts : At(r, "found") /\ attempt[r].token = t
               THEN late \cup {t} ELSE late
    /\ UNCHANGED <<limiter, clock, attempt, cache, failed>>

ClockTick ==
    /\ clock < MaxClock /\ clock' = clock + 1
    /\ UNCHANGED <<limiter, attempt, cache, revoked, failed, late>>

AccessNext ==
    \/ \E r \in Attempts :
          \/ \E ip \in Ips : \/ \E t \in Tokens : McpRequest(r, ip, t)
                             \/ \E a \in Accounts : PasswordLogin(r, ip, a)
          \/ Cached(r) \/ Lookup(r) \/ Remember(r) \/ Unknown(r)
          \/ WrongPassword(r) \/ Settle(r) \/ ReleaseOne(r) \/ Done(r)
    \/ \E t \in ApiKeys : Revoke(t)
    \/ ClockTick

AccessSpec == AccessInit /\ [][AccessNext]_accessVars

(***************************************************************************)
(* Properties.                                                             *)
(***************************************************************************)
(* A bucket counts exactly the requests in progress that reserved from it  *)
(* and the failures charged to it since it was created: eviction, a window *)
(* that ends, cancellation and late releases never free somebody else's    *)
(* charge, and a request that did not fail never leaves one behind         *)
(* (http_boundary.py, FixedWindowLimiter and its two callers).  So no      *)
(* client gets past a limit, and neither map outgrows its own.             *)
InProgress(k) ==
    {r \in Attempts : [key |-> k, generation |-> buckets[k].generation] \in Held(r)}
CountsAreCharges ==
    /\ \A k \in DOMAIN buckets :
          /\ buckets[k].count = Cardinality(InProgress(k)) + failed[k]
          /\ buckets[k].count <= LimitOf(k)
    /\ Cardinality(DOMAIN buckets) <= MaxEntries /\ Cardinality(DOMAIN cache) <= MaxCached

(* A revoked key is refused once the cache's window has passed since its   *)
(* revocation, however often it is used meanwhile, unless its revocation   *)
(* fell between a lookup and its insertion (auth/middleware.py).           *)
RevocationDelay ==
    \A r \in Attempts : At(r, "ok") =>
        LET t == attempt[r].token
        IN t \in DOMAIN revoked \ late => attempt[r].at <= revoked[t] + CacheTtl

(* What the class promises without that exception: 30 seconds is "the      *)
(* maximum revocation delay: a revoked key can keep working until that     *)
(* window ends" (auth/middleware.py).                                      *)
MaximumRevocationDelay ==
    \A r \in Attempts : At(r, "ok") =>
        LET t == attempt[r].token
        IN t \in DOMAIN revoked => attempt[r].at <= revoked[t] + CacheTtl
=============================================================================
