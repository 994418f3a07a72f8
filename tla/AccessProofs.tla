---------------------------- MODULE AccessProofs ----------------------------
(***************************************************************************)
(* Who may ask, and for what: the identity cache against revocation, the   *)
(* counts of the rate limiter, the last-administrator rule, and the key of *)
(* the project a hook asks about; and the versions of a learned skill; for *)
(* any number of requests, keys, buckets, administrators, directories and  *)
(* concurrent saves, and any limits.                                       *)
(***************************************************************************)
EXTENDS Access, Administration, ProjectKey, Skills, Functions, FiniteSetTheorems, TLAPS

(***************************************************************************)
(* A request that looks a token up or was accepted with one names it; the  *)
(* reservations it holds play no part here.                                *)
(***************************************************************************)
Shape(a) ==
    \/ a.pc \in {"auth", "found"} /\ a = [pc |-> a.pc, token |-> a.token, held |-> a.held]
    \/ /\ a.pc = "ok" /\ a.at \in Nat
       /\ a = [pc |-> a.pc, token |-> a.token, held |-> a.held, at |-> a.at]
    \/ a.pc \in {"verify", "release"} /\ a = [pc |-> a.pc, held |-> a.held]
    \/ a.pc = "idle" /\ a = [pc |-> "idle"]

DelayType ==
    /\ clock \in Nat
    /\ DOMAIN attempt = Attempts /\ attempt = [r \in Attempts |-> attempt[r]]
    /\ \A r \in Attempts : Shape(attempt[r])
    /\ \A t \in DOMAIN cache : cache[t] \in Nat
    /\ \A t \in DOMAIN revoked : revoked[t] \in Nat

(***************************************************************************)
(* A key revoked while no request was between its lookup and its insertion *)
(* gains no entry afterwards, and the entry it had was made before: so it  *)
(* ends at most one cache lifetime after the revocation.                   *)
(***************************************************************************)
Entries == \A t \in DOMAIN cache : cache[t] <= clock + CacheTtl
Past ==
    /\ \A t \in DOMAIN revoked : revoked[t] <= clock
    /\ \A r \in Attempts : At(r, "ok") => attempt[r].at <= clock
KnownRevoked == DOMAIN revoked \ late
EntriesEnd == \A t \in KnownRevoked : t \in DOMAIN cache => cache[t] <= revoked[t] + CacheTtl
NoneFound == \A t \in KnownRevoked, r \in Attempts : At(r, "found") => attempt[r].token # t

DelayInv == DelayType /\ Entries /\ Past /\ EntriesEnd /\ NoneFound /\ RevocationDelay

LEMMA DelayStart == AccessInit => DelayInv
BY DEF AccessInit, DelayInv, DelayType, Shape, Entries, Past, KnownRevoked, EntriesEnd, NoneFound,
   RevocationDelay, At

(***************************************************************************)
(* What a request does to itself.                                          *)
(***************************************************************************)
LEMMA TurnTaken ==
    ASSUME DelayType, NEW r \in Attempts, NEW a, Shape(a), Turn(r, a)
    PROVE /\ DOMAIN attempt' = Attempts /\ attempt' = [s \in Attempts |-> attempt'[s]]
          /\ \A s \in Attempts : attempt'[s] = IF s = r THEN a ELSE attempt[s]
          /\ \A s \in Attempts : Shape(attempt'[s])
<1>1. \A s \in Attempts : attempt'[s] = IF s = r THEN a ELSE attempt[s]
  BY DEF DelayType, Turn
<1> QED BY <1>1 DEF DelayType, Turn

(* A step that adds no entry, finds nothing and accepts nobody.            *)
LEMMA QuietStep ==
    ASSUME DelayInv, NEW r \in Attempts, NEW a, Shape(a), Turn(r, a), a.pc \notin {"found", "ok"},
           UNCHANGED <<clock, revoked, late>>,
           DOMAIN cache' \subseteq DOMAIN cache, \A t \in DOMAIN cache' : cache'[t] = cache[t]
    PROVE DelayInv'
<1>1. /\ DOMAIN attempt' = Attempts /\ attempt' = [s \in Attempts |-> attempt'[s]]
      /\ \A s \in Attempts : attempt'[s] = IF s = r THEN a ELSE attempt[s]
      /\ \A s \in Attempts : Shape(attempt'[s])
  BY TurnTaken DEF DelayInv
<1>2. DelayType'
  BY <1>1 DEF DelayInv, DelayType
<1>3. \A s \in Attempts : attempt'[s].pc \in {"found", "ok"} => attempt'[s] = attempt[s]
  BY <1>1
<1>4. Entries' /\ Past' /\ EntriesEnd'
  BY <1>3 DEF DelayInv, Entries, Past, EntriesEnd, KnownRevoked, At
<1>5. NoneFound' /\ RevocationDelay'
  BY <1>3 DEF DelayInv, NoneFound, RevocationDelay, KnownRevoked, At
<1> QED BY <1>2, <1>4, <1>5 DEF DelayInv

(* Fields of a record.                                                     *)
LEMMA Idle == Shape([pc |-> "idle"])
BY DEF Shape

LEMMA Arriving ==
    ASSUME DelayInv, NEW r \in Attempts,
           \/ \E ip \in Ips, t \in Tokens : McpRequest(r, ip, t)
           \/ \E ip \in Ips, a \in Accounts : PasswordLogin(r, ip, a)
    PROVE DelayInv'
<1>1. ASSUME NEW asked, NEW state, Shape(state), state.pc \in {"auth", "verify"},
             Admit(r, asked, state)
      PROVE DelayInv'
  <2>1. CASE UNCHANGED attempt
    BY <1>1, <2>1 DEF Admit, DelayInv, DelayType, Entries, Past, EntriesEnd, NoneFound,
       RevocationDelay, KnownRevoked, At
  <2>2. ASSUME NEW h, Turn(r, [state EXCEPT !.held = h]) PROVE DelayInv'
    <3> DEFINE a == [state EXCEPT !.held = h]
    <3>1. Shape(a) /\ a.pc = state.pc
      BY <1>1 DEF Shape
    <3>2. UNCHANGED <<clock, cache, revoked, late>>
      BY <1>1 DEF Admit
    <3> HIDE DEF a
    <3>3. Turn(r, a)
      BY <2>2 DEF a
    <3> QED BY <1>1, <3>1, <3>2, <3>3, QuietStep
  <2> QED BY <1>1, <2>1, <2>2 DEF Admit
<1>2. ASSUME NEW ip \in Ips, NEW t \in Tokens, McpRequest(r, ip, t) PROVE DelayInv'
  <2> DEFINE state == [pc |-> "auth", token |-> t, held |-> {}]
  <2>1. Shape(state) /\ state.pc = "auth"
    BY DEF Shape
  <2>2. Admit(r, <<McpKey(ip)>>, state)
    BY <1>2 DEF McpRequest
  <2> HIDE DEF state
  <2> QED BY <1>1, <2>1, <2>2
<1>3. ASSUME NEW ip \in Ips, NEW a \in Accounts, PasswordLogin(r, ip, a) PROVE DelayInv'
  <2> DEFINE state == [pc |-> "verify", held |-> {}]
  <2>1. Shape(state) /\ state.pc = "verify"
    BY DEF Shape
  <2>2. Admit(r, <<LoginKey(ip), AccountKey(ip, a), GlobalKey(a)>>, state)
    BY <1>3 DEF PasswordLogin
  <2> HIDE DEF state
  <2> QED BY <1>1, <2>1, <2>2
<1> QED BY <1>2, <1>3

LEMMA Leaving ==
    ASSUME DelayInv, NEW r \in Attempts,
           Unknown(r) \/ WrongPassword(r) \/ Settle(r) \/ ReleaseOne(r) \/ Done(r)
    PROVE DelayInv'
<1>1. Shape(attempt[r])
  BY DEF DelayInv, DelayType
<1>2. CASE Unknown(r)
  BY <1>2, QuietStep, Idle DEF Unknown, Fail, Without
<1>3. CASE WrongPassword(r)
  BY <1>3, QuietStep, Idle DEF WrongPassword, Fail
<1>4. CASE Settle(r)
  <2>1. Shape(Settled(r)) /\ Settled(r).pc = "release"
    BY DEF Shape, Settled
  <2> QED BY <1>4, <2>1, QuietStep DEF Settle
<1>5. CASE ReleaseOne(r)
  <2>1. PICK h : Turn(r, [attempt[r] EXCEPT !.held = h])
    BY <1>5 DEF ReleaseOne
  <2> DEFINE a == [attempt[r] EXCEPT !.held = h]
  <2>2. attempt[r].pc = "release" /\ UNCHANGED <<clock, cache, revoked, late>>
    BY <1>5 DEF ReleaseOne, At
  <2>3. Shape(a) /\ a.pc = "release"
    BY <1>1, <2>2 DEF Shape
  <2> HIDE DEF a
  <2>4. Turn(r, a)
    BY <2>1 DEF a
  <2> QED BY <2>2, <2>3, <2>4, QuietStep
<1>6. CASE Done(r)
  BY <1>6, QuietStep, Idle DEF Done
<1> QED BY <1>2, <1>3, <1>4, <1>5, <1>6

(***************************************************************************)
(* The lookup finds only keys that are not revoked.                        *)
(***************************************************************************)
LEMMA LookingUp ==
    ASSUME DelayInv, NEW r \in Attempts, Lookup(r)
    PROVE DelayInv'
<1> DEFINE a == [attempt[r] EXCEPT !.pc = "found"]
<1>1. /\ Shape(attempt[r]) /\ attempt[r].pc = "auth" /\ UNCHANGED <<clock, revoked, late>>
      /\ cache' = Without(attempt[r].token) /\ attempt[r].token \notin DOMAIN revoked
      /\ Turn(r, a)
  BY DEF DelayInv, DelayType, Lookup, At
<1>2. Shape(a) /\ a.pc = "found" /\ a.token = attempt[r].token
  BY <1>1 DEF Shape
<1> HIDE DEF a
<1>3. /\ DOMAIN attempt' = Attempts /\ attempt' = [s \in Attempts |-> attempt'[s]]
      /\ \A s \in Attempts : attempt'[s] = IF s = r THEN a ELSE attempt[s]
      /\ \A s \in Attempts : Shape(attempt'[s])
  BY <1>1, <1>2, TurnTaken DEF DelayInv
<1>4. /\ DOMAIN cache' \subseteq DOMAIN cache
      /\ \A t \in DOMAIN cache' : cache'[t] = cache[t]
  BY <1>1 DEF Without
<1>5. DelayType'
  BY <1>1, <1>3, <1>4 DEF DelayInv, DelayType
<1>6. Entries' /\ EntriesEnd'
  BY <1>1, <1>4 DEF DelayInv, Entries, EntriesEnd, KnownRevoked
<1>7. Past' /\ RevocationDelay'
  BY <1>1, <1>2, <1>3 DEF DelayInv, Past, RevocationDelay, At
<1>8. NoneFound'
  BY <1>1, <1>2, <1>3 DEF DelayInv, NoneFound, KnownRevoked, At
<1> QED BY <1>5, <1>6, <1>7, <1>8 DEF DelayInv

(***************************************************************************)
(* A request is accepted at this instant, from an entry that has not       *)
(* expired or after a lookup.                                              *)
(***************************************************************************)
Accepted(r) == [pc |-> "ok", token |-> attempt[r].token, held |-> attempt[r].held, at |-> clock]

LEMMA Accepting ==
    ASSUME DelayInv, NEW r \in Attempts, Accept(r), UNCHANGED <<clock, revoked, late>>,
           attempt[r].token \in KnownRevoked => clock <= revoked[attempt[r].token] + CacheTtl,
           \A t \in DOMAIN cache' : cache'[t] \in Nat, Entries', EntriesEnd'
    PROVE DelayInv'
<1>1. clock \in Nat
  BY DEF DelayInv, DelayType
<1>2. /\ Shape(Accepted(r)) /\ Accepted(r).pc = "ok" /\ Accepted(r).at = clock
      /\ Accepted(r).token = attempt[r].token
  BY <1>1 DEF Shape, Accepted
<1>3. Turn(r, Accepted(r))
  BY DEF Accept, Accepted
<1>4. PICK a : a = Accepted(r)
  OBVIOUS
<1>5. /\ DOMAIN attempt' = Attempts /\ attempt' = [s \in Attempts |-> attempt'[s]]
      /\ \A s \in Attempts : attempt'[s] = IF s = r THEN a ELSE attempt[s]
      /\ \A s \in Attempts : Shape(attempt'[s])
  BY <1>2, <1>3, <1>4, TurnTaken DEF DelayInv
<1>6. DelayType'
  BY <1>1, <1>5 DEF DelayInv, DelayType
<1>7. Past' /\ NoneFound'
  BY <1>1, <1>2, <1>4, <1>5 DEF DelayInv, Past, NoneFound, KnownRevoked, At
<1>8. RevocationDelay'
  BY <1>2, <1>4, <1>5 DEF DelayInv, RevocationDelay, KnownRevoked, At
<1> QED BY <1>6, <1>7, <1>8 DEF DelayInv

LEMMA FromCache ==
    ASSUME DelayInv, NEW r \in Attempts, Cached(r)
    PROVE DelayInv'
<1> DEFINE t == attempt[r].token
<1>1. /\ t \in DOMAIN cache /\ clock < cache[t] /\ cache' = cache /\ Accept(r)
      /\ UNCHANGED <<clock, revoked, late>>
  BY DEF Cached, EntryLives
<1>2. /\ clock \in Nat /\ cache[t] \in Nat /\ CacheTtl \in Nat
      /\ t \in KnownRevoked => revoked[t] \in Nat /\ cache[t] <= revoked[t] + CacheTtl
  BY <1>1, LimitsAssumption DEF DelayInv, DelayType, EntriesEnd, KnownRevoked
<1>3. t \in KnownRevoked => clock <= revoked[t] + CacheTtl
  BY <1>1, <1>2
<1>4. Entries' /\ EntriesEnd' /\ \A u \in DOMAIN cache' : cache'[u] \in Nat
  BY <1>1 DEF DelayInv, DelayType, Entries, EntriesEnd, KnownRevoked
<1> QED BY <1>1, <1>3, <1>4, Accepting

LEMMA FromLookup ==
    ASSUME DelayInv, NEW r \in Attempts, Remember(r)
    PROVE DelayInv'
<1> DEFINE t == attempt[r].token
<1>1. /\ attempt[r].pc = "found" /\ Accept(r) /\ UNCHANGED <<clock, revoked, late>>
      /\ clock \in Nat /\ CacheTtl \in Nat
  BY LimitsAssumption DEF Remember, At, DelayInv, DelayType
<1>2. t \notin KnownRevoked
  BY <1>1 DEF DelayInv, NoneFound, At
<1>3. ASSUME NEW u \in DOMAIN cache'
      PROVE \/ u \in DOMAIN cache /\ cache'[u] = cache[u]
            \/ u = t /\ cache'[u] = clock + CacheTtl
  <2>1. CASE UNCHANGED cache
    BY <1>3, <2>1
  <2>2. CASE Remembered(t)
    <3> DEFINE kept == IF Cardinality(DOMAIN cache) < MaxCached THEN DOMAIN cache
                       ELSE {v \in DOMAIN cache : clock < cache[v]}
    <3>1. PICK D : cache' = [v \in (kept \ D) \cup {t} |->
                                IF v = t THEN clock + CacheTtl ELSE cache[v]]
      BY <2>2 DEF Remembered
    <3>2. kept \subseteq DOMAIN cache
      OBVIOUS
    <3> HIDE DEF kept
    <3> QED BY <1>3, <3>1, <3>2
  <2> QED BY <2>1, <2>2 DEF Remember
<1>4. Entries' /\ \A u \in DOMAIN cache' : cache'[u] \in Nat
  BY <1>1, <1>3 DEF DelayInv, DelayType, Entries
<1>5. EntriesEnd'
  BY <1>1, <1>2, <1>3 DEF DelayInv, EntriesEnd, KnownRevoked
<1> QED BY <1>1, <1>2, <1>4, <1>5, Accepting

(***************************************************************************)
(* Revocation and time.                                                    *)
(***************************************************************************)
LEMMA Revoking ==
    ASSUME DelayInv, NEW k \in ApiKeys, Revoke(k)
    PROVE DelayInv'
<1>1. /\ UNCHANGED <<clock, attempt, cache>> /\ clock \in Nat /\ CacheTtl \in Nat
      /\ DOMAIN revoked' = DOMAIN revoked \cup {k} /\ k \notin DOMAIN revoked
      /\ \A t \in DOMAIN revoked : revoked'[t] = revoked[t]
      /\ revoked'[k] = clock
      /\ late \subseteq late'
      /\ (\E r \in Attempts : At(r, "found") /\ attempt[r].token = k) => k \in late'
  BY LimitsAssumption DEF Revoke, DelayInv, DelayType
<1>2. DelayType'
  BY <1>1 DEF DelayInv, DelayType
<1>3. Entries' /\ Past'
  BY <1>1 DEF DelayInv, Entries, Past, At
<1>4. EntriesEnd'
  BY <1>1 DEF DelayInv, Entries, EntriesEnd, KnownRevoked
<1>5. NoneFound'
  BY <1>1 DEF DelayInv, NoneFound, KnownRevoked, At
<1>6. RevocationDelay'
  <2>1. SUFFICES ASSUME NEW r \in Attempts, attempt[r].pc = "ok",
                        attempt[r].token \in DOMAIN revoked' \ late'
                 PROVE attempt[r].at <= revoked'[attempt[r].token] + CacheTtl
    BY <1>1 DEF RevocationDelay, At
  <2>2. attempt[r].at \in Nat /\ attempt[r].at <= clock
    <3>1. Shape(attempt[r])
      BY DEF DelayInv, DelayType
    <3> QED BY <2>1, <3>1 DEF Shape, DelayInv, Past, At
  <2>3. CASE attempt[r].token = k
    BY <1>1, <2>2, <2>3
  <2>4. CASE attempt[r].token # k
    BY <1>1, <2>1, <2>4 DEF DelayInv, RevocationDelay, At
  <2> QED BY <2>3, <2>4
<1> QED BY <1>2, <1>3, <1>4, <1>5, <1>6 DEF DelayInv

LEMMA Ticking ==
    ASSUME DelayInv, ClockTick
    PROVE DelayInv'
<1>1. /\ clock \in Nat /\ clock' = clock + 1 /\ UNCHANGED <<attempt, cache, revoked, late>>
      /\ CacheTtl \in Nat
  BY LimitsAssumption DEF ClockTick, DelayInv, DelayType
<1>2. DelayType'
  BY <1>1 DEF DelayInv, DelayType
<1>3. Entries'
  BY <1>1 DEF DelayInv, DelayType, Entries
<1>4. Past'
  <2>1. \A r \in Attempts : At(r, "ok") => attempt[r].at \in Nat
    BY DEF DelayInv, DelayType, Shape, At
  <2> QED BY <1>1, <2>1 DEF DelayInv, DelayType, Past, At
<1>5. EntriesEnd' /\ NoneFound' /\ RevocationDelay'
  BY <1>1 DEF DelayInv, EntriesEnd, NoneFound, RevocationDelay, KnownRevoked, At
<1> QED BY <1>2, <1>3, <1>4, <1>5 DEF DelayInv

LEMMA DelayStep == DelayInv /\ [AccessNext]_accessVars => DelayInv'
<1> SUFFICES ASSUME DelayInv, [AccessNext]_accessVars PROVE DelayInv'
  OBVIOUS
<1>1. ASSUME NEW r \in Attempts,
             \/ \E ip \in Ips, t \in Tokens : McpRequest(r, ip, t)
             \/ \E ip \in Ips, a \in Accounts : PasswordLogin(r, ip, a)
      PROVE DelayInv'
  BY <1>1, Arriving
<1>2. ASSUME NEW r \in Attempts, Cached(r) \/ Lookup(r) \/ Remember(r) PROVE DelayInv'
  BY <1>2, FromCache, LookingUp, FromLookup
<1>3. ASSUME NEW r \in Attempts,
             Unknown(r) \/ WrongPassword(r) \/ Settle(r) \/ ReleaseOne(r) \/ Done(r)
      PROVE DelayInv'
  BY <1>3, Leaving
<1>4. ASSUME NEW t \in ApiKeys, Revoke(t) PROVE DelayInv'
  BY <1>4, Revoking
<1>5. CASE ClockTick
  BY <1>5, Ticking
<1>6. CASE UNCHANGED accessVars
  BY <1>6 DEF accessVars, DelayInv, DelayType, Entries, Past, EntriesEnd, NoneFound,
     RevocationDelay, KnownRevoked, At
<1> QED BY <1>1, <1>2, <1>3, <1>4, <1>5, <1>6 DEF AccessNext

LEMMA DelayInvariant == AccessSpec => []DelayInv
BY DelayStart, DelayStep, PTL DEF AccessSpec

(* However often a revoked key is used, it is refused once the lifetime of *)
(* a cache entry has passed since its revocation, unless a request was     *)
(* between its lookup and its insertion at that moment                     *)
(* (auth/middleware.py, TokenAuthenticator).                               *)
THEOREM RevokedInTime == AccessSpec => []RevocationDelay
<1>1. DelayInv => RevocationDelay
  BY DEF DelayInv
<1> QED BY <1>1, DelayInvariant, PTL

(***************************************************************************)
(* The limiter.  A reservation names the generation of the bucket it was   *)
(* made in, and generations only grow: a bucket made now is held by nobody *)
(* who reserved before.                                                    *)
(***************************************************************************)
Reservation == [key : BucketKeys, generation : Nat]
Holding(a) == IF a.pc = "idle" THEN {} ELSE a.held

BucketsOK ==
    /\ generation \in Nat
    /\ DOMAIN buckets \subseteq BucketKeys /\ IsFiniteSet(DOMAIN buckets)
    /\ buckets = [k \in DOMAIN buckets |-> buckets[k]]
    /\ \A k \in DOMAIN buckets : /\ buckets[k] \in Bucket
                                 /\ buckets[k].generation <= generation
RequestsOK ==
    /\ attempt = [r \in Attempts |-> attempt[r]]
    /\ \A r \in Attempts :
          /\ Shape(attempt[r]) /\ Holding(attempt[r]) \subseteq Reservation
          /\ \A res \in Holding(attempt[r]) : res.generation <= generation
CountType ==
    /\ clock \in Nat /\ failed \in [BucketKeys -> Nat] /\ IsFiniteSet(DOMAIN cache)
    /\ BucketsOK /\ RequestsOK

CountInv ==
    /\ CountType /\ \A k \in DOMAIN buckets : IsFiniteSet(InProgress(k))
    /\ CountsAreCharges

LEMMA Limited ==
    /\ MaxEntries \in Nat /\ MaxCached \in Nat /\ MaxCached >= 1
    /\ \A k : LimitOf(k) \in Nat \ {0} /\ WindowOf(k) \in Nat
BY LimitsAssumption DEF LimitOf, WindowOf

LEMMA HeldIsHolding == \A r : Held(r) = Holding(attempt[r])
BY DEF Held, Holding, At

LEMMA CountStart == AccessInit => CountInv
BY FS_EmptySet, Limited
   DEF AccessInit, LimiterInit, CountInv, CountType, BucketsOK, RequestsOK, Shape, Holding,
       CountsAreCharges

(* What reserving does to the buckets.                                     *)
SpecSeq == Seq([key : BucketKeys, limit : Nat \ {0}, window : Nat])

LEMMA SpecIs ==
    ASSUME NEW specs \in SpecSeq, NEW i \in DOMAIN specs
    PROVE specs[i].key \in BucketKeys /\ specs[i].limit \in Nat \ {0} /\ specs[i].window \in Nat
<1>1. PICK T : T = [key : BucketKeys, limit : Nat \ {0}, window : Nat]
  OBVIOUS
<1>2. specs \in Seq(T)
  BY <1>1 DEF SpecSeq
<1>3. specs[i] \in T
  BY <1>2
<1> QED BY <1>1, <1>3

LEMMA KeysAre ==
    ASSUME NEW specs \in SpecSeq
    PROVE KeysOf(specs) \subseteq BucketKeys /\ IsFiniteSet(KeysOf(specs))
<1>2. DOMAIN specs = 1..Len(specs) /\ Len(specs) \in Nat
  BY DEF SpecSeq
<1>1. \A i \in 1..Len(specs) : specs[i].key \in BucketKeys
  BY <1>2, SpecIs
<1> DEFINE f == [i \in 1..Len(specs) |-> specs[i].key]
<1>3. f \in Surjection(1..Len(specs), KeysOf(specs))
  BY <1>1, <1>2 DEF Surjection, KeysOf
<1>4. IsFiniteSet(1..Len(specs))
  BY <1>2, FS_Interval
<1> HIDE DEF f
<1>5. IsFiniteSet(KeysOf(specs))
  BY <1>3, <1>4, FS_Surjection
<1> QED BY <1>1, <1>2, <1>5 DEF KeysOf

(* A new bucket gets a generation of its own.                              *)
LEMMA CreatedIs ==
    ASSUME BucketsOK, NEW specs \in SpecSeq, NEW now
    PROVE /\ Created(specs, Len(specs), now) \in Nat
          /\ generation <= Created(specs, Len(specs), now)
          /\ \A i \in DOMAIN specs : specs[i].key \notin Live(now) =>
                /\ Created(specs, i, now) \in Nat /\ Created(specs, i, now) > generation
                /\ Created(specs, i, now) <= Created(specs, Len(specs), now)
<1> DEFINE New(i) == {j \in 1..i : specs[j].key \notin Live(now)}
<1>1. DOMAIN specs = 1..Len(specs) /\ Len(specs) \in Nat /\ generation \in Nat
  BY DEF SpecSeq, BucketsOK
<1>2. ASSUME NEW i \in 0..Len(specs)
      PROVE IsFiniteSet(New(i)) /\ Cardinality(New(i)) \in Nat
  <2>1. IsFiniteSet(1..i) /\ New(i) \in SUBSET (1..i)
    BY <1>1, FS_Interval
  <2> QED BY <2>1, FS_Subset, FS_CardinalityType
<1>3. ASSUME NEW i \in DOMAIN specs, specs[i].key \notin Live(now)
      PROVE Cardinality(New(i)) >= 1 /\ Cardinality(New(i)) <= Cardinality(New(Len(specs)))
  <2>1. i \in 0..Len(specs) /\ Len(specs) \in 0..Len(specs) /\ i \in New(i)
    BY <1>1, <1>3
  <2>2. New(i) \in SUBSET New(Len(specs))
    BY <1>1
  <2>3. /\ IsFiniteSet(New(i)) /\ Cardinality(New(i)) \in Nat
        /\ IsFiniteSet(New(Len(specs)))
    BY <1>2, <2>1
  <2> HIDE DEF New
  <2>4. New(i) # {}
    BY <2>1
  <2> QED BY <2>2, <2>3, <2>4, FS_EmptySet, FS_Subset
<1>4. \A i : Created(specs, i, now) = generation + Cardinality(New(i))
  BY DEF Created
<1>5. Len(specs) \in 0..Len(specs) /\ \A i \in DOMAIN specs : i \in 0..Len(specs)
  BY <1>1
<1> HIDE DEF New
<1> QED BY <1>1, <1>2, <1>3, <1>4, <1>5

LEMMA ReserveDoes ==
    ASSUME BucketsOK, clock \in Nat, NEW specs \in SpecSeq,
           ~Exceeded(specs, clock), Reserve(specs, clock), NEW K, K = KeysOf(specs)
    PROVE \E S \in SUBSET Live(clock) :
           /\ K \cap Live(clock) \subseteq S
           /\ IsFiniteSet(S \cup K) /\ Cardinality(S \cup K) <= MaxEntries
           /\ DOMAIN buckets' = S \cup K /\ buckets' = [k \in S \cup K |-> buckets'[k]]
           /\ generation' \in Nat /\ generation <= generation'
           /\ \A k \in S \ K : buckets'[k] = buckets[k]
           /\ \A k \in S \cap K :
                 /\ buckets'[k] = [buckets[k] EXCEPT !.count = @ + 1]
                 /\ \E i \in DOMAIN specs :
                       specs[i].key = k /\ buckets[k].count + 1 <= specs[i].limit
           /\ \A k \in K \ S :
                 /\ buckets'[k] \in Bucket /\ buckets'[k].count = 1
                 /\ generation < buckets'[k].generation
                 /\ buckets'[k].generation <= generation'
<1> DEFINE spec(k) == CHOOSE i \in DOMAIN specs : specs[i].key = k
<1>1. PICK S \in Survivors(KeysOf(specs), clock) :
         /\ buckets' = [k \in S \cup KeysOf(specs) |->
                IF k \notin KeysOf(specs) THEN buckets[k]
                ELSE IF k \in S THEN [buckets[k] EXCEPT !.count = @ + 1]
                ELSE [count |-> 1, expires |-> clock + specs[spec(k)].window,
                      generation |-> Created(specs, spec(k), clock)]]
         /\ generation' = Created(specs, Len(specs), clock)
  BY DEF Reserve
<1>2. S \in SUBSET Live(clock) /\ K \cap Live(clock) \subseteq S /\ EnoughRoom(S, K)
  BY <1>1 DEF Survivors
<1>3. IsFiniteSet(S \cup K) /\ Cardinality(S \cup K) <= MaxEntries
  <2>1. IsFiniteSet(DOMAIN buckets) /\ S \in SUBSET (DOMAIN buckets)
    BY <1>2 DEF BucketsOK, Live
  <2>2. IsFiniteSet(S) /\ IsFiniteSet(K)
    BY <2>1, FS_Subset, KeysAre
  <2>3. IsFiniteSet(S \cup K)
    BY <2>2, FS_Union
  <2> QED BY <1>2, <2>3 DEF EnoughRoom
<1>4. ASSUME NEW k \in K \ S
      PROVE /\ buckets'[k] \in Bucket /\ buckets'[k].count = 1
            /\ generation < buckets'[k].generation
            /\ buckets'[k].generation <= generation'
  <2>1. spec(k) \in DOMAIN specs /\ specs[spec(k)].key = k
    BY DEF KeysOf
  <2>2. specs[spec(k)].key \notin Live(clock)
    BY <1>2, <2>1
  <2>3. specs[spec(k)].window \in Nat
    BY <2>1, SpecIs
  <2>4. buckets'[k] = [count |-> 1, expires |-> clock + specs[spec(k)].window,
                       generation |-> Created(specs, spec(k), clock)]
    BY <1>1
  <2> HIDE DEF spec
  <2>5. /\ Created(specs, spec(k), clock) \in Nat /\ Created(specs, spec(k), clock) > generation
        /\ Created(specs, spec(k), clock) <= generation'
    BY <1>1, <2>1, <2>2, CreatedIs
  <2>6. clock + specs[spec(k)].window \in Nat /\ generation \in Nat
    BY <2>3 DEF BucketsOK
  <2> QED BY <2>4, <2>5, <2>6 DEF Bucket
<1>5. ASSUME NEW k \in S \cap K
      PROVE \E i \in DOMAIN specs : specs[i].key = k /\ buckets[k].count + 1 <= specs[i].limit
  <2>1. PICK i \in DOMAIN specs : specs[i].key = k
    BY DEF KeysOf
  <2>2. specs[i].key \in Live(clock) /\ specs[i].limit \in Nat
    BY <1>2, <2>1, SpecIs
  <2>3. buckets[k].count \in Nat
    BY <1>2 DEF BucketsOK, Live, Bucket
  <2>4. ~(buckets[k].count + 1 > specs[i].limit)
    BY <2>1, <2>2 DEF Exceeded
  <2> QED BY <2>1, <2>2, <2>3, <2>4
<1>6. generation' \in Nat /\ generation <= generation'
  BY <1>1, CreatedIs
<1>7. \A k \in S \ K : buckets'[k] = buckets[k]
  BY <1>1
<1>8. \A k \in S \cap K : buckets'[k] = [buckets[k] EXCEPT !.count = @ + 1]
  BY <1>1
<1>9. DOMAIN buckets' = S \cup K /\ buckets' = [k \in S \cup K |-> buckets'[k]]
  BY <1>1
<1> QED BY <1>2, <1>3, <1>4, <1>5, <1>6, <1>7, <1>8, <1>9
(***************************************************************************)
(* A request that moves: who holds what.                                   *)
(***************************************************************************)
HeldBy(k, g) == {r \in Attempts : [key |-> k, generation |-> g] \in Holding(attempt[r])}

LEMMA InProgressIs == \A k : InProgress(k) = HeldBy(k, buckets[k].generation)
BY HeldIsHolding DEF InProgress, HeldBy

LEMMA RequestMoves ==
    ASSUME RequestsOK, generation \in Nat, generation' \in Nat, generation <= generation',
           NEW r \in Attempts, NEW a, Turn(r, a), Shape(a), Holding(a) \subseteq Reservation,
           \A res \in Holding(a) : res.generation <= generation'
    PROVE /\ RequestsOK'
          /\ \A k, g : (HeldBy(k, g))' =
                IF [key |-> k, generation |-> g] \in Holding(a)
                THEN HeldBy(k, g) \cup {r} ELSE HeldBy(k, g) \ {r}
<1>1. /\ attempt' = [q \in Attempts |-> attempt'[q]]
      /\ \A q \in Attempts : attempt'[q] = IF q = r THEN a ELSE attempt[q]
  BY DEF Turn, RequestsOK
<1>2. \A q \in Attempts : \A res \in Holding(attempt[q]) :
         res.generation \in Nat /\ res.generation <= generation
  BY DEF RequestsOK, Reservation
<1>3. RequestsOK'
  BY <1>1, <1>2 DEF RequestsOK
<1> QED BY <1>1, <1>3 DEF HeldBy

LEMMA Admitting ==
    ASSUME CountInv, NEW r \in Attempts, NEW asked \in Seq(BucketKeys), NEW state,
           Shape(state), state.pc \in {"auth", "verify"}, Admit(r, asked, state)
    PROVE CountInv'
<1>1. PICK specs : specs = Specs(asked)
  OBVIOUS
<1>2. /\ specs \in SpecSeq
      /\ \A i \in DOMAIN specs : specs[i].key \in BucketKeys
                                  /\ specs[i].limit = LimitOf(specs[i].key)
  <2>1. \A i \in DOMAIN asked : asked[i] \in BucketKeys
    OBVIOUS
  <2>2. DOMAIN asked = 1..Len(asked) /\ Len(asked) \in Nat
    OBVIOUS
  <2>3. specs = [i \in 1..Len(asked) |->
                    [key |-> asked[i], limit |-> LimitOf(asked[i]), window |-> WindowOf(asked[i])]]
    BY <1>1, <2>2 DEF Specs
  <2>4. \A i \in 1..Len(asked) :
           specs[i] \in [key : BucketKeys, limit : Nat \ {0}, window : Nat]
    BY <2>1, <2>2, <2>3, Limited
  <2>5. specs \in SpecSeq
    BY <2>2, <2>3, <2>4 DEF SpecSeq
  <2> QED BY <2>1, <2>2, <2>3, <2>5
<1>3. At(r, "idle") /\ UNCHANGED <<clock, cache>>
  BY DEF Admit
<1>4. BucketsOK /\ RequestsOK /\ clock \in Nat /\ generation \in Nat
  BY DEF CountInv, CountType, BucketsOK
<1>5. CASE Refuse(clock) /\ UNCHANGED <<attempt, failed>>
  <2>1. /\ DOMAIN buckets' \subseteq DOMAIN buckets /\ UNCHANGED generation
        /\ buckets' = [k \in DOMAIN buckets' |-> buckets'[k]]
        /\ \A k \in DOMAIN buckets' : buckets'[k] = buckets[k]
    BY <1>5 DEF Refuse, Restricted, Live
  <2>2. /\ IsFiniteSet(DOMAIN buckets')
        /\ Cardinality(DOMAIN buckets') <= Cardinality(DOMAIN buckets)
    BY <1>4, <2>1, FS_Subset DEF BucketsOK
  <2>3. CountType'
    BY <1>3, <1>5, <2>1, <2>2 DEF CountInv, CountType, BucketsOK, RequestsOK
  <2>4. \A k \in DOMAIN buckets' : InProgress(k)' = InProgress(k)
    BY <1>5, <2>1 DEF InProgress, Held, At
  <2>5. Cardinality(DOMAIN buckets) \in Nat /\ Cardinality(DOMAIN buckets') \in Nat
    BY <1>4, <2>2, FS_CardinalityType DEF BucketsOK
  <2>6. CountsAreCharges'
    BY <1>3, <1>5, <2>1, <2>2, <2>4, <2>5, Limited DEF CountInv, CountsAreCharges
  <2> QED BY <2>1, <2>3, <2>4, <2>6 DEF CountInv
<1>6. CASE ~Exceeded(specs, clock) /\ Reserve(specs, clock)
           /\ failed' = [k \in BucketKeys |->
                    IF k \in KeysOf(specs) \ Live(clock) THEN 0 ELSE failed[k]]
           /\ Turn(r, [state EXCEPT !.held = Reserved(specs)])
  <2>1. PICK K : K = KeysOf(specs)
    OBVIOUS
  <2>2. PICK S \in SUBSET Live(clock) :
           /\ K \cap Live(clock) \subseteq S
           /\ IsFiniteSet(S \cup K) /\ Cardinality(S \cup K) <= MaxEntries
           /\ DOMAIN buckets' = S \cup K /\ buckets' = [k \in S \cup K |-> buckets'[k]]
           /\ generation' \in Nat /\ generation <= generation'
           /\ \A k \in S \ K : buckets'[k] = buckets[k]
           /\ \A k \in S \cap K :
                 /\ buckets'[k] = [buckets[k] EXCEPT !.count = @ + 1]
                 /\ \E i \in DOMAIN specs :
                       specs[i].key = k /\ buckets[k].count + 1 <= specs[i].limit
           /\ \A k \in K \ S :
                 /\ buckets'[k] \in Bucket /\ buckets'[k].count = 1
                 /\ generation < buckets'[k].generation
                 /\ buckets'[k].generation <= generation'
    BY <1>2, <1>4, <1>6, <2>1, ReserveDoes
  <2>3. S \subseteq DOMAIN buckets /\ K \subseteq BucketKeys /\ S \subseteq BucketKeys
    BY <1>2, <1>4, <2>1, KeysAre DEF Live, BucketsOK
  <2>4. \A k \in S \cap K :
           /\ buckets'[k] \in Bucket /\ buckets'[k].count = buckets[k].count + 1
           /\ buckets'[k].generation = buckets[k].generation
           /\ buckets[k].count + 1 <= LimitOf(k)
    <3>1. \A k \in S \cap K : buckets[k] \in Bucket
      BY <1>4, <2>3 DEF BucketsOK
    <3> QED BY <1>2, <2>2, <3>1 DEF Bucket
  <2>5. BucketsOK'
    <3>1. ASSUME NEW k \in DOMAIN buckets'
          PROVE buckets'[k] \in Bucket /\ buckets'[k].generation <= generation'
      <4>1. CASE k \in K \ S
        BY <2>2, <4>1
      <4>2. CASE k \in S
        <5>1. buckets[k] \in Bucket /\ buckets[k].generation <= generation
          BY <1>4, <2>3, <4>2 DEF BucketsOK
        <5>2. buckets'[k] \in Bucket /\ buckets'[k].generation = buckets[k].generation
          BY <2>2, <2>4, <4>2, <5>1
        <5> QED BY <1>4, <2>2, <5>1, <5>2 DEF Bucket
      <4> QED BY <2>2, <4>1, <4>2
    <3> QED BY <2>2, <2>3, <3>1 DEF BucketsOK
  <2>6. PICK a : a = [state EXCEPT !.held = Reserved(specs)]
    OBVIOUS
  <2>7. /\ Shape(a) /\ Holding(a) = Reserved(specs)
        /\ Reserved(specs) = {[key |-> k, generation |-> buckets'[k].generation] : k \in K}
    <3>1. state.pc \in {"auth", "verify"} => "held" \in DOMAIN state
      BY DEF Shape
    <3>2. Shape(a) /\ Holding(a) = Reserved(specs)
      BY <2>6, <3>1 DEF Shape, Holding
    <3> QED BY <2>1, <3>2 DEF Reserved, KeysOf
  <2>8. /\ Holding(a) \subseteq Reservation
        /\ \A res \in Holding(a) : res.generation <= generation'
    BY <2>2, <2>3, <2>5, <2>7 DEF BucketsOK, Bucket, Reservation
  <2>9. Turn(r, a)
    BY <1>6, <2>6
  <2>10. /\ RequestsOK'
         /\ \A k, g : (HeldBy(k, g))' =
                IF [key |-> k, generation |-> g] \in Holding(a)
                THEN HeldBy(k, g) \cup {r} ELSE HeldBy(k, g) \ {r}
    BY <1>4, <2>2, <2>7, <2>8, <2>9, RequestMoves
  <2>11. \A k, g : r \notin HeldBy(k, g)
    BY <1>3 DEF HeldBy, Holding, At
  <2>12. failed' \in [BucketKeys -> Nat]
    BY <1>6 DEF CountInv, CountType
  <2>13. CountType'
    BY <1>3, <1>4, <2>5, <2>10, <2>12 DEF CountInv, CountType
  <2>14. ASSUME NEW k \in DOMAIN buckets'
         PROVE /\ IsFiniteSet(InProgress(k)')
               /\ buckets'[k].count = Cardinality(InProgress(k)') + failed'[k]
               /\ buckets'[k].count <= LimitOf(k)
    <3>0. PICK g : g = buckets'[k].generation
      OBVIOUS
    <3>1. InProgress(k)' = (HeldBy(k, g))' /\ k \in BucketKeys
      BY <2>2, <2>3, <3>0 DEF InProgress, HeldBy, Held, Holding, At
    <3>2. CASE k \in K \ S
      <4>1. [key |-> k, generation |-> g] \in Holding(a)
        BY <2>7, <3>0, <3>2
      <4>2. HeldBy(k, g) = {}
        BY <1>4, <2>2, <3>0, <3>2 DEF HeldBy, RequestsOK, Reservation, Bucket
      <4>3. InProgress(k)' = {r}
        BY <2>10, <3>1, <4>1, <4>2
      <4>4. failed'[k] = 0
        BY <1>6, <2>1, <2>2, <3>1, <3>2
      <4>5. buckets'[k].count = 1 /\ LimitOf(k) \in Nat \ {0}
        BY <2>2, <3>2, Limited
      <4>6. IsFiniteSet(InProgress(k)') /\ Cardinality(InProgress(k)') = 1
        BY <4>3, FS_Singleton
      <4> QED BY <4>4, <4>5, <4>6
    <3>3. CASE k \in S
      <4>1. /\ IsFiniteSet(InProgress(k)) /\ k \in DOMAIN buckets
            /\ buckets[k].count = Cardinality(InProgress(k)) + failed[k]
            /\ buckets[k].count <= LimitOf(k)
        BY <2>3, <3>3 DEF CountInv, CountsAreCharges
      <4>2. buckets[k] \in Bucket
        BY <1>4, <4>1 DEF BucketsOK
      <4>3. g = buckets[k].generation
        BY <2>2, <2>4, <3>0, <3>3
      <4>4. failed'[k] = failed[k] /\ failed[k] \in Nat
        BY <1>6, <3>1, <3>3 DEF CountInv, CountType
      <4>5. HeldBy(k, g) = InProgress(k)
        BY <4>3, InProgressIs
      <4>6. Cardinality(InProgress(k)) \in Nat /\ r \notin InProgress(k)
        BY <2>11, <4>1, <4>5, FS_CardinalityType
      <4>7. CASE k \in K
        <5>1. [key |-> k, generation |-> g] \in Holding(a)
          BY <2>7, <3>0, <4>7
        <5>2. InProgress(k)' = InProgress(k) \cup {r}
          BY <2>10, <3>1, <4>5, <5>1
        <5>3. /\ IsFiniteSet(InProgress(k)')
              /\ Cardinality(InProgress(k)') = Cardinality(InProgress(k)) + 1
          BY <4>1, <4>6, <5>2, FS_AddElement
        <5>4. /\ buckets'[k].count = buckets[k].count + 1
              /\ buckets[k].count + 1 <= LimitOf(k)
          BY <2>4, <3>3, <4>7
        <5> QED BY <4>1, <4>4, <4>6, <5>3, <5>4
      <4>8. CASE k \notin K
        <5>1. [key |-> k, generation |-> g] \notin Holding(a)
          <6> SUFFICES ASSUME [key |-> k, generation |-> g] \in Holding(a) PROVE FALSE
            OBVIOUS
          <6>1. PICK j \in K :
                   [key |-> k, generation |-> g] = [key |-> j, generation |-> buckets'[j].generation]
            BY <2>7
          <6>2. [key |-> k, generation |-> g].key = k
            OBVIOUS
          <6> QED BY <4>8, <6>1, <6>2
        <5>2. InProgress(k)' = InProgress(k)
          BY <2>10, <3>1, <4>5, <4>6, <5>1
        <5>3. buckets'[k] = buckets[k]
          BY <2>2, <3>3, <4>8
        <5> QED BY <4>1, <4>4, <5>2, <5>3
      <4> QED BY <4>7, <4>8
    <3> QED BY <2>2, <3>2, <3>3
  <2>15. CountsAreCharges'
    BY <1>3, <2>2, <2>14 DEF CountInv, CountsAreCharges
  <2> QED BY <2>13, <2>14, <2>15 DEF CountInv
<1> QED BY <1>1, <1>5, <1>6 DEF Admit

LEMMA CacheStays ==
    ASSUME CountInv, DOMAIN cache' \subseteq DOMAIN cache
    PROVE IsFiniteSet(DOMAIN cache') /\ Cardinality(DOMAIN cache') <= MaxCached
<1>1. IsFiniteSet(DOMAIN cache) /\ Cardinality(DOMAIN cache) <= MaxCached
  BY DEF CountInv, CountType, CountsAreCharges
<1>2. /\ IsFiniteSet(DOMAIN cache') /\ Cardinality(DOMAIN cache') <= Cardinality(DOMAIN cache)
      /\ Cardinality(DOMAIN cache) \in Nat /\ Cardinality(DOMAIN cache') \in Nat
  BY <1>1, FS_Subset, FS_CardinalityType
<1> QED BY <1>1, <1>2, Limited

(* A request that goes on with what it holds.                              *)
LEMMA HoldingOn ==
    ASSUME CountInv, NEW r \in Attempts, NEW a, Turn(r, a), Shape(a),
           Holding(a) = Holding(attempt[r]),
           UNCHANGED <<limiter, clock, failed>>,
           IsFiniteSet(DOMAIN cache'), Cardinality(DOMAIN cache') <= MaxCached
    PROVE CountInv'
<1>1. RequestsOK /\ BucketsOK /\ generation \in Nat /\ UNCHANGED <<buckets, generation>>
  BY DEF CountInv, CountType, BucketsOK, limiter
<1>2. /\ Holding(a) \subseteq Reservation
      /\ \A res \in Holding(a) : res.generation \in Nat /\ res.generation <= generation'
  BY <1>1 DEF RequestsOK, Reservation
<1>3. /\ RequestsOK'
      /\ \A k, g : (HeldBy(k, g))' =
                IF [key |-> k, generation |-> g] \in Holding(a)
                THEN HeldBy(k, g) \cup {r} ELSE HeldBy(k, g) \ {r}
  BY <1>1, <1>2, RequestMoves
<1>4. \A k, g : (HeldBy(k, g))' = HeldBy(k, g)
  BY <1>3 DEF HeldBy
<1>5. ASSUME NEW k PROVE InProgress(k)' = InProgress(k)
  <2>1. PICK g : g = buckets[k].generation
    OBVIOUS
  <2>2. InProgress(k) = HeldBy(k, g) /\ InProgress(k)' = (HeldBy(k, g))'
    BY <1>1, <2>1 DEF InProgress, HeldBy, Held, Holding, At
  <2> QED BY <1>4, <2>2
<1>6. CountType'
  BY <1>1, <1>3 DEF CountInv, CountType, BucketsOK
<1>7. CountsAreCharges'
  BY <1>1, <1>5 DEF CountInv, CountsAreCharges
<1> QED BY <1>1, <1>5, <1>6, <1>7 DEF CountInv

(* One that lets go of a reservation, and of its charge or not.            *)
LEMMA Leaves ==
    ASSUME CountInv, NEW r \in Attempts, NEW k \in DOMAIN buckets, r \in InProgress(k)
    PROVE /\ Cardinality(InProgress(k)) \in Nat /\ failed[k] \in Nat /\ k \in BucketKeys
          /\ buckets[k] \in Bucket
          /\ IsFiniteSet(InProgress(k) \ {r})
          /\ Cardinality(InProgress(k) \ {r}) = Cardinality(InProgress(k)) - 1
          /\ buckets[k].count = Cardinality(InProgress(k) \ {r}) + 1 + failed[k]
          /\ Cardinality(InProgress(k) \ {r}) \in Nat
<1>1. IsFiniteSet(InProgress(k))
  BY DEF CountInv
<1>2. /\ Cardinality(InProgress(k)) \in Nat
      /\ IsFiniteSet(InProgress(k) \ {r}) /\ Cardinality(InProgress(k) \ {r}) \in Nat
      /\ Cardinality(InProgress(k) \ {r}) = Cardinality(InProgress(k)) - 1
  <2>1. PICK S : S = InProgress(k)
    OBVIOUS
  <2> QED BY <1>1, <2>1, FS_RemoveElement, FS_CardinalityType
<1>3. failed[k] \in Nat /\ k \in BucketKeys /\ buckets[k] \in Bucket
  BY DEF CountInv, CountType, BucketsOK
<1>4. buckets[k].count = Cardinality(InProgress(k)) + failed[k]
  BY DEF CountInv, CountsAreCharges
<1> QED BY <1>2, <1>3, <1>4

LEMMA Failing ==
    ASSUME CountInv, NEW r \in Attempts, Fail(r), DOMAIN cache' \subseteq DOMAIN cache
    PROVE CountInv'
<1> DEFINE a == [pc |-> "idle"]
<1>1. /\ RequestsOK /\ BucketsOK /\ generation \in Nat
      /\ UNCHANGED <<buckets, generation, clock>>
  BY DEF CountInv, CountType, BucketsOK, limiter, Fail
<1>2. Turn(r, a) /\ Shape(a) /\ Holding(a) = {}
  BY DEF Fail, Shape, Holding
<1> HIDE DEF a
<1>3. RequestsOK' /\ \A k, g : (HeldBy(k, g))' = HeldBy(k, g) \ {r}
  <2>1. /\ Holding(a) \subseteq Reservation /\ \A res \in Holding(a) : res.generation <= generation'
        /\ generation' \in Nat /\ generation <= generation'
    BY <1>1, <1>2
  <2>2. /\ RequestsOK'
        /\ \A k, g : (HeldBy(k, g))' =
                IF [key |-> k, generation |-> g] \in Holding(a)
                THEN HeldBy(k, g) \cup {r} ELSE HeldBy(k, g) \ {r}
    BY <1>1, <1>2, <2>1, RequestMoves
  <2> QED BY <1>2, <2>2
<1>4. ASSUME NEW k PROVE InProgress(k)' = InProgress(k) \ {r}
  <2>1. PICK g : g = buckets[k].generation
    OBVIOUS
  <2>2. InProgress(k) = HeldBy(k, g) /\ InProgress(k)' = (HeldBy(k, g))'
    BY <1>1, <2>1 DEF InProgress, HeldBy, Held, Holding, At
  <2> QED BY <1>3, <2>2
<1>5. failed' = Charged(Held(r)) /\ failed \in [BucketKeys -> Nat]
  BY DEF Fail, CountInv, CountType
<1>6. ASSUME NEW k \in DOMAIN buckets
      PROVE failed'[k] = IF r \in InProgress(k) THEN failed[k] + 1 ELSE failed[k]
  <2>1. k \in BucketKeys
    BY <1>1 DEF BucketsOK
  <2>2. ASSUME NEW res \in Held(r) PROVE res = [key |-> res.key, generation |-> res.generation]
    BY <1>1, HeldIsHolding DEF RequestsOK, Reservation
  <2>3. r \in InProgress(k) <=> \E res \in Held(r) : res.key = k /\ Holds(res)
    BY <2>2 DEF InProgress, Holds
  <2> QED BY <1>5, <2>1, <2>3 DEF Charged
<1>7. failed' \in [BucketKeys -> Nat]
  BY <1>5 DEF Charged
<1>8. CountType'
  BY <1>1, <1>3, <1>7, CacheStays DEF CountInv, CountType, BucketsOK
<1>9. ASSUME NEW k \in DOMAIN buckets
      PROVE /\ IsFiniteSet(InProgress(k)')
            /\ buckets[k].count = Cardinality(InProgress(k)') + failed'[k]
  <2>1. CASE r \in InProgress(k)
    <3>1. /\ failed[k] \in Nat /\ IsFiniteSet(InProgress(k) \ {r})
          /\ Cardinality(InProgress(k) \ {r}) \in Nat
          /\ buckets[k].count = Cardinality(InProgress(k) \ {r}) + 1 + failed[k]
      BY <2>1, Leaves
    <3>2. InProgress(k)' = InProgress(k) \ {r} /\ failed'[k] = failed[k] + 1
      BY <1>4, <1>6, <2>1
    <3> QED BY <3>1, <3>2
  <2>2. CASE r \notin InProgress(k)
    <3>1. InProgress(k)' = InProgress(k) /\ failed'[k] = failed[k]
      BY <1>4, <1>6, <2>2
    <3> QED BY <3>1 DEF CountInv, CountsAreCharges
  <2> QED BY <2>1, <2>2
<1>10. CountsAreCharges'
  BY <1>1, <1>9, CacheStays DEF CountInv, CountsAreCharges
<1> QED BY <1>1, <1>8, <1>9, <1>10 DEF CountInv

LEMMA Releasing ==
    ASSUME CountInv, NEW r \in Attempts, ReleaseOne(r) PROVE CountInv'
<1>1. PICK res \in Held(r) :
         /\ At(r, "release") /\ Release(res)
         /\ Turn(r, [attempt[r] EXCEPT !.held = @ \ {res}])
         /\ UNCHANGED <<clock, cache, failed>>
  BY DEF ReleaseOne
<1>2. /\ RequestsOK /\ BucketsOK /\ generation \in Nat /\ UNCHANGED generation
  BY <1>1 DEF CountInv, CountType, BucketsOK, Release
<1>3. PICK a : a = [attempt[r] EXCEPT !.held = @ \ {res}]
  OBVIOUS
<1>4. Shape(a) /\ Holding(a) = Held(r) \ {res} /\ Turn(r, a)
  <2>1. Shape(attempt[r]) /\ attempt[r].pc = "release"
    BY <1>1, <1>2 DEF RequestsOK, At
  <2> QED BY <1>1, <1>3, <2>1 DEF Shape, Holding, Held, At
<1>5. /\ Holding(a) \subseteq Reservation /\ res \in Reservation
      /\ \A x \in Holding(a) : x.generation <= generation'
  BY <1>2, <1>4, HeldIsHolding DEF RequestsOK
<1>6. /\ RequestsOK'
      /\ \A k, g : (HeldBy(k, g))' =
                IF [key |-> k, generation |-> g] \in Holding(a)
                THEN HeldBy(k, g) \cup {r} ELSE HeldBy(k, g) \ {r}
  BY <1>2, <1>4, <1>5, RequestMoves
<1>7. res = [key |-> res.key, generation |-> res.generation]
  BY <1>5 DEF Reservation
<1>8. ASSUME NEW k, NEW g
      PROVE (HeldBy(k, g))' = IF k = res.key /\ g = res.generation
                              THEN HeldBy(k, g) \ {r} ELSE HeldBy(k, g)
  <2>1. PICK x : x = [key |-> k, generation |-> g]
    OBVIOUS
  <2>2. x = res <=> k = res.key /\ g = res.generation
    BY <1>7, <2>1
  <2>3. r \in HeldBy(k, g) <=> x \in Held(r)
    BY <2>1, HeldIsHolding DEF HeldBy
  <2>4. (HeldBy(k, g))' = IF x \in Holding(a) THEN HeldBy(k, g) \cup {r} ELSE HeldBy(k, g) \ {r}
    BY <1>6, <2>1
  <2> QED BY <1>4, <2>2, <2>3, <2>4
<1>9. PICK j : j = res.key
  OBVIOUS
<1>10. CASE ~Holds(res)
  <2>1. UNCHANGED buckets
    BY <1>1, <1>10 DEF Release
  <2>2. ASSUME NEW k \in DOMAIN buckets PROVE InProgress(k)' = InProgress(k)
    <3>1. PICK g : g = buckets[k].generation
      OBVIOUS
    <3>2. InProgress(k) = HeldBy(k, g) /\ InProgress(k)' = (HeldBy(k, g))'
      BY <2>1, <3>1 DEF InProgress, HeldBy, Held, Holding, At
    <3>3. ~(k = res.key /\ g = res.generation)
      BY <1>10, <3>1 DEF Holds
    <3> QED BY <1>8, <3>2, <3>3
  <2>3. CountType'
    BY <1>1, <1>2, <1>6, <2>1 DEF CountInv, CountType, BucketsOK
  <2>4. CountsAreCharges'
    BY <1>1, <2>1, <2>2 DEF CountInv, CountsAreCharges
  <2> QED BY <2>1, <2>2, <2>3, <2>4 DEF CountInv
<1>11. CASE Holds(res)
  <2>1. j \in DOMAIN buckets /\ buckets[j].generation = res.generation /\ r \in InProgress(j)
    BY <1>7, <1>9, <1>11 DEF Holds, InProgress
  <2>2. /\ DOMAIN buckets' \subseteq DOMAIN buckets
        /\ buckets' = [k \in DOMAIN buckets' |-> buckets'[k]]
        /\ \A k \in DOMAIN buckets' \ {j} : buckets'[k] = buckets[k]
        /\ j \in DOMAIN buckets' =>
              /\ buckets[j].count > 1 /\ buckets'[j] = [buckets[j] EXCEPT !.count = @ - 1]
    BY <1>1, <1>2, <1>9, <1>11, <2>1 DEF Release, Restricted, BucketsOK
  <2>3. j \in DOMAIN buckets' =>
           /\ buckets'[j] \in Bucket /\ buckets'[j].count = buckets[j].count - 1
           /\ buckets'[j].generation = buckets[j].generation
    <3>1. buckets[j] \in Bucket
      BY <1>2, <2>1 DEF BucketsOK
    <3> QED BY <2>2, <3>1 DEF Bucket
  <2>4. /\ IsFiniteSet(DOMAIN buckets') /\ Cardinality(DOMAIN buckets') <= MaxEntries
    <3>1. IsFiniteSet(DOMAIN buckets) /\ Cardinality(DOMAIN buckets) <= MaxEntries
      BY <1>2 DEF BucketsOK, CountInv, CountsAreCharges
    <3>2. /\ Cardinality(DOMAIN buckets) \in Nat /\ IsFiniteSet(DOMAIN buckets')
          /\ Cardinality(DOMAIN buckets') <= Cardinality(DOMAIN buckets)
          /\ Cardinality(DOMAIN buckets') \in Nat
      BY <2>2, <3>1, FS_Subset, FS_CardinalityType
    <3> QED BY <3>1, <3>2, Limited
  <2>5. ASSUME NEW k \in DOMAIN buckets'
        PROVE buckets'[k] \in Bucket /\ buckets'[k].generation <= generation
    BY <1>2, <2>1, <2>2, <2>3 DEF BucketsOK
  <2>6. BucketsOK'
    BY <1>2, <2>2, <2>4, <2>5 DEF BucketsOK
  <2>7. CountType'
    BY <1>1, <1>6, <2>6 DEF CountInv, CountType
  <2>8. ASSUME NEW k \in DOMAIN buckets'
        PROVE /\ IsFiniteSet(InProgress(k)')
              /\ buckets'[k].count = Cardinality(InProgress(k)') + failed[k]
              /\ buckets'[k].count <= LimitOf(k)
    <3>1. PICK g : g = buckets'[k].generation
      OBVIOUS
    <3>2. k \in DOMAIN buckets /\ g = buckets[k].generation
      BY <2>2, <2>3, <3>1
    <3>3. InProgress(k) = HeldBy(k, g) /\ InProgress(k)' = (HeldBy(k, g))'
      BY <3>1, <3>2 DEF InProgress, HeldBy, Held, Holding, At
    <3>4. /\ IsFiniteSet(InProgress(k)) /\ buckets[k].count <= LimitOf(k)
          /\ buckets[k].count = Cardinality(InProgress(k)) + failed[k]
          /\ LimitOf(k) \in Nat
      BY <3>2, Limited DEF CountInv, CountsAreCharges
    <3>5. CASE k = j
      <4>1. InProgress(k)' = InProgress(k) \ {r}
        BY <1>8, <1>9, <2>1, <3>2, <3>3, <3>5
      <4>2. /\ Cardinality(InProgress(k)') \in Nat /\ IsFiniteSet(InProgress(k)')
            /\ buckets[k].count = Cardinality(InProgress(k)') + 1 + failed[k]
            /\ failed[k] \in Nat
        BY <2>1, <3>5, <4>1, Leaves
      <4>3. buckets'[k].count = buckets[k].count - 1
        BY <2>3, <3>5
      <4> QED BY <3>4, <4>2, <4>3
    <3>6. CASE k # j
      <4>1. InProgress(k)' = InProgress(k)
        BY <1>8, <1>9, <3>3, <3>6
      <4>2. buckets'[k] = buckets[k]
        BY <2>2, <3>6
      <4> QED BY <3>4, <4>1, <4>2
    <3> QED BY <3>5, <3>6
  <2>9. CountsAreCharges'
    BY <1>1, <2>4, <2>8 DEF CountInv, CountsAreCharges
  <2> QED BY <2>7, <2>8, <2>9 DEF CountInv
<1> QED BY <1>10, <1>11

LEMMA Remembering ==
    ASSUME CountInv, NEW t, Remembered(t)
    PROVE IsFiniteSet(DOMAIN cache') /\ Cardinality(DOMAIN cache') <= MaxCached
<1>1. PICK kept, D :
         /\ kept \subseteq DOMAIN cache /\ D \in Dropped(kept)
         /\ DOMAIN cache' = (kept \ D) \cup {t}
  BY DEF Remembered
<1>2. /\ IsFiniteSet(DOMAIN cache) /\ Cardinality(DOMAIN cache) <= MaxCached
      /\ Cardinality(DOMAIN cache) \in Nat
  BY FS_CardinalityType DEF CountInv, CountType, CountsAreCharges
<1>3. /\ IsFiniteSet(kept) /\ Cardinality(kept) \in Nat
      /\ Cardinality(kept) <= MaxCached
  <2>1. IsFiniteSet(kept) /\ Cardinality(kept) <= Cardinality(DOMAIN cache)
    BY <1>1, <1>2, FS_Subset
  <2>2. Cardinality(kept) \in Nat
    BY <2>1, FS_CardinalityType
  <2> QED BY <1>2, <2>1, <2>2, Limited
<1>4. CASE Cardinality(kept) < MaxCached
  <2>1. D = {}
    BY <1>1, <1>4 DEF Dropped
  <2>2. DOMAIN cache' = kept \cup {t}
    BY <1>1, <2>1
  <2>3. /\ IsFiniteSet(kept \cup {t})
        /\ Cardinality(kept \cup {t}) \in {Cardinality(kept), Cardinality(kept) + 1}
    BY <1>3, FS_AddElement
  <2> QED BY <1>3, <1>4, <2>2, <2>3, Limited
<1>5. CASE ~(Cardinality(kept) < MaxCached)
  <2>1. PICK u \in kept : D = {u}
    BY <1>1, <1>5 DEF Dropped
  <2>2. PICK rest : rest = kept \ {u} /\ DOMAIN cache' = rest \cup {t}
    BY <1>1, <2>1
  <2>3. IsFiniteSet(rest) /\ Cardinality(rest) = Cardinality(kept) - 1
    BY <1>3, <2>2, FS_RemoveElement
  <2>4. /\ IsFiniteSet(rest \cup {t})
        /\ Cardinality(rest \cup {t}) \in {Cardinality(rest), Cardinality(rest) + 1}
    BY <2>3, FS_AddElement
  <2> QED BY <1>3, <2>2, <2>3, <2>4, Limited
<1> QED BY <1>4, <1>5

LEMMA Answering ==
    ASSUME CountInv, NEW r \in Attempts,
           Cached(r) \/ Lookup(r) \/ Remember(r) \/ Settle(r) \/ Done(r)
    PROVE CountInv'
<1>0. Shape(attempt[r]) /\ Held(r) = Holding(attempt[r]) /\ clock \in Nat
  BY HeldIsHolding DEF CountInv, CountType, RequestsOK
<1>1. ASSUME At(r, "auth") \/ At(r, "found"), Accept(r), UNCHANGED <<limiter, clock, failed>>,
             IsFiniteSet(DOMAIN cache'), Cardinality(DOMAIN cache') <= MaxCached
      PROVE CountInv'
  <2>1. PICK a : a = [pc |-> "ok", token |-> attempt[r].token, held |-> attempt[r].held,
                      at |-> clock]
    OBVIOUS
  <2>2. Shape(a) /\ Holding(a) = Holding(attempt[r]) /\ Turn(r, a)
    BY <1>0, <1>1, <2>1 DEF Shape, Holding, Accept, At
  <2> QED BY <1>1, <2>2, HoldingOn
<1>2. CASE Cached(r)
  <2>1. At(r, "auth") /\ Accept(r) /\ UNCHANGED <<cache, limiter, clock, failed>>
    BY <1>2 DEF Cached
  <2> QED BY <1>1, <2>1, CacheStays
<1>3. CASE Lookup(r)
  <2>1. PICK a : a = [attempt[r] EXCEPT !.pc = "found"]
    OBVIOUS
  <2>2. /\ attempt[r].pc = "auth" /\ Turn(r, a) /\ UNCHANGED <<limiter, clock, failed>>
        /\ DOMAIN cache' \subseteq DOMAIN cache
    BY <1>3, <2>1 DEF Lookup, At, Without
  <2>3. Shape(a) /\ Holding(a) = Holding(attempt[r])
    BY <1>0, <2>1, <2>2 DEF Shape, Holding
  <2> QED BY <2>2, <2>3, CacheStays, HoldingOn
<1>4. CASE Remember(r)
  <2>1. At(r, "found") /\ Accept(r) /\ UNCHANGED <<limiter, clock, failed>>
    BY <1>4 DEF Remember
  <2>2. IsFiniteSet(DOMAIN cache') /\ Cardinality(DOMAIN cache') <= MaxCached
    BY <1>4, Remembering, CacheStays DEF Remember
  <2> QED BY <1>1, <2>1, <2>2
<1>5. CASE Settle(r)
  <2>1. PICK a : a = [pc |-> "release", held |-> Held(r)]
    OBVIOUS
  <2>2. Turn(r, a) /\ UNCHANGED <<limiter, clock, cache, failed>>
    BY <1>5, <2>1 DEF Settle, Settled
  <2>3. Shape(a) /\ Holding(a) = Holding(attempt[r])
    BY <1>0, <2>1 DEF Shape, Holding
  <2> QED BY <2>2, <2>3, CacheStays, HoldingOn
<1>6. CASE Done(r)
  <2>1. PICK a : a = [pc |-> "idle"]
    OBVIOUS
  <2>2. Turn(r, a) /\ UNCHANGED <<limiter, clock, cache, failed>> /\ Held(r) = {}
    BY <1>6, <2>1 DEF Done
  <2>3. Shape(a) /\ Holding(a) = Holding(attempt[r])
    BY <1>0, <2>1, <2>2 DEF Shape, Holding
  <2> QED BY <2>2, <2>3, CacheStays, HoldingOn
<1> QED BY <1>2, <1>3, <1>4, <1>5, <1>6

LEMMA Elsewhere ==
    ASSUME CountInv, \/ \E t \in ApiKeys : Revoke(t)
                     \/ ClockTick
                     \/ UNCHANGED accessVars
    PROVE CountInv'
<1>1. UNCHANGED <<buckets, generation, attempt, cache, failed>> /\ clock' \in Nat
  <2>1. clock \in Nat
    BY DEF CountInv, CountType
  <2>2. CASE \E t \in ApiKeys : Revoke(t)
    BY <2>1, <2>2 DEF Revoke, limiter
  <2>3. CASE ClockTick
    BY <2>1, <2>3 DEF ClockTick, limiter
  <2>4. CASE UNCHANGED accessVars
    BY <2>1, <2>4 DEF accessVars
  <2> QED BY <2>2, <2>3, <2>4
<1>2. CountType'
  BY <1>1 DEF CountInv, CountType, BucketsOK, RequestsOK
<1>3. \A k : InProgress(k)' = InProgress(k)
  BY <1>1 DEF InProgress, Held, At
<1>4. CountsAreCharges'
  BY <1>1, <1>3 DEF CountInv, CountsAreCharges
<1> QED BY <1>1, <1>2, <1>3, <1>4 DEF CountInv

LEMMA KeysInSeq ==
    \A ip \in Ips :
        /\ <<McpKey(ip)>> \in Seq(BucketKeys)
        /\ \A a \in Accounts :
              <<LoginKey(ip), AccountKey(ip, a), GlobalKey(a)>> \in Seq(BucketKeys)
BY KeysAssumption DEF AllBucketKeys

LEMMA CountStep == CountInv /\ [AccessNext]_accessVars => CountInv'
<1> SUFFICES ASSUME CountInv, [AccessNext]_accessVars PROVE CountInv'
  OBVIOUS
<1>1. ASSUME NEW r \in Attempts, NEW ip \in Ips, NEW t \in Tokens, McpRequest(r, ip, t)
      PROVE CountInv'
  <2>1. PICK state : state = [pc |-> "auth", token |-> t, held |-> {}]
    OBVIOUS
  <2>2. Shape(state) /\ state.pc = "auth" /\ Admit(r, <<McpKey(ip)>>, state)
    BY <1>1, <2>1 DEF McpRequest, Shape
  <2>3. <<McpKey(ip)>> \in Seq(BucketKeys)
    BY KeysInSeq
  <2> QED BY <2>2, <2>3, Admitting
<1>2. ASSUME NEW r \in Attempts, NEW ip \in Ips, NEW a \in Accounts, PasswordLogin(r, ip, a)
      PROVE CountInv'
  <2>1. PICK state, asked : /\ state = [pc |-> "verify", held |-> {}]
                           /\ asked = <<LoginKey(ip), AccountKey(ip, a), GlobalKey(a)>>
    OBVIOUS
  <2>2. Shape(state) /\ state.pc = "verify" /\ Admit(r, asked, state)
    BY <1>2, <2>1 DEF PasswordLogin, Shape
  <2>3. asked \in Seq(BucketKeys)
    BY <2>1, KeysInSeq
  <2> QED BY <2>2, <2>3, Admitting
<1>3. ASSUME NEW r \in Attempts, Unknown(r) \/ WrongPassword(r) PROVE CountInv'
  <2>1. Fail(r) /\ DOMAIN cache' \subseteq DOMAIN cache
    BY <1>3 DEF Unknown, WrongPassword, Without
  <2> QED BY <2>1, Failing
<1> QED BY <1>1, <1>2, <1>3, Answering, Releasing, Elsewhere DEF AccessNext

(* Counts, reservations and failures charged agree in every state.         *)
LEMMA CountInvariant == AccessSpec => []CountInv
BY CountStart, CountStep, PTL DEF AccessSpec

(* No eviction, end of a window, cancellation or late release frees or     *)
(* leaves a charge that is not its own (http_boundary.py,                  *)
(* FixedWindowLimiter), for any requests, limits, windows and capacity.    *)
THEOREM CountsCharges == AccessSpec => []CountsAreCharges
<1>1. CountInv => CountsAreCharges
  BY DEF CountInv
<1> QED BY <1>1, CountInvariant, PTL

(***************************************************************************)
(* The types of users and of what a request keeps.                         *)
(***************************************************************************)
Hashes == Passwords \cup {"none"}
UserRow == [admin : BOOLEAN, password : Hashes]
AdminCall ==
         [pc : {"idle"}]
    \cup [pc : {"admin"}, password : Hashes]
    \cup [pc : {"role", "count", "command"}, user : People, admin : BOOLEAN]
    \cup [pc : {"write"}, user : People, admin : BOOLEAN, changed : BOOLEAN]
    \cup [pc : {"promote"}, user : People]

AdministrationType ==
    /\ users \in [Known -> UserRow] /\ Known \subseteq People
    /\ adminCall \in [Callers -> AdminCall]
    /\ cliDemoted \in BOOLEAN

(***************************************************************************)
(* Why one administrator remains.  A request that is past the lock is the  *)
(* lock's only holder; so between its count and its write no other web     *)
(* request takes a role away, and the second administrator it counted is   *)
(* still there, unless a command, which takes no lock, has demoted them.   *)
(***************************************************************************)
LockHeld ==
    \A c \in Callers : adminCall[c].pc \in {"role", "count", "write"} => roleLock = {c}

Another(u) == \E v \in Administrators : v # u

CountHolds ==
    \A c \in Callers :
        Calling(c, "write") /\ adminCall[c].changed /\ ~adminCall[c].admin =>
            cliDemoted \/ Another(adminCall[c].user)

AdministrationInv == AdministrationType /\ LockHeld /\ CountHolds /\ AdminRemains

(***************************************************************************)
(* Facts about single changes.                                             *)
(***************************************************************************)
LEMMA RowsOf == ASSUME AdministrationType, NEW u \in Known
                PROVE users[u] \in UserRow /\ users[u].admin \in BOOLEAN
BY DEF AdministrationType, UserRow

LEMMA CallTypes ==
    /\ [pc |-> "idle"] \in AdminCall
    /\ \A p \in Hashes : [pc |-> "admin", password |-> p] \in AdminCall
    /\ \A u \in People, a \in BOOLEAN, pc \in {"role", "count", "command"} :
          [pc |-> pc, user |-> u, admin |-> a] \in AdminCall
    /\ \A u \in People, a, ch \in BOOLEAN :
          [pc |-> "write", user |-> u, admin |-> a, changed |-> ch] \in AdminCall
    /\ \A u \in People : [pc |-> "promote", user |-> u] \in AdminCall
BY DEF AdminCall

(* A call in a step that names a user has the fields of that step.         *)
LEMMA CallFields ==
    ASSUME AdministrationType, NEW c \in Callers
    PROVE /\ adminCall[c].pc \in {"role", "count", "command"} =>
                /\ adminCall[c].user \in People /\ adminCall[c].admin \in BOOLEAN
                /\ adminCall[c] = [pc |-> adminCall[c].pc, user |-> adminCall[c].user,
                                   admin |-> adminCall[c].admin]
          /\ adminCall[c].pc = "write" =>
                /\ adminCall[c].user \in People /\ adminCall[c].admin \in BOOLEAN
                /\ adminCall[c].changed \in BOOLEAN
          /\ adminCall[c].pc = "promote" => adminCall[c].user \in People
BY DEF AdministrationType, AdminCall

(* Writing a role touches one row and leaves every other administrator.    *)
LEMMA RoleWritten ==
    ASSUME AdministrationType, NEW u \in People, NEW a \in BOOLEAN,
           users' = [users EXCEPT ![u].admin = a]
    PROVE /\ Known' = Known
          /\ users' \in [Known -> UserRow]
          /\ Administrators \ {u} \subseteq Administrators'
          /\ a => Administrators \subseteq Administrators'
<1>1. Known' = Known
  BY DEF AdministrationType, Known
<1>2. ASSUME NEW v \in Known
      PROVE users'[v] = IF v = u THEN [users[v] EXCEPT !.admin = a] ELSE users[v]
  BY <1>2 DEF AdministrationType
<1>3. ASSUME NEW v \in Known PROVE users'[v] \in UserRow
  BY <1>2, <1>3, RowsOf DEF UserRow
<1>4. users' \in [Known -> UserRow]
  BY <1>1, <1>3 DEF AdministrationType
<1>5. ASSUME NEW v \in Administrators, v # u PROVE v \in Administrators'
  BY <1>1, <1>2, <1>5 DEF Administrators
<1>6. ASSUME a, u \in Known PROVE users'[u].admin
  BY <1>2, <1>6, RowsOf DEF UserRow
<1> QED BY <1>1, <1>4, <1>5, <1>6 DEF Administrators

(* A step that demotes nobody and moves no call into the write keeps the   *)
(* two facts about administrators.                                         *)
LEMMA Kept ==
    ASSUME CountHolds, AdminRemains, Administrators \subseteq Administrators',
           cliDemoted => cliDemoted',
           \A c \in Callers : adminCall'[c].pc = "write" => adminCall'[c] = adminCall[c]
    PROVE CountHolds' /\ AdminRemains'
<1>1. AdminRemains'
  BY DEF AdminRemains
<1>2. ASSUME NEW c \in Callers, Calling(c, "write")', adminCall'[c].changed, ~adminCall'[c].admin
      PROVE cliDemoted' \/ Another(adminCall[c].user)'
  <2>1. adminCall'[c] = adminCall[c]
    BY <1>2 DEF Calling
  <2>2. cliDemoted \/ Another(adminCall[c].user)
    BY <1>2, <2>1 DEF CountHolds, Calling
  <2> QED BY <2>1, <2>2 DEF Another
<1>3. CountHolds'
  BY <1>2 DEF CountHolds, Calling, Another
<1> QED BY <1>1, <1>3

LEMMA AdministrationStart == AdministrationInit => AdministrationInv
<1> SUFFICES ASSUME AdministrationInit PROVE AdministrationInv
  OBVIOUS
<1>1. (CHOOSE p \in Passwords : TRUE) \in Passwords
  BY PasswordsAssumption
<1>2. Known = First /\ users \in [First -> UserRow]
  BY <1>1 DEF AdministrationInit, Known, UserRow, Hashes
<1>3. Administrators # {}
  BY <1>2, FirstAssumption DEF AdministrationInit, Administrators
<1>4. AdministrationType
  BY <1>2, FirstAssumption, CallTypes DEF AdministrationInit, AdministrationType
<1> QED BY <1>3, <1>4 DEF AdministrationInit, AdministrationInv, LockHeld, CountHolds, AdminRemains,
          Calling

(***************************************************************************)
(* Steps that leave the lock's critical section alone.                     *)
(***************************************************************************)
Inside == {"role", "count", "write"}

(* A caller outside the section moves outside it, or leaves it.            *)
LEMMA OutsideSteps ==
    ASSUME AdministrationType, LockHeld, NEW c \in Callers, NEW s \in AdminCall, CallGo(c, s),
           s.pc \notin Inside, roleLock' = roleLock \/ roleLock' = roleLock \ {c}
    PROVE /\ adminCall' \in [Callers -> AdminCall]
          /\ LockHeld'
          /\ \A d \in Callers : adminCall'[d].pc = "write" => adminCall'[d] = adminCall[d]
<1>1. adminCall' \in [Callers -> AdminCall]
  BY DEF AdministrationType, CallGo
<1>2. \A d \in Callers : adminCall'[d] = IF d = c THEN s ELSE adminCall[d]
  BY DEF AdministrationType, CallGo
<1>3. ASSUME NEW d \in Callers, adminCall'[d].pc \in Inside PROVE roleLock' = {d}
  <2>1. d # c /\ adminCall[d].pc \in Inside
    BY <1>2, <1>3
  <2>2. roleLock = {d}
    BY <2>1 DEF LockHeld, Inside
  <2> QED BY <2>1, <2>2
<1> QED BY <1>1, <1>2, <1>3 DEF LockHeld, Inside

(* ... and when it demotes nobody, everything is kept.                     *)
LEMMA HarmlessSteps ==
    ASSUME AdministrationInv, NEW c \in Callers, NEW s \in AdminCall, CallGo(c, s),
           s.pc \notin Inside, roleLock' = roleLock \/ roleLock' = roleLock \ {c},
           users' \in [Known' -> UserRow], Known' \subseteq People,
           Administrators \subseteq Administrators',
           cliDemoted' = cliDemoted
    PROVE AdministrationInv'
<1>1. /\ adminCall' \in [Callers -> AdminCall]
      /\ LockHeld'
      /\ \A d \in Callers : adminCall'[d].pc = "write" => adminCall'[d] = adminCall[d]
  BY OutsideSteps DEF AdministrationInv
<1>2. CountHolds' /\ AdminRemains'
  BY <1>1, Kept DEF AdministrationInv
<1> QED BY <1>1, <1>2 DEF AdministrationInv, AdministrationType

(* The callers outside the section that write no user.                     *)
LEMMA ReadingSteps ==
    ASSUME AdministrationInv, NEW c \in Callers, NEW s \in AdminCall, CallGo(c, s),
           s.pc \notin Inside, roleLock' = roleLock \/ roleLock' = roleLock \ {c},
           users' = users, cliDemoted' = cliDemoted
    PROVE AdministrationInv'
<1>1. Known' = Known /\ Administrators' = Administrators
  BY DEF Known, Administrators
<1> QED BY <1>1, HarmlessSteps DEF AdministrationInv, AdministrationType

LEMMA Reading ==
    ASSUME AdministrationInv, NEW c \in Callers,
           \/ \E u \in People : c \in Admins /\ Authenticate(c, u)
           \/ \E u \in People, p \in Passwords : IssueKey(c, u, p)
           \/ \E u \in People, k \in DOMAIN keys : RevokeKey(c, u, k)
           \/ Leave(c)
           \/ \E u \in People, admin \in BOOLEAN : c \in Operators /\ Command(c, u, admin)
    PROVE AdministrationInv'
<1> DEFINE idle == [pc |-> "idle"]
<1>0. idle \in AdminCall /\ idle.pc \notin Inside
  BY CallTypes DEF Inside
<1> HIDE DEF idle
<1>1. ASSUME NEW u \in People, Authenticate(c, u) PROVE AdministrationInv'
  <2> DEFINE s == [pc |-> "admin", password |-> users[u].password]
  <2>1. u \in Known
    BY <1>1 DEF Authenticate, Administrators
  <2>2. s \in AdminCall /\ s.pc \notin Inside
    BY <2>1, RowsOf, CallTypes DEF AdministrationInv, UserRow, Inside
  <2>3. CallGo(c, s) /\ UNCHANGED <<users, roleLock, cliDemoted>>
    BY <1>1 DEF Authenticate
  <2> HIDE DEF s
  <2> QED BY <2>2, <2>3, ReadingSteps
<1>2. ASSUME NEW u \in People, NEW p \in Passwords, IssueKey(c, u, p) PROVE AdministrationInv'
  <2>1. CallGo(c, idle) /\ UNCHANGED <<users, roleLock, cliDemoted>>
    BY <1>2 DEF IssueKey, CallEnd, idle
  <2> QED BY <1>0, <2>1, ReadingSteps
<1>3. ASSUME NEW u \in People, NEW k \in DOMAIN keys, RevokeKey(c, u, k) PROVE AdministrationInv'
  <2>1. CallGo(c, idle) /\ UNCHANGED <<users, roleLock, cliDemoted>>
    BY <1>3 DEF RevokeKey, CallEnd, idle
  <2> QED BY <1>0, <2>1, ReadingSteps
<1>4. CASE Leave(c)
  <2>1. CallGo(c, idle) /\ roleLock' = roleLock \ {c} /\ UNCHANGED <<users, cliDemoted>>
    BY <1>4 DEF Leave, CallEnd, idle
  <2> QED BY <1>0, <2>1, ReadingSteps
<1>5. ASSUME NEW u \in People, NEW admin \in BOOLEAN, Command(c, u, admin)
      PROVE AdministrationInv'
  <2> DEFINE s == [pc |-> "command", user |-> u, admin |-> admin]
  <2>1. s \in AdminCall /\ s.pc \notin Inside
    BY CallTypes DEF Inside
  <2>2. CallGo(c, s) /\ UNCHANGED <<users, roleLock, cliDemoted>>
    BY <1>5 DEF Command
  <2> HIDE DEF s
  <2> QED BY <2>1, <2>2, ReadingSteps
<1> QED BY <1>1, <1>2, <1>3, <1>4, <1>5

(***************************************************************************)
(* Steps that write users outside the section.                             *)
(***************************************************************************)
LEMMA Creating ==
    ASSUME AdministrationInv, NEW c \in Callers, NEW u \in People, NEW admin \in BOOLEAN,
           CreateUser(c, u, admin)
    PROVE AdministrationInv'
<1> DEFINE s == IF u \notin Known /\ admin THEN [pc |-> "promote", user |-> u] ELSE [pc |-> "idle"]
<1>1. s \in AdminCall /\ s.pc \notin Inside
  BY CallTypes DEF Inside
<1>2. CallGo(c, s) /\ roleLock' = roleLock /\ cliDemoted' = cliDemoted /\ users' = Inserted(u)
  BY DEF CreateUser, CallEnd
<1>3. [admin |-> FALSE, password |-> "none"] \in UserRow
  BY DEF UserRow, Hashes
<1>4. Known' = Known \cup {u} /\ users' \in [Known' -> UserRow]
  BY <1>2, <1>3, RowsOf DEF AdministrationInv, AdministrationType, Inserted, Known
<1>5. \A v \in Known : users'[v] = users[v]
  BY <1>2 DEF Inserted
<1>6. Administrators \subseteq Administrators'
  BY <1>4, <1>5 DEF Administrators
<1>7. Known' \subseteq People
  BY <1>4 DEF AdministrationInv, AdministrationType
<1> HIDE DEF s
<1> QED BY <1>1, <1>2, <1>4, <1>6, <1>7, HarmlessSteps

LEMMA Promoting ==
    ASSUME AdministrationInv, NEW c \in Callers, Promote(c)
    PROVE AdministrationInv'
<1> DEFINE s == [pc |-> "idle"]
<1>1. s \in AdminCall /\ s.pc \notin Inside
  BY CallTypes DEF Inside
<1>2. /\ CallGo(c, s) /\ roleLock' = roleLock /\ cliDemoted' = cliDemoted
      /\ users' = [users EXCEPT ![adminCall[c].user].admin = TRUE]
      /\ adminCall[c].pc = "promote"
  BY DEF Promote, CallEnd, Calling
<1>3. AdministrationType /\ adminCall[c].user \in People
  BY <1>2, CallFields DEF AdministrationInv
<1>4. /\ Known' = Known /\ users' \in [Known -> UserRow]
      /\ Administrators \subseteq Administrators'
  BY <1>2, <1>3, RoleWritten
<1> HIDE DEF s
<1> QED BY <1>1, <1>2, <1>3, <1>4, HarmlessSteps DEF AdministrationType

(* A command may take any role away: that is what cliDemoted remembers.    *)
LEMMA CommandWrites ==
    ASSUME AdministrationInv, NEW o \in Callers,
           SetRole(o) \/ \E p \in Passwords : SetPassword(o, p)
    PROVE AdministrationInv'
<1> DEFINE s == [pc |-> "idle"]
<1>1. s \in AdminCall /\ s.pc \notin Inside
  BY CallTypes DEF Inside
<1>2. CallGo(o, s) /\ roleLock' = roleLock /\ adminCall[o].pc = "command"
  BY DEF SetRole, SetPassword, CallEnd, Calling
<1>3. /\ AdministrationType /\ LockHeld
      /\ adminCall[o].user \in People /\ adminCall[o].admin \in BOOLEAN
  BY <1>2, CallFields DEF AdministrationInv
<1>4. ASSUME NEW p \in Passwords, SetPassword(o, p) PROVE AdministrationInv'
  <2>1. users' = [users EXCEPT ![adminCall[o].user].password = p] /\ cliDemoted' = cliDemoted
    BY <1>4 DEF SetPassword
  <2>2. Known' = Known
    BY <2>1, <1>3 DEF AdministrationType, Known
  <2>3. ASSUME NEW v \in Known PROVE users'[v] \in UserRow /\ users'[v].admin = users[v].admin
    <3>1. users'[v] = users[v] \/ users'[v] = [users[v] EXCEPT !.password = p]
      BY <2>1, <1>3 DEF AdministrationType
    <3> QED BY <3>1, <1>3, RowsOf DEF UserRow, Hashes
  <2>4. users' \in [Known -> UserRow]
    BY <2>1, <2>3, <2>2, <1>3 DEF AdministrationType
  <2>5. Administrators' = Administrators
    BY <2>2, <2>3 DEF Administrators
  <2> HIDE DEF s
  <2> QED BY <1>1, <1>2, <1>3, <2>1, <2>2, <2>4, <2>5, HarmlessSteps DEF AdministrationType
<1>5. CASE SetRole(o)
  <2> DEFINE a == adminCall[o].admin
  <2>1. /\ users' = [users EXCEPT ![adminCall[o].user].admin = a]
        /\ cliDemoted' = (cliDemoted \/ ~a)
    BY <1>5 DEF SetRole
  <2>2. /\ Known' = Known /\ users' \in [Known -> UserRow]
        /\ a => Administrators \subseteq Administrators'
    BY <2>1, <1>3, RoleWritten
  <2>3. CASE a
    <3>1. cliDemoted' = cliDemoted
      BY <2>1, <2>3, <1>3 DEF AdministrationType
    <3> HIDE DEF s
    <3> QED BY <1>1, <1>2, <1>3, <2>2, <2>3, <3>1, HarmlessSteps DEF AdministrationType
  <2>4. CASE ~a
    <3>1. cliDemoted' = TRUE
      BY <2>1, <2>4
    <3> HIDE DEF s
    <3>2. adminCall' \in [Callers -> AdminCall] /\ LockHeld'
      BY <1>1, <1>2, <1>3, OutsideSteps
    <3> QED BY <1>3, <2>2, <3>1, <3>2
          DEF AdministrationInv, AdministrationType, CountHolds, AdminRemains
  <2> QED BY <2>3, <2>4
<1> QED BY <1>4, <1>5

(***************************************************************************)
(* The critical section of set_admin_preserving_last.                      *)
(***************************************************************************)
(* Its holder moves on inside, holding the lock alone.                     *)
LEMMA InsideSteps ==
    ASSUME AdministrationType, LockHeld, NEW r \in Callers, NEW s \in AdminCall, CallGo(r, s),
           roleLock' = {r},
           \A d \in Callers : d # r => adminCall[d].pc \notin Inside
    PROVE adminCall' \in [Callers -> AdminCall] /\ LockHeld'
<1>1. \A d \in Callers : adminCall'[d] = IF d = r THEN s ELSE adminCall[d]
  BY DEF AdministrationType, CallGo
<1> QED BY <1>1 DEF AdministrationType, CallGo, LockHeld, Inside

(* Who is inside is there alone.                                           *)
LEMMA Alone ==
    ASSUME LockHeld, NEW r \in Callers, adminCall[r].pc \in Inside
    PROVE roleLock = {r} /\ \A d \in Callers : d # r => adminCall[d].pc \notin Inside
BY DEF LockHeld, Inside

LEMMA Locking ==
    ASSUME AdministrationInv, NEW r \in Callers, NEW u \in People, NEW admin \in BOOLEAN,
           SetAdminLock(r, u, admin)
    PROVE AdministrationInv'
<1> DEFINE s == [pc |-> "role", user |-> u, admin |-> admin]
<1>1. s \in AdminCall /\ s.pc = "role"
  BY CallTypes
<1>2. /\ CallGo(r, s) /\ roleLock = {} /\ roleLock' = {r}
      /\ users' = users /\ cliDemoted' = cliDemoted
  BY DEF SetAdminLock, LockFree
<1>3. \A d \in Callers : adminCall[d].pc \notin Inside
  BY <1>2 DEF AdministrationInv, LockHeld, Inside
<1>4. \A d \in Callers : adminCall'[d].pc = "write" => adminCall'[d] = adminCall[d]
  BY <1>1, <1>2 DEF AdministrationInv, AdministrationType, CallGo
<1>5. Known' = Known /\ Administrators' = Administrators
  BY <1>2 DEF Known, Administrators
<1> HIDE DEF s
<1>6. adminCall' \in [Callers -> AdminCall] /\ LockHeld'
  BY <1>1, <1>2, <1>3, InsideSteps DEF AdministrationInv
<1>7. CountHolds' /\ AdminRemains'
  BY <1>2, <1>4, <1>5, Kept DEF AdministrationInv
<1> QED BY <1>2, <1>5, <1>6, <1>7 DEF AdministrationInv, AdministrationType

LEMMA RoleReading ==
    ASSUME AdministrationInv, NEW r \in Callers, SetAdminRead(r)
    PROVE AdministrationInv'
<1> DEFINE u == adminCall[r].user
           a == adminCall[r].admin
           idle == [pc |-> "idle"]
           count == [pc |-> "count", user |-> u, admin |-> a]
           write == [pc |-> "write", user |-> u, admin |-> a, changed |-> users[u].admin # a]
<1>1. /\ adminCall[r].pc = "role" /\ users' = users /\ cliDemoted' = cliDemoted
      /\ u \in People /\ a \in BOOLEAN
      /\ adminCall[r] = [pc |-> "role", user |-> u, admin |-> a]
  BY CallFields DEF SetAdminRead, Calling, AdministrationInv
<1>2. roleLock = {r} /\ \A d \in Callers : d # r => adminCall[d].pc \notin Inside
  BY <1>1, Alone DEF AdministrationInv, Inside
<1>3. Known' = Known /\ Administrators' = Administrators
  BY <1>1 DEF Known, Administrators
<1>4. CASE u \notin Known
  <2>1. CallGo(r, idle) /\ roleLock' = roleLock \ {r}
    BY <1>4 DEF SetAdminRead, CallEnd
  <2>2. idle \in AdminCall /\ idle.pc \notin Inside
    BY CallTypes DEF Inside
  <2> HIDE DEF idle
  <2> QED BY <1>1, <2>1, <2>2, ReadingSteps
<1>5. CASE u \in Known /\ users[u].admin /\ ~a
  <2>1. [adminCall[r] EXCEPT !.pc = "count"] = count
    BY <1>1
  <2>2. CallGo(r, count) /\ roleLock' = roleLock
    BY <1>5, <2>1 DEF SetAdminRead
  <2>3. count \in AdminCall /\ count.pc = "count"
    BY <1>1, CallTypes
  <2>4. \A d \in Callers : adminCall'[d].pc = "write" => adminCall'[d] = adminCall[d]
    BY <2>2, <2>3 DEF AdministrationInv, AdministrationType, CallGo
  <2> HIDE DEF count
  <2>5. adminCall' \in [Callers -> AdminCall] /\ LockHeld'
    BY <1>2, <2>2, <2>3, InsideSteps DEF AdministrationInv
  <2>6. CountHolds' /\ AdminRemains'
    BY <1>1, <1>3, <2>4, Kept DEF AdministrationInv
  <2> QED BY <1>1, <1>3, <2>5, <2>6 DEF AdministrationInv, AdministrationType
<1>6. CASE u \in Known /\ (users[u].admin => a)
  <2>1. CallGo(r, write) /\ roleLock' = roleLock
    BY <1>6 DEF SetAdminRead
  <2>2. users[u].admin \in BOOLEAN
    BY <1>6, RowsOf DEF AdministrationInv
  <2>3. write \in AdminCall
    BY <1>1, <2>2, CallTypes
  <2>4. write.changed => write.admin
    <3>1. users[u].admin # a => a
      <4>1. CASE a = TRUE
        BY <4>1
      <4>2. CASE a = FALSE
        BY <1>6, <2>2, <4>2
      <4> QED BY <1>1, <4>1, <4>2
    <3>2. write.changed = (users[u].admin # a) /\ write.admin = a
      OBVIOUS
    <3> QED BY <3>1, <3>2
  <2>5. \A d \in Callers : adminCall'[d] = IF d = r THEN write ELSE adminCall[d]
    BY <2>1 DEF AdministrationInv, AdministrationType, CallGo
  <2>6. CountHolds'
    <3> HIDE DEF write
    <3> QED BY <1>1, <1>3, <2>4, <2>5 DEF AdministrationInv, CountHolds, Calling, Another
  <2> HIDE DEF write
  <2>7. adminCall' \in [Callers -> AdminCall] /\ LockHeld'
    BY <1>2, <2>1, <2>3, InsideSteps DEF AdministrationInv
  <2> QED BY <1>1, <1>3, <2>6, <2>7 DEF AdministrationInv, AdministrationType, AdminRemains
<1> QED BY <1>1, <1>4, <1>5, <1>6

LEMMA Counting ==
    ASSUME AdministrationInv, NEW r \in Callers, SetAdminCount(r)
    PROVE AdministrationInv'
<1> DEFINE u == adminCall[r].user
           idle == [pc |-> "idle"]
           write == [pc |-> "write", user |-> u, admin |-> FALSE, changed |-> TRUE]
<1>1. adminCall[r].pc = "count" /\ users' = users /\ cliDemoted' = cliDemoted /\ u \in People
  BY CallFields DEF SetAdminCount, Calling, AdministrationInv
<1>2. roleLock = {r} /\ \A d \in Callers : d # r => adminCall[d].pc \notin Inside
  BY <1>1, Alone DEF AdministrationInv, Inside
<1>3. Known' = Known /\ Administrators' = Administrators
  BY <1>1 DEF Known, Administrators
<1>4. CASE LastOne
  <2>1. CallGo(r, idle) /\ roleLock' = roleLock \ {r}
    BY <1>4 DEF SetAdminCount, CallEnd
  <2>2. idle \in AdminCall /\ idle.pc \notin Inside
    BY CallTypes DEF Inside
  <2> HIDE DEF idle
  <2> QED BY <1>1, <2>1, <2>2, ReadingSteps
<1>5. CASE ~LastOne
  <2>1. CallGo(r, write) /\ roleLock' = roleLock
    BY <1>5 DEF SetAdminCount
  <2>2. write \in AdminCall
    BY <1>1, CallTypes
  <2>3. cliDemoted \/ Another(u)
    <3>1. CASE Administrators = {}
      BY <3>1 DEF AdministrationInv, AdminRemains
    <3>2. CASE Administrators # {}
      <4>1. Administrators # {u}
        BY <1>5, FS_Singleton DEF LastOne
      <4> QED BY <3>2, <4>1 DEF Another
    <3> QED BY <3>1, <3>2
  <2>4. \A d \in Callers : adminCall'[d] = IF d = r THEN write ELSE adminCall[d]
    BY <2>1 DEF AdministrationInv, AdministrationType, CallGo
  <2>5. write.user = u
    OBVIOUS
  <2>6. CountHolds'
    <3> HIDE DEF write, u
    <3> QED BY <1>1, <1>3, <2>3, <2>4, <2>5 DEF AdministrationInv, CountHolds, Calling, Another
  <2> HIDE DEF write
  <2>7. adminCall' \in [Callers -> AdminCall] /\ LockHeld'
    BY <1>2, <2>1, <2>2, InsideSteps DEF AdministrationInv
  <2> QED BY <1>1, <1>3, <2>6, <2>7 DEF AdministrationInv, AdministrationType, AdminRemains
<1> QED BY <1>4, <1>5

(* The write itself: nobody else is inside, so only its own count matters. *)
LEMMA Writing ==
    ASSUME AdministrationInv, NEW r \in Callers, SetAdminWrite(r)
    PROVE AdministrationInv'
<1> DEFINE u == adminCall[r].user
           a == adminCall[r].admin
           idle == [pc |-> "idle"]
<1>1. /\ adminCall[r].pc = "write" /\ cliDemoted' = cliDemoted
      /\ u \in People /\ a \in BOOLEAN /\ adminCall[r].changed \in BOOLEAN
      /\ CallGo(r, idle) /\ roleLock' = roleLock \ {r}
  BY CallFields DEF SetAdminWrite, Calling, CallEnd, AdministrationInv
<1>2. \A d \in Callers : d # r => adminCall[d].pc \notin Inside
  BY <1>1, Alone DEF AdministrationInv, Inside
<1>3. idle \in AdminCall /\ idle.pc \notin Inside
  BY CallTypes DEF Inside
<1>4. CASE ~adminCall[r].changed
  <2>1. users' = users
    BY <1>4 DEF SetAdminWrite
  <2> HIDE DEF idle
  <2> QED BY <1>1, <1>3, <2>1, ReadingSteps
<1>5. CASE adminCall[r].changed
  <2>1. users' = [users EXCEPT ![u].admin = a]
    BY <1>5 DEF SetAdminWrite
  <2>2. /\ Known' = Known /\ users' \in [Known -> UserRow]
        /\ Administrators \ {u} \subseteq Administrators'
        /\ a => Administrators \subseteq Administrators'
    BY <1>1, <2>1, RoleWritten DEF AdministrationInv
  <2> HIDE DEF idle
  <2>3. adminCall' \in [Callers -> AdminCall] /\ LockHeld'
    BY <1>1, <1>3, OutsideSteps DEF AdministrationInv
  <2>4. AdminRemains'
    <3>1. CASE a
      BY <1>1, <2>2, <3>1 DEF AdministrationInv, AdminRemains
    <3>2. CASE ~a
      <4>1. cliDemoted \/ Another(u)
        BY <1>1, <1>5, <3>2 DEF AdministrationInv, CountHolds, Calling
      <4> QED BY <1>1, <2>2, <4>1 DEF Another, AdminRemains
    <3> QED BY <3>1, <3>2
  <2>5. \A d \in Callers : adminCall'[d].pc # "write"
    BY <1>1, <1>2, <1>3 DEF AdministrationInv, AdministrationType, CallGo, Inside
  <2> QED BY <1>1, <2>2, <2>3, <2>4, <2>5
        DEF AdministrationInv, AdministrationType, CountHolds, Calling
<1> QED BY <1>1, <1>4, <1>5

LEMMA AdministrationStep ==
    AdministrationInv /\ [AdministrationNext]_adminVars => AdministrationInv'
<1> SUFFICES ASSUME AdministrationInv, [AdministrationNext]_adminVars PROVE AdministrationInv'
  OBVIOUS
<1>0. Admins \subseteq Callers /\ Operators \subseteq Callers
  BY DEF Callers
<1>1. ASSUME NEW r \in Admins, NEW u \in People, Authenticate(r, u) PROVE AdministrationInv'
  BY <1>0, <1>1, Reading
<1>2. ASSUME NEW r \in Admins, NEW u \in People, NEW admin \in BOOLEAN, SetAdminLock(r, u, admin)
      PROVE AdministrationInv'
  BY <1>0, <1>2, Locking
<1>3. ASSUME NEW r \in Admins, SetAdminRead(r) \/ SetAdminCount(r) \/ SetAdminWrite(r) \/ Promote(r)
      PROVE AdministrationInv'
  BY <1>0, <1>3, RoleReading, Counting, Writing, Promoting
<1>4. ASSUME NEW c \in Callers, NEW u \in People, NEW admin \in BOOLEAN, CreateUser(c, u, admin)
      PROVE AdministrationInv'
  BY <1>4, Creating
<1>5. ASSUME NEW c \in Callers,
             \/ \E u \in People, p \in Passwords : IssueKey(c, u, p)
             \/ \E u \in People, k \in DOMAIN keys : RevokeKey(c, u, k)
             \/ Leave(c)
      PROVE AdministrationInv'
  BY <1>5, Reading
<1>6. ASSUME NEW o \in Operators, NEW u \in People, NEW admin \in BOOLEAN, Command(o, u, admin)
      PROVE AdministrationInv'
  BY <1>0, <1>6, Reading
<1>7. ASSUME NEW o \in Operators, SetRole(o) \/ \E p \in Passwords : SetPassword(o, p)
      PROVE AdministrationInv'
  BY <1>0, <1>7, CommandWrites
<1>8. CASE UNCHANGED adminVars
  BY <1>8 DEF adminVars, AdministrationInv, AdministrationType, LockHeld, CountHolds, AdminRemains,
     Calling, Another, Administrators, Known
<1> QED BY <1>1, <1>2, <1>3, <1>4, <1>5, <1>6, <1>7, <1>8 DEF AdministrationNext

LEMMA AdministrationInvariant == AdministrationSpec => []AdministrationInv
BY AdministrationStart, AdministrationStep, PTL DEF AdministrationSpec

(* However many administrators demote each other at once, one remains      *)
(* unless the operator's command line takes the role away                  *)
(* (set_admin_preserving_last).                                            *)
THEOREM OneRemains == AdministrationSpec => []AdminRemains
<1>1. AdministrationInv => AdminRemains
  BY DEF AdministrationInv
<1> QED BY <1>1, AdministrationInvariant, PTL

(***************************************************************************)
(* The project key.  A repository that cached its key since the last       *)
(* change has the key its remote gives now, and a session of one of its    *)
(* directories that asks git asks it about that repository.                *)
(***************************************************************************)
Asked == {"root", "origin", "names", "first", "derive"}
InProgressSession ==
    /\ session.pc \in Asked /\ session.dir \in Dirs /\ session.root \in Dirs
    /\ session.spent \in Nat /\ session.spent <= GitBudget
    /\ session.attempt \in {1, 2} /\ session.settled \in BOOLEAN
    /\ session = [pc |-> session.pc, dir |-> session.dir, root |-> session.root,
                  spent |-> session.spent, attempt |-> session.attempt,
                  settled |-> session.settled]
    /\ session.settled => /\ Root(session.dir) \in settled /\ AnchorKey(session.dir) = NoKey
                          /\ session.pc # "root" => session.root = Root(session.dir)
EndedSession ==
    /\ session.pc = "done" /\ session.dir \in Dirs
    /\ session.spent \in Nat /\ session.spent <= GitBudget
    /\ session = [pc |-> session.pc, dir |-> session.dir, spent |-> session.spent,
                  key |-> session.key, settled |-> session.settled, own |-> session.own]
    /\ KeptKey
KeyInv ==
    /\ repos \subseteq Dirs /\ keyCache = [d \in Dirs |-> keyCache[d]]
    /\ settled \subseteq repos /\ \A r \in settled : keyCache[r] = RemoteKey(r)
    /\ session = [pc |-> "idle"] \/ InProgressSession \/ EndedSession

LEMMA DirsAre == Dirs \subseteq Nat
BY BudgetAssumption DEF Dirs

LEMMA RootIs ==
    ASSUME repos \subseteq Dirs, NEW d \in Dirs
    PROVE /\ Root(d) \in Dirs
          /\ Root(d) \in repos => /\ Root(d) <= d
                                  /\ \A q \in repos : q <= d => q <= Root(d)
<1>1. CASE Top(d) = {}
  <2>1. d \notin repos \/ \E q \in repos : q <= d /\ ~(q <= d)
    BY <1>1, DirsAre DEF Top
  <2> QED BY <1>1, <2>1 DEF Root
<1>2. CASE Top(d) # {}
  <2>1. Root(d) \in Top(d)
    BY <1>2 DEF Root
  <2> QED BY <2>1 DEF Top
<1> QED BY <1>1, <1>2

LEMMA RemoteKeyIs == \A r : RemoteKey(r) # NoKey
BY DEF RemoteKey, LocalKey, NoKey, Absent

(* The cache a session falls back on is that of its own checkout.          *)
LEMMA CacheOfCheckout ==
    ASSUME KeyInv, NEW d \in Dirs, Root(d) \in settled
    PROVE CachedKey(d) = RemoteKey(Root(d))
<1>1. PICK r : r = Root(d)
  OBVIOUS
<1>2. /\ r \in repos /\ r <= d /\ r \in Nat /\ \A q \in repos : q <= d => q <= r
      /\ keyCache[r] = RemoteKey(r)
  BY <1>1, RootIs, DirsAre DEF KeyInv
<1>3. PICK S : S = {q \in repos : keyCache[q] # NoKey}
  OBVIOUS
<1>4. r \in S /\ S \subseteq repos
  BY <1>2, <1>3, RemoteKeyIs
<1>5. \A q \in repos : q \in Nat
  BY DirsAre DEF KeyInv
<1>6. Nearest(d, S) = {r}
  <2>1. r \in Nearest(d, S)
    BY <1>2, <1>4 DEF Nearest
  <2>2. ASSUME NEW e \in Nearest(d, S) PROVE e = r
    <3>1. e \in S /\ e <= d /\ r <= e
      BY <1>2, <1>4 DEF Nearest
    <3>2. e <= r /\ e \in Nat
      BY <1>2, <1>4, <1>5, <3>1
    <3> QED BY <1>2, <3>1, <3>2
  <2> QED BY <2>1, <2>2
<1>7. Content(Nearest(d, S), keyCache, NoKey) = keyCache[r]
  BY <1>6 DEF Content
<1> QED BY <1>1, <1>2, <1>3, <1>7 DEF CachedKey

LEMMA KeyStart == KeyInit => KeyInv
BY DEF KeyInit, KeyInv

(* Nothing about the directories moves while sessions do.                  *)
LEMMA Directories ==
    ASSUME UNCHANGED directories
    PROVE /\ \A d : /\ Root(d)' = Root(d) /\ AnchorKey(d)' = AnchorKey(d)
                    /\ RemoteKey(d)' = RemoteKey(d) /\ HealthyKey(d)' = HealthyKey(d)
<1>1. \A d : Root(d)' = Root(d) /\ AnchorKey(d)' = AnchorKey(d) /\ RemoteKey(d)' = RemoteKey(d)
  BY DEF directories, Root, Top, AnchorKey, Nearest, Content, RemoteKey, LocalKey
<1> QED BY <1>1 DEF HealthyKey

LEMMA Ending ==
    ASSUME KeyInv, InProgressSession, UNCHANGED directories, NEW key, NEW t \in Nat,
           Ends(key, t), session.spent + t <= GitBudget,
           session.settled => key = RemoteKey(Root(session.dir))
    PROVE EndedSession'
<1>1. session' = [pc |-> "done", dir |-> session.dir, spent |-> session.spent + t, key |-> key,
                  settled |-> session.settled,
                  own |-> had[session.root] \cup had[Root(session.dir)]]
  BY DEF Ends
<1>2. session.settled => key = HealthyKey(session.dir)
  BY DEF InProgressSession, HealthyKey
<1>3. KeptKey'
  BY <1>1, <1>2, Directories DEF KeptKey
<1>4. session.spent + t \in Nat /\ session.dir \in Dirs
  BY DEF InProgressSession
<1> QED BY <1>1, <1>3, <1>4 DEF EndedSession

LEMMA Starting == ASSUME KeyInv, NEW d \in Dirs, StartSession(d) PROVE KeyInv'
<1>1. UNCHANGED <<directories, keyCache, settled>>
  BY DEF StartSession
<1>2. /\ \A e : Root(e)' = Root(e) /\ AnchorKey(e)' = AnchorKey(e)
      /\ \A e : RemoteKey(e)' = RemoteKey(e) /\ HealthyKey(e)' = HealthyKey(e)
  BY <1>1, Directories DEF directories
<1>3. CASE AnchorKey(d) = NoKey
  <2>1. session' = [pc |-> "root", dir |-> d, root |-> d, spent |-> 0, attempt |-> 1,
                    settled |-> Root(d) \in settled]
    BY <1>3 DEF StartSession
  <2>2. InProgressSession'
    <3>1. 0 \in Nat /\ 0 <= GitBudget /\ 1 \in {1, 2} /\ (Root(d) \in settled) \in BOOLEAN
      BY BudgetAssumption
    <3>2. PICK now : now = (Root(d) \in settled)
      OBVIOUS
    <3>3. session' = [pc |-> "root", dir |-> d, root |-> d, spent |-> 0, attempt |-> 1,
                      settled |-> now]
      BY <2>1, <3>2
    <3>4. now \in BOOLEAN
      BY <3>2
    <3> QED BY <1>1, <1>2, <1>3, <3>1, <3>2, <3>3, <3>4 DEF InProgressSession, Asked
  <2> QED BY <1>1, <1>2, <2>2 DEF KeyInv, directories
<1>4. CASE AnchorKey(d) # NoKey
  <2>1. session' = [pc |-> "done", dir |-> d, spent |-> 0, key |-> AnchorKey(d),
                    settled |-> Root(d) \in settled, own |-> {}]
    BY <1>4 DEF StartSession
  <2>2. AnchorKey(d) = HealthyKey(d)
    BY <1>4 DEF HealthyKey
  <2>3. KeptKey'
    BY <1>2, <2>1, <2>2 DEF KeptKey
  <2>4. EndedSession'
    BY <2>1, <2>3, BudgetAssumption DEF EndedSession, Dirs
  <2> QED BY <1>1, <1>2, <2>4 DEF KeyInv, directories
<1> QED BY <1>3, <1>4

(* What a call of git may take is what is left.                            *)
LEMMA Spending ==
    ASSUME InProgressSession, InTime
    PROVE Timeout \in Nat /\ session.spent + Timeout <= GitBudget
<1>1. PICK s, p : s = session.spent /\ p = GitPerCall * session.attempt
  OBVIOUS
<1>2. s \in Nat /\ p \in Nat /\ s < GitBudget /\ GitBudget \in Nat
  BY <1>1, BudgetAssumption DEF InProgressSession, InTime
<1>3. Timeout = IF GitBudget - s < p THEN GitBudget - s ELSE p
  BY <1>1 DEF Timeout
<1> QED BY <1>1, <1>2, <1>3

LEMMA GitAnswering == ASSUME KeyInv, GitAnswers \/ GitRetries PROVE KeyInv'
<1>1. UNCHANGED <<directories, keyCache, settled>> /\ Asking /\ InTime
  BY DEF GitAnswers, GitRetries
<1>2. /\ \A e : Root(e)' = Root(e) /\ AnchorKey(e)' = AnchorKey(e)
      /\ \A e : RemoteKey(e)' = RemoteKey(e)
  BY <1>1, Directories DEF directories
<1>3. InProgressSession
  BY <1>1 DEF KeyInv, Asking, EndedSession
<1>4. Timeout \in Nat /\ session.spent + Timeout <= GitBudget
  BY <1>1, <1>3, Spending
<1>5. CASE GitRetries
  <2>1. session' = [session EXCEPT !.attempt = 2, !.spent = @ + Timeout]
    BY <1>5 DEF GitRetries
  <2>2. PICK t : t = session.spent + Timeout
    OBVIOUS
  <2>3. t \in Nat /\ t <= GitBudget
    BY <1>3, <1>4, <2>2 DEF InProgressSession
  <2>4. session' = [pc |-> session.pc, dir |-> session.dir, root |-> session.root,
                    spent |-> t, attempt |-> 2, settled |-> session.settled]
    BY <1>3, <2>1, <2>2 DEF InProgressSession
  <2>5. InProgressSession'
    BY <1>1, <1>2, <1>3, <2>3, <2>4 DEF InProgressSession
  <2> QED BY <1>1, <1>2, <2>5 DEF KeyInv, directories
<1>6. CASE GitAnswers
  <2>1. PICK t \in {0, Timeout}, pc \in Asked, root \in Dirs :
          /\ Asks(pc, root, t)
          /\ root = session.root \/ root = Root(session.dir)
          /\ session.pc = "root" => root = Root(session.dir)
          /\ pc # "root"
    <3>1. session.dir \in Dirs /\ session.root \in Dirs /\ Root(session.dir) \in Dirs
      BY <1>3, RootIs DEF InProgressSession, KeyInv
    <3>2. PICK t \in {0, Timeout} :
            LET here == remote[session.root].name
            IN CASE session.pc = "root" -> Asks("origin", Root(session.dir), t)
                 [] session.pc = "origin" ->
                      Asks(IF here = "origin" THEN "derive" ELSE "names", session.root, t)
                 [] session.pc = "names" ->
                      Asks(IF here = Absent THEN "derive" ELSE "first", session.root, t)
                 [] session.pc = "first" -> Asks("derive", session.root, t)
      BY <1>6 DEF GitAnswers
    <3>3. CASE session.pc = "root"
      BY <3>1, <3>2, <3>3 DEF Asked
    <3>4. CASE session.pc = "origin"
      BY <3>1, <3>2, <3>4 DEF Asked
    <3>5. CASE session.pc = "names"
      BY <3>1, <3>2, <3>5 DEF Asked
    <3>6. CASE session.pc = "first"
      BY <3>1, <3>2, <3>6 DEF Asked
    <3> QED BY <1>1, <3>3, <3>4, <3>5, <3>6 DEF Asking
  <2>2. PICK s : s = session.spent + t
    OBVIOUS
  <2>3. s \in Nat /\ s <= GitBudget
    BY <1>3, <1>4, <2>1, <2>2 DEF InProgressSession
  <2>4. session' = [pc |-> pc, dir |-> session.dir, root |-> root,
                    spent |-> s, attempt |-> 1, settled |-> session.settled]
    BY <1>3, <2>1, <2>2 DEF InProgressSession, Asks
  <2>5. session.settled => root = Root(session.dir)
    BY <1>3, <2>1 DEF InProgressSession
  <2>6. InProgressSession'
    BY <1>1, <1>2, <1>3, <2>1, <2>3, <2>4, <2>5 DEF InProgressSession
  <2> QED BY <1>1, <1>2, <2>6 DEF KeyInv, directories
<1> QED BY <1>5, <1>6

LEMMA GitFailing == ASSUME KeyInv, GitFails PROVE KeyInv'
<1>1. UNCHANGED <<directories, keyCache, settled>> /\ Asking
  BY DEF GitFails
<1>2. /\ \A e : RemoteKey(e)' = RemoteKey(e)
  BY <1>1, Directories DEF directories
<1>3. InProgressSession
  BY <1>1 DEF KeyInv, Asking, EndedSession
<1>4. PICK t \in IF InTime THEN {0, Timeout} ELSE {0} :
        Ends(IF CachedKey(session.dir) # NoKey THEN CachedKey(session.dir)
             ELSE LocalKey(IF session.pc = "root" THEN session.dir ELSE session.root), t)
  BY DEF GitFails
<1>5. t \in Nat /\ session.spent + t <= GitBudget
  BY <1>3, <1>4, Spending DEF InProgressSession
<1>6. PICK key : key = IF CachedKey(session.dir) # NoKey THEN CachedKey(session.dir)
                 ELSE LocalKey(IF session.pc = "root" THEN session.dir ELSE session.root)
  OBVIOUS
<1>7. session.settled => key = RemoteKey(Root(session.dir))
  BY <1>3, <1>6, CacheOfCheckout, RemoteKeyIs DEF InProgressSession
<1>8. EndedSession'
  BY <1>1, <1>3, <1>4, <1>5, <1>6, <1>7, Ending DEF directories
<1> QED BY <1>1, <1>2, <1>8 DEF KeyInv, directories

LEMMA Deriving == ASSUME KeyInv, Derive PROVE KeyInv'
<1>1. UNCHANGED directories /\ session.pc = "derive"
  BY DEF Derive
<1>2. InProgressSession
  BY <1>1 DEF KeyInv, EndedSession
<1>3. Ends(RemoteKey(session.root), 0)
  BY DEF Derive
<1>4. EndedSession'
  BY <1>1, <1>2, <1>3, Ending DEF InProgressSession
<1>5. \A e : RemoteKey(e)' = RemoteKey(e)
  BY <1>1, Directories
<1>6. /\ keyCache' = [d \in Dirs |-> keyCache'[d]]
      /\ settled' \subseteq repos /\ \A r \in settled' : keyCache'[r] = RemoteKey(r)
  <2>1. CASE UNCHANGED <<keyCache, settled>>
    BY <2>1 DEF KeyInv
  <2>2. CASE /\ session.root \in repos
             /\ keyCache' = [keyCache EXCEPT ![session.root] = RemoteKey(session.root)]
             /\ settled' = settled \cup {session.root}
    BY <1>2, <2>2 DEF KeyInv
  <2> QED BY <2>1, <2>2 DEF Derive
<1> QED BY <1>1, <1>4, <1>5, <1>6 DEF KeyInv, directories

(* After a change nothing is settled.                                      *)
LEMMA Changing ==
    ASSUME KeyInv, Changed, repos' \subseteq Dirs, keyCache' = [d \in Dirs |-> keyCache'[d]]
    PROVE KeyInv'
<1>1. settled' = {}
  BY DEF Changed
<1>2. CASE session = [pc |-> "idle"]
  BY <1>1, <1>2 DEF Changed, KeyInv
<1>3. CASE InProgressSession
  <2>1. session' = [pc |-> session.pc, dir |-> session.dir, root |-> session.root,
                    spent |-> session.spent, attempt |-> session.attempt, settled |-> FALSE]
    BY <1>3 DEF Changed, InProgressSession, Asked
  <2>2. InProgressSession'
    BY <1>3, <2>1 DEF InProgressSession, Asked
  <2> QED BY <1>1, <2>2 DEF KeyInv
<1>4. CASE EndedSession
  <2>1. session' = [pc |-> "done", dir |-> session.dir, spent |-> session.spent,
                    key |-> session.key, settled |-> FALSE, own |-> session.own]
    BY <1>4 DEF Changed, EndedSession
  <2>2. EndedSession'
    BY <1>4, <2>1 DEF EndedSession, KeptKey
  <2> QED BY <1>1, <2>2 DEF KeyInv
<1> QED BY <1>2, <1>3, <1>4 DEF KeyInv

LEMMA KeyStep == KeyInv /\ [KeyNext]_keyVars => KeyInv'
<1> SUFFICES ASSUME KeyInv, [KeyNext]_keyVars PROVE KeyInv'
  OBVIOUS
<1>1. ASSUME NEW d \in Dirs, StartSession(d) PROVE KeyInv'
  BY <1>1, Starting
<1>2. CASE GitAnswers \/ GitRetries BY <1>2, GitAnswering
<1>3. CASE GitFails BY <1>3, GitFailing
<1>4. CASE Derive BY <1>4, Deriving
<1>5. ASSUME NEW r \in Dirs, NEW name, NEW key, SetRemote(r, name, key) PROVE KeyInv'
  BY <1>5, Changing DEF SetRemote, KeyInv
<1>6. ASSUME NEW r \in Dirs, NEW key, Clone(r, key) PROVE KeyInv'
  <2>1. repos' \subseteq Dirs /\ keyCache' = [d \in Dirs |-> keyCache'[d]] /\ Changed
    BY <1>6 DEF Clone, KeyInv
  <2> QED BY <2>1, Changing
<1>7. ASSUME NEW d \in Dirs, NEW key, InitAnchor(d, key) PROVE KeyInv'
  BY <1>7, Changing DEF InitAnchor, KeyInv
<1>8. ASSUME NEW d \in Dirs, BreakAnchor(d) PROVE KeyInv'
  BY <1>8, Changing DEF BreakAnchor, KeyInv
<1>9. CASE UNCHANGED keyVars
  <2>1. UNCHANGED directories /\ UNCHANGED <<repos, keyCache, settled, session>>
    BY <1>9 DEF keyVars, directories
  <2> QED BY <2>1, Directories DEF KeyInv, InProgressSession, EndedSession, KeptKey
<1> QED BY <1>1, <1>2, <1>3, <1>4, <1>5, <1>6, <1>7, <1>8, <1>9 DEF KeyNext

LEMMA KeyInvariant == KeySpec => []KeyInv
BY KeyStart, KeyStep, PTL DEF KeySpec

(* Whichever calls of git time out, a session gets the key of its checkout *)
(* once one of its sessions has, and within the budget.                    *)
THEOREM KeysInTime == KeySpec => []KeyInTime
<1>1. KeyInv => KeyInTime
  BY DEF KeyInv, InProgressSession, EndedSession, KeyInTime, KeptKey, GitWithinBudget, Asked
<1> QED BY <1>1, KeyInvariant, PTL

(***************************************************************************)
(* Skills.  The rows: their types, and that replacements form lines.       *)
(***************************************************************************)
Upto(n) == Rows = 1..n /\ n <= MaxSkills

RowsType ==
    /\ \E n \in Nat : Upto(n)
    /\ skills \in [Rows -> SkillRow]

OneActive == \A i, j \in Active : i = j
NextHolds(i) ==
    LET j == skills[i].next
    IN j # NoSkill => /\ ~skills[i].active
                      /\ j \in Rows /\ skills[j].saw = i
                      /\ skills[j].version = skills[i].version + 1
SawHolds(j) ==
    /\ skills[j].saw # NoSkill => skills[j].saw \in Rows /\ skills[skills[j].saw].next = j
    /\ skills[j].version = 1 <=> skills[j].saw = NoSkill
    /\ skills[j].version <= j

Lines == OneActive /\ \A i \in Rows : NextHolds(i) /\ SawHolds(i)

(***************************************************************************)
(* The calls: a row a call found or wrote stays; a row that was retired    *)
(* when the call began is never active again; so an answer stays true.     *)
(***************************************************************************)
Told(s) ==
    LET i == save[s].id
    IN /\ skills[i].steps = save[s].steps
       /\ IF save[s].created
          THEN i \notin save[s].first.rows
          ELSE i \in save[s].first.active \/ i \notin save[s].first.rows
       /\ save[s].created /\ skills[i].saw # NoSkill => save[s].replace

CallHolds(s) ==
    /\ save[s].pc # "idle" =>
          /\ save[s].first.rows \subseteq Rows
          /\ Active \cap save[s].first.rows \subseteq save[s].first.active
    /\ save[s].pc \in {"embedNext", "supersede", "answered"} => save[s].id \in Rows
    /\ save[s].pc = "answered" => Told(s)

SkillsInv ==
    /\ RowsType /\ Lines
    /\ save \in [Savers -> Call]
    /\ \A s \in Savers : CallHolds(s)

(***************************************************************************)
(* What the invariant says of the next id and of a call.                   *)
(***************************************************************************)
LEMMA Ids ==
    ASSUME RowsType
    PROVE /\ Rows \subseteq SkillIds /\ NewId \in Nat \ {0} /\ NewId \notin Rows
          /\ Rows = 1..Cardinality(Rows) /\ Cardinality(Rows) \in Nat
          /\ \A i \in Rows : i \in Nat \ {0} /\ i < NewId
<1>1. PICK n \in Nat : Upto(n)
  BY DEF RowsType
<1>2. Cardinality(Rows) = n
  BY <1>1, FS_Interval DEF Upto
<1> QED BY <1>1, <1>2, MaxSkillsAssumption DEF Upto, SkillIds, NewId

LEMMA Fields ==
    ASSUME save \in [Savers -> Call], NEW s \in Savers
    PROVE /\ save[s].pc \in {"find", "embedNew", "create", "raced"} =>
                /\ save[s].steps \in Steps /\ save[s].replace \in BOOLEAN
                /\ save[s].first \in History
                /\ save[s] = [pc |-> save[s].pc, steps |-> save[s].steps,
                              replace |-> save[s].replace, first |-> save[s].first]
          /\ save[s].pc \in {"embedNext", "supersede"} =>
                /\ save[s].steps \in Steps /\ save[s].replace \in {TRUE}
                /\ save[s].id \in SkillIds /\ save[s].first \in History
                /\ save[s] = [pc |-> save[s].pc, steps |-> save[s].steps,
                              replace |-> save[s].replace, id |-> save[s].id,
                              first |-> save[s].first]
BY DEF Call

LEMMA CallStates ==
    /\ [pc |-> "idle"] \in Call
    /\ \A pc \in {"find", "embedNew", "create", "raced"}, st \in Steps, re \in BOOLEAN,
          f \in History : [pc |-> pc, steps |-> st, replace |-> re, first |-> f] \in Call
    /\ \A pc \in {"embedNext", "supersede"}, st \in Steps, re \in {TRUE}, i \in SkillIds,
          f \in History : [pc |-> pc, steps |-> st, replace |-> re, id |-> i, first |-> f] \in Call
    /\ \A st \in Steps, re, cr \in BOOLEAN, i \in SkillIds, f \in History :
          [pc |-> "answered", steps |-> st, replace |-> re, id |-> i, created |-> cr,
           first |-> f] \in Call
BY DEF Call

(***************************************************************************)
(* Rows only grow: contents stay and a retired row is not active again.    *)
(***************************************************************************)
Grow ==
    /\ Rows \subseteq Rows'
    /\ \A i \in Rows : /\ skills'[i].steps = skills[i].steps /\ skills'[i].saw = skills[i].saw
                       /\ i \in Active' => i \in Active

LEMMA StillRows == UNCHANGED skills => Grow
BY DEF Grow, Rows, Active

LEMMA CallKept ==
    ASSUME Grow, NEW s \in Savers, CallHolds(s), save'[s] = save[s]
    PROVE CallHolds(s)'
<1>1. save[s].pc = "answered" => Told(s)'
  BY DEF CallHolds, Told, Grow
<1>2. save[s].pc # "idle" =>
         /\ save[s].first.rows \subseteq Rows'
         /\ Active' \cap save[s].first.rows \subseteq save[s].first.active
  BY DEF CallHolds, Grow
<1> QED BY <1>1, <1>2 DEF CallHolds, Grow

(* A step of one call, on rows that grow.                                  *)
LEMMA OneCall ==
    ASSUME SkillsInv, Grow, RowsType', Lines', NEW s \in Savers, NEW state \in Call,
           SaveGo(s, state), CallHolds(s)'
    PROVE SkillsInv'
<1>1. \A t \in Savers : save'[t] = IF t = s THEN state ELSE save[t]
  BY DEF SkillsInv, SaveGo
<1>2. save' \in [Savers -> Call]
  BY DEF SkillsInv, SaveGo
<1>3. ASSUME NEW t \in Savers PROVE CallHolds(t)'
  BY <1>1, CallKept DEF SkillsInv
<1> QED BY <1>2, <1>3 DEF SkillsInv

(* ... on rows that stay: what the new state of the call must satisfy.     *)
LEMMA Unmoved ==
    ASSUME RowsType, Lines, UNCHANGED skills
    PROVE /\ RowsType' /\ Lines' /\ Rows' = Rows /\ Active' = Active /\ Grow
BY StillRows DEF RowsType, Lines, Upto, OneActive, NextHolds, SawHolds, Rows, Active

LEMMA BackToIdle ==
    ASSUME SkillsInv, UNCHANGED skills, NEW s \in Savers, SaveGo(s, [pc |-> "idle"])
    PROVE SkillsInv'
<1> DEFINE idle == [pc |-> "idle"]
<1>1. idle \in Call
  BY CallStates
<1>2. save'[s] = idle
  BY DEF SkillsInv, SaveGo
<1>3. CallHolds(s)'
  BY <1>2 DEF CallHolds
<1> HIDE DEF idle
<1>4. SaveGo(s, idle)
  BY DEF idle
<1> QED BY <1>1, <1>3, <1>4, OneCall, Unmoved DEF SkillsInv

(* ... a call that goes on, with the same history and the same row.        *)
LEMMA GoesOn ==
    ASSUME SkillsInv, UNCHANGED skills, NEW s \in Savers, NEW state \in Call, SaveGo(s, state),
           save[s].pc # "idle", state.first = save[s].first,
           \/ state.pc \in {"find", "embedNew", "create", "raced"}
           \/ state.pc \in {"embedNext", "supersede"} /\ state.id \in Rows
    PROVE SkillsInv'
<1>1. save'[s] = state
  BY DEF SkillsInv, SaveGo
<1>2. RowsType' /\ Lines' /\ Rows' = Rows /\ Active' = Active /\ Grow
  BY Unmoved DEF SkillsInv
<1>3. CallHolds(s)
  BY DEF SkillsInv
<1>4. CallHolds(s)'
  BY <1>1, <1>2, <1>3 DEF CallHolds
<1> QED BY <1>2, <1>4, OneCall

LEMMA SkillsStart == SkillsInit => SkillsInv
<1> SUFFICES ASSUME SkillsInit PROVE SkillsInv
  OBVIOUS
<1>1. Rows = {} /\ Rows = 1..0 /\ Active = {}
  BY DEF SkillsInit, Rows, Active
<1>2. RowsType
  BY <1>1, MaxSkillsAssumption DEF RowsType, Upto, SkillsInit, Rows
<1>3. Lines
  BY <1>1 DEF Lines, OneActive
<1>4. save \in [Savers -> Call] /\ \A s \in Savers : CallHolds(s)
  BY CallStates DEF SkillsInit, CallHolds
<1> QED BY <1>2, <1>3, <1>4 DEF SkillsInv

(***************************************************************************)
(* Steps that write no row.                                                *)
(***************************************************************************)
LEMMA Beginning ==
    ASSUME SkillsInv, NEW s \in Savers, NEW steps \in Steps, NEW replace \in BOOLEAN,
           SaveSkill(s, steps, replace)
    PROVE SkillsInv'
<1> DEFINE f == [rows |-> Rows, active |-> Active]
           state == [pc |-> "find", steps |-> steps, replace |-> replace, first |-> f]
<1>1. f \in History
  BY Ids DEF SkillsInv, History, Active
<1>2. state \in Call /\ state.pc = "find" /\ state.first.rows = Rows /\ state.first.active = Active
  BY <1>1, CallStates
<1>3. SaveGo(s, state) /\ UNCHANGED skills
  BY DEF SaveSkill
<1>4. RowsType' /\ Lines' /\ Rows' = Rows /\ Active' = Active /\ Grow
  BY <1>3, Unmoved DEF SkillsInv
<1> HIDE DEF state
<1>5. save'[s] = state
  BY <1>3 DEF SkillsInv, SaveGo
<1>6. CallHolds(s)'
  BY <1>2, <1>4, <1>5 DEF CallHolds
<1> QED BY <1>2, <1>3, <1>4, <1>6, OneCall

(* "Not created" is answered with a row that is active at that moment.     *)
LEMMA Finding ==
    ASSUME SkillsInv, UNCHANGED skills, NEW s \in Savers, NEW i \in Active,
           save[s].pc \in {"find", "raced"}, skills[i].steps = save[s].steps, Answer(s, i, FALSE)
    PROVE SkillsInv'
<1> DEFINE state == [pc |-> "answered", steps |-> save[s].steps, replace |-> save[s].replace,
                     id |-> i, created |-> FALSE, first |-> save[s].first]
<1>1. /\ save[s].steps \in Steps /\ save[s].replace \in BOOLEAN /\ save[s].first \in History
      /\ i \in Rows /\ i \in SkillIds /\ RowsType /\ CallHolds(s)
  BY Fields, Ids DEF SkillsInv, Active
<1>2. /\ state \in Call /\ state.pc = "answered" /\ state.id = i /\ state.created = FALSE
      /\ state.first = save[s].first /\ state.steps = save[s].steps
  BY <1>1, CallStates
<1>3. SaveGo(s, state)
  BY DEF Answer
<1>4. RowsType' /\ Lines' /\ Rows' = Rows /\ Active' = Active /\ Grow
  BY Unmoved DEF SkillsInv
<1> HIDE DEF state
<1>5. save'[s] = state
  BY <1>3 DEF SkillsInv, SaveGo
<1>6. /\ save[s].first.rows \subseteq Rows
      /\ Active \cap save[s].first.rows \subseteq save[s].first.active
  BY <1>1 DEF CallHolds
<1>7. Told(s)'
  BY <1>2, <1>5, <1>6 DEF Told
<1>8. CallHolds(s)'
  BY <1>1, <1>2, <1>4, <1>5, <1>6, <1>7 DEF CallHolds
<1> QED BY <1>2, <1>3, <1>4, <1>8, OneCall

LEMMA Looking ==
    ASSUME SkillsInv, NEW s \in Savers, FindActive(s)
    PROVE SkillsInv'
<1> DEFINE new == [pc |-> "embedNew", steps |-> save[s].steps, replace |-> save[s].replace,
                   first |-> save[s].first]
<1>1. /\ save[s].pc = "find" /\ UNCHANGED skills
      /\ save[s].steps \in Steps /\ save[s].replace \in BOOLEAN /\ save[s].first \in History
      /\ save[s] = [pc |-> save[s].pc, steps |-> save[s].steps,
                    replace |-> save[s].replace, first |-> save[s].first]
  BY Fields DEF FindActive, Saving, SkillsInv
<1>2. CASE Active = {} /\ SaveGo(s, [save[s] EXCEPT !.pc = "embedNew"])
  <2>1. SaveGo(s, new)
    BY <1>1, <1>2
  <2>2. new \in Call /\ new.pc = "embedNew" /\ new.first = save[s].first
    BY <1>1, CallStates
  <2> HIDE DEF new
  <2> QED BY <1>1, <2>1, <2>2, GoesOn
<1>3. ASSUME NEW i \in Active, skills[i].steps = save[s].steps, Answer(s, i, FALSE)
      PROVE SkillsInv'
  BY <1>1, <1>3, Finding
<1>4. CASE SaveGo(s, [pc |-> "idle"])
  BY <1>1, <1>4, BackToIdle
<1>5. ASSUME NEW i \in Active,
             SaveGo(s, [pc |-> "embedNext", steps |-> save[s].steps, replace |-> TRUE,
                        id |-> i, first |-> save[s].first])
      PROVE SkillsInv'
  <2> DEFINE next == [pc |-> "embedNext", steps |-> save[s].steps, replace |-> TRUE,
                      id |-> i, first |-> save[s].first]
  <2>1. i \in Rows /\ i \in SkillIds
    BY Ids DEF SkillsInv, Active
  <2>2. next \in Call /\ next.pc = "embedNext" /\ next.first = save[s].first /\ next.id \in Rows
    BY <1>1, <2>1, CallStates
  <2>3. SaveGo(s, next)
    BY <1>5
  <2> HIDE DEF next
  <2> QED BY <1>1, <2>2, <2>3, GoesOn
<1> QED BY <1>2, <1>3, <1>4, <1>5 DEF FindActive

LEMMA Embedding ==
    ASSUME SkillsInv, NEW s \in Savers, Embed(s)
    PROVE SkillsInv'
<1> DEFINE new == [pc |-> "create", steps |-> save[s].steps, replace |-> save[s].replace,
                   first |-> save[s].first]
           next == [pc |-> "supersede", steps |-> save[s].steps, replace |-> save[s].replace,
                    id |-> save[s].id, first |-> save[s].first]
<1>1. UNCHANGED skills
  BY DEF Embed
<1>2. CASE save[s].pc = "embedNew" /\ SaveGo(s, [save[s] EXCEPT !.pc = "create"])
  <2>1. SaveGo(s, new)
    <3>1. save[s] = [pc |-> "embedNew", steps |-> save[s].steps, replace |-> save[s].replace,
                     first |-> save[s].first]
      BY <1>2, Fields DEF SkillsInv
    <3>2. [save[s] EXCEPT !.pc = "create"] = new
      BY <3>1
    <3> QED BY <1>2, <3>2
  <2>2. new \in Call /\ new.pc = "create" /\ new.first = save[s].first
    BY <1>2, Fields, CallStates DEF SkillsInv
  <2> HIDE DEF new
  <2> QED BY <1>1, <1>2, <2>1, <2>2, GoesOn
<1>3. CASE save[s].pc = "embedNext" /\ SaveGo(s, [save[s] EXCEPT !.pc = "supersede"])
  <2>1. SaveGo(s, next)
    <3>1. save[s] = [pc |-> "embedNext", steps |-> save[s].steps, replace |-> save[s].replace,
                     id |-> save[s].id, first |-> save[s].first]
      BY <1>3, Fields DEF SkillsInv
    <3>2. [save[s] EXCEPT !.pc = "supersede"] = next
      BY <3>1
    <3> QED BY <1>3, <3>2
  <2>2. /\ next \in Call /\ next.pc = "supersede" /\ next.first = save[s].first
        /\ next.id = save[s].id
    BY <1>3, Fields, CallStates DEF SkillsInv
  <2>3. save[s].id \in Rows
    BY <1>3 DEF SkillsInv, CallHolds
  <2> HIDE DEF next
  <2> QED BY <1>1, <1>3, <2>1, <2>2, <2>3, GoesOn
<1>4. CASE SaveGo(s, [pc |-> "idle"])
  BY <1>1, <1>4, BackToIdle
<1> QED BY <1>2, <1>3, <1>4 DEF Embed, Saving

LEMMA Racing ==
    ASSUME SkillsInv, NEW s \in Savers, Raced(s)
    PROVE SkillsInv'
<1>1. save[s].pc = "raced" /\ UNCHANGED skills
  BY DEF Raced, Saving
<1>2. ASSUME NEW i \in Active, SameSteps(s, i), Answer(s, i, FALSE) PROVE SkillsInv'
  BY <1>1, <1>2, Finding DEF SameSteps
<1>3. CASE SaveGo(s, [pc |-> "idle"])
  BY <1>1, <1>3, BackToIdle
<1> QED BY <1>2, <1>3 DEF Raced

(***************************************************************************)
(* Steps that write rows.                                                  *)
(***************************************************************************)
(* A new row takes the next id and disturbs no line.                       *)
Plain(steps) == [steps |-> steps, version |-> 1, active |-> TRUE, next |-> NoSkill, saw |-> NoSkill]
Successor(steps, i) ==
    [steps |-> steps, version |-> NextVersion(i), active |-> TRUE, next |-> NoSkill, saw |-> i]

Inserts(steps) ==
    skills' = [j \in Rows \cup {NewId} |-> IF j = NewId THEN Plain(steps) ELSE skills[j]]
Replaces(i, steps) ==
    skills' = [j \in Rows \cup {NewId} |->
        IF j = NewId THEN Successor(steps, i)
        ELSE IF j = i THEN [skills[i] EXCEPT !.active = FALSE, !.next = NewId]
        ELSE skills[j]]

LEMMA RowsExtended ==
    ASSUME RowsType, Room, DOMAIN skills' = Rows \cup {NewId},
           skills' \in [Rows \cup {NewId} -> SkillRow]
    PROVE RowsType' /\ Rows' = Rows \cup {NewId}
<1>1. Rows = 1..Cardinality(Rows) /\ Cardinality(Rows) \in Nat
  BY Ids
<1>2. Rows' = Rows \cup {NewId}
  BY DEF Rows
<1>3. Rows' = 1..NewId /\ NewId \in Nat /\ NewId <= MaxSkills
  BY <1>1, <1>2 DEF NewId, Room
<1> QED BY <1>2, <1>3 DEF RowsType, Upto

LEMMA Inserting ==
    ASSUME SkillsInv, Active = {}, Room, NEW steps \in Steps, Inserts(steps)
    PROVE RowsType' /\ Lines' /\ Grow /\ Rows' = Rows \cup {NewId} /\ skills'[NewId] = Plain(steps)
<1>0. PICK n : n = NewId
  OBVIOUS
<1>1. /\ n \in Nat \ {0} /\ n \notin Rows /\ n <= MaxSkills /\ RowsType
      /\ \A i \in Rows : i \in Nat \ {0} /\ i < n
  BY <1>0, Ids DEF SkillsInv, Room
<1>2. n \in SkillIds /\ Plain(steps) \in SkillRow
  BY <1>1, MaxSkillsAssumption DEF SkillIds, Plain, SkillRow
<1>3. skills \in [Rows -> SkillRow]
  BY DEF SkillsInv, RowsType
<1>4. skills' \in [Rows \cup {n} -> SkillRow] /\ DOMAIN skills' = Rows \cup {n}
  BY <1>0, <1>2, <1>3 DEF Inserts
<1>5. RowsType' /\ Rows' = Rows \cup {n}
  BY <1>0, <1>1, <1>4, RowsExtended DEF SkillsInv
<1>6. \A i \in Rows : skills'[i] = skills[i]
  BY <1>0, <1>1 DEF Inserts
<1>7. skills'[n] = Plain(steps)
  BY <1>0 DEF Inserts
<1>8. Active' = {n}
  BY <1>5, <1>6, <1>7 DEF Active, Plain
<1>9. Grow
  BY <1>1, <1>5, <1>6, <1>8 DEF Grow
<1>10. ASSUME NEW i \in Rows PROVE NextHolds(i)' /\ SawHolds(i)'
  <2>1. NextHolds(i) /\ SawHolds(i)
    BY DEF SkillsInv, Lines
  <2>2. NextHolds(i)'
    BY <1>1, <1>5, <1>6, <2>1 DEF NextHolds
  <2>3. SawHolds(i)'
    BY <1>1, <1>5, <1>6, <2>1 DEF SawHolds
  <2> QED BY <2>2, <2>3
<1>11. NextHolds(n)' /\ SawHolds(n)'
  BY <1>1, <1>7 DEF NextHolds, SawHolds, Plain
<1>12. Lines'
  BY <1>5, <1>8, <1>10, <1>11 DEF Lines, OneActive
<1> QED BY <1>0, <1>5, <1>7, <1>9, <1>12

LEMMA Superseding ==
    ASSUME SkillsInv, NEW i \in Active, Room, NEW steps \in Steps, Replaces(i, steps)
    PROVE /\ RowsType' /\ Lines' /\ Grow /\ Rows' = Rows \cup {NewId}
          /\ skills'[NewId] = Successor(steps, i)
<1>0. PICK n : n = NewId
  OBVIOUS
<1> DEFINE old == [skills[i] EXCEPT !.active = FALSE, !.next = n]
<1>1. /\ n \in Nat \ {0} /\ n \notin Rows /\ n <= MaxSkills /\ RowsType /\ Rows \subseteq SkillIds
      /\ \A j \in Rows : j \in Nat \ {0} /\ j < n
  BY <1>0, Ids DEF SkillsInv, Room
<1>2. i \in Rows /\ skills[i].active /\ Active = {i} /\ NextHolds(i) /\ SawHolds(i)
  BY DEF SkillsInv, Lines, OneActive, Active
<1>3. skills \in [Rows -> SkillRow] /\ skills[i] \in SkillRow
  BY <1>2 DEF SkillsInv, RowsType
<1>4. skills[i].next = NoSkill /\ skills[i].version <= i /\ skills[i].version \in Nat \ {0}
  BY <1>2, <1>3, MaxSkillsAssumption DEF NextHolds, SawHolds, SkillRow, SkillIds
<1>5. n \in SkillIds /\ NextVersion(i) \in SkillIds /\ NextVersion(i) <= n /\ NextVersion(i) # 1
  BY <1>1, <1>2, <1>4, MaxSkillsAssumption DEF SkillIds, NextVersion
<1>6. Successor(steps, i) \in SkillRow
  BY <1>1, <1>2, <1>5 DEF Successor, SkillRow
<1>7. /\ old \in SkillRow /\ old.next = n /\ old.active = FALSE
      /\ old.steps = skills[i].steps /\ old.saw = skills[i].saw /\ old.version = skills[i].version
  BY <1>3, <1>5 DEF SkillRow
<1>8. /\ skills'[n] = Successor(steps, i) /\ skills'[i] = old
      /\ \A j \in Rows : j # i => skills'[j] = skills[j]
      /\ DOMAIN skills' = Rows \cup {n} /\ skills' \in [Rows \cup {n} -> SkillRow]
  BY <1>0, <1>1, <1>2, <1>3, <1>6, <1>7 DEF Replaces
<1> HIDE DEF old
<1>10. RowsType' /\ Rows' = Rows \cup {n}
  BY <1>0, <1>1, <1>8, RowsExtended
<1>11. Active' = {n}
  BY <1>1, <1>2, <1>7, <1>8, <1>10 DEF Active, Successor
<1>12. Grow
  BY <1>1, <1>2, <1>7, <1>8, <1>10, <1>11 DEF Grow
<1>13. ASSUME NEW j \in Rows, j # i PROVE NextHolds(j)' /\ SawHolds(j)'
  <2>1. NextHolds(j) /\ SawHolds(j) /\ skills'[j] = skills[j]
    BY <1>8, <1>13 DEF SkillsInv, Lines
  <2>2. NextHolds(j)'
    <3>1. CASE skills[j].next = NoSkill
      BY <2>1, <3>1 DEF NextHolds
    <3>2. CASE skills[j].next # NoSkill
      <4> DEFINE k == skills[j].next
      <4>1. k \in Rows /\ skills'[k].saw = skills[k].saw /\ skills'[k].version = skills[k].version
        BY <1>7, <1>8, <2>1, <3>2 DEF NextHolds
      <4> QED BY <1>10, <2>1, <3>2, <4>1 DEF NextHolds
    <3> QED BY <3>1, <3>2
  <2>3. SawHolds(j)'
    <3>1. CASE skills[j].saw = NoSkill
      BY <2>1, <3>1 DEF SawHolds
    <3>2. CASE skills[j].saw # NoSkill
      <4> DEFINE k == skills[j].saw
      <4>1. k \in Rows /\ skills[k].next = j
        BY <2>1, <3>2 DEF SawHolds
      <4>2. k # i
        BY <1>1, <1>4, <4>1 DEF NoSkill
      <4> QED BY <1>8, <1>10, <2>1, <3>2, <4>1, <4>2 DEF SawHolds
    <3> QED BY <3>1, <3>2
  <2> QED BY <2>2, <2>3
<1>14. NextHolds(i)'
  BY <1>7, <1>8, <1>10 DEF NextHolds, Successor, NextVersion
<1>15. SawHolds(i)'
  <2>1. CASE skills[i].saw = NoSkill
    BY <1>2, <1>7, <1>8, <2>1 DEF SawHolds
  <2>2. CASE skills[i].saw # NoSkill
    <3> DEFINE k == skills[i].saw
    <3>1. k \in Rows /\ skills[k].next = i /\ k # i
      BY <1>1, <1>2, <1>4, <2>2 DEF SawHolds, NoSkill
    <3> QED BY <1>2, <1>7, <1>8, <1>10, <2>2, <3>1 DEF SawHolds
  <2> QED BY <2>1, <2>2
<1>16. NextHolds(n)'
  BY <1>8 DEF NextHolds, Successor
<1>17. SawHolds(n)'
  BY <1>1, <1>2, <1>5, <1>7, <1>8, <1>10 DEF SawHolds, Successor, NoSkill
<1>18. Lines'
  BY <1>10, <1>11, <1>13, <1>14, <1>15, <1>16, <1>17 DEF Lines, OneActive
<1> QED BY <1>0, <1>8, <1>10, <1>12, <1>18

(***************************************************************************)
(* A call that wrote the new row answers "created" with it.                *)
(***************************************************************************)
LEMMA Creates ==
    ASSUME SkillsInv, NEW s \in Savers, save[s].pc \in {"create", "supersede"},
           Grow, RowsType', Lines', Rows' = Rows \cup {NewId},
           skills'[NewId].steps = save[s].steps,
           skills'[NewId].saw # NoSkill => save[s].replace,
           Answer(s, NewId, TRUE)
    PROVE SkillsInv'
<1>0. PICK n : n = NewId
  OBVIOUS
<1> DEFINE state == [pc |-> "answered", steps |-> save[s].steps, replace |-> save[s].replace,
                     id |-> n, created |-> TRUE, first |-> save[s].first]
<1>1. save[s].steps \in Steps /\ save[s].replace \in BOOLEAN /\ save[s].first \in History
  BY Fields DEF SkillsInv
<1>2. n \in Rows' /\ n \notin Rows
  BY <1>0, Ids DEF SkillsInv
<1>3. n \in SkillIds
  <2>1. PICK m \in Nat : Upto(m)'
    BY DEF RowsType
  <2> QED BY <1>2, <2>1, MaxSkillsAssumption DEF Upto, SkillIds
<1>4. /\ state \in Call /\ state.pc = "answered" /\ state.id = n /\ state.created = TRUE
      /\ state.first = save[s].first /\ state.steps = save[s].steps
      /\ state.replace = save[s].replace
  BY <1>1, <1>3, CallStates
<1>5. SaveGo(s, state)
  BY <1>0 DEF Answer
<1> HIDE DEF state
<1>6. save'[s] = state
  BY <1>5 DEF SkillsInv, SaveGo
<1>7. CallHolds(s)
  BY DEF SkillsInv
<1>8. /\ save[s].first.rows \subseteq Rows
      /\ Active' \cap save[s].first.rows \subseteq save[s].first.active
  BY <1>7 DEF CallHolds, Grow
<1>9. Told(s)'
  BY <1>0, <1>2, <1>4, <1>6, <1>8 DEF Told
<1>10. CallHolds(s)'
  BY <1>2, <1>4, <1>6, <1>8, <1>9 DEF CallHolds, Grow
<1> QED BY <1>4, <1>5, <1>10, OneCall

LEMMA SupersedeStep ==
    ASSUME SkillsInv, NEW s \in Savers, Supersede(s)
    PROVE SkillsInv'
<1>1. save[s].pc = "supersede" /\ save[s].steps \in Steps /\ save[s].replace = TRUE
  BY Fields DEF Supersede, Saving, SkillsInv
<1>2. CASE UNCHANGED skills /\ SaveGo(s, [pc |-> "idle"])
  BY <1>2, BackToIdle
<1>3. CASE /\ save[s].id \in Active /\ Room /\ Replaces(save[s].id, save[s].steps)
           /\ Answer(s, NewId, TRUE)
  <2>1. /\ RowsType' /\ Lines' /\ Grow /\ Rows' = Rows \cup {NewId}
        /\ skills'[NewId] = Successor(save[s].steps, save[s].id)
    BY <1>1, <1>3, Superseding
  <2>2. skills'[NewId].steps = save[s].steps
    BY <2>1 DEF Successor
  <2> QED BY <1>1, <1>3, <2>1, <2>2, Creates
<1> QED BY <1>2, <1>3 DEF Supersede, Replaceable, Replaces, Successor

LEMMA CreateStep ==
    ASSUME SkillsInv, NEW s \in Savers, Create(s)
    PROVE SkillsInv'
<1>1. /\ save[s].pc = "create" /\ save[s].steps \in Steps /\ save[s].replace \in BOOLEAN
      /\ save[s].first \in History
      /\ save[s] = [pc |-> save[s].pc, steps |-> save[s].steps,
                    replace |-> save[s].replace, first |-> save[s].first]
  BY Fields DEF Create, Saving, SkillsInv
<1>2. CASE Active = {} /\ Room /\ Inserts(save[s].steps) /\ Answer(s, NewId, TRUE)
  <2>1. /\ RowsType' /\ Lines' /\ Grow /\ Rows' = Rows \cup {NewId}
        /\ skills'[NewId] = Plain(save[s].steps)
    BY <1>1, <1>2, Inserting
  <2>2. skills'[NewId].steps = save[s].steps /\ skills'[NewId].saw = NoSkill
    BY <2>1 DEF Plain
  <2> QED BY <1>1, <1>2, <2>1, <2>2, Creates
<1>3. CASE UNCHANGED skills /\ SaveGo(s, [save[s] EXCEPT !.pc = "raced"])
  <2> DEFINE raced == [pc |-> "raced", steps |-> save[s].steps, replace |-> save[s].replace,
                       first |-> save[s].first]
  <2>1. SaveGo(s, raced)
    BY <1>1, <1>3
  <2>2. raced \in Call /\ raced.pc = "raced" /\ raced.first = save[s].first
    BY <1>1, CallStates
  <2> HIDE DEF raced
  <2> QED BY <1>1, <1>3, <2>1, <2>2, GoesOn
<1> QED BY <1>2, <1>3 DEF Create, Inserts, Plain

LEMMA ForgetStep ==
    ASSUME SkillsInv, NEW i \in Active, Forget(i)
    PROVE SkillsInv'
<1> DEFINE gone == [skills[i] EXCEPT !.active = FALSE]
<1>1. skills \in [Rows -> SkillRow] /\ i \in Rows /\ save' = save
  BY DEF SkillsInv, RowsType, Active, Forget
<1>2. /\ gone \in SkillRow /\ gone.active = FALSE /\ gone.next = skills[i].next
      /\ gone.steps = skills[i].steps /\ gone.saw = skills[i].saw
      /\ gone.version = skills[i].version
  BY <1>1 DEF SkillRow
<1>3. Rows' = Rows /\ \A j \in Rows : skills'[j] = IF j = i THEN gone ELSE skills[j]
  BY <1>1 DEF Forget, Rows
<1> HIDE DEF gone
<1>4. RowsType'
  <2>1. skills' \in [Rows -> SkillRow]
    BY <1>1, <1>2, <1>3 DEF Forget, gone
  <2>2. \E n \in Nat : Upto(n)'
    BY <1>3 DEF SkillsInv, RowsType, Upto
  <2> QED BY <1>3, <2>1, <2>2 DEF RowsType
<1>5. /\ Active' \subseteq Active
      /\ \A j \in Rows : /\ skills'[j].next = skills[j].next /\ skills'[j].saw = skills[j].saw
                         /\ skills'[j].version = skills[j].version
                         /\ skills'[j].steps = skills[j].steps
                         /\ ~skills[j].active => ~skills'[j].active
  BY <1>2, <1>3 DEF Active
<1>6. ASSUME NEW j \in Rows PROVE NextHolds(j)' /\ SawHolds(j)'
  <2>1. NextHolds(j) /\ SawHolds(j)
    BY DEF SkillsInv, Lines
  <2> QED BY <1>3, <1>5, <2>1 DEF NextHolds, SawHolds
<1>7. Lines'
  BY <1>3, <1>5, <1>6 DEF SkillsInv, Lines, OneActive
<1>8. Grow
  BY <1>3, <1>5 DEF Grow
<1>9. \A s \in Savers : CallHolds(s)'
  BY <1>1, <1>8, CallKept DEF SkillsInv
<1> QED BY <1>1, <1>4, <1>7, <1>9 DEF SkillsInv

LEMMA SkillsStep == SkillsInv /\ [SkillsNext]_skillVars => SkillsInv'
<1> SUFFICES ASSUME SkillsInv, [SkillsNext]_skillVars PROVE SkillsInv'
  OBVIOUS
<1>1. ASSUME NEW s \in Savers, NEW steps \in Steps, NEW replace \in BOOLEAN,
             SaveSkill(s, steps, replace)
      PROVE SkillsInv'
  BY <1>1, Beginning
<1>2. ASSUME NEW s \in Savers, FindActive(s) \/ Embed(s) \/ Supersede(s) \/ Create(s) \/ Raced(s)
      PROVE SkillsInv'
  BY <1>2, Looking, Embedding, SupersedeStep, CreateStep, Racing
<1>3. ASSUME NEW s \in Savers, Answered(s) PROVE SkillsInv'
  BY <1>3, BackToIdle DEF Answered
<1>4. ASSUME NEW i \in Rows, Forget(i) PROVE SkillsInv'
  BY <1>4, ForgetStep DEF Forget
<1>5. CASE UNCHANGED skillVars
  <2>1. UNCHANGED skills /\ UNCHANGED save
    BY <1>5 DEF skillVars
  <2>2. RowsType' /\ Lines' /\ Grow
    BY <2>1, Unmoved DEF SkillsInv
  <2>3. \A s \in Savers : CallHolds(s)'
    BY <2>1, <2>2, CallKept DEF SkillsInv
  <2> QED BY <2>1, <2>2, <2>3 DEF SkillsInv
<1> QED BY <1>1, <1>2, <1>3, <1>4, <1>5 DEF SkillsNext

LEMMA SkillsInvariant == SkillsSpec => []SkillsInv
BY SkillsStart, SkillsStep, PTL DEF SkillsSpec

(* However many saves race to replace a skill, at most one is active and   *)
(* every version replaces exactly the one its author had seen.             *)
THEOREM VersionsLine == SkillsSpec => []VersionsAreLines
<1>1. ASSUME SkillsInv PROVE VersionsAreLines
  <2>1. Cardinality(Active) <= 1
    <3>1. CASE Active = {}
      BY <3>1, FS_EmptySet
    <3>2. ASSUME NEW i \in Active PROVE Cardinality(Active) <= 1
      <4>1. Active = {i}
        BY <1>1, <3>2 DEF SkillsInv, Lines, OneActive
      <4>2. Cardinality({i}) = 1
        BY FS_Singleton
      <4> QED BY <4>1, <4>2
    <3> QED BY <3>1, <3>2
  <2>2. \A i \in Rows : NextHolds(i) /\ SawHolds(i)
    BY <1>1 DEF SkillsInv, Lines
  <2> QED BY <2>1, <2>2 DEF VersionsAreLines, NextHolds, SawHolds
<1> QED BY <1>1, SkillsInvariant, PTL

(* Whatever other saves and retirements do meanwhile, what a save answers  *)
(* is true of its call.                                                    *)
THEOREM AnswersTrue == SkillsSpec => []AnswersAreTrue
<1>1. SkillsInv => AnswersAreTrue
  BY DEF SkillsInv, CallHolds, Told, AnswersAreTrue, Saving
<1> QED BY <1>1, SkillsInvariant, PTL
=============================================================================
