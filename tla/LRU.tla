------------------------------- MODULE LRU -------------------------------
(***************************************************************************)
(* The cache of cmd/samples/recovery/cache: an LRU of bounded size, with   *)
(* an optional time to live and an optional pin mode that counts the users *)
(* of an entry.  Every method runs under the mutex, so each is one action. *)
(* A value is its key: no property tells two values of a key apart.        *)
(***************************************************************************)
EXTENDS Integers, Sequences, FiniteSets

CONSTANTS
    Keys,
    Users,      \* goroutines that call the cache
    Sizes,      \* the sizes New is called with
    TTLs,       \* the times to live, 0 for none
    MaxTime     \* bound of the clock

ASSUME LRUAssumption ==
    /\ Sizes \subseteq Nat \ {0}
    /\ TTLs \subseteq Nat
    /\ MaxTime \in Nat
    /\ IsFiniteSet(Users)

VARIABLES
    cacheOpts,  \* the options New was called with
    cached,     \* the keys of byKey
    access,     \* byAccess, the most recently used key first
    refCount,
    expiration, \* 0 is the zero time
    now,
    held,       \* the keys each user got in pin mode and has not released
    got         \* the method that returned an entry, and whether that was too old

cacheVars == <<cacheOpts, cached, access, refCount, expiration, now, held, got>>

Nothing == [from |-> "none", late |-> FALSE]

New(size, ttl, pin) ==
    /\ cacheOpts = [maxSize |-> size, ttl |-> ttl, pin |-> pin]
    /\ cached = {}
    /\ access = <<>>
    /\ refCount = [k \in Keys |-> 0]
    /\ expiration = [k \in Keys |-> 0]

CacheInit ==
    /\ \E size \in Sizes, ttl \in TTLs, pin \in BOOLEAN : New(size, ttl, pin)
    /\ now = 1
    /\ held = [u \in Users |-> {}]
    /\ got = Nothing

-----------------------------------------------------------------------------
Without(i) == [j \in 1..(Len(access) - 1) |-> IF j < i THEN access[j] ELSE access[j + 1]]
PushFront(k, s) == [j \in 1..(Len(s) + 1) |-> IF j = 1 THEN k ELSE s[j - 1]]

\* byAccess.MoveToFront, byAccess.Remove
MoveToFront(k) == \E i \in DOMAIN access : access[i] = k /\ access' = PushFront(k, Without(i))
RemoveFrom(k) == \E i \in DOMAIN access : access[i] = k /\ access' = Without(i)

\* What the removal of an entry from both maps leaves: nothing of it.
Forget(k) ==
    /\ cached' = cached \ {k}
    /\ refCount' = [refCount EXCEPT ![k] = 0]
    /\ expiration' = [expiration EXCEPT ![k] = 0]

Hold(u, k) == held' = IF cacheOpts.pin THEN [held EXCEPT ![u] = @ \union {k}] ELSE held
\* Mutant of Pins: references are counted without pin mode too.
PinsAlways(k) == refCount[k] + 1
Pins(k) == IF cacheOpts.pin THEN refCount[k] + 1 ELSE refCount[k]
Deadline == IF cacheOpts.ttl # 0 THEN now + cacheOpts.ttl ELSE 0
Expired(k) == expiration[k] # 0 /\ now > expiration[k]
Returned(k, method) == [from |-> method, late |-> Expired(k)]

\* The reference is counted before the expiry is tested, so that only a
\* cache without pins drops an expired entry.
Get(u, k) ==
    /\ k \in cached
    /\ k \notin held[u]
    /\ IF Pins(k) = 0 /\ Expired(k)
       THEN /\ RemoveFrom(k)
            /\ Forget(k)
            /\ got' = Nothing
            /\ UNCHANGED held
       ELSE /\ MoveToFront(k)
            /\ refCount' = [refCount EXCEPT ![k] = Pins(k)]
            /\ Hold(u, k)
            /\ got' = Returned(k, "Get")
            /\ UNCHANGED <<cached, expiration>>
    /\ UNCHANGED <<cacheOpts, now>>

\* putInternal finds the key and returns the value it had, however old; its
\* time to live starts anew.
Refresh(u, k) ==
    /\ k \in cached
    /\ k \notin held[u]
    /\ MoveToFront(k)
    /\ refCount' = [refCount EXCEPT ![k] = Pins(k)]
    /\ expiration' = IF cacheOpts.ttl # 0 THEN [expiration EXCEPT ![k] = Deadline]
                                          ELSE expiration
    /\ Hold(u, k)
    /\ got' = Returned(k, "Put")
    /\ UNCHANGED <<cacheOpts, cached, now>>

\* putInternal does not find it: the entry is inserted, and the oldest one
\* evicted when that makes the cache full.  The oldest may be the new entry.
Insert(u, k) ==
    LET size == Cardinality(cached \union {k})
        oldest == IF access = <<>> THEN k ELSE access[Len(access)]
        pins == [refCount EXCEPT ![k] = Pins(k)]
        times == [expiration EXCEPT ![k] = Deadline]
    IN  /\ k \notin cached
        /\ \/ /\ size # cacheOpts.maxSize
              /\ cached' = cached \union {k}
              /\ access' = PushFront(k, access)
              /\ refCount' = pins
              /\ expiration' = times
              /\ Hold(u, k)
           \/ /\ size = cacheOpts.maxSize
              /\ pins[oldest] > 0       \* ErrCacheFull
              /\ UNCHANGED <<cached, access, refCount, expiration, held>>
           \/ /\ size = cacheOpts.maxSize
              /\ pins[oldest] = 0
              /\ cached' = (cached \union {k}) \ {oldest}
              /\ access' = [j \in 1..Len(access) |-> PushFront(k, access)[j]]
              /\ refCount' = [pins EXCEPT ![oldest] = 0]
              /\ expiration' = [times EXCEPT ![oldest] = 0]
              /\ Hold(u, k)
        /\ got' = Nothing
        /\ UNCHANGED <<cacheOpts, now>>

putInternal(u, k) == Refresh(u, k) \/ Insert(u, k)

\* Put panics in pin mode.
Put(u, k) == ~cacheOpts.pin /\ putInternal(u, k)
PutIfNotExist(u, k) == putInternal(u, k)

\* Mutant of Delete: the entry stays in byAccess.
DeleteFromMap(u, k) ==
    /\ \A v \in Users \ {u} : k \notin held[v]
    /\ k \in cached
    /\ Forget(k)
    /\ held' = [held EXCEPT ![u] = @ \ {k}]
    /\ got' = Nothing
    /\ UNCHANGED <<cacheOpts, access, now>>

\* Delete ignores the reference count.  Its callers here do not delete what
\* another user holds; Release would find no entry then, or a later one.
Delete(u, k) ==
    /\ \A v \in Users \ {u} : k \notin held[v]
    /\ k \in cached
    /\ RemoveFrom(k)
    /\ Forget(k)
    /\ held' = [held EXCEPT ![u] = @ \ {k}]
    /\ got' = Nothing
    /\ UNCHANGED <<cacheOpts, now>>

Release(u, k) ==
    /\ k \in held[u]
    /\ refCount' = [refCount EXCEPT ![k] = @ - 1]
    /\ held' = [held EXCEPT ![u] = @ \ {k}]
    /\ got' = Nothing
    /\ UNCHANGED <<cacheOpts, cached, access, expiration, now>>

\* Time passes between two calls.
CacheTick ==
    /\ now < MaxTime
    /\ now' = now + 1
    /\ got' = Nothing
    /\ UNCHANGED <<cacheOpts, cached, access, refCount, expiration, held>>

CacheNext ==
    \/ \E u \in Users, k \in Keys :
          Get(u, k) \/ Put(u, k) \/ PutIfNotExist(u, k) \/ Delete(u, k) \/ Release(u, k)
    \/ CacheTick

CacheSpec == CacheInit /\ [][CacheNext]_cacheVars

-----------------------------------------------------------------------------
Answer == [from : {"none", "Get", "Put"}, late : BOOLEAN]

CacheTypeOK ==
    /\ cacheOpts \in [maxSize : Sizes, ttl : TTLs, pin : BOOLEAN]
    /\ cached \subseteq Keys
    /\ access \in Seq(Keys)
    /\ refCount \in [Keys -> Nat]
    /\ expiration \in [Keys -> Nat]
    /\ now \in Nat
    /\ held \in [Users -> SUBSET Keys]
    /\ got \in Answer

\* The list and the map of lru name the same keys, each once.
ListMatchesMap ==
    /\ {access[i] : i \in DOMAIN access} = cached
    /\ \A i, j \in DOMAIN access : access[i] = access[j] => i = j

\* putInternal tests the size after the insert: a cache of size n holds at
\* most n - 1 entries between two calls, whatever was evicted or refused.
BelowCapacity == IsFiniteSet(cached) /\ Cardinality(cached) < cacheOpts.maxSize

\* An entry a user holds is neither evicted nor dropped when it expires.
HeldIsCached == \A u \in Users : held[u] \subseteq cached

\* The reference count is the number of users that hold the entry: no path of
\* putInternal leaves a pin behind, and none takes the pin of another user.
PinsAreCounted == \A k \in Keys : refCount[k] = Cardinality({u \in Users : k \in held[u]})

\* The safety of lru.go, in one inductive invariant.
CacheIInv ==
    /\ CacheTypeOK
    /\ ListMatchesMap
    /\ BelowCapacity
    /\ HeldIsCached
    /\ PinsAreCounted

\* Without pins a lookup drops an entry whose time to live has passed, and does
\* not return it: a reference counted too early would keep it alive.
LookupIsFresh == got.from = "Get" /\ ~cacheOpts.pin => ~got.late

\* cache.go:31: "Cache entries that are older than the TTL will not be
\* returned", by no method of the cache.
ReturnedIsFresh == ~cacheOpts.pin => ~got.late
=============================================================================
