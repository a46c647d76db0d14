----------------------------- MODULE LRUProofs -----------------------------
(***************************************************************************)
(* Theorems about LRU, for any set of keys and users, any size, time to    *)
(* live and length of the run.                                             *)
(***************************************************************************)
EXTENDS LRU, FiniteSetTheorems, TLAPS

\* The list s names the members of S, each once.
Lists(s, S) ==
    /\ s \in Seq(Keys)
    /\ {s[i] : i \in DOMAIN s} = S
    /\ \A i, j \in DOMAIN s : s[i] = s[j] => i = j

Holders(k) == {u \in Users : k \in held[u]}

-----------------------------------------------------------------------------
(* The list.                                                               *)

LEMMA PushLists ==
    ASSUME NEW S, NEW s, Lists(s, S), NEW k \in Keys, k \notin S
    PROVE  Lists(PushFront(k, s), S \union {k})
  <1> DEFINE t == PushFront(k, s)
  <1>1. s \in Seq(Keys) /\ Len(s) \in Nat /\ DOMAIN s = 1..Len(s)
    BY DEF Lists
  <1>2. DOMAIN t = 1..(Len(s) + 1) /\ t[1] = k
    BY <1>1 DEF PushFront
  <1>3. \A j \in 1..(Len(s) + 1) : j # 1 => j - 1 \in 1..Len(s) /\ t[j] = s[j - 1]
    BY <1>1 DEF PushFront
  <1>4. \A i \in 1..Len(s) : i + 1 \in 1..(Len(s) + 1) /\ t[i + 1] = s[i]
    <2>1. \A i \in 1..Len(s) : i + 1 \in 1..(Len(s) + 1) /\ i + 1 # 1 /\ (i + 1) - 1 = i
      BY <1>1
    <2>. QED  BY <1>3, <2>1
  <1>5. t \in Seq(Keys)
    <2>1. \A j \in 1..(Len(s) + 1) : t[j] \in Keys
      BY <1>1, <1>2, <1>3
    <2>2. t = [j \in 1..(Len(s) + 1) |-> t[j]]
      BY DEF PushFront
    <2>. QED  BY <1>1, <2>1, <2>2
  <1> HIDE DEF t
  <1>6. {t[i] : i \in DOMAIN t} = S \union {k}
    <2>1. \A i \in DOMAIN t : t[i] \in S \union {k}
      BY <1>1, <1>2, <1>3 DEF Lists
    <2>2. \A x \in S : \E i \in DOMAIN t : t[i] = x
      <3> SUFFICES ASSUME NEW x \in S PROVE \E i \in DOMAIN t : t[i] = x
        OBVIOUS
      <3>1. PICK i \in 1..Len(s) : s[i] = x
        BY <1>1 DEF Lists
      <3>. QED  BY <3>1, <1>2, <1>4
    <2>3. 1 \in DOMAIN t
      BY <1>1, <1>2
    <2>. QED  BY <1>2, <2>1, <2>2, <2>3
  <1>7. ASSUME NEW i \in DOMAIN t, NEW j \in DOMAIN t, t[i] = t[j] PROVE i = j
    <2>1. \A n \in 1..(Len(s) + 1) : n # 1 => t[n] \in S
      BY <1>1, <1>3 DEF Lists
    <2>2. CASE i = 1 \/ j = 1
      BY <1>2, <1>7, <2>1, <2>2
    <2>3. CASE i # 1 /\ j # 1
      <3>1. i - 1 \in DOMAIN s /\ j - 1 \in DOMAIN s /\ s[i - 1] = s[j - 1]
        BY <1>1, <1>2, <1>3, <1>7, <2>3
      <3>2. i - 1 = j - 1
        BY <3>1 DEF Lists
      <3>. QED  BY <1>1, <1>2, <3>2
    <2>. QED  BY <2>2, <2>3
  <1>. QED  BY <1>5, <1>6, <1>7 DEF Lists, t

LEMMA WithoutLists ==
    ASSUME NEW S, Lists(access, S), NEW i \in DOMAIN access
    PROVE  Lists(Without(i), S \ {access[i]})
  <1> DEFINE t == Without(i)
             n == Len(access)
  <1>1. access \in Seq(Keys) /\ n \in Nat /\ DOMAIN access = 1..n /\ i \in 1..n
    BY DEF Lists
  <1>2. n - 1 \in Nat /\ DOMAIN t = 1..(n - 1)
    BY <1>1 DEF Without
  <1>3. \A j \in 1..(n - 1) : j \in 1..n /\ j + 1 \in 1..n
    BY <1>1
  <1>4. \A j \in 1..(n - 1) : t[j] = IF j < i THEN access[j] ELSE access[j + 1]
    BY DEF Without
  <1>5. t = [j \in 1..(n - 1) |-> t[j]]
    BY DEF Without
  <1> HIDE DEF t, n
  <1>6. t \in Seq(Keys)
    <2>1. \A j \in 1..(n - 1) : t[j] \in Keys
      BY <1>1, <1>3, <1>4 DEF n
    <2>. QED  BY <1>2, <1>5, <2>1
  <1>7. {t[j] : j \in DOMAIN t} = S \ {access[i]}
    <2>1. ASSUME NEW j \in 1..(n - 1) PROVE t[j] \in S \ {access[i]}
      <3>1. CASE j < i
        BY <1>1, <1>3, <1>4, <3>1 DEF Lists
      <3>2. CASE ~(j < i)
        <4>1. j + 1 # i /\ j + 1 \in DOMAIN access
          BY <1>1, <1>3, <3>2
        <4>. QED  BY <1>1, <1>4, <3>2, <4>1 DEF Lists
      <3>. QED  BY <3>1, <3>2
    <2>2. ASSUME NEW x \in S \ {access[i]} PROVE \E j \in 1..(n - 1) : t[j] = x
      <3>1. PICK m \in DOMAIN access : access[m] = x
        BY DEF Lists
      <3>2. m # i
        BY <3>1
      <3>3. CASE m < i
        <4>1. m \in 1..(n - 1)
          BY <1>1, <3>3
        <4>. QED  BY <1>4, <3>1, <3>3, <4>1
      <3>4. CASE m > i
        <4>1. m - 1 \in 1..(n - 1) /\ ~(m - 1 < i) /\ (m - 1) + 1 = m
          BY <1>1, <3>4
        <4>2. t[m - 1] = x
          BY <1>4, <3>1, <4>1
        <4>. QED  BY <4>1, <4>2
      <3>. QED  BY <1>1, <3>2, <3>3, <3>4
    <2>. QED  BY <1>2, <2>1, <2>2
  <1>8. ASSUME NEW j \in DOMAIN t, NEW m \in DOMAIN t, t[j] = t[m] PROVE j = m
    <2> DEFINE at(x) == IF x < i THEN x ELSE x + 1
    <2>1. at(j) \in DOMAIN access /\ at(m) \in DOMAIN access
      BY <1>1, <1>2, <1>3
    <2>2. access[at(j)] = access[at(m)]
      BY <1>2, <1>4, <1>8
    <2>3. at(j) = at(m)
      BY <2>1, <2>2 DEF Lists
    <2>4. j \in Nat /\ m \in Nat
      BY <1>2
    <2>. QED  BY <1>1, <2>3, <2>4
  <1>. QED  BY <1>6, <1>7, <1>8 DEF Lists, t

LEMMA MoveLists ==
    ASSUME NEW S, Lists(access, S), NEW k \in Keys, k \in S, MoveToFront(k)
    PROVE  Lists(access', S)
  <1>1. PICK i \in DOMAIN access : access[i] = k /\ access' = PushFront(k, Without(i))
    BY DEF MoveToFront
  <1>2. Lists(Without(i), S \ {k})
    BY <1>1, WithoutLists
  <1>3. Lists(access', (S \ {k}) \union {k})
    BY <1>1, <1>2, PushLists
  <1>4. (S \ {k}) \union {k} = S
    OBVIOUS
  <1>. QED  BY <1>3, <1>4

LEMMA RemoveLists ==
    ASSUME NEW S, Lists(access, S), NEW k \in Keys, RemoveFrom(k)
    PROVE  Lists(access', S \ {k})
  BY WithoutLists DEF RemoveFrom

\* The list that Insert evicts from: all but its last element.
LEMMA EvictLists ==
    ASSUME NEW S, Lists(access, S), NEW k \in Keys, k \notin S,
           NEW last, last = IF access = <<>> THEN k ELSE access[Len(access)]
    PROVE  /\ last \in S \union {k}
           /\ Lists([j \in 1..Len(access) |-> PushFront(k, access)[j]], (S \union {k}) \ {last})
  <1> DEFINE t == PushFront(k, access)
             n == Len(access)
             r == [j \in 1..n |-> t[j]]
  <1>1. Lists(t, S \union {k})
    BY PushLists
  <1>2. access \in Seq(Keys) /\ n \in Nat /\ DOMAIN access = 1..n
    BY DEF Lists
  <1>3. DOMAIN t = 1..(n + 1) /\ t[n + 1] = last
    <2>1. DOMAIN t = 1..(n + 1) /\ n + 1 \in 1..(n + 1)
      BY <1>2 DEF PushFront
    <2>2. t[n + 1] = IF n + 1 = 1 THEN k ELSE access[(n + 1) - 1]
      BY <2>1 DEF PushFront
    <2>3. (n + 1 = 1 <=> access = <<>>) /\ (n + 1) - 1 = n
      BY <1>2
    <2>. QED  BY <2>1, <2>2, <2>3
  <1>4. DOMAIN r = 1..n /\ \A j \in 1..n : r[j] = t[j] /\ j \in 1..(n + 1) /\ j # n + 1
    BY <1>2
  <1> HIDE DEF t, n, r
  <1>5. last \in S \union {k}
    <2>1. n + 1 \in DOMAIN t
      BY <1>2, <1>3
    <2>. QED  BY <1>1, <1>3, <2>1 DEF Lists
  <1>6. r \in Seq(Keys)
    <2>1. \A j \in 1..n : t[j] \in Keys
      <3>1. t \in Seq(Keys)
        BY <1>1 DEF Lists
      <3>2. \A j \in DOMAIN t : t[j] \in Keys
        BY <3>1
      <3>3. \A j \in 1..n : j \in DOMAIN t
        BY <1>2, <1>3
      <3>. QED  BY <3>2, <3>3
    <2>2. r = [j \in 1..n |-> t[j]]
      BY DEF r
    <2>. QED  BY <1>2, <2>1, <2>2
  <1>7. {r[j] : j \in DOMAIN r} = (S \union {k}) \ {last}
    <2>1. \A j \in 1..n : r[j] \in (S \union {k}) \ {last}
      <3> SUFFICES ASSUME NEW j \in 1..n PROVE r[j] \in (S \union {k}) \ {last}
        OBVIOUS
      <3>1. j \in DOMAIN t /\ n + 1 \in DOMAIN t /\ j # n + 1
        BY <1>2, <1>3, <1>4
      <3>2. t[j] # t[n + 1] /\ t[j] \in S \union {k}
        BY <1>1, <3>1 DEF Lists
      <3>. QED  BY <1>3, <1>4, <3>2
    <2>2. \A x \in (S \union {k}) \ {last} : \E j \in 1..n : r[j] = x
      <3> SUFFICES ASSUME NEW x \in (S \union {k}) \ {last}
                   PROVE  \E j \in 1..n : r[j] = x
        OBVIOUS
      <3>1. PICK j \in DOMAIN t : t[j] = x
        BY <1>1 DEF Lists
      <3>2. j \in 1..n
        BY <1>2, <1>3, <3>1
      <3>. QED  BY <1>4, <3>1, <3>2
    <2>. QED  BY <1>4, <2>1, <2>2
  <1>8. \A i, j \in DOMAIN r : r[i] = r[j] => i = j
    BY <1>1, <1>3, <1>4 DEF Lists
  <1>. QED  BY <1>5, <1>6, <1>7, <1>8 DEF Lists, r, n, t
-----------------------------------------------------------------------------
(* Counting the users that hold a key.                                     *)

LEMMA HoldersFinite ==
    ASSUME NEW k \in Keys
    PROVE  IsFiniteSet(Holders(k)) /\ Cardinality(Holders(k)) \in Nat
  BY LRUAssumption, FS_Subset, FS_CardinalityType DEF Holders

\* One more user holds the key.
LEMMA HoldCounts ==
    ASSUME CacheTypeOK, PinsAreCounted, NEW u \in Users, NEW k \in Keys, k \notin held[u],
           held' = [held EXCEPT ![u] = @ \union {k}],
           refCount' = [refCount EXCEPT ![k] = refCount[k] + 1]
    PROVE  PinsAreCounted'
  <1>1. Holders(k)' = Holders(k) \union {u} /\ u \notin Holders(k)
    BY DEF Holders, CacheTypeOK
  <1>2. \A j \in Keys : j # k => Holders(j)' = Holders(j)
    BY DEF Holders, CacheTypeOK
  <1>3. Cardinality(Holders(k)') = Cardinality(Holders(k)) + 1
    BY <1>1, HoldersFinite, FS_AddElement
  <1>4. \A j \in Keys : refCount'[j] = IF j = k THEN refCount[k] + 1 ELSE refCount[j]
    BY DEF CacheTypeOK
  <1>. QED  BY <1>2, <1>3, <1>4 DEF PinsAreCounted, Holders

\* One user less holds it.
LEMMA ReleaseCounts ==
    ASSUME CacheTypeOK, PinsAreCounted, NEW u \in Users, NEW k \in Keys, k \in held[u],
           held' = [held EXCEPT ![u] = @ \ {k}],
           refCount' = [refCount EXCEPT ![k] = @ - 1]
    PROVE  PinsAreCounted' /\ refCount'[k] \in Nat
  <1>1. Holders(k)' = Holders(k) \ {u} /\ u \in Holders(k)
    BY DEF Holders, CacheTypeOK
  <1>2. \A j \in Keys : j # k => Holders(j)' = Holders(j)
    BY DEF Holders, CacheTypeOK
  <1>3. Cardinality(Holders(k)') = Cardinality(Holders(k)) - 1
    BY <1>1, HoldersFinite, FS_RemoveElement
  <1>4. \A j \in Keys : refCount'[j] = IF j = k THEN refCount[k] - 1 ELSE refCount[j]
    BY DEF CacheTypeOK
  <1>5. IsFiniteSet(Holders(k)')
    BY <1>1, HoldersFinite, FS_RemoveElement
  <1>6. Cardinality(Holders(k)') \in Nat
    BY <1>5, FS_CardinalityType
  <1>. QED  BY <1>2, <1>3, <1>4, <1>6 DEF PinsAreCounted, Holders

\* An entry with no pins has no users.
LEMMA UnpinnedIsFree ==
    ASSUME PinsAreCounted, NEW k \in Keys, refCount[k] = 0, NEW u \in Users
    PROVE  k \notin held[u]
  <1>1. Holders(k) = {}
    BY HoldersFinite, FS_EmptySet DEF PinsAreCounted, Holders
  <1>. QED  BY <1>1 DEF Holders

\* With no holder there is no pin, and removing the entry leaves none.
LEMMA NobodyCounts ==
    ASSUME PinsAreCounted, NEW k \in Keys, \A u \in Users : k \notin held[u]
    PROVE  refCount[k] = 0
  <1>1. Holders(k) = {}
    BY DEF Holders
  <1>. QED  BY <1>1, FS_EmptySet DEF PinsAreCounted, Holders
-----------------------------------------------------------------------------
(* The inductive invariant.                                                *)

LEMMA ListsMeaning == CacheTypeOK /\ ListMatchesMap <=> CacheTypeOK /\ Lists(access, cached)
  BY DEF CacheTypeOK, ListMatchesMap, Lists

LEMMA OptsType ==
    ASSUME CacheTypeOK
    PROVE  /\ cacheOpts.maxSize \in Nat \ {0}
           /\ Deadline \in Nat
           /\ \A k \in Keys : Pins(k) \in Nat
  <1>1. cacheOpts.maxSize \in Sizes /\ cacheOpts.ttl \in TTLs
    BY DEF CacheTypeOK
  <1>2. cacheOpts.ttl \in Nat /\ cacheOpts.maxSize \in Nat \ {0}
    BY <1>1, LRUAssumption
  <1>3. now \in Nat /\ \A k \in Keys : refCount[k] \in Nat
    BY DEF CacheTypeOK
  <1>. QED  BY <1>2, <1>3 DEF Deadline, Pins

LEMMA AnswerFields ==
    /\ Nothing \in Answer /\ Nothing.from = "none"
    /\ \A k \in Keys : \A m \in {"Get", "Put"} :
          Returned(k, m) \in Answer /\ Returned(k, m).from = m
  BY DEF Answer, Nothing, Returned, Expired

LEMMA InitIInv == CacheInit => CacheIInv
  <1> SUFFICES ASSUME CacheInit PROVE CacheIInv
    OBVIOUS
  <1> USE LRUAssumption DEF CacheInit, New
  <1>1. CacheTypeOK
    BY AnswerFields DEF CacheTypeOK
  <1>2. ListMatchesMap
    BY DEF ListMatchesMap
  <1>3. BelowCapacity
    BY FS_EmptySet DEF BelowCapacity
  <1>4. HeldIsCached
    BY DEF HeldIsCached
  <1>5. PinsAreCounted
    <2>1. \A k \in Keys : {u \in Users : k \in held[u]} = {}
      OBVIOUS
    <2>. QED  BY <2>1, FS_EmptySet DEF PinsAreCounted
  <1>. QED  BY <1>1, <1>2, <1>3, <1>4, <1>5 DEF CacheIInv

\* A call that finds its key: the entry moves to the front and may be pinned.
LEMMA TouchKeeps ==
    ASSUME CacheIInv, NEW u \in Users, NEW k \in Keys, k \in cached, k \notin held[u],
           MoveToFront(k), refCount' = [refCount EXCEPT ![k] = Pins(k)], Hold(u, k),
           expiration' \in [Keys -> Nat], got' \in Answer,
           UNCHANGED <<cacheOpts, cached, now>>
    PROVE  CacheIInv'
  <1> USE DEF CacheIInv
  <1>1. Lists(access', cached)
    BY ListsMeaning, MoveLists
  <1>2. held' \in [Users -> SUBSET Keys] /\ \A v \in Users : held'[v] \subseteq held[v] \union {k}
    BY DEF Hold, CacheTypeOK
  <1>3. CacheTypeOK'
    <2>1. refCount' \in [Keys -> Nat]
      BY OptsType DEF CacheTypeOK
    <2>. QED  BY <1>1, <1>2, <2>1 DEF CacheTypeOK, Lists
  <1>4. ListMatchesMap'
    BY <1>1 DEF Lists, ListMatchesMap
  <1>5. BelowCapacity'
    BY DEF BelowCapacity
  <1>6. HeldIsCached'
    BY <1>2 DEF HeldIsCached
  <1>7. PinsAreCounted'
    <2>1. CASE cacheOpts.pin
      BY <2>1, HoldCounts DEF Hold, Pins
    <2>2. CASE ~cacheOpts.pin
      <3>1. refCount' = refCount /\ held' = held
        BY <2>2 DEF Hold, Pins, CacheTypeOK
      <3>. QED  BY <3>1 DEF PinsAreCounted
    <2>. QED  BY <2>1, <2>2
  <1>. QED  BY <1>3, <1>4, <1>5, <1>6, <1>7

\* An entry nobody holds afterwards leaves the cache.
LEMMA ForgetKeeps ==
    ASSUME CacheIInv, NEW k \in Keys, k \in cached, RemoveFrom(k), Forget(k),
           held' \in [Users -> SUBSET Keys],
           \A v \in Users : held'[v] = held[v] \ {k},
           got' \in Answer, UNCHANGED <<cacheOpts, now>>
    PROVE  CacheIInv'
  <1> USE DEF CacheIInv
  <1>1. Lists(access', cached \ {k})
    BY ListsMeaning, RemoveLists
  <1>2. CacheTypeOK'
    BY <1>1 DEF CacheTypeOK, Lists, Forget
  <1>3. ListMatchesMap'
    BY <1>1 DEF Lists, ListMatchesMap, Forget
  <1>4. BelowCapacity'
    <2>1. IsFiniteSet(cached) /\ Cardinality(cached) \in Nat
      BY FS_CardinalityType DEF BelowCapacity
    <2>2. IsFiniteSet(cached \ {k}) /\ Cardinality(cached \ {k}) = Cardinality(cached) - 1
      BY <2>1, FS_RemoveElement
    <2>3. cacheOpts.maxSize \in Nat
      BY OptsType
    <2>. QED  BY <2>1, <2>2, <2>3 DEF BelowCapacity, Forget
  <1>5. HeldIsCached'
    BY DEF HeldIsCached, Forget
  <1>6. PinsAreCounted'
    <2>1. Holders(k)' = {}
      BY DEF Holders
    <2>2. \A j \in Keys : j # k => Holders(j)' = Holders(j)
      BY DEF Holders
    <2>3. \A j \in Keys : refCount'[j] = IF j = k THEN 0 ELSE refCount[j]
      BY DEF Forget, CacheTypeOK
    <2>4. Cardinality(Holders(k)') = 0
      BY <2>1, FS_EmptySet
    <2>5. \A j \in Keys : refCount'[j] = Cardinality(Holders(j)')
      <3>1. \A j \in Keys : refCount[j] = Cardinality(Holders(j))
        BY DEF PinsAreCounted, Holders
      <3>. QED  BY <2>2, <2>3, <2>4, <3>1
    <2>. QED  BY <2>5 DEF PinsAreCounted, Holders
  <1>. QED  BY <1>2, <1>3, <1>4, <1>5, <1>6

LEMMA GetKeeps ==
    ASSUME CacheIInv, NEW u \in Users, NEW k \in Keys, Get(u, k)
    PROVE  CacheIInv'
  <1> USE DEF CacheIInv
  <1>1. CASE Pins(k) = 0 /\ Expired(k)
    <2>1. refCount[k] = 0
      BY <1>1 DEF Pins, CacheTypeOK
    <2>2. \A v \in Users : held'[v] = held[v] \ {k}
      BY <1>1, <2>1, UnpinnedIsFree DEF Get
    <2>3. held' \in [Users -> SUBSET Keys]
      BY <1>1 DEF Get, CacheTypeOK
    <2>. QED  BY <1>1, <2>2, <2>3, ForgetKeeps, AnswerFields DEF Get
  <1>2. CASE ~(Pins(k) = 0 /\ Expired(k))
    <2>1. expiration' \in [Keys -> Nat]
      BY <1>2 DEF Get, CacheTypeOK
    <2>. QED  BY <1>2, <2>1, TouchKeeps, AnswerFields DEF Get
  <1>. QED  BY <1>1, <1>2

LEMMA RefreshKeeps ==
    ASSUME CacheIInv, NEW u \in Users, NEW k \in Keys, Refresh(u, k)
    PROVE  CacheIInv'
  <1>1. Deadline \in Nat
    BY OptsType DEF CacheIInv
  <1>2. expiration' \in [Keys -> Nat]
    BY <1>1 DEF Refresh, CacheIInv, CacheTypeOK
  <1>. QED  BY <1>2, TouchKeeps, AnswerFields DEF Refresh

LEMMA InsertKeeps ==
    ASSUME CacheIInv, NEW u \in Users, NEW k \in Keys, Insert(u, k)
    PROVE  CacheIInv'
  <1> DEFINE size == Cardinality(cached \union {k})
             oldest == IF access = <<>> THEN k ELSE access[Len(access)]
             pins == [refCount EXCEPT ![k] = Pins(k)]
             times == [expiration EXCEPT ![k] = Deadline]
  <1> USE DEF CacheIInv
  <1>1. /\ k \notin cached
        /\ \A v \in Users : k \notin held[v]
        /\ refCount[k] = 0
        /\ UNCHANGED <<cacheOpts, now>>
        /\ got' = Nothing /\ got' \in Answer
    BY NobodyCounts, AnswerFields DEF Insert, HeldIsCached
  <1>2. Lists(access, cached)
    BY ListsMeaning
  <1>3. IsFiniteSet(cached \union {k}) /\ size = Cardinality(cached) + 1
    BY <1>1, FS_AddElement DEF BelowCapacity
  <1>4. Cardinality(cached) \in Nat /\ cacheOpts.maxSize \in Nat
    BY FS_CardinalityType, OptsType DEF BelowCapacity
  <1>5. pins \in [Keys -> Nat] /\ times \in [Keys -> Nat]
    BY OptsType DEF CacheTypeOK
  <1>6. Hold(u, k) => /\ held' \in [Users -> SUBSET Keys]
                      /\ \A v \in Users : held'[v] \subseteq held[v] \union {k}
    BY DEF Hold, CacheTypeOK
  <1>7. ASSUME Hold(u, k), refCount' = pins PROVE PinsAreCounted'
    <2>1. CASE cacheOpts.pin
      BY <1>1, <1>7, <2>1, HoldCounts DEF Hold, Pins
    <2>2. CASE ~cacheOpts.pin
      <3>1. refCount' = refCount /\ held' = held
        BY <1>7, <2>2 DEF Hold, Pins, CacheTypeOK
      <3>. QED  BY <3>1 DEF PinsAreCounted
    <2>. QED  BY <2>1, <2>2
  <1>8. CASE /\ size # cacheOpts.maxSize
             /\ cached' = cached \union {k}
             /\ access' = PushFront(k, access)
             /\ refCount' = pins
             /\ expiration' = times
             /\ Hold(u, k)
    <2>1. Lists(access', cached')
      BY <1>1, <1>2, <1>8, PushLists
    <2>2. CacheTypeOK'
      BY <1>1, <1>5, <1>6, <1>8, <2>1 DEF CacheTypeOK, Lists
    <2>3. ListMatchesMap'
      BY <2>1 DEF Lists, ListMatchesMap
    <2>4. BelowCapacity'
      BY <1>1, <1>3, <1>4, <1>8 DEF BelowCapacity
    <2>5. HeldIsCached'
      BY <1>6, <1>8 DEF HeldIsCached
    <2>. QED  BY <1>7, <1>8, <2>2, <2>3, <2>4, <2>5
  <1>9. CASE UNCHANGED <<cached, access, refCount, expiration, held>>
    <2>1. PinsAreCounted'
      BY <1>9 DEF PinsAreCounted
    <2>. QED  BY <1>1, <1>9, <2>1
              DEF CacheTypeOK, ListMatchesMap, BelowCapacity, HeldIsCached
  <1>10. CASE /\ size = cacheOpts.maxSize
              /\ pins[oldest] = 0
              /\ cached' = (cached \union {k}) \ {oldest}
              /\ access' = [j \in 1..Len(access) |-> PushFront(k, access)[j]]
              /\ refCount' = [pins EXCEPT ![oldest] = 0]
              /\ expiration' = [times EXCEPT ![oldest] = 0]
              /\ Hold(u, k)
    <2>1. oldest \in cached \union {k} /\ Lists(access', cached')
      BY <1>1, <1>2, <1>10, EvictLists
    <2> HIDE DEF oldest
    <2>2. oldest \in Keys
      BY <2>1 DEF CacheTypeOK
    <2>3. refCount' = pins
      BY <1>5, <1>10, <2>2
    <2>4. CacheTypeOK'
      <3>1. access' \in Seq(Keys) /\ cached' \subseteq Keys
        BY <1>10, <2>1 DEF Lists, CacheTypeOK
      <3>2. refCount' \in [Keys -> Nat] /\ expiration' \in [Keys -> Nat]
        BY <1>5, <1>10, <2>2, <2>3
      <3>. QED  BY <1>1, <1>6, <1>10, <3>1, <3>2 DEF CacheTypeOK
    <2>5. ListMatchesMap'
      BY <2>1 DEF Lists, ListMatchesMap
    <2>6. BelowCapacity'
      <3>1. /\ IsFiniteSet((cached \union {k}) \ {oldest})
            /\ Cardinality((cached \union {k}) \ {oldest}) = size - 1
        BY <1>3, <2>1, FS_RemoveElement
      <3>. QED  BY <1>1, <1>3, <1>4, <1>10, <3>1 DEF BelowCapacity
    <2>7. HeldIsCached'
      <3>1. \A v \in Users : oldest \notin held[v]
        <4>1. CASE oldest = k
          BY <1>1, <4>1
        <4>2. CASE oldest # k
          BY <1>10, <2>2, <4>2, UnpinnedIsFree DEF CacheTypeOK
        <4>. QED  BY <4>1, <4>2
      <3>2. CASE oldest = k
        <4>1. ~cacheOpts.pin
          BY <1>1, <1>10, <3>2 DEF Pins, CacheTypeOK
        <4>. QED  BY <1>1, <1>10, <3>2, <4>1 DEF HeldIsCached, Hold
      <3>3. CASE oldest # k
        BY <1>6, <1>10, <3>1, <3>3 DEF HeldIsCached
      <3>. QED  BY <3>2, <3>3
    <2>. QED  BY <1>7, <1>10, <2>3, <2>4, <2>5, <2>6, <2>7
  <1>. QED  BY <1>8, <1>9, <1>10 DEF Insert

LEMMA DeleteKeeps ==
    ASSUME CacheIInv, NEW u \in Users, NEW k \in Keys, Delete(u, k)
    PROVE  CacheIInv'
  <1>1. \A v \in Users : held'[v] = held[v] \ {k}
    BY DEF Delete, CacheIInv, CacheTypeOK
  <1>2. held' \in [Users -> SUBSET Keys]
    BY DEF Delete, CacheIInv, CacheTypeOK
  <1>. QED  BY <1>1, <1>2, ForgetKeeps, AnswerFields DEF Delete

LEMMA ReleaseKeeps ==
    ASSUME CacheIInv, NEW u \in Users, NEW k \in Keys, Release(u, k)
    PROVE  CacheIInv'
  <1> USE DEF CacheIInv, Release
  <1>1. PinsAreCounted' /\ refCount'[k] \in Nat
    BY ReleaseCounts
  <1>2. CacheTypeOK'
    BY <1>1, AnswerFields DEF CacheTypeOK
  <1>3. HeldIsCached'
    BY DEF HeldIsCached, CacheTypeOK
  <1>4. ListMatchesMap' /\ BelowCapacity'
    BY DEF ListMatchesMap, BelowCapacity
  <1>. QED  BY <1>1, <1>2, <1>3, <1>4

LEMMA NextIInv == CacheIInv /\ [CacheNext]_cacheVars => CacheIInv'
  <1> SUFFICES ASSUME CacheIInv, [CacheNext]_cacheVars PROVE CacheIInv'
    OBVIOUS
  <1>1. ASSUME NEW u \in Users, NEW k \in Keys, Get(u, k) PROVE CacheIInv'
    BY <1>1, GetKeeps
  <1>2. ASSUME NEW u \in Users, NEW k \in Keys, putInternal(u, k) PROVE CacheIInv'
    BY <1>2, RefreshKeeps, InsertKeeps DEF putInternal
  <1>3. ASSUME NEW u \in Users, NEW k \in Keys, Delete(u, k) PROVE CacheIInv'
    BY <1>3, DeleteKeeps
  <1>4. ASSUME NEW u \in Users, NEW k \in Keys, Release(u, k) PROVE CacheIInv'
    BY <1>4, ReleaseKeeps
  <1>5. CASE CacheTick \/ UNCHANGED cacheVars
    <2>1. UNCHANGED <<cacheOpts, cached, access, refCount, expiration, held>>
      BY <1>5 DEF CacheTick, cacheVars
    <2>2. now' \in Nat /\ got' \in Answer
      BY <1>5, AnswerFields DEF CacheTick, cacheVars, CacheIInv, CacheTypeOK
    <2>3. CacheTypeOK'
      BY <2>1, <2>2 DEF CacheIInv, CacheTypeOK
    <2>4. ListMatchesMap' /\ BelowCapacity'
      BY <2>1 DEF CacheIInv, ListMatchesMap, BelowCapacity
    <2>5. HeldIsCached' /\ PinsAreCounted'
      BY <2>1 DEF CacheIInv, HeldIsCached, PinsAreCounted
    <2>. QED  BY <2>3, <2>4, <2>5 DEF CacheIInv
  <1>. QED  BY <1>1, <1>2, <1>3, <1>4, <1>5 DEF CacheNext, Put, PutIfNotExist

\* The list and the map agree, a cache of size n never holds n entries, no
\* held entry leaves it, and the reference counts are the users' pins.
THEOREM CacheCorrect == CacheSpec => []CacheIInv
  BY InitIInv, NextIInv, PTL DEF CacheSpec
-----------------------------------------------------------------------------
(* What a lookup returns.  That pin mode is off is not enough: Get tests   *)
(* the expiry only of an entry whose count is 0 after it added its own     *)
(* reference, so the counts of a cache without pins must stay 0.           *)

UnpinnedCountsNothing ==
    ~cacheOpts.pin => held = [u \in Users |-> {}] /\ \A k \in Keys : refCount[k] = 0

FreshIInv == CacheIInv /\ UnpinnedCountsNothing /\ LookupIsFresh

LEMMA NothingHeldNothingCounted ==
    ASSUME CacheIInv, ~cacheOpts.pin => held = [u \in Users |-> {}]
    PROVE  UnpinnedCountsNothing
  BY NobodyCounts DEF CacheIInv, UnpinnedCountsNothing

\* No call of a cache without pins adds to what a user holds.
LEMMA UnpinnedHoldsNothing ==
    ASSUME CacheIInv, UnpinnedCountsNothing, CacheNext, ~cacheOpts'.pin
    PROVE  held' = [u \in Users |-> {}]
  <1>1. cacheOpts' = cacheOpts
    BY DEF CacheNext, Get, Put, PutIfNotExist, putInternal, Refresh, Insert, Delete,
           Release, CacheTick
  <1>2. held = [u \in Users |-> {}]
    BY <1>1 DEF UnpinnedCountsNothing
  <1>3. ASSUME NEW u \in Users, NEW k \in Keys,
               Get(u, k) \/ Put(u, k) \/ PutIfNotExist(u, k)
        PROVE  held' = held
    BY <1>1, <1>3 DEF Get, Put, PutIfNotExist, putInternal, Refresh, Insert, Hold
  <1>4. ASSUME NEW u \in Users, NEW k \in Keys, Delete(u, k) \/ Release(u, k)
        PROVE  held' = held
    <2>1. held' = [held EXCEPT ![u] = @ \ {k}]
      BY <1>4 DEF Delete, Release
    <2>. QED  BY <1>2, <2>1
  <1>5. CASE CacheTick
    BY <1>2, <1>5 DEF CacheTick
  <1>. QED  BY <1>2, <1>3, <1>4, <1>5 DEF CacheNext

LEMMA NextFresh == FreshIInv /\ [CacheNext]_cacheVars => FreshIInv'
  <1> SUFFICES ASSUME FreshIInv, [CacheNext]_cacheVars PROVE FreshIInv'
    OBVIOUS
  <1>1. CacheIInv /\ CacheIInv' /\ UnpinnedCountsNothing
    BY NextIInv DEF FreshIInv
  <1>2. CASE CacheNext
    <2>1. UnpinnedCountsNothing'
      <3>1. ~cacheOpts'.pin => held' = [u \in Users |-> {}]
        BY <1>1, <1>2, UnpinnedHoldsNothing
      <3>2. PinsAreCounted'
        BY <1>1 DEF CacheIInv
      <3>3. \A k \in Keys : (\A u \in Users : k \notin held'[u]) => refCount'[k] = 0
        <4> SUFFICES ASSUME NEW k \in Keys, \A u \in Users : k \notin held'[u]
                     PROVE  refCount'[k] = 0
          OBVIOUS
        <4>1. {u \in Users : k \in held'[u]} = {}
          OBVIOUS
        <4>. QED  BY <3>2, <4>1, FS_EmptySet DEF PinsAreCounted
      <3>. QED  BY <3>1, <3>3 DEF UnpinnedCountsNothing
    <2>2. LookupIsFresh'
      <3>1. CASE got'.from # "Get"
        BY <3>1 DEF LookupIsFresh
      <3>2. CASE got'.from = "Get"
        <4>1. PICK u \in Users, k \in Keys : Get(u, k)
          BY <1>2, <3>2, AnswerFields DEF CacheNext, Put, PutIfNotExist, putInternal,
             Refresh, Insert, Delete, Release, CacheTick
        <4>2. /\ got' = Returned(k, "Get") /\ ~(Pins(k) = 0 /\ Expired(k))
              /\ UNCHANGED <<expiration, cacheOpts, now>>
          BY <3>2, <4>1 DEF Get, Nothing
        <4>3. ~cacheOpts.pin => Pins(k) = 0
          BY <1>1 DEF UnpinnedCountsNothing, Pins
        <4>. QED  BY <4>2, <4>3 DEF LookupIsFresh, Returned
      <3>. QED  BY <3>1, <3>2
    <2>. QED  BY <1>1, <2>1, <2>2 DEF FreshIInv
  <1>3. CASE UNCHANGED cacheVars
    BY <1>1, <1>3 DEF FreshIInv, cacheVars, UnpinnedCountsNothing, LookupIsFresh
  <1>. QED  BY <1>2, <1>3

\* Get of a cache without pins never returns an entry whose time to live has
\* passed: the branch of lru.go that drops it cannot be missed.
THEOREM LookupsAreFresh == CacheSpec => []LookupIsFresh
  <1>1. CacheInit => FreshIInv
    <2> SUFFICES ASSUME CacheInit PROVE FreshIInv
      OBVIOUS
    <2>1. CacheIInv /\ UnpinnedCountsNothing
      BY InitIInv, NothingHeldNothingCounted DEF CacheInit
    <2>. QED  BY <2>1 DEF CacheInit, FreshIInv, LookupIsFresh, Nothing
  <1>2. FreshIInv => LookupIsFresh
    BY DEF FreshIInv
  <1>. QED  BY <1>1, <1>2, NextFresh, PTL DEF CacheSpec
=============================================================================
