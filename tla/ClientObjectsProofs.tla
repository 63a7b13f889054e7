------------------------ MODULE ClientObjectsProofs ------------------------
(***************************************************************************)
(* Theorems about the cache, the live queries and the connection registry, *)
(* for any tasks, keys and names and every bound.                          *)
(***************************************************************************)
EXTENDS ClientObjects, SequenceTheorems, WellFoundedInduction, TLAPS

(* Of some natural numbers one is the least.                               *)
LEMMA LeastIsOne ==
    ASSUME NEW T \in SUBSET Nat, T # {}
    PROVE  (CHOOSE n \in T : \A m \in T : n <= m) \in T
<1>1. PICK n \in T : \A m \in T : ~ (<<m, n>> \in OpToRel(<, Nat))
  BY WFMin, NatLessThanWellFounded
<1>2. \A m \in T : ~(m < n)
  BY <1>1 DEF OpToRel
<1>3. \E x \in T : \A m \in T : x <= m
  BY <1>2
<1>. QED
  BY <1>3, Zenon

(* Where the elements of a sequence are once the i-th has gone.            *)
Shifted(j, i) == IF j < i THEN j ELSE j + 1

LEMMA ShiftedRange ==
    ASSUME NEW n \in Nat, NEW i \in 1 .. n
    PROVE  /\ \A j \in 1 .. n - 1 : /\ Shifted(j, i) \in 1 .. n
                                     /\ Shifted(j, i) # i
           /\ \A m \in 1 .. n : m # i =>
                  \E j \in 1 .. n - 1 : Shifted(j, i) = m
<1>1. ASSUME NEW m \in 1 .. n, m # i
      PROVE  \E j \in 1 .. n - 1 : Shifted(j, i) = m
  <2>1. CASE m < i
    BY <2>1 DEF Shifted
  <2>2. CASE ~(m < i)
    <3>1. m - 1 \in 1 .. n - 1 /\ ~(m - 1 < i) /\ (m - 1) + 1 = m
      BY <1>1, <2>2
    <3>. QED
      BY <3>1 DEF Shifted
  <2>. QED
    BY <2>1, <2>2
<1>. QED
  BY <1>1 DEF Shifted

Cut(s, i) == SubSeq(s, 1, i - 1) \o SubSeq(s, i + 1, Len(s))

LEMMA RemovedAt ==
    ASSUME NEW S, NEW s \in Seq(S), NEW i \in 1 .. Len(s)
    PROVE  /\ Cut(s, i) \in Seq(S) /\ Len(Cut(s, i)) = Len(s) - 1
           /\ \A j \in 1 .. Len(s) - 1 :
                /\ Shifted(j, i) \in 1 .. Len(s) /\ Shifted(j, i) # i
                /\ Cut(s, i)[j] = s[Shifted(j, i)]
           /\ \A m \in 1 .. Len(s) :
                m # i => \E j \in 1 .. Len(s) - 1 : Cut(s, i)[j] = s[m]
<1>. DEFINE w == Cut(s, i)
            u == SubSeq(s, 1, i - 1)
            v == SubSeq(s, i + 1, Len(s))
<1>0. PICK n \in Nat : n = Len(s)
  OBVIOUS
<1>1. /\ u \in Seq(S) /\ Len(u) = i - 1
      /\ \A j \in 1 .. i - 1 : u[j] = s[j]
  <2>1. \A m \in 1 .. i - 1 : s[m] \in S
    BY <1>0
  <2>2. /\ u \in Seq(S)
        /\ Len(u) = IF 1 <= i - 1 THEN (i - 1) - 1 + 1 ELSE 0
        /\ \A j \in 1 .. (i - 1) - 1 + 1 : u[j] = s[1 + j - 1]
    BY <1>0, <2>1, SubSeqProperties
  <2>. QED
    BY <1>0, <2>2
<1>2. /\ v \in Seq(S) /\ Len(v) = n - i
      /\ \A j \in 1 .. n - i : v[j] = s[i + j]
  <2>1. \A m \in i + 1 .. n : s[m] \in S
    BY <1>0
  <2>2. /\ v \in Seq(S)
        /\ Len(v) = IF i + 1 <= n THEN n - (i + 1) + 1 ELSE 0
        /\ \A j \in 1 .. n - (i + 1) + 1 : v[j] = s[(i + 1) + j - 1]
    BY <1>0, <2>1, SubSeqProperties
  <2>. QED
    BY <1>0, <2>2
<1>. HIDE DEF u, v, w
<1>3. /\ w \in Seq(S) /\ Len(w) = Len(u) + Len(v)
      /\ \A j \in 1 .. Len(u) + Len(v) :
            w[j] = IF j <= Len(u) THEN u[j] ELSE v[j - Len(u)]
  BY <1>1, <1>2, ConcatProperties DEF u, v, w, Cut
<1>4. i \in 1 .. n /\ (i - 1) + (n - i) = n - 1
  BY <1>0
<1>5. Len(w) = n - 1
  BY <1>1, <1>2, <1>3, <1>4
<1>6. \A j \in 1 .. n - 1 :
        w[j] = IF j <= i - 1 THEN u[j] ELSE v[j - (i - 1)]
  BY <1>1, <1>2, <1>3, <1>4
<1>7. ASSUME NEW j \in 1 .. n - 1
      PROVE  w[j] = s[Shifted(j, i)]
  <2>1. CASE j <= i - 1
    <3>1. j \in 1 .. i - 1 /\ Shifted(j, i) = j
      BY <1>4, <2>1 DEF Shifted
    <3>. QED
      BY <1>1, <1>6, <2>1, <3>1
  <2>2. CASE ~(j <= i - 1)
    <3>1. /\ j - (i - 1) \in 1 .. n - i /\ i + (j - (i - 1)) = j + 1
          /\ Shifted(j, i) = j + 1
      BY <1>4, <2>2 DEF Shifted
    <3>. QED
      BY <1>2, <1>6, <2>2, <3>1
  <2>. QED
    BY <2>1, <2>2
<1>8. /\ \A j \in 1 .. n - 1 : /\ Shifted(j, i) \in 1 .. n
                                 /\ Shifted(j, i) # i
      /\ \A m \in 1 .. n : m # i => \E j \in 1 .. n - 1 : Shifted(j, i) = m
  BY <1>4, ShiftedRange
<1>9. \A m \in 1 .. n : m # i => \E j \in 1 .. n - 1 : w[j] = s[m]
  BY <1>7, <1>8
<1>. QED
  BY <1>0, <1>3, <1>5, <1>7, <1>8, <1>9 DEF w

LEMMA ShiftedIsOneToOne ==
    ASSUME NEW i \in Nat, NEW j \in Nat, NEW k \in Nat,
           Shifted(j, i) = Shifted(k, i)
    PROVE  j = k
  BY DEF Shifted

---------------------------------------------------------------------------
(* The cache.                                                              *)

UniqueKeys(m) == \A i, j \in DOMAIN m : m[i].key = m[j].key => i = j

(* The Map without a key.                                                  *)
LacksKey(w, k) ==
    /\ w \in Seq(Cache!Entries) /\ UniqueKeys(w)
    /\ Len(w) <= Len(map)
    /\ k \in Cache!Cached => Len(w) = Len(map) - 1
    /\ \A j \in DOMAIN w :
        w[j].key # k /\ \E i \in DOMAIN map : w[j] = map[i]

(* Deleting a key from the Map leaves the entries of the others.           *)
LEMMA CacheWithout ==
    ASSUME map \in Seq(Cache!Entries), UniqueKeys(map), NEW k
    PROVE  LacksKey(Cache!Without(k), k)
<1>. DEFINE I == {i \in 1 .. Len(map) : map[i].key = k}
<1>0. DOMAIN map = 1 .. Len(map) /\ Len(map) \in Nat
  OBVIOUS
<1>1. CASE I = {}
  <2>1. Cache!Without(k) = map
    BY <1>1 DEF Cache!Without, Cache!RemoveFirstMatch
  <2>2. \A j \in DOMAIN map : map[j].key # k
    BY <1>0, <1>1
  <2>3. k \notin Cache!Cached
    BY <2>2 DEF Cache!Cached
  <2>4. \A j \in DOMAIN map :
          map[j].key # k /\ \E m \in DOMAIN map : map[j] = map[m]
    BY <2>2, Zenon
  <2>5. Len(map) <= Len(map)
    BY <1>0
  <2>6. LacksKey(map, k)
    BY <2>3, <2>4, <2>5, Zenon DEF LacksKey
  <2>. QED
    BY <2>1, <2>6
<1>2. CASE I # {}
  <2>. DEFINE i == CHOOSE n \in I : \A m \in I : n <= m
              w == Cut(map, i)
  <2>1. i \in I
    <3>1. I \in SUBSET Nat
      BY <1>0
    <3>. HIDE DEF I
    <3>. QED
      BY <1>2, <3>1, LeastIsOne
  <2>2. Cache!Without(k) = w
    BY <1>2 DEF Cache!Without, Cache!RemoveFirstMatch, Cache!SelectInSeq,
                Cache!RemoveAt, Cache!Min, Cut
  <2>. HIDE DEF i
  <2>3. /\ i \in 1 .. Len(map) /\ map[i].key = k
        /\ \A m \in 1 .. Len(map) : map[m].key = k => m = i
    BY <1>0, <2>1 DEF UniqueKeys
  <2>4. /\ w \in Seq(Cache!Entries) /\ Len(w) = Len(map) - 1
        /\ \A j \in 1 .. Len(map) - 1 :
             /\ Shifted(j, i) \in 1 .. Len(map) /\ Shifted(j, i) # i
             /\ w[j] = map[Shifted(j, i)]
    BY <2>3, RemovedAt
  <2>. HIDE DEF w
  <2>5. DOMAIN w = 1 .. Len(map) - 1
    BY <2>4
  <2>6. UniqueKeys(w)
    <3>. SUFFICES ASSUME NEW j \in 1 .. Len(map) - 1,
                         NEW m \in 1 .. Len(map) - 1, w[j].key = w[m].key
                  PROVE  j = m
      BY <2>5 DEF UniqueKeys
    <3>1. Shifted(j, i) = Shifted(m, i)
      BY <1>0, <2>4 DEF UniqueKeys
    <3>. QED
      BY <2>3, <3>1, ShiftedIsOneToOne
  <2>7. \A j \in DOMAIN w :
          w[j].key # k /\ \E m \in DOMAIN map : w[j] = map[m]
    BY <1>0, <2>3, <2>4, <2>5
  <2>8. LacksKey(w, k)
    BY <1>0, <2>4, <2>6, <2>7 DEF LacksKey
  <2>. QED
    BY <2>2, <2>8
<1>. QED
  BY <1>1, <1>2

(* A key that the Map does not have goes to its end.                       *)
LEMMA CacheAppend ==
    ASSUME NEW w \in Seq(Cache!Entries), UniqueKeys(w),
           NEW e \in Cache!Entries, \A j \in DOMAIN w : w[j].key # e.key
    PROVE  /\ Append(w, e) \in Seq(Cache!Entries)
           /\ UniqueKeys(Append(w, e))
           /\ Len(Append(w, e)) = Len(w) + 1
           /\ \A j \in DOMAIN Append(w, e) :
                \/ Append(w, e)[j] = e
                \/ \E i \in DOMAIN w : Append(w, e)[j] = w[i]
<1>. DEFINE a == Append(w, e)
<1>0. PICK n \in Nat : n = Len(w) /\ DOMAIN w = 1 .. n
  OBVIOUS
<1>1. /\ a \in Seq(Cache!Entries) /\ Len(a) = n + 1
      /\ DOMAIN a = 1 .. n + 1 /\ a[n + 1] = e
      /\ \A j \in 1 .. n : a[j] = w[j]
  BY <1>0
<1>. HIDE DEF a
<1>2. \A j \in 1 .. n + 1 : j = n + 1 \/ j \in 1 .. n
  OBVIOUS
<1>3. UniqueKeys(a)
  <2>. SUFFICES ASSUME NEW i \in 1 .. n + 1, NEW j \in 1 .. n + 1,
                       a[i].key = a[j].key
                PROVE  i = j
    BY <1>1 DEF UniqueKeys
  <2>1. CASE i \in 1 .. n /\ j \in 1 .. n
    BY <1>0, <1>1, <2>1 DEF UniqueKeys
  <2>2. CASE i = n + 1 \/ j = n + 1
    BY <1>0, <1>1, <1>2, <2>2
  <2>. QED
    BY <1>2, <2>1, <2>2
<1>. QED
  BY <1>0, <1>1, <1>2, <1>3 DEF a

(* Eviction makes room for one entry.                                      *)
LEMMA CacheEvict ==
    ASSUME Cache!CacheAssumption, Cache!TypeOK
    PROVE  /\ Cache!Evict \in Seq(Cache!Entries)
           /\ UniqueKeys(Cache!Evict)
           /\ Len(Cache!Evict) + 1 <= MaxSize \/ Len(Cache!Evict) + 1 <= 1
           /\ \A j \in DOMAIN Cache!Evict :
                \E i \in DOMAIN map : Cache!Evict[j] = map[i]
<1>0. PICK n \in Nat : n = Len(map) /\ DOMAIN map = 1 .. n
  BY DEF Cache!TypeOK
<1>1. /\ map \in Seq(Cache!Entries) /\ UniqueKeys(map)
      /\ n <= MaxSize \/ n <= 1
      /\ MaxSize \in Nat
  BY <1>0 DEF Cache!TypeOK, Cache!CacheAssumption, UniqueKeys
<1>2. CASE Len(map) >= MaxSize /\ map # <<>>
  <2>. DEFINE w == Tail(map)
  <2>1. /\ w \in Seq(Cache!Entries) /\ Len(w) = n - 1 /\ n # 0
        /\ DOMAIN w = 1 .. n - 1
        /\ \A j \in 1 .. n - 1 : w[j] = map[j + 1] /\ j + 1 \in 1 .. n
    BY <1>0, <1>1, <1>2
  <2>2. Cache!Evict = w
    BY <1>2 DEF Cache!Evict
  <2>. HIDE DEF w
  <2>3. UniqueKeys(w)
    <3>. SUFFICES ASSUME NEW i \in 1 .. n - 1, NEW j \in 1 .. n - 1,
                         w[i].key = w[j].key
                  PROVE  i = j
      BY <2>1 DEF UniqueKeys
    <3>1. \A k, m \in 1 .. n : map[k].key = map[m].key => k = m
      BY <1>0, <1>1 DEF UniqueKeys
    <3>2. /\ i + 1 \in 1 .. n /\ j + 1 \in 1 .. n
          /\ map[i + 1].key = map[j + 1].key
      BY <2>1
    <3>3. i + 1 = j + 1
      BY <3>1, <3>2, Zenon
    <3>. QED
      BY <1>0, <3>3
  <2>4. Len(w) + 1 <= MaxSize \/ Len(w) + 1 <= 1
    BY <1>1, <2>1
  <2>5. \A j \in DOMAIN w : \E i \in DOMAIN map : w[j] = map[i]
    BY <1>0, <2>1
  <2>. QED
    BY <2>1, <2>2, <2>3, <2>4, <2>5
<1>3. CASE ~(Len(map) >= MaxSize /\ map # <<>>)
  <2>1. Cache!Evict = map
    BY <1>3 DEF Cache!Evict
  <2>2. n + 1 <= MaxSize \/ n + 1 <= 1
    BY <1>0, <1>1, <1>3
  <2>3. \A j \in DOMAIN map : \E i \in DOMAIN map : map[j] = map[i]
    BY Zenon
  <2>. QED
    BY <1>0, <1>1, <2>1, <2>2, <2>3
<1>. QED
  BY <1>2, <1>3

Overwritten(e) ==
    [i \in DOMAIN map |-> IF map[i].key = e.key THEN e ELSE map[i]]

(* Overwriting keeps the keys and the order.                               *)
LEMMA CacheOverwrite ==
    ASSUME map \in Seq(Cache!Entries), UniqueKeys(map),
           NEW e \in Cache!Entries
    PROVE  /\ Overwritten(e) \in Seq(Cache!Entries)
           /\ UniqueKeys(Overwritten(e))
           /\ Len(Overwritten(e)) = Len(map)
           /\ \A j \in DOMAIN Overwritten(e) :
                \/ Overwritten(e)[j] = e
                \/ \E i \in DOMAIN map : Overwritten(e)[j] = map[i]
<1>. DEFINE w == Overwritten(e)
<1>0. PICK n \in Nat : n = Len(map) /\ DOMAIN map = 1 .. n
  OBVIOUS
<1>1. \A i \in 1 .. n : map[i] \in Cache!Entries
  BY <1>0
<1>2. w \in [1 .. n -> Cache!Entries]
  BY <1>0, <1>1 DEF Overwritten
<1>3. w \in Seq(Cache!Entries)
  <2>. HIDE DEF w
  <2>1. w \in UNION {[1 .. m -> Cache!Entries] : m \in Nat}
    BY <1>2, Zenon
  <2>2. Seq(Cache!Entries) = UNION {[1 .. m -> Cache!Entries] : m \in Nat}
    BY SeqDef, Zenon
  <2>. QED
    BY <2>1, <2>2, Zenon
<1>4. Len(w) = n /\ DOMAIN w = 1 .. n
  BY <1>2, <1>3
<1>5. \A i \in 1 .. n : w[i].key = map[i].key
  BY <1>0 DEF Overwritten
<1>6. \A i \in 1 .. n : w[i] = e \/ w[i] = map[i]
  BY <1>0 DEF Overwritten
<1>. HIDE DEF w
<1>7. UniqueKeys(w)
  <2>1. \A i, j \in 1 .. n : map[i].key = map[j].key => i = j
    BY <1>0 DEF UniqueKeys
  <2>2. \A i, j \in 1 .. n : w[i].key = w[j].key => i = j
    BY <1>5, <2>1, Zenon
  <2>. QED
    BY <1>4, <2>2, Zenon DEF UniqueKeys
<1>. QED
  BY <1>0, <1>3, <1>4, <1>6, <1>7 DEF w

(* What a step makes of the Map: every entry was there, or it is the one   *)
(* that a set enters.                                                      *)
MapStep(m, New) ==
    /\ m \in Seq(Cache!Entries) /\ UniqueKeys(m)
    /\ Len(m) <= MaxSize \/ Len(m) <= 1
    /\ \A j \in DOMAIN m : m[j] \in New \/ \E i \in DOMAIN map : m[j] = map[i]

(* A map without a key, and one to which it goes back, are well formed.    *)
LEMMA CacheMapSteps ==
    ASSUME Cache!CacheAssumption, Cache!TypeOK
    PROVE  /\ MapStep(map, {})
           /\ MapStep(<<>>, {})
           /\ \A k : MapStep(Cache!Without(k), {})
           /\ \A i \in DOMAIN map :
                MapStep(Append(Cache!Without(map[i].key), map[i]), {})
           /\ \A e \in Cache!Entries :
                /\ e.key \notin Cache!Cached =>
                    MapStep(Append(Cache!Evict, e), {e})
                /\ MapStep(Overwritten(e), {e})
<1>0. /\ map \in Seq(Cache!Entries) /\ UniqueKeys(map)
      /\ Len(map) <= MaxSize \/ Len(map) <= 1
      /\ MaxSize \in Nat /\ Len(map) \in Nat
      /\ \A i \in DOMAIN map : map[i] \in Cache!Entries
  BY DEF Cache!TypeOK, Cache!CacheAssumption, UniqueKeys
<1>1. MapStep(map, {})
  <2>1. \A j \in DOMAIN map : \E i \in DOMAIN map : map[j] = map[i]
    BY Zenon
  <2>. QED
    BY <1>0, <2>1, Zenon DEF MapStep
<1>2. MapStep(<<>>, {})
  BY <1>0 DEF MapStep, UniqueKeys
<1>3. ASSUME NEW k
      PROVE  MapStep(Cache!Without(k), {})
  <2>. DEFINE w == Cache!Without(k)
  <2>1. LacksKey(w, k)
    BY <1>0, CacheWithout
  <2>. HIDE DEF w
  <2>. QED
    BY <1>0, <2>1 DEF LacksKey, MapStep, w
<1>4. ASSUME NEW i \in DOMAIN map
      PROVE  MapStep(Append(Cache!Without(map[i].key), map[i]), {})
  <2>. DEFINE w == Cache!Without(map[i].key)
              e == map[i]
  <2>1. LacksKey(w, e.key)
    BY <1>0, CacheWithout
  <2>. HIDE DEF w
  <2>2. map[i].key \in Cache!Cached
    BY DEF Cache!Cached
  <2>3. e \in Cache!Entries
    BY <1>0
  <2>4. /\ w \in Seq(Cache!Entries) /\ UniqueKeys(w)
        /\ Len(w) + 1 = Len(map)
        /\ \A j \in DOMAIN w :
            w[j].key # e.key /\ \E m \in DOMAIN map : w[j] = map[m]
    BY <1>0, <2>1, <2>2 DEF LacksKey
  <2>. DEFINE a == Append(w, e)
  <2>5. /\ a \in Seq(Cache!Entries) /\ UniqueKeys(a) /\ Len(a) = Len(w) + 1
        /\ \A j \in DOMAIN a : a[j] = e \/ \E m \in DOMAIN w : a[j] = w[m]
    BY <2>3, <2>4, CacheAppend
  <2>. HIDE DEF a
  <2>6. \A j \in DOMAIN a : \E m \in DOMAIN map : a[j] = map[m]
    BY <2>4, <2>5
  <2>7. MapStep(a, {})
    BY <1>0, <2>4, <2>5, <2>6 DEF MapStep
  <2>. QED
    BY <2>7 DEF a, w
<1>5. ASSUME NEW e \in Cache!Entries, e.key \notin Cache!Cached
      PROVE  MapStep(Append(Cache!Evict, e), {e})
  <2>. DEFINE w == Cache!Evict
  <2>1. /\ w \in Seq(Cache!Entries) /\ UniqueKeys(w)
        /\ Len(w) + 1 <= MaxSize \/ Len(w) + 1 <= 1
        /\ \A j \in DOMAIN w : \E i \in DOMAIN map : w[j] = map[i]
    BY CacheEvict
  <2>. HIDE DEF w
  <2>2. \A j \in DOMAIN w : w[j].key # e.key
    BY <1>5, <2>1 DEF Cache!Cached
  <2>. DEFINE a == Append(w, e)
  <2>3. /\ a \in Seq(Cache!Entries) /\ UniqueKeys(a) /\ Len(a) = Len(w) + 1
        /\ \A j \in DOMAIN a : a[j] = e \/ \E m \in DOMAIN w : a[j] = w[m]
    BY <2>1, <2>2, CacheAppend
  <2>. HIDE DEF a
  <2>4. \A j \in DOMAIN a : a[j] \in {e} \/ \E i \in DOMAIN map : a[j] = map[i]
    BY <2>1, <2>3
  <2>5. MapStep(a, {e})
    BY <2>1, <2>3, <2>4 DEF MapStep
  <2>. QED
    BY <2>5 DEF a, w
<1>6. ASSUME NEW e \in Cache!Entries
      PROVE  MapStep(Overwritten(e), {e})
  <2>. DEFINE w == Overwritten(e)
  <2>1. /\ w \in Seq(Cache!Entries) /\ UniqueKeys(w)
        /\ Len(w) = Len(map)
        /\ \A j \in DOMAIN w : w[j] = e \/ \E i \in DOMAIN map : w[j] = map[i]
    BY <1>0, CacheOverwrite
  <2>. HIDE DEF w
  <2>2. \A j \in DOMAIN w : w[j] \in {e} \/ \E i \in DOMAIN map : w[j] = map[i]
    BY <2>1
  <2>3. MapStep(w, {e})
    BY <1>0, <2>1, <2>2, Zenon DEF MapStep
  <2>. QED
    BY <2>3 DEF w
<1>. QED
  BY <1>1, <1>2, <1>3, <1>4, <1>5, <1>6

(* The empty cache has the types and the invariant.                        *)
LEMMA CacheInitially ==
    ASSUME Cache!CacheAssumption, Cache!Init
    PROVE  Cache!TypeOK /\ Cache!CacheInv
<1>1. Cache!TypeOK
  BY DEF Cache!Init, Cache!TypeOK, Cache!CacheAssumption, Cache!Versions,
         Cache!Unknown
<1>2. Cache!CacheInv
  BY DEF Cache!Init, Cache!CacheInv, Cache!InvalidatedIsGone,
         Cache!CacheAssumption, Cache!Unknown
<1>. QED
  BY <1>1, <1>2

(* Every step of the cache keeps the types.                                *)
LEMMA CacheTypeStep ==
    ASSUME Cache!CacheAssumption, Cache!TypeOK, Cache!Next
    PROVE  Cache!TypeOK'
<1>0. /\ database \in [Keys -> Cache!Versions]
      /\ now \in 0 .. MaxTime /\ MaxTime \in Nat /\ Ttl \in Nat
      /\ MaxVersion \in Nat
      /\ key \in [Tasks -> Keys \cup {NoKey}]
      /\ value \in [Tasks -> Cache!Versions \cup {Cache!Unknown}]
      /\ invalidated \in [Keys -> Cache!Versions]
  BY DEF Cache!TypeOK, Cache!CacheAssumption
<1>. DEFINE MapOK == \E New : MapStep(map', New)
            RestOK == /\ database' \in [Keys -> Cache!Versions]
                      /\ now' \in 0 .. MaxTime
                      /\ key' \in [Tasks -> Keys \cup {NoKey}]
                      /\ value' \in
                            [Tasks -> Cache!Versions \cup {Cache!Unknown}]
                      /\ invalidated' \in [Keys -> Cache!Versions]
<1>1. ASSUME MapOK, RestOK
      PROVE  Cache!TypeOK'
  <2>1. /\ map' \in Seq(Cache!Entries) /\ UniqueKeys(map')
        /\ Len(map') <= MaxSize \/ Len(map') <= 1
    BY <1>1 DEF MapStep
  <2>. QED
    BY <1>1, <2>1, Zenon DEF UniqueKeys, Cache!TypeOK, Cache!Entries,
       Cache!Unknown, Cache!Versions
<1>2. ASSUME map' = map
      PROVE  MapOK
  BY <1>2, CacheMapSteps
<1>3. ASSUME NEW ks \in SUBSET Keys, Cache!Removed(ks)
      PROVE  invalidated' \in [Keys -> Cache!Versions]
  BY <1>0, <1>3 DEF Cache!Removed
<1>4. ASSUME NEW t \in Tasks, NEW k \in Keys, Cache!Miss(t, k)
      PROVE  MapOK /\ RestOK
  BY <1>0, <1>4, CacheMapSteps DEF Cache!Miss
<1>5. ASSUME NEW t \in Tasks, Cache!Hit(t)
      PROVE  MapOK /\ RestOK
  BY <1>0, <1>5, CacheMapSteps DEF Cache!Hit, Cache!calls
<1>6. ASSUME NEW t \in Tasks, Cache!Compute(t)
      PROVE  MapOK /\ RestOK
  <2>1. key[t] \in Keys
    BY <1>0, <1>6 DEF Cache!Compute, Cache!Idle
  <2>. QED
    BY <1>0, <1>2, <1>6, <2>1 DEF Cache!Compute
<1>7. ASSUME NEW t \in Tasks, Cache!ComputeFails(t)
      PROVE  MapOK /\ RestOK
  BY <1>0, <1>2, <1>7 DEF Cache!ComputeFails, Cache!Return
<1>8. ASSUME NEW t \in Tasks, Cache!Set(t)
      PROVE  MapOK /\ RestOK
  <2>. DEFINE e == [key |-> key[t], value |-> value[t], expiresAt |-> now + Ttl]
  <2>1. e \in Cache!Entries
    BY <1>0, <1>8 DEF Cache!Set, Cache!Idle, Cache!Entries
  <2>2. \/ /\ e.key \notin Cache!Cached
           /\ map' = Append(Cache!Evict, e)
        \/ map' = Overwritten(e)
    BY <1>8, Zenon DEF Cache!Set, Overwritten
  <2>. HIDE DEF e
  <2>3. MapOK
    BY <2>1, <2>2, CacheMapSteps
  <2>4. RestOK
    BY <1>0, <1>8 DEF Cache!Set, Cache!Return
  <2>. QED
    BY <2>3, <2>4
<1>9. ASSUME NEW k \in Keys, Cache!Invalidate(k)
      PROVE  MapOK /\ RestOK
  BY <1>0, <1>3, <1>9, CacheMapSteps DEF Cache!Invalidate, Cache!calls
<1>10. ASSUME NEW k \in Keys, Cache!Write(k)
       PROVE  MapOK /\ RestOK
  <2>1. database' \in [Keys -> Cache!Versions]
    BY <1>0, <1>10 DEF Cache!Write, Cache!Versions
  <2>. QED
    BY <1>0, <1>2, <1>10, <2>1 DEF Cache!Write, Cache!calls
<1>11. ASSUME Cache!Clear
       PROVE  MapOK /\ RestOK
  BY <1>0, <1>3, <1>11, CacheMapSteps DEF Cache!Clear, Cache!calls
<1>12. ASSUME Cache!Tick
       PROVE  MapOK /\ RestOK
  BY <1>0, <1>2, <1>12 DEF Cache!Tick, Cache!calls
<1>. HIDE DEF MapOK, RestOK
<1>13. MapOK /\ RestOK
  BY <1>4, <1>5, <1>6, <1>7, <1>8, <1>9, <1>10, <1>11, <1>12
     DEF Cache!Next
<1>. QED
  BY <1>1, <1>13

(* Every step of the cache keeps the invariant.  What a task computes is   *)
(* read after the last removal that counts; removals count when nobody     *)
(* computes the key, and take every entry of it.                           *)
LEMMA CacheInvStep ==
    ASSUME Cache!CacheAssumption, Cache!TypeOK, Cache!CacheInv, Cache!Next
    PROVE  Cache!CacheInv'
<1>0. /\ database \in [Keys -> Nat] /\ invalidated \in [Keys -> Nat]
      /\ key \in [Tasks -> Keys \cup {NoKey}] /\ NoKey \notin Keys
      /\ value \in [Tasks -> Nat]
      /\ \A i \in DOMAIN map : map[i].key \in Keys /\ map[i].value \in Nat
      /\ Cache!Unknown \in Nat
      /\ \A k \in Keys : database[k] # Cache!Unknown
  <2>1. MaxVersion \in Nat
    BY DEF Cache!CacheAssumption
  <2>2. \A i \in DOMAIN map : map[i] \in Cache!Entries
    BY DEF Cache!TypeOK
  <2>. QED
    BY <2>1, <2>2 DEF Cache!TypeOK, Cache!CacheAssumption, Cache!Unknown,
       Cache!Versions, Cache!Entries
<1>1. /\ \A i \in DOMAIN map : map[i].value >= invalidated[map[i].key]
      /\ \A k \in Keys : invalidated[k] <= database[k]
      /\ \A t \in Tasks : value[t] # Cache!Unknown =>
            key[t] \in Keys /\ value[t] >= invalidated[key[t]]
  BY <1>0 DEF Cache!CacheInv, Cache!InvalidatedIsGone
<1>. DEFINE FromMap == \A j \in DOMAIN map' :
                          \E i \in DOMAIN map : map'[j] = map[i]
<1>2. ASSUME map' = map
      PROVE  FromMap
  BY <1>2, Zenon
<1>3. ASSUME MapStep(map', {})
      PROVE  FromMap
  BY <1>3, Zenon DEF MapStep
<1>4. ASSUME FromMap, UNCHANGED invalidated
      PROVE  Cache!InvalidatedIsGone'
  BY <1>1, <1>4 DEF Cache!InvalidatedIsGone
<1>5. ASSUME NEW ks \in SUBSET Keys, Cache!Removed(ks), FromMap,
             \A j \in DOMAIN map' : map'[j].key \notin ks,
             UNCHANGED <<database, key, value>>
      PROVE  Cache!CacheInv'
  <2>1. \A k \in Keys :
          \/ invalidated'[k] = invalidated[k]
          \/ /\ k \in ks /\ invalidated'[k] = database[k]
             /\ \A t \in Tasks : key[t] # k
    BY <1>5 DEF Cache!Removed
  <2>2. Cache!InvalidatedIsGone'
    BY <1>0, <1>1, <1>5, <2>1 DEF Cache!InvalidatedIsGone
  <2>3. \A k \in Keys : invalidated'[k] <= database'[k]
    BY <1>0, <1>1, <1>5, <2>1
  <2>4. \A t \in Tasks : value'[t] # Cache!Unknown =>
          key'[t] # NoKey /\ value'[t] >= invalidated'[key'[t]]
    BY <1>0, <1>1, <1>5, <2>1
  <2>. QED
    BY <2>2, <2>3, <2>4 DEF Cache!CacheInv, Cache!Unknown
<1>. HIDE DEF FromMap
<1>6. ASSUME Cache!InvalidatedIsGone', UNCHANGED <<database, invalidated>>,
             \A t \in Tasks : value'[t] # Cache!Unknown =>
                key'[t] # NoKey /\ value'[t] >= invalidated[key'[t]]
      PROVE  Cache!CacheInv'
  BY <1>1, <1>6 DEF Cache!CacheInv, Cache!Unknown
<1>7. ASSUME NEW t \in Tasks, NEW k \in Keys, Cache!Miss(t, k)
      PROVE  Cache!CacheInv'
  <2>1. MapStep(map', {})
    BY <1>7, CacheMapSteps DEF Cache!Miss
  <2>2. Cache!InvalidatedIsGone'
    BY <1>3, <1>4, <1>7, <2>1 DEF Cache!Miss
  <2>3. value[t] = Cache!Unknown
    BY <1>0, <1>1, <1>7 DEF Cache!Miss, Cache!Idle
  <2>4. \A u \in Tasks : value'[u] # Cache!Unknown =>
          key'[u] # NoKey /\ value'[u] >= invalidated[key'[u]]
    BY <1>0, <1>1, <1>7, <2>3 DEF Cache!Miss
  <2>. QED
    BY <1>6, <1>7, <2>2, <2>4 DEF Cache!Miss
<1>8. ASSUME NEW t \in Tasks, Cache!Hit(t)
      PROVE  Cache!CacheInv'
  <2>1. MapStep(map', {})
    BY <1>8, CacheMapSteps DEF Cache!Hit
  <2>. QED
    BY <1>0, <1>1, <1>3, <1>4, <1>6, <1>8, <2>1 DEF Cache!Hit, Cache!calls
<1>9. ASSUME NEW t \in Tasks, Cache!Compute(t)
      PROVE  Cache!CacheInv'
  <2>1. key[t] \in Keys
    BY <1>0, <1>9 DEF Cache!Compute, Cache!Idle
  <2>2. \A u \in Tasks : value'[u] # Cache!Unknown =>
          key'[u] # NoKey /\ value'[u] >= invalidated[key'[u]]
    BY <1>0, <1>1, <1>9, <2>1 DEF Cache!Compute
  <2>. QED
    BY <1>2, <1>4, <1>6, <1>9, <2>2 DEF Cache!Compute
<1>10. ASSUME NEW t \in Tasks, Cache!ComputeFails(t)
       PROVE  Cache!CacheInv'
  <2>1. \A u \in Tasks : value'[u] # Cache!Unknown =>
          key'[u] # NoKey /\ value'[u] >= invalidated[key'[u]]
    BY <1>0, <1>1, <1>10 DEF Cache!ComputeFails, Cache!Return
  <2>. QED
    BY <1>2, <1>4, <1>6, <1>10, <2>1 DEF Cache!ComputeFails
<1>11. ASSUME NEW t \in Tasks, Cache!Set(t)
       PROVE  Cache!CacheInv'
  <2>. DEFINE e == [key |-> key[t], value |-> value[t], expiresAt |-> now + Ttl]
  <2>1. \/ /\ e.key \notin Cache!Cached
           /\ map' = Append(Cache!Evict, e)
        \/ map' = Overwritten(e)
    BY <1>11, Zenon DEF Cache!Set, Overwritten
  <2>2. e \in Cache!Entries
    BY <1>0, <1>11 DEF Cache!Set, Cache!Idle, Cache!Entries, Cache!TypeOK,
       Cache!CacheAssumption
  <2>3. e.value >= invalidated[e.key]
    BY <1>1, <1>11 DEF Cache!Set
  <2>. HIDE DEF e
  <2>4. MapStep(map', {e})
    BY <2>1, <2>2, CacheMapSteps
  <2>5. Cache!InvalidatedIsGone'
    <3>1. \A j \in DOMAIN map' :
            map'[j] = e \/ \E i \in DOMAIN map : map'[j] = map[i]
      BY <2>4 DEF MapStep
    <3>2. UNCHANGED invalidated
      BY <1>11 DEF Cache!Set
    <3>. QED
      BY <1>1, <2>3, <3>1, <3>2 DEF Cache!InvalidatedIsGone
  <2>6. \A u \in Tasks : value'[u] # Cache!Unknown =>
          key'[u] # NoKey /\ value'[u] >= invalidated[key'[u]]
    BY <1>0, <1>1, <1>11 DEF Cache!Set, Cache!Return
  <2>. QED
    BY <1>6, <1>11, <2>5, <2>6 DEF Cache!Set
<1>12. ASSUME NEW k \in Keys, Cache!Invalidate(k)
       PROVE  Cache!CacheInv'
  <2>1. LacksKey(map', k)
    BY <1>12, CacheWithout DEF Cache!Invalidate, Cache!TypeOK, UniqueKeys
  <2>2. FromMap /\ \A j \in DOMAIN map' : map'[j].key \notin {k}
    BY <2>1, Zenon DEF LacksKey, FromMap
  <2>. QED
    BY <1>5, <1>12, <2>2 DEF Cache!Invalidate, Cache!calls
<1>13. ASSUME NEW k \in Keys, Cache!Write(k)
       PROVE  Cache!CacheInv'
  <2>1. Cache!InvalidatedIsGone'
    BY <1>2, <1>4, <1>13 DEF Cache!Write
  <2>2. \A j \in Keys : invalidated'[j] <= database'[j]
    BY <1>0, <1>1, <1>13 DEF Cache!Write
  <2>. QED
    BY <1>0, <1>1, <1>13, <2>1, <2>2 DEF Cache!Write, Cache!CacheInv,
       Cache!calls, Cache!Unknown
<1>14. ASSUME Cache!Clear
       PROVE  Cache!CacheInv'
  <2>1. FromMap /\ \A j \in DOMAIN map' : map'[j].key \notin Keys
    BY <1>14 DEF Cache!Clear, FromMap
  <2>. QED
    BY <1>5, <1>14, <2>1 DEF Cache!Clear, Cache!calls
<1>15. ASSUME Cache!Tick
       PROVE  Cache!CacheInv'
  BY <1>0, <1>1, <1>2, <1>4, <1>6, <1>15 DEF Cache!Tick, Cache!calls
<1>. QED
  BY <1>7, <1>8, <1>9, <1>10, <1>11, <1>12, <1>13, <1>14, <1>15
     DEF Cache!Next

(* The cache's invariant, for any tasks, keys, sizes and times.            *)
THEOREM CacheInvariant == Spec => [](Cache!TypeOK /\ Cache!CacheInv)
<1>. USE ObjectsAssumption
<1>1. Init => Cache!TypeOK /\ Cache!CacheInv
  BY CacheInitially DEF Init
<1>2. Cache!TypeOK /\ Cache!CacheInv /\ [Next]_vars
        => (Cache!TypeOK /\ Cache!CacheInv)'
  <2>. SUFFICES ASSUME Cache!TypeOK, Cache!CacheInv, [Next]_vars
                PROVE  (Cache!TypeOK /\ Cache!CacheInv)'
    OBVIOUS
  <2>1. CASE used = "cache" /\ Cache!Next
    BY <2>1, CacheTypeStep, CacheInvStep
  <2>2. CASE UNCHANGED cacheVars
    BY <2>2, Zenon DEF cacheVars, Cache!TypeOK, Cache!CacheInv,
       Cache!InvalidatedIsGone
  <2>. QED
    BY <2>1, <2>2 DEF Next, vars
<1>. QED
  BY <1>1, <1>2, PTL DEF Spec

(* What was removed from the cache on request while nobody computed it     *)
(* never comes back.                                                       *)
THEOREM InvalidatedStaysGone == Spec => []InvalidatedIsGone
<1>1. Cache!TypeOK /\ Cache!CacheInv => InvalidatedIsGone
  BY DEF InvalidatedIsGone, Cache!CacheInv
<1>. QED
  BY <1>1, CacheInvariant, PTL

---------------------------------------------------------------------------
(* The live queries.                                                       *)

(* Forgetting a query leaves the others in the manager's Map.              *)
LEMMA LiveWithout ==
    ASSUME NEW S, queries \in Seq(S), NEW q
    PROVE  /\ Live!Without(q) \in Seq(S)
           /\ \A j \in DOMAIN Live!Without(q) :
                Live!Without(q)[j] \in Live!Listed
           /\ named => \A x \in Live!Listed :
                x # q => \E j \in DOMAIN Live!Without(q) :
                            Live!Without(q)[j] = x
           /\ ~named => Len(Live!Without(q)) <= 1
<1>. DEFINE I == {i \in 1 .. Len(queries) : queries[i] = q}
<1>0. /\ DOMAIN queries = 1 .. Len(queries) /\ Len(queries) \in Nat
      /\ Live!Listed = {queries[i] : i \in 1 .. Len(queries)}
  BY DEF Live!Listed
<1>1. CASE named /\ I = {}
  <2>1. Live!Without(q) = queries
    BY <1>1 DEF Live!Without, Live!RemoveFirst
  <2>2. /\ \A j \in DOMAIN queries : queries[j] \in Live!Listed
        /\ \A x \in Live!Listed : \E j \in DOMAIN queries : queries[j] = x
    BY Zenon DEF Live!Listed
  <2>. QED
    BY <1>1, <2>1, <2>2, Zenon
<1>2. CASE named /\ I # {}
  <2>. DEFINE i == CHOOSE n \in I : \A m \in I : n <= m
              w == Cut(queries, i)
  <2>1. i \in I
    <3>1. I \in SUBSET Nat
      BY <1>0
    <3>. HIDE DEF I
    <3>. QED
      BY <1>2, <3>1, LeastIsOne
  <2>2. Live!Without(q) = w
    BY <1>2 DEF Live!Without, Live!RemoveFirst, Live!SelectInSeq,
                Live!RemoveAt, Live!Min, Cut
  <2>. HIDE DEF i
  <2>3. i \in 1 .. Len(queries) /\ queries[i] = q
    BY <2>1
  <2>4. /\ w \in Seq(S) /\ Len(w) = Len(queries) - 1
        /\ \A j \in 1 .. Len(queries) - 1 :
             /\ Shifted(j, i) \in 1 .. Len(queries) /\ Shifted(j, i) # i
             /\ w[j] = queries[Shifted(j, i)]
        /\ \A m \in 1 .. Len(queries) :
             m # i => \E j \in 1 .. Len(queries) - 1 : w[j] = queries[m]
    BY <2>3, RemovedAt
  <2>. HIDE DEF w
  <2>5. DOMAIN w = 1 .. Len(queries) - 1
    BY <2>4
  <2>6. \A j \in DOMAIN w : w[j] \in Live!Listed
    BY <1>0, <2>4, <2>5
  <2>7. \A x \in Live!Listed : x # q => \E j \in DOMAIN w : w[j] = x
    <3>. SUFFICES ASSUME NEW x \in Live!Listed, x # q
                  PROVE  \E j \in DOMAIN w : w[j] = x
      OBVIOUS
    <3>1. PICK m \in 1 .. Len(queries) : queries[m] = x
      BY <1>0
    <3>2. m # i
      BY <2>3, <3>1
    <3>. QED
      BY <2>4, <2>5, <3>1, <3>2
  <2>. QED
    BY <1>2, <2>2, <2>4, <2>6, <2>7
<1>3. CASE ~named
  <2>1. Live!Without(q) = <<>>
    BY <1>3 DEF Live!Without
  <2>. QED
    BY <1>3, <2>1
<1>. QED
  BY <1>1, <1>2, <1>3

(* Of the initial state of the live queries.                               *)
LEMMA LiveInitially ==
    ASSUME Live!LiveAssumption, Live!Init
    PROVE  Live!TypeOK /\ Live!LiveInv
<1>1. Live!TypeOK
  BY DEF Live!Init, Live!TypeOK, Live!LiveAssumption, Live!Locations
<1>2. Live!LiveInv
  BY DEF Live!Init, Live!LiveInv, Live!Assigned, Live!Unshared,
         Live!Pending, Live!NewInFlight, Live!KnownExist,
         Live!RunningKept, Live!NoneStopped, Live!InFlight, Live!Known,
         Live!Killing, Live!Left, Live!Listed
<1>. QED
  BY <1>1, <1>2

(* Every step of the live queries keeps the types.                         *)
LEMMA LiveTypeStep ==
    ASSUME Live!LiveAssumption, Live!TypeOK, Live!LiveInv, Live!Next
    PROVE  Live!TypeOK'
<1>0. /\ named \in BOOLEAN
      /\ server \subseteq 1 .. created /\ lost \subseteq 1 .. created
      /\ MaxQueries \in Nat /\ created \in 0 .. MaxQueries
      /\ queries \in Seq(1 .. created)
      /\ active \in [Live!Ids -> BOOLEAN]
      /\ subscribed \in [Live!Ids -> BOOLEAN]
      /\ event \in 0 .. created
      /\ fate \in {"none", "sent", "notified", "dropped"}
      /\ livePc \in [Tasks -> Live!Locations]
      /\ query \in [Tasks -> 0 .. MaxQueries]
      /\ via \in [Tasks -> {"handle", "kill", "killAll"}]
      /\ liveRest \in [Tasks -> Seq(Live!Ids)]
      /\ MaxFaults \in Nat /\ faults \in 0 .. MaxFaults
  BY DEF Live!TypeOK, Live!LiveAssumption
<1>. USE DEF Live!handles, Live!events, Live!calls, Live!losses, Live!Goto
<1>1. ASSUME NEW t \in Tasks, Live!Live(t)
      PROVE  Live!TypeOK'
  BY <1>0, <1>1 DEF Live!Live, Live!TypeOK, Live!Locations, Live!Ids
<1>2. ASSUME NEW t \in Tasks, Live!ServerCreates(t)
      PROVE  Live!TypeOK'
  <2>1. queries \in Seq(1 .. created + 1)
    BY <1>0, SeqMonotonic
  <2>2. livePc' \in [Tasks -> Live!Locations]
        /\ query' \in [Tasks -> 0 .. MaxQueries]
    BY <1>0, <1>2 DEF Live!ServerCreates, Live!Locations
  <2>3. /\ created' \in 0 .. MaxQueries
        /\ server' \subseteq 1 .. created' /\ lost' \subseteq 1 .. created'
        /\ queries' \in Seq(1 .. created') /\ event' \in 0 .. created'
    BY <1>0, <1>2, <2>1 DEF Live!ServerCreates
  <2>4. UNCHANGED <<named, active, subscribed, fate, via, liveRest, faults>>
    BY <1>2 DEF Live!ServerCreates
  <2>. HIDE DEF Live!handles, Live!events, Live!calls, Live!losses, Live!Goto
  <2>. QED
    BY <1>0, <2>2, <2>3, <2>4, Zenon DEF Live!TypeOK, Live!Ids
<1>3. ASSUME NEW t \in Tasks, Live!LiveFails(t)
      PROVE  Live!TypeOK'
  <2>1. livePc[t] = "created" => query[t] \in 1 .. created
    BY DEF Live!LiveInv, Live!Assigned
  <2>2. lost' \subseteq 1 .. created
    BY <1>0, <1>3, <2>1 DEF Live!LiveFails
  <2>3. /\ livePc' \in [Tasks -> Live!Locations]
        /\ query' \in [Tasks -> 0 .. MaxQueries]
        /\ faults' \in 0 .. MaxFaults
    BY <1>0, <1>3 DEF Live!LiveFails, Live!Fault, Live!Locations
  <2>4. UNCHANGED <<named, server, created, queries, active, subscribed,
                    event, fate, via, liveRest>>
    BY <1>3 DEF Live!LiveFails
  <2>. HIDE DEF Live!handles, Live!events, Live!calls, Live!losses, Live!Goto
  <2>. QED
    BY <1>0, <2>2, <2>3, <2>4, Zenon DEF Live!TypeOK, Live!Ids
<1>4. ASSUME NEW t \in Tasks, Live!Enter(t)
      PROVE  Live!TypeOK'
  <2>1. query[t] \in 1 .. created
    BY <1>4 DEF Live!Enter, Live!LiveInv, Live!Assigned
  <2>2. queries' \in Seq(1 .. created)
    <3>. DEFINE q == query[t]
    <3>1. q \in 1 .. created
      BY <2>1
    <3>2. \/ queries' = Append(queries, q)
          \/ queries' = <<q>>
      BY <1>4 DEF Live!Enter, Live!With
    <3>. HIDE DEF q
    <3>3. Append(queries, q) \in Seq(1 .. created)
      BY <1>0, <3>1
    <3>4. <<q>> \in Seq(1 .. created)
      <4>. DEFINE S == 1 .. created
      <4>1. q \in S
        BY <3>1
      <4>. HIDE DEF S
      <4>2. <<q>> \in Seq(S)
        BY <4>1
      <4>. QED
        BY <4>2 DEF S
    <3>. QED
      BY <3>2, <3>3, <3>4
  <2>3. /\ active' \in [Live!Ids -> BOOLEAN]
        /\ livePc' \in [Tasks -> Live!Locations]
        /\ query' \in [Tasks -> 0 .. MaxQueries]
    <3>1. /\ active' = [active EXCEPT ![query[t]] = TRUE]
          /\ livePc' = [livePc EXCEPT ![t] = "idle"]
          /\ query' = [query EXCEPT ![t] = 0]
      BY <1>4 DEF Live!Enter
    <3>2. active' \in [Live!Ids -> BOOLEAN]
      BY <1>0, <3>1
    <3>3. livePc' \in [Tasks -> Live!Locations]
      BY <1>0, <3>1 DEF Live!Locations
    <3>4. query' \in [Tasks -> 0 .. MaxQueries]
      BY <1>0, <3>1
    <3>. QED
      BY <3>2, <3>3, <3>4
  <2>4. UNCHANGED <<named, server, created, subscribed, event, fate, via,
                    liveRest, faults, lost>>
    BY <1>4 DEF Live!Enter
  <2>. HIDE DEF Live!handles, Live!events, Live!calls, Live!losses, Live!Goto
  <2>. QED
    BY <1>0, <2>2, <2>3, <2>4, Zenon DEF Live!TypeOK, Live!Ids
<1>5. ASSUME NEW q \in Live!Ids, Live!Subscribe(q) \/ Live!Unsubscribe(q)
      PROVE  Live!TypeOK'
  BY <1>0, <1>5 DEF Live!Subscribe, Live!Unsubscribe, Live!TypeOK, Live!Ids
<1>6. ASSUME NEW t \in Tasks, Live!Kill(t)
      PROVE  Live!TypeOK'
  <2>1. Live!Listed \subseteq 1 .. created
    BY <1>0 DEF Live!Listed
  <2>2. PICK q \in 1 .. created, by \in {"handle", "kill"} :
          Live!StartKill(t, q, by)
    BY <1>6, <2>1 DEF Live!Kill
  <2>3. /\ livePc' \in [Tasks -> Live!Locations]
        /\ query' \in [Tasks -> 0 .. MaxQueries]
        /\ via' \in [Tasks -> {"handle", "kill", "killAll"}]
    BY <1>0, <2>2 DEF Live!StartKill, Live!Locations
  <2>. QED
    BY <1>0, <1>6, <2>3 DEF Live!Kill, Live!TypeOK, Live!Ids
<1>7. ASSUME NEW t \in Tasks, Live!KillAll(t)
      PROVE  Live!TypeOK'
  <2>1. queries \in Seq(Live!Ids)
    BY <1>0, SeqMonotonic DEF Live!Ids
  <2>. QED
    BY <1>0, <1>7, <2>1 DEF Live!KillAll, Live!TypeOK, Live!Locations,
       Live!Ids
<1>8. ASSUME NEW t \in Tasks, Live!KillNext(t)
      PROVE  Live!TypeOK'
  <2>1. Head(liveRest[t]) \in Live!Ids
    BY <1>0, <1>8 DEF Live!KillNext
  <2>. QED
    BY <1>0, <1>8, <2>1 DEF Live!KillNext, Live!StartKill, Live!TypeOK,
       Live!Locations, Live!Ids
<1>9. ASSUME NEW t \in Tasks, Live!KillAllReturns(t)
      PROVE  Live!TypeOK'
  BY <1>0, <1>9 DEF Live!KillAllReturns, Live!TypeOK, Live!Locations,
     Live!Ids
<1>10. ASSUME NEW t \in Tasks, Live!ServerKills(t)
       PROVE  Live!TypeOK'
  BY <1>0, <1>10 DEF Live!ServerKills, Live!Stopped, Live!TypeOK,
     Live!Locations, Live!Ids
<1>11. ASSUME NEW t \in Tasks, Live!KillFails(t)
       PROVE  Live!TypeOK'
  <2>1. query[t] \in 1 .. created
    BY <1>11 DEF Live!KillFails, Live!LiveInv, Live!Assigned, Live!Killing
  <2>2. server' \subseteq 1 .. created /\ lost' \subseteq 1 .. created
    BY <1>0, <1>11, <2>1 DEF Live!KillFails, Live!Stopped
  <2>3. /\ livePc' \in [Tasks -> Live!Locations]
        /\ faults' \in 0 .. MaxFaults
    BY <1>0, <1>11 DEF Live!KillFails, Live!Fault, Live!Locations
  <2>4. UNCHANGED <<named, created, queries, active, subscribed, event, fate,
                    query, via, liveRest>>
    BY <1>11 DEF Live!KillFails
  <2>. HIDE DEF Live!handles, Live!events, Live!calls, Live!losses, Live!Goto
  <2>. QED
    BY <1>0, <2>2, <2>3, <2>4, Zenon DEF Live!TypeOK, Live!Ids
<1>12. ASSUME NEW t \in Tasks, Live!Killed(t)
       PROVE  Live!TypeOK'
  <2>1. queries' \in Seq(1 .. created)
    BY <1>0, <1>12, LiveWithout DEF Live!Killed
  <2>2. liveRest' \in [Tasks -> Seq(Live!Ids)]
    <3>1. via[t] = "killAll" => liveRest[t] # <<>>
      BY <1>12 DEF Live!Killed, Live!LiveInv, Live!Pending, Live!Killing
    <3>2. via[t] = "killAll" => Tail(liveRest[t]) \in Seq(Live!Ids)
      BY <1>0, <3>1
    <3>3. \/ liveRest' = liveRest
          \/ /\ via[t] = "killAll"
             /\ liveRest' = [liveRest EXCEPT ![t] = Tail(liveRest[t])]
      BY <1>12 DEF Live!Killed
    <3>. QED
      BY <1>0, <3>2, <3>3
  <2>3. livePc' \in [Tasks -> Live!Locations]
    BY <1>0, <1>12 DEF Live!Killed, Live!Locations
  <2>. HIDE DEF Live!calls, Live!Goto
  <2>4. /\ active' \in [Live!Ids -> BOOLEAN]
        /\ subscribed' \in [Live!Ids -> BOOLEAN]
        /\ query' \in [Tasks -> 0 .. MaxQueries]
    <3>1. active' = [active EXCEPT ![query[t]] = FALSE]
      BY <1>12 DEF Live!Killed
    <3>2. subscribed' = [subscribed EXCEPT ![query[t]] = FALSE]
      BY <1>12 DEF Live!Killed
    <3>3. query' = [query EXCEPT ![t] = 0]
      BY <1>12 DEF Live!Killed
    <3>4. active' \in [Live!Ids -> BOOLEAN]
      BY <1>0, <3>1
    <3>5. subscribed' \in [Live!Ids -> BOOLEAN]
      BY <1>0, <3>2
    <3>6. query' \in [Tasks -> 0 .. MaxQueries]
      BY <1>0, <3>3
    <3>. QED
      BY <3>4, <3>5, <3>6
  <2>. QED
    BY <1>0, <1>12, <2>1, <2>2, <2>3, <2>4 DEF Live!Killed, Live!TypeOK,
       Live!Ids
<1>13. ASSUME Live!ServerSends \/ Live!Dispatch
       PROVE  Live!TypeOK'
  <2>1. event' \in 0 .. created
    <3>1. CASE event' \in {q \in server : subscribed[q]}
      <4>1. event' \in server
        BY <3>1, Zenon
      <4>. QED
        BY <1>0, <4>1
    <3>. QED
      BY <1>0, <1>13, <3>1 DEF Live!ServerSends, Live!Dispatch
  <2>2. fate' \in {"none", "sent", "notified", "dropped"}
    BY <1>13 DEF Live!ServerSends, Live!Dispatch
  <2>. QED
    BY <1>0, <1>13, <2>1, <2>2 DEF Live!ServerSends, Live!Dispatch,
       Live!TypeOK, Live!Ids
<1>. QED
  BY <1>1, <1>2, <1>3, <1>4, <1>5, <1>6, <1>7, <1>8, <1>9, <1>10, <1>11,
     <1>12, <1>13, Zenon DEF Live!Next, Live!Continue

(* The tasks other than t are where they were.                             *)
OthersStay(t) ==
    \A u \in Tasks : u # t =>
        /\ livePc'[u] = livePc[u] /\ query'[u] = query[u]
        /\ via'[u] = via[u] /\ liveRest'[u] = liveRest[u]

(* Of the queries that no failure was about none comes to run, and the one *)
(* that t was told of, or has killed, does not.                            *)
Settled(t) ==
    /\ server' \ lost' \subseteq server \ lost
    /\ livePc[t] = "created" => query[t] \notin server' \ lost'
    /\ livePc'[t] \in {"killed", "failed"} => query'[t] \notin server' \ lost'

(* A step of a task that enters no query and asks for none: what it knows  *)
(* of afterwards was known before.                                         *)
LEMMA LiveMove ==
    ASSUME Live!TypeOK, Live!LiveInv, NEW t \in Tasks, OthersStay(t),
           created' = created, livePc'[t] # "created",
           Live!Killing(t)' => query'[t] \in 1 .. created
                               /\ Live!Known(query'[t]),
           Live!Killing(t)' /\ via'[t] = "killAll" => liveRest'[t] # <<>>,
           \A x \in Live!Left(t)' : Live!Known(x),
           \A x \in Live!Ids : x \in Live!Listed' \/ active'[x]
                                    => Live!Known(x)
    PROVE  /\ Live!Assigned' /\ Live!Unshared' /\ Live!Pending'
           /\ Live!NewInFlight' /\ Live!KnownExist'
           /\ \A x \in Live!Ids :
                /\ Live!InFlight(x)
                /\ livePc[t] = "created" => x # query[t]
                => Live!InFlight(x)'
<1>0. /\ Live!Assigned /\ Live!Unshared /\ Live!Pending
      /\ Live!NewInFlight /\ Live!KnownExist
  BY DEF Live!LiveInv
<1>1. \A u \in Tasks : u # t =>
        /\ livePc'[u] = livePc[u] /\ query'[u] = query[u]
        /\ via'[u] = via[u] /\ liveRest'[u] = liveRest[u]
        /\ Live!Killing(u)' <=> Live!Killing(u)
        /\ Live!Left(u)' = Live!Left(u)
  BY DEF OthersStay, Live!Killing, Live!Left
<1>2. \A x \in Live!Ids : Live!Known(x)' => Live!Known(x)
  BY <1>1 DEF Live!Known
<1>3. \A x \in Live!Ids : Live!InFlight(x)' => Live!InFlight(x)
  BY <1>1 DEF Live!InFlight
<1>4. Live!Assigned'
  BY <1>0, <1>1 DEF Live!Assigned
<1>5. Live!Unshared'
  BY <1>0, <1>1 DEF Live!Unshared
<1>6. Live!Pending'
  BY <1>0, <1>1 DEF Live!Pending
<1>7. Live!NewInFlight'
  BY <1>0, <1>2, <1>3 DEF Live!NewInFlight, Live!Ids
<1>8. Live!KnownExist'
  BY <1>0, <1>2 DEF Live!KnownExist, Live!Ids
<1>9. \A x \in Live!Ids :
        /\ Live!InFlight(x)
        /\ livePc[t] = "created" => x # query[t]
        => Live!InFlight(x)'
  BY <1>1 DEF Live!InFlight
<1>. QED
  BY <1>4, <1>5, <1>6, <1>7, <1>8, <1>9

(* The invariant is about the variables below.                             *)
LEMMA LiveStutter ==
    ASSUME Live!LiveInv,
           UNCHANGED <<named, server, created, queries, active, livePc, query,
                       via, liveRest, lost>>
    PROVE  Live!LiveInv'
<1>1. \A t \in Tasks : /\ Live!Killing(t)' <=> Live!Killing(t)
                       /\ Live!Left(t)' = Live!Left(t)
  BY DEF Live!Killing, Live!Left
<1>2. Live!Listed' = Live!Listed
  BY DEF Live!Listed
<1>3. \A q : /\ Live!InFlight(q)' <=> Live!InFlight(q)
             /\ Live!Known(q)' <=> Live!Known(q)
  BY <1>1, <1>2 DEF Live!InFlight, Live!Known
<1>4. Live!Assigned' /\ Live!Unshared' /\ Live!Pending'
  BY <1>1 DEF Live!LiveInv, Live!Assigned, Live!Unshared, Live!Pending
<1>5. Live!NewInFlight' /\ Live!KnownExist'
  BY <1>3 DEF Live!LiveInv, Live!NewInFlight, Live!KnownExist, Live!Ids
<1>6. Live!RunningKept' /\ Live!NoneStopped'
  BY <1>2, <1>3 DEF Live!LiveInv, Live!RunningKept, Live!NoneStopped
<1>. QED
  BY <1>4, <1>5, <1>6 DEF Live!LiveInv

(* Every step of the live queries keeps the invariant.                     *)
LEMMA LiveInvStep ==
    ASSUME Live!LiveAssumption, Live!TypeOK, Live!LiveInv, Live!Next
    PROVE  Live!LiveInv'
<1>0. /\ named \in BOOLEAN
      /\ server \subseteq 1 .. created
      /\ MaxQueries \in Nat /\ created \in 0 .. MaxQueries
      /\ queries \in Seq(1 .. created)
      /\ active \in [Live!Ids -> BOOLEAN]
      /\ livePc \in [Tasks -> Live!Locations]
      /\ query \in [Tasks -> 0 .. MaxQueries]
      /\ via \in [Tasks -> {"handle", "kill", "killAll"}]
      /\ liveRest \in [Tasks -> Seq(Live!Ids)]
      /\ 1 .. created \subseteq Live!Ids
      /\ Live!Listed \subseteq 1 .. created
  BY DEF Live!TypeOK, Live!LiveAssumption, Live!Ids, Live!Listed
<1>1. /\ Live!Assigned /\ Live!Unshared /\ Live!Pending
      /\ Live!NewInFlight /\ Live!KnownExist /\ Live!RunningKept
      /\ Live!NoneStopped
  BY DEF Live!LiveInv
<1>2. /\ \A x \in Live!Ids : x \in Live!Listed \/ active[x] => Live!Known(x)
      /\ \A t \in Tasks : Live!Killing(t) => Live!Known(query[t])
      /\ \A t \in Tasks : \A x \in Live!Left(t) : Live!Known(x)
  BY DEF Live!Known
<1>3. \A q \in Live!Ids : Live!Known(q) => q \in 1 .. created
  BY <1>0, <1>1 DEF Live!KnownExist, Live!Ids
<1>. USE DEF Live!handles, Live!events, Live!calls, Live!losses, Live!Goto
(* What a kill aims at is alive on the server or does not run there.       *)
<1>4. ASSUME NEW q \in 1 .. created, Live!Known(q), ~active[q], named
      PROVE  q \notin server \ lost
  BY <1>0, <1>1, <1>4 DEF Live!NewInFlight, Live!RunningKept
(* The moves of LiveMove that change neither the Map nor the handles.      *)
<1>5. ASSUME NEW t \in Tasks, OthersStay(t),
             UNCHANGED <<created, queries, active>>, livePc'[t] # "created",
             Live!Killing(t)' => query'[t] \in 1 .. created
                                 /\ Live!Known(query'[t]),
             Live!Killing(t)' /\ via'[t] = "killAll" => liveRest'[t] # <<>>,
             \A x \in Live!Left(t)' : Live!Known(x),
             named' = named, named => Settled(t), ~named => server' = server
      PROVE  Live!LiveInv'
  <2>1. Live!Listed' = Live!Listed
    BY <1>5 DEF Live!Listed
  <2>2. \A x \in Live!Ids : x \in Live!Listed' \/ active'[x] => Live!Known(x)
    BY <1>2, <1>5, <2>1
  <2>3. /\ Live!Assigned' /\ Live!Unshared' /\ Live!Pending'
        /\ Live!NewInFlight' /\ Live!KnownExist'
        /\ \A x \in Live!Ids :
             /\ Live!InFlight(x)
             /\ livePc[t] = "created" => x # query[t]
             => Live!InFlight(x)'
    BY <1>5, <2>2, LiveMove
  <2>4. Live!RunningKept'
    <3>. SUFFICES ASSUME named
                  PROVE  /\ \A q \in server' \ lost' :
                              \/ Live!InFlight(q)'
                              \/ q \in Live!Listed' /\ active'[q]
                         /\ \A u \in Tasks :
                              livePc'[u] \in {"killed", "failed"} =>
                                query'[u] \notin server' \ lost'
      BY <1>5 DEF Live!RunningKept, Live!InFlight
    <3>0. /\ server' \ lost' \subseteq server \ lost
          /\ livePc[t] = "created" => query[t] \notin server' \ lost'
          /\ livePc'[t] \in {"killed", "failed"} =>
                query'[t] \notin server' \ lost'
      BY <1>5 DEF Settled
    <3>1. \A q \in server' \ lost' :
            \/ Live!InFlight(q)'
            \/ q \in Live!Listed' /\ active'[q]
      BY <1>0, <1>1, <1>5, <2>1, <2>3, <3>0 DEF Live!RunningKept
    <3>2. \A u \in Tasks : livePc'[u] \in {"killed", "failed"} =>
            query'[u] \notin server' \ lost'
      BY <1>1, <1>5, <3>0 DEF OthersStay, Live!RunningKept
    <3>. QED
      BY <3>1, <3>2
  <2>5. Live!NoneStopped'
    BY <1>1, <1>5 DEF Live!NoneStopped
  <2>. QED
    BY <2>3, <2>4, <2>5 DEF Live!LiveInv
<1>6. ASSUME NEW t \in Tasks, Live!Live(t)
      PROVE  Live!LiveInv'
  <2>1. OthersStay(t) /\ livePc'[t] = "live" /\ livePc[t] = "idle"
    BY <1>0, <1>6 DEF Live!Live, OthersStay
  <2>2. ~Live!Killing(t)' /\ Live!Left(t)' = Live!Left(t)
    BY <1>6, <2>1 DEF Live!Live, Live!Killing, Live!Left
  <2>3. /\ UNCHANGED <<named, created, queries, active, server, lost>>
        /\ Settled(t)
    BY <1>6, <2>1 DEF Live!Live, Settled
  <2>. QED
    BY <1>2, <1>5, <2>1, <2>2, <2>3
<1>7. ASSUME NEW t \in Tasks, Live!LiveFails(t)
      PROVE  Live!LiveInv'
  <2>1. OthersStay(t) /\ livePc'[t] = "idle"
    BY <1>0, <1>7 DEF Live!LiveFails, OthersStay
  <2>2. ~Live!Killing(t)' /\ Live!Left(t)' = Live!Left(t)
    BY <1>7, <2>1 DEF Live!LiveFails, Live!Killing, Live!Left
  <2>3. /\ UNCHANGED <<named, created, queries, active, server>>
        /\ lost \subseteq lost'
        /\ livePc[t] = "created" => query[t] \in lost'
    BY <1>7 DEF Live!LiveFails
  <2>4. Settled(t)
    BY <2>1, <2>3 DEF Settled
  <2>. QED
    BY <1>2, <1>5, <2>1, <2>2, <2>3, <2>4
<1>8. ASSUME NEW t \in Tasks, Live!Kill(t)
      PROVE  Live!LiveInv'
  <2>1. PICK q \in 1 .. created, by \in {"handle", "kill"} :
          Live!StartKill(t, q, by) /\ (active[q] \/ q \in Live!Listed)
    BY <1>0, <1>8 DEF Live!Kill
  <2>2. Live!Known(q)
    BY <1>0, <1>2, <2>1
  <2>3. /\ OthersStay(t) /\ query'[t] = q /\ via'[t] # "killAll"
        /\ livePc'[t] = IF active[q] THEN "kill" ELSE "killed"
        /\ livePc[t] = "idle" /\ liveRest' = liveRest
    BY <1>0, <1>8, <2>1 DEF Live!Kill, Live!StartKill, OthersStay
  <2>4. UNCHANGED <<named, created, queries, active, server, lost>>
    BY <1>8 DEF Live!Kill
  <2>5. Live!Left(t)' = Live!Left(t) /\ livePc'[t] # "created"
    BY <2>3 DEF Live!Left
  <2>6. named => Settled(t)
    BY <1>4, <2>2, <2>3, <2>4 DEF Settled
  <2>. QED
    BY <1>2, <1>5, <2>2, <2>3, <2>4, <2>5, <2>6
<1>9. ASSUME NEW t \in Tasks, Live!KillAll(t)
      PROVE  Live!LiveInv'
  <2>1. /\ OthersStay(t) /\ livePc'[t] = "killAll" /\ livePc[t] = "idle"
        /\ liveRest'[t] = queries
    BY <1>0, <1>9 DEF Live!KillAll, OthersStay
  <2>2. ~Live!Killing(t)' /\ Live!Left(t)' = Live!Listed
    BY <2>1 DEF Live!Killing, Live!Left, Live!Listed
  <2>3. /\ UNCHANGED <<named, created, queries, active, server, lost>>
        /\ Settled(t)
    BY <1>9, <2>1 DEF Live!KillAll, Settled
  <2>. QED
    BY <1>0, <1>2, <1>5, <2>1, <2>2, <2>3
<1>10. ASSUME NEW t \in Tasks, Live!KillNext(t)
       PROVE  Live!LiveInv'
  <2>. DEFINE q == Head(liveRest[t])
  <2>1. q \in Live!Ids /\ q \in Live!Left(t)
    BY <1>0, <1>10 DEF Live!KillNext, Live!Left
  <2>2. Live!Known(q) /\ q \in 1 .. created
    BY <1>2, <1>3, <2>1
  <2>3. /\ OthersStay(t) /\ query'[t] = q /\ liveRest[t] # <<>>
        /\ livePc'[t] = IF active[q] THEN "kill" ELSE "killed"
        /\ livePc[t] = "killAll" /\ liveRest' = liveRest
    BY <1>0, <1>10 DEF Live!KillNext, Live!StartKill, OthersStay
  <2>. HIDE DEF q
  <2>4. UNCHANGED <<named, created, queries, active, server, lost>>
    BY <1>10 DEF Live!KillNext
  <2>5. Live!Left(t)' = Live!Left(t) /\ livePc'[t] # "created"
    BY <2>3 DEF Live!Left
  <2>6. named => Settled(t)
    BY <1>4, <2>2, <2>3, <2>4 DEF Settled
  <2>. QED
    BY <1>2, <1>5, <2>2, <2>3, <2>4, <2>5, <2>6
<1>11. ASSUME NEW t \in Tasks, Live!KillAllReturns(t)
       PROVE  Live!LiveInv'
  <2>1. OthersStay(t) /\ livePc'[t] = "idle" /\ livePc[t] = "killAll"
    BY <1>0, <1>11 DEF Live!KillAllReturns, OthersStay
  <2>2. ~Live!Killing(t)' /\ Live!Left(t)' = Live!Left(t)
    BY <1>11, <2>1 DEF Live!KillAllReturns, Live!Killing, Live!Left
  <2>3. /\ UNCHANGED <<named, created, queries, active, server, lost>>
        /\ Settled(t)
    BY <1>11, <2>1 DEF Live!KillAllReturns, Settled
  <2>. QED
    BY <1>2, <1>5, <2>1, <2>2, <2>3
<1>12. ASSUME NEW t \in Tasks, Live!ServerKills(t) \/ Live!KillFails(t)
       PROVE  Live!LiveInv'
  <2>1. /\ OthersStay(t) /\ query' = query /\ via' = via
        /\ liveRest' = liveRest /\ livePc[t] = "kill"
        /\ livePc'[t] \in {"killed", "failed"}
    BY <1>0, <1>12 DEF Live!ServerKills, Live!KillFails, OthersStay
  <2>2. Live!Killing(t) /\ Live!Left(t)' = Live!Left(t)
    BY <2>1 DEF Live!Killing, Live!Left
  <2>3. query[t] \in 1 .. created /\ Live!Known(query[t])
    BY <1>1, <1>2, <2>2 DEF Live!Assigned
  <2>4. via[t] = "killAll" => liveRest[t] # <<>>
    BY <1>1, <2>2 DEF Live!Pending
  <2>5. /\ UNCHANGED <<named, created, queries, active>>
        /\ ~named => server' = server
    BY <1>12 DEF Live!ServerKills, Live!KillFails, Live!Stopped
  <2>6. named => Settled(t)
    <3>1. server' \subseteq server /\ lost \subseteq lost'
      BY <1>12 DEF Live!ServerKills, Live!KillFails, Live!Stopped
    <3>2. named => query[t] \notin server' \ lost'
      BY <1>12 DEF Live!ServerKills, Live!KillFails, Live!Stopped
    <3>. QED
      BY <2>1, <3>1, <3>2 DEF Settled
  <2>. QED
    BY <1>2, <1>5, <2>1, <2>2, <2>3, <2>4, <2>5, <2>6
<1>13. ASSUME NEW t \in Tasks, Live!Killed(t)
       PROVE  Live!LiveInv'
  <2>. DEFINE q == query[t]
  <2>1. /\ OthersStay(t) /\ livePc[t] \in {"killed", "failed"}
        /\ livePc'[t] \in {"killAll", "idle"}
    BY <1>0, <1>13 DEF Live!Killed, OthersStay
  <2>2. Live!Killing(t) /\ ~Live!Killing(t)'
    BY <2>1 DEF Live!Killing
  <2>3. q \in 1 .. created
    BY <1>1, <2>2 DEF Live!Assigned
  <2>4. \A x \in Live!Left(t)' : x \in Live!Left(t)
    <3>1. CASE via[t] = "killAll"
      <4>. DEFINE r == liveRest[t]
      <4>1. r # <<>> /\ r \in Seq(Live!Ids)
        BY <1>0, <1>1, <2>2, <3>1 DEF Live!Pending
      <4>2. liveRest'[t] = Tail(r)
        BY <1>0, <1>13, <3>1 DEF Live!Killed
      <4>. HIDE DEF r
      <4>3. \A i \in DOMAIN Tail(r) : \E j \in DOMAIN r : Tail(r)[i] = r[j]
        BY <4>1
      <4>. QED
        BY <4>2, <4>3, Zenon DEF Live!Left, r
    <3>2. CASE via[t] # "killAll"
      <4>1. liveRest' = liveRest
        BY <1>13, <3>2 DEF Live!Killed
      <4>. QED
        BY <4>1 DEF Live!Left
    <3>. QED
      BY <3>1, <3>2
  <2>5. /\ Live!Listed' \subseteq Live!Listed
        /\ named => \A x \in Live!Listed : x # q => x \in Live!Listed'
        /\ ~named /\ Len(queries) <= 1 => Len(queries') <= 1
    <3>1. CASE queries' = queries
      BY <3>1 DEF Live!Listed
    <3>2. CASE queries' = Live!Without(q)
      <4>1. /\ \A j \in DOMAIN queries' : queries'[j] \in Live!Listed
            /\ named => \A x \in Live!Listed :
                 x # q => \E j \in DOMAIN queries' : queries'[j] = x
            /\ ~named => Len(queries') <= 1
        BY <1>0, <3>2, LiveWithout
      <4>2. Live!Listed' = {queries'[j] : j \in DOMAIN queries'}
        BY DEF Live!Listed
      <4>. QED
        BY <4>1, <4>2
    <3>. QED
      BY <1>13, <3>1, <3>2 DEF Live!Killed
  <2>6. /\ active' = [active EXCEPT ![q] = FALSE]
        /\ UNCHANGED <<named, server, created, lost>>
    BY <1>13 DEF Live!Killed
  <2>7. \A x \in Live!Ids : /\ active'[x] => active[x]
                            /\ x # q => (active'[x] <=> active[x])
    BY <1>0, <2>6
  <2>8. \A x \in Live!Ids : x \in Live!Listed' \/ active'[x] => Live!Known(x)
    BY <1>2, <2>5, <2>7
  <2>9. /\ Live!Assigned' /\ Live!Unshared' /\ Live!Pending'
        /\ Live!NewInFlight' /\ Live!KnownExist'
        /\ \A x \in Live!Ids : Live!InFlight(x) => Live!InFlight(x)'
    <3>1. livePc'[t] # "created" /\ livePc[t] # "created"
      BY <2>1
    <3>2. \A x \in Live!Left(t)' : Live!Known(x)
      BY <1>2, <2>4
    <3>. QED
      BY <2>1, <2>2, <2>6, <2>8, <3>1, <3>2, LiveMove
  <2>10. ASSUME named'
         PROVE  /\ \A x \in server' \ lost' :
                     \/ Live!InFlight(x)'
                     \/ x \in Live!Listed' /\ active'[x]
                /\ \A u \in Tasks :
                     livePc'[u] \in {"killed", "failed"} =>
                       query'[u] \notin server' \ lost'
    <3>1. named /\ q \notin server \ lost
      BY <1>1, <2>1, <2>6, <2>10 DEF Live!RunningKept
    <3>2. \A x \in server' \ lost' :
            \/ Live!InFlight(x)'
            \/ x \in Live!Listed' /\ active'[x]
      BY <1>0, <1>1, <2>1, <2>5, <2>6, <2>7, <2>9, <3>1
         DEF Live!RunningKept
    <3>3. \A u \in Tasks : livePc'[u] \in {"killed", "failed"} =>
            query'[u] \notin server' \ lost'
      BY <1>1, <2>1, <2>6, <3>1 DEF OthersStay, Live!RunningKept
    <3>. QED
      BY <3>2, <3>3
  <2>11. Live!RunningKept'
    BY <2>10 DEF Live!RunningKept, Live!InFlight
  <2>12. Live!NoneStopped'
    BY <1>1, <2>5, <2>6 DEF Live!NoneStopped
  <2>. QED
    BY <2>9, <2>11, <2>12 DEF Live!LiveInv
<1>14. ASSUME UNCHANGED <<named, server, created, queries, active, livePc,
                          query, via, liveRest, lost>>
       PROVE  Live!LiveInv'
  BY <1>14, LiveStutter
<1>15. ASSUME NEW t \in Tasks, Live!ServerCreates(t)
       PROVE  Live!LiveInv'
  <2>0. PICK n \in Nat : n = created + 1
    BY <1>0
  <2>1. /\ OthersStay(t) /\ livePc[t] = "live" /\ livePc'[t] = "created"
        /\ query'[t] = n /\ liveRest' = liveRest
        /\ UNCHANGED <<named, queries, active, lost>>
        /\ created' = n /\ server' = server \cup {n}
        /\ n \in Live!Ids
    BY <1>0, <1>15, <2>0 DEF Live!ServerCreates, OthersStay, Live!Ids
  <2>2. n \in Nat /\ n > created /\ created \in Nat
    BY <1>0, <2>0
  <2>3. \A u \in Tasks : u # t =>
          /\ livePc'[u] = livePc[u] /\ query'[u] = query[u]
          /\ via'[u] = via[u] /\ liveRest'[u] = liveRest[u]
          /\ Live!Killing(u)' <=> Live!Killing(u)
    BY <2>1 DEF OthersStay, Live!Killing
  <2>4. ~Live!Killing(t)' /\ ~Live!Killing(t)
    BY <2>1 DEF Live!Killing
  <2>5. /\ Live!Listed' = Live!Listed
        /\ \A u \in Tasks : Live!Left(u)' = Live!Left(u)
    BY <2>1 DEF Live!Listed, Live!Left
  <2>6. \A x \in Live!Ids : Live!Known(x)' => Live!Known(x) /\ x # n
    <3>1. \A x \in Live!Ids : Live!Known(x)' => Live!Known(x)
      BY <2>1, <2>3, <2>4, <2>5 DEF Live!Known
    <3>. QED
      BY <1>3, <2>2, <3>1
  <2>7. \A x \in Live!Ids : Live!InFlight(x)' => Live!InFlight(x) \/ x = n
    BY <2>1, <2>3 DEF Live!InFlight
  <2>8. Live!InFlight(n)' /\ \A x : Live!InFlight(x) => Live!InFlight(x)'
    BY <2>1, <2>3 DEF Live!InFlight
  <2>9. \A u \in Tasks : livePc[u] = "created" \/ Live!Killing(u)
                           => query[u] \in 1 .. created /\ query[u] # n
    BY <1>0, <1>1, <2>2 DEF Live!Assigned
  <2>10. Live!Assigned'
    <3>1. n \in 1 .. created' /\ \A x \in 1 .. created : x \in 1 .. created'
      BY <2>1, <2>2
    <3>. QED
      BY <2>1, <2>3, <2>4, <2>9, <3>1, Zenon DEF Live!Assigned
  <2>11. Live!Unshared'
    BY <1>1, <2>1, <2>3, <2>9 DEF Live!Unshared
  <2>12. Live!Pending'
    BY <1>1, <2>3, <2>4 DEF Live!Pending
  <2>13. Live!NewInFlight'
    BY <1>1, <2>6, <2>7 DEF Live!NewInFlight, Live!Ids
  <2>14. Live!KnownExist'
    BY <1>3, <2>1, <2>2, <2>6 DEF Live!KnownExist, Live!Ids
  <2>15. ASSUME named'
         PROVE  /\ \A x \in server' \ lost' :
                     \/ Live!InFlight(x)'
                     \/ x \in Live!Listed' /\ active'[x]
                /\ \A u \in Tasks :
                     livePc'[u] \in {"killed", "failed"} =>
                       query'[u] \notin server' \ lost'
    <3>1. \A x \in server' \ lost' : \/ Live!InFlight(x)'
                                     \/ x \in Live!Listed' /\ active'[x]
      BY <1>1, <2>1, <2>5, <2>8, <2>15 DEF Live!RunningKept
    <3>2. \A u \in Tasks : livePc'[u] \in {"killed", "failed"} =>
            query'[u] \notin server' \ lost'
      BY <1>1, <2>1, <2>3, <2>9, <2>15 DEF Live!RunningKept, Live!Killing
    <3>. QED
      BY <3>1, <3>2
  <2>16. Live!RunningKept'
    BY <2>15 DEF Live!RunningKept, Live!InFlight
  <2>17. Live!NoneStopped'
    BY <1>1, <2>0, <2>1, <2>2 DEF Live!NoneStopped
  <2>. QED
    BY <2>10, <2>11, <2>12, <2>13, <2>14, <2>16, <2>17 DEF Live!LiveInv
<1>16. ASSUME NEW t \in Tasks, Live!Enter(t)
       PROVE  Live!LiveInv'
  <2>. DEFINE q == query[t]
  <2>1. /\ OthersStay(t) /\ livePc[t] = "created" /\ livePc'[t] = "idle"
        /\ liveRest' = liveRest /\ queries' = Live!With(q)
        /\ active' = [active EXCEPT ![q] = TRUE]
        /\ UNCHANGED <<named, server, created, lost>>
    BY <1>0, <1>16 DEF Live!Enter, OthersStay
  <2>2. q \in 1 .. created /\ q \in Live!Ids
    BY <1>0, <1>1, <2>1 DEF Live!Assigned
  <2>. HIDE DEF q
  <2>3. \A u \in Tasks : u # t =>
          /\ livePc'[u] = livePc[u] /\ query'[u] = query[u]
          /\ via'[u] = via[u] /\ liveRest'[u] = liveRest[u]
          /\ Live!Killing(u)' <=> Live!Killing(u)
    BY <2>1 DEF OthersStay, Live!Killing
  <2>4. ~Live!Killing(t)' /\ ~Live!Killing(t)
    BY <2>1 DEF Live!Killing
  <2>5. /\ Live!Listed' \subseteq Live!Listed \cup {q} /\ q \in Live!Listed'
        /\ named => Live!Listed' = Live!Listed \cup {q}
        /\ ~named => Len(queries') <= 1
        /\ \A u \in Tasks : Live!Left(u)' = Live!Left(u)
    <3>1. named => Live!Listed' = {Append(queries, q)[i] :
                                    i \in DOMAIN Append(queries, q)}
      BY <2>1 DEF Live!Listed, Live!With
    <3>2. {Append(queries, q)[i] : i \in DOMAIN Append(queries, q)}
            = Live!Listed \cup {q}
      <4>1. PICK n \in Nat : n = Len(queries) /\ DOMAIN queries = 1 .. n
        BY <1>0
      <4>. DEFINE a == Append(queries, q)
      <4>2. /\ DOMAIN a = 1 .. n + 1 /\ a[n + 1] = q
            /\ \A i \in 1 .. n : a[i] = queries[i]
        BY <1>0, <2>2, <4>1
      <4>. HIDE DEF a
      <4>3. {a[i] : i \in DOMAIN a}
              = {queries[i] : i \in DOMAIN queries} \cup {q}
        BY <4>1, <4>2
      <4>. QED
        BY <4>3 DEF a, Live!Listed
    <3>3. \A u \in Tasks : Live!Left(u)' = Live!Left(u)
      BY <2>1 DEF Live!Left
    <3>4. ~named => Live!Listed' = {q} /\ Len(queries') <= 1
      <4>1. ~named => queries' = <<q>>
        BY <2>1 DEF Live!With
      <4>. DEFINE a == <<q>>
      <4>2. Len(a) = 1 /\ DOMAIN a = 1 .. 1 /\ a[1] = q
        OBVIOUS
      <4>. HIDE DEF a
      <4>3. {a[i] : i \in DOMAIN a} = {q}
        BY <4>2
      <4>4. ASSUME ~named
            PROVE  Live!Listed' = {q} /\ Len(queries') <= 1
        <5>1. queries' = a
          BY <4>1, <4>4 DEF a
        <5>2. Live!Listed' = {queries'[i] : i \in DOMAIN queries'}
          BY Zenon DEF Live!Listed
        <5>3. Live!Listed' = {a[i] : i \in DOMAIN a} /\ Len(queries') = Len(a)
          BY <5>1, <5>2, Zenon
        <5>. QED
          BY <4>2, <4>3, <5>3
      <4>. QED
        BY <4>4
    <3>. QED
      BY <1>0, <3>1, <3>2, <3>3, <3>4
  <2>6. \A x \in Live!Ids : x # q => (active'[x] <=> active[x])
    BY <1>0, <2>1
  <2>7. active'[q]
    BY <1>0, <2>1, <2>2
  <2>8. \A x \in Live!Ids : Live!Known(x)' => Live!Known(x) \/ x = q
    BY <2>3, <2>4, <2>5, <2>6 DEF Live!Known
  <2>9. \A u \in Tasks : livePc[u] = "created" /\ u # t => query[u] # q
    BY <1>1, <2>1 DEF Live!Unshared, q
  <2>10. \A x \in Live!Ids : Live!InFlight(x)' => Live!InFlight(x) /\ x # q
    BY <2>1, <2>3, <2>9 DEF Live!InFlight
  <2>11. \A x \in Live!Ids : Live!InFlight(x) /\ x # q => Live!InFlight(x)'
    BY <2>3 DEF Live!InFlight, q
  <2>12. Live!Assigned'
    BY <1>1, <2>1, <2>3, <2>4 DEF Live!Assigned
  <2>13. Live!Unshared'
    BY <1>1, <2>1, <2>3 DEF Live!Unshared
  <2>14. Live!Pending'
    BY <1>1, <2>3, <2>4 DEF Live!Pending
  <2>15. Live!NewInFlight'
    BY <1>1, <2>8, <2>10 DEF Live!NewInFlight, Live!Ids
  <2>16. Live!KnownExist'
    BY <1>0, <1>1, <2>1, <2>2, <2>8 DEF Live!KnownExist, Live!Ids
  <2>17. ASSUME named'
         PROVE  /\ \A x \in server' \ lost' :
                     \/ Live!InFlight(x)'
                     \/ x \in Live!Listed' /\ active'[x]
                /\ \A u \in Tasks :
                     livePc'[u] \in {"killed", "failed"} =>
                       query'[u] \notin server' \ lost'
    <3>1. \A x \in server' \ lost' : \/ Live!InFlight(x)'
                                     \/ x \in Live!Listed' /\ active'[x]
      BY <1>0, <1>1, <2>1, <2>5, <2>6, <2>7, <2>11, <2>17
         DEF Live!RunningKept
    <3>2. \A u \in Tasks : livePc'[u] \in {"killed", "failed"} =>
            query'[u] \notin server' \ lost'
      BY <1>1, <2>1, <2>3, <2>17 DEF Live!RunningKept
    <3>. QED
      BY <3>1, <3>2
  <2>18. Live!RunningKept'
    BY <2>17 DEF Live!RunningKept, Live!InFlight
  <2>19. Live!NoneStopped'
    BY <1>1, <2>1, <2>5 DEF Live!NoneStopped
  <2>. QED
    BY <2>12, <2>13, <2>14, <2>15, <2>16, <2>18, <2>19 DEF Live!LiveInv
<1>17. ASSUME NEW q \in Live!Ids, Live!Subscribe(q) \/ Live!Unsubscribe(q)
       PROVE  Live!LiveInv'
  BY <1>14, <1>17 DEF Live!Subscribe, Live!Unsubscribe
<1>18. ASSUME Live!ServerSends \/ Live!Dispatch
       PROVE  Live!LiveInv'
  BY <1>14, <1>18 DEF Live!ServerSends, Live!Dispatch
<1>. QED
  BY <1>6, <1>7, <1>8, <1>9, <1>10, <1>11, <1>12, <1>13, <1>15, <1>16, <1>17,
     <1>18, Zenon DEF Live!Next, Live!Continue

(* The live queries' invariant, for any tasks and every bound.             *)
THEOREM LiveInvariant == Spec => [](Live!TypeOK /\ Live!LiveInv)
<1>. USE ObjectsAssumption
<1>1. Init => Live!TypeOK /\ Live!LiveInv
  BY LiveInitially DEF Init
<1>2. Live!TypeOK /\ Live!LiveInv /\ [Next]_vars
        => (Live!TypeOK /\ Live!LiveInv)'
  <2>. SUFFICES ASSUME Live!TypeOK, Live!LiveInv, [Next]_vars
                PROVE  (Live!TypeOK /\ Live!LiveInv)'
    OBVIOUS
  <2>1. CASE used = "live" /\ Live!Next
    BY <2>1, LiveTypeStep, LiveInvStep
  <2>2. CASE UNCHANGED liveVars
    <3>1. Live!TypeOK'
      BY <2>2, Zenon DEF liveVars, Live!TypeOK, Live!Ids, Live!Locations
    <3>2. Live!LiveInv'
      BY <2>2, LiveStutter DEF liveVars
    <3>. QED
      BY <3>1, <3>2
  <2>. QED
    BY <2>1, <2>2 DEF Next, vars
<1>. QED
  BY <1>1, <1>2, PTL DEF Spec

(* A query that runs on the server is in the manager's Map, or on its way  *)
(* there, unless a lost request was about it; handles that are not named   *)
(* by ids share one entry and stop nothing (streaming.ts:115).             *)
THEOREM RunningIsListed == Spec => []NothingRunsUnlisted
<1>1. Live!TypeOK /\ Live!LiveInv => NothingRunsUnlisted
  BY DEF NothingRunsUnlisted, Live!NothingRunsUnlisted, Live!LiveInv,
     Live!RunningKept, Live!NoneStopped, Live!InFlight
<1>. QED
  BY <1>1, LiveInvariant, PTL

---------------------------------------------------------------------------
(* The registry.                                                           *)

UniqueNames(m) == \A i, j \in DOMAIN m : m[i].name = m[j].name => i = j

(* The registry's Map without a name.                                      *)
LacksName(w, n) ==
    /\ w \in Seq(Registry!Entries) /\ UniqueNames(w)
    /\ \A j \in DOMAIN w : \E i \in DOMAIN connections : w[j] = connections[i]
    /\ \A i \in DOMAIN connections :
        connections[i].name # n => \E j \in DOMAIN w : w[j] = connections[i]
    /\ connections # <<>> /\ connections[1].name = n => w = Tail(connections)

(* Deleting a name from the Map leaves the entries of the others.          *)
LEMMA RegistryWithout ==
    ASSUME connections \in Seq(Registry!Entries), UniqueNames(connections),
           NEW n
    PROVE  LacksName(Registry!Without(n), n)
<1>. DEFINE I == {i \in 1 .. Len(connections) : connections[i].name = n}
<1>0. DOMAIN connections = 1 .. Len(connections) /\ Len(connections) \in Nat
  OBVIOUS
<1>1. CASE I = {}
  <2>1. Registry!Without(n) = connections
    BY <1>1 DEF Registry!Without, Registry!RemoveFirstMatch
  <2>2. \A j \in DOMAIN connections : connections[j].name # n
    BY <1>0, <1>1
  <2>3. /\ \A j \in DOMAIN connections :
             \E i \in DOMAIN connections : connections[j] = connections[i]
        /\ \A j \in DOMAIN connections : connections[j].name # n =>
             \E i \in DOMAIN connections : connections[i] = connections[j]
    BY Zenon
  <2>4. ~(connections # <<>> /\ connections[1].name = n)
    BY <1>0, <2>2
  <2>5. LacksName(connections, n)
    BY <2>3, <2>4, Zenon DEF LacksName
  <2>. QED
    BY <2>1, <2>5
<1>2. CASE I # {}
  <2>. DEFINE i == CHOOSE k \in I : \A m \in I : k <= m
              w == Cut(connections, i)
  <2>1. i \in I
    <3>1. I \in SUBSET Nat
      BY <1>0
    <3>. HIDE DEF I
    <3>. QED
      BY <1>2, <3>1, LeastIsOne
  <2>2. Registry!Without(n) = w
    BY <1>2 DEF Registry!Without, Registry!RemoveFirstMatch,
                Registry!SelectInSeq, Registry!RemoveAt, Registry!Min, Cut
  <2>. HIDE DEF i
  <2>3. /\ i \in 1 .. Len(connections) /\ connections[i].name = n
        /\ \A m \in 1 .. Len(connections) : connections[m].name = n => m = i
    BY <1>0, <2>1 DEF UniqueNames
  <2>4. /\ w \in Seq(Registry!Entries) /\ Len(w) = Len(connections) - 1
        /\ \A j \in 1 .. Len(connections) - 1 :
             /\ Shifted(j, i) \in 1 .. Len(connections) /\ Shifted(j, i) # i
             /\ w[j] = connections[Shifted(j, i)]
        /\ \A m \in 1 .. Len(connections) :
             m # i => \E j \in 1 .. Len(connections) - 1 :
                        w[j] = connections[m]
    BY <2>3, RemovedAt
  <2>. HIDE DEF w
  <2>5. DOMAIN w = 1 .. Len(connections) - 1
    BY <2>4
  <2>6. UniqueNames(w)
    <3>. SUFFICES ASSUME NEW j \in 1 .. Len(connections) - 1,
                         NEW m \in 1 .. Len(connections) - 1,
                         w[j].name = w[m].name
                  PROVE  j = m
      BY <2>5 DEF UniqueNames
    <3>0. \A k, l \in 1 .. Len(connections) :
            connections[k].name = connections[l].name => k = l
      BY <1>0 DEF UniqueNames
    <3>1. /\ Shifted(j, i) \in 1 .. Len(connections)
          /\ Shifted(m, i) \in 1 .. Len(connections)
          /\ connections[Shifted(j, i)].name = connections[Shifted(m, i)].name
      BY <2>4
    <3>2. Shifted(j, i) = Shifted(m, i)
      BY <3>0, <3>1, Zenon
    <3>. QED
      BY <2>3, <3>2, ShiftedIsOneToOne
  <2>7. \A j \in DOMAIN w : \E m \in DOMAIN connections : w[j] = connections[m]
    BY <1>0, <2>4, <2>5
  <2>8. \A m \in DOMAIN connections : connections[m].name # n =>
          \E j \in DOMAIN w : w[j] = connections[m]
    <3>. SUFFICES ASSUME NEW m \in DOMAIN connections, connections[m].name # n
                  PROVE  \E j \in DOMAIN w : w[j] = connections[m]
      OBVIOUS
    <3>1. m # i
      BY <2>3
    <3>. QED
      BY <1>0, <2>4, <2>5, <3>1
  <2>9. ASSUME connections # <<>>, connections[1].name = n
        PROVE  w = Tail(connections)
    <3>1. i = 1
      BY <1>0, <2>3, <2>9
    <3>2. \A j \in 1 .. Len(connections) - 1 : Shifted(j, i) = j + 1
      BY <3>1 DEF Shifted
    <3>. DEFINE v == Tail(connections)
    <3>3. /\ v \in Seq(Registry!Entries) /\ Len(v) = Len(connections) - 1
          /\ \A j \in 1 .. Len(connections) - 1 : v[j] = connections[j + 1]
      BY <2>9
    <3>. HIDE DEF v
    <3>4. Len(w) = Len(v) /\ \A j \in 1 .. Len(w) : w[j] = v[j]
      BY <2>4, <3>2, <3>3
    <3>. QED
      BY <2>4, <3>3, <3>4, SeqEqual DEF v
  <2>10. LacksName(w, n)
    BY <2>4, <2>6, <2>7, <2>8, <2>9, Zenon DEF LacksName
  <2>. QED
    BY <2>2, <2>10
<1>. QED
  BY <1>1, <1>2

(* Of the initial state of the registry.                                   *)
LEMMA RegistryInitially ==
    ASSUME Registry!NamesAssumption, Registry!Init
    PROVE  Registry!TypeOK /\ Registry!RegistryInv
<1>1. Registry!TypeOK
  BY DEF Registry!Init, Registry!TypeOK, Registry!NamesAssumption
<1>2. Registry!RegistryInv
  BY DEF Registry!Init, Registry!RegistryInv, Registry!AloneInv,
         Registry!NoneDropped, Registry!ClientsOf, Registry!Closing
<1>. QED
  BY <1>1, <1>2

(* Every step of the registry keeps the types.                             *)
LEMMA RegistryTypeStep ==
    ASSUME Registry!NamesAssumption, Registry!TypeOK, Registry!RegistryInv,
           Registry!Next
    PROVE  Registry!TypeOK'
<1>. DEFINE Pcs == {"idle", "unregister", "disconnectAll", "close", "closed",
                    "closeFailed"}
<1>0. /\ callers \subseteq Tasks
      /\ connections \in Seq(Registry!Entries) /\ UniqueNames(connections)
      /\ defaultName \in Names \cup {NoName}
      /\ MaxClients \in Nat /\ made \in 0 .. MaxClients
      /\ closing \subseteq 1 .. made
      /\ registryPc \in [Tasks -> Pcs]
      /\ registryEntry \in [Tasks -> Registry!Entries \cup {Registry!NoEntry}]
      /\ registryRest \in [Tasks -> Seq(Registry!Entries)]
  BY DEF Registry!TypeOK, Registry!NamesAssumption, UniqueNames
<1>1. /\ \A i \in DOMAIN connections :
            /\ connections[i] \in Registry!Entries
            /\ connections[i].client \in 1 .. made
      /\ \A t \in Tasks : registryRest[t] # <<>> =>
            /\ Head(registryRest[t]) \in Registry!Entries
            /\ Head(registryRest[t]).client \in 1 .. made
  <2>1. \A i \in DOMAIN connections :
          /\ connections[i] \in Registry!Entries
          /\ connections[i].client \in 1 .. made
    BY <1>0 DEF Registry!RegistryInv, Registry!ClientsOf
  <2>2. ASSUME NEW t \in Tasks, registryRest[t] # <<>>
        PROVE  /\ Head(registryRest[t]) \in Registry!Entries
               /\ Head(registryRest[t]).client \in 1 .. made
    <3>. DEFINE r == registryRest[t]
    <3>1. r \in Seq(Registry!Entries) /\ r # <<>>
      BY <1>0, <2>2
    <3>2. \A i \in DOMAIN r : r[i].client \in 1 .. made
      BY DEF Registry!RegistryInv, Registry!ClientsOf
    <3>. HIDE DEF r
    <3>3. Head(r) \in Registry!Entries /\ Head(r) = r[1] /\ 1 \in DOMAIN r
      BY <3>1
    <3>. QED
      BY <3>2, <3>3 DEF r
  <2>. QED
    BY <2>1, <2>2
<1>2. ASSUME /\ callers' = callers
             /\ connections' \in Seq(Registry!Entries)
             /\ UniqueNames(connections')
             /\ defaultName' \in Names \cup {NoName}
             /\ made' \in 0 .. MaxClients
             /\ closing' \subseteq 1 .. made'
             /\ registryPc' \in [Tasks -> Pcs]
             /\ registryEntry' \in
                    [Tasks -> Registry!Entries \cup {Registry!NoEntry}]
             /\ registryRest' \in [Tasks -> Seq(Registry!Entries)]
      PROVE  Registry!TypeOK'
  BY <1>0, <1>2, Zenon DEF Registry!TypeOK, UniqueNames, Registry!Entries,
     Registry!NoEntry
<1>. USE DEF Registry!calls, Registry!Goto, Registry!Forget
<1>3. ASSUME NEW t \in Tasks, Registry!Register(t)
      PROVE  Registry!TypeOK'
  <2>1. PICK n \in Names \ Registry!NamesOf(connections) :
          /\ connections' =
                 Append(connections, [name |-> n, client |-> made + 1])
          /\ defaultName' = IF connections = <<>> THEN n ELSE defaultName
    BY <1>3 DEF Registry!Register
  <2>. DEFINE e == [name |-> n, client |-> made + 1]
  <2>2. e \in Registry!Entries /\ made' = made + 1 /\ made' \in 0 .. MaxClients
    BY <1>0, <1>3 DEF Registry!Register, Registry!Entries
  <2>3. \A i \in DOMAIN connections : connections[i].name # e.name
    BY <2>1 DEF Registry!NamesOf
  <2>. HIDE DEF e
  <2>4. connections' = Append(connections, e)
    BY <2>1 DEF e
  <2>5. /\ connections' \in Seq(Registry!Entries)
        /\ UniqueNames(connections')
    <3>1. PICK m \in Nat : m = Len(connections) /\ DOMAIN connections = 1 .. m
      BY <1>0
    <3>. DEFINE a == Append(connections, e)
    <3>2. /\ a \in Seq(Registry!Entries) /\ DOMAIN a = 1 .. m + 1
          /\ a[m + 1] = e /\ \A i \in 1 .. m : a[i] = connections[i]
      BY <1>0, <2>2, <3>1
    <3>. HIDE DEF a
    <3>3. \A i \in 1 .. m + 1 : i = m + 1 \/ i \in 1 .. m
      OBVIOUS
    <3>4. \A i, j \in 1 .. m : a[i].name = a[j].name => i = j
      BY <1>0, <3>1, <3>2 DEF UniqueNames
    <3>5. \A i \in 1 .. m : a[i].name # a[m + 1].name
      BY <2>3, <3>1, <3>2
    <3>6. UniqueNames(a)
      BY <3>2, <3>3, <3>4, <3>5 DEF UniqueNames
    <3>. QED
      BY <2>4, <3>2, <3>6 DEF a
  <2>6. /\ defaultName' \in Names \cup {NoName}
        /\ closing' \subseteq 1 .. made'
    BY <1>0, <1>3, <2>1, <2>2 DEF Registry!Register
  <2>. QED
    BY <1>0, <1>2, <1>3, <2>2, <2>5, <2>6 DEF Registry!Register
<1>4. ASSUME NEW t \in Tasks, Registry!SetDefault(t)
      PROVE  Registry!TypeOK'
  <2>1. \A i \in DOMAIN connections : connections[i].name \in Names
    BY <1>1 DEF Registry!Entries
  <2>2. defaultName' \in Names \cup {NoName}
    BY <1>4, <2>1 DEF Registry!SetDefault, Registry!NamesOf
  <2>. QED
    BY <1>0, <1>2, <1>4, <2>2 DEF Registry!SetDefault
<1>5. ASSUME NEW t \in Tasks, Registry!Unregister(t)
      PROVE  Registry!TypeOK'
  BY <1>0, <1>1, <1>2, <1>5 DEF Registry!Unregister
<1>6. ASSUME NEW t \in Tasks, Registry!DisconnectAll(t)
      PROVE  Registry!TypeOK'
  BY <1>0, <1>2, <1>6 DEF Registry!DisconnectAll
<1>7. ASSUME NEW t \in Tasks, Registry!DisconnectNext(t)
      PROVE  Registry!TypeOK'
  BY <1>0, <1>1, <1>2, <1>7 DEF Registry!DisconnectNext
<1>8. ASSUME NEW t \in Tasks, Registry!Close(t)
      PROVE  Registry!TypeOK'
  BY <1>0, <1>2, <1>8 DEF Registry!Close
<1>9. ASSUME NEW t \in Tasks, Registry!Unregistered(t)
      PROVE  Registry!TypeOK'
  <2>1. LacksName(connections', registryEntry[t].name)
    BY <1>0, <1>9, RegistryWithout DEF Registry!Unregistered
  <2>2. /\ connections' \in Seq(Registry!Entries)
        /\ UniqueNames(connections')
    BY <2>1 DEF LacksName
  <2>3. connections' # <<>> => connections'[1].name \in Names
    <3>1. connections' # <<>> => connections'[1] \in Registry!Entries
      BY <2>2
    <3>. QED
      BY <3>1 DEF Registry!Entries
  <2>4. defaultName' \in Names \cup {NoName}
    BY <1>0, <1>9, <2>3 DEF Registry!Unregistered
  <2>. QED
    BY <1>0, <1>2, <1>9, <2>2, <2>4 DEF Registry!Unregistered
<1>10. ASSUME NEW t \in Tasks, Registry!UnregisterFails(t)
       PROVE  Registry!TypeOK'
  BY <1>0, <1>2, <1>10 DEF Registry!UnregisterFails
<1>11. ASSUME NEW t \in Tasks, Registry!Disconnected(t)
       PROVE  Registry!TypeOK'
  <2>1. LacksName(connections', registryEntry[t].name)
    BY <1>0, <1>11, RegistryWithout DEF Registry!Disconnected
  <2>2. /\ connections' \in Seq(Registry!Entries)
        /\ UniqueNames(connections')
    BY <2>1 DEF LacksName
  <2>3. Tail(registryRest[t]) \in Seq(Registry!Entries)
    BY <1>0, <1>11 DEF Registry!Disconnected
  <2>. QED
    BY <1>0, <1>2, <1>11, <2>2, <2>3 DEF Registry!Disconnected
<1>12. ASSUME NEW t \in Tasks, Registry!DisconnectAllReturns(t)
       PROVE  Registry!TypeOK'
  BY <1>0, <1>2, <1>12 DEF Registry!DisconnectAllReturns
<1>. QED
  <2>1. PICK t \in Tasks : Registry!Step(t)
    BY <1>0 DEF Registry!Next
  <2>. QED
    BY <1>3, <1>4, <1>5, <1>6, <1>7, <1>8, <1>9, <1>10, <1>11, <1>12, <2>1
       DEF Registry!Step

(* Every step of the registry keeps the invariant.                         *)
LEMMA RegistryInvStep ==
    ASSUME Registry!NamesAssumption, Registry!TypeOK, Registry!RegistryInv,
           Registry!Next
    PROVE  Registry!RegistryInv'
<1>0. /\ callers \subseteq Tasks
      /\ connections \in Seq(Registry!Entries) /\ UniqueNames(connections)
      /\ made \in Nat /\ closing \subseteq 1 .. made
      /\ DOMAIN registryPc = Tasks /\ DOMAIN registryEntry = Tasks
      /\ registryRest \in [Tasks -> Seq(Registry!Entries)]
      /\ \A i \in DOMAIN connections :
            connections[i].name \in Names /\ connections[i].client \in 1 .. made
      /\ \A t \in Tasks : \A i \in DOMAIN registryRest[t] :
            registryRest[t][i].client \in 1 .. made
  <2>1. \A i \in DOMAIN connections : connections[i] \in Registry!Entries
    BY DEF Registry!TypeOK
  <2>2. /\ \A i \in DOMAIN connections :
             /\ connections[i].name \in Names
             /\ connections[i].client \in 1 .. made
        /\ \A t \in Tasks : \A i \in DOMAIN registryRest[t] :
             registryRest[t][i].client \in 1 .. made
    BY <2>1 DEF Registry!RegistryInv, Registry!ClientsOf, Registry!Entries
  <2>. QED
    BY <2>2 DEF Registry!TypeOK, Registry!NamesAssumption, UniqueNames
<1>1. /\ Registry!AloneInv /\ Registry!NoneDropped
      /\ Registry!Alone => 1 .. made \subseteq
            Registry!ClientsOf(connections) \cup closing
  BY DEF Registry!RegistryInv, Registry!NoneDropped
<1>. DEFINE Stands(t) ==
                /\ registryPc[t] = "idle" => registryRest[t] = <<>>
                /\ registryRest[t] # <<>> \/ registryPc[t] = "disconnectAll"
                      => registryRest[t] = connections
                /\ Registry!Closing(t) =>
                    /\ \E i \in DOMAIN connections :
                          registryEntry[t] = connections[i]
                    /\ registryEntry[t].client \in closing
                    /\ registryRest[t] # <<>> =>
                          registryEntry[t] = Head(registryRest[t])
<1>2. ASSUME Registry!Alone, NEW t \in callers
      PROVE  Stands(t)
  BY <1>1, <1>2 DEF Registry!AloneInv
(* Alone, it is enough to look at the task that took the step.             *)
<1>3. ASSUME NEW t \in callers, callers' = callers,
             Registry!Alone => Stands(t)',
             Registry!Alone => 1 .. made' \subseteq
                Registry!ClientsOf(connections)' \cup closing',
             \A i \in DOMAIN connections' :
                connections'[i].client \in 1 .. made',
             \A u \in Tasks : \A i \in DOMAIN registryRest'[u] :
                registryRest'[u][i].client \in 1 .. made'
      PROVE  Registry!RegistryInv'
  <2>1. Registry!Alone' <=> Registry!Alone
    BY <1>3 DEF Registry!Alone
  <2>2. Registry!AloneInv'
    <3>. SUFFICES ASSUME Registry!Alone, NEW u \in callers
                  PROVE  Stands(u)'
      BY <1>3, <2>1 DEF Registry!AloneInv
    <3>1. u = t
      BY DEF Registry!Alone
    <3>. QED
      BY <1>3, <3>1
  <2>3. Registry!NoneDropped'
    BY <1>3, <2>1 DEF Registry!NoneDropped, Registry!ClientsOf
  <2>4. /\ Registry!ClientsOf(connections)' \subseteq 1 .. made'
        /\ \A u \in Tasks :
             Registry!ClientsOf(registryRest[u])' \subseteq 1 .. made'
    BY <1>3 DEF Registry!ClientsOf
  <2>. QED
    BY <2>2, <2>3, <2>4 DEF Registry!RegistryInv, Registry!ClientsOf
<1>. USE DEF Registry!calls, Registry!Goto, Registry!Forget
<1>4. ASSUME NEW t \in callers, Registry!Register(t)
      PROVE  Registry!RegistryInv'
  <2>1. PICK n \in Names :
          connections' = Append(connections, [name |-> n, client |-> made + 1])
    BY <1>4 DEF Registry!Register
  <2>. DEFINE e == [name |-> n, client |-> made + 1]
  <2>2. PICK m \in Nat : m = Len(connections) /\ DOMAIN connections = 1 .. m
    BY <1>0
  <2>3. /\ DOMAIN connections' = 1 .. m + 1 /\ connections'[m + 1] = e
        /\ \A i \in 1 .. m : connections'[i] = connections[i]
    BY <1>0, <2>1, <2>2
  <2>4. e.client = made + 1
    OBVIOUS
  <2>. HIDE DEF e
  <2>5. /\ made' = made + 1 /\ callers' = callers /\ closing' = closing
        /\ UNCHANGED <<registryPc, registryRest, registryEntry>>
        /\ registryPc[t] = "idle"
    BY <1>4 DEF Registry!Register
  <2>6. \A i \in 1 .. m + 1 : i = m + 1 \/ i \in 1 .. m
    OBVIOUS
  <2>7. \A i \in DOMAIN connections' : connections'[i].client \in 1 .. made'
    BY <1>0, <2>2, <2>3, <2>4, <2>5, <2>6
  <2>8. Registry!Alone => 1 .. made' \subseteq
          Registry!ClientsOf(connections)' \cup closing'
    <3>1. Registry!ClientsOf(connections)' =
            {connections'[i].client : i \in DOMAIN connections'}
      BY DEF Registry!ClientsOf
    <3>2. \A x \in Registry!ClientsOf(connections) \cup {made + 1} :
            x \in Registry!ClientsOf(connections)'
      BY <2>2, <2>3, <2>4, <3>1 DEF Registry!ClientsOf
    <3>3. \A x \in 1 .. made + 1 : x = made + 1 \/ x \in 1 .. made
      BY <1>0
    <3>. QED
      BY <1>1, <2>5, <3>2, <3>3
  <2>9. Registry!Alone => Stands(t)'
    BY <1>2, <2>5 DEF Registry!Closing
  <2>10. \A u \in Tasks : \A i \in DOMAIN registryRest'[u] :
           registryRest'[u][i].client \in 1 .. made'
    BY <1>0, <2>5
  <2>. HIDE DEF Stands
  <2>. QED
    BY <1>3, <2>5, <2>7, <2>8, <2>9, <2>10
(* The clients are those there were, and the closing ones.                 *)
<1>5. ASSUME NEW t \in callers, Registry!Alone => Stands(t)',
             UNCHANGED <<callers, made, connections>>,
             closing \subseteq closing',
             \A u \in Tasks : \A i \in DOMAIN registryRest'[u] :
                registryRest'[u][i].client \in 1 .. made'
      PROVE  Registry!RegistryInv'
  <2>1. Registry!ClientsOf(connections)' = Registry!ClientsOf(connections)
    BY <1>5 DEF Registry!ClientsOf
  <2>2. Registry!Alone => 1 .. made' \subseteq
          Registry!ClientsOf(connections)' \cup closing'
    BY <1>1, <1>5, <2>1
  <2>3. \A i \in DOMAIN connections' : connections'[i].client \in 1 .. made'
    BY <1>0, <1>5
  <2>. HIDE DEF Stands
  <2>. QED
    BY <1>3, <1>5, <2>2, <2>3
<1>6. ASSUME NEW t \in callers, Registry!SetDefault(t)
      PROVE  Registry!RegistryInv'
  <2>1. Registry!Alone => Stands(t)'
    BY <1>2, <1>6 DEF Registry!SetDefault, Registry!Closing
  <2>. HIDE DEF Stands
  <2>. QED
    BY <1>0, <1>5, <1>6, <2>1 DEF Registry!SetDefault
<1>7. ASSUME NEW t \in callers, Registry!Unregister(t)
      PROVE  Registry!RegistryInv'
  <2>1. PICK i \in DOMAIN connections :
          /\ registryEntry' = [registryEntry EXCEPT ![t] = connections[i]]
          /\ closing' = closing \cup {connections[i].client}
    BY <1>7 DEF Registry!Unregister
  <2>2. /\ registryPc[t] = "idle" /\ registryPc'[t] = "close"
        /\ registryEntry'[t] = connections[i]
        /\ UNCHANGED <<callers, connections, made, registryRest>>
    BY <1>0, <1>7, <2>1 DEF Registry!Unregister
  <2>3. Registry!Alone => Stands(t)'
    BY <1>2, <2>1, <2>2 DEF Registry!Closing
  <2>. HIDE DEF Stands
  <2>. QED
    BY <1>0, <1>5, <2>1, <2>2, <2>3
<1>8. ASSUME NEW t \in callers, Registry!DisconnectAll(t)
      PROVE  Registry!RegistryInv'
  <2>1. /\ registryRest' = [registryRest EXCEPT ![t] = connections]
        /\ registryRest'[t] = connections
        /\ registryPc'[t] = "disconnectAll"
        /\ UNCHANGED <<callers, connections, made, closing>>
    BY <1>0, <1>8 DEF Registry!DisconnectAll
  <2>2. Registry!Alone => Stands(t)'
    BY <2>1 DEF Registry!Closing
  <2>3. \A u \in Tasks : \A i \in DOMAIN registryRest'[u] :
          registryRest'[u][i].client \in 1 .. made'
    BY <1>0, <2>1
  <2>. HIDE DEF Stands
  <2>. QED
    BY <1>5, <2>1, <2>2, <2>3
<1>9. ASSUME NEW t \in callers, Registry!DisconnectNext(t)
      PROVE  Registry!RegistryInv'
  <2>1. /\ registryPc[t] = "disconnectAll" /\ registryPc'[t] = "close"
        /\ registryRest[t] # <<>>
        /\ registryEntry'[t] = Head(registryRest[t])
        /\ closing' = closing \cup {Head(registryRest[t]).client}
        /\ UNCHANGED <<callers, connections, made, registryRest>>
    BY <1>0, <1>9 DEF Registry!DisconnectNext
  <2>2. Registry!Alone => \E i \in DOMAIN connections :
          Head(registryRest[t]) = connections[i]
    <3>1. connections # <<>> =>
            Head(connections) = connections[1] /\ 1 \in DOMAIN connections
      BY <1>0
    <3>. QED
      BY <1>2, <2>1, <3>1
  <2>3. Registry!Alone => Stands(t)'
    BY <1>2, <2>1, <2>2 DEF Registry!Closing
  <2>. HIDE DEF Stands
  <2>. QED
    BY <1>0, <1>5, <2>1, <2>3
<1>10. ASSUME NEW t \in callers, Registry!Close(t)
       PROVE  Registry!RegistryInv'
  <2>1. /\ registryPc[t] = "close"
        /\ registryPc'[t] \in {"closed", "closeFailed"}
        /\ UNCHANGED <<callers, connections, made, closing, registryEntry,
                       registryRest>>
    BY <1>0, <1>10 DEF Registry!Close
  <2>2. Registry!Alone => Stands(t)'
    BY <1>2, <2>1 DEF Registry!Closing
  <2>. HIDE DEF Stands
  <2>. QED
    BY <1>0, <1>5, <2>1, <2>2
(* The entry that goes is the one whose client is closing.                 *)
<1>11. ASSUME NEW t \in callers, registryPc[t] \in {"closed", "closeFailed"},
              connections' = Registry!Without(registryEntry[t].name),
              UNCHANGED <<callers, made, closing>>,
              Registry!Alone => Stands(t)',
              \A u \in Tasks : \A i \in DOMAIN registryRest'[u] :
                 registryRest'[u][i].client \in 1 .. made'
       PROVE  Registry!RegistryInv'
  <2>. DEFINE n == registryEntry[t].name
  <2>1. LacksName(connections', n)
    BY <1>0, <1>11, RegistryWithout
  <2>2. /\ \A j \in DOMAIN connections' :
             \E i \in DOMAIN connections : connections'[j] = connections[i]
        /\ \A i \in DOMAIN connections : connections[i].name # n =>
             \E j \in DOMAIN connections' : connections'[j] = connections[i]
    BY <2>1 DEF LacksName
  <2>3. \A j \in DOMAIN connections' : connections'[j].client \in 1 .. made'
    BY <1>0, <1>11, <2>2
  <2>4. ASSUME Registry!Alone
        PROVE  1 .. made' \subseteq
                 Registry!ClientsOf(connections)' \cup closing'
    <3>1. /\ \E i \in DOMAIN connections : registryEntry[t] = connections[i]
          /\ registryEntry[t].client \in closing
      BY <1>2, <1>11, <2>4 DEF Registry!Closing
    <3>2. \A i \in DOMAIN connections :
            connections[i].name = n => connections[i].client \in closing
      BY <1>0, <3>1 DEF UniqueNames
    <3>3. Registry!ClientsOf(connections)' =
            {connections'[i].client : i \in DOMAIN connections'}
      BY DEF Registry!ClientsOf
    <3>4. \A x \in Registry!ClientsOf(connections) :
            x \in Registry!ClientsOf(connections)' \/ x \in closing
      BY <2>2, <3>2, <3>3 DEF Registry!ClientsOf
    <3>. QED
      BY <1>1, <1>11, <2>4, <3>4
  <2>. HIDE DEF Stands
  <2>. QED
    BY <1>3, <1>11, <2>3, <2>4
<1>12. ASSUME NEW t \in callers, Registry!Unregistered(t)
       PROVE  Registry!RegistryInv'
  <2>1. /\ registryPc[t] = "closed" /\ registryPc'[t] = "idle"
        /\ registryRest[t] = <<>>
        /\ connections' = Registry!Without(registryEntry[t].name)
        /\ UNCHANGED <<callers, made, closing, registryRest>>
    BY <1>0, <1>12 DEF Registry!Unregistered
  <2>2. Registry!Alone => Stands(t)'
    BY <2>1 DEF Registry!Closing
  <2>. HIDE DEF Stands
  <2>. QED
    BY <1>0, <1>11, <2>1, <2>2
<1>13. ASSUME NEW t \in callers, Registry!UnregisterFails(t)
       PROVE  Registry!RegistryInv'
  <2>1. /\ registryPc'[t] = "idle" /\ registryRest[t] = <<>>
        /\ UNCHANGED <<callers, made, closing, connections, registryRest>>
    BY <1>0, <1>13 DEF Registry!UnregisterFails
  <2>2. Registry!Alone => Stands(t)'
    BY <2>1 DEF Registry!Closing
  <2>. HIDE DEF Stands
  <2>. QED
    BY <1>0, <1>5, <2>1, <2>2
<1>14. ASSUME NEW t \in callers, Registry!Disconnected(t)
       PROVE  Registry!RegistryInv'
  <2>. DEFINE r == registryRest[t]
  <2>1. /\ registryPc[t] \in {"closed", "closeFailed"}
        /\ registryPc'[t] = "disconnectAll"
        /\ r # <<>> /\ r \in Seq(Registry!Entries)
        /\ registryRest' = [registryRest EXCEPT ![t] = Tail(r)]
        /\ registryRest'[t] = Tail(r)
        /\ connections' = Registry!Without(registryEntry[t].name)
        /\ UNCHANGED <<callers, made, closing>>
    BY <1>0, <1>14 DEF Registry!Disconnected
  <2>2. \A u \in Tasks : \A i \in DOMAIN registryRest'[u] :
          registryRest'[u][i].client \in 1 .. made'
    <3>1. \A i \in DOMAIN Tail(r) : \E j \in DOMAIN r : Tail(r)[i] = r[j]
      BY <2>1
    <3>2. \A i \in DOMAIN Tail(r) : Tail(r)[i].client \in 1 .. made
      BY <1>0, <3>1
    <3>. QED
      BY <1>0, <2>1, <3>2
  <2>3. ASSUME Registry!Alone
        PROVE  Stands(t)'
    <3>1. r = connections /\ registryEntry[t] = Head(r)
      BY <1>2, <2>1, <2>3 DEF Registry!Closing
    <3>2. connections # <<>> /\ connections[1].name = registryEntry[t].name
      BY <1>0, <2>1, <3>1
    <3>3. connections' = Tail(connections)
      BY <1>0, <2>1, <3>2, RegistryWithout DEF LacksName
    <3>. QED
      BY <2>1, <3>1, <3>3 DEF Registry!Closing
  <2>. HIDE DEF Stands
  <2>. QED
    BY <1>11, <2>1, <2>2, <2>3
<1>15. ASSUME NEW t \in callers, Registry!DisconnectAllReturns(t)
       PROVE  Registry!RegistryInv'
  <2>1. /\ registryPc'[t] = "idle" /\ registryRest[t] = <<>>
        /\ UNCHANGED <<callers, made, closing, connections, registryRest>>
    BY <1>0, <1>15 DEF Registry!DisconnectAllReturns
  <2>2. Registry!Alone => Stands(t)'
    BY <2>1 DEF Registry!Closing
  <2>. HIDE DEF Stands
  <2>. QED
    BY <1>0, <1>5, <2>1, <2>2
<1>. QED
  BY <1>4, <1>6, <1>7, <1>8, <1>9, <1>10, <1>12, <1>13, <1>14, <1>15
     DEF Registry!Next, Registry!Step

(* The registry's invariant, for any callers, names and every bound.       *)
THEOREM RegistryInvariant ==
    Spec => [](Registry!TypeOK /\ Registry!RegistryInv)
<1>. USE ObjectsAssumption
<1>1. Init => Registry!TypeOK /\ Registry!RegistryInv
  BY RegistryInitially DEF Init
<1>2. Registry!TypeOK /\ Registry!RegistryInv /\ [Next]_vars
        => (Registry!TypeOK /\ Registry!RegistryInv)'
  <2>. SUFFICES ASSUME Registry!TypeOK, Registry!RegistryInv, [Next]_vars
                PROVE  (Registry!TypeOK /\ Registry!RegistryInv)'
    OBVIOUS
  <2>1. CASE used = "registry" /\ Registry!Next
    BY <2>1, RegistryTypeStep, RegistryInvStep
  <2>2. CASE UNCHANGED registryVars
    <3>1. Registry!TypeOK'
      BY <2>2, Zenon DEF registryVars, Registry!TypeOK, Registry!Entries,
         Registry!NoEntry
    <3>2. Registry!RegistryInv'
      BY <2>2, Zenon DEF registryVars, Registry!RegistryInv,
         Registry!AloneInv, Registry!NoneDropped, Registry!ClientsOf,
         Registry!Closing, Registry!Alone
    <3>. QED
      BY <3>1, <3>2
  <2>. QED
    BY <2>1, <2>2 DEF Next, vars
<1>. QED
  BY <1>1, <1>2, PTL DEF Spec

(* Of a registry whose calls do not overlap no client is dropped while it  *)
(* is open.                                                                *)
THEOREM RegistryDropsNone == Spec => []NoneDropped
<1>1. Registry!TypeOK /\ Registry!RegistryInv => NoneDropped
  BY DEF NoneDropped, Registry!RegistryInv
<1>. QED
  BY <1>1, RegistryInvariant, PTL
============================================================================
