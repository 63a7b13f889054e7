--------------------------- MODULE ReconcilerProofs ---------------------------
(***************************************************************************)
(* What the reconciling instances do and never do, whatever schemas the    *)
(* database and the code have and however many instances, failures and     *)
(* crashes there are.                                                      *)
(*                                                                         *)
(* The parts, in order: the sequences that a recursion concatenates; what  *)
(* one statement does to a catalog; the emitter's script, and that it      *)
(* defines what is declared; the differ's list, and that each statement of *)
(* it fits the database (Nearer) and stays fitting while others move; the  *)
(* steps of the instances (AlwaysConsistent).  Then that the list leaves   *)
(* nothing out (Shows, Settles: MigratedIsDeclared), that it is empty when *)
(* there is nothing to do (NoSpuriousDriftHolds), and that its reverse     *)
(* undoes it (SafeRollbackRestoresHolds).                                  *)
(***************************************************************************)
EXTENDS SchemaReconciler, SequenceTheorems, FiniteSetTheorems,
        WellFoundedInduction, TLAPS

---------------------------------------------------------------------------
(* Sequences that a recursion concatenates.                                *)

LEMMA LeastNat ==
    ASSUME NEW T \in SUBSET Nat, T # {}
    PROVE  \E n \in T : \A m \in T : n <= m
<1>1. PICK n \in T : \A m \in T : ~ (<<m, n>> \in OpToRel(<, Nat))
  BY WFMin, NatLessThanWellFounded
<1>2. \A m \in T : ~(m < n)
  BY <1>1 DEF OpToRel
<1>. QED
  BY <1>2

(* A set of numbers up to n that has 0, and with each number the next, has *)
(* n.                                                                      *)
LEMMA Reaches ==
    ASSUME NEW n \in Nat, NEW S,
           0 \in S, \A k \in 1 .. n : k - 1 \in S => k \in S
    PROVE  \A k \in 0 .. n : k \in S
<1>. DEFINE T == {k \in 0 .. n : k \notin S}
<1>. SUFFICES ASSUME T # {}
              PROVE  FALSE
  OBVIOUS
<1>. T \in SUBSET Nat
  OBVIOUS
<1>1. PICK k \in T : \A m \in T : k <= m
  BY LeastNat
<1>2. k \in 1 .. n /\ k \notin S
  BY <1>1
<1>3. k - 1 \notin T
  BY <1>1, <1>2
<1>. QED
  BY <1>2, <1>3

(* F[k] is the concatenation of g[1], ..., g[k].                           *)
Concats(F, g, n) ==
    \A k \in 0 .. n : F[k] = IF k = 0 THEN <<>> ELSE F[k - 1] \o g[k]

LEMMA ConcatsExist ==
    ASSUME NEW n \in Nat, NEW g
    PROVE  \E F : F = [k \in 0 .. n |->
                        IF k = 0 THEN <<>> ELSE F[k - 1] \o g[k]]
<1>. DEFINE S == {m \in Nat : \E F : F = [k \in 0 .. m |->
                        IF k = 0 THEN <<>> ELSE F[k - 1] \o g[k]]}
<1>1. 0 \in S
  <2>. DEFINE F == [k \in 0 .. 0 |-> <<>>]
  <2>1. F = [k \in 0 .. 0 |-> IF k = 0 THEN <<>> ELSE F[k - 1] \o g[k]]
    OBVIOUS
  <2>. QED
    BY <2>1
<1>2. ASSUME NEW m \in 1 .. n, m - 1 \in S
      PROVE  m \in S
  <2>1. PICK F : F = [k \in 0 .. (m - 1) |->
                        IF k = 0 THEN <<>> ELSE F[k - 1] \o g[k]]
    BY <1>2
  <2>. DEFINE G == [k \in 0 .. m |-> IF k = m THEN F[m - 1] \o g[m] ELSE F[k]]
  <2>2. \A k \in 0 .. m : G[k] = IF k = 0 THEN <<>> ELSE G[k - 1] \o g[k]
    <3>. SUFFICES ASSUME NEW k \in 0 .. m
                  PROVE  G[k] = IF k = 0 THEN <<>> ELSE G[k - 1] \o g[k]
      OBVIOUS
    <3>1. CASE k = m
      <4>1. m - 1 \in 0 .. m /\ m - 1 # m /\ k # 0
        BY <3>1
      <4>. QED
        BY <3>1, <4>1
    <3>2. CASE k # m
      <4>1. k \in 0 .. (m - 1) /\ G[k] = F[k]
        BY <3>2
      <4>2. F[k] = IF k = 0 THEN <<>> ELSE F[k - 1] \o g[k]
        BY <2>1, <4>1
      <4>3. k # 0 => k - 1 \in 0 .. m /\ k - 1 # m
        BY <4>1
      <4>4. k # 0 => G[k - 1] = F[k - 1]
        BY <4>3
      <4>. QED
        BY <4>1, <4>2, <4>4
    <3>. QED
      BY <3>1, <3>2
  <2>3. G = [k \in 0 .. m |-> G[k]]
    OBVIOUS
  <2>. HIDE DEF G
  <2>4. G = [k \in 0 .. m |-> IF k = 0 THEN <<>> ELSE G[k - 1] \o g[k]]
    BY <2>2, <2>3
  <2>. QED
    BY <2>4
<1>. HIDE DEF S
<1>3. n \in S
  BY <1>1, <1>2, Reaches
<1>. QED
  BY <1>3 DEF S

(* What each g[k] is in, and concatenation keeps, the whole is in.         *)
LEMMA ConcatsClosed ==
    ASSUME NEW n \in Nat, NEW g, NEW F, Concats(F, g, n),
           NEW Q, <<>> \in Q, \A a, b \in Q : a \o b \in Q,
           \A k \in 1 .. n : g[k] \in Q
    PROVE  F[n] \in Q
<1>. DEFINE S == {k \in 0 .. n : F[k] \in Q}
<1>1. 0 \in S
  BY DEF Concats
<1>2. ASSUME NEW k \in 1 .. n, k - 1 \in S
      PROVE  k \in S
  BY <1>2 DEF Concats
<1>. HIDE DEF S
<1>3. n \in S
  BY <1>1, <1>2, Reaches
<1>. QED
  BY <1>3 DEF S

LEMMA ConcatsType ==
    ASSUME NEW n \in Nat, NEW X, NEW g, NEW F, Concats(F, g, n),
           \A k \in 1 .. n : g[k] \in Seq(X)
    PROVE  \A k \in 0 .. n : F[k] \in Seq(X)
<1>. SUFFICES ASSUME NEW k \in 0 .. n
              PROVE  F[k] \in Seq(X)
  OBVIOUS
<1>1. k \in Nat /\ \A j \in 1 .. k : g[j] \in Seq(X)
  OBVIOUS
<1>2. Concats(F, g, k)
  BY DEF Concats
<1>3. <<>> \in Seq(X) /\ \A a, b \in Seq(X) : a \o b \in Seq(X)
  BY EmptySeq, ConcatProperties
<1>. DEFINE Q == Seq(X)
<1>. HIDE DEF Q
<1>4. F[k] \in Q
  BY <1>1, <1>2, <1>3, ConcatsClosed DEF Q
<1>. QED
  BY <1>4 DEF Q

(* The whole has the elements of each g[k].                                *)
LEMMA ConcatsHolds ==
    ASSUME NEW n \in Nat, NEW X, NEW g, NEW F, Concats(F, g, n),
           \A k \in 1 .. n : g[k] \in Seq(X),
           NEW m \in 1 .. n
    PROVE  Range(g[m]) \subseteq Range(F[n])
<1>1. \A k \in 0 .. n : F[k] \in Seq(X)
  BY ConcatsType
<1>. DEFINE S == {k \in 0 .. n : m <= k => Range(g[m]) \subseteq Range(F[k])}
<1>2. 0 \in S
  OBVIOUS
<1>3. ASSUME NEW k \in 1 .. n, k - 1 \in S
      PROVE  k \in S
  <2>1. k \in 0 .. n /\ k - 1 \in 0 .. n /\ k # 0
    OBVIOUS
  <2>2. F[k] = F[k - 1] \o g[k]
    BY ONLY <2>1, Concats(F, g, n) DEF Concats
  <2>3. F[k - 1] \in Seq(X) /\ g[k] \in Seq(X)
    BY <1>1, <2>1
  <2>4. Range(F[k]) = Range(F[k - 1]) \cup Range(g[k])
    BY ONLY <2>2, <2>3, RangeConcatenation
  <2>5. m <= k => m = k \/ m <= k - 1
    OBVIOUS
  <2>. QED
    BY <1>3, <2>1, <2>4, <2>5
<1>4. \A k \in 1 .. n : k - 1 \in S => k \in S
  BY <1>3
<1>. HIDE DEF S
<1>5. n \in S
  BY ONLY <1>2, <1>4, n \in Nat, Reaches
<1>. QED
  BY <1>5 DEF S

---------------------------------------------------------------------------
(* The keys of a finite map are enumerated.                                *)
LEMMA KeysEnumerated ==
    ASSUME NEW S, IsFiniteSet(S)
    PROVE  \E n \in Nat : /\ SetToSeq(S) \in [1 .. n -> S]
                          /\ Len(SetToSeq(S)) = n
                          /\ \A x \in S : \E k \in 1 .. n : SetToSeq(S)[k] = x
<1>. DEFINE n == Cardinality(S)
            P(f) == f \in [1 .. n -> S] /\ IsInjective(f)
            c == CHOOSE f \in [1 .. n -> S] : IsInjective(f)
<1>1. n \in Nat /\ ExistsBijection(1 .. n, S)
  BY FS_CardinalityType
<1>2. PICK f : f \in Bijection(1 .. n, S)
  BY <1>1 DEF ExistsBijection
<1>3. f \in [1 .. n -> S] /\ IsInjective(f)
  BY <1>2 DEF Bijection, Injection, IsInjective
<1>4. c \in [1 .. n -> S] /\ IsInjective(c)
  BY <1>3
<1>5. SetToSeq(S) = c
  BY DEF SetToSeq
<1>. HIDE DEF c
<1>6. c \in Injection(1 .. n, S)
  BY <1>4 DEF Injection, IsInjective
<1>7. IsFiniteSet(1 .. n) /\ Cardinality(1 .. n) = n
  BY <1>1, FS_Interval
<1>8. c \in Surjection(1 .. n, S)
  BY <1>6, <1>7, FS_Injection
<1>9. \A x \in S : \E k \in 1 .. n : c[k] = x
  BY <1>8 DEF Surjection
<1>10. Len(c) = n
  BY <1>1, <1>4
<1>. QED
  BY <1>1, <1>4, <1>5, <1>9, <1>10

(* Each is the recursion over the keys.                                    *)
LEMMA EachUnfolds ==
    ASSUME NEW f, IsFiniteSet(DOMAIN f)
    PROVE  \E n \in Nat : \E g, F :
            /\ Concats(F, g, n)
            /\ Each(f) = F[n]
            /\ \A k \in 1 .. n : \E x \in DOMAIN f : g[k] = f[x]
            /\ \A x \in DOMAIN f : \E k \in 1 .. n : g[k] = f[x]
<1>. DEFINE keys == SetToSeq(DOMAIN f)
<1>1. PICK n \in Nat : /\ keys \in [1 .. n -> DOMAIN f]
                       /\ Len(keys) = n
                       /\ \A x \in DOMAIN f : \E k \in 1 .. n : keys[k] = x
  BY KeysEnumerated
<1>. HIDE DEF keys
<1>. DEFINE g == [k \in 1 .. n |-> f[keys[k]]]
            P(F) == F = [k \in 0 .. n |->
                            IF k = 0 THEN <<>> ELSE F[k - 1] \o f[keys[k]]]
            F == CHOOSE h : P(h)
<1>2. \E h : P(h)
  <2>1. PICK h : h = [k \in 0 .. n |->
                        IF k = 0 THEN <<>> ELSE h[k - 1] \o g[k]]
    BY ConcatsExist
  <2>2. h = [k \in 0 .. n |-> IF k = 0 THEN <<>> ELSE h[k - 1] \o f[keys[k]]]
    <3>1. \A k \in 0 .. n : k # 0 => g[k] = f[keys[k]]
      OBVIOUS
    <3>. QED
      BY <2>1, <3>1
  <2>. QED
    BY <2>2
<1>3. P(F)
  BY <1>2
<1>4. Each(f) = F[n]
  BY <1>1 DEF Each, keys
<1>. HIDE DEF F
<1>5. Concats(F, g, n)
  BY <1>3 DEF Concats
<1>6. /\ \A k \in 1 .. n : \E x \in DOMAIN f : g[k] = f[x]
      /\ \A x \in DOMAIN f : \E k \in 1 .. n : g[k] = f[x]
  BY <1>1
<1>. HIDE DEF g
<1>. QED
  BY <1>4, <1>5, <1>6

(* FlattenSeq is such a recursion too.                                     *)
LEMMA FlattenUnfolds ==
    ASSUME NEW X, NEW s \in Seq(Seq(X))
    PROVE  \E F : Concats(F, s, Len(s)) /\ FlattenSeq(s) = F[Len(s)]
<1>. DEFINE n == Len(s)
<1>0. n \in Nat /\ \A k \in 1 .. n : s[k] \in Seq(X)
  OBVIOUS
<1>1. CASE n = 0
  <2>1. s = <<>> /\ FlattenSeq(s) = <<>>
    BY <1>1, EmptySeq DEF FlattenSeq
  <2>2. Concats([k \in 0 .. 0 |-> <<>>], s, n)
    BY <1>1 DEF Concats
  <2>. QED
    BY <1>1, <2>1, <2>2
<1>2. CASE n # 0
  <2>. DEFINE P(f) == f = [i \in 1 .. n |->
                            IF i = 1 THEN s[i] ELSE f[i - 1] \o s[i]]
              c == CHOOSE f : P(f)
  <2>1. PICK h : h = [k \in 0 .. n |->
                        IF k = 0 THEN <<>> ELSE h[k - 1] \o s[k]]
    BY <1>0, ConcatsExist
  <2>. DEFINE r == [i \in 1 .. n |-> h[i]]
  <2>2. h[0] = <<>> /\ h[1] = <<>> \o s[1]
    <3>1. 0 \in 0 .. n /\ 1 \in 0 .. n
      BY <1>0, <1>2
    <3>2. h[0] = <<>>
      BY ONLY <2>1, <3>1
    <3>3. \A k \in 0 .. n :
            h[k] = IF k = 0 THEN <<>> ELSE h[k - 1] \o s[k]
      BY ONLY <2>1
    <3>4. 1 # 0 /\ 1 - 1 = 0
      OBVIOUS
    <3>5. h[1] = h[0] \o s[1]
      BY ONLY <3>1, <3>3, <3>4
    <3>. QED
      BY <3>2, <3>5
  <2>3. h[1] = s[1]
    <3>1. s[1] \in Seq(X)
      BY <1>0, <1>2
    <3>. QED
      BY <2>2, <3>1, ConcatEmptySeq
  <2>4. \A i \in 1 .. n : r[i] = IF i = 1 THEN s[i] ELSE r[i - 1] \o s[i]
    <3>. SUFFICES ASSUME NEW i \in 1 .. n
                  PROVE  r[i] = IF i = 1 THEN s[i] ELSE r[i - 1] \o s[i]
      OBVIOUS
    <3>1. i \in 0 .. n /\ i # 0 /\ r[i] = h[i]
      OBVIOUS
    <3>2. h[i] = h[i - 1] \o s[i]
      BY ONLY <2>1, <3>1
    <3>3. i # 1 => i - 1 \in 1 .. n
      OBVIOUS
    <3>4. i # 1 => r[i - 1] = h[i - 1]
      BY <3>3
    <3>. QED
      BY <2>3, <3>1, <3>2, <3>4
  <2>5. P(r)
    <3>1. r = [i \in 1 .. n |-> r[i]]
      OBVIOUS
    <3>. HIDE DEF r
    <3>. QED
      BY <2>4, <3>1
  <2>6. P(c)
    BY <2>5
  <2>7. FlattenSeq(s) = c[n]
    BY <1>2 DEF FlattenSeq
  <2>. HIDE DEF c
  <2>. DEFINE F == [k \in 0 .. n |-> IF k = 0 THEN <<>> ELSE c[k]]
  <2>8. ASSUME NEW k \in 0 .. n
        PROVE  F[k] = IF k = 0 THEN <<>> ELSE F[k - 1] \o s[k]
    <3>1. CASE k = 0
      BY <3>1
    <3>2. CASE k = 1
      <4>1. c[1] = s[1] /\ s[1] \in Seq(X)
        BY <1>0, <2>6, <3>2
      <4>2. F[k - 1] = <<>> /\ F[k] = c[1]
        BY <3>2
      <4>. QED
        BY <3>2, <4>1, <4>2, ConcatEmptySeq
    <3>3. CASE k # 0 /\ k # 1
      <4>1. k \in 1 .. n /\ k - 1 \in 0 .. n /\ k - 1 # 0
        BY <3>3
      <4>2. c[k] = c[k - 1] \o s[k]
        BY ONLY <2>6, <3>3, <4>1
      <4>3. F[k] = c[k] /\ F[k - 1] = c[k - 1]
        BY <4>1
      <4>. QED
        BY <3>3, <4>2, <4>3
    <3>. QED
      BY <3>1, <3>2, <3>3
  <2>9. Concats(F, s, n)
    BY <2>8 DEF Concats
  <2>10. F[n] = c[n]
    BY <1>0, <1>2
  <2>. QED
    BY <2>7, <2>9, <2>10
<1>. QED
  BY <1>1, <1>2

---------------------------------------------------------------------------
(* Scripts.                                                                *)
IsScript(s) == s \in Seq(Range(s))

(* A column is defined of a table of T, or of one the script defined       *)
(* before.                                                                 *)
DefinesColumn(s) == s.verb = "DEFINE" /\ s.kind \notin TopLevel
DefinesTable(s, t) == s.verb = "DEFINE" /\ s.kind = "tables" /\ s.name = t

Placed(s, T) ==
    \A k \in DOMAIN s : DefinesColumn(s[k]) =>
        \/ s[k].on \in T
        \/ \E j \in 1 .. k - 1 : DefinesTable(s[j], s[k].on)

LEMMA IsScriptOf ==
    ASSUME NEW X, NEW s \in Seq(X)
    PROVE  IsScript(s) /\ Range(s) \subseteq X
BY SeqOfRange, RangeOfSeq DEF IsScript

LEMMA ScriptIn ==
    ASSUME NEW s, IsScript(s), NEW X, Range(s) \subseteq X
    PROVE  s \in Seq(X)
BY SeqMonotonic DEF IsScript

LEMMA EmptyScript == IsScript(<<>>) /\ Range(<<>>) = {} /\ \A T : Placed(<<>>, T)
<1>1. <<>> \in Seq({}) /\ DOMAIN <<>> = {}
  BY EmptySeq
<1>. QED
  BY <1>1, IsScriptOf DEF Range, Placed

LEMMA SingleScript ==
    ASSUME NEW x
    PROVE  IsScript(<<x>>) /\ Range(<<x>>) = {x} /\ DOMAIN <<x>> = {1}
<1>1. <<x>> \in Seq({x}) /\ DOMAIN <<x>> = {1} /\ <<x>>[1] = x
  OBVIOUS
<1>2. IsScript(<<x>>)
  BY <1>1, IsScriptOf
<1>3. Range(<<x>>) = {x}
  BY <1>1 DEF Range
<1>. QED
  BY <1>1, <1>2, <1>3

LEMMA ConcatScript ==
    ASSUME NEW a, NEW b, IsScript(a), IsScript(b)
    PROVE  /\ IsScript(a \o b)
           /\ Range(a \o b) = Range(a) \cup Range(b)
           /\ \A T : Placed(a, T) /\ Placed(b, T) => Placed(a \o b, T)
<1>. DEFINE X == Range(a) \cup Range(b)
<1>1. a \in Seq(X) /\ b \in Seq(X)
  BY ScriptIn
<1>2. a \o b \in Seq(X) /\ Range(a \o b) = Range(a) \cup Range(b)
  BY <1>1, ConcatProperties, RangeConcatenation
<1>3. ASSUME NEW T, Placed(a, T), Placed(b, T)
      PROVE  Placed(a \o b, T)
  <2>1. /\ DOMAIN a = 1 .. Len(a) /\ DOMAIN b = 1 .. Len(b)
        /\ Len(a) \in Nat /\ Len(b) \in Nat
        /\ DOMAIN (a \o b) = 1 .. Len(a) + Len(b)
        /\ \A i \in 1 .. Len(a) + Len(b) : (a \o b)[i] =
                IF i <= Len(a) THEN a[i] ELSE b[i - Len(a)]
    BY <1>1, <1>2, ConcatProperties, LenProperties
  <2>. DEFINE c == a \o b
  <2>. HIDE DEF c, X
  <2>. SUFFICES ASSUME NEW k \in DOMAIN c, DefinesColumn(c[k]), c[k].on \notin T
                PROVE  \E j \in 1 .. k - 1 : DefinesTable(c[j], c[k].on)
    BY DEF Placed, c
  <2>2. CASE k <= Len(a)
    <3>1. k \in DOMAIN a /\ c[k] = a[k]
      BY <2>1, <2>2 DEF c
    <3>2. PICK j \in 1 .. k - 1 : DefinesTable(a[j], a[k].on)
      BY <1>3, <3>1 DEF Placed
    <3>3. c[j] = a[j]
      BY <2>1, <2>2, <3>1 DEF c
    <3>. QED
      BY <3>1, <3>2, <3>3
  <2>3. CASE ~(k <= Len(a))
    <3>. DEFINE m == k - Len(a)
    <3>1. m \in DOMAIN b /\ c[k] = b[m] /\ k \in Nat
      BY <2>1, <2>3 DEF c
    <3>2. PICK j \in 1 .. m - 1 : DefinesTable(b[j], b[m].on)
      BY <1>3, <3>1 DEF Placed
    <3>3. j + Len(a) \in 1 .. k - 1 /\ c[j + Len(a)] = b[j]
      <4>1. j + Len(a) \in 1 .. k - 1 /\ j + Len(a) \in 1 .. Len(a) + Len(b)
        BY <2>1, <3>1
      <4>2. ~(j + Len(a) <= Len(a)) /\ (j + Len(a)) - Len(a) = j
        BY <2>1, <3>1
      <4>. QED
        BY <2>1, <4>1, <4>2 DEF c
    <3>. QED
      BY <3>1, <3>2, <3>3
  <2>. QED
    BY <2>2, <2>3
<1>. QED
  BY <1>2, <1>3, IsScriptOf

(* What the recursion makes of scripts.                                    *)
LEMMA ConcatsScript ==
    ASSUME NEW n \in Nat, NEW g, NEW F, Concats(F, g, n),
           \A k \in 1 .. n : IsScript(g[k])
    PROVE  /\ IsScript(F[n])
           /\ Range(F[n]) = UNION {Range(g[k]) : k \in 1 .. n}
           /\ \A T : (\A k \in 1 .. n : Placed(g[k], T)) => Placed(F[n], T)
<1>. DEFINE X == UNION {Range(g[k]) : k \in 1 .. n}
<1>1. \A k \in 1 .. n : g[k] \in Seq(X)
  <2>. SUFFICES ASSUME NEW k \in 1 .. n PROVE g[k] \in Seq(X)
    OBVIOUS
  <2>1. Range(g[k]) \subseteq X
    OBVIOUS
  <2>. QED
    BY <2>1, ScriptIn
<1>. HIDE DEF X
<1>2. F[n] \in Seq(X)
  BY <1>1, ConcatsType
<1>3. \A k \in 1 .. n : Range(g[k]) \subseteq Range(F[n])
  BY <1>1, ConcatsHolds
<1>4. ASSUME NEW T, \A k \in 1 .. n : Placed(g[k], T)
      PROVE  Placed(F[n], T)
  <2>. DEFINE Q == {s \in Seq(X) : Placed(s, T)}
  <2>1. <<>> \in Q
    BY EmptySeq, EmptyScript
  <2>2. ASSUME NEW a \in Q, NEW b \in Q
        PROVE  a \o b \in Q
    BY ConcatScript, IsScriptOf, ConcatProperties
  <2>3. \A k \in 1 .. n : g[k] \in Q
    BY <1>1, <1>4
  <2>. HIDE DEF Q
  <2>4. F[n] \in Q
    BY <2>1, <2>2, <2>3, ConcatsClosed
  <2>. QED
    BY <2>4 DEF Q
<1>5. IsScript(F[n]) /\ Range(F[n]) \subseteq X
  BY <1>2, IsScriptOf
<1>. QED
  BY <1>3, <1>4, <1>5 DEF X

LEMMA EachScript ==
    ASSUME NEW f, IsFiniteSet(DOMAIN f), \A x \in DOMAIN f : IsScript(f[x])
    PROVE  /\ IsScript(Each(f))
           /\ Range(Each(f)) = UNION {Range(f[x]) : x \in DOMAIN f}
           /\ \A T : (\A x \in DOMAIN f : Placed(f[x], T)) => Placed(Each(f), T)
<1>1. PICK n, g, F :
            /\ n \in Nat
            /\ Concats(F, g, n)
            /\ Each(f) = F[n]
            /\ \A k \in 1 .. n : \E x \in DOMAIN f : g[k] = f[x]
            /\ \A x \in DOMAIN f : \E k \in 1 .. n : g[k] = f[x]
  BY EachUnfolds
<1>2. \A k \in 1 .. n : IsScript(g[k])
  BY <1>1
<1>3. UNION {Range(g[k]) : k \in 1 .. n} = UNION {Range(f[x]) : x \in DOMAIN f}
  BY <1>1
<1>4. /\ IsScript(F[n])
      /\ Range(F[n]) = UNION {Range(g[k]) : k \in 1 .. n}
      /\ \A T : (\A k \in 1 .. n : Placed(g[k], T)) => Placed(F[n], T)
  BY ONLY <1>1, <1>2, n \in Nat, ConcatsScript
<1>5. ASSUME NEW T, \A x \in DOMAIN f : Placed(f[x], T)
      PROVE  Placed(Each(f), T)
  <2>1. \A k \in 1 .. n : Placed(g[k], T)
    BY <1>1, <1>5
  <2>. QED
    BY <1>1, <1>4, <2>1
<1>. QED
  BY <1>1, <1>3, <1>4, <1>5

(* One element for each key.                                               *)
LEMMA EachSingles ==
    ASSUME NEW S, IsFiniteSet(S), NEW g, NEW f, DOMAIN f = S,
           \A x \in S : f[x] = <<g[x]>>
    PROVE  IsScript(Each(f)) /\ Range(Each(f)) = {g[x] : x \in S}
<1>1. \A x \in DOMAIN f : IsScript(f[x]) /\ Range(f[x]) = {g[x]}
  BY SingleScript
<1>2. UNION {Range(f[x]) : x \in DOMAIN f} = {g[x] : x \in S}
  BY <1>1
<1>. QED
  BY <1>1, <1>2, EachScript

LEMMA FlattenScript ==
    ASSUME NEW n \in Nat, NEW s, s = [i \in 1 .. n |-> s[i]],
           \A i \in 1 .. n : IsScript(s[i])
    PROVE  /\ IsScript(FlattenSeq(s))
           /\ Range(FlattenSeq(s)) = UNION {Range(s[i]) : i \in 1 .. n}
           /\ \A T : (\A i \in 1 .. n : Placed(s[i], T))
                        => Placed(FlattenSeq(s), T)
<1>. DEFINE X == UNION {Range(s[i]) : i \in 1 .. n}
<1>1. \A i \in 1 .. n : s[i] \in Seq(X)
  <2>. SUFFICES ASSUME NEW i \in 1 .. n PROVE s[i] \in Seq(X)
    OBVIOUS
  <2>1. Range(s[i]) \subseteq X
    OBVIOUS
  <2>. QED
    BY <2>1, ScriptIn
<1>. HIDE DEF X
<1>2. s \in [1 .. n -> Seq(X)]
  BY <1>1
<1>3. s \in Seq(Seq(X)) /\ Len(s) = n
  BY <1>2
<1>4. PICK F : Concats(F, s, n) /\ FlattenSeq(s) = F[n]
  BY <1>3, FlattenUnfolds
<1>. QED
  BY <1>4, ConcatsScript

---------------------------------------------------------------------------
(* What a statement makes of a catalog.                                    *)
ColumnKinds == {"fields", "indexes", "events"}
TableParts  == {"mode", "rule"} \cup ColumnKinds

Attributes == {"backend", "readonly", "comment"}

Shaped(c) ==
    /\ DOMAIN c = {"tables", "buckets"}
    /\ IsFiniteSet(DOMAIN c.tables)
    /\ IsFiniteSet(DOMAIN c.buckets)
    /\ \A t \in DOMAIN c.tables :
        /\ DOMAIN c.tables[t] = TableParts
        /\ \A k \in ColumnKinds : IsFiniteSet(DOMAIN c.tables[t][k])
    /\ \A b \in DOMAIN c.buckets : Attributes \subseteq DOMAIN c.buckets[b]

LEMMA PutValue ==
    ASSUME NEW f, NEW x, NEW y
    PROVE  /\ DOMAIN Put(f, x, y) = DOMAIN f \cup {x}
           /\ Put(f, x, y)[x] = y
           /\ \A z \in DOMAIN f : z # x => Put(f, x, y)[z] = f[z]
BY DEF Put, Over

LEMMA WithoutValue ==
    ASSUME NEW f, NEW x
    PROVE  /\ DOMAIN Without(f, x) = DOMAIN f \ {x}
           /\ \A z \in DOMAIN f : z # x => Without(f, x)[z] = f[z]
BY DEF Without, Restrict

LEMMA NothingIsEmpty == DOMAIN Nothing = {}
BY DEF Nothing

(* The table itself.                                                       *)
LEMMA TableDefined ==
    ASSUME NEW c, Shaped(c), NEW s, s.verb = "DEFINE", s.kind = "tables",
           NEW d, d = Execute(s, c)
    PROVE  /\ DOMAIN d = {"tables", "buckets"}
           /\ d.buckets = c.buckets
           /\ DOMAIN d.tables = DOMAIN c.tables \cup {s.name}
           /\ \A u \in DOMAIN c.tables : u # s.name => d.tables[u] = c.tables[u]
           /\ DOMAIN d.tables[s.name] = TableParts
           /\ d.tables[s.name].mode = s.def.mode
           /\ d.tables[s.name].rule = s.def.rule
           /\ DOMAIN d.tables[s.name].fields = DOMAIN Endpoints(s.def.mode)
                \cup (IF s.name \in DOMAIN c.tables
                      THEN DOMAIN c.tables[s.name].fields ELSE {})
           /\ \A n \in DOMAIN Endpoints(s.def.mode) :
                d.tables[s.name].fields[n] = EndpointField
           /\ s.name \in DOMAIN c.tables =>
                /\ \A n \in DOMAIN c.tables[s.name].fields :
                    n \notin DOMAIN Endpoints(s.def.mode) =>
                        d.tables[s.name].fields[n] = c.tables[s.name].fields[n]
                /\ d.tables[s.name].indexes = c.tables[s.name].indexes
                /\ d.tables[s.name].events = c.tables[s.name].events
           /\ s.name \notin DOMAIN c.tables =>
                /\ DOMAIN d.tables[s.name].indexes = {}
                /\ DOMAIN d.tables[s.name].events = {}
<1>. DEFINE old == IF s.name \in DOMAIN c.tables THEN c.tables[s.name]
                   ELSE TableOf(s.def.mode, s.def.rule)
            new == [old EXCEPT !.mode = s.def.mode, !.rule = s.def.rule,
                               !.fields = Over(Endpoints(s.def.mode), @)]
<1>1. d = [c EXCEPT !.tables = Put(@, s.name, new)]
  BY DEF Execute, Defined, Exists, TopLevel
<1>2. DOMAIN old = TableParts
  BY DEF Shaped, TableOf, TableParts, ColumnKinds
<1>3. /\ DOMAIN new = TableParts
      /\ new.mode = s.def.mode
      /\ new.rule = s.def.rule
      /\ new.indexes = old.indexes
      /\ new.events = old.events
      /\ new.fields = Over(Endpoints(s.def.mode), old.fields)
  BY <1>2 DEF TableParts, ColumnKinds
<1>4. /\ DOMAIN new.fields = DOMAIN Endpoints(s.def.mode) \cup DOMAIN old.fields
      /\ \A n \in DOMAIN new.fields :
            new.fields[n] = IF n \in DOMAIN Endpoints(s.def.mode)
                            THEN Endpoints(s.def.mode)[n] ELSE old.fields[n]
  BY <1>3 DEF Over
<1>5. \A n \in DOMAIN Endpoints(s.def.mode) :
        Endpoints(s.def.mode)[n] = EndpointField
  BY DEF Endpoints
<1>6. s.name \notin DOMAIN c.tables =>
        /\ DOMAIN old.fields = {}
        /\ DOMAIN old.indexes = {}
        /\ DOMAIN old.events = {}
  BY NothingIsEmpty DEF TableOf
<1>7. s.name \in DOMAIN c.tables => old = c.tables[s.name]
  OBVIOUS
<1>. HIDE DEF new, old
<1>8. /\ DOMAIN d = {"tables", "buckets"}
      /\ d.buckets = c.buckets
      /\ d.tables = Put(c.tables, s.name, new)
  BY <1>1 DEF Shaped
<1>9. /\ DOMAIN d.tables = DOMAIN c.tables \cup {s.name}
      /\ d.tables[s.name] = new
      /\ \A u \in DOMAIN c.tables : u # s.name => d.tables[u] = c.tables[u]
  BY <1>8 DEF Put, Over
<1>. QED
  BY <1>3, <1>4, <1>5, <1>6, <1>7, <1>8, <1>9

(* A column of a table that exists.                                        *)
LEMMA ColumnDefined ==
    ASSUME NEW c, Shaped(c), NEW s, s.verb = "DEFINE", s.kind \in ColumnKinds,
           s.on \in DOMAIN c.tables, NEW d, d = Execute(s, c)
    PROVE  /\ DOMAIN d = {"tables", "buckets"}
           /\ d.buckets = c.buckets
           /\ DOMAIN d.tables = DOMAIN c.tables
           /\ \A u \in DOMAIN c.tables : u # s.on => d.tables[u] = c.tables[u]
           /\ DOMAIN d.tables[s.on] = TableParts
           /\ \A p \in TableParts \ {s.kind} :
                d.tables[s.on][p] = c.tables[s.on][p]
           /\ d.tables[s.on][s.kind] =
                Put(c.tables[s.on][s.kind], s.name, s.def)
<1>1. s.kind # "tables" /\ s.kind # "buckets"
  BY DEF ColumnKinds
<1>2. d = [c EXCEPT !.tables =
                [c.tables EXCEPT ![s.on][s.kind] = Put(@, s.name, s.def)]]
  BY <1>1 DEF Execute, Defined
<1>. DEFINE new == [c.tables[s.on] EXCEPT ![s.kind] = Put(@, s.name, s.def)]
<1>3. d = [c EXCEPT !.tables = [c.tables EXCEPT ![s.on] = new]]
  BY <1>2
<1>4. /\ DOMAIN new = TableParts
      /\ \A p \in TableParts \ {s.kind} : new[p] = c.tables[s.on][p]
      /\ new[s.kind] = Put(c.tables[s.on][s.kind], s.name, s.def)
  BY DEF Shaped, TableParts
<1>. HIDE DEF new
<1>5. /\ DOMAIN d = {"tables", "buckets"}
      /\ d.buckets = c.buckets
      /\ d.tables = [c.tables EXCEPT ![s.on] = new]
  BY <1>3 DEF Shaped
<1>. QED
  BY <1>4, <1>5

LEMMA BucketDefined ==
    ASSUME NEW c, Shaped(c), NEW s, s.verb = "DEFINE", s.kind = "buckets",
           NEW d, d = Execute(s, c)
    PROVE  /\ DOMAIN d = {"tables", "buckets"}
           /\ d.tables = c.tables
           /\ d.buckets = Put(c.buckets, s.name, s.def)
<1>1. d = [c EXCEPT !.buckets = Put(@, s.name, s.def)]
  BY DEF Execute, Defined
<1>. QED
  BY <1>1 DEF Shaped

LEMMA TopRemoved ==
    ASSUME NEW c, Shaped(c), NEW s, s.verb = "REMOVE", s.kind \in TopLevel,
           s.name \in DOMAIN c[s.kind], NEW d, d = Execute(s, c)
    PROVE  /\ DOMAIN d = {"tables", "buckets"}
           /\ d[s.kind] = Without(c[s.kind], s.name)
           /\ \A k \in TopLevel \ {s.kind} : d[k] = c[k]
<1>1. d = [c EXCEPT ![s.kind] = Without(@, s.name)]
  BY DEF Execute, Removed, Exists
<1>. QED
  BY <1>1 DEF Shaped, TopLevel

LEMMA ColumnRemoved ==
    ASSUME NEW c, Shaped(c), NEW s, s.verb = "REMOVE", s.kind \in ColumnKinds,
           s.on \in DOMAIN c.tables, s.name \in DOMAIN c.tables[s.on][s.kind],
           NEW d, d = Execute(s, c)
    PROVE  /\ DOMAIN d = {"tables", "buckets"}
           /\ d.buckets = c.buckets
           /\ DOMAIN d.tables = DOMAIN c.tables
           /\ \A u \in DOMAIN c.tables : u # s.on => d.tables[u] = c.tables[u]
           /\ DOMAIN d.tables[s.on] = TableParts
           /\ \A p \in TableParts \ {s.kind} :
                d.tables[s.on][p] = c.tables[s.on][p]
           /\ d.tables[s.on][s.kind] =
                Without(c.tables[s.on][s.kind], s.name)
<1>1. s.kind # "tables" /\ s.kind # "buckets"
  BY DEF ColumnKinds
<1>2. d = [c EXCEPT !.tables[s.on][s.kind] = Without(@, s.name)]
  BY <1>1 DEF Execute, Removed, Exists, TopLevel
<1>. DEFINE new == [c.tables[s.on] EXCEPT ![s.kind] = Without(@, s.name)]
<1>3. d = [c EXCEPT !.tables = [c.tables EXCEPT ![s.on] = new]]
  BY <1>2
<1>4. /\ DOMAIN new = TableParts
      /\ \A p \in TableParts \ {s.kind} : new[p] = c.tables[s.on][p]
      /\ new[s.kind] = Without(c.tables[s.on][s.kind], s.name)
  BY DEF Shaped, TableParts
<1>. HIDE DEF new
<1>5. /\ DOMAIN d = {"tables", "buckets"}
      /\ d.buckets = c.buckets
      /\ d.tables = [c.tables EXCEPT ![s.on] = new]
  BY <1>3 DEF Shaped
<1>. QED
  BY <1>4, <1>5

LEMMA BucketAltered ==
    ASSUME NEW c, Shaped(c), NEW s, s.verb = "ALTER",
           s.name \in DOMAIN c.buckets, NEW d, d = Execute(s, c)
    PROVE  /\ DOMAIN d = {"tables", "buckets"}
           /\ d.tables = c.tables
           /\ DOMAIN d.buckets = DOMAIN c.buckets
           /\ \A b \in DOMAIN c.buckets : b # s.name =>
                d.buckets[b] = c.buckets[b]
           /\ \A a \in DOMAIN s.def : d.buckets[s.name][a] = s.def[a]
           /\ \A a \in DOMAIN c.buckets[s.name] : a \notin DOMAIN s.def =>
                d.buckets[s.name][a] = c.buckets[s.name][a]
           /\ DOMAIN d.buckets[s.name] =
                DOMAIN s.def \cup DOMAIN c.buckets[s.name]
<1>1. d = [c EXCEPT !.buckets = [c.buckets EXCEPT ![s.name] = Over(s.def, @)]]
  BY DEF Execute, Altered
<1>2. /\ DOMAIN d = {"tables", "buckets"}
      /\ d.tables = c.tables
      /\ d.buckets = [c.buckets EXCEPT ![s.name] = Over(s.def, @)]
  BY <1>1 DEF Shaped
<1>3. d.buckets[s.name] = Over(s.def, c.buckets[s.name])
  BY <1>2
<1>. QED
  BY <1>2, <1>3 DEF Over

---------------------------------------------------------------------------
(* The elements of a catalog.                                              *)
HasTable(c, k, t) == t \in DOMAIN c.tables /\ SortOf(c.tables[t]) = k

HasField(c, t, n, y) ==
    /\ t \in DOMAIN c.tables
    /\ n \in DOMAIN c.tables[t].fields
    /\ c.tables[t].fields[n].type = y

HasIndex(c, t, n) ==
    t \in DOMAIN c.tables /\ n \in DOMAIN c.tables[t].indexes

HasEvent(c, t, n) ==
    t \in DOMAIN c.tables /\ n \in DOMAIN c.tables[t].events

HasAttribute(c, b, a, v) ==
    b \in DOMAIN c.buckets /\ a \in Attributes /\ c.buckets[b][a] = v

(* Membership, spelt out.                                                  *)
LEMMA InElements ==
    ASSUME NEW c, NEW e
    PROVE  e \in Elements(c) <=>
            \/ \E t \in DOMAIN c.tables :
                \/ e = <<SortOf(c.tables[t]), t>>
                \/ \E n \in DOMAIN c.tables[t].fields :
                        e = <<"field", t, n, c.tables[t].fields[n].type>>
                \/ \E n \in DOMAIN c.tables[t].indexes : e = <<"index", t, n>>
                \/ \E n \in DOMAIN c.tables[t].events : e = <<"event", t, n>>
            \/ \E b \in DOMAIN c.buckets : \E a \in Attributes :
                    e = <<"bucket", b, a, c.buckets[b][a]>>
<1>1. \A t : e \in TableElements(t, c.tables[t]) <=>
                \/ e = <<SortOf(c.tables[t]), t>>
                \/ \E n \in DOMAIN c.tables[t].fields :
                        e = <<"field", t, n, c.tables[t].fields[n].type>>
                \/ \E n \in DOMAIN c.tables[t].indexes : e = <<"index", t, n>>
                \/ \E n \in DOMAIN c.tables[t].events : e = <<"event", t, n>>
  BY Zenon DEF TableElements
<1>2. \A b : e \in BucketElements(b, c.buckets[b]) <=>
                \E a \in Attributes : e = <<"bucket", b, a, c.buckets[b][a]>>
  BY Zenon DEF BucketElements, Attributes
<1>3. e \in Elements(c) <=>
        \/ \E t \in DOMAIN c.tables : e \in TableElements(t, c.tables[t])
        \/ \E b \in DOMAIN c.buckets : e \in BucketElements(b, c.buckets[b])
  BY Zenon DEF Elements
<1>. QED
  BY <1>1, <1>2, <1>3

LEMMA Shapes ==
    ASSUME NEW c, NEW e \in Elements(c)
    PROVE  \/ \E k, t : e = <<k, t>> /\ HasTable(c, k, t)
           \/ \E t, n, y : e = <<"field", t, n, y>> /\ HasField(c, t, n, y)
           \/ \E t, n : e = <<"index", t, n>> /\ HasIndex(c, t, n)
           \/ \E t, n : e = <<"event", t, n>> /\ HasEvent(c, t, n)
           \/ \E b, a, v : e = <<"bucket", b, a, v>> /\ HasAttribute(c, b, a, v)
BY InElements DEF HasTable, HasField, HasIndex, HasEvent, HasAttribute

LEMMA TableElement ==
    ASSUME NEW c, NEW k, NEW t
    PROVE  <<k, t>> \in Elements(c) <=> HasTable(c, k, t)
BY InElements DEF HasTable

LEMMA FieldElement ==
    ASSUME NEW c, NEW t, NEW n, NEW y
    PROVE  <<"field", t, n, y>> \in Elements(c) <=> HasField(c, t, n, y)
BY InElements DEF HasField

LEMMA IndexElement ==
    ASSUME NEW c, NEW t, NEW n
    PROVE  <<"index", t, n>> \in Elements(c) <=> HasIndex(c, t, n)
BY InElements DEF HasIndex

LEMMA EventElement ==
    ASSUME NEW c, NEW t, NEW n
    PROVE  <<"event", t, n>> \in Elements(c) <=> HasEvent(c, t, n)
BY InElements DEF HasEvent

LEMMA BucketElement ==
    ASSUME NEW c, NEW b, NEW a, NEW v
    PROVE  <<"bucket", b, a, v>> \in Elements(c) <=> HasAttribute(c, b, a, v)
BY InElements DEF HasAttribute

---------------------------------------------------------------------------
(* A statement that fits the declared catalog w takes no catalog further   *)
(* from it.                                                                *)
Ends == {"in", "out"}

LEMMA EndpointsAt ==
    ASSUME NEW m, NEW n
    PROVE  n \in DOMAIN Endpoints(m) <=> m = "RELATION" /\ n \in Ends
BY DEF Endpoints, Ends

LEMMA EndpointsFinite ==
    ASSUME NEW m
    PROVE  IsFiniteSet(DOMAIN Endpoints(m))
<1>1. DOMAIN Endpoints(m) = {} \/ DOMAIN Endpoints(m) = {"in"} \cup {"out"}
  BY DEF Endpoints
<1>2. IsFiniteSet({"in"} \cup {"out"})
  BY FS_Singleton, FS_AddElement
<1>. QED
  BY <1>1, <1>2, FS_EmptySet

Fits(s, w) ==
    \/ /\ s.verb = "DEFINE" /\ s.kind = "tables"
       /\ s.name \in DOMAIN w.tables
       /\ SortOf(s.def) = SortOf(w.tables[s.name])
    \/ /\ s.verb = "DEFINE" /\ s.kind = "fields"
       /\ s.on \in DOMAIN w.tables
       /\ s.name \in DOMAIN w.tables[s.on].fields
       /\ s.def.type = w.tables[s.on].fields[s.name].type
    \/ /\ s.verb = "DEFINE" /\ s.kind \in {"indexes", "events"}
       /\ s.on \in DOMAIN w.tables
       /\ s.name \in DOMAIN w.tables[s.on][s.kind]
    \/ /\ s.verb = "DEFINE" /\ s.kind = "buckets"
       /\ s.name \in DOMAIN w.buckets
       /\ Attributes \subseteq DOMAIN s.def
       /\ \A a \in Attributes : s.def[a] = w.buckets[s.name][a]
    \/ /\ s.verb = "REMOVE" /\ s.kind = "tables"
       /\ s.name \notin DOMAIN w.tables
    \/ /\ s.verb = "REMOVE" /\ s.kind \in ColumnKinds
       /\ s.on \in DOMAIN w.tables
       /\ s.name \notin DOMAIN w.tables[s.on][s.kind]
    \/ /\ s.verb = "REMOVE" /\ s.kind = "buckets"
       /\ s.name \notin DOMAIN w.buckets
    \/ /\ s.verb = "ALTER" /\ s.kind = "buckets" /\ ~s.ifExists
       /\ s.name \in DOMAIN w.buckets
       /\ \A a \in DOMAIN s.def \cap Attributes :
            s.def[a] = w.buckets[s.name][a]

(* A relation has its ends.                                                *)
Relational(c) ==
    \A t \in DOMAIN c.tables : c.tables[t].mode = "RELATION" =>
        \A n \in Ends : HasField(c, t, n, EndpointField.type)

(* What both have as a table or an edge is the same of the two.            *)
Alike(c, w) ==
    \A t \in DOMAIN c.tables \cap DOMAIN w.tables :
        SortOf(c.tables[t]) = SortOf(w.tables[t])

Nearer(c, d, w) ==
    /\ \A k, t : /\ HasTable(d, k, t) => HasTable(c, k, t) \/ HasTable(w, k, t)
                 /\ HasTable(c, k, t) /\ HasTable(w, k, t) => HasTable(d, k, t)
    /\ \A t, n, y :
        /\ HasField(d, t, n, y) => HasField(c, t, n, y) \/ HasField(w, t, n, y)
        /\ HasField(c, t, n, y) /\ HasField(w, t, n, y) => HasField(d, t, n, y)
    /\ \A t, n : /\ HasIndex(d, t, n) => HasIndex(c, t, n) \/ HasIndex(w, t, n)
                 /\ HasIndex(c, t, n) /\ HasIndex(w, t, n) => HasIndex(d, t, n)
    /\ \A t, n : /\ HasEvent(d, t, n) => HasEvent(c, t, n) \/ HasEvent(w, t, n)
                 /\ HasEvent(c, t, n) /\ HasEvent(w, t, n) => HasEvent(d, t, n)
    /\ \A b, a, v :
        /\ HasAttribute(d, b, a, v) =>
                HasAttribute(c, b, a, v) \/ HasAttribute(w, b, a, v)
        /\ HasAttribute(c, b, a, v) /\ HasAttribute(w, b, a, v) =>
                HasAttribute(d, b, a, v)

LEMMA NearerElements ==
    ASSUME NEW c, NEW d, NEW w, Nearer(c, d, w)
    PROVE  /\ Elements(d) \ Elements(w) \subseteq Elements(c) \ Elements(w)
           /\ Elements(w) \ Elements(d) \subseteq Elements(w) \ Elements(c)
<1>1. ASSUME NEW e \in Elements(d)
      PROVE  e \in Elements(c) \/ e \in Elements(w)
  BY Shapes, TableElement, FieldElement, IndexElement, EventElement,
     BucketElement DEF Nearer
<1>2. ASSUME NEW e \in Elements(w), e \in Elements(c)
      PROVE  e \in Elements(d)
  <2>1. CASE \E k, t : e = <<k, t>> /\ HasTable(w, k, t)
    BY <1>2, <2>1, TableElement DEF Nearer
  <2>2. CASE \E t, n, y : e = <<"field", t, n, y>> /\ HasField(w, t, n, y)
    BY <1>2, <2>2, FieldElement DEF Nearer
  <2>3. CASE \E t, n : e = <<"index", t, n>> /\ HasIndex(w, t, n)
    BY <1>2, <2>3, IndexElement DEF Nearer
  <2>4. CASE \E t, n : e = <<"event", t, n>> /\ HasEvent(w, t, n)
    BY <1>2, <2>4, EventElement DEF Nearer
  <2>5. CASE \E b, a, v :
                e = <<"bucket", b, a, v>> /\ HasAttribute(w, b, a, v)
    BY <1>2, <2>5, BucketElement DEF Nearer
  <2>. QED
    BY <1>2, <2>1, <2>2, <2>3, <2>4, <2>5, Shapes
<1>. QED
  BY <1>1, <1>2

LEMMA SameTablesNearer ==
    ASSUME NEW c, NEW d, NEW w, d.tables = c.tables
    PROVE  /\ \A k, t : HasTable(d, k, t) <=> HasTable(c, k, t)
           /\ \A t, n, y : HasField(d, t, n, y) <=> HasField(c, t, n, y)
           /\ \A t, n : HasIndex(d, t, n) <=> HasIndex(c, t, n)
           /\ \A t, n : HasEvent(d, t, n) <=> HasEvent(c, t, n)
BY DEF HasTable, HasField, HasIndex, HasEvent

LEMMA SameBucketsNearer ==
    ASSUME NEW c, NEW d, d.buckets = c.buckets
    PROVE  \A b, a, v : HasAttribute(d, b, a, v) <=> HasAttribute(c, b, a, v)
BY DEF HasAttribute

LEMMA DefineTableNearer ==
    ASSUME NEW c, NEW w, NEW s, NEW d, Shaped(c), Relational(c), Relational(w),
           s.verb = "DEFINE", s.kind = "tables", Fits(s, w), d = Execute(s, c)
    PROVE  Shaped(d) /\ Relational(d) /\ Nearer(c, d, w)
<1>. DEFINE t == s.name
<1>1. t \in DOMAIN w.tables /\ SortOf(s.def) = SortOf(w.tables[t])
  BY DEF Fits, ColumnKinds
<1>2. (s.def.mode = "RELATION") <=> (w.tables[t].mode = "RELATION")
  BY <1>1 DEF SortOf
<1>3. /\ DOMAIN d = {"tables", "buckets"}
      /\ d.buckets = c.buckets
      /\ DOMAIN d.tables = DOMAIN c.tables \cup {t}
      /\ \A u \in DOMAIN c.tables : u # t => d.tables[u] = c.tables[u]
      /\ DOMAIN d.tables[t] = TableParts
      /\ d.tables[t].mode = s.def.mode
      /\ DOMAIN d.tables[t].fields = DOMAIN Endpoints(s.def.mode)
            \cup (IF t \in DOMAIN c.tables
                  THEN DOMAIN c.tables[t].fields ELSE {})
      /\ \A n \in DOMAIN Endpoints(s.def.mode) :
            d.tables[t].fields[n] = EndpointField
      /\ t \in DOMAIN c.tables =>
            /\ \A n \in DOMAIN c.tables[t].fields :
                n \notin DOMAIN Endpoints(s.def.mode) =>
                    d.tables[t].fields[n] = c.tables[t].fields[n]
            /\ d.tables[t].indexes = c.tables[t].indexes
            /\ d.tables[t].events = c.tables[t].events
      /\ t \notin DOMAIN c.tables =>
            /\ DOMAIN d.tables[t].indexes = {}
            /\ DOMAIN d.tables[t].events = {}
  BY TableDefined
<1>4. Shaped(d)
  <2>1. IsFiniteSet(DOMAIN d.tables)
    BY <1>3, FS_AddElement DEF Shaped
  <2>2. IsFiniteSet(DOMAIN Endpoints(s.def.mode))
    BY EndpointsFinite
  <2>3. IsFiniteSet(DOMAIN d.tables[t].fields)
    <3>1. IsFiniteSet(IF t \in DOMAIN c.tables
                      THEN DOMAIN c.tables[t].fields ELSE {})
      BY FS_EmptySet DEF Shaped, ColumnKinds
    <3>. DEFINE A == DOMAIN Endpoints(s.def.mode)
                B == IF t \in DOMAIN c.tables
                     THEN DOMAIN c.tables[t].fields ELSE {}
    <3>2. DOMAIN d.tables[t].fields = A \cup B
      BY <1>3
    <3>. HIDE DEF A, B
    <3>3. IsFiniteSet(A \cup B)
      BY <2>2, <3>1, FS_Union DEF A, B
    <3>. QED
      BY <3>2, <3>3
  <2>4. /\ IsFiniteSet(DOMAIN d.tables[t].indexes)
        /\ IsFiniteSet(DOMAIN d.tables[t].events)
    BY <1>3, FS_EmptySet DEF Shaped, ColumnKinds
  <2>5. \A k \in ColumnKinds : IsFiniteSet(DOMAIN d.tables[t][k])
    BY <2>3, <2>4 DEF ColumnKinds
  <2>. QED
    BY <1>3, <2>1, <2>5 DEF Shaped
<1>5. Relational(d)
  <2>. SUFFICES ASSUME NEW u \in DOMAIN d.tables,
                       d.tables[u].mode = "RELATION", NEW n \in Ends
                PROVE  HasField(d, u, n, EndpointField.type)
    BY DEF Relational
  <2>1. CASE u = t
    BY <1>3, <2>1, EndpointsAt DEF HasField
  <2>2. CASE u # t
    BY <1>3, <2>2 DEF HasField, Relational
  <2>. QED
    BY <2>1, <2>2
<1>6. ASSUME NEW k, NEW u
      PROVE  /\ HasTable(d, k, u) => HasTable(c, k, u) \/ HasTable(w, k, u)
             /\ HasTable(c, k, u) /\ HasTable(w, k, u) => HasTable(d, k, u)
  <2>1. SortOf(d.tables[t]) = SortOf(w.tables[t])
    BY <1>1, <1>3 DEF SortOf
  <2>. QED
    BY <1>1, <1>3, <2>1 DEF HasTable
<1>7. ASSUME NEW u, NEW n, NEW y
      PROVE  /\ HasField(d, u, n, y) =>
                    HasField(c, u, n, y) \/ HasField(w, u, n, y)
             /\ HasField(c, u, n, y) /\ HasField(w, u, n, y) =>
                    HasField(d, u, n, y)
  <2>1. CASE u # t
    BY <1>3, <2>1 DEF HasField
  <2>2. CASE u = t /\ n \in DOMAIN Endpoints(s.def.mode)
    <3>1. HasField(w, t, n, EndpointField.type)
      BY <1>1, <1>2, <2>2, EndpointsAt DEF Relational
    <3>. QED
      BY <1>3, <2>2, <3>1 DEF HasField
  <2>3. CASE u = t /\ n \notin DOMAIN Endpoints(s.def.mode)
    BY <1>3, <2>3 DEF HasField
  <2>. QED
    BY <2>1, <2>2, <2>3
<1>8. ASSUME NEW u, NEW n
      PROVE  (HasIndex(d, u, n) <=> HasIndex(c, u, n))
             /\ (HasEvent(d, u, n) <=> HasEvent(c, u, n))
  <2>1. CASE u # t
    BY <1>3, <2>1 DEF HasIndex, HasEvent
  <2>2. CASE u = t /\ t \in DOMAIN c.tables
    BY <1>3, <2>2 DEF HasIndex, HasEvent
  <2>3. CASE u = t /\ t \notin DOMAIN c.tables
    BY <1>3, <2>3 DEF HasIndex, HasEvent
  <2>. QED
    BY <2>1, <2>2, <2>3
<1>9. \A b, a, v : HasAttribute(d, b, a, v) <=> HasAttribute(c, b, a, v)
  BY <1>3, SameBucketsNearer
<1>. QED
  BY <1>4, <1>5, <1>6, <1>7, <1>8, <1>9 DEF Nearer

(* Of a table that keeps its kind and all but one set of columns, the rest *)
(* is as it was.                                                           *)
OneColumn(c, d, t, kind) ==
    /\ DOMAIN d = {"tables", "buckets"}
    /\ d.buckets = c.buckets
    /\ DOMAIN d.tables = DOMAIN c.tables
    /\ t \in DOMAIN c.tables
    /\ kind \in ColumnKinds
    /\ \A u \in DOMAIN c.tables : u # t => d.tables[u] = c.tables[u]
    /\ DOMAIN d.tables[t] = TableParts
    /\ \A p \in TableParts \ {kind} : d.tables[t][p] = c.tables[t][p]

LEMMA OneColumnKeeps ==
    ASSUME NEW c, NEW d, NEW t, NEW kind, Shaped(c), OneColumn(c, d, t, kind)
    PROVE  /\ \A u \in DOMAIN c.tables : d.tables[u].mode = c.tables[u].mode
           /\ \A k, u : HasTable(d, k, u) <=> HasTable(c, k, u)
           /\ \A u, n, y : (u # t \/ kind # "fields") =>
                (HasField(d, u, n, y) <=> HasField(c, u, n, y))
           /\ \A u, n : (u # t \/ kind # "indexes") =>
                (HasIndex(d, u, n) <=> HasIndex(c, u, n))
           /\ \A u, n : (u # t \/ kind # "events") =>
                (HasEvent(d, u, n) <=> HasEvent(c, u, n))
           /\ \A b, a, v : HasAttribute(d, b, a, v) <=> HasAttribute(c, b, a, v)
<1>1. \A u \in DOMAIN c.tables : d.tables[u].mode = c.tables[u].mode
  BY DEF OneColumn, TableParts, ColumnKinds
<1>2. /\ kind # "fields" => d.tables[t].fields = c.tables[t].fields
      /\ kind # "indexes" => d.tables[t].indexes = c.tables[t].indexes
      /\ kind # "events" => d.tables[t].events = c.tables[t].events
  BY DEF OneColumn, TableParts, ColumnKinds
<1>3. \A k, u : HasTable(d, k, u) <=> HasTable(c, k, u)
  BY <1>1 DEF HasTable, SortOf, OneColumn
<1>4. ASSUME NEW u, NEW n, NEW y, u # t \/ kind # "fields"
      PROVE  HasField(d, u, n, y) <=> HasField(c, u, n, y)
  BY <1>2, <1>4 DEF HasField, OneColumn
<1>5. ASSUME NEW u, NEW n, u # t \/ kind # "indexes"
      PROVE  HasIndex(d, u, n) <=> HasIndex(c, u, n)
  BY <1>2, <1>5 DEF HasIndex, OneColumn
<1>6. ASSUME NEW u, NEW n, u # t \/ kind # "events"
      PROVE  HasEvent(d, u, n) <=> HasEvent(c, u, n)
  BY <1>2, <1>6 DEF HasEvent, OneColumn
<1>7. \A b, a, v : HasAttribute(d, b, a, v) <=> HasAttribute(c, b, a, v)
  BY SameBucketsNearer DEF OneColumn
<1>. QED
  BY <1>1, <1>3, <1>4, <1>5, <1>6, <1>7

LEMMA OneColumnShaped ==
    ASSUME NEW c, NEW d, NEW t, NEW kind, Shaped(c), OneColumn(c, d, t, kind),
           IsFiniteSet(DOMAIN d.tables[t][kind])
    PROVE  Shaped(d)
<1>1. \A k \in ColumnKinds : IsFiniteSet(DOMAIN d.tables[t][k])
  BY DEF OneColumn, Shaped, TableParts
<1>. QED
  BY <1>1 DEF OneColumn, Shaped

LEMMA DefineColumnNearer ==
    ASSUME NEW c, NEW w, NEW s, NEW d, Shaped(c), Relational(c), Relational(w),
           Alike(c, w), s.verb = "DEFINE", s.kind \in ColumnKinds, Fits(s, w),
           s.on \in DOMAIN c.tables, d = Execute(s, c)
    PROVE  Shaped(d) /\ Relational(d) /\ Nearer(c, d, w)
<1>. DEFINE t == s.on
<1>1. OneColumn(c, d, t, s.kind)
  BY ColumnDefined DEF OneColumn
<1>2. d.tables[t][s.kind] = Put(c.tables[t][s.kind], s.name, s.def)
  BY ColumnDefined
<1>3. /\ t \in DOMAIN w.tables
      /\ s.name \in DOMAIN w.tables[t][s.kind]
      /\ s.kind = "fields" => s.def.type = w.tables[t].fields[s.name].type
  BY DEF Fits, ColumnKinds
<1>4. Shaped(d)
  <2>1. DOMAIN d.tables[t][s.kind] = DOMAIN c.tables[t][s.kind] \cup {s.name}
    BY <1>2 DEF Put, Over
  <2>2. IsFiniteSet(DOMAIN c.tables[t][s.kind])
    BY DEF Shaped
  <2>. QED
    BY <1>1, <2>1, <2>2, FS_AddElement, OneColumnShaped
<1>. DEFINE K == /\ \A u \in DOMAIN c.tables :
                        d.tables[u].mode = c.tables[u].mode
                 /\ \A k, u : HasTable(d, k, u) <=> HasTable(c, k, u)
                 /\ \A u, n, y : (u # t \/ s.kind # "fields") =>
                        (HasField(d, u, n, y) <=> HasField(c, u, n, y))
                 /\ \A u, n : (u # t \/ s.kind # "indexes") =>
                        (HasIndex(d, u, n) <=> HasIndex(c, u, n))
                 /\ \A u, n : (u # t \/ s.kind # "events") =>
                        (HasEvent(d, u, n) <=> HasEvent(c, u, n))
                 /\ \A b, a, v :
                        HasAttribute(d, b, a, v) <=> HasAttribute(c, b, a, v)
<1>5. K
  BY <1>1, OneColumnKeeps
<1>6. DOMAIN d.tables = DOMAIN c.tables
  BY <1>1 DEF OneColumn
<1>7. ASSUME NEW u, NEW n, NEW y
      PROVE  /\ HasField(d, u, n, y) =>
                    HasField(c, u, n, y) \/ HasField(w, u, n, y)
             /\ HasField(c, u, n, y) /\ HasField(w, u, n, y) =>
                    HasField(d, u, n, y)
  <2>1. CASE u # t \/ s.kind # "fields"
    BY <1>5, <2>1
  <2>2. CASE u = t /\ s.kind = "fields"
    <3>1. d.tables[t].fields = Put(c.tables[t].fields, s.name, s.def)
      BY <1>2, <2>2
    <3>2. HasField(w, t, s.name, s.def.type)
      BY <1>3, <2>2 DEF HasField
    <3>. QED
      BY <1>6, <2>2, <3>1, <3>2 DEF HasField, Put, Over
  <2>. QED
    BY <2>1, <2>2
<1>8. ASSUME NEW u, NEW n
      PROVE  /\ HasIndex(d, u, n) => HasIndex(c, u, n) \/ HasIndex(w, u, n)
             /\ HasIndex(c, u, n) /\ HasIndex(w, u, n) => HasIndex(d, u, n)
  <2>1. CASE u # t \/ s.kind # "indexes"
    BY <1>5, <2>1
  <2>2. CASE u = t /\ s.kind = "indexes"
    <3>1. d.tables[t].indexes = Put(c.tables[t].indexes, s.name, s.def)
      BY <1>2, <2>2
    <3>2. HasIndex(w, t, s.name)
      BY <1>3, <2>2 DEF HasIndex
    <3>. QED
      BY <1>6, <2>2, <3>1, <3>2 DEF HasIndex, Put, Over
  <2>. QED
    BY <2>1, <2>2
<1>9. ASSUME NEW u, NEW n
      PROVE  /\ HasEvent(d, u, n) => HasEvent(c, u, n) \/ HasEvent(w, u, n)
             /\ HasEvent(c, u, n) /\ HasEvent(w, u, n) => HasEvent(d, u, n)
  <2>1. CASE u # t \/ s.kind # "events"
    BY <1>5, <2>1
  <2>2. CASE u = t /\ s.kind = "events"
    <3>1. d.tables[t].events = Put(c.tables[t].events, s.name, s.def)
      BY <1>2, <2>2
    <3>2. HasEvent(w, t, s.name)
      BY <1>3, <2>2 DEF HasEvent
    <3>. QED
      BY <1>6, <2>2, <3>1, <3>2 DEF HasEvent, Put, Over
  <2>. QED
    BY <2>1, <2>2
<1>10. Nearer(c, d, w)
  BY <1>5, <1>7, <1>8, <1>9 DEF Nearer
<1>11. Relational(d)
  <2>. SUFFICES ASSUME NEW u \in DOMAIN d.tables,
                       d.tables[u].mode = "RELATION", NEW n \in Ends
                PROVE  HasField(d, u, n, EndpointField.type)
    BY DEF Relational
  <2>1. HasField(c, u, n, EndpointField.type)
    BY <1>5, <1>6 DEF Relational
  <2>2. CASE u = t
    <3>1. w.tables[t].mode = "RELATION"
      BY <1>3, <1>5, <2>2 DEF Alike, SortOf
    <3>2. HasField(w, t, n, EndpointField.type)
      BY <1>3, <3>1 DEF Relational
    <3>. QED
      BY <1>7, <2>1, <2>2, <3>2
  <2>3. CASE u # t
    BY <1>5, <2>1, <2>3
  <2>. QED
    BY <2>2, <2>3
<1>. QED
  BY <1>4, <1>10, <1>11

LEMMA RemoveColumnNearer ==
    ASSUME NEW c, NEW w, NEW s, NEW d, Shaped(c), Relational(c), Relational(w),
           Alike(c, w), s.verb = "REMOVE", s.kind \in ColumnKinds, Fits(s, w),
           s.on \in DOMAIN c.tables, s.name \in DOMAIN c.tables[s.on][s.kind],
           d = Execute(s, c)
    PROVE  Shaped(d) /\ Relational(d) /\ Nearer(c, d, w)
<1>. DEFINE t == s.on
<1>1. OneColumn(c, d, t, s.kind)
  BY ColumnRemoved DEF OneColumn
<1>2. d.tables[t][s.kind] = Without(c.tables[t][s.kind], s.name)
  BY ColumnRemoved
<1>3. t \in DOMAIN w.tables /\ s.name \notin DOMAIN w.tables[t][s.kind]
  BY DEF Fits, ColumnKinds
<1>4. Shaped(d)
  <2>1. DOMAIN d.tables[t][s.kind] = DOMAIN c.tables[t][s.kind] \ {s.name}
    BY <1>2 DEF Without, Restrict
  <2>2. IsFiniteSet(DOMAIN c.tables[t][s.kind])
    BY DEF Shaped
  <2>. QED
    BY <1>1, <2>1, <2>2, FS_RemoveElement, OneColumnShaped
<1>. DEFINE K == /\ \A u \in DOMAIN c.tables :
                        d.tables[u].mode = c.tables[u].mode
                 /\ \A k, u : HasTable(d, k, u) <=> HasTable(c, k, u)
                 /\ \A u, n, y : (u # t \/ s.kind # "fields") =>
                        (HasField(d, u, n, y) <=> HasField(c, u, n, y))
                 /\ \A u, n : (u # t \/ s.kind # "indexes") =>
                        (HasIndex(d, u, n) <=> HasIndex(c, u, n))
                 /\ \A u, n : (u # t \/ s.kind # "events") =>
                        (HasEvent(d, u, n) <=> HasEvent(c, u, n))
                 /\ \A b, a, v :
                        HasAttribute(d, b, a, v) <=> HasAttribute(c, b, a, v)
<1>5. K
  BY <1>1, OneColumnKeeps
<1>6. DOMAIN d.tables = DOMAIN c.tables
  BY <1>1 DEF OneColumn
<1>7. ASSUME NEW u, NEW n, NEW y
      PROVE  /\ HasField(d, u, n, y) => HasField(c, u, n, y)
             /\ HasField(c, u, n, y) /\ HasField(w, u, n, y) =>
                    HasField(d, u, n, y)
  <2>1. CASE u # t \/ s.kind # "fields"
    BY <1>5, <2>1
  <2>2. CASE u = t /\ s.kind = "fields"
    <3>1. d.tables[t].fields = Without(c.tables[t].fields, s.name)
      BY <1>2, <2>2
    <3>2. ~HasField(w, t, s.name, y)
      BY <1>3, <2>2 DEF HasField
    <3>. QED
      BY <1>6, <2>2, <3>1, <3>2 DEF HasField, Without, Restrict
  <2>. QED
    BY <2>1, <2>2
<1>8. ASSUME NEW u, NEW n
      PROVE  /\ HasIndex(d, u, n) => HasIndex(c, u, n)
             /\ HasIndex(c, u, n) /\ HasIndex(w, u, n) => HasIndex(d, u, n)
  <2>1. CASE u # t \/ s.kind # "indexes"
    BY <1>5, <2>1
  <2>2. CASE u = t /\ s.kind = "indexes"
    <3>1. d.tables[t].indexes = Without(c.tables[t].indexes, s.name)
      BY <1>2, <2>2
    <3>2. ~HasIndex(w, t, s.name)
      BY <1>3, <2>2 DEF HasIndex
    <3>. QED
      BY <1>6, <2>2, <3>1, <3>2 DEF HasIndex, Without, Restrict
  <2>. QED
    BY <2>1, <2>2
<1>9. ASSUME NEW u, NEW n
      PROVE  /\ HasEvent(d, u, n) => HasEvent(c, u, n)
             /\ HasEvent(c, u, n) /\ HasEvent(w, u, n) => HasEvent(d, u, n)
  <2>1. CASE u # t \/ s.kind # "events"
    BY <1>5, <2>1
  <2>2. CASE u = t /\ s.kind = "events"
    <3>1. d.tables[t].events = Without(c.tables[t].events, s.name)
      BY <1>2, <2>2
    <3>2. ~HasEvent(w, t, s.name)
      BY <1>3, <2>2 DEF HasEvent
    <3>. QED
      BY <1>6, <2>2, <3>1, <3>2 DEF HasEvent, Without, Restrict
  <2>. QED
    BY <2>1, <2>2
<1>10. Nearer(c, d, w)
  BY <1>5, <1>7, <1>8, <1>9 DEF Nearer
<1>11. Relational(d)
  <2>. SUFFICES ASSUME NEW u \in DOMAIN d.tables,
                       d.tables[u].mode = "RELATION", NEW n \in Ends
                PROVE  HasField(d, u, n, EndpointField.type)
    BY DEF Relational
  <2>1. HasField(c, u, n, EndpointField.type)
    BY <1>5, <1>6 DEF Relational
  <2>2. CASE u = t
    <3>1. w.tables[t].mode = "RELATION"
      BY <1>3, <1>5, <2>2 DEF Alike, SortOf
    <3>2. HasField(w, t, n, EndpointField.type)
      BY <1>3, <3>1 DEF Relational
    <3>. QED
      BY <1>7, <2>1, <2>2, <3>2
  <2>3. CASE u # t
    BY <1>5, <2>1, <2>3
  <2>. QED
    BY <2>2, <2>3
<1>. QED
  BY <1>4, <1>10, <1>11

LEMMA DefineBucketNearer ==
    ASSUME NEW c, NEW w, NEW s, NEW d, Shaped(c), Relational(c),
           s.verb = "DEFINE", s.kind = "buckets", Fits(s, w), d = Execute(s, c)
    PROVE  Shaped(d) /\ Relational(d) /\ Nearer(c, d, w)
<1>1. /\ s.name \in DOMAIN w.buckets
      /\ Attributes \subseteq DOMAIN s.def
      /\ \A a \in Attributes : s.def[a] = w.buckets[s.name][a]
  BY DEF Fits, ColumnKinds
<1>2. /\ DOMAIN d = {"tables", "buckets"}
      /\ d.tables = c.tables
      /\ d.buckets = Put(c.buckets, s.name, s.def)
  BY BucketDefined
<1>3. /\ DOMAIN d.buckets = DOMAIN c.buckets \cup {s.name}
      /\ d.buckets[s.name] = s.def
      /\ \A b \in DOMAIN c.buckets : b # s.name => d.buckets[b] = c.buckets[b]
  BY <1>2 DEF Put, Over
<1>4. Shaped(d)
  BY <1>1, <1>2, <1>3, FS_AddElement DEF Shaped
<1>5. /\ \A k, t : HasTable(d, k, t) <=> HasTable(c, k, t)
      /\ \A t, n, y : HasField(d, t, n, y) <=> HasField(c, t, n, y)
      /\ \A t, n : HasIndex(d, t, n) <=> HasIndex(c, t, n)
      /\ \A t, n : HasEvent(d, t, n) <=> HasEvent(c, t, n)
  BY <1>2, SameTablesNearer
<1>6. Relational(d)
  BY <1>2, <1>5 DEF Relational
<1>7. ASSUME NEW b, NEW a, NEW v
      PROVE  /\ HasAttribute(d, b, a, v) =>
                    HasAttribute(c, b, a, v) \/ HasAttribute(w, b, a, v)
             /\ HasAttribute(c, b, a, v) /\ HasAttribute(w, b, a, v) =>
                    HasAttribute(d, b, a, v)
  BY <1>1, <1>3 DEF HasAttribute
<1>. QED
  BY <1>4, <1>5, <1>6, <1>7 DEF Nearer

LEMMA RemoveTableNearer ==
    ASSUME NEW c, NEW w, NEW s, NEW d, Shaped(c), Relational(c),
           s.verb = "REMOVE", s.kind = "tables", Fits(s, w),
           s.name \in DOMAIN c.tables, d = Execute(s, c)
    PROVE  Shaped(d) /\ Relational(d) /\ Nearer(c, d, w)
<1>1. s.name \notin DOMAIN w.tables
  BY DEF Fits, ColumnKinds
<1>2. /\ DOMAIN d = {"tables", "buckets"}
      /\ d.tables = Without(c.tables, s.name)
      /\ d.buckets = c.buckets
  <2>1. s.kind \in TopLevel /\ s.name \in DOMAIN c[s.kind]
    BY DEF TopLevel
  <2>. QED
    BY <2>1, TopRemoved DEF TopLevel
<1>3. /\ DOMAIN d.tables = DOMAIN c.tables \ {s.name}
      /\ \A t \in DOMAIN d.tables : d.tables[t] = c.tables[t]
  BY <1>2 DEF Without, Restrict
<1>4. Shaped(d)
  BY <1>2, <1>3, FS_RemoveElement DEF Shaped
<1>5. ASSUME NEW t
      PROVE  /\ \A k : HasTable(d, k, t) <=> t # s.name /\ HasTable(c, k, t)
             /\ \A n, y : HasField(d, t, n, y) <=>
                    t # s.name /\ HasField(c, t, n, y)
             /\ \A n : HasIndex(d, t, n) <=> t # s.name /\ HasIndex(c, t, n)
             /\ \A n : HasEvent(d, t, n) <=> t # s.name /\ HasEvent(c, t, n)
  BY <1>3 DEF HasTable, HasField, HasIndex, HasEvent
<1>6. /\ \A k : ~HasTable(w, k, s.name)
      /\ \A n, y : ~HasField(w, s.name, n, y)
      /\ \A n : ~HasIndex(w, s.name, n)
      /\ \A n : ~HasEvent(w, s.name, n)
  BY <1>1 DEF HasTable, HasField, HasIndex, HasEvent
<1>7. \A b, a, v : HasAttribute(d, b, a, v) <=> HasAttribute(c, b, a, v)
  BY <1>2, SameBucketsNearer
<1>8. Relational(d)
  BY <1>3, <1>5 DEF Relational
<1>. QED
  BY <1>4, <1>5, <1>6, <1>7, <1>8 DEF Nearer

LEMMA RemoveBucketNearer ==
    ASSUME NEW c, NEW w, NEW s, NEW d, Shaped(c), Relational(c),
           s.verb = "REMOVE", s.kind = "buckets", Fits(s, w),
           s.name \in DOMAIN c.buckets, d = Execute(s, c)
    PROVE  Shaped(d) /\ Relational(d) /\ Nearer(c, d, w)
<1>1. s.name \notin DOMAIN w.buckets
  BY DEF Fits, ColumnKinds
<1>2. /\ DOMAIN d = {"tables", "buckets"}
      /\ d.tables = c.tables
      /\ d.buckets = Without(c.buckets, s.name)
  <2>1. s.kind \in TopLevel /\ s.name \in DOMAIN c[s.kind]
    BY DEF TopLevel
  <2>. QED
    BY <2>1, TopRemoved DEF TopLevel
<1>3. /\ DOMAIN d.buckets = DOMAIN c.buckets \ {s.name}
      /\ \A b \in DOMAIN d.buckets : d.buckets[b] = c.buckets[b]
  BY <1>2 DEF Without, Restrict
<1>4. Shaped(d)
  BY <1>2, <1>3, FS_RemoveElement DEF Shaped
<1>5. /\ \A k, t : HasTable(d, k, t) <=> HasTable(c, k, t)
      /\ \A t, n, y : HasField(d, t, n, y) <=> HasField(c, t, n, y)
      /\ \A t, n : HasIndex(d, t, n) <=> HasIndex(c, t, n)
      /\ \A t, n : HasEvent(d, t, n) <=> HasEvent(c, t, n)
  BY <1>2, SameTablesNearer
<1>6. Relational(d)
  BY <1>2, <1>5 DEF Relational
<1>7. ASSUME NEW b, NEW a, NEW v
      PROVE  /\ HasAttribute(d, b, a, v) => HasAttribute(c, b, a, v)
             /\ HasAttribute(c, b, a, v) /\ HasAttribute(w, b, a, v) =>
                    HasAttribute(d, b, a, v)
  BY <1>1, <1>3 DEF HasAttribute
<1>. QED
  BY <1>4, <1>5, <1>6, <1>7 DEF Nearer

LEMMA AlterNearer ==
    ASSUME NEW c, NEW w, NEW s, NEW d, Shaped(c), Relational(c),
           s.verb = "ALTER", Fits(s, w), s.name \in DOMAIN c.buckets,
           d = Execute(s, c)
    PROVE  Shaped(d) /\ Relational(d) /\ Nearer(c, d, w)
<1>1. /\ s.name \in DOMAIN w.buckets
      /\ \A a \in DOMAIN s.def \cap Attributes :
            s.def[a] = w.buckets[s.name][a]
  BY DEF Fits
<1>2. d = [c EXCEPT !.buckets = [c.buckets EXCEPT
                                    ![s.name] = Over(s.def, @)]]
  BY DEF Execute, Altered
<1>3. /\ DOMAIN d = {"tables", "buckets"}
      /\ d.tables = c.tables
      /\ d.buckets = [c.buckets EXCEPT ![s.name] = Over(s.def, @)]
  BY <1>2 DEF Shaped
<1>4. DOMAIN d.buckets = DOMAIN c.buckets
  BY <1>3
<1>5. Shaped(d)
  <2>1. ASSUME NEW b \in DOMAIN d.buckets
        PROVE  Attributes \subseteq DOMAIN d.buckets[b]
    <3>1. CASE b = s.name
      <4>1. DOMAIN d.buckets[b] = DOMAIN s.def \cup DOMAIN c.buckets[b]
        BY <1>3, <3>1 DEF Over
      <4>. QED
        BY <1>4, <4>1 DEF Shaped
    <3>2. CASE b # s.name
      BY <1>3, <1>4, <3>2 DEF Shaped
    <3>. QED
      BY <3>1, <3>2
  <2>. QED
    BY <1>3, <1>4, <2>1 DEF Shaped
<1>6. /\ \A k, t : HasTable(d, k, t) <=> HasTable(c, k, t)
      /\ \A t, n, y : HasField(d, t, n, y) <=> HasField(c, t, n, y)
      /\ \A t, n : HasIndex(d, t, n) <=> HasIndex(c, t, n)
      /\ \A t, n : HasEvent(d, t, n) <=> HasEvent(c, t, n)
  BY <1>3, SameTablesNearer
<1>7. Relational(d)
  BY <1>3, <1>6 DEF Relational
<1>8. ASSUME NEW b, NEW a, NEW v
      PROVE  /\ HasAttribute(d, b, a, v) =>
                    HasAttribute(c, b, a, v) \/ HasAttribute(w, b, a, v)
             /\ HasAttribute(c, b, a, v) /\ HasAttribute(w, b, a, v) =>
                    HasAttribute(d, b, a, v)
  <2>1. CASE b # s.name
    BY <1>3, <2>1 DEF HasAttribute
  <2>2. CASE b = s.name /\ a \in DOMAIN s.def
    <3>1. d.buckets[b][a] = s.def[a]
      BY <1>3, <2>2 DEF Over
    <3>. QED
      BY <1>1, <1>4, <2>2, <3>1 DEF HasAttribute
  <2>3. CASE b = s.name /\ a \notin DOMAIN s.def
    <3>1. a \in DOMAIN c.buckets[b] => d.buckets[b][a] = c.buckets[b][a]
      BY <1>3, <2>3 DEF Over
    <3>. QED
      BY <1>1, <1>4, <2>3, <3>1 DEF HasAttribute, Shaped
  <2>. QED
    BY <2>1, <2>2, <2>3
<1>. QED
  BY <1>5, <1>6, <1>7, <1>8 DEF Nearer

Sound(c, w) == Shaped(c) /\ Relational(c) /\ Alike(c, w)

LEMMA NearerSelf ==
    ASSUME NEW c, NEW w
    PROVE  Nearer(c, c, w)
BY DEF Nearer

LEMMA NearerAlike ==
    ASSUME NEW c, NEW d, NEW w, Alike(c, w), Nearer(c, d, w)
    PROVE  /\ Alike(d, w)
           /\ DOMAIN c.tables \cap DOMAIN w.tables \subseteq DOMAIN d.tables
<1>1. ASSUME NEW t \in DOMAIN d.tables \cap DOMAIN w.tables
      PROVE  SortOf(d.tables[t]) = SortOf(w.tables[t])
  <2>. DEFINE k == SortOf(d.tables[t])
  <2>1. HasTable(d, k, t)
    BY DEF HasTable
  <2>2. HasTable(c, k, t) \/ HasTable(w, k, t)
    BY <2>1 DEF Nearer
  <2>. QED
    BY <2>2 DEF HasTable, Alike
<1>2. ASSUME NEW t \in DOMAIN c.tables \cap DOMAIN w.tables
      PROVE  t \in DOMAIN d.tables
  <2>. DEFINE k == SortOf(c.tables[t])
  <2>1. HasTable(c, k, t) /\ HasTable(w, k, t)
    BY DEF HasTable, Alike
  <2>2. HasTable(d, k, t)
    BY <2>1 DEF Nearer
  <2>. QED
    BY <2>2 DEF HasTable
<1>. QED
  BY <1>1, <1>2 DEF Alike

(* One statement of a script, whether it is refused or not.                *)
LEMMA StepNearer ==
    ASSUME NEW c, NEW w, NEW s, NEW st, NEW d, Sound(c, w), Relational(w),
           Fits(s, w), DefinesColumn(s) => s.on \in DOMAIN c.tables,
           d = Step(s, c, st)
    PROVE  /\ Sound(d, w)
           /\ Nearer(c, d, w)
           /\ DOMAIN c.tables \cap DOMAIN w.tables \subseteq DOMAIN d.tables
           /\ \A t : DefinesTable(s, t) => t \in DOMAIN d.tables
<1>. USE DEF Sound
<1>1. CASE d = c
  <2>1. ASSUME NEW t, DefinesTable(s, t)
        PROVE  t \in DOMAIN c.tables
    <3>1. CASE Refused(s, c, st)
      BY <2>1, <3>1 DEF Refused, Exists, TopLevel, DefinesTable
    <3>2. CASE ~Refused(s, c, st)
      <4>1. c = Execute(s, c)
        BY <1>1, <3>2 DEF Step
      <4>2. DOMAIN c.tables = DOMAIN c.tables \cup {t}
        BY <2>1, <4>1, TableDefined DEF DefinesTable
      <4>. QED
        BY <4>2
    <3>. QED
      BY <3>1, <3>2
  <2>. QED
    BY <1>1, <2>1, NearerSelf
<1>2. CASE d # c
  <2>1. ~Refused(s, c, st) /\ d = Execute(s, c)
    BY <1>2 DEF Step
  <2>2. Shaped(d) /\ Relational(d) /\ Nearer(c, d, w)
    <3>1. CASE s.verb = "DEFINE" /\ s.kind = "tables"
      BY <2>1, <3>1, DefineTableNearer
    <3>2. CASE s.verb = "DEFINE" /\ s.kind \in ColumnKinds
      <4>1. DefinesColumn(s)
        BY <3>2 DEF DefinesColumn, ColumnKinds, TopLevel
      <4>. QED
        BY <2>1, <3>2, <4>1, DefineColumnNearer
    <3>3. CASE s.verb = "DEFINE" /\ s.kind = "buckets"
      BY <2>1, <3>3, DefineBucketNearer
    <3>4. CASE s.verb = "REMOVE"
      <4>0. Execute(s, c) = Removed(s, c)
        BY <3>4 DEF Execute
      <4>1. Exists(s, c)
        BY ONLY <1>2, <2>1, <4>0 DEF Removed
      <4>2. CASE s.kind = "tables"
        <5>1. s.name \in DOMAIN c.tables
          BY <4>1, <4>2 DEF Exists, TopLevel
        <5>. QED
          BY <2>1, <3>4, <4>2, <5>1, RemoveTableNearer
      <4>3. CASE s.kind = "buckets"
        <5>1. s.name \in DOMAIN c.buckets
          BY <4>1, <4>3 DEF Exists, TopLevel
        <5>. QED
          BY <2>1, <3>4, <4>3, <5>1, RemoveBucketNearer
      <4>4. CASE s.kind \in ColumnKinds
        <5>1. /\ s.on \in DOMAIN c.tables
              /\ s.name \in DOMAIN c.tables[s.on][s.kind]
          BY <4>1, <4>4 DEF Exists, TopLevel, ColumnKinds
        <5>. QED
          BY <2>1, <3>4, <4>4, <5>1, RemoveColumnNearer
      <4>. QED
        BY <3>4, <4>2, <4>3, <4>4 DEF Fits
    <3>5. CASE s.verb = "ALTER"
      <4>1. s.kind = "buckets" /\ ~s.ifExists
        BY <3>5 DEF Fits
      <4>2. Exists(s, c)
        BY <2>1, <3>5, <4>1 DEF Refused
      <4>3. s.name \in DOMAIN c.buckets
        BY <4>1, <4>2 DEF Exists, TopLevel
      <4>. QED
        BY <2>1, <3>5, <4>3, AlterNearer
    <3>. QED
      BY <3>1, <3>2, <3>3, <3>4, <3>5 DEF Fits, ColumnKinds
  <2>3. ASSUME NEW t, DefinesTable(s, t)
        PROVE  t \in DOMAIN d.tables
    BY <2>1, <2>3, TableDefined DEF DefinesTable
  <2>. QED
    BY <2>2, <2>3, NearerAlike
<1>. QED
  BY <1>1, <1>2

---------------------------------------------------------------------------
(* What a statement makes, and what it takes away, once it is executed.    *)
Makes(s, e) ==
    \/ /\ s.verb = "DEFINE" /\ s.kind = "tables"
       /\ \/ e = <<SortOf(s.def), s.name>>
          \/ \E n \in DOMAIN Endpoints(s.def.mode) :
                e = <<"field", s.name, n, EndpointField.type>>
    \/ /\ s.verb = "DEFINE" /\ s.kind = "fields"
       /\ e = <<"field", s.on, s.name, s.def.type>>
    \/ /\ s.verb = "DEFINE" /\ s.kind = "indexes"
       /\ e = <<"index", s.on, s.name>>
    \/ /\ s.verb = "DEFINE" /\ s.kind = "events"
       /\ e = <<"event", s.on, s.name>>
    \/ /\ s.verb \in {"DEFINE", "ALTER"} /\ s.kind = "buckets"
       /\ \E a \in DOMAIN s.def \cap Attributes :
            e = <<"bucket", s.name, a, s.def[a]>>

Takes(s, e) ==
    \/ /\ s.verb = "REMOVE" /\ s.kind = "tables"
       /\ \/ \E k : e = <<k, s.name>>
          \/ \E n, y : e = <<"field", s.name, n, y>>
          \/ \E n : e = <<"index", s.name, n>>
          \/ \E n : e = <<"event", s.name, n>>
    \/ /\ s.verb = "REMOVE" /\ s.kind = "fields"
       /\ \E y : e = <<"field", s.on, s.name, y>>
    \/ /\ s.verb = "REMOVE" /\ s.kind = "indexes"
       /\ e = <<"index", s.on, s.name>>
    \/ /\ s.verb = "REMOVE" /\ s.kind = "events"
       /\ e = <<"event", s.on, s.name>>
    \/ /\ s.verb = "REMOVE" /\ s.kind = "buckets"
       /\ \E a, v : e = <<"bucket", s.name, a, v>>
    \/ /\ s.verb = "DEFINE" /\ s.kind = "fields"
       /\ \E y : e = <<"field", s.on, s.name, y>> /\ y # s.def.type
    \/ /\ s.verb = "ALTER" /\ s.kind = "buckets"
       /\ \E a \in DOMAIN s.def \cap Attributes : \E v :
            e = <<"bucket", s.name, a, v>> /\ v # s.def[a]

(* The columns that are defined or removed are those of a table that       *)
(* exists.                                                                 *)
LEMMA MadeIsThere ==
    ASSUME NEW c, NEW s, NEW st, NEW e, Shaped(c), ~Refused(s, c, st),
           s.verb # "DEFINE" => ~s.ifExists,
           DefinesColumn(s) => s.on \in DOMAIN c.tables, Makes(s, e)
    PROVE  e \in Elements(Execute(s, c))
<1>. DEFINE d == Execute(s, c)
<1>. HIDE DEF d
<1>1. CASE s.verb = "DEFINE" /\ s.kind = "tables"
  <2>1. /\ s.name \in DOMAIN d.tables
        /\ d.tables[s.name].mode = s.def.mode
        /\ DOMAIN Endpoints(s.def.mode) \subseteq DOMAIN d.tables[s.name].fields
        /\ \A n \in DOMAIN Endpoints(s.def.mode) :
                d.tables[s.name].fields[n] = EndpointField
    BY <1>1, TableDefined DEF d
  <2>2. HasTable(d, SortOf(s.def), s.name)
    BY <2>1 DEF HasTable, SortOf
  <2>3. \A n \in DOMAIN Endpoints(s.def.mode) :
            HasField(d, s.name, n, EndpointField.type)
    BY <2>1 DEF HasField
  <2>4. \/ e = <<SortOf(s.def), s.name>>
        \/ \E n \in DOMAIN Endpoints(s.def.mode) :
                e = <<"field", s.name, n, EndpointField.type>>
    BY <1>1 DEF Makes
  <2>. QED
    BY <2>2, <2>3, <2>4, TableElement, FieldElement DEF d
<1>2. CASE s.verb = "DEFINE" /\ s.kind \in ColumnKinds
  <2>1. s.on \in DOMAIN c.tables
    BY <1>2 DEF DefinesColumn, ColumnKinds, TopLevel
  <2>2. /\ DOMAIN d.tables = DOMAIN c.tables
        /\ d.tables[s.on][s.kind] =
                Put(c.tables[s.on][s.kind], s.name, s.def)
    BY <1>2, <2>1, ColumnDefined DEF d
  <2>3. /\ s.on \in DOMAIN d.tables
        /\ s.name \in DOMAIN d.tables[s.on][s.kind]
        /\ d.tables[s.on][s.kind][s.name] = s.def
    BY <2>1, <2>2 DEF Put, Over
  <2>4. CASE s.kind = "fields"
    <3>1. HasField(d, s.on, s.name, s.def.type)
      BY <2>3, <2>4 DEF HasField
    <3>2. e = <<"field", s.on, s.name, s.def.type>>
      BY <1>2, <2>4 DEF Makes
    <3>. QED
      BY <3>1, <3>2, FieldElement DEF d
  <2>5. CASE s.kind = "indexes"
    <3>1. HasIndex(d, s.on, s.name)
      BY <2>3, <2>5 DEF HasIndex
    <3>2. e = <<"index", s.on, s.name>>
      BY <1>2, <2>5 DEF Makes
    <3>. QED
      BY <3>1, <3>2, IndexElement DEF d
  <2>6. CASE s.kind = "events"
    <3>1. HasEvent(d, s.on, s.name)
      BY <2>3, <2>6 DEF HasEvent
    <3>2. e = <<"event", s.on, s.name>>
      BY <1>2, <2>6 DEF Makes
    <3>. QED
      BY <3>1, <3>2, EventElement DEF d
  <2>. QED
    BY <1>2, <2>4, <2>5, <2>6 DEF ColumnKinds
<1>3. CASE s.verb = "DEFINE" /\ s.kind = "buckets"
  <2>1. d.buckets = Put(c.buckets, s.name, s.def)
    BY <1>3, BucketDefined DEF d
  <2>2. PICK a \in DOMAIN s.def \cap Attributes :
            e = <<"bucket", s.name, a, s.def[a]>>
    BY <1>3 DEF Makes
  <2>3. HasAttribute(d, s.name, a, s.def[a])
    BY <2>1 DEF HasAttribute, Put, Over
  <2>. QED
    BY <2>2, <2>3, BucketElement DEF d
<1>4. CASE s.verb = "ALTER"
  <2>1. PICK a \in DOMAIN s.def \cap Attributes :
            e = <<"bucket", s.name, a, s.def[a]>>
    BY <1>4 DEF Makes
  <2>2. s.kind = "buckets"
    BY <1>4 DEF Makes
  <2>3. s.name \in DOMAIN c.buckets
    BY <1>4, <2>2 DEF Refused, Exists, TopLevel
  <2>4. /\ DOMAIN d.buckets = DOMAIN c.buckets
        /\ \A x \in DOMAIN s.def : d.buckets[s.name][x] = s.def[x]
    BY <1>4, <2>3, BucketAltered DEF d
  <2>5. HasAttribute(d, s.name, a, s.def[a])
    BY <2>3, <2>4 DEF HasAttribute
  <2>. QED
    BY <2>1, <2>5, BucketElement DEF d
<1>. QED
  BY <1>1, <1>2, <1>3, <1>4 DEF Makes, ColumnKinds

LEMMA TakenIsGone ==
    ASSUME NEW c, NEW s, NEW st, NEW e, Shaped(c), ~Refused(s, c, st),
           s.verb # "DEFINE" => ~s.ifExists,
           DefinesColumn(s) => s.on \in DOMAIN c.tables, Takes(s, e)
    PROVE  e \notin Elements(Execute(s, c))
<1>. DEFINE d == Execute(s, c)
<1>. HIDE DEF d
<1>1. CASE s.verb = "REMOVE" /\ s.kind = "tables"
  <2>1. s.name \in DOMAIN c.tables
    BY <1>1 DEF Refused, Exists, TopLevel
  <2>2. d.tables = Without(c.tables, s.name)
    <3>1. s.kind \in TopLevel /\ s.name \in DOMAIN c[s.kind]
      BY <1>1, <2>1 DEF TopLevel
    <3>. QED
      BY <1>1, <3>1, TopRemoved DEF d
  <2>3. s.name \notin DOMAIN d.tables
    BY <2>2 DEF Without, Restrict
  <2>4. /\ \A k : ~HasTable(d, k, s.name)
        /\ \A n, y : ~HasField(d, s.name, n, y)
        /\ \A n : ~HasIndex(d, s.name, n) /\ ~HasEvent(d, s.name, n)
    BY <2>3 DEF HasTable, HasField, HasIndex, HasEvent
  <2>5. \/ \E k : e = <<k, s.name>>
        \/ \E n, y : e = <<"field", s.name, n, y>>
        \/ \E n : e = <<"index", s.name, n>>
        \/ \E n : e = <<"event", s.name, n>>
    BY <1>1 DEF Takes
  <2>. QED
    BY <2>4, <2>5, TableElement, FieldElement, IndexElement, EventElement
       DEF d
<1>2. CASE s.verb = "REMOVE" /\ s.kind \in ColumnKinds
  <2>1. /\ s.on \in DOMAIN c.tables
        /\ s.name \in DOMAIN c.tables[s.on][s.kind]
    BY <1>2 DEF Refused, Exists, TopLevel, ColumnKinds
  <2>2. d.tables[s.on][s.kind] = Without(c.tables[s.on][s.kind], s.name)
    BY <1>2, <2>1, ColumnRemoved DEF d
  <2>3. s.name \notin DOMAIN d.tables[s.on][s.kind]
    BY <2>2 DEF Without, Restrict
  <2>4. CASE s.kind = "fields"
    <3>1. \A y : ~HasField(d, s.on, s.name, y)
      BY <2>3, <2>4 DEF HasField
    <3>2. \E y : e = <<"field", s.on, s.name, y>>
      BY <1>2, <2>4 DEF Takes
    <3>. QED
      BY <3>1, <3>2, FieldElement DEF d
  <2>5. CASE s.kind = "indexes"
    <3>1. ~HasIndex(d, s.on, s.name)
      BY <2>3, <2>5 DEF HasIndex
    <3>2. e = <<"index", s.on, s.name>>
      BY <1>2, <2>5 DEF Takes
    <3>. QED
      BY <3>1, <3>2, IndexElement DEF d
  <2>6. CASE s.kind = "events"
    <3>1. ~HasEvent(d, s.on, s.name)
      BY <2>3, <2>6 DEF HasEvent
    <3>2. e = <<"event", s.on, s.name>>
      BY <1>2, <2>6 DEF Takes
    <3>. QED
      BY <3>1, <3>2, EventElement DEF d
  <2>. QED
    BY <1>2, <2>4, <2>5, <2>6 DEF ColumnKinds
<1>3. CASE s.verb = "REMOVE" /\ s.kind = "buckets"
  <2>1. s.name \in DOMAIN c.buckets
    BY <1>3 DEF Refused, Exists, TopLevel
  <2>2. d.buckets = Without(c.buckets, s.name)
    <3>1. s.kind \in TopLevel /\ s.name \in DOMAIN c[s.kind]
      BY <1>3, <2>1 DEF TopLevel
    <3>. QED
      BY <1>3, <3>1, TopRemoved DEF d
  <2>3. \A a, v : ~HasAttribute(d, s.name, a, v)
    BY <2>2 DEF Without, Restrict, HasAttribute
  <2>4. \E a, v : e = <<"bucket", s.name, a, v>>
    BY <1>3 DEF Takes
  <2>. QED
    BY <2>3, <2>4, BucketElement DEF d
<1>4. CASE s.verb = "DEFINE"
  <2>1. s.kind = "fields"
    BY <1>4 DEF Takes
  <2>2. PICK y : e = <<"field", s.on, s.name, y>> /\ y # s.def.type
    BY <1>4 DEF Takes
  <2>3. s.on \in DOMAIN c.tables /\ s.kind \in ColumnKinds
    BY <1>4, <2>1 DEF DefinesColumn, ColumnKinds, TopLevel
  <2>4. d.tables[s.on][s.kind] = Put(c.tables[s.on][s.kind], s.name, s.def)
    BY <1>4, <2>3, ColumnDefined DEF d
  <2>5. d.tables[s.on].fields[s.name] = s.def
    BY <2>1, <2>4 DEF Put, Over
  <2>6. ~HasField(d, s.on, s.name, y)
    BY <2>2, <2>5 DEF HasField
  <2>. QED
    BY <2>2, <2>6, FieldElement DEF d
<1>5. CASE s.verb = "ALTER"
  <2>1. PICK a, v :
            /\ a \in DOMAIN s.def \cap Attributes
            /\ e = <<"bucket", s.name, a, v>> /\ v # s.def[a]
    BY <1>5 DEF Takes
  <2>2. s.kind = "buckets"
    BY <1>5 DEF Takes
  <2>3. s.name \in DOMAIN c.buckets
    BY <1>5, <2>2 DEF Refused, Exists, TopLevel
  <2>4. \A x \in DOMAIN s.def : d.buckets[s.name][x] = s.def[x]
    BY <1>5, <2>3, BucketAltered DEF d
  <2>5. ~HasAttribute(d, s.name, a, v)
    BY <2>1, <2>4 DEF HasAttribute
  <2>. QED
    BY <2>1, <2>5, BucketElement DEF d
<1>. QED
  BY <1>1, <1>2, <1>3, <1>4, <1>5 DEF Takes, ColumnKinds

---------------------------------------------------------------------------
(* A run, statement by statement.                                          *)
Runs(r, sql, c, st, n) ==
    \A k \in 0 .. n : r[k] = IF k = 0 THEN c ELSE Step(sql[k], r[k - 1], st)

LEMMA RunUnfolds ==
    ASSUME NEW sql, Len(sql) \in Nat, NEW c, NEW st
    PROVE  \E r : /\ Runs(r, sql, c, st, Len(sql))
                  /\ Run(sql, c, st) = r[Len(sql)]
<1>. DEFINE n == Len(sql)
            P(x) == x = [k \in 0 .. n |->
                            IF k = 0 THEN c ELSE Step(sql[k], x[k - 1], st)]
            f == CHOOSE q : P(q)
<1>1. \E q : P(q)
  <2>0. n \in Nat
    OBVIOUS
  <2>. HIDE DEF n
  <2>. DEFINE S == {m \in Nat : \E r : r = [k \in 0 .. m |->
                          IF k = 0 THEN c ELSE Step(sql[k], r[k - 1], st)]}
  <2>1. 0 \in S
    <3>. DEFINE r == [k \in 0 .. 0 |-> c]
    <3>1. r = [k \in 0 .. 0 |->
                  IF k = 0 THEN c ELSE Step(sql[k], r[k - 1], st)]
      OBVIOUS
    <3>. QED
      BY <3>1
  <2>2. ASSUME NEW m \in 1 .. n, m - 1 \in S
        PROVE  m \in S
    <3>1. PICK r : r = [k \in 0 .. (m - 1) |->
                          IF k = 0 THEN c ELSE Step(sql[k], r[k - 1], st)]
      BY <2>2
    <3>. DEFINE q == [k \in 0 .. m |->
                          IF k = m THEN Step(sql[m], r[m - 1], st) ELSE r[k]]
    <3>2. \A k \in 0 .. m :
              q[k] = IF k = 0 THEN c ELSE Step(sql[k], q[k - 1], st)
      <4>. SUFFICES ASSUME NEW k \in 0 .. m
                    PROVE  q[k] = IF k = 0 THEN c
                                  ELSE Step(sql[k], q[k - 1], st)
        OBVIOUS
      <4>1. CASE k = m
        <5>1. m - 1 \in 0 .. m /\ m - 1 # m /\ k # 0
          BY <4>1
        <5>. QED
          BY <4>1, <5>1
      <4>2. CASE k # m
        <5>1. k \in 0 .. (m - 1) /\ q[k] = r[k]
          BY <4>2
        <5>2. r[k] = IF k = 0 THEN c ELSE Step(sql[k], r[k - 1], st)
          BY <3>1, <5>1
        <5>3. k # 0 => k - 1 \in 0 .. m /\ k - 1 # m
          BY <5>1
        <5>4. k # 0 => q[k - 1] = r[k - 1]
          BY <5>3
        <5>. QED
          BY <5>1, <5>2, <5>4
      <4>. QED
        BY <4>1, <4>2
    <3>3. q = [k \in 0 .. m |-> q[k]]
      OBVIOUS
    <3>. HIDE DEF q
    <3>4. q = [k \in 0 .. m |->
                  IF k = 0 THEN c ELSE Step(sql[k], q[k - 1], st)]
      BY <3>2, <3>3
    <3>5. \E x : x = [k \in 0 .. m |->
                  IF k = 0 THEN c ELSE Step(sql[k], x[k - 1], st)]
      BY <3>4, Zenon
    <3>. QED
      BY <3>5
  <2>. HIDE DEF S
  <2>3. n \in S
    BY <2>0, <2>1, <2>2, Reaches
  <2>. QED
    BY <2>3 DEF S
<1>2. P(f)
  BY <1>1
<1>3. Run(sql, c, st) = f[n]
  BY DEF Run
<1>. HIDE DEF f
<1>4. Runs(f, sql, c, st, n)
  BY <1>2 DEF Runs
<1>. QED
  BY <1>3, <1>4

(* A script that starts with the table of all its columns is placed.       *)
LEMMA HeadPlaced ==
    ASSUME NEW s, IsScript(s), 1 \in DOMAIN s, NEW t, DefinesTable(s[1], t),
           \A x \in Range(s) : DefinesColumn(x) => x.on = t,
           NEW T
    PROVE  Placed(s, T)
<1>1. DOMAIN s = 1 .. Len(s) /\ Len(s) \in Nat
  BY LenProperties DEF IsScript
<1>. SUFFICES ASSUME NEW k \in DOMAIN s, DefinesColumn(s[k])
              PROVE  \E j \in 1 .. k - 1 : DefinesTable(s[j], s[k].on)
  BY DEF Placed
<1>2. s[k].on = t
  BY DEF Range
<1>3. k # 1
  BY DEF DefinesTable, DefinesColumn, TopLevel
<1>4. 1 \in 1 .. k - 1
  BY <1>1, <1>3
<1>. QED
  BY <1>2, <1>4

LEMMA HeadOfConcat ==
    ASSUME NEW a, NEW b, IsScript(a), IsScript(b), 1 \in DOMAIN a
    PROVE  1 \in DOMAIN (a \o b) /\ (a \o b)[1] = a[1]
<1>. DEFINE X == Range(a) \cup Range(b)
<1>1. a \in Seq(X) /\ b \in Seq(X)
  BY ScriptIn
<1>. QED
  BY <1>1

LEMMA RangePlaced ==
    ASSUME NEW s, NEW T, \A x \in Range(s) : DefinesColumn(x) => x.on \in T
    PROVE  Placed(s, T)
BY DEF Placed, Range

LEMMA PlacedMore ==
    ASSUME NEW s, NEW T, NEW U, T \subseteq U, Placed(s, T)
    PROVE  Placed(s, U)
BY DEF Placed

---------------------------------------------------------------------------
(* What the emitter writes.                                                *)
Finite(table) ==
    /\ IsFiniteSet(DOMAIN table.fields)
    /\ IsFiniteSet(DOMAIN table.indexes)
    /\ IsFiniteSet(DOMAIN table.events)

DefineItself(t, table) ==
    Define("tables", t, t, [mode |-> table.mode, rule |-> table.rule])

TableStatements(t, table) ==
    {DefineItself(t, table)}
    \cup {GenerateFieldSql(t, n, table.fields[n]) : n \in DOMAIN table.fields}
    \cup {Define("indexes", t, n, table.indexes[n]) : n \in DOMAIN table.indexes}
    \cup {Define("events", t, n, table.events[n]) : n \in DOMAIN table.events}

LEMMA TableScript ==
    ASSUME NEW t, NEW table, Finite(table)
    PROVE  /\ IsScript(GenerateTableSql(t, table))
           /\ Range(GenerateTableSql(t, table)) = TableStatements(t, table)
           /\ \A T : Placed(GenerateTableSql(t, table), T)
<1>. DEFINE a == <<DefineItself(t, table)>>
            fs == Each([n \in DOMAIN table.fields |->
                            <<GenerateFieldSql(t, n, table.fields[n])>>])
            xs == Each([n \in DOMAIN table.indexes |->
                            <<Define("indexes", t, n, table.indexes[n])>>])
            es == Each([n \in DOMAIN table.events |->
                            <<Define("events", t, n, table.events[n])>>])
<1>1. GenerateTableSql(t, table) = ((a \o fs) \o xs) \o es
  BY DEF GenerateTableSql, DefineItself
<1>2. /\ IsScript(fs)
      /\ Range(fs) = {GenerateFieldSql(t, n, table.fields[n]) :
                            n \in DOMAIN table.fields}
  <2>. DEFINE g == [n \in DOMAIN table.fields |->
                        GenerateFieldSql(t, n, table.fields[n])]
              f == [n \in DOMAIN table.fields |-> <<GenerateFieldSql(t, n, table.fields[n])>>]
  <2>1. IsFiniteSet(DOMAIN table.fields) /\ DOMAIN f = DOMAIN table.fields
    BY DEF Finite
  <2>2. \A n \in DOMAIN table.fields : f[n] = <<g[n]>>
    OBVIOUS
  <2>3. {g[n] : n \in DOMAIN table.fields} = {GenerateFieldSql(t, n, table.fields[n]) :
                            n \in DOMAIN table.fields}
    OBVIOUS
  <2>. HIDE DEF f, g
  <2>4. IsScript(Each(f)) /\ Range(Each(f)) = {g[n] : n \in DOMAIN table.fields}
    BY <2>1, <2>2, EachSingles
  <2>. QED
    BY <2>3, <2>4 DEF f
<1>3. /\ IsScript(xs)
      /\ Range(xs) = {Define("indexes", t, n, table.indexes[n]) :
                            n \in DOMAIN table.indexes}
  <2>. DEFINE g == [n \in DOMAIN table.indexes |->
                        Define("indexes", t, n, table.indexes[n])]
              f == [n \in DOMAIN table.indexes |-> <<Define("indexes", t, n, table.indexes[n])>>]
  <2>1. IsFiniteSet(DOMAIN table.indexes) /\ DOMAIN f = DOMAIN table.indexes
    BY DEF Finite
  <2>2. \A n \in DOMAIN table.indexes : f[n] = <<g[n]>>
    OBVIOUS
  <2>3. {g[n] : n \in DOMAIN table.indexes} = {Define("indexes", t, n, table.indexes[n]) :
                            n \in DOMAIN table.indexes}
    OBVIOUS
  <2>. HIDE DEF f, g
  <2>4. IsScript(Each(f)) /\ Range(Each(f)) = {g[n] : n \in DOMAIN table.indexes}
    BY <2>1, <2>2, EachSingles
  <2>. QED
    BY <2>3, <2>4 DEF f
<1>4. /\ IsScript(es)
      /\ Range(es) = {Define("events", t, n, table.events[n]) :
                            n \in DOMAIN table.events}
  <2>. DEFINE g == [n \in DOMAIN table.events |->
                        Define("events", t, n, table.events[n])]
              f == [n \in DOMAIN table.events |-> <<Define("events", t, n, table.events[n])>>]
  <2>1. IsFiniteSet(DOMAIN table.events) /\ DOMAIN f = DOMAIN table.events
    BY DEF Finite
  <2>2. \A n \in DOMAIN table.events : f[n] = <<g[n]>>
    OBVIOUS
  <2>3. {g[n] : n \in DOMAIN table.events} = {Define("events", t, n, table.events[n]) :
                            n \in DOMAIN table.events}
    OBVIOUS
  <2>. HIDE DEF f, g
  <2>4. IsScript(Each(f)) /\ Range(Each(f)) = {g[n] : n \in DOMAIN table.events}
    BY <2>1, <2>2, EachSingles
  <2>. QED
    BY <2>3, <2>4 DEF f
<1>5. IsScript(a) /\ Range(a) = {DefineItself(t, table)} /\ 1 \in DOMAIN a
      /\ a[1] = DefineItself(t, table)
  BY SingleScript
<1>. DEFINE d == GenerateTableSql(t, table)
<1>. HIDE DEF a, fs, xs, es
<1>6. /\ IsScript(a \o fs) /\ Range(a \o fs) = Range(a) \cup Range(fs)
      /\ 1 \in DOMAIN (a \o fs) /\ (a \o fs)[1] = a[1]
  BY <1>2, <1>5, ConcatScript, HeadOfConcat
<1>. DEFINE b == a \o fs
<1>. HIDE DEF b
<1>7. /\ IsScript(b \o xs) /\ Range(b \o xs) = Range(b) \cup Range(xs)
      /\ 1 \in DOMAIN (b \o xs) /\ (b \o xs)[1] = b[1]
  BY <1>3, <1>6, ConcatScript, HeadOfConcat DEF b
<1>. DEFINE e == b \o xs
<1>. HIDE DEF e
<1>8. /\ IsScript(e \o es) /\ Range(e \o es) = Range(e) \cup Range(es)
      /\ 1 \in DOMAIN (e \o es) /\ (e \o es)[1] = e[1]
  BY <1>4, <1>7, ConcatScript, HeadOfConcat DEF e
<1>9. d = e \o es
  BY <1>1 DEF b, e
<1>. HIDE DEF d
<1>10. Range(d) = TableStatements(t, table)
  BY <1>2, <1>3, <1>4, <1>5, <1>6, <1>7, <1>8, <1>9 DEF b, e, TableStatements
<1>11. DefinesTable(d[1], t)
  BY <1>5, <1>6, <1>7, <1>8, <1>9
     DEF b, e, DefinesTable, DefineItself, Define, Statement
<1>12. \A x \in Range(d) : DefinesColumn(x) => x.on = t
  BY <1>10 DEF TableStatements, DefineItself, GenerateFieldSql, Define,
     Statement
<1>13. IsScript(d) /\ 1 \in DOMAIN d
  BY <1>8, <1>9
<1>14. \A T : Placed(d, T)
  BY <1>11, <1>12, <1>13, HeadPlaced
<1>. QED
  BY <1>10, <1>13, <1>14 DEF d

(* The tables and the edges of a schema.                                   *)
AllTables(s) == Over(s.tables, s.edges)

SchemaStatements(s) ==
    (UNION {TableStatements(t, AllTables(s)[t]) :
                t \in DOMAIN AllTables(s)})
    \cup {Define("buckets", b, b, s.buckets[b]) : b \in DOMAIN s.buckets}

LEMMA DeclarableTables ==
    ASSUME NEW s, Declarable(s)
    PROVE  /\ DOMAIN AllTables(s) = DOMAIN s.tables \cup DOMAIN s.edges
           /\ \A t \in DOMAIN s.tables :
                AllTables(s)[t] = s.tables[t] /\ t \notin DOMAIN s.edges
           /\ \A e \in DOMAIN s.edges :
                AllTables(s)[e] = s.edges[e] /\ e \notin DOMAIN s.tables
           /\ \A t \in DOMAIN AllTables(s) : Finite(AllTables(s)[t])
           /\ IsFiniteSet(DOMAIN AllTables(s))
<1>1. DOMAIN AllTables(s) = DOMAIN s.tables \cup DOMAIN s.edges
  BY DEF AllTables, Over
<1>2. \A t \in DOMAIN s.tables :
                AllTables(s)[t] = s.tables[t] /\ t \notin DOMAIN s.edges
  BY DEF AllTables, Over, Declarable
<1>3. \A e \in DOMAIN s.edges :
                AllTables(s)[e] = s.edges[e] /\ e \notin DOMAIN s.tables
  BY DEF AllTables, Over, Declarable
<1>4. \A t \in DOMAIN s.tables : Finite(s.tables[t])
  BY DEF Declarable, Range, Finite
<1>5. \A e \in DOMAIN s.edges : Finite(s.edges[e])
  BY DEF Declarable, Range, Finite
<1>6. IsFiniteSet(DOMAIN s.tables \cup DOMAIN s.edges)
  BY FS_Union DEF Declarable
<1>. QED
  BY <1>1, <1>2, <1>3, <1>4, <1>5, <1>6

LEMMA SchemaScript ==
    ASSUME NEW s, Declarable(s)
    PROVE  /\ IsScript(GenerateSchemaSql(s))
           /\ Range(GenerateSchemaSql(s)) = SchemaStatements(s)
           /\ \A T : Placed(GenerateSchemaSql(s), T)
<1>. DEFINE ts == Each([t \in DOMAIN s.tables |->
                            GenerateTableSql(t, s.tables[t])])
            es == Each([e \in DOMAIN s.edges |->
                            GenerateTableSql(e, s.edges[e])])
            bs == Each([b \in DOMAIN s.buckets |->
                            GenerateBucketSql(b, s.buckets[b])])
<1>1. GenerateSchemaSql(s) = (ts \o es) \o bs
  BY DEF GenerateSchemaSql
<1>2. /\ IsScript(ts)
      /\ Range(ts) = UNION {TableStatements(t, s.tables[t]) :
                                t \in DOMAIN s.tables}
      /\ \A T : Placed(ts, T)
  <2>. DEFINE f == [t \in DOMAIN s.tables |-> GenerateTableSql(t, s.tables[t])]
  <2>1. \A t \in DOMAIN f : /\ IsScript(f[t])
                            /\ Range(f[t]) = TableStatements(t, s.tables[t])
                            /\ \A T : Placed(f[t], T)
    BY DeclarableTables, TableScript
  <2>2. IsFiniteSet(DOMAIN f) /\ DOMAIN f = DOMAIN s.tables
    BY DEF Declarable
  <2>. HIDE DEF f
  <2>3. /\ IsScript(Each(f))
        /\ Range(Each(f)) = UNION {Range(f[t]) : t \in DOMAIN f}
        /\ \A T : Placed(Each(f), T)
    BY <2>1, <2>2, EachScript
  <2>4. UNION {Range(f[t]) : t \in DOMAIN f}
            = UNION {TableStatements(t, s.tables[t]) : t \in DOMAIN s.tables}
    BY <2>1, <2>2
  <2>. QED
    BY <2>3, <2>4 DEF f
<1>3. /\ IsScript(es)
      /\ Range(es) = UNION {TableStatements(e, s.edges[e]) :
                                e \in DOMAIN s.edges}
      /\ \A T : Placed(es, T)
  <2>. DEFINE f == [e \in DOMAIN s.edges |-> GenerateTableSql(e, s.edges[e])]
  <2>1. \A t \in DOMAIN f : /\ IsScript(f[t])
                            /\ Range(f[t]) = TableStatements(t, s.edges[t])
                            /\ \A T : Placed(f[t], T)
    BY DeclarableTables, TableScript
  <2>2. IsFiniteSet(DOMAIN f) /\ DOMAIN f = DOMAIN s.edges
    BY DEF Declarable
  <2>. HIDE DEF f
  <2>3. /\ IsScript(Each(f))
        /\ Range(Each(f)) = UNION {Range(f[t]) : t \in DOMAIN f}
        /\ \A T : Placed(Each(f), T)
    BY <2>1, <2>2, EachScript
  <2>4. UNION {Range(f[t]) : t \in DOMAIN f}
            = UNION {TableStatements(t, s.edges[t]) : t \in DOMAIN s.edges}
    BY <2>1, <2>2
  <2>. QED
    BY <2>3, <2>4 DEF f
<1>4. /\ IsScript(bs)
      /\ Range(bs) = {Define("buckets", b, b, s.buckets[b]) :
                            b \in DOMAIN s.buckets}
  <2>. DEFINE g == [b \in DOMAIN s.buckets |->
                        Define("buckets", b, b, s.buckets[b])]
              f == [b \in DOMAIN s.buckets |->
                        GenerateBucketSql(b, s.buckets[b])]
  <2>1. \A b \in DOMAIN s.buckets : f[b] = <<g[b]>>
    BY DEF GenerateBucketSql
  <2>2. IsFiniteSet(DOMAIN s.buckets) /\ DOMAIN f = DOMAIN s.buckets
    BY DEF Declarable
  <2>3. {g[b] : b \in DOMAIN s.buckets}
            = {Define("buckets", b, b, s.buckets[b]) : b \in DOMAIN s.buckets}
    OBVIOUS
  <2>. HIDE DEF f, g
  <2>4. IsScript(Each(f)) /\ Range(Each(f)) = {g[b] : b \in DOMAIN s.buckets}
    BY <2>1, <2>2, EachSingles
  <2>. QED
    BY <2>3, <2>4 DEF f
<1>5. \A T : Placed(bs, T)
  <2>1. \A x \in Range(bs) : ~DefinesColumn(x)
    BY <1>4 DEF DefinesColumn, Define, Statement, TopLevel
  <2>. QED
    BY <2>1, RangePlaced
<1>. HIDE DEF ts, es, bs
<1>6. /\ IsScript(ts \o es)
      /\ Range(ts \o es) = Range(ts) \cup Range(es)
      /\ \A T : Placed(ts \o es, T)
  BY <1>2, <1>3, ConcatScript
<1>7. /\ IsScript((ts \o es) \o bs)
      /\ Range((ts \o es) \o bs) = Range(ts \o es) \cup Range(bs)
      /\ \A T : Placed((ts \o es) \o bs, T)
  BY <1>4, <1>5, <1>6, ConcatScript
<1>8. Range(ts) \cup Range(es)
        = UNION {TableStatements(t, AllTables(s)[t]) : t \in DOMAIN AllTables(s)}
  <2>. DEFINE A == AllTables(s)
  <2>0. /\ DOMAIN A = DOMAIN s.tables \cup DOMAIN s.edges
        /\ \A t \in DOMAIN s.tables : A[t] = s.tables[t]
        /\ \A e \in DOMAIN s.edges : A[e] = s.edges[e]
    BY DeclarableTables
  <2>. HIDE DEF A
  <2>1. \A x : x \in Range(ts) <=>
            \E t \in DOMAIN s.tables : x \in TableStatements(t, A[t])
    BY ONLY <1>2, <2>0
  <2>2. \A x : x \in Range(es) <=>
            \E t \in DOMAIN s.edges : x \in TableStatements(t, A[t])
    BY ONLY <1>3, <2>0
  <2>3. Range(ts) \cup Range(es)
            = UNION {TableStatements(t, A[t]) : t \in DOMAIN A}
    BY ONLY <2>0, <2>1, <2>2
  <2>. QED
    BY <2>3 DEF A
<1>. QED
  BY <1>1, <1>4, <1>6, <1>7, <1>8 DEF SchemaStatements

---------------------------------------------------------------------------
(* The catalog that a schema declares.                                     *)
ColumnOf(f) == [type |-> FieldTypeToSql(f), clauses |-> f.clauses]

CatalogTable(table) ==
    [mode |-> table.mode, rule |-> table.rule,
     fields |-> Over(Endpoints(table.mode),
                     [n \in DOMAIN table.fields |-> ColumnOf(table.fields[n])]),
     indexes |-> table.indexes, events |-> table.events]

CatalogOf(s) ==
    [tables |-> [t \in DOMAIN AllTables(s) |-> CatalogTable(AllTables(s)[t])],
     buckets |-> s.buckets]

LEMMA CatalogTables ==
    ASSUME NEW s, Declarable(s), NEW t \in DOMAIN AllTables(s),
           NEW table, table = AllTables(s)[t],
           NEW u, u = CatalogOf(s).tables[t]
    PROVE  /\ t \in DOMAIN CatalogOf(s).tables
           /\ DOMAIN u = TableParts
           /\ u.mode = table.mode /\ u.rule = table.rule
           /\ u.indexes = table.indexes /\ u.events = table.events
           /\ DOMAIN u.fields = DOMAIN Endpoints(table.mode)
                                    \cup DOMAIN table.fields
           /\ \A n \in DOMAIN Endpoints(table.mode) : u.fields[n] = EndpointField
           /\ \A n \in DOMAIN table.fields :
                /\ n \notin DOMAIN Endpoints(table.mode)
                /\ u.fields[n] = ColumnOf(table.fields[n])
           /\ Finite(table)
           /\ SortOf(u) = SortOf(table)
           /\ SortOf(u) = "edge" <=> t \in DOMAIN s.edges
<1>1. t \in DOMAIN CatalogOf(s).tables /\ u = CatalogTable(table)
  BY DEF CatalogOf
<1>2. /\ DOMAIN u = TableParts
      /\ u.mode = table.mode /\ u.rule = table.rule
      /\ u.indexes = table.indexes /\ u.events = table.events
      /\ u.fields = Over(Endpoints(table.mode),
                     [n \in DOMAIN table.fields |-> ColumnOf(table.fields[n])])
  BY <1>1 DEF CatalogTable, TableParts, ColumnKinds
<1>3. Finite(table)
  BY DeclarableTables
<1>4. t \in DOMAIN s.edges => table = s.edges[t] /\ t \notin DOMAIN s.tables
  BY DeclarableTables
<1>5. t \in DOMAIN s.tables => table = s.tables[t] /\ t \notin DOMAIN s.edges
  BY DeclarableTables
<1>6. t \in DOMAIN s.edges \/ t \in DOMAIN s.tables
  BY DeclarableTables
<1>7. /\ table.mode = "RELATION" <=> t \in DOMAIN s.edges
      /\ table.mode = "RELATION" => DOMAIN table.fields \cap Ends = {}
  BY <1>4, <1>5, <1>6 DEF Declarable, Ends
<1>8. \A n \in DOMAIN table.fields : n \notin DOMAIN Endpoints(table.mode)
  BY <1>7, EndpointsAt
<1>9. /\ DOMAIN u.fields = DOMAIN Endpoints(table.mode) \cup DOMAIN table.fields
      /\ \A n \in DOMAIN table.fields : u.fields[n] = ColumnOf(table.fields[n])
      /\ \A n \in DOMAIN Endpoints(table.mode) :
            u.fields[n] = Endpoints(table.mode)[n]
  BY <1>2, <1>8 DEF Over
<1>10. \A n \in DOMAIN Endpoints(table.mode) :
            Endpoints(table.mode)[n] = EndpointField
  BY DEF Endpoints
<1>11. SortOf(u) = SortOf(table) /\ (SortOf(u) = "edge" <=> t \in DOMAIN s.edges)
  BY <1>2, <1>7 DEF SortOf
<1>. QED
  BY <1>1, <1>2, <1>3, <1>8, <1>9, <1>10, <1>11

LEMMA CatalogSound ==
    ASSUME NEW s, Declarable(s)
    PROVE  Shaped(CatalogOf(s)) /\ Relational(CatalogOf(s))
<1>. DEFINE w == CatalogOf(s)
<1>1. /\ DOMAIN w = {"tables", "buckets"} /\ w.buckets = s.buckets
      /\ DOMAIN w.tables = DOMAIN AllTables(s)
  BY DEF CatalogOf
<1>2. ASSUME NEW t \in DOMAIN w.tables
      PROVE  /\ DOMAIN w.tables[t] = TableParts
             /\ \A k \in ColumnKinds : IsFiniteSet(DOMAIN w.tables[t][k])
             /\ w.tables[t].mode = "RELATION" =>
                    \A n \in Ends : HasField(w, t, n, EndpointField.type)
  <2>. DEFINE table == AllTables(s)[t]
              u == w.tables[t]
  <2>. HIDE DEF table, u, w
  <2>1. /\ DOMAIN u = TableParts
        /\ u.mode = table.mode
        /\ u.indexes = table.indexes /\ u.events = table.events
        /\ DOMAIN u.fields = DOMAIN Endpoints(table.mode)
                                    \cup DOMAIN table.fields
        /\ \A n \in DOMAIN Endpoints(table.mode) : u.fields[n] = EndpointField
        /\ Finite(table)
    <3>. DEFINE v == CatalogOf(s).tables[t]
    <3>1. t \in DOMAIN AllTables(s) /\ u = v
      BY <1>1 DEF u, w
    <3>. HIDE DEF v
    <3>. QED
      BY ONLY Declarable(s), <3>1, CatalogTables DEF table, v
  <2>2. IsFiniteSet(DOMAIN u.fields)
    <3>1. IsFiniteSet(DOMAIN Endpoints(table.mode)) /\ IsFiniteSet(DOMAIN table.fields)
      BY <2>1, EndpointsFinite DEF Finite
    <3>. DEFINE A == DOMAIN Endpoints(table.mode)
                B == DOMAIN table.fields
    <3>. HIDE DEF A, B
    <3>2. IsFiniteSet(A \cup B)
      BY <3>1, FS_Union DEF A, B
    <3>. QED
      BY <2>1, <3>2 DEF A, B
  <2>3. \A k \in ColumnKinds : IsFiniteSet(DOMAIN u[k])
    BY <2>1, <2>2 DEF ColumnKinds, Finite
  <2>4. u.mode = "RELATION" =>
                    \A n \in Ends : HasField(w, t, n, EndpointField.type)
    BY <2>1, EndpointsAt DEF HasField, u
  <2>. QED
    BY <2>1, <2>3, <2>4 DEF u
<1>3. \A b \in DOMAIN s.buckets : Attributes \subseteq DOMAIN s.buckets[b]
  BY DEF Declarable, Range, Attributes
<1>4. IsFiniteSet(DOMAIN w.tables) /\ IsFiniteSet(DOMAIN w.buckets)
  BY <1>1, DeclarableTables DEF Declarable
<1>. HIDE DEF w
<1>. QED
  BY <1>1, <1>2, <1>3, <1>4 DEF Shaped, Relational, w

(* Every statement of a table's script fits what the schema declares, and  *)
(* whatever the table declares, one of them makes.                         *)
LEMMA TableStatementsFit ==
    ASSUME NEW s, Declarable(s), NEW t \in DOMAIN AllTables(s),
           NEW x \in TableStatements(t, AllTables(s)[t])
    PROVE  Fits(x, CatalogOf(s)) /\ x.verb = "DEFINE"
<1>. DEFINE table == AllTables(s)[t]
            w == CatalogOf(s)
            u == w.tables[t]
<1>. HIDE DEF table, u, w
<1>1. /\ t \in DOMAIN w.tables
      /\ u.mode = table.mode
      /\ u.indexes = table.indexes /\ u.events = table.events
      /\ DOMAIN table.fields \subseteq DOMAIN u.fields
      /\ \A n \in DOMAIN table.fields : u.fields[n] = ColumnOf(table.fields[n])
  BY CatalogTables DEF table, u, w
<1>2. CASE x = DefineItself(t, table)
  <2>1. /\ x.verb = "DEFINE" /\ x.kind = "tables" /\ x.name = t
        /\ x.def.mode = table.mode
    BY <1>2 DEF DefineItself, Define, Statement
  <2>2. SortOf(x.def) = SortOf(u)
    BY <1>1, <2>1 DEF SortOf
  <2>. QED
    BY <1>1, <2>1, <2>2 DEF Fits, u, w
<1>3. CASE \E n \in DOMAIN table.fields :
                x = GenerateFieldSql(t, n, table.fields[n])
  <2>1. PICK n \in DOMAIN table.fields :
                x = GenerateFieldSql(t, n, table.fields[n])
    BY <1>3
  <2>2. /\ x.verb = "DEFINE" /\ x.kind = "fields" /\ x.on = t /\ x.name = n
        /\ x.def.type = FieldTypeToSql(table.fields[n])
    BY <2>1 DEF GenerateFieldSql, Define, Statement
  <2>3. /\ n \in DOMAIN u.fields
        /\ u.fields[n].type = FieldTypeToSql(table.fields[n])
    <3>1. u.fields[n] = ColumnOf(table.fields[n])
      BY <1>1
    <3>2. ColumnOf(table.fields[n]).type = FieldTypeToSql(table.fields[n])
      BY DEF ColumnOf
    <3>. QED
      BY <1>1, <3>1, <3>2
  <2>. QED
    BY <1>1, <2>2, <2>3 DEF Fits, u, w
<1>4. CASE \E n \in DOMAIN table.indexes :
                x = Define("indexes", t, n, table.indexes[n])
  <2>1. PICK n \in DOMAIN table.indexes :
                x = Define("indexes", t, n, table.indexes[n])
    BY <1>4
  <2>2. x.verb = "DEFINE" /\ x.kind = "indexes" /\ x.on = t /\ x.name = n
    BY <2>1 DEF Define, Statement
  <2>. QED
    BY <1>1, <2>2 DEF Fits, u, w
<1>5. CASE \E n \in DOMAIN table.events :
                x = Define("events", t, n, table.events[n])
  <2>1. PICK n \in DOMAIN table.events :
                x = Define("events", t, n, table.events[n])
    BY <1>5
  <2>2. x.verb = "DEFINE" /\ x.kind = "events" /\ x.on = t /\ x.name = n
    BY <2>1 DEF Define, Statement
  <2>. QED
    BY <1>1, <2>2 DEF Fits, u, w
<1>. QED
  BY <1>2, <1>3, <1>4, <1>5 DEF TableStatements, table, w

LEMMA TableStatementsMake ==
    ASSUME NEW s, Declarable(s), NEW t \in DOMAIN AllTables(s),
           NEW e \in TableElements(t, CatalogOf(s).tables[t])
    PROVE  \E x \in TableStatements(t, AllTables(s)[t]) : Makes(x, e)
<1>. DEFINE table == AllTables(s)[t]
            u == CatalogOf(s).tables[t]
<1>. HIDE DEF table, u
<1>1. /\ u.mode = table.mode
      /\ u.indexes = table.indexes /\ u.events = table.events
      /\ DOMAIN u.fields = DOMAIN Endpoints(table.mode) \cup DOMAIN table.fields
      /\ \A n \in DOMAIN Endpoints(table.mode) : u.fields[n] = EndpointField
      /\ \A n \in DOMAIN table.fields : u.fields[n] = ColumnOf(table.fields[n])
  BY ONLY Declarable(s), t \in DOMAIN AllTables(s), CatalogTables DEF table, u
<1>2. \/ e = <<SortOf(u), t>>
      \/ \E n \in DOMAIN u.fields : e = <<"field", t, n, u.fields[n].type>>
      \/ \E n \in DOMAIN u.indexes : e = <<"index", t, n>>
      \/ \E n \in DOMAIN u.events : e = <<"event", t, n>>
  BY Zenon DEF TableElements, u
<1>. DEFINE y == DefineItself(t, table)
<1>3. /\ y.verb = "DEFINE" /\ y.kind = "tables" /\ y.name = t
      /\ y.def.mode = table.mode /\ SortOf(y.def) = SortOf(u)
      /\ y \in TableStatements(t, table)
  BY <1>1 DEF DefineItself, Define, Statement, TableStatements, SortOf
<1>. HIDE DEF y
<1>4. CASE e = <<SortOf(u), t>>
  <2>1. Makes(y, e)
    BY <1>3, <1>4 DEF Makes
  <2>. QED
    BY <1>3, <2>1 DEF table
<1>5. ASSUME NEW n \in DOMAIN u.fields, e = <<"field", t, n, u.fields[n].type>>
      PROVE  \E x \in TableStatements(t, table) : Makes(x, e)
  <2>1. CASE n \in DOMAIN Endpoints(table.mode)
    <3>1. e = <<"field", y.name, n, EndpointField.type>>
      BY <1>1, <1>3, <1>5, <2>1
    <3>2. Makes(y, e)
      BY <1>3, <2>1, <3>1 DEF Makes
    <3>. QED
      BY <1>3, <3>2
  <2>2. CASE n \in DOMAIN table.fields
    <3>. DEFINE x == GenerateFieldSql(t, n, table.fields[n])
    <3>1. /\ x.verb = "DEFINE" /\ x.kind = "fields" /\ x.on = t /\ x.name = n
          /\ x.def.type = FieldTypeToSql(table.fields[n])
      BY DEF GenerateFieldSql, Define, Statement
    <3>2. x \in TableStatements(t, table)
      BY <2>2 DEF TableStatements
    <3>3. u.fields[n].type = FieldTypeToSql(table.fields[n])
      <4>1. u.fields[n] = ColumnOf(table.fields[n])
        BY <1>1, <2>2
      <4>2. ColumnOf(table.fields[n]).type = FieldTypeToSql(table.fields[n])
        BY DEF ColumnOf
      <4>. QED
        BY <4>1, <4>2
    <3>. HIDE DEF x
    <3>4. Makes(x, e)
      BY <1>5, <3>1, <3>3 DEF Makes
    <3>. QED
      BY <3>2, <3>4
  <2>. QED
    BY <1>1, <2>1, <2>2
<1>6. ASSUME NEW n \in DOMAIN u.indexes, e = <<"index", t, n>>
      PROVE  \E x \in TableStatements(t, table) : Makes(x, e)
  <2>. DEFINE x == Define("indexes", t, n, table.indexes[n])
  <2>1. x.verb = "DEFINE" /\ x.kind = "indexes" /\ x.on = t /\ x.name = n
    BY DEF Define, Statement
  <2>2. x \in TableStatements(t, table)
    BY <1>1, <1>6 DEF TableStatements
  <2>. HIDE DEF x
  <2>3. Makes(x, e)
    BY <1>6, <2>1 DEF Makes
  <2>. QED
    BY <2>2, <2>3
<1>7. ASSUME NEW n \in DOMAIN u.events, e = <<"event", t, n>>
      PROVE  \E x \in TableStatements(t, table) : Makes(x, e)
  <2>. DEFINE x == Define("events", t, n, table.events[n])
  <2>1. x.verb = "DEFINE" /\ x.kind = "events" /\ x.on = t /\ x.name = n
    BY DEF Define, Statement
  <2>2. x \in TableStatements(t, table)
    BY <1>1, <1>7 DEF TableStatements
  <2>. HIDE DEF x
  <2>3. Makes(x, e)
    BY <1>7, <2>1 DEF Makes
  <2>. QED
    BY <2>2, <2>3
<1>. QED
  BY <1>2, <1>4, <1>5, <1>6, <1>7 DEF table

LEMMA SchemaStatementsFit ==
    ASSUME NEW s, Declarable(s), NEW x \in SchemaStatements(s)
    PROVE  Fits(x, CatalogOf(s)) /\ x.verb = "DEFINE"
<1>1. CASE \E t \in DOMAIN AllTables(s) : x \in TableStatements(t, AllTables(s)[t])
  BY <1>1, TableStatementsFit
<1>2. ASSUME NEW b \in DOMAIN s.buckets, x = Define("buckets", b, b, s.buckets[b])
      PROVE  Fits(x, CatalogOf(s)) /\ x.verb = "DEFINE"
  <2>1. CatalogOf(s).buckets = s.buckets
    BY DEF CatalogOf
  <2>2. /\ x.verb = "DEFINE" /\ x.kind = "buckets" /\ x.name = b
        /\ x.def = s.buckets[b]
    BY <1>2 DEF Define, Statement
  <2>3. Attributes \subseteq DOMAIN s.buckets[b]
    BY DEF Declarable, Range, Attributes
  <2>. QED
    BY <2>1, <2>2, <2>3 DEF Fits
<1>. QED
  BY <1>1, <1>2 DEF SchemaStatements

LEMMA SchemaStatementsMake ==
    ASSUME NEW s, Declarable(s), NEW e \in Elements(CatalogOf(s))
    PROVE  \E x \in SchemaStatements(s) : Makes(x, e)
<1>. DEFINE w == CatalogOf(s)
<1>1. DOMAIN w.tables = DOMAIN AllTables(s) /\ w.buckets = s.buckets
  BY DEF CatalogOf
<1>2. \/ \E t \in DOMAIN w.tables : e \in TableElements(t, w.tables[t])
      \/ \E b \in DOMAIN w.buckets : e \in BucketElements(b, w.buckets[b])
  BY Zenon DEF Elements
<1>3. ASSUME NEW t \in DOMAIN w.tables, e \in TableElements(t, w.tables[t])
      PROVE  \E x \in SchemaStatements(s) : Makes(x, e)
  <2>1. \E x \in TableStatements(t, AllTables(s)[t]) : Makes(x, e)
    BY <1>1, <1>3, TableStatementsMake
  <2>. QED
    BY <1>1, <2>1 DEF SchemaStatements
<1>4. ASSUME NEW b \in DOMAIN s.buckets, e \in BucketElements(b, s.buckets[b])
      PROVE  \E x \in SchemaStatements(s) : Makes(x, e)
  <2>. DEFINE x == Define("buckets", b, b, s.buckets[b])
  <2>1. PICK a \in Attributes : e = <<"bucket", b, a, s.buckets[b][a]>>
    BY <1>4, Zenon DEF BucketElements, Attributes
  <2>2. a \in DOMAIN s.buckets[b]
    BY DEF Declarable, Range, Attributes
  <2>3. /\ x.verb = "DEFINE" /\ x.kind = "buckets" /\ x.name = b
        /\ x.def = s.buckets[b]
    BY DEF Define, Statement
  <2>4. x \in SchemaStatements(s)
    BY DEF SchemaStatements
  <2>. HIDE DEF x
  <2>5. Makes(x, e)
    BY <2>1, <2>2, <2>3 DEF Makes
  <2>. QED
    BY <2>4, <2>5
<1>. QED
  BY <1>1, <1>2, <1>3, <1>4

---------------------------------------------------------------------------
(* A script whose statements fit brings the catalog nearer.                *)
LEMMA RunNearer ==
    ASSUME NEW sql, IsScript(sql), NEW c, NEW w, NEW st, NEW f,
           Runs(f, sql, c, st, Len(sql)), Sound(c, w), Relational(w),
           \A x \in Range(sql) : Fits(x, w), Placed(sql, DOMAIN c.tables)
    PROVE  /\ \A k \in 0 .. Len(sql) :
                /\ Sound(f[k], w)
                /\ Elements(f[k]) \ Elements(w) \subseteq Elements(c) \ Elements(w)
                /\ \A j \in 0 .. k :
                    /\ Elements(f[j]) \cap Elements(w) \subseteq Elements(f[k])
                    /\ Elements(f[k]) \ Elements(w) \subseteq Elements(f[j])
           /\ \A k \in 1 .. Len(sql) :
                DefinesColumn(sql[k]) => sql[k].on \in DOMAIN f[k - 1].tables
<1>. DEFINE n == Len(sql)
            P(k) == /\ Sound(f[k], w)
                    /\ DOMAIN c.tables \cap DOMAIN w.tables
                            \subseteq DOMAIN f[k].tables
                    /\ \A j \in 1 .. k : \A t :
                        DefinesTable(sql[j], t) => t \in DOMAIN f[k].tables
                    /\ Elements(f[k]) \ Elements(w)
                            \subseteq Elements(c) \ Elements(w)
                    /\ \A j \in 0 .. k :
                        /\ Elements(f[j]) \cap Elements(w) \subseteq Elements(f[k])
                        /\ Elements(f[k]) \ Elements(w) \subseteq Elements(f[j])
            S == {k \in 0 .. n : P(k)}
<1>1. n \in Nat /\ DOMAIN sql = 1 .. n
  BY LenProperties DEF IsScript
<1>. HIDE DEF n
<1>2. \A k \in 1 .. n : sql[k] \in Range(sql)
  BY <1>1 DEF Range
<1>3. Runs(f, sql, c, st, n)
  BY DEF n
<1>4. f[0] = c
  BY <1>1, <1>3 DEF Runs
<1>5. \A k \in 1 .. n : f[k] = Step(sql[k], f[k - 1], st)
  BY <1>1, <1>3 DEF Runs
<1>6. ASSUME NEW k \in 1 .. n, P(k - 1)
      PROVE  DefinesColumn(sql[k]) => sql[k].on \in DOMAIN f[k - 1].tables
  <2>. SUFFICES ASSUME DefinesColumn(sql[k])
                PROVE  sql[k].on \in DOMAIN f[k - 1].tables
    OBVIOUS
  <2>1. sql[k].on \in DOMAIN w.tables
    BY <1>2 DEF Fits, DefinesColumn, TopLevel
  <2>2. \/ sql[k].on \in DOMAIN c.tables
        \/ \E j \in 1 .. k - 1 : DefinesTable(sql[j], sql[k].on)
    BY <1>1 DEF Placed
  <2>. QED
    BY <1>6, <2>1, <2>2
<1>7. 0 \in S
  <2>1. 0 \in 0 .. n /\ \A j \in 0 .. 0 : j = 0
    BY <1>1
  <2>2. \A j \in 1 .. 0 : FALSE
    OBVIOUS
  <2>. QED
    BY <1>4, <2>1, <2>2
<1>8. ASSUME NEW k \in 1 .. n, k - 1 \in S
      PROVE  k \in S
  <2>. DEFINE g == f[k - 1]
              h == f[k]
              s == sql[k]
  <2>0. P(k - 1)
    BY <1>8
  <2>1. h = Step(s, g, st) /\ Sound(g, w) /\ Fits(s, w)
    BY <1>2, <1>5, <2>0
  <2>2. DefinesColumn(s) => s.on \in DOMAIN g.tables
    BY <1>6, <2>0
  <2>3. /\ DOMAIN c.tables \cap DOMAIN w.tables \subseteq DOMAIN g.tables
        /\ \A j \in 1 .. k - 1 : \A t :
                DefinesTable(sql[j], t) => t \in DOMAIN g.tables
        /\ Elements(g) \ Elements(w) \subseteq Elements(c) \ Elements(w)
        /\ \A j \in 0 .. k - 1 :
            /\ Elements(f[j]) \cap Elements(w) \subseteq Elements(g)
            /\ Elements(g) \ Elements(w) \subseteq Elements(f[j])
    BY <2>0
  <2>. HIDE DEF g, h, s
  <2>4. /\ Sound(h, w)
        /\ Nearer(g, h, w)
        /\ DOMAIN g.tables \cap DOMAIN w.tables \subseteq DOMAIN h.tables
        /\ \A t : DefinesTable(s, t) => t \in DOMAIN h.tables
    BY <2>1, <2>2, StepNearer
  <2>5. /\ Elements(h) \ Elements(w) \subseteq Elements(g) \ Elements(w)
        /\ Elements(w) \ Elements(h) \subseteq Elements(w) \ Elements(g)
    BY <2>4, NearerElements
  <2>6. ASSUME NEW j \in 1 .. k, NEW t, DefinesTable(sql[j], t)
        PROVE  t \in DOMAIN h.tables
    <3>1. CASE j = k
      BY <2>4, <2>6, <3>1 DEF s
    <3>2. CASE j # k
      <4>1. j \in 1 .. k - 1 /\ j \in 1 .. n
        BY <1>1, <3>2
      <4>2. Fits(sql[j], w)
        BY <1>2, <4>1
      <4>3. t \in DOMAIN w.tables
        BY <2>6, <4>2 DEF Fits, DefinesTable, ColumnKinds
      <4>. QED
        BY <2>3, <2>4, <2>6, <4>1, <4>3
    <3>. QED
      BY <3>1, <3>2
  <2>7. ASSUME NEW j \in 0 .. k
        PROVE  /\ Elements(f[j]) \cap Elements(w) \subseteq Elements(h)
               /\ Elements(h) \ Elements(w) \subseteq Elements(f[j])
    <3>1. CASE j = k
      BY <3>1 DEF h
    <3>2. CASE j # k
      <4>1. j \in 0 .. k - 1
        BY <1>1, <3>2
      <4>. QED
        BY <2>3, <2>5, <4>1
    <3>. QED
      BY <3>1, <3>2
  <2>8. DOMAIN c.tables \cap DOMAIN w.tables \subseteq DOMAIN h.tables
    BY <2>3, <2>4
  <2>9. Elements(h) \ Elements(w) \subseteq Elements(c) \ Elements(w)
    BY <2>3, <2>5
  <2>10. k \in 0 .. n
    BY <1>1
  <2>. QED
    BY <2>4, <2>6, <2>7, <2>8, <2>9, <2>10 DEF h
<1>. HIDE DEF S
<1>9. \A k \in 0 .. n : k \in S
  BY <1>1, <1>7, <1>8, Reaches
<1>10. \A k \in 0 .. n : P(k)
  BY <1>9 DEF S
<1>11. \A k \in 1 .. n : k - 1 \in 0 .. n
  BY <1>1
<1>12. \A k \in 1 .. n :
            DefinesColumn(sql[k]) => sql[k].on \in DOMAIN f[k - 1].tables
  BY <1>6, <1>10, <1>11
<1>. QED
  BY <1>10, <1>12 DEF n

(* What a fitting definition makes is there after it, in a catalog that    *)
(* has nothing undeclared: done, or refused because it was there before.   *)
LEMMA MadeOrThere ==
    ASSUME NEW c, NEW w, NEW s, NEW st, NEW e, Sound(c, w), Relational(w),
           Elements(c) \subseteq Elements(w), Fits(s, w), s.verb = "DEFINE",
           DefinesColumn(s) => s.on \in DOMAIN c.tables, Makes(s, e)
    PROVE  e \in Elements(Step(s, c, st))
<1>1. CASE ~Refused(s, c, st)
  <2>1. Step(s, c, st) = Execute(s, c)
    BY <1>1 DEF Step
  <2>. QED
    BY <1>1, <2>1, MadeIsThere DEF Sound
<1>2. CASE Refused(s, c, st)
  <2>1. Step(s, c, st) = c /\ Exists(s, c)
    BY <1>2 DEF Step, Refused
  <2>2. CASE s.kind = "tables"
    <3>. DEFINE u == c.tables[s.name]
                v == w.tables[s.name]
    <3>1. s.name \in DOMAIN c.tables /\ s.name \in DOMAIN w.tables
          /\ SortOf(s.def) = SortOf(v)
      BY <2>1, <2>2 DEF Exists, TopLevel, Fits, ColumnKinds
    <3>2. SortOf(u) = SortOf(v)
      BY <3>1 DEF Sound, Alike
    <3>3. HasTable(c, SortOf(s.def), s.name)
      BY <3>1, <3>2 DEF HasTable
    <3>4. s.def.mode = "RELATION" => u.mode = "RELATION"
      BY <3>1, <3>2 DEF SortOf
    <3>5. \A n \in DOMAIN Endpoints(s.def.mode) :
                HasField(c, s.name, n, EndpointField.type)
      BY <3>1, <3>4, EndpointsAt DEF Sound, Relational
    <3>6. \/ e = <<SortOf(s.def), s.name>>
          \/ \E n \in DOMAIN Endpoints(s.def.mode) :
                e = <<"field", s.name, n, EndpointField.type>>
      BY <2>2 DEF Makes
    <3>. QED
      BY <2>1, <3>3, <3>5, <3>6, TableElement, FieldElement
  <2>3. CASE s.kind = "fields"
    <3>. DEFINE y == c.tables[s.on].fields[s.name].type
    <3>1. HasField(c, s.on, s.name, y)
      BY <2>1, <2>3 DEF Exists, TopLevel, HasField
    <3>2. HasField(w, s.on, s.name, y)
      BY <3>1, FieldElement
    <3>3. s.def.type = y
      BY <2>3, <3>2 DEF Fits, HasField
    <3>4. e = <<"field", s.on, s.name, y>>
      BY <2>3, <3>3 DEF Makes
    <3>. QED
      BY <2>1, <3>1, <3>4, FieldElement
  <2>4. CASE s.kind = "indexes"
    <3>1. HasIndex(c, s.on, s.name)
      BY <2>1, <2>4 DEF Exists, TopLevel, HasIndex
    <3>2. e = <<"index", s.on, s.name>>
      BY <2>4 DEF Makes
    <3>. QED
      BY <2>1, <3>1, <3>2, IndexElement
  <2>5. CASE s.kind = "events"
    <3>1. HasEvent(c, s.on, s.name)
      BY <2>1, <2>5 DEF Exists, TopLevel, HasEvent
    <3>2. e = <<"event", s.on, s.name>>
      BY <2>5 DEF Makes
    <3>. QED
      BY <2>1, <3>1, <3>2, EventElement
  <2>6. CASE s.kind = "buckets"
    <3>1. s.name \in DOMAIN c.buckets
      BY <2>1, <2>6 DEF Exists, TopLevel
    <3>2. PICK a \in DOMAIN s.def \cap Attributes :
                e = <<"bucket", s.name, a, s.def[a]>>
      BY <2>6 DEF Makes
    <3>. DEFINE v == c.buckets[s.name][a]
    <3>3. HasAttribute(c, s.name, a, v)
      BY <3>1 DEF HasAttribute
    <3>4. HasAttribute(w, s.name, a, v)
      BY <3>3, BucketElement
    <3>5. s.def[a] = v
      BY <2>6, <3>4 DEF Fits, HasAttribute
    <3>. QED
      BY <2>1, <3>2, <3>3, <3>5, BucketElement
  <2>. QED
    BY <2>2, <2>3, <2>4, <2>5, <2>6 DEF Makes
<1>. QED
  BY <1>1, <1>2

(* The emitter's own script makes of an empty database what the schema     *)
(* declares, whether or not the server is strict.                          *)
LEMMA EmptyIsSound ==
    ASSUME NEW w
    PROVE  Sound(EmptyCatalog, w) /\ Elements(EmptyCatalog) = {}
<1>1. DOMAIN EmptyCatalog.tables = {} /\ DOMAIN EmptyCatalog.buckets = {}
      /\ DOMAIN EmptyCatalog = {"tables", "buckets"}
  BY NothingIsEmpty DEF EmptyCatalog
<1>2. IsFiniteSet({})
  BY FS_EmptySet
<1>3. \A e : e \notin Elements(EmptyCatalog)
  BY <1>1, InElements
<1>. QED
  BY <1>1, <1>2, <1>3 DEF Sound, Shaped, Relational, Alike

THEOREM GeneratedSchema ==
    ASSUME NEW s, Declarable(s), NEW st, NEW c,
           c = Run(GenerateSchemaSql(s), EmptyCatalog, st)
    PROVE  Sound(c, CatalogOf(s)) /\ Elements(c) = Elements(CatalogOf(s))
<1>. DEFINE sql == GenerateSchemaSql(s)
            w == CatalogOf(s)
            n == Len(sql)
<1>1. IsScript(sql) /\ Range(sql) = SchemaStatements(s)
      /\ Placed(sql, DOMAIN EmptyCatalog.tables)
  BY SchemaScript
<1>2. Relational(w)
  BY CatalogSound
<1>3. \A x \in Range(sql) : Fits(x, w) /\ x.verb = "DEFINE"
  BY <1>1, SchemaStatementsFit
<1>. HIDE DEF sql
<1>4. n \in Nat /\ DOMAIN sql = 1 .. n
  BY <1>1, LenProperties DEF IsScript
<1>5. PICK f : Runs(f, sql, EmptyCatalog, st, n) /\ c = f[n]
  <2>1. \E f : Runs(f, sql, EmptyCatalog, st, n) /\ Run(sql, EmptyCatalog, st) = f[n]
    BY <1>4, RunUnfolds
  <2>. QED
    BY <2>1 DEF sql
<1>. HIDE DEF w
<1>6. /\ \A k \in 0 .. n :
            /\ Sound(f[k], w)
            /\ Elements(f[k]) \subseteq Elements(w)
            /\ \A j \in 0 .. k :
                    Elements(f[j]) \cap Elements(w) \subseteq Elements(f[k])
      /\ \A k \in 1 .. n :
            DefinesColumn(sql[k]) => sql[k].on \in DOMAIN f[k - 1].tables
  <2>1. Sound(EmptyCatalog, w) /\ Elements(EmptyCatalog) = {}
    BY EmptyIsSound
  <2>. QED
    BY <1>1, <1>2, <1>3, <1>5, <2>1, RunNearer
<1>. HIDE DEF n
<1>7. ASSUME NEW e \in Elements(w)
      PROVE  e \in Elements(f[n])
  <2>1. PICK x \in Range(sql) : Makes(x, e)
    BY <1>1, SchemaStatementsMake DEF w
  <2>2. PICK k \in 1 .. n : x = sql[k]
    BY <1>4 DEF Range
  <2>. DEFINE g == f[k - 1]
  <2>3. k - 1 \in 0 .. n /\ k \in 0 .. n /\ n \in 0 .. n
    BY <1>4
  <2>4. f[k] = Step(x, g, st)
    BY <1>5, <2>2, <2>3 DEF Runs
  <2>5. Sound(g, w) /\ Elements(g) \subseteq Elements(w)
    BY <1>6, <2>3
  <2>6. DefinesColumn(x) => x.on \in DOMAIN g.tables
    BY <1>6, <2>2
  <2>. HIDE DEF g
  <2>7. e \in Elements(f[k])
    BY <1>2, <1>3, <2>1, <2>4, <2>5, <2>6, MadeOrThere
  <2>8. k \in 0 .. n
    BY <2>3
  <2>. QED
    BY <1>6, <2>3, <2>7, <2>8
<1>8. n \in 0 .. n
  BY <1>4
<1>. QED
  BY <1>5, <1>6, <1>7, <1>8 DEF w

---------------------------------------------------------------------------
(* What the differ finds.                                                  *)
AddField(t, n, f)    == Difference("ADD_FIELD", t, n, <<DefineType(t, n, f)>>)
ModifyField(t, n, f) == Difference("MODIFY_FIELD", t, n, <<DefineType(t, n, f)>>)
AddIndex(t, n, x)    == Difference("ADD_INDEX", t, n, <<Define("indexes", t, n, x)>>)
AddEvent(t, n)       == Difference("ADD_EVENT", t, n, <<>>)
DropColumn(op, kind, t, n) == Difference(op, t, n, <<Drop(kind, t, n)>>)
AddTable(t, table)   == Difference("ADD_TABLE", t, t, GenerateTableSql(t, table))
DropTable(t)         == Difference("DROP_TABLE", t, t, <<Drop("tables", t, t)>>)
AddBucket(b, bucket) == Difference("ADD_BUCKET", b, b, GenerateBucketSql(b, bucket))
DropBucket(b)        == Difference("DROP_BUCKET", b, b, <<Drop("buckets", b, b)>>)
ModifyBucket(b, current, target) ==
    Difference("MODIFY_BUCKET", b, b, <<AlterBucket(b, current, target)>>)
ModifyPermissions(e) == Difference("MODIFY_PERMISSIONS", e, e, <<>>)

FieldDiffs(t, current, target) ==
    {AddField(t, n, target[n]) : n \in Added(current, target)}
    \cup {DropColumn("DROP_FIELD", "fields", t, n) : n \in Dropped(current, target)}
    \cup {ModifyField(t, n, target[n]) : n \in Retyped(current, target)}

IndexDiffs(t, current, target) ==
    {AddIndex(t, n, target[n]) : n \in Added(current, target)}
    \cup {DropColumn("DROP_INDEX", "indexes", t, n) : n \in Dropped(current, target)}

EventDiffs(t, current, target) ==
    {AddEvent(t, n) : n \in Added(current, target)}
    \cup {DropColumn("DROP_EVENT", "events", t, n) : n \in Dropped(current, target)}

ColumnDiffs(t, current, target) ==
    FieldDiffs(t, current.fields, target.fields)
    \cup IndexDiffs(t, current.indexes, target.indexes)
    \cup EventDiffs(t, current.events, target.events)

KeptDiffs(current, target) ==
    UNION {ColumnDiffs(t, current[t], target[t]) : t \in Kept(current, target)}

TableDiffs(current, target) ==
    {AddTable(t, target[t]) : t \in Added(current, target)}
    \cup {DropTable(t) : t \in Dropped(current, target)}
    \cup KeptDiffs(current, target)

EdgeDiffs(current, target) ==
    TableDiffs(current, target)
    \cup {ModifyPermissions(e) :
            e \in {k \in Kept(current, target) : current[k].rule # target[k].rule}}

Changed(current, target) ==
    {b \in Kept(current, target) :
        AlteredAttributes(current[b], target[b]) # {}}

BucketDiffs(current, target) ==
    {AddBucket(b, target[b]) : b \in Added(current, target)}
    \cup {DropBucket(b) : b \in Dropped(current, target)}
    \cup {ModifyBucket(b, current[b], target[b]) : b \in Changed(current, target)}

SchemaDiffs(current, target) ==
    TableDiffs(current.tables, target.tables)
    \cup EdgeDiffs(current.edges, target.edges)
    \cup BucketDiffs(current.buckets, target.buckets)

LEMMA DifferenceSets ==
    ASSUME NEW current, NEW target,
           IsFiniteSet(DOMAIN current), IsFiniteSet(DOMAIN target)
    PROVE  /\ IsFiniteSet(Added(current, target))
           /\ IsFiniteSet(Dropped(current, target))
           /\ IsFiniteSet(Kept(current, target))
           /\ IsFiniteSet(Retyped(current, target))
           /\ IsFiniteSet(Changed(current, target))
BY FS_Subset DEF Added, Dropped, Kept, Retyped, Changed

LEMMA ThreeScripts ==
    ASSUME NEW a, NEW b, NEW c, IsScript(a), IsScript(b), IsScript(c)
    PROVE  /\ IsScript((a \o b) \o c)
           /\ Range((a \o b) \o c) = Range(a) \cup Range(b) \cup Range(c)
<1>1. IsScript(a \o b) /\ Range(a \o b) = Range(a) \cup Range(b)
  BY ConcatScript
<1>. DEFINE d == a \o b
<1>. HIDE DEF d
<1>2. IsScript(d \o c) /\ Range(d \o c) = Range(d) \cup Range(c)
  BY <1>1, ConcatScript DEF d
<1>. QED
  BY <1>1, <1>2 DEF d

LEMMA FieldsDiffer ==
    ASSUME NEW t, NEW current, NEW target,
           IsFiniteSet(DOMAIN current), IsFiniteSet(DOMAIN target)
    PROVE  /\ IsScript(DiffFields(t, current, target))
           /\ Range(DiffFields(t, current, target))
                = FieldDiffs(t, current, target)
<1>. DEFINE a == Each([n \in Added(current, target) |->
                        <<Difference("ADD_FIELD", t, n, <<DefineType(t, n, target[n])>>)>>])
            b == Each([n \in Dropped(current, target) |->
                        <<Difference("DROP_FIELD", t, n, <<Drop("fields", t, n)>>)>>])
            c == Each([n \in Retyped(current, target) |->
                        <<Difference("MODIFY_FIELD", t, n, <<DefineType(t, n, target[n])>>)>>])
<1>1. IsScript(a) /\ Range(a) = {AddField(t, n, target[n]) : n \in Added(current, target)}
  <2>. DEFINE g == [n \in Added(current, target) |-> AddField(t, n, target[n])]
              f == [n \in Added(current, target) |->
                        <<Difference("ADD_FIELD", t, n, <<DefineType(t, n, target[n])>>)>>]
  <2>1. IsFiniteSet(Added(current, target)) /\ DOMAIN f = Added(current, target)
    BY DifferenceSets
  <2>2. \A n \in Added(current, target) : f[n] = <<g[n]>>
    BY DEF AddField
  <2>3. {g[n] : n \in Added(current, target)} = {AddField(t, n, target[n]) : n \in Added(current, target)}
    OBVIOUS
  <2>. HIDE DEF f, g
  <2>4. IsScript(Each(f)) /\ Range(Each(f)) = {g[n] : n \in Added(current, target)}
    BY <2>1, <2>2, EachSingles
  <2>. QED
    BY <2>3, <2>4 DEF f
<1>2. IsScript(b) /\ Range(b) = {DropColumn("DROP_FIELD", "fields", t, n) : n \in Dropped(current, target)}
  <2>. DEFINE g == [n \in Dropped(current, target) |-> DropColumn("DROP_FIELD", "fields", t, n)]
              f == [n \in Dropped(current, target) |->
                        <<Difference("DROP_FIELD", t, n, <<Drop("fields", t, n)>>)>>]
  <2>1. IsFiniteSet(Dropped(current, target)) /\ DOMAIN f = Dropped(current, target)
    BY DifferenceSets
  <2>2. \A n \in Dropped(current, target) : f[n] = <<g[n]>>
    BY DEF DropColumn
  <2>3. {g[n] : n \in Dropped(current, target)} = {DropColumn("DROP_FIELD", "fields", t, n) : n \in Dropped(current, target)}
    OBVIOUS
  <2>. HIDE DEF f, g
  <2>4. IsScript(Each(f)) /\ Range(Each(f)) = {g[n] : n \in Dropped(current, target)}
    BY <2>1, <2>2, EachSingles
  <2>. QED
    BY <2>3, <2>4 DEF f
<1>3. IsScript(c) /\ Range(c) = {ModifyField(t, n, target[n]) : n \in Retyped(current, target)}
  <2>. DEFINE g == [n \in Retyped(current, target) |-> ModifyField(t, n, target[n])]
              f == [n \in Retyped(current, target) |->
                        <<Difference("MODIFY_FIELD", t, n, <<DefineType(t, n, target[n])>>)>>]
  <2>1. IsFiniteSet(Retyped(current, target)) /\ DOMAIN f = Retyped(current, target)
    BY DifferenceSets
  <2>2. \A n \in Retyped(current, target) : f[n] = <<g[n]>>
    BY DEF ModifyField
  <2>3. {g[n] : n \in Retyped(current, target)} = {ModifyField(t, n, target[n]) : n \in Retyped(current, target)}
    OBVIOUS
  <2>. HIDE DEF f, g
  <2>4. IsScript(Each(f)) /\ Range(Each(f)) = {g[n] : n \in Retyped(current, target)}
    BY <2>1, <2>2, EachSingles
  <2>. QED
    BY <2>3, <2>4 DEF f
<1>4. DiffFields(t, current, target) = (a \o b) \o c
  BY DEF DiffFields
<1>. HIDE DEF a, b, c
<1>5. /\ IsScript((a \o b) \o c)
      /\ Range((a \o b) \o c) = Range(a) \cup Range(b) \cup Range(c)
  BY <1>1, <1>2, <1>3, ThreeScripts
<1>. QED
  BY <1>1, <1>2, <1>3, <1>4, <1>5 DEF FieldDiffs

LEMMA IndexesDiffer ==
    ASSUME NEW t, NEW current, NEW target,
           IsFiniteSet(DOMAIN current), IsFiniteSet(DOMAIN target)
    PROVE  /\ IsScript(DiffIndexes(t, current, target))
           /\ Range(DiffIndexes(t, current, target))
                = IndexDiffs(t, current, target)
<1>. DEFINE a == Each([n \in Added(current, target) |->
                        <<Difference("ADD_INDEX", t, n, <<Define("indexes", t, n, target[n])>>)>>])
            b == Each([n \in Dropped(current, target) |->
                        <<Difference("DROP_INDEX", t, n, <<Drop("indexes", t, n)>>)>>])
<1>1. IsScript(a) /\ Range(a) = {AddIndex(t, n, target[n]) : n \in Added(current, target)}
  <2>. DEFINE g == [n \in Added(current, target) |-> AddIndex(t, n, target[n])]
              f == [n \in Added(current, target) |->
                        <<Difference("ADD_INDEX", t, n, <<Define("indexes", t, n, target[n])>>)>>]
  <2>1. IsFiniteSet(Added(current, target)) /\ DOMAIN f = Added(current, target)
    BY DifferenceSets
  <2>2. \A n \in Added(current, target) : f[n] = <<g[n]>>
    BY DEF AddIndex
  <2>3. {g[n] : n \in Added(current, target)} = {AddIndex(t, n, target[n]) : n \in Added(current, target)}
    OBVIOUS
  <2>. HIDE DEF f, g
  <2>4. IsScript(Each(f)) /\ Range(Each(f)) = {g[n] : n \in Added(current, target)}
    BY <2>1, <2>2, EachSingles
  <2>. QED
    BY <2>3, <2>4 DEF f
<1>2. IsScript(b) /\ Range(b) = {DropColumn("DROP_INDEX", "indexes", t, n) : n \in Dropped(current, target)}
  <2>. DEFINE g == [n \in Dropped(current, target) |-> DropColumn("DROP_INDEX", "indexes", t, n)]
              f == [n \in Dropped(current, target) |->
                        <<Difference("DROP_INDEX", t, n, <<Drop("indexes", t, n)>>)>>]
  <2>1. IsFiniteSet(Dropped(current, target)) /\ DOMAIN f = Dropped(current, target)
    BY DifferenceSets
  <2>2. \A n \in Dropped(current, target) : f[n] = <<g[n]>>
    BY DEF DropColumn
  <2>3. {g[n] : n \in Dropped(current, target)} = {DropColumn("DROP_INDEX", "indexes", t, n) : n \in Dropped(current, target)}
    OBVIOUS
  <2>. HIDE DEF f, g
  <2>4. IsScript(Each(f)) /\ Range(Each(f)) = {g[n] : n \in Dropped(current, target)}
    BY <2>1, <2>2, EachSingles
  <2>. QED
    BY <2>3, <2>4 DEF f
<1>3. DiffIndexes(t, current, target) = a \o b
  BY DEF DiffIndexes
<1>. HIDE DEF a, b
<1>4. /\ IsScript(a \o b)
      /\ Range(a \o b) = Range(a) \cup Range(b)
  BY <1>1, <1>2, ConcatScript
<1>. QED
  BY <1>1, <1>2, <1>3, <1>4 DEF IndexDiffs

LEMMA EventsDiffer ==
    ASSUME NEW t, NEW current, NEW target,
           IsFiniteSet(DOMAIN current), IsFiniteSet(DOMAIN target)
    PROVE  /\ IsScript(DiffEvents(t, current, target))
           /\ Range(DiffEvents(t, current, target))
                = EventDiffs(t, current, target)
<1>. DEFINE a == Each([n \in Added(current, target) |->
                        <<Difference("ADD_EVENT", t, n, <<>>)>>])
            b == Each([n \in Dropped(current, target) |->
                        <<Difference("DROP_EVENT", t, n, <<Drop("events", t, n)>>)>>])
<1>1. IsScript(a) /\ Range(a) = {AddEvent(t, n) : n \in Added(current, target)}
  <2>. DEFINE g == [n \in Added(current, target) |-> AddEvent(t, n)]
              f == [n \in Added(current, target) |->
                        <<Difference("ADD_EVENT", t, n, <<>>)>>]
  <2>1. IsFiniteSet(Added(current, target)) /\ DOMAIN f = Added(current, target)
    BY DifferenceSets
  <2>2. \A n \in Added(current, target) : f[n] = <<g[n]>>
    BY DEF AddEvent
  <2>3. {g[n] : n \in Added(current, target)} = {AddEvent(t, n) : n \in Added(current, target)}
    OBVIOUS
  <2>. HIDE DEF f, g
  <2>4. IsScript(Each(f)) /\ Range(Each(f)) = {g[n] : n \in Added(current, target)}
    BY <2>1, <2>2, EachSingles
  <2>. QED
    BY <2>3, <2>4 DEF f
<1>2. IsScript(b) /\ Range(b) = {DropColumn("DROP_EVENT", "events", t, n) : n \in Dropped(current, target)}
  <2>. DEFINE g == [n \in Dropped(current, target) |-> DropColumn("DROP_EVENT", "events", t, n)]
              f == [n \in Dropped(current, target) |->
                        <<Difference("DROP_EVENT", t, n, <<Drop("events", t, n)>>)>>]
  <2>1. IsFiniteSet(Dropped(current, target)) /\ DOMAIN f = Dropped(current, target)
    BY DifferenceSets
  <2>2. \A n \in Dropped(current, target) : f[n] = <<g[n]>>
    BY DEF DropColumn
  <2>3. {g[n] : n \in Dropped(current, target)} = {DropColumn("DROP_EVENT", "events", t, n) : n \in Dropped(current, target)}
    OBVIOUS
  <2>. HIDE DEF f, g
  <2>4. IsScript(Each(f)) /\ Range(Each(f)) = {g[n] : n \in Dropped(current, target)}
    BY <2>1, <2>2, EachSingles
  <2>. QED
    BY <2>3, <2>4 DEF f
<1>3. DiffEvents(t, current, target) = a \o b
  BY DEF DiffEvents
<1>. HIDE DEF a, b
<1>4. /\ IsScript(a \o b)
      /\ Range(a \o b) = Range(a) \cup Range(b)
  BY <1>1, <1>2, ConcatScript
<1>. QED
  BY <1>1, <1>2, <1>3, <1>4 DEF EventDiffs

LEMMA ColumnsDiffer ==
    ASSUME NEW t, NEW current, NEW target, Finite(current), Finite(target)
    PROVE  /\ IsScript(DiffColumns(t, current, target))
           /\ Range(DiffColumns(t, current, target))
                = ColumnDiffs(t, current, target)
<1>. DEFINE a == DiffFields(t, current.fields, target.fields)
            b == DiffIndexes(t, current.indexes, target.indexes)
            c == DiffEvents(t, current.events, target.events)
<1>1. IsScript(a) /\ Range(a) = FieldDiffs(t, current.fields, target.fields)
  BY FieldsDiffer DEF Finite
<1>2. IsScript(b) /\ Range(b) = IndexDiffs(t, current.indexes, target.indexes)
  BY IndexesDiffer DEF Finite
<1>3. IsScript(c) /\ Range(c) = EventDiffs(t, current.events, target.events)
  BY EventsDiffer DEF Finite
<1>4. DiffColumns(t, current, target) = (a \o b) \o c
  BY DEF DiffColumns
<1>. HIDE DEF a, b, c
<1>5. /\ IsScript((a \o b) \o c)
      /\ Range((a \o b) \o c) = Range(a) \cup Range(b) \cup Range(c)
  BY <1>1, <1>2, <1>3, ThreeScripts
<1>. QED
  BY <1>1, <1>2, <1>3, <1>4, <1>5 DEF ColumnDiffs

LEMMA BucketsDiffer ==
    ASSUME NEW current, NEW target,
           IsFiniteSet(DOMAIN current), IsFiniteSet(DOMAIN target)
    PROVE  /\ IsScript(DiffBuckets(current, target))
           /\ Range(DiffBuckets(current, target))
                = BucketDiffs(current, target)
<1>. DEFINE a == Each([n \in Added(current, target) |->
                        <<Difference("ADD_BUCKET", n, n, GenerateBucketSql(n, target[n]))>>])
            b == Each([n \in Dropped(current, target) |->
                        <<Difference("DROP_BUCKET", n, n, <<Drop("buckets", n, n)>>)>>])
            c == Each([n \in Changed(current, target) |->
                        <<Difference("MODIFY_BUCKET", n, n, <<AlterBucket(n, current[n], target[n])>>)>>])
<1>1. IsScript(a) /\ Range(a) = {AddBucket(n, target[n]) : n \in Added(current, target)}
  <2>. DEFINE g == [n \in Added(current, target) |-> AddBucket(n, target[n])]
              f == [n \in Added(current, target) |->
                        <<Difference("ADD_BUCKET", n, n, GenerateBucketSql(n, target[n]))>>]
  <2>1. IsFiniteSet(Added(current, target)) /\ DOMAIN f = Added(current, target)
    BY DifferenceSets
  <2>2. \A n \in Added(current, target) : f[n] = <<g[n]>>
    BY DEF AddBucket
  <2>3. {g[n] : n \in Added(current, target)} = {AddBucket(n, target[n]) : n \in Added(current, target)}
    OBVIOUS
  <2>. HIDE DEF f, g
  <2>4. IsScript(Each(f)) /\ Range(Each(f)) = {g[n] : n \in Added(current, target)}
    BY <2>1, <2>2, EachSingles
  <2>. QED
    BY <2>3, <2>4 DEF f
<1>2. IsScript(b) /\ Range(b) = {DropBucket(n) : n \in Dropped(current, target)}
  <2>. DEFINE g == [n \in Dropped(current, target) |-> DropBucket(n)]
              f == [n \in Dropped(current, target) |->
                        <<Difference("DROP_BUCKET", n, n, <<Drop("buckets", n, n)>>)>>]
  <2>1. IsFiniteSet(Dropped(current, target)) /\ DOMAIN f = Dropped(current, target)
    BY DifferenceSets
  <2>2. \A n \in Dropped(current, target) : f[n] = <<g[n]>>
    BY DEF DropBucket
  <2>3. {g[n] : n \in Dropped(current, target)} = {DropBucket(n) : n \in Dropped(current, target)}
    OBVIOUS
  <2>. HIDE DEF f, g
  <2>4. IsScript(Each(f)) /\ Range(Each(f)) = {g[n] : n \in Dropped(current, target)}
    BY <2>1, <2>2, EachSingles
  <2>. QED
    BY <2>3, <2>4 DEF f
<1>3. IsScript(c) /\ Range(c) = {ModifyBucket(n, current[n], target[n]) : n \in Changed(current, target)}
  <2>. DEFINE g == [n \in Changed(current, target) |-> ModifyBucket(n, current[n], target[n])]
              f == [n \in Changed(current, target) |->
                        <<Difference("MODIFY_BUCKET", n, n, <<AlterBucket(n, current[n], target[n])>>)>>]
  <2>1. IsFiniteSet(Changed(current, target)) /\ DOMAIN f = Changed(current, target)
    BY DifferenceSets
  <2>2. \A n \in Changed(current, target) : f[n] = <<g[n]>>
    BY DEF ModifyBucket
  <2>3. {g[n] : n \in Changed(current, target)} = {ModifyBucket(n, current[n], target[n]) : n \in Changed(current, target)}
    OBVIOUS
  <2>. HIDE DEF f, g
  <2>4. IsScript(Each(f)) /\ Range(Each(f)) = {g[n] : n \in Changed(current, target)}
    BY <2>1, <2>2, EachSingles
  <2>. QED
    BY <2>3, <2>4 DEF f
<1>4. DiffBuckets(current, target) = (a \o b) \o c
  BY DEF DiffBuckets, Changed
<1>. HIDE DEF a, b, c
<1>5. /\ IsScript((a \o b) \o c)
      /\ Range((a \o b) \o c) = Range(a) \cup Range(b) \cup Range(c)
  BY <1>1, <1>2, <1>3, ThreeScripts
<1>. QED
  BY <1>1, <1>2, <1>3, <1>4, <1>5 DEF BucketDiffs

(* The tables, or the edges, of both schemas.                              *)
AllFinite(tables) ==
    IsFiniteSet(DOMAIN tables) /\ \A t \in DOMAIN tables : Finite(tables[t])

LEMMA TablesDiffer ==
    ASSUME NEW current, NEW target, AllFinite(current), AllFinite(target)
    PROVE  /\ IsScript(DiffTables(current, target))
           /\ Range(DiffTables(current, target)) = TableDiffs(current, target)
<1>. DEFINE a == Each([n \in Added(current, target) |->
                        <<Difference("ADD_TABLE", n, n, GenerateTableSql(n, target[n]))>>])
            b == Each([n \in Dropped(current, target) |->
                        <<Difference("DROP_TABLE", n, n, <<Drop("tables", n, n)>>)>>])
            h == [n \in Kept(current, target) |->
                    DiffColumns(n, current[n], target[n])]
            c == Each(h)
<1>0. IsFiniteSet(DOMAIN current) /\ IsFiniteSet(DOMAIN target)
  BY DEF AllFinite
<1>1. IsScript(a) /\ Range(a) = {AddTable(n, target[n]) : n \in Added(current, target)}
  <2>. DEFINE g == [n \in Added(current, target) |-> AddTable(n, target[n])]
              f == [n \in Added(current, target) |->
                        <<Difference("ADD_TABLE", n, n, GenerateTableSql(n, target[n]))>>]
  <2>1. IsFiniteSet(Added(current, target)) /\ DOMAIN f = Added(current, target)
    BY <1>0, DifferenceSets
  <2>2. \A n \in Added(current, target) : f[n] = <<g[n]>>
    BY DEF AddTable
  <2>3. {g[n] : n \in Added(current, target)} = {AddTable(n, target[n]) : n \in Added(current, target)}
    OBVIOUS
  <2>. HIDE DEF f, g
  <2>4. IsScript(Each(f)) /\ Range(Each(f)) = {g[n] : n \in Added(current, target)}
    BY <2>1, <2>2, EachSingles
  <2>. QED
    BY <2>3, <2>4 DEF f
<1>2. IsScript(b) /\ Range(b) = {DropTable(n) : n \in Dropped(current, target)}
  <2>. DEFINE g == [n \in Dropped(current, target) |-> DropTable(n)]
              f == [n \in Dropped(current, target) |->
                        <<Difference("DROP_TABLE", n, n, <<Drop("tables", n, n)>>)>>]
  <2>1. IsFiniteSet(Dropped(current, target)) /\ DOMAIN f = Dropped(current, target)
    BY <1>0, DifferenceSets
  <2>2. \A n \in Dropped(current, target) : f[n] = <<g[n]>>
    BY DEF DropTable
  <2>3. {g[n] : n \in Dropped(current, target)} = {DropTable(n) : n \in Dropped(current, target)}
    OBVIOUS
  <2>. HIDE DEF f, g
  <2>4. IsScript(Each(f)) /\ Range(Each(f)) = {g[n] : n \in Dropped(current, target)}
    BY <2>1, <2>2, EachSingles
  <2>. QED
    BY <2>3, <2>4 DEF f
<1>3. /\ \A n \in Kept(current, target) : /\ IsScript(h[n])
                                     /\ Range(h[n]) = ColumnDiffs(n, current[n], target[n])
      /\ DOMAIN h = Kept(current, target)
  BY ColumnsDiffer DEF AllFinite, Kept
<1>. HIDE DEF h
<1>4. /\ IsScript(c)
      /\ Range(c) = KeptDiffs(current, target)
  <2>1. IsFiniteSet(DOMAIN h)
    BY <1>0, <1>3, DifferenceSets
  <2>2. IsScript(c) /\ Range(c) = UNION {Range(h[n]) : n \in DOMAIN h}
    BY <1>3, <2>1, EachScript
  <2>3. UNION {Range(h[n]) : n \in DOMAIN h} = KeptDiffs(current, target)
    BY <1>3 DEF KeptDiffs
  <2>. QED
    BY <2>2, <2>3
<1>5. DiffTables(current, target) = (a \o b) \o c
  BY DEF DiffTables, h
<1>. HIDE DEF a, b, c
<1>6. /\ IsScript((a \o b) \o c)
      /\ Range((a \o b) \o c) = Range(a) \cup Range(b) \cup Range(c)
  BY <1>1, <1>2, <1>4, ThreeScripts
<1>. QED
  BY <1>1, <1>2, <1>4, <1>5, <1>6 DEF TableDiffs, TableDiffs

LEMMA EdgesDiffer ==
    ASSUME NEW current, NEW target, AllFinite(current), AllFinite(target)
    PROVE  /\ IsScript(DiffEdges(current, target))
           /\ Range(DiffEdges(current, target)) = EdgeDiffs(current, target)
<1>. DEFINE a == Each([n \in Added(current, target) |->
                        <<Difference("ADD_TABLE", n, n, GenerateTableSql(n, target[n]))>>])
            b == Each([n \in Dropped(current, target) |->
                        <<Difference("DROP_TABLE", n, n, <<Drop("tables", n, n)>>)>>])
            h == [n \in Kept(current, target) |->
                    DiffColumns(n, current[n], target[n])
                    \o IF current[n].rule = target[n].rule THEN <<>>
                       ELSE <<Difference("MODIFY_PERMISSIONS", n, n, <<>>)>>]
            c == Each(h)
<1>0. IsFiniteSet(DOMAIN current) /\ IsFiniteSet(DOMAIN target)
  BY DEF AllFinite
<1>1. IsScript(a) /\ Range(a) = {AddTable(n, target[n]) : n \in Added(current, target)}
  <2>. DEFINE g == [n \in Added(current, target) |-> AddTable(n, target[n])]
              f == [n \in Added(current, target) |->
                        <<Difference("ADD_TABLE", n, n, GenerateTableSql(n, target[n]))>>]
  <2>1. IsFiniteSet(Added(current, target)) /\ DOMAIN f = Added(current, target)
    BY <1>0, DifferenceSets
  <2>2. \A n \in Added(current, target) : f[n] = <<g[n]>>
    BY DEF AddTable
  <2>3. {g[n] : n \in Added(current, target)} = {AddTable(n, target[n]) : n \in Added(current, target)}
    OBVIOUS
  <2>. HIDE DEF f, g
  <2>4. IsScript(Each(f)) /\ Range(Each(f)) = {g[n] : n \in Added(current, target)}
    BY <2>1, <2>2, EachSingles
  <2>. QED
    BY <2>3, <2>4 DEF f
<1>2. IsScript(b) /\ Range(b) = {DropTable(n) : n \in Dropped(current, target)}
  <2>. DEFINE g == [n \in Dropped(current, target) |-> DropTable(n)]
              f == [n \in Dropped(current, target) |->
                        <<Difference("DROP_TABLE", n, n, <<Drop("tables", n, n)>>)>>]
  <2>1. IsFiniteSet(Dropped(current, target)) /\ DOMAIN f = Dropped(current, target)
    BY <1>0, DifferenceSets
  <2>2. \A n \in Dropped(current, target) : f[n] = <<g[n]>>
    BY DEF DropTable
  <2>3. {g[n] : n \in Dropped(current, target)} = {DropTable(n) : n \in Dropped(current, target)}
    OBVIOUS
  <2>. HIDE DEF f, g
  <2>4. IsScript(Each(f)) /\ Range(Each(f)) = {g[n] : n \in Dropped(current, target)}
    BY <2>1, <2>2, EachSingles
  <2>. QED
    BY <2>3, <2>4 DEF f
<1>. DEFINE M(n) == IF current[n].rule = target[n].rule THEN {}
                    ELSE {ModifyPermissions(n)}
<1>3. /\ \A n \in Kept(current, target) : /\ IsScript(h[n])
                                     /\ Range(h[n]) = M(n) \cup
                                            ColumnDiffs(n, current[n], target[n])
      /\ DOMAIN h = Kept(current, target)
  <2>. SUFFICES ASSUME NEW n \in Kept(current, target)
                PROVE  /\ IsScript(h[n])
                       /\ Range(h[n]) = M(n) \cup
                                ColumnDiffs(n, current[n], target[n])
    OBVIOUS
  <2>. DEFINE p == DiffColumns(n, current[n], target[n])
              q == IF current[n].rule = target[n].rule THEN <<>>
                   ELSE <<ModifyPermissions(n)>>
  <2>1. h[n] = p \o q
    BY DEF ModifyPermissions
  <2>2. IsScript(p) /\ Range(p) = ColumnDiffs(n, current[n], target[n])
    BY ColumnsDiffer DEF AllFinite, Kept
  <2>3. IsScript(q) /\ Range(q) = M(n)
    BY EmptyScript, SingleScript
  <2>. HIDE DEF p, q, M, h
  <2>4. IsScript(p \o q) /\ Range(p \o q) = Range(p) \cup Range(q)
    BY <2>2, <2>3, ConcatScript
  <2>. QED
    BY <2>1, <2>2, <2>3, <2>4
<1>. HIDE DEF h
<1>4. /\ IsScript(c)
      /\ Range(c) = KeptDiffs(current, target) \cup {ModifyPermissions(e) :
            e \in {k \in Kept(current, target) : current[k].rule # target[k].rule}}
  <2>1. IsFiniteSet(DOMAIN h)
    BY <1>0, <1>3, DifferenceSets
  <2>2. IsScript(c) /\ Range(c) = UNION {Range(h[n]) : n \in DOMAIN h}
    BY <1>3, <2>1, EachScript
  <2>3. \A x : x \in UNION {Range(h[n]) : n \in DOMAIN h} <=>
            \/ x \in KeptDiffs(current, target)
            \/ \E e \in Kept(current, target) : current[e].rule # target[e].rule
                                     /\ x = ModifyPermissions(e)
    BY <1>3 DEF KeptDiffs
  <2>. HIDE DEF c
  <2>4. \A x : x \in Range(c) <=>
            \/ x \in KeptDiffs(current, target)
            \/ x \in {ModifyPermissions(e) :
                e \in {k \in Kept(current, target) : current[k].rule # target[k].rule}}
    BY <2>2, <2>3
  <2>. QED
    BY <2>2, <2>4
<1>5. DiffEdges(current, target) = (a \o b) \o c
  BY DEF DiffEdges, h
<1>. HIDE DEF a, b, c
<1>6. /\ IsScript((a \o b) \o c)
      /\ Range((a \o b) \o c) = Range(a) \cup Range(b) \cup Range(c)
  BY <1>1, <1>2, <1>4, ThreeScripts
<1>. QED
  BY <1>1, <1>2, <1>4, <1>5, <1>6 DEF EdgeDiffs, TableDiffs

LEMMA SchemasDiffer ==
    ASSUME NEW current, NEW target,
           AllFinite(current.tables), AllFinite(target.tables),
           AllFinite(current.edges), AllFinite(target.edges),
           IsFiniteSet(DOMAIN current.buckets), IsFiniteSet(DOMAIN target.buckets)
    PROVE  /\ IsScript(DiffSchemas(current, target))
           /\ Range(DiffSchemas(current, target)) = SchemaDiffs(current, target)
<1>. DEFINE a == DiffTables(current.tables, target.tables)
            b == DiffEdges(current.edges, target.edges)
            c == DiffBuckets(current.buckets, target.buckets)
<1>1. IsScript(a) /\ Range(a) = TableDiffs(current.tables, target.tables)
  BY TablesDiffer
<1>2. IsScript(b) /\ Range(b) = EdgeDiffs(current.edges, target.edges)
  BY EdgesDiffer
<1>3. IsScript(c) /\ Range(c) = BucketDiffs(current.buckets, target.buckets)
  BY BucketsDiffer
<1>4. DiffSchemas(current, target) = (a \o b) \o c
  BY DEF DiffSchemas
<1>. HIDE DEF a, b, c
<1>5. /\ IsScript((a \o b) \o c)
      /\ Range((a \o b) \o c) = Range(a) \cup Range(b) \cup Range(c)
  BY <1>1, <1>2, <1>3, ThreeScripts
<1>. QED
  BY <1>1, <1>2, <1>3, <1>4, <1>5 DEF SchemaDiffs

---------------------------------------------------------------------------
(* What the differ makes of a live schema fits the declared one.           *)
Ready(q, c, w) ==
    /\ IsScript(q)
    /\ \A x \in Range(q) : Fits(x, w)
    /\ Placed(q, DOMAIN c.tables)

LEMMA SingleReady ==
    ASSUME NEW x, NEW c, NEW w, Fits(x, w),
           DefinesColumn(x) => x.on \in DOMAIN c.tables
    PROVE  Ready(<<x>>, c, w)
<1>1. IsScript(<<x>>) /\ Range(<<x>>) = {x}
  BY SingleScript
<1>2. Placed(<<x>>, DOMAIN c.tables)
  BY <1>1, RangePlaced
<1>. QED
  BY <1>1, <1>2 DEF Ready

LEMMA EmptyReady ==
    ASSUME NEW c, NEW w
    PROVE  Ready(<<>>, c, w)
BY EmptyScript DEF Ready

LEMMA ColumnDiffsReady ==
    ASSUME NEW s, Declarable(s), NEW c, NEW t \in DOMAIN AllTables(s),
           t \in DOMAIN c.tables, NEW current,
           DOMAIN current.fields \cap DOMAIN Endpoints(AllTables(s)[t].mode) = {},
           NEW d \in ColumnDiffs(t, current, AllTables(s)[t])
    PROVE  Ready(d.sql, c, CatalogOf(s))
<1>. DEFINE table == AllTables(s)[t]
            w == CatalogOf(s)
            u == w.tables[t]
<1>. SUFFICES Ready(d.sql, c, w)
  OBVIOUS
<1>. HIDE DEF table, u, w
<1>1. /\ t \in DOMAIN w.tables
      /\ u.indexes = table.indexes /\ u.events = table.events
      /\ DOMAIN u.fields = DOMAIN Endpoints(table.mode) \cup DOMAIN table.fields
      /\ \A n \in DOMAIN table.fields : u.fields[n] = ColumnOf(table.fields[n])
  BY ONLY Declarable(s), t \in DOMAIN AllTables(s), CatalogTables DEF table, u,
     w
<1>2. DOMAIN current.fields \cap DOMAIN Endpoints(table.mode) = {}
  BY DEF table
<1>3. ASSUME NEW n \in DOMAIN table.fields, d.sql = <<DefineType(t, n, table.fields[n])>>
      PROVE  Ready(d.sql, c, w)
  <2>. DEFINE x == DefineType(t, n, table.fields[n])
  <2>1. /\ x.verb = "DEFINE" /\ x.kind = "fields" /\ x.on = t /\ x.name = n
        /\ x.def.type = FieldTypeToSql(table.fields[n])
    BY DEF DefineType, Define, Statement
  <2>2. u.fields[n].type = FieldTypeToSql(table.fields[n])
    <3>1. u.fields[n] = ColumnOf(table.fields[n])
      BY <1>1
    <3>. QED
      BY <3>1 DEF ColumnOf
  <2>3. n \in DOMAIN u.fields
    BY <1>1
  <2>. HIDE DEF x
  <2>4. Fits(x, w)
    BY <1>1, <2>1, <2>2, <2>3 DEF Fits, u
  <2>. QED
    BY <1>3, <2>1, <2>4, SingleReady DEF x
<1>4. ASSUME NEW k \in ColumnKinds, NEW n, n \notin DOMAIN u[k],
             d.sql = <<Drop(k, t, n)>>
      PROVE  Ready(d.sql, c, w)
  <2>. DEFINE x == Drop(k, t, n)
  <2>1. x.verb = "REMOVE" /\ x.kind = k /\ x.on = t /\ x.name = n
    BY DEF Drop, Statement
  <2>. HIDE DEF x
  <2>2. Fits(x, w) /\ ~DefinesColumn(x)
    BY <1>1, <1>4, <2>1 DEF Fits, u, DefinesColumn
  <2>. QED
    BY <1>4, <2>2, SingleReady DEF x
<1>5. ASSUME NEW n \in DOMAIN table.indexes,
             d.sql = <<Define("indexes", t, n, table.indexes[n])>>
      PROVE  Ready(d.sql, c, w)
  <2>. DEFINE x == Define("indexes", t, n, table.indexes[n])
  <2>1. x.verb = "DEFINE" /\ x.kind = "indexes" /\ x.on = t /\ x.name = n
    BY DEF Define, Statement
  <2>. HIDE DEF x
  <2>2. Fits(x, w)
    BY <1>1, <2>1 DEF Fits, u
  <2>. QED
    BY <1>5, <2>1, <2>2, SingleReady DEF x
<1>6. CASE d \in FieldDiffs(t, current.fields, table.fields)
  <2>1. CASE \E n \in Added(current.fields, table.fields) :
                d = AddField(t, n, table.fields[n])
    BY <1>3, <2>1 DEF AddField, Difference, Added
  <2>2. CASE \E n \in Dropped(current.fields, table.fields) :
                d = DropColumn("DROP_FIELD", "fields", t, n)
    <3>1. PICK n \in Dropped(current.fields, table.fields) :
                d = DropColumn("DROP_FIELD", "fields", t, n)
      BY <2>2
    <3>2. n \notin DOMAIN u.fields
      BY <1>1, <1>2 DEF Dropped
    <3>3. d.sql = <<Drop("fields", t, n)>>
      BY <3>1 DEF DropColumn, Difference
    <3>. QED
      BY <1>4, <3>2, <3>3 DEF ColumnKinds
  <2>3. CASE \E n \in Retyped(current.fields, table.fields) :
                d = ModifyField(t, n, table.fields[n])
    BY <1>3, <2>3 DEF ModifyField, Difference, Retyped, Kept
  <2>. QED
    BY <1>6, <2>1, <2>2, <2>3 DEF FieldDiffs
<1>7. CASE d \in IndexDiffs(t, current.indexes, table.indexes)
  <2>1. CASE \E n \in Added(current.indexes, table.indexes) :
                d = AddIndex(t, n, table.indexes[n])
    BY <1>5, <2>1 DEF AddIndex, Difference, Added
  <2>2. CASE \E n \in Dropped(current.indexes, table.indexes) :
                d = DropColumn("DROP_INDEX", "indexes", t, n)
    <3>1. PICK n \in Dropped(current.indexes, table.indexes) :
                d = DropColumn("DROP_INDEX", "indexes", t, n)
      BY <2>2
    <3>2. n \notin DOMAIN u.indexes
      BY <1>1 DEF Dropped
    <3>3. d.sql = <<Drop("indexes", t, n)>>
      BY <3>1 DEF DropColumn, Difference
    <3>. QED
      BY <1>4, <3>2, <3>3 DEF ColumnKinds
  <2>. QED
    BY <1>7, <2>1, <2>2 DEF IndexDiffs
<1>8. CASE d \in EventDiffs(t, current.events, table.events)
  <2>1. CASE \E n \in Added(current.events, table.events) : d = AddEvent(t, n)
    <3>1. d.sql = <<>>
      BY <2>1 DEF AddEvent, Difference
    <3>. QED
      BY <3>1, EmptyReady
  <2>2. CASE \E n \in Dropped(current.events, table.events) :
                d = DropColumn("DROP_EVENT", "events", t, n)
    <3>1. PICK n \in Dropped(current.events, table.events) :
                d = DropColumn("DROP_EVENT", "events", t, n)
      BY <2>2
    <3>2. n \notin DOMAIN u.events
      BY <1>1 DEF Dropped
    <3>3. d.sql = <<Drop("events", t, n)>>
      BY <3>1 DEF DropColumn, Difference
    <3>. QED
      BY <1>4, <3>2, <3>3 DEF ColumnKinds
  <2>. QED
    BY <1>8, <2>1, <2>2 DEF EventDiffs
<1>9. d \in ColumnDiffs(t, current, table)
  BY DEF table
<1>. QED
  BY <1>6, <1>7, <1>8, <1>9 DEF ColumnDiffs

(* `current` is what was read of the tables, or of the edges, and `target` *)
(* those that s declares.                                                  *)
Comparable(current, target, c, s) ==
    /\ DOMAIN target \subseteq DOMAIN AllTables(s)
    /\ \A t \in DOMAIN target : AllTables(s)[t] = target[t]
    /\ DOMAIN current \cap DOMAIN AllTables(s) \subseteq DOMAIN target
    /\ DOMAIN current \cap DOMAIN target \subseteq DOMAIN c.tables
    /\ \A t \in DOMAIN current \cap DOMAIN target :
        DOMAIN current[t].fields \cap DOMAIN Endpoints(target[t].mode) = {}

LEMMA TableDiffsReady ==
    ASSUME NEW s, Declarable(s), NEW c, NEW current, NEW target,
           Comparable(current, target, c, s),
           NEW d \in EdgeDiffs(current, target)
    PROVE  Ready(d.sql, c, CatalogOf(s))
<1>. DEFINE w == CatalogOf(s)
<1>0. DOMAIN w.tables = DOMAIN AllTables(s)
  BY DEF CatalogOf
<1>. HIDE DEF w
<1>1. ASSUME NEW t \in Added(current, target), d = AddTable(t, target[t])
      PROVE  Ready(d.sql, c, w)
  <2>. DEFINE table == AllTables(s)[t]
  <2>1. t \in DOMAIN AllTables(s) /\ table = target[t] /\ Finite(table)
    BY DeclarableTables DEF Comparable, Added
  <2>2. d.sql = GenerateTableSql(t, table)
    BY <1>1, <2>1 DEF AddTable, Difference
  <2>3. /\ IsScript(d.sql)
        /\ Range(d.sql) = TableStatements(t, table)
        /\ Placed(d.sql, DOMAIN c.tables)
    BY <2>1, <2>2, TableScript
  <2>4. \A x \in TableStatements(t, AllTables(s)[t]) : Fits(x, w)
    BY <2>1, TableStatementsFit DEF w
  <2>. QED
    BY <2>3, <2>4 DEF Ready
<1>2. ASSUME NEW t \in Dropped(current, target), d = DropTable(t)
      PROVE  Ready(d.sql, c, w)
  <2>. DEFINE x == Drop("tables", t, t)
  <2>1. x.verb = "REMOVE" /\ x.kind = "tables" /\ x.name = t
    BY DEF Drop, Statement
  <2>2. t \notin DOMAIN w.tables
    BY <1>0 DEF Comparable, Dropped
  <2>3. d.sql = <<x>>
    BY <1>2 DEF DropTable, Difference
  <2>. HIDE DEF x
  <2>4. Fits(x, w) /\ ~DefinesColumn(x)
    BY <2>1, <2>2 DEF Fits, DefinesColumn
  <2>. QED
    BY <2>3, <2>4, SingleReady
<1>3. ASSUME NEW t \in Kept(current, target),
             d \in ColumnDiffs(t, current[t], target[t])
      PROVE  Ready(d.sql, c, w)
  <2>1. t \in DOMAIN AllTables(s) /\ AllTables(s)[t] = target[t]
        /\ t \in DOMAIN c.tables
        /\ DOMAIN current[t].fields
                \cap DOMAIN Endpoints(AllTables(s)[t].mode) = {}
    BY DEF Comparable, Kept
  <2>2. d \in ColumnDiffs(t, current[t], AllTables(s)[t])
    BY <1>3, <2>1
  <2>. QED
    BY <2>1, <2>2, ColumnDiffsReady DEF w
<1>4. ASSUME NEW e, d = ModifyPermissions(e)
      PROVE  Ready(d.sql, c, w)
  <2>1. d.sql = <<>>
    BY <1>4 DEF ModifyPermissions, Difference
  <2>. QED
    BY <2>1, EmptyReady
<1>. QED
  BY <1>1, <1>2, <1>3, <1>4 DEF EdgeDiffs, TableDiffs, KeptDiffs, w

LEMMA BucketDiffsReady ==
    ASSUME NEW s, Declarable(s), NEW c, NEW current,
           NEW d \in BucketDiffs(current, s.buckets)
    PROVE  Ready(d.sql, c, CatalogOf(s))
<1>. DEFINE w == CatalogOf(s)
<1>0. w.buckets = s.buckets
  BY DEF CatalogOf
<1>00. \A b \in DOMAIN s.buckets : Attributes \subseteq DOMAIN s.buckets[b]
  BY DEF Declarable, Range, Attributes
<1>. HIDE DEF w
<1>1. ASSUME NEW b \in Added(current, s.buckets), d = AddBucket(b, s.buckets[b])
      PROVE  Ready(d.sql, c, w)
  <2>. DEFINE x == Define("buckets", b, b, s.buckets[b])
  <2>1. /\ x.verb = "DEFINE" /\ x.kind = "buckets" /\ x.name = b
        /\ x.def = s.buckets[b]
    BY DEF Define, Statement
  <2>2. d.sql = <<x>>
    BY <1>1 DEF AddBucket, Difference, GenerateBucketSql
  <2>. HIDE DEF x
  <2>3. Fits(x, w) /\ ~DefinesColumn(x)
    BY <1>0, <1>00, <2>1 DEF Fits, DefinesColumn, TopLevel, Added
  <2>. QED
    BY <2>2, <2>3, SingleReady
<1>2. ASSUME NEW b \in Dropped(current, s.buckets), d = DropBucket(b)
      PROVE  Ready(d.sql, c, w)
  <2>. DEFINE x == Drop("buckets", b, b)
  <2>1. x.verb = "REMOVE" /\ x.kind = "buckets" /\ x.name = b
    BY DEF Drop, Statement
  <2>2. d.sql = <<x>>
    BY <1>2 DEF DropBucket, Difference
  <2>. HIDE DEF x
  <2>3. Fits(x, w) /\ ~DefinesColumn(x)
    BY <1>0, <2>1 DEF Fits, DefinesColumn, Dropped
  <2>. QED
    BY <2>2, <2>3, SingleReady
<1>3. ASSUME NEW b \in Changed(current, s.buckets),
             d = ModifyBucket(b, current[b], s.buckets[b])
      PROVE  Ready(d.sql, c, w)
  <2>. DEFINE x == AlterBucket(b, current[b], s.buckets[b])
  <2>1. /\ x.verb = "ALTER" /\ x.kind = "buckets" /\ x.name = b /\ ~x.ifExists
        /\ \A a \in DOMAIN x.def : x.def[a] = s.buckets[b][a]
    BY DEF AlterBucket, Alter, Statement, Restrict
  <2>2. d.sql = <<x>>
    BY <1>3 DEF ModifyBucket, Difference
  <2>. HIDE DEF x
  <2>3. Fits(x, w) /\ ~DefinesColumn(x)
    BY <1>0, <2>1 DEF Fits, DefinesColumn, Changed, Kept
  <2>. QED
    BY <2>2, <2>3, SingleReady
<1>. QED
  BY <1>1, <1>2, <1>3 DEF BucketDiffs, w

(* The whole script.                                                       *)
LEMMA UpScript ==
    ASSUME NEW diffs, IsScript(diffs), \A d \in Range(diffs) : IsScript(d.sql)
    PROVE  /\ IsScript(UpSql(diffs))
           /\ Range(UpSql(diffs)) = UNION {Range(d.sql) : d \in Range(diffs)}
           /\ \A T : (\A d \in Range(diffs) : Placed(d.sql, T))
                        => Placed(UpSql(diffs), T)
<1>. DEFINE n == Len(diffs)
            s == [i \in DOMAIN diffs |-> diffs[i].sql]
<1>1. n \in Nat /\ DOMAIN diffs = 1 .. n
  BY LenProperties DEF IsScript
<1>. HIDE DEF n
<1>2. \A i \in 1 .. n : diffs[i] \in Range(diffs) /\ s[i] = diffs[i].sql
  BY <1>1 DEF Range
<1>3. \A d \in Range(diffs) : \E i \in 1 .. n : d = diffs[i]
  BY <1>1 DEF Range
<1>4. UpSql(diffs) = FlattenSeq(s) /\ s = [i \in 1 .. n |-> s[i]]
  BY <1>1 DEF UpSql
<1>. HIDE DEF s
<1>5. \A i \in 1 .. n : IsScript(s[i])
  BY <1>2
<1>6. /\ IsScript(FlattenSeq(s))
      /\ Range(FlattenSeq(s)) = UNION {Range(s[i]) : i \in 1 .. n}
      /\ \A T : (\A i \in 1 .. n : Placed(s[i], T)) => Placed(FlattenSeq(s), T)
  BY <1>1, <1>4, <1>5, FlattenScript
<1>7. UNION {Range(s[i]) : i \in 1 .. n} = UNION {Range(d.sql) : d \in Range(diffs)}
  BY <1>2, <1>3
<1>8. ASSUME NEW T, \A d \in Range(diffs) : Placed(d.sql, T)
      PROVE  Placed(FlattenSeq(s), T)
  BY <1>2, <1>6, <1>8
<1>. QED
  BY <1>4, <1>6, <1>7, <1>8

---------------------------------------------------------------------------
(* What an instance has read, all of it or a part.                         *)
Sane(v, c, s) ==
    /\ v = [tables |-> v.tables, edges |-> v.edges, buckets |-> v.buckets]
    /\ AllFinite(v.tables) /\ AllFinite(v.edges)
    /\ IsFiniteSet(DOMAIN v.buckets)
    /\ DOMAIN v.tables \cap DOMAIN s.edges = {}
    /\ DOMAIN v.edges \cap DOMAIN s.tables = {}
    /\ (DOMAIN v.tables \cup DOMAIN v.edges) \cap DOMAIN AllTables(s)
            \subseteq DOMAIN c.tables
    /\ \A e \in DOMAIN v.edges \cap DOMAIN s.edges :
            DOMAIN v.edges[e].fields \cap Ends = {}

LEMMA DeclaredTables ==
    ASSUME NEW s, Declarable(s)
    PROVE  /\ AllFinite(s.tables) /\ AllFinite(s.edges)
           /\ DOMAIN CatalogOf(s).tables = DOMAIN s.tables \cup DOMAIN s.edges
           /\ \A t \in DOMAIN s.tables : SortOf(CatalogOf(s).tables[t]) = "table"
           /\ \A e \in DOMAIN s.edges : SortOf(CatalogOf(s).tables[e]) = "edge"
<1>1. AllFinite(s.tables) /\ AllFinite(s.edges)
  BY DEF Declarable, AllFinite, Finite, Range
<1>2. DOMAIN CatalogOf(s).tables = DOMAIN AllTables(s)
  BY DEF CatalogOf
<1>3. DOMAIN AllTables(s) = DOMAIN s.tables \cup DOMAIN s.edges
  BY DeclarableTables
<1>4. ASSUME NEW t \in DOMAIN AllTables(s)
      PROVE  SortOf(CatalogOf(s).tables[t]) = SortOf(AllTables(s)[t])
  BY CatalogTables
<1>5. ASSUME NEW t \in DOMAIN s.tables
      PROVE  SortOf(CatalogOf(s).tables[t]) = "table"
  BY <1>3, <1>4, DeclarableTables DEF SortOf, Declarable
<1>6. ASSUME NEW t \in DOMAIN s.edges
      PROVE  SortOf(CatalogOf(s).tables[t]) = "edge"
  <2>1. t \in DOMAIN AllTables(s) /\ AllTables(s)[t] = s.edges[t]
    BY DeclarableTables
  <2>2. s.edges[t].mode = "RELATION"
    BY DEF Declarable
  <2>. QED
    BY <1>4, <2>1, <2>2 DEF SortOf
<1>. QED
  BY <1>1, <1>2, <1>3, <1>5, <1>6

LEMMA NoSchemaSane ==
    ASSUME NEW c, NEW s
    PROVE  Sane(NoSchema, c, s)
<1>1. /\ NoSchema.tables = Nothing /\ NoSchema.edges = Nothing
      /\ NoSchema.buckets = Nothing
      /\ NoSchema = [tables |-> NoSchema.tables, edges |-> NoSchema.edges,
                     buckets |-> NoSchema.buckets]
  BY DEF NoSchema
<1>2. DOMAIN Nothing = {} /\ IsFiniteSet({})
  BY NothingIsEmpty, FS_EmptySet
<1>. HIDE DEF NoSchema
<1>3. AllFinite(NoSchema.tables) /\ AllFinite(NoSchema.edges)
  BY <1>1, <1>2 DEF AllFinite
<1>. QED
  BY <1>1, <1>2, <1>3 DEF Sane

LEMMA DbInfoSane ==
    ASSUME NEW s, Declarable(s), NEW c, Sound(c, CatalogOf(s)),
           NEW v, v = ParseDbInfo(c)
    PROVE  Sane(v, c, s) /\ DOMAIN v.tables \cup DOMAIN v.edges = DOMAIN c.tables
<1>1. /\ v = [tables |-> v.tables, edges |-> v.edges, buckets |-> v.buckets]
      /\ DOMAIN v.tables = DOMAIN c.tables \ Relations(c)
      /\ DOMAIN v.edges = Relations(c)
      /\ DOMAIN v.buckets = DOMAIN c.buckets
      /\ \A t \in DOMAIN v.tables : v.tables[t] =
            TableOf(c.tables[t].mode, ParsePermissions(c.tables[t].rule))
      /\ \A t \in DOMAIN v.edges : v.edges[t] =
            TableOf(c.tables[t].mode, ParsePermissions(c.tables[t].rule))
  BY DEF ParseDbInfo
<1>2. Relations(c) \subseteq DOMAIN c.tables
  BY DEF Relations
<1>3. \A m, r : /\ Finite(TableOf(m, r))
                /\ DOMAIN TableOf(m, r).fields = {}
  BY NothingIsEmpty, FS_EmptySet DEF TableOf, Finite
<1>4. AllFinite(v.tables) /\ AllFinite(v.edges)
  <2>1. IsFiniteSet(DOMAIN v.tables) /\ IsFiniteSet(DOMAIN v.edges)
    BY <1>1, <1>2, FS_Subset DEF Sound, Shaped
  <2>2. \A t \in DOMAIN v.tables : Finite(v.tables[t])
    BY <1>1, <1>3
  <2>3. \A t \in DOMAIN v.edges : Finite(v.edges[t])
    BY <1>1, <1>3
  <2>. QED
    BY <2>1, <2>2, <2>3 DEF AllFinite
<1>5. IsFiniteSet(DOMAIN v.buckets)
  BY <1>1 DEF Sound, Shaped
<1>6. ASSUME NEW t \in DOMAIN v.tables, t \in DOMAIN s.edges
      PROVE  FALSE
  <2>1. t \in DOMAIN c.tables /\ SortOf(c.tables[t]) = "table"
    BY <1>1 DEF Relations, SortOf
  <2>. QED
    BY <1>6, <2>1, DeclaredTables DEF Sound, Alike
<1>7. ASSUME NEW t \in DOMAIN v.edges, t \in DOMAIN s.tables
      PROVE  FALSE
  <2>1. t \in DOMAIN c.tables /\ SortOf(c.tables[t]) = "edge"
    BY <1>1 DEF Relations, SortOf
  <2>. QED
    BY <1>7, <2>1, DeclaredTables DEF Sound, Alike
<1>8. \A e \in DOMAIN v.edges : DOMAIN v.edges[e].fields = {}
  BY <1>1, <1>3
<1>. QED
  BY <1>1, <1>2, <1>4, <1>5, <1>6, <1>7, <1>8 DEF Sane

(* The live schema once the table t has been read.                         *)
WithInfo(v, t, info) ==
    IF t \in DOMAIN v.edges THEN [v EXCEPT !.edges[t] = info]
                            ELSE [v EXCEPT !.tables[t] = info]

LEMMA WithInfoValue ==
    ASSUME NEW v, NEW t \in DOMAIN v.tables \cup DOMAIN v.edges, NEW info,
           v = [tables |-> v.tables, edges |-> v.edges, buckets |-> v.buckets],
           NEW z, z = WithInfo(v, t, info)
    PROVE  /\ z = [tables |-> z.tables, edges |-> z.edges, buckets |-> z.buckets]
           /\ DOMAIN z.tables = DOMAIN v.tables
           /\ DOMAIN z.edges = DOMAIN v.edges
           /\ z.buckets = v.buckets
           /\ \A u \in DOMAIN v.edges :
                z.edges[u] = IF u = t THEN info ELSE v.edges[u]
           /\ \A u \in DOMAIN v.tables :
                z.tables[u] = IF u = t /\ t \notin DOMAIN v.edges THEN info
                              ELSE v.tables[u]
<1>1. CASE t \in DOMAIN v.edges
  <2>1. z = [v EXCEPT !.edges = [v.edges EXCEPT ![t] = info]]
    BY <1>1 DEF WithInfo
  <2>2. z.tables = v.tables /\ z.buckets = v.buckets
        /\ z.edges = [v.edges EXCEPT ![t] = info]
    BY <2>1
  <2>3. z = [tables |-> z.tables, edges |-> z.edges, buckets |-> z.buckets]
    BY <2>1
  <2>. QED
    BY <1>1, <2>2, <2>3
<1>2. CASE t \notin DOMAIN v.edges
  <2>1. z = [v EXCEPT !.tables = [v.tables EXCEPT ![t] = info]]
    BY <1>2 DEF WithInfo
  <2>2. z.edges = v.edges /\ z.buckets = v.buckets
        /\ z.tables = [v.tables EXCEPT ![t] = info]
    BY <2>1
  <2>3. z = [tables |-> z.tables, edges |-> z.edges, buckets |-> z.buckets]
    BY <2>1
  <2>. QED
    BY <1>2, <2>2, <2>3
<1>. QED
  BY <1>1, <1>2

LEMMA TableInfoValue ==
    ASSUME NEW table, NEW info, info = ParseTableInfo(table)
    PROVE  /\ info.mode = table.mode
           /\ DOMAIN info.fields = DOMAIN table.fields \ DOMAIN Endpoints(table.mode)
           /\ \A n \in DOMAIN info.fields :
                info.fields[n] = ParseField(table.fields[n])
           /\ info.indexes = table.indexes /\ info.events = table.events
           /\ info.rule = ParsePermissions(table.rule)
BY DEF ParseTableInfo, ParseFields

LEMMA TableInfoSane ==
    ASSUME NEW s, Declarable(s), NEW c, Sound(c, CatalogOf(s)),
           NEW v, Sane(v, c, s), NEW t \in DOMAIN v.tables \cup DOMAIN v.edges,
           t \in DOMAIN c.tables,
           NEW z, z = WithInfo(v, t, ParseTableInfo(c.tables[t]))
    PROVE  Sane(z, c, s)
<1>. DEFINE table == c.tables[t]
            info == ParseTableInfo(table)
<1>1. /\ z = [tables |-> z.tables, edges |-> z.edges, buckets |-> z.buckets]
      /\ DOMAIN z.tables = DOMAIN v.tables
      /\ DOMAIN z.edges = DOMAIN v.edges
      /\ z.buckets = v.buckets
      /\ \A u \in DOMAIN v.edges :
            z.edges[u] = IF u = t THEN info ELSE v.edges[u]
      /\ \A u \in DOMAIN v.tables :
            z.tables[u] = IF u = t /\ t \notin DOMAIN v.edges THEN info
                          ELSE v.tables[u]
  BY WithInfoValue DEF Sane
<1>2. /\ DOMAIN info.fields = DOMAIN table.fields \ DOMAIN Endpoints(table.mode)
      /\ info.indexes = table.indexes /\ info.events = table.events
  BY TableInfoValue
<1>3. Finite(info)
  <2>1. /\ IsFiniteSet(DOMAIN table.fields) /\ IsFiniteSet(DOMAIN table.indexes)
        /\ IsFiniteSet(DOMAIN table.events)
    BY DEF Sound, Shaped, ColumnKinds
  <2>. HIDE DEF table, info
  <2>. QED
    BY <1>2, <2>1, FS_Subset DEF Finite
<1>4. t \in DOMAIN s.edges => DOMAIN info.fields \cap Ends = {}
  <2>. SUFFICES ASSUME t \in DOMAIN s.edges
                PROVE  DOMAIN info.fields \cap Ends = {}
    OBVIOUS
  <2>1. SortOf(table) = "edge"
    BY DeclaredTables DEF Sound, Alike
  <2>2. table.mode = "RELATION"
    BY <2>1 DEF SortOf
  <2>. QED
    BY <1>2, <2>2, EndpointsAt
<1>. HIDE DEF info, table
<1>5. AllFinite(z.tables) /\ AllFinite(z.edges)
  BY <1>1, <1>3 DEF Sane, AllFinite
<1>6. \A e \in DOMAIN z.edges \cap DOMAIN s.edges :
            DOMAIN z.edges[e].fields \cap Ends = {}
  BY <1>1, <1>4 DEF Sane
<1>. QED
  BY <1>1, <1>5, <1>6 DEF Sane

LEMMA DiffsReady ==
    ASSUME NEW s, Declarable(s), NEW c, NEW v, Sane(v, c, s)
    PROVE  /\ Ready(UpSql(DiffSchemas(v, s)), c, CatalogOf(s))
           /\ IsScript(DiffSchemas(v, s))
           /\ Range(DiffSchemas(v, s)) = SchemaDiffs(v, s)
           /\ Range(UpSql(DiffSchemas(v, s)))
                = UNION {Range(d.sql) : d \in SchemaDiffs(v, s)}
<1>. DEFINE diffs == DiffSchemas(v, s)
            w == CatalogOf(s)
<1>1. IsScript(diffs) /\ Range(diffs) = SchemaDiffs(v, s)
  BY SchemasDiffer, DeclaredTables DEF Sane, Declarable
<1>2. Comparable(v.tables, s.tables, c, s)
  <2>1. \A t \in DOMAIN s.tables : s.tables[t].mode # "RELATION"
    BY DEF Declarable
  <2>2. ASSUME NEW t \in DOMAIN s.tables
        PROVE  DOMAIN Endpoints(s.tables[t].mode) = {}
    <3>. DEFINE m == s.tables[t].mode
    <3>1. m # "RELATION"
      BY <2>1
    <3>. HIDE DEF m
    <3>2. \A n : n \notin DOMAIN Endpoints(m)
      BY <3>1, EndpointsAt
    <3>. QED
      BY <3>2 DEF m
  <2>. QED
    BY <2>2, DeclarableTables DEF Comparable, Sane
<1>3. Comparable(v.edges, s.edges, c, s)
  <2>1. ASSUME NEW e \in DOMAIN v.edges \cap DOMAIN s.edges
        PROVE  DOMAIN v.edges[e].fields
                    \cap DOMAIN Endpoints(s.edges[e].mode) = {}
    <3>. DEFINE m == s.edges[e].mode
    <3>. HIDE DEF m
    <3>1. \A n \in DOMAIN Endpoints(m) : n \in Ends
      BY EndpointsAt
    <3>2. DOMAIN v.edges[e].fields \cap Ends = {}
      BY DEF Sane
    <3>3. DOMAIN v.edges[e].fields \cap DOMAIN Endpoints(m) = {}
      BY <3>1, <3>2
    <3>. QED
      BY <3>3 DEF m
  <2>2. /\ DOMAIN s.edges \subseteq DOMAIN AllTables(s)
        /\ \A e \in DOMAIN s.edges : AllTables(s)[e] = s.edges[e]
        /\ DOMAIN AllTables(s) = DOMAIN s.tables \cup DOMAIN s.edges
    BY DeclarableTables
  <2>. QED
    BY <2>1, <2>2 DEF Comparable, Sane
<1>4. \A d \in Range(diffs) : Ready(d.sql, c, w)
  <2>. SUFFICES ASSUME NEW d \in SchemaDiffs(v, s)
                PROVE  Ready(d.sql, c, w)
    BY <1>1
  <2>1. CASE d \in TableDiffs(v.tables, s.tables)
    <3>1. d \in EdgeDiffs(v.tables, s.tables)
      BY <2>1 DEF EdgeDiffs
    <3>. QED
      BY <1>2, <3>1, TableDiffsReady
  <2>2. CASE d \in EdgeDiffs(v.edges, s.edges)
    BY <1>3, <2>2, TableDiffsReady
  <2>3. CASE d \in BucketDiffs(v.buckets, s.buckets)
    BY <2>3, BucketDiffsReady
  <2>. QED
    BY <2>1, <2>2, <2>3 DEF SchemaDiffs
<1>. HIDE DEF diffs, w
<1>5. /\ IsScript(UpSql(diffs))
      /\ Range(UpSql(diffs)) = UNION {Range(d.sql) : d \in Range(diffs)}
      /\ Placed(UpSql(diffs), DOMAIN c.tables)
  BY <1>1, <1>4, UpScript DEF Ready
<1>6. \A x \in Range(UpSql(diffs)) : Fits(x, w)
  BY <1>4, <1>5 DEF Ready
<1>. QED
  BY <1>1, <1>5, <1>6 DEF Ready, diffs, w

(* What is ready stays so while others move the database nearer.           *)
LEMMA ReadyKept ==
    ASSUME NEW q, NEW c, NEW d, NEW w, Ready(q, c, w),
           DOMAIN c.tables \cap DOMAIN w.tables \subseteq DOMAIN d.tables
    PROVE  Ready(q, d, w)
<1>1. ASSUME NEW k \in DOMAIN q, DefinesColumn(q[k])
      PROVE  q[k].on \in DOMAIN w.tables
  <2>1. Fits(q[k], w)
    BY DEF Ready, Range
  <2>. QED
    BY <1>1, <2>1 DEF Fits, DefinesColumn, TopLevel
<1>2. Placed(q, DOMAIN d.tables)
  BY <1>1 DEF Ready, Placed
<1>. QED
  BY <1>2 DEF Ready

LEMMA HeadIsFirst ==
    ASSUME NEW q, NEW c, NEW w, Ready(q, c, w), q # <<>>
    PROVE  /\ Fits(Head(q), w)
           /\ DefinesColumn(Head(q)) => Head(q).on \in DOMAIN c.tables
<1>1. q \in Seq(Range(q))
  BY DEF Ready, IsScript
<1>2. Head(q) = q[1] /\ 1 \in DOMAIN q
  BY <1>1, HeadTailProperties, EmptySeq, LenProperties
<1>3. Head(q) \in Range(q)
  BY <1>2 DEF Range
<1>4. \A j \in 1 .. 1 - 1 : FALSE
  OBVIOUS
<1>5. Placed(q, DOMAIN c.tables)
  BY DEF Ready
<1>6. DefinesColumn(Head(q)) => Head(q).on \in DOMAIN c.tables
  BY <1>2, <1>4, <1>5 DEF Placed
<1>. QED
  BY <1>3, <1>6 DEF Ready

LEMMA ReadyTail ==
    ASSUME NEW q, NEW c, NEW d, NEW w, Ready(q, c, w), q # <<>>,
           DOMAIN c.tables \cap DOMAIN w.tables \subseteq DOMAIN d.tables,
           \A t : DefinesTable(Head(q), t) => t \in DOMAIN d.tables
    PROVE  /\ Ready(Tail(q), d, w)
           /\ Range(q) \subseteq {Head(q)} \cup Range(Tail(q))
<1>. DEFINE X == Range(q)
            r == Tail(q)
            n == Len(q)
<1>1. q \in Seq(X)
  BY DEF Ready, IsScript
<1>. HIDE DEF X
<1>2. /\ n \in Nat /\ n # 0 /\ DOMAIN q = 1 .. n
      /\ Head(q) = q[1] /\ 1 \in DOMAIN q
      /\ r \in Seq(X)
      /\ DOMAIN r = 1 .. n - 1
      /\ \A k \in 1 .. n - 1 : r[k] = q[k + 1]
  BY <1>1, HeadTailProperties, EmptySeq, LenProperties
<1>. HIDE DEF r, n
<1>3. IsScript(r) /\ Range(r) \subseteq X
  BY <1>2, IsScriptOf
<1>4. \A x \in X : Fits(x, w)
  BY DEF Ready, X
<1>5. Placed(r, DOMAIN d.tables)
  <2>. SUFFICES ASSUME NEW k \in 1 .. n - 1, DefinesColumn(r[k]),
                       r[k].on \notin DOMAIN d.tables
                PROVE  \E j \in 1 .. k - 1 : DefinesTable(r[j], r[k].on)
    BY <1>2 DEF Placed
  <2>1. r[k] = q[k + 1] /\ k + 1 \in DOMAIN q
    BY <1>2
  <2>2. r[k].on \in DOMAIN w.tables
    <3>1. Fits(r[k], w)
      BY <1>4, <2>1 DEF X, Range
    <3>. QED
      BY <3>1 DEF Fits, DefinesColumn, TopLevel
  <2>3. r[k].on \notin DOMAIN c.tables
    BY <2>2
  <2>4. PICK j \in 1 .. (k + 1) - 1 : DefinesTable(q[j], r[k].on)
    BY <2>1, <2>3 DEF Ready, Placed
  <2>5. j # 1
    BY <1>2, <2>4
  <2>6. j - 1 \in 1 .. k - 1 /\ j - 1 \in 1 .. n - 1 /\ (j - 1) + 1 = j
    BY <1>2, <2>5
  <2>7. r[j - 1] = q[j]
    BY <1>2, <2>6
  <2>. QED
    BY <2>4, <2>6, <2>7
<1>6. Range(q) \subseteq {Head(q)} \cup Range(r)
  <2>. SUFFICES ASSUME NEW k \in 1 .. n, k # 1
                PROVE  q[k] \in Range(r)
    BY <1>2 DEF Range
  <2>1. k - 1 \in 1 .. n - 1 /\ (k - 1) + 1 = k
    BY <1>2
  <2>2. q[k] = r[k - 1]
    BY <1>2, <2>1
  <2>. QED
    BY <1>2, <2>1, <2>2 DEF Range
<1>7. \A x \in Range(r) : Fits(x, w)
  BY <1>3, <1>4
<1>. QED
  BY <1>3, <1>5, <1>6, <1>7 DEF Ready, r

---------------------------------------------------------------------------
(* The invariant.  What the code declares is `wanted`; the database has a  *)
(* shape, and no table where the code has an edge; what an instance has    *)
(* read, and what the server has yet to execute for it, can only bring the *)
(* database nearer.                                                        *)
Target == CatalogOf(code)

Typed ==
    /\ strict \in BOOLEAN
    /\ pc \in [Instances -> Locations]
    /\ seen = [i \in Instances |-> seen[i]]
    /\ unread = [i \in Instances |-> unread[i]]
    /\ todo = [i \in Instances |-> todo[i]]
    /\ refused \in [Instances -> BOOLEAN]
    /\ faults \in 0 .. MaxFaults
    /\ \A i \in Instances :
        /\ unread[i] \subseteq DOMAIN seen[i].tables \cup DOMAIN seen[i].edges
        /\ pc[i] # "applying" => todo[i] = <<>>

Consistent ==
    /\ Declarable(code)
    /\ wanted = Elements(Target)
    /\ Sound(catalog, Target)
    /\ \A i \in Instances : Sane(seen[i], catalog, code)
    /\ \A i \in Instances : Ready(todo[i], catalog, Target)

IInv == Typed /\ Consistent

LEMMA SameSort ==
    ASSUME NEW a, Declarable(a), NEW b, Declarable(b),
           DOMAIN a.tables \cap DOMAIN b.edges = {},
           DOMAIN a.edges \cap DOMAIN b.tables = {},
           NEW c, Sound(c, CatalogOf(a)), Elements(c) = Elements(CatalogOf(a))
    PROVE  Sound(c, CatalogOf(b))
<1>. DEFINE u == CatalogOf(a)
            w == CatalogOf(b)
<1>. SUFFICES ASSUME NEW t \in DOMAIN c.tables \cap DOMAIN w.tables
              PROVE  SortOf(c.tables[t]) = SortOf(w.tables[t])
  BY DEF Sound, Alike
<1>. DEFINE k == SortOf(c.tables[t])
<1>1. HasTable(c, k, t)
  BY DEF HasTable
<1>2. HasTable(u, k, t)
  BY <1>1, TableElement
<1>3. t \in DOMAIN u.tables /\ SortOf(u.tables[t]) = k
  BY <1>2 DEF HasTable
<1>. HIDE DEF u, w, k
<1>4. /\ DOMAIN u.tables = DOMAIN a.tables \cup DOMAIN a.edges
      /\ \A x \in DOMAIN a.tables : SortOf(u.tables[x]) = "table"
      /\ \A e \in DOMAIN a.edges : SortOf(u.tables[e]) = "edge"
  BY DeclaredTables DEF u
<1>5. /\ DOMAIN w.tables = DOMAIN b.tables \cup DOMAIN b.edges
      /\ \A x \in DOMAIN b.tables : SortOf(w.tables[x]) = "table"
      /\ \A e \in DOMAIN b.edges : SortOf(w.tables[e]) = "edge"
  BY DeclaredTables DEF w
<1>6. k = SortOf(w.tables[t])
  BY <1>3, <1>4, <1>5
<1>. QED
  BY <1>6 DEF k

LEMMA InitConsistent ==
    ASSUME Init
    PROVE  IInv
<1>1. MaxFaults \in Nat
  BY ReconcilerAssumption
<1>2. Typed
  BY <1>1 DEF Init, Typed, Locations, Resting
<1>3. PICK x \in Cases :
        /\ catalog = Run(GenerateSchemaSql(x[1]), EmptyCatalog, strict)
        /\ code = x[2]
        /\ wanted = Elements(Run(GenerateSchemaSql(x[2]), EmptyCatalog, strict))
  BY DEF Init
<1>. DEFINE a == x[1]
            b == x[2]
<1>4. /\ Declarable(a) /\ Declarable(b)
      /\ DOMAIN a.tables \cap DOMAIN b.edges = {}
      /\ DOMAIN a.edges \cap DOMAIN b.tables = {}
  BY ReconcilerAssumption
<1>. HIDE DEF a, b
<1>5. /\ catalog = Run(GenerateSchemaSql(a), EmptyCatalog, strict)
      /\ code = b
      /\ wanted = Elements(Run(GenerateSchemaSql(b), EmptyCatalog, strict))
  BY <1>3 DEF a, b
<1>6. Sound(catalog, CatalogOf(a)) /\ Elements(catalog) = Elements(CatalogOf(a))
  BY <1>4, <1>5, GeneratedSchema
<1>7. wanted = Elements(CatalogOf(b))
  BY <1>4, <1>5, GeneratedSchema
<1>8. Sound(catalog, CatalogOf(b))
  BY <1>4, <1>6, SameSort
<1>9. \A i \in Instances : seen[i] = NoSchema /\ todo[i] = <<>>
  BY DEF Init
<1>10. \A i \in Instances : Sane(seen[i], catalog, code)
  BY <1>9, NoSchemaSane
<1>11. \A i \in Instances : Ready(todo[i], catalog, Target)
  BY <1>9, EmptyReady
<1>. QED
  BY <1>2, <1>4, <1>5, <1>7, <1>8, <1>10, <1>11 DEF IInv, Consistent, Target

(* The steps that leave the database alone.                                *)
LEMMA NoSchemaTables ==
    DOMAIN NoSchema.tables = {} /\ DOMAIN NoSchema.edges = {}
BY NothingIsEmpty DEF NoSchema

LEMMA FetchDbInfoStep ==
    ASSUME IInv, NEW i \in Instances, FetchDbInfo(i)
    PROVE  IInv'
<1>. USE DEF IInv, Consistent
<1>. DEFINE v == ParseDbInfo(catalog)
<1>1. Sane(v, catalog, code)
      /\ DOMAIN v.tables \cup DOMAIN v.edges = DOMAIN catalog.tables
  BY DbInfoSane DEF Target
<1>. HIDE DEF v
<1>2. /\ seen' = [seen EXCEPT ![i] = v]
      /\ unread' = [unread EXCEPT ![i] = DOMAIN catalog.tables]
      /\ pc' = [pc EXCEPT ![i] = "reading"]
      /\ pc[i] \in {"idle", "failed"}
      /\ UNCHANGED <<catalog, strict, code, wanted, todo, refused, faults>>
  BY DEF FetchDbInfo, Goto, server, script, v
<1>3. \A j \in Instances :
        /\ seen'[j] = IF j = i THEN v ELSE seen[j]
        /\ unread'[j] = IF j = i THEN DOMAIN catalog.tables ELSE unread[j]
  BY <1>2 DEF Typed
<1>4. Typed'
  <2>1. pc' \in [Instances -> Locations]
    BY <1>2 DEF Typed, Locations
  <2>2. /\ seen' = [j \in Instances |-> seen'[j]]
        /\ unread' = [j \in Instances |-> unread'[j]]
    BY <1>2 DEF Typed
  <2>3. \A j \in Instances :
            unread'[j] \subseteq DOMAIN seen'[j].tables \cup DOMAIN seen'[j].edges
    BY <1>1, <1>3 DEF Typed
  <2>4. \A j \in Instances : pc'[j] # "applying" => todo'[j] = <<>>
    BY <1>2 DEF Typed
  <2>. QED
    BY <1>2, <2>1, <2>2, <2>3, <2>4 DEF Typed
<1>5. \A j \in Instances : Sane(seen'[j], catalog, code)
  BY <1>1, <1>3
<1>. QED
  BY <1>2, <1>4, <1>5 DEF Target

LEMMA FetchTableInfoStep ==
    ASSUME IInv, NEW i \in Instances, NEW t, t \in unread[i],
           FetchTableInfo(i, t)
    PROVE  IInv'
<1>. USE DEF IInv, Consistent
<1>1. UNCHANGED <<catalog, strict, code, wanted, todo, refused, faults>>
      /\ pc[i] = "reading"
  BY DEF FetchTableInfo, server, script
<1>2. t \in DOMAIN seen[i].tables \cup DOMAIN seen[i].edges
  BY DEF Typed
<1>3. CASE t \in DOMAIN catalog.tables
  <2>. DEFINE z == WithInfo(seen[i], t, ParseTableInfo(catalog.tables[t]))
  <2>1. /\ seen' = [seen EXCEPT ![i] = z]
        /\ unread' = [unread EXCEPT ![i] = @ \ {t}]
        /\ pc' = pc
    BY <1>3 DEF FetchTableInfo, WithInfo
  <2>2. Sane(z, catalog, code)
    BY <1>2, <1>3, TableInfoSane DEF Target
  <2>3. DOMAIN z.tables = DOMAIN seen[i].tables
        /\ DOMAIN z.edges = DOMAIN seen[i].edges
    <3>1. seen[i] = [tables |-> seen[i].tables, edges |-> seen[i].edges,
                     buckets |-> seen[i].buckets]
      BY DEF Sane
    <3>. QED
      BY <1>2, <3>1, WithInfoValue
  <2>. HIDE DEF z
  <2>4. \A j \in Instances :
            /\ seen'[j] = IF j = i THEN z ELSE seen[j]
            /\ unread'[j] \subseteq unread[j]
    BY <2>1 DEF Typed
  <2>5. Typed'
    <3>1. /\ seen' = [j \in Instances |-> seen'[j]]
          /\ unread' = [j \in Instances |-> unread'[j]]
      BY <2>1 DEF Typed
    <3>2. \A j \in Instances : unread'[j]
                \subseteq DOMAIN seen'[j].tables \cup DOMAIN seen'[j].edges
      BY <2>3, <2>4 DEF Typed
    <3>. QED
      BY <1>1, <2>1, <3>1, <3>2 DEF Typed
  <2>6. \A j \in Instances : Sane(seen'[j], catalog, code)
    BY <2>2, <2>4
  <2>. QED
    BY <1>1, <2>5, <2>6 DEF Target
<1>4. CASE t \notin DOMAIN catalog.tables
  <2>1. /\ seen' = [seen EXCEPT ![i] = NoSchema]
        /\ unread' = [unread EXCEPT ![i] = {}]
        /\ pc' = [pc EXCEPT ![i] = "failed"]
    BY <1>4 DEF FetchTableInfo, Goto, Forget
  <2>2. \A j \in Instances :
            /\ seen'[j] = IF j = i THEN NoSchema ELSE seen[j]
            /\ unread'[j] = IF j = i THEN {} ELSE unread[j]
    BY <2>1 DEF Typed
  <2>3. Typed'
    <3>1. pc' \in [Instances -> Locations]
      BY <2>1 DEF Typed, Locations, Resting
    <3>2. /\ seen' = [j \in Instances |-> seen'[j]]
          /\ unread' = [j \in Instances |-> unread'[j]]
      BY <2>1 DEF Typed
    <3>3. \A j \in Instances : unread'[j]
                \subseteq DOMAIN seen'[j].tables \cup DOMAIN seen'[j].edges
      BY <2>2 DEF Typed
    <3>4. \A j \in Instances : pc'[j] # "applying" => todo'[j] = <<>>
      BY <1>1, <2>1 DEF Typed
    <3>. QED
      BY <1>1, <2>1, <3>1, <3>2, <3>3, <3>4 DEF Typed
  <2>4. \A j \in Instances : Sane(seen'[j], catalog, code)
    BY <2>2, NoSchemaSane
  <2>. QED
    BY <1>1, <2>3, <2>4 DEF Target
<1>. QED
  BY <1>3, <1>4

LEMMA GenerateStep ==
    ASSUME IInv, NEW i \in Instances, Generate(i)
    PROVE  IInv'
<1>. USE DEF IInv, Consistent
<1>. DEFINE diffs == DiffSchemas(seen[i], code)
            q == UpSql(diffs)
<1>1. /\ todo' = [todo EXCEPT ![i] = q]
      /\ pc' = [pc EXCEPT ![i] = IF diffs = <<>> THEN "settled" ELSE "applying"]
      /\ seen' = [seen EXCEPT ![i] = NoSchema]
      /\ unread' = [unread EXCEPT ![i] = {}]
      /\ UNCHANGED <<catalog, strict, code, wanted, refused, faults>>
      /\ pc[i] = "reading"
  BY DEF Generate, Goto, Forget, server
<1>2. Ready(q, catalog, Target)
  BY DiffsReady DEF Target
<1>3. diffs = <<>> => q = <<>>
  BY DEF UpSql, FlattenSeq
<1>. HIDE DEF diffs, q
<1>4. \A j \in Instances :
        /\ seen'[j] = IF j = i THEN NoSchema ELSE seen[j]
        /\ unread'[j] = IF j = i THEN {} ELSE unread[j]
        /\ todo'[j] = IF j = i THEN q ELSE todo[j]
  BY <1>1 DEF Typed
<1>5. Typed'
  <2>1. pc' \in [Instances -> Locations]
    BY <1>1 DEF Typed, Locations, Resting
  <2>2. /\ seen' = [j \in Instances |-> seen'[j]]
        /\ unread' = [j \in Instances |-> unread'[j]]
        /\ todo' = [j \in Instances |-> todo'[j]]
    BY <1>1 DEF Typed
  <2>3. \A j \in Instances : unread'[j]
                \subseteq DOMAIN seen'[j].tables \cup DOMAIN seen'[j].edges
    BY <1>4 DEF Typed
  <2>4. \A j \in Instances : pc'[j] # "applying" => todo'[j] = <<>>
    BY <1>1, <1>3, <1>4 DEF Typed
  <2>. QED
    BY <1>1, <2>1, <2>2, <2>3, <2>4 DEF Typed
<1>6. \A j \in Instances : Sane(seen'[j], catalog, code)
  BY <1>4, NoSchemaSane
<1>7. \A j \in Instances : Ready(todo'[j], catalog, Target)
  BY <1>2, <1>4
<1>. QED
  BY <1>1, <1>5, <1>6, <1>7 DEF Target

LEMMA QueryReplyStep ==
    ASSUME IInv, NEW i \in Instances, QueryReply(i)
    PROVE  IInv'
<1>. USE DEF IInv, Consistent
<1>1. /\ pc' = [pc EXCEPT ![i] = IF refused[i] THEN "failed" ELSE "applied"]
      /\ refused' = [refused EXCEPT ![i] = FALSE]
      /\ todo[i] = <<>>
      /\ UNCHANGED <<catalog, strict, code, wanted, seen, unread, todo, faults>>
  BY DEF QueryReply, Goto, server, reading
<1>2. Typed'
  <2>1. pc' \in [Instances -> Locations]
    BY <1>1 DEF Typed, Locations, Resting
  <2>2. refused' \in [Instances -> BOOLEAN]
    BY <1>1 DEF Typed
  <2>3. \A j \in Instances : pc'[j] # "applying" => todo'[j] = <<>>
    BY <1>1 DEF Typed
  <2>. QED
    BY <1>1, <2>1, <2>2, <2>3 DEF Typed
<1>. QED
  BY <1>1, <1>2 DEF Target

LEMMA CrashStep ==
    ASSUME IInv, NEW i \in Instances, Crash(i)
    PROVE  IInv'
<1>. USE DEF IInv, Consistent
<1>1. /\ faults < MaxFaults /\ faults' = faults + 1
      /\ todo' = [todo EXCEPT ![i] = <<>>]
      /\ refused' = [refused EXCEPT ![i] = FALSE]
      /\ pc' = [pc EXCEPT ![i] = "failed"]
      /\ seen' = [seen EXCEPT ![i] = NoSchema]
      /\ unread' = [unread EXCEPT ![i] = {}]
      /\ UNCHANGED <<catalog, strict, code, wanted>>
  BY DEF Crash, Fault, Goto, Forget, server
<1>2. \A j \in Instances :
        /\ seen'[j] = IF j = i THEN NoSchema ELSE seen[j]
        /\ unread'[j] = IF j = i THEN {} ELSE unread[j]
        /\ todo'[j] = IF j = i THEN <<>> ELSE todo[j]
  BY <1>1 DEF Typed
<1>3. Typed'
  <2>1. pc' \in [Instances -> Locations] /\ refused' \in [Instances -> BOOLEAN]
    BY <1>1 DEF Typed, Locations, Resting
  <2>2. /\ seen' = [j \in Instances |-> seen'[j]]
        /\ unread' = [j \in Instances |-> unread'[j]]
        /\ todo' = [j \in Instances |-> todo'[j]]
    BY <1>1 DEF Typed
  <2>3. \A j \in Instances : unread'[j]
                \subseteq DOMAIN seen'[j].tables \cup DOMAIN seen'[j].edges
    BY <1>2 DEF Typed
  <2>4. \A j \in Instances : pc'[j] # "applying" => todo'[j] = <<>>
    BY <1>1, <1>2 DEF Typed
  <2>5. faults' \in 0 .. MaxFaults
    BY <1>1, ReconcilerAssumption DEF Typed
  <2>. QED
    BY <1>1, <2>1, <2>2, <2>3, <2>4, <2>5 DEF Typed
<1>4. \A j \in Instances : Sane(seen'[j], catalog, code)
  BY <1>2, NoSchemaSane
<1>5. \A j \in Instances : Ready(todo'[j], catalog, Target)
  BY <1>2, EmptyReady
<1>. QED
  BY <1>1, <1>3, <1>4, <1>5 DEF Target

(* A statement, whether the server executes or refuses it.                 *)
LEMMA ExecuteIsStep ==
    ASSUME IInv, NEW i \in Instances, ExecuteStatement(i)
    PROVE  /\ catalog' = Step(Head(todo[i]), catalog, strict)
           /\ todo[i] # <<>> /\ pc[i] = "applying"
           /\ todo' = [todo EXCEPT ![i] = Tail(@)]
           /\ UNCHANGED <<strict, code, wanted, pc, seen, unread, faults>>
           /\ refused' = IF Refused(Head(todo[i]), catalog, strict)
                         THEN [refused EXCEPT ![i] = TRUE] ELSE refused
BY DEF ExecuteStatement, Step, reading

LEMMA ExecuteStatementStep ==
    ASSUME IInv, NEW i \in Instances, ExecuteStatement(i)
    PROVE  IInv' /\ Nearer(catalog, catalog', Target)
<1>. USE DEF IInv, Consistent
<1>. DEFINE s == Head(todo[i])
<1>1. /\ catalog' = Step(s, catalog, strict)
      /\ todo[i] # <<>> /\ pc[i] = "applying"
      /\ todo' = [todo EXCEPT ![i] = Tail(@)]
      /\ UNCHANGED <<strict, code, wanted, pc, seen, unread, faults>>
      /\ refused' = IF Refused(s, catalog, strict)
                    THEN [refused EXCEPT ![i] = TRUE] ELSE refused
  BY ExecuteIsStep
<1>2. Relational(Target)
  BY CatalogSound DEF Target
<1>3. Ready(todo[i], catalog, Target)
  OBVIOUS
<1>4. Fits(s, Target)
      /\ (DefinesColumn(s) => s.on \in DOMAIN catalog.tables)
  <2>1. Fits(s, Target)
    BY <1>1, <1>3, HeadIsFirst
  <2>2. DefinesColumn(s) => s.on \in DOMAIN catalog.tables
    BY <1>1, <1>3, HeadIsFirst
  <2>. QED
    BY <2>1, <2>2
<1>. HIDE DEF s
<1>5. /\ Sound(catalog', Target)
      /\ Nearer(catalog, catalog', Target)
      /\ DOMAIN catalog.tables \cap DOMAIN Target.tables
            \subseteq DOMAIN catalog'.tables
      /\ \A t : DefinesTable(s, t) => t \in DOMAIN catalog'.tables
  BY <1>1, <1>2, <1>4, StepNearer
<1>6. \A j \in Instances :
        todo'[j] = IF j = i THEN Tail(todo[i]) ELSE todo[j]
  BY <1>1 DEF Typed
<1>7. ASSUME NEW j \in Instances
      PROVE  Ready(todo'[j], catalog', Target)
  <2>1. CASE j = i
    <3>1. Ready(Tail(todo[i]), catalog', Target)
      BY <1>1, <1>3, <1>5, ReadyTail DEF s
    <3>. QED
      BY <1>6, <2>1, <3>1
  <2>2. CASE j # i
    <3>1. Ready(todo[j], catalog, Target)
      OBVIOUS
    <3>. QED
      BY <1>5, <1>6, <2>2, <3>1, ReadyKept
  <2>. QED
    BY <2>1, <2>2
<1>8. DOMAIN AllTables(code) = DOMAIN Target.tables
  BY DEF Target, CatalogOf
<1>9. ASSUME NEW j \in Instances
      PROVE  Sane(seen[j], catalog', code)
  <2>1. Sane(seen[j], catalog, code)
    OBVIOUS
  <2>. QED
    BY <1>5, <1>8, <2>1 DEF Sane
<1>10. Typed'
  <2>1. refused' \in [Instances -> BOOLEAN]
    BY <1>1 DEF Typed
  <2>2. todo' = [j \in Instances |-> todo'[j]]
    BY <1>1 DEF Typed
  <2>3. \A j \in Instances : pc[j] # "applying" => todo'[j] = <<>>
    BY <1>1, <1>6 DEF Typed
  <2>. QED
    BY <1>1, <2>1, <2>2, <2>3 DEF Typed
<1>11. Target' = Target
  BY <1>1 DEF Target
<1>. QED
  BY <1>1, <1>5, <1>7, <1>9, <1>10, <1>11

LEMMA StepConsistent ==
    ASSUME IInv, [Next]_vars
    PROVE  IInv' /\ Nearer(catalog, catalog', Target) /\ UNCHANGED <<wanted, code>>
<1>1. ASSUME NEW i \in Instances, FetchDbInfo(i)
      PROVE  IInv' /\ UNCHANGED <<catalog, wanted, code>>
  BY <1>1, FetchDbInfoStep DEF FetchDbInfo, server
<1>2. ASSUME NEW i \in Instances, NEW t \in unread[i], FetchTableInfo(i, t)
      PROVE  IInv' /\ UNCHANGED <<catalog, wanted, code>>
  BY <1>2, FetchTableInfoStep DEF FetchTableInfo, server
<1>3. ASSUME NEW i \in Instances, Generate(i)
      PROVE  IInv' /\ UNCHANGED <<catalog, wanted, code>>
  BY <1>3, GenerateStep DEF Generate, server
<1>4. ASSUME NEW i \in Instances, ExecuteStatement(i)
      PROVE  IInv' /\ Nearer(catalog, catalog', Target)
             /\ UNCHANGED <<wanted, code>>
  BY <1>4, ExecuteStatementStep DEF ExecuteStatement
<1>5. ASSUME NEW i \in Instances, QueryReply(i)
      PROVE  IInv' /\ UNCHANGED <<catalog, wanted, code>>
  BY <1>5, QueryReplyStep DEF QueryReply, server
<1>6. ASSUME NEW i \in Instances, Crash(i)
      PROVE  IInv' /\ UNCHANGED <<catalog, wanted, code>>
  BY <1>6, CrashStep DEF Crash, server
<1>7. ASSUME UNCHANGED vars
      PROVE  IInv'
  <2>1. UNCHANGED <<catalog, strict, code, wanted, pc, seen, unread, todo,
                    refused, faults>>
    BY <1>7 DEF vars, server, reading, script
  <2>2. Typed'
    BY <2>1 DEF IInv, Typed
  <2>3. Target' = Target
    BY <2>1 DEF Target
  <2>4. Consistent'
    BY <2>1, <2>3 DEF IInv, Consistent
  <2>. QED
    BY <2>2, <2>4 DEF IInv
<1>8. UNCHANGED vars => UNCHANGED <<catalog, wanted, code>>
  BY DEF vars, server
<1>9. UNCHANGED catalog => Nearer(catalog, catalog', Target)
  BY NearerSelf
<1>. QED
  BY <1>1, <1>2, <1>3, <1>4, <1>5, <1>6, <1>7, <1>8, <1>9 DEF Next, Progress

THEOREM AlwaysConsistent == Spec => []IInv
<1>1. Init => IInv
  BY InitConsistent
<1>2. IInv /\ [Next]_vars => IInv'
  BY StepConsistent
<1>. QED
  BY <1>1, <1>2, PTL DEF Spec

(* The variables have their types, whatever the schemas are.               *)
THEOREM TypeCorrect == Spec => []TypeOK
<1>1. IInv => TypeOK
  BY DEF IInv, Typed, Consistent, Sound, Shaped, TableParts, ColumnKinds, TypeOK
<1>. QED
  BY <1>1, AlwaysConsistent, PTL

(* No step takes the database further from what the code declares.         *)
THEOREM NeverStepsBackHolds == Spec => NeverStepsBack
<1>1. IInv /\ [Next]_vars => (Extra' \subseteq Extra /\ Missing' \subseteq Missing)
  <2>. SUFFICES ASSUME IInv, [Next]_vars
                PROVE  Extra' \subseteq Extra /\ Missing' \subseteq Missing
    OBVIOUS
  <2>1. Nearer(catalog, catalog', Target) /\ UNCHANGED wanted
    BY StepConsistent
  <2>2. wanted = Elements(Target)
    BY DEF IInv, Consistent
  <2>3. /\ Elements(catalog') \ Elements(Target)
                \subseteq Elements(catalog) \ Elements(Target)
        /\ Elements(Target) \ Elements(catalog')
                \subseteq Elements(Target) \ Elements(catalog)
    BY <2>1, NearerElements
  <2>4. /\ Extra' = Elements(catalog') \ wanted'
        /\ Missing' = wanted' \ Elements(catalog')
        /\ Extra = Elements(catalog) \ wanted
        /\ Missing = wanted \ Elements(catalog)
    BY DEF Extra, Missing, Elements, TableElements, BucketElements, SortOf
  <2>. QED
    BY <2>1, <2>2, <2>3, <2>4
<1>2. IInv /\ [Next]_vars
        => [Extra' \subseteq Extra /\ Missing' \subseteq Missing]_vars
  BY <1>1
<1>. QED
  BY <1>2, AlwaysConsistent, PTL DEF Spec, NeverStepsBack


---------------------------------------------------------------------------
(* Types that are read back as they were written.                          *)
KnownType(f) ==
    /\ f.type \in KnownWords
    /\ f.type = "array" => f.of \in KnownWords \cup {None}

ReadsBack(y) == FieldTypeToSql(ParseFieldType(y)) = y

Legible(c) == \A t, n, y : HasField(c, t, n, y) => ReadsBack(y)

LEMMA KnownReadsBack ==
    ASSUME NEW f, KnownType(f)
    PROVE  ReadsBack(FieldTypeToSql(f))
<1>. DEFINE y == FieldTypeToSql(f)
            g == ParseFieldType(y)
            of == IF f.type \in {"record", "array"} THEN f.of ELSE None
<1>1. y.word = f.type /\ y.of = of /\ y.optional = f.optional
      /\ y = [word |-> y.word, of |-> y.of, optional |-> y.optional]
  BY DEF FieldTypeToSql
<1>. HIDE DEF y
<1>2. /\ g.type = FieldTypeFromWord(y.word) /\ g.optional = y.optional
      /\ g.of = IF y.word = "array" /\ y.of # None
                THEN FieldTypeFromWord(y.of) ELSE y.of
  BY DEF ParseFieldType
<1>. HIDE DEF g
<1>3. g.type = f.type
  BY <1>1, <1>2 DEF FieldTypeFromWord, KnownType
<1>4. g.of = of
  BY <1>1, <1>2 DEF FieldTypeFromWord, KnownType
<1>5. (IF g.type \in {"record", "array"} THEN g.of ELSE None) = of
  BY <1>3, <1>4
<1>6. FieldTypeToSql(g) = [word |-> y.word, of |-> y.of, optional |-> y.optional]
  BY <1>1, <1>2, <1>3, <1>5 DEF FieldTypeToSql
<1>. QED
  BY <1>1, <1>6 DEF ReadsBack, g, y

LEMMA EndpointReadsBack == ReadsBack(EndpointField.type)
<1>1. EndpointField.type = FieldTypeToSql([type |-> "record", of |-> None,
                                           optional |-> FALSE])
  BY DEF EndpointField, FieldTypeToSql
<1>2. KnownType([type |-> "record", of |-> None, optional |-> FALSE])
  BY DEF KnownType, KnownWords
<1>. QED
  BY <1>1, <1>2, KnownReadsBack

LEMMA ReadableLegible ==
    ASSUME NEW s, Declarable(s), Readable(s)
    PROVE  Legible(CatalogOf(s))
<1>. DEFINE w == CatalogOf(s)
<1>. SUFFICES ASSUME NEW t \in DOMAIN w.tables,
                     NEW n \in DOMAIN w.tables[t].fields
              PROVE  ReadsBack(w.tables[t].fields[n].type)
  BY DEF Legible, HasField
<1>. DEFINE table == AllTables(s)[t]
            u == w.tables[t]
<1>0. t \in DOMAIN AllTables(s)
  BY DEF CatalogOf
<1>. HIDE DEF table, w, u
<1>1. /\ DOMAIN u.fields = DOMAIN Endpoints(table.mode) \cup DOMAIN table.fields
      /\ \A m \in DOMAIN Endpoints(table.mode) : u.fields[m] = EndpointField
      /\ \A m \in DOMAIN table.fields : u.fields[m] = ColumnOf(table.fields[m])
  BY ONLY Declarable(s), <1>0, CatalogTables DEF table, u, w
<1>2. n \in DOMAIN u.fields
  BY DEF u
<1>3. CASE n \in DOMAIN Endpoints(table.mode)
  BY <1>1, <1>3, EndpointReadsBack DEF u
<1>4. CASE n \in DOMAIN table.fields
  <2>1. table \in Range(s.tables) \cup Range(s.edges)
    <3>1. (t \in DOMAIN s.tables /\ table = s.tables[t])
            \/ (t \in DOMAIN s.edges /\ table = s.edges[t])
      BY <1>0, DeclarableTables DEF table
    <3>. QED
      BY <3>1 DEF Range
  <2>2. KnownType(table.fields[n])
    BY <1>4, <2>1 DEF Readable, Range, KnownType
  <2>3. u.fields[n] = ColumnOf(table.fields[n])
    BY <1>1, <1>4
  <2>4. u.fields[n].type = FieldTypeToSql(table.fields[n])
    BY <2>3 DEF ColumnOf
  <2>. QED
    BY <2>2, <2>4, KnownReadsBack DEF u
<1>. QED
  BY <1>1, <1>2, <1>3, <1>4

LEMMA LegibleKept ==
    ASSUME NEW c, NEW d, NEW w, Legible(c), Legible(w), Nearer(c, d, w)
    PROVE  Legible(d)
BY DEF Legible, Nearer

LEMMA ParsedType ==
    ASSUME NEW f, ReadsBack(f.type)
    PROVE  FieldTypeToSql(ParseField(f)) = f.type
<1>1. FieldTypeToSql(ParseField(f)) = FieldTypeToSql(ParseFieldType(f.type))
  BY DEF ParseField, FieldTypeToSql
<1>. QED
  BY <1>1 DEF ReadsBack

---------------------------------------------------------------------------
(* Where the database differs from what the code declares, what an         *)
(* instance has read, or has yet to read, shows it.                        *)
Names(v) == DOMAIN v.tables \cup DOMAIN v.edges

Renders(v, t, n, y) ==
    /\ n \in DOMAIN AllTables(v)[t].fields
    /\ FieldTypeToSql(AllTables(v)[t].fields[n]) = y

ShowsExtra(v, u, c, w) ==
    /\ \A t \in DOMAIN c.tables : t \in DOMAIN w.tables \/ t \in Names(v)
    /\ \A t \in DOMAIN w.tables : \A n, y :
        HasField(c, t, n, y) /\ ~HasField(w, t, n, y) =>
            t \in Names(v) /\ (t \in u \/ Renders(v, t, n, y))
    /\ \A t \in DOMAIN w.tables : \A n :
        HasIndex(c, t, n) /\ ~HasIndex(w, t, n) =>
            t \in Names(v) /\ (t \in u \/ n \in DOMAIN AllTables(v)[t].indexes)
    /\ \A t \in DOMAIN w.tables : \A n :
        HasEvent(c, t, n) /\ ~HasEvent(w, t, n) =>
            t \in Names(v) /\ (t \in u \/ n \in DOMAIN AllTables(v)[t].events)
    /\ \A b, a, x : HasAttribute(c, b, a, x) /\ ~HasAttribute(w, b, a, x) =>
            b \in DOMAIN v.buckets /\ v.buckets[b][a] = x

ShowsMissing(v, u, c, w) ==
    /\ \A t \in DOMAIN w.tables : t \in DOMAIN c.tables \/ t \notin Names(v)
    /\ \A t, n, y :
        HasField(w, t, n, y) /\ ~HasField(c, t, n, y) =>
            t \notin Names(v) \/ t \in u \/ ~Renders(v, t, n, y)
    /\ \A t, n :
        HasIndex(w, t, n) /\ ~HasIndex(c, t, n) =>
            t \notin Names(v) \/ t \in u \/ n \notin DOMAIN AllTables(v)[t].indexes
    /\ \A b, a, x : HasAttribute(w, b, a, x) /\ ~HasAttribute(c, b, a, x) =>
            b \notin DOMAIN v.buckets \/ v.buckets[b][a] # x

Shows(v, u, c, w) == ShowsExtra(v, u, c, w) /\ ShowsMissing(v, u, c, w)

LEMMA ShowsNearer ==
    ASSUME NEW v, NEW u, NEW c, NEW d, NEW w, Shows(v, u, c, w), Alike(c, w),
           Nearer(c, d, w)
    PROVE  Shows(v, u, d, w)
<1>1. ASSUME NEW t \in DOMAIN d.tables, t \notin DOMAIN w.tables
      PROVE  t \in DOMAIN c.tables
  <2>1. HasTable(d, SortOf(d.tables[t]), t) /\ ~HasTable(w, SortOf(d.tables[t]), t)
    BY <1>1 DEF HasTable
  <2>. QED
    BY <2>1 DEF Nearer, HasTable
<1>2. ShowsExtra(v, u, d, w)
  BY <1>1 DEF Shows, ShowsExtra, Nearer
<1>3. DOMAIN c.tables \cap DOMAIN w.tables \subseteq DOMAIN d.tables
  BY NearerAlike
<1>4. ShowsMissing(v, u, d, w)
  BY <1>3 DEF Shows, ShowsMissing, Nearer
<1>. QED
  BY <1>2, <1>4 DEF Shows

LEMMA ParsedBuckets ==
    ASSUME NEW c, Shaped(c), NEW b \in DOMAIN c.buckets, NEW a \in Attributes
    PROVE  ParseDbInfo(c).buckets[b][a] = c.buckets[b][a]
<1>1. ParseDbInfo(c).buckets[b] = ParseBucket(c.buckets[b])
  BY DEF ParseDbInfo
<1>2. a \in DOMAIN c.buckets[b] /\ a # "rule"
  BY DEF Shaped, Attributes
<1>. QED
  BY <1>1, <1>2 DEF ParseBucket

LEMMA DbInfoShows ==
    ASSUME NEW s, Declarable(s), NEW c, Sound(c, CatalogOf(s))
    PROVE  Shows(ParseDbInfo(c), DOMAIN c.tables, c, CatalogOf(s))
<1>. DEFINE v == ParseDbInfo(c)
            w == CatalogOf(s)
<1>1. Names(v) = DOMAIN c.tables
  BY DbInfoSane DEF Names
<1>2. /\ DOMAIN v.buckets = DOMAIN c.buckets
      /\ \A b \in DOMAIN c.buckets : \A a \in Attributes :
            v.buckets[b][a] = c.buckets[b][a]
  BY ParsedBuckets DEF ParseDbInfo, Sound
<1>. HIDE DEF v, w
<1>3. ShowsExtra(v, DOMAIN c.tables, c, w)
  BY <1>1, <1>2 DEF ShowsExtra, HasField, HasIndex, HasEvent, HasAttribute
<1>4. ShowsMissing(v, DOMAIN c.tables, c, w)
  BY <1>1, <1>2 DEF ShowsMissing, HasAttribute
<1>. QED
  BY <1>3, <1>4 DEF Shows, v, w

(* Reading one more table.                                                 *)
LEMMA ReadTable ==
    ASSUME NEW s, Declarable(s), NEW c, NEW v, Sane(v, c, s),
           NEW t \in DOMAIN CatalogOf(s).tables, t \in Names(v)
    PROVE  \/ /\ t \in DOMAIN s.tables /\ t \in DOMAIN v.tables
              /\ t \notin DOMAIN v.edges /\ t \notin DOMAIN s.edges
              /\ AllTables(v)[t] = v.tables[t]
              /\ AllTables(s)[t] = s.tables[t]
           \/ /\ t \in DOMAIN s.edges /\ t \in DOMAIN v.edges
              /\ t \notin DOMAIN v.tables /\ t \notin DOMAIN s.tables
              /\ AllTables(v)[t] = v.edges[t]
              /\ AllTables(s)[t] = s.edges[t]
<1>1. DOMAIN CatalogOf(s).tables = DOMAIN s.tables \cup DOMAIN s.edges
  BY DeclaredTables
<1>2. CASE t \in DOMAIN s.tables
  <2>1. t \in DOMAIN v.tables /\ t \notin DOMAIN v.edges
    BY <1>2 DEF Sane, Names
  <2>2. AllTables(v)[t] = v.tables[t]
    BY <2>1 DEF AllTables, Over
  <2>. QED
    BY <1>2, <2>1, <2>2, DeclarableTables
<1>3. CASE t \in DOMAIN s.edges
  <2>1. t \in DOMAIN v.edges /\ t \notin DOMAIN v.tables
    BY <1>3 DEF Sane, Names
  <2>2. AllTables(v)[t] = v.edges[t]
    BY <2>1 DEF AllTables, Over
  <2>. QED
    BY <1>3, <2>1, <2>2, DeclarableTables
<1>. QED
  BY <1>1, <1>2, <1>3

(* Both ends of a declared relation are there once the relation is.        *)
LEMMA EndsAlike ==
    ASSUME NEW c, NEW w, Sound(c, w), Relational(w),
           NEW t \in DOMAIN c.tables \cap DOMAIN w.tables,
           NEW n \in DOMAIN Endpoints(c.tables[t].mode), NEW y
    PROVE  HasField(c, t, n, y) <=> HasField(w, t, n, y)
<1>1. c.tables[t].mode = "RELATION" /\ n \in Ends
  BY EndpointsAt
<1>2. w.tables[t].mode = "RELATION"
  BY <1>1 DEF Sound, Alike, SortOf
<1>3. HasField(c, t, n, EndpointField.type) /\ HasField(w, t, n, EndpointField.type)
  BY <1>1, <1>2 DEF Sound, Relational
<1>. QED
  BY <1>3 DEF HasField

LEMMA TableInfoShows ==
    ASSUME NEW s, Declarable(s), NEW c, Sound(c, CatalogOf(s)), Legible(c),
           NEW v, Sane(v, c, s), NEW t \in Names(v), t \in DOMAIN c.tables,
           NEW u, Shows(v, u, c, CatalogOf(s)),
           NEW z, z = WithInfo(v, t, ParseTableInfo(c.tables[t]))
    PROVE  Shows(z, u \ {t}, c, CatalogOf(s))
<1>. DEFINE w == CatalogOf(s)
            table == c.tables[t]
            info == ParseTableInfo(table)
<1>1. /\ Names(z) = Names(v)
      /\ z.buckets = v.buckets
      /\ \A x \in DOMAIN v.edges :
            z.edges[x] = IF x = t THEN info ELSE v.edges[x]
      /\ \A x \in DOMAIN v.tables :
            z.tables[x] = IF x = t /\ t \notin DOMAIN v.edges THEN info
                          ELSE v.tables[x]
  BY WithInfoValue DEF Sane, Names
<1>2. Sane(z, c, s)
  BY TableInfoSane DEF Names
<1>3. ASSUME NEW x \in DOMAIN w.tables, x \in Names(v)
      PROVE  AllTables(z)[x] = IF x = t THEN info ELSE AllTables(v)[x]
  <2>1. \/ /\ x \in DOMAIN v.tables /\ x \notin DOMAIN v.edges
           /\ AllTables(v)[x] = v.tables[x] /\ x \in DOMAIN s.tables
        \/ /\ x \in DOMAIN v.edges /\ AllTables(v)[x] = v.edges[x]
           /\ x \in DOMAIN s.edges
    BY <1>3, ReadTable
  <2>2. \/ AllTables(z)[x] = z.tables[x] /\ x \in DOMAIN s.tables
        \/ AllTables(z)[x] = z.edges[x] /\ x \in DOMAIN s.edges
    BY <1>1, <1>2, <1>3, ReadTable
  <2>3. x \in DOMAIN s.tables => x \notin DOMAIN s.edges
    BY DeclarableTables
  <2>. QED
    BY <1>1, <2>1, <2>2, <2>3
<1>4. /\ DOMAIN info.fields = DOMAIN table.fields \ DOMAIN Endpoints(table.mode)
      /\ \A n \in DOMAIN info.fields : info.fields[n] = ParseField(table.fields[n])
      /\ info.indexes = table.indexes /\ info.events = table.events
  BY TableInfoValue
<1>5. Relational(w)
  BY CatalogSound
<1>. HIDE DEF w, info
<1>6. ASSUME NEW n, NEW y, t \in DOMAIN w.tables
      PROVE  /\ HasField(c, t, n, y) /\ ~HasField(w, t, n, y)
                    => Renders(z, t, n, y)
             /\ HasField(w, t, n, y) /\ ~HasField(c, t, n, y)
                    => ~Renders(z, t, n, y)
  <2>1. AllTables(z)[t] = info
    BY <1>3, <1>6
  <2>2. n \in DOMAIN Endpoints(table.mode) =>
            (HasField(c, t, n, y) <=> HasField(w, t, n, y))
    BY <1>5, <1>6, EndsAlike DEF w
  <2>3. ASSUME n \in DOMAIN info.fields
        PROVE  FieldTypeToSql(info.fields[n]) = table.fields[n].type
    <3>1. n \in DOMAIN table.fields
      BY <1>4, <2>3
    <3>2. HasField(c, t, n, table.fields[n].type)
      BY <3>1 DEF HasField
    <3>3. ReadsBack(table.fields[n].type)
      BY <3>2 DEF Legible
    <3>. QED
      BY <1>4, <2>3, <3>3, ParsedType
  <2>4. Renders(z, t, n, y) <=> n \in DOMAIN info.fields /\ table.fields[n].type = y
    BY <2>1, <2>3 DEF Renders
  <2>5. HasField(c, t, n, y) <=> n \in DOMAIN table.fields /\ table.fields[n].type = y
    BY DEF HasField
  <2>. QED
    BY <1>4, <2>2, <2>4, <2>5
<1>7. /\ \A n : HasIndex(c, t, n) <=> n \in DOMAIN info.indexes
      /\ \A n : HasEvent(c, t, n) <=> n \in DOMAIN info.events
  BY <1>4 DEF HasIndex, HasEvent
<1>. HIDE DEF table
<1>8. ASSUME NEW x \in DOMAIN w.tables, x \in Names(v), x # t
      PROVE  /\ \A n, y : Renders(z, x, n, y) <=> Renders(v, x, n, y)
             /\ AllTables(z)[x] = AllTables(v)[x]
  BY <1>3, <1>8 DEF Renders
<1>9. ShowsExtra(v, u, c, w) /\ ShowsMissing(v, u, c, w)
  BY DEF Shows, w
<1>10. ShowsExtra(z, u \ {t}, c, w)
  <2>1. \A x \in DOMAIN c.tables : x \in DOMAIN w.tables \/ x \in Names(z)
    BY <1>1, <1>9 DEF ShowsExtra
  <2>2. ASSUME NEW x \in DOMAIN w.tables, NEW n, NEW y,
               HasField(c, x, n, y), ~HasField(w, x, n, y)
        PROVE  x \in Names(z) /\ (x \in u \ {t} \/ Renders(z, x, n, y))
    <3>1. x \in Names(v) /\ (x \in u \/ Renders(v, x, n, y))
      BY <1>9, <2>2 DEF ShowsExtra
    <3>2. CASE x = t
      BY <1>1, <1>6, <2>2, <3>1, <3>2
    <3>3. CASE x # t
      BY <1>1, <1>8, <3>1, <3>3
    <3>. QED
      BY <3>2, <3>3
  <2>3. ASSUME NEW x \in DOMAIN w.tables, NEW n,
               HasIndex(c, x, n), ~HasIndex(w, x, n)
        PROVE  x \in Names(z)
               /\ (x \in u \ {t} \/ n \in DOMAIN AllTables(z)[x].indexes)
    <3>1. x \in Names(v) /\ (x \in u \/ n \in DOMAIN AllTables(v)[x].indexes)
      BY <1>9, <2>3 DEF ShowsExtra
    <3>. QED
      BY <1>1, <1>3, <1>7, <1>8, <2>3, <3>1
  <2>4. ASSUME NEW x \in DOMAIN w.tables, NEW n,
               HasEvent(c, x, n), ~HasEvent(w, x, n)
        PROVE  x \in Names(z)
               /\ (x \in u \ {t} \/ n \in DOMAIN AllTables(z)[x].events)
    <3>1. x \in Names(v) /\ (x \in u \/ n \in DOMAIN AllTables(v)[x].events)
      BY <1>9, <2>4 DEF ShowsExtra
    <3>. QED
      BY <1>1, <1>3, <1>7, <1>8, <2>4, <3>1
  <2>. QED
    BY <1>1, <1>9, <2>1, <2>2, <2>3, <2>4 DEF ShowsExtra
<1>11. ShowsMissing(z, u \ {t}, c, w)
  <2>1. ASSUME NEW x, NEW n, NEW y, HasField(w, x, n, y), ~HasField(c, x, n, y),
               x \in Names(z), x \notin u \ {t}
        PROVE  ~Renders(z, x, n, y)
    <3>1. x \in DOMAIN w.tables /\ x \in Names(v)
      BY <1>1, <2>1 DEF HasField
    <3>2. x \notin u => ~Renders(v, x, n, y)
      BY <1>9, <2>1, <3>1 DEF ShowsMissing
    <3>. QED
      BY <1>6, <1>8, <2>1, <3>1, <3>2
  <2>2. ASSUME NEW x, NEW n, HasIndex(w, x, n), ~HasIndex(c, x, n),
               x \in Names(z), x \notin u \ {t}
        PROVE  n \notin DOMAIN AllTables(z)[x].indexes
    <3>1. x \in DOMAIN w.tables /\ x \in Names(v)
      BY <1>1, <2>2 DEF HasIndex
    <3>2. x \notin u => n \notin DOMAIN AllTables(v)[x].indexes
      BY <1>9, <2>2, <3>1 DEF ShowsMissing
    <3>. QED
      BY <1>3, <1>7, <1>8, <2>2, <3>1, <3>2
  <2>. QED
    BY <1>1, <1>9, <2>1, <2>2 DEF ShowsMissing
<1>. QED
  BY <1>10, <1>11 DEF Shows, w

---------------------------------------------------------------------------
(* What is shown finds its statement in the script.                        *)
LEMMA StatementOf ==
    ASSUME NEW s, Declarable(s), NEW c, NEW v, Sane(v, c, s),
           NEW d \in SchemaDiffs(v, s), NEW x, x \in Range(d.sql)
    PROVE  x \in Range(UpSql(DiffSchemas(v, s)))
BY DiffsReady

LEMMA DiffsOfTables ==
    ASSUME NEW s, Declarable(s), NEW c, NEW v, Sane(v, c, s), NEW t
    PROVE  /\ t \in Names(v) /\ t \notin DOMAIN CatalogOf(s).tables =>
                DropTable(t) \in SchemaDiffs(v, s)
           /\ t \notin Names(v) /\ t \in DOMAIN CatalogOf(s).tables =>
                AddTable(t, AllTables(s)[t]) \in SchemaDiffs(v, s)
           /\ t \in Names(v) /\ t \in DOMAIN CatalogOf(s).tables =>
                ColumnDiffs(t, AllTables(v)[t], AllTables(s)[t])
                    \subseteq SchemaDiffs(v, s)
<1>1. DOMAIN CatalogOf(s).tables = DOMAIN s.tables \cup DOMAIN s.edges
  BY DeclaredTables
<1>2. ASSUME t \in Names(v), t \notin DOMAIN CatalogOf(s).tables
      PROVE  DropTable(t) \in SchemaDiffs(v, s)
  <2>1. t \in Dropped(v.tables, s.tables) \/ t \in Dropped(v.edges, s.edges)
    BY <1>1, <1>2 DEF Names, Dropped
  <2>. QED
    BY <2>1 DEF SchemaDiffs, EdgeDiffs, TableDiffs
<1>3. ASSUME t \notin Names(v), t \in DOMAIN CatalogOf(s).tables
      PROVE  AddTable(t, AllTables(s)[t]) \in SchemaDiffs(v, s)
  <2>1. \/ t \in Added(v.tables, s.tables) /\ AllTables(s)[t] = s.tables[t]
        \/ t \in Added(v.edges, s.edges) /\ AllTables(s)[t] = s.edges[t]
    BY <1>1, <1>3, DeclarableTables DEF Names, Added
  <2>. QED
    BY <2>1 DEF SchemaDiffs, EdgeDiffs, TableDiffs
<1>4. ASSUME t \in Names(v), t \in DOMAIN CatalogOf(s).tables
      PROVE  ColumnDiffs(t, AllTables(v)[t], AllTables(s)[t])
                \subseteq SchemaDiffs(v, s)
  <2>1. \/ /\ t \in Kept(v.tables, s.tables)
           /\ AllTables(v)[t] = v.tables[t] /\ AllTables(s)[t] = s.tables[t]
        \/ /\ t \in Kept(v.edges, s.edges)
           /\ AllTables(v)[t] = v.edges[t] /\ AllTables(s)[t] = s.edges[t]
    BY <1>4, ReadTable DEF Kept
  <2>2. \/ ColumnDiffs(t, AllTables(v)[t], AllTables(s)[t])
                \subseteq KeptDiffs(v.tables, s.tables)
        \/ ColumnDiffs(t, AllTables(v)[t], AllTables(s)[t])
                \subseteq KeptDiffs(v.edges, s.edges)
    BY <2>1 DEF KeptDiffs
  <2>. QED
    BY <2>2 DEF SchemaDiffs, EdgeDiffs, TableDiffs
<1>. QED
  BY <1>2, <1>3, <1>4

LEMMA DropIsPlain ==
    ASSUME NEW k, NEW t, NEW n, NEW x, x = Drop(k, t, n)
    PROVE  /\ x.verb = "REMOVE" /\ x.kind = k /\ x.on = t /\ x.name = n
           /\ ~x.ifExists
BY DEF Drop, Statement

LEMMA DefineIsPlain ==
    ASSUME NEW k, NEW t, NEW n, NEW f, NEW x, x = Define(k, t, n, f)
    PROVE  /\ x.verb = "DEFINE" /\ x.kind = k /\ x.on = t /\ x.name = n
           /\ x.def = f /\ ~x.ifExists
BY DEF Define, Statement

LEMMA AlterIsPlain ==
    ASSUME NEW b, NEW current, NEW target, NEW x,
           x = AlterBucket(b, current, target)
    PROVE  /\ x.verb = "ALTER" /\ x.kind = "buckets" /\ x.name = b
           /\ ~x.ifExists
           /\ \A a \in DOMAIN target :
                a \in AlteredAttributes(current, target) =>
                    a \in DOMAIN x.def /\ x.def[a] = target[a]
BY DEF AlterBucket, Alter, Statement, Restrict

(* x is one of the statements of a difference.                             *)
Says(v, s, x) ==
    /\ ~x.ifExists
    /\ x \in Range(UpSql(DiffSchemas(v, s)))

LEMMA SaysOne ==
    ASSUME NEW s, Declarable(s), NEW c, NEW v, Sane(v, c, s), NEW x,
           ~x.ifExists, NEW d \in SchemaDiffs(v, s), d.sql = <<x>>
    PROVE  Says(v, s, x)
<1>1. Range(<<x>>) = {x}
  BY SingleScript
<1>. QED
  BY <1>1, StatementOf DEF Says

LEMMA TableSays ==
    ASSUME NEW s, Declarable(s), NEW c, NEW v, Sane(v, c, s), NEW t
    PROVE  /\ t \in Names(v) /\ t \notin DOMAIN CatalogOf(s).tables =>
                Says(v, s, Drop("tables", t, t))
           /\ t \notin Names(v) /\ t \in DOMAIN CatalogOf(s).tables =>
                \A x \in TableStatements(t, AllTables(s)[t]) : Says(v, s, x)
<1>1. ASSUME t \in Names(v), t \notin DOMAIN CatalogOf(s).tables
      PROVE  Says(v, s, Drop("tables", t, t))
  <2>1. DropTable(t) \in SchemaDiffs(v, s)
    BY <1>1, DiffsOfTables
  <2>2. DropTable(t).sql = <<Drop("tables", t, t)>>
    BY DEF DropTable, Difference
  <2>. QED
    BY <2>1, <2>2, DropIsPlain, SaysOne
<1>2. ASSUME t \notin Names(v), t \in DOMAIN CatalogOf(s).tables,
             NEW x \in TableStatements(t, AllTables(s)[t])
      PROVE  Says(v, s, x)
  <2>. DEFINE d == AddTable(t, AllTables(s)[t])
  <2>1. d \in SchemaDiffs(v, s)
    BY <1>2, DiffsOfTables
  <2>2. d.sql = GenerateTableSql(t, AllTables(s)[t])
    BY DEF AddTable, Difference
  <2>3. Finite(AllTables(s)[t])
    BY <1>2, DeclarableTables DEF CatalogOf
  <2>4. x \in Range(d.sql)
    BY <1>2, <2>2, <2>3, TableScript
  <2>5. ~x.ifExists
    BY <1>2 DEF TableStatements, DefineItself, GenerateFieldSql, Define,
                Statement
  <2>. QED
    BY <2>1, <2>4, <2>5, StatementOf DEF Says
<1>. QED
  BY <1>1, <1>2

LEMMA ColumnSays ==
    ASSUME NEW s, Declarable(s), NEW c, NEW v, Sane(v, c, s),
           NEW t \in Names(v), t \in DOMAIN CatalogOf(s).tables,
           NEW current, NEW target,
           current = AllTables(v)[t], target = AllTables(s)[t], NEW n
    PROVE  /\ n \in Added(current.fields, target.fields)
                    \cup Retyped(current.fields, target.fields) =>
                Says(v, s, DefineType(t, n, target.fields[n]))
           /\ n \in Dropped(current.fields, target.fields) =>
                Says(v, s, Drop("fields", t, n))
           /\ n \in Added(current.indexes, target.indexes) =>
                Says(v, s, Define("indexes", t, n, target.indexes[n]))
           /\ n \in Dropped(current.indexes, target.indexes) =>
                Says(v, s, Drop("indexes", t, n))
           /\ n \in Dropped(current.events, target.events) =>
                Says(v, s, Drop("events", t, n))
<1>1. ColumnDiffs(t, current, target) \subseteq SchemaDiffs(v, s)
  BY DiffsOfTables
<1>2. \A d \in ColumnDiffs(t, current, target) : \A x :
        d.sql = <<x>> /\ ~x.ifExists => Says(v, s, x)
  BY <1>1, SaysOne
<1>3. ASSUME n \in Added(current.fields, target.fields)
      PROVE  Says(v, s, DefineType(t, n, target.fields[n]))
  <2>1. AddField(t, n, target.fields[n]) \in ColumnDiffs(t, current, target)
    BY <1>3 DEF ColumnDiffs, FieldDiffs
  <2>2. ~DefineType(t, n, target.fields[n]).ifExists
    BY DefineIsPlain DEF DefineType
  <2>. QED
    BY <1>2, <2>1, <2>2 DEF AddField, Difference
<1>4. ASSUME n \in Retyped(current.fields, target.fields)
      PROVE  Says(v, s, DefineType(t, n, target.fields[n]))
  <2>1. ModifyField(t, n, target.fields[n]) \in ColumnDiffs(t, current, target)
    BY <1>4 DEF ColumnDiffs, FieldDiffs
  <2>2. ~DefineType(t, n, target.fields[n]).ifExists
    BY DefineIsPlain DEF DefineType
  <2>. QED
    BY <1>2, <2>1, <2>2 DEF ModifyField, Difference
<1>5. ASSUME n \in Dropped(current.fields, target.fields)
      PROVE  Says(v, s, Drop("fields", t, n))
  <2>1. DropColumn("DROP_FIELD", "fields", t, n) \in ColumnDiffs(t, current, target)
    BY <1>5 DEF ColumnDiffs, FieldDiffs
  <2>. QED
    BY <1>2, <2>1, DropIsPlain DEF DropColumn, Difference
<1>6. ASSUME n \in Added(current.indexes, target.indexes)
      PROVE  Says(v, s, Define("indexes", t, n, target.indexes[n]))
  <2>1. AddIndex(t, n, target.indexes[n]) \in ColumnDiffs(t, current, target)
    BY <1>6 DEF ColumnDiffs, IndexDiffs
  <2>. QED
    BY <1>2, <2>1, DefineIsPlain DEF AddIndex, Difference
<1>7. ASSUME n \in Dropped(current.indexes, target.indexes)
      PROVE  Says(v, s, Drop("indexes", t, n))
  <2>1. DropColumn("DROP_INDEX", "indexes", t, n) \in ColumnDiffs(t, current, target)
    BY <1>7 DEF ColumnDiffs, IndexDiffs
  <2>. QED
    BY <1>2, <2>1, DropIsPlain DEF DropColumn, Difference
<1>8. ASSUME n \in Dropped(current.events, target.events)
      PROVE  Says(v, s, Drop("events", t, n))
  <2>1. DropColumn("DROP_EVENT", "events", t, n) \in ColumnDiffs(t, current, target)
    BY <1>8 DEF ColumnDiffs, EventDiffs
  <2>. QED
    BY <1>2, <2>1, DropIsPlain DEF DropColumn, Difference
<1>. QED
  BY <1>3, <1>4, <1>5, <1>6, <1>7, <1>8

LEMMA BucketSays ==
    ASSUME NEW s, Declarable(s), NEW c, NEW v, Sane(v, c, s), NEW b
    PROVE  /\ b \in DOMAIN v.buckets \ DOMAIN s.buckets =>
                Says(v, s, Drop("buckets", b, b))
           /\ b \in DOMAIN s.buckets \ DOMAIN v.buckets =>
                Says(v, s, Define("buckets", b, b, s.buckets[b]))
           /\ b \in Changed(v.buckets, s.buckets) =>
                Says(v, s, AlterBucket(b, v.buckets[b], s.buckets[b]))
<1>1. ASSUME b \in DOMAIN v.buckets \ DOMAIN s.buckets
      PROVE  Says(v, s, Drop("buckets", b, b))
  <2>1. DropBucket(b) \in SchemaDiffs(v, s)
    BY <1>1 DEF SchemaDiffs, BucketDiffs, Dropped
  <2>2. DropBucket(b).sql = <<Drop("buckets", b, b)>>
    BY DEF DropBucket, Difference
  <2>. QED
    BY <2>1, <2>2, DropIsPlain, SaysOne
<1>2. ASSUME b \in DOMAIN s.buckets \ DOMAIN v.buckets
      PROVE  Says(v, s, Define("buckets", b, b, s.buckets[b]))
  <2>1. AddBucket(b, s.buckets[b]) \in SchemaDiffs(v, s)
    BY <1>2 DEF SchemaDiffs, BucketDiffs, Added
  <2>2. AddBucket(b, s.buckets[b]).sql = <<Define("buckets", b, b, s.buckets[b])>>
    BY DEF AddBucket, Difference, GenerateBucketSql
  <2>. QED
    BY <2>1, <2>2, DefineIsPlain, SaysOne
<1>3. ASSUME b \in Changed(v.buckets, s.buckets)
      PROVE  Says(v, s, AlterBucket(b, v.buckets[b], s.buckets[b]))
  <2>1. ModifyBucket(b, v.buckets[b], s.buckets[b]) \in SchemaDiffs(v, s)
    BY <1>3 DEF SchemaDiffs, BucketDiffs
  <2>2. ModifyBucket(b, v.buckets[b], s.buckets[b]).sql
            = <<AlterBucket(b, v.buckets[b], s.buckets[b])>>
    BY DEF ModifyBucket, Difference
  <2>. QED
    BY <2>1, <2>2, AlterIsPlain, SaysOne
<1>. QED
  BY <1>1, <1>2, <1>3

LEMMA DeclaredColumns ==
    ASSUME NEW s, Declarable(s), NEW t \in DOMAIN CatalogOf(s).tables,
           NEW target, target = AllTables(s)[t]
    PROVE  /\ \A n \in DOMAIN target.fields :
                HasField(CatalogOf(s), t, n, FieldTypeToSql(target.fields[n]))
           /\ \A n, y : HasField(CatalogOf(s), t, n, y) =>
                \/ n \in DOMAIN Endpoints(target.mode)
                \/ /\ n \in DOMAIN target.fields
                   /\ FieldTypeToSql(target.fields[n]) = y
           /\ \A n : HasIndex(CatalogOf(s), t, n) <=> n \in DOMAIN target.indexes
           /\ \A n : HasEvent(CatalogOf(s), t, n) <=> n \in DOMAIN target.events
           /\ CatalogOf(s).tables[t].mode = target.mode
<1>. DEFINE w == CatalogOf(s)
            u == w.tables[t]
            table == AllTables(s)[t]
<1>0. t \in DOMAIN AllTables(s)
  BY DEF CatalogOf
<1>1. t \in DOMAIN w.tables /\ target = table
  OBVIOUS
<1>. HIDE DEF w, u, table
<1>2. /\ u.indexes = target.indexes /\ u.events = target.events
      /\ u.mode = target.mode
      /\ DOMAIN u.fields = DOMAIN Endpoints(target.mode) \cup DOMAIN target.fields
      /\ \A n \in DOMAIN target.fields : u.fields[n] = ColumnOf(target.fields[n])
  <2>1. /\ u.indexes = table.indexes /\ u.events = table.events
        /\ u.mode = table.mode
        /\ DOMAIN u.fields = DOMAIN Endpoints(table.mode) \cup DOMAIN table.fields
        /\ \A n \in DOMAIN table.fields : u.fields[n] = ColumnOf(table.fields[n])
    BY ONLY Declarable(s), <1>0, CatalogTables DEF u, w, table
  <2>. QED
    BY <1>1, <2>1
<1>3. \A n \in DOMAIN target.fields :
        u.fields[n].type = FieldTypeToSql(target.fields[n])
  <2>. TAKE n \in DOMAIN target.fields
  <2>1. u.fields[n] = ColumnOf(target.fields[n])
    BY <1>2
  <2>. QED
    BY <2>1 DEF ColumnOf
<1>4. /\ \A n, y : HasField(w, t, n, y)
                    <=> n \in DOMAIN u.fields /\ u.fields[n].type = y
      /\ \A n : HasIndex(w, t, n) <=> n \in DOMAIN u.indexes
      /\ \A n : HasEvent(w, t, n) <=> n \in DOMAIN u.events
  BY <1>1 DEF HasField, HasIndex, HasEvent, u
<1>5. \A n \in DOMAIN target.fields :
        HasField(w, t, n, FieldTypeToSql(target.fields[n]))
  BY <1>2, <1>3, <1>4
<1>6. ASSUME NEW n, NEW y, HasField(w, t, n, y)
      PROVE  \/ n \in DOMAIN Endpoints(target.mode)
             \/ /\ n \in DOMAIN target.fields
                /\ FieldTypeToSql(target.fields[n]) = y
  BY <1>2, <1>3, <1>4, <1>6
<1>. QED
  BY <1>2, <1>4, <1>5, <1>6 DEF u, w

LEMMA ExtraSays ==
    ASSUME NEW s, Declarable(s), NEW c, Sound(c, CatalogOf(s)),
           NEW v, Sane(v, c, s), ShowsExtra(v, {}, c, CatalogOf(s)),
           NEW e \in Elements(c) \ Elements(CatalogOf(s))
    PROVE  \E x : Says(v, s, x) /\ Takes(x, e)
<1>. DEFINE w == CatalogOf(s)
<1>. HIDE DEF w
<1>0. ASSUME NEW t \in Names(v), t \notin DOMAIN w.tables,
             \/ \E k : e = <<k, t>>
             \/ \E n, y : e = <<"field", t, n, y>>
             \/ \E n : e = <<"index", t, n>>
             \/ \E n : e = <<"event", t, n>>
      PROVE  \E x : Says(v, s, x) /\ Takes(x, e)
  <2>. DEFINE x == Drop("tables", t, t)
  <2>1. Says(v, s, x)
    BY <1>0, TableSays DEF w
  <2>2. x.verb = "REMOVE" /\ x.kind = "tables" /\ x.name = t
    BY DropIsPlain
  <2>. HIDE DEF x
  <2>3. Takes(x, e)
    BY <1>0, <2>2 DEF Takes
  <2>. QED
    BY <2>1, <2>3
<1>1. ASSUME NEW k, NEW t, e = <<k, t>>, HasTable(c, k, t)
      PROVE  \E x : Says(v, s, x) /\ Takes(x, e)
  <2>1. ~HasTable(w, k, t)
    BY <1>1, TableElement DEF w
  <2>2. t \notin DOMAIN w.tables
    BY <1>1, <2>1 DEF HasTable, Sound, Alike, w
  <2>3. t \in Names(v)
    BY <1>1, <2>2 DEF ShowsExtra, HasTable, w
  <2>. QED
    BY <1>0, <1>1, <2>2, <2>3
<1>2. ASSUME NEW t, NEW n, NEW y, e = <<"field", t, n, y>>, HasField(c, t, n, y)
      PROVE  \E x : Says(v, s, x) /\ Takes(x, e)
  <2>1. ~HasField(w, t, n, y)
    BY <1>2, FieldElement DEF w
  <2>2. CASE t \notin DOMAIN w.tables
    <3>1. t \in Names(v)
      BY <1>2, <2>2 DEF ShowsExtra, HasField, w
    <3>. QED
      BY <1>0, <1>2, <2>2, <3>1
  <2>3. CASE t \in DOMAIN w.tables
    <3>. DEFINE current == AllTables(v)[t]
                target == AllTables(s)[t]
    <3>1. t \in Names(v) /\ Renders(v, t, n, y)
      BY <1>2, <2>1, <2>3 DEF ShowsExtra, w
    <3>2. n \in DOMAIN current.fields /\ FieldTypeToSql(current.fields[n]) = y
      BY <3>1 DEF Renders
    <3>3. n \in DOMAIN target.fields => FieldTypeToSql(target.fields[n]) # y
      BY <2>1, <2>3, DeclaredColumns DEF w
    <3>4. /\ n \in Retyped(current.fields, target.fields) =>
                Says(v, s, DefineType(t, n, target.fields[n]))
          /\ n \in Dropped(current.fields, target.fields) =>
                Says(v, s, Drop("fields", t, n))
      BY <2>3, <3>1, ColumnSays DEF w
    <3>. HIDE DEF current, target
    <3>5. CASE n \notin DOMAIN target.fields
      <4>. DEFINE x == Drop("fields", t, n)
      <4>1. Says(v, s, x)
        BY <3>2, <3>4, <3>5 DEF Dropped
      <4>2. x.verb = "REMOVE" /\ x.kind = "fields" /\ x.on = t /\ x.name = n
        BY DropIsPlain
      <4>. HIDE DEF x
      <4>3. Takes(x, e)
        BY <1>2, <4>2 DEF Takes
      <4>. QED
        BY <4>1, <4>3
    <3>6. CASE n \in DOMAIN target.fields
      <4>. DEFINE x == DefineType(t, n, target.fields[n])
      <4>1. Says(v, s, x)
        BY <3>2, <3>3, <3>4, <3>6 DEF Retyped, Kept
      <4>2. /\ x.verb = "DEFINE" /\ x.kind = "fields" /\ x.on = t /\ x.name = n
            /\ x.def.type = FieldTypeToSql(target.fields[n])
        BY DefineIsPlain DEF DefineType
      <4>. HIDE DEF x
      <4>3. Takes(x, e)
        BY <1>2, <3>3, <3>6, <4>2 DEF Takes
      <4>. QED
        BY <4>1, <4>3
    <3>. QED
      BY <3>5, <3>6
  <2>. QED
    BY <2>2, <2>3
<1>3. ASSUME NEW t, NEW n, e = <<"index", t, n>>, HasIndex(c, t, n)
      PROVE  \E x : Says(v, s, x) /\ Takes(x, e)
  <2>1. ~HasIndex(w, t, n)
    BY <1>3, IndexElement DEF w
  <2>2. CASE t \notin DOMAIN w.tables
    <3>1. t \in Names(v)
      BY <1>3, <2>2 DEF ShowsExtra, HasIndex, w
    <3>. QED
      BY <1>0, <1>3, <2>2, <3>1
  <2>3. CASE t \in DOMAIN w.tables
    <3>. DEFINE x == Drop("indexes", t, n)
    <3>1. t \in Names(v) /\ n \in DOMAIN AllTables(v)[t].indexes
      BY <1>3, <2>1, <2>3 DEF ShowsExtra, w
    <3>2. n \notin DOMAIN AllTables(s)[t].indexes
      BY <2>1, <2>3, DeclaredColumns DEF w
    <3>3. Says(v, s, x)
      BY <2>3, <3>1, <3>2, ColumnSays DEF Dropped, w
    <3>4. x.verb = "REMOVE" /\ x.kind = "indexes" /\ x.on = t /\ x.name = n
      BY DropIsPlain
    <3>. HIDE DEF x
    <3>5. Takes(x, e)
      BY <1>3, <3>4 DEF Takes
    <3>. QED
      BY <3>3, <3>5
  <2>. QED
    BY <2>2, <2>3
<1>4. ASSUME NEW t, NEW n, e = <<"event", t, n>>, HasEvent(c, t, n)
      PROVE  \E x : Says(v, s, x) /\ Takes(x, e)
  <2>1. ~HasEvent(w, t, n)
    BY <1>4, EventElement DEF w
  <2>2. CASE t \notin DOMAIN w.tables
    <3>1. t \in Names(v)
      BY <1>4, <2>2 DEF ShowsExtra, HasEvent, w
    <3>. QED
      BY <1>0, <1>4, <2>2, <3>1
  <2>3. CASE t \in DOMAIN w.tables
    <3>. DEFINE x == Drop("events", t, n)
    <3>1. t \in Names(v) /\ n \in DOMAIN AllTables(v)[t].events
      BY <1>4, <2>1, <2>3 DEF ShowsExtra, w
    <3>2. n \notin DOMAIN AllTables(s)[t].events
      BY <2>1, <2>3, DeclaredColumns DEF w
    <3>3. Says(v, s, x)
      BY <2>3, <3>1, <3>2, ColumnSays DEF Dropped, w
    <3>4. x.verb = "REMOVE" /\ x.kind = "events" /\ x.on = t /\ x.name = n
      BY DropIsPlain
    <3>. HIDE DEF x
    <3>5. Takes(x, e)
      BY <1>4, <3>4 DEF Takes
    <3>. QED
      BY <3>3, <3>5
  <2>. QED
    BY <2>2, <2>3
<1>5. ASSUME NEW b, NEW a, NEW y, e = <<"bucket", b, a, y>>,
             HasAttribute(c, b, a, y)
      PROVE  \E x : Says(v, s, x) /\ Takes(x, e)
  <2>1. ~HasAttribute(w, b, a, y)
    BY <1>5, BucketElement DEF w
  <2>2. b \in DOMAIN v.buckets /\ v.buckets[b][a] = y /\ a \in Attributes
    BY <1>5, <2>1 DEF ShowsExtra, HasAttribute, w
  <2>3. w.buckets = s.buckets
    BY DEF w, CatalogOf
  <2>4. CASE b \notin DOMAIN s.buckets
    <3>. DEFINE x == Drop("buckets", b, b)
    <3>1. Says(v, s, x)
      BY <2>2, <2>4, BucketSays
    <3>2. x.verb = "REMOVE" /\ x.kind = "buckets" /\ x.name = b
      BY DropIsPlain
    <3>. HIDE DEF x
    <3>3. Takes(x, e)
      BY <1>5, <3>2 DEF Takes
    <3>. QED
      BY <3>1, <3>3
  <2>5. CASE b \in DOMAIN s.buckets
    <3>. DEFINE x == AlterBucket(b, v.buckets[b], s.buckets[b])
    <3>1. s.buckets[b][a] # y
      BY <2>1, <2>2, <2>3, <2>5 DEF HasAttribute
    <3>2. a \in DOMAIN s.buckets[b]
      BY <2>2, <2>5 DEF Declarable, Range, Attributes
    <3>3. a \in AlteredAttributes(v.buckets[b], s.buckets[b])
      BY <2>2, <3>1 DEF AlteredAttributes, Attributes
    <3>4. b \in Changed(v.buckets, s.buckets)
      BY <2>2, <2>5, <3>3 DEF Changed, Kept
    <3>5. Says(v, s, x)
      BY <3>4, BucketSays
    <3>6. /\ x.verb = "ALTER" /\ x.kind = "buckets" /\ x.name = b
          /\ a \in DOMAIN x.def /\ x.def[a] = s.buckets[b][a]
      BY <3>2, <3>3, AlterIsPlain
    <3>. HIDE DEF x
    <3>7. Takes(x, e)
      BY <1>5, <2>2, <3>1, <3>6 DEF Takes
    <3>. QED
      BY <3>5, <3>7
  <2>. QED
    BY <2>4, <2>5
<1>. QED
  BY <1>1, <1>2, <1>3, <1>4, <1>5, Shapes

LEMMA MissingSays ==
    ASSUME NEW s, Declarable(s), NEW c, Sound(c, CatalogOf(s)),
           NEW v, Sane(v, c, s), ShowsMissing(v, {}, c, CatalogOf(s)),
           NEW e \in Elements(CatalogOf(s)) \ Elements(c), e[1] # "event"
    PROVE  \E x : Says(v, s, x) /\ Makes(x, e)
<1>. DEFINE w == CatalogOf(s)
<1>. HIDE DEF w
<1>0. ASSUME NEW t \in DOMAIN w.tables, t \notin Names(v),
             e \in TableElements(t, w.tables[t])
      PROVE  \E x : Says(v, s, x) /\ Makes(x, e)
  <2>1. t \in DOMAIN AllTables(s)
    BY <1>0 DEF w, CatalogOf
  <2>2. PICK x \in TableStatements(t, AllTables(s)[t]) : Makes(x, e)
    BY <1>0, <2>1, TableStatementsMake DEF w
  <2>. QED
    BY <1>0, <2>2, TableSays DEF w
<1>1. ASSUME NEW k, NEW t, e = <<k, t>>, HasTable(w, k, t)
      PROVE  \E x : Says(v, s, x) /\ Makes(x, e)
  <2>1. ~HasTable(c, k, t)
    BY <1>1, TableElement
  <2>2. t \in DOMAIN w.tables /\ t \notin DOMAIN c.tables
    BY <1>1, <2>1 DEF HasTable, Sound, Alike, w
  <2>3. t \notin Names(v)
    BY <2>2 DEF ShowsMissing, w
  <2>4. e \in TableElements(t, w.tables[t])
    BY <1>1 DEF HasTable, TableElements
  <2>. QED
    BY <1>0, <2>2, <2>3, <2>4
<1>2. ASSUME NEW t, NEW n, NEW y, e = <<"field", t, n, y>>, HasField(w, t, n, y)
      PROVE  \E x : Says(v, s, x) /\ Makes(x, e)
  <2>1. ~HasField(c, t, n, y) /\ t \in DOMAIN w.tables
    BY <1>2, FieldElement DEF HasField
  <2>2. CASE t \notin Names(v)
    <3>1. e \in TableElements(t, w.tables[t])
      BY <1>2 DEF HasField, TableElements
    <3>. QED
      BY <1>0, <2>1, <2>2, <3>1
  <2>3. CASE t \in Names(v)
    <3>. DEFINE current == AllTables(v)[t]
                target == AllTables(s)[t]
                x == DefineType(t, n, target.fields[n])
    <3>1. ~Renders(v, t, n, y)
      BY <1>2, <2>1, <2>3 DEF ShowsMissing, w
    <3>2. ~(n \in DOMAIN current.fields /\ FieldTypeToSql(current.fields[n]) = y)
      BY <3>1 DEF Renders
    <3>3. n \notin DOMAIN Endpoints(target.mode)
      <4>1. t \in DOMAIN c.tables
        BY <2>1, <2>3 DEF ShowsMissing, w
      <4>2. n \notin DOMAIN Endpoints(c.tables[t].mode)
        BY <1>2, <2>1, <4>1, EndsAlike, CatalogSound DEF w
      <4>3. SortOf(c.tables[t]) = SortOf(w.tables[t])
        BY <2>1, <4>1 DEF Sound, Alike, w
      <4>4. c.tables[t].mode = "RELATION" <=> w.tables[t].mode = "RELATION"
        BY <4>3 DEF SortOf
      <4>5. w.tables[t].mode = target.mode
        BY <2>1, DeclaredColumns DEF w
      <4>. QED
        BY <4>2, <4>4, <4>5, EndpointsAt
    <3>4. n \in DOMAIN target.fields /\ FieldTypeToSql(target.fields[n]) = y
      BY <1>2, <2>1, <3>3, DeclaredColumns DEF w
    <3>5. n \in Added(current.fields, target.fields)
                    \cup Retyped(current.fields, target.fields) => Says(v, s, x)
      BY <2>1, <2>3, ColumnSays DEF w
    <3>. HIDE DEF current, target
    <3>6. Says(v, s, x)
      BY <3>2, <3>4, <3>5 DEF Added, Retyped, Kept
    <3>7. /\ x.verb = "DEFINE" /\ x.kind = "fields" /\ x.on = t /\ x.name = n
          /\ x.def.type = y
      BY <3>4, DefineIsPlain DEF DefineType
    <3>. HIDE DEF x
    <3>8. Makes(x, e)
      BY <1>2, <3>7 DEF Makes
    <3>. QED
      BY <3>6, <3>8
  <2>. QED
    BY <2>2, <2>3
<1>3. ASSUME NEW t, NEW n, e = <<"index", t, n>>, HasIndex(w, t, n)
      PROVE  \E x : Says(v, s, x) /\ Makes(x, e)
  <2>1. ~HasIndex(c, t, n) /\ t \in DOMAIN w.tables
    BY <1>3, IndexElement DEF HasIndex
  <2>2. CASE t \notin Names(v)
    <3>1. e \in TableElements(t, w.tables[t])
      BY <1>3 DEF HasIndex, TableElements
    <3>. QED
      BY <1>0, <2>1, <2>2, <3>1
  <2>3. CASE t \in Names(v)
    <3>. DEFINE x == Define("indexes", t, n, AllTables(s)[t].indexes[n])
    <3>1. n \notin DOMAIN AllTables(v)[t].indexes
      BY <1>3, <2>1, <2>3 DEF ShowsMissing, w
    <3>2. n \in DOMAIN AllTables(s)[t].indexes
      BY <1>3, <2>1, DeclaredColumns DEF w
    <3>3. Says(v, s, x)
      BY <2>1, <2>3, <3>1, <3>2, ColumnSays DEF Added, w
    <3>4. x.verb = "DEFINE" /\ x.kind = "indexes" /\ x.on = t /\ x.name = n
      BY DefineIsPlain
    <3>. HIDE DEF x
    <3>5. Makes(x, e)
      BY <1>3, <3>4 DEF Makes
    <3>. QED
      BY <3>3, <3>5
  <2>. QED
    BY <2>2, <2>3
<1>4. ASSUME NEW b, NEW a, NEW y, e = <<"bucket", b, a, y>>,
             HasAttribute(w, b, a, y)
      PROVE  \E x : Says(v, s, x) /\ Makes(x, e)
  <2>1. ~HasAttribute(c, b, a, y)
    BY <1>4, BucketElement
  <2>2. w.buckets = s.buckets
    BY DEF w, CatalogOf
  <2>3. /\ b \in DOMAIN s.buckets /\ a \in Attributes /\ s.buckets[b][a] = y
        /\ a \in DOMAIN s.buckets[b]
    BY <1>4, <2>2 DEF HasAttribute, Declarable, Range, Attributes
  <2>4. b \notin DOMAIN v.buckets \/ v.buckets[b][a] # y
    BY <1>4, <2>1 DEF ShowsMissing, w
  <2>5. CASE b \notin DOMAIN v.buckets
    <3>. DEFINE x == Define("buckets", b, b, s.buckets[b])
    <3>1. Says(v, s, x)
      BY <2>3, <2>5, BucketSays
    <3>2. /\ x.verb = "DEFINE" /\ x.kind = "buckets" /\ x.name = b
          /\ x.def = s.buckets[b]
      BY DefineIsPlain
    <3>. HIDE DEF x
    <3>3. Makes(x, e)
      BY <1>4, <2>3, <3>2 DEF Makes
    <3>. QED
      BY <3>1, <3>3
  <2>6. CASE b \in DOMAIN v.buckets
    <3>. DEFINE x == AlterBucket(b, v.buckets[b], s.buckets[b])
    <3>1. a \in AlteredAttributes(v.buckets[b], s.buckets[b])
      BY <2>3, <2>4, <2>6 DEF AlteredAttributes, Attributes
    <3>2. b \in Changed(v.buckets, s.buckets)
      BY <2>3, <2>6, <3>1 DEF Changed, Kept
    <3>3. Says(v, s, x)
      BY <3>2, BucketSays
    <3>4. /\ x.verb = "ALTER" /\ x.kind = "buckets" /\ x.name = b
          /\ a \in DOMAIN x.def /\ x.def[a] = s.buckets[b][a]
      BY <2>3, <3>1, AlterIsPlain
    <3>. HIDE DEF x
    <3>5. Makes(x, e)
      BY <1>4, <2>3, <3>4 DEF Makes
    <3>. QED
      BY <3>3, <3>5
  <2>. QED
    BY <2>5, <2>6
<1>5. ASSUME NEW t, NEW n, e = <<"event", t, n>>
      PROVE  FALSE
  BY <1>5
<1>. QED
  BY <1>1, <1>2, <1>3, <1>4, <1>5, Shapes DEF w

---------------------------------------------------------------------------
(* A script has a statement against every difference, and keeps one while  *)
(* none is refused.  The new events of a table that exists are excepted.   *)
Settles(q, c, w) ==
    /\ \A e \in Elements(c) \ Elements(w) :
        \E x \in Range(q) : Takes(x, e) /\ ~x.ifExists
    /\ \A e \in Elements(w) \ Elements(c) : e[1] # "event" =>
        \E x \in Range(q) : Makes(x, e) /\ ~x.ifExists

Settled(c, w) ==
    /\ Elements(c) \ Elements(w) = {}
    /\ \A e \in Elements(w) \ Elements(c) : e[1] = "event"

LEMMA SettlesNearer ==
    ASSUME NEW q, NEW c, NEW d, NEW w, Nearer(c, d, w)
    PROVE  /\ Settles(q, c, w) => Settles(q, d, w)
           /\ Settled(c, w) => Settled(d, w)
<1>1. /\ Elements(d) \ Elements(w) \subseteq Elements(c) \ Elements(w)
      /\ Elements(w) \ Elements(d) \subseteq Elements(w) \ Elements(c)
  BY NearerElements
<1>. QED
  BY <1>1 DEF Settles, Settled

LEMMA NothingLeft ==
    ASSUME NEW c, NEW w, Settles(<<>>, c, w)
    PROVE  Settled(c, w)
BY EmptyScript DEF Settles, Settled

LEMMA SettlesStep ==
    ASSUME NEW q, NEW c, NEW w, NEW st, NEW d, Settles(q, c, w), Ready(q, c, w),
           q # <<>>, Shaped(c), ~Refused(Head(q), c, st),
           d = Execute(Head(q), c), Nearer(c, d, w),
           Range(q) \subseteq {Head(q)} \cup Range(Tail(q))
    PROVE  Settles(Tail(q), d, w)
<1>. DEFINE s == Head(q)
<1>1. DefinesColumn(s) => s.on \in DOMAIN c.tables
  BY HeadIsFirst
<1>2. /\ Elements(d) \ Elements(w) \subseteq Elements(c) \ Elements(w)
      /\ Elements(w) \ Elements(d) \subseteq Elements(w) \ Elements(c)
  BY NearerElements
<1>. HIDE DEF s
<1>3. ASSUME NEW e \in Elements(d) \ Elements(w)
      PROVE  \E x \in Range(Tail(q)) : Takes(x, e) /\ ~x.ifExists
  <2>1. PICK x \in Range(q) : Takes(x, e) /\ ~x.ifExists
    BY <1>2 DEF Settles
  <2>2. x # s
    BY <1>1, <2>1, TakenIsGone DEF s
  <2>. QED
    BY <2>1, <2>2 DEF s
<1>4. ASSUME NEW e \in Elements(w) \ Elements(d), e[1] # "event"
      PROVE  \E x \in Range(Tail(q)) : Makes(x, e) /\ ~x.ifExists
  <2>1. PICK x \in Range(q) : Makes(x, e) /\ ~x.ifExists
    BY <1>2, <1>4 DEF Settles
  <2>2. x # s
    BY <1>1, <2>1, MadeIsThere DEF s
  <2>. QED
    BY <2>1, <2>2 DEF s
<1>. QED
  BY <1>3, <1>4 DEF Settles

LEMMA DiffsSettle ==
    ASSUME NEW s, Declarable(s), NEW c, Sound(c, CatalogOf(s)),
           NEW v, Sane(v, c, s), Shows(v, {}, c, CatalogOf(s))
    PROVE  Settles(UpSql(DiffSchemas(v, s)), c, CatalogOf(s))
BY ExtraSays, MissingSays DEF Settles, Says, Shows

(* The second half of the invariant, for schemas that are read back as     *)
(* they were written: what an instance has read shows every difference,    *)
(* its script settles every one, and once it is through there is none.     *)
Effective ==
    /\ Legible(catalog)
    /\ Legible(Target)
    /\ \A i \in Instances :
        /\ pc[i] = "reading" => Shows(seen[i], unread[i], catalog, Target)
        /\ pc[i] = "applying" /\ ~refused[i] =>
                Settles(todo[i], catalog, Target)
        /\ pc[i] \in {"settled", "applied"} => Settled(catalog, Target)

(* No column is of a type that the parser does not know.                   *)
ReadableCases == \A c \in Cases : Readable(c[1]) /\ Readable(c[2])

LEMMA InitEffective ==
    ASSUME ReadableCases, Init
    PROVE  Effective
<1>1. PICK x \in Cases :
        /\ catalog = Run(GenerateSchemaSql(x[1]), EmptyCatalog, strict)
        /\ code = x[2]
  BY DEF Init
<1>. DEFINE a == x[1]
            b == x[2]
<1>2. Declarable(a) /\ Declarable(b) /\ Readable(a) /\ Readable(b)
  BY ReconcilerAssumption DEF ReadableCases
<1>. HIDE DEF a, b
<1>3. catalog = Run(GenerateSchemaSql(a), EmptyCatalog, strict) /\ code = b
  BY <1>1 DEF a, b
<1>4. Legible(Target)
  BY <1>2, <1>3, ReadableLegible DEF Target
<1>5. Elements(catalog) = Elements(CatalogOf(a))
  BY <1>2, <1>3, GeneratedSchema
<1>6. Legible(CatalogOf(a))
  BY <1>2, ReadableLegible
<1>7. Legible(catalog)
  BY <1>5, <1>6, FieldElement DEF Legible
<1>8. \A i \in Instances : pc[i] = "idle"
  BY DEF Init
<1>. QED
  BY <1>4, <1>7, <1>8 DEF Effective

(* A step of one instance that leaves the database alone.                  *)
LEMMA QuietStep ==
    ASSUME Effective, UNCHANGED <<catalog, code>>, NEW i \in Instances,
           \A j \in Instances \ {i} :
            /\ pc'[j] = pc[j] /\ seen'[j] = seen[j] /\ unread'[j] = unread[j]
            /\ todo'[j] = todo[j] /\ refused'[j] = refused[j],
           pc'[i] = "reading" => Shows(seen'[i], unread'[i], catalog, Target),
           pc'[i] = "applying" /\ ~refused'[i] =>
                Settles(todo'[i], catalog, Target),
           pc'[i] \in {"settled", "applied"} => Settled(catalog, Target)
    PROVE  Effective'
<1>1. Target' = Target
  BY DEF Target
<1>2. ASSUME NEW j \in Instances
      PROVE  /\ pc'[j] = "reading" => Shows(seen'[j], unread'[j], catalog, Target)
             /\ pc'[j] = "applying" /\ ~refused'[j] =>
                    Settles(todo'[j], catalog, Target)
             /\ pc'[j] \in {"settled", "applied"} => Settled(catalog, Target)
  <2>1. CASE j = i
    BY <2>1
  <2>2. CASE j # i
    BY <2>2 DEF Effective
  <2>. QED
    BY <2>1, <2>2
<1>. QED
  BY <1>1, <1>2 DEF Effective

LEMMA FetchDbInfoEffective ==
    ASSUME IInv, Effective, NEW i \in Instances, FetchDbInfo(i)
    PROVE  Effective'
<1>1. /\ UNCHANGED <<catalog, code, todo, refused>>
      /\ pc' = [pc EXCEPT ![i] = "reading"]
      /\ seen' = [seen EXCEPT ![i] = ParseDbInfo(catalog)]
      /\ unread' = [unread EXCEPT ![i] = DOMAIN catalog.tables]
  BY DEF FetchDbInfo, Goto, server, script
<1>2. Shows(ParseDbInfo(catalog), DOMAIN catalog.tables, catalog, Target)
  BY DbInfoShows DEF IInv, Consistent, Target
<1>. DEFINE v == ParseDbInfo(catalog)
<1>. HIDE DEF v
<1>3. pc'[i] = "reading" /\ seen'[i] = v /\ unread'[i] = DOMAIN catalog.tables
  BY <1>1 DEF IInv, Typed, v
<1>4. \A j \in Instances \ {i} :
        pc'[j] = pc[j] /\ seen'[j] = seen[j] /\ unread'[j] = unread[j]
  BY <1>1 DEF IInv, Typed
<1>. QED
  BY <1>1, <1>2, <1>3, <1>4, QuietStep DEF v

LEMMA FetchTableInfoEffective ==
    ASSUME IInv, Effective, NEW i \in Instances, NEW t \in unread[i],
           FetchTableInfo(i, t)
    PROVE  Effective'
<1>1. UNCHANGED <<catalog, code, todo, refused>> /\ pc[i] = "reading"
  BY DEF FetchTableInfo, server, script
<1>2. CASE t \in DOMAIN catalog.tables
  <2>. DEFINE z == WithInfo(seen[i], t, ParseTableInfo(catalog.tables[t]))
  <2>1. /\ seen' = [seen EXCEPT ![i] = z]
        /\ unread' = [unread EXCEPT ![i] = @ \ {t}]
        /\ pc' = pc
    BY <1>2 DEF FetchTableInfo, WithInfo
  <2>2. t \in Names(seen[i])
    BY DEF IInv, Typed, Names
  <2>3. Shows(z, unread[i] \ {t}, catalog, Target)
    <3>1. Shows(seen[i], unread[i], catalog, Target) /\ Legible(catalog)
      BY <1>1 DEF Effective
    <3>2. /\ Declarable(code) /\ Sound(catalog, Target)
          /\ Sane(seen[i], catalog, code)
      BY DEF IInv, Consistent
    <3>. QED
      BY <1>2, <2>2, <3>1, <3>2, TableInfoShows DEF Target
  <2>. HIDE DEF z
  <2>4. seen'[i] = z /\ unread'[i] = unread[i] \ {t} /\ pc'[i] = "reading"
    BY <1>1, <2>1 DEF IInv, Typed
  <2>5. \A j \in Instances \ {i} : seen'[j] = seen[j] /\ unread'[j] = unread[j]
    BY <2>1 DEF IInv, Typed
  <2>. QED
    BY <1>1, <2>1, <2>3, <2>4, <2>5, QuietStep
<1>3. CASE t \notin DOMAIN catalog.tables
  <2>1. /\ seen' = [seen EXCEPT ![i] = NoSchema]
        /\ unread' = [unread EXCEPT ![i] = {}]
        /\ pc' = [pc EXCEPT ![i] = "failed"]
    BY <1>3 DEF FetchTableInfo, Goto, Forget
  <2>2. pc'[i] = "failed"
    BY <2>1 DEF IInv, Typed
  <2>3. \A j \in Instances \ {i} :
            pc'[j] = pc[j] /\ seen'[j] = seen[j] /\ unread'[j] = unread[j]
    BY <2>1 DEF IInv, Typed
  <2>. QED
    BY <1>1, <2>2, <2>3, QuietStep
<1>. QED
  BY <1>2, <1>3

LEMMA GenerateEffective ==
    ASSUME IInv, Effective, NEW i \in Instances, Generate(i)
    PROVE  Effective'
<1>. DEFINE diffs == DiffSchemas(seen[i], code)
            q == UpSql(diffs)
<1>1. /\ todo' = [todo EXCEPT ![i] = q]
      /\ pc' = [pc EXCEPT ![i] = IF diffs = <<>> THEN "settled" ELSE "applying"]
      /\ seen' = [seen EXCEPT ![i] = NoSchema]
      /\ unread' = [unread EXCEPT ![i] = {}]
      /\ UNCHANGED <<catalog, code, refused>>
      /\ pc[i] = "reading" /\ unread[i] = {}
  BY DEF Generate, Goto, Forget, server
<1>2. Settles(q, catalog, Target)
  <2>1. Shows(seen[i], {}, catalog, Target)
    BY <1>1 DEF Effective
  <2>. QED
    BY <2>1, DiffsSettle DEF IInv, Consistent, Target
<1>3. diffs = <<>> => q = <<>>
  BY DEF UpSql, FlattenSeq
<1>. HIDE DEF diffs, q
<1>4. diffs = <<>> => Settled(catalog, Target)
  BY <1>2, <1>3, NothingLeft
<1>5. todo'[i] = q /\ pc'[i] = IF diffs = <<>> THEN "settled" ELSE "applying"
  BY <1>1 DEF IInv, Typed
<1>6. \A j \in Instances \ {i} :
        /\ pc'[j] = pc[j] /\ seen'[j] = seen[j] /\ unread'[j] = unread[j]
        /\ todo'[j] = todo[j]
  BY <1>1 DEF IInv, Typed
<1>. QED
  BY <1>1, <1>2, <1>4, <1>5, <1>6, QuietStep

LEMMA QueryReplyEffective ==
    ASSUME IInv, Effective, NEW i \in Instances, QueryReply(i)
    PROVE  Effective'
<1>1. /\ pc' = [pc EXCEPT ![i] = IF refused[i] THEN "failed" ELSE "applied"]
      /\ refused' = [refused EXCEPT ![i] = FALSE]
      /\ todo[i] = <<>> /\ pc[i] = "applying"
      /\ UNCHANGED <<catalog, code, seen, unread, todo>>
  BY DEF QueryReply, Goto, server, reading
<1>2. ~refused[i] => Settled(catalog, Target)
  BY <1>1, NothingLeft DEF Effective
<1>3. /\ pc'[i] \in {"failed", "applied"}
      /\ pc'[i] = "applied" => Settled(catalog, Target)
  BY <1>1, <1>2 DEF IInv, Typed
<1>4. \A j \in Instances \ {i} : pc'[j] = pc[j] /\ refused'[j] = refused[j]
  BY <1>1 DEF IInv, Typed
<1>5. \A j \in Instances \ {i} :
        seen'[j] = seen[j] /\ unread'[j] = unread[j] /\ todo'[j] = todo[j]
  BY <1>1
<1>. QED
  BY <1>1, <1>3, <1>4, <1>5, QuietStep

LEMMA CrashEffective ==
    ASSUME IInv, Effective, NEW i \in Instances, Crash(i)
    PROVE  Effective'
<1>1. /\ todo' = [todo EXCEPT ![i] = <<>>]
      /\ refused' = [refused EXCEPT ![i] = FALSE]
      /\ pc' = [pc EXCEPT ![i] = "failed"]
      /\ seen' = [seen EXCEPT ![i] = NoSchema]
      /\ unread' = [unread EXCEPT ![i] = {}]
      /\ UNCHANGED <<catalog, code>>
  BY DEF Crash, Goto, Forget, server
<1>2. pc'[i] = "failed"
  BY <1>1 DEF IInv, Typed
<1>3. \A j \in Instances \ {i} :
        /\ pc'[j] = pc[j] /\ seen'[j] = seen[j] /\ unread'[j] = unread[j]
        /\ todo'[j] = todo[j] /\ refused'[j] = refused[j]
  BY <1>1 DEF IInv, Typed
<1>. QED
  BY <1>1, <1>2, <1>3, QuietStep

LEMMA ExecuteStatementEffective ==
    ASSUME IInv, Effective, NEW i \in Instances, ExecuteStatement(i)
    PROVE  Effective'
<1>. DEFINE s == Head(todo[i])
            q == Tail(todo[i])
<1>1. /\ catalog' = Step(s, catalog, strict)
      /\ todo[i] # <<>> /\ pc[i] = "applying"
      /\ todo' = [todo EXCEPT ![i] = q]
      /\ UNCHANGED <<strict, code, wanted, pc, seen, unread, faults>>
      /\ refused' = IF Refused(s, catalog, strict)
                    THEN [refused EXCEPT ![i] = TRUE] ELSE refused
  BY ExecuteIsStep
<1>2. Nearer(catalog, catalog', Target)
  BY ExecuteStatementStep
<1>3. Target' = Target
  BY <1>1 DEF Target
<1>4. Sound(catalog, Target) /\ Ready(todo[i], catalog, Target)
  BY DEF IInv, Consistent
<1>5. Legible(catalog')
  BY <1>2, LegibleKept DEF Effective
<1>6. ASSUME NEW v, NEW u, Shows(v, u, catalog, Target)
      PROVE  Shows(v, u, catalog', Target)
  BY <1>2, <1>4, <1>6, ShowsNearer DEF Sound
<1>7. ASSUME ~Refused(s, catalog, strict), ~refused[i]
      PROVE  Settles(q, catalog', Target)
  <2>1. Settles(todo[i], catalog, Target)
    BY <1>1, <1>7 DEF Effective
  <2>2. catalog' = Execute(s, catalog)
    BY <1>1, <1>7 DEF Step
  <2>3. Range(todo[i]) \subseteq {Head(todo[i])} \cup Range(Tail(todo[i]))
    <3>1. DOMAIN catalog.tables \cap DOMAIN Target.tables
                \subseteq DOMAIN catalog'.tables
      BY <1>2, <1>4, NearerAlike DEF Sound
    <3>2. \A t : DefinesTable(s, t) => t \in DOMAIN catalog'.tables
      BY <1>4, <2>2, TableDefined DEF DefinesTable, Sound
    <3>. QED
      BY <1>1, <1>4, <3>1, <3>2, ReadyTail
  <2>. QED
    BY <1>1, <1>2, <1>4, <1>7, <2>1, <2>2, <2>3, SettlesStep DEF Sound
<1>. HIDE DEF s, q
<1>8. ASSUME NEW j \in Instances
      PROVE  /\ pc'[j] = "reading" => Shows(seen'[j], unread'[j], catalog', Target)
             /\ pc'[j] = "applying" /\ ~refused'[j] =>
                    Settles(todo'[j], catalog', Target)
             /\ pc'[j] \in {"settled", "applied"} => Settled(catalog', Target)
  <2>1. pc'[j] = "reading" => Shows(seen'[j], unread'[j], catalog', Target)
    BY <1>1, <1>6 DEF Effective
  <2>2. pc'[j] \in {"settled", "applied"} => Settled(catalog', Target)
    BY <1>1, <1>2, SettlesNearer DEF Effective
  <2>3. ASSUME pc'[j] = "applying", ~refused'[j]
        PROVE  Settles(todo'[j], catalog', Target)
    <3>1. CASE j = i
      <4>1. ~Refused(s, catalog, strict) /\ ~refused[i]
        BY <1>1, <2>3, <3>1 DEF IInv, Typed
      <4>2. todo'[j] = q
        BY <1>1, <3>1 DEF IInv, Typed
      <4>. QED
        BY <1>7, <4>1, <4>2
    <3>2. CASE j # i
      <4>1. todo'[j] = todo[j] /\ refused'[j] = refused[j] /\ pc[j] = "applying"
        BY <1>1, <2>3, <3>2 DEF IInv, Typed
      <4>2. Settles(todo[j], catalog, Target)
        BY <2>3, <4>1 DEF Effective
      <4>. QED
        BY <1>2, <4>1, <4>2, SettlesNearer
    <3>. QED
      BY <3>1, <3>2
  <2>. QED
    BY <2>1, <2>2, <2>3
<1>9. Legible(Target)
  BY DEF Effective
<1>. QED
  BY <1>3, <1>5, <1>8, <1>9 DEF Effective

LEMMA StepEffective ==
    ASSUME IInv, Effective, [Next]_vars
    PROVE  Effective'
<1>1. ASSUME UNCHANGED vars
      PROVE  Effective'
  <2>1. UNCHANGED <<catalog, code, pc, seen, unread, todo, refused>>
    BY <1>1 DEF vars, server, reading, script
  <2>2. Target' = Target
    BY <2>1 DEF Target
  <2>. QED
    BY <2>1, <2>2 DEF Effective
<1>2. ASSUME NEW i \in Instances, FetchDbInfo(i)
      PROVE  Effective'
  BY <1>2, FetchDbInfoEffective
<1>3. ASSUME NEW i \in Instances, NEW t \in unread[i], FetchTableInfo(i, t)
      PROVE  Effective'
  BY <1>3, FetchTableInfoEffective
<1>4. ASSUME NEW i \in Instances, Generate(i)
      PROVE  Effective'
  BY <1>4, GenerateEffective
<1>5. ASSUME NEW i \in Instances, ExecuteStatement(i)
      PROVE  Effective'
  BY <1>5, ExecuteStatementEffective
<1>6. ASSUME NEW i \in Instances, QueryReply(i)
      PROVE  Effective'
  BY <1>6, QueryReplyEffective
<1>7. ASSUME NEW i \in Instances, Crash(i)
      PROVE  Effective'
  BY <1>7, CrashEffective
<1>. QED
  BY <1>1, <1>2, <1>3, <1>4, <1>5, <1>6, <1>7 DEF Next, Progress

(* The whole invariant.                                                    *)
THEOREM AlwaysEffective ==
    ASSUME ReadableCases
    PROVE  Spec => [](IInv /\ Effective)
<1>1. Init => IInv /\ Effective
  BY InitConsistent, InitEffective
<1>2. (IInv /\ Effective) /\ [Next]_vars => (IInv /\ Effective)'
  BY StepConsistent, StepEffective
<1>. QED
  BY <1>1, <1>2, PTL DEF Spec

(* An instance whose migration went through, or that found nothing to do,  *)
(* leaves the database with what its code declares and nothing else,       *)
(* whatever the other instances and the failures before were.              *)
THEOREM MigratedIsDeclared ==
    ASSUME ReadableCases
    PROVE  Spec => []ReconciledMeansDeclared
<1>1. IInv => TypeOK
  BY DEF IInv, Typed, Consistent, Sound, Shaped, TableParts, ColumnKinds, TypeOK
<1>2. IInv /\ Effective => ReconciledMeansDeclared
  <2>. SUFFICES ASSUME IInv, Effective, NEW i \in Instances,
                       pc[i] \in {"settled", "applied"}
                PROVE  Extra = {} /\ Missing = Events
    BY <1>1 DEF ReconciledMeansDeclared
  <2>1. Settled(catalog, Target) /\ wanted = Elements(Target)
    BY DEF Effective, IInv, Consistent
  <2>. QED
    BY <2>1 DEF Settled, Extra, Missing, Events
<1>. QED
  BY <1>2, AlwaysEffective, PTL


---------------------------------------------------------------------------
(* Relations without PERMISSIONS, which the differ compares of edges.      *)
OpenRelations(c) ==
    \A t \in DOMAIN c.tables :
        c.tables[t].mode = "RELATION" => c.tables[t].rule = NoRule

KeepsOpen(x) ==
    x.verb = "DEFINE" /\ x.kind = "tables" /\ x.def.mode = "RELATION" =>
        x.def.rule = NoRule

LEMMA StepOpen ==
    ASSUME NEW c, Shaped(c), OpenRelations(c), NEW w, NEW s, Fits(s, w),
           DefinesColumn(s) => s.on \in DOMAIN c.tables, KeepsOpen(s),
           NEW st, NEW d, d = Step(s, c, st)
    PROVE  OpenRelations(d)
<1>1. CASE d = c
  BY <1>1
<1>2. CASE d # c
  <2>0. ~Refused(s, c, st) /\ d = Execute(s, c)
    BY <1>2 DEF Step
  <2>1. CASE s.verb = "DEFINE" /\ s.kind = "tables"
    <3>1. /\ DOMAIN d.tables = DOMAIN c.tables \cup {s.name}
          /\ \A u \in DOMAIN c.tables : u # s.name => d.tables[u] = c.tables[u]
          /\ d.tables[s.name].mode = s.def.mode
          /\ d.tables[s.name].rule = s.def.rule
      BY <2>0, <2>1, TableDefined
    <3>. QED
      BY <2>1, <3>1 DEF OpenRelations, KeepsOpen
  <2>2. CASE s.verb = "DEFINE" /\ s.kind \in ColumnKinds
    <3>0. s.on \in DOMAIN c.tables
      BY <2>2 DEF DefinesColumn, ColumnKinds, TopLevel
    <3>1. /\ DOMAIN d.tables = DOMAIN c.tables
          /\ \A u \in DOMAIN c.tables : u # s.on => d.tables[u] = c.tables[u]
          /\ \A p \in TableParts \ {s.kind} :
                d.tables[s.on][p] = c.tables[s.on][p]
      BY <2>0, <2>2, <3>0, ColumnDefined
    <3>2. "mode" \in TableParts \ {s.kind} /\ "rule" \in TableParts \ {s.kind}
      BY <2>2 DEF TableParts, ColumnKinds
    <3>3. /\ d.tables[s.on].mode = c.tables[s.on].mode
          /\ d.tables[s.on].rule = c.tables[s.on].rule
      BY <3>1, <3>2
    <3>. QED
      BY <3>1, <3>3 DEF OpenRelations
  <2>3. CASE s.verb = "DEFINE" /\ s.kind = "buckets"
    BY <2>0, <2>3, BucketDefined DEF OpenRelations
  <2>4. CASE s.verb = "REMOVE"
    <3>0. Execute(s, c) = Removed(s, c)
      BY <2>4 DEF Execute
    <3>1. Exists(s, c)
      BY ONLY <1>2, <2>0, <3>0 DEF Removed
    <3>2. CASE s.kind \in TopLevel
      <4>1. s.name \in DOMAIN c[s.kind]
        BY <3>1, <3>2 DEF Exists
      <4>2. /\ d[s.kind] = Without(c[s.kind], s.name)
            /\ \A k \in TopLevel \ {s.kind} : d[k] = c[k]
        BY <2>0, <2>4, <3>2, <4>1, TopRemoved
      <4>3. CASE s.kind = "tables"
        <5>1. d["tables"] = Without(c["tables"], s.name)
          BY <4>2, <4>3
        <5>2. d.tables = Without(c.tables, s.name)
          BY <5>1
        <5>3. /\ DOMAIN d.tables = DOMAIN c.tables \ {s.name}
              /\ \A t \in DOMAIN c.tables : t # s.name => d.tables[t] = c.tables[t]
          <6>. DEFINE f == c.tables
                      g == d.tables
                      x == s.name
          <6>1. g = Without(f, x)
            BY <5>2
          <6>. HIDE DEF f, g, x
          <6>2. DOMAIN g = DOMAIN f \ {x} /\ \A t \in DOMAIN f : t # x => g[t] = f[t]
            BY <6>1, WithoutValue
          <6>. QED
            BY <6>2 DEF f, g, x
        <5>. QED
          BY <5>3 DEF OpenRelations
      <4>4. CASE s.kind = "buckets"
        <5>1. d["tables"] = c["tables"]
          BY <4>2, <4>4 DEF TopLevel
        <5>2. d.tables = c.tables
          BY <5>1
        <5>. QED
          BY <5>2 DEF OpenRelations
      <4>. QED
        BY <3>2, <4>3, <4>4 DEF TopLevel
    <3>4. CASE s.kind \in ColumnKinds
      <4>0. /\ s.on \in DOMAIN c.tables
            /\ s.name \in DOMAIN c.tables[s.on][s.kind]
        BY <3>1, <3>4 DEF Exists, TopLevel, ColumnKinds
      <4>1. /\ DOMAIN d.tables = DOMAIN c.tables
            /\ \A u \in DOMAIN c.tables : u # s.on => d.tables[u] = c.tables[u]
            /\ \A p \in TableParts \ {s.kind} :
                    d.tables[s.on][p] = c.tables[s.on][p]
        BY <2>0, <2>4, <3>4, <4>0, ColumnRemoved
      <4>2. "mode" \in TableParts \ {s.kind} /\ "rule" \in TableParts \ {s.kind}
        BY <3>4 DEF TableParts, ColumnKinds
      <4>3. /\ d.tables[s.on].mode = c.tables[s.on].mode
            /\ d.tables[s.on].rule = c.tables[s.on].rule
        BY <4>1, <4>2
      <4>. QED
        BY <4>1, <4>3 DEF OpenRelations
    <3>. QED
      BY <2>4, <3>2, <3>4 DEF Fits, TopLevel
  <2>5. CASE s.verb = "ALTER"
    <3>1. s.kind = "buckets" /\ s.name \in DOMAIN c.buckets
      BY <2>0, <2>5 DEF Fits, Refused, Exists, TopLevel
    <3>2. d.tables = c.tables
      BY <2>0, <2>5, <3>1, BucketAltered
    <3>. QED
      BY <3>2 DEF OpenRelations
  <2>. QED
    BY <2>1, <2>2, <2>3, <2>4, <2>5 DEF Fits, ColumnKinds
<1>. QED
  BY <1>1, <1>2

(* The relations of both schemas and the declared buckets are open.        *)
OpenCases ==
    \A c \in Cases : OpenEdges(c[1]) /\ OpenEdges(c[2]) /\ OpenBuckets(c[2])

LEMMA TableKeepsOpen ==
    ASSUME NEW s, Declarable(s), OpenEdges(s), NEW t \in DOMAIN AllTables(s),
           NEW x \in TableStatements(t, AllTables(s)[t])
    PROVE  KeepsOpen(x)
<1>. DEFINE table == AllTables(s)[t]
<1>1. table.mode = "RELATION" => table.rule = NoRule
  <2>1. (t \in DOMAIN s.tables /\ table = s.tables[t])
            \/ (t \in DOMAIN s.edges /\ table = s.edges[t])
    BY DeclarableTables
  <2>2. t \in DOMAIN s.tables => s.tables[t].mode # "RELATION"
    BY DEF Declarable
  <2>. QED
    BY <2>1, <2>2 DEF OpenEdges
<1>. HIDE DEF table
<1>2. CASE x = DefineItself(t, table)
  BY <1>1, <1>2 DEF DefineItself, Define, Statement, KeepsOpen
<1>3. CASE x # DefineItself(t, table)
  <2>1. x.kind # "tables"
    BY <1>3 DEF TableStatements, GenerateFieldSql, Define, Statement, table
  <2>. QED
    BY <2>1 DEF KeepsOpen
<1>. QED
  BY <1>2, <1>3

LEMMA SchemaKeepsOpen ==
    ASSUME NEW s, Declarable(s), OpenEdges(s), NEW x \in SchemaStatements(s)
    PROVE  KeepsOpen(x)
<1>1. CASE \E t \in DOMAIN AllTables(s) : x \in TableStatements(t, AllTables(s)[t])
  BY <1>1, TableKeepsOpen
<1>2. ASSUME NEW b \in DOMAIN s.buckets, x = Define("buckets", b, b, s.buckets[b])
      PROVE  KeepsOpen(x)
  BY <1>2, DefineIsPlain DEF KeepsOpen
<1>. QED
  BY <1>1, <1>2 DEF SchemaStatements

LEMMA GeneratedOpen ==
    ASSUME NEW s, Declarable(s), OpenEdges(s), NEW st, NEW c,
           c = Run(GenerateSchemaSql(s), EmptyCatalog, st)
    PROVE  OpenRelations(c)
<1>. DEFINE sql == GenerateSchemaSql(s)
            w == CatalogOf(s)
            n == Len(sql)
<1>1. IsScript(sql) /\ Range(sql) = SchemaStatements(s)
      /\ Placed(sql, DOMAIN EmptyCatalog.tables)
  BY SchemaScript
<1>2. Relational(w)
  BY CatalogSound
<1>3. \A x \in Range(sql) : Fits(x, w) /\ KeepsOpen(x)
  BY <1>1, SchemaStatementsFit, SchemaKeepsOpen
<1>. HIDE DEF sql
<1>4. n \in Nat /\ DOMAIN sql = 1 .. n
  BY <1>1, LenProperties DEF IsScript
<1>5. PICK f : Runs(f, sql, EmptyCatalog, st, n) /\ c = f[n]
  <2>1. \E f : Runs(f, sql, EmptyCatalog, st, n) /\ Run(sql, EmptyCatalog, st) = f[n]
    BY <1>4, RunUnfolds
  <2>. QED
    BY <2>1 DEF sql
<1>. HIDE DEF w
<1>6. /\ \A k \in 0 .. n : Sound(f[k], w)
      /\ \A k \in 1 .. n :
            DefinesColumn(sql[k]) => sql[k].on \in DOMAIN f[k - 1].tables
  <2>1. Sound(EmptyCatalog, w)
    BY EmptyIsSound
  <2>. QED
    BY <1>1, <1>2, <1>3, <1>5, <2>1, RunNearer
<1>. HIDE DEF n
<1>. DEFINE S == {k \in 0 .. n : OpenRelations(f[k])}
<1>7. 0 \in S
  <2>1. f[0] = EmptyCatalog /\ 0 \in 0 .. n
    BY <1>4, <1>5 DEF Runs
  <2>2. OpenRelations(EmptyCatalog)
    BY NothingIsEmpty DEF OpenRelations, EmptyCatalog
  <2>. QED
    BY <2>1, <2>2
<1>8. ASSUME NEW k \in 1 .. n, k - 1 \in S
      PROVE  k \in S
  <2>. DEFINE g == f[k - 1]
              x == sql[k]
  <2>0. k \in 0 .. n /\ k - 1 \in 0 .. n /\ k # 0
    BY <1>4
  <2>1. f[k] = Step(x, g, st)
    BY <1>5, <2>0 DEF Runs
  <2>2. x \in Range(sql)
    BY <1>4 DEF Range
  <2>3. /\ OpenRelations(g) /\ Sound(g, w) /\ Fits(x, w) /\ KeepsOpen(x)
        /\ DefinesColumn(x) => x.on \in DOMAIN g.tables
    BY <1>3, <1>6, <1>8, <2>0, <2>2
  <2>. HIDE DEF g, x
  <2>4. OpenRelations(f[k])
    BY <2>1, <2>3, StepOpen DEF Sound
  <2>. QED
    BY <2>0, <2>4
<1>. HIDE DEF S
<1>9. \A k \in 0 .. n : k \in S
  BY <1>4, <1>7, <1>8, Reaches
<1>10. n \in S
  BY <1>4, <1>9
<1>. QED
  BY <1>5, <1>10 DEF S
---------------------------------------------------------------------------
(* What the database holds in full of the declared schema has no           *)
(* difference from it.                                                     *)
LEMMA SameElements ==
    ASSUME NEW c, NEW w, Elements(c) = Elements(w)
    PROVE  /\ \A k, t : HasTable(c, k, t) <=> HasTable(w, k, t)
           /\ \A t, n, y : HasField(c, t, n, y) <=> HasField(w, t, n, y)
           /\ \A t, n : HasIndex(c, t, n) <=> HasIndex(w, t, n)
           /\ \A t, n : HasEvent(c, t, n) <=> HasEvent(w, t, n)
           /\ \A b, a, x : HasAttribute(c, b, a, x) <=> HasAttribute(w, b, a, x)
BY TableElement, FieldElement, IndexElement, EventElement, BucketElement

LEMMA NoColumnDiffs ==
    ASSUME NEW s, Declarable(s), NEW c, Sound(c, CatalogOf(s)), Legible(c),
           Elements(c) = Elements(CatalogOf(s)),
           NEW t \in DOMAIN CatalogOf(s).tables, t \in DOMAIN c.tables,
           NEW current, current = ParseTableInfo(c.tables[t]),
           NEW target, target = AllTables(s)[t]
    PROVE  ColumnDiffs(t, current, target) = {}
<1>. DEFINE w == CatalogOf(s)
            table == c.tables[t]
<1>1. /\ DOMAIN current.fields = DOMAIN table.fields \ DOMAIN Endpoints(table.mode)
      /\ \A n \in DOMAIN current.fields :
            current.fields[n] = ParseField(table.fields[n])
      /\ current.indexes = table.indexes /\ current.events = table.events
  BY TableInfoValue
<1>2. \A n \in DOMAIN target.fields : n \notin DOMAIN Endpoints(target.mode)
  <2>1. t \in DOMAIN AllTables(s)
    BY DEF CatalogOf
  <2>. QED
    BY <2>1, CatalogTables
<1>3. table.mode = "RELATION" <=> target.mode = "RELATION"
  <2>1. SortOf(table) = SortOf(w.tables[t])
    BY DEF Sound, Alike
  <2>2. w.tables[t].mode = target.mode
    BY DeclaredColumns
  <2>. QED
    BY <2>1, <2>2 DEF SortOf
<1>4. DOMAIN Endpoints(table.mode) = DOMAIN Endpoints(target.mode)
  BY <1>3, EndpointsAt DEF Endpoints
<1>5. /\ \A n \in DOMAIN target.fields :
                HasField(c, t, n, FieldTypeToSql(target.fields[n]))
      /\ \A n, y : HasField(c, t, n, y) =>
                \/ n \in DOMAIN Endpoints(target.mode)
                \/ /\ n \in DOMAIN target.fields
                   /\ FieldTypeToSql(target.fields[n]) = y
      /\ \A n : HasIndex(c, t, n) <=> n \in DOMAIN target.indexes
      /\ \A n : HasEvent(c, t, n) <=> n \in DOMAIN target.events
  <2>1. /\ \A n, y : HasField(c, t, n, y) <=> HasField(w, t, n, y)
        /\ \A n : HasIndex(c, t, n) <=> HasIndex(w, t, n)
        /\ \A n : HasEvent(c, t, n) <=> HasEvent(w, t, n)
    BY SameElements
  <2>2. /\ \A n \in DOMAIN target.fields :
                HasField(w, t, n, FieldTypeToSql(target.fields[n]))
        /\ \A n, y : HasField(w, t, n, y) =>
                \/ n \in DOMAIN Endpoints(target.mode)
                \/ /\ n \in DOMAIN target.fields
                   /\ FieldTypeToSql(target.fields[n]) = y
        /\ \A n : HasIndex(w, t, n) <=> n \in DOMAIN target.indexes
        /\ \A n : HasEvent(w, t, n) <=> n \in DOMAIN target.events
    BY DeclaredColumns
  <2>. HIDE DEF w
  <2>. QED
    BY <2>1, <2>2
<1>. HIDE DEF w
<1>6. /\ \A n \in DOMAIN table.fields : HasField(c, t, n, table.fields[n].type)
      /\ \A n, y : HasField(c, t, n, y) =>
            n \in DOMAIN table.fields /\ table.fields[n].type = y
      /\ \A n : HasIndex(c, t, n) <=> n \in DOMAIN table.indexes
      /\ \A n : HasEvent(c, t, n) <=> n \in DOMAIN table.events
  BY DEF HasField, HasIndex, HasEvent
<1>. HIDE DEF table
<1>7. DOMAIN current.fields = DOMAIN target.fields
  <2>1. ASSUME NEW n \in DOMAIN current.fields
        PROVE  n \in DOMAIN target.fields
    BY <1>1, <1>4, <1>5, <1>6
  <2>2. ASSUME NEW n \in DOMAIN target.fields
        PROVE  n \in DOMAIN current.fields
    <3>1. n \in DOMAIN table.fields
      BY <1>5, <1>6
    <3>. QED
      BY <1>1, <1>2, <1>4, <3>1
  <2>. QED
    BY <2>1, <2>2
<1>8. ASSUME NEW n \in DOMAIN current.fields
      PROVE  FieldTypeToSql(current.fields[n]) = FieldTypeToSql(target.fields[n])
  <2>1. n \in DOMAIN table.fields /\ current.fields[n] = ParseField(table.fields[n])
    BY <1>1
  <2>2. HasField(c, t, n, table.fields[n].type)
    BY <1>6, <2>1
  <2>3. FieldTypeToSql(ParseField(table.fields[n])) = table.fields[n].type
    BY <2>2, ParsedType DEF Legible
  <2>4. HasField(c, t, n, FieldTypeToSql(target.fields[n]))
    BY <1>5, <1>7
  <2>5. table.fields[n].type = FieldTypeToSql(target.fields[n])
    BY <1>6, <2>4
  <2>. QED
    BY <2>1, <2>3, <2>5
<1>9. /\ Added(current.fields, target.fields) = {}
      /\ Dropped(current.fields, target.fields) = {}
      /\ Retyped(current.fields, target.fields) = {}
  BY <1>7, <1>8 DEF Added, Dropped, Retyped, Kept
<1>10. /\ \A n : n \in DOMAIN current.indexes <=> n \in DOMAIN target.indexes
       /\ \A n : n \in DOMAIN current.events <=> n \in DOMAIN target.events
  BY <1>1, <1>5, <1>6
<1>11. /\ Added(current.indexes, target.indexes) = {}
       /\ Dropped(current.indexes, target.indexes) = {}
       /\ Added(current.events, target.events) = {}
       /\ Dropped(current.events, target.events) = {}
  BY <1>10 DEF Added, Dropped
<1>12. FieldDiffs(t, current.fields, target.fields) = {}
  BY <1>9 DEF FieldDiffs
<1>13. IndexDiffs(t, current.indexes, target.indexes) = {}
  BY <1>11 DEF IndexDiffs
<1>14. EventDiffs(t, current.events, target.events) = {}
  BY <1>11 DEF EventDiffs
<1>. QED
  BY <1>12, <1>13, <1>14 DEF ColumnDiffs

LEMMA NoTableDiffs ==
    ASSUME NEW current, NEW target, DOMAIN current = DOMAIN target,
           \A t \in DOMAIN target : ColumnDiffs(t, current[t], target[t]) = {}
    PROVE  TableDiffs(current, target) = {}
<1>1. Added(current, target) = {} /\ Dropped(current, target) = {}
  BY DEF Added, Dropped
<1>2. KeptDiffs(current, target) = {}
  BY DEF KeptDiffs, Kept
<1>. QED
  BY <1>1, <1>2 DEF TableDiffs

LEMMA NoBucketDiffs ==
    ASSUME NEW s, Declarable(s), NEW c, Shaped(c),
           Elements(c) = Elements(CatalogOf(s)),
           OpenBuckets(s)
    PROVE  BucketDiffs(ParseDbInfo(c).buckets, s.buckets) = {}
<1>. DEFINE v == ParseDbInfo(c).buckets
            w == CatalogOf(s)
<1>1. w.buckets = s.buckets
  BY DEF CatalogOf
<1>2. /\ DOMAIN v = DOMAIN c.buckets
      /\ \A b \in DOMAIN c.buckets : \A a \in Attributes :
            v[b][a] = c.buckets[b][a]
  BY ParsedBuckets DEF ParseDbInfo
<1>3. \A b, a, x : HasAttribute(c, b, a, x) <=> HasAttribute(w, b, a, x)
  BY SameElements
<1>. HIDE DEF v, w
<1>4. DOMAIN v = DOMAIN s.buckets
  <2>1. ASSUME NEW b \in DOMAIN c.buckets
        PROVE  b \in DOMAIN s.buckets
    <3>1. HasAttribute(c, b, "backend", c.buckets[b]["backend"])
      BY DEF HasAttribute, Attributes
    <3>2. HasAttribute(w, b, "backend", c.buckets[b]["backend"])
      BY <1>3, <3>1
    <3>. QED
      BY <1>1, <3>2 DEF HasAttribute
  <2>2. ASSUME NEW b \in DOMAIN s.buckets
        PROVE  b \in DOMAIN c.buckets
    <3>1. HasAttribute(w, b, "backend", w.buckets[b]["backend"])
      BY <1>1 DEF HasAttribute, Attributes
    <3>2. HasAttribute(c, b, "backend", w.buckets[b]["backend"])
      BY <1>3, <3>1
    <3>. QED
      BY <3>2 DEF HasAttribute
  <2>. QED
    BY <1>2, <2>1, <2>2
<1>5. ASSUME NEW b \in DOMAIN s.buckets, NEW a \in Attributes
      PROVE  v[b][a] = s.buckets[b][a]
  <2>1. HasAttribute(w, b, a, s.buckets[b][a])
    BY <1>1 DEF HasAttribute
  <2>2. HasAttribute(c, b, a, s.buckets[b][a])
    BY <1>3, <2>1
  <2>. QED
    BY <1>2, <1>4, <2>2 DEF HasAttribute
<1>6. ASSUME NEW b \in DOMAIN s.buckets
      PROVE  AlteredAttributes(v[b], s.buckets[b]) = {}
  BY <1>5 DEF AlteredAttributes, Attributes, OpenBuckets
<1>7. /\ Added(v, s.buckets) = {} /\ Dropped(v, s.buckets) = {}
      /\ Changed(v, s.buckets) = {}
  BY <1>4, <1>6 DEF Added, Dropped, Changed, Kept
<1>. QED
  BY <1>7 DEF BucketDiffs, v

(* What an instance would read of c if nothing moved meanwhile.            *)
LiveOf(c) ==
    LET names == ParseDbInfo(c)
        Info(tables) == [t \in DOMAIN tables |-> ParseTableInfo(c.tables[t])]
    IN  [names EXCEPT !.tables = Info(@), !.edges = Info(@)]

LEMMA LiveValue ==
    ASSUME NEW c, NEW v, v = LiveOf(c)
    PROVE  /\ v = [tables |-> v.tables, edges |-> v.edges, buckets |-> v.buckets]
           /\ DOMAIN v.tables = DOMAIN c.tables \ Relations(c)
           /\ DOMAIN v.edges = Relations(c)
           /\ \A t \in DOMAIN v.tables : v.tables[t] = ParseTableInfo(c.tables[t])
           /\ \A t \in DOMAIN v.edges : v.edges[t] = ParseTableInfo(c.tables[t])
           /\ v.buckets = ParseDbInfo(c).buckets
<1>1. v = [tables  |-> [t \in DOMAIN c.tables \ Relations(c) |->
                            ParseTableInfo(c.tables[t])],
           edges   |-> [t \in Relations(c) |-> ParseTableInfo(c.tables[t])],
           buckets |-> ParseDbInfo(c).buckets]
  BY DEF LiveOf, ParseDbInfo
<1>. QED
  BY <1>1

LEMMA LiveSane ==
    ASSUME NEW s, Declarable(s), NEW c, Sound(c, CatalogOf(s)),
           NEW v, v = LiveOf(c)
    PROVE  Sane(v, c, s)
<1>. DEFINE z == ParseDbInfo(c)
<1>1. /\ v = [tables |-> v.tables, edges |-> v.edges, buckets |-> v.buckets]
      /\ DOMAIN v.tables = DOMAIN c.tables \ Relations(c)
      /\ DOMAIN v.edges = Relations(c)
      /\ \A t \in DOMAIN v.tables : v.tables[t] = ParseTableInfo(c.tables[t])
      /\ \A t \in DOMAIN v.edges : v.edges[t] = ParseTableInfo(c.tables[t])
      /\ v.buckets = z.buckets
  BY LiveValue
<1>2. /\ Sane(z, c, s)
      /\ DOMAIN z.tables = DOMAIN v.tables /\ DOMAIN z.edges = DOMAIN v.edges
  BY <1>1, DbInfoSane DEF ParseDbInfo
<1>. HIDE DEF z
<1>3. Relations(c) \subseteq DOMAIN c.tables
  BY DEF Relations
<1>4. ASSUME NEW t \in DOMAIN c.tables
      PROVE  Finite(ParseTableInfo(c.tables[t]))
  <2>. DEFINE table == c.tables[t]
              info == ParseTableInfo(table)
  <2>1. /\ IsFiniteSet(DOMAIN table.fields) /\ IsFiniteSet(DOMAIN table.indexes)
        /\ IsFiniteSet(DOMAIN table.events)
    BY DEF Sound, Shaped, ColumnKinds
  <2>2. /\ DOMAIN info.fields = DOMAIN table.fields \ DOMAIN Endpoints(table.mode)
        /\ info.indexes = table.indexes /\ info.events = table.events
    BY TableInfoValue
  <2>. HIDE DEF table, info
  <2>3. Finite(info)
    BY <2>1, <2>2, FS_Subset DEF Finite
  <2>. QED
    BY <2>3 DEF info, table
<1>5. AllFinite(v.tables) /\ AllFinite(v.edges)
  <2>1. IsFiniteSet(DOMAIN v.tables) /\ IsFiniteSet(DOMAIN v.edges)
    BY <1>2 DEF Sane, AllFinite
  <2>. QED
    BY <1>1, <1>3, <1>4, <2>1 DEF AllFinite
<1>6. ASSUME NEW e \in DOMAIN v.edges
      PROVE  DOMAIN v.edges[e].fields \cap Ends = {}
  <2>1. c.tables[e].mode = "RELATION"
    BY <1>1 DEF Relations
  <2>2. DOMAIN v.edges[e].fields =
            DOMAIN c.tables[e].fields \ DOMAIN Endpoints(c.tables[e].mode)
    BY <1>1, TableInfoValue
  <2>. QED
    BY <2>1, <2>2, EndpointsAt
<1>. QED
  BY <1>1, <1>2, <1>5, <1>6 DEF Sane

LEMMA NoRuleParsed == ParsePermissions(NoRule) = NoRule
<1>. DEFINE r == NoRule
            q == [r EXCEPT !.where = FALSE]
<1>1. DOMAIN r = {"where", "rule"} /\ r = [x \in {"where", "rule"} |-> r[x]]
  BY DEF NoRule
<1>2. r["where"] = FALSE
  BY DEF NoRule
<1>. HIDE DEF r
<1>3. q = [x \in {"where", "rule"} |-> r[x]]
  BY <1>1, <1>2, Zenon
<1>. QED
  BY <1>1, <1>3 DEF ParsePermissions, r

LEMMA NoDifference ==
    ASSUME NEW s, Declarable(s), OpenEdges(s),
           OpenBuckets(s),
           NEW c, Sound(c, CatalogOf(s)), Legible(c), OpenRelations(c),
           Elements(c) = Elements(CatalogOf(s))
    PROVE  DiffSchemas(LiveOf(c), s) = <<>>
<1>. DEFINE v == LiveOf(c)
            w == CatalogOf(s)
<1>1. /\ DOMAIN v.tables = DOMAIN c.tables \ Relations(c)
      /\ DOMAIN v.edges = Relations(c)
      /\ \A t \in DOMAIN v.tables : v.tables[t] = ParseTableInfo(c.tables[t])
      /\ \A t \in DOMAIN v.edges : v.edges[t] = ParseTableInfo(c.tables[t])
      /\ v.buckets = ParseDbInfo(c).buckets
  BY LiveValue
<1>2. Sane(v, c, s)
  BY LiveSane
<1>. HIDE DEF v
<1>3. /\ DOMAIN w.tables = DOMAIN s.tables \cup DOMAIN s.edges
      /\ \A t \in DOMAIN s.tables : SortOf(w.tables[t]) = "table"
      /\ \A e \in DOMAIN s.edges : SortOf(w.tables[e]) = "edge"
  BY DeclaredTables
<1>4. \A k, t : HasTable(c, k, t) <=> HasTable(w, k, t)
  BY SameElements
<1>5. \A t : t \in DOMAIN s.tables \cup DOMAIN s.edges => t \in DOMAIN c.tables
  BY <1>3, <1>4 DEF HasTable
<1>6. DOMAIN v.tables = DOMAIN s.tables
  <2>1. \A t : t \in DOMAIN v.tables <=> HasTable(c, "table", t)
    BY <1>1 DEF Relations, HasTable, SortOf
  <2>2. \A t : t \in DOMAIN s.tables <=> HasTable(w, "table", t)
    BY <1>3 DEF HasTable
  <2>. HIDE DEF w
  <2>. QED
    BY <1>4, <2>1, <2>2
<1>7. DOMAIN v.edges = DOMAIN s.edges
  <2>1. \A t : t \in DOMAIN v.edges <=> HasTable(c, "edge", t)
    BY <1>1 DEF Relations, HasTable, SortOf
  <2>2. \A t : t \in DOMAIN s.edges <=> HasTable(w, "edge", t)
    BY <1>3 DEF HasTable
  <2>. HIDE DEF w
  <2>. QED
    BY <1>4, <2>1, <2>2
<1>8. ASSUME NEW t \in DOMAIN s.tables \cup DOMAIN s.edges
      PROVE  ColumnDiffs(t, ParseTableInfo(c.tables[t]), AllTables(s)[t]) = {}
  BY <1>3, <1>5, NoColumnDiffs
<1>9. TableDiffs(v.tables, s.tables) = {}
  <2>1. ASSUME NEW t \in DOMAIN s.tables
        PROVE  ColumnDiffs(t, v.tables[t], s.tables[t]) = {}
    BY <1>1, <1>6, <1>8, DeclarableTables
  <2>. QED
    BY <1>6, <2>1, NoTableDiffs
<1>10. TableDiffs(v.edges, s.edges) = {}
  <2>1. ASSUME NEW t \in DOMAIN s.edges
        PROVE  ColumnDiffs(t, v.edges[t], s.edges[t]) = {}
    BY <1>1, <1>7, <1>8, DeclarableTables
  <2>. QED
    BY <1>7, <2>1, NoTableDiffs
<1>11. ASSUME NEW e \in Kept(v.edges, s.edges)
       PROVE  v.edges[e].rule = s.edges[e].rule
  <2>1. e \in DOMAIN v.edges /\ e \in DOMAIN s.edges
    BY DEF Kept
  <2>2. c.tables[e].rule = NoRule
    BY <1>1, <2>1 DEF Relations, OpenRelations
  <2>3. v.edges[e].rule = ParsePermissions(NoRule)
    BY <1>1, <2>1, <2>2, TableInfoValue
  <2>4. ParsePermissions(NoRule) = NoRule
    BY NoRuleParsed
  <2>. QED
    BY <2>1, <2>3, <2>4 DEF OpenEdges
<1>12. EdgeDiffs(v.edges, s.edges) = {}
  BY <1>10, <1>11 DEF EdgeDiffs
<1>13. BucketDiffs(v.buckets, s.buckets) = {}
  BY <1>1, NoBucketDiffs DEF Sound
<1>14. SchemaDiffs(v, s) = {}
  BY <1>9, <1>12, <1>13 DEF SchemaDiffs
<1>. DEFINE q == DiffSchemas(v, s)
<1>15. IsScript(q) /\ Range(q) = {}
  BY <1>2, <1>14, DiffsReady
<1>. HIDE DEF q
<1>16. Len(q) = 0
  <2>1. Len(q) \in Nat /\ DOMAIN q = 1 .. Len(q)
    BY <1>15, LenProperties DEF IsScript
  <2>2. DOMAIN q = {}
    BY <1>15 DEF Range
  <2>. QED
    BY <2>1, <2>2
<1>17. q = <<>>
  BY <1>15, <1>16, EmptySeq DEF IsScript
<1>. QED
  BY <1>17 DEF q, v

---------------------------------------------------------------------------
(* The scripts of the instances leave the relations as they are.           *)
LEMMA UpKeepsOpen ==
    ASSUME NEW s, Declarable(s), OpenEdges(s), NEW c, NEW v, Sane(v, c, s),
           NEW x \in Range(UpSql(DiffSchemas(v, s)))
    PROVE  KeepsOpen(x)
<1>1. PICK d \in SchemaDiffs(v, s) : x \in Range(d.sql)
  BY DiffsReady
<1>2. ASSUME NEW t \in DOMAIN AllTables(s), d = AddTable(t, AllTables(s)[t])
      PROVE  KeepsOpen(x)
  <2>1. d.sql = GenerateTableSql(t, AllTables(s)[t])
    BY <1>2 DEF AddTable, Difference
  <2>2. Finite(AllTables(s)[t])
    BY DeclarableTables
  <2>3. x \in TableStatements(t, AllTables(s)[t])
    BY <1>1, <2>1, <2>2, TableScript
  <2>. QED
    BY <2>3, TableKeepsOpen
<1>3. ASSUME NEW y, d.sql = <<y>>, y.verb # "DEFINE" \/ y.kind # "tables"
      PROVE  KeepsOpen(x)
  <2>1. x = y
    BY <1>1, <1>3, SingleScript
  <2>. QED
    BY <1>3, <2>1 DEF KeepsOpen
<1>4. d.sql = <<>> => KeepsOpen(x)
  BY <1>1, EmptyScript
<1>5. ASSUME NEW t, NEW current, NEW target, d \in ColumnDiffs(t, current, target)
      PROVE  KeepsOpen(x)
  <2>1. CASE d \in FieldDiffs(t, current.fields, target.fields)
    <3>1. CASE \E n \in Added(current.fields, target.fields) :
                    d = AddField(t, n, target.fields[n])
      BY <1>3, <3>1, DefineIsPlain DEF AddField, Difference, DefineType
    <3>2. CASE \E n : d = DropColumn("DROP_FIELD", "fields", t, n)
      BY <1>3, <3>2, DropIsPlain DEF DropColumn, Difference
    <3>3. CASE \E n \in Retyped(current.fields, target.fields) :
                    d = ModifyField(t, n, target.fields[n])
      BY <1>3, <3>3, DefineIsPlain DEF ModifyField, Difference, DefineType
    <3>. QED
      BY <2>1, <3>1, <3>2, <3>3 DEF FieldDiffs
  <2>2. CASE d \in IndexDiffs(t, current.indexes, target.indexes)
    <3>1. CASE \E n : d = AddIndex(t, n, target.indexes[n])
      BY <1>3, <3>1, DefineIsPlain DEF AddIndex, Difference
    <3>2. CASE \E n : d = DropColumn("DROP_INDEX", "indexes", t, n)
      BY <1>3, <3>2, DropIsPlain DEF DropColumn, Difference
    <3>. QED
      BY <2>2, <3>1, <3>2 DEF IndexDiffs
  <2>3. CASE d \in EventDiffs(t, current.events, target.events)
    <3>1. CASE \E n : d = AddEvent(t, n)
      BY <1>4, <3>1 DEF AddEvent, Difference
    <3>2. CASE \E n : d = DropColumn("DROP_EVENT", "events", t, n)
      BY <1>3, <3>2, DropIsPlain DEF DropColumn, Difference
    <3>. QED
      BY <2>3, <3>1, <3>2 DEF EventDiffs
  <2>. QED
    BY <1>5, <2>1, <2>2, <2>3 DEF ColumnDiffs
<1>6. ASSUME NEW current, NEW target, d \in TableDiffs(current, target),
             \A t \in DOMAIN target :
                t \in DOMAIN AllTables(s) /\ AllTables(s)[t] = target[t]
      PROVE  KeepsOpen(x)
  <2>1. CASE \E t \in Added(current, target) : d = AddTable(t, target[t])
    BY <1>2, <1>6, <2>1 DEF Added
  <2>2. CASE \E t : d = DropTable(t)
    BY <1>3, <2>2, DropIsPlain DEF DropTable, Difference
  <2>3. CASE d \in KeptDiffs(current, target)
    BY <1>5, <2>3 DEF KeptDiffs
  <2>. QED
    BY <1>6, <2>1, <2>2, <2>3 DEF TableDiffs
<1>7. CASE d \in TableDiffs(v.tables, s.tables)
  BY <1>6, <1>7, DeclarableTables
<1>8. CASE d \in EdgeDiffs(v.edges, s.edges)
  <2>1. CASE d \in TableDiffs(v.edges, s.edges)
    BY <1>6, <2>1, DeclarableTables
  <2>2. CASE \E e : d = ModifyPermissions(e)
    BY <1>4, <2>2 DEF ModifyPermissions, Difference
  <2>. QED
    BY <1>8, <2>1, <2>2 DEF EdgeDiffs
<1>9. CASE d \in BucketDiffs(v.buckets, s.buckets)
  <2>1. CASE \E b : d = AddBucket(b, s.buckets[b])
    BY <1>3, <2>1, DefineIsPlain DEF AddBucket, GenerateBucketSql, Difference
  <2>2. CASE \E b : d = DropBucket(b)
    BY <1>3, <2>2, DropIsPlain DEF DropBucket, Difference
  <2>3. CASE \E b : d = ModifyBucket(b, v.buckets[b], s.buckets[b])
    BY <1>3, <2>3, AlterIsPlain DEF ModifyBucket, Difference
  <2>. QED
    BY <1>9, <2>1, <2>2, <2>3 DEF BucketDiffs
<1>. QED
  BY <1>1, <1>7, <1>8, <1>9 DEF SchemaDiffs

LEMMA TailInScript ==
    ASSUME NEW q, IsScript(q), q # <<>>
    PROVE  Head(q) \in Range(q) /\ Range(Tail(q)) \subseteq Range(q)
<1>. DEFINE X == Range(q)
            n == Len(q)
<1>1. q \in Seq(X)
  BY DEF IsScript
<1>. HIDE DEF X
<1>2. /\ n \in Nat /\ n # 0 /\ DOMAIN q = 1 .. n
      /\ Head(q) = q[1] /\ 1 \in DOMAIN q
      /\ DOMAIN Tail(q) = 1 .. n - 1
      /\ \A k \in 1 .. n - 1 : Tail(q)[k] = q[k + 1]
  BY <1>1, HeadTailProperties, EmptySeq, LenProperties
<1>. HIDE DEF n
<1>3. \A k \in 1 .. n - 1 : k + 1 \in 1 .. n
  BY <1>2
<1>. QED
  BY <1>2, <1>3 DEF Range

(* The third part of the invariant, for schemas that state no PERMISSIONS  *)
(* where the differ compares them.                                         *)
Open ==
    /\ OpenEdges(code)
    /\ OpenBuckets(code)
    /\ OpenRelations(catalog)
    /\ \A i \in Instances : \A x \in Range(todo[i]) : KeepsOpen(x)

LEMMA InitOpen ==
    ASSUME OpenCases, Init
    PROVE  Open
<1>1. PICK x \in Cases :
        /\ catalog = Run(GenerateSchemaSql(x[1]), EmptyCatalog, strict)
        /\ code = x[2]
  BY DEF Init
<1>2. Declarable(x[1]) /\ OpenEdges(x[1]) /\ OpenEdges(code) /\ OpenBuckets(code)
  BY <1>1, ReconcilerAssumption DEF OpenCases
<1>3. OpenRelations(catalog)
  BY <1>1, <1>2, GeneratedOpen
<1>4. \A i \in Instances : Range(todo[i]) = {}
  BY EmptyScript DEF Init
<1>. QED
  BY <1>2, <1>3, <1>4 DEF Open

LEMMA StepOpens ==
    ASSUME IInv, Open, [Next]_vars
    PROVE  Open'
<1>1. ASSUME UNCHANGED <<catalog, code, todo>>
      PROVE  Open'
  BY <1>1 DEF Open
<1>2. ASSUME NEW i \in Instances, NEW q, UNCHANGED <<catalog, code>>,
             todo' = [todo EXCEPT ![i] = q], \A x \in Range(q) : KeepsOpen(x)
      PROVE  Open'
  <2>1. \A j \in Instances : todo'[j] = IF j = i THEN q ELSE todo[j]
    BY <1>2 DEF IInv, Typed
  <2>2. ASSUME NEW j \in Instances, NEW x \in Range(todo'[j])
        PROVE  KeepsOpen(x)
    <3>1. CASE j = i
      <4>1. x \in Range(q)
        BY <2>1, <2>2, <3>1
      <4>. QED
        BY <1>2, <4>1
    <3>2. CASE j # i
      <4>1. x \in Range(todo[j])
        BY <2>1, <2>2, <3>2
      <4>. QED
        BY <4>1 DEF Open
    <3>. QED
      BY <3>1, <3>2
  <2>. QED
    BY <1>2, <2>2 DEF Open
<1>3. ASSUME NEW i \in Instances, FetchDbInfo(i)
      PROVE  Open'
  BY <1>1, <1>3 DEF FetchDbInfo, server, script
<1>4. ASSUME NEW i \in Instances, NEW t \in unread[i], FetchTableInfo(i, t)
      PROVE  Open'
  BY <1>1, <1>4 DEF FetchTableInfo, server, script
<1>5. ASSUME NEW i \in Instances, Generate(i)
      PROVE  Open'
  <2>. DEFINE q == UpSql(DiffSchemas(seen[i], code))
  <2>1. UNCHANGED <<catalog, code>> /\ todo' = [todo EXCEPT ![i] = q]
    BY <1>5 DEF Generate, server
  <2>2. \A x \in Range(q) : KeepsOpen(x)
    BY UpKeepsOpen DEF Open, IInv, Consistent
  <2>. HIDE DEF q
  <2>. QED
    BY <1>2, <2>1, <2>2
<1>6. ASSUME NEW i \in Instances, QueryReply(i)
      PROVE  Open'
  BY <1>1, <1>6 DEF QueryReply, server
<1>7. ASSUME NEW i \in Instances, Crash(i)
      PROVE  Open'
  <2>1. UNCHANGED <<catalog, code>> /\ todo' = [todo EXCEPT ![i] = <<>>]
    BY <1>7 DEF Crash, server
  <2>. QED
    BY <1>2, <2>1, EmptyScript
<1>8. ASSUME NEW i \in Instances, ExecuteStatement(i)
      PROVE  Open'
  <2>. DEFINE s == Head(todo[i])
              q == Tail(todo[i])
  <2>1. /\ catalog' = Step(s, catalog, strict) /\ todo[i] # <<>>
        /\ todo' = [todo EXCEPT ![i] = q] /\ code' = code
    BY <1>8, ExecuteIsStep
  <2>2. Ready(todo[i], catalog, Target) /\ Shaped(catalog)
    BY DEF IInv, Consistent, Sound
  <2>3. s \in Range(todo[i]) /\ Range(q) \subseteq Range(todo[i])
    BY <2>1, <2>2, TailInScript DEF Ready
  <2>4. Fits(s, Target) /\ (DefinesColumn(s) => s.on \in DOMAIN catalog.tables)
    <3>1. Fits(s, Target)
      BY <2>1, <2>2, HeadIsFirst
    <3>2. DefinesColumn(s) => s.on \in DOMAIN catalog.tables
      BY <2>1, <2>2, HeadIsFirst
    <3>. QED
      BY <3>1, <3>2
  <2>. HIDE DEF s, q
  <2>5. \A x \in Range(todo[i]) : KeepsOpen(x)
    BY DEF Open
  <2>6. OpenRelations(catalog')
    BY <2>1, <2>2, <2>3, <2>4, <2>5, StepOpen DEF Open
  <2>7. \A j \in Instances : todo'[j] = IF j = i THEN q ELSE todo[j]
    BY <2>1 DEF IInv, Typed
  <2>8. ASSUME NEW j \in Instances, NEW x \in Range(todo'[j])
        PROVE  KeepsOpen(x)
    <3>1. x \in Range(todo[j])
      BY <2>3, <2>7, <2>8
    <3>. QED
      BY <3>1 DEF Open
  <2>. QED
    BY <2>1, <2>6, <2>8 DEF Open
<1>9. UNCHANGED vars => Open'
  BY <1>1 DEF vars, server, script
<1>. QED
  BY <1>3, <1>4, <1>5, <1>6, <1>7, <1>8, <1>9 DEF Next, Progress

(* A live schema that has all the code declares, and nothing else, yields  *)
(* no difference, for schemas that are read back as they were written and  *)
(* that state no PERMISSIONS where the differ compares them.               *)
THEOREM NoSpuriousDriftHolds ==
    ASSUME ReadableCases, OpenCases
    PROVE  Spec => []NoSpuriousDrift
<1>1. Init => IInv /\ Effective /\ Open
  BY InitConsistent, InitEffective, InitOpen
<1>2. (IInv /\ Effective /\ Open) /\ [Next]_vars => (IInv /\ Effective /\ Open)'
  BY StepConsistent, StepEffective, StepOpens
<1>3. IInv /\ Effective /\ Open => NoSpuriousDrift
  <2>. SUFFICES ASSUME IInv, Effective, Open, Elements(catalog) = wanted
                PROVE  DiffSchemas(Live, code) = <<>>
    BY DEF NoSpuriousDrift
  <2>1. Live = LiveOf(catalog)
    BY DEF Live, LiveOf
  <2>2. /\ Declarable(code) /\ Sound(catalog, CatalogOf(code))
        /\ Elements(catalog) = Elements(CatalogOf(code))
    BY DEF IInv, Consistent, Target
  <2>3. Legible(catalog) /\ OpenEdges(code) /\ OpenBuckets(code)
        /\ OpenRelations(catalog)
    BY DEF Effective, Open
  <2>. QED
    BY <2>1, <2>2, <2>3, NoDifference
<1>. QED
  BY <1>1, <1>2, <1>3, PTL DEF Spec


---------------------------------------------------------------------------
(* A statement that is about no table and no field of c leaves them alone. *)
Spares(s, c) ==
    /\ s.kind = "tables" => s.name \notin DOMAIN c.tables
    /\ s.kind = "fields" /\ s.on \in DOMAIN c.tables =>
            s.name \notin DOMAIN c.tables[s.on].fields

KeepsTable(a, b) ==
    /\ b.mode = a.mode
    /\ \A n \in DOMAIN a.fields : n \in DOMAIN b.fields /\ b.fields[n] = a.fields[n]

Keeps(c, d) ==
    \A t \in DOMAIN c.tables :
        t \in DOMAIN d.tables /\ KeepsTable(c.tables[t], d.tables[t])

LEMMA OneTableKeeps ==
    ASSUME NEW c, NEW d, NEW z, Keeps(c, d), NEW u,
           DOMAIN z.tables = DOMAIN d.tables,
           \A t \in DOMAIN d.tables : t # u => z.tables[t] = d.tables[t],
           u \in DOMAIN c.tables => KeepsTable(c.tables[u], z.tables[u])
    PROVE  Keeps(c, z)
BY DEF Keeps

LEMMA PutKeeps ==
    ASSUME NEW f, NEW x, NEW y, NEW g, g = Put(f, x, y), NEW n \in DOMAIN f, n # x
    PROVE  n \in DOMAIN g /\ g[n] = f[n]
BY DEF Put, Over

LEMMA WithoutKeeps ==
    ASSUME NEW f, NEW x, NEW g, g = Without(f, x), NEW n \in DOMAIN f, n # x
    PROVE  n \in DOMAIN g /\ g[n] = f[n]
BY WithoutValue

LEMMA StepSpares ==
    ASSUME NEW c, NEW d, Shaped(d), Keeps(c, d), NEW w, NEW s, Fits(s, w),
           Spares(s, c), DefinesColumn(s) => s.on \in DOMAIN d.tables,
           NEW st, NEW z, z = Step(s, d, st)
    PROVE  Keeps(c, z)
<1>1. CASE z = d
  BY <1>1
<1>2. CASE z # d
  <2>0. ~Refused(s, d, st) /\ z = Execute(s, d)
    BY <1>2 DEF Step
  <2>1. CASE s.verb = "DEFINE" /\ s.kind = "tables"
    <3>1. /\ DOMAIN z.tables = DOMAIN d.tables \cup {s.name}
          /\ \A u \in DOMAIN d.tables : u # s.name => z.tables[u] = d.tables[u]
      BY <2>0, <2>1, TableDefined
    <3>2. s.name \notin DOMAIN c.tables
      BY <2>1 DEF Spares
    <3>. QED
      BY <3>1, <3>2 DEF Keeps
  <2>2. CASE s.verb = "DEFINE" /\ s.kind \in ColumnKinds
    <3>0. s.on \in DOMAIN d.tables
      BY <2>2 DEF DefinesColumn, ColumnKinds, TopLevel
    <3>. DEFINE a == d.tables[s.on]
                b == z.tables[s.on]
    <3>1. /\ DOMAIN z.tables = DOMAIN d.tables
          /\ \A u \in DOMAIN d.tables : u # s.on => z.tables[u] = d.tables[u]
          /\ \A p \in TableParts \ {s.kind} : b[p] = a[p]
          /\ b[s.kind] = Put(a[s.kind], s.name, s.def)
      BY <2>0, <2>2, <3>0, ColumnDefined
    <3>. HIDE DEF a, b
    <3>2. b.mode = a.mode
      BY <2>2, <3>1 DEF TableParts, ColumnKinds
    <3>3. ASSUME NEW n \in DOMAIN a.fields, s.kind = "fields" => n # s.name
          PROVE  n \in DOMAIN b.fields /\ b.fields[n] = a.fields[n]
      <4>1. CASE s.kind = "fields"
        <5>1. b.fields = Put(a.fields, s.name, s.def)
          BY <3>1, <4>1
        <5>. QED
          BY <3>3, <4>1, <5>1, PutKeeps
      <4>2. CASE s.kind # "fields"
        BY <3>1, <4>2 DEF TableParts, ColumnKinds
      <4>. QED
        BY <4>1, <4>2
    <3>4. ASSUME s.on \in DOMAIN c.tables
          PROVE  KeepsTable(c.tables[s.on], b)
      <4>1. KeepsTable(c.tables[s.on], a)
        BY <3>4 DEF Keeps, a
      <4>2. \A n \in DOMAIN c.tables[s.on].fields : s.kind = "fields" => n # s.name
        BY <3>4 DEF Spares
      <4>. QED
        BY <3>2, <3>3, <4>1, <4>2 DEF KeepsTable
    <3>. QED
      BY <3>1, <3>4, OneTableKeeps DEF b
  <2>3. CASE s.verb = "DEFINE" /\ s.kind = "buckets"
    <3>1. z.tables = d.tables
      BY <2>0, <2>3, BucketDefined
    <3>. QED
      BY <3>1 DEF Keeps
  <2>4. CASE s.verb = "REMOVE"
    <3>0. Execute(s, d) = Removed(s, d)
      BY <2>4 DEF Execute
    <3>1. Exists(s, d)
      BY ONLY <1>2, <2>0, <3>0 DEF Removed
    <3>2. CASE s.kind \in TopLevel
      <4>1. s.name \in DOMAIN d[s.kind]
        BY <3>1, <3>2 DEF Exists
      <4>2. /\ z[s.kind] = Without(d[s.kind], s.name)
            /\ \A k \in TopLevel \ {s.kind} : z[k] = d[k]
        BY <2>0, <2>4, <3>2, <4>1, TopRemoved
      <4>3. CASE s.kind = "tables"
        <5>. DEFINE f == d.tables
                    g == z.tables
                    x == s.name
        <5>1. z["tables"] = Without(d["tables"], s.name)
          BY <4>2, <4>3
        <5>2. g = Without(f, x)
          BY <5>1
        <5>3. x \notin DOMAIN c.tables
          BY <4>3 DEF Spares
        <5>4. \A t \in DOMAIN c.tables :
                t \in DOMAIN f /\ KeepsTable(c.tables[t], f[t])
          BY DEF Keeps
        <5>. HIDE DEF f, g, x
        <5>5. DOMAIN g = DOMAIN f \ {x} /\ \A t \in DOMAIN f : t # x => g[t] = f[t]
          BY <5>2, WithoutValue
        <5>. QED
          BY <5>3, <5>4, <5>5 DEF Keeps, g
      <4>4. CASE s.kind = "buckets"
        <5>1. z["tables"] = d["tables"]
          BY <4>2, <4>4 DEF TopLevel
        <5>2. z.tables = d.tables
          BY <5>1
        <5>. QED
          BY <5>2 DEF Keeps
      <4>. QED
        BY <3>2, <4>3, <4>4 DEF TopLevel
    <3>3. CASE s.kind \in ColumnKinds
      <4>0. /\ s.on \in DOMAIN d.tables
            /\ s.name \in DOMAIN d.tables[s.on][s.kind]
        BY <3>1, <3>3 DEF Exists, TopLevel, ColumnKinds
      <4>. DEFINE a == d.tables[s.on]
                  b == z.tables[s.on]
      <4>1. /\ DOMAIN z.tables = DOMAIN d.tables
            /\ \A u \in DOMAIN d.tables : u # s.on => z.tables[u] = d.tables[u]
            /\ \A p \in TableParts \ {s.kind} : b[p] = a[p]
            /\ b[s.kind] = Without(a[s.kind], s.name)
        BY <2>0, <2>4, <3>3, <4>0, ColumnRemoved
      <4>. HIDE DEF a, b
      <4>2. b.mode = a.mode
        BY <3>3, <4>1 DEF TableParts, ColumnKinds
      <4>3. ASSUME NEW n \in DOMAIN a.fields, s.kind = "fields" => n # s.name
            PROVE  n \in DOMAIN b.fields /\ b.fields[n] = a.fields[n]
        <5>1. CASE s.kind = "fields"
          <6>1. b.fields = Without(a.fields, s.name)
            BY <4>1, <5>1
          <6>. QED
            BY <4>3, <5>1, <6>1, WithoutKeeps
        <5>2. CASE s.kind # "fields"
          BY <4>1, <5>2 DEF TableParts, ColumnKinds
        <5>. QED
          BY <5>1, <5>2
      <4>4. ASSUME s.on \in DOMAIN c.tables
            PROVE  KeepsTable(c.tables[s.on], b)
        <5>1. KeepsTable(c.tables[s.on], a)
          BY <4>4 DEF Keeps, a
        <5>2. \A n \in DOMAIN c.tables[s.on].fields : s.kind = "fields" => n # s.name
          BY <4>4 DEF Spares
        <5>. QED
          BY <4>2, <4>3, <5>1, <5>2 DEF KeepsTable
      <4>. QED
        BY <4>1, <4>4, OneTableKeeps DEF b
    <3>. QED
      BY <2>4, <3>2, <3>3 DEF Fits, TopLevel
  <2>5. CASE s.verb = "ALTER"
    <3>1. s.kind = "buckets" /\ s.name \in DOMAIN d.buckets
      BY <2>0, <2>5 DEF Fits, Refused, Exists, TopLevel
    <3>2. z.tables = d.tables
      BY <2>0, <2>5, <3>1, BucketAltered
    <3>. QED
      BY <3>2 DEF Keeps
  <2>. QED
    BY <2>1, <2>2, <2>3, <2>4, <2>5 DEF Fits, ColumnKinds
<1>. QED
  BY <1>1, <1>2

LEMMA RunSpares ==
    ASSUME NEW q, IsScript(q), NEW c, NEW d, NEW w, NEW st, NEW f,
           Runs(f, q, d, st, Len(q)), Sound(d, w), Relational(w),
           \A x \in Range(q) : Fits(x, w) /\ Spares(x, c),
           Placed(q, DOMAIN d.tables), Keeps(c, d)
    PROVE  Keeps(c, f[Len(q)])
<1>. DEFINE n == Len(q)
            S == {k \in 0 .. n : Keeps(c, f[k])}
<1>1. n \in Nat /\ DOMAIN q = 1 .. n
  BY LenProperties DEF IsScript
<1>2. /\ \A k \in 0 .. n : Sound(f[k], w)
      /\ \A k \in 1 .. n :
            DefinesColumn(q[k]) => q[k].on \in DOMAIN f[k - 1].tables
  BY RunNearer
<1>3. Runs(f, q, d, st, n)
  OBVIOUS
<1>. HIDE DEF n
<1>4. 0 \in S
  BY <1>1, <1>3 DEF Runs
<1>5. ASSUME NEW k \in 1 .. n, k - 1 \in S
      PROVE  k \in S
  <2>. DEFINE g == f[k - 1]
              x == q[k]
  <2>0. k \in 0 .. n /\ k - 1 \in 0 .. n /\ k # 0
    BY <1>1
  <2>1. f[k] = Step(x, g, st)
    BY <1>3, <2>0 DEF Runs
  <2>2. x \in Range(q)
    BY <1>1 DEF Range
  <2>3. /\ Keeps(c, g) /\ Sound(g, w) /\ Fits(x, w) /\ Spares(x, c)
        /\ DefinesColumn(x) => x.on \in DOMAIN g.tables
    BY <1>2, <1>5, <2>0, <2>2
  <2>. HIDE DEF g, x
  <2>4. Keeps(c, f[k])
    BY <2>1, <2>3, StepSpares DEF Sound
  <2>. QED
    BY <2>0, <2>4
<1>. HIDE DEF S
<1>6. \A k \in 0 .. n : k \in S
  BY <1>1, <1>4, <1>5, Reaches
<1>7. n \in S
  BY <1>1, <1>6
<1>. QED
  BY <1>7 DEF S, n

(* A table or a field that is dropped is gone, or was not there.           *)
LEMMA DroppedIsGone ==
    ASSUME NEW c, Shaped(c), NEW s, s.verb = "REMOVE",
           s.kind \in {"tables", "fields"}, ~s.ifExists, NEW st, NEW e,
           Takes(s, e)
    PROVE  e \notin Elements(Step(s, c, st))
<1>0. ~DefinesColumn(s)
  BY DEF DefinesColumn
<1>1. CASE ~Refused(s, c, st)
  <2>1. e \notin Elements(Execute(s, c))
    BY <1>0, <1>1, TakenIsGone
  <2>. QED
    BY <1>1, <2>1 DEF Step
<1>2. CASE Refused(s, c, st)
  <2>1. ~Exists(s, c) /\ Step(s, c, st) = c
    BY <1>2 DEF Refused, Step
  <2>2. CASE s.kind = "tables"
    <3>1. s.name \notin DOMAIN c.tables
      BY <2>1, <2>2 DEF Exists, TopLevel
    <3>2. \/ \E k : e = <<k, s.name>>
          \/ \E n, y : e = <<"field", s.name, n, y>>
          \/ \E n : e = <<"index", s.name, n>>
          \/ \E n : e = <<"event", s.name, n>>
      BY <2>2 DEF Takes
    <3>3. e \notin Elements(c)
      BY <3>1, <3>2, TableElement, FieldElement, IndexElement, EventElement
      DEF HasTable, HasField, HasIndex, HasEvent
    <3>. QED
      BY <2>1, <3>3
  <2>3. CASE s.kind = "fields"
    <3>1. s.on \in DOMAIN c.tables => s.name \notin DOMAIN c.tables[s.on].fields
      <4>1. s.on \in DOMAIN c.tables => s.name \notin DOMAIN c.tables[s.on]["fields"]
        BY <2>1, <2>3 DEF Exists, TopLevel
      <4>. QED
        BY <4>1
    <3>2. \E y : e = <<"field", s.on, s.name, y>>
      BY <2>3 DEF Takes
    <3>3. e \notin Elements(c)
      BY <3>1, <3>2, FieldElement DEF HasField
    <3>. QED
      BY <2>1, <3>3
  <2>. QED
    BY <2>2, <2>3
<1>. QED
  BY <1>1, <1>2

LEMMA RunDrops ==
    ASSUME NEW q, IsScript(q), NEW d, NEW w, NEW st, NEW f,
           Runs(f, q, d, st, Len(q)), Sound(d, w), Relational(w),
           \A x \in Range(q) : Fits(x, w), Placed(q, DOMAIN d.tables),
           NEW s \in Range(q), s.verb = "REMOVE", s.kind \in {"tables", "fields"},
           ~s.ifExists, NEW e, Takes(s, e), e \notin Elements(w)
    PROVE  e \notin Elements(f[Len(q)])
<1>. DEFINE n == Len(q)
<1>1. n \in Nat /\ DOMAIN q = 1 .. n
  BY LenProperties DEF IsScript
<1>2. \A k \in 0 .. n :
        /\ Sound(f[k], w)
        /\ \A j \in 0 .. k : Elements(f[k]) \ Elements(w) \subseteq Elements(f[j])
  BY RunNearer
<1>3. Runs(f, q, d, st, n)
  OBVIOUS
<1>. HIDE DEF n
<1>4. PICK k \in 1 .. n : q[k] = s
  BY <1>1 DEF Range
<1>5. k \in 0 .. n /\ k - 1 \in 0 .. n /\ k # 0 /\ n \in 0 .. n /\ k \in 0 .. n
  BY <1>1
<1>6. f[k] = Step(s, f[k - 1], st) /\ Shaped(f[k - 1])
  BY <1>2, <1>3, <1>4, <1>5 DEF Runs, Sound
<1>7. e \notin Elements(f[k])
  BY <1>6, DroppedIsGone
<1>8. Elements(f[n]) \ Elements(w) \subseteq Elements(f[k])
  BY <1>2, <1>5
<1>. QED
  BY <1>7, <1>8 DEF n

LEMMA RunConcat ==
    ASSUME NEW a, NEW b, IsScript(a), IsScript(b), NEW c, NEW st
    PROVE  \E f, g : /\ Runs(f, a, c, st, Len(a))
                     /\ Runs(g, b, f[Len(a)], st, Len(b))
                     /\ Run(a \o b, c, st) = g[Len(b)]
<1>. DEFINE m == Len(a)
            n == Len(b)
            q == a \o b
<1>. DEFINE X == Range(a) \cup Range(b)
<1>1. a \in Seq(X) /\ b \in Seq(X)
  BY ScriptIn
<1>. HIDE DEF X
<1>2. /\ m \in Nat /\ n \in Nat /\ Len(q) = m + n
      /\ \A k \in 1 .. m : q[k] = a[k]
      /\ \A k \in 1 .. n : q[m + k] = b[k]
  BY <1>1
<1>. HIDE DEF q, m, n
<1>3. PICK f : Runs(f, q, c, st, m + n) /\ Run(q, c, st) = f[m + n]
  <2>1. \E f : Runs(f, q, c, st, Len(q)) /\ Run(q, c, st) = f[Len(q)]
    BY <1>2, RunUnfolds
  <2>. QED
    BY <1>2, <2>1
<1>. DEFINE g == [k \in 0 .. n |-> f[m + k]]
<1>4. Runs(f, a, c, st, m)
  <2>. SUFFICES ASSUME NEW k \in 0 .. m
                PROVE  f[k] = IF k = 0 THEN c ELSE Step(a[k], f[k - 1], st)
    BY DEF Runs
  <2>1. k \in 0 .. m + n /\ (k # 0 => k \in 1 .. m)
    BY <1>2
  <2>2. f[k] = IF k = 0 THEN c ELSE Step(q[k], f[k - 1], st)
    BY <1>3, <2>1 DEF Runs
  <2>. QED
    BY <1>2, <2>1, <2>2
<1>5. Runs(g, b, f[m], st, n)
  <2>. SUFFICES ASSUME NEW k \in 0 .. n
                PROVE  g[k] = IF k = 0 THEN f[m] ELSE Step(b[k], g[k - 1], st)
    BY DEF Runs
  <2>1. CASE k = 0
    BY <1>2, <2>1
  <2>2. CASE k # 0
    <3>1. /\ m + k \in 0 .. m + n /\ m + k # 0 /\ k \in 1 .. n
          /\ k - 1 \in 0 .. n /\ m + k - 1 = m + (k - 1)
      BY <1>2, <2>2
    <3>2. f[m + k] = Step(q[m + k], f[m + k - 1], st)
      <4>1. \A j \in 0 .. m + n : j # 0 => f[j] = Step(q[j], f[j - 1], st)
        BY <1>3 DEF Runs
      <4>2. m + k \in 0 .. m + n /\ m + k # 0
        BY <3>1
      <4>. QED
        BY <1>2, <4>1, <4>2
    <3>3. q[m + k] = b[k]
      BY <1>2, <3>1
    <3>4. g[k - 1] = f[m + (k - 1)] /\ g[k] = f[m + k]
      BY <3>1
    <3>. QED
      BY <2>2, <3>1, <3>2, <3>3, <3>4
  <2>. QED
    BY <2>1, <2>2
<1>6. g[n] = f[m + n]
  BY <1>2
<1>. HIDE DEF g
<1>. QED
  BY <1>3, <1>4, <1>5, <1>6 DEF m, n, q

LEMMA UndoScript ==
    ASSUME NEW d
    PROVE  IsScript(Undo(d))
<1>1. Undo(d) = <<>> \/ \E x : Undo(d) = <<x>>
  BY DEF Undo
<1>. QED
  BY <1>1, EmptyScript, SingleScript

LEMMA DownScript ==
    ASSUME NEW diffs, IsScript(diffs)
    PROVE  /\ IsScript(DownSql(diffs))
           /\ Range(DownSql(diffs)) = UNION {Range(Undo(d)) : d \in Range(diffs)}
<1>. DEFINE n == Len(diffs)
            back == Reverse(diffs)
            s == [i \in DOMAIN back |-> Undo(back[i])]
<1>1. n \in Nat /\ DOMAIN diffs = 1 .. n
  BY LenProperties DEF IsScript
<1>2. back = [i \in 1 .. n |-> diffs[(n - i) + 1]]
  BY DEF Reverse
<1>3. DownSql(diffs) = FlattenSeq(s)
  BY DEF DownSql
<1>4. DOMAIN back = 1 .. n
  BY <1>2
<1>5. /\ s = [i \in 1 .. n |-> s[i]]
      /\ \A i \in 1 .. n : s[i] = Undo(back[i]) /\ back[i] = diffs[(n - i) + 1]
  BY <1>2, <1>4
<1>. HIDE DEF n, s, back
<1>6. /\ \A i \in 1 .. n : (n - i) + 1 \in 1 .. n
      /\ \A j \in 1 .. n : \E i \in 1 .. n : j = (n - i) + 1
  <2>1. \A i \in 1 .. n : (n - i) + 1 \in 1 .. n
    BY <1>1
  <2>2. ASSUME NEW j \in 1 .. n
        PROVE  \E i \in 1 .. n : j = (n - i) + 1
    <3>1. (n - j) + 1 \in 1 .. n /\ j = (n - ((n - j) + 1)) + 1
      BY <1>1
    <3>. QED
      BY <3>1
  <2>. QED
    BY <2>1, <2>2
<1>7. \A i \in 1 .. n : IsScript(s[i])
  BY <1>5, UndoScript
<1>8. /\ IsScript(FlattenSeq(s))
      /\ Range(FlattenSeq(s)) = UNION {Range(s[i]) : i \in 1 .. n}
  BY <1>1, <1>5, <1>7, FlattenScript
<1>9. \A i \in 1 .. n : \E d \in Range(diffs) : s[i] = Undo(d)
  <2>1. \A j \in 1 .. n : diffs[j] \in Range(diffs)
    BY <1>1 DEF Range
  <2>. QED
    BY <1>5, <1>6, <2>1
<1>10. \A d \in Range(diffs) : \E i \in 1 .. n : s[i] = Undo(d)
  <2>1. \A d \in Range(diffs) : \E j \in 1 .. n : d = diffs[j]
    BY <1>1 DEF Range
  <2>. QED
    BY <1>5, <1>6, <2>1
<1>11. UNION {Range(s[i]) : i \in 1 .. n} = UNION {Range(Undo(d)) : d \in Range(diffs)}
  BY <1>9, <1>10
<1>. QED
  BY <1>3, <1>8, <1>11

---------------------------------------------------------------------------
(* A migration that can be rolled back safely.                             *)
Safe(diffs) == AnalyzeRollbackSafety(diffs) = "SAFE"

LEMMA SafeOperations ==
    ASSUME NEW diffs, Safe(diffs), NEW d \in Range(diffs)
    PROVE  d.operation \notin {"DROP_TABLE", "DROP_FIELD", "MODIFY_FIELD",
                               "DROP_INDEX"}
<1>. DEFINE operations == {diffs[i].operation : i \in DOMAIN diffs}
<1>1. d.operation \in operations
  BY DEF Range
<1>. HIDE DEF operations
<1>2. /\ operations \cap {"DROP_TABLE", "DROP_FIELD"} = {}
      /\ operations \cap {"MODIFY_FIELD", "DROP_INDEX"} = {}
  BY DEF Safe, AnalyzeRollbackSafety, operations
<1>. QED
  BY <1>1, <1>2

(* A statement that undoes one, of what c does not have.                   *)
Undoes(x, c) == x.verb = "REMOVE" /\ Fits(x, c) /\ Spares(x, c)

Revertible(d, c) ==
    /\ \A x \in Range(d.sql) : Spares(x, c)
    /\ \A x \in Range(Undo(d)) : Undoes(x, c)

LEMMA NothingToUndo ==
    ASSUME NEW d, d.operation \notin {"ADD_TABLE", "ADD_FIELD", "ADD_BUCKET"}
    PROVE  Range(Undo(d)) = {}
<1>1. Undo(d) = <<>>
  BY DEF Undo
<1>. QED
  BY <1>1, EmptyScript

LEMMA AddedTable ==
    ASSUME NEW c, NEW t, t \notin DOMAIN c.tables, NEW table, Finite(table),
           NEW d, d = AddTable(t, table)
    PROVE  Revertible(d, c) /\ Drop("tables", t, t) \in Range(Undo(d))
<1>1. /\ d.sql = GenerateTableSql(t, table) /\ d.operation = "ADD_TABLE"
      /\ d.table = t
  BY DEF AddTable, Difference
<1>2. \A x \in Range(d.sql) : x \in TableStatements(t, table)
  BY <1>1, TableScript
<1>3. ASSUME NEW x \in TableStatements(t, table)
      PROVE  Spares(x, c)
  <2>1. (x.kind = "tables" => x.name = t) /\ x.on = t
    BY DEF TableStatements, DefineItself, GenerateFieldSql, Define, Statement
  <2>. QED
    BY <2>1 DEF Spares
<1>4. Undo(d) = <<Drop("tables", t, t)>>
  BY <1>1 DEF Undo
<1>5. Range(Undo(d)) = {Drop("tables", t, t)}
  BY <1>4, SingleScript
<1>6. Undoes(Drop("tables", t, t), c)
  BY DropIsPlain DEF Undoes, Fits, Spares
<1>. QED
  BY <1>2, <1>3, <1>5, <1>6 DEF Revertible

LEMMA AddedField ==
    ASSUME NEW c, NEW t \in DOMAIN c.tables, NEW n,
           n \notin DOMAIN c.tables[t].fields, NEW f,
           NEW d, d = AddField(t, n, f)
    PROVE  Revertible(d, c) /\ Drop("fields", t, n) \in Range(Undo(d))
<1>1. /\ d.sql = <<DefineType(t, n, f)>> /\ d.operation = "ADD_FIELD"
      /\ d.table = t /\ d.name = n
  BY DEF AddField, Difference
<1>2. \A x \in Range(d.sql) : x = DefineType(t, n, f)
  BY <1>1, SingleScript
<1>3. Spares(DefineType(t, n, f), c)
  BY DefineIsPlain DEF Spares, DefineType
<1>4. Undo(d) = <<Drop("fields", t, n)>>
  BY <1>1 DEF Undo
<1>5. Range(Undo(d)) = {Drop("fields", t, n)}
  BY <1>4, SingleScript
<1>6. Undoes(Drop("fields", t, n), c)
  BY DropIsPlain DEF Undoes, Fits, Spares, ColumnKinds
<1>. QED
  BY <1>2, <1>3, <1>5, <1>6 DEF Revertible

LEMMA AddedBucket ==
    ASSUME NEW c, NEW b, b \notin DOMAIN c.buckets, NEW bucket,
           NEW d, d = AddBucket(b, bucket)
    PROVE  Revertible(d, c)
<1>1. /\ d.sql = <<Define("buckets", b, b, bucket)>>
      /\ d.operation = "ADD_BUCKET" /\ d.table = b
  BY DEF AddBucket, Difference, GenerateBucketSql
<1>2. \A x \in Range(d.sql) : x = Define("buckets", b, b, bucket)
  BY <1>1, SingleScript
<1>3. Spares(Define("buckets", b, b, bucket), c)
  BY DefineIsPlain DEF Spares
<1>. DEFINE y == [Drop("buckets", b, b) EXCEPT !.ifExists = TRUE]
<1>4. y.verb = "REMOVE" /\ y.kind = "buckets" /\ y.name = b
  BY DEF Drop, Statement
<1>5. Undo(d) = <<y>>
  BY <1>1 DEF Undo
<1>. HIDE DEF y
<1>6. \A x \in Range(Undo(d)) : x = y
  BY <1>5, SingleScript
<1>7. Undoes(y, c)
  BY <1>4 DEF Undoes, Fits, Spares
<1>. QED
  BY <1>2, <1>3, <1>6, <1>7 DEF Revertible

(* A difference of another kind than a table or a field.                   *)
LEMMA OtherIsRevertible ==
    ASSUME NEW c, NEW d,
           d.operation \notin {"ADD_TABLE", "ADD_FIELD", "ADD_BUCKET"},
           \/ d.sql = <<>>
           \/ \E y : d.sql = <<y>> /\ y.kind \notin {"tables", "fields"}
    PROVE  Revertible(d, c)
<1>1. \A x \in Range(d.sql) : x.kind \notin {"tables", "fields"}
  <2>1. CASE d.sql = <<>>
    BY <2>1, EmptyScript
  <2>2. ASSUME NEW y, d.sql = <<y>>, y.kind \notin {"tables", "fields"}
        PROVE  \A x \in Range(d.sql) : x.kind \notin {"tables", "fields"}
    BY <2>2, SingleScript
  <2>. QED
    BY <2>1, <2>2
<1>. QED
  BY <1>1, NothingToUndo DEF Revertible, Spares

LEMMA LiveNames ==
    ASSUME NEW s, Declarable(s), NEW c, Sound(c, CatalogOf(s)),
           NEW v, v = LiveOf(c)
    PROVE  /\ Sane(v, c, s)
           /\ Names(v) = DOMAIN c.tables
           /\ DOMAIN v.buckets = DOMAIN c.buckets
           /\ \A t \in Names(v) : t \in DOMAIN CatalogOf(s).tables =>
                AllTables(v)[t] = ParseTableInfo(c.tables[t])
<1>1. /\ DOMAIN v.tables = DOMAIN c.tables \ Relations(c)
      /\ DOMAIN v.edges = Relations(c)
      /\ \A t \in DOMAIN v.tables : v.tables[t] = ParseTableInfo(c.tables[t])
      /\ \A t \in DOMAIN v.edges : v.edges[t] = ParseTableInfo(c.tables[t])
      /\ v.buckets = ParseDbInfo(c).buckets
  BY LiveValue
<1>2. Sane(v, c, s)
  BY LiveSane
<1>3. Names(v) = DOMAIN c.tables
  BY <1>1 DEF Names, Relations
<1>4. DOMAIN v.buckets = DOMAIN c.buckets
  BY <1>1 DEF ParseDbInfo
<1>5. ASSUME NEW t \in Names(v), t \in DOMAIN CatalogOf(s).tables
      PROVE  AllTables(v)[t] = ParseTableInfo(c.tables[t])
  <2>1. \/ t \in DOMAIN v.tables /\ AllTables(v)[t] = v.tables[t]
        \/ t \in DOMAIN v.edges /\ AllTables(v)[t] = v.edges[t]
    BY <1>2, <1>5, ReadTable
  <2>. QED
    BY <1>1, <2>1
<1>. QED
  BY <1>2, <1>3, <1>4, <1>5

(* A field that the differ adds is none of the database's.                 *)
LEMMA AddedIsNew ==
    ASSUME NEW s, Declarable(s), NEW c, Sound(c, CatalogOf(s)),
           NEW t \in DOMAIN c.tables, t \in DOMAIN CatalogOf(s).tables,
           NEW target, target = AllTables(s)[t],
           NEW n \in Added(ParseTableInfo(c.tables[t]).fields, target.fields)
    PROVE  n \notin DOMAIN c.tables[t].fields
<1>. DEFINE table == c.tables[t]
            w == CatalogOf(s)
            info == ParseTableInfo(table)
<1>1. n \in DOMAIN target.fields /\ n \notin DOMAIN info.fields
  BY DEF Added
<1>2. DOMAIN info.fields = DOMAIN table.fields \ DOMAIN Endpoints(table.mode)
  BY TableInfoValue
<1>3. n \notin DOMAIN Endpoints(target.mode)
  <2>1. t \in DOMAIN AllTables(s)
    BY DEF CatalogOf
  <2>. QED
    BY <1>1, <2>1, CatalogTables
<1>4. table.mode = "RELATION" <=> target.mode = "RELATION"
  <2>1. SortOf(table) = SortOf(w.tables[t])
    BY DEF Sound, Alike
  <2>2. w.tables[t].mode = target.mode
    BY DeclaredColumns
  <2>. QED
    BY <2>1, <2>2 DEF SortOf
<1>. HIDE DEF table, info
<1>5. n \notin DOMAIN Endpoints(table.mode)
  BY <1>3, <1>4, EndpointsAt
<1>. QED
  BY <1>1, <1>2, <1>5 DEF table

LEMMA SafeIsRevertible ==
    ASSUME NEW s, Declarable(s), NEW c, Sound(c, CatalogOf(s)),
           NEW v, v = LiveOf(c), NEW d \in SchemaDiffs(v, s),
           d.operation \notin {"DROP_TABLE", "DROP_FIELD", "MODIFY_FIELD",
                               "DROP_INDEX"}
    PROVE  Revertible(d, c)
<1>1. /\ Sane(v, c, s) /\ Names(v) = DOMAIN c.tables
      /\ DOMAIN v.buckets = DOMAIN c.buckets
      /\ \A t \in Names(v) : t \in DOMAIN CatalogOf(s).tables =>
            AllTables(v)[t] = ParseTableInfo(c.tables[t])
  BY LiveNames
<1>2. DOMAIN CatalogOf(s).tables = DOMAIN s.tables \cup DOMAIN s.edges
  BY DeclaredTables
<1>3. ASSUME NEW t \in DOMAIN AllTables(s), t \notin Names(v),
             d = AddTable(t, AllTables(s)[t])
      PROVE  Revertible(d, c)
  BY <1>1, <1>3, DeclarableTables, AddedTable
<1>4. ASSUME NEW t \in Names(v), t \in DOMAIN CatalogOf(s).tables,
             NEW current, NEW target,
             current = AllTables(v)[t], target = AllTables(s)[t],
             d \in ColumnDiffs(t, current, target)
      PROVE  Revertible(d, c)
  <2>1. CASE d \in FieldDiffs(t, current.fields, target.fields)
    <3>1. ASSUME NEW n \in Added(current.fields, target.fields),
                 d = AddField(t, n, target.fields[n])
          PROVE  Revertible(d, c)
      <4>1. n \in Added(ParseTableInfo(c.tables[t]).fields, target.fields)
        BY <1>1, <1>4
      <4>2. n \notin DOMAIN c.tables[t].fields
        BY <1>1, <1>4, <4>1, AddedIsNew
      <4>. QED
        BY <1>1, <3>1, <4>2, AddedField
    <3>2. CASE \E n : d = DropColumn("DROP_FIELD", "fields", t, n)
      BY <3>2 DEF DropColumn, Difference
    <3>3. CASE \E n : d = ModifyField(t, n, target.fields[n])
      BY <3>3 DEF ModifyField, Difference
    <3>. QED
      BY <2>1, <3>1, <3>2, <3>3 DEF FieldDiffs
  <2>2. CASE d \in IndexDiffs(t, current.indexes, target.indexes)
    <3>1. ASSUME NEW n, d = AddIndex(t, n, target.indexes[n])
          PROVE  Revertible(d, c)
      <4>1. /\ d.operation = "ADD_INDEX"
            /\ d.sql = <<Define("indexes", t, n, target.indexes[n])>>
        BY <3>1 DEF AddIndex, Difference
      <4>. QED
        BY <4>1, DefineIsPlain, OtherIsRevertible
    <3>2. CASE \E n : d = DropColumn("DROP_INDEX", "indexes", t, n)
      BY <3>2 DEF DropColumn, Difference
    <3>. QED
      BY <2>2, <3>1, <3>2 DEF IndexDiffs
  <2>3. CASE d \in EventDiffs(t, current.events, target.events)
    <3>1. ASSUME NEW n, d = AddEvent(t, n)
          PROVE  Revertible(d, c)
      <4>1. d.operation = "ADD_EVENT" /\ d.sql = <<>>
        BY <3>1 DEF AddEvent, Difference
      <4>. QED
        BY <4>1, OtherIsRevertible
    <3>2. ASSUME NEW n, d = DropColumn("DROP_EVENT", "events", t, n)
          PROVE  Revertible(d, c)
      <4>1. d.operation = "DROP_EVENT" /\ d.sql = <<Drop("events", t, n)>>
        BY <3>2 DEF DropColumn, Difference
      <4>. QED
        BY <4>1, DropIsPlain, OtherIsRevertible
    <3>. QED
      BY <2>3, <3>1, <3>2 DEF EventDiffs
  <2>. QED
    BY <1>4, <2>1, <2>2, <2>3 DEF ColumnDiffs
<1>5. ASSUME NEW current, NEW target, d \in TableDiffs(current, target),
             \A t \in Added(current, target) :
                /\ t \in DOMAIN AllTables(s) /\ AllTables(s)[t] = target[t]
                /\ t \notin Names(v),
             \A t \in Kept(current, target) :
                /\ t \in Names(v) /\ t \in DOMAIN CatalogOf(s).tables
                /\ AllTables(v)[t] = current[t] /\ AllTables(s)[t] = target[t]
      PROVE  Revertible(d, c)
  <2>1. CASE \E t \in Added(current, target) : d = AddTable(t, target[t])
    BY <1>3, <1>5, <2>1
  <2>2. CASE \E t : d = DropTable(t)
    BY <2>2 DEF DropTable, Difference
  <2>3. CASE d \in KeptDiffs(current, target)
    <3>1. PICK t \in Kept(current, target) : d \in ColumnDiffs(t, current[t], target[t])
      BY <2>3 DEF KeptDiffs
    <3>. QED
      BY <1>4, <1>5, <3>1
  <2>. QED
    BY <1>5, <2>1, <2>2, <2>3 DEF TableDiffs
<1>6. ASSUME d \in TableDiffs(v.tables, s.tables)
      PROVE  Revertible(d, c)
  <2>1. ASSUME NEW t \in Added(v.tables, s.tables)
        PROVE  /\ t \in DOMAIN AllTables(s) /\ AllTables(s)[t] = s.tables[t]
               /\ t \notin Names(v)
    <3>1. t \in DOMAIN s.tables /\ t \notin DOMAIN v.tables
      BY DEF Added
    <3>2. t \notin DOMAIN v.edges
      BY <1>1, <3>1 DEF Sane
    <3>. QED
      BY <3>1, <3>2, DeclarableTables DEF Names
  <2>2. ASSUME NEW t \in Kept(v.tables, s.tables)
        PROVE  /\ t \in Names(v) /\ t \in DOMAIN CatalogOf(s).tables
               /\ AllTables(v)[t] = v.tables[t] /\ AllTables(s)[t] = s.tables[t]
    <3>1. t \in DOMAIN v.tables /\ t \in DOMAIN s.tables /\ t \notin DOMAIN s.edges
      BY DeclarableTables DEF Kept
    <3>2. t \in Names(v) /\ t \in DOMAIN CatalogOf(s).tables
      BY <1>2, <3>1 DEF Names
    <3>. QED
      BY <1>1, <3>1, <3>2, ReadTable
  <2>. QED
    BY <1>5, <1>6, <2>1, <2>2
<1>7. ASSUME d \in TableDiffs(v.edges, s.edges)
      PROVE  Revertible(d, c)
  <2>1. ASSUME NEW t \in Added(v.edges, s.edges)
        PROVE  /\ t \in DOMAIN AllTables(s) /\ AllTables(s)[t] = s.edges[t]
               /\ t \notin Names(v)
    <3>1. t \in DOMAIN s.edges /\ t \notin DOMAIN v.edges
      BY DEF Added
    <3>2. t \notin DOMAIN v.tables
      BY <1>1, <3>1 DEF Sane
    <3>. QED
      BY <3>1, <3>2, DeclarableTables DEF Names
  <2>2. ASSUME NEW t \in Kept(v.edges, s.edges)
        PROVE  /\ t \in Names(v) /\ t \in DOMAIN CatalogOf(s).tables
               /\ AllTables(v)[t] = v.edges[t] /\ AllTables(s)[t] = s.edges[t]
    <3>1. t \in DOMAIN v.edges /\ t \in DOMAIN s.edges /\ t \notin DOMAIN s.tables
      BY DeclarableTables DEF Kept
    <3>2. t \in Names(v) /\ t \in DOMAIN CatalogOf(s).tables
      BY <1>2, <3>1 DEF Names
    <3>. QED
      BY <1>1, <3>1, <3>2, ReadTable
  <2>. QED
    BY <1>5, <1>7, <2>1, <2>2
<1>8. ASSUME NEW e, d = ModifyPermissions(e)
      PROVE  Revertible(d, c)
  <2>1. d.operation = "MODIFY_PERMISSIONS" /\ d.sql = <<>>
    BY <1>8 DEF ModifyPermissions, Difference
  <2>. QED
    BY <2>1, OtherIsRevertible
<1>9. CASE d \in BucketDiffs(v.buckets, s.buckets)
  <2>1. CASE \E b \in Added(v.buckets, s.buckets) : d = AddBucket(b, s.buckets[b])
    BY <1>1, <2>1, AddedBucket DEF Added
  <2>2. ASSUME NEW b, d = DropBucket(b)
        PROVE  Revertible(d, c)
    <3>1. d.operation = "DROP_BUCKET" /\ d.sql = <<Drop("buckets", b, b)>>
      BY <2>2 DEF DropBucket, Difference
    <3>. QED
      BY <3>1, DropIsPlain, OtherIsRevertible
  <2>3. ASSUME NEW b, d = ModifyBucket(b, v.buckets[b], s.buckets[b])
        PROVE  Revertible(d, c)
    <3>1. /\ d.operation = "MODIFY_BUCKET"
          /\ d.sql = <<AlterBucket(b, v.buckets[b], s.buckets[b])>>
      BY <2>3 DEF ModifyBucket, Difference
    <3>. QED
      BY <3>1, AlterIsPlain, OtherIsRevertible
  <2>. QED
    BY <1>9, <2>1, <2>2, <2>3 DEF BucketDiffs
<1>. QED
  BY <1>6, <1>7, <1>8, <1>9 DEF SchemaDiffs, EdgeDiffs

(* Up and down again, the tables and the fields are what they were.        *)
LEMMA RollbackRestores ==
    ASSUME NEW s, Declarable(s), NEW c, Sound(c, CatalogOf(s)), NEW st,
           NEW diffs, diffs = DiffSchemas(LiveOf(c), s), Safe(diffs),
           NEW after, after = Run(UpSql(diffs) \o DownSql(diffs), c, st),
           NEW e, e[1] \in {"table", "edge", "field"}
    PROVE  e \in Elements(after) <=> e \in Elements(c)
<1>. DEFINE v == LiveOf(c)
            w == CatalogOf(s)
            up == UpSql(diffs)
            down == DownSql(diffs)
<1>1. /\ Sane(v, c, s) /\ Names(v) = DOMAIN c.tables
      /\ \A t \in Names(v) : t \in DOMAIN w.tables =>
            AllTables(v)[t] = ParseTableInfo(c.tables[t])
  BY LiveNames
<1>2. /\ Ready(up, c, w)
      /\ IsScript(diffs) /\ Range(diffs) = SchemaDiffs(v, s)
      /\ Range(up) = UNION {Range(d.sql) : d \in SchemaDiffs(v, s)}
  BY <1>1, DiffsReady
<1>3. \A d \in SchemaDiffs(v, s) : Revertible(d, c)
  BY <1>2, SafeOperations, SafeIsRevertible
<1>4. /\ IsScript(down)
      /\ Range(down) = UNION {Range(Undo(d)) : d \in SchemaDiffs(v, s)}
  BY <1>2, DownScript
<1>5. /\ IsScript(up)
      /\ \A x \in Range(up) : Fits(x, w) /\ Spares(x, c)
      /\ Placed(up, DOMAIN c.tables)
  BY <1>2, <1>3 DEF Ready, Revertible
<1>6. /\ \A x \in Range(down) : Fits(x, c) /\ Spares(x, c) /\ x.verb = "REMOVE"
      /\ \A T : Placed(down, T)
  <2>1. \A x \in Range(down) : Fits(x, c) /\ Spares(x, c) /\ x.verb = "REMOVE"
    BY <1>3, <1>4 DEF Revertible, Undoes
  <2>. QED
    BY <2>1, RangePlaced DEF DefinesColumn
<1>7. PICK f, g : /\ Runs(f, up, c, st, Len(up))
                  /\ Runs(g, down, f[Len(up)], st, Len(down))
                  /\ after = g[Len(down)]
  BY <1>4, <1>5, RunConcat
<1>. DEFINE z == f[Len(up)]
<1>8. Relational(w) /\ Relational(c)
  BY CatalogSound DEF Sound
<1>9. Len(up) \in Nat /\ Len(down) \in Nat
  BY <1>4, <1>5, LenProperties DEF IsScript
<1>. HIDE DEF up, down, v, w
<1>10. /\ Sound(z, w)
       /\ Elements(z) \ Elements(w) \subseteq Elements(c)
  <2>1. Len(up) \in 0 .. Len(up)
    BY <1>9
  <2>2. Sound(c, w)
    BY DEF w
  <2>. QED
    BY <1>5, <1>7, <1>8, <2>1, <2>2, RunNearer
<1>11. Keeps(c, z)
  <2>1. Keeps(c, c) /\ Sound(c, w)
    BY DEF Keeps, KeepsTable, w
  <2>. QED
    BY <1>5, <1>7, <1>8, <2>1, RunSpares
<1>12. Sound(z, c)
  <2>1. Alike(z, c)
    BY <1>11 DEF Keeps, KeepsTable, Alike, SortOf
  <2>. QED
    BY <1>10, <2>1 DEF Sound
<1>. HIDE DEF z
<1>13. Runs(g, down, z, st, Len(down))
  BY <1>7 DEF z
<1>14. Elements(after) \ Elements(c) \subseteq Elements(z)
  <2>1. Len(down) \in 0 .. Len(down)
    BY <1>9
  <2>. QED
    BY <1>4, <1>6, <1>7, <1>8, <1>12, <1>13, <2>1, RunNearer
<1>15. Keeps(c, after)
  BY <1>4, <1>6, <1>7, <1>8, <1>11, <1>12, <1>13, RunSpares
<1>16. ASSUME NEW x \in Range(down), x.kind \in {"tables", "fields"},
              ~x.ifExists, Takes(x, e), e \notin Elements(c)
       PROVE  e \notin Elements(after)
  BY <1>4, <1>6, <1>7, <1>8, <1>12, <1>13, <1>16, RunDrops
<1>17. ASSUME e \in Elements(c)
       PROVE  e \in Elements(after)
  <2>1. ASSUME NEW k, NEW t, e = <<k, t>>, HasTable(c, k, t)
        PROVE  e \in Elements(after)
    <3>1. HasTable(after, k, t)
      BY <1>15, <2>1 DEF Keeps, KeepsTable, HasTable, SortOf
    <3>. QED
      BY <2>1, <3>1, TableElement
  <2>2. ASSUME NEW t, NEW n, NEW y, e = <<"field", t, n, y>>, HasField(c, t, n, y)
        PROVE  e \in Elements(after)
    <3>1. HasField(after, t, n, y)
      BY <1>15, <2>2 DEF Keeps, KeepsTable, HasField
    <3>. QED
      BY <2>2, <3>1, FieldElement
  <2>3. \A t, n : e # <<"index", t, n>> /\ e # <<"event", t, n>>
    OBVIOUS
  <2>4. \A b, a, x : e # <<"bucket", b, a, x>>
    OBVIOUS
  <2>. QED
    BY <1>17, <2>1, <2>2, <2>3, <2>4, Shapes
<1>18. ASSUME e \in Elements(after), e \notin Elements(c)
       PROVE  FALSE
  <2>0. e \in Elements(w)
    BY <1>10, <1>14, <1>18
  <2>1. ASSUME NEW t \in DOMAIN w.tables, t \notin DOMAIN c.tables,
               Takes(Drop("tables", t, t), e)
        PROVE  FALSE
    <3>. DEFINE d == AddTable(t, AllTables(s)[t])
                x == Drop("tables", t, t)
    <3>1. d \in SchemaDiffs(v, s)
      BY <1>1, <2>1, DiffsOfTables DEF w
    <3>2. Finite(AllTables(s)[t])
      BY DeclarableTables DEF w, CatalogOf
    <3>3. x \in Range(Undo(d))
      BY <2>1, <3>2, AddedTable
    <3>4. x \in Range(down) /\ x.kind = "tables" /\ ~x.ifExists
      BY <1>4, <3>1, <3>3, DropIsPlain
    <3>. HIDE DEF x
    <3>. QED
      BY <1>16, <1>18, <2>1, <3>4 DEF x
  <2>2. ASSUME NEW k, NEW t, e = <<k, t>>, HasTable(w, k, t)
        PROVE  FALSE
    <3>1. HasTable(after, k, t) /\ ~HasTable(c, k, t)
      BY <1>18, <2>2, TableElement
    <3>2. t \notin DOMAIN c.tables
      BY <1>15, <3>1 DEF Keeps, KeepsTable, HasTable, SortOf
    <3>3. Takes(Drop("tables", t, t), e)
      BY <2>2, DropIsPlain DEF Takes
    <3>. QED
      BY <2>1, <2>2, <3>2, <3>3 DEF HasTable
  <2>3. ASSUME NEW t, NEW n, NEW y, e = <<"field", t, n, y>>, HasField(w, t, n, y)
        PROVE  FALSE
    <3>1. HasField(after, t, n, y) /\ ~HasField(c, t, n, y) /\ t \in DOMAIN w.tables
      BY <1>18, <2>3, FieldElement DEF HasField
    <3>2. CASE t \notin DOMAIN c.tables
      <4>1. Takes(Drop("tables", t, t), e)
        BY <2>3, DropIsPlain DEF Takes
      <4>. QED
        BY <2>1, <3>1, <3>2, <4>1
    <3>3. CASE t \in DOMAIN c.tables
      <4>. DEFINE current == AllTables(v)[t]
                  target == AllTables(s)[t]
                  d == AddField(t, n, target.fields[n])
                  x == Drop("fields", t, n)
      <4>1. n \notin DOMAIN c.tables[t].fields
        BY <1>15, <3>1, <3>3 DEF Keeps, KeepsTable, HasField
      <4>2. n \in DOMAIN target.fields
        <5>1. \/ n \in DOMAIN Endpoints(target.mode)
              \/ n \in DOMAIN target.fields
          BY <2>3, <3>1, DeclaredColumns DEF w
        <5>2. w.tables[t].mode = target.mode
          BY <3>1, DeclaredColumns DEF w
        <5>3. n \notin DOMAIN Endpoints(c.tables[t].mode)
          BY <1>8, <2>3, <3>1, <3>3, EndsAlike DEF w
        <5>4. SortOf(c.tables[t]) = SortOf(w.tables[t])
          BY <3>1, <3>3 DEF Sound, Alike, w
        <5>5. c.tables[t].mode = "RELATION" <=> w.tables[t].mode = "RELATION"
          BY <5>4 DEF SortOf
        <5>. QED
          BY <5>1, <5>2, <5>3, <5>5, EndpointsAt
      <4>3. n \notin DOMAIN current.fields
        <5>1. current = ParseTableInfo(c.tables[t])
          BY <1>1, <3>1, <3>3
        <5>. QED
          BY <4>1, <5>1, TableInfoValue
      <4>4. ColumnDiffs(t, current, target) \subseteq SchemaDiffs(v, s)
        BY <1>1, <3>1, <3>3, DiffsOfTables DEF w
      <4>. HIDE DEF current, target
      <4>5. d \in SchemaDiffs(v, s)
        BY <4>2, <4>3, <4>4 DEF ColumnDiffs, FieldDiffs, Added
      <4>6. x \in Range(Undo(d))
        BY <3>3, <4>1, AddedField
      <4>7. x \in Range(down) /\ x.kind = "fields" /\ ~x.ifExists
        BY <1>4, <4>5, <4>6, DropIsPlain
      <4>8. Takes(x, e)
        BY <2>3, DropIsPlain DEF Takes
      <4>. HIDE DEF x
      <4>. QED
        BY <1>16, <1>18, <4>7, <4>8
    <3>. QED
      BY <3>2, <3>3
  <2>4. \A t, n : e # <<"index", t, n>> /\ e # <<"event", t, n>>
    OBVIOUS
  <2>5. \A b, a, x : e # <<"bucket", b, a, x>>
    OBVIOUS
  <2>. QED
    BY <2>0, <2>2, <2>3, <2>4, <2>5, Shapes
<1>. QED
  BY <1>17, <1>18

(* The DOWN section of a migration that analyzeRollbackSafety calls SAFE   *)
(* takes the database back to the tables and fields, with their types,     *)
(* that it had before the UP section, whatever schemas they are and        *)
(* whichever statements the server refuses on the way.                     *)
THEOREM SafeRollbackRestoresHolds == Spec => []SafeRollbackRestores
<1>1. IInv => SafeRollbackRestores
  <2>. SUFFICES ASSUME IInv, NEW i \in Instances, seen[i] = Live,
                       AnalyzeRollbackSafety(DiffSchemas(seen[i], code)) = "SAFE"
                PROVE  LET diffs == DiffSchemas(seen[i], code)
                           after == Run(UpSql(diffs) \o DownSql(diffs), catalog, strict)
                           Lasting(c) == {e \in Elements(c) : e[1] \in {"table", "edge", "field"}}
                       IN  Lasting(after) = Lasting(catalog)
    BY DEF SafeRollbackRestores
  <2>. DEFINE diffs == DiffSchemas(seen[i], code)
              after == Run(UpSql(diffs) \o DownSql(diffs), catalog, strict)
  <2>1. diffs = DiffSchemas(LiveOf(catalog), code) /\ Safe(diffs)
    BY DEF Live, LiveOf, Safe
  <2>2. Declarable(code) /\ Sound(catalog, CatalogOf(code))
    BY DEF IInv, Consistent, Target
  <2>. HIDE DEF diffs
  <2>3. \A e : e[1] \in {"table", "edge", "field"} =>
            (e \in Elements(after) <=> e \in Elements(catalog))
    BY <2>1, <2>2, RollbackRestores
  <2>. HIDE DEF after
  <2>4. {e \in Elements(after) : e[1] \in {"table", "edge", "field"}}
            = {e \in Elements(catalog) : e[1] \in {"table", "edge", "field"}}
    BY <2>3
  <2>. QED
    BY <2>4 DEF after, diffs
<1>. QED
  BY <1>1, AlwaysConsistent, PTL
===============================================================================
