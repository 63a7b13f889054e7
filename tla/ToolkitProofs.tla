---------------------------- MODULE ToolkitProofs ----------------------------
(***************************************************************************)
(* Theorems about eight of the parts of the toolkit: the scopes of the     *)
(* current client, the sessions, the settings, the retried calls on a      *)
(* bucket, the echoed indexes, the check of the schema files, the          *)
(* capabilities and the walks through a graph, for any tasks and every     *)
(* bound.  CrudProofs has those about the functions over records and the   *)
(* builders of their statements.                                           *)
(*                                                                         *)
(* A behaviour is one part's; each part has its invariant, the lemmas that *)
(* its steps keep it, and at the end the theorems for the composition.     *)
(***************************************************************************)
EXTENDS Toolkit, SequenceTheorems, FiniteSetTheorems, WellFoundedInduction,
        TLAPS

(* Every set of numbers has a least one.                                   *)
LEMMA LeastNat ==
    ASSUME NEW T \in SUBSET Nat, T # {}
    PROVE  \E n \in T : \A m \in T : n <= m
<1>1. PICK n \in T : \A m \in T : ~ (<<m, n>> \in OpToRel(<, Nat))
  BY WFMin, NatLessThanWellFounded
<1>2. \A m \in T : ~(m < n)
  BY <1>1 DEF OpToRel
<1>. QED
  BY <1>2

(* A set of numbers up to n that has 0, and with each number the next, has *)
(* n.                                                                      *)
LEMMA Reaches ==
    ASSUME NEW n \in Nat, NEW S,
           0 \in S, \A k \in 1 .. n : k - 1 \in S => k \in S
    PROVE  \A k \in 0 .. n : k \in S
<1>. DEFINE T == {k \in 0 .. n : k \notin S}
<1>. SUFFICES ASSUME T # {}
              PROVE  FALSE
  OBVIOUS
<1>. T \in SUBSET Nat
  OBVIOUS
<1>1. PICK k \in T : \A m \in T : k <= m
  BY LeastNat
<1>2. k \in 1 .. n /\ k \notin S
  BY <1>1
<1>3. k - 1 \notin T
  BY <1>1, <1>2
<1>. QED
  BY <1>2, <1>3

(* What Append, Tail's counterpart and a changed element make of a         *)
(* sequence.                                                               *)
LEMMA Appended ==
    ASSUME NEW S, NEW s \in Seq(S), NEW x \in S
    PROVE  /\ Append(s, x) \in Seq(S)
           /\ DOMAIN Append(s, x) = 1 .. Len(s) + 1
           /\ Len(Append(s, x)) = Len(s) + 1
           /\ Append(s, x)[Len(s) + 1] = x
           /\ \A i \in 1 .. Len(s) : Append(s, x)[i] = s[i]
OBVIOUS

(* A changed element leaves the others as they are.                        *)
LEMMA Changed ==
    ASSUME NEW S, NEW s \in Seq(S), NEW i \in DOMAIN s, NEW x \in S
    PROVE  /\ [s EXCEPT ![i] = x] \in Seq(S)
           /\ DOMAIN [s EXCEPT ![i] = x] = DOMAIN s
           /\ Len([s EXCEPT ![i] = x]) = Len(s)
           /\ [s EXCEPT ![i] = x][i] = x
           /\ \A j \in DOMAIN s \ {i} : [s EXCEPT ![i] = x][j] = s[j]
OBVIOUS

(* A sequence without its last element.                                    *)
LEMMA Popped ==
    ASSUME NEW S, NEW s \in Seq(S), Len(s) > 1
    PROVE  LET p == SubSeq(s, 1, Len(s) - 1)
           IN  /\ p \in Seq(S) /\ p # <<>> /\ Len(p) = Len(s) - 1
               /\ DOMAIN p = 1 .. Len(s) - 1
               /\ \A i \in 1 .. Len(s) - 1 : p[i] = s[i]
<1>1. PICK n \in Nat : n = Len(s) /\ n > 1
  OBVIOUS
<1>2. SubSeq(s, 1, n - 1) \in Seq(S) /\ Len(SubSeq(s, 1, n - 1)) = n - 1
  BY <1>1
<1>3. \A i \in 1 .. n - 1 : SubSeq(s, 1, n - 1)[i] = s[i]
  BY <1>1
<1>4. /\ SubSeq(s, 1, n - 1) # <<>>
      /\ DOMAIN SubSeq(s, 1, n - 1) = 1 .. n - 1
  <2>1. \A q \in Seq(S) : Len(q) = n - 1 => q # <<>> /\ DOMAIN q = 1 .. n - 1
    BY <1>1
  <2>. QED
    BY <1>2, <2>1, Zenon
<1>. QED
  BY <1>1, <1>2, <1>3, <1>4

(* A sequence of small numbers is one of larger numbers.                   *)
LEMMA Widened ==
    ASSUME NEW m \in Nat, NEW n \in Nat, m <= n, NEW s \in Seq(0 .. m)
    PROVE  s \in Seq(0 .. n)
<1>1. PICK k \in Nat : k = Len(s)
  OBVIOUS
<1>2. s \in [1 .. k -> 0 .. n]
  BY <1>1
<1>. QED
  BY <1>2

---------------------------------------------------------------------------
(* context.ts                                                              *)

(* The types of the scopes' variables, taken apart.                        *)
ScopesTypes ==
    /\ MaxClients \in Nat /\ MaxScopes \in Nat
    /\ clients \in 0 .. MaxClients
    /\ current \in 0 .. clients
    /\ scopes \in Seq(Scopes!Scopes) /\ Len(scopes) <= MaxScopes
    /\ levels \in Seq(0 .. clients) /\ levels # <<>>
    /\ nested \in BOOLEAN

(* The types follow from the invariant.                                    *)
LEMMA ScopesTypesOf ==
    Scopes!ScopesAssumption /\ Scopes!TypeOK => ScopesTypes
BY DEF Scopes!ScopesAssumption, Scopes!TypeOK, ScopesTypes

(* No scope is open at first.                                              *)
LEMMA ScopesInitially ==
    Scopes!ScopesAssumption /\ Scopes!Init => Scopes!TypeOK /\ Scopes!ScopesInv
<1>. SUFFICES ASSUME Scopes!ScopesAssumption, Scopes!Init
              PROVE  Scopes!TypeOK /\ Scopes!ScopesInv
  OBVIOUS
<1>1. /\ MaxClients \in Nat /\ MaxScopes \in Nat
      /\ current = 0 /\ clients = 0 /\ scopes = <<>> /\ levels = <<0>>
      /\ nested = TRUE
  BY DEF Scopes!ScopesAssumption, Scopes!Init
<1>2. Scopes!TypeOK
  BY <1>1 DEF Scopes!TypeOK
<1>3. Scopes!Inside = {}
  BY <1>1 DEF Scopes!Inside
<1>. DEFINE f == [i \in {} |-> 1]
<1>4. f \in [Scopes!Inside -> 1 .. Len(levels) - 1] /\ Scopes!Stacked(f)
  BY <1>1, <1>3 DEF Scopes!Stacked
<1>5. DOMAIN scopes = {} /\ current = levels[Len(levels)]
  BY <1>1
<1>6. Scopes!ScopesInv
  BY <1>4, <1>5, Zenon DEF Scopes!ScopesInv
<1>. QED
  BY <1>2, <1>6

(* Every step keeps the types.                                             *)
LEMMA ScopesTypeStep ==
    ASSUME Scopes!ScopesAssumption, Scopes!TypeOK, Scopes!ScopesInv,
           Scopes!Next
    PROVE  Scopes!TypeOK'
<1>0. ScopesTypes
  BY ScopesTypesOf
<1>. USE DEF ScopesTypes
<1>1. \A i \in DOMAIN scopes : /\ scopes[i] \in Scopes!Scopes
                               /\ scopes[i].previous \in 0 .. clients
  BY <1>0 DEF Scopes!ScopesInv
<1>2. ASSUME clients' = clients,
             current' \in 0 .. clients, nested' \in BOOLEAN,
             levels' = levels \/ Scopes!Pop,
             scopes' \in Seq(Scopes!Scopes), Len(scopes') = Len(scopes)
      PROVE  Scopes!TypeOK'
  <2>1. levels' \in Seq(0 .. clients) /\ levels' # <<>>
    <3>1. CASE levels' = levels
      BY <1>0, <3>1
    <3>2. CASE Scopes!Pop /\ Len(levels) > 1
      BY <1>0, <3>2, Popped DEF Scopes!Pop
    <3>. QED
      BY <1>0, <1>2, <3>1, <3>2 DEF Scopes!Pop
  <2>. QED
    BY <1>0, <1>2, <2>1 DEF Scopes!TypeOK
<1>3. \A i \in DOMAIN scopes, p \in Scopes!Phases :
        /\ [scopes EXCEPT ![i].phase = p] \in Seq(Scopes!Scopes)
        /\ Len([scopes EXCEPT ![i].phase = p]) = Len(scopes)
  <2>. TAKE i \in DOMAIN scopes, p \in Scopes!Phases
  <2>1. [scopes[i] EXCEPT !.phase = p] \in Scopes!Scopes
    BY <1>1 DEF Scopes!Scopes
  <2>. QED
    BY <1>0, <2>1, Changed
<1>4. CASE Scopes!SetDb
  <2>1. PICK c \in 0 .. MaxClients :
          /\ current' \in 0 .. c /\ clients' = c /\ clients <= c
    <3>1. \/ /\ clients + 1 \in 0 .. MaxClients /\ clients' = clients + 1
             /\ current' = clients + 1
          \/ clients' = clients /\ current' = 0
      BY <1>0, <1>4 DEF Scopes!SetDb
    <3>. QED
      BY <1>0, <3>1
  <2>2. levels \in Seq(0 .. c) /\ Len(levels) \in DOMAIN levels
    BY <1>0, <2>1, Widened
  <2>3. /\ levels' \in Seq(0 .. c) /\ Len(levels') = Len(levels)
    BY <1>4, <2>1, <2>2, Changed DEF Scopes!SetDb
  <2>4. levels' # <<>>
    BY <1>0, <2>3
  <2>5. nested' \in BOOLEAN /\ scopes' = scopes
    BY <1>0, <1>4, Zenon DEF Scopes!SetDb
  <2>. QED
    BY <1>0, <2>1, <2>3, <2>4, <2>5 DEF Scopes!TypeOK
<1>5. ASSUME NEW o \in BOOLEAN, Scopes!Open(o)
      PROVE  Scopes!TypeOK'
  <2>. DEFINE s == [client |-> clients + 1, previous |-> current,
                    override |-> o, phase |-> "open"]
  <2>1. /\ clients + 1 \in 0 .. MaxClients /\ clients' = clients + 1
        /\ current' = clients + 1 /\ Len(scopes) < MaxScopes
        /\ levels' = Append(levels, clients + 1)
        /\ scopes' = Append(scopes, s)
    BY <1>0, <1>5 DEF Scopes!Open
  <2>2. s \in Scopes!Scopes
    BY <1>0, <2>1 DEF Scopes!Scopes, Scopes!Phases
  <2>. HIDE DEF s
  <2>3. levels \in Seq(0 .. clients + 1)
    BY <1>0, Widened
  <2>4. levels' \in Seq(0 .. clients + 1) /\ levels' # <<>>
    BY <1>0, <2>1, <2>3, Appended
  <2>5. scopes' \in Seq(Scopes!Scopes) /\ Len(scopes') = Len(scopes) + 1
    BY <1>0, <2>1, <2>2, Appended
  <2>6. nested' \in BOOLEAN
    BY <1>0, <1>5, Zenon DEF Scopes!Open
  <2>. QED
    BY <1>0, <2>1, <2>4, <2>5, <2>6 DEF Scopes!TypeOK
<1>6. ASSUME NEW i \in DOMAIN scopes, Scopes!Dispose(i)
      PROVE  Scopes!TypeOK'
  <2>1. nested' \in BOOLEAN
    BY <1>0, <1>6, Zenon DEF Scopes!Dispose
  <2>. QED
    BY <1>0, <1>2, <1>3, <1>6, <2>1 DEF Scopes!Dispose, Scopes!Phases
<1>7. ASSUME NEW i \in DOMAIN scopes, Scopes!Closed(i)
      PROVE  Scopes!TypeOK'
  BY <1>0, <1>1, <1>2, <1>3, <1>7 DEF Scopes!Closed, Scopes!Phases
<1>8. ASSUME NEW i \in DOMAIN scopes, Scopes!CloseFails(i)
      PROVE  Scopes!TypeOK'
  BY <1>0, <1>2, <1>3, <1>8 DEF Scopes!CloseFails, Scopes!Phases
<1>9. ASSUME NEW i \in DOMAIN scopes, Scopes!Restore(i)
      PROVE  Scopes!TypeOK'
  <2>1. nested' \in BOOLEAN
    BY <1>0, <1>9, Zenon DEF Scopes!Restore
  <2>. QED
    BY <1>0, <1>1, <1>2, <1>3, <1>9, <2>1 DEF Scopes!Restore, Scopes!Phases
<1>. QED
  BY <1>4, <1>5, <1>6, <1>7, <1>8, <1>9 DEF Scopes!Next

(* A step that gives a scope another phase changes nothing else of it.     *)
LEMMA PhaseChanged ==
    ASSUME ScopesTypes, NEW i \in DOMAIN scopes, NEW p,
           scopes' = [scopes EXCEPT ![i].phase = p]
    PROVE  /\ DOMAIN scopes' = DOMAIN scopes
           /\ scopes'[i].phase = p
           /\ \A j \in DOMAIN scopes :
                /\ scopes'[j].client = scopes[j].client
                /\ scopes'[j].previous = scopes[j].previous
                /\ j # i => scopes'[j].phase = scopes[j].phase
<1>1. \A j \in DOMAIN scopes : scopes[j] \in Scopes!Scopes
  BY DEF ScopesTypes
<1>. QED
  BY <1>1 DEF ScopesTypes, Scopes!Scopes

(* The innermost scope goes, and its level with it.                        *)
LEMMA InnermostGoes ==
    ASSUME ScopesTypes, Scopes!ScopesInv, nested,
           NEW i \in Scopes!Inside, \A j \in Scopes!Inside : j <= i,
           scopes' = [scopes EXCEPT ![i].phase = "disposed"],
           current' = scopes[i].previous,
           Scopes!Pop, clients' = clients
    PROVE  Scopes!ScopesInv'
<1>. USE DEF ScopesTypes
<1>0. PICK n \in Nat : n = Len(levels) /\ DOMAIN levels = 1 .. n
  OBVIOUS
<1>1. PICK level \in [Scopes!Inside -> 1 .. n - 1] : Scopes!Stacked(level)
  BY <1>0 DEF Scopes!ScopesInv
<1>14. /\ \A d \in 1 .. n - 1 : \E j \in Scopes!Inside : level[j] = d
       /\ \A j, k \in Scopes!Inside : j < k => level[j] < level[k]
       /\ \A j \in Scopes!Inside :
            /\ scopes[j].previous = levels[level[j]]
            /\ \A d \in 1 .. level[j] : levels[d] # scopes[j].client
  BY <1>0, <1>1, Zenon DEF Scopes!Stacked
<1>2. \A j \in Scopes!Inside : j \in DOMAIN scopes /\ j \in Nat
  BY DEF Scopes!Inside
<1>3. /\ DOMAIN scopes' = DOMAIN scopes
      /\ scopes'[i].phase = "disposed"
      /\ \A j \in DOMAIN scopes :
           /\ scopes'[j].client = scopes[j].client
           /\ scopes'[j].previous = scopes[j].previous
           /\ j # i => scopes'[j].phase = scopes[j].phase
  BY <1>2, PhaseChanged
<1>4. Scopes!Inside' = Scopes!Inside \ {i}
  BY <1>2, <1>3 DEF Scopes!Inside
<1>5. level[i] = n - 1 /\ n > 1
  <2>1. level[i] \in 1 .. n - 1 /\ n - 1 \in 1 .. n - 1
    BY <1>0, <1>1
  <2>2. PICK j \in Scopes!Inside : level[j] = n - 1
    BY <1>14, <2>1
  <2>3. CASE j = i
    BY <1>0, <2>1, <2>2, <2>3
  <2>4. CASE j < i
    <3>1. level[j] < level[i]
      BY <1>14, <2>4
    <3>. QED
      BY <1>0, <2>1, <2>2, <3>1
  <2>. QED
    BY <1>2, <2>3, <2>4
<1>6. \A j \in Scopes!Inside' : level[j] \in 1 .. n - 2
  <2>. SUFFICES ASSUME NEW j \in Scopes!Inside, j # i
                PROVE  level[j] \in 1 .. n - 2
    BY <1>4
  <2>1. level[j] < level[i]
    BY <1>2, <1>14
  <2>. QED
    BY <1>0, <1>1, <1>5, <2>1
<1>7. /\ Len(levels') = n - 1 /\ DOMAIN levels' = 1 .. n - 1
      /\ \A d \in 1 .. n - 1 : levels'[d] = levels[d]
  BY <1>0, <1>5, Popped DEF Scopes!Pop
<1>8. current' = levels'[Len(levels')]
  <2>1. scopes[i].previous = levels[n - 1]
    BY <1>2, <1>5, <1>14
  <2>. QED
    BY <1>0, <1>5, <1>7, <2>1
<1>90. PICK f : f = [j \in Scopes!Inside \ {i} |-> level[j]]
  OBVIOUS
<1>9. /\ f \in [Scopes!Inside' -> 1 .. Len(levels') - 1]
      /\ Scopes!Stacked(f)'
  <2>1. \A j \in Scopes!Inside' : f[j] = level[j] /\ j \in Scopes!Inside
    BY <1>4, <1>90
  <2>2. f \in [Scopes!Inside' -> 1 .. Len(levels') - 1]
    BY <1>0, <1>4, <1>6, <1>7, <1>90
  <2>3. ASSUME NEW d \in 1 .. n - 2
        PROVE  \E j \in Scopes!Inside' : f[j] = d
    <3>0. d \in 1 .. n - 1
      BY <1>0, <1>5, <2>3
    <3>1. PICK j \in Scopes!Inside : level[j] = d
      BY <1>14, <3>0
    <3>2. j # i
      BY <1>0, <1>5, <2>3, <3>1
    <3>. QED
      BY <1>4, <2>1, <3>1, <3>2
  <2>4. \A j, k \in Scopes!Inside' : j < k => f[j] < f[k]
    BY <1>14, <2>1
  <2>5. ASSUME NEW j \in Scopes!Inside'
        PROVE  /\ scopes'[j].previous = levels'[f[j]]
               /\ \A d \in 1 .. f[j] : levels'[d] # scopes'[j].client
    <3>1. /\ scopes[j].previous = levels[level[j]]
          /\ \A d \in 1 .. level[j] : levels[d] # scopes[j].client
      BY <1>14, <2>1
    <3>2. level[j] \in 1 .. n - 2
      BY <1>6
    <3>3. /\ level[j] \in 1 .. n - 1
          /\ \A d \in 1 .. level[j] : d \in 1 .. n - 1
      BY <1>0, <3>2
    <3>4. /\ scopes'[j].previous = scopes[j].previous
          /\ scopes'[j].client = scopes[j].client
      BY <1>2, <1>3, <2>1
    <3>. QED
      BY <1>7, <2>1, <3>1, <3>3, <3>4, Zenon
  <2>6. Len(levels') - 1 = n - 2
    BY <1>0, <1>7
  <2>. QED
    BY <2>2, <2>3, <2>4, <2>5, <2>6 DEF Scopes!Stacked
<1>10. \A j \in DOMAIN scopes' :
         scopes'[j].phase = "disposed" =>
             \A d \in DOMAIN levels' : levels'[d] # scopes'[j].client
  <2>1. \A d \in 1 .. n - 1 : d \in DOMAIN levels
    BY <1>0
  <2>2. \A d \in 1 .. n - 1 : levels[d] # scopes[i].client
    BY <1>2, <1>5, <1>14
  <2>3. \A j \in DOMAIN scopes : scopes[j].phase = "disposed" =>
          \A d \in 1 .. n - 1 : levels[d] # scopes[j].client
    BY <2>1 DEF Scopes!ScopesInv
  <2>. QED
    <3>1. ASSUME NEW j \in DOMAIN scopes, scopes'[j].phase = "disposed",
                 NEW d \in 1 .. n - 1
          PROVE  levels'[d] # scopes'[j].client
      <4>1. levels'[d] = levels[d] /\ scopes'[j].client = scopes[j].client
        BY <1>3, <1>7
      <4>2. CASE j = i
        BY <2>2, <4>1, <4>2
      <4>3. CASE j # i
        BY <1>3, <2>3, <3>1, <4>1, <4>3
      <4>. QED
        BY <4>2, <4>3
    <3>. QED
      BY <1>3, <1>7, <3>1
<1>11. \A j \in DOMAIN scopes' :
         scopes'[j].phase = "closing" => \A k \in Scopes!Inside' : k <= j
  BY <1>3, <1>4 DEF Scopes!ScopesInv
<1>12. \A j \in DOMAIN scopes' : /\ scopes'[j].client \in 1 .. clients'
                                 /\ scopes'[j].previous \in 0 .. clients'
  BY <1>3 DEF Scopes!ScopesInv
<1>. QED
  BY <1>8, <1>9, <1>10, <1>11, <1>12, Zenon DEF Scopes!ScopesInv

(* Every step keeps the invariant of the levels.                           *)
LEMMA ScopesInvStep ==
    ASSUME Scopes!ScopesAssumption, Scopes!TypeOK, Scopes!ScopesInv,
           Scopes!Next
    PROVE  Scopes!ScopesInv'
<1>0. ScopesTypes
  BY ScopesTypesOf
<1>. USE DEF ScopesTypes
<1>1. PICK n \in Nat : /\ n = Len(levels) /\ n > 0 /\ n \in DOMAIN levels
                       /\ DOMAIN levels = 1 .. n
  BY <1>0
<1>2. PICK m \in Nat : m = Len(scopes) /\ DOMAIN scopes = 1 .. m
  BY <1>0
<1>3. \A i \in DOMAIN scopes : /\ scopes[i].client \in 1 .. clients
                               /\ scopes[i].previous \in 0 .. clients
  BY DEF Scopes!ScopesInv
<1>4. CASE Scopes!SetDb
  <2>1. /\ current' \in 0 .. clients' /\ clients' \in Nat
        /\ clients <= clients' /\ scopes' = scopes
        /\ current' = 0 \/ current' > clients
        /\ levels' = [levels EXCEPT ![n] = current']
    BY <1>0, <1>1, <1>4 DEF Scopes!SetDb
  <2>8. nested' => nested /\ ~Scopes!Closing
    BY <1>4, Zenon DEF Scopes!SetDb
  <2>2. /\ DOMAIN levels' = 1 .. n /\ Len(levels') = n
        /\ levels'[n] = current'
        /\ \A d \in 1 .. n - 1 : levels'[d] = levels[d]
    BY <1>0, <1>1, <2>1
  <2>3. \A i \in DOMAIN scopes' : /\ scopes'[i].client \in 1 .. clients'
                                  /\ scopes'[i].previous \in 0 .. clients'
    BY <1>0, <1>3, <2>1
  <2>4. Scopes!Inside' = Scopes!Inside
    BY <2>1 DEF Scopes!Inside
  <2>5. ASSUME nested'
        PROVE  \E level \in [Scopes!Inside' -> 1 .. Len(levels') - 1] :
                  Scopes!Stacked(level)'
    <3>1. PICK level \in [Scopes!Inside -> 1 .. n - 1] : Scopes!Stacked(level)
      BY <1>1, <2>5, <2>8 DEF Scopes!ScopesInv
    <3>2. \A i \in Scopes!Inside :
            level[i] \in 1 .. n - 1 /\ 1 .. level[i] \subseteq 1 .. n - 1
      BY <3>1
    <3>3. Scopes!Stacked(level)'
      BY <1>1, <2>1, <2>2, <2>4, <3>1, <3>2 DEF Scopes!Stacked
    <3>. QED
      BY <2>2, <2>4, <3>1, <3>3
  <2>6. ASSUME nested', NEW i \in DOMAIN scopes, scopes[i].phase = "disposed",
               NEW d \in 1 .. n
        PROVE  levels'[d] # scopes[i].client
    <3>1. \A e \in 1 .. n : levels[e] # scopes[i].client
      BY <1>1, <2>6, <2>8 DEF Scopes!ScopesInv
    <3>2. scopes[i].client # current'
      BY <1>0, <1>3, <2>1
    <3>3. CASE d = n
      BY <2>2, <3>2, <3>3
    <3>4. CASE d \in 1 .. n - 1
      BY <2>2, <3>1, <3>4
    <3>. QED
      BY <1>1, <3>3, <3>4
  <2>7. nested' => \A i \in DOMAIN scopes : scopes[i].phase # "closing"
    BY <2>8 DEF Scopes!Closing
  <2>. QED
    BY <2>1, <2>2, <2>3, <2>5, <2>6, <2>7, Zenon DEF Scopes!ScopesInv
<1>5. ASSUME NEW o \in BOOLEAN, Scopes!Open(o)
      PROVE  Scopes!ScopesInv'
  <2>. DEFINE s == [client |-> clients + 1, previous |-> current,
                    override |-> o, phase |-> "open"]
  <2>1. /\ clients' = clients + 1 /\ clients' \in Nat
        /\ current' = clients' /\ clients' > clients
        /\ scopes' = Append(scopes, s)
        /\ levels' = Append(levels, clients')
    BY <1>0, <1>5 DEF Scopes!Open
  <2>12. nested' => nested /\ ~Scopes!Closing
    BY <1>5, Zenon DEF Scopes!Open
  <2>2. /\ s.client = clients' /\ s.previous = current /\ s.phase = "open"
    BY <2>1
  <2>. HIDE DEF s
  <2>3. /\ DOMAIN scopes' = 1 .. m + 1 /\ scopes'[m + 1] = s
        /\ \A i \in 1 .. m : scopes'[i] = scopes[i]
    BY <1>0, <1>2, <2>1
  <2>4. /\ DOMAIN levels' = 1 .. n + 1 /\ Len(levels') = n + 1
        /\ levels'[n + 1] = clients'
        /\ \A d \in 1 .. n : levels'[d] = levels[d]
    BY <1>0, <1>1, <2>1
  <2>5. \A i \in 1 .. m + 1 : i = m + 1 \/ i \in 1 .. m
    BY <1>2
  <2>6. Scopes!Inside' = Scopes!Inside \cup {m + 1}
    <3>1. \A i : i \in Scopes!Inside' <=>
                   i \in 1 .. m + 1 /\ scopes'[i].phase # "disposed"
      BY <2>3 DEF Scopes!Inside
    <3>2. \A i : i \in Scopes!Inside <=>
                   i \in 1 .. m /\ scopes[i].phase # "disposed"
      BY <1>2 DEF Scopes!Inside
    <3>3. \A i \in 1 .. m : i \in 1 .. m + 1
      BY <1>2
    <3>4. m + 1 \in 1 .. m + 1
      BY <1>2
    <3>. QED
      BY <2>2, <2>3, <2>5, <3>1, <3>2, <3>3, <3>4
  <2>7. \A i \in DOMAIN scopes' : /\ scopes'[i].client \in 1 .. clients'
                                  /\ scopes'[i].previous \in 0 .. clients'
    <3>3. \A x : /\ x \in 1 .. clients => x \in 1 .. clients'
                 /\ x \in 0 .. clients => x \in 0 .. clients'
      BY <1>0, <2>1
    <3>4. ASSUME NEW i \in 1 .. m
          PROVE  scopes'[i] = scopes[i] /\ i \in DOMAIN scopes
      BY <1>2, <2>3
    <3>1. \A i \in 1 .. m : /\ scopes'[i].client \in 1 .. clients'
                            /\ scopes'[i].previous \in 0 .. clients'
      BY <1>3, <3>3, <3>4, Zenon
    <3>2. s.client \in 1 .. clients' /\ s.previous \in 0 .. clients'
      BY <1>0, <2>1, <2>2
    <3>. QED
      BY <2>3, <2>5, <3>1, <3>2
  <2>8. ASSUME nested'
        PROVE  \E level \in [Scopes!Inside' -> 1 .. Len(levels') - 1] :
                  Scopes!Stacked(level)'
    <3>1. PICK level \in [Scopes!Inside -> 1 .. n - 1] : Scopes!Stacked(level)
      BY <1>1, <2>8, <2>12 DEF Scopes!ScopesInv
    <3>90. PICK f : f = [i \in Scopes!Inside \cup {m + 1} |->
                           IF i = m + 1 THEN n ELSE level[i]]
      OBVIOUS
    <3>2. \A i \in Scopes!Inside : i \in 1 .. m /\ i # m + 1 /\ i < m + 1
      BY <1>2 DEF Scopes!Inside
    <3>3. /\ f[m + 1] = n
          /\ \A i \in Scopes!Inside : f[i] = level[i] /\ level[i] \in 1 .. n - 1
          /\ DOMAIN f = Scopes!Inside'
      BY <2>6, <3>1, <3>2, <3>90
    <3>4. f \in [Scopes!Inside' -> 1 .. Len(levels') - 1]
      BY <1>1, <2>4, <2>6, <3>1, <3>2, <3>90
    <3>5. ASSUME NEW d \in 1 .. n
          PROVE  \E i \in Scopes!Inside' : f[i] = d
      <4>1. CASE d = n
        BY <2>6, <3>3, <4>1
      <4>2. CASE d \in 1 .. n - 1
        BY <1>1, <2>6, <3>1, <3>3, <4>2 DEF Scopes!Stacked
      <4>. QED
        BY <1>1, <4>1, <4>2
    <3>6. ASSUME NEW i \in Scopes!Inside', NEW j \in Scopes!Inside', i < j
          PROVE  f[i] < f[j]
      <4>1. i \in Scopes!Inside
        BY <1>2, <2>6, <3>2, <3>6
      <4>2. CASE j = m + 1
        BY <1>1, <3>3, <4>1, <4>2
      <4>3. CASE j \in Scopes!Inside
        BY <3>1, <3>3, <3>6, <4>1, <4>3 DEF Scopes!Stacked
      <4>. QED
        BY <2>6, <4>2, <4>3
    <3>7. ASSUME NEW i \in Scopes!Inside'
          PROVE  /\ scopes'[i].previous = levels'[f[i]]
                 /\ \A d \in 1 .. f[i] : levels'[d] # scopes'[i].client
      <4>1. CASE i = m + 1
        <5>1. current = levels[n]
          BY <1>1, <2>8, <2>12 DEF Scopes!ScopesInv
        <5>2. \A d \in 1 .. n : levels[d] # clients'
          BY <1>0, <1>1, <2>1
        <5>. QED
          BY <1>1, <2>2, <2>3, <2>4, <3>3, <4>1, <5>1, <5>2
      <4>2. CASE i \in Scopes!Inside
        <5>1. /\ level[i] \in 1 .. n
              /\ 1 .. level[i] \subseteq 1 .. n
          BY <1>1, <3>3, <4>2
        <5>2. /\ scopes[i].previous = levels[level[i]]
              /\ \A d \in 1 .. level[i] : levels[d] # scopes[i].client
          BY <3>1, <4>2 DEF Scopes!Stacked
        <5>. QED
          BY <2>3, <2>4, <3>2, <3>3, <4>2, <5>1, <5>2
      <4>. QED
        BY <2>6, <4>1, <4>2
    <3>8. Len(levels') - 1 = n
      BY <1>1, <2>4
    <3>. QED
      BY <3>4, <3>5, <3>6, <3>7, <3>8 DEF Scopes!Stacked
  <2>9. ASSUME nested', NEW i \in DOMAIN scopes', scopes'[i].phase = "disposed",
               NEW d \in DOMAIN levels'
        PROVE  levels'[d] # scopes'[i].client
    <3>1. i \in 1 .. m /\ scopes'[i] = scopes[i]
      BY <2>2, <2>3, <2>5, <2>9
    <3>2. \A e \in 1 .. n : levels[e] # scopes[i].client
      BY <1>1, <1>2, <2>9, <2>12, <3>1 DEF Scopes!ScopesInv
    <3>3. scopes[i].client # clients'
      BY <1>0, <1>2, <1>3, <2>1, <3>1
    <3>4. d = n + 1 \/ d \in 1 .. n
      BY <1>1, <2>4
    <3>. QED
      BY <2>4, <3>1, <3>2, <3>3, <3>4
  <2>10. ASSUME nested', NEW i \in DOMAIN scopes'
         PROVE  scopes'[i].phase # "closing"
    BY <1>2, <2>2, <2>3, <2>5, <2>10, <2>12 DEF Scopes!Closing
  <2>11. current' = levels'[Len(levels')]
    BY <2>1, <2>4
  <2>. QED
    BY <2>7, <2>8, <2>9, <2>10, <2>11, Zenon DEF Scopes!ScopesInv
<1>6. ASSUME NEW i \in DOMAIN scopes, Scopes!Dispose(i)
      PROVE  Scopes!ScopesInv'
  <2>1. /\ scopes[i].phase = "open"
        /\ scopes' = [scopes EXCEPT ![i].phase = "closing"]
        /\ clients' = clients /\ current' = current /\ levels' = levels
        /\ nested' => nested /\ Scopes!Innermost(i) /\ ~Scopes!Closing
    BY <1>6 DEF Scopes!Dispose
  <2>2. /\ DOMAIN scopes' = DOMAIN scopes
        /\ scopes'[i].phase = "closing"
        /\ \A j \in DOMAIN scopes :
             /\ scopes'[j].client = scopes[j].client
             /\ scopes'[j].previous = scopes[j].previous
             /\ j # i => scopes'[j].phase = scopes[j].phase
    BY <1>0, <2>1, PhaseChanged
  <2>3. Scopes!Inside' = Scopes!Inside
    BY <2>1, <2>2 DEF Scopes!Inside
  <2>4. ASSUME nested'
        PROVE  \E level \in [Scopes!Inside' -> 1 .. Len(levels') - 1] :
                  Scopes!Stacked(level)'
    <3>1. PICK level \in [Scopes!Inside -> 1 .. Len(levels) - 1] :
            Scopes!Stacked(level)
      BY <2>1, <2>4 DEF Scopes!ScopesInv
    <3>2. Scopes!Inside \subseteq DOMAIN scopes
      BY DEF Scopes!Inside
    <3>3. Scopes!Stacked(level)'
      BY <2>1, <2>2, <2>3, <3>1, <3>2 DEF Scopes!Stacked
    <3>. QED
      BY <2>1, <2>3, <3>1, <3>3
  <2>5. ASSUME nested', NEW j \in DOMAIN scopes, scopes'[j].phase = "closing",
               NEW k \in Scopes!Inside
        PROVE  k <= j
    <3>1. \A x \in DOMAIN scopes : scopes[x].phase # "closing"
      BY <2>1, <2>5 DEF Scopes!Closing
    <3>2. j = i
      BY <2>2, <2>5, <3>1
    <3>3. scopes[k].phase = "open" /\ k \in DOMAIN scopes
      <4>1. k \in DOMAIN scopes /\ scopes[k] \in Scopes!Scopes
        BY <1>0 DEF Scopes!Inside
      <4>. QED
        BY <3>1, <4>1 DEF Scopes!Inside, Scopes!Scopes, Scopes!Phases
    <3>. QED
      BY <2>1, <2>5, <3>2, <3>3 DEF Scopes!Innermost
  <2>6. \A j \in DOMAIN scopes' : /\ scopes'[j].client \in 1 .. clients'
                                  /\ scopes'[j].previous \in 0 .. clients'
    BY <1>3, <2>1, <2>2
  <2>7. ASSUME nested', NEW j \in DOMAIN scopes', scopes'[j].phase = "disposed",
               NEW d \in DOMAIN levels'
        PROVE  levels'[d] # scopes'[j].client
    BY <2>1, <2>2, <2>7 DEF Scopes!ScopesInv
  <2>8. nested' => current' = levels'[Len(levels')]
    BY <2>1 DEF Scopes!ScopesInv
  <2>. QED
    BY <2>2, <2>3, <2>4, <2>5, <2>6, <2>7, <2>8, Zenon DEF Scopes!ScopesInv
<1>7. \A i \in DOMAIN scopes : scopes' = [scopes EXCEPT ![i].phase = "disposed"]
        /\ clients' = clients =>
            \A j \in DOMAIN scopes' : /\ scopes'[j].client \in 1 .. clients'
                                      /\ scopes'[j].previous \in 0 .. clients'
  BY <1>0, <1>3, PhaseChanged
<1>8. ASSUME NEW i \in DOMAIN scopes, Scopes!Closed(i)
      PROVE  Scopes!ScopesInv'
  <2>1. /\ scopes[i].phase = "closing" /\ nested' = nested
        /\ scopes' = [scopes EXCEPT ![i].phase = "disposed"]
        /\ current' = scopes[i].previous /\ clients' = clients /\ Scopes!Pop
    BY <1>8 DEF Scopes!Closed
  <2>2. CASE nested
    <3>1. i \in Scopes!Inside /\ \A j \in Scopes!Inside : j <= i
      BY <2>1, <2>2 DEF Scopes!ScopesInv, Scopes!Inside
    <3>. QED
      BY <1>0, <2>1, <2>2, <3>1, InnermostGoes
  <2>3. CASE ~nested
    BY <1>7, <2>1, <2>3, Zenon DEF Scopes!ScopesInv
  <2>. QED
    BY <2>2, <2>3
<1>9. ASSUME NEW i \in DOMAIN scopes, Scopes!CloseFails(i)
      PROVE  Scopes!ScopesInv'
  BY <1>7, <1>9, Zenon DEF Scopes!CloseFails, Scopes!ScopesInv
<1>10. ASSUME NEW i \in DOMAIN scopes, Scopes!Restore(i)
       PROVE  Scopes!ScopesInv'
  <2>1. /\ scopes[i].phase = "open"
        /\ scopes' = [scopes EXCEPT ![i].phase = "disposed"]
        /\ current' = scopes[i].previous /\ clients' = clients /\ Scopes!Pop
        /\ nested' => nested /\ Scopes!Innermost(i) /\ ~Scopes!Closing
    BY <1>10 DEF Scopes!Restore
  <2>2. CASE nested'
    <3>1. \A k \in Scopes!Inside :
            scopes[k].phase = "open" /\ k \in DOMAIN scopes
      <4>1. \A k \in Scopes!Inside :
              k \in DOMAIN scopes /\ scopes[k] \in Scopes!Scopes
        BY <1>0 DEF Scopes!Inside
      <4>. QED
        BY <2>1, <2>2, <4>1
           DEF Scopes!Inside, Scopes!Scopes, Scopes!Phases, Scopes!Closing
    <3>2. i \in Scopes!Inside /\ \A j \in Scopes!Inside : j <= i
      BY <2>1, <2>2, <3>1 DEF Scopes!Innermost, Scopes!Inside
    <3>. QED
      BY <1>0, <2>1, <2>2, <3>2, InnermostGoes
  <2>3. CASE ~nested'
    BY <1>7, <2>1, <2>3, Zenon DEF Scopes!ScopesInv
  <2>. QED
    BY <2>2, <2>3
<1>. QED
  BY <1>4, <1>5, <1>6, <1>8, <1>9, <1>10 DEF Scopes!Next

---------------------------------------------------------------------------
(* session.ts and connection/auth.ts                                       *)

(* Whether a manager's call has been served and not yet been answered.     *)
ServedManager ==
    \E t \in Tasks :
        asking[t].op \in Sessions!ManagerOps /\ asking[t].at = "served"

(* Nobody has asked at first.                                              *)
LEMMA SessionsInitially ==
    Sessions!Init => Sessions!SessionsInv
<1>. SUFFICES ASSUME Sessions!Init
              PROVE  Sessions!SessionsInv
  OBVIOUS
<1>. DEFINE s == Sessions!Session("d", Sessions!None, TRUE)
<1>1. s \in Sessions!AllSessions /\ s.user = Sessions!None
  BY DEF Sessions!Session, Sessions!AllSessions, Sessions!Databases
<1>. HIDE DEF s
<1>2. /\ sessions = <<s>> /\ own = sessions
      /\ token = Sessions!None /\ authType = Sessions!None
      /\ asking = [t \in Tasks |-> Sessions!Quiet]
  BY DEF Sessions!Init, s
<1>3. /\ sessions \in Seq(Sessions!AllSessions) /\ sessions # <<>>
      /\ DOMAIN sessions = {1} /\ sessions[1].user = Sessions!None
  BY <1>1, <1>2
<1>. USE DEF Sessions!Quiet, Sessions!None, Sessions!ManagerOps
<1>4. Sessions!Quiet \in Sessions!Calls
  BY DEF Sessions!Calls, Sessions!Ops
<1>5. Sessions!AskingInv
  BY <1>2, <1>3, <1>4 DEF Sessions!AskingInv
<1>6. Sessions!TokenInv
  BY <1>2, <1>3 DEF Sessions!TokenInv
<1>. QED
  BY <1>2, <1>3, <1>5, <1>6 DEF Sessions!SessionsInv, Sessions!SessionsApart

(* A call is asked: only what is asked, and whether calls overlap, change. *)
LEMMA AskKeeps ==
    ASSUME Sessions!SessionsInv, NEW t \in Tasks,
           NEW op \in Sessions!Ops \ {Sessions!None},
           NEW on \in DOMAIN sessions,
           NEW arg \in Sessions!Users \cup Sessions!Databases
                           \cup {Sessions!None},
           op \in Sessions!ManagerOps \ {"invalidate"}
               => arg \in Sessions!Users,
           op = "invalidate" => arg = Sessions!None,
           op = "use" => arg \in Sessions!Databases \cup {Sessions!None},
           op = "sessionSignin" => arg = "database",
           op \in Sessions!ManagerOps => on = 1,
           op \in {"use", "sessionSignin", "close"} => on # 1,
           Sessions!Ask(t, op, on, arg)
    PROVE  Sessions!SessionsInv'
<1>. DEFINE c == [at |-> "sent", op |-> op, on |-> on, arg |-> arg]
<1>1. /\ asking[t].at = "idle" /\ asking' = [asking EXCEPT ![t] = c]
      /\ apart' = (\/ apart
                   \/ /\ op \in Sessions!ManagerOps
                      /\ \E u \in Tasks : asking[u].op \in Sessions!ManagerOps)
      /\ sessions' = sessions /\ own' = own
      /\ token' = token /\ authType' = authType
  BY DEF Sessions!Ask
<1>2. /\ sessions \in Seq(Sessions!AllSessions) /\ sessions # <<>>
      /\ Sessions!SessionsApart
      /\ asking \in [Tasks -> Sessions!Calls]
  BY DEF Sessions!SessionsInv, Sessions!AskingInv
<1>3. c \in Sessions!Calls /\ c.at = "sent" /\ c.op = op /\ c.arg = arg
      /\ c.on = on
  BY <1>2 DEF Sessions!Calls
<1>. HIDE DEF c
<1>4. asking' \in [Tasks -> Sessions!Calls] /\ asking'[t] = c
      /\ \A u \in Tasks \ {t} : asking'[u] = asking[u]
  BY <1>1, <1>2, <1>3
<1>5. Sessions!AskingInv'
  BY <1>1, <1>3, <1>4 DEF Sessions!SessionsInv, Sessions!AskingInv
<1>6. asking[t].op \notin Sessions!ManagerOps
  BY <1>1 DEF Sessions!SessionsInv, Sessions!AskingInv, Sessions!ManagerOps,
     Sessions!None
<1>7. ServedManager' <=> ServedManager
  BY <1>1, <1>3, <1>4 DEF ServedManager
<1>8. Sessions!TokenInv'
  <2>. SUFFICES ASSUME ~apart'
                PROVE  Sessions!TokenInv'
    BY DEF Sessions!TokenInv
  <2>1. /\ ~apart
        /\ op \in Sessions!ManagerOps =>
             \A u \in Tasks : asking[u].op \notin Sessions!ManagerOps
    BY <1>1
  <2>2. /\ \A x, y \in Tasks :
             {asking[x].op, asking[y].op} \subseteq Sessions!ManagerOps => x = y
        /\ token = Sessions!None => authType = Sessions!None
        /\ ServedManager => \A x \in Tasks :
             asking[x].op \in Sessions!ManagerOps =>
                 asking[x].arg = sessions[1].user
        /\ ~ServedManager => token = sessions[1].user
    BY <2>1 DEF Sessions!SessionsInv, Sessions!TokenInv, ServedManager
  <2>3. \A x, y \in Tasks :
          {asking'[x].op, asking'[y].op} \subseteq Sessions!ManagerOps => x = y
    BY <1>3, <1>4, <2>1, <2>2
  <2>4. ServedManager => \A x \in Tasks :
          asking'[x].op \in Sessions!ManagerOps =>
              asking'[x].arg = sessions[1].user
    BY <1>3, <1>4, <2>1, <2>2 DEF ServedManager
  <2>. QED
    BY <1>1, <1>7, <2>2, <2>3, <2>4 DEF Sessions!TokenInv, ServedManager
<1>. QED
  BY <1>1, <1>2, <1>5, <1>8 DEF Sessions!SessionsInv, Sessions!SessionsApart

(* Every step of the sessions keeps their invariant.                       *)
LEMMA SessionsStep ==
    ASSUME Sessions!SessionsInv, Sessions!Next
    PROVE  Sessions!SessionsInv'
<1>1. /\ sessions \in Seq(Sessions!AllSessions) /\ sessions # <<>>
      /\ own = sessions /\ 1 \in DOMAIN sessions
      /\ asking \in [Tasks -> Sessions!Calls]
      /\ Sessions!AskingInv /\ Sessions!TokenInv
  BY DEF Sessions!SessionsInv, Sessions!SessionsApart, Sessions!AskingInv
<1>2. ~apart =>
        /\ \A x, y \in Tasks :
             {asking[x].op, asking[y].op} \subseteq Sessions!ManagerOps => x = y
        /\ token = Sessions!None => authType = Sessions!None
        /\ ServedManager => \A x \in Tasks :
             asking[x].op \in Sessions!ManagerOps =>
                 asking[x].arg = sessions[1].user
        /\ ~ServedManager => token = sessions[1].user
  BY <1>1 DEF Sessions!TokenInv, ServedManager
<1>3. \A i \in Sessions!Opened : i \in DOMAIN sessions /\ i # 1
  BY <1>1 DEF Sessions!Opened
<1>. USE DEF Sessions!None, Sessions!ManagerOps, Sessions!Ops, Sessions!Users,
             Sessions!Databases
<1>4. ASSUME NEW t \in Tasks, Sessions!Signup(t)
      PROVE  Sessions!SessionsInv'
  BY <1>1, <1>4, AskKeeps DEF Sessions!Signup
<1>5. ASSUME NEW t \in Tasks, Sessions!Signin(t)
      PROVE  Sessions!SessionsInv'
  BY <1>1, <1>5, AskKeeps DEF Sessions!Signin
<1>6. ASSUME NEW t \in Tasks, Sessions!Authenticate(t)
      PROVE  Sessions!SessionsInv'
  BY <1>1, <1>6, AskKeeps DEF Sessions!Authenticate
<1>7. ASSUME NEW t \in Tasks, Sessions!Invalidate(t)
      PROVE  Sessions!SessionsInv'
  BY <1>1, <1>7, AskKeeps DEF Sessions!Invalidate
<1>8. ASSUME NEW t \in Tasks, Sessions!NewSession(t)
      PROVE  Sessions!SessionsInv'
  BY <1>1, <1>8, AskKeeps DEF Sessions!NewSession
<1>9. ASSUME NEW t \in Tasks, Sessions!Use(t)
      PROVE  Sessions!SessionsInv'
  BY <1>1, <1>3, <1>9, AskKeeps DEF Sessions!Use
<1>10. ASSUME NEW t \in Tasks, Sessions!SessionSignin(t)
       PROVE  Sessions!SessionsInv'
  BY <1>1, <1>3, <1>10, AskKeeps DEF Sessions!SessionSignin
<1>11. ASSUME NEW t \in Tasks, Sessions!ForkSession(t)
       PROVE  Sessions!SessionsInv'
  BY <1>1, <1>3, <1>11, AskKeeps DEF Sessions!ForkSession
<1>12. ASSUME NEW t \in Tasks, Sessions!CloseSession(t)
       PROVE  Sessions!SessionsInv'
  BY <1>1, <1>3, <1>12, AskKeeps DEF Sessions!CloseSession
<1>. USE DEF Sessions!Quiet
<1>13. ASSUME NEW t \in Tasks, asking' = [asking EXCEPT ![t] = Sessions!Quiet],
              UNCHANGED <<sessions, own>>
       PROVE  /\ Sessions!AskingInv'
              /\ \A x \in Tasks :
                   /\ x # t => asking'[x] = asking[x]
                   /\ asking'[x].op \in Sessions!ManagerOps => x # t
  <2>1. Sessions!Quiet \in Sessions!Calls
    BY DEF Sessions!Calls
  <2>2. /\ asking' \in [Tasks -> Sessions!Calls]
        /\ asking'[t] = Sessions!Quiet
        /\ \A x \in Tasks \ {t} : asking'[x] = asking[x]
    BY <1>1, <1>13, <2>1
  <2>. QED
    BY <1>1, <1>13, <2>2 DEF Sessions!AskingInv
<1>14. ASSUME NEW t \in Tasks, Sessions!Serve(t)
       PROVE  Sessions!SessionsInv'
  <2>. DEFINE call == asking[t]
  <2>1. /\ call \in Sessions!Calls /\ call.at = "sent"
        /\ call.on \in DOMAIN sessions
        /\ call.op \in Sessions!ManagerOps => call.on = 1
        /\ call.op \in {"use", "sessionSignin", "close"} => call.on # 1
    BY <1>1, <1>14 DEF Sessions!Serve, Sessions!AskingInv
  <2>2. own' = sessions'
    BY <1>1, <1>14 DEF Sessions!Serve, Sessions!GetConnection
  <2>. DEFINE Kept == /\ sessions' \in Seq(Sessions!AllSessions)
                      /\ sessions' # <<>>
                      /\ \A i \in DOMAIN sessions : i \in DOMAIN sessions'
                      /\ sessions'[1].user =
                           IF call.op \in Sessions!ManagerOps THEN call.arg
                           ELSE sessions[1].user
  <2>3. ASSUME call.op \in {"newSession", "fork"}
        PROVE  Kept
    <3>1. PICK s \in Sessions!AllSessions : sessions' = Append(sessions, s)
      <4>1. Sessions!Session("d", Sessions!None, TRUE) \in Sessions!AllSessions
        BY DEF Sessions!AllSessions, Sessions!Session
      <4>2. sessions[call.on] \in Sessions!AllSessions
        BY <1>1, <2>1
      <4>. QED
        BY <1>14, <2>3, <4>1, <4>2 DEF Sessions!Serve, Sessions!GetConnection
    <3>2. PICK n \in Nat : n = Len(sessions) /\ DOMAIN sessions = 1 .. n
      BY <1>1
    <3>3. /\ sessions' \in Seq(Sessions!AllSessions) /\ sessions' # <<>>
          /\ DOMAIN sessions' = 1 .. n + 1 /\ sessions'[1] = sessions[1]
      BY <1>1, <3>1, <3>2
    <3>4. call.op \notin Sessions!ManagerOps
      BY <2>3
    <3>. QED
      BY <3>2, <3>3, <3>4
  <2>4. ASSUME call.op \notin {"newSession", "fork"}
        PROVE  Kept
    <3>. DEFINE s == Sessions!Changed(sessions[call.on], call)
    <3>1. sessions' = [sessions EXCEPT ![call.on] = s]
      BY <1>14, <2>4 DEF Sessions!Serve, Sessions!GetConnection
    <3>2. /\ call.op \in Sessions!ManagerOps \ {"invalidate"} =>
               call.arg \in Sessions!Users
          /\ call.op = "invalidate" => call.arg = Sessions!None
          /\ call.op = "use" => call.arg \in Sessions!Databases \cup {"none"}
          /\ call.op = "sessionSignin" => call.arg = "database"
      BY <1>1 DEF Sessions!AskingInv
    <3>3. sessions[call.on] \in Sessions!AllSessions
      BY <1>1, <2>1
    <3>4. /\ s \in Sessions!AllSessions
          /\ call.op \in Sessions!ManagerOps => s.user = call.arg
          /\ call.op \notin
               Sessions!ManagerOps \cup {"use", "sessionSignin", "close"} =>
               s = sessions[call.on]
      BY <3>2, <3>3 DEF Sessions!Changed, Sessions!AllSessions
    <3>. HIDE DEF s
    <3>5. /\ sessions' \in Seq(Sessions!AllSessions) /\ sessions' # <<>>
          /\ DOMAIN sessions' = DOMAIN sessions
          /\ sessions'[call.on] = s
          /\ \A i \in DOMAIN sessions \ {call.on} : sessions'[i] = sessions[i]
      BY <1>1, <2>1, <3>1, <3>4, Changed
    <3>6. CASE call.op \in Sessions!ManagerOps
      BY <2>1, <3>4, <3>5, <3>6
    <3>7. CASE call.op \in {"use", "sessionSignin", "close"}
      BY <1>1, <2>1, <3>5, <3>7
    <3>8. CASE call.op \notin
                 Sessions!ManagerOps \cup {"use", "sessionSignin", "close"}
      BY <1>1, <2>1, <3>4, <3>5, <3>8
    <3>. QED
      BY <3>6, <3>7, <3>8
  <2>5. Kept
    BY <2>3, <2>4
  <2>6. CASE asking' = [asking EXCEPT ![t] = Sessions!Quiet] /\ apart' = TRUE
    <3>1. Sessions!Quiet \in Sessions!Calls
      BY DEF Sessions!Calls
    <3>2. /\ asking' \in [Tasks -> Sessions!Calls]
          /\ asking'[t] = Sessions!Quiet
          /\ \A x \in Tasks \ {t} : asking'[x] = asking[x]
      BY <1>1, <2>6, <3>1
    <3>3. 1 \in DOMAIN sessions'
      BY <1>1, <2>5
    <3>4. Sessions!AskingInv'
      BY <1>1, <2>5, <3>2, <3>3 DEF Sessions!AskingInv
    <3>5. Sessions!TokenInv'
      BY <2>6 DEF Sessions!TokenInv
    <3>. QED
      BY <2>2, <2>5, <3>4, <3>5
         DEF Sessions!SessionsInv, Sessions!SessionsApart
  <2>7. CASE asking' = [asking EXCEPT ![t].at = "served"] /\ apart' = apart
    <3>1. /\ asking'[t] \in Sessions!Calls /\ asking'[t].at = "served"
          /\ asking'[t].op = call.op /\ asking'[t].on = call.on
          /\ asking'[t].arg = call.arg
          /\ asking' \in [Tasks -> Sessions!Calls]
          /\ \A x \in Tasks \ {t} : asking'[x] = asking[x]
      BY <1>1, <2>1, <2>7 DEF Sessions!Calls
    <3>2. Sessions!AskingInv'
      BY <1>1, <2>5, <3>1 DEF Sessions!AskingInv
    <3>3. token' = token /\ authType' = authType
      BY <1>14 DEF Sessions!Serve
    <3>4. ASSUME ~apart'
          PROVE  Sessions!TokenInv'
      <4>1. /\ \A x, y \in Tasks :
                 {asking'[x].op, asking'[y].op} \subseteq Sessions!ManagerOps
                     => x = y
            /\ token' = Sessions!None => authType' = Sessions!None
        BY <1>2, <2>7, <3>1, <3>3, <3>4
      <4>2. CASE call.op \in Sessions!ManagerOps
        <5>1. /\ ServedManager'
              /\ \A x \in Tasks : asking'[x].op \in Sessions!ManagerOps =>
                   asking'[x].arg = sessions'[1].user
          BY <2>5, <3>1, <4>1, <4>2 DEF ServedManager
        <5>. QED
          BY <4>1, <5>1 DEF Sessions!TokenInv, ServedManager
      <4>3. CASE call.op \notin Sessions!ManagerOps
        <5>1. /\ ServedManager' <=> ServedManager
              /\ sessions'[1].user = sessions[1].user
              /\ \A x \in Tasks : asking'[x].op = asking[x].op
                                    /\ asking'[x].arg = asking[x].arg
          BY <2>5, <3>1, <4>3 DEF ServedManager
        <5>. QED
          BY <1>2, <2>7, <3>3, <3>4, <4>1, <5>1
             DEF Sessions!TokenInv, ServedManager
      <4>. QED
        BY <4>2, <4>3
    <3>5. Sessions!TokenInv'
      BY <3>4 DEF Sessions!TokenInv
    <3>. QED
      BY <2>2, <2>5, <3>2, <3>5
         DEF Sessions!SessionsInv, Sessions!SessionsApart
  <2>. QED
    BY <1>14, <2>6, <2>7 DEF Sessions!Serve
<1>15. ASSUME NEW t \in Tasks, Sessions!Answer(t)
       PROVE  Sessions!SessionsInv'
  <2>. DEFINE call == asking[t]
  <2>1. /\ call.at = "served" /\ call.op \in Sessions!Ops
        /\ asking' = [asking EXCEPT ![t] = Sessions!Quiet]
        /\ UNCHANGED <<sessions, own, apart>>
    BY <1>1, <1>15 DEF Sessions!Answer, Sessions!Calls
  <2>2. /\ call.op \in Sessions!ManagerOps => token' = call.arg
        /\ call.op \notin Sessions!ManagerOps =>
             token' = token /\ authType' = authType
        /\ call.op = "invalidate" => authType' = Sessions!None
        /\ call.op \in Sessions!ManagerOps \ {"invalidate"} =>
             token' # Sessions!None
    BY <1>1, <1>15 DEF Sessions!Answer, Sessions!AskingInv
  <2>3. /\ Sessions!AskingInv'
        /\ \A x \in Tasks :
             /\ x # t => asking'[x] = asking[x]
             /\ asking'[x].op \in Sessions!ManagerOps => x # t
    BY <1>13, <2>1
  <2>4. ASSUME ~apart'
        PROVE  Sessions!TokenInv'
    <3>1. \A x, y \in Tasks :
            {asking'[x].op, asking'[y].op} \subseteq Sessions!ManagerOps
                => x = y
      BY <1>2, <2>1, <2>3, <2>4
    <3>2. token' = Sessions!None => authType' = Sessions!None
      BY <1>2, <2>1, <2>2, <2>4
    <3>3. CASE call.op \in Sessions!ManagerOps
      <4>1. /\ call.arg = sessions[1].user
            /\ \A x \in Tasks : asking'[x].op \notin Sessions!ManagerOps
        BY <1>2, <2>1, <2>3, <2>4, <3>3 DEF ServedManager
      <4>. QED
        BY <2>1, <2>2, <3>1, <3>2, <3>3, <4>1 DEF Sessions!TokenInv
    <3>4. CASE call.op \notin Sessions!ManagerOps
      <4>1. /\ ServedManager' <=> ServedManager
            /\ \A x \in Tasks : asking'[x].op \in Sessions!ManagerOps =>
                 asking'[x] = asking[x]
        BY <2>1, <2>3, <3>4 DEF ServedManager
      <4>. QED
        BY <1>2, <2>1, <2>2, <2>4, <3>1, <3>2, <3>4, <4>1
           DEF Sessions!TokenInv, ServedManager
    <3>. QED
      BY <3>3, <3>4
  <2>5. Sessions!TokenInv'
    BY <2>4 DEF Sessions!TokenInv
  <2>. QED
    BY <1>1, <2>1, <2>3, <2>5 DEF Sessions!SessionsInv, Sessions!SessionsApart
<1>16. ASSUME NEW t \in Tasks, Sessions!Refuse(t)
       PROVE  Sessions!SessionsInv'
  <2>1. /\ asking[t].at = "sent"
        /\ asking' = [asking EXCEPT ![t] = Sessions!Quiet]
        /\ UNCHANGED <<sessions, own, apart, token, authType>>
    BY <1>16 DEF Sessions!Refuse
  <2>2. /\ Sessions!AskingInv'
        /\ \A x \in Tasks :
             /\ x # t => asking'[x] = asking[x]
             /\ asking'[x].op \in Sessions!ManagerOps => x # t
    BY <1>13, <2>1
  <2>3. /\ ServedManager' <=> ServedManager
        /\ \A x \in Tasks : asking'[x].op \in Sessions!ManagerOps =>
             asking'[x] = asking[x]
    BY <2>1, <2>2 DEF ServedManager
  <2>4. Sessions!TokenInv'
    BY <1>2, <2>1, <2>3 DEF Sessions!TokenInv, ServedManager
  <2>. QED
    BY <1>1, <2>1, <2>2, <2>4 DEF Sessions!SessionsInv, Sessions!SessionsApart
<1>. QED
  BY <1>4, <1>5, <1>6, <1>7, <1>8, <1>9, <1>10, <1>11, <1>12, <1>14, <1>15,
     <1>16 DEF Sessions!Next

---------------------------------------------------------------------------
(* The current client and the sessions.                                    *)

(* A step of a behaviour is one of the part that it is about, and leaves   *)
(* the others alone.                                                       *)
LEMMA OnePartMoves ==
    ASSUME [Next]_vars
    PROVE  /\ (used = "scopes" /\ Scopes!Next) \/ UNCHANGED scopesVars
           /\ (used = "sessions" /\ Sessions!Next) \/ UNCHANGED sessionsVars
           /\ (used = "settings" /\ Settings!Next) \/ UNCHANGED settingsVars
           /\ (used = "buckets" /\ Buckets!Next) \/ UNCHANGED bucketsVars
           /\ (used = "crud" /\ Crud!Next) \/ UNCHANGED crudVars
           /\ (used = "echo" /\ Echo!Next) \/ UNCHANGED echoVars
           /\ (used = "records" /\ Records!Next) \/ UNCHANGED recordsVars
           /\ (used = "hooks" /\ Hooks!Next) \/ UNCHANGED hooksVars
           /\ (used = "query" /\ Query!Next) \/ UNCHANGED queryVars
           /\ (used = "graph" /\ Graph!Next) \/ UNCHANGED graphVars
           /\ \/ used = "capabilities" /\ Capabilities!Next
              \/ UNCHANGED capabilitiesVars
<1>1. CASE Next
  BY <1>1, Zenon DEF Next, Aside
<1>2. CASE UNCHANGED vars
  BY <1>2, Zenon DEF vars
<1>. QED
  BY <1>1, <1>2

(* As long as scopes are left in the order in which they were entered,     *)
(* each scope that is inside has the client of its level and remembers the *)
(* one below, and the current client is that of the topmost level          *)
(* (context.ts).                                                           *)
THEOREM ScopesInvariant == Spec => [](Scopes!TypeOK /\ Scopes!ScopesInv)
<1>. USE PartsAssumption
<1>1. Init => Scopes!TypeOK /\ Scopes!ScopesInv
  BY ScopesInitially DEF Init
<1>2. Scopes!TypeOK /\ Scopes!ScopesInv /\ [Next]_vars
        => (Scopes!TypeOK /\ Scopes!ScopesInv)'
  <2>. SUFFICES ASSUME Scopes!TypeOK, Scopes!ScopesInv, [Next]_vars
                PROVE  (Scopes!TypeOK /\ Scopes!ScopesInv)'
    OBVIOUS
  <2>1. CASE Scopes!Next
    BY <2>1, ScopesTypeStep, ScopesInvStep
  <2>2. CASE UNCHANGED scopesVars
    <3>1. Scopes!TypeOK'
      BY <2>2, Zenon DEF scopesVars, Scopes!TypeOK
    <3>2. Scopes!Inside' = Scopes!Inside
      BY <2>2, Zenon DEF scopesVars, Scopes!Inside
    <3>3. ASSUME NEW level
          PROVE  Scopes!Stacked(level)' <=> Scopes!Stacked(level)
      BY <2>2, <3>2, Zenon DEF scopesVars, Scopes!Stacked
    <3>4. Scopes!ScopesInv'
      BY <2>2, <3>2, <3>3, Zenon DEF scopesVars, Scopes!ScopesInv
    <3>. QED
      BY <3>1, <3>4
  <2>. QED
    BY <2>1, <2>2, OnePartMoves
<1>. QED
  BY <1>1, <1>2, PTL DEF Spec

(* What is done on one session changes no other, and while the manager's   *)
(* calls do not overlap its token is that of the user who is signed in on  *)
(* the connection (session.ts, auth/connection.ts).                        *)
THEOREM SessionsInvariant == Spec => []Sessions!SessionsInv
<1>. USE PartsAssumption
<1>1. Init => Sessions!SessionsInv
  BY SessionsInitially DEF Init
<1>2. Sessions!SessionsInv /\ [Next]_vars => Sessions!SessionsInv'
  <2>. SUFFICES ASSUME Sessions!SessionsInv, [Next]_vars
                PROVE  Sessions!SessionsInv'
    OBVIOUS
  <2>1. CASE Sessions!Next
    BY <2>1, SessionsStep
  <2>2. CASE UNCHANGED sessionsVars
    BY <2>2, Zenon DEF sessionsVars, Sessions!SessionsInv, Sessions!AskingInv,
       Sessions!TokenInv, Sessions!SessionsApart
  <2>. QED
    BY <2>1, <2>2, OnePartMoves
<1>. QED
  BY <1>1, <1>2, PTL DEF Spec

(* A scope that is left gives back the client that it found, each session  *)
(* is as its own calls have made it, and the token is the connection's.    *)
THEOREM ClientsAreKept == Spec => []ClientsHold
<1>1. Scopes!TypeOK /\ Scopes!ScopesInv /\ Sessions!SessionsInv => ClientsHold
  <2>. SUFFICES ASSUME Scopes!TypeOK, Scopes!ScopesInv, Sessions!SessionsInv
                PROVE  ClientsHold
    OBVIOUS
  <2>1. Scopes!ContextRestored
    <3>1. Len(levels) \in DOMAIN levels
      BY DEF Scopes!TypeOK
    <3>. QED
      BY <3>1 DEF Scopes!ScopesInv, Scopes!ContextRestored
  <2>2. Sessions!TokenIsConnections
    BY DEF Sessions!SessionsInv, Sessions!TokenInv, Sessions!TokenIsConnections
  <2>. QED
    BY <2>1, <2>2 DEF ClientsHold, Sessions!SessionsInv
<1>. QED
  BY <1>1, ScopesInvariant, SessionsInvariant, PTL

---------------------------------------------------------------------------
(* settings.ts                                                             *)

(* What an accessor takes is the value it was given, and only a string or  *)
(* a boolean.                                                              *)
LEMMA PickTakes ==
    ASSUME kind \in Settings!SettingKinds
    PROVE  /\ \A x : Settings!Pick(x) \in {x, Settings!Unset}
           /\ \A x \in Settings!FileStates :
                Settings!Pick(x) \in Settings!Raw \cup {Settings!Unset}
           /\ \A x \in Settings!FileStates \ Settings!Raw :
                Settings!Pick(x) = Settings!Unset
<1>1. \A x : Settings!Pick(x) \in {x, Settings!Unset}
  BY DEF Settings!Pick
<1>. USE DEF Settings!FileStates, Settings!Unset, Settings!Unreadable,
             Settings!Missing, Settings!Malformed, Settings!EmptyFile
<1>2. ASSUME NEW x \in Settings!FileStates \ Settings!Raw
      PROVE  Settings!Pick(x) = Settings!Unset
  <2>1. x.type \notin {"string", "boolean"}
    BY <1>2
  <2>. QED
    BY <2>1 DEF Settings!Pick, Settings!SettingKinds
<1>3. ASSUME NEW x \in Settings!FileStates
      PROVE  Settings!Pick(x) \in Settings!Raw \cup {Settings!Unset}
  BY <1>1, <1>2
<1>. QED
  BY <1>1, <1>2, <1>3

(* What the environment gives is a value or nothing.                       *)
LEMMA CollectedIsRaw ==
    \A x : Settings!CollectEnv(x) \in Settings!Raw \cup {Settings!Unset}
BY DEF Settings!CollectEnv, Settings!ParseEnvValue, Settings!Raw,
   Settings!Texts

(* What comes of a merge is a value that was read, or none.                *)
LEMMA MergeKeepsType ==
    ASSUME kind \in Settings!SettingKinds,
           NEW a \in Settings!Raw \cup {Settings!Unset, Settings!Default},
           NEW x \in Settings!FileStates
    PROVE  Settings!MergeSource(a, x)
               \in Settings!Raw \cup {Settings!Unset, Settings!Default}
BY PickTakes DEF Settings!MergeSource

(* Nothing has been loaded at first.                                       *)
LEMMA SettingsInitially ==
    Settings!SettingsAssumption /\ Settings!Init
        => Settings!TypeOK /\ Settings!SettingsInv
<1>. SUFFICES ASSUME Settings!SettingsAssumption, Settings!Init
              PROVE  Settings!TypeOK /\ Settings!SettingsInv
  OBVIOUS
<1>1. /\ loads = <<>> /\ cached = 0 /\ promise = 0
      /\ edits = 0 /\ clears = 0 /\ raced = FALSE
      /\ calls = [t \in Tasks |-> Settings!Idle]
      /\ MaxLoads \in Nat
  BY DEF Settings!Init, Settings!SettingsAssumption
<1>2. Settings!Idle \in Settings!Calls /\ Settings!Idle.at = "idle"
      /\ Settings!Idle.load = 0
  BY DEF Settings!Idle, Settings!Calls
<1>3. config \in [Settings!Candidates -> Settings!FileStates]
  BY DEF Settings!Init, Settings!FileStates
<1>4. /\ \A i \in DOMAIN loads : FALSE
      /\ Len(loads) = 0 /\ loads \in Seq(Settings!Loads)
  BY <1>1
<1>5. Settings!TypeOK
  BY <1>1, <1>2, <1>3, <1>4
     DEF Settings!Init, Settings!TypeOK, Settings!FileStates
<1>6. Settings!ClearedIsReread /\ Settings!CacheInv
  BY <1>1, <1>2 DEF Settings!ClearedIsReread, Settings!CacheInv
<1>7. Settings!SettingsInv
  <2>1. \A t \in Tasks : calls[t].at = "idle"
    BY <1>1, <1>2
  <2>2. calls \in [Tasks -> Settings!Calls]
    BY <1>1, <1>2
  <2>3. {edits, clears} \subseteq Nat
    BY <1>1
  <2>4. raced \in BOOLEAN
    BY <1>1, Zenon
  <2>. QED
    BY <1>4, <1>6, <2>1, <2>2, <2>3, <2>4 DEF Settings!SettingsInv
<1>. QED
  BY <1>5, <1>7

(* The types, taken apart.                                                 *)
SettingsTypes ==
    /\ MaxLoads \in Nat
    /\ kind \in Settings!SettingKinds
    /\ env \in Settings!Texts \cup {"unset"}
    /\ dotenv \in Settings!Texts \cup {"missing", "unreadable"}
    /\ config \in [Settings!Candidates -> Settings!FileStates]
    /\ loads \in Seq(Settings!Loads) /\ Len(loads) <= MaxLoads
    /\ calls \in [Tasks -> Settings!Calls]
    /\ {cached, promise} \subseteq 0 .. Len(loads)
    /\ \A t \in Tasks :
        /\ calls[t].load \in 0 .. Len(loads)
        /\ calls[t].at \in {"waiting", "returned"} =>
            calls[t].load \in DOMAIN loads
    /\ edits \in Nat /\ clears \in Nat /\ raced \in BOOLEAN

(* The types follow from the invariant.                                    *)
LEMMA SettingsTypesOf ==
    Settings!SettingsAssumption /\ Settings!TypeOK /\ Settings!SettingsInv
        => SettingsTypes
BY DEF Settings!SettingsAssumption, Settings!TypeOK, Settings!SettingsInv,
   SettingsTypes, Settings!FileStates

(* And give the type invariant back.                                       *)
LEMMA SettingsTypesGive ==
    ASSUME SettingsTypes'
    PROVE  Settings!TypeOK'
<1>1. \A i \in DOMAIN loads' : loads'[i] \in Settings!Loads
  BY DEF SettingsTypes
<1>2. \A i \in DOMAIN loads' :
        /\ loads'[i].at \in {"dotenv", "config", "done", "failed"}
        /\ loads'[i].accum
             \in Settings!Raw \cup {Settings!Unset, Settings!Default}
        /\ loads'[i].candidate \in 1 .. 4
  BY <1>1 DEF Settings!Loads
<1>3. \A t \in Tasks :
        /\ calls'[t].at \in {"idle", "waiting", "returned", "failed"}
        /\ calls'[t].load \in 0 .. Len(loads')
  BY DEF SettingsTypes, Settings!Calls
<1>. QED
  BY <1>2, <1>3 DEF SettingsTypes, Settings!TypeOK, Settings!FileStates

(* As long as no source is edited, what the sources give is the same.      *)
LEMMA SourcesSame ==
    ASSUME UNCHANGED <<kind, env, dotenv, config>>
    PROVE  /\ Settings!AfterEnv' = Settings!AfterEnv
           /\ Settings!AfterDotenv' = Settings!AfterDotenv
           /\ Settings!AfterConfig' = Settings!AfterConfig
BY DEF Settings!AfterEnv, Settings!AfterDotenv, Settings!AfterConfig,
   Settings!MergeSource, Settings!Pick, Settings!FirstDocument,
   Settings!Documents

(* A load goes on: it is another one now, started when it was.             *)
LEMMA LoadGoesOn ==
    ASSUME SettingsTypes, Settings!SettingsInv,
           NEW i \in DOMAIN loads, NEW load \in Settings!Loads,
           load.edits = loads[i].edits, load.clears = loads[i].clears,
           loads' = [loads EXCEPT ![i] = load],
           UNCHANGED <<kind, env, dotenv, config, edits, clears, cached,
                       promise, calls, raced>>,
           load.edits = edits => Settings!MergedSoFar(load)
    PROVE  SettingsTypes' /\ Settings!SettingsInv'
<1>1. /\ loads' \in Seq(Settings!Loads) /\ Len(loads') = Len(loads)
      /\ DOMAIN loads' = DOMAIN loads /\ loads'[i] = load
      /\ \A j \in DOMAIN loads \ {i} : loads'[j] = loads[j]
  BY Changed DEF SettingsTypes
<1>2. \A j \in DOMAIN loads : /\ loads'[j].edits = loads[j].edits
                              /\ loads'[j].clears = loads[j].clears
  BY <1>1
<1>3. SettingsTypes'
  BY <1>1 DEF SettingsTypes
<1>4. /\ Settings!AfterEnv' = Settings!AfterEnv
      /\ Settings!AfterDotenv' = Settings!AfterDotenv
      /\ Settings!AfterConfig' = Settings!AfterConfig
  BY SourcesSame
<1>5. ASSUME NEW j \in DOMAIN loads', loads'[j].edits = edits'
      PROVE  Settings!MergedSoFar(loads[j])'
  <2>1. PICK x : x = loads'[j]
    OBVIOUS
  <2>2. Settings!MergedSoFar(x)
    BY <1>1, <1>5, <2>1 DEF Settings!SettingsInv
  <2>. QED
    BY <1>4, <2>1, <2>2 DEF Settings!MergedSoFar
<1>6. Settings!CacheInv'
  <2>1. /\ promise # 0 => promise \in DOMAIN loads
        /\ cached # 0 => cached \in DOMAIN loads
        /\ \A t \in Tasks : calls[t].at \in {"waiting", "returned"} =>
             calls[t].load \in DOMAIN loads
    BY DEF SettingsTypes
  <2>. QED
    BY <1>2, <2>1 DEF Settings!SettingsInv, Settings!CacheInv, Settings!AsNew,
       Settings!ClearedIsReread
<1>7. \A j \in DOMAIN loads' : loads'[j].edits <= edits'
  BY <1>1, <1>2 DEF Settings!SettingsInv
<1>. QED
  BY <1>3, <1>5, <1>6, <1>7 DEF Settings!SettingsInv, SettingsTypes

(* The first document is the one at which the candidates that are passed   *)
(* over end.                                                               *)
LEMMA FirstDocumentIs ==
    ASSUME SettingsTypes, NEW c \in 1 .. 4,
           \A d \in Settings!Candidates : d < c =>
               config[d] \in {Settings!Missing, Settings!EmptyFile}
    PROVE  /\ c \notin Settings!Candidates =>
                Settings!FirstDocument = Settings!Missing
           /\ c \in Settings!Candidates
              /\ config[c] \notin {Settings!Missing, Settings!EmptyFile} =>
                Settings!FirstDocument = config[c]
<1>. USE DEF Settings!Candidates
<1>1. CASE c \notin Settings!Candidates
  <2>1. \A d \in 1 .. 3 : d < c
    BY <1>1
  <2>. QED
    BY <1>1, <2>1 DEF Settings!FirstDocument, Settings!Documents
<1>2. CASE c \in Settings!Candidates
           /\ config[c] \notin {Settings!Missing, Settings!EmptyFile}
  <2>. DEFINE k == CHOOSE i \in Settings!Documents :
                      \A j \in Settings!Documents : i <= j
  <2>1. c \in Settings!Documents /\ \A j \in Settings!Documents : c <= j
    BY <1>2 DEF Settings!Documents
  <2>2. k \in Settings!Documents /\ \A j \in Settings!Documents : k <= j
    BY <2>1, Zenon
  <2>3. k = c
    BY <2>1, <2>2 DEF Settings!Documents
  <2>. QED
    BY <1>2, <2>1, <2>3 DEF Settings!FirstDocument
<1>. QED
  BY <1>1, <1>2

(* The loads are as good as they were if nothing that they read changes.   *)
LEMMA LoadsStay ==
    ASSUME Settings!SettingsInv,
           UNCHANGED <<kind, env, dotenv, config, edits, loads>>
    PROVE  \A i \in DOMAIN loads' :
             /\ loads'[i].edits <= edits'
             /\ loads'[i].edits = edits' => Settings!MergedSoFar(loads[i])'
<1>1. /\ Settings!AfterEnv' = Settings!AfterEnv
      /\ Settings!AfterDotenv' = Settings!AfterDotenv
      /\ Settings!AfterConfig' = Settings!AfterConfig
  BY SourcesSame
<1>. QED
  BY <1>1 DEF Settings!SettingsInv, Settings!MergedSoFar

(* Every step of the loads keeps their invariant.                          *)
LEMMA SettingsStep ==
    ASSUME Settings!SettingsAssumption, Settings!TypeOK,
           Settings!SettingsInv, Settings!Next
    PROVE  Settings!TypeOK' /\ Settings!SettingsInv'
<1>0. SettingsTypes /\ kind \in Settings!SettingKinds
  BY SettingsTypesOf DEF SettingsTypes
<1>10. PICK n \in Nat : n = Len(loads) /\ DOMAIN loads = 1 .. n
  BY <1>0 DEF SettingsTypes
<1>11. /\ promise \in 0 .. n /\ cached \in 0 .. n
       /\ promise # 0 => promise \in 1 .. n
       /\ cached # 0 => cached \in 1 .. n
  BY <1>0, <1>10 DEF SettingsTypes
<1>12. ASSUME NEW t \in Tasks, NEW c \in Settings!Calls, c.clears = clears,
              c.load \in 1 .. n, Settings!AsNew(c.load) \/ raced,
              c.at \in {"waiting", "returned"},
              calls' = [calls EXCEPT ![t] = c],
              UNCHANGED <<kind, env, dotenv, config, edits, clears, loads,
                          cached, promise, raced>>
       PROVE  SettingsTypes' /\ Settings!SettingsInv'
  <2>1. /\ calls' \in [Tasks -> Settings!Calls] /\ calls'[t] = c
        /\ \A u \in Tasks \ {t} : calls'[u] = calls[u]
    BY <1>0, <1>12 DEF SettingsTypes
  <2>2. SettingsTypes'
    BY <1>0, <1>10, <1>12, <2>1 DEF SettingsTypes
  <2>3. Settings!CacheInv'
    <3>1. raced \/ /\ loads[c.load].clears = clears
                   /\ loads[c.load].clears >= c.clears
      BY <1>0, <1>12 DEF Settings!AsNew, SettingsTypes
    <3>. QED
      BY <1>12, <2>1, <3>1 DEF Settings!SettingsInv, Settings!CacheInv,
         Settings!AsNew, Settings!ClearedIsReread
  <2>4. \A i \in DOMAIN loads' :
          /\ loads'[i].edits <= edits'
          /\ loads'[i].edits = edits' => Settings!MergedSoFar(loads[i])'
    BY <1>12, LoadsStay
  <2>. QED
    BY <2>2, <2>3, <2>4 DEF Settings!SettingsInv, SettingsTypes
<1>1. ASSUME NEW t \in Tasks, Settings!GetSettings(t)
      PROVE  SettingsTypes' /\ Settings!SettingsInv'
  <2>1. UNCHANGED <<kind, env, dotenv, config, edits, clears, cached, raced>>
    BY <1>1 DEF Settings!GetSettings
  <2>2. CASE cached # 0
    <3>1. PICK c : c = [at |-> "returned", load |-> cached, clears |-> clears]
      OBVIOUS
    <3>2. /\ calls' = [calls EXCEPT ![t] = c]
          /\ UNCHANGED <<loads, promise>>
      BY <1>1, <2>2, <3>1 DEF Settings!GetSettings
    <3>3. /\ c \in Settings!Calls /\ c.clears = clears /\ c.load = cached
          /\ c.at = "returned"
      BY <1>0, <1>10, <1>11, <3>1 DEF Settings!Calls, SettingsTypes
    <3>4. Settings!AsNew(cached) \/ raced
      BY <2>2 DEF Settings!SettingsInv, Settings!CacheInv
    <3>. QED
      BY <1>11, <1>12, <2>1, <2>2, <3>2, <3>3, <3>4
  <2>3. CASE cached = 0 /\ promise # 0
    <3>1. PICK c : c = [at |-> "waiting", load |-> promise, clears |-> clears]
      OBVIOUS
    <3>2. /\ calls' = [calls EXCEPT ![t] = c]
          /\ UNCHANGED <<loads, promise>>
      BY <1>1, <2>3, <3>1 DEF Settings!GetSettings
    <3>3. /\ c \in Settings!Calls /\ c.clears = clears /\ c.load = promise
          /\ c.at = "waiting"
      BY <1>0, <1>10, <1>11, <3>1 DEF Settings!Calls, SettingsTypes
    <3>4. Settings!AsNew(promise)
      BY <2>3 DEF Settings!SettingsInv, Settings!CacheInv
    <3>. QED
      BY <1>11, <1>12, <2>1, <2>3, <3>2, <3>3, <3>4
  <2>4. CASE cached = 0 /\ promise = 0
    <3>1. PICK load :
            load = [at |-> "dotenv",
                    accum |-> Settings!MergeSource(Settings!Unset,
                                                   Settings!CollectEnv(env)),
                    candidate |-> 1, edits |-> edits, clears |-> clears]
      OBVIOUS
    <3>2. /\ load.at = "dotenv" /\ load.accum = Settings!AfterEnv
          /\ load.candidate = 1 /\ load.edits = edits /\ load.clears = clears
      BY <3>1 DEF Settings!AfterEnv
    <3>3. load \in Settings!Loads
      <4>1. Settings!CollectEnv(env) \in Settings!FileStates
        BY CollectedIsRaw DEF Settings!FileStates
      <4>2. Settings!MergeSource(Settings!Unset, Settings!CollectEnv(env))
              \in Settings!Raw \cup {Settings!Unset, Settings!Default}
        BY <1>0, <4>1, MergeKeepsType
      <4>. QED
        BY <1>0, <3>1, <4>2 DEF Settings!Loads, SettingsTypes
    <3>4. Settings!MergedSoFar(load)
      BY <3>2 DEF Settings!MergedSoFar
    <3>5. PICK c : c = [at |-> "waiting", load |-> n + 1, clears |-> clears]
      OBVIOUS
    <3>6. /\ loads' = Append(loads, load) /\ promise' = n + 1
          /\ calls' = [calls EXCEPT ![t] = c] /\ n < MaxLoads
      BY <1>1, <1>10, <2>4, <3>1, <3>5 DEF Settings!GetSettings
    <3>7. /\ c \in Settings!Calls /\ c.clears = clears /\ c.load = n + 1
          /\ c.at = "waiting"
      BY <1>0, <3>5 DEF Settings!Calls, SettingsTypes
    <3>8. /\ loads' \in Seq(Settings!Loads) /\ Len(loads') = n + 1
          /\ DOMAIN loads' = 1 .. n + 1 /\ loads'[n + 1] = load
          /\ \A i \in 1 .. n : loads'[i] = loads[i]
      BY <1>0, <1>10, <3>3, <3>6, Appended DEF SettingsTypes
    <3>9. /\ calls' \in [Tasks -> Settings!Calls] /\ calls'[t] = c
          /\ \A u \in Tasks \ {t} : calls'[u] = calls[u]
      BY <1>0, <3>6, <3>7 DEF SettingsTypes
    <3>10. \A i \in 1 .. n + 1 : i = n + 1 \/ i \in 1 .. n
      BY <1>10
    <3>11. \A u \in Tasks :
             /\ calls[u].load \in 0 .. n
             /\ calls[u].at \in {"waiting", "returned"} =>
                  calls[u].load \in 1 .. n
      BY <1>0, <1>10 DEF SettingsTypes
    <3>12. SettingsTypes'
      <4>1. /\ \A i \in 0 .. n : i \in 0 .. n + 1
            /\ \A i \in 1 .. n : i \in 1 .. n + 1
            /\ n + 1 \in 1 .. n + 1 /\ n + 1 \in 0 .. n + 1 /\ n + 1 <= MaxLoads
        BY <1>0, <1>10, <3>6 DEF SettingsTypes
      <4>2. \A u \in Tasks :
              /\ calls'[u].load \in 0 .. n + 1
              /\ calls'[u].at \in {"waiting", "returned"} =>
                   calls'[u].load \in 1 .. n + 1
        BY <3>7, <3>9, <3>11, <4>1
      <4>3. {cached', promise'} \subseteq 0 .. n + 1
        BY <1>11, <2>1, <3>6, <4>1
      <4>. QED
        BY <1>0, <2>1, <3>8, <3>9, <4>1, <4>2, <4>3 DEF SettingsTypes
    <3>13. Settings!CacheInv'
      <4>1. loads'[promise'].clears = clears
        BY <3>2, <3>6, <3>8
      <4>2. cached' = 0
        BY <2>1, <2>4
      <4>3. ASSUME ~raced, NEW u \in Tasks
            PROVE  /\ calls'[u].at = "waiting" =>
                        /\ calls'[u].clears = clears
                        /\ loads'[calls'[u].load].clears = clears
                   /\ calls'[u].at = "returned" =>
                        loads'[calls'[u].load].clears >= calls'[u].clears
        <5>1. CASE u = t
          BY <3>2, <3>7, <3>8, <3>9, <5>1
        <5>2. CASE u # t
          BY <3>8, <3>9, <3>11, <4>3, <5>2 DEF Settings!SettingsInv,
             Settings!CacheInv, Settings!AsNew, Settings!ClearedIsReread
        <5>. QED
          BY <5>1, <5>2
      <4>. QED
        BY <2>1, <4>1, <4>2, <4>3 DEF Settings!CacheInv, Settings!AsNew,
           Settings!ClearedIsReread
    <3>14. ASSUME NEW i \in DOMAIN loads'
           PROVE  /\ loads'[i].edits <= edits'
                  /\ loads'[i].edits = edits' => Settings!MergedSoFar(loads[i])'
      <4>1. PICK x : x = loads'[i]
        OBVIOUS
      <4>2. x.edits <= edits /\ (x.edits = edits => Settings!MergedSoFar(x))
        <5>1. CASE i = n + 1
          BY <1>0, <3>2, <3>4, <3>8, <4>1, <5>1 DEF SettingsTypes
        <5>2. CASE i \in 1 .. n
          BY <1>10, <3>8, <4>1, <5>2 DEF Settings!SettingsInv
        <5>. QED
          BY <3>8, <3>10, <5>1, <5>2
      <4>3. /\ Settings!AfterEnv' = Settings!AfterEnv
            /\ Settings!AfterDotenv' = Settings!AfterDotenv
            /\ Settings!AfterConfig' = Settings!AfterConfig
        BY <2>1, SourcesSame
      <4>. QED
        BY <2>1, <4>1, <4>2, <4>3 DEF Settings!MergedSoFar
    <3>. QED
      BY <3>12, <3>13, <3>14 DEF Settings!SettingsInv, SettingsTypes
  <2>. QED
    BY <2>2, <2>3, <2>4
<1>2. ASSUME NEW t \in Tasks, Settings!Use(t)
      PROVE  SettingsTypes' /\ Settings!SettingsInv'
  <2>1. Settings!Idle \in Settings!Calls /\ Settings!Idle.at = "idle"
        /\ Settings!Idle.load = 0
    BY DEF Settings!Idle, Settings!Calls
  <2>2. /\ calls' \in [Tasks -> Settings!Calls] /\ calls'[t] = Settings!Idle
        /\ \A u \in Tasks \ {t} : calls'[u] = calls[u]
        /\ UNCHANGED <<kind, env, dotenv, config, edits, clears, loads, cached,
                       promise, raced>>
    BY <1>0, <1>2, <2>1 DEF Settings!Use, SettingsTypes
  <2>3. SettingsTypes'
    BY <1>0, <1>10, <2>1, <2>2 DEF SettingsTypes
  <2>4. Settings!CacheInv'
    BY <2>1, <2>2 DEF Settings!SettingsInv, Settings!CacheInv, Settings!AsNew,
       Settings!ClearedIsReread
  <2>5. \A i \in DOMAIN loads' :
          /\ loads'[i].edits <= edits'
          /\ loads'[i].edits = edits' => Settings!MergedSoFar(loads[i])'
    BY <2>2, LoadsStay
  <2>. QED
    BY <2>3, <2>4, <2>5 DEF Settings!SettingsInv, SettingsTypes
<1>3. ASSUME NEW i \in DOMAIN loads, Settings!ReadDotenv(i)
      PROVE  SettingsTypes' /\ Settings!SettingsInv'
  <2>1. /\ loads[i] \in Settings!Loads /\ loads[i].at = "dotenv"
        /\ UNCHANGED <<kind, env, dotenv, config, edits, clears, cached,
                       promise, calls, raced>>
    BY <1>0, <1>3 DEF Settings!ReadDotenv, SettingsTypes
  <2>2. CASE loads' = [loads EXCEPT ![i] = [loads[i] EXCEPT !.at = "failed"]]
    <3>1. PICK load : load = [loads[i] EXCEPT !.at = "failed"]
      OBVIOUS
    <3>2. /\ load \in Settings!Loads /\ load.at = "failed"
          /\ load.edits = loads[i].edits /\ load.clears = loads[i].clears
      BY <2>1, <3>1 DEF Settings!Loads
    <3>3. Settings!MergedSoFar(load)
      BY <3>2 DEF Settings!MergedSoFar
    <3>. QED
      BY <1>0, <2>1, <2>2, <3>1, <3>2, <3>3, LoadGoesOn
  <2>3. CASE loads' = [loads EXCEPT ![i] =
                         [loads[i] EXCEPT !.accum = Settings!MergeSource(@,
                                            Settings!CollectEnv(dotenv)),
                                          !.at = "config"]]
    <3>1. PICK load : load = [loads[i] EXCEPT
                                !.accum = Settings!MergeSource(@,
                                            Settings!CollectEnv(dotenv)),
                                !.at = "config"]
      OBVIOUS
    <3>2. Settings!CollectEnv(dotenv) \in Settings!FileStates
      BY CollectedIsRaw DEF Settings!FileStates
    <3>3. Settings!MergeSource(loads[i].accum, Settings!CollectEnv(dotenv))
            \in Settings!Raw \cup {Settings!Unset, Settings!Default}
      BY <1>0, <2>1, <3>2, MergeKeepsType DEF Settings!Loads
    <3>4. /\ load \in Settings!Loads /\ load.at = "config"
          /\ load.edits = loads[i].edits /\ load.clears = loads[i].clears
          /\ load.accum = Settings!MergeSource(loads[i].accum,
                                               Settings!CollectEnv(dotenv))
          /\ load.candidate = loads[i].candidate
      BY <2>1, <3>1, <3>3 DEF Settings!Loads
    <3>5. ASSUME load.edits = edits
          PROVE  Settings!MergedSoFar(load)
      <4>1. loads[i].accum = Settings!AfterEnv /\ loads[i].candidate = 1
        BY <2>1, <3>4, <3>5 DEF Settings!SettingsInv, Settings!MergedSoFar
      <4>2. load.accum = Settings!AfterDotenv
        BY <3>4, <4>1 DEF Settings!AfterDotenv
      <4>3. \A c \in Settings!Candidates : ~(c < load.candidate)
        BY <3>4, <4>1 DEF Settings!Candidates
      <4>. QED
        BY <3>4, <4>2, <4>3 DEF Settings!MergedSoFar
    <3>. QED
      BY <1>0, <2>1, <2>3, <3>1, <3>4, <3>5, LoadGoesOn
  <2>. QED
    BY <1>3, <2>2, <2>3 DEF Settings!ReadDotenv, Settings!Advance
<1>. DEFINE Ends(i, source) ==
       loads' = [loads EXCEPT ![i] = Settings!Resolved(loads[i], source)]
<1>4. ASSUME NEW i \in DOMAIN loads, loads[i].at = "config",
             NEW source \in Settings!FileStates, Ends(i, source),
             UNCHANGED <<kind, env, dotenv, config, edits, clears, cached,
                         promise, calls, raced>>,
             loads[i].edits = edits =>
                 Settings!Pick(source) = Settings!Pick(Settings!FirstDocument)
      PROVE  SettingsTypes' /\ Settings!SettingsInv'
  <2>. DEFINE merged == Settings!MergeSource(loads[i].accum, source)
  <2>0. loads[i] \in Settings!Loads
    BY <1>0 DEF SettingsTypes
  <2>1. PICK load : load = Settings!Resolved(loads[i], source)
    OBVIOUS
  <2>2. merged \in Settings!Raw \cup {Settings!Unset, Settings!Default}
    BY <1>0, <1>4, <2>0, MergeKeepsType DEF Settings!Loads
  <2>. HIDE DEF merged
  <2>3. load = [loads[i] EXCEPT !.accum = Settings!Finalise(merged),
                                !.at = "done"]
    BY <2>0, <2>1 DEF Settings!Resolved, Settings!Loads, merged
  <2>4. Settings!Finalise(merged)
          \in Settings!Raw \cup {Settings!Unset, Settings!Default}
    BY <2>2 DEF Settings!Finalise
  <2>5. /\ load \in Settings!Loads /\ load.at = "done"
        /\ load.edits = loads[i].edits /\ load.clears = loads[i].clears
        /\ load.accum = Settings!Finalise(merged)
    BY <2>0, <2>3, <2>4 DEF Settings!Loads
  <2>6. ASSUME load.edits = edits
        PROVE  Settings!MergedSoFar(load)
    <3>1. loads[i].accum = Settings!AfterDotenv
      BY <1>4, <2>5, <2>6 DEF Settings!SettingsInv, Settings!MergedSoFar
    <3>2. merged = Settings!MergeSource(Settings!AfterDotenv,
                                        Settings!FirstDocument)
      BY <1>4, <2>5, <2>6, <3>1 DEF merged, Settings!MergeSource
    <3>. QED
      BY <2>5, <3>2 DEF Settings!MergedSoFar, Settings!AfterConfig
  <2>. QED
    BY <1>0, <1>4, <2>1, <2>5, <2>6, LoadGoesOn
<1>. HIDE DEF Ends
<1>13. ASSUME NEW i \in DOMAIN loads, loads[i].at = "config"
       PROVE  /\ loads[i] \in Settings!Loads /\ loads[i].candidate \in 1 .. 4
              /\ loads[i].edits = edits =>
                   \A c \in Settings!Candidates : c < loads[i].candidate =>
                      config[c] \in {Settings!Missing, Settings!EmptyFile}
  <2>1. loads[i] \in Settings!Loads
    BY <1>0 DEF SettingsTypes
  <2>. QED
    BY <1>13, <2>1
       DEF Settings!Loads, Settings!SettingsInv, Settings!MergedSoFar
<1>5. ASSUME NEW i \in DOMAIN loads, Settings!ReadConfig(i)
      PROVE  SettingsTypes' /\ Settings!SettingsInv'
  <2>. DEFINE c == loads[i].candidate
              file == config[c]
  <2>1. /\ loads[i].at = "config" /\ c \in Settings!Candidates
        /\ UNCHANGED <<kind, env, dotenv, config, edits, clears, cached,
                       promise, calls, raced>>
    BY <1>5 DEF Settings!ReadConfig
  <2>2. /\ loads[i] \in Settings!Loads /\ c \in 1 .. 4
        /\ loads[i].edits = edits =>
             \A d \in Settings!Candidates : d < c =>
                config[d] \in {Settings!Missing, Settings!EmptyFile}
    BY <1>13, <2>1
  <2>3. file \in Settings!FileStates
    BY <1>0, <2>1 DEF SettingsTypes
  <2>4. CASE file = Settings!Unreadable
    <3>1. PICK load : load = [loads[i] EXCEPT !.at = "failed"]
      OBVIOUS
    <3>2. /\ load \in Settings!Loads /\ load.at = "failed"
          /\ load.edits = loads[i].edits /\ load.clears = loads[i].clears
      BY <2>2, <3>1 DEF Settings!Loads
    <3>3. Settings!MergedSoFar(load)
      BY <3>2 DEF Settings!MergedSoFar
    <3>4. loads' = [loads EXCEPT ![i] = load]
      <4>1. file \notin {Settings!Missing, Settings!EmptyFile,
                         Settings!Malformed}
        BY <2>4 DEF Settings!Missing, Settings!EmptyFile, Settings!Unreadable,
           Settings!Malformed
      <4>. QED
        BY <1>5, <2>4, <3>1, <4>1 DEF Settings!ReadConfig, Settings!Advance
    <3>. QED
      BY <1>0, <2>1, <3>2, <3>3, <3>4, LoadGoesOn
  <2>5. CASE file \in {Settings!Missing, Settings!EmptyFile}
    <3>1. PICK load : load = [loads[i] EXCEPT !.candidate = @ + 1]
      OBVIOUS
    <3>2. c + 1 \in 1 .. 4
      BY <2>1 DEF Settings!Candidates
    <3>3. /\ load \in Settings!Loads /\ load.at = "config"
          /\ load.edits = loads[i].edits /\ load.clears = loads[i].clears
          /\ load.candidate = c + 1 /\ load.accum = loads[i].accum
      BY <2>1, <2>2, <3>1, <3>2 DEF Settings!Loads
    <3>4. ASSUME load.edits = edits
          PROVE  Settings!MergedSoFar(load)
      <4>1. loads[i].accum = Settings!AfterDotenv
        BY <2>1, <3>3, <3>4 DEF Settings!SettingsInv, Settings!MergedSoFar
      <4>2. ASSUME NEW d \in Settings!Candidates, d < c + 1
            PROVE  config[d] \in {Settings!Missing, Settings!EmptyFile}
        <5>1. d < c \/ d = c
          BY <2>1, <4>2 DEF Settings!Candidates
        <5>. QED
          BY <2>2, <2>5, <3>3, <3>4, <5>1
      <4>. QED
        BY <3>3, <4>1, <4>2 DEF Settings!MergedSoFar
    <3>5. loads' = [loads EXCEPT ![i] = load]
      <4>1. file \notin {Settings!Unreadable, Settings!Malformed}
        BY <2>5 DEF Settings!Missing, Settings!EmptyFile, Settings!Unreadable,
           Settings!Malformed
      <4>. QED
        BY <1>5, <2>5, <3>1, <4>1 DEF Settings!ReadConfig, Settings!Advance
    <3>. QED
      BY <1>0, <2>1, <3>3, <3>4, <3>5, LoadGoesOn
  <2>6. CASE file \notin {Settings!Missing, Settings!EmptyFile,
                          Settings!Unreadable}
    <3>1. PICK source \in Settings!FileStates :
            /\ source = IF file = Settings!Malformed THEN Settings!Unset
                        ELSE file
      BY <2>3 DEF Settings!FileStates
    <3>2. Ends(i, source)
      <4>1. CASE file = Settings!Malformed
        <5>1. file \notin {Settings!Missing, Settings!EmptyFile,
                           Settings!Unreadable}
          BY <2>6
        <5>. QED
          BY <1>5, <3>1, <4>1, <5>1
             DEF Settings!ReadConfig, Settings!Advance, Ends
      <4>2. CASE file # Settings!Malformed
        BY <1>5, <2>6, <3>1, <4>2
           DEF Settings!ReadConfig, Settings!Advance, Ends
      <4>. QED
        BY <4>1, <4>2
    <3>3. ASSUME loads[i].edits = edits
          PROVE  Settings!Pick(source) = Settings!Pick(Settings!FirstDocument)
      <4>1. Settings!FirstDocument = file
        BY <1>0, <2>1, <2>2, <2>6, <3>3, FirstDocumentIs
      <4>2. /\ Settings!Malformed \in Settings!FileStates \ Settings!Raw
            /\ Settings!Unset \in Settings!FileStates \ Settings!Raw
        BY DEF Settings!FileStates, Settings!Malformed, Settings!Unset,
           Settings!Raw
      <4>. QED
        BY <1>0, <3>1, <4>1, <4>2, PickTakes
    <3>. QED
      BY <1>4, <2>1, <3>2, <3>3
  <2>. QED
    BY <2>4, <2>5, <2>6
<1>6. ASSUME NEW i \in DOMAIN loads, Settings!NoConfig(i)
      PROVE  SettingsTypes' /\ Settings!SettingsInv'
  <2>. DEFINE c == loads[i].candidate
  <2>1. /\ loads[i].at = "config" /\ c \notin Settings!Candidates
        /\ UNCHANGED <<kind, env, dotenv, config, edits, clears, cached,
                       promise, calls, raced>>
    BY <1>6 DEF Settings!NoConfig
  <2>2. /\ c \in 1 .. 4
        /\ loads[i].edits = edits =>
             \A d \in Settings!Candidates : d < c =>
                config[d] \in {Settings!Missing, Settings!EmptyFile}
    BY <1>13, <2>1
  <2>3. /\ Settings!Missing \in Settings!FileStates \ Settings!Raw
        /\ Settings!Unset \in Settings!FileStates \ Settings!Raw
    BY DEF Settings!FileStates, Settings!Missing, Settings!Unset,
       Settings!Raw
  <2>4. Ends(i, Settings!Unset)
    BY <1>6 DEF Settings!NoConfig, Settings!Advance, Ends
  <2>5. ASSUME loads[i].edits = edits
        PROVE  Settings!Pick(Settings!Unset)
                   = Settings!Pick(Settings!FirstDocument)
    <3>1. Settings!FirstDocument = Settings!Missing
      BY <1>0, <2>1, <2>2, <2>5, FirstDocumentIs
    <3>. QED
      BY <1>0, <2>3, <3>1, PickTakes
  <2>. QED
    BY <1>4, <2>1, <2>3, <2>4, <2>5
<1>7. ASSUME NEW i \in DOMAIN loads, Settings!Settle(i)
      PROVE  SettingsTypes' /\ Settings!SettingsInv'
  <2>. DEFINE awaits(t) == calls[t].at = "waiting" /\ calls[t].load = i
              at == IF loads[i].at = "done" THEN "returned" ELSE "failed"
  <2>1. /\ UNCHANGED <<kind, env, dotenv, config, edits, clears, loads, promise,
                       raced>>
        /\ \E t \in Tasks : awaits(t)
        /\ cached' \in {i, cached}
    BY <1>7 DEF Settings!Settle
  <2>2. /\ calls' \in [Tasks -> Settings!Calls]
        /\ \A t \in Tasks :
             /\ calls'[t].load = calls[t].load
             /\ calls'[t].clears = calls[t].clears
             /\ awaits(t) => calls'[t].at \in {"returned", "failed"}
             /\ ~awaits(t) => calls'[t].at = calls[t].at
    <3>1. calls' = [t \in Tasks |->
                     IF awaits(t) THEN [calls[t] EXCEPT !.at = at]
                     ELSE calls[t]]
      BY <1>7 DEF Settings!Settle
    <3>2. ASSUME NEW t \in Tasks
          PROVE  /\ calls[t] \in Settings!Calls
                 /\ [calls[t] EXCEPT !.at = at] \in Settings!Calls
                 /\ [calls[t] EXCEPT !.at = at].at = at
                 /\ [calls[t] EXCEPT !.at = at].load = calls[t].load
                 /\ [calls[t] EXCEPT !.at = at].clears = calls[t].clears
      BY <1>0 DEF SettingsTypes, Settings!Calls
    <3>3. at \in {"returned", "failed"}
      OBVIOUS
    <3>. HIDE DEF awaits, at
    <3>. QED
      BY <3>1, <3>2, <3>3
  <2>3. SettingsTypes'
    <3>1. cached' \in 0 .. Len(loads)
      BY <1>10, <1>11, <2>1
    <3>2. \A t \in Tasks :
            /\ calls'[t].load \in 0 .. Len(loads)
            /\ calls'[t].at \in {"waiting", "returned"} =>
                 calls'[t].load \in DOMAIN loads
      BY <1>0, <2>2 DEF SettingsTypes
    <3>. QED
      BY <1>0, <2>1, <2>2, <3>1, <3>2 DEF SettingsTypes
  <2>4. Settings!CacheInv'
    <3>1. promise # 0 => Settings!AsNew(promise)
      BY DEF Settings!SettingsInv, Settings!CacheInv
    <3>2. ASSUME ~raced
          PROVE  /\ cached # 0 => Settings!AsNew(cached)
                 /\ \A t \in Tasks : calls[t].at = "waiting" =>
                      calls[t].clears = clears /\ Settings!AsNew(calls[t].load)
                 /\ \A t \in Tasks : calls[t].at = "returned" =>
                      loads[calls[t].load].clears >= calls[t].clears
      BY <3>2 DEF Settings!SettingsInv, Settings!CacheInv,
         Settings!ClearedIsReread
    <3>3. ASSUME ~raced, cached' # 0
          PROVE  loads[cached'].clears = clears
      BY <2>1, <3>2, <3>3 DEF Settings!AsNew
    <3>4. ASSUME ~raced, NEW t \in Tasks
          PROVE  /\ calls'[t].at = "waiting" =>
                      /\ calls'[t].clears = clears
                      /\ loads[calls'[t].load].clears = clears
                 /\ calls'[t].at = "returned" =>
                      loads[calls'[t].load].clears >= calls'[t].clears
      <4>1. clears >= clears
        BY <1>0 DEF SettingsTypes
      <4>. QED
        BY <2>2, <3>2, <3>4, <4>1 DEF Settings!AsNew
    <3>. HIDE DEF awaits, at
    <3>. QED
      BY <2>1, <3>1, <3>3, <3>4 DEF Settings!CacheInv, Settings!AsNew,
         Settings!ClearedIsReread
  <2>5. \A j \in DOMAIN loads' :
          /\ loads'[j].edits <= edits'
          /\ loads'[j].edits = edits' => Settings!MergedSoFar(loads[j])'
    BY <2>1, LoadsStay
  <2>. HIDE DEF awaits, at
  <2>. QED
    BY <2>3, <2>4, <2>5 DEF Settings!SettingsInv, SettingsTypes
<1>8. ASSUME Settings!ClearSettingsCache
      PROVE  SettingsTypes' /\ Settings!SettingsInv'
  <2>1. /\ UNCHANGED <<kind, env, dotenv, config, edits, loads, calls>>
        /\ cached' = 0 /\ promise' = 0 /\ clears' = clears + 1
    BY <1>8 DEF Settings!ClearSettingsCache
  <2>2. raced' = (raced \/ Settings!UnderWay)
    BY <1>8 DEF Settings!ClearSettingsCache
  <2>3. raced' \in BOOLEAN
    BY <1>0, <2>2, Zenon DEF SettingsTypes
  <2>4. SettingsTypes'
    BY <1>0, <1>10, <2>1, <2>3 DEF SettingsTypes
  <2>5. Settings!CacheInv'
    <3>1. ~raced' => ~raced /\ \A t \in Tasks : calls[t].at # "waiting"
      BY <2>2, Zenon DEF Settings!UnderWay
    <3>2. ~raced => \A t \in Tasks : calls[t].at = "returned" =>
             loads[calls[t].load].clears >= calls[t].clears
      BY DEF Settings!SettingsInv, Settings!CacheInv, Settings!ClearedIsReread
    <3>. QED
      BY <2>1, <3>1, <3>2
         DEF Settings!CacheInv, Settings!ClearedIsReread
  <2>6. \A j \in DOMAIN loads' :
          /\ loads'[j].edits <= edits'
          /\ loads'[j].edits = edits' => Settings!MergedSoFar(loads[j])'
    BY <2>1, LoadsStay
  <2>. QED
    BY <2>4, <2>5, <2>6 DEF Settings!SettingsInv, SettingsTypes
<1>9. ASSUME Settings!Edit
      PROVE  SettingsTypes' /\ Settings!SettingsInv'
  <2>1. /\ UNCHANGED <<kind, clears, loads, cached, promise, calls, raced>>
        /\ edits' = edits + 1
    BY <1>9 DEF Settings!Edit
  <2>2. env' \in Settings!Texts \cup {"unset"}
    BY <1>0, <1>9 DEF Settings!Edit, SettingsTypes
  <2>3. dotenv' \in Settings!Texts \cup {"missing", "unreadable"}
    BY <1>0, <1>9 DEF Settings!Edit, SettingsTypes, Settings!Texts
  <2>4. config' \in [Settings!Candidates -> Settings!FileStates]
    <3>1. \A x \in {[type |-> "boolean", text |-> "yes"],
                     [type |-> "string", text |-> "INFO"],
                     Settings!Unset, Settings!Unreadable} :
            x \in Settings!FileStates
      BY DEF Settings!FileStates, Settings!Raw, Settings!Texts
    <3>2. config' = config \/
            \E i \in Settings!Candidates, x \in Settings!FileStates :
               config' = [config EXCEPT ![i] = x]
      BY <1>9, <3>1 DEF Settings!Edit
    <3>. QED
      BY <1>0, <3>2 DEF SettingsTypes
  <2>5. SettingsTypes'
    BY <1>0, <1>10, <2>1, <2>2, <2>3, <2>4 DEF SettingsTypes
  <2>6. Settings!CacheInv'
    BY <2>1 DEF Settings!SettingsInv, Settings!CacheInv, Settings!AsNew,
       Settings!ClearedIsReread
  <2>7. \A j \in DOMAIN loads' : loads'[j].edits < edits'
    <3>1. \A j \in DOMAIN loads : loads[j].edits <= edits
      BY DEF Settings!SettingsInv
    <3>2. \A j \in DOMAIN loads : loads[j].edits \in Nat
      <4>1. \A j \in DOMAIN loads : loads[j] \in Settings!Loads
        BY <1>0 DEF SettingsTypes
      <4>. QED
        BY <4>1 DEF Settings!Loads
    <3>. QED
      BY <1>0, <2>1, <3>1, <3>2 DEF SettingsTypes
  <2>8. \A j \in DOMAIN loads' :
          loads'[j].edits <= edits' /\ loads'[j].edits # edits'
    <3>1. \A j \in DOMAIN loads' : loads'[j].edits \in Nat
      <4>1. \A j \in DOMAIN loads' : loads'[j] \in Settings!Loads
        BY <1>0, <2>1 DEF SettingsTypes
      <4>. QED
        BY <4>1 DEF Settings!Loads
    <3>. QED
      BY <1>0, <2>1, <2>7, <3>1 DEF SettingsTypes
  <2>. QED
    BY <2>5, <2>6, <2>8 DEF Settings!SettingsInv, SettingsTypes
<1>. QED
  BY <1>1, <1>2, <1>3, <1>5, <1>6, <1>7, <1>8, <1>9, SettingsTypesGive
     DEF Settings!Next

(* The accumulator of a load that is done has the first source that sets.  *)
LEMMA MergedIsFirst ==
    ASSUME kind \in Settings!SettingKinds,
           NEW e, NEW d, NEW f,
           NEW accum,
           accum = Settings!Finalise(Settings!MergeSource(
                       Settings!MergeSource(
                           Settings!MergeSource(Settings!Unset, e), d), f)),
           NEW sources,
           sources = {p \in {<<1, e>>, <<2, d>>, <<3, f>>} :
                         Settings!Pick(p[2]) # Settings!Unset}
    PROVE  IF sources = {} THEN accum = Settings!Default
           ELSE \E p \in sources :
                   /\ \A q \in sources : p[1] <= q[1]
                   /\ accum = p[2]
<1>1. \A x : Settings!Pick(x) # Settings!Unset => Settings!Pick(x) = x
  BY PickTakes
<1>2. Settings!MergeSource(Settings!Unset, e) = Settings!Pick(e)
  BY DEF Settings!MergeSource
<1>3. \A q \in sources : q[1] \in {1, 2, 3}
  OBVIOUS
<1>4. CASE Settings!Pick(e) # Settings!Unset
  <2>1. <<1, e>> \in sources /\ accum = e
    BY <1>1, <1>2, <1>4 DEF Settings!MergeSource, Settings!Finalise
  <2>. QED
    BY <1>3, <2>1
<1>5. CASE Settings!Pick(e) = Settings!Unset
           /\ Settings!Pick(d) # Settings!Unset
  <2>1. <<2, d>> \in sources /\ accum = d
    BY <1>1, <1>2, <1>5 DEF Settings!MergeSource, Settings!Finalise
  <2>2. \A q \in sources : q[1] \in {2, 3}
    BY <1>5
  <2>. QED
    BY <2>1, <2>2
<1>6. CASE Settings!Pick(e) = Settings!Unset
           /\ Settings!Pick(d) = Settings!Unset
           /\ Settings!Pick(f) # Settings!Unset
  <2>1. <<3, f>> \in sources /\ accum = f
    BY <1>1, <1>2, <1>6 DEF Settings!MergeSource, Settings!Finalise
  <2>2. \A q \in sources : q[1] = 3
    BY <1>6
  <2>. QED
    BY <2>1, <2>2
<1>7. CASE /\ Settings!Pick(e) = Settings!Unset
           /\ Settings!Pick(d) = Settings!Unset
           /\ Settings!Pick(f) = Settings!Unset
  <2>1. sources = {}
    BY <1>7
  <2>. QED
    BY <1>2, <1>7, <2>1 DEF Settings!MergeSource, Settings!Finalise
<1>. QED
  BY <1>4, <1>5, <1>6, <1>7

(* A load in which nothing was edited has merged what the sources read so  *)
(* far give, one over the other, and unless a load was under way at a      *)
(* clear, what is cached was loaded after the last one (settings.ts).      *)
THEOREM SettingsInvariant ==
    Spec => [](Settings!TypeOK /\ Settings!SettingsInv)
<1>. USE PartsAssumption
<1>1. Init => Settings!TypeOK /\ Settings!SettingsInv
  BY SettingsInitially DEF Init
<1>2. Settings!TypeOK /\ Settings!SettingsInv /\ [Next]_vars
        => (Settings!TypeOK /\ Settings!SettingsInv)'
  <2>. SUFFICES ASSUME Settings!TypeOK, Settings!SettingsInv, [Next]_vars
                PROVE  (Settings!TypeOK /\ Settings!SettingsInv)'
    OBVIOUS
  <2>1. CASE Settings!Next
    BY <2>1, SettingsStep
  <2>2. CASE UNCHANGED settingsVars
    <3>1. SettingsTypes'
      BY <2>2, SettingsTypesOf DEF settingsVars, SettingsTypes
    <3>2. \A i \in DOMAIN loads' :
            /\ loads'[i].edits <= edits'
            /\ loads'[i].edits = edits' => Settings!MergedSoFar(loads[i])'
      BY <2>2, LoadsStay DEF settingsVars
    <3>3. Settings!CacheInv'
      BY <2>2, Zenon DEF settingsVars, Settings!SettingsInv,
         Settings!CacheInv, Settings!AsNew, Settings!ClearedIsReread
    <3>4. Settings!SettingsInv'
      BY <3>1, <3>2, <3>3 DEF Settings!SettingsInv, SettingsTypes
    <3>. QED
      BY <3>1, <3>4, SettingsTypesGive
  <2>. QED
    BY <2>1, <2>2, OnePartMoves
<1>. QED
  BY <1>1, <1>2, PTL DEF Spec

(* The first source that sets a value wins, and settings that were cleared *)
(* are read again.                                                         *)
THEOREM SettingsAreRight == Spec => []SettingsHold
<1>1. Settings!TypeOK /\ Settings!SettingsInv => SettingsHold
  <2>. SUFFICES ASSUME Settings!TypeOK, Settings!SettingsInv
                PROVE  Settings!ClearedIsReread /\ Settings!FirstWins
    BY DEF SettingsHold
  <2>1. Settings!ClearedIsReread
    BY DEF Settings!SettingsInv, Settings!CacheInv, Settings!ClearedIsReread
  <2>2. ASSUME NEW i \in DOMAIN loads, loads[i].at = "done",
               loads[i].edits = edits
        PROVE  loads[i].accum = Settings!AfterConfig
    BY <2>2 DEF Settings!SettingsInv, Settings!MergedSoFar
  <2>3. kind \in Settings!SettingKinds
    BY DEF Settings!TypeOK
  <2>4. Settings!FirstWins
    <3>1. PICK e, d, f : /\ e = Settings!CollectEnv(env)
                         /\ d = Settings!CollectEnv(dotenv)
                         /\ f = Settings!FirstDocument
      OBVIOUS
    <3>2. PICK sources :
            sources = {p \in {<<1, e>>, <<2, d>>, <<3, f>>} :
                         Settings!Pick(p[2]) # Settings!Unset}
      OBVIOUS
    <3>3. PICK accum :
            accum = Settings!Finalise(Settings!MergeSource(
                       Settings!MergeSource(
                           Settings!MergeSource(Settings!Unset, e), d), f))
      OBVIOUS
    <3>4. accum = Settings!AfterConfig
      BY <3>1, <3>3, Zenon DEF Settings!AfterConfig, Settings!AfterDotenv,
         Settings!AfterEnv
    <3>5. IF sources = {} THEN accum = Settings!Default
          ELSE \E p \in sources : /\ \A q \in sources : p[1] <= q[1]
                                  /\ accum = p[2]
      BY <2>3, <3>2, <3>3, MergedIsFirst
    <3>. QED
      BY <2>2, <3>1, <3>2, <3>4, <3>5, Zenon DEF Settings!FirstWins
  <2>. QED
    BY <2>1, <2>4
<1>. QED
  BY <1>1, SettingsInvariant, PTL

---------------------------------------------------------------------------
(* bucket.ts under retry.ts                                                *)

(* A statement of a call that is alone leaves what the call means, the     *)
(* first time and every other time that it is done.                        *)
LEMMA DoneAgain ==
    ASSUME NEW u \in Buckets!Uses,
           objects \in [Buckets!Keys -> Buckets!Contents \cup {Buckets!Absent}],
           u.applied > 0 => objects = Buckets!Meant(u),
           u.applied = 0 => objects = u.before,
           u.op # "none", Buckets!Accepted(u)
    PROVE  /\ Buckets!After(u) = Buckets!Meant(u)
           /\ u.op \in Buckets!Reads => objects = u.before
<1>. USE DEF Buckets!Absent, Buckets!Contents
<1>1. /\ u.key = "k" /\ u.target = "j"
      /\ u.before \in [Buckets!Keys -> Buckets!Contents \cup {0}]
      /\ u.applied \in Nat /\ u.op \in Buckets!Ops /\ u.content \in {0, 1, 2}
  BY DEF Buckets!Uses
<1>2. objects \in {u.before, Buckets!Meant(u)}
  BY <1>1
<1>. USE DEF Buckets!Keys, Buckets!Reads, Buckets!Writes, Buckets!Moves,
             Buckets!Renames, Buckets!IfNotExists
<1>3. CASE u.op \in Buckets!Reads
  BY <1>1, <1>2, <1>3 DEF Buckets!After, Buckets!Meant
<1>4. CASE u.op \in {"put", "delete"}
  BY <1>1, <1>2, <1>4 DEF Buckets!After, Buckets!Meant, Buckets!Written,
     Buckets!Destination, Buckets!Content
<1>5. CASE u.op = "putIfNotExists"
  <2>1. Buckets!After(u) =
          IF objects["k"] # 0 THEN objects
          ELSE [k \in {"j", "k"} |-> IF k = "k" THEN u.content ELSE objects[k]]
    BY <1>1, <1>5 DEF Buckets!After, Buckets!Written, Buckets!Destination,
       Buckets!Content
  <2>2. CASE u.before["k"] # 0
    <3>1. Buckets!Meant(u) = u.before
      BY <1>1, <1>5, <2>2 DEF Buckets!Meant
    <3>. QED
      BY <1>2, <1>5, <2>1, <2>2, <3>1
  <2>3. CASE u.before["k"] = 0
    <3>1. Buckets!Meant(u) = [u.before EXCEPT !["k"] = u.content]
      BY <1>1, <1>5, <2>3 DEF Buckets!Meant
    <3>2. CASE objects = u.before
      BY <1>1, <1>5, <2>1, <2>3, <3>1, <3>2
    <3>3. CASE objects = Buckets!Meant(u)
      BY <1>1, <1>5, <2>1, <2>3, <3>1, <3>3
    <3>. QED
      BY <1>2, <3>2, <3>3
  <2>. QED
    BY <2>2, <2>3
<1>6. CASE u.op = "copy"
  <2>1. Buckets!After(u) =
          [k \in {"j", "k"} |-> IF k = "j" THEN objects["k"] ELSE objects[k]]
    BY <1>1, <1>6 DEF Buckets!After, Buckets!Written, Buckets!Destination,
       Buckets!Content
  <2>2. Buckets!Meant(u) = [u.before EXCEPT !["j"] = u.before["k"]]
    BY <1>1, <1>6 DEF Buckets!Meant
  <2>. QED
    BY <1>1, <1>2, <1>6, <2>1, <2>2
<1>7. CASE u.op = "copyIfNotExists"
  <2>1. /\ Buckets!After(u) =
             IF objects["j"] # 0 THEN objects
             ELSE [k \in {"j", "k"} |-> IF k = "j" THEN objects["k"]
                                       ELSE objects[k]]
        /\ objects["k"] # 0
        /\ Buckets!Meant(u) =
             IF u.before["j"] # 0 THEN u.before
             ELSE [u.before EXCEPT !["j"] = u.before["k"]]
    <3>1. Buckets!After(u) =
            IF objects["j"] # 0 THEN objects
            ELSE [k \in {"j", "k"} |-> IF k = "j" THEN objects["k"]
                                      ELSE objects[k]]
      BY <1>1, <1>7 DEF Buckets!After, Buckets!Written,
         Buckets!Destination, Buckets!Content
    <3>2. objects["k"] # 0
      BY <1>1, <1>7 DEF Buckets!Accepted
    <3>3. Buckets!Meant(u) =
            IF u.before["j"] # 0 THEN u.before
            ELSE [u.before EXCEPT !["j"] = u.before["k"]]
      <4>1. CASE u.before["j"] # 0
        BY <1>1, <1>7, <4>1 DEF Buckets!Meant
      <4>2. CASE u.before["j"] = 0
        BY <1>1, <1>7, <4>2 DEF Buckets!Meant
      <4>. QED
        BY <4>1, <4>2
    <3>. QED
      BY <3>1, <3>2, <3>3
  <2>2. CASE objects["j"] # 0
    BY <1>1, <1>2, <1>7, <2>1, <2>2
  <2>3. CASE objects["j"] = 0
    <3>1. objects = u.before
      BY <1>1, <1>2, <2>1, <2>3
    <3>. QED
      BY <1>1, <1>7, <2>1, <2>3, <3>1
  <2>. QED
    BY <2>2, <2>3
<1>8. CASE u.op = "rename"
  BY <1>1, <1>2, <1>8 DEF Buckets!After, Buckets!Meant, Buckets!Written,
     Buckets!Destination, Buckets!Content, Buckets!Accepted
<1>9. CASE u.op = "renameIfNotExists"
  <2>1. /\ Buckets!After(u) =
             IF objects["j"] # 0 THEN objects
             ELSE [k \in {"j", "k"} |-> IF k = "j" THEN objects["k"] ELSE 0]
        /\ objects["k"] # 0
        /\ Buckets!Meant(u) =
             IF u.before["j"] # 0 THEN u.before
             ELSE [u.before EXCEPT !["j"] = u.before["k"], !["k"] = 0]
    BY <1>1, <1>9 DEF Buckets!After, Buckets!Meant, Buckets!Written,
       Buckets!Destination, Buckets!Content, Buckets!Accepted
  <2>2. objects = u.before
    BY <1>1, <1>2, <2>1
  <2>. QED
    BY <1>1, <1>9, <2>1, <2>2
<1>. QED
  BY <1>1, <1>3, <1>4, <1>5, <1>6, <1>7, <1>8, <1>9 DEF Buckets!Ops

(* What a read finds is a content or a count.                              *)
LEMMA FoundIsNat ==
    ASSUME NEW u \in Buckets!Uses,
           objects \in [Buckets!Keys -> Buckets!Contents \cup {Buckets!Absent}]
    PROVE  Buckets!Found(u) \in Nat
<1>1. Buckets!Listed \in Nat
  <2>1. IsFiniteSet({"j"} \cup {"k"})
    BY FS_Singleton, FS_Union
  <2>2. {"j"} \cup {"k"} = Buckets!Keys
    BY DEF Buckets!Keys
  <2>3. IsFiniteSet(Buckets!Keys)
    BY <2>1, <2>2
  <2>4. PICK K : K = {k \in Buckets!Keys : objects[k] # Buckets!Absent}
    OBVIOUS
  <2>5. K \subseteq Buckets!Keys
    BY <2>4
  <2>6. Cardinality(K) \in Nat
    BY <2>3, <2>5, FS_Subset, FS_CardinalityType
  <2>7. Buckets!Cardinality(K) = Cardinality(K)
    BY Zenon DEF Buckets!Cardinality, Cardinality
  <2>. QED
    BY <2>4, <2>6, <2>7, Zenon DEF Buckets!Listed
<1>2. objects[u.key] \in Nat
  BY DEF Buckets!Uses, Buckets!Keys, Buckets!Contents, Buckets!Absent
<1>3. CASE u.op = "list"
  BY <1>1, <1>3 DEF Buckets!Found
<1>4. CASE u.op \in {"get", "getText"}
  BY <1>2, <1>4 DEF Buckets!Found
<1>5. CASE u.op \in {"exists", "head"}
  BY <1>5 DEF Buckets!Found
<1>6. CASE u.op \notin {"get", "getText", "exists", "head", "list"}
  BY <1>6 DEF Buckets!Found, Buckets!Absent
<1>. QED
  BY <1>3, <1>4, <1>5, <1>6

BucketsTypes ==
    /\ MaxAttempts \in Nat \ {0} /\ MaxUses \in Nat
    /\ objects \in [Buckets!Keys -> Buckets!Contents \cup {Buckets!Absent}]
    /\ uses \in [Tasks -> Buckets!Uses]
    /\ started \in 0 .. MaxUses

(* The types follow from the invariant.                                    *)
LEMMA BucketsTypesOf ==
    Buckets!BucketsAssumption /\ Buckets!TypeOK /\ Buckets!BucketsInv
        => BucketsTypes
BY DEF Buckets!BucketsAssumption, Buckets!TypeOK, Buckets!BucketsInv,
   BucketsTypes

(* And give the type invariant back.                                       *)
LEMMA BucketsTypesGive ==
    ASSUME BucketsTypes', Buckets!BucketsInv'
    PROVE  Buckets!TypeOK'
<1>1. ASSUME NEW t \in Tasks
      PROVE  uses'[t].attempts \in 0 .. MaxAttempts
  <2>1. uses'[t].attempts \in Nat /\ uses'[t].attempts <= MaxAttempts
    BY DEF BucketsTypes, Buckets!Uses, Buckets!BucketsInv, Buckets!Counted
  <2>. QED
    BY <2>1 DEF BucketsTypes
<1>. QED
  BY <1>1 DEF BucketsTypes, Buckets!TypeOK

(* A task that has made no call is counted as none.                        *)
LEMMA UnusedIsUse ==
    /\ Buckets!Unused \in Buckets!Uses
    /\ Buckets!Unused.at = "idle"
    /\ MaxAttempts \in Nat => Buckets!Counted(Buckets!Unused)
<1>. USE DEF Buckets!Unused, Buckets!Absent, Buckets!Contents
<1>1. Buckets!Unused \in Buckets!Uses
  BY DEF Buckets!Uses, Buckets!Ops
<1>. QED
  BY <1>1 DEF Buckets!Counted

(* No call has been made at first.                                         *)
LEMMA BucketsInitially ==
    Buckets!BucketsAssumption /\ Buckets!Init
        => Buckets!TypeOK /\ Buckets!BucketsInv
<1>. SUFFICES ASSUME Buckets!BucketsAssumption, Buckets!Init
              PROVE  Buckets!TypeOK /\ Buckets!BucketsInv
  OBVIOUS
<1>1. /\ uses \in [Tasks -> Buckets!Uses]
      /\ \A t \in Tasks : uses[t] = Buckets!Unused
  BY UnusedIsUse DEF Buckets!Init
<1>2. Buckets!BucketsInv
  BY <1>1, UnusedIsUse DEF Buckets!BucketsInv, Buckets!BucketsAssumption
<1>3. Buckets!TypeOK
  BY <1>1 DEF Buckets!Init, Buckets!TypeOK, Buckets!BucketsAssumption,
     Buckets!Contents, Buckets!Absent, Buckets!Unused
<1>. QED
  BY <1>2, <1>3

(* A task that goes on with its call, and leaves the bucket alone.         *)
LEMMA UseGoesOn ==
    ASSUME BucketsTypes, Buckets!BucketsInv, NEW t \in Tasks,
           NEW u \in Buckets!Uses, uses' = [uses EXCEPT ![t] = u],
           UNCHANGED <<objects, started>>,
           Buckets!Running(t),
           Buckets!Counted(u), u.applied = uses[t].applied,
           u.alone = uses[t].alone, u.before = uses[t].before,
           u.op = uses[t].op, u.key = uses[t].key, u.target = uses[t].target,
           u.content = uses[t].content, u.at # "returned"
    PROVE  BucketsTypes' /\ Buckets!BucketsInv'
<1>1. /\ uses' \in [Tasks -> Buckets!Uses] /\ uses'[t] = u
      /\ \A v \in Tasks \ {t} : uses'[v] = uses[v]
  BY DEF BucketsTypes
<1>2. BucketsTypes'
  BY <1>1 DEF BucketsTypes
<1>3. ASSUME NEW v \in Tasks
      PROVE  Buckets!Counted(uses[v])'
  BY <1>1 DEF Buckets!Counted, Buckets!BucketsInv
<1>4. ASSUME NEW v \in Tasks, uses'[v].at # "idle", uses'[v].alone
      PROVE  /\ \A w \in Tasks \ {v} : ~Buckets!Running(w)'
             /\ Buckets!AsFoundOrMeant(uses[v])'
  <2>1. CASE v = t
    <3>1. uses[t].at # "idle" /\ uses[t].alone
      BY <1>1, <1>4, <2>1 DEF Buckets!Running
    <3>2. /\ \A w \in Tasks \ {t} : ~Buckets!Running(w)
          /\ Buckets!AsFoundOrMeant(uses[t])
      BY <3>1 DEF Buckets!BucketsInv
    <3>3. Buckets!Meant(u) = Buckets!Meant(uses[t])
      BY DEF Buckets!Meant
    <3>. QED
      BY <1>1, <2>1, <3>2, <3>3
         DEF Buckets!Running, Buckets!AsFoundOrMeant, Buckets!Meant
  <2>2. CASE v # t
    <3>1. uses[v].at # "idle" /\ uses[v].alone
      BY <1>1, <1>4, <2>2
    <3>2. ~Buckets!Running(t)
      BY <2>2, <3>1 DEF Buckets!BucketsInv
    <3>. QED
      BY <3>2
  <2>. QED
    BY <2>1, <2>2
<1>. QED
  BY <1>1, <1>2, <1>3, <1>4 DEF Buckets!BucketsInv

(* A call begins.                                                          *)
LEMMA UseBegins ==
    ASSUME BucketsTypes, Buckets!BucketsInv, NEW t \in Tasks,
           NEW op \in Buckets!Ops \ {"none"}, NEW content \in {0, 1, 2},
           Buckets!Begin(t, op, content)
    PROVE  BucketsTypes' /\ Buckets!BucketsInv'
<1>. DEFINE Alone == \A v \in Tasks : ~Buckets!Running(v)
<1>1. uses' = [u \in Tasks |->
            IF u = t
            THEN [Buckets!Unused EXCEPT
                    !.at = "calling", !.op = op, !.content = content,
                    !.attempts = 1, !.before = objects, !.alone = Alone]
            ELSE [uses[u] EXCEPT !.alone = FALSE]]
  BY Zenon DEF Buckets!Begin
<1>2. /\ started < MaxUses /\ started' = started + 1 /\ ~Buckets!Running(t)
      /\ UNCHANGED objects
  BY DEF Buckets!Begin
<1>3. PICK alone \in BOOLEAN : alone = Alone
  BY Zenon
<1>. HIDE DEF Alone
<1>4. PICK c : c = [Buckets!Unused EXCEPT
                      !.at = "calling", !.op = op, !.content = content,
                      !.attempts = 1, !.before = objects, !.alone = alone]
  OBVIOUS
<1>5. /\ c \in Buckets!Uses /\ c.at = "calling" /\ c.attempts = 1
      /\ c.applied = 0 /\ c.before = objects /\ c.alone = alone
      /\ c.retryIf = TRUE /\ c.op # "none"
  <2>1. c = [at |-> "calling", op |-> op, key |-> "k", target |-> "j",
             content |-> content, attempts |-> 1, applied |-> 0,
             retryIf |-> TRUE, answer |-> 0, before |-> objects,
             alone |-> alone]
    BY <1>4 DEF Buckets!Unused, Buckets!Absent
  <2>2. content \in {Buckets!Absent} \cup Buckets!Contents
    BY DEF Buckets!Contents, Buckets!Absent
  <2>. QED
    BY <2>1, <2>2 DEF BucketsTypes, Buckets!Uses
<1>6. Buckets!Counted(c)
  BY <1>5 DEF Buckets!Counted, BucketsTypes
<1>7. ASSUME NEW v \in Tasks, v # t
      PROVE  /\ uses'[v] = [uses[v] EXCEPT !.alone = FALSE]
             /\ uses'[v] \in Buckets!Uses /\ ~uses'[v].alone
             /\ uses'[v].at = uses[v].at /\ Buckets!Counted(uses[v])'
  <2>1. uses[v] \in Buckets!Uses /\ Buckets!Counted(uses[v])
    BY DEF BucketsTypes, Buckets!BucketsInv
  <2>2. uses'[v] = [uses[v] EXCEPT !.alone = FALSE]
    BY <1>1, <1>7
  <2>3. /\ uses'[v] \in Buckets!Uses /\ ~uses'[v].alone
        /\ uses'[v].op = uses[v].op
        /\ uses'[v].at = uses[v].at /\ uses'[v].attempts = uses[v].attempts
        /\ uses'[v].applied = uses[v].applied
        /\ uses'[v].retryIf = uses[v].retryIf
    BY <2>1, <2>2 DEF Buckets!Uses
  <2>. QED
    BY <2>1, <2>2, <2>3 DEF Buckets!Counted
<1>8. uses'[t] = c
  BY <1>1, <1>3, <1>4, Zenon
<1>9. uses' \in [Tasks -> Buckets!Uses]
  <2>1. DOMAIN uses' = Tasks /\ uses' = [v \in Tasks |-> uses'[v]]
    BY <1>1
  <2>. QED
    BY <1>5, <1>7, <1>8, <2>1
<1>10. BucketsTypes'
  BY <1>2, <1>9 DEF BucketsTypes
<1>11. ASSUME NEW v \in Tasks, uses'[v].at # "idle", uses'[v].alone
       PROVE  /\ \A w \in Tasks \ {v} : ~Buckets!Running(w)'
              /\ Buckets!AsFoundOrMeant(uses[v])'
  <2>1. v = t /\ alone
    BY <1>5, <1>7, <1>8, <1>11
  <2>2. \A w \in Tasks \ {t} : ~Buckets!Running(w)'
    BY <1>3, <1>7, <2>1 DEF Buckets!Running, Alone
  <2>. QED
    BY <1>2, <1>5, <1>8, <2>1, <2>2 DEF Buckets!AsFoundOrMeant
<1>12. \A v \in Tasks : Buckets!Counted(uses[v])'
  BY <1>6, <1>7, <1>8 DEF Buckets!Counted
<1>. QED
  BY <1>9, <1>10, <1>11, <1>12 DEF Buckets!BucketsInv

(* The statement of a call is done.                                        *)
LEMMA UseIsServed ==
    ASSUME BucketsTypes, Buckets!BucketsInv, NEW t \in Tasks,
           Buckets!Serve(t)
    PROVE  BucketsTypes' /\ Buckets!BucketsInv'
<1>1. PICK u : u = uses[t]
  OBVIOUS
<1>2. PICK at \in {"returned", "failed"}, retry \in BOOLEAN :
        /\ at = "returned" => retry
        /\ uses' = [uses EXCEPT ![t].at = at, ![t].applied = @ + 1,
                                ![t].retryIf = retry,
                                ![t].answer = Buckets!Found(u)]
  BY <1>1, Zenon DEF Buckets!Serve
<1>3. /\ u.at = "sent" /\ Buckets!Accepted(u) /\ objects' = Buckets!After(u)
      /\ UNCHANGED started
  BY <1>1 DEF Buckets!Serve
<1>4. u \in Buckets!Uses /\ Buckets!Counted(u) /\ Buckets!Running(t)
  BY <1>1, <1>3 DEF BucketsTypes, Buckets!BucketsInv, Buckets!Running
<1>5. PICK w : w = [u EXCEPT !.at = at, !.applied = @ + 1, !.retryIf = retry,
                             !.answer = Buckets!Found(u)]
  OBVIOUS
<1>6. /\ w \in Buckets!Uses /\ w.at = at /\ w.applied = u.applied + 1
      /\ w.answer = Buckets!Found(u) /\ w.attempts = u.attempts
      /\ w.retryIf = retry /\ w.alone = u.alone /\ w.before = u.before
      /\ w.op = u.op /\ w.key = u.key /\ w.target = u.target
      /\ w.content = u.content
  <2>1. Buckets!Found(u) \in Nat
    BY <1>4, FoundIsNat DEF BucketsTypes
  <2>2. /\ w.at = at /\ w.applied = u.applied + 1
        /\ w.answer = Buckets!Found(u) /\ w.attempts = u.attempts
        /\ w.retryIf = retry /\ w.alone = u.alone /\ w.before = u.before
        /\ w.op = u.op /\ w.key = u.key /\ w.target = u.target
        /\ w.content = u.content
    BY <1>4, <1>5 DEF Buckets!Uses
  <2>3. [u EXCEPT !.at = at] \in Buckets!Uses
    BY <1>4 DEF Buckets!Uses
  <2>4. [u EXCEPT !.at = at, !.applied = @ + 1, !.retryIf = retry]
            \in Buckets!Uses
    <3>1. PICK x \in Buckets!Uses : x = [u EXCEPT !.at = at]
      BY <2>3
    <3>2. PICK y \in Buckets!Uses : y = [x EXCEPT !.retryIf = retry]
      BY DEF Buckets!Uses
    <3>3. [y EXCEPT !.applied = @ + 1] \in Buckets!Uses
      BY DEF Buckets!Uses
    <3>4. [y EXCEPT !.applied = @ + 1]
            = [u EXCEPT !.at = at, !.applied = @ + 1, !.retryIf = retry]
      BY <1>4, <3>1, <3>2 DEF Buckets!Uses
    <3>. QED
      BY <3>3, <3>4
  <2>5. w \in Buckets!Uses
    BY <1>4, <1>5, <2>1, <2>4 DEF Buckets!Uses
  <2>. QED
    BY <2>2, <2>5
<1>7. /\ uses' \in [Tasks -> Buckets!Uses] /\ uses'[t] = w
      /\ \A v \in Tasks \ {t} : uses'[v] = uses[v]
  <2>1. uses' = [uses EXCEPT ![t] = w]
    BY <1>1, <1>2, <1>5 DEF BucketsTypes
  <2>. QED
    BY <1>6, <2>1 DEF BucketsTypes
<1>8. Buckets!Counted(w)
  BY <1>2, <1>3, <1>4, <1>6 DEF Buckets!Counted, Buckets!Uses
<1>9. objects' \in [Buckets!Keys -> Buckets!Contents \cup {Buckets!Absent}]
  <2>1. /\ u.key = "k" /\ u.target = "j"
        /\ u.content \in Buckets!Contents \cup {Buckets!Absent}
    BY <1>4 DEF Buckets!Uses
  <2>2. Buckets!Content(u) \in Buckets!Contents \cup {Buckets!Absent}
    BY <2>1 DEF Buckets!Content, BucketsTypes, Buckets!Keys
  <2>3. Buckets!Written(u)
          \in [Buckets!Keys -> Buckets!Contents \cup {Buckets!Absent}]
    BY <2>2 DEF Buckets!Written, BucketsTypes
  <2>. QED
    BY <1>3, <2>3 DEF Buckets!After, BucketsTypes
<1>10. BucketsTypes'
  BY <1>3, <1>7, <1>9 DEF BucketsTypes
<1>11. ASSUME NEW v \in Tasks, uses'[v].at # "idle", uses'[v].alone
       PROVE  /\ \A x \in Tasks \ {v} : ~Buckets!Running(x)'
              /\ Buckets!AsFoundOrMeant(uses[v])'
  <2>1. CASE v = t
    <3>1. u.alone /\ u.at # "idle"
      BY <1>3, <1>6, <1>7, <1>11, <2>1
    <3>2. /\ \A x \in Tasks \ {t} : ~Buckets!Running(x)
          /\ Buckets!AsFoundOrMeant(u)
      BY <1>1, <3>1 DEF Buckets!BucketsInv
    <3>3. \A x \in Tasks \ {t} : ~Buckets!Running(x)'
      BY <1>7, <3>2 DEF Buckets!Running
    <3>4. u.op # "none"
      BY <1>4, <3>1 DEF Buckets!Counted
    <3>5. /\ objects' = Buckets!Meant(u)
          /\ u.op \in Buckets!Reads => objects = u.before
      BY <1>3, <1>4, <3>2, <3>4, DoneAgain
         DEF Buckets!AsFoundOrMeant, BucketsTypes
    <3>6. Buckets!Meant(w) = Buckets!Meant(u)
      BY <1>6 DEF Buckets!Meant
    <3>7. w.op = "get" => w.answer = w.before[w.key]
      BY <1>6, <3>5 DEF Buckets!Found, Buckets!Reads
    <3>8. w.applied > 0 /\ w.applied # 0
      BY <1>4, <1>6 DEF Buckets!Uses
    <3>9. Buckets!AsFoundOrMeant(uses[v])'
      BY <1>7, <2>1, <3>5, <3>6, <3>7, <3>8
         DEF Buckets!AsFoundOrMeant, Buckets!Meant
    <3>. QED
      BY <2>1, <3>3, <3>9
  <2>2. CASE v # t
    <3>1. uses[v].at # "idle" /\ uses[v].alone
      BY <1>7, <1>11, <2>2
    <3>2. ~Buckets!Running(t)
      BY <2>2, <3>1 DEF Buckets!BucketsInv
    <3>. QED
      BY <1>4, <3>2
  <2>. QED
    BY <2>1, <2>2
<1>12. \A v \in Tasks : Buckets!Counted(uses[v])'
  BY <1>7, <1>8 DEF Buckets!Counted, Buckets!BucketsInv
<1>. QED
  BY <1>7, <1>10, <1>11, <1>12 DEF Buckets!BucketsInv

(* Every step of the bucket's calls keeps its invariant.                   *)
LEMMA BucketsStep ==
    ASSUME Buckets!BucketsAssumption, Buckets!TypeOK, Buckets!BucketsInv,
           Buckets!Next
    PROVE  (Buckets!TypeOK /\ Buckets!BucketsInv)'
<1>. SUFFICES BucketsTypes' /\ Buckets!BucketsInv'
  BY BucketsTypesGive
<1>1. BucketsTypes
  BY BucketsTypesOf
<1>2. PICK t \in Tasks :
        \/ Buckets!Put(t) \/ Buckets!PutIfNotExists(t) \/ Buckets!Delete(t)
        \/ Buckets!Copy(t) \/ Buckets!CopyIfNotExists(t)
        \/ Buckets!Rename(t) \/ Buckets!RenameIfNotExists(t)
        \/ Buckets!Get(t) \/ Buckets!GetText(t) \/ Buckets!Exists(t)
        \/ Buckets!Head(t) \/ Buckets!List(t)
        \/ Buckets!Connect(t) \/ Buckets!Serve(t) \/ Buckets!Lose(t)
        \/ Buckets!Refuse(t) \/ Buckets!Throw(t) \/ Buckets!Wait(t)
        \/ Buckets!Again(t)
  BY Zenon DEF Buckets!Next
<1>3. PICK u : u = uses[t]
  OBVIOUS
<1>4. u \in Buckets!Uses /\ Buckets!Counted(u)
  BY <1>1, <1>3 DEF BucketsTypes, Buckets!BucketsInv
<1>5. ASSUME NEW op \in Buckets!Ops \ {"none"}, NEW content \in {0, 1, 2},
             Buckets!Begin(t, op, content)
      PROVE  BucketsTypes' /\ Buckets!BucketsInv'
  BY <1>1, <1>5, UseBegins
<1>6. ASSUME \/ Buckets!Put(t) \/ Buckets!PutIfNotExists(t)
             \/ Buckets!Delete(t)
             \/ Buckets!Copy(t) \/ Buckets!CopyIfNotExists(t)
             \/ Buckets!Rename(t) \/ Buckets!RenameIfNotExists(t)
             \/ Buckets!Get(t) \/ Buckets!GetText(t) \/ Buckets!Exists(t)
             \/ Buckets!Head(t) \/ Buckets!List(t)
      PROVE  BucketsTypes' /\ Buckets!BucketsInv'
  <2>1. \E op \in Buckets!Ops \ {"none"}, content \in {0, 1, 2} :
            Buckets!Begin(t, op, content)
    <3>1. {"put", "putIfNotExists", "delete", "copy", "copyIfNotExists",
           "rename", "renameIfNotExists", "get", "getText", "exists", "head",
           "list"} \subseteq Buckets!Ops \ {"none"}
      BY DEF Buckets!Ops, Buckets!Writes, Buckets!Moves, Buckets!Reads
    <3>. QED
      BY <1>6, <3>1 DEF Buckets!Put, Buckets!PutIfNotExists, Buckets!Delete,
         Buckets!Copy, Buckets!CopyIfNotExists, Buckets!Rename,
         Buckets!RenameIfNotExists, Buckets!Get, Buckets!GetText,
         Buckets!Exists, Buckets!Head, Buckets!List, Buckets!Absent
  <2>. QED
    BY <1>5, <2>1
<1>7. ASSUME NEW at \in {"sent", "threw", "waiting"},
             Buckets!Running(t), Buckets!Goto(t, at),
             UNCHANGED <<objects, started>>,
             Buckets!Counted([u EXCEPT !.at = at])
      PROVE  BucketsTypes' /\ Buckets!BucketsInv'
  <2>1. PICK w : w = [u EXCEPT !.at = at]
    OBVIOUS
  <2>2. uses' = [uses EXCEPT ![t] = w]
    BY <1>3, <1>7, <2>1 DEF Buckets!Goto
  <2>3. /\ w \in Buckets!Uses /\ w.at = at /\ w.applied = u.applied
        /\ w.alone = u.alone /\ w.before = u.before /\ w.op = u.op
        /\ w.key = u.key /\ w.target = u.target /\ w.content = u.content
    BY <1>4, <2>1 DEF Buckets!Uses
  <2>4. Buckets!Counted(w)
    BY <1>7, <2>1
  <2>. QED
    BY <1>1, <1>3, <1>7, <2>2, <2>3, <2>4, UseGoesOn
<1>8. ASSUME NEW at \in {"sent", "threw", "waiting"},
             u.at # "idle",
             at = "sent" => u.at = "calling",
             at = "waiting" => u.attempts < MaxAttempts /\ u.retryIf,
             at = "threw" => ~u.retryIf \/ u.attempts = MaxAttempts
      PROVE  Buckets!Counted([u EXCEPT !.at = at])
  <2>1. PICK w : w = [u EXCEPT !.at = at]
    OBVIOUS
  <2>2. /\ w.at = at /\ w.applied = u.applied /\ w.attempts = u.attempts
        /\ w.retryIf = u.retryIf /\ w.op = u.op
    BY <1>4, <2>1 DEF Buckets!Uses
  <2>3. Buckets!Counted(w)
    BY <1>4, <1>8, <2>2 DEF Buckets!Counted
  <2>. QED
    BY <2>1, <2>3
<1>8a. ASSUME Buckets!Running(t), Buckets!Fail(t),
              UNCHANGED <<objects, started>>
       PROVE  BucketsTypes' /\ Buckets!BucketsInv'
  <2>1. PICK retry \in BOOLEAN :
            uses' = [uses EXCEPT ![t].at = "failed", ![t].retryIf = retry]
    BY <1>8a, Zenon DEF Buckets!Fail
  <2>2. PICK w : w = [u EXCEPT !.at = "failed", !.retryIf = retry]
    OBVIOUS
  <2>3. uses' = [uses EXCEPT ![t] = w]
    BY <1>1, <1>3, <2>1, <2>2 DEF BucketsTypes
  <2>4. /\ w \in Buckets!Uses /\ w.at = "failed" /\ w.applied = u.applied
        /\ w.attempts = u.attempts
        /\ w.alone = u.alone /\ w.before = u.before /\ w.op = u.op
        /\ w.key = u.key /\ w.target = u.target /\ w.content = u.content
    BY <1>4, <2>2 DEF Buckets!Uses
  <2>5. u.at # "idle"
    BY <1>3, <1>8a DEF Buckets!Running
  <2>6. Buckets!Counted(w)
    BY <1>4, <2>4, <2>5 DEF Buckets!Counted
  <2>. QED
    BY <1>1, <1>3, <1>8a, <2>3, <2>4, <2>6, UseGoesOn
<1>9. CASE Buckets!Connect(t)
  <2>1. u.at = "calling" /\ Buckets!Running(t)
    BY <1>3, <1>9 DEF Buckets!Connect, Buckets!Running
  <2>. QED
    BY <1>7, <1>8, <1>9, <1>8a, <2>1 DEF Buckets!Connect
<1>10. CASE Buckets!Lose(t) \/ Buckets!Refuse(t)
  <2>1. Buckets!Running(t)
    BY <1>10 DEF Buckets!Lose, Buckets!Refuse, Buckets!Running
  <2>. QED
    BY <1>10, <1>8a, <2>1 DEF Buckets!Lose, Buckets!Refuse
<1>11. CASE Buckets!Throw(t)
  <2>1. u.at = "failed" /\ Buckets!Running(t)
    BY <1>3, <1>11 DEF Buckets!Throw, Buckets!Running
  <2>. QED
    BY <1>3, <1>7, <1>8, <1>11, <2>1
       DEF Buckets!Throw, Buckets!LastAttempt
<1>12. CASE Buckets!Wait(t)
  <2>1. u.at = "failed" /\ Buckets!Running(t)
    BY <1>3, <1>12 DEF Buckets!Wait, Buckets!Running
  <2>2. u.retryIf /\ u.attempts < MaxAttempts
    BY <1>1, <1>3, <1>4, <1>12 DEF Buckets!Wait, Buckets!LastAttempt,
       Buckets!Counted, Buckets!Uses, BucketsTypes
  <2>. QED
    BY <1>7, <1>8, <1>12, <2>1, <2>2 DEF Buckets!Wait
<1>13. CASE Buckets!Again(t)
  <2>1. /\ u.at = "waiting" /\ Buckets!Running(t)
        /\ uses' = [uses EXCEPT ![t].at = "calling", ![t].attempts = @ + 1]
        /\ UNCHANGED <<objects, started>>
    BY <1>3, <1>13 DEF Buckets!Again, Buckets!Running
  <2>2. PICK w : w = [u EXCEPT !.at = "calling", !.attempts = @ + 1]
    OBVIOUS
  <2>3. uses' = [uses EXCEPT ![t] = w]
    BY <1>1, <1>3, <2>1, <2>2 DEF BucketsTypes
  <2>4. /\ w \in Buckets!Uses /\ w.at = "calling" /\ w.applied = u.applied
        /\ w.attempts = u.attempts + 1 /\ w.retryIf = u.retryIf
        /\ w.alone = u.alone /\ w.before = u.before /\ w.op = u.op
        /\ w.key = u.key /\ w.target = u.target /\ w.content = u.content
    <3>1. PICK x : x = [u EXCEPT !.at = "calling"]
      OBVIOUS
    <3>2. /\ x \in Buckets!Uses /\ x.at = "calling" /\ x.applied = u.applied
          /\ x.attempts = u.attempts /\ x.retryIf = u.retryIf
          /\ x.alone = u.alone /\ x.before = u.before /\ x.op = u.op
          /\ x.key = u.key /\ x.target = u.target /\ x.content = u.content
      BY <1>4, <3>1 DEF Buckets!Uses
    <3>3. w = [x EXCEPT !.attempts = u.attempts + 1]
      BY <1>4, <2>2, <3>1 DEF Buckets!Uses
    <3>4. u.attempts + 1 \in Nat
      BY <1>4 DEF Buckets!Uses
    <3>5. w \in Buckets!Uses
      BY <3>2, <3>3, <3>4 DEF Buckets!Uses
    <3>. QED
      BY <3>2, <3>3, <3>5 DEF Buckets!Uses
  <2>5. Buckets!Counted(w)
    BY <1>1, <1>4, <2>1, <2>4 DEF Buckets!Counted, Buckets!Uses, BucketsTypes
  <2>. QED
    BY <1>1, <1>3, <2>1, <2>3, <2>4, <2>5, UseGoesOn
<1>. QED
  BY <1>1, <1>2, <1>6, <1>9, <1>10, <1>11, <1>12, <1>13, UseIsServed

(* A call is done at most as often as it was attempted, and the bucket of  *)
(* one that is alone is as the call found it or as the call means it       *)
(* (bucket.ts, retry.ts).                                                  *)
THEOREM BucketsInvariant ==
    Spec => [](Buckets!TypeOK /\ Buckets!BucketsInv)
<1>. USE PartsAssumption
<1>1. Init => Buckets!TypeOK /\ Buckets!BucketsInv
  BY BucketsInitially DEF Init
<1>2. Buckets!TypeOK /\ Buckets!BucketsInv /\ [Next]_vars
        => (Buckets!TypeOK /\ Buckets!BucketsInv)'
  <2>. SUFFICES ASSUME Buckets!TypeOK, Buckets!BucketsInv, [Next]_vars
                PROVE  (Buckets!TypeOK /\ Buckets!BucketsInv)'
    OBVIOUS
  <2>1. CASE Buckets!Next
    BY <2>1, BucketsStep
  <2>2. CASE UNCHANGED bucketsVars
    <3>1. Buckets!TypeOK'
      BY <2>2, Zenon DEF bucketsVars, Buckets!TypeOK
    <3>2. ASSUME NEW t
          PROVE  /\ Buckets!Counted(uses[t])' <=> Buckets!Counted(uses[t])
                 /\ Buckets!Running(t)' <=> Buckets!Running(t)
                 /\ Buckets!Meant(uses[t])' = Buckets!Meant(uses[t])
      <4>1. Buckets!Counted(uses[t])' <=> Buckets!Counted(uses[t])
        BY <2>2, Zenon DEF bucketsVars, Buckets!Counted
      <4>2. Buckets!Running(t)' <=> Buckets!Running(t)
        BY <2>2, Zenon DEF bucketsVars, Buckets!Running
      <4>3. Buckets!Meant(uses[t])' = Buckets!Meant(uses[t])
        BY <2>2 DEF bucketsVars, Buckets!Meant
      <4>. QED
        BY <4>1, <4>2, <4>3
    <3>3. ASSUME NEW t
          PROVE  Buckets!AsFoundOrMeant(uses[t])'
                   <=> Buckets!AsFoundOrMeant(uses[t])
      BY <2>2, <3>2, Zenon DEF bucketsVars, Buckets!AsFoundOrMeant
    <3>4. Buckets!BucketsInv'
      BY <2>2, <3>2, <3>3, Zenon DEF bucketsVars, Buckets!BucketsInv
    <3>. QED
      BY <3>1, <3>4
  <2>. QED
    BY <2>1, <2>2, OnePartMoves
<1>. QED
  BY <1>1, <1>2, PTL DEF Spec

(* A call that is alone leaves the bucket as it means to, done once or     *)
(* several times, and as it was if it was never done.                      *)
THEOREM BucketsAreRight == Spec => []BucketsHold
<1>1. Buckets!TypeOK /\ Buckets!BucketsInv => BucketsHold
  <2>. SUFFICES ASSUME Buckets!TypeOK, Buckets!BucketsInv
                PROVE  BucketsHold
    OBVIOUS
  <2>1. BucketsTypes
    BY PartsAssumption, BucketsTypesOf
  <2>2. Buckets!AttemptsAccount
    BY <2>1 DEF Buckets!AttemptsAccount, Buckets!BucketsInv, Buckets!Counted,
       BucketsTypes, Buckets!Uses
  <2>3. Buckets!RetriesDoOnce
    BY DEF Buckets!RetriesDoOnce, Buckets!BucketsInv, Buckets!AsFoundOrMeant
  <2>. QED
    BY <2>2, <2>3 DEF BucketsHold
<1>. QED
  BY <1>1, BucketsInvariant, PTL

---------------------------------------------------------------------------
(* table.ts, sql.ts and parser.ts: an index on its way                     *)

(* A built index, clause by clause.                                        *)
LEMMA BuiltClauses ==
    /\ \A c, t : Echo!Plain(c, t) =
             [column |-> c, type |-> t, analyzer |-> "none", bm25 |-> FALSE,
              highlights |-> FALSE, distance |-> "none", vector |-> "none",
              capacity |-> "none", efc |-> "none", m |-> "none",
              degree |-> "none", lBuild |-> "none", alpha |-> "none",
              hashed |-> FALSE]
    /\ \A c, a, b, h : Echo!Search(c, a, b, h) =
             [column |-> c, type |-> "SEARCH", analyzer |-> a, bm25 |-> b,
              highlights |-> h, distance |-> "none", vector |-> "none",
              capacity |-> "none", efc |-> "none", m |-> "none",
              degree |-> "none", lBuild |-> "none", alpha |-> "none",
              hashed |-> FALSE]
    /\ \A c, e, v, n : Echo!Mtree(c, e, v, n) =
             [column |-> c, type |-> "MTREE", analyzer |-> "none",
              bm25 |-> FALSE, highlights |-> FALSE, distance |-> e,
              vector |-> v, capacity |-> n, efc |-> "none", m |-> "none",
              degree |-> "none", lBuild |-> "none", alpha |-> "none",
              hashed |-> FALSE]
    /\ \A c, e, v, f, m : Echo!Hnsw(c, e, v, f, m) =
             [column |-> c, type |-> "HNSW", analyzer |-> "none",
              bm25 |-> FALSE, highlights |-> FALSE, distance |-> e,
              vector |-> v, capacity |-> "none", efc |-> f, m |-> m,
              degree |-> "none", lBuild |-> "none", alpha |-> "none",
              hashed |-> FALSE]
    /\ \A c, e, v, n, a, h : Echo!Diskann(c, e, v, n, a, h) =
             [column |-> c, type |-> "DISKANN", analyzer |-> "none",
              bm25 |-> FALSE, highlights |-> FALSE, distance |-> e,
              vector |-> v, capacity |-> "none", efc |-> "none", m |-> "none",
              degree |-> n, lBuild |-> "100", alpha |-> a, hashed |-> h]
<1>1. ASSUME NEW c, NEW t
      PROVE  Echo!Plain(c, t) =
             [column |-> c, type |-> t, analyzer |-> "none", bm25 |-> FALSE,
              highlights |-> FALSE, distance |-> "none", vector |-> "none",
              capacity |-> "none", efc |-> "none", m |-> "none",
              degree |-> "none", lBuild |-> "none", alpha |-> "none",
              hashed |-> FALSE]
  <2>1. PICK d : d = Echo!Plain(c, t)
    OBVIOUS
  <2>2. d =
             [column |-> c, type |-> t, analyzer |-> "none", bm25 |-> FALSE,
              highlights |-> FALSE, distance |-> "none", vector |-> "none",
              capacity |-> "none", efc |-> "none", m |-> "none",
              degree |-> "none", lBuild |-> "none", alpha |-> "none",
              hashed |-> FALSE]
    BY <2>1 DEF Echo!Plain, Echo!None
  <2>. QED
    BY <2>1, <2>2, Zenon
<1>2. ASSUME NEW c, NEW a, NEW b, NEW h
      PROVE  Echo!Search(c, a, b, h) =
             [column |-> c, type |-> "SEARCH", analyzer |-> a, bm25 |-> b,
              highlights |-> h, distance |-> "none", vector |-> "none",
              capacity |-> "none", efc |-> "none", m |-> "none",
              degree |-> "none", lBuild |-> "none", alpha |-> "none",
              hashed |-> FALSE]
  <2>1. PICK d : d = Echo!Search(c, a, b, h)
    OBVIOUS
  <2>2. d =
             [column |-> c, type |-> "SEARCH", analyzer |-> a, bm25 |-> b,
              highlights |-> h, distance |-> "none", vector |-> "none",
              capacity |-> "none", efc |-> "none", m |-> "none",
              degree |-> "none", lBuild |-> "none", alpha |-> "none",
              hashed |-> FALSE]
    BY <2>1 DEF Echo!Plain, Echo!None, Echo!Search
  <2>. QED
    BY <2>1, <2>2, Zenon
<1>3. ASSUME NEW c, NEW e, NEW v, NEW n
      PROVE  Echo!Mtree(c, e, v, n) =
             [column |-> c, type |-> "MTREE", analyzer |-> "none",
              bm25 |-> FALSE, highlights |-> FALSE, distance |-> e,
              vector |-> v, capacity |-> n, efc |-> "none", m |-> "none",
              degree |-> "none", lBuild |-> "none", alpha |-> "none",
              hashed |-> FALSE]
  <2>1. PICK d : d = Echo!Mtree(c, e, v, n)
    OBVIOUS
  <2>2. d =
             [column |-> c, type |-> "MTREE", analyzer |-> "none",
              bm25 |-> FALSE, highlights |-> FALSE, distance |-> e,
              vector |-> v, capacity |-> n, efc |-> "none", m |-> "none",
              degree |-> "none", lBuild |-> "none", alpha |-> "none",
              hashed |-> FALSE]
    BY <2>1 DEF Echo!Plain, Echo!None, Echo!Mtree
  <2>. QED
    BY <2>1, <2>2, Zenon
<1>4. ASSUME NEW c, NEW e, NEW v, NEW f, NEW m
      PROVE  Echo!Hnsw(c, e, v, f, m) =
             [column |-> c, type |-> "HNSW", analyzer |-> "none",
              bm25 |-> FALSE, highlights |-> FALSE, distance |-> e,
              vector |-> v, capacity |-> "none", efc |-> f, m |-> m,
              degree |-> "none", lBuild |-> "none", alpha |-> "none",
              hashed |-> FALSE]
  <2>1. PICK d : d = Echo!Hnsw(c, e, v, f, m)
    OBVIOUS
  <2>2. d =
             [column |-> c, type |-> "HNSW", analyzer |-> "none",
              bm25 |-> FALSE, highlights |-> FALSE, distance |-> e,
              vector |-> v, capacity |-> "none", efc |-> f, m |-> m,
              degree |-> "none", lBuild |-> "none", alpha |-> "none",
              hashed |-> FALSE]
    BY <2>1 DEF Echo!Plain, Echo!None, Echo!Hnsw
  <2>. QED
    BY <2>1, <2>2, Zenon
<1>5. ASSUME NEW c, NEW e, NEW v, NEW n, NEW a, NEW h
      PROVE  Echo!Diskann(c, e, v, n, a, h) =
             [column |-> c, type |-> "DISKANN", analyzer |-> "none",
              bm25 |-> FALSE, highlights |-> FALSE, distance |-> e,
              vector |-> v, capacity |-> "none", efc |-> "none", m |-> "none",
              degree |-> n, lBuild |-> "100", alpha |-> a, hashed |-> h]
  <2>1. PICK d : d = Echo!Diskann(c, e, v, n, a, h)
    OBVIOUS
  <2>2. d =
             [column |-> c, type |-> "DISKANN", analyzer |-> "none",
              bm25 |-> FALSE, highlights |-> FALSE, distance |-> e,
              vector |-> v, capacity |-> "none", efc |-> "none", m |-> "none",
              degree |-> n, lBuild |-> "100", alpha |-> a, hashed |-> h]
    BY <2>1 DEF Echo!Plain, Echo!None, Echo!Diskann
  <2>. QED
    BY <2>1, <2>2, Zenon
<1>. QED
  BY <1>1, <1>2, <1>3, <1>4, <1>5, Zenon

(* Every index that a builder makes is a definition that is not refused.   *)
LEMMA BuiltsAreDefinitions ==
    ASSUME NEW d, Echo!Built(d)
    PROVE  d \in Echo!Definitions /\ ~Echo!Refuses(d)
<1>1. ASSUME NEW c \in Echo!Columns,
            NEW t \in {"INDEX", "UNIQUE"},
            d = Echo!Plain(c, t)
      PROVE  d \in Echo!Definitions /\ ~Echo!Refuses(d)
  <2>1. d = [column |-> c, type |-> t, analyzer |-> "none", bm25 |-> FALSE,
             highlights |-> FALSE, distance |-> "none", vector |-> "none",
             capacity |-> "none", efc |-> "none", m |-> "none",
             degree |-> "none", lBuild |-> "none", alpha |-> "none",
             hashed |-> FALSE]
    BY <1>1, BuiltClauses
  <2>. QED
    BY <2>1 DEF Echo!Definitions, Echo!Refuses,
       Echo!None, Echo!Columns, Echo!Types, Echo!Distances, Echo!VectorTypes
<1>2. ASSUME NEW c \in Echo!Columns,
            NEW a \in {Echo!None, "ascii", "text_en"},
            NEW b \in BOOLEAN,
            NEW h \in BOOLEAN,
            d = Echo!Search(c, a, b, h)
      PROVE  d \in Echo!Definitions /\ ~Echo!Refuses(d)
  <2>1. d = [column |-> c, type |-> "SEARCH", analyzer |-> a, bm25 |-> b,
             highlights |-> h, distance |-> "none", vector |-> "none",
             capacity |-> "none", efc |-> "none", m |-> "none",
             degree |-> "none", lBuild |-> "none", alpha |-> "none",
             hashed |-> FALSE]
    BY <1>2, BuiltClauses
  <2>. QED
    BY <2>1 DEF Echo!Definitions, Echo!Refuses,
       Echo!None, Echo!Columns, Echo!Types, Echo!Distances, Echo!VectorTypes
<1>3. ASSUME NEW c \in Echo!Columns,
            NEW e \in Echo!Distances,
            NEW v \in {"F64", "F32"},
            NEW n \in {Echo!None, "80"},
            d = Echo!Mtree(c, e, v, n)
      PROVE  d \in Echo!Definitions /\ ~Echo!Refuses(d)
  <2>1. d = [column |-> c, type |-> "MTREE", analyzer |-> "none",
             bm25 |-> FALSE, highlights |-> FALSE, distance |-> e,
             vector |-> v, capacity |-> n, efc |-> "none", m |-> "none",
             degree |-> "none", lBuild |-> "none", alpha |-> "none",
             hashed |-> FALSE]
    BY <1>3, BuiltClauses
  <2>. QED
    BY <2>1 DEF Echo!Definitions, Echo!Refuses,
       Echo!None, Echo!Columns, Echo!Types, Echo!Distances, Echo!VectorTypes
<1>4. ASSUME NEW c \in Echo!Columns,
            NEW e \in Echo!Distances,
            NEW v \in Echo!VectorTypes,
            NEW f \in {Echo!None, "500"},
            NEW m \in {Echo!None, "16"},
            d = Echo!Hnsw(c, e, v, f, m)
      PROVE  d \in Echo!Definitions /\ ~Echo!Refuses(d)
  <2>1. d = [column |-> c, type |-> "HNSW", analyzer |-> "none",
             bm25 |-> FALSE, highlights |-> FALSE, distance |-> e,
             vector |-> v, capacity |-> "none", efc |-> f, m |-> m,
             degree |-> "none", lBuild |-> "none", alpha |-> "none",
             hashed |-> FALSE]
    BY <1>4, BuiltClauses
  <2>. QED
    BY <2>1 DEF Echo!Definitions, Echo!Refuses,
       Echo!None, Echo!Columns, Echo!Types, Echo!Distances, Echo!VectorTypes
<1>5. ASSUME NEW c \in Echo!Columns,
            NEW e \in Echo!Distances \cup {"INNER_PRODUCT"},
            NEW v \in {"F32", "F16", "I8"},
            NEW n \in {"32", "64"},
            NEW a \in {"1.2", "1.5", "2"},
            NEW h \in BOOLEAN,
            d = Echo!Diskann(c, e, v, n, a, h)
      PROVE  d \in Echo!Definitions /\ ~Echo!Refuses(d)
  <2>1. d = [column |-> c, type |-> "DISKANN", analyzer |-> "none",
             bm25 |-> FALSE, highlights |-> FALSE, distance |-> e,
             vector |-> v, capacity |-> "none", efc |-> "none", m |-> "none",
             degree |-> n, lBuild |-> "100", alpha |-> a, hashed |-> h]
    BY <1>5, BuiltClauses
  <2>. QED
    BY <2>1 DEF Echo!Definitions, Echo!Refuses,
       Echo!None, Echo!Columns, Echo!Types, Echo!Distances, Echo!VectorTypes
<1>. QED
  BY <1>1, <1>2, <1>3, <1>4, <1>5 DEF Echo!Built

(* The statement of a definition is one, and is not refused if it is not.  *)
LEMMA StatementIsDefinition ==
    ASSUME NEW d \in Echo!Definitions, ~Echo!Refuses(d)
    PROVE  /\ Echo!GenerateIndexSql(d) \in Echo!Definitions
           /\ ~Echo!Refuses(Echo!GenerateIndexSql(d))
<1>. DEFINE k == d.column   t == d.type   a == d.analyzer   b == d.bm25
            h == d.highlights   x == d.distance   v == d.vector
            c == d.capacity   f == d.efc   m == d.m   n == d.degree
            l == d.lBuild   p == d.alpha   y == d.hashed
<1>1. d = [column |-> k, type |-> t, analyzer |-> a, bm25 |-> b,
             highlights |-> h, distance |-> x, vector |-> v, capacity |-> c,
             efc |-> f, m |-> m, degree |-> n, lBuild |-> l, alpha |-> p,
             hashed |-> y]
  BY DEF Echo!Definitions
<1>2. /\ k \in Echo!Columns \cup {"re"}
      /\ t \in Echo!Types
      /\ a \in {Echo!None, "ascii", "text_en"}
      /\ b \in BOOLEAN
      /\ h \in BOOLEAN
      /\ x \in {Echo!None, "INNER_PRODUCT"} \cup Echo!Distances
      /\ v \in {Echo!None} \cup Echo!VectorTypes
      /\ c \in {Echo!None, "40", "80"}
      /\ f \in {Echo!None, "150", "500"}
      /\ m \in {Echo!None, "12", "16"}
      /\ n \in {Echo!None, "32", "64"}
      /\ l \in {Echo!None, "100"}
      /\ p \in {Echo!None, "1.2", "1.2f", "1.5", "1.5f", "2"}
      /\ y \in BOOLEAN
  BY DEF Echo!Definitions
<1>. HIDE DEF k, t, a, b, h, x, v, c, f, m, n, l, p, y
<1>3. PICK s : s = Echo!GenerateIndexSql(d)
  OBVIOUS
<1>. SUFFICES s \in Echo!Definitions /\ ~Echo!Refuses(s)
  BY <1>3
<1>4. CASE d.type = "SEARCH"
  <2>1. /\ Echo!Either(a, "ascii")
             \in {Echo!None, "ascii", "text_en"}
    BY <1>2 DEF Echo!Either, Echo!None, Echo!Distances, Echo!VectorTypes
  <2>2. PICK a2 \in {Echo!None, "ascii", "text_en"} :
            /\ a2 = Echo!Either(a, "ascii")
    BY <2>1, Zenon
  <2>3. s = [d EXCEPT !.analyzer = a2]
    BY <1>1, <1>3, <1>4, <2>2 DEF Echo!GenerateIndexSql
  <2>4. s = [column |-> k, type |-> t, analyzer |-> a2, bm25 |-> b,
              highlights |-> h, distance |-> x, vector |-> v, capacity |-> c,
              efc |-> f, m |-> m, degree |-> n, lBuild |-> l, alpha |-> p,
              hashed |-> y]
    BY <1>1, <2>3
  <2>. QED
    BY <1>1, <1>2, <1>4, <2>2, <2>4 DEF Echo!Definitions, Echo!Refuses,
       Echo!Either,
       Echo!None, Echo!Columns, Echo!Types, Echo!Distances, Echo!VectorTypes
<1>5. CASE d.type = "DISKANN"
  <2>1. /\ Echo!Either(x, "EUCLIDEAN")
             \in {Echo!None, "INNER_PRODUCT"} \cup Echo!Distances
        /\ Echo!Either(v, "F32")
             \in {Echo!None} \cup Echo!VectorTypes
        /\ Echo!Either(n, "64")
             \in {Echo!None, "32", "64"}
        /\ Echo!Either(l, "100")
             \in {Echo!None, "100"}
        /\ Echo!Either(p, "1.2")
             \in {Echo!None, "1.2", "1.2f", "1.5", "1.5f", "2"}
    BY <1>2 DEF Echo!Either, Echo!None, Echo!Distances, Echo!VectorTypes
  <2>2. PICK x2 \in {Echo!None, "INNER_PRODUCT"} \cup Echo!Distances,
             v2 \in {Echo!None} \cup Echo!VectorTypes,
             n2 \in {Echo!None, "32", "64"},
             l2 \in {Echo!None, "100"},
             p2 \in {Echo!None, "1.2", "1.2f", "1.5", "1.5f", "2"} :
            /\ x2 = Echo!Either(x, "EUCLIDEAN")
            /\ v2 = Echo!Either(v, "F32")
            /\ n2 = Echo!Either(n, "64")
            /\ l2 = Echo!Either(l, "100")
            /\ p2 = Echo!Either(p, "1.2")
    BY <2>1, Zenon
  <2>3. s = [d EXCEPT !.distance = x2,
                    !.vector = v2,
                    !.degree = n2,
                    !.lBuild = l2,
                    !.alpha = p2]
    BY <1>1, <1>3, <1>5, <2>2 DEF Echo!GenerateIndexSql
  <2>4. s = [column |-> k, type |-> t, analyzer |-> a, bm25 |-> b,
              highlights |-> h, distance |-> x2, vector |-> v2, capacity |-> c,
              efc |-> f, m |-> m, degree |-> n2, lBuild |-> l2, alpha |-> p2,
              hashed |-> y]
    BY <1>1, <2>3
  <2>. QED
    BY <1>1, <1>2, <1>5, <2>2, <2>4 DEF Echo!Definitions, Echo!Refuses,
       Echo!Either,
       Echo!None, Echo!Columns, Echo!Types, Echo!Distances, Echo!VectorTypes
<1>6. CASE d.type \notin {"SEARCH", "DISKANN"}
  BY <1>3, <1>6 DEF Echo!GenerateIndexSql
<1>. QED
  BY <1>4, <1>5, <1>6

(* The echo of a statement is one, and is not refused if it is not.        *)
LEMMA EchoIsDefinition ==
    ASSUME NEW s \in Echo!Definitions, ~Echo!Refuses(s)
    PROVE  Echo!Echo(s) \in Echo!Definitions /\ ~Echo!Refuses(Echo!Echo(s))
<1>. DEFINE k == s.column   t == s.type   a == s.analyzer   b == s.bm25
            h == s.highlights   x == s.distance   v == s.vector
            c == s.capacity   f == s.efc   m == s.m   n == s.degree
            l == s.lBuild   p == s.alpha   y == s.hashed
<1>1. s = [column |-> k, type |-> t, analyzer |-> a, bm25 |-> b,
             highlights |-> h, distance |-> x, vector |-> v, capacity |-> c,
             efc |-> f, m |-> m, degree |-> n, lBuild |-> l, alpha |-> p,
             hashed |-> y]
  BY DEF Echo!Definitions
<1>2. /\ k \in Echo!Columns \cup {"re"}
      /\ t \in Echo!Types
      /\ a \in {Echo!None, "ascii", "text_en"}
      /\ b \in BOOLEAN
      /\ h \in BOOLEAN
      /\ x \in {Echo!None, "INNER_PRODUCT"} \cup Echo!Distances
      /\ v \in {Echo!None} \cup Echo!VectorTypes
      /\ c \in {Echo!None, "40", "80"}
      /\ f \in {Echo!None, "150", "500"}
      /\ m \in {Echo!None, "12", "16"}
      /\ n \in {Echo!None, "32", "64"}
      /\ l \in {Echo!None, "100"}
      /\ p \in {Echo!None, "1.2", "1.2f", "1.5", "1.5f", "2"}
      /\ y \in BOOLEAN
  BY DEF Echo!Definitions
<1>. HIDE DEF k, t, a, b, h, x, v, c, f, m, n, l, p, y
<1>3. PICK e : e = Echo!Echo(s)
  OBVIOUS
<1>. SUFFICES e \in Echo!Definitions /\ ~Echo!Refuses(e)
  BY <1>3
<1>4. CASE s.type = "MTREE"
  <2>1. /\ Echo!Either(x, "EUCLIDEAN")
             \in {Echo!None, "INNER_PRODUCT"} \cup Echo!Distances
        /\ Echo!Either(v, "F64")
             \in {Echo!None} \cup Echo!VectorTypes
        /\ Echo!Either(c, "40")
             \in {Echo!None, "40", "80"}
    BY <1>2 DEF Echo!Either, Echo!None, Echo!Distances, Echo!VectorTypes
  <2>2. PICK x2 \in {Echo!None, "INNER_PRODUCT"} \cup Echo!Distances,
             v2 \in {Echo!None} \cup Echo!VectorTypes,
             c2 \in {Echo!None, "40", "80"} :
            /\ x2 = Echo!Either(x, "EUCLIDEAN")
            /\ v2 = Echo!Either(v, "F64")
            /\ c2 = Echo!Either(c, "40")
    BY <2>1, Zenon
  <2>3. e = [s EXCEPT !.distance = x2,
                    !.vector = v2,
                    !.capacity = c2]
    BY <1>1, <1>3, <1>4, <2>2 DEF Echo!Echo
  <2>4. e = [column |-> k, type |-> t, analyzer |-> a, bm25 |-> b,
              highlights |-> h, distance |-> x2, vector |-> v2,
              capacity |-> c2, efc |-> f, m |-> m, degree |-> n, lBuild |-> l,
              alpha |-> p, hashed |-> y]
    BY <1>1, <2>3
  <2>. QED
    BY <1>1, <1>2, <1>4, <2>2, <2>4 DEF Echo!Definitions, Echo!Refuses,
       Echo!Either,
       Echo!None, Echo!Columns, Echo!Types, Echo!Distances, Echo!VectorTypes
<1>5. CASE s.type = "HNSW"
  <2>1. /\ Echo!Either(x, "EUCLIDEAN")
             \in {Echo!None, "INNER_PRODUCT"} \cup Echo!Distances
        /\ Echo!Either(v, "F32")
             \in {Echo!None} \cup Echo!VectorTypes
        /\ Echo!Either(f, "150")
             \in {Echo!None, "150", "500"}
        /\ Echo!Either(m, "12")
             \in {Echo!None, "12", "16"}
    BY <1>2 DEF Echo!Either, Echo!None, Echo!Distances, Echo!VectorTypes
  <2>2. PICK x2 \in {Echo!None, "INNER_PRODUCT"} \cup Echo!Distances,
             v2 \in {Echo!None} \cup Echo!VectorTypes,
             f2 \in {Echo!None, "150", "500"},
             m2 \in {Echo!None, "12", "16"} :
            /\ x2 = Echo!Either(x, "EUCLIDEAN")
            /\ v2 = Echo!Either(v, "F32")
            /\ f2 = Echo!Either(f, "150")
            /\ m2 = Echo!Either(m, "12")
    BY <2>1, Zenon
  <2>3. e = [s EXCEPT !.distance = x2,
                    !.vector = v2,
                    !.efc = f2,
                    !.m = m2]
    BY <1>1, <1>3, <1>5, <2>2 DEF Echo!Echo
  <2>4. e = [column |-> k, type |-> t, analyzer |-> a, bm25 |-> b,
              highlights |-> h, distance |-> x2, vector |-> v2, capacity |-> c,
              efc |-> f2, m |-> m2, degree |-> n, lBuild |-> l, alpha |-> p,
              hashed |-> y]
    BY <1>1, <2>3
  <2>. QED
    BY <1>1, <1>2, <1>5, <2>2, <2>4 DEF Echo!Definitions, Echo!Refuses,
       Echo!Either,
       Echo!None, Echo!Columns, Echo!Types, Echo!Distances, Echo!VectorTypes
<1>6. CASE s.type = "DISKANN"
  <2>1. PICK p2 \in {Echo!None, "1.2", "1.2f", "1.5", "1.5f", "2"} :
            p2 = CASE p = "1.2" -> "1.2f" [] p = "1.5" -> "1.5f" [] OTHER -> p
    BY <1>2 DEF Echo!None
  <2>2. e = [s EXCEPT !.alpha = p2]
    BY <1>1, <1>3, <1>6, <2>1 DEF Echo!Echo
  <2>3. e = [column |-> k, type |-> t, analyzer |-> a, bm25 |-> b,
              highlights |-> h, distance |-> x, vector |-> v, capacity |-> c,
              efc |-> f, m |-> m, degree |-> n, lBuild |-> l, alpha |-> p2,
              hashed |-> y]
    BY <1>1, <2>2
  <2>. QED
    BY <1>1, <1>2, <1>6, <2>1, <2>3 DEF Echo!Definitions, Echo!Refuses,
       Echo!None, Echo!Columns, Echo!Types, Echo!Distances, Echo!VectorTypes
<1>7. CASE s.type \notin {"MTREE", "HNSW", "DISKANN"}
  BY <1>3, <1>7 DEF Echo!Echo
<1>. QED
  BY <1>4, <1>5, <1>6, <1>7

(* The parser makes a definition of the clauses that the type has which it *)
(* found in the text.                                                      *)
LEMMA ParsedClauses ==
    ASSUME NEW s \in Echo!Definitions,
           NEW k, NEW t, NEW a, NEW x, NEW p,
           k = Echo!ExtractIndexColumns(s), t = Echo!ExtractIndexType(s),
           a = Echo!ExtractAnalyzer(s), x = Echo!ExtractDistance(s),
           p = Echo!ExtractAlpha(s)
    PROVE  LET b == s.bm25   h == s.highlights   v == s.vector   f == s.efc
               m == s.m   n == s.degree   l == s.lBuild   y == s.hashed
               r == Echo!ParseIndex(s)
           IN  /\ t = "SEARCH" =>
                  r = [column |-> k, type |-> t, analyzer |-> a, bm25 |-> b,
                        highlights |-> h, distance |-> "none",
                        vector |-> "none", capacity |-> "none", efc |-> "none",
                        m |-> "none", degree |-> "none", lBuild |-> "none",
                        alpha |-> "none", hashed |-> FALSE]
               /\ t = "MTREE" =>
                  r = [column |-> k, type |-> t, analyzer |-> "none",
                        bm25 |-> FALSE, highlights |-> FALSE, distance |-> x,
                        vector |-> v, capacity |-> "none", efc |-> "none",
                        m |-> "none", degree |-> "none", lBuild |-> "none",
                        alpha |-> "none", hashed |-> FALSE]
               /\ t = "HNSW" =>
                  r = [column |-> k, type |-> t, analyzer |-> "none",
                        bm25 |-> FALSE, highlights |-> FALSE, distance |-> x,
                        vector |-> v, capacity |-> "none", efc |-> f, m |-> m,
                        degree |-> "none", lBuild |-> "none", alpha |-> "none",
                        hashed |-> FALSE]
               /\ t = "DISKANN" =>
                  r = [column |-> k, type |-> t, analyzer |-> "none",
                        bm25 |-> FALSE, highlights |-> FALSE, distance |-> x,
                        vector |-> v, capacity |-> "none", efc |-> "none",
                        m |-> "none", degree |-> n, lBuild |-> l, alpha |-> p,
                        hashed |-> y]
               /\ t \notin {"SEARCH", "MTREE", "HNSW", "DISKANN"} =>
                  r = [column |-> k, type |-> t, analyzer |-> "none",
                        bm25 |-> FALSE, highlights |-> FALSE,
                        distance |-> "none", vector |-> "none",
                        capacity |-> "none", efc |-> "none", m |-> "none",
                        degree |-> "none", lBuild |-> "none", alpha |-> "none",
                        hashed |-> FALSE]
<1>. DEFINE b == s.bm25   h == s.highlights   v == s.vector   f == s.efc
            m == s.m   n == s.degree   l == s.lBuild   y == s.hashed
            plain == Echo!Plain(k, t)
<1>1. b \in BOOLEAN /\ h \in BOOLEAN /\ y \in BOOLEAN
  BY DEF Echo!Definitions
<1>2. PICK r : r = Echo!ParseIndex(s)
  OBVIOUS
<1>3. /\ t = "SEARCH" =>
           r = [plain EXCEPT !.analyzer = a, !.bm25 = b, !.highlights = h]
      /\ t = "MTREE" =>
           r = [plain EXCEPT !.distance = x, !.vector = v]
      /\ t = "HNSW" =>
           r = [[plain EXCEPT !.distance = x, !.vector = v]
                       EXCEPT !.efc = f, !.m = m]
      /\ t = "DISKANN" =>
           r = [[plain EXCEPT !.distance = x, !.vector = v]
                       EXCEPT !.degree = n, !.lBuild = l, !.alpha = p,
                              !.hashed = y]
      /\ t \notin {"SEARCH", "MTREE", "HNSW", "DISKANN"} =>
           r = plain
  BY <1>2 DEF Echo!ParseIndex
<1>4. plain = [column |-> k, type |-> t, analyzer |-> "none", bm25 |-> FALSE,
                highlights |-> FALSE, distance |-> "none", vector |-> "none",
                capacity |-> "none", efc |-> "none", m |-> "none",
                degree |-> "none", lBuild |-> "none", alpha |-> "none",
                hashed |-> FALSE]
  BY BuiltClauses, Zenon
<1>. HIDE DEF b, h, v, f, m, n, l, y, plain
<1>5. ASSUME t = "SEARCH"
      PROVE  r = [column |-> k, type |-> t, analyzer |-> a, bm25 |-> b,
                   highlights |-> h, distance |-> "none", vector |-> "none",
                   capacity |-> "none", efc |-> "none", m |-> "none",
                   degree |-> "none", lBuild |-> "none", alpha |-> "none",
                   hashed |-> FALSE]
  <2>1. r = [[column |-> k, type |-> t, analyzer |-> "none", bm25 |-> FALSE,
              highlights |-> FALSE, distance |-> "none", vector |-> "none",
              capacity |-> "none", efc |-> "none", m |-> "none",
              degree |-> "none", lBuild |-> "none", alpha |-> "none",
              hashed |-> FALSE]
                       EXCEPT !.analyzer = a, !.bm25 = b, !.highlights = h]
    BY <1>3, <1>4, <1>5, Zenon
  <2>. QED
    BY <1>1, <2>1
<1>6. ASSUME t = "MTREE"
      PROVE  r = [column |-> k, type |-> t, analyzer |-> "none",
                   bm25 |-> FALSE, highlights |-> FALSE, distance |-> x,
                   vector |-> v, capacity |-> "none", efc |-> "none",
                   m |-> "none", degree |-> "none", lBuild |-> "none",
                   alpha |-> "none", hashed |-> FALSE]
  <2>1. r = [[column |-> k, type |-> t, analyzer |-> "none", bm25 |-> FALSE,
              highlights |-> FALSE, distance |-> "none", vector |-> "none",
              capacity |-> "none", efc |-> "none", m |-> "none",
              degree |-> "none", lBuild |-> "none", alpha |-> "none",
              hashed |-> FALSE] EXCEPT !.distance = x, !.vector = v]
    BY <1>3, <1>4, <1>6, Zenon
  <2>. QED
    BY <1>1, <2>1
<1>7. ASSUME t = "HNSW"
      PROVE  r = [column |-> k, type |-> t, analyzer |-> "none",
                   bm25 |-> FALSE, highlights |-> FALSE, distance |-> x,
                   vector |-> v, capacity |-> "none", efc |-> f, m |-> m,
                   degree |-> "none", lBuild |-> "none", alpha |-> "none",
                   hashed |-> FALSE]
  <2>1. r = [[[column |-> k, type |-> t, analyzer |-> "none", bm25 |-> FALSE,
              highlights |-> FALSE, distance |-> "none", vector |-> "none",
              capacity |-> "none", efc |-> "none", m |-> "none",
              degree |-> "none", lBuild |-> "none", alpha |-> "none",
              hashed |-> FALSE] EXCEPT !.distance = x, !.vector = v]
                       EXCEPT !.efc = f, !.m = m]
    BY <1>3, <1>4, <1>7, Zenon
  <2>. QED
    BY <1>1, <2>1
<1>8. ASSUME t = "DISKANN"
      PROVE  r = [column |-> k, type |-> t, analyzer |-> "none",
                   bm25 |-> FALSE, highlights |-> FALSE, distance |-> x,
                   vector |-> v, capacity |-> "none", efc |-> "none",
                   m |-> "none", degree |-> n, lBuild |-> l, alpha |-> p,
                   hashed |-> y]
  <2>1. r = [[[column |-> k, type |-> t, analyzer |-> "none", bm25 |-> FALSE,
              highlights |-> FALSE, distance |-> "none", vector |-> "none",
              capacity |-> "none", efc |-> "none", m |-> "none",
              degree |-> "none", lBuild |-> "none", alpha |-> "none",
              hashed |-> FALSE] EXCEPT !.distance = x, !.vector = v]
                       EXCEPT !.degree = n, !.lBuild = l, !.alpha = p,
                              !.hashed = y]
    BY <1>3, <1>4, <1>8, Zenon
  <2>. QED
    BY <1>1, <2>1
<1>9. ASSUME t \notin {"SEARCH", "MTREE", "HNSW", "DISKANN"}
      PROVE  r = [column |-> k, type |-> t, analyzer |-> "none",
                   bm25 |-> FALSE, highlights |-> FALSE, distance |-> "none",
                   vector |-> "none", capacity |-> "none", efc |-> "none",
                   m |-> "none", degree |-> "none", lBuild |-> "none",
                   alpha |-> "none", hashed |-> FALSE]
  <2>1. r = [column |-> k, type |-> t, analyzer |-> "none", bm25 |-> FALSE,
              highlights |-> FALSE, distance |-> "none", vector |-> "none",
              capacity |-> "none", efc |-> "none", m |-> "none",
              degree |-> "none", lBuild |-> "none", alpha |-> "none",
              hashed |-> FALSE]
    BY <1>3, <1>4, <1>9, Zenon
  <2>. QED
    BY <1>1, <2>1
<1>. QED
  BY <1>2, <1>5, <1>6, <1>7, <1>8, <1>9, Zenon DEF b, h, v, f, m, n, l, y

(* The parser makes a definition of an echo, and gives its vectors to no   *)
(* index that refuses them.                                                *)
LEMMA ParsedIsDefinition ==
    ASSUME NEW s \in Echo!Definitions, ~Echo!Refuses(s)
    PROVE  /\ Echo!ParseIndex(s) \in Echo!Definitions
           /\ ~Echo!Refuses(Echo!ParseIndex(s))
<1>1. PICK k, t, a, x, p :
        /\ k = Echo!ExtractIndexColumns(s) /\ t = Echo!ExtractIndexType(s)
        /\ a = Echo!ExtractAnalyzer(s) /\ x = Echo!ExtractDistance(s)
        /\ p = Echo!ExtractAlpha(s)
  BY Zenon
<1>. DEFINE b == s.bm25   h == s.highlights   v == s.vector   f == s.efc
            m == s.m   n == s.degree   l == s.lBuild   y == s.hashed
<1>2. /\ k \in Echo!Columns \cup {"re"}
      /\ t \in Echo!Types
      /\ a \in {Echo!None, "ascii", "text_en"}
      /\ b \in BOOLEAN
      /\ h \in BOOLEAN
      /\ x \in {Echo!None, "INNER_PRODUCT"} \cup Echo!Distances
      /\ v \in {Echo!None} \cup Echo!VectorTypes
      /\ f \in {Echo!None, "150", "500"}
      /\ m \in {Echo!None, "12", "16"}
      /\ n \in {Echo!None, "32", "64"}
      /\ l \in {Echo!None, "100"}
      /\ p \in {Echo!None, "1.2", "1.2f", "1.5", "1.5f", "2"}
      /\ y \in BOOLEAN
  BY <1>1 DEF Echo!Definitions, Echo!ExtractIndexColumns,
     Echo!ExtractIndexType, Echo!ExtractAnalyzer, Echo!ExtractDistance,
     Echo!ExtractAlpha, Echo!None, Echo!Types, Echo!Columns
<1>3. /\ t = "MTREE" => v \notin {"F16", "I8"}
      /\ t = "DISKANN" => v \in {"F32", "F16", "I8"}
  BY <1>1 DEF Echo!ExtractIndexType, Echo!Keywords, Echo!Refuses
<1>4. PICK r : r = Echo!ParseIndex(s)
  OBVIOUS
<1>5. /\ t = "SEARCH" =>
           r = [column |-> k, type |-> t, analyzer |-> a, bm25 |-> b,
                 highlights |-> h, distance |-> "none", vector |-> "none",
                 capacity |-> "none", efc |-> "none", m |-> "none",
                 degree |-> "none", lBuild |-> "none", alpha |-> "none",
                 hashed |-> FALSE]
      /\ t = "MTREE" =>
           r = [column |-> k, type |-> t, analyzer |-> "none", bm25 |-> FALSE,
                 highlights |-> FALSE, distance |-> x, vector |-> v,
                 capacity |-> "none", efc |-> "none", m |-> "none",
                 degree |-> "none", lBuild |-> "none", alpha |-> "none",
                 hashed |-> FALSE]
      /\ t = "HNSW" =>
           r = [column |-> k, type |-> t, analyzer |-> "none", bm25 |-> FALSE,
                 highlights |-> FALSE, distance |-> x, vector |-> v,
                 capacity |-> "none", efc |-> f, m |-> m, degree |-> "none",
                 lBuild |-> "none", alpha |-> "none", hashed |-> FALSE]
      /\ t = "DISKANN" =>
           r = [column |-> k, type |-> t, analyzer |-> "none", bm25 |-> FALSE,
                 highlights |-> FALSE, distance |-> x, vector |-> v,
                 capacity |-> "none", efc |-> "none", m |-> "none",
                 degree |-> n, lBuild |-> l, alpha |-> p, hashed |-> y]
      /\ t \notin {"SEARCH", "MTREE", "HNSW", "DISKANN"} =>
           r = [column |-> k, type |-> t, analyzer |-> "none", bm25 |-> FALSE,
                 highlights |-> FALSE, distance |-> "none", vector |-> "none",
                 capacity |-> "none", efc |-> "none", m |-> "none",
                 degree |-> "none", lBuild |-> "none", alpha |-> "none",
                 hashed |-> FALSE]
  BY <1>1, <1>4, ParsedClauses, Zenon
<1>. HIDE DEF b, h, v, f, m, n, l, y
<1>6. r \in Echo!Definitions /\ ~Echo!Refuses(r)
  <2>1. CASE t = "SEARCH"
    <3>1. r = [column |-> k, type |-> t, analyzer |-> a, bm25 |-> b,
                highlights |-> h, distance |-> "none", vector |-> "none",
                capacity |-> "none", efc |-> "none", m |-> "none",
                degree |-> "none", lBuild |-> "none", alpha |-> "none",
                hashed |-> FALSE]
      BY <1>5, <2>1, Zenon
    <3>. QED
      BY <1>2, <1>3, <2>1, <3>1 DEF Echo!Definitions, Echo!Refuses,
         Echo!None
  <2>2. CASE t = "MTREE"
    <3>1. r = [column |-> k, type |-> t, analyzer |-> "none", bm25 |-> FALSE,
                highlights |-> FALSE, distance |-> x, vector |-> v,
                capacity |-> "none", efc |-> "none", m |-> "none",
                degree |-> "none", lBuild |-> "none", alpha |-> "none",
                hashed |-> FALSE]
      BY <1>5, <2>2, Zenon
    <3>. QED
      BY <1>2, <1>3, <2>2, <3>1 DEF Echo!Definitions, Echo!Refuses,
         Echo!None
  <2>3. CASE t = "HNSW"
    <3>1. r = [column |-> k, type |-> t, analyzer |-> "none", bm25 |-> FALSE,
                highlights |-> FALSE, distance |-> x, vector |-> v,
                capacity |-> "none", efc |-> f, m |-> m, degree |-> "none",
                lBuild |-> "none", alpha |-> "none", hashed |-> FALSE]
      BY <1>5, <2>3, Zenon
    <3>. QED
      BY <1>2, <1>3, <2>3, <3>1 DEF Echo!Definitions, Echo!Refuses,
         Echo!None
  <2>4. CASE t = "DISKANN"
    <3>1. r = [column |-> k, type |-> t, analyzer |-> "none", bm25 |-> FALSE,
                highlights |-> FALSE, distance |-> x, vector |-> v,
                capacity |-> "none", efc |-> "none", m |-> "none",
                degree |-> n, lBuild |-> l, alpha |-> p, hashed |-> y]
      BY <1>5, <2>4, Zenon
    <3>. QED
      BY <1>2, <1>3, <2>4, <3>1 DEF Echo!Definitions, Echo!Refuses,
         Echo!None
  <2>5. CASE t \notin {"SEARCH", "MTREE", "HNSW", "DISKANN"}
    <3>1. r = [column |-> k, type |-> t, analyzer |-> "none", bm25 |-> FALSE,
                highlights |-> FALSE, distance |-> "none", vector |-> "none",
                capacity |-> "none", efc |-> "none", m |-> "none",
                degree |-> "none", lBuild |-> "none", alpha |-> "none",
                hashed |-> FALSE]
      BY <1>5, <2>5, Zenon
    <3>. QED
      BY <1>2, <1>3, <2>5, <3>1 DEF Echo!Definitions, Echo!Refuses,
         Echo!None
  <2>. QED
    BY <2>1, <2>2, <2>3, <2>4, <2>5
<1>. QED
  BY <1>4, <1>6

(* An index of a plain column is read as what it is.                       *)
LEMMA PlainIsParsed ==
    ASSUME NEW s \in Echo!Definitions, s.column = "plain",
           s.type # Echo!None
    PROVE  /\ Echo!ExtractIndexColumns(s) = "plain"
           /\ Echo!ExtractIndexType(s) = s.type
           /\ Echo!ExtractDistance(s) = s.distance
<1>1. s.type \in Echo!Types \ {Echo!None}
  BY DEF Echo!Definitions
<1>. QED
  BY <1>1 DEF Echo!ExtractIndexColumns, Echo!ExtractIndexType,
     Echo!ExtractDistance, Echo!Keywords, Echo!Types, Echo!None

(* The echo of what an echo is read as is the echo again, and an index     *)
(* that states its tuning is read as what it was.                          *)
Kept(d) ==
    LET echo == Echo!Echo(Echo!GenerateIndexSql(d))
        again == Echo!ParseIndex(echo)
    IN  /\ Echo!Echo(Echo!GenerateIndexSql(again)) = echo
        /\ d.analyzer # "ascii"
            /\ (d.type = "HNSW" => Echo!None \notin {d.efc, d.m})
            => again = d

(* A plain or a unique index.                                              *)
LEMMA PlainIsKept ==
    ASSUME NEW t \in {"INDEX", "UNIQUE"}
    PROVE  Kept(Echo!Plain("plain", t))
<1>1. PICK d : d = Echo!Plain("plain", t)
  OBVIOUS
<1>2. PICK g : g = Echo!GenerateIndexSql(d)
  OBVIOUS
<1>3. g = Echo!Plain("plain", t)
  BY <1>1, <1>2, BuiltClauses DEF Echo!GenerateIndexSql
<1>4. PICK e : e = Echo!Echo(g)
  OBVIOUS
<1>5. e = Echo!Plain("plain", t)
  BY <1>3, <1>4, BuiltClauses DEF Echo!Echo
<1>6. e \in Echo!Definitions
  BY <1>5, BuiltClauses DEF Echo!Definitions,
       Echo!None, Echo!Columns, Echo!Types, Echo!Distances, Echo!VectorTypes
<1>7. PICK r : r = Echo!ParseIndex(e)
  OBVIOUS
<1>8. r = Echo!Plain("plain", t)
  <2>1. PICK ek, et, ea, ex, ep :
          /\ ek = Echo!ExtractIndexColumns(e) /\ et = Echo!ExtractIndexType(e)
          /\ ea = Echo!ExtractAnalyzer(e) /\ ex = Echo!ExtractDistance(e)
          /\ ep = Echo!ExtractAlpha(e)
    BY Zenon
  <2>2. e.column = "plain" /\ e.type = t
    BY <1>5, BuiltClauses
  <2>3. ek = "plain" /\ et = t /\ ex = e.distance
    BY <1>6, <2>1, <2>2, PlainIsParsed DEF Echo!None
  <2>4. et \notin {"SEARCH", "MTREE", "HNSW", "DISKANN"}
    BY <2>3
  <2>5. r = [column |-> ek, type |-> et, analyzer |-> "none", bm25 |-> FALSE,
              highlights |-> FALSE, distance |-> "none", vector |-> "none",
              capacity |-> "none", efc |-> "none", m |-> "none",
              degree |-> "none", lBuild |-> "none", alpha |-> "none",
              hashed |-> FALSE]
    BY <1>6, <1>7, <2>1, <2>4, ParsedClauses, Zenon
  <2>. QED
    BY <2>3, <2>5, BuiltClauses, Zenon
       DEF Echo!None
<1>9. PICK g2 : g2 = Echo!GenerateIndexSql(r)
  OBVIOUS
<1>10. g2 = Echo!Plain("plain", t)
  BY <1>8, <1>9, BuiltClauses DEF Echo!GenerateIndexSql
<1>11. Echo!Echo(g2) = e
  BY <1>3, <1>4, <1>10, Zenon
<1>12. r = d
  BY <1>1, <1>8, Zenon
<1>13. d.type = t
  BY <1>1, BuiltClauses
<1>. QED
  BY <1>1, <1>2, <1>4, <1>7, <1>9, <1>11, <1>12,
     <1>13, Zenon DEF Kept

(* A search index.                                                         *)
LEMMA SearchIsKept ==
    ASSUME NEW a \in {Echo!None, "ascii", "text_en"},
           NEW b \in BOOLEAN,
           NEW h \in BOOLEAN
    PROVE  Kept(Echo!Search("plain", a, b, h))
<1>1. PICK d : d = Echo!Search("plain", a, b, h)
  OBVIOUS
<1>2. PICK a2 \in {"ascii", "text_en"}, a3 \in {Echo!None, "text_en"} :
        /\ a2 = Echo!Either(a, "ascii")
        /\ a3 = IF a2 = "ascii" THEN Echo!None ELSE a2
  BY DEF Echo!Either, Echo!None
<1>3. PICK g : g = Echo!GenerateIndexSql(d)
  OBVIOUS
<1>4. g = Echo!Search("plain", a2, b, h)
  <2>1. /\ Echo!Either(a, "ascii") = a2
    BY <1>2 DEF Echo!Either, Echo!None, Echo!Distances, Echo!VectorTypes
  <2>2. /\ d.type = "SEARCH"
        /\ d.analyzer = a
    BY <1>1, <1>3, BuiltClauses DEF Echo!None
  <2>3. g = [d EXCEPT !.analyzer = a2]
    BY <1>1, <1>3, <2>1, <2>2 DEF Echo!GenerateIndexSql
  <2>. QED
    BY <1>1, <1>3, <2>3, BuiltClauses DEF Echo!None
<1>5. PICK e : e = Echo!Echo(g)
  OBVIOUS
<1>6. e = Echo!Search("plain", a2, b, h)
  BY <1>4, <1>5, BuiltClauses DEF Echo!Echo
<1>7. e \in Echo!Definitions
  BY <1>6, <1>2, BuiltClauses DEF Echo!Definitions,
       Echo!None, Echo!Columns, Echo!Types, Echo!Distances, Echo!VectorTypes
<1>8. PICK r : r = Echo!ParseIndex(e)
  OBVIOUS
<1>9. r = Echo!Search("plain", a3, b, h)
  <2>1. PICK ek, et, ea, ex, ep :
          /\ ek = Echo!ExtractIndexColumns(e) /\ et = Echo!ExtractIndexType(e)
          /\ ea = Echo!ExtractAnalyzer(e) /\ ex = Echo!ExtractDistance(e)
          /\ ep = Echo!ExtractAlpha(e)
    BY Zenon
  <2>2. e.column = "plain" /\ e.type = "SEARCH"
    BY <1>6, BuiltClauses
  <2>3. ek = "plain" /\ et = "SEARCH" /\ ex = e.distance
    BY <1>7, <2>1, <2>2, PlainIsParsed DEF Echo!None
  <2>4. et = "SEARCH"
    BY <2>3
  <2>5. r = [column |-> ek, type |-> et, analyzer |-> ea, bm25 |-> e.bm25,
              highlights |-> e.highlights, distance |-> "none",
              vector |-> "none", capacity |-> "none", efc |-> "none",
              m |-> "none", degree |-> "none", lBuild |-> "none",
              alpha |-> "none", hashed |-> FALSE]
    BY <1>7, <1>8, <2>1, <2>4, ParsedClauses, Zenon
  <2>6. /\ e.analyzer = a2
        /\ e.bm25 = b
        /\ e.highlights = h
    BY <1>6, BuiltClauses
  <2>7. ea = a3
    BY <2>1, <2>6, <1>2 DEF Echo!ExtractAnalyzer, Echo!ExtractAlpha, Echo!None
  <2>. QED
    BY <2>3, <2>5, <2>6, <2>7, BuiltClauses, Zenon
       DEF Echo!None
<1>10. PICK g2 : g2 = Echo!GenerateIndexSql(r)
  OBVIOUS
<1>11. g2 = Echo!Search("plain", a2, b, h)
  <2>1. /\ Echo!Either(a3, "ascii") = a2
    BY <1>2 DEF Echo!Either, Echo!None, Echo!Distances, Echo!VectorTypes
  <2>2. /\ r.type = "SEARCH"
        /\ r.analyzer = a3
    BY <1>9, <1>10, BuiltClauses DEF Echo!None
  <2>3. g2 = [r EXCEPT !.analyzer = a2]
    BY <1>9, <1>10, <2>1, <2>2 DEF Echo!GenerateIndexSql
  <2>. QED
    BY <1>9, <1>10, <2>3, BuiltClauses DEF Echo!None
<1>12. Echo!Echo(g2) = e
  BY <1>4, <1>5, <1>11, Zenon
<1>13. ASSUME d.analyzer # "ascii"
       PROVE  r = d
  <2>1. d.analyzer = a
    BY <1>1, BuiltClauses
  <2>2. a = a3
    BY <1>13, <1>2, <2>1 DEF Echo!Either, Echo!None
  <2>. QED
    BY <1>1, <1>9, <2>2, Zenon
<1>14. d.type = "SEARCH"
  BY <1>1, BuiltClauses
<1>. QED
  BY <1>1, <1>3, <1>5, <1>8, <1>10, <1>12, <1>13,
     <1>14, Zenon DEF Kept

(* An MTREE index without a capacity.                                      *)
LEMMA MtreeIsKept ==
    ASSUME NEW x \in Echo!Distances,
           NEW v \in {"F64", "F32"}
    PROVE  Kept(Echo!Mtree("plain", x, v, Echo!None))
<1>1. PICK d : d = Echo!Mtree("plain", x, v, Echo!None)
  OBVIOUS
<1>2. PICK g : g = Echo!GenerateIndexSql(d)
  OBVIOUS
<1>3. g = Echo!Mtree("plain", x, v, Echo!None)
  BY <1>1, <1>2, BuiltClauses DEF Echo!GenerateIndexSql
<1>4. PICK e : e = Echo!Echo(g)
  OBVIOUS
<1>5. e = Echo!Mtree("plain", x, v, "40")
  <2>1. /\ Echo!Either(x, "EUCLIDEAN") = x
        /\ Echo!Either(v, "F64") = v
        /\ Echo!Either("none", "40") = "40"
    BY DEF Echo!Either, Echo!None, Echo!Distances, Echo!VectorTypes
  <2>2. /\ g.type = "MTREE"
        /\ g.distance = x
        /\ g.vector = v
        /\ g.capacity = "none"
    BY <1>3, <1>4, BuiltClauses DEF Echo!None
  <2>3. e = [g EXCEPT !.distance = x, !.vector = v, !.capacity = "40"]
    BY <1>3, <1>4, <2>1, <2>2 DEF Echo!Echo
  <2>. QED
    BY <1>3, <1>4, <2>3, BuiltClauses DEF Echo!None
<1>6. e \in Echo!Definitions
  BY <1>5, BuiltClauses DEF Echo!Definitions,
       Echo!None, Echo!Columns, Echo!Types, Echo!Distances, Echo!VectorTypes
<1>7. PICK r : r = Echo!ParseIndex(e)
  OBVIOUS
<1>8. r = Echo!Mtree("plain", x, v, Echo!None)
  <2>1. PICK ek, et, ea, ex, ep :
          /\ ek = Echo!ExtractIndexColumns(e) /\ et = Echo!ExtractIndexType(e)
          /\ ea = Echo!ExtractAnalyzer(e) /\ ex = Echo!ExtractDistance(e)
          /\ ep = Echo!ExtractAlpha(e)
    BY Zenon
  <2>2. e.column = "plain" /\ e.type = "MTREE"
    BY <1>5, BuiltClauses
  <2>3. ek = "plain" /\ et = "MTREE" /\ ex = e.distance
    BY <1>6, <2>1, <2>2, PlainIsParsed DEF Echo!None
  <2>4. et = "MTREE"
    BY <2>3
  <2>5. r = [column |-> ek, type |-> et, analyzer |-> "none", bm25 |-> FALSE,
              highlights |-> FALSE, distance |-> ex, vector |-> e.vector,
              capacity |-> "none", efc |-> "none", m |-> "none",
              degree |-> "none", lBuild |-> "none", alpha |-> "none",
              hashed |-> FALSE]
    BY <1>6, <1>7, <2>1, <2>4, ParsedClauses, Zenon
  <2>6. /\ e.distance = x
        /\ e.vector = v
    BY <1>5, BuiltClauses
  <2>. QED
    BY <2>3, <2>5, <2>6, BuiltClauses, Zenon
       DEF Echo!None
<1>9. PICK g2 : g2 = Echo!GenerateIndexSql(r)
  OBVIOUS
<1>10. g2 = Echo!Mtree("plain", x, v, Echo!None)
  BY <1>8, <1>9, BuiltClauses DEF Echo!GenerateIndexSql
<1>11. Echo!Echo(g2) = e
  BY <1>3, <1>4, <1>10, Zenon
<1>12. r = d
  BY <1>1, <1>8, Zenon
<1>13. d.type = "MTREE"
  BY <1>1, BuiltClauses
<1>. QED
  BY <1>1, <1>2, <1>4, <1>7, <1>9, <1>11, <1>12,
     <1>13, Zenon DEF Kept

(* An HNSW index.                                                          *)
LEMMA HnswIsKept ==
    ASSUME NEW x \in Echo!Distances,
           NEW v \in Echo!VectorTypes,
           NEW f \in {Echo!None, "500"},
           NEW m \in {Echo!None, "16"}
    PROVE  Kept(Echo!Hnsw("plain", x, v, f, m))
<1>1. PICK d : d = Echo!Hnsw("plain", x, v, f, m)
  OBVIOUS
<1>2. PICK f2 \in {"150", "500"}, m2 \in {"12", "16"} :
        f2 = Echo!Either(f, "150") /\ m2 = Echo!Either(m, "12")
  BY DEF Echo!Either, Echo!None
<1>3. PICK g : g = Echo!GenerateIndexSql(d)
  OBVIOUS
<1>4. g = Echo!Hnsw("plain", x, v, f, m)
  BY <1>1, <1>3, BuiltClauses DEF Echo!GenerateIndexSql
<1>5. PICK e : e = Echo!Echo(g)
  OBVIOUS
<1>6. e = Echo!Hnsw("plain", x, v, f2, m2)
  <2>1. /\ Echo!Either(x, "EUCLIDEAN") = x
        /\ Echo!Either(v, "F32") = v
        /\ Echo!Either(f, "150") = f2
        /\ Echo!Either(m, "12") = m2
    BY <1>2 DEF Echo!Either, Echo!None, Echo!Distances, Echo!VectorTypes
  <2>2. /\ g.type = "HNSW"
        /\ g.distance = x
        /\ g.vector = v
        /\ g.efc = f
        /\ g.m = m
    BY <1>4, <1>5, BuiltClauses DEF Echo!None
  <2>3. e = [g EXCEPT !.distance = x, !.vector = v, !.efc = f2, !.m = m2]
    BY <1>4, <1>5, <2>1, <2>2 DEF Echo!Echo
  <2>. QED
    BY <1>4, <1>5, <2>3, BuiltClauses DEF Echo!None
<1>7. e \in Echo!Definitions
  BY <1>6, <1>2, BuiltClauses DEF Echo!Definitions,
       Echo!None, Echo!Columns, Echo!Types, Echo!Distances, Echo!VectorTypes
<1>8. PICK r : r = Echo!ParseIndex(e)
  OBVIOUS
<1>9. r = Echo!Hnsw("plain", x, v, f2, m2)
  <2>1. PICK ek, et, ea, ex, ep :
          /\ ek = Echo!ExtractIndexColumns(e) /\ et = Echo!ExtractIndexType(e)
          /\ ea = Echo!ExtractAnalyzer(e) /\ ex = Echo!ExtractDistance(e)
          /\ ep = Echo!ExtractAlpha(e)
    BY Zenon
  <2>2. e.column = "plain" /\ e.type = "HNSW"
    BY <1>6, BuiltClauses
  <2>3. ek = "plain" /\ et = "HNSW" /\ ex = e.distance
    BY <1>7, <2>1, <2>2, PlainIsParsed DEF Echo!None
  <2>4. et = "HNSW"
    BY <2>3
  <2>5. r = [column |-> ek, type |-> et, analyzer |-> "none", bm25 |-> FALSE,
              highlights |-> FALSE, distance |-> ex, vector |-> e.vector,
              capacity |-> "none", efc |-> e.efc, m |-> e.m, degree |-> "none",
              lBuild |-> "none", alpha |-> "none", hashed |-> FALSE]
    BY <1>7, <1>8, <2>1, <2>4, ParsedClauses, Zenon
  <2>6. /\ e.distance = x
        /\ e.vector = v
        /\ e.efc = f2
        /\ e.m = m2
    BY <1>6, BuiltClauses
  <2>. QED
    BY <2>3, <2>5, <2>6, BuiltClauses, Zenon
       DEF Echo!None
<1>10. PICK g2 : g2 = Echo!GenerateIndexSql(r)
  OBVIOUS
<1>11. g2 = Echo!Hnsw("plain", x, v, f2, m2)
  BY <1>9, <1>10, BuiltClauses DEF Echo!GenerateIndexSql
<1>12. Echo!Echo(g2) = e
  <2>1. PICK e2 : e2 = Echo!Echo(g2)
    OBVIOUS
  <2>2. e2 = Echo!Hnsw("plain", x, v, f2, m2)
    <3>1. /\ Echo!Either(x, "EUCLIDEAN") = x
          /\ Echo!Either(v, "F32") = v
          /\ Echo!Either(f2, "150") = f2
          /\ Echo!Either(m2, "12") = m2
      BY <1>2 DEF Echo!Either, Echo!None, Echo!Distances, Echo!VectorTypes
    <3>2. /\ g2.type = "HNSW"
          /\ g2.distance = x
          /\ g2.vector = v
          /\ g2.efc = f2
          /\ g2.m = m2
      BY <1>11, <2>1, BuiltClauses DEF Echo!None
    <3>3. e2 = [g2 EXCEPT !.distance = x, !.vector = v, !.efc = f2, !.m = m2]
      BY <1>11, <2>1, <3>1, <3>2 DEF Echo!Echo
    <3>. QED
      BY <1>11, <2>1, <3>3, BuiltClauses DEF Echo!None
  <2>. QED
    BY <1>6, <2>1, <2>2, Zenon
<1>13. ASSUME Echo!None \notin {d.efc, d.m}
       PROVE  r = d
  <2>1. d.efc = f /\ d.m = m
    BY <1>1, BuiltClauses
  <2>2. f = f2 /\ m = m2
    BY <1>13, <1>2, <2>1 DEF Echo!Either, Echo!None
  <2>. QED
    BY <1>1, <1>9, <2>2, Zenon
<1>14. d.type = "HNSW"
  BY <1>1, BuiltClauses
<1>. QED
  BY <1>1, <1>3, <1>5, <1>8, <1>10, <1>12, <1>13,
     <1>14, Zenon DEF Kept

(* A DISKANN index.                                                        *)
LEMMA DiskannIsKept ==
    ASSUME NEW x \in Echo!Distances \cup {"INNER_PRODUCT"},
           NEW v \in {"F32", "F16", "I8"},
           NEW n \in {"32", "64"},
           NEW p \in {"1.2", "1.5", "2"},
           NEW y \in BOOLEAN
    PROVE  Kept(Echo!Diskann("plain", x, v, n, p, y))
<1>1. PICK d : d = Echo!Diskann("plain", x, v, n, p, y)
  OBVIOUS
<1>2. PICK p2 \in {"1.2f", "1.5f", "2"} :
        p2 = CASE p = "1.2" -> "1.2f" [] p = "1.5" -> "1.5f" [] OTHER -> p
  BY DEF Echo!Either, Echo!None
<1>3. PICK g : g = Echo!GenerateIndexSql(d)
  OBVIOUS
<1>4. g = Echo!Diskann("plain", x, v, n, p, y)
  <2>1. /\ Echo!Either(x, "EUCLIDEAN") = x
        /\ Echo!Either(v, "F32") = v
        /\ Echo!Either(n, "64") = n
        /\ Echo!Either("100", "100") = "100"
        /\ Echo!Either(p, "1.2") = p
    BY <1>2 DEF Echo!Either, Echo!None, Echo!Distances, Echo!VectorTypes
  <2>2. /\ d.type = "DISKANN"
        /\ d.distance = x
        /\ d.vector = v
        /\ d.degree = n
        /\ d.lBuild = "100"
        /\ d.alpha = p
    BY <1>1, <1>3, BuiltClauses DEF Echo!None
  <2>3. g = [d EXCEPT !.distance = x, !.vector = v, !.degree = n, !.lBuild =
                    "100", !.alpha = p]
    BY <1>1, <1>3, <2>1, <2>2 DEF Echo!GenerateIndexSql
  <2>. QED
    BY <1>1, <1>3, <2>3, BuiltClauses DEF Echo!None
<1>5. PICK e : e = Echo!Echo(g)
  OBVIOUS
<1>6. e = Echo!Diskann("plain", x, v, n, p2, y)
  <2>1. g.type = "DISKANN" /\ g.alpha = p
    BY <1>4, BuiltClauses
  <2>2. e = [g EXCEPT !.alpha = p2]
    BY <1>2, <1>5, <2>1 DEF Echo!Echo
  <2>. QED
    BY <1>4, <2>2, BuiltClauses
<1>7. e \in Echo!Definitions
  BY <1>6, <1>2, BuiltClauses DEF Echo!Definitions,
       Echo!None, Echo!Columns, Echo!Types, Echo!Distances, Echo!VectorTypes
<1>8. PICK r : r = Echo!ParseIndex(e)
  OBVIOUS
<1>9. r = Echo!Diskann("plain", x, v, n, p, y)
  <2>1. PICK ek, et, ea, ex, ep :
          /\ ek = Echo!ExtractIndexColumns(e) /\ et = Echo!ExtractIndexType(e)
          /\ ea = Echo!ExtractAnalyzer(e) /\ ex = Echo!ExtractDistance(e)
          /\ ep = Echo!ExtractAlpha(e)
    BY Zenon
  <2>2. e.column = "plain" /\ e.type = "DISKANN"
    BY <1>6, BuiltClauses
  <2>3. ek = "plain" /\ et = "DISKANN" /\ ex = e.distance
    BY <1>7, <2>1, <2>2, PlainIsParsed DEF Echo!None
  <2>4. et = "DISKANN"
    BY <2>3
  <2>5. r = [column |-> ek, type |-> et, analyzer |-> "none", bm25 |-> FALSE,
              highlights |-> FALSE, distance |-> ex, vector |-> e.vector,
              capacity |-> "none", efc |-> "none", m |-> "none",
              degree |-> e.degree, lBuild |-> e.lBuild, alpha |-> ep,
              hashed |-> e.hashed]
    BY <1>7, <1>8, <2>1, <2>4, ParsedClauses, Zenon
  <2>6. /\ e.distance = x
        /\ e.vector = v
        /\ e.degree = n
        /\ e.lBuild = "100"
        /\ e.alpha = p2
        /\ e.hashed = y
    BY <1>6, BuiltClauses
  <2>7. ep = p
    BY <2>1, <2>6, <1>2 DEF Echo!ExtractAnalyzer, Echo!ExtractAlpha, Echo!None
  <2>. QED
    BY <2>3, <2>5, <2>6, <2>7, BuiltClauses, Zenon
       DEF Echo!None
<1>10. PICK g2 : g2 = Echo!GenerateIndexSql(r)
  OBVIOUS
<1>11. g2 = Echo!Diskann("plain", x, v, n, p, y)
  <2>1. /\ Echo!Either(x, "EUCLIDEAN") = x
        /\ Echo!Either(v, "F32") = v
        /\ Echo!Either(n, "64") = n
        /\ Echo!Either("100", "100") = "100"
        /\ Echo!Either(p, "1.2") = p
    BY <1>2 DEF Echo!Either, Echo!None, Echo!Distances, Echo!VectorTypes
  <2>2. /\ r.type = "DISKANN"
        /\ r.distance = x
        /\ r.vector = v
        /\ r.degree = n
        /\ r.lBuild = "100"
        /\ r.alpha = p
    BY <1>9, <1>10, BuiltClauses DEF Echo!None
  <2>3. g2 = [r EXCEPT !.distance = x, !.vector = v, !.degree = n, !.lBuild =
                    "100", !.alpha = p]
    BY <1>9, <1>10, <2>1, <2>2 DEF Echo!GenerateIndexSql
  <2>. QED
    BY <1>9, <1>10, <2>3, BuiltClauses DEF Echo!None
<1>12. Echo!Echo(g2) = e
  BY <1>4, <1>5, <1>11, Zenon
<1>13. r = d
  BY <1>1, <1>9, Zenon
<1>14. d.type = "DISKANN"
  BY <1>1, BuiltClauses
<1>. QED
  BY <1>1, <1>3, <1>5, <1>8, <1>10, <1>12, <1>13,
     <1>14, Zenon DEF Kept

(* Every built index of a plain column is kept, whatever its kind.         *)
LEMMA BuiltIsKept ==
    ASSUME NEW d, Echo!Built(d), d.column = "plain", d.capacity = Echo!None
    PROVE  Kept(d)
<1>1. ASSUME NEW c \in Echo!Columns, NEW t \in {"INDEX", "UNIQUE"},
             d = Echo!Plain(c, t)
      PROVE  Kept(d)
  <2>1. c = "plain"
    BY <1>1, BuiltClauses
  <2>. QED
    BY <1>1, <2>1, PlainIsKept, Zenon
<1>2. ASSUME NEW c \in Echo!Columns, NEW a \in {Echo!None, "ascii", "text_en"},
             NEW b \in BOOLEAN, NEW h \in BOOLEAN,
             d = Echo!Search(c, a, b, h)
      PROVE  Kept(d)
  <2>1. c = "plain"
    BY <1>2, BuiltClauses
  <2>. QED
    BY <1>2, <2>1, SearchIsKept, Zenon
<1>3. ASSUME NEW c \in Echo!Columns, NEW x \in Echo!Distances,
             NEW v \in {"F64", "F32"}, NEW n \in {Echo!None, "80"},
             d = Echo!Mtree(c, x, v, n)
      PROVE  Kept(d)
  <2>1. c = "plain" /\ n = Echo!None
    BY <1>3, BuiltClauses
  <2>. QED
    BY <1>3, <2>1, MtreeIsKept, Zenon
<1>4. ASSUME NEW c \in Echo!Columns, NEW x \in Echo!Distances,
             NEW v \in Echo!VectorTypes, NEW f \in {Echo!None, "500"},
             NEW m \in {Echo!None, "16"},
             d = Echo!Hnsw(c, x, v, f, m)
      PROVE  Kept(d)
  <2>1. c = "plain"
    BY <1>4, BuiltClauses
  <2>. QED
    BY <1>4, <2>1, HnswIsKept, Zenon
<1>5. ASSUME NEW c \in Echo!Columns,
             NEW x \in Echo!Distances \cup {"INNER_PRODUCT"},
             NEW v \in {"F32", "F16", "I8"}, NEW n \in {"32", "64"},
             NEW p \in {"1.2", "1.5", "2"}, NEW y \in BOOLEAN,
             d = Echo!Diskann(c, x, v, n, p, y)
      PROVE  Kept(d)
  <2>1. c = "plain"
    BY <1>5, BuiltClauses
  <2>. QED
    BY <1>5, <2>1, DiskannIsKept, Zenon
<1>. QED
  BY <1>1, <1>2, <1>3, <1>4, <1>5 DEF Echo!Built

(* No index has been built at first.                                       *)
LEMMA EchoInitially == Echo!Init => Echo!EchoInv
<1>. SUFFICES ASSUME Echo!Init PROVE Echo!EchoInv
  OBVIOUS
<1>1. PICK d : d = Echo!NoDefinition
  OBVIOUS
<1>2. d = [column |-> "plain", type |-> "none", analyzer |-> "none",
           bm25 |-> FALSE, highlights |-> FALSE, distance |-> "none",
           vector |-> "none", capacity |-> "none", efc |-> "none",
           m |-> "none", degree |-> "none", lBuild |-> "none",
           alpha |-> "none", hashed |-> FALSE]
  BY <1>1, BuiltClauses, Zenon DEF Echo!NoDefinition, Echo!None
<1>3. d \in Echo!Definitions /\ ~Echo!Refuses(d)
  BY <1>2 DEF Echo!Definitions, Echo!Refuses, Echo!None, Echo!Columns,
     Echo!Types, Echo!Distances, Echo!VectorTypes
<1>4. /\ built = d /\ definition = d /\ stored = <<>> /\ refused = FALSE
      /\ phase = "new"
  BY <1>1, Zenon DEF Echo!Init
<1>5. <<>> \in Seq(Echo!Definitions) /\ DOMAIN <<>> = {}
  OBVIOUS
<1>. QED
  BY <1>1, <1>3, <1>4, <1>5 DEF Echo!EchoInv

(* A builder makes a built index.                                          *)
LEMMA BuilderDeclares ==
    ASSUME \/ Echo!Index \/ Echo!UniqueIndex \/ Echo!SearchIndex
           \/ Echo!MtreeIndex \/ Echo!HnswIndex \/ Echo!DiskannIndex
    PROVE  \E d : Echo!Built(d) /\ Echo!Declare(d)
<1>. USE DEF Echo!None, Echo!Distances, Echo!VectorTypes
<1>1. CASE Echo!Index
  BY <1>1 DEF Echo!Index, Echo!Built
<1>2. CASE Echo!UniqueIndex
  BY <1>2 DEF Echo!UniqueIndex, Echo!Built
<1>3. CASE Echo!SearchIndex
  BY <1>3 DEF Echo!SearchIndex, Echo!Built
<1>4. CASE Echo!MtreeIndex
  <2>1. PICK c \in Echo!Columns, x \in Echo!Distances \cup {Echo!None},
             v \in Echo!VectorTypes \cup {Echo!None},
             n \in {Echo!None, "80"} :
          /\ Echo!MtreeTakes(Echo!Either(v, "F64"))
          /\ Echo!Declare(Echo!Mtree(c, Echo!Either(x, "COSINE"),
                                     Echo!Either(v, "F64"), n))
    BY <1>4, Zenon DEF Echo!MtreeIndex
  <2>2. /\ Echo!Either(x, "COSINE") \in Echo!Distances
        /\ Echo!Either(v, "F64") \in {"F64", "F32"}
    BY <2>1 DEF Echo!Either, Echo!MtreeTakes
  <2>. QED
    BY <2>1, <2>2 DEF Echo!Built
<1>5. CASE Echo!HnswIndex
  <2>1. PICK c \in Echo!Columns, x \in Echo!Distances \cup {Echo!None},
             v \in Echo!VectorTypes \cup {Echo!None},
             f \in {Echo!None, "500"}, m \in {Echo!None, "16"} :
          Echo!Declare(Echo!Hnsw(c, Echo!Either(x, "COSINE"),
                                 Echo!Either(v, "F32"), f, m))
    BY <1>5, Zenon DEF Echo!HnswIndex
  <2>2. /\ Echo!Either(x, "COSINE") \in Echo!Distances
        /\ Echo!Either(v, "F32") \in Echo!VectorTypes
    BY DEF Echo!Either
  <2>. QED
    BY <2>1, <2>2 DEF Echo!Built
<1>6. CASE Echo!DiskannIndex
  <2>1. PICK c \in Echo!Columns,
             x \in Echo!Distances \cup {Echo!None, "INNER_PRODUCT"},
             v \in Echo!VectorTypes \cup {Echo!None},
             n \in {Echo!None, "32"}, p \in {Echo!None, "1.5", "2.0"},
             y \in BOOLEAN :
          /\ Echo!DiskannTakes(Echo!Either(v, "F32"))
          /\ Echo!Declare(Echo!Diskann(
                 c, Echo!Either(x, "EUCLIDEAN"), Echo!Either(v, "F32"),
                 Echo!Either(n, "64"),
                 Echo!CanonicalAlpha(Echo!Either(p, "1.2")), y))
    BY <1>6, Zenon DEF Echo!DiskannIndex
  <2>2. /\ Echo!Either(x, "EUCLIDEAN") \in Echo!Distances \cup {"INNER_PRODUCT"}
        /\ Echo!Either(v, "F32") \in {"F32", "F16", "I8"}
        /\ Echo!Either(n, "64") \in {"32", "64"}
        /\ Echo!CanonicalAlpha(Echo!Either(p, "1.2")) \in {"1.2", "1.5", "2"}
    BY <2>1 DEF Echo!Either, Echo!DiskannTakes, Echo!CanonicalAlpha
  <2>. QED
    BY <2>1, <2>2 DEF Echo!Built
<1>. QED
  BY <1>1, <1>2, <1>3, <1>4, <1>5, <1>6

(* Every step of an index on its way keeps its invariant.                  *)
LEMMA EchoStep ==
    ASSUME Echo!EchoInv, Echo!Next
    PROVE  Echo!EchoInv'
<1>1. CASE \/ Echo!Index \/ Echo!UniqueIndex \/ Echo!SearchIndex
           \/ Echo!MtreeIndex \/ Echo!HnswIndex \/ Echo!DiskannIndex
  <2>1. PICK d : Echo!Built(d) /\ Echo!Declare(d)
    BY <1>1, BuilderDeclares, Zenon
  <2>2. /\ phase = "new" /\ phase' = "defined" /\ built' = d /\ definition' = d
        /\ stored' = stored /\ refused' = refused
    BY <2>1 DEF Echo!Declare
  <2>3. stored = <<>> /\ ~refused
    BY <2>2 DEF Echo!EchoInv
  <2>4. d \in Echo!Definitions /\ ~Echo!Refuses(d)
    BY <2>1, BuiltsAreDefinitions
  <2>5. <<>> \in Seq(Echo!Definitions) /\ DOMAIN <<>> = {}
    OBVIOUS
  <2>. QED
    BY <2>1, <2>2, <2>3, <2>4, <2>5 DEF Echo!EchoInv
<1>2. CASE Echo!Apply
  <2>1. PICK s : s = Echo!GenerateIndexSql(definition)
    OBVIOUS
  <2>2. /\ phase = "defined" /\ phase' = "applied"
        /\ refused' = Echo!Refuses(s)
        /\ stored' = IF Echo!Refuses(s) THEN stored
                     ELSE Append(stored, Echo!Echo(s))
        /\ built' = built /\ definition' = definition
    BY <1>2, <2>1, Zenon DEF Echo!Apply
  <2>3. definition \in Echo!Definitions /\ ~Echo!Refuses(definition)
    BY DEF Echo!EchoInv
  <2>4. s \in Echo!Definitions /\ ~Echo!Refuses(s)
    BY <2>1, <2>3, StatementIsDefinition
  <2>5. PICK e : e = Echo!Echo(s)
    OBVIOUS
  <2>6. e \in Echo!Definitions /\ ~Echo!Refuses(e)
    BY <2>4, <2>5, EchoIsDefinition
  <2>7. stored' = Append(stored, e) /\ ~refused'
    BY <2>2, <2>4, <2>5
  <2>8. stored \in Seq(Echo!Definitions)
    BY DEF Echo!EchoInv
  <2>9. /\ stored' \in Seq(Echo!Definitions) /\ stored' # <<>>
        /\ \A i \in DOMAIN stored' :
             stored'[i] = e \/ (i \in DOMAIN stored /\ stored'[i] = stored[i])
    BY <2>6, <2>7, <2>8
  <2>10. ASSUME built.column = "plain", built.capacity = Echo!None
         PROVE  LET echo == Echo!Echo(Echo!GenerateIndexSql(built))
                IN  /\ \A i \in DOMAIN stored' : stored'[i] = echo
                    /\ definition # built => definition = Echo!ParseIndex(echo)
    <3>1. Kept(built)
      BY <2>2, <2>10, BuiltIsKept DEF Echo!EchoInv
    <3>2. PICK echo : echo = Echo!Echo(Echo!GenerateIndexSql(built))
      OBVIOUS
    <3>3. /\ \A i \in DOMAIN stored : stored[i] = echo
          /\ definition # built => definition = Echo!ParseIndex(echo)
      BY <2>10, <3>2, Zenon DEF Echo!EchoInv
    <3>4. e = echo
      BY <2>1, <2>5, <3>1, <3>2, <3>3, Zenon DEF Kept
    <3>. QED
      BY <2>9, <3>2, <3>3, <3>4
  <2>. QED
    BY <2>2, <2>3, <2>6, <2>7, <2>9, <2>10 DEF Echo!EchoInv
<1>3. CASE Echo!Pull
  <2>1. PICK e : e = stored[Len(stored)]
    OBVIOUS
  <2>2. /\ phase = "applied" /\ phase' = "defined"
        /\ definition' = Echo!ParseIndex(e)
        /\ built' = built /\ stored' = stored /\ refused' = refused
    BY <1>3, <2>1 DEF Echo!Pull
  <2>3. stored \in Seq(Echo!Definitions) /\ stored # <<>>
    BY <2>2 DEF Echo!EchoInv
  <2>4. Len(stored) \in DOMAIN stored
    BY <2>3
  <2>5. e \in Echo!Definitions /\ ~Echo!Refuses(e)
    BY <2>1, <2>3, <2>4 DEF Echo!EchoInv
  <2>6. /\ definition' \in Echo!Definitions
        /\ ~Echo!Refuses(definition')
    BY <2>2, <2>5, ParsedIsDefinition
  <2>7. ASSUME built.column = "plain", built.capacity = Echo!None
        PROVE  LET echo == Echo!Echo(Echo!GenerateIndexSql(built))
               IN  /\ \A i \in DOMAIN stored : stored[i] = echo
                   /\ definition' = Echo!ParseIndex(echo)
    <3>1. PICK echo : echo = Echo!Echo(Echo!GenerateIndexSql(built))
      OBVIOUS
    <3>2. \A i \in DOMAIN stored : stored[i] = echo
      BY <2>7, <3>1, Zenon DEF Echo!EchoInv
    <3>. QED
      BY <2>1, <2>2, <2>4, <3>1, <3>2, Zenon
  <2>. QED
    BY <2>2, <2>6, <2>7 DEF Echo!EchoInv
<1>. QED
  BY <1>1, <1>2, <1>3 DEF Echo!Next

(* No definition becomes one that is refused, and that of a plain column   *)
(* is the built one or what its echo is read as (table.ts, sql.ts,         *)
(* parser.ts).                                                             *)
THEOREM EchoInvariant == Spec => []Echo!EchoInv
<1>1. Init => Echo!EchoInv
  BY EchoInitially DEF Init
<1>2. Echo!EchoInv /\ [Next]_vars => Echo!EchoInv'
  <2>. SUFFICES ASSUME Echo!EchoInv, [Next]_vars
                PROVE  Echo!EchoInv'
    OBVIOUS
  <2>1. CASE Echo!Next
    BY <2>1, EchoStep
  <2>2. CASE UNCHANGED echoVars
    BY <2>2, Zenon DEF echoVars, Echo!EchoInv
  <2>. QED
    BY <2>1, <2>2, OnePartMoves
<1>. QED
  BY <1>1, <1>2, PTL DEF Spec

(* Nothing that a builder made is refused, every database that an index is *)
(* copied to has the same one, and an index that states its tuning is read *)
(* as it was declared.                                                     *)
THEOREM EchoesAreRight == Spec => []EchoHolds
<1>1. Echo!EchoInv => EchoHolds
  <2>. SUFFICES ASSUME Echo!EchoInv PROVE EchoHolds
    OBVIOUS
  <2>1. Echo!BuiltIsAccepted
    BY DEF Echo!EchoInv, Echo!BuiltIsAccepted
  <2>2. Echo!CopiesAreEqual
    <3>1. ASSUME built.column = "plain", built.capacity = Echo!None,
                 NEW i \in DOMAIN stored
          PROVE  stored[i] = stored[1]
      <4>1. PICK echo : \A j \in DOMAIN stored : stored[j] = echo
        BY <3>1, Zenon DEF Echo!EchoInv
      <4>2. 1 \in DOMAIN stored
        BY <3>1 DEF Echo!EchoInv
      <4>. QED
        BY <4>1, <4>2
    <3>. QED
      BY <3>1 DEF Echo!CopiesAreEqual
  <2>3. Echo!EchoIsDeclared
    <3>1. ASSUME built.column = "plain", built.capacity = Echo!None,
                 built.analyzer # "ascii",
                 built.type = "HNSW" =>
                    Echo!None \notin {built.efc, built.m},
                 definition # built
          PROVE  FALSE
      <4>1. /\ Echo!Built(built)
            /\ definition =
                 Echo!ParseIndex(Echo!Echo(Echo!GenerateIndexSql(built)))
        BY <3>1, Zenon DEF Echo!EchoInv
      <4>. QED
        BY <3>1, <4>1, BuiltIsKept DEF Kept
    <3>. QED
      BY <3>1, Zenon DEF Echo!EchoIsDeclared
  <2>. QED
    BY <2>1, <2>2, <2>3 DEF EchoHolds
<1>. QED
  BY <1>1, EchoInvariant, PTL

---------------------------------------------------------------------------
(* hooks.ts: the check of the schema files                                 *)

LEMMA HooksInitially ==
    ASSUME Hooks!Init, Hooks!HooksAssumption
    PROVE  Hooks!TypeOK /\ Hooks!HooksInv
<1>0. /\ check.at = "idle" /\ report.done = FALSE
  BY DEF Hooks!Init, Hooks!NotChecking, Hooks!NotReported
<1>1. Hooks!HooksInv
  BY <1>0 DEF Hooks!HooksInv, Hooks!NamesCompared
<1>2. declared \in [Hooks!Files -> Hooks!Contents]
  <2>1. Hooks!Absent \in Hooks!Contents
    BY DEF Hooks!Contents
  <2>2. [there |-> TRUE, tables |-> {"t"}] \in Hooks!Contents
    <3>1. {"t"} \in SUBSET Hooks!Tables
      BY DEF Hooks!Tables
    <3>. QED
      BY <3>1 DEF Hooks!Contents
  <2>. QED
    BY <2>1, <2>2 DEF Hooks!Init
<1>3. store \in Hooks!Snapshots /\ began \in Hooks!Snapshots
  <2>1. Hooks!NoSnapshot \in Hooks!Snapshots
    BY DEF Hooks!Snapshots, Hooks!NoSnapshot
  <2>2. {"t"} \in SUBSET Hooks!Tables
    BY DEF Hooks!Tables
  <2>3. [Hooks!NoSnapshot EXCEPT !.stored = TRUE, !.tables = {"t"}]
            \in Hooks!Snapshots
    BY <2>1, <2>2 DEF Hooks!Snapshots
  <2>. QED
    BY <2>1, <2>3 DEF Hooks!Init
<1>4. changes = 0 /\ since \in [Hooks!Files -> SUBSET Hooks!Contents]
  BY DEF Hooks!Init
<1>5. changes \in 0 .. MaxChanges
  BY <1>4 DEF Hooks!HooksAssumption
<1>. QED
  BY <1>0, <1>1, <1>2, <1>3, <1>4, <1>5 DEF Hooks!TypeOK

(* A name that was in a file all the time is in it now, and a name that is *)
(* in it now was there at some moment.                                     *)
LEMMA NowIsAMoment ==
    ASSUME Hooks!TypeOK, NEW f \in Hooks!Schema, declared[f] \in since[f]
    PROVE  /\ Hooks!Kept(f) \subseteq declared[f].tables
           /\ declared[f].tables \subseteq Hooks!Sometimes
           /\ ~declared[f].there => declared[f].tables = {}
<1>1. declared[f] \in Hooks!Contents
  BY DEF Hooks!Schema, Hooks!TypeOK
<1>2. /\ declared[f].tables \subseteq Hooks!Tables
      /\ ~declared[f].there => declared[f].tables = {}
  <2>1. CASE declared[f] = Hooks!Absent
    BY <2>1 DEF Hooks!Absent
  <2>2. CASE declared[f] \in [there : {TRUE}, tables : SUBSET Hooks!Tables]
    BY <2>2
  <2>. QED
    BY <1>1, <2>1, <2>2 DEF Hooks!Contents
<1>. QED
  BY <1>2 DEF Hooks!Kept, Hooks!Sometimes

(* What the history says does not change with steps that do not add to it. *)
LEMMA SameMoments ==
    ASSUME UNCHANGED <<began, since>>
    PROVE  /\ Hooks!Expected' = Hooks!Expected
           /\ Hooks!Sometimes' = Hooks!Sometimes
           /\ \A f : Hooks!Kept(f)' = Hooks!Kept(f)
           /\ Hooks!AllTheTime' = Hooks!AllTheTime
<1>1. Hooks!Expected' = Hooks!Expected /\ Hooks!Sometimes' = Hooks!Sometimes
  BY DEF Hooks!Expected, Hooks!Sometimes
<1>2. \A f : Hooks!Kept(f)' = Hooks!Kept(f)
  BY DEF Hooks!Kept
<1>. QED
  BY <1>1, <1>2 DEF Hooks!AllTheTime

(* Somebody edits a file or stores a snapshot: a check that is under way   *)
(* has one moment more.                                                    *)
LEMMA ChangeStep ==
    ASSUME Hooks!TypeOK, Hooks!HooksInv, Hooks!HooksAssumption,
           Hooks!Edit \/ Hooks!StoreSnapshot
    PROVE  (Hooks!TypeOK /\ Hooks!HooksInv)'
<1>1. /\ UNCHANGED <<check, report, began>>
      /\ changes' = changes + 1 /\ changes < MaxChanges
  BY DEF Hooks!Edit, Hooks!StoreSnapshot, Hooks!Change
<1>2. changes' \in 0 .. MaxChanges
  BY <1>1 DEF Hooks!TypeOK, Hooks!HooksAssumption
<1>3. /\ declared' \in [Hooks!Files -> Hooks!Contents]
      /\ store' \in Hooks!Snapshots
      /\ since' \in [Hooks!Files -> SUBSET Hooks!Contents]
      /\ \A f \in Hooks!Files : since[f] \subseteq since'[f]
      /\ check.at = "idle" => since' = since
      /\ check.at # "idle" /\ (\A f \in Hooks!Files : declared[f] \in since[f])
            => \A f \in Hooks!Files : declared'[f] \in since'[f]
  <2>1. CASE Hooks!Edit
    <3>1. PICK f \in Hooks!Files, d \in Hooks!Contents :
            /\ declared' = [declared EXCEPT ![f] = d]
            /\ since' = IF check.at = "idle" THEN since
                        ELSE [since EXCEPT ![f] = @ \cup {d}]
            /\ store' = store
      BY <2>1 DEF Hooks!Edit
    <3>2. CASE check.at = "idle"
      BY <3>1, <3>2 DEF Hooks!TypeOK
    <3>3. CASE check.at # "idle"
      <4>1. since' = [since EXCEPT ![f] = @ \cup {d}]
        BY <3>1, <3>3
      <4>. QED
        BY <3>1, <3>3, <4>1 DEF Hooks!TypeOK
    <3>. QED
      BY <3>2, <3>3
  <2>2. CASE Hooks!StoreSnapshot
    <3>1. PICK a, b \in SUBSET Hooks!Tables :
              store' = [stored |-> TRUE, tables |-> a, edges |-> b]
      BY <2>2 DEF Hooks!StoreSnapshot
    <3>2. store' \in Hooks!Snapshots
      BY <3>1 DEF Hooks!Snapshots
    <3>3. UNCHANGED <<declared, since>>
      BY <2>2 DEF Hooks!StoreSnapshot
    <3>. QED
      BY <3>2, <3>3 DEF Hooks!TypeOK
  <2>. QED
    BY <2>1, <2>2
<1>4. Hooks!TypeOK'
  BY <1>1, <1>2, <1>3 DEF Hooks!TypeOK
<1>5. CASE check.at = "idle"
  <2>1. Hooks!NamesCompared'
    <3>1. UNCHANGED <<began, since>>
      BY <1>1, <1>3, <1>5
    <3>. QED
      BY <1>1, <3>1, SameMoments DEF Hooks!HooksInv, Hooks!NamesCompared
  <2>. QED
    BY <1>1, <1>4, <1>5, <2>1 DEF Hooks!HooksInv
<1>6. CASE check.at # "idle"
  <2>1. Hooks!Checking
    BY <1>6 DEF Hooks!HooksInv
  <2>2. Hooks!Expected' = Hooks!Expected
    BY <1>1 DEF Hooks!Expected
  <2>3. Hooks!Checking'
    BY <1>1, <1>3, <1>6, <2>1, <2>2 DEF Hooks!Checking
  <2>4. Hooks!NamesCompared'
    BY <2>3 DEF Hooks!Checking, Hooks!NamesCompared
  <2>5. /\ Hooks!Schema \subseteq Hooks!Files
        /\ Hooks!Sometimes \subseteq Hooks!Sometimes'
        /\ \A f \in Hooks!Schema : Hooks!Kept(f)' \subseteq Hooks!Kept(f)
    <3>1. Hooks!Schema \subseteq Hooks!Files
      BY DEF Hooks!Schema
    <3>. QED
      BY <1>3, <3>1 DEF Hooks!Sometimes, Hooks!Kept
  <2>6. check.at = "reading" => Hooks!Listed'
    <3>. SUFFICES ASSUME check.at = "reading" PROVE Hooks!Listed'
      OBVIOUS
    <3>1. Hooks!Listed
      BY DEF Hooks!HooksInv
    <3>2. \E f \in Hooks!Schema : \E d \in since'[f] : d.there
      BY <1>3, <2>5, <3>1 DEF Hooks!Listed
    <3>3. \A f \in Hooks!Schema \ check.files : Hooks!Kept(f)' \subseteq check.found
      BY <2>5, <3>1 DEF Hooks!Listed
    <3>. QED
      BY <1>1, <2>5, <3>1, <3>2, <3>3 DEF Hooks!Listed
  <2>7. check.at = "passed" =>
          ~began.stored \/ \A f \in Hooks!Schema : \E d \in since'[f] : ~d.there
    BY <1>3, <2>5 DEF Hooks!HooksInv
  <2>. QED
    BY <1>1, <1>4, <2>3, <2>4, <2>6, <2>7 DEF Hooks!HooksInv
<1>. QED
  BY <1>5, <1>6

(* A file is read, or is gone.                                             *)
LEMMA ReadStep ==
    ASSUME Hooks!TypeOK, Hooks!HooksInv, Hooks!ReadFile
    PROVE  (Hooks!TypeOK /\ Hooks!HooksInv)'
<1>. DEFINE f == IF "a.surql" \in check.files THEN "a.surql" ELSE "b.surql"
<1>1. /\ check.at = "reading" /\ check.files # {}
      /\ check' = IF declared[f].there
                THEN [check EXCEPT !.files = @ \ {f},
                         !.found = @ \cup declared[f].tables,
                         !.extra = @ \cup (declared[f].tables \ check.expected)]
                ELSE [at |-> "idle"]
      /\ UNCHANGED <<declared, store, report, changes, began, since>>
  BY DEF Hooks!ReadFile, Hooks!NotChecking
<1>2. Hooks!Checking /\ Hooks!Listed
  BY <1>1 DEF Hooks!HooksInv
<1>3. f \in check.files /\ f \in Hooks!Schema
  BY <1>1, <1>2 DEF Hooks!Listed, Hooks!Schema, Hooks!Files,
     Hooks!DefaultSchemaFilter
<1>. HIDE DEF f
<1>4. Hooks!NamesCompared' /\ ~report'.done
  BY <1>1, <1>2 DEF Hooks!NamesCompared, Hooks!Checking
<1>5. CASE ~declared[f].there
  <2>1. check'.at = "idle"
    BY <1>1, <1>5
  <2>2. Hooks!TypeOK'
    BY <1>1, <2>1 DEF Hooks!TypeOK
  <2>. QED
    BY <1>4, <2>1, <2>2 DEF Hooks!HooksInv
<1>6. CASE declared[f].there
  <2>1. /\ DOMAIN check' = DOMAIN check
        /\ check'.at = "reading" /\ check'.files = check.files \ {f}
        /\ check'.expected = check.expected
        /\ check'.nonBlocking = check.nonBlocking
        /\ check'.found = check.found \cup declared[f].tables
        /\ check'.extra = check.extra \cup (declared[f].tables \ check.expected)
    BY <1>1, <1>2, <1>6 DEF Hooks!Checking
  <2>2. Hooks!TypeOK'
    BY <1>1, <2>1 DEF Hooks!TypeOK
  <2>3. Hooks!Checking'
    BY <1>1, <1>2, <2>1, SameMoments DEF Hooks!Checking
  <2>4. /\ Hooks!Kept(f) \subseteq declared[f].tables
        /\ declared[f].tables \subseteq Hooks!Sometimes
    <3>1. declared[f] \in since[f]
      BY <1>2, <1>3 DEF Hooks!Checking, Hooks!Schema
    <3>. QED
      BY <1>3, <3>1, NowIsAMoment
  <2>5. check'.files \subseteq Hooks!Schema /\ check'.found \subseteq Hooks!Sometimes
    BY <1>2, <2>1, <2>4 DEF Hooks!Listed
  <2>6. \A g \in Hooks!Schema \ check'.files : Hooks!Kept(g) \subseteq check'.found
    BY <1>2, <2>1, <2>4 DEF Hooks!Listed
  <2>7. check'.extra = check'.found \ check'.expected
    BY <1>2, <2>1 DEF Hooks!Listed
  <2>8. Hooks!Listed'
    BY <1>1, <1>2, <2>5, <2>6, <2>7, SameMoments DEF Hooks!Listed
  <2>. QED
    BY <1>1, <1>4, <2>1, <2>2, <2>3, <2>8 DEF Hooks!HooksInv
<1>. QED
  BY <1>5, <1>6

(* The check reports.                                                      *)
LEMMA FinishStep ==
    ASSUME Hooks!TypeOK, Hooks!HooksInv, Hooks!Finish
    PROVE  (Hooks!TypeOK /\ Hooks!HooksInv)'
<1>. DEFINE issues == IF check.at = "passed" THEN {} ELSE Hooks!Issues(check)
<1>1. /\ check.at = "passed" \/ (check.at = "reading" /\ check.files = {})
      /\ report' = [done |-> TRUE, compared |-> check.at = "reading",
                    issues |-> issues, nonBlocking |-> check.nonBlocking,
                    passed |-> check.nonBlocking \/ issues = {}]
      /\ check'.at = "idle"
      /\ UNCHANGED <<declared, store, changes, began, since>>
  BY DEF Hooks!Finish, Hooks!NotChecking
<1>2. PICK names : names = issues
  OBVIOUS
<1>3. /\ report'.done = TRUE /\ report'.compared = (check.at = "reading")
      /\ report'.issues = names /\ report'.nonBlocking = check.nonBlocking
      /\ report'.passed = (check.nonBlocking \/ names = {})
  <2>. HIDE DEF issues
  <2>. QED
    BY <1>1, <1>2
<1>4. Hooks!TypeOK'
  BY <1>1, <1>3 DEF Hooks!TypeOK
<1>5. Hooks!Checking
  BY <1>1 DEF Hooks!HooksInv
<1>6. check.at = "reading" =>
        /\ began.stored
        /\ \E f \in Hooks!Schema : \E d \in since[f] : d.there
        /\ \A n \in names : IF n \in Hooks!Expected THEN n \notin Hooks!AllTheTime
                            ELSE n \in Hooks!Sometimes
        /\ (Hooks!AllTheTime \ Hooks!Expected) \cup
           (Hooks!Expected \ Hooks!Sometimes) \subseteq names
  <2>. SUFFICES ASSUME check.at = "reading"
                PROVE  /\ began.stored
                       /\ \E f \in Hooks!Schema : \E d \in since[f] : d.there
                       /\ \A n \in names : IF n \in Hooks!Expected
                                           THEN n \notin Hooks!AllTheTime
                                           ELSE n \in Hooks!Sometimes
                       /\ (Hooks!AllTheTime \ Hooks!Expected) \cup
                          (Hooks!Expected \ Hooks!Sometimes) \subseteq names
    OBVIOUS
  <2>1. Hooks!Listed /\ began.stored /\ check.files = {}
    BY <1>1 DEF Hooks!HooksInv
  <2>2. Hooks!AllTheTime \subseteq check.found
    BY <2>1 DEF Hooks!Listed, Hooks!AllTheTime
  <2>3. names = (check.found \ Hooks!Expected) \cup (Hooks!Expected \ check.found)
    BY <1>2, <1>5, <2>1 DEF Hooks!Issues, Hooks!Listed, Hooks!Checking
  <2>. QED
    BY <2>1, <2>2, <2>3 DEF Hooks!Listed
<1>7. check.at # "reading" =>
        /\ names = {}
        /\ ~began.stored \/ \A f \in Hooks!Schema : \E d \in since[f] : ~d.there
  BY <1>1, <1>2 DEF Hooks!HooksInv
<1>8. check.nonBlocking \in BOOLEAN
  BY <1>5 DEF Hooks!Checking
<1>9. Hooks!NamesCompared'
  <2>. HIDE DEF issues
  <2>. QED
    BY <1>1, <1>3, <1>6, <1>7, <1>8, SameMoments DEF Hooks!NamesCompared
<1>. QED
  BY <1>1, <1>4, <1>9 DEF Hooks!HooksInv

(* A step keeps the type and the invariant.                                *)
LEMMA HooksStep ==
    ASSUME Hooks!TypeOK, Hooks!HooksInv, Hooks!HooksAssumption, Hooks!Next
    PROVE  (Hooks!TypeOK /\ Hooks!HooksInv)'
<1>1. CASE Hooks!Edit \/ Hooks!StoreSnapshot
  BY <1>1, ChangeStep
<1>2. ASSUME NEW n \in BOOLEAN, Hooks!Begin(n)
      PROVE  (Hooks!TypeOK /\ Hooks!HooksInv)'
  <2>1. /\ check' = [at |-> IF store.stored THEN "listing" ELSE "passed",
                     expected |-> store.tables \cup store.edges,
                     nonBlocking |-> n, files |-> {},
                     found |-> {}, extra |-> {}]
        /\ report' = [done |-> FALSE]
        /\ began' = store
        /\ since' = [f \in Hooks!Files |-> {declared[f]}]
        /\ UNCHANGED <<declared, store, changes>>
    BY <1>2 DEF Hooks!Begin, Hooks!NotReported
  <2>2. /\ check'.at = IF store.stored THEN "listing" ELSE "passed"
        /\ check'.expected = store.tables \cup store.edges
        /\ check'.nonBlocking = n
        /\ DOMAIN check' = {"at", "expected", "nonBlocking", "files",
                            "found", "extra"}
        /\ check'.found = {} /\ check'.extra = {}
        /\ report'.done = FALSE
    BY <2>1
  <2>3. Hooks!TypeOK'
    BY <2>1, <2>2 DEF Hooks!TypeOK
  <2>4. Hooks!Expected' = store.tables \cup store.edges
    BY <2>1 DEF Hooks!Expected
  <2>5. Hooks!Checking'
    BY <2>1, <2>2, <2>4 DEF Hooks!Checking
  <2>6. Hooks!NamesCompared'
    BY <2>2 DEF Hooks!NamesCompared
  <2>. QED
    BY <2>1, <2>2, <2>3, <2>5, <2>6 DEF Hooks!HooksInv
<1>3. CASE Hooks!Collect
  <2>1. /\ check.at = "listing"
        /\ check' = [check EXCEPT !.at = IF Hooks!SchemaFiles = {} THEN "passed"
                                         ELSE "reading",
                                  !.files = Hooks!SchemaFiles]
        /\ UNCHANGED <<declared, store, report, changes, began, since>>
    BY <1>3 DEF Hooks!Collect
  <2>2. /\ Hooks!Checking /\ began.stored
        /\ check.found = {} /\ check.extra = {}
    BY <2>1 DEF Hooks!HooksInv
  <2>3. /\ DOMAIN check' = DOMAIN check
        /\ check'.at = IF Hooks!SchemaFiles = {} THEN "passed" ELSE "reading"
        /\ check'.files = Hooks!SchemaFiles
        /\ check'.expected = check.expected
        /\ check'.nonBlocking = check.nonBlocking
        /\ check'.found = check.found /\ check'.extra = check.extra
    BY <2>1, <2>2 DEF Hooks!Checking
  <2>4. Hooks!TypeOK'
    BY <2>1, <2>3 DEF Hooks!TypeOK
  <2>5. Hooks!Checking'
    BY <2>1, <2>2, <2>3, SameMoments DEF Hooks!Checking
  <2>6. Hooks!NamesCompared'
    BY <2>5 DEF Hooks!Checking, Hooks!NamesCompared
  <2>7. /\ Hooks!SchemaFiles \subseteq Hooks!Schema
        /\ \A f \in Hooks!Schema : /\ declared[f] \in since[f]
                                   /\ f \in Hooks!SchemaFiles <=> declared[f].there
    BY <2>2 DEF Hooks!SchemaFiles, Hooks!Schema, Hooks!Checking
  <2>8. CASE Hooks!SchemaFiles = {}
    <3>1. \A f \in Hooks!Schema : \E d \in since'[f] : ~d.there
      BY <2>1, <2>7, <2>8
    <3>. QED
      BY <2>3, <2>4, <2>5, <2>6, <2>8, <3>1 DEF Hooks!HooksInv
  <2>9. CASE Hooks!SchemaFiles # {}
    <3>1. \E f \in Hooks!Schema : \E d \in since'[f] : d.there
      BY <2>1, <2>7, <2>9
    <3>2. \A f \in Hooks!Schema \ check'.files : Hooks!Kept(f) = {}
      <4>. SUFFICES ASSUME NEW f \in Hooks!Schema, ~declared[f].there
                    PROVE  Hooks!Kept(f) = {}
        BY <2>3, <2>7
      <4>. QED
        BY <2>7, NowIsAMoment
    <3>3. Hooks!Listed'
      BY <2>1, <2>2, <2>3, <2>7, <3>1, <3>2, SameMoments DEF Hooks!Listed
    <3>. QED
      BY <2>1, <2>2, <2>3, <2>4, <2>5, <2>6, <2>9, <3>3 DEF Hooks!HooksInv
  <2>. QED
    BY <2>8, <2>9
<1>4. CASE Hooks!ReadFile
  BY <1>4, ReadStep
<1>5. CASE Hooks!Finish
  BY <1>5, FinishStep
<1>. QED
  BY <1>1, <1>2, <1>3, <1>4, <1>5 DEF Hooks!Next

(* A check holds names that its files defined at some moment since it      *)
(* began, and all those that they defined all the time (hooks.ts).         *)
THEOREM HooksInvariant == Spec => [](Hooks!TypeOK /\ Hooks!HooksInv)
<1>. USE PartsAssumption
<1>1. Init => Hooks!TypeOK /\ Hooks!HooksInv
  BY HooksInitially DEF Init
<1>2. Hooks!TypeOK /\ Hooks!HooksInv /\ [Next]_vars
        => (Hooks!TypeOK /\ Hooks!HooksInv)'
  <2>. SUFFICES ASSUME Hooks!TypeOK, Hooks!HooksInv, [Next]_vars
                PROVE  (Hooks!TypeOK /\ Hooks!HooksInv)'
    OBVIOUS
  <2>1. CASE Hooks!Next
    BY <2>1, HooksStep
  <2>2. CASE UNCHANGED hooksVars
    <3>0. UNCHANGED <<declared, store, check, report, changes, began, since>>
      BY <2>2 DEF hooksVars
    <3>1. Hooks!TypeOK'
      BY <3>0, Zenon DEF Hooks!TypeOK
    <3>2. Hooks!NamesCompared' <=> Hooks!NamesCompared
      BY <3>0, SameMoments DEF Hooks!NamesCompared
    <3>3. Hooks!Checking' <=> Hooks!Checking
      BY <3>0, SameMoments DEF Hooks!Checking
    <3>4. Hooks!Listed' <=> Hooks!Listed
      BY <3>0, SameMoments DEF Hooks!Listed
    <3>5. Hooks!HooksInv'
      BY <3>0, <3>2, <3>3, <3>4 DEF Hooks!HooksInv
    <3>. QED
      BY <3>1, <3>5
  <2>. QED
    BY <2>1, <2>2, OnePartMoves
<1>. QED
  BY <1>1, <1>2, PTL DEF Spec

(* Also when files are edited under it, a check reports each table whose   *)
(* name only the files or only the snapshot had all the time, and none     *)
(* that both or neither had; it fails on such a name unless it blocks      *)
(* nothing (hooks.ts).                                                     *)
THEOREM NamesAreCompared ==
    Spec => [](used = "hooks" => Hooks!TypeOK /\ Hooks!NamesCompared)
<1>1. Hooks!TypeOK /\ Hooks!HooksInv
        => (used = "hooks" => Hooks!TypeOK /\ Hooks!NamesCompared)
  BY Zenon DEF Hooks!HooksInv
<1>. QED
  BY <1>1, HooksInvariant, PTL

---------------------------------------------------------------------------
(* capabilities/*.ts: pages and HAVING                                     *)

LEMMA CapabilitiesInitially ==
    ASSUME Capabilities!Init, Capabilities!CapabilitiesAssumption
    PROVE  Capabilities!TypeOK /\ Capabilities!CapabilitiesInv
<1>1. Capabilities!TypeOK
  BY DEF Capabilities!Init, Capabilities!TypeOK, Capabilities!None,
     Capabilities!CapabilitiesAssumption
<1>2. Capabilities!CapabilitiesInv
  BY DEF Capabilities!Init, Capabilities!CapabilitiesInv, Capabilities!None,
     Capabilities!NoPage, Capabilities!HavingBound
<1>. QED
  BY <1>1, <1>2

(* A condition takes the parameter of its place, which no other one has.   *)
LEMMA HavingStep ==
    ASSUME Capabilities!TypeOK, Capabilities!CapabilitiesInv,
           Capabilities!Having
    PROVE  /\ havingConditions' \in
                Seq([param : {"h0", "h1", "h2", "none"}, value : 0 .. 2])
           /\ Len(havingConditions') <= 3
           /\ \A i \in DOMAIN havingConditions' :
                havingConditions'[i].param
                    \in {Capabilities!HavingParam(i - 1), "none"}
           /\ Capabilities!HavingBound'
<1>. DEFINE H == [param : {"h0", "h1", "h2", "none"}, value : 0 .. 2]
            n == Len(havingConditions)
            P(i) == Capabilities!HavingParam(i)
<1>1. /\ havingConditions \in Seq(H) /\ n \in Nat /\ n < 3
      /\ \A i \in DOMAIN havingConditions :
            havingConditions[i].param \in {P(i - 1), "none"}
      /\ Capabilities!HavingBound
  BY DEF Capabilities!CapabilitiesInv, Capabilities!Having
<1>2. /\ P(0) = "h0" /\ P(1) = "h1" /\ P(2) = "h2"
      /\ P(n) \in {"h0", "h1", "h2"}
  BY <1>1 DEF Capabilities!HavingParam
<1>3. PICK h \in H :
        /\ havingConditions' = Append(havingConditions, h)
        /\ h.param \in {P(n), "none"}
        /\ \/ h.param = P(n) /\ params' = Capabilities!WithParam(P(n), h.value)
           \/ h.param = "none" /\ params' = params
  <2>1. CASE \E name \in Capabilities!Names, v \in 1 .. 2 :
            /\ params' = Capabilities!WithParam(P(n), v)
            /\ havingConditions' =
                Append(havingConditions, [param |-> P(n), value |-> v])
    <3>1. PICK v \in 1 .. 2 :
            /\ params' = Capabilities!WithParam(P(n), v)
            /\ havingConditions' =
                Append(havingConditions, [param |-> P(n), value |-> v])
      BY <2>1
    <3>2. [param |-> P(n), value |-> v] \in H
      BY <1>2
    <3>. HIDE DEF P
    <3>. QED
      BY <3>1, <3>2
  <2>2. CASE /\ havingConditions' =
                Append(havingConditions, [param |-> "none", value |-> 0])
             /\ params' = params
    <3>1. [param |-> "none", value |-> 0] \in H
      OBVIOUS
    <3>. QED
      BY <2>2, <3>1
  <2>. QED
    BY <2>1, <2>2 DEF Capabilities!Having
<1>. HIDE DEF P
<1>4. /\ DOMAIN havingConditions' = 1 .. n + 1
      /\ Len(havingConditions') = n + 1
      /\ havingConditions'[n + 1] = h
      /\ \A i \in 1 .. n : havingConditions'[i] = havingConditions[i]
      /\ havingConditions' \in Seq(H)
      /\ DOMAIN havingConditions = 1 .. n
  BY <1>1, <1>3
<1>5. \A i \in DOMAIN havingConditions' :
            havingConditions'[i].param \in {P(i - 1), "none"}
  <2>1. ASSUME NEW i \in 1 .. n + 1
        PROVE  havingConditions'[i].param \in {P(i - 1), "none"}
    <3>1. CASE i = n + 1
      <4>1. i - 1 = n
        BY <1>1, <3>1
      <4>. QED
        BY <1>3, <1>4, <3>1, <4>1
    <3>2. CASE i \in 1 .. n
      BY <1>1, <1>4, <3>2
    <3>. QED
      BY <1>1, <3>1, <3>2
  <2>. QED
    BY <1>4, <2>1
<1>6. Capabilities!HavingBound'
  <2>1. ASSUME NEW i \in 1 .. n + 1, havingConditions'[i].param # "none"
        PROVE  /\ havingConditions'[i].param \in DOMAIN params'
               /\ params'[havingConditions'[i].param] = havingConditions'[i].value
    <3>1. CASE i = n + 1
      BY <1>3, <1>4, <2>1, <3>1 DEF Capabilities!WithParam
    <3>2. CASE i \in 1 .. n
      <4>1. /\ havingConditions'[i] = havingConditions[i]
            /\ havingConditions[i].param = P(i - 1)
            /\ P(i - 1) \in DOMAIN params
            /\ params[P(i - 1)] = havingConditions[i].value
        BY <1>1, <1>4, <2>1, <3>2 DEF Capabilities!HavingBound
      <4>2. P(i - 1) # P(n)
        BY <1>1, <1>2, <3>2
      <4>. QED
        BY <1>3, <4>1, <4>2 DEF Capabilities!WithParam
    <3>. QED
      BY <1>1, <2>1, <3>1, <3>2
  <2>. QED
    BY <1>4, <2>1 DEF Capabilities!HavingBound
<1>. QED
  BY <1>1, <1>4, <1>5, <1>6 DEF P

(* A step keeps the type and the invariant.                                *)
LEMMA CapabilitiesStep ==
    ASSUME Capabilities!TypeOK, Capabilities!CapabilitiesInv,
           Capabilities!CapabilitiesAssumption, Capabilities!Next
    PROVE  (Capabilities!TypeOK /\ Capabilities!CapabilitiesInv)'
<1>1. /\ methods \in Nat /\ methods' = methods + 1 /\ methods < MaxMethods
      /\ MaxMethods \in Nat
  BY DEF Capabilities!TypeOK, Capabilities!CapabilitiesAssumption,
     Capabilities!Next, Capabilities!Limit, Capabilities!Offset,
     Capabilities!Page, Capabilities!ClearPagination, Capabilities!Having,
     Capabilities!ClearHaving, Capabilities!Aggregate, Capabilities!GroupBy,
     Capabilities!ClearGroups, Capabilities!Called
<1>2. methods' \in 0 .. MaxMethods
  BY <1>1
<1>. DEFINE Pages == /\ {limitValue, offsetValue} \subseteq Nat \cup {Capabilities!None}
                     /\ limitValue \in {2, 3, 999999, Capabilities!None}
                     /\ page # Capabilities!NoPage =>
                          \E n \in {1, 2, 999999}, size \in {2, 3, 999999} :
                            /\ page = <<n, size>>
                            /\ limitValue = size /\ offsetValue = (n - 1) * size
            Havings ==
                /\ \A i \in DOMAIN havingConditions :
                    havingConditions[i].param \in {"h0", "h1", "h2", "none"}
                /\ havingConditions \in
                    Seq([param : {"h0", "h1", "h2", "none"}, value : 0 .. 2])
                /\ Len(havingConditions) <= 3
                /\ \A i \in DOMAIN havingConditions :
                    havingConditions[i].param
                        \in {Capabilities!HavingParam(i - 1), "none"}
                /\ Capabilities!HavingBound
<1>3. Pages /\ Havings
  BY DEF Capabilities!TypeOK, Capabilities!CapabilitiesInv
<1>4. ASSUME Pages', Havings'
      PROVE  (Capabilities!TypeOK /\ Capabilities!CapabilitiesInv)'
  BY <1>2, <1>4 DEF Capabilities!TypeOK, Capabilities!CapabilitiesInv
<1>5. ASSUME UNCHANGED <<limitValue, offsetValue, page>>
      PROVE  Pages'
  BY <1>3, <1>5
<1>6. ASSUME UNCHANGED <<havingConditions, params>>
      PROVE  Havings'
  BY <1>3, <1>6 DEF Capabilities!HavingBound
<1>7. CASE Capabilities!Limit \/ Capabilities!Offset \/ Capabilities!ClearPagination
  <2>1. /\ UNCHANGED <<havingConditions, params>> /\ page' = Capabilities!NoPage
    BY <1>7 DEF Capabilities!Limit, Capabilities!Offset,
       Capabilities!ClearPagination
  <2>2. /\ limitValue' \in {2, 3, 999999, Capabilities!None}
        /\ {limitValue', offsetValue'} \subseteq Nat \cup {Capabilities!None}
    <3>1. CASE Capabilities!Limit
      BY <1>3, <3>1 DEF Capabilities!Limit, Capabilities!PositiveInteger,
         Capabilities!Million
    <3>2. CASE Capabilities!Offset
      BY <1>3, <3>2 DEF Capabilities!Offset, Capabilities!PositiveInteger,
         Capabilities!Million
    <3>3. CASE Capabilities!ClearPagination
      BY <3>3 DEF Capabilities!ClearPagination
    <3>. QED
      BY <1>7, <3>1, <3>2, <3>3
  <2>3. Pages'
    BY <2>1, <2>2
  <2>. HIDE DEF Pages, Havings
  <2>. QED
    BY <1>4, <1>6, <2>1, <2>3
<1>8. CASE Capabilities!Page
  <2>1. UNCHANGED <<havingConditions, params>>
    BY <1>8 DEF Capabilities!Page
  <2>2. PICK n \in {1, 2, 999999}, size \in {2, 3, 999999} :
            /\ page' = <<n, size>>
            /\ limitValue' = size /\ offsetValue' = (n - 1) * size
    BY <1>8 DEF Capabilities!Page, Capabilities!PositiveInteger
  <2>3. (n - 1) * size \in Nat
    BY <2>2
  <2>4. Pages'
    BY <2>2, <2>3
  <2>. HIDE DEF Pages, Havings
  <2>. QED
    BY <1>4, <1>6, <2>1, <2>4
<1>9. CASE Capabilities!Having
  <2>1. Havings'
    <3>. DEFINE H == [param : {"h0", "h1", "h2", "none"}, value : 0 .. 2]
    <3>1. /\ havingConditions' \in Seq(H)
          /\ Len(havingConditions') <= 3
          /\ \A i \in DOMAIN havingConditions' :
                havingConditions'[i].param
                    \in {Capabilities!HavingParam(i - 1), "none"}
          /\ Capabilities!HavingBound'
      BY <1>9, HavingStep
    <3>2. \A i \in DOMAIN havingConditions' :
            havingConditions'[i].param \in {"h0", "h1", "h2", "none"}
      <4>1. \A i \in DOMAIN havingConditions' : havingConditions'[i] \in H
        <5>. HIDE DEF H
        <5>. QED
          BY <3>1
      <4>. QED
        BY <4>1
    <3>. QED
      BY <3>1, <3>2
  <2>2. UNCHANGED <<limitValue, offsetValue, page>>
    BY <1>9 DEF Capabilities!Having
  <2>. HIDE DEF Pages, Havings
  <2>. QED
    BY <1>4, <1>5, <2>1, <2>2
<1>10. CASE Capabilities!ClearHaving
  <2>1. /\ havingConditions' = <<>>
        /\ UNCHANGED <<limitValue, offsetValue, page>>
    BY <1>10 DEF Capabilities!ClearHaving
  <2>2. Havings'
    BY <2>1 DEF Capabilities!HavingBound
  <2>. HIDE DEF Pages, Havings
  <2>. QED
    BY <1>4, <1>5, <2>1, <2>2
<1>11. CASE Capabilities!Aggregate \/ Capabilities!GroupBy \/ Capabilities!ClearGroups
  <2>1. UNCHANGED <<limitValue, offsetValue, page, havingConditions, params>>
    BY <1>11 DEF Capabilities!Aggregate, Capabilities!GroupBy,
       Capabilities!ClearGroups
  <2>. HIDE DEF Pages, Havings
  <2>. QED
    BY <1>4, <1>5, <1>6, <2>1
<1>. QED
  BY <1>7, <1>8, <1>9, <1>10, <1>11 DEF Capabilities!Next

(* Two sequences of one element.                                           *)
LEMMA TwoParts ==
    ASSUME NEW a, NEW b
    PROVE  <<a>> \o <<b>> = <<a, b>>
<1>. DEFINE X == {a, b}
            s == <<a>> \o <<b>>
            t == <<a, b>>
<1>1. /\ <<a>> \in Seq(X) /\ <<b>> \in Seq(X)
      /\ Len(<<a>>) = 1 /\ Len(<<b>>) = 1
  OBVIOUS
<1>2. s \in Seq(X) /\ Len(s) = 2 /\ s[1] = a /\ s[2] = b
  BY <1>1, ConcatProperties
<1>3. t \in Seq(X) /\ Len(t) = 2 /\ t[1] = a /\ t[2] = b
  OBVIOUS
<1>. HIDE DEF s, t, X
<1>4. \A i \in 1 .. 2 : s[i] = t[i]
  BY <1>2, <1>3
<1>. QED
  BY <1>2, <1>3, <1>4, SeqEqual DEF s, t

(* The page that is told is the one that was asked, and the clauses select *)
(* it.                                                                     *)
LEMMA PagesAreTrue ==
    ASSUME Capabilities!TypeOK, Capabilities!CapabilitiesInv
    PROVE  Capabilities!PageInfoTrue
<1>. USE DEF Capabilities!None
<1>1. /\ limitValue \in {2, 3, 999999, -1}
      /\ offsetValue \in Nat \cup {-1}
  BY DEF Capabilities!TypeOK, Capabilities!CapabilitiesInv
<1>2. Capabilities!PageInfo =
        IF limitValue = -1 \/ offsetValue = -1
        THEN [pageNumber |-> 0, pageSize |-> 0, offset |-> -1]
        ELSE [pageNumber |-> offsetValue \div limitValue + 1,
              pageSize |-> limitValue, offset |-> offsetValue]
  BY DEF Capabilities!PageInfo, Capabilities!NoInfo
<1>3. ASSUME page # Capabilities!NoPage
      PROVE  /\ Capabilities!PageInfo.pageNumber = page[1]
             /\ Capabilities!PageInfo.pageSize = page[2]
             /\ Capabilities!PaginationClauses =
                    <<<<"START", (page[1] - 1) * page[2]>>, <<"LIMIT", page[2]>>>>
  <2>1. PICK n \in {1, 2, 999999}, size \in {2, 3, 999999} :
            /\ page = <<n, size>>
            /\ limitValue = size /\ offsetValue = (n - 1) * size
    BY <1>3 DEF Capabilities!CapabilitiesInv
  <2>2. page[1] = n /\ page[2] = size
    BY <2>1
  <2>3. /\ offsetValue \in Nat /\ limitValue \in Nat \ {0}
        /\ offsetValue \div limitValue = n - 1
    BY <2>1
  <2>4. Capabilities!PageInfo.pageNumber = n /\ Capabilities!PageInfo.pageSize = size
    BY <1>2, <2>1, <2>3
  <2>5. Capabilities!PaginationClauses =
            <<<<"START", offsetValue>>, <<"LIMIT", limitValue>>>>
    <3>1. Capabilities!PaginationClauses =
            <<<<"START", offsetValue>>>> \o <<<<"LIMIT", limitValue>>>>
      BY <2>3 DEF Capabilities!PaginationClauses
    <3>. QED
      BY <3>1, TwoParts
  <2>. QED
    BY <2>1, <2>2, <2>4, <2>5
<1>4. ASSUME Capabilities!PageInfo # Capabilities!NoInfo
      PROVE  LET p == Capabilities!PageInfo IN
             /\ (p.pageNumber - 1) * p.pageSize <= p.offset
             /\ p.offset < p.pageNumber * p.pageSize
  <2>1. limitValue \in {2, 3, 999999} /\ offsetValue \in Nat
    BY <1>1, <1>2, <1>4 DEF Capabilities!NoInfo
  <2>2. /\ Capabilities!PageInfo.pageNumber = offsetValue \div limitValue + 1
        /\ Capabilities!PageInfo.pageSize = limitValue
        /\ Capabilities!PageInfo.offset = offsetValue
    BY <1>2, <2>1
  <2>3. LET q == offsetValue \div limitValue IN
        q * limitValue <= offsetValue /\ offsetValue < (q + 1) * limitValue
    BY <2>1
  <2>. QED
    BY <2>1, <2>2, <2>3
<1>. QED
  BY <1>3, <1>4 DEF Capabilities!PageInfoTrue

(* A condition has the parameter of its place, and a page that stands is   *)
(* what limit and offset are (having.ts, pagination.ts).                   *)
THEOREM CapabilitiesInvariant ==
    Spec => [](Capabilities!TypeOK /\ Capabilities!CapabilitiesInv)
<1>. USE PartsAssumption
<1>1. Init => Capabilities!TypeOK /\ Capabilities!CapabilitiesInv
  BY CapabilitiesInitially DEF Init
<1>2. Capabilities!TypeOK /\ Capabilities!CapabilitiesInv /\ [Next]_vars
        => (Capabilities!TypeOK /\ Capabilities!CapabilitiesInv)'
  <2>. SUFFICES ASSUME Capabilities!TypeOK, Capabilities!CapabilitiesInv,
                       [Next]_vars
                PROVE  (Capabilities!TypeOK /\ Capabilities!CapabilitiesInv)'
    OBVIOUS
  <2>1. CASE Capabilities!Next
    BY <2>1, CapabilitiesStep
  <2>2. CASE UNCHANGED capabilitiesVars
    <3>1. Capabilities!TypeOK'
      BY <2>2, SMT DEF capabilitiesVars, Capabilities!TypeOK
    <3>2. Capabilities!HavingBound'
      BY <2>2, SMT DEF capabilitiesVars, Capabilities!HavingBound,
         Capabilities!CapabilitiesInv
    <3>3. Capabilities!CapabilitiesInv'
      BY <2>2, <3>2, SMT DEF capabilitiesVars, Capabilities!CapabilitiesInv
    <3>. QED
      BY <3>1, <3>3
  <2>. QED
    BY <2>1, <2>2, OnePartMoves
<1>. QED
  BY <1>1, <1>2, PTL DEF Spec

(* A page that stands is the page that is told and the rows that the       *)
(* clauses select, for any number of calls; and each HAVING condition has  *)
(* its own value bound, whatever was cleared and added before.             *)
THEOREM CapabilitiesAreRight ==
    Spec => [](used = "capabilities" =>
                  /\ Capabilities!TypeOK
                  /\ Capabilities!PageInfoTrue
                  /\ Capabilities!HavingBound)
<1>1. Capabilities!TypeOK /\ Capabilities!CapabilitiesInv
        => /\ Capabilities!TypeOK
           /\ Capabilities!PageInfoTrue
           /\ Capabilities!HavingBound
  BY PagesAreTrue DEF Capabilities!CapabilitiesInv
<1>. QED
  BY <1>1, CapabilitiesInvariant, PTL

---------------------------------------------------------------------------
(* query/graph.ts and graphQuery.ts: hops, counts and removals             *)

(* The walks along ever more of a path.                                    *)
WalksAlong(F, graph, start, way) ==
    /\ F[0] = {<< start >>}
    /\ \A i \in 1 .. Len(way) : F[i] = Graph!WalkOn(graph, F[i - 1], way[i])

(* There is such a function, and all the walks are its last value.         *)
LEMMA WalksUnfold ==
    ASSUME NEW graph, NEW start, NEW way, Len(way) \in Nat
    PROVE  \E F : WalksAlong(F, graph, start, way) /\ Graph!Walks(graph, start, way) = F[Len(way)]
<1>. DEFINE n == Len(way)
            D == {<< start >>}
            W(s, q) == Graph!WalkOn(graph, s, q)
            S == {m \in Nat : \E F : F = [i \in 0 .. m |->
                        IF i = 0 THEN D ELSE W(F[i - 1], way[i])]}
            R(F) == F = [i \in 0 .. n |-> IF i = 0 THEN D ELSE W(F[i - 1], way[i])]
            c == CHOOSE F : R(F)
<1>1. Graph!Walks(graph, start, way) = c[n]
  BY DEF Graph!Walks
<1>2. n \in Nat
  OBVIOUS
<1>. HIDE DEF D, W, c, n
<1>3. 0 \in S
  <2>. DEFINE F == [k \in 0 .. 0 |-> D]
  <2>1. F = [k \in 0 .. 0 |-> IF k = 0 THEN D ELSE W(F[k - 1], way[k])]
    OBVIOUS
  <2>. QED
    BY <2>1
<1>4. ASSUME NEW m \in 1 .. n, m - 1 \in S
      PROVE  m \in S
  <2>1. PICK F : F = [k \in 0 .. (m - 1) |->
                        IF k = 0 THEN D ELSE W(F[k - 1], way[k])]
    BY <1>4
  <2>. DEFINE G == [k \in 0 .. m |-> IF k = m THEN W(F[m - 1], way[m])
                                     ELSE F[k]]
  <2>2. \A k \in 0 .. m : G[k] = IF k = 0 THEN D ELSE W(G[k - 1], way[k])
    <3>. SUFFICES ASSUME NEW k \in 0 .. m
                  PROVE  G[k] = IF k = 0 THEN D ELSE W(G[k - 1], way[k])
      OBVIOUS
    <3>1. CASE k = m
      <4>1. m - 1 \in 0 .. m /\ m - 1 # m /\ k # 0
        BY <1>2, <3>1
      <4>. QED
        BY <3>1, <4>1
    <3>2. CASE k # m
      <4>1. k \in 0 .. (m - 1) /\ G[k] = F[k]
        BY <1>2, <3>2
      <4>2. F[k] = IF k = 0 THEN D ELSE W(F[k - 1], way[k])
        BY <2>1, <4>1
      <4>3. k # 0 => k - 1 \in 0 .. m /\ k - 1 # m
        BY <1>2, <4>1
      <4>4. k # 0 => G[k - 1] = F[k - 1]
        BY <4>3
      <4>. QED
        BY <4>1, <4>2, <4>4
    <3>. QED
      BY <3>1, <3>2
  <2>3. G = [k \in 0 .. m |-> G[k]]
    OBVIOUS
  <2>. HIDE DEF G
  <2>4. G = [k \in 0 .. m |-> IF k = 0 THEN D ELSE W(G[k - 1], way[k])]
    BY <2>2, <2>3
  <2>5. m \in Nat
    BY <1>2
  <2>. QED
    BY <2>4, <2>5
<1>4a. \A m \in 1 .. n : m - 1 \in S => m \in S
  BY <1>4
<1>. HIDE DEF S
<1>5. n \in S
  <2>1. \A i \in 0 .. n : i \in S
    BY ONLY <1>2, <1>3, <1>4a, Reaches
  <2>. QED
    BY <1>2, <2>1
<1>6. \E F : R(F)
  BY <1>5 DEF S
<1>. HIDE DEF R
<1>7. R(c)
  BY <1>6 DEF c
<1>8. \A i \in 0 .. n : c[i] = IF i = 0 THEN D ELSE W(c[i - 1], way[i])
  BY <1>7 DEF R
<1>9. \A i \in 1 .. n : i \in 0 .. n /\ i # 0
  BY <1>2
<1>10. c[0] = D /\ \A i \in 1 .. n : c[i] = W(c[i - 1], way[i])
  BY <1>2, <1>8, <1>9
<1>11. WalksAlong(c, graph, start, way)
  BY <1>10 DEF WalksAlong, D, W, n
<1>. QED
  BY <1>1, <1>11 DEF n

(* A longer path goes on from where the shorter one led.                   *)
LEMMA WalksGoOn ==
    ASSUME NEW graph, NEW start, NEW X, NEW path \in Seq(X), NEW p \in X
    PROVE  /\ Graph!Walks(graph, start, << >>) = {<< start >>}
           /\ Graph!Walks(graph, start, Append(path, p)) =
                Graph!WalkOn(graph, Graph!Walks(graph, start, path), p)
<1>. DEFINE W(s, q) == Graph!WalkOn(graph, s, q)
            n == Len(path)
            more == Append(path, p)
<1>1. Graph!Walks(graph, start, << >>) = {<< start >>}
  <2>1. Len(<< >>) = 0
    OBVIOUS
  <2>2. PICK F : WalksAlong(F, graph, start, << >>) /\ Graph!Walks(graph, start, << >>) = F[Len(<< >>)]
    BY <2>1, WalksUnfold
  <2>. QED
    BY <2>1, <2>2 DEF WalksAlong
<1>2. /\ n \in Nat /\ Len(more) = n + 1 /\ more[n + 1] = p
      /\ \A i \in 1 .. n : more[i] = path[i]
  BY AppendProperties
<1>. HIDE DEF more
<1>3. PICK F : WalksAlong(F, graph, start, path) /\ Graph!Walks(graph, start, path) = F[Len(path)]
  BY WalksUnfold
<1>4. PICK G : WalksAlong(G, graph, start, more) /\ Graph!Walks(graph, start, more) = G[Len(more)]
  <2>1. Len(more) \in Nat
    BY <1>2
  <2>. QED
    BY <2>1, WalksUnfold, Zenon
<1>5. F[0] = G[0]
  BY <1>3, <1>4 DEF WalksAlong
<1>6. \A i \in 1 .. n : F[i] = W(F[i - 1], path[i])
  BY <1>3 DEF WalksAlong
<1>7. \A i \in 1 .. n + 1 : G[i] = W(G[i - 1], more[i])
  BY <1>2, <1>4 DEF WalksAlong
<1>8. Graph!Walks(graph, start, path) = F[n] /\ Graph!Walks(graph, start, more) = G[n + 1]
  BY <1>2, <1>3, <1>4
<1>. HIDE DEF n, W
<1>. DEFINE S == {i \in 0 .. n : F[i] = G[i]}
<1>9. 0 \in S
  BY <1>2, <1>5
<1>10. ASSUME NEW i \in 1 .. n, i - 1 \in S
       PROVE  i \in S
  <2>1. i \in 0 .. n /\ i \in 1 .. n + 1 /\ more[i] = path[i]
    BY <1>2
  <2>2. F[i - 1] = G[i - 1]
    BY <1>10
  <2>3. F[i] = W(F[i - 1], path[i]) /\ G[i] = W(G[i - 1], more[i])
    BY <1>6, <1>7, <2>1
  <2>. QED
    BY <2>1, <2>2, <2>3
<1>10a. \A i \in 1 .. n : i - 1 \in S => i \in S
  BY <1>10
<1>. HIDE DEF S
<1>11. n \in S
  <2>1. \A i \in 0 .. n : i \in S
    BY ONLY <1>2, <1>9, <1>10a, Reaches
  <2>. QED
    BY <1>2, <2>1
<1>12. G[n + 1] = W(F[n], p)
  <2>1. n + 1 \in 1 .. n + 1 /\ (n + 1) - 1 = n
    BY <1>2
  <2>2. G[n + 1] = W(G[n], more[n + 1])
    BY <1>7, <2>1
  <2>3. F[n] = G[n]
    BY <1>11 DEF S
  <2>. QED
    BY <1>2, <2>2, <2>3
<1>13. Graph!Walks(graph, start, more) = W(Graph!Walks(graph, start, path), p)
  BY <1>8, <1>12
<1>. QED
  BY <1>1, <1>13 DEF W, more

(* The same of the steps that were called.                                 *)
HopsAlong(F, graph, way) ==
    /\ F[0] = {"a"}
    /\ \A i \in 1 .. Len(way) : F[i] = Graph!Hops(graph, F[i - 1], way[i])

(* There is such a function, and all the hops are its last value.          *)
LEMMA HopsUnfold ==
    ASSUME NEW graph, NEW way, Len(way) \in Nat
    PROVE  \E F : HopsAlong(F, graph, way) /\ Graph!HopsFrom(graph, way) = F[Len(way)]
<1>. DEFINE n == Len(way)
            D == {"a"}
            W(s, q) == Graph!Hops(graph, s, q)
            S == {m \in Nat : \E F : F = [i \in 0 .. m |->
                        IF i = 0 THEN D ELSE W(F[i - 1], way[i])]}
            R(F) == F = [i \in 0 .. n |-> IF i = 0 THEN D ELSE W(F[i - 1], way[i])]
            c == CHOOSE F : R(F)
<1>1. Graph!HopsFrom(graph, way) = c[n]
  BY DEF Graph!HopsFrom
<1>2. n \in Nat
  OBVIOUS
<1>. HIDE DEF D, W, c, n
<1>3. 0 \in S
  <2>. DEFINE F == [k \in 0 .. 0 |-> D]
  <2>1. F = [k \in 0 .. 0 |-> IF k = 0 THEN D ELSE W(F[k - 1], way[k])]
    OBVIOUS
  <2>. QED
    BY <2>1
<1>4. ASSUME NEW m \in 1 .. n, m - 1 \in S
      PROVE  m \in S
  <2>1. PICK F : F = [k \in 0 .. (m - 1) |->
                        IF k = 0 THEN D ELSE W(F[k - 1], way[k])]
    BY <1>4
  <2>. DEFINE G == [k \in 0 .. m |-> IF k = m THEN W(F[m - 1], way[m])
                                     ELSE F[k]]
  <2>2. \A k \in 0 .. m : G[k] = IF k = 0 THEN D ELSE W(G[k - 1], way[k])
    <3>. SUFFICES ASSUME NEW k \in 0 .. m
                  PROVE  G[k] = IF k = 0 THEN D ELSE W(G[k - 1], way[k])
      OBVIOUS
    <3>1. CASE k = m
      <4>1. m - 1 \in 0 .. m /\ m - 1 # m /\ k # 0
        BY <1>2, <3>1
      <4>. QED
        BY <3>1, <4>1
    <3>2. CASE k # m
      <4>1. k \in 0 .. (m - 1) /\ G[k] = F[k]
        BY <1>2, <3>2
      <4>2. F[k] = IF k = 0 THEN D ELSE W(F[k - 1], way[k])
        BY <2>1, <4>1
      <4>3. k # 0 => k - 1 \in 0 .. m /\ k - 1 # m
        BY <1>2, <4>1
      <4>4. k # 0 => G[k - 1] = F[k - 1]
        BY <4>3
      <4>. QED
        BY <4>1, <4>2, <4>4
    <3>. QED
      BY <3>1, <3>2
  <2>3. G = [k \in 0 .. m |-> G[k]]
    OBVIOUS
  <2>. HIDE DEF G
  <2>4. G = [k \in 0 .. m |-> IF k = 0 THEN D ELSE W(G[k - 1], way[k])]
    BY <2>2, <2>3
  <2>5. m \in Nat
    BY <1>2
  <2>. QED
    BY <2>4, <2>5
<1>4a. \A m \in 1 .. n : m - 1 \in S => m \in S
  BY <1>4
<1>. HIDE DEF S
<1>5. n \in S
  <2>1. \A i \in 0 .. n : i \in S
    BY ONLY <1>2, <1>3, <1>4a, Reaches
  <2>. QED
    BY <1>2, <2>1
<1>6. \E F : R(F)
  BY <1>5 DEF S
<1>. HIDE DEF R
<1>7. R(c)
  BY <1>6 DEF c
<1>8. \A i \in 0 .. n : c[i] = IF i = 0 THEN D ELSE W(c[i - 1], way[i])
  BY <1>7 DEF R
<1>9. \A i \in 1 .. n : i \in 0 .. n /\ i # 0
  BY <1>2
<1>10. c[0] = D /\ \A i \in 1 .. n : c[i] = W(c[i - 1], way[i])
  BY <1>2, <1>8, <1>9
<1>11. HopsAlong(c, graph, way)
  BY <1>10 DEF HopsAlong, D, W, n
<1>. QED
  BY <1>1, <1>11 DEF n

(* One step more goes on from where the others led.                        *)
LEMMA HopsGoOn ==
    ASSUME NEW graph, NEW X, NEW path \in Seq(X), NEW p \in X
    PROVE  /\ Graph!HopsFrom(graph, << >>) = {"a"}
           /\ Graph!HopsFrom(graph, Append(path, p)) =
                Graph!Hops(graph, Graph!HopsFrom(graph, path), p)
<1>. DEFINE W(s, q) == Graph!Hops(graph, s, q)
            n == Len(path)
            more == Append(path, p)
<1>1. Graph!HopsFrom(graph, << >>) = {"a"}
  <2>1. Len(<< >>) = 0
    OBVIOUS
  <2>2. PICK F : HopsAlong(F, graph, << >>) /\ Graph!HopsFrom(graph, << >>) = F[Len(<< >>)]
    BY <2>1, HopsUnfold
  <2>. QED
    BY <2>1, <2>2 DEF HopsAlong
<1>2. /\ n \in Nat /\ Len(more) = n + 1 /\ more[n + 1] = p
      /\ \A i \in 1 .. n : more[i] = path[i]
  BY AppendProperties
<1>. HIDE DEF more
<1>3. PICK F : HopsAlong(F, graph, path) /\ Graph!HopsFrom(graph, path) = F[Len(path)]
  BY HopsUnfold
<1>4. PICK G : HopsAlong(G, graph, more) /\ Graph!HopsFrom(graph, more) = G[Len(more)]
  <2>1. Len(more) \in Nat
    BY <1>2
  <2>. QED
    BY <2>1, HopsUnfold, Zenon
<1>5. F[0] = G[0]
  BY <1>3, <1>4 DEF HopsAlong
<1>6. \A i \in 1 .. n : F[i] = W(F[i - 1], path[i])
  BY <1>3 DEF HopsAlong
<1>7. \A i \in 1 .. n + 1 : G[i] = W(G[i - 1], more[i])
  BY <1>2, <1>4 DEF HopsAlong
<1>8. Graph!HopsFrom(graph, path) = F[n] /\ Graph!HopsFrom(graph, more) = G[n + 1]
  BY <1>2, <1>3, <1>4
<1>. HIDE DEF n, W
<1>. DEFINE S == {i \in 0 .. n : F[i] = G[i]}
<1>9. 0 \in S
  BY <1>2, <1>5
<1>10. ASSUME NEW i \in 1 .. n, i - 1 \in S
       PROVE  i \in S
  <2>1. i \in 0 .. n /\ i \in 1 .. n + 1 /\ more[i] = path[i]
    BY <1>2
  <2>2. F[i - 1] = G[i - 1]
    BY <1>10
  <2>3. F[i] = W(F[i - 1], path[i]) /\ G[i] = W(G[i - 1], more[i])
    BY <1>6, <1>7, <2>1
  <2>. QED
    BY <2>1, <2>2, <2>3
<1>10a. \A i \in 1 .. n : i - 1 \in S => i \in S
  BY <1>10
<1>. HIDE DEF S
<1>11. n \in S
  <2>1. \A i \in 0 .. n : i \in S
    BY ONLY <1>2, <1>9, <1>10a, Reaches
  <2>. QED
    BY <1>2, <2>1
<1>12. G[n + 1] = W(F[n], p)
  <2>1. n + 1 \in 1 .. n + 1 /\ (n + 1) - 1 = n
    BY <1>2
  <2>2. G[n + 1] = W(G[n], more[n + 1])
    BY <1>7, <2>1
  <2>3. F[n] = G[n]
    BY <1>11 DEF S
  <2>. QED
    BY <1>2, <2>2, <2>3
<1>13. Graph!HopsFrom(graph, more) = W(Graph!HopsFrom(graph, path), p)
  BY <1>8, <1>12
<1>. QED
  BY <1>1, <1>13 DEF W, more

(* A walk through a graph: it is on a node or on an edge.                  *)
Places == Graph!Nodes \cup Nat
WalkIn(graph, w) ==
    /\ w \in Seq(Places)
    /\ IF Graph!OnNode(w) THEN Graph!Last(w) \in Graph!Nodes
                          ELSE Graph!Last(w) \in DOMAIN graph
Arrows == {"->", "<-", "<->"}
PathSteps == [arrow : Arrows, what : {"e", "?", "node", "other"}]

(* One step further, it is on the other.                                   *)
LEMMA OneFurther ==
    ASSUME NEW w \in Seq(Places), NEW r \in Places
    PROVE  /\ Append(w, r) \in Seq(Places)
           /\ Graph!Last(Append(w, r)) = r
           /\ Graph!OnNode(Append(w, r)) <=> ~Graph!OnNode(w)
<1>. DEFINE v == Append(w, r)
            n == Len(w)
<1>1. /\ v \in Seq(Places) /\ Len(v) = n + 1 /\ v[n + 1] = r /\ n \in Nat
  BY AppendProperties
<1>2. Graph!Last(v) = r
  BY <1>1 DEF Graph!Last
<1>. HIDE DEF v, n
<1>3. (n + 1) % 2 = 1 <=> n % 2 # 1
  BY <1>1
<1>4. Graph!OnNode(v) <=> ~Graph!OnNode(w)
  BY <1>1, <1>3 DEF Graph!OnNode, n
<1>. QED
  BY <1>1, <1>2, <1>4 DEF v

(* What can be reached in one step.                                        *)
LEMMA ReachedIs ==
    ASSUME NEW graph \in Seq(Graph!Relation), NEW step \in PathSteps,
           NEW w, WalkIn(graph, w)
    PROVE  Graph!Reached(graph, Graph!Last(w), Graph!OnNode(w), step)
                \subseteq (IF Graph!OnNode(w) THEN DOMAIN graph ELSE Graph!Nodes)
<1>. DEFINE R == Graph!Reached(graph, Graph!Last(w), Graph!OnNode(w), step)
<1>1. CASE Graph!OnNode(w)
  <2>1. R \subseteq DOMAIN graph
    BY <1>1, Zenon DEF Graph!Reached, Graph!EdgesOf, Graph!Edges
  <2>. QED
    BY <1>1, <2>1
<1>2. CASE ~Graph!OnNode(w)
  <2>1. Graph!Last(w) \in DOMAIN graph
    BY <1>2 DEF WalkIn
  <2>2. graph[Graph!Last(w)] \in Graph!Relation
    BY <2>1
  <2>3. /\ graph[Graph!Last(w)].to \in Graph!Nodes
        /\ graph[Graph!Last(w)].from \in Graph!Nodes
    BY <2>2 DEF Graph!Relation
  <2>4. R \subseteq Graph!EndsOf(graph[Graph!Last(w)], step.arrow)
    BY <1>2, Zenon DEF Graph!Reached
  <2>5. R \subseteq Graph!Nodes
    BY <2>3, <2>4 DEF Graph!EndsOf
  <2>. QED
    BY <1>2, <2>5
<1>. QED
  BY <1>1, <1>2

(* A walk one step longer is a walk and what is reached from its end.      *)
LEMMA WalkOnHas ==
    ASSUME NEW graph, NEW walks, NEW step
    PROVE  \A v : v \in Graph!WalkOn(graph, walks, step) <=>
             \E w \in walks :
             \E r \in Graph!Reached(graph, Graph!Last(w), Graph!OnNode(w), step) :
                v = Append(w, r)
<1>. SUFFICES ASSUME NEW v
              PROVE  v \in Graph!WalkOn(graph, walks, step) <=>
             \E w \in walks :
             \E r \in Graph!Reached(graph, Graph!Last(w), Graph!OnNode(w), step) :
                v = Append(w, r)
  OBVIOUS
<1>. DEFINE R(w) == Graph!Reached(graph, Graph!Last(w), Graph!OnNode(w), step)
            From(w) == {Append(w, r) : r \in R(w)}
<1>1. Graph!WalkOn(graph, walks, step) = UNION {From(w) : w \in walks}
  BY Zenon DEF Graph!WalkOn
<1>2. \A w : v \in From(w) <=> \E r \in R(w) : v = Append(w, r)
  OBVIOUS
<1>. HIDE DEF R, From
<1>3. v \in UNION {From(w) : w \in walks} <=> \E w \in walks : v \in From(w)
  OBVIOUS
<1>. QED
  BY <1>1, <1>2, <1>3, Zenon DEF R

(* The walks that are one step longer are walks, and as finitely many.     *)
LEMMA WalksGo ==
    ASSUME NEW graph \in Seq(Graph!Relation), NEW step \in PathSteps,
           NEW walks, \A w \in walks : WalkIn(graph, w), IsFiniteSet(walks)
    PROVE  /\ \A v \in Graph!WalkOn(graph, walks, step) : WalkIn(graph, v)
           /\ IsFiniteSet(Graph!WalkOn(graph, walks, step))
<1>. DEFINE More == Graph!WalkOn(graph, walks, step)
            R(w) == Graph!Reached(graph, Graph!Last(w), Graph!OnNode(w), step)
            All == DOMAIN graph \cup Graph!Nodes
<1>1. DOMAIN graph \subseteq Nat /\ Graph!Nodes \subseteq Places
      /\ DOMAIN graph \subseteq Places
  BY DEF Places
<1>2. \A w \in walks : R(w) \subseteq All
  BY ReachedIs
<1>3. \A v \in More : WalkIn(graph, v)
  <2>1. ASSUME NEW w \in walks, NEW r \in R(w)
        PROVE  WalkIn(graph, Append(w, r))
    <3>1. w \in Seq(Places)
      BY DEF WalkIn
    <3>2. r \in (IF Graph!OnNode(w) THEN DOMAIN graph ELSE Graph!Nodes)
      BY ReachedIs
    <3>3. r \in Places
      BY <1>1, <3>2
    <3>. QED
      BY <3>1, <3>2, <3>3, OneFurther, Zenon DEF WalkIn
  <2>. HIDE DEF More, R
  <2>2. \A v \in More : \E w \in walks : \E r \in R(w) : v = Append(w, r)
    BY WalkOnHas DEF More, R
  <2>. QED
    BY <2>1, <2>2, Zenon
<1>4. IsFiniteSet(All)
  <2>1. IsFiniteSet(DOMAIN graph)
    <3>1. DOMAIN graph = 1 .. Len(graph) /\ Len(graph) \in Int
      OBVIOUS
    <3>. QED
      BY <3>1, FS_Interval
  <2>2. IsFiniteSet(Graph!Nodes)
    <3>1. IsFiniteSet({"a"}) /\ IsFiniteSet({"b"}) /\ IsFiniteSet({"x"})
      BY FS_Singleton
    <3>2. IsFiniteSet({"a"} \cup {"b"})
      BY <3>1, FS_Union
    <3>3. IsFiniteSet(({"a"} \cup {"b"}) \cup {"x"})
      BY <3>1, <3>2, FS_Union
    <3>4. Graph!Nodes = ({"a"} \cup {"b"}) \cup {"x"}
      BY DEF Graph!Nodes
    <3>. QED
      BY <3>3, <3>4
  <2>. QED
    BY <2>1, <2>2, FS_Union
<1>5. IsFiniteSet(More)
  <2>. DEFINE P == {q \in walks \X All : q[2] \in R(q[1])}
              f == [q \in P |-> Append(q[1], q[2])]
  <2>1. IsFiniteSet(walks \X All)
    BY <1>4, FS_Product
  <2>2. IsFiniteSet(P)
    BY <2>1, FS_Subset
  <2>3. \A q \in P : f[q] \in More
    <3>1. \A q \in P : q[1] \in walks /\ q[2] \in R(q[1]) /\ f[q] = Append(q[1], q[2])
      OBVIOUS
    <3>. HIDE DEF P, f
    <3>. QED
      BY <3>1, WalkOnHas, Zenon
  <2>4. \A v \in More : \E q \in P : f[q] = v
    <3>1. ASSUME NEW w \in walks, NEW r \in R(w)
          PROVE  \E q \in P : f[q] = Append(w, r)
      <4>1. r \in All
        BY <1>2
      <4>2. << w, r >> \in P /\ << w, r >>[1] = w /\ << w, r >>[2] = r
        BY <4>1
      <4>. QED
        BY <4>2
    <3>. HIDE DEF P, f, More, R
    <3>2. \A v \in More : \E w \in walks : \E r \in R(w) : v = Append(w, r)
      BY WalkOnHas DEF More, R
    <3>. QED
      BY <3>1, <3>2
  <2>5. f \in [P -> More]
    BY <2>3
  <2>. HIDE DEF P, f, More
  <2>6. f \in Surjection(P, More)
    BY <2>4, <2>5 DEF Surjection
  <2>. QED
    BY <2>2, <2>6, FS_Surjection
<1>. QED
  BY <1>3, <1>5

(* The walks along a path.                                                 *)
LEMMA WalksAre ==
    ASSUME NEW graph \in Seq(Graph!Relation), NEW path \in Seq(PathSteps),
           NEW start \in Graph!Nodes
    PROVE  /\ \A w \in Graph!Walks(graph, start, path) : WalkIn(graph, w)
           /\ IsFiniteSet(Graph!Walks(graph, start, path))
<1>. DEFINE n == Len(path)
            Fine(W) == (\A w \in W : WalkIn(graph, w)) /\ IsFiniteSet(W)
<1>1. n \in Nat /\ \A i \in 1 .. n : path[i] \in PathSteps
  OBVIOUS
<1>2. PICK F : WalksAlong(F, graph, start, path)
               /\ Graph!Walks(graph, start, path) = F[Len(path)]
  BY WalksUnfold
<1>3. F[0] = {<< start >>}
      /\ \A i \in 1 .. n : F[i] = Graph!WalkOn(graph, F[i - 1], path[i])
  BY <1>2 DEF WalksAlong
<1>4. WalkIn(graph, << start >>)
  <2>1. start \in Places
    BY DEF Places
  <2>2. << start >> \in Seq(Places) /\ Len(<< start >>) = 1
        /\ << start >>[1] = start
    BY <2>1
  <2>3. 1 % 2 = 1
    OBVIOUS
  <2>. QED
    BY <2>2, <2>3 DEF WalkIn, Graph!OnNode, Graph!Last
<1>5. Fine({<< start >>})
  BY <1>4, FS_Singleton
<1>6. \A i \in 1 .. n : Fine(F[i - 1]) => Fine(F[i])
  BY <1>1, <1>3, WalksGo
<1>. HIDE DEF n, Fine
<1>. DEFINE S == {i \in 0 .. n : Fine(F[i])}
<1>7. 0 \in S
  <2>1. Fine(F[0])
    BY <1>3, <1>5, Zenon
  <2>. QED
    BY <1>1, <2>1
<1>8. \A i \in 1 .. n : i - 1 \in S => i \in S
  BY <1>1, <1>6
<1>. HIDE DEF S
<1>9. n \in S
  <2>1. \A i \in 0 .. n : i \in S
    BY ONLY <1>1, <1>7, <1>8, Reaches
  <2>. QED
    BY <1>1, <2>1
<1>10. Fine(F[n])
  BY <1>9 DEF S
<1>. QED
  BY <1>2, <1>10 DEF Fine, n

(* What is near is at an end of an edge of one of the nodes.               *)
LEMMA NearIs ==
    ASSUME NEW graph, NEW from, NEW arrow \in Arrows
    PROVE  \A n : n \in Graph!Near(graph, from, arrow) <=>
              \E m \in from : \E i \in Graph!EdgesOf(graph, m, arrow) :
                n \in Graph!EndsOf(graph[i], arrow)
<1>. DEFINE ends(i) ==
                (IF arrow # "<-" /\ graph[i].from \in from
                 THEN {graph[i].to} ELSE {}) \cup
                (IF arrow # "->" /\ graph[i].to \in from
                 THEN {graph[i].from} ELSE {}) \cup
                (IF arrow = "<->" /\ {graph[i].from, graph[i].to} \cap from # {}
                 THEN {graph[i].from, graph[i].to} ELSE {})
            E == {j \in DOMAIN graph : graph[j].there}
<1>1. Graph!Near(graph, from, arrow) = UNION {ends(i) : i \in E}
  BY Zenon DEF Graph!Near
<1>2. \A i, n : n \in ends(i) <=>
            /\ \/ arrow # "<-" /\ graph[i].from \in from
               \/ arrow # "->" /\ graph[i].to \in from
            /\ n \in Graph!EndsOf(graph[i], arrow)
  <2>. SUFFICES ASSUME NEW i, NEW n
                PROVE  n \in ends(i) <=>
                        /\ \/ arrow # "<-" /\ graph[i].from \in from
                           \/ arrow # "->" /\ graph[i].to \in from
                        /\ n \in Graph!EndsOf(graph[i], arrow)
    OBVIOUS
  <2>. DEFINE a == graph[i].from
              b == graph[i].to
  <2>. HIDE DEF a, b
  <2>1. n \in ends(i) <=> \/ arrow # "<-" /\ a \in from /\ n = b
                          \/ arrow # "->" /\ b \in from /\ n = a
                          \/ /\ arrow = "<->" /\ (a \in from \/ b \in from)
                             /\ n = a \/ n = b
    BY DEF a, b
  <2>2. n \in Graph!EndsOf(graph[i], arrow) <=>
            \/ arrow # "<-" /\ n = b
            \/ arrow # "->" /\ n = a
    BY DEF Graph!EndsOf, a, b
  <2>3. (arrow # "<-" /\ arrow # "->") <=> arrow = "<->"
    BY DEF Arrows
  <2>4. arrow = "<-" => arrow # "->"
    OBVIOUS
  <2>. HIDE DEF ends
  <2>. QED
    BY <2>1, <2>2, <2>3, <2>4 DEF a, b
<1>3. \A i : (\E m \in from : i \in Graph!EdgesOf(graph, m, arrow)) <=>
            /\ i \in E
            /\ \/ arrow # "<-" /\ graph[i].from \in from
               \/ arrow # "->" /\ graph[i].to \in from
  BY DEF Graph!EdgesOf, Graph!Edges
<1>. HIDE DEF ends, E
<1>4. \A n : n \in UNION {ends(i) : i \in E} <=> \E i \in E : n \in ends(i)
  OBVIOUS
<1>. QED
  BY <1>1, <1>2, <1>3, <1>4, Zenon

(* Two steps of a path, over an edge to its other end, are one hop.        *)
LEMMA OneHop ==
    ASSUME NEW graph \in Seq(Graph!Relation), NEW arrow \in Arrows,
           NEW walks, \A w \in walks : WalkIn(graph, w) /\ Graph!OnNode(w)
    PROVE  LET on == Graph!WalkOn(graph, walks, Graph!Step(arrow, "e"))
               over == Graph!WalkOn(graph, on, Graph!Step(arrow, "?"))
           IN  /\ \A v \in over : Graph!OnNode(v)
               /\ {Graph!Last(v) : v \in over} =
                    Graph!Near(graph, {Graph!Last(w) : w \in walks}, arrow)
<1>. DEFINE e == Graph!Step(arrow, "e")
            q == Graph!Step(arrow, "?")
            on == Graph!WalkOn(graph, walks, e)
            over == Graph!WalkOn(graph, on, q)
            ends == {Graph!Last(v) : v \in over}
            from == {Graph!Last(w) : w \in walks}
<1>1. /\ e.arrow = arrow /\ e.what = "e" /\ q.arrow = arrow /\ q.what = "?"
  BY DEF Graph!Step
<1>. HIDE DEF e, q
<1>2. \A w \in walks : Graph!Reached(graph, Graph!Last(w), Graph!OnNode(w), e) =
                        Graph!EdgesOf(graph, Graph!Last(w), arrow)
  BY <1>1 DEF Graph!Reached
<1>3. \A v : v \in on <=>
        \E w \in walks : \E i \in Graph!EdgesOf(graph, Graph!Last(w), arrow) :
            v = Append(w, i)
  BY <1>2, WalkOnHas
<1>4. \A w \in walks : \A i \in Graph!EdgesOf(graph, Graph!Last(w), arrow) :
        /\ Append(w, i) \in Seq(Places)
        /\ Graph!Last(Append(w, i)) = i
        /\ ~Graph!OnNode(Append(w, i))
        /\ i \in DOMAIN graph
  <2>1. \A w \in walks : w \in Seq(Places)
    BY DEF WalkIn
  <2>2. \A n : \A i \in Graph!EdgesOf(graph, n, arrow) : i \in DOMAIN graph
    BY DEF Graph!EdgesOf, Graph!Edges
  <2>3. \A i \in DOMAIN graph : i \in Places
    BY DEF Places
  <2>. QED
    BY <2>1, <2>2, <2>3, OneFurther
<1>. HIDE DEF on
<1>4a. \A v \in on : /\ v \in Seq(Places) /\ ~Graph!OnNode(v)
                    /\ Graph!Last(v) \in DOMAIN graph
  <2>. SUFFICES ASSUME NEW v \in on
                PROVE  /\ v \in Seq(Places) /\ ~Graph!OnNode(v)
                       /\ Graph!Last(v) \in DOMAIN graph
    OBVIOUS
  <2>1. PICK w \in walks :
            \E i \in Graph!EdgesOf(graph, Graph!Last(w), arrow) : v = Append(w, i)
    BY <1>3
  <2>2. PICK i \in Graph!EdgesOf(graph, Graph!Last(w), arrow) : v = Append(w, i)
    BY <2>1
  <2>. QED
    BY <1>4, <2>2
<1>5. \A v \in on :
        Graph!Reached(graph, Graph!Last(v), Graph!OnNode(v), q) =
            Graph!EndsOf(graph[Graph!Last(v)], arrow)
  BY <1>1, <1>4a DEF Graph!Reached
<1>6. \A u : u \in over <=>
        \E v \in on : \E n \in Graph!EndsOf(graph[Graph!Last(v)], arrow) :
            u = Append(v, n)
  BY <1>5, WalkOnHas
<1>. HIDE DEF over
<1>7. \A v \in on : \A n \in Graph!EndsOf(graph[Graph!Last(v)], arrow) :
        /\ Graph!Last(Append(v, n)) = n
        /\ Graph!OnNode(Append(v, n))
  <2>2. \A i \in DOMAIN graph : \A n \in Graph!EndsOf(graph[i], arrow) : n \in Places
    <3>1. \A i \in DOMAIN graph : graph[i] \in Graph!Relation
      OBVIOUS
    <3>. QED
      BY <3>1 DEF Graph!Relation, Graph!EndsOf, Places
  <2>. QED
    BY <1>4a, <2>2, OneFurther
<1>8. \A u \in over : Graph!OnNode(u)
  <2>. SUFFICES ASSUME NEW u \in over
                PROVE  Graph!OnNode(u)
    OBVIOUS
  <2>1. PICK v \in on : \E n \in Graph!EndsOf(graph[Graph!Last(v)], arrow) :
                u = Append(v, n)
    BY <1>6
  <2>2. PICK n \in Graph!EndsOf(graph[Graph!Last(v)], arrow) : u = Append(v, n)
    BY <2>1
  <2>. QED
    BY <1>7, <2>2
<1>9. \A n : n \in ends <=>
        \E m \in from : \E i \in Graph!EdgesOf(graph, m, arrow) :
            n \in Graph!EndsOf(graph[i], arrow)
  <2>1. \A n : n \in ends <=>
          \E v \in on : n \in Graph!EndsOf(graph[Graph!Last(v)], arrow)
    <3>1. \A n : n \in ends <=> \E u \in over : n = Graph!Last(u)
      OBVIOUS
    <3>. HIDE DEF ends
    <3>2. ASSUME NEW n, n \in ends
          PROVE  \E v \in on : n \in Graph!EndsOf(graph[Graph!Last(v)], arrow)
      <4>1. PICK u \in over : n = Graph!Last(u)
        BY <3>1, <3>2
      <4>2a. PICK v \in on : \E k \in Graph!EndsOf(graph[Graph!Last(v)], arrow) :
                u = Append(v, k)
        BY <1>6, <4>1
      <4>2. PICK k \in Graph!EndsOf(graph[Graph!Last(v)], arrow) : u = Append(v, k)
        BY <4>2a
      <4>3. n = k
        BY <1>7, <4>1, <4>2
      <4>. QED
        BY <4>2, <4>3
    <3>3. ASSUME NEW v \in on, NEW n \in Graph!EndsOf(graph[Graph!Last(v)], arrow)
          PROVE  n \in ends
      <4>1. Append(v, n) \in over
        BY <1>6
      <4>2. Graph!Last(Append(v, n)) = n
        BY <1>7
      <4>. QED
        BY <3>1, <4>1, <4>2
    <3>. QED
      BY <3>2, <3>3
  <2>2. \A n : (\E v \in on : n \in Graph!EndsOf(graph[Graph!Last(v)], arrow)) <=>
            \E w \in walks : \E i \in Graph!EdgesOf(graph, Graph!Last(w), arrow) :
                n \in Graph!EndsOf(graph[i], arrow)
    <3>1. ASSUME NEW v \in on, NEW n \in Graph!EndsOf(graph[Graph!Last(v)], arrow)
          PROVE  \E w \in walks : \E i \in Graph!EdgesOf(graph, Graph!Last(w), arrow) :
                    n \in Graph!EndsOf(graph[i], arrow)
      <4>1a. PICK w \in walks :
                \E i \in Graph!EdgesOf(graph, Graph!Last(w), arrow) : v = Append(w, i)
        BY <1>3
      <4>1. PICK i \in Graph!EdgesOf(graph, Graph!Last(w), arrow) : v = Append(w, i)
        BY <4>1a
      <4>2. Graph!Last(v) = i
        BY <1>4, <4>1
      <4>. QED
        BY <4>1, <4>2
    <3>2. ASSUME NEW w \in walks, NEW i \in Graph!EdgesOf(graph, Graph!Last(w), arrow),
                 NEW n \in Graph!EndsOf(graph[i], arrow)
          PROVE  \E v \in on : n \in Graph!EndsOf(graph[Graph!Last(v)], arrow)
      <4>1. Append(w, i) \in on
        BY <1>3
      <4>2. Graph!Last(Append(w, i)) = i
        BY <1>4
      <4>. QED
        BY <4>1, <4>2
    <3>. QED
      BY <3>1, <3>2
  <2>3. \A m : m \in from <=> \E w \in walks : m = Graph!Last(w)
    OBVIOUS
  <2>. HIDE DEF ends, from
  <2>. QED
    BY <2>1, <2>2, <2>3, Zenon
<1>10. \A n : n \in ends <=> n \in Graph!Near(graph, from, arrow)
  BY <1>9, NearIs
<1>. HIDE DEF ends, from
<1>11. ends = Graph!Near(graph, from, arrow)
  <2>1. \A S, T : S \subseteq T /\ T \subseteq S => S = T
    BY Zenon
  <2>. QED
    BY <1>10, <2>1
<1>. QED
  BY <1>8, <1>11 DEF ends, from, over, on, e, q

(* A deep step is two times over an edge to its other end.                 *)
LEMMA DeepPath ==
    ASSUME NEW arrow \in Arrows, NEW path \in Seq(Graph!Built)
    PROVE  /\ Graph!Step(arrow, "e") \in Graph!Built
           /\ Graph!Step(arrow, "?") \in Graph!Built
           /\ path \o Graph!FormatEdgeStep(arrow, 2) =
                Append(Append(Append(Append(path, Graph!Step(arrow, "e")),
                                     Graph!Step(arrow, "?")),
                              Graph!Step(arrow, "e")), Graph!Step(arrow, "?"))
<1>. DEFINE e == Graph!Step(arrow, "e")
            q == Graph!Step(arrow, "?")
            B == Graph!Built
            two == << e, q >>
            four == << e, q, e, q >>
            more == Append(Append(Append(Append(path, e), q), e), q)
            n == Len(path)
<1>1. e \in B /\ q \in B
  BY DEF Graph!Step, Graph!Built, Arrows
<1>2. Graph!FormatEdgeStep(arrow, 2) = Graph!Repeat(two, 2)
  BY DEF Graph!FormatEdgeStep
<1>. HIDE DEF e, q, B
<1>3. Graph!Repeat(two, 2) = [i \in 1 .. 4 |-> two[((i - 1) % 2) + 1]]
  <2>1. Len(two) = 2
    OBVIOUS
  <2>. HIDE DEF two
  <2>2. 2 * Len(two) = 4
    BY <2>1
  <2>. QED
    BY <2>1, <2>2 DEF Graph!Repeat
<1>4. [i \in 1 .. 4 |-> two[((i - 1) % 2) + 1]] = four
  <2>1. \A i \in 1 .. 4 : i \in {1, 2, 3, 4}
    OBVIOUS
  <2>2. /\ ((1 - 1) % 2) + 1 = 1 /\ ((2 - 1) % 2) + 1 = 2
        /\ ((3 - 1) % 2) + 1 = 1 /\ ((4 - 1) % 2) + 1 = 2
    OBVIOUS
  <2>3. /\ two[1] = e /\ two[2] = q
        /\ four[1] = e /\ four[2] = q /\ four[3] = e /\ four[4] = q
        /\ four = [i \in 1 .. 4 |-> four[i]]
    OBVIOUS
  <2>. HIDE DEF two, four
  <2>4. \A i \in 1 .. 4 : two[((i - 1) % 2) + 1] = four[i]
    BY <2>1, <2>2, <2>3
  <2>. QED
    BY <2>3, <2>4
<1>5. path \in Seq(B)
  BY DEF B
<1>. HIDE DEF two
<1>6. path \o four = more
  <2>. DEFINE p1 == Append(path, e)
              p2 == Append(p1, q)
              p3 == Append(p2, e)
              both == path \o four
  <2>0. n \in Nat /\ four \in Seq(B) /\ Len(four) = 4
        /\ four[1] = e /\ four[2] = q /\ four[3] = e /\ four[4] = q
    BY <1>1
  <2>. HIDE DEF four
  <2>1. /\ p1 \in Seq(B) /\ Len(p1) = n + 1 /\ p1[n + 1] = e
        /\ \A i \in 1 .. n : p1[i] = path[i]
    BY <1>1, <1>5, AppendProperties
  <2>. HIDE DEF p1, n
  <2>2. /\ p2 \in Seq(B) /\ Len(p2) = n + 2 /\ p2[n + 2] = q
        /\ \A i \in 1 .. n + 1 : p2[i] = p1[i]
    <3>1. /\ p2 \in Seq(B) /\ Len(p2) = (n + 1) + 1 /\ p2[(n + 1) + 1] = q
          /\ \A i \in 1 .. n + 1 : p2[i] = p1[i]
      BY <1>1, <2>1, AppendProperties
    <3>. HIDE DEF p2
    <3>. QED
      BY <2>0, <3>1
  <2>. HIDE DEF p2
  <2>3. /\ p3 \in Seq(B) /\ Len(p3) = n + 3 /\ p3[n + 3] = e
        /\ \A i \in 1 .. n + 2 : p3[i] = p2[i]
    <3>1. /\ p3 \in Seq(B) /\ Len(p3) = (n + 2) + 1 /\ p3[(n + 2) + 1] = e
          /\ \A i \in 1 .. n + 2 : p3[i] = p2[i]
      BY <1>1, <2>2, AppendProperties
    <3>. HIDE DEF p3
    <3>. QED
      BY <2>0, <3>1
  <2>. HIDE DEF p3
  <2>4. more = Append(p3, q)
    BY DEF p1, p2, p3
  <2>5. /\ more \in Seq(B) /\ Len(more) = n + 4 /\ more[n + 4] = q
        /\ \A i \in 1 .. n + 3 : more[i] = p3[i]
    <3>1. LET m == Append(p3, q)
          IN  /\ m \in Seq(B) /\ Len(m) = (n + 3) + 1 /\ m[(n + 3) + 1] = q
              /\ \A i \in 1 .. n + 3 : m[i] = p3[i]
      BY <1>1, <2>3, AppendProperties
    <3>. HIDE DEF more
    <3>. QED
      BY <2>0, <2>4, <3>1
  <2>. HIDE DEF more
  <2>6. /\ both \in Seq(B) /\ Len(both) = n + 4
        /\ \A i \in 1 .. n + 4 : both[i] = IF i <= n THEN path[i] ELSE four[i - n]
    <3>1. /\ both \in Seq(B) /\ Len(both) = Len(path) + Len(four)
          /\ \A i \in 1 .. Len(path) + Len(four) :
                both[i] = IF i <= Len(path) THEN path[i] ELSE four[i - Len(path)]
      BY <1>5, <2>0, ConcatProperties
    <3>2. Len(path) = n /\ Len(four) = 4
      BY <2>0 DEF n
    <3>. HIDE DEF both
    <3>. QED
      BY <3>1, <3>2
  <2>. HIDE DEF both
  <2>7. \A i \in 1 .. n + 4 : both[i] = more[i]
    <3>. SUFFICES ASSUME NEW i \in 1 .. n + 4
                  PROVE  both[i] = more[i]
      OBVIOUS
    <3>1. CASE i <= n
      <4>1. i \in 1 .. n /\ i \in 1 .. n + 1 /\ i \in 1 .. n + 2 /\ i \in 1 .. n + 3
        BY <2>0, <3>1
      <4>. QED
        BY <2>1, <2>2, <2>3, <2>5, <2>6, <3>1, <4>1
    <3>2. CASE i > n
      <4>1. i = n + 1 \/ i = n + 2 \/ i = n + 3 \/ i = n + 4
        BY <2>0, <3>2
      <4>2. /\ n + 1 \in 1 .. n + 4 /\ n + 2 \in 1 .. n + 4
            /\ n + 3 \in 1 .. n + 4 /\ n + 4 \in 1 .. n + 4
            /\ n + 1 \in 1 .. n + 1 /\ n + 1 \in 1 .. n + 2 /\ n + 1 \in 1 .. n + 3
            /\ n + 2 \in 1 .. n + 2 /\ n + 2 \in 1 .. n + 3 /\ n + 3 \in 1 .. n + 3
            /\ (n + 1) - n = 1 /\ (n + 2) - n = 2 /\ (n + 3) - n = 3 /\ (n + 4) - n = 4
        BY <2>0
      <4>3. /\ more[n + 1] = e /\ more[n + 2] = q
            /\ more[n + 3] = e /\ more[n + 4] = q
        BY <2>1, <2>2, <2>3, <2>5, <4>2
      <4>4. /\ both[n + 1] = e /\ both[n + 2] = q
            /\ both[n + 3] = e /\ both[n + 4] = q
        <5>1. ~(n + 1 <= n) /\ ~(n + 2 <= n) /\ ~(n + 3 <= n) /\ ~(n + 4 <= n)
          BY <2>0
        <5>. QED
          BY <2>0, <2>6, <4>2, <5>1
      <4>. QED
        BY <4>1, <4>3, <4>4
    <3>. QED
      BY <2>0, <3>1, <3>2
  <2>8. Len(both) = Len(more) /\ \A i \in 1 .. Len(both) : both[i] = more[i]
    BY <2>5, <2>6, <2>7
  <2>9. both = more
    BY <2>5, <2>6, <2>8, SeqEqual
  <2>. QED
    BY <2>9 DEF both
<1>. QED
  BY <1>1, <1>2, <1>3, <1>4, <1>6 DEF e, q, B

(* A deep step leads two hops further.                                     *)
LEMMA TwoHops ==
    ASSUME NEW graph \in Seq(Graph!Relation), NEW arrow \in Arrows,
           NEW path \in Seq(Graph!Built),
           \A w \in Graph!Walks(graph, "a", path) : Graph!OnNode(w)
    PROVE  LET before == Graph!Walks(graph, "a", path)
               after == Graph!Walks(graph, "a", path \o Graph!FormatEdgeStep(arrow, 2))
           IN  /\ path \o Graph!FormatEdgeStep(arrow, 2) \in Seq(Graph!Built)
               /\ \A w \in after : Graph!OnNode(w)
               /\ {Graph!Last(w) : w \in after} =
                    Graph!Near(graph, Graph!Near(graph,
                        {Graph!Last(w) : w \in before}, arrow), arrow)
<1>. DEFINE e == Graph!Step(arrow, "e")
            q == Graph!Step(arrow, "?")
            B == Graph!Built
            p1 == Append(path, e)
            p2 == Append(p1, q)
            p3 == Append(p2, e)
            p4 == Append(p3, q)
            W(p) == Graph!Walks(graph, "a", p)
            E(p) == {Graph!Last(w) : w \in W(p)}
<1>1. e \in B /\ q \in B /\ path \o Graph!FormatEdgeStep(arrow, 2) = p4
  BY DeepPath
<1>2. p1 \in Seq(B) /\ p2 \in Seq(B) /\ p3 \in Seq(B) /\ p4 \in Seq(B)
  <2>1. \A p \in Seq(B), s \in B : Append(p, s) \in Seq(B)
    BY AppendProperties
  <2>. HIDE DEF e, q, B
  <2>2. path \in Seq(B)
    BY DEF B
  <2>. QED
    BY <1>1, <2>1, <2>2, Zenon
<1>3. ASSUME NEW p \in Seq(B), \A w \in W(p) : Graph!OnNode(w)
      PROVE  LET two == Append(Append(p, e), q) IN
             /\ \A w \in W(two) : Graph!OnNode(w)
             /\ E(two) = Graph!Near(graph, E(p), arrow)
  <2>1. \A w \in W(p) : WalkIn(graph, w)
    <3>1. B \subseteq PathSteps
      BY DEF Graph!Built, PathSteps, Arrows
    <3>2. p \in Seq(PathSteps)
      BY <3>1
    <3>3. "a" \in Graph!Nodes
      BY DEF Graph!Nodes
    <3>. QED
      BY <3>2, <3>3, WalksAre
  <2>2. Append(p, e) \in Seq(B)
    BY <1>1, AppendProperties
  <2>3. W(Append(p, e)) = Graph!WalkOn(graph, W(p), e)
    BY <1>1, WalksGoOn
  <2>4. W(Append(Append(p, e), q)) = Graph!WalkOn(graph, W(Append(p, e)), q)
    <3>. DEFINE more == Append(p, e)
    <3>1. more \in Seq(B)
      BY <2>2
    <3>. HIDE DEF more, e, q, B
    <3>2. W(Append(more, q)) = Graph!WalkOn(graph, W(more), q)
      BY <1>1, <3>1, WalksGoOn
    <3>. QED
      BY <3>2 DEF more
  <2>5. \A w \in W(p) : WalkIn(graph, w) /\ Graph!OnNode(w)
    BY <1>3, <2>1
  <2>6. LET over == Graph!WalkOn(graph, Graph!WalkOn(graph, W(p), e), q)
        IN  /\ \A v \in over : Graph!OnNode(v)
            /\ {Graph!Last(v) : v \in over} = Graph!Near(graph, E(p), arrow)
    BY <2>5, OneHop
  <2>. HIDE DEF e, q, W
  <2>. QED
    BY <2>3, <2>4, <2>6
<1>4. path \in Seq(B) /\ \A w \in W(path) : Graph!OnNode(w)
  OBVIOUS
<1>. HIDE DEF e, q, B, W, E
<1>5. (\A w \in W(p2) : Graph!OnNode(w)) /\ E(p2) = Graph!Near(graph, E(path), arrow)
  BY <1>3, <1>4
<1>6. (\A w \in W(p4) : Graph!OnNode(w)) /\ E(p4) = Graph!Near(graph, E(p2), arrow)
  BY <1>2, <1>3, <1>5
<1>. HIDE DEF p1, p2, p3, p4
<1>. QED
  BY <1>1, <1>2, <1>5, <1>6 DEF B, W, E

Graphs == Seq(Graph!Relation)
QueryFields == {"path", "where", "target", "limit", "fetch"}

(* What a query and the steps that were called on it have to do.           *)
LEMMA LeadsIs ==
    ASSUME NEW q, NEW path
    PROVE  Graph!Leads(q, path, Graphs) <=>
            /\ DOMAIN q = QueryFields
            /\ q.path \in Seq(Graph!Built) /\ q.target \in {"none", "node", "other"}
            /\ q.where \in Seq({"marked"}) /\ q.limit \in {0, 1, Graph!NoLimit}
            /\ path \in Seq(Graph!Called)
            /\ (\A i \in DOMAIN path : path[i].depth # 1) =>
                \A graph \in Graphs :
                    /\ \A w \in Graph!Walks(graph, "a", q.path) : Graph!OnNode(w)
                    /\ {Graph!Last(w) : w \in Graph!Walks(graph, "a", q.path)} =
                        Graph!HopsFrom(graph, path)
<1>1. DOMAIN Graph!NewQuery = QueryFields
  BY DEF Graph!NewQuery, QueryFields
<1>. QED
  BY <1>1, Zenon DEF Graph!Leads

(* A new query has led nowhere, and no step was called.                    *)
LEMMA LeadsInitially == Graph!Leads(Graph!NewQuery, << >>, Graphs)
<1>. DEFINE q == Graph!NewQuery
<1>1. /\ DOMAIN q = QueryFields
      /\ q.path = << >> /\ q.target = "none" /\ q.where = << >>
      /\ q.limit = Graph!NoLimit
  BY DEF Graph!NewQuery, QueryFields
<1>2. /\ << >> \in Seq(Graph!Built) /\ << >> \in Seq({"marked"})
      /\ << >> \in Seq(Graph!Called)
  OBVIOUS
<1>3. ASSUME NEW graph \in Graphs
      PROVE  /\ \A w \in Graph!Walks(graph, "a", << >>) : Graph!OnNode(w)
             /\ {Graph!Last(w) : w \in Graph!Walks(graph, "a", << >>)} =
                  Graph!HopsFrom(graph, << >>)
  <2>1. Graph!Walks(graph, "a", << >>) = {<< "a" >>}
    <3>1. << >> \in Seq({1}) /\ 1 \in {1}
      OBVIOUS
    <3>. QED
      BY <3>1, WalksGoOn
  <2>2. Graph!HopsFrom(graph, << >>) = {"a"}
    <3>1. << >> \in Seq({1}) /\ 1 \in {1}
      OBVIOUS
    <3>. QED
      BY <3>1, HopsGoOn
  <2>3. Len(<< "a" >>) = 1 /\ << "a" >>[1] = "a" /\ 1 % 2 = 1
    OBVIOUS
  <2>4. Graph!OnNode(<< "a" >>) /\ Graph!Last(<< "a" >>) = "a"
    BY <2>3 DEF Graph!OnNode, Graph!Last
  <2>. QED
    BY <2>1, <2>2, <2>4
<1>. HIDE DEF q
<1>4. Graph!Leads(q, << >>, Graphs)
  BY <1>1, <1>2, <1>3, LeadsIs
<1>. QED
  BY <1>4 DEF q

(* A further step of depth 1 or 2.                                         *)
LEMMA LeadsTraverse ==
    ASSUME NEW q, NEW path, Graph!Leads(q, path, Graphs),
           NEW arrow \in Arrows, NEW depth \in 1 .. 2
    PROVE  Graph!Leads([q EXCEPT !.path = @ \o Graph!FormatEdgeStep(arrow, depth)],
                       Append(path, [arrow |-> arrow, depth |-> depth]), Graphs)
<1>. DEFINE r == [q EXCEPT !.path = @ \o Graph!FormatEdgeStep(arrow, depth)]
            s == [arrow |-> arrow, depth |-> depth]
            more == Append(path, s)
<1>1. /\ DOMAIN q = QueryFields
      /\ q.path \in Seq(Graph!Built) /\ q.target \in {"none", "node", "other"}
      /\ q.where \in Seq({"marked"}) /\ q.limit \in {0, 1, Graph!NoLimit}
      /\ path \in Seq(Graph!Called)
      /\ (\A i \in DOMAIN path : path[i].depth # 1) =>
            \A graph \in Graphs :
                /\ \A w \in Graph!Walks(graph, "a", q.path) : Graph!OnNode(w)
                /\ {Graph!Last(w) : w \in Graph!Walks(graph, "a", q.path)} =
                    Graph!HopsFrom(graph, path)
  BY LeadsIs
<1>2. /\ DOMAIN r = QueryFields /\ r.target = q.target /\ r.where = q.where
      /\ r.limit = q.limit
      /\ r.path = q.path \o Graph!FormatEdgeStep(arrow, depth)
  BY <1>1 DEF QueryFields
<1>3. s \in Graph!Called /\ s.depth = depth /\ s.arrow = arrow
  BY DEF Graph!Called, Arrows
<1>. HIDE DEF r, s
<1>4. /\ more \in Seq(Graph!Called) /\ DOMAIN more = 1 .. Len(path) + 1
      /\ more[Len(path) + 1] = s /\ Len(path) \in Nat /\ DOMAIN path = 1 .. Len(path)
      /\ \A i \in 1 .. Len(path) : more[i] = path[i]
  BY <1>1, <1>3, AppendProperties
<1>5. r.path \in Seq(Graph!Built)
  <2>1. Graph!FormatEdgeStep(arrow, 1) = << Graph!Step(arrow, "e") >>
    BY DEF Graph!FormatEdgeStep
  <2>2. << Graph!Step(arrow, "e") >> \in Seq(Graph!Built)
    BY <1>1, DeepPath
  <2>3. q.path \o << Graph!Step(arrow, "e") >> \in Seq(Graph!Built)
    BY <1>1, <2>2, ConcatProperties
  <2>4. q.path \o Graph!FormatEdgeStep(arrow, 2) \in Seq(Graph!Built)
    <3>1. \A p \in Seq(Graph!Built), b \in Graph!Built : Append(p, b) \in Seq(Graph!Built)
      BY AppendProperties
    <3>. QED
      BY <1>1, <3>1, DeepPath, Zenon
  <2>5. depth = 1 \/ depth = 2
    OBVIOUS
  <2>. QED
    BY <1>2, <2>1, <2>3, <2>4, <2>5
<1>6. ASSUME \A i \in DOMAIN more : more[i].depth # 1, NEW graph \in Graphs
      PROVE  /\ \A w \in Graph!Walks(graph, "a", r.path) : Graph!OnNode(w)
             /\ {Graph!Last(w) : w \in Graph!Walks(graph, "a", r.path)} =
                    Graph!HopsFrom(graph, more)
  <2>1. \A i \in DOMAIN path : path[i].depth # 1
    <3>1. \A i \in 1 .. Len(path) : i \in 1 .. Len(path) + 1
      BY <1>4
    <3>. HIDE DEF more
    <3>. QED
      BY <1>4, <1>6, <3>1
  <2>2. depth = 2
    <3>1. Len(path) + 1 \in 1 .. Len(path) + 1
      BY <1>4
    <3>2. more[Len(path) + 1].depth # 1
      BY <1>4, <1>6, <3>1
    <3>. QED
      BY <1>3, <1>4, <3>2
  <2>3. /\ \A w \in Graph!Walks(graph, "a", q.path) : Graph!OnNode(w)
        /\ {Graph!Last(w) : w \in Graph!Walks(graph, "a", q.path)} =
                Graph!HopsFrom(graph, path)
    BY <1>1, <2>1
  <2>4. Graph!HopsFrom(graph, more) =
            Graph!Near(graph, Graph!Near(graph, Graph!HopsFrom(graph, path), arrow), arrow)
    <3>1. Graph!HopsFrom(graph, more) = Graph!Hops(graph, Graph!HopsFrom(graph, path), s)
      BY <1>1, <1>3, HopsGoOn
    <3>. QED
      BY <1>3, <2>2, <3>1 DEF Graph!Hops
  <2>5. graph \in Seq(Graph!Relation)
    BY DEF Graphs
  <2>6. LET after == Graph!Walks(graph, "a", q.path \o Graph!FormatEdgeStep(arrow, 2))
        IN  /\ \A w \in after : Graph!OnNode(w)
            /\ {Graph!Last(w) : w \in after} =
                 Graph!Near(graph, Graph!Near(graph,
                    {Graph!Last(w) : w \in Graph!Walks(graph, "a", q.path)}, arrow), arrow)
    BY <1>1, <2>3, <2>5, TwoHops
  <2>7. r.path = q.path \o Graph!FormatEdgeStep(arrow, 2)
    BY <1>2, <2>2
  <2>. QED
    BY <2>3, <2>4, <2>6, <2>7
<1>. HIDE DEF more
<1>7. Graph!Leads(r, more, Graphs)
  BY <1>1, <1>2, <1>4, <1>5, <1>6, LeadsIs
<1>. QED
  BY <1>7 DEF r, s, more

(* What is called besides does not lead further.                           *)
LEMMA LeadsElse ==
    ASSUME NEW q, NEW path, Graph!Leads(q, path, Graphs),
           NEW r, DOMAIN r = QueryFields, r.path = q.path,
           r.target \in {"none", "node", "other"}, r.where \in Seq({"marked"}),
           r.limit \in {0, 1, Graph!NoLimit}
    PROVE  Graph!Leads(r, Append(path, Graph!Other), Graphs)
<1>. DEFINE s == Graph!Other
            more == Append(path, s)
<1>1. /\ q.path \in Seq(Graph!Built)
      /\ path \in Seq(Graph!Called)
      /\ (\A i \in DOMAIN path : path[i].depth # 1) =>
            \A graph \in Graphs :
                /\ \A w \in Graph!Walks(graph, "a", q.path) : Graph!OnNode(w)
                /\ {Graph!Last(w) : w \in Graph!Walks(graph, "a", q.path)} =
                    Graph!HopsFrom(graph, path)
  BY LeadsIs
<1>2. s \in Graph!Called /\ s.depth # 2
  BY DEF Graph!Called, Graph!Other
<1>. HIDE DEF s
<1>3. /\ more \in Seq(Graph!Called) /\ DOMAIN more = 1 .. Len(path) + 1
      /\ Len(path) \in Nat /\ DOMAIN path = 1 .. Len(path)
      /\ \A i \in 1 .. Len(path) : more[i] = path[i]
  BY <1>1, <1>2, AppendProperties
<1>4. ASSUME NEW graph
      PROVE  Graph!HopsFrom(graph, more) = Graph!HopsFrom(graph, path)
  <2>1. Graph!HopsFrom(graph, more) = Graph!Hops(graph, Graph!HopsFrom(graph, path), s)
    BY <1>1, <1>2, HopsGoOn
  <2>. QED
    BY <1>2, <2>1 DEF Graph!Hops
<1>. HIDE DEF more
<1>5. (\A i \in DOMAIN more : more[i].depth # 1) =>
            \A i \in DOMAIN path : path[i].depth # 1
  <2>1. \A i \in 1 .. Len(path) : i \in 1 .. Len(path) + 1
    BY <1>3
  <2>. QED
    BY <1>3, <2>1
<1>6. Graph!Leads(r, more, Graphs)
  BY <1>1, <1>3, <1>4, <1>5, LeadsIs
<1>. QED
  BY <1>6 DEF s, more

AskerFields == {"at", "request", "executed", "query", "steps", "answer", "seen"}

(* What a call keeps, told of the graph as it is.                          *)
AskerKept(a, graph) ==
    /\ a.at \in {"idle", "connecting", "sent", "returned"}
    /\ a.at # "idle" => /\ DOMAIN a = AskerFields
                        /\ Graph!Leads(a.query, a.steps, Graphs)
                        /\ Graph!Asks(a)
    /\ a.at = "returned" => Graph!Answered(a, graph)

(* The invariant, call by call.                                            *)
LEMMA GraphInvIs ==
    Graph!GraphInv(Graphs) <=>
        /\ made \in Seq(Graph!Relation)
        /\ \A i \in DOMAIN made :
            ~made[i].there => << made[i].from, made[i].to >> \in removals
        /\ Graph!Leads(query, steps, Graphs)
        /\ DOMAIN askers = Tasks
        /\ \A c \in Tasks : AskerKept(askers[c], made)
<1>1. DOMAIN Graph!Sent(Graph!ToSurql(query)) = AskerFields
  BY DEF Graph!Sent, Graph!Task, AskerFields
<1>. QED
  BY <1>1, Zenon DEF Graph!GraphInv, AskerKept

(* The same after a step.                                                  *)
LEMMA GraphInvIsNext ==
    Graph!GraphInv(Graphs)' <=>
        /\ made' \in Seq(Graph!Relation)
        /\ \A i \in DOMAIN made' :
            ~made'[i].there => << made'[i].from, made'[i].to >> \in removals'
        /\ Graph!Leads(query', steps', Graphs)
        /\ DOMAIN askers' = Tasks
        /\ \A c \in Tasks : AskerKept(askers'[c], made')
<1>1. DOMAIN Graph!Sent(Graph!ToSurql(query')) = AskerFields
  BY DEF Graph!Sent, Graph!Task, AskerFields
<1>. QED
  BY <1>1, Zenon DEF Graph!GraphInv, AskerKept

(* A graph later on: nothing is dropped and nothing comes back.            *)
Later(graph, after) ==
    \A i \in DOMAIN graph :
        /\ i \in DOMAIN after
        /\ after[i].from = graph[i].from /\ after[i].to = graph[i].to
        /\ after[i].there => graph[i].there

(* So what the others were told stays true.                                *)
LEMMA OthersKept ==
    ASSUME NEW a, NEW graph, NEW after, AskerKept(a, graph), Later(graph, after)
    PROVE  AskerKept(a, after)
<1>1. CASE a.at = "returned"
  <2>1. Graph!Answered(a, graph)
    BY <1>1 DEF AskerKept
  <2>2. Graph!Answered(a, after)
    BY <2>1 DEF Graph!Answered, Later, Graph!Removes
  <2>. QED
    BY <2>2 DEF AskerKept
<1>2. CASE a.at # "returned"
  BY <1>2 DEF AskerKept
<1>. QED
  BY <1>1, <1>2

(* At first nothing was removed or asked.                                  *)
LEMMA GraphInitially ==
    ASSUME Graph!Init
    PROVE  Graph!GraphInv(Graphs)
<1>1. made \in Seq(Graph!Relation) /\ \A i \in DOMAIN made : made[i].there
  <2>. DEFINE edge(a, b) == [from |-> a, to |-> b, there |-> TRUE]
  <2>1. \A a, b \in Graph!Nodes : edge(a, b) \in Graph!Relation /\ edge(a, b).there
    BY DEF Graph!Relation
  <2>2. "a" \in Graph!Nodes /\ "b" \in Graph!Nodes /\ "x" \in Graph!Nodes
    BY DEF Graph!Nodes
  <2>3. \/ made = << edge("a", "b"), edge("b", "x") >>
        \/ made = << edge("a", "b"), edge("a", "b"), edge("b", "a") >>
    BY DEF Graph!Init
  <2>4. /\ edge("a", "b") \in Graph!Relation /\ edge("b", "x") \in Graph!Relation
        /\ edge("b", "a") \in Graph!Relation
        /\ edge("a", "b").there /\ edge("b", "x").there /\ edge("b", "a").there
    BY <2>1, <2>2
  <2>. HIDE DEF edge
  <2>5. ASSUME NEW X, NEW x \in X, NEW y \in X, NEW z \in X
        PROVE  /\ << x, y >> \in Seq(X) /\ << x, y, z >> \in Seq(X)
               /\ DOMAIN << x, y >> = {1, 2} /\ DOMAIN << x, y, z >> = {1, 2, 3}
               /\ << x, y >>[1] = x /\ << x, y >>[2] = y
               /\ << x, y, z >>[1] = x /\ << x, y, z >>[2] = y /\ << x, y, z >>[3] = z
    OBVIOUS
  <2>6. CASE made = << edge("a", "b"), edge("b", "x") >>
    <3>1. made \in Seq(Graph!Relation) /\ DOMAIN made = {1, 2}
          /\ made[1] = edge("a", "b") /\ made[2] = edge("b", "x")
      BY <2>4, <2>5, <2>6
    <3>. QED
      BY <2>4, <3>1
  <2>7. CASE made = << edge("a", "b"), edge("a", "b"), edge("b", "a") >>
    <3>1. made \in Seq(Graph!Relation) /\ DOMAIN made = {1, 2, 3}
          /\ made[1] = edge("a", "b") /\ made[2] = edge("a", "b")
          /\ made[3] = edge("b", "a")
      BY <2>4, <2>5, <2>7
    <3>. QED
      BY <2>4, <3>1
  <2>. QED
    BY <2>3, <2>6, <2>7
<1>2. \A c \in Tasks : askers[c].at = "idle"
  BY DEF Graph!Init, Graph!Idle
<1>3. \A c \in Tasks : AskerKept(askers[c], made)
  BY <1>2 DEF AskerKept
<1>4. /\ query = Graph!NewQuery /\ steps = << >> /\ DOMAIN askers = Tasks
  BY DEF Graph!Init
<1>5. Graph!Leads(query, steps, Graphs)
  BY <1>4, LeadsInitially
<1>. QED
  BY <1>1, <1>3, <1>4, <1>5, GraphInvIs

(* What is called on the query.                                            *)
LEMMA GraphBuilds ==
    ASSUME Graph!GraphInv(Graphs),
           \/ Graph!Traverse \/ Graph!To \/ Graph!Where \/ Graph!Limit
           \/ Graph!Fetch
    PROVE  Graph!GraphInv(Graphs)'
<1>1. UNCHANGED << made, askers, removals >>
  BY DEF Graph!Traverse, Graph!To, Graph!Where, Graph!Limit, Graph!Fetch,
     Graph!Builds
<1>2. Graph!Leads(query, steps, Graphs)
  BY GraphInvIs
<1>3. /\ DOMAIN query = QueryFields
      /\ query.target \in {"none", "node", "other"}
      /\ query.where \in Seq({"marked"}) /\ query.limit \in {0, 1, Graph!NoLimit}
  BY <1>2, LeadsIs
<1>4. Graph!Leads(query', steps', Graphs)
  <2>1. CASE Graph!Traverse
    <3>1. PICK arrow \in {"->", "<-", "<->"}, depth \in 1 .. 2 :
            /\ query' = [query EXCEPT !.path = @ \o Graph!FormatEdgeStep(arrow, depth)]
            /\ steps' = Append(steps, [arrow |-> arrow, depth |-> depth])
      BY <2>1, Zenon DEF Graph!Traverse
    <3>2. arrow \in Arrows
      BY DEF Arrows
    <3>3. Graph!Leads([query EXCEPT !.path = @ \o Graph!FormatEdgeStep(arrow, depth)],
                      Append(steps, [arrow |-> arrow, depth |-> depth]), Graphs)
      BY <1>2, <3>2, LeadsTraverse
    <3>. QED
      BY <3>1, <3>3, Zenon
  <2>2. CASE ~Graph!Traverse
    <3>1. steps' = Append(steps, Graph!Other)
      BY <2>2 DEF Graph!To, Graph!Where, Graph!Limit, Graph!Fetch
    <3>2. /\ DOMAIN query' = QueryFields /\ query'.path = query.path
          /\ query'.target \in {"none", "node", "other"}
          /\ query'.where \in Seq({"marked"})
          /\ query'.limit \in {0, 1, Graph!NoLimit}
      <4>1. CASE Graph!To
        BY <1>3, <4>1 DEF Graph!To, QueryFields
      <4>2. CASE Graph!Where
        <5>1. query' = [query EXCEPT !.where = Append(@, "marked")]
          BY <4>2 DEF Graph!Where
        <5>2. Append(query.where, "marked") \in Seq({"marked"})
          BY <1>3, AppendProperties
        <5>. QED
          BY <1>3, <5>1, <5>2 DEF QueryFields
      <4>3. CASE Graph!Limit
        <5>1. PICK k \in 0 .. 1 : query' = [query EXCEPT !.limit = k]
          BY <4>3 DEF Graph!Limit
        <5>2. k \in {0, 1, Graph!NoLimit}
          OBVIOUS
        <5>. QED
          BY <1>3, <5>1, <5>2 DEF QueryFields
      <4>4. CASE Graph!Fetch
        BY <1>3, <4>4 DEF Graph!Fetch, QueryFields
      <4>. QED
        BY <2>2, <4>1, <4>2, <4>3, <4>4
    <3>3. Graph!Leads(query', Append(steps, Graph!Other), Graphs)
      BY <1>2, <3>2, LeadsElse
    <3>. QED
      BY <3>1, <3>3, Zenon
  <2>. QED
    BY <2>1, <2>2
<1>. QED
  BY <1>1, <1>4, GraphInvIs, GraphInvIsNext, SMT

(* A call that starts.                                                     *)
LEMMA GraphStarts ==
    ASSUME Graph!GraphInv(Graphs), NEW c \in Tasks, NEW task,
           Graph!Start(c, task), AskerKept(task, made)
    PROVE  Graph!GraphInv(Graphs)'
<1>1. /\ askers' = [askers EXCEPT ![c] = task]
      /\ UNCHANGED << made, query, steps, removals >>
  BY DEF Graph!Start
<1>2. DOMAIN askers = Tasks /\ \A d \in Tasks : AskerKept(askers[d], made)
  BY GraphInvIs
<1>3. DOMAIN askers' = Tasks
      /\ \A d \in Tasks : askers'[d] = IF d = c THEN task ELSE askers[d]
  BY <1>1, <1>2
<1>4. \A d \in Tasks : AskerKept(askers'[d], made)
  BY <1>2, <1>3
<1>. QED
  BY <1>1, <1>3, <1>4, GraphInvIs, GraphInvIsNext, SMT

(* A function sends its request at once.                                   *)
LEMMA SentKept ==
    ASSUME NEW r, r.limit = Graph!NoLimit, r.from \in Graph!Nodes,
           r.path \in Seq(Graph!Built),
           r.kind = "relate" => r.to \in Graph!Nodes, NEW graph
    PROVE  AskerKept(Graph!Sent(r), graph)
<1>. DEFINE a == Graph!Sent(r)
<1>1. /\ a.at = "sent" /\ DOMAIN a = AskerFields /\ a.request = r
      /\ a.query = Graph!NewQuery /\ a.steps = << >> /\ a.executed = FALSE
  BY DEF Graph!Sent, Graph!Task, AskerFields
<1>. HIDE DEF a
<1>2. Graph!Leads(a.query, a.steps, Graphs)
  BY <1>1, LeadsInitially
<1>3. Graph!Asks(a)
  BY <1>1 DEF Graph!Asks
<1>4. AskerKept(a, graph)
  BY <1>1, <1>2, <1>3 DEF AskerKept
<1>. QED
  BY <1>4 DEF a

(* An execute or a count has its query before it has a connection.         *)
LEMMA ExecuteKept ==
    ASSUME Graph!Leads(query, steps, Graphs), query.path # << >>,
           NEW request \in {Graph!ToSurql(query), Graph!Count(query)}, NEW graph
    PROVE  AskerKept(Graph!Task("connecting", request, query, steps), graph)
<1>. DEFINE a == Graph!Task("connecting", request, query, steps)
<1>1. query # Graph!NewQuery
  BY DEF Graph!NewQuery
<1>2. /\ a.at = "connecting" /\ DOMAIN a = AskerFields /\ a.request = request
      /\ a.query = query /\ a.steps = steps /\ a.executed = TRUE
  BY <1>1 DEF Graph!Task, AskerFields
<1>. HIDE DEF a
<1>3. Graph!Asks(a)
  BY <1>2 DEF Graph!Asks
<1>4. AskerKept(a, graph)
  BY <1>2, <1>3 DEF AskerKept
<1>. QED
  BY <1>4 DEF a

(* The paths of the functions.                                             *)
LEMMA FunctionPaths ==
    ASSUME NEW arrow \in Arrows
    PROVE  /\ << Graph!Step(arrow, "e") >> \in Seq(Graph!Built)
           /\ \A hops \in 1 .. 2 :
                Graph!Repeat(<< Graph!Step(arrow, "e") >>, hops) \in Seq(Graph!Built)
<1>. DEFINE s == Graph!Step(arrow, "e")
            B == Graph!Built
            one == << s >>
<1>1. s \in B
  BY DEF Graph!Step, Graph!Built, Arrows
<1>. HIDE DEF s, B
<1>2. one \in Seq(B) /\ Len(one) = 1 /\ one[1] = s
  BY <1>1
<1>. HIDE DEF one
<1>3. ASSUME NEW hops \in 1 .. 2
      PROVE  Graph!Repeat(one, hops) \in Seq(B)
  <2>1. hops * Len(one) = hops /\ hops \in Nat
    BY <1>2
  <2>2. \A i \in 1 .. hops : one[((i - 1) % Len(one)) + 1] \in B
    <3>. SUFFICES ASSUME NEW i \in 1 .. hops
                  PROVE  one[((i - 1) % Len(one)) + 1] \in B
      OBVIOUS
    <3>1. ((i - 1) % 1) + 1 = 1
      OBVIOUS
    <3>. QED
      BY <1>1, <1>2, <3>1
  <2>3. Graph!Repeat(one, hops) =
            [i \in 1 .. hops |-> one[((i - 1) % Len(one)) + 1]]
    BY <2>1 DEF Graph!Repeat
  <2>. QED
    BY <2>1, <2>2, <2>3
<1>. QED
  BY <1>2, <1>3 DEF one, s, B

(* The calls that start.                                                   *)
LEMMA GraphCalls ==
    ASSUME Graph!GraphInv(Graphs), NEW c \in Tasks,
           \/ Graph!Execute(c) \/ Graph!TraverseWithDepth(c) \/ Graph!GetEdges(c)
           \/ Graph!CountRelated(c) \/ Graph!CreateRelation(c)
           \/ Graph!RemoveRelation(c)
    PROVE  Graph!GraphInv(Graphs)'
<1>. SUFFICES \E task : Graph!Start(c, task) /\ AskerKept(task, made)
  BY GraphStarts
<1>1. ASSUME NEW what, NEW from \in Graph!Nodes, NEW path \in Seq(Graph!Built), NEW w
      PROVE  /\ what # "relate" =>
                    AskerKept(Graph!Sent(Graph!Request(what, from, path, w)), made)
             /\ \A to \in Graph!Nodes : AskerKept(Graph!Sent(
                    [Graph!Request(what, from, path, w) EXCEPT !.to = to]), made)
  <2>. DEFINE r == Graph!Request(what, from, path, w)
  <2>1. r.limit = Graph!NoLimit /\ r.from = from /\ r.path = path /\ r.kind = what
    BY DEF Graph!Request
  <2>2. \A to : LET t == [r EXCEPT !.to = to] IN
            t.limit = Graph!NoLimit /\ t.from = from /\ t.path = path /\ t.to = to
    BY DEF Graph!Request
  <2>. HIDE DEF r
  <2>3. what # "relate" => AskerKept(Graph!Sent(r), made)
    BY <2>1, SentKept
  <2>4. ASSUME NEW to \in Graph!Nodes
        PROVE  AskerKept(Graph!Sent([r EXCEPT !.to = to]), made)
    BY <2>2, SentKept
  <2>. QED
    BY <2>3, <2>4 DEF r
<1>2. "a" \in Graph!Nodes /\ "b" \in Graph!Nodes /\ "x" \in Graph!Nodes
  BY DEF Graph!Nodes
<1>3. {"->", "<-"} \subseteq Arrows /\ "->" \in Arrows
  BY DEF Arrows
<1>4. CASE Graph!Execute(c)
  <2>1. PICK request \in {Graph!ToSurql(query), Graph!Count(query)} :
            Graph!Start(c, Graph!Task("connecting", request, query, steps))
    BY <1>4, Zenon DEF Graph!Execute
  <2>2. query.path # << >> /\ Graph!Leads(query, steps, Graphs)
    BY <1>4, GraphInvIs DEF Graph!Execute
  <2>. QED
    BY <2>1, <2>2, ExecuteKept
<1>5. CASE Graph!TraverseWithDepth(c)
  <2>1. PICK hops \in 1 .. 2, w \in Graph!Wheres :
            Graph!Start(c, Graph!Sent(Graph!Request("select", "b",
                Graph!Repeat(<< Graph!Step("->", "e") >>, hops), w)))
    BY <1>5, Zenon DEF Graph!TraverseWithDepth
  <2>2. Graph!Repeat(<< Graph!Step("->", "e") >>, hops) \in Seq(Graph!Built)
    BY <1>3, FunctionPaths
  <2>. QED
    BY <1>1, <1>2, <2>1, <2>2
<1>6. CASE Graph!GetEdges(c)
  <2>1. PICK arrow \in {"->", "<-"} :
            Graph!Start(c, Graph!Sent(Graph!Request("select", "b",
                << Graph!Step(arrow, "e") >>, << >>)))
    BY <1>6, Zenon DEF Graph!GetEdges
  <2>2. << Graph!Step(arrow, "e") >> \in Seq(Graph!Built)
    BY <1>3, FunctionPaths
  <2>. QED
    BY <1>1, <1>2, <2>1, <2>2
<1>7. CASE Graph!CountRelated(c)
  <2>1. PICK arrow \in {"->", "<-"} :
            Graph!Start(c, Graph!Sent(Graph!Request("count", "b",
                << Graph!Step(arrow, "e") >>, << >>)))
    BY <1>7, Zenon DEF Graph!CountRelated
  <2>2. << Graph!Step(arrow, "e") >> \in Seq(Graph!Built)
    BY <1>3, FunctionPaths
  <2>. QED
    BY <1>1, <1>2, <2>1, <2>2
<1>8. CASE Graph!CreateRelation(c)
  <2>1. PICK p \in Graph!Pairs :
            Graph!Start(c, Graph!Sent([Graph!Request("relate", p[1], << >>, << >>)
                                            EXCEPT !.to = p[2]]))
    BY <1>8, Zenon DEF Graph!CreateRelation
  <2>2. p[1] \in Graph!Nodes /\ p[2] \in Graph!Nodes /\ << >> \in Seq(Graph!Built)
    BY <1>2 DEF Graph!Pairs
  <2>. QED
    BY <1>1, <2>1, <2>2
<1>9. CASE Graph!RemoveRelation(c)
  <2>1. PICK p \in Graph!Pairs :
            Graph!Start(c, Graph!Sent([Graph!Request("unrelate", p[1], << >>, << >>)
                                            EXCEPT !.to = p[2]]))
    BY <1>9, Zenon DEF Graph!RemoveRelation
  <2>2. p[1] \in Graph!Nodes /\ p[2] \in Graph!Nodes /\ << >> \in Seq(Graph!Built)
    BY <1>2 DEF Graph!Pairs
  <2>. QED
    BY <1>1, <2>1, <2>2
<1>. QED
  BY <1>4, <1>5, <1>6, <1>7, <1>8, <1>9

(* A call that goes on, fails or is answered.                              *)
LEMMA GraphMoves ==
    ASSUME Graph!GraphInv(Graphs), NEW c \in Tasks, NEW b,
           askers' = [askers EXCEPT ![c] = b], UNCHANGED << query, steps >>,
           made' \in Seq(Graph!Relation), Later(made, made'), AskerKept(b, made'),
           \A i \in DOMAIN made' :
              ~made'[i].there => << made'[i].from, made'[i].to >> \in removals'
    PROVE  Graph!GraphInv(Graphs)'
<1>1. DOMAIN askers = Tasks /\ \A d \in Tasks : AskerKept(askers[d], made)
  BY GraphInvIs
<1>2. DOMAIN askers' = Tasks
      /\ \A d \in Tasks : askers'[d] = IF d = c THEN b ELSE askers[d]
  BY <1>1
<1>3. \A d \in Tasks : AskerKept(askers'[d], made')
  BY <1>1, <1>2, OthersKept
<1>4. Graph!Leads(query', steps', Graphs)
  BY GraphInvIs
<1>. QED
  BY <1>2, <1>3, <1>4, GraphInvIsNext

(* What the server does leaves a graph, and drops and brings back nothing. *)
LEMMA GraphServes ==
    ASSUME Graph!GraphInv(Graphs), NEW c \in Tasks, Graph!Serve(c)
    PROVE  Graph!GraphInv(Graphs)'
<1>. DEFINE a == askers[c]
            r == a.request
<1>1. /\ made \in Seq(Graph!Relation)
      /\ \A i \in DOMAIN made :
            ~made[i].there => << made[i].from, made[i].to >> \in removals
      /\ DOMAIN askers = Tasks /\ AskerKept(a, made)
  BY GraphInvIs
<1>2. a.at = "sent" /\ UNCHANGED << query, steps >>
  BY DEF Graph!Serve
<1>3. DOMAIN a = AskerFields /\ Graph!Leads(a.query, a.steps, Graphs) /\ Graph!Asks(a)
  BY <1>1, <1>2 DEF AskerKept
<1>4. \A i \in DOMAIN made : made[i] \in Graph!Relation
  BY <1>1
<1>. DEFINE Told(answer) == [a EXCEPT !.at = "returned", !.answer = answer, !.seen = made]
<1>5. ASSUME NEW answer, Graph!Told(c, answer)
      PROVE  \/ askers' = [askers EXCEPT ![c] = Told(answer)]
             \/ askers' = [askers EXCEPT ![c] = Graph!Idle]
  BY <1>5 DEF Graph!Told
<1>6. \A answer : LET b == Told(answer) IN
        /\ b.at = "returned" /\ DOMAIN b = AskerFields /\ b.answer = answer
        /\ b.seen = made /\ b.request = r /\ b.query = a.query
        /\ b.steps = a.steps /\ b.executed = a.executed
  BY <1>3 DEF AskerFields
<1>7. \A answer, graph : Graph!Answered(Told(answer), graph) => AskerKept(Told(answer), graph)
  <2>. SUFFICES ASSUME NEW answer, NEW graph, Graph!Answered(Told(answer), graph)
                PROVE  AskerKept(Told(answer), graph)
    OBVIOUS
  <2>. DEFINE b == Told(answer)
  <2>1. /\ b.at = "returned" /\ DOMAIN b = AskerFields /\ b.request = r
        /\ b.query = a.query /\ b.steps = a.steps /\ b.executed = a.executed
    BY <1>6
  <2>. HIDE DEF b
  <2>2. Graph!Asks(b)
    BY <1>3, <2>1 DEF Graph!Asks
  <2>3. Graph!Answered(b, graph)
    BY DEF b
  <2>4. AskerKept(b, graph)
    BY <1>3, <2>1, <2>2, <2>3 DEF AskerKept
  <2>. QED
    BY <2>4 DEF b
<1>8. \A graph : AskerKept(Graph!Idle, graph)
  BY DEF AskerKept, Graph!Idle
<1>. HIDE DEF Told, a
<1>9. CASE Graph!Read(c, r)
  <2>1. PICK answer \in Graph!Answers(made, r) : Graph!Told(c, answer)
    BY <1>9 DEF Graph!Read
  <2>2. UNCHANGED << made, removals >> /\ r.kind \in {"select", "count"}
    BY <1>9 DEF Graph!Read
  <2>3. Later(made, made')
    BY <2>2 DEF Later
  <2>4. Graph!Answered(Told(answer), made')
    BY <1>1, <1>6, <2>1, <2>2 DEF Graph!Answered
  <2>5. AskerKept(Told(answer), made')
    BY <1>7, <2>4
  <2>6. PICK b : askers' = [askers EXCEPT ![c] = b] /\ AskerKept(b, made')
    BY <1>5, <1>8, <2>1, <2>5
  <2>7. /\ made' \in Seq(Graph!Relation)
        /\ \A i \in DOMAIN made' :
              ~made'[i].there => << made'[i].from, made'[i].to >> \in removals'
    BY <1>1, <2>2
  <2>. QED
    BY <1>2, <2>3, <2>6, <2>7, GraphMoves
<1>10. CASE Graph!Relate(c, r)
  <2>. DEFINE edge == [from |-> r.from, to |-> r.to, there |-> TRUE]
              answer == Graph!Answer({}, 0)
  <2>1. /\ made' = Append(made, edge) /\ Graph!Told(c, answer)
        /\ removals' = removals /\ r.kind = "relate"
    BY <1>10 DEF Graph!Relate
  <2>2. r.from \in Graph!Nodes /\ r.to \in Graph!Nodes
    <3>1. ~a.executed
      <4>1. /\ Graph!ToSurql(a.query).kind = "select"
            /\ Graph!Count(a.query).kind = "count"
        BY DEF Graph!ToSurql, Graph!Count, Graph!Request
      <4>2. a.executed => r \in {Graph!ToSurql(a.query), Graph!Count(a.query)}
        BY <1>3 DEF Graph!Asks
      <4>. QED
        BY <2>1, <4>1, <4>2
    <3>. QED
      BY <1>3, <2>1, <3>1 DEF Graph!Asks
  <2>3. edge \in Graph!Relation /\ edge.there
    BY <2>2 DEF Graph!Relation
  <2>. HIDE DEF edge, answer
  <2>4. /\ made' \in Seq(Graph!Relation) /\ DOMAIN made' = 1 .. Len(made) + 1
        /\ made'[Len(made) + 1] = edge /\ DOMAIN made = 1 .. Len(made)
        /\ Len(made) \in Nat
        /\ \A i \in 1 .. Len(made) : made'[i] = made[i]
    BY <1>1, <2>1, <2>3, AppendProperties
  <2>5. Later(made, made')
    BY <2>4 DEF Later
  <2>6. Graph!Answered(Told(answer), made')
    BY <1>1, <1>6, <2>1 DEF Graph!Answered
  <2>7. AskerKept(Told(answer), made')
    BY <1>7, <2>6
  <2>8. PICK b : askers' = [askers EXCEPT ![c] = b] /\ AskerKept(b, made')
    BY <1>5, <1>8, <2>1, <2>7
  <2>9. \A i \in DOMAIN made' :
              ~made'[i].there => << made'[i].from, made'[i].to >> \in removals'
    <3>. SUFFICES ASSUME NEW i \in DOMAIN made', ~made'[i].there
                  PROVE  << made'[i].from, made'[i].to >> \in removals'
      OBVIOUS
    <3>1. i # Len(made) + 1
      BY <2>3, <2>4
    <3>2. i \in DOMAIN made
      BY <2>4, <3>1
    <3>. QED
      BY <1>1, <2>1, <2>4, <3>2
  <2>. QED
    BY <1>2, <2>4, <2>5, <2>8, <2>9, GraphMoves
<1>11. CASE Graph!Unrelate(c, r)
  <2>. DEFINE answer == Graph!Answer({}, 0)
  <2>1. /\ made' = [i \in DOMAIN made |->
                        [made[i] EXCEPT !.there = @ /\ ~Graph!Removes(r, made[i])]]
        /\ removals' = removals \cup {<< r.from, r.to >>}
        /\ Graph!Told(c, answer) /\ r.kind = "unrelate"
    BY <1>11 DEF Graph!Unrelate
  <2>. HIDE DEF answer
  <2>2. \A i \in DOMAIN made :
            /\ made'[i] \in Graph!Relation
            /\ made'[i].from = made[i].from /\ made'[i].to = made[i].to
            /\ made'[i].there <=> made[i].there /\ ~Graph!Removes(r, made[i])
    BY <1>4, <2>1 DEF Graph!Relation
  <2>3. made' \in Seq(Graph!Relation) /\ DOMAIN made' = DOMAIN made
    <3>1. DOMAIN made = 1 .. Len(made) /\ Len(made) \in Nat
      BY <1>1
    <3>2. made' \in [1 .. Len(made) -> Graph!Relation]
      BY <2>1, <2>2, <3>1
    <3>. QED
      BY <3>1, <3>2
  <2>4. Later(made, made')
    BY <2>2, <2>3 DEF Later
  <2>5. \A i \in DOMAIN made : Graph!Removes(r, made'[i]) => ~made'[i].there
    BY <2>2 DEF Graph!Removes
  <2>6. Graph!Answered(Told(answer), made')
    BY <1>1, <1>6, <2>1, <2>3, <2>5 DEF Graph!Answered
  <2>7. AskerKept(Told(answer), made')
    BY <1>7, <2>6
  <2>8. PICK b : askers' = [askers EXCEPT ![c] = b] /\ AskerKept(b, made')
    BY <1>5, <1>8, <2>1, <2>7
  <2>9. \A i \in DOMAIN made' :
              ~made'[i].there => << made'[i].from, made'[i].to >> \in removals'
    <3>. SUFFICES ASSUME NEW i \in DOMAIN made, ~made'[i].there
                  PROVE  << made'[i].from, made'[i].to >> \in removals'
      BY <2>3
    <3>1. CASE ~made[i].there
      BY <1>1, <2>1, <2>2, <3>1
    <3>2. CASE Graph!Removes(r, made[i])
      <4>1. made'[i].from = r.from /\ made'[i].to = r.to
        BY <2>2, <3>2 DEF Graph!Removes
      <4>. QED
        BY <2>1, <4>1
    <3>. QED
      BY <2>2, <3>1, <3>2
  <2>. QED
    BY <1>2, <2>3, <2>4, <2>8, <2>9, GraphMoves
<1>. QED
  BY <1>9, <1>10, <1>11 DEF Graph!Serve, a

(* No step leaves the invariant.                                           *)
LEMMA GraphStep ==
    ASSUME Graph!GraphInv(Graphs), Graph!Next
    PROVE  Graph!GraphInv(Graphs)'
<1>1. CASE \/ Graph!Traverse \/ Graph!To \/ Graph!Where \/ Graph!Limit
           \/ Graph!Fetch
  BY <1>1, GraphBuilds
<1>2. ASSUME NEW c \in Tasks,
             \/ Graph!Execute(c) \/ Graph!TraverseWithDepth(c) \/ Graph!GetEdges(c)
             \/ Graph!CountRelated(c) \/ Graph!CreateRelation(c)
             \/ Graph!RemoveRelation(c)
      PROVE  Graph!GraphInv(Graphs)'
  BY <1>2, GraphCalls
<1>3. ASSUME NEW c \in Tasks, Graph!Serve(c)
      PROVE  Graph!GraphInv(Graphs)'
  BY <1>3, GraphServes
<1>4. /\ made \in Seq(Graph!Relation)
      /\ \A i \in DOMAIN made :
            ~made[i].there => << made[i].from, made[i].to >> \in removals
      /\ DOMAIN askers = Tasks
      /\ \A c \in Tasks : AskerKept(askers[c], made)
  BY GraphInvIs
<1>5. Later(made, made)
  BY DEF Later
<1>6. ASSUME NEW c \in Tasks, Graph!Connected(c) \/ Graph!Fail(c)
      PROVE  Graph!GraphInv(Graphs)'
  <2>1. UNCHANGED << made, query, steps, removals >>
    BY <1>6 DEF Graph!Connected, Graph!Fail
  <2>2. PICK b : askers' = [askers EXCEPT ![c] = b] /\ AskerKept(b, made)
    <3>1. CASE Graph!Fail(c)
      <4>1. AskerKept(Graph!Idle, made)
        BY DEF AskerKept, Graph!Idle
      <4>. QED
        BY <3>1, <4>1 DEF Graph!Fail
    <3>2. CASE Graph!Connected(c)
      <4>. DEFINE a == askers[c]
                  b == [a EXCEPT !.at = "sent"]
      <4>1. a.at = "connecting" /\ askers' = [askers EXCEPT ![c] = b]
        BY <3>2 DEF Graph!Connected
      <4>2. /\ DOMAIN a = AskerFields /\ Graph!Leads(a.query, a.steps, Graphs)
            /\ Graph!Asks(a)
        BY <1>4, <4>1 DEF AskerKept
      <4>3. /\ b.at = "sent" /\ DOMAIN b = AskerFields /\ b.request = a.request
            /\ b.query = a.query /\ b.steps = a.steps /\ b.executed = a.executed
        BY <4>2 DEF AskerFields
      <4>. HIDE DEF a, b
      <4>4. Graph!Asks(b)
        BY <4>2, <4>3 DEF Graph!Asks
      <4>5. AskerKept(b, made)
        BY <4>2, <4>3, <4>4 DEF AskerKept
      <4>. QED
        BY <4>1, <4>5
    <3>. QED
      BY <1>6, <3>1, <3>2
  <2>. QED
    BY <1>4, <1>5, <2>1, <2>2, GraphMoves
<1>. QED
  BY <1>1, <1>2, <1>3, <1>6, Zenon DEF Graph!Next

(* The rows of a request are finitely many.                                *)
LEMMA RowsFinite ==
    ASSUME NEW a, Graph!Leads(a.query, a.steps, Graphs), Graph!Asks(a),
           NEW graph \in Graphs
    PROVE  IsFiniteSet(Graph!Rows(graph, a.request))
<1>. DEFINE r == a.request
            q == a.query
<1>1. r.from \in Graph!Nodes /\ r.path \in Seq(PathSteps)
  <2>1. Graph!Built \subseteq PathSteps
    BY DEF Graph!Built, PathSteps, Arrows
  <2>2. CASE a.executed
    <3>1. /\ q.path \in Seq(PathSteps) /\ q.target \in {"none", "node", "other"}
      BY <2>1, LeadsIs
    <3>2. Graph!FullPath(q) \in Seq(PathSteps)
      <4>1. CASE q.target = "none"
        BY <3>1, <4>1, ConcatEmptySeq DEF Graph!FullPath
      <4>2. CASE q.target # "none"
        <5>1. Graph!Step("->", q.target) \in PathSteps
          BY <3>1, <4>2 DEF Graph!Step, PathSteps, Arrows
        <5>2. << Graph!Step("->", q.target) >> \in Seq(PathSteps)
          BY <5>1
        <5>3. q.path \o << Graph!Step("->", q.target) >> \in Seq(PathSteps)
          BY <3>1, <5>2, ConcatProperties
        <5>. QED
          BY <4>2, <5>3 DEF Graph!FullPath
      <4>. QED
        BY <4>1, <4>2
    <3>3. r = Graph!ToSurql(q) \/ r = Graph!Count(q)
      BY <2>2 DEF Graph!Asks
    <3>4. r.from = "a" /\ r.path = Graph!FullPath(q)
      <4>1. CASE r = Graph!ToSurql(q)
        BY <4>1 DEF Graph!ToSurql, Graph!Request
      <4>2. CASE r = Graph!Count(q)
        BY <4>2 DEF Graph!Count, Graph!Request
      <4>. QED
        BY <3>3, <4>1, <4>2
    <3>. QED
      BY <3>2, <3>4 DEF Graph!Nodes
  <2>3. CASE ~a.executed
    BY <2>1, <2>3 DEF Graph!Asks
  <2>. QED
    BY <2>2, <2>3
<1>. HIDE DEF r
<1>2. IsFiniteSet(Graph!Walks(graph, r.from, r.path))
  BY <1>1, WalksAre DEF Graphs
<1>3. Graph!Rows(graph, r) \in SUBSET Graph!Walks(graph, r.from, r.path)
  BY DEF Graph!Rows
<1>4. IsFiniteSet(Graph!Rows(graph, r))
  BY <1>2, <1>3, FS_Subset
<1>. QED
  BY <1>4 DEF r

(* What a SELECT may be answered with.                                     *)
LEMMA SelectAnswers ==
    ASSUME NEW graph, NEW r, r.kind = "select",
           NEW answer \in Graph!Answers(graph, r)
    PROVE  LET hits == Graph!Rows(graph, r) IN
           /\ r.limit = 0 \/ hits = {} => answer.rows = {}
           /\ r.limit = 1 /\ hits # {} => \E w \in hits : answer.rows = {w}
           /\ r.limit \notin {0, 1} => answer.rows = hits
<1>. DEFINE hits == Graph!Rows(graph, r)
            none == {Graph!Answer({}, 0)}
            one == {Graph!Answer({w}, 0) : w \in hits}
            all == {Graph!Answer(hits, 0)}
<1>1. answer \in (IF r.limit = 0 \/ hits = {} THEN none
                  ELSE IF r.limit = 1 THEN one ELSE all)
  BY DEF Graph!Answers
<1>2. \A S : Graph!Answer(S, 0).rows = S
  BY DEF Graph!Answer
<1>. HIDE DEF hits
<1>3. answer \in none => answer.rows = {}
  BY <1>2
<1>4. answer \in one => \E w \in hits : answer.rows = {w}
  BY <1>2
<1>5. answer \in all => answer.rows = hits
  BY <1>2
<1>. HIDE DEF none, one, all
<1>6. /\ r.limit = 0 \/ hits = {} => answer \in none
      /\ r.limit = 1 /\ hits # {} => answer \in one
      /\ r.limit \notin {0, 1} => answer \in all \/ hits = {}
  BY <1>1
<1>. QED
  BY <1>3, <1>4, <1>5, <1>6 DEF hits

(* Cardinality is the same here.                                           *)
LEMMA SameSize == \A S : Graph!Cardinality(S) = Cardinality(S)
BY Zenon DEF Graph!Cardinality, Cardinality, Graph!IsFiniteSet, IsFiniteSet

(* What a returned call has kept.                                          *)
LEMMA ReturnedIs ==
    ASSUME Graph!GraphInv(Graphs), NEW c \in Tasks, askers[c].at = "returned"
    PROVE  LET a == askers[c] IN
           /\ Graph!Leads(a.query, a.steps, Graphs) /\ Graph!Asks(a)
           /\ a.seen \in Graphs
           /\ a.request.kind \in {"select", "count"} =>
                /\ a.answer \in Graph!Answers(a.seen, a.request)
                /\ IsFiniteSet(Graph!Rows(a.seen, a.request))
           /\ a.request.kind = "unrelate" =>
                \A i \in DOMAIN a.seen :
                    Graph!Removes(a.request, made[i]) => ~made[i].there
<1>. DEFINE a == askers[c]
<1>1. AskerKept(a, made) /\ a.at = "returned"
  BY GraphInvIs
<1>. HIDE DEF a
<1>2. Graph!Leads(a.query, a.steps, Graphs) /\ Graph!Asks(a) /\ Graph!Answered(a, made)
  BY <1>1 DEF AskerKept
<1>3. a.seen \in Graphs
  BY <1>2 DEF Graph!Answered, Graphs
<1>4. IsFiniteSet(Graph!Rows(a.seen, a.request))
  BY <1>2, <1>3, RowsFinite
<1>. QED
  BY <1>2, <1>3, <1>4 DEF Graph!Answered, a

(* The walks that a query of deep steps answers with end where these lead. *)
LEMMA GraphReaches ==
    ASSUME Graph!GraphInv(Graphs)
    PROVE  Graph!HopsReached
<1>. SUFFICES ASSUME NEW c \in Tasks,
                     askers[c].at = "returned", askers[c].executed,
                     askers[c].request.kind = "select", Graph!Deep(askers[c])
              PROVE  LET a == askers[c]
                         found == {Graph!Last(w) : w \in a.answer.rows}
                         wanted == Graph!HopsFrom(a.seen, a.steps) \cap
                            (IF a.query.where = << >> THEN Graph!Nodes
                                                      ELSE Graph!MarkedNodes)
                     IN  IF a.query.limit = Graph!NoLimit THEN found = wanted
                         ELSE /\ found \subseteq wanted
                              /\ Graph!Cardinality(a.answer.rows) <= a.query.limit
  BY Zenon DEF Graph!HopsReached
<1>. DEFINE a == askers[c]
            q == a.query
            r == a.request
            hits == Graph!Rows(a.seen, r)
            walks == Graph!Walks(a.seen, "a", q.path)
            wanted == Graph!HopsFrom(a.seen, a.steps) \cap
                            (IF q.where = << >> THEN Graph!Nodes
                                                ELSE Graph!MarkedNodes)
            ends(W) == {Graph!Last(w) : w \in W}
<1>1. /\ Graph!Leads(q, a.steps, Graphs) /\ Graph!Asks(a) /\ a.seen \in Graphs
      /\ a.answer \in Graph!Answers(a.seen, r) /\ r.kind = "select"
      /\ a.executed /\ Graph!Deep(a)
  BY ReturnedIs
<1>. HIDE DEF a
<1>2. /\ q.path \in Seq(Graph!Built) /\ q.where \in Seq({"marked"})
      /\ q.limit \in {0, 1, Graph!NoLimit}
      /\ (\A i \in DOMAIN a.steps : a.steps[i].depth # 1) =>
            \A graph \in Graphs :
                /\ \A w \in Graph!Walks(graph, "a", q.path) : Graph!OnNode(w)
                /\ {Graph!Last(w) : w \in Graph!Walks(graph, "a", q.path)} =
                    Graph!HopsFrom(graph, a.steps)
  BY <1>1, LeadsIs
<1>3. q.target = "none" /\ \A i \in DOMAIN a.steps : a.steps[i].depth # 1
  BY <1>1 DEF Graph!Deep
<1>4. /\ r.from = "a" /\ r.path = q.path /\ r.where = q.where /\ r.limit = q.limit
  <2>1. r = Graph!ToSurql(q) \/ r = Graph!Count(q)
    BY <1>1 DEF Graph!Asks
  <2>2. r = Graph!ToSurql(q)
    <3>1. Graph!Count(q).kind = "count"
      BY DEF Graph!Count, Graph!Request
    <3>. QED
      BY <1>1, <2>1, <3>1
  <2>3. Graph!FullPath(q) = q.path
    BY <1>2, <1>3, ConcatEmptySeq DEF Graph!FullPath
  <2>. QED
    BY <2>2, <2>3 DEF Graph!ToSurql, Graph!Request
<1>5. /\ \A w \in walks : Graph!OnNode(w) /\ Graph!Last(w) \in Graph!Nodes
      /\ ends(walks) = Graph!HopsFrom(a.seen, a.steps)
  <2>1. /\ \A w \in walks : Graph!OnNode(w)
        /\ ends(walks) = Graph!HopsFrom(a.seen, a.steps)
    BY <1>1, <1>2, <1>3
  <2>2. \A w \in walks : WalkIn(a.seen, w)
    <3>1. Graph!Built \subseteq PathSteps
      BY DEF Graph!Built, PathSteps, Arrows
    <3>2. q.path \in Seq(PathSteps) /\ "a" \in Graph!Nodes
      BY <1>2, <3>1 DEF Graph!Nodes
    <3>. QED
      BY <1>1, <3>2, WalksAre DEF Graphs
  <2>3. \A w \in walks : Graph!Last(w) \in Graph!Nodes
    BY <2>1, <2>2 DEF WalkIn
  <2>. QED
    BY <2>1, <2>3
<1>6. hits = {w \in walks : q.where # << >> => Graph!Last(w) \in Graph!MarkedNodes}
  <2>1. hits = {w \in walks : Graph!Meets(w, q.where)}
    BY <1>4 DEF Graph!Rows
  <2>2. \A w \in walks : Graph!Meets(w, q.where) <=>
            (q.where # << >> => Graph!Last(w) \in Graph!MarkedNodes)
    BY <1>5 DEF Graph!Meets
  <2>. QED
    BY <2>1, <2>2
<1>7. ends(hits) = wanted
  <2>. HIDE DEF walks
  <2>. QED
    BY <1>5, <1>6
<1>. HIDE DEF hits, wanted, walks
<1>8. /\ q.limit = 0 \/ hits = {} => a.answer.rows = {}
      /\ q.limit = 1 /\ hits # {} => \E w \in hits : a.answer.rows = {w}
      /\ q.limit \notin {0, 1} => a.answer.rows = hits
  BY <1>1, <1>4, SelectAnswers DEF hits
<1>10. CASE q.limit = Graph!NoLimit
  <2>1. q.limit \notin {0, 1}
    BY <1>10 DEF Graph!NoLimit
  <2>2. a.answer.rows = hits
    BY <1>8, <2>1
  <2>. QED
    BY <1>7, <1>10, <2>2 DEF wanted, a
<1>11. CASE q.limit # Graph!NoLimit
  <2>1. q.limit \in {0, 1}
    BY <1>2, <1>11
  <2>2. a.answer.rows \subseteq hits /\ Cardinality(a.answer.rows) <= q.limit
    <3>1. Cardinality({}) = 0 /\ \A x : Cardinality({x}) = 1
      BY FS_EmptySet, FS_Singleton
    <3>2. \/ a.answer.rows = {}
          \/ q.limit = 1 /\ \E w \in hits : a.answer.rows = {w}
      BY <1>8, <2>1
    <3>3. CASE a.answer.rows = {}
      BY <2>1, <3>1, <3>3
    <3>4. CASE q.limit = 1 /\ \E w \in hits : a.answer.rows = {w}
      <4>1. PICK w \in hits : a.answer.rows = {w}
        BY <3>4
      <4>2. Cardinality(a.answer.rows) = 1
        BY <3>1, <4>1
      <4>. QED
        BY <3>4, <4>1, <4>2
    <3>. QED
      BY <3>2, <3>3, <3>4
  <2>3. ends(a.answer.rows) \subseteq wanted
    BY <1>7, <2>2
  <2>. QED
    BY <1>11, <2>2, <2>3, SameSize DEF wanted, a
<1>. QED
  BY <1>10, <1>11

(* A count is the number of rows that the same question has.               *)
LEMMA GraphCounts ==
    ASSUME Graph!GraphInv(Graphs)
    PROVE  Graph!CountTellsRows
<1>. SUFFICES ASSUME NEW c \in Tasks, NEW d \in Tasks,
                     askers[c].at = "returned", askers[c].request.kind = "count",
                     askers[d].at = "returned", askers[d].request.kind = "select",
                     askers[c].seen = askers[d].seen,
                     Graph!SameQuestion(askers[c], askers[d])
              PROVE  Graph!Cardinality(askers[d].answer.rows) =
                        IF /\ askers[d].query.limit # Graph!NoLimit
                           /\ askers[d].query.limit < askers[c].answer.count
                        THEN askers[d].query.limit ELSE askers[c].answer.count
  BY Zenon DEF Graph!CountTellsRows
<1>. DEFINE n == askers[c]
            r == askers[d]
            graph == n.seen
            hits == Graph!Rows(graph, n.request)
<1>1. /\ Graph!Leads(n.query, n.steps, Graphs) /\ Graph!Asks(n)
      /\ n.answer \in Graph!Answers(graph, n.request) /\ n.request.kind = "count"
      /\ IsFiniteSet(hits)
  BY ReturnedIs
<1>2. /\ Graph!Leads(r.query, r.steps, Graphs) /\ Graph!Asks(r)
      /\ r.answer \in Graph!Answers(graph, r.request) /\ r.request.kind = "select"
  BY ReturnedIs
<1>3. Graph!SameQuestion(n, r)
  OBVIOUS
<1>. HIDE DEF n, r, graph
<1>4. n.answer.count = Cardinality(hits)
  <2>1. n.answer = Graph!Answer({}, Graph!Cardinality(hits))
    BY <1>1 DEF Graph!Answers
  <2>. QED
    BY <2>1, SameSize DEF Graph!Answer
<1>5. ASSUME NEW a, Graph!Leads(a.query, a.steps, Graphs), Graph!Asks(a), a.executed
      PROVE  /\ a.request.from = "a" /\ a.request.path = Graph!FullPath(a.query)
             /\ a.request.where = a.query.where
             /\ a.request.kind = "select" => a.request.limit = a.query.limit
             /\ a.query.path # << >>
  <2>1. \/ a.request = Graph!ToSurql(a.query)
        \/ a.request = Graph!Count(a.query)
    BY <1>5 DEF Graph!Asks
  <2>2. a.query.path # << >>
    BY <1>5 DEF Graph!Asks
  <2>3. CASE a.request = Graph!ToSurql(a.query)
    BY <2>2, <2>3 DEF Graph!ToSurql, Graph!Request
  <2>4. CASE a.request = Graph!Count(a.query)
    BY <2>2, <2>4 DEF Graph!Count, Graph!Request
  <2>. QED
    BY <2>1, <2>3, <2>4
<1>6. ASSUME NEW a, Graph!Asks(a), ~a.executed
      PROVE  a.query = Graph!NewQuery /\ a.request.limit = Graph!NoLimit
  BY <1>6 DEF Graph!Asks
<1>7. /\ Graph!NewQuery.path = << >> /\ Graph!NewQuery.limit = Graph!NoLimit
  BY DEF Graph!NewQuery
<1>8. /\ r.request.from = n.request.from /\ r.request.path = n.request.path
      /\ r.request.where = n.request.where
      /\ r.request.limit = r.query.limit
  <2>1. CASE n.executed \/ r.executed
    <3>1. Graph!Unlimited(n.query) = Graph!Unlimited(r.query)
      BY <1>3, <2>1 DEF Graph!SameQuestion
    <3>2. DOMAIN n.query = QueryFields /\ DOMAIN r.query = QueryFields
      BY <1>1, <1>2, LeadsIs
    <3>3. /\ n.query.path = r.query.path /\ n.query.where = r.query.where
          /\ n.query.target = r.query.target
      <4>1. ASSUME NEW s, DOMAIN s = QueryFields
            PROVE  LET u == Graph!Unlimited(s) IN
                    u.path = s.path /\ u.where = s.where /\ u.target = s.target
        BY <4>1 DEF Graph!Unlimited, QueryFields
      <4>. QED
        BY <3>1, <3>2, <4>1
    <3>4. n.executed /\ r.executed
      BY <1>1, <1>2, <1>5, <1>6, <1>7, <2>1, <3>3
    <3>5. Graph!FullPath(n.query) = Graph!FullPath(r.query)
      BY <3>3 DEF Graph!FullPath
    <3>. QED
      BY <1>1, <1>2, <1>5, <3>3, <3>4, <3>5
  <2>2. CASE ~n.executed /\ ~r.executed
    BY <1>2, <1>3, <1>6, <1>7, <2>2 DEF Graph!SameQuestion
  <2>. QED
    BY <2>1, <2>2
<1>9. Graph!Rows(graph, r.request) = hits
  BY <1>8 DEF Graph!Rows
<1>. HIDE DEF hits
<1>10. /\ r.query.limit = 0 \/ hits = {} => r.answer.rows = {}
       /\ r.query.limit = 1 /\ hits # {} => \E w \in hits : r.answer.rows = {w}
       /\ r.query.limit \notin {0, 1} => r.answer.rows = hits
  BY <1>2, <1>8, <1>9, SelectAnswers
<1>12. r.query.limit \in {0, 1, Graph!NoLimit} /\ Graph!NoLimit \notin {0, 1}
  BY <1>2, LeadsIs DEF Graph!NoLimit
<1>13. /\ Cardinality(hits) \in Nat /\ Cardinality({}) = 0
       /\ Cardinality(hits) = 0 <=> hits = {}
       /\ \A x : Cardinality({x}) = 1
  BY <1>1, FS_CardinalityType, FS_EmptySet, FS_Singleton
<1>14. Cardinality(r.answer.rows) =
            IF r.query.limit # Graph!NoLimit /\ r.query.limit < Cardinality(hits)
            THEN r.query.limit ELSE Cardinality(hits)
  <2>. DEFINE size == Cardinality(hits)
  <2>1. size \in Nat /\ (size = 0 <=> hits = {}) /\ Cardinality({}) = 0
    BY <1>13
  <2>2. CASE r.query.limit = 0 \/ hits = {}
    <3>1. r.answer.rows = {}
      BY <1>10, <2>2
    <3>2. Cardinality(r.answer.rows) = 0
      BY <2>1, <3>1
    <3>. HIDE DEF size
    <3>3. IF r.query.limit # Graph!NoLimit /\ r.query.limit < size
          THEN r.query.limit = 0 ELSE size = 0
      BY <1>12, <2>1, <2>2
    <3>. QED
      BY <3>2, <3>3 DEF size
  <2>3. CASE hits # {} /\ r.query.limit = 1
    <3>1. PICK w \in hits : r.answer.rows = {w}
      BY <1>10, <2>3
    <3>2. Cardinality(r.answer.rows) = 1
      BY <1>13, <3>1
    <3>. HIDE DEF size
    <3>3. IF r.query.limit # Graph!NoLimit /\ r.query.limit < size
          THEN r.query.limit = 1 ELSE size = 1
      BY <1>12, <2>1, <2>3
    <3>. QED
      BY <3>2, <3>3 DEF size
  <2>4. CASE hits # {} /\ r.query.limit = Graph!NoLimit
    <3>1. r.answer.rows = hits
      BY <1>10, <1>12, <2>4
    <3>. QED
      BY <2>4, <3>1
  <2>. QED
    BY <1>12, <2>2, <2>3, <2>4
<1>. QED
  BY <1>4, <1>14, SameSize DEF n, r

(* What is not there was removed, and what was removed is not there.       *)
LEMMA GraphRemoves ==
    ASSUME Graph!GraphInv(Graphs)
    PROVE  Graph!RemovedIsGone
<1>1. \A i \in DOMAIN made :
        ~made[i].there => << made[i].from, made[i].to >> \in removals
  BY GraphInvIs
<1>2. \A c \in Tasks :
        askers[c].at = "returned" /\ askers[c].request.kind = "unrelate" =>
            \A i \in DOMAIN askers[c].seen :
                Graph!Removes(askers[c].request, made[i]) => ~made[i].there
  BY ReturnedIs
<1>. QED
  BY <1>1, <1>2, Zenon DEF Graph!RemovedIsGone

(* As long as steps are called on a query, its path leads to the nodes     *)
(* that these are so many hops away, in every graph; a call keeps the      *)
(* query that it was made on, and what it was told stays true of the graph *)
(* that was seen (graph.ts, graphQuery.ts).                                *)
THEOREM GraphInvariant == Spec => []Graph!GraphInv(Graphs)
<1>1. Init => Graph!GraphInv(Graphs)
  BY GraphInitially DEF Init
<1>2. Graph!GraphInv(Graphs) /\ [Next]_vars => Graph!GraphInv(Graphs)'
  <2>. SUFFICES ASSUME Graph!GraphInv(Graphs), [Next]_vars
                PROVE  Graph!GraphInv(Graphs)'
    OBVIOUS
  <2>1. CASE Graph!Next
    BY <2>1, GraphStep
  <2>2. CASE UNCHANGED graphVars
    <3>1. /\ made' = made /\ query' = query /\ steps' = steps
          /\ askers' = askers /\ removals' = removals
      BY <2>2 DEF graphVars
    <3>. QED
      BY <3>1, GraphInvIs, GraphInvIsNext, SMT
  <2>. QED
    BY <2>1, <2>2, OnePartMoves
<1>. QED
  BY <1>1, <1>2, PTL DEF Spec

(* A query of deep steps answers the nodes that are so many hops away,     *)
(* however many steps are called and whatever is called on it meanwhile; a *)
(* count is the number of rows that the same question has in the same      *)
(* graph; and a removed relation is gone (graph.ts, graphQuery.ts).        *)
THEOREM GraphIsRight == Spec => []GraphHolds
<1>1. Graph!GraphInv(Graphs) => GraphHolds
  BY GraphReaches, GraphCounts, GraphRemoves, Zenon DEF GraphHolds
<1>. QED
  BY <1>1, GraphInvariant, PTL

=============================================================================
