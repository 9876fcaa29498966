-------------------------- MODULE TaskLedgerProofs --------------------------
(***************************************************************************)
(* Theorems about TaskLedger, for all sets of writers, criteria,           *)
(* statements and interactions and all bounds.  The inductive invariant    *)
(* IndInv says the same thing (LedgerInv) of the committed ledger and of   *)
(* the working copy of apply_batch: an operation of a batch is only        *)
(* validated at the end, so what keeps a batch sound has to hold after     *)
(* every single operation.                                                 *)
(*                                                                         *)
(* The first part is about the core-constraint list: AddCore and           *)
(* SwapCoreLive keep at most two entries live and number the entries 1..n. *)
(* SwapCoreLive parks an entry, takes one out and puts one in, so the      *)
(* argument is about what the positions and the ids become under RemoveAt  *)
(* and InsertAt.                                                           *)
(***************************************************************************)
EXTENDS TaskLedger, SequenceTheorems, FiniteSetTheorems, WellFoundedInduction, TLAPS

-----------------------------------------------------------------------------
(* Sequences and ids *)

\* The number after the largest id is the next one when the ids are 1..n.
LEMMA NextIdAfterInterval ==
    ASSUME NEW n \in Nat
    PROVE  NextSequentialId(1..n) = n + 1
<1> DEFINE P(m) == \A k \in (1..n) \cup {0} : k <= m
<1>1. n \in (1..n) \cup {0} /\ P(n)
    OBVIOUS
<1>2. \A m \in (1..n) \cup {0} : P(m) => m = n
    OBVIOUS
<1>3. (CHOOSE m \in (1..n) \cup {0} : P(m)) = n
    BY <1>1, <1>2
<1> QED
    BY <1>3 DEF NextSequentialId

-----------------------------------------------------------------------------
(* Live entries *)

LivePositions(core) == {i \in DOMAIN core : core[i].live}

\* A list the operations keep: typed, ids 1..n, two live entries at most.
GoodCore(core) ==
    /\ core \in Seq(CoreConstraints)
    /\ CoreIds(core) = DOMAIN core
    /\ Cardinality(LivePositions(core)) <= 2

\* The live positions of a core are finitely many, so counting them makes sense.
LEMMA LiveFinite ==
    ASSUME NEW core \in Seq(CoreConstraints)
    PROVE  IsFiniteSet(LivePositions(core)) /\ Cardinality(LivePositions(core)) \in Nat
<1>1. LivePositions(core) \in SUBSET (1..Len(core)) /\ IsFiniteSet(1..Len(core))
    BY FS_Interval DEF LivePositions
<1>2. IsFiniteSet(LivePositions(core))
    BY <1>1, FS_Subset
<1> QED
    BY <1>2, FS_CardinalityType

\* Two elements at most, counted or named.
LEMMA AtMostTwo ==
    ASSUME NEW S, NEW a, NEW b, S \subseteq {a, b}
    PROVE  IsFiniteSet(S) /\ Cardinality(S) <= 2
<1>1. IsFiniteSet({a}) /\ Cardinality({a}) = 1
    BY FS_Singleton
<1>2. IsFiniteSet({a} \cup {b}) /\ Cardinality({a} \cup {b}) <= 2
    BY <1>1, FS_AddElement
<1>3. S \in SUBSET ({a} \cup {b})
    OBVIOUS
<1>4. IsFiniteSet(S) /\ Cardinality(S) <= Cardinality({a} \cup {b})
    BY <1>2, <1>3, FS_Subset
<1>5. Cardinality(S) \in Nat /\ Cardinality({a} \cup {b}) \in Nat
    BY <1>2, <1>4, FS_CardinalityType
<1> QED
    BY <1>2, <1>4, <1>5

\* Fewer than two live positions fit into a singleton.
LEMMA AtMostOneNamed ==
    ASSUME NEW S \in SUBSET Nat, IsFiniteSet(S), Cardinality(S) < 2
    PROVE  \E b \in Nat : S \subseteq {b}
<1>1. Cardinality(S) \in Nat
    BY FS_CardinalityType
<1>2. CASE Cardinality(S) = 0
    BY <1>2, FS_EmptySet
<1>3. CASE Cardinality(S) = 1
    BY <1>3, FS_Singleton
<1> QED
    BY <1>1, <1>2, <1>3

\* The k-th live entry exists when at least k of the at most two are live.
LEMMA LiveSlotExists ==
    ASSUME NEW S \in SUBSET Nat, IsFiniteSet(S), NEW k \in {1, 2},
           Cardinality(S) >= k, Cardinality(S) <= 2
    PROVE  \E i \in S : k = 1 + Cardinality({j \in S : j < i})
<1>1. Cardinality(S) \in Nat /\ Cardinality({}) = 0
    BY FS_CardinalityType, FS_EmptySet
<1>2. CASE Cardinality(S) = 1
  <2>1. PICK x : S = {x}
      BY <1>2, FS_Singleton
  <2>2. {j \in S : j < x} = {} /\ x \in S /\ k = 1
      BY <1>2, <2>1
  <2>3. Cardinality({j \in S : j < x}) = 0
      BY <1>1, <2>2
  <2> QED
      BY <2>2, <2>3
<1>3. CASE Cardinality(S) = 2
  <2>1. PICK a : a \in S
      BY <1>3, FS_EmptySet
  <2>2. IsFiniteSet(S \ {a}) /\ Cardinality(S \ {a}) = 1
      BY <1>3, <2>1, FS_RemoveElement
  <2>3. PICK b : S \ {a} = {b}
      BY <2>2, FS_Singleton
  <2>4. \E x, y \in S : S = {x, y} /\ x < y
    <3>1. S = {a, b} /\ a # b /\ a \in Nat /\ b \in Nat
        BY <2>1, <2>3
    <3>2. a < b \/ b < a
        BY <3>1
    <3>3. CASE a < b
        BY <3>1, <3>3
    <3>4. CASE b < a
        BY <3>1, <3>4
    <3> QED
        BY <3>2, <3>3, <3>4
  <2>5. PICK x \in S, y \in S : S = {x, y} /\ x < y
      BY <2>4
  <2>6. {j \in S : j < x} = {} /\ {j \in S : j < y} = {x}
      BY <2>5
  <2>7. Cardinality({x}) = 1
      BY FS_Singleton
  <2>8. /\ Cardinality({j \in S : j < x}) = 0
        /\ Cardinality({j \in S : j < y}) = 1
      BY <1>1, <2>6, <2>7
  <2>9. CASE k = 1
    <3>1. k = 1 + Cardinality({j \in S : j < x})
        BY <2>8, <2>9
    <3> QED
        BY <3>1
  <2>10. CASE k = 2
    <3>1. k = 1 + Cardinality({j \in S : j < y})
        BY <2>8, <2>10
    <3> QED
        BY <3>1
  <2> QED
      BY <2>9, <2>10
<1> QED
    BY <1>1, <1>2, <1>3

\* A non-empty set of positions has a least one.
LEMMA LeastPosition ==
    ASSUME NEW S \in SUBSET Nat, S # {}
    PROVE  \E i \in S : \A j \in S : i <= j
<1> DEFINE R == OpToRel(<, Nat)
<1>1. IsWellFoundedOn(R, Nat)
    BY NatLessThanWellFounded
<1>2. \A i, j \in Nat : i < j => <<i, j>> \in R
    BY DEF OpToRel
<1> HIDE DEF R
<1>3. \E i \in S : \A j \in S : ~(<<j, i>> \in R)
    BY <1>1, WFMin
<1>4. PICK i \in S : \A j \in S : ~(<<j, i>> \in R)
    BY <1>3
<1>5. \A j \in S : ~(j < i)
    BY <1>2, <1>4
<1>6. \A j \in S : i <= j
    BY <1>5
<1> QED
    BY <1>6

-----------------------------------------------------------------------------
(* Taking an entry out and putting one in *)

\* RemoveAt closes the gap it makes.
LEMMA RemoveAtProperties ==
    ASSUME NEW S, NEW s \in Seq(S), NEW i \in 1..Len(s)
    PROVE  /\ RemoveAt(s, i) \in Seq(S)
           /\ Len(RemoveAt(s, i)) = Len(s) - 1
           /\ \A j \in 1..(Len(s) - 1) : RemoveAt(s, i)[j] = IF j < i THEN s[j] ELSE s[j + 1]
<1> DEFINE a == SubSeq(s, 1, i - 1)
           b == SubSeq(s, i + 1, Len(s))
<1>1. a \in Seq(S) /\ Len(a) = i - 1 /\ \A j \in 1..(i - 1) : a[j] = s[j]
    OBVIOUS
<1>2. b \in Seq(S) /\ Len(b) = Len(s) - i /\ \A j \in 1..(Len(s) - i) : b[j] = s[i + j]
    OBVIOUS
<1>3. RemoveAt(s, i) = a \o b
    BY DEF RemoveAt
<1> HIDE DEF a, b
<1>4. a \o b \in Seq(S) /\ Len(a \o b) = Len(s) - 1
  <2>1. a \o b \in Seq(S) /\ Len(a \o b) = Len(a) + Len(b)
      BY <1>1, <1>2, ConcatProperties, Zenon
  <2> QED
      BY <1>1, <1>2, <2>1
<1>5. \A j \in 1..(Len(s) - 1) : (a \o b)[j] = IF j < i THEN s[j] ELSE s[j + 1]
  <2> SUFFICES ASSUME NEW j \in 1..(Len(s) - 1)
               PROVE  (a \o b)[j] = IF j < i THEN s[j] ELSE s[j + 1]
      OBVIOUS
  <2>1. CASE j < i
      BY <2>1, <1>1, <1>2
  <2>2. CASE ~(j < i)
    <3>1. (a \o b)[j] = b[j - (i - 1)]
        BY <2>2, <1>1, <1>2
    <3>2. b[j - (i - 1)] = s[j + 1]
        BY <2>2, <1>2
    <3> QED
        BY <2>2, <3>1, <3>2
  <2> QED
      BY <2>1, <2>2
<1> QED
    BY <1>3, <1>4, <1>5

\* InsertAt shifts the tail by one.
LEMMA InsertAtProperties ==
    ASSUME NEW S, NEW s \in Seq(S), NEW i \in 1..(Len(s) + 1), NEW e \in S
    PROVE  /\ InsertAt(s, i, e) \in Seq(S)
           /\ Len(InsertAt(s, i, e)) = Len(s) + 1
           /\ InsertAt(s, i, e)[i] = e
           /\ \A j \in 1..(i - 1) : InsertAt(s, i, e)[j] = s[j]
           /\ \A j \in (i + 1)..(Len(s) + 1) : InsertAt(s, i, e)[j] = s[j - 1]
<1> DEFINE a == SubSeq(s, 1, i - 1)
           m == <<e>>
           b == SubSeq(s, i, Len(s))
           c == a \o m
<1>1. a \in Seq(S) /\ Len(a) = i - 1 /\ \A j \in 1..(i - 1) : a[j] = s[j]
    OBVIOUS
<1>2. b \in Seq(S) /\ Len(b) = Len(s) - i + 1
      /\ \A j \in 1..(Len(s) - i + 1) : b[j] = s[i + j - 1]
    OBVIOUS
<1>3. m \in Seq(S) /\ Len(m) = 1 /\ m[1] = e
    OBVIOUS
<1>4. InsertAt(s, i, e) = c \o b
    BY DEF InsertAt
<1> HIDE DEF a, b, m
<1>5. c \in Seq(S) /\ Len(c) = i
  <2>1. c \in Seq(S) /\ Len(c) = Len(a) + Len(m)
      BY <1>1, <1>3, ConcatProperties, Zenon
  <2> QED
      BY <1>1, <1>3, <2>1
<1>6. \A j \in 1..i : c[j] = IF j < i THEN s[j] ELSE e
  <2> SUFFICES ASSUME NEW j \in 1..i
               PROVE  c[j] = IF j < i THEN s[j] ELSE e
      OBVIOUS
  <2>1. CASE j < i
    <3>1. (a \o m)[j] = a[j]
        BY <2>1, <1>1, <1>3
    <3> QED
        BY <2>1, <3>1, <1>1
  <2>2. CASE j = i
    <3>1. j - Len(a) = 1 /\ Len(a) \in Nat /\ j \in (Len(a) + 1)..(Len(a) + Len(m))
        BY <2>2, <1>1, <1>3
    <3>2. (a \o m)[j] = IF j <= Len(a) THEN a[j] ELSE m[j - Len(a)]
      <4>1. j \in 1..(Len(a) + Len(m))
          BY <3>1, <1>3
      <4> QED
          BY <4>1, <1>1, <1>3, ConcatProperties, Zenon
    <3> QED
        BY <2>2, <3>1, <3>2, <1>3
  <2>3. j < i \/ j = i
      OBVIOUS
  <2> QED
      BY <2>1, <2>2, <2>3
<1> HIDE DEF c
<1>7. c \o b \in Seq(S) /\ Len(c \o b) = Len(s) + 1
  <2>1. c \o b \in Seq(S) /\ Len(c \o b) = Len(c) + Len(b)
      BY <1>2, <1>5, ConcatProperties, Zenon
  <2> QED
      BY <1>2, <1>5, <2>1
<1>8. \A j \in 1..(Len(s) + 1) :
         (c \o b)[j] = IF j < i THEN s[j] ELSE IF j = i THEN e ELSE s[j - 1]
  <2> SUFFICES ASSUME NEW j \in 1..(Len(s) + 1)
               PROVE  (c \o b)[j] = IF j < i THEN s[j] ELSE IF j = i THEN e ELSE s[j - 1]
      OBVIOUS
  <2>1. CASE j <= i
      BY <2>1, <1>2, <1>5, <1>6
  <2>2. CASE ~(j <= i)
    <3>1. (c \o b)[j] = b[j - i]
        BY <2>2, <1>2, <1>5
    <3>2. b[j - i] = s[j - 1]
        BY <2>2, <1>2
    <3> QED
        BY <2>2, <3>1, <3>2
  <2> QED
      BY <2>1, <2>2
<1> DEFINE r == c \o b
<1>9. \A j \in 1..(Len(s) + 1) :
         r[j] = IF j < i THEN s[j] ELSE IF j = i THEN e ELSE s[j - 1]
    BY <1>8, Zenon
<1>10. InsertAt(s, i, e) = r /\ r \in Seq(S) /\ Len(r) = Len(s) + 1
    BY <1>4, <1>7, Zenon
<1> HIDE DEF r
<1>11. Len(s) \in Nat /\ i \in 1..(Len(s) + 1)
    OBVIOUS
<1>12. r[i] = e
    BY <1>9, <1>11
<1>13. \A j \in 1..(i - 1) : r[j] = s[j]
    BY <1>9, <1>11
<1>14. \A j \in (i + 1)..(Len(s) + 1) : r[j] = s[j - 1]
    BY <1>9, <1>11
<1> QED
    BY <1>10, <1>12, <1>13, <1>14, Zenon

\* Removing an entry from a core with at most one live entry (the remove of
\* swap_core_live) loses exactly its id and leaves at most one live entry.
LEMMA TakeOut ==
    ASSUME NEW core \in Seq(CoreConstraints), NEW i \in 1..Len(core), NEW b \in Nat,
           LivePositions(core) \subseteq {b}
    PROVE  /\ RemoveAt(core, i) \in Seq(CoreConstraints)
           /\ Len(RemoveAt(core, i)) = Len(core) - 1
           /\ CoreIds(RemoveAt(core, i)) \cup {core[i].id} = CoreIds(core)
           /\ \E d \in Nat : LivePositions(RemoveAt(core, i)) \subseteq {d}
<1> DEFINE r == RemoveAt(core, i)
           n == Len(core)
<1>1. /\ r \in Seq(CoreConstraints) /\ Len(r) = n - 1
      /\ \A j \in 1..(n - 1) : r[j] = IF j < i THEN core[j] ELSE core[j + 1]
    BY RemoveAtProperties
<1> HIDE DEF r
<1>2. DOMAIN r = 1..(n - 1) /\ DOMAIN core = 1..n /\ n \in Nat
    BY <1>1
<1>3. CoreIds(r) \cup {core[i].id} = CoreIds(core)
  <2>1. ASSUME NEW j \in 1..(n - 1)
        PROVE  \E k \in 1..n : r[j] = core[k]
    <3>1. CASE j < i
        BY <3>1, <1>1, <1>2
    <3>2. CASE ~(j < i)
        BY <3>2, <1>1, <1>2
    <3> QED
        BY <3>1, <3>2
  <2>2. ASSUME NEW k \in 1..n, k # i
        PROVE  \E j \in 1..(n - 1) : r[j] = core[k]
    <3>1. CASE k < i
        BY <3>1, <1>1, <1>2
    <3>2. CASE ~(k < i)
      <4>1. k - 1 \in 1..(n - 1) /\ ~(k - 1 < i) /\ (k - 1) + 1 = k
          BY <2>2, <3>2, <1>2
      <4>2. r[k - 1] = core[k]
          BY <4>1, <1>1
      <4> QED
          BY <4>1, <4>2
    <3> QED
        BY <3>1, <3>2
  <2>3. ASSUME NEW x \in CoreIds(r)
        PROVE  x \in CoreIds(core)
    <3>1. PICK j \in 1..(n - 1) : x = r[j].id
        BY <1>2 DEF CoreIds
    <3> QED
        BY <3>1, <2>1, <1>2 DEF CoreIds
  <2>4. ASSUME NEW x \in CoreIds(core), x # core[i].id
        PROVE  x \in CoreIds(r)
    <3>1. PICK k \in 1..n : x = core[k].id
        BY <1>2 DEF CoreIds
    <3>2. k # i
        BY <2>4, <3>1
    <3> QED
        BY <3>1, <3>2, <2>2, <1>2 DEF CoreIds
  <2>5. core[i].id \in CoreIds(core)
      BY <1>2 DEF CoreIds
  <2> QED
      BY <2>3, <2>4, <2>5
<1>4. \E d \in Nat : LivePositions(r) \subseteq {d}
  <2> DEFINE d == IF b < i THEN b ELSE b - 1
  <2>1. d \in Nat
      OBVIOUS
  <2>2. ASSUME NEW j \in 1..(n - 1), r[j].live
        PROVE  j = d
    <3>1. CASE j < i
      <4>1. core[j].live /\ j \in 1..n
          BY <2>2, <3>1, <1>1, <1>2
      <4> QED
          BY <4>1, <3>1, <1>2 DEF LivePositions
    <3>2. CASE ~(j < i)
      <4>1. core[j + 1].live /\ j + 1 \in 1..n
          BY <2>2, <3>2, <1>1, <1>2
      <4>2. j + 1 = b
          BY <4>1, <1>2 DEF LivePositions
      <4> QED
          BY <4>2, <3>2
    <3> QED
        BY <3>1, <3>2
  <2>3. LivePositions(r) \subseteq {d}
      BY <1>2, <2>2 DEF LivePositions
  <2> QED
      BY <2>1, <2>3
<1> QED
    BY <1>1, <1>3, <1>4 DEF r

\* Inserting an entry into a core with at most one live entry gains exactly its
\* id and leaves at most two live entries.
LEMMA PutIn ==
    ASSUME NEW core \in Seq(CoreConstraints), NEW at \in 1..(Len(core) + 1),
           NEW e \in CoreConstraints, NEW b \in Nat, LivePositions(core) \subseteq {b}
    PROVE  /\ InsertAt(core, at, e) \in Seq(CoreConstraints)
           /\ Len(InsertAt(core, at, e)) = Len(core) + 1
           /\ CoreIds(InsertAt(core, at, e)) = CoreIds(core) \cup {e.id}
           /\ Cardinality(LivePositions(InsertAt(core, at, e))) <= 2
<1> DEFINE r == InsertAt(core, at, e)
           n == Len(core)
<1>0. /\ r \in Seq(CoreConstraints) /\ Len(r) = n + 1 /\ r[at] = e
      /\ \A j \in 1..(at - 1) : r[j] = core[j]
      /\ \A j \in (at + 1)..(n + 1) : r[j] = core[j - 1]
    BY InsertAtProperties
<1> HIDE DEF r
<1>1. /\ r \in Seq(CoreConstraints) /\ Len(r) = n + 1
      /\ \A j \in 1..(n + 1) :
            r[j] = IF j < at THEN core[j] ELSE IF j = at THEN e ELSE core[j - 1]
    BY <1>0
<1>2. DOMAIN r = 1..(n + 1) /\ DOMAIN core = 1..n /\ n \in Nat
    BY <1>1
<1>3. CoreIds(r) = CoreIds(core) \cup {e.id}
  <2>1. ASSUME NEW j \in 1..(n + 1)
        PROVE  r[j] = e \/ \E k \in 1..n : r[j] = core[k]
    <3>1. CASE j < at
        BY <3>1, <1>1, <1>2
    <3>2. CASE j = at
        BY <3>2, <1>1
    <3>3. CASE j > at
      <4>1. j - 1 \in 1..n /\ r[j] = core[j - 1]
          BY <3>3, <1>1, <1>2
      <4> QED
          BY <4>1
    <3> QED
        BY <3>1, <3>2, <3>3
  <2>2. ASSUME NEW k \in 1..n
        PROVE  \E j \in 1..(n + 1) : r[j] = core[k]
    <3>1. CASE k < at
        BY <3>1, <1>1, <1>2
    <3>2. CASE ~(k < at)
      <4>1. k + 1 \in 1..(n + 1) /\ ~(k + 1 < at) /\ k + 1 # at /\ (k + 1) - 1 = k
          BY <3>2, <1>2
      <4>2. r[k + 1] = core[k]
          BY <4>1, <1>1
      <4> QED
          BY <4>1, <4>2
    <3> QED
        BY <3>1, <3>2
  <2>3. at \in 1..(n + 1) /\ r[at] = e
      BY <1>1
  <2>4. ASSUME NEW x \in CoreIds(r), x # e.id
        PROVE  x \in CoreIds(core)
    <3>1. PICK j \in 1..(n + 1) : x = r[j].id
        BY <1>2 DEF CoreIds
    <3>2. r[j] # e
        BY <2>4, <3>1
    <3> QED
        BY <3>1, <3>2, <2>1, <1>2 DEF CoreIds
  <2>5. ASSUME NEW x \in CoreIds(core)
        PROVE  x \in CoreIds(r)
    <3>1. PICK k \in 1..n : x = core[k].id
        BY <1>2 DEF CoreIds
    <3> QED
        BY <3>1, <2>2, <1>2 DEF CoreIds
  <2>6. e.id \in CoreIds(r)
      BY <2>3, <1>2 DEF CoreIds
  <2> QED
      BY <2>4, <2>5, <2>6
<1>4. Cardinality(LivePositions(r)) <= 2
  <2> DEFINE d == IF b < at THEN b ELSE b + 1
  <2>1. ASSUME NEW j \in 1..(n + 1), r[j].live, j # at
        PROVE  j = d
    <3>1. CASE j < at
      <4>1. core[j].live /\ j \in 1..n
          BY <2>1, <3>1, <1>1, <1>2
      <4> QED
          BY <4>1, <3>1, <1>2 DEF LivePositions
    <3>2. CASE ~(j < at)
      <4>1. core[j - 1].live /\ j - 1 \in 1..n
          BY <2>1, <3>2, <1>1, <1>2
      <4>2. j - 1 = b
          BY <4>1, <1>2 DEF LivePositions
      <4> QED
          BY <4>2, <3>2, <2>1
    <3> QED
        BY <3>1, <3>2
  <2>2. LivePositions(r) \subseteq {at, d}
      BY <1>2, <2>1 DEF LivePositions
  <2> QED
      BY <2>2, AtMostTwo
<1> QED
    BY <1>1, <1>3, <1>4 DEF r

-----------------------------------------------------------------------------
(* The two operations *)

\* Entries are numbered 1..n, so the next id is n + 1.
LEMMA NextCoreId ==
    ASSUME NEW core \in Seq(CoreConstraints), CoreIds(core) = DOMAIN core
    PROVE  NextSequentialId(CoreIds(core)) = Len(core) + 1
<1>1. CoreIds(core) = 1..Len(core) /\ Len(core) \in Nat
    OBVIOUS
<1> QED
    BY <1>1, NextIdAfterInterval

\* add_core keeps the two-slot limit and the ids 1..n.
LEMMA AddCoreGood ==
    ASSUME NEW L \in Ledgers, GoodCore(L.core), NEW s \in Statements, NEW live \in BOOLEAN,
           AddCoreOk(L, live)
    PROVE  GoodCore(AddCore(L, s, live).core)
<1> DEFINE core == L.core
           n    == Len(core)
           e    == [id |-> n + 1, statement |-> s, live |-> live]
           r    == Append(core, e)
<1>1. core \in Seq(CoreConstraints) /\ DOMAIN core = 1..n /\ n \in Nat
    BY DEF GoodCore
<1>2. e \in CoreConstraints /\ e.id = n + 1 /\ e.live = live
    BY <1>1 DEF CoreConstraints
<1>3. AddCore(L, s, live).core = r
    BY <1>1, NextCoreId DEF AddCore, GoodCore, Ledgers
<1> HIDE DEF e
<1>4. /\ r \in Seq(CoreConstraints) /\ DOMAIN r = 1..(n + 1)
      /\ r[n + 1] = e
      /\ \A i \in 1..n : r[i] = core[i]
    BY <1>1, <1>2
<1>5. \A i \in 1..(n + 1) : i = n + 1 \/ i \in 1..n
    BY <1>1
<1>6. CoreIds(r) = DOMAIN r
  <2>1. CoreIds(core) = 1..n
      BY <1>1 DEF GoodCore
  <2>2. ASSUME NEW x \in CoreIds(r)
        PROVE  x \in 1..(n + 1)
    <3>1. PICK i \in 1..(n + 1) : x = r[i].id
        BY <1>4 DEF CoreIds
    <3>2. CASE i = n + 1
        BY <3>1, <3>2, <1>1, <1>2, <1>4
    <3>3. CASE i \in 1..n
      <4>1. x \in CoreIds(core)
          BY <3>1, <3>3, <1>1, <1>4 DEF CoreIds
      <4> QED
          BY <4>1, <2>1, <1>1
    <3> QED
        BY <3>2, <3>3, <1>5
  <2>3. ASSUME NEW x \in 1..(n + 1)
        PROVE  x \in CoreIds(r)
    <3>1. CASE x = n + 1
      <4>1. n + 1 \in DOMAIN r /\ r[n + 1].id = x
          BY <3>1, <1>1, <1>2, <1>4
      <4> QED
          BY <4>1 DEF CoreIds
    <3>2. CASE x \in 1..n
      <4>1. PICK k \in 1..n : x = core[k].id
          BY <3>2, <2>1, <1>1 DEF CoreIds
      <4>2. k \in DOMAIN r /\ r[k].id = x
          BY <4>1, <1>1, <1>4
      <4> QED
          BY <4>2 DEF CoreIds
    <3> QED
        BY <3>1, <3>2, <1>5
  <2> QED
      BY <2>2, <2>3, <1>4
<1>7. Cardinality(LivePositions(r)) <= 2
  <2>1. CASE live
    <3>1. Cardinality(LivePositions(core)) < 2
        BY <2>1 DEF AddCoreOk, LiveCore, LivePositions
    <3>2. LivePositions(core) \in SUBSET Nat /\ IsFiniteSet(LivePositions(core))
        BY <1>1, LiveFinite DEF LivePositions
    <3>3. PICK b \in Nat : LivePositions(core) \subseteq {b}
        BY <3>1, <3>2, AtMostOneNamed
    <3>4. LivePositions(r) \subseteq {b, n + 1}
        BY <3>3, <1>1, <1>4, <1>5 DEF LivePositions
    <3> QED
        BY <3>4, AtMostTwo
  <2>2. CASE ~live
    <3>1. LivePositions(r) = LivePositions(core)
        BY <2>2, <1>1, <1>2, <1>4, <1>5 DEF LivePositions
    <3> QED
        BY <3>1 DEF GoodCore
  <2> QED
      BY <2>1, <2>2
<1> QED
    BY <1>3, <1>4, <1>6, <1>7 DEF GoodCore

\* Parking an entry changes its live flag only.
LEMMA ParkedEntry ==
    ASSUME NEW e \in CoreConstraints
    PROVE  /\ [e EXCEPT !.live = FALSE] \in CoreConstraints
           /\ [e EXCEPT !.live = FALSE].id = e.id
           /\ [e EXCEPT !.live = FALSE].statement = e.statement
           /\ [e EXCEPT !.live = FALSE].live = FALSE
BY DEF CoreConstraints

\* swap_core_live keeps the two-slot limit and the ids 1..n in each of its cases.
LEMMA SwapCoreLiveGood ==
    ASSUME NEW L \in Ledgers, GoodCore(L.core), NEW slot \in {1, 2}, NEW s \in Statements
    PROVE  GoodCore(SwapCoreLive(L, slot, s).core)
<1> DEFINE core     == L.core
           n        == Len(core)
           full     == Cardinality(LiveCore(L)) >= slot
           displ    == IF full THEN LiveSlot(L, slot) ELSE n + 1
           parked   == IF full THEN [core EXCEPT ![displ].live = FALSE] ELSE core
           same     == {i \in DOMAIN parked : parked[i].statement = s}
           existing == CHOOSE i \in same : \A j \in same : i <= j
           rest     == IF same = {} THEN parked ELSE RemoveAt(parked, existing)
           entry    == [id |-> IF same = {} THEN NextSequentialId(CoreIds(parked))
                                            ELSE parked[existing].id,
                        statement |-> s, live |-> TRUE]
           at       == IF displ <= Len(rest) + 1 THEN displ ELSE Len(rest) + 1
<1>1. /\ core \in Seq(CoreConstraints) /\ DOMAIN core = 1..n /\ n \in Nat
      /\ CoreIds(core) = 1..n
      /\ LiveCore(L) = LivePositions(core)
      /\ Cardinality(LivePositions(core)) <= 2
    BY DEF GoodCore, LiveCore, LivePositions
<1>2. /\ LivePositions(core) \in SUBSET Nat /\ IsFiniteSet(LivePositions(core))
      /\ LivePositions(core) \in SUBSET (1..n)
      /\ Cardinality(LivePositions(core)) \in Nat
    BY <1>1, LiveFinite DEF LivePositions
<1>3. SwapCoreLive(L, slot, s).core = InsertAt(rest, at, entry)
    BY DEF SwapCoreLive, Ledgers
<1>4. full => displ \in LivePositions(core)
  <2> SUFFICES ASSUME full
               PROVE  LiveSlot(L, slot) \in LivePositions(core)
      OBVIOUS
  <2>1. \E i \in LivePositions(core) :
           slot = 1 + Cardinality({j \in LivePositions(core) : j < i})
      BY <1>1, <1>2, LiveSlotExists
  <2> QED
      BY <2>1, <1>1 DEF LiveSlot
<1>5. displ \in 1..(n + 1)
    BY <1>1, <1>2, <1>4
<1> HIDE DEF displ
<1>6. /\ parked \in Seq(CoreConstraints) /\ Len(parked) = n /\ DOMAIN parked = 1..n
      /\ CoreIds(parked) = 1..n
      /\ \E b \in Nat : LivePositions(parked) \subseteq {b}
  <2>1. CASE ~full
    <3>1. Cardinality(LivePositions(core)) < 2
        BY <2>1, <1>1, <1>2
    <3> QED
        BY <2>1, <3>1, <1>1, <1>2, AtMostOneNamed
  <2>2. CASE full
    <3>1. displ \in 1..n /\ core[displ] \in CoreConstraints
        BY <2>2, <1>1, <1>2, <1>4
    <3> DEFINE pe == [core[displ] EXCEPT !.live = FALSE]
    <3>2. parked = [core EXCEPT ![displ] = pe]
        BY <2>2
    <3> HIDE DEF parked
    <3>8. pe \in CoreConstraints /\ pe.id = core[displ].id /\ pe.live = FALSE
        BY <3>1, ParkedEntry
    <3> HIDE DEF pe
    <3>3. /\ parked \in Seq(CoreConstraints) /\ Len(parked) = n /\ DOMAIN parked = 1..n
          /\ \A i \in 1..n : parked[i] = IF i = displ THEN pe ELSE core[i]
        BY <3>1, <3>2, <3>8, <1>1
    <3>4. \A i \in 1..n : /\ parked[i].id = core[i].id
                          /\ parked[i].live = IF i = displ THEN FALSE ELSE core[i].live
        BY <3>8, <3>3
    <3>5. CoreIds(parked) = CoreIds(core)
        BY <3>3, <3>4, <1>1 DEF CoreIds
    <3>6. LivePositions(parked) = LivePositions(core) \ {displ}
        BY <3>3, <3>4, <1>1 DEF LivePositions
    <3>7. IsFiniteSet(LivePositions(parked)) /\ Cardinality(LivePositions(parked)) < 2
      <4>1. /\ IsFiniteSet(LivePositions(core) \ {displ})
            /\ Cardinality(LivePositions(core) \ {displ}) = Cardinality(LivePositions(core)) - 1
          BY <2>2, <1>2, <1>4, FS_RemoveElement
      <4> QED
          BY <3>6, <4>1, <1>1, <1>2
    <3> QED
        BY <3>3, <3>5, <3>6, <3>7, <1>1, <1>2, AtMostOneNamed
  <2> QED
      BY <2>1, <2>2
<1> HIDE DEF parked
<1>7. PICK b \in Nat : LivePositions(parked) \subseteq {b}
    BY <1>6
<1>8. CASE same = {}
  <2>1. rest = parked /\ entry = [id |-> n + 1, statement |-> s, live |-> TRUE]
      BY <1>6, <1>8, NextCoreId
  <2> HIDE DEF rest, entry
  <2>2. entry \in CoreConstraints /\ entry.id = n + 1
      BY <2>1, <1>1 DEF CoreConstraints
  <2>3. at \in 1..(Len(rest) + 1)
      BY <2>1, <1>1, <1>5, <1>6
  <2> HIDE DEF at
  <2>4. rest \in Seq(CoreConstraints) /\ LivePositions(rest) \subseteq {b}
      BY <1>6, <1>7, <2>1
  <2>5. /\ InsertAt(rest, at, entry) \in Seq(CoreConstraints)
        /\ Len(InsertAt(rest, at, entry)) = Len(rest) + 1
        /\ CoreIds(InsertAt(rest, at, entry)) = CoreIds(rest) \cup {entry.id}
        /\ Cardinality(LivePositions(InsertAt(rest, at, entry))) <= 2
      BY <2>2, <2>3, <2>4, PutIn
  <2>6. CoreIds(rest) \cup {entry.id} = 1..(n + 1) /\ Len(rest) = n
      BY <1>1, <1>6, <2>1, <2>2
  <2>7. DOMAIN InsertAt(rest, at, entry) = 1..(n + 1)
      BY <2>5, <2>6
  <2> QED
      BY <1>3, <2>5, <2>6, <2>7 DEF GoodCore
<1>9. CASE same # {}
  <2>1. existing \in same
    <3>1. same \in SUBSET Nat
        BY <1>6
    <3>2. \E i \in same : \A j \in same : i <= j
        BY <3>1, <1>9, LeastPosition
    <3> QED
        BY <3>2
  <2> HIDE DEF existing
  <2>2. existing \in 1..n /\ parked[existing].id \in 1..n /\ n >= 1
    <3>1. existing \in 1..n
        BY <2>1, <1>6
    <3>2. parked[existing].id \in CoreIds(parked)
        BY <3>1, <1>6 DEF CoreIds
    <3> QED
        BY <3>1, <3>2, <1>1, <1>6
  <2>3. rest = RemoveAt(parked, existing)
      BY <1>9
  <2>4. entry \in CoreConstraints /\ entry.id = parked[existing].id
    <3>1. entry = [id |-> parked[existing].id, statement |-> s, live |-> TRUE]
        BY <1>9
    <3> HIDE DEF entry
    <3>2. parked[existing].id \in Nat
        BY <2>2
    <3> QED
        BY <3>1, <3>2 DEF CoreConstraints
  <2>5. /\ rest \in Seq(CoreConstraints) /\ Len(rest) = n - 1
        /\ CoreIds(rest) \cup {entry.id} = 1..n
        /\ \E d \in Nat : LivePositions(rest) \subseteq {d}
      BY <2>2, <2>3, <2>4, <1>6, <1>7, TakeOut
  <2> HIDE DEF rest, entry
  <2>6. at \in 1..(Len(rest) + 1)
      BY <2>2, <2>5, <1>1, <1>5
  <2>7. PICK d \in Nat : LivePositions(rest) \subseteq {d}
      BY <2>5
  <2> HIDE DEF at
  <2>8. /\ InsertAt(rest, at, entry) \in Seq(CoreConstraints)
        /\ Len(InsertAt(rest, at, entry)) = Len(rest) + 1
        /\ CoreIds(InsertAt(rest, at, entry)) = CoreIds(rest) \cup {entry.id}
        /\ Cardinality(LivePositions(InsertAt(rest, at, entry))) <= 2
      BY <2>4, <2>5, <2>6, <2>7, PutIn
  <2>9. Len(InsertAt(rest, at, entry)) = n /\ CoreIds(InsertAt(rest, at, entry)) = 1..n
      BY <2>5, <2>8, <1>1
  <2> QED
      BY <1>1, <1>3, <2>8, <2>9 DEF GoodCore
<1> QED
    BY <1>8, <1>9

-----------------------------------------------------------------------------
(* What holds of a ledger after every single operation *)

\* Evidence is never of a later generation than the goal; before there is a
\* goal there is none, and no generation.
PastEvidence(L) ==
    /\ \A i \in DOMAIN L.verified : L.verified[i].goal_generation <= L.goal_generation
    /\ L.goal = None => L.verified = <<>> /\ L.goal_generation = 0

AwaitingHasNext(L) == L.status = "AwaitingUser" => L.next # None

QuestionsClosedOnce(L) ==
    /\ \A i \in DOMAIN L.open :
          /\ L.open[i].id = i
          /\ L.open[i].closed_by # 0 =>
                /\ L.open[i].closed_by \in DOMAIN L.verified
                /\ L.verified[L.open[i].closed_by].supersedes = 0
    /\ \A i, j \in DOMAIN L.open :
          L.open[i].closed_by # 0 /\ L.open[i].closed_by = L.open[j].closed_by => i = j

LedgerInv(L) ==
    /\ L \in Ledgers
    /\ CoreWithinLimit(L)
    /\ PastEvidence(L)
    /\ EvidenceRefersToGoal(L)
    /\ SupersedeChains(L)
    /\ QuestionsClosedOnce(L)
    /\ AwaitingHasNext(L)

\* What a batch may do to a snapshot, one operation or many.
Extends(L, M) ==
    /\ M.revision = L.revision
    /\ M.goal_generation >= L.goal_generation
    /\ M.goal # L.goal => M.goal_generation > L.goal_generation
    /\ Len(L.verified) <= Len(M.verified)
    /\ \A i \in DOMAIN L.verified : KeepsCheckpoint(L.verified[i], M.verified[i])

IndInv ==
    /\ TypeOK
    /\ LedgerInv(ledger)
    /\ LedgerInv(staged)
    /\ Extends(ledger, staged)
    /\ AwaitingUserKeepsNext
    /\ CompletedIsEvidenced

-----------------------------------------------------------------------------
(* Operations on status, next and interactions leave the lists alone *)

\* M is L with another status, next, interactions, reason or declaration.
SameEvidence(L, M) ==
    /\ M \in Ledgers
    /\ M.core = L.core
    /\ M.verified = L.verified
    /\ M.open = L.open
    /\ M.goal = L.goal
    /\ M.goal_generation = L.goal_generation
    /\ M.uncovered \subseteq GoalCriteria(L)
    /\ AwaitingHasNext(M)

\* What LedgerInv says of the lists, the goal and the generation carries over
\* to a ledger that agrees on them.
LEMMA FrameInv ==
    ASSUME NEW L, NEW M, LedgerInv(L), SameEvidence(L, M)
    PROVE  LedgerInv(M)
BY DEF LedgerInv, CoreWithinLimit, LiveCore, CoreIds, PastEvidence, EvidenceRefersToGoal,
       GoalCriteria, SupersedeChains, QuestionsClosedOnce, SameEvidence

\* Marking the provenance of a next action (absent or not) keeps its type.
LEMMA MarkPreInterruptType ==
    ASSUME NEW n \in NextActions \cup {None}
    PROVE  MarkPreInterrupt(n) \in NextActions \cup {None}
<1>1. CASE n = None
    BY <1>1 DEF MarkPreInterrupt
<1>2. CASE n # None
  <2>1. [n EXCEPT !.pre_interrupt = TRUE] \in NextActions
      BY <1>2 DEF NextActions
  <2> QED
      BY <1>2, <2>1 DEF MarkPreInterrupt
<1> QED
    BY <1>1, <1>2

\* A statement becomes a next action that is present.
LEMMA NextFromStatementType ==
    ASSUME NEW s \in Statements
    PROVE  NextFromStatement(s) \in NextActions /\ NextFromStatement(s) # None
<1>1. NextFromStatement(s) \in NextActions
    BY DEF NextFromStatement, NextActions
<1>2. None \notin NextActions
    BY NoneAssumption DEF NextActions
<1> QED
    BY <1>1, <1>2

\* The facts about L that every operation below starts from.
LEMMA LedgerInvFacts ==
    ASSUME NEW L, LedgerInv(L)
    PROVE  /\ L \in Ledgers
           /\ L.uncovered \subseteq GoalCriteria(L)
           /\ AwaitingHasNext(L)
BY DEF LedgerInv, EvidenceRefersToGoal

\* SetNext keeps the ledger invariant.
LEMMA SetNextInv ==
    ASSUME NEW L \in Ledgers, LedgerInv(L), NEW s \in Statements
    PROVE  LedgerInv(SetNext(L, s))
<1>1. SameEvidence(L, SetNext(L, s))
    BY LedgerInvFacts, NextFromStatementType DEF SameEvidence, SetNext, AwaitingHasNext, Ledgers
<1> QED
    BY <1>1, FrameInv

\* SetStatus(Blocked) keeps the ledger invariant.
LEMMA SetBlockedInv ==
    ASSUME NEW L \in Ledgers, LedgerInv(L)
    PROVE  LedgerInv(SetBlocked(L))
<1>1. SameEvidence(L, SetBlocked(L))
    BY LedgerInvFacts DEF SameEvidence, AwaitingHasNext, SetBlocked, SetStatus, Ledgers, Statuses
<1> QED
    BY <1>1, FrameInv

\* SetStatus(Active) keeps the ledger invariant.
LEMMA SetActiveInv ==
    ASSUME NEW L \in Ledgers, LedgerInv(L)
    PROVE  LedgerInv(SetActive(L))
<1>1. SameEvidence(L, SetActive(L))
    BY LedgerInvFacts DEF SameEvidence, AwaitingHasNext, SetActive, SetStatus, Ledgers, Statuses
<1> QED
    BY <1>1, FrameInv

\* SetStatus(Interrupted) and Interrupt keep the ledger invariant.
LEMMA SetInterruptedInv ==
    ASSUME NEW L \in Ledgers, LedgerInv(L)
    PROVE  LedgerInv(SetInterrupted(L)) /\ LedgerInv(Interrupt(L))
<1>1. MarkPreInterrupt(L.next) \in NextActions \cup {None}
    BY MarkPreInterruptType DEF Ledgers
<1>2. SameEvidence(L, SetInterrupted(L))
    BY <1>1, LedgerInvFacts
    DEF SameEvidence, AwaitingHasNext, SetInterrupted, SetStatus, Ledgers, Statuses
<1>3. SameEvidence(L, Interrupt(L))
    BY <1>1, LedgerInvFacts DEF SameEvidence, AwaitingHasNext, Interrupt, Ledgers, Statuses
<1> QED
    BY <1>2, <1>3, FrameInv

\* SetStatus(Completed) keeps the ledger invariant; validation comes later.
LEMMA SetCompletedInv ==
    ASSUME NEW L \in Ledgers, LedgerInv(L)
    PROVE  LedgerInv(SetCompleted(L))
<1>1. SameEvidence(L, SetCompleted(L))
    BY LedgerInvFacts DEF SameEvidence, AwaitingHasNext, SetCompleted, SetStatus, Ledgers, Statuses
<1> QED
    BY <1>1, FrameInv

\* Complete keeps the ledger invariant: what it declares uncovered is of the goal.
LEMMA CompleteInv ==
    ASSUME NEW L \in Ledgers, LedgerInv(L), NEW u \in SUBSET Criteria, CompleteOk(L, u)
    PROVE  LedgerInv(Complete(L, u))
<1>1. u \subseteq GoalCriteria(L)
    BY DEF CompleteOk, ValidateCompletion
<1>2. SameEvidence(L, Complete(L, u))
    BY <1>1, LedgerInvFacts DEF SameEvidence, AwaitingHasNext, Complete, Ledgers, Statuses
<1> QED
    BY <1>2, FrameInv

\* SetStatus(AwaitingUser) keeps the ledger invariant because it demands a next.
LEMMA SetAwaitingInv ==
    ASSUME NEW L \in Ledgers, LedgerInv(L), NEW x \in Interactions, SetAwaitingOk(L)
    PROVE  LedgerInv(SetAwaiting(L, x))
<1>1. L.next # None
    BY DEF SetAwaitingOk, RequireNextForStatus
<1>2. SameEvidence(L, SetAwaiting(L, x))
    BY <1>1, LedgerInvFacts
    DEF SameEvidence, AwaitingHasNext, SetAwaiting, SetStatus, Ledgers, Statuses
<1> QED
    BY <1>2, FrameInv

\* ResolveInteraction keeps the ledger invariant, last interaction or not.
LEMMA ResolveInteractionInv ==
    ASSUME NEW L \in Ledgers, LedgerInv(L), NEW x \in Interactions
    PROVE  LedgerInv(ResolveInteraction(L, x))
<1>1. SameEvidence(L, ResolveInteraction(L, x))
    BY LedgerInvFacts DEF SameEvidence, AwaitingHasNext, ResolveInteraction, Ledgers, Statuses
<1> QED
    BY <1>1, FrameInv

-----------------------------------------------------------------------------
(* Operations on the goal and on the evidence *)

\* A new goal generation retires every checkpoint at once.
LEMMA NewGenerationInv ==
    ASSUME NEW L \in Ledgers, LedgerInv(L), NEW M \in Ledgers,
           M.core = L.core, M.verified = L.verified,
           M.open = L.open \/ M.open = <<>>,
           M.goal # None, M.uncovered = {}, AwaitingHasNext(M),
           L.verified # <<>> => M.goal_generation > L.goal_generation
    PROVE  LedgerInv(M)
<1>1. PastEvidence(M) /\ EvidenceRefersToGoal(M)
  <2>1. \A i \in DOMAIN M.verified :
           /\ M.verified[i].goal_generation \in Nat
           /\ M.verified[i].goal_generation < M.goal_generation
    <3> SUFFICES ASSUME NEW i \in DOMAIN L.verified
                 PROVE  /\ L.verified[i].goal_generation \in Nat
                        /\ L.verified[i].goal_generation < M.goal_generation
        OBVIOUS
    <3>1. L.verified[i] \in Checkpoints /\ L.verified # <<>>
        BY DEF Ledgers
    <3>2. L.verified[i].goal_generation \in Nat
        BY <3>1 DEF Checkpoints
    <3>3. L.verified[i].goal_generation <= L.goal_generation
        BY DEF LedgerInv, PastEvidence
    <3> QED
        BY <3>1, <3>2, <3>3 DEF Ledgers
  <2>2. M.goal_generation \in Nat
      BY DEF Ledgers
  <2> QED
      BY <2>1, <2>2 DEF PastEvidence, EvidenceRefersToGoal
<1>2. SupersedeChains(M) /\ CoreWithinLimit(M)
    BY DEF LedgerInv, SupersedeChains, CoreWithinLimit, LiveCore, CoreIds
<1>3. QuestionsClosedOnce(M)
    BY DEF LedgerInv, QuestionsClosedOnce, Ledgers
<1> QED
    BY <1>1, <1>2, <1>3 DEF LedgerInv

\* A goal is not the absent goal.
LEMMA GoalIsNotNone ==
    ASSUME NEW g \in Goals
    PROVE  g # None
BY NoneAssumption DEF Goals

\* SetGoal keeps the ledger invariant by opening a new generation.
LEMMA SetGoalInv ==
    ASSUME NEW L \in Ledgers, LedgerInv(L), NEW g \in Goals
    PROVE  LedgerInv(SetGoal(L, g))
<1>1. /\ SetGoal(L, g) \in Ledgers
      /\ SetGoal(L, g).goal_generation > L.goal_generation
  <2>1. L.goal_generation + 1 \in Nat /\ L.goal_generation + 1 > L.goal_generation
      BY DEF Ledgers
  <2> QED
      BY <2>1 DEF SetGoal, Ledgers
<1>2. /\ SetGoal(L, g).core = L.core /\ SetGoal(L, g).verified = L.verified
      /\ SetGoal(L, g).open = L.open /\ SetGoal(L, g).goal = g
      /\ SetGoal(L, g).uncovered = {} /\ AwaitingHasNext(SetGoal(L, g))
    BY LedgerInvFacts DEF SetGoal, Ledgers, AwaitingHasNext
<1> QED
    BY <1>1, <1>2, NewGenerationInv, GoalIsNotNone

\* Create keeps the ledger invariant.
LEMMA CreateInv ==
    ASSUME NEW L \in Ledgers, LedgerInv(L), NEW g \in Goals, NEW s \in Statements,
           CreateOk(L, g), L.uncovered = {}
    PROVE  LedgerInv(Create(L, g, s))
<1>1. Create(L, g, s) \in Ledgers
    BY NextFromStatementType DEF Create, Ledgers, Statuses
<1>2. /\ Create(L, g, s).core = L.core /\ Create(L, g, s).verified = L.verified
      /\ Create(L, g, s).open = L.open /\ Create(L, g, s).goal = g
      /\ Create(L, g, s).uncovered = {} /\ AwaitingHasNext(Create(L, g, s))
    BY DEF Create, Ledgers, AwaitingHasNext
<1>3. L.verified = <<>>
    BY DEF LedgerInv, PastEvidence, CreateOk
<1> QED
    BY <1>1, <1>2, <1>3, NewGenerationInv, GoalIsNotNone

\* start_goal keeps the ledger invariant, over an existing goal or none.
LEMMA StartGoalInv ==
    ASSUME NEW L \in Ledgers, LedgerInv(L), NEW g \in Goals, NEW s \in Statements
    PROVE  LedgerInv(StartGoal(L, g, s))
<1>1. StartGoal(L, g, s) \in Ledgers
  <2>1. (IF L.goal = None THEN 1 ELSE L.goal_generation + 1) \in Nat
      BY DEF Ledgers
  <2>2. <<>> \in Seq(Questions)
      OBVIOUS
  <2> QED
      BY <2>1, <2>2, NextFromStatementType DEF StartGoal, Ledgers, Statuses
<1>2. /\ StartGoal(L, g, s).core = L.core /\ StartGoal(L, g, s).verified = L.verified
      /\ StartGoal(L, g, s).open = <<>> /\ StartGoal(L, g, s).goal = g
      /\ StartGoal(L, g, s).uncovered = {} /\ AwaitingHasNext(StartGoal(L, g, s))
    BY DEF StartGoal, Ledgers, AwaitingHasNext
<1>3. L.verified # <<>> => StartGoal(L, g, s).goal_generation > L.goal_generation
  <2>1. L.verified # <<>> => L.goal # None
      BY DEF LedgerInv, PastEvidence
  <2> QED
      BY <2>1 DEF StartGoal, Ledgers
<1> QED
    BY <1>1, <1>2, <1>3, NewGenerationInv, GoalIsNotNone

\* Marking a checkpoint superseded, or a question closed, changes that field only.
LEMMA MarkedCheckpoint ==
    ASSUME NEW k \in Checkpoints, NEW b \in Nat
    PROVE  /\ [k EXCEPT !.superseded_by = b] \in Checkpoints
           /\ [k EXCEPT !.superseded_by = b].id = k.id
           /\ [k EXCEPT !.superseded_by = b].covered = k.covered
           /\ [k EXCEPT !.superseded_by = b].goal_generation = k.goal_generation
           /\ [k EXCEPT !.superseded_by = b].supersedes = k.supersedes
           /\ [k EXCEPT !.superseded_by = b].superseded_by = b
BY DEF Checkpoints

\* Closing a question changes closed_by and nothing else.
LEMMA ClosedQuestion ==
    ASSUME NEW q \in Questions, NEW b \in Nat
    PROVE  /\ [q EXCEPT !.closed_by = b] \in Questions
           /\ [q EXCEPT !.closed_by = b].id = q.id
           /\ [q EXCEPT !.closed_by = b].closed_by = b
BY DEF Questions

\* Checkpoints are numbered by their position.
LEMMA NewCheckpointFacts ==
    ASSUME NEW L \in Ledgers, LedgerInv(L), NEW v \in Verifiers, NEW c \in SUBSET Criteria,
           NEW p \in Nat
    PROVE  /\ NewCheckpoint(L, v, c, p) \in Checkpoints
           /\ NewCheckpoint(L, v, c, p) =
                 [id |-> Len(L.verified) + 1, verifier |-> v, covered |-> c,
                  goal_generation |-> L.goal_generation, supersedes |-> p, superseded_by |-> 0]
<1>1. VerifiedIds(L) = 1..Len(L.verified)
    BY DEF VerifiedIds, LedgerInv, SupersedeChains, Ledgers
<1>2. NextSequentialId(VerifiedIds(L)) = Len(L.verified) + 1
    BY <1>1, NextIdAfterInterval DEF Ledgers
<1> QED
    BY <1>2 DEF NewCheckpoint, Checkpoints, Ledgers

\* AddCheckpoint keeps the ledger invariant: a correction marks one current
\* checkpoint and no question loses the checkpoint it was closed by.
LEMMA AddCheckpointInv ==
    ASSUME NEW L \in Ledgers, LedgerInv(L), NEW v \in Verifiers, NEW c \in SUBSET Criteria,
           NEW p \in Nat, AddCheckpointOk(L, c, p)
    PROVE  LedgerInv(AddCheckpoint(L, v, c, p))
<1> DEFINE new == NewCheckpoint(L, v, c, p)
           n   == Len(L.verified)
           old == MarkSuperseded(L.verified, p, n + 1)
           M   == AddCheckpoint(L, v, c, p)
<1>1. /\ new \in Checkpoints /\ new.id = n + 1 /\ new.covered = c
      /\ new.goal_generation = L.goal_generation /\ new.supersedes = p /\ new.superseded_by = 0
    BY NewCheckpointFacts
<1>2. n \in Nat /\ \A i \in 1..n : L.verified[i].id = i
    BY DEF LedgerInv, SupersedeChains, Ledgers
<1>3. /\ old \in Seq(Checkpoints) /\ Len(old) = n
      /\ \A i \in 1..n :
            old[i] = IF i = p THEN [L.verified[i] EXCEPT !.superseded_by = n + 1] ELSE L.verified[i]
  <2>1. L.verified \in Seq(Checkpoints) /\ DOMAIN L.verified = 1..n
      BY DEF Ledgers
  <2>2. old = [i \in 1..n |-> IF i = p THEN [L.verified[i] EXCEPT !.superseded_by = n + 1]
                                       ELSE L.verified[i]]
      BY <1>2, <2>1 DEF MarkSuperseded
  <2>3. \A i \in 1..n : /\ L.verified[i] \in Checkpoints
                        /\ [L.verified[i] EXCEPT !.superseded_by = n + 1] \in Checkpoints
    <3>1. n + 1 \in Nat /\ \A i \in 1..n : L.verified[i] \in Checkpoints
        BY <1>2, <2>1
    <3> QED
        BY <3>1, MarkedCheckpoint
  <2>4. \A i \in 1..n : old[i] \in Checkpoints
      BY <2>2, <2>3
  <2> QED
      BY <1>2, <2>2, <2>4
<1>4. M = [L EXCEPT !.verified = Append(old, new)]
    BY <1>1 DEF AddCheckpoint
<1> HIDE DEF old, new, M
<1>5. /\ M \in Ledgers /\ M.verified = Append(old, new) /\ Len(M.verified) = n + 1
      /\ M.goal = L.goal /\ M.goal_generation = L.goal_generation /\ M.open = L.open
      /\ M.core = L.core /\ M.uncovered = L.uncovered /\ M.next = L.next /\ M.status = L.status
  <2>1. Append(old, new) \in Seq(Checkpoints) /\ Len(Append(old, new)) = n + 1
      BY <1>1, <1>2, <1>3
  <2> QED
      BY <1>4, <2>1 DEF Ledgers
<1>6. /\ M.verified[n + 1] = new
      /\ \A i \in 1..n : M.verified[i] =
            IF i = p THEN [L.verified[i] EXCEPT !.superseded_by = n + 1] ELSE L.verified[i]
    BY <1>2, <1>3, <1>5
<1>7. p # 0 => p \in 1..n /\ L.verified[p].superseded_by = 0
    BY <1>2 DEF AddCheckpointOk, Ledgers
<1>8. \A i \in 1..n : /\ M.verified[i].id = i
                      /\ M.verified[i].covered = L.verified[i].covered
                      /\ M.verified[i].goal_generation = L.verified[i].goal_generation
                      /\ M.verified[i].supersedes = L.verified[i].supersedes
                      /\ M.verified[i].superseded_by =
                            IF i = p THEN n + 1 ELSE L.verified[i].superseded_by
  <2> SUFFICES ASSUME NEW i \in 1..n
               PROVE  /\ M.verified[i].id = i
                      /\ M.verified[i].covered = L.verified[i].covered
                      /\ M.verified[i].goal_generation = L.verified[i].goal_generation
                      /\ M.verified[i].supersedes = L.verified[i].supersedes
                      /\ M.verified[i].superseded_by =
                            IF i = p THEN n + 1 ELSE L.verified[i].superseded_by
      OBVIOUS
  <2>1. L.verified[i] \in Checkpoints /\ n + 1 \in Nat /\ L.verified[i].id = i
      BY <1>2 DEF Ledgers
  <2>2. CASE i = p
    <3>1. M.verified[i] = [L.verified[i] EXCEPT !.superseded_by = n + 1]
        BY <2>2, <1>6
    <3> QED
        BY <2>1, <2>2, <3>1, MarkedCheckpoint
  <2>3. CASE i # p
      BY <2>1, <2>3, <1>6
  <2> QED
      BY <2>2, <2>3
<1>9. PastEvidence(M)
  <2>1. \A i \in 1..n : L.verified[i].goal_generation <= L.goal_generation
      BY DEF LedgerInv, PastEvidence, Ledgers
  <2>2. L.goal_generation <= L.goal_generation /\ L.goal # None
      BY DEF Ledgers, AddCheckpointOk, EnsureCreated
  <2>3. \A i \in 1..(n + 1) : M.verified[i].goal_generation <= M.goal_generation
    <3> SUFFICES ASSUME NEW i \in 1..(n + 1)
                 PROVE  M.verified[i].goal_generation <= L.goal_generation
        BY <1>5
    <3>1. CASE i = n + 1
        BY <3>1, <1>1, <1>6, <2>2
    <3>2. CASE i # n + 1
        BY <3>2, <1>2, <1>8, <2>1
    <3> QED
        BY <3>1, <3>2
  <2>4. DOMAIN M.verified = 1..(n + 1)
      BY <1>5 DEF Ledgers
  <2> QED
      BY <1>5, <2>2, <2>3, <2>4 DEF PastEvidence
<1>10. EvidenceRefersToGoal(M)
  <2>1. c \subseteq GoalCriteria(L)
      BY DEF AddCheckpointOk, EnsureCreated, GoalCriteria
  <2>2. GoalCriteria(M) = GoalCriteria(L)
      BY <1>5 DEF GoalCriteria
  <2>3. /\ \A i \in 1..n : L.verified[i].goal_generation = L.goal_generation
                           => L.verified[i].covered \subseteq GoalCriteria(L)
        /\ L.uncovered \subseteq GoalCriteria(L)
      BY DEF LedgerInv, EvidenceRefersToGoal, Ledgers
  <2>4. \A i \in 1..(n + 1) : M.verified[i].goal_generation = M.goal_generation
                              => M.verified[i].covered \subseteq GoalCriteria(M)
    <3> SUFFICES ASSUME NEW i \in 1..(n + 1), M.verified[i].goal_generation = L.goal_generation
                 PROVE  M.verified[i].covered \subseteq GoalCriteria(L)
        BY <1>5, <2>2
    <3>1. CASE i = n + 1
        BY <3>1, <1>1, <1>6, <2>1
    <3>2. CASE i # n + 1
        BY <3>2, <1>2, <1>8, <2>3
    <3> QED
        BY <3>1, <3>2
  <2>5. DOMAIN M.verified = 1..(n + 1)
      BY <1>5 DEF Ledgers
  <2> QED
      BY <1>5, <2>2, <2>3, <2>4, <2>5 DEF EvidenceRefersToGoal
<1>11. SupersedeChains(M)
  <2>1. \A i \in 1..n :
           /\ L.verified[i].superseded_by # 0 =>
                 /\ L.verified[i].superseded_by \in (i + 1)..n
                 /\ L.verified[L.verified[i].superseded_by].supersedes = i
           /\ L.verified[i].supersedes # 0 =>
                 /\ L.verified[i].supersedes \in 1..(i - 1)
                 /\ L.verified[L.verified[i].supersedes].superseded_by = i
      BY DEF LedgerInv, SupersedeChains, Ledgers
  <2>2. DOMAIN M.verified = 1..(n + 1)
      BY <1>5 DEF Ledgers
  <2> DEFINE V == M.verified
  <2>3. V[n + 1].id = n + 1 /\ V[n + 1].supersedes = p /\ V[n + 1].superseded_by = 0
      BY <1>1, <1>6
  <2>4. \A i \in 1..n : V[i].superseded_by # 0 =>
           V[i].superseded_by \in (i + 1)..(n + 1) /\ V[V[i].superseded_by].supersedes = i
    <3> SUFFICES ASSUME NEW i \in 1..n, V[i].superseded_by # 0
                 PROVE  /\ V[i].superseded_by \in (i + 1)..(n + 1)
                        /\ V[V[i].superseded_by].supersedes = i
        OBVIOUS
    <3>1. CASE i = p
        BY <3>1, <1>2, <1>8, <2>3
    <3>2. CASE i # p
      <4> DEFINE k == L.verified[i].superseded_by
      <4>1. V[i].superseded_by = k /\ k # 0
          BY <3>2, <1>8
      <4>2. k \in (i + 1)..n /\ L.verified[k].supersedes = i
          BY <4>1, <2>1
      <4>3. k \in 1..n
          BY <4>2, <1>2
      <4>4. V[k].supersedes = i
          BY <4>2, <4>3, <1>8
      <4> QED
          BY <4>1, <4>2, <4>3, <4>4, <1>2
    <3> QED
        BY <3>1, <3>2
  <2>5. \A i \in 1..(n + 1) : V[i].supersedes # 0 =>
           V[i].supersedes \in 1..(i - 1) /\ V[V[i].supersedes].superseded_by = i
    <3> SUFFICES ASSUME NEW i \in 1..(n + 1), V[i].supersedes # 0
                 PROVE  /\ V[i].supersedes \in 1..(i - 1)
                        /\ V[V[i].supersedes].superseded_by = i
        OBVIOUS
    <3>1. CASE i = n + 1
        BY <3>1, <1>2, <1>7, <1>8, <2>3
    <3>2. CASE i # n + 1
      <4> DEFINE k == L.verified[i].supersedes
      <4>1. i \in 1..n /\ V[i].supersedes = k /\ k # 0
          BY <3>2, <1>2, <1>8
      <4>2. k \in 1..(i - 1) /\ L.verified[k].superseded_by = i
          BY <4>1, <2>1
      <4>3. k \in 1..n /\ i # 0
          BY <4>1, <4>2
      <4>4. k # p
          BY <4>2, <4>3, <1>2, <1>7
      <4> QED
          BY <4>1, <4>2, <4>3, <4>4, <1>8
    <3> QED
        BY <3>1, <3>2
  <2>6. \A i \in 1..(n + 1) :
           /\ V[i].id = i
           /\ V[i].superseded_by # 0 => /\ V[i].superseded_by \in (i + 1)..(n + 1)
                                       /\ V[V[i].superseded_by].supersedes = i
    <3> SUFFICES ASSUME NEW i \in 1..(n + 1)
                 PROVE  /\ V[i].id = i
                        /\ V[i].superseded_by # 0 => /\ V[i].superseded_by \in (i + 1)..(n + 1)
                                                    /\ V[V[i].superseded_by].supersedes = i
        OBVIOUS
    <3>1. CASE i = n + 1
        BY <3>1, <2>3
    <3>2. CASE i # n + 1
      <4>1. i \in 1..n
          BY <3>2, <1>2
      <4> QED
          BY <4>1, <1>8, <2>4
    <3> QED
        BY <3>1, <3>2
  <2> QED
      BY <1>5, <2>2, <2>5, <2>6 DEF SupersedeChains
<1>12. QuestionsClosedOnce(M)
    BY <1>2, <1>5, <1>8 DEF QuestionsClosedOnce, LedgerInv, Ledgers
<1>13. CoreWithinLimit(M) /\ AwaitingHasNext(M)
    BY <1>5 DEF CoreWithinLimit, LiveCore, CoreIds, AwaitingHasNext, LedgerInv
<1> QED
    BY <1>5, <1>9, <1>10, <1>11, <1>12, <1>13 DEF LedgerInv, M

\* M is L with other questions, or other evidence fields already known to be sound.
LEMMA OpenListInv ==
    ASSUME NEW L \in Ledgers, LedgerInv(L), NEW M \in Ledgers,
           M.core = L.core, M.verified = L.verified, M.goal = L.goal,
           M.goal_generation = L.goal_generation, M.uncovered = L.uncovered,
           M.next = L.next, M.status = L.status, QuestionsClosedOnce(M)
    PROVE  LedgerInv(M)
BY DEF LedgerInv, CoreWithinLimit, LiveCore, CoreIds, PastEvidence, EvidenceRefersToGoal,
       GoalCriteria, SupersedeChains, AwaitingHasNext

\* OpenQuestion keeps the ledger invariant: the id issued is the next one.
LEMMA OpenQuestionInv ==
    ASSUME NEW L \in Ledgers, LedgerInv(L), NEW s \in Statements
    PROVE  LedgerInv(OpenQuestion(L, s))
<1> DEFINE n == Len(L.open)
           q == [id |-> n + 1, question |-> s, closed_by |-> 0]
           M == OpenQuestion(L, s)
<1>1. /\ n \in Nat /\ DOMAIN L.open = 1..n
      /\ \A i \in 1..n : /\ L.open[i].id = i
                         /\ L.open[i].closed_by # 0 =>
                               /\ L.open[i].closed_by \in DOMAIN L.verified
                               /\ L.verified[L.open[i].closed_by].supersedes = 0
      /\ \A i, j \in 1..n :
            L.open[i].closed_by # 0 /\ L.open[i].closed_by = L.open[j].closed_by => i = j
    BY DEF LedgerInv, QuestionsClosedOnce, Ledgers
<1>2. NextSequentialId(OpenIds(L)) = n + 1
  <2>1. OpenIds(L) = 1..n
      BY <1>1 DEF OpenIds
  <2> QED
      BY <1>1, <2>1, NextIdAfterInterval
<1>3. q \in Questions /\ q.id = n + 1 /\ q.closed_by = 0
    BY <1>1 DEF Questions
<1>4. M = [L EXCEPT !.open = Append(L.open, q)]
    BY <1>2 DEF OpenQuestion
<1> HIDE DEF q, M
<1>5. /\ M \in Ledgers /\ M.open = Append(L.open, q)
      /\ M.core = L.core /\ M.verified = L.verified /\ M.goal = L.goal
      /\ M.goal_generation = L.goal_generation /\ M.uncovered = L.uncovered
      /\ M.next = L.next /\ M.status = L.status
  <2>1. Append(L.open, q) \in Seq(Questions)
      BY <1>3 DEF Ledgers
  <2> QED
      BY <1>4, <2>1 DEF Ledgers
<1>6. /\ DOMAIN M.open = 1..(n + 1)
      /\ M.open[n + 1] = q
      /\ \A i \in 1..n : M.open[i] = L.open[i]
    BY <1>1, <1>3, <1>5 DEF Ledgers
<1>7. QuestionsClosedOnce(M)
  <2>1. \A i \in 1..(n + 1) : i = n + 1 \/ i \in 1..n
      BY <1>1
  <2>2. \A i \in 1..(n + 1) : M.open[i].closed_by # 0 => i \in 1..n
      BY <1>3, <1>6, <2>1
  <2>3. \A i \in 1..(n + 1) : M.open[i].id = i
      BY <1>1, <1>3, <1>6, <2>1
  <2>4. \A i \in 1..(n + 1) : M.open[i].closed_by # 0 =>
           /\ M.open[i].closed_by \in DOMAIN M.verified
           /\ M.verified[M.open[i].closed_by].supersedes = 0
      BY <1>1, <1>5, <1>6, <2>2
  <2>5. \A i, j \in 1..(n + 1) :
           M.open[i].closed_by # 0 /\ M.open[i].closed_by = M.open[j].closed_by => i = j
      BY <1>1, <1>6, <2>2
  <2> QED
      BY <1>6, <2>3, <2>4, <2>5 DEF QuestionsClosedOnce
<1> QED
    BY <1>5, <1>7, OpenListInv DEF M

\* CloseOpenWithCheckpoint keeps the ledger invariant: the new checkpoint closes
\* this question only.
LEMMA CloseOpenInv ==
    ASSUME NEW L \in Ledgers, LedgerInv(L), NEW q \in Nat, NEW v \in Verifiers,
           NEW c \in SUBSET Criteria, CloseOpenWithCheckpointOk(L, q, c)
    PROVE  LedgerInv(CloseOpenWithCheckpoint(L, q, v, c))
<1> DEFINE n    == Len(L.verified)
           A    == AddCheckpoint(L, v, c, 0)
           new  == NewCheckpoint(L, v, c, 0)
           open == [i \in DOMAIN L.open |-> IF L.open[i].id = q
                                            THEN [L.open[i] EXCEPT !.closed_by = n + 1]
                                            ELSE L.open[i]]
           M    == CloseOpenWithCheckpoint(L, q, v, c)
<1>1. LedgerInv(A)
    BY AddCheckpointInv DEF AddCheckpointOk, CloseOpenWithCheckpointOk
<1>2. new \in Checkpoints /\ new.id = n + 1 /\ new.supersedes = 0
    BY NewCheckpointFacts
<1>3. n \in Nat /\ DOMAIN L.verified = 1..n /\ L.verified \in Seq(Checkpoints)
    BY DEF Ledgers
<1>4. MarkSuperseded(L.verified, 0, n + 1) = L.verified
    BY <1>3 DEF MarkSuperseded
<1>5. A = [L EXCEPT !.verified = Append(L.verified, new)]
    BY <1>2, <1>4 DEF AddCheckpoint
<1>6. M = [L EXCEPT !.verified = Append(L.verified, new), !.open = open]
    BY <1>2 DEF CloseOpenWithCheckpoint
<1> HIDE DEF A, new, M
<1>7. Append(L.verified, new) \in Seq(Checkpoints)
    BY <1>2, <1>3
<1>8. /\ DOMAIN L.open = 1..Len(L.open) /\ Len(L.open) \in Nat
      /\ \A i \in DOMAIN L.open :
            /\ L.open[i] \in Questions /\ L.open[i].id = i
            /\ L.open[i].closed_by # 0 => /\ L.open[i].closed_by \in 1..n
                                          /\ L.verified[L.open[i].closed_by].supersedes = 0
      /\ \A i, j \in DOMAIN L.open :
            L.open[i].closed_by # 0 /\ L.open[i].closed_by = L.open[j].closed_by => i = j
    BY <1>3 DEF LedgerInv, QuestionsClosedOnce, Ledgers
<1>9. \A i \in DOMAIN L.open :
         /\ open[i] \in Questions /\ open[i].id = i
         /\ open[i].closed_by = IF i = q THEN n + 1 ELSE L.open[i].closed_by
  <2> SUFFICES ASSUME NEW i \in DOMAIN L.open
               PROVE  /\ open[i] \in Questions /\ open[i].id = i
                      /\ open[i].closed_by = IF i = q THEN n + 1 ELSE L.open[i].closed_by
      OBVIOUS
  <2>1. L.open[i] \in Questions /\ n + 1 \in Nat /\ L.open[i].id = i
      BY <1>3, <1>8
  <2>2. CASE i = q
    <3>1. open[i] = [L.open[i] EXCEPT !.closed_by = n + 1]
        BY <2>1, <2>2
    <3>2. /\ [L.open[i] EXCEPT !.closed_by = n + 1] \in Questions
          /\ [L.open[i] EXCEPT !.closed_by = n + 1].id = L.open[i].id
          /\ [L.open[i] EXCEPT !.closed_by = n + 1].closed_by = n + 1
        BY <2>1, ClosedQuestion
    <3> HIDE DEF open
    <3> QED
        BY <2>1, <2>2, <3>1, <3>2
  <2>3. CASE i # q
      BY <2>1, <2>3
  <2> QED
      BY <2>2, <2>3
<1>10. open \in Seq(Questions) /\ DOMAIN open = DOMAIN L.open
  <2>1. open \in [1..Len(L.open) -> Questions]
      BY <1>8, <1>9
  <2> QED
      BY <1>8, <2>1
<1> HIDE DEF open
<1>11. /\ A \in Ledgers /\ A.verified = Append(L.verified, new)
       /\ A.core = L.core /\ A.goal = L.goal /\ A.goal_generation = L.goal_generation
       /\ A.uncovered = L.uncovered /\ A.next = L.next /\ A.status = L.status
    BY <1>5, <1>7 DEF Ledgers
<1>12. /\ M \in Ledgers /\ M.verified = Append(L.verified, new) /\ M.open = open
       /\ M.core = L.core /\ M.goal = L.goal /\ M.goal_generation = L.goal_generation
       /\ M.uncovered = L.uncovered /\ M.next = L.next /\ M.status = L.status
    BY <1>6, <1>7, <1>10 DEF Ledgers
<1>13. /\ DOMAIN M.verified = 1..(n + 1)
       /\ M.verified[n + 1] = new
       /\ \A i \in 1..n : M.verified[i] = L.verified[i]
    BY <1>2, <1>3, <1>12
<1>14. QuestionsClosedOnce(M)
  <2>1. \A i \in DOMAIN open : open[i].closed_by # 0 =>
           open[i].closed_by \in 1..(n + 1) /\ (i = q \/ open[i].closed_by \in 1..n)
      BY <1>3, <1>8, <1>9, <1>10
  <2>2. \A i \in DOMAIN open : open[i].closed_by # 0 =>
           M.verified[open[i].closed_by].supersedes = 0
    <3> SUFFICES ASSUME NEW i \in DOMAIN open, open[i].closed_by # 0
                 PROVE  M.verified[open[i].closed_by].supersedes = 0
        OBVIOUS
    <3>1. CASE i = q
      <4>1. open[i].closed_by = n + 1
          BY <3>1, <1>9, <1>10
      <4> QED
          BY <4>1, <1>2, <1>13
    <3>2. CASE i # q
      <4>1. open[i].closed_by = L.open[i].closed_by
          BY <3>2, <1>9, <1>10
      <4>2. /\ L.open[i].closed_by \in 1..n
            /\ L.verified[L.open[i].closed_by].supersedes = 0
          BY <4>1, <1>8, <1>10
      <4> QED
          BY <4>1, <4>2, <1>13
    <3> QED
        BY <3>1, <3>2
  <2>3. \A i, j \in DOMAIN open :
           open[i].closed_by # 0 /\ open[i].closed_by = open[j].closed_by => i = j
    <3> SUFFICES ASSUME NEW i \in DOMAIN open, NEW j \in DOMAIN open,
                        open[i].closed_by # 0, open[i].closed_by = open[j].closed_by
                 PROVE  i = j
        OBVIOUS
    <3>1. CASE i = q \/ j = q
      <4>1. n + 1 \notin 1..n /\ n + 1 # 0
          BY <1>3
      <4>2. open[i].closed_by = n + 1 /\ open[j].closed_by = n + 1
          BY <3>1, <1>9, <1>10
      <4> QED
          BY <4>1, <4>2, <1>8, <1>9, <1>10
    <3>2. CASE i # q /\ j # q
        BY <3>2, <1>8, <1>9, <1>10
    <3> QED
        BY <3>1, <3>2
  <2> QED
      BY <1>9, <1>10, <1>12, <1>13, <2>1, <2>2, <2>3 DEF QuestionsClosedOnce
<1> QED
    BY <1>1, <1>11, <1>12, <1>14, OpenListInv DEF M

\* M is L with another core list that is good.
LEMMA CoreListInv ==
    ASSUME NEW L \in Ledgers, LedgerInv(L), NEW M \in Ledgers, GoodCore(M.core),
           M.open = L.open, M.verified = L.verified, M.goal = L.goal,
           M.goal_generation = L.goal_generation, M.uncovered = L.uncovered,
           M.next = L.next, M.status = L.status
    PROVE  LedgerInv(M)
<1>1. CoreWithinLimit(M)
    BY DEF CoreWithinLimit, GoodCore, LiveCore, LivePositions
<1> QED
    BY <1>1 DEF LedgerInv, PastEvidence, EvidenceRefersToGoal, GoalCriteria, SupersedeChains,
                QuestionsClosedOnce, AwaitingHasNext

\* The ledger invariant contains what holds of the core list.
LEMMA CoreIsGood ==
    ASSUME NEW L \in Ledgers, LedgerInv(L)
    PROVE  GoodCore(L.core)
BY DEF LedgerInv, CoreWithinLimit, GoodCore, LiveCore, LivePositions, Ledgers

\* AddCore keeps the ledger invariant.
LEMMA AddCoreInv ==
    ASSUME NEW L \in Ledgers, LedgerInv(L), NEW s \in Statements, NEW live \in BOOLEAN,
           AddCoreOk(L, live)
    PROVE  LedgerInv(AddCore(L, s, live))
<1> DEFINE M == AddCore(L, s, live)
<1>1. GoodCore(M.core)
    BY CoreIsGood, AddCoreGood
<1>2. \E c : M = [L EXCEPT !.core = c]
    BY DEF AddCore
<1> HIDE DEF M
<1>3. PICK c : M = [L EXCEPT !.core = c]
    BY <1>2
<1>4. M.core = c /\ c \in Seq(CoreConstraints)
    BY <1>1, <1>3 DEF GoodCore, Ledgers
<1>5. /\ M \in Ledgers
      /\ M.open = L.open /\ M.verified = L.verified /\ M.goal = L.goal
      /\ M.goal_generation = L.goal_generation /\ M.uncovered = L.uncovered
      /\ M.next = L.next /\ M.status = L.status
    BY <1>3, <1>4 DEF Ledgers
<1> QED
    BY <1>1, <1>5, CoreListInv DEF M

\* SwapCoreLive keeps the ledger invariant.
LEMMA SwapCoreLiveInv ==
    ASSUME NEW L \in Ledgers, LedgerInv(L), NEW slot \in {1, 2}, NEW s \in Statements
    PROVE  LedgerInv(SwapCoreLive(L, slot, s))
<1> DEFINE M == SwapCoreLive(L, slot, s)
<1>1. GoodCore(M.core)
    BY CoreIsGood, SwapCoreLiveGood
<1>2. \E c : M = [L EXCEPT !.core = c]
    BY DEF SwapCoreLive
<1> HIDE DEF M
<1>3. PICK c : M = [L EXCEPT !.core = c]
    BY <1>2
<1>4. M.core = c /\ c \in Seq(CoreConstraints)
    BY <1>1, <1>3 DEF GoodCore, Ledgers
<1>5. /\ M \in Ledgers
      /\ M.open = L.open /\ M.verified = L.verified /\ M.goal = L.goal
      /\ M.goal_generation = L.goal_generation /\ M.uncovered = L.uncovered
      /\ M.next = L.next /\ M.status = L.status
    BY <1>3, <1>4 DEF Ledgers
<1> QED
    BY <1>1, <1>5, CoreListInv DEF M

-----------------------------------------------------------------------------
(* What an operation keeps: revision, history and the goal's generation *)

\* A checkpoint keeps itself.
LEMMA KeepsItself ==
    ASSUME NEW k \in Checkpoints
    PROVE  KeepsCheckpoint(k, k)
BY DEF KeepsCheckpoint, Checkpoints

\* A current checkpoint is kept when it is marked superseded.
LEMMA KeepsMarked ==
    ASSUME NEW k \in Checkpoints, NEW b \in Nat, k.superseded_by = 0
    PROVE  KeepsCheckpoint(k, [k EXCEPT !.superseded_by = b])
BY DEF KeepsCheckpoint, Checkpoints

\* Keeping a checkpoint is transitive.
LEMMA KeepsTransitive ==
    ASSUME NEW a \in Checkpoints, NEW b \in Checkpoints, NEW c \in Checkpoints,
           KeepsCheckpoint(a, b), KeepsCheckpoint(b, c)
    PROVE  KeepsCheckpoint(a, c)
BY DEF KeepsCheckpoint, Checkpoints

\* Extending a snapshot is transitive, so batches extend like operations.
LEMMA ExtendsTransitive ==
    ASSUME NEW L \in Ledgers, NEW M \in Ledgers, NEW N \in Ledgers, Extends(L, M), Extends(M, N)
    PROVE  Extends(L, N)
<1>1. /\ L.goal_generation \in Nat /\ M.goal_generation \in Nat /\ N.goal_generation \in Nat
      /\ Len(L.verified) \in Nat /\ Len(M.verified) \in Nat /\ Len(N.verified) \in Nat
    BY DEF Ledgers
<1>2. /\ N.revision = L.revision /\ N.goal_generation >= L.goal_generation
      /\ Len(L.verified) <= Len(N.verified)
    BY <1>1 DEF Extends
<1>3. N.goal # L.goal => N.goal_generation > L.goal_generation
    BY <1>1 DEF Extends
<1>4. ASSUME NEW i \in DOMAIN L.verified
      PROVE  KeepsCheckpoint(L.verified[i], N.verified[i])
  <2>1. i \in DOMAIN L.verified /\ i \in DOMAIN M.verified /\ i \in DOMAIN N.verified
      BY <1>1, <1>4 DEF Extends, Ledgers
  <2>2. /\ L.verified[i] \in Checkpoints /\ M.verified[i] \in Checkpoints
        /\ N.verified[i] \in Checkpoints
      BY <2>1 DEF Ledgers
  <2> QED
      BY <2>1, <2>2, KeepsTransitive DEF Extends
<1> QED
    BY <1>2, <1>3, <1>4 DEF Extends

\* An operation that leaves history and goal alone.
LEMMA ExtendsFrame ==
    ASSUME NEW L \in Ledgers, NEW M \in Ledgers, M.revision = L.revision,
           M.verified = L.verified, M.goal = L.goal, M.goal_generation = L.goal_generation
    PROVE  Extends(L, M)
<1>1. L.goal_generation \in Nat /\ Len(L.verified) \in Nat
    BY DEF Ledgers
<1>2. \A i \in DOMAIN L.verified : L.verified[i] \in Checkpoints
    BY DEF Ledgers
<1> QED
    BY <1>1, <1>2, KeepsItself DEF Extends

\* Operations on status, next and interactions extend the snapshot.
LEMMA StatusOpsExtend ==
    ASSUME NEW L \in Ledgers, LedgerInv(L)
    PROVE  /\ \A s \in Statements : Extends(L, SetNext(L, s))
           /\ \A x \in Interactions : SetAwaitingOk(L) => Extends(L, SetAwaiting(L, x))
           /\ \A x \in Interactions : Extends(L, ResolveInteraction(L, x))
           /\ Extends(L, SetBlocked(L))
           /\ Extends(L, SetActive(L))
           /\ Extends(L, SetInterrupted(L))
           /\ Extends(L, SetCompleted(L))
           /\ Extends(L, Interrupt(L))
           /\ \A u \in SUBSET Criteria : CompleteOk(L, u) => Extends(L, Complete(L, u))
<1>1. ASSUME NEW s \in Statements
      PROVE  Extends(L, SetNext(L, s))
  <2>1. SetNext(L, s) \in Ledgers
      BY SetNextInv DEF LedgerInv
  <2> QED
      BY <2>1, ExtendsFrame DEF SetNext, Ledgers
<1>2. ASSUME NEW x \in Interactions, SetAwaitingOk(L)
      PROVE  Extends(L, SetAwaiting(L, x))
  <2>1. SetAwaiting(L, x) \in Ledgers
      BY <1>2, SetAwaitingInv DEF LedgerInv
  <2> QED
      BY <2>1, ExtendsFrame DEF SetAwaiting, SetStatus, Ledgers
<1>3. ASSUME NEW x \in Interactions
      PROVE  Extends(L, ResolveInteraction(L, x))
  <2>1. ResolveInteraction(L, x) \in Ledgers
      BY ResolveInteractionInv DEF LedgerInv
  <2> QED
      BY <2>1, ExtendsFrame DEF ResolveInteraction, Ledgers
<1>4. Extends(L, SetBlocked(L))
  <2>1. SetBlocked(L) \in Ledgers
      BY SetBlockedInv DEF LedgerInv
  <2> QED
      BY <2>1, ExtendsFrame DEF SetBlocked, SetStatus, Ledgers
<1>5. Extends(L, SetActive(L))
  <2>1. SetActive(L) \in Ledgers
      BY SetActiveInv DEF LedgerInv
  <2> QED
      BY <2>1, ExtendsFrame DEF SetActive, SetStatus, Ledgers
<1>6. Extends(L, SetInterrupted(L)) /\ Extends(L, Interrupt(L))
  <2>1. SetInterrupted(L) \in Ledgers /\ Interrupt(L) \in Ledgers
      BY SetInterruptedInv DEF LedgerInv
  <2> QED
      BY <2>1, ExtendsFrame DEF SetInterrupted, Interrupt, SetStatus, Ledgers
<1>7. Extends(L, SetCompleted(L))
  <2>1. SetCompleted(L) \in Ledgers
      BY SetCompletedInv DEF LedgerInv
  <2> QED
      BY <2>1, ExtendsFrame DEF SetCompleted, SetStatus, Ledgers
<1>8. ASSUME NEW u \in SUBSET Criteria, CompleteOk(L, u)
      PROVE  Extends(L, Complete(L, u))
  <2>1. Complete(L, u) \in Ledgers
      BY <1>8, CompleteInv DEF LedgerInv
  <2> QED
      BY <2>1, ExtendsFrame DEF Complete, Ledgers
<1> QED
    BY <1>1, <1>2, <1>3, <1>4, <1>5, <1>6, <1>7, <1>8

\* Operations on questions and on the core extend the snapshot.
LEMMA ListOpsExtend ==
    ASSUME NEW L \in Ledgers, LedgerInv(L), NEW s \in Statements
    PROVE  /\ Extends(L, OpenQuestion(L, s))
           /\ \A live \in BOOLEAN : AddCoreOk(L, live) => Extends(L, AddCore(L, s, live))
           /\ \A slot \in {1, 2} : Extends(L, SwapCoreLive(L, slot, s))
<1>1. Extends(L, OpenQuestion(L, s))
  <2>1. OpenQuestion(L, s) \in Ledgers
      BY OpenQuestionInv DEF LedgerInv
  <2> QED
      BY <2>1, ExtendsFrame DEF OpenQuestion, Ledgers
<1>2. ASSUME NEW live \in BOOLEAN, AddCoreOk(L, live)
      PROVE  Extends(L, AddCore(L, s, live))
  <2>1. AddCore(L, s, live) \in Ledgers
      BY <1>2, AddCoreInv DEF LedgerInv
  <2> QED
      BY <2>1, ExtendsFrame DEF AddCore, Ledgers
<1>3. ASSUME NEW slot \in {1, 2}
      PROVE  Extends(L, SwapCoreLive(L, slot, s))
  <2>1. SwapCoreLive(L, slot, s) \in Ledgers
      BY SwapCoreLiveInv DEF LedgerInv
  <2> QED
      BY <2>1, ExtendsFrame DEF SwapCoreLive, Ledgers
<1> QED
    BY <1>1, <1>2, <1>3

\* A new goal comes with a larger generation and the same history.
LEMMA NewGenerationExtends ==
    ASSUME NEW L \in Ledgers, NEW M \in Ledgers, M.revision = L.revision,
           M.verified = L.verified, M.goal_generation > L.goal_generation
    PROVE  Extends(L, M)
<1>1. L.goal_generation \in Nat /\ M.goal_generation \in Nat /\ Len(L.verified) \in Nat
    BY DEF Ledgers
<1>2. \A i \in DOMAIN L.verified : L.verified[i] \in Checkpoints
    BY DEF Ledgers
<1> QED
    BY <1>1, <1>2, KeepsItself DEF Extends

\* SetGoal, Create and start_goal extend the snapshot: a new goal is a new generation.
LEMMA GoalOpsExtend ==
    ASSUME NEW L \in Ledgers, LedgerInv(L), NEW g \in Goals
    PROVE  /\ Extends(L, SetGoal(L, g))
           /\ \A s \in Statements :
                 CreateOk(L, g) /\ L.uncovered = {} => Extends(L, Create(L, g, s))
           /\ \A s \in Statements : Extends(L, StartGoal(L, g, s))
<1>1. L.goal = None => L.goal_generation = 0
    BY DEF LedgerInv, PastEvidence
<1>2. Extends(L, SetGoal(L, g))
  <2>1. SetGoal(L, g) \in Ledgers
      BY SetGoalInv DEF LedgerInv
  <2>2. SetGoal(L, g).goal_generation > L.goal_generation
      BY DEF SetGoal, Ledgers
  <2> QED
      BY <2>1, <2>2, NewGenerationExtends DEF SetGoal, Ledgers
<1>3. ASSUME NEW s \in Statements, CreateOk(L, g), L.uncovered = {}
      PROVE  Extends(L, Create(L, g, s))
  <2>1. Create(L, g, s) \in Ledgers
      BY <1>3, CreateInv DEF LedgerInv
  <2>2. Create(L, g, s).goal_generation > L.goal_generation
      BY <1>1, <1>3 DEF Create, CreateOk, Ledgers
  <2> QED
      BY <2>1, <2>2, NewGenerationExtends DEF Create, Ledgers
<1>4. ASSUME NEW s \in Statements
      PROVE  Extends(L, StartGoal(L, g, s))
  <2>1. StartGoal(L, g, s) \in Ledgers
      BY StartGoalInv DEF LedgerInv
  <2>2. StartGoal(L, g, s).goal_generation > L.goal_generation
      BY <1>1 DEF StartGoal, Ledgers
  <2> QED
      BY <2>1, <2>2, NewGenerationExtends DEF StartGoal, Ledgers
<1> QED
    BY <1>2, <1>3, <1>4

\* A checkpoint more, and at most one checkpoint marked.
LEMMA AddCheckpointExtends ==
    ASSUME NEW L \in Ledgers, LedgerInv(L), NEW v \in Verifiers, NEW c \in SUBSET Criteria,
           NEW p \in Nat, AddCheckpointOk(L, c, p)
    PROVE  Extends(L, AddCheckpoint(L, v, c, p))
<1> DEFINE new == NewCheckpoint(L, v, c, p)
           n   == Len(L.verified)
           old == MarkSuperseded(L.verified, p, n + 1)
           M   == AddCheckpoint(L, v, c, p)
<1>1. new.id = n + 1
    BY NewCheckpointFacts
<1>2. n \in Nat /\ DOMAIN L.verified = 1..n /\ \A i \in 1..n : L.verified[i] \in Checkpoints
    BY DEF Ledgers
<1>3. M = [L EXCEPT !.verified = Append(old, new)]
    BY <1>1 DEF AddCheckpoint
<1>4. M \in Ledgers
    BY AddCheckpointInv DEF LedgerInv
<1>5. \A i \in 1..n : L.verified[i].id = i
    BY <1>2 DEF LedgerInv, SupersedeChains
<1>6. /\ old = [i \in 1..n |-> IF i = p THEN [L.verified[i] EXCEPT !.superseded_by = n + 1]
                                        ELSE L.verified[i]]
    BY <1>2, <1>5 DEF MarkSuperseded
<1>7. p # 0 => p \in 1..n /\ L.verified[p].superseded_by = 0
    BY <1>2, <1>5 DEF AddCheckpointOk
<1> HIDE DEF new, old, M
<1>8. M.verified = Append(old, new) /\ M.revision = L.revision /\ M.goal = L.goal
      /\ M.goal_generation = L.goal_generation
    BY <1>3 DEF Ledgers
<1>9. ASSUME NEW i \in 1..n
      PROVE  KeepsCheckpoint(L.verified[i], old[i])
  <2>1. CASE i = p
    <3>1. L.verified[i].superseded_by = 0 /\ n + 1 \in Nat
        BY <2>1, <1>2, <1>7
    <3>2. old[i] = [L.verified[i] EXCEPT !.superseded_by = n + 1]
        BY <2>1, <1>6
    <3>3. KeepsCheckpoint(L.verified[i], [L.verified[i] EXCEPT !.superseded_by = n + 1])
      <4>1. L.verified[i] \in Checkpoints
          BY <1>2
      <4> QED
          BY <4>1, <3>1, KeepsMarked
    <3> QED
        BY <3>2, <3>3
  <2>2. CASE i # p
    <3>1. old[i] = L.verified[i]
        BY <2>2, <1>6
    <3> QED
        BY <3>1, <1>2, KeepsItself
  <2> QED
      BY <2>1, <2>2
<1>10. Len(M.verified) = n + 1 /\ \A i \in 1..n : M.verified[i] = old[i]
  <2>1. DOMAIN old = 1..n
      BY <1>6
  <2>2. Len(old) = n
      BY <1>2, <2>1, <1>6
  <2>3. old \in Seq(Checkpoints)
    <3>1. \A i \in 1..n : old[i] \in Checkpoints
      <4> SUFFICES ASSUME NEW i \in 1..n
                   PROVE  old[i] \in Checkpoints
          OBVIOUS
      <4>1. n + 1 \in Nat /\ L.verified[i] \in Checkpoints
          BY <1>2
      <4>2. [L.verified[i] EXCEPT !.superseded_by = n + 1] \in Checkpoints
          BY <4>1, MarkedCheckpoint
      <4> QED
          BY <4>1, <4>2, <1>6
    <3>2. old \in [1..n -> Checkpoints]
        BY <3>1, <1>6
    <3> QED
        BY <3>2, <1>2
  <2> QED
      BY <1>2, <1>8, <2>1, <2>2, <2>3
<1>11. L.goal_generation \in Nat
    BY DEF Ledgers
<1> QED
    BY <1>2, <1>8, <1>9, <1>10, <1>11 DEF Extends, M

\* CloseOpenWithCheckpoint extends the snapshot by one checkpoint.
LEMMA CloseOpenExtends ==
    ASSUME NEW L \in Ledgers, LedgerInv(L), NEW q \in Nat, NEW v \in Verifiers,
           NEW c \in SUBSET Criteria, CloseOpenWithCheckpointOk(L, q, c)
    PROVE  Extends(L, CloseOpenWithCheckpoint(L, q, v, c))
<1> DEFINE A == AddCheckpoint(L, v, c, 0)
           M == CloseOpenWithCheckpoint(L, q, v, c)
           new == NewCheckpoint(L, v, c, 0)
<1>1. Extends(L, A)
    BY AddCheckpointExtends DEF AddCheckpointOk, CloseOpenWithCheckpointOk
<1>2. MarkSuperseded(L.verified, 0, new.id) = L.verified
    BY DEF MarkSuperseded, Ledgers
<1>3. A = [L EXCEPT !.verified = Append(L.verified, new)]
    BY <1>2 DEF AddCheckpoint
<1>4. \E o : M = [L EXCEPT !.verified = Append(L.verified, new), !.open = o]
    BY DEF CloseOpenWithCheckpoint
<1> HIDE DEF A, M, new
<1>5. /\ A.verified = Append(L.verified, new) /\ A.revision = L.revision
      /\ A.goal = L.goal /\ A.goal_generation = L.goal_generation
    BY <1>3 DEF Ledgers
<1>6. /\ M.verified = Append(L.verified, new) /\ M.revision = L.revision
      /\ M.goal = L.goal /\ M.goal_generation = L.goal_generation
    BY <1>4 DEF Ledgers
<1> QED
    BY <1>1, <1>5, <1>6 DEF Extends, M

-----------------------------------------------------------------------------
(* The inductive invariant *)

\* The ledger of a new session satisfies the invariant.
LEMMA EmptyLedgerInv == LedgerInv(EmptyLedger) /\ EmptyLedger \in Ledgers
<1>1. /\ EmptyLedger \in Ledgers
      /\ EmptyLedger.core = <<>> /\ EmptyLedger.verified = <<>> /\ EmptyLedger.open = <<>>
      /\ EmptyLedger.goal = None /\ EmptyLedger.goal_generation = 0
      /\ EmptyLedger.uncovered = {} /\ EmptyLedger.status = "Active"
    BY DEF EmptyLedger, Ledgers, Statuses
<1>2. CoreWithinLimit(EmptyLedger)
  <2>1. LiveCore(EmptyLedger) = {} /\ CoreIds(EmptyLedger.core) = {}
      BY <1>1 DEF LiveCore, CoreIds
  <2>2. DOMAIN EmptyLedger.core = {}
      BY <1>1
  <2>3. Cardinality(LiveCore(EmptyLedger)) = 0
      BY <2>1, FS_EmptySet
  <2> QED
      BY <2>1, <2>2, <2>3 DEF CoreWithinLimit
<1>3. PastEvidence(EmptyLedger) /\ EvidenceRefersToGoal(EmptyLedger)
    BY <1>1 DEF PastEvidence, EvidenceRefersToGoal
<1>4. SupersedeChains(EmptyLedger) /\ QuestionsClosedOnce(EmptyLedger)
    BY <1>1 DEF SupersedeChains, QuestionsClosedOnce
<1>5. AwaitingHasNext(EmptyLedger)
    BY <1>1 DEF AwaitingHasNext
<1> QED
    BY <1>1, <1>2, <1>3, <1>4, <1>5 DEF LedgerInv

\* The inductive invariant holds initially.
LEMMA InitInd == Init => IndInv
<1> SUFFICES ASSUME Init
             PROVE  IndInv
    OBVIOUS
<1>1. ledger = EmptyLedger /\ staged = EmptyLedger /\ LedgerInv(EmptyLedger)
      /\ EmptyLedger \in Ledgers /\ EmptyLedger.status = "Active"
    BY EmptyLedgerInv DEF Init, EmptyLedger
<1>2. TypeOK
    BY <1>1 DEF Init, TypeOK
<1>3. Extends(EmptyLedger, EmptyLedger)
    BY <1>1, ExtendsFrame
<1> QED
    BY <1>1, <1>2, <1>3 DEF Init, IndInv, AwaitingUserKeepsNext, CompletedIsEvidenced

\* Without a goal nothing can be declared uncovered.
LEMMA UncoveredBeforeGoal ==
    ASSUME NEW L, LedgerInv(L), L.goal = None
    PROVE  L.uncovered = {}
BY DEF LedgerInv, EvidenceRefersToGoal, GoalCriteria

\* One operation of a batch: what is known of the clone carries over.
LEMMA StageInd ==
    ASSUME IndInv, NEW M, Stage(M), LedgerInv(M), Extends(staged, M)
    PROVE  IndInv'
<1>1. ledger \in Ledgers /\ staged \in Ledgers /\ M \in Ledgers
    BY DEF IndInv, TypeOK, LedgerInv
<1>2. Extends(ledger, M)
    BY <1>1, ExtendsTransitive DEF IndInv
<1>3. TypeOK'
    BY <1>1 DEF IndInv, TypeOK, Stage
<1>4. AwaitingUserKeepsNext' /\ CompletedIsEvidenced'
  <2>1. ledger' = ledger
      BY DEF Stage
  <2> QED
      BY <2>1 DEF IndInv, AwaitingUserKeepsNext, CompletedIsEvidenced, OpenQuestions, IsOpen,
                  MissingAcceptanceCriteria, GoalCriteria, CoveredCriteria, CurrentCheckpoints
<1> QED
    BY <1>2, <1>3, <1>4 DEF IndInv, Stage

\* A snapshot that replaces the ledger, validated and bumped.
LEMMA InstallInd ==
    ASSUME IndInv, NEW M, LedgerInv(M), ValidateSnapshot(M),
           ledger' = Bump(M), staged' = Bump(M),
           holder' \in Writers \cup {None}, applied' \in Nat, expected' = expected
    PROVE  IndInv'
<1> DEFINE B == Bump(M)
<1>1. /\ M \in Ledgers /\ B \in Ledgers
      /\ B.core = M.core /\ B.verified = M.verified /\ B.open = M.open
      /\ B.goal = M.goal /\ B.goal_generation = M.goal_generation
      /\ B.uncovered = M.uncovered /\ B.next = M.next /\ B.status = M.status
      /\ B.awaiting = M.awaiting
  <2>1. M \in Ledgers
      BY DEF LedgerInv
  <2>2. M.revision + 1 \in Nat
      BY <2>1 DEF Ledgers
  <2> QED
      BY <2>1, <2>2 DEF Bump, Ledgers
<1> HIDE DEF B
<1>2. LedgerInv(B)
  <2>1. AwaitingHasNext(B) /\ B.uncovered \subseteq GoalCriteria(M)
      BY <1>1, LedgerInvFacts DEF AwaitingHasNext
  <2>2. SameEvidence(M, B)
      BY <1>1, <2>1 DEF SameEvidence
  <2> QED
      BY <2>2, FrameInv
<1>3. Extends(B, B)
    BY <1>1, ExtendsFrame
<1>4. TypeOK'
    BY <1>1 DEF IndInv, TypeOK, B
<1>5. B.status = "AwaitingUser" => B.awaiting # {} /\ B.next # None
    BY <1>1, <1>2 DEF ValidateSnapshot, LedgerInv, AwaitingHasNext
<1>6. B.status = "Completed" =>
         /\ B.next = None /\ B.awaiting = {} /\ OpenQuestions(B) = {}
         /\ MissingAcceptanceCriteria(B, B.uncovered) = {}
         /\ GoalCriteria(B) = {} => CurrentCheckpoints(B) # {}
  <2> SUFFICES ASSUME B.status = "Completed"
               PROVE  /\ B.next = None /\ B.awaiting = {} /\ OpenQuestions(B) = {}
                      /\ MissingAcceptanceCriteria(B, B.uncovered) = {}
                      /\ GoalCriteria(B) = {} => CurrentCheckpoints(B) # {}
      OBVIOUS
  <2>1. M.next = None /\ ValidateCompletion(M, M.uncovered)
      BY <1>1 DEF ValidateSnapshot
  <2>2. /\ OpenQuestions(B) = OpenQuestions(M) /\ GoalCriteria(B) = GoalCriteria(M)
        /\ CurrentCheckpoints(B) = CurrentCheckpoints(M)
        /\ CoveredCriteria(B) = CoveredCriteria(M)
      BY <1>1 DEF OpenQuestions, GoalCriteria, CurrentCheckpoints, CoveredCriteria
  <2> QED
      BY <1>1, <2>1, <2>2 DEF ValidateCompletion, MissingAcceptanceCriteria
<1>7. AwaitingUserKeepsNext' /\ CompletedIsEvidenced'
  <2>1. ledger' = B
      BY DEF B
  <2> QED
      BY <1>5, <1>6, <2>1
      DEF AwaitingUserKeepsNext, CompletedIsEvidenced, OpenQuestions, IsOpen,
          MissingAcceptanceCriteria, GoalCriteria, CoveredCriteria, CurrentCheckpoints
<1> QED
    BY <1>2, <1>3, <1>4, <1>7 DEF IndInv, B

\* Every step, one case per action, preserves the inductive invariant.
LEMMA NextInd ==
    ASSUME IndInv, [Next]_vars
    PROVE  IndInv'
<1>1. /\ ledger \in Ledgers /\ staged \in Ledgers /\ LedgerInv(ledger) /\ LedgerInv(staged)
      /\ None \notin Writers
    BY BoundsAssumption DEF IndInv, TypeOK
<1>2. ASSUME NEW w \in Writers, Read(w)
      PROVE  IndInv'
    BY <1>1, <1>2
    DEF Read, IndInv, TypeOK, Ledgers, AwaitingUserKeepsNext, CompletedIsEvidenced,
        OpenQuestions, IsOpen, MissingAcceptanceCriteria, GoalCriteria, CoveredCriteria,
        CurrentCheckpoints
<1>3. ASSUME NEW w \in Writers, Begin(w)
      PROVE  IndInv'
  <2>1. Extends(ledger, ledger)
      BY <1>1, ExtendsFrame
  <2> QED
      BY <1>1, <1>3, <2>1
      DEF Begin, IndInv, TypeOK, AwaitingUserKeepsNext, CompletedIsEvidenced,
          OpenQuestions, IsOpen, MissingAcceptanceCriteria, GoalCriteria, CoveredCriteria,
          CurrentCheckpoints
<1>4. ASSUME NEW w \in Writers, NEW goal \in Goals, NEW s \in Statements, StartGoalTx(w, goal, s)
      PROVE  IndInv'
  <2>1. LedgerInv(StartGoal(ledger, goal, s))
      BY <1>1, StartGoalInv
  <2> QED
      BY <1>4, <2>1, InstallInd DEF StartGoalTx, IndInv, TypeOK
<1>5. CASE GoalOp
  <2>1. ASSUME NEW goal \in Goals, OpSetGoal(goal)
        PROVE  IndInv'
    <3>1. LedgerInv(SetGoal(staged, goal))
        BY <1>1, SetGoalInv
    <3>2. Extends(staged, SetGoal(staged, goal))
        BY <1>1, GoalOpsExtend
    <3> QED
        BY <2>1, <3>1, <3>2, StageInd DEF OpSetGoal
  <2>2. ASSUME NEW goal \in Goals, NEW s \in Statements, OpCreate(goal, s)
        PROVE  IndInv'
    <3>1. CreateOk(staged, goal) /\ staged.uncovered = {}
        BY <1>1, <2>2, UncoveredBeforeGoal DEF OpCreate, CreateOk
    <3>2. LedgerInv(Create(staged, goal, s)) /\ Extends(staged, Create(staged, goal, s))
        BY <1>1, <3>1, CreateInv, GoalOpsExtend
    <3> QED
        BY <2>2, <3>2, StageInd DEF OpCreate
  <2> QED
      BY <1>5, <2>1, <2>2 DEF GoalOp
<1>6. CASE CoreOp
  <2>1. ASSUME NEW s \in Statements, NEW live \in BOOLEAN, OpAddCore(s, live)
        PROVE  IndInv'
    <3>1. LedgerInv(AddCore(staged, s, live)) /\ Extends(staged, AddCore(staged, s, live))
        BY <1>1, <2>1, AddCoreInv, ListOpsExtend DEF OpAddCore
    <3> QED
        BY <2>1, <3>1, StageInd DEF OpAddCore
  <2>2. ASSUME NEW s \in Statements, NEW slot \in {1, 2}, OpSwapCoreLive(slot, s)
        PROVE  IndInv'
    <3>1. /\ LedgerInv(SwapCoreLive(staged, slot, s))
          /\ Extends(staged, SwapCoreLive(staged, slot, s))
        BY <1>1, SwapCoreLiveInv, ListOpsExtend
    <3> QED
        BY <2>2, <3>1, StageInd DEF OpSwapCoreLive
  <2> QED
      BY <1>6, <2>1, <2>2 DEF CoreOp
<1>7. CASE EvidenceOp
  <2>1. ASSUME NEW v \in Verifiers, NEW c \in SUBSET Criteria,
               NEW p \in 0..Len(staged.verified), OpAddCheckpoint(v, c, p)
        PROVE  IndInv'
    <3>1. AddCheckpointOk(staged, c, p) /\ p \in Nat
        BY <2>1 DEF OpAddCheckpoint
    <3>2. /\ LedgerInv(AddCheckpoint(staged, v, c, p))
          /\ Extends(staged, AddCheckpoint(staged, v, c, p))
        BY <1>1, <3>1, AddCheckpointInv, AddCheckpointExtends
    <3> QED
        BY <2>1, <3>2, StageInd DEF OpAddCheckpoint
  <2>2. ASSUME NEW v \in Verifiers, NEW c \in SUBSET Criteria, NEW i \in DOMAIN staged.open,
               OpCloseOpenWithCheckpoint(staged.open[i].id, v, c)
        PROVE  IndInv'
    <3> DEFINE q == staged.open[i].id
    <3>1. CloseOpenWithCheckpointOk(staged, q, c)
        BY <2>2 DEF OpCloseOpenWithCheckpoint
    <3>2. q \in Nat
      <4>1. staged.open[i] \in Questions
          BY <1>1, <2>2 DEF Ledgers
      <4> QED
          BY <4>1 DEF Questions
    <3> HIDE DEF q
    <3>3. /\ LedgerInv(CloseOpenWithCheckpoint(staged, q, v, c))
          /\ Extends(staged, CloseOpenWithCheckpoint(staged, q, v, c))
        BY <1>1, <3>1, <3>2, CloseOpenInv, CloseOpenExtends
    <3>4. Stage(CloseOpenWithCheckpoint(staged, q, v, c))
        BY <2>2 DEF OpCloseOpenWithCheckpoint, q
    <3> QED
        BY <3>3, <3>4, StageInd
  <2>3. ASSUME NEW s \in Statements, OpOpenQuestion(s)
        PROVE  IndInv'
    <3>1. LedgerInv(OpenQuestion(staged, s)) /\ Extends(staged, OpenQuestion(staged, s))
        BY <1>1, OpenQuestionInv, ListOpsExtend
    <3> QED
        BY <2>3, <3>1, StageInd DEF OpOpenQuestion
  <2> QED
      BY <1>7, <2>1, <2>2, <2>3 DEF EvidenceOp
<1>8. CASE StatusOp
  <2>1. ASSUME NEW s \in Statements, OpSetNext(s)
        PROVE  IndInv'
      BY <1>1, <2>1, SetNextInv, StatusOpsExtend, StageInd DEF OpSetNext
  <2>2. ASSUME NEW x \in Interactions, OpSetAwaiting(x)
        PROVE  IndInv'
      BY <1>1, <2>2, SetAwaitingInv, StatusOpsExtend, StageInd DEF OpSetAwaiting
  <2>3. ASSUME NEW x \in Interactions, OpResolveInteraction(x)
        PROVE  IndInv'
      BY <1>1, <2>3, ResolveInteractionInv, StatusOpsExtend, StageInd DEF OpResolveInteraction
  <2>4. CASE OpSetBlocked
      BY <1>1, <2>4, SetBlockedInv, StatusOpsExtend, StageInd DEF OpSetBlocked
  <2>5. CASE OpSetActive
      BY <1>1, <2>5, SetActiveInv, StatusOpsExtend, StageInd DEF OpSetActive
  <2>6. CASE OpSetInterrupted
      BY <1>1, <2>6, SetInterruptedInv, StatusOpsExtend, StageInd DEF OpSetInterrupted
  <2>7. CASE OpSetCompleted
      BY <1>1, <2>7, SetCompletedInv, StatusOpsExtend, StageInd DEF OpSetCompleted
  <2>8. CASE OpInterrupt
      BY <1>1, <2>8, SetInterruptedInv, StatusOpsExtend, StageInd DEF OpInterrupt
  <2>9. ASSUME NEW u \in SUBSET Criteria, OpComplete(u)
        PROVE  IndInv'
      BY <1>1, <2>9, CompleteInv, StatusOpsExtend, StageInd DEF OpComplete
  <2> QED
      BY <1>8, <2>1, <2>2, <2>3, <2>4, <2>5, <2>6, <2>7, <2>8, <2>9 DEF StatusOp
<1>9. CASE Commit
    BY <1>1, <1>9, InstallInd DEF Commit
<1>10. CASE Reject
  <2>1. Extends(ledger, ledger)
      BY <1>1, ExtendsFrame
  <2> QED
      BY <1>1, <1>10, <2>1
      DEF Reject, IndInv, TypeOK, AwaitingUserKeepsNext, CompletedIsEvidenced,
          OpenQuestions, IsOpen, MissingAcceptanceCriteria, GoalCriteria, CoveredCriteria,
          CurrentCheckpoints
<1>11. CASE UNCHANGED vars
    BY <1>11
    DEF vars, IndInv, TypeOK, AwaitingUserKeepsNext, CompletedIsEvidenced,
        OpenQuestions, IsOpen, MissingAcceptanceCriteria, GoalCriteria, CoveredCriteria,
        CurrentCheckpoints
<1> QED
    BY <1>2, <1>3, <1>4, <1>5, <1>6, <1>7, <1>8, <1>9, <1>10, <1>11 DEF Next

\* The inductive invariant holds in every reachable state.
LEMMA Inductive == Spec => []IndInv
BY InitInd, NextInd, PTL DEF Spec

-----------------------------------------------------------------------------
(* The theorems *)

\* The ledger, the clone of apply_batch and the writers' revisions keep their types.
THEOREM TypeCorrect == Spec => []TypeOK
<1>1. IndInv => TypeOK
    BY DEF IndInv
<1> QED
    BY <1>1, Inductive, PTL

\* A ledger that waits for the user keeps a next action to resume with
\* (documented invariant 5, which validate_snapshot does not test).
THEOREM AwaitingUserKeepsNextHolds == Spec => []AwaitingUserKeepsNext
<1>1. IndInv => AwaitingUserKeepsNext
    BY DEF IndInv
<1> QED
    BY <1>1, Inductive, PTL

\* Evidence that counts, and the uncovered declaration, refer to the criteria of
\* the current goal, after every operation of every batch.
THEOREM EvidenceMatchesGoalHolds == Spec => []EvidenceMatchesGoal
<1>1. IndInv => EvidenceMatchesGoal
    BY DEF IndInv, LedgerInv, EvidenceMatchesGoal
<1> QED
    BY <1>1, Inductive, PTL

\* AddCheckpoint's supersede links form forward chains, each checkpoint
\* corrected at most once.
THEOREM HistoryIsForwardChainsHolds == Spec => []HistoryIsForwardChains
<1>1. IndInv => HistoryIsForwardChains
    BY DEF IndInv, LedgerInv, HistoryIsForwardChains
<1> QED
    BY <1>1, Inductive, PTL

\* CloseOpenWithCheckpoint closes each question with a checkpoint of its own.
THEOREM ClosedByOwnCheckpointHolds == Spec => []ClosedByOwnCheckpoint
<1>1. IndInv => ClosedByOwnCheckpoint
    BY DEF IndInv, LedgerInv, QuestionsClosedOnce, ClosedByOwnCheckpoint, IsOpen
<1> QED
    BY <1>1, Inductive, PTL

\* AddCore and SwapCoreLive keep at most two entries live and the ids distinct.
THEOREM CoreLimitHolds == Spec => []CoreLimit
<1>1. IndInv => CoreLimit
    BY DEF IndInv, LedgerInv, CoreLimit
<1> QED
    BY <1>1, Inductive, PTL

\* A completed ledger's evidence is still sound whatever came after the gate.
THEOREM CompletedIsEvidencedHolds == Spec => []CompletedIsEvidenced
<1>1. IndInv => CompletedIsEvidenced
    BY DEF IndInv
<1> QED
    BY <1>1, Inductive, PTL

\* The lists of the ledger keep their shape under every sequence of batches of
\* any number of writers: the parts of LedgerSound together.
THEOREM LedgerSoundHolds == Spec => []LedgerSound
<1>1. TypeOK /\ AwaitingUserKeepsNext /\ HistoryIsForwardChains /\ ClosedByOwnCheckpoint /\ CoreLimit
         => LedgerSound
    BY DEF LedgerSound
<1> QED
    BY <1>1, TypeCorrect, AwaitingUserKeepsNextHolds, HistoryIsForwardChainsHolds,
       ClosedByOwnCheckpointHolds, CoreLimitHolds, PTL

\* Evidence belongs to the goal and completion rests on it, through every
\* correction and replacement of the goal: the parts of EvidenceSound together.
THEOREM EvidenceSoundHolds == Spec => []EvidenceSound
<1>1. EvidenceMatchesGoal /\ CompletedIsEvidenced => EvidenceSound
    BY DEF EvidenceSound
<1> QED
    BY <1>1, EvidenceMatchesGoalHolds, CompletedIsEvidencedHolds, PTL

\* A step that changes the ledger installs a snapshot that extends it.
LEMMA StepExtends ==
    ASSUME IndInv, [Next]_vars, ledger' # ledger
    PROVE  \E M : M \in Ledgers /\ Extends(ledger, M) /\ ledger' = Bump(M)
<1>1. ledger \in Ledgers /\ staged \in Ledgers /\ LedgerInv(ledger) /\ Extends(ledger, staged)
    BY DEF IndInv, TypeOK
<1>2. CASE Commit
    BY <1>1, <1>2 DEF Commit
<1>3. ASSUME NEW w \in Writers, NEW goal \in Goals, NEW s \in Statements, StartGoalTx(w, goal, s)
      PROVE  \E M : M \in Ledgers /\ Extends(ledger, M) /\ ledger' = Bump(M)
  <2>1. /\ StartGoal(ledger, goal, s) \in Ledgers
        /\ Extends(ledger, StartGoal(ledger, goal, s))
      BY <1>1, StartGoalInv, GoalOpsExtend DEF LedgerInv
  <2> QED
      BY <1>3, <2>1 DEF StartGoalTx
<1>4. CASE ~Commit
  <2>1. ASSUME NEW w \in Writers, Read(w) \/ Begin(w)
        PROVE  ledger' = ledger
      BY <2>1 DEF Read, Begin
  <2>2. CASE GoalOp
      BY <2>2 DEF GoalOp, OpSetGoal, OpCreate, Stage
  <2>3. CASE CoreOp
      BY <2>3 DEF CoreOp, OpAddCore, OpSwapCoreLive, Stage
  <2>4. CASE EvidenceOp
      BY <2>4 DEF EvidenceOp, OpAddCheckpoint, OpCloseOpenWithCheckpoint, OpOpenQuestion, Stage
  <2>5. CASE StatusOp
      BY <2>5 DEF StatusOp, OpSetNext, OpSetAwaiting, OpResolveInteraction, OpSetBlocked,
                  OpSetActive, OpSetInterrupted, OpSetCompleted, OpInterrupt, OpComplete, Stage
  <2>6. CASE Reject \/ UNCHANGED vars
      BY <2>6 DEF Reject, vars
  <2> QED
      BY <1>3, <1>4, <2>1, <2>2, <2>3, <2>4, <2>5, <2>6 DEF Next
<1> QED
    BY <1>2, <1>4

\* The bump touches the revision only.
LEMMA BumpFacts ==
    ASSUME NEW M \in Ledgers
    PROVE  /\ Bump(M).revision = M.revision + 1 /\ Bump(M).verified = M.verified
           /\ Bump(M).goal = M.goal /\ Bump(M).goal_generation = M.goal_generation
BY DEF Bump, Ledgers

\* No writer's step drops or rewrites a checkpoint (documented invariant 1).
THEOREM VerifiedAppendOnlyHolds == Spec => VerifiedAppendOnly
<1> DEFINE A == /\ Len(ledger.verified) <= Len(ledger'.verified)
                /\ \A i \in DOMAIN ledger.verified :
                      KeepsCheckpoint(ledger.verified[i], ledger'.verified[i])
<1>1. IndInv /\ [Next]_vars => [A]_vars
  <2> SUFFICES ASSUME IndInv, [Next]_vars
               PROVE  A
      OBVIOUS
  <2>1. ledger \in Ledgers
      BY DEF IndInv, TypeOK
  <2>2. CASE ledger' = ledger
    <3>1. Extends(ledger, ledger)
        BY <2>1, ExtendsFrame
    <3> QED
        BY <2>2, <3>1 DEF Extends
  <2>3. CASE ledger' # ledger
    <3>1. PICK M \in Ledgers : Extends(ledger, M) /\ ledger' = Bump(M)
        BY <2>3, StepExtends
    <3> QED
        BY <3>1, BumpFacts DEF Extends
  <2> QED
      BY <2>2, <2>3
<1> QED
    BY <1>1, Inductive, PTL DEF Spec, VerifiedAppendOnly

\* A commit is one revision, and a goal changes only with its generation.
THEOREM GenerationTracksGoalHolds == Spec => GenerationTracksGoal
<1> DEFINE A == /\ ledger' # ledger => ledger'.revision = ledger.revision + 1
                /\ ledger'.goal # ledger.goal
                      => ledger'.goal_generation > ledger.goal_generation
                /\ ledger'.goal_generation >= ledger.goal_generation
<1>1. IndInv /\ [Next]_vars => [A]_vars
  <2> SUFFICES ASSUME IndInv, [Next]_vars
               PROVE  A
      OBVIOUS
  <2>1. ledger.goal_generation \in Nat
      BY DEF IndInv, TypeOK, Ledgers
  <2>2. CASE ledger' = ledger
      BY <2>1, <2>2
  <2>3. CASE ledger' # ledger
    <3>1. PICK M \in Ledgers : Extends(ledger, M) /\ ledger' = Bump(M)
        BY <2>3, StepExtends
    <3> QED
        BY <3>1, BumpFacts DEF Extends
  <2> QED
      BY <2>2, <2>3
<1> QED
    BY <1>1, Inductive, PTL DEF Spec, GenerationTracksGoal

=============================================================================
