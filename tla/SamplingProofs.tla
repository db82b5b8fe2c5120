--------------------------- MODULE SamplingProofs ---------------------------
(***************************************************************************)
(* What the algorithms of Sampling compute, for every sequence, set and    *)
(* bound: what is dealt is dealt fairly, and what is drawn depends on      *)
(* nothing but how the candidates compare with one another.                *)
(*                                                                         *)
(* An induction is a least counterexample here (LeastElement): the         *)
(* theorems of the library that take a predicate cannot be instantiated.   *)
(***************************************************************************)
EXTENDS Sampling, FiniteSetTheorems, SequenceTheorems, NaturalsInduction, WellFoundedInduction,
        TLAPS

-----------------------------------------------------------------------------
(* Sequences without some of their values *)

\* Induction, as the provers can use it: what fails for a number fails for a least one.
LEMMA LeastElement ==
  ASSUME NEW S, S \subseteq Nat, S # {}
  PROVE  \E n \in S : \A k \in S : n <= k
<1>1. PICK n \in S : \A k \in S : <<k, n>> \notin OpToRel(<, Nat)
  BY WFMin, NatLessThanWellFounded, Zenon
<1>2. \A k \in S : ~(k < n)
  BY <1>1, Zenon DEF OpToRel
<1> QED
  BY <1>2

\* The members up to one of them.
UpTo(S, i) == {j \in S : j <= i}

\* A finite set of numbers has a first, a second, ... and a last member.
LEMMA KthMember ==
  ASSUME NEW S, S \subseteq Nat, IsFiniteSet(S), NEW k \in 1..Cardinality(S)
  PROVE  \E i \in S : Cardinality(UpTo(S, i)) = k
<1> DEFINE None == {n \in 1..Cardinality(S) : ~\E i \in S : Cardinality(UpTo(S, i)) = n}
<1>0. Cardinality(S) \in Nat /\ \A i : IsFiniteSet(UpTo(S, i))
  BY FS_CardinalityType, FS_Subset DEF UpTo
<1>n. /\ \A a, b \in S : (a <= b \/ b <= a) /\ (a <= b /\ b <= a => a = b) /\ a <= a
      /\ \A a, b, c \in S : a <= b /\ b <= c => a <= c
  <2>1. /\ \A a, b \in Nat : (a <= b \/ b <= a) /\ (a <= b /\ b <= a => a = b) /\ a <= a
        /\ \A a, b, c \in Nat : a <= b /\ b <= c => a <= c
    OBVIOUS
  <2> QED BY <2>1, Zenon
<1> SUFFICES ASSUME None # {} PROVE FALSE
  OBVIOUS
<1>1. PICK n \in None : \A l \in None : n <= l
  <2>1. None \subseteq Nat
    BY <1>0
  <2> QED BY <2>1, LeastElement
<1>2. n \in Nat /\ 1 <= n /\ n <= Cardinality(S) /\ ~\E i \in S : Cardinality(UpTo(S, i)) = n
  BY <1>0, <1>1
<1>3. CASE n = 1
  <2>1. S # {}
    BY <1>0, <1>2, FS_EmptySet
  <2>2. PICK i \in S : \A j \in S : i <= j
    BY <2>1, LeastElement
  <2>3. UpTo(S, i) = {i}
    BY <1>n, <2>2, Zenon DEF UpTo
  <2> QED BY <1>2, <1>3, <2>3, FS_Singleton
<1>4. CASE n # 1
  <2>1. n - 1 \in 1..Cardinality(S) /\ n - 1 \notin None
    <3>1. n - 1 \in 1..Cardinality(S) /\ ~(n <= n - 1)
      BY <1>0, <1>2, <1>4
    <3> QED BY <1>1, <3>1
  <2>2. PICK i \in S : Cardinality(UpTo(S, i)) = n - 1
    BY <2>1
  <2> DEFINE Later == {j \in S : ~(j <= i)}
  <2>3. Later # {}
    <3>1. Later = {} => UpTo(S, i) = S
      BY DEF UpTo
    <3>2. n - 1 # Cardinality(S)
      BY <1>0, <1>2
    <3> QED BY <2>2, <3>1, <3>2
  <2>4. PICK l \in Later : \A j \in Later : l <= j
    BY <2>3, LeastElement
  <2>5. ASSUME NEW j \in S PROVE j <= l <=> j <= i \/ j = l
    BY <1>n, <2>4, Zenon
  <2>6. UpTo(S, l) = UpTo(S, i) \cup {l} /\ l \notin UpTo(S, i)
    BY <2>4, <2>5, Zenon DEF UpTo
  <2>7. Cardinality(UpTo(S, l)) = Cardinality(UpTo(S, i)) + 1
    <3>1. IsFiniteSet(UpTo(S, i))
      BY <1>0
    <3> QED BY <2>6, <3>1, FS_AddElement
  <2>8. Cardinality(UpTo(S, l)) = n
    BY <1>2, <2>2, <2>7
  <2> QED BY <1>2, <2>4, <2>8
<1> QED BY <1>3, <1>4

LEMMA AscendingMembers ==
  ASSUME NEW S, S \subseteq Nat, IsFiniteSet(S)
  PROVE  /\ DOMAIN Ascending(S) = 1..Cardinality(S)
         /\ \A k \in 1..Cardinality(S) : /\ Ascending(S)[k] \in S
                                         /\ Cardinality(UpTo(S, Ascending(S)[k])) = k
<1>1. DOMAIN Ascending(S) = 1..Cardinality(S)
  BY DEF Ascending
<1>2. \A k \in 1..Cardinality(S) : Ascending(S)[k] = CHOOSE i \in S : Cardinality(UpTo(S, i)) = k
  BY DEF Ascending, UpTo
<1> QED BY <1>1, <1>2, KthMember

LEMMA AscendingOnto ==
  ASSUME NEW S, S \subseteq Nat, IsFiniteSet(S), NEW i \in S
  PROVE  \E k \in 1..Cardinality(S) : Ascending(S)[k] = i
<1> DEFINE n == Cardinality(UpTo(S, i))
<1>0. Cardinality(S) \in Nat /\ \A l : IsFiniteSet(UpTo(S, l)) /\ Cardinality(UpTo(S, l)) \in Nat
  BY FS_CardinalityType, FS_Subset DEF UpTo
<1>n. /\ \A a, b \in S : (a <= b \/ b <= a) /\ (a <= b /\ b <= a => a = b) /\ a <= a
      /\ \A a, b, c \in S : a <= b /\ b <= c => a <= c
  <2>1. /\ \A a, b \in Nat : (a <= b \/ b <= a) /\ (a <= b /\ b <= a => a = b) /\ a <= a
        /\ \A a, b, c \in Nat : a <= b /\ b <= c => a <= c
    OBVIOUS
  <2> QED BY <2>1, Zenon
<1>1. n \in 1..Cardinality(S)
  <2>1. i \in UpTo(S, i)
    BY <1>n DEF UpTo
  <2>2. n # 0
    BY <1>0, <2>1, FS_EmptySet
  <2>3. n <= Cardinality(S)
    BY FS_Subset DEF UpTo
  <2> QED BY <1>0, <2>2, <2>3
<1>2. ASSUME NEW l \in S, Cardinality(UpTo(S, l)) = n PROVE l = i
  <2>1. UpTo(S, l) \subseteq UpTo(S, i) \/ UpTo(S, i) \subseteq UpTo(S, l)
    BY <1>n, Zenon DEF UpTo
  <2>2. UpTo(S, l) = UpTo(S, i)
    BY <1>0, <1>2, <2>1, FS_Subset
  <2>3. l \in UpTo(S, l) /\ i \in UpTo(S, i)
    BY <1>n DEF UpTo
  <2>4. l <= i /\ i <= l
    BY <2>2, <2>3 DEF UpTo
  <2> QED BY <1>n, <2>4
<1>3. Ascending(S)[n] = CHOOSE l \in S : Cardinality(UpTo(S, l)) = n
  BY <1>1 DEF Ascending, UpTo
<1>4. Ascending(S)[n] = i
  BY <1>2, <1>3
<1> QED BY <1>1, <1>4

KeptAt(s, S) == {i \in DOMAIN s : s[i] \in S}

LEMMA Positions ==
  ASSUME NEW s, NEW V, s \in Seq(V), NEW S
  PROVE  /\ KeptAt(s, S) \subseteq Nat /\ IsFiniteSet(KeptAt(s, S)) /\ Cardinality(KeptAt(s, S)) \in Nat
         /\ Those(s, S) = [k \in 1..Cardinality(KeptAt(s, S)) |-> s[Ascending(KeptAt(s, S))[k]]]
<1>1. KeptAt(s, S) \subseteq Nat /\ IsFiniteSet(KeptAt(s, S))
  <2>1. DOMAIN s = 1..Len(s) /\ Len(s) \in Nat
    OBVIOUS
  <2>2. IsFiniteSet(1..Len(s))
    BY <2>1, FS_Interval
  <2>3. KeptAt(s, S) \subseteq 1..Len(s)
    BY <2>1 DEF KeptAt
  <2>4. IsFiniteSet(KeptAt(s, S))
    BY <2>2, <2>3, FS_Subset
  <2> QED BY <2>1, <2>3, <2>4
<1>2. DOMAIN Ascending(KeptAt(s, S)) = 1..Cardinality(KeptAt(s, S))
  BY DEF Ascending
<1>3. Those(s, S) = [k \in DOMAIN Ascending(KeptAt(s, S)) |-> s[Ascending(KeptAt(s, S))[k]]]
  BY DEF Those, KeptAt
<1> QED BY <1>1, <1>2, <1>3, FS_CardinalityType

LEMMA SeqIs ==
  ASSUME NEW n \in Nat, NEW V, NEW s \in [1..n -> V]
  PROVE  s \in Seq(V) /\ Len(s) = n
<1>1. s \in Seq(V)
  BY SeqDef
<1>2. DOMAIN s = 1..n
  OBVIOUS
<1> QED BY <1>1, <1>2, LenProperties

\* What is left is what was to be left: all of it, in the sequence.
LEMMA ThoseMembers ==
  ASSUME NEW s, NEW V, s \in Seq(V), NEW S
  PROVE  /\ Those(s, S) \in Seq(V)
         /\ \A k \in DOMAIN Those(s, S) : Those(s, S)[k] \in S /\ Those(s, S)[k] \in Range(s)
         /\ \A i \in DOMAIN s : s[i] \in S => \E k \in DOMAIN Those(s, S) : Those(s, S)[k] = s[i]
<1> DEFINE P == KeptAt(s, S)
<1>1. /\ P \subseteq Nat /\ IsFiniteSet(P) /\ Cardinality(P) \in Nat
      /\ Those(s, S) = [k \in 1..Cardinality(P) |-> s[Ascending(P)[k]]]
  BY Positions
<1>2. \A k \in 1..Cardinality(P) : Ascending(P)[k] \in P
  BY <1>1, AscendingMembers
<1>3. \A i \in P : \E k \in 1..Cardinality(P) : Ascending(P)[k] = i
  BY <1>1, AscendingOnto
<1>4. \A i \in P : i \in DOMAIN s /\ s[i] \in S /\ s[i] \in V
  BY DEF KeptAt
<1>7. \A i \in DOMAIN s : s[i] \in S => i \in P
  BY DEF KeptAt
<1> HIDE DEF P
<1>5. \A k \in DOMAIN Those(s, S) : Those(s, S)[k] \in S /\ Those(s, S)[k] \in Range(s)
  BY <1>1, <1>2, <1>4 DEF Range
<1>6. Those(s, S) \in Seq(V)
  <2>1. Those(s, S) \in [1..Cardinality(P) -> V]
    BY <1>1, <1>2, <1>4
  <2> QED BY <1>1, <2>1, SeqIs
<1>8. \A i \in P : \E k \in DOMAIN Those(s, S) : Those(s, S)[k] = s[i]
  BY <1>1, <1>3
<1> QED BY <1>5, <1>6, <1>7, <1>8

\* Distinct values stay distinct.
LEMMA ThoseDistinct ==
  ASSUME NEW s, NEW V, s \in Seq(V), NEW S, \A i, j \in DOMAIN s : s[i] = s[j] => i = j
  PROVE  \A k, l \in DOMAIN Those(s, S) : Those(s, S)[k] = Those(s, S)[l] => k = l
<1> DEFINE P == KeptAt(s, S)
<1>1. /\ P \subseteq Nat /\ IsFiniteSet(P) /\ Cardinality(P) \in Nat
      /\ Those(s, S) = [k \in 1..Cardinality(P) |-> s[Ascending(P)[k]]]
  BY Positions
<1>3. \A i \in P : i \in DOMAIN s
  BY DEF KeptAt
<1> HIDE DEF P
<1>2. ASSUME NEW k \in 1..Cardinality(P) PROVE Ascending(P)[k] \in P /\ Cardinality(UpTo(P, Ascending(P)[k])) = k
  BY <1>1, AscendingMembers
<1>4. ASSUME NEW k \in 1..Cardinality(P), NEW l \in 1..Cardinality(P), Those(s, S)[k] = Those(s, S)[l]
      PROVE  k = l
  <2>1. s[Ascending(P)[k]] = s[Ascending(P)[l]]
    BY <1>1, <1>4
  <2>2. Ascending(P)[k] \in DOMAIN s /\ Ascending(P)[l] \in DOMAIN s
    BY <1>2, <1>3
  <2>3. Ascending(P)[k] = Ascending(P)[l]
    BY <2>1, <2>2
  <2> QED BY <1>2, <2>3
<1>5. DOMAIN Those(s, S) = 1..Cardinality(P)
  BY <1>1
<1> QED BY <1>4, <1>5

-----------------------------------------------------------------------------
(* Sums *)

\* Induction over the subsets of a finite set.
LEMMA LeastSubset ==
  ASSUME NEW S, IsFiniteSet(S), NEW Bad, Bad \subseteq SUBSET S, Bad # {}
  PROVE  \E s \in Bad : \A t \in Bad : t \subseteq s => t = s
<1> DEFINE Sizes == {Cardinality(s) : s \in Bad}
<1>1. \A s \in Bad : IsFiniteSet(s) /\ Cardinality(s) \in Nat
  BY FS_Subset, FS_CardinalityType
<1>2. Sizes \subseteq Nat /\ Sizes # {}
  BY <1>1
<1>3. PICK n \in Sizes : \A m \in Sizes : n <= m
  BY <1>2, LeastElement
<1>4. PICK s \in Bad : Cardinality(s) = n
  BY <1>3
<1>5. ASSUME NEW t \in Bad, t \subseteq s, t # s PROVE FALSE
  <2>1. Cardinality(t) <= Cardinality(s) /\ (Cardinality(t) = Cardinality(s) => t = s)
    BY <1>1, <1>5, FS_Subset
  <2>2. n <= Cardinality(t)
    BY <1>3
  <2> QED BY <1>1, <1>2, <1>4, <1>5, <2>1, <2>2
<1> QED BY <1>4, <1>5

Chosen(s) == CHOOSE x \in s : TRUE
IsSum(b, S, g) ==
  g = [s \in SUBSET S |-> IF s = {} THEN 0 ELSE b[Chosen(s)] + g[s \ {Chosen(s)}]]
SumIn(b, S) == CHOOSE g : IsSum(b, S, g)

\* The sum of some of the values.
PartSum(b, s) == SumIn(b, DOMAIN b)[s]

LEMMA TotalIsSum ==
  ASSUME NEW b PROVE Total(b) = PartSum(b, DOMAIN b)
BY DEF Total, MapThenSumSet, MapThenFoldSet, IsSum, SumIn, PartSum, Chosen

Sized(S, n) == {s \in SUBSET S : Cardinality(s) <= n}
SumTo(b, S, n, g) ==
  g = [s \in Sized(S, n) |-> IF s = {} THEN 0 ELSE b[Chosen(s)] + g[s \ {Chosen(s)}]]

LEMMA SmallerSet ==
  ASSUME NEW S, IsFiniteSet(S), NEW s \in SUBSET S, s # {}, NEW x \in s
  PROVE  /\ s \ {x} \in SUBSET S /\ s \ {x} # s
         /\ Cardinality(s) \in Nat /\ Cardinality(s \ {x}) \in Nat
         /\ Cardinality(s) = Cardinality(s \ {x}) + 1
<1>1. IsFiniteSet(s)
  BY FS_Subset
<1>2. IsFiniteSet(s \ {x}) /\ Cardinality(s \ {x}) = Cardinality(s) - 1
  BY <1>1, FS_RemoveElement
<1> QED BY <1>1, <1>2, FS_CardinalityType

LEMMA SumExists ==
  ASSUME NEW S, IsFiniteSet(S), NEW b
  PROVE  IsSum(b, S, SumIn(b, S))
<1> DEFINE Bad == {n \in Nat : ~\E g : SumTo(b, S, n, g)}
<1>1. Bad = {}
  <2> SUFFICES ASSUME Bad # {} PROVE FALSE
    OBVIOUS
  <2>1. PICK n \in Bad : \A m \in Bad : n <= m
    BY LeastElement
  <2>2. CASE n = 0
    <3>1. \A s \in Sized(S, 0) : s = {}
      <4> SUFFICES ASSUME NEW s \in Sized(S, 0), s # {} PROVE FALSE
        OBVIOUS
      <4>1. IsFiniteSet(s) /\ Cardinality(s) <= 0
        BY FS_Subset DEF Sized
      <4> QED BY <4>1, FS_CardinalityType, FS_EmptySet
    <3> DEFINE g == [s \in Sized(S, 0) |-> 0]
    <3>2. SumTo(b, S, 0, g)
      BY <3>1 DEF SumTo
    <3> QED BY <2>2, <3>2
  <2>3. CASE n # 0
    <3>1. n - 1 \in Nat /\ n - 1 \notin Bad
      <4>1. n - 1 \in Nat /\ ~(n <= n - 1)
        BY <2>3
      <4> QED BY <2>1, <4>1
    <3>2. PICK g : SumTo(b, S, n - 1, g)
      BY <3>1
    <3> DEFINE h == [s \in Sized(S, n) |-> IF s = {} THEN 0 ELSE b[Chosen(s)] + g[s \ {Chosen(s)}]]
    <3>3. ASSUME NEW s \in Sized(S, n), s # {}
          PROVE  /\ s \ {Chosen(s)} \in Sized(S, n - 1)
                 /\ s \ {Chosen(s)} \in Sized(S, n)
      <4>1. Chosen(s) \in s
        BY <3>3 DEF Chosen
      <4>2. s \in SUBSET S /\ Cardinality(s) <= n
        BY DEF Sized
      <4>3. /\ s \ {Chosen(s)} \in SUBSET S
            /\ Cardinality(s) \in Nat /\ Cardinality(s \ {Chosen(s)}) \in Nat
            /\ Cardinality(s) = Cardinality(s \ {Chosen(s)}) + 1
        BY <3>3, <4>1, <4>2, SmallerSet
      <4>4. Cardinality(s \ {Chosen(s)}) <= n - 1 /\ Cardinality(s \ {Chosen(s)}) <= n
        BY <4>2, <4>3
      <4> QED BY <4>3, <4>4 DEF Sized
    <3>4. ASSUME NEW s \in Sized(S, n), s # {} PROVE g[s \ {Chosen(s)}] = h[s \ {Chosen(s)}]
      <4> DEFINE t == s \ {Chosen(s)}
      <4>1. t \in Sized(S, n - 1) /\ t \in Sized(S, n)
        BY <3>3, <3>4
      <4>2. g[t] = IF t = {} THEN 0 ELSE b[Chosen(t)] + g[t \ {Chosen(t)}]
        BY <3>2, <4>1 DEF SumTo
      <4>3. h[t] = IF t = {} THEN 0 ELSE b[Chosen(t)] + g[t \ {Chosen(t)}]
        BY <4>1
      <4> QED BY <4>2, <4>3
    <3>5. SumTo(b, S, n, h)
      <4>1. \A s \in Sized(S, n) : (IF s = {} THEN 0 ELSE b[Chosen(s)] + g[s \ {Chosen(s)}])
                                   = IF s = {} THEN 0 ELSE b[Chosen(s)] + h[s \ {Chosen(s)}]
        BY <3>4
      <4> HIDE DEF h
      <4>2. h = [s \in Sized(S, n) |-> IF s = {} THEN 0 ELSE b[Chosen(s)] + g[s \ {Chosen(s)}]]
        BY DEF h
      <4> QED BY <4>1, <4>2 DEF SumTo
    <3> QED BY <3>5
  <2> QED BY <2>2, <2>3
<1>2. \E g : SumTo(b, S, Cardinality(S), g)
  BY <1>1, FS_CardinalityType
<1>3. Sized(S, Cardinality(S)) = SUBSET S
  BY FS_Subset DEF Sized
<1>4. \E g : IsSum(b, S, g)
  BY <1>2, <1>3 DEF SumTo, IsSum
<1> QED BY <1>4 DEF SumIn

\* A finite family of numbers.
Family(b, S) == IsFiniteSet(S) /\ b \in [S -> Nat]

LEMMA SumStep ==
  ASSUME NEW b, NEW S, Family(b, S)
  PROVE  \A s \in SUBSET S : PartSum(b, s) = IF s = {} THEN 0
                                             ELSE b[Chosen(s)] + PartSum(b, s \ {Chosen(s)})
<1>1. IsFiniteSet(S) /\ DOMAIN b = S
  BY DEF Family
<1>2. IsSum(b, S, SumIn(b, S))
  BY <1>1, SumExists
<1>3. \A s \in SUBSET S : s \ {Chosen(s)} \in SUBSET S
  OBVIOUS
<1> QED BY <1>1, <1>2, <1>3, Zenon DEF IsSum, PartSum

LEMMA SumType ==
  ASSUME NEW b, NEW S, Family(b, S), NEW s \in SUBSET S
  PROVE  PartSum(b, s) \in Nat
<1> DEFINE Bad == {t \in SUBSET S : PartSum(b, t) \notin Nat}
<1> SUFFICES ASSUME Bad # {} PROVE FALSE
  OBVIOUS
<1>1. PICK t \in Bad : \A u \in Bad : u \subseteq t => u = t
  <2>1. Bad \subseteq SUBSET S /\ IsFiniteSet(S)
    BY DEF Family
  <2> HIDE DEF Bad
  <2> QED BY <2>1, LeastSubset
<1>2. PartSum(b, t) = IF t = {} THEN 0 ELSE b[Chosen(t)] + PartSum(b, t \ {Chosen(t)})
  BY <1>1, SumStep
<1>3. CASE t = {}
  BY <1>1, <1>2, <1>3
<1>4. CASE t # {}
  <2>1. Chosen(t) \in t
    BY <1>4 DEF Chosen
  <2>2. t \ {Chosen(t)} \notin Bad /\ t \ {Chosen(t)} \in SUBSET S
    BY <1>1, <2>1
  <2>3. PartSum(b, t \ {Chosen(t)}) \in Nat
    BY <2>2
  <2>4. b[Chosen(t)] \in Nat
    BY <1>1, <2>1 DEF Family
  <2> QED BY <1>1, <1>2, <1>4, <2>3, <2>4
<1> QED BY <1>3, <1>4

\* The order of the summands does not matter.
LEMMA SumAny ==
  ASSUME NEW b, NEW S, Family(b, S), NEW s \in SUBSET S, NEW x \in s
  PROVE  PartSum(b, s) = b[x] + PartSum(b, s \ {x})
<1> DEFINE Bad == {t \in SUBSET S : \E y \in t : PartSum(b, t) # b[y] + PartSum(b, t \ {y})}
<1> SUFFICES ASSUME Bad # {} PROVE FALSE
  OBVIOUS
<1>1. PICK t \in Bad : \A u \in Bad : u \subseteq t => u = t
  <2>1. Bad \subseteq SUBSET S /\ IsFiniteSet(S)
    BY DEF Family
  <2> HIDE DEF Bad
  <2> QED BY <2>1, LeastSubset
<1>2. PICK y \in t : PartSum(b, t) # b[y] + PartSum(b, t \ {y})
  BY <1>1
<1> DEFINE z == Chosen(t)
<1>3. z \in t /\ t \in SUBSET S
  BY <1>1, <1>2 DEF Chosen
<1>4. PartSum(b, t) = b[z] + PartSum(b, t \ {z})
  BY <1>2, <1>3, SumStep
<1> HIDE DEF z
<1>5. z # y
  BY <1>2, <1>4
<1>6. t \ {z} \in SUBSET S /\ t \ {y} \in SUBSET S /\ t \ {z} \notin Bad /\ t \ {y} \notin Bad
  BY <1>1, <1>2, <1>3
<1>7. PartSum(b, t \ {z}) = b[y] + PartSum(b, (t \ {z}) \ {y})
  BY <1>2, <1>5, <1>6
<1>8. PartSum(b, t \ {y}) = b[z] + PartSum(b, (t \ {y}) \ {z})
  BY <1>3, <1>5, <1>6
<1>9. (t \ {z}) \ {y} = (t \ {y}) \ {z} /\ (t \ {z}) \ {y} \in SUBSET S
  BY <1>3
<1>10. PartSum(b, (t \ {z}) \ {y}) \in Nat
  BY <1>9, SumType
<1>11. b[y] \in Nat /\ b[z] \in Nat
  BY <1>2, <1>3 DEF Family
<1>12. PartSum(b, t \ {z}) = b[y] + PartSum(b, (t \ {z}) \ {y}) /\ PartSum(b, t \ {y}) = b[z] + PartSum(b, (t \ {z}) \ {y})
  BY <1>7, <1>8, <1>9
<1> QED BY <1>2, <1>4, <1>10, <1>11, <1>12

LEMMA SumAgree ==
  ASSUME NEW b, NEW c, NEW S, Family(b, S), Family(c, S), NEW s \in SUBSET S, \A x \in s : b[x] = c[x]
  PROVE  PartSum(b, s) = PartSum(c, s)
<1> DEFINE Bad == {t \in SUBSET s : PartSum(b, t) # PartSum(c, t)}
<1> SUFFICES ASSUME Bad # {} PROVE FALSE
  OBVIOUS
<1>1. PICK t \in Bad : \A u \in Bad : u \subseteq t => u = t
  <2>1. Bad \subseteq SUBSET S /\ IsFiniteSet(S)
    BY DEF Family
  <2> HIDE DEF Bad
  <2> QED BY <2>1, LeastSubset
<1>2. CASE t = {}
  <2>1. PartSum(b, t) = 0 /\ PartSum(c, t) = 0
    BY <1>2, SumStep
  <2> QED BY <1>1, <2>1
<1>3. CASE t # {}
  <2>1. PICK x \in t : TRUE
    BY <1>3
  <2>2. t \in SUBSET S /\ t \ {x} \notin Bad /\ t \ {x} \in SUBSET s /\ b[x] = c[x]
    BY <1>1, <2>1
  <2>3. PartSum(b, t) = b[x] + PartSum(b, t \ {x}) /\ PartSum(c, t) = c[x] + PartSum(c, t \ {x})
    BY <2>1, <2>2, SumAny
  <2> QED BY <1>1, <2>2, <2>3
<1> QED BY <1>2, <1>3

LEMMA TotalType ==
  ASSUME NEW b, NEW S, Family(b, S)
  PROVE  /\ Total(b) \in Nat
         /\ \A x \in S : b[x] <= Total(b)
<1>1. DOMAIN b = S /\ S \in SUBSET S
  BY DEF Family
<1>2. Total(b) = PartSum(b, S)
  BY <1>1, TotalIsSum
<1>3. ASSUME NEW x \in S PROVE b[x] <= PartSum(b, S)
  <2>1. PartSum(b, S) = b[x] + PartSum(b, S \ {x})
    BY <1>1, SumAny
  <2>2. PartSum(b, S \ {x}) \in Nat /\ b[x] \in Nat
    <3>1. S \ {x} \in SUBSET S
      OBVIOUS
    <3> QED BY <3>1, SumType DEF Family
  <2> QED BY <2>1, <2>2
<1> QED BY <1>1, <1>2, <1>3, SumType

LEMMA TotalZero ==
  ASSUME NEW S, IsFiniteSet(S)
  PROVE  Total([x \in S |-> 0]) = 0
<1> DEFINE b == [x \in S |-> 0]
<1>1. Family(b, S) /\ DOMAIN b = S
  BY DEF Family
<1> HIDE DEF b
<1> DEFINE Bad == {t \in SUBSET S : PartSum(b, t) # 0}
<1>2. Bad = {}
  <2> SUFFICES ASSUME Bad # {} PROVE FALSE
    OBVIOUS
  <2>1. PICK t \in Bad : \A u \in Bad : u \subseteq t => u = t
    <3>1. Bad \subseteq SUBSET S /\ IsFiniteSet(S)
      BY DEF Family
    <3> HIDE DEF Bad
    <3> QED BY <3>1, LeastSubset
  <2>2. t \in SUBSET S /\ PartSum(b, t) # 0
    BY <2>1
  <2>3. t # {}
    BY <1>1, <2>2, SumStep
  <2>4. PICK x \in t : TRUE
    BY <2>3
  <2>5. PartSum(b, t) = b[x] + PartSum(b, t \ {x})
    BY <1>1, <2>2, <2>4, SumAny
  <2>6. PartSum(b, t \ {x}) = 0
    BY <2>1, <2>4
  <2>7. b[x] = 0
    BY <2>2, <2>4 DEF b
  <2> QED BY <2>2, <2>5, <2>6, <2>7
<1>3. PartSum(b, S) = 0
  BY <1>2
<1>4. Total(b) = 0
  BY <1>1, <1>3, TotalIsSum
<1> QED BY <1>4 DEF b

LEMMA TotalOneMore ==
  ASSUME NEW b, NEW S, Family(b, S), NEW p \in S
  PROVE  /\ Family([b EXCEPT ![p] = @ + 1], S)
         /\ Total([b EXCEPT ![p] = @ + 1]) = Total(b) + 1
<1> DEFINE c == [b EXCEPT ![p] = @ + 1]
<1>1. Family(c, S) /\ c[p] = b[p] + 1 /\ (\A x \in S \ {p} : b[x] = c[x]) /\ b[p] \in Nat
  BY DEF Family
<1>2. DOMAIN b = S /\ DOMAIN c = S /\ S \in SUBSET S /\ S \ {p} \in SUBSET S
  BY DEF Family
<1> HIDE DEF c
<1>3. PartSum(b, S) = b[p] + PartSum(b, S \ {p}) /\ PartSum(c, S) = c[p] + PartSum(c, S \ {p})
  BY <1>1, <1>2, SumAny
<1>4. PartSum(b, S \ {p}) = PartSum(c, S \ {p}) /\ PartSum(b, S \ {p}) \in Nat
  BY <1>1, <1>2, SumAgree, SumType
<1>5. Total(b) = PartSum(b, S) /\ Total(c) = PartSum(c, S)
  BY <1>2, TotalIsSum
<1>6. Total(c) = Total(b) + 1
  BY <1>1, <1>3, <1>4, <1>5
<1> QED BY <1>1, <1>6 DEF c

-----------------------------------------------------------------------------
(* The budget *)

LEMMA RoundsMul ==
  ASSUME NEW L \in Nat \ {0}, NEW a \in Int, NEW b \in Int, a < b
  PROVE  a * L + L <= b * L
<1>1. a + 1 <= b
  OBVIOUS
<1>2. (a + 1) * L <= b * L
  BY <1>1, Z3
<1> QED BY <1>2, Z3

LEMMA TurnMod ==
  ASSUME NEW L \in Nat \ {0}, NEW r \in Nat, NEW j \in 0..(L - 1)
  PROVE  (r * L + j) % L = j
<1> DEFINE t == r * L + j
<1>1. t \in Nat /\ t \div L \in Int /\ t % L \in 0..(L - 1) /\ t = L * (t \div L) + (t % L)
  BY Z3
<1>2. \A q \in Int, m \in 0..(L - 1) : t = L * q + m => m = j
  <2> SUFFICES ASSUME NEW q \in Int, NEW m \in 0..(L - 1), t = L * q + m PROVE m = j
    OBVIOUS
  <2>1. ASSUME q < r PROVE FALSE
    <3>1. q * L + L <= r * L
      BY <2>1, RoundsMul
    <3> QED BY <3>1, Z3
  <2>2. ASSUME r < q PROVE FALSE
    <3>1. r * L + L <= q * L
      BY <2>2, RoundsMul
    <3> QED BY <3>1, Z3
  <2>3. q = r
    BY <2>1, <2>2, Z3
  <2> QED BY <2>3, Z3
<1> HIDE DEF t
<1> QED BY <1>1, <1>2

StepOf(order, eligible, cap, b, t) ==
  LET p == TurnOf(order, t, cap)
  IN IF Total(b) < cap /\ b[p] < eligible[p] THEN [b EXCEPT ![p] = @ + 1] ELSE b
DealtTo(order, eligible, cap, n, g) ==
  g = [t \in 0..n |-> IF t = 0 THEN [p \in DOMAIN eligible |-> 0]
                      ELSE StepOf(order, eligible, cap, g[t - 1], t)]

LEMMA DealtExists ==
  ASSUME NEW order, NEW eligible, NEW cap
  PROVE  \A n \in Nat : \E g : DealtTo(order, eligible, cap, n, g)
<1> DEFINE D(n, g) == DealtTo(order, eligible, cap, n, g)
           Bad == {n \in Nat : ~\E g : D(n, g)}
           Zero == [p \in DOMAIN eligible |-> 0]
           Next(b, t) == StepOf(order, eligible, cap, b, t)
<1>0. \A n, g : D(n, g) <=> g = [t \in 0..n |-> IF t = 0 THEN Zero ELSE Next(g[t - 1], t)]
  BY DEF DealtTo
<1> HIDE DEF D, Zero, Next
<1>1. Bad = {}
  <2> SUFFICES ASSUME Bad # {} PROVE FALSE
    OBVIOUS
  <2>1. PICK n \in Bad : \A m \in Bad : n <= m
    <3>1. Bad \subseteq Nat
      OBVIOUS
    <3> HIDE DEF Bad
    <3> QED BY <3>1, LeastElement
  <2>2. n \in Nat /\ ~\E g : D(n, g)
    BY <2>1
  <2>3. CASE n = 0
    <3> DEFINE g == [t \in 0..0 |-> Zero]
    <3>1. g = [t \in 0..0 |-> IF t = 0 THEN Zero ELSE Next(g[t - 1], t)]
      OBVIOUS
    <3> HIDE DEF g
    <3>2. D(0, g)
      BY <1>0, <3>1
    <3> QED BY <2>2, <2>3, <3>2
  <2>4. CASE n # 0
    <3>1. n - 1 \in Nat /\ n - 1 \notin Bad
      <4>1. n - 1 \in Nat /\ ~(n <= n - 1)
        BY <2>2, <2>4
      <4> QED BY <2>1, <4>1
    <3>2. PICK g : D(n - 1, g)
      BY <3>1
    <3>3. g = [t \in 0..(n - 1) |-> IF t = 0 THEN Zero ELSE Next(g[t - 1], t)]
      BY <1>0, <3>2
    <3> DEFINE h == [t \in 0..n |-> IF t = 0 THEN Zero ELSE Next(g[t - 1], t)]
    <3>4. ASSUME NEW t \in 0..(n - 1) PROVE g[t] = h[t]
      <4>1. t \in 0..n
        BY <2>2
      <4> QED BY <3>3, <4>1
    <3>5. \A t \in 0..n : t # 0 => t - 1 \in 0..(n - 1)
      BY <2>2
    <3>6. \A t \in 0..n : (IF t = 0 THEN Zero ELSE Next(g[t - 1], t)) = IF t = 0 THEN Zero ELSE Next(h[t - 1], t)
      BY <3>4, <3>5
    <3>7. h = [t \in 0..n |-> IF t = 0 THEN Zero ELSE Next(h[t - 1], t)]
      <4>1. h = [t \in 0..n |-> IF t = 0 THEN Zero ELSE Next(g[t - 1], t)]
        OBVIOUS
      <4> HIDE DEF h
      <4> QED BY <3>6, <4>1
    <3> HIDE DEF h
    <3>8. D(n, h)
      BY <1>0, <3>7
    <3> QED BY <2>2, <3>8
  <2> QED BY <2>3, <2>4
<1> QED BY <1>1 DEF D

\* The run of the round robin.
Dealt(order, eligible, cap) == CHOOSE g : DealtTo(order, eligible, cap, Len(order) * cap, g)

LEMMA DealIsDealt ==
  ASSUME NEW order, NEW eligible, NEW cap
  PROVE  Deal(order, eligible, cap) = Dealt(order, eligible, cap)[Len(order) * cap]
BY DEF Deal, Dealt, DealtTo, StepOf

\* Everyone in a round is offered one unit; r rounds are over, and j places of the next.
Offered(k, r, j) == r + (IF k <= j THEN 1 ELSE 0)
Level(order, eligible, b, r, j) ==
  \A k \in DOMAIN order : b[order[k]] = IF eligible[order[k]] <= Offered(k, r, j)
                                        THEN eligible[order[k]] ELSE Offered(k, r, j)

DealProblem(order, eligible, cap, S) ==
  /\ IsFiniteSet(S)
  /\ order \in Seq(S)
  /\ \A i, j \in DOMAIN order : order[i] = order[j] => i = j
  /\ eligible \in [S -> Nat]
  /\ cap \in Nat

Fits(order, eligible, cap, S, b) ==
  /\ Family(b, S)
  /\ Total(b) <= cap
  /\ \A p \in S : b[p] <= eligible[p]
  /\ \A p \in S : p \notin Range(order) => b[p] = 0

\* What holds after t turns.
Fair(order, eligible, cap, S, t, b) ==
  /\ Fits(order, eligible, cap, S, b)
  /\ \E r \in Nat, j \in 0..(Len(order) - 1) :
       /\ Level(order, eligible, b, r, j)
       /\ Total(b) < cap => t = r * Len(order) + j

LEMMA FairStep ==
  ASSUME NEW order, NEW eligible, NEW cap, NEW S, DealProblem(order, eligible, cap, S),
         NEW t \in Nat, NEW b, Fair(order, eligible, cap, S, t, b)
  PROVE  Fair(order, eligible, cap, S, t + 1, StepOf(order, eligible, cap, b, t + 1))
<1> DEFINE L == Len(order)
           p == TurnOf(order, t + 1, cap)
           c == StepOf(order, eligible, cap, b, t + 1)
<1>1. /\ IsFiniteSet(S) /\ order \in Seq(S) /\ eligible \in [S -> Nat] /\ cap \in Nat
      /\ \A i, j \in DOMAIN order : order[i] = order[j] => i = j
  BY DEF DealProblem
<1>2. Fits(order, eligible, cap, S, b)
  BY DEF Fair
<1>3. PICK r \in Nat, j \in 0..(L - 1) : /\ Level(order, eligible, b, r, j)
                                         /\ Total(b) < cap => t = r * L + j
  BY DEF Fair
<1>4. L \in Nat \ {0} /\ DOMAIN order = 1..L
  <2>1. L \in Nat /\ DOMAIN order = 1..L
    BY <1>1
  <2>2. L # 0
    BY <1>3, <2>1
  <2> QED BY <2>1, <2>2
<1>5. Total(b) \in Nat /\ Total(b) <= cap /\ b \in [S -> Nat] /\ Family(b, S)
  BY <1>2, TotalType DEF Fits, Family
<1>6. CASE ~(Total(b) < cap)
  <2>1. c = b
    BY <1>6 DEF StepOf
  <2> QED BY <1>2, <1>3, <1>6, <2>1 DEF Fair
<1>7. CASE Total(b) < cap
  <2>1. t = r * L + j
    BY <1>3, <1>7, Zenon
  <2>m. r * L \in Nat /\ (r + 1) * L = r * L + L /\ (r + 1) * L \in Nat
    BY <1>3, <1>4, Z3
  <2>n. r \in Nat /\ r + 1 \in Nat /\ j \in Nat /\ 0 <= j /\ j < L
    BY <1>3, <1>4
  <2>2. p = order[j + 1]
    <3>1. (t + 1) - 1 = t
      OBVIOUS
    <3>2. t % L = j
      BY <1>3, <1>4, <2>1, TurnMod
    <3> QED BY <3>1, <3>2 DEF TurnOf
  <2>3. j + 1 \in DOMAIN order /\ p \in S /\ p \in Range(order)
    <3>1. j + 1 \in DOMAIN order
      BY <1>4, <2>n
    <3> QED BY <1>1, <2>2, <3>1 DEF Range
  <2> DEFINE r1 == IF j + 1 = L THEN r + 1 ELSE r
             j1 == IF j + 1 = L THEN 0 ELSE j + 1
  <2>4. /\ r1 \in Nat /\ j1 \in 0..(L - 1) /\ t + 1 = r1 * L + j1
        /\ Offered(j + 1, r1, j1) = r + 1
        /\ \A k \in DOMAIN order : k # j + 1 => Offered(k, r1, j1) = Offered(k, r, j)
    <3> DEFINE M == r * L
               M1 == (r + 1) * L
    <3>0. M \in Nat /\ M1 = M + L /\ t = M + j
      BY <2>m, <2>1, Zenon
    <3> HIDE DEF M, M1
    <3>3. CASE j + 1 = L
      <4>1. r1 = r + 1 /\ j1 = 0 /\ r1 * L = M1
        BY <3>3 DEF M1
      <4>3. t + 1 = M1 + 0 /\ 0 \in 0..(L - 1)
        BY <1>4, <2>n, <3>0, <3>3
      <4>4. Offered(j + 1, r + 1, 0) = r + 1
        BY <2>n DEF Offered
      <4>5. \A k \in 1..L : k # j + 1 => Offered(k, r + 1, 0) = Offered(k, r, j)
        BY <1>4, <2>n, <3>3 DEF Offered
      <4>6. t + 1 = r1 * L + j1
        BY <4>1, <4>3, Zenon
      <4> HIDE DEF r1, j1, L
      <4>7. /\ Offered(j + 1, r1, j1) = r + 1
            /\ \A k \in DOMAIN order : k # j + 1 => Offered(k, r1, j1) = Offered(k, r, j)
        BY <1>4, <4>1, <4>4, <4>5
      <4> QED BY <2>n, <4>1, <4>3, <4>6, <4>7
    <3>4. CASE j + 1 # L
      <4>1. r1 = r /\ j1 = j + 1 /\ r1 * L = M
        BY <3>4 DEF M
      <4>2. t + 1 = M + (j + 1) /\ j + 1 \in 0..(L - 1)
        <5>1. t + 1 = M + (j + 1)
          BY <2>n, <3>0
        <5>2. L \in Nat /\ j + 1 # L /\ j < L
          BY <1>4, <2>n, <3>4
        <5> HIDE DEF L
        <5>3. j + 1 \in 0..(L - 1)
          BY <2>n, <5>2
        <5> QED BY <5>1, <5>3
      <4>4. Offered(j + 1, r, j + 1) = r + 1
        BY <2>n DEF Offered
      <4>5. \A k \in 1..L : k # j + 1 => Offered(k, r, j + 1) = Offered(k, r, j)
        <5>1. L \in Nat
          BY <1>4
        <5> HIDE DEF L
        <5> QED BY <2>n, <5>1 DEF Offered
      <4>6. t + 1 = r1 * L + j1
        BY <4>1, <4>2, Zenon
      <4> HIDE DEF r1, j1, L
      <4>7. /\ Offered(j + 1, r1, j1) = r + 1
            /\ \A k \in DOMAIN order : k # j + 1 => Offered(k, r1, j1) = Offered(k, r, j)
        BY <1>4, <4>1, <4>4, <4>5
      <4> QED BY <2>n, <4>1, <4>2, <4>6, <4>7
    <3> QED BY <3>3, <3>4
  <2>5. Offered(j + 1, r, j) = r
    BY <2>n DEF Offered
  <2> HIDE DEF r1, j1, p, c, L
  <2>6. b[p] \in Nat /\ eligible[p] \in Nat /\ b[p] = IF eligible[p] <= r THEN eligible[p] ELSE r
    <3>1. b[p] \in Nat /\ eligible[p] \in Nat
      BY <1>1, <1>5, <2>3
    <3>2. b[p] = IF eligible[p] <= r THEN eligible[p] ELSE r
      BY <1>3, <2>2, <2>3, <2>5, Zenon DEF Level
    <3> QED BY <3>1, <3>2
  <2>7. CASE b[p] < eligible[p]
    <3>1. c = [b EXCEPT ![p] = @ + 1]
      BY <1>7, <2>7 DEF c, p, StepOf
    <3>2. Family(c, S) /\ Total(c) = Total(b) + 1
      BY <1>5, <2>3, <3>1, TotalOneMore
    <3>3. c[p] = b[p] + 1 /\ \A q \in S : q # p => c[q] = b[q]
      BY <1>5, <2>3, <3>1
    <3>4. Fits(order, eligible, cap, S, c)
      <4>1. \A q \in S : c[q] <= eligible[q]
        BY <1>2, <1>5, <2>6, <2>7, <3>3 DEF Fits
      <4>2. \A q \in S : q \notin Range(order) => c[q] = 0
        BY <1>2, <2>3, <3>3 DEF Fits
      <4>3. Total(c) <= cap
        BY <1>1, <1>5, <1>7, <3>2
      <4> QED BY <3>2, <4>1, <4>2, <4>3 DEF Fits
    <3>5. Level(order, eligible, c, r1, j1)
      <4>1. ASSUME NEW k \in DOMAIN order
            PROVE  c[order[k]] = IF eligible[order[k]] <= Offered(k, r1, j1)
                                 THEN eligible[order[k]] ELSE Offered(k, r1, j1)
        <5>1. CASE k = j + 1
          <6>1. c[p] = IF eligible[p] <= r + 1 THEN eligible[p] ELSE r + 1
            BY <2>n, <2>6, <2>7, <3>3
          <6> QED BY <2>2, <2>4, <5>1, <6>1, Zenon
        <5>2. CASE k # j + 1
          <6>1. order[k] # p /\ order[k] \in S
            BY <1>1, <2>2, <2>3, <5>2
          <6>2. c[order[k]] = b[order[k]]
            BY <3>3, <6>1
          <6> QED BY <1>3, <2>4, <5>2, <6>2, Zenon DEF Level
        <5> QED BY <5>1, <5>2
      <4> QED BY <4>1 DEF Level
    <3> QED BY <2>4, <3>4, <3>5 DEF Fair, c, L
  <2>8. CASE ~(b[p] < eligible[p])
    <3>1. c = b
      BY <2>8 DEF c, p, StepOf
    <3>2. Level(order, eligible, b, r1, j1)
      <4>1. ASSUME NEW k \in DOMAIN order
            PROVE  b[order[k]] = IF eligible[order[k]] <= Offered(k, r1, j1)
                                 THEN eligible[order[k]] ELSE Offered(k, r1, j1)
        <5>1. CASE k = j + 1
          <6>1. b[p] = IF eligible[p] <= r + 1 THEN eligible[p] ELSE r + 1
            BY <2>n, <2>6, <2>8
          <6> QED BY <2>2, <2>4, <5>1, <6>1, Zenon
        <5>2. CASE k # j + 1
          BY <1>3, <2>4, <5>2, Zenon DEF Level
        <5> QED BY <5>1, <5>2
      <4> QED BY <4>1 DEF Level
    <3> QED BY <1>2, <2>4, <3>1, <3>2 DEF Fair, c, L
  <2> QED BY <2>7, <2>8
<1> QED BY <1>6, <1>7

LEMMA DealtSteps ==
  ASSUME NEW order, NEW eligible, NEW cap, NEW S, DealProblem(order, eligible, cap, S)
  PROVE  /\ Len(order) * cap \in Nat
         /\ Dealt(order, eligible, cap)[0] = [p \in S |-> 0]
         /\ \A t \in 1..(Len(order) * cap) :
              Dealt(order, eligible, cap)[t]
                = StepOf(order, eligible, cap, Dealt(order, eligible, cap)[t - 1], t)
<1> DEFINE N == Len(order) * cap
           g == Dealt(order, eligible, cap)
<1>1. Len(order) \in Nat /\ cap \in Nat /\ DOMAIN eligible = S
  BY DEF DealProblem
<1>2. N \in Nat
  BY <1>1, Z3
<1>3. DealtTo(order, eligible, cap, N, g)
  BY <1>2, DealtExists DEF Dealt
<1> HIDE DEF N, g
<1>4. g = [t \in 0..N |-> IF t = 0 THEN [p \in DOMAIN eligible |-> 0]
                          ELSE StepOf(order, eligible, cap, g[t - 1], t)]
  BY <1>3 DEF DealtTo
<1>5. g[0] = [p \in S |-> 0]
  <2>1. 0 \in 0..N
    BY <1>2
  <2> QED BY <1>1, <1>4, <2>1, Zenon
<1>6. ASSUME NEW t \in 1..N PROVE g[t] = StepOf(order, eligible, cap, g[t - 1], t)
  <2>1. t \in 0..N /\ t # 0
    BY <1>2
  <2> QED BY <1>4, <2>1, Zenon
<1> QED BY <1>2, <1>5, <1>6 DEF N, g

LEMMA DealtFair ==
  ASSUME NEW order, NEW eligible, NEW cap, NEW S, DealProblem(order, eligible, cap, S),
         Len(order) # 0
  PROVE  \A t \in 0..(Len(order) * cap) :
           Fair(order, eligible, cap, S, t, Dealt(order, eligible, cap)[t])
<1> DEFINE N == Len(order) * cap
           g == Dealt(order, eligible, cap)
           F(t) == Fair(order, eligible, cap, S, t, g[t])
           Bad == {t \in 0..N : ~F(t)}
<1>1. /\ N \in Nat
      /\ g[0] = [p \in S |-> 0]
      /\ \A t \in 1..N : g[t] = StepOf(order, eligible, cap, g[t - 1], t)
  BY DealtSteps
<1>2. Len(order) \in Nat \ {0} /\ DOMAIN order = 1..Len(order) /\ cap \in Nat /\ IsFiniteSet(S)
      /\ eligible \in [S -> Nat] /\ order \in Seq(S)
  BY DEF DealProblem
<1> HIDE DEF N, g
<1>3. F(0)
  <2> DEFINE b == [p \in S |-> 0]
  <2>1. Family(b, S) /\ Total(b) = 0 /\ \A p \in S : b[p] = 0
    BY <1>2, TotalZero DEF Family
  <2> HIDE DEF b
  <2>2. Fits(order, eligible, cap, S, b)
    BY <1>2, <2>1 DEF Fits
  <2>3. 0 \in Nat /\ 0 \in 0..(Len(order) - 1) /\ 0 = 0 * Len(order) + 0
    BY <1>2
  <2>4. ASSUME NEW k \in DOMAIN order
        PROVE  b[order[k]] = IF eligible[order[k]] <= Offered(k, 0, 0)
                             THEN eligible[order[k]] ELSE Offered(k, 0, 0)
    <3>1. Offered(k, 0, 0) = 0
      BY <1>2 DEF Offered
    <3>2. order[k] \in S
      BY <1>2
    <3>3. eligible[order[k]] \in Nat /\ b[order[k]] = 0
      BY <1>2, <2>1, <3>2
    <3> QED BY <3>1, <3>3
  <2>5. Level(order, eligible, b, 0, 0)
    BY <2>4 DEF Level
  <2>6. g[0] = b
    BY <1>1 DEF b
  <2> QED BY <2>2, <2>3, <2>5, <2>6, Zenon DEF Fair
<1>4. ASSUME NEW t \in 1..N, F(t - 1) PROVE F(t)
  <2>1. t - 1 \in Nat /\ (t - 1) + 1 = t
    BY <1>1
  <2>2. Fair(order, eligible, cap, S, (t - 1) + 1, StepOf(order, eligible, cap, g[t - 1], (t - 1) + 1))
    BY <1>4, <2>1, FairStep
  <2> QED BY <1>1, <2>1, <2>2
<1> HIDE DEF F
<1>5. Bad = {}
  <2> SUFFICES ASSUME Bad # {} PROVE FALSE
    OBVIOUS
  <2>1. PICK t \in Bad : \A u \in Bad : t <= u
    <3>1. Bad \subseteq Nat
      BY <1>1
    <3> HIDE DEF Bad
    <3> QED BY <3>1, LeastElement
  <2>2. t \in 0..N /\ ~F(t) /\ t # 0
    BY <1>3, <2>1
  <2>3. t \in 1..N /\ t - 1 \in 0..N /\ ~(t <= t - 1)
    BY <1>1, <2>2
  <2>4. F(t - 1)
    BY <2>1, <2>3
  <2> QED BY <1>4, <2>2, <2>3, <2>4
<1> QED BY <1>5 DEF F, N, g

\* The cap holds, nobody gets more than it can use, and who could have used more is
\* at most one unit behind anyone, the cap being reached.
LEMMA DealFair ==
  ASSUME NEW order, NEW eligible, NEW cap, NEW S, DealProblem(order, eligible, cap, S)
  PROVE  LET b == Deal(order, eligible, cap)
         IN /\ Fits(order, eligible, cap, S, b)
            /\ \A p \in Range(order), q \in S : b[p] < eligible[p] =>
                 Total(b) = cap /\ b[q] <= b[p] + 1
<1> DEFINE N == Len(order) * cap
           b == Deal(order, eligible, cap)
<1>1. /\ Len(order) \in Nat /\ DOMAIN order = 1..Len(order) /\ cap \in Nat /\ IsFiniteSet(S)
      /\ eligible \in [S -> Nat] /\ order \in Seq(S)
  BY DEF DealProblem
<1>2. b = Dealt(order, eligible, cap)[N]
  BY DealIsDealt
<1>3. N \in Nat
  BY DealtSteps
<1> HIDE DEF b
<1>4. CASE Len(order) = 0
  <2>1. Range(order) = {}
    BY <1>1, <1>4 DEF Range
  <2>2. N = 0
    BY <1>1, <1>4
  <2>3. b = [p \in S |-> 0]
    BY <1>2, <2>2, DealtSteps
  <2>4. Family(b, S) /\ Total(b) = 0 /\ \A p \in S : b[p] = 0
    BY <1>1, <2>3, TotalZero DEF Family
  <2>5. Fits(order, eligible, cap, S, b)
    BY <1>1, <2>4 DEF Fits
  <2> QED BY <2>1, <2>5 DEF b
<1>5. CASE Len(order) # 0
  <2>1. Fair(order, eligible, cap, S, N, b)
    <3>1. N \in 0..N
      BY <1>3
    <3> QED BY <1>2, <1>5, <3>1, DealtFair
  <2>2. Fits(order, eligible, cap, S, b)
    BY <2>1 DEF Fair
  <2>3. PICK r \in Nat, j \in 0..(Len(order) - 1) :
          /\ Level(order, eligible, b, r, j)
          /\ Total(b) < cap => N = r * Len(order) + j
    BY <2>1 DEF Fair
  <2>4. ASSUME NEW p \in Range(order), NEW q \in S, b[p] < eligible[p]
        PROVE  Total(b) = cap /\ b[q] <= b[p] + 1
    <3>1. PICK k \in DOMAIN order : p = order[k]
      BY DEF Range
    <3>2. p \in S /\ Family(b, S) /\ Total(b) <= cap
      BY <1>1, <2>2, <3>1 DEF Fits
    <3>3. b[p] \in Nat /\ b[q] \in Nat /\ eligible[p] \in Nat /\ eligible[q] \in Nat /\ Total(b) \in Nat
          /\ b[p] <= Total(b)
      BY <1>1, <3>2, TotalType DEF Family
    <3>4. Offered(k, r, j) \in Nat /\ \A l \in DOMAIN order : Offered(l, r, j) \in Nat
                                                             /\ Offered(l, r, j) <= Offered(k, r, j) + 1
      BY <1>1, <2>3 DEF Offered
    <3>5. b[p] = Offered(k, r, j)
      <4>1. b[p] = IF eligible[p] <= Offered(k, r, j) THEN eligible[p] ELSE Offered(k, r, j)
        BY <2>3, <3>1, Zenon DEF Level
      <4> QED BY <2>4, <3>3, <3>4, <4>1
    <3>6. b[q] <= b[p] + 1
      <4>1. CASE q \notin Range(order)
        <5>1. b[q] = 0
          BY <2>2, <4>1 DEF Fits
        <5> QED BY <3>3, <5>1
      <4>2. CASE q \in Range(order)
        <5>1. PICK l \in DOMAIN order : q = order[l]
          BY <4>2 DEF Range
        <5>2. b[q] = IF eligible[q] <= Offered(l, r, j) THEN eligible[q] ELSE Offered(l, r, j)
          BY <2>3, <5>1, Zenon DEF Level
        <5>3. Offered(l, r, j) \in Nat /\ Offered(l, r, j) <= Offered(k, r, j) + 1
          BY <3>4
        <5> QED BY <3>3, <3>4, <3>5, <5>2, <5>3
      <4> QED BY <4>1, <4>2
    <3>7. Total(b) = cap
      <4> SUFFICES ASSUME Total(b) < cap PROVE FALSE
        BY <1>1, <3>2, <3>3
      <4>1. cap * Len(order) = r * Len(order) + j
        <5>1. N = r * Len(order) + j
          BY <2>3, Zenon
        <5>2. Len(order) * cap = cap * Len(order)
          BY <1>1, Z3
        <5> QED BY <5>1, <5>2, Zenon
      <4>2. r <= Offered(k, r, j)
        BY <1>1, <2>3 DEF Offered
      <4>3. r < cap
        BY <1>1, <2>3, <3>3, <3>4, <3>5, <4>2
      <4>4. r * Len(order) + Len(order) <= cap * Len(order)
        <5>1. Len(order) \in Nat \ {0} /\ r \in Int /\ cap \in Int
          BY <1>1, <1>5, <2>3
        <5> QED BY <4>3, <5>1, RoundsMul
      <4>5. j < Len(order) /\ r * Len(order) \in Nat /\ cap * Len(order) \in Nat
        BY <1>1, <1>5, <2>3, Z3
      <4> QED BY <1>1, <2>3, <4>1, <4>4, <4>5
    <3> QED BY <3>6, <3>7
  <2> QED BY <2>2, <2>4 DEF b
<1> QED BY <1>4, <1>5

-----------------------------------------------------------------------------
(* What is drawn *)

\* The candidates that FirstOfEach takes.
Fresh(candidates, field, known) ==
  {i \in DOMAIN candidates :
     /\ candidates[i][field] \notin known
     /\ \A j \in 1..(i - 1) : candidates[j][field] # candidates[i][field]}

\* How many of them fit.
Fitting(n, S) == Min({n, Cardinality(S)})

LEMMA LesserOf ==
  ASSUME NEW n \in Nat, NEW m \in Nat
  PROVE  Min({n, m}) = IF n <= m THEN n ELSE m
<1> DEFINE v == IF n <= m THEN n ELSE m
<1>1. v \in {n, m} /\ \A y \in {n, m} : v <= y
  OBVIOUS
<1>2. \A x \in {n, m} : (\A y \in {n, m} : x <= y) => x = v
  OBVIOUS
<1> HIDE DEF v
<1>3. Min({n, m}) = v
  BY <1>1, <1>2 DEF Min
<1> QED BY <1>3 DEF v

LEMMA Taken ==
  ASSUME NEW V, NEW c \in Seq(V), NEW field, NEW known, NEW n \in Nat
  PROVE  LET S == Fresh(c, field, known)
             m == Fitting(n, S)
         IN /\ m \in Nat /\ m <= n
            /\ \A k \in 1..m : Ascending(S)[k] \in DOMAIN c
            /\ Truncated(FirstOfEach(c, field, known), n) \in Seq(V)
            /\ Len(Truncated(FirstOfEach(c, field, known), n)) = m
            /\ \A k \in 1..m : Truncated(FirstOfEach(c, field, known), n)[k] = c[Ascending(S)[k]]
<1> DEFINE S == Fresh(c, field, known)
           m == Fitting(n, S)
           all == FirstOfEach(c, field, known)
           N == Cardinality(S)
<1>1. S \subseteq DOMAIN c /\ S \subseteq Nat /\ IsFiniteSet(S) /\ N \in Nat
  <2>1. DOMAIN c = 1..Len(c) /\ Len(c) \in Nat
    OBVIOUS
  <2>2. IsFiniteSet(1..Len(c)) /\ S \subseteq 1..Len(c)
    BY <2>1, FS_Interval DEF Fresh
  <2> HIDE DEF S
  <2>3. IsFiniteSet(S)
    BY <2>2, FS_Subset
  <2>4. N \in Nat
    BY <2>3, FS_CardinalityType
  <2> QED BY <2>1, <2>2, <2>3, <2>4
<1>2. all = [k \in DOMAIN Ascending(S) |-> c[Ascending(S)[k]]]
  BY DEF FirstOfEach, Fresh
<1> HIDE DEF S, all
<1>3. DOMAIN Ascending(S) = 1..N /\ \A k \in 1..N : Ascending(S)[k] \in S
  BY <1>1, AscendingMembers
<1>4. all \in [1..N -> V]
  <2>1. \A k \in 1..N : c[Ascending(S)[k]] \in V
    BY <1>1, <1>3
  <2> QED BY <1>2, <1>3, <2>1
<1>5. all \in Seq(V) /\ Len(all) = N
  BY <1>1, <1>4, SeqIs
<1>6. m = IF n <= N THEN n ELSE N
  BY <1>1, LesserOf DEF Fitting
<1>7. m \in Nat /\ m <= n /\ m <= N
  BY <1>1, <1>6
<1>8. Truncated(all, n) = SubSeq(all, 1, m)
  BY <1>5 DEF Truncated, Fitting
<1> HIDE DEF m, N
<1>9. /\ SubSeq(all, 1, m) \in Seq(V)
      /\ Len(SubSeq(all, 1, m)) = m
      /\ \A k \in 1..m : SubSeq(all, 1, m)[k] = all[k]
  <2>1. SubSeq(all, 1, m) = [k \in 1..m |-> all[1 + k - 1]]
    BY <1>5, <1>7
  <2>2. \A k \in 1..m : 1 + k - 1 = k /\ k \in 1..N
    BY <1>1, <1>7 DEF N
  <2>3. SubSeq(all, 1, m) = [k \in 1..m |-> all[k]]
    BY <2>1, <2>2
  <2>4. [k \in 1..m |-> all[k]] \in [1..m -> V]
    BY <1>4, <2>2
  <2>5. SubSeq(all, 1, m) \in Seq(V) /\ Len(SubSeq(all, 1, m)) = m
    BY <1>7, <2>3, <2>4, SeqIs
  <2> QED BY <2>3, <2>5
<1>10. \A k \in 1..m : k \in 1..N
  BY <1>1, <1>7 DEF N
<1>11. \A k \in 1..m : Ascending(S)[k] \in DOMAIN c /\ all[k] = c[Ascending(S)[k]]
  BY <1>1, <1>2, <1>3, <1>10
<1> QED BY <1>7, <1>8, <1>9, <1>11 DEF all, m, S

\* Two sequences of candidates that compare alike.
Alike(c, d) ==
  /\ DOMAIN c = DOMAIN d
  /\ \A i \in DOMAIN c : c[i].stratum = d[i].stratum
  /\ \A i, j \in DOMAIN c : c[i].rank = c[j].rank <=> d[i].rank = d[j].rank

\* What stands at some positions of a sequence.
At(c, P) == {c[i] : i \in P}

\* From such sequences the candidates of the same positions are drawn.
LEMMA SelectAlike ==
  ASSUME NEW V, NEW c \in Seq(V), NEW d \in Seq(V), NEW n \in Nat, Alike(c, d)
  PROVE  \E P \in SUBSET DOMAIN c : Range(Select(c, n)) = At(c, P) /\ Range(Select(d, n)) = At(d, P)
<1> DEFINE S1 == Fresh(c, "stratum", {})
           m1 == Fitting(n, S1)
           c1 == Truncated(FirstOfEach(c, "stratum", {}), n)
           d1 == Truncated(FirstOfEach(d, "stratum", {}), n)
           P1 == {Ascending(S1)[k] : k \in 1..m1}
           cr == {c1[i].rank : i \in DOMAIN c1}
           dr == {d1[i].rank : i \in DOMAIN d1}
           r == n - m1
           S2 == Fresh(c, "rank", cr)
           m2 == Fitting(r, S2)
           c2 == Truncated(FirstOfEach(c, "rank", cr), r)
           d2 == Truncated(FirstOfEach(d, "rank", dr), r)
           P2 == {Ascending(S2)[k] : k \in 1..m2}
<1>0. /\ DOMAIN c = DOMAIN d /\ DOMAIN c = 1..Len(c) /\ Len(c) \in Nat
      /\ \A i \in DOMAIN c : c[i].stratum = d[i].stratum
      /\ \A i, j \in DOMAIN c : c[i].rank = c[j].rank <=> d[i].rank = d[j].rank
      /\ \A i \in DOMAIN c : \A j \in 1..(i - 1) : j \in DOMAIN c
  BY DEF Alike
<1>1. Fresh(d, "stratum", {}) = S1
  <2>1. /\ \A x : x["stratum"] = x.stratum
        /\ \A i \in DOMAIN c : \A j \in 1..(i - 1) :
             c[j].stratum # c[i].stratum <=> d[j].stratum # d[i].stratum
    BY <1>0
  <2> QED BY <1>0, <2>1 DEF Fresh
<1> HIDE DEF S1, m1, c1, d1
<1>2. /\ m1 \in Nat /\ m1 <= n
      /\ \A k \in 1..m1 : Ascending(S1)[k] \in DOMAIN c
      /\ c1 \in Seq(V) /\ Len(c1) = m1
      /\ \A k \in 1..m1 : c1[k] = c[Ascending(S1)[k]]
  BY Taken DEF S1, m1, c1
<1>3. /\ d1 \in Seq(V) /\ Len(d1) = m1
      /\ \A k \in 1..m1 : d1[k] = d[Ascending(S1)[k]]
  <2>1. LET T == Fresh(d, "stratum", {})
            m == Fitting(n, T)
        IN /\ d1 \in Seq(V) /\ Len(d1) = m
           /\ \A k \in 1..m : d1[k] = d[Ascending(T)[k]]
    BY Taken DEF d1
  <2> QED BY <1>1, <2>1 DEF m1
<1>4. DOMAIN c1 = 1..m1 /\ DOMAIN d1 = 1..m1
  BY <1>2, <1>3
<1>5. P1 \subseteq DOMAIN c /\ Range(c1) = {c[i] : i \in P1} /\ Range(d1) = {d[i] : i \in P1}
  <2>1. P1 \subseteq DOMAIN c
    BY <1>2
  <2>2. Range(c1) = {c[i] : i \in P1}
    <3> DEFINE f == Ascending(S1)
    <3>1. DOMAIN c1 = 1..m1 /\ \A k \in 1..m1 : c1[k] = c[f[k]]
      BY <1>2, <1>4
    <3> HIDE DEF f
    <3>2. \A x : x \in Range(c1) <=> \E i \in {f[k] : k \in 1..m1} : x = c[i]
      BY <3>1 DEF Range
    <3> QED BY <3>2 DEF f
  <2>3. Range(d1) = {d[i] : i \in P1}
    <3> DEFINE f == Ascending(S1)
    <3>1. DOMAIN d1 = 1..m1 /\ \A k \in 1..m1 : d1[k] = d[f[k]]
      BY <1>3, <1>4
    <3> HIDE DEF f
    <3>2. \A x : x \in Range(d1) <=> \E i \in {f[k] : k \in 1..m1} : x = d[i]
      BY <3>1 DEF Range
    <3> QED BY <3>2 DEF f
  <2> QED BY <2>1, <2>2, <2>3
<1>6. cr = {c[i].rank : i \in P1} /\ dr = {d[i].rank : i \in P1}
  <2>1. \A k \in 1..m1 : c1[k].rank = c[Ascending(S1)[k]].rank /\ d1[k].rank = d[Ascending(S1)[k]].rank
    BY <1>2, <1>3
  <2> QED BY <1>4, <2>1
<1> HIDE DEF P1, cr, dr
<1>7. \A i \in DOMAIN c : c[i].rank \notin cr <=> d[i].rank \notin dr
  <2>1. \A i \in DOMAIN c, j \in P1 : c[i].rank = c[j].rank <=> d[i].rank = d[j].rank
    BY <1>0, <1>5
  <2>2. \A i : c[i].rank \in cr <=> \E j \in P1 : c[i].rank = c[j].rank
    BY <1>6
  <2>3. \A i : d[i].rank \in dr <=> \E j \in P1 : d[i].rank = d[j].rank
    BY <1>6
  <2> QED BY <2>1, <2>2, <2>3, Zenon
<1>8. Fresh(d, "rank", dr) = S2
  <2>1. /\ \A x : x["rank"] = x.rank
        /\ \A i \in DOMAIN c : \A j \in 1..(i - 1) :
             c[j].rank # c[i].rank <=> d[j].rank # d[i].rank
    BY <1>0
  <2> QED BY <1>0, <1>7, <2>1 DEF Fresh
<1>9. r \in Nat
  BY <1>2
<1> HIDE DEF S2, m2, c2, d2, r
<1>10. /\ m2 \in Nat
       /\ \A k \in 1..m2 : Ascending(S2)[k] \in DOMAIN c
       /\ c2 \in Seq(V) /\ Len(c2) = m2
       /\ \A k \in 1..m2 : c2[k] = c[Ascending(S2)[k]]
  BY <1>9, Taken DEF S2, m2, c2
<1>11. /\ d2 \in Seq(V) /\ Len(d2) = m2
       /\ \A k \in 1..m2 : d2[k] = d[Ascending(S2)[k]]
  <2>1. LET T == Fresh(d, "rank", dr)
            m == Fitting(r, T)
        IN /\ d2 \in Seq(V) /\ Len(d2) = m
           /\ \A k \in 1..m : d2[k] = d[Ascending(T)[k]]
    BY <1>9, Taken DEF d2
  <2> QED BY <1>8, <2>1 DEF m2
<1>12. DOMAIN c2 = 1..m2 /\ DOMAIN d2 = 1..m2
  BY <1>10, <1>11
<1>13. P2 \subseteq DOMAIN c /\ Range(c2) = {c[i] : i \in P2} /\ Range(d2) = {d[i] : i \in P2}
  <2>1. P2 \subseteq DOMAIN c
    BY <1>10
  <2>2. Range(c2) = {c[i] : i \in P2}
    <3> DEFINE f == Ascending(S2)
    <3>1. DOMAIN c2 = 1..m2 /\ \A k \in 1..m2 : c2[k] = c[f[k]]
      BY <1>10, <1>12
    <3> HIDE DEF f
    <3>2. \A x : x \in Range(c2) <=> \E i \in {f[k] : k \in 1..m2} : x = c[i]
      BY <3>1 DEF Range
    <3> QED BY <3>2 DEF f
  <2>3. Range(d2) = {d[i] : i \in P2}
    <3> DEFINE f == Ascending(S2)
    <3>1. DOMAIN d2 = 1..m2 /\ \A k \in 1..m2 : d2[k] = d[f[k]]
      BY <1>11, <1>12
    <3> HIDE DEF f
    <3>2. \A x : x \in Range(d2) <=> \E i \in {f[k] : k \in 1..m2} : x = d[i]
      BY <3>1 DEF Range
    <3> QED BY <3>2 DEF f
  <2> QED BY <2>1, <2>2, <2>3
<1> HIDE DEF P2
<1>14. Select(c, n) = c1 \o c2 /\ Select(d, n) = d1 \o d2
  BY <1>2, <1>3 DEF Select, c1, d1, c2, d2, cr, dr, r
<1>15. \A s, t \in Seq(V) : Range(s \o t) = Range(s) \cup Range(t)
  BY RangeConcatenation
<1>16. Range(Select(c, n)) = {c[i] : i \in P1 \cup P2} /\ Range(Select(d, n)) = {d[i] : i \in P1 \cup P2}
  <2>1. /\ Range(Select(c, n)) = Range(c1) \cup Range(c2)
        /\ Range(Select(d, n)) = Range(d1) \cup Range(d2)
    BY <1>2, <1>3, <1>10, <1>11, <1>14, <1>15
  <2>2. \A e : {e[i] : i \in P1 \cup P2} = {e[i] : i \in P1} \cup {e[i] : i \in P2}
    OBVIOUS
  <2> QED BY <1>5, <1>13, <2>1, <2>2
<1>17. Range(Select(c, n)) = At(c, P1 \cup P2) /\ Range(Select(d, n)) = At(d, P1 \cup P2)
  BY <1>16 DEF At
<1> QED BY <1>5, <1>13, <1>17

-----------------------------------------------------------------------------
(* What is drawn is different, and enough of it is everything *)

\* The values of a field.
Values(c, field) == {c[i][field] : i \in DOMAIN c}

\* What FirstOfEach takes differs in the field.
LEMMA TakenDiffer ==
  ASSUME NEW V, NEW c \in Seq(V), NEW field, NEW known, NEW n \in Nat
  PROVE  LET t == Truncated(FirstOfEach(c, field, known), n)
         IN /\ t \in Seq(V) /\ Len(t) <= n
            /\ \A k \in DOMAIN t : t[k] \in Range(c) /\ t[k][field] \notin known
            /\ \A k, l \in DOMAIN t : t[k][field] = t[l][field] => k = l
<1> DEFINE S == Fresh(c, field, known)
           m == Fitting(n, S)
           t == Truncated(FirstOfEach(c, field, known), n)
<1>1. /\ m \in Nat /\ m <= n
      /\ \A k \in 1..m : Ascending(S)[k] \in DOMAIN c
      /\ t \in Seq(V) /\ Len(t) = m
      /\ \A k \in 1..m : t[k] = c[Ascending(S)[k]]
  BY Taken
<1>2. S \subseteq Nat /\ IsFiniteSet(S) /\ Cardinality(S) \in Nat
  <2>1. DOMAIN c = 1..Len(c) /\ Len(c) \in Nat
    OBVIOUS
  <2>2. IsFiniteSet(1..Len(c)) /\ S \subseteq 1..Len(c)
    BY <2>1, FS_Interval DEF Fresh
  <2> HIDE DEF S
  <2>3. IsFiniteSet(S)
    BY <2>2, FS_Subset
  <2>4. Cardinality(S) \in Nat
    BY <2>3, FS_CardinalityType
  <2> QED BY <2>1, <2>2, <2>3, <2>4
<1>3. m <= Cardinality(S)
  <2> HIDE DEF S
  <2> QED BY <1>2, LesserOf DEF Fitting
<1>4. \A k \in 1..m : /\ Ascending(S)[k] \in S
                      /\ Cardinality(UpTo(S, Ascending(S)[k])) = k
  <2> HIDE DEF S, m
  <2>1. \A k \in 1..Cardinality(S) : /\ Ascending(S)[k] \in S
                                     /\ Cardinality(UpTo(S, Ascending(S)[k])) = k
    BY <1>2, AscendingMembers
  <2>2. \A k \in 1..m : k \in 1..Cardinality(S)
    BY <1>1, <1>2, <1>3
  <2> QED BY <2>1, <2>2
<1>5. \A i \in S : /\ i \in DOMAIN c /\ i \in Nat /\ c[i][field] \notin known
                   /\ \A j \in 1..(i - 1) : c[j][field] # c[i][field]
  BY <1>2 DEF Fresh
<1>6. \A i, j \in S : c[i][field] = c[j][field] => i = j
  <2> HIDE DEF S
  <2>1. SUFFICES ASSUME NEW i \in S, NEW j \in S, c[i][field] = c[j][field], i # j
                 PROVE  FALSE
    OBVIOUS
  <2>2. i \in 1..(j - 1) \/ j \in 1..(i - 1)
    <3>1. i \in 1..Len(c) /\ j \in 1..Len(c)
      BY <1>5
    <3> QED BY <2>1, <3>1
  <2> QED BY <1>5, <2>1, <2>2
<1> HIDE DEF S, m, t
<1>7. DOMAIN t = 1..m
  BY <1>1
<1>8. \A k \in DOMAIN t : t[k] \in Range(c) /\ t[k][field] \notin known
  <2> TAKE k \in DOMAIN t
  <2>1. t[k] = c[Ascending(S)[k]] /\ Ascending(S)[k] \in S /\ Ascending(S)[k] \in DOMAIN c
    BY <1>1, <1>4, <1>7
  <2>2. c[Ascending(S)[k]] \in Range(c)
    BY <2>1 DEF Range
  <2> QED BY <1>5, <2>1, <2>2
<1>9. \A k, l \in DOMAIN t : t[k][field] = t[l][field] => k = l
  <2> SUFFICES ASSUME NEW k \in DOMAIN t, NEW l \in DOMAIN t, t[k][field] = t[l][field]
               PROVE  k = l
    OBVIOUS
  <2>1. t[k] = c[Ascending(S)[k]] /\ t[l] = c[Ascending(S)[l]]
    BY <1>1, <1>7
  <2>2. Ascending(S)[k] = Ascending(S)[l]
    BY <1>4, <1>6, <1>7, <2>1
  <2> QED BY <1>4, <1>7, <2>2
<1> QED BY <1>1, <1>8, <1>9 DEF t

\* If there is room for every value of the field, each is taken that is not known.
LEMMA TakenCover ==
  ASSUME NEW V, NEW c \in Seq(V), NEW field, NEW known, NEW n \in Nat,
         IsFiniteSet(Values(c, field)), Cardinality(Values(c, field)) <= n
  PROVE  LET t == Truncated(FirstOfEach(c, field, known), n)
         IN \A i \in DOMAIN c : c[i][field] \in known
                                \/ \E k \in DOMAIN t : t[k][field] = c[i][field]
<1> DEFINE S == Fresh(c, field, known)
           m == Fitting(n, S)
           t == Truncated(FirstOfEach(c, field, known), n)
<1>1. /\ t \in Seq(V) /\ Len(t) = m
      /\ \A k \in 1..m : t[k] = c[Ascending(S)[k]]
  BY Taken
<1>2. S \subseteq Nat /\ IsFiniteSet(S) /\ Cardinality(S) \in Nat /\ S \subseteq DOMAIN c
  <2>1. DOMAIN c = 1..Len(c) /\ Len(c) \in Nat
    OBVIOUS
  <2>2. IsFiniteSet(1..Len(c)) /\ S \subseteq 1..Len(c)
    BY <2>1, FS_Interval DEF Fresh
  <2> HIDE DEF S
  <2>3. IsFiniteSet(S)
    BY <2>2, FS_Subset
  <2>4. Cardinality(S) \in Nat
    BY <2>3, FS_CardinalityType
  <2> QED BY <2>1, <2>2, <2>3, <2>4
<1>3. \A i \in S : \A j \in 1..(i - 1) : c[j][field] # c[i][field]
  BY DEF Fresh
<1>4. Cardinality(S) <= n
  <2> DEFINE f == [i \in S |-> c[i][field]]
             W == Values(c, field)
  <2>1. \A i \in S : c[i][field] \in W
    BY <1>2 DEF Values
  <2> HIDE DEF S, W
  <2>2. \A i, j \in S : c[i][field] = c[j][field] => i = j
    <3> SUFFICES ASSUME NEW i \in S, NEW j \in S, c[i][field] = c[j][field], i # j
                 PROVE  FALSE
      OBVIOUS
    <3>1. i \in 1..Len(c) /\ j \in 1..Len(c)
      BY <1>2
    <3>2. i \in 1..(j - 1) \/ j \in 1..(i - 1)
      BY <3>1
    <3> QED BY <1>3, <3>2
  <2>3. f \in Injection(S, W)
    <3>1. f \in [S -> W]
      BY <2>1
    <3>2. \A i, j \in S : f[i] = f[j] => i = j
      BY <2>2
    <3> HIDE DEF f
    <3> QED BY <3>1, <3>2 DEF Injection, IsInjective
  <2>4. IsFiniteSet(W) /\ Cardinality(W) <= n /\ Cardinality(W) \in Nat
    BY FS_CardinalityType DEF W
  <2>5. Cardinality(S) <= Cardinality(W)
    BY <2>3, <2>4, FS_Injection
  <2> QED BY <1>2, <2>4, <2>5
<1>5. m = Cardinality(S)
  <2> HIDE DEF S
  <2> QED BY <1>2, <1>4, LesserOf DEF Fitting
<1> SUFFICES ASSUME NEW i \in DOMAIN c, c[i][field] \notin known
             PROVE  \E k \in DOMAIN t : t[k][field] = c[i][field]
  OBVIOUS
<1>6. PICK j \in DOMAIN c : /\ c[j][field] = c[i][field]
                            /\ \A l \in 1..(j - 1) : c[l][field] # c[i][field]
  <2> DEFINE Same == {l \in DOMAIN c : c[l][field] = c[i][field]}
  <2>1. Same \subseteq Nat /\ Same # {}
    OBVIOUS
  <2>2. PICK j \in Same : \A l \in Same : j <= l
    BY <2>1, LeastElement
  <2>3. \A l \in 1..(j - 1) : l \in DOMAIN c /\ ~(j <= l)
    OBVIOUS
  <2> QED BY <2>2, <2>3
<1>7. j \in S
  BY <1>6 DEF Fresh
<1> HIDE DEF S, m, t
<1>8. PICK k \in 1..Cardinality(S) : Ascending(S)[k] = j
  BY <1>2, <1>7, AscendingOnto
<1>9. k \in DOMAIN t /\ t[k] = c[j]
  BY <1>1, <1>5, <1>8
<1> QED BY <1>6, <1>9

\* No more is drawn than was dealt, each from the candidates; if a rank belongs to one
\* stratum, none is drawn twice; if there is room, every stratum is drawn from.
LEMMA SelectGood ==
  ASSUME NEW V, NEW c \in Seq(V), NEW n \in Nat
  PROVE  LET s == Select(c, n)
         IN /\ s \in Seq(V) /\ Len(s) <= n
            /\ \A i \in DOMAIN s : s[i] \in Range(c)
            /\ (\A i, j \in DOMAIN c : c[i].rank = c[j].rank => c[i].stratum = c[j].stratum)
               => \A i, j \in DOMAIN s : s[i].rank = s[j].rank => i = j
            /\ IsFiniteSet(Values(c, "stratum")) /\ Cardinality(Values(c, "stratum")) <= n
               => \A i \in DOMAIN c : \E k \in DOMAIN s : s[k].stratum = c[i].stratum
<1> DEFINE a == Truncated(FirstOfEach(c, "stratum", {}), n)
           ranks == {a[i].rank : i \in DOMAIN a}
           b == Truncated(FirstOfEach(c, "rank", ranks), n - Len(a))
           s == a \o b
<1>0. Select(c, n) = s
  BY DEF Select
<1>1. /\ a \in Seq(V) /\ Len(a) <= n
      /\ \A k \in DOMAIN a : a[k] \in Range(c)
      /\ \A k, l \in DOMAIN a : a[k]["stratum"] = a[l]["stratum"] => k = l
  BY TakenDiffer
<1>2. IsFiniteSet(Values(c, "stratum")) /\ Cardinality(Values(c, "stratum")) <= n
      => \A i \in DOMAIN c : \E k \in DOMAIN a : a[k]["stratum"] = c[i]["stratum"]
  BY TakenCover
<1> HIDE DEF a
<1>3. Len(a) \in Nat /\ n - Len(a) \in Nat
  BY <1>1
<1>4. /\ b \in Seq(V) /\ Len(b) <= n - Len(a)
      /\ \A k \in DOMAIN b : b[k] \in Range(c) /\ b[k]["rank"] \notin ranks
      /\ \A k, l \in DOMAIN b : b[k]["rank"] = b[l]["rank"] => k = l
  <2> DEFINE r == n - Len(a)
             u == Truncated(FirstOfEach(c, "rank", ranks), r)
  <2>1. r \in Nat
    BY <1>3
  <2> HIDE DEF r, ranks
  <2>2. /\ u \in Seq(V) /\ Len(u) <= r
        /\ \A k \in DOMAIN u : u[k] \in Range(c) /\ u[k]["rank"] \notin ranks
        /\ \A k, l \in DOMAIN u : u[k]["rank"] = u[l]["rank"] => k = l
    BY <2>1, TakenDiffer
  <2> QED BY <2>2 DEF r
<1> HIDE DEF b
<1>5. \A x : x["rank"] = x.rank /\ x["stratum"] = x.stratum
  OBVIOUS
<1>6. \A k \in DOMAIN b, l \in DOMAIN a : b[k].rank # a[l].rank
  BY <1>4, <1>5
<1> HIDE DEF ranks
<1>7. /\ s \in Seq(V) /\ Len(s) = Len(a) + Len(b)
      /\ \A i \in DOMAIN s : s[i] = IF i <= Len(a) THEN a[i] ELSE b[i - Len(a)]
      /\ \A i \in DOMAIN s : IF i <= Len(a) THEN i \in DOMAIN a ELSE i - Len(a) \in DOMAIN b
      /\ \A k \in DOMAIN a : k \in DOMAIN s /\ k <= Len(a)
  BY <1>1, <1>4
<1> HIDE DEF s
<1>8. Len(s) <= n
  BY <1>1, <1>3, <1>4, <1>7
<1>9. \A i \in DOMAIN s : s[i] \in Range(c)
  BY <1>1, <1>4, <1>7
<1>10. ASSUME \A i, j \in DOMAIN c : c[i].rank = c[j].rank => c[i].stratum = c[j].stratum,
              NEW i \in DOMAIN s, NEW j \in DOMAIN s, s[i].rank = s[j].rank
       PROVE  i = j
  <2>1. \A x, y \in Range(c) : x.rank = y.rank => x.stratum = y.stratum
    BY <1>10 DEF Range
  <2>2. s[i].stratum = s[j].stratum
    BY <1>9, <1>10, <2>1
  <2>3. i \in Nat /\ j \in Nat
    BY <1>7
  <2>4. CASE i <= Len(a) /\ j <= Len(a)
    <3>1. i \in DOMAIN a /\ j \in DOMAIN a /\ s[i] = a[i] /\ s[j] = a[j]
      BY <1>7, <2>4
    <3>2. a[i].stratum = a[j].stratum
      BY <2>2, <3>1
    <3> QED BY <1>1, <1>5, <3>1, <3>2
  <2>5. CASE ~(i <= Len(a)) /\ ~(j <= Len(a))
    <3>1. /\ i - Len(a) \in DOMAIN b /\ j - Len(a) \in DOMAIN b
          /\ s[i] = b[i - Len(a)] /\ s[j] = b[j - Len(a)]
      BY <1>7, <2>5
    <3>2. b[i - Len(a)].rank = b[j - Len(a)].rank
      BY <1>10, <3>1
    <3>3. i - Len(a) = j - Len(a)
      BY <1>4, <1>5, <3>1, <3>2
    <3> QED BY <1>3, <2>3, <3>3
  <2>6. CASE i <= Len(a) /\ ~(j <= Len(a))
    <3>1. i \in DOMAIN a /\ j - Len(a) \in DOMAIN b /\ s[i] = a[i] /\ s[j] = b[j - Len(a)]
      BY <1>7, <2>6
    <3> QED BY <1>6, <1>10, <3>1
  <2>7. CASE ~(i <= Len(a)) /\ j <= Len(a)
    <3>1. j \in DOMAIN a /\ i - Len(a) \in DOMAIN b /\ s[j] = a[j] /\ s[i] = b[i - Len(a)]
      BY <1>7, <2>7
    <3> QED BY <1>6, <1>10, <3>1
  <2> QED BY <2>4, <2>5, <2>6, <2>7
<1>11. ASSUME IsFiniteSet(Values(c, "stratum")), Cardinality(Values(c, "stratum")) <= n,
              NEW i \in DOMAIN c
       PROVE  \E k \in DOMAIN s : s[k].stratum = c[i].stratum
  <2>1. PICK k \in DOMAIN a : a[k].stratum = c[i].stratum
    BY <1>2, <1>5, <1>11
  <2>2. k \in DOMAIN s /\ s[k] = a[k]
    BY <1>7
  <2> QED BY <2>1, <2>2
<1>12. /\ s \in Seq(V) /\ Len(s) <= n
       /\ \A i \in DOMAIN s : s[i] \in Range(c)
       /\ (\A i, j \in DOMAIN c : c[i].rank = c[j].rank => c[i].stratum = c[j].stratum)
          => \A i, j \in DOMAIN s : s[i].rank = s[j].rank => i = j
       /\ IsFiniteSet(Values(c, "stratum")) /\ Cardinality(Values(c, "stratum")) <= n
          => \A i \in DOMAIN c : \E k \in DOMAIN s : s[k].stratum = c[i].stratum
  BY <1>7, <1>8, <1>9, <1>10, <1>11
<1> QED BY <1>0, <1>12
=============================================================================
