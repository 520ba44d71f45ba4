------------------------------ MODULE PathLemmas ------------------------------
(***************************************************************************)
(* What the filters' operators on paths do with every path: lemmas about   *)
(* RequestRouting that need nothing of its steps.                          *)
(*                                                                         *)
(* A part of a cleaned path is found by its rank, the number of parts kept *)
(* up to it.  Ranks are without gaps and no two parts share one, which is  *)
(* proved from the least number with a rank, in place of an induction.     *)
(***************************************************************************)
EXTENDS RequestRouting, SequenceTheorems, FiniteSetTheorems,
        WellFoundedInduction, TLAPS

-----------------------------------------------------------------------------
(* Sets of numbers.                                                        *)

LEMMA Least ==
    ASSUME NEW S \in SUBSET Nat, S # {}
    PROVE  Min(S) \in S /\ \A y \in S : Min(S) <= y
<1>1. PICK x \in S : \A y \in S : ~(<<y, x>> \in OpToRel(<, Nat))
  BY NatLessThanWellFounded, WFMin
<1>2. \A y \in S : x <= y
  <2>. TAKE y \in S
  <2>1. <<y, x>> \in Nat \X Nat
    OBVIOUS
  <2>2. OpToRel(<, Nat) = {ss \in Nat \X Nat : ss[1] < ss[2]}
    BY Zenon DEF OpToRel
  <2>3. <<y, x>> \notin {ss \in Nat \X Nat : ss[1] < ss[2]}
    BY <1>1, <2>2
  <2>. QED BY <2>1, <2>3
<1>. QED BY <1>2 DEF Min

LEMMA Greatest ==
    ASSUME NEW n \in Nat, NEW S \in SUBSET (1..n), S # {}
    PROVE  Max(S) \in S /\ \A y \in S : Max(S) >= y
<1>. DEFINE R == {i \in 0..n : n - i \in S}
<1>1. \A i \in S : n - i \in R
  <2>. TAKE i \in S
  <2>1. n - i \in 0..n /\ n - (n - i) = i
    OBVIOUS
  <2>. QED BY <2>1
<1>2. R \in SUBSET Nat /\ R # {}
  <2>1. R \subseteq 0..n /\ 0..n \subseteq Nat
    OBVIOUS
  <2>. QED BY <1>1, <2>1
<1>3. Min(R) \in R /\ \A y \in R : Min(R) <= y
  BY <1>2, Least
<1>4. \A y \in S : n - Min(R) >= y
  BY <1>1, <1>3
<1>5. n - Min(R) \in S
  BY <1>3
<1>6. \E x \in S : \A y \in S : x >= y
  BY <1>4, <1>5
<1>. HIDE DEF R
<1>. QED BY <1>6 DEF Max

\* How many numbers of K there are up to i.
Rank(K, i) == Cardinality({k \in K : k <= i})

LEMMA RankType ==
    ASSUME NEW n \in Nat, NEW K \in SUBSET (1..n), NEW i \in Nat
    PROVE  IsFiniteSet({k \in K : k <= i}) /\ Rank(K, i) \in Nat
<1>1. IsFiniteSet(1..n)
  BY FS_Interval
<1>2. {k \in K : k <= i} \subseteq 1..n
  OBVIOUS
<1>. QED BY <1>1, <1>2, FS_Subset, FS_CardinalityType DEF Rank

\* Every rank is that of a number of K.
LEMMA Ranked ==
    ASSUME NEW n \in Nat, NEW K \in SUBSET (1..n), NEW r \in 1..Cardinality(K)
    PROVE  \E i \in K : Rank(K, i) = r
<1>. DEFINE T == {x \in Nat : Rank(K, x) >= r}
<1>0. \A k \in K : k \in Nat /\ 1 <= k /\ k <= n
  OBVIOUS
<1>1. {k \in K : k <= n} = K
  BY <1>0
<1>2. n \in T
  <2>1. Rank(K, n) = Cardinality(K) /\ Rank(K, n) \in Nat
    BY <1>1, RankType DEF Rank
  <2>. QED BY <2>1
<1>3. PICK x \in T : \A y \in T : x <= y
  <2>1. T \in SUBSET Nat /\ T # {}
    BY <1>2
  <2>. HIDE DEF T
  <2>. QED BY <2>1, Least
<1>4. x # 0
  <2>1. {k \in K : k <= 0} = {}
    <3>1. \A k \in K : ~(k <= 0)
      BY <1>0
    <3>. QED BY <3>1
  <2>2. Rank(K, 0) = 0
    BY <2>1, FS_EmptySet DEF Rank
  <2>3. Cardinality(K) \in Nat
    BY <1>1, RankType DEF Rank
  <2>. QED BY <2>2, <2>3
<1>5. x - 1 \in Nat /\ x - 1 \notin T
  BY <1>3, <1>4
<1>6. Rank(K, x - 1) \in Nat /\ Rank(K, x) \in Nat
      /\ IsFiniteSet({k \in K : k <= x - 1})
  BY <1>5, RankType
<1>7. Cardinality(K) \in Nat
  BY <1>1, RankType DEF Rank
<1>8. Rank(K, x - 1) < r /\ Rank(K, x) >= r
  BY <1>5, <1>6, <1>7
<1>9. x \in K
  <2>. SUFFICES ASSUME x \notin K PROVE FALSE
    OBVIOUS
  <2>1. {k \in K : k <= x} = {k \in K : k <= x - 1}
    <3>1. \A k \in K : k # x
      OBVIOUS
    <3>2. \A k \in K : k <= x <=> k <= x - 1
      BY <1>0, <1>5, <3>1
    <3>. QED BY <3>2
  <2>2. Rank(K, x) = Rank(K, x - 1)
    BY <2>1 DEF Rank
  <2>. QED BY <1>6, <1>7, <1>8, <2>2
<1>10. Rank(K, x) = Rank(K, x - 1) + 1
  <2>1. {k \in K : k <= x} = {k \in K : k <= x - 1} \union {x}
    <3>1. \A k \in K : k <= x <=> (k <= x - 1 \/ k = x)
      BY <1>0, <1>5
    <3>. QED BY <1>9, <1>0, <3>1
  <2>2. x \notin {k \in K : k <= x - 1}
    OBVIOUS
  <2>. QED BY <1>6, <2>1, <2>2, FS_AddElement DEF Rank
<1>11. Rank(K, x) = r
  BY <1>6, <1>7, <1>8, <1>10
<1>. QED BY <1>9, <1>11

\* No two numbers of K have the same rank, which is one of 1..Cardinality(K).
LEMMA RanksDiffer ==
    ASSUME NEW n \in Nat, NEW K \in SUBSET (1..n), NEW i \in K
    PROVE  /\ Rank(K, i) \in 1..Cardinality(K)
           /\ \A j \in K : Rank(K, j) = Rank(K, i) => j = i
<1>0. \A k \in K : k \in Nat /\ k \in 1..n
  OBVIOUS
<1>1. \A a, b \in K : a < b => Rank(K, a) < Rank(K, b)
  <2>. SUFFICES ASSUME NEW a \in K, NEW b \in K, a < b
                PROVE  Rank(K, a) < Rank(K, b)
    OBVIOUS
  <2>1. /\ {k \in K : k <= a} \subseteq {k \in K : k <= b}
        /\ b \in {k \in K : k <= b} \ {k \in K : k <= a}
    <3>1. \A k \in K : k <= a => k <= b
      BY <1>0
    <3>2. b <= b /\ ~(b <= a)
      BY <1>0
    <3>. QED BY <3>1, <3>2
  <2>2. IsFiniteSet({k \in K : k <= b}) /\ Rank(K, a) \in Nat /\ Rank(K, b) \in Nat
    BY <1>0, RankType
  <2>3. Cardinality({k \in K : k <= a}) # Cardinality({k \in K : k <= b})
        /\ Cardinality({k \in K : k <= a}) <= Cardinality({k \in K : k <= b})
    BY <2>1, <2>2, FS_Subset
  <2>. QED BY <2>2, <2>3 DEF Rank
<1>2. \A j \in K : Rank(K, j) \in Nat
  BY <1>0, RankType
<1>3. \A j \in K : Rank(K, j) = Rank(K, i) => j = i
  <2>. SUFFICES ASSUME NEW j \in K, Rank(K, j) = Rank(K, i), j # i PROVE FALSE
    OBVIOUS
  <2>1. j < i \/ i < j
    BY <1>0
  <2>. QED BY <1>1, <1>2, <2>1
<1>4. Rank(K, i) >= 1 /\ Rank(K, i) <= Cardinality(K)
  <2>1. IsFiniteSet(K)
    <3>1. IsFiniteSet(1..n) /\ K \subseteq 1..n
      BY FS_Interval
    <3>. QED BY <3>1, FS_Subset
  <2>2. {i} \subseteq {k \in K : k <= i} /\ {k \in K : k <= i} \subseteq K
    BY <1>0
  <2>3. Cardinality({i}) = 1
    BY FS_Singleton
  <2>. QED BY <2>1, <2>2, <2>3, RankType, FS_Subset DEF Rank
<1>5. Cardinality(K) \in Nat
  <2>1. IsFiniteSet(1..n) /\ K \subseteq 1..n
    BY FS_Interval
  <2>. QED BY <2>1, FS_Subset, FS_CardinalityType
<1>. QED BY <1>2, <1>3, <1>4, <1>5

-----------------------------------------------------------------------------
(* The operators on paths.                                                 *)

LEMMA Words ==
    /\ Blank \in STRING
    /\ Blank \notin Names \union {"api", "apis", "clusters"} \union Dots
<1>1. Blank \notin Names \union {"api", "apis", "clusters"} \union Dots
  BY Zenon DEF Blank, Names, Dots
<1>. QED BY <1>1, StringAssumption

LEMMA DropType ==
    ASSUME NEW q \in Seq(STRING), NEW n \in Nat
    PROVE  Drop(q, n) \in Seq(STRING)
<1>1. Len(q) \in Nat /\ \A i \in (n + 1)..Len(q) : q[i] \in STRING
  BY LenProperties, ElementOfSeq
<1>. QED BY <1>1, SubSeqProperties DEF Drop

\* What is left of a path is one, if no part is cut or Behind has its rest.
LEMMA TrimType ==
    ASSUME NEW q \in Seq(STRING), NEW p, Len(p) \in Nat, Len(p) >= 1
    PROVE  TrimPrefix(q, p) \in Seq(STRING)
<1>1. CASE HasPrefix(q, p)
  <2>1. Len(q) >= Len(p) /\ Begins(q[Len(p)], p[Len(p)]) /\ Len(q) \in Nat
    BY <1>1, LenProperties DEF HasPrefix
  <2>2. q[Len(p)] \in STRING
    BY <2>1, ElementOfSeq
  <2>3. Rest(q[Len(p)], p[Len(p)]) \in STRING
    BY <2>1, <2>2, Words, BehindAssumption DEF Rest, Begins
  <2>4. Drop(q, Len(p)) \in Seq(STRING)
    BY DropType
  <2>5. <<Rest(q[Len(p)], p[Len(p)])>> \in Seq(STRING)
    BY <2>3
  <2>. QED BY <1>1, <2>4, <2>5, ConcatProperties DEF TrimPrefix
<1>2. CASE ~HasPrefix(q, p)
  BY <1>2 DEF TrimPrefix
<1>. QED BY <1>1, <1>2

\* The parts of a path without the empty ones at its ends.
LEMMA SplitFacts ==
    ASSUME NEW S, NEW q \in Seq(S)
    PROVE  /\ splitPath(q) \in Seq(S)
           /\ \A i \in 1..Len(q) :
                 /\ q[i] # Blank
                 /\ \A j \in 1..(i - 1) : q[j] = Blank
                 => splitPath(q) # <<>> /\ splitPath(q)[1] = q[i]
<1>. DEFINE filled == {i \in 1..Len(q) : q[i] # Blank}
<1>1. Len(q) \in Nat /\ \A i \in 1..Len(q) : q[i] \in S
  BY LenProperties, ElementOfSeq
<1>2. CASE filled = {}
  <2>1. splitPath(q) = <<>>
    BY <1>2 DEF splitPath
  <2>. QED BY <1>2, <2>1
<1>3. CASE filled # {}
  <2>1. splitPath(q) = SubSeq(q, Min(filled), Max(filled))
    BY <1>3 DEF splitPath
  <2>2. filled \in SUBSET (1..Len(q)) /\ filled \in SUBSET Nat
    BY <1>1
  <2>3. /\ Min(filled) \in filled /\ \A y \in filled : Min(filled) <= y
        /\ Max(filled) \in filled /\ \A y \in filled : Max(filled) >= y
    <3>. HIDE DEF filled
    <3>. QED BY <1>1, <1>3, <2>2, Least, Greatest
  <2>4. PICK a, b : a = Min(filled) /\ b = Max(filled)
    OBVIOUS
  <2>5. /\ a \in 1..Len(q) /\ b \in 1..Len(q) /\ a <= b /\ q[a] # Blank
        /\ \A i \in 1..Len(q) : q[i] # Blank => a <= i
    BY <2>3, <2>4
  <2>6. \A i \in a..b : q[i] \in S
    BY <1>1, <2>5
  <2>7. /\ SubSeq(q, a, b) \in Seq(S)
        /\ Len(SubSeq(q, a, b)) = b - a + 1
        /\ SubSeq(q, a, b)[1] = q[a]
    <3>1. /\ SubSeq(q, a, b) \in Seq(S)
          /\ Len(SubSeq(q, a, b)) = IF a <= b THEN b - a + 1 ELSE 0
          /\ \A i \in 1..(b - a + 1) : SubSeq(q, a, b)[i] = q[a + i - 1]
      BY <2>5, <2>6, SubSeqProperties
    <3>2. 1 \in 1..(b - a + 1) /\ a + 1 - 1 = a
      BY <1>1, <2>5
    <3>. QED BY <2>5, <3>1, <3>2
  <2>8. ASSUME NEW i \in 1..Len(q), q[i] # Blank,
               \A j \in 1..(i - 1) : q[j] = Blank
        PROVE  a = i
    <3>1. a <= i /\ ~(a \in 1..(i - 1))
      BY <2>5, <2>8
    <3>. QED BY <1>1, <2>5, <3>1
  <2>9. SubSeq(q, a, b) # <<>>
    BY <1>1, <2>5, <2>7, EmptySeq
  <2>. QED BY <2>1, <2>4, <2>7, <2>8, <2>9
<1>. QED BY <1>2, <1>3

\* A rooted path's first part, if there is one.
LEMMA FirstPart ==
    ASSUME NEW S, NEW q \in Seq(S)
    PROVE  /\ Len(q) >= 2 /\ q[1] = Blank /\ q[2] # Blank
                 => splitPath(q) # <<>> /\ splitPath(q)[1] = q[2]
           /\ Len(q) >= 1 /\ q[1] # Blank
                 => splitPath(q) # <<>> /\ splitPath(q)[1] = q[1]
<1>1. Len(q) \in Nat
  BY LenProperties
<1>2. Len(q) >= 2 => 2 \in 1..Len(q) /\ \A j \in 1..(2 - 1) : j = 1
  BY <1>1
<1>3. Len(q) >= 1 => 1 \in 1..Len(q) /\ 1..(1 - 1) = {}
  BY <1>1
<1>. QED BY <1>2, <1>3, SplitFacts

\* A part begins with one name at most, and then it is no other word.
LEMMA OneName ==
    ASSUME NEW x, NEW a \in Names, Begins(x, a)
    PROVE  /\ \A b \in Names : Begins(x, b) => a = b
           /\ x \notin {"api", "apis", "clusters", Blank}
<1>1. Names \cap {"api", "apis", "clusters"} = {}
  BY DEF Names
<1>2. CASE x = a
  BY <1>1, <1>2, Words, BehindAssumption DEF Begins
<1>3. CASE <<x, a>> \in DOMAIN Behind
  BY <1>1, <1>3, Words, BehindAssumption DEF Begins
<1>. QED BY <1>2, <1>3, Words DEF Begins

-----------------------------------------------------------------------------
(* path.Clean.                                                             *)

Kept(q) == {i \in 1..Len(q) : Stays(q, i)}

LEMMA KeptFacts ==
    ASSUME NEW S, NEW q \in Seq(S)
    PROVE  /\ Len(q) \in Nat /\ Kept(q) \in SUBSET (1..Len(q))
           /\ Cardinality(Kept(q)) \in Nat
           /\ Kept(q) = {} <=> Cardinality(Kept(q)) = 0
           /\ \A i \in Kept(q) : q[i] \in S /\ q[i] \notin Dots \union {Blank}
<1>1. Len(q) \in Nat /\ \A i \in 1..Len(q) : q[i] \in S
  BY LenProperties, ElementOfSeq
<1>2. Kept(q) \subseteq 1..Len(q) /\ IsFiniteSet(1..Len(q))
  BY <1>1, FS_Interval DEF Kept
<1>3. IsFiniteSet(Kept(q))
  BY <1>2, FS_Subset
<1>. QED BY <1>1, <1>2, <1>3, FS_CardinalityType, FS_EmptySet DEF Kept, Stays

\* The parts of a clean path are parts that are kept, each at its rank.
LEMMA CleanFacts ==
    ASSUME NEW S, Blank \in S, NEW q \in Seq(S)
    PROVE  /\ Clean(q) \in Seq(S)
           /\ Len(Clean(q)) = 1 + (IF Kept(q) = {} THEN 1 ELSE Cardinality(Kept(q)))
           /\ Clean(q)[1] = Blank
           /\ \A n \in DOMAIN Clean(q) : Clean(q)[n] \notin Dots
           /\ \A i \in Kept(q) : /\ Rank(Kept(q), i) \in 1..Cardinality(Kept(q))
                                 /\ Clean(q)[1 + Rank(Kept(q), i)] = q[i]
<1>. DEFINE K    == Kept(q)
            rest == IF K = {} THEN <<Blank>> ELSE Picked(q, K)
            m    == IF K = {} THEN 1 ELSE Cardinality(K)
<1>1. /\ Len(q) \in Nat /\ K \in SUBSET (1..Len(q)) /\ Cardinality(K) \in Nat
      /\ K = {} <=> Cardinality(K) = 0
      /\ \A i \in K : q[i] \in S /\ q[i] \notin Dots \union {Blank}
  BY KeptFacts
<1>2. Clean(q) = <<Blank>> \o rest
  BY DEF Clean, Kept
<1>. HIDE DEF K
<1>3. \A n \in 1..Cardinality(K) : \E i \in K : Rank(K, i) = n
  BY <1>1, Ranked
<1>4. \A n \in 1..Cardinality(K) :
         LET i == CHOOSE i \in K : Rank(K, i) = n
         IN  i \in K /\ Rank(K, i) = n
  BY <1>3
<1>5. Picked(q, K) = [n \in 1..Cardinality(K) |->
                         q[CHOOSE i \in K : Rank(K, i) = n]]
  BY DEF Picked, Rank
<1>6. /\ Picked(q, K) \in [1..Cardinality(K) -> S]
      /\ \A n \in 1..Cardinality(K) : Picked(q, K)[n] \notin Dots \union {Blank}
      /\ \A i \in K : /\ Rank(K, i) \in 1..Cardinality(K)
                      /\ Picked(q, K)[Rank(K, i)] = q[i]
  <2>1. \A n \in 1..Cardinality(K) :
           Picked(q, K)[n] \in S /\ Picked(q, K)[n] \notin Dots \union {Blank}
    BY <1>1, <1>4, <1>5
  <2>2. ASSUME NEW i \in K
        PROVE  /\ Rank(K, i) \in 1..Cardinality(K)
               /\ Picked(q, K)[Rank(K, i)] = q[i]
    <3>1. /\ Rank(K, i) \in 1..Cardinality(K)
          /\ \A j \in K : Rank(K, j) = Rank(K, i) => j = i
      BY <1>1, RanksDiffer
    <3>2. (CHOOSE j \in K : Rank(K, j) = Rank(K, i)) = i
      BY <1>4, <3>1
    <3>. QED BY <1>5, <3>1, <3>2
  <2>. QED BY <1>5, <2>1, <2>2
<1>7. /\ rest \in Seq(S) /\ Len(rest) = m /\ m \in Nat /\ m >= 1
      /\ \A n \in 1..m : rest[n] \notin Dots
      /\ K # {} => rest = Picked(q, K)
  <2>1. CASE K = {}
    BY <2>1, Words
  <2>2. CASE K # {}
    <3>1. rest = Picked(q, K) /\ m = Cardinality(K) /\ m \in Nat /\ m >= 1
      <4>1. rest = Picked(q, K)
        BY Zenon, <2>2
      <4>2. m = Cardinality(K)
        BY Zenon, <2>2
      <4>3. Cardinality(K) \in Nat /\ Cardinality(K) # 0
        BY <1>1, <2>2
      <4>. HIDE DEF rest, m
      <4>. QED BY <4>1, <4>2, <4>3
    <3>2. Picked(q, K) \in Seq(S)
      BY <1>1, <1>6, IsASeq
    <3>3. DOMAIN Picked(q, K) = 1..Cardinality(K)
      BY <1>5
    <3>4. Len(Picked(q, K)) = Cardinality(K)
      BY <1>1, <3>2, <3>3, LenProperties
    <3>5. \A n \in 1..m : rest[n] \notin Dots
      BY <1>6, <3>1
    <3>. QED BY <3>1, <3>2, <3>4, <3>5
  <2>. QED BY <2>1, <2>2
<1>. HIDE DEF rest, m
<1>8. <<Blank>> \in Seq(S) /\ Len(<<Blank>>) = 1 /\ <<Blank>>[1] = Blank
  OBVIOUS
<1>9. /\ Clean(q) \in Seq(S) /\ Len(Clean(q)) = 1 + m
      /\ \A n \in 1..(1 + m) :
            Clean(q)[n] = IF n <= 1 THEN <<Blank>>[n] ELSE rest[n - 1]
  BY <1>2, <1>7, <1>8, ConcatProperties
<1>10. Clean(q)[1] = Blank
  BY <1>7, <1>8, <1>9
<1>11. \A n \in DOMAIN Clean(q) : Clean(q)[n] \notin Dots
  <2>1. DOMAIN Clean(q) = 1..(1 + m)
    BY <1>9, LenProperties
  <2>2. \A n \in 2..(1 + m) : Clean(q)[n] = rest[n - 1] /\ n - 1 \in 1..m
    BY <1>7, <1>9
  <2>3. \A n \in 1..(1 + m) : n = 1 \/ n \in 2..(1 + m)
    BY <1>7
  <2>. QED BY <1>7, <1>10, <2>1, <2>2, <2>3, Words
<1>12. ASSUME NEW i \in K
       PROVE  /\ Rank(K, i) \in 1..Cardinality(K)
              /\ Clean(q)[1 + Rank(K, i)] = q[i]
  <2>1. /\ Rank(K, i) \in 1..Cardinality(K) /\ Picked(q, K)[Rank(K, i)] = q[i]
        /\ m = Cardinality(K)
    BY <1>6 DEF m
  <2>2. /\ 1 + Rank(K, i) \in 1..(1 + m) /\ ~(1 + Rank(K, i) <= 1)
        /\ (1 + Rank(K, i)) - 1 = Rank(K, i)
    BY <1>7, <2>1
  <2>. QED BY <1>7, <1>9, <2>1, <2>2
<1>. QED BY <1>9, <1>10, <1>11, <1>12 DEF K, m

\* Without "." and ".." it is the empty parts alone that are dropped.
LEMMA PlainKept ==
    ASSUME NEW S, NEW q \in Seq(S), \A i \in 1..Len(q) : q[i] \notin Dots
    PROVE  Kept(q) = {i \in 1..Len(q) : q[i] # Blank}
<1>. SUFFICES ASSUME NEW i \in 1..Len(q), q[i] # Blank PROVE Stays(q, i)
  BY DEF Kept, Stays
<1>. SUFFICES ASSUME NEW j \in i..Len(q)
              PROVE  Cardinality({k \in (i + 1)..j : q[k] = ".."})
                        <= Cardinality({k \in (i + 1)..j :
                                           q[k] \notin Dots \union {Blank}})
  BY DEF Stays
<1>1. Len(q) \in Nat
  BY LenProperties
<1>2. \A k \in (i + 1)..j : k \in 1..Len(q)
  BY <1>1
<1>3. {k \in (i + 1)..j : q[k] = ".."} = {}
  BY <1>2 DEF Dots
<1>4. Cardinality({k \in (i + 1)..j : q[k] = ".."}) = 0
  BY <1>3, FS_EmptySet
<1>. DEFINE others == {k \in (i + 1)..j : q[k] \notin Dots \union {Blank}}
<1>5. i + 1 \in Int /\ j \in Int
  BY <1>1
<1>6. IsFiniteSet((i + 1)..j)
  BY <1>5, FS_Interval
<1>7. IsFiniteSet(others)
  <2>1. others \subseteq (i + 1)..j
    OBVIOUS
  <2>. QED BY <1>6, <2>1, FS_Subset
<1>8. Cardinality(others) \in Nat
  BY <1>7, FS_CardinalityType
<1>. QED BY <1>4, <1>8

\* Where a plain path begins with parts that are not empty, it is clean.
LEMMA FirstParts ==
    ASSUME NEW S, Blank \in S, NEW q \in Seq(S), NEW n \in 2..Len(q),
           \A i \in 1..Len(q) : q[i] \notin Dots,
           q[1] = Blank, \A i \in 2..n : q[i] # Blank
    PROVE  Len(Clean(q)) >= n /\ \A i \in 2..n : Clean(q)[i] = q[i]
<1>1. Len(q) \in Nat
  BY LenProperties
<1>2. Kept(q) = {i \in 1..Len(q) : q[i] # Blank}
  BY PlainKept
<1>3. \A i \in 2..n : i \in Kept(q)
  BY <1>1, <1>2
<1>4. ASSUME NEW i \in 2..n
      PROVE  Rank(Kept(q), i) = i - 1
  <2>1. {k \in Kept(q) : k <= i} = 2..i
    <3>1. \A k \in Kept(q) : k \in 1..Len(q) /\ k # 1
      BY <1>2
    <3>2. \A k \in 2..i : k \in Kept(q) /\ k <= i
      BY <1>1, <1>3
    <3>3. \A k \in Kept(q) : k <= i => k \in 2..i
      BY <1>1, <3>1
    <3>. QED BY <3>2, <3>3
  <2>2. 2 \in Int /\ i \in Int /\ 2 <= i
    BY <1>1
  <2>3. Cardinality(2..i) = i - 2 + 1
    BY <2>2, FS_Interval
  <2>4. i - 2 + 1 = i - 1
    BY <2>2
  <2>5. Rank(Kept(q), i) = Cardinality(2..i)
    BY Zenon, <2>1 DEF Rank
  <2>. QED BY <2>3, <2>4, <2>5
<1>5. \A i \in Kept(q) : /\ Rank(Kept(q), i) \in 1..Cardinality(Kept(q))
                          /\ Clean(q)[1 + Rank(Kept(q), i)] = q[i]
  BY CleanFacts
<1>6. \A i \in 2..n : /\ i - 1 \in 1..Cardinality(Kept(q))
                       /\ Clean(q)[1 + (i - 1)] = q[i]
  BY <1>3, <1>4, <1>5
<1>7. \A i \in 2..n : 1 + (i - 1) = i
  BY <1>1
<1>8. Len(Clean(q)) = 1 + (IF Kept(q) = {} THEN 1 ELSE Cardinality(Kept(q)))
  BY CleanFacts
<1>9. Len(Clean(q)) = 1 + Cardinality(Kept(q)) /\ Cardinality(Kept(q)) \in Nat
  BY <1>1, <1>3, <1>8, KeptFacts
<1>10. n - 1 \in 1..Cardinality(Kept(q))
  BY <1>1, <1>6
<1>. QED BY <1>1, <1>6, <1>7, <1>9, <1>10

-----------------------------------------------------------------------------
(* The path of a cluster's proxy, and what is joined to it.                *)

ProxyWords == {"apis", "cluster.karmada.io", "v1alpha1", "clusters", "proxy"}

LEMMA ProxyURL ==
    ASSUME NEW S, Blank \in S, ProxyWords \subseteq S, NEW c \in S
    PROVE  /\ MultiClusterProxyURL(c) \in Seq(S)
           /\ Len(MultiClusterProxyURL(c)) = 7
           /\ MultiClusterProxyURL(c)[1] = Blank
           /\ c \notin Dots \union {Blank} =>
                 \A i \in 2..7 : MultiClusterProxyURL(c)[i] \notin Dots \union {Blank}
<1>1. \A w \in ProxyWords : w \notin Dots \union {Blank}
  BY Zenon DEF ProxyWords, Dots, Blank
<1>2. /\ MultiClusterProxyURL(c) \in Seq(S)
      /\ Len(MultiClusterProxyURL(c)) = 7
      /\ MultiClusterProxyURL(c)[1] = Blank
  BY DEF MultiClusterProxyURL, ProxyWords
<1>3. \A i \in 2..7 : MultiClusterProxyURL(c)[i] \in ProxyWords \union {c}
  <2>1. \A i \in 2..7 : i = 2 \/ i = 3 \/ i = 4 \/ i = 5 \/ i = 6 \/ i = 7
    OBVIOUS
  <2>. QED BY <2>1 DEF MultiClusterProxyURL, ProxyWords
<1>. QED BY <1>1, <1>2, <1>3

\* Behind the proxy of its cluster a plain path stays there, and its first part
\* is the first that the cluster's API server is asked for.
LEMMA JoinedToProxy ==
    ASSUME NEW S, Blank \in S, ProxyWords \subseteq S,
           NEW c \in S, c \notin Dots \union {Blank},
           NEW x \in Seq(S), \A i \in 1..Len(x) : x[i] \notin Dots
    PROVE  /\ SubSeq(Join(MultiClusterProxyURL(c), x), 1, 7) = MultiClusterProxyURL(c)
           /\ Len(x) >= 2 /\ x[1] = Blank /\ x[2] # Blank =>
                 LET q == Drop(Join(MultiClusterProxyURL(c), x), 7)
                 IN  q \in Seq(S) /\ Len(q) >= 1 /\ q[1] = x[2]
<1>. DEFINE u == MultiClusterProxyURL(c)
            q == u \o x
<1>1. /\ u \in Seq(S) /\ Len(u) = 7 /\ u[1] = Blank
      /\ \A i \in 2..7 : u[i] \notin Dots \union {Blank}
  BY ProxyURL
<1>. HIDE DEF u
<1>2. Len(x) \in Nat
  BY LenProperties
<1>3. /\ q \in Seq(S) /\ Len(q) = 7 + Len(x)
      /\ \A i \in 1..(7 + Len(x)) : q[i] = IF i <= 7 THEN u[i] ELSE x[i - 7]
  <2>1. /\ u \o x \in Seq(S) /\ Len(u \o x) = Len(u) + Len(x)
        /\ \A i \in 1..(Len(u) + Len(x)) :
              (u \o x)[i] = IF i <= Len(u) THEN u[i] ELSE x[i - Len(u)]
    <3>1. \A v \in Seq(S) : /\ v \o x \in Seq(S) /\ Len(v \o x) = Len(v) + Len(x)
                             /\ \A i \in 1..(Len(v) + Len(x)) :
                                   (v \o x)[i] = IF i <= Len(v) THEN v[i]
                                                  ELSE x[i - Len(v)]
      BY ConcatProperties
    <3>. QED BY Zenon, <1>1, <3>1
  <2>. QED BY <1>1, <2>1
<1>. HIDE DEF q
<1>4. \A i \in 1..7 : i \in 1..(7 + Len(x)) /\ (i = 1 \/ i \in 2..7) /\ q[i] = u[i]
  BY <1>2, <1>3
<1>5. \A i \in 1..Len(x) : i + 7 \in 1..(7 + Len(x)) /\ q[i + 7] = x[i]
  <2>. TAKE i \in 1..Len(x)
  <2>1. i + 7 \in 1..(7 + Len(x)) /\ ~(i + 7 <= 7) /\ (i + 7) - 7 = i
    BY <1>2
  <2>. QED BY <1>3, <2>1
<1>6. \A i \in 1..Len(q) : q[i] \notin Dots
  <2>1. \A i \in 1..Len(q) : i \in 1..7 \/ \E j \in 1..Len(x) : i = j + 7
    <3>1. \A i \in 1..(7 + Len(x)) :
             i \in 1..7 \/ (i - 7 \in 1..Len(x) /\ i = (i - 7) + 7)
      BY <1>2
    <3>. QED BY <1>3, <3>1
  <2>2. \A i \in 1..7 : q[i] \notin Dots
    BY <1>1, <1>4, Words
  <2>3. \A j \in 1..Len(x) : q[j + 7] \notin Dots
    BY <1>5
  <2>. QED BY <2>1, <2>2, <2>3
<1>7. Len(Clean(q)) >= 7 /\ \A i \in 2..7 : Clean(q)[i] = q[i]
  <2>1. 7 \in 2..Len(q) /\ q[1] = Blank /\ \A i \in 2..7 : i \in 1..7 /\ q[i] # Blank
    BY <1>1, <1>2, <1>3, <1>4
  <2>. QED BY <1>3, <1>6, <2>1, FirstParts
<1>8. Clean(q) \in Seq(S) /\ Clean(q)[1] = Blank /\ Len(Clean(q)) \in Nat
  BY <1>3, CleanFacts, LenProperties
<1>9. SubSeq(Clean(q), 1, 7) = u
  <2>1. \A i \in 1..7 : Clean(q)[i] = u[i]
    BY <1>1, <1>4, <1>7, <1>8
  <2>2. \A i \in 1..7 : Clean(q)[i] \in S
    BY <1>7, <1>8, ElementOfSeq
  <2>3. /\ SubSeq(Clean(q), 1, 7) \in Seq(S) /\ Len(SubSeq(Clean(q), 1, 7)) = 7
        /\ \A i \in 1..7 : SubSeq(Clean(q), 1, 7)[i] = Clean(q)[i]
    <3>1. /\ SubSeq(Clean(q), 1, 7) \in Seq(S)
          /\ Len(SubSeq(Clean(q), 1, 7)) = IF 1 <= 7 THEN 7 - 1 + 1 ELSE 0
          /\ \A i \in 1..(7 - 1 + 1) : SubSeq(Clean(q), 1, 7)[i] = Clean(q)[1 + i - 1]
      BY <2>2, SubSeqProperties
    <3>2. \A i \in 1..7 : i \in 1..(7 - 1 + 1) /\ 1 + i - 1 = i
      OBVIOUS
    <3>. QED BY <3>1, <3>2
  <2>. QED BY <1>1, <2>1, <2>3, SeqEqual
<1>10. ASSUME Len(x) >= 2, x[1] = Blank, x[2] # Blank
       PROVE  /\ Drop(Clean(q), 7) \in Seq(S) /\ Len(Drop(Clean(q), 7)) >= 1
              /\ Drop(Clean(q), 7)[1] = x[2]
  <2>1. q[8] = Blank /\ q[9] = x[2] /\ 9 \in 1..Len(q)
    <3>1. 1 \in 1..Len(x) /\ 2 \in 1..Len(x) /\ 1 + 7 = 8 /\ 2 + 7 = 9
      BY <1>2, <1>10
    <3>. QED BY <1>2, <1>3, <1>5, <1>10, <3>1
  <2>2. Kept(q) = {i \in 1..Len(q) : q[i] # Blank}
    BY <1>3, <1>6, PlainKept
  <2>3. {k \in Kept(q) : k <= 9} = (2..7) \union {9}
    <3>1. \A k \in 2..7 : k \in Kept(q) /\ k <= 9
      BY <1>1, <1>2, <1>3, <1>4, <2>2
    <3>2. 9 \in Kept(q)
      BY <1>10, <2>1, <2>2
    <3>3. \A k \in Kept(q) : k \in 1..Len(q) /\ k # 1 /\ k # 8
      BY <1>1, <1>4, <2>1, <2>2
    <3>4. \A k \in Kept(q) : k <= 9 => k \in 2..7 \/ k = 9
      BY <1>2, <1>3, <3>3
    <3>. QED BY <3>1, <3>2, <3>4
  <2>4. Rank(Kept(q), 9) = 7
    <3>1. 2 \in Int /\ 7 \in Int
      OBVIOUS
    <3>2. IsFiniteSet(2..7) /\ Cardinality(2..7) = IF 2 > 7 THEN 0 ELSE 7 - 2 + 1
      BY Zenon, <3>1, FS_Interval
    <3>3. Cardinality(2..7) = 6 /\ 9 \notin 2..7
      BY <3>2
    <3>4. Cardinality((2..7) \union {9}) = 6 + 1
      BY Zenon, <3>2, <3>3, FS_AddElement
    <3>5. Rank(Kept(q), 9) = Cardinality((2..7) \union {9})
      BY Zenon, <2>3 DEF Rank
    <3>6. 6 + 1 = 7
      OBVIOUS
    <3>. QED BY Zenon, <3>4, <3>5, <3>6
  <2>5. 9 \in Kept(q)
    BY <1>10, <2>1, <2>2
  <2>6. 7 \in 1..Cardinality(Kept(q)) /\ Clean(q)[8] = x[2]
    BY <1>3, <2>1, <2>4, <2>5, CleanFacts
  <2>7. Len(Clean(q)) >= 8
    <3>1. Kept(q) # {} /\ Cardinality(Kept(q)) \in Nat
      BY <1>3, <2>5, KeptFacts
    <3>2. Len(Clean(q)) = 1 + Cardinality(Kept(q))
      BY <1>3, <3>1, CleanFacts
    <3>. QED BY <2>6, <3>1, <3>2
  <2>8. \A i \in 8..Len(Clean(q)) : Clean(q)[i] \in S
    BY <1>8, ElementOfSeq
  <2>9. /\ Drop(Clean(q), 7) \in Seq(S)
        /\ Len(Drop(Clean(q), 7)) = Len(Clean(q)) - 8 + 1
        /\ Drop(Clean(q), 7)[1] = Clean(q)[8]
    <3>1. PICK n : n = Len(Clean(q))
      OBVIOUS
    <3>2. /\ SubSeq(Clean(q), 8, n) \in Seq(S)
          /\ Len(SubSeq(Clean(q), 8, n)) = IF 8 <= n THEN n - 8 + 1 ELSE 0
          /\ \A i \in 1..(n - 8 + 1) : SubSeq(Clean(q), 8, n)[i] = Clean(q)[8 + i - 1]
      BY <1>8, <2>8, <3>1, SubSeqProperties
    <3>3. n >= 8 /\ n \in Nat /\ 1 \in 1..(n - 8 + 1) /\ 8 + 1 - 1 = 8 /\ 7 + 1 = 8
      BY <1>8, <2>7, <3>1
    <3>. QED BY <3>1, <3>2, <3>3 DEF Drop
  <2>. QED BY <1>8, <2>6, <2>7, <2>9
<1>. QED BY <1>9, <1>10 DEF Join, q, u

=============================================================================
