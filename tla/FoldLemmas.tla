------------------------------ MODULE FoldLemmas ------------------------------
(***************************************************************************)
(* Folds over finite sets and lists, sums and remainders, for the proofs   *)
(* about stakes, rewards, sizes and indexes.                               *)
(* The community modules define a fold by a recursive function over the    *)
(* subsets of a set; that such a function exists, what kind of result it   *)
(* has, and all that is said here about sums, is proved by taking a        *)
(* smallest subset for which the claim fails.                              *)
(***************************************************************************)
EXTENDS Integers, FiniteSets, Lists, Functions, FiniteSetTheorems,
        WellFoundedInduction, TLAPS

-----------------------------------------------------------------------------
(* Induction over the subsets of a finite set *)

\* Among some subsets of a finite set there is one that contains no other.
LEMMA SmallestSubset ==
    ASSUME NEW S, IsFiniteSet(S), NEW T, T \subseteq SUBSET S, T # {}
    PROVE  \E x \in T : \A y \in T : y \subseteq x => y = x
<1>1. IsWellFoundedOn(StrictSubsetOrdering(S), SUBSET S)
  BY FS_FiniteSubsetsOfFinite, FS_StrictSubsetOrderingWellFounded
<1>2. PICK x \in T : \A y \in T : ~ (<<y, x>> \in StrictSubsetOrdering(S))
  BY <1>1, WFMin
<1>3. \A y \in T : y \subseteq x => y = x
  BY <1>2 DEF StrictSubsetOrdering
<1> QED BY <1>3

\* What holds of a set whenever it holds of all its strict subsets holds of
\* every subset of a finite set.  The claim is given as the set of the sets
\* of which it holds.
LEMMA SubsetInduction ==
    ASSUME NEW S, IsFiniteSet(S), NEW good,
           \A s \in SUBSET S : (\A r \in SUBSET s : r # s => r \in good) => s \in good
    PROVE  \A s \in SUBSET S : s \in good
<1> DEFINE bad == {s \in SUBSET S : s \notin good}
<1> SUFFICES ASSUME bad # {} PROVE FALSE
  OBVIOUS
<1>1. PICK s \in bad : \A y \in bad : y \subseteq s => y = s
  <2>1. bad \subseteq SUBSET S
    OBVIOUS
  <2> HIDE DEF bad
  <2> QED BY <2>1, SmallestSubset
<1>2. \A r \in SUBSET s : r # s => r \in good
  BY <1>1
<1> QED BY <1>2

\* The element that a fold over a set takes first.
First(s) == CHOOSE x \in s : TRUE

\* A step of such an induction that takes that element out.
LEMMA FirstInduction ==
    ASSUME NEW S, IsFiniteSet(S), NEW good, {} \in good,
           \A s \in SUBSET S : s # {} /\ s \ {First(s)} \in good => s \in good
    PROVE  S \in good
<1>1. \A s \in SUBSET S : (\A r \in SUBSET s : r # s => r \in good) => s \in good
  <2> SUFFICES ASSUME NEW s \in SUBSET S, \A r \in SUBSET s : r # s => r \in good, s # {}
               PROVE  s \in good
    OBVIOUS
  <2>1. First(s) \in s
    BY DEF First
  <2>2. s \ {First(s)} \in SUBSET s /\ s \ {First(s)} # s
    BY <2>1
  <2>3. s \ {First(s)} \in good
    BY <2>2
  <2> QED BY <2>3
<1> QED BY <1>1, SubsetInduction

\* Some natural numbers have a smallest among them.
LEMMA SmallestNat ==
    ASSUME NEW T, T \subseteq Nat, T # {}
    PROVE  \E x \in T : \A y \in T : x <= y
<1>1. PICK x \in T : \A y \in T : ~ (<<y, x>> \in OpToRel(<, Nat))
  BY NatLessThanWellFounded, WFMin
<1>2. \A y \in T : ~ (y < x)
  BY <1>1 DEF OpToRel
<1> QED BY <1>2

\* It is the one that is chosen as such.
LEMMA LeastIs ==
    ASSUME NEW T, T \subseteq Nat, NEW m \in T, \A j \in T : m <= j
    PROVE  (CHOOSE i \in T : \A j \in T : i <= j) = m
<1> DEFINE c == CHOOSE i \in T : \A j \in T : i <= j
<1>1. c \in T /\ \A j \in T : c <= j
  OBVIOUS
<1> HIDE DEF c
<1>2. c <= m /\ m <= c /\ c \in Nat /\ m \in Nat
  BY <1>1
<1>3. c = m
  BY <1>2
<1> QED BY <1>3 DEF c

\* What holds of zero and of the successor of every number of which it holds.
LEMMA SetOfNaturals ==
    ASSUME NEW good, 0 \in good, \A n \in Nat : n \in good => n + 1 \in good
    PROVE  Nat \subseteq good
<1> DEFINE bad == {n \in Nat : n \notin good}
<1> SUFFICES ASSUME bad # {} PROVE FALSE
  OBVIOUS
<1>1. PICK m \in bad : \A j \in bad : m <= j
  <2>1. bad \subseteq Nat
    OBVIOUS
  <2> HIDE DEF bad
  <2> QED BY <2>1, SmallestNat
<1>2. m \in Nat /\ m # 0 /\ m \notin good
  BY <1>1
<1>3. m - 1 \in Nat /\ ~(m <= m - 1) /\ (m - 1) + 1 = m
  BY <1>2
<1>4. m - 1 \in good
  BY <1>1, <1>3
<1> QED BY <1>2, <1>3, <1>4

-----------------------------------------------------------------------------
(* Folds with results of any kind *)

\* pick names an element of every set that has one.
Picks(pick, S) == \A s \in SUBSET S : s # {} => pick[s] \in s

\* g is such a fold: the step of the element that is picked, applied to the
\* result for the rest.
FoldsTo(g, base, step, pick, S) ==
    \A s \in SUBSET S :
        g[s] = IF s = {} THEN base ELSE step[pick[s]][g[s \ {pick[s]}]]

\* The empty set is good, and every set whose rest is.
GoodByRest(good, pick, S) ==
    /\ {} \in good
    /\ \A s \in SUBSET S : s # {} /\ s \ {pick[s]} \in good => s \in good

\* A fold over a finite set that takes the element pick names and applies
\* its step to the result for the rest is defined on every subset, and its
\* results are of the kind that every step keeps.
LEMMA FoldExists ==
    ASSUME NEW S, IsFiniteSet(S), NEW D, NEW base \in D, NEW step \in [S -> [D -> D]],
           NEW pick, Picks(pick, S)
    PROVE  \E g \in [SUBSET S -> D] : FoldsTo(g, base, step, pick, S)
<1> USE DEF Picks
<1> DEFINE Eq(g, s) == g[s] = IF s = {} THEN base ELSE step[pick[s]][g[s \ {pick[s]}]]
           good == {n \in Nat : \E g \in [SUBSET S -> D] :
                       \A s \in SUBSET S : Cardinality(s) <= n => Eq(g, s)}
<1>1. \A s \in SUBSET S : /\ IsFiniteSet(s) /\ Cardinality(s) \in Nat
                          /\ Cardinality(s) = 0 <=> s = {}
                          /\ Cardinality(s) <= Cardinality(S)
  BY FS_Subset, FS_CardinalityType, FS_EmptySet
<1>2. \A s \in SUBSET S : s # {} =>
        /\ pick[s] \in S /\ s \ {pick[s]} \in SUBSET S
        /\ Cardinality(s \ {pick[s]}) = Cardinality(s) - 1
  BY <1>1, FS_RemoveElement
<1>3. 0 \in good
  <2> DEFINE g == [s \in SUBSET S |-> base]
  <2>1. g \in [SUBSET S -> D]
    OBVIOUS
  <2>2. \A s \in SUBSET S : Cardinality(s) <= 0 => Eq(g, s)
    BY <1>1
  <2> QED BY <2>1, <2>2
<1>4. ASSUME NEW n \in Nat, n \in good PROVE n + 1 \in good
  <2>1. PICK g \in [SUBSET S -> D] : \A s \in SUBSET S : Cardinality(s) <= n => Eq(g, s)
    BY <1>4
  <2> DEFINE h == [s \in SUBSET S |-> IF Cardinality(s) = n + 1
                                     THEN step[pick[s]][g[s \ {pick[s]}]] ELSE g[s]]
  <2>2. h \in [SUBSET S -> D]
    <3>1. ASSUME NEW s \in SUBSET S, Cardinality(s) = n + 1
          PROVE  step[pick[s]][g[s \ {pick[s]}]] \in D
      <4>1. s # {}
        BY <1>1, <3>1
      <4>2. step[pick[s]] \in [D -> D] /\ g[s \ {pick[s]}] \in D
        BY <1>2, <4>1
      <4> QED BY <4>2
    <3> QED BY <3>1
  <2>3. ASSUME NEW s \in SUBSET S, Cardinality(s) <= n + 1 PROVE Eq(h, s)
    <3>1. CASE s = {}
      <4>1. Cardinality(s) <= n /\ Cardinality(s) # n + 1
        BY <1>1, <3>1
      <4>2. h[s] = g[s]
        BY <4>1
      <4> QED BY <2>1, <3>1, <4>1, <4>2
    <3>2. CASE s # {}
      <4> DEFINE r == s \ {pick[s]}
      <4>1. r \in SUBSET S /\ Cardinality(r) = Cardinality(s) - 1 /\ Cardinality(s) \in Nat
        BY <1>1, <1>2, <3>2
      <4>2. Cardinality(r) # n + 1
        BY <2>3, <4>1
      <4>3. h[r] = g[r]
        BY <4>1, <4>2
      <4>4. h[s] = step[pick[s]][g[r]]
        <5>1. CASE Cardinality(s) = n + 1
          BY <5>1
        <5>2. CASE Cardinality(s) # n + 1
          <6>1. Cardinality(s) <= n
            BY <2>3, <4>1, <5>2
          <6> QED BY <2>1, <3>2, <5>2, <6>1
        <5> QED BY <5>1, <5>2
      <4> QED BY <3>2, <4>3, <4>4
    <3> QED BY <3>1, <3>2
  <2> HIDE DEF h, Eq
  <2> QED BY <2>2, <2>3
<1> HIDE DEF good
<1>5. Cardinality(S) \in good
  <2>1. Nat \subseteq good
    BY <1>3, <1>4, SetOfNaturals
  <2> QED BY <1>1, <2>1
<1> QED BY <1>1, <1>5 DEF good, FoldsTo

\* Then every set is good.
LEMMA FoldInduction ==
    ASSUME NEW S, IsFiniteSet(S), NEW pick, Picks(pick, S), NEW good,
           GoodByRest(good, pick, S)
    PROVE  \A s \in SUBSET S : s \in good
<1> USE DEF Picks, GoodByRest
<1>1. \A s \in SUBSET S : (\A r \in SUBSET s : r # s => r \in good) => s \in good
  <2> SUFFICES ASSUME NEW s \in SUBSET S, \A r \in SUBSET s : r # s => r \in good, s # {}
               PROVE  s \in good
    OBVIOUS
  <2>1. s \ {pick[s]} \in SUBSET s /\ s \ {pick[s]} # s
    OBVIOUS
  <2>2. s \ {pick[s]} \in good
    BY <2>1
  <2> QED BY <2>2
<1> QED BY <1>1, SubsetInduction

-----------------------------------------------------------------------------
(* Lists *)

\* Positions of a sequence have a last one, which is the one a fold takes.
LEMMA MaxIsLast ==
    ASSUME NEW n \in Nat, NEW s \in SUBSET (1 .. n), s # {}
    PROVE  Max(s) \in s /\ \A i \in s : i <= Max(s)
  <1>. DEFINE T == {n - i : i \in s}
  <1>0. s \subseteq Nat /\ \A i \in s : i <= n
    OBVIOUS
  <1>1. T \subseteq Nat /\ T # {}
    <2>1. \A i \in s : n - i \in Nat
      BY <1>0
    <2>. QED  BY <2>1
  <1>2. PICK t \in T : \A j \in T : t <= j
    <2>. HIDE DEF T
    <2>. QED  BY <1>1, SmallestNat
  <1>3. PICK m \in s : t = n - m
    BY <1>2
  <1>4. \A i \in s : m >= i
    <2>1. \A i \in s : n - m <= n - i
      BY <1>2, <1>3
    <2>. QED  BY <1>0, <2>1
  <1>5. Max(s) \in s /\ \A i \in s : Max(s) >= i
    BY <1>4 DEF Max
  <1>. QED  BY <1>5

\* What is kept of a list: the items that are to be kept, none twice that was
\* not there twice.
OnceEach(list) == \A i, j \in DOMAIN list : list[i] = list[j] => i = j

LEMMA KeptOneMore ==
    ASSUME NEW T, NEW list \in Seq(T), NEW x \in T
    PROVE  /\ Append(list, x) \in Seq(T)
           /\ Range(Append(list, x)) = Range(list) \cup {x}
           /\ OnceEach(list) /\ x \notin Range(list) => OnceEach(Append(list, x))
  <1>. DEFINE n == Len(list)
              r == Append(list, x)
  <1>1. n \in Nat /\ DOMAIN list = 1 .. n /\ r \in Seq(T) /\ DOMAIN r = 1 .. (n + 1)
    OBVIOUS
  <1>2. (\A i \in 1 .. n : r[i] = list[i]) /\ r[n + 1] = x
    OBVIOUS
  <1>. HIDE DEF n, r
  <1>3. 1 .. (n + 1) = (1 .. n) \cup {n + 1}
    BY <1>1
  <1>4. Range(r) = Range(list) \cup {x}
    BY <1>1, <1>2, <1>3 DEF Range
  <1>5. ASSUME OnceEach(list), x \notin Range(list), NEW i \in DOMAIN r, NEW j \in DOMAIN r,
               r[i] = r[j]
        PROVE  i = j
    <2>1. \A k \in 1 .. n : r[k] # x
      BY <1>1, <1>2, <1>5 DEF Range
    <2>2. CASE i \in 1 .. n /\ j \in 1 .. n
      BY <1>1, <1>2, <1>5, <2>2 DEF OnceEach
    <2>3. CASE i = n + 1 \/ j = n + 1
      BY <1>1, <1>2, <1>3, <1>5, <2>1, <2>3
    <2>. QED  BY <1>1, <1>3, <2>2, <2>3
  <1>6. OnceEach(list) /\ x \notin Range(list) => OnceEach(r)
    BY <1>5 DEF OnceEach
  <1>. QED  BY <1>1, <1>4, <1>6 DEF r

LEMMA RetainIs ==
    ASSUME NEW T, NEW s \in Seq(T), NEW keep
    PROVE  /\ Retain(s, keep) \in Seq(T)
           /\ Range(Retain(s, keep)) = Range(s) \cap keep
           /\ OnceEach(s) => OnceEach(Retain(s, keep))
  <1>. DEFINE S == DOMAIN s
              D == Seq(T)
              Step(kept, x) == IF x \in keep THEN Append(kept, x) ELSE kept
              Eq(g) == g = [r \in SUBSET S |->
                              IF r = {} THEN <<>> ELSE Step(g[r \ {Max(r)}], s[Max(r)])]
              G == CHOOSE g : Eq(g)
              pick == [r \in SUBSET S |-> Max(r)]
              step == [x \in S |-> [kept \in D |-> Step(kept, s[x])]]
              part == [r \in SUBSET S |-> {s[i] : i \in r}]
              good == {r \in SUBSET S : /\ G[r] \in D /\ Range(G[r]) = part[r] \cap keep
                                        /\ OnceEach(s) => OnceEach(G[r])}
  <1>1. Retain(s, keep) = G[S]
    BY DEF Retain, FoldLeft, MapThenFoldSet
  <1>2. S = 1 .. Len(s) /\ Len(s) \in Nat /\ IsFiniteSet(S) /\ \A i \in S : s[i] \in T
    BY FS_Interval
  <1>3. \A r \in SUBSET S : r # {} => Max(r) \in r
    BY <1>2, MaxIsLast
  <1>4. \A x \in S, kept \in D : Step(kept, s[x]) \in D
    BY <1>2
  <1>. HIDE DEF Step
  <1>5. Picks(pick, S) /\ step \in [S -> [D -> D]] /\ <<>> \in D
    BY <1>3, <1>4 DEF Picks
  <1>6. PICK g \in [SUBSET S -> D] : FoldsTo(g, <<>>, step, pick, S)
    <2>. HIDE DEF step, pick, S, D
    <2>. QED  BY <1>2, <1>5, FoldExists
  <1>. HIDE DEF D
  <1>7. Eq(g)
    <2>1. ASSUME NEW r \in SUBSET S
          PROVE  g[r] = IF r = {} THEN <<>> ELSE Step(g[r \ {Max(r)}], s[Max(r)])
      <3>1. CASE r = {}
        BY <1>6, <3>1 DEF FoldsTo
      <3>2. CASE r # {}
        <4>1. Max(r) \in S /\ r \ {Max(r)} \in SUBSET S
          BY <1>3, <3>2
        <4>2. g[r] = step[Max(r)][g[r \ {Max(r)}]]
          BY <1>6, <3>2 DEF FoldsTo
        <4>. QED  BY <3>2, <4>1, <4>2
      <3>. QED  BY <3>1, <3>2
    <2>. QED  BY <2>1
  <1>8. Eq(G)
    BY <1>7
  <1>. HIDE DEF G
  <1>9. GoodByRest(good, pick, S)
    <2>1. {} \in good
      <3>1. G[{}] = <<>>
        BY <1>8
      <3>2. Range(<<>>) = {} /\ OnceEach(<<>>) /\ part[{}] = {}
        BY DEF Range, OnceEach
      <3>. QED  BY <1>5, <3>1, <3>2
    <2>2. ASSUME NEW r \in SUBSET S, r # {}, r \ {Max(r)} \in good PROVE r \in good
      <3>. DEFINE rest == r \ {Max(r)}
                  x == s[Max(r)]
      <3>1. Max(r) \in r /\ Max(r) \in S /\ x \in T
        BY <1>2, <1>3, <2>2
      <3>2. G[r] = Step(G[rest], x)
        BY <1>8, <2>2
      <3>3. /\ G[rest] \in Seq(T) /\ Range(G[rest]) = part[rest] \cap keep
            /\ OnceEach(s) => OnceEach(G[rest])
        BY <2>2 DEF D
      <3>4. part[r] = part[rest] \cup {x}
        BY <3>1
      <3>5. OnceEach(s) => x \notin part[rest]
        BY <3>1 DEF OnceEach
      <3>. HIDE DEF part, x, rest
      <3>6. /\ G[r] \in D /\ Range(G[r]) = part[r] \cap keep
            /\ OnceEach(s) => OnceEach(G[r])
        <4>1. CASE x \in keep
          <5>1. G[r] = Append(G[rest], x)
            BY <3>2, <4>1 DEF Step
          <5>2. /\ Append(G[rest], x) \in Seq(T)
                /\ Range(Append(G[rest], x)) = Range(G[rest]) \cup {x}
                /\ OnceEach(G[rest]) /\ x \notin Range(G[rest]) => OnceEach(Append(G[rest], x))
            BY <3>1, <3>3, KeptOneMore
          <5>. QED  BY <3>3, <3>4, <3>5, <4>1, <5>1, <5>2 DEF D
        <4>2. CASE x \notin keep
          <5>1. G[r] = G[rest]
            BY <3>2, <4>2 DEF Step
          <5>. QED  BY <3>3, <3>4, <4>2, <5>1 DEF D
        <4>. QED  BY <4>1, <4>2
      <3>. QED  BY <3>6
    <2>. QED  BY <2>1, <2>2 DEF GoodByRest
  <1>10. S \in good
    <2>. HIDE DEF good, S, pick
    <2>1. \A r \in SUBSET S : r \in good
      BY <1>2, <1>5, <1>9, FoldInduction
    <2>. QED  BY <2>1
  <1>11. part[S] = Range(s)
    BY DEF Range
  <1>. QED  BY <1>1, <1>10, <1>11 DEF D

-----------------------------------------------------------------------------
(* The recursion equation of a sum *)

\* g sums f over every subset of S.
Unfolds(g, f, S) ==
    g = [s \in SUBSET S |-> IF s = {} THEN 0 ELSE f[First(s)] + g[s \ {First(s)}]]

\* The library's definition, with its operator parameters put in.
LEMMA SumIs ==
    ASSUME NEW f, NEW S
    PROVE  SumFunctionOnSet(f, S) = (CHOOSE g : Unfolds(g, f, S))[S]
BY DEF SumFunctionOnSet, FoldFunctionOnSet, MapThenFoldSet, Unfolds, First

\* Two such functions agree where both are defined.
LEMMA UnfoldUnique ==
    ASSUME NEW f, NEW S, IsFiniteSet(S), NEW T \in SUBSET S,
           NEW g, Unfolds(g, f, S), NEW h, Unfolds(h, f, T)
    PROVE  g[T] = h[T]
<1> DEFINE good == {s \in SUBSET T : g[s] = h[s]}
<1>1. IsFiniteSet(T)
  BY FS_Subset
<1>2. {} \in good
  BY DEF Unfolds
<1>3. \A s \in SUBSET T : s # {} /\ s \ {First(s)} \in good => s \in good
  BY DEF Unfolds
<1>4. T \in good
  <2> HIDE DEF good
  <2> QED BY <1>1, <1>2, <1>3, FirstInduction
<1> QED BY <1>4

\* There is such a function.
LEMMA UnfoldExists ==
    ASSUME NEW f, NEW S, IsFiniteSet(S)
    PROVE  \E g : Unfolds(g, f, S)
<1> DEFINE good == {s \in SUBSET S : \E g : Unfolds(g, f, s)}
           it(s) == CHOOSE g : Unfolds(g, f, s)
           v(s) == it(s)[s]
<1>1. ASSUME NEW T \in SUBSET S, \A r \in SUBSET T : r # T => r \in good
      PROVE  T \in good
  <2> DEFINE G == [s \in SUBSET T |-> IF s = {} THEN 0 ELSE f[First(s)] + v(s \ {First(s)})]
  <2>1. \A s \in SUBSET T : s # T => Unfolds(it(s), f, s)
    <3> SUFFICES ASSUME NEW s \in SUBSET T, s # T PROVE \E g : Unfolds(g, f, s)
      OBVIOUS
    <3> QED BY <1>1
  <2>2. ASSUME NEW s \in SUBSET T, s # T PROVE G[s] = v(s)
    <3>1. Unfolds(it(s), f, s)
      BY <2>1, <2>2
    <3>2. CASE s = {}
      <4> HIDE DEF it
      <4>1. it(s)[s] = 0
        BY <3>1, <3>2 DEF Unfolds
      <4> QED BY <3>2, <4>1
    <3>3. CASE s # {}
      <4> DEFINE r == s \ {First(s)}
      <4>1. First(s) \in s
        BY <3>3 DEF First
      <4>2. r \in SUBSET s /\ r \in SUBSET T /\ r # T
        BY <4>1
      <4>3. Unfolds(it(r), f, r)
        BY <2>1, <4>2
      <4>4. it(s)[r] = it(r)[r]
        <5>1. IsFiniteSet(s)
          BY FS_Subset
        <5> HIDE DEF it, r
        <5> QED BY <3>1, <4>2, <4>3, <5>1, UnfoldUnique
      <4>5. it(s)[s] = f[First(s)] + it(s)[r]
        <5> HIDE DEF it
        <5> QED BY <3>1, <3>3 DEF Unfolds
      <4> QED BY <3>3, <4>4, <4>5
    <3> QED BY <3>2, <3>3
  <2>3. ASSUME NEW s \in SUBSET T, s # {}
        PROVE  v(s \ {First(s)}) = G[s \ {First(s)}]
    <3>1. First(s) \in s
      BY <2>3 DEF First
    <3>2. s \ {First(s)} \in SUBSET T /\ s \ {First(s)} # T
      BY <3>1
    <3> HIDE DEF v, G
    <3> QED BY <2>2, <3>2
  <2>4. Unfolds(G, f, T)
    <3> HIDE DEF v
    <3> QED BY <2>3 DEF Unfolds
  <2> HIDE DEF G
  <2> QED BY <2>4
<1>2. S \in good
  <2> HIDE DEF good
  <2> QED BY <1>1, SubsetInduction
<1> QED BY <1>2

\* The sum over a set is its first summand and the sum over the rest.
LEMMA SumRecursion ==
    ASSUME NEW f, NEW S, IsFiniteSet(S)
    PROVE  SumFunctionOnSet(f, S)
             = IF S = {} THEN 0 ELSE f[First(S)] + SumFunctionOnSet(f, S \ {First(S)})
<1> DEFINE it(s) == CHOOSE g : Unfolds(g, f, s)
           r == S \ {First(S)}
<1>1. Unfolds(it(S), f, S)
  BY UnfoldExists
<1>2. IsFiniteSet(r) /\ r \in SUBSET S
  BY FS_RemoveElement
<1>3. Unfolds(it(r), f, r)
  <2> HIDE DEF r
  <2> QED BY <1>2, UnfoldExists
<1>4. it(S)[r] = it(r)[r]
  <2> HIDE DEF it, r
  <2> QED BY <1>1, <1>2, <1>3, UnfoldUnique
<1>5. it(S)[S] = IF S = {} THEN 0 ELSE f[First(S)] + it(S)[r]
  <2> HIDE DEF it
  <2> QED BY <1>1 DEF Unfolds
<1>6. SumFunctionOnSet(f, S) = it(S)[S] /\ SumFunctionOnSet(f, r) = it(r)[r]
  BY SumIs
<1> QED BY <1>4, <1>5, <1>6

-----------------------------------------------------------------------------
(* What sums do *)

\* Nothing sums up to zero.
LEMMA SumEmpty ==
    ASSUME NEW f
    PROVE  SumFunctionOnSet(f, {}) = 0
BY SumRecursion, FS_EmptySet

\* A sum of integers is an integer.
LEMMA SumInt ==
    ASSUME NEW f, NEW S, IsFiniteSet(S), \A x \in S : f[x] \in Int
    PROVE  SumFunctionOnSet(f, S) \in Int
<1> DEFINE good == {s \in SUBSET S : SumFunctionOnSet(f, s) \in Int}
<1>1. {} \in good
  BY SumEmpty
<1>2. ASSUME NEW s \in SUBSET S, s # {}, s \ {First(s)} \in good PROVE s \in good
  <2>1. IsFiniteSet(s) /\ First(s) \in s
    BY <1>2, FS_Subset DEF First
  <2>2. SumFunctionOnSet(f, s) = f[First(s)] + SumFunctionOnSet(f, s \ {First(s)})
    BY <1>2, <2>1, SumRecursion
  <2> QED BY <1>2, <2>1, <2>2
<1>3. S \in good
  <2> HIDE DEF good
  <2> QED BY <1>1, <1>2, FirstInduction
<1> QED BY <1>3

\* A sum of natural numbers is one.
LEMMA SumNat ==
    ASSUME NEW f, NEW S, IsFiniteSet(S), \A x \in S : f[x] \in Nat
    PROVE  SumFunctionOnSet(f, S) \in Nat
<1> DEFINE good == {s \in SUBSET S : SumFunctionOnSet(f, s) \in Nat}
<1>1. {} \in good
  BY SumEmpty
<1>2. ASSUME NEW s \in SUBSET S, s # {}, s \ {First(s)} \in good PROVE s \in good
  <2>1. IsFiniteSet(s) /\ First(s) \in s
    BY <1>2, FS_Subset DEF First
  <2>2. SumFunctionOnSet(f, s) = f[First(s)] + SumFunctionOnSet(f, s \ {First(s)})
    BY <1>2, <2>1, SumRecursion
  <2> QED BY <1>2, <2>1, <2>2
<1>3. S \in good
  <2> HIDE DEF good
  <2> QED BY <1>1, <1>2, FirstInduction
<1> QED BY <1>3

\* Any element may be taken out first.
LEMMA SumRemove ==
    ASSUME NEW f, NEW S, IsFiniteSet(S), \A x \in S : f[x] \in Int, NEW e \in S
    PROVE  SumFunctionOnSet(f, S) = f[e] + SumFunctionOnSet(f, S \ {e})
<1> DEFINE Splits(s, d) == SumFunctionOnSet(f, s) = f[d] + SumFunctionOnSet(f, s \ {d})
           good == {s \in SUBSET S : \A d \in s : Splits(s, d)}
<1>1. ASSUME NEW s \in SUBSET S, \A r \in SUBSET s : r # s => r \in good, NEW d \in s
      PROVE  Splits(s, d)
  <2> DEFINE c == First(s)
             rest == SumFunctionOnSet(f, (s \ {c}) \ {d})
  <2>1. IsFiniteSet(s) /\ c \in s
    BY FS_Subset DEF First
  <2>2. SumFunctionOnSet(f, s) = f[c] + SumFunctionOnSet(f, s \ {c})
    BY <2>1, SumRecursion
  <2>3. CASE c = d
    BY <2>2, <2>3
  <2>4. CASE c # d
    <3>1. Splits(s \ {c}, d)
      <4>1. s \ {c} \in SUBSET s /\ s \ {c} # s /\ d \in s \ {c}
        BY <2>1, <2>4
      <4> HIDE DEF Splits, c
      <4> QED BY <1>1, <4>1
    <3>2. Splits(s \ {d}, c)
      <4>1. s \ {d} \in SUBSET s /\ s \ {d} # s /\ c \in s \ {d}
        BY <2>1, <2>4
      <4> HIDE DEF Splits, c
      <4> QED BY <1>1, <4>1
    <3>3. (s \ {c}) \ {d} = (s \ {d}) \ {c}
      OBVIOUS
    <3>4. rest \in Int /\ f[c] \in Int /\ f[d] \in Int
      <4>1. IsFiniteSet((s \ {c}) \ {d}) /\ (s \ {c}) \ {d} \subseteq S
        BY <2>1, FS_RemoveElement
      <4> QED BY <2>1, <4>1, SumInt
    <3>5. SumFunctionOnSet(f, s \ {c}) = f[d] + rest
      BY <3>1
    <3>6. SumFunctionOnSet(f, s \ {d}) = f[c] + rest
      BY <3>2, <3>3
    <3> HIDE DEF rest, c
    <3> QED BY <2>2, <3>4, <3>5, <3>6
  <2> QED BY <2>3, <2>4
<1>2. S \in good
  <2> HIDE DEF Splits
  <2>1. \A s \in SUBSET S : (\A r \in SUBSET s : r # s => r \in good) => s \in good
    BY <1>1
  <2> HIDE DEF good
  <2> QED BY <2>1, SubsetInduction
<1> QED BY <1>2

\* The sum depends only on the values summed.
LEMMA SumAgree ==
    ASSUME NEW f, NEW g, NEW S, IsFiniteSet(S), \A x \in S : f[x] = g[x]
    PROVE  SumFunctionOnSet(f, S) = SumFunctionOnSet(g, S)
<1> DEFINE good == {s \in SUBSET S : SumFunctionOnSet(f, s) = SumFunctionOnSet(g, s)}
<1>1. {} \in good
  BY SumEmpty
<1>2. ASSUME NEW s \in SUBSET S, s # {}, s \ {First(s)} \in good PROVE s \in good
  <2>1. IsFiniteSet(s) /\ First(s) \in s
    BY <1>2, FS_Subset DEF First
  <2>2. /\ SumFunctionOnSet(f, s) = f[First(s)] + SumFunctionOnSet(f, s \ {First(s)})
        /\ SumFunctionOnSet(g, s) = g[First(s)] + SumFunctionOnSet(g, s \ {First(s)})
    BY <1>2, <2>1, SumRecursion
  <2> QED BY <1>2, <2>1, <2>2
<1>3. S \in good
  <2> HIDE DEF good
  <2> QED BY <1>1, <1>2, FirstInduction
<1> QED BY <1>3

\* Larger summands, larger sum.
LEMMA SumAtMost ==
    ASSUME NEW f, NEW g, NEW S, IsFiniteSet(S),
           \A x \in S : f[x] \in Int /\ g[x] \in Int /\ f[x] <= g[x]
    PROVE  SumFunctionOnSet(f, S) <= SumFunctionOnSet(g, S)
<1> DEFINE good == {s \in SUBSET S : SumFunctionOnSet(f, s) <= SumFunctionOnSet(g, s)}
<1>1. {} \in good
  BY SumEmpty
<1>2. ASSUME NEW s \in SUBSET S, s # {}, s \ {First(s)} \in good PROVE s \in good
  <2> DEFINE r == s \ {First(s)}
  <2>1. IsFiniteSet(s) /\ First(s) \in s /\ IsFiniteSet(r) /\ r \subseteq S
    BY <1>2, FS_Subset DEF First
  <2>2. /\ SumFunctionOnSet(f, s) = f[First(s)] + SumFunctionOnSet(f, r)
        /\ SumFunctionOnSet(g, s) = g[First(s)] + SumFunctionOnSet(g, r)
    BY <1>2, <2>1, SumRecursion
  <2>3. SumFunctionOnSet(f, r) \in Int /\ SumFunctionOnSet(g, r) \in Int
    <3> HIDE DEF r
    <3> QED BY <2>1, SumInt
  <2>4. SumFunctionOnSet(f, r) <= SumFunctionOnSet(g, r)
    BY <1>2
  <2> HIDE DEF r
  <2> QED BY <2>1, <2>2, <2>3, <2>4
<1>3. S \in good
  <2> HIDE DEF good
  <2> QED BY <1>1, <1>2, FirstInduction
<1> QED BY <1>3

\* Zeros sum up to zero.
LEMMA SumZero ==
    ASSUME NEW f, NEW S, IsFiniteSet(S), \A x \in S : f[x] = 0
    PROVE  SumFunctionOnSet(f, S) = 0
<1> DEFINE good == {s \in SUBSET S : SumFunctionOnSet(f, s) = 0}
<1>1. {} \in good
  BY SumEmpty
<1>2. ASSUME NEW s \in SUBSET S, s # {}, s \ {First(s)} \in good PROVE s \in good
  <2>1. IsFiniteSet(s) /\ First(s) \in s
    BY <1>2, FS_Subset DEF First
  <2>2. SumFunctionOnSet(f, s) = f[First(s)] + SumFunctionOnSet(f, s \ {First(s)})
    BY <1>2, <2>1, SumRecursion
  <2> QED BY <1>2, <2>1, <2>2
<1>3. S \in good
  <2> HIDE DEF good
  <2> QED BY <1>1, <1>2, FirstInduction
<1> QED BY <1>3

\* When one summand changes, the sum changes by as much.
LEMMA SumChange ==
    ASSUME NEW f, NEW g, NEW S, IsFiniteSet(S), NEW e \in S,
           \A x \in S : f[x] \in Int /\ g[x] \in Int,
           \A x \in S : x # e => g[x] = f[x]
    PROVE  SumFunctionOnSet(g, S) = SumFunctionOnSet(f, S) - f[e] + g[e]
<1>1. IsFiniteSet(S \ {e})
  BY FS_RemoveElement
<1>2. SumFunctionOnSet(f, S \ {e}) = SumFunctionOnSet(g, S \ {e})
  <2>1. \A x \in S \ {e} : f[x] = g[x]
    OBVIOUS
  <2> QED BY <1>1, <2>1, SumAgree
<1>3. SumFunctionOnSet(f, S \ {e}) \in Int
  <2>1. \A x \in S \ {e} : f[x] \in Int
    OBVIOUS
  <2> QED BY <1>1, <2>1, SumInt
<1>4. SumFunctionOnSet(f, S) = f[e] + SumFunctionOnSet(f, S \ {e})
  BY SumRemove
<1>5. SumFunctionOnSet(g, S) = g[e] + SumFunctionOnSet(g, S \ {e})
  BY SumRemove
<1> QED BY <1>2, <1>3, <1>4, <1>5

\* No summand exceeds a sum of natural numbers.
LEMMA SumCovers ==
    ASSUME NEW f, NEW S, IsFiniteSet(S), \A x \in S : f[x] \in Nat, NEW e \in S
    PROVE  f[e] <= SumFunctionOnSet(f, S)
<1>1. SumFunctionOnSet(f, S \ {e}) \in Nat
  <2>1. IsFiniteSet(S \ {e}) /\ \A x \in S \ {e} : f[x] \in Nat
    BY FS_RemoveElement
  <2> QED BY <2>1, SumNat
<1>2. SumFunctionOnSet(f, S) = f[e] + SumFunctionOnSet(f, S \ {e})
  BY SumRemove
<1> QED BY <1>1, <1>2
\* A common factor comes out of a sum.
LEMMA SumScale ==
    ASSUME NEW f, NEW g, NEW S, IsFiniteSet(S), NEW c \in Int,
           \A x \in S : f[x] \in Int /\ g[x] = c * f[x]
    PROVE  SumFunctionOnSet(g, S) = c * SumFunctionOnSet(f, S)
<1> DEFINE good == {s \in SUBSET S : SumFunctionOnSet(g, s) = c * SumFunctionOnSet(f, s)}
<1>1. {} \in good
  BY SumEmpty
<1>2. ASSUME NEW s \in SUBSET S, s # {}, s \ {First(s)} \in good PROVE s \in good
  <2> DEFINE r == s \ {First(s)}
  <2>1. IsFiniteSet(s) /\ First(s) \in s /\ IsFiniteSet(r) /\ r \subseteq S
    BY <1>2, FS_Subset DEF First
  <2>2. /\ SumFunctionOnSet(f, s) = f[First(s)] + SumFunctionOnSet(f, r)
        /\ SumFunctionOnSet(g, s) = g[First(s)] + SumFunctionOnSet(g, r)
    BY <1>2, <2>1, SumRecursion
  <2>3. SumFunctionOnSet(f, r) \in Int
    <3> HIDE DEF r
    <3> QED BY <2>1, SumInt
  <2>4. SumFunctionOnSet(g, r) = c * SumFunctionOnSet(f, r)
    BY <1>2
  <2>5. f[First(s)] \in Int /\ g[First(s)] = c * f[First(s)]
    BY <2>1
  <2>6. SumFunctionOnSet(g, s) = c * SumFunctionOnSet(f, s)
    <3> HIDE DEF r
    <3> QED BY <2>2, <2>3, <2>4, <2>5
  <2> QED BY <2>6
<1>3. S \in good
  <2> HIDE DEF good
  <2> QED BY <1>1, <1>2, FirstInduction
<1> QED BY <1>3

\* Two sums over the same set add up to the sum of the sums of their summands.
LEMMA SumPlus ==
    ASSUME NEW f, NEW g, NEW h, NEW S, IsFiniteSet(S),
           \A x \in S : f[x] \in Int /\ g[x] \in Int /\ h[x] = f[x] + g[x]
    PROVE  SumFunctionOnSet(h, S) = SumFunctionOnSet(f, S) + SumFunctionOnSet(g, S)
<1> DEFINE good == {s \in SUBSET S : SumFunctionOnSet(h, s)
                                       = SumFunctionOnSet(f, s) + SumFunctionOnSet(g, s)}
<1>1. {} \in good
  BY SumEmpty
<1>2. ASSUME NEW s \in SUBSET S, s # {}, s \ {First(s)} \in good PROVE s \in good
  <2> DEFINE r == s \ {First(s)}
  <2>1. IsFiniteSet(s) /\ First(s) \in s /\ IsFiniteSet(r) /\ r \subseteq S
    BY <1>2, FS_Subset DEF First
  <2>2. /\ SumFunctionOnSet(f, s) = f[First(s)] + SumFunctionOnSet(f, r)
        /\ SumFunctionOnSet(g, s) = g[First(s)] + SumFunctionOnSet(g, r)
        /\ SumFunctionOnSet(h, s) = h[First(s)] + SumFunctionOnSet(h, r)
    BY <1>2, <2>1, SumRecursion
  <2>3. SumFunctionOnSet(f, r) \in Int /\ SumFunctionOnSet(g, r) \in Int
    <3> HIDE DEF r
    <3> QED BY <2>1, SumInt
  <2>4. SumFunctionOnSet(h, r) = SumFunctionOnSet(f, r) + SumFunctionOnSet(g, r)
    BY <1>2
  <2> HIDE DEF r
  <2> QED BY <2>1, <2>2, <2>3, <2>4
<1>3. S \in good
  <2> HIDE DEF good
  <2> QED BY <1>1, <1>2, FirstInduction
<1> QED BY <1>3

\* Zero summands may be left out.
LEMMA SumSupport ==
    ASSUME NEW f, NEW S, IsFiniteSet(S), NEW T \in SUBSET S,
           \A x \in T : f[x] \in Int, \A x \in S \ T : f[x] = 0
    PROVE  SumFunctionOnSet(f, S) = SumFunctionOnSet(f, T)
<1> DEFINE good == {s \in SUBSET S : SumFunctionOnSet(f, s) = SumFunctionOnSet(f, s \cap T)}
<1>1. {} \in good
  OBVIOUS
<1>2. ASSUME NEW s \in SUBSET S, s # {}, s \ {First(s)} \in good PROVE s \in good
  <2> DEFINE c == First(s)
             r == s \ {c}
  <2>1. IsFiniteSet(s) /\ c \in s /\ IsFiniteSet(s \cap T) /\ IsFiniteSet(r \cap T)
    BY <1>2, FS_Subset DEF First
  <2>2. SumFunctionOnSet(f, s) = f[c] + SumFunctionOnSet(f, r)
    BY <1>2, <2>1, SumRecursion
  <2>3. SumFunctionOnSet(f, r) = SumFunctionOnSet(f, r \cap T)
    BY <1>2
  <2>4. SumFunctionOnSet(f, r \cap T) \in Int
    <3> HIDE DEF r
    <3> QED BY <2>1, SumInt
  <2>5. CASE c \in T
    <3>1. c \in s \cap T /\ (s \cap T) \ {c} = r \cap T
      BY <2>1, <2>5
    <3>2. SumFunctionOnSet(f, s \cap T) = f[c] + SumFunctionOnSet(f, (s \cap T) \ {c})
      <4> HIDE DEF c
      <4> QED BY <2>1, <3>1, SumRemove
    <3> QED BY <2>2, <2>3, <3>1, <3>2
  <2>6. CASE c \notin T
    <3>1. r \cap T = s \cap T /\ f[c] = 0
      BY <2>1, <2>6
    <3>2. SumFunctionOnSet(f, s) = SumFunctionOnSet(f, s \cap T)
      <4>1. SumFunctionOnSet(f, r) = SumFunctionOnSet(f, s \cap T)
        BY <2>3, <3>1
      <4> HIDE DEF r, c
      <4> QED BY <2>2, <2>3, <2>4, <3>1, <4>1
    <3> QED BY <3>2
  <2> QED BY <2>5, <2>6
<1>3. S \in good
  <2> HIDE DEF good
  <2> QED BY <1>1, <1>2, FirstInduction
<1>4. S \cap T = T
  OBVIOUS
<1> QED BY <1>3, <1>4

\* The positions of a list, counted value by value, are all its positions.
LEMMA SumOccurrences ==
    ASSUME NEW V, IsFiniteSet(V), NEW l, IsFiniteSet(DOMAIN l),
           \A i \in DOMAIN l : l[i] \in V,
           NEW n, \A v \in V : n[v] = Cardinality({i \in DOMAIN l : l[i] = v})
    PROVE  SumFunctionOnSet(n, V) = Cardinality(DOMAIN l)
<1> DEFINE in(s) == {i \in DOMAIN l : l[i] \in s}
           good == {s \in SUBSET V : SumFunctionOnSet(n, s) = Cardinality(in(s))}
<1>1. {} \in good
  <2>1. in({}) = {}
    OBVIOUS
  <2> QED BY <2>1, SumEmpty, FS_EmptySet
<1>2. ASSUME NEW s \in SUBSET V, s # {}, s \ {First(s)} \in good PROVE s \in good
  <2> DEFINE c == First(s)
             r == s \ {c}
             at == {i \in DOMAIN l : l[i] = c}
  <2>1. IsFiniteSet(s) /\ c \in s
    BY <1>2, FS_Subset DEF First
  <2>2. SumFunctionOnSet(n, s) = n[c] + SumFunctionOnSet(n, r)
    BY <1>2, <2>1, SumRecursion
  <2>3. IsFiniteSet(in(r)) /\ IsFiniteSet(at)
    BY FS_Subset
  <2>4. in(s) = in(r) \cup at /\ in(r) \cap at = {}
    BY <2>1
  <2>5. Cardinality(in(s)) = Cardinality(in(r)) + Cardinality(at)
    <3>1. Cardinality(in(r)) \in Nat /\ Cardinality(at) \in Nat
      BY <2>3, FS_CardinalityType
    <3>2. Cardinality(in(r) \cup at)
            = Cardinality(in(r)) + Cardinality(at) - Cardinality(in(r) \cap at)
      <4> HIDE DEF in, at
      <4> QED BY <2>3, FS_Union
    <3>3. Cardinality(in(r) \cap at) = 0
      BY <2>4, FS_EmptySet
    <3>4. Cardinality(in(s)) = Cardinality(in(r) \cup at)
      BY <2>4
    <3> HIDE DEF in, at
    <3> QED BY <3>1, <3>2, <3>3, <3>4
  <2>6. n[c] = Cardinality(at)
    BY <2>1
  <2>7. SumFunctionOnSet(n, r) = Cardinality(in(r))
    BY <1>2
  <2>8. Cardinality(in(r)) \in Nat /\ Cardinality(at) \in Nat
    BY <2>3, FS_CardinalityType
  <2>9. SumFunctionOnSet(n, s) = Cardinality(in(s))
    <3> HIDE DEF in, at, r, c
    <3> QED BY <2>2, <2>5, <2>6, <2>7, <2>8
  <2> QED BY <2>9
<1>3. V \in good
  <2> HIDE DEF good
  <2> QED BY <1>1, <1>2, FirstInduction
<1>4. in(V) = DOMAIN l
  OBVIOUS
<1> QED BY <1>3, <1>4

-----------------------------------------------------------------------------
(* Words *)

\* A remainder is within the word.
LEMMA RemainderRange ==
    ASSUME NEW a \in Int, NEW w \in Nat \ {0}
    PROVE  (a % w) \in 0 .. w - 1
OBVIOUS

\* A number within the word is the remainder of every number that differs
\* from it by a multiple of the word.
LEMMA RemainderUnique ==
    ASSUME NEW q \in Int, NEW w \in Nat \ {0}, NEW r \in 0 .. w - 1
    PROVE  ((w * q) + r) % w = r
OBVIOUS

\* A quotient and the numbers that reach it.
LEMMA QuotientBounds ==
    ASSUME NEW a \in Nat, NEW u \in Nat \ {0}, NEW y \in Nat
    PROVE  /\ a \div u \in Nat
           /\ y >= a \div u => (y + 1) * u > a
           /\ y < a \div u => y * u < a
<1> DEFINE q == a \div u
<1>1. q \in Nat /\ q * u <= a /\ a < (q + 1) * u
  OBVIOUS
<1> HIDE DEF q
<1>2. ASSUME NEW x \in Nat, NEW z \in Nat, x <= z PROVE x * u <= z * u
  <2>1. z * u = x * u + (z - x) * u /\ (z - x) * u >= 0
    BY <1>2
  <2>2. x * u \in Int /\ (z - x) * u \in Int
    OBVIOUS
  <2> QED BY <2>1, <2>2
<1>3. ASSUME y >= q PROVE (y + 1) * u > a
  <2>1. (q + 1) * u <= (y + 1) * u
    BY <1>1, <1>2, <1>3
  <2>2. (q + 1) * u \in Int /\ (y + 1) * u \in Int
    BY <1>1
  <2> QED BY <1>1, <2>1, <2>2
<1>4. ASSUME y < q PROVE y * u < a
  <2>1. (y + 1) * u <= q * u
    BY <1>1, <1>2, <1>4
  <2>2. (y + 1) * u = y * u + u /\ y * u \in Int /\ q * u \in Int
    BY <1>1
  <2> QED BY <1>1, <2>1, <2>2
<1> QED BY <1>1, <1>3, <1>4 DEF q

\* Adding to a number that has wrapped wraps to the same as adding first.
LEMMA RemainderPlus ==
    ASSUME NEW a \in Int, NEW x \in Int, NEW w \in Nat \ {0}
    PROVE  ((a % w) + x) % w = (a + x) % w
<1> DEFINE q == a \div w
           s == a % w
           p == (a + x) \div w
           r == (a + x) % w
<1>1. q \in Int /\ s \in Int /\ p \in Int /\ r \in 0 .. w - 1
  OBVIOUS
<1>2. a = (w * q) + s /\ a + x = (w * p) + r
  OBVIOUS
<1> HIDE DEF q, s, p, r
<1>3. s + x = (w * (p - q)) + r
  <2>1. w * (p - q) = (w * p) - (w * q)
    BY <1>1
  <2>2. w * p \in Int /\ w * q \in Int
    BY <1>1
  <2> QED BY <1>1, <1>2, <2>1, <2>2
<1>4. (s + x) % w = r
  <2>1. p - q \in Int
    BY <1>1
  <2>2. ((w * (p - q)) + r) % w = r
    BY <1>1, <2>1, RemainderUnique
  <2> QED BY <1>3, <2>2
<1> QED BY <1>4 DEF s, r
=============================================================================
