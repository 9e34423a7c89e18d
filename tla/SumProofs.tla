----------------------------- MODULE SumProofs ------------------------------
(***************************************************************************)
(* Lemmas on the sums the models are built from (SumFunctionOnSet and       *)
(* SumFunction of Functions): lines, payments and portions are added up in  *)
(* an order that CHOOSE leaves open, and the proofs need that the order     *)
(* does not matter. The induction is over the subsets of a finite set, with *)
(* the good subsets given as a set.                                         *)
(***************************************************************************)
EXTENDS Integers, FiniteSets, Functions, FiniteSetTheorems, TLAPS

\* What passes from the proper subsets of each set to the set holds of all.
LEMMA SubsetInduction ==
  ASSUME NEW S, IsFiniteSet(S), NEW Good,
         \A s \in SUBSET S : (\A t \in SUBSET s : t # s => t \in Good) => s \in Good
  PROVE  SUBSET S \subseteq Good
<1> DEFINE Bad == (SUBSET S) \ Good
<1>1. SUFFICES ASSUME Bad # {} PROVE FALSE
  OBVIOUS
<1>2. PICK s \in Bad : \A t \in Bad : ~(<<t, s>> \in StrictSubsetOrdering(S))
  <2>1. Bad \subseteq FiniteSubsetsOf(S)
    BY FS_FiniteSubsetsOfFinite
  <2> HIDE DEF Bad
  <2> QED BY <1>1, <2>1, WFMin, FS_StrictSubsetOrderingWellFounded
<1>3. ASSUME NEW t \in SUBSET s, t # s PROVE t \in Good
  <2>1. <<t, s>> \in StrictSubsetOrdering(S)
    BY <1>3 DEF StrictSubsetOrdering
  <2> QED BY <1>2, <2>1
<1> QED BY <1>3

(* The function by which the sum of a set is defined, one element at a time. *)
Pick(s) == CHOOSE x \in s : TRUE
SumOfStep(f, g, s) == IF s = {} THEN 0 ELSE f[Pick(s)] + g[s \ {Pick(s)}]
Folds(f, S, g) == g = [s \in SUBSET S |-> SumOfStep(f, g, s)]
FoldOf(f, S) == CHOOSE g : Folds(f, S, g)

\* The element taken out first is one of the set.
LEMMA Picked == ASSUME NEW s, s # {} PROVE Pick(s) \in s
BY DEF Pick

\* A sum is the value of that function at the whole set.
LEMMA Unfold == ASSUME NEW f, NEW S PROVE SumFunctionOnSet(f, S) = FoldOf(f, S)[S]
BY DEF SumFunctionOnSet, FoldFunctionOnSet, MapThenFoldSet, Folds, FoldOf, SumOfStep, Pick

\* Two such functions agree wherever both are defined and the terms are equal.
LEMMA FoldsAgree ==
  ASSUME NEW f, NEW h, NEW S, NEW T, IsFiniteSet(S), S \subseteq T, NEW g, NEW k, Folds(f, S, g), Folds(h, T, k),
         \A x \in S : f[x] = h[x]
  PROVE  \A s \in SUBSET S : g[s] = k[s]
<1> DEFINE Good == {s \in SUBSET S : g[s] = k[s]}
<1>1. ASSUME NEW s \in SUBSET S, \A t \in SUBSET s : t # s => t \in Good PROVE s \in Good
  <2>1. g[s] = SumOfStep(f, g, s) /\ k[s] = SumOfStep(h, k, s)
    <3>1. g[s] = SumOfStep(f, g, s)
      BY DEF Folds
    <3>2. k[s] = SumOfStep(h, k, s)
      BY DEF Folds
    <3> QED BY <3>1, <3>2
  <2>2. CASE s = {}
    BY <2>1, <2>2 DEF SumOfStep
  <2>3. CASE s # {}
    <3>1. Pick(s) \in s /\ s \ {Pick(s)} \in SUBSET s /\ s \ {Pick(s)} # s
      BY <2>3, Picked
    <3>2. g[s \ {Pick(s)}] = k[s \ {Pick(s)}] /\ f[Pick(s)] = h[Pick(s)]
      BY <1>1, <3>1
    <3> QED BY <2>1, <2>3, <3>2 DEF SumOfStep
  <2> QED BY <2>2, <2>3
<1>2. SUBSET S \subseteq Good
  <2> HIDE DEF Good
  <2> QED BY <1>1, SubsetInduction
<1> QED BY <1>2

\* There is such a function for every finite set.
LEMMA FoldExists == ASSUME NEW f, NEW S, IsFiniteSet(S) PROVE Folds(f, S, FoldOf(f, S))
<1> DEFINE Good == {s \in SUBSET S : \E g : Folds(f, s, g)}
<1>1. ASSUME NEW s \in SUBSET S, \A t \in SUBSET s : t # s => t \in Good PROVE s \in Good
  <2> DEFINE value(t) == IF t = {} THEN 0 ELSE f[Pick(t)] + FoldOf(f, t \ {Pick(t)})[t \ {Pick(t)}]
             g == [t \in SUBSET s |-> value(t)]
  <2>0. \A t \in SUBSET s : t # s => Folds(f, t, FoldOf(f, t))
    BY <1>1 DEF FoldOf
  <2>1. ASSUME NEW t \in SUBSET s PROVE value(t) = SumOfStep(f, g, t)
    <3>1. CASE t = {}
      BY <3>1 DEF SumOfStep
    <3>2. CASE t # {}
      <4> DEFINE u == t \ {Pick(t)}
      <4>1. Pick(t) \in t /\ u \in SUBSET s /\ u # s
        BY <3>2, Picked
      <4>2. g[u] = value(u)
        BY <4>1
      <4>3. FoldOf(f, u)[u] = SumOfStep(f, FoldOf(f, u), u)
        BY <2>0, <4>1 DEF Folds
      <4>4. SumOfStep(f, FoldOf(f, u), u) = value(u)
        <5>1. CASE u = {}
          BY <5>1 DEF SumOfStep
        <5>2. CASE u # {}
          <6> DEFINE v == u \ {Pick(u)}
          <6>1. v \in SUBSET u /\ v \in SUBSET s /\ v # s
            BY <4>1
          <6>2. FoldOf(f, u)[v] = FoldOf(f, v)[v]
            <7>1. IsFiniteSet(v) /\ Folds(f, v, FoldOf(f, v)) /\ Folds(f, u, FoldOf(f, u)) /\ v \in SUBSET v
              BY <2>0, <4>1, <6>1, FS_Subset
            <7> HIDE DEF u, v
            <7> QED BY <6>1, <7>1, FoldsAgree
          <6> QED BY <5>2, <6>2 DEF SumOfStep
        <5> QED BY <5>1, <5>2
      <4> QED BY <3>2, <4>2, <4>3, <4>4 DEF SumOfStep
    <3> QED BY <3>1, <3>2
  <2>2. Folds(f, s, g)
    <3>1. [t \in SUBSET s |-> value(t)] = [t \in SUBSET s |-> SumOfStep(f, g, t)]
      <4> HIDE DEF value, g
      <4> QED BY <2>1
    <3> QED BY <3>1 DEF Folds
  <2> QED BY <2>2
<1>2. S \in Good
  <2> HIDE DEF Good
  <2> QED BY <1>1, SubsetInduction
<1> QED BY <1>2 DEF FoldOf

\* A sum by its definition.
LEMMA SumStep ==
  ASSUME NEW f, NEW S, IsFiniteSet(S), S # {}
  PROVE  SumFunctionOnSet(f, S) = f[Pick(S)] + SumFunctionOnSet(f, S \ {Pick(S)})
<1> DEFINE u == S \ {Pick(S)}
<1>1. IsFiniteSet(u) /\ u \in SUBSET S
  BY FS_RemoveElement
<1>2. Folds(f, S, FoldOf(f, S)) /\ Folds(f, u, FoldOf(f, u))
  <2> HIDE DEF u
  <2> QED BY <1>1, FoldExists
<1>3. FoldOf(f, S)[S] = f[Pick(S)] + FoldOf(f, S)[u]
  BY <1>2 DEF Folds, SumOfStep
<1>4. FoldOf(f, u)[u] = FoldOf(f, S)[u]
  <2> HIDE DEF u
  <2> QED BY <1>1, <1>2, FoldsAgree
<1> QED BY <1>3, <1>4, Unfold

LEMMA SumEmpty == ASSUME NEW f PROVE SumFunctionOnSet(f, {}) = 0
<1>1. Folds(f, {}, FoldOf(f, {}))
  BY FoldExists, FS_EmptySet
<1> QED BY <1>1, Unfold DEF Folds, SumOfStep

\* A sum depends on the terms only.
LEMMA SumAgrees ==
  ASSUME NEW f, NEW h, NEW S, IsFiniteSet(S), \A x \in S : f[x] = h[x]
  PROVE  SumFunctionOnSet(f, S) = SumFunctionOnSet(h, S)
<1>1. Folds(f, S, FoldOf(f, S)) /\ Folds(h, S, FoldOf(h, S))
  BY FoldExists
<1>2. \A s \in SUBSET S : FoldOf(f, S)[s] = FoldOf(h, S)[s]
  BY <1>1, FoldsAgree
<1>3. S \in SUBSET S
  OBVIOUS
<1> QED BY <1>2, <1>3, Unfold

\* A sum of naturals is a natural, a sum of integers an integer.
LEMMA SumNumber ==
  ASSUME NEW f, NEW S, IsFiniteSet(S), NEW N \in {Nat, Int}, \A x \in S : f[x] \in N
  PROVE  SumFunctionOnSet(f, S) \in N
<1> DEFINE Good == {s \in SUBSET S : SumFunctionOnSet(f, s) \in N}
<1>1. ASSUME NEW s \in SUBSET S, \A t \in SUBSET s : t # s => t \in Good PROVE s \in Good
  <2>1. CASE s = {}
    BY <2>1, SumEmpty
  <2>2. CASE s # {}
    <3>1. Pick(s) \in s /\ s \ {Pick(s)} \in SUBSET s /\ s \ {Pick(s)} # s
      BY <2>2, Picked
    <3>2. SumFunctionOnSet(f, s) = f[Pick(s)] + SumFunctionOnSet(f, s \ {Pick(s)})
      BY <2>2, SumStep, FS_Subset
    <3>3. f[Pick(s)] \in N /\ SumFunctionOnSet(f, s \ {Pick(s)}) \in N
      BY <1>1, <3>1
    <3> QED BY <3>2, <3>3
  <2> QED BY <2>1, <2>2
<1>2. SUBSET S \subseteq Good
  <2> HIDE DEF Good
  <2> QED BY <1>1, SubsetInduction
<1> QED BY <1>2

\* Any element can be taken out first.
LEMMA SumWithout ==
  ASSUME NEW f, NEW S, IsFiniteSet(S), \A x \in S : f[x] \in Int, NEW x \in S
  PROVE  SumFunctionOnSet(f, S) = f[x] + SumFunctionOnSet(f, S \ {x})
<1> DEFINE Sum(s) == SumFunctionOnSet(f, s)
           Good == {s \in SUBSET S : \A y \in s : Sum(s) = f[y] + Sum(s \ {y})}
<1>1. ASSUME NEW s \in SUBSET S, \A t \in SUBSET s : t # s => t \in Good PROVE s \in Good
  <2> SUFFICES ASSUME NEW y \in s PROVE Sum(s) = f[y] + Sum(s \ {y})
    OBVIOUS
  <2> DEFINE p == Pick(s)
  <2>1. p \in s /\ Sum(s) = f[p] + Sum(s \ {p})
    <3>1. IsFiniteSet(s)
      BY FS_Subset
    <3> QED BY <3>1, SumStep, Picked
  <2> HIDE DEF p
  <2>2. CASE y = p
    BY <2>1, <2>2
  <2>3. CASE y # p
    <3> DEFINE r == (s \ {p}) \ {y}
    <3>1. Sum(s \ {p}) = f[y] + Sum(r)
      <4>1. s \ {p} \in Good /\ y \in s \ {p}
        BY <1>1, <2>1, <2>3
      <4> QED BY <4>1
    <3>2. Sum(s \ {y}) = f[p] + Sum(r)
      <4>1. s \ {y} \in Good /\ p \in s \ {y}
        BY <1>1, <2>1, <2>3
      <4>2. (s \ {y}) \ {p} = r
        OBVIOUS
      <4> QED BY <4>1, <4>2
    <3>3. Sum(r) \in Int
      <4>1. IsFiniteSet(r) /\ \A z \in r : f[z] \in Int
        BY FS_Subset
      <4> HIDE DEF r
      <4> QED BY <4>1, SumNumber
    <3>4. f[y] \in Int /\ f[p] \in Int
      BY <2>1
    <3> HIDE DEF r, Sum
    <3> QED BY <2>1, <3>1, <3>2, <3>3, <3>4
  <2> QED BY <2>2, <2>3
<1>2. SUBSET S \subseteq Good
  <2> HIDE DEF Good
  <2> QED BY <1>1, SubsetInduction
<1> QED BY <1>2

\* One more element, whatever the terms are called.
LEMMA SumExtend ==
  ASSUME NEW f, NEW h, NEW S, IsFiniteSet(S), NEW x, x \notin S,
         \A y \in S : h[y] \in Int /\ h[y] = f[y], h[x] \in Int
  PROVE  SumFunctionOnSet(h, S \cup {x}) = h[x] + SumFunctionOnSet(f, S)
<1>1. SumFunctionOnSet(h, S \cup {x}) = h[x] + SumFunctionOnSet(h, (S \cup {x}) \ {x})
  <2> DEFINE T == S \cup {x}
  <2>1. IsFiniteSet(T) /\ x \in T /\ \A y \in T : h[y] \in Int
    BY FS_AddElement
  <2> HIDE DEF T
  <2>2. SumFunctionOnSet(h, T) = h[x] + SumFunctionOnSet(h, T \ {x})
    BY <2>1, SumWithout
  <2> QED BY <2>2 DEF T
<1>2. (S \cup {x}) \ {x} = S
  OBVIOUS
<1>3. SumFunctionOnSet(h, S) = SumFunctionOnSet(f, S)
  BY SumAgrees
<1> QED BY <1>1, <1>2, <1>3

\* A sum of nothing but zeros.
LEMMA SumZero ==
  ASSUME NEW f, NEW S, IsFiniteSet(S), \A x \in S : f[x] = 0
  PROVE  SumFunctionOnSet(f, S) = 0
<1> DEFINE Good == {s \in SUBSET S : SumFunctionOnSet(f, s) = 0}
<1>1. ASSUME NEW s \in SUBSET S, \A t \in SUBSET s : t # s => t \in Good PROVE s \in Good
  <2>1. CASE s = {}
    BY <2>1, SumEmpty
  <2>2. CASE s # {}
    <3>1. Pick(s) \in s /\ s \ {Pick(s)} \in SUBSET s /\ s \ {Pick(s)} # s
      BY <2>2, Picked
    <3>2. SumFunctionOnSet(f, s) = f[Pick(s)] + SumFunctionOnSet(f, s \ {Pick(s)})
      BY <2>2, SumStep, FS_Subset
    <3>3. f[Pick(s)] = 0 /\ SumFunctionOnSet(f, s \ {Pick(s)}) = 0
      BY <1>1, <3>1
    <3> QED BY <3>2, <3>3
  <2> QED BY <2>1, <2>2
<1>2. SUBSET S \subseteq Good
  <2> HIDE DEF Good
  <2> QED BY <1>1, SubsetInduction
<1> QED BY <1>2

\* Two sets with nothing in common.
LEMMA SumUnion ==
  ASSUME NEW f, NEW S, NEW T, IsFiniteSet(S), IsFiniteSet(T), S \cap T = {},
         \A x \in S \cup T : f[x] \in Int
  PROVE  SumFunctionOnSet(f, S \cup T) = SumFunctionOnSet(f, S) + SumFunctionOnSet(f, T)
<1> DEFINE Sum(s) == SumFunctionOnSet(f, s)
           Good == {s \in SUBSET S : Sum(s \cup T) = Sum(s) + Sum(T)}
<1>0. Sum(T) \in Int
  <2>1. \A x \in T : f[x] \in Int
    OBVIOUS
  <2> QED BY <2>1, SumNumber
<1>1. ASSUME NEW s \in SUBSET S, \A t \in SUBSET s : t # s => t \in Good PROVE s \in Good
  <2>1. CASE s = {}
    <3>1. s \cup T = T /\ Sum(s) = 0
      BY <2>1, SumEmpty
    <3>2. Sum(s \cup T) = Sum(T)
      BY <3>1
    <3>3. Sum(s \cup T) = Sum(s) + Sum(T)
      BY <3>1, <3>2, <1>0
    <3> QED BY <3>3
  <2>2. CASE s # {}
    <3> DEFINE p == Pick(s)
    <3>1. p \in s /\ s \ {p} \in SUBSET s /\ s \ {p} # s
      BY <2>2, Picked
    <3> HIDE DEF p
    <3>2. IsFiniteSet(s) /\ IsFiniteSet(s \cup T) /\ IsFiniteSet(s \ {p})
      BY FS_Subset, FS_Union
    <3>3. Sum(s) = f[p] + Sum(s \ {p})
      BY <3>1, <3>2, SumWithout
    <3>4. Sum(s \cup T) = f[p] + Sum((s \cup T) \ {p})
      <4> DEFINE U == s \cup T
      <4>1. p \in U /\ IsFiniteSet(U) /\ \A x \in U : f[x] \in Int
        BY <3>1, <3>2
      <4> HIDE DEF U
      <4>2. SumFunctionOnSet(f, U) = f[p] + SumFunctionOnSet(f, U \ {p})
        BY <4>1, SumWithout
      <4> QED BY <4>2 DEF U
    <3>5. (s \cup T) \ {p} = (s \ {p}) \cup T
      BY <3>1
    <3>6. Sum((s \cup T) \ {p}) = Sum(s \ {p}) + Sum(T)
      <4>1. Sum((s \ {p}) \cup T) = Sum(s \ {p}) + Sum(T)
        BY <1>1, <3>1
      <4> QED BY <4>1, <3>5
    <3>7. Sum(s \ {p}) \in Int
      <4>1. \A x \in s \ {p} : f[x] \in Int
        OBVIOUS
      <4> QED BY <3>2, <4>1, SumNumber
    <3>8. f[p] \in Int
      BY <3>1
    <3>9. Sum(s \cup T) = Sum(s) + Sum(T)
      <4> DEFINE all == Sum(s \cup T)
                 most == Sum((s \cup T) \ {p})
                 some == Sum(s)
                 rest == Sum(s \ {p})
                 others == Sum(T)
                 one == f[p]
      <4>1. /\ all = one + most /\ some = one + rest /\ most = rest + others
            /\ rest \in Int /\ others \in Int /\ one \in Int
        BY <3>3, <3>4, <3>6, <3>7, <3>8, <1>0
      <4> HIDE DEF all, most, some, rest, others, one
      <4>2. all = some + others
        BY <4>1
      <4> QED BY <4>2 DEF all, some, others
    <3> QED BY <3>9
  <2> QED BY <2>1, <2>2
<1>2. SUBSET S \subseteq Good
  <2> HIDE DEF Good
  <2> QED BY <1>1, SubsetInduction
<1> QED BY <1>2

\* One or two terms.
LEMMA SumOne == ASSUME NEW f, NEW x, f[x] \in Int PROVE SumFunctionOnSet(f, {x}) = f[x]
<1>1. SumFunctionOnSet(f, {} \cup {x}) = f[x] + SumFunctionOnSet(f, {})
  <2>1. IsFiniteSet({}) /\ x \notin {} /\ \A y \in {} : f[y] \in Int /\ f[y] = f[y]
    BY FS_EmptySet
  <2> QED BY <2>1, SumExtend
<1>2. {} \cup {x} = {x} /\ SumFunctionOnSet(f, {}) = 0
  BY SumEmpty
<1> QED BY <1>1, <1>2

LEMMA SumTwo ==
  ASSUME NEW f, NEW x, NEW y, x # y, f[x] \in Int, f[y] \in Int
  PROVE  SumFunctionOnSet(f, {x, y}) = f[x] + f[y]
<1>1. SumFunctionOnSet(f, {x} \cup {y}) = f[y] + SumFunctionOnSet(f, {x})
  <2> DEFINE S == {x}
  <2>1. IsFiniteSet(S) /\ y \notin S /\ \A z \in S : f[z] \in Int /\ f[z] = f[z]
    BY FS_Singleton
  <2> HIDE DEF S
  <2>2. SumFunctionOnSet(f, S \cup {y}) = f[y] + SumFunctionOnSet(f, S)
    BY <2>1, SumExtend
  <2> QED BY <2>2 DEF S
<1>2. {x} \cup {y} = {x, y}
  OBVIOUS
<1>3. SumFunctionOnSet(f, {x, y}) = f[y] + SumFunctionOnSet(f, {x})
  BY <1>1, <1>2, Zenon
<1>4. SumFunctionOnSet(f, {x}) = f[x]
  BY SumOne
<1> DEFINE one == SumFunctionOnSet(f, {x})
           two == SumFunctionOnSet(f, {x, y})
<1>5. two = f[y] + one /\ one = f[x]
  BY <1>3, <1>4
<1> HIDE DEF one, two
<1>6. two = f[x] + f[y]
  BY <1>5
<1> QED BY <1>6 DEF two

\* The same terms under other names.
LEMMA SumRenamed ==
  ASSUME NEW f, NEW h, NEW b, NEW S, IsFiniteSet(S), \A x \in S : f[x] \in Int /\ h[b[x]] = f[x],
         \A x, y \in S : b[x] = b[y] => x = y, IsFiniteSet({b[x] : x \in S})
  PROVE  SumFunctionOnSet(h, {b[x] : x \in S}) = SumFunctionOnSet(f, S)
<1> DEFINE Names(s) == {b[x] : x \in s}
           Good == {s \in SUBSET S : SumFunctionOnSet(h, Names(s)) = SumFunctionOnSet(f, s)}
<1>1. ASSUME NEW s \in SUBSET S, \A t \in SUBSET s : t # s => t \in Good PROVE s \in Good
  <2>1. CASE s = {}
    <3>1. Names(s) = {}
      BY <2>1
    <3> HIDE DEF Names
    <3> QED BY <2>1, <3>1, SumEmpty
  <2>2. CASE s # {}
    <3> DEFINE p == Pick(s)
               rest == s \ {p}
    <3>1. p \in s /\ rest \in SUBSET s /\ rest # s
      BY <2>2, Picked
    <3>2. IsFiniteSet(s) /\ \A x \in s : f[x] \in Int
      BY FS_Subset
    <3> HIDE DEF p
    <3>3. SumFunctionOnSet(f, s) = f[p] + SumFunctionOnSet(f, rest)
      BY <3>1, <3>2, SumWithout
    <3> DEFINE all == Names(s)
    <3>4. IsFiniteSet(all)
      <4>1. Names(s) \in SUBSET Names(S)
        OBVIOUS
      <4>2. IsFiniteSet(Names(S))
        OBVIOUS
      <4> HIDE DEF Names
      <4> QED BY <4>1, <4>2, FS_Subset DEF all
    <3>5. b[p] \in all /\ h[b[p]] = f[p] /\ all \ {b[p]} = Names(rest)
      BY <3>1
    <3>6. \A y \in all : h[y] \in Int
      BY <3>2
    <3>7. SumFunctionOnSet(h, all) = h[b[p]] + SumFunctionOnSet(h, all \ {b[p]})
      <4> HIDE DEF all
      <4> QED BY <3>4, <3>5, <3>6, SumWithout
    <3>8. SumFunctionOnSet(h, Names(rest)) = SumFunctionOnSet(f, rest)
      <4> HIDE DEF Names, rest
      <4> QED BY <1>1, <3>1
    <3>9. SumFunctionOnSet(h, all) = SumFunctionOnSet(f, s)
      <4> HIDE DEF all, rest, Names
      <4> QED BY <3>3, <3>5, <3>7, <3>8
    <3> QED BY <3>9
  <2> QED BY <2>1, <2>2
<1>2. SUBSET S \subseteq Good
  <2> HIDE DEF Good
  <2> QED BY <1>1, SubsetInduction
<1> QED BY <1>2

\* Some terms give way to others of the same sum.
LEMMA SumExchanged ==
  ASSUME NEW f, NEW h, NEW S, NEW A, NEW B, IsFiniteSet(S), A \subseteq S, IsFiniteSet(B), B \cap (S \ A) = {},
         \A x \in S : f[x] \in Int, \A x \in S \ A : h[x] = f[x], \A x \in B : h[x] \in Int,
         SumFunctionOnSet(h, B) = SumFunctionOnSet(f, A)
  PROVE  SumFunctionOnSet(h, (S \ A) \cup B) = SumFunctionOnSet(f, S)
<1> DEFINE R == S \ A
<1>1. IsFiniteSet(R) /\ IsFiniteSet(A) /\ R \cap A = {} /\ R \cap B = {} /\ R \cup A = S
  BY FS_Subset
<1>2. /\ \A x \in R \cup A : f[x] \in Int
      /\ \A x \in R \cup B : h[x] \in Int
      /\ \A x \in R : f[x] = h[x]
  OBVIOUS
<1> HIDE DEF R
<1>3. SumFunctionOnSet(f, R \cup A) = SumFunctionOnSet(f, R) + SumFunctionOnSet(f, A)
  BY <1>1, <1>2, SumUnion
<1>4. SumFunctionOnSet(h, R \cup B) = SumFunctionOnSet(h, R) + SumFunctionOnSet(h, B)
  BY <1>1, <1>2, SumUnion
<1>5. SumFunctionOnSet(f, R) = SumFunctionOnSet(h, R)
  BY <1>1, <1>2, SumAgrees
<1> QED BY <1>1, <1>3, <1>4, <1>5 DEF R

\* Of two elements the smaller has fewer below it.
LEMMA RankGrows ==
  ASSUME NEW S, S \subseteq Int, IsFiniteSet(S), NEW x \in S, NEW y \in S, x < y
  PROVE  Cardinality({z \in S : z < x}) < Cardinality({z \in S : z < y})
<1> DEFINE X == {z \in S : z < x}
           Y == {z \in S : z < y}
<1>1. X \in SUBSET Y /\ X # Y /\ Y \in SUBSET S
  <2>1. \A z \in S : z \in Int
    OBVIOUS
  <2>2. \A z \in S : z < x => z < y
    BY <2>1
  <2>3. ~(x < x)
    BY <2>1
  <2>4. x \in Y /\ x \notin X
    BY <2>3
  <2> QED BY <2>2, <2>4
<1> HIDE DEF X, Y
<1>2. IsFiniteSet(Y)
  BY <1>1, FS_Subset
<1>3. IsFiniteSet(X) /\ Cardinality(X) <= Cardinality(Y) /\ Cardinality(X) # Cardinality(Y)
  BY <1>1, <1>2, FS_Subset
<1>4. Cardinality(X) \in Nat /\ Cardinality(Y) \in Nat
  BY <1>2, <1>3, FS_CardinalityType
<1>5. Cardinality(X) < Cardinality(Y)
  BY <1>3, <1>4
<1> QED BY <1>5 DEF X, Y
=============================================================================
