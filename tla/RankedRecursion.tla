--------------------------- MODULE RankedRecursion ---------------------------
(***************************************************************************)
(* Definitions by recursion over a ranked set, and induction over it.  A    *)
(* value's body looks at values of lower rank only, as the recursive        *)
(* functions over JSON do, whose calls are for the children of a value.     *)
(***************************************************************************)
EXTENDS Naturals, WellFoundedInduction, TLAPS

CONSTANTS
  S,           \* the values
  Rank(_),     \* of each value
  Body(_, _)   \* a function on values of lower rank, and the value

Ranked == \A x \in S : Rank(x) \in Nat

\* The body of x depends on what the function is below x, and on nothing else.
Local ==
  \A x \in S : \A g, h :
    (\A y \in S : Rank(y) < Rank(x) => g[y] = h[y]) => Body(g, x) = Body(h, x)

\* A function as far as the values of rank below n.
Solves(g, n) == g = [x \in {y \in S : Rank(y) < n} |-> Body(g, x)]

\* Every set of natural numbers has a least element.
LEMMA LeastNatural ==
  ASSUME NEW T \in SUBSET Nat, T # {}
  PROVE  \E n \in T : \A m \in T : n <= m
<1> DEFINE R == OpToRel(<, Nat)
<1>1. IsWellFoundedOn(R, Nat)
  BY NatLessThanWellFounded
<1>2. \A m, n \in Nat : <<m, n>> \in R <=> m < n
  BY DEF OpToRel
<1> HIDE DEF R
<1>3. PICK n \in T : \A m \in T : ~(<<m, n>> \in R)
  BY <1>1, WFMin
<1>4. ASSUME NEW m \in T PROVE n <= m
  <2>1. m \in Nat /\ n \in Nat
    OBVIOUS
  <2>2. ~(m < n)
    BY <1>2, <1>3, <2>1, Zenon
  <2> QED BY <2>1, <2>2
<1> QED BY <1>4

\* Induction: a set of values that is not empty has one of least rank.
THEOREM LeastRank ==
  ASSUME Ranked, NEW T \in SUBSET S, T # {}
  PROVE  \E x \in T : \A y \in S : Rank(y) < Rank(x) => y \notin T
<1> DEFINE N == {Rank(x) : x \in T}
<1>1. N \in SUBSET Nat /\ N # {}
  BY DEF Ranked
<1>2. PICK n \in N : \A m \in N : n <= m
  <2> HIDE DEF N
  <2> QED BY <1>1, LeastNatural
<1>3. PICK x \in T : n = Rank(x)
  OBVIOUS
<1>4. ASSUME NEW y \in T PROVE ~(Rank(y) < Rank(x))
  <2>1. Rank(x) <= Rank(y) /\ Rank(x) \in Nat /\ Rank(y) \in Nat
    BY <1>2, <1>3 DEF Ranked
  <2> QED BY <2>1
<1> QED BY <1>4

\* Two solutions agree where both are defined.
LEMMA SolutionsAgree ==
  ASSUME Ranked, Local, NEW m \in Nat, NEW n \in Nat,
         NEW g, NEW h, Solves(g, m), Solves(h, n)
  PROVE  \A x \in S : Rank(x) < m /\ Rank(x) < n => g[x] = h[x]
<1> DEFINE T == {x \in S : Rank(x) < m /\ Rank(x) < n /\ g[x] # h[x]}
<1> SUFFICES ASSUME T # {} PROVE FALSE
  OBVIOUS
<1>1. T \in SUBSET S
  OBVIOUS
<1>2. PICK x \in T : \A y \in S : Rank(y) < Rank(x) => y \notin T
  <2> HIDE DEF T
  <2> QED BY <1>1, LeastRank
<1>3. ASSUME NEW y \in S, Rank(y) < Rank(x) PROVE g[y] = h[y]
  <2>1. Rank(y) \in Nat /\ Rank(x) \in Nat
    BY DEF Ranked
  <2>2. Rank(y) < m /\ Rank(y) < n
    BY <2>1, <1>3
  <2> QED BY <1>2, <1>3, <2>2
<1>4. Body(g, x) = Body(h, x)
  BY <1>3 DEF Local
<1>5. g[x] = Body(g, x) /\ h[x] = Body(h, x)
  BY DEF Solves
<1> QED BY <1>4, <1>5

\* There is a solution as far as any rank.
LEMMA SolutionsExist ==
  ASSUME Ranked, Local
  PROVE  \A n \in Nat : \E g : Solves(g, n)
<1> DEFINE T == {n \in Nat : ~\E g : Solves(g, n)}
<1> SUFFICES ASSUME T # {} PROVE FALSE
  OBVIOUS
<1>1. PICK n \in T : \A m \in T : n <= m
  <2>1. T \in SUBSET Nat
    OBVIOUS
  <2> HIDE DEF T
  <2> QED BY <2>1, LeastNatural
<1>2. CASE n = 0
  <2> DEFINE g == [x \in {} |-> Body(x, x)]
  <2>1. {y \in S : Rank(y) < 0} = {}
    BY DEF Ranked
  <2>2. [x \in {} |-> Body(g, x)] = g
    OBVIOUS
  <2>3. Solves(g, 0)
    BY <2>1, <2>2 DEF Solves
  <2> QED BY <1>2, <2>3
<1>3. CASE n # 0
  <2>1. n - 1 \in Nat /\ ~(n <= n - 1)
    BY <1>3
  <2>2. PICK g : Solves(g, n - 1)
    BY <1>1, <2>1
  <2> DEFINE h == [x \in {y \in S : Rank(y) < n} |-> Body(g, x)]
  <2>3. ASSUME NEW x \in S, Rank(x) < n PROVE Body(g, x) = Body(h, x)
    <3>1. ASSUME NEW y \in S, Rank(y) < Rank(x) PROVE g[y] = h[y]
      <4>1. Rank(y) < n /\ Rank(y) < n - 1
        BY <2>3, <3>1 DEF Ranked
      <4>2. h[y] = Body(g, y)
        BY <4>1
      <4>3. g[y] = Body(g, y)
        BY <4>1, <2>2 DEF Solves
      <4> QED BY <4>2, <4>3
    <3> HIDE DEF h
    <3> QED BY <3>1 DEF Local
  <2>4. Solves(h, n)
    BY <2>3 DEF Solves
  <2> QED BY <2>4
<1> QED BY <1>2, <1>3

\* There is a function that its body defines everywhere.
THEOREM RecursionDefines ==
  ASSUME Ranked, Local
  PROVE  \E f : f = [x \in S |-> Body(f, x)]
<1> DEFINE upTo(n) == CHOOSE g : Solves(g, n)
           f == [x \in S |-> upTo(Rank(x) + 1)[x]]
<1>1. ASSUME NEW n \in Nat PROVE Solves(upTo(n), n)
  BY SolutionsExist
<1> HIDE DEF upTo
<1>2. ASSUME NEW x \in S PROVE f[x] = Body(f, x)
  <2> DEFINE g == upTo(Rank(x) + 1)
  <2>1. Rank(x) \in Nat /\ Rank(x) + 1 \in Nat /\ Rank(x) < Rank(x) + 1
    BY DEF Ranked
  <2>2. Solves(g, Rank(x) + 1)
    BY <1>1, <2>1
  <2>3. f[x] = g[x]
    OBVIOUS
  <2>4. g[x] = Body(g, x)
    BY <2>1, <2>2 DEF Solves
  <2>5. ASSUME NEW y \in S, Rank(y) < Rank(x) PROVE f[y] = g[y]
    <3>1. Rank(y) \in Nat /\ Rank(y) + 1 \in Nat /\ Rank(y) < Rank(y) + 1 /\ Rank(y) < Rank(x) + 1
      BY <2>1, <2>5 DEF Ranked
    <3>2. Solves(upTo(Rank(y) + 1), Rank(y) + 1)
      BY <1>1, <3>1
    <3>3. f[y] = upTo(Rank(y) + 1)[y]
      OBVIOUS
    <3> HIDE DEF f, g
    <3>4. upTo(Rank(y) + 1)[y] = g[y]
      BY <2>1, <2>2, <3>1, <3>2, SolutionsAgree
    <3> QED BY <3>3, <3>4
  <2> HIDE DEF f, g
  <2>6. Body(f, x) = Body(g, x)
    BY <2>5 DEF Local
  <2> QED BY <2>3, <2>4, <2>6
<1>3. f = [x \in S |-> Body(f, x)]
  BY <1>2
<1> QED BY <1>3
=============================================================================
