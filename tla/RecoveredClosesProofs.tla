----------------------- MODULE RecoveredClosesProofs -----------------------
(***************************************************************************)
(* Proofs about RecoveredCloses, for every volume and every bound.         *)
(*                                                                         *)
(* The first part is induction over numbers and finite sets, and what it   *)
(* proves of sums and of functions defined by recursion along a history.   *)
(* The library states induction for a predicate P(_), which cannot be      *)
(* instantiated by the provers used here.  Its well-founded minimum (WFMin)*)
(* is about a set, though: a set of numbers has a least element, hence a   *)
(* set with 0 and with n + 1 for each n of it holds all of them.  A proof  *)
(* by induction names the set of numbers (or sets) the claim holds for.    *)
(***************************************************************************)
EXTENDS RecoveredCloses, Integers, FiniteSets, Functions, FiniteSetTheorems,
        WellFoundedInduction, TLAPS

-----------------------------------------------------------------------------
(* Induction *)

\* A set of numbers that is not empty has a least element.
LEMMA LeastOf ==
  ASSUME NEW S, S \subseteq Nat, S # {}
  PROVE  \E x \in S : \A y \in S : x <= y
<1> DEFINE R == {ss \in Nat \X Nat : ss[1] < ss[2]}
<1>1. \A x, y \in Nat : <<x, y>> \in R <=> x < y
  OBVIOUS
<1>2. IsWellFoundedOn(R, Nat)
  BY Zenon, NatLessThanWellFounded DEF OpToRel
<1> HIDE DEF R
<1>3. \E x \in S : \A y \in S : ~ (<<y, x>> \in R)
  BY <1>2, WFMin, Zenon
<1>4. PICK x \in S : \A y \in S : ~ (<<y, x>> \in R)
  BY <1>3
<1>5. \A y \in S : ~ (y < x)
  BY Zenon, <1>1, <1>4
<1> QED BY <1>4, <1>5

\* Induction over the numbers, for the set of those the claim holds for.
LEMMA NatInduct ==
  ASSUME NEW S, 0 \in S, \A n \in Nat : n \in S => n + 1 \in S
  PROVE  Nat \subseteq S
<1> SUFFICES ASSUME Nat \ S # {} PROVE FALSE
  OBVIOUS
<1>1. PICK x \in Nat \ S : \A y \in Nat \ S : x <= y
  BY LeastOf
<1>2. x # 0 /\ x - 1 \in Nat
  BY <1>1
<1>3. x - 1 \in S
  BY <1>1, <1>2
<1> QED BY <1>1, <1>2, <1>3

\* Induction over the subsets of a finite set, for the set of those the claim holds for.
LEMMA FiniteInduct ==
  ASSUME NEW S, IsFiniteSet(S), NEW Q, {} \in Q,
         \A s \in SUBSET S : \A x \in S \ s : s \in Q => s \cup {x} \in Q
  PROVE  S \in Q
<1> DEFINE T == {n \in Nat : \A s \in SUBSET S : Cardinality(s) = n => s \in Q}
<1>1. 0 \in T
  <2> SUFFICES ASSUME NEW s \in SUBSET S, Cardinality(s) = 0 PROVE s \in Q
    OBVIOUS
  <2>1. IsFiniteSet(s)
    BY FS_Subset
  <2>2. s = {}
    BY <2>1, FS_EmptySet
  <2> QED BY <2>2
<1>2. ASSUME NEW n \in Nat, n \in T PROVE n + 1 \in T
  <2> SUFFICES ASSUME NEW s \in SUBSET S, Cardinality(s) = n + 1 PROVE s \in Q
    OBVIOUS
  <2>1. IsFiniteSet(s)
    BY FS_Subset
  <2>2. s # {}
    BY <2>1, FS_EmptySet
  <2>3. PICK x \in s : TRUE
    BY <2>2
  <2>4. Cardinality(s \ {x}) = n
    <3>1. Cardinality(s \ {x}) = Cardinality(s) - 1
      BY Zenon, <2>1, <2>3, FS_RemoveElement
    <3> QED BY <3>1
  <2>5. s \ {x} \in Q
    BY <1>2, <2>4
  <2>6. x \in S \ (s \ {x}) /\ s = (s \ {x}) \cup {x}
    BY <2>3
  <2> QED BY <2>5, <2>6
<1> HIDE DEF T
<1>3. Nat \subseteq T
  BY <1>1, <1>2, NatInduct
<1>4. Cardinality(S) \in Nat
  BY FS_CardinalityType
<1> QED BY <1>3, <1>4 DEF T
-----------------------------------------------------------------------------
(* Sums *)

\* The element of a set that its sum takes first.
One(s) == CHOOSE x \in s : TRUE

\* The equation of the sum of w over the subsets of S, and over one of them.
Adds(it, w, S) == it = [s \in SUBSET S |-> IF s = {} THEN 0 ELSE w[One(s)] + it[s \ {One(s)}]]
Eqn(g, w, s) == g[s] = IF s = {} THEN 0 ELSE w[One(s)] + g[s \ {One(s)}]

\* The sum of the library is a function that satisfies the equation of sums.
LEMMA SumIs ==
  ASSUME NEW w, NEW S
  PROVE  SumFunctionOnSet(w, S) = (CHOOSE it : Adds(it, w, S))[S]
BY Zenon DEF SumFunctionOnSet, FoldFunctionOnSet, MapThenFoldSet, Adds, One

\* A set that is not empty has that element.
LEMMA OneOf ==
  ASSUME NEW s, s # {} PROVE One(s) \in s
BY DEF One

\* A finite set has one element more than the set without one of its elements.
LEMMA Fewer ==
  ASSUME NEW s, IsFiniteSet(s), NEW x \in s
  PROVE  /\ IsFiniteSet(s \ {x}) /\ Cardinality(s) \in Nat \ {0}
         /\ Cardinality(s \ {x}) = Cardinality(s) - 1
<1>1. IsFiniteSet(s \ {x}) /\ Cardinality(s \ {x}) = Cardinality(s) - 1
  BY Zenon, FS_RemoveElement
<1>2. Cardinality(s) \in Nat /\ Cardinality(s \ {x}) \in Nat
  BY <1>1, FS_CardinalityType
<1> QED BY <1>1, <1>2

\* A function satisfies the equation on all subsets of a finite set ...
LEMMA SumExists ==
  ASSUME NEW D, NEW w \in [D -> Nat], NEW S \in SUBSET D, IsFiniteSet(S)
  PROVE  \E it \in [SUBSET S -> Nat] : Adds(it, w, S)
<1> DEFINE T == {n \in Nat : \E g \in [SUBSET S -> Nat] :
                               \A s \in SUBSET S : Cardinality(s) <= n => Eqn(g, w, s)}
<1>c. \A s \in SUBSET S : IsFiniteSet(s) /\ Cardinality(s) \in Nat
  BY FS_Subset, FS_CardinalityType
<1>1. 0 \in T
  <2> DEFINE g == [s \in SUBSET S |-> 0]
  <2>1. ASSUME NEW s \in SUBSET S, Cardinality(s) <= 0 PROVE Eqn(g, w, s)
    <3>1. s = {}
      BY <1>c, <2>1, FS_EmptySet
    <3> QED BY <3>1 DEF Eqn
  <2> QED BY <2>1
<1>2. ASSUME NEW n \in Nat, n \in T PROVE n + 1 \in T
  <2>1. PICK g \in [SUBSET S -> Nat] : \A s \in SUBSET S : Cardinality(s) <= n => Eqn(g, w, s)
    BY <1>2
  <2> DEFINE h == [s \in SUBSET S |-> IF s = {} THEN 0 ELSE w[One(s)] + g[s \ {One(s)}]]
  <2>2. h \in [SUBSET S -> Nat]
    <3> SUFFICES ASSUME NEW s \in SUBSET S, s # {} PROVE w[One(s)] + g[s \ {One(s)}] \in Nat
      OBVIOUS
    <3>1. One(s) \in D /\ s \ {One(s)} \in SUBSET S
      BY OneOf
    <3> QED BY <3>1
  <2>3. \A s \in SUBSET S : Cardinality(s) <= n => h[s] = g[s]
    BY <2>1 DEF Eqn
  <2>4. ASSUME NEW s \in SUBSET S, Cardinality(s) <= n + 1 PROVE Eqn(h, w, s)
    <3>1. CASE s = {}
      BY <3>1 DEF Eqn
    <3>2. CASE s # {}
      <4>1. One(s) \in s
        BY <3>2, OneOf
      <4>2. s \ {One(s)} \in SUBSET S /\ Cardinality(s \ {One(s)}) <= n
        BY <1>c, <2>4, <4>1, Fewer
      <4>3. h[s \ {One(s)}] = g[s \ {One(s)}]
        BY <2>3, <4>2
      <4> QED BY <3>2, <4>3 DEF Eqn
    <3> QED BY <3>1, <3>2
  <2> HIDE DEF h
  <2> QED BY <2>2, <2>4
<1> HIDE DEF T
<1>3. Nat \subseteq T
  BY <1>1, <1>2, NatInduct
<1>4. PICK g \in [SUBSET S -> Nat] :
        \A s \in SUBSET S : Cardinality(s) <= Cardinality(S) => Eqn(g, w, s)
  BY <1>3, <1>c DEF T
<1>5. \A s \in SUBSET S : Cardinality(s) <= Cardinality(S)
  BY FS_Subset
<1>6. Adds(g, w, S)
  BY <1>4, <1>5 DEF Adds, Eqn
<1> QED BY <1>6

\* ... and two that do agree.
LEMMA SumAgree ==
  ASSUME NEW D, NEW w \in [D -> Nat], NEW S \in SUBSET D, IsFiniteSet(S), NEW U \in SUBSET S,
         NEW a, Adds(a, w, S), NEW b, Adds(b, w, U)
  PROVE  a[U] = b[U]
<1> DEFINE T == {n \in Nat : \A s \in SUBSET U : Cardinality(s) = n => a[s] = b[s]}
<1>c. \A s \in SUBSET S : IsFiniteSet(s) /\ Cardinality(s) \in Nat
  BY FS_Subset, FS_CardinalityType
<1>e. \A s \in SUBSET U : Eqn(a, w, s) /\ Eqn(b, w, s)
  BY DEF Adds, Eqn
<1>1. 0 \in T
  <2> SUFFICES ASSUME NEW s \in SUBSET U, Cardinality(s) = 0 PROVE a[s] = b[s]
    OBVIOUS
  <2>1. s = {}
    BY <1>c, FS_EmptySet
  <2> QED BY <1>e, <2>1 DEF Eqn
<1>2. ASSUME NEW n \in Nat, n \in T PROVE n + 1 \in T
  <2> SUFFICES ASSUME NEW s \in SUBSET U, Cardinality(s) = n + 1 PROVE a[s] = b[s]
    OBVIOUS
  <2>0. IsFiniteSet(s) /\ s # {}
    BY <1>c, FS_EmptySet
  <2>1. One(s) \in s
    BY <2>0, OneOf
  <2>2. Cardinality(s \ {One(s)}) = n
    BY <2>0, <2>1, Fewer
  <2>3. a[s \ {One(s)}] = b[s \ {One(s)}]
    BY <1>2, <2>2
  <2> QED BY <1>e, <2>0, <2>3 DEF Eqn
<1> HIDE DEF T
<1>3. Nat \subseteq T
  BY <1>1, <1>2, NatInduct
<1> QED BY <1>3, <1>c DEF T

\* So the sum over a finite set is a number and satisfies the equation.
LEMMA SumStep ==
  ASSUME NEW D, NEW w \in [D -> Nat], NEW S \in SUBSET D, IsFiniteSet(S)
  PROVE  /\ SumFunctionOnSet(w, S) \in Nat
         /\ SumFunctionOnSet(w, S) =
              IF S = {} THEN 0 ELSE w[One(S)] + SumFunctionOnSet(w, S \ {One(S)})
<1> DEFINE it(s) == CHOOSE g : Adds(g, w, s)
<1>1. \A s \in SUBSET S : Adds(it(s), w, s)
  <2> SUFFICES ASSUME NEW s \in SUBSET S PROVE Adds(it(s), w, s)
    OBVIOUS
  <2>1. \E g : Adds(g, w, s)
    BY SumExists, FS_Subset
  <2> QED BY <2>1
<1>2. \A s \in SUBSET S : SumFunctionOnSet(w, s) = it(s)[s]
  BY SumIs
<1>3. PICK g \in [SUBSET S -> Nat] : Adds(g, w, S)
  BY SumExists
<1> HIDE DEF it
<1>4. it(S)[S] = g[S]
  <2>1. Adds(it(S), w, S) /\ S \in SUBSET S
    BY <1>1
  <2> QED BY <1>3, <2>1, SumAgree
<1>5. ASSUME S # {}
      PROVE  it(S)[S \ {One(S)}] = it(S \ {One(S)})[S \ {One(S)}]
  BY <1>1, SumAgree
<1>6. Eqn(it(S), w, S)
  BY <1>1 DEF Adds, Eqn
<1> QED BY <1>2, <1>3, <1>4, <1>5, <1>6 DEF Eqn

\* The element a sum takes first may be any of them.
LEMMA SumRemove ==
  ASSUME NEW D, NEW w \in [D -> Nat], NEW S \in SUBSET D, IsFiniteSet(S), NEW x \in S
  PROVE  SumFunctionOnSet(w, S) = w[x] + SumFunctionOnSet(w, S \ {x})
<1> DEFINE V(s) == SumFunctionOnSet(w, s)
           T == {n \in Nat : \A s \in SUBSET S : Cardinality(s) = n
                                => \A y \in s : V(s) = w[y] + V(s \ {y})}
<1>c. \A s \in SUBSET S : IsFiniteSet(s) /\ Cardinality(s) \in Nat /\ V(s) \in Nat
  BY FS_Subset, FS_CardinalityType, SumStep
<1>s. ASSUME NEW s \in SUBSET S
      PROVE  V(s) = IF s = {} THEN 0 ELSE w[One(s)] + V(s \ {One(s)})
  <2>1. s \in SUBSET D /\ IsFiniteSet(s)
    BY <1>c
  <2> QED BY <2>1, SumStep
<1>w. \A s \in SUBSET S : \A y \in s : w[y] \in Nat
  OBVIOUS
<1> HIDE DEF V
<1>1. 0 \in T
  BY <1>c, FS_EmptySet
<1>2. ASSUME NEW n \in Nat, n \in T PROVE n + 1 \in T
  <2> SUFFICES ASSUME NEW s \in SUBSET S, Cardinality(s) = n + 1, NEW y \in s
               PROVE  V(s) = w[y] + V(s \ {y})
    OBVIOUS
  <2> DEFINE o == One(s)
  <2>1. o \in s
    BY OneOf
  <2>2. V(s) = w[o] + V(s \ {o})
    BY <1>s
  <2>3. CASE y = o
    BY <2>2, <2>3
  <2>4. CASE y # o
    <3>1. Cardinality(s \ {o}) = n /\ Cardinality(s \ {y}) = n
      <4>1. \A e \in s : Cardinality(s \ {e}) = Cardinality(s) - 1
        BY <1>c, Fewer
      <4> HIDE DEF o
      <4> QED BY <2>1, <4>1
    <3>2. V(s \ {o}) = w[y] + V((s \ {o}) \ {y})
      BY <1>2, <2>4, <3>1
    <3>3. V(s \ {y}) = w[o] + V((s \ {y}) \ {o})
      BY <1>2, <2>1, <2>4, <3>1
    <3>4. (s \ {o}) \ {y} = (s \ {y}) \ {o}
      OBVIOUS
    <3>5. V((s \ {y}) \ {o}) \in Nat
      BY <1>c
    <3> HIDE DEF o
    <3> QED BY <1>w, <2>1, <2>2, <3>2, <3>3, <3>4, <3>5
  <2> QED BY <2>3, <2>4
<1> HIDE DEF T
<1>3. Nat \subseteq T
  BY <1>1, <1>2, NatInduct
<1> QED BY <1>3, <1>c DEF T, V

\* Nothing sums to zero.
LEMMA SumEmpty ==
  ASSUME NEW w
  PROVE  SumFunctionOnSet(w, {}) = 0
<1>1. Adds([s \in SUBSET {} |-> 0], w, {})
  BY DEF Adds
<1>2. ASSUME NEW g, Adds(g, w, {}) PROVE g[{}] = 0
  BY <1>2 DEF Adds
<1>3. SumFunctionOnSet(w, {}) = (CHOOSE g : Adds(g, w, {}))[{}]
  BY SumIs
<1>4. Adds(CHOOSE g : Adds(g, w, {}), w, {})
  BY <1>1
<1> QED BY <1>2, <1>3, <1>4

\* The sum over a set and one element more.
LEMMA SumAdd ==
  ASSUME NEW D, NEW w \in [D -> Nat], NEW S \in SUBSET D, IsFiniteSet(S), NEW x \in D \ S
  PROVE  SumFunctionOnSet(w, S \cup {x}) = SumFunctionOnSet(w, S) + w[x]
<1>1. IsFiniteSet(S \cup {x})
  BY FS_AddElement
<1>2. SumFunctionOnSet(w, S \cup {x}) = w[x] + SumFunctionOnSet(w, (S \cup {x}) \ {x})
  BY <1>1, SumRemove
<1>3. (S \cup {x}) \ {x} = S
  OBVIOUS
<1>4. SumFunctionOnSet(w, S) \in Nat /\ w[x] \in Nat
  BY SumStep
<1>5. SumFunctionOnSet(w, S \cup {x}) = w[x] + SumFunctionOnSet(w, S)
  BY Zenon, <1>2, <1>3
<1> QED BY <1>4, <1>5

\* Two weights, the first at most the second on a part of the second's set.
LEMMA SumMost ==
  ASSUME NEW D, NEW w \in [D -> Nat], NEW S \in SUBSET D,
         NEW E, NEW v \in [E -> Nat], NEW U \in SUBSET E, IsFiniteSet(U),
         S \subseteq U, \A x \in S : w[x] <= v[x]
  PROVE  SumFunctionOnSet(w, S) <= SumFunctionOnSet(v, U)
<1> DEFINE Q == {s \in SUBSET U : SumFunctionOnSet(w, S \cap s) <= SumFunctionOnSet(v, s)}
<1>1. {} \in Q
  <2>1. S \cap {} = {}
    OBVIOUS
  <2> QED BY <2>1, SumEmpty
<1>2. ASSUME NEW s \in SUBSET U, NEW x \in U \ s, s \in Q PROVE s \cup {x} \in Q
  <2>f. IsFiniteSet(s) /\ IsFiniteSet(S \cap s)
    BY FS_Subset
  <2>n. /\ SumFunctionOnSet(w, S \cap s) \in Nat /\ SumFunctionOnSet(v, s) \in Nat
        /\ v[x] \in Nat /\ SumFunctionOnSet(w, S \cap s) <= SumFunctionOnSet(v, s)
    BY <1>2, <2>f, SumStep
  <2>1. SumFunctionOnSet(v, s \cup {x}) = SumFunctionOnSet(v, s) + v[x]
    BY <2>f, SumAdd
  <2>2. CASE x \in S
    <3>1. S \cap (s \cup {x}) = (S \cap s) \cup {x} /\ x \in D \ (S \cap s)
      BY <2>2
    <3>2. SumFunctionOnSet(w, S \cap (s \cup {x})) = SumFunctionOnSet(w, S \cap s) + w[x]
      BY <2>f, <3>1, SumAdd
    <3>3. w[x] \in Nat /\ w[x] <= v[x]
      BY <2>2
    <3> QED BY <2>n, <2>1, <3>2, <3>3
  <2>3. CASE x \notin S
    <3>1. S \cap (s \cup {x}) = S \cap s
      BY <2>3
    <3> QED BY <2>n, <2>1, <3>1
  <2> QED BY <2>2, <2>3
<1> HIDE DEF Q
<1>3. U \in Q
  BY <1>1, <1>2, FiniteInduct
<1>4. S \cap U = S
  OBVIOUS
<1> QED BY <1>3, <1>4 DEF Q

\* Equal weights have equal sums.
LEMMA SumSame ==
  ASSUME NEW D, NEW w \in [D -> Nat], NEW S \in SUBSET D, IsFiniteSet(S),
         NEW E, NEW v \in [E -> Nat], S \in SUBSET E, \A x \in S : w[x] = v[x]
  PROVE  SumFunctionOnSet(w, S) = SumFunctionOnSet(v, S)
<1>1. SumFunctionOnSet(w, S) \in Nat /\ SumFunctionOnSet(v, S) \in Nat
  BY SumStep
<1>n. \A x \in S : w[x] \in Nat /\ v[x] \in Nat
  OBVIOUS
<1>2. SumFunctionOnSet(w, S) <= SumFunctionOnSet(v, S)
  BY <1>n, SumMost
<1>3. SumFunctionOnSet(v, S) <= SumFunctionOnSet(w, S)
  BY <1>n, SumMost
<1> QED BY <1>1, <1>2, <1>3

\* A larger set does not sum to less.
LEMMA SumGrows ==
  ASSUME NEW D, NEW w \in [D -> Nat], NEW S, NEW U \in SUBSET D, IsFiniteSet(U), S \subseteq U
  PROVE  SumFunctionOnSet(w, S) <= SumFunctionOnSet(w, U)
<1>1. \A x \in S : w[x] <= w[x]
  <2>1. \A x \in S : w[x] \in Nat
    OBVIOUS
  <2> QED BY <2>1
<1> QED BY <1>1, SumMost

\* Two sets without a common element sum to their sums.
LEMMA SumUnion ==
  ASSUME NEW D, NEW w \in [D -> Nat], NEW S \in SUBSET D, NEW U \in SUBSET D,
         IsFiniteSet(S), IsFiniteSet(U), S \cap U = {}
  PROVE  SumFunctionOnSet(w, S \cup U) = SumFunctionOnSet(w, S) + SumFunctionOnSet(w, U)
<1> DEFINE Q == {s \in SUBSET U : SumFunctionOnSet(w, S \cup s)
                                   = SumFunctionOnSet(w, S) + SumFunctionOnSet(w, s)}
<1>0. SumFunctionOnSet(w, S) \in Nat
  BY SumStep
<1>1. {} \in Q
  <2>1. S \cup {} = S
    OBVIOUS
  <2>2. SumFunctionOnSet(w, {}) = 0
    BY SumEmpty
  <2> QED BY <1>0, <2>1, <2>2
<1>2. ASSUME NEW s \in SUBSET U, NEW x \in U \ s, s \in Q PROVE s \cup {x} \in Q
  <2>f. IsFiniteSet(s) /\ IsFiniteSet(S \cup s)
    BY FS_Subset, FS_Union
  <2>n. SumFunctionOnSet(w, s) \in Nat /\ w[x] \in Nat
    BY <2>f, SumStep
  <2>1. SumFunctionOnSet(w, s \cup {x}) = SumFunctionOnSet(w, s) + w[x]
    BY <2>f, SumAdd
  <2>2. x \in D \ (S \cup s) /\ S \cup s \in SUBSET D
    OBVIOUS
  <2>3. SumFunctionOnSet(w, (S \cup s) \cup {x}) = SumFunctionOnSet(w, S \cup s) + w[x]
    <3> DEFINE W == S \cup s
    <3>1. W \in SUBSET D /\ IsFiniteSet(W) /\ x \in D \ W
      BY <2>f, <2>2
    <3> HIDE DEF W
    <3>2. SumFunctionOnSet(w, W \cup {x}) = SumFunctionOnSet(w, W) + w[x]
      BY <3>1, SumAdd
    <3> QED BY <3>2 DEF W
  <2>4. S \cup (s \cup {x}) = (S \cup s) \cup {x}
    OBVIOUS
  <2>5. SumFunctionOnSet(w, S \cup s) = SumFunctionOnSet(w, S) + SumFunctionOnSet(w, s)
    BY <1>2
  <2>6. SumFunctionOnSet(w, S \cup (s \cup {x})) = SumFunctionOnSet(w, S \cup s) + w[x]
    BY Zenon, <2>3, <2>4
  <2>7. SumFunctionOnSet(w, S \cup (s \cup {x}))
          = SumFunctionOnSet(w, S) + SumFunctionOnSet(w, s \cup {x})
    BY <1>0, <2>n, <2>1, <2>5, <2>6
  <2> QED BY <2>7
<1> HIDE DEF Q
<1>3. U \in Q
  BY <1>1, <1>2, FiniteInduct
<1> QED BY <1>3 DEF Q

-----------------------------------------------------------------------------
(* Recursion along a history *)

\* The steps of a recursion over a history of n deals, on values of V; and the
\* function they define from its value at 1.
Steps(f, n, V) == \A d \in 1 .. n, x \in V : f[d][x] \in V
Follows(s, f, n, V, a) ==
  /\ s \in [1 .. n + 1 -> V]
  /\ s[1] = a /\ \A d \in 1 .. n : s[d + 1] = f[d][s[d]]

\* There is such a function.
LEMMA RecursionExists ==
  ASSUME NEW n \in Nat, NEW V, NEW a \in V, NEW f, Steps(f, n, V)
  PROVE  \E s : Follows(s, f, n, V, a)
<1> DEFINE Good(s, k) == s[1] = a /\ \A d \in 1 .. k : s[d + 1] = f[d][s[d]]
           T == {k \in Nat : k <= n => \E s \in [1 .. n + 1 -> V] : Good(s, k)}
<1>1. 0 \in T
  <2>1. [d \in 1 .. n + 1 |-> a] \in [1 .. n + 1 -> V]
    OBVIOUS
  <2>2. Good([d \in 1 .. n + 1 |-> a], 0)
    OBVIOUS
  <2> QED BY <2>1, <2>2
<1>2. ASSUME NEW k \in Nat, k \in T PROVE k + 1 \in T
  <2>0. ASSUME k + 1 <= n PROVE \E s \in [1 .. n + 1 -> V] : Good(s, k + 1)
    <3>1. k <= n
      BY <2>0
    <3>2. PICK s \in [1 .. n + 1 -> V] : Good(s, k)
      BY <1>2, <3>1
    <3> DEFINE v == f[k + 1][s[k + 1]]
               t == [s EXCEPT ![k + 2] = v]
    <3>3. v \in V
      <4>1. k + 1 \in 1 .. n /\ s[k + 1] \in V
        BY <2>0
      <4> QED BY <4>1 DEF Steps
    <3> HIDE DEF v
    <3>4. t \in [1 .. n + 1 -> V] /\ t[k + 2] = v /\ \A d \in 1 .. k + 1 : t[d] = s[d]
      BY <2>0, <3>3
    <3> HIDE DEF t
    <3>5. t[1] = a
      BY <3>2, <3>4
    <3>6. ASSUME NEW d \in 1 .. k + 1 PROVE t[d + 1] = f[d][t[d]]
      <4>1. CASE d = k + 1
        BY <3>4, <4>1 DEF v
      <4>2. CASE d # k + 1
        <5>1. d \in 1 .. k /\ d + 1 \in 1 .. k + 1
          BY <4>2
        <5> QED BY <3>2, <3>4, <5>1
      <4> QED BY <4>1, <4>2
    <3> QED BY <3>4, <3>5, <3>6
  <2> QED BY <2>0
<1> HIDE DEF T
<1>3. n \in T
  BY <1>1, <1>2, NatInduct
<1> QED BY <1>3 DEF T, Follows

\* Two that start alike, and whose steps agree where they do, agree throughout.
LEMMA RecursionAgrees ==
  ASSUME NEW k \in Nat, NEW s, NEW t, s[1] = t[1],
         \A d \in 1 .. k : s[d] = t[d] => s[d + 1] = t[d + 1]
  PROVE  \A d \in 1 .. k + 1 : s[d] = t[d]
<1> DEFINE T == {j \in Nat : j <= k => s[j + 1] = t[j + 1]}
<1>1. 0 \in T
  OBVIOUS
<1>2. ASSUME NEW j \in Nat, j \in T PROVE j + 1 \in T
  <2>1. j + 1 <= k => j + 1 \in 1 .. k
    OBVIOUS
  <2> QED BY <1>2, <2>1
<1> HIDE DEF T
<1>3. Nat \subseteq T
  BY <1>1, <1>2, NatInduct
<1>4. ASSUME NEW d \in 1 .. k + 1 PROVE s[d] = t[d]
  <2>1. d - 1 \in Nat /\ d - 1 <= k /\ (d - 1) + 1 = d
    OBVIOUS
  <2>2. d - 1 \in T
    BY <1>3, <2>1
  <2> QED BY <2>1, <2>2 DEF T
<1> QED BY <1>4

-----------------------------------------------------------------------------
(* The base of the invariants *)

Base == TypeOK /\ DealsSound /\ WireSound

\* A take of a close: at least low, at most high.
Take == [low : Nat, high : Nat]

-----------------------------------------------------------------------------
(* Deals and their volumes *)

\* Typing in the form the arithmetic steps need.
Numbers ==
  /\ Len(deals) \in Nat /\ Len(deals) >= 1 /\ DOMAIN deals = 1 .. Len(deals)
  /\ vol \in Nat /\ mine \in Nat /\ mine <= vol /\ rows \in Nat /\ shrink \in Nat
  /\ filled \in Nat /\ retired \in Nat /\ retired <= filled /\ Share \in Nat
  /\ Share = filled - retired /\ cover \in Nat /\ cover <= Len(deals) /\ book \in Int
  /\ \A d \in DOMAIN deals :
       /\ deals[d] \in DealRecord /\ deals[d].by \in Parties
       /\ deals[d].opened \in Nat /\ deals[d].closed \in Nat /\ deals[d].after \in Nat
       /\ deals[d].took \in Nat /\ deals[d].took <= deals[d].closed
  /\ \A d \in Closing : d \in DOMAIN deals /\ d > 1 /\ deals[d].by \in Foreign \union {"own"}

LEMMA NumbersTyped == Base => Numbers
<1> SUFFICES ASSUME Base PROVE Numbers
  OBVIOUS
<1>1. /\ Len(deals) \in Nat /\ Len(deals) >= 1 /\ DOMAIN deals = 1 .. Len(deals)
      /\ \A d \in DOMAIN deals : deals[d] \in DealRecord
  BY DEF Base, DealsSound
<1>2. /\ vol \in Nat /\ mine \in Nat /\ mine <= vol /\ rows \in Nat /\ shrink \in Nat
      /\ filled \in Nat /\ retired \in Nat /\ retired <= filled /\ Share \in Nat
      /\ Share = filled - retired /\ cover \in Nat /\ cover <= Len(deals) /\ book \in Int
  BY DEF Base, TypeOK, WireSound, Share
<1>3. \A d \in DOMAIN deals :
        /\ deals[d].by \in Parties
        /\ deals[d].opened \in Nat /\ deals[d].closed \in Nat /\ deals[d].after \in Nat
        /\ deals[d].took \in Nat
  BY <1>1 DEF DealRecord
<1>4. \A d \in DOMAIN deals : deals[d].took <= deals[d].closed
  BY DEF Base, DealsSound
<1>5. ASSUME NEW d \in Closing
      PROVE  d \in DOMAIN deals /\ d > 1 /\ deals[d].by \in Foreign \union {"own"}
  <2>1. d \in DOMAIN deals /\ deals[d].closed > 0
    BY DEF Closing
  <2>2. d # 1
    BY <2>1, <1>3 DEF Base, DealsSound
  <2>3. deals[d].by \notin {"others", "entry"}
    BY <2>1 DEF Base, DealsSound
  <2> QED BY <1>1, <1>3, <2>1, <2>2, <2>3 DEF Parties
<1> QED BY <1>1, <1>2, <1>3, <1>4, <1>5 DEF Numbers

LEMMA JournalTyped ==
  ASSUME Base
  PROVE  /\ filled \in Nat /\ retired \in Nat /\ retired <= filled /\ Share = filled - retired
         /\ vol \in Nat /\ shrink \in Nat /\ Share \in Nat /\ mine \in Nat /\ mine <= vol
BY NumbersTyped DEF Numbers

LEMMA DealTyped ==
  ASSUME Base, NEW d \in DOMAIN deals
  PROVE  /\ deals[d].opened \in Nat /\ deals[d].closed \in Nat /\ deals[d].after \in Nat
         /\ deals[d].took \in Nat
BY NumbersTyped DEF Numbers

\* The weights of the three sums over deals.
Opens == [d \in DOMAIN deals |-> deals[d].opened]
Closes == [d \in DOMAIN deals |-> deals[d].closed]
Takes == [d \in DOMAIN deals |-> deals[d].took]

Weighed ==
  /\ Opens \in [DOMAIN deals -> Nat] /\ Closes \in [DOMAIN deals -> Nat]
  /\ Takes \in [DOMAIN deals -> Nat]
  /\ \A S \in SUBSET DOMAIN deals :
       /\ IsFiniteSet(S)
       /\ OpenedBy(S) = SumFunctionOnSet(Opens, S) /\ OpenedBy(S) \in Nat
       /\ ClosedBy(S) = SumFunctionOnSet(Closes, S) /\ ClosedBy(S) \in Nat
       /\ TookBy(S) = SumFunctionOnSet(Takes, S) /\ TookBy(S) \in Nat

LEMMA DealsWeighed == Base => Weighed
<1> SUFFICES ASSUME Base PROVE Weighed
  OBVIOUS
<1>1. /\ Opens \in [DOMAIN deals -> Nat] /\ Closes \in [DOMAIN deals -> Nat]
      /\ Takes \in [DOMAIN deals -> Nat]
  BY NumbersTyped DEF Numbers, Opens, Closes, Takes
<1>2. ASSUME NEW S \in SUBSET DOMAIN deals
      PROVE  /\ IsFiniteSet(S)
             /\ SumFunctionOnSet(Opens, S) \in Nat /\ SumFunctionOnSet(Closes, S) \in Nat
             /\ SumFunctionOnSet(Takes, S) \in Nat
  <2>1. IsFiniteSet(1 .. Len(deals)) /\ S \in SUBSET (1 .. Len(deals))
    BY NumbersTyped, FS_Interval DEF Numbers
  <2>2. IsFiniteSet(S)
    BY <2>1, FS_Subset
  <2> QED BY <1>1, <2>2, SumStep
<1>3. ASSUME NEW S
      PROVE  /\ OpenedBy(S) = SumFunctionOnSet(Opens, S)
             /\ ClosedBy(S) = SumFunctionOnSet(Closes, S)
             /\ TookBy(S) = SumFunctionOnSet(Takes, S)
  BY DEF OpenedBy, ClosedBy, TookBy, Opens, Closes, Takes
<1> QED BY <1>1, <1>2, <1>3 DEF Weighed

\* More deals open, close and take no less.
LEMMA VolumesGrow ==
  ASSUME Base, NEW S, NEW U \in SUBSET DOMAIN deals, S \subseteq U
  PROVE  OpenedBy(S) <= OpenedBy(U) /\ ClosedBy(S) <= ClosedBy(U) /\ TookBy(S) <= TookBy(U)
BY DealsWeighed, SumGrows DEF Weighed

\* What one deal of a set adds to its volumes.
LEMMA VolumesSplit ==
  ASSUME Base, NEW U \in SUBSET DOMAIN deals, NEW d \in U
  PROVE  /\ OpenedBy(U) = OpenedBy(U \ {d}) + deals[d].opened
         /\ ClosedBy(U) = ClosedBy(U \ {d}) + deals[d].closed
         /\ TookBy(U) = TookBy(U \ {d}) + deals[d].took
<1> DEFINE V == U \ {d}
<1>1. V \in SUBSET DOMAIN deals /\ d \in DOMAIN deals /\ d \notin V /\ V \cup {d} = U
  OBVIOUS
<1>2. Opens[d] = deals[d].opened /\ Closes[d] = deals[d].closed /\ Takes[d] = deals[d].took
  BY <1>1 DEF Opens, Closes, Takes
<1> HIDE DEF V
<1>3. /\ IsFiniteSet(V) /\ Opens \in [DOMAIN deals -> Nat]
      /\ Closes \in [DOMAIN deals -> Nat] /\ Takes \in [DOMAIN deals -> Nat]
  BY <1>1, DealsWeighed DEF Weighed
<1>4. /\ SumFunctionOnSet(Opens, V \cup {d}) = SumFunctionOnSet(Opens, V) + Opens[d]
      /\ SumFunctionOnSet(Closes, V \cup {d}) = SumFunctionOnSet(Closes, V) + Closes[d]
      /\ SumFunctionOnSet(Takes, V \cup {d}) = SumFunctionOnSet(Takes, V) + Takes[d]
  BY <1>1, <1>3, SumAdd
<1>5. /\ SumFunctionOnSet(Opens, U) = OpenedBy(U) /\ SumFunctionOnSet(Opens, V) = OpenedBy(V)
      /\ SumFunctionOnSet(Closes, U) = ClosedBy(U) /\ SumFunctionOnSet(Closes, V) = ClosedBy(V)
      /\ SumFunctionOnSet(Takes, U) = TookBy(U) /\ SumFunctionOnSet(Takes, V) = TookBy(V)
  BY <1>1, DealsWeighed DEF Weighed
<1> QED BY <1>1, <1>2, <1>4, <1>5 DEF V

\* Two sets of deals without a common one.
LEMMA VolumesUnion ==
  ASSUME Base, NEW S \in SUBSET DOMAIN deals, NEW U \in SUBSET DOMAIN deals, S \cap U = {}
  PROVE  /\ OpenedBy(S \cup U) = OpenedBy(S) + OpenedBy(U)
         /\ ClosedBy(S \cup U) = ClosedBy(S) + ClosedBy(U)
         /\ TookBy(S \cup U) = TookBy(S) + TookBy(U)
<1>1. /\ IsFiniteSet(S) /\ IsFiniteSet(U) /\ Opens \in [DOMAIN deals -> Nat]
      /\ Closes \in [DOMAIN deals -> Nat] /\ Takes \in [DOMAIN deals -> Nat]
  BY DealsWeighed DEF Weighed
<1>2. /\ SumFunctionOnSet(Opens, S \cup U)
           = SumFunctionOnSet(Opens, S) + SumFunctionOnSet(Opens, U)
      /\ SumFunctionOnSet(Closes, S \cup U)
           = SumFunctionOnSet(Closes, S) + SumFunctionOnSet(Closes, U)
      /\ SumFunctionOnSet(Takes, S \cup U)
           = SumFunctionOnSet(Takes, S) + SumFunctionOnSet(Takes, U)
  BY <1>1, SumUnion
<1>3. \A V \in SUBSET DOMAIN deals :
        /\ OpenedBy(V) = SumFunctionOnSet(Opens, V) /\ ClosedBy(V) = SumFunctionOnSet(Closes, V)
        /\ TookBy(V) = SumFunctionOnSet(Takes, V)
  BY DealsWeighed DEF Weighed
<1>4. S \cup U \in SUBSET DOMAIN deals
  OBVIOUS
<1> QED BY <1>2, <1>3, <1>4

\* No deal opens, closes or takes anything.
LEMMA VolumesEmpty ==
  OpenedBy({}) = 0 /\ ClosedBy({}) = 0 /\ TookBy({}) = 0
BY SumEmpty DEF OpenedBy, ClosedBy, TookBy

\* Deals that took nothing add nothing.
LEMMA TookNothing ==
  ASSUME Base, NEW U \in SUBSET DOMAIN deals, NEW S \in SUBSET U,
         \A d \in U \ S : deals[d].took = 0
  PROVE  TookBy(U) = TookBy(S)
<1> DEFINE V == U \ S
           zero == [d \in DOMAIN deals |-> 0]
<1>1. V \in SUBSET DOMAIN deals /\ S \in SUBSET DOMAIN deals /\ S \cap V = {} /\ S \cup V = U
  OBVIOUS
<1>2. Takes \in [DOMAIN deals -> Nat] /\ IsFiniteSet(V) /\ IsFiniteSet({})
  BY <1>1, DealsWeighed DEF Weighed
<1>3. TookBy(V) = 0
  <2> DEFINE Q == {s \in SUBSET V : SumFunctionOnSet(Takes, s) = 0}
  <2>1. {} \in Q
    BY SumEmpty
  <2>2. ASSUME NEW s \in SUBSET V, NEW x \in V \ s, s \in Q PROVE s \cup {x} \in Q
    <3>1. IsFiniteSet(s) /\ s \in SUBSET DOMAIN deals /\ x \in DOMAIN deals \ s
      BY <1>1, <1>2, FS_Subset
    <3>2. SumFunctionOnSet(Takes, s \cup {x}) = SumFunctionOnSet(Takes, s) + Takes[x]
      BY <1>2, <3>1, SumAdd
    <3>3. Takes[x] = 0
      BY <1>1 DEF Takes
    <3> QED BY <2>2, <3>2, <3>3
  <2> HIDE DEF Q, V
  <2>3. V \in Q
    BY <1>2, <2>1, <2>2, FiniteInduct
  <2> QED BY <1>1, <2>3, DealsWeighed DEF Weighed, Q
<1>4. TookBy(S) \in Nat
  BY <1>1, DealsWeighed DEF Weighed
<1> HIDE DEF V
<1>5. TookBy(S \cup V) = TookBy(S) + TookBy(V)
  BY <1>1, VolumesUnion
<1>6. TookBy(S \cup V) = TookBy(U)
  BY Zenon, <1>1
<1> QED BY <1>3, <1>4, <1>5, <1>6

\* A close takes no more than it closes.
LEMMA TookLess ==
  ASSUME Base, NEW S \in SUBSET DOMAIN deals
  PROVE  TookBy(S) <= ClosedBy(S)
<1>1. /\ Takes \in [DOMAIN deals -> Nat] /\ Closes \in [DOMAIN deals -> Nat] /\ IsFiniteSet(S)
      /\ \A d \in S : Takes[d] <= Closes[d]
  BY DealsWeighed, NumbersTyped DEF Weighed, Numbers, Takes, Closes
<1>2. SumFunctionOnSet(Takes, S) <= SumFunctionOnSet(Closes, S)
  BY <1>1, SumMost
<1> QED BY <1>2, DealsWeighed DEF Weighed

\* Closes that took all they closed, as the run's own do.
LEMMA TookAll ==
  ASSUME Base, NEW S \in SUBSET DOMAIN deals, \A d \in S : deals[d].took = deals[d].closed
  PROVE  TookBy(S) = ClosedBy(S)
<1>1. /\ Takes \in [DOMAIN deals -> Nat] /\ Closes \in [DOMAIN deals -> Nat] /\ IsFiniteSet(S)
      /\ \A d \in S : Takes[d] = Closes[d]
  BY DealsWeighed DEF Weighed, Takes, Closes
<1>2. SumFunctionOnSet(Takes, S) = SumFunctionOnSet(Closes, S)
  BY <1>1, SumSame
<1> QED BY <1>2, DealsWeighed DEF Weighed

-----------------------------------------------------------------------------
(* The replay of the whole history *)

\* A close takes of a share at most the share, and at most what it closes.
LEMMA TakeBounded ==
  ASSUME Base, NEW d \in Closing, NEW share \in Nat
  PROVE  /\ TakeOf(d, share) \in Nat
         /\ TakeOf(d, share) <= share /\ TakeOf(d, share) <= deals[d].closed
<1>1. deals[d].closed \in Nat /\ deals[d].after \in Nat
  BY NumbersTyped DEF Numbers
<1> DEFINE c == deals[d].closed
           a == deals[d].after
<1>2. TakeOf(d, share) = IF deals[d].by = "own" THEN Least(c, share)
                         ELSE AtLeast0(Least(c, share - a))
  BY DEF TakeOf
<1> HIDE DEF c, a
<1>3. c \in Nat /\ a \in Nat
  BY <1>1 DEF c, a
<1>4. /\ TakeOf(d, share) \in Nat /\ TakeOf(d, share) <= share
      /\ TakeOf(d, share) <= c
  BY <1>2, <1>3 DEF AtLeast0, Least
<1> QED BY <1>4 DEF c

\* An entry is not a close.
LEMMA ClosesOpenNothing ==
  ASSUME Base, NEW d \in Closing
  PROVE  d \notin OwnEntries
BY NumbersTyped DEF Numbers, OwnEntries, Foreign

\* The share after a deal is a share again.
LEMMA NextShareTyped ==
  ASSUME Base, NEW d \in DOMAIN deals, NEW share \in Nat
  PROVE  NextShare(d, share) \in Nat
<1>1. CASE d \in Closing
  <2>1. TakeOf(d, share) \in Nat /\ TakeOf(d, share) <= share
    BY <1>1, TakeBounded
  <2>2. NextShare(d, share) = share - TakeOf(d, share)
    BY <1>1, Zenon, ClosesOpenNothing DEF NextShare
  <2> QED BY <2>1, <2>2
<1>2. CASE d \notin Closing
  BY <1>2, NumbersTyped DEF Numbers, NextShare
<1> QED BY <1>1, <1>2

\* The shares before the deals: nothing before the first, then one deal after another.
Replayed ==
  /\ ShareBefore \in [1 .. Len(deals) + 1 -> Nat]
  /\ ShareBefore[1] = 0
  /\ \A d \in 1 .. Len(deals) : ShareBefore[d + 1] = NextShare(d, ShareBefore[d])

LEMMA HistoryReplayed == Base => Replayed
<1> SUFFICES ASSUME Base PROVE Replayed
  OBVIOUS
<1> DEFINE n == Len(deals)
           Is(s) == s = [d \in 1 .. n + 1 |->
                                IF d = 1 THEN 0 ELSE NextShare(d - 1, s[d - 1])]
           f == [d \in 1 .. n |-> [x \in Nat |-> NextShare(d, x)]]
<1>n. n \in Nat /\ DOMAIN deals = 1 .. n
  BY NumbersTyped DEF Numbers
<1>1. ShareBefore = CHOOSE s : Is(s)
  BY Zenon DEF ShareBefore
<1>2. Steps(f, n, Nat)
  BY <1>n, NextShareTyped DEF Steps
<1>3. PICK s : Follows(s, f, n, Nat, 0)
  <2> HIDE DEF f, n
  <2>1. 0 \in Nat
    OBVIOUS
  <2> QED BY <1>n, <1>2, <2>1, RecursionExists
<1>s. s \in [1 .. n + 1 -> Nat] /\ s[1] = 0 /\ \A d \in 1 .. n : s[d + 1] = f[d][s[d]]
  BY <1>3 DEF Follows
<1>4. \A d \in 1 .. n : s[d + 1] = NextShare(d, s[d])
  <2> SUFFICES ASSUME NEW d \in 1 .. n PROVE s[d + 1] = NextShare(d, s[d])
    OBVIOUS
  <2>1. s[d] \in Nat
    BY <1>n, <1>s
  <2> QED BY <1>s, <2>1
<1> HIDE DEF f, n
<1>5. Is(s)
  <2>1. ASSUME NEW d \in 1 .. n + 1 PROVE s[d] = IF d = 1 THEN 0 ELSE NextShare(d - 1, s[d - 1])
    <3>1. d # 1 => d - 1 \in 1 .. n /\ (d - 1) + 1 = d
      BY <1>n
    <3> QED BY <1>s, <1>4, <3>1
  <2> QED BY <1>s, <2>1
<1>6. Is(ShareBefore)
  BY <1>1, <1>5 DEF n
<1> DEFINE t == ShareBefore
<1> HIDE DEF t
<1>7. t = [d \in 1 .. n + 1 |-> IF d = 1 THEN 0 ELSE NextShare(d - 1, t[d - 1])]
  BY <1>6 DEF t
<1>8. t[1] = 0
  BY <1>n, <1>7
<1>9. ASSUME NEW d \in 1 .. n PROVE t[d + 1] = NextShare(d, t[d])
  <2>1. d + 1 \in 1 .. n + 1 /\ d + 1 # 1 /\ (d + 1) - 1 = d
    BY <1>n
  <2> QED BY <1>7, <2>1
<1>10. \A d \in 1 .. n + 1 : t[d] = s[d]
  <2>1. \A d \in 1 .. n : t[d] = s[d] => t[d + 1] = s[d + 1]
    BY <1>4, <1>9
  <2>2. n \in Nat /\ t[1] = s[1]
    BY <1>n, <1>s, <1>8
  <2> HIDE DEF Is
  <2> QED BY <2>1, <2>2, RecursionAgrees
<1>11. t \in [1 .. n + 1 -> Nat]
  BY <1>s, <1>7, <1>10
<1> QED BY <1>8, <1>9, <1>11 DEF Replayed, t, n

\* The facts of a state, after a step.
LEMMA NextFacts ==
  Base' => Numbers' /\ Weighed' /\ Replayed'
BY NumbersTyped, DealsWeighed, HistoryReplayed, PTL

-----------------------------------------------------------------------------
(* A further deal *)

\* The deal is appended to the history, and no process has judged it.
Appends(deal) == deals' = Append(deals, deal) /\ judged' = Append(judged, "no")

LEMMA Appended ==
  ASSUME Base, NEW deal, Appends(deal)
  PROVE  /\ Len(deals') = Len(deals) + 1 /\ DOMAIN deals' = 1 .. Len(deals) + 1
         /\ Len(deals) + 1 \notin DOMAIN deals /\ deals'[Len(deals) + 1] = deal
         /\ \A d \in DOMAIN deals : d \in DOMAIN deals' /\ deals'[d] = deals[d]
         /\ DOMAIN judged = DOMAIN deals /\ DOMAIN judged' = DOMAIN deals'
         /\ Len(judged') = Len(deals')
         /\ judged'[Len(deals) + 1] = "no" /\ \A d \in DOMAIN deals : judged'[d] = judged[d]
<1>1. deals \in Seq(DealRecord) /\ judged \in Seq(Origins) /\ Len(judged) = Len(deals)
  BY DEF Base, TypeOK, DealsSound
<1>2. deals' = Append(deals, deal) /\ judged' = Append(judged, "no")
  BY DEF Appends
<1> QED BY <1>1, <1>2

\* The sets of deals gain the new one where it belongs.
LEMMA AppendedSets ==
  ASSUME Base, NEW deal \in DealRecord, Appends(deal)
  PROVE  /\ Closing' = Closing \union (IF deal.closed > 0 THEN {Len(deals) + 1} ELSE {})
         /\ OwnEntries' = OwnEntries \union (IF deal.by = "entry" THEN {Len(deals) + 1} ELSE {})
         /\ Pending(1)' = Pending(1) \union (IF deal.closed > 0 THEN {Len(deals) + 1} ELSE {})
         /\ Closing \subseteq DOMAIN deals /\ OwnEntries \subseteq DOMAIN deals
         /\ Pending(1) \subseteq Closing
<1> DEFINE n == Len(deals)
<1>1. /\ DOMAIN deals' = DOMAIN deals \cup {n + 1} /\ deals'[n + 1] = deal /\ n + 1 >= 1
      /\ \A d \in DOMAIN deals : deals'[d] = deals[d] /\ judged'[d] = judged[d]
      /\ judged'[n + 1] = "no"
  <2>1. /\ Len(deals) \in Nat /\ DOMAIN deals = 1 .. Len(deals)
        /\ DOMAIN deals' = 1 .. Len(deals) + 1
    BY Appended, NumbersTyped DEF Numbers
  <2>2. DOMAIN deals' = DOMAIN deals \cup {n + 1} /\ n + 1 >= 1
    BY <2>1
  <2> QED BY <2>2, Appended
<1> HIDE DEF n
<1>2. Closing' = Closing \union (IF deal.closed > 0 THEN {n + 1} ELSE {})
  BY <1>1 DEF Closing
<1>3. OwnEntries' = OwnEntries \union (IF deal.by = "entry" THEN {n + 1} ELSE {})
  BY <1>1 DEF OwnEntries
<1>4. /\ Closing \subseteq DOMAIN deals /\ OwnEntries \subseteq DOMAIN deals
      /\ Pending(1) \subseteq Closing
  BY DEF Closing, OwnEntries, Pending
<1>5. Pending(1)' = Pending(1) \union (IF deal.closed > 0 THEN {n + 1} ELSE {})
  <2>1. Pending(1)' = {d \in Closing' : d >= 1 /\ judged'[d] = "no"}
    BY DEF Pending
  <2>2. Pending(1) = {d \in Closing : d >= 1 /\ judged[d] = "no"}
    BY DEF Pending
  <2>3. \A d \in Closing : judged'[d] = judged[d]
    BY <1>1, <1>4
  <2> QED BY <1>1, <1>2, <2>1, <2>2, <2>3
<1> QED BY <1>2, <1>3, <1>4, <1>5 DEF n

\* The volumes of the deals before it stay what they were.
LEMMA AppendedVolumes ==
  ASSUME Base, Base', NEW deal \in DealRecord, Appends(deal), NEW S \in SUBSET DOMAIN deals
  PROVE  OpenedBy(S)' = OpenedBy(S) /\ ClosedBy(S)' = ClosedBy(S) /\ TookBy(S)' = TookBy(S)
<1>1. /\ DOMAIN deals \subseteq DOMAIN deals' /\ \A d \in DOMAIN deals : deals'[d] = deals[d]
  BY Appended
<1>2. Weighed /\ Weighed'
  BY DealsWeighed, NextFacts
<1>3. /\ Opens' \in [DOMAIN deals' -> Nat] /\ Closes' \in [DOMAIN deals' -> Nat]
      /\ Takes' \in [DOMAIN deals' -> Nat] /\ IsFiniteSet(S)
      /\ Opens \in [DOMAIN deals -> Nat] /\ Closes \in [DOMAIN deals -> Nat]
      /\ Takes \in [DOMAIN deals -> Nat]
  BY <1>2 DEF Weighed
<1>4. \A d \in S : Opens[d] = Opens'[d] /\ Closes[d] = Closes'[d] /\ Takes[d] = Takes'[d]
  BY <1>1 DEF Opens, Closes, Takes
<1>5. S \in SUBSET DOMAIN deals'
  BY <1>1
<1>6. /\ SumFunctionOnSet(Opens, S) = SumFunctionOnSet(Opens', S)
      /\ SumFunctionOnSet(Closes, S) = SumFunctionOnSet(Closes', S)
      /\ SumFunctionOnSet(Takes, S) = SumFunctionOnSet(Takes', S)
  BY <1>3, <1>4, <1>5, SumSame
<1>7. /\ OpenedBy(S) = SumFunctionOnSet(Opens, S) /\ ClosedBy(S) = SumFunctionOnSet(Closes, S)
      /\ TookBy(S) = SumFunctionOnSet(Takes, S)
      /\ OpenedBy(S)' = SumFunctionOnSet(Opens', S) /\ ClosedBy(S)' = SumFunctionOnSet(Closes', S)
      /\ TookBy(S)' = SumFunctionOnSet(Takes', S)
  BY DEF OpenedBy, ClosedBy, TookBy, Opens, Closes, Takes
<1> QED BY <1>6, <1>7

\* The share before each of them stays what it was, and after the last one comes
\* the share before the new one.
LEMMA AppendedReplay ==
  ASSUME Base, Base', NEW deal \in DealRecord, Appends(deal)
  PROVE  /\ \A d \in 1 .. Len(deals) + 1 : ShareBefore'[d] = ShareBefore[d]
         /\ \A d \in DOMAIN deals, x \in Nat : TakeOf(d, x)' = TakeOf(d, x)
         /\ \A d, x : d = Len(deals) + 1 /\ x = ShareBefore[Len(deals) + 1]
                        => x \in Nat /\ ShareBefore'[Len(deals') + 1] = NextShare(d, x)'
<1> DEFINE n == Len(deals)
<1>1. /\ DOMAIN deals' = 1 .. n + 1 /\ Len(deals') = n + 1 /\ n \in Nat
      /\ DOMAIN deals = 1 .. n /\ \A d \in DOMAIN deals : deals'[d] = deals[d]
  BY Appended, NumbersTyped DEF Numbers
<1>2. Replayed /\ Replayed'
  BY HistoryReplayed, NextFacts
<1>3. \A d \in DOMAIN deals, x \in Nat : TakeOf(d, x)' = TakeOf(d, x)
  BY <1>1 DEF TakeOf
<1>4. ASSUME NEW d \in 1 .. n, NEW x \in Nat PROVE NextShare(d, x)' = NextShare(d, x)
  <2>1. d \in DOMAIN deals /\ deals'[d] = deals[d] /\ d # n + 1
    BY <1>1
  <2>2. (d \in Closing' <=> d \in Closing) /\ (d \in OwnEntries' <=> d \in OwnEntries)
    BY <2>1, AppendedSets
  <2>3. TakeOf(d, x)' = TakeOf(d, x)
    BY <1>3, <2>1
  <2>4. CASE d \in Closing
    BY <2>2, <2>3, <2>4, ClosesOpenNothing DEF NextShare
  <2>5. CASE d \notin Closing
    BY <2>1, <2>2, <2>5 DEF NextShare
  <2> QED BY <2>4, <2>5
<1>5. \A d \in 1 .. n + 1 : ShareBefore'[d] = ShareBefore[d]
  <2>1. ShareBefore'[1] = ShareBefore[1]
    BY <1>2 DEF Replayed
  <2>2. ASSUME NEW d \in 1 .. n, ShareBefore'[d] = ShareBefore[d]
        PROVE  ShareBefore'[d + 1] = ShareBefore[d + 1]
    <3>1. ShareBefore[d] \in Nat /\ ShareBefore[d + 1] = NextShare(d, ShareBefore[d])
      BY <1>1, <1>2 DEF Replayed
    <3>2. ASSUME NEW x, x = ShareBefore[d] PROVE ShareBefore'[d + 1] = NextShare(d, x)'
      <4>1. d \in 1 .. Len(deals') /\ x = ShareBefore'[d]
        BY <1>1, <2>2, <3>2
      <4>2. ShareBefore'[d + 1] = NextShare(d, ShareBefore[d])'
        BY <1>2, <4>1 DEF Replayed
      <4> QED BY <4>1, <4>2
    <3>3. ASSUME NEW x, x = ShareBefore[d] PROVE ShareBefore'[d + 1] = ShareBefore[d + 1]
      BY <1>4, <3>1, <3>2, <3>3
    <3> QED BY <3>3
  <2> DEFINE s == ShareBefore'
             t == ShareBefore
  <2> HIDE DEF s, t, n
  <2>3. s[1] = t[1] /\ \A d \in 1 .. n : s[d] = t[d] => s[d + 1] = t[d + 1]
    BY <2>1, <2>2 DEF s, t, n
  <2>4. n \in Nat
    BY <1>1 DEF n
  <2>5. \A d \in 1 .. n + 1 : s[d] = t[d]
    BY <2>3, <2>4, RecursionAgrees
  <2> QED BY <2>5 DEF s, t, n
<1>6. ASSUME NEW d, NEW x, d = n + 1, x = ShareBefore[n + 1]
      PROVE  x \in Nat /\ ShareBefore'[Len(deals') + 1] = NextShare(d, x)'
  <2>1. d \in 1 .. Len(deals') /\ d \in 1 .. n + 1 /\ d + 1 = Len(deals') + 1
    BY <1>1, <1>6
  <2>2. x = ShareBefore'[d] /\ x \in Nat
    BY <1>1, <1>2, <1>5, <1>6, <2>1 DEF Replayed
  <2>3. ShareBefore'[d + 1] = NextShare(d, ShareBefore[d])'
    BY <1>2, <2>1 DEF Replayed
  <2> QED BY <2>1, <2>2, <2>3
<1> QED BY <1>3, <1>5, <1>6

-----------------------------------------------------------------------------
(* What a verdict finds the pending closes took *)

\* The closes still to be judged are closes of the history.
LEMMA PendingCloses ==
  ASSUME NEW first
  PROVE  /\ Pending(first) \subseteq Closing /\ Pending(first) \subseteq DOMAIN deals
         /\ Pending(first) \subseteq DOMAIN deals /\ Closing \subseteq DOMAIN deals
         /\ OwnPending \subseteq Pending(1) /\ OwnEntries \subseteq DOMAIN deals
BY DEF Pending, Closing, OwnPending, OwnEntries

\* The bounds of the share at a deal are shares.
LEMMA BoundsTyped ==
  ASSUME Base, NEW d, NEW share \in Nat, NEW t \in Take, NEW pend, NEW counted, NEW first
  PROVE  LowShare(d, share, t.high) \in Nat
         /\ HighShare(d, share, t.low, pend, counted, first) \in Nat
<1>1. /\ {e \in OwnEntries : e > d} \in SUBSET DOMAIN deals
      /\ {e \in OwnEntries : e > d /\ e \in counted} \in SUBSET DOMAIN deals
      /\ {e \in Closing \ pend : e > d} \in SUBSET DOMAIN deals
      /\ {e \in OwnEntries : first <= e /\ e < d /\ e \notin counted} \in SUBSET DOMAIN deals
  BY PendingCloses
<1>2. /\ OpenedBy({e \in OwnEntries : e > d}) \in Nat
      /\ OpenedBy({e \in OwnEntries : e > d /\ e \in counted}) \in Nat
      /\ ClosedBy({e \in Closing \ pend : e > d}) \in Nat
      /\ OpenedBy({e \in OwnEntries : first <= e /\ e < d /\ e \notin counted}) \in Nat
  BY <1>1, DealsWeighed DEF Weighed
<1>3. t.low \in Nat /\ t.high \in Nat
  BY DEF Take
<1>4. \A x \in Int : AtLeast0(x) \in Nat
  BY DEF AtLeast0
<1>5. LowShare(d, share, t.high) \in Nat
  BY <1>2, <1>3, <1>4 DEF LowShare
<1>6. HighShare(d, share, t.low, pend, counted, first) \in Nat
  BY <1>2, <1>3, <1>4 DEF HighShare
<1> QED BY <1>5, <1>6

\* The totals before a deal are taken on.
LEMMA NextTakenTyped ==
  ASSUME Base, NEW d \in DOMAIN deals, NEW t \in Take, NEW share \in Nat,
         NEW first, NEW counted
  PROVE  LET u == NextTaken(d, t, share, Pending(first), counted, first) IN
           u \in Take /\ u.low - t.low \in Nat /\ u.high - t.high \in Nat
<1> DEFINE u == NextTaken(d, t, share, Pending(first), counted, first)
           lo == TakeOf(d, LowShare(d, share, t.high))
           hi == TakeOf(d, HighShare(d, share, t.low, Pending(first), counted, first))
<1>1. t.low \in Nat /\ t.high \in Nat
  BY DEF Take
<1>2. CASE d \notin Pending(first)
  <2>1. u = t
    BY <1>2 DEF NextTaken
  <2> QED BY <1>1, <2>1
<1>3. CASE d \in Pending(first)
  <2>1. d \in Closing
    BY <1>3, PendingCloses
  <2>2. lo \in Nat /\ hi \in Nat
    <3>1. /\ LowShare(d, share, t.high) \in Nat
          /\ HighShare(d, share, t.low, Pending(first), counted, first) \in Nat
      BY BoundsTyped
    <3> QED BY <2>1, <3>1, TakeBounded
  <2>3. u = [low |-> t.low + lo, high |-> t.high + hi]
    BY <1>3, Zenon DEF NextTaken
  <2> HIDE DEF lo, hi, u
  <2>4. u \in Take /\ u.low = t.low + lo /\ u.high = t.high + hi
    BY <1>1, <2>2, <2>3 DEF Take
  <2> QED BY <1>1, <2>2, <2>4 DEF u
<1> QED BY <1>2, <1>3

\* The totals before the deals: nothing before the first, then one deal after another.
Totalled(share, pend, counted, first) ==
  LET t == TakenBefore(share, pend, counted, first) IN
    /\ t \in [1 .. Len(deals) + 1 -> Take]
    /\ t[1] = NoneTaken
    /\ \A d \in 1 .. Len(deals) : t[d + 1] = NextTaken(d, t[d], share, pend, counted, first)

LEMMA TakenTotalled ==
  ASSUME Base, NEW share \in Nat, NEW first, NEW counted
  PROVE  Totalled(share, Pending(first), counted, first)
<1> DEFINE n == Len(deals)
           step(d, x) == NextTaken(d, x, share, Pending(first), counted, first)
           Is(s) == s = [d \in 1 .. n + 1 |-> IF d = 1 THEN NoneTaken ELSE step(d - 1, s[d - 1])]
           f == [d \in 1 .. n |-> [x \in Take |-> step(d, x)]]
           t == TakenBefore(share, Pending(first), counted, first)
<1>n. n \in Nat /\ DOMAIN deals = 1 .. n
  BY NumbersTyped DEF Numbers
<1>1. t = CHOOSE s : Is(s)
  BY Zenon DEF TakenBefore
<1>2. \A d \in 1 .. n, x \in Take : step(d, x) \in Take
  BY <1>n, NextTakenTyped
<1> HIDE DEF step
<1>3. Steps(f, n, Take)
  BY <1>2 DEF Steps
<1>4. PICK s : Follows(s, f, n, Take, NoneTaken)
  <2>1. NoneTaken \in Take
    BY DEF NoneTaken, Take
  <2> HIDE DEF f, n
  <2> QED BY <1>n, <1>3, <2>1, RecursionExists
<1>s. /\ s \in [1 .. n + 1 -> Take] /\ s[1] = NoneTaken
      /\ \A d \in 1 .. n : s[d + 1] = f[d][s[d]]
  BY <1>4 DEF Follows
<1>5. \A d \in 1 .. n : s[d + 1] = step(d, s[d])
  <2> SUFFICES ASSUME NEW d \in 1 .. n PROVE s[d + 1] = step(d, s[d])
    OBVIOUS
  <2>1. s[d] \in Take
    BY <1>n, <1>s
  <2> QED BY <1>s, <2>1
<1> HIDE DEF f, n, t
<1>6. Is(s)
  <2>1. ASSUME NEW d \in 1 .. n + 1
        PROVE  s[d] = IF d = 1 THEN NoneTaken ELSE step(d - 1, s[d - 1])
    <3>1. d # 1 => d - 1 \in 1 .. n /\ (d - 1) + 1 = d
      BY <1>n
    <3> QED BY <1>s, <1>5, <3>1
  <2> QED BY <1>s, <2>1
<1>7. Is(t)
  BY <1>1, <1>6
<1>8. t[1] = NoneTaken
  BY <1>n, <1>7
<1>9. ASSUME NEW d \in 1 .. n PROVE t[d + 1] = step(d, t[d])
  <2>1. d + 1 \in 1 .. n + 1 /\ d + 1 # 1 /\ (d + 1) - 1 = d
    BY <1>n
  <2> QED BY <1>7, <2>1
<1>10. \A d \in 1 .. n + 1 : t[d] = s[d]
  <2>1. \A d \in 1 .. n : t[d] = s[d] => t[d + 1] = s[d + 1]
    BY <1>5, <1>9
  <2>2. n \in Nat /\ t[1] = s[1]
    BY <1>n, <1>s, <1>8
  <2> HIDE DEF Is
  <2> QED BY <2>1, <2>2, RecursionAgrees
<1>11. t \in [1 .. n + 1 -> Take]
  BY <1>s, <1>7, <1>10
<1> QED BY <1>8, <1>9, <1>11 DEF Totalled, t, n, step

\* From an empty position on, a verdict finds of each pending close exactly what
\* it took.
LEMMA ExactFound ==
  ASSUME Base, ReplaySound, NEW share, NEW counted
  PROVE  ReplayShareCloses(1, share, counted)
           = [d \in Pending(1) |-> [low |-> deals[d].took, high |-> deals[d].took]]
<1>1. \A d \in Pending(1) : TakeOf(d, ShareBefore[d]) = deals[d].took
  BY PendingCloses DEF ReplaySound
<1>2. ReplayShareCloses(1, share, counted) = ExactTakes(Pending(1), ShareBefore)
  BY DEF ReplayShareCloses
<1> HIDE DEF ShareBefore
<1> QED BY <1>1, <1>2 DEF ExactTakes

\* What a verdict finds is typed, from whichever deal its window starts.
LEMMA FoundTyped ==
  ASSUME Base, ReplaySound, NEW first \in {1, FirstEntry}, NEW share \in Nat, NEW counted
  PROVE  ReplayShareCloses(first, share, counted) \in [Pending(first) -> Take]
<1>1. CASE first = 1
  <2>1. \A d \in Pending(1) : deals[d].took \in Nat
    BY NumbersTyped, PendingCloses DEF Numbers
  <2> QED BY <1>1, <2>1, ExactFound DEF Take
<1>2. CASE first # 1
  <2> DEFINE t == TakenBefore(share, Pending(first), counted, first)
  <2>1. ReplayShareCloses(first, share, counted) = BoundedTakes(Pending(first), t)
    BY <1>2 DEF ReplayShareCloses
  <2>2. Totalled(share, Pending(first), counted, first)
    BY TakenTotalled
  <2>3. ASSUME NEW d \in Pending(first)
        PROVE  t[d + 1].low - t[d].low \in Nat /\ t[d + 1].high - t[d].high \in Nat
    <3>1. d \in DOMAIN deals /\ d \in 1 .. Len(deals) /\ d \in 1 .. Len(deals) + 1
      BY NumbersTyped, PendingCloses DEF Numbers
    <3>2. /\ t[d] \in Take
          /\ t[d + 1] = NextTaken(d, t[d], share, Pending(first), counted, first)
      BY <2>2, <3>1 DEF Totalled
    <3> HIDE DEF t
    <3> QED BY <3>1, <3>2, NextTakenTyped
  <2> HIDE DEF t
  <2> QED BY <2>1, <2>3 DEF BoundedTakes, Take
<1> QED BY <1>1, <1>2

\* The volumes of what was found.
LEMMA FoundVolumes ==
  ASSUME Base, NEW first, NEW takes \in [Pending(first) -> Take]
  PROVE  /\ Taken(takes) \in Nat /\ TakenBy(takes, Took(takes) \ seen) \in Nat
         /\ DOMAIN takes = Pending(first) /\ Took(takes) \subseteq Pending(first)
         /\ MayHaveTaken(takes) \subseteq Pending(first)
<1> DEFINE w == [d \in DOMAIN takes |-> takes[d].low]
<1>1. DOMAIN takes = Pending(first) /\ w \in [Pending(first) -> Nat]
  BY DEF Take
<1>2. Took(takes) \subseteq Pending(first) /\ MayHaveTaken(takes) \subseteq Pending(first)
  BY DEF Took, MayHaveTaken
<1>3. \A S \in SUBSET Pending(first) : IsFiniteSet(S)
  BY PendingCloses, DealsWeighed DEF Weighed
<1>4. \A S \in SUBSET Pending(first) : TakenBy(takes, S) \in Nat
  <2> SUFFICES ASSUME NEW S \in SUBSET Pending(first) PROVE SumFunctionOnSet(w, S) \in Nat
    BY DEF TakenBy
  <2> HIDE DEF w
  <2> QED BY <1>1, <1>3, SumStep
<1> QED BY <1>1, <1>2, <1>4 DEF Taken

\* The exact verdict sums to what the pending closes took.
LEMMA ExactVolumes ==
  ASSUME Base, ReplaySound, NEW share, NEW counted, NEW takes,
         takes = ReplayShareCloses(1, share, counted)
  PROVE  /\ DOMAIN takes = Pending(1)
         /\ \A d \in Pending(1) : takes[d].low = deals[d].took /\ takes[d].high = deals[d].took
         /\ Took(takes) = {d \in Pending(1) : deals[d].took > 0}
         /\ \A S \in SUBSET Pending(1) : TakenBy(takes, S) = TookBy(S)
         /\ Taken(takes) = TookBy(Pending(1))
         /\ TakenBy(takes, Took(takes) \ seen) = TookBy(Pending(1) \ seen)
<1> DEFINE w == [d \in DOMAIN takes |-> takes[d].low]
<1>1. takes = [d \in Pending(1) |-> [low |-> deals[d].took, high |-> deals[d].took]]
  BY ExactFound
<1>2. /\ DOMAIN takes = Pending(1)
      /\ \A d \in Pending(1) : takes[d].low = deals[d].took /\ takes[d].high = deals[d].took
  BY <1>1
<1>3. Took(takes) = {d \in Pending(1) : deals[d].took > 0}
  BY <1>2 DEF Took
<1>4. w \in [Pending(1) -> Nat] /\ \A d \in Pending(1) : w[d] = Takes[d]
  BY <1>2, PendingCloses, NumbersTyped DEF Numbers, Takes
<1> HIDE DEF w
<1>5. ASSUME NEW S \in SUBSET Pending(1) PROVE TakenBy(takes, S) = TookBy(S)
  <2>1. S \in SUBSET DOMAIN deals
    BY PendingCloses
  <2>2. IsFiniteSet(S) /\ Takes \in [DOMAIN deals -> Nat] /\ TookBy(S) = SumFunctionOnSet(Takes, S)
    BY <2>1, DealsWeighed DEF Weighed
  <2>3. SumFunctionOnSet(w, S) = SumFunctionOnSet(Takes, S)
    BY <1>4, <2>1, <2>2, SumSame
  <2> QED BY <2>2, <2>3 DEF TakenBy, w
<1>6. TookBy(Took(takes) \ seen) = TookBy(Pending(1) \ seen)
  <2> DEFINE S == Took(takes) \ seen
             U == Pending(1) \ seen
  <2>1. S \in SUBSET U /\ U \in SUBSET DOMAIN deals /\ S \in SUBSET DOMAIN deals
    BY <1>3, PendingCloses
  <2>2. \A d \in U \ S : deals[d].took = 0
    BY <1>3, PendingCloses, NumbersTyped DEF Numbers
  <2> HIDE DEF S, U
  <2>3. TookBy(U) = TookBy(S)
    BY <2>1, <2>2, TookNothing
  <2> QED BY <2>3 DEF S, U
<1> QED BY <1>2, <1>3, <1>5, <1>6 DEF Taken

-----------------------------------------------------------------------------
(* The initial state *)

Sound == Base /\ ReplaySound

\* The history starts with what others held, if anything, and the run's first entry.
LEMMA InitDeals ==
  ASSUME Init, NEW o, o = Deal("others", Others0, 0, Others0, 0),
         NEW e, e = Deal("entry", Mine0, 0, Mine0 + Others0, 0)
  PROVE  /\ deals \in Seq({o, e}) /\ Len(deals) \in {1, 2} /\ deals[Len(deals)] = e
         /\ Len(deals) = 2 => deals[1] = o
<1>1. deals = (IF Others0 = 0 THEN <<>> ELSE <<o>>) \o <<e>>
  BY DEF Init
<1>2. CASE Others0 = 0
  <2>1. deals = <<>> \o <<e>>
    BY <1>1, <1>2
  <2>2. deals = <<e>>
    BY <2>1
  <2> QED BY <2>2
<1>3. CASE Others0 # 0
  <2>1. deals = <<o>> \o <<e>>
    BY <1>1, <1>3
  <2>2. <<o>> \in Seq({o, e}) /\ <<e>> \in Seq({o, e}) /\ Len(<<o>>) = 1 /\ Len(<<e>>) = 1
    OBVIOUS
  <2> QED BY <2>1, <2>2
<1> QED BY <1>2, <1>3

\* The wire is empty and the history ends with the run's first entry.
LEMMA InitBase == Init => Base
<1> SUFFICES ASSUME Init PROVE Base
  OBVIOUS
<1> DEFINE o == Deal("others", Others0, 0, Others0, 0)
           e == Deal("entry", Mine0, 0, Mine0 + Others0, 0)
<1>1. o \in DealRecord /\ e \in DealRecord /\ o.closed = 0 /\ e.closed = 0 /\ o.took = 0 /\ e.took = 0
  BY ShareAssumption DEF Deal, DealRecord, Parties, Foreign
<1> HIDE DEF o, e
<1>2. deals \in Seq({o, e}) /\ Len(deals) \in {1, 2}
  BY InitDeals DEF o, e
<1>3. /\ deals \in Seq(DealRecord) /\ Len(deals) \in Nat /\ Len(deals) >= 1
      /\ DOMAIN deals = 1 .. Len(deals)
      /\ \A d \in DOMAIN deals : deals[d] \in {o, e}
  <2>1. /\ Len(deals) \in Nat /\ Len(deals) >= 1 /\ DOMAIN deals = 1 .. Len(deals)
        /\ \A d \in 1 .. Len(deals) : deals[d] \in {o, e}
    BY <1>2
  <2>2. {o, e} \subseteq DealRecord
    BY <1>1
  <2> HIDE DEF DealRecord
  <2>3. deals \in Seq(DealRecord)
    BY <1>2, <2>2
  <2> QED BY <2>1, <2>3
<1>4. \A d \in DOMAIN deals : deals[d].closed = 0 /\ deals[d].took = 0
  BY <1>1, <1>3
<1>5. DealsSound
  <2>1. deals[1].closed = 0
    BY <1>3, <1>4
  <2> QED BY <1>3, <1>4, <2>1 DEF DealsSound
<1>6. judged \in Seq(Origins) /\ Len(judged) = Len(deals)
  BY <1>3 DEF Init, Origins
<1>7. TypeOK
  BY <1>3, <1>6, ShareAssumption DEF Init, TypeOK
<1>8. WireSound
  BY <1>3 DEF Init, WireSound
<1> QED BY <1>5, <1>7, <1>8 DEF Base

\* The run's first entry is all that others left of the history.
LEMMA InitReplay == Init => ReplaySound
<1> SUFFICES ASSUME Init PROVE ReplaySound
  OBVIOUS
<1>r. Base /\ Replayed
  BY InitBase, HistoryReplayed
<1> DEFINE o == Deal("others", Others0, 0, Others0, 0)
           e == Deal("entry", Mine0, 0, Mine0 + Others0, 0)
<1>1. /\ o.by = "others" /\ o.closed = 0
      /\ e.by = "entry" /\ e.closed = 0 /\ e.opened = Mine0 /\ Mine0 \in Nat /\ mine = Mine0
  BY ShareAssumption DEF Deal, Init
<1> HIDE DEF o, e
<1>2. /\ deals \in Seq({o, e}) /\ Len(deals) \in {1, 2} /\ deals[Len(deals)] = e
      /\ Len(deals) = 2 => deals[1] = o
  BY InitDeals DEF o, e
<1>3. Closing = {}
  <2>1. \A d \in DOMAIN deals : deals[d] \in {o, e}
    BY <1>2
  <2> QED BY <1>1, <2>1 DEF Closing
<1>4. CASE Len(deals) = 1
  <2>1. 1 \in OwnEntries /\ deals[1] = e
    BY <1>1, <1>2, <1>4 DEF OwnEntries
  <2>2. ShareBefore[1] = 0 /\ ShareBefore[1 + 1] = NextShare(1, ShareBefore[1])
    BY <1>r, <1>4 DEF Replayed
  <2>3. NextShare(1, 0) = Mine0
    BY <1>1, <1>3, <2>1 DEF NextShare
  <2> QED BY <1>1, <1>3, <1>4, <2>2, <2>3 DEF ReplaySound
<1>5. CASE Len(deals) = 2
  <2>1. 1 \notin OwnEntries /\ 2 \in OwnEntries /\ deals[2] = e
    BY <1>1, <1>2, <1>5 DEF OwnEntries
  <2>2. /\ ShareBefore[1] = 0 /\ ShareBefore[1 + 1] = NextShare(1, ShareBefore[1])
        /\ ShareBefore[2 + 1] = NextShare(2, ShareBefore[2])
    BY <1>r, <1>5 DEF Replayed
  <2>3. NextShare(1, 0) = 0 /\ NextShare(2, 0) = Mine0
    BY <1>1, <1>3, <2>1 DEF NextShare
  <2> QED BY <1>1, <1>3, <1>5, <2>2, <2>3 DEF ReplaySound
<1> QED BY <1>2, <1>4, <1>5

-----------------------------------------------------------------------------
(* Deals: the base of the invariant *)

\* A deal of the position as the venue may execute it.
Tradable(deal) ==
  /\ deal \in DealRecord /\ deal.took <= deal.closed
  /\ deal.by \in {"others", "entry"} <=> deal.closed = 0
  /\ deal.took = CASE deal.closed = 0 -> 0
                   [] deal.closed # 0 /\ deal.by = "own" -> Least(deal.closed, mine)
                   [] OTHER -> AtLeast0(Least(deal.closed, mine - deal.after))

\* The history keeps its types with one deal more.
LEMMA ExecuteTyped ==
  ASSUME Base, NEW deal, Tradable(deal), Execute(deal)
  PROVE  /\ DealsSound' /\ Appends(deal)
         /\ judged' \in Seq(Origins) /\ Len(judged') = Len(deals')
         /\ DOMAIN deals \subseteq DOMAIN deals' /\ Closing \subseteq Closing'
         /\ Len(deals) + 1 \in DOMAIN deals'
         /\ deal.closed > 0 => Len(deals) + 1 \in Closing'
<1>1. Appends(deal)
  BY DEF Execute, Appends
<1>2. /\ deals \in Seq(DealRecord) /\ judged \in Seq(Origins) /\ deal \in DealRecord
      /\ "no" \in Origins
  BY DEF Base, TypeOK, DealsSound, Tradable, Origins
<1>3. deals' \in Seq(DealRecord) /\ judged' \in Seq(Origins)
  BY <1>1, <1>2 DEF Appends
<1>4. /\ Len(deals') = Len(deals) + 1 /\ DOMAIN deals' = 1 .. Len(deals) + 1
      /\ deals'[Len(deals) + 1] = deal /\ Len(judged') = Len(deals')
      /\ \A d \in DOMAIN deals : d \in DOMAIN deals' /\ deals'[d] = deals[d]
      /\ Len(deals) \in Nat /\ Len(deals) >= 1 /\ DOMAIN deals = 1 .. Len(deals)
  BY <1>1, Appended, NumbersTyped DEF Numbers
<1>5. DealsSound'
  <2>1. deals'[1].closed = 0
    BY <1>4 DEF Base, DealsSound
  <2>2. ASSUME NEW d \in DOMAIN deals'
        PROVE  /\ deals'[d].took <= deals'[d].closed
               /\ deals'[d].by \in {"others", "entry"} => deals'[d].closed = 0
    <3>1. CASE d = Len(deals) + 1
      BY <1>4, <3>1 DEF Tradable
    <3>2. CASE d # Len(deals) + 1
      <4>1. d \in DOMAIN deals
        BY <1>4, <3>2
      <4> QED BY <1>4, <4>1 DEF Base, DealsSound
    <3> QED BY <3>1, <3>2
  <2> QED BY <1>3, <1>4, <2>1, <2>2 DEF DealsSound
<1>6. Closing \subseteq Closing' /\ (deal.closed > 0 => Len(deals) + 1 \in Closing')
  BY <1>1, <1>2, AppendedSets
<1> QED BY <1>1, <1>3, <1>4, <1>5, <1>6

\* Replaying the history with it meets the share after it.
LEMMA ExecuteReplay ==
  ASSUME Sound, Base', NEW deal, Tradable(deal), Execute(deal)
  PROVE  ReplaySound'
<1> DEFINE n == Len(deals)
<1>b. Base /\ Appends(deal) /\ deal \in DealRecord
  BY ExecuteTyped DEF Sound, Tradable
<1>1. /\ DOMAIN deals' = 1 .. n + 1 /\ Len(deals') = n + 1 /\ n \in Nat /\ n + 1 \notin DOMAIN deals
      /\ DOMAIN deals = 1 .. n /\ deals'[n + 1] = deal
      /\ mine \in Nat /\ deal.closed \in Nat /\ deal.opened \in Nat
      /\ \A d \in DOMAIN deals : deals'[d] = deals[d]
  BY <1>b, Appended, NumbersTyped DEF Numbers, DealRecord
<1>2. ShareBefore[n + 1] = mine
  BY DEF Sound, ReplaySound
<1>3. /\ n + 1 \in Closing' <=> deal.closed > 0
      /\ n + 1 \in OwnEntries' <=> deal.by = "entry"
  BY <1>1 DEF Closing, OwnEntries
<1>4. ASSUME NEW d, d = n + 1, NEW x, x = mine, deal.closed > 0
      PROVE  TakeOf(d, x)' = deal.took
  <2>1. TakeOf(d, x)' = IF deal.by = "own" THEN Least(deal.closed, x)
                        ELSE AtLeast0(Least(deal.closed, x - deal.after))
    BY <1>1, <1>4 DEF TakeOf
  <2>2. deal.took = IF deal.by = "own" THEN Least(deal.closed, mine)
                    ELSE AtLeast0(Least(deal.closed, mine - deal.after))
    BY <1>1, <1>4 DEF Tradable
  <2> QED BY <1>4, <2>1, <2>2
<1>5. mine' = (IF deal.by = "entry" THEN mine + deal.opened ELSE mine) - deal.took
  BY DEF Execute
<1>6. ASSUME NEW d, d = n + 1, NEW x, x = mine PROVE NextShare(d, x)' = mine'
  <2>1. CASE deal.closed > 0
    <3>1. NextShare(d, x)' = x - TakeOf(d, x)'
      BY <1>3, <1>6, <2>1 DEF NextShare, Tradable
    <3>2. deal.by # "entry"
      BY <1>1, <2>1 DEF Tradable
    <3> QED BY <1>4, <1>5, <1>6, <2>1, <3>1, <3>2
  <2>2. CASE deal.closed = 0 /\ deal.by = "entry"
    <3>1. NextShare(d, x)' = x + deal.opened
      BY <1>1, <1>3, <1>6, <2>2 DEF NextShare
    <3>2. deal.took = 0
      BY <2>2 DEF Tradable
    <3> QED BY <1>1, <1>5, <1>6, <2>2, <3>1, <3>2
  <2>3. CASE deal.closed = 0 /\ deal.by # "entry"
    <3>1. NextShare(d, x)' = x
      BY <1>3, <1>6, <2>3 DEF NextShare
    <3>2. deal.took = 0
      BY <2>3 DEF Tradable
    <3> QED BY <1>1, <1>5, <1>6, <2>3, <3>1, <3>2
  <2> QED BY <1>1, <2>1, <2>2, <2>3
<1>7. ShareBefore'[Len(deals') + 1] = mine'
  <2>1. \A d, x : d = n + 1 /\ x = ShareBefore[n + 1]
                    => ShareBefore'[Len(deals') + 1] = NextShare(d, x)'
    BY <1>b, AppendedReplay
  <2> QED BY <1>2, <1>6, <2>1
<1>8. ASSUME NEW d \in Closing' PROVE deals'[d].took = TakeOf(d, ShareBefore[d])'
  <2>r. /\ \A e \in 1 .. n + 1 : ShareBefore'[e] = ShareBefore[e] /\ ShareBefore[e] \in Nat
        /\ \A e \in DOMAIN deals, x \in Nat : TakeOf(e, x)' = TakeOf(e, x)
    BY <1>b, AppendedReplay, HistoryReplayed DEF Replayed
  <2>1. CASE d = n + 1
    <3>1. deal.closed > 0 /\ ShareBefore'[d] = mine
      BY <1>1, <1>2, <1>3, <1>8, <2>1, <2>r
    <3>2. ASSUME NEW x, x = mine PROVE deals'[d].took = TakeOf(d, ShareBefore[d])'
      <4>1. TakeOf(d, x)' = deal.took
        BY <1>4, <2>1, <3>1, <3>2
      <4>2. TakeOf(d, x)' = TakeOf(d, ShareBefore[d])'
        BY <3>1, <3>2 DEF TakeOf
      <4> QED BY <1>1, <2>1, <4>1, <4>2
    <3> QED BY <3>2
  <2>2. CASE d # n + 1
    <3>1. d \in DOMAIN deals /\ d \in Closing /\ d \in 1 .. n + 1
      BY <1>1, <1>8, <2>2 DEF Closing
    <3>2. ASSUME NEW x, x = ShareBefore[d] PROVE deals'[d].took = TakeOf(d, ShareBefore[d])'
      <4>1. TakeOf(d, x)' = TakeOf(d, x) /\ x = ShareBefore'[d]
        BY <2>r, <3>1, <3>2
      <4>2. deals[d].took = TakeOf(d, x)
        BY <3>1, <3>2 DEF Sound, ReplaySound
      <4>3. TakeOf(d, x)' = TakeOf(d, ShareBefore[d])'
        BY <4>1 DEF TakeOf
      <4> QED BY <1>1, <3>1, <4>1, <4>2, <4>3
    <3> QED BY <3>2
  <2> QED BY <2>1, <2>2
<1> QED BY <1>7, <1>8 DEF ReplaySound

\* A further deal: a close of others, an entry of others, a close of the run or a
\* further entry of it.
Happens(deal) ==
  /\ Tradable(deal) /\ Execute(deal)
  /\ deal.closed = 0 \/ deal.opened = 0
  /\ deal.closed <= vol /\ deal.after = vol + deal.opened - deal.closed
  /\ wire' = IF deal.closed > 0 /\ phase = "up" THEN Append(wire, Len(deals) + 1) ELSE wire
  /\ UNCHANGED <<retired, waiting, handled, audited, covered, shrink, resumeVars, phase, watch,
                 tried, cover, marked, boundVars>>
  /\ IF deal.by = "own" THEN /\ phase = "up" /\ rows > 0 /\ deal.closed <= LowNow
                             /\ unresolved' = unresolved \union {Len(deals) + 1}
     ELSE UNCHANGED unresolved
  /\ IF deal.by = "entry" THEN /\ rows > 0 /\ wire = <<>> /\ deal.opened = 1
                               /\ seen' = seen \union {Len(deals) + 1}
                               /\ rows' = rows + 1 /\ filled' = filled + 1 /\ book' = book + 1
     ELSE UNCHANGED <<seen, rows, filled, book>>

\* A close of others takes what their own exposure does not cover.
LEMMA ForeignHappens ==
  ASSUME Base, ForeignClose
  PROVE  \E deal : Happens(deal) /\ deal.by \in Foreign
<1>1. PICK by \in Foreign, v \in 1 .. vol :
        Execute(Deal(by, 0, v, vol - v, AtLeast0(v - (vol - mine))))
  BY DEF ForeignClose
<1> DEFINE took == AtLeast0(v - (vol - mine))
           deal == Deal(by, 0, v, vol - v, took)
<1>n. vol \in Nat /\ mine \in Nat /\ mine <= vol
  BY NumbersTyped DEF Numbers
<1>2. took \in Nat /\ took <= v /\ took = AtLeast0(Least(v, mine - (vol - v)))
  BY <1>n DEF AtLeast0, Least
<1> HIDE DEF took
<1>3. /\ deal.by = by /\ deal.opened = 0 /\ deal.closed = v /\ deal.after = vol - v
      /\ deal.took = took
  BY DEF Deal
<1>4. deal \in DealRecord
  BY <1>n, <1>2 DEF Deal, DealRecord, Parties
<1>5. by # "own" /\ by \notin {"others", "entry"} /\ v # 0
  BY DEF Foreign
<1>6. Tradable(deal)
  <2> HIDE DEF deal
  <2> QED BY <1>2, <1>3, <1>4, <1>5 DEF Tradable
<1>7. Execute(deal)
  BY <1>1 DEF took
<1> HIDE DEF deal
<1>8. v > 0 /\ v <= vol /\ vol - v = vol + 0 - v
  BY <1>n
<1>9. Happens(deal)
  BY <1>3, <1>5, <1>6, <1>7, <1>8 DEF ForeignClose, Push, Happens, shareVars, memoryVars
<1> QED BY <1>3, <1>9

\* What others add takes nothing.
LEMMA OthersHappen ==
  ASSUME Base, OthersAdd
  PROVE  \E deal : Happens(deal) /\ deal.by = "others"
<1> DEFINE deal == Deal("others", 1, 0, vol + 1, 0)
<1>n. vol \in Nat /\ mine \in Nat /\ mine <= vol
  BY NumbersTyped DEF Numbers
<1>3. /\ deal.by = "others" /\ deal.opened = 1 /\ deal.closed = 0 /\ deal.after = vol + 1
      /\ deal.took = 0
  BY DEF Deal
<1>4. deal \in DealRecord
  BY <1>n DEF Deal, DealRecord, Parties
<1>7. Execute(deal)
  BY DEF OthersAdd
<1> HIDE DEF deal
<1>6. Tradable(deal)
  BY <1>3, <1>4 DEF Tradable
<1>9. Happens(deal)
  BY <1>n, <1>3, <1>6, <1>7 DEF OthersAdd, Happens, shareVars, memoryVars
<1> QED BY <1>3, <1>9

\* The run closes at most what it knows to be left of its share.
LEMMA OwnCloseHappens ==
  ASSUME Base, OwnClose
  PROVE  \E deal : Happens(deal) /\ deal.by = "own"
<1>1. PICK v \in 1 .. Least(vol, LowNow) : Execute(Deal("own", 0, v, vol - v, Least(v, mine)))
  BY DEF OwnClose
<1> DEFINE took == Least(v, mine)
           deal == Deal("own", 0, v, vol - v, took)
<1>n. vol \in Nat /\ mine \in Nat /\ mine <= vol
  BY NumbersTyped DEF Numbers
<1>l. LowNow \in Int
  <2>1. unresolved \ seen \in SUBSET DOMAIN deals
    BY DEF Base, TypeOK
  <2>2. ClosedBy(unresolved \ seen) \in Nat
    BY <2>1, DealsWeighed DEF Weighed
  <2> QED BY <2>2, NumbersTyped DEF Numbers, LowNow, AtLeast0
<1>2. v \in Nat /\ v > 0 /\ v <= vol /\ v <= LowNow
  BY <1>n, <1>l DEF Least
<1>t. took \in Nat /\ took <= v
  BY <1>n, <1>2 DEF Least
<1>3. /\ deal.by = "own" /\ deal.opened = 0 /\ deal.closed = v /\ deal.after = vol - v
      /\ deal.took = took
  BY DEF Deal
<1> HIDE DEF took
<1>4. deal \in DealRecord
  BY <1>n, <1>2, <1>t DEF Deal, DealRecord, Parties
<1>7. Execute(deal)
  BY <1>1 DEF took
<1> HIDE DEF deal
<1>6. Tradable(deal)
  BY <1>2, <1>t, <1>3, <1>4 DEF Tradable, took
<1>9. Happens(deal)
  <2>1. deal.by # "entry" /\ deal.closed > 0 /\ deal.closed <= vol /\ deal.closed <= LowNow
        /\ deal.after = vol + deal.opened - deal.closed /\ deal.opened = 0
    BY <1>n, <1>2, <1>3
  <2> QED BY <1>3, <1>6, <1>7, <2>1 DEF OwnClose, Push, Happens, shareVars
<1> QED BY <1>3, <1>9

\* An entry of the run adds to its share.
LEMMA OwnEntryHappens ==
  ASSUME Base, OwnEntry
  PROVE  \E deal : Happens(deal) /\ deal.by = "entry"
<1> DEFINE deal == Deal("entry", 1, 0, vol + 1, 0)
<1>n. vol \in Nat /\ mine \in Nat /\ mine <= vol
  BY NumbersTyped DEF Numbers
<1>3. /\ deal.by = "entry" /\ deal.opened = 1 /\ deal.closed = 0 /\ deal.after = vol + 1
      /\ deal.took = 0
  BY DEF Deal
<1>4. deal \in DealRecord
  BY <1>n DEF Deal, DealRecord, Parties
<1>7. Execute(deal)
  BY DEF OwnEntry
<1> HIDE DEF deal
<1>6. Tradable(deal)
  BY <1>3, <1>4 DEF Tradable
<1>9. Happens(deal)
  BY <1>n, <1>3, <1>6, <1>7 DEF OwnEntry, Happens
<1> QED BY <1>3, <1>9

\* The push of the new deal comes after all that wait.
LEMMA HappensWire ==
  ASSUME Base, NEW deal, Happens(deal)
  PROVE  WireSound'
<1> DEFINE n == Len(deals)
<1>1. Tradable(deal) /\ Execute(deal)
  BY DEF Happens
<1>2. /\ Closing \subseteq Closing' /\ (deal.closed > 0 => n + 1 \in Closing')
      /\ Len(deals') = n + 1 /\ n \in Nat
      /\ \A d \in Closing : d \in Nat /\ d <= n
  <2>1. Appends(deal)
    BY <1>1, ExecuteTyped
  <2> QED BY <1>1, <2>1, ExecuteTyped, Appended, NumbersTyped DEF Numbers
<1>3. wire \in Seq(Closing) /\ wire \in Seq(Closing')
  BY <1>2 DEF Base, WireSound
<1>4. /\ \A i, j \in DOMAIN wire : i < j => wire[i] < wire[j]
      /\ phase = "down" => wire = <<>> /\ unresolved = {}
      /\ cover <= n
  BY DEF Base, WireSound
<1>5. phase' = phase /\ cover' = cover /\ (phase = "down" => unresolved' = unresolved)
  BY DEF Happens
<1>6. CASE wire' = wire
  <2>1. phase' = "down" => wire' = <<>> /\ unresolved' = {}
    BY <1>4, <1>5, <1>6
  <2>2. cover' <= Len(deals')
    BY <1>2, <1>4, <1>5, NumbersTyped DEF Numbers
  <2> QED BY <1>3, <1>4, <1>6, <2>1, <2>2 DEF WireSound
<1>7. CASE deal.closed > 0 /\ phase = "up" /\ wire' = Append(wire, n + 1)
  <2>1. wire' \in Seq(Closing')
    BY <1>2, <1>3, <1>7
  <2>2. cover' <= Len(deals') /\ phase' # "down"
    BY <1>2, <1>4, <1>5, <1>7, NumbersTyped DEF Numbers
  <2> DEFINE k == Len(wire)
  <2>3. /\ k \in Nat /\ DOMAIN wire = 1 .. k /\ DOMAIN wire' = 1 .. k + 1
        /\ wire'[k + 1] = n + 1 /\ \A i \in 1 .. k : wire'[i] = wire[i] /\ wire[i] \in Closing
    BY <1>3, <1>7
  <2> HIDE DEF k, n
  <2>4. ASSUME NEW i \in DOMAIN wire', NEW j \in DOMAIN wire', i < j PROVE wire'[i] < wire'[j]
    <3>1. CASE j = k + 1
      <4>1. i \in 1 .. k
        BY <2>3, <2>4, <3>1
      <4>2. wire'[i] \in Nat /\ wire'[i] <= n
        BY <1>2, <2>3, <4>1
      <4> QED BY <1>2, <2>3, <3>1, <4>2
    <3>2. CASE j # k + 1
      <4>1. i \in 1 .. k /\ j \in 1 .. k
        BY <2>3, <2>4, <3>2
      <4> QED BY <1>4, <2>3, <2>4, <4>1
    <3> QED BY <3>1, <3>2
  <2> QED BY <2>1, <2>2, <2>4 DEF WireSound
<1> QED BY <1>6, <1>7 DEF Happens

\* The share stays within the position.
LEMMA HappensVenue ==
  ASSUME Base, NEW deal, Happens(deal)
  PROVE  vol' \in Nat /\ mine' \in 0 .. vol'
<1>n. vol \in Nat /\ mine \in Nat /\ mine <= vol
  BY NumbersTyped DEF Numbers
<1>1. /\ deal.opened \in Nat /\ deal.closed \in Nat /\ deal.took \in Nat
      /\ deal.closed = 0 \/ deal.opened = 0
      /\ deal.closed <= vol /\ deal.after = vol + deal.opened - deal.closed
      /\ deal.closed = 0 => deal.took = 0
      /\ deal.closed # 0 => deal.took = IF deal.by = "own" THEN Least(deal.closed, mine)
                                         ELSE AtLeast0(Least(deal.closed, mine - deal.after))
      /\ deal.closed # 0 => deal.by # "entry"
  BY DEF Happens, Tradable, DealRecord
<1>2. vol' = deal.after /\ mine' = (IF deal.by = "entry" THEN mine + deal.opened ELSE mine) - deal.took
  BY DEF Happens, Execute
<1> DEFINE c == deal.closed
           o == deal.opened
           t == deal.took
<1> HIDE DEF c, o, t
<1>3. CASE c = 0
  <2>1. t = 0 /\ o \in Nat /\ vol' = vol + o /\ (mine' = mine + o \/ mine' = mine)
    BY <1>1, <1>2, <1>3, <1>n DEF c, o, t
  <2> QED BY <1>n, <2>1
<1>4. CASE c # 0
  <2>1. /\ c \in Nat /\ vol' = vol - c /\ mine' = mine - t /\ c <= vol
        /\ t = Least(c, mine) \/ t = AtLeast0(Least(c, mine - (vol - c)))
    BY <1>1, <1>2, <1>4, <1>n DEF c, o, t
  <2> QED BY <1>n, <2>1 DEF Least, AtLeast0
<1> QED BY <1>3, <1>4

LEMMA HappensBase ==
  ASSUME Base, NEW deal, Happens(deal)
  PROVE  Base'
<1>1. Tradable(deal) /\ Execute(deal)
  BY DEF Happens
<1>2. /\ DealsSound' /\ judged' \in Seq(Origins) /\ Len(judged') = Len(deals')
      /\ DOMAIN deals \subseteq DOMAIN deals' /\ Closing \subseteq Closing'
      /\ Len(deals) + 1 \in DOMAIN deals'
  BY <1>1, ExecuteTyped
<1>3. vol' \in Nat /\ mine' \in 0 .. vol' /\ WireSound'
  BY HappensVenue, HappensWire
<1>4. /\ filled' \in Nat /\ retired' \in 0 .. filled' /\ rows' \in Nat /\ shrink' \in Nat
      /\ cover' \in Nat /\ phase' \in {"up", "down"} /\ book' \in Int
  <2>1. /\ filled \in Nat /\ retired \in 0 .. filled /\ rows \in Nat /\ shrink \in Nat
        /\ cover \in Nat /\ phase \in {"up", "down"} /\ book \in Int
    BY DEF Base, TypeOK
  <2>2. /\ retired' = retired /\ shrink' = shrink /\ cover' = cover /\ phase' = phase
        /\ \/ filled' = filled /\ rows' = rows /\ book' = book
           \/ filled' = filled + 1 /\ rows' = rows + 1 /\ book' = book + 1
    BY DEF Happens
  <2> QED BY <2>1, <2>2
<1>5. /\ waiting' \union handled' \union audited' \union accepted' \subseteq Closing'
      /\ covered' \subseteq Closing' \X Closing'
  <2>1. /\ waiting \union handled \union audited \union accepted \subseteq Closing
        /\ covered \subseteq Closing \X Closing
    BY DEF Base, TypeOK
  <2> QED BY <1>2, <2>1 DEF Happens, resumeVars
<1>6. seen' \union unresolved' \subseteq DOMAIN deals'
  BY <1>2 DEF Base, TypeOK, Happens
<1> QED BY <1>2, <1>3, <1>4, <1>5, <1>6 DEF Base, TypeOK

-----------------------------------------------------------------------------
(* The steps that leave the venue alone *)

\* The part of the types that concerns numbers, and the part that concerns verdicts.
Counted ==
  /\ filled \in Nat /\ retired \in 0 .. filled /\ rows \in Nat /\ shrink \in Nat
  /\ cover \in Nat /\ cover <= Len(deals) /\ phase \in {"up", "down"} /\ book \in Int
Journalled ==
  waiting \union handled \union audited \subseteq Closing /\ covered \subseteq Closing \X Closing
Recorded ==
  /\ judged \in Seq(Origins) /\ Len(judged) = Len(deals)
  /\ Journalled /\ accepted \subseteq Closing
  /\ seen \union unresolved \subseteq DOMAIN deals

LEMMA BaseParts == Base => Counted /\ Recorded
BY DEF Base, TypeOK, WireSound, Counted, Recorded, Journalled

\* The pushes on their way may become fewer.
Shorter == wire' = wire \/ wire' = <<>> \/ (wire # <<>> /\ wire' = Tail(wire))

LEMMA ShorterWire ==
  ASSUME Base, UNCHANGED venueVars, Shorter, cover' <= Len(deals),
         phase' = "down" => wire' = <<>> /\ unresolved' = {}
  PROVE  WireSound'
<1>1. Closing' = Closing /\ Len(deals') = Len(deals)
  BY DEF Closing, venueVars
<1>2. wire \in Seq(Closing) /\ \A i, j \in DOMAIN wire : i < j => wire[i] < wire[j]
  BY DEF Base, WireSound
<1>3. wire' \in Seq(Closing) /\ \A i, j \in DOMAIN wire' : i < j => wire'[i] < wire'[j]
  <2>1. CASE wire' = wire
    BY <1>2, <2>1
  <2>2. CASE wire' = <<>>
    BY <2>2
  <2>3. CASE wire # <<>> /\ wire' = Tail(wire)
    <3> DEFINE k == Len(wire)
    <3>1. /\ k \in Nat /\ k >= 1 /\ DOMAIN wire = 1 .. k /\ wire' \in Seq(Closing)
          /\ DOMAIN wire' = 1 .. k - 1 /\ \A i \in 1 .. k - 1 : wire'[i] = wire[i + 1]
      BY <1>2, <2>3
    <3> HIDE DEF k
    <3>2. ASSUME NEW i \in DOMAIN wire', NEW j \in DOMAIN wire', i < j PROVE wire'[i] < wire'[j]
      <4>1. i + 1 \in 1 .. k /\ j + 1 \in 1 .. k /\ i + 1 < j + 1
        BY <3>1, <3>2
      <4> QED BY <1>2, <3>1, <4>1
    <3> QED BY <3>1, <3>2
  <2> QED BY <2>1, <2>2, <2>3 DEF Shorter
<1> QED BY <1>1, <1>3 DEF WireSound

LEMMA SteadyBase ==
  ASSUME Base, UNCHANGED venueVars, Shorter, Counted', Recorded',
         phase' = "down" => wire' = <<>> /\ unresolved' = {}
  PROVE  Base'
<1>1. WireSound'
  <2>1. cover' <= Len(deals)
    BY DEF Counted, venueVars
  <2> QED BY <2>1, ShorterWire
<1>2. DealsSound'
  BY DEF Base, DealsSound, venueVars
<1>3. vol' \in Nat /\ mine' \in 0 .. vol'
  BY DEF Base, TypeOK, venueVars
<1> QED BY <1>1, <1>2, <1>3 DEF Base, TypeOK, Counted, Recorded, Journalled

\* The replay depends on the venue alone.
LEMMA SteadyReplay ==
  ASSUME Base, Base', ReplaySound, UNCHANGED venueVars
  PROVE  ReplaySound'
<1>1. deals' = deals /\ mine' = mine
  BY DEF venueVars
<1>r. Replayed /\ Replayed' /\ Len(deals) \in Nat
  BY HistoryReplayed, NextFacts, NumbersTyped DEF Numbers
<1>3. \A d, x : TakeOf(d, x)' = TakeOf(d, x)
  BY <1>1 DEF TakeOf
<1>4. Closing' = Closing /\ OwnEntries' = OwnEntries
  BY <1>1 DEF Closing, OwnEntries
<1>n. \A d, x : NextShare(d, x)' = NextShare(d, x)
  BY <1>1, <1>3, <1>4 DEF NextShare
<1>2. \A d \in 1 .. Len(deals) + 1 : ShareBefore'[d] = ShareBefore[d]
  <2>1. ASSUME NEW d \in 1 .. Len(deals), ShareBefore'[d] = ShareBefore[d]
        PROVE  ShareBefore'[d + 1] = ShareBefore[d + 1]
    <3>1. ASSUME NEW x, x = ShareBefore[d] PROVE ShareBefore'[d + 1] = ShareBefore[d + 1]
      <4>1. ShareBefore'[d + 1] = NextShare(d, ShareBefore[d])'
        BY <1>1, <1>r DEF Replayed
      <4>2. NextShare(d, ShareBefore[d])' = NextShare(d, x)'
        BY <2>1, <3>1
      <4>3. ShareBefore[d + 1] = NextShare(d, x)
        BY <1>r, <3>1 DEF Replayed
      <4> QED BY <1>n, <4>1, <4>2, <4>3
    <3> QED BY <3>1
  <2> DEFINE s == ShareBefore'
             t == ShareBefore
             n == Len(deals)
  <2> HIDE DEF s, t, n
  <2>2. s[1] = t[1] /\ n \in Nat /\ \A d \in 1 .. n : s[d] = t[d] => s[d + 1] = t[d + 1]
    BY <1>r, <2>1 DEF s, t, n, Replayed
  <2>3. \A d \in 1 .. n + 1 : s[d] = t[d]
    BY <2>2, RecursionAgrees
  <2> QED BY <2>3 DEF s, t, n
<1>5. ASSUME NEW d \in Closing PROVE deals'[d].took = TakeOf(d, ShareBefore[d])'
  <2>1. ASSUME NEW x, x = ShareBefore[d] PROVE deals'[d].took = TakeOf(d, ShareBefore[d])'
    <3>1. deals[d].took = TakeOf(d, x)
      BY <2>1 DEF ReplaySound
    <3>2. TakeOf(d, x)' = TakeOf(d, ShareBefore[d])'
      <4>1. d \in 1 .. Len(deals) + 1
        BY <1>r, NumbersTyped DEF Numbers
      <4> QED BY <1>2, <2>1, <4>1
    <3> QED BY <1>1, <1>3, <3>1, <3>2
  <2> QED BY <2>1
<1>6. ShareBefore'[Len(deals') + 1] = mine'
  BY <1>1, <1>2, <1>r DEF ReplaySound
<1> QED BY <1>4, <1>5, <1>6 DEF ReplaySound

\* A process that stops leaves the journal as it is, but for what it had begun to record.
LEMMA StopBase ==
  ASSUME Base, Die, UNCHANGED <<venueVars, shareVars, shrink, book, accepted>>,
         judged' \in Seq(Origins), Len(judged') = Len(judged), Journalled'
  PROVE  Base'
<1>1. Closing' = Closing /\ deals' = deals
  BY DEF Closing, venueVars
<1>2. Counted'
  BY <1>1, BaseParts, NumbersTyped DEF Counted, Die, shareVars, Numbers
<1>3. Recorded'
  BY <1>1, BaseParts DEF Recorded, Die
<1> QED BY <1>2, <1>3, SteadyBase DEF Die, Shorter

\* The mark of one deal.
LEMMA MarkTyped ==
  ASSUME Base, NEW d \in Closing, NEW low, MarkPush(d, low)
  PROVE  /\ judged' \in Seq(Origins) /\ Len(judged') = Len(judged)
         /\ \A e \in DOMAIN deals \ {d} : judged'[e] = judged[e]
         /\ judged'[d] \in {judged[d], LiveOrigin(d)} /\ (~ Undecided(d, low) => judged'[d] # "no")
         /\ (Undecided(d, low) => judged'[d] = judged[d])
         /\ audited' \subseteq audited \union {d} /\ audited \subseteq audited'
<1>1. judged \in Seq(Origins) /\ DOMAIN judged = DOMAIN deals /\ d \in DOMAIN judged
  BY PendingCloses DEF Base, TypeOK, DealsSound
<1>2. LiveOrigin(d) \in Origins /\ LiveOrigin(d) # "no"
  BY DEF LiveOrigin, Origins
<1> QED BY <1>1, <1>2 DEF MarkPush

\* The marks of a verdict.
LEMMA MarksTyped ==
  ASSUME Base, NEW first, NEW takes \in [Pending(first) -> Take], MarkJudged(Marks(takes))
  PROVE  /\ judged' \in Seq(Origins) /\ Len(judged') = Len(judged)
         /\ \A d \in DOMAIN deals :
              judged'[d] = IF d \in Pending(first) THEN Origin(d) ELSE judged[d]
         /\ \A d \in Closing : Origin(d) \in Origins \ {"no"}
<1>1. judged \in Seq(Origins) /\ DOMAIN judged = DOMAIN deals /\ Len(judged) \in Nat
  BY DEF Base, TypeOK, DealsSound
<1>2. \A d \in Closing : Origin(d) \in Origins \ {"no"}
  BY NumbersTyped DEF Numbers, Origin, Origins, Foreign
<1>3. judged' = [d \in DOMAIN judged |-> IF d \in Pending(first) THEN Origin(d) ELSE judged[d]]
  BY DEF MarkJudged, Marks
<1>4. Pending(first) \subseteq Closing
  BY PendingCloses
<1> HIDE DEF Origin
<1>5. judged' \in Seq(Origins) /\ Len(judged') = Len(judged)
  <2>1. \A d \in DOMAIN judged : judged[d] \in Origins /\ DOMAIN judged = 1 .. Len(judged)
    BY <1>1
  <2>2. judged' \in [1 .. Len(judged) -> Origins]
    BY <1>1, <1>2, <1>3, <1>4, <2>1
  <2> QED BY <1>1, <2>2
<1> QED BY <1>1, <1>2, <1>3, <1>5

\* What a verdict reports and logs are closes.
LEMMA AuditTyped ==
  ASSUME Base, NEW first, NEW takes \in [Pending(first) -> Take], Audit(takes)
  PROVE  /\ audited \subseteq audited' /\ audited' \subseteq Closing
         /\ External(takes) \subseteq Closing /\ External(takes) \subseteq Pending(first)
         /\ DOMAIN takes = Pending(first) /\ Pending(first) \subseteq Closing
         /\ Took(takes) \subseteq Pending(first) /\ Pending(first) \subseteq DOMAIN deals
<1>1. Took(takes) \subseteq Pending(first) /\ MayHaveTaken(takes) \subseteq Pending(first)
  BY FoundVolumes
<1>2. audited \subseteq Closing
  BY DEF Base, TypeOK
<1> QED BY <1>1, <1>2, PendingCloses DEF Audit, External

\* Nor does a verdict add anything else to the journal.
LEMMA VerdictTyped ==
  ASSUME Base, UNCHANGED venueVars, NEW first, NEW takes \in [Pending(first) -> Take], Audit(takes),
         covered' = covered \/ MarkTakes(takes),
         waiting' \union handled' \subseteq waiting \union handled \union Queued(takes)
  PROVE  Journalled'
<1>1. Closing' = Closing
  BY DEF venueVars, Closing
<1>2. /\ audited' \subseteq Closing /\ External(takes) \subseteq Closing
      /\ waiting \union handled \subseteq Closing /\ covered \subseteq Closing \X Closing
  BY AuditTyped DEF Base, TypeOK
<1>3. Queued(takes) \subseteq Closing
  BY <1>2 DEF Queued
<1>4. covered' \subseteq Closing \X Closing
  BY <1>2 DEF MarkTakes
<1>5. waiting' \union handled' \subseteq Closing
  BY <1>2, <1>3
<1> QED BY <1>1, <1>2, <1>4, <1>5 DEF Journalled

LEMMA CutBase ==
  ASSUME Base, NEW first, NEW takes \in [Pending(first) -> Take], CutJudgement(takes)
  PROVE  Base' /\ Pending(1)' \subseteq Pending(1)
<1>1. judged' = judged \/ MarkJudged(Marks(takes))
  BY DEF CutJudgement, MarkTakes
<1>2. judged' \in Seq(Origins) /\ Len(judged') = Len(judged)
  BY <1>1, MarksTyped DEF Base, TypeOK
<1>3. Journalled'
  BY VerdictTyped DEF CutJudgement
<1>4. Base'
  BY <1>2, <1>3, StopBase DEF CutJudgement, resumeVars
<1>5. \A d \in DOMAIN deals : judged'[d] = "no" => judged[d] = "no"
  BY <1>1, MarksTyped, PendingCloses
<1>6. Closing' = Closing /\ Closing \subseteq DOMAIN deals
  BY DEF CutJudgement, venueVars, Closing
<1> QED BY <1>4, <1>5, <1>6 DEF Pending

\* A verdict completed: its deals are judged, and nothing else of the history is.
LEMMA JudgedRecorded ==
  ASSUME Base, UNCHANGED venueVars, NEW first, NEW takes \in [Pending(first) -> Take],
         Audit(takes), MarkJudged(Marks(takes))
  PROVE  /\ judged' \in Seq(Origins) /\ Len(judged') = Len(deals')
         /\ audited' \union External(takes) \subseteq Closing' /\ Closing' = Closing
         /\ Pending(1)' = Pending(1) \ Pending(first)
<1>1. Closing' = Closing /\ deals' = deals /\ Closing \subseteq DOMAIN deals
  BY DEF venueVars, Closing
<1>2. /\ judged' \in Seq(Origins) /\ Len(judged') = Len(judged)
      /\ \A d \in DOMAIN deals :
              judged'[d] = IF d \in Pending(first) THEN Origin(d) ELSE judged[d]
      /\ \A d \in Closing : Origin(d) # "no"
  BY MarksTyped
<1>3. Len(judged) = Len(deals)
  BY DEF Base, TypeOK
<1>4. audited' \union External(takes) \subseteq Closing
  BY AuditTyped
<1>5. Pending(1)' = {d \in Closing : d >= 1 /\ judged'[d] = "no"}
  BY <1>1 DEF Pending
<1>6. Pending(1) = {d \in Closing : d >= 1 /\ judged[d] = "no"}
  BY DEF Pending
<1>7. Pending(first) \subseteq Closing
  BY PendingCloses
<1> HIDE DEF Origin
<1>8. Pending(1)' = Pending(1) \ Pending(first)
  BY <1>1, <1>2, <1>5, <1>6, <1>7
<1> QED BY <1>1, <1>2, <1>3, <1>4, <1>8

-----------------------------------------------------------------------------
(* The base of the invariant is kept *)

LEMMA LoseBase == ASSUME Base, Lose PROVE Base'
<1>1. UNCHANGED venueVars /\ Shorter /\ phase' # "down"
  BY DEF Lose, Shorter
<1>2. Counted' /\ Recorded'
  BY BaseParts DEF Lose, Counted, Recorded, Journalled, venueVars, shareVars, verdictVars,
                   resumeVars, memoryVars, Closing
<1> QED BY <1>1, <1>2, SteadyBase

LEMMA CrashBase == ASSUME Base, Crash PROVE Base'
<1>1. Journalled'
  BY DEF Crash, Base, TypeOK, Journalled, verdictVars, venueVars, Closing
<1> QED BY <1>1, StopBase DEF Crash, Base, TypeOK, verdictVars, resumeVars

LEMMA DropBase == ASSUME Base, DropPush PROVE Base'
<1>1. UNCHANGED venueVars /\ Shorter /\ phase' # "down"
  BY DEF DropPush, Shorter
<1>2. Head(wire) \in DOMAIN deals
  BY PendingCloses DEF DropPush, Base, WireSound
<1>3. Counted' /\ Recorded'
  BY <1>2, BaseParts DEF DropPush, Counted, Recorded, Journalled, venueVars, shareVars,
                         verdictVars, resumeVars, Closing
<1> QED BY <1>1, <1>3, SteadyBase

LEMMA ClearBase == ASSUME Base, PassClear \/ PassWatch PROVE Base'
<1>1. UNCHANGED venueVars /\ Shorter /\ phase' # "down"
  BY DEF PassClear, PassWatch, Judgeable, Shorter
<1>2. Counted' /\ Recorded'
  BY BaseParts DEF PassClear, PassWatch, Counted, Recorded, Journalled, venueVars, shareVars,
                   verdictVars, resumeVars, Closing
<1> QED BY <1>1, <1>2, SteadyBase

\* The venue's volume is a share of the run, after an operator resume.
LEMMA AcceptBase == ASSUME Base, PassAccept PROVE Base'
<1>1. UNCHANGED venueVars /\ Shorter /\ phase' # "down"
  BY DEF PassAccept, Judgeable, Shorter
<1>2. retired' \in 0 .. filled'
  <2>1. AtLeast0(Share - vol) \in 0 .. Share /\ Share \in Nat
    BY JournalTyped DEF AtLeast0
  <2>2. retired' = retired + AtLeast0(Share - vol) /\ filled' = filled
    BY DEF PassAccept
  <2> QED BY <2>1, <2>2, JournalTyped
<1>3. cover' \in Nat /\ cover' <= Len(deals')
  BY NumbersTyped DEF Numbers, PassAccept, venueVars
<1>4. Counted' /\ Recorded'
  BY <1>2, <1>3, BaseParts DEF PassAccept, Counted, Recorded, Journalled, venueVars, verdictVars,
                   resumeVars, Closing
<1> QED BY <1>1, <1>4, SteadyBase

LEMMA GoneAcceptedBase == ASSUME Base, PassGoneAccepted PROVE Base'
<1>1. UNCHANGED venueVars /\ Shorter /\ phase' # "down"
  BY DEF PassGoneAccepted, Shorter
<1>2. judged' \in Seq(Origins) /\ Len(judged') = Len(deals')
  <2>1. judged \in Seq(Origins) /\ Len(judged) = Len(deals) /\ deals' = deals
        /\ DOMAIN judged = 1 .. Len(judged) /\ Len(judged) \in Nat
    BY DEF Base, TypeOK, PassGoneAccepted, venueVars
  <2>2. \A d \in DOMAIN judged : judged[d] \in Origins
    BY <2>1
  <2>3. judged' = [d \in DOMAIN judged |-> IF d \in Pending(1) THEN "accepted" ELSE judged[d]]
    BY DEF PassGoneAccepted, MarkJudged
  <2>4. judged' \in [1 .. Len(judged) -> Origins]
    BY <2>1, <2>2, <2>3 DEF Origins
  <2> QED BY <2>1, <2>4
<1>3. Closing' = Closing /\ Closing \subseteq DOMAIN deals' /\ deals' = deals
  BY DEF PassGoneAccepted, venueVars, Closing
<1>4. Counted' /\ Recorded'
  BY <1>2, <1>3, BaseParts DEF PassGoneAccepted, Counted, Recorded, Journalled, resumeVars
<1> QED BY <1>1, <1>4, SteadyBase

\* What the stream books of a close is a volume, and what it retires is in the share.
LEMMA BookedTyped ==
  ASSUME Base, NEW d \in Closing
  PROVE  /\ LowNow \in Nat /\ Booked(d, LowNow) \in Nat /\ Booked(d, LowNow) <= deals[d].closed
         /\ TakeOf(d, LowNow) \in Nat
<1>1. unresolved \ seen \in SUBSET DOMAIN deals
  BY DEF Base, TypeOK
<1>2. ClosedBy(unresolved \ seen) \in Nat
  BY <1>1, DealsWeighed DEF Weighed
<1>3. LowNow \in Nat
  BY <1>2, NumbersTyped DEF Numbers, LowNow, AtLeast0
<1>4. TakeOf(d, LowNow) \in Nat /\ TakeOf(d, LowNow) <= deals[d].closed
  BY <1>3, TakeBounded
<1>5. deals[d].closed \in Nat /\ Share \in Nat
  BY NumbersTyped DEF Numbers
<1> QED BY <1>3, <1>4, <1>5 DEF Booked, Least

\* The pushed close is one of the deals, and the first of those that wait.
LEMMA HeadOfWire ==
  ASSUME Base, wire # <<>>
  PROVE  Head(wire) \in Closing /\ Head(wire) \in DOMAIN deals /\ Head(wire) \in Range(wire)
<1>1. wire \in Seq(Closing) /\ Head(wire) = wire[1] /\ 1 \in DOMAIN wire
  BY DEF Base, WireSound
<1> QED BY <1>1, PendingCloses DEF Range

\* Retiring a part of the share.
LEMMA RetireTyped ==
  ASSUME Base, NEW v \in Nat, retired' = retired + Least(v, Share), filled' = filled
  PROVE  /\ retired' \in 0 .. filled' /\ filled' \in Nat /\ Share' = Share - Least(v, Share)
         /\ Least(v, Share) \in Nat /\ Least(v, Share) <= v /\ Share' \in Nat
<1>1. /\ filled \in Nat /\ retired \in Nat /\ retired <= filled /\ Share = filled - retired
      /\ Share \in Nat
  BY NumbersTyped DEF Numbers
<1>2. Share' = filled' - retired'
  BY DEF Share
<1> QED BY <1>1, <1>2 DEF Least

LEMMA JudgePushBase ==
  ASSUME Base, TakePush, JudgePush(Head(wire), LowNow), wire' = Tail(wire)
  PROVE  Base'
<1> DEFINE d == Head(wire)
           b == Booked(d, LowNow)
<1>1. d \in Closing /\ d \in DOMAIN deals /\ wire # <<>> /\ phase = "up" /\ rows > 0
  BY HeadOfWire DEF TakePush
<1>2. b \in Nat
  BY <1>1, BookedTyped
<1>3. MarkPush(d, LowNow) /\ BookClose(d, b)
  BY DEF JudgePush
<1>4. UNCHANGED venueVars /\ Shorter /\ phase' # "down" /\ deals' = deals
  BY <1>1 DEF JudgePush, Shorter, venueVars
<1>5. judged' \in Seq(Origins) /\ Len(judged') = Len(judged) /\ audited' \subseteq audited \union {d}
  BY <1>1, <1>3, MarkTyped
<1>6. Closing' = Closing
  BY <1>4 DEF Closing
<1>7. PushReport(d, LowNow) \subseteq {d}
  BY DEF PushReport
<1> HIDE DEF d, b
<1>8. /\ filled' \in Nat /\ retired' \in 0 .. filled' /\ rows' \in Nat /\ book' \in Int
  <2>1. rows \in Nat /\ book \in Int /\ filled \in Nat /\ retired \in 0 .. filled
    BY DEF Base, TypeOK
  <2>2. book' \in Int
    BY <1>2, <1>3, <2>1 DEF BookClose
  <2>3. CASE deals[d].after = 0
    BY <1>3, <2>1, <2>2, <2>3 DEF BookClose
  <2>4. CASE deals[d].after # 0
    <3>1. retired' = retired + Least(b, Share) /\ filled' = filled /\ rows' = rows
      BY <1>3, <2>4 DEF BookClose
    <3> QED BY <1>2, <2>1, <2>2, <3>1, RetireTyped
  <2> QED BY <2>3, <2>4
<1>9. Counted'
  BY <1>4, <1>8, BaseParts DEF Counted, JudgePush
<1>10. /\ handled' = handled \union PushReport(d, LowNow) /\ waiting' = waiting
       /\ covered' = covered /\ accepted' = accepted
  BY DEF JudgePush, d, resumeVars
<1>11. seen' = seen \union {d} /\ unresolved' = unresolved \ {d}
  BY DEF JudgePush, d
<1>12. Recorded'
  BY <1>1, <1>4, <1>5, <1>6, <1>7, <1>10, <1>11, BaseParts DEF Recorded, Journalled
<1> QED BY <1>4, <1>9, <1>12, SteadyBase

LEMMA CutPushBase ==
  ASSUME Base, NEW d \in Closing, NEW low, CutPush(d, low)
  PROVE  Base' /\ Pending(1)' \subseteq Pending(1)
<1>1. UNCHANGED <<judged, audited>> \/ MarkPush(d, low)
  BY DEF CutPush
<1>2. /\ judged' \in Seq(Origins) /\ Len(judged') = Len(judged) /\ audited' \subseteq audited \union {d}
      /\ \A e \in DOMAIN deals : judged'[e] = "no" => judged[e] = "no"
  <2>1. CASE UNCHANGED <<judged, audited>>
    BY <2>1, BaseParts DEF Recorded
  <2>2. CASE MarkPush(d, low)
    BY <2>2, MarkTyped
  <2> QED BY <1>1, <2>1, <2>2
<1>3. Journalled'
  <2>1. PushReport(d, low) \subseteq {d}
    BY DEF PushReport
  <2>2. /\ waiting' = waiting \union PushReport(d, low) /\ handled' = handled /\ covered' = covered
        /\ Closing' = Closing
    BY DEF CutPush, venueVars, Closing
  <2> QED BY <1>2, <2>1, <2>2, BaseParts DEF Recorded, Journalled
<1>4. Base'
  BY <1>2, <1>3, StopBase DEF CutPush, resumeVars
<1>5. Closing' = Closing /\ Closing \subseteq DOMAIN deals
  BY DEF CutPush, venueVars, Closing
<1> QED BY <1>2, <1>4, <1>5 DEF Pending

\* What a verdict leaves of the journal.
LEMMA JudgeBase ==
  ASSUME Base, UNCHANGED venueVars, Shorter, phase' = "up", NEW first,
         NEW takes \in [Pending(first) -> Take], JudgeRecovered(takes), Counted',
         accepted' = accepted, seen' \union unresolved' \subseteq DOMAIN deals
  PROVE  Base'
<1>1. Audit(takes) /\ MarkTakes(takes) /\ MarkJudged(Marks(takes))
  BY DEF JudgeRecovered, MarkTakes
<1>2. judged' \in Seq(Origins) /\ Len(judged') = Len(deals') /\ Closing' = Closing
  BY <1>1, JudgedRecorded
<1>4. Journalled'
  BY <1>1, VerdictTyped DEF JudgeRecovered
<1>3. Recorded'
  BY <1>2, <1>4, BaseParts DEF Recorded, venueVars
<1> QED BY <1>3, SteadyBase

LEMMA PassStartupBase ==
  ASSUME Sound, PassStartup
  PROVE  Base'
<1>1. PICK takes \in {ReplayShareCloses(1, Share + shrink, seen)} :
     \/ /\ JudgeRecovered(takes)
        /\ shrink' = 0 /\ cover' = Len(deals)
        /\ retired' = retired + Least(AtLeast0(Taken(takes) - shrink), Share)
        /\ unresolved' = unresolved \ DOMAIN takes
        /\ UNCHANGED <<venueVars, wire, rows, filled, resumeVars, phase, seen, watch, tried, marked,
                       book, boundVars>>
     \/ CutJudgement(takes)
  BY Zenon DEF PassStartup
<1>2. Base /\ takes \in [Pending(1) -> Take] /\ phase = "up"
  <2>1. Share + shrink \in Nat
    BY NumbersTyped DEF Numbers, Sound
  <2> QED BY <2>1, FoundTyped DEF Sound, PassStartup, Judgeable
<1>3. Taken(takes) \in Nat
  BY <1>2, FoundVolumes
<1>4. CASE CutJudgement(takes)
  BY <1>2, <1>4, CutBase
<1>5. CASE ~ CutJudgement(takes)
  <2>1. Counted'
    <3>1. retired' \in 0 .. filled'
      <4>1. AtLeast0(Taken(takes) - shrink) \in Nat
        BY <1>2, <1>3, JournalTyped DEF AtLeast0
      <4>2. /\ retired' = retired + Least(AtLeast0(Taken(takes) - shrink), Share)
            /\ filled' = filled
        BY <1>1, <1>5
      <4> QED BY <1>2, <4>1, <4>2, RetireTyped
    <3>2. cover' \in Nat /\ cover' <= Len(deals')
      BY <1>1, <1>2, <1>5, NumbersTyped DEF Numbers, venueVars
    <3> QED BY <1>1, <1>2, <1>5, <3>1, <3>2, BaseParts DEF Counted
  <2>2. seen' \union unresolved' \subseteq DOMAIN deals
    BY <1>1, <1>2, <1>5, BaseParts DEF Recorded
  <2> QED BY <1>1, <1>2, <1>5, <2>1, <2>2, JudgeBase DEF resumeVars, Shorter
<1> QED BY <1>4, <1>5

LEMMA PassJudgeBase ==
  ASSUME Sound, PassJudge
  PROVE  Base'
<1>1. PICK takes \in {ReplayShareCloses(1, Share, seen)} :
     \/ /\ JudgeRecovered(takes)
        /\ book' = book - TakenBy(takes, Took(takes) \ seen)
        /\ seen' = seen \union Took(takes)
        /\ tried' = tried \union {Shortfall} /\ watch' = NoShortfall /\ cover' = Len(deals)
        /\ retired' = retired + Least(Most(Share - vol, Taken(takes)), Share)
        /\ unresolved' = unresolved \ DOMAIN takes
        /\ UNCHANGED <<venueVars, wire, rows, filled, shrink, resumeVars, phase, marked, boundVars>>
     \/ CutJudgement(takes)
  BY Zenon DEF PassJudge
<1>2. Base /\ takes \in [Pending(1) -> Take] /\ phase = "up"
  BY NumbersTyped, FoundTyped DEF Numbers, Sound, PassJudge, Judgeable
<1>3. /\ Taken(takes) \in Nat /\ TakenBy(takes, Took(takes) \ seen) \in Nat
      /\ Took(takes) \subseteq DOMAIN deals
  BY <1>2, FoundVolumes, PendingCloses
<1>4. CASE CutJudgement(takes)
  BY <1>2, <1>4, CutBase
<1>5. CASE ~ CutJudgement(takes)
  <2>1. Counted'
    <3> DEFINE v == Most(Share - vol, Taken(takes))
    <3>3. v \in Nat
      BY <1>2, <1>3, NumbersTyped DEF Numbers, Most
    <3>4. retired' = retired + Least(v, Share) /\ filled' = filled
      BY <1>1, <1>5
    <3> HIDE DEF v
    <3>5. retired' \in 0 .. filled'
      BY <1>2, <3>3, <3>4, RetireTyped
    <3>6. book' \in Int
      BY <1>1, <1>2, <1>3, <1>5, NumbersTyped DEF Numbers
    <3>1. retired' \in 0 .. filled' /\ book' \in Int
      BY <3>5, <3>6
    <3>2. cover' \in Nat /\ cover' <= Len(deals')
      BY <1>1, <1>2, <1>5, NumbersTyped DEF Numbers, venueVars
    <3> QED BY <1>1, <1>2, <1>5, <3>1, <3>2, BaseParts DEF Counted
  <2>2. seen' \union unresolved' \subseteq DOMAIN deals
    BY <1>1, <1>2, <1>3, <1>5, BaseParts DEF Recorded
  <2> QED BY <1>1, <1>2, <1>5, <2>1, <2>2, JudgeBase DEF resumeVars, Shorter
<1> QED BY <1>4, <1>5

LEMMA PassUnsharedBase ==
  ASSUME Sound, PassUnshared
  PROVE  Base'
<1> DEFINE share == (IF rows > 0 THEN Share ELSE 0) + shrink
<1>1. PICK takes \in {ReplayShareCloses(1, share, seen)} :
     \/ /\ JudgeRecovered(takes)
        /\ shrink' = 0 /\ cover' = Len(deals)
        /\ unresolved' = unresolved \ DOMAIN takes
        /\ UNCHANGED <<venueVars, wire, shareVars, resumeVars, phase, seen, watch, tried,
                       marked, book, boundVars>>
     \/ CutJudgement(takes)
  BY Zenon DEF PassUnshared
<1>2. Base /\ takes \in [Pending(1) -> Take] /\ phase = "up"
  <2>1. share \in Nat
    BY NumbersTyped DEF Numbers, Sound
  <2> HIDE DEF share
  <2> QED BY <1>1, <2>1, FoundTyped DEF Sound, PassUnshared
<1>4. CASE CutJudgement(takes)
  BY <1>2, <1>4, CutBase
<1>5. CASE ~ CutJudgement(takes)
  <2>1. Counted'
    <3>2. cover' \in Nat /\ cover' <= Len(deals')
      BY <1>1, <1>2, <1>5, NumbersTyped DEF Numbers, venueVars
    <3> QED BY <1>1, <1>2, <1>5, <3>2, BaseParts DEF Counted, shareVars
  <2>2. seen' \union unresolved' \subseteq DOMAIN deals
    BY <1>1, <1>2, <1>5, BaseParts DEF Recorded
  <2> QED BY <1>1, <1>2, <1>5, <2>1, <2>2, JudgeBase DEF resumeVars, Shorter
<1> QED BY <1>4, <1>5

LEMMA PassGoneBase ==
  ASSUME Sound, PassGone
  PROVE  Base'
<1> DEFINE more == seen \union {FirstEntry}
<1>1. PICK takes \in {ReplayShareCloses(FirstEntry, Share, more)} :
     \/ /\ JudgeRecovered(takes)
        /\ book' = book - TakenBy(takes, Took(takes) \ seen)
        /\ seen' = seen \union Closing
        /\ rows' = 0
        /\ unresolved' = unresolved \ DOMAIN takes
        /\ UNCHANGED <<venueVars, wire, filled, retired, shrink, resumeVars, phase, watch, tried,
                       cover, marked, boundVars>>
     \/ CutJudgement(takes)
  BY Zenon DEF PassGone
<1>2. Base /\ takes \in [Pending(FirstEntry) -> Take] /\ phase = "up"
  <2>1. Share \in Nat
    BY NumbersTyped DEF Numbers, Sound
  <2> HIDE DEF more
  <2> QED BY <1>1, <2>1, FoundTyped DEF Sound, PassGone
<1>3. TakenBy(takes, Took(takes) \ seen) \in Nat /\ Closing \subseteq DOMAIN deals
  BY <1>2, FoundVolumes, PendingCloses
<1>4. CASE CutJudgement(takes)
  BY <1>2, <1>4, CutBase
<1>5. CASE ~ CutJudgement(takes)
  <2>1. Counted'
    <3>1. book' \in Int
      BY <1>1, <1>2, <1>3, <1>5, NumbersTyped DEF Numbers
    <3> QED BY <1>1, <1>2, <1>5, <3>1, BaseParts DEF Counted, venueVars
  <2>2. seen' \union unresolved' \subseteq DOMAIN deals
    BY <1>1, <1>2, <1>3, <1>5, BaseParts DEF Recorded
  <2> QED BY <1>1, <1>2, <1>5, <2>1, <2>2, JudgeBase DEF resumeVars, Shorter
<1> QED BY <1>4, <1>5

\* The start-up baseline retires no more than the share.
LEMMA BaselineTyped ==
  ASSUME Base
  PROVE  Baseline \in Nat /\ Baseline <= Share /\ (vol >= Share => Baseline = 0)
         /\ (Share > vol => Share - Baseline >= vol)
<1>1. Share \in Nat /\ vol \in Nat
  BY JournalTyped
<1> QED BY <1>1 DEF Baseline, AtLeast0

\* What a start leaves of the journal.
LEMMA StartBase ==
  ASSUME Base, NEW reports, Began(reports), Counted', judged' \in Seq(Origins),
         Len(judged') = Len(judged), Journalled', accepted' \subseteq Closing,
         seen' \subseteq DOMAIN deals
  PROVE  Base'
<1>1. UNCHANGED venueVars /\ Shorter /\ phase' = "up" /\ unresolved' = unresolved
  BY DEF Began, Shorter
<1>2. Closing' = Closing /\ deals' = deals
  BY <1>1 DEF Closing, venueVars
<1>3. Recorded'
  BY <1>1, <1>2, BaseParts DEF Recorded
<1> QED BY <1>1, <1>3, SteadyBase

\* What a start reads of an earlier process's reports, and what it keeps of the journal.
LEMMA BeganTyped ==
  ASSUME Base, NEW reports, Began(reports)
  PROVE  /\ phase' = "up" /\ filled' = filled /\ cover' = cover /\ Len(deals') = Len(deals)
         /\ UNCHANGED venueVars /\ Unhandled \subseteq Closing
         /\ waiting' \union handled' = waiting \union handled \union reports
         /\ reports = {} /\ UNCHANGED <<audited, covered>> => Journalled'
BY BaseParts DEF Began, venueVars, Unhandled, Recorded, Journalled, Closing

LEMMA StartsBase ==
  ASSUME Sound, Start
  PROVE  Base'
<1>b. Base /\ Counted /\ Recorded /\ Baseline \in Nat /\ Baseline <= Share
  BY BaseParts, BaselineTyped DEF Sound
<1>n. /\ filled \in Nat /\ retired \in Nat /\ retired <= filled /\ Share = filled - retired
      /\ rows \in Nat /\ shrink \in Nat
  BY <1>b, NumbersTyped DEF Numbers
<1>1. CASE Restart
  <2>s. Began({}) /\ UNCHANGED <<audited, covered>>
    BY <1>1 DEF Restart
  <2>1. retired' = retired + Baseline /\ shrink' = shrink + Baseline /\ rows' = rows
        /\ (book' = filled - retired' \/ book' = 0)
    BY <1>1 DEF Restart
  <2>2. Counted'
    BY <1>b, <1>n, <2>s, <2>1, BeganTyped DEF Counted
  <2>3. Journalled' /\ judged' = judged /\ accepted' = accepted /\ seen' = seen
    BY <1>1, <1>b, <2>s, BeganTyped DEF Restart, resumeVars
  <2> QED BY <1>b, <2>s, <2>2, <2>3, StartBase DEF Recorded
<1>2. CASE ResumedRestart
  <2>s. Began({}) /\ UNCHANGED <<audited, covered>>
    BY <1>2 DEF ResumedRestart
  <2>1. retired' = retired + Baseline /\ shrink' = 0 /\ rows' = rows /\ book' = filled - retired'
    BY <1>2 DEF ResumedRestart
  <2>2. Counted'
    BY <1>b, <1>n, <2>s, <2>1, BeganTyped DEF Counted
  <2>3. /\ Journalled' /\ Unhandled \subseteq Closing
        /\ judged' = judged /\ accepted' = accepted \union Unhandled /\ seen' = seen
    BY <1>2, <1>b, <2>s, BeganTyped DEF ResumedRestart
  <2> QED BY <1>b, <2>s, <2>2, <2>3, StartBase DEF Recorded
<1>3. CASE RestartUnread
  <2>s. Began({}) /\ UNCHANGED <<audited, covered>>
    BY <1>3 DEF RestartUnread
  <2>1. retired' = retired /\ shrink' = shrink /\ rows' = rows /\ book' = Share
    BY <1>3 DEF RestartUnread
  <2>2. Counted'
    BY <1>b, <1>n, <2>s, <2>1, BeganTyped DEF Counted
  <2>3. Journalled' /\ judged' = judged /\ accepted' = accepted /\ seen' = seen
    BY <1>3, <1>b, <2>s, BeganTyped DEF RestartUnread, resumeVars
  <2> QED BY <1>b, <2>s, <2>2, <2>3, StartBase DEF Recorded
<1>4. CASE RestartGone
  <2>1. PICK takes : /\ takes = ReplayShareCloses(FirstEntry, Share, {FirstEntry})
                     /\ \/ Began(Queued(takes)) /\ Audit(takes) /\ MarkTakes(takes) /\ Retire
                        \/ CutJudgement(takes)
                        \/ Began({}) /\ Retire /\ UNCHANGED <<judged, audited, covered>>
    BY <1>4 DEF RestartGone
  <2>2. takes \in [Pending(FirstEntry) -> Take]
    <3>1. Share \in Nat
      BY <1>n
    <3> QED BY <1>b, <2>1, <3>1, FoundTyped DEF Sound
  <2>3. ASSUME NEW reports, Began(reports), Retire, judged' \in Seq(Origins),
               Len(judged') = Len(judged), Journalled'
        PROVE  Base'
    <3>1. retired' = retired /\ shrink' = shrink /\ rows' = 0 /\ book' = 0 /\ seen' = Closing
          /\ accepted' = accepted
      BY <2>3 DEF Retire, resumeVars
    <3>2. Counted'
      BY <1>b, <1>n, <2>3, <3>1, BeganTyped DEF Counted
    <3>3. Closing \subseteq DOMAIN deals
      BY DEF Closing
    <3> QED BY <1>b, <2>3, <3>1, <3>2, <3>3, StartBase DEF Recorded
  <2>4. CASE CutJudgement(takes)
    BY <1>b, <2>2, <2>4, CutBase
  <2>5. CASE Began({}) /\ Retire /\ UNCHANGED <<judged, audited, covered>>
    BY <1>b, <2>3, <2>5, BeganTyped DEF Recorded
  <2>6. CASE Began(Queued(takes)) /\ Audit(takes) /\ MarkTakes(takes) /\ Retire
    <3>1. judged' \in Seq(Origins) /\ Len(judged') = Len(judged)
      BY <1>b, <2>2, <2>6, MarksTyped DEF MarkTakes
    <3>2. UNCHANGED venueVars
          /\ waiting' \union handled' \subseteq waiting \union handled \union Queued(takes)
      BY <1>b, <2>6, BeganTyped
    <3>3. Journalled'
      BY <1>b, <2>2, <2>6, <3>2, VerdictTyped
    <3> QED BY <2>3, <2>6, <3>1, <3>3
  <2> QED BY <2>1, <2>4, <2>5, <2>6
<1>5. CASE RestartGoneAccepted
  <2>s. Began({}) /\ UNCHANGED <<audited, covered>>
    BY <1>5 DEF RestartGoneAccepted
  <2>1. retired' = retired /\ shrink' = 0 /\ rows' = 0 /\ book' = 0
    BY <1>5 DEF RestartGoneAccepted
  <2>2. Counted'
    BY <1>b, <1>n, <2>s, <2>1, BeganTyped DEF Counted
  <2>3. /\ Journalled' /\ Unhandled \subseteq Closing
        /\ judged' = judged /\ accepted' = accepted \union Unhandled /\ seen' = seen
    BY <1>5, <1>b, <2>s, BeganTyped DEF RestartGoneAccepted
  <2> QED BY <1>b, <2>s, <2>2, <2>3, StartBase DEF Recorded
<1> QED BY <1>1, <1>2, <1>3, <1>4, <1>5 DEF Start

\* A step that leaves everything as it is.
LEMMA StutterBase ==
  ASSUME Base, UNCHANGED vars
  PROVE  Base'
<1>1. UNCHANGED venueVars /\ Shorter
  BY DEF vars, Shorter
<1>2. Counted' /\ Recorded' /\ (phase' = "down" => wire' = <<>> /\ unresolved' = {})
  BY BaseParts DEF Counted, Recorded, Journalled, vars, venueVars, shareVars, verdictVars,
                   resumeVars, memoryVars, Closing, Base, WireSound
<1> QED BY <1>1, <1>2, SteadyBase

\* The steps of the venue, and the others.
LEMMA DealOrNot ==
  ASSUME Base, [Next]_vars
  PROVE  (\E deal : Happens(deal)) \/ UNCHANGED venueVars
<1>1. Venue \/ OwnClose \/ OwnEntry => \E deal : Happens(deal)
  BY ForeignHappens, OthersHappen, OwnCloseHappens, OwnEntryHappens DEF Venue
<1>2. Lose \/ Crash \/ Stream \/ Start \/ UNCHANGED vars => UNCHANGED venueVars
  BY DEF Lose, Crash, Stream, DropPush, TakePush, JudgePush, CutPush, Start, Restart,
         ResumedRestart, RestartUnread, RestartGone, RestartGoneAccepted, Began, CutJudgement, vars
<1>3. Pass => UNCHANGED venueVars
  BY Zenon DEF Pass, PassClear, PassAccept, PassStartup, PassWatch, PassJudge, PassUnshared, PassGone,
         PassGoneAccepted, CutJudgement
<1> QED BY <1>1, <1>2, <1>3 DEF Next

LEMMA NextSound ==
  ASSUME Sound, [Next]_vars
  PROVE  Sound'
<1>b. Base /\ ReplaySound
  BY DEF Sound
<1>1. CASE \E deal : Happens(deal)
  <2>1. PICK deal : Happens(deal)
    BY <1>1
  <2>2. Base'
    BY <1>b, <2>1, HappensBase
  <2>3. ReplaySound'
    BY <2>1, <2>2, ExecuteReplay DEF Happens
  <2> QED BY <2>2, <2>3 DEF Sound
<1>2. CASE ~ \E deal : Happens(deal)
  <2>1. UNCHANGED venueVars
    BY <1>b, <1>2, DealOrNot
  <2>2. ~ (Venue \/ OwnClose \/ OwnEntry)
    BY <1>b, <1>2, ForeignHappens, OthersHappen, OwnCloseHappens, OwnEntryHappens DEF Venue
  <2>3. Stream => Base'
    <3>1. DropPush => Base'
      BY <1>b, DropBase
    <3>2. TakePush => Base'
      BY <1>b, JudgePushBase, CutPushBase, HeadOfWire DEF TakePush
    <3> QED BY <3>1, <3>2 DEF Stream
  <2>4. Pass => Base'
    BY <1>b, ClearBase, AcceptBase, PassStartupBase, PassJudgeBase, PassUnsharedBase, PassGoneBase,
       GoneAcceptedBase DEF Pass
  <2>5. Base'
    BY <1>b, <2>2, <2>3, <2>4, LoseBase, CrashBase, StartsBase, StutterBase DEF Next
  <2>6. ReplaySound'
    BY <1>b, <2>1, <2>5, SteadyReplay
  <2> QED BY <2>5, <2>6 DEF Sound
<1> QED BY <1>1, <1>2

\* Every state is typed, its history replays to the run's true share, and the wire holds
\* the closes in their order.
LEMMA AlwaysSound == Spec => []Sound
<1>1. Init => Sound
  BY InitBase, InitReplay DEF Sound
<1>2. Sound /\ [Next]_vars => Sound'
  BY NextSound
<1> QED BY <1>1, <1>2, PTL DEF Spec

\* The types hold for every volume and every bound: the share of the run never exceeds
\* the position, what is retired never exceeds what was filled, and only closes of the
\* history are judged, reported, logged or accepted.
THEOREM TypeCorrect == Spec => []TypeOK
<1>1. Sound => TypeOK
  BY DEF Sound, Base
<1> QED BY <1>1, AlwaysSound, PTL

\* Replaying a position's whole history meets the true share before every close, whoever
\* made it: the share a pass judges from is the one that was there.
THEOREM HistoryReplaysTrue == Spec => []ReplaySound
<1>1. Sound => ReplaySound
  BY DEF Sound
<1> QED BY <1>1, AlwaysSound, PTL

-----------------------------------------------------------------------------
(* What the journal and the engine owe to the closes *)

\* What the closes to be judged took of the share, those on their way, those of them
\* not delivered yet, and those on their way before a deal; what own closes not seen close.
Owed == TookBy(Pending(1))
Coming == TookBy(Arriving)
Undelivered == TookBy(Pending(1) \ seen)
ComingBefore(d) == TookBy({e \in Arriving : e < d})
Missed == ClosedBy(unresolved)

LEMMA ArrivingCloses ==
  ASSUME Base
  PROVE  Arriving \subseteq Closing /\ Arriving \subseteq DOMAIN deals
BY PendingCloses DEF Base, WireSound, Arriving, Range

OwedNumbers ==
  /\ Owed \in Nat /\ Coming \in Nat /\ Undelivered \in Nat /\ Missed \in Nat
  /\ \A d : ComingBefore(d) \in Nat

LEMMA OwedCounted ==
  ASSUME Base
  PROVE  OwedNumbers
<1>1. /\ Pending(1) \in SUBSET DOMAIN deals /\ Arriving \in SUBSET DOMAIN deals
      /\ Pending(1) \ seen \in SUBSET DOMAIN deals /\ unresolved \in SUBSET DOMAIN deals
      /\ \A d : {e \in Arriving : e < d} \in SUBSET DOMAIN deals
  BY PendingCloses, ArrivingCloses DEF Base, TypeOK
<1> QED BY <1>1, DealsWeighed DEF Weighed, OwedNumbers, Owed, Coming, Undelivered, ComingBefore,
                                  Missed

LEMMA OwedTyped ==
  ASSUME Base
  PROVE  /\ Owed \in Nat /\ Coming \in Nat /\ Undelivered \in Nat /\ Missed \in Nat
         /\ \A d : ComingBefore(d) \in Nat
BY OwedCounted DEF OwedNumbers

\* The sums in the form a step needs them.
Splits ==
  \A U \in SUBSET DOMAIN deals : \A d \in U :
    /\ ClosedBy(U) = ClosedBy(U \ {d}) + deals[d].closed
    /\ TookBy(U) = TookBy(U \ {d}) + deals[d].took

LEMMA SplitsBase == Base => Splits
BY VolumesSplit DEF Splits

LEMMA NextSplits == Base' => Splits'
BY SplitsBase, PTL

\* With the history as it was, the sums are what they were.
LEMMA SteadyVolumes ==
  ASSUME UNCHANGED venueVars
  PROVE  /\ \A X : TookBy(X)' = TookBy(X) /\ ClosedBy(X)' = ClosedBy(X) /\ OpenedBy(X)' = OpenedBy(X)
         /\ Closing' = Closing /\ OwnEntries' = OwnEntries /\ deals' = deals
         /\ vol' = vol /\ mine' = mine
<1>1. deals' = deals /\ vol' = vol /\ mine' = mine
  BY DEF venueVars
<1> QED BY <1>1 DEF TookBy, ClosedBy, OpenedBy, Closing, OwnEntries

\* What is known of an undisturbed run that is live.
LEMMA LiveFacts ==
  ASSUME Base, PendingSound, OwnSound, Live
  PROVE  /\ unresolved \subseteq OwnPending /\ unresolved \intersect seen = {}
         /\ unresolved \subseteq Closing /\ unresolved \subseteq Pending(1)
         /\ \A d \in unresolved : d > cover
         /\ Arriving \subseteq Pending(1)
         /\ \A d \in Arriving : deals[d].by = "own" <=> d \in unresolved
         /\ \A d \in Closing : deals[d].by = "own" => deals[d].took = deals[d].closed
         /\ LowNow = AtLeast0(Share - Missed)
         /\ ~ excused /\ ~ marked /\ rows > 0
  \* A close waited for is an own one: it is unresolved if it is on its way.
<1>1. /\ unresolved \subseteq OwnPending /\ unresolved \intersect seen = {} /\ ~ marked
      /\ Arriving \subseteq Pending(1) /\ \A d \in Arriving : deals[d].by = "own" => d \in unresolved
      /\ ~ excused /\ rows > 0 /\ \A d \in unresolved : d > cover
  BY DEF PendingSound, Live, Undisturbed
<1>2. unresolved \ seen = unresolved
  BY <1>1
<1>3. LowNow = AtLeast0(Share - Missed)
  BY <1>2, Zenon DEF LowNow, Missed
<1>4. \A d \in Closing : deals[d].by = "own" => deals[d].took = deals[d].closed
  BY DEF OwnSound, Live
<1>5. unresolved \subseteq Pending(1) /\ \A d \in unresolved : deals[d].by = "own"
  BY <1>1 DEF OwnPending
<1>6. unresolved \subseteq Closing
  BY <1>5, PendingCloses
<1> QED BY <1>1, <1>3, <1>4, <1>5, <1>6

-----------------------------------------------------------------------------
(* A further deal keeps the journal in balance *)

LEMMA HappensFacts ==
  ASSUME Base, Base', NEW deal, Happens(deal), NEW n, n = Len(deals)
  PROVE  /\ Closing' = Closing \union (IF deal.closed > 0 THEN {n + 1} ELSE {})
         /\ Pending(1)' = Pending(1) \union (IF deal.closed > 0 THEN {n + 1} ELSE {})
         /\ Arriving' = Arriving \union (IF deal.closed > 0 /\ phase = "up" THEN {n + 1} ELSE {})
         /\ deals'[n + 1] = deal /\ \A d \in DOMAIN deals : deals'[d] = deals[d]
         /\ DOMAIN deals = 1 .. n /\ DOMAIN deals' = 1 .. n + 1 /\ n \in Nat
         /\ \A X \in SUBSET DOMAIN deals :
              /\ TookBy(X)' = TookBy(X) /\ ClosedBy(X)' = ClosedBy(X)
              /\ TookBy(X \union {n + 1})' = TookBy(X) + deal.took
              /\ ClosedBy(X \union {n + 1})' = ClosedBy(X) + deal.closed
<1>1. Tradable(deal) /\ Execute(deal) /\ deal \in DealRecord
  BY DEF Happens, Tradable
<1>2. Appends(deal)
  BY <1>1, ExecuteTyped
<1>3. /\ deals'[n + 1] = deal /\ \A d \in DOMAIN deals : deals'[d] = deals[d]
      /\ DOMAIN deals = 1 .. n /\ DOMAIN deals' = 1 .. n + 1 /\ n \in Nat
  BY <1>2, Appended, NumbersTyped DEF Numbers
<1>4. /\ Closing' = Closing \union (IF deal.closed > 0 THEN {n + 1} ELSE {})
      /\ Pending(1)' = Pending(1) \union (IF deal.closed > 0 THEN {n + 1} ELSE {})
  BY <1>1, <1>2, AppendedSets
<1>5. ASSUME NEW X \in SUBSET DOMAIN deals
      PROVE  /\ TookBy(X)' = TookBy(X) /\ ClosedBy(X)' = ClosedBy(X)
             /\ TookBy(X \union {n + 1})' = TookBy(X) + deal.took
             /\ ClosedBy(X \union {n + 1})' = ClosedBy(X) + deal.closed
  <2>1. TookBy(X)' = TookBy(X) /\ ClosedBy(X)' = ClosedBy(X)
    BY <1>1, <1>2, AppendedVolumes
  <2> DEFINE U == X \union {n + 1}
  <2>2. U \in SUBSET DOMAIN deals' /\ n + 1 \in U /\ U \ {n + 1} = X
    BY <1>3
  <2> HIDE DEF U
  <2>3. /\ ClosedBy(U)' = ClosedBy(U \ {n + 1})' + deals'[n + 1].closed
        /\ TookBy(U)' = TookBy(U \ {n + 1})' + deals'[n + 1].took
    BY <2>2, NextSplits DEF Splits
  <2>4. ClosedBy(U \ {n + 1})' = ClosedBy(X)' /\ TookBy(U \ {n + 1})' = TookBy(X)'
    BY <2>2, Zenon
  <2> QED BY <1>3, <2>1, <2>3, <2>4 DEF U
<1>6. Arriving' = Arriving \union (IF deal.closed > 0 /\ phase = "up" THEN {n + 1} ELSE {})
  <2>w. wire \in Seq(Closing) /\ Closing \subseteq DOMAIN deals /\ seen \subseteq DOMAIN deals
        /\ cover <= n /\ cover \in Nat
    BY PendingCloses DEF Base, WireSound, TypeOK
  <2>1. ~ (n + 1 <= cover) /\ n + 1 \notin seen
    BY <1>3, <2>w
  <2>2. cover' = cover /\ (seen' = seen \/ (wire = <<>> /\ seen' = seen \union {n + 1}))
    BY DEF Happens
  <2>3. CASE deal.closed > 0 /\ phase = "up"
    <3>1. wire' = Append(wire, n + 1) /\ deal.by # "entry" /\ seen' = seen
      BY <1>1, <2>3 DEF Happens, Tradable
    <3>2. Range(wire') = Range(wire) \union {n + 1}
      <4>1. /\ Len(wire) \in Nat /\ DOMAIN wire = 1 .. Len(wire) /\ DOMAIN wire' = 1 .. Len(wire) + 1
            /\ wire'[Len(wire) + 1] = n + 1 /\ \A i \in DOMAIN wire : wire'[i] = wire[i]
        BY <2>w, <3>1
      <4> QED BY <4>1 DEF Range
    <3> QED BY <2>1, <2>2, <2>3, <3>1, <3>2 DEF Arriving, Late
  <2>4. CASE ~ (deal.closed > 0 /\ phase = "up")
    <3>1. wire' = wire
      BY <2>4 DEF Happens
    <3>2. CASE seen' = seen
      BY <2>2, <2>4, <3>1, <3>2 DEF Arriving, Late
    <3>3. CASE wire = <<>>
      <4>1. Range(wire) = {} /\ Range(wire') = {}
        BY <3>1, <3>3 DEF Range
      <4>2. Arriving = {} /\ Arriving' = {}
        BY <4>1 DEF Arriving
      <4> QED BY <2>4, <4>2
    <3> QED BY <2>2, <3>2, <3>3
  <2> QED BY <2>3, <2>4
<1> QED BY <1>3, <1>4, <1>5, <1>6

\* What a further deal adds to what is owed.
LEMMA HappensOwed ==
  ASSUME Base, Base', NEW deal, Happens(deal), NEW n, n = Len(deals)
  PROVE  /\ Owed' = Owed + deal.took /\ Undelivered' = Undelivered + deal.took
         /\ Coming' = IF phase = "up" THEN Coming + deal.took ELSE Coming
         /\ \A d \in 1 .. n : ComingBefore(d)' = ComingBefore(d)
         /\ ComingBefore(n + 1)' = Coming
         /\ Missed' = IF deal.by = "own" THEN Missed + deal.closed ELSE Missed
<1>1. /\ Pending(1)' = Pending(1) \union (IF deal.closed > 0 THEN {n + 1} ELSE {})
      /\ Arriving' = Arriving \union (IF deal.closed > 0 /\ phase = "up" THEN {n + 1} ELSE {})
      /\ DOMAIN deals = 1 .. n /\ n \in Nat
  BY HappensFacts
<1>v. \A X \in SUBSET DOMAIN deals :
        /\ TookBy(X)' = TookBy(X) /\ ClosedBy(X)' = ClosedBy(X)
        /\ TookBy(X \union {n + 1})' = TookBy(X) + deal.took
        /\ ClosedBy(X \union {n + 1})' = ClosedBy(X) + deal.closed
  BY HappensFacts
<1>2. deal.closed = 0 \/ deal.closed > 0
  BY DEF Happens, Tradable, DealRecord
<1>3. deal.closed = 0 => deal.took = 0
  BY DEF Happens, Tradable
<1>4. /\ deal.by = "entry" => deal.closed = 0
      /\ seen' = IF deal.by = "entry" THEN seen \union {n + 1} ELSE seen
      /\ unresolved' = IF deal.by = "own" THEN unresolved \union {n + 1} ELSE unresolved
      /\ seen \subseteq DOMAIN deals /\ unresolved \subseteq DOMAIN deals
  BY BaseParts DEF Happens, Tradable, Recorded
<1>n. Owed \in Nat /\ Coming \in Nat /\ Undelivered \in Nat /\ Missed \in Nat
  BY OwedTyped
<1>p. Pending(1) \in SUBSET DOMAIN deals /\ Arriving \in SUBSET DOMAIN deals
  BY PendingCloses, ArrivingCloses
<1>5. Owed' = Owed + deal.took
  <2>1. PICK P : P = Pending(1)
    OBVIOUS
  <2>2. CASE deal.closed > 0
    <3>1. Pending(1)' = P \union {n + 1}
      BY <1>1, <2>1, <2>2
    <3>2. TookBy(P \union {n + 1})' = TookBy(P) + deal.took
      BY <1>v, <1>p, <2>1
    <3> QED BY <2>1, <3>1, <3>2 DEF Owed
  <2>3. CASE deal.closed = 0
    <3>1. Pending(1)' = P
      BY <1>1, <2>1, <2>3
    <3>2. TookBy(P)' = TookBy(P)
      BY <1>v, <1>p, <2>1
    <3>3. Owed' = Owed
      BY <2>1, <3>1, <3>2 DEF Owed
    <3> QED BY <1>3, <1>n, <2>3, <3>3
  <2> QED BY <1>2, <2>2, <2>3
<1>6. Undelivered' = Undelivered + deal.took
  <2>1. PICK P : P = Pending(1) \ seen
    OBVIOUS
  <2>2. CASE deal.closed > 0
    <3>1. (Pending(1) \ seen)' = P \union {n + 1}
      BY <1>1, <1>4, <2>1, <2>2
    <3>2. TookBy(P \union {n + 1})' = TookBy(P) + deal.took
      BY <1>v, <1>p, <2>1
    <3> QED BY <2>1, <3>1, <3>2 DEF Undelivered
  <2>3. CASE deal.closed = 0
    <3>1. (Pending(1) \ seen)' = P
      BY <1>1, <1>4, <1>p, <2>1, <2>3
    <3>2. TookBy(P)' = TookBy(P)
      BY <1>v, <1>p, <2>1
    <3>3. Undelivered' = Undelivered
      BY <2>1, <3>1, <3>2 DEF Undelivered
    <3> QED BY <1>3, <1>n, <2>3, <3>3
  <2> QED BY <1>2, <2>2, <2>3
<1>7. Coming' = IF phase = "up" THEN Coming + deal.took ELSE Coming
  <2>1. PICK A : A = Arriving
    OBVIOUS
  <2>2. CASE deal.closed > 0 /\ phase = "up"
    <3>1. Arriving' = A \union {n + 1}
      BY <1>1, <2>1, <2>2
    <3>2. TookBy(A \union {n + 1})' = TookBy(A) + deal.took
      BY <1>v, <1>p, <2>1
    <3> QED BY <2>1, <2>2, <3>1, <3>2 DEF Coming
  <2>3. CASE ~ (deal.closed > 0 /\ phase = "up")
    <3>1. Arriving' = A
      BY <1>1, <2>1, <2>3
    <3>2. TookBy(A)' = TookBy(A)
      BY <1>v, <1>p, <2>1
    <3>3. Coming' = Coming
      BY <2>1, <3>1, <3>2 DEF Coming
    <3> QED BY <1>2, <1>3, <1>n, <2>3, <3>3
  <2> QED BY <2>2, <2>3
<1>8. ASSUME NEW d \in 1 .. n + 1
      PROVE  ComingBefore(d)' = ComingBefore(d) /\ (d = n + 1 => ComingBefore(d) = Coming)
  <2>1. PICK A : A = {e \in Arriving : e < d}
    OBVIOUS
  <2>2. {e \in Arriving' : e < d} = A
    BY <1>1, <2>1
  <2>3. TookBy(A)' = TookBy(A)
    BY <1>v, <1>p, <2>1
  <2>4. d = n + 1 => A = Arriving
    BY <1>1, <1>p, <2>1
  <2> QED BY <2>1, <2>2, <2>3, <2>4 DEF ComingBefore, Coming
<1>9. Missed' = IF deal.by = "own" THEN Missed + deal.closed ELSE Missed
  <2>1. PICK U : U = unresolved
    OBVIOUS
  <2>2. ClosedBy(U)' = ClosedBy(U) /\ ClosedBy(U \union {n + 1})' = ClosedBy(U) + deal.closed
    BY <1>v, <1>4, <2>1
  <2> QED BY <1>4, <2>1, <2>2 DEF Missed
<1>10. /\ \A d \in 1 .. n : ComingBefore(d)' = ComingBefore(d)
       /\ ComingBefore(n + 1)' = Coming
  <2>1. \A d \in 1 .. n : d \in 1 .. n + 1
    BY <1>1
  <2>2. n + 1 \in 1 .. n + 1
    BY <1>1
  <2>3. PICK k : k = n + 1
    OBVIOUS
  <2>4. ComingBefore(k)' = Coming
    BY <1>8, <2>2, <2>3
  <2> QED BY <1>8, <2>1, <2>3, <2>4
<1> QED BY <1>5, <1>6, <1>7, <1>9, <1>10

\* A run that is live and undisturbed was so before.
LEMMA HappensLive ==
  ASSUME Base, Base', NEW deal, Happens(deal)
  PROVE  /\ Undisturbed' => Undisturbed /\ (deal.by = "others" => Closing = {})
         /\ Live' => Live
         /\ deal.closed > 0 => Closing' # {}
<1> DEFINE n == Len(deals)
<1>1. /\ Closing' = Closing \union (IF deal.closed > 0 THEN {n + 1} ELSE {})
      /\ deals'[n + 1] = deal /\ \A d \in DOMAIN deals : deals'[d] = deals[d]
      /\ DOMAIN deals = 1 .. n /\ DOMAIN deals' = 1 .. n + 1 /\ n \in Nat
  BY HappensFacts
<1>2. Closing \subseteq DOMAIN deals
  BY PendingCloses
<1>3. excused' = excused /\ (rows' > 0 => rows > 0)
  BY DEF Happens, resumeVars
<1> HIDE DEF n
<1>4. ASSUME Undisturbed' PROVE Undisturbed
  <2>1. ~ excused
    BY <1>3, <1>4 DEF Undisturbed
  <2>2. ASSUME NEW d \in Closing, NEW e \in DOMAIN deals, deals[e].by = "others" PROVE e < d
    <3>1. d \in Closing' /\ e \in DOMAIN deals' /\ deals'[e].by = "others"
      BY <1>1, <2>2
    <3> QED BY <1>4, <3>1 DEF Undisturbed
  <2> QED BY <2>1, <2>2 DEF Undisturbed
<1>5. ASSUME Undisturbed', deal.by = "others" PROVE Closing = {}
  <2>1. ASSUME NEW d \in Closing PROVE FALSE
    <3>1. d \in Closing' /\ n + 1 \in DOMAIN deals' /\ deals'[n + 1].by = "others"
      BY <1>1, <1>5
    <3>2. n + 1 < d
      BY <1>5, <3>1 DEF Undisturbed
    <3> QED BY <1>1, <1>2, <3>2
  <2> QED BY <2>1
<1>6. deal.closed > 0 => Closing' # {}
  BY <1>1
<1> QED BY <1>3, <1>4, <1>5, <1>6 DEF Live

\* The parts of the invariant that a stop after an own close not seen would break.
Kept == PendingSound /\ OwnSound /\ ShareSound /\ BookSound /\ ArrivalSound

\* The parts of it about volumes, for a run that is live and undisturbed.
LEMMA KeptNumbers ==
  ASSUME Kept, Live
  PROVE  /\ Share + shrink >= mine + Owed /\ Share >= mine + Coming
         /\ mine < vol => shrink = 0 /\ Share <= mine + Missed
         /\ phase = "up" => book + shrink >= mine + Undelivered /\ book >= mine + Coming
         /\ Closing = {} => Share = mine /\ shrink = 0
         /\ \A d \in Arriving : deals[d].by \in Foreign =>
              /\ deals[d].took < deals[d].closed => Share <= deals[d].after + deals[d].took + Missed
              /\ deals[d].took > 0 => Share >= deals[d].after + deals[d].took + ComingBefore(d)
<1>1. Undisturbed /\ rows > 0
  BY DEF Live
<1> QED BY <1>1 DEF Kept, OwnSound, ShareSound, BookSound, ArrivalSound, Owed, Coming, Undelivered,
                    ComingBefore, Missed

\* What a further deal takes, and what it leaves.
LEMMA DealTakes ==
  ASSUME Base, NEW deal, Happens(deal)
  PROVE  /\ deal.closed \in Nat /\ deal.took \in Nat /\ deal.after \in Nat /\ deal.took <= deal.closed
         /\ vol' = deal.after
         /\ \/ /\ deal.by \in Foreign /\ deal.closed > 0
               /\ deal.took = AtLeast0(Least(deal.closed, mine - deal.after))
               /\ deal.after = vol - deal.closed /\ mine' = mine - deal.took
            \/ /\ deal.by = "own" /\ deal.closed > 0 /\ deal.took = Least(deal.closed, mine)
               /\ deal.after = vol - deal.closed /\ mine' = mine - deal.took
            \/ deal.by = "others" /\ deal.closed = 0 /\ deal.took = 0 /\ mine' = mine
            \/ /\ deal.by = "entry" /\ deal.closed = 0 /\ deal.took = 0 /\ mine' = mine + 1
               /\ vol' = vol + 1
<1>n. vol \in Nat /\ mine \in Nat
  BY NumbersTyped DEF Numbers
<1>1. /\ Tradable(deal) /\ deal \in DealRecord /\ deal.by \in Parties
      /\ vol' = deal.after
      /\ mine' = (IF deal.by = "entry" THEN mine + deal.opened ELSE mine) - deal.took
      /\ deal.closed = 0 \/ deal.opened = 0
      /\ deal.after = vol + deal.opened - deal.closed
      /\ deal.by = "entry" => deal.opened = 1
  BY DEF Happens, Tradable, Execute, DealRecord
<1>2. /\ deal.closed \in Nat /\ deal.took \in Nat /\ deal.after \in Nat /\ deal.opened \in Nat
      /\ deal.took <= deal.closed
  BY <1>1 DEF DealRecord, Tradable
<1>3. CASE deal.closed = 0
  <2>1. deal.took = 0 /\ deal.by \in {"others", "entry"}
    BY <1>1, <1>3 DEF Tradable
  <2>2. CASE deal.by = "others"
    BY <1>n, <1>1, <1>2, <1>3, <2>1, <2>2
  <2>3. CASE deal.by = "entry"
    BY <1>n, <1>1, <1>2, <1>3, <2>1, <2>3
  <2> QED BY <2>1, <2>2, <2>3
<1>4. CASE deal.closed # 0
  <2>1. deal.by \notin {"others", "entry"} /\ deal.by \in Foreign \union {"own"} /\ deal.closed > 0
    BY <1>1, <1>2, <1>4 DEF Tradable, Parties
  <2>2. deal.opened = 0 /\ deal.after = vol - deal.closed /\ mine' = mine - deal.took
    BY <1>n, <1>1, <1>2, <1>4, <2>1 DEF Happens
  <2>3. deal.took = IF deal.by = "own" THEN Least(deal.closed, mine)
                    ELSE AtLeast0(Least(deal.closed, mine - deal.after))
    BY <1>1, <1>4 DEF Tradable
  <2>4. deal.by \in Foreign => deal.by # "own"
    BY DEF Foreign
  <2> QED BY <1>1, <1>2, <2>1, <2>2, <2>3, <2>4
<1> QED BY <1>3, <1>4

\* The run closes its own share only.
LEMMA OwnTakesAll ==
  ASSUME Base, Kept, Undisturbed, NEW deal, Happens(deal), deal.by = "own"
  PROVE  deal.took = deal.closed
<1>1. Live /\ deal.closed <= LowNow
  BY DEF Happens, Live
<1>2. LowNow = AtLeast0(Share - Missed) /\ (mine < vol => Share <= mine + Missed)
  BY <1>1, LiveFacts, KeptNumbers DEF Kept
<1>3. deal.took = Least(deal.closed, mine) /\ deal.closed \in Nat /\ deal.closed > 0
  BY DealTakes DEF Foreign
<1>4. deal.closed <= vol
  BY DEF Happens
<1>n. vol \in Nat /\ mine \in Nat /\ mine <= vol /\ Share \in Nat /\ Missed \in Nat
  BY NumbersTyped, OwedTyped DEF Numbers
<1> DEFINE c == deal.closed
           low == LowNow
<1>5. c <= mine
  <2>1. c \in Nat /\ c > 0 /\ c <= vol /\ c <= low /\ low = AtLeast0(Share - Missed)
    BY <1>1, <1>2, <1>3, <1>4
  <2> HIDE DEF c, low
  <2>2. c <= Share - Missed
    BY <1>n, <2>1 DEF AtLeast0
  <2>3. mine < vol => Share <= mine + Missed
    BY <1>2
  <2> QED BY <1>n, <2>1, <2>2, <2>3
<1> QED BY <1>3, <1>5, <1>n DEF Least

LEMMA HappensPending ==
  ASSUME Base, Base', Kept, NEW deal, Happens(deal)
  PROVE  PendingSound' /\ OwnSound'
<1> DEFINE n == Len(deals)
<1>1. /\ Closing' = Closing \union (IF deal.closed > 0 THEN {n + 1} ELSE {})
      /\ Pending(1)' = Pending(1) \union (IF deal.closed > 0 THEN {n + 1} ELSE {})
      /\ Arriving' = Arriving \union (IF deal.closed > 0 /\ phase = "up" THEN {n + 1} ELSE {})
      /\ deals'[n + 1] = deal /\ \A d \in DOMAIN deals : deals'[d] = deals[d]
      /\ DOMAIN deals = 1 .. n /\ DOMAIN deals' = 1 .. n + 1 /\ n \in Nat
  BY HappensFacts
<1>2. /\ Closing \subseteq DOMAIN deals /\ Pending(1) \subseteq DOMAIN deals
      /\ Arriving \subseteq DOMAIN deals
      /\ unresolved \subseteq DOMAIN deals /\ seen \subseteq DOMAIN deals
      /\ cover \in Nat /\ cover <= n
  BY PendingCloses, ArrivingCloses, BaseParts DEF Recorded, Counted
<1>3. /\ excused' = excused /\ marked' = marked /\ cover' = cover
      /\ rows' > 0 => rows > 0
      /\ deal.by = "own" => phase = "up"
  BY DEF Happens, resumeVars
<1>4. /\ seen' = IF deal.by = "entry" THEN seen \union {n + 1} ELSE seen
      /\ unresolved' = IF deal.by = "own" THEN unresolved \union {n + 1} ELSE unresolved
      /\ deal.by = "own" => deal.closed > 0
  BY DealTakes DEF Happens, Foreign
<1> HIDE DEF n
<1>5. ASSUME ~ excused', rows' > 0
      PROVE  /\ unresolved' \subseteq OwnPending' /\ unresolved' \intersect seen' = {}
             /\ \A d \in unresolved' : d > cover'
             /\ Arriving' \subseteq Pending(1)'
             /\ \A d \in Arriving' : deals'[d].by = "own" => d \in unresolved'
  <2>1. /\ unresolved \subseteq OwnPending /\ unresolved \intersect seen = {}
        /\ \A d \in unresolved : d > cover
        /\ Arriving \subseteq Pending(1)
        /\ \A d \in Arriving : deals[d].by = "own" => d \in unresolved
    BY <1>3, <1>5 DEF Kept, PendingSound
  <2>2. ASSUME NEW d \in unresolved'
        PROVE  d \in OwnPending' /\ d \notin seen' /\ d > cover'
    <3>1. CASE d \in unresolved
      <4>1. d \in Pending(1) /\ deals[d].by = "own" /\ d \notin seen /\ d \in DOMAIN deals
        BY <1>2, <2>1, <3>1 DEF OwnPending
      <4>2. d # n + 1 /\ deals'[d] = deals[d]
        BY <1>1, <4>1
      <4> QED BY <1>1, <1>3, <1>4, <2>1, <3>1, <4>1, <4>2 DEF OwnPending
    <3>2. CASE d = n + 1 /\ deal.by = "own"
      <4>1. d \in Pending(1)' /\ deals'[d].by = "own"
        BY <1>1, <1>4, <3>2
      <4>2. d \notin seen' /\ d > cover'
        BY <1>1, <1>2, <1>3, <1>4, <3>2
      <4> QED BY <4>1, <4>2 DEF OwnPending
    <3> QED BY <1>4, <3>1, <3>2
  <2>3. Arriving' \subseteq Pending(1)'
    BY <1>1, <2>1
  <2>4. ASSUME NEW d \in Arriving', deals'[d].by = "own" PROVE d \in unresolved'
    <3>1. CASE d \in Arriving
      BY <1>1, <1>2, <1>4, <2>1, <2>4, <3>1
    <3>2. CASE d = n + 1
      BY <1>1, <1>4, <2>4, <3>2
    <3> QED BY <1>1, <3>1, <3>2
  <2> QED BY <2>2, <2>3, <2>4
<1>6. PendingSound'
  BY <1>3, <1>5 DEF PendingSound, Kept
<1>7. ASSUME Undisturbed'
      PROVE  /\ \A d \in Closing' : deals'[d].by = "own" => deals'[d].took = deals'[d].closed
             /\ Closing' = {} /\ rows' > 0 => Share' = mine' /\ shrink' = 0
  <2>1. Undisturbed
    BY <1>7, HappensLive
  <2>2. ASSUME NEW d \in Closing', deals'[d].by = "own" PROVE deals'[d].took = deals'[d].closed
    <3>1. CASE d \in Closing
      BY <1>1, <1>2, <2>1, <2>2, <3>1 DEF Kept, OwnSound
    <3>2. CASE d = n + 1
      BY <1>1, <2>1, <2>2, <3>2, OwnTakesAll
    <3> QED BY <1>1, <3>1, <3>2
  <2>3. ASSUME Closing' = {}, rows' > 0 PROVE Share' = mine' /\ shrink' = 0
    <3>1. Closing = {} /\ ~ (deal.closed > 0)
      BY <2>3, HappensLive, <1>1
    <3>2. Share = mine /\ shrink = 0
      BY <1>3, <2>1, <2>3, <3>1 DEF Kept, OwnSound
    <3>3. /\ shrink' = shrink /\ retired' = retired
          /\ filled' = IF deal.by = "entry" THEN filled + 1 ELSE filled
      BY DEF Happens
    <3>4. mine' = IF deal.by = "entry" THEN mine + 1 ELSE mine
      BY <3>1, DealTakes
    <3> QED BY <3>2, <3>3, <3>4, NumbersTyped DEF Numbers, Share
  <2> QED BY <2>2, <2>3
<1>8. OwnSound'
  BY <1>7 DEF OwnSound
<1> QED BY <1>6, <1>8

LEMMA HappensVolumes ==
  ASSUME Base, Base', Kept, NEW deal, Happens(deal), Live'
  PROVE  /\ Share' + shrink' >= mine' + Owed' /\ Share' >= mine' + Coming'
         /\ mine' < vol' => shrink' = 0 /\ Share' <= mine' + Missed'
         /\ phase' = "up" => book' + shrink' >= mine' + Undelivered' /\ book' >= mine' + Coming'
<1>1. Live
  BY HappensLive
<1>2. /\ Share + shrink >= mine + Owed /\ Share >= mine + Coming
      /\ mine < vol => shrink = 0 /\ Share <= mine + Missed
      /\ phase = "up" => book + shrink >= mine + Undelivered /\ book >= mine + Coming
  BY <1>1, KeptNumbers
<1>3. /\ Owed' = Owed + deal.took /\ Undelivered' = Undelivered + deal.took
      /\ Coming' = IF phase = "up" THEN Coming + deal.took ELSE Coming
      /\ Missed' = IF deal.by = "own" THEN Missed + deal.closed ELSE Missed
  BY HappensOwed
<1>4. /\ shrink' = shrink /\ retired' = retired /\ phase' = phase
      /\ filled' = IF deal.by = "entry" THEN filled + 1 ELSE filled
      /\ book' = IF deal.by = "entry" THEN book + 1 ELSE book
  BY DEF Happens
<1>5. Share' = IF deal.by = "entry" THEN Share + 1 ELSE Share
  BY <1>4, NumbersTyped DEF Numbers, Share
<1>n. /\ vol \in Nat /\ mine \in Nat /\ mine <= vol /\ Share \in Nat /\ shrink \in Nat /\ book \in Int
      /\ Missed \in Nat /\ Owed \in Nat /\ Coming \in Nat /\ Undelivered \in Nat
  BY NumbersTyped, OwedTyped DEF Numbers
<1>6. /\ deal.closed \in Nat /\ deal.took \in Nat /\ deal.after \in Nat /\ deal.took <= deal.closed
      /\ vol' = deal.after
  BY DealTakes
<1> DEFINE c == deal.closed
           t == deal.took
<1>7. CASE deal.by \in Foreign
  <2>1. /\ t = AtLeast0(Least(c, mine - (vol - c))) /\ vol' = vol - c /\ mine' = mine - t
        /\ deal.by # "own" /\ deal.by # "entry" /\ c > 0
    BY <1>6, <1>7, DealTakes DEF Foreign
  <2>2. c \in Nat /\ t \in Nat /\ t <= c /\ c <= vol
    BY <1>6 DEF Happens
  <2>3. /\ Owed' = Owed + t /\ Undelivered' = Undelivered + t /\ Coming' = (IF phase = "up" THEN Coming + t ELSE Coming)
        /\ Missed' = Missed /\ Share' = Share /\ shrink' = shrink /\ book' = book /\ phase' = phase
    BY <1>3, <1>4, <1>5, <2>1
  <2> HIDE DEF c, t
  <2>4. mine' < vol' => mine < vol /\ t = 0
    BY <1>n, <2>1, <2>2 DEF AtLeast0, Least
  <2>5. mine' < vol' => shrink' = 0 /\ Share' <= mine' + Missed'
    BY <1>n, <1>2, <2>1, <2>3, <2>4
  <2> QED BY <1>n, <1>2, <2>1, <2>2, <2>3, <2>5
<1>8. CASE deal.by = "own"
  <2>1. t = c
    BY <1>1, <1>8, OwnTakesAll DEF Live
  <2>2. /\ vol' = vol - c /\ mine' = mine - t /\ c \in Nat
        /\ deal.by # "entry" /\ phase = "up"
    BY <1>6, <1>8, DealTakes DEF Foreign, Happens
  <2>3. /\ Owed' = Owed + c /\ Undelivered' = Undelivered + c /\ Coming' = Coming + c
        /\ Missed' = Missed + c /\ Share' = Share /\ shrink' = shrink /\ book' = book
        /\ mine' = mine - c
    BY <1>3, <1>4, <1>5, <1>8, <2>1, <2>2
  <2> HIDE DEF c, t
  <2> QED BY <1>n, <1>2, <2>2, <2>3
<1>9. CASE deal.by = "others"
  <2>1. Closing = {} /\ mine' = mine /\ t = 0 /\ deal.by # "entry" /\ deal.by # "own"
    BY <1>9, HappensLive, DealTakes DEF Foreign, Live
  <2>2. Share = mine /\ shrink = 0
    BY <1>1, <2>1, KeptNumbers
  <2>3. /\ Owed' = Owed /\ Undelivered' = Undelivered /\ Coming' = Coming
        /\ Missed' = Missed /\ Share' = Share /\ shrink' = shrink /\ book' = book /\ phase' = phase
    BY <1>n, <1>3, <1>4, <1>5, <2>1
  <2> HIDE DEF c, t
  <2> QED BY <1>n, <1>2, <2>1, <2>2, <2>3
<1>10. CASE deal.by = "entry"
  <2>1. mine' = mine + 1 /\ vol' = vol + 1 /\ t = 0 /\ deal.by # "own"
    BY <1>10, DealTakes DEF Foreign
  <2>2. /\ Owed' = Owed /\ Undelivered' = Undelivered /\ Coming' = Coming
        /\ Missed' = Missed /\ Share' = Share + 1 /\ shrink' = shrink /\ book' = book + 1
        /\ phase' = phase
    BY <1>n, <1>3, <1>4, <1>5, <1>10, <2>1
  <2> HIDE DEF c, t
  <2> QED BY <1>n, <1>2, <2>1, <2>2
<1> QED BY <1>7, <1>8, <1>9, <1>10, DealTakes

LEMMA HappensArrival ==
  ASSUME Base, Base', Kept, NEW deal, Happens(deal), Live', NEW d \in Arriving',
         deals'[d].by \in Foreign
  PROVE  /\ deals'[d].took < deals'[d].closed
              => Share' <= deals'[d].after + deals'[d].took + Missed'
         /\ deals'[d].took > 0
              => Share' >= deals'[d].after + deals'[d].took + ComingBefore(d)'
<1>0. PICK n : n = Len(deals)
  OBVIOUS
<1>1. Live
  BY HappensLive
<1>2. /\ Arriving' = Arriving \union (IF deal.closed > 0 /\ phase = "up" THEN {n + 1} ELSE {})
      /\ deals'[n + 1] = deal /\ \A e \in DOMAIN deals : deals'[e] = deals[e]
      /\ DOMAIN deals = 1 .. n /\ n \in Nat /\ Arriving \subseteq DOMAIN deals
  BY <1>0, HappensFacts, ArrivingCloses
<1>3. /\ \A e \in 1 .. n : ComingBefore(e)' = ComingBefore(e)
      /\ ComingBefore(n + 1)' = Coming
      /\ Missed' = IF deal.by = "own" THEN Missed + deal.closed ELSE Missed
  BY <1>0, HappensOwed
<1>4. retired' = retired /\ filled' = IF deal.by = "entry" THEN filled + 1 ELSE filled
  BY DEF Happens
<1>n. /\ vol \in Nat /\ mine \in Nat /\ mine <= vol /\ Share \in Nat /\ Missed \in Nat
      /\ deal.closed \in Nat /\ Coming \in Nat
  BY NumbersTyped, OwedTyped, DealTakes DEF Numbers
<1>5. CASE d \in Arriving
  <2>1. deals'[d] = deals[d] /\ d \in 1 .. n /\ d \in DOMAIN deals
    BY <1>2, <1>5
  <2>2. deal.by # "entry"
    <3>1. Arriving # {} => Range(wire) # {}
      BY DEF Arriving
    <3>2. wire # <<>>
      BY <1>5, <3>1 DEF Range
    <3> QED BY <3>2 DEF Happens
  <2>3. Share' = Share /\ Missed' >= Missed /\ Missed' \in Nat
    BY <1>n, <1>3, <1>4, <2>2, NumbersTyped DEF Numbers, Share
  <2>4. /\ deals[d].took < deals[d].closed => Share <= deals[d].after + deals[d].took + Missed
        /\ deals[d].took > 0 => Share >= deals[d].after + deals[d].took + ComingBefore(d)
    BY <1>1, <1>5, <2>1, KeptNumbers
  <2>5. deals[d].after \in Nat /\ deals[d].took \in Nat /\ ComingBefore(d)' = ComingBefore(d)
    BY <1>3, <2>1, NumbersTyped DEF Numbers
  <2>6. deals'[d].took < deals'[d].closed => Share' <= deals'[d].after + deals'[d].took + Missed'
    BY <1>n, <2>1, <2>3, <2>4, <2>5
  <2> QED BY <2>1, <2>3, <2>4, <2>5, <2>6
<1>6. CASE d = n + 1 /\ d \notin Arriving
  <2>1. deals'[d] = deal /\ deal.by \in Foreign
    BY <1>2, <1>6
  <2>2. deal.by # "own" /\ deal.by # "entry"
    BY <2>1 DEF Foreign
  <2>3. Share' = Share /\ Missed' = Missed
    BY <1>3, <1>4, <2>2 DEF Share
  <2>8. ComingBefore(d)' = Coming
    BY <1>3, <1>6
  <2>4. /\ Share >= mine + Coming /\ (mine < vol => Share <= mine + Missed)
    BY <1>1, KeptNumbers
  <2> DEFINE c == deal.closed
             t == deal.took
             a == deal.after
  <2>5. /\ t = AtLeast0(Least(c, mine - a)) /\ a = vol - c /\ c > 0 /\ t \in Nat /\ a \in Nat /\ c \in Nat
    BY <2>1, DealTakes DEF Foreign
  <2> HIDE DEF c, t, a
  <2>6. t < c => Share <= a + t + Missed
    BY <1>n, <2>4, <2>5 DEF AtLeast0, Least
  <2>7. t > 0 => Share >= a + t + Coming
    BY <1>n, <2>4, <2>5 DEF AtLeast0, Least
  <2> QED BY <2>1, <2>3, <2>6, <2>7, <2>8 DEF c, t, a
<1> QED BY <1>2, <1>5, <1>6

LEMMA HappensKept ==
  ASSUME Base, Base', Kept, NEW deal, Happens(deal)
  PROVE  Kept'
<1>1. PendingSound' /\ OwnSound'
  BY HappensPending
<1>2. ShareSound'
  BY HappensVolumes DEF ShareSound, Owed, Coming, Missed
<1>3. BookSound'
  BY HappensVolumes DEF BookSound, Undelivered, Coming
<1>4. ArrivalSound'
  BY HappensArrival DEF ArrivalSound, ComingBefore, Missed
<1> QED BY <1>1, <1>2, <1>3, <1>4 DEF Kept

-----------------------------------------------------------------------------
(* The other steps keep it too *)

\* Without a further deal, a run is live and undisturbed only if it was.
LEMMA SteadyLive ==
  ASSUME UNCHANGED venueVars, ~ excused' => ~ excused, rows' > 0 => rows > 0
  PROVE  /\ Undisturbed' => Undisturbed
         /\ Live' => Live
BY SteadyVolumes DEF Undisturbed, Live

LEMMA NextOwed ==
  Base' => /\ Owed' \in Nat /\ Coming' \in Nat /\ Undelivered' \in Nat /\ Missed' \in Nat
           /\ \A d : ComingBefore(d)' \in Nat
<1>1. Base' => OwedNumbers'
  BY OwedCounted, PTL
<1> QED BY <1>1 DEF OwedNumbers

\* What no push brings and nothing owes is nothing.
LEMMA SettledOwes ==
  ASSUME Base'
  PROVE  /\ Pending(1)' = {} => Owed' = 0 /\ Undelivered' = 0
         /\ Arriving' = {} => Coming' = 0
         /\ unresolved' = {} => Missed' = 0
<1>e. \A X : X = {} => TookBy(X)' = 0 /\ ClosedBy(X)' = 0
  BY SumEmpty DEF TookBy, ClosedBy
<1>1. ASSUME Pending(1)' = {} PROVE Owed' = 0 /\ Undelivered' = 0
  <2>1. (Pending(1) \ seen)' = {}
    BY <1>1
  <2> QED BY <1>e, <1>1, <2>1 DEF Owed, Undelivered
<1>2. ASSUME Arriving' = {} PROVE Coming' = 0
  BY <1>e, <1>2 DEF Coming
<1>3. ASSUME unresolved' = {} PROVE Missed' = 0
  BY <1>e, <1>3 DEF Missed
<1> QED BY <1>1, <1>2, <1>3

\* With the history as it was, fewer closes took no more.
LEMMA SteadyOwed ==
  ASSUME Base, UNCHANGED venueVars
  PROVE  /\ Pending(1)' \subseteq Pending(1) => Owed' <= Owed
         /\ Arriving' \subseteq Arriving => Coming' <= Coming /\ \A d : ComingBefore(d)' <= ComingBefore(d)
         /\ Pending(1)' \subseteq Pending(1) /\ seen \subseteq seen' => Undelivered' <= Undelivered
         /\ unresolved' = unresolved => Missed' = Missed
<1>v. \A X : TookBy(X)' = TookBy(X) /\ ClosedBy(X)' = ClosedBy(X)
  BY SteadyVolumes
<1>g. \A S, U : S \subseteq U /\ U \in SUBSET DOMAIN deals => TookBy(S) <= TookBy(U)
  BY VolumesGrow
<1>p. Pending(1) \in SUBSET DOMAIN deals /\ Arriving \in SUBSET DOMAIN deals
  BY PendingCloses, ArrivingCloses
<1>1. ASSUME Pending(1)' \subseteq Pending(1) PROVE Owed' <= Owed
  <2>1. PICK P, Q : P = Pending(1) /\ Q = Pending(1)'
    OBVIOUS
  <2>2. TookBy(Q) <= TookBy(P) /\ TookBy(Q)' = TookBy(Q)
    BY <1>1, <1>v, <1>g, <1>p, <2>1
  <2> QED BY <2>1, <2>2 DEF Owed
<1>2. ASSUME Arriving' \subseteq Arriving
      PROVE  Coming' <= Coming /\ \A d : ComingBefore(d)' <= ComingBefore(d)
  <2>1. PICK A, B : A = Arriving /\ B = Arriving'
    OBVIOUS
  <2>2. TookBy(B) <= TookBy(A) /\ TookBy(B)' = TookBy(B)
    BY <1>2, <1>v, <1>g, <1>p, <2>1
  <2>3. ASSUME NEW d PROVE ComingBefore(d)' <= ComingBefore(d)
    <3>1. PICK C, D : C = {e \in A : e < d} /\ D = {e \in B : e < d}
      OBVIOUS
    <3>2. TookBy(D) <= TookBy(C) /\ TookBy(D)' = TookBy(D)
      BY <1>2, <1>v, <1>g, <1>p, <2>1, <3>1
    <3> QED BY <2>1, <3>1, <3>2 DEF ComingBefore
  <2> QED BY <2>1, <2>2, <2>3 DEF Coming
<1>3. ASSUME Pending(1)' \subseteq Pending(1), seen \subseteq seen' PROVE Undelivered' <= Undelivered
  <2>1. PICK P, Q : P = Pending(1) \ seen /\ Q = (Pending(1) \ seen)'
    OBVIOUS
  <2>2. TookBy(Q) <= TookBy(P) /\ TookBy(Q)' = TookBy(Q)
    BY <1>3, <1>v, <1>g, <1>p, <2>1
  <2> QED BY <2>1, <2>2 DEF Undelivered
<1>4. ASSUME unresolved' = unresolved PROVE Missed' = Missed
  <2>1. PICK U : U = unresolved
    OBVIOUS
  <2> QED BY <1>4, <1>v, <2>1 DEF Missed
<1> QED BY <1>1, <1>2, <1>3, <1>4

\* What is left of the invariant once the volumes are settled.
LEMMA SteadyKept ==
  ASSUME UNCHANGED venueVars, ~ excused' => ~ excused, rows' > 0 => rows > 0, Kept,
         PendingSound',
         Undisturbed /\ Closing = {} /\ rows' > 0 => Share' = mine /\ shrink' = 0,
         Live' =>
           /\ Share' + shrink' >= mine + Owed' /\ Share' >= mine + Coming'
           /\ mine < vol => shrink' = 0 /\ Share' <= mine + Missed'
           /\ phase' = "up" => book' + shrink' >= mine + Undelivered' /\ book' >= mine + Coming'
           /\ \A d \in Arriving' : deals[d].by \in Foreign =>
              /\ deals[d].took < deals[d].closed => Share' <= deals[d].after + deals[d].took + Missed'
              /\ deals[d].took > 0 => Share' >= deals[d].after + deals[d].took + ComingBefore(d)'
  PROVE  Kept'
<1>1. /\ vol' = vol /\ mine' = mine /\ deals' = deals /\ Closing' = Closing
      /\ (Undisturbed' => Undisturbed)
  BY SteadyVolumes, SteadyLive
<1>2. OwnSound'
  BY <1>1 DEF Kept, OwnSound
<1>3. ShareSound'
  BY <1>1 DEF ShareSound, Owed, Coming, Missed
<1>4. BookSound'
  BY <1>1 DEF BookSound, Undelivered, Coming
<1>5. ArrivalSound'
  BY <1>1 DEF ArrivalSound, ComingBefore, Missed
<1> QED BY <1>2, <1>3, <1>4, <1>5 DEF Kept

\* A process stops once it has seen the fills of its own closes: it forgets nothing the
\* journal lacks.
LEMMA StopKept ==
  ASSUME ~ CrashUnseen, Base, Base', Kept, Die, UNCHANGED <<venueVars, shareVars, shrink, excused>>,
         Pending(1)' \subseteq Pending(1)
  PROVE  Kept'
<1>1. /\ unresolved = {} /\ unresolved' = {} /\ seen' = {} /\ wire' = <<>> /\ marked' = FALSE
      /\ phase' = "down" /\ rows' = rows /\ shrink' = shrink /\ excused' = excused
      /\ Share' = Share
  BY DEF Die, shareVars, Share
<1>2. Arriving' = {}
  BY <1>1 DEF Arriving, Range
<1>3. PendingSound'
  BY <1>1, <1>2 DEF PendingSound
<1>4. Owed' <= Owed /\ Coming' = 0 /\ Missed' = Missed
  BY <1>1, <1>2, SteadyOwed, SettledOwes
<1>5. ASSUME Live'
      PROVE  /\ Share' + shrink' >= mine + Owed' /\ Share' >= mine + Coming'
             /\ mine < vol => shrink' = 0 /\ Share' <= mine + Missed'
  <2>1. Live
    BY <1>1, <1>5, SteadyLive
  <2>2. /\ Share + shrink >= mine + Owed /\ Share >= mine + Coming
        /\ mine < vol => shrink = 0 /\ Share <= mine + Missed
    BY <2>1, KeptNumbers
  <2>n. /\ Share \in Nat /\ shrink \in Nat /\ mine \in Nat /\ Owed \in Nat /\ Coming \in Nat
        /\ Owed' \in Nat /\ Missed \in Nat
    BY NumbersTyped, OwedTyped, NextOwed DEF Numbers
  <2>5. Share' = Share /\ shrink' = shrink /\ Owed' <= Owed
    BY <1>1, <1>4
  <2> DEFINE owed == Owed'
  <2>6. owed \in Nat /\ owed <= Owed
    BY <2>5, <2>n
  <2> HIDE DEF owed
  <2>7. Share + shrink >= mine + owed
    BY <2>2, <2>6, <2>n
  <2>3. Share' + shrink' >= mine + Owed'
    BY <2>5, <2>7 DEF owed
  <2>4. Share' >= mine + Coming'
    BY <1>1, <1>4, <2>2, <2>n
  <2> QED BY <1>1, <1>4, <2>2, <2>3, <2>4
<1>6. Undisturbed /\ Closing = {} /\ rows' > 0 => Share' = mine /\ shrink' = 0
  BY <1>1 DEF Kept, OwnSound
<1> QED BY <1>1, <1>2, <1>3, <1>5, <1>6, SteadyKept

\* Fewer pushes on their way, or more deals seen, and nothing else.
LEMMA QuietKept ==
  ASSUME Base, Base', Kept, UNCHANGED <<venueVars, shareVars, shrink, excused, phase, book, unresolved>>,
         Pending(1)' = Pending(1), Arriving' \subseteq Arriving, seen \subseteq seen',
         marked' = marked \/ marked' = FALSE, cover' = cover,
         ~ excused /\ rows > 0 => unresolved \intersect seen' = {}
  PROVE  Kept'
<1>1. /\ deals' = deals /\ rows' = rows /\ shrink' = shrink /\ excused' = excused /\ phase' = phase
      /\ book' = book /\ unresolved' = unresolved /\ Share' = Share /\ OwnPending' = OwnPending
  BY DEF venueVars, shareVars, Share, OwnPending
<1>2. PendingSound'
  BY <1>1 DEF PendingSound, Kept
<1>3. /\ Owed' <= Owed /\ Coming' <= Coming /\ Undelivered' <= Undelivered /\ Missed' = Missed
      /\ \A d : ComingBefore(d)' <= ComingBefore(d)
  BY <1>1, SteadyOwed
<1>4. ASSUME Live'
      PROVE  /\ Share' + shrink' >= mine + Owed' /\ Share' >= mine + Coming'
             /\ mine < vol => shrink' = 0 /\ Share' <= mine + Missed'
             /\ phase' = "up" => book' + shrink' >= mine + Undelivered' /\ book' >= mine + Coming'
             /\ \A d \in Arriving' : deals[d].by \in Foreign =>
                /\ deals[d].took < deals[d].closed => Share' <= deals[d].after + deals[d].took + Missed'
                /\ deals[d].took > 0 => Share' >= deals[d].after + deals[d].took + ComingBefore(d)'
  <2> DEFINE owed == Owed'
             coming == Coming'
             left == Undelivered'
  <2>1. Live
    BY <1>1, <1>4, SteadyLive
  <2>2. /\ Share + shrink >= mine + Owed /\ Share >= mine + Coming
        /\ mine < vol => shrink = 0 /\ Share <= mine + Missed
        /\ phase = "up" => book + shrink >= mine + Undelivered /\ book >= mine + Coming
    BY <2>1, KeptNumbers
  <2>n. /\ Share \in Nat /\ shrink \in Nat /\ mine \in Nat /\ Owed \in Nat /\ Coming \in Nat
        /\ Undelivered \in Nat /\ book \in Int
    BY NumbersTyped, OwedTyped DEF Numbers
  <2>o. owed \in Nat /\ coming \in Nat /\ left \in Nat
    BY NextOwed
  <2>3. owed <= Owed /\ coming <= Coming /\ left <= Undelivered
    BY <1>3
  <2> HIDE DEF owed, coming, left
  <2>4. /\ Share + shrink >= mine + owed /\ Share >= mine + coming
        /\ phase = "up" => book + shrink >= mine + left /\ book >= mine + coming
    BY <2>2, <2>n, <2>o, <2>3
  <2>5. ASSUME NEW d \in Arriving', deals[d].by \in Foreign
        PROVE  /\ deals[d].took < deals[d].closed => Share' <= deals[d].after + deals[d].took + Missed'
               /\ deals[d].took > 0 => Share' >= deals[d].after + deals[d].took + ComingBefore(d)'
    <3>1. /\ deals[d].took < deals[d].closed => Share <= deals[d].after + deals[d].took + Missed
          /\ deals[d].took > 0 => Share >= deals[d].after + deals[d].took + ComingBefore(d)
      BY <2>1, <2>5, KeptNumbers
    <3> DEFINE before == ComingBefore(d)'
    <3>2. /\ deals[d].after \in Nat /\ deals[d].took \in Nat /\ ComingBefore(d) \in Nat
          /\ before \in Nat /\ before <= ComingBefore(d)
      BY <1>3, <2>5, OwedTyped, NextOwed, ArrivingCloses, NumbersTyped DEF Numbers
    <3> HIDE DEF before
    <3>3. deals[d].took > 0 => Share >= deals[d].after + deals[d].took + before
      BY <2>n, <3>1, <3>2
    <3> QED BY <1>1, <1>3, <3>1, <3>3 DEF before
  <2> QED BY <1>1, <1>3, <2>2, <2>4, <2>5 DEF owed, coming, left
<1>5. Undisturbed /\ Closing = {} /\ rows' > 0 => Share' = mine /\ shrink' = 0
  BY <1>1 DEF Kept, OwnSound
<1> QED BY <1>1, <1>2, <1>4, <1>5, SteadyKept

LEMMA LoseKept == ASSUME Base, Base', Kept, Lose PROVE Kept'
<1>1. Arriving' = {} /\ seen' = seen /\ unresolved' = unresolved /\ marked' = marked /\ cover' = cover
  BY DEF Lose, Arriving, Range, memoryVars
<1>2. Pending(1)' = Pending(1)
  BY DEF Lose, Pending, Closing, venueVars, verdictVars
<1>3. UNCHANGED <<venueVars, shareVars, shrink, excused, phase, book, unresolved>>
  BY DEF Lose, resumeVars, memoryVars
<1>4. ~ excused /\ rows > 0 => unresolved \intersect seen' = {}
  BY <1>1 DEF Kept, PendingSound
<1> QED BY <1>1, <1>2, <1>3, <1>4, QuietKept

\* A late copy leaves the deals on their way as they are.
LEMMA DropKept == ASSUME Base, Base', Kept, DropPush PROVE Kept'
<1> DEFINE h == Head(wire)
<1>1. /\ seen' = seen \union {h} /\ unresolved' = unresolved /\ marked' = marked /\ cover' = cover
      /\ wire' = Tail(wire) /\ wire # <<>> /\ (Late(h) \/ rows = 0)
  BY DEF DropPush
<1>2. Pending(1)' = Pending(1)
  BY DEF DropPush, Pending, Closing, venueVars, verdictVars
<1>3. UNCHANGED <<venueVars, shareVars, shrink, excused, phase, book, unresolved>>
  BY DEF DropPush, resumeVars
<1>4. ASSUME ~ excused, rows > 0 PROVE unresolved \intersect seen' = {}
  <2>1. unresolved \intersect seen = {} /\ \A d \in unresolved : d > cover
    BY <1>4 DEF Kept, PendingSound
  <2>2. h \notin unresolved
    <3>1. Late(h)
      BY <1>1, <1>4, NumbersTyped DEF Numbers
    <3>2. h \in unresolved => h \in Nat
      BY BaseParts, NumbersTyped DEF Recorded, Numbers
    <3> QED BY <2>1, <3>1, <3>2, NumbersTyped DEF Late, Numbers
  <2> QED BY <1>1, <2>1, <2>2
<1>5. Arriving' \subseteq Arriving
  <2>1. Range(wire') \subseteq Range(wire)
    <3>1. wire \in Seq(Closing)
      BY DEF Base, WireSound
    <3>2. \A i \in DOMAIN wire' : i + 1 \in DOMAIN wire /\ wire'[i] = wire[i + 1]
      BY <1>1, <3>1
    <3> QED BY <3>2 DEF Range
  <2> QED BY <1>1, <2>1 DEF Arriving, Late
<1> QED BY <1>1, <1>2, <1>3, <1>4, <1>5, QuietKept

LEMMA ClearKept == ASSUME Base, Base', Kept, PassClear \/ PassWatch \/ UNCHANGED vars PROVE Kept'
<1>1. /\ UNCHANGED <<venueVars, shareVars, shrink, excused, phase, book, unresolved>>
      /\ seen' = seen /\ (marked' = marked \/ marked' = FALSE) /\ cover' = cover /\ wire' = wire
      /\ judged' = judged
  BY DEF PassClear, PassWatch, vars, verdictVars, resumeVars, memoryVars, shareVars, venueVars
<1>2. Pending(1)' = Pending(1) /\ Arriving' = Arriving
  BY <1>1 DEF Pending, Closing, venueVars, Arriving, Late
<1>4. ~ excused /\ rows > 0 => unresolved \intersect seen' = {}
  BY <1>1 DEF Kept, PendingSound
<1> QED BY <1>1, <1>2, <1>4, QuietKept

-----------------------------------------------------------------------------
(* A push judged by the stream *)

\* The first close on its way executed before the others.
LEMMA HeadFirst ==
  ASSUME Base, wire # <<>>, ~ Late(Head(wire)), wire' = Tail(wire), seen' = seen \union {Head(wire)},
         cover' = cover, NEW d, d = Head(wire)
  PROVE  /\ d \in Arriving /\ d \in Closing /\ d \in DOMAIN deals /\ d \notin seen
         /\ Arriving' \subseteq Arriving \ {d}
         /\ \A e \in Arriving' : d < e
<1>1. /\ wire \in Seq(Closing) /\ d = wire[1] /\ 1 \in DOMAIN wire
      /\ \A i \in DOMAIN wire' : i + 1 \in DOMAIN wire /\ wire'[i] = wire[i + 1] /\ i + 1 > 1
  BY DEF Base, WireSound
<1>2. \A e \in Range(wire') : e \in Range(wire) /\ d < e
  <2>1. \A i, j \in DOMAIN wire : i < j => wire[i] < wire[j]
    BY DEF Base, WireSound
  <2>2. ASSUME NEW i \in DOMAIN wire' PROVE wire'[i] \in Range(wire) /\ d < wire'[i]
    BY <1>1, <2>1 DEF Range
  <2> QED BY <2>2 DEF Range
<1>3. d \in Closing /\ d \in DOMAIN deals /\ d \in Range(wire)
  BY HeadOfWire
<1>4. d \in Nat
  BY <1>3, NumbersTyped DEF Numbers
<1> QED BY <1>2, <1>3, <1>4 DEF Arriving, Late

\* The stream books no more of a close than it took of the share.
LEMMA BookedTook ==
  ASSUME Base, Kept, Live, NEW d \in Arriving
  PROVE  /\ Booked(d, LowNow) \in Nat /\ Booked(d, LowNow) <= deals[d].took
         /\ deals[d].took <= Share
         /\ deals[d].by = "own" => Booked(d, LowNow) = deals[d].closed /\ deals[d].took = deals[d].closed
         /\ Undecided(d, LowNow) => Booked(d, LowNow) = 0
<1>1. d \in Closing /\ d \in DOMAIN deals
  BY ArrivingCloses
<1>2. /\ Share >= mine + Coming /\ LowNow = AtLeast0(Share - Missed)
      /\ deals[d].by = "own" => deals[d].took = deals[d].closed
  BY <1>1, KeptNumbers, LiveFacts DEF Kept
<1>n. /\ Share \in Nat /\ mine \in Nat /\ Coming \in Nat /\ Missed \in Nat /\ deals[d].took \in Nat
      /\ deals[d].closed \in Nat /\ deals[d].after \in Nat /\ deals[d].took <= deals[d].closed
      /\ deals[d].by \in Foreign \union {"own"}
  BY <1>1, OwedTyped, NumbersTyped DEF Numbers
<1>3. deals[d].took <= Coming
  <2>1. Arriving \in SUBSET DOMAIN deals /\ TookBy(Arriving \ {d}) \in Nat
    BY ArrivingCloses, DealsWeighed DEF Weighed
  <2>2. Coming = TookBy(Arriving \ {d}) + deals[d].took
    BY <2>1, VolumesSplit DEF Coming
  <2> QED BY <1>n, <2>1, <2>2
<1>4. deals[d].took <= Share
  BY <1>2, <1>3, <1>n
<1> DEFINE c == deals[d].closed
           t == deals[d].took
           a == deals[d].after
           low == LowNow
           b == Booked(d, LowNow)
<1>5. CASE deals[d].by = "own"
  <2>1. b = Least(c, Share) /\ t = c /\ c <= Share
    BY <1>2, <1>4, <1>5 DEF Booked
  <2>2. b = c
    <3> HIDE DEF b, c, t
    <3> QED BY <2>1, <1>n DEF Least, c
  <2>3. ~ Undecided(d, LowNow)
    BY <1>5 DEF Undecided, LiveOrigin
  <2> QED BY <1>n, <1>4, <2>1, <2>2, <2>3
<1>6. CASE deals[d].by \in Foreign
  <2>1. deals[d].by # "own"
    BY <1>6 DEF Foreign
  <2>2. b = TakeOf(d, low) /\ TakeOf(d, low) = AtLeast0(Least(c, low - a))
    BY <2>1 DEF Booked, TakeOf
  <2>3. t < c => Share <= a + t + Missed
    BY <1>6, KeptNumbers
  <2>4. low = AtLeast0(Share - Missed) /\ c \in Nat /\ a \in Nat /\ t \in Nat /\ t <= c
    BY <1>2, <1>n
  <2>5. Undecided(d, LowNow) => b = 0
    BY <2>2 DEF Undecided
  <2> HIDE DEF b, c, t, a, low
  <2>6. b \in Nat /\ b <= t
    BY <1>n, <2>2, <2>3, <2>4 DEF AtLeast0, Least
  <2> QED BY <1>4, <2>1, <2>5, <2>6 DEF b, t
<1> QED BY <1>n, <1>5, <1>6

\* What is owed once the close is booked.
LEMMA PushOwed ==
  ASSUME Base, Base', Kept, Live, TakePush, JudgePush(Head(wire), LowNow), wire' = Tail(wire),
         NEW d, d = Head(wire), NEW b, b = Booked(d, LowNow)
  PROVE  /\ b \in Nat /\ deals[d].took \in Nat /\ b <= deals[d].took /\ d \in Arriving
         /\ Owed' + b <= Owed /\ Undelivered' + b <= Undelivered
         /\ Coming' + deals[d].took <= Coming
         /\ \A e \in Arriving' : ComingBefore(e)' + deals[d].took <= ComingBefore(e)
         /\ Missed = IF deals[d].by = "own" THEN Missed' + deals[d].closed ELSE Missed'
<1>1. /\ d \in Arriving /\ d \in Closing /\ d \in DOMAIN deals /\ d \notin seen
      /\ Arriving' \subseteq Arriving \ {d}
      /\ \A e \in Arriving' : d < e
  BY HeadFirst DEF TakePush, JudgePush
<1>2. /\ b \in Nat /\ b <= deals[d].took /\ (Undecided(d, LowNow) => b = 0)
  BY <1>1, BookedTook
<1>3. /\ UNCHANGED venueVars /\ seen' = seen \union {d} /\ unresolved' = unresolved \ {d}
      /\ MarkPush(d, LowNow)
  BY DEF JudgePush
<1>4. /\ \A X : TookBy(X)' = TookBy(X) /\ ClosedBy(X)' = ClosedBy(X)
      /\ Closing' = Closing /\ deals' = deals
  BY <1>3, SteadyVolumes
<1>5. /\ Arriving \subseteq Pending(1) /\ (deals[d].by = "own" <=> d \in unresolved)
      /\ unresolved \in SUBSET DOMAIN deals /\ Arriving \in SUBSET DOMAIN deals
      /\ Pending(1) \in SUBSET DOMAIN deals /\ Pending(1) \subseteq Closing
  BY <1>1, LiveFacts, PendingCloses, ArrivingCloses DEF Kept
<1>6. /\ Undecided(d, LowNow) => Pending(1)' = Pending(1)
      /\ ~ Undecided(d, LowNow) => Pending(1)' = Pending(1) \ {d}
  <2>1. /\ \A e \in DOMAIN deals \ {d} : judged'[e] = judged[e]
        /\ ~ Undecided(d, LowNow) => judged'[d] # "no"
        /\ Undecided(d, LowNow) => judged'[d] = judged[d]
    BY <1>1, <1>3, MarkTyped
  <2>2. Closing \subseteq DOMAIN deals
    BY PendingCloses
  <2> QED BY <1>4, <2>1, <2>2 DEF Pending
<1>n. deals[d].took \in Nat /\ deals[d].closed \in Nat
  BY <1>1, NumbersTyped DEF Numbers
<1>s. \A U \in SUBSET DOMAIN deals : d \in U =>
        /\ ClosedBy(U) = ClosedBy(U \ {d}) + deals[d].closed
        /\ TookBy(U) = TookBy(U \ {d}) + deals[d].took
        /\ TookBy(U \ {d}) \in Nat /\ ClosedBy(U \ {d}) \in Nat
  BY VolumesSplit, DealsWeighed DEF Weighed
<1>7. Owed' + b <= Owed
  <2>1. CASE Undecided(d, LowNow)
    <3>1. PICK P : P = Pending(1)
      OBVIOUS
    <3>2. Owed' = Owed /\ b = 0
      BY <1>2, <1>4, <1>6, <2>1, <3>1 DEF Owed
    <3> QED BY <3>2, OwedTyped
  <2>2. CASE ~ Undecided(d, LowNow)
    <3>1. PICK P : P = Pending(1)
      OBVIOUS
    <3>2. Owed' = TookBy(P \ {d}) /\ Owed = TookBy(P)
      BY <1>4, <1>6, <2>2, <3>1 DEF Owed
    <3>3. TookBy(P) = TookBy(P \ {d}) + deals[d].took /\ TookBy(P \ {d}) \in Nat
      BY <1>1, <1>5, <1>s, <3>1
    <3> QED BY <1>2, <1>n, <3>2, <3>3
  <2> QED BY <2>1, <2>2
<1>8. Undelivered' + b <= Undelivered
  <2>1. PICK P : P = Pending(1) \ seen
    OBVIOUS
  <2>2. (Pending(1) \ seen)' = P \ {d}
    BY <1>3, <1>6, <2>1
  <2>3. Undelivered' = TookBy(P \ {d}) /\ Undelivered = TookBy(P)
    BY <1>4, <2>1, <2>2 DEF Undelivered
  <2>4. TookBy(P) = TookBy(P \ {d}) + deals[d].took /\ TookBy(P \ {d}) \in Nat
    BY <1>1, <1>5, <1>s, <2>1
  <2> QED BY <1>2, <1>n, <2>3, <2>4
<1>9. Coming' + deals[d].took <= Coming
  <2>1. PICK A, B : A = Arriving /\ B = Arriving'
    OBVIOUS
  <2>2. TookBy(A) = TookBy(A \ {d}) + deals[d].took /\ TookBy(A \ {d}) \in Nat
    BY <1>1, <1>5, <1>s, <2>1
  <2>3. TookBy(B) <= TookBy(A \ {d}) /\ TookBy(B) \in Nat
    BY <1>1, <1>5, <2>1, VolumesGrow, DealsWeighed DEF Weighed
  <2>4. Coming' = TookBy(B) /\ Coming = TookBy(A)
    BY <1>4, <2>1 DEF Coming
  <2> QED BY <1>n, <2>2, <2>3, <2>4
<1>10. ASSUME NEW e \in Arriving' PROVE ComingBefore(e)' + deals[d].took <= ComingBefore(e)
  <2>1. PICK A, B : A = {x \in Arriving : x < e} /\ B = {x \in Arriving' : x < e}
    OBVIOUS
  <2>2. d \in A /\ A \in SUBSET DOMAIN deals /\ B \subseteq A \ {d}
    BY <1>1, <1>5, <2>1
  <2>3. TookBy(A) = TookBy(A \ {d}) + deals[d].took /\ TookBy(A \ {d}) \in Nat
    BY <1>s, <2>2
  <2>4. TookBy(B) <= TookBy(A \ {d}) /\ TookBy(B) \in Nat
    BY <2>2, VolumesGrow, DealsWeighed DEF Weighed
  <2>5. ComingBefore(e)' = TookBy(B) /\ ComingBefore(e) = TookBy(A)
    BY <1>4, <2>1 DEF ComingBefore
  <2> QED BY <1>n, <2>3, <2>4, <2>5
<1>11. Missed = IF deals[d].by = "own" THEN Missed' + deals[d].closed ELSE Missed'
  <2>1. PICK U : U = unresolved
    OBVIOUS
  <2>2. Missed' = ClosedBy(U \ {d}) /\ Missed = ClosedBy(U)
    BY <1>3, <1>4, <2>1 DEF Missed
  <2>3. CASE d \in U
    BY <1>5, <1>s, <2>1, <2>2, <2>3
  <2>4. CASE d \notin U
    <3>1. U \ {d} = U
      BY <2>4
    <3>2. Missed' = Missed
      BY <2>2, <3>1, Zenon
    <3> QED BY <1>5, <2>1, <2>4, <3>2
  <2> QED BY <2>3, <2>4
<1> QED BY <1>1, <1>2, <1>n, <1>7, <1>8, <1>9, <1>10, <1>11

LEMMA PushPending ==
  ASSUME Base, Base', Kept, TakePush, JudgePush(Head(wire), LowNow), wire' = Tail(wire)
  PROVE  PendingSound'
<1>0. PICK d : d = Head(wire)
  OBVIOUS
<1>1. /\ d \in Arriving /\ d \in Closing /\ d \in DOMAIN deals /\ d \notin seen
      /\ Arriving' \subseteq Arriving \ {d}
  BY <1>0, HeadFirst DEF TakePush, JudgePush
<1>2. /\ deals' = deals /\ seen' = seen \union {d} /\ unresolved' = unresolved \ {d}
      /\ excused' = excused /\ marked' = marked /\ cover' = cover /\ rows > 0
      /\ MarkPush(d, LowNow)
  BY <1>0 DEF JudgePush, TakePush, venueVars, resumeVars
<1>3. \A e \in DOMAIN deals \ {d} : judged'[e] = judged[e]
  BY <1>1, <1>2, MarkTyped
<1>4. Pending(1) \ {d} \subseteq Pending(1)'
  BY <1>2, <1>3, PendingCloses DEF Pending, Closing
<1> QED BY <1>1, <1>2, <1>4 DEF PendingSound, Kept, OwnPending

\* Of the share and of the engine's volume it takes no more than the close took.
LEMMA JudgePushKept ==
  ASSUME Base, Base', Kept, TakePush, JudgePush(Head(wire), LowNow), wire' = Tail(wire)
  PROVE  Kept'
<1>0. PICK d, b : d = Head(wire) /\ b = Booked(d, LowNow)
  OBVIOUS
<1>1. /\ UNCHANGED venueVars /\ excused' = excused /\ phase' = phase /\ shrink' = shrink
      /\ rows > 0 /\ BookClose(d, b)
  BY <1>0 DEF JudgePush, TakePush, resumeVars
<1>2. PendingSound'
  BY PushPending
<1>3. rows' > 0 => rows > 0
  BY <1>1
<1>4. Closing # {}
  BY <1>0, HeadOfWire DEF TakePush
<1>5. ASSUME Live'
      PROVE  /\ Share' + shrink' >= mine + Owed' /\ Share' >= mine + Coming'
             /\ mine < vol => shrink' = 0 /\ Share' <= mine + Missed'
             /\ phase' = "up" => book' + shrink' >= mine + Undelivered' /\ book' >= mine + Coming'
             /\ \A e \in Arriving' : deals[e].by \in Foreign =>
                /\ deals[e].took < deals[e].closed => Share' <= deals[e].after + deals[e].took + Missed'
                /\ deals[e].took > 0 => Share' >= deals[e].after + deals[e].took + ComingBefore(e)'
  <2>1. Live
    BY <1>1, <1>5, SteadyLive
  <2>2. /\ b \in Nat /\ deals[d].took \in Nat /\ b <= deals[d].took /\ d \in Arriving
        /\ Owed' + b <= Owed /\ Undelivered' + b <= Undelivered
        /\ Coming' + deals[d].took <= Coming
        /\ \A e \in Arriving' : ComingBefore(e)' + deals[d].took <= ComingBefore(e)
        /\ Missed = IF deals[d].by = "own" THEN Missed' + deals[d].closed ELSE Missed'
    BY <1>0, <2>1, PushOwed
  <2>3. /\ deals[d].took <= Share /\ (deals[d].by = "own" => b = deals[d].closed)
        /\ deals[d].by = "own" => deals[d].took = deals[d].closed
    BY <1>0, <2>1, <2>2, BookedTook
  <2>4. Share' = Share - b /\ book' = book - b
    <3>1. book' = book - b /\ retired' = retired + Least(b, Share) /\ filled' = filled
      BY <1>1, <1>5 DEF BookClose, Live
    <3>2. Least(b, Share) = b
      BY <2>2, <2>3, NumbersTyped DEF Least, Numbers
    <3> QED BY <2>2, <3>1, <3>2, RetireTyped
  <2>5. /\ Share + shrink >= mine + Owed /\ Share >= mine + Coming
        /\ mine < vol => shrink = 0 /\ Share <= mine + Missed
        /\ phase = "up" => book + shrink >= mine + Undelivered /\ book >= mine + Coming
    BY <2>1, KeptNumbers
  <2>n. /\ Share \in Nat /\ shrink \in Nat /\ mine \in Nat /\ Owed \in Nat /\ Coming \in Nat
        /\ Undelivered \in Nat /\ book \in Int /\ Missed \in Nat
    BY NumbersTyped, OwedTyped DEF Numbers
  <2> DEFINE owed == Owed'
             coming == Coming'
             left == Undelivered'
             missed == Missed'
             took == deals[d].took
  <2>7. /\ owed \in Nat /\ coming \in Nat /\ left \in Nat /\ missed \in Nat
        /\ owed + b <= Owed /\ left + b <= Undelivered /\ coming + took <= Coming
        /\ took \in Nat /\ b \in Nat /\ b <= took
    BY <2>2, NextOwed
  <2>8. missed = Missed \/ missed = Missed - b
    BY <2>2, <2>3, <2>7

  <2> HIDE DEF owed, coming, left, missed, took
  <2>9. /\ (Share - b) + shrink >= mine + owed /\ Share - b >= mine + coming
        /\ mine < vol => Share - b <= mine + missed
        /\ phase = "up" => (book - b) + shrink >= mine + left /\ book - b >= mine + coming
    BY <2>5, <2>n, <2>7, <2>8
  <2>10. ASSUME NEW e \in Arriving', deals[e].by \in Foreign
         PROVE  /\ deals[e].took < deals[e].closed => Share' <= deals[e].after + deals[e].took + Missed'
                /\ deals[e].took > 0 => Share' >= deals[e].after + deals[e].took + ComingBefore(e)'
    <3>0. e \in Arriving /\ e \in DOMAIN deals
      <4>1. Arriving' \subseteq Arriving
        BY <1>0, HeadFirst DEF TakePush, JudgePush
      <4> QED BY <2>10, <4>1, ArrivingCloses
    <3>1. /\ deals[e].took < deals[e].closed => Share <= deals[e].after + deals[e].took + Missed
          /\ deals[e].took > 0 => Share >= deals[e].after + deals[e].took + ComingBefore(e)
      BY <2>1, <2>10, <3>0, KeptNumbers
    <3> DEFINE before == ComingBefore(e)'
               x == deals[e].after + deals[e].took
    <3>5. before \in Nat /\ ComingBefore(e) \in Nat
      BY OwedTyped, NextOwed
    <3>6. before + took <= ComingBefore(e)
      BY <2>2, <2>10 DEF took
    <3>7. x \in Nat
      BY <3>0, DealTyped
    <3>2. x \in Nat /\ ComingBefore(e) \in Nat /\ before \in Nat /\ before + took <= ComingBefore(e)
      BY <3>5, <3>6, <3>7
    <3>3. /\ deals[e].took < deals[e].closed => Share <= x + Missed
          /\ deals[e].took > 0 => Share >= x + ComingBefore(e)
      BY <3>1
    <3> HIDE DEF before, x
    <3>4. /\ deals[e].took < deals[e].closed => Share - b <= x + missed
          /\ deals[e].took > 0 => Share - b >= x + before
      BY <2>n, <2>7, <2>8, <3>2, <3>3
    <3> QED BY <2>4, <3>4 DEF before, x, missed
  <2> QED BY <1>1, <2>4, <2>5, <2>9, <2>10 DEF owed, coming, left, missed
<1> QED BY <1>1, <1>2, <1>3, <1>4, <1>5, SteadyKept

-----------------------------------------------------------------------------
(* A stop between two steps *)

LEMMA CrashKept == ASSUME ~ CrashUnseen, Base, Base', Kept, Crash PROVE Kept'
<1>1. Die /\ UNCHANGED <<venueVars, shareVars, shrink, excused>> /\ UNCHANGED <<deals, judged>>
  BY DEF Crash, resumeVars, venueVars, verdictVars
<1>2. Pending(1)' = Pending(1)
  BY <1>1 DEF Pending, Closing
<1> QED BY <1>1, <1>2, StopKept

LEMMA CutPushKept ==
  ASSUME ~ CrashUnseen, Base, Base', Kept, NEW d \in Closing, NEW low, CutPush(d, low)
  PROVE  Kept'
<1>1. Die /\ UNCHANGED <<venueVars, shareVars, shrink, excused>>
  BY DEF CutPush, resumeVars
<1>2. Pending(1)' \subseteq Pending(1)
  BY CutPushBase
<1> QED BY <1>1, <1>2, StopKept

LEMMA CutKept ==
  ASSUME ~ CrashUnseen, Base, Base', Kept, NEW first, NEW takes \in [Pending(first) -> Take],
         CutJudgement(takes)
  PROVE  Kept'
<1>1. Die /\ UNCHANGED <<venueVars, shareVars, shrink, excused>>
  BY DEF CutJudgement, resumeVars
<1>2. Pending(1)' \subseteq Pending(1)
  BY CutBase
<1> QED BY <1>1, <1>2, StopKept

-----------------------------------------------------------------------------
(* A judged history *)

\* A run whose rows are closed or whose venue an operator accepted owes nothing more.
LEMMA OverKept ==
  ASSUME UNCHANGED venueVars, ~ excused' => ~ excused, Kept,
         excused' \/ (rows' = 0 /\ marked' = marked)
  PROVE  Kept'
<1>1. /\ Closing' = Closing /\ deals' = deals /\ ~ Live'
      /\ Undisturbed' => Undisturbed /\ ~ (rows' > 0)
  <2>1. ~ (0 > 0)
    OBVIOUS
  <2> QED BY <2>1, SteadyVolumes DEF Live, Undisturbed
<1>2. PendingSound'
  <2>1. ~ (0 > 0)
    OBVIOUS
  <2> QED BY <2>1 DEF PendingSound, Kept
<1>3. OwnSound'
  BY <1>1 DEF OwnSound, Kept
<1>4. ShareSound' /\ BookSound' /\ ArrivalSound'
  BY <1>1 DEF ShareSound, BookSound, ArrivalSound
<1> QED BY <1>2, <1>3, <1>4 DEF Kept

\* With no push on its way, the volumes settle in the journal and the engine alone.
LEMMA SettledKept ==
  ASSUME Base', UNCHANGED venueVars, ~ excused' => ~ excused, rows' > 0 => rows > 0, Kept,
         PendingSound', Arriving' = {},
         Undisturbed /\ Closing = {} /\ rows' > 0 => Share' = mine /\ shrink' = 0,
         Live' =>
           /\ Share' + shrink' >= mine + Owed' /\ Share' >= mine
           /\ mine < vol => shrink' = 0 /\ Share' <= mine + Missed'
           /\ phase' = "up" => book' + shrink' >= mine + Undelivered' /\ book' >= mine
  PROVE  Kept'
<1>1. Coming' = 0
  BY SettledOwes
<1>2. mine' \in Nat /\ mine' = mine
  BY NextFacts DEF Numbers, venueVars
<1>3. mine + Coming' = mine
  BY <1>1, <1>2
<1> QED BY <1>3, SteadyKept

\* Judging the whole history leaves no close to be judged, delivered or waited for.
LEMMA JudgedSettles ==
  ASSUME Base, Base', Kept, UNCHANGED <<venueVars, excused, marked, wire>>,
         rows' = rows, cover' = Len(deals),
         NEW takes \in [Pending(1) -> Take], JudgeRecovered(takes),
         unresolved' = unresolved \ DOMAIN takes
  PROVE  /\ Pending(1)' = {} /\ Arriving' = {} /\ PendingSound'
         /\ Owed' = 0 /\ Undelivered' = 0
         /\ ~ excused /\ rows > 0 => Missed' = 0
<1>1. Pending(1)' = {}
  BY JudgedRecorded DEF JudgeRecovered, MarkTakes
<1>2. Arriving' = {}
  <2>1. \A d \in Range(wire) : d \in Closing
    BY DEF Base, WireSound, Range
  <2>2. \A d \in Closing : d <= Len(deals)
    BY PendingCloses, NumbersTyped DEF Numbers
  <2> QED BY <2>1, <2>2 DEF Arriving, Late
<1>3. ~ excused /\ rows > 0 => unresolved' = {}
  BY PendingCloses DEF Kept, PendingSound
<1>4. PendingSound'
  BY <1>2, <1>3 DEF PendingSound, Kept
<1> QED BY <1>1, <1>2, <1>3, <1>4, SettledOwes

LEMMA PassAcceptKept == ASSUME Base, Kept, PassAccept PROVE Kept'
<1>1. excused
  BY DEF PassAccept, Kept, PendingSound
<1> QED BY <1>1, OverKept DEF PassAccept, resumeVars

LEMMA PassGoneKept ==
  ASSUME ~ CrashUnseen, Sound, Base', Kept, PassGone
  PROVE  Kept'
<1>1. PICK takes : /\ takes = ReplayShareCloses(FirstEntry, Share, seen \union {FirstEntry})
                   /\ (rows' = 0 /\ marked' = marked /\ UNCHANGED <<venueVars, excused>>)
                      \/ CutJudgement(takes)
  BY DEF PassGone, resumeVars
<1>2. takes \in [Pending(FirstEntry) -> Take]
  BY <1>1, FoundTyped, NumbersTyped DEF Sound, Numbers
<1>3. CASE CutJudgement(takes)
  BY <1>2, <1>3, CutKept DEF Sound
<1>4. CASE rows' = 0 /\ marked' = marked /\ UNCHANGED <<venueVars, excused>>
  BY <1>4, OverKept
<1> QED BY <1>1, <1>3, <1>4

LEMMA PassGoneAcceptedKept == ASSUME Kept, PassGoneAccepted PROVE Kept'
BY OverKept DEF PassGoneAccepted, resumeVars

\* What a startup shrink was counted for is not retired once more.
LEMMA PassStartupKept ==
  ASSUME ~ CrashUnseen, Sound, Base', Kept, PassStartup
  PROVE  Kept'
<1>1. PICK takes : /\ takes = ReplayShareCloses(1, Share + shrink, seen)
                   /\ \/ /\ JudgeRecovered(takes) /\ shrink' = 0 /\ cover' = Len(deals)
                         /\ retired' = retired + Least(AtLeast0(Taken(takes) - shrink), Share)
                         /\ unresolved' = unresolved \ DOMAIN takes
                         /\ UNCHANGED <<venueVars, wire, rows, filled, resumeVars, phase, marked, book>>
                      \/ CutJudgement(takes)
  BY DEF PassStartup
<1>2. takes \in [Pending(1) -> Take] /\ Taken(takes) = Owed
  <2>1. PICK share : share = Share + shrink /\ share \in Nat
    BY NumbersTyped DEF Sound, Numbers
  <2>2. takes = ReplayShareCloses(1, share, seen)
    BY <1>1, <2>1
  <2>3. takes \in [Pending(1) -> Take]
    BY <2>1, <2>2, FoundTyped DEF Sound
  <2>4. Taken(takes) = Owed
    BY <2>2, ExactVolumes DEF Sound, Owed
  <2> QED BY <2>3, <2>4
<1>3. CASE CutJudgement(takes)
  BY <1>2, <1>3, CutKept DEF Sound
<1>4. CASE ~ CutJudgement(takes)
  <2>1. /\ UNCHANGED <<venueVars, excused, marked, wire>> /\ rows' = rows /\ cover' = Len(deals)
        /\ JudgeRecovered(takes) /\ unresolved' = unresolved \ DOMAIN takes
        /\ shrink' = 0 /\ book' = book /\ phase' = phase /\ filled' = filled
        /\ retired' = retired + Least(AtLeast0(Owed - shrink), Share)
    BY <1>1, <1>2, <1>4 DEF resumeVars
  <2>2. /\ Arriving' = {} /\ PendingSound' /\ Owed' = 0 /\ Undelivered' = 0
    BY <1>2, <2>1, JudgedSettles DEF Sound
  <2>3. phase = "up" /\ rows > 0 /\ shrink > 0
    BY DEF PassStartup, Judgeable, Open
  <2>n. /\ Share \in Nat /\ shrink \in Nat /\ mine \in Nat /\ Owed \in Nat /\ book \in Int
        /\ Undelivered \in Nat /\ Coming \in Nat
    BY NumbersTyped, OwedTyped DEF Sound, Numbers
  <2>4. ASSUME Live
        PROVE  /\ Share' >= mine /\ ~ (mine < vol) /\ book >= mine
    <3>1. /\ Share + shrink >= mine + Owed /\ Share >= mine + Coming /\ (mine < vol => shrink = 0)
          /\ book >= mine + Coming
      BY <2>3, <2>4, KeptNumbers
    <3>2. AtLeast0(Owed - shrink) \in Nat
      BY <2>n DEF AtLeast0
    <3>3. Share' = Share - Least(AtLeast0(Owed - shrink), Share)
      BY <2>1, <3>2, RetireTyped DEF Sound
    <3>4. Share - Least(AtLeast0(Owed - shrink), Share) >= mine
      BY <2>n, <3>1 DEF Least, AtLeast0
    <3> QED BY <2>3, <2>n, <3>1, <3>3, <3>4
  <2>5. Live' => Live
    BY <2>1, SteadyLive
  <2>6. Undisturbed /\ Closing = {} /\ rows' > 0 => Share' = mine /\ shrink' = 0
    BY <2>3, <2>n DEF Kept, OwnSound
  <2>7. Live' => /\ Share' + shrink' >= mine + Owed' /\ Share' >= mine
                 /\ mine < vol => shrink' = 0 /\ Share' <= mine + Missed'
                 /\ phase' = "up" => book' + shrink' >= mine + Undelivered' /\ book' >= mine
    <3> DEFINE s == Share'
    <3>1. s \in Nat
      BY NextFacts DEF Numbers
    <3> HIDE DEF s
    <3>2. s >= mine /\ book >= mine => s + 0 >= mine + 0 /\ book + 0 >= mine + 0
      BY <2>n, <3>1
    <3> QED BY <2>1, <2>2, <2>4, <2>5, <3>2 DEF s
  <2> QED BY <2>1, <2>2, <2>3, <2>6, <2>7, SettledKept
<1> QED BY <1>3, <1>4

\* The own closes whose fill was not seen took all they closed, and are all to be judged.
LEMMA MissedOwed ==
  ASSUME Base, Kept, Live
  PROVE  Missed <= Owed
<1>1. /\ unresolved \subseteq Pending(1) /\ Pending(1) \in SUBSET DOMAIN deals
      /\ \A d \in unresolved : deals[d].took = deals[d].closed
  BY LiveFacts, PendingCloses DEF Kept, OwnPending
<1>2. TookBy(unresolved) = ClosedBy(unresolved)
  BY <1>1, TookAll
<1>3. TookBy(unresolved) <= TookBy(Pending(1))
  BY <1>1, VolumesGrow
<1> QED BY <1>2, <1>3 DEF Missed, Owed

\* Judging a shortfall settles the journal on the run's true share.
LEMMA ShortfallSettled ==
  ASSUME Sound, Kept, Live, shrink = 0, vol < Share,
         filled' = filled, retired' = retired + Least(Most(Share - vol, Owed), Share)
  PROVE  Share' = mine
<1>1. Share >= mine + Owed /\ (mine < vol => Share <= mine + Missed)
  <2>1. Share + 0 >= mine + Owed /\ (mine < vol => Share <= mine + Missed)
    BY KeptNumbers
  <2> QED BY <2>1, NumbersTyped DEF Sound, Numbers
<1>2. Missed <= Owed
  BY MissedOwed DEF Sound
<1>n. /\ Share \in Nat /\ mine \in Nat /\ vol \in Nat /\ mine <= vol /\ Owed \in Nat
      /\ Missed \in Nat
  BY NumbersTyped, OwedTyped DEF Sound, Numbers
<1>3. Most(Share - vol, Owed) \in Nat
  BY <1>n DEF Most
<1>4. Share' = Share - Least(Most(Share - vol, Owed), Share)
  BY <1>3, RetireTyped DEF Sound
<1>5. Share - Least(Most(Share - vol, Owed), Share) = mine
  BY <1>1, <1>2, <1>n DEF Least, Most
<1> QED BY <1>4, <1>5

\* What a pass does that judges a shortfall.
LEMMA PassJudgeDoes ==
  ASSUME Sound, PassJudge
  PROVE  /\ phase = "up" /\ rows > 0 /\ vol > 0 /\ shrink = 0 /\ vol < Share
         /\ \E takes \in [Pending(1) -> Take] :
              /\ Taken(takes) = Owed /\ TakenBy(takes, Took(takes) \ seen) = Undelivered
              /\ \/ /\ JudgeRecovered(takes) /\ UNCHANGED <<venueVars, excused, marked, wire, shrink>>
                    /\ book' = book - Undelivered /\ cover' = Len(deals)
                    /\ filled' = filled
                    /\ retired' = retired + Least(Most(Share - vol, Owed), Share)
                    /\ unresolved' = unresolved \ DOMAIN takes /\ rows' = rows /\ phase' = phase
                 \/ CutJudgement(takes) /\ phase' = "down"
<1>1. phase = "up" /\ rows > 0 /\ vol > 0 /\ shrink = 0 /\ vol < Share
  <2>1. ~ (0 > 0)
    OBVIOUS
  <2> QED BY <2>1 DEF PassJudge, Judgeable, Open
<1>2. PICK takes : /\ takes = ReplayShareCloses(1, Share, seen)
                   /\ \/ /\ JudgeRecovered(takes)
                         /\ book' = book - TakenBy(takes, Took(takes) \ seen)
                         /\ cover' = Len(deals)
                         /\ retired' = retired + Least(Most(Share - vol, Taken(takes)), Share)
                         /\ unresolved' = unresolved \ DOMAIN takes
                         /\ UNCHANGED <<venueVars, wire, rows, filled, shrink, resumeVars, phase, marked>>
                      \/ CutJudgement(takes)
  BY DEF PassJudge
<1>3. PICK share : share = Share /\ share \in Nat
  BY NumbersTyped DEF Sound, Numbers
<1>4. takes = ReplayShareCloses(1, share, seen)
  BY <1>2, <1>3
<1>5. takes \in [Pending(1) -> Take]
  BY <1>3, <1>4, FoundTyped DEF Sound
<1>6. Taken(takes) = Owed /\ TakenBy(takes, Took(takes) \ seen) = Undelivered
  BY <1>4, ExactVolumes DEF Sound, Owed, Undelivered
<1>7. CutJudgement(takes) => phase' = "down"
  BY DEF CutJudgement, Die
<1> QED BY <1>1, <1>2, <1>5, <1>6, <1>7 DEF resumeVars

LEMMA PassJudgeKept ==
  ASSUME ~ CrashUnseen, Sound, Base', Kept, PassJudge
  PROVE  Kept'
<1>1. PICK takes \in [Pending(1) -> Take] :
        \/ /\ JudgeRecovered(takes) /\ UNCHANGED <<venueVars, excused, marked, wire, shrink>>
           /\ book' = book - Undelivered /\ cover' = Len(deals) /\ filled' = filled
           /\ retired' = retired + Least(Most(Share - vol, Owed), Share)
           /\ unresolved' = unresolved \ DOMAIN takes /\ rows' = rows /\ phase' = phase
        \/ CutJudgement(takes)
  BY PassJudgeDoes
<1>2. phase = "up" /\ rows > 0 /\ shrink = 0 /\ vol < Share
  BY PassJudgeDoes
<1>3. CASE CutJudgement(takes)
  BY <1>3, CutKept DEF Sound
<1>4. CASE ~ CutJudgement(takes)
  <2>1. /\ UNCHANGED <<venueVars, excused, marked, wire>> /\ rows' = rows /\ cover' = Len(deals)
        /\ JudgeRecovered(takes) /\ unresolved' = unresolved \ DOMAIN takes
        /\ shrink' = shrink /\ book' = book - Undelivered /\ phase' = phase /\ filled' = filled
        /\ retired' = retired + Least(Most(Share - vol, Owed), Share)
    BY <1>1, <1>4
  <2>2. /\ Arriving' = {} /\ PendingSound' /\ Owed' = 0 /\ Undelivered' = 0
    BY <2>1, JudgedSettles DEF Sound
  <2>n. /\ Share \in Nat /\ shrink \in Nat /\ mine \in Nat /\ Owed \in Nat /\ book \in Int
        /\ Undelivered \in Nat /\ vol \in Nat /\ mine <= vol
    BY NumbersTyped, OwedTyped DEF Sound, Numbers
  <2>3. Live' => Live
    BY <2>1, SteadyLive
  <2>4. Live => Share' = mine /\ book + 0 >= mine + Undelivered
    BY <1>2, <2>1, ShortfallSettled, KeptNumbers
  <2>5. Live => book - Undelivered >= mine
    BY <2>4, <2>n
  <2>6. Live' => /\ Share' + shrink' >= mine + Owed' /\ Share' >= mine
                 /\ mine < vol => shrink' = 0 /\ Share' <= mine + Missed'
                 /\ phase' = "up" => book' + shrink' >= mine + Undelivered' /\ book' >= mine
    <3> DEFINE missed == Missed'
               left == book - Undelivered
    <3>1. missed \in Nat /\ left \in Int
      BY <2>n, NextOwed
    <3>2. Live => left >= mine
      BY <2>5
    <3> HIDE DEF missed, left
    <3>3. mine + 0 >= mine + 0 /\ mine <= mine + missed /\ (Live => left + 0 >= mine + 0 /\ left >= mine)
      BY <2>n, <3>1, <3>2
    <3>4. book' = left /\ shrink' = 0 /\ missed = Missed'
      BY <1>2, <2>1 DEF missed, left
    <3>5. ASSUME Live' PROVE Share' + shrink' >= mine + Owed' /\ Share' >= mine
      <4>1. Share' = mine /\ shrink' = 0 /\ Owed' = 0
        BY <2>2, <2>3, <2>4, <3>4, <3>5
      <4>2. mine + 0 >= mine + 0 /\ mine >= mine
        BY <2>n
      <4> QED BY <4>1, <4>2, Zenon
    <3>6. ASSUME Live' PROVE mine < vol => shrink' = 0 /\ Share' <= mine + Missed'
      BY <2>2, <2>3, <2>4, <3>3, <3>4, <3>6
    <3>7. ASSUME Live' PROVE book' + shrink' >= mine + Undelivered' /\ book' >= mine
      BY <2>2, <2>3, <2>4, <3>3, <3>4, <3>7
    <3> QED BY <3>5, <3>6, <3>7
  <2>7. Undisturbed /\ Closing = {} /\ rows' > 0 => Share' = mine /\ shrink' = 0
    BY <1>2, <2>n DEF Kept, OwnSound
  <2> QED BY <2>1, <2>2, <2>6, <2>7, SettledKept
<1> QED BY <1>3, <1>4

LEMMA PassUnsharedKept ==
  ASSUME ~ CrashUnseen, Sound, Base', Kept, PassUnshared
  PROVE  Kept'
<1>1. PICK share, takes :
        /\ share = (IF rows > 0 THEN Share ELSE 0) + shrink
        /\ takes = ReplayShareCloses(1, share, seen)
        /\ \/ /\ JudgeRecovered(takes) /\ shrink' = 0 /\ cover' = Len(deals)
              /\ unresolved' = unresolved \ DOMAIN takes
              /\ UNCHANGED <<venueVars, wire, shareVars, resumeVars, phase, marked, book>>
           \/ CutJudgement(takes)
  BY DEF PassUnshared
<1>2. takes \in [Pending(1) -> Take]
  <2>1. share \in Nat
    BY <1>1, NumbersTyped DEF Sound, Numbers
  <2> QED BY <1>1, <2>1, FoundTyped DEF Sound
<1>3. CASE CutJudgement(takes)
  BY <1>2, <1>3, CutKept DEF Sound
<1>4. CASE ~ CutJudgement(takes)
  <2>1. /\ UNCHANGED <<venueVars, excused, marked, wire>> /\ rows' = rows /\ cover' = Len(deals)
        /\ JudgeRecovered(takes) /\ unresolved' = unresolved \ DOMAIN takes
        /\ shrink' = 0 /\ book' = book /\ phase' = phase /\ Share' = Share
    BY <1>1, <1>4 DEF resumeVars, shareVars, Share
  <2>2. /\ Arriving' = {} /\ PendingSound' /\ Owed' = 0 /\ Undelivered' = 0
    BY <1>2, <2>1, JudgedSettles DEF Sound
  <2>n. /\ Share \in Nat /\ shrink \in Nat /\ mine \in Nat /\ book \in Int
        /\ Coming \in Nat /\ vol \in Nat /\ mine <= vol
    BY NumbersTyped, OwedTyped DEF Sound, Numbers
  <2>3. phase = "up" /\ shrink > 0 /\ (rows > 0 => ~ (vol > 0))
    BY DEF PassUnshared, Open
  <2>4. Live => mine = 0 /\ vol = 0 /\ Share >= 0 /\ book >= 0
    <3>1. Live => rows > 0 /\ book >= mine + Coming
      BY <2>3, KeptNumbers DEF Live
    <3> QED BY <2>3, <2>n, <3>1
  <2>5. Live' => Live
    BY <2>1, SteadyLive
  <2>6. Live' => /\ Share' + shrink' >= mine + Owed' /\ Share' >= mine
                 /\ mine < vol => shrink' = 0 /\ Share' <= mine + Missed'
                 /\ phase' = "up" => book' + shrink' >= mine + Undelivered' /\ book' >= mine
    <3>1. Live => /\ Share + 0 >= mine + 0 /\ Share >= mine /\ ~ (mine < vol)
                  /\ book + 0 >= mine + 0 /\ book >= mine
      BY <2>4, <2>n
    <3> QED BY <2>1, <2>2, <2>5, <3>1
  <2>7. Undisturbed /\ Closing = {} /\ rows' > 0 => Share' = mine /\ shrink' = 0
    BY <2>1, <2>3, <2>n DEF Kept, OwnSound
  <2> QED BY <2>1, <2>2, <2>6, <2>7, SettledKept
<1> QED BY <1>3, <1>4

-----------------------------------------------------------------------------
(* A restart *)

\* What the baseline retires is kept as a shrink still to be judged.
LEMMA RestartKept == ASSUME Sound, Base', Kept, Restart PROVE Kept'
<1>1. /\ UNCHANGED <<venueVars, excused, marked, unresolved, wire, seen, judged>> /\ rows' = rows
      /\ phase = "down" /\ filled' = filled
      /\ retired' = retired + Baseline /\ shrink' = shrink + Baseline
      /\ book' = IF rows > 0 THEN filled - retired' ELSE 0
  BY DEF Restart, Began, resumeVars
<1>2. wire = <<>> /\ unresolved = {}
  BY <1>1 DEF Sound, Base, WireSound
<1>3. Pending(1)' = Pending(1) /\ Arriving' = {} /\ Undelivered' = Undelivered
  <2>1. Range(wire') = {}
    BY <1>1, <1>2 DEF Range
  <2>2. Pending(1)' = Pending(1)
    BY <1>1 DEF Pending, Closing, venueVars
  <2>3. PICK P : P = Pending(1) \ seen
    OBVIOUS
  <2>4. TookBy(P)' = TookBy(P)
    BY <1>1, SteadyVolumes
  <2> QED BY <1>1, <2>1, <2>2, <2>3, <2>4 DEF Arriving, Undelivered
<1>4. PendingSound'
  BY <1>1, <1>2, <1>3 DEF PendingSound, Kept
<1>5. Owed' = Owed /\ Missed = 0
  <2>1. PICK P : P = Pending(1)
    OBVIOUS
  <2>2. TookBy(P)' = TookBy(P)
    BY <1>1, SteadyVolumes
  <2>3. Missed = 0
    BY <1>2, VolumesEmpty DEF Missed
  <2> QED BY <1>3, <2>1, <2>2, <2>3 DEF Owed
<1>n. /\ Share \in Nat /\ shrink \in Nat /\ mine \in Nat /\ vol \in Nat /\ mine <= vol
      /\ Owed \in Nat /\ Coming \in Nat /\ Undelivered \in Nat /\ filled \in Nat /\ retired \in Nat
      /\ Share = filled - retired
  BY NumbersTyped, OwedTyped DEF Sound, Numbers
<1>6. PICK b : /\ b = Baseline /\ b \in Nat /\ b <= Share /\ (vol >= Share => b = 0)
               /\ (Share > vol => Share - b >= vol)
  BY BaselineTyped DEF Sound
<1>7. Share' = Share - b /\ shrink' = shrink + b /\ (rows > 0 => book' = Share - b)
  <2>1. filled - (retired + b) = Share - b
    BY <1>n, <1>6
  <2> QED BY <1>1, <1>6, <2>1 DEF Share
<1>8. Live' => Live
  BY <1>1, SteadyLive
<1>9. ASSUME Live
      PROVE  /\ Share - b >= mine /\ (Share - b) + (shrink + b) >= mine + Owed
             /\ mine < vol => shrink + b = 0 /\ Share - b <= mine
             /\ (Share - b) + (shrink + b) >= mine + Undelivered /\ rows > 0
  <2>1. /\ Share + shrink >= mine + Owed /\ Share >= mine + Coming
        /\ mine < vol => shrink = 0 /\ Share <= mine + Missed
    BY <1>9, KeptNumbers
  <2>2. Undelivered <= Owed
    <3>1. Pending(1) \in SUBSET DOMAIN deals /\ Pending(1) \ seen \subseteq Pending(1)
      BY PendingCloses
    <3> QED BY <3>1, VolumesGrow DEF Sound, Undelivered, Owed
  <2>3. mine < vol => Share <= mine + 0
    BY <1>5, <2>1
  <2> QED BY <1>n, <1>6, <1>9, <2>1, <2>2, <2>3 DEF Live
<1>10. Live' => /\ Share' + shrink' >= mine + Owed' /\ Share' >= mine
                /\ mine < vol => shrink' = 0 /\ Share' <= mine + Missed'
                /\ phase' = "up" => book' + shrink' >= mine + Undelivered' /\ book' >= mine
  <2>1. Missed' = 0
    BY <1>1, <1>2, SettledOwes
  <2>2. mine + 0 = mine
    BY <1>n
  <2>3. mine + Missed' = mine
    BY <2>1, <2>2, Zenon
  <2> QED BY <1>3, <1>5, <1>7, <1>8, <1>9, <2>3, Zenon
<1>11. Undisturbed /\ Closing = {} /\ rows' > 0 => Share' = mine /\ shrink' = 0
  <2>1. Undisturbed /\ Closing = {} /\ rows' > 0 => Share = mine /\ shrink = 0
    BY <1>1 DEF Kept, OwnSound
  <2>2. Share = mine /\ shrink = 0 => Share - b = mine /\ shrink + b = 0
    BY <1>n, <1>6
  <2> QED BY <1>7, <2>1, <2>2
<1> QED BY <1>1, <1>3, <1>4, <1>10, <1>11, SettledKept

LEMMA RestartUnreadKept == ASSUME Sound, Base', Kept, RestartUnread PROVE Kept'
<1>1. /\ UNCHANGED <<venueVars, excused, marked, unresolved, wire, seen, judged, shrink>>
      /\ rows' = rows /\ vol = 0 /\ rows > 0 /\ phase = "down" /\ Share' = Share /\ book' = Share
  BY DEF RestartUnread, Began, resumeVars, Share
<1>2. wire = <<>> /\ unresolved = {}
  BY <1>1 DEF Sound, Base, WireSound
<1>3. Pending(1)' = Pending(1) /\ Arriving' = {}
  <2>1. Range(wire') = {}
    BY <1>1, <1>2 DEF Range
  <2> QED BY <1>1, <2>1 DEF Pending, Closing, venueVars, Arriving
<1>4. PendingSound'
  BY <1>1, <1>2, <1>3 DEF PendingSound, Kept
<1>5. Owed' <= Owed /\ Undelivered' <= Undelivered
  BY <1>1, <1>3, SteadyOwed DEF Sound
<1>n. /\ Share \in Nat /\ shrink \in Nat /\ mine \in Nat /\ vol \in Nat /\ mine <= vol
      /\ Owed \in Nat /\ Coming \in Nat /\ Undelivered \in Nat
  BY NumbersTyped, OwedTyped DEF Sound, Numbers
<1>8. Live' => Live
  BY <1>1, SteadyLive
<1>9. ASSUME Live
      PROVE  /\ Share >= mine /\ Share + shrink >= mine + Owed' /\ ~ (mine < vol)
             /\ Share + shrink >= mine + Undelivered'
  <2>1. /\ Share + shrink >= mine + Owed /\ Share >= mine + Coming
    BY <1>9, KeptNumbers
  <2>2. Undelivered <= Owed
    <3>1. Pending(1) \in SUBSET DOMAIN deals /\ Pending(1) \ seen \subseteq Pending(1)
      BY PendingCloses
    <3> QED BY <3>1, VolumesGrow DEF Sound, Undelivered, Owed
  <2> DEFINE owed == Owed'
             left == Undelivered'
  <2>3. owed \in Nat /\ left \in Nat /\ owed <= Owed /\ left <= Undelivered
    BY <1>5, NextOwed
  <2> HIDE DEF owed, left
  <2>4. /\ Share >= mine /\ Share + shrink >= mine + owed /\ ~ (mine < vol)
        /\ Share + shrink >= mine + left
    BY <1>1, <1>n, <2>1, <2>2, <2>3
  <2> QED BY <2>4 DEF owed, left
<1>11. Undisturbed /\ Closing = {} /\ rows' > 0 => Share' = mine /\ shrink' = 0
  BY <1>1 DEF Kept, OwnSound
<1> QED BY <1>1, <1>3, <1>4, <1>8, <1>9, <1>11, SettledKept

LEMMA RestartGoneKept == ASSUME ~ CrashUnseen, Sound, Base', Kept, RestartGone PROVE Kept'
<1>1. PICK takes : /\ takes = ReplayShareCloses(FirstEntry, Share, {FirstEntry})
                   /\ \/ \E reports : Began(reports) /\ Retire
                      \/ CutJudgement(takes)
  BY DEF RestartGone
<1>2. takes \in [Pending(FirstEntry) -> Take]
  <2>1. Share \in Nat
    BY JournalTyped DEF Sound
  <2> QED BY <1>1, <2>1, FoundTyped DEF Sound
<1>3. CASE CutJudgement(takes)
  BY <1>2, <1>3, CutKept DEF Sound
<1>4. CASE \E reports : Began(reports) /\ Retire
  BY <1>4, OverKept DEF Retire, Began, resumeVars
<1> QED BY <1>1, <1>3, <1>4

LEMMA StartKept == ASSUME ~ CrashUnseen, Sound, Base', Kept, Start PROVE Kept'
<1>1. ResumedRestart => Kept'
  BY OverKept DEF ResumedRestart, Began
<1>2. RestartGone => Kept'
  BY RestartGoneKept
<1>3. RestartGoneAccepted => Kept'
  BY OverKept DEF RestartGoneAccepted, Began
<1> QED BY <1>1, <1>2, <1>3, RestartKept, RestartUnreadKept DEF Start

-----------------------------------------------------------------------------
(* The journal and the engine cover the run's share *)

LEMMA InitKept == Init => Kept
<1> SUFFICES ASSUME Init PROVE Kept
  OBVIOUS
<1>1. Base
  BY InitBase
<1>2. Closing = {}
  <2> DEFINE o == Deal("others", Others0, 0, Others0, 0)
             e == Deal("entry", Mine0, 0, Mine0 + Others0, 0)
  <2>1. deals \in Seq({o, e})
    BY InitDeals
  <2>2. o.closed = 0 /\ e.closed = 0
    BY DEF Deal
  <2> HIDE DEF o, e
  <2>3. \A d \in DOMAIN deals : deals[d] \in {o, e}
    BY <2>1
  <2> QED BY <2>2, <2>3 DEF Closing
<1>3. Arriving = {} /\ Pending(1) = {} /\ OwnPending = {} /\ Pending(1) \ seen = {}
  <2>1. Range(wire) = {}
    BY DEF Init, Range
  <2> QED BY <1>2, <2>1 DEF Arriving, Pending, OwnPending
<1>4. /\ unresolved = {} /\ marked = FALSE /\ shrink = 0 /\ mine = Mine0 /\ book = Mine0
      /\ filled = Mine0 /\ retired = 0 /\ Mine0 \in Nat
  BY ShareAssumption DEF Init
<1>5. Share = Mine0
  BY <1>4 DEF Share
<1>6. TookBy(Pending(1)) = 0 /\ TookBy(Arriving) = 0 /\ TookBy(Pending(1) \ seen) = 0
      /\ ClosedBy(unresolved) = 0
  BY <1>3, <1>4, VolumesEmpty
<1>7. PendingSound /\ OwnSound /\ ArrivalSound
  BY <1>2, <1>3, <1>4, <1>5 DEF PendingSound, OwnSound, ArrivalSound
<1>8. ShareSound /\ BookSound
  BY <1>4, <1>5, <1>6 DEF ShareSound, BookSound
<1> QED BY <1>7, <1>8 DEF Kept

LEMMA NextKept ==
  ASSUME ~ CrashUnseen, Sound, Sound', Kept, [Next]_vars
  PROVE  Kept'
<1>b. Base /\ Base'
  BY DEF Sound
<1>1. (\E deal : Happens(deal)) => Kept'
  BY <1>b, HappensKept
<1>2. Venue \/ OwnClose \/ OwnEntry => Kept'
  BY <1>b, <1>1, ForeignHappens, OthersHappen, OwnCloseHappens, OwnEntryHappens DEF Venue
<1>3. Stream => Kept'
  <2>1. TakePush => Kept'
    BY <1>b, JudgePushKept, CutPushKept, HeadOfWire DEF TakePush
  <2> QED BY <1>b, <2>1, DropKept DEF Stream
<1>4. Pass => Kept'
  BY <1>b, ClearKept, PassAcceptKept, PassStartupKept, PassJudgeKept, PassUnsharedKept, PassGoneKept,
     PassGoneAcceptedKept DEF Pass
<1> QED BY <1>b, <1>2, <1>3, <1>4, LoseKept, CrashKept, StartKept, ClearKept DEF Next

LEMMA AlwaysKept ==
  ASSUME ~ CrashUnseen
  PROVE  Spec => [](Sound /\ Kept)
<1>1. Init => Sound /\ Kept
  BY InitBase, InitReplay, InitKept DEF Sound
<1>2. Sound /\ Kept /\ [Next]_vars => (Sound /\ Kept)'
  BY NextSound, NextKept
<1> QED BY <1>1, <1>2, PTL DEF Spec

\* The journal never falls below the run's share while its rows are live and the run is
\* undisturbed, for any history, any bounds and any order of pushes, lost connections,
\* judged histories and restarts: a pushed close, the baseline of a restart and a judged
\* history never retire one close twice, where a process stops once it saw the fills of
\* its own closes.
THEOREM JournalCoversAlways ==
  ASSUME ~ CrashUnseen
  PROVE  Spec => []JournalCovers
<1>1. Sound /\ Kept => JournalCovers
  <2> SUFFICES ASSUME Sound, Kept, Live PROVE Share >= mine
    BY DEF JournalCovers, Live
  <2>1. Share >= mine + Coming /\ Share \in Nat /\ mine \in Nat /\ Coming \in Nat
    BY KeptNumbers, NumbersTyped, OwedTyped DEF Sound, Numbers
  <2> QED BY <2>1
<1> QED BY <1>1, AlwaysKept, PTL

\* Nor does the engine's own count fall below it: what a pass delivered is not delivered
\* again by its late push, nor a close the start-up baseline counted.
THEOREM BookCoversAlways ==
  ASSUME ~ CrashUnseen
  PROVE  Spec => []BookCovers
<1>1. Sound /\ Kept => BookCovers
  <2> SUFFICES ASSUME Sound, Kept, Live, phase = "up" PROVE book >= mine
    BY DEF BookCovers, Live
  <2>1. book >= mine + Coming /\ book \in Int /\ mine \in Nat /\ Coming \in Nat
    BY KeptNumbers, NumbersTyped, OwedTyped DEF Sound, Numbers
  <2> QED BY <2>1
<1> QED BY <1>1, AlwaysKept, PTL

\* A pass that judges a shortfall from the position's whole history leaves the journal at
\* the run's true share, whatever the others hold and whichever closes were missed.
THEOREM ShortfallJudgedExactly ==
  ASSUME ~ CrashUnseen
  PROVE  Spec => RecoveredExact
<1>1. Sound /\ Kept /\ [Next]_vars
        => [PassJudge /\ phase' = "up" /\ Undisturbed => filled' - retired' = mine']_vars
  <2> SUFFICES ASSUME Sound, Kept, PassJudge, phase' = "up", Undisturbed
               PROVE  filled' - retired' = mine'
    OBVIOUS
  <2>1. /\ filled' = filled /\ retired' = retired + Least(Most(Share - vol, Owed), Share)
        /\ mine' = mine /\ shrink = 0 /\ vol < Share /\ rows > 0
    BY PassJudgeDoes DEF venueVars
  <2>2. Share' = mine
    BY <2>1, ShortfallSettled DEF Live
  <2> QED BY <2>1, <2>2 DEF Share
<1> QED BY <1>1, AlwaysKept, PTL DEF Spec, RecoveredExact

-----------------------------------------------------------------------------
(* What a history from the run's first entry on finds *)

EntriesFrom(d) == {e \in OwnEntries : e >= d}
EntriesAfter(d) == {e \in OwnEntries : e > d}
ClosesFrom(d) == {e \in Closing : e >= d}
PendingBefore(d) == {e \in Pending(1) : e < d}
OwnBefore(d) == {e \in OwnPending : e < d}

LEMMA WindowSets ==
  ASSUME NEW d
  PROVE  /\ EntriesFrom(d) \in SUBSET DOMAIN deals /\ EntriesAfter(d) \in SUBSET DOMAIN deals
         /\ ClosesFrom(d) \in SUBSET DOMAIN deals /\ PendingBefore(d) \in SUBSET DOMAIN deals
         /\ OwnBefore(d) \in SUBSET DOMAIN deals
BY PendingCloses DEF EntriesFrom, EntriesAfter, ClosesFrom, PendingBefore, OwnBefore

LEMMA WindowWeighed ==
  ASSUME Base, NEW d
  PROVE  /\ OpenedBy(EntriesFrom(d)) \in Nat /\ OpenedBy(EntriesAfter(d)) \in Nat
         /\ TookBy(ClosesFrom(d)) \in Nat /\ TookBy(PendingBefore(d)) \in Nat
         /\ ClosedBy(OwnBefore(d)) \in Nat
BY WindowSets, DealsWeighed DEF Weighed

\* A larger share loses no less to a close.
LEMMA TakeGrows ==
  ASSUME Base, NEW d \in Closing, NEW x \in Nat, NEW y \in Nat, x <= y
  PROVE  TakeOf(d, x) <= TakeOf(d, y)
<1>1. deals[d].closed \in Nat /\ deals[d].after \in Nat
  BY NumbersTyped DEF Numbers
<1> QED BY <1>1 DEF TakeOf, Least, AtLeast0

\* The share before a deal is what the run has left, less what it opened since, and what
\* the closes since took of it.
LEMMA ShareFrom ==
  ASSUME Base, ReplaySound, NEW d \in 1 .. Len(deals) + 1
  PROVE  ShareBefore[d] + OpenedBy(EntriesFrom(d)) = mine + TookBy(ClosesFrom(d))
<1>0. PICK n : n = Len(deals)
  OBVIOUS
<1> DEFINE before == ShareBefore
           Holds(k) == before[k] + OpenedBy(EntriesFrom(k)) = mine + TookBy(ClosesFrom(k))
           S == {k \in Nat : k <= n => Holds(n + 1 - k)}
<1>n. n \in Nat /\ DOMAIN deals = 1 .. n /\ mine \in Nat
  BY <1>0, NumbersTyped DEF Numbers
<1>r. /\ \A k \in 1 .. n + 1 : before[k] \in Nat
      /\ \A k \in 1 .. n : before[k + 1] = NextShare(k, before[k])
      /\ before[n + 1] = mine
      /\ \A k \in Closing : TakeOf(k, before[k]) = deals[k].took
  BY <1>0, HistoryReplayed DEF Replayed, ReplaySound
<1> HIDE DEF before
<1>1. Holds(n + 1)
  <2>1. EntriesFrom(n + 1) = {} /\ ClosesFrom(n + 1) = {}
    BY <1>n, PendingCloses DEF EntriesFrom, ClosesFrom
  <2> QED BY <1>r, <2>1, VolumesEmpty
<1>2. ASSUME NEW k \in 1 .. n, Holds(k + 1) PROVE Holds(k)
  <2>1. /\ k \in DOMAIN deals /\ before[k] \in Nat /\ before[k + 1] = NextShare(k, before[k])
        /\ deals[k].opened \in Nat /\ deals[k].took \in Nat
    <3>1. k \in 1 .. n + 1 /\ k \in DOMAIN deals
      BY <1>n
    <3>2. deals[k].opened \in Nat /\ deals[k].took \in Nat
      BY <3>1, NumbersTyped DEF Numbers
    <3> QED BY <1>r, <3>1, <3>2
  <2>2. PICK E, C, F, D : /\ E = EntriesFrom(k) /\ C = ClosesFrom(k)
                          /\ F = EntriesFrom(k + 1) /\ D = ClosesFrom(k + 1)
    OBVIOUS
  <2>3. /\ k \in OwnEntries => k \in E /\ F = E \ {k}
        /\ k \notin OwnEntries => F = E
        /\ k \in Closing => k \in C /\ D = C \ {k}
        /\ k \notin Closing => D = C
    <3>1. \A e \in DOMAIN deals : e >= k <=> e = k \/ e >= k + 1
      BY <1>n
    <3>2. ~ (k >= k + 1) /\ k >= k
      BY <1>n
    <3> QED BY <2>2, <3>1, <3>2, PendingCloses DEF EntriesFrom, ClosesFrom
  <2>4. /\ E \in SUBSET DOMAIN deals /\ C \in SUBSET DOMAIN deals
        /\ OpenedBy(F) \in Nat /\ TookBy(D) \in Nat
    BY <2>2, WindowSets, WindowWeighed
  <2>5. /\ k \in OwnEntries => OpenedBy(E) = OpenedBy(F) + deals[k].opened
        /\ k \notin OwnEntries => OpenedBy(E) = OpenedBy(F)
        /\ k \in Closing => TookBy(C) = TookBy(D) + deals[k].took
        /\ k \notin Closing => TookBy(C) = TookBy(D)
    BY <2>3, <2>4, VolumesSplit
  <2>6. before[k + 1] + OpenedBy(F) = mine + TookBy(D)
    BY <1>2, <2>2
  <2>7. CASE k \in Closing
    <3>1. k \notin OwnEntries
      BY <2>7, ClosesOpenNothing
    <3>2. before[k + 1] = before[k] - deals[k].took
      <4>1. PICK x : x = before[k]
        OBVIOUS
      <4>2. NextShare(k, x) = x - TakeOf(k, x)
        BY <2>7, <3>1, Zenon DEF NextShare
      <4>3. TakeOf(k, x) = deals[k].took
        BY <1>r, <2>7, <4>1
      <4> QED BY <2>1, <4>1, <4>2, <4>3
    <3>3. PICK x, y : x = before[k] /\ y = before[k + 1]
      OBVIOUS
    <3>4. y + OpenedBy(F) = mine + TookBy(D) /\ y = x - deals[k].took /\ x \in Nat
      BY <2>1, <2>6, <3>2, <3>3
    <3>5. OpenedBy(E) = OpenedBy(F) /\ TookBy(C) = TookBy(D) + deals[k].took
      BY <2>5, <2>7, <3>1
    <3>6. x + OpenedBy(E) = mine + TookBy(C)
      <4>1. PICK o, t, m, q : o = OpenedBy(F) /\ t = TookBy(D) /\ m = mine /\ q = deals[k].took
        OBVIOUS
      <4>2. o \in Nat /\ t \in Nat /\ m \in Nat /\ q \in Nat /\ x \in Nat
        BY <1>n, <2>1, <2>4, <3>4, <4>1
      <4>3. y + o = m + t /\ y = x - q
        BY <3>4, <4>1
      <4>4. x + o = m + (t + q)
        BY <4>2, <4>3
      <4> QED BY <3>5, <4>1, <4>4
    <3> QED BY <2>2, <3>3, <3>6
  <2>8. CASE k \notin Closing /\ k \in OwnEntries
    <3>2. before[k + 1] = before[k] + deals[k].opened
      BY <2>1, <2>8 DEF NextShare
    <3>3. before[k] + OpenedBy(E) = mine + TookBy(C)
      BY <1>n, <2>1, <2>4, <2>5, <2>6, <2>8, <3>2
    <3> QED BY <2>2, <3>3
  <2>9. CASE k \notin Closing /\ k \notin OwnEntries
    <3>2. before[k + 1] = before[k]
      BY <2>1, <2>9 DEF NextShare
    <3>3. before[k] + OpenedBy(E) = mine + TookBy(C)
      BY <2>5, <2>6, <2>9, <3>2
    <3> QED BY <2>2, <3>3
  <2> QED BY <2>7, <2>8, <2>9
<1> HIDE DEF Holds
<1>3. 0 \in S /\ \A k \in Nat : k \in S => k + 1 \in S
  <2>1. 0 \in S
    BY <1>n, <1>1
  <2>2. ASSUME NEW k \in Nat, k \in S PROVE k + 1 \in S
    <3>1. ASSUME k + 1 <= n PROVE Holds(n + 1 - (k + 1))
      <4>1. PICK j : j = n - k
        OBVIOUS
      <4>2. j \in 1 .. n /\ j + 1 = n + 1 - k /\ n + 1 - (k + 1) = j
        BY <1>n, <3>1, <4>1
      <4>3. Holds(n + 1 - k)
        BY <1>n, <2>2, <3>1
      <4> QED BY <1>2, <4>2, <4>3
    <3> QED BY <3>1
  <2> QED BY <2>1, <2>2
<1>4. Nat \subseteq S
  <2> HIDE DEF S
  <2> QED BY <1>3, NatInduct
<1>5. Holds(d)
  <2>1. PICK k : k = n + 1 - d
    OBVIOUS
  <2>2. k \in Nat /\ k <= n /\ n + 1 - k = d
    BY <1>0, <1>n, <2>1
  <2> QED BY <1>4, <2>2
<1> QED BY <1>5 DEF Holds, before

\* No close comes before the run's first entry.
LEMMA PendingFirst ==
  ASSUME Base
  PROVE  Pending(FirstEntry) = Pending(1) /\ FirstEntry \in {1, 2}
<1>1. \A d \in Closing : d \in Nat /\ d > 1
  <2>1. \A d \in Closing : d \in DOMAIN deals /\ d > 1
    BY NumbersTyped DEF Numbers
  <2>2. \A d \in DOMAIN deals : d \in Nat
    BY NumbersTyped DEF Numbers
  <2> QED BY <2>1, <2>2
<1>2. FirstEntry \in {1, 2}
  BY DEF FirstEntry
<1>3. \A d \in Closing : d >= FirstEntry /\ d >= 1
  BY <1>1, <1>2
<1> QED BY <1>2, <1>3 DEF Pending

\* The upper bound of the share at a close to be judged is no less than the share was there,
\* if no more was taken before it than the closes before it took.
LEMMA HighCovers ==
  ASSUME Base, ReplaySound, Share >= Owed, mine = 0, NEW d \in Pending(1),
         NEW low \in Nat, low <= TookBy(PendingBefore(d)), NEW counted, NEW first
  PROVE  ShareBefore[d] <= HighShare(d, Share, low, Pending(1), counted, first)
<1>0. d \in Closing /\ d \in DOMAIN deals /\ d \in 1 .. Len(deals) + 1 /\ d \in Nat
      /\ d \notin OwnEntries /\ Pending(1) \in SUBSET DOMAIN deals /\ Closing \in SUBSET DOMAIN deals
  <2>1. d \in Closing /\ d \in DOMAIN deals /\ Pending(1) \subseteq DOMAIN deals
        /\ Closing \subseteq DOMAIN deals
    BY PendingCloses
  <2>2. DOMAIN deals = 1 .. Len(deals) /\ Len(deals) \in Nat
    BY NumbersTyped DEF Numbers
  <2> QED BY <2>1, <2>2, ClosesOpenNothing
<1> DEFINE B == PendingBefore(d)
           R == {e \in Pending(1) : e > d}
           Q == {e \in Closing \ Pending(1) : e > d}
           A == {e \in OwnEntries : e > d /\ e \in counted}
           O == {e \in OwnEntries : first <= e /\ e < d /\ e \notin counted}
           F == EntriesFrom(d)
           C == ClosesFrom(d)
<1>1. /\ B \in SUBSET DOMAIN deals /\ R \in SUBSET DOMAIN deals /\ Q \in SUBSET DOMAIN deals
      /\ A \in SUBSET DOMAIN deals /\ O \in SUBSET DOMAIN deals /\ F \in SUBSET DOMAIN deals
      /\ C \in SUBSET DOMAIN deals /\ C \ {d} \in SUBSET DOMAIN deals
      /\ Pending(1) \ {d} \in SUBSET DOMAIN deals
  BY <1>0, WindowSets, PendingCloses
<1>s. /\ d \in Pending(1) /\ Pending(1) \ {d} = B \cup R /\ B \cap R = {}
      /\ d \in C /\ C \ {d} = R \cup Q /\ R \cap Q = {} /\ A \subseteq F
  <2>1. \A e \in DOMAIN deals : e \in Nat
    BY NumbersTyped DEF Numbers
  <2>2. \A e \in DOMAIN deals : (e # d <=> e < d \/ e > d) /\ ~ (e < d /\ e > d)
                                /\ (e >= d <=> e = d \/ e > d)
    BY <1>0, <2>1
  <2>3. d >= d
    BY <1>0
  <2>4. Pending(1) \subseteq DOMAIN deals /\ Closing \subseteq DOMAIN deals
        /\ OwnEntries \subseteq DOMAIN deals /\ Pending(1) \subseteq Closing
    BY PendingCloses
  <2>5. Pending(1) \ {d} = B \cup R /\ B \cap R = {}
    BY <2>2, <2>4 DEF PendingBefore
  <2>6. d \in C /\ C \ {d} = R \cup Q /\ R \cap Q = {}
    BY <1>0, <2>2, <2>3, <2>4 DEF ClosesFrom
  <2>7. A \subseteq F
    BY <2>2, <2>4 DEF EntriesFrom
  <2> QED BY <2>5, <2>6, <2>7
<1>w. \A S \in SUBSET DOMAIN deals : OpenedBy(S) \in Nat /\ ClosedBy(S) \in Nat /\ TookBy(S) \in Nat
  BY DealsWeighed DEF Weighed
<1> HIDE DEF B, R, Q, A, O, F, C
<1>2. Owed = (TookBy(B) + TookBy(R)) + deals[d].took
  <2>1. TookBy(Pending(1)) = TookBy(Pending(1) \ {d}) + deals[d].took
    BY <1>0, <1>s, VolumesSplit
  <2>2. TookBy(B \cup R) = TookBy(B) + TookBy(R)
    BY <1>1, <1>s, VolumesUnion
  <2> QED BY <1>s, <2>1, <2>2 DEF Owed
<1>3. TookBy(C) = (TookBy(R) + TookBy(Q)) + deals[d].took
  <2>1. TookBy(C) = TookBy(C \ {d}) + deals[d].took
    BY <1>1, <1>s, VolumesSplit
  <2>2. TookBy(R \cup Q) = TookBy(R) + TookBy(Q)
    BY <1>1, <1>s, VolumesUnion
  <2> QED BY <1>s, <2>1, <2>2
<1>4. OpenedBy(A) <= OpenedBy(F) /\ TookBy(Q) <= ClosedBy(Q)
  BY <1>1, <1>s, VolumesGrow, TookLess
<1>5. ShareBefore[d] + OpenedBy(F) = mine + TookBy(C)
  BY <1>0, ShareFrom DEF F, C
<1>6. ShareBefore[d] \in Nat
  BY <1>0, HistoryReplayed DEF Replayed
<1>7. HighShare(d, Share, low, Pending(1), counted, first)
        = AtLeast0(Share - OpenedBy(A) + ClosedBy(Q) + OpenedBy(O) - low)
  BY Zenon DEF HighShare, A, Q, O
<1>8. PICK x, b, r, t, o, f, q, k, u :
        /\ x = ShareBefore[d] /\ b = TookBy(B) /\ r = TookBy(R) /\ t = deals[d].took
        /\ o = OpenedBy(A) /\ f = OpenedBy(F) /\ q = TookBy(Q) /\ k = ClosedBy(Q) /\ u = OpenedBy(O)
  OBVIOUS
<1>9. /\ x \in Nat /\ b \in Nat /\ r \in Nat /\ t \in Nat /\ o \in Nat /\ f \in Nat /\ q \in Nat
      /\ k \in Nat /\ u \in Nat /\ Share \in Nat
  BY <1>0, <1>1, <1>6, <1>8, <1>w, DealTyped, JournalTyped
<1>10. Share >= (b + r) + t /\ x + f = 0 + ((r + q) + t) /\ o <= f /\ q <= k /\ low <= b
  BY <1>2, <1>3, <1>4, <1>5, <1>8 DEF B
<1>11. x <= AtLeast0(Share - o + k + u - low)
  BY <1>9, <1>10 DEF AtLeast0
<1> QED BY <1>7, <1>8, <1>11

\* The lower bound of what a close took is no more than it took, if the own closes before
\* it were counted.
LEMMA LowBounded ==
  ASSUME Base, OwnSound, WindowSound, Live, NEW d \in Pending(1),
         NEW high \in Nat, ClosedBy(OwnBefore(d)) <= high
  PROVE  TakeOf(d, LowShare(d, Share, high)) <= deals[d].took
<1>0. d \in Closing /\ d \in DOMAIN deals /\ deals[d].by \in Foreign \union {"own"}
      /\ deals[d].took <= deals[d].closed
  <2>1. d \in Closing /\ d \in DOMAIN deals
    BY PendingCloses
  <2> QED BY <2>1, NumbersTyped DEF Numbers
<1>1. PICK e, o : e = OpenedBy(EntriesAfter(d)) /\ o = ClosedBy(OwnBefore(d))
  OBVIOUS
<1>2. PICK x : x = LowShare(d, Share, high) /\ x = AtLeast0(Share - e - high)
  BY <1>1, Zenon DEF LowShare, EntriesAfter
<1>3. PICK c, t, a : c = deals[d].closed /\ t = deals[d].took /\ a = deals[d].after
  OBVIOUS
<1>n. /\ e \in Nat /\ o \in Nat /\ c \in Nat /\ t \in Nat /\ a \in Nat /\ Share \in Nat /\ t <= c
      /\ o <= high
  BY <1>0, <1>1, <1>3, WindowWeighed, DealTyped, JournalTyped
<1>x. x \in Nat
  BY <1>2, <1>n DEF AtLeast0
<1>4. CASE t = c
  <2>1. TakeOf(d, x) <= c
    BY <1>0, <1>3, <1>x, TakeBounded
  <2> QED BY <1>2, <1>3, <1>4, <2>1
<1>5. CASE t < c
  <2>1. deals[d].by # "own"
    BY <1>0, <1>3, <1>5, <1>n DEF OwnSound, Live
  <2>2. Share <= a + t + e + o
    BY <1>0, <1>1, <1>3, <1>5, <2>1 DEF WindowSound, EntriesAfter, OwnBefore
  <2>3. TakeOf(d, x) = AtLeast0(Least(c, x - a))
    BY <1>3, <2>1 DEF TakeOf
  <2>4. AtLeast0(Least(c, x - a)) <= t
    BY <1>2, <1>n, <2>2 DEF AtLeast0, Least
  <2> QED BY <1>2, <1>3, <2>3, <2>4
<1> QED BY <1>4, <1>5, <1>n

\* The bounds hold from deal to deal.
LEMMA FoundBounds ==
  ASSUME Sound, OwnSound, WindowSound, Live, Share >= Owed, mine = 0, NEW counted, NEW first,
         NEW t, t = TakenBefore(Share, Pending(1), counted, first),
         Totalled(Share, Pending(1), counted, first)
  PROVE  \A d \in 1 .. Len(deals) + 1 :
           t[d].low <= TookBy(PendingBefore(d)) /\ ClosedBy(OwnBefore(d)) <= t[d].high
<1>0. PICK n : n = Len(deals)
  OBVIOUS
<1>b. Base /\ ReplaySound
  BY DEF Sound
<1> DEFINE Holds(d) == t[d].low <= TookBy(PendingBefore(d)) /\ ClosedBy(OwnBefore(d)) <= t[d].high
           S == {k \in Nat : k <= n => Holds(k + 1)}
<1>n. n \in Nat /\ DOMAIN deals = 1 .. n
  BY <1>0, <1>b, NumbersTyped DEF Numbers
<1>t. /\ \A d \in 1 .. n + 1 : t[d] \in Take
      /\ t[1] = NoneTaken
      /\ \A d \in 1 .. n : t[d + 1] = NextTaken(d, t[d], Share, Pending(1), counted, first)
  BY <1>0 DEF Totalled
<1>1. Holds(1)
  <2>1. PendingBefore(1) = {} /\ OwnBefore(1) = {}
    BY <1>n, PendingCloses DEF PendingBefore, OwnBefore
  <2> QED BY <1>t, <2>1, VolumesEmpty DEF NoneTaken
<1>2. ASSUME NEW d \in 1 .. n, Holds(d) PROVE Holds(d + 1)
  <2>0. d \in DOMAIN deals /\ d \in 1 .. n + 1 /\ d \in Nat
    BY <1>n
  <2>1. PICK P, Q, U, V : /\ P = PendingBefore(d) /\ Q = PendingBefore(d + 1)
                          /\ U = OwnBefore(d) /\ V = OwnBefore(d + 1)
    OBVIOUS
  <2>2. /\ d \in Pending(1) => d \in Q /\ P = Q \ {d}
        /\ d \notin Pending(1) => P = Q
        /\ d \in OwnPending => d \in V /\ U = V \ {d}
        /\ d \notin OwnPending => U = V
    <3>1. \A e \in DOMAIN deals : e < d + 1 <=> e < d \/ e = d
      BY <1>n, <2>0
    <3>2. ~ (d < d)
      BY <2>0
    <3>3. Pending(1) \subseteq DOMAIN deals /\ OwnPending \subseteq DOMAIN deals
      BY PendingCloses
    <3> QED BY <2>1, <3>1, <3>2, <3>3 DEF PendingBefore, OwnBefore
  <2>3. /\ Q \in SUBSET DOMAIN deals /\ V \in SUBSET DOMAIN deals
        /\ TookBy(P) \in Nat /\ ClosedBy(U) \in Nat /\ TookBy(Q) \in Nat /\ ClosedBy(V) \in Nat
    BY <1>b, <2>1, WindowSets, WindowWeighed
  <2>4. PICK lo, hi, x, y :
          /\ lo = t[d].low /\ hi = t[d].high
          /\ x = TakeOf(d, LowShare(d, Share, hi))
          /\ y = TakeOf(d, HighShare(d, Share, lo, Pending(1), counted, first))
    OBVIOUS
  <2>5. lo \in Nat /\ hi \in Nat /\ lo <= TookBy(P) /\ ClosedBy(U) <= hi
    BY <1>2, <1>t, <2>0, <2>1, <2>4 DEF Take
  <2>6. t[d + 1] = NextTaken(d, t[d], Share, Pending(1), counted, first)
    BY <1>t
  <2>7. CASE d \notin Pending(1)
    <3>1. t[d + 1] = t[d]
      BY <2>6, <2>7 DEF NextTaken
    <3>2. P = Q /\ U = V
      BY <2>2, <2>7, PendingCloses
    <3> QED BY <2>1, <2>4, <2>5, <3>1, <3>2
  <2>8. CASE d \in Pending(1)
    <3>1. t[d + 1] = [low |-> lo + x, high |-> hi + y]
      BY <2>4, <2>6, <2>8, Zenon DEF NextTaken
    <3>2. d \in Closing /\ deals[d].took \in Nat /\ deals[d].closed \in Nat
      BY <1>b, <2>0, <2>8, PendingCloses, DealTyped
    <3>3. x <= deals[d].took
      BY <1>b, <2>1, <2>4, <2>5, <2>8, LowBounded
    <3>4. PICK z, s : /\ z = HighShare(d, Share, lo, Pending(1), counted, first)
                      /\ s = ShareBefore[d]
      OBVIOUS
    <3>5. z \in Nat /\ s \in Nat /\ s <= z /\ TakeOf(d, s) = deals[d].took
      <4>1. s \in Nat
        BY <1>0, <1>b, <2>0, <3>4, HistoryReplayed DEF Replayed
      <4>2. s <= z
        BY <1>b, <2>1, <2>5, <2>8, <3>4, HighCovers
      <4>3. t[d] \in Take
        BY <1>t, <2>0
      <4>4. z \in Nat
        BY <1>b, <2>4, <3>4, <4>3, BoundsTyped, JournalTyped
      <4> QED BY <1>b, <3>2, <3>4, <4>1, <4>2, <4>4 DEF ReplaySound
    <3>6. y \in Nat /\ deals[d].took <= y
      BY <1>b, <2>4, <3>2, <3>4, <3>5, TakeGrows, TakeBounded
    <3>7. x \in Nat
      <4>1. LowShare(d, Share, hi) \in Nat
        <5>1. t[d] \in Take
          BY <1>t, <2>0
        <5> QED BY <1>b, <2>4, <5>1, BoundsTyped, JournalTyped
      <4> QED BY <1>b, <2>4, <3>2, <4>1, TakeBounded
    <3>8. lo + x <= TookBy(Q)
      <4>1. TookBy(Q) = TookBy(P) + deals[d].took
        BY <1>b, <2>2, <2>3, <2>8, VolumesSplit
      <4> QED BY <2>3, <2>5, <3>2, <3>3, <3>7, <4>1
    <3>9. ClosedBy(V) <= hi + y
      <4>1. CASE d \in OwnPending
        <5>1. ClosedBy(V) = ClosedBy(U) + deals[d].closed
          BY <1>b, <2>2, <2>3, <4>1, VolumesSplit
        <5>2. deals[d].took = deals[d].closed
          BY <3>2, <4>1 DEF OwnPending, OwnSound, Live
        <5> QED BY <2>3, <2>5, <3>2, <3>6, <5>1, <5>2
      <4>2. CASE d \notin OwnPending
        <5>1. ClosedBy(V) = ClosedBy(U)
          BY <2>2, <4>2
        <5> QED BY <2>3, <2>5, <3>6, <5>1
      <4> QED BY <4>1, <4>2
    <3> QED BY <2>1, <3>1, <3>8, <3>9
  <2> QED BY <2>7, <2>8
<1> HIDE DEF Holds
<1>3. 0 \in S /\ \A k \in Nat : k \in S => k + 1 \in S
  <2>1. 0 \in S
    BY <1>1
  <2>2. ASSUME NEW k \in Nat, k \in S PROVE k + 1 \in S
    <3>1. ASSUME k + 1 <= n PROVE Holds((k + 1) + 1)
      <4>1. k + 1 \in 1 .. n /\ Holds(k + 1)
        BY <1>n, <2>2, <3>1
      <4> QED BY <1>2, <4>1
    <3> QED BY <3>1
  <2> QED BY <2>1, <2>2
<1>4. Nat \subseteq S
  <2> HIDE DEF S
  <2> QED BY <1>3, NatInduct
<1>5. ASSUME NEW d \in 1 .. Len(deals) + 1 PROVE Holds(d)
  <2>1. PICK k : k = d - 1
    OBVIOUS
  <2>2. k \in Nat /\ k <= n /\ k + 1 = d
    BY <1>0, <1>n, <2>1
  <2> QED BY <1>4, <2>2
<1> QED BY <1>5 DEF Holds

\* A history read from the run's first entry on misses no close that took of the share: it
\* finds that each close to be judged took at most no less than it did.
LEMMA WindowFinds ==
  ASSUME Sound, OwnSound, WindowSound, Live, Share >= Owed, mine = 0, NEW counted, NEW takes,
         takes = ReplayShareCloses(FirstEntry, Share, counted)
  PROVE  DOMAIN takes = Pending(1) /\ \A d \in Pending(1) : deals[d].took <= takes[d].high
<1>b. Base /\ ReplaySound
  BY DEF Sound
<1>p. Pending(FirstEntry) = Pending(1) /\ FirstEntry \in {1, 2}
  BY <1>b, PendingFirst
<1>t. \A d \in Pending(1) : d \in Closing /\ d \in DOMAIN deals /\ deals[d].took \in Nat
  BY <1>b, PendingCloses, DealTyped
<1>1. CASE FirstEntry = 1
  <2>1. takes = [d \in Pending(1) |-> [low |-> deals[d].took, high |-> deals[d].took]]
    BY <1>1, <1>b, ExactFound
  <2>2. DOMAIN takes = Pending(1) /\ \A d \in Pending(1) : takes[d].high = deals[d].took
    BY <2>1
  <2> QED BY <1>t, <2>2
<1>2. CASE FirstEntry # 1
  <2>0. PICK t : t = TakenBefore(Share, Pending(1), counted, FirstEntry)
    OBVIOUS
  <2>1. takes = BoundedTakes(Pending(1), t)
    BY <1>2, <1>p, <2>0 DEF ReplayShareCloses
  <2>2. Totalled(Share, Pending(1), counted, FirstEntry)
    BY <1>b, <1>p, TakenTotalled, JournalTyped
  <2>3. \A d \in 1 .. Len(deals) + 1 : t[d].low <= TookBy(PendingBefore(d))
    BY <2>0, <2>2, FoundBounds
  <2>4. ASSUME NEW d \in Pending(1) PROVE deals[d].took <= t[d + 1].high - t[d].high
    <3>1. d \in 1 .. Len(deals) /\ d \in 1 .. Len(deals) + 1 /\ d \in Closing
      BY <1>b, <1>t, NumbersTyped DEF Numbers
    <3>2. /\ t[d] \in Take
          /\ t[d + 1] = NextTaken(d, t[d], Share, Pending(1), counted, FirstEntry)
      BY <2>0, <2>2, <3>1 DEF Totalled
    <3>3. PICK lo, hi, z, s : /\ lo = t[d].low /\ hi = t[d].high
                              /\ z = HighShare(d, Share, lo, Pending(1), counted, FirstEntry)
                              /\ s = ShareBefore[d]
      OBVIOUS
    <3>4. lo \in Nat /\ hi \in Nat /\ lo <= TookBy(PendingBefore(d))
      BY <2>3, <3>1, <3>2, <3>3 DEF Take
    <3>5. s <= z
      BY <1>b, <3>3, <3>4, HighCovers
    <3>6. s \in Nat
      BY <1>b, <3>1, <3>3, HistoryReplayed DEF Replayed
    <3>7. z \in Nat
      BY <1>b, <3>2, <3>3, BoundsTyped, JournalTyped
    <3>8. TakeOf(d, s) = deals[d].took
      BY <1>b, <3>1, <3>3 DEF ReplaySound
    <3>9. deals[d].took <= TakeOf(d, z) /\ TakeOf(d, z) \in Nat
      BY <1>b, <3>1, <3>5, <3>6, <3>7, <3>8, TakeGrows, TakeBounded
    <3>10. t[d + 1].high = hi + TakeOf(d, z)
      BY <2>4, <3>2, <3>3 DEF NextTaken
    <3> QED BY <1>t, <3>3, <3>4, <3>9, <3>10
  <2> QED BY <2>1, <2>4 DEF BoundedTakes
<1> QED BY <1>1, <1>2

-----------------------------------------------------------------------------
(* What such a history finds stays bounded *)

LEMMA NextWeighed ==
  Base' => \A d : OpenedBy(EntriesAfter(d))' \in Nat /\ ClosedBy(OwnBefore(d))' \in Nat
<1> DEFINE W == \A d : OpenedBy(EntriesAfter(d)) \in Nat /\ ClosedBy(OwnBefore(d)) \in Nat
<1>1. Base => W
  BY WindowWeighed
<1>2. Base' => W'
  BY <1>1, PTL
<1> QED BY <1>2

OpenedSplits ==
  \A S \in SUBSET DOMAIN deals : \A e \in S : OpenedBy(S) = OpenedBy(S \ {e}) + deals[e].opened

LEMMA NextOpenedSplits == Base' => OpenedSplits'
<1>1. Base => OpenedSplits
  BY VolumesSplit DEF OpenedSplits
<1> QED BY <1>1, PTL

LEMMA NextOpened ==
  ASSUME Base', NEW U \in SUBSET DOMAIN deals', NEW d \in U
  PROVE  OpenedBy(U)' = OpenedBy(U \ {d})' + deals'[d].opened
BY NextOpenedSplits DEF OpenedSplits

\* The bound on the share at a close to be judged moves with the deals.
LEMMA HappensWindow ==
  ASSUME Base, Base', Kept, WindowSound, NEW deal, Happens(deal)
  PROVE  WindowSound'
<1>0. PICK n : n = Len(deals)
  OBVIOUS
<1> SUFFICES ASSUME Live', NEW d \in Pending(1)', deals'[d].by \in Foreign,
                    deals'[d].took < deals'[d].closed
             PROVE  Share' <= deals'[d].after + deals'[d].took + OpenedBy(EntriesAfter(d))'
                                + ClosedBy(OwnBefore(d))'
  BY DEF WindowSound, EntriesAfter, OwnBefore
<1>1. Live
  BY HappensLive
<1>2. /\ Pending(1)' = Pending(1) \union (IF deal.closed > 0 THEN {n + 1} ELSE {})
      /\ deals'[n + 1] = deal /\ \A e \in DOMAIN deals : deals'[e] = deals[e]
      /\ DOMAIN deals = 1 .. n /\ DOMAIN deals' = 1 .. n + 1 /\ n \in Nat
  BY <1>0, HappensFacts
<1>v. \A X \in SUBSET DOMAIN deals : ClosedBy(X)' = ClosedBy(X)
  BY <1>0, HappensFacts
<1>3. /\ OwnEntries' = OwnEntries \union (IF deal.by = "entry" THEN {n + 1} ELSE {})
      /\ deal \in DealRecord /\ Appends(deal)
  <2>1. deal \in DealRecord /\ Appends(deal)
    BY ExecuteTyped DEF Happens, Tradable
  <2> QED BY <1>0, <2>1, AppendedSets
<1>4. retired' = retired /\ filled' = IF deal.by = "entry" THEN filled + 1 ELSE filled
  BY DEF Happens
<1>p. Pending(1) \in SUBSET DOMAIN deals /\ OwnEntries \in SUBSET DOMAIN deals
      /\ OwnPending \in SUBSET Pending(1)
  BY PendingCloses
<1>5. CASE d \in Pending(1)
  <2>0. d \in 1 .. n /\ d \in DOMAIN deals /\ deals'[d] = deals[d]
    BY <1>2, <1>5, <1>p
  <2>1. Share <= deals[d].after + deals[d].took + OpenedBy(EntriesAfter(d)) + ClosedBy(OwnBefore(d))
    BY <1>1, <1>5, <2>0 DEF WindowSound, EntriesAfter, OwnBefore
  <2>2. ClosedBy(OwnBefore(d))' = ClosedBy(OwnBefore(d))
    <3>1. PICK U : U = OwnBefore(d) /\ U \in SUBSET DOMAIN deals
      BY WindowSets
    <3>2. OwnBefore(d)' = U
      <4>1. ASSUME NEW e \in Pending(1)', e < d PROVE e \in Pending(1) /\ deals'[e] = deals[e]
        BY <1>2, <1>p, <2>0, <4>1
      <4>2. ASSUME NEW e \in Pending(1) PROVE e \in Pending(1)' /\ deals'[e] = deals[e]
        BY <1>2, <1>p
      <4> QED BY <3>1, <4>1, <4>2 DEF OwnBefore, OwnPending
    <3> QED BY <1>v, <3>1, <3>2
  <2>3. OpenedBy(EntriesAfter(d))' = IF deal.by = "entry" THEN OpenedBy(EntriesAfter(d)) + 1
                                     ELSE OpenedBy(EntriesAfter(d))
    <3>1. PICK E : E = EntriesAfter(d) /\ E \in SUBSET DOMAIN deals
      BY WindowSets
    <3>2. OpenedBy(E)' = OpenedBy(E)
      BY <1>3, <3>1, AppendedVolumes
    <3>3. CASE deal.by # "entry"
      <4>1. EntriesAfter(d)' = E
        BY <1>3, <3>1, <3>3 DEF EntriesAfter
      <4> QED BY <3>1, <3>2, <3>3, <4>1
    <3>4. CASE deal.by = "entry"
      <4>1. PICK F : F = E \union {n + 1}
        OBVIOUS
      <4>2. EntriesAfter(d)' = F
        <5>1. n + 1 > d
          BY <1>2, <2>0
        <5> QED BY <1>3, <3>1, <3>4, <4>1, <5>1 DEF EntriesAfter
      <4>3. F \in SUBSET DOMAIN deals' /\ n + 1 \in F /\ F \ {n + 1} = E
        BY <1>2, <3>1, <4>1
      <4>4. OpenedBy(F)' = OpenedBy(F \ {n + 1})' + deals'[n + 1].opened
        BY <4>3, NextOpened
      <4>5. deals'[n + 1].opened = 1
        BY <1>2, <3>4 DEF Happens
      <4>6. OpenedBy(F \ {n + 1})' = OpenedBy(E)'
        BY <4>3, Zenon
      <4> QED BY <3>1, <3>2, <3>4, <4>2, <4>4, <4>5, <4>6
    <3> QED BY <3>3, <3>4
  <2>4. PICK x, e, o : /\ x = deals[d].after + deals[d].took /\ e = OpenedBy(EntriesAfter(d))
                       /\ o = ClosedBy(OwnBefore(d))
    OBVIOUS
  <2>n. /\ x \in Nat /\ e \in Nat /\ o \in Nat /\ filled \in Nat /\ retired \in Nat
        /\ Share = filled - retired
    BY <2>0, <2>4, WindowWeighed, DealTyped, JournalTyped
  <2>5. CASE deal.by = "entry"
    <3>1. (filled + 1) - retired <= x + (e + 1) + o
      BY <2>1, <2>4, <2>n
    <3> QED BY <1>4, <2>0, <2>2, <2>3, <2>4, <2>5, <3>1 DEF Share
  <2>6. CASE deal.by # "entry"
    BY <1>4, <2>0, <2>1, <2>2, <2>3, <2>4, <2>6 DEF Share
  <2> QED BY <2>5, <2>6
<1>6. CASE d \notin Pending(1)
  <2>1. d = n + 1 /\ deals'[d] = deal /\ deal.by \in Foreign /\ deal.closed > 0
    BY <1>2, <1>6
  <2>2. Share' = Share /\ deal.by # "own" /\ deal.by # "entry"
    BY <1>4, <2>1 DEF Share, Foreign
  <2>3. ClosedBy(OwnBefore(d))' = ClosedBy(OwnPending)
    <3>1. PICK U : U = OwnPending /\ U \in SUBSET DOMAIN deals
      BY <1>p
    <3>2. OwnBefore(d)' = U
      <4>1. ASSUME NEW e \in Pending(1)', e < d PROVE e \in Pending(1) /\ deals'[e] = deals[e]
        BY <1>2, <1>p, <2>1, <4>1
      <4>2. ASSUME NEW e \in Pending(1) PROVE e \in Pending(1)' /\ deals'[e] = deals[e] /\ e < d
        BY <1>2, <1>p, <2>1
      <4> QED BY <3>1, <4>1, <4>2 DEF OwnBefore, OwnPending
    <3> QED BY <1>v, <3>1, <3>2
  <2>4. Missed <= ClosedBy(OwnPending) /\ (mine < vol => Share <= mine + Missed)
    <3>1. unresolved \subseteq OwnPending /\ OwnPending \in SUBSET DOMAIN deals
      BY <1>1, <1>p, LiveFacts DEF Kept
    <3> QED BY <1>1, <3>1, VolumesGrow, KeptNumbers DEF Missed
  <2> DEFINE c == deal.closed
             t == deal.took
             a == deal.after
             e == OpenedBy(EntriesAfter(d))'
  <2>5. /\ t = AtLeast0(Least(c, mine - a)) /\ a = vol - c /\ c > 0 /\ t \in Nat /\ a \in Nat
        /\ c \in Nat /\ t < c
    BY <2>1, DealTakes DEF Foreign
  <2>6. e \in Nat
    BY NextWeighed
  <2>7. PICK o : o = ClosedBy(OwnPending) /\ o \in Nat
    BY <1>p, DealsWeighed DEF Weighed
  <2>n. vol \in Nat /\ mine \in Nat /\ mine <= vol /\ Share \in Nat /\ Missed \in Nat
    BY JournalTyped, OwedTyped
  <2> HIDE DEF c, t, a, e
  <2>8. Share <= a + t + e + o
    BY <2>4, <2>5, <2>6, <2>7, <2>n DEF AtLeast0, Least
  <2>9. deals'[d].after = a /\ deals'[d].took = t
    BY <2>1 DEF a, t
  <2> QED BY <2>2, <2>3, <2>7, <2>8, <2>9 DEF e
<1> QED BY <1>5, <1>6

LEMMA SteadyWindow ==
  ASSUME Base, Base', UNCHANGED venueVars, ~ excused' => ~ excused, rows' > 0 => rows > 0,
         WindowSound, Pending(1)' \subseteq Pending(1),
         Live' => \A d \in Pending(1)' : deals[d].by \in Foreign =>
                    Share' + ClosedBy(OwnBefore(d)) <= Share + ClosedBy(OwnBefore(d))'
  PROVE  WindowSound'
<1>1. /\ deals' = deals /\ OwnEntries' = OwnEntries
      /\ \A X : OpenedBy(X)' = OpenedBy(X)
      /\ (Live' => Live)
  BY SteadyVolumes, SteadyLive
<1> SUFFICES ASSUME Live', NEW d \in Pending(1)', deals[d].by \in Foreign,
                    deals[d].took < deals[d].closed
             PROVE  Share' <= deals[d].after + deals[d].took + OpenedBy(EntriesAfter(d))
                                + ClosedBy(OwnBefore(d))'
  <2>1. \A d : OpenedBy(EntriesAfter(d))' = OpenedBy(EntriesAfter(d))
    <3>1. ASSUME NEW d PROVE OpenedBy(EntriesAfter(d))' = OpenedBy(EntriesAfter(d))
      <4>1. PICK E : E = EntriesAfter(d)
        OBVIOUS
      <4>2. EntriesAfter(d)' = E
        BY <1>1, <4>1 DEF EntriesAfter
      <4> QED BY <1>1, <4>1, <4>2
    <3> QED BY <3>1
  <2> QED BY <1>1, <2>1 DEF WindowSound, EntriesAfter, OwnBefore
<1>2. d \in Pending(1) /\ d \in DOMAIN deals
  BY PendingCloses
<1>3. Share <= deals[d].after + deals[d].took + OpenedBy(EntriesAfter(d)) + ClosedBy(OwnBefore(d))
  BY <1>1, <1>2 DEF WindowSound, EntriesAfter, OwnBefore
<1>4. Share' + ClosedBy(OwnBefore(d)) <= Share + ClosedBy(OwnBefore(d))'
  OBVIOUS
<1>5. PICK x, o : x = deals[d].after + deals[d].took + OpenedBy(EntriesAfter(d))
                  /\ o = ClosedBy(OwnBefore(d))
  OBVIOUS
<1> DEFINE s == Share'
           q == ClosedBy(OwnBefore(d))'
<1>6. s \in Nat /\ q \in Nat
  BY NextFacts, NextWeighed DEF Numbers
<1>7. x \in Nat /\ o \in Nat /\ Share \in Nat
  BY <1>2, <1>5, DealTyped, WindowWeighed, JournalTyped
<1>8. s + o <= Share + q
  BY <1>4, <1>5
<1> HIDE DEF s, q
<1>9. s <= x + q
  BY <1>3, <1>5, <1>6, <1>7, <1>8
<1> QED BY <1>5, <1>9 DEF s, q

\* With the closes to be judged as they were and the share no larger, the bound stands.
LEMMA QuietWindow ==
  ASSUME Base, Base', UNCHANGED venueVars, ~ excused' => ~ excused, rows' > 0 => rows > 0,
         WindowSound, Pending(1)' = Pending(1), Share' <= Share
  PROVE  WindowSound'
<1>1. deals' = deals /\ \A X : ClosedBy(X)' = ClosedBy(X)
  BY SteadyVolumes
<1>2. ASSUME NEW d PROVE Share' + ClosedBy(OwnBefore(d)) <= Share + ClosedBy(OwnBefore(d))'
  <2>1. PICK U : U = OwnBefore(d)
    OBVIOUS
  <2>2. OwnBefore(d)' = U
    BY <1>1, <2>1 DEF OwnBefore, OwnPending
  <2>3. PICK o : o = ClosedBy(OwnBefore(d)) /\ o \in Nat
    BY WindowWeighed
  <2>4. ClosedBy(OwnBefore(d))' = o
    BY <1>1, <2>1, <2>2, <2>3
  <2> DEFINE s == Share'
  <2>5. s \in Nat /\ Share \in Nat /\ s <= Share
    BY NextFacts, JournalTyped DEF Numbers
  <2> HIDE DEF s
  <2>6. s + o <= Share + o
    BY <2>3, <2>5
  <2> QED BY <2>3, <2>4, <2>6 DEF s
<1> QED BY <1>2, SteadyWindow

\* The part of the invariant about what is found and reported.
Told == WindowSound /\ ReportNotLost

Reported == waiting \union handled \union audited \union CoveredCloses

\* A report once journalled stays so, and what it covers stays covered.
LEMMA ReportsKept ==
  ASSUME UNCHANGED venueVars, waiting \union handled \subseteq waiting' \union handled',
         audited \subseteq audited', covered \subseteq covered'
  PROVE  Reported \subseteq Reported'
<1>1. Closing' = Closing
  BY DEF Closing, venueVars
<1>2. CoveredCloses \subseteq CoveredCloses'
  BY <1>1 DEF CoveredCloses
<1> QED BY <1>2 DEF Reported

\* Each close a verdict finds external is reported, or a waiting report covers it.
LEMMA TakesReported ==
  ASSUME Base, UNCHANGED venueVars, NEW first, NEW takes \in [Pending(first) -> Take],
         MarkTakes(takes), Audit(takes),
         waiting \union handled \union Queued(takes) \subseteq waiting' \union handled'
  PROVE  External(takes) \subseteq Reported' /\ Reported \subseteq Reported'
<1>1. Closing' = Closing
  BY DEF Closing, venueVars
<1>2. External(takes) \subseteq Closing /\ audited \subseteq audited'
  BY AuditTyped
<1>3. covered' = covered \union (External(takes) \X waiting)
  BY DEF MarkTakes
<1>4. waiting = {} => External(takes) \subseteq Reported'
  BY DEF Queued, Reported
<1>5. ASSUME NEW e \in waiting, NEW d \in External(takes) PROVE d \in Reported'
  <2>1. <<d, e>> \in covered' /\ e \in waiting' \union handled' /\ d \in Closing'
    BY <1>1, <1>2, <1>3, <1>5
  <2> QED BY <2>1 DEF CoveredCloses, Reported
<1>6. Reported \subseteq Reported'
  BY <1>2, <1>3, ReportsKept
<1> QED BY <1>4, <1>5, <1>6

\* A step keeps what was reported, and reports what it marks as external.
LEMMA SteadyReport ==
  ASSUME UNCHANGED venueVars, ~ excused' => ~ excused, ReportNotLost, Reported \subseteq Reported',
         Undisturbed' => \A d \in Closing : deals[d].took > 0 /\ judged'[d] = "external"
                            => judged'[d] = judged[d] \/ d \in Reported'
  PROVE  ReportNotLost'
<1>1. deals' = deals /\ Closing' = Closing /\ (Undisturbed' => Undisturbed)
  BY SteadyVolumes DEF Undisturbed
<1> QED BY <1>1 DEF ReportNotLost, Reported

\* Nothing judged, and nothing forgotten.
LEMMA QuietTold ==
  ASSUME Base, Base', Told, UNCHANGED <<venueVars, judged>>, ~ excused' => ~ excused,
         rows' > 0 => rows > 0, Share' <= Share, Reported \subseteq Reported'
  PROVE  Told'
<1>1. Pending(1)' = Pending(1)
  BY DEF Pending, Closing, venueVars
<1>2. WindowSound'
  BY <1>1, QuietWindow DEF Told
<1>3. ReportNotLost'
  BY SteadyReport DEF Told
<1> QED BY <1>2, <1>3 DEF Told

\* A verdict finds each close to be judged that took of the share.
Finds(takes) == \A d \in Pending(1) : deals[d].took > 0 => takes[d].high > 0

\* What a verdict marks as external it reported, or logged its doubt.
LEMMA VerdictReports ==
  ASSUME Base, UNCHANGED venueVars, excused' = excused, ReportNotLost, Reported \subseteq Reported',
         NEW takes \in [Pending(1) -> Take], Undisturbed => Finds(takes),
         Audit(takes), MarkTakes(takes), External(takes) \subseteq Reported'
  PROVE  ReportNotLost' /\ Pending(1)' = {}
<1>1. \A d \in DOMAIN deals : judged'[d] = IF d \in Pending(1) THEN Origin(d) ELSE judged[d]
  BY MarksTyped DEF MarkTakes
<1>2. Pending(1)' = {}
  BY JudgedRecorded DEF MarkTakes
<1>3. Closing \subseteq DOMAIN deals /\ DOMAIN takes = Pending(1)
  BY PendingCloses
<1>4. Undisturbed' => Undisturbed
  BY SteadyVolumes DEF Undisturbed
<1>5. ASSUME Undisturbed', NEW d \in Closing, deals[d].took > 0, judged'[d] = "external",
             judged'[d] # judged[d]
      PROVE  d \in Reported'
  <2>1. d \in Pending(1) /\ Origin(d) = "external"
    BY <1>1, <1>3, <1>5
  <2>2. takes[d].high > 0 /\ takes[d].low \in Nat
    BY <1>4, <1>5, <2>1 DEF Finds, Take
  <2>3. CASE takes[d].low > 0
    BY <1>3, <2>1, <2>3 DEF External, Took
  <2>4. CASE takes[d].low = 0
    BY <1>3, <2>1, <2>2, <2>4 DEF Audit, MayHaveTaken, Reported
  <2> QED BY <2>2, <2>3, <2>4
<1> QED BY <1>2, <1>5, SteadyReport

LEMMA JudgeTold ==
  ASSUME Base, Told, UNCHANGED <<venueVars, excused>>,
         NEW takes \in [Pending(1) -> Take], Undisturbed => Finds(takes), JudgeRecovered(takes)
  PROVE  Told'
<1>1. Audit(takes) /\ MarkTakes(takes) /\ External(takes) \subseteq Reported'
      /\ Reported \subseteq Reported'
  BY TakesReported DEF JudgeRecovered
<1>2. ReportNotLost' /\ Pending(1)' = {}
  BY <1>1, VerdictReports DEF Told
<1> QED BY <1>2 DEF Told, WindowSound

LEMMA CutTold ==
  ASSUME Base, Base', Told, NEW takes \in [Pending(1) -> Take], Undisturbed => Finds(takes),
         CutJudgement(takes)
  PROVE  Told'
<1>1. /\ Audit(takes) /\ UNCHANGED <<venueVars, excused>> /\ rows' = rows /\ Share' = Share
      /\ waiting \union handled \union Queued(takes) \subseteq waiting' \union handled'
  BY DEF CutJudgement, resumeVars, shareVars, Share
<1>2. CASE UNCHANGED <<judged, covered>>
  <2>1. Share' <= Share
    BY <1>1, JournalTyped
  <2>2. Reported \subseteq Reported'
    BY <1>1, <1>2, AuditTyped, ReportsKept
  <2> QED BY <1>1, <1>2, <2>1, <2>2, QuietTold
<1>3. CASE MarkTakes(takes)
  <2>1. External(takes) \subseteq Reported' /\ Reported \subseteq Reported'
    BY <1>1, <1>3, TakesReported
  <2>2. ReportNotLost' /\ Pending(1)' = {}
    BY <1>1, <1>3, <2>1, VerdictReports DEF Told
  <2> QED BY <2>2 DEF Told, WindowSound
<1> QED BY <1>2, <1>3 DEF CutJudgement

\* A pushed close that is marked as external and took of the share is reported.
LEMMA PushReports ==
  ASSUME Base, Kept, Live, NEW d \in Arriving, MarkPush(d, LowNow),
         PushReport(d, LowNow) \subseteq Reported', deals[d].took > 0, judged'[d] = "external",
         judged'[d] # judged[d]
  PROVE  d \in Reported'
<1>0. d \in Closing /\ d \in DOMAIN deals /\ deals[d].by \in Foreign \union {"own"}
  <2>1. d \in Closing
    BY ArrivingCloses
  <2> QED BY <2>1, NumbersTyped DEF Numbers
<1>1. ~ Undecided(d, LowNow) /\ LiveOrigin(d) = "external"
  BY <1>0, MarkTyped
<1>2. deals[d].by \in Foreign
  BY <1>0, <1>1 DEF LiveOrigin
<1>3. CASE TakeOf(d, LowNow) > 0
  BY <1>1, <1>3 DEF PushReport
<1>4. CASE ~ (TakeOf(d, LowNow) > 0)
  <2>1. PICK c, t, a, b : /\ c = deals[d].closed /\ t = deals[d].took /\ a = deals[d].after
                          /\ b = ComingBefore(d)
    OBVIOUS
  <2>2. Share >= a + t + b
    BY <1>2, <2>1, KeptNumbers
  <2>3. c \in Nat /\ t \in Nat /\ a \in Nat /\ b \in Nat /\ Share \in Nat /\ t > 0 /\ t <= c
    <3>1. deals[d].took <= deals[d].closed
      BY <1>0, NumbersTyped DEF Numbers
    <3> QED BY <1>0, <2>1, <3>1, DealTyped, JournalTyped, OwedTyped
  <2>4. TakeOf(d, Share) = AtLeast0(Least(c, Share - a))
    BY <1>2, <2>1 DEF TakeOf, Foreign
  <2>5. AtLeast0(Least(c, Share - a)) > 0
    BY <2>2, <2>3 DEF AtLeast0, Least
  <2>6. TakeOf(d, LowNow) = 0
    <3>1. TakeOf(d, LowNow) \in Nat
      BY <1>0, BookedTyped
    <3> QED BY <1>4, <3>1
  <2> QED BY <1>1, <2>4, <2>5, <2>6 DEF Undecided
<1> QED BY <1>3, <1>4

LEMMA JudgePushTold ==
  ASSUME Base, Base', Kept, Told, TakePush, JudgePush(Head(wire), LowNow), wire' = Tail(wire)
  PROVE  Told'
<1>0. PICK d, b : d = Head(wire) /\ b = Booked(d, LowNow)
  OBVIOUS
<1>1. /\ d \in Arriving /\ d \in Closing /\ d \in DOMAIN deals
  BY <1>0, HeadFirst DEF TakePush, JudgePush
<1>2. /\ UNCHANGED venueVars /\ excused' = excused /\ rows > 0 /\ BookClose(d, b)
      /\ MarkPush(d, LowNow) /\ PushReport(d, LowNow) \subseteq Reported'
      /\ Reported \subseteq Reported'
  <2>1. MarkPush(d, LowNow) /\ UNCHANGED venueVars
    BY <1>0 DEF JudgePush
  <2>2. audited \subseteq audited'
    BY <1>1, <2>1, MarkTyped
  <2>3. Reported \subseteq Reported'
    BY <2>1, <2>2, ReportsKept DEF JudgePush
  <2> QED BY <1>0, <2>1, <2>3 DEF JudgePush, TakePush, resumeVars, Reported
<1>3. /\ \A e \in DOMAIN deals \ {d} : judged'[e] = judged[e]
      /\ deals' = deals /\ Closing' = Closing /\ Closing \subseteq DOMAIN deals
      /\ judged'[d] \in {judged[d], LiveOrigin(d)}
  BY <1>1, <1>2, MarkTyped, SteadyVolumes, PendingCloses
<1>4. ReportNotLost'
  <2>1. ASSUME Undisturbed', NEW e \in Closing, deals[e].took > 0, judged'[e] = "external",
               judged'[e] # judged[e]
        PROVE  e \in Reported'
    <3>1. e = d
      BY <1>3, <2>1
    <3>2. Live
      BY <1>2, <2>1, SteadyVolumes DEF Live, Undisturbed
    <3> QED BY <1>1, <1>2, <2>1, <3>1, <3>2, PushReports
  <2> QED BY <1>2, <2>1, SteadyReport DEF Told
<1>5. Pending(1)' \subseteq Pending(1) /\ \A e \in Pending(1) \ {d} : e \in Pending(1)'
  <2>1. d \in Pending(1)' => d \in Pending(1)
    <3>1. LiveOrigin(d) # "no"
      BY DEF LiveOrigin
    <3>2. judged'[d] = "no" => judged[d] = "no"
      BY <1>3, <3>1
    <3> QED BY <1>1, <1>3, <3>2 DEF Pending
  <2>2. \A e \in DOMAIN deals \ {d} : e \in Pending(1)' <=> e \in Pending(1)
    BY <1>3 DEF Pending
  <2>3. Pending(1)' \subseteq DOMAIN deals /\ Pending(1) \subseteq DOMAIN deals
    BY <1>3 DEF Pending
  <2> QED BY <2>1, <2>2, <2>3
<1>6. ASSUME Live', NEW e \in Pending(1)'
      PROVE  Share' + ClosedBy(OwnBefore(e)) <= Share + ClosedBy(OwnBefore(e))'
  <2>1. Live
    BY <1>2, <1>6, SteadyLive
  <2>2. /\ b \in Nat /\ b <= deals[d].took /\ deals[d].took <= Share
        /\ deals[d].by = "own" => b = deals[d].closed
    BY <1>0, <1>1, <2>1, BookedTook
  <2>3. deals[d].by # "own" \/ d \notin Pending(1)'
    <3>1. deals[d].by = "own" => ~ Undecided(d, LowNow)
      BY DEF Undecided, LiveOrigin
    <3>2. ~ Undecided(d, LowNow) => judged'[d] # "no"
      BY <1>1, <1>2, MarkTyped
    <3> QED BY <3>1, <3>2 DEF Pending
  <2>4. Share' = Share - b
    <3>1. retired' = retired + Least(b, Share) /\ filled' = filled
      <4>1. ~ (0 > 0)
        OBVIOUS
      <4> QED BY <1>2, <1>6, <4>1 DEF BookClose, Live
    <3>2. Least(b, Share) = b
      BY <1>1, <2>2, DealTyped, JournalTyped DEF Least
    <3> QED BY <2>2, <3>1, <3>2, RetireTyped
  <2>5. PICK U : U = OwnBefore(e) /\ U \in SUBSET DOMAIN deals
    BY WindowSets
  <2>6. OwnBefore(e)' = IF deals[d].by = "own" THEN U \ {d} ELSE U
    BY <1>3, <1>5, <2>3, <2>5 DEF OwnBefore, OwnPending
  <2>7. \A X : ClosedBy(X)' = ClosedBy(X)
    BY <1>2, SteadyVolumes
  <2>n. ClosedBy(U) \in Nat /\ ClosedBy(U \ {d}) \in Nat /\ Share \in Nat /\ deals[d].closed \in Nat
    <3>1. U \ {d} \in SUBSET DOMAIN deals
      BY <2>5
    <3> QED BY <1>1, <2>5, <3>1, DealsWeighed, DealTyped, JournalTyped DEF Weighed
  <2>8. CASE d \in U /\ deals[d].by = "own"
    <3>1. ClosedBy(U) = ClosedBy(U \ {d}) + deals[d].closed
      BY <2>5, <2>8, VolumesSplit
    <3>2. (Share - b) + ClosedBy(U) <= Share + ClosedBy(U \ {d})
      BY <2>2, <2>8, <2>n, <3>1
    <3> QED BY <2>4, <2>5, <2>6, <2>7, <2>8, <3>2
  <2>9. CASE ~ (d \in U /\ deals[d].by = "own")
    <3>1. OwnBefore(e)' = U
      BY <2>6, <2>9
    <3>2. (Share - b) + ClosedBy(U) <= Share + ClosedBy(U)
      BY <2>2, <2>n
    <3> QED BY <2>4, <2>5, <2>7, <3>1, <3>2
  <2> QED BY <2>8, <2>9
<1>7. rows' > 0 => rows > 0
  BY <1>2
<1>8. WindowSound'
  BY <1>2, <1>5, <1>6, <1>7, SteadyWindow DEF Told
<1> QED BY <1>4, <1>8 DEF Told

\* A process that stops has seen its own closes: the push it was judging is not one.
LEMMA CutPushTold ==
  ASSUME ~ CrashUnseen, Base, Base', Kept, Told, NEW d \in Arriving, rows > 0, CutPush(d, LowNow)
  PROVE  Told'
<1>1. d \in Closing /\ d \in DOMAIN deals
  BY ArrivingCloses
<1>2. /\ UNCHANGED <<venueVars, excused>> /\ rows' = rows /\ Share' = Share
      /\ PushReport(d, LowNow) \subseteq Reported' /\ unresolved = {}
      /\ (UNCHANGED <<judged, audited>>) \/ MarkPush(d, LowNow)
      /\ waiting \subseteq waiting' /\ handled' = handled /\ covered' = covered
  BY DEF CutPush, resumeVars, shareVars, Share, Die, Reported
<1>3. Reported \subseteq Reported'
  <2>1. audited \subseteq audited'
    BY <1>1, <1>2, MarkTyped
  <2> QED BY <1>2, <2>1, ReportsKept
<1>4. Share' <= Share
  BY <1>2, JournalTyped
<1>5. CASE UNCHANGED <<judged, audited>>
  BY <1>2, <1>3, <1>4, <1>5, QuietTold
<1>6. CASE MarkPush(d, LowNow)
  <2>1. /\ \A e \in DOMAIN deals \ {d} : judged'[e] = judged[e]
        /\ deals' = deals /\ Closing' = Closing /\ Closing \subseteq DOMAIN deals
        /\ judged'[d] \in {judged[d], LiveOrigin(d)}
    BY <1>1, <1>2, <1>6, MarkTyped, SteadyVolumes, PendingCloses
  <2>2. ReportNotLost'
    <3>1. ASSUME Undisturbed', NEW e \in Closing, deals[e].took > 0, judged'[e] = "external",
                 judged'[e] # judged[e]
          PROVE  e \in Reported'
      <4>1. e = d
        BY <2>1, <3>1
      <4>2. Live
        BY <1>2, <3>1, SteadyVolumes DEF Live, Undisturbed
      <4> QED BY <1>2, <1>6, <3>1, <4>1, <4>2, PushReports
    <3> QED BY <1>2, <1>3, <3>1, SteadyReport DEF Told
  <2>3. Pending(1)' \subseteq Pending(1) /\ \A e \in Pending(1) \ {d} : e \in Pending(1)'
    <3>1. LiveOrigin(d) # "no"
      BY DEF LiveOrigin
    <3>2. d \in Pending(1)' => d \in Pending(1)
      BY <1>1, <2>1, <3>1 DEF Pending
    <3>3. \A e \in DOMAIN deals \ {d} : e \in Pending(1)' <=> e \in Pending(1)
      BY <2>1 DEF Pending
    <3>4. Pending(1)' \subseteq DOMAIN deals /\ Pending(1) \subseteq DOMAIN deals
      BY <2>1 DEF Pending
    <3> QED BY <3>2, <3>3, <3>4
  <2>4. ASSUME Live', NEW e \in Pending(1)'
        PROVE  Share' + ClosedBy(OwnBefore(e)) <= Share + ClosedBy(OwnBefore(e))'
    <3>1. Live
      BY <1>2, <2>4, SteadyLive
    <3>2. deals[d].by # "own"
      BY <1>2, <3>1, LiveFacts DEF Kept
    <3>3. PICK U : U = OwnBefore(e) /\ U \in SUBSET DOMAIN deals
      BY WindowSets
    <3>4. OwnBefore(e)' = U
      BY <2>1, <2>3, <3>2, <3>3 DEF OwnBefore, OwnPending
    <3>5. ClosedBy(U)' = ClosedBy(U)
      BY <1>2, SteadyVolumes
    <3>6. Share + ClosedBy(U) <= Share + ClosedBy(U)
      BY <3>3, JournalTyped, DealsWeighed DEF Weighed
    <3> QED BY <1>2, <3>3, <3>4, <3>5, <3>6
  <2>5. WindowSound'
    BY <1>2, <2>3, <2>4, SteadyWindow DEF Told
  <2> QED BY <2>2, <2>5 DEF Told
<1> QED BY <1>2, <1>5, <1>6

\* An operator resume ends what the run promises of its reports.
LEMMA ExcusedTold == excused' => Told'
BY DEF Told, WindowSound, ReportNotLost, Live, Undisturbed

LEMMA HappensTold ==
  ASSUME Base, Base', Kept, Told, NEW deal, Happens(deal)
  PROVE  Told'
<1>0. PICK n : n = Len(deals)
  OBVIOUS
<1>1. /\ Closing' = Closing \union (IF deal.closed > 0 THEN {n + 1} ELSE {})
      /\ \A d \in DOMAIN deals : deals'[d] = deals[d]
      /\ Closing \subseteq DOMAIN deals
  BY <1>0, HappensFacts, PendingCloses
<1>2. Appends(deal)
  BY ExecuteTyped DEF Happens
<1>3. judged'[n + 1] = "no" /\ \A d \in DOMAIN deals : judged'[d] = judged[d]
  BY <1>0, <1>2, Appended
<1>4. UNCHANGED <<waiting, handled, audited, covered>> /\ (Undisturbed' => Undisturbed)
  BY HappensLive DEF Happens
<1>c. Reported \subseteq Reported'
  <2>1. CoveredCloses \subseteq CoveredCloses'
    BY <1>1, <1>4 DEF CoveredCloses
  <2> QED BY <1>4, <2>1 DEF Reported
<1>5. ReportNotLost'
  <2>1. ASSUME Undisturbed', NEW d \in Closing', deals'[d].took > 0, judged'[d] = "external"
        PROVE  d \in Reported'
    <3>1. d # n + 1
      BY <1>3, <2>1
    <3>2. d \in Closing /\ d \in DOMAIN deals
      BY <1>1, <2>1, <3>1
    <3>3. d \in Reported
      BY <1>1, <1>3, <1>4, <2>1, <3>2 DEF Told, ReportNotLost, Reported
    <3> QED BY <1>c, <3>3
  <2> QED BY <2>1 DEF ReportNotLost, Reported
<1>6. WindowSound'
  BY HappensWindow DEF Told
<1> QED BY <1>5, <1>6 DEF Told

LEMMA QuietStepTold ==
  ASSUME Base, Base', Told,
         Lose \/ Crash \/ DropPush \/ PassClear \/ PassWatch \/ RestartUnread \/ UNCHANGED vars
  PROVE  Told'
<1>0. /\ UNCHANGED <<venueVars, judged, excused, shareVars, audited, covered>>
      /\ waiting \union handled \subseteq waiting' \union handled'
  BY DEF Lose, Crash, DropPush, PassClear, PassWatch, RestartUnread, Began, vars, verdictVars,
         resumeVars, shareVars, venueVars
<1>1. UNCHANGED <<venueVars, judged, excused, shareVars>> /\ Reported \subseteq Reported'
  BY <1>0, ReportsKept
<1>2. Share' <= Share /\ rows' = rows
  BY <1>1, JournalTyped DEF shareVars, Share
<1> QED BY <1>1, <1>2, QuietTold

\* From the whole history, a verdict finds every close.
LEMMA WholeFinds ==
  ASSUME Sound, NEW share \in Nat, NEW takes, takes = ReplayShareCloses(1, share, seen)
  PROVE  takes \in [Pending(1) -> Take] /\ Finds(takes)
<1>1. takes \in [Pending(1) -> Take]
  BY FoundTyped DEF Sound
<1>2. Base /\ ReplaySound
  BY DEF Sound
<1>3. takes = [d \in Pending(1) |-> [low |-> deals[d].took, high |-> deals[d].took]]
  BY <1>2, ExactFound
<1>4. \A d \in Pending(1) : takes[d].high = deals[d].took
  BY <1>3
<1> QED BY <1>1, <1>4 DEF Finds

LEMMA WholePassTold ==
  ASSUME Sound, Base', Told, PassStartup \/ PassJudge \/ PassUnshared
  PROVE  Told'
<1>1. PICK share, takes :
        /\ share \in {Share + shrink, Share, (IF rows > 0 THEN Share ELSE 0) + shrink}
        /\ takes = ReplayShareCloses(1, share, seen)
        /\ (JudgeRecovered(takes) /\ UNCHANGED <<venueVars, excused>>) \/ CutJudgement(takes)
  BY DEF PassStartup, PassJudge, PassUnshared, resumeVars
<1>2. share \in Nat
  BY <1>1, JournalTyped DEF Sound
<1>3. takes \in [Pending(1) -> Take] /\ Finds(takes) /\ Base
  BY <1>1, <1>2, WholeFinds DEF Sound
<1> QED BY <1>1, <1>3, JudgeTold, CutTold

\* So does one from the run's first entry on, when no startup shrink is left to judge.
LEMMA GoneFinds ==
  ASSUME Sound, Kept, Told, rows > 0, vol = 0, shrink = 0, NEW counted, NEW takes,
         takes = ReplayShareCloses(FirstEntry, Share, counted)
  PROVE  takes \in [Pending(1) -> Take] /\ (Undisturbed => Finds(takes))
<1>b. Base /\ ReplaySound
  BY DEF Sound
<1>1. Pending(FirstEntry) = Pending(1)
  BY <1>b, PendingFirst
<1>2. PICK share : share = Share /\ share \in Nat
  BY <1>b, JournalTyped
<1>3. takes \in [Pending(1) -> Take]
  BY <1>b, <1>1, <1>2, FoundTyped
<1>4. ASSUME Undisturbed PROVE Finds(takes)
  <2>1. Live
    BY <1>4 DEF Live
  <2>2. Share + 0 >= mine + Owed
    BY <2>1, KeptNumbers
  <2>3. mine = 0 /\ Share >= Owed
    BY <1>b, <2>2, JournalTyped, OwedTyped
  <2>4. \A d \in Pending(1) : deals[d].took <= takes[d].high
    BY <2>1, <2>3, WindowFinds DEF Kept, Told
  <2>5. ASSUME NEW d \in Pending(1), deals[d].took > 0 PROVE takes[d].high > 0
    <3>1. takes[d].high \in Nat /\ deals[d].took \in Nat
      BY <1>3, <1>b, PendingCloses, DealTyped DEF Take
    <3> QED BY <2>4, <2>5, <3>1
  <2> QED BY <2>5 DEF Finds
<1> QED BY <1>3, <1>4

LEMMA GoneTold ==
  ASSUME ~ GoneFirst, Sound, Base', Kept, Told, PassGone
  PROVE  Told'
<1>1. PICK takes : /\ takes = ReplayShareCloses(FirstEntry, Share, seen \union {FirstEntry})
                   /\ (JudgeRecovered(takes) /\ UNCHANGED <<venueVars, excused>>)
                      \/ CutJudgement(takes)
  BY DEF PassGone, resumeVars
<1>2. rows > 0 /\ vol = 0 /\ shrink = 0
  BY DEF PassGone
<1>3. takes \in [Pending(1) -> Take] /\ (Undisturbed => Finds(takes)) /\ Base
  BY <1>1, <1>2, GoneFinds DEF Sound
<1> QED BY <1>1, <1>3, JudgeTold, CutTold

LEMMA RestartGoneTold ==
  ASSUME ~ GoneFirst, Sound, Base', Kept, Told, RestartGone
  PROVE  Told'
<1>1. PICK takes : /\ takes = ReplayShareCloses(FirstEntry, Share, {FirstEntry})
                   /\ \/ Began(Queued(takes)) /\ Audit(takes) /\ MarkTakes(takes) /\ Retire
                      \/ CutJudgement(takes)
                      \/ Began({}) /\ Retire /\ UNCHANGED <<judged, audited, covered>>
  BY DEF RestartGone
<1>2. rows > 0 /\ vol = 0 /\ shrink = 0
  BY DEF RestartGone
<1>3. takes \in [Pending(1) -> Take] /\ (Undisturbed => Finds(takes)) /\ Base
  BY <1>1, <1>2, GoneFinds DEF Sound
<1>4. CASE CutJudgement(takes)
  BY <1>3, <1>4, CutTold
<1>5. CASE Began({}) /\ Retire /\ UNCHANGED <<judged, audited, covered>>
  <2>1. /\ UNCHANGED <<venueVars, judged, excused, audited, covered>> /\ rows' = 0
        /\ waiting \union handled \subseteq waiting' \union handled' /\ Share' = Share
    BY <1>5 DEF Began, Retire, resumeVars, Share
  <2>2. Share' <= Share
    BY <1>3, <2>1, JournalTyped
  <2>3. Reported \subseteq Reported'
    BY <2>1, ReportsKept
  <2> QED BY <1>3, <2>1, <2>2, <2>3, QuietTold
<1>6. CASE Began(Queued(takes)) /\ Audit(takes) /\ MarkTakes(takes) /\ Retire
  <2>1. /\ UNCHANGED <<venueVars, excused>>
        /\ waiting \union handled \union Queued(takes) \subseteq waiting' \union handled'
    BY <1>6 DEF Began, Retire, resumeVars
  <2>2. External(takes) \subseteq Reported' /\ Reported \subseteq Reported'
    BY <1>3, <1>6, <2>1, TakesReported
  <2>3. ReportNotLost' /\ Pending(1)' = {}
    BY <1>3, <1>6, <2>1, <2>2, VerdictReports DEF Told
  <2> QED BY <2>3 DEF Told, WindowSound
<1> QED BY <1>1, <1>4, <1>5, <1>6

LEMMA RestartTold == ASSUME Sound, Base', Told, Restart PROVE Told'
<1>1. /\ UNCHANGED <<venueVars, judged, excused, audited, covered>> /\ rows' = rows
      /\ waiting \union handled \subseteq waiting' \union handled'
      /\ filled' = filled /\ retired' = retired + Baseline
  BY DEF Restart, Began, resumeVars
<1>2. Share' <= Share
  <2>1. PICK b : b = Baseline /\ b \in Nat
    BY BaselineTyped DEF Sound
  <2>2. filled - (retired + b) <= filled - retired
    BY <2>1, JournalTyped DEF Sound
  <2> QED BY <1>1, <2>1, <2>2 DEF Share
<1>3. Reported \subseteq Reported'
  BY <1>1, ReportsKept
<1> QED BY <1>1, <1>2, <1>3, QuietTold DEF Sound

LEMMA NextTold ==
  ASSUME ~ CrashUnseen, ~ GoneFirst, Sound, Sound', Kept, Told, [Next]_vars
  PROVE  Told'
<1>b. Base /\ Base'
  BY DEF Sound
<1>1. (\E deal : Happens(deal)) => Told'
  BY <1>b, HappensTold
<1>2. Venue \/ OwnClose \/ OwnEntry => Told'
  BY <1>b, <1>1, ForeignHappens, OthersHappen, OwnCloseHappens, OwnEntryHappens DEF Venue
<1>3. TakePush => Told'
  <2> SUFFICES ASSUME TakePush PROVE Told'
    OBVIOUS
  <2>1. Head(wire) \in Range(wire) /\ ~ Late(Head(wire)) /\ rows > 0
    BY <1>b, HeadOfWire DEF TakePush
  <2>2. Head(wire) \in Arriving
    BY <2>1 DEF Arriving
  <2> QED BY <1>b, <2>1, <2>2, JudgePushTold, CutPushTold DEF TakePush
<1>4. PassAccept \/ PassGoneAccepted => Told'
  <2>1. PassAccept => excused'
    BY DEF PassAccept, Kept, PendingSound, resumeVars
  <2>2. PassGoneAccepted => excused'
    BY DEF PassGoneAccepted, resumeVars
  <2> QED BY <2>1, <2>2, ExcusedTold
<1>5. Start => Told'
  <2>1. ResumedRestart \/ RestartGoneAccepted => excused'
    BY DEF ResumedRestart, RestartGoneAccepted
  <2> QED BY <1>b, <2>1, ExcusedTold, RestartTold, RestartGoneTold, QuietStepTold DEF Start
<1>6. Pass \/ Stream => Told'
  BY <1>b, <1>3, <1>4, WholePassTold, GoneTold, QuietStepTold DEF Pass, Stream
<1> QED BY <1>b, <1>2, <1>5, <1>6, QuietStepTold DEF Next

LEMMA InitTold == Init => Told
<1> SUFFICES ASSUME Init PROVE Told
  OBVIOUS
<1>1. \A d \in Closing : judged[d] = "no"
  BY DEF Init, Closing
<1>2. ReportNotLost
  BY <1>1 DEF ReportNotLost
<1>3. Closing = {}
  <2> DEFINE o == Deal("others", Others0, 0, Others0, 0)
             e == Deal("entry", Mine0, 0, Mine0 + Others0, 0)
  <2>1. deals \in Seq({o, e})
    BY InitDeals
  <2>2. o.closed = 0 /\ e.closed = 0
    BY DEF Deal
  <2> HIDE DEF o, e
  <2>3. \A d \in DOMAIN deals : deals[d] \in {o, e}
    BY <2>1
  <2> QED BY <2>2, <2>3 DEF Closing
<1>4. Pending(1) = {}
  BY <1>3 DEF Pending
<1> QED BY <1>2, <1>4 DEF Told, WindowSound

\* The stream handles what waits before it judges: a report waits in a stopped process only.
LEMMA NextFlushed == FlushSound /\ [Next]_vars => FlushSound'
<1> SUFFICES ASSUME FlushSound, [Next]_vars PROVE FlushSound'
  OBVIOUS
<1>1. Venue \/ OwnClose \/ OwnEntry \/ Lose \/ Crash \/ UNCHANGED vars => FlushSound'
  BY DEF Venue, ForeignClose, OthersAdd, OwnClose, OwnEntry, Lose, Crash, Die, vars, verdictVars,
         FlushSound
<1>2. Stream => FlushSound'
  BY DEF Stream, DropPush, TakePush, JudgePush, CutPush, Die, verdictVars, FlushSound
<1>3. ASSUME NEW takes, JudgeRecovered(takes), UNCHANGED phase PROVE FlushSound'
  BY <1>3 DEF JudgeRecovered, FlushSound
<1>4. ASSUME NEW takes, CutJudgement(takes) PROVE FlushSound'
  BY <1>4 DEF CutJudgement, Die, FlushSound
<1>5. Pass => FlushSound'
  <2>1. PassClear \/ PassAccept \/ PassWatch \/ PassGoneAccepted => FlushSound'
    BY DEF PassClear, PassAccept, PassWatch, PassGoneAccepted, verdictVars, FlushSound
  <2>2. PassStartup \/ PassJudge \/ PassUnshared \/ PassGone => FlushSound'
    BY <1>3, <1>4 DEF PassStartup, PassJudge, PassUnshared, PassGone
  <2> QED BY <2>1, <2>2 DEF Pass
<1>6. ASSUME NEW reports, Began(reports) PROVE FlushSound'
  BY <1>6 DEF Began, FlushSound
<1>7. Start => FlushSound'
  BY <1>4, <1>6 DEF Start, Restart, ResumedRestart, RestartUnread, RestartGone, RestartGoneAccepted
<1> QED BY <1>1, <1>2, <1>5, <1>7 DEF Next

\* The invariant the runs check is inductive, for every volume and every bound, where a
\* process stops once it saw the fills of its own closes and a startup shrink is judged
\* before the position is gone.
THEOREM InvariantHolds ==
  ASSUME ~ CrashUnseen, ~ GoneFirst
  PROVE  Spec => []IInv
<1>1. Init => Sound /\ Kept /\ Told /\ FlushSound
  BY InitBase, InitReplay, InitKept, InitTold DEF Sound, Init, FlushSound
<1>2. Sound /\ Kept /\ Told /\ FlushSound /\ [Next]_vars => (Sound /\ Kept /\ Told /\ FlushSound)'
  BY NextSound, NextKept, NextTold, NextFlushed
<1>3. Sound /\ Kept /\ Told /\ FlushSound => IInv
  BY DEF Sound, Base, Kept, Told, IInv
<1> QED BY <1>1, <1>2, <1>3, PTL DEF Spec

\* A close of others that took of the share and is marked as judged, so that no process
\* judges it again, has its doubt in the log, its report in the journal, or there the
\* report of the position that waited when it was judged: pushed or found in a history,
\* with a stop before, between and after the report and the mark.
THEOREM ReportNeverLost ==
  ASSUME ~ CrashUnseen, ~ GoneFirst
  PROVE  Spec => []ReportNotLost
<1>1. IInv => ReportNotLost
  BY DEF IInv
<1> QED BY <1>1, InvariantHolds, PTL

=============================================================================
