-------------------------- MODULE OwnClosesProofs --------------------------
(***************************************************************************)
(* Proofs about OwnCloses, for every share, every number of closes and     *)
(* every number of fills of others, of the venue and of an own entry.      *)
(*                                                                         *)
(* The invariant says what the queue, the answers, the claims and the      *)
(* verdicts remember of the deals, and that a close whose fills may still  *)
(* come is known by its order or takes every fill: that is why a fill of   *)
(* the run's own is never taken for somebody else's, though a close        *)
(* request carries no client order id.                                     *)
(***************************************************************************)
EXTENDS OwnCloses, FiniteSetTheorems, SequenceTheorems, WellFoundedInduction, TLAPS

-----------------------------------------------------------------------------
(* Induction, sums and steps along a sequence *)

\* A set of numbers that is not empty has a least element.
LEMMA LeastOf ==
  ASSUME NEW S, S \subseteq Nat, S # {}
  PROVE  \E x \in S : \A y \in S : x <= y
<1> DEFINE R == {ss \in Nat \X Nat : ss[1] < ss[2]}
<1>1. \A x, y \in Nat : <<x, y>> \in R <=> x < y
  OBVIOUS
<1>2. IsWellFoundedOn(R, Nat)
  BY Zenon, NatLessThanWellFounded DEF OpToRel
<1> HIDE DEF R
<1>3. \E x \in S : \A y \in S : ~ (<<y, x>> \in R)
  BY <1>2, WFMin, Zenon
<1>4. PICK x \in S : \A y \in S : ~ (<<y, x>> \in R)
  BY <1>3
<1>5. \A y \in S : ~ (y < x)
  BY Zenon, <1>1, <1>4
<1> QED BY <1>4, <1>5

\* Induction over the numbers, for the set of those the claim holds for.
LEMMA NatInduct ==
  ASSUME NEW S, 0 \in S, \A n \in Nat : n \in S => n + 1 \in S
  PROVE  Nat \subseteq S
<1> SUFFICES ASSUME Nat \ S # {} PROVE FALSE
  OBVIOUS
<1>1. PICK x \in Nat \ S : \A y \in Nat \ S : x <= y
  BY LeastOf
<1>2. x # 0 /\ x - 1 \in Nat
  BY <1>1
<1>3. x - 1 \in S
  BY <1>1, <1>2
<1> QED BY <1>1, <1>2, <1>3

\* The element of a set that its sum takes first.
One(s) == CHOOSE x \in s : TRUE

\* The equation of the sum of w over the subsets of S, and over one of them.
Adds(it, w, S) == it = [s \in SUBSET S |-> IF s = {} THEN 0 ELSE w[One(s)] + it[s \ {One(s)}]]
Eqn(g, w, s) == g[s] = IF s = {} THEN 0 ELSE w[One(s)] + g[s \ {One(s)}]

\* The sum of the library is a function that satisfies the equation of sums.
LEMMA SumIs ==
  ASSUME NEW S, NEW w, S = DOMAIN w
  PROVE  SumFunction(w) = (CHOOSE it : Adds(it, w, S))[S]
BY Zenon DEF SumFunction, SumFunctionOnSet, FoldFunctionOnSet, MapThenFoldSet, Adds, One

\* A set that is not empty has that element, and is larger by one than without it.
LEMMA OneOf ==
  ASSUME NEW s, IsFiniteSet(s), s # {}
  PROVE  One(s) \in s /\ Cardinality(s \ {One(s)}) = Cardinality(s) - 1
<1>1. One(s) \in s
  BY DEF One
<1> QED BY Zenon, <1>1, FS_RemoveElement

\* A function satisfies the equation on all subsets of a finite set.
LEMMA SumExists ==
  ASSUME NEW S, IsFiniteSet(S), NEW w \in [S -> Int]
  PROVE  \E it : Adds(it, w, S)
<1> DEFINE T == {n \in Nat : \E g \in [SUBSET S -> Int] :
                               \A s \in SUBSET S : Cardinality(s) <= n => Eqn(g, w, s)}
<1>c. \A s \in SUBSET S : IsFiniteSet(s) /\ Cardinality(s) \in Nat
  BY FS_Subset, FS_CardinalityType
<1>1. 0 \in T
  <2> DEFINE g == [s \in SUBSET S |-> 0]
  <2>1. ASSUME NEW s \in SUBSET S, Cardinality(s) <= 0 PROVE Eqn(g, w, s)
    <3>1. s = {}
      BY <1>c, <2>1, FS_EmptySet
    <3> QED BY <3>1 DEF Eqn
  <2>2. g \in [SUBSET S -> Int]
    OBVIOUS
  <2> HIDE DEF g
  <2> QED BY <2>1, <2>2
<1>2. ASSUME NEW n \in Nat, n \in T PROVE n + 1 \in T
  <2>1. PICK g \in [SUBSET S -> Int] : \A s \in SUBSET S : Cardinality(s) <= n => Eqn(g, w, s)
    BY <1>2
  <2> DEFINE h == [s \in SUBSET S |-> IF s = {} THEN 0 ELSE w[One(s)] + g[s \ {One(s)}]]
  <2>2. h \in [SUBSET S -> Int]
    <3> SUFFICES ASSUME NEW s \in SUBSET S, s # {} PROVE w[One(s)] + g[s \ {One(s)}] \in Int
      OBVIOUS
    <3>1. One(s) \in S /\ s \ {One(s)} \in SUBSET S
      BY <1>c, OneOf
    <3> QED BY <3>1
  <2>3. \A s \in SUBSET S : Cardinality(s) <= n => h[s] = g[s]
    BY <2>1 DEF Eqn
  <2>4. ASSUME NEW s \in SUBSET S, Cardinality(s) <= n + 1 PROVE Eqn(h, w, s)
    <3>1. CASE s = {}
      BY <3>1 DEF Eqn
    <3>2. CASE s # {}
      <4>1. s \ {One(s)} \in SUBSET S /\ Cardinality(s \ {One(s)}) <= n
        BY <1>c, <2>4, <3>2, OneOf
      <4>2. h[s \ {One(s)}] = g[s \ {One(s)}]
        BY <2>3, <4>1
      <4> QED BY <3>2, <4>2 DEF Eqn
    <3> QED BY <3>1, <3>2
  <2> HIDE DEF h
  <2> QED BY <2>2, <2>4
<1> HIDE DEF T
<1>3. Nat \subseteq T
  BY <1>1, <1>2, NatInduct
<1>4. PICK g \in [SUBSET S -> Int] :
        \A s \in SUBSET S : Cardinality(s) <= Cardinality(S) => Eqn(g, w, s)
  BY <1>3, <1>c DEF T
<1>5. \A s \in SUBSET S : Cardinality(s) <= Cardinality(S)
  BY FS_Subset
<1>6. Adds(g, w, S)
  BY <1>4, <1>5 DEF Adds, Eqn
<1> QED BY <1>6

\* So does the sum.
LEMMA SumSolves ==
  ASSUME NEW S, IsFiniteSet(S), NEW w \in [S -> Int]
  PROVE  \E it : /\ SumFunction(w) = it[S]
                 /\ \A s \in SUBSET S : Eqn(it, w, s)
<1> DEFINE k == CHOOSE it : Adds(it, w, S)
<1>1. Adds(k, w, S)
  BY SumExists
<1>2. SumFunction(w) = k[S]
  BY SumIs
<1> HIDE DEF k
<1>3. \A s \in SUBSET S : Eqn(k, w, s)
  BY <1>1 DEF Adds, Eqn
<1> QED BY <1>2, <1>3

\* A sum of integers is an integer, a sum of naturals a natural: V is either.
LEMMA SumIn ==
  ASSUME NEW S, IsFiniteSet(S), NEW V \in {Int, Nat}, NEW w \in [S -> V]
  PROVE  SumFunction(w) \in V
<1>0. w \in [S -> Int] /\ 0 \in V /\ \A x, y \in V : x + y \in V
  OBVIOUS
<1>1. PICK it : SumFunction(w) = it[S] /\ \A s \in SUBSET S : Eqn(it, w, s)
  BY <1>0, SumSolves
<1> DEFINE T == {n \in Nat : \A s \in SUBSET S : Cardinality(s) = n => it[s] \in V}
<1>c. \A s \in SUBSET S : IsFiniteSet(s) /\ Cardinality(s) \in Nat
  BY FS_Subset, FS_CardinalityType
<1>2. 0 \in T
  BY <1>0, <1>1, <1>c, FS_EmptySet DEF Eqn
<1>3. ASSUME NEW n \in Nat, n \in T PROVE n + 1 \in T
  <2> SUFFICES ASSUME NEW s \in SUBSET S, Cardinality(s) = n + 1 PROVE it[s] \in V
    OBVIOUS
  <2>1. s # {}
    BY FS_EmptySet
  <2>2. One(s) \in S /\ s \ {One(s)} \in SUBSET S /\ Cardinality(s \ {One(s)}) = n
    BY <1>c, <2>1, OneOf
  <2>3. it[s \ {One(s)}] \in V /\ w[One(s)] \in V
    BY <1>3, <2>2
  <2>4. it[s] = w[One(s)] + it[s \ {One(s)}]
    BY <1>1, <2>1 DEF Eqn
  <2> QED BY <1>0, <2>3, <2>4
<1> HIDE DEF T
<1>4. Nat \subseteq T
  BY <1>2, <1>3, NatInduct
<1> QED BY <1>1, <1>4, <1>c DEF T

\* A sum of smaller numbers is not larger.
LEMMA SumLeast ==
  ASSUME NEW S, IsFiniteSet(S), NEW w \in [S -> Nat], NEW v \in [S -> Nat],
         \A x \in S : w[x] <= v[x]
  PROVE  SumFunction(w) <= SumFunction(v)
<1>0. w \in [S -> Int] /\ v \in [S -> Int]
  OBVIOUS
<1>1. PICK it : SumFunction(w) = it[S] /\ \A s \in SUBSET S : Eqn(it, w, s)
  BY <1>0, SumSolves
<1>2. PICK ht : SumFunction(v) = ht[S] /\ \A s \in SUBSET S : Eqn(ht, v, s)
  BY <1>0, SumSolves
<1> DEFINE T == {n \in Nat : \A s \in SUBSET S : Cardinality(s) = n =>
                               it[s] \in Nat /\ ht[s] \in Nat /\ it[s] <= ht[s]}
<1>c. \A s \in SUBSET S : IsFiniteSet(s) /\ Cardinality(s) \in Nat
  BY FS_Subset, FS_CardinalityType
<1>3. 0 \in T
  BY <1>1, <1>2, <1>c, FS_EmptySet DEF Eqn
<1>4. ASSUME NEW n \in Nat, n \in T PROVE n + 1 \in T
  <2> SUFFICES ASSUME NEW s \in SUBSET S, Cardinality(s) = n + 1
               PROVE  it[s] \in Nat /\ ht[s] \in Nat /\ it[s] <= ht[s]
    OBVIOUS
  <2> DEFINE o == One(s)
             r == s \ {o}
  <2>1. s # {}
    BY FS_EmptySet
  <2>2. o \in S /\ r \in SUBSET S /\ Cardinality(r) = n
    BY <1>c, <2>1, OneOf
  <2>3. it[s] = w[o] + it[r] /\ ht[s] = v[o] + ht[r]
    BY <1>1, <1>2, <2>1 DEF Eqn
  <2> HIDE DEF o, r
  <2>4. it[r] \in Nat /\ ht[r] \in Nat /\ it[r] <= ht[r]
    BY <1>4, <2>2
  <2>5. w[o] \in Nat /\ v[o] \in Nat /\ w[o] <= v[o]
    BY <2>2
  <2> QED BY <2>3, <2>4, <2>5
<1> HIDE DEF T
<1>5. Nat \subseteq T
  BY <1>3, <1>4, NatInduct
<1> QED BY <1>1, <1>2, <1>5, <1>c DEF T

\* Steps, one for each element of a sequence of n: what they carry from a start
\* is a function of the place.
Carries(at, n, a, f) == at = [i \in 0 .. n |-> IF i = 0 THEN a ELSE f[i][at[i - 1]]]

\* Steps of a function within a set can be carried along: there is such a sequence.
LEMMA CarryExists ==
  ASSUME NEW n \in Nat, NEW V, NEW a \in V, NEW f, \A i \in 1 .. n : \A x \in V : f[i][x] \in V
  PROVE  \E at \in [0 .. n -> V] : Carries(at, n, a, f)
<1> DEFINE Good(at, k) == \A i \in 0 .. k : at[i] = IF i = 0 THEN a ELSE f[i][at[i - 1]]
           T == {k \in Nat : k <= n => \E at \in [0 .. n -> V] : Good(at, k)}
<1>1. 0 \in T
  <2>1. [i \in 0 .. n |-> a] \in [0 .. n -> V] /\ Good([i \in 0 .. n |-> a], 0)
    OBVIOUS
  <2> QED BY <2>1
<1>2. ASSUME NEW k \in Nat, k \in T PROVE k + 1 \in T
  <2> SUFFICES ASSUME k + 1 <= n PROVE \E at \in [0 .. n -> V] : Good(at, k + 1)
    OBVIOUS
  <2>1. PICK s \in [0 .. n -> V] : Good(s, k)
    BY <1>2
  <2> DEFINE v == f[k + 1][s[k]]
             t == [s EXCEPT ![k + 1] = v]
  <2>2. v \in V
    BY <2>1
  <2> HIDE DEF v
  <2>3. t \in [0 .. n -> V] /\ t[k + 1] = v /\ \A i \in 0 .. k : t[i] = s[i]
    BY <2>2
  <2> HIDE DEF t
  <2>4. ASSUME NEW i \in 0 .. k + 1 PROVE t[i] = IF i = 0 THEN a ELSE f[i][t[i - 1]]
    <3>1. CASE i = k + 1
      BY <2>3, <3>1 DEF v
    <3>2. CASE i # k + 1
      <4>1. i \in 0 .. k /\ (i # 0 => i - 1 \in 0 .. k)
        BY <3>2
      <4> QED BY <2>1, <2>3, <4>1
    <3> QED BY <3>1, <3>2
  <2> QED BY <2>3, <2>4
<1> HIDE DEF T
<1>3. n \in T
  BY <1>1, <1>2, NatInduct
<1>4. PICK at \in [0 .. n -> V] : Good(at, n)
  BY <1>3 DEF T
<1>5. Carries(at, n, a, f)
  BY <1>4 DEF Carries
<1> QED BY <1>5

\* ... and the last of its values is in V.
LEMMA CarryKeeps ==
  ASSUME NEW n \in Nat, NEW V, NEW at, at[0] \in V, \A i \in 1 .. n : at[i - 1] \in V => at[i] \in V
  PROVE  at[n] \in V
<1> DEFINE T == {k \in Nat : k <= n => at[k] \in V}
<1>1. 0 \in T
  OBVIOUS
<1>2. ASSUME NEW k \in Nat, k \in T PROVE k + 1 \in T
  <2>1. k + 1 <= n => k + 1 \in 1 .. n /\ (k + 1) - 1 = k
    OBVIOUS
  <2> QED BY <1>2, <2>1
<1> HIDE DEF T
<1>3. n \in T
  BY <1>1, <1>2, NatInduct
<1> QED BY <1>3 DEF T
-----------------------------------------------------------------------------
(* The inductive invariant *)

Kinds == {"own", "ext", "venue", "entry"}

\* What the messages, the memory of the run and the history are made of.
Fill == [deal : Nat, kind : Kinds, order : Nat, qty : Nat, after : Nat, at : Nat, last : BOOLEAN]
Cancel == [kind : {"cancel"}, order : Closes]
Word == [kind : {"none", "refused", "accepted"}]
ClaimOf == [deal : Nat, order : Nat, own : BOOLEAN, qty : Nat, at : Nat, last : BOOLEAN,
            low : Int, high : Int, after : Nat, booked : Nat, venue : BOOLEAN, event : Nat,
            settles : BOOLEAN]
CloseOf == [phase : {"idle", "sent", "named", "unknown", "refused"}, live : BOOLEAN, vol : Nat,
            exec : Nat, counted : SUBSET Nat, complete : BOOLEAN, claims : Seq(ClaimOf)]
EffectOf == [delta : Int, counted : BOOLEAN, at : Nat, deal : Nat]
VerdictOf == [deal : Nat, at : Nat, lo : Int, hi : Int, after : Nat, qty : Nat, waits : Nat]
EntryOf == [phase : {"idle", "flight", "done", "unknown"},
            venue : {"none", "sent", "working", "over"}, answer : Word \union Fill,
            count : {0, EntryVolume}]
DealOf == [kind : Kinds \union {"add"}, took : Nat]

\* Every variable is of its type.
VenueTyped ==
  /\ vol \in Nat /\ mine \in Nat /\ mine <= vol /\ clock \in Nat
  /\ deals \in Seq(DealOf) /\ left \in [Closes -> Nat]

JournalTyped ==
  /\ rows \in BOOLEAN /\ filled \in Nat /\ retired \in Nat /\ retired <= filled

EffectsTyped == effects \in SUBSET EffectOf /\ IsFiniteSet(effects)

ReportsTyped ==
  /\ pending \in SUBSET Nat /\ reported \in SUBSET Nat /\ audited \in SUBSET Nat

Typed ==
  /\ VenueTyped
  /\ wire \in [Closes -> {"none", "sent", "working", "over"}]
  /\ ans \in [Closes -> Word \union Fill]
  /\ queue \in Seq(Fill \union Cancel)
  /\ JournalTyped
  /\ oc \in [Closes -> CloseOf]
  /\ dispatched \in BOOLEAN /\ seen \in SUBSET Nat
  /\ EffectsTyped /\ verdicts \in SUBSET VerdictOf /\ entry \in EntryOf
  /\ ReportsTyped
  /\ booked \in Nat

\* A message, a claim and a report say of a deal what it was.
IsOf(d, kind) == d \in Deals /\ deals[d].kind = kind

TrueFill(m) == IsOf(m.deal, m.kind) /\ (m.kind = "own" => m.order \in Closes)

TrueClaim(k) ==
  /\ k.own => k.order \in Closes /\ ~k.venue
  /\ IsOf(k.deal, IF k.venue THEN "venue" ELSE IF k.own THEN "own" ELSE "ext")

AllExt(S) == \A d \in S : IsOf(d, "ext")

QueueTrue == \A i \in DOMAIN queue : queue[i].kind \in Kinds => TrueFill(queue[i])
AnswersTrue ==
  \A c \in Closes : ans[c].kind \in Kinds =>
    TrueFill(ans[c]) /\ ans[c].kind = "own" /\ ans[c].order = c
EntryTrue ==
  entry.answer.kind \in Kinds => TrueFill(entry.answer) /\ entry.answer.kind = "entry"
ClaimsTrue == \A c \in Closes : \A i \in DOMAIN oc[c].claims : TrueClaim(oc[c].claims[i])
VerdictsTrue == \A v \in verdicts : IsOf(v.deal, "ext")
NotesTrue == audited \subseteq Deals /\ seen \subseteq Deals

\* The operator is called for deals of others only.
ReportsForeign == AllExt(pending) /\ AllExt(reported)

Truthful ==
  /\ QueueTrue /\ AnswersTrue /\ EntryTrue /\ ClaimsTrue /\ VerdictsTrue /\ NotesTrue
  /\ ReportsForeign

\* A close whose order may still execute, or a fill of which may still be on its
\* way, is known by its order or takes every closing fill.
Alive(c) == oc[c].phase \in {"sent", "named"} \/ (oc[c].phase = "unknown" /\ oc[c].live)

\* A close with fills has an order: the venue took its request and did not refuse it.
HasOrder(c) ==
  /\ wire[c] \in {"working", "over"} /\ ans[c].kind # "refused"
  /\ oc[c].phase \notin {"idle", "refused"}

WiresAlive ==
  \A c \in Closes :
    /\ wire[c] \in {"sent", "working"} => Alive(c)
    /\ wire[c] = "sent" => oc[c].phase \in {"sent", "unknown"} /\ ans[c].kind = "none"
    /\ wire[c] = "working" => ans[c].kind # "refused"
    /\ ans[c].kind # "none" => oc[c].phase = "sent"
    /\ oc[c].phase # "idle" => wire[c] # "none"

\* Closes are sent in order, one at a time.
OneByOne ==
  \A c \in Closes :
    /\ oc[c].phase = "sent" => oc[c].live
    /\ oc[c].phase \in {"idle", "sent"} => \A d \in Closes : d > c => oc[d].phase = "idle"

OwnPushesTracked ==
  \A i \in DOMAIN queue : queue[i].kind = "own" =>
    Alive(queue[i].order) /\ HasOrder(queue[i].order)

\* What a close in dispatch holds of the run's own fills is its own.
OwnClaimsTracked ==
  \A c \in Closes : \A i \in DOMAIN oc[c].claims : oc[c].claims[i].own =>
    /\ HasOrder(oc[c].claims[i].order)
    /\ oc[c].phase = "sent" => oc[c].claims[i].order = c

Tracked == WiresAlive /\ OneByOne /\ OwnPushesTracked /\ OwnClaimsTracked

IInv == Typed /\ Truthful /\ Tracked /\ HeldIsAwaited
-----------------------------------------------------------------------------
(* What the operators return *)

BoundsOf == [low : Nat, high : Nat, side : {"none", "buy", "sell"}]
NetOf == [lo : Int, hi : Int]
JudgementOf == [who : {"venue", "own", "external"}, after : Nat, booked : Nat, low : Int, high : Int,
                took : BOOLEAN, ambiguous : BOOLEAN, waits : BOOLEAN, holder : {0} \union Closes]

\* The closes are finitely many numbers.
LEMMA ClosesFinite == IsFiniteSet(Closes) /\ Closes \subseteq Nat \ {0}
<1>1. NCloses \in Nat
  BY BoundAssumption
<1>2. IsFiniteSet(1 .. NCloses)
  BY <1>1, FS_Interval
<1> QED BY <1>1, <1>2 DEF Closes

\* So are the places of a sequence.
LEMMA PlacesFinite ==
  ASSUME NEW S, NEW s \in Seq(S)
  PROVE  /\ IsFiniteSet(DOMAIN s) /\ DOMAIN s = 1 .. Len(s) /\ Len(s) \in Nat
         /\ \A i \in DOMAIN s : s[i] \in S
<1>1. DOMAIN s = 1 .. Len(s) /\ Len(s) \in Nat
  OBVIOUS
<1>2. IsFiniteSet(1 .. Len(s))
  BY <1>1, FS_Interval
<1> QED BY <1>1, <1>2

\* What a close claimed is a volume.
LEMMA ClaimedNat ==
  ASSUME NEW r \in CloseOf PROVE Claimed(r) \in Nat
<1> DEFINE w == [i \in DOMAIN r.claims |-> IF r.claims[i].venue THEN 0 ELSE r.claims[i].booked]
<1>1. r.claims \in Seq(ClaimOf)
  BY DEF CloseOf
<1>2. IsFiniteSet(DOMAIN r.claims) /\ \A i \in DOMAIN r.claims : r.claims[i] \in ClaimOf
  BY <1>1, PlacesFinite
<1>3. w \in [DOMAIN r.claims -> Nat]
  BY <1>2 DEF ClaimOf
<1>4. Claimed(r) = SumFunction(w)
  BY DEF Claimed, SumOf
<1> HIDE DEF w
<1> QED BY <1>2, <1>3, <1>4, SumIn

\* So is what may have executed of it unseen.
LEMMA UnresolvedNat ==
  ASSUME oc \in [Closes -> CloseOf], NEW c \in Closes PROVE Unresolved(c) \in Nat
<1> DEFINE r == oc[c]
           w == [i \in DOMAIN r.claims |-> IF r.claims[i].venue THEN 0 ELSE r.claims[i].qty]
<1>0. r \in CloseOf
  OBVIOUS
<1>1. r.claims \in Seq(ClaimOf) /\ r.vol \in Nat /\ r.exec \in Nat
  BY <1>0 DEF CloseOf
<1>2. IsFiniteSet(DOMAIN r.claims) /\ \A i \in DOMAIN r.claims : r.claims[i] \in ClaimOf
  BY <1>1, PlacesFinite
<1>3. w \in [DOMAIN r.claims -> Nat]
  BY <1>2 DEF ClaimOf
<1>4. Unresolved(c) = IF oc[c].phase \in {"named", "unknown"} /\ ~oc[c].complete
                      THEN AtLeast0(oc[c].vol - oc[c].exec - SumFunction(w)) ELSE 0
  BY DEF Unresolved, SumOf
<1> HIDE DEF w
<1>5. SumFunction(w) \in Nat
  BY <1>2, <1>3, SumIn
<1> QED BY <1>1, <1>4, <1>5 DEF AtLeast0

\* The net as of a timestamp lies between two integers.
LEMMA NetTyped ==
  ASSUME Typed, NEW at \in Nat PROVE NetBounds(at) \in NetOf
<1>t. /\ effects \in SUBSET EffectOf /\ IsFiniteSet(effects) /\ oc \in [Closes -> CloseOf]
      /\ Share \in Int
  BY DEF Typed, EffectsTyped, JournalTyped, Share
<1> DEFINE sure == {e \in effects : Certain(e, at)}
           open == {e \in effects : e.at = at}
           base == Share + SumFunction([x \in sure |-> Shift(x)])
           down == SumFunction([x \in open |-> Least(0, Shift(x))])
           up == SumFunction([x \in open |-> Most(0, Shift(x))])
           unseen == SumFunction([x \in Closes |-> Unresolved(x)])
<1>1. \A e \in effects : Shift(e) \in Int
  BY <1>t DEF EffectOf, Shift
<1>2. base \in Int
  <2>1. IsFiniteSet(sure) /\ [x \in sure |-> Shift(x)] \in [sure -> Int]
    BY <1>t, <1>1, FS_Subset
  <2> HIDE DEF sure
  <2>2. SumFunction([x \in sure |-> Shift(x)]) \in Int
    BY <2>1, SumIn
  <2> QED BY <1>t, <2>2
<1>3. down \in Int /\ up \in Int
  <2>1. /\ IsFiniteSet(open)
        /\ [x \in open |-> Least(0, Shift(x))] \in [open -> Int]
        /\ [x \in open |-> Most(0, Shift(x))] \in [open -> Int]
    BY <1>t, <1>1, FS_Subset DEF Least, Most
  <2> HIDE DEF open
  <2> QED BY <2>1, SumIn
<1>4. unseen \in Nat
  <2>1. [x \in Closes |-> Unresolved(x)] \in [Closes -> Nat]
    BY <1>t, UnresolvedNat
  <2> QED BY <2>1, ClosesFinite, SumIn
<1>5. NetBounds(at) = Within(base + down, base + up, unseen)
  BY DEF NetBounds, Spread, Sum
<1> HIDE DEF base, down, up, unseen
<1>6. base + down \in Int /\ base + up \in Int
  BY <1>2, <1>3
<1>7. ASSUME NEW lo \in Int, NEW hi \in Int, NEW n \in Nat PROVE Within(lo, hi, n) \in NetOf
  BY DEF Within, NetOf, AtLeast0, Least
<1> QED BY <1>4, <1>5, <1>6, <1>7

\* A net bounds a share.
LEMMA BoundsTyped ==
  ASSUME NEW lo \in Int, NEW hi \in Int, NEW n \in Nat
  PROVE  BoundsOfNet(lo, hi, n) \in BoundsOf
BY DEF BoundsOfNet, OnItsSide, BoundsOf, Most

\* The share as of a timestamp lies between two volumes.
LEMMA ShareTyped ==
  ASSUME Typed, NEW at \in Nat, NEW n \in Nat PROVE ShareBounds(at, n) \in BoundsOf
<1>1. NetBounds(at) \in NetOf
  BY NetTyped
<1>2. NetBounds(at).lo \in Int /\ NetBounds(at).hi \in Int
  BY <1>1 DEF NetOf
<1> QED BY <1>2, BoundsTyped DEF ShareBounds, InFlightBounds

\* An entry in flight is a volume.
LEMMA InFlightNat == ASSUME Typed PROVE InFlight \in Nat
BY DEF Typed, EntryOf, InFlight, EntryVolume

\* The wildcard is a close that takes every fill, the first one.
LEMMA WildcardIs ==
  /\ Wildcard \in {0} \union Closes
  /\ Wildcard # 0 => oc[Wildcard].live /\ oc[Wildcard].phase \in {"sent", "unknown"}
  /\ \A c \in Closes : oc[c].live /\ oc[c].phase \in {"sent", "unknown"} =>
       Wildcard # 0 /\ Wildcard <= c
<1> DEFINE claiming == {c \in Closes : oc[c].live /\ oc[c].phase \in {"sent", "unknown"}}
           first == CHOOSE c \in claiming : \A d \in claiming : c <= d
<1>1. Wildcard = IF claiming = {} THEN 0 ELSE first
  BY Zenon DEF Wildcard
<1>2. ASSUME claiming # {} PROVE first \in claiming /\ \A d \in claiming : first <= d
  <2>1. claiming \subseteq Nat
    BY ClosesFinite
  <2>2. \E c \in claiming : \A d \in claiming : c <= d
    BY <1>2, <2>1, LeastOf
  <2> QED BY <2>2
<1> HIDE DEF first
<1>3. CASE claiming = {}
  BY <1>1, <1>3
<1>4. CASE claiming # {}
  <2>1. Wildcard = first /\ first \in claiming /\ \A d \in claiming : first <= d
    BY <1>1, <1>2, <1>4
  <2> QED BY <2>1, ClosesFinite
<1> QED BY <1>3, <1>4

\* Whose close a fill is.
LEMMA OriginTyped ==
  ASSUME NEW m \in Fill, m.kind # "entry", m.kind = "own" => m.order \in Closes
  PROVE  Origin(m) \in [who : {"venue", "own", "external"}, close : {0} \union Closes]
BY WildcardIs DEF Origin, Named

\* The verdict on a fill.
LEMMA JudgeTyped ==
  ASSUME Typed, NEW m \in Fill, m.kind # "entry", m.kind = "own" => m.order \in Closes
  PROVE  Judge(m) \in JudgementOf
<1> DEFINE from == Origin(m)
           bounds == ShareBounds(m.at, InFlight)
           settled == ShareBounds(m.at, 0)
           after == IF rows THEN VenueAfter(m, bounds.side) ELSE m.after
           taker == IF Named(m) THEN 0 ELSE from.close
           shortLow == AtLeast0(bounds.low - after)
           asked == IF taker = 0 THEN m.qty ELSE AtLeast0(oc[taker].vol - Claimed(oc[taker]))
<1>1. /\ m.qty \in Nat /\ m.after \in Nat /\ m.at \in Nat /\ rows \in BOOLEAN
      /\ oc \in [Closes -> CloseOf]
  BY DEF Fill, Typed, JournalTyped
<1>2. bounds \in BoundsOf /\ settled \in BoundsOf
  BY <1>1, InFlightNat, ShareTyped
<1>3. from \in [who : {"venue", "own", "external"}, close : {0} \union Closes]
  BY OriginTyped
<1>4. taker \in {0} \union Closes /\ Wildcard \in {0} \union Closes
  BY <1>3, WildcardIs
<1>5. Judge(m) = Judged(m, from, bounds, settled, after, taker)
  BY DEF Judge, JudgedFrom
<1> HIDE DEF from, bounds, settled, taker
<1>6. after \in Nat /\ VenueAfter(m, settled.side) \in Nat
  BY <1>1 DEF VenueAfter
<1> HIDE DEF after
<1>7. bounds.low \in Nat /\ bounds.high \in Nat /\ settled.low \in Nat /\ from.who \in {"venue", "own", "external"}
  BY <1>2, <1>3 DEF BoundsOf
<1>8. asked \in Nat
  <2>1. CASE taker = 0
    BY <1>1, <2>1
  <2>2. CASE taker # 0
    <3>1. oc[taker] \in CloseOf
      BY <1>1, <1>4, <2>2
    <3>2. oc[taker].vol \in Nat /\ Claimed(oc[taker]) \in Nat
      BY <3>1, ClaimedNat DEF CloseOf
    <3> QED BY <2>2, <3>2 DEF AtLeast0
  <2> QED BY <2>1, <2>2
<1>9. shortLow \in Nat
  BY <1>6, <1>7 DEF AtLeast0
<1> DEFINE ambiguous == rows /\ from.who = "external" /\ shortLow = 0 /\ bounds.high > after
           books == CASE ~rows -> m.qty
                       [] rows /\ from.who = "own" -> Least(Least(m.qty, bounds.high), asked)
                       [] OTHER -> Least(m.qty, Most(shortLow,
                                            settled.low - VenueAfter(m, settled.side)))
           low == CASE ~rows -> Unknown
                    [] rows /\ from.who = "own" -> bounds.low
                    [] OTHER -> Most(bounds.low, settled.low)
           high == IF rows THEN bounds.high ELSE Unknown
           holder == IF from.who = "venue" THEN IF rows THEN Wildcard ELSE 0 ELSE taker
<1>10. Judge(m) = [who |-> from.who, after |-> after, booked |-> books, low |-> low, high |-> high,
                   took |-> ~rows \/ shortLow > 0, ambiguous |-> ambiguous,
                   waits |-> ambiguous /\ InFlight > 0, holder |-> holder]
  BY Zenon, <1>5 DEF Judged
<1> HIDE DEF asked, shortLow
<1>11. books \in Nat
  BY <1>1, <1>6, <1>7, <1>8, <1>9 DEF Least, Most
<1>12. low \in Int /\ high \in Int
  BY <1>1, <1>7 DEF Most, Unknown
<1>13. holder \in {0} \union Closes
  BY <1>4
<1>14. ambiguous \in BOOLEAN /\ (ambiguous /\ InFlight > 0) \in BOOLEAN /\ (~rows \/ shortLow > 0) \in BOOLEAN
  OBVIOUS
<1> HIDE DEF books, low, high, holder, ambiguous
<1> QED BY <1>6, <1>7, <1>10, <1>11, <1>12, <1>13, <1>14 DEF JudgementOf
-----------------------------------------------------------------------------
(* The claims of a close, once it is answered *)

\* What a second judgement carries: only deals of others are to be reported.
ExcessOf == [deal : Deals, over : Nat]
RejudgedOf == [credit : Int, excess : Seq(ExcessOf), queued : {S \in SUBSET Nat : AllExt(S)},
               logged : SUBSET Deals]
LeadOf == [low : Nat, high : Nat]

\* The deals are the places of the history.
LEMMA DealsAre ==
  ASSUME Typed PROVE Deals = DOMAIN deals /\ Deals \subseteq Nat
BY DEF Typed, VenueTyped, Deals

\* The answer's own fill lies before a claim by a volume.
LEMMA LeadTyped ==
  ASSUME NEW k \in ClaimOf, NEW ahead \in Fill \union {NoAnswer} PROVE Lead(k, ahead) \in LeadOf
BY DEF Lead, LeadOf, Fill, NoAnswer

\* A claim judged again is reported only if somebody else made it.
LEMMA CorrectedTyped ==
  ASSUME Typed, NEW r \in RejudgedOf, NEW k \in ClaimOf, TrueClaim(k), ~k.own,
         NEW taken \in Nat, NEW low \in Nat, NEW high \in Nat
  PROVE  Corrected(r, k, taken, low, high) \in RejudgedOf
<1> DEFINE judged == ~k.venue /\ ~(k.own /\ oc[k.order].phase = "named")
           known == k.low # Unknown
           x == [deal |-> k.deal, over |-> AtLeast0(k.booked - taken)]
           credit == r.credit + k.booked - taken
           queued == IF judged /\ known /\ low > 0 THEN Report(r.queued, k.deal) ELSE r.queued
           logged == IF judged /\ (~known \/ (low = 0 /\ high > 0))
                     THEN r.logged \cup {k.deal} ELSE r.logged
<1>1. /\ r.credit \in Int /\ r.excess \in Seq(ExcessOf) /\ r.logged \in SUBSET Deals
      /\ r.queued \in SUBSET Nat /\ AllExt(r.queued)
  BY DEF RejudgedOf
<1>2. k.booked \in Nat /\ k.deal \in Deals /\ (~k.venue => IsOf(k.deal, "ext"))
  BY DEF ClaimOf, TrueClaim, IsOf
<1>3. credit \in Int
  BY <1>1, <1>2
<1>4. x \in ExcessOf
  BY <1>2 DEF ExcessOf, AtLeast0
<1>5. Append(r.excess, x) \in Seq(ExcessOf)
  BY <1>1, <1>4
<1>6. queued \in SUBSET Nat /\ AllExt(queued)
  BY <1>1, <1>2, DealsAre DEF Report, AllExt
<1>7. logged \in SUBSET Deals
  BY <1>1, <1>2
<1>8. Corrected(r, k, taken, low, high) =
        [credit |-> credit, excess |-> Append(r.excess, x), queued |-> queued, logged |-> logged]
  BY Zenon DEF Corrected
<1> HIDE DEF credit, x, queued, logged
<1> QED BY <1>3, <1>5, <1>6, <1>7, <1>8 DEF RejudgedOf

\* One claim is judged again with the credit so far.
LEMMA RejudgeStep ==
  ASSUME Typed, NEW order, NEW ahead \in Fill \union {NoAnswer}, NEW r \in RejudgedOf,
         NEW k \in ClaimOf, TrueClaim(k), k.own => k.order = order
  PROVE  RejudgeClaim(order, Lead(k, ahead), r, k) \in RejudgedOf
<1>1. CASE k.own /\ k.order = order
  <2> DEFINE c == IF k.low = Unknown THEN r.credit
                  ELSE r.credit - AtLeast0(Least(k.qty, k.high + r.credit) - k.booked)
  <2>1. /\ r.credit \in Int /\ r.excess \in Seq(ExcessOf) /\ r.logged \in SUBSET Deals
        /\ r.queued \in {S \in SUBSET Nat : AllExt(S)}
    BY DEF RejudgedOf
  <2>2. c \in Int
    BY <2>1 DEF ClaimOf, AtLeast0, Least
  <2>3. RejudgeClaim(order, Lead(k, ahead), r, k) = [r EXCEPT !.credit = c]
    BY <1>1 DEF RejudgeClaim
  <2> HIDE DEF c
  <2> QED BY <2>2, <2>3 DEF RejudgedOf
<1>2. CASE ~(k.own /\ k.order = order)
  <2> DEFINE lead == Lead(k, ahead)
             low == TookOf(k, k.low + r.credit - lead.high)
             high == TookOf(k, k.high + r.credit - lead.low)
             taken == IF k.low = Unknown \/ (k.own /\ ~k.venue /\ oc[k.order].phase = "named")
                      THEN k.booked ELSE low
  <2>1. lead \in LeadOf
    BY LeadTyped
  <2> HIDE DEF lead
  <2>2. k.low \in Int /\ k.high \in Int /\ k.qty \in Nat /\ k.after \in Nat /\ k.booked \in Nat
    BY DEF ClaimOf
  <2>3. r.credit \in Int /\ lead.low \in Nat /\ lead.high \in Nat
    BY <2>1 DEF RejudgedOf, LeadOf
  <2>4. low \in Nat /\ high \in Nat
    BY <2>2, <2>3 DEF TookOf, Least, AtLeast0
  <2> HIDE DEF low, high
  <2>5. taken \in Nat
    BY <2>2, <2>4
  <2>6. RejudgeClaim(order, lead, r, k) = Corrected(r, k, taken, low, high)
    BY Zenon, <1>2 DEF RejudgeClaim, Rejudged, low, high
  <2> HIDE DEF taken
  <2>7. Corrected(r, k, taken, low, high) \in RejudgedOf
    BY <1>2, <2>4, <2>5, CorrectedTyped
  <2> QED BY <2>6, <2>7 DEF lead
<1> QED BY <1>1, <1>2

\* All are: as the fills of the close's own order are known, only those of others are
\* reported.
LEMMA RejudgeTyped ==
  ASSUME Typed, ReportsForeign, NotesTrue, NEW order, NEW ahead \in Fill \union {NoAnswer},
         NEW claims \in Seq(ClaimOf),
         \A i \in DOMAIN claims : TrueClaim(claims[i]) /\ (claims[i].own => claims[i].order = order)
  PROVE  Rejudge(claims, order, ahead) \in RejudgedOf
<1> DEFINE n == Len(claims)
           a == [credit |-> 0, excess |-> <<>>, queued |-> pending, logged |-> audited]
           f == [i \in 1 .. n |-> [x \in RejudgedOf |->
                   RejudgeClaim(order, Lead(claims[i], ahead), x, claims[i])]]
           Is(at) == at = [i \in 0 .. n |->
                       IF i = 0 THEN a
                       ELSE RejudgeClaim(order, Lead(claims[i], ahead), at[i - 1], claims[i])]
           k == CHOOSE at : Is(at)
<1>1. n \in Nat /\ DOMAIN claims = 1 .. n /\ \A i \in 1 .. n : claims[i] \in ClaimOf
  OBVIOUS
<1>2. a \in RejudgedOf
  BY DEF RejudgedOf, Typed, ReportsTyped, ReportsForeign, NotesTrue
<1>3. \A i \in 1 .. n : \A x \in RejudgedOf :
        RejudgeClaim(order, Lead(claims[i], ahead), x, claims[i]) \in RejudgedOf
  BY <1>1, RejudgeStep
<1>4. Rejudge(claims, order, ahead) = k[n]
  BY Zenon DEF Rejudge, Carried
<1> HIDE DEF n, a
<1>5. \A i \in 1 .. n : \A x \in RejudgedOf :
        f[i][x] = RejudgeClaim(order, Lead(claims[i], ahead), x, claims[i])
  OBVIOUS
<1>6. \A i \in 1 .. n : \A x \in RejudgedOf : f[i][x] \in RejudgedOf
  BY <1>3, <1>5
<1> HIDE DEF f
<1>7. PICK g \in [0 .. n -> RejudgedOf] : Carries(g, n, a, f)
  BY <1>1, <1>2, <1>6, CarryExists
<1>8. Is(g)
  <2>1. ASSUME NEW i \in 0 .. n
        PROVE  g[i] = IF i = 0 THEN a
                      ELSE RejudgeClaim(order, Lead(claims[i], ahead), g[i - 1], claims[i])
    <3>1. g[i] = IF i = 0 THEN a ELSE f[i][g[i - 1]]
      BY <1>7 DEF Carries
    <3>2. i # 0 => i \in 1 .. n /\ i - 1 \in 0 .. n
      BY <1>1
    <3> QED BY <1>5, <3>1, <3>2
  <2>2. g = [i \in 0 .. n |-> g[i]]
    BY <1>7
  <2> QED BY Zenon, <2>1, <2>2
<1>9. Is(k)
  BY Zenon, <1>8
<1> HIDE DEF k
<1>10. k[0] = a /\ \A i \in 1 .. n : k[i] = RejudgeClaim(order, Lead(claims[i], ahead), k[i - 1], claims[i])
  <2>1. 0 \in 0 .. n /\ \A i \in 1 .. n : i \in 0 .. n /\ i # 0
    BY <1>1
  <2> QED BY <1>9, <2>1
<1>11. k[0] \in RejudgedOf /\ \A i \in 1 .. n : k[i - 1] \in RejudgedOf => k[i] \in RejudgedOf
  BY <1>2, <1>3, <1>10
<1>12. k[n] \in RejudgedOf
  BY <1>1, <1>11, CarryKeeps
<1> QED BY <1>4, <1>12

\* The cuts take a volume off each deal.
LEMMA CutsTyped ==
  ASSUME Typed, NEW r \in RejudgedOf PROVE Cuts(r) \in [Deals -> Nat]
<1> DEFINE V == [left : Nat, off : [Deals -> Nat]]
           xs == r.excess
           n == Len(xs)
           a == [left |-> AtLeast0(r.credit), off |-> NoCuts]
           step(v, x) == [left |-> v.left - Least(v.left, x.over),
                          off |-> [v.off EXCEPT ![x.deal] = Least(v.left, x.over)]]
           f == [i \in 1 .. n |-> [v \in V |-> step(v, xs[i])]]
           Is(at) == at = [i \in 0 .. n |-> IF i = 0 THEN a ELSE step(at[i - 1], xs[i])]
           k == CHOOSE at : Is(at)
<1>1. r.credit \in Int /\ xs \in Seq(ExcessOf)
  BY DEF RejudgedOf
<1>2. n \in Nat /\ \A i \in 1 .. n : xs[i] \in ExcessOf
  BY <1>1
<1>3. a \in V
  BY <1>1, DealsAre DEF NoCuts, AtLeast0
<1>4. ASSUME NEW v \in V, NEW x \in ExcessOf PROVE step(v, x) \in V
  <2>1. v.left \in Nat /\ v.off \in [Deals -> Nat] /\ x.deal \in Deals /\ x.over \in Nat
    BY DEF ExcessOf
  <2>2. Least(v.left, x.over) \in Nat /\ v.left - Least(v.left, x.over) \in Nat
    BY <2>1 DEF Least
  <2>3. [v.off EXCEPT ![x.deal] = Least(v.left, x.over)] \in [Deals -> Nat]
    BY <2>1, <2>2
  <2> QED BY <2>2, <2>3
<1>5. Cuts(r) = k[n].off
  BY Zenon DEF Cuts, Carried
<1> HIDE DEF n, a, V, step, xs
<1>6. \A i \in 1 .. n : \A v \in V : f[i][v] = step(v, xs[i])
  OBVIOUS
<1>7. \A i \in 1 .. n : \A v \in V : f[i][v] \in V
  BY <1>2, <1>4, <1>6
<1> HIDE DEF f
<1>8. PICK g \in [0 .. n -> V] : Carries(g, n, a, f)
  BY <1>2, <1>3, <1>7, CarryExists
<1>9. Is(g)
  <2>1. ASSUME NEW i \in 0 .. n PROVE g[i] = IF i = 0 THEN a ELSE step(g[i - 1], xs[i])
    <3>1. g[i] = IF i = 0 THEN a ELSE f[i][g[i - 1]]
      BY <1>8 DEF Carries
    <3>2. i # 0 => i \in 1 .. n /\ i - 1 \in 0 .. n
      BY <1>2
    <3> QED BY <1>6, <3>1, <3>2
  <2>2. g = [i \in 0 .. n |-> g[i]]
    BY <1>8
  <2> QED BY Zenon, <2>1, <2>2
<1>10. Is(k)
  BY Zenon, <1>9
<1> HIDE DEF k
<1>11. k[0] = a /\ \A i \in 1 .. n : k[i] = step(k[i - 1], xs[i])
  <2>1. 0 \in 0 .. n /\ \A i \in 1 .. n : i \in 0 .. n /\ i # 0
    BY <1>2
  <2> QED BY <1>10, <2>1
<1>12. k[0] \in V /\ \A i \in 1 .. n : k[i - 1] \in V => k[i] \in V
  BY <1>2, <1>3, <1>4, <1>11
<1>13. k[n] \in V
  BY <1>2, <1>12, CarryKeeps
<1> QED BY <1>5, <1>13 DEF V

\* Cleared claims are the same claims without events.
SameClaims(t, s) ==
  /\ t \in Seq(ClaimOf) /\ DOMAIN t = DOMAIN s
  /\ \A i \in DOMAIN s : /\ t[i].event = 0 /\ t[i].deal = s[i].deal /\ t[i].own = s[i].own
                         /\ t[i].order = s[i].order /\ t[i].venue = s[i].venue

\* Clearing the events of claims keeps the claims.
LEMMA ClearedSame ==
  ASSUME NEW s \in Seq(ClaimOf) PROVE SameClaims(Cleared(s), s)
<1>1. Len(s) \in Nat /\ DOMAIN s = 1 .. Len(s) /\ \A i \in 1 .. Len(s) : s[i] \in ClaimOf
  OBVIOUS
<1>2. ASSUME NEW x \in ClaimOf
      PROVE  LET y == [x EXCEPT !.event = 0]
             IN  /\ y \in ClaimOf /\ y.event = 0 /\ y.deal = x.deal /\ y.own = x.own
                 /\ y.order = x.order /\ y.venue = x.venue
  BY DEF ClaimOf
<1>3. Cleared(s) = [i \in 1 .. Len(s) |-> [s[i] EXCEPT !.event = 0]]
  BY <1>1 DEF Cleared
<1>4. ASSUME NEW i \in 1 .. Len(s)
      PROVE  /\ Cleared(s)[i] \in ClaimOf /\ Cleared(s)[i].event = 0
             /\ Cleared(s)[i].deal = s[i].deal /\ Cleared(s)[i].own = s[i].own
             /\ Cleared(s)[i].order = s[i].order /\ Cleared(s)[i].venue = s[i].venue
  <2>1. Cleared(s)[i] = [s[i] EXCEPT !.event = 0] /\ s[i] \in ClaimOf
    BY <1>1, <1>3
  <2> QED BY <1>2, <2>1
<1>5. Cleared(s) \in Seq(ClaimOf) /\ DOMAIN Cleared(s) = 1 .. Len(s)
  <2>1. Cleared(s) \in [1 .. Len(s) -> ClaimOf]
    BY <1>3, <1>4
  <2> QED BY <1>1, <2>1
<1> QED BY <1>1, <1>4, <1>5 DEF SameClaims

\* A named close keeps those of its own order, among those it had.
OwnOf(c, s) == {s[i] : i \in {j \in DOMAIN s : s[j].own /\ s[j].order = c}}

\* What a named close keeps was among its claims, and is of its order.
LEMMA OwnClaimsAre ==
  ASSUME NEW c, NEW s \in Seq(ClaimOf) PROVE OwnClaims(c, s) \in Seq(OwnOf(c, s))
<1> DEFINE V == Seq(OwnOf(c, s))
           n == Len(s)
           step(t, x) == IF x.own /\ x.order = c THEN Append(t, x) ELSE t
           f == [i \in 1 .. n |-> [t \in V |-> step(t, s[i])]]
           Is(at) == at = [i \in 0 .. n |-> IF i = 0 THEN <<>> ELSE step(at[i - 1], s[i])]
           k == CHOOSE at : Is(at)
<1>1. n \in Nat /\ DOMAIN s = 1 .. n
  OBVIOUS
<1>2. <<>> \in V
  OBVIOUS
<1>3. ASSUME NEW t \in V, NEW i \in 1 .. n PROVE step(t, s[i]) \in V
  <2>1. CASE s[i].own /\ s[i].order = c
    <3>1. s[i] \in OwnOf(c, s)
      BY <1>1, <2>1 DEF OwnOf
    <3> QED BY <2>1, <3>1
  <2>2. CASE ~(s[i].own /\ s[i].order = c)
    BY <2>2
  <2> QED BY <2>1, <2>2
<1>5. OwnClaims(c, s) = k[n]
  BY Zenon DEF OwnClaims, Carried
<1> HIDE DEF n, V, step
<1>6. \A i \in 1 .. n : \A t \in V : f[i][t] = step(t, s[i])
  OBVIOUS
<1>7. \A i \in 1 .. n : \A t \in V : f[i][t] \in V
  BY <1>3, <1>6
<1> HIDE DEF f
<1>8. PICK g \in [0 .. n -> V] : Carries(g, n, <<>>, f)
  BY <1>1, <1>2, <1>7, CarryExists
<1>9. Is(g)
  <2>1. ASSUME NEW i \in 0 .. n PROVE g[i] = IF i = 0 THEN <<>> ELSE step(g[i - 1], s[i])
    <3>1. g[i] = IF i = 0 THEN <<>> ELSE f[i][g[i - 1]]
      BY <1>8 DEF Carries
    <3>2. i # 0 => i \in 1 .. n /\ i - 1 \in 0 .. n
      BY <1>1
    <3> QED BY <1>6, <3>1, <3>2
  <2>2. g = [i \in 0 .. n |-> g[i]]
    BY <1>8
  <2> QED BY Zenon, <2>1, <2>2
<1>10. Is(k)
  BY Zenon, <1>9
<1> HIDE DEF k
<1>11. k[0] = <<>> /\ \A i \in 1 .. n : k[i] = step(k[i - 1], s[i])
  <2>1. 0 \in 0 .. n /\ \A i \in 1 .. n : i \in 0 .. n /\ i # 0
    BY <1>1
  <2> QED BY <1>10, <2>1
<1>12. k[0] \in V /\ \A i \in 1 .. n : k[i - 1] \in V => k[i] \in V
  BY <1>2, <1>3, <1>11
<1>13. k[n] \in V
  BY <1>1, <1>12, CarryKeeps
<1> QED BY <1>5, <1>13 DEF V
-----------------------------------------------------------------------------
(* What the actions have in common *)

\* A fill counted for a close changes its volume, not its phase.
LEMMA CountTyped ==
  ASSUME NEW r \in CloseOf, NEW d \in Nat, NEW q \in Nat
  PROVE  /\ CountExecuted(r, d, q) \in CloseOf
         /\ CountExecuted(r, d, q).phase = r.phase /\ CountExecuted(r, d, q).live = r.live
         /\ CountExecuted(r, d, q).claims = r.claims
<1>1. CASE d \in r.counted
  BY <1>1 DEF CountExecuted
<1>2. CASE d \notin r.counted
  <2> DEFINE s == [r EXCEPT !.exec = r.exec + q, !.counted = r.counted \cup {d}]
  <2>1. CountExecuted(r, d, q) = s
    BY <1>2 DEF CountExecuted
  <2>2. r.exec + q \in Nat /\ r.counted \cup {d} \in SUBSET Nat
    BY DEF CloseOf
  <2>3. s \in CloseOf /\ s.phase = r.phase /\ s.live = r.live /\ s.claims = r.claims
    BY <2>2 DEF CloseOf
  <2> QED BY <2>1, <2>3
<1> QED BY <1>1, <1>2

\* A close that is answered is named and keeps the claims that are its own.
LEMMA SettledTyped ==
  ASSUME NEW c \in Closes, oc[c] \in CloseOf, NEW m \in Word \union Fill, NEW own \in Seq(ClaimOf)
  PROVE  /\ Settled(c, m, own) \in CloseOf
         /\ Settled(c, m, own).phase = "named" /\ Settled(c, m, own).claims = own
<1> DEFINE r == [oc[c] EXCEPT !.phase = "named", !.claims = own]
           isFill == m.kind = "own"
           claimed == isFill /\ \E i \in DOMAIN own : own[i].deal = m.deal
           over == (isFill /\ m.last) \/ \E i \in DOMAIN own : own[i].last
           counted == IF isFill /\ ~claimed THEN CountExecuted(r, m.deal, m.qty) ELSE r
           live == ~\E i \in DOMAIN own : own[i].last
           complete == counted.complete \/ over
<1>1. r \in CloseOf /\ r.phase = "named" /\ r.claims = own
  BY DEF CloseOf
<1> HIDE DEF r
<1>2. isFill => m.deal \in Nat /\ m.qty \in Nat
  BY DEF Fill, Word
<1>3. counted \in CloseOf /\ counted.phase = "named" /\ counted.claims = own
  BY <1>1, <1>2, CountTyped
<1>4. live \in BOOLEAN /\ complete \in BOOLEAN
  OBVIOUS
<1>5. Settled(c, m, own) = [counted EXCEPT !.complete = complete, !.live = live]
  BY Zenon DEF Settled, r
<1> HIDE DEF counted, live, complete
<1> QED BY <1>3, <1>4, <1>5 DEF CloseOf

\* The held events are booked less their cuts, and the journal gets those back.
LEMMA ReleaseTyped ==
  ASSUME Typed, NEW claims \in Seq(ClaimOf), NEW cut \in [Deals -> Nat],
         \A i \in DOMAIN claims : claims[i].deal \in Deals, Release(claims, cut)
  PROVE  booked' \in Nat /\ JournalTyped' /\ dispatched' \in BOOLEAN
<1> DEFINE w == [i \in DOMAIN claims |-> Least(cut[claims[i].deal], claims[i].event)]
           v == [i \in DOMAIN claims |-> claims[i].event]
           over == SumFunction(w)
           held == SumFunction(v)
<1>1. IsFiniteSet(DOMAIN claims) /\ \A i \in DOMAIN claims : claims[i] \in ClaimOf
  BY PlacesFinite
<1>2. \A i \in DOMAIN claims : cut[claims[i].deal] \in Nat /\ claims[i].event \in Nat
  BY <1>1 DEF ClaimOf
<1>3. w \in [DOMAIN claims -> Nat] /\ v \in [DOMAIN claims -> Nat] /\ \A i \in DOMAIN claims : w[i] <= v[i]
  BY <1>2 DEF Least
<1> HIDE DEF w, v
<1>4. over \in Nat /\ held \in Nat /\ over <= held
  BY <1>1, <1>3, SumIn, SumLeast
<1>5. /\ booked' = booked + held - over
      /\ retired' = IF rows THEN retired - Least(retired, over) ELSE retired
      /\ dispatched' = IF \E i \in DOMAIN claims : claims[i].event > 0 /\ claims[i].settles
                       THEN StillDispatched(filled - retired', rows) ELSE dispatched
      /\ UNCHANGED <<rows, filled>>
  BY DEF Release, Released, SumOf, w, v
<1> HIDE DEF over, held
<1>6. booked \in Nat /\ rows \in BOOLEAN /\ filled \in Nat /\ retired \in Nat /\ retired <= filled
      /\ dispatched \in BOOLEAN
  BY DEF Typed, JournalTyped
<1>7. booked' \in Nat /\ retired' \in Nat /\ retired' <= filled
  BY <1>4, <1>5, <1>6 DEF Least
<1>8. dispatched' \in BOOLEAN
  BY <1>5, <1>6 DEF StillDispatched
<1> QED BY <1>5, <1>6, <1>7, <1>8 DEF JournalTyped

\* The history only grows.
Grew == deals' = deals \/ \E x \in DealOf : deals' = Append(deals, x)

\* A history that grows keeps what it says of its deals.
LEMMA Recorded ==
  ASSUME Typed, Grew
  PROVE  Deals \subseteq Deals' /\ \A d, kind : IsOf(d, kind) => IsOf(d, kind)'
<1>1. deals \in Seq(DealOf) /\ Len(deals) \in Nat
  BY DEF Typed, VenueTyped
<1>2. CASE deals' = deals
  BY <1>2 DEF IsOf, Deals
<1>3. CASE deals' # deals
  <2>1. PICK x \in DealOf : deals' = Append(deals, x)
    BY <1>3 DEF Grew
  <2>2. Len(deals') = Len(deals) + 1 /\ \A d \in 1 .. Len(deals) : deals'[d] = deals[d]
    BY <1>1, <2>1
  <2> QED BY <1>1, <2>2 DEF IsOf, Deals
<1> QED BY <1>2, <1>3

\* Nothing the run did is undone by the venue.
RunStill ==
  /\ oc' = oc /\ seen' = seen /\ verdicts' = verdicts
  /\ pending' = pending /\ reported' = reported /\ audited' = audited

\* An action of the venue leaves what the run knows true.
LEMMA MemoryKept ==
  ASSUME IInv, Grew, RunStill, entry'.phase = entry.phase
  PROVE  ClaimsTrue' /\ VerdictsTrue' /\ NotesTrue' /\ ReportsForeign' /\ HeldIsAwaited' /\ OneByOne'
<1>1. Deals \subseteq Deals' /\ \A d, kind : IsOf(d, kind) => IsOf(d, kind)'
  BY Recorded DEF IInv
<1>2. ClaimsTrue /\ VerdictsTrue /\ NotesTrue /\ ReportsForeign /\ HeldIsAwaited /\ OneByOne
  BY DEF IInv, Truthful, Tracked
<1>3. ClaimsTrue'
  <2> SUFFICES ASSUME NEW c \in Closes, NEW i \in DOMAIN oc[c].claims
               PROVE  TrueClaim(oc[c].claims[i])'
    BY DEF RunStill, ClaimsTrue
  <2>1. TrueClaim(oc[c].claims[i])
    BY <1>2 DEF ClaimsTrue
  <2> DEFINE k == oc[c].claims[i]
  <2>2. PICK x : x = k
    OBVIOUS
  <2>3. TrueClaim(x)'
    BY <1>1, <2>1, <2>2 DEF TrueClaim
  <2>4. k' = x
    BY <2>2 DEF RunStill
  <2> QED BY <2>3, <2>4 DEF TrueClaim, IsOf
<1>4. VerdictsTrue' /\ NotesTrue' /\ ReportsForeign'
  BY <1>1, <1>2 DEF VerdictsTrue, NotesTrue, ReportsForeign, AllExt, RunStill
<1>5. HeldIsAwaited' /\ OneByOne'
  BY <1>2 DEF HeldIsAwaited, OneByOne, RunStill
<1> QED BY <1>3, <1>4, <1>5

\* A fill just executed is a message, and the history says what it was.
LEMMA FillIs ==
  ASSUME Typed, NEW kind \in Kinds, NEW order \in Nat, NEW q \in Nat, q <= vol,
         NEW last \in BOOLEAN, NEW m \in Fills(kind, order, q, last)
  PROVE  /\ m \in Fill /\ m.deal = Len(deals) + 1 /\ m.kind = kind /\ m.order = order /\ m.qty = q
         /\ m.after = vol - q /\ m.last = last
<1>1. vol \in Nat /\ clock \in Nat /\ Len(deals) \in Nat
  BY DEF Typed, VenueTyped
<1>2. /\ m.deal = Len(deals) + 1 /\ m.kind = kind /\ m.order = order /\ m.qty = q
      /\ m.after = vol - q /\ m.last = last /\ m.at \in Stamps
      /\ m = [deal |-> m.deal, kind |-> m.kind, order |-> m.order, qty |-> m.qty, after |-> m.after,
              at |-> m.at, last |-> m.last]
  BY DEF Fills
<1>3. m.at \in Nat
  BY <1>1, <1>2 DEF Stamps
<1> QED BY <1>1, <1>2, <1>3 DEF Fill

\* A closing fill takes of the position and of the share at most what there is.
LEMMA ExecutesTyped ==
  ASSUME Typed, NEW m \in Fill, m.deal = Len(deals) + 1, m.kind \in {"own", "ext", "venue"},
         m.kind = "own" => m.order \in Closes, m.qty <= vol, m.after = vol - m.qty, Executes(m)
  PROVE  /\ vol' \in Nat /\ mine' \in Nat /\ mine' <= vol' /\ clock' \in Nat /\ deals' \in Seq(DealOf)
         /\ Grew /\ TrueFill(m)'
<1>1. /\ vol \in Nat /\ mine \in Nat /\ mine <= vol /\ deals \in Seq(DealOf)
      /\ Len(deals) \in Nat /\ m.qty \in Nat /\ m.at \in Nat
  BY DEF Typed, VenueTyped, Fill
<1> DEFINE t == Took(m)
           x == [kind |-> m.kind, took |-> t]
<1>2. t \in Nat /\ t <= mine /\ mine - t <= vol - m.qty
  BY <1>1 DEF Took, Least, AtLeast0
<1>3. vol' = vol - m.qty /\ mine' = mine - t /\ clock' = m.at /\ deals' = Append(deals, x)
  BY DEF Executes
<1> HIDE DEF t
<1>4. x \in DealOf
  BY <1>2 DEF DealOf, Kinds
<1> HIDE DEF x
<1>5. deals' \in Seq(DealOf) /\ Len(deals') = Len(deals) + 1 /\ deals'[Len(deals) + 1] = x
  BY <1>1, <1>3, <1>4
<1>6. TrueFill(m)'
  <2>1. m.deal \in Deals'
    BY <1>1, <1>5 DEF Deals
  <2>2. deals'[m.deal].kind = m.kind
    BY <1>5 DEF x
  <2> QED BY <2>1, <2>2 DEF TrueFill, IsOf
<1>7. Grew
  BY <1>3, <1>4 DEF Grew
<1> QED BY <1>1, <1>2, <1>3, <1>5, <1>6, <1>7

\* The queue is as it was or has one message more, a true one.
LEMMA QueueKept ==
  ASSUME Typed, QueueTrue, Grew, NEW m,
         \/ queue' = queue
         \/ m \in Fill \union Cancel /\ queue' = Append(queue, m) /\ (m.kind \in Kinds => TrueFill(m)')
  PROVE  queue' \in Seq(Fill \union Cancel) /\ QueueTrue'
<1>1. queue \in Seq(Fill \union Cancel)
  BY DEF Typed
<1>2. queue' \in Seq(Fill \union Cancel)
  BY <1>1
<1>3. ASSUME NEW i \in DOMAIN queue'
      PROVE  \/ queue'[i] = m /\ (m.kind \in Kinds => TrueFill(m)')
             \/ i \in DOMAIN queue /\ queue'[i] = queue[i]
  <2>1. Len(queue) \in Nat /\ DOMAIN queue = 1 .. Len(queue)
    BY <1>1
  <2> QED BY <1>1, <2>1
<1>4. ASSUME NEW i \in DOMAIN queue', queue'[i].kind \in Kinds PROVE TrueFill(queue[i])'
  <2>1. CASE queue'[i] = m /\ (m.kind \in Kinds => TrueFill(m)')
    <3>1. TrueFill(m)'
      BY <1>4, <2>1
    <3> QED BY <2>1, <3>1 DEF TrueFill, IsOf
  <2>2. CASE i \in DOMAIN queue /\ queue'[i] = queue[i]
    <3>1. PICK x : x = queue[i]
      OBVIOUS
    <3>2. i \in DOMAIN queue /\ queue'[i] = x
      BY <2>2, <3>1
    <3>3. TrueFill(x)
      BY <1>4, <3>1, <3>2 DEF QueueTrue
    <3>4. TrueFill(x)'
      BY <3>3, Recorded DEF TrueFill
    <3> QED BY <3>2, <3>4 DEF TrueFill, IsOf
  <2> QED BY <1>3, <2>1, <2>2
<1> QED BY <1>2, <1>4 DEF QueueTrue

\* No close falls out of sight while it has an order.
StayTracked == \A c \in Closes : Alive(c) /\ HasOrder(c) => Alive(c)' /\ HasOrder(c)'

\* The pushes of own fills stay those of closes in sight, and so does the new one.
LEMMA PushesKept ==
  ASSUME Typed, QueueTrue, OwnPushesTracked, StayTracked, NEW m,
         \/ queue' = queue
         \/ /\ m \in Fill \union Cancel /\ queue' = Append(queue, m)
            /\ m.kind = "own" => \E c \in Closes : m.order = c /\ Alive(c)' /\ HasOrder(c)'
  PROVE  OwnPushesTracked'
<1>1. queue \in Seq(Fill \union Cancel)
  BY DEF Typed
<1> DEFINE New == /\ m \in Fill \union Cancel /\ queue' = Append(queue, m)
                  /\ m.kind = "own" => \E c \in Closes : m.order = c /\ Alive(c)' /\ HasOrder(c)'
<1>3. ASSUME NEW i \in DOMAIN queue'
      PROVE  \/ queue'[i] = m /\ New
             \/ i \in DOMAIN queue /\ queue'[i] = queue[i]
  <2>1. Len(queue) \in Nat /\ DOMAIN queue = 1 .. Len(queue)
    BY <1>1
  <2> QED BY <1>1, <2>1
<1>4. ASSUME NEW i \in DOMAIN queue', queue'[i].kind = "own"
      PROVE  \E c \in Closes : queue'[i].order = c /\ Alive(c)' /\ HasOrder(c)'
  <2>1. CASE queue'[i] = m /\ New
    BY <1>4, <2>1
  <2>2. CASE i \in DOMAIN queue /\ queue'[i] = queue[i]
    <3>1. i \in DOMAIN queue /\ queue'[i] = queue[i]
      BY <2>2
    <3>2. queue[i].kind \in Kinds
      BY <1>4, <3>1 DEF Kinds
    <3>3. queue[i].order \in Closes
      BY <1>4, <3>1, <3>2 DEF QueueTrue, TrueFill
    <3>4. Alive(queue[i].order) /\ HasOrder(queue[i].order)
      BY <1>4, <3>1 DEF OwnPushesTracked
    <3>5. PICK c \in Closes : c = queue[i].order
      BY <3>3
    <3>6. Alive(c)' /\ HasOrder(c)'
      BY <3>4, <3>5 DEF StayTracked
    <3> QED BY <3>1, <3>5, <3>6
  <2> HIDE DEF New
  <2> QED BY <1>3, <2>1, <2>2
<1>5. ASSUME NEW i \in DOMAIN queue', queue'[i].kind = "own"
      PROVE  Alive(queue[i].order)' /\ HasOrder(queue[i].order)'
  <2>1. PICK c \in Closes : queue'[i].order = c /\ Alive(c)' /\ HasOrder(c)'
    BY <1>4, <1>5
  <2> QED BY <2>1 DEF Alive, HasOrder
<1> QED BY <1>5 DEF OwnPushesTracked

\* Claims that stay are of closes that stay in sight.
LEMMA ClaimsKept ==
  ASSUME IInv, oc' = oc, \A c \in Closes : HasOrder(c) => HasOrder(c)'
  PROVE  OwnClaimsTracked'
<1> SUFFICES ASSUME NEW c \in Closes, NEW i \in DOMAIN oc[c].claims, oc[c].claims[i].own
             PROVE  /\ HasOrder(oc[c].claims[i].order)'
                    /\ oc[c].phase = "sent" => oc[c].claims[i].order = c
  BY DEF OwnClaimsTracked
<1>1. HasOrder(oc[c].claims[i].order) /\ (oc[c].phase = "sent" => oc[c].claims[i].order = c)
  BY DEF IInv, Tracked, OwnClaimsTracked
<1>2. oc[c].claims[i].order \in Closes
  BY DEF IInv, Truthful, ClaimsTrue, TrueClaim
<1>3. PICK d \in Closes : d = oc[c].claims[i].order
  BY <1>2
<1>4. HasOrder(d)'
  BY <1>1, <1>3
<1> QED BY <1>1, <1>3, <1>4 DEF HasOrder
-----------------------------------------------------------------------------
(* The venue *)

\* The venue's answer reaches the close in dispatch, or is pushed if it is a fill.
LEMMA AnswersKept ==
  ASSUME IInv, NEW c \in Closes, wire[c] = "sent", NEW m \in Word \union Fill, Answers(c, m),
         m.kind \in {"refused", "accepted", "own"},
         m.kind = "own" => m \in Fill /\ m.order = c /\ TrueFill(m)',
         Grew, RunStill, entry' = entry, NEW w \in {"working", "over"}, wire' = [wire EXCEPT ![c] = w],
         m.kind = "refused" => w = "over"
  PROVE  /\ wire' \in [Closes -> {"none", "sent", "working", "over"}]
         /\ ans' \in [Closes -> Word \union Fill] /\ queue' \in Seq(Fill \union Cancel)
         /\ QueueTrue' /\ AnswersTrue' /\ Tracked'
<1>t. /\ Typed /\ wire \in [Closes -> {"none", "sent", "working", "over"}]
      /\ ans \in [Closes -> Word \union Fill] /\ queue \in Seq(Fill \union Cancel)
      /\ oc \in [Closes -> CloseOf] /\ oc' = oc
  BY DEF IInv, Typed, RunStill
<1>i. /\ QueueTrue /\ AnswersTrue /\ WiresAlive /\ OneByOne /\ OwnPushesTracked
  BY DEF IInv, Truthful, Tracked
<1>c. oc[c].phase \in {"sent", "unknown"} /\ ans[c].kind = "none" /\ Alive(c)
  BY <1>i DEF WiresAlive
<1>1. /\ oc[c].phase = "sent" => ans' = [ans EXCEPT ![c] = m] /\ queue' = queue
      /\ oc[c].phase # "sent" => ans' = ans /\ (m.kind = "own" => queue' = Append(queue, m))
                                            /\ (m.kind # "own" => queue' = queue)
  BY DEF Answers, Pushes
<1>2. wire' \in [Closes -> {"none", "sent", "working", "over"}] /\ ans' \in [Closes -> Word \union Fill]
  BY <1>t, <1>1
<1>3. \A d \in Closes : d # c => wire'[d] = wire[d] /\ ans'[d] = ans[d]
  BY <1>t, <1>1
<1>4. wire'[c] = w /\ (ans'[c] = m \/ ans'[c] = ans[c])
      /\ (oc[c].phase # "sent" => ans'[c] = ans[c])
  BY <1>t, <1>1
<1>5. PICK p \in Fill \union Cancel :
        /\ queue' = queue \/ queue' = Append(queue, p)
        /\ p.kind \in Kinds => p = m /\ m.kind = "own"
  <2>1. CASE m.kind = "own"
    BY <1>1, <2>1 DEF Kinds
  <2>2. CASE m.kind # "own"
    <3> DEFINE p == [kind |-> "cancel", order |-> c]
    <3>1. p \in Cancel /\ p.kind \notin Kinds
      BY DEF Cancel, Kinds
    <3> HIDE DEF p
    <3> QED BY <1>1, <2>2, <3>1
  <2> QED BY <2>1, <2>2
<1>6. queue' \in Seq(Fill \union Cancel) /\ QueueTrue'
  <2>1. p.kind \in Kinds => TrueFill(p)'
    BY <1>5 DEF TrueFill, IsOf
  <2> QED BY <1>t, <1>i, <1>5, <2>1, QueueKept
<1>7. AnswersTrue'
  <2> SUFFICES ASSUME NEW d \in Closes, ans'[d].kind \in Kinds
               PROVE  TrueFill(ans[d])' /\ ans'[d].kind = "own" /\ ans'[d].order = d
    BY DEF AnswersTrue
  <2>1. CASE ans'[d] = m /\ d = c
    <3>1. m.kind = "own"
      BY <2>1 DEF Kinds
    <3> QED BY <2>1, <3>1 DEF TrueFill, IsOf
  <2>2. CASE ans'[d] = ans[d]
    <3>1. PICK x : x = ans[d]
      OBVIOUS
    <3>2. TrueFill(x) /\ x.kind = "own" /\ x.order = d
      BY <1>i, <2>2, <3>1 DEF AnswersTrue
    <3>3. TrueFill(x)'
      BY <1>t, <3>2, Recorded DEF TrueFill
    <3> QED BY <2>2, <3>1, <3>2, <3>3 DEF TrueFill, IsOf
  <2> QED BY <1>3, <1>4, <2>1, <2>2
<1>8. WiresAlive'
  <2> SUFFICES ASSUME NEW d \in Closes
               PROVE  /\ wire'[d] \in {"sent", "working"} => Alive(d)
                      /\ wire'[d] = "sent" => oc[d].phase \in {"sent", "unknown"} /\ ans'[d].kind = "none"
                      /\ wire'[d] = "working" => ans'[d].kind # "refused"
                      /\ ans'[d].kind # "none" => oc[d].phase = "sent"
                      /\ oc[d].phase # "idle" => wire'[d] # "none"
    BY <1>t DEF WiresAlive, Alive
  <2>1. CASE d # c
    BY <1>i, <1>3, <2>1 DEF WiresAlive
  <2>2. CASE d = c
    BY <1>c, <1>4, <2>2
  <2> QED BY <2>1, <2>2
<1>9. \A d \in Closes : HasOrder(d) => HasOrder(d)'
  <2> SUFFICES ASSUME NEW d \in Closes, HasOrder(d) PROVE HasOrder(d)'
    OBVIOUS
  <2>1. d # c
    BY DEF HasOrder
  <2> QED BY <1>t, <1>3, <2>1 DEF HasOrder
<1>10. StayTracked
  BY <1>t, <1>9 DEF StayTracked, Alive
<1>11. m.kind = "own" => Alive(c)' /\ HasOrder(c)'
  <2> SUFFICES ASSUME m.kind = "own" PROVE Alive(c)' /\ HasOrder(c)'
    OBVIOUS
  <2>1. ans'[c].kind # "refused" /\ wire'[c] \in {"working", "over"}
    BY <1>c, <1>4
  <2> QED BY <1>t, <1>c, <2>1 DEF Alive, HasOrder
<1>12. OwnPushesTracked'
  <2>1. p.kind = "own" => \E d \in Closes : p.order = d /\ Alive(d)' /\ HasOrder(d)'
    BY <1>5, <1>11 DEF Kinds
  <2> QED BY <1>t, <1>i, <1>5, <1>10, <2>1, PushesKept
<1>13. OneByOne'
  BY <1>i, <1>t DEF OneByOne
<1>14. OwnClaimsTracked'
  BY <1>t, <1>9, ClaimsKept
<1> QED BY <1>2, <1>6, <1>7, <1>8, <1>12, <1>13, <1>14 DEF Tracked

\* What the venue leaves alone stays of its type.
LEMMA VenueKeeps ==
  ASSUME IInv, Grew, RunStill, UNCHANGED <<journalVars, dispatched, effects, booked>>, entry' \in EntryOf,
         EntryTrue', entry'.phase = entry.phase,
         VenueTyped', wire' \in [Closes -> {"none", "sent", "working", "over"}],
         ans' \in [Closes -> Word \union Fill], queue' \in Seq(Fill \union Cancel),
         QueueTrue', AnswersTrue', Tracked'
  PROVE  IInv'
<1>1. ClaimsTrue' /\ VerdictsTrue' /\ NotesTrue' /\ ReportsForeign' /\ HeldIsAwaited'
  BY MemoryKept
<1>2. /\ JournalTyped /\ oc \in [Closes -> CloseOf] /\ dispatched \in BOOLEAN /\ seen \in SUBSET Nat
      /\ EffectsTyped /\ verdicts \in SUBSET VerdictOf /\ ReportsTyped /\ booked \in Nat
  BY DEF IInv, Typed
<1>3. JournalTyped' /\ EffectsTyped' /\ ReportsTyped'
  BY <1>2 DEF JournalTyped, EffectsTyped, ReportsTyped, journalVars, RunStill
<1>4. Typed'
  BY <1>2, <1>3 DEF Typed, RunStill
<1> QED BY <1>1, <1>4 DEF IInv, Truthful

\* An entry that the venue does not touch says what it said.
LEMMA EntryKept ==
  ASSUME IInv, Grew, entry' = entry PROVE entry' \in EntryOf /\ EntryTrue' /\ entry'.phase = entry.phase
<1>1. entry \in EntryOf /\ EntryTrue /\ Typed
  BY DEF IInv, Typed, Truthful
<1>2. PICK e : e = entry
  OBVIOUS
<1>3. e.answer.kind \in Kinds => TrueFill(e.answer) /\ e.answer.kind = "entry"
  BY <1>1, <1>2 DEF EntryTrue
<1>4. e.answer.kind \in Kinds => TrueFill(e.answer)'
  BY <1>1, <1>3, Recorded DEF TrueFill
<1> QED BY <1>1, <1>2, <1>3, <1>4 DEF EntryTrue, TrueFill, IsOf

\* The venue takes a close, executes part of it, or refuses it.
LEMMA VenueHandlesStep ==
  ASSUME IInv, NEW c \in Closes, VenueHandles(c) PROVE IInv'
<1>t. /\ VenueTyped /\ vol \in Nat /\ left \in [Closes -> Nat] /\ Typed
      /\ oc[c] \in CloseOf /\ oc[c].vol \in Nat /\ c \in Nat
  BY ClosesFinite DEF IInv, Typed, VenueTyped, CloseOf
<1>u. /\ RunStill /\ UNCHANGED <<journalVars, dispatched, effects, booked>> /\ entry' = entry
      /\ wire[c] = "sent"
  BY DEF VenueHandles, RunStill, judgeVars
<1>1. CASE wire' = [wire EXCEPT ![c] = "over"] /\ Answers(c, [kind |-> "refused"]) /\ UNCHANGED venueVars
  <2>1. Grew /\ VenueTyped'
    BY <1>t, <1>1 DEF Grew, VenueTyped, venueVars
  <2>2. [kind |-> "refused"] \in Word
    BY DEF Word
  <2>3. /\ wire' \in [Closes -> {"none", "sent", "working", "over"}]
        /\ ans' \in [Closes -> Word \union Fill] /\ queue' \in Seq(Fill \union Cancel)
        /\ QueueTrue' /\ AnswersTrue' /\ Tracked'
    <3> DEFINE m == [kind |-> "refused"]
    <3>1. m.kind = "refused" /\ m \in Word /\ Answers(c, m)
      BY <1>1, <2>2
    <3> HIDE DEF m
    <3> QED BY <1>1, <1>u, <2>1, <3>1, AnswersKept
  <2> QED BY <1>u, <2>1, <2>3, EntryKept, VenueKeeps
<1>2. CASE /\ wire' = [wire EXCEPT ![c] = "working"] /\ left' = [left EXCEPT ![c] = oc[c].vol]
           /\ Answers(c, [kind |-> "accepted"]) /\ UNCHANGED <<vol, mine, clock, deals>>
  <2>1. Grew /\ VenueTyped'
    BY <1>t, <1>2 DEF Grew, VenueTyped
  <2>2. [kind |-> "accepted"] \in Word
    BY DEF Word
  <2>3. /\ wire' \in [Closes -> {"none", "sent", "working", "over"}]
        /\ ans' \in [Closes -> Word \union Fill] /\ queue' \in Seq(Fill \union Cancel)
        /\ QueueTrue' /\ AnswersTrue' /\ Tracked'
    <3> DEFINE m == [kind |-> "accepted"]
    <3>1. m.kind = "accepted" /\ m \in Word /\ Answers(c, m)
      BY <1>2, <2>2
    <3> HIDE DEF m
    <3> QED BY <1>2, <1>u, <2>1, <3>1, AnswersKept
  <2> QED BY <1>u, <2>1, <2>3, EntryKept, VenueKeeps
<1>3. ASSUME oc[c].vol <= vol, NEW q \in 1 .. oc[c].vol, NEW m \in Fills("own", c, q, q = oc[c].vol),
             Executes(m), Answers(c, m), left' = [left EXCEPT ![c] = oc[c].vol - q],
             wire' = [wire EXCEPT ![c] = IF m.last THEN "over" ELSE "working"]
      PROVE  IInv'
  <2>0. q \in Nat /\ q <= vol /\ oc[c].vol - q \in Nat
    BY <1>t, <1>3
  <2>1. /\ m \in Fill /\ m.deal = Len(deals) + 1 /\ m.kind = "own" /\ m.order = c /\ m.qty = q
        /\ m.after = vol - q
    <3> DEFINE last == q = oc[c].vol
    <3>1. "own" \in Kinds /\ last \in BOOLEAN /\ m \in Fills("own", c, q, last)
      BY <1>3 DEF Kinds
    <3> HIDE DEF last
    <3> QED BY <1>t, <2>0, <3>1, FillIs
  <2>2. /\ vol' \in Nat /\ mine' \in Nat /\ mine' <= vol' /\ clock' \in Nat /\ deals' \in Seq(DealOf)
        /\ Grew /\ TrueFill(m)'
    BY <1>t, <1>3, <2>0, <2>1, ExecutesTyped
  <2>3. VenueTyped'
    BY <1>t, <1>3, <2>0, <2>2 DEF VenueTyped
  <2>4. /\ wire' \in [Closes -> {"none", "sent", "working", "over"}]
        /\ ans' \in [Closes -> Word \union Fill] /\ queue' \in Seq(Fill \union Cancel)
        /\ QueueTrue' /\ AnswersTrue' /\ Tracked'
    BY <1>3, <1>u, <2>1, <2>2, AnswersKept
  <2> QED BY <1>u, <2>2, <2>3, <2>4, EntryKept, VenueKeeps
<1>4. \/ wire' = [wire EXCEPT ![c] = "over"] /\ Answers(c, [kind |-> "refused"]) /\ UNCHANGED venueVars
      \/ /\ wire' = [wire EXCEPT ![c] = "working"] /\ left' = [left EXCEPT ![c] = oc[c].vol]
         /\ Answers(c, [kind |-> "accepted"]) /\ UNCHANGED <<vol, mine, clock, deals>>
      \/ /\ oc[c].vol <= vol
         /\ \E q \in 1 .. oc[c].vol : \E m \in Fills("own", c, q, q = oc[c].vol) :
              /\ Executes(m) /\ Answers(c, m) /\ left' = [left EXCEPT ![c] = oc[c].vol - q]
              /\ wire' = [wire EXCEPT ![c] = IF m.last THEN "over" ELSE "working"]
  BY Zenon DEF VenueHandles
<1> QED BY <1>1, <1>2, <1>3, <1>4

\* What others push does not change what is known of the run's closes.
LEMMA OthersPush ==
  ASSUME IInv, Grew, RunStill, wire' = wire, ans' = ans, NEW m,
         \/ queue' = queue
         \/ /\ m \in Fill \union Cancel /\ queue' = Append(queue, m) /\ m.kind # "own"
            /\ m.kind \in Kinds => TrueFill(m)'
  PROVE  /\ wire' \in [Closes -> {"none", "sent", "working", "over"}]
         /\ ans' \in [Closes -> Word \union Fill] /\ queue' \in Seq(Fill \union Cancel)
         /\ QueueTrue' /\ AnswersTrue' /\ Tracked'
<1>t. /\ Typed /\ wire \in [Closes -> {"none", "sent", "working", "over"}]
      /\ ans \in [Closes -> Word \union Fill] /\ oc' = oc
      /\ QueueTrue /\ AnswersTrue /\ WiresAlive /\ OneByOne /\ OwnPushesTracked
  BY DEF IInv, Typed, RunStill, Truthful, Tracked
<1>1. queue' \in Seq(Fill \union Cancel) /\ QueueTrue'
  BY <1>t, QueueKept
<1>2. AnswersTrue'
  <2> SUFFICES ASSUME NEW d \in Closes, ans[d].kind \in Kinds
               PROVE  TrueFill(ans[d])' /\ ans[d].kind = "own" /\ ans[d].order = d
    BY DEF AnswersTrue
  <2>1. PICK x : x = ans[d]
    OBVIOUS
  <2>2. TrueFill(x) /\ x.kind = "own" /\ x.order = d
    BY <1>t, <2>1 DEF AnswersTrue
  <2>3. TrueFill(x)'
    BY <1>t, <2>2, Recorded DEF TrueFill
  <2> QED BY <2>1, <2>2, <2>3 DEF TrueFill, IsOf
<1>3. \A d \in Closes : HasOrder(d) => HasOrder(d)'
  BY <1>t DEF HasOrder
<1>4. StayTracked
  BY <1>t DEF StayTracked, Alive, HasOrder
<1>5. OwnPushesTracked'
  BY <1>t, <1>4, PushesKept
<1>6. WiresAlive' /\ OneByOne'
  BY <1>t DEF WiresAlive, OneByOne, Alive
<1>7. OwnClaimsTracked'
  BY <1>t, <1>3, ClaimsKept
<1> QED BY <1>t, <1>1, <1>2, <1>5, <1>6, <1>7 DEF Tracked

\* An own close executes further.
LEMMA VenueFillsCloseStep ==
  ASSUME IInv, NEW c \in Closes, VenueFillsClose(c) PROVE IInv'
<1>t. /\ VenueTyped /\ vol \in Nat /\ left \in [Closes -> Nat] /\ Typed /\ c \in Nat
      /\ wire \in [Closes -> {"none", "sent", "working", "over"}]
      /\ ans \in [Closes -> Word \union Fill] /\ oc' = oc
      /\ QueueTrue /\ AnswersTrue /\ WiresAlive /\ OneByOne /\ OwnPushesTracked
  BY ClosesFinite DEF IInv, Typed, VenueTyped, Truthful, Tracked, VenueFillsClose
<1>u. /\ RunStill /\ UNCHANGED <<journalVars, dispatched, effects, booked>> /\ entry' = entry
      /\ wire[c] = "working" /\ ans' = ans
  BY DEF VenueFillsClose, RunStill, judgeVars
<1>1. PICK q \in 1 .. Least(left[c], vol) : \E m \in Fills("own", c, q, q = left[c]) :
        /\ Executes(m) /\ Pushes(m) /\ left' = [left EXCEPT ![c] = left[c] - q]
        /\ wire' = [wire EXCEPT ![c] = IF m.last THEN "over" ELSE "working"]
  BY DEF VenueFillsClose
<1>2. q \in Nat /\ q <= vol /\ left[c] - q \in Nat
  BY <1>t DEF Least
<1> DEFINE last == q = left[c]
<1>3. PICK m \in Fills("own", c, q, last) :
        /\ Executes(m) /\ Pushes(m) /\ left' = [left EXCEPT ![c] = left[c] - q]
        /\ wire' = [wire EXCEPT ![c] = IF m.last THEN "over" ELSE "working"]
  BY <1>1
<1>4. "own" \in Kinds /\ last \in BOOLEAN
  BY DEF Kinds
<1> HIDE DEF last
<1>5. /\ m \in Fill /\ m.deal = Len(deals) + 1 /\ m.kind = "own" /\ m.order = c /\ m.qty = q
      /\ m.after = vol - q
  BY <1>t, <1>2, <1>4, FillIs
<1>6. /\ vol' \in Nat /\ mine' \in Nat /\ mine' <= vol' /\ clock' \in Nat /\ deals' \in Seq(DealOf)
      /\ Grew /\ TrueFill(m)'
  BY <1>t, <1>2, <1>3, <1>5, ExecutesTyped
<1>7. VenueTyped'
  BY <1>t, <1>2, <1>3, <1>6 DEF VenueTyped
<1>8. /\ wire' \in [Closes -> {"none", "sent", "working", "over"}]
      /\ \A d \in Closes : d # c => wire'[d] = wire[d]
      /\ wire'[c] \in {"working", "over"}
  BY <1>t, <1>3
<1>9. queue' = Append(queue, m)
  BY <1>3 DEF Pushes
<1>10. queue' \in Seq(Fill \union Cancel) /\ QueueTrue'
  BY <1>t, <1>5, <1>6, <1>9, QueueKept
<1>11. AnswersTrue'
  <2> SUFFICES ASSUME NEW d \in Closes, ans[d].kind \in Kinds
               PROVE  TrueFill(ans[d])' /\ ans[d].kind = "own" /\ ans[d].order = d
    BY <1>u DEF AnswersTrue
  <2>1. PICK x : x = ans[d]
    OBVIOUS
  <2>2. TrueFill(x) /\ x.kind = "own" /\ x.order = d
    BY <1>t, <2>1 DEF AnswersTrue
  <2>3. TrueFill(x)'
    BY <1>t, <1>6, <2>2, Recorded DEF TrueFill
  <2> QED BY <1>u, <2>1, <2>2, <2>3 DEF TrueFill, IsOf
<1>12. \A d \in Closes : HasOrder(d) => HasOrder(d)'
  BY <1>t, <1>u, <1>8 DEF HasOrder
<1>13. StayTracked
  BY <1>t, <1>12 DEF StayTracked, Alive
<1>14. Alive(c)' /\ HasOrder(c)'
  <2>1. Alive(c) /\ ans[c].kind # "refused"
    BY <1>t, <1>u DEF WiresAlive
  <2> QED BY <1>t, <1>u, <1>8, <2>1 DEF Alive, HasOrder
<1>15. OwnPushesTracked'
  BY <1>t, <1>5, <1>9, <1>13, <1>14, PushesKept
<1>16. WiresAlive'
  <2> SUFFICES ASSUME NEW d \in Closes
               PROVE  /\ wire'[d] \in {"sent", "working"} => Alive(d)
                      /\ wire'[d] = "sent" => oc[d].phase \in {"sent", "unknown"} /\ ans[d].kind = "none"
                      /\ wire'[d] = "working" => ans[d].kind # "refused"
                      /\ ans[d].kind # "none" => oc[d].phase = "sent"
                      /\ oc[d].phase # "idle" => wire'[d] # "none"
    BY <1>t, <1>u DEF WiresAlive, Alive
  <2>1. CASE d # c
    BY <1>t, <1>8, <2>1 DEF WiresAlive
  <2>2. CASE d = c
    BY <1>t, <1>u, <1>8, <2>2 DEF WiresAlive
  <2> QED BY <2>1, <2>2
<1>17. OneByOne'
  BY <1>t DEF OneByOne
<1>18. OwnClaimsTracked'
  BY <1>t, <1>12, ClaimsKept
<1>19. Tracked' /\ ans' \in [Closes -> Word \union Fill]
  BY <1>t, <1>u, <1>15, <1>16, <1>17, <1>18 DEF Tracked
<1> QED BY <1>u, <1>6, <1>7, <1>8, <1>10, <1>11, <1>19, EntryKept, VenueKeeps

\* An own close's order ends.
LEMMA VenueEndsCloseStep ==
  ASSUME IInv, NEW c \in Closes, VenueEndsClose(c) PROVE IInv'
<1>t. /\ VenueTyped /\ Typed /\ wire \in [Closes -> {"none", "sent", "working", "over"}]
      /\ ans \in [Closes -> Word \union Fill] /\ queue \in Seq(Fill \union Cancel)
      /\ QueueTrue /\ AnswersTrue /\ WiresAlive /\ OneByOne /\ OwnPushesTracked
  BY DEF IInv, Typed, Truthful, Tracked
<1>u. /\ RunStill /\ UNCHANGED <<journalVars, dispatched, effects, booked>> /\ entry' = entry
      /\ wire[c] = "working" /\ ans' = ans /\ wire' = [wire EXCEPT ![c] = "over"] /\ oc' = oc
      /\ UNCHANGED venueVars
  BY DEF VenueEndsClose, RunStill, judgeVars
<1>1. Grew /\ VenueTyped' /\ AnswersTrue'
  BY <1>t, <1>u DEF Grew, VenueTyped, AnswersTrue, TrueFill, IsOf, Deals, venueVars
<1>2. /\ wire' \in [Closes -> {"none", "sent", "working", "over"}]
      /\ \A d \in Closes : d # c => wire'[d] = wire[d]
      /\ wire'[c] = "over"
  BY <1>t, <1>u
<1> DEFINE m == [kind |-> "cancel", order |-> c]
<1>3. m \in Cancel /\ m.kind \notin Kinds /\ m.kind # "own" /\ queue' = Append(queue, m)
  BY DEF Cancel, Kinds, VenueEndsClose, Pushes
<1> HIDE DEF m
<1>4. queue' \in Seq(Fill \union Cancel) /\ QueueTrue'
  BY <1>t, <1>1, <1>3, QueueKept
<1>5. \A d \in Closes : HasOrder(d) => HasOrder(d)'
  BY <1>u, <1>2 DEF HasOrder
<1>6. StayTracked
  BY <1>u, <1>5 DEF StayTracked, Alive
<1>7. OwnPushesTracked'
  BY <1>t, <1>3, <1>6, PushesKept
<1>8. WiresAlive'
  <2> SUFFICES ASSUME NEW d \in Closes
               PROVE  /\ wire'[d] \in {"sent", "working"} => Alive(d)
                      /\ wire'[d] = "sent" => oc[d].phase \in {"sent", "unknown"} /\ ans[d].kind = "none"
                      /\ wire'[d] = "working" => ans[d].kind # "refused"
                      /\ ans[d].kind # "none" => oc[d].phase = "sent"
                      /\ oc[d].phase # "idle" => wire'[d] # "none"
    BY <1>u DEF WiresAlive, Alive
  <2>1. CASE d # c
    BY <1>t, <1>2, <2>1 DEF WiresAlive
  <2>2. CASE d = c
    BY <1>t, <1>2, <2>2 DEF WiresAlive
  <2> QED BY <2>1, <2>2
<1>9. OneByOne'
  BY <1>t, <1>u DEF OneByOne
<1>10. OwnClaimsTracked'
  BY <1>u, <1>5, ClaimsKept
<1>11. Tracked' /\ ans' \in [Closes -> Word \union Fill]
  BY <1>t, <1>u, <1>7, <1>8, <1>9, <1>10 DEF Tracked
<1> QED BY <1>u, <1>1, <1>2, <1>4, <1>11, EntryKept, VenueKeeps

\* Somebody else, or the venue itself, closes some of the position.
LEMMA OthersClose ==
  ASSUME IInv, NEW kind \in {"ext", "venue"}, NEW q \in Nat, q <= vol,
         NEW m \in Fills(kind, 0, q, TRUE), Executes(m), Pushes(m),
         UNCHANGED <<left, wire, ans, journalVars, oc, dispatched, seen, effects, verdicts, entry,
                     judgeVars, booked>>
  PROVE  IInv'
<1>t. VenueTyped /\ Typed
  BY DEF IInv, Typed
<1>u. RunStill
  BY DEF RunStill, judgeVars
<1>1. /\ m \in Fill /\ m.deal = Len(deals) + 1 /\ m.kind = kind /\ m.qty = q /\ m.after = vol - q
  <2> DEFINE none == 0
             last == TRUE
  <2>1. kind \in Kinds /\ last \in BOOLEAN /\ none \in Nat /\ m \in Fills(kind, none, q, last)
    BY DEF Kinds
  <2> HIDE DEF none, last
  <2> QED BY <1>t, <2>1, FillIs
<1>2. /\ vol' \in Nat /\ mine' \in Nat /\ mine' <= vol' /\ clock' \in Nat /\ deals' \in Seq(DealOf)
      /\ Grew /\ TrueFill(m)'
  BY <1>t, <1>1, ExecutesTyped
<1>3. VenueTyped'
  BY <1>t, <1>2 DEF VenueTyped
<1>4. /\ wire' \in [Closes -> {"none", "sent", "working", "over"}]
      /\ ans' \in [Closes -> Word \union Fill] /\ queue' \in Seq(Fill \union Cancel)
      /\ QueueTrue' /\ AnswersTrue' /\ Tracked'
  <2>1. queue' = Append(queue, m)
    BY DEF Pushes
  <2> QED BY <1>u, <1>1, <1>2, <2>1, OthersPush
<1> QED BY <1>u, <1>2, <1>3, <1>4, EntryKept, VenueKeeps

\* Another party closes part of the position.
LEMMA ForeignClosesStep ==
  ASSUME IInv, ForeignCloses PROVE IInv'
<1>1. PICK q \in 1 .. vol : \E m \in Fills("ext", 0, q, TRUE) : Executes(m) /\ Pushes(m)
  BY DEF ForeignCloses
<1>2. vol \in Nat /\ q \in Nat /\ q <= vol
  BY DEF IInv, Typed, VenueTyped
<1> QED BY <1>1, <1>2, OthersClose DEF ForeignCloses

\* The position's own protection closes part of it.
LEMMA VenueFiresStep ==
  ASSUME IInv, VenueFires PROVE IInv'
<1>1. PICK q \in {1, vol} : \E m \in Fills("venue", 0, q, TRUE) : Executes(m) /\ Pushes(m)
  BY DEF VenueFires
<1>2. vol \in Nat /\ vol > 0
  BY DEF IInv, Typed, VenueTyped, VenueFires
<1>3. q \in Nat /\ q <= vol
  BY <1>2
<1> QED BY <1>1, <1>3, OthersClose DEF VenueFires

\* Another party adds to the position.
LEMMA ForeignAddsStep ==
  ASSUME IInv, ForeignAdds PROVE IInv'
<1>t. VenueTyped /\ Typed
  BY DEF IInv, Typed
<1>u. RunStill /\ UNCHANGED <<journalVars, dispatched, effects, booked>> /\ entry' = entry
  BY DEF RunStill, judgeVars, ForeignAdds
<1> DEFINE x == [kind |-> "add", took |-> 0]
<1>1. x \in DealOf /\ deals' = Append(deals, x)
  BY DEF DealOf, ForeignAdds
<1> HIDE DEF x
<1>2. Grew
  BY <1>1 DEF Grew
<1>3. VenueTyped'
  BY <1>t, <1>1 DEF VenueTyped, ForeignAdds, Stamps
<1>4. /\ wire' \in [Closes -> {"none", "sent", "working", "over"}]
      /\ ans' \in [Closes -> Word \union Fill] /\ queue' \in Seq(Fill \union Cancel)
      /\ QueueTrue' /\ AnswersTrue' /\ Tracked'
  <2>1. wire' = wire /\ ans' = ans /\ queue' = queue
    BY DEF ForeignAdds
  <2> QED BY <1>u, <1>2, <2>1, OthersPush
<1> QED BY <1>u, <1>2, <1>3, <1>4, EntryKept, VenueKeeps

\* The own entry executes.
LEMMA EntryExecutes ==
  ASSUME Typed, NEW at \in Stamps, UNCHANGED left,
         vol' = vol + EntryVolume, mine' = mine + EntryVolume, clock' = at,
         deals' = Append(deals, [kind |-> "entry", took |-> 0])
  PROVE  /\ VenueTyped' /\ Grew
         /\ EntryFill(at) \in Fill /\ EntryFill(at).kind = "entry"
         /\ \A m : m = EntryFill(at) => TrueFill(m)'
<1>t. /\ VenueTyped /\ vol \in Nat /\ clock \in Nat /\ deals \in Seq(DealOf) /\ Len(deals) \in Nat
  BY DEF Typed, VenueTyped
<1> DEFINE x == [kind |-> "entry", took |-> 0]
<1>1. x \in DealOf /\ x.kind = "entry" /\ deals' = Append(deals, x)
  BY DEF DealOf, Kinds
<1> HIDE DEF x
<1>2. at \in Nat
  BY <1>t DEF Stamps
<1>3. VenueTyped' /\ Grew
  BY <1>t, <1>1, <1>2 DEF VenueTyped, Grew, EntryVolume
<1>4. EntryFill(at) \in Fill /\ EntryFill(at).kind = "entry" /\ EntryFill(at).deal = Len(deals) + 1
  BY <1>t, <1>2 DEF EntryFill, Fill, Kinds, EntryVolume
<1>5. ASSUME NEW m, m = EntryFill(at) PROVE TrueFill(m)'
  <2>1. m.deal = Len(deals) + 1 /\ m.kind = "entry"
    BY <1>4, <1>5
  <2>2. m.deal \in Deals' /\ deals'[m.deal].kind = m.kind
    BY <1>t, <1>1, <2>1 DEF Deals
  <2> QED BY <2>1, <2>2 DEF TrueFill, IsOf
<1> QED BY <1>3, <1>4, <1>5

\* The venue refuses, accepts or fills the run's entry.
LEMMA VenueHandlesEntryStep ==
  ASSUME IInv, VenueHandlesEntry PROVE IInv'
<1>t. /\ VenueTyped /\ Typed /\ entry \in EntryOf
  BY DEF IInv, Typed
<1>u. /\ RunStill /\ UNCHANGED <<journalVars, dispatched, effects, booked>>
      /\ UNCHANGED <<left, wire, ans, oc>>
  BY DEF RunStill, judgeVars, VenueHandlesEntry
<1>1. ASSUME NEW verdict \in {"refused", "accepted"},
             entry' = [entry EXCEPT !.venue = IF verdict = "accepted" THEN "working" ELSE "over",
                                    !.answer = IF entry.phase = "flight" THEN [kind |-> verdict]
                                               ELSE NoAnswer],
             UNCHANGED <<vol, mine, clock, deals, queue>>
      PROVE  IInv'
  <2> DEFINE x == IF entry.phase = "flight" THEN [kind |-> verdict] ELSE NoAnswer
             v == IF verdict = "accepted" THEN "working" ELSE "over"
  <2>1. x \in Word /\ x.kind \notin Kinds /\ v \in {"none", "sent", "working", "over"}
    BY DEF Word, Kinds, NoAnswer
  <2>2. entry' = [entry EXCEPT !.venue = v, !.answer = x]
    BY <1>1
  <2> HIDE DEF x, v
  <2>3. entry' \in EntryOf /\ entry'.answer = x /\ entry'.phase = entry.phase
    BY <1>t, <2>1, <2>2 DEF EntryOf
  <2>4. EntryTrue'
    BY <2>1, <2>3 DEF EntryTrue
  <2>5. Grew /\ VenueTyped'
    BY <1>t, <1>u, <1>1 DEF Grew, VenueTyped
  <2>6. /\ wire' \in [Closes -> {"none", "sent", "working", "over"}]
        /\ ans' \in [Closes -> Word \union Fill] /\ queue' \in Seq(Fill \union Cancel)
        /\ QueueTrue' /\ AnswersTrue' /\ Tracked'
    BY <1>u, <1>1, <2>5, OthersPush
  <2> QED BY <1>u, <2>3, <2>4, <2>5, <2>6, VenueKeeps
<1>2. ASSUME NEW at \in Stamps,
             vol' = vol + EntryVolume, mine' = mine + EntryVolume, clock' = at,
             deals' = Append(deals, [kind |-> "entry", took |-> 0]),
             IF entry.phase = "flight"
             THEN entry' = [entry EXCEPT !.venue = "over", !.answer = EntryFill(at)]
                  /\ UNCHANGED queue
             ELSE entry' = [entry EXCEPT !.venue = "over"] /\ Pushes(EntryFill(at))
      PROVE  IInv'
  <2>1. PICK m : m = EntryFill(at)
    OBVIOUS
  <2>2. VenueTyped' /\ Grew /\ m \in Fill /\ m.kind = "entry" /\ TrueFill(m)'
    BY <1>t, <1>u, <1>2, <2>1, EntryExecutes
  <2>3. CASE entry.phase = "flight"
    <3>1. entry' = [entry EXCEPT !.venue = "over", !.answer = m] /\ queue' = queue
      BY <1>2, <2>1, <2>3
    <3>2. entry' \in EntryOf /\ entry'.answer = m /\ entry'.phase = entry.phase
      BY <1>t, <2>2, <3>1 DEF EntryOf
    <3>3. EntryTrue'
      BY <2>2, <3>2 DEF EntryTrue, TrueFill, IsOf
    <3>4. /\ wire' \in [Closes -> {"none", "sent", "working", "over"}]
          /\ ans' \in [Closes -> Word \union Fill] /\ queue' \in Seq(Fill \union Cancel)
          /\ QueueTrue' /\ AnswersTrue' /\ Tracked'
      BY <1>u, <2>2, <3>1, OthersPush
    <3> QED BY <1>u, <2>2, <3>2, <3>3, <3>4, VenueKeeps
  <2>4. CASE entry.phase # "flight"
    <3>1. entry' = [entry EXCEPT !.venue = "over"] /\ queue' = Append(queue, m)
      BY <1>2, <2>1, <2>4 DEF Pushes
    <3>2. entry' \in EntryOf /\ entry'.answer = entry.answer /\ entry'.phase = entry.phase
      BY <1>t, <3>1 DEF EntryOf
    <3>3. EntryTrue'
      <4>1. PICK x : x = entry.answer
        OBVIOUS
      <4>2. x.kind \in Kinds => TrueFill(x) /\ x.kind = "entry"
        BY <4>1 DEF IInv, Truthful, EntryTrue
      <4>3. x.kind \in Kinds => TrueFill(x)'
        BY <1>t, <2>2, <4>2, Recorded DEF TrueFill
      <4> QED BY <3>2, <4>1, <4>2, <4>3 DEF EntryTrue, TrueFill, IsOf
    <3>4. /\ wire' \in [Closes -> {"none", "sent", "working", "over"}]
          /\ ans' \in [Closes -> Word \union Fill] /\ queue' \in Seq(Fill \union Cancel)
          /\ QueueTrue' /\ AnswersTrue' /\ Tracked'
      BY <1>u, <2>2, <3>1, OthersPush
    <3> QED BY <1>u, <2>2, <3>2, <3>3, <3>4, VenueKeeps
  <2> QED BY <2>3, <2>4
<1>3. \/ /\ \E verdict \in {"refused", "accepted"} :
              entry' = [entry EXCEPT !.venue = IF verdict = "accepted" THEN "working" ELSE "over",
                                     !.answer = IF entry.phase = "flight" THEN [kind |-> verdict]
                                                ELSE NoAnswer]
         /\ UNCHANGED <<vol, mine, clock, deals, queue>>
      \/ \E at \in Stamps :
           /\ vol' = vol + EntryVolume /\ mine' = mine + EntryVolume /\ clock' = at
           /\ deals' = Append(deals, [kind |-> "entry", took |-> 0])
           /\ IF entry.phase = "flight"
              THEN entry' = [entry EXCEPT !.venue = "over", !.answer = EntryFill(at)]
                   /\ UNCHANGED queue
              ELSE entry' = [entry EXCEPT !.venue = "over"] /\ Pushes(EntryFill(at))
  BY Zenon DEF VenueHandlesEntry
<1> QED BY <1>1, <1>2, <1>3

\* The venue fills an entry it had accepted.
LEMMA VenueFillsEntryStep ==
  ASSUME IInv, VenueFillsEntry PROVE IInv'
<1>t. /\ VenueTyped /\ Typed /\ entry \in EntryOf
  BY DEF IInv, Typed
<1>u. /\ RunStill /\ UNCHANGED <<journalVars, dispatched, effects, booked>>
      /\ UNCHANGED <<left, wire, ans, oc>>
  BY DEF RunStill, judgeVars, VenueFillsEntry
<1>1. PICK at \in Stamps :
        /\ vol' = vol + EntryVolume /\ mine' = mine + EntryVolume /\ clock' = at
        /\ deals' = Append(deals, [kind |-> "entry", took |-> 0])
        /\ Pushes(EntryFill(at))
  BY Zenon DEF VenueFillsEntry
<1>2. PICK m : m = EntryFill(at)
  OBVIOUS
<1>3. VenueTyped' /\ Grew /\ m \in Fill /\ m.kind = "entry" /\ TrueFill(m)'
  BY <1>t, <1>u, <1>1, <1>2, EntryExecutes
<1>4. entry' = [entry EXCEPT !.venue = "over"] /\ queue' = Append(queue, m)
  BY <1>1, <1>2 DEF Pushes, VenueFillsEntry
<1>5. entry' \in EntryOf /\ entry'.answer = entry.answer /\ entry'.phase = entry.phase
  BY <1>t, <1>4 DEF EntryOf
<1>6. EntryTrue'
  <2>1. PICK x : x = entry.answer
    OBVIOUS
  <2>2. x.kind \in Kinds => TrueFill(x) /\ x.kind = "entry"
    BY <2>1 DEF IInv, Truthful, EntryTrue
  <2>3. x.kind \in Kinds => TrueFill(x)'
    BY <1>t, <1>3, <2>2, Recorded DEF TrueFill
  <2> QED BY <1>5, <2>1, <2>2, <2>3 DEF EntryTrue, TrueFill, IsOf
<1>7. /\ wire' \in [Closes -> {"none", "sent", "working", "over"}]
      /\ ans' \in [Closes -> Word \union Fill] /\ queue' \in Seq(Fill \union Cancel)
      /\ QueueTrue' /\ AnswersTrue' /\ Tracked'
  BY <1>u, <1>3, <1>4, OthersPush
<1> QED BY <1>u, <1>3, <1>5, <1>6, <1>7, VenueKeeps
-----------------------------------------------------------------------------
(* The run closes *)

\* Where the history stands still, what it says does.
LEMMA SameDeals ==
  ASSUME deals' = deals
  PROVE  Deals' = Deals /\ \A d, kind : IsOf(d, kind)' <=> IsOf(d, kind)
BY DEF Deals, IsOf

\* Messages and history stand still.
VenueStill == UNCHANGED <<venueVars, wire, ans, queue>>

\* The messages stay typed and true.
LEMMA MessagesKept ==
  ASSUME IInv, VenueStill
  PROVE  /\ VenueTyped' /\ wire' \in [Closes -> {"none", "sent", "working", "over"}]
         /\ ans' \in [Closes -> Word \union Fill] /\ queue' \in Seq(Fill \union Cancel)
         /\ QueueTrue' /\ AnswersTrue'
BY DEF IInv, Typed, Truthful, VenueStill, venueVars, VenueTyped, QueueTrue, AnswersTrue, TrueFill,
       IsOf, Deals

\* An entry that stays is answered as before.
LEMMA SameEntry ==
  ASSUME IInv, deals' = deals, entry' = entry PROVE entry' \in EntryOf /\ EntryTrue'
BY DEF IInv, Typed, Truthful, EntryTrue, TrueFill, IsOf, Deals

\* The reports and verdicts that stay are of the same deals.
LEMMA SameNotes ==
  ASSUME IInv, deals' = deals, verdicts' = verdicts, pending' = pending, reported' = reported,
         audited' = audited, seen' = seen
  PROVE  /\ VerdictsTrue' /\ NotesTrue' /\ ReportsForeign' /\ ReportsTyped'
         /\ seen' \in SUBSET Nat /\ verdicts' \in SUBSET VerdictOf
BY DEF IInv, Typed, Truthful, VerdictsTrue, NotesTrue, ReportsForeign, ReportsTyped, AllExt, IsOf, Deals

\* Closes keep their claims; each that leaves dispatch holds no event.
LEMMA ClaimsStill ==
  ASSUME IInv, deals' = deals, oc' \in [Closes -> CloseOf],
         \A c \in Closes : HasOrder(c) => HasOrder(c)',
         \A c \in Closes : /\ oc'[c].claims = oc[c].claims
                           /\ oc'[c].phase = oc[c].phase
  PROVE  ClaimsTrue' /\ OwnClaimsTracked' /\ (\A c \in Closes : oc'[c].phase # "sent" =>
                                                \A i \in DOMAIN oc'[c].claims : oc'[c].claims[i].event = 0)
<1>1. ClaimsTrue /\ OwnClaimsTracked /\ HeldIsAwaited
  BY DEF IInv, Truthful, Tracked
<1>2. ClaimsTrue'
  BY <1>1 DEF ClaimsTrue, TrueClaim, IsOf, Deals
<1>3. OwnClaimsTracked'
  <2> SUFFICES ASSUME NEW c \in Closes, NEW i \in DOMAIN oc[c].claims, oc[c].claims[i].own
               PROVE  /\ HasOrder(oc[c].claims[i].order)'
                      /\ oc[c].phase = "sent" => oc[c].claims[i].order = c
    BY DEF OwnClaimsTracked, HasOrder
  <2>1. PICK d \in Closes : d = oc[c].claims[i].order
    BY <1>1 DEF ClaimsTrue, TrueClaim
  <2>2. HasOrder(d) /\ (oc[c].phase = "sent" => d = c)
    BY <1>1, <2>1 DEF OwnClaimsTracked
  <2>3. HasOrder(d)' /\ oc'[c].claims[i].order = d
    BY <2>1, <2>2
  <2> QED BY <2>1, <2>2, <2>3 DEF HasOrder
<1>4. \A c \in Closes : oc'[c].phase # "sent" =>
        \A i \in DOMAIN oc'[c].claims : oc'[c].claims[i].event = 0
  BY <1>1 DEF HeldIsAwaited
<1> QED BY <1>2, <1>3, <1>4

\* A queue that stays, of closes that stay in sight.
LEMMA QueueStill ==
  ASSUME IInv, queue' = queue, StayTracked PROVE OwnPushesTracked'
BY PushesKept DEF IInv, Typed, Truthful, Tracked

\* The run sends a close.
LEMMA SendStep ==
  ASSUME IInv, NEW c \in Closes, NEW v \in 1 .. Mine0 + EntryVolume, Send(c, v) PROVE IInv'
<1>t. /\ Typed /\ oc \in [Closes -> CloseOf] /\ WiresAlive /\ OneByOne /\ HeldIsAwaited /\ ClaimsTrue
      /\ wire \in [Closes -> {"none", "sent", "working", "over"}] /\ OwnClaimsTracked
      /\ queue \in Seq(Fill \union Cancel) /\ ans \in [Closes -> Word \union Fill]
  BY DEF IInv, Typed, Truthful, Tracked
<1> DEFINE r == [Idle EXCEPT !.phase = "sent", !.live = TRUE, !.vol = v]
<1>u. /\ oc' = [oc EXCEPT ![c] = r] /\ wire' = [wire EXCEPT ![c] = "sent"] /\ dispatched' = TRUE
      /\ UNCHANGED <<venueVars, ans, queue, journalVars, seen, effects, verdicts, entry, judgeVars, booked>>
      /\ oc[c].phase = "idle" /\ \A b \in 1 .. c - 1 : oc[b].phase \notin {"idle", "sent"}
  BY DEF Send
<1>1. r \in CloseOf /\ r.phase = "sent" /\ r.live = TRUE /\ r.claims = <<>>
  <2>1. v \in Nat /\ <<>> \in Seq(ClaimOf)
    BY ShareAssumption DEF EntryVolume
  <2> QED BY <2>1 DEF Idle, CloseOf
<1> HIDE DEF r
<1>2. /\ oc' \in [Closes -> CloseOf] /\ oc'[c] = r /\ wire'[c] = "sent"
      /\ wire' \in [Closes -> {"none", "sent", "working", "over"}]
      /\ \A d \in Closes : d # c => oc'[d] = oc[d] /\ wire'[d] = wire[d]
  BY <1>t, <1>u, <1>1
<1>3. \A d \in Closes : HasOrder(d) => d # c /\ HasOrder(d)'
  BY <1>u, <1>2 DEF HasOrder
<1>4. StayTracked
  BY <1>2, <1>3 DEF StayTracked, Alive
<1>5. OwnPushesTracked'
  BY <1>u, <1>4, QueueStill
<1>6. WiresAlive'
  <2> SUFFICES ASSUME NEW d \in Closes
               PROVE  /\ wire'[d] \in {"sent", "working"} => Alive(d)'
                      /\ wire'[d] = "sent" => oc'[d].phase \in {"sent", "unknown"} /\ ans[d].kind = "none"
                      /\ wire'[d] = "working" => ans[d].kind # "refused"
                      /\ ans[d].kind # "none" => oc'[d].phase = "sent"
                      /\ oc'[d].phase # "idle" => wire'[d] # "none"
    BY <1>u DEF WiresAlive, Alive
  <2>1. CASE d # c
    BY <1>t, <1>2, <2>1 DEF WiresAlive, Alive
  <2>2. CASE d = c
    <3>1. ans[c].kind = "none"
      BY <1>t, <1>u DEF WiresAlive
    <3> QED BY <1>1, <1>2, <2>2, <3>1 DEF Alive
  <2> QED BY <2>1, <2>2
<1>7. OneByOne'
  <2>1. ASSUME NEW b \in Closes, oc'[b].phase = "sent" PROVE oc'[b].live
    BY <1>t, <1>1, <1>2, <2>1 DEF OneByOne
  <2>2. ASSUME NEW b \in Closes, oc'[b].phase \in {"idle", "sent"}, NEW d \in Closes, d > b
        PROVE  oc'[d].phase = "idle"
    <3>0. b \in Nat /\ c \in Nat /\ d \in Nat /\ \A e \in Closes : e < c => e \in 1 .. c - 1
      BY ClosesFinite
    <3>1. b >= c
      BY <1>u, <1>2, <2>2, <3>0
    <3>2. oc[b].phase \in {"idle", "sent"} /\ oc[d].phase = "idle" /\ d # c
      BY <1>t, <1>u, <1>2, <2>2, <3>0, <3>1 DEF OneByOne
    <3> QED BY <1>2, <3>2
  <2> QED BY <2>1, <2>2 DEF OneByOne
<1>8. ClaimsTrue'
  <2> SUFFICES ASSUME NEW d \in Closes, NEW i \in DOMAIN oc'[d].claims PROVE TrueClaim(oc[d].claims[i])'
    BY DEF ClaimsTrue
  <2>1. d # c
    BY <1>1, <1>2
  <2>2. oc'[d] = oc[d] /\ TrueClaim(oc[d].claims[i]) /\ deals' = deals
    BY <1>t, <1>u, <1>2, <2>1 DEF ClaimsTrue, venueVars
  <2> QED BY <2>2 DEF TrueClaim, IsOf, Deals
<1>9. OwnClaimsTracked'
  <2> SUFFICES ASSUME NEW e \in Closes, NEW i \in DOMAIN oc'[e].claims, oc'[e].claims[i].own
               PROVE  /\ HasOrder(oc[e].claims[i].order)'
                      /\ oc'[e].phase = "sent" => oc'[e].claims[i].order = e
    BY DEF OwnClaimsTracked
  <2>1. e # c /\ oc'[e] = oc[e]
    BY <1>1, <1>2
  <2>2. PICK d \in Closes : d = oc[e].claims[i].order
    BY <1>t, <2>1 DEF ClaimsTrue, TrueClaim
  <2>3. HasOrder(d) /\ (oc[e].phase = "sent" => d = e)
    BY <1>t, <2>1, <2>2 DEF OwnClaimsTracked
  <2> QED BY <1>3, <2>1, <2>2, <2>3 DEF HasOrder
<1>10. HeldIsAwaited'
  <2>1. ASSUME NEW d \in Closes, oc'[d].phase # "sent", NEW i \in DOMAIN oc'[d].claims
        PROVE  oc'[d].claims[i].event = 0
    <3>1. oc'[d] = oc[d]
      BY <1>1, <1>2, <2>1
    <3> QED BY <1>t, <2>1, <3>1 DEF HeldIsAwaited
  <2> QED BY <1>t, <1>u, <2>1 DEF HeldIsAwaited
<1>11. deals' = deals /\ VenueTyped' /\ QueueTrue' /\ AnswersTrue'
  BY <1>u DEF IInv, Typed, Truthful, venueVars, VenueTyped, QueueTrue, AnswersTrue, TrueFill, IsOf, Deals
<1>12. Typed'
  <2>1. /\ JournalTyped' /\ EffectsTyped' /\ ReportsTyped' /\ verdicts' \in SUBSET VerdictOf
        /\ seen' \in SUBSET Nat /\ dispatched' \in BOOLEAN /\ booked' \in Nat
    BY <1>t, <1>u DEF Typed, JournalTyped, EffectsTyped, ReportsTyped, journalVars, judgeVars
  <2>2. entry' \in EntryOf /\ queue' \in Seq(Fill \union Cancel) /\ ans' \in [Closes -> Word \union Fill]
    BY <1>t, <1>u DEF Typed
  <2> QED BY <1>2, <1>11, <2>1, <2>2 DEF Typed
<1>13. VerdictsTrue' /\ NotesTrue' /\ ReportsForeign'
  BY <1>u, <1>11, SameNotes DEF judgeVars
<1>14. EntryTrue'
  BY <1>u, <1>11, SameEntry
<1> QED BY <1>5, <1>6, <1>7, <1>8, <1>9, <1>10, <1>11, <1>12, <1>13, <1>14 DEF IInv, Truthful, Tracked

\* A close of unknown outcome is given up.
LEMMA GraceExpiresStep ==
  ASSUME IInv, NEW c \in Closes, GraceExpires(c) PROVE IInv'
<1>t. /\ Typed /\ oc \in [Closes -> CloseOf] /\ WiresAlive /\ OneByOne /\ HeldIsAwaited
  BY DEF IInv, Typed, Tracked
<1>u. /\ oc' = [oc EXCEPT ![c].live = FALSE] /\ oc[c].phase = "unknown" /\ wire[c] = "over" /\ queue = <<>>
      /\ UNCHANGED <<venueVars, wire, ans, queue, journalVars, dispatched, seen, effects, verdicts,
                     entry, judgeVars, booked>>
  BY DEF GraceExpires
<1>1. /\ oc' \in [Closes -> CloseOf] /\ \A d \in Closes : d # c => oc'[d] = oc[d]
      /\ oc'[c].phase = oc[c].phase /\ oc'[c].claims = oc[c].claims
  <2>1. oc[c] \in CloseOf
    BY <1>t
  <2>2. [oc[c] EXCEPT !.live = FALSE] \in CloseOf /\ [oc[c] EXCEPT !.live = FALSE].phase = oc[c].phase
        /\ [oc[c] EXCEPT !.live = FALSE].claims = oc[c].claims
    BY <2>1 DEF CloseOf
  <2>3. oc' = [oc EXCEPT ![c] = [oc[c] EXCEPT !.live = FALSE]]
    BY <1>u
  <2> QED BY <1>t, <2>2, <2>3
<1>2. \A d \in Closes : HasOrder(d) => HasOrder(d)'
  BY <1>u, <1>1 DEF HasOrder
<1>3. /\ ClaimsTrue' /\ OwnClaimsTracked' /\ deals' = deals
      /\ \A d \in Closes : oc'[d].phase # "sent" => \A i \in DOMAIN oc'[d].claims : oc'[d].claims[i].event = 0
  BY <1>u, <1>1, <1>2, ClaimsStill DEF venueVars
<1>4. HeldIsAwaited'
  BY <1>t, <1>u, <1>3 DEF HeldIsAwaited
<1>5. WiresAlive'
  <2> SUFFICES ASSUME NEW d \in Closes
               PROVE  /\ wire[d] \in {"sent", "working"} => Alive(d)'
                      /\ wire[d] = "sent" => oc'[d].phase \in {"sent", "unknown"} /\ ans[d].kind = "none"
                      /\ wire[d] = "working" => ans[d].kind # "refused"
                      /\ ans[d].kind # "none" => oc'[d].phase = "sent"
                      /\ oc'[d].phase # "idle" => wire[d] # "none"
    BY <1>u DEF WiresAlive, Alive
  <2>1. CASE d # c
    BY <1>t, <1>1, <2>1 DEF WiresAlive, Alive
  <2>2. CASE d = c
    BY <1>t, <1>u, <1>1, <2>2 DEF WiresAlive, Alive
  <2> QED BY <2>1, <2>2
<1>6. OneByOne'
  <2>1. \A d \in Closes : oc'[d].phase = oc[d].phase /\ (oc[d].phase = "sent" => oc'[d].live = oc[d].live)
    BY <1>u, <1>1
  <2> QED BY <1>t, <2>1 DEF OneByOne
<1>7. OwnPushesTracked'
  BY <1>u DEF OwnPushesTracked
<1>8. VenueStill
  BY <1>u DEF VenueStill
<1>9. Typed'
  <2>1. /\ JournalTyped' /\ EffectsTyped' /\ dispatched' \in BOOLEAN /\ booked' \in Nat
    BY <1>t, <1>u DEF Typed, JournalTyped, EffectsTyped, journalVars
  <2> QED BY <1>1, <1>3, <1>u, <1>8, <2>1, MessagesKept, SameEntry, SameNotes DEF Typed, judgeVars
<1>10. Truthful'
  BY <1>3, <1>u, <1>8, MessagesKept, SameEntry, SameNotes DEF Truthful, judgeVars
<1> QED BY <1>3, <1>4, <1>5, <1>6, <1>7, <1>9, <1>10 DEF IInv, Tracked

\* The memory of the closes stands still.
ClosesStill == UNCHANGED <<wire, ans, queue, oc>>

\* The closes stay in sight, and their claims true.
LEMMA SightKept ==
  ASSUME IInv, ClosesStill, deals' = deals
  PROVE  /\ Tracked' /\ ClaimsTrue' /\ oc' \in [Closes -> CloseOf]
         /\ \A d \in Closes : oc'[d].phase # "sent" => \A i \in DOMAIN oc'[d].claims : oc'[d].claims[i].event = 0
<1>t. /\ Typed /\ oc \in [Closes -> CloseOf] /\ WiresAlive /\ OneByOne /\ oc' = oc /\ ans' = ans /\ wire' = wire
      /\ queue' = queue
  BY DEF IInv, Typed, Tracked, ClosesStill
<1>1. \A d \in Closes : HasOrder(d) => HasOrder(d)'
  BY <1>t DEF HasOrder
<1>2. StayTracked
  BY <1>t, <1>1 DEF StayTracked, Alive
<1>3. OwnPushesTracked'
  BY <1>t, <1>2, QueueStill
<1>4. /\ ClaimsTrue' /\ OwnClaimsTracked'
      /\ \A d \in Closes : oc'[d].phase # "sent" => \A i \in DOMAIN oc'[d].claims : oc'[d].claims[i].event = 0
  BY <1>t, <1>1, ClaimsStill
<1>5. WiresAlive' /\ OneByOne'
  BY <1>t DEF WiresAlive, OneByOne, Alive
<1> QED BY <1>t, <1>3, <1>4, <1>5 DEF Tracked

\* The queued reports run the policy.
LEMMA FlushStep ==
  ASSUME IInv, Flush PROVE IInv'
<1>u. /\ reported' = reported \cup pending /\ pending' = {}
      /\ UNCHANGED <<venueVars, wire, ans, queue, journalVars, oc, dispatched, seen, effects, verdicts,
                     entry, audited, booked>>
  BY DEF Flush
<1>t. Typed /\ Truthful /\ HeldIsAwaited
  BY DEF IInv
<1>1. deals' = deals /\ VenueStill /\ ClosesStill
  BY <1>u DEF venueVars, VenueStill, ClosesStill
<1>2. ReportsForeign' /\ ReportsTyped' /\ VerdictsTrue' /\ NotesTrue'
  BY <1>t, <1>u, <1>1 DEF Typed, Truthful, ReportsForeign, ReportsTyped, VerdictsTrue, NotesTrue, AllExt,
                          IsOf, Deals
<1>3. Typed'
  <2>1. /\ JournalTyped' /\ EffectsTyped' /\ dispatched' \in BOOLEAN /\ booked' \in Nat
        /\ seen' \in SUBSET Nat /\ verdicts' \in SUBSET VerdictOf
    BY <1>t, <1>u DEF Typed, JournalTyped, EffectsTyped, journalVars
  <2> QED BY <1>1, <1>2, <1>u, <2>1, MessagesKept, SameEntry, SightKept DEF Typed
<1>4. Truthful'
  BY <1>1, <1>2, <1>u, MessagesKept, SameEntry, SightKept DEF Truthful
<1>5. HeldIsAwaited'
  BY <1>t, <1>u, <1>1, SightKept DEF HeldIsAwaited
<1> QED BY <1>1, <1>3, <1>4, <1>5, SightKept DEF IInv

\* The run sends its entry.
LEMMA SendEntryStep ==
  ASSUME IInv, SendEntry PROVE IInv'
<1>u. /\ entry' = [entry EXCEPT !.phase = "flight", !.venue = "sent"] /\ entry.phase = "idle"
      /\ UNCHANGED <<venueVars, wire, ans, queue, journalVars, oc, dispatched, seen, effects, verdicts,
                     judgeVars, booked>>
  BY DEF SendEntry
<1>t. Typed /\ Truthful /\ HeldIsAwaited /\ entry \in EntryOf
  BY DEF IInv, Typed
<1>1. deals' = deals /\ VenueStill /\ ClosesStill
  BY <1>u DEF venueVars, VenueStill, ClosesStill
<1>2. entry' \in EntryOf /\ entry'.answer = entry.answer /\ entry'.phase = "flight"
  BY <1>t, <1>u DEF EntryOf
<1>3. EntryTrue'
  BY <1>t, <1>1, <1>2 DEF Truthful, EntryTrue, TrueFill, IsOf, Deals
<1>4. Typed'
  <2>1. JournalTyped' /\ EffectsTyped' /\ dispatched' \in BOOLEAN /\ booked' \in Nat
    BY <1>t, <1>u DEF Typed, JournalTyped, EffectsTyped, journalVars
  <2> QED BY <1>1, <1>2, <1>u, <2>1, MessagesKept, SameNotes, SightKept DEF Typed, judgeVars
<1>5. Truthful'
  BY <1>1, <1>3, <1>u, MessagesKept, SameNotes, SightKept DEF Truthful, judgeVars
<1>6. HeldIsAwaited'
  BY <1>1, <1>2, SightKept DEF HeldIsAwaited
<1> QED BY <1>1, <1>4, <1>5, <1>6, SightKept DEF IInv

\* The held closes are judged: of those reported and logged each was made by somebody else.
LEMMA JudgeAllTrue ==
  ASSUME IInv, deals' = deals, reported' = reported, seen' = seen,
         NEW took \in SUBSET verdicts, NEW unsure \in SUBSET verdicts, JudgeAll(took, unsure)
  PROVE  /\ VerdictsTrue' /\ NotesTrue' /\ ReportsForeign' /\ ReportsTyped' /\ verdicts' = {}
<1>t. /\ Typed /\ verdicts \in SUBSET VerdictOf /\ VerdictsTrue /\ ReportsForeign /\ ReportsTyped /\ NotesTrue
  BY DEF IInv, Typed, Truthful
<1> DEFINE first == CHOOSE v \in took : \A w \in took : v.deal <= w.deal
<1>1. /\ pending' = IF pending = {} /\ took # {} THEN {first.deal} ELSE pending
      /\ audited' = audited \cup {v.deal : v \in unsure} /\ verdicts' = {}
  BY Zenon DEF JudgeAll
<1>2. took # {} => first \in took
  <2> SUFFICES ASSUME took # {} PROVE \E v \in took : \A w \in took : v.deal <= w.deal
    OBVIOUS
  <2> DEFINE S == {v.deal : v \in took}
  <2>1. S \subseteq Nat /\ S # {}
    BY <1>t DEF VerdictOf
  <2>2. PICK d \in S : \A e \in S : d <= e
    BY <2>1, LeastOf
  <2> QED BY <2>2
<1> HIDE DEF first
<1>3. \A v \in verdicts : IsOf(v.deal, "ext") /\ v.deal \in Deals /\ v.deal \in Nat
  BY <1>t DEF VerdictsTrue, IsOf, VerdictOf
<1>4. AllExt(pending') /\ pending' \in SUBSET Nat
  BY <1>1, <1>2, <1>3, <1>t DEF AllExt, ReportsForeign, ReportsTyped
<1>5. audited' \subseteq Deals /\ audited' \in SUBSET Nat
  <2>1. {v.deal : v \in unsure} \subseteq Deals /\ {v.deal : v \in unsure} \subseteq Nat
    BY <1>3
  <2> QED BY <1>1, <2>1, <1>t DEF NotesTrue, ReportsTyped
<1>6. ReportsForeign' /\ ReportsTyped'
  BY <1>4, <1>5, <1>t DEF ReportsForeign, ReportsTyped, AllExt, IsOf, Deals
<1>7. VerdictsTrue' /\ NotesTrue'
  BY <1>1, <1>5, <1>t DEF VerdictsTrue, NotesTrue, Deals
<1> QED BY <1>1, <1>6, <1>7

\* The dispatch of the entry ends without an answer.
LEMMA EntryTimesOutStep ==
  ASSUME IInv, EntryTimesOut PROVE IInv'
<1>u. /\ entry' = [entry EXCEPT !.phase = "unknown"]
      /\ UNCHANGED <<venueVars, wire, ans, queue, journalVars, oc, dispatched, seen, effects, reported, booked>>
      /\ \E took, unsure \in SUBSET verdicts : JudgeAll(took, unsure)
  <2>1. EntryTimesOut
    OBVIOUS
  <2> QED BY Zenon, <2>1 DEF EntryTimesOut, JudgeHeld
<1>t. Typed /\ Truthful /\ HeldIsAwaited /\ entry \in EntryOf
  BY DEF IInv, Typed
<1>1. deals' = deals /\ VenueStill /\ ClosesStill
  BY <1>u DEF venueVars, VenueStill, ClosesStill
<1>2. entry' \in EntryOf /\ entry'.answer = entry.answer
  BY <1>t, <1>u DEF EntryOf
<1>3. EntryTrue'
  BY <1>t, <1>1, <1>2 DEF Truthful, EntryTrue, TrueFill, IsOf, Deals
<1>4. VerdictsTrue' /\ NotesTrue' /\ ReportsForeign' /\ ReportsTyped' /\ verdicts' = {}
  BY <1>1, <1>u, JudgeAllTrue
<1>5. Typed'
  <2>1. /\ JournalTyped' /\ EffectsTyped' /\ dispatched' \in BOOLEAN /\ booked' \in Nat /\ seen' \in SUBSET Nat
    BY <1>t, <1>u DEF Typed, JournalTyped, EffectsTyped, journalVars
  <2> QED BY <1>1, <1>2, <1>4, <2>1, MessagesKept, SightKept DEF Typed
<1>6. Truthful'
  BY <1>1, <1>3, <1>4, MessagesKept, SightKept DEF Truthful
<1>7. HeldIsAwaited'
  BY <1>1, <1>4, SightKept DEF HeldIsAwaited
<1> QED BY <1>1, <1>5, <1>6, <1>7, SightKept DEF IInv

\* The entry is answered.
LEMMA EntryAnsweredStep ==
  ASSUME IInv, EntryAnswered PROVE IInv'
<1> DEFINE m == entry.answer
           isFill == m.kind = "entry"
           fresh == isFill /\ entry.count = 0
           e == [delta |-> EntryVolume, counted |-> TRUE, at |-> m.at, deal |-> m.deal]
<1>u. /\ entry' = [entry EXCEPT !.phase = "done", !.answer = NoAnswer,
                                !.count = IF isFill THEN EntryVolume ELSE entry.count]
      /\ IF isFill THEN Pushes(m) ELSE UNCHANGED queue
      /\ filled' = IF fresh THEN filled + EntryVolume ELSE filled
      /\ rows' = (rows \/ fresh)
      /\ effects' = IF isFill /\ m.deal \notin seen THEN effects \cup {e} ELSE effects
      /\ UNCHANGED <<venueVars, wire, ans, retired, oc, dispatched, seen, reported, booked>>
      /\ \E took, unsure \in SUBSET verdicts : JudgeAll(took, unsure)
  BY Zenon DEF EntryAnswered, JudgeHeld
<1>t. Typed /\ Truthful /\ HeldIsAwaited /\ entry \in EntryOf /\ OwnPushesTracked /\ Tracked
      /\ QueueTrue /\ EntryTrue
  BY DEF IInv, Typed, Tracked, Truthful
<1>1. deals' = deals /\ Grew
  BY <1>u DEF venueVars, Grew
<1>2. isFill => m \in Fill /\ TrueFill(m)
  BY <1>t DEF EntryTrue, EntryOf, Kinds, Word
<1>3. entry' \in EntryOf /\ entry'.answer = NoAnswer
  <2>1. NoAnswer \in Word
    BY DEF NoAnswer, Word
  <2> DEFINE n == IF isFill THEN EntryVolume ELSE entry.count
  <2>2. n \in {0, EntryVolume}
    BY <1>t DEF EntryOf
  <2>3. entry' = [entry EXCEPT !.phase = "done", !.answer = NoAnswer, !.count = n]
    BY <1>u
  <2> HIDE DEF n, m
  <2> QED BY <1>t, <2>1, <2>2, <2>3 DEF EntryOf
<1>4. EntryTrue'
  BY <1>3 DEF EntryTrue, NoAnswer, Kinds
<1>5. VerdictsTrue' /\ NotesTrue' /\ ReportsForeign' /\ ReportsTyped' /\ verdicts' = {}
  BY <1>1, <1>u, JudgeAllTrue
<1>6. /\ wire' \in [Closes -> {"none", "sent", "working", "over"}]
      /\ ans' \in [Closes -> Word \union Fill] /\ queue' \in Seq(Fill \union Cancel)
      /\ QueueTrue' /\ OwnPushesTracked' /\ WiresAlive' /\ OneByOne' /\ OwnClaimsTracked' /\ ClaimsTrue'
      /\ \A d \in Closes : oc'[d].phase # "sent" => \A i \in DOMAIN oc'[d].claims : oc'[d].claims[i].event = 0
  <2>1. PICK x : x = m
    OBVIOUS
  <2>2. isFill => x \in Fill /\ x.kind = "entry" /\ TrueFill(x)'
    BY <1>1, <1>2, <2>1, SameDeals DEF TrueFill
  <2>3. \/ queue' = queue
        \/ x \in Fill /\ x.kind = "entry" /\ TrueFill(x)' /\ queue' = Append(queue, x)
    BY <1>u, <2>1, <2>2 DEF Pushes
  <2>4. queue' \in Seq(Fill \union Cancel) /\ QueueTrue'
    BY <1>t, <1>1, <2>3, QueueKept
  <2>5. \A d \in Closes : HasOrder(d) => HasOrder(d)'
    BY <1>u DEF HasOrder
  <2>6. StayTracked
    BY <1>u, <2>5 DEF StayTracked, Alive
  <2>7. OwnPushesTracked'
    BY <1>t, <2>3, <2>6, PushesKept
  <2>8. /\ wire' \in [Closes -> {"none", "sent", "working", "over"}]
        /\ ans' \in [Closes -> Word \union Fill] /\ oc' \in [Closes -> CloseOf]
        /\ WiresAlive' /\ OneByOne'
    BY <1>u, <1>t DEF Typed, Tracked, WiresAlive, OneByOne, Alive
  <2>9. /\ ClaimsTrue' /\ OwnClaimsTracked'
        /\ \A d \in Closes : oc'[d].phase # "sent" => \A i \in DOMAIN oc'[d].claims : oc'[d].claims[i].event = 0
    BY <1>u, <1>1, <2>5, <2>8, ClaimsStill
  <2> QED BY <2>4, <2>7, <2>8, <2>9
<1>7. JournalTyped' /\ EffectsTyped'
  <2>1. JournalTyped'
    BY <1>t, <1>u DEF Typed, JournalTyped, EntryVolume
  <2>2. isFill => e \in EffectOf
    BY <1>2 DEF EffectOf, EntryVolume, Fill
  <2>3. EffectsTyped'
    <3> HIDE DEF e
    <3> QED BY <1>t, <1>u, <2>2, FS_AddElement DEF Typed, EffectsTyped
  <2> QED BY <2>1, <2>3
<1>8. VenueTyped' /\ AnswersTrue'
  BY <1>t, <1>u DEF Typed, Truthful, venueVars, VenueTyped, AnswersTrue, TrueFill, IsOf, Deals
<1>9. Typed'
  <2>1. oc' \in [Closes -> CloseOf] /\ dispatched' \in BOOLEAN /\ booked' \in Nat /\ seen' \in SUBSET Nat
    BY <1>t, <1>u DEF Typed
  <2> QED BY <1>3, <1>5, <1>6, <1>7, <1>8, <2>1 DEF Typed
<1>10. Truthful'
  BY <1>4, <1>5, <1>6, <1>8 DEF Truthful
<1>11. HeldIsAwaited'
  BY <1>5, <1>6 DEF HeldIsAwaited
<1> QED BY <1>6, <1>9, <1>10, <1>11 DEF IInv, Tracked

\* A close in dispatch is the last one sent: its end leaves the others in order.
LEMMA LeavesDispatch ==
  ASSUME IInv, NEW c \in Closes, oc[c].phase = "sent",
         \A d \in Closes : d # c => oc'[d] = oc[d], oc'[c].phase \notin {"idle", "sent"}
  PROVE  OneByOne'
<1>1. OneByOne /\ c \in Nat
  BY ClosesFinite DEF IInv, Tracked
<1>2. ASSUME NEW b \in Closes, oc'[b].phase = "sent" PROVE oc'[b].live
  BY <1>1, <1>2 DEF OneByOne
<1>3. ASSUME NEW b \in Closes, oc'[b].phase \in {"idle", "sent"}, NEW d \in Closes, d > b
      PROVE  oc'[d].phase = "idle"
  <2>1. b # c /\ oc[b].phase \in {"idle", "sent"}
    BY <1>3
  <2>2. oc[d].phase = "idle"
    BY <1>1, <1>3, <2>1 DEF OneByOne
  <2> QED BY <2>2
<1> QED BY <1>2, <1>3 DEF OneByOne

\* A close that leaves dispatch has some of its claims, bare of events.
LEMMA ClaimsLeave ==
  ASSUME IInv, deals' = deals, NEW c \in Closes, oc[c].phase = "sent",
         \A d \in Closes : d # c => oc'[d] = oc[d], oc'[c].phase # "sent",
         \A i \in DOMAIN oc'[c].claims :
           /\ oc'[c].claims[i].event = 0
           /\ \E j \in DOMAIN oc[c].claims :
                /\ oc'[c].claims[i].deal = oc[c].claims[j].deal
                /\ oc'[c].claims[i].own = oc[c].claims[j].own
                /\ oc'[c].claims[i].order = oc[c].claims[j].order
                /\ oc'[c].claims[i].venue = oc[c].claims[j].venue,
         \A d \in Closes : HasOrder(d) => HasOrder(d)'
  PROVE  /\ ClaimsTrue' /\ OwnClaimsTracked'
         /\ \A d \in Closes : oc'[d].phase # "sent" => \A i \in DOMAIN oc'[d].claims : oc'[d].claims[i].event = 0
<1>1. ClaimsTrue /\ OwnClaimsTracked /\ HeldIsAwaited
  BY DEF IInv, Truthful, Tracked
<1>2. ASSUME NEW d \in Closes, NEW i \in DOMAIN oc'[d].claims
      PROVE  \E j \in DOMAIN oc[d].claims :
                /\ oc'[d].claims[i].deal = oc[d].claims[j].deal
                /\ oc'[d].claims[i].own = oc[d].claims[j].own
                /\ oc'[d].claims[i].order = oc[d].claims[j].order
                /\ oc'[d].claims[i].venue = oc[d].claims[j].venue
  <2>1. CASE d = c
    BY <2>1
  <2>2. CASE d # c
    BY <2>2
  <2> QED BY <2>1, <2>2
<1>3. ClaimsTrue'
  <2> SUFFICES ASSUME NEW d \in Closes, NEW i \in DOMAIN oc'[d].claims PROVE TrueClaim(oc[d].claims[i])'
    BY DEF ClaimsTrue
  <2>1. PICK j \in DOMAIN oc[d].claims :
                /\ oc'[d].claims[i].deal = oc[d].claims[j].deal
                /\ oc'[d].claims[i].own = oc[d].claims[j].own
                /\ oc'[d].claims[i].order = oc[d].claims[j].order
                /\ oc'[d].claims[i].venue = oc[d].claims[j].venue
    BY <1>2
  <2>2. TrueClaim(oc[d].claims[j])
    BY <1>1 DEF ClaimsTrue
  <2> QED BY <2>1, <2>2 DEF TrueClaim, IsOf, Deals
<1>4. OwnClaimsTracked'
  <2> SUFFICES ASSUME NEW e \in Closes, NEW i \in DOMAIN oc'[e].claims, oc'[e].claims[i].own
               PROVE  /\ HasOrder(oc[e].claims[i].order)'
                      /\ oc'[e].phase = "sent" => oc'[e].claims[i].order = e
    BY DEF OwnClaimsTracked
  <2>1. PICK j \in DOMAIN oc[e].claims :
                /\ oc'[e].claims[i].own = oc[e].claims[j].own
                /\ oc'[e].claims[i].order = oc[e].claims[j].order
    BY <1>2
  <2>2. PICK d \in Closes : d = oc[e].claims[j].order
    BY <1>1, <2>1 DEF ClaimsTrue, TrueClaim
  <2>3. HasOrder(d) /\ (oc[e].phase = "sent" => d = e)
    BY <1>1, <2>1, <2>2 DEF OwnClaimsTracked
  <2>4. oc'[e].phase = "sent" => oc[e].phase = "sent"
    BY <1>1
  <2>5. HasOrder(d)'
    BY <2>3
  <2> QED BY <2>1, <2>2, <2>3, <2>4, <2>5 DEF HasOrder
<1>5. ASSUME NEW d \in Closes, oc'[d].phase # "sent", NEW i \in DOMAIN oc'[d].claims
      PROVE  oc'[d].claims[i].event = 0
  <2>1. CASE d = c
    BY <2>1
  <2>2. CASE d # c
    BY <1>1, <1>5, <2>2 DEF HeldIsAwaited
  <2> QED BY <2>1, <2>2
<1> QED BY <1>3, <1>4, <1>5

\* The answer to a close is lost.
LEMMA TimeoutStep ==
  ASSUME IInv, NEW c \in Closes, Timeout(c) PROVE IInv'
<1> DEFINE s == oc[c].claims
           t == Cleared(s)
           foreign == {s[i].deal : i \in {j \in DOMAIN s : ~s[j].venue}}
           r == [oc[c] EXCEPT !.phase = "unknown", !.claims = t]
<1>t. /\ Typed /\ Truthful /\ HeldIsAwaited /\ oc \in [Closes -> CloseOf] /\ oc[c] \in CloseOf
      /\ s \in Seq(ClaimOf) /\ ClaimsTrue /\ WiresAlive /\ OneByOne
  BY DEF IInv, Typed, Truthful, Tracked, CloseOf
<1>u. /\ oc[c].phase = "sent" /\ ans[c].kind = "none"
      /\ oc' = [oc EXCEPT ![c].phase = "unknown", ![c].claims = t]
      /\ audited' = audited \cup foreign /\ Release(s, NoCuts)
      /\ UNCHANGED <<venueVars, wire, ans, queue, seen, effects, verdicts, entry, pending, reported>>
  BY Zenon DEF Timeout
<1>1. SameClaims(t, s)
  BY <1>t, ClearedSame
<1> HIDE DEF t
<1>2. oc' = [oc EXCEPT ![c] = r]
  BY <1>u
<1>3. r \in CloseOf /\ r.phase = "unknown" /\ r.live = oc[c].live /\ r.claims = t
  <2>1. t \in Seq(ClaimOf)
    BY <1>1 DEF SameClaims
  <2> HIDE DEF s
  <2> QED BY <1>t, <2>1 DEF CloseOf
<1> HIDE DEF r
<1>4. oc' \in [Closes -> CloseOf] /\ oc'[c] = r /\ \A d \in Closes : d # c => oc'[d] = oc[d]
  BY <1>t, <1>2, <1>3
<1>5. deals' = deals /\ VenueStill
  BY <1>u DEF venueVars, VenueStill
<1>6. \A d \in Closes : HasOrder(d) => HasOrder(d)'
  <2> SUFFICES ASSUME NEW d \in Closes, HasOrder(d) PROVE HasOrder(d)'
    OBVIOUS
  <2>1. oc'[d].phase \notin {"idle", "refused"}
    BY <1>3, <1>4 DEF HasOrder
  <2> QED BY <1>u, <2>1 DEF HasOrder
<1>7. oc[c].live
  BY <1>t, <1>u DEF OneByOne
<1>8. StayTracked
  <2> SUFFICES ASSUME NEW d \in Closes, Alive(d), HasOrder(d) PROVE Alive(d)' /\ HasOrder(d)'
    BY DEF StayTracked
  <2>1. CASE d = c
    BY <1>3, <1>4, <1>6, <1>7, <2>1 DEF Alive
  <2>2. CASE d # c
    BY <1>4, <1>6, <2>2 DEF Alive
  <2> QED BY <2>1, <2>2
<1>9. OwnPushesTracked'
  BY <1>u, <1>8, QueueStill
<1>10. WiresAlive'
  <2> SUFFICES ASSUME NEW d \in Closes
               PROVE  /\ wire[d] \in {"sent", "working"} => Alive(d)'
                      /\ wire[d] = "sent" => oc'[d].phase \in {"sent", "unknown"} /\ ans[d].kind = "none"
                      /\ wire[d] = "working" => ans[d].kind # "refused"
                      /\ ans[d].kind # "none" => oc'[d].phase = "sent"
                      /\ oc'[d].phase # "idle" => wire[d] # "none"
    BY <1>u DEF WiresAlive, Alive
  <2>1. CASE d # c
    BY <1>t, <1>4, <2>1 DEF WiresAlive, Alive
  <2>2. CASE d = c
    BY <1>t, <1>u, <1>3, <1>4, <1>7, <2>2 DEF WiresAlive, Alive
  <2> QED BY <2>1, <2>2
<1>11. OneByOne'
  BY <1>u, <1>3, <1>4, LeavesDispatch
<1>12. /\ ClaimsTrue' /\ OwnClaimsTracked'
       /\ \A d \in Closes : oc'[d].phase # "sent" => \A i \in DOMAIN oc'[d].claims : oc'[d].claims[i].event = 0
  <2>1. oc'[c].phase # "sent" /\ oc'[c].claims = t
    BY <1>3, <1>4
  <2>2. \A i \in DOMAIN t :
           /\ t[i].event = 0
           /\ \E j \in DOMAIN s : /\ t[i].deal = s[j].deal /\ t[i].own = s[j].own
                                  /\ t[i].order = s[j].order /\ t[i].venue = s[j].venue
    BY <1>1 DEF SameClaims
  <2>3. \A i \in DOMAIN oc'[c].claims :
           /\ oc'[c].claims[i].event = 0
           /\ \E j \in DOMAIN oc[c].claims :
                /\ oc'[c].claims[i].deal = oc[c].claims[j].deal
                /\ oc'[c].claims[i].own = oc[c].claims[j].own
                /\ oc'[c].claims[i].order = oc[c].claims[j].order
                /\ oc'[c].claims[i].venue = oc[c].claims[j].venue
    BY <2>1, <2>2
  <2> QED BY <1>u, <1>4, <1>5, <1>6, <2>1, <2>3, ClaimsLeave
<1>13. HeldIsAwaited'
  BY <1>t, <1>u, <1>12 DEF HeldIsAwaited
<1>14. \A i \in DOMAIN s : s[i].deal \in Deals /\ s[i].deal \in Nat
  BY <1>t, DealsAre DEF ClaimsTrue, TrueClaim, IsOf
<1>15. booked' \in Nat /\ JournalTyped' /\ dispatched' \in BOOLEAN
  <2>1. NoCuts \in [Deals -> Nat]
    BY <1>t, DealsAre DEF NoCuts
  <2> HIDE DEF s
  <2> QED BY <1>t, <1>u, <1>14, <2>1, ReleaseTyped
<1>16. foreign \subseteq Deals /\ foreign \subseteq Nat
  BY <1>14
<1> HIDE DEF foreign, s
<1>17. VerdictsTrue' /\ NotesTrue' /\ ReportsForeign' /\ ReportsTyped'
  BY <1>t, <1>u, <1>5, <1>16 DEF Typed, Truthful, VerdictsTrue, NotesTrue, ReportsForeign, ReportsTyped,
                                 AllExt, IsOf, Deals
<1>18. Typed'
  <2>1. EffectsTyped' /\ seen' \in SUBSET Nat /\ verdicts' \in SUBSET VerdictOf
    BY <1>t, <1>u DEF Typed, EffectsTyped
  <2> QED BY <1>u, <1>4, <1>5, <1>15, <1>17, <2>1, MessagesKept, SameEntry DEF Typed
<1>19. Truthful'
  BY <1>u, <1>5, <1>12, <1>17, MessagesKept, SameEntry DEF Truthful
<1> QED BY <1>9, <1>10, <1>11, <1>12, <1>13, <1>18, <1>19 DEF IInv, Tracked

\* The answer to a close comes: every claim on it is judged again, with its order known.
LEMMA AnswerStep ==
  ASSUME IInv, NEW c \in Closes, Answer(c) PROVE IInv'
<1> DEFINE s == oc[c].claims
           t == Cleared(s)
           own == OwnClaims(c, t)
           mm == ans[c]
<1>1. PICK m : m = mm
  OBVIOUS
<1> DEFINE q == IF m.kind = "refused" THEN 0 ELSE c
           ahead == Ahead(s, m)
           judged == Rejudge(s, q, ahead)
           e == [delta |-> -m.qty, counted |-> FALSE, at |-> m.at, deal |-> m.deal]
           gone == [Idle EXCEPT !.phase = "refused"]
           r == IF m.kind = "refused" THEN gone ELSE Settled(c, m, own)
<1>t. /\ Typed /\ Truthful /\ HeldIsAwaited /\ oc \in [Closes -> CloseOf] /\ oc[c] \in CloseOf
      /\ s \in Seq(ClaimOf) /\ ClaimsTrue /\ WiresAlive /\ OneByOne /\ OwnClaimsTracked /\ NotesTrue
      /\ ReportsForeign /\ AnswersTrue /\ QueueTrue /\ OwnPushesTracked
      /\ ans \in [Closes -> Word \union Fill]
  BY DEF IInv, Typed, Truthful, Tracked, CloseOf
<1>u. /\ oc[c].phase = "sent" /\ m.kind # "none"
      /\ IF m.kind = "own" THEN Pushes(m) ELSE UNCHANGED queue
      /\ ans' = [ans EXCEPT ![c] = NoAnswer]
      /\ oc' = [oc EXCEPT ![c] = r]
      /\ pending' = judged.queued /\ audited' = judged.logged
      /\ Release(s, Cuts(judged))
      /\ effects' = IF m.kind = "own" /\ rows /\ filled - retired' # 0 /\ m.deal \notin seen
                    THEN effects \cup {e} ELSE effects
      /\ UNCHANGED <<venueVars, wire, seen, verdicts, entry, reported>>
  BY Zenon, <1>1 DEF Answer, Answered, Settle
<1>2. deals' = deals /\ Grew
  BY <1>u DEF venueVars, Grew
<1>3. m \in Word \union Fill /\ (m.kind = "own" => m \in Fill /\ TrueFill(m) /\ m.order = c)
  BY <1>t, <1>1 DEF AnswersTrue, Word, Fill, Kinds
<1>4. /\ wire[c] \in {"working", "over"} /\ (m.kind # "refused" <=> HasOrder(c))
      /\ (m.kind = "refused" => wire[c] = "over")
  BY <1>t, <1>u, <1>1 DEF WiresAlive, HasOrder, Typed
<1>5. ASSUME NEW i \in DOMAIN s PROVE TrueClaim(s[i]) /\ (s[i].own => s[i].order = q)
  <2>1. TrueClaim(s[i]) /\ (s[i].own => HasOrder(s[i].order) /\ s[i].order = c)
    BY <1>t, <1>u DEF ClaimsTrue, OwnClaimsTracked
  <2>2. s[i].own => HasOrder(c)
    BY <2>1
  <2> QED BY <1>4, <2>1, <2>2
<1>6. ahead \in Fill \union {NoAnswer}
  BY <1>3 DEF Ahead
<1>7. judged \in RejudgedOf
  <2> HIDE DEF s, q, ahead
  <2> QED BY <1>t, <1>5, <1>6, RejudgeTyped
<1>8. SameClaims(t, s)
  BY <1>t, ClearedSame
<1> HIDE DEF t, mm, ahead
<1>9. own \in Seq(OwnOf(c, t)) /\ t \in Seq(ClaimOf)
  BY <1>8, OwnClaimsAre DEF SameClaims
<1>10. ASSUME NEW i \in DOMAIN own PROVE \E j \in DOMAIN t : own[i] = t[j]
  <2>1. own[i] \in OwnOf(c, t)
    BY <1>9
  <2> QED BY <2>1 DEF OwnOf
<1>11. own \in Seq(ClaimOf)
  <2>1. OwnOf(c, t) \subseteq ClaimOf
    BY <1>9 DEF OwnOf
  <2> QED BY <1>9, <2>1
<1> HIDE DEF own
<1>12. gone \in CloseOf /\ gone.phase = "refused" /\ gone.claims = <<>>
  <2>1. <<>> \in Seq(ClaimOf)
    OBVIOUS
  <2> QED BY <2>1 DEF Idle, CloseOf
<1> HIDE DEF gone
<1>13. /\ r \in CloseOf /\ (m.kind = "refused" => r.phase = "refused" /\ r.claims = <<>>)
       /\ (m.kind # "refused" => r.phase = "named" /\ r.claims = own)
  BY <1>t, <1>3, <1>11, <1>12, SettledTyped
<1> HIDE DEF r
<1>14. /\ oc' \in [Closes -> CloseOf] /\ oc'[c] = r /\ \A d \in Closes : d # c => oc'[d] = oc[d]
       /\ ans' \in [Closes -> Word \union Fill] /\ ans'[c].kind = "none"
       /\ \A d \in Closes : d # c => ans'[d] = ans[d]
  BY <1>t, <1>u, <1>13 DEF NoAnswer, Word
<1>15. \A d \in Closes : HasOrder(d) => HasOrder(d)'
  <2> SUFFICES ASSUME NEW d \in Closes, HasOrder(d) PROVE HasOrder(d)'
    OBVIOUS
  <2>1. oc'[d].phase \notin {"idle", "refused"} /\ ans'[d].kind # "refused"
    BY <1>4, <1>13, <1>14 DEF HasOrder
  <2> QED BY <1>u, <2>1 DEF HasOrder
<1>16. m.kind # "refused" => Alive(c)' /\ HasOrder(c)'
  BY <1>4, <1>13, <1>14, <1>15 DEF Alive
<1>17. StayTracked
  <2> SUFFICES ASSUME NEW d \in Closes, Alive(d), HasOrder(d) PROVE Alive(d)' /\ HasOrder(d)'
    BY DEF StayTracked
  <2>1. CASE d = c
    BY <1>4, <1>16, <2>1
  <2>2. CASE d # c
    BY <1>14, <1>15, <2>2 DEF Alive
  <2> QED BY <2>1, <2>2
<1>18. queue' \in Seq(Fill \union Cancel) /\ QueueTrue' /\ OwnPushesTracked'
  <2>1. m.kind = "own" => TrueFill(m)'
    BY <1>2, <1>3, SameDeals DEF TrueFill
  <2>2. \/ queue' = queue
        \/ m \in Fill \union Cancel /\ queue' = Append(queue, m) /\ m.kind = "own"
    BY <1>u, <1>3 DEF Pushes
  <2>3. queue' \in Seq(Fill \union Cancel) /\ QueueTrue'
    BY <1>t, <1>2, <2>1, <2>2, QueueKept
  <2>4. m.kind = "own" => \E b \in Closes : m.order = b /\ Alive(b)' /\ HasOrder(b)'
    BY <1>3, <1>16
  <2>5. OwnPushesTracked'
    BY <1>t, <1>17, <2>2, <2>4, PushesKept
  <2> QED BY <2>3, <2>5
<1>19. WiresAlive'
  <2> SUFFICES ASSUME NEW d \in Closes
               PROVE  /\ wire[d] \in {"sent", "working"} => Alive(d)'
                      /\ wire[d] = "sent" => oc'[d].phase \in {"sent", "unknown"} /\ ans'[d].kind = "none"
                      /\ wire[d] = "working" => ans'[d].kind # "refused"
                      /\ ans'[d].kind # "none" => oc'[d].phase = "sent"
                      /\ oc'[d].phase # "idle" => wire[d] # "none"
    BY <1>u DEF WiresAlive, Alive
  <2>1. CASE d # c
    BY <1>t, <1>14, <2>1 DEF WiresAlive, Alive
  <2>2. CASE d = c
    BY <1>4, <1>14, <1>16, <2>2
  <2> QED BY <2>1, <2>2
<1>20. oc'[c].phase \notin {"idle", "sent"}
  BY <1>13, <1>14
<1>21. OneByOne'
  BY <1>u, <1>14, <1>20, LeavesDispatch
<1>22. /\ ClaimsTrue' /\ OwnClaimsTracked'
       /\ \A d \in Closes : oc'[d].phase # "sent" => \A i \in DOMAIN oc'[d].claims : oc'[d].claims[i].event = 0
  <2>1. ASSUME NEW i \in DOMAIN oc'[c].claims
        PROVE  /\ oc'[c].claims[i].event = 0
               /\ \E j \in DOMAIN oc[c].claims :
                    /\ oc'[c].claims[i].deal = oc[c].claims[j].deal
                    /\ oc'[c].claims[i].own = oc[c].claims[j].own
                    /\ oc'[c].claims[i].order = oc[c].claims[j].order
                    /\ oc'[c].claims[i].venue = oc[c].claims[j].venue
    <3>1. oc'[c].claims = own
      <4>1. CASE m.kind = "refused"
        BY <1>13, <1>14, <2>1, <4>1
      <4> QED BY <1>13, <1>14, <4>1
    <3>2. PICK j \in DOMAIN t : own[i] = t[j]
      BY <1>10, <2>1, <3>1
    <3>3. /\ j \in DOMAIN s /\ t[j].event = 0 /\ t[j].deal = s[j].deal /\ t[j].own = s[j].own
          /\ t[j].order = s[j].order /\ t[j].venue = s[j].venue
      BY <1>8 DEF SameClaims
    <3> QED BY <3>1, <3>2, <3>3
  <2> QED BY <1>u, <1>2, <1>14, <1>15, <1>20, <2>1, ClaimsLeave
<1>23. HeldIsAwaited'
  BY <1>t, <1>u, <1>22 DEF HeldIsAwaited
<1>24. booked' \in Nat /\ JournalTyped' /\ dispatched' \in BOOLEAN
  <2>1. \A i \in DOMAIN s : s[i].deal \in Deals
    BY <1>5 DEF TrueClaim, IsOf
  <2> DEFINE cuts == Cuts(judged)
  <2>2. cuts \in [Deals -> Nat]
    BY <1>t, <1>7, CutsTyped
  <2>3. Release(s, cuts)
    BY <1>u
  <2> HIDE DEF s, cuts
  <2> QED BY <1>t, <2>1, <2>2, <2>3, ReleaseTyped
<1>25. VerdictsTrue' /\ NotesTrue' /\ ReportsForeign' /\ ReportsTyped'
  <2>1. pending' \in SUBSET Nat /\ AllExt(pending') /\ audited' \in SUBSET Deals
    <3> HIDE DEF judged
    <3> QED BY <1>u, <1>7 DEF RejudgedOf
  <2>2. Deals \subseteq Nat /\ Deals' = Deals
    BY <1>t, <1>2, DealsAre DEF Deals
  <2>3. VerdictsTrue'
    BY <1>t, <1>u, <1>2 DEF Truthful, VerdictsTrue, IsOf, Deals
  <2>4. NotesTrue' /\ ReportsTyped'
    BY <1>t, <1>u, <2>1, <2>2 DEF NotesTrue, Typed, ReportsTyped
  <2>5. ReportsForeign'
    BY <1>t, <1>u, <1>2, <2>1 DEF ReportsForeign, AllExt, IsOf, Deals
  <2> QED BY <2>3, <2>4, <2>5
<1>26. EffectsTyped'
  <2>1. m.kind = "own" => e \in EffectOf
    BY <1>3 DEF EffectOf, Fill
  <2> HIDE DEF e
  <2> QED BY <1>t, <1>u, <2>1, FS_AddElement DEF Typed, EffectsTyped
<1>27. AnswersTrue'
  <2> SUFFICES ASSUME NEW d \in Closes, ans'[d].kind \in Kinds
               PROVE  TrueFill(ans[d])' /\ ans'[d].kind = "own" /\ ans'[d].order = d
    BY DEF AnswersTrue
  <2>1. d # c /\ ans'[d] = ans[d]
    BY <1>14 DEF Kinds
  <2> QED BY <1>t, <1>2, <2>1 DEF AnswersTrue, TrueFill, IsOf, Deals
<1>28. Typed'
  <2>1. seen' \in SUBSET Nat /\ verdicts' \in SUBSET VerdictOf /\ VenueTyped'
        /\ wire' \in [Closes -> {"none", "sent", "working", "over"}]
    BY <1>t, <1>u DEF Typed, venueVars, VenueTyped
  <2> QED BY <1>u, <1>2, <1>14, <1>18, <1>24, <1>25, <1>26, <2>1, SameEntry DEF Typed
<1>29. Truthful'
  BY <1>u, <1>2, <1>18, <1>22, <1>25, <1>27, SameEntry DEF Truthful
<1> QED BY <1>18, <1>19, <1>21, <1>22, <1>23, <1>28, <1>29 DEF IInv, Tracked

-----------------------------------------------------------------------------
(* The stream takes a message *)

\* What the judgement says of whose close a fill is, and who keeps the claim.
LEMMA JudgeSays ==
  ASSUME NEW m
  PROVE  /\ Judge(m).who = Origin(m).who
         /\ Judge(m).waits => Origin(m).who = "external" /\ InFlight > 0
         /\ Judge(m).holder = IF Origin(m).who = "venue" THEN IF rows THEN Wildcard ELSE 0
                              ELSE IF Named(m) THEN 0 ELSE Origin(m).close
<1> DEFINE from == Origin(m)
           bounds == ShareBounds(m.at, InFlight)
           settled == ShareBounds(m.at, 0)
           after == IF rows THEN VenueAfter(m, bounds.side) ELSE m.after
           taker == IF Named(m) THEN 0 ELSE from.close
           books == CASE ~rows -> m.qty
                       [] rows /\ from.who = "own" ->
                            Least(Least(m.qty, bounds.high),
                                  IF taker = 0 THEN m.qty ELSE AtLeast0(oc[taker].vol - Claimed(oc[taker])))
                       [] OTHER -> Least(m.qty, Most(AtLeast0(bounds.low - after),
                                            settled.low - VenueAfter(m, settled.side)))
           low == CASE ~rows -> Unknown
                    [] rows /\ from.who = "own" -> bounds.low
                    [] OTHER -> Most(bounds.low, settled.low)
           high == IF rows THEN bounds.high ELSE Unknown
           ambiguous == rows /\ from.who = "external" /\ AtLeast0(bounds.low - after) = 0 /\ bounds.high > after
           took == ~rows \/ AtLeast0(bounds.low - after) > 0
           waits == ambiguous /\ InFlight > 0
           holder == IF from.who = "venue" THEN IF rows THEN Wildcard ELSE 0 ELSE taker
<1>1. Judge(m) = Judged(m, from, bounds, settled, after, taker)
  BY DEF Judge, JudgedFrom
<1> HIDE DEF from, bounds, settled, after, taker
<1>2. Judge(m) = [who |-> from.who, after |-> after, booked |-> books, low |-> low, high |-> high,
                  took |-> took, ambiguous |-> ambiguous,
                  waits |-> waits, holder |-> holder]
  BY Zenon, <1>1 DEF Judged
<1>3. waits => from.who = "external" /\ InFlight > 0
  OBVIOUS
<1> HIDE DEF books, low, high, ambiguous, took, waits, holder
<1>4. Judge(m).who = from.who /\ Judge(m).holder = holder /\ Judge(m).waits = waits
  BY <1>2
<1> QED BY <1>3, <1>4 DEF holder, taker, from

\* A fill on its way, as the queue carries it.
Pushed(m) ==
  /\ m \in Fill /\ m.kind # "entry" /\ TrueFill(m)
  /\ m.kind = "own" => Alive(m.order) /\ HasOrder(m.order)

\* A fill of the run's own is never taken for somebody else's: until its order
\* is known, some close of the run takes every fill.
LEMMA OwnIsClaimed ==
  ASSUME IInv, NEW m, Pushed(m)
  PROVE  Origin(m).who = "external" => m.kind = "ext"
<1> SUFFICES ASSUME Origin(m).who = "external" PROVE m.kind = "ext"
  OBVIOUS
<1>1. m.kind # "venue" /\ ~Named(m) /\ Wildcard = 0
  BY DEF Origin
<1>2. m.kind \in {"own", "ext", "venue"} /\ OneByOne
  BY DEF Pushed, Fill, Kinds, IInv, Tracked
<1>3. ASSUME m.kind = "own" PROVE FALSE
  <2>1. m.order \in Closes /\ Alive(m.order)
    BY <1>3 DEF Pushed, TrueFill
  <2>2. CASE oc[m.order].phase = "named"
    BY <1>1, <1>3, <2>2 DEF Named
  <2>3. CASE oc[m.order].phase # "named"
    <3>1. oc[m.order].phase \in {"sent", "unknown"} /\ oc[m.order].live
      BY <1>2, <2>1, <2>3 DEF Alive, OneByOne
    <3> QED BY <1>1, <2>1, <3>1, WildcardIs
  <2> QED BY <2>2, <2>3
<1> QED BY <1>1, <1>2, <1>3

\* The close that keeps a claim awaits its order; in dispatch it keeps of the
\* run's own fills those of its own order.
LEMMA HolderIs ==
  ASSUME IInv, NEW m, Pushed(m), Judge(m).holder # 0
  PROVE  /\ Judge(m).holder \in Closes
         /\ m.kind = "own" /\ oc[Judge(m).holder].phase = "sent" => m.order = Judge(m).holder
<1>1. Judge(m).holder = Wildcard
  BY JudgeSays DEF Origin
<1>2. Wildcard \in Closes
  BY <1>1, WildcardIs
<1>3. ASSUME m.kind = "own", oc[Wildcard].phase = "sent" PROVE m.order = Wildcard
  <2>1. m.order \in Closes /\ Alive(m.order) /\ OneByOne /\ m.order \in Nat /\ Wildcard \in Nat
    BY <1>2, <1>3, ClosesFinite DEF Pushed, TrueFill, IInv, Tracked
  <2>2. ~Named(m)
    BY <1>3, JudgeSays DEF Named, Origin
  <2>3. oc[m.order].phase \in {"sent", "unknown"} /\ oc[m.order].live
    BY <1>3, <2>1, <2>2 DEF Alive, Named, OneByOne
  <2>4. Wildcard <= m.order
    BY <2>1, <2>3, WildcardIs
  <2>5. ~(m.order > Wildcard)
    BY <1>2, <1>3, <2>1, <2>3 DEF OneByOne
  <2> QED BY <2>1, <2>4, <2>5
<1> QED BY <1>1, <1>2, <1>3

\* Closes that stay in their phases stay in sight.
PhasesKept ==
  /\ wire' = wire /\ ans' = ans /\ oc' \in [Closes -> CloseOf]
  /\ \A c \in Closes : /\ oc'[c].phase = oc[c].phase
                       /\ oc[c].phase # "named" => oc'[c].live = oc[c].live

\* Then none falls out of sight, and they stay in order.
LEMMA PhasesTracked ==
  ASSUME IInv, PhasesKept
  PROVE  /\ \A c \in Closes : HasOrder(c) => HasOrder(c)'
         /\ StayTracked /\ WiresAlive' /\ OneByOne'
<1>t. WiresAlive /\ OneByOne
  BY DEF IInv, Tracked
<1>1. \A c \in Closes : HasOrder(c) => HasOrder(c)'
  BY DEF PhasesKept, HasOrder
<1>2. \A c \in Closes : Alive(c) => Alive(c)'
  BY DEF PhasesKept, Alive
<1>3. WiresAlive'
  <2> SUFFICES ASSUME NEW d \in Closes
               PROVE  /\ wire[d] \in {"sent", "working"} => Alive(d)'
                      /\ wire[d] = "sent" => oc'[d].phase \in {"sent", "unknown"} /\ ans[d].kind = "none"
                      /\ wire[d] = "working" => ans[d].kind # "refused"
                      /\ ans[d].kind # "none" => oc'[d].phase = "sent"
                      /\ oc'[d].phase # "idle" => wire[d] # "none"
    BY DEF WiresAlive, Alive, PhasesKept
  <2> QED BY <1>t, <1>2 DEF WiresAlive, PhasesKept
<1>4. OneByOne'
  <2>1. ASSUME NEW b \in Closes, oc'[b].phase = "sent" PROVE oc'[b].live
    BY <1>t, <2>1 DEF OneByOne, PhasesKept
  <2>2. ASSUME NEW b \in Closes, oc'[b].phase \in {"idle", "sent"}, NEW d \in Closes, d > b
        PROVE  oc'[d].phase = "idle"
    BY <1>t, <2>2 DEF OneByOne, PhasesKept
  <2> QED BY <2>1, <2>2 DEF OneByOne
<1> QED BY <1>1, <1>2, <1>3, <1>4 DEF StayTracked

\* What the run knows after a message is as true and as tracked as before.
Ran ==
  /\ oc \in [Closes -> CloseOf] /\ JournalTyped /\ dispatched \in BOOLEAN
  /\ verdicts \in SUBSET VerdictOf /\ pending \in SUBSET Nat /\ audited \in SUBSET Nat
  /\ entry \in EntryOf /\ booked \in Nat
  /\ ClaimsTrue /\ VerdictsTrue /\ audited \subseteq Deals /\ AllExt(pending) /\ EntryTrue
  /\ WiresAlive /\ OneByOne /\ OwnClaimsTracked /\ HeldIsAwaited

\* The claim of a fill says of it what it was.
LEMMA ClaimIs ==
  ASSUME Typed, NEW m, Pushed(m), NEW j \in JudgementOf, NEW held \in Nat, NEW settles \in BOOLEAN
  PROVE  LET k == [Claim(m, j, held) EXCEPT !.settles = settles]
         IN  /\ k \in ClaimOf /\ TrueClaim(k) /\ k.own = (m.kind = "own") /\ k.order = m.order
             /\ k.event = held
<1>1. /\ m \in Fill /\ m.kind \in {"own", "ext", "venue"} /\ m.order \in Nat /\ IsOf(m.deal, m.kind)
      /\ (m.kind = "own" => m.order \in Closes)
  BY DEF Pushed, Fill, Kinds, TrueFill
<1> DEFINE k == [Claim(m, j, held) EXCEPT !.settles = settles]
<1>2. k = [deal |-> m.deal, order |-> m.order, own |-> m.kind = "own", qty |-> m.qty, at |-> m.at,
           last |-> m.last, low |-> j.low, high |-> j.high, after |-> j.after, booked |-> j.booked,
           venue |-> m.kind = "venue", event |-> held, settles |-> settles]
  BY DEF Claim
<1>3. /\ (m.kind = "own") \in BOOLEAN /\ (m.kind = "venue") \in BOOLEAN /\ j.low \in Int /\ j.high \in Int
      /\ j.after \in Nat /\ j.booked \in Nat /\ m.last \in BOOLEAN /\ m.qty \in Nat /\ m.at \in Nat
      /\ m.deal \in Nat
  BY <1>1 DEF JudgementOf, Fill
<1> DEFINE isOwn == m.kind = "own"
           isVenue == m.kind = "venue"
<1>4. k = [deal |-> m.deal, order |-> m.order, own |-> isOwn, qty |-> m.qty, at |-> m.at,
           last |-> m.last, low |-> j.low, high |-> j.high, after |-> j.after, booked |-> j.booked,
           venue |-> isVenue, event |-> held, settles |-> settles]
      /\ isOwn \in BOOLEAN /\ isVenue \in BOOLEAN
  BY <1>2, <1>3
<1> HIDE DEF k, isOwn, isVenue
<1>5. /\ k \in ClaimOf /\ k.own = isOwn /\ k.venue = isVenue /\ k.order = m.order /\ k.deal = m.deal
      /\ k.event = held
  BY <1>1, <1>3, <1>4 DEF ClaimOf
<1>6. TrueClaim(k)
  <2>1. (k.own <=> m.kind = "own") /\ (k.venue <=> m.kind = "venue")
    BY <1>5 DEF isOwn, isVenue
  <2> QED BY <1>1, <1>5, <2>1 DEF TrueClaim
<1> QED BY <1>5, <1>6 DEF k, isOwn

\* A held close is judged with a verdict of its deal.
LEMMA VerdictIs ==
  ASSUME Typed, NEW m, Pushed(m), NEW net \in NetOf
  PROVE  Verdict(m, net) \in VerdictOf /\ Verdict(m, net).deal = m.deal
<1>1. m.deal \in Nat /\ m.at \in Nat /\ m.qty \in Nat /\ m.after \in Nat
  BY DEF Pushed, Fill
<1>2. net.lo \in Int /\ net.hi \in Int
  BY DEF NetOf
<1> DEFINE after == VenueAfter(m, InFlightBounds(net, InFlight).side)
           waits == InFlight
<1>3. after \in Nat /\ waits \in Nat
  BY <1>1, InFlightNat DEF VenueAfter
<1>4. Verdict(m, net) = [deal |-> m.deal, at |-> m.at, lo |-> net.lo, hi |-> net.hi, after |-> after,
                         qty |-> m.qty, waits |-> waits]
  BY DEF Verdict
<1> HIDE DEF after, waits
<1> QED BY <1>1, <1>2, <1>3, <1>4 DEF VerdictOf

\* A closing fill is booked.
LEMMA CloseBooked ==
  ASSUME IInv, NEW m, Pushed(m), deals' = deals, wire' = wire, ans' = ans, TranslateClose(m)
  PROVE  Ran' /\ StayTracked
<1> DEFINE jj == Judge(m)
<1>1. PICK j : j = jj
  OBVIOUS
<1> DEFINE holds == j.holder # 0 /\ oc[j.holder].phase = "sent"
           dropped == j.booked = 0
           drop == Least(j.booked, Share)
           executed == CountExecuted(oc[m.order], m.deal, m.qty)
           done == [executed EXCEPT !.complete = @ \/ m.last, !.live = @ /\ ~m.last]
           counted == IF Named(m) THEN [oc EXCEPT ![m.order] = done] ELSE oc
           held == IF holds THEN j.booked ELSE 0
           partial == ~Flattens(m) /\ ~dropped
           settles == holds /\ partial /\ j.who = "own"
           kept == [Claim(m, j, held) EXCEPT !.settles = settles]
           v == Verdict(m, NetBounds(m.at))
<1>t. /\ Typed /\ Truthful /\ HeldIsAwaited /\ oc \in [Closes -> CloseOf] /\ ClaimsTrue
      /\ OwnClaimsTracked /\ VerdictsTrue /\ NotesTrue /\ ReportsForeign /\ EntryTrue
      /\ verdicts \in SUBSET VerdictOf /\ entry \in EntryOf /\ ReportsTyped /\ JournalTyped
      /\ dispatched \in BOOLEAN /\ booked \in Nat
  BY DEF IInv, Typed, Truthful, Tracked
<1>m. /\ m \in Fill /\ m.kind # "entry" /\ TrueFill(m) /\ (m.kind = "own" => m.order \in Closes)
      /\ m.deal \in Deals /\ m.deal \in Nat /\ m.qty \in Nat /\ m.last \in BOOLEAN /\ m.at \in Nat
  BY DEF Pushed, TrueFill, IsOf, Fill
<1>j. j \in JudgementOf
  BY <1>1, <1>t, <1>m, JudgeTyped
<1>h. /\ j.holder # 0 => j.holder \in Closes
      /\ j.holder # 0 /\ m.kind = "own" /\ oc[j.holder].phase = "sent" => m.order = j.holder
      /\ j.who = "external" \/ j.waits => m.kind = "ext"
      /\ j.waits => entry.phase = "flight"
  BY <1>1, HolderIs, JudgeSays, OwnIsClaimed DEF InFlight
<1> DEFINE logs == \/ ~rows /\ j.who = "external"
                   \/ j.ambiguous /\ ~j.waits
                   \/ j.holder # 0 /\ j.who # "venue" /\ oc[j.holder].phase = "unknown"
           flat == IF dropped THEN j.after = 0 ELSE Flattens(m)
           Retires == /\ retired' = IF dropped \/ ~rows THEN retired ELSE retired + drop
                      /\ UNCHANGED <<rows, filled>>
                      /\ dispatched' = IF partial /\ j.who = "own" /\ ~holds
                                       THEN StillDispatched(filled - retired', rows) ELSE dispatched
<1>0. BookClose(m, j)
  BY <1>1 DEF TranslateClose
<1>v. /\ oc' = IF j.holder = 0 THEN counted
               ELSE [counted EXCEPT ![j.holder].claims = Append(counted[j.holder].claims, kept)]
      /\ verdicts' = IF j.waits THEN verdicts \cup {v} ELSE verdicts
      /\ pending' = IF rows /\ j.who = "external" /\ j.took /\ ~dropped
                    THEN Report(pending, m.deal) ELSE pending
      /\ audited' = IF logs THEN audited \cup {m.deal} ELSE audited
      /\ IF flat THEN CloseRows ELSE Retires
      /\ booked' = IF holds \/ dropped THEN booked ELSE booked + j.booked
      /\ UNCHANGED entry
  BY Zenon, <1>0 DEF BookClose
<1> HIDE DEF logs, flat, Retires
<1>u. audited' \in {audited, audited \cup {m.deal}} /\ (CloseRows \/ Retires)
  BY <1>v
<1> HIDE DEF jj
<1>2. /\ counted \in [Closes -> CloseOf]
      /\ \A c \in Closes : /\ counted[c].phase = oc[c].phase /\ counted[c].claims = oc[c].claims
                           /\ oc[c].phase # "named" => counted[c].live = oc[c].live
  <2>1. CASE Named(m)
    <3>1. m.order \in Closes /\ oc[m.order].phase = "named" /\ oc[m.order] \in CloseOf
      BY <1>t, <1>m, <2>1 DEF Named
    <3> DEFINE r == executed
               complete == r.complete \/ m.last
               live == r.live /\ ~m.last
               d == [r EXCEPT !.complete = complete, !.live = live]
    <3>2. r \in CloseOf /\ r.phase = "named" /\ r.claims = oc[m.order].claims
      BY <1>m, <3>1, CountTyped
    <3>3. d = done
      OBVIOUS
    <3> HIDE DEF r, executed
    <3>4. complete \in BOOLEAN /\ live \in BOOLEAN
      OBVIOUS
    <3> HIDE DEF complete, live
    <3>5. d \in CloseOf /\ d.phase = "named" /\ d.claims = oc[m.order].claims
      BY <3>2, <3>4 DEF CloseOf
    <3>6. counted = [oc EXCEPT ![m.order] = d]
      BY <2>1, <3>3
    <3> HIDE DEF d, done
    <3> QED BY <1>t, <3>1, <3>5, <3>6
  <2>2. CASE ~Named(m)
    BY <1>t, <2>2
  <2> QED BY <2>1, <2>2
<1> HIDE DEF counted
<1>3. held \in Nat /\ settles \in BOOLEAN /\ (held # 0 => holds)
  BY <1>j DEF JudgementOf
<1>4. kept \in ClaimOf /\ TrueClaim(kept) /\ kept.own = (m.kind = "own") /\ kept.order = m.order /\ kept.event = held
  <2> HIDE DEF held, settles
  <2> QED BY <1>t, <1>j, <1>3, ClaimIs
<1> HIDE DEF kept, held, settles
<1>5. /\ oc' \in [Closes -> CloseOf]
      /\ \A c \in Closes : /\ oc'[c].phase = oc[c].phase
                           /\ oc[c].phase # "named" => oc'[c].live = oc[c].live
                           /\ oc'[c].claims = IF c = j.holder THEN Append(oc[c].claims, kept)
                                              ELSE oc[c].claims
  <2>1. CASE j.holder = 0
    <3>1. \A c \in Closes : c # j.holder
      BY <2>1, ClosesFinite
    <3> QED BY <1>v, <1>2, <2>1, <3>1
  <2>2. CASE j.holder # 0
    <3> DEFINE h == j.holder
               s == Append(counted[h].claims, kept)
               r == [counted[h] EXCEPT !.claims = s]
    <3>1. h \in Closes /\ counted[h] \in CloseOf /\ counted[h].claims = oc[h].claims
          /\ counted[h].claims \in Seq(ClaimOf)
      BY <1>h, <1>2, <2>2 DEF CloseOf
    <3>2. s \in Seq(ClaimOf) /\ s = Append(oc[h].claims, kept)
      BY <1>4, <3>1
    <3>3. oc' = [counted EXCEPT ![h] = r]
      BY <1>v, <2>2
    <3> HIDE DEF s
    <3>4. r \in CloseOf /\ r.phase = counted[h].phase /\ r.live = counted[h].live /\ r.claims = s
      BY <3>1, <3>2 DEF CloseOf
    <3> HIDE DEF r, h
    <3>5. oc' \in [Closes -> CloseOf] /\ oc'[h] = r /\ \A c \in Closes : c # h => oc'[c] = counted[c]
      BY <1>2, <3>1, <3>3, <3>4
    <3>6. ASSUME NEW c \in Closes
          PROVE  /\ oc'[c].phase = oc[c].phase
                 /\ oc[c].phase # "named" => oc'[c].live = oc[c].live
                 /\ oc'[c].claims = IF c = h THEN Append(oc[c].claims, kept) ELSE oc[c].claims
      <4>1. CASE c = h
        BY <1>2, <3>2, <3>4, <3>5, <4>1
      <4>2. CASE c # h
        BY <1>2, <3>5, <4>2
      <4> QED BY <4>1, <4>2
    <3> QED BY <3>5, <3>6 DEF h
  <2> QED BY <2>1, <2>2
<1>6. PhasesKept
  BY <1>5 DEF PhasesKept
<1>7. (\A c \in Closes : HasOrder(c) => HasOrder(c)') /\ StayTracked /\ WiresAlive' /\ OneByOne'
  BY <1>6, PhasesTracked
<1>8. ASSUME NEW c \in Closes, NEW i \in DOMAIN oc'[c].claims
      PROVE  \/ c = j.holder /\ j.holder # 0 /\ oc'[c].claims[i] = kept
             \/ i \in DOMAIN oc[c].claims /\ oc'[c].claims[i] = oc[c].claims[i]
  <2>0. oc[c].claims \in Seq(ClaimOf) /\ c # 0
    BY <1>t, ClosesFinite DEF CloseOf
  <2>1. CASE c = j.holder
    <3> DEFINE s == oc[c].claims
    <3>1. oc'[c].claims = Append(s, kept)
      BY <1>5, <2>1
    <3> HIDE DEF s
    <3>2. s \in Seq(ClaimOf) /\ Len(s) \in Nat
      BY <2>0 DEF s
    <3>3. DOMAIN s = 1 .. Len(s)
      BY <3>2
    <3>4. i \in 1 .. Len(s) + 1
      BY <3>1, <3>2, <1>8
    <3>5. oc'[c].claims[i] = IF i = Len(s) + 1 THEN kept ELSE s[i]
      BY <3>1, <3>2, <3>4
    <3> QED BY <2>0, <2>1, <3>2, <3>3, <3>4, <3>5 DEF s
  <2>2. CASE c # j.holder
    BY <1>5, <1>8, <2>2
  <2> QED BY <2>1, <2>2
<1>9. ClaimsTrue'
  <2> SUFFICES ASSUME NEW c \in Closes, NEW i \in DOMAIN oc'[c].claims PROVE TrueClaim(oc[c].claims[i])'
    BY DEF ClaimsTrue
  <2>1. PICK k : k = oc'[c].claims[i]
    OBVIOUS
  <2>2. TrueClaim(k)
    BY <1>4, <1>8, <1>t, <2>1 DEF ClaimsTrue
  <2> QED BY <2>1, <2>2 DEF TrueClaim, IsOf, Deals
<1>10. OwnClaimsTracked'
  <2> SUFFICES ASSUME NEW c \in Closes, NEW i \in DOMAIN oc'[c].claims, oc'[c].claims[i].own
               PROVE  /\ HasOrder(oc[c].claims[i].order)'
                      /\ oc'[c].phase = "sent" => oc'[c].claims[i].order = c
    BY DEF OwnClaimsTracked
  <2>1. CASE c = j.holder /\ j.holder # 0 /\ oc'[c].claims[i] = kept
    <3>1. m.kind = "own" /\ oc'[c].claims[i].order = m.order
      BY <1>4, <2>1
    <3>2. PICK d \in Closes : d = m.order
      BY <1>m, <3>1
    <3>3. HasOrder(d) /\ (oc[c].phase = "sent" => d = c)
      BY <1>h, <2>1, <3>1, <3>2 DEF Pushed
    <3> QED BY <1>5, <1>7, <3>1, <3>2, <3>3 DEF HasOrder
  <2>2. CASE i \in DOMAIN oc[c].claims /\ oc'[c].claims[i] = oc[c].claims[i]
    <3>1. PICK d \in Closes : d = oc[c].claims[i].order
      BY <1>t, <2>2 DEF ClaimsTrue, TrueClaim
    <3>2. HasOrder(d) /\ (oc[c].phase = "sent" => d = c)
      BY <1>t, <2>2, <3>1 DEF OwnClaimsTracked
    <3> QED BY <1>5, <1>7, <2>2, <3>1, <3>2 DEF HasOrder
  <2> QED BY <1>8, <2>1, <2>2
<1>11. verdicts' \in SUBSET VerdictOf /\ VerdictsTrue'
  <2>1. v \in VerdictOf /\ v.deal = m.deal
    BY <1>t, <1>m, NetTyped, VerdictIs
  <2>2. j.waits => IsOf(m.deal, "ext")
    BY <1>h, <1>m DEF TrueFill
  <2> HIDE DEF v
  <2> QED BY <1>t, <1>v, <2>1, <2>2 DEF VerdictsTrue, IsOf, Deals
<1>12. HeldIsAwaited'
  <2>1. ASSUME NEW c \in Closes, oc'[c].phase # "sent", NEW i \in DOMAIN oc'[c].claims
        PROVE  oc'[c].claims[i].event = 0
    <3>1. oc[c].phase # "sent"
      BY <1>5, <2>1
    <3>2. CASE c = j.holder /\ oc'[c].claims[i] = kept
      BY <1>3, <1>4, <3>1, <3>2
    <3> QED BY <1>8, <1>t, <2>1, <3>1, <3>2 DEF HeldIsAwaited
  <2>2. verdicts' # {} => entry'.phase = "flight"
    BY <1>t, <1>v, <1>h DEF HeldIsAwaited
  <2> QED BY <2>1, <2>2 DEF HeldIsAwaited
<1>13. AllExt(pending') /\ AllExt(pending)' /\ pending' \in SUBSET Nat
  <2>1. j.who = "external" => IsOf(m.deal, "ext")
    BY <1>h, <1>m DEF TrueFill
  <2>2. AllExt(pending') /\ pending' \in SUBSET Nat
    BY <1>t, <1>v, <1>m, <2>1 DEF Report, AllExt, ReportsForeign, ReportsTyped
  <2> QED BY <2>2 DEF AllExt, IsOf, Deals
<1>14. audited' \in SUBSET Nat /\ audited' \subseteq Deals'
  BY <1>t, <1>u, <1>m DEF ReportsTyped, NotesTrue, Deals
<1>15. JournalTyped' /\ dispatched' \in BOOLEAN /\ booked' \in Nat
  <2>1. j.booked \in Nat
    BY <1>j DEF JudgementOf
  <2>2. booked' \in Nat
    <3> HIDE DEF holds
    <3> QED BY <1>t, <1>v, <2>1
  <2>3. CASE CloseRows
    <3>1. rows' = FALSE /\ filled' = 0 /\ retired' = 0 /\ dispatched' = FALSE
      BY <2>3 DEF CloseRows
    <3>2. dispatched' \in BOOLEAN /\ rows' \in BOOLEAN
      BY <3>1
    <3>3. filled' \in Nat /\ retired' \in Nat /\ retired' <= filled'
      BY <3>1
    <3> QED BY <2>2, <3>2, <3>3 DEF JournalTyped
  <2>4. CASE Retires
    <3>1. drop \in Nat /\ retired + drop <= filled
      BY <1>t, <2>1 DEF Least, Share, JournalTyped
    <3>2. /\ retired' \in {retired, retired + drop} /\ rows' = rows /\ filled' = filled
          /\ dispatched' \in {dispatched, StillDispatched(filled - retired', rows)}
      <4> HIDE DEF drop, holds, dropped, partial
      <4> QED BY <2>4 DEF Retires
    <3>3. JournalTyped'
      <4> HIDE DEF drop
      <4> QED BY <1>t, <3>1, <3>2 DEF JournalTyped
    <3>4. StillDispatched(filled - retired', rows) \in BOOLEAN
      BY <1>t DEF StillDispatched, JournalTyped
    <3> QED BY <1>t, <2>2, <3>2, <3>3, <3>4
  <2> QED BY <1>u, <2>3, <2>4
<1>16. entry' \in EntryOf /\ EntryTrue'
  BY <1>v, SameEntry
<1> QED BY <1>5, <1>7, <1>9, <1>10, <1>11, <1>12, <1>13, <1>14, <1>15, <1>16 DEF Ran

\* Where the closes and the verdicts stay, what was known of them does.
LEMMA ClosesKept ==
  ASSUME IInv, deals' = deals, wire' = wire, ans' = ans, oc' = oc, verdicts' = verdicts,
         pending' = pending, audited' = audited, entry'.phase = entry.phase
  PROVE  /\ ClaimsTrue' /\ VerdictsTrue' /\ audited' \subseteq Deals' /\ AllExt(pending)'
         /\ WiresAlive' /\ OneByOne' /\ OwnClaimsTracked' /\ HeldIsAwaited' /\ StayTracked
         /\ oc' \in [Closes -> CloseOf] /\ verdicts' \in SUBSET VerdictOf
         /\ pending' \in SUBSET Nat /\ audited' \in SUBSET Nat
<1>t. /\ Typed /\ Truthful /\ HeldIsAwaited
  BY DEF IInv
<1>1. PhasesKept /\ oc' \in [Closes -> CloseOf]
  BY <1>t DEF PhasesKept, Typed
<1>2. /\ \A c \in Closes : HasOrder(c) => HasOrder(c)'
      /\ StayTracked /\ WiresAlive' /\ OneByOne'
  BY <1>1, PhasesTracked
<1>3. ClaimsTrue' /\ OwnClaimsTracked'
  BY <1>1, <1>2, ClaimsStill
<1>4. HeldIsAwaited'
  BY <1>t DEF HeldIsAwaited
<1>5. VerdictsTrue' /\ audited' \subseteq Deals' /\ AllExt(pending)'
  BY <1>t DEF Truthful, VerdictsTrue, NotesTrue, ReportsForeign, AllExt, IsOf, Deals
<1> QED BY <1>t, <1>1, <1>2, <1>3, <1>4, <1>5 DEF Typed, ReportsTyped

\* The entry's fill is counted by its row.
LEMMA EntryCounted ==
  ASSUME IInv, NEW m, deals' = deals, wire' = wire, ans' = ans, TranslateEntry(m)
  PROVE  Ran' /\ StayTracked
<1>t. Typed /\ Truthful /\ entry \in EntryOf /\ JournalTyped /\ EntryTrue
  BY DEF IInv, Typed, Truthful
<1>u. /\ entry' = [entry EXCEPT !.count = EntryVolume]
      /\ filled' = filled + (EntryVolume - entry.count) /\ rows' = TRUE
      /\ UNCHANGED <<retired, oc, verdicts, pending, audited, dispatched, booked>>
  BY DEF TranslateEntry
<1>1. /\ entry' \in EntryOf /\ entry'.phase = entry.phase /\ entry'.answer = entry.answer
      /\ EntryVolume - entry.count \in Nat
  BY <1>t, <1>u DEF EntryOf, EntryVolume
<1>2. EntryTrue'
  BY <1>t, <1>1 DEF EntryTrue, TrueFill, IsOf, Deals
<1>3. JournalTyped'
  <2>1. rows' \in BOOLEAN
    BY <1>u
  <2>2. PICK n \in Nat : n = EntryVolume - entry.count
    BY <1>1
  <2>3. filled' \in Nat /\ retired' \in Nat /\ retired' <= filled'
    BY <1>t, <1>u, <2>2 DEF JournalTyped
  <2> QED BY <2>1, <2>3 DEF JournalTyped
<1>4. dispatched' \in BOOLEAN /\ booked' \in Nat
  BY <1>t, <1>u DEF Typed
<1> QED BY <1>u, <1>1, <1>2, <1>3, <1>4, ClosesKept DEF Ran

\* A fill of another's order that the run does not follow changes nothing.
LEMMA NothingTranslated ==
  ASSUME IInv, deals' = deals, wire' = wire, ans' = ans,
         UNCHANGED <<journalVars, oc, dispatched, verdicts, entry, pending, audited, booked>>
  PROVE  Ran' /\ StayTracked
<1>1. JournalTyped' /\ dispatched' \in BOOLEAN /\ booked' \in Nat
  BY DEF IInv, Typed, JournalTyped, journalVars
<1>2. entry' \in EntryOf /\ EntryTrue' /\ entry'.phase = entry.phase
  BY SameEntry
<1> QED BY <1>1, <1>2, ClosesKept DEF Ran

\* The end of a close's order is noted.
LEMMA CancelTranslated ==
  ASSUME IInv, NEW m \in Cancel, deals' = deals, wire' = wire, ans' = ans, TranslateCancel(m)
  PROVE  Ran' /\ StayTracked
<1>t. Typed /\ Truthful /\ HeldIsAwaited /\ oc \in [Closes -> CloseOf]
  BY DEF IInv, Typed
<1> DEFINE c == m.order
           complete == oc[c].complete \/ oc[c].phase = "named"
           r == [oc[c] EXCEPT !.complete = complete]
<1>u. /\ oc' = [oc EXCEPT ![c].complete = complete]
      /\ UNCHANGED <<journalVars, dispatched, seen, effects, verdicts, entry, pending, audited, booked>>
  BY DEF TranslateCancel
<1>1. c \in Closes /\ oc[c] \in CloseOf /\ complete \in BOOLEAN
  BY <1>t DEF Cancel
<1>2. oc' = [oc EXCEPT ![c] = r]
  BY <1>u
<1> HIDE DEF c, complete
<1>3. r \in CloseOf /\ r.phase = oc[c].phase /\ r.live = oc[c].live /\ r.claims = oc[c].claims
  BY <1>1 DEF CloseOf
<1> HIDE DEF r
<1>4. /\ oc' \in [Closes -> CloseOf]
      /\ \A d \in Closes : /\ oc'[d].phase = oc[d].phase /\ oc'[d].live = oc[d].live
                           /\ oc'[d].claims = oc[d].claims
  <2>1. oc' \in [Closes -> CloseOf] /\ oc'[c] = r /\ \A d \in Closes : d # c => oc'[d] = oc[d]
    BY <1>t, <1>1, <1>2, <1>3
  <2>2. ASSUME NEW d \in Closes
        PROVE  /\ oc'[d].phase = oc[d].phase /\ oc'[d].live = oc[d].live
               /\ oc'[d].claims = oc[d].claims
    <3>1. CASE d = c
      BY <1>3, <2>1, <3>1
    <3>2. CASE d # c
      BY <2>1, <3>2
    <3> QED BY <3>1, <3>2
  <2> QED BY <2>1, <2>2
<1>5. PhasesKept
  BY <1>4 DEF PhasesKept
<1>6. /\ \A d \in Closes : HasOrder(d) => HasOrder(d)'
      /\ StayTracked /\ WiresAlive' /\ OneByOne'
  BY <1>5, PhasesTracked
<1>7. /\ ClaimsTrue' /\ OwnClaimsTracked'
      /\ \A d \in Closes : oc'[d].phase # "sent" => \A i \in DOMAIN oc'[d].claims : oc'[d].claims[i].event = 0
  BY <1>4, <1>6, ClaimsStill
<1>8. HeldIsAwaited'
  BY <1>t, <1>u, <1>7 DEF HeldIsAwaited
<1>9. VerdictsTrue' /\ audited' \subseteq Deals' /\ AllExt(pending)'
  BY <1>t, <1>u DEF Truthful, VerdictsTrue, NotesTrue, ReportsForeign, AllExt, IsOf, Deals
<1>10. JournalTyped' /\ dispatched' \in BOOLEAN /\ booked' \in Nat
       /\ verdicts' \in SUBSET VerdictOf /\ pending' \in SUBSET Nat /\ audited' \in SUBSET Nat
  BY <1>t, <1>u DEF Typed, JournalTyped, ReportsTyped, journalVars
<1>11. entry' \in EntryOf /\ EntryTrue'
  BY <1>u, SameEntry
<1> QED BY <1>4, <1>6, <1>7, <1>8, <1>9, <1>10, <1>11 DEF Ran

\* The stream takes the next message.
LEMMA TranslateStep ==
  ASSUME IInv, Translate PROVE IInv'
<1> DEFINE mm == Head(queue)
<1>1. PICK m : m = mm
  OBVIOUS
<1>t. /\ Typed /\ Truthful /\ queue \in Seq(Fill \union Cancel) /\ QueueTrue /\ OwnPushesTracked
      /\ AnswersTrue /\ ReportsForeign /\ NotesTrue /\ ReportsTyped
  BY DEF IInv, Typed, Truthful, Tracked
<1>u. /\ queue # <<>> /\ queue' = Tail(queue)
      /\ IF m.kind = "cancel" THEN TranslateCancel(m) ELSE TranslateFill(m)
      /\ reported' = reported /\ UNCHANGED <<venueVars, wire, ans>>
  BY <1>1 DEF Translate
<1>2. deals' = deals /\ wire' = wire /\ ans' = ans
  BY <1>u DEF venueVars
<1>3. /\ Len(queue) \in Nat /\ Len(queue) # 0 /\ DOMAIN queue = 1 .. Len(queue) /\ 1 \in DOMAIN queue
      /\ m = queue[1] /\ m \in Fill \union Cancel
  <2>1. Len(queue) \in Nat
    BY <1>t
  <2>2. DOMAIN queue = 1 .. Len(queue)
    BY <1>t
  <2>3. Len(queue) # 0
    BY <1>t, <1>u
  <2>4. m = queue[1]
    BY <1>1, <1>t, <1>u
  <2> QED BY <1>t, <2>1, <2>2, <2>3, <2>4
<1>4. /\ m.kind = "cancel" => m \in Cancel
      /\ m.kind # "cancel" => m \in Fill /\ TrueFill(m) /\ m.deal \in Deals /\ m.deal \in Nat
      /\ m.kind \notin {"cancel", "entry"} => Pushed(m)
  <2>1. /\ m.kind = "cancel" => m \in Cancel
        /\ m.kind # "cancel" => m \in Fill /\ m.kind \in Kinds /\ m.deal \in Nat
    BY <1>3 DEF Fill, Cancel, Kinds
  <2>2. m.kind # "cancel" => TrueFill(m)
    BY <1>t, <1>3, <2>1 DEF QueueTrue
  <2>3. m.kind = "own" => Alive(m.order) /\ HasOrder(m.order)
    BY <1>t, <1>3 DEF OwnPushesTracked
  <2> QED BY <2>1, <2>2, <2>3 DEF Pushed, TrueFill, IsOf
<1>5. Ran' /\ StayTracked /\ EffectsTyped' /\ seen' \in SUBSET Nat /\ seen' \subseteq Deals
  <2>1. CASE m.kind = "cancel"
    <3>1. TranslateCancel(m)
      BY <1>u, <2>1
    <3>2. effects' = effects /\ seen' = seen
      BY <3>1 DEF TranslateCancel
    <3> QED BY <1>t, <1>2, <1>4, <2>1, <3>1, <3>2, CancelTranslated DEF Typed, EffectsTyped, NotesTrue
  <2>2. CASE m.kind # "cancel"
    <3>1. TranslateFill(m)
      BY <1>u, <2>2
    <3>2. effects' = {e \in effects : e.deal # m.deal} /\ seen' = seen \cup {m.deal}
      BY <3>1 DEF TranslateFill
    <3>3. EffectsTyped' /\ seen' \in SUBSET Nat /\ seen' \subseteq Deals
      <4>1. effects' \subseteq effects
        BY <3>2
      <4> QED BY <1>t, <1>4, <2>2, <3>2, <4>1, FS_Subset DEF Typed, EffectsTyped, NotesTrue
    <3>4. CASE m.kind = "entry" /\ TranslateEntry(m)
      BY <1>2, <3>3, <3>4, EntryCounted
    <3>5. CASE m.kind # "entry" /\ TranslateClose(m)
      BY <1>2, <1>4, <2>2, <3>3, <3>5, CloseBooked
    <3>6. CASE UNCHANGED <<journalVars, oc, dispatched, verdicts, entry, pending, audited, booked>>
      BY <1>2, <3>3, <3>6, NothingTranslated
    <3>7. \/ m.kind = "entry" /\ TranslateEntry(m)
          \/ m.kind # "entry" /\ TranslateClose(m)
          \/ UNCHANGED <<journalVars, oc, dispatched, verdicts, entry, pending, audited, booked>>
      BY <3>1 DEF TranslateFill
    <3> QED BY <3>4, <3>5, <3>6, <3>7
  <2> QED BY <2>1, <2>2
<1>6. ASSUME NEW i \in DOMAIN queue'
      PROVE  i + 1 \in DOMAIN queue /\ queue'[i] = queue[i + 1]
  BY <1>t, <1>u, <1>3, <1>6
<1>7. queue' \in Seq(Fill \union Cancel)
  BY <1>t, <1>u, <1>3
<1>8. QueueTrue'
  <2> SUFFICES ASSUME NEW i \in DOMAIN queue', queue'[i].kind \in Kinds PROVE TrueFill(queue[i])'
    BY DEF QueueTrue
  <2>1. PICK k : k = queue'[i]
    OBVIOUS
  <2>2. TrueFill(k)
    BY <1>t, <1>6, <2>1 DEF QueueTrue
  <2> QED BY <1>2, <2>1, <2>2 DEF TrueFill, IsOf, Deals
<1>9. OwnPushesTracked'
  <2> SUFFICES ASSUME NEW i \in DOMAIN queue', queue'[i].kind = "own"
               PROVE  Alive(queue[i].order)' /\ HasOrder(queue[i].order)'
    BY DEF OwnPushesTracked
  <2>1. i + 1 \in DOMAIN queue /\ queue'[i] = queue[i + 1]
    BY <1>6
  <2>2. queue[i + 1].order \in Closes
    BY <1>t, <2>1 DEF QueueTrue, TrueFill, Kinds
  <2>3. PICK c \in Closes : c = queue[i + 1].order
    BY <2>2
  <2>4. Alive(c) /\ HasOrder(c)
    BY <1>t, <2>1, <2>3 DEF OwnPushesTracked
  <2>5. Alive(c)' /\ HasOrder(c)'
    BY <1>5, <2>4 DEF StayTracked
  <2> QED BY <2>1, <2>3, <2>5 DEF Alive, HasOrder
<1>10. AnswersTrue'
  BY <1>t, <1>2 DEF AnswersTrue, TrueFill, IsOf, Deals
<1>11. ReportsForeign' /\ NotesTrue' /\ ReportsTyped'
  BY <1>t, <1>u, <1>2, <1>5 DEF Ran, ReportsForeign, NotesTrue, ReportsTyped, AllExt, IsOf, Deals
<1>12. Typed'
  <2>1. /\ VenueTyped' /\ wire' \in [Closes -> {"none", "sent", "working", "over"}]
        /\ ans' \in [Closes -> Word \union Fill]
    BY <1>t, <1>u DEF Typed, VenueTyped, venueVars
  <2> QED BY <1>5, <1>7, <1>11, <2>1 DEF Typed, Ran
<1>13. Truthful'
  BY <1>5, <1>8, <1>10, <1>11 DEF Truthful, Ran
<1> QED BY <1>5, <1>9, <1>12, <1>13 DEF IInv, Tracked, Ran

-----------------------------------------------------------------------------
(* The theorems *)

\* The start is as the invariant says.
LEMMA InitHolds == ASSUME Init PROVE IInv
<1> USE ShareAssumption, BoundAssumption
<1>1. VenueTyped
  BY DEF Init, VenueTyped
<1>2. Idle \in CloseOf /\ Idle.phase = "idle" /\ Idle.claims = <<>>
  <2>1. <<>> \in Seq(ClaimOf)
    OBVIOUS
  <2> QED BY <2>1 DEF Idle, CloseOf
<1>3. \A c \in Closes : oc[c].phase = "idle" /\ oc[c].claims = <<>> /\ wire[c] = "none" /\ ans[c] = NoAnswer
  BY <1>2 DEF Init
<1>4. NoAnswer \in Word /\ NoAnswer.kind = "none" /\ NoAnswer.kind \notin Kinds
  BY DEF NoAnswer, Word, Kinds
<1>5. entry \in EntryOf /\ entry.answer = NoAnswer
  BY <1>4 DEF Init, EntryOf
<1>6. JournalTyped /\ EffectsTyped /\ ReportsTyped
  <2>1. JournalTyped
    BY DEF Init, JournalTyped
  <2> QED BY <2>1, FS_EmptySet DEF Init, EffectsTyped, ReportsTyped
<1>7. Typed
  <2>1. oc \in [Closes -> CloseOf] /\ wire \in [Closes -> {"none", "sent", "working", "over"}]
        /\ ans \in [Closes -> Word \union Fill]
    BY <1>2, <1>4 DEF Init
  <2>2. queue \in Seq(Fill \union Cancel)
    <3>1. <<>> \in Seq(Fill \union Cancel)
      OBVIOUS
    <3> QED BY <3>1 DEF Init
  <2>3. dispatched \in BOOLEAN
    BY DEF Init
  <2>4. seen \in SUBSET Nat /\ verdicts \in SUBSET VerdictOf /\ booked \in Nat
    BY DEF Init
  <2> QED BY <1>1, <1>5, <1>6, <2>1, <2>2, <2>3, <2>4 DEF Typed
<1>8. Truthful
  <2>1. QueueTrue
    BY DEF Init, QueueTrue
  <2>2. AnswersTrue /\ EntryTrue /\ ClaimsTrue
    BY <1>3, <1>4, <1>5 DEF AnswersTrue, EntryTrue, ClaimsTrue
  <2>3. VerdictsTrue /\ NotesTrue /\ ReportsForeign
    BY DEF Init, VerdictsTrue, NotesTrue, ReportsForeign, AllExt
  <2> QED BY <2>1, <2>2, <2>3 DEF Truthful
<1>9. Tracked
  <2>1. WiresAlive
    BY <1>3, <1>4 DEF WiresAlive
  <2>2. OneByOne
    BY <1>3 DEF OneByOne
  <2>3. OwnPushesTracked
    BY DEF Init, OwnPushesTracked
  <2>4. OwnClaimsTracked
    BY <1>3 DEF OwnClaimsTracked
  <2> QED BY <2>1, <2>2, <2>3, <2>4 DEF Tracked
<1>10. HeldIsAwaited
  BY <1>3 DEF Init, HeldIsAwaited
<1> QED BY <1>7, <1>8, <1>9, <1>10 DEF IInv

\* A step that changes nothing keeps it.
LEMMA StutterHolds ==
  ASSUME IInv, UNCHANGED vars PROVE IInv'
<1>1. /\ VenueStill /\ ClosesStill /\ deals' = deals /\ verdicts' = verdicts /\ seen' = seen
      /\ UNCHANGED <<journalVars, effects, entry, judgeVars, dispatched, booked>>
  BY DEF vars, venueVars, journalVars, judgeVars, VenueStill, ClosesStill
<1>2. Typed /\ HeldIsAwaited
  BY DEF IInv
<1>3. JournalTyped' /\ EffectsTyped' /\ dispatched' \in BOOLEAN /\ booked' \in Nat
  BY <1>1, <1>2 DEF Typed, JournalTyped, EffectsTyped, journalVars
<1>4. Typed' /\ Truthful'
  BY <1>1, <1>3, MessagesKept, SameEntry, SameNotes, SightKept DEF Typed, Truthful, judgeVars
<1>5. HeldIsAwaited'
  BY <1>1, <1>2, SightKept DEF HeldIsAwaited
<1> QED BY <1>1, <1>4, <1>5, SightKept DEF IInv

\* Every step keeps the invariant.
LEMMA StepHolds == ASSUME IInv, [Next]_vars PROVE IInv'
<1>1. CASE UNCHANGED vars
  BY <1>1, StutterHolds
<1>2. ASSUME NEW c \in Closes, VenueHandles(c) \/ VenueFillsClose(c) \/ VenueEndsClose(c) PROVE IInv'
  BY <1>2, VenueHandlesStep, VenueFillsCloseStep, VenueEndsCloseStep
<1>3. CASE ForeignCloses \/ ForeignAdds \/ VenueFires
  BY <1>3, ForeignClosesStep, ForeignAddsStep, VenueFiresStep
<1>4. CASE VenueHandlesEntry \/ VenueFillsEntry
  BY <1>4, VenueHandlesEntryStep, VenueFillsEntryStep
<1>5. CASE Translate \/ Flush
  BY <1>5, TranslateStep, FlushStep
<1>6. ASSUME NEW c \in Closes, NEW v \in 1 .. Mine0 + EntryVolume, Send(c, v) PROVE IInv'
  BY <1>6, SendStep
<1>7. ASSUME NEW c \in Closes, Answer(c) \/ Timeout(c) \/ GraceExpires(c) PROVE IInv'
  BY <1>7, AnswerStep, TimeoutStep, GraceExpiresStep
<1>8. CASE SendEntry \/ EntryAnswered \/ EntryTimesOut
  BY <1>8, SendEntryStep, EntryAnsweredStep, EntryTimesOutStep
<1>9. Next \/ UNCHANGED vars
  OBVIOUS
<1> QED BY <1>1, <1>2, <1>3, <1>4, <1>5, <1>6, <1>7, <1>8, <1>9 DEF Next, Venue, Run

\* What the invariant says of the deals, the run's own types follow from.
LEMMA InvTypes == ASSUME IInv PROVE TypeOK
<1>t. Typed /\ Truthful /\ oc \in [Closes -> CloseOf] /\ Deals \subseteq Nat
  BY DealsAre DEF IInv, Typed
<1>1. /\ vol \in Nat /\ mine \in 0 .. vol /\ rows \in BOOLEAN /\ dispatched \in BOOLEAN
      /\ filled \in Nat /\ retired \in 0 .. filled
  BY <1>t DEF Typed, VenueTyped, JournalTyped
<1>2. ASSUME NEW c \in Closes
      PROVE  /\ oc[c].phase \in {"idle", "sent", "named", "unknown", "refused"}
             /\ oc[c].live \in BOOLEAN /\ oc[c].vol \in Nat /\ oc[c].exec \in Nat
             /\ wire[c] \in {"none", "sent", "working", "over"} /\ left[c] \in Nat
  <2>1. oc[c] \in CloseOf
    BY <1>t
  <2> QED BY <1>t, <2>1 DEF Typed, VenueTyped, CloseOf
<1>3. seen \subseteq Deals /\ pending \subseteq Deals /\ reported \subseteq Deals /\ audited \subseteq Deals
  BY <1>t DEF Truthful, NotesTrue, ReportsForeign, AllExt, IsOf
<1>4. booked \in Nat /\ entry.phase \in {"idle", "flight", "done", "unknown"} /\ entry.count \in {0, EntryVolume}
  BY <1>t DEF Typed, EntryOf
<1> QED BY <1>1, <1>2, <1>3, <1>4 DEF TypeOK

\* Every behaviour keeps the invariant, for every share, number of closes and fills.
THEOREM InvariantHolds == Spec => []IInv
<1>1. Init => IInv
  BY InitHolds
<1>2. IInv /\ [Next]_vars => IInv'
  BY StepHolds
<1> QED BY <1>1, <1>2, PTL DEF Spec

\* Journal, closes, claims and reports are of their types; what the journal
\* retired never exceeds what it filled, and every report is of a deal the venue made.
THEOREM TypeCorrect == Spec => []TypeOK
<1>1. IInv => TypeOK
  BY InvTypes
<1> QED BY <1>1, InvariantHolds, PTL

\* A close that left dispatch holds no event, and a verdict is held only while
\* the entry it waits for is in flight: no event waits for an answer that cannot come.
THEOREM HeldEventsAwaited == Spec => []HeldIsAwaited
<1>1. IInv => HeldIsAwaited
  BY DEF IInv
<1> QED BY <1>1, InvariantHolds, PTL

\* The operator is called for deals of others only, though a close request carries
\* no client order id: a fill of the run's own is never taken for somebody else's.
THEOREM OnlyForeignReported == Spec => []ReportsForeign
<1>1. IInv => ReportsForeign
  BY DEF IInv, Truthful
<1> QED BY <1>1, InvariantHolds, PTL

=============================================================================
