-------------------------- MODULE OrderTermsProofs --------------------------
(***************************************************************************)
(* The journal of the bot's terms, for any own amends, any number of       *)
(* losses, fills, pushes and restarts: a refused amend leaves it as it     *)
(* was, and as long as nobody else edits the order it explains every view  *)
(* of it, so that nobody is accused and nothing wrong is learnt.           *)
(***************************************************************************)
EXTENDS OrderTerms, SequenceTheorems, WellFoundedInduction, TLAPS

-----------------------------------------------------------------------------
(* Induction *)

\* A set of numbers that is not empty has a least element.
LEMMA LeastOf ==
  ASSUME NEW S, S \subseteq Nat, S # {}
  PROVE  \E x \in S : \A y \in S : x <= y
<1> DEFINE R == {ss \in Nat \X Nat : ss[1] < ss[2]}
<1>1. \A x, y \in Nat : <<x, y>> \in R <=> x < y
  OBVIOUS
<1>2. IsWellFoundedOn(R, Nat)
  BY Zenon, NatLessThanWellFounded DEF OpToRel
<1> HIDE DEF R
<1>3. \E x \in S : \A y \in S : ~ (<<y, x>> \in R)
  BY <1>2, WFMin, Zenon
<1>4. PICK x \in S : \A y \in S : ~ (<<y, x>> \in R)
  BY <1>3
<1>5. \A y \in S : ~ (y < x)
  BY Zenon, <1>1, <1>4
<1> QED BY <1>4, <1>5

\* Induction over the numbers, for the set of those the claim holds for.
LEMMA NatInduct ==
  ASSUME NEW S, 0 \in S, \A n \in Nat : n \in S => n + 1 \in S
  PROVE  Nat \subseteq S
<1> SUFFICES ASSUME Nat \ S # {} PROVE FALSE
  OBVIOUS
<1>1. PICK x \in Nat \ S : \A y \in Nat \ S : x <= y
  BY LeastOf
<1>2. x # 0 /\ x - 1 \in Nat
  BY <1>1
<1>3. x - 1 \in S
  BY <1>1, <1>2
<1> QED BY <1>1, <1>2, <1>3

-----------------------------------------------------------------------------
(* The journal's terms as a sequence *)

Answers == [vol : Nat, exec : Nat]
EntryOf == [price : Nat, vol : Nat, answer : Answers \union {None}]

\* The recursion that leaves the entries of a price and a volume out.
Keeps(kept, ts, price, vol) ==
  kept = [n \in 0 .. Len(ts) |->
            IF n = 0 THEN <<>>
            ELSE IF Same(ts[n], price, vol) THEN kept[n - 1] ELSE Append(kept[n - 1], ts[n])]

\* The first n entries less the i-th.
Skip(ts, i, n) ==
  [j \in 1 .. (IF n < i THEN n ELSE n - 1) |-> IF j < i THEN ts[j] ELSE ts[j + 1]]

\* What it leaves is a sequence of the others, in their order.
LEMMA SkipSeq ==
  ASSUME NEW S, NEW ts \in Seq(S), NEW i \in 1 .. Len(ts) + 1, NEW n \in 0 .. Len(ts)
  PROVE  /\ Skip(ts, i, n) \in Seq(S)
         /\ Len(Skip(ts, i, n)) = IF n < i THEN n ELSE n - 1
         /\ \A j \in 1 .. Len(Skip(ts, i, n)) : Skip(ts, i, n)[j] = IF j < i THEN ts[j] ELSE ts[j + 1]
<1> DEFINE m == IF n < i THEN n ELSE n - 1
<1>1. m \in Nat
  OBVIOUS
<1>2. \A j \in 1 .. m : (IF j < i THEN ts[j] ELSE ts[j + 1]) \in S
  OBVIOUS
<1>3. Skip(ts, i, n) = [j \in 1 .. m |-> IF j < i THEN ts[j] ELSE ts[j + 1]]
  BY DEF Skip
<1> HIDE DEF m
<1>4. Skip(ts, i, n) \in [1 .. m -> S]
  BY <1>2, <1>3
<1>5. Skip(ts, i, n) \in Seq(S) /\ Len(Skip(ts, i, n)) = m
  BY <1>1, <1>4
<1> QED BY <1>3, <1>5 DEF m

\* One more entry is left out or goes last.
LEMMA SkipStep ==
  ASSUME NEW S, NEW ts \in Seq(S), NEW i \in 1 .. Len(ts) + 1, NEW n \in 1 .. Len(ts)
  PROVE  Skip(ts, i, n) = IF n = i THEN Skip(ts, i, n - 1) ELSE Append(Skip(ts, i, n - 1), ts[n])
<1>0. n - 1 \in 0 .. Len(ts) /\ n \in 0 .. Len(ts)
  OBVIOUS
<1>1. CASE n = i
  BY <1>1 DEF Skip
<1>2. CASE n # i
  <2> DEFINE s == Skip(ts, i, n)
             t == Skip(ts, i, n - 1)
             a == Append(t, ts[n])
  <2>1. s \in Seq(S) /\ Len(s) = (IF n < i THEN n ELSE n - 1)
        /\ \A j \in 1 .. Len(s) : s[j] = IF j < i THEN ts[j] ELSE ts[j + 1]
    BY <1>0, SkipSeq
  <2>2. t \in Seq(S) /\ Len(t) = (IF n - 1 < i THEN n - 1 ELSE n - 2)
        /\ \A j \in 1 .. Len(t) : t[j] = IF j < i THEN ts[j] ELSE ts[j + 1]
    <3> DEFINE m == n - 1
    <3>1. m \in 0 .. Len(ts)
      BY <1>0
    <3> HIDE DEF m
    <3>2. /\ Skip(ts, i, m) \in Seq(S)
          /\ Len(Skip(ts, i, m)) = IF m < i THEN m ELSE m - 1
          /\ \A j \in 1 .. Len(Skip(ts, i, m)) :
               Skip(ts, i, m)[j] = IF j < i THEN ts[j] ELSE ts[j + 1]
      BY <3>1, SkipSeq
    <3>3. m = n - 1 /\ m - 1 = n - 2
      BY DEF m
    <3> QED BY <3>2, <3>3
  <2>3. ts[n] \in S
    OBVIOUS
  <2> HIDE DEF s, t
  <2>4. a \in Seq(S) /\ Len(a) = Len(t) + 1
        /\ \A j \in 1 .. Len(a) : a[j] = IF j <= Len(t) THEN t[j] ELSE ts[n]
    BY <2>2, <2>3
  <2> HIDE DEF a
  <2>5. Len(a) = Len(s)
    BY <1>2, <2>1, <2>2, <2>4
  <2>6. ASSUME NEW j \in 1 .. Len(s) PROVE s[j] = a[j]
    BY <1>2, <2>1, <2>2, <2>4, <2>5, <2>6
  <2>7. s = a
    BY <2>1, <2>4, <2>5, <2>6, SeqEqual
  <2> QED BY <1>2, <2>7 DEF s, a, t
<1> QED BY <1>1, <1>2

\* The i-th entry alone is of a price and a volume (none, when i is past the end).
TheOnly(ts, i, price, vol) == \A j \in 1 .. Len(ts) : Same(ts[j], price, vol) <=> j = i

\* Where the i-th entry alone is of a price and a volume (none, when i is past the
\* end), leaving those terms out is leaving it out.
LEMMA WithoutIs ==
  ASSUME NEW S, NEW ts \in Seq(S), NEW i \in 1 .. Len(ts) + 1, NEW price, NEW vol,
         TheOnly(ts, i, price, vol)
  PROVE  Without(ts, price, vol) = Skip(ts, i, Len(ts))
<1> DEFINE g == [n \in 0 .. Len(ts) |-> Skip(ts, i, n)]
           k == CHOOSE kept : Keeps(kept, ts, price, vol)
<1>1. Keeps(g, ts, price, vol)
  <2>1. ASSUME NEW n \in 0 .. Len(ts)
        PROVE  g[n] = IF n = 0 THEN <<>>
                      ELSE IF Same(ts[n], price, vol) THEN g[n - 1] ELSE Append(g[n - 1], ts[n])
    <3>1. CASE n = 0
      <4>1. Skip(ts, i, 0) = <<>>
        <5>1. Skip(ts, i, 0) \in Seq(S) /\ Len(Skip(ts, i, 0)) = 0
          BY SkipSeq
        <5> QED BY <5>1
      <4> QED BY <3>1, <4>1
    <3>2. CASE n # 0
      <4>1. n \in 1 .. Len(ts) /\ n - 1 \in 0 .. Len(ts)
        BY <3>2
      <4>2. Skip(ts, i, n) = IF n = i THEN Skip(ts, i, n - 1) ELSE Append(Skip(ts, i, n - 1), ts[n])
        BY <4>1, SkipStep
      <4>3. Same(ts[n], price, vol) <=> n = i
        BY <4>1 DEF TheOnly
      <4> QED BY Zenon, <3>2, <4>1, <4>2, <4>3
    <3> QED BY <3>1, <3>2
  <2> HIDE DEF g
  <2>2. g = [n \in 0 .. Len(ts) |-> g[n]]
    BY DEF g
  <2> QED BY Zenon, <2>1, <2>2 DEF Keeps
<1>2. Keeps(k, ts, price, vol)
  BY Zenon, <1>1
<1>3. Without(ts, price, vol) = k[Len(ts)]
  BY Zenon DEF Without, Keeps
<1> HIDE DEF k
<1> DEFINE T == {n \in Nat : n <= Len(ts) => k[n] = Skip(ts, i, n)}
<1>4. 0 \in T
  <2>1. g[0] = <<>> /\ g[0] = Skip(ts, i, 0)
    BY <1>1 DEF Keeps
  <2>2. k[0] = <<>>
    BY <1>2 DEF Keeps
  <2> QED BY <2>1, <2>2
<1>5. ASSUME NEW n \in Nat, n \in T PROVE n + 1 \in T
  <2> SUFFICES ASSUME n + 1 <= Len(ts) PROVE k[n + 1] = Skip(ts, i, n + 1)
    OBVIOUS
  <2>1. n + 1 \in 0 .. Len(ts) /\ n + 1 \in 1 .. Len(ts) /\ n + 1 # 0 /\ (n + 1) - 1 = n /\ n <= Len(ts)
    OBVIOUS
  <2>2. k[n + 1] = IF Same(ts[n + 1], price, vol) THEN k[n] ELSE Append(k[n], ts[n + 1])
    BY <1>2, <2>1 DEF Keeps
  <2>3. k[n] = Skip(ts, i, n)
    BY <1>5, <2>1
  <2>4. Skip(ts, i, n + 1) = IF n + 1 = i THEN Skip(ts, i, n) ELSE Append(Skip(ts, i, n), ts[n + 1])
    <3> DEFINE m == n + 1
    <3>1. m \in 1 .. Len(ts) /\ m - 1 = n
      BY <2>1
    <3> HIDE DEF m
    <3>2. Skip(ts, i, m) = IF m = i THEN Skip(ts, i, m - 1) ELSE Append(Skip(ts, i, m - 1), ts[m])
      BY <3>1, SkipStep
    <3> QED BY <3>1, <3>2 DEF m
  <2>5. Same(ts[n + 1], price, vol) <=> n + 1 = i
    BY <2>1 DEF TheOnly
  <2>6. CASE n + 1 = i
    BY <2>2, <2>3, <2>4, <2>5, <2>6
  <2>7. CASE n + 1 # i
    BY <2>2, <2>3, <2>4, <2>5, <2>7
  <2> QED BY <2>6, <2>7
<1> HIDE DEF T
<1>6. Len(ts) \in T
  BY <1>4, <1>5, NatInduct
<1> QED BY <1>3, <1>6 DEF T

Has(ts, price, total) == \E i \in DOMAIN ts : Same(ts[i], price, total)
Unique(ts) == \A i, j \in DOMAIN ts : Same(ts[i], ts[j].price, ts[j].vol) => i = j

\* Of terms held once, at most one entry is of a price and a volume.
LEMMA UniqueIndex ==
  ASSUME NEW S, NEW ts \in Seq(S), Unique(ts), NEW price, NEW vol
  PROVE  \E i \in 1 .. Len(ts) + 1 : TheOnly(ts, i, price, vol)
<1>0. Len(ts) \in Nat
  OBVIOUS
<1>n. DOMAIN ts = 1 .. Len(ts)
  OBVIOUS
<1>1. CASE \A j \in 1 .. Len(ts) : ~Same(ts[j], price, vol)
  <2>1. Len(ts) + 1 \in 1 .. Len(ts) + 1 /\ \A j \in 1 .. Len(ts) : j # Len(ts) + 1
    BY <1>0
  <2> QED BY <1>1, <2>1 DEF TheOnly
<1>2. ASSUME NEW i \in 1 .. Len(ts), Same(ts[i], price, vol)
      PROVE  TheOnly(ts, i, price, vol)
  BY <1>n, <1>2 DEF Unique, Same, TheOnly
<1>3. \A i \in 1 .. Len(ts) : i \in 1 .. Len(ts) + 1
  BY <1>0
<1> QED BY <1>1, <1>2, <1>3 DEF TheOnly

\* What remembering a write does: it is the last entry, every other entry stays.
LEMMA Remembered ==
  ASSUME NEW ts \in Seq(EntryOf), Unique(ts), NEW price \in Nat, NEW vol \in Nat
  PROVE  LET r == RememberTerms(ts, price, vol)
         IN /\ r \in Seq(EntryOf) /\ r # <<>> /\ Unique(r)
            /\ Last(r) = Entry(price, vol, None)
            /\ \A i \in DOMAIN r : r[i] = Entry(price, vol, None) \/ \E j \in DOMAIN ts : r[i] = ts[j]
            /\ \A p, v : Has(ts, p, v) => Has(r, p, v)
            /\ Has(r, price, vol)
<1> DEFINE e == Entry(price, vol, None)
<1>0. Len(ts) \in Nat
  OBVIOUS
<1>n. DOMAIN ts = 1 .. Len(ts)
  OBVIOUS
<1>1. PICK i \in 1 .. Len(ts) + 1 : TheOnly(ts, i, price, vol)
  BY Zenon, UniqueIndex
<1>r. i \in Nat /\ 1 <= i /\ i <= Len(ts) + 1 /\ i \in 1 .. Len(ts) + 1
  BY <1>0, <1>1
<1> DEFINE s == Skip(ts, i, Len(ts))
           r == Append(s, e)
<1>2. e \in EntryOf /\ e.price = price /\ e.vol = vol
  BY DEF Entry, EntryOf
<1>3. RememberTerms(ts, price, vol) = r
  BY Zenon, <1>1, <1>r, WithoutIs DEF RememberTerms
<1> HIDE DEF e
<1>4. s \in Seq(EntryOf) /\ Len(s) = (IF Len(ts) < i THEN Len(ts) ELSE Len(ts) - 1)
      /\ \A j \in 1 .. Len(s) : s[j] = IF j < i THEN ts[j] ELSE ts[j + 1]
  <2>1. Len(ts) \in 0 .. Len(ts)
    BY <1>0
  <2> QED BY <1>r, <2>1, SkipSeq
<1> HIDE DEF s
<1>5. r \in Seq(EntryOf) /\ Len(r) = Len(s) + 1 /\ Len(r) \in Nat \ {0}
      /\ \A j \in 1 .. Len(r) : r[j] = IF j <= Len(s) THEN s[j] ELSE e
  BY <1>2, <1>4
<1> HIDE DEF r
<1>d. DOMAIN r = 1 .. Len(r)
  BY <1>5
<1>6. ASSUME NEW j \in 1 .. Len(r)
      PROVE  \/ j = Len(r) /\ r[j] = e
             \/ j < i /\ j < Len(r) /\ j \in 1 .. Len(ts) /\ r[j] = ts[j]
             \/ j >= i /\ j < Len(r) /\ j + 1 \in 1 .. Len(ts) /\ r[j] = ts[j + 1]
  <2>1. CASE j = Len(r)
    <3>1. Len(s) \in Nat /\ ~(Len(r) <= Len(s))
      BY <1>4, <1>5
    <3>2. r[j] = e
      BY <1>5, <2>1, <3>1
    <3> QED BY <2>1, <3>2
  <2>2. CASE j # Len(r)
    <3>1. j \in 1 .. Len(s) /\ j < Len(r) /\ r[j] = s[j]
      BY <1>4, <1>5, <2>2
    <3>2. CASE j < i
      <4>1. s[j] = ts[j] /\ j \in 1 .. Len(ts)
        BY <1>0, <1>r, <1>4, <3>1, <3>2
      <4> QED BY <3>1, <3>2, <4>1
    <3>3. CASE ~(j < i)
      BY <1>0, <1>r, <1>4, <3>1, <3>3
    <3> QED BY <3>1, <3>2, <3>3
  <2> QED BY <2>1, <2>2
<1>7. ASSUME NEW j \in 1 .. Len(ts), j # i PROVE \E k \in 1 .. Len(r) : r[k] = ts[j]
  <2>1. CASE j < i
    BY <1>0, <1>r, <1>4, <1>5, <2>1
  <2>2. CASE j > i
    <3>1. j - 1 \in 1 .. Len(s) /\ ~(j - 1 < i) /\ (j - 1) + 1 = j
      BY <1>0, <1>r, <1>4, <2>2
    <3>2. s[j - 1] = ts[j]
      BY <1>4, <3>1
    <3>3. j - 1 \in 1 .. Len(r) /\ j - 1 <= Len(s)
      BY <1>4, <1>5, <3>1
    <3> QED BY <1>5, <3>2, <3>3
  <2> QED BY <1>0, <1>r, <1>7, <2>1, <2>2
<1>8. Len(r) \in 1 .. Len(r) /\ r[Len(r)] = e
  BY <1>4, <1>5
<1>9. Unique(r)
  <2> SUFFICES ASSUME NEW j \in 1 .. Len(r), NEW k \in 1 .. Len(r), Same(r[j], r[k].price, r[k].vol)
               PROVE  j = k
    BY <1>d DEF Unique
  <2>1. \A m \in 1 .. Len(ts) : m # i => ~(ts[m].price = price /\ ts[m].vol = vol)
    BY <1>1 DEF TheOnly, Same
  <2>2. \A m, n \in 1 .. Len(ts) : ts[m].price = ts[n].price /\ ts[m].vol = ts[n].vol => m = n
    BY <1>n DEF Unique, Same
  <2>3. r[j].price = r[k].price /\ r[j].vol = r[k].vol
    BY DEF Same
  <2>4. ASSUME NEW m \in 1 .. Len(r), m # Len(r) PROVE ~(r[m].price = price /\ r[m].vol = vol)
    <3>1. CASE m < i /\ m \in 1 .. Len(ts) /\ r[m] = ts[m]
      BY <2>1, <3>1
    <3>2. CASE m >= i /\ m + 1 \in 1 .. Len(ts) /\ r[m] = ts[m + 1]
      <4>1. m + 1 # i
        BY <3>2
      <4> QED BY <2>1, <3>2, <4>1
    <3> QED BY <1>6, <2>4, <3>1, <3>2
  <2>5. CASE j = Len(r) \/ k = Len(r)
    BY <1>2, <1>8, <2>3, <2>4, <2>5
  <2>6. CASE j # Len(r) /\ k # Len(r)
    <3>1. (j < i /\ j \in 1 .. Len(ts) /\ r[j] = ts[j]) \/ (j >= i /\ j + 1 \in 1 .. Len(ts) /\ r[j] = ts[j + 1])
      BY <1>6, <2>6
    <3>2. (k < i /\ k \in 1 .. Len(ts) /\ r[k] = ts[k]) \/ (k >= i /\ k + 1 \in 1 .. Len(ts) /\ r[k] = ts[k + 1])
      BY <1>6, <2>6
    <3>3. CASE j < i /\ j \in 1 .. Len(ts) /\ r[j] = ts[j]
      <4>1. CASE k < i /\ k \in 1 .. Len(ts) /\ r[k] = ts[k]
        BY <2>2, <2>3, <3>3, <4>1
      <4>2. CASE k >= i /\ k + 1 \in 1 .. Len(ts) /\ r[k] = ts[k + 1]
        <5>1. j = k + 1
          BY <2>2, <2>3, <3>3, <4>2
        <5> QED BY <3>3, <4>2, <5>1
      <4> QED BY <3>2, <4>1, <4>2
    <3>4. CASE j >= i /\ j + 1 \in 1 .. Len(ts) /\ r[j] = ts[j + 1]
      <4>1. CASE k < i /\ k \in 1 .. Len(ts) /\ r[k] = ts[k]
        <5>1. j + 1 = k
          BY <2>2, <2>3, <3>4, <4>1
        <5> QED BY <3>4, <4>1, <5>1
      <4>2. CASE k >= i /\ k + 1 \in 1 .. Len(ts) /\ r[k] = ts[k + 1]
        <5>1. j + 1 = k + 1
          BY <2>2, <2>3, <3>4, <4>2
        <5> QED BY <5>1
      <4> QED BY <3>2, <4>1, <4>2
    <3> QED BY <3>1, <3>3, <3>4
  <2> QED BY <2>5, <2>6
<1>10. \A j \in 1 .. Len(r) : r[j] = e \/ \E k \in DOMAIN ts : r[j] = ts[k]
  BY <1>n, <1>6
<1>11. Last(r) = e
  BY <1>8 DEF Last
<1>12. Has(r, price, vol)
  BY <1>2, <1>8, <1>d DEF Has, Same
<1>13. ASSUME NEW p, NEW v, Has(ts, p, v) PROVE Has(r, p, v)
  <2>1. PICK j \in 1 .. Len(ts) : Same(ts[j], p, v)
    BY <1>n, <1>13 DEF Has
  <2>2. CASE j = i
    BY <1>1, <1>12, <2>1, <2>2 DEF Has, Same, TheOnly
  <2>3. CASE j # i
    BY <1>7, <1>d, <2>1, <2>3 DEF Has
  <2> QED BY <2>2, <2>3
<1>14. r # <<>>
  BY <1>5
<1>15. r \in Seq(EntryOf) /\ r # <<>> /\ Unique(r)
  BY <1>5, <1>9, <1>14
<1> QED BY <1>3, <1>10, <1>11, <1>12, <1>13, <1>15, <1>d DEF e

\* A refused write leaves the journal as it was before it.
LEMMA Withdrawn ==
  ASSUME NEW ts \in Seq(EntryOf), Unique(ts), NEW sent, sent.price \in Nat, sent.vol \in Nat
  PROVE  WithdrawTerms(RememberTerms(ts, sent.price, sent.vol), sent, ts) = ts
<1> DEFINE e == Entry(sent.price, sent.vol, None)
<1>0. Len(ts) \in Nat
  OBVIOUS
<1>n. DOMAIN ts = 1 .. Len(ts)
  OBVIOUS
<1>1. PICK i \in 1 .. Len(ts) + 1 : TheOnly(ts, i, sent.price, sent.vol)
  BY Zenon, UniqueIndex
<1>r. i \in Nat /\ 1 <= i /\ i <= Len(ts) + 1 /\ i \in 1 .. Len(ts) + 1
  BY <1>0, <1>1
<1> DEFINE s == Skip(ts, i, Len(ts))
           r == Append(s, e)
<1>2. e \in EntryOf /\ Same(e, sent.price, sent.vol)
  BY DEF Entry, EntryOf, Same
<1>3. RememberTerms(ts, sent.price, sent.vol) = r
  BY Zenon, <1>1, <1>r, WithoutIs DEF RememberTerms
<1> HIDE DEF e
<1>4. s \in Seq(EntryOf) /\ Len(s) = (IF Len(ts) < i THEN Len(ts) ELSE Len(ts) - 1)
      /\ \A j \in 1 .. Len(s) : s[j] = IF j < i THEN ts[j] ELSE ts[j + 1]
  <2>1. Len(ts) \in 0 .. Len(ts)
    BY <1>0
  <2> QED BY <1>r, <2>1, SkipSeq
<1> HIDE DEF s
<1>5. r \in Seq(EntryOf) /\ Len(r) = Len(s) + 1 /\ Len(r) \in Nat \ {0}
      /\ \A j \in 1 .. Len(r) : r[j] = IF j <= Len(s) THEN s[j] ELSE e
  BY <1>2, <1>4
<1> HIDE DEF r
<1>6. TheOnly(r, Len(r), sent.price, sent.vol)
  <2> SUFFICES ASSUME NEW j \in 1 .. Len(r) PROVE Same(r[j], sent.price, sent.vol) <=> j = Len(r)
    BY DEF TheOnly
  <2>1. CASE j = Len(r)
    <3>1. r[j] = e
      BY <1>4, <1>5, <1>r, <2>1
    <3> QED BY <1>2, <2>1, <3>1
  <2>2. CASE j # Len(r)
    <3>1. j \in 1 .. Len(s) /\ r[j] = s[j]
      BY <1>4, <1>5, <2>2
    <3>2. \E k \in 1 .. Len(ts) : k # i /\ r[j] = ts[k]
      <4>1. CASE j < i
        BY <1>0, <1>r, <1>4, <3>1, <4>1
      <4>2. CASE ~(j < i)
        <5>1. j + 1 \in 1 .. Len(ts) /\ j + 1 # i /\ r[j] = ts[j + 1]
          BY <1>0, <1>r, <1>4, <3>1, <4>2
        <5> QED BY <5>1
      <4> QED BY <4>1, <4>2
    <3> QED BY <1>1, <2>2, <3>2 DEF TheOnly
  <2> QED BY <2>1, <2>2
<1>7. Without(r, sent.price, sent.vol) = s
  <2>1. Len(r) \in 1 .. Len(r) + 1
    BY <1>5
  <2>2. Without(r, sent.price, sent.vol) = Skip(r, Len(r), Len(r))
    BY <1>5, <1>6, <2>1, WithoutIs
  <2> DEFINE t == Skip(r, Len(r), Len(r))
  <2>3. t \in Seq(EntryOf) /\ Len(t) = Len(r) - 1
        /\ \A j \in 1 .. Len(t) : t[j] = IF j < Len(r) THEN r[j] ELSE r[j + 1]
    <3>1. Len(r) \in 0 .. Len(r)
      BY <1>5
    <3>2. ~(Len(r) < Len(r))
      BY <1>5
    <3> QED BY <1>5, <2>1, <3>1, <3>2, SkipSeq
  <2> HIDE DEF t
  <2>4. Len(t) = Len(s)
    BY <1>4, <1>5, <2>3
  <2>5. ASSUME NEW j \in 1 .. Len(t) PROVE t[j] = s[j]
    BY <1>4, <1>5, <2>3, <2>4
  <2>6. t = s
    BY <1>4, <2>3, <2>4, <2>5, SeqEqual
  <2> QED BY <2>2, <2>6 DEF t
<1> DEFINE earlier == {j \in DOMAIN ts : Same(ts[j], sent.price, sent.vol)}
<1>8. CASE i = Len(ts) + 1
  <2>1. earlier = {}
    BY <1>0, <1>r, <1>n, <1>1, <1>8 DEF TheOnly
  <2>2. WithdrawTerms(r, sent, ts) = s
    BY Zenon, <1>7, <2>1 DEF WithdrawTerms
  <2>3. Len(s) = Len(ts)
    BY <1>0, <1>r, <1>4, <1>8
  <2>4. ASSUME NEW j \in 1 .. Len(s) PROVE s[j] = ts[j]
    BY <1>0, <1>r, <1>4, <1>8, <2>3
  <2>5. s = ts
    BY <1>4, <2>3, <2>4, SeqEqual
  <2> QED BY <1>3, <2>2, <2>5
<1>9. CASE i \in 1 .. Len(ts)
  <2>1. earlier = {i}
    BY <1>0, <1>r, <1>n, <1>1, <1>9 DEF TheOnly
  <2>2. (CHOOSE j \in earlier : \A k \in earlier : j <= k) = i
    BY <1>9, <2>1
  <2>3. Len(s) = Len(ts) - 1 /\ (IF i <= Len(s) THEN i ELSE Len(s) + 1) = i
    BY <1>0, <1>r, <1>4, <1>9
  <2> DEFINE t == InsertAt(s, i, ts[i])
  <2>4. WithdrawTerms(r, sent, ts) = t
    <3>1. earlier # {}
      BY <2>1
    <3> HIDE DEF t
    <3>2. WithdrawTerms(r, sent, ts)
           = LET k == CHOOSE j \in earlier : \A m \in earlier : j <= m
             IN InsertAt(s, IF k <= Len(s) THEN k ELSE Len(s) + 1, ts[k])
      BY <1>7, <3>1 DEF WithdrawTerms
    <3>3. WithdrawTerms(r, sent, ts) = InsertAt(s, IF i <= Len(s) THEN i ELSE Len(s) + 1, ts[i])
      BY Zenon, <2>2, <3>2
    <3> QED BY Zenon, <2>3, <3>3 DEF t
  <2> HIDE DEF earlier
  <2> DEFINE a == SubSeq(s, 1, i - 1)
             b == SubSeq(s, i, Len(s))
  <2>5. a \in Seq(EntryOf) /\ Len(a) = i - 1 /\ \A j \in 1 .. i - 1 : a[j] = s[j]
    BY <1>0, <1>r, <1>4, <1>9, <2>3
  <2>6. b \in Seq(EntryOf) /\ Len(b) = Len(ts) - i /\ \A j \in 1 .. Len(ts) - i : b[j] = s[i + j - 1]
    BY <1>0, <1>r, <1>4, <1>9, <2>3
  <2>7. t = (a \o <<ts[i]>>) \o b
    BY Zenon DEF InsertAt
  <2>e. ts[i] \in EntryOf
    BY <1>9
  <2> HIDE DEF a, b, t
  <2>8. a \o <<ts[i]>> \in Seq(EntryOf) /\ Len(a \o <<ts[i]>>) = i
        /\ \A j \in 1 .. i : (a \o <<ts[i]>>)[j] = IF j < i THEN a[j] ELSE ts[i]
    BY <1>0, <1>r, <1>9, <2>5, <2>e
  <2> DEFINE c == a \o <<ts[i]>>
  <2> HIDE DEF c
  <2>9. c \in Seq(EntryOf) /\ Len(c) = i /\ \A j \in 1 .. i : c[j] = IF j < i THEN a[j] ELSE ts[i]
    BY Zenon, <2>8 DEF c
  <2>10. t \in Seq(EntryOf) /\ Len(t) = Len(ts)
         /\ \A j \in 1 .. Len(ts) : t[j] = IF j <= i THEN c[j] ELSE b[j - i]
    <3>1. t = c \o b
      BY <2>7 DEF c
    <3>2. /\ c \o b \in Seq(EntryOf) /\ Len(c \o b) = Len(c) + Len(b)
          /\ \A j \in 1 .. Len(c) + Len(b) :
               (c \o b)[j] = IF j <= Len(c) THEN c[j] ELSE b[j - Len(c)]
      BY <2>6, <2>9, ConcatProperties
    <3>3. Len(c) + Len(b) = Len(ts)
      BY <1>0, <1>r, <2>6, <2>9
    <3> QED BY Zenon, <2>9, <3>1, <3>2, <3>3
  <2>11. ASSUME NEW j \in 1 .. Len(ts) PROVE t[j] = ts[j]
    <3>1. CASE j < i
      BY <1>0, <1>r, <1>4, <1>9, <2>3, <2>5, <2>9, <2>10, <3>1
    <3>2. CASE j = i
      BY <2>9, <2>10, <3>2
    <3>3. CASE j > i
      <4>1. t[j] = b[j - i] /\ j - i \in 1 .. Len(ts) - i
        BY <1>0, <1>r, <1>9, <2>10, <3>3
      <4>2. b[j - i] = s[j - 1]
        <5>1. i + (j - i) - 1 = j - 1
          BY <1>9
        <5> QED BY <2>6, <4>1, <5>1
      <4>3. s[j - 1] = ts[j]
        <5>1. j - 1 \in 1 .. Len(s) /\ ~(j - 1 < i) /\ (j - 1) + 1 = j
          BY <1>0, <1>r, <1>9, <2>3, <3>3
        <5> QED BY <1>4, <5>1
      <4> QED BY <4>1, <4>2, <4>3
    <3> QED BY <1>9, <3>1, <3>2, <3>3
  <2>12. t = ts
    BY <1>0, <2>10, <2>11, SeqEqual
  <2> QED BY <1>3, <2>4, <2>12
<1>10. i = Len(ts) + 1 \/ i \in 1 .. Len(ts)
  BY <1>0
<1> QED BY <1>8, <1>9, <1>10

\* An answer is kept with the write it is for; nothing else changes.
LEMMA AnswerKept ==
  ASSUME NEW ts \in Seq(EntryOf), NEW sent, NEW view, view.vol \in Nat, view.exec \in Nat
  PROVE  LET r == RememberAnswer(ts, sent, view)
         IN /\ r \in Seq(EntryOf) /\ Len(r) = Len(ts) /\ DOMAIN r = DOMAIN ts
            /\ \A i \in DOMAIN ts :
                 /\ r[i].price = ts[i].price /\ r[i].vol = ts[i].vol
                 /\ r[i].answer = IF Same(ts[i], sent.price, sent.vol) THEN Shown(view) ELSE ts[i].answer
<1> DEFINE f(i) == IF Same(ts[i], sent.price, sent.vol) THEN [ts[i] EXCEPT !.answer = Shown(view)] ELSE ts[i]
           r == RememberAnswer(ts, sent, view)
<1>1. Shown(view) \in Answers
  BY DEF Shown, Answers
<1>2. ASSUME NEW i \in DOMAIN ts
      PROVE  /\ f(i) \in EntryOf /\ f(i).price = ts[i].price /\ f(i).vol = ts[i].vol
             /\ f(i).answer = IF Same(ts[i], sent.price, sent.vol) THEN Shown(view) ELSE ts[i].answer
  <2>1. ts[i] \in EntryOf
    OBVIOUS
  <2> QED BY <1>1, <2>1 DEF EntryOf
<1> HIDE DEF f
<1>3. r = [i \in DOMAIN ts |-> f(i)]
  BY DEF RememberAnswer, f
<1>4. DOMAIN ts = 1 .. Len(ts) /\ Len(ts) \in Nat
  OBVIOUS
<1>5. r \in [1 .. Len(ts) -> EntryOf]
  BY <1>2, <1>3, <1>4
<1>6. r \in Seq(EntryOf) /\ Len(r) = Len(ts) /\ DOMAIN r = DOMAIN ts
  BY <1>4, <1>5
<1> QED BY <1>2, <1>3, <1>6

-----------------------------------------------------------------------------
(* The invariant, whoever edits the order *)

Attrs == {"default", "set"}
Orders == {o \in [price : Nat, total : Nat, exec : Nat, attr : Attrs] : o.exec < o.total}
Pushes == [kind : {"replaced", "partial"}, view : Views]
Phases == {"idle", "out", "back", "adrift", "over"}
AmendOf == [phase : Phases, sent : OwnTerms \union {None}, before : Seq(EntryOf),
            answer : Views \union {None}]

VenueTyped ==
  /\ order \in Orders /\ means \in [shows : Meanings, takes : Meanings]
  /\ queue \in Seq(Pushes) /\ amend \in [Amends -> AmendOf] /\ terms \in Seq(EntryOf)

BotTyped ==
  /\ attrs \subseteq Attrs /\ attrSeen \in Attrs \union {None} /\ attrBefore \in Attrs \union {None}
  /\ held \in Views \union {None} /\ watch \in Views \union {None}
  /\ semantics \in Meanings \union {None}
  /\ snap \in [view : Views, stale : BOOLEAN] \union {None}
  /\ reported \in BOOLEAN /\ noticed \in BOOLEAN /\ baselined \in BOOLEAN /\ resized \in BOOLEAN

\* Amends are sent one after another, and answered after every earlier one is over.
InOrder ==
  /\ \A a, b \in Amends : a < b /\ amend[a].phase \in {"idle", "out", "back"} => amend[b].phase = "idle"
  /\ \A a, b \in Amends : a < b /\ amend[b].phase = "back" => amend[a].phase = "over"
  /\ \A a \in Amends : amend[a].phase \in {"out", "back", "adrift"} => amend[a].sent \in OwnTerms
  /\ \A a \in Amends : amend[a].phase # "back" => amend[a].answer = None

\* The journal holds each of its terms once, and in an amend's flight what it held
\* before with the terms sent.
Journal ==
  /\ terms # <<>> /\ Unique(terms)
  /\ \A a \in InFlight :
       /\ amend[a].before # <<>> /\ Unique(amend[a].before)
       /\ terms = RememberTerms(amend[a].before, amend[a].sent.price, amend[a].sent.vol)

Sound == VenueTyped /\ BotTyped /\ InOrder /\ Journal

-----------------------------------------------------------------------------
(* What the handlers share *)

\* A view of the order is a view.
LEMMA ViewTyped ==
  ASSUME means \in [shows : Meanings, takes : Meanings], NEW o \in Orders
  PROVE  View(o) \in Views /\ View(o).exec = o.exec /\ View(o).price = o.price /\ View(o).attr = o.attr
<1>1. o.price \in Nat /\ o.total \in Nat /\ o.exec \in Nat /\ o.attr \in Attrs /\ o.exec < o.total
  BY DEF Orders
<1>2. (IF means.shows = "whole" THEN o.total ELSE o.total - o.exec) \in Nat
  BY <1>1
<1> QED BY <1>1, <1>2 DEF View, Views, Attrs

\* A push goes last in the queue, or is dropped.
LEMMA PushTyped ==
  ASSUME means \in [shows : Meanings, takes : Meanings], queue \in Seq(Pushes), order' \in Orders,
         NEW kind \in {"replaced", "partial"}, Push(kind)
  PROVE  /\ queue' \in Seq(Pushes)
         /\ \A i \in DOMAIN queue' :
              \/ i \in DOMAIN queue /\ queue'[i] = queue[i]
              \/ queue'[i] = [kind |-> kind, view |-> View(order')]
<1> DEFINE m == [kind |-> kind, view |-> View(order')]
<1>1. m \in Pushes
  BY ViewTyped DEF Pushes
<1>2. queue' = Append(queue, m) \/ queue' = queue
  BY DEF Push
<1> HIDE DEF m
<1>3. CASE queue' = Append(queue, m)
  <2>1. queue' \in Seq(Pushes) /\ Len(queue') = Len(queue) + 1
        /\ \A i \in 1 .. Len(queue') : queue'[i] = IF i <= Len(queue) THEN queue[i] ELSE m
    BY <1>1, <1>3
  <2>2. \A i \in DOMAIN queue' : (i \in DOMAIN queue /\ queue'[i] = queue[i]) \/ queue'[i] = m
    BY <2>1
  <2> QED BY <2>1, <2>2 DEF m
<1>4. CASE queue' = queue
  BY <1>4
<1> QED BY <1>2, <1>3, <1>4

\* The head of the queue is a push, and the rest is of the pushes that waited.
LEMMA TailTyped ==
  ASSUME queue \in Seq(Pushes), queue # <<>>, queue' = Tail(queue)
  PROVE  /\ Head(queue) \in Pushes /\ queue' \in Seq(Pushes)
         /\ 1 \in DOMAIN queue /\ Head(queue) = queue[1]
         /\ \A i \in DOMAIN queue' : i + 1 \in DOMAIN queue /\ queue'[i] = queue[i + 1]
<1>1. Len(queue) \in Nat \ {0} /\ DOMAIN queue = 1 .. Len(queue)
  OBVIOUS
<1>2. Len(queue') = Len(queue) - 1 /\ queue' \in Seq(Pushes)
      /\ \A i \in 1 .. Len(queue) - 1 : queue'[i] = queue[i + 1]
  OBVIOUS
<1>3. DOMAIN queue' = 1 .. Len(queue) - 1
  BY <1>2
<1> QED BY <1>1, <1>2, <1>3

\* At most one amend is in flight; those before it are adrift or over, those after it idle.
LEMMA OneInFlight ==
  ASSUME Sound, NEW a \in InFlight
  PROVE  /\ InFlight = {a} /\ a \in Amends /\ amend[a] \in AmendOf /\ amend[a].sent \in OwnTerms
         /\ amend[a].sent.price \in Nat /\ amend[a].sent.vol \in Nat
         /\ \A b \in Amends : b > a => amend[b].phase = "idle"
         /\ \A b \in Amends : b < a => amend[b].phase \in {"adrift", "over"}
         /\ amend[a].phase = "back" => \A b \in Amends : b < a => amend[b].phase = "over"
<1>1. a \in Amends /\ amend[a].phase \in {"out", "back"} /\ Amends \subseteq Nat
  BY BoundAssumption DEF InFlight, Amends
<1>2. \A b \in Amends : amend[b] \in AmendOf /\ amend[b].phase \in Phases
  BY DEF Sound, VenueTyped, AmendOf
<1>3. \A b \in Amends : b > a => amend[b].phase = "idle"
  BY <1>1 DEF Sound, InOrder
<1>4. \A b \in Amends : b < a => amend[b].phase \in {"adrift", "over"}
  BY <1>1, <1>2 DEF Sound, InOrder, Phases
<1>5. amend[a].phase = "back" => \A b \in Amends : b < a => amend[b].phase = "over"
  BY <1>1 DEF Sound, InOrder
<1>6. InFlight = {a}
  <2>1. \A b \in Amends : b = a \/ b < a \/ b > a
    BY <1>1
  <2>2. \A b \in InFlight : b = a
    BY <1>3, <1>4, <2>1 DEF InFlight
  <2> QED BY <2>2
<1>7. amend[a].sent \in OwnTerms
  <2>1. amend[a].phase \in {"out", "back", "adrift"}
    BY <1>1
  <2> QED BY Zenon, <1>1, <2>1 DEF Sound, InOrder
<1>8. amend[a].sent.price \in Nat /\ amend[a].sent.vol \in Nat
  BY <1>7, TermsAssumption
<1> QED BY <1>1, <1>2, <1>3, <1>4, <1>5, <1>6, <1>7, <1>8

\* Views judged in turn: what is reported is one of them that is not the bot's own.
LEMMA JudgeTyped ==
  ASSUME NEW ts, NEW known, NEW views \in Seq(Views), Judge(ts, known, views),
         reported \in BOOLEAN, attrSeen \in Attrs \union {None}
  PROVE  /\ reported' \in BOOLEAN /\ attrSeen' \in Attrs \union {None}
         /\ attrSeen' = attrSeen \/ \E i \in DOMAIN views : attrSeen' = views[i].attr
         /\ (\A i \in DOMAIN views : Own(ts, known, views[i])) => reported' = reported
<1> DEFINE foreign == {i \in DOMAIN views : ~Own(ts, known, views[i])}
           last == IF foreign = {} THEN Len(views) ELSE CHOOSE i \in foreign : \A j \in foreign : i <= j
<1>1. Len(views) \in Nat /\ DOMAIN views = 1 .. Len(views)
  OBVIOUS
<1>2. foreign \subseteq DOMAIN views
  OBVIOUS
<1> HIDE DEF foreign
<1>3. foreign # {} => last \in DOMAIN views
  <2> SUFFICES ASSUME foreign # {} PROVE last \in DOMAIN views
    OBVIOUS
  <2>1. foreign \subseteq Nat
    BY <1>1, <1>2
  <2>2. \E i \in foreign : \A j \in foreign : i <= j
    BY <2>1, LeastOf
  <2>3. last \in foreign
    BY <2>2
  <2> QED BY <1>2, <2>3
<1>4. foreign = {} /\ views # <<>> => last \in DOMAIN views
  BY <1>1
<1> HIDE DEF last
<1>5. CASE reported
  BY <1>5 DEF Judge
<1>6. CASE ~reported
  <2>1. /\ reported' = (foreign # {})
        /\ attrSeen' = IF views = <<>> THEN attrSeen ELSE views[last].attr
    BY Zenon, <1>6 DEF Judge, foreign, last
  <2>2. views # <<>> => last \in DOMAIN views
    BY <1>3, <1>4
  <2>3. \A i \in DOMAIN views : views[i].attr \in Attrs
    <3>1. \A i \in DOMAIN views : views[i] \in Views
      OBVIOUS
    <3> QED BY <3>1 DEF Views, Attrs
  <2>4. (\A i \in DOMAIN views : Own(ts, known, views[i])) => foreign = {}
    BY DEF foreign
  <2>5. reported' \in BOOLEAN /\ (foreign = {} => reported' = reported)
    BY <1>6, <2>1
  <2>6. CASE views = <<>>
    BY <2>1, <2>4, <2>5, <2>6
  <2>7. CASE views # <<>>
    <3>1. attrSeen' = views[last].attr /\ last \in DOMAIN views
      BY <2>1, <2>2, <2>7
    <3> QED BY <2>3, <2>4, <2>5, <3>1
  <2> QED BY <2>6, <2>7
<1> QED BY <1>5, <1>6

\* A held view is judged once no amend is in flight.
LEMMA HeldTyped ==
  ASSUME held \in Views \union {None}
  PROVE  /\ HeldNow \in Seq(Views) /\ Released \in Views \union {None} /\ Released \in {held, None}
         /\ \A i \in DOMAIN HeldNow : HeldNow[i] = held /\ held # None /\ InFlight = {}
         /\ \A v \in Views : /\ <<v>> \o HeldNow \in Seq(Views)
                             /\ \A i \in DOMAIN (<<v>> \o HeldNow) :
                                  (<<v>> \o HeldNow)[i] = v
                                    \/ ((<<v>> \o HeldNow)[i] = held /\ held # None /\ InFlight = {})
<1>1. Released \in Views \union {None} /\ Released \in {held, None}
  BY DEF Released
<1>2. CASE held # None /\ InFlight = {}
  BY <1>1, <1>2 DEF HeldNow
<1>3. CASE ~(held # None /\ InFlight = {})
  BY <1>1, <1>3 DEF HeldNow
<1> QED BY <1>2, <1>3

-----------------------------------------------------------------------------
(* Every step keeps it *)

\* An amend that is not sent, and one that is over, have no answer.
LEMMA IdleTyped ==
  /\ Idle \in AmendOf /\ Idle.phase = "idle" /\ Idle.answer = None
  /\ Over \in AmendOf /\ Over.phase = "over" /\ Over.answer = None
<1>1. <<>> \in Seq(EntryOf)
  OBVIOUS
<1>2. Idle \in AmendOf /\ Idle.phase = "idle" /\ Idle.answer = None
  BY <1>1 DEF Idle, AmendOf, Phases
<1>3. Over = [phase |-> "over", sent |-> None, before |-> <<>>, answer |-> None]
  BY DEF Over, Idle
<1>4. Over \in AmendOf /\ Over.phase = "over" /\ Over.answer = None
  BY <1>1, <1>3 DEF AmendOf, Phases
<1> QED BY <1>2, <1>4

\* The placed order is in the journal, and no amend is sent.
LEMMA InitSound == Init => Sound
<1> SUFFICES ASSUME Init PROVE Sound
  OBVIOUS
<1> DEFINE e(ans) == Entry(1, Volume, ans)
<1>1. ASSUME NEW ans \in Answers \union {None}
      PROVE  /\ <<e(ans)>> \in Seq(EntryOf) /\ <<e(ans)>> # <<>> /\ Unique(<<e(ans)>>)
  <2>1. e(ans) \in EntryOf
    BY TermsAssumption DEF Entry, EntryOf
  <2> HIDE DEF e
  <2>2. <<e(ans)>> \in Seq(EntryOf) /\ DOMAIN <<e(ans)>> = {1} /\ <<e(ans)>> # <<>>
    BY <2>1
  <2> QED BY <2>2 DEF Unique
<1>2. [vol |-> Volume, exec |-> 0] \in Answers
  BY TermsAssumption DEF Answers
<1>3. terms \in Seq(EntryOf) /\ terms # <<>> /\ Unique(terms)
  BY <1>1, <1>2 DEF Init
<1>4. Idle \in AmendOf /\ Idle.phase = "idle" /\ Idle.answer = None
  BY IdleTyped
<1>5. amend \in [Amends -> AmendOf] /\ \A a \in Amends : amend[a].phase = "idle" /\ amend[a].answer = None
  BY <1>4 DEF Init
<1>6. order \in Orders
  BY TermsAssumption DEF Init, Orders, Attrs
<1>7. VenueTyped
  BY <1>3, <1>5, <1>6, MeaningAssumption DEF Init, VenueTyped
<1>8. BotTyped
  BY DEF Init, BotTyped, Attrs
<1>9. InOrder
  BY <1>5 DEF InOrder
<1>10. Journal
  BY <1>3, <1>5 DEF Journal, InFlight
<1> QED BY <1>7, <1>8, <1>9, <1>10 DEF Sound

\* Steps that change neither an amend nor the journal.
LEMMA KeepAmends ==
  ASSUME InOrder, Journal, UNCHANGED <<amend, terms>>
  PROVE  InOrder' /\ Journal'
<1>1. InOrder'
  BY Zenon DEF InOrder
<1>2. Journal'
  BY Zenon DEF Journal, InFlight
<1> QED BY <1>1, <1>2

\* A fill only shows the order once more.
LEMMA FillSound ==
  ASSUME Sound, Fill PROVE Sound'
<1>1. order' \in Orders
  <2>1. order' = [order EXCEPT !.exec = @ + 1] /\ order.exec + 1 < order.total
    BY DEF Fill
  <2> QED BY <2>1 DEF Sound, VenueTyped, Orders
<1>2. queue' \in Seq(Pushes)
  BY <1>1, PushTyped DEF Fill, Sound, VenueTyped
<1>3. VenueTyped'
  BY <1>1, <1>2 DEF Sound, VenueTyped, Fill, journalVars
<1>4. BotTyped'
  BY DEF Sound, BotTyped, Fill, journalVars, amendVars, historyVars
<1>5. InOrder' /\ Journal'
  BY KeepAmends DEF Sound, Fill, journalVars
<1> QED BY <1>3, <1>4, <1>5 DEF Sound

\* Someone else's edit changes the order, never the journal.
LEMMA EditSound ==
  ASSUME Sound, Edit PROVE Sound'
<1>1. order' \in Orders
  <2>1. PICK e \in Edits : e.total > order.exec
                            /\ order' = [order EXCEPT !.price = e.price, !.total = e.total, !.attr = e.attr]
    BY DEF Edit
  <2>2. e.price \in Nat /\ e.total \in Nat /\ e.attr \in Attrs
    BY TermsAssumption DEF Attrs
  <2> QED BY <2>1, <2>2 DEF Sound, VenueTyped, Orders
<1>2. queue' \in Seq(Pushes)
  BY <1>1, PushTyped DEF Edit, Sound, VenueTyped
<1>3. VenueTyped'
  BY <1>1, <1>2 DEF Sound, VenueTyped, Edit, journalVars
<1>4. BotTyped'
  BY DEF Sound, BotTyped, Edit, journalVars, amendVars
<1>5. InOrder' /\ Journal'
  BY KeepAmends DEF Sound, Edit, journalVars
<1> QED BY <1>3, <1>4, <1>5 DEF Sound

\* The terms sent go last in the journal; the amend keeps what it held before.
LEMMA SendSound ==
  ASSUME Sound, NEW a \in Amends, Send(a) PROVE Sound'
<1>1. PICK sent \in OwnTerms :
        /\ terms' = RememberTerms(terms, sent.price, sent.vol)
        /\ amend' = [amend EXCEPT ![a] = [phase |-> "out", sent |-> sent, before |-> terms, answer |-> None]]
  BY DEF Send
<1>2. sent.price \in Nat /\ sent.vol \in Nat
  BY TermsAssumption
<1>3. terms \in Seq(EntryOf) /\ Unique(terms) /\ terms # <<>> /\ amend \in [Amends -> AmendOf]
  BY DEF Sound, VenueTyped, Journal
<1>4. terms' \in Seq(EntryOf) /\ terms' # <<>> /\ Unique(terms')
  BY <1>1, <1>2, <1>3, Remembered
<1> DEFINE x == [phase |-> "out", sent |-> sent, before |-> terms, answer |-> None]
<1>5. x \in AmendOf /\ x.phase = "out" /\ x.sent = sent /\ x.before = terms /\ x.answer = None
  BY <1>3 DEF AmendOf, Phases
<1>6. amend' = [amend EXCEPT ![a] = x]
  BY <1>1
<1> HIDE DEF x
<1>7. amend' \in [Amends -> AmendOf] /\ amend'[a] = x /\ \A b \in Amends : b # a => amend'[b] = amend[b]
  BY <1>3, <1>5, <1>6
<1>8. VenueTyped'
  BY <1>4, <1>7 DEF Sound, VenueTyped, Send, venueVars
<1>9. BotTyped'
  BY DEF Sound, BotTyped, Send, historyVars
<1>10. \A b \in Amends : amend[b].phase \in Phases /\ amend[b].phase \notin {"out", "back"}
  BY <1>3 DEF Send, InFlight, AmendOf
<1>11. amend[a].phase = "idle" /\ \A b \in Amends : b < a => amend[b].phase # "idle"
  BY DEF Send
<1>12. Amends \subseteq Nat
  BY DEF Amends
<1>13. \A b, c \in Amends : b < c /\ amend[b].phase = "idle" => amend[c].phase = "idle"
  BY DEF Sound, InOrder
<1>14. InOrder'
  <2>1. \A b, c \in Amends : b < c /\ amend'[b].phase \in {"idle", "out", "back"} => amend'[c].phase = "idle"
    <3> SUFFICES ASSUME NEW b \in Amends, NEW c \in Amends, b < c, amend'[b].phase \in {"idle", "out", "back"}
                 PROVE  amend'[c].phase = "idle"
      OBVIOUS
    <3>1. CASE c = a
      <4>1. b # a /\ amend[b].phase \in {"idle", "out", "back"}
        BY <1>7, <1>12, <3>1
      <4> QED BY <1>10, <1>11, <3>1, <4>1
    <3>2. CASE c # a /\ b = a
      BY <1>7, <1>11, <1>13, <3>2
    <3>3. CASE c # a /\ b # a
      BY <1>7, <1>10, <1>13, <3>3
    <3> QED BY <3>1, <3>2, <3>3
  <2>2. \A b, c \in Amends : b < c /\ amend'[c].phase = "back" => amend'[b].phase = "over"
    BY <1>5, <1>7, <1>10
  <2>3. \A b \in Amends : amend'[b].phase \in {"out", "back", "adrift"} => amend'[b].sent \in OwnTerms
    BY <1>5, <1>7 DEF Sound, InOrder
  <2>4. \A b \in Amends : amend'[b].phase # "back" => amend'[b].answer = None
    BY <1>5, <1>7 DEF Sound, InOrder
  <2> QED BY <2>1, <2>2, <2>3, <2>4 DEF InOrder
<1>15. Journal'
  <2>1. \A b \in InFlight' : b = a
    BY <1>7, <1>10 DEF InFlight
  <2>2. terms' = RememberTerms(amend'[a].before, amend'[a].sent.price, amend'[a].sent.vol)
    BY <1>1, <1>5, <1>7
  <2> QED BY <1>3, <1>4, <1>5, <1>7, <2>1, <2>2 DEF Journal
<1> QED BY <1>8, <1>9, <1>14, <1>15 DEF Sound

\* The amend that ends leaves no amend in flight.
LEMMA AmendOver ==
  ASSUME Sound, NEW a \in InFlight, amend' = [amend EXCEPT ![a] = Over]
  PROVE  amend' \in [Amends -> AmendOf] /\ InOrder' /\ InFlight' = {}
<1>1. Over \in AmendOf /\ Over.phase = "over" /\ Over.answer = None
  BY IdleTyped
<1>2. amend \in [Amends -> AmendOf] /\ a \in Amends /\ InFlight = {a}
      /\ \A b \in Amends : b < a => amend[b].phase \in {"adrift", "over"}
  BY OneInFlight DEF Sound, VenueTyped
<1> HIDE DEF Over
<1>3. amend' \in [Amends -> AmendOf] /\ amend'[a] = Over /\ \A b \in Amends : b # a => amend'[b] = amend[b]
  BY <1>1, <1>2
<1>4. InFlight' = {}
  <2> SUFFICES ASSUME NEW b \in Amends, amend'[b].phase \in {"out", "back"} PROVE FALSE
    BY DEF InFlight
  <2>1. b # a
    BY <1>1, <1>3
  <2>2. b \in InFlight
    BY <1>3, <2>1 DEF InFlight
  <2> QED BY <1>2, <2>1, <2>2
<1>5. InOrder'
  <2>1. \A b, c \in Amends : b < c /\ amend'[b].phase \in {"idle", "out", "back"} => amend'[c].phase = "idle"
    <3> SUFFICES ASSUME NEW b \in Amends, NEW c \in Amends, b < c, amend'[b].phase \in {"idle", "out", "back"}
                 PROVE  amend'[c].phase = "idle"
      OBVIOUS
    <3>1. b # a /\ amend[b].phase \in {"idle", "out", "back"}
      BY <1>1, <1>3
    <3>2. CASE c = a
      <4>1. amend[b].phase \in {"adrift", "over"}
        BY <1>2, <3>2
      <4> QED BY <3>1, <4>1
    <3>3. CASE c # a
      BY <1>3, <3>1, <3>3 DEF Sound, InOrder
    <3> QED BY <3>2, <3>3
  <2>2. \A b, c \in Amends : b < c /\ amend'[c].phase = "back" => amend'[b].phase = "over"
    BY <1>1, <1>3 DEF Sound, InOrder
  <2>3. \A b \in Amends : amend'[b].phase \in {"out", "back", "adrift"} => amend'[b].sent \in OwnTerms
    BY <1>1, <1>3 DEF Sound, InOrder
  <2>4. \A b \in Amends : amend'[b].phase # "back" => amend'[b].answer = None
    BY <1>1, <1>3 DEF Sound, InOrder
  <2> QED BY <2>1, <2>2, <2>3, <2>4 DEF InOrder
<1> QED BY <1>3, <1>4, <1>5

\* The end of an own amend makes a snapshot under way stale.
LEMMA EndedTyped ==
  ASSUME snap \in [view : Views, stale : BOOLEAN] \union {None}, Ended
  PROVE  /\ snap' \in [view : Views, stale : BOOLEAN] \union {None}
         /\ attrBefore' = None /\ watch' = None
         /\ snap' # None => (snap # None /\ snap'.stale /\ snap'.view = snap.view)
BY DEF Ended

\* An answer is entered with the amend's terms.
LEMMA AnsweredSound ==
  ASSUME Sound, NEW a \in Amends, Answered(a) PROVE Sound'
<1>1. a \in InFlight
  BY DEF Answered, InFlight
<1>2. amend' = [amend EXCEPT ![a] = Over]
  BY DEF Answered
<1>3. amend' \in [Amends -> AmendOf] /\ InOrder' /\ InFlight' = {}
  BY <1>1, <1>2, AmendOver
<1> DEFINE view == amend[a].answer
<1>4. view \in Views
  BY DEF Answered, Sound, VenueTyped, AmendOf
<1>5. view.vol \in Nat /\ view.exec \in Nat /\ view.attr \in Attrs
  BY <1>4 DEF Views, Attrs
<1>6. terms' = RememberAnswer(terms, amend[a].sent, view)
      /\ attrSeen' = view.attr /\ attrs' \in {attrs, attrs \union {view.attr}}
      /\ noticed' = (noticed \/ Unexplained(view))
  BY DEF Answered
<1> HIDE DEF view
<1>7. terms \in Seq(EntryOf) /\ terms # <<>> /\ Unique(terms)
  BY DEF Sound, VenueTyped, Journal
<1>8. terms' \in Seq(EntryOf) /\ Len(terms') = Len(terms) /\ DOMAIN terms' = DOMAIN terms
      /\ \A i \in DOMAIN terms : terms'[i].price = terms[i].price /\ terms'[i].vol = terms[i].vol
  BY <1>5, <1>6, <1>7, AnswerKept
<1>9. terms' # <<>> /\ Unique(terms')
  <2>1. terms' # <<>>
    BY <1>7, <1>8
  <2>2. Unique(terms')
    BY <1>7, <1>8 DEF Unique, Same
  <2> QED BY <2>1, <2>2
<1>10. VenueTyped'
  BY <1>3, <1>8 DEF Sound, VenueTyped, Answered, venueVars
<1>11. snap' \in [view : Views, stale : BOOLEAN] \union {None} /\ attrBefore' = None /\ watch' = None
  <2>1. Ended
    BY Zenon DEF Answered
  <2>2. snap \in [view : Views, stale : BOOLEAN] \union {None}
    BY Zenon DEF Sound, BotTyped
  <2> QED BY <2>1, <2>2, EndedTyped
<1>12. noticed' \in BOOLEAN
  BY Zenon, <1>6
<1>13. BotTyped'
  BY <1>5, <1>6, <1>11, <1>12 DEF Sound, BotTyped, Answered
<1>14. Journal'
  BY <1>3, <1>9 DEF Journal
<1> QED BY <1>3, <1>10, <1>13, <1>14 DEF Sound

\* A refused amend leaves the journal as it was when it was sent.
LEMMA RefusedSound ==
  ASSUME Sound, NEW a \in Amends, Refused(a)
  PROVE  Sound' /\ terms' = amend[a].before /\ InFlight' = {}
<1>1. a \in InFlight
  BY DEF Refused, InFlight
<1>2. amend' = [amend EXCEPT ![a] = Over]
  BY DEF Refused
<1>3. amend' \in [Amends -> AmendOf] /\ InOrder' /\ InFlight' = {}
  BY <1>1, <1>2, AmendOver
<1>4. amend[a] \in AmendOf /\ amend[a].sent.price \in Nat /\ amend[a].sent.vol \in Nat
  BY <1>1, OneInFlight
<1>5. amend[a].before \in Seq(EntryOf) /\ amend[a].before # <<>> /\ Unique(amend[a].before)
      /\ terms = RememberTerms(amend[a].before, amend[a].sent.price, amend[a].sent.vol)
  BY <1>1, <1>4 DEF Sound, Journal, AmendOf
<1>6. terms' = amend[a].before
  BY Zenon, <1>4, <1>5, Withdrawn DEF Refused
<1>7. VenueTyped'
  BY <1>3, <1>5, <1>6 DEF Sound, VenueTyped, Refused, venueVars
<1>8. snap' \in [view : Views, stale : BOOLEAN] \union {None} /\ attrBefore' = None /\ watch' = None
  <2>1. Ended
    BY Zenon DEF Refused
  <2>2. snap \in [view : Views, stale : BOOLEAN] \union {None}
    BY Zenon DEF Sound, BotTyped
  <2> QED BY <2>1, <2>2, EndedTyped
<1>9. BotTyped'
  BY <1>8 DEF Sound, BotTyped, Refused, historyVars
<1>10. Journal'
  BY <1>3, <1>5, <1>6 DEF Journal
<1> QED BY <1>3, <1>6, <1>7, <1>9, <1>10 DEF Sound

\* What becomes of an amend the venue has handled.
LEMMA ReturnTyped ==
  ASSUME Sound, NEW a \in Amends, AtVenue(a), NEW answer \in Views \union {None}, Return(a, answer)
  PROVE  /\ amend' \in [Amends -> AmendOf] /\ InOrder' /\ InFlight' = InFlight
         /\ \A b \in Amends : b # a => amend'[b] = amend[b]
         /\ IF amend[a].phase = "out"
            THEN /\ amend'[a].phase = "back" /\ amend'[a].answer = answer
                 /\ amend'[a].sent = amend[a].sent /\ amend'[a].before = amend[a].before
            ELSE amend'[a] = Over /\ amend[a].phase = "adrift"
         /\ (Journal /\ UNCHANGED terms) => Journal'
<1> DEFINE x == IF amend[a].phase = "out" THEN [amend[a] EXCEPT !.phase = "back", !.answer = answer] ELSE Over
<1>1. amend \in [Amends -> AmendOf] /\ amend[a] \in AmendOf /\ amend[a].phase \in {"out", "adrift"}
  BY DEF Sound, VenueTyped, AtVenue
<1>2. amend' = [amend EXCEPT ![a] = x]
  BY DEF Return
<1>3. CASE amend[a].phase = "out"
  <2>1. x \in AmendOf /\ x.phase = "back" /\ x.answer = answer /\ x.sent = amend[a].sent
        /\ x.before = amend[a].before
    BY <1>1, <1>3 DEF AmendOf, Phases
  <2> HIDE DEF x
  <2>2. amend' \in [Amends -> AmendOf] /\ amend'[a] = x /\ \A b \in Amends : b # a => amend'[b] = amend[b]
    BY <1>1, <1>2, <2>1
  <2>3. InFlight' = InFlight
    BY <1>3, <2>1, <2>2 DEF InFlight
  <2>4. a \in InFlight
    BY <1>3 DEF InFlight
  <2>5. /\ \A b \in Amends : b > a => amend[b].phase = "idle"
        /\ \A b \in Amends : b < a => amend[b].phase \in {"adrift", "over"}
    BY <2>4, OneInFlight
  <2>6. \A b \in Amends : b < a => amend[b].phase = "over"
    <3> SUFFICES ASSUME NEW b \in Amends, b < a PROVE amend[b].phase = "over"
      OBVIOUS
    <3>1. amend[b].phase \notin {"out", "adrift"}
      BY DEF AtVenue
    <3> QED BY <2>5, <3>1
  <2>7. InOrder'
    <3>1. \A b, c \in Amends : b < c /\ amend'[b].phase \in {"idle", "out", "back"} => amend'[c].phase = "idle"
      <4> SUFFICES ASSUME NEW b \in Amends, NEW c \in Amends, b < c, amend'[b].phase \in {"idle", "out", "back"}
                   PROVE  amend'[c].phase = "idle"
        OBVIOUS
      <4>0. b \in Nat /\ c \in Nat
        BY DEF Amends
      <4>1. CASE c = a
        BY <2>2, <2>6, <4>0, <4>1
      <4>2. CASE b = a
        BY <2>2, <2>5, <4>0, <4>2
      <4>3. CASE c # a /\ b # a
        BY <2>2, <4>3 DEF Sound, InOrder
      <4> QED BY <4>1, <4>2, <4>3
    <3>2. \A b, c \in Amends : b < c /\ amend'[c].phase = "back" => amend'[b].phase = "over"
      <4> SUFFICES ASSUME NEW b \in Amends, NEW c \in Amends, b < c, amend'[c].phase = "back"
                   PROVE  amend'[b].phase = "over"
        OBVIOUS
      <4>0. b \in Nat /\ c \in Nat
        BY DEF Amends
      <4>1. CASE c = a
        BY <2>2, <2>6, <4>0, <4>1
      <4>2. CASE b = a
        BY <2>2, <2>5, <4>0, <4>2
      <4>3. CASE c # a /\ b # a
        BY <2>2, <4>3 DEF Sound, InOrder
      <4> QED BY <4>1, <4>2, <4>3
    <3>3. \A b \in Amends : amend'[b].phase \in {"out", "back", "adrift"} => amend'[b].sent \in OwnTerms
      BY <1>3, <2>1, <2>2 DEF Sound, InOrder
    <3>4. \A b \in Amends : amend'[b].phase # "back" => amend'[b].answer = None
      BY <2>1, <2>2 DEF Sound, InOrder
    <3> QED BY <3>1, <3>2, <3>3, <3>4 DEF InOrder
  <2>8. (Journal /\ UNCHANGED terms) => Journal'
    <3> SUFFICES ASSUME Journal, UNCHANGED terms PROVE Journal'
      OBVIOUS
    <3>1. \A b \in InFlight : amend'[b].before = amend[b].before /\ amend'[b].sent = amend[b].sent
      BY <2>1, <2>2 DEF InFlight
    <3> QED BY <2>3, <3>1 DEF Journal
  <2> QED BY <1>3, <2>1, <2>2, <2>3, <2>7, <2>8
<1>4. CASE amend[a].phase = "adrift"
  <2>1. x = Over
    BY <1>4
  <2> HIDE DEF x
  <2>2. amend' \in [Amends -> AmendOf] /\ amend'[a] = Over /\ \A b \in Amends : b # a => amend'[b] = amend[b]
    BY <1>1, <1>2, <2>1, IdleTyped
  <2>3. Over.phase = "over" /\ Over.answer = None
    BY IdleTyped
  <2>4. InFlight' = InFlight
    BY <1>4, <2>2, <2>3 DEF InFlight
  <2>5. InOrder'
    <3>1. \A b, c \in Amends : b < c /\ amend'[b].phase \in {"idle", "out", "back"} => amend'[c].phase = "idle"
      <4> SUFFICES ASSUME NEW b \in Amends, NEW c \in Amends, b < c, amend'[b].phase \in {"idle", "out", "back"}
                   PROVE  amend'[c].phase = "idle"
        OBVIOUS
      <4>1. b # a
        BY <2>2, <2>3
      <4>2. amend[c].phase = "idle"
        BY <2>2, <4>1 DEF Sound, InOrder
      <4>3. c # a
        BY <1>4, <4>2
      <4> QED BY <2>2, <4>2, <4>3
    <3>2. \A b, c \in Amends : b < c /\ amend'[c].phase = "back" => amend'[b].phase = "over"
      BY <2>2, <2>3 DEF Sound, InOrder
    <3>3. \A b \in Amends : amend'[b].phase \in {"out", "back", "adrift"} => amend'[b].sent \in OwnTerms
      BY <2>2, <2>3 DEF Sound, InOrder
    <3>4. \A b \in Amends : amend'[b].phase # "back" => amend'[b].answer = None
      BY <2>2, <2>3 DEF Sound, InOrder
    <3> QED BY <3>1, <3>2, <3>3, <3>4 DEF InOrder
  <2>6. (Journal /\ UNCHANGED terms) => Journal'
    <3> SUFFICES ASSUME Journal, UNCHANGED terms PROVE Journal'
      OBVIOUS
    <3>1. \A b \in InFlight : amend'[b] = amend[b]
      BY <1>4, <2>2 DEF InFlight
    <3> QED BY <2>4, <3>1 DEF Journal
  <2> QED BY <1>4, <2>2, <2>4, <2>5, <2>6
<1> QED BY <1>1, <1>3, <1>4

\* The venue refuses an amend, or never gets it.
LEMMA RefuseSound ==
  ASSUME Sound, NEW a \in Amends, Refuse(a) PROVE Sound'
<1>1. amend' \in [Amends -> AmendOf] /\ InOrder' /\ Journal'
  BY ReturnTyped DEF Refuse, Sound, journalVars
<1>2. VenueTyped'
  BY <1>1 DEF Sound, VenueTyped, Refuse, venueVars, journalVars
<1>3. BotTyped'
  BY DEF Sound, BotTyped, Refuse, journalVars, amendVars, historyVars
<1> QED BY <1>1, <1>2, <1>3 DEF Sound

\* What an accepted amend makes of the order: the bot's terms, and an attribute the
\* venue may have filled in.
LEMMA AcceptedOrder ==
  ASSUME Sound, NEW a \in Amends, Accept(a)
  PROVE  /\ order' \in Orders /\ order'.price = amend[a].sent.price /\ order'.exec = order.exec
         /\ means.takes = "whole" => order'.total = amend[a].sent.vol
         /\ \/ order'.attr = order.attr
            \/ VenueSets /\ amend[a].phase = "out" /\ Alone(a)
         /\ queue' \in Seq(Pushes)
         /\ \A i \in DOMAIN queue' :
              \/ i \in DOMAIN queue /\ queue'[i] = queue[i]
              \/ queue'[i] = [kind |-> "replaced", view |-> View(order')]
         /\ View(order') \in Views /\ Return(a, View(order'))
<1>1. amend[a].phase \in {"out", "adrift"}
  BY DEF Accept, AtVenue
<1>2. amend[a].sent \in OwnTerms
  <2>1. amend[a].phase \in {"out", "back", "adrift"}
    BY <1>1
  <2> QED BY Zenon, <2>1 DEF Sound, InOrder
<1>3. amend[a].sent.price \in Nat /\ amend[a].sent.vol \in Nat
  BY <1>2, TermsAssumption
<1> DEFINE total == IF means.takes = "whole" THEN amend[a].sent.vol ELSE order.exec + amend[a].sent.vol
<1>4. PICK attr \in {order.attr} \union (IF VenueSets /\ Alone(a) /\ amend[a].phase = "out" THEN {"set"} ELSE {}),
           echoed \in BOOLEAN :
        /\ total > order.exec
        /\ order' = [order EXCEPT !.price = amend[a].sent.price, !.total = total, !.attr = attr]
        /\ IF echoed THEN Len(queue) < MaxQueue /\ Push("replaced") ELSE UNCHANGED queue
        /\ Return(a, View(order'))
  BY Zenon DEF Accept
<1>5. order \in Orders /\ order.attr \in Attrs /\ order.exec \in Nat
  BY DEF Sound, VenueTyped, Orders
<1>6. total \in Nat /\ (means.takes = "whole" => total = amend[a].sent.vol)
  BY <1>3, <1>5
<1> HIDE DEF total
<1>7. attr \in Attrs /\ (attr = order.attr \/ (VenueSets /\ amend[a].phase = "out" /\ Alone(a)))
  BY <1>4, <1>5 DEF Attrs
<1>8. /\ order' \in Orders /\ order'.price = amend[a].sent.price /\ order'.exec = order.exec
      /\ order'.total = total /\ order'.attr = attr
  BY <1>3, <1>4, <1>5, <1>6, <1>7 DEF Orders
<1>9. View(order') \in Views
  BY <1>8, ViewTyped DEF Sound, VenueTyped
<1>10. /\ queue' \in Seq(Pushes)
       /\ \A i \in DOMAIN queue' :
            \/ i \in DOMAIN queue /\ queue'[i] = queue[i]
            \/ queue'[i] = [kind |-> "replaced", view |-> View(order')]
  <2>0. means \in [shows : Meanings, takes : Meanings] /\ queue \in Seq(Pushes)
    BY DEF Sound, VenueTyped
  <2>1. CASE echoed
    <3>1. Push("replaced")
      BY <1>4, <2>1
    <3> QED BY <1>8, <2>0, <3>1, PushTyped
  <2>2. CASE ~echoed
    BY <1>4, <2>0, <2>2
  <2> QED BY <2>1, <2>2
<1> QED BY <1>4, <1>6, <1>7, <1>8, <1>9, <1>10

\* The venue executes an amend.
LEMMA AcceptSound ==
  ASSUME Sound, NEW a \in Amends, Accept(a) PROVE Sound'
<1>1. order' \in Orders /\ queue' \in Seq(Pushes) /\ View(order') \in Views /\ Return(a, View(order'))
  BY AcceptedOrder
<1>2. AtVenue(a) /\ terms' = terms
  BY DEF Accept, journalVars
<1>3. amend' \in [Amends -> AmendOf] /\ InOrder' /\ Journal'
  BY <1>1, <1>2, ReturnTyped DEF Sound
<1>4. VenueTyped'
  BY <1>1, <1>2, <1>3 DEF Sound, VenueTyped, Accept
<1>5. BotTyped'
  BY DEF Sound, BotTyped, Accept, journalVars, amendVars, historyVars
<1> QED BY <1>3, <1>4, <1>5 DEF Sound

\* The amends As are given up: none stays in flight.
LEMMA AdriftTyped ==
  ASSUME Sound, NEW As, InFlight \subseteq As, As \subseteq InFlight, amend' = Adrift(As)
  PROVE  /\ amend' \in [Amends -> AmendOf] /\ InOrder' /\ InFlight' = {}
         /\ \A b \in Amends : b \notin InFlight => amend'[b] = amend[b]
         /\ \A b \in InFlight : /\ amend'[b].phase = "adrift" => amend'[b].sent = amend[b].sent
                                /\ amend'[b].phase = IF amend[b].phase = "out" THEN "adrift" ELSE "over"
<1> DEFINE d(b) == [Idle EXCEPT !.phase = "adrift", !.sent = amend[b].sent]
           x(b) == IF b \notin As THEN amend[b] ELSE IF amend[b].phase = "out" THEN d(b) ELSE Over
<1>0. As = InFlight
  OBVIOUS
<1>1. amend \in [Amends -> AmendOf]
  BY DEF Sound, VenueTyped
<1>2. ASSUME NEW b \in Amends
      PROVE  d(b) \in AmendOf /\ d(b).phase = "adrift" /\ d(b).sent = amend[b].sent /\ d(b).answer = None
  <2>1. Idle \in AmendOf /\ Idle.answer = None
    BY IdleTyped
  <2>2. amend[b].sent \in OwnTerms \union {None}
    BY <1>1 DEF AmendOf
  <2> QED BY <2>1, <2>2 DEF AmendOf, Phases
<1> HIDE DEF d
<1>3. amend' = [b \in Amends |-> x(b)]
  BY DEF Adrift, d
<1>4. \A b \in Amends : amend'[b] = x(b)
  BY <1>3
<1>5. \A b \in Amends : x(b) \in AmendOf
  BY <1>1, <1>2, IdleTyped
<1> HIDE DEF x
<1>6. amend' \in [Amends -> AmendOf]
  BY <1>3, <1>5
<1>7. \A b \in Amends : b \notin InFlight => amend'[b] = amend[b]
  BY <1>0, <1>4 DEF x
<1>8. \A b \in InFlight : amend'[b] = IF amend[b].phase = "out" THEN d(b) ELSE Over
  BY <1>0, <1>4 DEF x, InFlight
<1>9. \A b \in InFlight : /\ amend'[b].phase = IF amend[b].phase = "out" THEN "adrift" ELSE "over"
                          /\ amend'[b].answer = None
                          /\ amend'[b].phase = "adrift" => amend'[b].sent = amend[b].sent
  BY <1>2, <1>8, IdleTyped DEF InFlight
<1>10. InFlight' = {}
  <2> SUFFICES ASSUME NEW b \in Amends, amend'[b].phase \in {"out", "back"} PROVE FALSE
    BY DEF InFlight
  <2>1. CASE b \in InFlight
    BY <1>9, <2>1
  <2>2. CASE b \notin InFlight
    BY <1>7, <2>2 DEF InFlight
  <2> QED BY <2>1, <2>2
<1>11. InOrder'
  <2>1. \A b, c \in Amends : b < c /\ amend'[b].phase \in {"idle", "out", "back"} => amend'[c].phase = "idle"
    <3> SUFFICES ASSUME NEW b \in Amends, NEW c \in Amends, b < c, amend'[b].phase \in {"idle", "out", "back"}
                 PROVE  amend'[c].phase = "idle"
      OBVIOUS
    <3>1. b \notin InFlight /\ amend'[b] = amend[b]
      BY <1>7, <1>9
    <3>2. amend[c].phase = "idle"
      BY <3>1 DEF Sound, InOrder
    <3>3. c \notin InFlight
      BY <3>2 DEF InFlight
    <3> QED BY <1>7, <3>2, <3>3
  <2>2. \A b, c \in Amends : b < c /\ amend'[c].phase = "back" => amend'[b].phase = "over"
    BY <1>10 DEF InFlight
  <2>3. \A b \in Amends : amend'[b].phase \in {"out", "back", "adrift"} => amend'[b].sent \in OwnTerms
    <3> SUFFICES ASSUME NEW b \in Amends, amend'[b].phase \in {"out", "back", "adrift"}
                 PROVE  amend'[b].sent \in OwnTerms
      OBVIOUS
    <3>1. CASE b \in InFlight
      <4>1. amend'[b].sent = amend[b].sent
        BY <1>9, <3>1
      <4> QED BY <3>1, <4>1, OneInFlight
    <3>2. CASE b \notin InFlight
      BY <1>7, <3>2 DEF Sound, InOrder
    <3> QED BY <3>1, <3>2
  <2>4. \A b \in Amends : amend'[b].phase # "back" => amend'[b].answer = None
    <3> SUFFICES ASSUME NEW b \in Amends, amend'[b].phase # "back" PROVE amend'[b].answer = None
      OBVIOUS
    <3>1. CASE b \in InFlight
      BY <1>9, <3>1
    <3>2. CASE b \notin InFlight
      BY <1>7, <3>2 DEF Sound, InOrder
    <3> QED BY <3>1, <3>2
  <2> QED BY <2>1, <2>2, <2>3, <2>4 DEF InOrder
<1> QED BY <1>6, <1>7, <1>9, <1>10, <1>11

\* A lost answer, or a lost connection, gives every amend in flight up.
LEMMA LostSound ==
  ASSUME Sound, (\E a \in Amends : AnswerLost(a)) \/ LinkLost
  PROVE  /\ Sound' /\ InFlight' = {} /\ terms' = terms /\ amend' = Adrift(InFlight)
         /\ UNCHANGED <<order, means, attrs, attrSeen, held, semantics, reported, edits>>
         /\ queue' \in {queue, <<>>} /\ attrBefore' \in {attrBefore, None}
         /\ snap' = snap \/ (snap' # None => (snap # None /\ snap'.stale /\ snap'.view = snap.view))
         /\ \A a \in InFlight : Losable(a)
<1>1. amend' = Adrift(InFlight) /\ \A a \in InFlight : Losable(a)
  <2>1. ASSUME NEW a \in Amends, AnswerLost(a) PROVE amend' = Adrift(InFlight) /\ \A b \in InFlight : Losable(b)
    <3>1. InFlight = {a}
      BY <2>1, OneInFlight DEF AnswerLost
    <3> QED BY <2>1, <3>1 DEF AnswerLost
  <2>2. CASE LinkLost
    BY <2>2 DEF LinkLost
  <2> QED BY <2>1, <2>2
<1>2. amend' \in [Amends -> AmendOf] /\ InOrder' /\ InFlight' = {}
  BY <1>1, AdriftTyped
<1>3. /\ UNCHANGED <<order, means, terms, attrs, attrSeen, held, semantics, reported, noticed, baselined, edits, resized>>
      /\ queue' \in {queue, <<>>}
      /\ Ended \/ UNCHANGED <<attrBefore, watch, snap>>
  <2>1. CASE \E a \in Amends : AnswerLost(a)
    BY <2>1 DEF AnswerLost, venueVars, journalVars, historyVars
  <2>2. CASE LinkLost
    BY <2>2 DEF LinkLost, journalVars, historyVars
  <2> QED BY <2>1, <2>2
<1>4. /\ snap' \in [view : Views, stale : BOOLEAN] \union {None}
      /\ attrBefore' \in {attrBefore, None} /\ watch' \in {watch, None}
      /\ snap' = snap \/ (snap' # None => (snap # None /\ snap'.stale /\ snap'.view = snap.view))
  <2>0. snap \in [view : Views, stale : BOOLEAN] \union {None}
    BY DEF Sound, BotTyped
  <2>1. CASE Ended
    BY <2>0, <2>1, EndedTyped
  <2>2. CASE UNCHANGED <<attrBefore, watch, snap>>
    BY <2>0, <2>2
  <2> QED BY <1>3, <2>1, <2>2
<1>5. VenueTyped'
  <2>1. <<>> \in Seq(Pushes)
    OBVIOUS
  <2> QED BY <1>2, <1>3, <2>1 DEF Sound, VenueTyped
<1>6. BotTyped'
  BY <1>3, <1>4 DEF Sound, BotTyped
<1>7. Journal'
  BY <1>2, <1>3 DEF Sound, Journal
<1>8. Sound'
  BY <1>2, <1>5, <1>6, <1>7 DEF Sound
<1> QED BY <1>1, <1>2, <1>3, <1>4, <1>8

\* What a partial fill teaches is a meaning of the volume, or nothing.
LEMMA LearnTyped ==
  ASSUME semantics \in Meanings \union {None}, NEW view, Learn(view)
  PROVE  semantics' \in Meanings \union {None}
<1>1. ASSUME NEW shown PROVE Taught(view, shown) \in Meanings \union {None}
  BY DEF Taught, Meanings
<1> QED BY Zenon, <1>1 DEF Learn

\* A push is held, or judged with what was held.
LEMMA TranslateSound ==
  ASSUME Sound, Translate PROVE Sound'
<1>1. queue \in Seq(Pushes) /\ queue # <<>> /\ queue' = Tail(queue)
  BY DEF Sound, VenueTyped, Translate
<1>2. Head(queue) \in Pushes /\ queue' \in Seq(Pushes)
  BY <1>1, TailTyped
<1> DEFINE view == Head(queue).view
<1>3. view \in Views
  BY <1>2 DEF Pushes
<1> HIDE DEF view
<1>t. /\ attrSeen \in Attrs \union {None} /\ held \in Views \union {None} /\ watch \in Views \union {None}
      /\ semantics \in Meanings \union {None} /\ reported \in BOOLEAN
  BY DEF Sound, BotTyped
<1>4. HeldNow \in Seq(Views) /\ Released \in Views \union {None} /\ <<view>> \o HeldNow \in Seq(Views)
  BY <1>3, <1>t, HeldTyped
<1>5. \/ /\ held' = view /\ UNCHANGED <<reported, attrSeen, semantics, watch>>
      \/ /\ Judge(terms, attrs, <<view>> \o HeldNow) /\ held' = Released
         /\ watch' \in {None, watch} /\ UNCHANGED semantics
      \/ /\ Learn(view) /\ Judge(terms, attrs, HeldNow) /\ held' = Released /\ watch' \in {None, watch}
  BY DEF Translate, view
<1>6. /\ attrSeen' \in Attrs \union {None} /\ held' \in Views \union {None} /\ watch' \in Views \union {None}
      /\ semantics' \in Meanings \union {None} /\ reported' \in BOOLEAN
  <2>1. CASE held' = view /\ UNCHANGED <<reported, attrSeen, semantics, watch>>
    BY <1>3, <1>t, <2>1
  <2>2. CASE /\ Judge(terms, attrs, <<view>> \o HeldNow) /\ held' = Released
             /\ watch' \in {None, watch} /\ UNCHANGED semantics
    <3>1. reported' \in BOOLEAN /\ attrSeen' \in Attrs \union {None}
      BY <1>4, <1>t, <2>2, JudgeTyped
    <3> QED BY <1>4, <1>t, <2>2, <3>1
  <2>3. CASE Learn(view) /\ Judge(terms, attrs, HeldNow) /\ held' = Released /\ watch' \in {None, watch}
    <3>1. reported' \in BOOLEAN /\ attrSeen' \in Attrs \union {None}
      BY <1>4, <1>t, <2>3, JudgeTyped
    <3> QED BY <1>4, <1>t, <2>3, <3>1, LearnTyped
  <2> QED BY Zenon, <1>5, <2>1, <2>2, <2>3
<1>7. UNCHANGED <<order, means, amend, terms, attrs, baselined, attrBefore, snap, resized>> /\ noticed' = (noticed \/ reported')
  BY DEF Translate, journalVars
<1>8. VenueTyped'
  BY <1>2, <1>7 DEF Sound, VenueTyped
<1>9. noticed' \in BOOLEAN
  BY Zenon, <1>7
<1>10. BotTyped'
  BY <1>6, <1>7, <1>9 DEF Sound, BotTyped
<1>11. InOrder' /\ Journal'
  BY <1>7, KeepAmends DEF Sound
<1> QED BY <1>8, <1>10, <1>11 DEF Sound

\* A pass reads the order.
LEMMA PassBeginsSound ==
  ASSUME Sound, PassBegins PROVE Sound'
<1>1. View(order) \in Views
  BY ViewTyped DEF Sound, VenueTyped
<1>2. snap' \in [view : Views, stale : BOOLEAN]
  BY <1>1 DEF PassBegins
<1>3. VenueTyped'
  BY DEF Sound, VenueTyped, PassBegins, venueVars, journalVars
<1>4. BotTyped'
  BY <1>2 DEF Sound, BotTyped, PassBegins, journalVars, amendVars, historyVars
<1>5. InOrder' /\ Journal'
  BY KeepAmends DEF Sound, PassBegins, journalVars
<1> QED BY <1>3, <1>4, <1>5 DEF Sound

\* A pass that judges only what was held.
LEMMA PassSkipsSound ==
  ASSUME Sound, PassSkips \/ PassFails PROVE Sound'
<1>t. /\ attrSeen \in Attrs \union {None} /\ held \in Views \union {None} /\ reported \in BOOLEAN
  BY DEF Sound, BotTyped
<1>1. HeldNow \in Seq(Views) /\ Released \in Views \union {None}
  BY <1>t, HeldTyped
<1>2. /\ Judge(terms, attrs, HeldNow) /\ held' = Released /\ snap' = None /\ watch' \in {None, watch}
      /\ noticed' = (noticed \/ reported')
      /\ UNCHANGED <<order, means, queue, amend, terms, attrs, baselined, attrBefore, semantics, resized>>
  BY DEF PassSkips, PassFails, venueVars, journalVars
<1>3. reported' \in BOOLEAN /\ attrSeen' \in Attrs \union {None}
  BY <1>1, <1>2, <1>t, JudgeTyped
<1>4. noticed' \in BOOLEAN
  BY Zenon, <1>2
<1>5. VenueTyped'
  BY <1>2 DEF Sound, VenueTyped
<1>6. BotTyped'
  BY <1>1, <1>2, <1>3, <1>4 DEF Sound, BotTyped
<1>7. InOrder' /\ Journal'
  BY <1>2, KeepAmends DEF Sound
<1> QED BY <1>5, <1>6, <1>7 DEF Sound

\* A pass judges its snapshot, or waits for a second one.
LEMMA PassObservesSound ==
  ASSUME Sound, PassObserves PROVE Sound'
<1>t. /\ attrSeen \in Attrs \union {None} /\ held \in Views \union {None} /\ reported \in BOOLEAN
      /\ watch \in Views \union {None}
  BY DEF Sound, BotTyped
<1> DEFINE view == snap.view
<1>0. view \in Views
  BY NoneAssumption DEF Sound, BotTyped, PassObserves, Judgeable
<1>v. view.attr \in Attrs
  BY <1>0 DEF Views, Attrs
<1> HIDE DEF view
<1>1. HeldNow \in Seq(Views) /\ Released \in Views \union {None} /\ <<view>> \o HeldNow \in Seq(Views)
  BY <1>0, <1>t, HeldTyped
<1>2. /\ held' = Released /\ snap' = None /\ noticed' = (noticed \/ reported')
      /\ UNCHANGED <<order, means, queue, amend, terms, attrs, attrBefore, semantics, resized>>
      /\ baselined' \in BOOLEAN
  BY DEF PassObserves, venueVars
<1>3. \/ watch' = None /\ Judge(terms, attrs, <<view>> \o HeldNow)
      \/ watch' = None /\ reported' = TRUE /\ attrSeen' = view.attr
      \/ watch' \in {None, Watched(view)} /\ Judge(terms, attrs, HeldNow)
  BY DEF PassObserves, view
<1>4. reported' \in BOOLEAN /\ attrSeen' \in Attrs \union {None} /\ watch' \in Views \union {None}
  <2>1. CASE watch' = None /\ Judge(terms, attrs, <<view>> \o HeldNow)
    BY <1>1, <1>t, <2>1, JudgeTyped
  <2>2. CASE watch' = None /\ reported' = TRUE /\ attrSeen' = view.attr
    BY <1>v, <2>2
  <2>3. CASE watch' \in {None, Watched(view)} /\ Judge(terms, attrs, HeldNow)
    <3>1. reported' \in BOOLEAN /\ attrSeen' \in Attrs \union {None}
      BY <1>1, <1>t, <2>3, JudgeTyped
    <3>2. Watched(view) \in Views
      BY <1>0 DEF Watched, Views
    <3> QED BY <2>3, <3>1, <3>2
  <2> QED BY Zenon, <1>3, <2>1, <2>2, <2>3
<1>5. noticed' \in BOOLEAN
  BY Zenon, <1>2
<1>6. VenueTyped'
  BY <1>2 DEF Sound, VenueTyped
<1>7. BotTyped'
  BY <1>1, <1>2, <1>4, <1>5 DEF Sound, BotTyped
<1>8. InOrder' /\ Journal'
  BY <1>2, KeepAmends DEF Sound
<1> QED BY <1>6, <1>7, <1>8 DEF Sound

\* A pass takes its snapshot as the bot's by the operator's resume.
LEMMA PassAcceptsSound ==
  ASSUME Sound, PassAccepts PROVE Sound'
<1>t. /\ attrSeen \in Attrs \union {None} /\ held \in Views \union {None} /\ reported \in BOOLEAN
      /\ attrs \subseteq Attrs /\ terms \in Seq(EntryOf) /\ Unique(terms)
  BY DEF Sound, BotTyped, VenueTyped, Journal
<1> DEFINE view == snap.view
           own == [price |-> view.price, vol |-> view.vol]
<1>0. view \in Views
  BY NoneAssumption DEF Sound, BotTyped, PassAccepts, Judgeable
<1>v. view.price \in Nat /\ view.vol \in Nat /\ view.exec \in Nat /\ view.attr \in Attrs
  BY <1>0 DEF Views, Attrs
<1>1. /\ terms' = RememberAnswer(RememberTerms(terms, view.price, view.vol), own, view)
      /\ attrs' = attrs \union {view.attr}
      /\ Judge(terms', attrs', IF HeldNow = <<>> THEN <<view>> ELSE HeldNow)
      /\ held' = Released /\ snap' = None /\ watch' = None /\ noticed' = TRUE /\ baselined' = TRUE
      /\ UNCHANGED <<order, means, queue, amend, attrBefore, semantics, resized>>
      /\ InFlight = {}
  BY DEF PassAccepts, venueVars, Judgeable
<1> HIDE DEF view, own
<1>2. HeldNow \in Seq(Views) /\ Released \in Views \union {None} /\ <<view>> \in Seq(Views)
  BY <1>0, <1>t, HeldTyped
<1>3. reported' \in BOOLEAN /\ attrSeen' \in Attrs \union {None}
  BY <1>1, <1>2, <1>t, JudgeTyped
<1> DEFINE r == RememberTerms(terms, view.price, view.vol)
<1>4. r \in Seq(EntryOf) /\ r # <<>> /\ Unique(r)
  BY <1>t, <1>v, Remembered
<1> HIDE DEF r
<1>5. terms' \in Seq(EntryOf) /\ Len(terms') = Len(r) /\ DOMAIN terms' = DOMAIN r
      /\ \A i \in DOMAIN r : terms'[i].price = r[i].price /\ terms'[i].vol = r[i].vol
  <2>1. terms' = RememberAnswer(r, own, view)
    BY <1>1 DEF r
  <2> QED BY <1>4, <1>v, <2>1, AnswerKept
<1>6. terms' # <<>> /\ Unique(terms')
  <2>1. terms' # <<>>
    BY <1>4, <1>5
  <2>2. Unique(terms')
    BY <1>4, <1>5 DEF Unique, Same
  <2> QED BY <2>1, <2>2
<1>7. VenueTyped'
  BY <1>1, <1>5 DEF Sound, VenueTyped
<1>8. BotTyped'
  BY <1>1, <1>2, <1>3, <1>t, <1>v DEF Sound, BotTyped
<1>9. InOrder'
  BY Zenon, <1>1 DEF Sound, InOrder
<1>10. InFlight' = {}
  BY Zenon, <1>1 DEF InFlight
<1>11. Journal'
  BY <1>6, <1>10 DEF Journal
<1> QED BY <1>7, <1>8, <1>9, <1>11 DEF Sound

\* The journal survives a restart; every amend sent is over.
LEMMA RestartSound ==
  ASSUME Sound, Restart PROVE Sound'
<1>1. amend' = [a \in Amends |-> IF amend[a].phase = "idle" THEN Idle ELSE Over]
      /\ queue' = <<>> /\ baselined' = FALSE /\ attrSeen' = None /\ attrBefore' = None /\ held' = None
      /\ semantics' = None /\ watch' = None /\ reported' = FALSE /\ snap' = None
      /\ UNCHANGED <<order, means, terms, attrs, noticed, resized>>
  BY DEF Restart, journalVars
<1>2. /\ Idle \in AmendOf /\ Idle.phase = "idle" /\ Idle.answer = None
      /\ Over \in AmendOf /\ Over.phase = "over" /\ Over.answer = None
  BY IdleTyped
<1>3. amend' \in [Amends -> AmendOf]
      /\ \A a \in Amends : /\ amend'[a].answer = None
                           /\ amend'[a].phase = IF amend[a].phase = "idle" THEN "idle" ELSE "over"
  BY <1>1, <1>2
<1>4. InFlight' = {}
  BY <1>3 DEF InFlight
<1>5. InOrder'
  <2>1. \A b, c \in Amends : b < c /\ amend'[b].phase \in {"idle", "out", "back"} => amend'[c].phase = "idle"
    BY <1>3 DEF Sound, InOrder
  <2>2. \A b, c \in Amends : b < c /\ amend'[c].phase = "back" => amend'[b].phase = "over"
    BY <1>3
  <2>3. \A b \in Amends : amend'[b].phase \in {"out", "back", "adrift"} => amend'[b].sent \in OwnTerms
    BY <1>3
  <2>4. \A b \in Amends : amend'[b].phase # "back" => amend'[b].answer = None
    BY <1>3
  <2> QED BY <2>1, <2>2, <2>3, <2>4 DEF InOrder
<1>6. Journal'
  BY <1>1, <1>4 DEF Sound, Journal
<1>7. VenueTyped'
  <2>1. <<>> \in Seq(Pushes)
    OBVIOUS
  <2> QED BY <1>1, <1>3, <2>1 DEF Sound, VenueTyped
<1>8. BotTyped'
  BY <1>1 DEF Sound, BotTyped
<1> QED BY <1>5, <1>6, <1>7, <1>8 DEF Sound

\* Every step keeps the invariant.
LEMMA StepSound ==
  ASSUME Sound, [Next]_vars PROVE Sound'
<1>1. CASE UNCHANGED vars
  <2>1. UNCHANGED <<order, means, queue, amend, terms, attrs, attrSeen, attrBefore, held, watch, semantics,
                    snap, reported, noticed, baselined, resized>>
    BY <1>1 DEF vars, venueVars, journalVars, amendVars, historyVars
  <2>2. VenueTyped' /\ BotTyped'
    BY <2>1 DEF Sound, VenueTyped, BotTyped
  <2>3. InOrder' /\ Journal'
    BY <2>1, KeepAmends DEF Sound
  <2> QED BY <2>2, <2>3 DEF Sound
<1>2. ASSUME NEW a \in Amends, Send(a) \/ Accept(a) \/ Refuse(a) \/ Answered(a) \/ Refused(a) PROVE Sound'
  BY <1>2, SendSound, AcceptSound, RefuseSound, AnsweredSound, RefusedSound
<1>3. CASE (\E a \in Amends : AnswerLost(a)) \/ LinkLost
  BY <1>3, LostSound
<1> QED BY Zenon, <1>1, <1>2, <1>3, FillSound, EditSound, TranslateSound, PassBeginsSound, PassSkipsSound,
          PassObservesSound, PassAcceptsSound, RestartSound DEF Next, Pass, AmendEnds

\* Whoever edits the order: all state keeps its type, amends are answered in the order
\* they were sent, and the journal holds each of the bot's terms once, those of the
\* amend in flight last.
THEOREM TermsSound == Spec => []Sound
<1>1. Init => Sound
  BY InitSound
<1>2. Sound /\ [Next]_vars => Sound'
  BY StepSound
<1> QED BY <1>1, <1>2, PTL DEF Spec

\* A refused amend leaves the journal as it was when the amend was sent.
THEOREM RefusalWithdraws == Spec => [][\A a \in Amends : Refused(a) => terms' = amend[a].before]_vars
<1>1. Sound /\ [Next]_vars => [\A a \in Amends : Refused(a) => terms' = amend[a].before]_vars
  BY RefusedSound
<1> QED BY <1>1, TermsSound, PTL DEF Spec

-----------------------------------------------------------------------------
(* The invariant, as long as nobody else edits the order *)

\* An amend's volume is the whole of the order, as the plugin sends it.
TakesWhole == \A v \in Venues : v.takes = "whole"

\* The volume a view or an answer stands for, as the whole of the order.
Whole(view) == IF means.shows = "whole" THEN view.vol ELSE view.vol + view.exec

Done == {a \in InFlight : amend[a].answer # None}
Undone == {a \in InFlight : amend[a].answer = None}
Adrifts == {a \in Amends : amend[a].phase = "adrift"}

\* The views that wait in the queue, all the bot has yet to judge, and those that may
\* echo an own amend.
Waiting == {v \in Views : \E i \in DOMAIN queue : queue[i].view = v}
OnTheWay == Waiting \union {v \in Views : held = v \/ (snap # None /\ snap.view = v)}
Echoes == {v \in Views : \/ held = v
                         \/ \E i \in DOMAIN queue : queue[i].kind = "replaced" /\ queue[i].view = v}

\* The terms the order has, may yet get, or shows in a view the bot has yet to judge.
Claimed(price, total) ==
  \/ order.price = price /\ order.total = total
  \/ \E a \in Adrifts : amend[a].sent.price = price /\ amend[a].sent.vol = total
  \/ \E v \in OnTheWay : v.price = price /\ Whole(v) = total

\* No fill the bot has yet to learn from shows another volume than an answer did.
Settled(vol, exec) ==
  order.total = vol /\ Adrifts = {} /\ \A v \in Waiting : v.exec > exec => Whole(v) = vol

Covers(ts) == \A price, total : Claimed(price, total) => Has(ts, price, total)
Right(ts) == \A i \in DOMAIN ts : ts[i].answer # None => Whole(ts[i].answer) = ts[i].vol
Latest(ts) == Last(ts).answer # None => Settled(Last(ts).vol, Last(ts).answer.exec)
Explains(ts) == Covers(ts) /\ Right(ts) /\ Latest(ts)

\* An answer the bot has yet to take in.
AnswerRight(a) ==
  /\ amend[a].answer.price = amend[a].sent.price /\ Whole(amend[a].answer) = amend[a].sent.vol
  /\ Settled(amend[a].sent.vol, amend[a].answer.exec)

\* The attributes known, and those an answer on its way will make known.
Knowable == attrs \union {amend[a].answer.attr : a \in Done}

AttrsKnown ==
  /\ order.attr \in Knowable /\ \A v \in OnTheWay : v.attr \in Knowable
  /\ \A a \in Done : \A v \in Echoes :
       v.attr \in attrs \/ (v.price = amend[a].answer.price /\ v.vol = amend[a].answer.vol)
  /\ attrSeen \in attrs \union {None} /\ attrBefore \in attrs \union {None}
  /\ ~VenueSets => Knowable \subseteq attrs

Quiet ==
  /\ Explains(terms) /\ \A a \in Undone : Explains(amend[a].before)
  /\ \A a \in Done : AnswerRight(a)
  /\ \A v \in Waiting : v.exec <= order.exec
  /\ AttrsKnown
  /\ reported = FALSE /\ semantics \in {None, means.shows}

\* As long as nobody else edits the order, the journal explains whatever the order is
\* and shows, nothing is reported, and the volume's meaning is learnt right.
Calm == edits \in Nat /\ (edits = 0 => Quiet)

\* A view's volume, taken as the venue means it, is the order's.
LEMMA ViewWhole ==
  ASSUME means \in [shows : Meanings, takes : Meanings], NEW o \in Orders
  PROVE  Whole(View(o)) = o.total
<1>1. o.total \in Nat /\ o.exec \in Nat
  BY DEF Orders
<1> QED BY <1>1 DEF Whole, View

\* The terms explain no less when nothing more is claimed of the order.
LEMMA ExplainsKept ==
  ASSUME means' = means,
         \A price, total : Claimed(price, total)' => Claimed(price, total),
         \A vol, exec : Settled(vol, exec) => Settled(vol, exec)'
  PROVE  \A ts : Explains(ts) => Explains(ts)'
<1> TAKE ts
<1> HAVE Explains(ts)
<1>1. Covers(ts)'
  BY DEF Explains, Covers
<1>2. Right(ts)'
  BY Zenon DEF Explains, Right, Whole
<1>3. Latest(ts)'
  BY DEF Explains, Latest
<1> QED BY <1>1, <1>2, <1>3 DEF Explains

\* A view the journal explains is the bot's own.
LEMMA OwnView ==
  ASSUME Sound, Quiet, InFlight = {}, NEW v \in OnTheWay
  PROVE  Own(terms, attrs, v) /\ v.attr \in attrs
<1>1. v \in Views /\ v.vol \in Nat /\ v.exec \in Nat
  BY DEF OnTheWay, Waiting, Views
<1>2. v.attr \in attrs
  <2>1. Knowable = attrs
    BY DEF Knowable, Done
  <2> QED BY <2>1 DEF Quiet, AttrsKnown
<1>3. Claimed(v.price, Whole(v))
  BY DEF Claimed
<1>4. PICK i \in DOMAIN terms : Same(terms[i], v.price, Whole(v))
  BY <1>3 DEF Quiet, Explains, Covers, Has
<1>5. terms[i] \in EntryOf /\ terms[i].price = v.price /\ terms[i].vol = Whole(v)
  BY <1>4 DEF Sound, VenueTyped, Same
<1>6. means.shows \in Meanings /\ semantics \in {None, means.shows}
  BY DEF Sound, VenueTyped, Quiet
<1>7. None \notin Meanings
  BY NoneAssumption
<1>8. OwnVolume(terms[i], v)
  <2>1. CASE terms[i].answer = None
    <3>1. Whole(v) \in {v.vol, v.vol + v.exec}
      BY DEF Whole
    <3> QED BY <1>5, <2>1, <3>1 DEF OwnVolume
  <2>2. CASE terms[i].answer # None
    <3>1. Whole(terms[i].answer) = Whole(v)
      BY <1>5, <2>2 DEF Quiet, Explains, Right
    <3>2. terms[i].answer \in Answers
      BY <1>5, <2>2 DEF EntryOf
    <3>3. terms[i].answer.vol \in Nat /\ terms[i].answer.exec \in Nat
      BY <3>2 DEF Answers
    <3>4. CASE means.shows = "whole"
      <4>1. v.vol = terms[i].answer.vol /\ semantics # "remainder"
        BY <1>6, <1>7, <3>1, <3>4 DEF Whole, Meanings
      <4> QED BY <2>2, <4>1 DEF OwnVolume
    <3>5. CASE means.shows = "remainder"
      <4>1. v.vol + v.exec = terms[i].answer.vol + terms[i].answer.exec
        BY <3>1, <3>5 DEF Whole
      <4>2. semantics # "whole"
        BY <1>6, <1>7, <3>5 DEF Meanings
      <4>3. v.vol = terms[i].answer.vol + terms[i].answer.exec - v.exec
        BY <1>1, <3>3, <4>1
      <4> QED BY <2>2, <4>2, <4>3 DEF OwnVolume
    <3> QED BY <1>6, <3>4, <3>5 DEF Meanings
  <2> QED BY <2>1, <2>2
<1> QED BY <1>2, <1>5, <1>8 DEF Own

\* Judging views the journal explains reports nothing.
LEMMA JudgedQuiet ==
  ASSUME Sound, Quiet, NEW views \in Seq(Views), Judge(terms, attrs, views),
         \A i \in DOMAIN views : InFlight = {} /\ views[i] \in OnTheWay
  PROVE  reported' = FALSE /\ attrSeen' \in attrs \union {None}
<1>1. \A i \in DOMAIN views : Own(terms, attrs, views[i]) /\ views[i].attr \in attrs
  BY OwnView
<1>2. reported \in BOOLEAN /\ attrSeen \in Attrs \union {None}
  BY DEF Sound, BotTyped
<1>3. reported' = reported /\ (attrSeen' = attrSeen \/ \E i \in DOMAIN views : attrSeen' = views[i].attr)
  BY <1>1, <1>2, JudgeTyped
<1> QED BY <1>1, <1>3 DEF Quiet, AttrsKnown

\* A fill the bot learns from shows the volume the last answer did.
LEMMA LearnQuiet ==
  ASSUME Sound, Quiet, NEW view \in Waiting, Learn(view)
  PROVE  semantics' \in {None, means.shows}
<1> DEFINE answer == Last(terms).answer
           taught == IF answer = None THEN None ELSE Taught(view, answer)
<1>1. semantics' = IF taught = None THEN semantics ELSE IF semantics \in {None, taught} THEN taught ELSE None
  BY Zenon DEF Learn
<1>2. semantics \in {None, means.shows} /\ means.shows \in Meanings
  BY DEF Quiet, Sound, VenueTyped
<1>3. taught \in {None, means.shows}
  <2>1. CASE answer = None
    BY <2>1
  <2>2. CASE answer # None /\ view.exec <= answer.exec
    BY <2>2 DEF Taught
  <2>3. CASE answer # None /\ ~(view.exec <= answer.exec)
    <3>0. Len(terms) \in DOMAIN terms /\ Last(terms) = terms[Len(terms)] /\ terms[Len(terms)] \in EntryOf
      BY DEF Sound, VenueTyped, Journal, Last
    <3>1. answer \in Answers
      BY <2>3, <3>0 DEF EntryOf
    <3>2. answer.vol \in Nat /\ answer.exec \in Nat
      BY <3>1 DEF Answers
    <3>3. view.vol \in Nat /\ view.exec \in Nat
      BY DEF Waiting, Views
    <3>4. view.exec > answer.exec
      BY <2>3, <3>2, <3>3
    <3>5. Whole(view) = Last(terms).vol
      BY <2>3, <3>4 DEF Quiet, Explains, Latest, Settled
    <3>6. Whole(answer) = Last(terms).vol
      BY <2>3, <3>0 DEF Quiet, Explains, Right
    <3> HIDE DEF answer
    <3>7. CASE means.shows = "whole"
      <4>1. view.vol = answer.vol
        BY <3>5, <3>6, <3>7 DEF Whole
      <4> QED BY <3>7, <4>1 DEF Taught
    <3>8. CASE means.shows = "remainder"
      <4>1. view.vol + view.exec = answer.vol + answer.exec
        BY <3>5, <3>6, <3>8 DEF Whole
      <4> QED BY <3>8, <4>1 DEF Taught
    <3> QED BY <1>2, <3>7, <3>8 DEF Meanings
  <2> QED BY <2>1, <2>2, <2>3
<1> HIDE DEF taught
<1> QED BY <1>1, <1>2, <1>3

\* Where nothing new is shown, nothing more is on the way.
LEMMA FewerViews ==
  ASSUME UNCHANGED <<order, means, amend>>,
         \A i \in DOMAIN queue' : \E j \in DOMAIN queue : queue'[i] = queue[j],
         held' = held \/ held' = None \/ \E i \in DOMAIN queue : queue[i].kind = "replaced" /\ queue[i].view = held',
         snap' = snap \/ snap' = None \/ (snap # None /\ snap'.view = snap.view)
  PROVE  /\ Waiting' \subseteq Waiting /\ OnTheWay' \subseteq OnTheWay /\ Echoes' \subseteq Echoes
         /\ \A price, total : Claimed(price, total)' => Claimed(price, total)
         /\ \A vol, exec : Settled(vol, exec) => Settled(vol, exec)'
<1>1. Waiting' \subseteq Waiting
  BY DEF Waiting
<1>2. \A v \in Views : held' = v => held = v \/ v \in Waiting
  BY NoneAssumption DEF Waiting
<1>3. \A v \in Views : (snap' # None /\ snap'.view = v) => (snap # None /\ snap.view = v)
  OBVIOUS
<1>4. OnTheWay' \subseteq OnTheWay
  BY <1>1, <1>2, <1>3 DEF OnTheWay
<1>5. Echoes' \subseteq Echoes
  BY NoneAssumption DEF Echoes
<1>6. \A price, total : Claimed(price, total)' => Claimed(price, total)
  BY <1>4 DEF Claimed, Adrifts, Whole
<1>7. \A vol, exec : Settled(vol, exec) => Settled(vol, exec)'
  BY <1>1 DEF Settled, Adrifts, Whole
<1> QED BY <1>1, <1>4, <1>5, <1>6, <1>7

\* A step that only takes views off their way.
LEMMA FewerQuiet ==
  ASSUME Sound, Quiet, UNCHANGED <<order, means, amend, terms, attrs, attrBefore>>,
         \A i \in DOMAIN queue' : \E j \in DOMAIN queue : queue'[i] = queue[j],
         held' = held \/ held' = None \/ \E i \in DOMAIN queue : queue[i].kind = "replaced" /\ queue[i].view = held',
         snap' = snap \/ snap' = None \/ (snap # None /\ snap'.view = snap.view),
         reported' = FALSE, attrSeen' \in attrs \union {None}, semantics' \in {None, means.shows}
  PROVE  Quiet'
<1>1. /\ Waiting' \subseteq Waiting /\ OnTheWay' \subseteq OnTheWay /\ Echoes' \subseteq Echoes
      /\ \A price, total : Claimed(price, total)' => Claimed(price, total)
      /\ \A vol, exec : Settled(vol, exec) => Settled(vol, exec)'
  BY FewerViews
<1>2. \A ts : Explains(ts) => Explains(ts)'
  BY <1>1, ExplainsKept
<1>3. InFlight' = InFlight /\ Done' = Done /\ Undone' = Undone /\ Knowable' = Knowable
  BY Zenon DEF InFlight, Done, Undone, Knowable
<1>4. Explains(terms)' /\ \A a \in Undone' : Explains(amend[a].before)'
  BY <1>2, <1>3 DEF Quiet
<1>5. \A a \in Done' : AnswerRight(a)'
  BY <1>1, <1>3 DEF Quiet, AnswerRight, Whole
<1>6. \A v \in Waiting' : v.exec <= order'.exec
  BY <1>1 DEF Quiet
<1>7. AttrsKnown'
  BY <1>1, <1>3 DEF Quiet, AttrsKnown
<1> QED BY <1>4, <1>5, <1>6, <1>7 DEF Quiet

\* A push judged is explained, and what it teaches is right.
LEMMA TranslateQuiet ==
  ASSUME Sound, Quiet, Translate PROVE Quiet'
<1>1. queue \in Seq(Pushes) /\ queue # <<>> /\ queue' = Tail(queue) /\ held \in Views \union {None}
  BY DEF Sound, VenueTyped, BotTyped, Translate
<1>2. /\ Head(queue) \in Pushes /\ 1 \in DOMAIN queue /\ Head(queue) = queue[1]
      /\ \A i \in DOMAIN queue' : i + 1 \in DOMAIN queue /\ queue'[i] = queue[i + 1]
  BY <1>1, TailTyped
<1> DEFINE view == Head(queue).view
<1>3. view \in Waiting /\ view \in OnTheWay /\ view \in Views
  BY <1>2 DEF Pushes, Waiting, OnTheWay
<1>4. \A i \in DOMAIN queue' : \E j \in DOMAIN queue : queue'[i] = queue[j]
  BY <1>2
<1>5. UNCHANGED <<order, means, amend, terms, attrs, attrBefore, snap>>
  BY DEF Translate, journalVars
<1>6. \/ /\ Head(queue).kind = "replaced" /\ held' = view /\ UNCHANGED <<reported, attrSeen, semantics>>
      \/ /\ InFlight = {} /\ Judge(terms, attrs, <<view>> \o HeldNow) /\ held' = Released /\ UNCHANGED semantics
      \/ Learn(view) /\ Judge(terms, attrs, HeldNow) /\ held' = Released
  BY DEF Translate
<1> HIDE DEF view
<1>7. /\ HeldNow \in Seq(Views) /\ <<view>> \o HeldNow \in Seq(Views) /\ Released \in {held, None}
      /\ \A i \in DOMAIN HeldNow : InFlight = {} /\ HeldNow[i] \in OnTheWay
      /\ \A i \in DOMAIN (<<view>> \o HeldNow) : (<<view>> \o HeldNow)[i] \in OnTheWay
  BY <1>1, <1>3, HeldTyped DEF OnTheWay
<1>8. reported = FALSE /\ attrSeen \in attrs \union {None} /\ semantics \in {None, means.shows}
  BY DEF Quiet, AttrsKnown
<1>9. held' = held \/ held' = None \/ \E i \in DOMAIN queue : queue[i].kind = "replaced" /\ queue[i].view = held'
  BY <1>2, <1>6, <1>7 DEF view
<1>10. reported' = FALSE /\ attrSeen' \in attrs \union {None} /\ semantics' \in {None, means.shows}
  <2>1. CASE UNCHANGED <<reported, attrSeen, semantics>>
    BY <1>8, <2>1
  <2>2. CASE InFlight = {} /\ Judge(terms, attrs, <<view>> \o HeldNow) /\ UNCHANGED semantics
    BY <1>7, <1>8, <2>2, JudgedQuiet
  <2>3. CASE Learn(view) /\ Judge(terms, attrs, HeldNow)
    BY <1>3, <1>7, <2>3, JudgedQuiet, LearnQuiet
  <2> QED BY Zenon, <1>6, <2>1, <2>2, <2>3
<1> QED BY <1>4, <1>5, <1>9, <1>10, FewerQuiet

\* What was held is explained.
LEMMA PassSkipsQuiet ==
  ASSUME Sound, Quiet, PassSkips \/ PassFails PROVE Quiet'
<1>1. /\ Judge(terms, attrs, HeldNow) /\ held' = Released /\ snap' = None
      /\ UNCHANGED <<order, means, queue, amend, terms, attrs, attrBefore, semantics>>
  BY DEF PassSkips, PassFails, venueVars, journalVars
<1>2. /\ HeldNow \in Seq(Views) /\ Released \in {held, None}
      /\ \A i \in DOMAIN HeldNow : InFlight = {} /\ HeldNow[i] \in OnTheWay
  BY HeldTyped DEF Sound, BotTyped, OnTheWay
<1>3. reported' = FALSE /\ attrSeen' \in attrs \union {None}
  BY <1>1, <1>2, JudgedQuiet
<1>4. held' = held \/ held' = None
  BY <1>1, <1>2
<1>5. semantics' \in {None, means.shows}
  BY <1>1 DEF Quiet
<1> QED BY <1>1, <1>3, <1>4, <1>5, FewerQuiet

\* The snapshot is explained, so it is judged at once.
LEMMA PassObservesQuiet ==
  ASSUME Sound, Quiet, PassObserves PROVE Quiet'
<1>1. InFlight = {} /\ snap # None
  BY DEF PassObserves, Judgeable
<1>2. snap.view \in OnTheWay /\ snap.view \in Views
  BY <1>1 DEF Sound, BotTyped, OnTheWay
<1>3. Own(terms, attrs, snap.view)
  BY <1>1, <1>2, OwnView
<1>4. /\ Judge(terms, attrs, <<snap.view>> \o HeldNow) /\ held' = Released /\ snap' = None
      /\ UNCHANGED <<order, means, queue, amend, terms, attrs, attrBefore, semantics>>
  BY <1>3 DEF PassObserves, venueVars
<1>5. /\ <<snap.view>> \o HeldNow \in Seq(Views) /\ Released \in {held, None}
      /\ \A i \in DOMAIN (<<snap.view>> \o HeldNow) : (<<snap.view>> \o HeldNow)[i] \in OnTheWay
  BY <1>2, HeldTyped DEF Sound, BotTyped, OnTheWay
<1>6. reported' = FALSE /\ attrSeen' \in attrs \union {None}
  BY <1>1, <1>4, <1>5, JudgedQuiet
<1>7. held' = held \/ held' = None
  BY <1>4, <1>5
<1>8. semantics' \in {None, means.shows}
  BY <1>4 DEF Quiet
<1> QED BY <1>4, <1>6, <1>7, <1>8, FewerQuiet

\* A resume has nothing to accept.
LEMMA PassAcceptsQuiet ==
  ASSUME Sound, Quiet, PassAccepts PROVE FALSE
<1>1. InFlight = {} /\ snap # None /\ ~Own(terms, attrs, snap.view)
  BY DEF PassAccepts, Judgeable
<1>2. snap.view \in OnTheWay
  BY <1>1 DEF Sound, BotTyped, OnTheWay
<1> QED BY <1>1, <1>2, OwnView

\* A step by which the order is shown once more, as a push or in a snapshot.
LEMMA OneMoreView ==
  ASSUME UNCHANGED <<means, amend, held>>, Sound, Sound',
         order'.price = order.price, order'.total = order.total,
         NEW w \in Views, w.price = order.price, Whole(w) = order.total,
         \A i \in DOMAIN queue' : (\E j \in DOMAIN queue : queue'[i] = queue[j])
                                    \/ (queue'[i].kind = "partial" /\ queue'[i].view = w),
         snap' = snap \/ snap'.view = w
  PROVE  /\ Waiting' \subseteq Waiting \union {w} /\ OnTheWay' \subseteq OnTheWay \union {w} /\ Echoes' \subseteq Echoes
         /\ \A price, total : Claimed(price, total)' => Claimed(price, total)
         /\ \A vol, exec : Settled(vol, exec) => Settled(vol, exec)'
<1>1. Waiting' \subseteq Waiting \union {w}
  BY DEF Waiting
<1>2. \A v \in Views : (snap' # None /\ snap'.view = v) => v = w \/ (snap # None /\ snap.view = v)
  OBVIOUS
<1>3. OnTheWay' \subseteq OnTheWay \union {w}
  BY <1>1, <1>2 DEF OnTheWay
<1>4. Echoes' \subseteq Echoes
  BY DEF Echoes
<1>5. \A price, total : Claimed(price, total)' => Claimed(price, total)
  <2>1. \A v : Whole(v)' = Whole(v)
    BY DEF Whole
  <2> QED BY <1>3, <2>1 DEF Claimed, Adrifts
<1>6. \A vol, exec : Settled(vol, exec) => Settled(vol, exec)'
  <2>1. \A v : Whole(v)' = Whole(v)
    BY DEF Whole
  <2> QED BY <1>1, <2>1 DEF Settled, Adrifts
<1> QED BY <1>1, <1>3, <1>4, <1>5, <1>6

\* The order as it is now shown once more.
LEMMA ShownQuiet ==
  ASSUME Sound, Sound', Quiet, UNCHANGED <<means, amend, held, terms, attrs, attrBefore, attrSeen, reported, semantics>>,
         order'.price = order.price, order'.total = order.total, order'.attr = order.attr,
         order'.exec >= order.exec,
         NEW w, w = View(order'),
         \A i \in DOMAIN queue' : (\E j \in DOMAIN queue : queue'[i] = queue[j])
                                    \/ (queue'[i].kind = "partial" /\ queue'[i].view = w),
         snap' = snap \/ snap'.view = w
  PROVE  Quiet'
<1>0. means \in [shows : Meanings, takes : Meanings] /\ order \in Orders /\ order' \in Orders
  BY DEF Sound, VenueTyped
<1>1. w \in Views /\ w.exec = order'.exec /\ w.price = order.price /\ w.attr = order.attr /\ Whole(w) = order.total
  BY <1>0, ViewTyped, ViewWhole
<1>2. /\ Waiting' \subseteq Waiting \union {w} /\ OnTheWay' \subseteq OnTheWay \union {w} /\ Echoes' \subseteq Echoes
      /\ \A price, total : Claimed(price, total)' => Claimed(price, total)
      /\ \A vol, exec : Settled(vol, exec) => Settled(vol, exec)'
  BY <1>1, OneMoreView
<1>3. \A ts : Explains(ts) => Explains(ts)'
  BY <1>2, ExplainsKept
<1>4. InFlight' = InFlight /\ Done' = Done /\ Undone' = Undone /\ Knowable' = Knowable
  BY Zenon DEF InFlight, Done, Undone, Knowable
<1>5. Explains(terms)' /\ \A a \in Undone' : Explains(amend[a].before)'
  BY <1>3, <1>4 DEF Quiet
<1>6. \A a \in Done' : AnswerRight(a)'
  BY <1>2, <1>4 DEF Quiet, AnswerRight, Whole
<1>7. \A v \in Waiting' : v.exec <= order'.exec
  <2>1. \A v \in Waiting : v.exec <= order.exec /\ v.exec \in Nat
    BY DEF Quiet, Waiting, Views
  <2>2. order.exec \in Nat /\ order'.exec \in Nat
    BY <1>0 DEF Orders
  <2> QED BY <1>1, <1>2, <2>1, <2>2
<1>8. AttrsKnown'
  <2>1. order'.attr \in Knowable' /\ \A v \in OnTheWay' : v.attr \in Knowable'
    BY <1>1, <1>2, <1>4 DEF Quiet, AttrsKnown
  <2>2. \A a \in Done' : \A v \in Echoes' :
          v.attr \in attrs' \/ (v.price = amend'[a].answer.price /\ v.vol = amend'[a].answer.vol)
    BY <1>2, <1>4 DEF Quiet, AttrsKnown
  <2>3. attrSeen' \in attrs' \union {None} /\ attrBefore' \in attrs' \union {None}
        /\ (~VenueSets => Knowable' \subseteq attrs')
    BY <1>4 DEF Quiet, AttrsKnown
  <2> QED BY <2>1, <2>2, <2>3 DEF AttrsKnown
<1>9. reported' = FALSE /\ semantics' \in {None, means'.shows}
  BY DEF Quiet
<1> QED BY <1>5, <1>6, <1>7, <1>8, <1>9 DEF Quiet

\* A fill shows the terms the order had.
LEMMA FillQuiet ==
  ASSUME Sound, Sound', Quiet, Fill PROVE Quiet'
<1>1. UNCHANGED <<means, amend, held, terms, attrs, attrBefore, attrSeen, reported, semantics, snap>>
  BY DEF Fill, journalVars, amendVars
<1>2. order'.price = order.price /\ order'.total = order.total /\ order'.attr = order.attr /\ order'.exec >= order.exec
  <2>1. order \in Orders /\ order' = [order EXCEPT !.exec = @ + 1]
    BY DEF Fill, Sound, VenueTyped
  <2>2. order.exec \in Nat /\ order'.exec = order.exec + 1 /\ order'.price = order.price
        /\ order'.total = order.total /\ order'.attr = order.attr
    BY <2>1 DEF Orders
  <2> QED BY <2>2
<1> DEFINE w == View(order')
<1>3. \A i \in DOMAIN queue' : (\E j \in DOMAIN queue : queue'[i] = queue[j])
                                 \/ (queue'[i].kind = "partial" /\ queue'[i].view = w)
  <2>1. Push("partial") /\ means \in [shows : Meanings, takes : Meanings] /\ queue \in Seq(Pushes) /\ order' \in Orders
    BY DEF Fill, Sound, VenueTyped
  <2>2. \A i \in DOMAIN queue' : \/ i \in DOMAIN queue /\ queue'[i] = queue[i]
                                 \/ queue'[i] = [kind |-> "partial", view |-> View(order')]
    BY <2>1, PushTyped
  <2> QED BY <2>2
<1> HIDE DEF w
<1>4. w = View(order')
  BY DEF w
<1> QED BY <1>1, <1>2, <1>3, <1>4, ShownQuiet

\* A snapshot shows the terms the order has.
LEMMA PassBeginsQuiet ==
  ASSUME Sound, Sound', Quiet, PassBegins PROVE Quiet'
<1>1. UNCHANGED <<order, queue, means, amend, held, terms, attrs, attrBefore, attrSeen, reported, semantics>>
  BY DEF PassBegins, venueVars, journalVars, amendVars
<1>2. order.exec \in Nat
  BY DEF Sound, VenueTyped, Orders
<1> DEFINE w == View(order')
<1>3. snap'.view = w
  BY <1>1 DEF PassBegins, View
<1> HIDE DEF w
<1>4. w = View(order')
  BY DEF w
<1>5. \A i \in DOMAIN queue' : (\E j \in DOMAIN queue : queue'[i] = queue[j])
                                 \/ (queue'[i].kind = "partial" /\ queue'[i].view = w)
  BY <1>1
<1>6. order'.price = order.price /\ order'.total = order.total /\ order'.attr = order.attr /\ order'.exec >= order.exec
  BY <1>1, <1>2
<1> QED BY <1>1, <1>3, <1>4, <1>5, <1>6, ShownQuiet

\* What is sent is explained before the venue has it.
LEMMA SendQuiet ==
  ASSUME Sound, Sound', Quiet, NEW a \in Amends, Send(a) PROVE Quiet'
<1>1. UNCHANGED <<order, means, queue, attrs, attrSeen, held, semantics, reported, snap>>
      /\ attrBefore' = attrSeen /\ InFlight = {} /\ amend[a].phase = "idle"
  BY DEF Send, venueVars
<1>2. PICK sent \in OwnTerms :
        /\ terms' = RememberTerms(terms, sent.price, sent.vol)
        /\ amend' = [amend EXCEPT ![a] = [phase |-> "out", sent |-> sent, before |-> terms, answer |-> None]]
  BY DEF Send
<1>3. sent.price \in Nat /\ sent.vol \in Nat
  BY TermsAssumption
<1>4. terms \in Seq(EntryOf) /\ Unique(terms) /\ amend \in [Amends -> AmendOf]
  BY DEF Sound, VenueTyped, Journal
<1>5. /\ Last(terms') = Entry(sent.price, sent.vol, None)
      /\ \A i \in DOMAIN terms' : terms'[i] = Entry(sent.price, sent.vol, None) \/ \E j \in DOMAIN terms : terms'[i] = terms[j]
      /\ \A p, v : Has(terms, p, v) => Has(terms', p, v)
  BY <1>2, <1>3, <1>4, Remembered
<1>6. /\ amend'[a].phase = "out" /\ amend'[a].before = terms /\ amend'[a].answer = None
      /\ \A b \in Amends : b # a => amend'[b] = amend[b]
  BY <1>2, <1>4
<1>7. InFlight' = {a} /\ Done' = {} /\ Undone' = {a} /\ Done = {} /\ Undone = {} /\ Adrifts' = Adrifts
  <2>1. InFlight' = {a} /\ Adrifts' = Adrifts
    BY <1>1, <1>6 DEF InFlight, Adrifts
  <2> QED BY <1>1, <1>6, <2>1 DEF Done, Undone
<1>8. \A b \in Adrifts : amend'[b] = amend[b]
  BY <1>1, <1>6 DEF Adrifts
<1>9. \A v : Whole(v)' = Whole(v)
  BY <1>1 DEF Whole
<1>10. Waiting' = Waiting /\ OnTheWay' = OnTheWay
  BY Zenon, <1>1 DEF Waiting, OnTheWay
<1>11. \A price, total : Claimed(price, total)' => Claimed(price, total)
  BY <1>1, <1>7, <1>8, <1>9, <1>10 DEF Claimed
<1>12. \A vol, exec : Settled(vol, exec) => Settled(vol, exec)'
  BY <1>1, <1>7, <1>9, <1>10 DEF Settled
<1>13. \A ts : Explains(ts) => Explains(ts)'
  BY <1>1, <1>11, <1>12, ExplainsKept
<1>14. \A b \in Undone' : Explains(amend[b].before)'
  BY <1>6, <1>7, <1>13 DEF Quiet
<1>15. Explains(terms)'
  <2>1. Covers(terms)'
    BY <1>5, <1>11 DEF Quiet, Explains, Covers
  <2>2. Right(terms)'
    <3>1. \A i \in DOMAIN terms : terms[i].answer # None => Whole(terms[i].answer) = terms[i].vol
      BY DEF Quiet, Explains, Right
    <3>2. \A i \in DOMAIN terms' : terms'[i].answer # None => Whole(terms'[i].answer) = terms'[i].vol
      BY <1>5, <3>1 DEF Entry
    <3> QED BY <1>1, <3>2 DEF Right, Whole
  <2>3. Latest(terms)'
    BY <1>5 DEF Latest, Entry
  <2> QED BY <2>1, <2>2, <2>3 DEF Explains
<1>16. \A b \in Done' : AnswerRight(b)'
  BY <1>7
<1>17. \A v \in Waiting' : v.exec <= order'.exec
  BY <1>1, <1>10 DEF Quiet
<1>18. AttrsKnown'
  <2>1. Knowable' = Knowable
    BY <1>1, <1>7 DEF Knowable
  <2> QED BY <1>1, <1>7, <1>10, <2>1 DEF Quiet, AttrsKnown
<1> QED BY <1>1, <1>14, <1>15, <1>16, <1>17, <1>18 DEF Quiet

\* What an answer on its way would make known is known already, where answers get lost.
LEMMA NothingLost ==
  ASSUME Sound, Quiet, \A a \in InFlight : Losable(a)
  PROVE  Knowable = attrs
<1>1. ASSUME NEW a \in Done PROVE amend[a].answer.attr \in attrs
  <2>1. CASE VenueSets
    BY <1>1, <2>1 DEF Losable, Done
  <2>2. CASE ~VenueSets
    BY <1>1, <2>2 DEF Quiet, AttrsKnown, Knowable
  <2> QED BY <2>1, <2>2
<1> QED BY <1>1 DEF Knowable

\* Nothing in flight is left to answer.
LEMMA NoneAnswers ==
  ASSUME InFlight' = {}
  PROVE  Done' = {} /\ Undone' = {} /\ Knowable' = attrs'
BY DEF Done, Undone, Knowable

\* Every amend in flight is given up, with the pushes or without.
LEMMA GivenUpQuiet ==
  ASSUME Sound, Sound', Quiet, UNCHANGED <<order, means, terms, attrs>>,
         \A a \in InFlight : Losable(a), InFlight' = {},
         \A a \in Adrifts' : a \in Adrifts \/ a \in InFlight,
         \A a \in Adrifts' : amend'[a].sent = amend[a].sent,
         InFlight = {} => (Adrifts' \subseteq Adrifts),
         queue' \in {queue, <<>>}, held' \in {held, None},
         snap' = snap \/ snap' = None \/ (snap # None /\ snap'.view = snap.view),
         attrSeen' \in {attrSeen, None}, attrBefore' \in {attrBefore, None}, reported' = FALSE,
         semantics' \in {semantics, None}
  PROVE  Quiet'
<1>0. \A v : Whole(v)' = Whole(v)
  BY DEF Whole
<1>1. Waiting' \subseteq Waiting
  BY DEF Waiting
<1>2. OnTheWay' \subseteq OnTheWay
  <2>1. \A v \in Views : held' = v => held = v
    BY NoneAssumption
  <2>2. \A v \in Views : (snap' # None /\ snap'.view = v) => (snap # None /\ snap.view = v)
    OBVIOUS
  <2> QED BY <1>1, <2>1, <2>2 DEF OnTheWay
<1>3. \A a \in InFlight : Has(terms, amend[a].sent.price, amend[a].sent.vol) /\ Last(terms).answer = None
  <2> SUFFICES ASSUME NEW a \in InFlight
               PROVE  Has(terms, amend[a].sent.price, amend[a].sent.vol) /\ Last(terms).answer = None
    OBVIOUS
  <2>1. amend[a] \in AmendOf /\ amend[a].sent.price \in Nat /\ amend[a].sent.vol \in Nat
    BY OneInFlight
  <2>2. amend[a].before \in Seq(EntryOf) /\ Unique(amend[a].before)
        /\ terms = RememberTerms(amend[a].before, amend[a].sent.price, amend[a].sent.vol)
    BY <2>1 DEF Sound, Journal, AmendOf
  <2>3. Has(terms, amend[a].sent.price, amend[a].sent.vol)
        /\ Last(terms) = Entry(amend[a].sent.price, amend[a].sent.vol, None)
    BY <2>1, <2>2, Remembered
  <2> QED BY <2>3 DEF Entry
<1>4. \A price, total : Claimed(price, total)' => Claimed(price, total) \/ Has(terms, price, total)
  <2> SUFFICES ASSUME NEW price, NEW total, Claimed(price, total)'
               PROVE  Claimed(price, total) \/ Has(terms, price, total)
    OBVIOUS
  <2>1. CASE order'.price = price /\ order'.total = total
    BY <2>1 DEF Claimed
  <2>2. ASSUME NEW a \in Adrifts', amend'[a].sent.price = price /\ amend'[a].sent.vol = total
        PROVE  Claimed(price, total) \/ Has(terms, price, total)
    <3>1. CASE a \in Adrifts
      BY <2>2, <3>1 DEF Claimed
    <3>2. CASE a \in InFlight
      BY <1>3, <2>2, <3>2
    <3> QED BY <3>1, <3>2
  <2>3. ASSUME NEW v \in OnTheWay', v.price = price /\ Whole(v) = total
        PROVE  Claimed(price, total)
    BY <1>2, <2>3 DEF Claimed
  <2> QED BY <1>0, <2>1, <2>2, <2>3 DEF Claimed
<1>5. Explains(terms)'
  <2>1. Covers(terms)'
    BY <1>4 DEF Quiet, Explains, Covers
  <2>2. Right(terms)'
    BY <1>0 DEF Quiet, Explains, Right
  <2>3. Latest(terms)'
    <3>1. CASE InFlight = {}
      <4>1. \A vol, exec : Settled(vol, exec) => Settled(vol, exec)'
        BY <1>0, <1>1, <3>1 DEF Settled
      <4> QED BY <4>1 DEF Quiet, Explains, Latest
    <3>2. CASE InFlight # {}
      BY <1>3, <3>2 DEF Latest
    <3> QED BY <3>1, <3>2
  <2> QED BY <2>1, <2>2, <2>3 DEF Explains
<1>6. Done' = {} /\ Undone' = {} /\ Knowable' = attrs
  BY NoneAnswers
<1>7. Knowable = attrs
  BY NothingLost
<1>8. AttrsKnown'
  <2>1. order'.attr \in Knowable' /\ \A v \in OnTheWay' : v.attr \in Knowable'
    BY <1>2, <1>6, <1>7 DEF Quiet, AttrsKnown
  <2>2. attrSeen' \in attrs' \union {None} /\ attrBefore' \in attrs' \union {None}
    BY DEF Quiet, AttrsKnown
  <2> QED BY <1>6, <2>1, <2>2 DEF AttrsKnown
<1>9. \A v \in Waiting' : v.exec <= order'.exec
  BY <1>1 DEF Quiet
<1>10. semantics' \in {None, means'.shows}
  BY DEF Quiet
<1> QED BY <1>5, <1>6, <1>8, <1>9, <1>10 DEF Quiet

\* An amend given up stays in the journal, whether or not it executes.
LEMMA LostQuiet ==
  ASSUME Sound, Sound', Quiet, (\E a \in Amends : AnswerLost(a)) \/ LinkLost
  PROVE  Quiet'
<1>1. /\ InFlight' = {} /\ amend' = Adrift(InFlight)
      /\ UNCHANGED <<order, means, terms, attrs, attrSeen, held, semantics, reported>>
      /\ queue' \in {queue, <<>>} /\ attrBefore' \in {attrBefore, None}
      /\ snap' = snap \/ (snap' # None => (snap # None /\ snap'.stale /\ snap'.view = snap.view))
      /\ \A a \in InFlight : Losable(a)
  BY LostSound
<1>2. /\ \A b \in Amends : b \notin InFlight => amend'[b] = amend[b]
      /\ \A b \in InFlight : /\ amend'[b].phase = "adrift" => amend'[b].sent = amend[b].sent
                             /\ amend'[b].phase = IF amend[b].phase = "out" THEN "adrift" ELSE "over"
  BY <1>1, AdriftTyped
<1>3. /\ \A a \in Adrifts' : a \in Adrifts \/ a \in InFlight
      /\ \A a \in Adrifts' : amend'[a].sent = amend[a].sent
      /\ InFlight = {} => (Adrifts' \subseteq Adrifts)
  BY <1>2 DEF Adrifts
<1>4. snap' = snap \/ snap' = None \/ (snap # None /\ snap'.view = snap.view)
  BY <1>1
<1>5. reported' = FALSE
  BY <1>1 DEF Quiet
<1> QED BY <1>1, <1>3, <1>4, <1>5, GivenUpQuiet

\* A restart finds in the journal all the order may be.
LEMMA RestartQuiet ==
  ASSUME Sound, Sound', Quiet, Restart PROVE Quiet'
<1>1. amend' = [a \in Amends |-> IF amend[a].phase = "idle" THEN Idle ELSE Over]
      /\ queue' = <<>> /\ attrSeen' = None /\ attrBefore' = None /\ held' = None
      /\ semantics' = None /\ reported' = FALSE /\ snap' = None
      /\ UNCHANGED <<order, means, terms, attrs>> /\ \A a \in InFlight : Losable(a)
  BY DEF Restart, journalVars
<1>2. Idle.phase = "idle" /\ Over.phase = "over"
  BY IdleTyped
<1>3. \A a \in Amends : amend'[a].phase \in {"idle", "over"}
  BY <1>1, <1>2
<1>4. InFlight' = {} /\ Adrifts' = {}
  BY <1>3 DEF InFlight, Adrifts
<1> QED BY <1>1, <1>4, GivenUpQuiet

\* A refused amend is taken back: the order never had its terms.
LEMMA RefusedQuiet ==
  ASSUME Sound, Sound', Quiet, NEW a \in Amends, Refused(a) PROVE Quiet'
<1>1. terms' = amend[a].before /\ InFlight' = {}
  BY RefusedSound
<1>2. amend' = [amend EXCEPT ![a] = Over] /\ a \in Undone /\ amend \in [Amends -> AmendOf]
  BY DEF Refused, Undone, InFlight, Sound, VenueTyped
<1>3. UNCHANGED <<order, means, queue, attrs, attrSeen, held, semantics, reported>> /\ Ended
  BY DEF Refused, venueVars
<1>4. attrBefore' = None /\ (snap' = snap \/ snap' = None \/ (snap # None /\ snap'.view = snap.view))
  <2>1. snap \in [view : Views, stale : BOOLEAN] \union {None}
    BY DEF Sound, BotTyped
  <2>2. /\ attrBefore' = None
        /\ snap' # None => (snap # None /\ snap'.stale /\ snap'.view = snap.view)
    BY <1>3, <2>1, EndedTyped
  <2> QED BY <2>2
<1>5. Adrifts' = Adrifts /\ \A b \in Adrifts : amend'[b] = amend[b]
  <2>1. Over.phase = "over"
    BY IdleTyped
  <2>2. amend[a].phase = "back"
    BY DEF Refused
  <2>3. amend'[a] = Over /\ \A b \in Amends : b # a => amend'[b] = amend[b]
    BY Zenon, <1>2
  <2> QED BY <2>1, <2>2, <2>3 DEF Adrifts
<1>6. Done' = {} /\ Undone' = {} /\ Knowable' = attrs
  BY <1>1, <1>3, NoneAnswers
<1>7. Done = {} /\ Knowable = attrs
  <2>1. InFlight = {a}
    BY <1>2, OneInFlight DEF Undone
  <2>2. Done = {}
    BY <1>2, <2>1 DEF Done, Undone
  <2> QED BY <2>2 DEF Knowable
<1>8. \A v : Whole(v)' = Whole(v)
  BY <1>3 DEF Whole
<1>9. Waiting' = Waiting
  BY Zenon, <1>3 DEF Waiting
<1>10. OnTheWay' \subseteq OnTheWay
  BY <1>3, <1>4, <1>9 DEF OnTheWay
<1>11. \A price, total : Claimed(price, total)' => Claimed(price, total)
  BY <1>3, <1>5, <1>8, <1>10 DEF Claimed
<1>12. \A vol, exec : Settled(vol, exec) => Settled(vol, exec)'
  BY <1>3, <1>5, <1>8, <1>9 DEF Settled
<1>13. Explains(terms)'
  <2>1. \A ts : Explains(ts) => Explains(ts)'
    BY <1>3, <1>11, <1>12, ExplainsKept
  <2>2. Explains(amend[a].before)
    BY <1>2 DEF Quiet
  <2> QED BY <1>1, <2>1, <2>2
<1>14. AttrsKnown'
  <2>1. order'.attr \in Knowable' /\ \A v \in OnTheWay' : v.attr \in Knowable'
    BY <1>3, <1>6, <1>7, <1>10 DEF Quiet, AttrsKnown
  <2>2. attrSeen' \in attrs' \union {None} /\ attrBefore' \in attrs' \union {None}
    BY <1>3, <1>4 DEF Quiet, AttrsKnown
  <2> QED BY <1>3, <1>6, <2>1, <2>2 DEF AttrsKnown
<1>15. (\A v \in Waiting' : v.exec <= order'.exec) /\ reported' = FALSE /\ semantics' \in {None, means'.shows}
  BY <1>3, <1>9 DEF Quiet
<1> QED BY <1>6, <1>13, <1>14, <1>15 DEF Quiet

\* The answer makes known the attributes the venue filled in, and the volume it shows.
LEMMA AnsweredQuiet ==
  ASSUME Sound, Sound', Quiet, NEW a \in Amends, Answered(a) PROVE Quiet'
<1> DEFINE view == amend[a].answer
           sent == amend[a].sent
<1>1. a \in InFlight /\ a \in Done /\ amend[a].phase = "back"
  BY DEF Answered, InFlight, Done
<1>2. /\ InFlight = {a} /\ amend[a] \in AmendOf /\ sent.price \in Nat /\ sent.vol \in Nat
      /\ \A b \in Amends : b > a => amend[b].phase = "idle"
      /\ \A b \in Amends : b < a => amend[b].phase = "over"
  BY <1>1, OneInFlight
<1>3. view \in Views
  BY <1>1, <1>2 DEF AmendOf, Done
<1>4. view.vol \in Nat /\ view.exec \in Nat /\ view.attr \in Attrs
  BY <1>3 DEF Views, Attrs
<1>5. /\ UNCHANGED <<order, means, queue, held, semantics, reported>> /\ Ended
      /\ amend' = [amend EXCEPT ![a] = Over] /\ terms' = RememberAnswer(terms, sent, view)
      /\ attrSeen' = view.attr
      /\ attrs' = IF Unexplained(view) THEN attrs \union {view.attr} ELSE attrs
  BY DEF Answered, venueVars
<1>6. AnswerRight(a)
  BY <1>1 DEF Quiet
<1>7. amend' \in [Amends -> AmendOf] /\ InFlight' = {}
  BY <1>1, <1>5, AmendOver
<1>8. Adrifts = {} /\ Adrifts' = {}
  <2>1. Amends \subseteq Nat
    BY DEF Amends
  <2>2. \A b \in Amends : amend[b].phase # "adrift"
    <3> TAKE b \in Amends
    <3>1. b = a \/ b < a \/ b > a
      BY <2>1
    <3> QED BY <1>1, <1>2, <3>1
  <2>3. Over.phase = "over"
    BY IdleTyped
  <2>4. \A b \in Amends : b # a => amend'[b] = amend[b]
    BY Zenon, <1>5 DEF Sound, VenueTyped
  <2>5. amend'[a] = Over
    BY Zenon, <1>5 DEF Sound, VenueTyped
  <2> QED BY <2>2, <2>3, <2>4, <2>5 DEF Adrifts
<1>9. attrBefore' = None /\ (snap' = snap \/ snap' = None \/ (snap # None /\ snap'.view = snap.view))
  <2>1. snap \in [view : Views, stale : BOOLEAN] \union {None}
    BY DEF Sound, BotTyped
  <2>2. /\ attrBefore' = None
        /\ snap' # None => (snap # None /\ snap'.stale /\ snap'.view = snap.view)
    BY <1>5, <2>1, EndedTyped
  <2> QED BY <2>2
<1>10. Done' = {} /\ Undone' = {} /\ Knowable' = attrs'
  BY <1>7, NoneAnswers
<1>11. \A v : Whole(v)' = Whole(v)
  BY <1>5 DEF Whole
<1>12. Waiting' = Waiting
  BY Zenon, <1>5 DEF Waiting
<1>13. OnTheWay' \subseteq OnTheWay
  BY <1>5, <1>9, <1>12 DEF OnTheWay
<1>14. \A price, total : Claimed(price, total)' => Claimed(price, total)
  BY <1>5, <1>8, <1>11, <1>13 DEF Claimed
<1>15. \A vol, exec : Settled(vol, exec) => Settled(vol, exec)'
  BY <1>5, <1>8, <1>11, <1>12 DEF Settled
<1>16. terms \in Seq(EntryOf) /\ terms # <<>>
       /\ Last(terms) = Entry(sent.price, sent.vol, None)
  <2>1. amend[a].before \in Seq(EntryOf) /\ Unique(amend[a].before)
        /\ terms = RememberTerms(amend[a].before, sent.price, sent.vol)
    BY <1>1, <1>2 DEF Sound, Journal, AmendOf
  <2>2. Last(terms) = Entry(sent.price, sent.vol, None)
    BY <1>2, <2>1, Remembered
  <2> QED BY <2>2 DEF Sound, VenueTyped, Journal
<1>17. /\ Len(terms') = Len(terms) /\ DOMAIN terms' = DOMAIN terms
       /\ \A i \in DOMAIN terms :
            /\ terms'[i].price = terms[i].price /\ terms'[i].vol = terms[i].vol
            /\ terms'[i].answer = IF Same(terms[i], sent.price, sent.vol) THEN Shown(view) ELSE terms[i].answer
  BY <1>4, <1>5, <1>16, AnswerKept
<1>18. Explains(terms)'
  <2>1. Covers(terms)'
    <3>1. \A p, v : Has(terms, p, v) => Has(terms', p, v)
      BY <1>17 DEF Has, Same
    <3> QED BY <1>14, <3>1 DEF Quiet, Explains, Covers
  <2>2. Right(terms)'
    <3>1. Whole(Shown(view)) = sent.vol
      BY <1>6 DEF AnswerRight, Shown, Whole
    <3>2. \A i \in DOMAIN terms : terms[i].answer # None => Whole(terms[i].answer) = terms[i].vol
      BY DEF Quiet, Explains, Right
    <3>3. \A i \in DOMAIN terms' : terms'[i].answer # None => Whole(terms'[i].answer) = terms'[i].vol
      BY <1>17, <3>1, <3>2 DEF Same
    <3> QED BY <1>11, <3>3 DEF Right
  <2>3. Latest(terms)'
    <3>1. Len(terms) \in DOMAIN terms /\ Last(terms) = terms[Len(terms)] /\ Last(terms') = terms'[Len(terms)]
      BY <1>16, <1>17 DEF Last
    <3>2. Same(terms[Len(terms)], sent.price, sent.vol)
      BY <1>16, <3>1 DEF Same, Entry
    <3>3. Last(terms').vol = sent.vol /\ Last(terms').answer.exec = view.exec
      BY <1>17, <3>1, <3>2 DEF Same, Shown
    <3>4. Settled(sent.vol, view.exec)
      BY <1>6 DEF AnswerRight
    <3>5. Settled(Last(terms').vol, Last(terms').answer.exec)
      BY Zenon, <3>3, <3>4
    <3> QED BY <1>15, <3>5 DEF Latest
  <2> QED BY <2>1, <2>2, <2>3 DEF Explains
<1> HIDE DEF view
<1>19. Knowable \subseteq attrs' /\ attrs \subseteq attrs'
  <2>1. Knowable = attrs \union {view.attr}
    <3>1. Done = {a}
      BY <1>1, <1>2 DEF Done
    <3> QED BY <3>1 DEF Knowable, view
  <2>2. ASSUME view.attr \notin attrs PROVE view.attr \notin Earlier(view)
    <3>1. view.attr # None
      BY <1>4, NoneAssumption DEF Attrs
    <3>2. view.attr # attrBefore
      BY <2>2, <3>1 DEF Quiet, AttrsKnown
    <3>3. ASSUME held # None, held.price # view.price \/ held.vol # view.vol PROVE view.attr # held.attr
      <4>1. held \in Views
        BY <3>3 DEF Sound, BotTyped
      <4>2. held \in Echoes
        BY <4>1 DEF Echoes
      <4>3. held.attr \in attrs
        BY <1>1, <3>3, <4>2 DEF Quiet, AttrsKnown, view
      <4> QED BY <2>2, <4>3
    <3> QED BY <3>2, <3>3 DEF Earlier
  <2>3. view.attr \in attrs'
    BY <1>5, <2>2 DEF Unexplained, view
  <2>4. attrs \subseteq attrs'
    BY <1>5
  <2> QED BY <2>1, <2>3, <2>4
<1>20. AttrsKnown'
  <2>1. order'.attr \in Knowable' /\ \A v \in OnTheWay' : v.attr \in Knowable'
    BY <1>5, <1>10, <1>13, <1>19 DEF Quiet, AttrsKnown
  <2>2. attrSeen' \in attrs'
    BY <1>1, <1>5, <1>19 DEF Knowable, view
  <2> QED BY <1>9, <1>10, <2>1, <2>2 DEF AttrsKnown
<1>21. (\A v \in Waiting' : v.exec <= order'.exec) /\ reported' = FALSE /\ semantics' \in {None, means'.shows}
  BY <1>5, <1>12 DEF Quiet
<1> QED BY <1>10, <1>18, <1>20, <1>21 DEF Quiet

\* A refusal changes nothing the bot may see.
LEMMA RefuseQuiet ==
  ASSUME Sound, Sound', Quiet, NEW a \in Amends, Refuse(a) PROVE Quiet'
<1>1. /\ UNCHANGED <<order, means, queue, terms, attrs, attrSeen, attrBefore, held, semantics, reported, snap>>
      /\ AtVenue(a) /\ Return(a, None)
  BY DEF Refuse, venueVars, journalVars, amendVars
<1>2. /\ InFlight' = InFlight /\ \A b \in Amends : b # a => amend'[b] = amend[b]
      /\ IF amend[a].phase = "out"
         THEN /\ amend'[a].phase = "back" /\ amend'[a].answer = None
              /\ amend'[a].sent = amend[a].sent /\ amend'[a].before = amend[a].before
         ELSE amend'[a] = Over /\ amend[a].phase = "adrift"
  BY <1>1, ReturnTyped
<1>3. amend[a].phase \in {"out", "adrift"} /\ amend[a].answer = None
  BY <1>1 DEF AtVenue, Sound, InOrder
<1>4. /\ Done' = Done /\ Undone' = Undone
      /\ \A b \in InFlight : amend'[b].before = amend[b].before
      /\ \A b \in Done : amend'[b] = amend[b]
  BY <1>2, <1>3 DEF InFlight, Done, Undone
<1>5. Adrifts' \subseteq Adrifts /\ \A b \in Adrifts' : amend'[b] = amend[b]
  <2>1. Over.phase = "over"
    BY IdleTyped
  <2> QED BY <1>2, <1>3, <2>1 DEF Adrifts
<1>6. \A v : Whole(v)' = Whole(v)
  BY <1>1 DEF Whole
<1>7. Waiting' = Waiting /\ OnTheWay' = OnTheWay /\ Echoes' = Echoes
  BY Zenon, <1>1 DEF Waiting, OnTheWay, Echoes
<1>8. \A price, total : Claimed(price, total)' => Claimed(price, total)
  BY <1>1, <1>5, <1>6, <1>7 DEF Claimed
<1>9. \A vol, exec : Settled(vol, exec) => Settled(vol, exec)'
  BY <1>1, <1>5, <1>6, <1>7 DEF Settled
<1>10. \A ts : Explains(ts) => Explains(ts)'
  BY <1>1, <1>8, <1>9, ExplainsKept
<1>11. Explains(terms)' /\ \A b \in Undone' : Explains(amend[b].before)'
  BY <1>1, <1>4, <1>10 DEF Quiet, Undone
<1>12. \A b \in Done' : AnswerRight(b)'
  <2> SUFFICES ASSUME NEW b \in Done PROVE AnswerRight(b)'
    BY <1>4
  <2>1. AnswerRight(b) /\ amend'[b] = amend[b]
    BY <1>4 DEF Quiet
  <2> QED BY <1>6, <1>9, <2>1 DEF AnswerRight
<1>13. AttrsKnown'
  <2>1. Knowable' = Knowable
    <3>1. {amend'[b].answer.attr : b \in Done'} = {amend[b].answer.attr : b \in Done}
      BY <1>4
    <3> QED BY <1>1, <3>1 DEF Knowable
  <2>2. \A b \in Done' : \A v \in Echoes' :
          v.attr \in attrs' \/ (v.price = amend'[b].answer.price /\ v.vol = amend'[b].answer.vol)
    <3> SUFFICES ASSUME NEW b \in Done, NEW v \in Echoes
                 PROVE  v.attr \in attrs \/ (v.price = amend'[b].answer.price /\ v.vol = amend'[b].answer.vol)
      BY <1>1, <1>4, <1>7
    <3>1. amend'[b] = amend[b]
      BY <1>4
    <3> QED BY <3>1 DEF Quiet, AttrsKnown
  <2> QED BY <1>1, <1>7, <2>1, <2>2 DEF Quiet, AttrsKnown
<1> QED BY <1>1, <1>7, <1>11, <1>12, <1>13 DEF Quiet

\* An amend that executes gives the order terms the journal holds.
LEMMA AcceptQuiet ==
  ASSUME TakesWhole, means \in Venues, Sound, Sound', Quiet, NEW a \in Amends, Accept(a) PROVE Quiet'
<1>0. PICK w, sent : w = View(order') /\ sent = amend[a].sent
  OBVIOUS
<1>1. UNCHANGED <<means, terms, attrs, attrSeen, attrBefore, held, semantics, reported, snap>> /\ AtVenue(a)
  BY DEF Accept, journalVars, amendVars
<1>2. /\ order' \in Orders /\ order'.price = sent.price /\ order'.exec = order.exec /\ order'.total = sent.vol
      /\ (order'.attr = order.attr \/ (VenueSets /\ amend[a].phase = "out" /\ Alone(a)))
      /\ \A i \in DOMAIN queue' :
           \/ i \in DOMAIN queue /\ queue'[i] = queue[i]
           \/ queue'[i] = [kind |-> "replaced", view |-> w]
      /\ w \in Views /\ Return(a, w)
  BY <1>0, AcceptedOrder DEF TakesWhole
<1>3. means \in [shows : Meanings, takes : Meanings]
  BY DEF Sound, VenueTyped
<1>4. w.exec = order.exec /\ w.price = sent.price /\ w.attr = order'.attr /\ Whole(w) = sent.vol
  BY <1>0, <1>2, <1>3, ViewTyped, ViewWhole
<1>5. w \in Views /\ w # None
  BY <1>2, NoneAssumption
<1>6. /\ InFlight' = InFlight /\ \A b \in Amends : b # a => amend'[b] = amend[b]
      /\ IF amend[a].phase = "out"
         THEN /\ amend'[a].phase = "back" /\ amend'[a].answer = w
              /\ amend'[a].sent = sent /\ amend'[a].before = amend[a].before
         ELSE amend'[a] = Over /\ amend[a].phase = "adrift"
  BY <1>0, <1>1, <1>2, <1>5, ReturnTyped
<1>7. amend[a].phase \in {"out", "adrift"} /\ amend[a].answer = None /\ a \notin Done
  BY <1>1 DEF AtVenue, Sound, InOrder, Done
<1>8. \A v : Whole(v)' = Whole(v)
  BY <1>1 DEF Whole
<1>9. Waiting' \subseteq Waiting \union {w}
  BY <1>2 DEF Waiting
<1>10. OnTheWay' \subseteq OnTheWay \union {w}
  BY <1>1, <1>9 DEF OnTheWay
<1>11. Echoes' \subseteq Echoes \union {w}
  BY <1>1, <1>2 DEF Echoes
<1>12. \A v \in Waiting' : v.exec <= order'.exec
  <2>1. order.exec \in Nat
    BY DEF Sound, VenueTyped, Orders
  <2> QED BY <1>2, <1>4, <1>9, <2>1 DEF Quiet
<1>13. Done = {}
  <2> SUFFICES ASSUME NEW b \in Done PROVE FALSE
    OBVIOUS
  <2>1. b \in Amends /\ b \in InFlight /\ amend[b].answer # None /\ amend[b].phase = "back" /\ b # a
    BY <1>7 DEF Done, InFlight, Sound, InOrder
  <2>2. /\ a > b => amend[a].phase = "idle"
        /\ a < b => amend[a].phase = "over"
    BY <2>1, OneInFlight
  <2>3. a \in Nat /\ b \in Nat
    BY <2>1 DEF Amends
  <2> QED BY <1>7, <2>1, <2>2, <2>3
<1>14. Knowable = attrs
  BY <1>13 DEF Knowable
<1>15. Adrifts' \subseteq Adrifts /\ \A b \in Adrifts' : amend'[b] = amend[b]
  <2>1. Over.phase = "over"
    BY IdleTyped
  <2> QED BY <1>6, <1>7, <2>1 DEF Adrifts
<1>16. \A price, total : Claimed(price, total)' => Claimed(price, total) \/ (price = sent.price /\ total = sent.vol)
  BY <1>2, <1>4, <1>8, <1>10, <1>15 DEF Claimed
<1>17. reported' = FALSE /\ semantics' \in {None, means'.shows}
  BY <1>1 DEF Quiet
<1>18. CASE amend[a].phase = "out"
  <2>1. a \in InFlight /\ InFlight = {a}
    BY <1>18, OneInFlight DEF InFlight
  <2>2. amend[a] \in AmendOf /\ sent.price \in Nat /\ sent.vol \in Nat
    BY <1>0, <2>1, OneInFlight
  <2>3. Done' = {a} /\ Undone' = {}
    BY <1>5, <1>6, <1>18, <2>1 DEF Done, Undone
  <2>4. Has(terms, sent.price, sent.vol) /\ Last(terms).answer = None
    <3>1. amend[a].before \in Seq(EntryOf) /\ Unique(amend[a].before)
          /\ terms = RememberTerms(amend[a].before, sent.price, sent.vol)
      BY <1>0, <2>1, <2>2 DEF Sound, Journal, AmendOf
    <3>2. Has(terms, sent.price, sent.vol) /\ Last(terms) = Entry(sent.price, sent.vol, None)
      BY <2>2, <3>1, Remembered
    <3> QED BY <3>2 DEF Entry
  <2>5. Explains(terms)'
    <3>1. Covers(terms)'
      BY <1>1, <1>16, <2>4 DEF Quiet, Explains, Covers
    <3>2. Right(terms)'
      BY <1>1, <1>8 DEF Quiet, Explains, Right
    <3>3. Latest(terms)'
      BY <1>1, <2>4 DEF Latest
    <3> QED BY <3>1, <3>2, <3>3 DEF Explains
  <2>6. AnswerRight(a)'
    <3>1. amend'[a].answer = w /\ amend'[a].sent = sent
      BY <1>6, <1>18
    <3>2. Settled(sent.vol, w.exec)'
      <4>1. Adrifts' = {}
        <5> SUFFICES ASSUME NEW b \in Amends, amend'[b].phase = "adrift" PROVE FALSE
          BY DEF Adrifts
        <5>1. a \in Nat /\ b \in Nat /\ b # a /\ amend[b].phase = "adrift"
          BY <1>6, <1>18 DEF Amends
        <5>2. /\ b > a => amend[b].phase = "idle"
              /\ b < a => amend[b].phase # "adrift"
          BY <1>1, <2>1, OneInFlight DEF AtVenue
        <5> QED BY <5>1, <5>2
      <4>2. \A v \in Waiting' : v.exec > w.exec => Whole(v)' = sent.vol
        <5> SUFFICES ASSUME NEW v \in Waiting', v.exec > w.exec PROVE FALSE
          OBVIOUS
        <5>1. v.exec <= w.exec
          BY <1>2, <1>4, <1>12
        <5>2. v.exec \in Nat /\ w.exec \in Nat
          BY <1>5 DEF Waiting, Views
        <5> QED BY <5>1, <5>2
      <4> QED BY <1>2, <4>1, <4>2 DEF Settled
    <3>3. w.price = sent.price /\ Whole(w)' = sent.vol
      BY <1>4, <1>8
    <3> QED BY <3>1, <3>2, <3>3 DEF AnswerRight
  <2>7. AttrsKnown'
    <3>1. Knowable' = attrs \union {w.attr}
      <4>1. amend'[a].answer = w
        BY <1>6, <1>18
      <4> QED BY <1>1, <2>3, <4>1 DEF Knowable
    <3>2. order'.attr \in Knowable' /\ \A v \in OnTheWay' : v.attr \in Knowable'
      BY <1>4, <1>10, <1>14, <3>1 DEF Quiet, AttrsKnown
    <3>3. \A b \in Done' : \A v \in Echoes' :
            v.attr \in attrs' \/ (v.price = amend'[b].answer.price /\ v.vol = amend'[b].answer.vol)
      <4> SUFFICES ASSUME NEW v \in Echoes'
                   PROVE  v.attr \in attrs \/ (v.price = w.price /\ v.vol = w.vol)
        BY <1>1, <1>6, <1>18, <2>3
      <4>1. CASE v = w
        BY <4>1
      <4>2. CASE v \in Echoes
        <5>1. v \in OnTheWay
          BY <4>2 DEF Echoes, OnTheWay, Waiting
        <5> QED BY <1>14, <5>1 DEF Quiet, AttrsKnown
      <4> QED BY <1>11, <4>1, <4>2
    <3>4. ~VenueSets => Knowable' \subseteq attrs'
      <4> SUFFICES ASSUME ~VenueSets PROVE w.attr \in attrs
        BY <1>1, <3>1
      <4> QED BY <1>2, <1>4, <1>14 DEF Quiet, AttrsKnown
    <3>5. attrSeen' \in attrs' \union {None} /\ attrBefore' \in attrs' \union {None}
      BY <1>1 DEF Quiet, AttrsKnown
    <3> QED BY <3>2, <3>3, <3>4, <3>5 DEF AttrsKnown
  <2> QED BY <1>12, <1>17, <2>3, <2>5, <2>6, <2>7 DEF Quiet
<1>19. CASE amend[a].phase = "adrift"
  <2>1. a \in Adrifts
    BY <1>19 DEF Adrifts
  <2>2. \A price, total : Claimed(price, total)' => Claimed(price, total)
    BY <1>0, <1>16, <2>1 DEF Claimed
  <2>3. \A vol, exec : ~Settled(vol, exec)
    BY <2>1 DEF Settled
  <2>4. \A ts : Explains(ts) => Explains(ts)'
    BY <1>1, <2>2, <2>3, ExplainsKept
  <2>5. \A b \in InFlight : b # a /\ amend'[b] = amend[b]
    BY <1>6, <1>19 DEF InFlight
  <2>6. Done' = {} /\ Undone' = Undone
    BY <1>6, <1>13, <2>5 DEF Done, Undone
  <2>7. Explains(terms)' /\ \A b \in Undone' : Explains(amend[b].before)'
    BY <1>1, <2>4, <2>5, <2>6 DEF Quiet, Undone
  <2>8. AttrsKnown'
    <3>1. Knowable' = attrs
      BY <1>1, <2>6 DEF Knowable
    <3>2. order'.attr = order.attr /\ w.attr = order.attr
      BY <1>2, <1>4, <1>19
    <3>3. order'.attr \in Knowable' /\ \A v \in OnTheWay' : v.attr \in Knowable'
      BY <1>10, <1>14, <3>1, <3>2 DEF Quiet, AttrsKnown
    <3>4. attrSeen' \in attrs' \union {None} /\ attrBefore' \in attrs' \union {None}
      BY <1>1 DEF Quiet, AttrsKnown
    <3> QED BY <1>1, <2>6, <3>1, <3>3, <3>4 DEF AttrsKnown
  <2> QED BY <1>12, <1>17, <2>6, <2>7, <2>8 DEF Quiet
<1> QED BY <1>7, <1>18, <1>19

\* The placed order is explained.
LEMMA InitQuiet == Init => Quiet
<1> SUFFICES ASSUME Init PROVE Quiet
  OBVIOUS
<1>1. /\ order = [price |-> 1, total |-> Volume, exec |-> 0, attr |-> "default"]
      /\ queue = <<>> /\ held = None /\ snap = None /\ attrs = {"default"} /\ attrBefore = None
      /\ attrSeen \in {"default", None} /\ reported = FALSE /\ semantics = None
      /\ \/ terms = <<Entry(1, Volume, [vol |-> Volume, exec |-> 0])>>
         \/ terms = <<Entry(1, Volume, None)>>
  BY DEF Init
<1>2. \A a \in Amends : amend[a].phase = "idle"
  BY IdleTyped DEF Init
<1>3. InFlight = {} /\ Done = {} /\ Undone = {} /\ Adrifts = {} /\ Knowable = attrs
  BY <1>2 DEF InFlight, Done, Undone, Adrifts, Knowable
<1>4. Waiting = {}
  BY <1>1 DEF Waiting
<1>5. OnTheWay = {}
  BY <1>1, <1>4, NoneAssumption DEF OnTheWay
<1>6. DOMAIN terms = {1} /\ Len(terms) = 1 /\ terms[1].price = 1 /\ terms[1].vol = Volume
      /\ (terms[1].answer # None => terms[1].answer = [vol |-> Volume, exec |-> 0])
  BY <1>1 DEF Entry
<1>7. Explains(terms)
  <2>1. Covers(terms)
    BY <1>1, <1>3, <1>5, <1>6 DEF Covers, Claimed, Has, Same
  <2>2. Right(terms)
    BY <1>6, TermsAssumption DEF Right, Whole
  <2>3. Latest(terms)
    <3>1. Last(terms) = terms[1]
      BY <1>6 DEF Last
    <3> QED BY <1>1, <1>3, <1>4, <1>6, <3>1 DEF Latest, Settled
  <2> QED BY <2>1, <2>2, <2>3 DEF Explains
<1>8. AttrsKnown
  BY <1>1, <1>3, <1>5 DEF AttrsKnown
<1> QED BY <1>1, <1>3, <1>4, <1>7, <1>8 DEF Quiet

\* Every step keeps the calm; an edit ends it.
LEMMA StepCalm ==
  ASSUME TakesWhole, means \in Venues, Sound, Calm, [Next]_vars PROVE Calm'
<1>1. Sound'
  BY StepSound
<1>2. CASE UNCHANGED vars
  <2>1. UNCHANGED <<order, means, queue, amend, terms, attrs, attrSeen, attrBefore, held, semantics,
                    snap, reported, edits>>
    BY <1>2 DEF vars, venueVars, journalVars, amendVars, boundVars
  <2>2. Quiet => Quiet'
    <3> SUFFICES ASSUME Quiet PROVE Quiet'
      OBVIOUS
    <3>1. reported' = FALSE /\ attrSeen' \in attrs \union {None} /\ semantics' \in {None, means.shows}
      BY <2>1 DEF Quiet, AttrsKnown
    <3> QED BY <2>1, <3>1, FewerQuiet
  <2> QED BY <2>1, <2>2 DEF Calm
<1>3. CASE Edit
  <2>1. edits' # 0
    BY <1>3 DEF Edit, Calm
  <2> QED BY <1>3, <2>1 DEF Calm, Edit
<1>4. ASSUME Next, ~Edit PROVE edits' = edits /\ (Quiet => Quiet')
  <2>1. CASE Fill
    BY <1>1, <2>1, FillQuiet DEF Fill, boundVars
  <2>2. ASSUME NEW a \in Amends, Send(a) PROVE edits' = edits /\ (Quiet => Quiet')
    BY <1>1, <2>2, SendQuiet DEF Send, boundVars
  <2>3. CASE (\E a \in Amends : AnswerLost(a)) \/ LinkLost
    BY <1>1, <2>3, LostQuiet DEF AnswerLost, LinkLost
  <2>4. ASSUME NEW a \in Amends, Accept(a) PROVE edits' = edits /\ (Quiet => Quiet')
    BY <1>1, <2>4, AcceptQuiet DEF Accept, boundVars
  <2>5. ASSUME NEW a \in Amends, Refuse(a) PROVE edits' = edits /\ (Quiet => Quiet')
    BY <1>1, <2>5, RefuseQuiet DEF Refuse, boundVars
  <2>6. ASSUME NEW a \in Amends, Answered(a) PROVE edits' = edits /\ (Quiet => Quiet')
    BY <1>1, <2>6, AnsweredQuiet DEF Answered, boundVars
  <2>7. ASSUME NEW a \in Amends, Refused(a) PROVE edits' = edits /\ (Quiet => Quiet')
    BY <1>1, <2>7, RefusedQuiet DEF Refused, boundVars
  <2>8. CASE Translate
    BY <2>8, TranslateQuiet DEF Translate, boundVars
  <2>9. CASE PassBegins
    BY <1>1, <2>9, PassBeginsQuiet DEF PassBegins, boundVars
  <2>10. CASE PassSkips \/ PassFails
    BY <2>10, PassSkipsQuiet DEF PassSkips, PassFails, boundVars
  <2>11. CASE PassObserves
    BY <2>11, PassObservesQuiet DEF PassObserves, boundVars
  <2>12. CASE PassAccepts
    BY <2>12, PassAcceptsQuiet DEF PassAccepts, boundVars
  <2>13. CASE Restart
    BY <1>1, <2>13, RestartQuiet DEF Restart
  <2> QED BY Zenon, <1>4, <2>1, <2>2, <2>3, <2>4, <2>5, <2>6, <2>7, <2>8, <2>9, <2>10, <2>11, <2>12, <2>13
          DEF Next, Pass, AmendEnds
<1> QED BY Zenon, <1>2, <1>3, <1>4 DEF Calm

\* What a volume means at the venue does not change.
LEMMA MeansKept == Spec => [](means \in Venues)
<1>1. Init => means \in Venues
  BY DEF Init
<1>2. means \in Venues /\ [Next]_vars => (means \in Venues)'
  BY DEF Next, vars, venueVars, Fill, Edit, Send, Accept, Refuse, Answered, Refused, AnswerLost, LinkLost, Translate,
         Pass, PassBegins, PassSkips, PassObserves, PassAccepts, PassFails, Restart, AmendEnds
<1> QED BY <1>1, <1>2, PTL DEF Spec

\* As long as nobody but the bot edits the order, its journal explains every view of
\* it, whatever is refused, unanswered, answered late or seen before its answer.
THEOREM CalmKept == TakesWhole => (Spec => []Calm)
<1> SUFFICES ASSUME TakesWhole PROVE Spec => []Calm
  OBVIOUS
<1>1. Init => Calm
  BY InitQuiet DEF Init, Calm
<1>2. (means \in Venues /\ Sound /\ Calm) /\ [Next]_vars => Calm'
  BY StepCalm
<1> QED BY <1>1, <1>2, TermsSound, MeansKept, PTL DEF Spec

\* What the bot goes by is well-formed, its journal holds each of its terms once, and
\* without an edit of others it is never taught a volume the venue does not show.
THEOREM KnowledgeIsSound == TakesWhole => (Spec => []KnowledgeSound)
<1> SUFFICES ASSUME TakesWhole PROVE Spec => []KnowledgeSound
  OBVIOUS
<1>1. Sound => TypeOK
  <2> SUFFICES ASSUME Sound PROVE TypeOK
    OBVIOUS
  <2>1. order.price \in Nat /\ order.exec < order.total /\ order.attr \in {"default", "set"}
    BY DEF Sound, VenueTyped, Orders, Attrs
  <2>2. \A i \in DOMAIN queue : queue[i].kind \in {"replaced", "partial"} /\ queue[i].view \in Views
    <3> SUFFICES ASSUME NEW i \in DOMAIN queue
                 PROVE  queue[i].kind \in {"replaced", "partial"} /\ queue[i].view \in Views
      OBVIOUS
    <3>1. queue[i] \in Pushes
      BY DEF Sound, VenueTyped
    <3> QED BY <3>1 DEF Pushes
  <2>3. \A a \in Amends : /\ amend[a].phase \in {"idle", "out", "back", "adrift", "over"}
                           /\ amend[a].sent \in OwnTerms \union {None}
                           /\ amend[a].answer \in Views \union {None}
    BY DEF Sound, VenueTyped, AmendOf, Phases
  <2>4. \A i \in DOMAIN terms : terms[i].price \in Nat /\ terms[i].vol \in Nat
    <3> SUFFICES ASSUME NEW i \in DOMAIN terms PROVE terms[i].price \in Nat /\ terms[i].vol \in Nat
      OBVIOUS
    <3>1. terms[i] \in EntryOf
      BY DEF Sound, VenueTyped
    <3> QED BY <3>1 DEF EntryOf
  <2>5. /\ attrs \subseteq {"default", "set"} /\ {attrSeen, attrBefore} \subseteq {"default", "set", None}
        /\ {held, watch} \subseteq Views \union {None} /\ semantics \in Meanings \union {None}
        /\ {reported, noticed, baselined, resized} \subseteq BOOLEAN
    BY DEF Sound, BotTyped, Attrs
  <2> QED BY <2>1, <2>2, <2>3, <2>4, <2>5 DEF TypeOK
<1>2. Sound => terms # <<>> /\ Unique(terms)
  BY DEF Sound, Journal
<1>3. Calm => (edits = 0 => semantics \in {None, means.shows})
  BY DEF Calm, Quiet
<1>4. Sound /\ Calm => KnowledgeSound
  BY <1>1, <1>2, <1>3 DEF KnowledgeSound, Unique
<1> QED BY <1>4, TermsSound, CalmKept, PTL

\* Nobody is accused of an edit as long as nobody but the bot edits the order.
THEOREM NoneAccused == TakesWhole => (Spec => []OwnExplained)
<1> SUFFICES ASSUME TakesWhole PROVE Spec => []OwnExplained
  OBVIOUS
<1>1. Calm => OwnExplained
  BY DEF Calm, Quiet, OwnExplained
<1> QED BY <1>1, CalmKept, PTL
=============================================================================
