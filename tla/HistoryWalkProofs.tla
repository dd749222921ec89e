------------------------- MODULE HistoryWalkProofs -------------------------
(***************************************************************************)
(* Proofs about HistoryWalk, for every set of walks, page size, budget,    *)
(* overlap no shorter than the clocks' difference, and bound; no two deals *)
(* carry one stamp.                                                        *)
(*                                                                         *)
(* A walk is sound when each deal of its window is read, owed, or late     *)
(* enough to be read again.  One lemma per operation on a walk shows that  *)
(* it stays sound; a sound walk that owes nothing is complete.             *)
(***************************************************************************)
EXTENDS HistoryWalk, SequenceTheorems, TLAPS

USE DEF boundVars, passVars

-----------------------------------------------------------------------------
(* Operations on a walk *)

\* A walk whose window is empty is sound.
LEMMA FreshSound ==
  ASSUME TypeOK, NEW from \in Nat
  PROVE  Fresh(from) \in WalkState /\ WalkSound(Fresh(from))
<1>1. Fresh(from) \in WalkState
  BY DEF Fresh, WalkState, Segment
<1>2. OwedSound(Fresh(from)) /\ KnownCovered(Fresh(from)) /\ Clocked(Fresh(from))
  BY DEF Fresh, OwedSound, KnownCovered, Clocked, InWindow, TypeOK
<1>3. LateReread(Fresh(from))
  BY ClockAssumption DEF Fresh, LateReread, InWindow, TypeOK
<1> QED BY <1>1, <1>2, <1>3 DEF WalkSound

\* An extension leaves what was owed owed, and owes all that is new or late.
LEMMA OwedCovers ==
  ASSUME TypeOK, NEW k \in WalkState, WalkSound(k), now > k.high
  PROVE  /\ Owed(k) \in Seq(Segment)
         /\ Len(Owed(k)) \in 1 .. 2
         /\ \A i \in DOMAIN Owed(k) : Owed(k)[i].hi <= now
         /\ Owed(k)[Len(Owed(k))].hi = now
         /\ Owed(k)[Len(Owed(k))].lo <= Most(k.from, k.high - Overlap)
         /\ \A i \in DOMAIN k.segments :
              /\ i \in DOMAIN Owed(k)
              /\ Owed(k)[i].lo = k.segments[i].lo /\ k.segments[i].hi <= Owed(k)[i].hi
<1> DEFINE q == k.segments
           n == Len(q)
           m == Most(k.from, k.high - Overlap)
<1>1. q \in Seq(Segment) /\ k.high \in Nat /\ k.from \in Nat /\ now \in Nat /\ Overlap \in Nat
  BY ClockAssumption DEF WalkState, TypeOK
<1>2. n \in Nat /\ DOMAIN q = 1 .. n /\ (q # <<>> => n >= 1) /\ m \in Nat
  BY <1>1, LenProperties, EmptySeq DEF Most
<1>3. \A i \in 1 .. n : q[i] \in Segment /\ q[i].lo \in Nat /\ q[i].hi \in Nat
  <2> SUFFICES ASSUME NEW i \in 1 .. n PROVE q[i] \in Segment
    BY DEF Segment
  <2> QED BY <1>1, ElementOfSeq
<1>4. /\ n <= 2 /\ \A i \in 1 .. n : q[i].hi <= k.high
      /\ n = 2 => q[2].hi = k.high
      /\ q # <<>> /\ q[n].hi = k.high => q[n].lo <= m
  BY <1>2 DEF WalkSound, OwedSound, Last
<1>5. Owed(k) = IF q # <<>> /\ q[n].hi = k.high THEN [q EXCEPT ![n].hi = now]
                ELSE Append(q, [lo |-> m, hi |-> now])
  BY DEF Owed, Last
<1> HIDE DEF q, n, m
<1>6. CASE q # <<>> /\ q[n].hi = k.high
  <2> DEFINE e == [q[n] EXCEPT !.hi = now]
  <2>1. n \in 1 .. n
    BY <1>2, <1>6
  <2>2. e \in Segment /\ e.hi = now /\ e.lo = q[n].lo
    BY <1>1, <1>3, <2>1 DEF Segment
  <2>3. Owed(k) = [q EXCEPT ![n] = e]
    BY <1>5, <1>6
  <2> HIDE DEF e
  <2>4. /\ Owed(k) \in Seq(Segment) /\ Len(Owed(k)) = n
        /\ \A j \in 1 .. n : Owed(k)[j] = IF j = n THEN e ELSE q[j]
    BY <1>1, <2>1, <2>2, <2>3, ExceptSeq DEF n
  <2>5. DOMAIN Owed(k) = 1 .. n
    BY <2>4, LenProperties
  <2>6. \A i \in 1 .. n : Owed(k)[i].hi <= now
    BY <1>1, <1>3, <1>4, <2>2, <2>4
  <2>7. \A i \in 1 .. n : Owed(k)[i].lo = q[i].lo /\ q[i].hi <= Owed(k)[i].hi
    BY <1>1, <1>3, <1>4, <2>2, <2>4
  <2> QED BY <1>2, <1>4, <1>6, <2>1, <2>2, <2>4, <2>5, <2>6, <2>7 DEF q, m
<1>7. CASE ~(q # <<>> /\ q[n].hi = k.high)
  <2> DEFINE e == [lo |-> m, hi |-> now]
  <2>1. n <= 1
    BY <1>2, <1>4, <1>7, n # 2 => n <= 1, n = 2 => q # <<>> DEF n
  <2>2. e \in Segment /\ e.hi = now /\ e.lo = m
    BY <1>1, <1>2 DEF Segment
  <2>3. Owed(k) = Append(q, e)
    BY <1>5, <1>7
  <2> HIDE DEF e
  <2>4. /\ Owed(k) \in Seq(Segment) /\ Len(Owed(k)) = n + 1 /\ Owed(k)[n + 1] = e
        /\ \A j \in 1 .. n : Owed(k)[j] = q[j]
    BY <1>1, <2>2, <2>3, AppendProperties DEF n
  <2>5. DOMAIN Owed(k) = 1 .. n + 1
    BY <2>4, LenProperties
  <2>6. \A i \in 1 .. n + 1 : Owed(k)[i].hi <= now
    BY <1>1, <1>2, <1>3, <1>4, <2>2, <2>4
  <2>7. \A i \in 1 .. n : Owed(k)[i].lo = q[i].lo /\ q[i].hi <= Owed(k)[i].hi
    BY <1>1, <1>3, <2>4
  <2> QED BY <1>2, <2>1, <2>2, <2>4, <2>5, <2>6, <2>7 DEF q, m
<1> QED BY <1>6, <1>7

\* An extended walk is sound: it knows every deal executed so far.
LEMMA ExtendedSound ==
  ASSUME TypeOK, NEW k \in WalkState, WalkSound(k)
  PROVE  Extended(k) \in WalkState /\ WalkSound(Extended(k))
<1>1. CASE now <= k.high
  BY <1>1 DEF Extended
<1>2. CASE ~(now <= k.high)
  <2> DEFINE x == Extended(k)
             q == Owed(k)
             n == Len(q)
  <2>1. /\ k.from \in Nat /\ k.high \in Nat /\ k.known \in Nat /\ k.read \subseteq Nat
        /\ k.segments \in Seq(Segment) /\ now \in Nat /\ Overlap \in Nat /\ at \in Seq(Nat)
    BY ClockAssumption DEF WalkState, TypeOK
  <2>2. now > k.high
    BY <1>2, <2>1
  <2>3. /\ q \in Seq(Segment) /\ n \in 1 .. 2 /\ \A i \in DOMAIN q : q[i].hi <= now
        /\ q[n].hi = now /\ q[n].lo <= Most(k.from, k.high - Overlap)
    BY <2>2, OwedCovers
  <2>4. \A i \in DOMAIN k.segments : /\ i \in DOMAIN q /\ q[i].lo = k.segments[i].lo
                                     /\ k.segments[i].hi <= q[i].hi
    BY <2>2, OwedCovers
  <2>5. /\ x = [k EXCEPT !.segments = q, !.high = now, !.known = Len(at)]
        /\ Len(at) \in Nat /\ DOMAIN at = 1 .. Len(at) /\ DOMAIN q = 1 .. n
        /\ \A d \in DOMAIN at : at[d] \in Nat
    BY <1>2, <2>1, <2>3, LenProperties, ElementOfSeq DEF Extended
  <2> HIDE DEF q
  <2>6. /\ x \in WalkState /\ x.from = k.from /\ x.high = now /\ x.segments = q
        /\ x.read = k.read /\ x.known = Len(at)
    BY <2>1, <2>3, <2>5 DEF WalkState
  <2> HIDE DEF x
  <2>7. \A i \in 1 .. n : q[i] \in Segment /\ q[i].lo \in Nat /\ q[i].hi \in Nat
    <3> SUFFICES ASSUME NEW i \in 1 .. n PROVE q[i] \in Segment
      BY DEF Segment
    <3> QED BY <2>3, ElementOfSeq
  <2> HIDE DEF n
  <2>11. n \in Nat /\ n \in 1 .. n /\ n \in DOMAIN q /\ q[n].lo \in Nat /\ q[n].hi \in Nat
    BY <2>3, <2>5, <2>7
  <2>8. OwedSound(x)
    <3>1. Most(k.from, k.high - Overlap) <= Most(k.from, now - Overlap)
      BY <2>1, <2>2 DEF Most
    <3>2. q[n].lo <= Most(k.from, now - Overlap)
      BY <2>1, <2>3, <2>11, <3>1 DEF Most
    <3> QED BY <2>3, <2>6, <3>2 DEF OwedSound, Last, n
  <2>9. KnownCovered(x)
    <3> SUFFICES ASSUME NEW d \in DOMAIN at, k.from <= at[d], at[d] <= now
                 PROVE  d \in k.read \/ \E i \in DOMAIN q : Covers(q[i], d)
      BY <2>6 DEF KnownCovered, InWindow
    <3>1. d \in Nat /\ at[d] \in Nat
      BY <2>5
    <3>2. CASE at[d] <= k.high /\ d <= k.known
      <4>1. d \in k.read \/ \E i \in DOMAIN k.segments : Covers(k.segments[i], d)
        BY <3>2 DEF WalkSound, KnownCovered, InWindow
      <4>2. ASSUME NEW i \in DOMAIN k.segments, Covers(k.segments[i], d)
            PROVE  i \in DOMAIN q /\ Covers(q[i], d)
        <5>1. k.segments[i] \in Segment /\ i \in 1 .. n
          BY <2>1, <2>4, <2>5, LenProperties, ElementOfSeq
        <5> QED BY <2>4, <2>7, <3>1, <4>2, <5>1 DEF Covers, Segment
      <4> QED BY <4>1, <4>2
    <3>3. CASE ~(at[d] <= k.high /\ d <= k.known)
      <4>1. at[d] >= k.high - Overlap
        BY <2>1, <3>1, <3>3 DEF WalkSound, LateReread, InWindow
      <4>2. q[n].lo <= at[d] /\ n \in DOMAIN q
        BY <2>1, <2>3, <2>11, <3>1, <4>1 DEF Most
      <4> QED BY <2>3, <4>2 DEF Covers
    <3> QED BY <3>2, <3>3
  <2>10. LateReread(x) /\ Clocked(x)
    BY <2>1, <2>5, <2>6 DEF LateReread, Clocked
  <2> QED BY <2>6, <2>8, <2>9, <2>10 DEF WalkSound, x
<1> QED BY <1>1, <1>2

\* The walk a call starts from is sound.
LEMMA BaseSound ==
  ASSUME IInv, NEW w \in Walks, NEW from \in Anchors
  PROVE  Base(w, from) \in WalkState /\ WalkSound(Base(w, from))
<1>1. from \in Nat
  BY ClockAssumption
<1>2. walk[w] \in WalkState /\ WalkSound(walk[w])
  BY DEF IInv, TypeOK
<1> QED BY <1>1, <1>2, FreshSound DEF Base, IInv

\* A page leaves no deal of its sub-window behind: it is read, or still owed.
LEMMA PageSound ==
  ASSUME TypeOK, Distinct, NEW k \in WalkState, WalkSound(k), k.segments # <<>>,
         NEW page, NEW owed, NEW window,
         window = Within(Head(k.segments).lo, Head(k.segments).hi),
         page \in SUBSET window, IsPage(page, window),
         owed \in Remaining(k.segments, page, window)
  PROVE  /\ [k EXCEPT !.read = @ \union page, !.segments = owed] \in WalkState
         /\ WalkSound([k EXCEPT !.read = @ \union page, !.segments = owed])
<1> DEFINE q == k.segments
           n == Len(q)
           m == Most(k.from, k.high - Overlap)
           x == [k EXCEPT !.read = @ \union page, !.segments = owed]
<1>1. /\ k.from \in Nat /\ k.high \in Nat /\ k.known \in Nat /\ k.read \subseteq Nat
      /\ q \in Seq(Segment) /\ at \in Seq(Nat) /\ Overlap \in Nat
  BY ClockAssumption DEF WalkState, TypeOK
<1>2. /\ n \in 1 .. 2 /\ DOMAIN q = 1 .. n /\ DOMAIN at = 1 .. Len(at) /\ Len(at) \in Nat
      /\ \A d \in DOMAIN at : d \in Nat /\ at[d] \in Nat
  <2>1. n \in Nat /\ DOMAIN q = 1 .. n /\ n # 0
    BY <1>1, LenProperties, EmptySeq
  <2>2. n <= 2
    BY DEF WalkSound, OwedSound
  <2>3. \A d \in DOMAIN at : at[d] \in Nat
    BY <1>1, LenProperties, ElementOfSeq
  <2>4. DOMAIN at = 1 .. Len(at) /\ Len(at) \in Nat
    BY <1>1, LenProperties
  <2> HIDE DEF q
  <2> QED BY <2>1, <2>2, <2>3, <2>4
<1>3. \A i \in 1 .. n : q[i] \in Segment /\ q[i].lo \in Nat /\ q[i].hi \in Nat
  <2> SUFFICES ASSUME NEW i \in 1 .. n PROVE q[i] \in Segment
    BY DEF Segment
  <2> QED BY <1>1, ElementOfSeq
<1>4. Head(q) = q[1] /\ Tail(q) \in Seq(Segment) /\ Len(Tail(q)) = n - 1
      /\ \A i \in 1 .. n - 1 : Tail(q)[i] = q[i + 1]
  BY <1>1, <1>2, HeadTailProperties
<1>5. /\ \A i \in 1 .. n : q[i].hi <= k.high
      /\ n = 2 => q[2].hi = k.high
      /\ q[n].hi = k.high => q[n].lo <= m
  BY <1>2 DEF WalkSound, OwedSound, Last
<1>6. /\ page \subseteq window /\ window \subseteq DOMAIN at
      /\ \A d \in DOMAIN at : d \in window <=> q[1].lo <= at[d] /\ at[d] <= q[1].hi
      /\ page = {} => window = {}
      /\ \A d \in page, e \in window \ page : at[e] <= at[d]
  BY <1>4 DEF Within, IsPage
<1>7. \A d \in DOMAIN at : d <= k.known /\ InWindow(k, d)
         => d \in k.read \/ \E i \in 1 .. n : Covers(q[i], d)
  BY <1>2 DEF WalkSound, KnownCovered
<1>8. /\ x.from = k.from /\ x.high = k.high /\ x.known = k.known
      /\ x.read = k.read \union page /\ x.segments = owed
  BY DEF WalkState
<1>9. owed \in Seq(Segment) => x \in WalkState
  BY <1>1, <1>2, <1>6 DEF WalkState
<1>10. LateReread(x) /\ Clocked(x)
  BY <1>8 DEF WalkSound, LateReread, Clocked, InWindow
<1>13. n = 1 \/ n = 2
  BY <1>2
<1> HIDE DEF x, m, n, q
<1>11. CASE page = window \/ \E d \in page : at[d] <= Head(q).lo
  <2>1. owed = Tail(q)
    BY <1>11 DEF Remaining, q
  <2>2. DOMAIN owed = 1 .. n - 1
    BY <1>4, <2>1, LenProperties
  <2>3. window \subseteq page
    BY <1>1, <1>2, <1>3, <1>4, <1>6, <1>11 DEF Distinct
  <2>4. OwedSound(x)
    <3>1. CASE n = 1
      <4>1. Len(owed) = 0 /\ owed = <<>> /\ DOMAIN owed = {}
        BY <1>4, <2>1, <2>2, <3>1, EmptySeq
      <4> QED BY <1>8, <4>1 DEF OwedSound
    <3>2. CASE n = 2
      <4>1. Len(owed) = 1 /\ DOMAIN owed = {1} /\ owed[1] = q[2]
        BY <1>4, <2>1, <2>2, <3>2
      <4> QED BY <1>5, <1>8, <3>2, <4>1 DEF OwedSound, Last, m
    <3> QED BY <1>13, <3>1, <3>2
  <2>5. KnownCovered(x)
    <3> SUFFICES ASSUME NEW d \in DOMAIN at, d <= k.known, InWindow(k, d)
                 PROVE  d \in k.read \union page \/ \E i \in DOMAIN owed : Covers(owed[i], d)
      BY <1>8 DEF KnownCovered, InWindow
    <3>1. CASE d \in k.read
      BY <3>1
    <3>2. ASSUME NEW i \in 1 .. n, Covers(q[i], d)
          PROVE  d \in page \/ \E j \in DOMAIN owed : Covers(owed[j], d)
      <4>1. CASE i = 1
        BY <1>6, <2>3, <3>2, <4>1 DEF Covers
      <4>2. CASE i = 2
        <5>1. 1 \in DOMAIN owed /\ owed[1] = q[2]
          BY <1>13, <1>4, <2>1, <2>2, <4>2
        <5> QED BY <3>2, <4>2, <5>1
      <4> QED BY <1>13, <4>1, <4>2
    <3> QED BY <1>7, <3>1, <3>2
  <2> QED BY <1>4, <1>9, <1>10, <2>1, <2>4, <2>5 DEF WalkSound, x
<1>12. CASE ~(page = window \/ \E d \in page : at[d] <= Head(q).lo)
  <2>1. PICK d \in Oldest(page) : owed = [q EXCEPT ![1].hi = at[d] - 1]
    BY <1>12 DEF Remaining, q
  <2>2. /\ d \in page /\ d \in DOMAIN at /\ at[d] \in Nat /\ \A e \in page : at[d] <= at[e]
        /\ at[d] > q[1].lo /\ at[d] <= q[1].hi
    BY <1>2, <1>3, <1>4, <1>6, <1>12, <2>1 DEF Oldest
  <2> DEFINE f == [q[1] EXCEPT !.hi = at[d] - 1]
  <2>3. f \in Segment /\ f.lo = q[1].lo /\ f.hi = at[d] - 1 /\ owed = [q EXCEPT ![1] = f]
    BY <1>2, <1>3, <2>1, <2>2 DEF Segment
  <2> HIDE DEF f
  <2>4. /\ owed \in Seq(Segment) /\ Len(owed) = n
        /\ \A j \in 1 .. n : owed[j] = IF j = 1 THEN f ELSE q[j]
    BY <1>1, <1>2, <2>3, ExceptSeq
  <2>5. DOMAIN owed = 1 .. n
    BY <2>4, LenProperties
  <2>6. OwedSound(x)
    <3>1. \A i \in 1 .. n : owed[i].hi <= k.high
      <4> SUFFICES ASSUME NEW i \in 1 .. n PROVE owed[i].hi <= k.high
        OBVIOUS
      <4>1. CASE i = 1
        BY <1>1, <1>3, <1>5, <2>2, <2>3, <2>4, <4>1
      <4>2. CASE i # 1
        BY <1>5, <2>4, <4>2
      <4> QED BY <4>1, <4>2
    <3>2. n = 2 => owed[2].hi = k.high
      BY <1>5, <2>4
    <3>3. owed[n].hi = k.high => owed[n].lo <= m
      BY <1>1, <1>2, <1>3, <1>5, <2>2, <2>3, <2>4
    <3> QED BY <1>2, <1>8, <2>4, <2>5, <3>1, <3>2, <3>3 DEF OwedSound, Last, m
  <2>7. KnownCovered(x)
    <3> SUFFICES ASSUME NEW e \in DOMAIN at, e <= k.known, InWindow(k, e)
                 PROVE  e \in k.read \union page \/ \E i \in DOMAIN owed : Covers(owed[i], e)
      BY <1>8 DEF KnownCovered, InWindow
    <3>1. CASE e \in k.read
      BY <3>1
    <3>2. ASSUME NEW i \in 1 .. n, Covers(q[i], e)
          PROVE  e \in page \/ \E j \in DOMAIN owed : Covers(owed[j], e)
      <4>1. CASE i = 1 /\ e \notin page
        <5>1. e \in window /\ at[e] <= at[d] /\ at[e] # at[d] /\ at[e] \in Nat
          BY <1>2, <1>6, <2>2, <3>2, <4>1 DEF Covers, Distinct
        <5>2. Covers(owed[1], e)
          BY <1>2, <1>6, <2>2, <2>3, <2>4, <5>1 DEF Covers
        <5> QED BY <1>2, <2>5, <5>2
      <4>2. CASE i = 2
        BY <1>13, <2>4, <2>5, <3>2, <4>2
      <4>3. CASE i = 1 /\ e \in page
        BY <4>3
      <4> QED BY <1>13, <4>1, <4>2, <4>3
    <3> QED BY <1>7, <3>1, <3>2
  <2> QED BY <1>9, <1>10, <2>4, <2>6, <2>7 DEF WalkSound, x
<1> QED BY <1>11, <1>12

\* A deal that executes later is late enough to be read again.
LEMMA ExecuteSound ==
  ASSUME TypeOK, NEW k \in WalkState, WalkSound(k), NEW s \in Nat, s >= now - Skew,
         at' = Append(at, s), now' = now
  PROVE  WalkSound(k)'
<1>1. /\ k.from \in Nat /\ k.high \in Nat /\ k.known \in Nat /\ now \in Nat
      /\ at \in Seq(Nat) /\ Overlap \in Nat /\ Skew \in Nat /\ Skew <= Overlap
  BY ClockAssumption DEF WalkState, TypeOK
<1> DEFINE n == Len(at)
<1>2. /\ n \in Nat /\ DOMAIN at = 1 .. n /\ Len(at') = n + 1 /\ DOMAIN (at') = 1 .. n + 1
      /\ at'[n + 1] = s /\ \A d \in 1 .. n : at'[d] = at[d]
  BY <1>1, LenProperties, AppendProperties
<1> HIDE DEF n
<1>3. k.known <= n /\ (k.high <= now \/ k.high = k.from)
  BY DEF WalkSound, Clocked, n
<1>4. OwedSound(k)'
  BY DEF WalkSound, OwedSound
<1>5. KnownCovered(k)'
  <2> SUFFICES ASSUME NEW d \in 1 .. n + 1, d <= k.known, k.from <= at'[d], at'[d] <= k.high
               PROVE  d \in k.read \/ \E i \in DOMAIN k.segments :
                        k.segments[i].lo <= at'[d] /\ at'[d] <= k.segments[i].hi
    BY <1>2 DEF KnownCovered, InWindow, Covers
  <2>1. d \in 1 .. n /\ at'[d] = at[d]
    BY <1>1, <1>2, <1>3
  <2> QED BY <1>2, <2>1 DEF WalkSound, KnownCovered, InWindow, Covers
<1>6. LateReread(k)'
  <2> SUFFICES ASSUME NEW d \in 1 .. n + 1, d > k.known, k.from <= at'[d], at'[d] <= k.high
               PROVE  at'[d] >= k.high - Overlap
    BY <1>2 DEF LateReread, InWindow
  <2>1. CASE d \in 1 .. n
    BY <1>2, <2>1 DEF WalkSound, LateReread, InWindow
  <2>2. CASE d = n + 1
    <3>1. at'[d] = s /\ k.from <= s
      BY <1>2, <2>2
    <3> QED BY <1>1, <1>3, <3>1
  <2> QED BY <1>2, <2>1, <2>2
<1>7. Clocked(k)'
  BY <1>1, <1>2, <1>3 DEF Clocked
<1> QED BY <1>4, <1>5, <1>6, <1>7 DEF WalkSound

\* What leaves the clock and the venue alone leaves a walk sound.
LEMMA SoundKept ==
  ASSUME UNCHANGED <<now, at>>, NEW k, WalkSound(k)
  PROVE  WalkSound(k)'
BY DEF WalkSound, OwedSound, KnownCovered, LateReread, Clocked, InWindow, Covers

-----------------------------------------------------------------------------
(* The steps *)

\* The initial state satisfies the invariant.
LEMMA InitIInv == Init => IInv
<1> SUFFICES ASSUME Init PROVE IInv
  OBVIOUS
<1>1. at = <<>> /\ DOMAIN at = {} /\ at \in Seq(Nat)
  BY EmptySeq DEF Init
<1>2. TypeOK
  BY <1>1 DEF Init, TypeOK, Fresh, WalkState, Segment
<1>3. Distinct
  BY <1>1 DEF Distinct
<1>4. \A w \in Walks : WalkSound(walk[w])
  BY <1>2, FreshSound DEF Init
<1> QED BY <1>2, <1>3, <1>4 DEF IInv

\* Each step preserves the invariant, when no two deals carry one stamp.
LEMMA NextIInv ==
  ASSUME ~Ties, IInv, [Next]_vars
  PROVE  IInv'
<1> USE DEF IInv
<1>1. /\ now \in Nat /\ at \in Seq(Nat) /\ walk \in [Walks -> WalkState]
      /\ walking \subseteq Walks /\ due \subseteq Walks /\ call \in Walks \union {NoWalk}
      /\ budget \in Nat /\ fails \in Nat /\ restarts \in Nat
  BY DEF TypeOK
<1>2. ASSUME UNCHANGED <<now, at, walk>>
      PROVE  Distinct' /\ \A w \in Walks : WalkSound(walk[w])'
  <2>1. Distinct'
    BY <1>2 DEF Distinct
  <2> SUFFICES ASSUME NEW w \in Walks PROVE WalkSound(walk[w])'
    BY <2>1
  <2> QED BY <1>2, SoundKept DEF WalkSound, OwedSound, KnownCovered, LateReread, Clocked, InWindow, Covers
<1>3. ASSUME UNCHANGED <<now, at>>, NEW v \in Walks, NEW k \in WalkState, WalkSound(k),
             walk' = [walk EXCEPT ![v] = k]
      PROVE  Distinct' /\ walk' \in [Walks -> WalkState] /\ \A w \in Walks : WalkSound(walk[w])'
  <2>1. Distinct'
    BY <1>3 DEF Distinct
  <2>2. walk' \in [Walks -> WalkState] /\ \A w \in Walks : WalkSound(walk'[w])
    BY <1>1, <1>3
  <2>3. ASSUME NEW w \in Walks PROVE WalkSound(walk[w])'
    BY <1>3, <2>2 DEF WalkSound, OwedSound, KnownCovered, LateReread, Clocked, InWindow, Covers
  <2> QED BY <2>1, <2>2, <2>3
<1>4. CASE Tick
  <2>1. TypeOK'
    BY <1>1, <1>4 DEF Tick, TypeOK
  <2>2. Distinct'
    BY <1>4 DEF Tick, Distinct
  <2>3. ASSUME NEW w \in Walks PROVE WalkSound(walk[w])'
    <3>1. walk[w] \in WalkState /\ WalkSound(walk[w])
      BY <1>1
    <3>2. walk[w].high \in Nat
      BY <3>1 DEF WalkState
    <3>3. Clocked(walk[w])'
      BY <1>1, <1>4, <3>1, <3>2 DEF Tick, WalkSound, Clocked
    <3> QED BY <1>4, <3>1, <3>3 DEF Tick, WalkSound, OwedSound, KnownCovered, LateReread, InWindow, Covers
  <2> QED BY <2>1, <2>2, <2>3
<1>5. CASE Execute
  <2>1. PICK s \in Most(0, now - Skew) .. now + Skew :
           (\A d \in DOMAIN at : at[d] # s) /\ at' = Append(at, s)
    BY <1>5 DEF Execute
  <2>2. s \in Nat /\ s >= now - Skew
    BY <1>1, <2>1, ClockAssumption DEF Most
  <2>3. /\ Len(at) \in Nat /\ DOMAIN at = 1 .. Len(at) /\ at' \in Seq(Nat)
        /\ DOMAIN (at') = 1 .. Len(at) + 1 /\ at'[Len(at) + 1] = s
        /\ \A d \in 1 .. Len(at) : at'[d] = at[d]
    BY <1>1, <2>1, <2>2, LenProperties, AppendProperties
  <2>4. Distinct'
    BY <2>1, <2>3 DEF Distinct
  <2>5. TypeOK'
    BY <1>1, <1>5, <2>3 DEF Execute, TypeOK
  <2>6. ASSUME NEW w \in Walks PROVE WalkSound(walk[w])'
    <3>1. walk[w] \in WalkState /\ WalkSound(walk[w]) /\ now' = now /\ walk' = walk
      BY <1>1, <1>5 DEF Execute
    <3> DEFINE k == walk[w]
    <3>2. k \in WalkState /\ WalkSound(k)
      BY <3>1
    <3> QED BY <2>1, <2>2, <3>1, ExecuteSound DEF WalkSound, OwedSound, KnownCovered, LateReread, Clocked, InWindow, Covers
  <2> QED BY <2>4, <2>5, <2>6
<1>6. CASE Ask
  <2>1. TypeOK'
    BY <1>1, <1>6 DEF Ask, TypeOK
  <2> QED BY <1>2, <1>6, <2>1 DEF Ask
<1>7. CASE BeginPass
  <2>1. TypeOK'
    BY <1>1, <1>7, PageAssumption DEF BeginPass, TypeOK
  <2> QED BY <1>2, <1>7, <2>1 DEF BeginPass
<1>8. CASE Call
  <2>1. PICK w \in Walks, from \in Anchors :
          /\ call' = w /\ walking' = walking \union {w}
          /\ walk' = [walk EXCEPT ![w] = Extended(Base(w, from))]
    BY <1>8 DEF Call
  <2>2. Extended(Base(w, from)) \in WalkState /\ WalkSound(Extended(Base(w, from)))
    BY BaseSound, ExtendedSound
  <2>3. /\ Distinct' /\ walk' \in [Walks -> WalkState]
        /\ \A u \in Walks : WalkSound(walk[u])'
    BY <1>3, <1>8, <2>1, <2>2 DEF Call
  <2>4. TypeOK'
    BY <1>1, <1>8, <2>1, <2>3 DEF Call, TypeOK
  <2> QED BY <2>3, <2>4
<1>9. CASE Page
  <2> DEFINE k == walk[call]
             window == Within(Head(k.segments).lo, Head(k.segments).hi)
  <2>0. PICK page \in SUBSET window : \E owed \in Remaining(k.segments, page, window) :
          /\ IsPage(page, window)
          /\ walk' = [walk EXCEPT ![call] = [k EXCEPT !.read = @ \union page, !.segments = owed]]
    BY <1>9 DEF Page
  <2>1. PICK owed \in Remaining(k.segments, page, window) :
          /\ IsPage(page, window)
          /\ walk' = [walk EXCEPT ![call] = [k EXCEPT !.read = @ \union page, !.segments = owed]]
    BY <2>0
  <2>2. call \in Walks /\ k \in WalkState /\ WalkSound(k) /\ k.segments # <<>> /\ budget > 0
    BY <1>1, <1>9 DEF Page, Reading, Finished
  <2> DEFINE x == [k EXCEPT !.read = @ \union page, !.segments = owed]
  <2>3. x \in WalkState /\ WalkSound(x)
    BY <2>1, <2>2, PageSound
  <2>4. walk' = [walk EXCEPT ![call] = x]
    BY <2>1
  <2> HIDE DEF x
  <2>5. /\ Distinct' /\ walk' \in [Walks -> WalkState]
        /\ \A u \in Walks : WalkSound(walk[u])'
    BY <1>3, <1>9, <2>2, <2>3, <2>4 DEF Page
  <2>6. TypeOK'
    BY <1>1, <1>9, <2>2, <2>5 DEF Page, TypeOK
  <2> QED BY <2>5, <2>6
<1>10. CASE Fail
  <2>1. TypeOK'
    BY <1>1, <1>10 DEF Fail, Reading, TypeOK
  <2> QED BY <1>2, <1>10, <2>1 DEF Fail
<1>11. CASE Defer
  <2>1. TypeOK'
    BY <1>1, <1>11 DEF Defer, TypeOK
  <2> QED BY <1>2, <1>11, <2>1 DEF Defer
<1>12. CASE Conclude
  <2>1. TypeOK'
    BY <1>1, <1>12 DEF Conclude, TypeOK
  <2> QED BY <1>2, <1>12, <2>1 DEF Conclude
<1>13. CASE Restart
  <2>1. Fresh(0) \in WalkState /\ WalkSound(Fresh(0)) /\ UNCHANGED <<now, at>>
    BY <1>13, FreshSound DEF Restart
  <2>2. walk' \in [Walks -> WalkState] /\ \A w \in Walks : walk'[w] = Fresh(0)
    BY <1>13, <2>1 DEF Restart
  <2>3. TypeOK'
    BY <1>1, <1>13, <2>2 DEF Restart, TypeOK
  <2>4. Distinct'
    BY <2>1 DEF Distinct
  <2>5. ASSUME NEW w \in Walks PROVE WalkSound(walk[w])'
    BY <2>1, <2>2 DEF WalkSound, OwedSound, KnownCovered, LateReread, Clocked, InWindow, Covers
  <2> QED BY <2>3, <2>4, <2>5
<1>14. CASE UNCHANGED vars
  <2>1. TypeOK'
    BY <1>14 DEF vars, TypeOK
  <2> QED BY <1>2, <1>14, <2>1 DEF vars
<1> QED BY <1>4, <1>5, <1>6, <1>7, <1>8, <1>9, <1>10, <1>11, <1>12, <1>13, <1>14 DEF Next, Pass

-----------------------------------------------------------------------------
(* The theorems *)

\* Every deal of a walk's window is read, owed or late enough to be read again, at any page
\* size, budget and number of walks (_DealWalk of reconcile.py), when no two deals share a
\* stamp and the overlap is no shorter than the clocks' difference.
THEOREM InvariantHolds == ASSUME ~Ties PROVE Spec => []IInv
<1>1. Init => IInv
  BY InitIInv
<1>2. IInv /\ [Next]_vars => IInv'
  BY NextIInv
<1> QED BY <1>1, <1>2, PTL DEF Spec

\* A walk that ends is complete: it holds every deal of its window known when the window was
\* last extended, however the budgets of the passes cut it (_find_fill_deal).
THEOREM CompleteHolds == ASSUME ~Ties PROVE Spec => []Complete
<1>1. IInv => Complete
  <2> SUFFICES ASSUME IInv, NEW w \in walking, NEW d \in DOMAIN at,
                      Finished(w), d <= walk[w].known, InWindow(walk[w], d)
               PROVE  d \in walk[w].read
    BY DEF Complete
  <2>1. WalkSound(walk[w]) /\ walk[w].segments = <<>> /\ DOMAIN walk[w].segments = {}
    BY EmptySeq DEF IInv, TypeOK, Finished
  <2> QED BY <2>1 DEF WalkSound, KnownCovered
<1> QED BY <1>1, InvariantHolds, PTL

\* A walk owes two sub-windows at most, however long it is not read (the widening of
\* _find_fill_deal).
THEOREM FewOwedHolds == ASSUME ~Ties PROVE Spec => []FewOwed
<1>1. IInv => FewOwed
  BY DEF IInv, TypeOK, FewOwed, WalkSound, OwedSound
<1> QED BY <1>1, InvariantHolds, PTL

=============================================================================
