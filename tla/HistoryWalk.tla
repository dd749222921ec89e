---------------------------- MODULE HistoryWalk ----------------------------
(***************************************************************************)
(* The deal-history walks of a reconcile pass: each live entry row, and    *)
(* each position to be judged, gathers the deals of its window page by     *)
(* page; the walks share the budget of a pass, a walk the budget cut short *)
(* resumes in a later pass, and a finished one reads only what is new.     *)
(*                                                                         *)
(* A deal is known by its id; its stamp is the venue's clock, which may be *)
(* Skew off the bot's.  A page holds the newest deals of what was asked.   *)
(***************************************************************************)
EXTENDS Integers, Sequences, FiniteSets, SequencesExt

CONSTANTS Rows,       \* walks of entry rows
          Positions,  \* walks of positions, called after the rows
          Stalled,    \* walks whose requests are never answered in time
          PageRows,   \* how many deals fit on a page
          Budget,     \* how many requests fit in a pass
          Overlap,    \* _SINCE_ANCHOR_SKEW_MS
          Skew,       \* how far the venue's clock is off
          Anchors,    \* the windows' first instants
          MaxTime,    \* bound: the clock
          NDeals,     \* bound: deals
          Fails,      \* bound: requests that fail
          Restarts,   \* bound: restarts
          Ties,       \* may two deals carry one stamp?
          NoWalk

Walks == Rows \union Positions

ASSUME WalkAssumption == NoWalk \notin Walks
ASSUME PageAssumption == PageRows \in Nat \ {0} /\ Budget \in Nat
ASSUME ClockAssumption == Skew \in Nat /\ Overlap \in Nat /\ Skew <= Overlap /\ Anchors \subseteq Nat
ASSUME BoundAssumption == MaxTime \in Nat /\ NDeals \in Nat /\ Fails \in Nat /\ Restarts \in Nat /\ Ties \in BOOLEAN

VARIABLES
  now,       \* the bot's clock
  at,        \* venue: the stamps of the deals that executed, by deal id
  walking,   \* the keys of _deal_walks
  walk,      \* their values
  due,       \* the rows and positions whose history is asked for
  asked,     \* the walks in the order of their last request
  queue,     \* the walks this pass still calls
  call,      \* the walk being read
  budget,    \* the requests left to the pass
  fails, restarts

passVars == <<queue, call, budget>>
boundVars == <<fails, restarts>>
vars == <<now, at, walking, walk, due, asked, passVars, boundVars>>

Most(a, b) == IF a > b THEN a ELSE b

\* A walk whose window is empty yet.
Fresh(from) == [from |-> from, high |-> from, segments |-> <<>>, read |-> {}, known |-> 0]

Init ==
  /\ now = 0 /\ at = <<>>
  /\ walking = {} /\ walk = [w \in Walks |-> Fresh(0)] /\ asked = <<>>
  /\ due = {} /\ queue = <<>> /\ call = NoWalk /\ budget = 0
  /\ fails = 0 /\ restarts = 0

-----------------------------------------------------------------------------
(* The venue and the clock *)

Tick ==
  /\ now < MaxTime /\ now' = now + 1
  /\ UNCHANGED <<at, walking, walk, due, asked, passVars, boundVars>>

Execute ==
  /\ Len(at) < NDeals
  /\ \E s \in Most(0, now - Skew) .. now + Skew :
       /\ Ties \/ \A d \in DOMAIN at : at[d] # s
       /\ at' = Append(at, s)
  /\ UNCHANGED <<now, walking, walk, due, asked, passVars, boundVars>>

\* An order left the book, or a position holds less than the bot's share.
Ask ==
  /\ \E w \in Walks \ due : due' = due \union {w}
  /\ UNCHANGED <<now, at, walking, walk, asked, passVars, boundVars>>

Within(lo, hi) == {d \in DOMAIN at : lo <= at[d] /\ at[d] <= hi}

\* What the venue answers: the newest deals of the window, all if they fit.
IsPage(page, window) ==
  /\ Cardinality(page) <= PageRows
  /\ page = {} => window = {}
  /\ Cardinality(page) < PageRows => page = window
  /\ \A d \in page, e \in window \ page : at[e] <= at[d]

-----------------------------------------------------------------------------
(* One walk *)

\* Mutant: what executed late is not read again.
OwedFromHigh(k) ==
  IF k.segments # <<>> /\ Last(k.segments).hi = k.high
  THEN [k.segments EXCEPT ![Len(k.segments)].hi = now]
  ELSE Append(k.segments, [lo |-> k.high + 1, hi |-> now])

\* Mutant: each extension queues a sub-window of its own.
OwedQueued(k) == Append(k.segments, [lo |-> Most(k.from, k.high - Overlap), hi |-> now])

\* The newest owed sub-window is widened while nothing of it was read; else a
\* further one starts Overlap before what was read.
Owed(k) ==
  IF k.segments # <<>> /\ Last(k.segments).hi = k.high
  THEN [k.segments EXCEPT ![Len(k.segments)].hi = now]
  ELSE Append(k.segments, [lo |-> Most(k.from, k.high - Overlap), hi |-> now])

Extended(k) ==
  IF now <= k.high THEN k
  ELSE [k EXCEPT !.segments = Owed(k), !.high = now, !.known = Len(at)]

\* A walk anchored later than the window asked for starts over.
Base(w, from) == IF w \in walking /\ walk[w].from <= from THEN walk[w] ELSE Fresh(from)

Oldest(page) == {d \in page : \A e \in page : at[d] <= at[e]}

\* What stays owed after a page: below its oldest deal, when there may be more.
Remaining(segments, page, window) ==
  IF page = window \/ \E d \in page : at[d] <= Head(segments).lo THEN {Tail(segments)}
  ELSE {[segments EXCEPT ![1].hi = at[d] - 1] : d \in Oldest(page)}

Finished(w) == walk[w].segments = <<>>

-----------------------------------------------------------------------------
(* The pass *)

Behind(w) == SelectSeq(asked, LAMBDA v : v # w)
AskedNow(w) == asked' = Append(Behind(w), w)

\* Mutant: the rows are read in the same order in each pass.
TurnsFixed == SetToSeq(due)

\* Unfinished walks of rows go first: those that never sent a request, then the
\* one that waited longest; then the other rows, then the positions.
InTurn(ws) == SetToSeq(ws \ Range(asked)) \o SelectSeq(asked, LAMBDA w : w \in ws)
Unfinished == {w \in due \intersect walking : ~Finished(w)}
Turns == InTurn(Unfinished \intersect Rows) \o SetToSeq((due \intersect Rows) \ Unfinished)
         \o SetToSeq(due \intersect Positions)

\* The walks of rows and positions that are gone are dropped.
BeginPass ==
  /\ call = NoWalk /\ queue = <<>> /\ due # {}
  /\ queue' = Turns /\ budget' = Budget
  /\ walking' = walking \intersect due
  /\ asked' = SelectSeq(asked, LAMBDA w : w \in walking')
  /\ UNCHANGED <<now, at, walk, due, call, boundVars>>

Call ==
  /\ call = NoWalk /\ queue # <<>>
  /\ \E w \in Walks, from \in Anchors :
       /\ w = Head(queue)
       /\ call' = w /\ queue' = Tail(queue)
       /\ walk' = [walk EXCEPT ![w] = Extended(Base(w, from))]
       /\ walking' = walking \union {w}
  /\ UNCHANGED <<now, at, due, asked, budget, boundVars>>

Reading == call # NoWalk /\ ~Finished(call) /\ budget > 0

Page ==
  /\ Reading /\ call \notin Stalled
  /\ LET k == walk[call]
         window == Within(Head(k.segments).lo, Head(k.segments).hi)
     IN \E page \in SUBSET window : \E owed \in Remaining(k.segments, page, window) :
          /\ IsPage(page, window)
          /\ walk' = [walk EXCEPT ![call] = [k EXCEPT !.read = @ \union page, !.segments = owed]]
  /\ AskedNow(call) /\ budget' = budget - 1
  /\ UNCHANGED <<now, at, walking, due, queue, call, boundVars>>

\* A request that fails, or waits until the pass has to end.
Fail ==
  /\ Reading
  /\ \/ call \notin Stalled /\ fails < Fails /\ fails' = fails + 1 /\ budget' = budget - 1
     \/ call \in Stalled /\ fails' = fails /\ budget' = 0
  /\ AskedNow(call) /\ call' = NoWalk
  /\ UNCHANGED <<now, at, walking, walk, due, queue, restarts>>

\* The budget is spent: the walk resumes in a later pass.
Defer ==
  /\ call # NoWalk /\ ~Finished(call) /\ budget = 0
  /\ call' = NoWalk
  /\ UNCHANGED <<now, at, walking, walk, due, asked, queue, budget, boundVars>>

\* The result is conclusive; the row is resolved by it, or asks again.
Conclude ==
  /\ call # NoWalk /\ Finished(call)
  /\ call' = NoWalk /\ due' \in {due, due \ {call}}
  /\ UNCHANGED <<now, at, walking, walk, asked, queue, budget, boundVars>>

\* The walks are kept in memory.
Restart ==
  /\ restarts < Restarts /\ restarts' = restarts + 1
  /\ walking' = {} /\ asked' = <<>> /\ queue' = <<>> /\ call' = NoWalk /\ budget' = 0
  /\ walk' = [w \in Walks |-> Fresh(0)]
  /\ UNCHANGED <<now, at, due, fails>>

Pass == BeginPass \/ Call \/ Page \/ Fail \/ Defer \/ Conclude

Next == Tick \/ Execute \/ Ask \/ Pass \/ Restart

Spec == Init /\ [][Next]_vars

\* A pass runs every few seconds and each of its reads returns or times out.
FairSpec == Spec /\ WF_vars(Pass)

-----------------------------------------------------------------------------
(* Properties *)

Segment == [lo : Nat, hi : Nat]
WalkState == [from : Nat, high : Nat, segments : Seq(Segment), read : SUBSET Nat, known : Nat]

TypeOK ==
  /\ now \in Nat /\ at \in Seq(Nat)
  /\ walking \subseteq Walks /\ walk \in [Walks -> WalkState] /\ due \subseteq Walks
  /\ call \in Walks \union {NoWalk} /\ budget \in Nat /\ fails \in Nat /\ restarts \in Nat

InWindow(k, d) == k.from <= at[d] /\ at[d] <= k.high
Covers(segment, d) == segment.lo <= at[d] /\ at[d] <= segment.hi

\* However often the budget cut a walk short, a walk that ends holds every deal of its
\* window that had executed when the window was last extended.
Complete ==
  \A w \in walking : \A d \in DOMAIN at :
    Finished(w) /\ d <= walk[w].known /\ InWindow(walk[w], d) => d \in walk[w].read

\* However slowly a walk is read, it owes two sub-windows at most.
FewOwed == \A w \in walking : Len(walk[w].segments) <= 2

\* A row's walk ends although others keep failing: unfinished walks take turns.
TurnsTaken ==
  \A w \in Rows \ Stalled : (w \in due /\ w \in walking) ~> (w \notin walking \/ Finished(w))

-----------------------------------------------------------------------------
(* The inductive invariant *)

\* What is owed lies in the window; two sub-windows are owed only while the newer one
\* is unread, and an unread one starts Overlap before all that was read.
OwedSound(k) ==
  /\ Len(k.segments) <= 2
  /\ \A i \in DOMAIN k.segments : k.segments[i].hi <= k.high
  /\ Len(k.segments) = 2 => k.segments[2].hi = k.high
  /\ k.segments # <<>> /\ Last(k.segments).hi = k.high
       => Last(k.segments).lo <= Most(k.from, k.high - Overlap)

\* What was known is read or owed.
KnownCovered(k) ==
  \A d \in DOMAIN at : d <= k.known /\ InWindow(k, d)
    => d \in k.read \/ \E i \in DOMAIN k.segments : Covers(k.segments[i], d)

\* What executed since is in the part the next extension reads again.
LateReread(k) ==
  \A d \in DOMAIN at : d > k.known /\ InWindow(k, d) => at[d] >= k.high - Overlap

Clocked(k) == (k.high <= now \/ k.high = k.from) /\ k.known <= Len(at)

WalkSound(k) == OwedSound(k) /\ KnownCovered(k) /\ LateReread(k) /\ Clocked(k)

Distinct == \A d, e \in DOMAIN at : at[d] = at[e] => d = e

\* The argument for Complete: every deal of a walk's window is read, owed, or late enough
\* to be read again when the window is next extended.
IInv == TypeOK /\ Distinct /\ \A w \in Walks : WalkSound(walk[w])
=============================================================================
