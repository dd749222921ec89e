------------------------ MODULE FeedContinuityProofs ------------------------
(***************************************************************************)
(* Proofs about FeedContinuity, for every lag, evidence, calendar, length  *)
(* of run and bound.                                                       *)
(*                                                                         *)
(* One lemma per action shows that its steps keep the inductive invariant  *)
(* and are steps of BarFeed, or steps it does not see (Sound).             *)
(***************************************************************************)
EXTENDS FeedContinuity, TLAPS

USE DEF venueVars, linkVars, barVars, collVars, boundVars

FeedStep == [Feed!Next]_(Feed!feed)

\* What every step is shown to do.
Sound == IInv' /\ FeedStep

-----------------------------------------------------------------------------
(* Parts of the actions *)

\* A push carries bars that traded, in order, behind those that wait.
LEMMA PushesSound ==
  ASSUME TypeOK, NEW bars \in SUBSET Slots, Pushes(bars)
  PROVE  \E lo, hi \in bars : lo <= hi /\ queue' = Append(queue, [lo |-> lo, hi |-> hi])
BY DEF Pushes

\* One push more leaves a queue of such pushes.
LEMMA QueueGrows ==
  ASSUME TypeOK, StreamSound, NEW lo \in Slots, NEW hi \in Slots, lo <= hi,
         NEW bars, traded \subseteq bars, lo \in bars, hi \in bars,
         queue' = Append(queue, [lo |-> lo, hi |-> hi])
  PROVE  /\ queue' \in Seq([lo : Slots, hi : Slots])
         /\ \A i \in DOMAIN queue' :
              queue'[i].lo \in bars /\ queue'[i].hi \in bars /\ queue'[i].lo <= queue'[i].hi
<1>1. queue' \in Seq([lo : Slots, hi : Slots])
  BY DEF TypeOK
<1>2. \A i \in DOMAIN queue : queue[i].lo \in bars /\ queue[i].hi \in bars
                              /\ queue[i].lo <= queue[i].hi
  BY DEF StreamSound
<1>3. \A i \in DOMAIN queue' : \/ i \in DOMAIN queue /\ queue'[i] = queue[i]
                              \/ queue'[i] = [lo |-> lo, hi |-> hi]
  BY DEF TypeOK
<1> QED BY <1>1, <1>2, <1>3

\* To hand over the oldest missing bar is a step of BarFeed.
LEMMA HandsOne ==
  ASSUME NEW b \in traded, b < now, \A g \in done : g < b,
         \A s \in traded : s < b => s \in done,
         done' = done \cup {b}, UNCHANGED <<now, traded>>
  PROVE  FeedStep
<1>1. Feed!Hand
  <2>1. {b} \in SUBSET traded
    OBVIOUS
  <2>2. \A c \in {b} : /\ c < now
                        /\ \A g \in done : g < c
                        /\ \A s \in traded : s < c => s \in done \cup {b}
    OBVIOUS
  <2>3. done' = done \cup {b} /\ UNCHANGED <<now, traded>>
    OBVIOUS
  <2> QED BY Zenon, <2>1, <2>2, <2>3 DEF Feed!Hand
<1> QED BY <1>1 DEF FeedStep, Feed!Next

-----------------------------------------------------------------------------
(* The collection *)

\* Slots, cursors and clocks are integers.
LEMMA Numbers ==
  ASSUME TypeOK
  PROVE  /\ now \in Int /\ 0 <= now /\ now <= MaxSlot
         /\ anchor \in Int /\ anchor >= -1 /\ cur \in Int
         /\ coll.cursor \in Nat /\ coll.ceil \in Nat
         /\ \A s \in Slots : s \in Int /\ 0 <= s /\ s <= MaxSlot
         /\ \A s \in Slots : first[s] \in Int
BY SlotAssumption DEF TypeOK, Slots, MaybeSlots, None

\* The window of a collection lies behind the last closed bar and before now.
LEMMA WindowSound ==
  ASSUME IInv, phase \in Collecting
  PROVE  \A s \in Window : s \in Slots /\ anchor < s /\ s < coll.ceil /\ s < now
<1>1. TypeOK /\ coll.cursor = anchor + 1 /\ coll.ceil <= now
  BY DEF IInv, CollectionSound
<1> QED BY <1>1, Numbers, SlotAssumption DEF Window, Slots

\* What a collection has read traded, and what it holds for tickless did not:
\* a bar missing for Evidence would have been published.
LEMMA PassSound ==
  ASSUME IInv, phase \in Collecting
  PROVE  /\ Read \subseteq published \cap Window
         /\ Tickless \subseteq Window \ traded
<1> USE DEF IInv
<1>1. Read \subseteq published \cap Window
  BY DEF CollectionSound, Read
<1>2. ASSUME NEW s \in Missing, now - Missed[s] >= Evidence PROVE s \notin traded
  <2>1. s \in Slots /\ s < now /\ s \notin published
    BY WindowSound DEF Missing, Read
  <2>2. Missed[s] = IF first[s] = None THEN now ELSE first[s]
    BY <2>1 DEF Missed
  <2>3. CASE now = MaxSlot
    BY <2>1, <2>3 DEF VenueSound
  <2>4. CASE now # MaxSlot
    <3>1. first[s] # None
      BY <1>2, <2>2, LagAssumption, SlotAssumption, Numbers
    <3>2. first[s] > s
      BY <3>1, <2>1, <2>4 DEF LedgerSound
    <3>3. s + 1 + Lag <= now
      BY <3>1, <3>2, <2>1, <2>2, <1>2, LagAssumption, SlotAssumption, Numbers
    <3> QED BY <3>3, <2>1 DEF VenueSound
  <2> QED BY <2>3, <2>4
<1>3. Missing \subseteq Window
  BY DEF Missing
<1>4. Tickless \subseteq Window \ traded
  BY <1>2, <1>3 DEF Tickless, CollectionSound
<1> QED BY <1>1, <1>4

\* A settled collection has read every bar of its window.
LEMMA SettledSound ==
  ASSUME IInv, phase \in Collecting, Unsettled = {}
  PROVE  /\ \A s \in Read : s \in traded /\ anchor < s /\ s < coll.ceil /\ s < now
         /\ \A s \in traded : anchor < s /\ s < coll.ceil => s \in Read
<1> USE DEF IInv
<1>1. Read \subseteq published \cap Window /\ Tickless \subseteq Window \ traded
  BY PassSound
<1>2. ASSUME NEW s \in traded, anchor < s, s < coll.ceil PROVE s \in Read
  <2>1. s \in Slots /\ coll.cursor = anchor + 1
    BY DEF TypeOK, CollectionSound
  <2>2. s \in Window
    BY <1>2, <2>1, Numbers DEF Window
  <2>3. s \in Open
    BY DEF VenueSound
  <2> QED BY <1>1, <2>2, <2>3 DEF Unsettled
<1> QED BY <1>1, <1>2, WindowSound DEF VenueSound

\* The ledger of a pass tells since when a closed slot has been missed.
LEMMA MissedSound ==
  ASSUME IInv, phase \in Collecting, first' = Missed, now' = now
  PROVE  first' \in [Slots -> Int] /\ LedgerSound'
<1> USE DEF IInv
<1>1. Missed \in [Slots -> Int]
  BY Numbers DEF Missed, None
<1>2. ASSUME NEW s \in Slots, Missed[s] # None
      PROVE  s < now /\ (Missed[s] > s \/ now = MaxSlot)
  <2>1. s \in Missing /\ Missed[s] = IF first[s] = None THEN now ELSE first[s]
    BY <1>2 DEF Missed
  <2>2. s < now
    BY <2>1, WindowSound DEF Missing
  <2> QED BY <2>1, <2>2, Numbers DEF LedgerSound
<1> QED BY <1>1, <1>2 DEF LedgerSound, Slots

-----------------------------------------------------------------------------
(* The actions *)

\* A tick opens the forming bar, or finds it open.
LEMMA TickSound == ASSUME IInv, Tick PROVE Sound
<1> USE DEF IInv, Tick
<1>a. traded' \subseteq Slots /\ traded \subseteq traded'
  BY DEF TypeOK
<1>b. /\ queue' \in Seq([lo : Slots, hi : Slots])
      /\ \A i \in DOMAIN queue' : /\ queue'[i].lo \in traded' /\ queue'[i].hi \in traded'
                                 /\ queue'[i].lo <= queue'[i].hi
  <2>1. CASE queue' = queue
    BY <1>a, <2>1 DEF TypeOK, StreamSound
  <2>2. CASE Pushes(traded')
    <3>1. PICK lo, hi \in traded' : lo <= hi /\ queue' = Append(queue, [lo |-> lo, hi |-> hi])
      BY <1>a, <2>2, PushesSound
    <3> QED BY <1>a, <3>1, QueueGrows
  <2> QED BY <2>1, <2>2
<1>1. /\ LedgerSound' /\ CandidateSound'
  BY DEF LedgerSound, CandidateSound
<1>2. TypeOK'
  BY <1>a, <1>b DEF TypeOK
<1>3. VenueSound'
  BY LagAssumption, Numbers DEF VenueSound
<1>4. CollectionSound'
  BY WindowSound DEF CollectionSound, Window
<1>5. RunnerSound'
  BY Numbers DEF RunnerSound, TypeOK
<1>6. HistorySound'
  BY Numbers DEF HistorySound, TypeOK
<1>7. StreamSound'
  BY <1>a, <1>b DEF StreamSound
<1>8. FeedStep
  BY DEF FeedStep, Feed!Next, Feed!Trade
<1> QED BY <1>1, <1>2, <1>3, <1>4, <1>5, <1>6, <1>7, <1>8 DEF Sound

\* A bar is pushed again.
LEMMA RepushSound == ASSUME IInv, Repush PROVE Sound
<1> USE DEF IInv, Repush, Pushes
<1>1. /\ VenueSound' /\ LedgerSound' /\ CollectionSound' /\ RunnerSound'
      /\ HistorySound' /\ CandidateSound' /\ FeedStep
  BY DEF VenueSound, LedgerSound, CollectionSound, RunnerSound, HistorySound,
        CandidateSound, FeedStep, Window, Feed!feed
<1>2. TypeOK'
  BY DEF TypeOK, Phases
<1>3. StreamSound'
  BY DEF StreamSound
<1> QED BY <1>1, <1>2, <1>3 DEF Sound

\* A closed bar appears in the history.
LEMMA PublishSound == ASSUME IInv, Publish PROVE Sound
<1> USE DEF IInv, Publish
<1>1. /\ LedgerSound' /\ RunnerSound' /\ HistorySound' /\ StreamSound'
      /\ CandidateSound' /\ FeedStep
  BY DEF LedgerSound, RunnerSound, HistorySound, StreamSound, CandidateSound, FeedStep,
        Feed!feed
<1>2. TypeOK'
  BY DEF TypeOK, Phases
<1>3. VenueSound'
  BY DEF VenueSound
<1>4. CollectionSound'
  BY DEF CollectionSound, Window
<1> QED BY <1>1, <1>2, <1>3, <1>4 DEF Sound

\* The clock moves on once what is due is published.
LEMMA TimePassesSound == ASSUME IInv, TimePasses PROVE Sound
<1> USE DEF IInv, TimePasses
<1>1. /\ StreamSound' /\ CandidateSound'
  BY DEF StreamSound, CandidateSound
<1>2. TypeOK'
  BY SMTT(30), SlotAssumption DEF TypeOK, Slots
<1>3. VenueSound'
  <2>1. \A s \in traded : s + Lag <= now => s \in published
    OBVIOUS
  <2>2. \A s \in traded : s \in Open /\ s <= now
    BY DEF VenueSound, TypeOK
  <2>3. now' = MaxSlot => \A s \in traded : s + Lag <= now
    BY <2>2, LagAssumption, SlotAssumption, Numbers DEF Open
  <2> QED BY <2>1, <2>2, <2>3, LagAssumption, Numbers DEF VenueSound, Open
<1>4. LedgerSound'
  BY Numbers, SlotAssumption DEF LedgerSound
<1>5. CollectionSound'
  BY Numbers DEF CollectionSound, Window
<1>6. RunnerSound'
  BY Numbers DEF RunnerSound
<1>7. HistorySound'
  BY Numbers DEF HistorySound, TypeOK
<1>8. FeedStep
  BY DEF FeedStep, Feed!Next, Feed!Pass
<1> QED BY <1>1, <1>2, <1>3, <1>4, <1>5, <1>6, <1>7, <1>8 DEF Sound

\* What is missed grows older while nothing trades.
LEMMA MissedAgesSound == ASSUME IInv, MissedAges PROVE Sound
<1> USE DEF IInv, MissedAges
<1>1. /\ VenueSound' /\ CollectionSound' /\ RunnerSound' /\ HistorySound'
      /\ StreamSound' /\ CandidateSound' /\ FeedStep
  BY DEF VenueSound, CollectionSound, RunnerSound, HistorySound, StreamSound,
        CandidateSound, FeedStep, Window, Feed!feed
<1>2. TypeOK'
  <2>1. first' \in [Slots -> Int]
    BY LagAssumption, SlotAssumption, Numbers DEF None
  <2> QED BY <2>1 DEF TypeOK
<1>3. LedgerSound'
  BY DEF LedgerSound
<1> QED BY <1>1, <1>2, <1>3 DEF Sound

\* The connection is lost.
LEMMA LoseSound == ASSUME IInv, Lose PROVE Sound
<1> USE DEF IInv, Lose
<1>1. /\ VenueSound' /\ LedgerSound' /\ CollectionSound' /\ RunnerSound'
      /\ HistorySound' /\ StreamSound' /\ CandidateSound' /\ FeedStep
  BY DEF VenueSound, LedgerSound, CollectionSound, RunnerSound, HistorySound,
        StreamSound, CandidateSound, FeedStep, Window, Feed!feed
<1>2. TypeOK'
  <2>1. up' \in BOOLEAN /\ sub' \in BOOLEAN
    OBVIOUS
  <2> QED BY <2>1 DEF TypeOK
<1> QED BY <1>1, <1>2 DEF Sound

\* A connection starts with nothing pending.
LEMMA ConnectSound == ASSUME IInv, Connect PROVE Sound
<1> USE DEF IInv, Connect
<1>1. /\ VenueSound' /\ LedgerSound' /\ RunnerSound' /\ FeedStep
  BY DEF VenueSound, LedgerSound, RunnerSound, FeedStep, Feed!feed
<1>2. TypeOK'
  <2>1. up' \in BOOLEAN /\ sub' \in BOOLEAN
    OBVIOUS
  <2>2. phase' \in Phases /\ queue' \in Seq([lo : Slots, hi : Slots]) /\ cur' \in MaybeSlots
    BY DEF Phases, MaybeSlots
  <2> QED BY <2>1, <2>2 DEF TypeOK
<1>3. CollectionSound'
  BY DEF CollectionSound, Collecting
<1>4. HistorySound'
  BY DEF HistorySound
<1>5. StreamSound'
  BY DEF StreamSound
<1>6. CandidateSound'
  BY DEF CandidateSound
<1> QED BY <1>1, <1>2, <1>3, <1>4, <1>5, <1>6 DEF Sound

\* A subscription changes no bar.
LEMMA SubscribeSound == ASSUME IInv, Subscribe PROVE Sound
<1> USE DEF IInv, Subscribe
<1>1. /\ VenueSound' /\ LedgerSound' /\ RunnerSound' /\ HistorySound' /\ FeedStep
  BY DEF VenueSound, LedgerSound, RunnerSound, HistorySound, FeedStep, Feed!feed
<1>2. TypeOK'
  BY DEF TypeOK, Phases
<1>3. CollectionSound'
  BY DEF CollectionSound, Collecting
<1>4. StreamSound'
  BY DEF StreamSound
<1>5. CandidateSound'
  BY DEF CandidateSound
<1> QED BY <1>1, <1>2, <1>3, <1>4, <1>5 DEF Sound

\* A backfill starts behind the last closed bar.
LEMMA BackfillBeginsSound == ASSUME IInv, BackfillBegins PROVE Sound
<1> USE DEF IInv, BackfillBegins, Opens, NoColl
<1>1. /\ VenueSound' /\ LedgerSound' /\ RunnerSound' /\ HistorySound' /\ FeedStep
  BY DEF VenueSound, LedgerSound, RunnerSound, HistorySound, FeedStep, Feed!feed
<1>2. TypeOK'
  <2> DEFINE cursor == IF anchor # None THEN anchor + 1 ELSE gapCursor
  <2>1. now \in Nat /\ (cursor # None => cursor \in Nat)
    BY Numbers, SlotAssumption DEF TypeOK, MaybeSlots, Slots, None
  <2>2. coll' \in [cursor : Nat, ceil : Nat, rec : SUBSET Slots, empty : SUBSET Slots]
    BY <2>1 DEF TypeOK
  <2> QED BY <2>2 DEF TypeOK, Phases, Collecting
<1>3. CollectionSound'
  BY Numbers DEF CollectionSound, RunnerSound, Window, Collecting, TypeOK, Slots, None
<1>4. StreamSound'
  BY DEF StreamSound
<1>5. CandidateSound'
  BY DEF CandidateSound
<1> QED BY <1>1, <1>2, <1>3, <1>4, <1>5 DEF Sound

\* A repair reaches from the last closed bar to the candidate.
LEMMA RepairBeginsSound == ASSUME IInv, RepairBegins PROVE Sound
<1> USE DEF IInv, RepairBegins, Opens, NoColl, Oldest, GapBefore
<1>1. /\ VenueSound' /\ LedgerSound' /\ RunnerSound' /\ HistorySound' /\ FeedStep
  BY DEF VenueSound, LedgerSound, RunnerSound, HistorySound, FeedStep, Feed!feed
<1>2. TypeOK'
  <2>1. coll' \in [cursor : Nat, ceil : Nat, rec : SUBSET Slots, empty : SUBSET Slots]
    BY SMTT(30), Numbers, SlotAssumption DEF TypeOK, Slots
  <2> QED BY <2>1 DEF TypeOK, Phases, Collecting
<1>3. CollectionSound'
  BY Numbers DEF CollectionSound, StreamSound, VenueSound, Window, Collecting, TypeOK
<1>4. StreamSound'
  BY DEF StreamSound
<1>5. CandidateSound'
  BY DEF CandidateSound
<1> QED BY <1>1, <1>2, <1>3, <1>4, <1>5 DEF Sound

\* A pass that settles nothing keeps what it read.
LEMMA PassLeavesOpenSound == ASSUME IInv, PassLeavesOpen PROVE Sound
<1> USE DEF IInv, PassLeavesOpen, Served, Fails, NoColl
<1>1. /\ VenueSound' /\ RunnerSound' /\ HistorySound' /\ FeedStep
  BY DEF VenueSound, RunnerSound, HistorySound, FeedStep, Feed!feed
<1>2. TypeOK'
  <2>1. first' \in [Slots -> Int]
    BY MissedSound
  <2>2. coll' \in [cursor : Nat, ceil : Nat, rec : SUBSET Slots, empty : SUBSET Slots]
    <3>1. Read \subseteq Slots /\ Tickless \subseteq Slots
      BY PassSound, WindowSound
    <3>2. CASE coll' = [coll EXCEPT !.rec = Read, !.empty = Tickless]
      BY <3>1, <3>2 DEF TypeOK
    <3>3. CASE Fails
      BY <3>3
    <3> QED BY <3>2, <3>3
  <2> QED BY <2>1, <2>2 DEF TypeOK, Phases
<1>3. LedgerSound'
  BY MissedSound
<1>4. CollectionSound'
  BY PassSound DEF CollectionSound, Window, Collecting, TypeOK
<1>5. StreamSound'
  BY DEF StreamSound
<1>6. CandidateSound'
  BY DEF CandidateSound, TypeOK
<1> QED BY <1>1, <1>2, <1>3, <1>4, <1>5, <1>6 DEF Sound

\* A pass cut short keeps what it read.
LEMMA PassCutShortSound == ASSUME IInv, PassCutShort PROVE Sound
<1> USE DEF IInv, PassCutShort, Fails, NoColl
<1>1. /\ VenueSound' /\ LedgerSound' /\ RunnerSound' /\ HistorySound' /\ FeedStep
  BY DEF VenueSound, LedgerSound, RunnerSound, HistorySound, FeedStep, Feed!feed
<1>2. TypeOK'
  <2>1. coll' \in [cursor : Nat, ceil : Nat, rec : SUBSET Slots, empty : SUBSET Slots]
    BY DEF TypeOK
  <2> QED BY <2>1 DEF TypeOK, Phases, Collecting
<1>3. CollectionSound'
  BY DEF CollectionSound, Window, Collecting, TypeOK
<1>4. StreamSound'
  BY DEF StreamSound
<1>5. CandidateSound'
  BY DEF CandidateSound, TypeOK
<1> QED BY <1>1, <1>2, <1>3, <1>4, <1>5 DEF Sound

\* A collection ends with its connection.
LEMMA CollectionLostSound == ASSUME IInv, CollectionLost PROVE Sound
<1> USE DEF IInv, CollectionLost, Fails, NoColl
<1>1. /\ VenueSound' /\ LedgerSound' /\ RunnerSound' /\ HistorySound' /\ FeedStep
  BY DEF VenueSound, LedgerSound, RunnerSound, HistorySound, FeedStep, Feed!feed
<1>2. TypeOK'
  BY DEF TypeOK, Phases
<1>3. CollectionSound'
  BY DEF CollectionSound, Collecting
<1>4. StreamSound'
  BY DEF StreamSound
<1>5. CandidateSound'
  BY DEF CandidateSound
<1> QED BY <1>1, <1>2, <1>3, <1>4, <1>5 DEF Sound

\* A repair is cut off.
LEMMA RepairCancelledSound == ASSUME IInv, RepairCancelled PROVE Sound
<1> USE DEF IInv, RepairCancelled, NoColl
<1>1. /\ VenueSound' /\ LedgerSound' /\ RunnerSound' /\ HistorySound' /\ FeedStep
  BY DEF VenueSound, LedgerSound, RunnerSound, HistorySound, FeedStep, Feed!feed
<1>2. TypeOK'
  BY DEF TypeOK, Phases
<1>3. CollectionSound'
  BY DEF CollectionSound, Collecting
<1>4. StreamSound'
  BY DEF StreamSound
<1>5. CandidateSound'
  BY DEF CandidateSound
<1> QED BY <1>1, <1>2, <1>3, <1>4, <1>5 DEF Sound

\* A complete backfill is queued.
LEMMA BackfillEndsSound == ASSUME IInv, BackfillEnds PROVE Sound
<1> USE DEF IInv, BackfillEnds, Settles, Served, NoColl
<1>1. /\ VenueSound' /\ RunnerSound' /\ FeedStep
  BY DEF VenueSound, RunnerSound, FeedStep, Feed!feed
<1>2. TypeOK'
  <2>1. first' \in [Slots -> Int]
    BY MissedSound
  <2>2. coll' \in [cursor : Nat, ceil : Nat, rec : SUBSET Slots, empty : SUBSET Slots]
    <3>1. Read \subseteq Slots /\ Tickless \subseteq Slots
      BY PassSound, WindowSound
    <3>2. CASE coll' = [coll EXCEPT !.rec = Read, !.empty = Tickless]
      BY <3>1, <3>2 DEF TypeOK
    <3>3. CASE Fails
      BY <3>3
    <3> QED BY <3>2, <3>3
  <2>3. hist' \subseteq Slots
    BY SettledSound DEF TypeOK
  <2> QED BY <2>1, <2>2, <2>3 DEF TypeOK, Phases
<1>3. LedgerSound'
  BY MissedSound
<1>4. CollectionSound'
  BY DEF CollectionSound, Collecting
<1>5. HistorySound'
  <2>1. hist' = Read /\ cur = None /\ stream = {}
    BY DEF StreamSound
  <2>2. \A h \in hist', s \in traded : anchor < s /\ s < h => s \in hist'
    BY <2>1, SettledSound, Numbers DEF TypeOK
  <2> QED BY <2>1, <2>2, SettledSound DEF HistorySound
<1>6. StreamSound'
  BY DEF StreamSound
<1>7. CandidateSound'
  BY DEF CandidateSound
<1> QED BY <1>1, <1>2, <1>3, <1>4, <1>5, <1>6, <1>7 DEF Sound

\* A complete repair goes before the candidate.
LEMMA RepairEndsSound == ASSUME IInv, RepairEnds PROVE Sound
<1> USE DEF IInv, RepairEnds, Settles, Served, NoColl, Oldest, Delivers
<1> phase \in Collecting
  BY DEF Collecting
<1>a. /\ hist = {} /\ coll.ceil \in stream /\ \A s \in stream : coll.ceil <= s
      /\ coll.ceil \in traded /\ coll.ceil \in Slots /\ anchor < coll.ceil
      /\ coll.ceil < now
  <2>1. /\ hist = {} /\ coll.ceil \in stream /\ \A s \in stream : coll.ceil <= s
        /\ coll.ceil < cur
    BY DEF CandidateSound, StreamSound
  <2>2. coll.ceil \in Slots /\ coll.ceil # None /\ cur # None
    BY <2>1, Numbers DEF TypeOK, None
  <2>3. coll.ceil \in traded /\ anchor < coll.ceil /\ cur \in traded
    BY <2>1, <2>2 DEF StreamSound
  <2> QED BY <2>1, <2>2, <2>3, Numbers DEF VenueSound
<1>r. /\ \A s \in Read : s \in traded /\ s \in Slots /\ anchor < s /\ s < coll.ceil /\ s < now
      /\ \A s \in traded : s \in Slots /\ (anchor < s /\ s < coll.ceil => s \in Read)
  BY SettledSound DEF TypeOK
<1>b. PICK b : /\ anchor' = b /\ done' = done \cup {b}
               /\ \/ /\ b \in Read /\ \A s \in Read : b <= s
                     /\ hist' = Read \ {b} /\ stream' = stream
                  \/ /\ Read = {} /\ b = coll.ceil
                     /\ hist' = {} /\ stream' = stream \ {b}
  <2>1. CASE Read # {}
    BY <2>1
  <2>2. CASE Read = {}
    <3>1. PICK b \in stream : /\ \A s \in stream : b <= s
                             /\ anchor' = b /\ done' = done \cup {b}
                             /\ stream' = stream \ {b} /\ hist' = hist
      BY <2>2
    <3>2. b = coll.ceil
      BY <1>a, <3>1, Numbers DEF TypeOK
    <3> QED BY <1>a, <2>2, <3>1, <3>2
  <2> QED BY <2>1, <2>2
<1>c. /\ b \in traded /\ anchor < b /\ b < now /\ b \in Slots
      /\ \A s \in traded : s < b => s <= anchor
  BY <1>a, <1>b, <1>r, Numbers
<1>d. /\ \A s \in hist' : s \in traded /\ s \in Slots /\ b < s /\ s < coll.ceil /\ s < now
      /\ \A s \in traded : b < s /\ s < coll.ceil => s \in hist'
  BY <1>a, <1>b, <1>c, <1>r, Numbers
<1>e. \A s \in stream' : s \in stream /\ b < s /\ coll.ceil <= s /\ s \in Slots
  BY <1>a, <1>b, <1>r, Numbers DEF TypeOK
<1>1. VenueSound'
  BY DEF VenueSound
<1>2. TypeOK'
  <2>1. first' \in [Slots -> Int]
    BY MissedSound
  <2>2. coll' \in [cursor : Nat, ceil : Nat, rec : SUBSET Slots, empty : SUBSET Slots]
    OBVIOUS
  <2>3. hist' \subseteq Slots /\ stream' \subseteq Slots /\ done' \subseteq Slots
    BY <1>b, <1>c, <1>d, <1>e DEF TypeOK
  <2>4. anchor' \in MaybeSlots
    BY <1>b, <1>c DEF MaybeSlots
  <2> QED BY <2>1, <2>2, <2>3, <2>4 DEF TypeOK, Phases
<1>3. LedgerSound'
  BY MissedSound
<1>4. CollectionSound'
  BY DEF CollectionSound, Collecting
<1>5. RunnerSound'
  BY <1>b, <1>c, Numbers DEF RunnerSound, TypeOK
<1>6. HistorySound'
  <2>1. \A s \in stream' \cup {cur} : s # None => coll.ceil <= s
    BY <1>a, <1>e, Numbers DEF StreamSound, TypeOK
  <2> QED BY <1>b, <1>d, <1>e, <2>1, Numbers DEF HistorySound, TypeOK
<1>7. StreamSound'
  <2>1. cur # None => b < cur
    BY <1>a, <1>b, <1>r, Numbers DEF StreamSound, TypeOK
  <2> QED BY <1>b, <1>e, <2>1 DEF StreamSound
<1>8. CandidateSound'
  BY DEF CandidateSound
<1>9. FeedStep
  <2>1. (\A g \in done : g < b) /\ \A s \in traded : s < b => s \in done
    BY <1>c, Numbers DEF RunnerSound, TypeOK
  <2> QED BY <1>b, <1>c, <2>1, HandsOne
<1> QED BY <1>1, <1>2, <1>3, <1>4, <1>5, <1>6, <1>7, <1>8, <1>9 DEF Sound

\* A push closes what is older than its latest bar.
LEMMA IngestSound == ASSUME IInv, Ingest PROVE Sound
<1> USE DEF IInv, Ingest, Accepted
<1> DEFINE push == Head(queue)
           openings == {s \in {push.lo, push.hi} : Accepted(s)}
<1>a. /\ push.lo \in traded /\ push.hi \in traded /\ push.lo <= push.hi
      /\ push.lo \in Slots /\ push.hi \in Slots
  BY DEF StreamSound, TypeOK
<1>b. /\ queue' \in Seq([lo : Slots, hi : Slots])
      /\ \A i \in DOMAIN queue' : /\ queue'[i].lo \in traded /\ queue'[i].hi \in traded
                                 /\ queue'[i].lo <= queue'[i].hi
  BY SMTT(30) DEF StreamSound, TypeOK
<1>c. ASSUME openings # {}
      PROVE  /\ push.hi > anchor /\ push.hi >= cur
             /\ \A s \in stream' : /\ s \in traded /\ anchor < s /\ s < push.hi /\ s # None
                                 /\ s \in Slots
  <2>1. push.hi > anchor /\ push.hi >= cur
    BY <1>a, <1>c, Numbers
  <2>2. ASSUME NEW s \in stream' PROVE s # None /\ s # push.hi /\ (s = cur \/ s \in openings)
    BY <1>c, <2>2
  <2>3. \A s \in stream' : s \in traded /\ s \in Slots /\ anchor < s
    BY <1>a, <2>2 DEF StreamSound, TypeOK
  <2> QED BY <1>a, <2>1, <2>2, <2>3, Numbers
<1>1. /\ VenueSound' /\ LedgerSound' /\ CollectionSound' /\ RunnerSound' /\ FeedStep
  BY DEF VenueSound, LedgerSound, CollectionSound, RunnerSound, FeedStep, Window,
        Feed!feed
<1>2. TypeOK'
  <2>1. stream' \subseteq Slots
    BY <1>c DEF TypeOK
  <2>2. cur' \in MaybeSlots /\ gapCursor' \in MaybeSlots
    BY <1>a DEF TypeOK, MaybeSlots
  <2> QED BY <1>b, <2>1, <2>2 DEF TypeOK
<1>3. HistorySound'
  BY DEF HistorySound
<1>4. StreamSound'
  <2>1. CASE openings = {}
    BY <1>b, <2>1 DEF StreamSound
  <2>2. CASE openings # {}
    BY <1>a, <1>b, <1>c, <2>2 DEF StreamSound
  <2> QED BY <2>1, <2>2
<1>5. CandidateSound'
  BY DEF CandidateSound
<1> QED BY <1>1, <1>2, <1>3, <1>4, <1>5 DEF Sound

\* A bar from history is handed over.
LEMMA HandHistorySound == ASSUME IInv, HandHistory PROVE Sound
<1> USE DEF IInv, HandHistory
<1>a. PICK b \in hist : /\ \A s \in hist : b <= s
                    /\ anchor' = b /\ done' = done \cup {b}
                    /\ hist' = hist \ {b}
  BY DEF Oldest, Delivers
<1>b. /\ b \in traded /\ b \in Slots /\ anchor < b /\ b < now
      /\ \A s \in traded : s < b => s <= anchor
  <2>1. b \in traded /\ b \in Slots /\ anchor < b /\ b < now
    BY <1>a, Numbers DEF HistorySound, StreamSound, VenueSound, TypeOK, None
  <2>2. ASSUME NEW s \in traded, s < b PROVE s <= anchor
    <3>1. s \in Int
      BY Numbers DEF TypeOK
    <3>2. b \in Int /\ anchor \in Int
      BY <2>1, Numbers
    <3>3. anchor < s => s \in hist
      BY <1>a, <2>2 DEF HistorySound
    <3>4. s \in hist => b <= s
      BY <1>a
    <3>5. ~ (anchor < s)
      BY <2>2, <3>1, <3>2, <3>3, <3>4
    <3> QED BY <3>1, <3>2, <3>5
  <2> QED BY <2>1, <2>2
<1>1. /\ VenueSound' /\ LedgerSound'
  BY DEF VenueSound, LedgerSound
<1>2. TypeOK'
  BY <1>a, <1>b DEF TypeOK, MaybeSlots
<1>3. CollectionSound'
  BY DEF CollectionSound, Collecting
<1>4. RunnerSound'
  BY SMTT(30), <1>a, <1>b, Numbers DEF RunnerSound, TypeOK
<1>5. HistorySound'
  BY SMTT(30), <1>a, <1>b, Numbers DEF HistorySound, TypeOK
<1>6. StreamSound'
  BY <1>a, <1>b, Numbers DEF HistorySound, StreamSound, TypeOK
<1>7. CandidateSound'
  BY DEF CandidateSound
<1>8. FeedStep
  <2>1. (\A g \in done : g < b) /\ \A s \in traded : s < b => s \in done
    BY SMTT(30), <1>b, Numbers DEF RunnerSound, TypeOK
  <2> QED BY <1>a, <1>b, <2>1, HandsOne
<1> QED BY <1>1, <1>2, <1>3, <1>4, <1>5, <1>6, <1>7, <1>8 DEF Sound

\* A bar from the stream is handed over.
LEMMA HandStreamSound == ASSUME IInv, HandStream PROVE Sound
<1> USE DEF IInv, HandStream
<1>a. PICK b \in stream : /\ \A s \in stream : b <= s
                    /\ anchor' = b /\ done' = done \cup {b}
                    /\ stream' = stream \ {b}
                    /\ b <= anchor + 1
  BY Numbers DEF Oldest, Delivers, GapBefore, RunnerSound, TypeOK, None, Slots
<1>b. /\ b \in traded /\ b \in Slots /\ anchor < b /\ b < now
      /\ \A s \in traded : s < b => s <= anchor
  <2>1. b \in traded /\ b \in Slots /\ anchor < b /\ b < now
    <3>1. b \in Slots /\ b # None /\ b < cur
      BY <1>a, Numbers DEF StreamSound, TypeOK, None
    <3>2. cur # None
      BY <3>1, Numbers DEF None
    <3>3. b \in traded /\ anchor < b /\ cur \in traded
      BY <1>a, <3>1, <3>2 DEF StreamSound
    <3> QED BY <3>1, <3>3, Numbers DEF VenueSound
  <2>2. ASSUME NEW s \in traded, s < b PROVE s <= anchor
    <3>1. s \in Int
      BY Numbers DEF TypeOK
    <3>2. b \in Int /\ anchor \in Int
      BY <2>1, Numbers
    <3>3. b <= anchor + 1
      BY <1>a
    <3> QED BY <2>2, <3>1, <3>2, <3>3
  <2> QED BY <2>1, <2>2
<1>1. /\ VenueSound' /\ LedgerSound'
  BY DEF VenueSound, LedgerSound
<1>2. TypeOK'
  BY <1>a, <1>b DEF TypeOK, MaybeSlots
<1>3. CollectionSound'
  BY DEF CollectionSound, Collecting
<1>4. RunnerSound'
  BY SMTT(30), <1>a, <1>b, Numbers DEF RunnerSound, TypeOK
<1>5. HistorySound'
  BY <1>a, <1>b, Numbers DEF HistorySound, TypeOK
<1>6. StreamSound'
  BY <1>a, <1>b, Numbers DEF HistorySound, StreamSound, TypeOK
<1>7. CandidateSound'
  BY DEF CandidateSound
<1>8. FeedStep
  <2>1. (\A g \in done : g < b) /\ \A s \in traded : s < b => s \in done
    BY SMTT(30), <1>b, Numbers DEF RunnerSound, TypeOK
  <2> QED BY <1>a, <1>b, <2>1, HandsOne
<1> QED BY <1>1, <1>2, <1>3, <1>4, <1>5, <1>6, <1>7, <1>8 DEF Sound

-----------------------------------------------------------------------------
(* The theorems *)

\* The initial state satisfies the invariant.
LEMMA InitSound == Init => IInv
BY LagAssumption, SlotAssumption DEF Init, Started, IInv, TypeOK, VenueSound, LedgerSound,
   CollectionSound, RunnerSound, HistorySound, StreamSound, CandidateSound, NoColl, Open, Slots,
   MaybeSlots, Phases, Collecting, None

\* Every step of the feed is sound.
LEMMA StepSound ==
  ASSUME IInv, Next PROVE Sound
<1>1. ASSUME Collects PROVE Sound
  BY <1>1, PassLeavesOpenSound, CollectionLostSound, BackfillEndsSound, RepairEndsSound
     DEF Collects
<1>2. ASSUME Watches PROVE Sound
  BY <1>2, IngestSound, HandHistorySound, HandStreamSound, RepairBeginsSound DEF Watches
<1> QED BY <1>1, <1>2, TickSound, RepushSound, PublishSound, TimePassesSound, MissedAgesSound,
   LoseSound, ConnectSound, SubscribeSound, BackfillBeginsSound, PassCutShortSound,
   RepairCancelledSound DEF Next

\* A step that changes nothing.
LEMMA StutterSound ==
  ASSUME IInv, UNCHANGED vars PROVE Sound
<1>1. IInv'
  BY DEF IInv, vars, TypeOK, VenueSound, LedgerSound, CollectionSound, RunnerSound, HistorySound,
     StreamSound, CandidateSound, Window
<1>2. FeedStep
  BY DEF vars, FeedStep, Feed!feed
<1> QED BY <1>1, <1>2 DEF Sound

\* The venue and the ledger are sound, the queue of closed bars follows the last
\* one handed over without a gap, and a collection keeps only what is so.
THEOREM InvariantHolds == Spec => []IInv
<1>1. IInv /\ [Next]_vars => IInv'
  BY StepSound, StutterSound DEF Sound
<1> QED BY InitSound, <1>1, PTL DEF Spec

\* Every variable has its type in every state.
THEOREM TypeCorrect == Spec => []TypeOK
<1>1. IInv => TypeOK
  BY DEF IInv
<1> QED BY InvariantHolds, <1>1, PTL

\* The runner gets every closed bar in order, once, and none is left out
\* (watch_ohlcv, _repair_connected_gap, _backfill_live_gap).
THEOREM FeedImplemented == Spec => FeedSpec
<1>1. Init => Feed!Init
  BY DEF Init, Started, Feed!Init
<1>2. IInv /\ [Next]_vars => [Feed!Next]_(Feed!feed)
  BY StepSound, StutterSound DEF Sound, FeedStep
<1> QED BY <1>1, <1>2, InvariantHolds, PTL DEF Spec, FeedSpec, Feed!Spec

=============================================================================
