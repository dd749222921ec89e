--------------------------- MODULE FeedContinuity ---------------------------
(***************************************************************************)
(* The live bar feed of one symbol and timeframe: the stream of trendbar   *)
(* pushes, the repair of a gap the stream shows while connected, and the   *)
(* backfill of an outage after a reconnect.                                *)
(*                                                                         *)
(* A bar is its opening, counted in periods.  The venue has a bar for a    *)
(* slot only if the slot traded, pushes it while it forms, and serves it   *)
(* from its history within Lag of its close.  The provider cannot tell a   *)
(* slot that did not trade from one not served yet: it holds a slot for    *)
(* tickless when history passes missed it for Evidence, and keeps since    *)
(* when it misses a slot across collections.                               *)
(*                                                                         *)
(* The runner calls watch_ohlcv, and after a loss disconnect, connect and  *)
(* on_reconnect until all succeed; it never does two of these at once.     *)
(***************************************************************************)
EXTENDS Integers, Sequences

CONSTANTS Lag,         \* _LIVE_HISTORY_PUBLICATION_LAG_SECONDS, in periods
          Evidence,    \* _LIVE_HISTORY_HOLE_EVIDENCE_SECONDS, in periods
          MaxSlot,     \* bound: the slot at which the clock stops
          Shut,        \* slots in which the market is closed
          MaxQueue,    \* bound: pushes that wait
          MaxLosses,   \* bound: connection losses
          MaxFaults,   \* bound: history passes that fail or are cut short
          MaxCancels   \* bound: repairs cut off by the runner's timeout

Slots == 0 .. MaxSlot

ASSUME LagAssumption == Lag \in Nat \ {0} /\ Evidence \in Lag .. MaxSlot
ASSUME SlotAssumption ==
  /\ MaxSlot \in Nat \ {0} /\ Shut \subseteq Slots \ {0, 1}
  /\ \A s \in Slots \ Shut : s + 1 + Lag <= MaxSlot
ASSUME BoundAssumption ==
  MaxQueue \in Nat /\ MaxLosses \in Nat /\ MaxFaults \in Nat /\ MaxCancels \in Nat

None == -1

VARIABLES
  now,         \* the slot that is forming, on the venue's clock and on ours
  traded,      \* venue: slots with a tick
  published,   \* venue: closed bars its history serves
  up,          \* is the socket up
  sub,         \* venue: the connection is subscribed
  queue,       \* _spot_events: the openings each push carries
  phase,       \* what the runner and the provider are doing
  hist,        \* _pending_bars: the bars from history, which come first ...
  stream,      \* ... and the closed bars from the stream
  cur,         \* _current_bar_ts
  gapCursor,   \* _live_gap_cursor_ts
  anchor,      \* _last_live_closed_bar
  coll,        \* the collection under way: its window and what it found
  first,       \* _history_hole_first_missing_ns
  done,        \* closed bars the runner holds
  losses, faults, cancels

venueVars == <<now, traded, published>>
linkVars == <<up, sub, queue>>
barVars == <<hist, stream, cur, gapCursor, anchor, done>>
collVars == <<coll, first>>
boundVars == <<losses, faults, cancels>>
vars == <<venueVars, linkVars, phase, barVars, collVars, boundVars>>

\* The session calendar: a slot that overlaps a session is open.
Open == Slots \ Shut

NoColl == [cursor |-> 0, ceil |-> 0, rec |-> {}, empty |-> {}]

\* The runner holds the warm-up history, bar 0 in it, and bar 1 is forming.
Started ==
  /\ now = 1 /\ traded = {0, 1} /\ published = {}
  /\ up = TRUE /\ sub = TRUE /\ queue = <<>>
  /\ phase = "live"
  /\ hist = {} /\ stream = {} /\ cur = 1 /\ done = {0}
  /\ coll = NoColl /\ first = [s \in Slots |-> None]
  /\ losses = 0 /\ faults = 0 /\ cancels = 0

\* The stream has closed bar 0.
Init == Started /\ gapCursor = 0 /\ anchor = 0

\* The stream has closed no bar yet, and seen bar 1 first.
FirstBarInit == Started /\ gapCursor = 1 /\ anchor = None

-----------------------------------------------------------------------------
(* The venue and the clock *)

\* A push carries the latest bar, or the one before as well.
Pushes(bars) ==
  /\ Len(queue) < MaxQueue
  /\ \E hi \in bars : /\ \A s \in bars : s <= hi
                      /\ \E lo \in bars :
                           /\ \A s \in bars : lo < s => s = hi
                           /\ queue' = Append(queue, [lo |-> lo, hi |-> hi])

Tick ==
  /\ now \in Open
  /\ traded' = traded \cup {now}
  /\ IF up /\ sub THEN Pushes(traded') ELSE UNCHANGED queue
  /\ UNCHANGED <<now, published, up, sub, phase, barVars, collVars, boundVars>>

\* A bar pushed again without a tick: the snapshot of a subscription.
Repush ==
  /\ up /\ sub /\ queue = <<>> /\ Pushes(traded)
  /\ UNCHANGED <<venueVars, up, sub, phase, barVars, collVars, boundVars>>

Publish ==
  /\ \E s \in traded \ published : s < now /\ published' = published \cup {s}
  /\ UNCHANGED <<now, traded, linkVars, phase, barVars, collVars, boundVars>>

\* No bar stays unpublished for longer than Lag.
TimePasses ==
  /\ now < MaxSlot
  /\ \A s \in traded : s + Lag <= now => s \in published
  /\ now' = now + 1
  /\ UNCHANGED <<traded, published, linkVars, phase, barVars, collVars, boundVars>>

\* The clock has stopped in a shut market; only what was missed grows older.
MissedAges ==
  /\ now = MaxSlot
  /\ \E s \in Slots : first[s] # None /\ first[s] > now - Evidence
  /\ first' = [s \in Slots |-> IF first[s] = None THEN None ELSE now - Evidence]
  /\ UNCHANGED <<venueVars, linkVars, phase, barVars, coll, boundVars>>

-----------------------------------------------------------------------------
(* The connection and the runner *)

Lose ==
  /\ up /\ losses < MaxLosses
  /\ losses' = losses + 1
  /\ up' = FALSE /\ sub' = FALSE
  /\ UNCHANGED <<venueVars, queue, phase, barVars, collVars, faults, cancels>>

\* A bug: the bar in progress outlives the connection.
ConnectKeepsBar ==
  /\ phase = "lost" \/ (phase = "live" /\ ~up)
  /\ phase' = "connected"
  /\ up' = TRUE /\ sub' = FALSE /\ queue' = <<>>
  /\ hist' = {} /\ stream' = {}
  /\ UNCHANGED <<venueVars, cur, gapCursor, anchor, done, collVars, boundVars>>

\* disconnect and connect: what the previous connection left is dropped.
Connect ==
  /\ phase = "lost" \/ (phase = "live" /\ ~up)
  /\ phase' = "connected"
  /\ up' = TRUE /\ sub' = FALSE /\ queue' = <<>>
  /\ hist' = {} /\ stream' = {} /\ cur' = None
  /\ UNCHANGED <<venueVars, gapCursor, anchor, done, collVars, boundVars>>

\* on_reconnect: the subscription first ...
Subscribe ==
  /\ phase = "connected"
  /\ \/ up /\ sub' = TRUE /\ phase' = "subscribed"
     \/ ~up /\ phase' = "lost" /\ UNCHANGED sub
  /\ UNCHANGED <<venueVars, up, queue, barVars, collVars, boundVars>>

Opens(for, cursor, ceil) ==
  /\ phase' = for
  /\ coll' = [cursor |-> cursor, ceil |-> ceil, rec |-> {}, empty |-> {}]

\* A bug: what was missed is counted per collection.
BackfillBeginsAfresh ==
  LET cursor == IF anchor # None THEN anchor + 1 ELSE gapCursor IN
  /\ phase = "subscribed"
  /\ IF cursor = None \/ cursor >= now
     THEN phase' = "live" /\ UNCHANGED coll
     ELSE Opens("backfilling", cursor, now)
  /\ first' = [s \in Slots |-> None]
  /\ UNCHANGED <<venueVars, linkVars, barVars, boundVars>>

\* ... then the backfill of what closed since the last closed bar.
BackfillBegins ==
  LET cursor == IF anchor # None THEN anchor + 1 ELSE gapCursor IN
  /\ phase = "subscribed"
  /\ IF cursor = None \/ cursor >= now
     THEN phase' = "live" /\ UNCHANGED coll
     ELSE Opens("backfilling", cursor, now)
  /\ UNCHANGED <<venueVars, linkVars, barVars, first, boundVars>>

-----------------------------------------------------------------------------
(* _collect_live_gap_history *)

Collecting == {"backfilling", "repairing"}

Window == coll.cursor .. coll.ceil - 1

Read == coll.rec \cup (published \cap Window)
Missing == Window \ Read

\* Since when each missing slot has been missed, across collections.
Missed == [s \in Slots |-> IF s \notin Missing THEN None
                           ELSE IF first[s] = None THEN now ELSE first[s]]

Tickless == coll.empty \cup {s \in Missing : now - Missed[s] >= Evidence}

Unsettled == (Window \cap Open) \ (Read \cup Tickless)

\* An open slot is missing that closed less than Lag ago.
Awaited == \E s \in Unsettled : s + 1 + Lag > now

\* One served pass over the window.
Served == phase \in Collecting /\ up /\ first' = Missed

\* The collection is incomplete: its caller raises, and the runner reconnects.
Fails ==
  phase' = "lost" /\ coll' = NoColl

PassLeavesOpen ==
  /\ Served /\ Unsettled # {}
  /\ \/ /\ coll' = [coll EXCEPT !.rec = Read, !.empty = Tickless]
        /\ UNCHANGED phase
     \/ /\ ~Awaited
        /\ Fails
  /\ UNCHANGED <<venueVars, linkVars, barVars, boundVars>>

\* A pass that fails, or reads part of the window only, is no evidence.
PassCutShort ==
  /\ phase \in Collecting /\ up /\ faults < MaxFaults
  /\ faults' = faults + 1
  /\ \/ /\ \E part \in SUBSET (published \cap Window) :
             coll' = [coll EXCEPT !.rec = @ \cup part]
        /\ UNCHANGED phase
     \/ Fails
  /\ UNCHANGED <<venueVars, linkVars, barVars, first, losses, cancels>>

\* The wire is gone.
CollectionLost ==
  /\ phase \in Collecting /\ ~up
  /\ Fails
  /\ UNCHANGED <<venueVars, linkVars, barVars, first, boundVars>>

Settles ==
  /\ Served /\ Unsettled = {}
  /\ phase' = "live" /\ coll' = NoColl

-----------------------------------------------------------------------------
(* What each caller does with a complete collection, and watch_ohlcv.  The    *)
(* updates of the forming bar, which watch_ohlcv returns as well, are left out. *)

\* watch_ohlcv returns the oldest of the bars as closed.
Oldest(s, bars) == s \in bars /\ \A b \in bars : s <= b

Delivers(s) == anchor' = s /\ done' = done \cup {s}

BackfillEnds ==
  /\ phase = "backfilling" /\ Settles
  /\ hist' = Read
  /\ UNCHANGED <<venueVars, linkVars, stream, cur, gapCursor, anchor, done, boundVars>>

\* The recovered bars go before the candidate, and the first one is returned.
RepairEnds ==
  /\ phase = "repairing" /\ Settles
  /\ \/ \E s \in Read : /\ Oldest(s, Read) /\ Delivers(s)
                        /\ hist' = Read \ {s} /\ UNCHANGED stream
     \/ \E s \in stream : /\ Read = {} /\ Oldest(s, stream) /\ Delivers(s)
                          /\ stream' = stream \ {s} /\ UNCHANGED hist
  /\ UNCHANGED <<venueVars, linkVars, cur, gapCursor, boundVars>>

\* The runner's timeout cancels watch_ohlcv; the candidate stays.
RepairCancelled ==
  /\ phase = "repairing" /\ cancels < MaxCancels
  /\ cancels' = cancels + 1
  /\ phase' = "live" /\ coll' = NoColl
  /\ UNCHANGED <<venueVars, linkVars, barVars, first, losses, faults>>

\* _ingest_live_bar, for each opening of a push: one at or behind the last
\* closed bar, or behind the current one, is ignored; a later one closes it.
Accepted(s) == s > anchor /\ s >= cur

Ingest ==
  LET push == Head(queue)
      openings == {s \in {push.lo, push.hi} : Accepted(s)} IN
  /\ phase = "live" /\ hist = {} /\ stream = {} /\ queue # <<>>
  /\ queue' = Tail(queue)
  /\ IF openings = {}
     THEN UNCHANGED <<stream, cur, gapCursor>>
     ELSE /\ stream' = ({cur} \cup openings) \ {None, push.hi}
          /\ cur' = push.hi
          /\ gapCursor' = IF gapCursor # None THEN gapCursor
                          ELSE IF push.lo \in openings THEN push.lo ELSE push.hi
  /\ UNCHANGED <<venueVars, up, sub, phase, hist, anchor, done, collVars, boundVars>>

\* Is a closed bar of the stream not the one after the last closed bar?  (Nor is
\* it ever behind that bar: Ingest has seen to that.)
GapBefore(s) == anchor # None /\ s > anchor + 1

HandHistory ==
  /\ phase = "live"
  /\ \E s \in hist : Oldest(s, hist) /\ Delivers(s) /\ hist' = hist \ {s}
  /\ UNCHANGED <<venueVars, linkVars, phase, stream, cur, gapCursor, collVars, boundVars>>

\* A bug: the stream is trusted to leave nothing out.
HandStreamTrusted ==
  /\ phase = "live" /\ hist = {}
  /\ \E s \in stream : Oldest(s, stream) /\ Delivers(s) /\ stream' = stream \ {s}
  /\ UNCHANGED <<venueVars, linkVars, phase, hist, cur, gapCursor, collVars, boundVars>>

HandStream ==
  /\ phase = "live" /\ hist = {}
  /\ \E s \in stream : /\ Oldest(s, stream) /\ ~GapBefore(s) /\ Delivers(s)
                       /\ stream' = stream \ {s}
  /\ UNCHANGED <<venueVars, linkVars, phase, hist, cur, gapCursor, collVars, boundVars>>

\* _repair_connected_gap
RepairBegins ==
  /\ phase = "live" /\ hist = {}
  /\ \E s \in stream : /\ Oldest(s, stream) /\ GapBefore(s)
                       /\ Opens("repairing", anchor + 1, s)
  /\ UNCHANGED <<venueVars, linkVars, barVars, first, boundVars>>

-----------------------------------------------------------------------------
Collects == PassLeavesOpen \/ CollectionLost \/ BackfillEnds \/ RepairEnds

Watches == Ingest \/ HandHistory \/ HandStream \/ RepairBegins

Next ==
  \/ Tick \/ Repush \/ Publish \/ TimePasses \/ MissedAges
  \/ Lose \/ Connect \/ Subscribe \/ BackfillBegins
  \/ Collects \/ PassCutShort \/ RepairCancelled
  \/ Watches

Spec == Init /\ [][Next]_vars

\* From the first bar that the stream closes.
FirstBarSpec == FirstBarInit /\ [][Next]_vars

\* The clock runs and the venue publishes; a task that can go on does.  Nothing
\* is asked of ticks, and a collection that may give up is not made to stay.
FairSpec ==
  /\ Spec
  /\ WF_vars(Publish) /\ WF_vars(TimePasses) /\ WF_vars(MissedAges)
  /\ WF_vars(Connect) /\ WF_vars(Subscribe) /\ WF_vars(BackfillBegins)
  /\ WF_vars(Collects) /\ WF_vars(Watches)
-----------------------------------------------------------------------------
(* Properties *)

MaybeSlots == Slots \cup {None}
Phases == Collecting \cup {"live", "lost", "connected", "subscribed"}

\* Every variable has its type.
TypeOK ==
  /\ now \in Slots /\ traded \subseteq Slots /\ published \subseteq Slots
  /\ up \in BOOLEAN /\ sub \in BOOLEAN
  /\ queue \in Seq([lo : Slots, hi : Slots])
  /\ phase \in Phases
  /\ hist \subseteq Slots /\ stream \subseteq Slots
  /\ cur \in MaybeSlots /\ gapCursor \in MaybeSlots /\ anchor \in MaybeSlots
  /\ coll \in [cursor : Nat, ceil : Nat, rec : SUBSET Slots, empty : SUBSET Slots]
  /\ first \in [Slots -> Int]
  /\ done \subseteq Slots
  /\ losses \in Nat /\ faults \in Nat /\ cancels \in Nat

\* The venue serves closed bars only, and each of them Lag after its close.
VenueSound ==
  /\ \A s \in traded : s <= now /\ s \in Open
  /\ published \subseteq traded
  /\ \A s \in traded : s + 1 + Lag <= now => s \in published
  /\ now = MaxSlot => {s \in traded : s < now} \subseteq published

\* A slot is missed after its close only, so Evidence of it outlasts Lag.
LedgerSound ==
  \A s \in Slots : first[s] # None => s < now /\ (first[s] > s \/ now = MaxSlot)

\* A collection covers what follows the last closed bar; what it read is there,
\* and what it holds for tickless did not trade.
CollectionSound ==
  phase \in Collecting =>
    /\ coll.cursor = anchor + 1 /\ coll.ceil <= now
    /\ coll.rec \subseteq published \cap Window
    /\ coll.empty \subseteq Window \ traded

\* The last closed bar is the newest the runner holds, which lacks none before.
RunnerSound ==
  /\ anchor \in done /\ anchor < now
  /\ \A s \in done : s <= anchor /\ s \in traded
  /\ \A s \in traded : s <= anchor => s \in done

\* The bars waiting from history follow the last closed bar without a gap, and
\* come before those from the stream.
HistorySound ==
  /\ \A h \in hist : h \in traded /\ anchor < h /\ h < now
  /\ \A h \in hist, s \in traded : anchor < s /\ s < h => s \in hist
  /\ \A h \in hist, s \in stream \cup {cur} : s # None => h < s

\* The bars of the stream are new, the closed ones older than the current; a
\* fresh connection has none.
StreamSound ==
  /\ \A s \in stream \cup {cur} : s # None => s \in traded /\ anchor < s
  /\ \A s \in stream : s # None /\ s < cur
  /\ phase \in {"connected", "subscribed", "backfilling"} =>
       cur = None /\ stream = {} /\ hist = {}
  /\ \A i \in DOMAIN queue :
       queue[i].lo \in traded /\ queue[i].hi \in traded /\ queue[i].lo <= queue[i].hi

\* A repair runs up to the candidate, which heads the queue.
CandidateSound ==
  phase = "repairing" =>
    hist = {} /\ coll.ceil \in stream /\ \A s \in stream : coll.ceil <= s

\* The inductive invariant of Spec.  With it, bars are the venue's, and a
\* partial or stale answer of the venue never reaches the queue.
IInv == /\ TypeOK
        /\ VenueSound
        /\ LedgerSound
        /\ CollectionSound
        /\ RunnerSound
        /\ HistorySound
        /\ StreamSound
        /\ CandidateSound

Feed == INSTANCE BarFeed WITH got <- done

\* "Every closed bar of an outage window must reach the runner, in order and
\* exactly once": what watch_ohlcv returns as closed follows what it returned
\* before with no bar left out, whatever is lost, delayed, cut short or
\* cancelled.
FeedSpec == Feed!Spec

\* The bars that closed while the feed was down reach the runner in the end:
\* tickless slots, a late publication, partial answers and losses during the
\* repair do not keep the reconnect from converging.
OutageBarsDelivered ==
  \A s \in Slots : (s \in traded /\ s < now /\ ~up) ~> (s \in done)

=============================================================================
