----------------------------- MODULE OwnCloses -----------------------------
(***************************************************************************)
(* The closes a run sends for a position on a NETTING account that others  *)
(* trade too, and the judgement of every closing fill pushed on it: whose  *)
(* close it is, and how much of it took the bot's share.                   *)
(*                                                                         *)
(* ProtoOAClosePositionReq carries no client order id, so until the answer *)
(* names its order a close takes every closing fill of the position as its *)
(* own (a claim) and holds the fill's event; the answer judges the claims  *)
(* again.  The journal runs ahead of the event stream, or behind it, and   *)
(* the share as of a fill is known only within bounds.                     *)
(*                                                                         *)
(* Volumes are small naturals, buys are positive, and the position is a    *)
(* buy.  The venue knows the bot's true share: others' exposure is closed  *)
(* by others first.  No push is lost here; what a lost one leaves is       *)
(* RecoveredCloses.                                                        *)
(***************************************************************************)
EXTENDS Integers, Sequences, FiniteSets, Functions

CONSTANTS Mine0,       \* the bot's share at the start
          Others0,     \* what others hold of the position at the start
          NCloses,     \* bound: closes the run sends
          Entries,     \* bound: own entries on the symbol, 0 or 1
          MaxForeign,  \* bound: fills of others' orders on the position
          MaxFires,    \* bound: fills the venue's own mechanics cause
          MaxQueue,    \* bound: pushes that wait
          Ties         \* may two executions carry the same timestamp?

ASSUME ShareAssumption == Mine0 \in Nat \ {0} /\ Others0 \in Nat
ASSUME BoundAssumption ==
  /\ NCloses \in Nat /\ Entries \in {0, 1} /\ MaxForeign \in Nat /\ MaxFires \in Nat
  /\ MaxQueue \in Nat /\ Ties \in BOOLEAN

Closes == 1 .. NCloses
EntryVolume == 1
Unknown == -1       \* a share that no live row of the run tells

VARIABLES
  vol,         \* venue: the volume of the position
  mine,        \* venue: the bot's true share of it
  clock,       \* venue: the timestamp of the last execution
  deals,       \* venue: per deal, who closed and what it took of the share
  left,        \* venue: per close, the volume its order has left
  wire,        \* per close: its request on the way, its order, its end
  ans,         \* per close: the answer on its way to the dispatch
  queue,       \* _exec_events
  rows,        \* journal: is a live entry row linked to the position?
  filled, retired,         \* journal: executed volume, and the part retired
  oc,          \* _own_close_history
  dispatched,  \* _close_dispatch_pine_by_position
  seen,        \* _seen_deal_ids
  effects,     \* _share_effects
  verdicts,    \* _held_close_verdicts
  entry,       \* the own entry: its dispatch and the volume its row counts
  pending,     \* _deferred_interventions: deals of queued reports
  reported,    \* deals the intervention policy was run for
  audited,     \* deals an ERROR was logged for
  booked       \* the closed volume the engine was told of

venueVars == <<vol, mine, clock, deals, left>>
journalVars == <<rows, filled, retired>>
judgeVars == <<pending, reported, audited>>
vars == <<venueVars, wire, ans, queue, journalVars, oc, dispatched, seen, effects, verdicts,
          entry, judgeVars, booked>>

NoAnswer == [kind |-> "none"]

Idle == [phase |-> "idle", live |-> FALSE, vol |-> 0, exec |-> 0, counted |-> {},
         complete |-> FALSE, claims |-> <<>>]

Init ==
  /\ vol = Mine0 + Others0 /\ mine = Mine0 /\ clock = 0 /\ deals = <<>>
  /\ left = [c \in Closes |-> 0]
  /\ wire = [c \in Closes |-> "none"] /\ ans = [c \in Closes |-> NoAnswer]
  /\ queue = <<>>
  /\ rows = TRUE /\ filled = Mine0 /\ retired = 0
  /\ oc = [c \in Closes |-> Idle]
  /\ dispatched = FALSE /\ seen = {} /\ effects = {} /\ verdicts = {}
  /\ entry = [phase |-> "idle", venue |-> "none", answer |-> NoAnswer, count |-> 0]
  /\ pending = {} /\ reported = {} /\ audited = {}
  /\ booked = 0

AtLeast0(n) == IF n > 0 THEN n ELSE 0
Least(a, b) == IF a < b THEN a ELSE b
Most(a, b) == IF a > b THEN a ELSE b
Sum(S, f(_)) == SumFunction([x \in S |-> f(x)])
SumOf(seq, f(_)) == SumFunction([i \in DOMAIN seq |-> f(seq[i])])

\* A value carried along a sequence, changed by each of its elements.
Carried(seq, start, step(_, _)) ==
  LET at[n \in 0 .. Len(seq)] == IF n = 0 THEN start ELSE step(at[n - 1], seq[n])
  IN  at[Len(seq)]

-----------------------------------------------------------------------------
(* The share as of a deal *)

\* The bot's journal share; it has none when no live row is linked.
Share == filled - retired

\* The part of a close that may have executed unseen.
Unresolved(c) ==
  IF oc[c].phase \in {"named", "unknown"} /\ ~oc[c].complete
  THEN AtLeast0(oc[c].vol - oc[c].exec
                  - SumOf(oc[c].claims, LAMBDA k : IF k.venue THEN 0 ELSE k.qty))
  ELSE 0

\* Does an own fill shift the share, and on which side of the deal did it execute?
Certain(e, at) == IF e.counted THEN e.at > at ELSE e.at < at
\* Mutant: a fill the journal does not count yet is left out.
ShiftCountedOnly(e) == IF e.counted THEN -e.delta ELSE 0

Shift(e) == IF e.counted THEN -e.delta ELSE e.delta

\* A close that executed unseen takes the net toward zero, never past it.
Within(lo, hi, unseen) ==
  CASE unseen > 0 /\ lo > 0 -> [lo |-> AtLeast0(lo - unseen), hi |-> hi]
    [] unseen > 0 /\ lo <= 0 /\ hi < 0 -> [lo |-> lo, hi |-> Least(0, hi + unseen)]
    [] OTHER -> [lo |-> lo, hi |-> hi]

Spread(net, open) ==
  Within(net + Sum(open, LAMBDA e : Least(0, Shift(e))),
         net + Sum(open, LAMBDA e : Most(0, Shift(e))), Sum(Closes, Unresolved))

NetBounds(at) ==
  Spread(Share + Sum({e \in effects : Certain(e, at)}, Shift), {e \in effects : e.at = at})

\* The share is the size of the net on its side; a net on neither side for
\* certain has a share of at least nothing.
OnItsSide(lo, top) ==
  CASE lo >= 0 /\ top <= 0 -> [low |-> 0, high |-> 0, side |-> "none"]
    [] lo >= 0 /\ top > 0  -> [low |-> lo, high |-> top, side |-> "buy"]
    [] lo < 0 /\ top <= 0  -> [low |-> -top, high |-> -lo, side |-> "sell"]
    [] OTHER -> [low |-> 0, high |-> Most(-lo, top), side |-> "none"]

\* Mutant: an entry in flight has not executed.
BoundsOfNetSettled(lo, hi, inFlight) == OnItsSide(lo, hi)

BoundsOfNet(lo, hi, inFlight) == OnItsSide(lo, hi + inFlight)

\* The volume of the own entry in flight that its row does not count yet.
InFlight == IF entry.phase = "flight" THEN EntryVolume - entry.count ELSE 0

InFlightBounds(net, inFlight) == BoundsOfNet(net.lo, net.hi, inFlight)

ShareBounds(at, inFlight) == InFlightBounds(NetBounds(at), inFlight)

\* What a fill left on the bot's side of the position.
VenueAfter(m, side) == IF side \in {"none", "buy"} THEN m.after ELSE 0

ShareSide == IF rows /\ Share > 0 THEN "buy" ELSE IF rows /\ Share < 0 THEN "sell" ELSE "none"

\* A report is queued unless one of the position waits already.
Report(queued, d) == IF queued = {} THEN {d} ELSE queued

-----------------------------------------------------------------------------
(* The venue *)

Stamps == IF Ties THEN {clock, clock + 1} ELSE {clock + 1}

\* A closing fill, as its execution event and its answer carry it.
Fills(kind, order, q, last) ==
  [deal : {Len(deals) + 1}, kind : {kind}, order : {order}, qty : {q}, after : {vol - q},
   at : Stamps, last : {last}]

\* Own closes take the bot's share first, others' closes what others hold.
Took(m) == IF m.kind = "own" THEN Least(m.qty, mine) ELSE AtLeast0(m.qty - (vol - mine))

Executes(m) ==
  /\ vol' = m.after /\ clock' = m.at
  /\ mine' = mine - Took(m)
  /\ deals' = Append(deals, [kind |-> m.kind, took |-> Took(m)])

Pushes(m) == Len(queue) < MaxQueue /\ queue' = Append(queue, m)

\* An answer nobody waits for any more is pushed, if it is a fill.
Answers(c, m) ==
  IF oc[c].phase = "sent" THEN ans' = [ans EXCEPT ![c] = m] /\ UNCHANGED queue
  ELSE /\ UNCHANGED ans
       /\ IF m.kind = "own" THEN Pushes(m) ELSE UNCHANGED queue

\* A request that gives a fill as its answer, or is accepted first, or refused.
VenueHandles(c) ==
  /\ wire[c] = "sent"
  /\ \/ /\ wire' = [wire EXCEPT ![c] = "over"]
        /\ Answers(c, [kind |-> "refused"])
        /\ UNCHANGED venueVars
     \/ /\ oc[c].vol <= vol
        /\ wire' = [wire EXCEPT ![c] = "working"]
        /\ left' = [left EXCEPT ![c] = oc[c].vol]
        /\ Answers(c, [kind |-> "accepted"])
        /\ UNCHANGED <<vol, mine, clock, deals>>
     \/ /\ oc[c].vol <= vol
        /\ \E q \in 1 .. oc[c].vol : \E m \in Fills("own", c, q, q = oc[c].vol) :
             /\ Executes(m) /\ Answers(c, m)
             /\ left' = [left EXCEPT ![c] = oc[c].vol - q]
             /\ wire' = [wire EXCEPT ![c] = IF m.last THEN "over" ELSE "working"]
  /\ UNCHANGED <<journalVars, oc, dispatched, seen, effects, verdicts, entry, judgeVars, booked>>

VenueFillsClose(c) ==
  /\ wire[c] = "working"
  /\ \E q \in 1 .. Least(left[c], vol) : \E m \in Fills("own", c, q, q = left[c]) :
       /\ Executes(m) /\ Pushes(m)
       /\ left' = [left EXCEPT ![c] = @ - q]
       /\ wire' = [wire EXCEPT ![c] = IF m.last THEN "over" ELSE "working"]
  /\ UNCHANGED <<ans, journalVars, oc, dispatched, seen, effects, verdicts, entry, judgeVars,
                 booked>>

\* The rest of a close ends: others closed what it was to close, or no price.
VenueEndsClose(c) ==
  /\ wire[c] = "working"
  /\ wire' = [wire EXCEPT ![c] = "over"]
  /\ Pushes([kind |-> "cancel", order |-> c])
  /\ UNCHANGED <<venueVars, ans, journalVars, oc, dispatched, seen, effects, verdicts, entry,
                 judgeVars, booked>>

Count(kinds) == Cardinality({d \in DOMAIN deals : deals[d].kind \in kinds})

\* Another party closes part of the position, or adds to it.
ForeignCloses ==
  /\ Count({"ext", "add"}) < MaxForeign
  /\ \E q \in 1 .. vol : \E m \in Fills("ext", 0, q, TRUE) : Executes(m) /\ Pushes(m)
  /\ UNCHANGED <<left, wire, ans, journalVars, oc, dispatched, seen, effects, verdicts, entry,
                 judgeVars, booked>>

ForeignAdds ==
  /\ vol > 0 /\ Count({"ext", "add"}) < MaxForeign
  /\ vol' = vol + 1 /\ clock' \in Stamps
  /\ deals' = Append(deals, [kind |-> "add", took |-> 0])
  /\ UNCHANGED <<mine, left, wire, ans, queue, journalVars, oc, dispatched, seen, effects,
                 verdicts, entry, judgeVars, booked>>

\* The position's own protection fires, or the venue stops it out.
VenueFires ==
  /\ vol > 0 /\ Count({"venue"}) < MaxFires
  /\ \E q \in {1, vol} : \E m \in Fills("venue", 0, q, TRUE) : Executes(m) /\ Pushes(m)
  /\ UNCHANGED <<left, wire, ans, journalVars, oc, dispatched, seen, effects, verdicts, entry,
                 judgeVars, booked>>

\* The own entry executes while the position is open, as the answer or a push.
EntryFill(at) ==
  [deal |-> Len(deals) + 1, kind |-> "entry", order |-> 0, qty |-> EntryVolume, after |-> vol + 1,
   at |-> at, last |-> TRUE]

VenueHandlesEntry ==
  /\ entry.venue = "sent"
  /\ \/ /\ \E verdict \in {"refused", "accepted"} :
             entry' = [entry EXCEPT !.venue = IF verdict = "accepted" THEN "working" ELSE "over",
                                    !.answer = IF entry.phase = "flight" THEN [kind |-> verdict]
                                               ELSE NoAnswer]
        /\ UNCHANGED <<vol, mine, clock, deals, queue>>
     \/ /\ vol > 0
        /\ \E at \in Stamps :
             /\ vol' = vol + EntryVolume /\ mine' = mine + EntryVolume /\ clock' = at
             /\ deals' = Append(deals, [kind |-> "entry", took |-> 0])
             /\ IF entry.phase = "flight"
                THEN entry' = [entry EXCEPT !.venue = "over", !.answer = EntryFill(at)]
                     /\ UNCHANGED queue
                ELSE entry' = [entry EXCEPT !.venue = "over"] /\ Pushes(EntryFill(at))
  /\ UNCHANGED <<left, wire, ans, journalVars, oc, dispatched, seen, effects, verdicts, judgeVars,
                 booked>>

VenueFillsEntry ==
  /\ entry.venue = "working" /\ vol > 0
  /\ \E at \in Stamps :
       /\ vol' = vol + EntryVolume /\ mine' = mine + EntryVolume /\ clock' = at
       /\ deals' = Append(deals, [kind |-> "entry", took |-> 0])
       /\ Pushes(EntryFill(at))
  /\ entry' = [entry EXCEPT !.venue = "over"]
  /\ UNCHANGED <<left, wire, ans, journalVars, oc, dispatched, seen, effects, verdicts, judgeVars,
                 booked>>

-----------------------------------------------------------------------------
(* A closing fill is translated *)

\* A close of unknown order id takes every closing fill of the position.
Wildcard ==
  LET claiming == {c \in Closes : oc[c].live /\ oc[c].phase \in {"sent", "unknown"}}
  IN  IF claiming = {} THEN 0 ELSE CHOOSE c \in claiming : \A d \in claiming : c <= d

Named(m) == m.kind = "own" /\ oc[m.order].phase = "named"

\* Whose close a fill is: the close it belongs to (0: none) comes with it.
Origin(m) ==
  IF m.kind = "venue" THEN [who |-> "venue", close |-> 0]
  ELSE IF Named(m) THEN [who |-> "own", close |-> m.order]
  ELSE IF Wildcard # 0 THEN [who |-> "own", close |-> Wildcard]
  ELSE [who |-> "external", close |-> 0]

\* Is the fill attributed to the run at all?
Attributed(m) == dispatched \/ rows \/ Named(m)

\* One own fill of a close is counted, once per deal.
CountExecuted(r, d, q) ==
  IF d \in r.counted THEN r ELSE [r EXCEPT !.exec = @ + q, !.counted = @ \cup {d}]

Claimed(r) == SumOf(r.claims, LAMBDA k : IF k.venue THEN 0 ELSE k.booked)

\* The verdict on a closing fill: what it books, the close that keeps it as a
\* claim, and whether it is reported, held for the own entry in flight, or
\* logged.  An entry in flight is taken as not executed for the booking.
Judged(m, from, bounds, settled, after, taker) ==
  LET shortLow == AtLeast0(bounds.low - after)
      asked == IF taker = 0 THEN m.qty ELSE AtLeast0(oc[taker].vol - Claimed(oc[taker]))
      ambiguous == /\ rows /\ from.who = "external"
                   /\ shortLow = 0 /\ bounds.high > after
  IN  [who |-> from.who,
       after |-> after,
       booked |-> CASE ~rows -> m.qty
                    [] rows /\ from.who = "own" -> Least(Least(m.qty, bounds.high), asked)
                    [] OTHER -> Least(m.qty, Most(shortLow,
                                         settled.low - VenueAfter(m, settled.side))),
       low |-> CASE ~rows -> Unknown
                 [] rows /\ from.who = "own" -> bounds.low
                 [] OTHER -> Most(bounds.low, settled.low),
       high |-> IF rows THEN bounds.high ELSE Unknown,
       took |-> ~rows \/ shortLow > 0,
       ambiguous |-> ambiguous,
       waits |-> ambiguous /\ InFlight > 0,
       holder |-> IF from.who = "venue" THEN IF rows THEN Wildcard ELSE 0 ELSE taker]

JudgedFrom(m, from, bounds, settled) ==
  Judged(m, from, bounds, settled,
         IF rows THEN VenueAfter(m, bounds.side) ELSE m.after,
         IF Named(m) THEN 0 ELSE from.close)

Judge(m) == JudgedFrom(m, Origin(m), ShareBounds(m.at, InFlight), ShareBounds(m.at, 0))

\* The claim a fill makes on its holder, and the close's own fill counted.
Claim(m, j, held) ==
  [deal |-> m.deal, order |-> m.order, own |-> m.kind = "own", qty |-> m.qty, at |-> m.at,
   last |-> m.last, low |-> j.low, high |-> j.high, after |-> j.after, booked |-> j.booked,
   venue |-> m.kind = "venue", event |-> held, settles |-> FALSE]

Verdict(m, net) ==
  [deal |-> m.deal, at |-> m.at, lo |-> net.lo, hi |-> net.hi,
   after |-> VenueAfter(m, InFlightBounds(net, InFlight).side), qty |-> m.qty,
   waits |-> InFlight]

\* The volume a fill takes off the journal: rows of a flat position are closed,
\* a partial close retires what it booked.
Flattens(m) == m.last /\ (m.after = 0 \/ VenueAfter(m, ShareSide) = 0)

\* Mutant: a closed row keeps what was retired of it.
CloseRowsKeepRetired == rows' = FALSE /\ filled' = 0 /\ dispatched' = FALSE /\ UNCHANGED retired

CloseRows == rows' = FALSE /\ filled' = 0 /\ retired' = 0 /\ dispatched' = FALSE

\* The own close's fill left the position open: what does the run hold of it?
StillDispatched(share, live) == dispatched /\ live /\ share > 0

BookClose(m, j) ==
  LET holds == j.holder # 0 /\ oc[j.holder].phase = "sent"
      dropped == j.booked = 0
      drop == Least(j.booked, Share)
      executed == CountExecuted(oc[m.order], m.deal, m.qty)
      counted == IF Named(m)
                 THEN [oc EXCEPT ![m.order] =
                         [executed EXCEPT !.complete = @ \/ m.last, !.live = @ /\ ~m.last]]
                 ELSE oc
      claim == Claim(m, j, IF holds THEN j.booked ELSE 0)
      partial == ~Flattens(m) /\ ~dropped
      kept == [claim EXCEPT !.settles = holds /\ partial /\ j.who = "own"]
  IN  /\ oc' = IF j.holder = 0 THEN counted
               ELSE [counted EXCEPT ![j.holder].claims = Append(@, kept)]
      /\ verdicts' = IF j.waits THEN verdicts \cup {Verdict(m, NetBounds(m.at))} ELSE verdicts
      /\ pending' = IF rows /\ j.who = "external" /\ j.took /\ ~dropped
                    THEN Report(pending, m.deal) ELSE pending
      /\ audited' = IF \/ ~rows /\ j.who = "external"
                       \/ j.ambiguous /\ ~j.waits
                       \/ /\ j.holder # 0 /\ j.who # "venue"
                          /\ oc[j.holder].phase = "unknown"
                    THEN audited \cup {m.deal} ELSE audited
      /\ IF IF dropped THEN j.after = 0 ELSE Flattens(m)
         THEN CloseRows
         ELSE /\ retired' = IF dropped \/ ~rows THEN retired ELSE retired + drop
              /\ UNCHANGED <<rows, filled>>
              /\ dispatched' = IF partial /\ j.who = "own" /\ ~holds
                               THEN StillDispatched(filled - retired', rows) ELSE dispatched
      /\ booked' = IF holds \/ dropped THEN booked ELSE booked + j.booked
      /\ UNCHANGED entry

TranslateClose(m) == BookClose(m, Judge(m))

\* The own entry's fill: its row counts it, unless the answer did.
TranslateEntry(m) ==
  /\ entry' = [entry EXCEPT !.count = EntryVolume]
  /\ filled' = filled + (EntryVolume - entry.count)
  /\ rows' = TRUE
  /\ UNCHANGED <<retired, oc, verdicts, pending, audited, dispatched, booked>>

\* The end of a close's order: nothing more of a named close can execute.
TranslateCancel(m) ==
  /\ oc' = [oc EXCEPT ![m.order].complete = @ \/ oc[m.order].phase = "named"]
  /\ UNCHANGED <<journalVars, dispatched, seen, effects, verdicts, entry, pending, audited, booked>>

\* A fill settles the effect recorded for it; a second copy of its deal ends there.
TranslateFill(m) ==
  /\ effects' = {e \in effects : e.deal # m.deal}
  /\ seen' = seen \cup {m.deal}
  /\ \/ m.deal \notin seen /\ m.kind = "entry" /\ TranslateEntry(m)
     \/ m.deal \notin seen /\ m.kind # "entry" /\ Attributed(m) /\ TranslateClose(m)
     \/ /\ m.deal \in seen \/ (m.kind # "entry" /\ ~Attributed(m))
        /\ UNCHANGED <<journalVars, oc, dispatched, verdicts, entry, pending, audited, booked>>

\* The stream takes the next message; the queued reports follow its event.
Translate ==
  /\ queue # <<>> /\ queue' = Tail(queue)
  /\ IF Head(queue).kind = "cancel" THEN TranslateCancel(Head(queue))
     ELSE TranslateFill(Head(queue))
  /\ reported' = reported /\ UNCHANGED <<venueVars, wire, ans>>

Flush ==
  /\ pending # {}
  /\ reported' = reported \cup pending /\ pending' = {}
  /\ UNCHANGED <<venueVars, wire, ans, queue, journalVars, oc, dispatched, seen, effects, verdicts,
                 entry, audited, booked>>

-----------------------------------------------------------------------------
(* The run closes, and is answered *)

InDispatch == {c \in Closes : oc[c].phase = "sent"}

\* What the run's closes already on their way may still take off its journal.
OnTheWay ==
  Sum({c \in Closes : oc[c].live}, Unresolved)
    + Sum({e \in effects : ~e.counted}, LAMBDA e : -e.delta)

\* One close at a time, in order, of what no other close is taking; venue writes
\* wait for the queued reports.
Send(c, v) ==
  /\ oc[c].phase = "idle" /\ \A b \in 1 .. c - 1 : oc[b].phase \notin {"idle", "sent"}
  /\ pending = {} /\ entry.phase # "flight"
  /\ rows /\ v <= Share - OnTheWay
  /\ oc' = [oc EXCEPT ![c] = [Idle EXCEPT !.phase = "sent", !.live = TRUE, !.vol = v]]
  /\ wire' = [wire EXCEPT ![c] = "sent"]
  /\ dispatched' = TRUE
  /\ UNCHANGED <<venueVars, ans, queue, journalVars, seen, effects, verdicts, entry, judgeVars,
                 booked>>

\* Mutant: the answer's own fill is left out.
LeadNothing(k, ahead) == [low |-> 0, high |-> 0]

\* What the answer's own fill closed before a claim, at least and at most.
Lead(k, ahead) ==
  [low |-> IF ahead.kind # "none" /\ k.at > ahead.at THEN ahead.qty ELSE 0,
   high |-> IF ahead.kind # "none" /\ k.at >= ahead.at THEN ahead.qty ELSE 0]

\* One claim judged again with the credit so far: r carries the credit, what
\* booked too much, the reports and the logged deals.
TookOf(k, share) == Least(k.qty, AtLeast0(AtLeast0(share) - k.after))

Corrected(r, k, taken, low, high) ==
  LET known == k.low # Unknown
      judged == ~k.venue /\ ~(k.own /\ oc[k.order].phase = "named")
  IN  [credit |-> r.credit + k.booked - taken,
       excess |-> Append(r.excess, [deal |-> k.deal, over |-> AtLeast0(k.booked - taken)]),
       queued |-> IF judged /\ known /\ low > 0 THEN Report(r.queued, k.deal) ELSE r.queued,
       logged |-> IF judged /\ (~known \/ (low = 0 /\ high > 0))
                  THEN r.logged \cup {k.deal} ELSE r.logged]

Rejudged(r, k, low, high) ==
  Corrected(r, k, IF k.low = Unknown \/ (k.own /\ ~k.venue /\ oc[k.order].phase = "named")
                  THEN k.booked ELSE low, low, high)

RejudgeClaim(order, lead, r, k) ==
  IF k.own /\ k.order = order
  THEN [r EXCEPT !.credit = IF k.low = Unknown THEN @
                            ELSE @ - AtLeast0(Least(k.qty, k.high + @) - k.booked)]
  ELSE Rejudged(r, k, TookOf(k, k.low + r.credit - lead.high),
                      TookOf(k, k.high + r.credit - lead.low))

Rejudge(claims, order, ahead) ==
  Carried(claims, [credit |-> 0, excess |-> <<>>, queued |-> pending, logged |-> audited],
          LAMBDA r, k : RejudgeClaim(order, Lead(k, ahead), r, k))

NoCuts == [d \in DOMAIN deals |-> 0]

\* Mutant: what was booked too much stays booked.
CutsNothing(r) == NoCuts

\* The credit at the end comes off the claims that booked too much, in order.
Cuts(r) ==
  Carried(r.excess, [left |-> AtLeast0(r.credit), off |-> NoCuts],
          LAMBDA a, x : [left |-> a.left - Least(a.left, x.over),
                         off |-> [a.off EXCEPT ![x.deal] = Least(a.left, x.over)]]).off

\* The held events are delivered less their cuts, and the journal gets the
\* cut volume back.
Released(claims, over) ==
  /\ booked' = booked + SumOf(claims, LAMBDA k : k.event) - over
  /\ retired' = IF rows THEN retired - Least(retired, over) ELSE retired
  /\ dispatched' = IF \E i \in DOMAIN claims : claims[i].event > 0 /\ claims[i].settles
                   THEN StillDispatched(filled - retired', rows) ELSE dispatched
  /\ UNCHANGED <<rows, filled>>

Release(claims, cut) == Released(claims, SumOf(claims, LAMBDA k : Least(cut[k.deal], k.event)))

\* The named close keeps its own claims and counts the answer's fill.
Settled(c, m, own) ==
  LET r == [oc[c] EXCEPT !.phase = "named", !.claims = own]
      isFill == m.kind = "own"
      claimed == isFill /\ \E i \in DOMAIN own : own[i].deal = m.deal
      over == (isFill /\ m.last) \/ \E i \in DOMAIN own : own[i].last
      counted == IF isFill /\ ~claimed THEN CountExecuted(r, m.deal, m.qty) ELSE r
  IN  [counted EXCEPT !.complete = @ \/ over,
                      !.live = ~\E i \in DOMAIN own : own[i].last]

\* Mutant: the events stay with the claims.
ClearedNot(claims) == claims

Cleared(claims) == [i \in DOMAIN claims |-> [claims[i] EXCEPT !.event = 0]]

\* The claims that turned out to be of the close's own order.
OwnClaims(c, claims) ==
  Carried(claims, <<>>, LAMBDA s, k : IF k.own /\ k.order = c THEN Append(s, k) ELSE s)

\* The answer's fill, unless the close claimed the fill's push already.
Ahead(claims, m) ==
  IF m.kind = "own" /\ ~\E i \in DOMAIN claims : claims[i].deal = m.deal THEN m ELSE NoAnswer

Settle(c, m, claims, judged) ==
  /\ oc' = [oc EXCEPT ![c] =
              IF m.kind = "refused" THEN [Idle EXCEPT !.phase = "refused"]
              ELSE Settled(c, m, OwnClaims(c, Cleared(claims)))]
  /\ pending' = judged.queued /\ audited' = judged.logged
  /\ Release(claims, Cuts(judged))

\* The answer names the close's order, or the venue refused it.
Answered(c, m) ==
  /\ oc[c].phase = "sent" /\ m.kind # "none"
  /\ IF m.kind = "own" THEN Pushes(m) ELSE UNCHANGED queue
  /\ ans' = [ans EXCEPT ![c] = NoAnswer]
  /\ Settle(c, m, oc[c].claims,
            Rejudge(oc[c].claims, IF m.kind = "refused" THEN 0 ELSE c, Ahead(oc[c].claims, m)))
  /\ effects' = IF m.kind = "own" /\ rows /\ filled - retired' # 0 /\ m.deal \notin seen
                THEN effects \cup {[delta |-> -m.qty, counted |-> FALSE, at |-> m.at,
                                    deal |-> m.deal]}
                ELSE effects
  /\ UNCHANGED <<venueVars, wire, seen, verdicts, entry, reported>>

Answer(c) == Answered(c, ans[c])

\* Its answer is lost: the claims are booked as they are, and logged.
Timeout(c) ==
  LET claims == oc[c].claims
      foreign == {claims[i].deal : i \in {j \in DOMAIN claims : ~claims[j].venue}}
  IN  /\ oc[c].phase = "sent" /\ ans[c].kind = "none"
      /\ oc' = [oc EXCEPT ![c].phase = "unknown", ![c].claims = Cleared(claims)]
      /\ audited' = audited \cup foreign
      /\ Release(claims, NoCuts)
      /\ UNCHANGED <<venueVars, wire, ans, queue, seen, effects, verdicts, entry, pending, reported>>

\* The grace of a close outlasts its order and the pushes on their way.
GraceExpires(c) ==
  /\ oc[c].live /\ oc[c].phase = "unknown"
  /\ wire[c] = "over" /\ queue = <<>>
  /\ oc' = [oc EXCEPT ![c].live = FALSE]
  /\ UNCHANGED <<venueVars, wire, ans, queue, journalVars, dispatched, seen, effects, verdicts,
                 entry, judgeVars, booked>>

-----------------------------------------------------------------------------
(* The own entry, and the closes held for its answer *)

SendEntry ==
  /\ Entries = 1 /\ entry.phase = "idle" /\ InDispatch = {}
  /\ pending = {} /\ vol > 0
  /\ entry' = [entry EXCEPT !.phase = "flight", !.venue = "sent"]
  /\ UNCHANGED <<venueVars, wire, ans, queue, journalVars, oc, dispatched, seen, effects, verdicts,
                 judgeVars, booked>>

\* A held close is judged with what the entry's fill turned out to be.
HeldTook(v, share) == Least(v.qty, AtLeast0(share - v.after))

JudgeAll(took, unsure) ==
  /\ pending' = IF pending = {} /\ took # {}
                THEN {(CHOOSE v \in took : \A w \in took : v.deal <= w.deal).deal} ELSE pending
  /\ audited' = audited \cup {v.deal : v \in unsure}
  /\ verdicts' = {}

JudgeHeld(applied, unknown) ==
  LET of(v) == BoundsOfNet(v.lo + applied[v], v.hi + applied[v], unknown[v])
  IN  JudgeAll({v \in verdicts : HeldTook(v, of(v).low) > 0},
               {v \in verdicts : HeldTook(v, of(v).low) = 0 /\ HeldTook(v, of(v).high) > 0})

Nil == [v \in verdicts |-> 0]

EntryAnswered ==
  LET m == entry.answer
      isFill == m.kind = "entry"
      fresh == isFill /\ entry.count = 0
  IN  /\ entry.phase = "flight" /\ m.kind # "none"
      /\ entry' = [entry EXCEPT !.phase = "done", !.answer = NoAnswer,
                                !.count = IF isFill THEN EntryVolume ELSE @]
      /\ IF isFill THEN Pushes(m) ELSE UNCHANGED queue
      /\ JudgeHeld([v \in verdicts |-> IF isFill /\ m.at < v.at THEN v.waits ELSE 0],
                   [v \in verdicts |-> IF isFill /\ m.at = v.at THEN v.waits ELSE 0])
      /\ filled' = IF fresh THEN filled + EntryVolume ELSE filled
      /\ rows' = (rows \/ fresh)
      /\ effects' = IF isFill /\ m.deal \notin seen
                    THEN effects \cup {[delta |-> EntryVolume, counted |-> TRUE, at |-> m.at,
                                        deal |-> m.deal]}
                    ELSE effects
      /\ UNCHANGED <<venueVars, wire, ans, retired, oc, dispatched, seen, reported, booked>>

EntryTimesOut ==
  /\ entry.phase = "flight" /\ entry.answer.kind = "none"
  /\ entry' = [entry EXCEPT !.phase = "unknown"]
  /\ JudgeHeld(Nil, [v \in verdicts |-> v.waits])
  /\ UNCHANGED <<venueVars, wire, ans, queue, journalVars, oc, dispatched, seen, effects, reported,
                 booked>>

-----------------------------------------------------------------------------

Venue ==
  \/ \E c \in Closes : VenueHandles(c) \/ VenueFillsClose(c) \/ VenueEndsClose(c)
  \/ ForeignCloses \/ ForeignAdds \/ VenueFires
  \/ VenueHandlesEntry \/ VenueFillsEntry

Run ==
  \/ Translate \/ Flush
  \/ \E c \in Closes : \/ \E v \in 1 .. Mine0 + EntryVolume : Send(c, v)
                       \/ Answer(c) \/ Timeout(c) \/ GraceExpires(c)
  \/ SendEntry \/ EntryAnswered \/ EntryTimesOut

Next == Venue \/ Run

Spec == Init /\ [][Next]_vars

-----------------------------------------------------------------------------

Deals == 1 .. Len(deals)

\* Journal, claims and reports are of their types.
TypeOK ==
  /\ vol \in Nat /\ mine \in 0 .. vol /\ rows \in BOOLEAN /\ dispatched \in BOOLEAN
  /\ filled \in Nat /\ retired \in 0 .. filled
  /\ \A c \in Closes :
       /\ oc[c].phase \in {"idle", "sent", "named", "unknown", "refused"}
       /\ oc[c].live \in BOOLEAN /\ oc[c].vol \in Nat /\ oc[c].exec \in Nat
       /\ wire[c] \in {"none", "sent", "working", "over"} /\ left[c] \in Nat
  /\ seen \subseteq Deals /\ pending \subseteq Deals /\ reported \subseteq Deals
  /\ audited \subseteq Deals /\ booked \in Nat
  /\ entry.phase \in {"idle", "flight", "done", "unknown"} /\ entry.count \in {0, EntryVolume}

\* A report halts the run, so it is made only for a close of someone else's, and
\* one that truly took part of the bot's share unless an earlier deal was already
\* logged as undecided: two closes of the run, the first of unknown outcome, can
\* leave the journal above the true share.
ReportsTrue ==
  \A d \in pending \cup reported :
    /\ deals[d].kind = "ext"
    /\ deals[d].took > 0 \/ \E e \in audited : e < d

\* Nothing is on its way and nothing waits.
Quiet ==
  /\ queue = <<>> /\ InDispatch = {} /\ entry.phase # "flight"
  /\ \A c \in Closes : wire[c] \notin {"sent", "working"}
  /\ entry.venue \notin {"sent", "working"}

\* No close of unknown outcome and nothing logged as undecided.
Decided == audited = {} /\ \A c \in Closes : oc[c].phase # "unknown"

Lost == Sum(Deals, LAMBDA d : deals[d].took)

\* Only the run closed anything, or no close of the run executed.
OneParty ==
  \/ \A d \in Deals : deals[d].kind \in {"own", "add", "entry"}
  \/ /\ \A c \in Closes : oc[c].phase \in {"idle", "refused"}
     /\ entry.phase = "idle" /\ pending \cup reported = {}

\* Once nothing is on its way and nothing was logged as undecided, the engine was
\* never told of more than the bot's share of a position still open lost, and
\* the journal share is never below the true one.  Where the run's own closes
\* cross those of others, the venue's or its own entry, the evidence may leave a
\* close booked short, which the core's position check repairs; where they do
\* not, the journal and the engine are exact.
BookMatchesVenue ==
  Quiet /\ Decided /\ rows =>
    /\ booked <= Lost /\ Share >= mine
    /\ OneParty => Share = mine /\ booked = Lost

\* A close by someone else that took of the bot's share is reported or logged
\* by the time nothing is on its way.
ForeignCloseNoticed ==
  Quiet /\ (\E d \in Deals : deals[d].kind = "ext" /\ deals[d].took > 0)
    => pending \cup reported \cup audited # {}

\* Nothing waits for an answer that can no longer come: an event is held only by
\* a close in dispatch, a verdict only while the own entry is.
HeldIsAwaited ==
  /\ \A c \in Closes : oc[c].phase # "sent" =>
       \A i \in DOMAIN oc[c].claims : oc[c].claims[i].event = 0
  /\ verdicts # {} => entry.phase = "flight"
=============================================================================
