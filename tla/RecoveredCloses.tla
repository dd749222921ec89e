-------------------------- MODULE RecoveredCloses --------------------------
(***************************************************************************)
(* The closes of a run's position that the event stream missed: how a      *)
(* reconcile pass and a restart find them in the deal history, whose       *)
(* closes they were, what they took of the bot's share, and how the        *)
(* verdict survives a crash and a late copy of the push.                   *)
(*                                                                         *)
(* One buy position on a NETTING account that others trade too.  A deal    *)
(* is known by its index; its push waits on the wire in order, and a lost  *)
(* connection drops all that wait.  Volumes are small naturals.  Own       *)
(* closes are answered at once and own entries counted at once: what an    *)
(* open dispatch adds is OwnCloses.  A pass judges only deals older than   *)
(* the clock skew, so it is one step; the push of such a deal may still be *)
(* on its way.                                                             *)
(***************************************************************************)
EXTENDS Integers, Sequences, FiniteSets, Functions

CONSTANTS Mine0,      \* the volume of the bot's first entry
          Others0,    \* what others held of the position before it
          NDeals,     \* bound: deals after those
          Losses,     \* bound: lost connections
          Crashes,    \* bound: crashes
          Resumes,    \* bound: operator resumes
          CrashUnseen, \* may the process stop before it saw the fill of an own close?
          GoneFirst   \* may a position close unseen before its startup shrink is judged?

ASSUME ShareAssumption == Mine0 \in Nat \ {0} /\ Others0 \in Nat
ASSUME BoundAssumption ==
  /\ NDeals \in Nat /\ Losses \in Nat /\ Crashes \in Nat /\ Resumes \in Nat
  /\ CrashUnseen \in BOOLEAN /\ GoneFirst \in BOOLEAN

VARIABLES
  vol,         \* venue: the volume of the position
  mine,        \* venue: the bot's true share of it
  deals,       \* venue: the deal history of the position
  wire,        \* venue: the deals whose push is on its way
  rows,        \* journal: how many live entry rows hold the position
  filled, retired,         \* journal: executed volume, and the part retired
  judged,      \* journal: per deal, the recorded origin of a judged close
  waiting,     \* journal: the deals of reports not handled yet
  handled,     \* journal: the deals of handled reports
  audited,     \* journal: deals an ERROR was logged for
  covered,     \* history: <<d, e>> where d was judged external while the report of e waited
  shrink,      \* journal: the startup shrink not judged yet
  excused,     \* journal: do the rows carry the mark of an operator resume?
  accepted,    \* journal: the deals an operator resume accepted
  phase,       \* is the process up?
  seen,        \* _seen_deal_ids
  unresolved,  \* own closes of this process whose fill it has not seen
  watch,       \* _shrink_watch: the shortfall the last pass saw
  tried,       \* _shrink_judged
  cover,       \* _closes_covered_until: deals up to this one
  marked,      \* _resume_accepted_positions: is the position in it?
  book,        \* the engine's volume of the position
  losses, crashes, resumes

venueVars == <<vol, mine, deals>>
shareVars == <<rows, filled, retired>>
verdictVars == <<judged, waiting, handled, audited, covered>>
resumeVars == <<excused, accepted>>
memoryVars == <<seen, unresolved, watch, tried, cover, marked>>
boundVars == <<losses, crashes, resumes>>
vars == <<venueVars, wire, shareVars, verdictVars, shrink, resumeVars, phase, memoryVars, book,
          boundVars>>

AtLeast0(n) == IF n > 0 THEN n ELSE 0
Least(a, b) == IF a < b THEN a ELSE b
Most(a, b) == IF a > b THEN a ELSE b

NoShortfall == <<>>
Foreign == {"api", "plain"}     \* with and without a client order id

Deal(by, opened, closed, after, took) ==
  [by |-> by, opened |-> opened, closed |-> closed, after |-> after, took |-> took]

Init ==
  /\ vol = Mine0 + Others0 /\ mine = Mine0
  /\ deals = (IF Others0 = 0 THEN <<>> ELSE <<Deal("others", Others0, 0, Others0, 0)>>)
             \o <<Deal("entry", Mine0, 0, Mine0 + Others0, 0)>>
  /\ wire = <<>>
  /\ rows = 1 /\ filled = Mine0 /\ retired = 0
  /\ judged = [d \in DOMAIN deals |-> "no"]
  /\ waiting = {} /\ handled = {} /\ audited = {} /\ covered = {}
  /\ shrink = 0 /\ accepted = {} /\ excused = FALSE
  /\ phase = "up"
  /\ seen = {Len(deals)} /\ unresolved = {} /\ watch = NoShortfall /\ tried = {} /\ cover = 0
  /\ marked = FALSE
  /\ book = Mine0
  /\ losses = 0 /\ crashes = 0 /\ resumes = 0

\* The bot's journal share; it has none when no live row is linked.
Share == filled - retired
FirstEntry == IF Others0 = 0 THEN 1 ELSE 2
Closing == {d \in DOMAIN deals : deals[d].closed > 0}
OwnEntries == {d \in DOMAIN deals : deals[d].by = "entry"}
OpenedBy(S) == SumFunctionOnSet([d \in DOMAIN deals |-> deals[d].opened], S)
ClosedBy(S) == SumFunctionOnSet([d \in DOMAIN deals |-> deals[d].closed], S)

\* Mutant: an own close whose fill was not seen has not executed.
LowNowIgnoring == Share

\* The share less the own closes whose fill was never seen: they may have executed.
LowNow == AtLeast0(Share - ClosedBy(unresolved \ seen))

-----------------------------------------------------------------------------
(* The venue *)

MoreDeals == Len(deals) < FirstEntry + NDeals

\* A deal of the position; a push of it is sent while the process is connected.
Execute(deal) ==
  /\ deals' = Append(deals, deal)
  /\ judged' = Append(judged, "no")
  /\ vol' = deal.after
  /\ mine' = (IF deal.by = "entry" THEN mine + deal.opened ELSE mine) - deal.took

Push(d) == wire' = IF phase = "up" THEN Append(wire, d) ELSE wire

\* Others close their own exposure first.
ForeignClose ==
  /\ MoreDeals
  /\ \E by \in Foreign, v \in 1 .. vol :
       Execute(Deal(by, 0, v, vol - v, AtLeast0(v - (vol - mine))))
  /\ Push(Len(deals) + 1)
  /\ UNCHANGED <<shareVars, waiting, handled, audited, covered, shrink, resumeVars, phase,
                 memoryVars, book, boundVars>>

\* An entry of another party on the netted position: no push of it concerns the run.
OthersAdd ==
  /\ vol > 0 /\ MoreDeals
  /\ Execute(Deal("others", 1, 0, vol + 1, 0))
  /\ UNCHANGED <<wire, shareVars, waiting, handled, audited, covered, shrink, resumeVars, phase,
                 memoryVars, book, boundVars>>

\* A close of the run of what it has left, answered with its order: it waits for its
\* own fill.
OwnClose ==
  /\ phase = "up" /\ rows > 0 /\ MoreDeals
  /\ \E v \in 1 .. Least(vol, LowNow) :
       Execute(Deal("own", 0, v, vol - v, Least(v, mine)))
  /\ unresolved' = unresolved \union {Len(deals) + 1}
  /\ Push(Len(deals) + 1)
  /\ UNCHANGED <<shareVars, waiting, handled, audited, covered, shrink, resumeVars, phase, seen,
                 watch, tried, cover, marked, book, boundVars>>

\* A further own entry merged onto the position by a row of its own.
OwnEntry ==
  /\ phase = "up" /\ rows > 0 /\ vol > 0 /\ wire = <<>> /\ MoreDeals
  /\ Execute(Deal("entry", 1, 0, vol + 1, 0))
  /\ seen' = seen \union {Len(deals) + 1}
  /\ rows' = rows + 1 /\ filled' = filled + 1 /\ book' = book + 1
  /\ UNCHANGED <<wire, retired, waiting, handled, audited, covered, shrink, resumeVars, phase,
                 unresolved, watch, tried, cover, marked, boundVars>>

\* The connection is lost, and with it the pushes that had not been received.
Lose ==
  /\ phase = "up" /\ wire # <<>> /\ losses < Losses
  /\ wire' = <<>> /\ losses' = losses + 1
  /\ UNCHANGED <<venueVars, shareVars, verdictVars, shrink, resumeVars, phase, memoryVars, book,
                 crashes, resumes>>

\* The process stops: what is not journalled is gone.
Die ==
  /\ crashes < Crashes /\ (CrashUnseen \/ unresolved = {})
  /\ phase' = "down" /\ wire' = <<>>
  /\ seen' = {} /\ unresolved' = {} /\ watch' = NoShortfall /\ tried' = {} /\ cover' = 0
  /\ marked' = FALSE
  /\ crashes' = crashes + 1

Crash ==
  /\ phase = "up" /\ Die
  /\ UNCHANGED <<venueVars, shareVars, verdictVars, shrink, resumeVars, book, losses, resumes>>

-----------------------------------------------------------------------------
(* The verdict on recovered closes *)

\* What a close takes of a share when the venue holds `after` once it executed.
TakeOf(d, share) ==
  IF deals[d].by = "own" THEN Least(deals[d].closed, share)
  ELSE AtLeast0(Least(deals[d].closed, share - deals[d].after))

\* The window holds the whole life of the position: the share before each deal, from zero on.
NextShare(d, share) ==
  CASE d \in Closing    -> share - TakeOf(d, share)
    [] d \in OwnEntries -> share + deals[d].opened
    [] OTHER            -> share

ShareBefore ==
  LET s[d \in 1 .. Len(deals) + 1] == IF d = 1 THEN 0 ELSE NextShare(d - 1, s[d - 1]) IN s

ExactTakes(pend, before) ==
  [d \in pend |-> [low |-> TakeOf(d, before[d]), high |-> TakeOf(d, before[d])]]

\* Otherwise the share at a pending deal is bounded from the share now and
\* what the deals before it took of it.
LowShare(d, share, takenHigh) ==
  AtLeast0(share - OpenedBy({e \in OwnEntries : e > d}) - takenHigh)
HighShare(d, share, takenLow, pend, counted, first) ==
  AtLeast0(share - OpenedBy({e \in OwnEntries : e > d /\ e \in counted})
             + ClosedBy({e \in Closing \ pend : e > d})
             + OpenedBy({e \in OwnEntries : first <= e /\ e < d /\ e \notin counted})
             - takenLow)

NextTaken(d, t, share, pend, counted, first) ==
  IF d \notin pend THEN t
  ELSE [low  |-> t.low + TakeOf(d, LowShare(d, share, t.high)),
        high |-> t.high + TakeOf(d, HighShare(d, share, t.low, pend, counted, first))]

NoneTaken == [low |-> 0, high |-> 0]

TakenBefore(share, pend, counted, first) ==
  LET t[d \in 1 .. Len(deals) + 1] ==
        IF d = 1 THEN NoneTaken ELSE NextTaken(d - 1, t[d - 1], share, pend, counted, first)
  IN  t

BoundedTakes(pend, t) ==
  [d \in pend |-> [low |-> t[d + 1].low - t[d].low, high |-> t[d + 1].high - t[d].high]]

\* Mutant: a deal judged before is judged again.
PendingAgain(first) == {d \in Closing : d >= first}

\* The closing deals of the window no process of the run attributed or judged yet.
Pending(first) == {d \in Closing : d >= first /\ judged[d] = "no"}

\* Mutant: what the share was at a deal is always bounded from the share now.
ReplayBoundedOnly(first, share, counted) ==
  BoundedTakes(Pending(first), TakenBefore(share, Pending(first), counted, first))

\* _replay_share_closes: exact when the window starts from an empty position
\* and the origin of every closing deal is known.
ReplayShareCloses(first, share, counted) ==
  IF first = 1 THEN ExactTakes(Pending(first), ShareBefore)
  ELSE BoundedTakes(Pending(first), TakenBefore(share, Pending(first), counted, first))

Origin(d) == CASE deals[d].by = "own" -> "own"
               [] deals[d].by = "api" -> "external"
               [] deals[d].by = "plain" -> "unattributed"

Took(takes) == {d \in DOMAIN takes : takes[d].low > 0}
MayHaveTaken(takes) == {d \in DOMAIN takes : takes[d].low = 0 /\ takes[d].high > 0}
TakenBy(takes, S) == SumFunctionOnSet([d \in DOMAIN takes |-> takes[d].low], S)
Taken(takes) == TakenBy(takes, DOMAIN takes)

MarkJudged(marks) ==
  judged' = [d \in DOMAIN judged |-> IF d \in DOMAIN marks THEN marks[d] ELSE judged[d]]

External(takes) == {d \in Took(takes) : Origin(d) = "external"}

Audit(takes) ==
  audited' = audited \union {d \in Took(takes) : Origin(d) = "unattributed"}
                     \union {d \in MayHaveTaken(takes) : Origin(d) # "own"}

Marks(takes) == [d \in DOMAIN takes |-> Origin(d)]

\* A report of the position that waits covers every close of it: no further one is queued.
Queued(takes) == IF waiting = {} THEN External(takes) ELSE {}

MarkTakes(takes) ==
  /\ MarkJudged(Marks(takes))
  /\ covered' = covered \union (External(takes) \X waiting)

\* The reports of a verdict are journalled, its deals marked, and once the
\* journal and the engine follow the reports are handled.
JudgeRecovered(takes) ==
  /\ Audit(takes) /\ MarkTakes(takes)
  /\ handled' = handled \union Queued(takes) /\ UNCHANGED waiting

\* Mutant: the deals are marked before their reports are journalled.
CutJudgementMarked(takes) ==
  /\ Audit(takes) /\ MarkTakes(takes)
  /\ waiting' = waiting \/ waiting' = waiting \union Queued(takes)
  /\ UNCHANGED handled
  /\ Die
  /\ UNCHANGED <<venueVars, shareVars, shrink, resumeVars, book, losses, resumes>>

\* The process stops after the reports, or after the deals were marked.
CutJudgement(takes) ==
  /\ waiting' = waiting \union Queued(takes) /\ UNCHANGED handled
  /\ Audit(takes)
  /\ UNCHANGED <<judged, covered>> \/ MarkTakes(takes)
  /\ Die
  /\ UNCHANGED <<venueVars, shareVars, shrink, resumeVars, book, losses, resumes>>

-----------------------------------------------------------------------------
(* The event stream *)

\* What a pushed close is booked for, and whether the share may have been taken.
Booked(d, low) ==
  IF deals[d].by = "own" THEN Least(deals[d].closed, Share) ELSE TakeOf(d, low)

\* Live, a close that is neither the run's nor the venue's is external.
LiveOrigin(d) == IF deals[d].by = "own" THEN "own" ELSE "external"
Undecided(d, low) ==
  LiveOrigin(d) = "external" /\ TakeOf(d, low) = 0 /\ TakeOf(d, Share) > 0

\* Mutant: what a pass retired from the deal history is not remembered.
LateSeen(d) == d \in seen

\* A late copy: delivered already, or retired by a pass from the deal history.
Late(d) == d \in seen \/ d <= cover

DropPush ==
  /\ phase = "up" /\ wire # <<>>
  /\ Late(Head(wire)) \/ rows = 0
  /\ wire' = Tail(wire)
  /\ seen' = seen \union {Head(wire)}
  /\ UNCHANGED <<venueVars, shareVars, verdictVars, shrink, resumeVars, phase, unresolved, watch,
                 tried, cover, marked, book, boundVars>>

\* An external close that took part of the share is reported, then marked; one
\* the evidence cannot decide is left to the deal history.
PushReport(d, low) == IF LiveOrigin(d) = "external" /\ TakeOf(d, low) > 0 THEN {d} ELSE {}

MarkPush(d, low) ==
  IF Undecided(d, low) THEN audited' = audited \union {d} /\ UNCHANGED judged
  ELSE judged' = [judged EXCEPT ![d] = LiveOrigin(d)] /\ UNCHANGED audited

\* The rows of a flat position are closed; else the part the close took is retired,
\* and once the run's own close took all of it nothing is watched on the position.
BookClose(d, volume) ==
  /\ book' = book - volume
  /\ IF deals[d].after = 0
     THEN rows' = 0 /\ watch' = NoShortfall /\ UNCHANGED <<filled, retired>>
     ELSE /\ retired' = retired + Least(volume, Share)
          /\ watch' = IF deals[d].by = "own" /\ volume = Share THEN NoShortfall ELSE watch
          /\ UNCHANGED <<rows, filled>>

JudgePush(d, low) ==
  /\ MarkPush(d, low)
  /\ handled' = handled \union PushReport(d, low) /\ UNCHANGED <<waiting, covered>>
  /\ BookClose(d, Booked(d, low))
  /\ seen' = seen \union {d} /\ unresolved' = unresolved \ {d}
  /\ UNCHANGED <<venueVars, shrink, resumeVars, phase, tried, cover, marked, boundVars>>

\* The process stops after the report was journalled, or after the mark.
CutPush(d, low) ==
  /\ waiting' = waiting \union PushReport(d, low) /\ UNCHANGED <<handled, covered>>
  /\ (UNCHANGED <<judged, audited>>) \/ MarkPush(d, low)
  /\ Die
  /\ UNCHANGED <<venueVars, shareVars, shrink, resumeVars, book, losses, resumes>>

TakePush ==
  /\ phase = "up" /\ wire # <<>> /\ rows > 0 /\ ~Late(Head(wire))
  /\ \/ JudgePush(Head(wire), LowNow) /\ wire' = Tail(wire)
     \/ CutPush(Head(wire), LowNow)

-----------------------------------------------------------------------------
(* The reconcile pass *)

Open == vol > 0 /\ rows > 0
Shortfall == <<vol, Share>>

\* Nothing to judge: the venue holds the share.
PassClear ==
  /\ phase = "up" /\ (watch # NoShortfall \/ marked)
  /\ ~Open \/ (shrink = 0 /\ vol >= Share)
  /\ watch' = NoShortfall /\ marked' = FALSE
  /\ UNCHANGED <<venueVars, wire, shareVars, verdictVars, shrink, resumeVars, phase, seen,
                 unresolved, tried, cover, book, boundVars>>

\* Mutant: an own close whose fill was not seen keeps the share unsettled.
JudgeableSettled ==
  phase = "up" /\ Open /\ (shrink > 0 \/ vol < Share) /\ unresolved \subseteq seen

Judgeable == phase = "up" /\ Open /\ (shrink > 0 \/ vol < Share)

\* The first settled pass after an operator resume: the venue as the operator accepted it.
PassAccept ==
  /\ Judgeable /\ marked
  /\ marked' = FALSE /\ cover' = Len(deals)
  /\ retired' = retired + AtLeast0(Share - vol)
  /\ UNCHANGED <<venueVars, wire, rows, filled, verdictVars, shrink, resumeVars, phase, seen,
                 unresolved, watch, tried, book, boundVars>>

\* A shrink a restart found: judged against the share before it; what the deals
\* took beyond the baseline is retired.
PassStartup ==
  /\ Judgeable /\ ~marked /\ shrink > 0
  /\ \E takes \in {ReplayShareCloses(1, Share + shrink, seen)} :
     \/ /\ JudgeRecovered(takes)
        /\ shrink' = 0 /\ cover' = Len(deals)
        /\ retired' = retired + Least(AtLeast0(Taken(takes) - shrink), Share)
        /\ unresolved' = unresolved \ DOMAIN takes
        /\ UNCHANGED <<venueVars, wire, rows, filled, resumeVars, phase, seen, watch, tried, marked,
                       book, boundVars>>
     \/ CutJudgement(takes)

\* The shortfall must show on two consecutive passes.
PassWatch ==
  /\ Judgeable /\ ~marked /\ shrink = 0 /\ Shortfall \notin tried /\ watch # Shortfall
  /\ watch' = Shortfall
  /\ UNCHANGED <<venueVars, wire, shareVars, verdictVars, shrink, resumeVars, phase, seen,
                 unresolved, tried, cover, marked, book, boundVars>>

PassJudge ==
  /\ Judgeable /\ ~marked /\ shrink = 0 /\ Shortfall \notin tried /\ watch = Shortfall
  /\ \E takes \in {ReplayShareCloses(1, Share, seen)} :
     \/ /\ JudgeRecovered(takes)
        /\ book' = book - TakenBy(takes, Took(takes) \ seen)
        /\ seen' = seen \union Took(takes)
        /\ tried' = tried \union {Shortfall} /\ watch' = NoShortfall /\ cover' = Len(deals)
        /\ retired' = retired + Least(Most(Share - vol, Taken(takes)), Share)
        /\ unresolved' = unresolved \ DOMAIN takes
        /\ UNCHANGED <<venueVars, wire, rows, filled, shrink, resumeVars, phase, marked, boundVars>>
     \/ CutJudgement(takes)

\* A startup shrink of a position that closed, or whose rows were retired, before
\* a settled pass judged it: from the position's whole history.
PassUnshared ==
  /\ phase = "up" /\ shrink > 0 /\ ~Open
  /\ \E takes \in {ReplayShareCloses(1, (IF rows > 0 THEN Share ELSE 0) + shrink, seen)} :
     \/ /\ JudgeRecovered(takes)
        /\ shrink' = 0 /\ cover' = Len(deals)
        /\ unresolved' = unresolved \ DOMAIN takes
        /\ UNCHANGED <<venueVars, wire, shareVars, resumeVars, phase, seen, watch, tried,
                       marked, book, boundVars>>
     \/ CutJudgement(takes)

\* The position was missing for the grace: its history from the run's first entry on.
PassGone ==
  /\ phase = "up" /\ vol = 0 /\ rows > 0 /\ ~excused /\ (GoneFirst \/ shrink = 0)
  /\ \E takes \in {ReplayShareCloses(FirstEntry, Share, seen \union {FirstEntry})} :
     \/ /\ JudgeRecovered(takes)
        /\ book' = book - TakenBy(takes, Took(takes) \ seen)
        /\ seen' = seen \union Closing
        /\ rows' = 0
        /\ unresolved' = unresolved \ DOMAIN takes
        /\ UNCHANGED <<venueVars, wire, filled, retired, shrink, resumeVars, phase, watch, tried,
                       cover, marked, boundVars>>
     \/ CutJudgement(takes)

\* After an operator resume the disappearance is accepted instead.
PassGoneAccepted ==
  /\ phase = "up" /\ vol = 0 /\ rows > 0 /\ excused
  /\ MarkJudged([d \in Pending(1) |-> "accepted"])
  /\ seen' = seen \union Closing /\ rows' = 0
  /\ UNCHANGED <<venueVars, wire, filled, retired, waiting, handled, audited, covered, shrink,
                 resumeVars, phase, unresolved, watch, tried, cover, marked, book, boundVars>>

-----------------------------------------------------------------------------
(* A restart *)

\* The part of the share the venue no longer holds is retired by the startup
\* baseline when one row holds the position, and judged later.
Baseline == IF rows = 1 THEN AtLeast0(Share - vol) ELSE 0

\* The stream starts with the reports an earlier process left unhandled.
Began(reports) ==
  /\ phase = "down" /\ phase' = "up"
  /\ handled' = handled \union waiting \union reports /\ waiting' = {}
  /\ UNCHANGED <<venueVars, wire, filled, unresolved, watch, tried, cover, losses, crashes>>

Restart ==
  /\ Began({})
  /\ rows = 0 \/ (vol > 0 /\ ~excused)
  /\ retired' = retired + Baseline /\ shrink' = shrink + Baseline
  /\ book' = IF rows > 0 THEN filled - retired' ELSE 0
  /\ UNCHANGED <<rows, judged, audited, covered, resumeVars, seen, marked, resumes>>

\* The operator resumed the run, now or before an earlier start: its rows are
\* marked, and the venue is accepted as it stands.
Resume == IF excused THEN UNCHANGED resumes ELSE resumes < Resumes /\ resumes' = resumes + 1

\* The closes no process had judged: what the operator accepts with the venue.
Unhandled == {d \in Closing : judged[d] = "no"} \ waiting

ResumedRestart ==
  /\ vol > 0 /\ rows > 0
  /\ Began({}) /\ Resume
  /\ retired' = retired + Baseline /\ shrink' = 0 /\ marked' = TRUE
  /\ excused' = TRUE
  /\ accepted' = accepted \union Unhandled
  /\ book' = filled - retired'
  /\ UNCHANGED <<rows, judged, audited, covered, seen>>

\* The position closed while the process was down: its close is judged first;
\* a row whose history cannot be read stays live.
RestartUnread ==
  /\ vol = 0 /\ rows > 0 /\ ~excused
  /\ Began({})
  /\ book' = Share
  /\ UNCHANGED <<rows, retired, judged, audited, covered, shrink, resumeVars, seen, marked, resumes>>

Retire ==
  /\ seen' = Closing /\ rows' = 0 /\ book' = 0
  /\ UNCHANGED <<retired, shrink, resumeVars, marked, resumes>>

\* The reports an earlier process left are loaded before its deals are judged; where
\* another row's judgement loaded them before, the position is not judged at all.
RestartGone ==
  /\ phase = "down" /\ vol = 0 /\ rows > 0 /\ ~excused /\ (GoneFirst \/ shrink = 0)
  /\ \/ \E takes \in {ReplayShareCloses(FirstEntry, Share, {FirstEntry})} :
          \/ Began(Queued(takes)) /\ Audit(takes) /\ MarkTakes(takes) /\ Retire
          \/ CutJudgement(takes)
     \/ waiting # {} /\ Began({}) /\ Retire /\ UNCHANGED <<judged, audited, covered>>

\* After a resume the disappearance is accepted, and no history read.
RestartGoneAccepted ==
  /\ vol = 0 /\ rows > 0
  /\ Began({}) /\ Resume
  /\ shrink' = 0 /\ excused' = TRUE
  /\ accepted' = accepted \union Unhandled
  /\ rows' = 0 /\ book' = 0
  /\ UNCHANGED <<retired, judged, audited, covered, seen, marked>>

-----------------------------------------------------------------------------
Stream == DropPush \/ TakePush
Pass == \/ PassClear \/ PassAccept \/ PassStartup \/ PassWatch \/ PassJudge
        \/ PassUnshared \/ PassGone \/ PassGoneAccepted
Venue == ForeignClose \/ OthersAdd
Start == Restart \/ ResumedRestart \/ RestartUnread \/ RestartGone \/ RestartGoneAccepted

Next == Venue \/ OwnClose \/ OwnEntry \/ Lose \/ Crash \/ Stream \/ Pass \/ Start

Spec == Init /\ [][Next]_vars

\* Does a pass find anything to do?  The histories it reads are conclusive in the end.
PassDue ==
  /\ phase = "up"
  /\ \/ (watch # NoShortfall \/ marked) /\ (~Open \/ (shrink = 0 /\ vol >= Share))
     \/ Judgeable /\ (marked \/ shrink > 0 \/ Shortfall \notin tried)
     \/ shrink > 0 /\ ~Open
     \/ vol = 0 /\ rows > 0 /\ (excused \/ GoneFirst \/ shrink = 0)

\* The stream waits for pushes and runs a pass every few seconds; a process that
\* stopped is started again.  PassDue is ENABLED Pass, spelled out.
FairPass == []<>~PassDue \/ []<><<Pass>>_vars
FairSpec == Spec /\ WF_vars(Stream) /\ WF_vars(Start) /\ FairPass

-----------------------------------------------------------------------------
(* The inductive invariant behind the properties *)

Parties == {"others", "entry", "own"} \union Foreign
Origins == {"no", "own", "external", "unattributed", "accepted"}

\* No operator resume, and no other party added to the position after a close: what
\* others add hides a take from the replay of a position whose start the window misses.
Undisturbed == ~excused /\ \A d \in Closing, e \in DOMAIN deals : deals[e].by = "others" => e < d

Live == rows > 0 /\ Undisturbed

\* What a set of deals took of the run's share.
TookBy(S) == SumFunctionOnSet([d \in DOMAIN deals |-> deals[d].took], S)

\* The pushes on their way that the stream will judge.
Arriving == {d \in Range(wire) : ~Late(d)}

OwnPending == {d \in Pending(1) : deals[d].by = "own"}

DealRecord == [by : Parties, opened : Nat, closed : Nat, after : Nat, took : Nat]

DealsSound ==
  /\ deals \in Seq(DealRecord) /\ Len(deals) >= 1 /\ deals[1].closed = 0
  /\ \A d \in DOMAIN deals : deals[d].took <= deals[d].closed
                             /\ (deals[d].by \in {"others", "entry"} => deals[d].closed = 0)

\* Replaying the whole history meets the true share at every deal.
ReplaySound ==
  /\ ShareBefore[Len(deals) + 1] = mine
  /\ \A d \in Closing : deals[d].took = TakeOf(d, ShareBefore[d])

\* The wire holds closes in the order they executed; a process that is down has none.
WireSound ==
  /\ wire \in Seq(Closing)
  /\ \A i, j \in DOMAIN wire : i < j => wire[i] < wire[j]
  /\ phase = "down" => wire = <<>> /\ unresolved = {}
  /\ cover <= Len(deals)

\* The stream handled every report before it judges anything.
FlushSound == phase = "up" => waiting = {}

\* What this process waits for it has neither seen nor judged.
PendingSound ==
  ~excused => /\ ~marked
              /\ rows > 0 => /\ unresolved \subseteq OwnPending /\ unresolved \intersect seen = {}
                             /\ \A d \in unresolved : d > cover
                             /\ Arriving \subseteq Pending(1)
                             /\ \A d \in Arriving : deals[d].by = "own" => d \in unresolved

\* The run closes no more than its share, and nothing is missing before the first close.
OwnSound ==
  Undisturbed => /\ \A d \in Closing : deals[d].by = "own" => deals[d].took = deals[d].closed
                 /\ Closing = {} /\ rows > 0 => Share = mine /\ shrink = 0

\* The journal, with the shrink it still owes, holds what the closes to be judged took;
\* where others hold a part, it exceeds the share by own closes not seen at most.
ShareSound ==
  Live => /\ Share + shrink >= mine + TookBy(Pending(1))
          /\ Share >= mine + TookBy(Arriving)
          /\ mine < vol => shrink = 0 /\ Share <= mine + ClosedBy(unresolved)

BookSound ==
  Live /\ phase = "up" => /\ book + shrink >= mine + TookBy(Pending(1) \ seen)
                          /\ book >= mine + TookBy(Arriving)

\* A foreign close on its way finds the share that was there when it executed: no more
\* than that where it took less than it closed, and no less where it took anything.
ArrivalSound ==
  Live => \A d \in Arriving : deals[d].by \in Foreign =>
            /\ deals[d].took < deals[d].closed
                 => Share <= deals[d].after + deals[d].took + ClosedBy(unresolved)
            /\ deals[d].took > 0
                 => Share >= deals[d].after + deals[d].took + TookBy({e \in Arriving : e < d})

\* Nor does a history that starts with the run's first entry find more of it.
WindowSound ==
  Live => \A d \in Pending(1) : deals[d].by \in Foreign /\ deals[d].took < deals[d].closed =>
            Share <= deals[d].after + deals[d].took + OpenedBy({e \in OwnEntries : e > d})
                       + ClosedBy({e \in OwnPending : e < d})

-----------------------------------------------------------------------------
(* Properties *)

TypeOK ==
  /\ vol \in Nat /\ mine \in 0 .. vol /\ filled \in Nat /\ retired \in 0 .. filled
  /\ rows \in Nat /\ shrink \in Nat /\ cover \in Nat /\ phase \in {"up", "down"}
  /\ judged \in Seq(Origins) /\ Len(judged) = Len(deals)
  /\ waiting \union handled \union audited \union accepted \subseteq Closing
  /\ covered \subseteq Closing \X Closing
  /\ seen \union unresolved \subseteq DOMAIN deals /\ book \in Int

\* Losing pushes, closing while down and crashing between the steps of a verdict never
\* take from the journal more than the closes took of the run's share: a pushed close,
\* the baseline of a restart and a judged history never retire one close twice.
JournalCovers == rows > 0 /\ Undisturbed => Share >= mine

\* Nor does the engine lose volume it still holds: a close delivered by a pass is not
\* delivered again by its late push, nor one the start-up baseline counted.
BookCovers == phase = "up" /\ rows > 0 /\ Undisturbed => book >= mine

\* The closes whose own report a waiting one stood for, while that one is not lost.
CoveredCloses == {d \in Closing : \E e \in waiting \union handled : <<d, e>> \in covered}

\* A close of others marked as judged external, which no process judges again, took
\* nothing of the share unless its doubt is in the log, or its report in the journal, or
\* the report of the position that waited when it was judged, and that covers it: a
\* crash between the report and the mark repeats a report and never loses one.
ReportNotLost ==
  Undisturbed => \A d \in Closing : deals[d].took > 0 /\ judged[d] = "external"
                 => d \in waiting \union handled \union audited \union CoveredCloses

IInv == /\ TypeOK /\ DealsSound /\ ReplaySound /\ WireSound /\ FlushSound
        /\ PendingSound /\ OwnSound /\ ShareSound /\ BookSound /\ ArrivalSound /\ WindowSound
        /\ ReportNotLost

\* Judging a shortfall from the position's whole history leaves the journal at the
\* run's true share, with others' exposure on the position and own closes missed too.
RecoveredExact ==
  [][PassJudge /\ phase' = "up" /\ Undisturbed => filled' - retired' = mine']_vars

\* A position open below the run's share is judged, or its shortfall ends, unless this
\* process judged a shortfall of the same volumes before.
ShrinkJudged == (phase = "up" /\ Open /\ Share > vol /\ Shortfall \notin tried)
                  ~> (~Open \/ Share <= vol)

\* A close an operator resume accepted is not reported later.
AcceptedStaysAccepted == accepted \intersect handled = {}
=============================================================================
