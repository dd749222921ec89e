---------------------------- MODULE FillBooking ----------------------------
(***************************************************************************)
(* How an entry order's executions reach the engine's book.                *)
(*                                                                         *)
(* One entry order executes in Qty slices of one unit.  Four paths report  *)
(* a slice to the engine: the execution PUSH, the correlated dispatch      *)
(* answer put back on the PUSH queue, the periodic reconcile pass (order   *)
(* snapshot, then deal history), and the adoption of the venue's net       *)
(* position at start-up.  They share one durable cursor, the journal row's *)
(* filled_qty, and one volatile set of deal ids, _seen_deal_ids.           *)
(*                                                                         *)
(* The venue, the journal store and the engine live outside this           *)
(* repository; their steps model what the code assumes of them.  Closing   *)
(* fills are not modelled here: a position, once opened, stays open.       *)
(***************************************************************************)
EXTENDS Integers, Sequences, FiniteSets

CONSTANTS Orders,        \* client order ids of the entries this run places
          Qty,           \* slices (deals) in one order
          FillAnswers,   \* may the venue answer a dispatch with a fill?
          HistoryFails,  \* may a deal- or order-history read be inconclusive?
          HistoryLags,   \* may a complete history read lack the newest deals?
          MaxDrops,      \* bound: connection losses
          MaxCrashes,    \* bound: process crashes
          MaxReplays     \* bound: uncorrelated copies of a sent execution

ASSUME QtyAssumption == Qty \in Nat \ {0}
ASSUME FlagAssumption ==
  FillAnswers \in BOOLEAN /\ HistoryFails \in BOOLEAN /\ HistoryLags \in BOOLEAN
ASSUME BoundAssumption ==
  MaxDrops \in Nat /\ MaxCrashes \in Nat /\ MaxReplays \in Nat

VARIABLES
  ord,      \* venue: order status
  exec,     \* venue: slices executed (ProtoOAOrder.executedVolume)
  link,     \* is the TCP session up?
  wire,     \* messages the venue sent and the client has not received
  task,     \* the dispatch task awaiting its answer
  answer,   \* the answer the dispatch future holds, when task is "answered"
  execq,    \* _exec_events, consumed by watch_orders
  row,      \* the journal row of each order (survives a crash)
  leg,      \* a recovered-own-leg row owns the order's position (journal)
  seen,     \* _seen_deal_ids
  booked,   \* engine: units of the order in the engine's position
  lag,      \* history: units adopted at start-up that the cursor missed
  proc,     \* "down" | "recovering" | "recovered" | "running"
  pass,     \* reconcile pass: "idle" | "reading" | "rows" | "grace"
  snap,     \* the snapshot the pass (or the recovery) works from
  todo,     \* rows that pass still owes
  drops, crashes, replays

venueVars == <<ord, exec>>
chanVars == <<link, wire>>
dispVars == <<task, answer>>
bookVars == <<row, leg, seen, booked, lag>>
passVars == <<pass, snap, todo>>
boundVars == <<drops, crashes, replays>>
vars == <<ord, exec, link, wire, task, answer, execq, row, leg, seen, booked,
          lag, proc, pass, snap, todo, drops, crashes, replays>>

-----------------------------------------------------------------------------
(* Data *)

Slices == 0 .. Qty

\* An execution message.  cum is the order's executedVolume when it was sent
\* and, for a fill, names the deal; answer marks a clientMsgId echo.
Msg == [kind : {"accepted", "rejected", "fill", "cancelled"},
        ord : Orders, cum : Slices, answer : BOOLEAN]

Answer(kind, o, cum) == [kind |-> kind, ord |-> o, cum |-> cum, answer |-> TRUE]

Push(kind, o, cum) == [kind |-> kind, ord |-> o, cum |-> cum, answer |-> FALSE]

\* The content of the answer slot while no answer is held.
NoAnswer(o) == Answer("accepted", o, 0)

DealOf(m) == <<m.ord, m.cum>>

\* The order's first k deals.
Deals(o, k) == {<<o, j>> : j \in 1 .. k}

Row == [state : {"none", "submitted", "unknown", "confirmed", "rejected", "closed"},
        filled : Slices,
        ref : BOOLEAN,       \* the order_id ref is recorded
        pos : BOOLEAN,       \* extras['position_id'] is linked
        missing : {"no", "fresh", "stamped"},   \* missing_pending_since
        unsure : BOOLEAN,    \* extras['recovered_inconclusive']
        partial : BOOLEAN]   \* extras['recovered_partial_terminal']

NoRow == [state |-> "none", filled |-> 0, ref |-> FALSE, pos |-> FALSE,
          missing |-> "no", unsure |-> FALSE, partial |-> FALSE]

\* close_order: the row leaves every live scan and drops its refs.
Closed(r) == [r EXCEPT !.state = "closed", !.ref = FALSE, !.missing = "no"]

Live(o) == row[o].state \notin {"none", "closed"}

\* PENDING_DISPATCH_STATES
Pending(o) == row[o].state \in {"submitted", "unknown"}

Snapshot == [o \in Orders |-> [open |-> ord[o] = "working", exec |-> exec[o]]]

\* What _find_fill_deal can tell of an order: how many of its deals a fully
\* consumed window lists, or Unread after a failed or truncated read.
Unread == -1

HistoryReads(o) ==
  (IF ~link THEN {} ELSE IF HistoryLags THEN 0 .. exec[o] ELSE {exec[o]})
    \cup (IF HistoryFails \/ ~link THEN {Unread} ELSE {})

Larger(a, b) == IF a >= b THEN a ELSE b
Smaller(a, b) == IF a <= b THEN a ELSE b

-----------------------------------------------------------------------------
Init ==
  /\ ord = [o \in Orders |-> "none"]
  /\ exec = [o \in Orders |-> 0]
  /\ link = TRUE
  /\ wire = <<>>
  /\ task = [o \in Orders |-> "idle"]
  /\ answer = [o \in Orders |-> NoAnswer(o)]
  /\ execq = <<>>
  /\ row = [o \in Orders |-> NoRow]
  /\ leg = [o \in Orders |-> FALSE]
  /\ seen = {}
  /\ booked = [o \in Orders |-> 0]
  /\ lag = [o \in Orders |-> 0]
  /\ proc = "running"
  /\ pass = "idle"
  /\ snap = Snapshot
  /\ todo = {}
  /\ drops = 0 /\ crashes = 0 /\ replays = 0

-----------------------------------------------------------------------------
(* The venue *)

Emit(m) == wire' = IF link THEN Append(wire, m) ELSE wire

\* The dispatched request reaches the venue, which answers it.
VenueAnswers(o) ==
  /\ ord[o] = "inflight"
  /\ \/ /\ ord' = [ord EXCEPT ![o] = "working"]
        /\ exec' = exec
        /\ Emit(Answer("accepted", o, 0))
     \/ /\ FillAnswers
        /\ ord' = [ord EXCEPT ![o] = IF Qty = 1 THEN "filled" ELSE "working"]
        /\ exec' = [exec EXCEPT ![o] = 1]
        /\ Emit(Answer("fill", o, 1))
     \/ /\ ord' = [ord EXCEPT ![o] = "rejected"]
        /\ exec' = exec
        /\ Emit(Answer("rejected", o, 0))
  /\ UNCHANGED <<link, dispVars, execq, bookVars, proc, passVars, boundVars>>

\* A working order executes its next slice; the last one completes it.
VenueFills(o) ==
  /\ ord[o] = "working"
  /\ exec' = [exec EXCEPT ![o] = @ + 1]
  /\ ord' = [ord EXCEPT ![o] = IF exec[o] + 1 = Qty THEN "filled" ELSE @]
  /\ Emit(Push("fill", o, exec[o] + 1))
  /\ UNCHANGED <<link, dispVars, execq, bookVars, proc, passVars, boundVars>>

\* A working order's residual is cancelled or expires at the venue.
VenueCancels(o) ==
  /\ ord[o] = "working"
  /\ ord' = [ord EXCEPT ![o] = "cancelled"]
  /\ Emit(Push("cancelled", o, exec[o]))
  /\ UNCHANGED <<exec, link, dispVars, execq, bookVars, proc, passVars, boundVars>>

\* The venue pushes an uncorrelated copy of an execution it already sent.
VenueReplays(o) ==
  /\ link /\ replays < MaxReplays
  /\ \E k \in 1 .. exec[o] : Emit(Push("fill", o, k))
  /\ replays' = replays + 1
  /\ UNCHANGED <<venueVars, link, dispVars, execq, bookVars, proc, passVars,
                 drops, crashes>>

-----------------------------------------------------------------------------
(* The connection *)

\* _route and the event router: the answer goes to the waiting dispatch, every
\* other message (a late answer included) to the execution queue.
Receive ==
  /\ link /\ wire # <<>>
  /\ wire' = Tail(wire)
  /\ LET m == Head(wire) IN
       IF m.answer /\ task[m.ord] = "waiting"
       THEN /\ answer' = [answer EXCEPT ![m.ord] = m]
            /\ task' = [task EXCEPT ![m.ord] = "answered"]
            /\ execq' = execq
       ELSE /\ execq' = Append(execq, m)
            /\ UNCHANGED dispVars
  /\ UNCHANGED <<venueVars, link, bookVars, proc, passVars, boundVars>>

\* The session is lost: what was on the way is gone, every waiting request
\* fails, and a snapshot read fails its pass.  A start-up not yet adopted is
\* begun again by the next connect.
LinkDrops ==
  /\ link /\ drops < MaxDrops
  /\ link' = FALSE
  /\ wire' = <<>>
  /\ task' = [o \in Orders |-> IF task[o] = "waiting" THEN "lost" ELSE task[o]]
  /\ pass' = IF pass = "reading" THEN "idle" ELSE pass
  /\ proc' = IF proc = "running" THEN proc ELSE "down"
  /\ drops' = drops + 1
  /\ UNCHANGED <<venueVars, answer, execq, bookVars, snap, todo, crashes, replays>>

\* connect on a live process after adoption: no recovery, queues kept.
Reconnect ==
  /\ ~link /\ proc = "running"
  /\ link' = TRUE
  /\ UNCHANGED <<venueVars, wire, dispVars, execq, bookVars, proc, passVars,
                 boundVars>>

\* The process dies: every volatile structure is gone, the journal stays.
Crash ==
  /\ proc # "down" /\ crashes < MaxCrashes
  /\ proc' = "down"
  /\ link' = FALSE
  /\ wire' = <<>>
  /\ task' = [o \in Orders |-> IF row[o].state = "none" THEN "idle" ELSE "done"]
  /\ answer' = [o \in Orders |-> NoAnswer(o)]
  /\ execq' = <<>>
  /\ seen' = {}
  /\ booked' = [o \in Orders |-> 0]
  /\ lag' = [o \in Orders |-> 0]
  /\ pass' = "idle"
  /\ todo' = {}
  /\ crashes' = crashes + 1
  /\ UNCHANGED <<venueVars, row, leg, snap, drops, replays>>

-----------------------------------------------------------------------------
(* Dispatch *)

\* _place_entry_order up to the send: the submitted row is written first.
\* With the link down the send fails before any byte was written.
Dispatch(o) ==
  /\ proc = "running"
  /\ task[o] \in {"idle", "refused"}
  /\ row' = [row EXCEPT ![o] = [NoRow EXCEPT !.state = "submitted"]]
  /\ IF link
     THEN /\ task' = [task EXCEPT ![o] = "waiting"]
          /\ ord' = [ord EXCEPT ![o] = "inflight"]
     ELSE /\ task' = [task EXCEPT ![o] = "refused"]
          /\ ord' = ord
  /\ UNCHANGED <<exec, chanVars, answer, execq, leg, seen, booked, lag, proc,
                 passVars, boundVars>>

\* send_request gives up waiting; the venue may still act on the request.
DispatchTimesOut(o) ==
  /\ task[o] = "waiting"
  /\ task' = [task EXCEPT ![o] = "lost"]
  /\ UNCHANGED <<venueVars, chanVars, answer, execq, bookVars, proc, passVars,
                 boundVars>>

\* Faulty variant: the answer's volume replaces a cursor a PUSH had moved on.
PersistEntryOverwrites(r, m) ==
  [r EXCEPT !.state = "confirmed", !.ref = TRUE,
            !.filled = m.cum, !.pos = @ \/ m.cum > 0]

\* Faulty variant: the order id of a filled answer is not recorded.
PersistEntryForgetsRef(r, m) ==
  [r EXCEPT !.state = "confirmed", !.ref = @ \/ m.kind = "accepted",
            !.filled = Larger(m.cum, @), !.pos = @ \/ m.cum > 0]

\* _persist_entry: the cursor is the larger of the answer's and the row's.
PersistEntry(r, m) ==
  [r EXCEPT !.state = "confirmed", !.ref = TRUE,
            !.filled = Larger(m.cum, @), !.pos = @ \/ m.cum > 0]

\* The dispatch task resumes on its answer: a fill is put back on the queue
\* (_surface_correlated_fill) and the row is confirmed in the same step.
DispatchAnswered(o) ==
  /\ task[o] = "answered"
  /\ task' = [task EXCEPT ![o] = "done"]
  /\ LET m == answer[o] IN
       IF m.kind = "rejected"
       THEN /\ row' = [row EXCEPT ![o].state = IF Live(o) THEN "rejected" ELSE @]
            /\ execq' = execq
       ELSE /\ row' = [row EXCEPT ![o] = PersistEntry(@, m)]
            /\ execq' = IF m.kind = "fill" THEN Append(execq, m) ELSE execq
  /\ answer' = [answer EXCEPT ![o] = NoAnswer(o)]
  /\ UNCHANGED <<venueVars, chanVars, leg, seen, booked, lag, proc, passVars,
                 boundVars>>

\* The dispatch task resumes on a timeout or a connection lost after the send.
DispatchUnknown(o) ==
  /\ task[o] = "lost"
  /\ task' = [task EXCEPT ![o] = "done"]
  /\ row' = [row EXCEPT ![o].state = IF Live(o) THEN "unknown" ELSE @]
  /\ UNCHANGED <<venueVars, chanVars, answer, execq, leg, seen, booked, lag,
                 proc, passVars, boundVars>>

-----------------------------------------------------------------------------
(* watch_orders: one message of the execution queue, between two passes *)

\* Faulty variant: a fill the cursor already counts is booked again.
TranslateKnownFillTwice(m) ==
  LET o == m.ord IN
      /\ seen' = seen \cup {DealOf(m)}
      /\ row' = [row EXCEPT ![o].filled = Larger(m.cum, @), ![o].pos = TRUE]
      /\ booked' = [booked EXCEPT ![o] = @ + 1]

\* Faulty variant: the cumulative volume is added to the cursor.
TranslateKnownFillAdds(m) ==
  LET o == m.ord IN
      /\ seen' = seen \cup {DealOf(m)}
      /\ IF m.cum <= row[o].filled
         THEN UNCHANGED <<row, booked>>
         ELSE /\ row' = [row EXCEPT ![o].filled = @ + m.cum, ![o].pos = TRUE]
              /\ booked' = [booked EXCEPT ![o] = @ + 1]

\* A fill on a row the order_id ref resolves: dropped as seen, suppressed when
\* the cursor already counts it, else booked with the cursor advanced.
TranslateKnownFill(m) ==
  LET o == m.ord
      suppress == m.cum <= row[o].filled
  IN  /\ seen' = seen \cup {DealOf(m)}
      /\ IF suppress
         THEN UNCHANGED <<row, booked>>
         ELSE /\ row' = [row EXCEPT ![o].filled = m.cum, ![o].pos = TRUE]
              /\ booked' = [booked EXCEPT ![o] = @ + 1]

\* A fill on a live row without refs (_recover_parked_entry_by_coid).
TranslateParkedFill(m) ==
  LET o == m.ord IN
      /\ seen' = seen \cup {DealOf(m)}
      /\ row' = [row EXCEPT ![o].state = "confirmed", ![o].filled = m.cum,
                            ![o].ref = TRUE, ![o].pos = TRUE]
      /\ booked' = [booked EXCEPT ![o] = @ + 1]

\* A fill no live row of the run owns is external activity: not booked.
TranslateExternalFill(m) ==
  /\ seen' = seen \cup {DealOf(m)}
  /\ UNCHANGED <<row, booked>>

\* Faulty variant: the row is closed whatever its cursor counts.
TranslateCancelAnyRow(m) ==
  /\ row' = [row EXCEPT ![m.ord] = IF @.ref THEN Closed(@) ELSE @]
  /\ UNCHANGED <<seen, booked>>

\* _retire_cancelled_working_order: only an unfilled row is closed.
TranslateCancel(m) ==
  /\ row' = [row EXCEPT ![m.ord] =
               IF @.ref /\ @.filled = 0 THEN Closed(@) ELSE @]
  /\ UNCHANGED <<seen, booked>>

Translate ==
  /\ proc = "running" /\ pass = "idle"
  /\ execq # <<>>
  /\ execq' = Tail(execq)
  /\ LET m == Head(execq) IN
       \/ /\ m.kind \in {"accepted", "rejected"}
          /\ UNCHANGED <<row, seen, booked>>
       \/ m.kind = "cancelled" /\ TranslateCancel(m)
       \/ /\ m.kind = "fill"
          /\ \/ DealOf(m) \in seen /\ UNCHANGED <<row, seen, booked>>
             \/ DealOf(m) \notin seen /\ row[m.ord].ref /\ TranslateKnownFill(m)
             \/ /\ DealOf(m) \notin seen /\ ~row[m.ord].ref /\ Live(m.ord)
                /\ TranslateParkedFill(m)
             \/ /\ DealOf(m) \notin seen /\ ~row[m.ord].ref /\ ~Live(m.ord)
                /\ TranslateExternalFill(m)
  /\ UNCHANGED <<venueVars, chanVars, dispVars, leg, lag, proc, passVars,
                 boundVars>>

-----------------------------------------------------------------------------
(* The reconcile pass; watch_orders translates nothing while it runs *)

\* ProtoOAReconcileReq: the venue takes the snapshot.
PassBegins ==
  /\ proc = "running" /\ pass = "idle" /\ link
  /\ pass' = "reading"
  /\ snap' = Snapshot
  /\ UNCHANGED <<venueVars, chanVars, dispVars, execq, bookVars, proc, todo,
                 boundVars>>

\* The response is in: the live rows with an order_id are collected.
PassCollects ==
  /\ pass = "reading"
  /\ pass' = "rows"
  /\ todo' = {o \in Orders : Live(o) /\ row[o].ref}
  /\ UNCHANGED <<venueVars, chanVars, dispVars, execq, bookVars, proc, snap,
                 boundVars>>

\* _reconcile_working_row: the snapshot's partial progress past the cursor is
\* booked as one event; its deals are marked seen when the history covers it.
ReconcileWorking(o, listed) ==
  LET r == row[o]
      progress == snap[o].exec > r.filled /\ snap[o].exec < Qty
      cleared == [r EXCEPT !.missing = "no"]
  IN  IF ~progress
      THEN /\ row' = [row EXCEPT ![o] = cleared]
           /\ UNCHANGED <<seen, booked>>
      ELSE /\ row' = [row EXCEPT ![o] =
                        [cleared EXCEPT !.state = "confirmed", !.pos = TRUE,
                                        !.filled = snap[o].exec]]
           /\ seen' = IF listed >= snap[o].exec
                      THEN seen \cup Deals(o, snap[o].exec) ELSE seen
           /\ booked' = [booked EXCEPT ![o] = @ + (snap[o].exec - r.filled)]

\* Faulty variant: the delta is booked only when no deal was applied before.
PromoteFromDealAllFresh(o, listed) ==
  LET cum == Larger(row[o].filled, listed) IN
  /\ row' = [row EXCEPT ![o].missing = "no", ![o].pos = TRUE, ![o].filled = cum]
  /\ seen' = seen \cup Deals(o, listed)
  /\ booked' = [booked EXCEPT ![o] =
                  IF Deals(o, listed) \cap seen # {} THEN @ ELSE @ + (cum - row[o].filled)]

\* Faulty variant: the deals' whole sum is booked.
PromoteFromDealSum(o, listed) ==
  LET cum == Larger(row[o].filled, listed) IN
  /\ row' = [row EXCEPT ![o].missing = "no", ![o].pos = TRUE, ![o].filled = cum]
  /\ seen' = seen \cup Deals(o, listed)
  /\ booked' = [booked EXCEPT ![o] = @ + cum]

\* _promote_from_deal on a position the snapshot shows open: the cursor moves
\* to the deals' sum, and the delta is booked unless every deal was applied.
PromoteFromDeal(o, listed) ==
  LET cum == Larger(row[o].filled, listed)
      fresh == Deals(o, listed) \ seen
  IN  /\ row' = [row EXCEPT ![o] = [row[o] EXCEPT
                   !.missing = "no", !.pos = TRUE, !.filled = cum,
                   !.state = IF cum > row[o].filled \/ ~row[o].pos
                             THEN "confirmed" ELSE @]]
      /\ seen' = seen \cup fresh
      /\ booked' = [booked EXCEPT ![o] =
                      IF fresh = {} THEN @ ELSE @ + (cum - row[o].filled)]

\* Faulty variant: a vanished order is never looked up in the deal history.
ReconcileVanishedUnread(o, listed) ==
  /\ row' = [row EXCEPT ![o].missing = IF @ = "no" THEN "fresh" ELSE @]
  /\ UNCHANGED <<seen, booked>>

\* _recover_vanished_working_row: the order left order[]; the deal history
\* tells whether it filled.  A position the snapshot does not show open and
\* no deal closed is ambiguous: nothing is done.
ReconcileVanished(o, listed) ==
  \/ /\ listed = Unread \/ (listed > 0 /\ snap[o].exec = 0)
     /\ UNCHANGED <<row, seen, booked>>
  \/ /\ listed > 0 /\ snap[o].exec > 0
     /\ PromoteFromDeal(o, listed)
  \/ /\ listed = 0
     /\ row' = [row EXCEPT ![o].missing =
                  IF ~row[o].pos /\ row[o].filled = 0 /\ @ = "no"
                  THEN "fresh" ELSE @]
     /\ UNCHANGED <<seen, booked>>

\* One collected row of the pass (_reconcile_snapshot's loop).
PassRow(o) ==
  /\ pass = "rows" /\ o \in todo
  /\ todo' = todo \ {o}
  /\ \E listed \in HistoryReads(o) :
       \/ snap[o].open /\ ReconcileWorking(o, listed)
       \/ /\ ~snap[o].open /\ row[o].pos /\ row[o].filled = Qty
          /\ UNCHANGED <<row, seen, booked>>
       \/ /\ ~snap[o].open /\ ~(row[o].pos /\ row[o].filled = Qty)
          /\ ReconcileVanished(o, listed)
  /\ UNCHANGED <<venueVars, chanVars, dispVars, execq, leg, lag, proc, pass,
                 snap, boundVars>>

\* The presence feed clears the stamp of a settled row whose position is open.
PassPresence ==
  /\ pass = "rows" /\ todo = {}
  /\ pass' = "grace"
  /\ row' = [o \in Orders |->
               IF Live(o) /\ row[o].pos /\ row[o].filled = Qty /\ snap[o].exec > 0
               THEN [row[o] EXCEPT !.missing = "no"] ELSE row[o]]
  /\ UNCHANGED <<venueVars, chanVars, dispVars, execq, leg, seen, booked, lag,
                 proc, snap, todo, boundVars>>

\* A stamp past its grace window is re-verified against a fresh history read
\* (_confirm_missing_via_deal_history, _vanished_order_verdict).
GraceExpires(o) ==
  /\ pass = "grace" /\ row[o].missing = "stamped" /\ Live(o)
  /\ HistoryReads(o) # {Unread}
  /\ row' = [row EXCEPT ![o] =
               IF @.pos \/ (exec[o] = 0 /\ ord[o] \notin {"inflight", "working"})
               THEN Closed(@)
               ELSE [row[o] EXCEPT !.missing = "no"]]
  /\ UNCHANGED <<venueVars, chanVars, dispVars, execq, leg, seen, booked, lag,
                 proc, passVars, boundVars>>

PassEnds ==
  /\ pass = "grace"
  /\ pass' = "idle"
  /\ row' = [o \in Orders |-> IF row[o].missing = "fresh"
                              THEN [row[o] EXCEPT !.missing = "stamped"] ELSE row[o]]
  /\ UNCHANGED <<venueVars, chanVars, dispVars, execq, leg, seen, booked, lag,
                 proc, snap, todo, boundVars>>

-----------------------------------------------------------------------------
(* Start-up: recovery of pending rows, then the engine's adoption *)

\* connect before the adoption: _recover_in_flight_submissions' snapshot.
Connect ==
  /\ proc = "down"
  /\ proc' = "recovering"
  /\ link' = TRUE
  /\ snap' = Snapshot
  /\ todo' = {o \in Orders : Pending(o)}
  /\ UNCHANGED <<venueVars, wire, dispVars, execq, bookVars, pass, boundVars>>

\* _record_recovered_refs: matched by coid, the deal history inconclusive.
RecordRefs(o) ==
  /\ row' = [row EXCEPT ![o] =
               [row[o] EXCEPT !.ref = TRUE, !.pos = TRUE, !.unsure = TRUE]]
  /\ UNCHANGED seen

\* _confirm_recovered_entry: no event, the adoption that follows counts it.
ConfirmRecovered(o, filled, pos, partial) ==
  row' = [row EXCEPT ![o] =
            [row[o] EXCEPT !.state = "confirmed", !.ref = TRUE, !.pos = pos,
                      !.filled = Larger(@, filled), !.partial = @ \/ partial]]

\* _recover_one_pending_row, source 1: the order still rests in order[].  The
\* deals of its partial fill are seeded before the row is confirmed.
RecoverLive(o, listed) ==
  \/ /\ snap[o].exec > 0 /\ listed = Unread
     /\ RecordRefs(o)
  \/ /\ snap[o].exec > 0 /\ listed # Unread
     /\ ConfirmRecovered(o, snap[o].exec, TRUE, FALSE)
     /\ seen' = seen \cup Deals(o, listed)
  \/ /\ snap[o].exec = 0
     /\ ConfirmRecovered(o, 0, FALSE, FALSE)
     /\ UNCHANGED seen

\* _resolve_recovered_order: the order history names the order.  The deals'
\* sum, or without any listed the order's own volume, is its fill.
RecoverFromHistory(o, listed) ==
  \/ /\ ord[o] \in {"cancelled", "rejected"} /\ exec[o] = 0
     /\ row' = [row EXCEPT ![o] = Closed(@)]
     /\ UNCHANGED seen
  \/ /\ exec[o] > 0 /\ listed = Unread
     /\ RecordRefs(o)
  \/ /\ ord[o] \in {"cancelled", "rejected"} => exec[o] > 0
     /\ exec[o] > 0 => listed # Unread
     /\ LET filled == IF listed > 0 THEN listed ELSE exec[o] IN
          ConfirmRecovered(o, filled, exec[o] > 0,
                           ord[o] = "cancelled" /\ filled < Qty)
     /\ seen' = seen \cup Deals(o, listed)

\* Source 2: the order history, read conclusively or not at all.  A row the
\* complete history does not know is abandoned once past the TTL, which is
\* assumed longer than any request stays on its way.
RecoverByCoid(o, listed) ==
  \/ /\ ord[o] \notin {"none", "inflight"}
     /\ RecoverFromHistory(o, listed)
  \/ /\ ord[o] \notin {"none", "inflight"} => HistoryLags \/ HistoryFails
     /\ UNCHANGED <<row, seen>>
  \/ /\ ord[o] = "none"
     /\ row' = [row EXCEPT ![o] = Closed(@)]
     /\ UNCHANGED seen

RecoverRow(o) ==
  /\ proc = "recovering" /\ link /\ o \in todo
  /\ todo' = todo \ {o}
  /\ \E listed \in HistoryReads(o) :
       \/ snap[o].open /\ RecoverLive(o, listed)
       \/ ~snap[o].open /\ RecoverByCoid(o, listed)
  /\ UNCHANGED <<venueVars, chanVars, dispVars, execq, leg, booked, lag, proc,
                 pass, snap, boundVars>>

\* The order's position is in _owned_position_ids.
Owned(o) == leg[o] \/ (Live(o) /\ row[o].pos)

\* _recover_untracked_venue_state: an open position no live row owns carries
\* the run's label and is adopted as an own leg.
RecoveryEnds ==
  /\ proc = "recovering" /\ link /\ todo = {}
  /\ proc' = "recovered"
  /\ leg' = [o \in Orders |-> leg[o] \/ (snap[o].exec > 0 /\ ~Owned(o))]
  /\ UNCHANGED <<venueVars, chanVars, dispVars, execq, row, seen, booked, lag,
                 passVars, boundVars>>

\* Faulty variant: the adoption leaves the cursors where they were.
NotBaselined(o) == row[o]

\* _apply_adoption_baseline on one row, from the adoption's own snapshot.
Baselined(o) ==
  LET r == row[o] IN
  IF ~Live(o) \/ r.unsure THEN r
  ELSE IF r.ref /\ ord[o] = "working"
       THEN [r EXCEPT !.filled = Larger(@, exec[o])]
  ELSE IF ~r.partial /\ r.pos /\ exec[o] > 0
       THEN [r EXCEPT !.filled = Qty]
  ELSE r

\* get_position at start-up: the cursors are baselined and the engine adopts
\* the net of the owned positions, from one snapshot.
Adopt ==
  /\ proc = "recovered" /\ link
  /\ proc' = "running"
  /\ row' = [o \in Orders |-> Baselined(o)]
  /\ booked' = [o \in Orders |-> IF Owned(o) THEN exec[o] ELSE 0]
  /\ lag' = [o \in Orders |-> IF Owned(o) /\ exec[o] > Baselined(o).filled
                              THEN exec[o] - Baselined(o).filled ELSE 0]
  /\ UNCHANGED <<venueVars, chanVars, dispVars, execq, leg, seen, passVars,
                 boundVars>>

-----------------------------------------------------------------------------
Venue(o) == VenueAnswers(o) \/ VenueFills(o) \/ VenueCancels(o) \/ VenueReplays(o)

DispatchStep(o) ==
  \/ Dispatch(o) \/ DispatchTimesOut(o) \/ DispatchAnswered(o) \/ DispatchUnknown(o)

PassStep ==
  \/ PassBegins \/ PassCollects \/ PassPresence \/ PassEnds
  \/ \E o \in Orders : PassRow(o) \/ GraceExpires(o)

StartStep ==
  \/ Connect \/ RecoveryEnds \/ Adopt
  \/ \E o \in Orders : RecoverRow(o)

Next ==
  \/ \E o \in Orders : Venue(o) \/ DispatchStep(o)
  \/ Receive \/ LinkDrops \/ Reconnect \/ Crash
  \/ Translate \/ PassStep \/ StartStep

Spec == Init /\ [][Next]_vars

\* What the event loop and the live runner keep doing: messages are received
\* and translated, tasks resume, passes run to their end on the ~5 s cadence,
\* and a lost connection or process is brought back.
Fairness ==
  /\ WF_vars(Receive) /\ SF_vars(Translate) /\ WF_vars(Reconnect)
  /\ WF_vars(StartStep)
  /\ SF_vars(PassBegins) /\ WF_vars(PassCollects) /\ WF_vars(PassPresence)
  /\ WF_vars(PassEnds)
  /\ \A o \in Orders : /\ WF_vars(PassRow(o))
                       /\ WF_vars(DispatchAnswered(o) \/ DispatchUnknown(o))

FairSpec == Spec /\ Fairness

-----------------------------------------------------------------------------
(* The inductive invariant behind NeverOverbooked and LedgerSpec *)

\* A message reports no more than the venue has executed.
SoundMsg(m, executed) ==
  m.cum <= executed[m.ord] /\ (m.kind = "fill" => m.cum >= 1)

SoundQueue(q, executed) ==
  q \in Seq(Msg) /\ \A i \in DOMAIN q : SoundMsg(q[i], executed)

ReportsSound ==
  /\ SoundQueue(wire, exec) /\ SoundQueue(execq, exec)
  /\ \A o \in Orders : answer[o].ord = o /\ SoundMsg(answer[o], exec)
  /\ \A o \in Orders : snap[o].exec <= exec[o]

VenueSound ==
  \A o \in Orders : /\ ord[o] \in {"none", "inflight"} => exec[o] = 0
                    /\ ord[o] = "working" => exec[o] < Qty

\* An order not sent yet has no trace at the venue or in the journal.
UnsentSound ==
  /\ \A o \in Orders :
       task[o] \in {"idle", "refused"} => (ord[o] = "none" /\ ~row[o].ref)
  /\ \A o \in Orders :
       row[o].state = "none" => (ord[o] = "none" /\ ~row[o].ref)
  /\ proc # "running" =>
       \A o \in Orders : /\ task[o] # "refused"
                         /\ (task[o] = "idle" => row[o].state = "none")

\* A cursor moves only once its order executed, and only on a row with refs.
CursorSound ==
  \A o \in Orders : /\ exec[o] = 0 => row[o].filled = 0
                    /\ ~row[o].ref /\ row[o].state # "closed" =>
                         row[o].filled = 0 /\ ~row[o].pos

\* The rows a pass, or the recovery, still owes.
WorklistSound ==
  /\ pass # "idle" => proc = "running"
  /\ pass = "rows" => \A o \in todo : row[o].ref
  /\ proc = "recovering" => \A o \in todo : row[o].state # "none"

\* The cursor covers what was booked; outside a live process nothing is.
BookSound ==
  /\ \A o \in Orders : /\ booked[o] <= row[o].filled + lag[o]
                       /\ booked[o] <= exec[o] + lag[o]
  /\ proc # "running" => \A o \in Orders : booked[o] = 0 /\ lag[o] = 0

IInv ==
  /\ ReportsSound /\ VenueSound /\ UnsentSound
  /\ CursorSound /\ WorklistSound /\ BookSound

-----------------------------------------------------------------------------
(* The promise, and the four paths as an implementation of it *)

Ledger == INSTANCE FillLedger
            WITH executed <- exec, twice <- lag, open <- proc = "running"

-----------------------------------------------------------------------------
(* Properties *)

TypeOK ==
  /\ ord \in [Orders -> {"none", "inflight", "working", "filled", "cancelled",
                         "rejected"}]
  /\ exec \in [Orders -> Slices]
  /\ link \in BOOLEAN
  /\ wire \in Seq(Msg)
  /\ task \in [Orders -> {"idle", "refused", "waiting", "answered", "lost", "done"}]
  /\ answer \in [Orders -> Msg]
  /\ execq \in Seq(Msg)
  /\ row \in [Orders -> Row]
  /\ leg \in [Orders -> BOOLEAN]
  /\ seen \subseteq Orders \X Slices
  /\ booked \in [Orders -> Nat]
  /\ lag \in [Orders -> Slices]
  /\ proc \in {"down", "recovering", "recovered", "running"}
  /\ pass \in {"idle", "reading", "rows", "grace"}
  /\ snap \in [Orders -> [open : BOOLEAN, exec : Slices]]
  /\ todo \subseteq Orders
  /\ drops \in 0 .. MaxDrops
  /\ crashes \in 0 .. MaxCrashes
  /\ replays \in 0 .. MaxReplays

\* However a fill is reported -- pushed, re-injected, replayed, recovered by a
\* reconcile pass or adopted at start-up -- the engine never holds more of an
\* order than the venue executed, beyond what a start-up adopted while the
\* row's cursor did not know it (the dedup contract of _seen_deal_ids and
\* filled_qty, events.py _translate_exec_event).
NeverOverbooked == \A o \in Orders : booked[o] <= exec[o] + lag[o]

\* Once no message of an order waits to be translated, every executed slice
\* its cursor counts was handed to the engine: the cursor suppresses what was
\* booked and nothing else.
NoFillSkipped ==
  proc = "running" =>
    \A o \in Orders :
      (\A i \in DOMAIN execq : execq[i].ord # o)
        => Smaller(row[o].filled, exec[o]) <= booked[o]

\* A step that retires a row.
Retires(o) == Live(o) /\ row'[o].state = "closed"

\* The order executed nothing, and the venue will execute none of it.
NothingDone(o) == exec[o] = 0 /\ ord[o] \notin {"inflight", "working"}

\* The grace expiry retires a row linked to a position whatever its cursor counts,
\* unless the presence feed takes the row for settled and clears the stamp.
GraceOnPart(o) ==
  row[o].missing = "stamped" /\ row[o].pos /\ row[o].filled \in 1 .. Qty - 1

\* A cancel judged by a cursor that a lost message left at zero.
LateCancel(o) ==
  ord[o] = "cancelled" /\ row[o].filled = 0 /\ drops + crashes > 0

\* A row is retired only when its order executed nothing and never will, save in
\* two cases: a stamp expires on a row whose cursor counts a part of its order, or,
\* after a connection was lost or the process died, a cancel meets a cursor that
\* counts nothing.  A row that carries fills survives the cancel of the residual, a
\* filled order's row survives everything, and no stamp outlives the proof of a
\* fill but for that part (_retire_cancelled_working_order,
\* _confirm_missing_via_deal_history, _recover_one_pending_row).
FilledRowsKept ==
  [][\A o \in Orders :
       Retires(o) => NothingDone(o) \/ GraceOnPart(o) \/ LateCancel(o)]_vars

\* A cancel retires the row of an order that executed nothing: a partly filled
\* order keeps a live position under its row, so its row is left live
\* (docstring of _retire_cancelled_working_order).
RetiredRowsUnfilled ==
  \A o \in Orders : row[o].state = "closed" => exec[o] = 0

\* A row that carries any fill is a live position, never a cancelled pending, and
\* the grace expiry retires no order that executed (comment of
\* _recover_vanished_working_row, docstring of _confirm_missing_via_deal_history).
CountedRowsKept ==
  \A o \in Orders : row[o].state = "closed" => row[o].filled = 0

\* The adoption leaves a row's cursor short of what it adopted only in the
\* cases the code sets apart: a position adopted as an own leg, and a recovered
\* row marked inconclusive or partially terminal (_apply_adoption_baseline).
AdoptionAlignsCursor ==
  \A o \in Orders : lag[o] > 0 => leg[o] \/ row[o].unsure \/ row[o].partial

\* After the adoption barrier the PUSH and reconcile paths emit only new fills
\* (_apply_adoption_baseline): no order is ever held beyond its executions.
BookedOnce == \A o \in Orders : booked[o] <= exec[o]

\* The durable cursor of a row never moves back.
CursorOnlyGrows == [][\A o \in Orders : row'[o].filled >= row[o].filled]_vars

\* The four paths together are one ledger: in one process the engine's units
\* only grow, one order and report at a time, and only an adoption or a crash
\* sets them (watch_orders, _reconcile_snapshot, get_position).
LedgerSpec == Ledger!Spec

\* Every executed slice reaches the engine in the end, whichever path reports
\* it (events.py: "Events are never silently dropped").
EveryFillBooked ==
  \A o \in Orders : \A k \in 1 .. Qty : (exec[o] >= k) ~> (booked[o] >= k)

\* A fill of an order the journal knows by its order id reaches the engine in
\* the end, even when its PUSH was lost (_reconcile_snapshot).
KnownFillBooked ==
  \A o \in Orders : \A k \in 1 .. Qty :
    (row[o].ref /\ exec[o] >= k) ~> (booked[o] >= k)

=============================================================================
