# Verification of the cTrader plugin

This directory models the order and session logic of `pynecore_ctrader`
(`src/src/pynecore_ctrader/`) in TLA+, checks small instances with TLC and
proves the main results for every value of the constants with TLAPS.  File names
below are relative to `src/src/pynecore_ctrader/`.

## 1. Inventory

### Components, their state and their operations

| Component | Code | State | Operations |
|---|---|---|---|
| Wire client | `wire.py` | socket, `_pending` futures by `clientMsgId`, send lock, `events` queue, receive and heartbeat tasks | `connect`, `disconnect`, `send_request`, `_route`, heartbeat watchdog, `_fail_pending` |
| Connection lifecycle and event router | `_base.py` | `_wire`, `_live_account_id`, `_exec_events`, `_spot_events`, `_adoption_baselined`, router task | `connect` (handshake, recovery gate), `disconnect`, `_event_router_loop` |
| Account session recovery | `_base.py` | `_reauth_lock`, `_reauth_generation`, `_reauth_task`, `_tokens` | `_account_request_raw`, `_recover_account_session`, `_reauth_account`, `_schedule_reauth`, `_drop_live_wire_after_failed_reauth` |
| Token session | `session.py`, `auth.py`, `cli.py`, `_base.py` | `ctrader.json` (one section per environment), the lock file, `_tokens`, `_session_pair` | `load_session`, `save_session`, `acquire_session_lock`, `_refresh_and_persist`, `_adopt_rotated_session`, `pyne ctrader auth` |
| Dispatch | `execution.py` | journal row of the entry, `_entry_dispatches_in_flight` | `_place_entry_order`, `_dispatch_order`, `_persist_entry`, `_surface_correlated_fill`, exits, amends, cancels, closes |
| Push stream | `events.py` | `_exec_events`, `_seen_deal_ids`, the row's `filled_qty` cursor | `watch_orders`, `_translate_exec_event`, `_recover_parked_entry_by_coid` |
| Reconcile pass | `reconcile.py` | the snapshot, `_deal_walks`, `missing_pending_since` stamps, `_startup_shrinks` | `_reconcile_snapshot`, `_promote_from_deal`, `_emit_unexpected_cancellations`, history walks |
| Start-up recovery | `recovery.py` | pending rows, recovered-leg rows | `_recover_in_flight_submissions`, `_recover_untracked_venue_state`, `_retire_startup_orphans` |
| Adoption and account queries | `state.py` | `_adoption_baselined` | `get_position`, `_apply_adoption_baseline`, `_retire_shrunk_position_exposure` |
| Protection: closes and shares | `protection.py`, `reconcile.py` | `_own_close_history`, claims, `_share_effects`, `_held_close_verdicts`, `_shrink_watch`, pending interventions | `_judge_close_fill`, `_settle_own_close`, `_share_bounds`, `_judge_shrunk_position` |
| Protection: terms of working orders | `protection.py`, `execution.py` | `own_order_terms` in the row, `_order_terms_watch`, `_attrs_before_amend`, `_replaced_during_amend`, `_order_volume_semantics` | `_begin_own_amend`, `_settle_own_amend`, `_observe_working_order`, `_judge_replaced_order` |
| Protection: levels of positions | `protection.py` | guarded levels (the guard itself is in PyneCore) | `_observe_*` of stop and target |
| Market data | `provider.py` | subscriptions, the bar in progress, pending bars, last closed bar, ledger of missing slots | `watch_ohlcv`, `on_reconnect`, gap repair, backfill, history download |
| Pure helpers | `helpers.py`, `exceptions.py` | none | volume rounding, error classes |

Outside the repository, and modelled from how this code uses them: the venue
(orders, deals, snapshots, token rotation), the journal store (`BrokerStore`,
durable rows and refs) and the engine that consumes order events.

### How they interact

* Everything a client instance does runs on one asyncio loop; a step of the
  models is a stretch of code between two awaits.  The dispatch task, the event
  router, `watch_orders` and the account requests are separate tasks.
* The venue's messages enter through one receive loop.  `_route` gives a
  message that echoes a pending `clientMsgId` to the waiting request and puts
  every other one, late answers included, on `wire.events`; the router puts
  execution events on `_exec_events`, which `watch_orders` consumes.
* `watch_orders` runs the reconcile pass inline every ~5 s, so no message is
  translated while a pass runs, although a pass awaits many times.
* The journal row is written by the dispatch task, the push translation, the
  pass, the recovery and the adoption.  The row survives a crash;
  `_seen_deal_ids`, the queues and the engine's book do not.
* Processes share the session file and its lock.

### What is hard, and what makes each component correct

* **Fill booking** (the core): the same execution is reported on up to four
  paths, in any order, any of which may be lost.  Correct means: never booked
  twice, never skipped, the cursor monotone, rows retired only when unfilled, the
  start-up adoption in agreement with the cursors.
* **Wire and session recovery**: a request resolves once; "not sent" is said only
  of bytes not written; a lost session is re-won or its socket dropped.
* **Token session**: a refresh rotates the token, so two processes must never
  refresh with the same pair, and nobody may replace a newer pair by an older.
* **History walks**: "the history is complete" must be said only of a walk that
  saw every deal.
* **Closes and shares**: on a netted position only the run's share may be booked,
  whoever closes, in whatever order reports arrive, and somebody else is reported
  only where somebody else closed some of it.
* **Order terms**: an edit of somebody else's is noticed, the bot's own never taken
  for one, whatever of an amend is late, lost or seen before its answer.
* **Market data**: bars are delivered once, in order, without a hole.

`PROJECT.json` lists the hazards at their lines.

## 2. Plan

| Order | Module | Subject | Status |
|---|---|---|---|
| 1 | `FillLedger` | abstract: a ledger opened by adoption, then only added to | done |
| 1 | `FillBooking` | the four fill paths, crash, recovery, adoption; refines `FillLedger` | done |
| 1 | `FillBookingProofs` | type correctness, inductive invariant, no double booking, no fill skipped, no executed order retired but in two named cases, marks of an adoption, monotone cursor, refinement | done |
| 2 | `TokenSession`, `TokenSessionProofs` | rotation of the token pair by several processes on one file | done |
| 3 | `AccountSession`, `AccountSessionProofs` | order writes, session loss, re-authorization, reconnect | done; liveness checked only |
| 4 | `OwnCloses`, `OwnClosesProofs` | live: closes in flight, claims and shares of a netted position, the booking of closing fills | done; liveness and the three claims about volume checked only |
| 4 | `RecoveredCloses`, `RecoveredClosesProofs` | missed: the same closes as a pass and a restart find them in the deal history | done; liveness checked only |
| 5 | `BarFeed`, `FeedContinuity`, `FeedContinuityProofs` | live bars, gap repair, reconnect; implements "bars in order, once, none left out" | done, but for the start-up gap query and monthly bars |
| 6 | `HistoryWalk`, `HistoryWalkProofs` | paging and budget of the deal history, against "every deal seen" | done, but for the reads of the start-up |
| 7 | `OrderTerms`, `OrderTermsProofs` | own amends of a working entry and the detection of others' edits | done; liveness, and reports once somebody else edited, checked only |
| 8 | | exits and their protection levels, cancels | open |

The modules are not composed into one: what one needs of another it states as an
assumption that the other checks.  `FillBooking` reads a history in one step,
which `HistoryWalk`'s `Complete` allows; `RecoveredCloses` takes own closes as
answered, which `OwnCloses` takes apart; `AccountSession` takes the session file
as one step, which `TokenSession` takes apart.

## 3. Modules and the code they model

The map from every definition to its lines is `"map"` in `PROJECT.json`.  An
action is the code between two awaits; where several awaits cannot be told apart
by any other actor they are one action, and the module says so.

### FillBooking (refines FillLedger)

One entry order is executed by the venue in `Qty` slices (deals).  `exec` is the
venue's `executedVolume`, `row` the journal row (`filled` is `filled_qty`, `ref`
the recorded `order_id`, `pos` the linked position, `missing` the
`missing_pending_since` stamp, `unsure` and `partial` the recovery's marks),
`seen` is `_seen_deal_ids`, `execq` is `_exec_events`, and `booked` what the
engine was told.  Deal *k* of an order is the pair of the order and the
cumulative volume it leads to, so the event's `executedVolume` and its deal
identity are one number.

* Dispatch: `Dispatch`, `DispatchTimesOut`, `DispatchAnswered`,
  `DispatchUnknown`.  The future's answer and the resumption of the task that
  awaits it are two steps (`Receive`, `DispatchAnswered`), because pushes are
  handled between them.
* Push stream: `Translate` takes one event off the queue; its disjuncts are the
  branches of `_translate_exec_event`.
* Reconcile pass: `PassBegins` (snapshot request), `PassCollects`, one `PassRow`
  per row (with its deal history read), `PassPresence`, `GraceExpires`,
  `PassEnds`.  Other tasks run between these; the translator does not, because
  `watch_orders` drives the pass inline.
* Start-up: `Crash`, `Connect`, `RecoverRow`, `RecoveryEnds`, `Adopt`.

Assumed of what is outside: `close_order` drops a row's refs and a closed row
stays closed; the request of a dispatch does not outlive the time-to-live of its
pending row; `watch_orders` starts after the adoption; the venue promises no
order between a snapshot response and execution messages; a complete history
read may lack the newest deals (`reconcile.py:1166` says so); one order opens one
position, which stays open.  `lag` is a history variable: what an adoption
counted and the cursor did not.

### TokenSession

Pairs are numbered in the order the venue issued them.  `file` is the session
file, one section per environment; `using` and `synced` are `_tokens` and
`_session_pair` of each process; `pc` follows each refresh through
`_refresh_and_persist`: the lock, the adoption, the request, the answer, and the
two halves of `save_session`, whose read and replace are separate steps.  `raw`
is the file as that read saw it.  `Consent` is `pyne ctrader auth`, which saves
without the lock and is enabled only in `AuthSpec`.  `asyncio.shield` is why a
refresh under way cannot be cut off by its budget: only the wait for the lock
can be (`Abandon`, at loop shutdown).

The queue of the one-thread lock executor is over-approximated: waiting refreshes
of a process may get the lock in any order.  Not modelled: an unreadable session
file, a venue that answers with the same refresh token, and
`auth.authenticate` (`auth.py:190-248`), which refreshes without the lock but is
called by nothing in the repository.

### AccountSession

The state is that of one client (`attached` is `_wire is not None`, `gen` is
`_reauth_generation`, `lock` the holder of `_reauth_lock`) and of the venue's
side of the live connection: whether the application (`app`) and the account
(`acct`) are authorized on it, and whether the venue takes the access token
(`tokenOk`).  Connections are numbered, so that a coroutine that kept a
`WireClient` of an earlier connection is told from one on the live socket.
`inbox` is the byte stream: replies and pushes in the order the venue sent them.

* A write: `Issue` (reads the generation), `Write` (send lock and gate),
  `VenueHandles`, `WriteAnswered`, `TakesLock` and the recovery, `Resume`,
  `Write` again.  `outcome` is what its caller learns: executed, not executed
  (`CTraderConnectionError`, `ExchangeConnectionError`, the quarantine), or
  unknown (`CTraderRequestSentConnectionError`).
* The recovery is a list of requests still to make, `plan`; `Fallback` is the
  two `except` branches of `_reauth_account`.  `Overruns` is `_REAUTH_TIMEOUT`,
  which may fire at any point.
* `PushArrives` is the router's session-loss branch and `_schedule_reauth`.
* `GivesUp` is every failed end of a recovery, which closes whatever connection
  is live then.

The session file appears as one step that may adopt a usable pair or not
(`FileLock`); `TokenSession` has the detail.  Assumed: the live runner calls
`disconnect` before `connect`; a handshake is one step; a failed recovery and its
closing of the socket are one step; and the task of an answered request resumes
before the router handles a push received after the answer.  The last holds from
Python 3.12 on; in 3.11, which `pyproject.toml` still allows, `wait_for` takes
one more turn of the loop, so a push can meet a task that has its answer but is
not `done()` and be dropped by `_schedule_reauth`.  `PushedLossRepaired` relies
on this.  Not modelled: reads (a read recovers like a write and has no gate),
rate-limit retries, the 30 s request timeout, heartbeats.

### FeedContinuity (refines BarFeed)

One symbol and timeframe of fixed length; a bar is its opening, counted in
periods.  `traded` and `published` are the venue's: slots with a tick, and closed
bars its history serves.  `queue` is `_spot_events`, `hist` and `stream` the
closed bars in `_pending_bars` from either source (history bars always come
first, and each part is handed over oldest first, so sets do), `cur` is
`_current_bar_ts`, `anchor` is `_last_live_closed_bar`, `coll` the locals of
`_collect_live_gap_history`, `first` its ledger, and `done` what the runner has.

* Stream: `Ingest` folds one push (`_ingest_live_bar` for each opening),
  `HandHistory` and `HandStream` are the returns of `watch_ohlcv`, `RepairBegins`
  to `RepairEnds` is `_repair_connected_gap`.
* Reconnect: `Connect`, `Subscribe`, `BackfillBegins` to `BackfillEnds`.
* Collection: `PassLeavesOpen`, `PassCutShort`, `CollectionLost`, `Settles`.
  The number of passes is not counted: a collection may give up whenever no slot
  is awaited.
* Venue and clock: `Tick`, `Repush`, `Publish`, `TimePasses`; once the clock has
  stopped at `MaxSlot`, in a shut market, `MissedAges` stands for the time that
  still goes by.

Assumed: the venue publishes within `Lag`, which `Evidence` is not shorter than
(90 s and 120 s in the code); the venue's clock is ours; the calendar never calls
a slot shut that trades; a pass is one step, so `Evidence` has to exceed `Lag`
by the round trip of a pass, as it does by 30 s; and the runner does one thing
at a time, so the `state_changed` branch of the repair is never taken, nor the
branch of `watch_ohlcv` that drops a stale closed bar: `Ingest` lets none
through.  Not modelled: updates of the bar in progress (they may be returned
before an older closed bar is repaired), its quotes, monthly bars, and
`backfill_closed_bars`.

### OwnCloses

A buy position on a netting account, `mine` of whose volume `vol` is the bot's.
`ProtoOAClosePositionReq` carries no client order id, so a closing fill that
precedes the close's answer could be anybody's.  `oc` is `_own_close_history` (per
close its phase, volume, executed volume and claims), `effects` is
`_share_effects`, `verdicts` is `_held_close_verdicts`, `pending` the queued
reports, `reported` and `audited` the deals the policy was run for and those an
error was logged for; `filled`, `retired` and `rows` are the journal, and
`booked` what the engine was told.

* The run: `Send` (`_send_own_close`), `Answer`, `Timeout`, `GraceExpires`;
  `SendEntry`, `EntryAnswered`, `EntryTimesOut`.
* The stream: `Translate` is `_translate_exec_event` for a closing fill, an own
  entry's fill and the end of a close order; `Flush` is what `watch_orders` does
  after each message, after each pass and when it starts.
* The venue: `VenueHandles`, `VenueFillsClose`, `VenueEndsClose`, `ForeignCloses`,
  `ForeignAdds`, `VenueFires` and the entry's.

`Judge` is the heart: whose close a fill was, and within which bounds (`NetBounds`,
`ShareBounds`) the share lay as of its timestamp; `Settle` and `Rejudge` apply an
answer to what earlier fills claimed.  Assumed: the engine sends no close of more
than the share less what is on the way; a close's grace expires only when its
order is over and nothing of it waits in the queue; no push is lost
(`RecoveredCloses`); an effect does not outlive its 60 s.

What the code does on purpose, and the properties therefore allow: with two closes
of which the first one's outcome is unknown, a fill of the second may count for
the first, so that the journal stays above the true share (`Decided`), and an
error is logged; and the engine is told less than was closed where a tie of
timestamps, a reported close or an entry in flight leaves the share unsure.

### RecoveredCloses

The same position when pushes are lost.  `deals` is the venue's history and `wire`
the pushes on their way; `judged`, `waiting`, `handled` and `audited` are what the
journal holds of verdicts, `shrink` the pending start-up shrink, `watch`, `tried`
and `cover` are `_shrink_watch`, `_shrink_judged` and `_closes_covered_until`.

* Stream: `TakePush` translates the push of a close, `DropPush` that of one that was
  delivered before or is covered by a judged history.
* Pass: `PassStartup` (a pending shrink), `PassWatch` and `PassJudge` (a shortfall
  seen twice is judged from the history), `PassClear`, `PassUnshared`, `PassGone`;
  `PassAccept` and `PassGoneAccepted` after an operator resume.
* Start: `Restart` with its baseline, `ResumedRestart`, and `RestartGone` and
  `RestartUnread`, which retire a start-up orphan or leave it.

One report covers every close of the position until the policy ran
(`_base.py:336-338`): `Queued` adds none while one waits, and `covered`, a history
variable, keeps which closes were judged while which report waited.  After a start
the reports of an earlier process are loaded by the first judgement
(`protection.py:2750`), before it queues its own (`protection.py:3024`); when
another row's judgement loaded them before, the position is not judged at all
(`protection.py:3132`) and its row is retired.  Both are disjuncts of `RestartGone`.

`ReplayShareCloses` is `_replay_share_closes`: the history is gone through
from the run's entries, and each close is attributed and cut to what it took of the
share.  Its two loops are the recursive functions `ShareBefore` (the exact replay from
an empty position) and `TakenBefore` (the bounds from the share now).  `CrashUnseen`
and `GoneFirst` let happen what section 5 describes; the run excludes both, and each
theorem that needs it names the one it excludes.

### HistoryWalk

`walk` is the value of `_deal_walks`: the start of the window, how far it has been
read (`high`), the sub-windows still owed (`segments`) and the deals read; `known`
is a history variable, the deals that had executed when the window was last
extended.  `asked` is the order of the walks by their last request.  `BeginPass`,
`Call` (which extends the window), `Page`, `Fail` (a request fails or runs into the
deadline), `Defer` (the budget is used up) and `Conclude` are a reconcile pass,
`Restart` forgets all walks.  A deal's stamp is the venue's clock and may be off by
`Skew`; `Overlap` is the part of the window read again.  A walk in `Stalled` never
has an answer in time.  Not modelled: the reads of the start-up recovery, which
have no deadline, and a walk kept for a live row that is not asked for.

### OrderTerms

One LIMIT entry.  The bot journals each price and volume it sends for the order
with the view the answer showed (`terms`), and the values of attributes it never
sets (`attrs`).  `means` says what a volume is on this venue, for a view and for an
amend: the whole or the remainder of a partly filled order; the bot learns it
(`semantics`).  `amend` follows each own amend: `out`, its answer `back`, or
`adrift` when its caller gave up.

* Execution: `Send`, `Answered`, `Refused`, `AnswerLost`, `LinkLost` (`modify_entry`
  with `_begin_own_amend`, `_settle_own_amend`).
* Stream: `Translate` is a push of an edit or a fill with the judgement of what was
  held during an amend.
* Pass: `PassBegins` takes the snapshot, `PassSkips` (an amend is under way, or the
  snapshot is older than the last one's end), `PassObserves` (a strange view is
  reported when two passes saw it), `PassAccepts` (the baseline of an operator
  resume), `PassFails`.
* `Restart` keeps the journal and may carry no resume, the same or a new one.
* The venue: `Accept`, `Refuse`, `Edit`, `Fill`.

Assumed: the engine awaits an amend before the next; the venue is done with a dead
process's requests before a new one connects; the venue fills in an attribute
only when a single amend is on its way and its answer arrives (`Alone`,
`Losable`).  `noticed`, `accepted` and `resized` are history variables.  `EditNoticed`
speaks of edits of price and attributes (`Standing`): an edit of the volume may fit a
term of the bot's in one of the readings `own_volume` allows, and then goes unnoticed.

## 4. Runs

Each run needs between seconds and three minutes; `-workers 2` suffices.

| Run | Expect | Question | States |
|---|---|---|---|
| `fb_calm` | pass | without a connection loss, does every slice the cursor counts reach the engine? | 31,894 |
| `fb_gap` | pass | after losses, is a known fill booked? | 4,661 |
| `fb_crash` | pass | across crash, recovery and adoption: no double booking, cursor monotone, one ledger, and is a row retired only when its order executed nothing? | 262,107 |
| `fb_answer_fill` | violation | a fill that is the dispatch answer reaches the engine | 6 steps |
| `ts_shared` | pass | three bots, four refreshes: rotation is safe and the lock is freed | 59,671 |
| `as_recovery` | pass | writes, re-authorization, reconnect: reports true, quarantine kept, loss repaired, nobody hangs | 89,581 |
| `fc_live` | pass | does every closed bar reach the runner in order and once, and does the feed come back from an outage? | 214,060 |
| `oc_live` | pass | two own closes and a foreign one: is only who closed some of the share reported, does the book agree with the venue? | 444,317 |
| `oc_entry` | pass | a close beside an own entry in flight: is a foreign close noticed, does nothing stay held for ever? | 214,642 |
| `rc_main` | pass | closes missed, found again, judged across crashes: journal and book cover the share, no report is lost, a judged shortfall leaves the exact share | 222,131 |
| `hw_main` | pass | two rows' walks on one budget, one of them stalled: is a finished walk complete, does the other end? | 663,866 |
| `ot_main` | pass | own and others' edits of one order: is only an edit reported, is every edit noticed? | 1,228,966 |

**Bounds.**  Orders in `FillBooking` share nothing but the queue, the connection
and the worklist of a pass, so one order shows every race of one order's paths;
the proofs cover any set of orders.  Three slices are the fewest for which a
pass can promote some, but not all or the first, of a batch.  Two slices
suffice for a cursor that lags or leads.  Two crashes let a recovery run on what
an earlier recovery left.  Two connection losses let a pass fail after a push was
lost.  In `ts_shared` two bots contend within one environment, one of
them with two refreshes at once, and a third shares only the file; each kind of
failure happens once, in any order with the others.  In `as_recovery` a
single write and the background task are the fewest that can re-authorize twice
for one loss; two losses let the repeated write meet a second one; three
connections let a coroutine outlive a connection and find a newer one.  Two
writes were checked with one loss and two connections.
In `fc_live` one slot in the midst is shut and any other may or may not trade, so
that a gap mixes what was missed, what never was and what need not be; two losses
let a second one hit a backfill or a queue it has filled; one push in the queue
suffices for a push that arrives during a collection (two were checked for
`IInv` and `FeedSpec`, 513,857 states).

`oc_live` and `oc_entry` have 2 of the bot's and 1 of others' volume: the fewest
for which a close can be filled in two parts, take the share in part and spill into
what others hold.  Two closes are needed for a fill to be claimed by the wrong one;
they are checked without an entry and one close with an entry, and once together
(6.2 million states).  Two foreign closes were checked with two closes (2.2 million).
`Ties` lets a foreign and an own fill carry one timestamp.
In `rc_main` three deals suffice for an own close, a foreign one and an addition of
others; two losses and two crashes let a verdict be interrupted and its repetition
too.  Four deals were checked with one loss and one crash (798,000 states).
In `hw_main` a page holds one deal and a pass has one request, so each deal is a page
boundary and each page ends a pass; one walk's window starts before the other's.
Three deals were checked once (2.9 million states).
In `ot_main` one amend, one edit, two fills, one loss and one restart occur in any
order, at a venue whose views show the whole or the remainder; amends of price, of
volume and of both, and edits of price, attribute and volume.  Two fills are what a
wrong lesson needs to become a report.  Two edits (7.0 million states) and, with
one fill, two amends (9.2 million) were checked for safety.  The run leaves out the
venues that take the remainder, and `ReportsTrue` exempts accepted edits of the volume:
there the claims are false (section 5, items 4 and 5).

`fb_gap` has one slice: with two, a later push jumps over a slice whose push was lost
(section 5), and a late cancel retires the row of a known fill (item 2).  `fb_crash`,
with two, a lagging history and a loss, checks which rows are retired.

Unbounded counters are the pairs a venue issues, connections, losses, crashes,
replays and overruns; each has its named bound, in the guard of the action that
increments it.  Deadlock is not checked: in each module the counters run out and
a client with nothing to do stops.

**Fairness.**  `FillBooking`: the receive loop, the translator, `StartStep`
(the runner connects, recovers and adopts) and the rows of a pass go on; the
strong fairness of `Translate` and `PassBegins` says that `watch_orders`
alternates between draining its queue and the pass, which interrupt each other
again and again (`events.py`, the ~5 s cadence).  The venue has none: an order
may rest for ever.  `TokenSession`: every task that can go on does; a request
ends by its timeout.  `AccountSession`: the same for coroutines; the venue
answers what it received on a connection that stays up; `TakesLock` is strongly
fair because `asyncio.Lock` wakes its waiters in order; `FileLock` may be
assumed to come because of `LockFreed`.  Reconnecting is not assumed fair there, no
property needs it, and losses, overruns and `NetLoss` are never fair.
`FeedContinuity`: the clock, the publication and the coroutines; a collection
goes on, but whether it waits in place or gives up and reconnects is open, and
nothing makes a slot trade.  `OwnCloses` has none: its properties are safety.
`RecoveredCloses`: the stream goes on, a stopped process is started again, and a
pass that finds something to do is run (`PassDue` spells out when; the runs of
`watch_orders` are the ~5 s cadence).  `HistoryWalk`: passes go on and each read
ends; that *another* walk is not starved is what `TurnsTaken` checks.
`OrderTerms`: passes, the stream, and the end of an own amend, by its answer or its
timeout; nobody has to edit, and losses and restarts are never fair.

## 5. Where the code and its text disagree

Checked by a run (`findings` in `PROJECT.json` quotes the lines):

1. `fb_answer_fill`: `_persist_entry` raises the cursor in the same step in
   which `_surface_correlated_fill` re-queues the fill; the translator then takes
   it for a duplicate.

Reproducible with the modules, but without a run kept for each:

2. A cancel retires the row of a partly filled order whose fill's push was lost
   (`_base.py:1735` looks at the row's cursor only), against "a row carrying fills is
   left live" (`_base.py:1715-1721`): `RetiredRowsUnfilled`, as an invariant of
   `fb_gap.cfg` with `Qty = 2` (11 steps).
3. Without any loss, a row stamped while the history lagged keeps its stamp when a
   push counts a part of its order; when the residual is cancelled and the stamp
   expires, the row is retired, because a row linked to a position is reported
   cancelled when the history shows no close (`reconcile.py:1157`), without the look
   at the order's status that the docstring describes (`reconcile.py:1099-1105`).  A
   row that "carries any fill is a live (possibly partial) position — never a
   cancelled pending" (`reconcile.py:1390-1394`): `CountedRowsKept`, as an invariant
   of `fb_gap.cfg` with `Qty = 2`, `HistoryLags = TRUE`, `MaxDrops = 0` and
   `MaxReplays = 0` (19 steps).
4. On a venue whose amends take the remainder, an own amend of a partly filled order
   whose answer was lost is reported as somebody else's edit after the next fill,
   against "matched by the volume it sent, as the whole volume or the remainder,
   whatever that volume meant to the venue" (`protection.py:3616-3619`):
   `OwnExplained`, as an invariant of `ot_main.cfg` with `Venues <- RemainderTaken`,
   `NEdits = 0` and `Restarts = 0` (10 steps).
5. An edit of the volume that an operator resume accepted is reported again: the
   baseline view may look like the bot's own terms, in one of the readings
   `own_volume` allows, so its volume is not recorded, and the next fill shows that it
   never was (`protection.py:3790`, against "its terms become the bot's own",
   `protection.py:3770-3773`): `AcceptedStays`, as a property of `ot_main.cfg` with
   `Edits <- Raised`, `NAmends = 0` and `Losses = 0` (12 steps).
6. An order that fills while the process is down is adopted as an own leg and its
   row is later promoted from its deals: `BookedOnce` of `FillBooking`, as an
   invariant of `fb_crash.cfg` (one crash is enough).
7. A row without `order_id` is skipped by every pass once the process has
   adopted: `EveryFillBooked`, as a property of `fb_gap.cfg`.
8. The consent's save is outside the session lock: `FileNeverOlder` under
   `AuthSpec`.
9. The background recovery passes no generation; it repeats an application
   authorization, is refused and closes a healthy socket: `HealthyWireKept`.  The
   same action also lets a recovery that waited for the session lock on a lost
   connection close the connection that replaced it.
10. Until the stream has closed a bar, no gap is looked for; a bar seen forming
   before a loss, with no push after a reconnect within its slot, is left out:
   `FeedSpec` under `FirstBarSpec`.  A snapshot of the bar in progress on
   subscription would hide this when it arrives in time; the code does not ask for
   one.
11. A close accepted by an operator resume may be reported later:
   `AcceptedStaysAccepted` of `RecoveredCloses` under `Spec` with `Mine0 = 3`,
   `Others0 = 0`, two deals, one loss, crash and resume (`state.py:296-299` and
   `reconcile.py:628-638`, against "never judged", `reconcile.py:588-591`).
12. A crash forgets the own closes whose fill was not seen, and with them how far the
   share may have sunk: `CrashUnseen = TRUE` breaks `JournalCovers`, `BookCovers`,
   `ReportNotLost` and `RecoveredExact` of `RecoveredCloses`.
13. A position that is gone when the pass runs is judged against the share a pending
   start-up shrink has already baselined: `GoneFirst = TRUE` breaks `ReportNotLost`
   (`reconcile.py:582-587`).
14. A history is not complete when a page ends between two deals of one millisecond:
    `Ties = TRUE` breaks `Complete` of `HistoryWalk` (`reconcile.py:1790-1797`,
    against "every filled deal", "conclusive only when the whole window was
    consumed").
15. A position's walk is starved by a row's walk that never gets an answer:
    `TurnsTaken` is stated for rows only; with one of each and the row in `Stalled`
    the position's walk never ends (`events.py:211-214`).
16. An edit accepted by a resume is reported when a push shows it before the first
    pass: `_judge_replaced_order` does not look at the resume, and
    `_observe_resume_baseline` covers positions only.  `ReportsTrue` therefore exempts
    the time before the baseline.

Met while reading, without a run of their own:

* `_advance_fill_cursor` sets the cursor to a cumulative volume while the event
  carries one deal (`events.py:941`): when the push of an earlier slice is lost
  and a later one arrives before a pass, the lost slice is passed over
  (`fb_calm` with two slices and `MaxDrops = 1` shows it in 9 steps), against
  `events.py:9-15`, where the pass "gap-fills events lost during a disconnect";
* each call of `watch_ohlcv` starts a repair over; a runner's timeout shorter
  than a history read would never let it finish;
* a row marked `recovered_inconclusive` is left out of the baseline so that "the
  PUSH stream applies that fill exactly once" (`recovery.py:564-565`,
  `state.py:179-188`), but the adoption has counted the fill already (the second
  half of `lag` in `FillBooking`);
* paging by `oldest - 1` skips deals of the same millisecond
  (`recovery.py:696`);
* the report of a close names that close only, but stands for every close of the
  position judged until the policy ran (`protection.py:3024`): after a crash with a
  report waiting, a close found at the start is marked as judged without a report
  of its own, or its row is retired without a judgement (`protection.py:3132`);
  `ReportNotLost` counts it as covered by the one that waits, as `_base.py:336-338` says;
* a heartbeat echo that fails inside `_recv_loop` raises an error the loop
  does not catch (`wire.py:446-460`), which `WireClient.disconnect` then
  re-raises from its `await task` (`wire.py:283-288`); and the heartbeat loop
  itself waits for the send lock, so a stalled drain stops the idle watchdog;
* a shrink to the same volumes as one this process judged before is never judged again
  (`reconcile.py:651`, `reconcile.py:669`, against the docstring at
  `reconcile.py:571-578`); `ShrinkJudged` exempts it;
* an addition of others after a close hides the close's take of the share when the
  window does not reach the position's start; a later close may then be booked too
  high and a replay retire it again (`protection.py:3048`); `Undisturbed` excludes it;
* the baseline of a restart and its pending shrink are two writes (`state.py:295`); a
  crash between them loses the shrink;
* `_find_order_by_coid` pages by an order's last-update time, which changes while it
  reads (`recovery.py:669-706`);
* an amend whose answer was lost takes over the accepted view's answer when the volumes
  coincide; of two amends of the same terms, the refused one's withdrawal drops the
  other's entry; an attribute the venue fills in while two amends are on their way is
  taken for somebody else's;
* an unreadable session file is read as an empty one and saved over (`session.py:100`);
* `_recover_account_session` does not catch the `OSError` of a failed
  `save_session`; `_proactive_reauth` does.

## 6. Proofs

`tlapm` checks every leaf; the theorems hold for every value of the constants
under the modules' named assumptions (counts are naturals, an order has at least
one slice, tasks are finite and belong to processes).

**FillBookingProofs.**  `NeverOverbooked` is not inductive: whether a report may
be booked depends on what reports, snapshots and cursors can say.  `IInv` adds:
no report or snapshot claims more than was executed (`ReportsSound`); an order
that was never sent has no trace (`UnsentSound`); a cursor is zero before the
first execution and on a row without refs (`CursorSound`); a pass owes only rows
with an order id (`WorklistSound`); and the key fact, `booked <= filled + lag`
(`BookSound`): whatever was booked, the durable cursor covers, except what an
adoption counted.  A path books up to its report and moves the cursor at least
as far, so the bound is kept; the translator's comparison with the cursor and the
pass's with the snapshot do the rest.  One lemma per action (`VenueStep` ...
`AdoptStep`) shows at once that a step keeps the invariant, is a step of the
ledger or one it does not see, and moves no cursor back; `RowFrame`, `BookFrame`
and `RowsFrame` state once what the actions on rows have in common.  From them:
`TypeCorrect`, `InvariantHolds`, `NeverOverbookedHolds`, `CursorOnlyGrowsHolds` and
`LedgerImplemented` (the refinement, with `executed <- exec`, `twice <- lag`,
`open <- proc = "running"`).  `AdoptionAlignsCursorHolds` needs one fact more, proved
as a second layer: what an adoption counted twice stays covered by the marks of its
row, which no step takes from an executed order.

Two more layers follow.
`FilledRowsKeptHolds` assumes nothing, of the venue, the history, the connection or the
number of slices: a row is retired only when its order executed nothing and never will,
or in one of two cases its statement spells out (`GraceOnPart`, `LateCancel`: the
second and third disagreement of section 5).  A row is retired by a cancel, a
recovery or an expired stamp.  For the stamp, `Fates` follows rows: one is stamped when
neither a deal nor a position was known, its expiry retires any row that has a
position by then, and pushes go on between the two passes; but only rows whose dispatch
ended are stamped, and a stamped row that gets its position counts a fill, so when it
counts the whole order, the next pass, whose snapshot is taken after it, shows that and
clears the stamp before the grace phase.  For the cancel, `Turn` says that as long as
nothing was lost an executed order whose cursor counts nothing has a fill to be told
before its cancel, in the two queues one after the other, or as its dispatch's answer:
so a cancel that meets such a cursor proves a loss (`RetiredByCancel`).
`NoFillSkippedHolds` assumes that no connection is lost, no process crashes and no
dispatch is answered with a fill, and holds for any number of orders, slices and
copies, and for a history that fails or lags.  `Calm` follows the deals through both
queues (`InOrder`): before a message with a slice, every earlier slice of its order is
counted by the cursor or comes first; every executed slice is counted or on its way;
every deal in `_seen_deal_ids` is counted.  So a push that is not suppressed is the
next slice, and one booked unit is what the cursor moves by; and a pass whose deal sum
passes the cursor has a deal nobody has seen, so it books the difference.

**TokenSessionProofs.**  That nobody spends a voided token rests on the file not
moving under a refresh (`RefreshUndisturbed`), which rests on the lock
(`LockExclusive`), and on the reference for the adoption being what was last
synchronized (`InStep`), not what is in use: after a failed save the pair in use
is newer than the file, and `InStep` is exactly what then keeps the older one
from coming back.  The venue's side is one fact, `LatestOnly`.  One lemma per
action; the four theorems follow.  They are about `Spec`: with consents
(`AuthSpec`) `FileNeverOlder` is false.

**AccountSessionProofs.**  That a repeated write was not executed before rests on its
caller having read the answer to *its own* first sending.  `AnswersMatch` says that of
the messages on their way exactly one is for each caller that waits on the live
connection; it holds because nothing survives a connection (`WireSound`: a socket that
is down has no messages, and no coroutine uses a connection yet to come), so a
coroutine of an earlier one can take no answer of a later.  `WriteSound` ties the
answer to the execution, `LockExclusive` the plan of a recovery to the holder of
the re-auth lock, and `PlanSound` says that a plan never ends with the session lock, so
that skipping the refresh leaves the account auth to be made.  One lemma per action;
all ends of a failed recovery share `GivesUpStep`, all moves of a caller that has no
answer share `GoesStep`.

**FeedContinuityProofs.**  That nothing is left out rests on two facts that no
single step shows.  What a settled collection did not read did not trade
(`SettledSound`): a slot enters the ledger only after its close (`LedgerSound`),
so after `Evidence` it is older than `Lag` and would have been served
(`PassSound`).  And what waits fits on what was handed over: history bars follow
the last closed bar without a gap (`HistorySound`), stream bars are newer than
both (`StreamSound`), and a repair reaches exactly up to the bar that waits for
it (`CandidateSound`).  One lemma per action shows that it keeps the invariant
and hands over the next bars or nothing.  `FeedImplemented` is the
refinement, with `got <- done`; it is about `Spec`, which starts after the first
close: from `FirstBarInit` it is false.

**HistoryWalkProofs.**  `Complete` speaks of a walk that ended; what makes it true
is about walks under way: a deal of the window that had executed when the window was
last extended has been read or lies in a sub-window still owed (`KnownCovered`), and
one that executed since bears a stamp within `Overlap` of the window's end, so that
the next extension reads it again (`LateReread`), which needs `Skew <= Overlap`.  That
a page read oldest-first from the end of a sub-window, or a second sub-window merged
into the one owed, leaves no deal out is `OwedSound`, and gives `FewOwed` too.  The
theorems assume `~Ties`: with two deals of one millisecond they are false (section 5).

**RecoveredClosesProofs.**  The history may be of any length, and the share, the
journal and the engine's volume are sums over it.  Three layers:

* *The history* (`Base`, `ReplaySound`).  Going through a position's whole history
  from an empty share meets the true share before every close, whoever closed and
  whatever others held: a close of others takes what their own exposure does not
  cover, which is what `_replay_share_closes` computes from the volume it left.  So an
  exact verdict finds of each close what it took (`HistoryReplaysTrue`, `ExactFound`).
* *The balance* (`Kept`).  `JournalCovers` is not inductive: a push, a baseline and a
  verdict may each retire a close, and whether the next one finds anything left
  depends on what is still owed.  `ShareSound` counts it: the journal, with the
  shrink it still owes, holds the true share and what every close still to be judged
  took, and it holds what the pushes on their way that will be judged took;
  `BookSound` says the same of the engine.  A pushed close must then find the share
  that was there when it executed: `ArrivalSound` bounds the share from both sides, up
  to the own closes whose fill was not seen, and `PendingSound` says that what this
  process waits for it has neither seen nor judged.  From it, under `~CrashUnseen`,
  `JournalCoversAlways`, `BookCoversAlways` and `ShortfallJudgedExactly`.
* *The reports* (`Told`).  A history read from the run's first entry on does not start
  from an empty position, and yields bounds.  `WindowSound` bounds the share from above
  by what each close still to be judged left, took and what was opened since: so the
  upper bound of a verdict is never below what the close took (`HighCovers`,
  `LowBounded`, `WindowFinds`), and a close marked as external was reported, its
  doubt logged, or covered by the report that waited.  A new report is queued only when
  none waits, and while the process is up none does (`FlushSound`), so what stands for
  a close is on its way to the policy or handled.  With `~GoneFirst` as well: `ReportNeverLost`, `InvariantHolds`.

`~CrashUnseen` and `~GoneFirst` are no convenience: with either the properties are
false, of the model and of the code (section 5, items 12 and 13).

The first part of the module holds what the library lacks: sums of naturals over
finite sets, from the definition of `SumFunctionOnSet` (`SumStep`, `SumRemove`,
`SumAdd`, `SumUnion`, `SumGrows`, `SumMost`, `SumSame`), and that a recursion along a
history has a solution and only one (`RecursionExists`, `RecursionAgrees`).  The
induction theorems of the library take an operator as a parameter, which the provers
here cannot instantiate; `NatInduct` and `FiniteInduct` are stated for the *set* of
the numbers, or subsets, a claim holds for, and proved from its least counterexample.

**OwnClosesProofs.**  That nobody is accused of what the bot did itself rests on two
facts that meet only when a fill is judged.

* *What is said is true* (`Truthful`): every message, answer, claim, verdict and
  report that speaks of a deal says whose it was and nothing the deal was not.
* *A close of the bot's is known as long as its fill may come* (`Tracked`).  While its
  order can still execute, or its fill is on its way, the close is `Alive`: sent and
  unanswered, or answered with its order, or given up as unknown but kept.  Either its
  order is recorded, and the fill is taken by it, or it is the one in dispatch whose
  order nobody knows, and the fill is held for it.  `OneByOne` (closes are sent one at
  a time, in order) makes that one unique; `OwnPushesTracked` and `OwnClaimsTracked`
  carry the fact through the queue of pushes and the held claims, so that neither a
  first judgement (`OwnIsClaimed`) nor a second, when the answer names the order, finds
  an own fill without its close.

The invariant is their conjunction with the types and `HeldIsAwaited`.
`OnlyForeignReported` (a close reported as somebody else's was never a deal of the
bot's own order), `HeldEventsAwaited` and `TypeCorrect` follow, for every share, number
of closes, volume of others, tie of two deals, answer lost or late, and entry.
`ReportsForeign` is the first half of the checked `ReportsTrue`.

**OrderTermsProofs.**  Two layers, as the reports need both.

* `Sound`: types, amends leave in order, the journal holds each of their terms once,
  and those of the amend in flight last.  It gives `TermsSound`, and
  `RefusalWithdraws`: a refused amend leaves no terms behind that could excuse somebody
  else's edit.
* `Calm`: as long as nobody else edits, the journal explains every view of the order
  that is on its way or can still be taken: what the venue shows was asked for by an
  amend the journal knows (`Claimed`, `Covers`), the newest view is the newest amend's
  (`Latest`), and what the bot compares against was settled by one (`Settled`,
  `Knowable`).  It gives `CalmKept`, `KnowledgeIsSound`, and `NoneAccused`: nobody is
  reported where nobody edited, with any number of amends, each late, lost, refused or
  seen before its answer.

The second layer assumes `TakesWhole`: the venue takes the volume of an amend as the
whole of the order, which is how the plugin sends it.  On a venue that took it as the
remainder the claims are false, of the model and of the code (section 5, item 4).
In what volume
the venue *shows* an order the theorems allow both.  The checked `ReportsTrue` speaks of
runs in which others do edit.

**Only model-checked.**  Of `OwnCloses` the claims about volume: `BookMatchesVenue`,
`ForeignCloseNoticed`, and that a report's close took something of the share (the
second half of `ReportsTrue`).  An inductive form would have to bound what every
claim, answer, effect and push still pending may take of the share, in every order
they can arrive.  Of `OrderTerms` the reports once somebody else edited (`ReportsTrue`): an edit a
resume accepted stays the bot's own unless it changed the volume; the unrestricted claim,
`AcceptedStays`, is false (section 5, item 5).  Liveness
(`KnownFillBooked`, `LockFreed`, `PushedLossRepaired`, `CallersReturn`,
`OutageBarsDelivered`, `ShrinkJudged`, `TurnsTaken`, `EditNoticed`) is out of the
prover's reach, as is `ENABLED`.

## 7. Not modelled

Exits (their placing, amending and cancelling) and cancels by the strategy; the
protection levels of positions, whose guard (`ProtectionLevelGuard`) belongs to
PyneCore and not to this repository; positions on hedging accounts as far as they
differ; the sweep of debris orders and the search for an order by its client id; the
reads of a start-up without deadline.  Account probing, symbol and session data,
history download, configuration and the OAuth browser exchange are
request-and-convert code without interleaving.  Generated protocol code and the broker laboratory
are not part of the program's logic.
