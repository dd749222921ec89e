----------------------------- MODULE OrderTerms -----------------------------
(***************************************************************************)
(* Whose are the terms of a working entry order?  The bot journals every   *)
(* price and volume it sends for the order, amends it while pushes and     *)
(* snapshots of it are on their way, and reports a view none of its own    *)
(* writes explains as someone else's edit.                                 *)
(*                                                                         *)
(* One LIMIT entry.  What the venue shows and takes as the volume of a     *)
(* partly filled order is either the whole or the remainder, and the bot   *)
(* has to learn which.  The attributes the bot never sets are one value,   *)
(* "default" or "set".                                                     *)
(***************************************************************************)
EXTENDS Integers, Sequences, SequencesExt

CONSTANTS Volume,     \* the volume the bot placed
          OwnTerms,   \* what the bot may amend the order to: [price, vol]
          Edits,      \* what others may amend it to: [price, total, attr]
          Venues,     \* what a view's and an amend's volume may be: [shows, takes]
          NAmends,    \* bound: own amends
          NEdits,     \* bound: others' edits
          NFills,     \* bound: fills
          Losses,     \* bound: lost connections and answers
          Restarts,   \* bound: restarts
          MaxQueue,   \* bound: pushes that wait
          VenueSets,  \* may the venue fill in attributes at an own amend?
          None

Amends == 1 .. NAmends
Meanings == {"whole", "remainder"}

ASSUME MeaningAssumption == Venues \subseteq [shows : Meanings, takes : Meanings]
ASSUME TermsAssumption ==
  /\ Volume \in Nat \ {0}
  /\ OwnTerms \subseteq [price : Nat, vol : Nat]
  /\ Edits \subseteq [price : Nat, total : Nat, attr : {"default", "set"}]
ASSUME BoundAssumption ==
  /\ NAmends \in Nat /\ NEdits \in Nat /\ NFills \in Nat
  /\ Losses \in Nat /\ Restarts \in Nat /\ MaxQueue \in Nat /\ VenueSets \in BOOLEAN

Views == [price : Nat, exec : Nat, vol : Nat, attr : {"default", "set"}]

ASSUME NoneAssumption == None \notin Views /\ None \notin Meanings \union {"default", "set"}

VARIABLES
  order,      \* venue: the order
  means,      \* venue: what a volume means; it does not change
  queue,      \* _exec_events: replaced and partial-fill pushes
  amend,      \* per own amend: its request or answer, and what its caller keeps
  terms,      \* journal: own_order_terms of the row
  attrs,      \* journal: the attributes known as the bot's
  baseline,   \* journal: the resume whose baseline view was taken
  resume,     \* operator_resume_ts_ms
  baselined,  \* _orders_seen_after_resume
  attrSeen,   \* _order_attrs_seen
  attrBefore, \* _attrs_before_amend
  held,       \* _replaced_during_amend
  semantics,  \* _order_volume_semantics
  watch,      \* _order_terms_watch
  reported,   \* _replaced_reported
  snap,       \* the snapshot a pass is working on
  accepted,   \* the edits made before the last resume
  noticed,    \* was the last edit reported, audited or accepted?
  resized,    \* did an edit change the volume?
  edits, losses, restarts, resumes

venueVars == <<order, means, queue>>
journalVars == <<terms, attrs, baseline>>
amendVars == <<attrBefore, held>>
historyVars == <<accepted, noticed, resized>>
boundVars == <<edits, losses, restarts, resumes>>
vars == <<venueVars, amend, journalVars, resume, baselined, attrSeen, amendVars, semantics, watch,
          reported, snap, historyVars, boundVars>>

Entry(price, vol, answer) == [price |-> price, vol |-> vol, answer |-> answer]
Idle == [phase |-> "idle", sent |-> None, before |-> <<>>, answer |-> None]
Over == [Idle EXCEPT !.phase = "over"]

\* The order as a message of the venue shows it.
View(o) == [price |-> o.price, exec |-> o.exec, attr |-> o.attr,
            vol |-> IF means.shows = "whole" THEN o.total ELSE o.total - o.exec]
Shown(view) == [vol |-> view.vol, exec |-> view.exec]

Working == order.exec < order.total

\* The answer to the placement came back, or was lost and the order recovered.
Init ==
  /\ order = [price |-> 1, total |-> Volume, exec |-> 0, attr |-> "default"]
  /\ means \in Venues /\ queue = <<>> /\ amend = [a \in Amends |-> Idle]
  /\ \/ terms = <<Entry(1, Volume, [vol |-> Volume, exec |-> 0])>> /\ attrSeen = "default"
     \/ terms = <<Entry(1, Volume, None)>> /\ attrSeen = None
  /\ attrs = {"default"} /\ baseline = 0 /\ resume = 0 /\ baselined = FALSE
  /\ attrBefore = None /\ held = None /\ semantics = None
  /\ watch = None /\ reported = FALSE /\ snap = None
  /\ accepted = 0 /\ noticed = TRUE /\ resized = FALSE
  /\ edits = 0 /\ losses = 0 /\ restarts = 0 /\ resumes = 0

-----------------------------------------------------------------------------
(* The terms the journal holds as the bot's *)

Same(entry, price, vol) == entry.price = price /\ entry.vol = vol
Without(ts, price, vol) ==
  LET kept[n \in 0 .. Len(ts)] ==
        IF n = 0 THEN <<>>
        ELSE IF Same(ts[n], price, vol) THEN kept[n - 1] ELSE Append(kept[n - 1], ts[n])
  IN kept[Len(ts)]

\* Mutant: an earlier write of the same terms keeps its entry.
RememberTermsTwice(ts, price, vol) == Append(ts, Entry(price, vol, None))

\* The latest write goes last.
RememberTerms(ts, price, vol) == Append(Without(ts, price, vol), Entry(price, vol, None))

\* A refused write is taken back; an earlier write of the same terms stays.
WithdrawTerms(ts, sent, before) ==
  LET rest == Without(ts, sent.price, sent.vol)
      earlier == {i \in DOMAIN before : Same(before[i], sent.price, sent.vol)}
  IN IF earlier = {} THEN rest
     ELSE LET i == CHOOSE j \in earlier : \A k \in earlier : j <= k
          IN InsertAt(rest, IF i <= Len(rest) THEN i ELSE Len(rest) + 1, before[i])

RememberAnswer(ts, sent, view) ==
  [i \in DOMAIN ts |->
     IF Same(ts[i], sent.price, sent.vol) THEN [ts[i] EXCEPT !.answer = Shown(view)] ELSE ts[i]]

\* Mutant: the volume is judged by what was sent, as the whole.
OwnVolumeSent(e, view) == e.vol = view.vol

\* The volume the answer showed, or that less what executed since; of a write whose
\* answer was lost, the volume sent.
OwnVolume(e, view) ==
  IF e.answer = None THEN e.vol \in {view.vol, view.vol + view.exec, view.vol - view.exec}
  ELSE \/ semantics # "remainder" /\ view.vol = e.answer.vol
       \/ semantics # "whole" /\ view.vol = e.answer.vol + e.answer.exec - view.exec

\* Mutant: only the price and the volume are judged.
OwnTermsOnly(ts, known, view) == \E i \in DOMAIN ts : ts[i].price = view.price /\ OwnVolume(ts[i], view)

Own(ts, known, view) ==
  view.attr \in known /\ \E i \in DOMAIN ts : ts[i].price = view.price /\ OwnVolume(ts[i], view)

-----------------------------------------------------------------------------
(* The venue *)

InFlight == {a \in Amends : amend[a].phase \in {"out", "back"}}

Push(kind) ==
  queue' = IF Len(queue) < MaxQueue THEN Append(queue, [kind |-> kind, view |-> View(order')]) ELSE queue

Fill ==
  /\ order.exec < NFills /\ order.exec + 1 < order.total /\ Len(queue) < MaxQueue
  /\ order' = [order EXCEPT !.exec = @ + 1]
  /\ Push("partial")
  /\ UNCHANGED <<means, amend, journalVars, resume, baselined, attrSeen, amendVars, semantics, watch, reported,
                 snap, historyVars, boundVars>>

Edit ==
  /\ edits < NEdits /\ edits' = edits + 1 /\ Working /\ Len(queue) < MaxQueue
  /\ \E e \in Edits :
       /\ e.total > order.exec
       /\ order' = [order EXCEPT !.price = e.price, !.total = e.total, !.attr = e.attr]
       /\ order' # order
  /\ Push("replaced") /\ noticed' = FALSE /\ resized' = (resized \/ order'.total # order.total)
  /\ UNCHANGED <<means, amend, journalVars, resume, baselined, attrSeen, amendVars, semantics, watch, reported,
                 snap, accepted, losses, restarts, resumes>>

\* Requests are handled in the order they were sent.
AtVenue(a) ==
  amend[a].phase \in {"out", "adrift"} /\ \A b \in Amends : b < a => amend[b].phase \notin {"out", "adrift"}

Return(a, answer) ==
  amend' = [amend EXCEPT ![a] = IF @.phase = "out" THEN [@ EXCEPT !.phase = "back", !.answer = answer] ELSE Over]

\* Assumed: the venue fills in attributes only where a single amend is on its way.
Alone(a) == \A b \in Amends : b = a \/ amend[b].phase \in {"idle", "over"}

\* The amend's own push may precede its answer.
Accept(a) ==
  /\ AtVenue(a) /\ Working
  /\ \E attr \in {order.attr} \union (IF VenueSets /\ Alone(a) /\ amend[a].phase = "out" THEN {"set"} ELSE {}),
        echoed \in BOOLEAN :
       LET total == IF means.takes = "whole" THEN amend[a].sent.vol ELSE order.exec + amend[a].sent.vol
       IN /\ total > order.exec
          /\ order' = [order EXCEPT !.price = amend[a].sent.price, !.total = total, !.attr = attr]
          /\ IF echoed THEN Len(queue) < MaxQueue /\ Push("replaced") ELSE UNCHANGED queue
          /\ Return(a, View(order'))
  /\ UNCHANGED <<means, journalVars, resume, baselined, attrSeen, amendVars, semantics, watch, reported, snap,
                 historyVars, boundVars>>

\* A refused request, or one that never reaches the venue.
Refuse(a) ==
  /\ AtVenue(a)
  /\ Return(a, None)
  /\ UNCHANGED <<venueVars, journalVars, resume, baselined, attrSeen, amendVars, semantics, watch,
                 reported, snap, historyVars, boundVars>>

-----------------------------------------------------------------------------
(* Own amends *)

\* _begin_own_amend
Send(a) ==
  /\ amend[a].phase = "idle" /\ \A b \in Amends : b < a => amend[b].phase # "idle"
  /\ InFlight = {} /\ Working
  /\ \E sent \in OwnTerms :
       /\ terms' = RememberTerms(terms, sent.price, sent.vol)
       /\ amend' = [amend EXCEPT ![a] = [phase |-> "out", sent |-> sent, before |-> terms, answer |-> None]]
  /\ attrBefore' = attrSeen
  /\ watch' = None
  /\ UNCHANGED <<venueVars, attrs, baseline, resume, baselined, attrSeen, held, semantics, reported, snap,
                 historyVars, boundVars>>

\* _end_own_amend, without an answer
Ended ==
  /\ attrBefore' = None /\ watch' = None
  /\ snap' = IF snap = None THEN None ELSE [snap EXCEPT !.stale = TRUE]

\* Attributes some view showed before the amend were someone else's.
Earlier(view) ==
  {attrBefore} \union
    (IF held # None /\ (held.price # view.price \/ held.vol # view.vol) THEN {held.attr} ELSE {})

Unexplained(view) == view.attr \notin attrs /\ view.attr \notin Earlier(view)

Answered(a) ==
  /\ amend[a].phase = "back" /\ amend[a].answer # None
  /\ LET view == amend[a].answer
     IN /\ terms' = RememberAnswer(terms, amend[a].sent, view)
        /\ attrSeen' = view.attr
        /\ attrs' = IF Unexplained(view) THEN attrs \union {view.attr} ELSE attrs
        /\ noticed' = (noticed \/ Unexplained(view))
  /\ amend' = [amend EXCEPT ![a] = Over]
  /\ Ended
  /\ UNCHANGED <<venueVars, baseline, resume, baselined, held, semantics, reported, accepted, resized, boundVars>>

Refused(a) ==
  /\ amend[a].phase = "back" /\ amend[a].answer = None
  /\ terms' = WithdrawTerms(terms, amend[a].sent, amend[a].before)
  /\ amend' = [amend EXCEPT ![a] = Over]
  /\ Ended
  /\ UNCHANGED <<venueVars, attrs, baseline, resume, baselined, attrSeen, held, semantics, reported,
                 historyVars, boundVars>>

\* Assumed: an answer that shows what the venue filled in is not lost.
Losable(a) == (VenueSets /\ amend[a].answer # None) => amend[a].answer.attr \in attrs

Adrift(As) ==
  [a \in Amends |->
     IF a \notin As THEN amend[a]
     ELSE IF amend[a].phase = "out" THEN [Idle EXCEPT !.phase = "adrift", !.sent = amend[a].sent] ELSE Over]

\* The answer does not come in time; the amend may still execute.
AnswerLost(a) ==
  /\ a \in InFlight /\ Losable(a) /\ losses < Losses /\ losses' = losses + 1
  /\ amend' = Adrift({a}) /\ Ended
  /\ UNCHANGED <<venueVars, journalVars, resume, baselined, attrSeen, held, semantics, reported, historyVars,
                 edits, restarts, resumes>>

\* A lost connection drops the pushes on it and every answer.
LinkLost ==
  /\ losses < Losses /\ losses' = losses + 1 /\ \A a \in InFlight : Losable(a)
  /\ queue' = <<>> /\ amend' = Adrift(InFlight)
  /\ IF InFlight = {} THEN UNCHANGED <<attrBefore, watch, snap>> ELSE Ended
  /\ UNCHANGED <<order, means, journalVars, resume, baselined, attrSeen, held, semantics, reported, historyVars,
                 edits, restarts, resumes>>

-----------------------------------------------------------------------------
(* Views of the order *)

\* The views are judged in turn, until one is reported.
Judge(ts, known, views) ==
  LET foreign == {i \in DOMAIN views : ~Own(ts, known, views[i])}
      last == IF foreign = {} THEN Len(views) ELSE CHOOSE i \in foreign : \A j \in foreign : i <= j
  IN IF reported THEN UNCHANGED <<reported, attrSeen>>
     ELSE /\ reported' = (foreign # {})
          /\ attrSeen' = IF views = <<>> THEN attrSeen ELSE views[last].attr

\* _judge_held_replaced_orders
HeldNow == IF held # None /\ InFlight = {} THEN <<held>> ELSE <<>>
Released == IF InFlight = {} THEN None ELSE held

\* Mutant: a fill the answer had already shown teaches too.
TaughtByAny(view, shown) == IF view.vol = shown.vol THEN "whole" ELSE "remainder"

\* What a partial fill teaches of the venue's volume; None when both fit, or neither.
Taught(view, shown) ==
  LET whole == view.vol = shown.vol
      remainder == view.vol + view.exec = shown.vol + shown.exec
  IN IF view.exec <= shown.exec \/ whole = remainder THEN None
     ELSE IF whole THEN "whole" ELSE "remainder"

Learn(view) ==
  LET answer == Last(terms).answer
      taught == IF answer = None THEN None ELSE Taught(view, answer)
  IN semantics' = IF taught = None THEN semantics
                  ELSE IF semantics \in {None, taught} THEN taught ELSE None

Translate ==
  /\ queue # <<>> /\ snap = None
  /\ LET view == Head(queue).view
     IN \/ /\ Head(queue).kind = "replaced" /\ InFlight # {}
           /\ held' = view
           /\ UNCHANGED <<reported, attrSeen, semantics, watch>>
        \/ /\ Head(queue).kind = "replaced" /\ InFlight = {}
           /\ Judge(terms, attrs, <<view>> \o HeldNow)
           /\ held' = Released
           /\ watch' = IF reported' # reported THEN None ELSE watch
           /\ UNCHANGED semantics
        \/ /\ Head(queue).kind = "partial"
           /\ Learn(view)
           /\ Judge(terms, attrs, HeldNow)
           /\ held' = Released
           /\ watch' = IF reported' # reported THEN None ELSE watch
  /\ queue' = Tail(queue)
  /\ noticed' = (noticed \/ reported')
  /\ UNCHANGED <<order, means, amend, journalVars, resume, baselined, attrBefore, snap, accepted, resized, boundVars>>

PassBegins ==
  /\ snap = None /\ Working
  /\ snap' = [view |-> View(order), stale |-> FALSE]
  /\ UNCHANGED <<venueVars, amend, journalVars, resume, baselined, attrSeen, amendVars, semantics, watch,
                 reported, historyVars, boundVars>>

\* An amend in flight, or answered since the read began, keeps a view from being judged.
PassSkips ==
  /\ snap # None /\ (InFlight # {} \/ snap.stale)
  /\ watch' = IF InFlight # {} THEN None ELSE watch
  /\ Judge(terms, attrs, HeldNow)
  /\ held' = Released /\ snap' = None /\ noticed' = (noticed \/ reported')
  /\ UNCHANGED <<venueVars, amend, journalVars, resume, baselined, attrBefore, semantics, accepted, resized, boundVars>>

Judgeable == snap # None /\ InFlight = {} /\ ~snap.stale
BaselineDue == resume # 0 /\ ~baselined /\ baseline # resume

\* Two passes must show the same terms, whatever executed between them.
Watched(view) == [view EXCEPT !.exec = 0]

\* _observe_working_order
PassObserves ==
  /\ Judgeable /\ ~(BaselineDue /\ ~reported /\ ~Own(terms, attrs, snap.view))
  /\ baselined' = (resume # 0) /\ baseline' = IF BaselineDue THEN resume ELSE baseline
  /\ \/ /\ reported \/ Own(terms, attrs, snap.view)
        /\ watch' = None
        /\ Judge(terms, attrs, <<snap.view>> \o HeldNow)
     \/ /\ ~reported /\ ~Own(terms, attrs, snap.view)
        /\ IF watch = Watched(snap.view)
           THEN watch' = None /\ reported' = TRUE /\ attrSeen' = snap.view.attr
           ELSE /\ Judge(terms, attrs, HeldNow)
                /\ watch' = IF reported' THEN None ELSE Watched(snap.view)
  /\ held' = Released /\ snap' = None /\ noticed' = (noticed \/ reported')
  /\ UNCHANGED <<venueVars, amend, terms, attrs, resume, attrBefore, semantics, accepted, resized, boundVars>>

\* _accept_order_view_by_resume
PassAccepts ==
  /\ Judgeable /\ BaselineDue /\ ~reported /\ ~Own(terms, attrs, snap.view)
  /\ LET view == snap.view
     IN /\ terms' = RememberAnswer(RememberTerms(terms, view.price, view.vol),
                                   [price |-> view.price, vol |-> view.vol], view)
        /\ attrs' = attrs \union {view.attr}
        /\ Judge(terms', attrs', IF HeldNow = <<>> THEN <<view>> ELSE HeldNow)
  /\ baselined' = TRUE /\ baseline' = resume
  /\ watch' = None /\ held' = Released /\ snap' = None /\ noticed' = TRUE
  /\ UNCHANGED <<venueVars, amend, resume, attrBefore, semantics, accepted, resized, boundVars>>

PassFails ==
  /\ snap # None /\ losses < Losses /\ losses' = losses + 1
  /\ Judge(terms, attrs, HeldNow)
  /\ held' = Released /\ snap' = None /\ noticed' = (noticed \/ reported')
  /\ watch' = IF reported' # reported THEN None ELSE watch
  /\ UNCHANGED <<venueVars, amend, journalVars, resume, baselined, attrBefore, semantics, accepted, resized, edits,
                 restarts, resumes>>

-----------------------------------------------------------------------------
(* Restarts *)

\* The journal survives, and the venue is done with what was sent before.  The next
\* process applies no operator resume, the last one again, or a new one, by which the
\* operator accepts the venue as it stands.
Restart ==
  /\ restarts < Restarts /\ restarts' = restarts + 1 /\ \A a \in InFlight : Losable(a)
  /\ \/ resume' \in {0, resumes} /\ UNCHANGED <<resumes, accepted>>
     \/ resumes' = resumes + 1 /\ resume' = resumes' /\ accepted' = edits
  /\ queue' = <<>>
  /\ amend' = [a \in Amends |-> IF amend[a].phase = "idle" THEN Idle ELSE Over]
  /\ baselined' = FALSE /\ attrSeen' = None /\ attrBefore' = None /\ held' = None
  /\ semantics' = None /\ watch' = None /\ reported' = FALSE /\ snap' = None
  /\ UNCHANGED <<order, means, journalVars, noticed, resized, edits, losses>>

Pass == PassBegins \/ PassSkips \/ PassObserves \/ PassAccepts
AmendEnds == \E a \in Amends : Accept(a) \/ Refuse(a) \/ Answered(a) \/ Refused(a)

Next == Fill \/ Edit \/ (\E a \in Amends : Send(a) \/ AnswerLost(a)) \/ AmendEnds \/ LinkLost
        \/ Translate \/ Pass \/ PassFails \/ Restart

Spec == Init /\ [][Next]_vars

FairSpec == Spec /\ WF_vars(Pass) /\ WF_vars(Translate) /\ WF_vars(AmendEnds)
-----------------------------------------------------------------------------
(* Properties *)

TypeOK ==
  /\ order.price \in Nat /\ order.exec < order.total /\ order.attr \in {"default", "set"}
  /\ \A i \in DOMAIN queue : queue[i].kind \in {"replaced", "partial"} /\ queue[i].view \in Views
  /\ \A a \in Amends : /\ amend[a].phase \in {"idle", "out", "back", "adrift", "over"}
                       /\ amend[a].sent \in OwnTerms \union {None}
                       /\ amend[a].answer \in Views \union {None}
  /\ \A i \in DOMAIN terms : terms[i].price \in Nat /\ terms[i].vol \in Nat
  /\ attrs \subseteq {"default", "set"} /\ {attrSeen, attrBefore} \subseteq {"default", "set", None}
  /\ {held, watch} \subseteq Views \union {None} /\ semantics \in Meanings \union {None}
  /\ {reported, noticed, baselined, resized} \subseteq BOOLEAN

\* What the bot goes by is well-formed and so: the journal holds each of its terms
\* once, and as long as nobody else edits, fills and answers that overtake each other
\* never teach it a volume the venue does not show.
KnowledgeSound ==
  /\ TypeOK
  /\ terms # <<>> /\ \A i, j \in DOMAIN terms : Same(terms[i], terms[j].price, terms[j].vol) => i = j
  /\ edits = 0 => semantics \in {None, means.shows}

\* The bot's own order is never reported as long as nobody else edited it, whatever of
\* its own amends is refused, unanswered, answered late or seen before its answer.
OwnExplained == edits = 0 => ~reported

\* Someone else is accused of an edit only when there was one the operator has not
\* accepted; until the resume's baseline is taken, an accepted edit may still be reported.
AcceptedStays == [][~reported /\ reported' => edits > accepted \/ baseline # resumes]_vars

\* The same unless an edit changed the volume: any other accepted edit stays the bot's
\* own through later fills, amends, lost answers and restarts.  An accepted volume may
\* look like one the bot sent, until the next fill.
ReportsTrue ==
  [][~reported /\ reported' => edits > accepted \/ baseline # resumes \/ resized]_vars

\* The order shows a price the bot never sent, or attributes it does not know.
Standing == order.price \notin {terms[i].price : i \in DOMAIN terms} \/ order.attr \notin attrs

\* An edit that stays on the order is reported, audited or accepted in the end, even
\* when its push was lost, held during an own amend or dropped by a restart.
EditNoticed == Standing ~> (noticed \/ ~Standing)
=============================================================================
