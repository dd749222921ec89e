------------------------- MODULE FillBookingProofs -------------------------
(***************************************************************************)
(* Proofs about FillBooking, for every set of orders, every order size and *)
(* every bound.                                                            *)
(*                                                                         *)
(* One lemma per action shows what a step of it keeps: the inductive       *)
(* invariant, the ledger's next-state relation and the durable cursor's    *)
(* growth (StepSound); the theorems combine them.  More invariants stand   *)
(* on that one: what an adoption counts twice (Aligned); what a stamped, a *)
(* linked and a retired row say of their order (Fates), and that a fill is *)
(* told before its cancel as long as nothing is lost (Turn), which decide  *)
(* why a row is retired; and fills that come in turn (Calm).               *)
(***************************************************************************)
EXTENDS FillBooking, TLAPS

USE DEF venueVars, chanVars, dispVars, bookVars, passVars, boundVars

Inv == TypeOK /\ IInv

\* A step of the ledger, or one it does not see.
LedgerStep == [Ledger!Next]_(Ledger!ledger)

CursorStep == \A o \in Orders : row'[o].filled >= row[o].filled

\* What every step is shown to do.
StepSound == Inv' /\ LedgerStep /\ CursorStep

OrdStates == {"none", "inflight", "working", "filled", "cancelled", "rejected"}

TaskStates == {"idle", "refused", "waiting", "answered", "lost", "done"}

\* Typing in the form the arithmetic steps need.
Numbers ==
  \A o \in Orders :
    /\ exec[o] \in Nat /\ exec[o] <= Qty /\ booked[o] \in Nat /\ lag[o] \in Nat
    /\ row[o] \in Row /\ row[o].filled \in Nat /\ row[o].filled <= Qty
    /\ snap[o].exec \in Nat /\ snap[o].exec <= Qty

\* Slices are numbers, and a bounded counter stays one.
LEMMA NumbersTyped ==
  ASSUME TypeOK PROVE Numbers /\ Qty \in Nat /\ Qty >= 1
BY QtyAssumption DEF TypeOK, Numbers, Slices, Row

-----------------------------------------------------------------------------
(* Queues of messages *)

\* Appending a sound message keeps a queue sound.
LEMMA SoundAppend ==
  ASSUME NEW q, NEW e, SoundQueue(q, e), NEW m \in Msg, SoundMsg(m, e)
  PROVE  SoundQueue(Append(q, m), e)
<1>1. q \in Seq(Msg)
  BY DEF SoundQueue
<1>2. Append(q, m) \in Seq(Msg)
  BY <1>1
<1>3. ASSUME NEW i \in DOMAIN Append(q, m)
      PROVE  SoundMsg(Append(q, m)[i], e)
  <2>1. Append(q, m)[i] = m \/ (i \in DOMAIN q /\ Append(q, m)[i] = q[i])
    BY <1>1
  <2> QED BY <2>1 DEF SoundQueue
<1> QED BY <1>2, <1>3 DEF SoundQueue

\* The head of a sound queue is a sound message and its tail is a sound queue.
LEMMA SoundTail ==
  ASSUME NEW q, NEW e, SoundQueue(q, e), q # <<>>
  PROVE  /\ Head(q) \in Msg /\ SoundMsg(Head(q), e)
         /\ SoundQueue(Tail(q), e)
<1>1. q \in Seq(Msg)
  BY DEF SoundQueue
<1>2. 1 \in DOMAIN q /\ Head(q) = q[1] /\ Head(q) \in Msg /\ Tail(q) \in Seq(Msg)
  BY <1>1
<1>3. ASSUME NEW i \in DOMAIN Tail(q)
      PROVE  SoundMsg(Tail(q)[i], e)
  <2>1. i + 1 \in DOMAIN q /\ Tail(q)[i] = q[i + 1]
    BY <1>1
  <2> QED BY <2>1 DEF SoundQueue
<1> QED BY <1>2, <1>3 DEF SoundQueue

\* Executions of an order never unsay a message about it.
LEMMA SoundMsgGrows ==
  ASSUME NEW e \in [Orders -> Slices], NEW f \in [Orders -> Slices],
         \A p \in Orders : f[p] >= e[p], NEW m \in Msg, SoundMsg(m, e)
  PROVE  SoundMsg(m, f)
BY QtyAssumption DEF SoundMsg, Msg, Slices

\* Nor does it unsay the messages of a queue.
LEMMA SoundQueueGrows ==
  ASSUME NEW e \in [Orders -> Slices], NEW f \in [Orders -> Slices],
         \A p \in Orders : f[p] >= e[p], NEW q, SoundQueue(q, e)
  PROVE  SoundQueue(q, f)
<1>1. q \in Seq(Msg)
  BY DEF SoundQueue
<1>2. \A i \in DOMAIN q : q[i] \in Msg
  BY <1>1
<1> QED BY <1>1, <1>2, SoundMsgGrows DEF SoundQueue

\* The empty queue says nothing wrong.
LEMMA SoundEmpty ==
  ASSUME NEW e PROVE SoundQueue(<<>>, e)
BY DEF SoundQueue

-----------------------------------------------------------------------------
(* The ledger *)

\* A step that moves none of the ledger's variables is a stutter of it.
LEMMA LedgerStutter ==
  ASSUME exec' = exec, booked' = booked, lag' = lag,
         (proc' = "running") <=> (proc = "running")
  PROVE  LedgerStep
BY DEF LedgerStep, Ledger!ledger

-----------------------------------------------------------------------------
(* The initial state *)

\* The initial states, the journal empty and the engine flat, satisfy Inv.
LEMMA InitInv == Init => Inv
<1> SUFFICES ASSUME Init PROVE Inv
  OBVIOUS
<1>1. TypeOK
  BY QtyAssumption, BoundAssumption
     DEF Init, TypeOK, NoAnswer, Answer, Msg, NoRow, Row, Slices, Snapshot
<1>2. SoundQueue(wire, exec) /\ SoundQueue(execq, exec)
  BY SoundEmpty DEF Init
<1>3. IInv
  BY <1>2, QtyAssumption
     DEF Init, IInv, ReportsSound, VenueSound, UnsentSound, CursorSound,
         WorklistSound, BookSound, SoundMsg, NoAnswer, Answer, NoRow, Slices,
         Snapshot
<1> QED BY <1>1, <1>3 DEF Inv

-----------------------------------------------------------------------------
(* The venue *)

\* A step of the venue on one order it has received.
LEMMA VenueFrame ==
  ASSUME Inv, NEW o \in Orders, NEW m \in Msg, Emit(m), SoundMsg(m, exec'),
         UNCHANGED <<link, task, answer, execq, row, leg, seen, booked, lag>>,
         UNCHANGED <<proc, pass, snap, todo, drops, crashes>>,
         replays' \in 0 .. MaxReplays,
         ord' \in [Orders -> OrdStates], exec' \in [Orders -> Slices],
         \A p \in Orders : p # o => ord'[p] = ord[p] /\ exec'[p] = exec[p],
         exec'[o] = exec[o] \/ exec'[o] = exec[o] + 1,
         ord[o] # "none", ord'[o] \notin {"none", "inflight"},
         ord'[o] = "working" => exec'[o] < Qty
  PROVE  StepSound
<1>n. Numbers /\ Qty \in Nat
  BY NumbersTyped DEF Inv
<1>g. \A p \in Orders : exec'[p] \in Nat /\ exec'[p] >= exec[p]
  BY <1>n DEF Slices, Numbers
<1>q. SoundQueue(wire', exec') /\ SoundQueue(execq, exec')
  <2>1. SoundQueue(wire, exec') /\ SoundQueue(execq, exec')
    BY <1>g, SoundQueueGrows DEF Inv, IInv, ReportsSound, TypeOK
  <2> QED BY <2>1, SoundAppend DEF Emit
<1>t. TypeOK'
  BY <1>q DEF Inv, TypeOK, SoundQueue, OrdStates
<1>1. ReportsSound'
  <2>1. \A p \in Orders : answer[p].ord = p /\ SoundMsg(answer[p], exec')
    BY <1>g, SoundMsgGrows DEF Inv, IInv, ReportsSound, TypeOK
  <2>2. \A p \in Orders : snap[p].exec <= exec'[p]
    BY <1>n, <1>g DEF Inv, IInv, ReportsSound, Numbers
  <2> QED BY <1>q, <2>1, <2>2 DEF ReportsSound
<1>2. VenueSound'
  BY DEF Inv, IInv, VenueSound
<1>3. UnsentSound'
  BY DEF Inv, IInv, UnsentSound
<1>4. CursorSound'
  <2>1. \A p \in Orders : exec'[p] = 0 => exec[p] = 0
    BY <1>n, <1>g DEF Numbers
  <2> QED BY <2>1 DEF Inv, IInv, CursorSound
<1>5. WorklistSound'
  BY DEF Inv, IInv, WorklistSound
<1>6. BookSound'
  BY <1>n, <1>g DEF Inv, IInv, BookSound, Numbers
<1>7. LedgerStep
  <2>1. CASE exec'[o] = exec[o]
    <3>1. exec' = exec
      BY <2>1 DEF Inv, TypeOK
    <3> QED BY <3>1, LedgerStutter
  <2>2. CASE exec'[o] = exec[o] + 1
    <3>1. exec' = [exec EXCEPT ![o] = @ + 1]
      BY <2>2 DEF Inv, TypeOK
    <3>2. exec[o] < Qty
      BY <1>n, <2>2 DEF Numbers, Slices
    <3>3. Ledger!Execute(o)
      BY <3>1, <3>2 DEF Ledger!Execute
    <3> QED BY <3>3 DEF LedgerStep, Ledger!Next
  <2> QED BY <2>1, <2>2
<1>8. CursorStep
  BY <1>n DEF CursorStep, Numbers
<1> QED BY <1>t, <1>1, <1>2, <1>3, <1>4, <1>5, <1>6, <1>7, <1>8
        DEF StepSound, Inv, IInv

\* The venue's steps: what it executes bounds what it reports.
LEMMA VenueStep ==
  ASSUME Inv, NEW o \in Orders, Venue(o)
  PROVE  StepSound
<1>n. /\ exec[o] \in Nat /\ exec[o] <= Qty /\ Qty \in Nat /\ Qty >= 1
      /\ exec \in [Orders -> Slices] /\ ord \in [Orders -> OrdStates]
      /\ replays \in 0 .. MaxReplays
  BY NumbersTyped DEF Inv, Numbers, TypeOK, OrdStates
<1>s. Slices = 0 .. Qty
  BY DEF Slices
<1>1. CASE VenueAnswers(o)
  <2>0. ord[o] = "inflight" /\ exec[o] = 0
    BY <1>1 DEF VenueAnswers, Inv, IInv, VenueSound
  <2>1. CASE /\ ord' = [ord EXCEPT ![o] = "working"]
             /\ exec' = exec
             /\ Emit(Answer("accepted", o, 0))
    <3>1. Answer("accepted", o, 0) \in Msg /\ SoundMsg(Answer("accepted", o, 0), exec')
      BY <1>n, <1>s, <2>0, <2>1 DEF Answer, Msg, SoundMsg
    <3>2. ord' \in [Orders -> OrdStates] /\ ord'[o] = "working"
      BY <1>n, <2>1 DEF OrdStates
    <3> QED BY <1>1, <1>n, <2>0, <2>1, <3>1, <3>2, VenueFrame DEF VenueAnswers
  <2>2. CASE /\ ord' = [ord EXCEPT ![o] = IF Qty = 1 THEN "filled" ELSE "working"]
             /\ exec' = [exec EXCEPT ![o] = 1]
             /\ Emit(Answer("fill", o, 1))
    <3>1. Answer("fill", o, 1) \in Msg
      BY <1>n, <1>s, <2>0, <2>1 DEF Answer, Msg
    <3>2. SoundMsg(Answer("fill", o, 1), exec')
      BY <1>n, <1>s, <2>2 DEF Answer, SoundMsg
    <3>3. exec' \in [Orders -> Slices] /\ exec'[o] = exec[o] + 1
      BY <1>n, <1>s, <2>0, <2>2
    <3>4. /\ ord' \in [Orders -> OrdStates] /\ ord'[o] \in {"filled", "working"}
          /\ ord'[o] = "working" => exec'[o] < Qty
      BY <1>n, <1>s, <2>0, <2>2, <3>3 DEF OrdStates
    <3>5. \A p \in Orders : p # o => ord'[p] = ord[p] /\ exec'[p] = exec[p]
      BY <1>n, <2>2
    <3>6. /\ UNCHANGED <<link, task, answer, execq, row, leg, seen, booked, lag>>
          /\ UNCHANGED <<proc, pass, snap, todo, drops, crashes>>
          /\ replays' \in 0 .. MaxReplays
      BY <1>1, <1>n DEF VenueAnswers
    <3>7. Emit(Answer("fill", o, 1))
      BY <2>2
    <3> QED BY <2>0, <3>1, <3>2, <3>3, <3>4, <3>5, <3>6, <3>7, VenueFrame
  <2>3. CASE /\ ord' = [ord EXCEPT ![o] = "rejected"]
             /\ exec' = exec
             /\ Emit(Answer("rejected", o, 0))
    <3>1. Answer("rejected", o, 0) \in Msg /\ SoundMsg(Answer("rejected", o, 0), exec')
      BY <1>n, <1>s, <2>0, <2>3 DEF Answer, Msg, SoundMsg
    <3> QED BY <1>1, <1>n, <2>0, <2>3, <3>1, VenueFrame DEF VenueAnswers, OrdStates
  <2> QED BY <1>1, <2>1, <2>2, <2>3 DEF VenueAnswers
<1>2. CASE VenueFills(o)
  <2>1. /\ ord[o] = "working" /\ exec[o] < Qty
        /\ exec' = [exec EXCEPT ![o] = @ + 1]
        /\ ord' = [ord EXCEPT ![o] = IF exec[o] + 1 = Qty THEN "filled" ELSE @]
        /\ Emit(Push("fill", o, exec[o] + 1))
        /\ UNCHANGED <<link, task, answer, execq, row, leg, seen, booked, lag>>
        /\ UNCHANGED <<proc, pass, snap, todo, drops, crashes, replays>>
    BY <1>2 DEF VenueFills, Inv, IInv, VenueSound
  <2>2. /\ exec' \in [Orders -> Slices] /\ exec'[o] = exec[o] + 1
        /\ exec'[o] \in Nat
    BY <1>n, <1>s, <2>1
  <2>3. /\ ord' \in [Orders -> OrdStates] /\ ord'[o] \notin {"none", "inflight"}
        /\ ord'[o] = "working" => exec'[o] < Qty
    BY <1>n, <2>1, <2>2 DEF OrdStates
  <2>4. Push("fill", o, exec[o] + 1) \in Msg
    BY <1>n, <1>s, <2>1 DEF Push, Msg
  <2>5. SoundMsg(Push("fill", o, exec[o] + 1), exec')
    BY <1>n, <2>2 DEF Push, SoundMsg
  <2> QED BY <1>n, <2>1, <2>2, <2>3, <2>4, <2>5, VenueFrame
<1>3. CASE VenueCancels(o)
  <2>1. Push("cancelled", o, exec[o]) \in Msg
    BY <1>n, <1>s DEF Push, Msg
  <2>2. SoundMsg(Push("cancelled", o, exec[o]), exec')
    BY <1>3, <1>n DEF Push, SoundMsg, VenueCancels
  <2> QED BY <1>n, <1>3, <2>1, <2>2, VenueFrame DEF VenueCancels, OrdStates
<1>4. CASE VenueReplays(o)
  <2>1. PICK k \in 1 .. exec[o] : Emit(Push("fill", o, k))
    BY <1>4 DEF VenueReplays
  <2>2. replays' \in 0 .. MaxReplays
    <3>1. replays < MaxReplays /\ replays' = replays + 1
      BY <1>4 DEF VenueReplays
    <3> QED BY <1>n, <3>1, BoundAssumption
  <2>3. Push("fill", o, k) \in Msg
    BY <1>n, <1>s, <2>1 DEF Push, Msg
  <2>4. SoundMsg(Push("fill", o, k), exec')
    BY <1>4, <1>n, <2>1 DEF Push, SoundMsg, VenueReplays
  <2>5. /\ ord[o] \notin {"none", "inflight"}
        /\ ord[o] = "working" => exec[o] < Qty
    BY <1>n, <2>1 DEF Inv, IInv, VenueSound
  <2> QED BY <1>4, <1>n, <2>1, <2>2, <2>3, <2>4, <2>5, VenueFrame DEF VenueReplays
<1> QED BY <1>1, <1>2, <1>3, <1>4 DEF Venue

-----------------------------------------------------------------------------
(* The connection *)

\* Handing a message on moves it between queues and into an answer slot.
LEMMA ReceiveStep ==
  ASSUME Inv, Receive
  PROVE  StepSound
<1>n. Numbers /\ Qty \in Nat
  BY NumbersTyped DEF Inv
<1> DEFINE m == Head(wire)
<1>m. /\ m \in Msg /\ m.ord \in Orders /\ SoundMsg(m, exec)
      /\ SoundQueue(Tail(wire), exec) /\ SoundQueue(execq, exec)
  <2>1. SoundQueue(wire, exec) /\ SoundQueue(execq, exec) /\ wire # <<>>
    BY DEF Receive, Inv, IInv, ReportsSound
  <2> QED BY <2>1, SoundTail DEF Msg
<1>u. /\ UNCHANGED <<ord, exec, link, row, leg, seen, booked, lag>>
      /\ UNCHANGED <<proc, pass, snap, todo, drops, crashes, replays>>
      /\ wire' = Tail(wire)
  BY DEF Receive
<1>a. \/ /\ task[m.ord] = "waiting"
         /\ answer' = [answer EXCEPT ![m.ord] = m]
         /\ task' = [task EXCEPT ![m.ord] = "answered"]
         /\ execq' = execq
      \/ execq' = Append(execq, m) /\ answer' = answer /\ task' = task
  BY DEF Receive
<1> HIDE DEF m
<1>q. SoundQueue(wire', exec') /\ SoundQueue(execq', exec')
  BY <1>m, <1>u, <1>a, SoundAppend
<1>b. /\ answer' \in [Orders -> Msg] /\ task' \in [Orders -> TaskStates]
      /\ \A o \in Orders : /\ answer'[o] = answer[o] \/ (answer'[o] = m /\ o = m.ord)
                           /\ \/ task'[o] = task[o]
                              \/ task[o] = "waiting" /\ task'[o] = "answered"
  <2>1. answer \in [Orders -> Msg] /\ task \in [Orders -> TaskStates]
    BY DEF Inv, TypeOK, TaskStates
  <2>2. CASE answer' = answer /\ task' = task
    BY <2>1, <2>2
  <2>3. CASE /\ task[m.ord] = "waiting"
             /\ answer' = [answer EXCEPT ![m.ord] = m]
             /\ task' = [task EXCEPT ![m.ord] = "answered"]
    <3>1. answer' \in [Orders -> Msg] /\ task' \in [Orders -> TaskStates]
      BY <1>m, <2>1, <2>3 DEF TaskStates
    <3>2. ASSUME NEW o \in Orders
          PROVE  /\ answer'[o] = answer[o] \/ (answer'[o] = m /\ o = m.ord)
                 /\ task'[o] = task[o] \/ (task[o] = "waiting" /\ task'[o] = "answered")
      BY <1>m, <2>1, <2>3
    <3> QED BY <3>1, <3>2
  <2> QED BY <1>a, <2>2, <2>3
<1>t. TypeOK'
  <2>1. wire' \in Seq(Msg) /\ execq' \in Seq(Msg)
    BY <1>q DEF SoundQueue
  <2>2. answer' \in [Orders -> Msg] /\ task' \in [Orders -> TaskStates]
    BY <1>b
  <2> QED BY <1>u, <2>1, <2>2 DEF Inv, TypeOK, TaskStates
<1>1. ReportsSound'
  <2>1. ASSUME NEW o \in Orders
        PROVE  answer'[o].ord = o /\ SoundMsg(answer'[o], exec)
    <3>1. answer[o].ord = o /\ SoundMsg(answer[o], exec)
      BY DEF Inv, IInv, ReportsSound
    <3>2. answer'[o] = answer[o] \/ (answer'[o] = m /\ o = m.ord)
      BY <1>b
    <3> QED BY <1>m, <3>1, <3>2
  <2>2. \A o \in Orders : snap[o].exec <= exec[o]
    BY DEF Inv, IInv, ReportsSound
  <2> QED BY <1>u, <1>q, <2>1, <2>2 DEF ReportsSound
<1>2. VenueSound' /\ CursorSound' /\ BookSound' /\ WorklistSound'
  BY <1>u DEF Inv, IInv, VenueSound, CursorSound, BookSound, WorklistSound
<1>3. UnsentSound'
  BY <1>u, <1>b DEF Inv, IInv, UnsentSound
<1>4. LedgerStep
  BY <1>u, LedgerStutter
<1>5. CursorStep
  BY <1>n, <1>u DEF CursorStep, Numbers
<1> QED BY <1>t, <1>1, <1>2, <1>3, <1>4, <1>5 DEF StepSound, Inv, IInv

\* Losing and regaining the session forgets messages and invents none.
LEMMA LinkStep ==
  ASSUME Inv, LinkDrops \/ Reconnect
  PROVE  StepSound
<1>n. Numbers /\ Qty \in Nat
  BY NumbersTyped DEF Inv
<1>u. /\ UNCHANGED <<ord, exec, answer, execq, row, leg, seen, booked, lag>>
      /\ UNCHANGED <<snap, todo, crashes, replays>>
  BY DEF LinkDrops, Reconnect
<1>a. /\ wire' \in {<<>>, wire} /\ link' \in BOOLEAN
      /\ proc' = IF proc = "running" THEN proc ELSE "down"
      /\ pass' \in {"idle", pass}
      /\ task' \in [Orders -> TaskStates]
      /\ \A o \in Orders : task'[o] = task[o] \/ (task[o] = "waiting" /\ task'[o] = "lost")
  BY DEF LinkDrops, Reconnect, Inv, TypeOK, TaskStates
<1>d. drops' \in 0 .. MaxDrops
  <2>1. drops \in 0 .. MaxDrops /\ (drops' = drops \/ (drops < MaxDrops /\ drops' = drops + 1))
    BY DEF LinkDrops, Reconnect, Inv, TypeOK
  <2> QED BY <2>1, BoundAssumption
<1>q. SoundQueue(wire', exec') /\ SoundQueue(execq', exec')
  BY <1>u, <1>a, SoundEmpty DEF Inv, IInv, ReportsSound
<1>t. TypeOK'
  BY <1>u, <1>q, <1>a, <1>d DEF Inv, TypeOK, SoundQueue, TaskStates
<1>1. ReportsSound'
  BY <1>u, <1>q DEF Inv, IInv, ReportsSound
<1>2. VenueSound' /\ CursorSound'
  BY <1>u DEF Inv, IInv, VenueSound, CursorSound
<1>3. UnsentSound'
  BY <1>u, <1>a DEF Inv, IInv, UnsentSound
<1>4. WorklistSound' /\ BookSound'
  BY <1>u, <1>a DEF Inv, IInv, WorklistSound, BookSound
<1>5. LedgerStep
  BY <1>u, <1>a, LedgerStutter
<1>6. CursorStep
  BY <1>n, <1>u DEF CursorStep, Numbers
<1> QED BY <1>t, <1>1, <1>2, <1>3, <1>4, <1>5, <1>6 DEF StepSound, Inv, IInv

\* A crash empties the volatile state, the book among it; the journal stays.
LEMMA CrashStep ==
  ASSUME Inv, Crash
  PROVE  StepSound
<1>n. Numbers /\ Qty \in Nat
  BY NumbersTyped DEF Inv
<1>u. UNCHANGED <<ord, exec, row, leg, snap, drops, replays>>
  BY DEF Crash
<1>a. /\ proc' = "down" /\ link' = FALSE /\ wire' = <<>> /\ execq' = <<>>
      /\ task' = [o \in Orders |-> IF row[o].state = "none" THEN "idle" ELSE "done"]
      /\ answer' = [o \in Orders |-> NoAnswer(o)]
      /\ seen' = {} /\ pass' = "idle" /\ todo' = {}
      /\ booked' = [o \in Orders |-> 0] /\ lag' = [o \in Orders |-> 0]
  BY DEF Crash
<1>c. crashes' \in 0 .. MaxCrashes
  <2>1. crashes \in 0 .. MaxCrashes /\ crashes < MaxCrashes /\ crashes' = crashes + 1
    BY DEF Crash, Inv, TypeOK
  <2> QED BY <2>1, BoundAssumption
<1>q. SoundQueue(wire', exec') /\ SoundQueue(execq', exec')
  BY <1>a, SoundEmpty
<1>b. /\ answer' \in [Orders -> Msg]
      /\ \A o \in Orders : answer'[o].ord = o /\ SoundMsg(answer'[o], exec')
  BY <1>n, <1>a, <1>u, QtyAssumption
     DEF Numbers, NoAnswer, Answer, Msg, Slices, SoundMsg
<1>l. lag' \in [Orders -> Slices] /\ booked' \in [Orders -> Nat]
  BY <1>n, <1>a DEF Slices
<1>t. TypeOK'
  BY <1>u, <1>a, <1>b, <1>c, <1>l, <1>q DEF Inv, TypeOK, SoundQueue
<1>1. ReportsSound'
  BY <1>u, <1>q, <1>b DEF Inv, IInv, ReportsSound
<1>2. VenueSound' /\ CursorSound'
  BY <1>u DEF Inv, IInv, VenueSound, CursorSound
<1>3. UnsentSound'
  BY <1>u, <1>a DEF Inv, IInv, UnsentSound
<1>4. WorklistSound'
  BY <1>a DEF WorklistSound
<1>5. BookSound'
  BY <1>n, <1>u, <1>a DEF BookSound, Numbers
<1>6. LedgerStep
  BY <1>u, <1>a DEF LedgerStep, Ledger!Next, Ledger!Close, Ledger!None
<1>7. CursorStep
  BY <1>n, <1>u DEF CursorStep, Numbers
<1> QED BY <1>t, <1>1, <1>2, <1>3, <1>4, <1>5, <1>6, <1>7 DEF StepSound, Inv, IInv

-----------------------------------------------------------------------------
(* One journal row *)

\* What the invariant asks of the row of order o.
RowSound(o, r) ==
  /\ exec[o] = 0 => r.filled = 0
  /\ ~r.ref /\ r.state # "closed" => r.filled = 0 /\ ~r.pos
  /\ r.state = "none" => ord[o] = "none" /\ ~r.ref
  /\ task[o] \in {"idle", "refused"} => ~r.ref

\* Every row is sound, and a live process' bookings are covered.
LEMMA RowsSound ==
  ASSUME Inv, NEW o \in Orders
  PROVE  /\ RowSound(o, row[o])
         /\ booked[o] <= row[o].filled + lag[o] /\ booked[o] <= exec[o] + lag[o]
BY DEF Inv, IInv, CursorSound, UnsentSound, BookSound, RowSound

\* A number past a and up to c.
LEMMA Between ==
  ASSUME NEW a \in Nat, NEW b \in Nat, NEW c \in Nat, b >= a, b # a, b <= c
  PROVE  b \in a + 1 .. c
OBVIOUS

\* A step on one row: the cursor does not move back, what is newly booked is
\* covered by the cursor and by the venue, and the row stays sound.
LEMMA RowFrame ==
  ASSUME Inv, NEW o \in Orders,
         UNCHANGED <<ord, exec, link, wire, leg, lag, proc, pass, snap>>,
         UNCHANGED <<drops, crashes, replays>>,
         answer' \in [Orders -> Msg], SoundQueue(execq', exec),
         \A p \in Orders : answer'[p].ord = p /\ SoundMsg(answer'[p], exec),
         task' \in [Orders -> TaskStates],
         \A p \in Orders : task'[p] = task[p] \/ task'[p] \notin {"idle", "refused"},
         seen' \subseteq Orders \X Slices,
         todo' \subseteq todo, pass = "rows" /\ o \in todo' => row'[o].ref,
         proc = "recovering" /\ o \in todo' => row'[o].state # "none",
         row' \in [Orders -> Row], booked' \in [Orders -> Nat],
         \A p \in Orders : p # o => row'[p] = row[p] /\ booked'[p] = booked[p],
         RowSound(o, row'[o]), row'[o].filled >= row[o].filled,
         proc # "running" => task[o] # "idle",
         \/ booked'[o] = booked[o]
         \/ /\ proc = "running" /\ booked'[o] >= booked[o]
            /\ booked'[o] <= row'[o].filled + lag[o]
            /\ booked'[o] <= exec[o] + lag[o]
  PROVE  StepSound
<1>n. Numbers /\ Qty \in Nat
  BY NumbersTyped DEF Inv
<1>t. TypeOK'
  <2>1. wire' \in Seq(Msg) /\ execq' \in Seq(Msg)
    BY DEF Inv, TypeOK, SoundQueue
  <2>2. todo' \subseteq Orders
    BY DEF Inv, TypeOK
  <2> QED BY <2>1, <2>2 DEF Inv, TypeOK, TaskStates
<1>m. /\ row'[o].filled \in Nat /\ row[o].filled \in Nat
      /\ \A p \in Orders : row'[p].filled >= row[p].filled
  BY <1>n DEF Numbers, Row, Slices
<1>1. ReportsSound'
  BY DEF Inv, IInv, ReportsSound
<1>2. VenueSound'
  BY DEF Inv, IInv, VenueSound
<1>3. UnsentSound'
  <2>1. ASSUME NEW p \in Orders, task'[p] \in {"idle", "refused"}
        PROVE  ord[p] = "none" /\ ~row'[p].ref
    BY <2>1 DEF Inv, IInv, UnsentSound, RowSound
  <2>2. ASSUME NEW p \in Orders, row'[p].state = "none"
        PROVE  ord[p] = "none" /\ ~row'[p].ref
    BY <2>2 DEF Inv, IInv, UnsentSound, RowSound
  <2>3. ASSUME proc # "running", NEW p \in Orders
        PROVE  task'[p] # "refused" /\ (task'[p] = "idle" => row'[p].state = "none")
    BY <2>3 DEF Inv, IInv, UnsentSound
  <2> QED BY <2>1, <2>2, <2>3 DEF UnsentSound
<1>4. CursorSound'
  <2>1. ASSUME NEW p \in Orders
        PROVE  /\ exec[p] = 0 => row'[p].filled = 0
               /\ ~row'[p].ref /\ row'[p].state # "closed" =>
                    row'[p].filled = 0 /\ ~row'[p].pos
    <3>1. CASE p = o
      BY <3>1 DEF RowSound
    <3>2. CASE p # o
      BY <3>2, RowsSound DEF RowSound
    <3> QED BY <3>1, <3>2
  <2> QED BY <2>1 DEF CursorSound
<1>5. WorklistSound'
  <2>1. todo \subseteq Orders
    BY DEF Inv, TypeOK
  <2>2. ASSUME NEW p \in todo'
        PROVE  /\ pass = "rows" => row'[p].ref
               /\ proc = "recovering" => row'[p].state # "none"
    BY <2>1, <2>2 DEF Inv, IInv, WorklistSound
  <2>3. pass # "idle" => proc = "running"
    BY DEF Inv, IInv, WorklistSound
  <2> QED BY <2>2, <2>3 DEF WorklistSound
<1>6. BookSound'
  <2>1. ASSUME NEW p \in Orders
        PROVE  booked'[p] <= row'[p].filled + lag[p] /\ booked'[p] <= exec[p] + lag[p]
    <3>1. CASE booked'[p] = booked[p]
      <4>1. /\ booked[p] <= row[p].filled + lag[p] /\ booked[p] <= exec[p] + lag[p]
            /\ row'[p].filled >= row[p].filled /\ row'[p].filled \in Nat
        BY <1>m, <1>n, RowsSound DEF Numbers
      <4>2. booked[p] \in Nat /\ row[p].filled \in Nat /\ lag[p] \in Nat /\ exec[p] \in Nat
        BY <1>n DEF Numbers
      <4> QED BY <3>1, <4>1, <4>2
    <3> QED BY <3>1
  <2>2. proc # "running" => booked' = booked
    BY DEF Inv, TypeOK
  <2> QED BY <2>1, <2>2 DEF Inv, IInv, BookSound
<1>7. LedgerStep
  <2>1. booked' = [booked EXCEPT ![o] = booked'[o]]
    BY DEF Inv, TypeOK
  <2>2. CASE booked'[o] = booked[o]
    <3>1. booked' = booked
      BY <2>1, <2>2 DEF Inv, TypeOK
    <3> QED BY <3>1, LedgerStutter
  <2>3. CASE booked'[o] # booked[o]
    <3>1. booked'[o] \in booked[o] + 1 .. exec[o] + lag[o] /\ proc = "running"
      <4>1. /\ proc = "running" /\ booked'[o] >= booked[o]
            /\ booked'[o] <= exec[o] + lag[o]
        BY <2>3
      <4>2. /\ booked'[o] \in Nat /\ booked[o] \in Nat
            /\ exec[o] \in Nat /\ lag[o] \in Nat
        BY <1>n DEF Numbers
      <4>3. exec[o] + lag[o] \in Nat
        BY <4>2
      <4>4. booked'[o] \in booked[o] + 1 .. exec[o] + lag[o]
        BY <2>3, <4>1, <4>2, <4>3, Between
      <4> QED BY <4>1, <4>4
    <3>2. Ledger!Book(o)
      BY <2>1, <3>1 DEF Ledger!Book
    <3>3. Ledger!Next
      BY <3>2 DEF Ledger!Next
    <3> QED BY <3>3 DEF LedgerStep
  <2> QED BY <2>2, <2>3
<1>8. CursorStep
  BY <1>m DEF CursorStep
<1> QED BY <1>t, <1>1, <1>2, <1>3, <1>4, <1>5, <1>6, <1>7, <1>8
        DEF StepSound, Inv, IInv

-----------------------------------------------------------------------------
(* Dispatch *)

\* Writing the submitted row and sending: the order still has no trace.
LEMMA DispatchSent ==
  ASSUME Inv, NEW o \in Orders, Dispatch(o)
  PROVE  StepSound
<1>n. Numbers /\ Qty \in Nat
  BY NumbersTyped DEF Inv
<1> DEFINE r == [NoRow EXCEPT !.state = "submitted"]
<1>r. r \in Row /\ r.filled = 0 /\ r.state = "submitted" /\ ~r.ref /\ ~r.pos
  <2>1. 0 \in Slices
    BY QtyAssumption DEF Slices
  <2>2. NoRow \in Row /\ NoRow.filled = 0 /\ ~NoRow.ref /\ ~NoRow.pos
    BY <2>1 DEF NoRow, Row
  <2> QED BY <2>2 DEF Row
<1>u. /\ UNCHANGED <<exec, link, wire, answer, execq, leg, seen, booked, lag>>
      /\ UNCHANGED <<proc, pass, snap, todo, drops, crashes, replays>>
      /\ proc = "running" /\ task[o] \in {"idle", "refused"}
      /\ row' = [row EXCEPT ![o] = r]
      /\ \/ task' = [task EXCEPT ![o] = "waiting"] /\ ord' = [ord EXCEPT ![o] = "inflight"]
         \/ task' = [task EXCEPT ![o] = "refused"] /\ ord' = ord
  BY DEF Dispatch
<1> HIDE DEF r
<1>0. ord[o] = "none" /\ exec[o] = 0 /\ row[o].filled = 0 /\ ~row[o].ref
  BY <1>u DEF Inv, IInv, UnsentSound, VenueSound, CursorSound
<1>a. /\ row' \in [Orders -> Row] /\ row'[o] = r
      /\ \A p \in Orders : p # o => row'[p] = row[p]
  BY <1>u, <1>r DEF Inv, TypeOK
<1>b. /\ ord' \in [Orders -> OrdStates] /\ task' \in [Orders -> TaskStates]
      /\ \A p \in Orders : p # o => ord'[p] = ord[p] /\ task'[p] = task[p]
      /\ \/ task'[o] = "waiting" /\ ord'[o] = "inflight"
         \/ task'[o] = "refused" /\ ord'[o] = "none"
  BY <1>u, <1>0 DEF Inv, TypeOK, OrdStates, TaskStates
<1>t. TypeOK'
  BY <1>u, <1>a, <1>b DEF Inv, TypeOK, OrdStates, TaskStates
<1>1. ReportsSound'
  BY <1>u DEF Inv, IInv, ReportsSound
<1>2. VenueSound'
  BY <1>u, <1>b, <1>0 DEF Inv, IInv, VenueSound
<1>3. UnsentSound'
  <2>1. ASSUME NEW p \in Orders, task'[p] \in {"idle", "refused"}
        PROVE  ord'[p] = "none" /\ ~row'[p].ref
    BY <2>1, <1>a, <1>b, <1>r DEF Inv, IInv, UnsentSound
  <2>2. ASSUME NEW p \in Orders, row'[p].state = "none"
        PROVE  ord'[p] = "none" /\ ~row'[p].ref
    <3>1. p # o
      BY <2>2, <1>a, <1>r
    <3> QED BY <3>1, <2>2, <1>a, <1>b DEF Inv, IInv, UnsentSound
  <2> QED BY <1>u, <2>1, <2>2 DEF UnsentSound
<1>4. CursorSound'
  BY <1>u, <1>a, <1>r DEF Inv, IInv, CursorSound
<1>5. WorklistSound'
  BY <1>u, <1>a, <1>0 DEF Inv, IInv, WorklistSound, TypeOK
<1>6. BookSound'
  BY <1>u, <1>a, <1>r, <1>0 DEF Inv, IInv, BookSound
<1>7. LedgerStep
  BY <1>u, LedgerStutter
<1>8. CursorStep
  BY <1>n, <1>a, <1>r, <1>0 DEF CursorStep, Numbers
<1> QED BY <1>t, <1>1, <1>2, <1>3, <1>4, <1>5, <1>6, <1>7, <1>8
        DEF StepSound, Inv, IInv

\* A resumed dispatch raises the cursor to what its answer reported.
LEMMA DispatchResumes ==
  ASSUME Inv, NEW o \in Orders,
         DispatchTimesOut(o) \/ DispatchAnswered(o) \/ DispatchUnknown(o)
  PROVE  StepSound
<1>n. Numbers /\ Qty \in Nat
  BY NumbersTyped DEF Inv
<1>w. /\ answer \in [Orders -> Msg] /\ row \in [Orders -> Row]
      /\ task \in [Orders -> TaskStates] /\ seen \subseteq Orders \X Slices
      /\ booked \in [Orders -> Nat] /\ todo \subseteq Orders
  BY DEF Inv, TypeOK, TaskStates
<1>v. /\ \A p \in Orders : answer[p].ord = p /\ SoundMsg(answer[p], exec)
      /\ SoundQueue(execq, exec)
      /\ pass = "rows" => \A p \in todo : row[p].ref
      /\ proc = "recovering" => \A p \in todo : row[p].state # "none"
  BY DEF Inv, IInv, ReportsSound, WorklistSound
<1>u. /\ UNCHANGED <<ord, exec, link, wire, leg, lag, proc, pass, snap>>
      /\ UNCHANGED <<drops, crashes, replays, seen, todo, booked>>
  BY DEF DispatchTimesOut, DispatchAnswered, DispatchUnknown
<1>k. /\ task' \in [Orders -> TaskStates]
      /\ \A p \in Orders : task'[p] = task[p] \/ task'[p] \notin {"idle", "refused"}
      /\ task[o] \notin {"idle", "refused"}
  BY <1>w DEF DispatchTimesOut, DispatchAnswered, DispatchUnknown, TaskStates
<1>s. RowSound(o, row[o])
  BY RowsSound
<1>f. ASSUME NEW r \in Row, row' = [row EXCEPT ![o] = r], RowSound(o, r),
             r.filled >= row[o].filled, row[o].ref => r.ref, r.state # "none" \/ r = row[o],
             SoundQueue(execq', exec), answer' \in [Orders -> Msg],
             \A p \in Orders : answer'[p].ord = p /\ SoundMsg(answer'[p], exec)
      PROVE  StepSound
  <2>1. /\ row' \in [Orders -> Row] /\ row'[o] = r
        /\ \A p \in Orders : p # o => row'[p] = row[p]
    BY <1>f, <1>w
  <2>2. pass = "rows" /\ o \in todo => r.ref
    BY <1>v, <1>f
  <2>3. proc = "recovering" /\ o \in todo => r.state # "none"
    BY <1>v, <1>f
  <2>4. /\ todo' \subseteq todo /\ seen' \subseteq Orders \X Slices
        /\ pass = "rows" /\ o \in todo' => row'[o].ref
        /\ proc = "recovering" /\ o \in todo' => row'[o].state # "none"
        /\ booked' \in [Orders -> Nat]
        /\ \A p \in Orders : p # o => row'[p] = row[p] /\ booked'[p] = booked[p]
        /\ booked'[o] = booked[o]
    BY <1>u, <1>w, <2>1, <2>2, <2>3
  <2>5. RowSound(o, row'[o]) /\ row'[o].filled >= row[o].filled
    BY <1>f, <2>1
  <2> QED BY <1>u, <1>k, <1>f, <2>1, <2>4, <2>5, RowFrame
<1>1. CASE DispatchTimesOut(o)
  <2>1. row' = [row EXCEPT ![o] = row[o]] /\ row[o] \in Row /\ row[o].filled >= row[o].filled
    BY <1>1, <1>w, <1>n DEF DispatchTimesOut, Numbers
  <2> QED BY <1>1, <1>v, <1>w, <1>s, <1>f, <2>1 DEF DispatchTimesOut
<1>2. CASE DispatchUnknown(o)
  <2> DEFINE r == [row[o] EXCEPT !.state = IF Live(o) THEN "unknown" ELSE @]
  <2>1. /\ row' = [row EXCEPT ![o] = r] /\ execq' = execq /\ answer' = answer
    BY <1>2, <1>w DEF DispatchUnknown
  <2>2. /\ r \in Row /\ r.filled = row[o].filled /\ r.ref = row[o].ref
        /\ r.pos = row[o].pos /\ row[o].filled \in Nat
        /\ r = row[o] \/ (Live(o) /\ r.state = "unknown")
    BY <1>w, <1>n DEF Row, Live, Numbers
  <2>3. RowSound(o, r)
    BY <1>s, <2>2 DEF RowSound, Live
  <2> HIDE DEF r
  <2>4. r.filled >= row[o].filled /\ (row[o].ref => r.ref) /\ (r.state # "none" \/ r = row[o])
    BY <2>2
  <2> QED BY <1>v, <1>w, <1>f, <2>1, <2>2, <2>3, <2>4
<1>3. CASE DispatchAnswered(o)
  <2> DEFINE m == answer[o]
  <2>m. m \in Msg /\ m.ord = o /\ SoundMsg(m, exec) /\ m.cum \in Nat /\ m.cum <= exec[o]
    <3>1. m \in Msg /\ m.ord = o /\ SoundMsg(m, exec)
      BY <1>w, <1>v
    <3>2. m.cum \in Nat
      BY <3>1 DEF Msg, Slices
    <3>3. m.cum <= exec[o]
      BY <3>1 DEF SoundMsg
    <3> QED BY <3>1, <3>2, <3>3
  <2>a. /\ answer' \in [Orders -> Msg]
        /\ \A p \in Orders : answer'[p].ord = p /\ SoundMsg(answer'[p], exec)
    <3>1. answer' = [answer EXCEPT ![o] = NoAnswer(o)]
      BY <1>3 DEF DispatchAnswered
    <3>2. NoAnswer(o) \in Msg /\ NoAnswer(o).ord = o /\ SoundMsg(NoAnswer(o), exec)
      BY <1>n, QtyAssumption DEF NoAnswer, Answer, Msg, Slices, SoundMsg, Numbers
    <3> HIDE DEF NoAnswer
    <3> QED BY <1>w, <1>v, <3>1, <3>2
  <2>1. CASE m.kind = "rejected"
    <3> DEFINE r == [row[o] EXCEPT !.state = IF Live(o) THEN "rejected" ELSE @]
    <3>1. row' = [row EXCEPT ![o] = r] /\ execq' = execq
      BY <1>3, <1>w, <2>1 DEF DispatchAnswered
    <3>2. /\ r \in Row /\ r.filled = row[o].filled /\ r.ref = row[o].ref
          /\ r.pos = row[o].pos /\ row[o].filled \in Nat
          /\ r = row[o] \/ (Live(o) /\ r.state = "rejected")
      BY <1>w, <1>n DEF Row, Live, Numbers
    <3>3. RowSound(o, r)
      BY <1>s, <3>2 DEF RowSound, Live
    <3> HIDE DEF r
    <3>4. r.filled >= row[o].filled /\ (row[o].ref => r.ref) /\ (r.state # "none" \/ r = row[o])
      BY <3>2
    <3> QED BY <1>v, <1>f, <2>a, <3>1, <3>2, <3>3, <3>4
  <2>2. CASE m.kind # "rejected"
    <3> DEFINE r == PersistEntry(row[o], m)
    <3>1. /\ row' = [row EXCEPT ![o] = r]
          /\ execq' \in {execq, Append(execq, m)}
      BY <1>3, <1>w, <2>2 DEF DispatchAnswered
    <3>2. /\ r \in Row /\ r.ref /\ r.state = "confirmed"
          /\ r.filled \in {row[o].filled, m.cum} /\ r.filled >= row[o].filled
      <4>1. row[o] \in Row /\ m.cum \in Slices /\ row[o].filled \in Slices
        BY <1>w, <2>m DEF Msg, Row
      <4>2. Larger(m.cum, row[o].filled) \in {row[o].filled, m.cum}
            /\ Larger(m.cum, row[o].filled) >= row[o].filled
        BY <4>1, <1>n DEF Larger, Slices
      <4>3. Larger(m.cum, row[o].filled) \in Slices
        BY <4>1, <4>2
      <4> HIDE DEF m
      <4> QED BY <4>1, <4>2, <4>3 DEF PersistEntry, Row
    <3>3. RowSound(o, r)
      BY <1>s, <1>k, <1>n, <2>m, <3>2 DEF RowSound, Numbers
    <3>4. SoundQueue(execq', exec)
      BY <1>v, <2>m, <3>1, SoundAppend
    <3> HIDE DEF r
    <3> QED BY <1>f, <2>a, <3>1, <3>2, <3>3, <3>4
  <2> QED BY <2>1, <2>2
<1> QED BY <1>1, <1>2, <1>3

-----------------------------------------------------------------------------
(* watch_orders *)

\* RowFrame for a step between an idle dispatch slot and its answer: neither
\* the tasks nor their answers move, and nothing joins a worklist.
LEMMA BookFrame ==
  ASSUME Inv, NEW o \in Orders,
         UNCHANGED <<ord, exec, link, wire, task, answer, leg, lag, proc, pass, snap>>,
         UNCHANGED <<drops, crashes, replays>>,
         SoundQueue(execq', exec), seen' \subseteq Orders \X Slices,
         todo' \subseteq todo,
         NEW r \in Row, row' = [row EXCEPT ![o] = r],
         NEW n \in Nat, booked' = [booked EXCEPT ![o] = n],
         RowSound(o, r), r.filled >= row[o].filled,
         pass = "rows" /\ o \in todo' => r.ref,
         proc = "recovering" /\ o \in todo' => r.state # "none",
         proc # "running" => task[o] # "idle",
         \/ n = booked[o]
         \/ /\ proc = "running" /\ n >= booked[o]
            /\ n <= r.filled + lag[o] /\ n <= exec[o] + lag[o]
  PROVE  StepSound
<1>1. /\ answer' \in [Orders -> Msg] /\ task' \in [Orders -> TaskStates]
      /\ \A p \in Orders : answer'[p].ord = p /\ SoundMsg(answer'[p], exec)
      /\ \A p \in Orders : task'[p] = task[p]
  BY DEF Inv, IInv, TypeOK, ReportsSound, TaskStates
<1>2. /\ row' \in [Orders -> Row] /\ row'[o] = r
      /\ booked' \in [Orders -> Nat] /\ booked'[o] = n
      /\ \A p \in Orders : p # o => row'[p] = row[p] /\ booked'[p] = booked[p]
  BY DEF Inv, TypeOK
<1> QED BY <1>1, <1>2, RowFrame

\* A row that keeps its journal identity and its cursor.
LEMMA RowKept ==
  ASSUME Inv, NEW o \in Orders
  PROVE  /\ row = [row EXCEPT ![o] = row[o]] /\ booked = [booked EXCEPT ![o] = booked[o]]
         /\ row[o] \in Row /\ booked[o] \in Nat /\ row[o].filled >= row[o].filled
         /\ seen \subseteq Orders \X Slices
<1>1. Numbers
  BY NumbersTyped DEF Inv
<1>2. row \in [Orders -> Row] /\ booked \in [Orders -> Nat] /\ seen \subseteq Orders \X Slices
  BY DEF Inv, TypeOK
<1>3. row[o] \in Row /\ booked[o] \in Nat /\ row[o].filled \in Nat
  BY <1>1 DEF Numbers
<1> QED BY <1>2, <1>3

\* A translated message books at most one slice, and the cursor counts it.
LEMMA TranslateStep ==
  ASSUME Inv, Translate
  PROVE  StepSound
<1>n. Numbers /\ Qty \in Nat
  BY NumbersTyped DEF Inv
<1> DEFINE m == Head(execq)
<1> DEFINE o == m.ord
<1>m. m \in Msg /\ SoundMsg(m, exec) /\ SoundQueue(Tail(execq), exec)
  <2>1. SoundQueue(execq, exec) /\ execq # <<>>
    BY DEF Translate, Inv, IInv, ReportsSound
  <2> QED BY <2>1, SoundTail
<1>u. /\ UNCHANGED <<ord, exec, link, wire, task, answer, leg, lag, proc, pass, snap, todo>>
      /\ UNCHANGED <<drops, crashes, replays>>
      /\ proc = "running" /\ pass = "idle" /\ execq' = Tail(execq)
  BY DEF Translate
<1>a. \/ m.kind # "fill" /\ UNCHANGED <<row, seen, booked>>
      \/ TranslateCancel(m)
      \/ UNCHANGED <<row, seen, booked>>
      \/ m.kind = "fill" /\ row[o].ref /\ TranslateKnownFill(m)
      \/ m.kind = "fill" /\ ~row[o].ref /\ Live(o) /\ TranslateParkedFill(m)
      \/ TranslateExternalFill(m)
  BY DEF Translate
<1> HIDE DEF m
<1>o. o \in Orders /\ m.cum \in Slices /\ m.cum <= exec[o]
      /\ (m.kind = "fill" => m.cum >= 1) /\ DealOf(m) \in Orders \X Slices
  BY <1>m DEF Msg, SoundMsg, DealOf
<1> HIDE DEF o
<1>r. /\ RowSound(o, row[o]) /\ row[o] \in Row /\ booked[o] \in Nat
      /\ row[o].filled \in Nat /\ exec[o] \in Nat /\ lag[o] \in Nat /\ m.cum \in Nat
      /\ booked[o] <= row[o].filled + lag[o] /\ booked[o] <= exec[o] + lag[o]
  BY <1>n, <1>o, RowsSound, RowKept DEF Numbers, Slices
<1>f. ASSUME NEW r \in Row, row' = [row EXCEPT ![o] = r],
             NEW n \in Nat, booked' = [booked EXCEPT ![o] = n],
             seen' \subseteq Orders \X Slices, RowSound(o, r), r.filled >= row[o].filled,
             \/ n = booked[o]
             \/ n = booked[o] + 1 /\ n <= r.filled + lag[o] /\ n <= exec[o] + lag[o]
      PROVE  StepSound
  <2>1. n = booked[o] \/ n >= booked[o]
    BY <1>r, <1>f
  <2>2. SoundQueue(execq', exec)
    BY <1>m, <1>u
  <2>3. /\ todo' \subseteq todo
        /\ ~(pass = "rows" /\ o \in todo') /\ ~(proc = "recovering" /\ o \in todo')
    BY <1>u
  <2> QED BY <1>u, <1>o, <1>f, <2>1, <2>2, <2>3, BookFrame
<1>1. CASE UNCHANGED <<row, seen, booked>>
  BY <1>f, <1>r, <1>o, <1>1, RowKept
<1>2. CASE TranslateCancel(m)
  <2> DEFINE r == IF row[o].ref /\ row[o].filled = 0 THEN Closed(row[o]) ELSE row[o]
  <2>1. row' = [row EXCEPT ![o] = r] /\ booked' = booked /\ seen' = seen
    BY <1>2 DEF TranslateCancel, o
  <2>2. r \in Row /\ r.filled = row[o].filled
    BY <1>r DEF Closed, Row
  <2>3. RowSound(o, r)
    BY <1>r DEF RowSound, Closed, Row
  <2> HIDE DEF r
  <2> QED BY <1>f, <1>r, <1>o, <2>1, <2>2, <2>3, RowKept
<1>3. CASE m.kind = "fill" /\ row[o].ref /\ TranslateKnownFill(m)
  <2>s. seen' \subseteq Orders \X Slices
    BY <1>3, <1>o, RowKept DEF TranslateKnownFill
  <2>1. CASE m.cum <= row[o].filled
    <3>1. row' = row /\ booked' = booked
      BY <1>3, <2>1 DEF TranslateKnownFill, o
    <3> QED BY <1>f, <1>r, <1>o, <2>s, <3>1, RowKept
  <2>2. CASE ~(m.cum <= row[o].filled)
    <3> DEFINE r == [row[o] EXCEPT !.filled = m.cum, !.pos = TRUE]
    <3>1. /\ row' = [row EXCEPT ![o] = r]
          /\ booked' = [booked EXCEPT ![o] = booked[o] + 1]
      BY <1>3, <2>2 DEF TranslateKnownFill, o
    <3>2. /\ r \in Row /\ r.filled = m.cum /\ r.ref /\ r.state = row[o].state
      BY <1>r, <1>o, <1>3 DEF Row
    <3>3. RowSound(o, r)
      BY <1>3, <1>o, <1>r, <3>2 DEF RowSound
    <3>4. /\ booked[o] + 1 \in Nat /\ r.filled >= row[o].filled
          /\ booked[o] + 1 <= r.filled + lag[o] /\ booked[o] + 1 <= exec[o] + lag[o]
      BY <1>r, <1>o, <2>2, <3>2
    <3> HIDE DEF r
    <3> QED BY <1>f, <2>s, <3>1, <3>2, <3>3, <3>4
  <2> QED BY <2>1, <2>2
<1>4. CASE m.kind = "fill" /\ ~row[o].ref /\ Live(o) /\ TranslateParkedFill(m)
  <2> DEFINE r == [row[o] EXCEPT !.state = "confirmed", !.filled = m.cum,
                                 !.ref = TRUE, !.pos = TRUE]
  <2>s. seen' \subseteq Orders \X Slices
    BY <1>4, <1>o, RowKept DEF TranslateParkedFill
  <2>1. /\ row' = [row EXCEPT ![o] = r]
        /\ booked' = [booked EXCEPT ![o] = booked[o] + 1]
    BY <1>4 DEF TranslateParkedFill, o
  <2>2. r \in Row /\ r.filled = m.cum /\ r.ref /\ r.state = "confirmed"
    BY <1>r, <1>o DEF Row
  <2>3. row[o].filled = 0
    BY <1>4, <1>r DEF RowSound, Live
  <2>4. ord[o] # "none"
    BY <1>4, <1>o, <1>r DEF Inv, IInv, VenueSound
  <2>5. task[o] \notin {"idle", "refused"}
    BY <1>o, <2>4 DEF Inv, IInv, UnsentSound
  <2>6. RowSound(o, r)
    BY <1>4, <1>o, <1>r, <2>2, <2>5 DEF RowSound
  <2>7. /\ booked[o] + 1 \in Nat /\ r.filled >= row[o].filled
        /\ booked[o] + 1 <= r.filled + lag[o] /\ booked[o] + 1 <= exec[o] + lag[o]
    BY <1>4, <1>r, <1>o, <2>2, <2>3
  <2> HIDE DEF r
  <2> QED BY <1>f, <2>s, <2>1, <2>2, <2>6, <2>7
<1>5. CASE TranslateExternalFill(m)
  <2>1. row' = row /\ booked' = booked /\ seen' \subseteq Orders \X Slices
    BY <1>5, <1>o, RowKept DEF TranslateExternalFill
  <2> QED BY <1>f, <1>r, <1>o, <2>1, RowKept
<1> QED BY <1>a, <1>1, <1>2, <1>3, <1>4, <1>5

-----------------------------------------------------------------------------
(* The reconcile pass *)

\* A pass opens on a snapshot and collects only rows with an order id.
LEMMA PassOpens ==
  ASSUME Inv, PassBegins \/ PassCollects
  PROVE  StepSound
<1>n. Numbers /\ Qty \in Nat
  BY NumbersTyped DEF Inv
<1>u. /\ UNCHANGED <<ord, exec, link, wire, task, answer, execq>>
      /\ UNCHANGED <<row, leg, seen, booked, lag, proc, drops, crashes, replays>>
  BY DEF PassBegins, PassCollects
<1>a. \/ pass' = "reading" /\ snap' = Snapshot /\ todo' = todo /\ proc = "running"
      \/ /\ pass = "reading" /\ pass' = "rows" /\ snap' = snap
         /\ todo' = {o \in Orders : Live(o) /\ row[o].ref}
  BY DEF PassBegins, PassCollects
<1>b. /\ pass' \in {"reading", "rows"} /\ proc = "running" /\ todo' \subseteq Orders
      /\ pass' = "rows" => \A o \in todo' : row[o].ref
  BY <1>a DEF Inv, TypeOK, IInv, WorklistSound
<1>s. /\ snap' \in [Orders -> [open : BOOLEAN, exec : Slices]]
      /\ \A o \in Orders : snap'[o].exec <= exec[o]
  <2>1. CASE snap' = snap
    BY <2>1 DEF Inv, IInv, TypeOK, ReportsSound
  <2>2. CASE snap' = Snapshot
    BY <2>2, <1>n DEF Snapshot, Numbers, Inv, TypeOK
  <2> QED BY <1>a, <2>1, <2>2
<1>t. TypeOK'
  BY <1>u, <1>b, <1>s DEF Inv, TypeOK
<1>1. ReportsSound'
  BY <1>u, <1>s DEF Inv, IInv, ReportsSound
<1>2. VenueSound' /\ UnsentSound' /\ CursorSound' /\ BookSound'
  BY <1>u DEF Inv, IInv, VenueSound, UnsentSound, CursorSound, BookSound
<1>3. WorklistSound'
  BY <1>u, <1>b DEF WorklistSound
<1>4. LedgerStep
  BY <1>u, LedgerStutter
<1>5. CursorStep
  BY <1>n, <1>u DEF CursorStep, Numbers
<1> QED BY <1>t, <1>1, <1>2, <1>3, <1>4, <1>5 DEF StepSound, Inv, IInv

\* What one collected row may become, whatever the history says.
LEMMA PassRowStep ==
  ASSUME Inv, NEW o \in Orders, PassRow(o)
  PROVE  StepSound
<1>n. Numbers /\ Qty \in Nat
  BY NumbersTyped DEF Inv
<1>u. /\ UNCHANGED <<ord, exec, link, wire, task, answer, leg, lag, proc, pass, snap>>
      /\ UNCHANGED <<drops, crashes, replays, execq>>
      /\ pass = "rows" /\ o \in todo /\ todo' = todo \ {o}
  BY DEF PassRow
<1>p. proc = "running" /\ row[o].ref /\ SoundQueue(execq, exec)
  BY <1>u DEF Inv, IInv, WorklistSound, ReportsSound
<1>r. /\ RowSound(o, row[o]) /\ row[o] \in Row /\ booked[o] \in Nat
      /\ row[o].filled \in Slices /\ exec[o] \in Slices /\ lag[o] \in Nat
      /\ snap[o].exec \in Slices /\ snap[o].exec <= exec[o]
      /\ booked[o] <= row[o].filled + lag[o] /\ booked[o] <= exec[o] + lag[o]
      /\ seen \subseteq Orders \X Slices
  BY <1>n, RowsSound, RowKept DEF Numbers, Row, Inv, IInv, TypeOK, ReportsSound
<1>z. Slices = 0 .. Qty /\ row[o].filled \in Nat /\ exec[o] \in Nat /\ snap[o].exec \in Nat
  BY <1>n, <1>r DEF Slices
<1>f. ASSUME NEW r \in Row, row' = [row EXCEPT ![o] = r],
             NEW k \in Slices, k <= exec[o], k >= row[o].filled, r.filled = k,
             NEW n \in {booked[o], booked[o] + (k - row[o].filled)},
             booked' = [booked EXCEPT ![o] = n],
             seen' \subseteq Orders \X Slices, r.ref, r.state # "none"
      PROVE  StepSound
  <2>1. /\ n \in Nat /\ n >= booked[o]
        /\ n <= r.filled + lag[o] /\ n <= exec[o] + lag[o]
    BY SMTT(30), <1>f, <1>r, <1>z
  <2>2. RowSound(o, r)
    BY <1>f, <1>p, <1>r, <1>z DEF RowSound
  <2>3. /\ todo' \subseteq todo /\ o \notin todo' /\ SoundQueue(execq', exec)
    BY <1>u, <1>p
  <2> QED BY <1>u, <1>p, <1>f, <2>1, <2>2, <2>3, BookFrame
<1>g. ASSUME NEW r \in Row, row' = [row EXCEPT ![o] = r], booked' = booked, seen' = seen,
             r.filled = row[o].filled, r.ref = row[o].ref, r.state = row[o].state
      PROVE  StepSound
  <2>1. /\ RowSound(o, r) /\ r.filled >= row[o].filled
    BY <1>g, <1>p, <1>r, <1>z DEF RowSound
  <2>2. /\ todo' \subseteq todo /\ o \notin todo' /\ SoundQueue(execq', exec)
        /\ seen' \subseteq Orders \X Slices
    BY <1>u, <1>p, <1>g, <1>r
  <2>3. booked' = [booked EXCEPT ![o] = booked[o]]
    BY <1>g, RowKept
  <2> QED BY <1>u, <1>p, <1>r, <1>g, <2>1, <2>2, <2>3, BookFrame
<1>l. row[o].state # "none"
  BY <1>p, <1>r DEF RowSound
<1>d. \A k \in Slices : Deals(o, k) \subseteq Orders \X Slices
  BY <1>n, <1>z DEF Deals
<1>h. PICK listed \in HistoryReads(o) :
        \/ snap[o].open /\ ReconcileWorking(o, listed)
        \/ UNCHANGED <<row, seen, booked>>
        \/ ReconcileVanished(o, listed)
  BY DEF PassRow
<1>k. (listed \in Slices /\ listed <= exec[o]) \/ listed = Unread
  BY <1>r, <1>z, <1>n DEF HistoryReads
<1>0. CASE UNCHANGED <<row, seen, booked>>
  BY <1>0, <1>g, <1>r, RowKept
<1>1. CASE ReconcileWorking(o, listed)
  <2>1. CASE snap[o].exec > row[o].filled /\ snap[o].exec < Qty
    <3> DEFINE r == [row[o] EXCEPT !.missing = "no", !.state = "confirmed", !.pos = TRUE,
                                   !.filled = snap[o].exec]
    <3>1. /\ row' = [row EXCEPT ![o] = r]
          /\ booked' = [booked EXCEPT ![o] = booked[o] + (snap[o].exec - row[o].filled)]
          /\ seen' \in {seen, seen \cup Deals(o, snap[o].exec)}
      BY <1>1, <2>1 DEF ReconcileWorking
    <3>2. /\ r \in Row /\ r.filled = snap[o].exec /\ r.ref /\ r.state = "confirmed"
      BY <1>r, <1>p DEF Row
    <3>3. seen' \subseteq Orders \X Slices
      BY <1>r, <1>d, <3>1
    <3> HIDE DEF r
    <3>4. snap[o].exec >= row[o].filled /\ r.state # "none"
      BY <1>z, <2>1, <3>2
    <3> QED BY <1>f, <1>r, <3>1, <3>2, <3>3, <3>4
  <2>2. CASE ~(snap[o].exec > row[o].filled /\ snap[o].exec < Qty)
    <3> DEFINE r == [row[o] EXCEPT !.missing = "no"]
    <3>1. row' = [row EXCEPT ![o] = r] /\ booked' = booked /\ seen' = seen
      BY <1>1, <2>2 DEF ReconcileWorking
    <3>2. /\ r \in Row /\ r.filled = row[o].filled /\ r.ref = row[o].ref
          /\ r.state = row[o].state
      BY <1>r DEF Row
    <3> HIDE DEF r
    <3> QED BY <1>g, <3>1, <3>2
  <2> QED BY <2>1, <2>2
<1>2. CASE ReconcileVanished(o, listed)
  <2>1. CASE listed > 0 /\ PromoteFromDeal(o, listed)
    <3>0. listed \in Slices /\ listed <= exec[o]
      BY <1>k, <2>1 DEF Unread
    <3> DEFINE cum == Larger(row[o].filled, listed)
    <3> DEFINE r == [row[o] EXCEPT !.missing = "no", !.pos = TRUE, !.filled = cum,
                       !.state = IF cum > row[o].filled \/ ~row[o].pos
                                 THEN "confirmed" ELSE @]
    <3>1. /\ row' = [row EXCEPT ![o] = r]
          /\ seen' \subseteq seen \cup Deals(o, listed)
          /\ \/ booked' = booked
             \/ booked' = [booked EXCEPT ![o] = booked[o] + (cum - row[o].filled)]
      <4> DEFINE fresh == Deals(o, listed) \ seen
      <4>1. row' = [row EXCEPT ![o] = r]
        BY <2>1 DEF PromoteFromDeal
      <4>2. seen' = seen \cup fresh
        BY <2>1 DEF PromoteFromDeal
      <4>3. booked' = [booked EXCEPT ![o] =
                         IF fresh = {} THEN @ ELSE @ + (cum - row[o].filled)]
        BY <2>1 DEF PromoteFromDeal
      <4>4. CASE fresh = {}
        <5>1. booked' = [booked EXCEPT ![o] = booked[o]]
          BY <4>3, <4>4
        <5> QED BY <4>1, <4>2, <5>1, RowKept
      <4>5. CASE fresh # {}
        <5>1. booked' = [booked EXCEPT ![o] = booked[o] + (cum - row[o].filled)]
          BY <4>3, <4>5
        <5> QED BY <4>1, <4>2, <5>1
      <4> QED BY <4>4, <4>5
    <3>2. /\ cum \in {row[o].filled, listed} /\ cum \in Slices /\ cum >= row[o].filled
      BY <1>r, <1>z, <1>n, <3>0 DEF Larger
    <3> HIDE DEF cum
    <3>3. /\ r \in Row /\ r.filled = cum /\ r.ref /\ r.state # "none"
      BY <1>r, <1>p, <1>l, <3>2 DEF Row
    <3> HIDE DEF r
    <3>4. seen' \subseteq Orders \X Slices
      BY <1>r, <1>d, <3>0, <3>1
    <3>5. CASE cum = listed
      <4>1. PICK n \in {booked[o], booked[o] + (cum - row[o].filled)} :
                 booked' = [booked EXCEPT ![o] = n]
        BY <3>1, RowKept
      <4> QED BY <1>f, <3>0, <3>1, <3>2, <3>3, <3>4, <3>5, <4>1
    <3>6. CASE cum = row[o].filled
      <4>1. booked[o] + (cum - row[o].filled) = booked[o]
        BY <1>r, <1>z, <3>6
      <4>2. booked' = booked
        BY <3>1, <4>1, RowKept
      <4>3. RowSound(o, r) /\ r.filled >= row[o].filled
        BY <1>p, <1>r, <1>z, <3>3, <3>6 DEF RowSound
      <4>4. /\ todo' \subseteq todo /\ o \notin todo' /\ SoundQueue(execq', exec)
        BY <1>u, <1>p
      <4> QED BY <1>u, <1>p, <1>r, <3>1, <3>3, <3>4, <4>2, <4>3, <4>4, RowKept, BookFrame
    <3> QED BY <3>2, <3>5, <3>6
  <2>2. CASE UNCHANGED <<row, seen, booked>>
    BY <2>2, <1>0
  <2>3. CASE /\ row' = [row EXCEPT ![o].missing =
                  IF ~row[o].pos /\ row[o].filled = 0 /\ @ = "no"
                  THEN "fresh" ELSE @]
             /\ UNCHANGED <<seen, booked>>
    <3> DEFINE r == [row[o] EXCEPT !.missing =
                  IF ~row[o].pos /\ row[o].filled = 0 /\ @ = "no"
                  THEN "fresh" ELSE @]
    <3>1. row' = [row EXCEPT ![o] = r] /\ booked' = booked /\ seen' = seen
      BY <2>3
    <3>2. /\ r \in Row /\ r.filled = row[o].filled /\ r.ref = row[o].ref
          /\ r.state = row[o].state
      BY <1>r DEF Row
    <3> HIDE DEF r
    <3> QED BY <1>g, <3>1, <3>2
  <2> QED BY <1>2, <2>1, <2>2, <2>3 DEF ReconcileVanished
<1> QED BY <1>h, <1>0, <1>1, <1>2

\* A step that rewrites any rows, without moving a cursor or a reference.
LEMMA RowsFrame ==
  ASSUME Inv,
         UNCHANGED <<ord, exec, link, wire, task, answer, execq, leg, seen, booked, lag>>,
         UNCHANGED <<proc, snap, todo, drops, crashes, replays>>,
         pass' \in {"grace", "idle"}, pass # "idle",
         row' \in [Orders -> Row],
         \A p \in Orders : /\ row'[p].filled = row[p].filled /\ row'[p].ref = row[p].ref
                           /\ row'[p].pos = row[p].pos /\ row'[p].state = row[p].state
  PROVE  StepSound
<1>n. Numbers /\ Qty \in Nat
  BY NumbersTyped DEF Inv
<1>t. TypeOK'
  BY DEF Inv, TypeOK
<1>p. proc = "running"
  BY DEF Inv, IInv, WorklistSound
<1>1. ReportsSound' /\ VenueSound'
  BY DEF Inv, IInv, ReportsSound, VenueSound
<1>2. UnsentSound'
  BY DEF Inv, IInv, UnsentSound
<1>3. CursorSound'
  BY DEF Inv, IInv, CursorSound
<1>4. WorklistSound'
  BY <1>p DEF WorklistSound
<1>5. BookSound'
  BY DEF Inv, IInv, BookSound
<1>6. LedgerStep
  BY LedgerStutter
<1>7. CursorStep
  BY <1>n DEF CursorStep, Numbers
<1> QED BY <1>t, <1>1, <1>2, <1>3, <1>4, <1>5, <1>6, <1>7 DEF StepSound, Inv, IInv

\* The presence feed and the end of a pass move the stamps alone.
LEMMA PassCloses ==
  ASSUME Inv, PassPresence \/ PassEnds
  PROVE  StepSound
<1>1. row \in [Orders -> Row]
  BY DEF Inv, TypeOK
<1>2. ASSUME NEW o \in Orders, NEW s \in {"no", "stamped"}
      PROVE  LET r == [row[o] EXCEPT !.missing = s] IN
               /\ r \in Row /\ r.filled = row[o].filled /\ r.ref = row[o].ref
               /\ r.pos = row[o].pos /\ r.state = row[o].state
  BY <1>1 DEF Row
<1>3. CASE PassPresence
  <2>1. \A o \in Orders : row'[o] \in {row[o], [row[o] EXCEPT !.missing = "no"]}
    BY <1>3 DEF PassPresence
  <2>2. row' = [o \in Orders |-> row'[o]]
    BY <1>3 DEF PassPresence
  <2>3. \A p \in Orders : /\ row'[p] \in Row
                          /\ row'[p].filled = row[p].filled /\ row'[p].ref = row[p].ref
                          /\ row'[p].pos = row[p].pos /\ row'[p].state = row[p].state
    BY <1>1, <1>2, <2>1
  <2>4. row' \in [Orders -> Row]
    BY <2>2, <2>3
  <2> QED BY <1>3, <2>3, <2>4, RowsFrame DEF PassPresence
<1>4. CASE PassEnds
  <2>1. \A o \in Orders : row'[o] \in {row[o], [row[o] EXCEPT !.missing = "stamped"]}
    BY <1>4 DEF PassEnds
  <2>2. row' = [o \in Orders |-> row'[o]]
    BY <1>4 DEF PassEnds
  <2>3. \A p \in Orders : /\ row'[p] \in Row
                          /\ row'[p].filled = row[p].filled /\ row'[p].ref = row[p].ref
                          /\ row'[p].pos = row[p].pos /\ row'[p].state = row[p].state
    BY <1>1, <1>2, <2>1
  <2>4. row' \in [Orders -> Row]
    BY <2>2, <2>3
  <2> QED BY <1>4, <2>3, <2>4, RowsFrame DEF PassEnds
<1> QED BY <1>3, <1>4

\* An expired stamp retires the row or is cleared; the cursor stays.
LEMMA GraceStep ==
  ASSUME Inv, NEW o \in Orders, GraceExpires(o)
  PROVE  StepSound
<1>1. row[o] \in Row /\ RowSound(o, row[o]) /\ SoundQueue(execq, exec)
  BY RowKept, RowsSound DEF Inv, IInv, ReportsSound
<1>2. PICK r \in {Closed(row[o]), [row[o] EXCEPT !.missing = "no"]} :
        row' = [row EXCEPT ![o] = r]
  BY DEF GraceExpires
<1>3. r \in Row /\ r.filled = row[o].filled
  BY <1>1, <1>2 DEF Closed, Row
<1>4. RowSound(o, r)
  BY <1>1, <1>2 DEF RowSound, Closed, Row
<1>5. proc = "running" /\ pass = "grace"
  BY DEF GraceExpires, Inv, IInv, WorklistSound
<1>6. r.filled >= row[o].filled
  BY <1>3, RowKept
<1> QED BY <1>1, <1>2, <1>3, <1>4, <1>5, <1>6, RowKept, BookFrame DEF GraceExpires

-----------------------------------------------------------------------------
(* Start-up *)

\* A start-up opens on a snapshot, with the pending rows as its worklist.
LEMMA ConnectStep ==
  ASSUME Inv, Connect \/ RecoveryEnds
  PROVE  StepSound
<1>n. Numbers /\ Qty \in Nat
  BY NumbersTyped DEF Inv
<1>u. /\ UNCHANGED <<ord, exec, wire, task, answer, execq>>
      /\ UNCHANGED <<row, seen, booked, lag, pass, drops, crashes, replays>>
      /\ proc # "running" /\ proc' # "running"
      /\ link' \in BOOLEAN /\ leg' \in [Orders -> BOOLEAN]
  BY DEF Connect, RecoveryEnds, Inv, TypeOK, Owned, Live
<1>a. \/ /\ proc' = "recovering" /\ snap' = Snapshot
         /\ todo' = {o \in Orders : Pending(o)}
      \/ proc' = "recovered" /\ snap' = snap /\ todo' = todo
  BY DEF Connect, RecoveryEnds
<1>s. /\ snap' \in [Orders -> [open : BOOLEAN, exec : Slices]]
      /\ \A o \in Orders : snap'[o].exec <= exec[o]
  <2>1. CASE snap' = snap
    BY <2>1 DEF Inv, IInv, TypeOK, ReportsSound
  <2>2. CASE snap' = Snapshot
    BY <2>2, <1>n DEF Snapshot, Numbers, Inv, TypeOK
  <2> QED BY <1>a, <2>1, <2>2
<1>b. /\ todo' \subseteq Orders /\ proc' \in {"recovering", "recovered"}
      /\ proc' = "recovering" => \A o \in todo' : row[o].state # "none"
  BY <1>a DEF Pending, Inv, TypeOK
<1>t. TypeOK'
  BY <1>u, <1>s, <1>b DEF Inv, TypeOK
<1>1. ReportsSound'
  BY <1>u, <1>s DEF Inv, IInv, ReportsSound
<1>2. VenueSound' /\ UnsentSound' /\ CursorSound' /\ BookSound'
  BY <1>u DEF Inv, IInv, VenueSound, UnsentSound, CursorSound, BookSound
<1>3. WorklistSound'
  BY <1>u, <1>b DEF Inv, IInv, WorklistSound
<1>4. LedgerStep
  BY <1>u, LedgerStutter
<1>5. CursorStep
  BY <1>n, <1>u DEF CursorStep, Numbers
<1> QED BY <1>t, <1>1, <1>2, <1>3, <1>4, <1>5 DEF StepSound, Inv, IInv

\* A recovered row's cursor becomes what it was or a number the venue executed.
LEMMA RecoverRowStep ==
  ASSUME Inv, NEW o \in Orders, RecoverRow(o)
  PROVE  StepSound
<1>n. Numbers /\ Qty \in Nat
  BY NumbersTyped DEF Inv
<1>u. /\ UNCHANGED <<ord, exec, link, wire, task, answer, leg, lag, proc, pass, snap>>
      /\ UNCHANGED <<drops, crashes, replays, execq, booked>>
      /\ proc = "recovering" /\ o \in todo /\ todo' = todo \ {o}
  BY DEF RecoverRow
<1>p. /\ row[o].state # "none" /\ SoundQueue(execq, exec)
      /\ task[o] \notin {"idle", "refused"}
  BY <1>u DEF Inv, IInv, WorklistSound, ReportsSound, UnsentSound
<1>r. /\ RowSound(o, row[o]) /\ row[o] \in Row
      /\ row[o].filled \in Slices /\ exec[o] \in Slices
      /\ snap[o].exec \in Slices /\ snap[o].exec <= exec[o]
      /\ seen \subseteq Orders \X Slices
  BY RowsSound, RowKept DEF Row, Inv, IInv, TypeOK, ReportsSound
<1>z. Slices = 0 .. Qty /\ row[o].filled \in Nat /\ exec[o] \in Nat /\ snap[o].exec \in Nat
  BY <1>n, <1>r DEF Slices
<1>f. ASSUME NEW r \in Row, row' = [row EXCEPT ![o] = r], RowSound(o, r),
             r.filled >= row[o].filled, seen' \subseteq Orders \X Slices
      PROVE  StepSound
  <2>1. /\ todo' \subseteq todo /\ o \notin todo' /\ SoundQueue(execq', exec)
    BY <1>u, <1>p
  <2> QED BY <1>u, <1>p, <1>f, <2>1, RowKept, BookFrame
<1>d. \A k \in Slices \cup {Unread} : Deals(o, k) \subseteq Orders \X Slices
  BY <1>n, <1>z DEF Deals, Unread
<1>1. ASSUME RecordRefs(o) PROVE StepSound
  <2> DEFINE r == [row[o] EXCEPT !.ref = TRUE, !.pos = TRUE, !.unsure = TRUE]
  <2>1. row' = [row EXCEPT ![o] = r] /\ seen' = seen
    BY <1>1 DEF RecordRefs
  <2>2. r \in Row /\ r.filled = row[o].filled /\ r.ref /\ r.state = row[o].state
    BY <1>r DEF Row
  <2>3. RowSound(o, r)
    BY <1>p, <1>r, <2>2 DEF RowSound
  <2> HIDE DEF r
  <2>4. r.filled >= row[o].filled /\ seen' \subseteq Orders \X Slices
    BY <1>r, <1>z, <2>1, <2>2
  <2> QED BY <1>f, <2>1, <2>2, <2>3, <2>4
<1>2. ASSUME NEW k \in Slices, k <= exec[o], NEW pos \in BOOLEAN, NEW part \in BOOLEAN,
             ConfirmRecovered(o, k, pos, part), seen' \subseteq Orders \X Slices
      PROVE  StepSound
  <2> DEFINE c == Larger(row[o].filled, k)
  <2> DEFINE r == [row[o] EXCEPT !.state = "confirmed", !.ref = TRUE, !.pos = pos,
                      !.filled = c, !.partial = @ \/ part]
  <2>1. row' = [row EXCEPT ![o] = r]
    BY <1>2 DEF ConfirmRecovered
  <2>2. c \in Slices /\ c >= row[o].filled /\ c \in {row[o].filled, k}
    BY <1>r, <1>z, <1>n DEF Larger
  <2> HIDE DEF c
  <2>3. r \in Row /\ r.filled = c /\ r.ref /\ r.state = "confirmed"
    BY <1>r, <2>2 DEF Row
  <2> HIDE DEF r
  <2>4. RowSound(o, r)
    BY <1>2, <1>p, <1>r, <1>z, <2>2, <2>3 DEF RowSound
  <2> QED BY <1>f, <1>2, <2>1, <2>2, <2>3, <2>4
<1>3. ASSUME row' = [row EXCEPT ![o] = Closed(@)], seen' = seen PROVE StepSound
  <2> DEFINE r == Closed(row[o])
  <2>1. r \in Row /\ r.filled = row[o].filled
    BY <1>r DEF Closed, Row
  <2>2. RowSound(o, r)
    BY <1>r DEF RowSound, Closed, Row
  <2>3. row' = [row EXCEPT ![o] = r]
    BY <1>3
  <2>4. r.filled >= row[o].filled /\ seen' \subseteq Orders \X Slices
    BY <1>3, <1>r, <1>z, <2>1
  <2> HIDE DEF r
  <2> QED BY <1>f, <2>1, <2>2, <2>3, <2>4
<1>h. PICK listed \in HistoryReads(o) : \/ RecoverLive(o, listed)
                                        \/ RecoverByCoid(o, listed)
  BY DEF RecoverRow
<1>k. (listed \in Slices /\ listed <= exec[o]) \/ listed = Unread
  BY <1>r, <1>z, <1>n DEF HistoryReads
<1>s. seen \cup Deals(o, listed) \subseteq Orders \X Slices
  BY <1>r, <1>d, <1>k
<1>4. CASE RecoverLive(o, listed)
  <2>1. CASE RecordRefs(o)
    BY <1>1, <2>1
  <2>2. CASE ConfirmRecovered(o, snap[o].exec, TRUE, FALSE) /\ seen' = seen \cup Deals(o, listed)
    <3>1. seen' \subseteq Orders \X Slices
      BY <1>s, <2>2
    <3> QED BY <1>2, <1>r, <2>2, <3>1
  <2>3. CASE ConfirmRecovered(o, 0, FALSE, FALSE) /\ seen' = seen
    <3>1. 0 \in Slices /\ 0 <= exec[o]
      BY <1>z, <1>n
    <3> QED BY <1>2, <1>r, <2>3, <3>1
  <2> QED BY <1>4, <2>1, <2>2, <2>3 DEF RecoverLive
<1>5. CASE RecoverByCoid(o, listed)
  <2>1. CASE row' = [row EXCEPT ![o] = Closed(@)] /\ seen' = seen
    BY <1>3, <2>1
  <2>2. CASE UNCHANGED <<row, seen>>
    BY <1>f, <1>r, <1>z, <2>2, RowKept
  <2>3. CASE RecordRefs(o)
    BY <1>1, <2>3
  <2>4. CASE /\ LET filled == IF listed > 0 THEN listed ELSE exec[o] IN
                  ConfirmRecovered(o, filled, exec[o] > 0,
                                   ord[o] = "cancelled" /\ filled < Qty)
             /\ seen' = seen \cup Deals(o, listed)
    <3> DEFINE filled == IF listed > 0 THEN listed ELSE exec[o]
    <3>1. filled \in Slices /\ filled <= exec[o]
      BY <1>k, <1>r, <1>z DEF Unread
    <3>2. seen' \subseteq Orders \X Slices
      BY <1>s, <2>4
    <3>3. /\ ConfirmRecovered(o, filled, exec[o] > 0, ord[o] = "cancelled" /\ filled < Qty)
      BY <2>4
    <3> HIDE DEF filled
    <3>4. (exec[o] > 0) \in BOOLEAN /\ (ord[o] = "cancelled" /\ filled < Qty) \in BOOLEAN
      OBVIOUS
    <3> QED BY <1>2, <3>1, <3>2, <3>3, <3>4
  <2> QED BY <1>5, <2>1, <2>2, <2>3, <2>4 DEF RecoverByCoid, RecoverFromHistory
<1> QED BY <1>h, <1>4, <1>5

\* The adoption opens the ledger with executed units, all or none per order.
LEMMA AdoptStep ==
  ASSUME Inv, Adopt
  PROVE  StepSound
<1>n. Numbers /\ Qty \in Nat
  BY NumbersTyped DEF Inv
<1>z. Slices = 0 .. Qty
  BY DEF Slices
<1>u. /\ UNCHANGED <<ord, exec, link, wire, task, answer, execq, leg, seen, pass>>
      /\ UNCHANGED <<snap, todo, drops, crashes, replays>>
      /\ proc = "recovered" /\ proc' = "running"
      /\ row' = [o \in Orders |-> Baselined(o)]
      /\ booked' = [o \in Orders |-> IF Owned(o) THEN exec[o] ELSE 0]
      /\ lag' = [o \in Orders |-> IF Owned(o) /\ exec[o] > Baselined(o).filled
                                  THEN exec[o] - Baselined(o).filled ELSE 0]
  BY DEF Adopt
<1>p. pass = "idle"
  BY <1>u DEF Inv, IInv, WorklistSound
<1>b. ASSUME NEW o \in Orders
      PROVE  /\ Baselined(o) \in Row /\ Baselined(o).filled \in Nat
             /\ Baselined(o).filled >= row[o].filled
             /\ RowSound(o, Baselined(o))
  <2>0. /\ RowSound(o, row[o]) /\ row[o] \in Row /\ row[o].filled \in Nat
        /\ row[o].filled <= Qty /\ exec[o] \in Nat /\ exec[o] <= Qty
    BY <1>n, RowsSound, RowKept DEF Numbers
  <2>1. ASSUME NEW k \in Slices, Baselined(o) = [row[o] EXCEPT !.filled = k],
               k >= row[o].filled, exec[o] = 0 => k = row[o].filled,
               ~row[o].ref => k = row[o].filled
        PROVE  /\ Baselined(o) \in Row /\ Baselined(o).filled \in Nat
               /\ Baselined(o).filled >= row[o].filled
               /\ RowSound(o, Baselined(o))
    <3> DEFINE r == [row[o] EXCEPT !.filled = k]
    <3>1. /\ r \in Row /\ r.filled = k /\ r.ref = row[o].ref /\ r.state = row[o].state
          /\ r.pos = row[o].pos
      BY <2>0 DEF Row
    <3>2. k \in Nat
      BY <1>z, <1>n
    <3> HIDE DEF r
    <3>3. RowSound(o, r)
      BY <2>0, <2>1, <3>1 DEF RowSound, Live
    <3>4. Baselined(o) = r
      BY <2>1 DEF r
    <3> QED BY <2>1, <3>1, <3>2, <3>3, <3>4
  <2>2. CASE Baselined(o) = row[o]
    BY <2>0, <2>2
  <2>3. CASE row[o].ref /\ Baselined(o) = [row[o] EXCEPT !.filled = Larger(@, exec[o])]
    <3>1. /\ Larger(row[o].filled, exec[o]) \in Slices
          /\ Larger(row[o].filled, exec[o]) >= row[o].filled
          /\ exec[o] = 0 => Larger(row[o].filled, exec[o]) = row[o].filled
      BY <1>z, <1>n, <2>0 DEF Larger
    <3> QED BY <2>1, <2>3, <3>1
  <2>4. CASE /\ Live(o) /\ row[o].pos /\ exec[o] > 0
             /\ Baselined(o) = [row[o] EXCEPT !.filled = Qty]
    <3>1. row[o].ref
      BY <2>0, <2>4 DEF RowSound, Live
    <3>2. Qty \in Slices /\ Qty >= row[o].filled /\ exec[o] # 0
      BY <1>z, <1>n, <2>0, <2>4
    <3> QED BY <2>1, <2>4, <3>1, <3>2
  <2> QED BY <2>2, <2>3, <2>4 DEF Baselined
<1>l. ASSUME NEW o \in Orders
      PROVE  /\ booked'[o] \in {0, exec[o]} /\ booked'[o] \in 0 .. Qty
             /\ lag'[o] \in Slices /\ lag'[o] <= booked'[o]
             /\ booked'[o] <= row'[o].filled + lag'[o]
             /\ booked'[o] <= exec[o] + lag'[o]
  <2>0. /\ exec[o] \in Nat /\ exec[o] <= Qty /\ Baselined(o).filled \in Nat
        /\ row'[o] = Baselined(o)
    BY <1>n, <1>b, <1>u DEF Numbers
  <2>1. CASE ~Owned(o)
    <3>1. booked'[o] = 0 /\ lag'[o] = 0
      BY <1>u, <2>1
    <3> QED BY <1>z, <1>n, <2>0, <3>1
  <2>2. CASE Owned(o) /\ exec[o] > Baselined(o).filled
    <3>1. booked'[o] = exec[o] /\ lag'[o] = exec[o] - Baselined(o).filled
      BY <1>u, <2>2
    <3> QED BY <1>z, <1>n, <2>0, <2>2, <3>1
  <2>3. CASE Owned(o) /\ ~(exec[o] > Baselined(o).filled)
    <3>1. booked'[o] = exec[o] /\ lag'[o] = 0
      BY <1>u, <2>3
    <3> QED BY <1>z, <1>n, <2>0, <2>3, <3>1
  <2> QED BY <2>1, <2>2, <2>3
<1>a. /\ row' \in [Orders -> Row] /\ booked' \in [Orders -> 0 .. Qty]
      /\ lag' \in [Orders -> Slices]
      /\ \A o \in Orders : row'[o] = Baselined(o)
  BY <1>u, <1>b, <1>l
<1>t. TypeOK'
  <2>1. booked' \in [Orders -> Nat]
    BY <1>a, <1>n
  <2> QED BY <1>u, <1>a, <2>1 DEF Inv, TypeOK
<1>1. ReportsSound' /\ VenueSound'
  BY <1>u DEF Inv, IInv, ReportsSound, VenueSound
<1>2. UnsentSound'
  BY <1>u, <1>a, <1>b DEF Inv, IInv, UnsentSound, RowSound
<1>3. CursorSound'
  BY <1>u, <1>a, <1>b DEF CursorSound, RowSound
<1>4. WorklistSound'
  BY <1>u, <1>p DEF WorklistSound
<1>5. BookSound'
  BY <1>u, <1>l DEF BookSound
<1>6. LedgerStep
  <2>1. Ledger!Open
    BY <1>u, <1>a, <1>l, <1>z DEF Ledger!Open
  <2> QED BY <2>1 DEF LedgerStep, Ledger!Next
<1>7. CursorStep
  BY <1>a, <1>b DEF CursorStep
<1> QED BY <1>t, <1>1, <1>2, <1>3, <1>4, <1>5, <1>6, <1>7 DEF StepSound, Inv, IInv

-----------------------------------------------------------------------------
(* What an adoption counts twice *)

\* What an adoption missed of an order is part of what the order executed, and
\* the row, or the leg that owns its position, says why.
Aligned ==
  \A o \in Orders : /\ lag[o] <= exec[o]
                    /\ lag[o] > 0 => leg[o] \/ row[o].unsure \/ row[o].partial

\* The marks of a row whose order an adoption did not miss may go; others stay.
MarksKept ==
  \A o \in Orders :
    \/ exec[o] = 0
    \/ /\ row[o].unsure => row'[o].unsure
       /\ row[o].partial => row'[o].partial

\* A step that only adds executions, legs and marks keeps the rows aligned.
LEMMA AlignedKept ==
  ASSUME Inv, Aligned, MarksKept, lag' = lag,
         \A o \in Orders : exec[o] <= exec'[o] /\ exec'[o] \in Nat /\ (leg[o] => leg'[o])
  PROVE  Aligned'
<1>n. \A o \in Orders : exec[o] \in Nat /\ lag[o] \in Nat
  BY NumbersTyped DEF Inv, Numbers
<1> QED BY <1>n DEF Aligned, MarksKept

\* The steps that leave the rows alone.
LEMMA AlignedRowsAlone ==
  ASSUME Inv, Aligned, row' = row, lag' = lag, exec' = exec \/ TypeOK',
         \A o \in Orders : exec[o] <= exec'[o] /\ (leg[o] => leg'[o])
  PROVE  Aligned'
<1>1. \A o \in Orders : exec'[o] \in Nat
  <2>1. \A o \in Orders : exec[o] \in Nat
    BY NumbersTyped DEF Inv, Numbers
  <2>2. CASE TypeOK'
    BY <2>2, QtyAssumption DEF TypeOK, Slices
  <2> QED BY <2>1, <2>2
<1>2. MarksKept
  BY DEF MarksKept
<1> QED BY <1>1, <1>2, AlignedKept

\* The steps that move rows only.
LEMMA AlignedRowsOnly ==
  ASSUME Inv, Aligned, MarksKept, exec' = exec, leg' = leg, lag' = lag
  PROVE  Aligned'
<1>1. \A o \in Orders : exec[o] \in Nat
  BY NumbersTyped DEF Inv, Numbers
<1> QED BY <1>1, AlignedKept

\* One row moves, and keeps its marks.
LEMMA MarksOne ==
  ASSUME row \in [Orders -> Row], NEW o \in Orders, NEW r,
         row' = [row EXCEPT ![o] = r],
         r.unsure = row[o].unsure /\ r.partial = row[o].partial
  PROVE  MarksKept
BY DEF MarksKept

\* One row moves and keeps its marks, or its order never executed.
LEMMA AlignedOneRow ==
  ASSUME Inv, Aligned, exec' = exec, leg' = leg, lag' = lag,
         NEW o \in Orders, NEW r, row' = [row EXCEPT ![o] = r],
         \/ exec[o] = 0
         \/ (row[o].unsure => r.unsure) /\ (row[o].partial => r.partial)
  PROVE  Aligned'
<1>1. row \in [Orders -> Row]
  BY DEF Inv, TypeOK
<1>2. MarksKept
  BY <1>1 DEF MarksKept
<1> QED BY <1>2, AlignedRowsOnly

\* Dispatch, answers and cancels: one row moves and keeps its marks, but for the
\* row of a dispatch, whose order never executed.
LEMMA AlignedDispatch ==
  ASSUME Inv, Aligned, NEW o \in Orders, DispatchStep(o)
  PROVE  Aligned'
<1>r. row \in [Orders -> Row]
  BY DEF Inv, TypeOK
<1>1. CASE Dispatch(o)
  <2>1. exec[o] = 0
    BY <1>1 DEF Dispatch, Inv, IInv, UnsentSound, VenueSound
  <2> QED BY <1>1, <2>1, AlignedOneRow DEF Dispatch
<1>2. CASE DispatchTimesOut(o)
  BY <1>2, AlignedRowsOnly DEF DispatchTimesOut, MarksKept
<1>3. CASE DispatchAnswered(o)
  <2>1. \/ row' = [row EXCEPT ![o].state = IF Live(o) THEN "rejected" ELSE @]
        \/ row' = [row EXCEPT ![o] = PersistEntry(row[o], answer[o])]
    BY <1>3, <1>r DEF DispatchAnswered
  <2>2. MarksKept
    <3>1. CASE row' = [row EXCEPT ![o].state = IF Live(o) THEN "rejected" ELSE @]
      BY <1>r, <3>1 DEF MarksKept, Row
    <3>2. CASE row' = [row EXCEPT ![o] = PersistEntry(row[o], answer[o])]
      <4> DEFINE r == PersistEntry(row[o], answer[o])
      <4>1. r.unsure = row[o].unsure /\ r.partial = row[o].partial
        BY <1>r DEF PersistEntry, Row
      <4> HIDE DEF r
      <4> QED BY <1>r, <3>2, <4>1, MarksOne DEF r
    <3> QED BY <2>1, <3>1, <3>2
  <2> QED BY <1>3, <2>2, AlignedRowsOnly DEF DispatchAnswered
<1>4. CASE DispatchUnknown(o)
  <2>1. MarksKept
    BY <1>r, <1>4 DEF DispatchUnknown, MarksKept, Row
  <2> QED BY <1>4, <2>1, AlignedRowsOnly DEF DispatchUnknown
<1> QED BY <1>1, <1>2, <1>3, <1>4 DEF DispatchStep

\* The messages of the queue: what they write on a row is not a mark.
LEMMA AlignedTranslate ==
  ASSUME Inv, Aligned, Translate
  PROVE  Aligned'
<1>r. row \in [Orders -> Row]
  BY DEF Inv, TypeOK
<1> DEFINE m == Head(execq)
<1>1. \/ row' = row
      \/ TranslateCancel(m) \/ TranslateKnownFill(m) \/ TranslateParkedFill(m)
  BY DEF Translate, TranslateExternalFill
<1>2. MarksKept
  <2>1. CASE row' = row
    BY <2>1 DEF MarksKept
  <2>2. CASE TranslateCancel(m)
    BY <1>r, <2>2 DEF TranslateCancel, Closed, MarksKept, Row
  <2>3. CASE TranslateKnownFill(m)
    BY <1>r, <2>3 DEF TranslateKnownFill, MarksKept, Row
  <2>4. CASE TranslateParkedFill(m)
    <3> DEFINE r == [row[m.ord] EXCEPT !.state = "confirmed", !.filled = m.cum,
                                       !.ref = TRUE, !.pos = TRUE]
    <3>1. row' = [row EXCEPT ![m.ord] = r]
      BY <2>4 DEF TranslateParkedFill
    <3>2. m.ord \in Orders => r.unsure = row[m.ord].unsure /\ r.partial = row[m.ord].partial
      BY <1>r DEF Row
    <3> HIDE DEF r, m
    <3> QED BY <1>r, <3>1, <3>2 DEF MarksKept
  <2> QED BY <1>1, <2>1, <2>2, <2>3, <2>4
<1> QED BY <1>2, AlignedRowsOnly DEF Translate

\* The reconcile pass moves cursors and stamps, never a mark.
LEMMA AlignedPass ==
  ASSUME Inv, Aligned, PassStep
  PROVE  Aligned'
<1>r. row \in [Orders -> Row]
  BY DEF Inv, TypeOK
<1>1. CASE PassBegins \/ PassCollects
  BY <1>1, AlignedRowsOnly DEF PassBegins, PassCollects, MarksKept
<1>2. CASE PassPresence \/ PassEnds
  <2>1. MarksKept
    BY <1>r, <1>2 DEF PassPresence, PassEnds, MarksKept, Row
  <2> QED BY <1>2, <2>1, AlignedRowsOnly DEF PassPresence, PassEnds
<1>3. ASSUME NEW o \in Orders, GraceExpires(o) PROVE Aligned'
  <2>1. MarksKept
    BY <1>r, <1>3 DEF GraceExpires, Closed, MarksKept, Row
  <2> QED BY <1>3, <2>1, AlignedRowsOnly DEF GraceExpires
<1>4. ASSUME NEW o \in Orders, PassRow(o) PROVE Aligned'
  <2>1. PICK listed \in HistoryReads(o) :
          row' = row \/ ReconcileWorking(o, listed) \/ ReconcileVanished(o, listed)
    BY <1>4 DEF PassRow
  <2>2. MarksKept
    <3>1. CASE row' = row
      BY <3>1 DEF MarksKept
    <3>2. \E r : /\ row' = row \/ row' = [row EXCEPT ![o] = r]
                 /\ r.unsure = row[o].unsure /\ r.partial = row[o].partial
      <4>1. row[o] \in Row
        BY <1>r
      <4>2. CASE ReconcileWorking(o, listed)
        <5> DEFINE cleared == [row[o] EXCEPT !.missing = "no"]
                   moved == [cleared EXCEPT !.state = "confirmed", !.pos = TRUE,
                                            !.filled = snap[o].exec]
        <5>1. row' = [row EXCEPT ![o] = cleared] \/ row' = [row EXCEPT ![o] = moved]
          BY <4>2 DEF ReconcileWorking
        <5>2. /\ cleared.unsure = row[o].unsure /\ cleared.partial = row[o].partial
              /\ moved.unsure = row[o].unsure /\ moved.partial = row[o].partial
          BY <4>1 DEF Row
        <5> HIDE DEF cleared, moved
        <5> QED BY <5>1, <5>2
      <4>3. CASE ReconcileVanished(o, listed)
        <5> DEFINE cum == Larger(row[o].filled, listed)
                   fresh == [row[o] EXCEPT !.missing =
                               IF ~row[o].pos /\ row[o].filled = 0 /\ @ = "no"
                               THEN "fresh" ELSE @]
                   promoted == [row[o] EXCEPT
                                  !.missing = "no", !.pos = TRUE, !.filled = cum,
                                  !.state = IF cum > row[o].filled \/ ~row[o].pos
                                            THEN "confirmed" ELSE @]
        <5>1. \/ row' = row
              \/ row' = [row EXCEPT ![o] = promoted]
              \/ row' = [row EXCEPT ![o] = fresh]
          <6>1. CASE listed = 0
            <7>1. row' = [row EXCEPT ![o].missing =
                            IF ~row[o].pos /\ row[o].filled = 0 /\ @ = "no"
                            THEN "fresh" ELSE @]
              BY <4>3, <6>1 DEF ReconcileVanished, Unread
            <7> QED BY <1>r, <7>1
          <6>2. CASE listed # 0
            BY <4>3, <6>2 DEF ReconcileVanished, PromoteFromDeal
          <6> QED BY <6>1, <6>2
        <5>2. /\ fresh.unsure = row[o].unsure /\ fresh.partial = row[o].partial
              /\ promoted.unsure = row[o].unsure /\ promoted.partial = row[o].partial
          BY <4>1 DEF Row
        <5> HIDE DEF fresh, promoted
        <5> QED BY <5>1, <5>2
      <4> QED BY <2>1, <3>1, <4>2, <4>3
    <3> QED BY <1>r, <3>2, MarksOne DEF MarksKept
  <2> QED BY <1>4, <2>2, AlignedRowsOnly DEF PassRow
<1> QED BY <1>1, <1>2, <1>3, <1>4 DEF PassStep

\* The recovery sets the marks, and an adoption misses what they, or a leg, cover.
LEMMA AlignedStart ==
  ASSUME Inv, Aligned, StartStep
  PROVE  Aligned'
<1>r. row \in [Orders -> Row]
  BY DEF Inv, TypeOK
<1>1. CASE Connect
  BY <1>1, AlignedRowsOnly DEF Connect, MarksKept
<1>2. CASE RecoveryEnds
  <2>1. leg \in [Orders -> BOOLEAN]
    BY DEF Inv, TypeOK
  <2>2. \A o \in Orders : exec[o] \in Nat
    BY NumbersTyped DEF Inv, Numbers
  <2> QED BY <1>2, <2>1, <2>2, AlignedRowsAlone DEF RecoveryEnds
<1>3. ASSUME NEW o \in Orders, RecoverRow(o) PROVE Aligned'
  <2>1. PICK listed \in HistoryReads(o) :
          RecoverLive(o, listed) \/ RecoverByCoid(o, listed)
    BY <1>3 DEF RecoverRow
  <2>2. MarksKept
    <3>1. ASSUME NEW filled, NEW pos, NEW partial, ConfirmRecovered(o, filled, pos, partial)
          PROVE  MarksKept
      BY <1>r, <3>1 DEF ConfirmRecovered, MarksKept, Row
    <3>2. CASE RecordRefs(o)
      BY <1>r, <3>2 DEF RecordRefs, MarksKept, Row
    <3>3. CASE row' = row
      BY <3>3 DEF MarksKept
    <3>4. CASE row' = [row EXCEPT ![o] = Closed(@)]
      BY <1>r, <3>4 DEF Closed, MarksKept, Row
    <3>5. \/ RecordRefs(o) \/ row' = row \/ row' = [row EXCEPT ![o] = Closed(@)]
          \/ \E filled, pos, partial : ConfirmRecovered(o, filled, pos, partial)
      BY <2>1 DEF RecoverLive, RecoverByCoid, RecoverFromHistory
    <3> QED BY <3>1, <3>2, <3>3, <3>4, <3>5
  <2> QED BY <1>3, <2>2, AlignedRowsOnly DEF RecoverRow
<1>4. CASE Adopt
  <2> SUFFICES ASSUME NEW o \in Orders
               PROVE  /\ lag'[o] <= exec'[o]
                      /\ lag'[o] > 0 => leg'[o] \/ row'[o].unsure \/ row'[o].partial
    BY DEF Aligned
  <2>n. /\ exec[o] \in Nat /\ exec[o] <= Qty /\ row[o] \in Row
        /\ row[o].filled \in Nat /\ Qty \in Nat
    BY NumbersTyped DEF Inv, Numbers
  <2>u. /\ exec' = exec /\ leg' = leg
        /\ row' = [p \in Orders |-> Baselined(p)]
        /\ lag' = [p \in Orders |-> IF Owned(p) /\ exec[p] > Baselined(p).filled
                                    THEN exec[p] - Baselined(p).filled ELSE 0]
    BY <1>4 DEF Adopt
  <2>1. /\ row'[o] = Baselined(o)
        /\ lag'[o] = IF Owned(o) /\ exec[o] > Baselined(o).filled
                     THEN exec[o] - Baselined(o).filled ELSE 0
    BY <2>u
  <2>2. /\ Baselined(o).unsure = row[o].unsure /\ Baselined(o).partial = row[o].partial
        /\ Baselined(o).filled \in Nat
    BY <2>n DEF Baselined, Larger, Row
  <2>3. ASSUME Owned(o), exec[o] > Baselined(o).filled, ~leg[o], ~row[o].unsure,
               ~row[o].partial
        PROVE  FALSE
    <3>1. Live(o) /\ row[o].pos
      BY <2>3 DEF Owned
    <3>2. CASE row[o].ref /\ ord[o] = "working"
      <4>1. Baselined(o).filled = Larger(row[o].filled, exec[o])
        BY <2>3, <2>n, <3>1, <3>2 DEF Baselined, Row
      <4> QED BY <2>3, <2>n, <4>1 DEF Larger
    <3>3. CASE ~(row[o].ref /\ ord[o] = "working")
      <4>1. exec[o] > 0
        BY <2>3, <2>n, <2>2
      <4>2. Baselined(o).filled = Qty
        BY <2>3, <2>n, <3>1, <3>3, <4>1 DEF Baselined, Row
      <4> QED BY <2>3, <2>n, <4>2
    <3> QED BY <3>2, <3>3
  <2>4. lag'[o] <= exec[o]
    BY <2>1, <2>2, <2>n
  <2>5. lag'[o] > 0 => Owned(o) /\ exec[o] > Baselined(o).filled
    BY <2>1
  <2> QED BY <2>u, <2>1, <2>2, <2>3, <2>4, <2>5
<1> QED BY <1>1, <1>2, <1>3, <1>4 DEF StartStep

\* No step of the system leaves a row behind an adoption without a reason.
LEMMA AlignedStep ==
  ASSUME Inv, Aligned, [Next]_vars
  PROVE  Aligned'
<1>n. \A o \in Orders : exec[o] \in Nat
  BY NumbersTyped DEF Inv, Numbers
<1>1. ASSUME NEW o \in Orders, Venue(o) PROVE Aligned'
  <2>1. /\ TypeOK' /\ exec \in [Orders -> Slices]
        /\ ord[o] = "inflight" => exec[o] = 0
    BY <1>1, VenueStep DEF StepSound, Inv, TypeOK, IInv, VenueSound
  <2>2. row' = row /\ leg' = leg /\ lag' = lag
    BY <1>1 DEF Venue, VenueAnswers, VenueFills, VenueCancels, VenueReplays
  <2>3. \/ exec' = exec
        \/ ord[o] = "inflight" /\ exec' = [exec EXCEPT ![o] = 1]
        \/ exec' = [exec EXCEPT ![o] = @ + 1]
    BY <1>1 DEF Venue, VenueAnswers, VenueFills, VenueCancels, VenueReplays
  <2>4. \A p \in Orders : exec[p] <= exec'[p]
    BY <1>n, <2>1, <2>3
  <2> QED BY <2>1, <2>2, <2>4, AlignedRowsAlone
<1>2. CASE Receive \/ LinkDrops \/ Reconnect \/ UNCHANGED vars
  <2>1. row' = row /\ leg' = leg /\ lag' = lag /\ exec' = exec
    BY <1>2 DEF Receive, LinkDrops, Reconnect, vars
  <2> QED BY <1>n, <2>1, AlignedRowsAlone
<1>3. CASE Crash
  <2>1. exec' = exec /\ \A o \in Orders : lag'[o] = 0
    BY <1>3 DEF Crash
  <2> QED BY <1>n, <2>1 DEF Aligned
<1> QED
  BY <1>1, <1>2, <1>3, AlignedDispatch, AlignedTranslate, AlignedPass, AlignedStart DEF Next

-----------------------------------------------------------------------------
(* The theorems *)

\* A step that changes nothing keeps everything.
LEMMA StutterStep ==
  ASSUME Inv, UNCHANGED vars
  PROVE  StepSound
<1>n. Numbers
  BY NumbersTyped DEF Inv
<1>u. /\ UNCHANGED <<ord, exec, link, wire, task, answer, execq, row, leg, seen>>
      /\ UNCHANGED <<booked, lag, proc, pass, snap, todo, drops, crashes, replays>>
  BY DEF vars
<1>1. TypeOK'
  BY <1>u DEF Inv, TypeOK
<1>2. IInv'
  BY <1>u DEF Inv, IInv, ReportsSound, VenueSound, UnsentSound, CursorSound,
              WorklistSound, BookSound
<1>3. LedgerStep
  BY <1>u, LedgerStutter
<1>4. CursorStep
  BY <1>u, <1>n DEF CursorStep, Numbers
<1> QED BY <1>1, <1>2, <1>3, <1>4 DEF StepSound, Inv

\* Every step of the system, whichever process takes it.
LEMMA NextStep ==
  ASSUME Inv, [Next]_vars
  PROVE  StepSound
<1>1. ASSUME NEW o \in Orders, DispatchStep(o) PROVE StepSound
  BY <1>1, DispatchSent, DispatchResumes DEF DispatchStep
<1>2. CASE PassStep
  BY <1>2, PassOpens, PassCloses, PassRowStep, GraceStep DEF PassStep
<1>3. CASE StartStep
  BY <1>3, ConnectStep, AdoptStep, RecoverRowStep DEF StartStep
<1> QED
  BY <1>1, <1>2, <1>3, VenueStep, ReceiveStep, LinkStep, CrashStep, TranslateStep,
     StutterStep DEF Next

\* The invariant is inductive, so it holds of every reachable state.
THEOREM Invariance == Spec => []Inv
<1>1. Inv /\ [Next]_vars => Inv'
  BY NextStep DEF StepSound
<1> QED BY <1>1, InitInv, PTL DEF Spec

\* Every variable keeps its type: no queue, row, cursor or counter ever holds
\* a value the code does not provide for.
THEOREM TypeCorrect == Spec => []TypeOK
<1>1. Inv => TypeOK
  BY DEF Inv
<1> QED BY <1>1, Invariance, PTL

\* The parts of the inductive invariant hold of every reachable state.
THEOREM InvariantHolds == Spec => []IInv
<1>1. Inv => IInv
  BY DEF Inv
<1> QED BY <1>1, Invariance, PTL

\* The dedup contract of the four fill paths: the engine never holds more of
\* an order than the venue executed and an adoption left to be counted twice.
THEOREM NeverOverbookedHolds == Spec => []NeverOverbooked
<1>1. Inv => NeverOverbooked
  BY DEF Inv, IInv, BookSound, NeverOverbooked
<1> QED BY <1>1, Invariance, PTL

\* The durable cursor of a journal row never moves back, not even
\* across a crash, the recovery after it or an adoption.
THEOREM CursorOnlyGrowsHolds == Spec => CursorOnlyGrows
<1>1. Inv /\ [Next]_vars => [\A o \in Orders : row'[o].filled >= row[o].filled]_vars
  BY NextStep DEF StepSound, CursorStep
<1> QED BY <1>1, Invariance, PTL DEF Spec, CursorOnlyGrows

\* The four fill paths implement the ledger.
THEOREM LedgerImplemented == Spec => LedgerSpec
<1>1. Init => Ledger!Init
  BY DEF Init, Ledger!Init, Ledger!None
<1>2. Inv /\ [Next]_vars => [Ledger!Next]_(Ledger!ledger)
  BY NextStep DEF StepSound, LedgerStep
<1> QED BY <1>1, <1>2, Invariance, PTL DEF Spec, LedgerSpec, Ledger!Spec

\* The adoption leaves a row's cursor short of what it adopted only in the cases the
\* code sets apart: a leg of its own, an inconclusive or a partly terminal recovery.
THEOREM AdoptionAlignsCursorHolds == Spec => []AdoptionAlignsCursor
<1>1. Init => Aligned
  BY DEF Init, Aligned
<1>2. Inv /\ Aligned /\ [Next]_vars => Aligned'
  BY AlignedStep
<1>3. Aligned => AdoptionAlignsCursor
  BY DEF Aligned, AdoptionAlignsCursor
<1> QED BY <1>1, <1>2, <1>3, Invariance, PTL DEF Spec

-----------------------------------------------------------------------------
(* Why a row is retired *)

\* The venue has the order.
Sent(o) == ord[o] \notin {"none", "inflight"}

\* What is told of an order is told after the venue had it, and a cancel is final.
Traced(m) == Sent(m.ord) /\ (m.kind = "cancelled" => ord[m.ord] = "cancelled")

AllTraced(q) == \A i \in DOMAIN q : Traced(q[i])

\* A dispatch that has not ended.
Waits(o) == task[o] \in {"waiting", "answered", "lost"}

Stamped(o) == row[o].missing # "no"

\* What the venue's verdict says of the executions.
Whole(o) == /\ ord[o] = "rejected" => exec[o] = 0
            /\ ord[o] = "filled" => exec[o] = Qty

\* Only a row whose dispatch ended is stamped, and a stamped row that gets its position
\* counts a fill: the whole fill is seen and cleared by the next pass.  A closed row that
\* counts nothing is of an order the venue ended.
RowFate(o) ==
  /\ row[o].ref => Sent(o)
  /\ row[o].ref /\ (Waits(o) \/ Pending(o)) => row[o].pos
  /\ Stamped(o) => Sent(o) /\ Live(o) /\ ~Pending(o) /\ ~Waits(o)
  /\ Stamped(o) /\ row[o].pos =>
       /\ row[o].filled > 0
       /\ row[o].filled = Qty => /\ pass # "grace"
                                 /\ pass \in {"reading", "rows"} => snap[o].exec > 0
  /\ row[o].state = "closed" =>
       /\ task[o] \notin {"idle", "refused"} /\ ~row[o].ref
       /\ row[o].filled = 0 => ord[o] \in {"none", "cancelled", "rejected"}

OrderFate(o) ==
  /\ Whole(o) /\ RowFate(o)
  /\ task[o] = "answered" \/ snap[o].open => Sent(o)

StartFate ==
  /\ proc # "running" => \A o \in Orders : task[o] \in {"idle", "done"}
  /\ proc = "recovering" => \A o \in todo : Pending(o)

Fates ==
  /\ AllTraced(wire) /\ AllTraced(execq) /\ StartFate
  /\ \A o \in Orders : OrderFate(o)

\* The types a step needs.
LEMMA FateTypes ==
  ASSUME Inv
  PROVE  /\ wire \in Seq(Msg) /\ execq \in Seq(Msg) /\ row \in [Orders -> Row]
         /\ ord \in [Orders -> OrdStates] /\ task \in [Orders -> TaskStates]
         /\ exec \in [Orders -> Slices] /\ todo \in SUBSET Orders
         /\ snap \in [Orders -> [open : BOOLEAN, exec : Slices]]
         /\ \A m \in Msg : m.ord \in Orders /\ m.cum \in Slices
BY DEF Inv, TypeOK, OrdStates, TaskStates, Msg

\* A message more, and a message less.
LEMMA TracedAppend ==
  ASSUME NEW q \in Seq(Msg), NEW m \in Msg, AllTraced(q), Traced(m)
  PROVE  AllTraced(Append(q, m))
<1>1. ASSUME NEW i \in DOMAIN Append(q, m) PROVE Traced(Append(q, m)[i])
  <2>1. Append(q, m)[i] = m \/ (i \in DOMAIN q /\ Append(q, m)[i] = q[i])
    OBVIOUS
  <2> QED BY <2>1 DEF AllTraced
<1> QED BY <1>1 DEF AllTraced

\* The head told the truth, and so does the rest.
LEMMA TracedTail ==
  ASSUME NEW q \in Seq(Msg), q # <<>>, AllTraced(q)
  PROVE  Traced(Head(q)) /\ AllTraced(Tail(q)) /\ Head(q) \in Msg
<1>1. Head(q) = q[1] /\ 1 \in DOMAIN q /\ Head(q) \in Msg
  OBVIOUS
<1>2. ASSUME NEW i \in DOMAIN Tail(q) PROVE i + 1 \in DOMAIN q /\ Tail(q)[i] = q[i + 1]
  OBVIOUS
<1> QED BY <1>1, <1>2 DEF AllTraced

\* What was told stays true.
LEMMA TracedStays ==
  ASSUME NEW q \in Seq(Msg), AllTraced(q),
         \A o \in Orders : /\ Sent(o) => ord'[o] \notin {"none", "inflight"}
                           /\ ord[o] = "cancelled" => ord'[o] = "cancelled"
  PROVE  \A i \in DOMAIN q : /\ ord'[q[i].ord] \notin {"none", "inflight"}
                             /\ q[i].kind = "cancelled" => ord'[q[i].ord] = "cancelled"
<1>1. \A i \in DOMAIN q : q[i] \in Msg
  OBVIOUS
<1>2. \A m \in Msg : m.ord \in Orders
  BY DEF Msg
<1> QED BY <1>1, <1>2 DEF AllTraced, Traced

\* An order no step touches.
LEMMA FateKept ==
  ASSUME NEW o \in Orders, OrderFate(o), pass' = pass, snap' = snap, row'[o] = row[o],
         task'[o] = task[o], ord'[o] = ord[o], exec'[o] = exec[o]
  PROVE  OrderFate(o)'
BY DEF OrderFate, Whole, RowFate, Sent, Waits, Stamped, Live, Pending

\* Nothing was sent yet.
LEMMA FateInit == Init => Fates
<1> SUFFICES ASSUME Init PROVE Fates
  OBVIOUS
<1>1. AllTraced(wire) /\ AllTraced(execq) /\ StartFate
  BY DEF Init, AllTraced, StartFate
<1>2. ASSUME NEW o \in Orders PROVE OrderFate(o)
  BY DEF Init, OrderFate, Whole, RowFate, Sent, Waits, Stamped, Live, Pending, NoRow, Snapshot
<1> QED BY <1>1, <1>2 DEF Fates

\* The venue ends an order once, and only while no row of it is closed.
LEMMA FateVenue ==
  ASSUME Inv, Fates, NEW o \in Orders, Venue(o)
  PROVE  Fates'
<1>t. /\ wire \in Seq(Msg) /\ execq \in Seq(Msg) /\ row \in [Orders -> Row]
      /\ ord \in [Orders -> OrdStates] /\ exec \in [Orders -> Slices]
      /\ Inv'
  BY FateTypes, VenueStep DEF StepSound
<1>u. UNCHANGED <<task, execq, row, proc, pass, snap, todo>>
  BY DEF Venue, VenueAnswers, VenueFills, VenueCancels, VenueReplays
<1>v. /\ ord[o] = "inflight" => exec[o] = 0
      /\ exec[o] \in Nat /\ Qty \in Nat \ {0} /\ 1 \in Nat
  BY <1>t, NumbersTyped DEF Inv, IInv, VenueSound, Numbers
<1>1. /\ \/ ord[o] = "inflight" /\ ord'[o] = "rejected" /\ exec'[o] = 0
         \/ /\ ord[o] \in {"inflight", "working"} /\ ord'[o] \in {"working", "filled"}
            /\ ord'[o] = "filled" => exec'[o] = Qty
         \/ ord[o] = "working" /\ ord'[o] = "cancelled"
         \/ ord'[o] = ord[o] /\ exec'[o] = exec[o]
      /\ \A p \in Orders \ {o} : ord'[p] = ord[p] /\ exec'[p] = exec[p]
  <2>1. CASE VenueAnswers(o)
    BY <1>t, <1>v, <2>1 DEF VenueAnswers
  <2>2. CASE VenueFills(o)
    BY <1>t, <1>v, <2>2 DEF VenueFills
  <2>3. CASE VenueCancels(o)
    BY <1>t, <1>v, <2>3 DEF VenueCancels
  <2>4. CASE VenueReplays(o)
    BY <1>t, <2>4 DEF VenueReplays
  <2> QED BY <2>1, <2>2, <2>3, <2>4 DEF Venue
<1>2. \A p \in Orders : /\ Sent(p) => ord'[p] \notin {"none", "inflight"}
                        /\ ord[p] = "cancelled" => ord'[p] = "cancelled"
  BY <1>1 DEF Sent
<1>3. AllTraced(execq)'
  BY <1>t, <1>u, <1>2, TracedStays DEF Fates, AllTraced, Traced, Sent
<1>4. \/ wire' = wire
      \/ \E m : wire' = Append(wire, m) /\ m.ord = o /\ (m.kind = "cancelled" => ord'[o] = "cancelled")
                /\ Sent(o)'
  <2>1. CASE VenueAnswers(o)
    BY <1>t, <2>1 DEF VenueAnswers, Emit, Answer, Sent
  <2>2. CASE VenueFills(o)
    BY <1>t, <2>2 DEF VenueFills, Emit, Push, Sent
  <2>3. CASE VenueCancels(o)
    BY <1>t, <2>3 DEF VenueCancels, Emit, Push, Sent
  <2>4. CASE VenueReplays(o)
    <3>1. PICK k \in 1 .. exec[o] : Emit(Push("fill", o, k))
      BY <2>4 DEF VenueReplays
    <3>2. exec[o] # 0
      BY <1>t, <3>1 DEF Slices
    <3>3. Sent(o)'
      BY <1>t, <1>u, <2>4, <3>2 DEF VenueReplays, Sent, Inv, IInv, VenueSound
    <3> QED BY <3>1, <3>3 DEF Emit, Push
  <2> QED BY <2>1, <2>2, <2>3, <2>4 DEF Venue
<1>5. AllTraced(wire)'
  <2>1. CASE wire' = wire
    BY <1>t, <1>2, <2>1, TracedStays DEF Fates, AllTraced, Traced, Sent
  <2>2. ASSUME NEW m, wire' = Append(wire, m), m.ord = o, Sent(o)',
               m.kind = "cancelled" => ord'[o] = "cancelled"
        PROVE  AllTraced(wire)'
    <3>1. ASSUME NEW i \in DOMAIN wire'
          PROVE  wire'[i] = m \/ (i \in DOMAIN wire /\ wire'[i] = wire[i])
      BY <1>t, <2>2
    <3>2. \A i \in DOMAIN wire : /\ ord'[wire[i].ord] \notin {"none", "inflight"}
                                 /\ wire[i].kind = "cancelled" => ord'[wire[i].ord] = "cancelled"
      BY <1>t, <1>2, TracedStays DEF Fates
    <3>3. ord'[m.ord] \notin {"none", "inflight"} /\ (m.kind = "cancelled" => ord'[m.ord] = "cancelled")
      BY <2>2 DEF Sent
    <3> QED BY <3>1, <3>2, <3>3 DEF AllTraced, Traced, Sent
  <2> QED BY <1>4, <2>1, <2>2
<1>6. ASSUME NEW p \in Orders PROVE OrderFate(p)'
  <2>1. OrderFate(p) /\ (p # o => ord'[p] = ord[p] /\ exec'[p] = exec[p])
    BY <1>1 DEF Fates
  <2>2. CASE ord'[p] = ord[p] /\ exec'[p] = exec[p]
    BY <1>u, <2>1, <2>2, FateKept
  <2>3. CASE p = o /\ ~(ord'[o] = ord[o] /\ exec'[o] = exec[o])
    <3>1. Whole(o)'
      BY <1>1, <2>3 DEF Whole
    <3>2. RowFate(o)'
      BY <1>1, <1>u, <2>1, <2>3 DEF RowFate, OrderFate, Sent, Stamped, Live, Pending, Waits
    <3> QED BY <1>2, <1>u, <2>1, <2>3, <3>1, <3>2 DEF OrderFate, Sent
  <2> QED BY <2>1, <2>2, <2>3
<1>7. StartFate'
  BY <1>u DEF Fates, StartFate, Pending
<1> QED BY <1>3, <1>5, <1>6, <1>7 DEF Fates

\* The connection and the process: messages move on or go, and what waited is lost.
LEMMA FateChannel ==
  ASSUME Inv, Fates, Receive \/ LinkDrops \/ Reconnect \/ Crash
  PROVE  Fates'
<1>t. /\ wire \in Seq(Msg) /\ execq \in Seq(Msg) /\ task \in [Orders -> TaskStates]
      /\ \A m \in Msg : m.ord \in Orders
  BY FateTypes
<1>u. UNCHANGED <<ord, exec, row, snap>>
  BY DEF Receive, LinkDrops, Reconnect, Crash
<1>1. CASE Receive
  <2> DEFINE m == Head(wire)
  <2>1. /\ wire # <<>> /\ wire' = Tail(wire) /\ UNCHANGED <<proc, pass, todo>>
        /\ \/ execq' = execq /\ m.answer /\ task[m.ord] = "waiting"
              /\ task' = [task EXCEPT ![m.ord] = "answered"]
           \/ execq' = Append(execq, m) /\ task' = task
    BY <1>1 DEF Receive
  <2>2. Traced(m) /\ AllTraced(Tail(wire)) /\ m \in Msg
    BY <1>t, <2>1, TracedTail DEF Fates
  <2>3. AllTraced(execq')
    BY <1>t, <2>1, <2>2, TracedAppend DEF Fates
  <2>4. AllTraced(wire)' /\ AllTraced(execq)'
    BY <1>u, <2>1, <2>2, <2>3 DEF AllTraced, Traced, Sent
  <2>5. ASSUME NEW p \in Orders PROVE OrderFate(p)'
    <3>1. CASE task'[p] = task[p]
      BY <1>u, <2>1, <3>1, FateKept DEF Fates
    <3>2. CASE task'[p] # task[p]
      <4>1. p = m.ord /\ task[p] = "waiting" /\ task'[p] = "answered" /\ Sent(p)
        BY <1>t, <2>1, <2>2, <3>2 DEF Traced
      <4> HIDE DEF m
      <4> QED BY <1>u, <2>1, <4>1
             DEF Fates, OrderFate, Whole, RowFate, Sent, Waits, Stamped, Live, Pending
    <3> QED BY <3>1, <3>2
  <2>6. StartFate'
    <3>1. proc # "running" => task' = task
      <4>1. proc # "running" => \A o \in Orders : task[o] # "waiting"
        BY DEF Fates, StartFate
      <4> QED BY <1>t, <2>1, <2>2, <4>1
    <3> QED BY <1>u, <2>1, <3>1 DEF Fates, StartFate, Pending
  <2> QED BY <2>4, <2>5, <2>6 DEF Fates
<1>2. CASE LinkDrops
  <2>1. /\ wire' = <<>> /\ execq' = execq /\ todo' = todo
        /\ \A o \in Orders : task'[o] = IF task[o] = "waiting" THEN "lost" ELSE task[o]
        /\ pass' = IF pass = "reading" THEN "idle" ELSE pass
        /\ proc' = IF proc = "running" THEN proc ELSE "down"
    BY <1>2 DEF LinkDrops
  <2>2. AllTraced(wire)' /\ AllTraced(execq)'
    BY <1>u, <2>1 DEF Fates, AllTraced, Traced, Sent
  <2>3. ASSUME NEW p \in Orders PROVE OrderFate(p)'
    <3>1. OrderFate(p)
      BY DEF Fates
    <3>2. /\ Waits(p)' = Waits(p) /\ (task'[p] = "answered" => task[p] = "answered")
          /\ task'[p] \in {"idle", "refused"} => task[p] \in {"idle", "refused"}
      BY <2>1 DEF Waits
    <3> QED BY <1>u, <2>1, <3>1, <3>2
           DEF OrderFate, Whole, RowFate, Sent, Stamped, Live, Pending
  <2>4. StartFate'
    BY <1>u, <2>1 DEF Fates, StartFate, Pending
  <2> QED BY <2>2, <2>3, <2>4 DEF Fates
<1>3. CASE Reconnect
  <2>1. UNCHANGED <<wire, execq, todo, task, pass, proc>>
    BY <1>3 DEF Reconnect
  <2>2. \A p \in Orders : OrderFate(p)'
    BY <1>u, <2>1, FateKept DEF Fates
  <2> QED BY <1>u, <2>1, <2>2 DEF Fates, AllTraced, Traced, Sent, StartFate, Pending
<1>4. CASE Crash
  <2>1. /\ wire' = <<>> /\ execq' = <<>> /\ pass' = "idle" /\ proc' = "down"
        /\ \A o \in Orders : task'[o] = IF row[o].state = "none" THEN "idle" ELSE "done"
    BY <1>4 DEF Crash
  <2>2. AllTraced(wire)' /\ AllTraced(execq)' /\ StartFate'
    BY <2>1 DEF AllTraced, StartFate
  <2>3. ASSUME NEW p \in Orders PROVE OrderFate(p)'
    <3>1. OrderFate(p) /\ UnsentSound
      BY DEF Fates, Inv, IInv
    <3>2. ~Waits(p)' /\ task'[p] # "answered"
          /\ (task'[p] \in {"idle", "refused"} => row[p].state = "none")
      BY <2>1 DEF Waits
    <3>3. Pending(p) /\ row[p].ref => row[p].pos
      BY <3>1 DEF OrderFate, RowFate
    <3>4. RowFate(p)'
      BY <1>u, <2>1, <3>1, <3>2, <3>3 DEF OrderFate, RowFate, Sent, Stamped, Live, Pending
    <3> QED BY <1>u, <3>1, <3>2, <3>4 DEF OrderFate, Whole, Sent
  <2> QED BY <2>2, <2>3 DEF Fates
<1> QED BY <1>1, <1>2, <1>3, <1>4

\* One row moves, and its dispatch with it.
LEMMA FateOne ==
  ASSUME Fates, NEW o \in Orders, UNCHANGED <<ord, exec, pass, snap>>,
         \A p \in Orders \ {o} : row'[p] = row[p] /\ task'[p] = task[p],
         RowFate(o)', task'[o] = "answered" => task[o] = "answered",
         AllTraced(wire'), AllTraced(execq'), StartFate'
  PROVE  Fates'
<1>1. \A p \in Orders \ {o} : OrderFate(p)'
  BY FateKept DEF Fates
<1>2. OrderFate(o)'
  BY DEF Fates, OrderFate, Whole, Sent
<1>3. AllTraced(wire)' /\ AllTraced(execq)'
  BY DEF AllTraced, Traced, Sent
<1> QED BY <1>1, <1>2, <1>3 DEF Fates

\* The dispatch of an order: its row is written before the venue has it.
LEMMA FateDispatch ==
  ASSUME Inv, Fates, NEW o \in Orders, DispatchStep(o)
  PROVE  Fates'
<1>t. /\ wire \in Seq(Msg) /\ execq \in Seq(Msg) /\ row \in [Orders -> Row]
      /\ ord \in [Orders -> OrdStates] /\ task \in [Orders -> TaskStates] /\ row[o] \in Row
      /\ answer[o] \in Msg
  BY FateTypes DEF Inv, TypeOK
<1>u. /\ UNCHANGED <<exec, wire, proc, pass, snap, todo>>
      /\ AllTraced(wire) /\ AllTraced(execq) /\ OrderFate(o)
  BY DEF DispatchStep, Dispatch, DispatchTimesOut, DispatchAnswered, DispatchUnknown, Fates
<1>0. proc = "running"
  <2>1. task[o] \in {"waiting", "answered", "lost"} => proc = "running"
    BY DEF Fates, StartFate
  <2> QED BY <2>1
         DEF DispatchStep, Dispatch, DispatchTimesOut, DispatchAnswered, DispatchUnknown
<1>s. StartFate'
  BY <1>u, <1>0 DEF StartFate
<1>1. CASE Dispatch(o)
  <2>1. /\ row' = [row EXCEPT ![o] = [NoRow EXCEPT !.state = "submitted"]] /\ execq' = execq
        /\ \A p \in Orders \ {o} : ord'[p] = ord[p] /\ task'[p] = task[p]
        /\ ord'[o] \in {ord[o], "inflight"} /\ task'[o] \in {"waiting", "refused"}
    BY <1>1, <1>t DEF Dispatch
  <2>2. ord[o] = "none" /\ exec[o] = 0
    BY <1>1 DEF Dispatch, Inv, IInv, UnsentSound, VenueSound
  <2>3. \A p \in Orders : /\ Sent(p) => ord'[p] \notin {"none", "inflight"}
                          /\ ord[p] = "cancelled" => ord'[p] = "cancelled"
    BY <2>1, <2>2 DEF Sent
  <2>4. AllTraced(wire)' /\ AllTraced(execq)'
    <3>1. \A i \in DOMAIN wire : /\ ord'[wire[i].ord] \notin {"none", "inflight"}
                                 /\ wire[i].kind = "cancelled" => ord'[wire[i].ord] = "cancelled"
      BY <1>t, <1>u, <2>3, TracedStays
    <3>2. \A i \in DOMAIN execq : /\ ord'[execq[i].ord] \notin {"none", "inflight"}
                                  /\ execq[i].kind = "cancelled" => ord'[execq[i].ord] = "cancelled"
      BY <1>t, <1>u, <2>3, TracedStays
    <3> QED BY <1>u, <2>1, <3>1, <3>2 DEF AllTraced, Traced, Sent
  <2>5. \A p \in Orders \ {o} : OrderFate(p)'
    BY <1>t, <1>u, <2>1, FateKept DEF Fates
  <2>6. OrderFate(o)'
    <3>1. ~snap[o].open
      BY <1>u, <2>2 DEF OrderFate, Sent
    <3>2. /\ ~row'[o].ref /\ row'[o].missing = "no" /\ row'[o].state = "submitted"
      BY <1>t, <2>1 DEF NoRow
    <3>3. RowFate(o)'
      BY <3>2 DEF RowFate, Stamped
    <3> QED BY <1>u, <2>1, <2>2, <3>1, <3>3 DEF OrderFate, Whole
  <2> QED BY <1>s, <2>4, <2>5, <2>6 DEF Fates
<1>2. CASE DispatchTimesOut(o)
  <2>1. /\ UNCHANGED <<ord, row, execq>> /\ task[o] = "waiting"
        /\ task' = [task EXCEPT ![o] = "lost"]
    BY <1>2 DEF DispatchTimesOut
  <2>2. RowFate(o)'
    BY <1>t, <1>u, <2>1 DEF OrderFate, RowFate, Sent, Waits, Stamped, Live, Pending
  <2> QED BY <1>t, <1>u, <1>s, <2>1, <2>2, FateOne
<1>3. CASE DispatchAnswered(o)
  <2> DEFINE m == answer[o]
  <2>r. \/ row' = [row EXCEPT ![o].state = IF Live(o) THEN "rejected" ELSE @]
        \/ row' = [row EXCEPT ![o] = PersistEntry(row[o], m)]
    BY <1>3, <1>t DEF DispatchAnswered
  <2>1. /\ ord' = ord /\ task[o] = "answered" /\ task' = [task EXCEPT ![o] = "done"]
        /\ execq' = execq \/ (m.kind = "fill" /\ execq' = Append(execq, m))
    BY <1>3 DEF DispatchAnswered
  <2>2. Sent(o) /\ m.ord = o /\ Waits(o) /\ ~Stamped(o)
    BY <1>u, <2>1 DEF OrderFate, RowFate, Waits, Inv, IInv, ReportsSound
  <2>3. AllTraced(execq')
    <3>1. m.kind = "fill" => Traced(m)
      BY <2>2 DEF Traced
    <3> HIDE DEF m
    <3>2. m \in Msg
      BY <1>t DEF m
    <3> QED BY <1>t, <1>u, <2>1, <3>1, <3>2, TracedAppend
  <2>4. \/ /\ row'[o].state = (IF Live(o) THEN "rejected" ELSE row[o].state)
           /\ row'[o].ref = row[o].ref /\ row'[o].missing = row[o].missing
           /\ row'[o].pos = row[o].pos /\ row'[o].filled = row[o].filled
        \/ row'[o].state = "confirmed" /\ row'[o].missing = row[o].missing
    <3> DEFINE r == PersistEntry(row[o], m)
    <3>1. CASE row' = [row EXCEPT ![o].state = IF Live(o) THEN "rejected" ELSE @]
      BY <1>t, <3>1 DEF Row
    <3>2. CASE row' = [row EXCEPT ![o] = r]
      <4>1. r.state = "confirmed" /\ r.missing = row[o].missing
        BY <1>t DEF PersistEntry, Row
      <4> HIDE DEF r
      <4> QED BY <1>t, <3>2, <4>1
    <3> QED BY <2>r, <3>1, <3>2
  <2>5. task'[o] = "done"
    BY <1>t, <2>1
  <2>6. RowFate(o)'
    BY <1>u, <2>1, <2>2, <2>4, <2>5 DEF OrderFate, RowFate, Sent, Waits, Stamped, Live, Pending
  <2>7. \A p \in Orders \ {o} : row'[p] = row[p] /\ task'[p] = task[p]
    <3> DEFINE r == PersistEntry(row[o], m)
    <3> HIDE DEF r
    <3>1. \/ row' = [row EXCEPT ![o].state = IF Live(o) THEN "rejected" ELSE @]
          \/ row' = [row EXCEPT ![o] = r]
      BY <2>r DEF r
    <3> QED BY <1>t, <2>1, <3>1
  <2> QED BY <1>u, <1>s, <2>1, <2>3, <2>5, <2>6, <2>7, FateOne
<1>4. CASE DispatchUnknown(o)
  <2>1. /\ UNCHANGED <<ord, execq>> /\ task[o] = "lost" /\ task' = [task EXCEPT ![o] = "done"]
        /\ row' = [row EXCEPT ![o].state = IF Live(o) THEN "unknown" ELSE @]
    BY <1>4 DEF DispatchUnknown
  <2>2. /\ row'[o].state = (IF Live(o) THEN "unknown" ELSE row[o].state) /\ task'[o] = "done"
        /\ row'[o].ref = row[o].ref /\ row'[o].missing = row[o].missing
        /\ row'[o].pos = row[o].pos /\ row'[o].filled = row[o].filled
        /\ \A p \in Orders \ {o} : row'[p] = row[p] /\ task'[p] = task[p]
    BY <1>t, <2>1 DEF Row
  <2>3. RowFate(o)'
    BY <1>u, <2>1, <2>2 DEF OrderFate, RowFate, Sent, Waits, Stamped, Live, Pending
  <2> QED BY <1>u, <1>s, <2>1, <2>2, <2>3, FateOne
<1> QED BY <1>1, <1>2, <1>3, <1>4 DEF DispatchStep

\* A message of the queue: a fill is counted, and a cancel retires what the venue ended.
LEMMA FateTranslate ==
  ASSUME Inv, Fates, Translate
  PROVE  Fates'
<1>t. execq \in Seq(Msg) /\ execq # <<>> /\ row \in [Orders -> Row]
  BY FateTypes DEF Translate
<1>0. PICK m \in Msg : m = Head(execq)
  BY <1>t
<1>o. PICK o \in Orders : o = m.ord
  BY FateTypes
<1>u. /\ UNCHANGED <<ord, exec, wire, task, proc, pass, snap, todo>> /\ execq' = Tail(execq)
      /\ proc = "running" /\ pass = "idle"
  BY DEF Translate
<1>1. Traced(m) /\ AllTraced(execq') /\ AllTraced(wire')
  BY <1>t, <1>u, <1>0, TracedTail DEF Fates
<1>2. m.kind = "fill" => m.cum > 0
  <2>1. m.cum \in Slices
    BY FateTypes
  <2>2. SoundMsg(m, exec)
    BY <1>t, <1>0 DEF Inv, IInv, ReportsSound, SoundQueue
  <2> QED BY <2>1, <2>2 DEF SoundMsg, Slices
<1>3. OrderFate(o) /\ Sent(o) /\ row[o] \in Row
  BY <1>t, <1>1, <1>o DEF Fates, Traced
<1>4. StartFate'
  BY <1>u DEF StartFate
<1>5. \/ row' = row
      \/ m.kind = "cancelled" /\ TranslateCancel(m)
      \/ m.kind = "fill" /\ row[o].ref /\ TranslateKnownFill(m)
      \/ m.kind = "fill" /\ Live(o) /\ TranslateParkedFill(m)
  BY <1>0, <1>o DEF Translate, TranslateExternalFill
<1>6. RowFate(o)' /\ \A p \in Orders \ {o} : row'[p] = row[p]
  <2>1. CASE row' = row
    BY <1>u, <1>3, <2>1 DEF OrderFate, RowFate, Sent, Waits, Stamped, Live, Pending
  <2>2. CASE m.kind = "cancelled" /\ TranslateCancel(m)
    <3>1. ord[o] = "cancelled" /\ task[o] \notin {"idle", "refused"}
      BY <1>1, <1>o, <1>3, <2>2 DEF Traced, OrderFate, Inv, IInv, UnsentSound
    <3>2. row'[o] = row[o] \/ row'[o] = Closed(row[o])
      BY <1>t, <1>o, <2>2 DEF TranslateCancel
    <3>3. /\ Closed(row[o]).state = "closed" /\ ~Closed(row[o]).ref
          /\ Closed(row[o]).missing = "no"
      BY <1>3 DEF Closed, Row
    <3>4. \A p \in Orders \ {o} : row'[p] = row[p]
      BY <1>t, <1>o, <2>2 DEF TranslateCancel
    <3> QED BY <1>u, <1>3, <3>1, <3>2, <3>3, <3>4
           DEF OrderFate, RowFate, Sent, Waits, Stamped, Live, Pending
  <2>3. CASE m.kind = "fill" /\ row[o].ref /\ TranslateKnownFill(m)
    <3> DEFINE r == [row[o] EXCEPT !.filled = m.cum, !.pos = TRUE]
    <3>1. row' = row \/ row' = [row EXCEPT ![o] = r]
      BY <1>o, <2>3 DEF TranslateKnownFill
    <3>2. /\ r.filled > 0 /\ r.pos /\ r.ref = row[o].ref /\ r.missing = row[o].missing
          /\ r.state = row[o].state
      BY <1>2, <1>3, <2>3 DEF Row
    <3> HIDE DEF r
    <3>3. /\ row'[o] \in {row[o], r} /\ \A p \in Orders \ {o} : row'[p] = row[p]
      BY <1>t, <3>1
    <3> QED BY <1>u, <1>3, <2>3, <3>2, <3>3
           DEF OrderFate, RowFate, Sent, Waits, Stamped, Live, Pending
  <2>4. CASE m.kind = "fill" /\ Live(o) /\ TranslateParkedFill(m)
    <3> DEFINE r == [row[o] EXCEPT !.state = "confirmed", !.filled = m.cum,
                                   !.ref = TRUE, !.pos = TRUE]
    <3>1. row' = [row EXCEPT ![o] = r]
      BY <1>o, <2>4 DEF TranslateParkedFill
    <3>2. /\ r.filled > 0 /\ r.pos /\ r.ref /\ r.missing = row[o].missing
          /\ r.state = "confirmed"
      BY <1>2, <1>3, <2>4 DEF Row
    <3> HIDE DEF r
    <3>3. /\ row'[o] = r /\ \A p \in Orders \ {o} : row'[p] = row[p]
      BY <1>t, <3>1
    <3> QED BY <1>u, <1>3, <3>2, <3>3
           DEF OrderFate, RowFate, Sent, Waits, Stamped, Live, Pending
  <2> QED BY <1>5, <2>1, <2>2, <2>3, <2>4
<1> QED BY <1>1, <1>2, <1>4, <1>6, <1>u, FateOne

\* A pass stamps only a row without its position, and clears or retires what it stamped.
LEMMA FatePassRow ==
  ASSUME Inv, Fates, NEW o \in Orders, PassRow(o)
  PROVE  Fates'
<1>r. row \in [Orders -> Row] /\ row[o] \in Row
  BY FateTypes
<1>u. /\ UNCHANGED <<ord, exec, wire, execq, task, proc, pass, snap>>
      /\ pass = "rows" /\ o \in todo
  BY DEF PassRow
<1>0. /\ row[o].ref /\ proc = "running" /\ row[o].state # "none" /\ OrderFate(o)
      /\ AllTraced(wire) /\ AllTraced(execq)
  BY <1>u DEF Inv, IInv, WorklistSound, UnsentSound, Fates
<1>s. StartFate'
  BY <1>u, <1>0 DEF StartFate
<1>1. PICK listed \in HistoryReads(o) :
        row' = row \/ ReconcileWorking(o, listed) \/ ReconcileVanished(o, listed)
  BY DEF PassRow
<1>f. ASSUME NEW r, row' = [row EXCEPT ![o] = r], r.ref, r.state # "closed",
             r.missing # "no" => ~r.pos /\ r.state = row[o].state,
             row[o].pos => r.pos, r.state \in {row[o].state, "confirmed"}
      PROVE  Fates'
  <2>1. row'[o] = r /\ \A p \in Orders \ {o} : row'[p] = row[p]
    BY <1>r, <1>f
  <2>2. RowFate(o)'
    BY <1>u, <1>0, <1>f, <2>1 DEF OrderFate, RowFate, Sent, Waits, Stamped, Live, Pending
  <2> QED BY <1>u, <1>s, <1>0, <2>1, <2>2, FateOne
<1>2. CASE row' = row
  <2>1. RowFate(o)'
    BY <1>u, <1>0, <1>2 DEF OrderFate, RowFate, Sent, Waits, Stamped, Live, Pending
  <2> QED BY <1>u, <1>s, <1>0, <1>2, <2>1, FateOne
<1>3. CASE ReconcileWorking(o, listed)
  <2> DEFINE cleared == [row[o] EXCEPT !.missing = "no"]
             moved == [cleared EXCEPT !.state = "confirmed", !.pos = TRUE,
                                      !.filled = snap[o].exec]
  <2>1. row' = [row EXCEPT ![o] = cleared] \/ row' = [row EXCEPT ![o] = moved]
    BY <1>3 DEF ReconcileWorking
  <2>2. /\ cleared.ref /\ cleared.missing = "no" /\ cleared.pos = row[o].pos
        /\ cleared.state = row[o].state
        /\ moved.ref /\ moved.missing = "no" /\ moved.pos /\ moved.state = "confirmed"
    BY <1>r, <1>0 DEF Row
  <2>3. row[o].state # "closed"
    BY <1>0 DEF OrderFate, RowFate
  <2> HIDE DEF cleared, moved
  <2> QED BY <1>f, <2>1, <2>2, <2>3
<1>4. CASE ReconcileVanished(o, listed)
  <2> DEFINE cum == Larger(row[o].filled, listed)
             fresh == [row[o] EXCEPT !.missing =
                         IF ~row[o].pos /\ row[o].filled = 0 /\ @ = "no" THEN "fresh" ELSE @]
             promoted == [row[o] EXCEPT
                            !.missing = "no", !.pos = TRUE, !.filled = cum,
                            !.state = IF cum > row[o].filled \/ ~row[o].pos
                                      THEN "confirmed" ELSE @]
  <2>1. \/ row' = row
        \/ row' = [row EXCEPT ![o] = promoted]
        \/ row' = [row EXCEPT ![o] = fresh] /\ row[o].pos = FALSE
        \/ row' = [row EXCEPT ![o] = row[o]]
    <3>1. CASE listed = 0
      <4>1. row' = [row EXCEPT ![o].missing =
                      IF ~row[o].pos /\ row[o].filled = 0 /\ @ = "no"
                      THEN "fresh" ELSE @]
        BY <1>4, <3>1 DEF ReconcileVanished, Unread
      <4>2. row' = [row EXCEPT ![o] = fresh]
        BY <1>r, <4>1
      <4>3. CASE row[o].pos
        <5>1. fresh = row[o]
          BY <1>r, <4>3 DEF Row
        <5> QED BY <4>2, <5>1
      <4> QED BY <1>r, <4>2, <4>3 DEF Row
    <3>2. CASE listed # 0
      BY <1>4, <3>2 DEF ReconcileVanished, PromoteFromDeal
    <3> QED BY <3>1, <3>2
  <2>2. /\ fresh.ref /\ fresh.pos = row[o].pos /\ fresh.state = row[o].state
        /\ promoted.ref /\ promoted.missing = "no" /\ promoted.pos
        /\ promoted.state \in {row[o].state, "confirmed"}
    BY <1>r, <1>0 DEF Row
  <2>3. row[o].state # "closed"
    BY <1>0 DEF OrderFate, RowFate
  <2>4. CASE row' = [row EXCEPT ![o] = row[o]]
    <3>1. row' = row
      BY <1>r, <2>4
    <3> QED BY <1>2, <3>1
  <2> HIDE DEF cum, fresh, promoted
  <2> QED BY <1>2, <1>f, <2>1, <2>2, <2>3, <2>4
<1> QED BY <1>1, <1>2, <1>3, <1>4

\* A snapshot is of orders the venue has, and shows the position of a filled order.
LEMMA FateSnapshot ==
  ASSUME Inv, Fates, UNCHANGED <<ord, exec, row, task>>, snap' = Snapshot,
         pass' \in {pass, "reading"}, NEW o \in Orders
  PROVE  OrderFate(o)'
<1>1. OrderFate(o) /\ (row[o].filled = Qty => exec[o] > 0)
  BY NumbersTyped DEF Fates, Inv, IInv, CursorSound, Numbers
<1>2. snap'[o].open = (ord[o] = "working") /\ snap'[o].exec = exec[o]
  BY DEF Snapshot
<1> QED BY <1>1, <1>2 DEF OrderFate, Whole, RowFate, Sent, Waits, Stamped, Live, Pending

\* A stamp expires on a row that counts a part of its order, or on an order the venue ended
\* without a fill.
LEMMA FatePass ==
  ASSUME Inv, Fates, PassStep
  PROVE  Fates'
<1>r. row \in [Orders -> Row]
  BY FateTypes
<1>k. ASSUME UNCHANGED <<ord, exec, wire, execq, task, proc>>, proc = "running",
             \A o \in Orders : OrderFate(o)'
      PROVE  Fates'
  BY <1>k DEF Fates, AllTraced, Traced, Sent, StartFate
<1>p. pass # "idle" => proc = "running"
  BY DEF Inv, IInv, WorklistSound
<1>1. CASE PassBegins
  <2>1. \A o \in Orders : OrderFate(o)'
    BY <1>1, FateSnapshot DEF PassBegins
  <2> QED BY <1>1, <1>k, <2>1 DEF PassBegins
<1>2. CASE PassCollects
  <2>1. /\ pass = "reading" /\ pass' = "rows"
        /\ UNCHANGED <<ord, exec, wire, execq, task, proc, row, snap>>
    BY <1>2 DEF PassCollects
  <2>2. ASSUME NEW o \in Orders PROVE OrderFate(o)'
    <3>1. OrderFate(o)
      BY DEF Fates
    <3> QED BY <2>1, <3>1 DEF OrderFate, Whole, RowFate, Sent, Waits, Stamped, Live, Pending
  <2> QED BY <1>k, <1>p, <2>1, <2>2
<1>3. CASE PassPresence
  <2>1. /\ pass = "rows" /\ pass' = "grace"
        /\ UNCHANGED <<ord, exec, wire, execq, task, proc, snap>>
    BY <1>3 DEF PassPresence
  <2>2. ASSUME NEW o \in Orders PROVE OrderFate(o)'
    <3>1. OrderFate(o)
      BY DEF Fates
    <3>2. \/ row'[o] = [row[o] EXCEPT !.missing = "no"]
          \/ /\ row'[o] = row[o]
             /\ ~(Live(o) /\ row[o].pos /\ row[o].filled = Qty /\ snap[o].exec > 0)
      BY <1>3 DEF PassPresence
    <3>3. CASE row'[o] = [row[o] EXCEPT !.missing = "no"]
      <4>1. /\ row'[o].missing = "no" /\ row'[o].ref = row[o].ref
            /\ row'[o].state = row[o].state /\ row'[o].pos = row[o].pos
            /\ row'[o].filled = row[o].filled
        BY <1>r, <3>3 DEF Row
      <4> QED BY <2>1, <3>1, <4>1
             DEF OrderFate, Whole, RowFate, Sent, Waits, Stamped, Live, Pending
    <3>4. CASE /\ row'[o] = row[o]
               /\ ~(Live(o) /\ row[o].pos /\ row[o].filled = Qty /\ snap[o].exec > 0)
      <4>1. ~(Stamped(o) /\ row[o].pos /\ row[o].filled = Qty)
        <5>1. ASSUME Stamped(o), row[o].pos, row[o].filled = Qty PROVE FALSE
          <6>1. Live(o) /\ snap[o].exec > 0
            BY <2>1, <3>1, <5>1 DEF OrderFate, RowFate
          <6> QED BY <3>4, <5>1, <6>1
        <5> QED BY <5>1
      <4> QED BY <2>1, <3>1, <3>4, <4>1
             DEF OrderFate, Whole, RowFate, Sent, Waits, Stamped, Live, Pending
    <3> QED BY <3>2, <3>3, <3>4
  <2> QED BY <1>k, <1>p, <2>1, <2>2
<1>4. CASE PassEnds
  <2>1. /\ pass = "grace" /\ pass' = "idle"
        /\ UNCHANGED <<ord, exec, wire, execq, task, proc, snap>>
    BY <1>4 DEF PassEnds
  <2>2. ASSUME NEW o \in Orders PROVE OrderFate(o)'
    <3>1. OrderFate(o)
      BY DEF Fates
    <3>2. /\ row'[o].ref = row[o].ref /\ row'[o].state = row[o].state
          /\ row'[o].pos = row[o].pos /\ row'[o].filled = row[o].filled
          /\ row'[o].missing # "no" => row[o].missing # "no"
      BY <1>r, <1>4 DEF PassEnds, Row
    <3> QED BY <2>1, <3>1, <3>2
           DEF OrderFate, Whole, RowFate, Sent, Waits, Stamped, Live, Pending
  <2> QED BY <1>k, <1>p, <2>1, <2>2
<1>5. ASSUME NEW o \in Orders, GraceExpires(o) PROVE Fates'
  <2>1. /\ pass = "grace" /\ Stamped(o) /\ Live(o)
        /\ UNCHANGED <<ord, exec, wire, execq, task, proc, pass, snap>>
        /\ row' = [row EXCEPT ![o] =
               IF row[o].pos \/ (exec[o] = 0 /\ ord[o] \notin {"inflight", "working"})
               THEN Closed(row[o]) ELSE [row[o] EXCEPT !.missing = "no"]]
    BY <1>5 DEF GraceExpires, Stamped
  <2>2. /\ Sent(o) /\ OrderFate(o) /\ UnsentSound /\ ord[o] \in OrdStates
        /\ exec[o] \in Nat /\ Qty \in Nat \ {0} /\ row[o].filled \in Nat
    BY <2>1, FateTypes, NumbersTyped DEF Fates, OrderFate, RowFate, Inv, IInv, Numbers
  <2>3. \A p \in Orders \ {o} : row'[p] = row[p]
    BY <1>r, <2>1
  <2>4. RowFate(o)'
    <3>1. CASE row[o].pos \/ (exec[o] = 0 /\ ord[o] \notin {"inflight", "working"})
      <4>1. row'[o] = Closed(row[o])
        BY <1>r, <2>1, <3>1
      <4>2. /\ row'[o].state = "closed" /\ ~row'[o].ref /\ row'[o].missing = "no"
            /\ row'[o].filled = row[o].filled
        BY <1>r, <4>1 DEF Closed, Row
      <4>3. row[o].filled = 0 => ord[o] \in {"none", "cancelled", "rejected"}
        <5>1. row[o].pos => row[o].filled > 0
          BY <2>1, <2>2 DEF OrderFate, RowFate
        <5>2. ~row[o].pos => ord[o] \in {"cancelled", "rejected"}
          BY <2>2, <3>1 DEF Sent, OrderFate, Whole, OrdStates
        <5> QED BY <2>2, <5>1, <5>2
      <4>4. task[o] \notin {"idle", "refused"}
        BY <2>2 DEF UnsentSound, Sent
      <4> QED BY <2>1, <4>2, <4>3, <4>4
             DEF RowFate, Sent, Waits, Stamped, Live, Pending
    <3>2. CASE ~(row[o].pos \/ (exec[o] = 0 /\ ord[o] \notin {"inflight", "working"}))
      <4>1. row'[o] = [row[o] EXCEPT !.missing = "no"]
        BY <1>r, <2>1, <2>2, <3>2
      <4>2. /\ row'[o].state = row[o].state /\ row'[o].ref = row[o].ref
            /\ row'[o].missing = "no" /\ row'[o].pos = row[o].pos
            /\ row'[o].filled = row[o].filled
        BY <1>r, <4>1 DEF Row
      <4> QED BY <2>1, <2>2, <4>2 DEF OrderFate, RowFate, Sent, Waits, Stamped, Live, Pending
    <3> QED BY <3>1, <3>2
  <2>5. StartFate'
    BY <1>p, <2>1 DEF StartFate
  <2> QED BY <2>1, <2>3, <2>4, <2>5, FateOne DEF Fates
<1>6. ASSUME NEW o \in Orders, PassRow(o) PROVE Fates'
  BY <1>6, FatePassRow
<1> QED BY <1>1, <1>2, <1>3, <1>4, <1>5, <1>6 DEF PassStep

\* A recovery takes up pending rows only, closes an order that executed nothing, and an
\* adoption moves cursors alone.
LEMMA FateStart ==
  ASSUME Inv, Fates, StartStep
  PROVE  Fates'
<1>r. row \in [Orders -> Row]
  BY FateTypes
<1>q. AllTraced(wire) /\ AllTraced(execq) /\ \A o \in Orders : OrderFate(o)
  BY DEF Fates
<1>i. proc # "running" => pass = "idle"
  BY DEF Inv, IInv, WorklistSound
<1>1. CASE Connect
  <2>1. /\ UNCHANGED <<ord, exec, wire, execq, task, row, pass>> /\ proc = "down"
        /\ proc' = "recovering" /\ snap' = Snapshot /\ todo' = {o \in Orders : Pending(o)}
    BY <1>1 DEF Connect
  <2>2. \A o \in Orders : OrderFate(o)'
    BY <2>1, FateSnapshot
  <2>3. StartFate'
    BY <2>1 DEF Fates, StartFate, Pending
  <2> QED BY <1>q, <2>1, <2>2, <2>3 DEF Fates, AllTraced, Traced, Sent
<1>2. CASE RecoveryEnds
  <2>1. /\ UNCHANGED <<ord, exec, wire, execq, task, row, pass, snap>>
        /\ proc = "recovering" /\ proc' = "recovered"
    BY <1>2 DEF RecoveryEnds
  <2>2. \A o \in Orders : OrderFate(o)'
    BY <1>q, <2>1, FateKept
  <2>3. StartFate'
    BY <2>1 DEF Fates, StartFate
  <2> QED BY <1>q, <2>1, <2>2, <2>3 DEF Fates, AllTraced, Traced, Sent
<1>3. ASSUME NEW o \in Orders, RecoverRow(o) PROVE Fates'
  <2>u. /\ UNCHANGED <<ord, exec, wire, execq, task, proc, pass, snap>>
        /\ proc = "recovering" /\ o \in todo /\ todo' = todo \ {o}
    BY <1>3 DEF RecoverRow
  <2>0. /\ OrderFate(o) /\ Pending(o) /\ task[o] = "done" /\ ~Stamped(o) /\ row[o] \in Row
        /\ VenueSound /\ exec[o] \in Nat /\ snap[o].exec \in Nat /\ snap[o].exec <= exec[o]
    <3>1. Pending(o) /\ task[o] \in {"idle", "done"}
      BY <2>u DEF Fates, StartFate
    <3>2. task[o] # "idle"
      BY <2>u, <3>1 DEF Inv, IInv, UnsentSound, Pending
    <3>3. OrderFate(o) /\ ~Stamped(o)
      BY <1>q, <3>1 DEF OrderFate, RowFate
    <3> QED BY <1>r, <3>1, <3>2, <3>3, NumbersTyped DEF Inv, IInv, Numbers, ReportsSound
  <2>v. exec[o] > 0 => Sent(o)
    BY <2>0 DEF VenueSound, Sent
  <2>s. ASSUME NEW r, row' = [row EXCEPT ![o] = r] PROVE StartFate'
    <3>1. \A p \in Orders \ {o} : row'[p] = row[p]
      BY <1>r, <2>s
    <3>2. \A p \in todo' : p \in Orders \ {o} /\ Pending(p)
      BY <2>u, FateTypes DEF Fates, StartFate
    <3>3. \A p \in todo' : Pending(p)'
      BY <3>1, <3>2 DEF Pending
    <3> QED BY <2>u, <3>3 DEF Fates, StartFate
  <2>f. ASSUME NEW r, row' = [row EXCEPT ![o] = r], r.ref, Sent(o), r.missing = "no",
               \/ r.state = "confirmed"
               \/ r.state = row[o].state /\ r.pos
        PROVE  Fates'
    <3>1. row'[o] = r /\ \A p \in Orders \ {o} : row'[p] = row[p]
      BY <1>r, <2>f
    <3>2. RowFate(o)'
      BY <2>u, <2>0, <2>f, <3>1 DEF RowFate, Sent, Waits, Stamped, Live, Pending
    <3> QED BY <1>q, <2>u, <2>f, <2>s, <3>1, <3>2, FateOne
  <2>c. ASSUME row' = [row EXCEPT ![o] = Closed(row[o])], exec[o] = 0,
               ord[o] \in {"none", "cancelled", "rejected"}
        PROVE  Fates'
    <3>1. row'[o] = Closed(row[o]) /\ \A p \in Orders \ {o} : row'[p] = row[p]
      BY <1>r, <2>c
    <3>2. row'[o].state = "closed" /\ ~row'[o].ref /\ row'[o].missing = "no"
      BY <2>0, <3>1 DEF Closed, Row
    <3>3. RowFate(o)'
      BY <2>u, <2>0, <2>c, <3>2 DEF RowFate, Sent, Waits, Stamped, Live, Pending
    <3>4. StartFate'
      BY <2>c, <2>s
    <3> QED BY <1>q, <2>u, <3>1, <3>3, <3>4, FateOne
  <2>1. ASSUME RecordRefs(o), exec[o] > 0 PROVE Fates'
    <3> DEFINE r == [row[o] EXCEPT !.ref = TRUE, !.pos = TRUE, !.unsure = TRUE]
    <3>1. row' = [row EXCEPT ![o] = r]
      BY <2>1 DEF RecordRefs
    <3>2. r.ref /\ r.missing = "no" /\ r.state = row[o].state /\ r.pos
      BY <2>0 DEF Row, Stamped
    <3> HIDE DEF r
    <3> QED BY <2>v, <2>f, <2>1, <3>1, <3>2
  <2>2. ASSUME NEW k, NEW pos, NEW part, ConfirmRecovered(o, k, pos, part), Sent(o)
        PROVE  Fates'
    <3> DEFINE r == [row[o] EXCEPT !.state = "confirmed", !.ref = TRUE, !.pos = pos,
                        !.filled = Larger(@, k), !.partial = @ \/ part]
    <3>1. row' = [row EXCEPT ![o] = r]
      BY <2>2 DEF ConfirmRecovered
    <3>2. r.ref /\ r.missing = "no" /\ r.state = "confirmed"
      BY <2>0 DEF Row, Stamped
    <3> HIDE DEF r
    <3> QED BY <2>f, <2>2, <3>1, <3>2
  <2>3. CASE row' = row
    <3>1. row' = [row EXCEPT ![o] = row[o]]
      BY <1>r, <2>3
    <3>2. RowFate(o)'
      BY <2>u, <2>0, <2>3 DEF OrderFate, RowFate, Sent, Waits, Stamped, Live, Pending
    <3> QED BY <1>q, <2>u, <2>s, <2>3, <3>1, <3>2, FateOne
  <2>h. PICK listed \in HistoryReads(o) :
          \/ snap[o].open /\ RecoverLive(o, listed)
          \/ RecoverByCoid(o, listed)
    BY <1>3 DEF RecoverRow
  <2>4. CASE snap[o].open /\ RecoverLive(o, listed)
    <3>1. Sent(o)
      BY <2>0, <2>4 DEF OrderFate
    <3>2. snap[o].exec > 0 => exec[o] > 0
      BY <2>0
    <3> QED BY <2>1, <2>2, <2>4, <3>1, <3>2 DEF RecoverLive
  <2>5. CASE RecoverByCoid(o, listed)
    <3>1. CASE ord[o] \notin {"none", "inflight"} /\ RecoverFromHistory(o, listed)
      <4>1. Sent(o)
        BY <3>1 DEF Sent
      <4>2. \/ row' = [row EXCEPT ![o] = Closed(row[o])] /\ exec[o] = 0
               /\ ord[o] \in {"cancelled", "rejected"}
            \/ RecordRefs(o) /\ exec[o] > 0
            \/ \E k, pos, part : ConfirmRecovered(o, k, pos, part)
        BY <3>1 DEF RecoverFromHistory
      <4> QED BY <2>c, <2>1, <2>2, <4>1, <4>2
    <3>2. CASE ord[o] = "none" /\ row' = [row EXCEPT ![o] = Closed(row[o])]
      BY <2>c, <2>0, <3>2 DEF VenueSound
    <3> QED BY <2>3, <2>5, <3>1, <3>2 DEF RecoverByCoid
  <2> QED BY <2>h, <2>4, <2>5
<1>4. CASE Adopt
  <2>1. /\ UNCHANGED <<ord, exec, wire, execq, task, pass, snap>>
        /\ proc = "recovered" /\ proc' = "running"
        /\ row' = [o \in Orders |-> Baselined(o)]
    BY <1>4 DEF Adopt
  <2>2. ASSUME NEW o \in Orders PROVE OrderFate(o)'
    <3>1. /\ OrderFate(o) /\ row[o] \in Row /\ row'[o] = Baselined(o)
          /\ exec[o] \in Nat /\ row[o].filled \in Nat /\ Qty \in Nat \ {0}
      BY <1>q, <1>r, <2>1, NumbersTyped DEF Inv, Numbers
    <3>3. \/ row'[o] = row[o]
          \/ /\ Live(o) /\ exec[o] >= 0
             /\ \/ row'[o] = [row[o] EXCEPT !.filled = Larger(row[o].filled, exec[o])]
                \/ row'[o] = [row[o] EXCEPT !.filled = Qty]
      BY <3>1 DEF Baselined
    <3>4. /\ Larger(row[o].filled, exec[o]) \in Nat
          /\ Larger(row[o].filled, exec[o]) >= row[o].filled /\ Qty >= row[o].filled
      BY <3>1, NumbersTyped DEF Larger, Inv, Numbers
    <3>2. /\ row'[o].state = row[o].state /\ row'[o].ref = row[o].ref
          /\ row'[o].pos = row[o].pos /\ row'[o].missing = row[o].missing
          /\ row'[o].filled >= row[o].filled /\ row'[o].filled \in Nat
          /\ ~Live(o) => row'[o].filled = row[o].filled
      BY <3>1, <3>3, <3>4 DEF Row
    <3> QED BY <1>i, <2>1, <3>1, <3>2
           DEF OrderFate, Whole, RowFate, Sent, Waits, Stamped, Live, Pending
  <2>3. StartFate'
    BY <2>1 DEF StartFate
  <2> QED BY <1>q, <2>1, <2>2, <2>3 DEF Fates, AllTraced, Traced, Sent
<1> QED BY <1>1, <1>2, <1>3, <1>4 DEF StartStep

\* Every step keeps the fates.
LEMMA FateStep ==
  ASSUME Inv, Fates, [Next]_vars
  PROVE  Fates'
<1>1. CASE UNCHANGED vars
  BY <1>1 DEF vars, Fates, AllTraced, Traced, StartFate, OrderFate, Whole, RowFate, Sent,
              Waits, Stamped, Live, Pending
<1> QED BY <1>1, FateVenue, FateDispatch, FateChannel, FateTranslate, FatePass, FateStart
       DEF Next

-----------------------------------------------------------------------------
(* A fill is told before the cancel of the rest, as long as nothing is lost *)

Brings(m, o) == m.kind = "fill" /\ m.ord = o

Ends(m, o) == m.kind = "cancelled" /\ m.ord = o

NoEnd(q, o) == \A i \in DOMAIN q : ~Ends(q[i], o)

\* A fill of the order, and no cancel of it before.
FillFirst(q, o) ==
  \E i \in DOMAIN q : /\ Brings(q[i], o)
                      /\ \A h \in DOMAIN q : h < i => ~Ends(q[h], o)

\* The same, of two queues one after the other.
Ahead(a, b, o) == FillFirst(a, o) \/ (NoEnd(a, o) /\ FillFirst(b, o))

\* An executed order whose cursor counts nothing has a fill to be told before its cancel, or
\* as its dispatch's answer, and its row is not retired.
TurnOf(o) ==
  /\ exec[o] > 0 /\ row[o].filled = 0 =>
       /\ row[o].state # "closed"
       /\ Ahead(execq, wire, o) \/ (task[o] = "answered" /\ answer[o].kind = "fill")
  /\ row[o].pos => row[o].filled > 0

Turn ==
  /\ link /\ proc = "running" /\ \A o \in Orders : TurnOf(o)
  /\ \A d \in seen : row[d[1]].filled > 0

Lossless == drops = 0 /\ crashes = 0

\* A queue takes a message.
LEMMA FirstAppend ==
  ASSUME NEW q \in Seq(Msg), NEW m \in Msg, NEW o
  PROVE  /\ FillFirst(q, o) => FillFirst(Append(q, m), o)
         /\ NoEnd(q, o) /\ ~Ends(m, o) => NoEnd(Append(q, m), o)
         /\ NoEnd(q, o) /\ Brings(m, o) => FillFirst(Append(q, m), o)
<1> DEFINE p == Append(q, m)
<1>1. /\ DOMAIN p = DOMAIN q \cup {Len(q) + 1} /\ p[Len(q) + 1] = m
      /\ \A i \in DOMAIN q : p[i] = q[i] /\ i \in Nat /\ i < Len(q) + 1
      /\ Len(q) \in Nat
  OBVIOUS
<1> HIDE DEF p
<1>2. \A i \in DOMAIN q : ~(Len(q) + 1 < i)
  BY <1>1
<1>3. ~(Len(q) + 1 < Len(q) + 1)
  BY <1>1
<1>4. FillFirst(q, o) => FillFirst(p, o)
  <2>1. ASSUME NEW i \in DOMAIN q, Brings(q[i], o), \A h \in DOMAIN q : h < i => ~Ends(q[h], o)
        PROVE  i \in DOMAIN p /\ Brings(p[i], o) /\ \A h \in DOMAIN p : h < i => ~Ends(p[h], o)
    BY <1>1, <1>2, <2>1
  <2> QED BY <2>1 DEF FillFirst
<1>5. NoEnd(q, o) /\ ~Ends(m, o) => NoEnd(p, o)
  BY <1>1 DEF NoEnd
<1>6. NoEnd(q, o) /\ Brings(m, o) => FillFirst(p, o)
  BY <1>1, <1>3 DEF NoEnd, FillFirst
<1> QED BY <1>4, <1>5, <1>6 DEF p

\* A queue gives its head.
LEMMA FirstTail ==
  ASSUME NEW q \in Seq(Msg), q # <<>>, NEW o
  PROVE  /\ FillFirst(q, o) /\ ~Brings(Head(q), o) =>
              ~Ends(Head(q), o) /\ FillFirst(Tail(q), o)
         /\ NoEnd(q, o) => ~Ends(Head(q), o) /\ NoEnd(Tail(q), o)
         /\ Head(q) \in Msg /\ Tail(q) \in Seq(Msg)
<1> DEFINE p == Tail(q)
           m == Head(q)
<1>1. /\ m \in Msg /\ p \in Seq(Msg) /\ m = q[1] /\ 1 \in DOMAIN q
      /\ \A i \in DOMAIN q : i = 1 \/ (i - 1 \in DOMAIN p /\ q[i] = p[i - 1])
      /\ \A i \in DOMAIN p : i \in Nat /\ i + 1 \in DOMAIN q /\ p[i] = q[i + 1]
      /\ \A i \in DOMAIN q : i \in Nat /\ i >= 1
  OBVIOUS
<1> HIDE DEF p, m
<1>2. NoEnd(q, o) => ~Ends(m, o) /\ NoEnd(p, o)
  BY <1>1 DEF NoEnd
<1>3. ASSUME NEW i \in DOMAIN q, Brings(q[i], o), ~Brings(m, o),
             \A h \in DOMAIN q : h < i => ~Ends(q[h], o)
      PROVE  ~Ends(m, o) /\ FillFirst(p, o)
  <2>1. i # 1
    BY <1>1, <1>3
  <2>2. 1 < i /\ i - 1 \in DOMAIN p /\ p[i - 1] = q[i]
    BY <1>1, <2>1
  <2>3. ASSUME NEW h \in DOMAIN p, h < i - 1 PROVE ~Ends(p[h], o)
    <3>1. h + 1 \in DOMAIN q /\ p[h] = q[h + 1] /\ h + 1 < i
      BY <1>1, <2>3
    <3> QED BY <1>3, <3>1
  <2> QED BY <1>1, <1>3, <2>2, <2>3 DEF FillFirst
<1> QED BY <1>1, <1>2, <1>3 DEF FillFirst, p, m

\* The venue sends, the client receives, the translator takes.
LEMMA AheadMoves ==
  ASSUME NEW a \in Seq(Msg), NEW b \in Seq(Msg), NEW o, Ahead(a, b, o)
  PROVE  /\ \A m \in Msg : Ahead(a, Append(b, m), o)
         /\ \A m \in Msg : m.kind = "fill" => Ahead(Append(a, m), b, o)
         /\ b # <<>> => Ahead(Append(a, Head(b)), Tail(b), o)
         /\ b # <<>> /\ ~Brings(Head(b), o) => Ahead(a, Tail(b), o)
         /\ a # <<>> /\ ~Brings(Head(a), o) => ~Ends(Head(a), o) /\ Ahead(Tail(a), b, o)
<1>1. \A m \in Msg : Ahead(a, Append(b, m), o)
  BY FirstAppend DEF Ahead
<1>2. \A m \in Msg : m.kind = "fill" => Ahead(Append(a, m), b, o)
  <2>1. ASSUME NEW m \in Msg, m.kind = "fill" PROVE Ahead(Append(a, m), b, o)
    <3>1. ~Ends(m, o)
      BY <2>1 DEF Ends
    <3> QED BY <3>1, FirstAppend DEF Ahead
  <2> QED BY <2>1
<1>3. b # <<>> => Ahead(Append(a, Head(b)), Tail(b), o)
  BY FirstAppend, FirstTail DEF Ahead
<1>4. b # <<>> /\ ~Brings(Head(b), o) => Ahead(a, Tail(b), o)
  BY FirstTail DEF Ahead
<1>5. a # <<>> /\ ~Brings(Head(a), o) => ~Ends(Head(a), o) /\ Ahead(Tail(a), b, o)
  BY FirstTail DEF Ahead
<1> QED BY <1>1, <1>2, <1>3, <1>4, <1>5

\* The orders of the seen deals, and the rest of the types a step needs.
LEMMA TurnTypes ==
  ASSUME Inv
  PROVE  /\ wire \in Seq(Msg) /\ execq \in Seq(Msg) /\ row \in [Orders -> Row]
         /\ task \in [Orders -> TaskStates] /\ answer \in [Orders -> Msg]
         /\ ord \in [Orders -> OrdStates] /\ exec \in [Orders -> Slices]
         /\ \A d \in seen : d[1] \in Orders
         /\ \A m \in Msg : m.ord \in Orders /\ m.cum \in Nat
         /\ \A o \in Orders : /\ exec[o] \in Nat /\ row[o].filled \in Nat /\ row[o] \in Row
                              /\ snap[o].exec \in Nat /\ answer[o].ord = o
                              /\ answer[o].kind = "fill" => answer[o].cum > 0
         /\ \A i \in DOMAIN execq : execq[i].cum <= exec[execq[i].ord]
                                    /\ (execq[i].kind = "fill" => execq[i].cum > 0)
<1>1. Numbers
  BY NumbersTyped DEF Inv
<1>2. \A m \in Msg : m.ord \in Orders /\ m.cum \in Nat
  BY QtyAssumption DEF Msg, Slices
<1>3. \A d \in seen : d[1] \in Orders
  BY DEF Inv, TypeOK
<1>4. \A m \in Msg : \A e : SoundMsg(m, e) => m.cum <= e[m.ord] /\ (m.kind = "fill" => m.cum > 0)
  BY <1>2 DEF SoundMsg
<1>5. \A o \in Orders : answer[o] \in Msg /\ answer[o].ord = o /\ SoundMsg(answer[o], exec)
  BY DEF Inv, IInv, TypeOK, ReportsSound
<1>6. \A i \in DOMAIN execq : execq[i] \in Msg /\ SoundMsg(execq[i], exec)
  BY DEF Inv, IInv, TypeOK, ReportsSound, SoundQueue
<1> QED BY <1>1, <1>2, <1>3, <1>4, <1>5, <1>6 DEF Inv, TypeOK, Numbers, OrdStates, TaskStates

\* What was seen stays counted: no cursor moves back.
LEMMA TurnKept ==
  ASSUME Inv, Inv', CursorStep, Turn, UNCHANGED <<link, proc>>,
         \A o \in Orders : TurnOf(o)', \A d \in seen' \ seen : row'[d[1]].filled > 0
  PROVE  Turn'
<1>1. ASSUME NEW d \in seen' PROVE row'[d[1]].filled > 0
  <2>1. CASE d \in seen
    <3>1. /\ d[1] \in Orders /\ row[d[1]].filled > 0 /\ row[d[1]].filled \in Nat
          /\ row'[d[1]].filled >= row[d[1]].filled
      BY <2>1, TurnTypes DEF Turn, CursorStep
    <3>2. Slices \subseteq Nat /\ row'[d[1]] \in Row
      BY <3>1, QtyAssumption DEF Slices, Inv, TypeOK
    <3>3. row'[d[1]].filled \in Nat
      BY <3>2 DEF Row
    <3> QED BY <3>1, <3>3
  <2> QED BY <1>1, <2>1
<1> QED BY <1>1 DEF Turn

\* Only the rows move.
LEMMA TurnRows ==
  ASSUME Inv, Inv', CursorStep, Turn,
         UNCHANGED <<link, proc, exec, wire, execq, task, answer>>,
         \A o \in Orders : /\ row'[o].pos => row[o].pos \/ row'[o].filled > 0
                           /\ row'[o].state = "closed" /\ row'[o].filled = 0 =>
                                row[o].state = "closed" \/ exec[o] = 0,
         \A d \in seen' \ seen : row'[d[1]].filled > 0
  PROVE  Turn'
<1>1. ASSUME NEW o \in Orders PROVE TurnOf(o)'
  <2>1. /\ row'[o].filled >= row[o].filled /\ row[o].filled \in Nat /\ TurnOf(o)
        /\ exec[o] \in Nat
    BY TurnTypes DEF CursorStep, Turn
  <2>2. row'[o].filled \in Nat
    <3>1. Slices \subseteq Nat /\ row'[o] \in Row
      BY QtyAssumption DEF Slices, Inv, TypeOK
    <3> QED BY <3>1 DEF Row
  <2>3. /\ row'[o].filled = 0 => row[o].filled = 0
        /\ row[o].filled > 0 => row'[o].filled > 0
    BY <2>1, <2>2
  <2>4. exec[o] = 0 => ~(exec[o] > 0)
    BY <2>1
  <2> QED BY <2>1, <2>3, <2>4 DEF TurnOf
<1> QED BY <1>1, TurnKept

\* What a queue of messages takes is a message.
LEMMA AppendTyped ==
  ASSUME NEW q \in Seq(Msg), NEW m, Append(q, m) \in Seq(Msg)
  PROVE  m \in Msg
<1>1. Len(q) + 1 \in DOMAIN Append(q, m) /\ Append(q, m)[Len(q) + 1] = m
  OBVIOUS
<1> QED BY <1>1

\* An execution is told after everything before it, and no cancel is on its way.
LEMMA TurnVenue ==
  ASSUME Inv, Fates, Turn, NEW o \in Orders, Venue(o)
  PROVE  Turn'
<1>t. /\ wire \in Seq(Msg) /\ execq \in Seq(Msg)
      /\ ord \in [Orders -> OrdStates] /\ exec \in [Orders -> Slices]
      /\ \A m \in Msg : m.ord \in Orders
      /\ Inv' /\ CursorStep
  BY TurnTypes, VenueStep DEF StepSound
<1>n. exec[o] \in Nat
  BY TurnTypes
<1>u. UNCHANGED <<link, proc, task, answer, execq, row, seen>>
  BY DEF Venue, VenueAnswers, VenueFills, VenueCancels, VenueReplays
<1>1. /\ \/ exec' = exec
         \/ /\ ord[o] \in {"inflight", "working"}
            /\ \E m \in Msg : wire' = Append(wire, m) /\ Brings(m, o)
            /\ \A p \in Orders \ {o} : exec'[p] = exec[p]
      /\ wire' = wire \/ \E m \in Msg : wire' = Append(wire, m)
  <2>e. ASSUME NEW m, Emit(m) PROVE wire' = Append(wire, m) /\ m \in Msg
    <3>1. wire' = Append(wire, m)
      BY <2>e DEF Emit, Turn
    <3>2. m \in Msg
      BY <1>t, <3>1, AppendTyped DEF Inv, TypeOK
    <3> QED BY <3>1, <3>2
  <2>1. CASE VenueAnswers(o)
    BY <1>t, <2>1, <2>e DEF VenueAnswers, Answer, Brings
  <2>2. CASE VenueFills(o)
    BY <1>t, <2>2, <2>e DEF VenueFills, Push, Brings
  <2>3. CASE VenueCancels(o)
    BY <1>t, <2>3, <2>e DEF VenueCancels
  <2>4. CASE VenueReplays(o)
    BY <1>t, <2>4, <2>e DEF VenueReplays
  <2> QED BY <2>1, <2>2, <2>3, <2>4 DEF Venue
<1>2. ASSUME NEW p \in Orders PROVE TurnOf(p)'
  <2>1. TurnOf(p)
    BY DEF Turn
  <2>2. CASE exec'[p] = exec[p]
    <3>1. Ahead(execq, wire, p) => Ahead(execq, wire', p)
      BY <1>t, <1>1, AheadMoves
    <3> QED BY <1>u, <2>1, <2>2, <3>1 DEF TurnOf
  <2>3. CASE p = o /\ exec' # exec
    <3>1. NoEnd(execq, o) /\ NoEnd(wire, o)
      BY <1>1, <2>3 DEF Fates, AllTraced, Traced, NoEnd, Ends
    <3>2. Ahead(execq, wire', o)
      BY <1>t, <1>1, <2>3, <3>1, FirstAppend DEF Ahead
    <3>3. row[o].state = "closed" => row[o].filled # 0
      BY <1>1, <2>3 DEF Fates, OrderFate, RowFate
    <3> QED BY <1>u, <2>1, <2>3, <3>2, <3>3 DEF TurnOf
  <2> QED BY <1>1, <2>2, <2>3
<1> QED BY <1>t, <1>u, <1>2, TurnKept

\* A message moves on: into the execution queue behind the others, or to its dispatch.
LEMMA TurnReceive ==
  ASSUME Inv, Turn, Receive
  PROVE  Turn'
<1>t. /\ wire \in Seq(Msg) /\ execq \in Seq(Msg) /\ wire # <<>>
      /\ task \in [Orders -> TaskStates] /\ answer \in [Orders -> Msg]
      /\ Inv' /\ CursorStep
  BY TurnTypes, ReceiveStep DEF StepSound, Receive
<1>u. UNCHANGED <<link, proc, exec, row, seen>> /\ wire' = Tail(wire)
  BY DEF Receive
<1>0. PICK m \in Msg : m = Head(wire)
  BY <1>t, FirstTail
<1>1. \/ execq' = Append(execq, m) /\ UNCHANGED <<task, answer>>
      \/ /\ execq' = execq /\ task[m.ord] = "waiting"
         /\ task' = [task EXCEPT ![m.ord] = "answered"]
         /\ answer' = [answer EXCEPT ![m.ord] = m]
  BY <1>0 DEF Receive
<1>2. ASSUME NEW p \in Orders PROVE TurnOf(p)'
  <2>1. TurnOf(p)
    BY DEF Turn
  <2>2. CASE execq' = Append(execq, m) /\ UNCHANGED <<task, answer>>
    <3>1. Ahead(execq, wire, p) => Ahead(execq', wire', p)
      BY <1>t, <1>u, <1>0, <2>2, AheadMoves
    <3> QED BY <1>u, <2>1, <2>2, <3>1 DEF TurnOf
  <2>3. CASE /\ execq' = execq /\ task[m.ord] = "waiting"
             /\ task' = [task EXCEPT ![m.ord] = "answered"]
             /\ answer' = [answer EXCEPT ![m.ord] = m]
    <3>1. CASE Brings(m, p)
      <4>1. task'[p] = "answered" /\ answer'[p] = m /\ m.kind = "fill"
        BY <1>t, <2>3, <3>1 DEF Brings
      <4> QED BY <1>u, <2>1, <4>1 DEF TurnOf
    <3>2. CASE ~Brings(m, p)
      <4>1. Ahead(execq, wire, p) => Ahead(execq', wire', p)
        BY <1>t, <1>u, <1>0, <2>3, <3>2, AheadMoves
      <4>2. task[p] = "answered" => task'[p] = task[p] /\ answer'[p] = answer[p]
        BY <1>t, <2>3
      <4> QED BY <1>u, <2>1, <4>1, <4>2 DEF TurnOf
    <3> QED BY <3>1, <3>2
  <2> QED BY <1>1, <2>2, <2>3
<1> QED BY <1>t, <1>u, <1>2, TurnKept

\* A dispatch starts with nothing executed; an answer that is a fill raises the cursor and
\* goes behind the messages the queue holds.
LEMMA TurnDispatch ==
  ASSUME Inv, Turn, NEW o \in Orders, DispatchStep(o)
  PROVE  Turn'
<1>t. /\ execq \in Seq(Msg) /\ wire \in Seq(Msg) /\ row \in [Orders -> Row] /\ row[o] \in Row
      /\ task \in [Orders -> TaskStates] /\ answer \in [Orders -> Msg] /\ answer[o] \in Msg
      /\ exec[o] \in Nat /\ row[o].filled \in Nat
      /\ answer[o].cum \in Nat /\ (answer[o].kind = "fill" => answer[o].cum > 0)
      /\ Inv' /\ CursorStep
  BY TurnTypes, DispatchSent, DispatchResumes DEF StepSound, DispatchStep
<1>u. UNCHANGED <<link, proc, exec, wire, seen>>
  BY DEF DispatchStep, Dispatch, DispatchTimesOut, DispatchAnswered, DispatchUnknown
<1>a. \A p \in Orders : TurnOf(p)
  BY DEF Turn
<1>1. CASE Dispatch(o)
  <2>1. /\ row' = [row EXCEPT ![o] = [NoRow EXCEPT !.state = "submitted"]]
        /\ UNCHANGED <<execq, answer>>
        /\ \A p \in Orders \ {o} : task'[p] = task[p]
        /\ ord[o] = "none"
    BY <1>1, <1>t DEF Dispatch, Inv, IInv, UnsentSound
  <2>2. exec[o] = 0
    BY <2>1 DEF Inv, IInv, VenueSound
  <2>3. row'[o].pos = FALSE /\ \A p \in Orders \ {o} : row'[p] = row[p]
    BY <1>t, <2>1 DEF NoRow
  <2>4. TurnOf(o)'
    BY <1>u, <1>t, <2>2, <2>3 DEF TurnOf
  <2>5. \A p \in Orders \ {o} : TurnOf(p)'
    BY <1>a, <1>u, <2>1, <2>3 DEF TurnOf
  <2> QED BY <1>t, <1>u, <2>4, <2>5, TurnKept
<1>2. CASE DispatchTimesOut(o)
  <2>1. /\ UNCHANGED <<row, execq, answer>> /\ task[o] = "waiting"
        /\ \A p \in Orders \ {o} : task'[p] = task[p]
    BY <1>2, <1>t DEF DispatchTimesOut
  <2>2. \A p \in Orders : TurnOf(p)'
    BY <1>a, <1>u, <2>1 DEF TurnOf
  <2> QED BY <1>t, <1>u, <2>2, TurnKept
<1>3. CASE DispatchUnknown(o)
  <2>1. /\ UNCHANGED <<execq, answer>> /\ task[o] = "lost"
        /\ \A p \in Orders \ {o} : task'[p] = task[p]
        /\ row' = [row EXCEPT ![o].state = IF Live(o) THEN "unknown" ELSE @]
    BY <1>3, <1>t DEF DispatchUnknown
  <2>2. /\ \A p \in Orders \ {o} : row'[p] = row[p]
        /\ row'[o].filled = row[o].filled /\ row'[o].pos = row[o].pos
        /\ row'[o].state = "closed" => row[o].state = "closed"
    BY <1>t, <2>1 DEF Row
  <2>3. \A p \in Orders : TurnOf(p)'
    BY <1>a, <1>u, <2>1, <2>2 DEF TurnOf
  <2> QED BY <1>t, <1>u, <2>3, TurnKept
<1>4. CASE DispatchAnswered(o)
  <2> DEFINE m == answer[o]
             r == PersistEntry(row[o], m)
  <2>1. /\ \A p \in Orders \ {o} : task'[p] = task[p] /\ answer'[p] = answer[p]
        /\ \/ /\ m.kind = "rejected" /\ execq' = execq
              /\ row' = [row EXCEPT ![o].state = IF Live(o) THEN "rejected" ELSE @]
           \/ /\ execq' = IF m.kind = "fill" THEN Append(execq, m) ELSE execq
              /\ row' = [row EXCEPT ![o] = r]
    BY <1>4, <1>t DEF DispatchAnswered
  <2>2. /\ r.state = "confirmed" /\ (r.filled = 0 => row[o].filled = 0 /\ m.kind # "fill")
        /\ r.pos => row[o].pos \/ r.filled > 0
        /\ row[o].filled > 0 => r.filled > 0
    <3>1. /\ r.state = "confirmed" /\ r.filled = Larger(m.cum, row[o].filled)
          /\ r.pos = (row[o].pos \/ m.cum > 0)
      BY <1>t DEF PersistEntry, Row
    <3> HIDE DEF r, m
    <3>2. m.cum \in Nat /\ (m.kind = "fill" => m.cum > 0)
      BY <1>t DEF m
    <3>3. /\ r.filled = 0 => row[o].filled = 0 /\ ~(m.cum > 0)
          /\ row[o].filled > 0 \/ m.cum > 0 => r.filled > 0
      BY <1>t, <3>1, <3>2 DEF Larger
    <3> QED BY <3>1, <3>2, <3>3
  <2> HIDE DEF r, m
  <2>m. m \in Msg /\ (execq' = execq \/ (m.kind = "fill" /\ execq' = Append(execq, m)))
    BY <1>t, <2>1 DEF m
  <2>3. \A p \in Orders : Ahead(execq, wire, p) => Ahead(execq', wire, p)
    BY <1>t, <2>m, AheadMoves
  <2>4. \A p \in Orders \ {o} : row'[p] = row[p]
    BY <1>t, <2>1
  <2>5. TurnOf(o)'
    <3>1. CASE /\ m.kind = "rejected"
               /\ row' = [row EXCEPT ![o].state = IF Live(o) THEN "rejected" ELSE @]
      <4>1. /\ row'[o].filled = row[o].filled /\ row'[o].pos = row[o].pos
            /\ row'[o].state = "closed" => row[o].state = "closed"
        BY <1>t, <3>1 DEF Row
      <4> QED BY <1>a, <1>u, <2>3, <3>1, <4>1 DEF TurnOf, m
    <3>2. CASE row' = [row EXCEPT ![o] = r]
      <4>1. row'[o] = r
        BY <1>t, <3>2
      <4> QED BY <1>a, <1>u, <2>2, <2>3, <4>1 DEF TurnOf, m
    <3> QED BY <2>1, <3>1, <3>2
  <2>6. \A p \in Orders \ {o} : TurnOf(p)'
    BY <1>a, <1>u, <2>1, <2>3, <2>4 DEF TurnOf
  <2> QED BY <1>t, <1>u, <2>5, <2>6, TurnKept
<1> QED BY <1>1, <1>2, <1>3, <1>4 DEF DispatchStep

\* The translator meets no cancel before a fill, counts every fill it sees, and retires
\* only a row it knows, which has no fill coming.
LEMMA TurnTranslate ==
  ASSUME Inv, Fates, Turn, Translate
  PROVE  Turn'
<1>t. /\ execq \in Seq(Msg) /\ execq # <<>> /\ wire \in Seq(Msg) /\ row \in [Orders -> Row]
      /\ \A p \in Orders : row[p] \in Row /\ exec[p] \in Nat /\ row[p].filled \in Nat
      /\ Inv' /\ CursorStep
  BY TurnTypes, TranslateStep DEF StepSound, Translate
<1>0. PICK m \in Msg : m = Head(execq)
  BY <1>t
<1>o. PICK o \in Orders : o = m.ord
  BY TurnTypes
<1>u. UNCHANGED <<exec, wire, task, answer, proc, link>> /\ execq' = Tail(execq)
  BY DEF Translate
<1>1. /\ Traced(m) /\ m.cum \in Nat /\ m.cum <= exec[o] /\ (m.kind = "fill" => m.cum > 0)
  <2>1. m = execq[1] /\ 1 \in DOMAIN execq
    BY <1>t, <1>0
  <2> QED BY <1>t, <1>0, <1>o, <2>1, TracedTail, TurnTypes DEF Fates
<1>2. \A p \in Orders : Ahead(execq, wire, p) /\ ~Brings(m, p) =>
                          ~Ends(m, p) /\ Ahead(execq', wire', p)
  BY <1>t, <1>0, <1>u, AheadMoves
<1>a. \A p \in Orders : TurnOf(p)
  BY DEF Turn
<1>f. ASSUME \A p \in Orders \ {o} : row'[p] = row[p], TurnOf(o)',
             \A d \in seen' \ seen : d = DealOf(m) /\ row'[o].filled > 0
      PROVE  Turn'
  <2>1. ASSUME NEW p \in Orders \ {o} PROVE TurnOf(p)'
    <3>1. ~Brings(m, p)
      BY <1>o, <2>1 DEF Brings
    <3> QED BY <1>a, <1>u, <1>2, <1>f, <2>1, <3>1 DEF TurnOf
  <2>2. \A d \in seen' \ seen : row'[d[1]].filled > 0
    BY <1>f, <1>o DEF DealOf
  <2> QED BY <1>t, <1>u, <1>f, <2>1, <2>2, TurnKept
<1>3. CASE m.kind \in {"accepted", "rejected"}
  <2>1. UNCHANGED <<row, seen>>
    BY <1>0, <1>3 DEF Translate
  <2>2. ~Brings(m, o)
    BY <1>3 DEF Brings
  <2> QED BY <1>a, <1>u, <1>2, <1>f, <2>1, <2>2 DEF TurnOf
<1>4. CASE m.kind = "cancelled"
  <2>1. TranslateCancel(m)
    BY <1>0, <1>4 DEF Translate
  <2>2. ~Ahead(execq, wire, o)
    BY <1>2, <1>4, <1>o DEF Brings, Ends
  <2>3. exec[o] > 0 /\ row[o].filled = 0 => ~row[o].ref /\ task[o] = "answered"
    BY <1>a, <2>2 DEF TurnOf, Fates, OrderFate, RowFate, Waits
  <2>4. /\ \/ row'[o] = row[o]
           \/ row[o].ref /\ row'[o] = Closed(row[o])
        /\ \A p \in Orders \ {o} : row'[p] = row[p]
        /\ seen' = seen
    BY <1>t, <1>o, <2>1 DEF TranslateCancel
  <2>5. Closed(row[o]).filled = row[o].filled /\ Closed(row[o]).pos = row[o].pos
    BY <1>t DEF Closed, Row
  <2>6. TurnOf(o)'
    BY <1>a, <1>u, <2>2, <2>3, <2>4, <2>5 DEF TurnOf
  <2> QED BY <1>f, <2>4, <2>6
<1>5. CASE m.kind = "fill"
  <2>1. \/ UNCHANGED <<row, seen>> /\ DealOf(m) \in seen
        \/ row[o].ref /\ TranslateKnownFill(m)
        \/ Live(o) /\ TranslateParkedFill(m)
        \/ ~Live(o) /\ TranslateExternalFill(m)
    BY <1>0, <1>o, <1>5 DEF Translate
  <2>2. /\ row'[o].filled > 0 /\ \A p \in Orders \ {o} : row'[p] = row[p]
        /\ seen' \subseteq seen \cup {DealOf(m)}
    <3>1. CASE UNCHANGED <<row, seen>> /\ DealOf(m) \in seen
      BY <1>o, <3>1 DEF Turn, DealOf
    <3>2. CASE row[o].ref /\ TranslateKnownFill(m)
      <4> DEFINE r == [row[o] EXCEPT !.filled = m.cum, !.pos = TRUE]
      <4>1. /\ seen' = seen \cup {DealOf(m)}
            /\ \/ row' = row /\ m.cum <= row[o].filled
               \/ row' = [row EXCEPT ![o] = r]
        BY <1>o, <3>2 DEF TranslateKnownFill
      <4>2. r.filled = m.cum
        BY <1>t DEF Row
      <4> HIDE DEF r
      <4> QED BY <1>t, <1>1, <1>5, <4>1, <4>2
    <3>3. CASE Live(o) /\ TranslateParkedFill(m)
      <4> DEFINE r == [row[o] EXCEPT !.state = "confirmed", !.filled = m.cum,
                                     !.ref = TRUE, !.pos = TRUE]
      <4>1. seen' = seen \cup {DealOf(m)} /\ row' = [row EXCEPT ![o] = r]
        BY <1>o, <3>3 DEF TranslateParkedFill
      <4>2. r.filled = m.cum
        BY <1>t DEF Row
      <4> HIDE DEF r
      <4> QED BY <1>t, <1>1, <1>5, <4>1, <4>2
    <3>4. CASE ~Live(o) /\ TranslateExternalFill(m)
      <4>1. row' = row /\ seen' = seen \cup {DealOf(m)}
        BY <3>4 DEF TranslateExternalFill
      <4>2. row[o].state = "closed"
        BY <1>1, <1>o, <3>4 DEF Live, Traced, Sent, Inv, IInv, UnsentSound
      <4>3. exec[o] > 0
        BY <1>t, <1>1, <1>5
      <4> QED BY <1>a, <1>t, <4>1, <4>2, <4>3 DEF TurnOf
    <3> QED BY <2>1, <3>1, <3>2, <3>3, <3>4
  <2>3. TurnOf(o)'
    BY <1>t, <2>2 DEF TurnOf
  <2> QED BY <1>f, <2>2, <2>3
<1> QED BY <1>3, <1>4, <1>5 DEF Msg

\* A pass counts what it promotes, and retires by an expired stamp only an order the venue
\* ended without a fill, or a row that counts one.
LEMMA TurnPass ==
  ASSUME Inv, Fates, Turn, PassStep
  PROVE  Turn'
<1>t. /\ row \in [Orders -> Row]
      /\ \A p \in Orders : /\ row[p] \in Row /\ exec[p] \in Nat /\ row[p].filled \in Nat
                           /\ snap[p].exec \in Nat
  BY TurnTypes
<1>u. UNCHANGED <<link, proc, exec, wire, execq, task, answer>>
  BY DEF PassStep, PassBegins, PassCollects, PassPresence, PassEnds, PassRow, GraceExpires
<1>1. CASE PassBegins \/ PassCollects
  <2>1. Inv' /\ CursorStep
    BY <1>1, PassOpens DEF StepSound
  <2>2. UNCHANGED <<row, seen>>
    BY <1>1 DEF PassBegins, PassCollects
  <2> QED BY <1>u, <2>1, <2>2, TurnRows
<1>2. CASE PassPresence \/ PassEnds
  <2>1. Inv' /\ CursorStep
    BY <1>2, PassCloses DEF StepSound
  <2>2. /\ seen' = seen
        /\ \A p \in Orders : /\ row'[p].pos = row[p].pos /\ row'[p].state = row[p].state
    BY <1>t, <1>2 DEF PassPresence, PassEnds, Row
  <2> QED BY <1>u, <2>1, <2>2, TurnRows
<1>3. ASSUME NEW o \in Orders, GraceExpires(o) PROVE Turn'
  <2>1. Inv' /\ CursorStep
    BY <1>3, GraceStep DEF StepSound
  <2>2. /\ pass = "grace" /\ Stamped(o) /\ seen' = seen
        /\ row' = [row EXCEPT ![o] =
               IF row[o].pos \/ (exec[o] = 0 /\ ord[o] \notin {"inflight", "working"})
               THEN Closed(row[o]) ELSE [row[o] EXCEPT !.missing = "no"]]
    BY <1>3 DEF GraceExpires, Stamped
  <2>3. /\ Closed(row[o]).pos = row[o].pos /\ Closed(row[o]).filled = row[o].filled
        /\ [row[o] EXCEPT !.missing = "no"].pos = row[o].pos
        /\ [row[o] EXCEPT !.missing = "no"].state = row[o].state
    BY <1>t DEF Closed, Row
  <2>4. row[o].pos => row[o].filled # 0
    BY <1>t, <2>2 DEF Fates, OrderFate, RowFate
  <2>5. /\ row'[o].pos = row[o].pos
        /\ row'[o].state = "closed" /\ row'[o].filled = 0 =>
             row[o].state = "closed" \/ exec[o] = 0
    BY <1>t, <2>2, <2>3, <2>4
  <2>6. \A p \in Orders \ {o} : row'[p] = row[p]
    BY <1>t, <2>2
  <2> QED BY <1>u, <2>1, <2>2, <2>5, <2>6, TurnRows
<1>4. ASSUME NEW o \in Orders, PassRow(o) PROVE Turn'
  <2>1. Inv' /\ CursorStep
    BY <1>4, PassRowStep DEF StepSound
  <2>2. row[o].ref /\ row[o].state # "closed"
    BY <1>4 DEF PassRow, Inv, IInv, WorklistSound, Fates, OrderFate, RowFate
  <2>f. ASSUME NEW r, row' = [row EXCEPT ![o] = r], r.state # "closed",
               r.pos => row[o].pos \/ r.filled > 0,
               seen' = seen \/ (r.filled > 0 /\ \A d \in seen' \ seen : d[1] = o)
        PROVE  Turn'
    <3>1. row'[o] = r /\ \A p \in Orders \ {o} : row'[p] = row[p]
      BY <1>t, <2>f
    <3>2. \A d \in seen' \ seen : row'[d[1]].filled > 0
      BY <2>f, <3>1
    <3> QED BY <1>u, <2>1, <2>f, <3>1, <3>2, TurnRows
  <2>3. CASE UNCHANGED <<row, seen>>
    BY <1>u, <2>1, <2>3, TurnRows
  <2>p. PICK listed \in HistoryReads(o) :
          \/ UNCHANGED <<row, seen>>
          \/ ReconcileWorking(o, listed) \/ ReconcileVanished(o, listed)
    BY <1>4 DEF PassRow
  <2>l. listed \in Int
    <3>1. exec[o] \in Int
      BY <1>t
    <3> QED BY <3>1 DEF HistoryReads, Unread
  <2>4. CASE ReconcileWorking(o, listed)
    <3> DEFINE cleared == [row[o] EXCEPT !.missing = "no"]
               moved == [cleared EXCEPT !.state = "confirmed", !.pos = TRUE,
                                        !.filled = snap[o].exec]
    <3>1. \/ row' = [row EXCEPT ![o] = cleared] /\ seen' = seen
          \/ /\ row' = [row EXCEPT ![o] = moved] /\ snap[o].exec > row[o].filled
             /\ seen' = seen \/ seen' = seen \cup Deals(o, snap[o].exec)
      BY <2>4 DEF ReconcileWorking
    <3>2. /\ cleared.pos = row[o].pos /\ cleared.state = row[o].state
          /\ moved.filled = snap[o].exec /\ moved.state = "confirmed"
      BY <1>t DEF Row
    <3>3. \A d \in Deals(o, snap[o].exec) : d[1] = o
      BY DEF Deals
    <3>4. snap[o].exec > row[o].filled => snap[o].exec > 0
      BY <1>t
    <3> HIDE DEF cleared, moved
    <3> QED BY <2>2, <2>f, <3>1, <3>2, <3>3, <3>4
  <2>5. CASE ReconcileVanished(o, listed)
    <3> DEFINE cum == Larger(row[o].filled, listed)
               fresh == [row[o] EXCEPT !.missing =
                           IF ~row[o].pos /\ row[o].filled = 0 /\ @ = "no" THEN "fresh" ELSE @]
               promoted == [row[o] EXCEPT
                              !.missing = "no", !.pos = TRUE, !.filled = cum,
                              !.state = IF cum > row[o].filled \/ ~row[o].pos
                                        THEN "confirmed" ELSE @]
    <3>1. \/ UNCHANGED <<row, seen>>
          \/ /\ listed > 0 /\ row' = [row EXCEPT ![o] = promoted]
             /\ seen' = seen \cup (Deals(o, listed) \ seen)
          \/ row' = [row EXCEPT ![o] = fresh] /\ seen' = seen
      <4>1. CASE listed = 0
        <5>1. seen' = seen /\ row' = [row EXCEPT ![o].missing =
                        IF ~row[o].pos /\ row[o].filled = 0 /\ @ = "no"
                        THEN "fresh" ELSE @]
          BY <2>5, <4>1 DEF ReconcileVanished, Unread
        <5>2. row' = [row EXCEPT ![o] = fresh]
          BY <1>t, <5>1
        <5> QED BY <5>1, <5>2
      <4>2. CASE listed # 0
        BY <2>5, <4>2 DEF ReconcileVanished, PromoteFromDeal
      <4> QED BY <4>1, <4>2
    <3>2. /\ fresh.pos = row[o].pos /\ fresh.state = row[o].state
          /\ promoted.filled = cum /\ promoted.state \in {row[o].state, "confirmed"}
      BY <1>t DEF Row
    <3>3. \A d \in Deals(o, listed) : d[1] = o
      BY DEF Deals
    <3>4. listed > 0 => cum > 0
      BY <1>t, <2>l DEF Larger
    <3> HIDE DEF cum, fresh, promoted
    <3> QED BY <2>2, <2>3, <2>f, <3>1, <3>2, <3>3, <3>4
  <2> QED BY <2>p, <2>3, <2>4, <2>5
<1> QED BY <1>1, <1>2, <1>3, <1>4 DEF PassStep

\* Nothing executed, seen or linked yet.
LEMMA TurnInit == Init => Turn
<1> SUFFICES ASSUME Init PROVE Turn
  OBVIOUS
<1>1. ASSUME NEW o \in Orders PROVE TurnOf(o)
  BY <1>1 DEF Init, TurnOf, NoRow
<1> QED BY <1>1 DEF Init, Turn

\* As long as nothing is lost, fills and cancels keep their turn.
LEMMA TurnStep ==
  ASSUME Inv, Inv', Fates, Lossless => Turn, [Next]_vars
  PROVE  Lossless' => Turn'
<1>t. drops \in Nat /\ crashes \in Nat
  BY BoundAssumption DEF Inv, TypeOK
<1>1. CASE UNCHANGED vars
  <2>1. UNCHANGED <<drops, crashes, link, proc, row, exec, execq, wire, task, answer, seen>>
    BY <1>1 DEF vars
  <2> QED BY <2>1 DEF Lossless, Turn, TurnOf
<1>2. ASSUME NEW o \in Orders, Venue(o) PROVE Lossless' => Turn'
  BY <1>2, TurnVenue DEF Lossless, Venue, VenueAnswers, VenueFills, VenueCancels, VenueReplays
<1>3. ASSUME NEW o \in Orders, DispatchStep(o) PROVE Lossless' => Turn'
  BY <1>3, TurnDispatch DEF Lossless, DispatchStep, Dispatch, DispatchTimesOut,
     DispatchAnswered, DispatchUnknown
<1>4. CASE Receive
  BY <1>4, TurnReceive DEF Lossless, Receive
<1>5. CASE LinkDrops \/ Crash
  <2>1. drops' = drops + 1 \/ crashes' = crashes + 1
    BY <1>5 DEF LinkDrops, Crash
  <2> QED BY <1>t, <2>1 DEF Lossless
<1>6. CASE Reconnect
  BY <1>6 DEF Reconnect, Lossless, Turn
<1>7. CASE Translate
  BY <1>7, TurnTranslate DEF Lossless, Translate
<1>8. CASE PassStep
  BY <1>8, TurnPass DEF Lossless, PassStep, PassBegins, PassCollects, PassPresence,
     PassEnds, PassRow, GraceExpires
<1>9. CASE StartStep
  BY <1>9 DEF StartStep, Connect, RecoveryEnds, Adopt, RecoverRow, Lossless, Turn
<1> QED BY <1>1, <1>2, <1>3, <1>4, <1>5, <1>6, <1>7, <1>8, <1>9 DEF Next

-----------------------------------------------------------------------------
(* The three steps that retire a row *)

Retired(o) == Retires(o) => NothingDone(o) \/ GraceOnPart(o) \/ LateCancel(o)

\* A cancel meets the row of an order that executed nothing, or something was lost.
LEMMA RetiredByCancel ==
  ASSUME Inv, Fates, Lossless => Turn, Translate, NEW o \in Orders
  PROVE  Retired(o)
<1>t. /\ execq \in Seq(Msg) /\ execq # <<>> /\ wire \in Seq(Msg)
      /\ row \in [Orders -> Row] /\ row[o] \in Row /\ exec[o] \in Nat
      /\ drops \in Nat /\ crashes \in Nat
  BY TurnTypes, BoundAssumption DEF Translate, Inv, TypeOK
<1>0. PICK m \in Msg : m = Head(execq)
  BY <1>t
<1>m. m.ord \in Orders /\ Traced(m)
  BY <1>t, <1>0, TurnTypes, TracedTail DEF Fates
<1> SUFFICES ASSUME Retires(o) PROVE NothingDone(o) \/ GraceOnPart(o) \/ LateCancel(o)
  BY DEF Retired
<1>1. m.kind = "cancelled" /\ m.ord = o /\ row[o].ref /\ row[o].filled = 0
  <2>1. row[o].state # "closed" /\ row'[o].state = "closed"
    BY DEF Retires, Live
  <2>2. CASE m.kind = "cancelled" /\ TranslateCancel(m)
    BY <1>t, <1>m, <2>1, <2>2 DEF TranslateCancel
  <2>3. CASE m.kind = "fill" /\ TranslateKnownFill(m)
    <3> DEFINE r == [row[m.ord] EXCEPT !.filled = m.cum, !.pos = TRUE]
    <3>1. row' = row \/ row' = [row EXCEPT ![m.ord] = r]
      BY <2>3 DEF TranslateKnownFill
    <3>2. r.state = row[m.ord].state
      BY <1>t, <1>m DEF Row
    <3> HIDE DEF r
    <3> QED BY <1>t, <1>m, <2>1, <3>1, <3>2
  <2>4. CASE m.kind = "fill" /\ TranslateParkedFill(m)
    <3> DEFINE r == [row[m.ord] EXCEPT !.state = "confirmed", !.filled = m.cum,
                                       !.ref = TRUE, !.pos = TRUE]
    <3>1. row' = [row EXCEPT ![m.ord] = r]
      BY <2>4 DEF TranslateParkedFill
    <3>2. r.state = "confirmed"
      BY <1>t, <1>m DEF Row
    <3> HIDE DEF r
    <3> QED BY <1>t, <1>m, <2>1, <3>1, <3>2
  <2>5. \/ row' = row
        \/ m.kind = "cancelled" /\ TranslateCancel(m)
        \/ m.kind = "fill" /\ (TranslateKnownFill(m) \/ TranslateParkedFill(m))
    BY <1>0 DEF Translate, TranslateExternalFill
  <2> QED BY <2>1, <2>2, <2>3, <2>4, <2>5
<1>2. ord[o] = "cancelled"
  BY <1>m, <1>1 DEF Traced
<1>3. Lossless => exec[o] = 0
  <2>1. ASSUME Lossless PROVE exec[o] = 0
    <3>1. ~Ahead(execq, wire, o)
      BY <1>t, <1>0, <1>1, AheadMoves DEF Brings, Ends
    <3>2. task[o] = "answered" => row[o].filled > 0
      BY <1>1, <2>1 DEF Turn, TurnOf, Fates, OrderFate, RowFate, Waits
    <3> QED BY <1>t, <1>1, <2>1, <3>1, <3>2 DEF Turn, TurnOf
  <2> QED BY <2>1
<1>4. Lossless \/ drops + crashes > 0
  BY <1>t DEF Lossless
<1> QED BY <1>1, <1>2, <1>3, <1>4 DEF NothingDone, LateCancel

\* A stamp expires in the grace phase, where no filled order's row is left with one.
LEMMA RetiredByGrace ==
  ASSUME Inv, Fates, NEW o \in Orders, NEW p \in Orders, GraceExpires(p)
  PROVE  Retired(o)
<1>t. /\ row \in [Orders -> Row] /\ row[o].filled \in Nat /\ row[o].filled <= Qty
      /\ Qty \in Nat /\ row[o] \in Row
  BY NumbersTyped DEF Inv, TypeOK, Numbers
<1>1. /\ pass = "grace" /\ row[p].missing = "stamped" /\ Stamped(p)
      /\ row' = [row EXCEPT ![p] =
               IF row[p].pos \/ (exec[p] = 0 /\ ord[p] \notin {"inflight", "working"})
               THEN Closed(row[p]) ELSE [row[p] EXCEPT !.missing = "no"]]
  BY DEF GraceExpires, Stamped
<1> SUFFICES ASSUME Retires(o) PROVE NothingDone(o) \/ GraceOnPart(o)
  BY DEF Retired
<1>2. p = o
  BY <1>t, <1>1 DEF Retires, Live
<1>3. row[o].pos \/ NothingDone(o)
  <2>1. [row[o] EXCEPT !.missing = "no"].state = row[o].state
    BY <1>t DEF Row
  <2> QED BY <1>t, <1>1, <1>2, <2>1 DEF Retires, Live, NothingDone
<1>4. row[o].pos => row[o].filled > 0 /\ row[o].filled # Qty
  BY <1>1, <1>2 DEF Fates, OrderFate, RowFate
<1> QED BY <1>t, <1>1, <1>2, <1>3, <1>4 DEF GraceOnPart

\* The recovery retires what the order history, or the lack of the order, shows unfilled.
LEMMA RetiredByRecovery ==
  ASSUME Inv, NEW o \in Orders, NEW p \in Orders, RecoverRow(p)
  PROVE  Retired(o)
<1>t. row \in [Orders -> Row] /\ row[p] \in Row
  BY DEF Inv, TypeOK
<1> SUFFICES ASSUME Retires(o) PROVE NothingDone(o)
  BY DEF Retired
<1>k. ASSUME NEW r, row' = [row EXCEPT ![p] = r], r.state \in {row[p].state, "confirmed"}
      PROVE  FALSE
  BY <1>t, <1>k DEF Retires, Live
<1>1. ~RecordRefs(p)
  <2> DEFINE r == [row[p] EXCEPT !.ref = TRUE, !.pos = TRUE, !.unsure = TRUE]
  <2>1. r.state = row[p].state
    BY <1>t DEF Row
  <2> HIDE DEF r
  <2> QED BY <1>k, <2>1 DEF RecordRefs, r
<1>2. ASSUME NEW k, NEW pos, NEW part PROVE ~ConfirmRecovered(p, k, pos, part)
  <2> DEFINE r == [row[p] EXCEPT !.state = "confirmed", !.ref = TRUE, !.pos = pos,
                      !.filled = Larger(@, k), !.partial = @ \/ part]
  <2>1. r.state = "confirmed"
    BY <1>t DEF Row
  <2> HIDE DEF r
  <2> QED BY <1>k, <2>1 DEF ConfirmRecovered, r
<1>3. row' # row
  BY DEF Retires, Live
<1>4. \/ row' = [row EXCEPT ![p] = Closed(row[p])] /\ exec[p] = 0
         /\ ord[p] \in {"cancelled", "rejected"}
      \/ row' = [row EXCEPT ![p] = Closed(row[p])] /\ ord[p] = "none"
  <2>1. PICK listed \in HistoryReads(p) : RecoverLive(p, listed) \/ RecoverByCoid(p, listed)
    BY DEF RecoverRow
  <2>2. ~RecoverLive(p, listed)
    BY <1>1, <1>2 DEF RecoverLive
  <2>3. CASE RecoverFromHistory(p, listed)
    BY <1>1, <1>2, <2>3 DEF RecoverFromHistory
  <2> QED BY <1>3, <2>1, <2>2, <2>3 DEF RecoverByCoid
<1>5. p = o
  BY <1>t, <1>4 DEF Retires, Live
<1>6. ord[p] = "none" => exec[p] = 0
  BY DEF Inv, IInv, VenueSound
<1> QED BY <1>4, <1>5, <1>6 DEF NothingDone

\* No other step retires a row.
LEMMA RetireStep ==
  ASSUME Inv, Fates, Lossless => Turn, [Next]_vars, NEW o \in Orders
  PROVE  Retired(o)
<1>t. row \in [Orders -> Row] /\ \A p \in Orders : row[p] \in Row
  BY DEF Inv, TypeOK
<1>s. row'[o].state # "closed" \/ row'[o].state = row[o].state => Retired(o)
  BY DEF Retired, Retires, Live
<1>1. CASE row' = row
  BY <1>s, <1>1
<1>2. ASSUME NEW p \in Orders, Dispatch(p) PROVE Retired(o)
  <2>1. row' = [row EXCEPT ![p] = [NoRow EXCEPT !.state = "submitted"]]
    BY <1>2 DEF Dispatch
  <2>2. row'[o].state = "submitted" \/ row'[o] = row[o]
    BY <1>t, <2>1 DEF NoRow
  <2> QED BY <1>s, <2>2
<1>3. ASSUME NEW p \in Orders, DispatchAnswered(p) PROVE Retired(o)
  <2> DEFINE r == PersistEntry(row[p], answer[p])
  <2>1. \/ row' = [row EXCEPT ![p].state = IF Live(p) THEN "rejected" ELSE @]
        \/ row' = [row EXCEPT ![p] = r]
    BY <1>3 DEF DispatchAnswered
  <2>2. r.state = "confirmed"
    BY <1>t DEF PersistEntry, Row
  <2> HIDE DEF r
  <2>3. row'[o].state \in {"rejected", "confirmed", row[o].state}
    <3>1. CASE row' = [row EXCEPT ![p] = r]
      <4>1. row'[o] = IF o = p THEN r ELSE row[o]
        BY <1>t, <3>1
      <4> QED BY <2>2, <4>1
    <3>2. CASE row' = [row EXCEPT ![p].state = IF Live(p) THEN "rejected" ELSE @]
      BY <1>t, <3>2 DEF Row
    <3> QED BY <2>1, <3>1, <3>2
  <2> QED BY <1>s, <2>3
<1>4. ASSUME NEW p \in Orders, DispatchUnknown(p) PROVE Retired(o)
  <2>1. row'[o].state \in {"unknown", row[o].state}
    BY <1>t, <1>4 DEF DispatchUnknown
  <2> QED BY <1>s, <2>1
<1>5. ASSUME NEW p \in Orders, PassRow(p) PROVE Retired(o)
  <2>k. ASSUME NEW r, row' = [row EXCEPT ![p] = r], r.state \in {row[p].state, "confirmed"}
        PROVE  Retired(o)
    BY <1>t, <1>s, <2>k
  <2>p. PICK listed \in HistoryReads(p) :
          row' = row \/ ReconcileWorking(p, listed) \/ ReconcileVanished(p, listed)
    BY <1>5 DEF PassRow
  <2>1. CASE ReconcileWorking(p, listed)
    <3> DEFINE cleared == [row[p] EXCEPT !.missing = "no"]
               moved == [cleared EXCEPT !.state = "confirmed", !.pos = TRUE,
                                        !.filled = snap[p].exec]
    <3>1. row' = [row EXCEPT ![p] = cleared] \/ row' = [row EXCEPT ![p] = moved]
      BY <2>1 DEF ReconcileWorking
    <3>2. cleared.state = row[p].state /\ moved.state = "confirmed"
      BY <1>t DEF Row
    <3> HIDE DEF cleared, moved
    <3> QED BY <2>k, <3>1, <3>2
  <2>2. CASE ReconcileVanished(p, listed)
    <3> DEFINE cum == Larger(row[p].filled, listed)
               promoted == [row[p] EXCEPT
                              !.missing = "no", !.pos = TRUE, !.filled = cum,
                              !.state = IF cum > row[p].filled \/ ~row[p].pos
                                        THEN "confirmed" ELSE @]
    <3>1. CASE row' = [row EXCEPT ![p] = promoted]
      <4>1. promoted.state \in {row[p].state, "confirmed"}
        BY <1>t DEF Row
      <4> HIDE DEF cum, promoted
      <4> QED BY <2>k, <3>1, <4>1
    <3>2. CASE \E x : row' = [row EXCEPT ![p].missing = x]
      <4>1. row'[o].state = row[o].state
        BY <1>t, <3>2 DEF Row
      <4> QED BY <1>s, <4>1
    <3>3. \/ row' = row
          \/ row' = [row EXCEPT ![p] = promoted]
          \/ \E x : row' = [row EXCEPT ![p].missing = x]
      <4>1. CASE listed = 0
        BY <2>2, <4>1 DEF ReconcileVanished, Unread
      <4>2. CASE listed # 0
        BY <2>2, <4>2 DEF ReconcileVanished, PromoteFromDeal
      <4> QED BY <4>1, <4>2
    <3> QED BY <1>1, <3>1, <3>2, <3>3
  <2> QED BY <1>1, <2>p, <2>1, <2>2
<1>6. CASE PassPresence \/ PassEnds
  <2>1. row'[o].state = row[o].state
    BY <1>t, <1>6 DEF PassPresence, PassEnds, Row
  <2> QED BY <1>s, <2>1
<1>7. CASE Adopt
  <2>1. row'[o] = Baselined(o)
    BY <1>7 DEF Adopt
  <2>2. Baselined(o).state = row[o].state
    BY <1>t DEF Baselined, Row
  <2> QED BY <1>s, <2>1, <2>2
<1>8. \/ row' = row
      \/ Translate \/ Adopt \/ PassPresence \/ PassEnds
      \/ \E p \in Orders : \/ Dispatch(p) \/ DispatchAnswered(p) \/ DispatchUnknown(p)
                           \/ PassRow(p) \/ GraceExpires(p) \/ RecoverRow(p)
  <2>1. UNCHANGED vars => row' = row
    BY DEF vars
  <2>2. \A p \in Orders : Venue(p) => row' = row
    BY DEF Venue, VenueAnswers, VenueFills, VenueCancels, VenueReplays
  <2>3. Receive \/ LinkDrops \/ Reconnect \/ Crash => row' = row
    BY DEF Receive, LinkDrops, Reconnect, Crash
  <2>4. PassBegins \/ PassCollects \/ Connect \/ RecoveryEnds => row' = row
    BY DEF PassBegins, PassCollects, Connect, RecoveryEnds
  <2>5. \A p \in Orders : DispatchTimesOut(p) => row' = row
    BY DEF DispatchTimesOut
  <2> QED BY <2>1, <2>2, <2>3, <2>4, <2>5 DEF Next, DispatchStep, PassStep, StartStep
<1> QED BY <1>1, <1>2, <1>3, <1>4, <1>5, <1>6, <1>7, <1>8,
           RetiredByCancel, RetiredByGrace, RetiredByRecovery

\* Whatever the venue answers, however the history lags or fails, and through every crash and
\* lost connection, the row of an order that executed is retired only by an expired stamp
\* that meets a part of the order, or by a cancel that meets a cursor no fill reached after
\* something was lost (_retire_cancelled_working_order, _confirm_missing_via_deal_history,
\* _recover_one_pending_row).
THEOREM FilledRowsKeptHolds == Spec => FilledRowsKept
<1>1. Init => Fates /\ (Lossless => Turn)
  BY FateInit, TurnInit
<1>2. Inv /\ Inv' /\ Fates /\ (Lossless => Turn) /\ [Next]_vars =>
        Fates' /\ (Lossless' => Turn')
  BY FateStep, TurnStep
<1>3. Inv /\ Fates /\ (Lossless => Turn) /\ [Next]_vars =>
        [\A o \in Orders : Retires(o) => NothingDone(o) \/ GraceOnPart(o) \/ LateCancel(o)]_vars
  BY RetireStep DEF Retired
<1> QED BY <1>1, <1>2, <1>3, Invariance, PTL DEF Spec, FilledRowsKept

-----------------------------------------------------------------------------
(* Fills in turn: no connection lost, no crash, no answer that is a fill *)

\* The deal a message brings, and the deals that come before it.
Brought(m) == IF m.kind = "fill" THEN {DealOf(m)} ELSE {}

Due(m) == IF m.kind = "fill" THEN Deals(m.ord, m.cum - 1) ELSE {}

\* The deals a queue brings, and those it brings before its i-th message.
Fills(q) == UNION {Brought(q[h]) : h \in DOMAIN q}

Earlier(q, i) == UNION {Brought(q[h]) : h \in {h \in DOMAIN q : h < i}}

\* With the deals of T known, a queue brings every order's deals one after the other.
InOrder(T, q) == \A i \in DOMAIN q : Due(q[i]) \subseteq T \cup Earlier(q, i)

\* The deals a cursor counts, and those of a retired row.
Told ==
  {d \in Orders \X Slices : d[2] <= row[d[1]].filled \/ row[d[1]].state = "closed"}

PlainAnswer(m) == m.kind # "fill" /\ m.cum = 0

\* Only a dispatch that ended leaves a row stamped, retired or without its position.
RowCalm(o) ==
  /\ booked[o] = row[o].filled
  /\ row[o].missing # "no" \/ row[o].state = "closed" => task[o] = "done"
  /\ row[o].ref /\ task[o] # "done" => row[o].pos /\ row[o].filled > 0
  /\ row[o].state = "closed" => ~row[o].ref

InTurn ==
  /\ InOrder(Told, execq)
  /\ InOrder(Told \cup Fills(execq), wire)
  /\ \A o \in Orders : Deals(o, exec[o]) \subseteq Told \cup Fills(execq) \cup Fills(wire)
  /\ seen \subseteq Told

Calm ==
  /\ link /\ proc = "running"
  /\ \A i \in DOMAIN wire : wire[i].answer => PlainAnswer(wire[i])
  /\ \A o \in Orders : PlainAnswer(answer[o]) /\ RowCalm(o)
  /\ InTurn

\* What is known may grow.
LEMMA InOrderGrows ==
  ASSUME NEW T, NEW U, T \subseteq U, NEW q, InOrder(T, q)
  PROVE  InOrder(U, q)
BY DEF InOrder

\* A queue that has brought all a message needs takes it.
LEMMA InOrderAppend ==
  ASSUME NEW T, NEW q \in Seq(Msg), NEW m \in Msg, InOrder(T, q),
         Due(m) \subseteq T \cup Fills(q)
  PROVE  /\ InOrder(T, Append(q, m))
         /\ Fills(Append(q, m)) = Fills(q) \cup Brought(m)
<1> DEFINE p == Append(q, m)
<1>1. /\ DOMAIN p = DOMAIN q \cup {Len(q) + 1} /\ p[Len(q) + 1] = m
      /\ \A i \in DOMAIN q : p[i] = q[i] /\ i < Len(q) + 1
  OBVIOUS
<1>n. ~(Len(q) + 1 < Len(q) + 1)
  OBVIOUS
<1> HIDE DEF p
<1>2. Fills(p) = Fills(q) \cup Brought(m)
  BY <1>1 DEF Fills
<1>3. Earlier(p, Len(q) + 1) = Fills(q)
  <2>1. {h \in DOMAIN p : h < Len(q) + 1} = DOMAIN q
    BY <1>1, <1>n, Zenon
  <2> QED BY <1>1, <2>1 DEF Earlier, Fills
<1>4. ASSUME NEW i \in DOMAIN q PROVE Earlier(q, i) \subseteq Earlier(p, i)
  BY <1>1 DEF Earlier
<1>5. ASSUME NEW i \in DOMAIN p PROVE Due(p[i]) \subseteq T \cup Earlier(p, i)
  <2>1. CASE i = Len(q) + 1
    BY <1>1, <1>3, <2>1
  <2>2. CASE i \in DOMAIN q
    BY <1>1, <1>4, <2>2 DEF InOrder
  <2> QED BY <1>1, <2>1, <2>2
<1> QED BY <1>2, <1>5 DEF InOrder, p

\* The head needs nothing more than is known, and what it brings is known to the rest.
LEMMA InOrderTail ==
  ASSUME NEW T, NEW q \in Seq(Msg), q # <<>>, InOrder(T, q)
  PROVE  /\ Head(q) \in Msg /\ Tail(q) \in Seq(Msg)
         /\ Due(Head(q)) \subseteq T
         /\ InOrder(T \cup Brought(Head(q)), Tail(q))
         /\ Fills(q) = Brought(Head(q)) \cup Fills(Tail(q))
<1> DEFINE p == Tail(q)
           m == Head(q)
<1>1. /\ m \in Msg /\ p \in Seq(Msg) /\ m = q[1] /\ 1 \in DOMAIN q
      /\ \A i \in DOMAIN q : i = 1 \/ (i - 1 \in DOMAIN p /\ q[i] = p[i - 1])
      /\ \A i \in DOMAIN p : i + 1 \in DOMAIN q /\ p[i] = q[i + 1]
      /\ \A i \in DOMAIN q : i \in Nat /\ i >= 1
      /\ \A i \in DOMAIN p : i \in Nat
  OBVIOUS
<1> HIDE DEF p, m
<1>2. Due(m) \subseteq T
  <2>1. Earlier(q, 1) = {}
    <3>1. {h \in DOMAIN q : h < 1} = {}
      BY <1>1
    <3> QED BY <3>1 DEF Earlier
  <2> QED BY <1>1, <2>1 DEF InOrder
<1>3. Fills(q) = Brought(m) \cup Fills(p)
  <2>1. Fills(q) \subseteq Brought(m) \cup Fills(p)
    <3> SUFFICES ASSUME NEW d \in Fills(q) PROVE d \in Brought(m) \cup Fills(p)
      OBVIOUS
    <3>1. PICK i \in DOMAIN q : d \in Brought(q[i])
      BY DEF Fills
    <3> QED BY <1>1, <3>1 DEF Fills
  <2>2. Brought(m) \cup Fills(p) \subseteq Fills(q)
    <3>1. Brought(m) \subseteq Fills(q)
      BY <1>1 DEF Fills
    <3>2. ASSUME NEW d \in Fills(p) PROVE d \in Fills(q)
      <4>1. PICK i \in DOMAIN p : d \in Brought(p[i])
        BY <3>2 DEF Fills
      <4> QED BY <1>1, <4>1 DEF Fills
    <3> QED BY <3>1, <3>2
  <2> QED BY <2>1, <2>2
<1>4. ASSUME NEW i \in DOMAIN p
      PROVE  Due(p[i]) \subseteq T \cup Brought(m) \cup Earlier(p, i)
  <2>1. Due(p[i]) \subseteq T \cup Earlier(q, i + 1)
    BY <1>1 DEF InOrder
  <2>2. ASSUME NEW d \in Earlier(q, i + 1) PROVE d \in Brought(m) \cup Earlier(p, i)
    <3>1. PICK h \in DOMAIN q : h < i + 1 /\ d \in Brought(q[h])
      BY <2>2 DEF Earlier
    <3>2. CASE h = 1
      BY <1>1, <3>1, <3>2
    <3>3. CASE h # 1
      <4>1. h - 1 \in DOMAIN p /\ q[h] = p[h - 1] /\ h - 1 < i
        <5>1. h \in Nat /\ i \in Nat /\ h - 1 \in DOMAIN p /\ q[h] = p[h - 1]
          BY <1>1, <3>3
        <5>2. h - 1 < i
          BY <3>1, <5>1
        <5> QED BY <5>1, <5>2
      <4> QED BY <3>1, <4>1 DEF Earlier
    <3> QED BY <3>2, <3>3
  <2> QED BY <2>1, <2>2
<1> QED BY <1>1, <1>2, <1>3, <1>4 DEF InOrder, p, m

\* An order's deal is known, or the cursor stands before it.
LEMMA ToldDeals ==
  ASSUME Inv, NEW o \in Orders, NEW k \in Slices
  PROVE  /\ k <= row[o].filled \/ row[o].state = "closed" => Deals(o, k) \subseteq Told
         /\ Deals(o, k) \subseteq Told /\ row[o].state # "closed" => k <= row[o].filled
<1>n. row[o].filled \in Nat /\ Qty \in Nat /\ Slices = 0 .. Qty
  BY NumbersTyped DEF Inv, Numbers, Slices
<1>1. ASSUME k <= row[o].filled \/ row[o].state = "closed", NEW j \in 1 .. k
      PROVE  <<o, j>> \in Told
  <2>1. j \in Slices /\ (k <= row[o].filled => j <= row[o].filled)
    BY <1>n
  <2> QED BY <1>1, <2>1 DEF Told
<1>2. ASSUME Deals(o, k) \subseteq Told, row[o].state # "closed", ~(k <= row[o].filled)
      PROVE  FALSE
  <2>1. k \in 1 .. k
    BY <1>n, <1>2
  <2>2. <<o, k>> \in Told
    BY <1>2, <2>1 DEF Deals
  <2> QED BY <1>2, <2>2 DEF Told
<1> QED BY <1>1, <1>2 DEF Deals

\* What is told stays told while cursors grow and retired rows stay retired.
LEMMA ToldGrows ==
  ASSUME Inv, Inv', CursorStep,
         \A o \in Orders : row[o].state = "closed" => row'[o].state = "closed"
  PROVE  Told \subseteq Told'
<1> SUFFICES ASSUME NEW o \in Orders, NEW j \in Slices,
                    j <= row[o].filled \/ row[o].state = "closed"
             PROVE  j <= row'[o].filled \/ row'[o].state = "closed"
  BY DEF Told
<1>1. row[o].filled \in Nat /\ row'[o].filled \in Nat /\ row'[o].filled >= row[o].filled
  <2>1. row \in [Orders -> Row] /\ row' \in [Orders -> Row]
    BY DEF Inv, TypeOK
  <2>2. row[o].filled \in Slices /\ row'[o].filled \in Slices
    BY <2>1 DEF Row
  <2> QED BY <2>2, QtyAssumption DEF CursorStep, Slices
<1>2. j \in Nat
  BY QtyAssumption DEF Slices
<1> QED BY <1>1, <1>2

\* A step of the journal and the engine, with the queues as they were.
LEMMA CalmRows ==
  ASSUME Inv, Inv', CursorStep, Calm, UNCHANGED <<exec, link, wire, execq, proc>>,
         \A p \in Orders : RowCalm(p)' /\ PlainAnswer(answer'[p]),
         \A p \in Orders : row[p].state = "closed" => row'[p].state = "closed",
         seen' \subseteq seen \cup Told'
  PROVE  Calm'
<1>1. Told \subseteq Told'
  BY ToldGrows
<1>2. InOrder(Told, execq) /\ InOrder(Told \cup Fills(execq), wire)
  BY DEF Calm, InTurn
<1>3. InOrder(Told', execq)
  BY <1>1, <1>2, InOrderGrows
<1>4. InOrder(Told' \cup Fills(execq), wire)
  <2>1. Told \cup Fills(execq) \subseteq Told' \cup Fills(execq)
    BY <1>1
  <2> QED BY <1>2, <2>1, InOrderGrows
<1>5. /\ \A o \in Orders : Deals(o, exec[o]) \subseteq Told' \cup Fills(execq) \cup Fills(wire)
      /\ seen' \subseteq Told'
  BY <1>1 DEF Calm, InTurn
<1>6. InTurn'
  <2>1. /\ InOrder(Told, execq)' = InOrder(Told', execq)
        /\ InOrder(Told \cup Fills(execq), wire)' = InOrder(Told' \cup Fills(execq), wire)
        /\ Fills(execq)' = Fills(execq) /\ Fills(wire)' = Fills(wire)
        /\ \A o \in Orders : Deals(o, exec[o])' = Deals(o, exec[o])
    BY DEF InOrder, Fills, Due, Earlier, Brought, Deals, DealOf
  <2> QED BY <1>3, <1>4, <1>5, <2>1 DEF InTurn
<1> QED BY <1>6 DEF Calm, PlainAnswer

\* The same of one row.
LEMMA CalmOne ==
  ASSUME Inv, Inv', CursorStep, Calm, UNCHANGED <<exec, link, wire, execq, proc>>,
         NEW o \in Orders, RowCalm(o)',
         \A p \in Orders : PlainAnswer(answer'[p]),
         \A p \in Orders \ {o} : /\ row'[p] = row[p] /\ booked'[p] = booked[p]
                                 /\ task'[p] = task[p],
         row[o].state = "closed" => row'[o].state = "closed",
         seen' \subseteq seen \cup Told'
  PROVE  Calm'
<1>1. \A p \in Orders \ {o} : RowCalm(p)'
  BY DEF Calm, RowCalm
<1>2. \A p \in Orders : /\ RowCalm(p)' /\ PlainAnswer(answer'[p])
                        /\ row[p].state = "closed" => row'[p].state = "closed"
  BY <1>1
<1> QED BY <1>2, CalmRows

\* No message is on its way and no cursor has moved.
LEMMA CalmInit == Init => Calm
<1> SUFFICES ASSUME Init PROVE Calm
  OBVIOUS
<1>1. InTurn
  BY DEF Init, InTurn, InOrder, Deals
<1> QED BY <1>1 DEF Init, Calm, RowCalm, PlainAnswer, NoAnswer, Answer, NoRow

\* A message the venue sends when all the deals before its own are known or on the way.
LEMMA CalmEmit ==
  ASSUME Inv, Calm,
         UNCHANGED <<row, task, answer, execq, seen, booked, proc, link>>,
         NEW m \in Msg, wire' = Append(wire, m), m.answer => PlainAnswer(m),
         Due(m) \subseteq Deals(m.ord, exec[m.ord]),
         \A o \in Orders : Deals(o, exec'[o]) \subseteq Deals(o, exec[o]) \cup Brought(m)
  PROVE  Calm'
<1>t. wire \in Seq(Msg) /\ m.ord \in Orders
  BY DEF Inv, TypeOK, Msg
<1>1. Due(m) \subseteq Told \cup Fills(execq) \cup Fills(wire)
  BY <1>t DEF Calm, InTurn
<1>2. /\ InOrder(Told \cup Fills(execq), Append(wire, m))
      /\ Fills(Append(wire, m)) = Fills(wire) \cup Brought(m)
  BY <1>t, <1>1, InOrderAppend DEF Calm, InTurn
<1>3. \A o \in Orders :
        Deals(o, exec'[o]) \subseteq Told \cup Fills(execq) \cup Fills(Append(wire, m))
  BY <1>2 DEF Calm, InTurn
<1>4. /\ InOrder(Told \cup Fills(execq), Append(wire, m))
           = InOrder(Told \cup Fills(execq), wire)'
      /\ InOrder(Told, execq)' = InOrder(Told, execq)
      /\ Told' = Told /\ Fills(execq)' = Fills(execq)
      /\ Fills(wire)' = Fills(Append(wire, m))
      /\ \A o \in Orders : Deals(o, exec[o])' = Deals(o, exec'[o])
  BY DEF InOrder, Fills, Due, Earlier, Brought, Deals, DealOf, Told
<1>5. InTurn'
  BY <1>2, <1>3, <1>4 DEF Calm, InTurn
<1>6. \A i \in DOMAIN wire' : wire'[i].answer => PlainAnswer(wire'[i])
  <2>1. \A i \in DOMAIN wire' : wire'[i] = m \/ (i \in DOMAIN wire /\ wire'[i] = wire[i])
    BY <1>t
  <2> QED BY <2>1 DEF Calm
<1> QED BY <1>5, <1>6 DEF Calm, PlainAnswer, RowCalm

\* The venue sends an order's deals one after the other, copies only of deals it made.
LEMMA CalmVenue ==
  ASSUME ~FillAnswers, Inv, Calm, NEW o \in Orders, Venue(o)
  PROVE  Calm'
<1>t. /\ link /\ exec \in [Orders -> Slices] /\ exec[o] \in Nat /\ exec[o] <= Qty /\ Qty \in Nat
      /\ (ord[o] = "working" => exec[o] < Qty) /\ Slices = 0 .. Qty
  BY NumbersTyped DEF Calm, Inv, IInv, VenueSound, Numbers, TypeOK, Slices
<1>u. UNCHANGED <<row, task, answer, execq, seen, booked, proc, link>>
  BY DEF Venue, VenueAnswers, VenueFills, VenueCancels, VenueReplays
<1>e. ASSUME NEW m \in Msg, wire' = Append(wire, m), exec' = exec, m.kind # "fill",
             m.answer => m.cum = 0
      PROVE  Calm'
  BY <1>u, <1>e, CalmEmit DEF Due, Brought, PlainAnswer
<1>1. CASE VenueAnswers(o)
  <2>1. PICK kind \in {"accepted", "rejected"} : exec' = exec /\ Emit(Answer(kind, o, 0))
    BY <1>1 DEF VenueAnswers
  <2>2. Answer(kind, o, 0) \in Msg
    BY <1>t DEF Answer, Msg
  <2> QED BY <1>t, <1>e, <2>1, <2>2 DEF Emit, Answer
<1>2. CASE VenueCancels(o)
  <2>1. exec' = exec /\ Emit(Push("cancelled", o, exec[o])) /\ Push("cancelled", o, exec[o]) \in Msg
    BY <1>2, <1>t DEF VenueCancels, Push, Msg
  <2> QED BY <1>t, <1>e, <2>1 DEF Emit, Push
<1>3. CASE VenueFills(o)
  <2>1. PICK m : m = Push("fill", o, exec[o] + 1)
    OBVIOUS
  <2>2. /\ m \in Msg /\ m.kind = "fill" /\ m.ord = o /\ m.cum = exec[o] + 1 /\ ~m.answer
        /\ wire' = Append(wire, m) /\ exec' = [exec EXCEPT ![o] = exec[o] + 1]
    BY <1>3, <1>t, <2>1 DEF VenueFills, Push, Msg, Emit
  <2>3. Due(m) \subseteq Deals(m.ord, exec[m.ord])
    BY <1>t, <2>2 DEF Due
  <2>4. ASSUME NEW p \in Orders PROVE Deals(p, exec'[p]) \subseteq Deals(p, exec[p]) \cup Brought(m)
    <3>1. CASE p # o
      BY <1>t, <2>2, <3>1
    <3>2. CASE p = o
      <4>1. Brought(m) = {<<o, exec[o] + 1>>} /\ exec'[o] = exec[o] + 1
        BY <1>t, <2>2 DEF Brought, DealOf
      <4>2. 1 .. exec[o] + 1 = (1 .. exec[o]) \cup {exec[o] + 1}
        BY <1>t
      <4> QED BY <3>2, <4>1, <4>2 DEF Deals
    <3> QED BY <3>1, <3>2
  <2> QED BY <1>u, <2>2, <2>3, <2>4, CalmEmit
<1>4. CASE VenueReplays(o)
  <2>1. PICK k \in 1 .. exec[o] : Emit(Push("fill", o, k))
    BY <1>4 DEF VenueReplays
  <2>2. PICK m : m = Push("fill", o, k)
    OBVIOUS
  <2>3. /\ m \in Msg /\ m.kind = "fill" /\ m.ord = o /\ m.cum = k /\ ~m.answer
        /\ wire' = Append(wire, m) /\ exec' = exec
    BY <1>4, <1>t, <2>1, <2>2 DEF VenueReplays, Push, Msg, Emit
  <2>4. Due(m) \subseteq Deals(m.ord, exec[m.ord])
    <3>1. 1 .. k - 1 \subseteq 1 .. exec[o]
      BY <1>t
    <3> QED BY <2>3, <3>1 DEF Due, Deals
  <2> QED BY <1>u, <2>3, <2>4, CalmEmit
<1> QED BY <1>1, <1>2, <1>3, <1>4 DEF Venue

\* A received message goes behind those that came before it.
LEMMA CalmReceive ==
  ASSUME Inv, Calm, Receive
  PROVE  Calm'
<1>t. wire \in Seq(Msg) /\ execq \in Seq(Msg) /\ wire # <<>> /\ task \in [Orders -> TaskStates]
      /\ answer \in [Orders -> Msg]
  BY FateTypes DEF Receive, Inv, TypeOK
<1>m. PICK m \in Msg : m = Head(wire)
  BY <1>t
<1>o. m.ord \in Orders
  BY DEF Msg
<1>u. /\ UNCHANGED <<ord, exec, link, row, seen, booked, proc>> /\ wire' = Tail(wire)
      /\ \/ /\ execq' = execq /\ m.answer /\ task[m.ord] = "waiting"
            /\ task' = [task EXCEPT ![m.ord] = "answered"]
            /\ answer' = [answer EXCEPT ![m.ord] = m]
         \/ execq' = Append(execq, m) /\ UNCHANGED <<task, answer>>
  BY <1>m DEF Receive
<1>1. /\ Tail(wire) \in Seq(Msg) /\ Due(m) \subseteq Told \cup Fills(execq)
      /\ InOrder(Told \cup Fills(execq) \cup Brought(m), Tail(wire))
      /\ Fills(wire) = Brought(m) \cup Fills(Tail(wire))
  BY <1>t, <1>m, InOrderTail DEF Calm, InTurn
<1>a. m.answer => PlainAnswer(m)
  <2>1. Head(wire) = wire[1] /\ 1 \in DOMAIN wire
    BY <1>t
  <2> QED BY <1>m, <2>1 DEF Calm
<1>2. /\ InOrder(Told, execq') /\ Fills(execq') = Fills(execq) \cup Brought(m)
  <2>1. CASE execq' = execq /\ m.answer
    <3>1. Brought(m) = {}
      BY <1>a, <2>1 DEF Brought, PlainAnswer
    <3> QED BY <2>1, <3>1 DEF Calm, InTurn
  <2>2. CASE execq' = Append(execq, m)
    BY <1>t, <1>1, <2>2, InOrderAppend DEF Calm, InTurn
  <2> QED BY <1>u, <2>1, <2>2
<1>3. InTurn'
  <2>1. InOrder(Told \cup Fills(execq'), wire')
    BY <1>u, <1>1, <1>2
  <2>2. \A o \in Orders : Deals(o, exec[o]) \subseteq Told \cup Fills(execq') \cup Fills(wire')
    BY <1>u, <1>1, <1>2 DEF Calm, InTurn
  <2>3. /\ InOrder(Told, execq)' = InOrder(Told, execq')
        /\ InOrder(Told \cup Fills(execq), wire)' = InOrder(Told \cup Fills(execq'), wire')
        /\ Fills(execq)' = Fills(execq') /\ Fills(wire)' = Fills(wire') /\ Told' = Told
        /\ \A o \in Orders : Deals(o, exec[o])' = Deals(o, exec[o])
    BY <1>u DEF InOrder, Fills, Due, Earlier, Brought, Deals, DealOf, Told
  <2> QED BY <1>u, <1>2, <2>1, <2>2, <2>3 DEF Calm, InTurn
<1>4. \A p \in Orders : PlainAnswer(answer'[p]) /\ RowCalm(p)'
  <2>1. \A p \in Orders : answer'[p] = answer[p] \/ (answer'[p] = m /\ m.answer)
    BY <1>t, <1>u
  <2>2. \A p \in Orders : task'[p] = task[p] \/ (task[p] # "done" /\ task'[p] # "done")
    BY <1>t, <1>u
  <2> QED BY <1>u, <1>a, <2>1, <2>2 DEF Calm, RowCalm
<1>5. \A i \in DOMAIN wire' : wire'[i].answer => PlainAnswer(wire'[i])
  <2>1. \A i \in DOMAIN wire' : i + 1 \in DOMAIN wire /\ wire'[i] = wire[i + 1]
    BY <1>t, <1>u
  <2> QED BY <2>1 DEF Calm
<1> QED BY <1>u, <1>3, <1>4, <1>5 DEF Calm, PlainAnswer

\* A dispatch answered without a fill leaves the cursor to the queue.
LEMMA CalmDispatch ==
  ASSUME Inv, Inv', CursorStep, Calm, NEW o \in Orders, DispatchStep(o)
  PROVE  Calm'
<1>t. /\ row \in [Orders -> Row] /\ row[o] \in Row /\ task \in [Orders -> TaskStates]
      /\ answer \in [Orders -> Msg] /\ row[o].filled \in Nat
      /\ RowCalm(o) /\ \A p \in Orders : PlainAnswer(answer[p])
  BY FateTypes, NumbersTyped DEF Inv, TypeOK, Calm, Numbers
<1>u. UNCHANGED <<exec, link, wire, proc, booked, seen>>
  BY DEF DispatchStep, Dispatch, DispatchTimesOut, DispatchAnswered, DispatchUnknown
<1>1. CASE Dispatch(o)
  <2>1. /\ row' = [row EXCEPT ![o] = [NoRow EXCEPT !.state = "submitted"]]
        /\ UNCHANGED <<answer, execq>> /\ task[o] \in {"idle", "refused"}
        /\ \A p \in Orders \ {o} : task'[p] = task[p]
    BY <1>1, <1>t DEF Dispatch
  <2>2. row[o].filled = 0 /\ row[o].state # "closed"
    BY <1>t, <2>1 DEF Inv, IInv, UnsentSound, VenueSound, CursorSound, RowCalm
  <2>3. /\ row'[o].filled = 0 /\ row'[o].missing = "no" /\ row'[o].state = "submitted"
        /\ ~row'[o].ref /\ \A p \in Orders \ {o} : row'[p] = row[p]
    BY <1>t, <2>1 DEF NoRow
  <2>4. RowCalm(o)'
    BY <1>t, <1>u, <2>2, <2>3 DEF RowCalm
  <2> QED BY <1>t, <1>u, <2>1, <2>2, <2>3, <2>4, CalmOne
<1>2. CASE DispatchTimesOut(o)
  <2>1. /\ UNCHANGED <<row, answer, execq>> /\ task[o] = "waiting"
        /\ task' = [task EXCEPT ![o] = "lost"]
    BY <1>2 DEF DispatchTimesOut
  <2>2. RowCalm(o)'
    BY <1>t, <1>u, <2>1 DEF RowCalm
  <2> QED BY <1>t, <1>u, <2>1, <2>2, CalmOne
<1>3. CASE DispatchAnswered(o) \/ DispatchUnknown(o)
  <2>1. /\ task' = [task EXCEPT ![o] = "done"] /\ execq' = execq /\ task[o] # "done"
        /\ \/ row' = [row EXCEPT ![o].state = IF Live(o) THEN "rejected" ELSE @]
           \/ row' = [row EXCEPT ![o].state = IF Live(o) THEN "unknown" ELSE @]
           \/ row' = [row EXCEPT ![o] = PersistEntry(row[o], answer[o])]
    BY <1>3, <1>t DEF DispatchAnswered, DispatchUnknown, PlainAnswer
  <2>2. \A p \in Orders : PlainAnswer(answer'[p])
    <3>1. \A p \in Orders : PlainAnswer(NoAnswer(p))
      BY DEF PlainAnswer, NoAnswer, Answer
    <3>2. \A p \in Orders : answer'[p] \in {answer[p], NoAnswer(p)}
      BY <1>3, <1>t DEF DispatchAnswered, DispatchUnknown
    <3> QED BY <1>t, <3>1, <3>2
  <2>3. /\ row'[o].filled = row[o].filled /\ row'[o].state # "closed"
        /\ row'[o].missing = row[o].missing
    <3>1. Larger(answer[o].cum, row[o].filled) = row[o].filled
      BY <1>t DEF PlainAnswer, Larger
    <3> DEFINE r == PersistEntry(row[o], answer[o])
    <3>2. r.filled = row[o].filled /\ r.state = "confirmed" /\ r.missing = row[o].missing
      BY <1>t, <3>1 DEF PersistEntry, Row
    <3>3. row[o].state # "closed"
      BY <1>t, <2>1 DEF RowCalm
    <3> HIDE DEF r
    <3>4. CASE row' = [row EXCEPT ![o] = r]
      BY <1>t, <3>2, <3>4
    <3>5. CASE \/ row' = [row EXCEPT ![o].state = IF Live(o) THEN "rejected" ELSE @]
               \/ row' = [row EXCEPT ![o].state = IF Live(o) THEN "unknown" ELSE @]
      BY <1>t, <3>3, <3>5 DEF Row
    <3> QED BY <2>1, <3>4, <3>5 DEF r
  <2>4. task'[o] = "done"
    BY <1>t, <2>1
  <2>5. RowCalm(o)'
    BY <1>t, <1>u, <2>3, <2>4 DEF RowCalm
  <2>6. \A p \in Orders \ {o} : row'[p] = row[p] /\ task'[p] = task[p]
    <3> DEFINE r == PersistEntry(row[o], answer[o])
    <3> HIDE DEF r
    <3>1. \/ row' = [row EXCEPT ![o].state = IF Live(o) THEN "rejected" ELSE @]
          \/ row' = [row EXCEPT ![o].state = IF Live(o) THEN "unknown" ELSE @]
          \/ row' = [row EXCEPT ![o] = r]
      BY <2>1 DEF r
    <3> QED BY <1>t, <2>1, <3>1
  <2>7. row[o].state # "closed"
    BY <1>t, <2>1 DEF RowCalm
  <2> QED BY <1>u, <2>1, <2>2, <2>5, <2>6, <2>7, CalmOne
<1> QED BY <1>1, <1>2, <1>3 DEF DispatchStep

\* The next fill of a queue is the next slice of its order: the cursor moves by what is booked.
LEMMA CalmTranslate ==
  ASSUME Inv, Inv', CursorStep, Calm, Translate
  PROVE  Calm'
<1>t. /\ wire \in Seq(Msg) /\ execq \in Seq(Msg) /\ execq # <<>> /\ row \in [Orders -> Row]
      /\ booked \in [Orders -> Nat]
  BY FateTypes DEF Translate, Inv, TypeOK
<1>m. PICK m \in Msg : m = Head(execq)
  BY <1>t
<1>o. PICK o \in Orders : o = m.ord
  BY FateTypes
<1>u. /\ UNCHANGED <<exec, link, wire, task, answer, proc>> /\ execq' = Tail(execq)
      /\ \/ m.kind \in {"accepted", "rejected"} /\ UNCHANGED <<row, seen, booked>>
         \/ m.kind = "cancelled" /\ TranslateCancel(m)
         \/ /\ m.kind = "fill"
            /\ \/ DealOf(m) \in seen /\ UNCHANGED <<row, seen, booked>>
               \/ row[o].ref /\ TranslateKnownFill(m)
               \/ ~row[o].ref /\ Live(o) /\ TranslateParkedFill(m)
               \/ ~row[o].ref /\ ~Live(o) /\ TranslateExternalFill(m)
  BY <1>m, <1>o DEF Translate
<1>1. /\ Due(m) \subseteq Told /\ Fills(execq) = Brought(m) \cup Fills(Tail(execq))
      /\ InOrder(Told \cup Brought(m), Tail(execq))
      /\ InOrder(Told \cup Fills(execq), wire) /\ seen \subseteq Told
  BY <1>t, <1>m, InOrderTail DEF Calm, InTurn
<1>n. /\ row[o] \in Row /\ row[o].filled \in Nat /\ exec[o] \in Nat /\ booked[o] \in Nat
      /\ RowCalm(o) /\ m.cum \in Slices /\ Slices = 0 .. Qty /\ Qty \in Nat
      /\ Deals(o, m.cum - 1) \subseteq Told \/ m.kind # "fill"
      /\ m.kind = "fill" => m.cum >= 1 /\ m.cum <= exec[o]
  <2>1. m.kind = "fill" => Deals(o, m.cum - 1) \subseteq Told
    BY <1>o, <1>1 DEF Due
  <2>2. SoundMsg(m, exec)
    BY <1>t, <1>m DEF Inv, IInv, ReportsSound, SoundQueue
  <2> QED BY <1>t, <1>o, <2>1, <2>2, FateTypes, NumbersTyped
          DEF Inv, Numbers, Calm, SoundMsg, Slices
<1>2. /\ RowCalm(o)' /\ Brought(m) \subseteq Told' \cup seen /\ seen' \subseteq seen \cup Brought(m)
      /\ row[o].state = "closed" => row'[o].state = "closed"
      /\ \A p \in Orders \ {o} : row'[p] = row[p] /\ booked'[p] = booked[p]
  <2>1. CASE UNCHANGED <<row, seen, booked>> /\ (m.kind # "fill" \/ DealOf(m) \in seen)
    BY <1>n, <1>u, <2>1 DEF RowCalm, Brought
  <2>2. CASE m.kind = "cancelled" /\ TranslateCancel(m)
    <3>1. /\ row' = [row EXCEPT ![o] = IF row[o].ref /\ row[o].filled = 0
                                       THEN Closed(row[o]) ELSE row[o]]
          /\ UNCHANGED <<seen, booked>>
      BY <1>o, <2>2 DEF TranslateCancel
    <3>2. CASE row[o].ref /\ row[o].filled = 0
      <4>1. row'[o] = Closed(row[o]) /\ task[o] = "done"
        BY <1>t, <1>n, <3>1, <3>2 DEF RowCalm
      <4>2. /\ row'[o].filled = row[o].filled /\ row'[o].state = "closed" /\ ~row'[o].ref
        BY <1>n, <4>1 DEF Closed, Row
      <4> QED BY <1>t, <1>n, <1>u, <2>2, <3>1, <4>1, <4>2 DEF RowCalm, Brought
    <3>3. CASE ~(row[o].ref /\ row[o].filled = 0)
      <4>1. row' = row
        BY <1>t, <3>1, <3>3
      <4> QED BY <1>n, <1>u, <2>2, <3>1, <4>1 DEF RowCalm, Brought
    <3> QED BY <3>2, <3>3
  <2>k. m.kind = "fill" => Brought(m) = {<<o, m.cum>>} /\ DealOf(m) = <<o, m.cum>>
    BY <1>o DEF Brought, DealOf
  <2>d. ASSUME m.cum <= row'[o].filled \/ row'[o].state = "closed" PROVE <<o, m.cum>> \in Told'
    BY <1>n, <2>d DEF Told
  <2>3. CASE m.kind = "fill" /\ row[o].ref /\ TranslateKnownFill(m)
    <3>1. row[o].state # "closed" /\ seen' = seen \cup Brought(m)
      BY <1>o, <1>n, <2>3, <2>k DEF RowCalm, TranslateKnownFill
    <3>2. CASE m.cum <= row[o].filled
      <4>1. UNCHANGED <<row, booked>>
        BY <1>o, <2>3, <3>2 DEF TranslateKnownFill
      <4>2. <<o, m.cum>> \in Told'
        BY <2>d, <3>2, <4>1
      <4> QED BY <1>n, <1>u, <2>3, <2>k, <3>1, <4>1, <4>2 DEF RowCalm
    <3>3. CASE ~(m.cum <= row[o].filled)
      <4> DEFINE r == [row[o] EXCEPT !.filled = m.cum, !.pos = TRUE]
      <4>1. /\ row' = [row EXCEPT ![o] = r]
            /\ booked' = [booked EXCEPT ![o] = booked[o] + 1]
        BY <1>o, <2>3, <3>3 DEF TranslateKnownFill
      <4>2. /\ r.filled = m.cum /\ r.pos /\ r.ref = row[o].ref /\ r.state = row[o].state
            /\ r.missing = row[o].missing
        BY <1>n DEF Row
      <4> HIDE DEF r
      <4>3. m.cum = row[o].filled + 1
        <5>1. m.cum - 1 \in Slices
          BY <1>n, <2>3
        <5>2. m.cum - 1 <= row[o].filled
          BY <1>n, <2>3, <3>1, <5>1, ToldDeals
        <5> QED BY <1>n, <3>3, <5>2
      <4>4. /\ row'[o] = r /\ booked'[o] = booked[o] + 1
            /\ \A p \in Orders \ {o} : row'[p] = row[p] /\ booked'[p] = booked[p]
        BY <1>t, <4>1
      <4>5. RowCalm(o)'
        BY <1>n, <1>u, <2>3, <4>2, <4>3, <4>4 DEF RowCalm
      <4>6. <<o, m.cum>> \in Told'
        BY <1>n, <2>d, <4>2, <4>4
      <4> QED BY <2>3, <2>k, <3>1, <4>4, <4>5, <4>6
    <3> QED BY <3>2, <3>3
  <2>4. CASE m.kind = "fill" /\ ~row[o].ref /\ Live(o) /\ TranslateParkedFill(m)
    <3> DEFINE r == [row[o] EXCEPT !.state = "confirmed", !.filled = m.cum,
                                   !.ref = TRUE, !.pos = TRUE]
    <3>1. /\ row' = [row EXCEPT ![o] = r] /\ seen' = seen \cup Brought(m)
          /\ booked' = [booked EXCEPT ![o] = booked[o] + 1]
      BY <1>o, <2>4, <2>k DEF TranslateParkedFill
    <3>2. /\ r.filled = m.cum /\ r.pos /\ r.ref /\ r.state = "confirmed"
          /\ r.missing = row[o].missing
      BY <1>n DEF Row
    <3> HIDE DEF r
    <3>3. row[o].state # "closed" /\ row[o].filled = 0
      BY <2>4 DEF Live, Inv, IInv, CursorSound
    <3>4. m.cum = 1
      <4>1. m.cum - 1 \in Slices
        BY <1>n, <2>4
      <4>2. m.cum - 1 <= row[o].filled
        BY <1>n, <2>4, <3>3, <4>1, ToldDeals
      <4> QED BY <1>n, <2>4, <3>3, <4>2
    <3>5. /\ row'[o] = r /\ booked'[o] = booked[o] + 1
          /\ \A p \in Orders \ {o} : row'[p] = row[p] /\ booked'[p] = booked[p]
      BY <1>t, <3>1
    <3>6. RowCalm(o)'
      BY <1>n, <1>u, <3>2, <3>3, <3>4, <3>5 DEF RowCalm
    <3>7. <<o, m.cum>> \in Told'
      BY <1>n, <2>d, <3>2, <3>5
    <3> QED BY <2>4, <2>k, <3>1, <3>3, <3>5, <3>6, <3>7
  <2>5. CASE m.kind = "fill" /\ ~row[o].ref /\ ~Live(o) /\ TranslateExternalFill(m)
    <3>1. UNCHANGED <<row, booked>> /\ seen' = seen \cup Brought(m)
      BY <2>5, <2>k DEF TranslateExternalFill
    <3>2. row[o].state = "closed"
      <4>1. row[o].state # "none"
        <5>1. exec[o] # 0
          BY <1>n, <2>5
        <5> QED BY <5>1 DEF Inv, IInv, UnsentSound, VenueSound
      <4> QED BY <2>5, <4>1 DEF Live
    <3>3. <<o, m.cum>> \in Told'
      BY <2>d, <3>1, <3>2
    <3> QED BY <1>n, <1>u, <2>5, <2>k, <3>1, <3>3 DEF RowCalm
  <2> QED BY <1>u, <2>1, <2>2, <2>3, <2>4, <2>5
<1>3. \A p \in Orders : /\ RowCalm(p)' /\ PlainAnswer(answer'[p])
                        /\ row[p].state = "closed" => row'[p].state = "closed"
  BY <1>u, <1>2 DEF Calm, RowCalm
<1>4. Told \subseteq Told' /\ Brought(m) \subseteq Told' /\ seen' \subseteq Told'
  <2>1. Told \subseteq Told'
    BY <1>3, ToldGrows
  <2> QED BY <1>1, <1>2, <2>1
<1>5. /\ InOrder(Told', Tail(execq)) /\ InOrder(Told' \cup Fills(Tail(execq)), wire)
      /\ \A p \in Orders :
           Deals(p, exec[p]) \subseteq Told' \cup Fills(Tail(execq)) \cup Fills(wire)
  <2>1. /\ Told \cup Brought(m) \subseteq Told'
        /\ Told \cup Fills(execq) \subseteq Told' \cup Fills(Tail(execq))
    BY <1>1, <1>4
  <2>2. InOrder(Told', Tail(execq))
    BY <1>1, <2>1, InOrderGrows
  <2>3. InOrder(Told' \cup Fills(Tail(execq)), wire)
    BY <1>1, <2>1, InOrderGrows
  <2> QED BY <2>1, <2>2, <2>3 DEF Calm, InTurn
<1>6. InTurn'
  <2>1. /\ InOrder(Told, execq)' = InOrder(Told', Tail(execq))
        /\ InOrder(Told \cup Fills(execq), wire)' = InOrder(Told' \cup Fills(Tail(execq)), wire)
        /\ Fills(execq)' = Fills(Tail(execq)) /\ Fills(wire)' = Fills(wire)
        /\ \A p \in Orders : Deals(p, exec[p])' = Deals(p, exec[p])
    BY <1>u DEF InOrder, Fills, Due, Earlier, Brought, Deals, DealOf
  <2> QED BY <1>4, <1>5, <2>1 DEF InTurn
<1> QED BY <1>u, <1>3, <1>6 DEF Calm, PlainAnswer

\* A pass books what it moves the cursor by, and marks only deals the cursor counts.
LEMMA CalmPassRow ==
  ASSUME Inv, Inv', CursorStep, Calm, NEW o \in Orders, PassRow(o)
  PROVE  Calm'
<1>r. /\ row \in [Orders -> Row] /\ booked \in [Orders -> Nat] /\ row[o] \in Row
      /\ row[o].filled \in Nat /\ booked[o] \in Nat /\ exec[o] \in Nat /\ RowCalm(o)
      /\ exec[o] <= Qty /\ Slices = 0 .. Qty /\ Qty \in Nat
      /\ snap[o].exec \in Nat /\ snap[o].exec <= Qty
      /\ \A p \in Orders : PlainAnswer(answer[p])
  BY FateTypes, NumbersTyped DEF Calm, Inv, TypeOK, Numbers, Slices
<1>u. /\ UNCHANGED <<exec, link, wire, execq, task, answer, proc>>
      /\ pass = "rows" /\ o \in todo
  BY DEF PassRow
<1>0. row[o].ref /\ row[o].state # "closed" /\ seen \subseteq Told
  BY <1>u, <1>r DEF Inv, IInv, WorklistSound, RowCalm, Calm, InTurn
<1>f. ASSUME NEW r, row' = [row EXCEPT ![o] = r], NEW b \in Nat,
             booked' = [booked EXCEPT ![o] = b], b = r.filled,
             r.state # "closed", r.missing # "no" => task[o] = "done",
             row[o].pos => r.pos, r.filled >= row[o].filled,
             NEW k \in Slices, k <= r.filled, seen' \subseteq seen \cup Deals(o, k)
      PROVE  Calm'
  <2>1. /\ row'[o] = r /\ booked'[o] = b
        /\ \A p \in Orders \ {o} : row'[p] = row[p] /\ booked'[p] = booked[p]
    BY <1>r, <1>f
  <2>2. RowCalm(o)'
    <3>1. row[o].ref /\ task[o] # "done" => r.pos /\ r.filled > 0
      BY <1>r, <1>f DEF RowCalm
    <3> QED BY <1>0, <1>u, <1>f, <2>1, <3>1 DEF RowCalm
  <2>3. seen' \subseteq seen \cup Told'
    <3>1. Deals(o, k) \subseteq Told'
      <4>1. \A j \in 1 .. k : j \in Slices /\ j <= k
        BY <1>r
      <4>2. \A j \in 1 .. k : j <= row'[o].filled
        BY <1>r, <1>f, <2>1
      <4> QED BY <4>1, <4>2 DEF Deals, Told
    <3> QED BY <1>f, <3>1
  <2> QED BY <1>0, <1>u, <1>r, <2>1, <2>2, <2>3, CalmOne
<1>z. Deals(o, 0) = {} /\ 0 \in Slices /\ 0 <= row[o].filled
  BY <1>r DEF Deals
<1>g. ASSUME NEW r, row' = [row EXCEPT ![o] = r], UNCHANGED <<booked, seen>>,
             r.filled = row[o].filled, r.pos = row[o].pos, r.state = row[o].state,
             r.missing # "no" => task[o] = "done"
      PROVE  Calm'
  <2>1. booked' = [booked EXCEPT ![o] = booked[o]] /\ booked[o] = r.filled
    BY <1>r, <1>g DEF RowCalm
  <2>2. /\ r.state # "closed" /\ (row[o].pos => r.pos) /\ r.filled >= row[o].filled
        /\ 0 <= r.filled /\ seen' \subseteq seen \cup Deals(o, 0)
    BY <1>r, <1>0, <1>g
  <2> QED BY <1>r, <1>z, <1>g, <1>f, <2>1, <2>2
<1>h. PICK listed \in HistoryReads(o) :
        UNCHANGED <<row, seen, booked>> \/ ReconcileWorking(o, listed)
          \/ ReconcileVanished(o, listed)
  BY DEF PassRow
<1>k. (listed \in Slices /\ listed <= exec[o]) \/ listed = Unread
  BY <1>r DEF HistoryReads
<1>1. CASE UNCHANGED <<row, seen, booked>>
  <2>1. row' = [row EXCEPT ![o] = row[o]]
    BY <1>r, <1>1
  <2> QED BY <1>r, <1>1, <1>g, <2>1 DEF RowCalm
<1>2. CASE ReconcileWorking(o, listed)
  <2>1. CASE snap[o].exec > row[o].filled /\ snap[o].exec < Qty
    <3> DEFINE r == [row[o] EXCEPT !.missing = "no", !.state = "confirmed", !.pos = TRUE,
                                   !.filled = snap[o].exec]
               b == booked[o] + (snap[o].exec - row[o].filled)
    <3>1. /\ row' = [row EXCEPT ![o] = r] /\ booked' = [booked EXCEPT ![o] = b]
          /\ seen' \in {seen, seen \cup Deals(o, snap[o].exec)}
      BY <1>2, <2>1 DEF ReconcileWorking
    <3>2. /\ r.filled = snap[o].exec /\ r.pos /\ r.state = "confirmed" /\ r.missing = "no"
      BY <1>r DEF Row
    <3>3. b = snap[o].exec /\ b \in Nat
      BY <1>r DEF RowCalm
    <3> HIDE DEF r, b
    <3>4. snap[o].exec \in Slices /\ r.filled >= row[o].filled /\ snap[o].exec <= r.filled
      BY <1>r, <2>1, <3>2
    <3>5. r.state # "closed" /\ r.missing = "no" /\ b = r.filled
          /\ seen' \subseteq seen \cup Deals(o, snap[o].exec)
      BY <3>1, <3>2, <3>3
    <3> QED BY <1>f, <3>1, <3>2, <3>3, <3>4, <3>5
  <2>2. CASE ~(snap[o].exec > row[o].filled /\ snap[o].exec < Qty)
    <3> DEFINE r == [row[o] EXCEPT !.missing = "no"]
    <3>1. row' = [row EXCEPT ![o] = r] /\ UNCHANGED <<booked, seen>>
      BY <1>2, <2>2 DEF ReconcileWorking
    <3>2. /\ r.filled = row[o].filled /\ r.pos = row[o].pos /\ r.missing = "no"
          /\ r.state = row[o].state
      BY <1>r DEF Row
    <3> HIDE DEF r
    <3> QED BY <1>g, <3>1, <3>2
  <2> QED BY <2>1, <2>2
<1>3. CASE ReconcileVanished(o, listed)
  <2>1. CASE listed > 0 /\ PromoteFromDeal(o, listed)
    <3>0. listed \in Slices /\ listed \in Nat /\ listed >= 1
      BY <1>r, <1>k, <2>1 DEF Unread
    <3> DEFINE cum == Larger(row[o].filled, listed)
               fresh == Deals(o, listed) \ seen
               r == [row[o] EXCEPT !.missing = "no", !.pos = TRUE, !.filled = cum,
                       !.state = IF cum > row[o].filled \/ ~row[o].pos
                                 THEN "confirmed" ELSE @]
               b == IF fresh = {} THEN booked[o] ELSE booked[o] + (cum - row[o].filled)
    <3>1. /\ row' = [row EXCEPT ![o] = r] /\ seen' = seen \cup fresh
          /\ booked' = [booked EXCEPT ![o] = b]
      BY <2>1 DEF PromoteFromDeal
    <3>2. /\ cum \in {row[o].filled, listed} /\ cum \in Nat /\ cum >= row[o].filled
          /\ cum >= listed
      BY <1>r, <3>0 DEF Larger
    <3> HIDE DEF cum
    <3>3. /\ r.filled = cum /\ r.pos /\ r.state \in {row[o].state, "confirmed"}
          /\ r.missing = "no"
      BY <1>r DEF Row
    <3>4. seen' \subseteq seen \cup Deals(o, listed)
      BY <3>1
    <3>5. fresh = {} => cum = row[o].filled
      <4>1. ASSUME fresh = {}, cum # row[o].filled PROVE FALSE
        <5>1. cum = listed /\ ~(listed <= row[o].filled)
          BY <1>r, <3>0, <3>2, <4>1
        <5>2. Deals(o, listed) \subseteq Told
          BY <1>0, <4>1
        <5>3. listed <= row[o].filled
          BY <1>0, <3>0, <5>2, ToldDeals
        <5> QED BY <5>1, <5>3
      <4> QED BY <4>1
    <3> HIDE DEF r, fresh
    <3>6. b = cum /\ b \in Nat
      <4>1. booked[o] = row[o].filled
        BY <1>r DEF RowCalm
      <4>2. CASE fresh = {}
        BY <1>r, <3>2, <3>5, <4>1, <4>2
      <4>3. CASE fresh # {}
        <5>1. b = booked[o] + (cum - row[o].filled)
          BY <4>3
        <5> QED BY <1>r, <3>2, <4>1, <5>1
      <4> QED BY <4>2, <4>3
    <3> HIDE DEF b
    <3>7. r.state # "closed" /\ b = r.filled /\ r.filled >= row[o].filled /\ listed <= r.filled
      BY <1>0, <3>2, <3>3, <3>6, <1>r, <3>0
    <3> QED BY <1>f, <3>0, <3>1, <3>3, <3>4, <3>6, <3>7
  <2>2. CASE UNCHANGED <<row, seen, booked>>
    BY <1>1, <2>2
  <2>3. CASE /\ row' = [row EXCEPT ![o].missing =
                  IF ~row[o].pos /\ row[o].filled = 0 /\ @ = "no"
                  THEN "fresh" ELSE @]
             /\ UNCHANGED <<seen, booked>>
    <3> DEFINE r == [row[o] EXCEPT !.missing =
                  IF ~row[o].pos /\ row[o].filled = 0 /\ @ = "no"
                  THEN "fresh" ELSE @]
    <3>1. row' = [row EXCEPT ![o] = r]
      BY <2>3
    <3>2. /\ r.filled = row[o].filled /\ r.pos = row[o].pos /\ r.state = row[o].state
          /\ r.missing = row[o].missing \/ ~row[o].pos
      BY <1>r DEF Row
    <3> HIDE DEF r
    <3>3. r.missing # "no" => task[o] = "done"
      BY <1>r, <1>0, <3>2 DEF RowCalm
    <3> QED BY <1>g, <2>3, <3>1, <3>2, <3>3
  <2> QED BY <1>3, <2>1, <2>2, <2>3 DEF ReconcileVanished
<1> QED BY <1>h, <1>1, <1>2, <1>3

\* A pass stamps and retires rows of ended dispatches only, and books what its cursors say.
LEMMA CalmPass ==
  ASSUME Inv, Inv', CursorStep, Calm, PassStep
  PROVE  Calm'
<1>r. /\ row \in [Orders -> Row]
      /\ \A p \in Orders : RowCalm(p) /\ PlainAnswer(answer[p])
  BY FateTypes DEF Calm
<1>1. CASE PassBegins \/ PassCollects
  <2>1. UNCHANGED <<exec, link, wire, execq, proc, row, task, answer, seen, booked>>
    BY <1>1 DEF PassBegins, PassCollects
  <2>2. \A p \in Orders : RowCalm(p)'
    BY <1>r, <2>1 DEF RowCalm
  <2> QED BY <1>r, <2>1, <2>2, CalmRows
<1>2. CASE PassPresence \/ PassEnds
  <2>1. UNCHANGED <<exec, link, wire, execq, proc, task, answer, seen, booked>>
    BY <1>2 DEF PassPresence, PassEnds
  <2>2. ASSUME NEW p \in Orders
        PROVE  /\ row'[p].filled = row[p].filled /\ row'[p].ref = row[p].ref
               /\ row'[p].state = row[p].state /\ row'[p].pos = row[p].pos
               /\ row'[p].missing # "no" => row[p].missing # "no"
    BY <1>r, <1>2 DEF PassPresence, PassEnds, Row
  <2>3. \A p \in Orders : RowCalm(p)'
    BY <1>r, <2>1, <2>2 DEF RowCalm
  <2> QED BY <1>r, <2>1, <2>2, <2>3, CalmRows
<1>3. ASSUME NEW o \in Orders, GraceExpires(o) PROVE Calm'
  <2>1. /\ UNCHANGED <<exec, link, wire, execq, proc, task, answer, seen, booked>>
        /\ row[o].missing = "stamped" /\ Live(o)
    BY <1>3 DEF GraceExpires
  <2>2. PICK r \in {Closed(row[o]), [row[o] EXCEPT !.missing = "no"]} :
          row' = [row EXCEPT ![o] = r]
    BY <1>3 DEF GraceExpires
  <2>3. /\ r.filled = row[o].filled /\ r.missing = "no" /\ r.pos = row[o].pos
        /\ \/ r.state = "closed" /\ ~r.ref
           \/ r.state = row[o].state /\ r.ref = row[o].ref
    BY <1>r, <2>2 DEF Closed, Row
  <2>4. row'[o] = r /\ \A p \in Orders \ {o} : row'[p] = row[p]
    BY <1>r, <2>2
  <2>5. RowCalm(o)' /\ row[o].state # "closed"
    BY <1>r, <2>1, <2>3, <2>4 DEF RowCalm, Live
  <2> QED BY <1>r, <2>1, <2>4, <2>5, CalmOne
<1> QED BY <1>1, <1>2, <1>3, CalmPassRow DEF PassStep

\* Every step keeps the calm, where nothing is lost and no answer is a fill.
LEMMA CalmStep ==
  ASSUME ~FillAnswers, MaxDrops = 0, MaxCrashes = 0, Inv, Calm, [Next]_vars
  PROVE  Calm'
<1>1. Inv' /\ CursorStep /\ proc = "running" /\ link
  BY NextStep DEF StepSound, Calm
<1>2. ~LinkDrops /\ ~Crash
  <2>1. drops \in 0 .. 0 /\ crashes \in 0 .. 0
    BY DEF Inv, TypeOK
  <2>2. drops = 0 /\ crashes = 0
    BY <2>1
  <2> QED BY <2>2 DEF LinkDrops, Crash
<1>3. ~Reconnect /\ ~StartStep
  BY <1>1 DEF Reconnect, StartStep, Connect, RecoveryEnds, Adopt, RecoverRow
<1>4. CASE UNCHANGED vars
  <2>1. UNCHANGED <<exec, link, wire, execq, proc, row, task, answer, seen, booked>>
    BY <1>4 DEF vars
  <2>2. \A p \in Orders : RowCalm(p)' /\ PlainAnswer(answer'[p])
    BY <2>1 DEF Calm, RowCalm
  <2> QED BY <1>1, <2>1, <2>2, CalmRows
<1> QED BY <1>1, <1>2, <1>3, <1>4, CalmVenue, CalmReceive, CalmDispatch, CalmTranslate,
           CalmPass DEF Next

\* Where no connection is lost, the process does not crash and no dispatch is answered with a
\* fill, the pushes and the passes hand the engine every slice the cursor counts, however
\* many slices an order has, copies it gets and deals the history lists late.
THEOREM NoFillSkippedHolds ==
  ASSUME ~FillAnswers, MaxDrops = 0, MaxCrashes = 0
  PROVE  Spec => []NoFillSkipped
<1>1. Init => Calm
  BY CalmInit
<1>2. Inv /\ Calm /\ [Next]_vars => Calm'
  BY CalmStep
<1>3. Inv /\ Calm => NoFillSkipped
  <2> SUFFICES ASSUME Inv, Calm, NEW o \in Orders
               PROVE  Smaller(row[o].filled, exec[o]) <= booked[o]
    BY DEF NoFillSkipped
  <2>1. /\ booked[o] = row[o].filled /\ row[o].filled \in Nat /\ exec[o] \in Nat
    BY NumbersTyped DEF Calm, RowCalm, Inv, Numbers
  <2> QED BY <2>1 DEF Smaller
<1> QED BY <1>1, <1>2, <1>3, Invariance, PTL DEF Spec

=============================================================================
