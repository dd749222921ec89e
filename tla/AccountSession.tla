--------------------------- MODULE AccountSession ---------------------------
(***************************************************************************)
(* One client's account session: order writes on the live connection, the  *)
(* recovery of a session the venue drops while the socket stays up, and    *)
(* the reconnect.                                                          *)
(*                                                                         *)
(* A write that is answered with a session loss re-wins the session under  *)
(* the re-auth lock and is sent again; the generation, read when the write *)
(* was issued, lets a burst of losers share one re-auth.  The venue also   *)
(* pushes a loss, and one background task recovers from it.  A recovery    *)
(* that fails or overruns its budget closes the live socket, and the       *)
(* runner reconnects.                                                      *)
(***************************************************************************)
EXTENDS Naturals, Sequences

CONSTANTS Requests,     \* order writes that may be under way at once
          Push,         \* the background task of _schedule_reauth
          NoOne,        \* no caller
          MaxConns,     \* bound: connections
          MaxLosses,    \* bound: sessions the venue drops
          MaxOverruns   \* bound: recoveries cut off by _REAUTH_TIMEOUT

Callers == Requests \cup {Push}

ASSUME CallerAssumption == Push \notin Requests /\ NoOne \notin Callers
ASSUME BoundAssumption ==
  MaxConns \in Nat \ {0} /\ MaxLosses \in Nat /\ MaxOverruns \in Nat

VARIABLES
  cur,          \* the number of the live connection
  open,         \* is its socket up
  attached,     \* _wire is not None
  ready,        \* _live_account_id is known and the event router runs
  app, acct,    \* venue: the application and the account are authorized on it
  tokenOk,      \* venue: it accepts the access token in use
  inbox,        \* replies on their way to callers and pushes, to NoOne, in order
  gen,          \* _reauth_generation
  lock,         \* holder of _reauth_lock
  pc,           \* where each caller is
  on,           \* the connection it uses
  seen,         \* the generation it read when it issued its write
  plan,         \* the requests its recovery has still to make
  mode,         \* _reauth_account's reauth_app and force_refresh; is it a fallback
  quarantined,  \* venue writes are forbidden
  executed,     \* venue: how often the write was executed
  outcome,      \* what the caller was told of the write's execution
  losses, overruns

connVars == <<cur, open, attached, ready>>
venueVars == <<app, acct, tokenOk>>
reauthVars == <<gen, lock, plan, mode>>
writeVars == <<seen, quarantined, executed, outcome>>
vars == <<connVars, venueVars, inbox, reauthVars, pc, on, writeVars, losses, overruns>>

NoMode == [app |-> FALSE, force |-> FALSE, fallback |-> FALSE]

Init ==
  /\ cur = 1 /\ open = TRUE /\ attached = TRUE /\ ready = TRUE
  /\ app = TRUE /\ acct = TRUE /\ tokenOk = TRUE
  /\ inbox = <<>>
  /\ gen = 0 /\ lock = NoOne
  /\ pc = [c \in Callers |-> "idle"]
  /\ on = [c \in Callers |-> 0]
  /\ seen = [r \in Requests |-> 0]
  /\ plan = [c \in Callers |-> <<>>]
  /\ mode = [c \in Callers |-> NoMode]
  /\ quarantined = FALSE
  /\ executed = [r \in Requests |-> 0]
  /\ outcome = [r \in Requests |-> "none"]
  /\ losses = 0 /\ overruns = 0

\* The connection the caller's request went out on is still up.
Alive(c) == open /\ on[c] = cur

Goes(c, where) == pc' = [pc EXCEPT ![c] = where]

\* The caller's locals are gone with its call.
Ends(c) ==
  /\ Goes(c, "idle")
  /\ on' = [on EXCEPT ![c] = 0]
  /\ seen' = [r \in Requests |-> IF r = c THEN 0 ELSE seen[r]]

\* The write is over and its caller is told so.
Tells(r, what) ==
  /\ Ends(r)
  /\ outcome' = [outcome EXCEPT ![r] = what]

-----------------------------------------------------------------------------
(* The venue *)

Reply(c, what) == inbox' = Append(inbox, [to |-> c, what |-> what])

\* A write is executed, or refused by the loss of the session.
VenueHandles(r) ==
  /\ r \in Requests /\ pc[r] \in {"sent", "resent"} /\ Alive(r)
  /\ Goes(r, IF pc[r] = "sent" THEN "answered" ELSE "reanswered")
  /\ \/ /\ app /\ acct
        /\ executed' = [executed EXCEPT ![r] = @ + 1]
        /\ Reply(r, "ok")
     \/ /\ ~app
        /\ Reply(r, "client") /\ UNCHANGED executed
     \/ /\ app /\ ~acct
        /\ \E loss \in {"account"} \cup (IF tokenOk THEN {} ELSE {"token"}) : Reply(r, loss)
        /\ UNCHANGED executed
  /\ UNCHANGED <<connVars, venueVars, reauthVars, on, seen, quarantined, outcome,
                 losses, overruns>>

\* ProtoOAApplicationAuthReq, ProtoOARefreshTokenReq, ProtoOAAccountAuthReq.  A
\* second application auth of a channel is an error; a second account auth is
\* answered ALREADY_LOGGED_IN, which _send_account_auth takes for success.
VenueAnswers(c) ==
  LET asked == Head(plan[c]) IN
  /\ pc[c] = "asking" /\ Alive(c)
  /\ Goes(c, "told")
  /\ \/ /\ asked = "app"
        /\ app' = TRUE
        /\ Reply(c, IF app THEN "already" ELSE "ok")
        /\ UNCHANGED <<acct, tokenOk>>
     \/ /\ asked \in {"refresh", "auth"} /\ ~app
        /\ Reply(c, "client") /\ UNCHANGED venueVars
     \/ /\ asked = "refresh" /\ app
        /\ \/ tokenOk' = TRUE /\ Reply(c, "ok")
           \/ Reply(c, "refused") /\ UNCHANGED tokenOk
        /\ UNCHANGED <<app, acct>>
     \/ /\ asked = "auth" /\ app
        /\ acct' = (acct \/ tokenOk)
        /\ Reply(c, IF acct \/ tokenOk THEN "ok" ELSE "token")
        /\ UNCHANGED <<app, tokenOk>>
  /\ UNCHANGED <<connVars, reauthVars, on, writeVars, losses, overruns>>

\* The venue drops the account's session, with or without a push; a lost client
\* channel or a voided token takes the account's session with it.
VenueDrops ==
  /\ open /\ ready /\ acct /\ losses < MaxLosses
  /\ losses' = losses + 1
  /\ acct' = FALSE
  /\ \E loss \in {"account", "client", "token"} :
       /\ app' = (loss # "client")
       /\ tokenOk' = (tokenOk /\ loss # "token")
       /\ Reply(NoOne, loss) \/ UNCHANGED inbox
  /\ UNCHANGED <<connVars, reauthVars, pc, on, writeVars, overruns>>

-----------------------------------------------------------------------------
(* The connection *)

Down == open' = FALSE /\ app' = FALSE /\ acct' = FALSE /\ inbox' = <<>>

NetLoss ==
  /\ open /\ cur < MaxConns
  /\ Down
  /\ UNCHANGED <<cur, attached, ready, tokenOk, reauthVars, pc, on, writeVars,
                 losses, overruns>>

\* A bug: the cancelled background task leaves the re-auth lock locked.
DisconnectKeepsLock ==
  /\ attached /\ ~open
  /\ attached' = FALSE /\ ready' = FALSE
  /\ Ends(Push)
  /\ plan' = [plan EXCEPT ![Push] = <<>>]
  /\ mode' = [mode EXCEPT ![Push] = NoMode]
  /\ UNCHANGED <<cur, open, venueVars, inbox, gen, lock, quarantined, executed, outcome,
                 losses, overruns>>

\* The runner sees is_connected FALSE and tears the session down; the background
\* task is cancelled, recoveries of writes are not.
Disconnect ==
  /\ attached /\ ~open
  /\ attached' = FALSE /\ ready' = FALSE
  /\ Ends(Push)
  /\ plan' = [plan EXCEPT ![Push] = <<>>]
  /\ mode' = [mode EXCEPT ![Push] = NoMode]
  /\ lock' = IF lock = Push THEN NoOne ELSE lock
  /\ UNCHANGED <<cur, open, venueVars, inbox, gen, quarantined, executed, outcome,
                 losses, overruns>>

\* connect up to its first exchange with the venue ...
Connect ==
  /\ ~attached /\ cur < MaxConns
  /\ cur' = cur + 1 /\ open' = TRUE /\ attached' = TRUE
  /\ UNCHANGED <<ready, venueVars, inbox, reauthVars, pc, on, writeVars, losses, overruns>>

\* ... and from there on; a void token is refreshed on the way.
Handshake ==
  /\ attached /\ open /\ ~ready
  /\ app' = TRUE /\ acct' = TRUE /\ tokenOk' = TRUE /\ ready' = TRUE
  /\ UNCHANGED <<cur, open, attached, inbox, reauthVars, pc, on, writeVars,
                 losses, overruns>>

-----------------------------------------------------------------------------
(* A write: _account_request_raw and WireClient.send_request *)

\* The intervention guard latches the quarantine.
Quarantine ==
  /\ ~quarantined /\ quarantined' = TRUE
  /\ UNCHANGED <<connVars, venueVars, inbox, reauthVars, pc, on, seen, executed, outcome,
                 losses, overruns>>

Issue(r) ==
  /\ pc[r] = "idle" /\ attached
  /\ Goes(r, "writing")
  /\ on' = [on EXCEPT ![r] = cur]
  /\ seen' = [seen EXCEPT ![r] = gen]
  /\ executed' = [executed EXCEPT ![r] = 0]
  /\ outcome' = [outcome EXCEPT ![r] = "none"]
  /\ UNCHANGED <<connVars, venueVars, inbox, reauthVars, quarantined, losses, overruns>>

\* A bug: only the first write passes the gate.
WriteGatedOnce(r) ==
  /\ pc[r] \in {"writing", "rewriting"}
  /\ \/ /\ quarantined /\ pc[r] = "writing"
        /\ Tells(r, "unexecuted")
     \/ /\ ~Alive(r)
        /\ \E told \in {"unexecuted", "unknown"} : Tells(r, told)
     \/ /\ (~quarantined \/ pc[r] = "rewriting") /\ Alive(r)
        /\ Goes(r, IF pc[r] = "writing" THEN "sent" ELSE "resent")
        /\ UNCHANGED <<on, seen, outcome>>
  /\ UNCHANGED <<connVars, venueVars, inbox, reauthVars, quarantined, executed,
                 losses, overruns>>

\* The send lock is held: the gate, then the bytes.  A socket found closing
\* before the lock means nothing was sent; after it, nobody knows.
Write(r) ==
  /\ pc[r] \in {"writing", "rewriting"}
  /\ \/ /\ quarantined
        /\ Tells(r, "unexecuted")
     \/ /\ ~Alive(r)
        /\ \E told \in {"unexecuted", "unknown"} : Tells(r, told)
     \/ /\ ~quarantined /\ Alive(r)
        /\ Goes(r, IF pc[r] = "writing" THEN "sent" ELSE "resent")
        /\ UNCHANGED <<on, seen, outcome>>
  /\ UNCHANGED <<connVars, venueVars, inbox, reauthVars, quarantined, executed,
                 losses, overruns>>

\* A bug: a lost connection is recovered from like a lost session.
ConnectionLostRetries(r) ==
  /\ pc[r] \in {"sent", "answered", "resent", "reanswered"} /\ ~Alive(r)
  /\ Goes(r, "queued")
  /\ UNCHANGED <<connVars, venueVars, inbox, reauthVars, on, writeVars, losses, overruns>>

\* The receive loop ends and fails the pending futures.
ConnectionLost(r) ==
  /\ pc[r] \in {"sent", "answered", "resent", "reanswered"} /\ ~Alive(r)
  /\ Tells(r, "unknown")
  /\ UNCHANGED <<connVars, venueVars, inbox, reauthVars, quarantined, executed,
                 losses, overruns>>

\* The write's answer: done, or a loss to recover from; a second loss is raised.
WriteAnswered(r) ==
  LET told == Head(inbox).what IN
  /\ inbox # <<>> /\ Head(inbox).to = r /\ pc[r] \in {"answered", "reanswered"}
  /\ inbox' = Tail(inbox)
  /\ \/ /\ told = "ok"
        /\ Tells(r, "done") /\ UNCHANGED mode
     \/ /\ told # "ok" /\ pc[r] = "answered"
        /\ Goes(r, "queued")
        /\ mode' = [mode EXCEPT ![r] =
             [app |-> told = "client", force |-> told = "token", fallback |-> FALSE]]
        /\ UNCHANGED <<on, seen, outcome>>
     \/ /\ told # "ok" /\ pc[r] = "reanswered"
        /\ Tells(r, "unexecuted") /\ UNCHANGED mode
  /\ UNCHANGED <<connVars, venueVars, gen, lock, plan, quarantined, executed,
                 losses, overruns>>

\* The recovery returned: the write goes to whatever connection is live now.
Resume(r) ==
  /\ pc[r] = "rewon"
  /\ \/ /\ attached
        /\ Goes(r, "rewriting")
        /\ on' = [on EXCEPT ![r] = cur]
        /\ UNCHANGED <<seen, outcome>>
     \/ /\ ~attached
        /\ Tells(r, "unexecuted")
  /\ UNCHANGED <<connVars, venueVars, inbox, reauthVars, quarantined, executed,
                 losses, overruns>>

-----------------------------------------------------------------------------
(* The recovery: _reauth_account under its budget *)

Recovering == {"queued", "stepping", "asking", "told"}

\* _event_router_loop, _schedule_reauth: a push starts the background task
\* unless it is under way.
PushArrives ==
  LET told == Head(inbox).what IN
  /\ ready /\ inbox # <<>> /\ Head(inbox).to = NoOne
  /\ inbox' = Tail(inbox)
  /\ IF pc[Push] = "idle"
     THEN /\ Goes(Push, "queued")
          /\ mode' = [mode EXCEPT ![Push] =
               [app |-> told = "client", force |-> told = "token", fallback |-> FALSE]]
     ELSE UNCHANGED <<pc, mode>>
  /\ UNCHANGED <<connVars, venueVars, gen, lock, plan, on, writeVars, losses, overruns>>

\* A bug: a failed recovery leaves the socket up.
GivesUpKeepsSocket(c) ==
  /\ Ends(c)
  /\ outcome' = [r \in Requests |-> IF r = c THEN "unexecuted" ELSE outcome[r]]
  /\ lock' = IF lock = c THEN NoOne ELSE lock
  /\ plan' = [plan EXCEPT ![c] = <<>>]
  /\ mode' = [mode EXCEPT ![c] = NoMode]
  /\ UNCHANGED <<open, app, acct, inbox>>

\* A failed recovery: the lock is released, the connection that is live now is
\* closed (_drop_live_wire_after_failed_reauth) and the write is reported unsent.
GivesUp(c) ==
  /\ Ends(c)
  /\ outcome' = [r \in Requests |-> IF r = c THEN "unexecuted" ELSE outcome[r]]
  /\ lock' = IF lock = c THEN NoOne ELSE lock
  /\ plan' = [plan EXCEPT ![c] = <<>>]
  /\ mode' = [mode EXCEPT ![c] = NoMode]
  /\ IF attached /\ open THEN Down ELSE UNCHANGED <<open, app, acct, inbox>>

FirstPlan(m) == (IF m.app THEN <<"app">> ELSE <<>>)
                \o (IF m.force THEN <<"filelock", "refresh">> ELSE <<>>) \o <<"auth">>

\* _reauth_lock is obtained: a write that finds the generation moved on shares
\* the re-auth that moved it; otherwise the first request is planned.
TakesLock(c) ==
  /\ pc[c] = "queued" /\ lock = NoOne
  /\ \/ /\ c \in Requests /\ seen[c] # gen
        /\ Goes(c, "rewon")
        /\ mode' = [mode EXCEPT ![c] = NoMode]
        /\ UNCHANGED <<open, app, acct, inbox, lock, plan, on, seen, outcome>>
     \/ /\ c \in Requests => seen[c] = gen
        /\ ~(attached /\ ready)
        /\ GivesUp(c)
     \/ /\ c \in Requests => seen[c] = gen
        /\ attached /\ ready
        /\ Goes(c, "stepping")
        /\ lock' = c
        /\ on' = [on EXCEPT ![c] = cur]
        /\ plan' = [plan EXCEPT ![c] = FirstPlan(mode[c])]
        /\ UNCHANGED <<open, app, acct, inbox, mode, seen, outcome>>
  /\ UNCHANGED <<cur, attached, ready, tokenOk, gen, quarantined, executed,
                 losses, overruns>>

\* The session lock of TokenSession is obtained; another process may have stored
\* a rotated pair, which is adopted without a refresh.
FileLock(c) ==
  /\ pc[c] = "stepping" /\ Head(plan[c]) = "filelock"
  /\ \/ plan' = [plan EXCEPT ![c] = Tail(@)] /\ UNCHANGED tokenOk
     \/ plan' = [plan EXCEPT ![c] = Tail(Tail(@))] /\ tokenOk' = TRUE
  /\ UNCHANGED <<connVars, app, acct, inbox, gen, lock, mode, pc, on, writeVars,
                 losses, overruns>>

\* The next request goes out on the connection the recovery started with.
Ask(c) ==
  /\ pc[c] = "stepping" /\ Head(plan[c]) # "filelock" /\ Alive(c)
  /\ Goes(c, "asking")
  /\ UNCHANGED <<connVars, venueVars, inbox, reauthVars, on, writeVars, losses, overruns>>

\* That connection is gone.
AskLost(c) ==
  /\ \/ pc[c] \in {"asking", "told"}
     \/ pc[c] = "stepping" /\ Head(plan[c]) # "filelock"
  /\ ~Alive(c)
  /\ GivesUp(c)
  /\ UNCHANGED <<cur, attached, ready, tokenOk, gen, quarantined, executed,
                 losses, overruns>>

AnswerFor(c) == inbox # <<>> /\ Head(inbox).to = c /\ pc[c] = "told"

\* The requests that follow an answer, the empty sequence if it fails the
\* recovery, and whether they are a fallback after the first account auth.
Fallback(c, told) ==
  LET asked == Head(plan[c])
      m == mode[c]
  IN  IF told = "client" /\ asked = "refresh" /\ m.force /\ ~m.app
        THEN <<"app", "filelock", "refresh", "auth">>
      ELSE IF told = "token" /\ asked = "auth" /\ ~m.force /\ ~m.fallback
        THEN <<"filelock", "refresh", "auth">>
      ELSE IF told = "client" /\ asked = "auth" /\ ~m.app /\ ~m.fallback
        THEN <<"app", "auth">>
      ELSE <<>>

\* A bug: the lock is not released by a recovery that succeeds.
RewinsLocked(c) ==
  /\ AnswerFor(c) /\ Head(inbox).what = "ok" /\ Len(plan[c]) = 1
  /\ inbox' = Tail(inbox)
  /\ gen' = gen + 1
  /\ IF c = Push THEN Ends(c) ELSE Goes(c, "rewon") /\ UNCHANGED <<on, seen>>
  /\ plan' = [plan EXCEPT ![c] = <<>>]
  /\ mode' = [mode EXCEPT ![c] = NoMode]
  /\ UNCHANGED <<connVars, venueVars, lock, quarantined, executed, outcome, losses, overruns>>

\* The session is re-won.
Rewins(c) ==
  /\ AnswerFor(c) /\ Head(inbox).what = "ok" /\ Len(plan[c]) = 1
  /\ inbox' = Tail(inbox)
  /\ gen' = gen + 1
  /\ lock' = NoOne
  /\ IF c = Push THEN Ends(c) ELSE Goes(c, "rewon") /\ UNCHANGED <<on, seen>>
  /\ plan' = [plan EXCEPT ![c] = <<>>]
  /\ mode' = [mode EXCEPT ![c] = NoMode]
  /\ UNCHANGED <<connVars, venueVars, quarantined, executed, outcome, losses, overruns>>

\* An answer that is not the last.
StepsOn(c) ==
  LET told == Head(inbox).what IN
  /\ AnswerFor(c)
  /\ inbox' = Tail(inbox)
  /\ Goes(c, "stepping")
  /\ \/ /\ told = "ok" /\ Len(plan[c]) > 1
        /\ plan' = [plan EXCEPT ![c] = Tail(@)]
        /\ UNCHANGED mode
     \/ /\ told # "ok" /\ Fallback(c, told) # <<>>
        /\ plan' = [plan EXCEPT ![c] = Fallback(c, told)]
        /\ mode' = [mode EXCEPT ![c].app = @ \/ told = "client",
                                ![c].fallback = Head(plan[c]) = "auth"]
  /\ UNCHANGED <<connVars, venueVars, gen, lock, on, writeVars, losses, overruns>>

\* An answer the recovery has no fallback for.
StepRefused(c) ==
  /\ AnswerFor(c)
  /\ Head(inbox).what # "ok" /\ Fallback(c, Head(inbox).what) = <<>>
  /\ GivesUp(c)
  /\ UNCHANGED <<cur, attached, ready, tokenOk, gen, quarantined, executed,
                 losses, overruns>>

\* _REAUTH_TIMEOUT cuts the recovery off; a refresh under way goes on shielded.
Overruns(c) ==
  /\ pc[c] \in Recovering /\ overruns < MaxOverruns
  /\ overruns' = overruns + 1
  /\ GivesUp(c)
  /\ \/ UNCHANGED tokenOk
     \/ plan[c] # <<>> /\ Head(plan[c]) \in {"filelock", "refresh"} /\ tokenOk' = TRUE
  /\ UNCHANGED <<cur, attached, ready, gen, quarantined, executed, losses>>

-----------------------------------------------------------------------------
RecoveryStep(c) ==
  \/ FileLock(c) \/ Ask(c) \/ AskLost(c) \/ Rewins(c) \/ StepsOn(c) \/ StepRefused(c)

WriteStep(r) == Write(r) \/ ConnectionLost(r) \/ WriteAnswered(r) \/ Resume(r)

VenueStep == \E c \in Callers : VenueHandles(c) \/ VenueAnswers(c)

Next ==
  \/ VenueStep \/ VenueDrops
  \/ NetLoss \/ Disconnect \/ Connect \/ Handshake
  \/ Quarantine \/ PushArrives
  \/ \E r \in Requests : Issue(r) \/ WriteStep(r)
  \/ \E c \in Callers : TakesLock(c) \/ RecoveryStep(c) \/ Overruns(c)

Spec == Init /\ [][Next]_vars

\* Ready coroutines run, the venue answers what it received on a live
\* connection, other processes free the session lock (LockFreed of
\* TokenSession), and _reauth_lock wakes its waiters in order.
FairSpec ==
  /\ Spec
  /\ WF_vars(PushArrives)
  /\ \A c \in Callers : /\ WF_vars(VenueHandles(c) \/ VenueAnswers(c))
                        /\ WF_vars(RecoveryStep(c))
                        /\ SF_vars(TakesLock(c))
  /\ \A r \in Requests : WF_vars(WriteStep(r))

-----------------------------------------------------------------------------
(* Properties *)

Outcomes == {"none", "done", "unexecuted", "unknown"}
Steps == {"app", "filelock", "refresh", "auth"}
PcStates == Recovering \cup {"idle", "writing", "sent", "answered", "rewon",
                             "rewriting", "resent", "reanswered"}

\* Every variable has its type.
TypeOK ==
  /\ cur \in Nat /\ gen \in Nat /\ losses \in Nat /\ overruns \in Nat
  /\ {open, attached, ready, app, acct, tokenOk, quarantined} \subseteq BOOLEAN
  /\ inbox \in Seq([to : Callers \cup {NoOne}, what : Steps \cup
                     {"ok", "client", "account", "token", "already", "refused"}])
  /\ lock \in Callers \cup {NoOne}
  /\ pc \in [Callers -> PcStates] /\ on \in [Callers -> Nat]
  /\ seen \in [Requests -> Nat] /\ executed \in [Requests -> Nat]
  /\ plan \in [Callers -> Seq(Steps)]
  /\ mode \in [Callers -> [app : BOOLEAN, force : BOOLEAN, fallback : BOOLEAN]]
  /\ outcome \in [Requests -> Outcomes]

\* The re-auth lock is held by exactly the recovery that is making requests.
LockExclusive == \A c \in Callers :
  /\ pc[c] \in {"stepping", "asking", "told"} <=> lock = c
  /\ plan[c] # <<>> <=> lock = c

Waits(c) == pc[c] \in {"answered", "reanswered", "told"} /\ Alive(c)

\* Each answer on its way belongs to one caller that waits for it.
AnswersMatch ==
  /\ \A i, j \in DOMAIN inbox : inbox[i].to = inbox[j].to /\ inbox[i].to \in Callers => i = j
  /\ \A c \in Callers : (\E i \in DOMAIN inbox : inbox[i].to = c) <=> Waits(c)

\* Nothing waits on a connection that is down, and nobody uses one yet to come.
WireSound ==
  /\ ~open => inbox = <<>>
  /\ ~attached => ~open
  /\ \A c \in Callers : on[c] <= cur

\* The session lock is never the last thing a recovery asks for, nor the last but one.
PlanSound == \A c \in Callers :
  \A i \in DOMAIN plan[c] : plan[c][i] = "filelock" => i + 2 <= Len(plan[c])

\* A write that has no answer yet, or is to be sent again, was not executed; one that was
\* answered was executed exactly if the answer says so, and what its caller is told is so.
WriteSoundOf(r) ==
  /\ executed[r] \in {0, 1}
  /\ pc[r] \notin {"idle", "answered", "reanswered"} => executed[r] = 0
  /\ pc[r] # "idle" => outcome[r] = "none"
  /\ outcome[r] = "unexecuted" => executed[r] = 0
  /\ outcome[r] = "done" => executed[r] = 1
  /\ pc[r] \in {"answered", "reanswered"} =>
       \A i \in DOMAIN inbox : inbox[i].to = r => (inbox[i].what = "ok" <=> executed[r] = 1)

WriteSound == \A r \in Requests : WriteSoundOf(r)

\* The re-auth lock is exclusive, answers find their callers, and what a write's answer
\* says of its execution is so: the argument for ReportTruthful.
IInv == TypeOK /\ LockExclusive /\ AnswersMatch /\ WireSound /\ PlanSound /\ WriteSound

\* What the caller of a write is told is true of the venue: a write is executed
\* at most once although it is sent again after a recovery, never when the
\* error says that nothing was (CTraderConnectionError, ExchangeConnectionError,
\* the quarantine), and always when it is reported done
\* (_account_request_raw, WireClient.send_request).
ReportTruthful == \A r \in Requests :
  /\ executed[r] <= 1
  /\ outcome[r] = "unexecuted" => executed[r] = 0
  /\ outcome[r] = "done" => executed[r] = 1

\* No write leaves after the quarantine latched, the repeated one included,
\* although the write waited for the send lock or for a recovery meanwhile
\* (ensure_venue_writes_allowed under the send lock).
NothingSentInQuarantine ==
  [][\A r \in Requests :
       pc'[r] \in {"sent", "resent"} /\ pc[r] # pc'[r] => ~quarantined]_vars

\* A session loss the venue pushed to a ready client ends with the session
\* re-won or the socket closed, which makes the runner reconnect
\* (_schedule_reauth, _proactive_reauth).
PushedLossRepaired ==
  (ready /\ \E i \in DOMAIN inbox : inbox[i].to = NoOne) ~> (acct \/ ~open)

\* Every write is reported and every recovery ends: nobody waits for ever for an
\* answer or for the re-auth lock.
CallersReturn == \A c \in Callers : pc[c] # "idle" ~> pc[c] = "idle"

\* A failed recovery closes only a socket without the session: one that is
\* "writable but useless" (_drop_live_wire_after_failed_reauth).
HealthyWireKept ==
  [][\A c \in Callers :
       (pc[c] \in Recovering /\ pc'[c] = "idle" /\ open /\ ~open') => ~acct]_vars

=============================================================================
