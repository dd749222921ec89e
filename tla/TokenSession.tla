---------------------------- MODULE TokenSession ----------------------------
(***************************************************************************)
(* One session file holds the OAuth token pair of each environment; many   *)
(* processes use it.  A refresh at the venue rotates the pair: the refresh *)
(* token it was asked with is void from then on.  A process refreshes      *)
(* under a lock on a sidecar file: it reads the file, adopts a pair        *)
(* another process stored meanwhile, and otherwise refreshes and saves.    *)
(* "pyne ctrader auth" mints a pair by consent and saves it without that   *)
(* lock.                                                                   *)
(*                                                                         *)
(* The pairs of an environment are numbered in the order the venue issued  *)
(* them; 0 is no pair.  A save reads the whole file and replaces it, so it *)
(* writes back the other environment's section as it read it.              *)
(***************************************************************************)
EXTENDS Integers, FiniteSets

CONSTANTS Procs,        \* processes sharing the file
          EnvOf,        \* [Procs -> environment]
          Tasks,        \* refresh attempts that may be under way at once
          ProcOf,       \* [Tasks -> Procs]
          Consents,     \* the tasks that are runs of "pyne ctrader auth"
          NoOne,        \* no task
          MaxPairs,     \* bound: pairs the venue issues per environment
          MaxCrashes,   \* bound: process crashes
          MaxLost,      \* bound: refreshes whose answer is lost
          MaxFailed     \* bound: saves that fail

Envs == {EnvOf[p] : p \in Procs}
Env(t) == EnvOf[ProcOf[t]]
Refreshers == Tasks \ Consents

ASSUME TaskAssumption ==
  /\ Consents \subseteq Tasks /\ NoOne \notin Tasks
  /\ ProcOf \in [Tasks -> Procs]
  /\ IsFiniteSet(Tasks)
ASSUME BoundAssumption ==
  MaxPairs \in Nat /\ MaxCrashes \in Nat /\ MaxLost \in Nat /\ MaxFailed \in Nat

VARIABLES
  file,      \* the session file: the stored pair of each environment
  holder,    \* the task holding the session lock, or NoOne
  up,        \* the processes that run
  using,     \* _tokens of each process
  synced,    \* _session_pair: what the process last loaded from or saved to
  pc,        \* where each task is
  pair,      \* the pair a task asks with, then the one it was answered with
  raw,       \* the file as save_session read it
  minted,    \* venue: pairs issued per environment
  valid,     \* venue: pairs whose refresh token it accepts
  crashes, lost, failed

procVars == <<up, using, synced>>
taskVars == <<pair, raw>>
venueVars == <<minted, valid>>
boundVars == <<crashes, lost, failed>>
vars == <<file, holder, procVars, pc, taskVars, venueVars, boundVars>>

Unread == [e \in Envs |-> 0]

Init ==
  /\ file \in [Envs -> {0, 1}]
  /\ holder = NoOne
  /\ up = {}
  /\ using = [p \in Procs |-> 0]
  /\ synced = [p \in Procs |-> 0]
  /\ pc = [t \in Tasks |-> "idle"]
  /\ pair = [t \in Tasks |-> 0]
  /\ raw = [t \in Tasks |-> Unread]
  /\ minted = file
  /\ valid = [e \in Envs |-> {file[e]} \ {0}]
  /\ crashes = 0 /\ lost = 0 /\ failed = 0

-----------------------------------------------------------------------------
(* Processes *)

\* A plugin instance is built: it loads the stored pair.
Start(p) ==
  /\ p \notin up
  /\ up' = up \cup {p}
  /\ using' = [using EXCEPT ![p] = file[EnvOf[p]]]
  /\ synced' = [synced EXCEPT ![p] = file[EnvOf[p]]]
  /\ UNCHANGED <<file, holder, pc, taskVars, venueVars, boundVars>>

\* The process dies; the operating system drops a lock it held.
Crash(p) ==
  /\ p \in up /\ crashes < MaxCrashes
  /\ up' = up \ {p}
  /\ pc' = [t \in Tasks |-> IF ProcOf[t] = p THEN "idle" ELSE pc[t]]
  /\ pair' = [t \in Tasks |-> IF ProcOf[t] = p THEN 0 ELSE pair[t]]
  /\ raw' = [t \in Tasks |-> IF ProcOf[t] = p THEN Unread ELSE raw[t]]
  /\ holder' = IF holder # NoOne /\ ProcOf[holder] = p THEN NoOne ELSE holder
  /\ crashes' = crashes + 1
  /\ UNCHANGED <<file, using, synced, venueVars, lost, failed>>

-----------------------------------------------------------------------------
(* _refresh_and_persist *)

\* The attempt of t is over; the lock is released on every way out.
Ends(t) ==
  /\ pc' = [pc EXCEPT ![t] = "idle"]
  /\ pair' = [pair EXCEPT ![t] = 0]
  /\ raw' = [raw EXCEPT ![t] = Unread]
  /\ holder' = IF holder = t THEN NoOne ELSE holder

\* Pairs issued, and those the tasks under way may still make the venue issue.
Spent(e) == minted[e] + Cardinality({t \in Tasks : Env(t) = e /\ pc[t] # "idle"})

\* A token-scoped request failed or a token-invalidated push arrived; the
\* acquire is handed to the worker thread.
WantsRefresh(t) ==
  /\ t \in Refreshers /\ ProcOf[t] \in up
  /\ pc[t] = "idle" /\ using[ProcOf[t]] # 0
  /\ Spent(Env(t)) < MaxPairs
  /\ pc' = [pc EXCEPT ![t] = "waiting"]
  /\ UNCHANGED <<file, holder, procVars, taskVars, venueVars, boundVars>>

\* The waiting coroutine is cancelled, perhaps after its worker thread got the
\* lock; a thread still acquiring goes on.
Abandon(t) ==
  /\ pc[t] \in {"waiting", "holding"}
  /\ pc' = [pc EXCEPT ![t] = IF @ = "waiting" THEN "abandoned" ELSE "dropping"]
  /\ UNCHANGED <<file, holder, procVars, taskVars, venueVars, boundVars>>

\* A bug: the two environments lock separately.
AcquirePerEnv(t) ==
  /\ pc[t] \in {"waiting", "abandoned"}
  /\ holder # NoOne => Env(holder) # Env(t)
  /\ holder' = t
  /\ pc' = [pc EXCEPT ![t] = IF @ = "waiting" THEN "holding" ELSE "dropping"]
  /\ UNCHANGED <<file, procVars, taskVars, venueVars, boundVars>>

\* acquire_session_lock returns on the worker thread.
Acquire(t) ==
  /\ pc[t] \in {"waiting", "abandoned"} /\ holder = NoOne
  /\ holder' = t
  /\ pc' = [pc EXCEPT ![t] = IF @ = "waiting" THEN "holding" ELSE "dropping"]
  /\ UNCHANGED <<file, procVars, taskVars, venueVars, boundVars>>

\* A bug: nobody releases the lock of a cancelled waiter.
DropForgets(t) ==
  /\ pc[t] = "dropping"
  /\ pc' = [pc EXCEPT ![t] = "idle"]
  /\ UNCHANGED <<file, holder, procVars, taskVars, venueVars, boundVars>>

\* _release_abandoned_session_lock
Drop(t) ==
  /\ pc[t] = "dropping"
  /\ Ends(t)
  /\ UNCHANGED <<file, procVars, venueVars, boundVars>>

\* A bug: the stored pair is compared with the one in use.
AdoptAgainstUsed(t) ==
  LET p == ProcOf[t]
      stored == file[Env(t)]
  IN  /\ pc[t] = "holding"
      /\ stored # 0 /\ stored # using[p]
      /\ using' = [using EXCEPT ![p] = stored]
      /\ synced' = [synced EXCEPT ![p] = stored]
      /\ Ends(t)
      /\ UNCHANGED <<file, up, venueVars, boundVars>>

\* _adopt_rotated_session found a pair another process stored.
Adopt(t) ==
  LET p == ProcOf[t]
      stored == file[Env(t)]
  IN  /\ pc[t] = "holding"
      /\ stored # 0 /\ stored # synced[p]
      /\ using' = [using EXCEPT ![p] = stored]
      /\ synced' = [synced EXCEPT ![p] = stored]
      /\ Ends(t)
      /\ UNCHANGED <<file, up, venueVars, boundVars>>

\* A bug: the file is not read again under the lock.
AskUnread(t) ==
  LET p == ProcOf[t] IN
  /\ pc[t] = "holding"
  /\ pair' = [pair EXCEPT ![t] = using[p]]
  /\ pc' = [pc EXCEPT ![t] = "asking"]
  /\ UNCHANGED <<file, holder, procVars, raw, venueVars, boundVars>>

\* refresh_via_socket sends the refresh token in use.
Ask(t) ==
  LET p == ProcOf[t] IN
  /\ pc[t] = "holding"
  /\ file[Env(t)] \in {0, synced[p]}
  /\ pair' = [pair EXCEPT ![t] = using[p]]
  /\ pc' = [pc EXCEPT ![t] = "asking"]
  /\ UNCHANGED <<file, holder, procVars, raw, venueVars, boundVars>>

\* The venue voids the pair it is asked with and issues the next one.
Rotated(e, n) ==
  /\ n \in valid[e]
  /\ minted' = [minted EXCEPT ![e] = @ + 1]
  /\ valid' = [valid EXCEPT ![e] = (@ \ {n}) \cup {minted[e] + 1}]

VenueRefreshes(t) ==
  /\ pc[t] = "asking"
  /\ Rotated(Env(t), pair[t])
  /\ pair' = [pair EXCEPT ![t] = minted[Env(t)] + 1]
  /\ pc' = [pc EXCEPT ![t] = "answered"]
  /\ UNCHANGED <<file, holder, procVars, raw, boundVars>>

\* A refused refresh raises.
VenueRefuses(t) ==
  /\ pc[t] = "asking"
  /\ pair[t] \notin valid[Env(t)]
  /\ Ends(t)
  /\ UNCHANGED <<file, procVars, venueVars, boundVars>>

\* No answer within the wire's request timeout, or the connection is lost: the
\* venue rotated the pair or it did not.
AnswerLost(t) ==
  /\ pc[t] = "asking" /\ lost < MaxLost
  /\ Rotated(Env(t), pair[t]) \/ UNCHANGED venueVars
  /\ lost' = lost + 1
  /\ Ends(t)
  /\ UNCHANGED <<file, procVars, crashes, failed>>

\* The answer's pair replaces the one in use.
Take(t) ==
  /\ pc[t] = "answered"
  /\ using' = [using EXCEPT ![ProcOf[t]] = pair[t]]
  /\ pc' = [pc EXCEPT ![t] = "saving"]
  /\ UNCHANGED <<file, holder, up, synced, taskVars, venueVars, boundVars>>

-----------------------------------------------------------------------------
(* save_session, under the lock or, after a consent, without it *)

SaveReads(t) ==
  /\ pc[t] = "saving"
  /\ raw' = [raw EXCEPT ![t] = file]
  /\ pc' = [pc EXCEPT ![t] = "writing"]
  /\ UNCHANGED <<file, holder, procVars, pair, venueVars, boundVars>>

\* The temp file replaces the session file; a refresh records the saved pair.
\* (The process of a consent makes no use of its synced.)
SaveReplaces(t) ==
  /\ pc[t] = "writing"
  /\ file' = [raw[t] EXCEPT ![Env(t)] = pair[t]]
  /\ synced' = [synced EXCEPT ![ProcOf[t]] = pair[t]]
  /\ Ends(t)
  /\ UNCHANGED <<up, using, venueVars, boundVars>>

\* A bug: _session_pair is set before the save.
SaveFailsSynced(t) ==
  /\ pc[t] = "writing" /\ failed < MaxFailed
  /\ failed' = failed + 1
  /\ synced' = [synced EXCEPT ![ProcOf[t]] = pair[t]]
  /\ Ends(t)
  /\ UNCHANGED <<file, up, using, venueVars, crashes, lost>>

\* The write fails: the pair in use is now newer than the file's.
SaveFails(t) ==
  /\ pc[t] = "writing" /\ failed < MaxFailed
  /\ failed' = failed + 1
  /\ Ends(t)
  /\ UNCHANGED <<file, procVars, venueVars, crashes, lost>>

\* "pyne ctrader auth": the code of a consent is exchanged for a pair.
Consent(t) ==
  /\ t \in Consents /\ ProcOf[t] \in up
  /\ pc[t] = "idle" /\ Spent(Env(t)) < MaxPairs
  /\ minted' = [minted EXCEPT ![Env(t)] = @ + 1]
  /\ valid' = [valid EXCEPT ![Env(t)] = @ \cup {minted[Env(t)] + 1}]
  /\ pair' = [pair EXCEPT ![t] = minted[Env(t)] + 1]
  /\ pc' = [pc EXCEPT ![t] = "saving"]
  /\ UNCHANGED <<file, holder, procVars, raw, boundVars>>

-----------------------------------------------------------------------------
TaskStep(t) ==
  \/ Acquire(t) \/ Drop(t) \/ Adopt(t) \/ Ask(t)
  \/ VenueRefreshes(t) \/ VenueRefuses(t) \/ AnswerLost(t) \/ Take(t)
  \/ SaveReads(t) \/ SaveReplaces(t) \/ SaveFails(t)

\* The processes that refresh.
Next ==
  \/ \E p \in Procs : Start(p) \/ Crash(p)
  \/ \E t \in Tasks : TaskStep(t) \/ WantsRefresh(t) \/ Abandon(t)

Spec == Init /\ [][Next]_vars

\* A task that can go on does: the loop runs ready coroutines, the worker
\* thread runs, and REQUEST_TIMEOUT bounds the wait for an answer.
FairSpec == Spec /\ \A t \in Tasks : WF_vars(TaskStep(t))

\* With consents among them.
AuthSpec == Init /\ [][Next \/ \E t \in Consents : Consent(t)]_vars

-----------------------------------------------------------------------------
(* Properties *)

PcStates == {"idle", "waiting", "abandoned", "holding", "dropping",
             "asking", "answered", "saving", "writing"}
Held == {"holding", "dropping", "asking", "answered", "saving", "writing"}
Refreshing == {"asking", "answered", "saving", "writing"}
Unsaved == {"answered", "saving", "writing"}

\* Every variable has its type.
TypeOK ==
  /\ file \in [Envs -> Nat]
  /\ holder \in Tasks \cup {NoOne}
  /\ up \subseteq Procs
  /\ using \in [Procs -> Nat] /\ synced \in [Procs -> Nat]
  /\ pc \in [Tasks -> PcStates]
  /\ pair \in [Tasks -> Nat] /\ raw \in [Tasks -> [Envs -> Nat]]
  /\ minted \in [Envs -> Nat] /\ valid \in [Envs -> SUBSET Nat]
  /\ crashes \in Nat /\ lost \in Nat /\ failed \in Nat

\* The lock is held by exactly the task that is inside the locked sequence.
LockExclusive == \A t \in Tasks : pc[t] \in Held <=> holder = t

\* Only a running process has tasks under way.
TasksOfRunning == \A t \in Tasks : pc[t] # "idle" => ProcOf[t] \in up

\* The venue accepts at most the pair it issued last.
LatestOnly == \A e \in Envs : valid[e] \subseteq {minted[e]} /\ file[e] <= minted[e]

\* What a process uses is what it is in step with the file about, or newer;
\* and newer than the file only while the file has not moved.
InStep == \A p \in up :
  /\ synced[p] <= using[p] /\ using[p] <= minted[EnvOf[p]]
  /\ synced[p] <= file[EnvOf[p]]
  /\ file[EnvOf[p]] # synced[p] => using[p] <= file[EnvOf[p]]

\* A refresh under way was asked with the pair in use, nobody moved the file
\* since, and its answer is the pair the venue issued last, in use once taken.
RefreshUndisturbed == \A t \in Tasks :
  /\ pc[t] \in Refreshing => file[Env(t)] = synced[ProcOf[t]]
  /\ pc[t] = "asking" => pair[t] = using[ProcOf[t]]
  /\ pc[t] \in Unsaved => pair[t] = minted[Env(t)]
  /\ pc[t] \in {"saving", "writing"} => using[ProcOf[t]] = pair[t]
  /\ pc[t] = "writing" => raw[t] = file

\* The inductive invariant of Spec.
IInv == /\ TypeOK
        /\ LockExclusive
        /\ TasksOfRunning
        /\ LatestOnly
        /\ InStep
        /\ RefreshUndisturbed

\* A process never spends a voided refresh token while the file holds a usable
\* one: _refresh_and_persist refreshes "with a token the venue may no longer
\* accept" only when the grant was lost before, by a crash, a lost answer or a
\* failed save.
RefreshTokenAccepted == \A t \in Tasks :
  pc[t] = "asking" => \/ pair[t] \in valid[Env(t)]
                      \/ file[Env(t)] \notin valid[Env(t)]

\* A running process never goes back to an older pair: after a refresh whose
\* save failed the stale stored pair does not replace it
\* (_adopt_rotated_session).
UsedPairNeverOlder ==
  [][\A p \in up \cap up' : using'[p] >= using[p]]_vars

\* No write to the session file puts an older pair in place of a newer one, in
\* its own section or in the other environment's (save_session).
FileNeverOlder == [][\A e \in Envs : file'[e] >= file[e]]_vars

\* The session lock is always freed in the end, also when its waiter was
\* cancelled, its refresh refused or unanswered, its save failed or its process
\* died: no process waits for ever behind another.
LockFreed == \A t \in Tasks : holder = t ~> holder # t

=============================================================================
