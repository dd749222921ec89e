------------------------- MODULE TokenSessionProofs -------------------------
(***************************************************************************)
(* Proofs about TokenSession, for every number of processes, environments  *)
(* and refreshes under way, and every bound.                               *)
(*                                                                         *)
(* One lemma per action shows what its steps keep (Sound): the inductive   *)
(* invariant, the age of the pairs in use and the age of the stored pairs. *)
(***************************************************************************)
EXTENDS TokenSession, TLAPS

USE DEF procVars, taskVars, venueVars, boundVars

UsingNeverOlder == \A p \in up \cap up' : using'[p] >= using[p]

StoredNeverOlder == \A e \in Envs : file'[e] >= file[e]

\* What every step is shown to do.
Sound == IInv' /\ UsingNeverOlder /\ StoredNeverOlder

-----------------------------------------------------------------------------
(* Parts of the actions *)

\* Every task and process has an environment.
LEMMA EnvTyped ==
  /\ \A p \in Procs : EnvOf[p] \in Envs
  /\ \A t \in Tasks : ProcOf[t] \in Procs /\ Env(t) \in Envs
BY TaskAssumption DEF Envs, Env

\* An attempt that ends leaves typed locals and frees exactly its own lock.
LEMMA EndsSound ==
  ASSUME TypeOK, LockExclusive, NEW t \in Tasks, Ends(t)
  PROVE  /\ pc' \in [Tasks -> PcStates]
         /\ pair' \in [Tasks -> Nat] /\ raw' \in [Tasks -> [Envs -> Nat]]
         /\ holder' \in Tasks \cup {NoOne}
         /\ LockExclusive'
<1>1. Unread \in [Envs -> Nat]
  BY DEF Unread
<1>2. /\ pc' \in [Tasks -> PcStates]
      /\ pair' \in [Tasks -> Nat]
      /\ holder' \in Tasks \cup {NoOne}
  BY DEF Ends, TypeOK, PcStates
<1>3. raw' \in [Tasks -> [Envs -> Nat]]
  BY <1>1 DEF Ends, TypeOK
<1>4. LockExclusive'
  BY TaskAssumption DEF Ends, TypeOK, LockExclusive, Held
<1> QED BY <1>2, <1>3, <1>4

\* A rotation at the venue voids every pair but the one it issues.
LEMMA RotatedSound ==
  ASSUME TypeOK, LatestOnly, NEW e \in Envs, NEW n, Rotated(e, n)
  PROVE  /\ minted' \in [Envs -> Nat] /\ valid' \in [Envs -> SUBSET Nat]
         /\ minted'[e] = minted[e] + 1
         /\ \A f \in Envs : minted'[f] >= minted[f] /\ valid'[f] \subseteq {minted'[f]}
         /\ \A f \in Envs \ {e} : minted'[f] = minted[f]
BY DEF Rotated, TypeOK, LatestOnly

-----------------------------------------------------------------------------
(* The initial state *)

\* The file holds what the venue issued last, or nothing.
LEMMA InitSound == Init => IInv
<1> SUFFICES ASSUME Init PROVE IInv
  OBVIOUS
<1>1. file \in [Envs -> Nat] /\ \A e \in Envs : file[e] \in Nat
  BY DEF Init
<1>2. TypeOK
  BY <1>1 DEF Init, TypeOK, PcStates, Unread
<1>3. LatestOnly
  BY <1>1 DEF Init, LatestOnly
<1>4. LockExclusive /\ TasksOfRunning /\ InStep /\ RefreshUndisturbed
  BY TaskAssumption DEF Init, LockExclusive, TasksOfRunning, InStep, RefreshUndisturbed,
     Held, Refreshing, Unsaved
<1> QED BY <1>2, <1>3, <1>4 DEF IInv

-----------------------------------------------------------------------------
(* The actions *)

\* A process that starts is in step with the file it loads.
LEMMA StartSound ==
  ASSUME IInv, NEW p \in Procs, Start(p) PROVE Sound
<1> USE EnvTyped, TaskAssumption DEF IInv, Start, Env
<1>1. TypeOK'
  BY DEF TypeOK, PcStates
<1>2. LockExclusive'
  BY DEF LockExclusive
<1>3. TasksOfRunning'
  BY DEF TasksOfRunning
<1>4. LatestOnly'
  BY DEF LatestOnly
<1>5. InStep'
  BY DEF InStep, LatestOnly, TypeOK
<1>6. RefreshUndisturbed'
  BY DEF RefreshUndisturbed, TasksOfRunning
<1>7. UsingNeverOlder
  BY DEF UsingNeverOlder, TypeOK
<1>8. StoredNeverOlder
  BY DEF StoredNeverOlder, TypeOK
<1> QED BY <1>1, <1>2, <1>3, <1>4, <1>5, <1>6, <1>7, <1>8 DEF Sound

\* A process that dies leaves the lock and no task of its own.
LEMMA CrashSound ==
  ASSUME IInv, NEW p \in Procs, Crash(p) PROVE Sound
<1> USE EnvTyped, TaskAssumption DEF IInv, Crash, Env
<1>1. TypeOK'
  <2>1. Unread \in [Envs -> Nat]
    BY DEF Unread
  <2>2. raw' \in [Tasks -> [Envs -> Nat]]
    BY <2>1 DEF TypeOK
  <2> QED BY <2>2 DEF TypeOK, PcStates
<1>2. LockExclusive'
  BY DEF LockExclusive, Held
<1>3. TasksOfRunning'
  BY DEF TasksOfRunning
<1>4. LatestOnly'
  BY DEF LatestOnly
<1>5. InStep'
  BY DEF InStep
<1>6. RefreshUndisturbed'
  BY DEF RefreshUndisturbed, Refreshing, Unsaved
<1>7. UsingNeverOlder
  BY DEF UsingNeverOlder, TypeOK
<1>8. StoredNeverOlder
  BY DEF StoredNeverOlder, TypeOK
<1> QED BY <1>1, <1>2, <1>3, <1>4, <1>5, <1>6, <1>7, <1>8 DEF Sound

\* Wanting a refresh touches no pair.
LEMMA WantsRefreshSound ==
  ASSUME IInv, NEW t \in Tasks, WantsRefresh(t) PROVE Sound
<1> USE EnvTyped, TaskAssumption DEF IInv, WantsRefresh, Env
<1>1. TypeOK'
  BY DEF TypeOK, PcStates
<1>2. LockExclusive'
  BY DEF LockExclusive, Held
<1>3. TasksOfRunning'
  BY DEF TasksOfRunning
<1>4. LatestOnly'
  BY DEF LatestOnly
<1>5. InStep'
  BY DEF InStep
<1>6. RefreshUndisturbed'
  BY DEF RefreshUndisturbed, Refreshing, Unsaved
<1>7. UsingNeverOlder
  BY DEF UsingNeverOlder, TypeOK
<1>8. StoredNeverOlder
  BY DEF StoredNeverOlder, TypeOK
<1> QED BY <1>1, <1>2, <1>3, <1>4, <1>5, <1>6, <1>7, <1>8 DEF Sound

\* A cancelled waiter keeps the lock until its thread drops it.
LEMMA AbandonSound ==
  ASSUME IInv, NEW t \in Tasks, Abandon(t) PROVE Sound
<1> USE EnvTyped, TaskAssumption DEF IInv, Abandon, Env
<1>1. TypeOK'
  BY DEF TypeOK, PcStates
<1>2. LockExclusive'
  BY DEF LockExclusive, Held
<1>3. TasksOfRunning'
  BY DEF TasksOfRunning
<1>4. LatestOnly'
  BY DEF LatestOnly
<1>5. InStep'
  BY DEF InStep
<1>6. RefreshUndisturbed'
  BY DEF RefreshUndisturbed, Refreshing, Unsaved
<1>7. UsingNeverOlder
  BY DEF UsingNeverOlder, TypeOK
<1>8. StoredNeverOlder
  BY DEF StoredNeverOlder, TypeOK
<1> QED BY <1>1, <1>2, <1>3, <1>4, <1>5, <1>6, <1>7, <1>8 DEF Sound

\* The lock goes to one task.
LEMMA AcquireSound ==
  ASSUME IInv, NEW t \in Tasks, Acquire(t) PROVE Sound
<1> USE EnvTyped, TaskAssumption DEF IInv, Acquire, Env
<1>1. TypeOK'
  BY DEF TypeOK, PcStates
<1>2. LockExclusive'
  BY DEF LockExclusive, TypeOK, Held
<1>3. TasksOfRunning'
  BY DEF TasksOfRunning
<1>4. LatestOnly'
  BY DEF LatestOnly
<1>5. InStep'
  BY DEF InStep
<1>6. RefreshUndisturbed'
  BY DEF RefreshUndisturbed, Refreshing, Unsaved
<1>7. UsingNeverOlder
  BY DEF UsingNeverOlder, TypeOK
<1>8. StoredNeverOlder
  BY DEF StoredNeverOlder, TypeOK
<1> QED BY <1>1, <1>2, <1>3, <1>4, <1>5, <1>6, <1>7, <1>8 DEF Sound

\* Dropping frees the lock and touches no pair.
LEMMA DropSound ==
  ASSUME IInv, NEW t \in Tasks, Drop(t) PROVE Sound
<1> USE EnvTyped, TaskAssumption DEF IInv, Drop, Env, Ends
<1>a. /\ pc' \in [Tasks -> PcStates]
      /\ pair' \in [Tasks -> Nat] /\ raw' \in [Tasks -> [Envs -> Nat]]
      /\ holder' \in Tasks \cup {NoOne}
      /\ LockExclusive'
  BY EndsSound
<1>1. TypeOK'
  BY <1>a DEF TypeOK
<1>2. LockExclusive'
  BY <1>a
<1>3. TasksOfRunning'
  BY DEF TasksOfRunning
<1>4. LatestOnly'
  BY DEF LatestOnly
<1>5. InStep'
  BY DEF InStep
<1>6. RefreshUndisturbed'
  BY DEF RefreshUndisturbed, Refreshing, Unsaved
<1>7. UsingNeverOlder
  BY DEF UsingNeverOlder, TypeOK
<1>8. StoredNeverOlder
  BY DEF StoredNeverOlder, TypeOK
<1> QED BY <1>1, <1>2, <1>3, <1>4, <1>5, <1>6, <1>7, <1>8 DEF Sound

\* The stored pair differs from the one last synced, so it is no older than the one in use.
LEMMA AdoptSound ==
  ASSUME IInv, NEW t \in Tasks, Adopt(t) PROVE Sound
<1> USE EnvTyped, TaskAssumption DEF IInv, Adopt, Env, Ends
<1>a. /\ pc' \in [Tasks -> PcStates]
      /\ pair' \in [Tasks -> Nat] /\ raw' \in [Tasks -> [Envs -> Nat]]
      /\ holder' \in Tasks \cup {NoOne}
      /\ LockExclusive'
  BY EndsSound
<1>1. TypeOK'
  BY <1>a DEF TypeOK
<1>2. LockExclusive'
  BY <1>a
<1>3. TasksOfRunning'
  BY DEF TasksOfRunning
<1>4. LatestOnly'
  BY DEF LatestOnly
<1>5. InStep'
  BY DEF InStep, LatestOnly, TypeOK
<1>6. RefreshUndisturbed'
  BY DEF RefreshUndisturbed, LockExclusive, TypeOK, Held, Unsaved
<1>7. UsingNeverOlder
  BY DEF UsingNeverOlder, TypeOK, InStep
<1>8. StoredNeverOlder
  BY DEF StoredNeverOlder, TypeOK
<1> QED BY <1>1, <1>2, <1>3, <1>4, <1>5, <1>6, <1>7, <1>8 DEF Sound

\* What the file holds is what the process is in step with.
LEMMA AskSound ==
  ASSUME IInv, NEW t \in Tasks, Ask(t) PROVE Sound
<1> USE EnvTyped, TaskAssumption DEF IInv, Ask, Env
<1>1. TypeOK'
  BY DEF TypeOK, PcStates
<1>2. LockExclusive'
  BY DEF LockExclusive, Held
<1>3. TasksOfRunning'
  BY DEF TasksOfRunning
<1>4. LatestOnly'
  BY DEF LatestOnly
<1>5. InStep'
  BY DEF InStep
<1>6. RefreshUndisturbed'
  BY DEF RefreshUndisturbed, TypeOK, Unsaved, InStep, TasksOfRunning
<1>7. UsingNeverOlder
  BY DEF UsingNeverOlder, TypeOK
<1>8. StoredNeverOlder
  BY DEF StoredNeverOlder, TypeOK
<1> QED BY <1>1, <1>2, <1>3, <1>4, <1>5, <1>6, <1>7, <1>8 DEF Sound

\* The pair issued is the latest, and only the lock's holder is answered.
LEMMA VenueRefreshesSound ==
  ASSUME IInv, NEW t \in Tasks, VenueRefreshes(t) PROVE Sound
<1> USE EnvTyped, TaskAssumption DEF IInv, VenueRefreshes, Env
<1>r. /\ minted' \in [Envs -> Nat] /\ valid' \in [Envs -> SUBSET Nat]
      /\ \A f \in Envs : minted'[f] >= minted[f] /\ valid'[f] \subseteq {minted'[f]}
      /\ \A f \in Envs \ {Env(t)} : minted'[f] = minted[f]
      /\ minted'[Env(t)] = minted[Env(t)] + 1
  BY RotatedSound
<1>1. TypeOK'
  BY <1>r DEF TypeOK, PcStates
<1>2. LockExclusive'
  BY <1>r DEF LockExclusive, Held
<1>3. TasksOfRunning'
  BY DEF TasksOfRunning
<1>4. LatestOnly'
  BY <1>r DEF LatestOnly, TypeOK
<1>5. InStep'
  BY <1>r DEF InStep, TypeOK
<1>6. RefreshUndisturbed'
  BY <1>r DEF RefreshUndisturbed, LockExclusive, TypeOK, Held, Refreshing, Unsaved
<1>7. UsingNeverOlder
  BY DEF UsingNeverOlder, TypeOK
<1>8. StoredNeverOlder
  BY DEF StoredNeverOlder, TypeOK
<1> QED BY <1>1, <1>2, <1>3, <1>4, <1>5, <1>6, <1>7, <1>8 DEF Sound

\* A refusal touches no pair.
LEMMA VenueRefusesSound ==
  ASSUME IInv, NEW t \in Tasks, VenueRefuses(t) PROVE Sound
<1> USE EnvTyped, TaskAssumption DEF IInv, VenueRefuses, Env, Ends
<1>a. /\ pc' \in [Tasks -> PcStates]
      /\ pair' \in [Tasks -> Nat] /\ raw' \in [Tasks -> [Envs -> Nat]]
      /\ holder' \in Tasks \cup {NoOne}
      /\ LockExclusive'
  BY EndsSound
<1>1. TypeOK'
  BY <1>a DEF TypeOK
<1>2. LockExclusive'
  BY <1>a
<1>3. TasksOfRunning'
  BY DEF TasksOfRunning
<1>4. LatestOnly'
  BY DEF LatestOnly
<1>5. InStep'
  BY DEF InStep
<1>6. RefreshUndisturbed'
  BY <1>a DEF RefreshUndisturbed, Refreshing, Unsaved
<1>7. UsingNeverOlder
  BY DEF UsingNeverOlder, TypeOK
<1>8. StoredNeverOlder
  BY DEF StoredNeverOlder, TypeOK
<1> QED BY <1>1, <1>2, <1>3, <1>4, <1>5, <1>6, <1>7, <1>8 DEF Sound

\* A rotation nobody hears of leaves the file's pair void, and older.
LEMMA AnswerLostSound ==
  ASSUME IInv, NEW t \in Tasks, AnswerLost(t) PROVE Sound
<1> USE EnvTyped, TaskAssumption DEF IInv, AnswerLost, Env, Ends
<1>a. /\ pc' \in [Tasks -> PcStates]
      /\ pair' \in [Tasks -> Nat] /\ raw' \in [Tasks -> [Envs -> Nat]]
      /\ holder' \in Tasks \cup {NoOne}
      /\ LockExclusive'
  BY EndsSound
<1>r. /\ minted' \in [Envs -> Nat] /\ valid' \in [Envs -> SUBSET Nat]
      /\ \A f \in Envs : minted'[f] >= minted[f] /\ valid'[f] \subseteq {minted'[f]}
      /\ \A f \in Envs \ {Env(t)} : minted'[f] = minted[f]
  <2>1. CASE Rotated(Env(t), pair[t])
    BY <2>1, RotatedSound
  <2>2. CASE UNCHANGED venueVars
    BY <2>2 DEF TypeOK, LatestOnly
  <2> QED BY <2>1, <2>2
<1>1. TypeOK'
  BY <1>a, <1>r DEF TypeOK
<1>2. LockExclusive'
  BY <1>a
<1>3. TasksOfRunning'
  BY <1>r DEF TasksOfRunning
<1>4. LatestOnly'
  BY <1>r DEF LatestOnly, TypeOK
<1>5. InStep'
  BY <1>r DEF InStep, TypeOK
<1>6. RefreshUndisturbed'
  BY <1>a, <1>r DEF RefreshUndisturbed, LockExclusive, Held, Refreshing, Unsaved
<1>7. UsingNeverOlder
  BY <1>r DEF UsingNeverOlder, TypeOK
<1>8. StoredNeverOlder
  BY <1>r DEF StoredNeverOlder, TypeOK
<1> QED BY <1>1, <1>2, <1>3, <1>4, <1>5, <1>6, <1>7, <1>8 DEF Sound

\* The answer is the latest pair; the file has not moved.
LEMMA TakeSound ==
  ASSUME IInv, NEW t \in Tasks, Take(t) PROVE Sound
<1> USE EnvTyped, TaskAssumption DEF IInv, Take, Env
<1>1. TypeOK'
  BY DEF TypeOK, PcStates
<1>2. LockExclusive'
  BY DEF LockExclusive, Held
<1>3. TasksOfRunning'
  BY DEF TasksOfRunning
<1>4. LatestOnly'
  BY DEF LatestOnly
<1>5. InStep'
  BY DEF InStep, RefreshUndisturbed, TypeOK, Refreshing, Unsaved
<1>6. RefreshUndisturbed'
  BY DEF RefreshUndisturbed, LockExclusive, TypeOK, Held, Refreshing, Unsaved
<1>7. UsingNeverOlder
  BY DEF UsingNeverOlder, TypeOK, InStep, RefreshUndisturbed, Unsaved
<1>8. StoredNeverOlder
  BY DEF StoredNeverOlder, TypeOK
<1> QED BY <1>1, <1>2, <1>3, <1>4, <1>5, <1>6, <1>7, <1>8 DEF Sound

\* What is read stays what the file holds while the lock is held.
LEMMA SaveReadsSound ==
  ASSUME IInv, NEW t \in Tasks, SaveReads(t) PROVE Sound
<1> USE EnvTyped, TaskAssumption DEF IInv, SaveReads, Env
<1>1. TypeOK'
  BY DEF TypeOK, PcStates
<1>2. LockExclusive'
  BY DEF LockExclusive, Held
<1>3. TasksOfRunning'
  BY DEF TasksOfRunning
<1>4. LatestOnly'
  BY DEF LatestOnly
<1>5. InStep'
  BY DEF InStep
<1>6. RefreshUndisturbed'
  BY DEF RefreshUndisturbed, TypeOK, Refreshing, Unsaved
<1>7. UsingNeverOlder
  BY DEF UsingNeverOlder, TypeOK
<1>8. StoredNeverOlder
  BY DEF StoredNeverOlder, TypeOK
<1> QED BY <1>1, <1>2, <1>3, <1>4, <1>5, <1>6, <1>7, <1>8 DEF Sound

\* The saved pair is the latest, so no running process uses a newer one.
LEMMA SaveReplacesSound ==
  ASSUME IInv, NEW t \in Tasks, SaveReplaces(t) PROVE Sound
<1> USE EnvTyped, TaskAssumption DEF IInv, SaveReplaces, Env, Ends
<1>a. /\ pc' \in [Tasks -> PcStates]
      /\ pair' \in [Tasks -> Nat] /\ raw' \in [Tasks -> [Envs -> Nat]]
      /\ holder' \in Tasks \cup {NoOne}
      /\ LockExclusive'
  BY EndsSound
<1>1. TypeOK'
  BY <1>a DEF TypeOK
<1>2. LockExclusive'
  BY <1>a
<1>3. TasksOfRunning'
  BY DEF TasksOfRunning
<1>4. LatestOnly'
  BY DEF LatestOnly, RefreshUndisturbed, TypeOK, Unsaved
<1>5. InStep'
  <2> SUFFICES ASSUME NEW q \in up'
               PROVE  /\ synced'[q] <= using'[q] /\ using'[q] <= minted'[EnvOf[q]]
                      /\ synced'[q] <= file'[EnvOf[q]]
                      /\ file'[EnvOf[q]] # synced'[q] => using'[q] <= file'[EnvOf[q]]
    BY DEF InStep
  <2>1. /\ q \in up /\ q \in Procs /\ ProcOf[t] \in up
        /\ EnvOf[q] \in Envs /\ EnvOf[ProcOf[t]] \in Envs
    BY DEF TypeOK, TasksOfRunning
  <2>2. /\ pair[t] = minted[EnvOf[ProcOf[t]]] /\ raw[t] = file
        /\ using[ProcOf[t]] = pair[t]
    BY DEF RefreshUndisturbed, Unsaved
  <2>3. file' = [file EXCEPT ![EnvOf[ProcOf[t]]] = minted[EnvOf[ProcOf[t]]]]
    BY <2>2
  <2>4. synced' = [synced EXCEPT ![ProcOf[t]] = minted[EnvOf[ProcOf[t]]]]
    BY <2>2
  <2>5. /\ minted[EnvOf[q]] \in Nat /\ file[EnvOf[q]] \in Nat
        /\ using[q] \in Nat /\ synced[q] \in Nat
    BY <2>1 DEF TypeOK
  <2>6. using' = using /\ minted' = minted
    OBVIOUS
  <2>7. /\ synced[q] <= using[q] /\ using[q] <= minted[EnvOf[q]]
        /\ synced[q] <= file[EnvOf[q]]
        /\ file[EnvOf[q]] # synced[q] => using[q] <= file[EnvOf[q]]
    BY <2>1 DEF InStep
  <2>8. CASE q = ProcOf[t]
    BY <2>1, <2>2, <2>3, <2>4, <2>5, <2>6, <2>7, <2>8 DEF TypeOK
  <2>9. CASE q # ProcOf[t]
    BY <2>1, <2>3, <2>4, <2>5, <2>6, <2>7, <2>9 DEF TypeOK
  <2> QED BY <2>8, <2>9
<1>6. RefreshUndisturbed'
  BY <1>a DEF RefreshUndisturbed, LockExclusive, Held, Refreshing, Unsaved
<1>7. UsingNeverOlder
  BY DEF UsingNeverOlder, TypeOK
<1>8. StoredNeverOlder
  BY DEF StoredNeverOlder, TypeOK, LatestOnly, RefreshUndisturbed, Unsaved
<1> QED BY <1>1, <1>2, <1>3, <1>4, <1>5, <1>6, <1>7, <1>8 DEF Sound

\* A failed save leaves the newer pair in use and the file where it was.
LEMMA SaveFailsSound ==
  ASSUME IInv, NEW t \in Tasks, SaveFails(t) PROVE Sound
<1> USE EnvTyped, TaskAssumption DEF IInv, SaveFails, Env, Ends
<1>a. /\ pc' \in [Tasks -> PcStates]
      /\ pair' \in [Tasks -> Nat] /\ raw' \in [Tasks -> [Envs -> Nat]]
      /\ holder' \in Tasks \cup {NoOne}
      /\ LockExclusive'
  BY EndsSound
<1>1. TypeOK'
  BY <1>a DEF TypeOK
<1>2. LockExclusive'
  BY <1>a
<1>3. TasksOfRunning'
  BY DEF TasksOfRunning
<1>4. LatestOnly'
  BY DEF LatestOnly
<1>5. InStep'
  BY DEF InStep
<1>6. RefreshUndisturbed'
  BY <1>a DEF RefreshUndisturbed, Refreshing, Unsaved
<1>7. UsingNeverOlder
  BY DEF UsingNeverOlder, TypeOK
<1>8. StoredNeverOlder
  BY DEF StoredNeverOlder, TypeOK
<1> QED BY <1>1, <1>2, <1>3, <1>4, <1>5, <1>6, <1>7, <1>8 DEF Sound

-----------------------------------------------------------------------------
(* The theorems *)

\* Every step, and every stutter, is sound.
LEMMA NextSound == IInv /\ [Next]_vars => Sound
<1> SUFFICES ASSUME IInv, [Next]_vars PROVE Sound
  OBVIOUS
<1>1. CASE UNCHANGED vars
  <2> USE <1>1 DEF vars, IInv
  <2>1. TypeOK' /\ LockExclusive' /\ TasksOfRunning'
    BY DEF TypeOK, LockExclusive, TasksOfRunning
  <2>2. LatestOnly' /\ InStep' /\ RefreshUndisturbed'
    BY DEF LatestOnly, InStep, RefreshUndisturbed, Env
  <2>3. UsingNeverOlder /\ StoredNeverOlder
    BY DEF UsingNeverOlder, StoredNeverOlder, TypeOK
  <2> QED BY <2>1, <2>2, <2>3 DEF Sound
<1>2. CASE \E p \in Procs : Start(p) \/ Crash(p)
  BY <1>2, StartSound, CrashSound
<1>3. ASSUME NEW t \in Tasks, WantsRefresh(t) \/ Abandon(t) PROVE Sound
  BY <1>3, WantsRefreshSound, AbandonSound
<1>4. ASSUME NEW t \in Tasks, TaskStep(t) PROVE Sound
  BY <1>4, AcquireSound, DropSound, AdoptSound, AskSound, VenueRefreshesSound,
     VenueRefusesSound, AnswerLostSound, TakeSound, SaveReadsSound, SaveReplacesSound,
     SaveFailsSound DEF TaskStep
<1> QED BY <1>1, <1>2, <1>3, <1>4 DEF Next

\* Holds in every reachable state: the lock is held by the one task inside the
\* locked sequence, the venue accepts at most the last pair, and every process
\* is in step with the file or newer.
THEOREM SessionInvariant == Spec => []IInv
<1>1. IInv /\ [Next]_vars => IInv'
  BY NextSound DEF Sound
<1> QED BY InitSound, <1>1, PTL DEF Spec

\* No process spends a voided refresh token while the file holds a usable one
\* (_refresh_and_persist, _adopt_rotated_session).
THEOREM RefreshTokenAcceptedHolds == Spec => []RefreshTokenAccepted
<1>1. IInv => RefreshTokenAccepted
  <2> SUFFICES ASSUME IInv, NEW t \in Tasks, pc[t] = "asking",
                      file[Env(t)] \in valid[Env(t)]
               PROVE  pair[t] \in valid[Env(t)]
    BY DEF RefreshTokenAccepted
  <2> DEFINE p == ProcOf[t]
  <2>1. p \in up /\ p \in Procs /\ Env(t) = EnvOf[p] /\ Env(t) \in Envs
    BY EnvTyped DEF IInv, TasksOfRunning, Env
  <2>2. file[Env(t)] = minted[Env(t)]
    BY <2>1 DEF IInv, LatestOnly
  <2>3. file[Env(t)] = synced[p] /\ pair[t] = using[p]
    BY DEF IInv, RefreshUndisturbed, Refreshing
  <2>4. synced[p] <= using[p] /\ using[p] <= minted[Env(t)]
    BY <2>1 DEF IInv, InStep
  <2>5. synced[p] \in Nat /\ using[p] \in Nat /\ minted[Env(t)] \in Nat
    BY <2>1 DEF IInv, TypeOK
  <2>6. using[p] = minted[Env(t)]
    BY <2>2, <2>3, <2>4, <2>5
  <2> QED BY <2>2, <2>3, <2>6
<1> QED BY SessionInvariant, <1>1, PTL

\* A running process never goes back to an older pair, also not to the stored one
\* after a save that failed (_adopt_rotated_session).
THEOREM UsedPairNeverOlderHolds == Spec => UsedPairNeverOlder
<1>1. IInv /\ [Next]_vars => [\A p \in up \cap up' : using'[p] >= using[p]]_vars
  BY NextSound DEF Sound, UsingNeverOlder
<1> QED BY SessionInvariant, <1>1, PTL DEF Spec, UsedPairNeverOlder

\* Refreshes alone never replace a stored pair by an older one, in either
\* environment's section (save_session under the lock).
THEOREM FileNeverOlderHolds == Spec => FileNeverOlder
<1>1. IInv /\ [Next]_vars => [\A e \in Envs : file'[e] >= file[e]]_vars
  BY NextSound DEF Sound, StoredNeverOlder
<1> QED BY SessionInvariant, <1>1, PTL DEF Spec, FileNeverOlder

=============================================================================
