------------------------ MODULE AccountSessionProofs ------------------------
(***************************************************************************)
(* AccountSession keeps its invariant, tells the caller of a write the     *)
(* truth and sends nothing in quarantine, for any set of writes and any    *)
(* number of connections, losses and overruns.                             *)
(***************************************************************************)
EXTENDS AccountSession, TLAPS

USE CallerAssumption, BoundAssumption

Whats == Steps \cup {"ok", "client", "account", "token", "already", "refused"}
Messages == [to : Callers \cup {NoOne}, what : Whats]
Modes == [app : BOOLEAN, force : BOOLEAN, fallback : BOOLEAN]

\* A plan as PlanSound and TypeOK say it.
Sound(p) == p \in Seq(Steps) /\ \A i \in 1 .. Len(p) : p[i] = "filelock" => i + 2 <= Len(p)

-----------------------------------------------------------------------------
(* Sequences *)

LEMMA Appended ==
  ASSUME NEW S, NEW s \in Seq(S), NEW e \in S
  PROVE  /\ Append(s, e) \in Seq(S)
         /\ Len(Append(s, e)) = Len(s) + 1
         /\ DOMAIN Append(s, e) = 1 .. Len(s) + 1
         /\ \A i \in 1 .. Len(s) : Append(s, e)[i] = s[i]
         /\ Append(s, e)[Len(s) + 1] = e
  OBVIOUS

LEMMA Tailed ==
  ASSUME NEW S, NEW s \in Seq(S), s # <<>>
  PROVE  /\ Tail(s) \in Seq(S)
         /\ Len(s) \in Nat \ {0}
         /\ Len(Tail(s)) = Len(s) - 1
         /\ DOMAIN Tail(s) = 1 .. Len(s) - 1
         /\ \A i \in 1 .. Len(s) - 1 : Tail(s)[i] = s[i + 1]
         /\ Head(s) = s[1] /\ Head(s) \in S
  OBVIOUS

LEMMA NotEmpty ==
  ASSUME NEW s, Len(s) # 0
  PROVE  s # <<>>
<1>1. Len(<<>>) = 0
  OBVIOUS
<1> QED BY <1>1

\* What is left of a plan once its first request is made is a plan, and not the last
\* when that request was the session lock.
LEMMA PlanTail ==
  ASSUME NEW p, Sound(p), p # <<>>
  PROVE  /\ Sound(Tail(p))
         /\ Len(p) > 1 => Tail(p) # <<>>
         /\ Head(p) = "filelock" => /\ Tail(p) # <<>>
                                    /\ Tail(Tail(p)) # <<>>
                                    /\ Sound(Tail(Tail(p)))
<1>1. p \in Seq(Steps)
  BY DEF Sound
<1>2. Tail(p) \in Seq(Steps) /\ Len(Tail(p)) = Len(p) - 1 /\ Len(p) \in Nat \ {0}
  BY <1>1, Tailed
<1>3. \A i \in 1 .. Len(p) - 1 : Tail(p)[i] = p[i + 1]
  BY <1>1, Tailed
<1>4. Sound(Tail(p))
  BY <1>2, <1>3 DEF Sound
<1>5. Len(p) > 1 => Tail(p) # <<>>
  <2> SUFFICES ASSUME Len(p) > 1 PROVE Len(Tail(p)) # 0
    BY NotEmpty
  <2> QED BY <1>2
<1>6. ASSUME Head(p) = "filelock"
      PROVE  Tail(p) # <<>> /\ Tail(Tail(p)) # <<>> /\ Sound(Tail(Tail(p)))
  <2>1. p[1] = "filelock" /\ 1 + 2 <= Len(p)
    BY <1>1, <1>2, <1>6 DEF Sound
  <2>2. Tail(p) # <<>>
    BY <1>2, <1>5, <2>1
  <2>3. Tail(Tail(p)) \in Seq(Steps) /\ Len(Tail(Tail(p))) = Len(p) - 2
    BY <1>2, <2>2, Tailed
  <2>4. \A i \in 1 .. Len(p) - 2 : Tail(Tail(p))[i] = Tail(p)[i + 1]
    BY <1>2, <2>2, Tailed
  <2>5. Sound(Tail(Tail(p)))
    <3> DEFINE t == Tail(p)
               tt == Tail(t)
    <3>1. /\ tt \in Seq(Steps) /\ Len(tt) = Len(t) - 1 /\ Len(t) \in Nat
          /\ \A i \in 1 .. Len(t) - 1 : tt[i] = t[i + 1]
      BY <1>2, <2>3, <2>4
    <3>2. Sound(t)
      BY <1>4
    <3> HIDE DEF t, tt
    <3>3. Sound(tt)
      BY <3>1, <3>2 DEF Sound
    <3> QED BY <3>3 DEF tt, t
  <2>6. Len(Tail(Tail(p))) # 0
    BY <1>2, <2>1, <2>3
  <2> QED BY <2>2, <2>5, <2>6, NotEmpty
<1> QED BY <1>4, <1>5, <1>6

LEMMA Joined ==
  ASSUME NEW S, NEW s \in Seq(S), NEW t \in Seq(S)
  PROVE  /\ s \o t \in Seq(S)
         /\ Len(s \o t) = Len(s) + Len(t)
         /\ \A i \in 1 .. Len(s) : (s \o t)[i] = s[i]
         /\ \A i \in Len(s) + 1 .. Len(s) + Len(t) : (s \o t)[i] = t[i - Len(s)]
  OBVIOUS

LEMMA FirstPlanSound ==
  ASSUME NEW m \in Modes
  PROVE  Sound(FirstPlan(m)) /\ FirstPlan(m) # <<>>
<1> DEFINE a == IF m.app THEN <<"app">> ELSE <<>>
           f == IF m.force THEN <<"filelock", "refresh">> ELSE <<>>
           u == <<"auth">>
<1>1. /\ a \in Seq(Steps) /\ \A i \in 1 .. Len(a) : a[i] # "filelock"
      /\ f \in Seq(Steps) /\ \A i \in 1 .. Len(f) : f[i] = "filelock" => i + 1 <= Len(f)
      /\ u \in Seq(Steps) /\ Len(u) = 1 /\ u[1] = "auth"
  <2>3. <<>> \in Seq(Steps) /\ Len(<<>>) = 0
    OBVIOUS
  <2>1. a \in Seq(Steps) /\ \A i \in 1 .. Len(a) : a[i] # "filelock"
    <3>1. CASE m.app
      <4>1. <<"app">> \in Seq(Steps) /\ \A i \in 1 .. Len(<<"app">>) : <<"app">>[i] # "filelock"
        BY DEF Steps
      <4> QED BY <3>1, <4>1
    <3>2. CASE ~m.app
      <4>1. a = <<>>
        BY <3>2
      <4> QED BY <2>3, <4>1
    <3> QED BY <3>1, <3>2
  <2>2. f \in Seq(Steps) /\ \A i \in 1 .. Len(f) : f[i] = "filelock" => i + 1 <= Len(f)
    <3>1. CASE m.force
      <4> DEFINE t == <<"filelock", "refresh">>
      <4>1. t \in Seq(Steps) /\ \A i \in 1 .. Len(t) : t[i] = "filelock" => i + 1 <= Len(t)
        BY DEF Steps
      <4>2. f = t
        BY <3>1
      <4> HIDE DEF t, f
      <4> QED BY <4>1, <4>2
    <3>2. CASE ~m.force
      <4>1. f = <<>>
        BY <3>2
      <4> QED BY <2>3, <4>1
    <3> QED BY <3>1, <3>2
  <2>4. u \in Seq(Steps) /\ Len(u) = 1 /\ u[1] = "auth"
    BY DEF Steps
  <2> QED BY <2>1, <2>2, <2>4
<1> HIDE DEF a, f, u
<1>2. /\ a \o f \in Seq(Steps)
      /\ \A i \in 1 .. Len(a \o f) : (a \o f)[i] = "filelock" => i + 1 <= Len(a \o f)
  <2>1. /\ a \o f \in Seq(Steps) /\ Len(a \o f) = Len(a) + Len(f)
        /\ \A i \in 1 .. Len(a) : (a \o f)[i] = a[i]
        /\ \A i \in Len(a) + 1 .. Len(a) + Len(f) : (a \o f)[i] = f[i - Len(a)]
    <3>1. a \in Seq(Steps) /\ f \in Seq(Steps)
      BY <1>1
    <3> QED BY <3>1, Joined
  <2>2. ASSUME NEW i \in 1 .. Len(a \o f), (a \o f)[i] = "filelock"
        PROVE  i + 1 <= Len(a \o f)
    <3>1. Len(a) \in Nat /\ Len(f) \in Nat
      BY <1>1
    <3>2. i \in Len(a) + 1 .. Len(a) + Len(f)
      BY <1>1, <2>1, <2>2, <3>1
    <3>3. i - Len(a) \in 1 .. Len(f) /\ f[i - Len(a)] = "filelock"
      BY <2>1, <2>2, <3>1, <3>2
    <3> QED BY <1>1, <2>1, <3>1, <3>3
  <2> QED BY <2>1, <2>2
<1>3. Sound((a \o f) \o u) /\ Len((a \o f) \o u) # 0
  <2> DEFINE b == a \o f
  <2> HIDE DEF b
  <2>1. b \in Seq(Steps) /\ Len(b) \in Nat
        /\ \A i \in 1 .. Len(b) : b[i] = "filelock" => i + 1 <= Len(b)
    BY <1>2 DEF b
  <2>2. /\ b \o u \in Seq(Steps) /\ Len(b \o u) = Len(b) + 1
        /\ \A i \in 1 .. Len(b) : (b \o u)[i] = b[i]
        /\ \A i \in Len(b) + 1 .. Len(b) + 1 : (b \o u)[i] = u[i - Len(b)]
    <3>1. /\ b \o u \in Seq(Steps) /\ Len(b \o u) = Len(b) + Len(u)
          /\ \A i \in 1 .. Len(b) : (b \o u)[i] = b[i]
          /\ \A i \in Len(b) + 1 .. Len(b) + Len(u) : (b \o u)[i] = u[i - Len(b)]
      <4>1. b \in Seq(Steps) /\ u \in Seq(Steps)
        BY <1>1, <2>1
      <4> QED BY <4>1, Joined
    <3>2. Len(u) = 1
      BY <1>1
    <3> QED BY <3>1, <3>2
  <2>3. \A i \in Len(b) + 1 .. Len(b) + 1 : (b \o u)[i] = "auth"
    BY <1>1, <2>1, <2>2
  <2>4. Sound(b \o u) /\ Len(b \o u) # 0
    BY <2>1, <2>2, <2>3 DEF Sound
  <2> QED BY <2>4 DEF b
<1>4. FirstPlan(m) = (a \o f) \o u
  BY DEF FirstPlan, a, f, u
<1> QED BY <1>3, <1>4, NotEmpty

LEMMA FallbackSound ==
  ASSUME NEW c, NEW told
  PROVE  Sound(Fallback(c, told))
<1>1. Sound(<<"app", "filelock", "refresh", "auth">>)
  BY DEF Sound, Steps
<1>2. Sound(<<"filelock", "refresh", "auth">>)
  BY DEF Sound, Steps
<1>3. Sound(<<"app", "auth">>)
  BY DEF Sound, Steps
<1>4. Sound(<<>>)
  BY DEF Sound, Steps
<1> QED BY <1>1, <1>2, <1>3, <1>4 DEF Fallback

-----------------------------------------------------------------------------
(* Answers on their way *)

LEMMA InboxType == TypeOK => inbox \in Seq(Messages)
  BY DEF TypeOK, Messages, Whats

LEMMA MatchKept ==
  ASSUME AnswersMatch, inbox' = inbox, \A d \in Callers : Waits(d)' <=> Waits(d)
  PROVE  AnswersMatch'
  BY DEF AnswersMatch

LEMMA MatchGone ==
  ASSUME inbox' = <<>>, open' = FALSE
  PROVE  AnswersMatch'
<1>1. DOMAIN inbox' = {}
  OBVIOUS
<1>2. \A d \in Callers : ~Waits(d)'
  BY DEF Waits, Alive
<1> QED BY <1>1, <1>2 DEF AnswersMatch

\* A reply is sent to a caller that waits from then on, or a push to nobody.
LEMMA MatchReply ==
  ASSUME TypeOK, AnswersMatch, NEW c \in Callers \cup {NoOne}, NEW what \in Whats, Reply(c, what),
         c \in Callers => ~Waits(c) /\ Waits(c)',
         \A d \in Callers \ {c} : Waits(d)' <=> Waits(d)
  PROVE  inbox' \in Seq(Messages) /\ AnswersMatch'
<1> DEFINE m == [to |-> c, what |-> what]
           n == Len(inbox)
<1>1. inbox \in Seq(Messages) /\ m \in Messages
  BY InboxType DEF Messages
<1>2. /\ inbox' \in Seq(Messages) /\ n \in Nat
      /\ DOMAIN inbox' = 1 .. n + 1 /\ DOMAIN inbox = 1 .. n
      /\ \A i \in 1 .. n : inbox'[i] = inbox[i]
      /\ inbox'[n + 1] = m
  BY <1>1, Appended DEF Reply
<1>3. m.to = c
  OBVIOUS
<1> HIDE DEF m, n
<1>4. ASSUME NEW i \in DOMAIN inbox', NEW j \in DOMAIN inbox', inbox'[i].to = inbox'[j].to,
             inbox'[i].to \in Callers
      PROVE  i = j
  <2>1. CASE i = n + 1 /\ j # n + 1
    <3>1. j \in DOMAIN inbox /\ inbox[j].to = c /\ c \in Callers
      BY <1>2, <1>3, <1>4, <2>1
    <3> QED BY <3>1 DEF AnswersMatch
  <2>2. CASE j = n + 1 /\ i # n + 1
    <3>1. i \in DOMAIN inbox /\ inbox[i].to = c /\ c \in Callers
      BY <1>2, <1>3, <1>4, <2>2
    <3> QED BY <3>1 DEF AnswersMatch
  <2>3. CASE i # n + 1 /\ j # n + 1
    BY <1>2, <1>4, <2>3 DEF AnswersMatch
  <2> QED BY <2>1, <2>2, <2>3
<1>5. ASSUME NEW d \in Callers
      PROVE  (\E i \in DOMAIN inbox' : inbox'[i].to = d) <=> Waits(d)'
  <2>1. CASE d = c
    <3>1. n + 1 \in DOMAIN inbox' /\ inbox'[n + 1].to = d
      BY <1>2, <1>3, <2>1
    <3> QED BY <3>1, <2>1
  <2>2. CASE d # c
    <3>1. (\E i \in DOMAIN inbox' : inbox'[i].to = d) <=> (\E i \in DOMAIN inbox : inbox[i].to = d)
      BY <1>2, <1>3, <2>2
    <3> QED BY <3>1, <2>2 DEF AnswersMatch
  <2> QED BY <2>1, <2>2
<1> QED BY <1>2, <1>4, <1>5 DEF AnswersMatch

\* An answer is taken by its caller, which waits no more, or a push by the router.
LEMMA MatchTaken ==
  ASSUME TypeOK, AnswersMatch, inbox # <<>>, inbox' = Tail(inbox),
         NEW c \in Callers \cup {NoOne}, Head(inbox).to = c, c \in Callers => ~Waits(c)',
         \A d \in Callers \ {c} : Waits(d)' <=> Waits(d)
  PROVE  inbox' \in Seq(Messages) /\ AnswersMatch'
<1> DEFINE n == Len(inbox)
<1>1. inbox \in Seq(Messages)
  BY InboxType
<1>2. /\ inbox' \in Seq(Messages) /\ n \in Nat \ {0}
      /\ DOMAIN inbox' = 1 .. n - 1 /\ DOMAIN inbox = 1 .. n
      /\ \A i \in 1 .. n - 1 : inbox'[i] = inbox[i + 1]
      /\ Head(inbox) = inbox[1]
  BY <1>1, Tailed
<1> HIDE DEF n
<1>3. \A i \in DOMAIN inbox' : i \in Nat /\ i + 1 \in DOMAIN inbox /\ inbox'[i] = inbox[i + 1]
  BY <1>2
<1>4. ASSUME NEW i \in DOMAIN inbox', NEW j \in DOMAIN inbox', inbox'[i].to = inbox'[j].to,
             inbox'[i].to \in Callers
      PROVE  i = j
  <2>1. i + 1 = j + 1
    BY <1>3, <1>4 DEF AnswersMatch
  <2> QED BY <1>3, <2>1
<1>5. ASSUME NEW d \in Callers
      PROVE  (\E i \in DOMAIN inbox' : inbox'[i].to = d) <=> Waits(d)'
  <2>1. CASE d = c
    <3>1. ASSUME NEW i \in DOMAIN inbox', inbox'[i].to = d
          PROVE  FALSE
      <4>1. i + 1 \in DOMAIN inbox /\ 1 \in DOMAIN inbox /\ inbox[i + 1].to = d /\ inbox[1].to = d
        BY <1>2, <1>3, <2>1, <3>1
      <4>2. i + 1 = 1
        BY <4>1 DEF AnswersMatch
      <4> QED BY <1>2, <4>2
    <3> QED BY <2>1, <3>1
  <2>2. CASE d # c
    <3>1. ASSUME NEW i \in DOMAIN inbox, inbox[i].to = d
          PROVE  \E j \in DOMAIN inbox' : inbox'[j].to = d
      <4>1. i # 1
        BY <1>2, <2>2, <3>1
      <4>2. i - 1 \in DOMAIN inbox' /\ inbox'[i - 1] = inbox[i]
        BY <1>2, <4>1
      <4> QED BY <3>1, <4>2
    <3>2. (\E i \in DOMAIN inbox' : inbox'[i].to = d) <=> (\E i \in DOMAIN inbox : inbox[i].to = d)
      BY <1>3, <3>1
    <3> QED BY <3>2, <2>2 DEF AnswersMatch
  <2> QED BY <2>1, <2>2
<1> QED BY <1>2, <1>4, <1>5 DEF AnswersMatch

-----------------------------------------------------------------------------
(* What a write is told *)

\* Every message to r was on its way before.
NothingNew(r) == \A j \in DOMAIN inbox' : inbox'[j].to = r => \E i \in DOMAIN inbox : inbox[i] = inbox'[j]

Midway == PcStates \ {"idle", "answered", "reanswered"}

LEMMA NewNothing ==
  ASSUME inbox \in Seq(Messages), inbox' = inbox \/ inbox' = <<>> \/ (inbox # <<>> /\ inbox' = Tail(inbox)),
         NEW r
  PROVE  NothingNew(r)
<1>1. CASE inbox' = inbox
  BY <1>1 DEF NothingNew
<1>2. CASE inbox' = <<>>
  BY <1>2 DEF NothingNew
<1>3. CASE inbox # <<>> /\ inbox' = Tail(inbox)
  <2>1. \A j \in DOMAIN inbox' : j + 1 \in DOMAIN inbox /\ inbox'[j] = inbox[j + 1]
    BY <1>3, Tailed
  <2> QED BY <2>1 DEF NothingNew
<1> QED BY <1>1, <1>2, <1>3

LEMMA NewToOther ==
  ASSUME inbox \in Seq(Messages), NEW c \in Callers \cup {NoOne}, NEW what \in Whats, Reply(c, what),
         NEW r, r # c
  PROVE  NothingNew(r)
<1> DEFINE m == [to |-> c, what |-> what]
           n == Len(inbox)
<1>1. m \in Messages /\ m.to = c
  BY DEF Messages
<1>2. /\ n \in Nat /\ DOMAIN inbox' = 1 .. n + 1 /\ DOMAIN inbox = 1 .. n
      /\ \A i \in 1 .. n : inbox'[i] = inbox[i]
      /\ inbox'[n + 1] = m
  BY <1>1, Appended DEF Reply
<1> HIDE DEF m, n
<1> QED BY <1>1, <1>2 DEF NothingNew

\* A write nobody moves.
LEMMA WriteStays ==
  ASSUME NEW r \in Requests, WriteSoundOf(r), pc'[r] = pc[r], executed'[r] = executed[r],
         outcome'[r] = outcome[r], NothingNew(r)
  PROVE  WriteSoundOf(r)'
  BY DEF WriteSoundOf, NothingNew

\* A write that goes from one step without an answer to another.
LEMMA WriteMoves ==
  ASSUME NEW r \in Requests, WriteSoundOf(r), pc[r] \in Midway, pc'[r] \in Midway,
         executed'[r] = executed[r], outcome'[r] = outcome[r]
  PROVE  WriteSoundOf(r)'
  BY DEF WriteSoundOf, Midway

\* A write that ends: what is told of it is true.
LEMMA WriteEnds ==
  ASSUME NEW r \in Requests, executed[r] \in {0, 1}, pc'[r] = "idle", executed'[r] = executed[r],
         outcome'[r] = "unexecuted" => executed[r] = 0, outcome'[r] = "done" => executed[r] = 1
  PROVE  WriteSoundOf(r)'
  BY DEF WriteSoundOf

-----------------------------------------------------------------------------
(* The initial state *)

LEMMA Initial == Init => IInv
<1> SUFFICES ASSUME Init PROVE IInv
  OBVIOUS
<1>1. TypeOK
  <2>1. {open, attached, ready, app, acct, tokenOk, quarantined} \subseteq BOOLEAN
    BY DEF Init
  <2>2. inbox \in Seq([to : Callers \cup {NoOne}, what : Steps \cup
                     {"ok", "client", "account", "token", "already", "refused"}])
    BY DEF Init
  <2>3. mode \in [Callers -> Modes]
    BY DEF Init, NoMode, Modes
  <2>4. plan \in [Callers -> Seq(Steps)]
    BY DEF Init
  <2>5. /\ cur \in Nat /\ gen \in Nat /\ losses \in Nat /\ overruns \in Nat
        /\ lock \in Callers \cup {NoOne}
        /\ pc \in [Callers -> PcStates] /\ on \in [Callers -> Nat]
        /\ seen \in [Requests -> Nat] /\ executed \in [Requests -> Nat]
        /\ outcome \in [Requests -> Outcomes]
    BY DEF Init, PcStates, Outcomes
  <2> QED BY <2>1, <2>2, <2>3, <2>4, <2>5 DEF TypeOK, Modes
<1>2. LockExclusive
  BY DEF Init, LockExclusive
<1>3. AnswersMatch
  <2>1. DOMAIN inbox = {}
    BY DEF Init
  <2>2. \A c \in Callers : ~Waits(c)
    BY DEF Init, Waits
  <2> QED BY <2>1, <2>2 DEF AnswersMatch
<1>4. WireSound /\ PlanSound /\ WriteSound
  BY DEF Init, WireSound, PlanSound, WriteSound, WriteSoundOf, Callers
<1> QED BY <1>1, <1>2, <1>3, <1>4 DEF IInv

-----------------------------------------------------------------------------
(* The venue and the connection *)

LEMMA VenueHandlesStep ==
  ASSUME IInv, NEW r \in Callers, VenueHandles(r)
  PROVE  IInv'
<1> USE DEF IInv
<1>1. r \in Requests /\ pc[r] \in {"sent", "resent"} /\ Alive(r) /\ pc \in [Callers -> PcStates]
      /\ executed \in [Requests -> Nat] /\ open
  BY DEF VenueHandles, TypeOK, Alive
<1>2. pc' = [pc EXCEPT ![r] = IF pc[r] = "sent" THEN "answered" ELSE "reanswered"]
  BY DEF VenueHandles, Goes
<1>3. PICK what \in Whats : /\ Reply(r, what)
                            /\ what = "ok" => executed' = [executed EXCEPT ![r] = @ + 1]
                            /\ what # "ok" => executed' = executed
  BY <1>1 DEF VenueHandles, Whats, Steps
<1>4. UNCHANGED <<connVars, venueVars, reauthVars, on, seen, quarantined, outcome, losses, overruns>>
  BY DEF VenueHandles
<1>5. \A d \in Callers : Waits(d)' <=> (Waits(d) \/ d = r)
  BY <1>1, <1>2, <1>4 DEF Waits, Alive, connVars
<1>6. ~Waits(r)
  BY <1>1 DEF Waits
<1>7. inbox' \in Seq(Messages) /\ AnswersMatch'
  BY <1>1, <1>3, <1>5, <1>6, MatchReply
<1>8. TypeOK'
  <2>1. executed' \in [Requests -> Nat] /\ pc' \in [Callers -> PcStates]
    BY <1>1, <1>2, <1>3 DEF PcStates
  <2> QED BY <1>4, <1>7, <2>1 DEF TypeOK, connVars, venueVars, reauthVars, Messages, Whats
<1>9. LockExclusive'
  BY <1>1, <1>2, <1>4 DEF LockExclusive, reauthVars
<1>10. WireSound' /\ PlanSound'
  BY <1>1, <1>4 DEF WireSound, PlanSound, connVars, reauthVars
<1>11. ASSUME NEW q \in Requests
       PROVE  WriteSoundOf(q)'
  <2>1. WriteSoundOf(q)
    BY DEF WriteSound
  <2>2. CASE q # r
    <3>1. NothingNew(q)
      BY <1>1, <1>3, <2>2, InboxType, NewToOther
    <3> QED BY <1>1, <1>2, <1>3, <1>4, <2>1, <2>2, <3>1, WriteStays DEF Callers
  <2>3. CASE q = r
    <3>1. executed[q] = 0 /\ outcome[q] = "none"
      BY <1>1, <2>1, <2>3 DEF WriteSoundOf
    <3>2. executed'[q] = IF what = "ok" THEN 1 ELSE 0
      BY <1>1, <1>3, <2>3, <3>1
    <3>3. \A i \in DOMAIN inbox' : inbox'[i].to = q => inbox'[i].what = what
      <4>1. DOMAIN inbox' = 1 .. Len(inbox) + 1 /\ DOMAIN inbox = 1 .. Len(inbox)
            /\ (\A i \in 1 .. Len(inbox) : inbox'[i] = inbox[i])
            /\ inbox'[Len(inbox) + 1] = [to |-> r, what |-> what]
        BY <1>1, <1>3, InboxType, Appended DEF Reply, Messages
      <4>2. \A i \in DOMAIN inbox : inbox[i].to # q
        BY <1>1, <1>6, <2>3 DEF AnswersMatch
      <4> QED BY <4>1, <4>2
    <3> QED BY <1>1, <1>2, <1>4, <2>3, <3>1, <3>2, <3>3 DEF WriteSoundOf
  <2> QED BY <2>2, <2>3
<1> QED BY <1>7, <1>8, <1>9, <1>10, <1>11 DEF WriteSound

LEMMA VenueAnswersStep ==
  ASSUME IInv, NEW c \in Callers, VenueAnswers(c)
  PROVE  IInv'
<1> USE DEF IInv
<1>1. pc[c] = "asking" /\ Alive(c) /\ pc \in [Callers -> PcStates] /\ open
  BY DEF VenueAnswers, TypeOK, Alive
<1>2. pc' = [pc EXCEPT ![c] = "told"]
  BY DEF VenueAnswers, Goes
<1>3. \E what \in Whats : Reply(c, what)
  BY DEF VenueAnswers, Whats, Steps
<1>4. app' \in BOOLEAN /\ acct' \in BOOLEAN /\ tokenOk' \in BOOLEAN
  BY DEF VenueAnswers, TypeOK, venueVars
<1>5. UNCHANGED <<connVars, reauthVars, on, writeVars, losses, overruns>>
  BY DEF VenueAnswers
<1>6. \A d \in Callers : Waits(d)' <=> (Waits(d) \/ d = c)
  BY <1>1, <1>2, <1>5 DEF Waits, Alive, connVars
<1>7. ~Waits(c)
  BY <1>1 DEF Waits
<1>8. inbox' \in Seq(Messages) /\ AnswersMatch'
  BY <1>3, <1>6, <1>7, MatchReply
<1>9. TypeOK'
  <2>1. pc' \in [Callers -> PcStates]
    BY <1>1, <1>2 DEF PcStates, Recovering
  <2> QED BY <1>4, <1>5, <1>8, <2>1 DEF TypeOK, connVars, reauthVars, writeVars, Messages, Whats
<1>10. LockExclusive'
  BY <1>1, <1>2, <1>5 DEF LockExclusive, reauthVars
<1>11. WireSound' /\ PlanSound'
  BY <1>1, <1>5 DEF WireSound, PlanSound, connVars, reauthVars
<1>12. ASSUME NEW q \in Requests
       PROVE  WriteSoundOf(q)'
  <2>1. WriteSoundOf(q) /\ q \in Callers
    BY DEF WriteSound, Callers
  <2>2. CASE q # c
    <3>1. NothingNew(q)
      BY <1>3, <2>2, InboxType, NewToOther
    <3> QED BY <1>1, <1>2, <1>5, <2>1, <2>2, <3>1, WriteStays DEF writeVars
  <2>3. CASE q = c
    <3>1. pc[q] \in Midway /\ pc'[q] \in Midway
      BY <1>1, <1>2, <2>1, <2>3 DEF Midway, PcStates, Recovering
    <3> QED BY <1>5, <2>1, <3>1, WriteMoves DEF writeVars
  <2> QED BY <2>2, <2>3
<1> QED BY <1>8, <1>9, <1>10, <1>11, <1>12 DEF WriteSound

\* Steps that touch the callers' state in no way.
Apart == UNCHANGED <<pc, on, reauthVars, seen, executed, outcome>>

LEMMA ApartStep ==
  ASSUME IInv, Apart, TypeOK', WireSound', AnswersMatch', \A r \in Requests : NothingNew(r)
  PROVE  IInv'
<1>1. LockExclusive' /\ PlanSound'
  BY DEF IInv, Apart, LockExclusive, PlanSound, reauthVars
<1>2. WriteSound'
  BY WriteStays DEF IInv, Apart, WriteSound
<1> QED BY <1>1, <1>2 DEF IInv

LEMMA VenueDropsStep ==
  ASSUME IInv, VenueDrops
  PROVE  IInv'
<1> USE DEF IInv
<1>1. Apart /\ UNCHANGED <<connVars, quarantined, overruns>> /\ open
  BY DEF VenueDrops, Apart, writeVars
<1>2. inbox' = inbox \/ \E what \in Whats : Reply(NoOne, what)
  BY DEF VenueDrops, Whats, Steps
<1>3. app' \in BOOLEAN /\ acct' \in BOOLEAN /\ tokenOk' \in BOOLEAN /\ losses' \in Nat
  <2>1. PICK loss \in {"account", "client", "token"} :
          app' = (loss # "client") /\ tokenOk' = (tokenOk /\ loss # "token") /\ acct' = FALSE
          /\ losses' = losses + 1
    BY DEF VenueDrops
  <2>2. app' \in BOOLEAN /\ tokenOk' \in BOOLEAN /\ acct' \in BOOLEAN
    BY <2>1, Zenon
  <2>3. losses' \in Nat
    BY <2>1 DEF TypeOK
  <2> QED BY <2>2, <2>3
<1>4. \A d \in Callers : Waits(d)' <=> Waits(d)
  BY <1>1 DEF Waits, Alive, connVars, Apart
<1>5. NoOne \notin Callers
  OBVIOUS
<1>6. inbox' \in Seq(Messages) /\ AnswersMatch'
  BY <1>2, <1>4, <1>5, InboxType, MatchKept, MatchReply
<1>7. TypeOK'
  BY <1>1, <1>3, <1>6 DEF TypeOK, Apart, connVars, reauthVars, Messages, Whats
<1>8. WireSound'
  BY <1>1 DEF WireSound, connVars, Apart
<1>9. \A r \in Requests : NothingNew(r)
  <2>1. \A r \in Requests : r # NoOne
    BY DEF Callers
  <2> QED BY <1>2, <2>1, InboxType, NewNothing, NewToOther
<1> QED BY <1>1, <1>6, <1>7, <1>8, <1>9, ApartStep

LEMMA NetLossStep ==
  ASSUME IInv, NetLoss
  PROVE  IInv'
<1> USE DEF IInv
<1>1. Apart /\ Down /\ UNCHANGED <<cur, attached, ready, tokenOk, quarantined, losses, overruns>>
  BY DEF NetLoss, Apart, writeVars
<1>2. TypeOK'
  <2>1. inbox' \in Seq(Messages)
    BY <1>1 DEF Down
  <2>2. open' \in BOOLEAN /\ app' \in BOOLEAN /\ acct' \in BOOLEAN
    BY <1>1 DEF Down
  <2> QED BY <1>1, <2>1, <2>2 DEF TypeOK, Apart, reauthVars, Messages, Whats
<1>3. WireSound'
  BY <1>1 DEF WireSound, Down, Apart
<1>4. AnswersMatch'
  BY <1>1, MatchGone DEF Down
<1>5. \A r \in Requests : NothingNew(r)
  BY <1>1, InboxType, NewNothing DEF Down
<1> QED BY <1>1, <1>2, <1>3, <1>4, <1>5, ApartStep

LEMMA FlagSteps ==
  ASSUME IInv, Connect \/ Handshake \/ Quarantine
  PROVE  IInv'
<1> USE DEF IInv
<1>1. Apart /\ UNCHANGED <<inbox, losses, overruns>>
  BY DEF Connect, Handshake, Quarantine, Apart, writeVars
<1>2. TypeOK'
  <2>1. {open, attached, ready, app, acct, tokenOk, quarantined}' \subseteq BOOLEAN /\ cur' \in Nat
    <3>1. CASE Connect
      <4>1. open' \in BOOLEAN /\ attached' \in BOOLEAN /\ cur' \in Nat
        BY <3>1 DEF TypeOK, Connect
      <4>2. UNCHANGED <<ready, app, acct, tokenOk, quarantined>>
        BY <3>1, <1>1 DEF Connect, venueVars, writeVars
      <4> QED BY <4>1, <4>2 DEF TypeOK
    <3>2. CASE Handshake
      <4>1. app' \in BOOLEAN /\ acct' \in BOOLEAN /\ tokenOk' \in BOOLEAN /\ ready' \in BOOLEAN
        BY <3>2 DEF Handshake
      <4>2. UNCHANGED <<cur, open, attached, quarantined>>
        BY <3>2 DEF Handshake, writeVars
      <4> QED BY <4>1, <4>2 DEF TypeOK
    <3>3. CASE Quarantine
      BY <3>3 DEF TypeOK, Quarantine, connVars, venueVars
    <3> QED BY <3>1, <3>2, <3>3
  <2> QED BY <1>1, <2>1 DEF TypeOK, Apart, reauthVars
<1>3. WireSound'
  BY <1>1 DEF TypeOK, WireSound, Apart, Connect, Handshake, Quarantine, connVars
<1>4. \A d \in Callers : Waits(d)' <=> Waits(d)
  BY <1>1 DEF TypeOK, WireSound, Waits, Alive, Apart, Connect, Handshake, Quarantine, connVars
<1>5. AnswersMatch'
  BY <1>1, <1>4, MatchKept
<1>6. \A r \in Requests : NothingNew(r)
  BY <1>1, InboxType, NewNothing
<1> QED BY <1>1, <1>2, <1>3, <1>5, <1>6, ApartStep

LEMMA DisconnectStep ==
  ASSUME IInv, Disconnect
  PROVE  IInv'
<1> USE DEF IInv
<1>1. /\ ~open /\ attached' = FALSE /\ ready' = FALSE
      /\ pc' = [pc EXCEPT ![Push] = "idle"] /\ on' = [on EXCEPT ![Push] = 0]
      /\ seen' = [r \in Requests |-> IF r = Push THEN 0 ELSE seen[r]]
      /\ plan' = [plan EXCEPT ![Push] = <<>>] /\ mode' = [mode EXCEPT ![Push] = NoMode]
      /\ lock' = IF lock = Push THEN NoOne ELSE lock
      /\ UNCHANGED <<cur, open, venueVars, inbox, gen, quarantined, executed, outcome, losses, overruns>>
  BY DEF Disconnect, Ends, Goes
<1>2. Push \in Callers /\ Push \notin Requests /\ NoOne \notin Callers
  BY DEF Callers
<1>3. TypeOK'
  <2>1. /\ pc' \in [Callers -> PcStates] /\ on' \in [Callers -> Nat] /\ seen' \in [Requests -> Nat]
        /\ lock' \in Callers \cup {NoOne}
    BY <1>1 DEF TypeOK, PcStates
  <2>2. plan' \in [Callers -> Seq(Steps)]
    <3>1. <<>> \in Seq(Steps)
      OBVIOUS
    <3> QED BY <1>1, <3>1 DEF TypeOK
  <2>3. mode' \in [Callers -> [app : BOOLEAN, force : BOOLEAN, fallback : BOOLEAN]]
    BY <1>1 DEF TypeOK, NoMode
  <2> QED BY <1>1, <2>1, <2>2, <2>3 DEF TypeOK, venueVars
<1>4. LockExclusive'
  BY <1>1, <1>2 DEF LockExclusive, TypeOK
<1>5. AnswersMatch'
  <2>1. \A d \in Callers : ~Waits(d) /\ ~Waits(d)'
    BY <1>1 DEF Waits, Alive
  <2> QED BY <1>1, <2>1, MatchKept
<1>6. WireSound'
  BY <1>1 DEF WireSound, TypeOK
<1>7. PlanSound'
  BY <1>1 DEF PlanSound, TypeOK
<1>8. WriteSound'
  <2>1. \A r \in Requests : NothingNew(r)
    BY <1>1, InboxType, NewNothing
  <2> QED BY <1>1, <1>2, <2>1, WriteStays DEF WriteSound, TypeOK, Callers
<1> QED BY <1>3, <1>4, <1>5, <1>6, <1>7, <1>8

-----------------------------------------------------------------------------
(* Writes *)

Plain == UNCHANGED <<connVars, venueVars, losses, overruns>>

\* One caller moves; the others' writes are as they were.
LEMMA WriteRest ==
  ASSUME WriteSound, NEW c \in Callers, c \in Requests => WriteSoundOf(c)',
         \A q \in Requests \ {c} : /\ pc'[q] = pc[q] /\ executed'[q] = executed[q]
                                  /\ outcome'[q] = outcome[q] /\ NothingNew(q)
  PROVE  WriteSound'
  BY WriteStays DEF WriteSound

\* A write that does not hold the lock is over.
LEMMA TellsStep ==
  ASSUME IInv, NEW r \in Requests, NEW what \in Outcomes, Tells(r, what), Plain,
         pc[r] \notin {"stepping", "asking", "told"},
         UNCHANGED <<gen, lock, plan, mode, quarantined, executed>>,
         what = "unexecuted" => executed[r] = 0, what = "done" => executed[r] = 1,
         inbox' \in Seq(Messages), ~open => inbox' = <<>>, AnswersMatch',
         \A q \in Requests : NothingNew(q)
  PROVE  IInv'
<1> USE DEF IInv
<1>1. /\ pc' = [pc EXCEPT ![r] = "idle"] /\ on' = [on EXCEPT ![r] = 0]
      /\ seen' = [q \in Requests |-> IF q = r THEN 0 ELSE seen[q]]
      /\ outcome' = [outcome EXCEPT ![r] = what]
  BY DEF Tells, Ends, Goes
<1>2. r \in Callers /\ pc \in [Callers -> PcStates] /\ outcome \in [Requests -> Outcomes]
  BY DEF Callers, TypeOK
<1>3. TypeOK'
  <2>1. /\ pc' \in [Callers -> PcStates] /\ on' \in [Callers -> Nat] /\ seen' \in [Requests -> Nat]
        /\ outcome' \in [Requests -> Outcomes]
    BY <1>1, <1>2 DEF TypeOK, PcStates
  <2> QED BY <2>1 DEF TypeOK, Plain, connVars, venueVars, Messages, Whats
<1>4. LockExclusive'
  BY <1>1, <1>2 DEF LockExclusive
<1>5. WireSound' /\ PlanSound'
  BY <1>1, <1>2 DEF WireSound, PlanSound, Plain, connVars, TypeOK
<1>6. WriteSoundOf(r)'
  <2>1. executed[r] \in {0, 1}
    BY DEF WriteSound, WriteSoundOf
  <2> QED BY <1>1, <1>2, <2>1, WriteEnds
<1>7. WriteSound'
  BY <1>1, <1>2, <1>6, WriteRest DEF Callers
<1> QED BY <1>3, <1>4, <1>5, <1>7

LEMMA IssueStep ==
  ASSUME IInv, NEW r \in Requests, Issue(r)
  PROVE  IInv'
<1> USE DEF IInv
<1>1. /\ pc[r] = "idle" /\ pc' = [pc EXCEPT ![r] = "writing"] /\ on' = [on EXCEPT ![r] = cur]
      /\ seen' = [seen EXCEPT ![r] = gen]
      /\ executed' = [executed EXCEPT ![r] = 0] /\ outcome' = [outcome EXCEPT ![r] = "none"]
      /\ UNCHANGED <<connVars, venueVars, inbox, reauthVars, quarantined, losses, overruns>>
  BY DEF Issue, Goes
<1>2. /\ r \in Callers /\ pc \in [Callers -> PcStates] /\ outcome \in [Requests -> Outcomes]
      /\ executed \in [Requests -> Nat] /\ on \in [Callers -> Nat] /\ cur \in Nat
  BY DEF Callers, TypeOK
<1>3. TypeOK'
  <2>1. /\ pc' \in [Callers -> PcStates] /\ on' \in [Callers -> Nat] /\ seen' \in [Requests -> Nat]
        /\ outcome' \in [Requests -> Outcomes] /\ executed' \in [Requests -> Nat]
    BY <1>1, <1>2 DEF TypeOK, PcStates, Outcomes
  <2> QED BY <1>1, <2>1 DEF TypeOK, connVars, venueVars, reauthVars
<1>4. LockExclusive'
  BY <1>1, <1>2 DEF LockExclusive, reauthVars
<1>5. AnswersMatch'
  <2>1. \A d \in Callers : Waits(d)' <=> Waits(d)
    BY <1>1, <1>2 DEF Waits, Alive, connVars
  <2> QED BY <1>1, <2>1, MatchKept
<1>6. WireSound' /\ PlanSound'
  BY <1>1, <1>2 DEF WireSound, PlanSound, connVars, reauthVars
<1>7. WriteSoundOf(r)'
  BY <1>1, <1>2 DEF WriteSoundOf
<1>8. \A q \in Requests : NothingNew(q)
  BY <1>1, InboxType, NewNothing
<1> QED BY <1>1, <1>2, <1>3, <1>4, <1>5, <1>6, <1>7, <1>8, WriteRest DEF Callers

\* A caller goes from one step to another, both of them without the lock or both with
\* it, and neither waiting for an answer that is on its way.
LEMMA GoesStep ==
  ASSUME IInv, NEW c \in Callers, NEW where \in Midway \ {"told"}, Goes(c, where),
         pc[c] \in Midway, pc[c] # "told",
         pc[c] \in {"stepping", "asking"} <=> where \in {"stepping", "asking"},
         on' = on \/ on' = [on EXCEPT ![c] = cur],
         UNCHANGED <<connVars, app, acct, inbox, gen, lock, seen, quarantined, executed, outcome, losses,
                     overruns>>,
         tokenOk' \in BOOLEAN,
         mode' \in [Callers -> Modes],
         \A d \in Callers : Sound(plan'[d]) /\ (plan'[d] # <<>> <=> plan[d] # <<>>),
         plan' \in [Callers -> Seq(Steps)]
  PROVE  IInv'
<1> USE DEF IInv
<1>1. pc' = [pc EXCEPT ![c] = where]
  BY DEF Goes
<1>2. pc \in [Callers -> PcStates] /\ where \in PcStates /\ on \in [Callers -> Nat] /\ cur \in Nat
  BY DEF TypeOK, Midway
<1>3. TypeOK'
  <2>1. pc' \in [Callers -> PcStates]
    BY <1>1, <1>2
  <2>2. on' \in [Callers -> Nat]
    BY <1>2
  <2> QED BY <2>1, <2>2 DEF TypeOK, connVars, Modes
<1>4. LockExclusive'
  BY <1>1, <1>2 DEF LockExclusive, Midway
<1>5. AnswersMatch'
  <2>1. \A d \in Callers : Waits(d)' <=> Waits(d)
    BY <1>1, <1>2 DEF Waits, Alive, connVars, Midway
  <2> QED BY <2>1, MatchKept
<1>6. WireSound'
  <2>1. \A d \in Callers : on'[d] <= cur
    <3>1. \A d \in Callers : on[d] <= cur
      BY DEF WireSound
    <3>2. CASE on' = on
      BY <3>1, <3>2
    <3>3. CASE on' = [on EXCEPT ![c] = cur]
      BY <1>2, <3>1, <3>3
    <3> QED BY <3>2, <3>3
  <2> QED BY <2>1 DEF WireSound, connVars
<1>7. PlanSound'
  BY DEF PlanSound, Sound
<1>8. WriteSound'
  <2>1. \A q \in Requests : NothingNew(q)
    BY InboxType, NewNothing
  <2>2. c \in Requests => WriteSoundOf(c)'
    BY <1>1, <1>2, WriteMoves DEF WriteSound
  <2> QED BY <1>1, <1>2, <2>1, <2>2, WriteRest DEF Callers
<1> QED BY <1>3, <1>4, <1>5, <1>6, <1>7, <1>8

LEMMA PlansKept == ASSUME IInv PROVE
  plan \in [Callers -> Seq(Steps)] /\ mode \in [Callers -> Modes] /\ \A d \in Callers : Sound(plan[d])
  BY DEF IInv, TypeOK, PlanSound, Sound, Modes

LEMMA WriteActStep ==
  ASSUME IInv, NEW r \in Requests, Write(r)
  PROVE  IInv'
<1>1. pc[r] \in {"writing", "rewriting"} /\ r \in Callers
      /\ UNCHANGED <<connVars, venueVars, inbox, reauthVars, quarantined, executed, losses, overruns>>
  BY DEF Write, Callers
<1>2. CASE quarantined \/ ~Alive(r)
  <2>1. PICK told \in {"unexecuted", "unknown"} : Tells(r, told)
    BY <1>2, <1>1 DEF Write
  <2>2. executed[r] = 0
    BY <1>1 DEF IInv, WriteSound, WriteSoundOf
  <2>3. AnswersMatch'
    <3>1. pc' = [pc EXCEPT ![r] = "idle"] /\ on' = [on EXCEPT ![r] = 0]
      BY <2>1 DEF Tells, Ends, Goes
    <3>2. \A d \in Callers : Waits(d)' <=> Waits(d)
      BY <1>1, <3>1 DEF Waits, Alive, connVars, IInv, TypeOK
    <3> QED BY <1>1, <3>2, MatchKept DEF IInv
  <2>4. \A q \in Requests : NothingNew(q)
    BY <1>1, InboxType, NewNothing DEF IInv
  <2>5. inbox' \in Seq(Messages) /\ (~open => inbox' = <<>>)
    BY <1>1, InboxType DEF IInv, WireSound
  <2> QED BY <1>1, <2>1, <2>2, <2>3, <2>4, <2>5, TellsStep DEF Plain, reauthVars, Outcomes
<1>3. CASE ~(quarantined \/ ~Alive(r))
  <2>1. Goes(r, IF pc[r] = "writing" THEN "sent" ELSE "resent") /\ UNCHANGED <<on, seen, outcome>>
    BY <1>3 DEF Write
  <2>2. PICK where \in {"sent", "resent"} : Goes(r, where)
    BY <2>1
  <2>3. tokenOk' \in BOOLEAN
    BY <1>1 DEF venueVars, IInv, TypeOK
  <2> QED BY <1>1, <2>1, <2>2, <2>3, PlansKept, GoesStep DEF Midway, PcStates, Recovering, venueVars, reauthVars
<1> QED BY <1>2, <1>3

LEMMA ConnectionLostStep ==
  ASSUME IInv, NEW r \in Requests, ConnectionLost(r)
  PROVE  IInv'
<1>1. /\ pc[r] \in {"sent", "answered", "resent", "reanswered"} /\ r \in Callers /\ ~Alive(r)
      /\ Tells(r, "unknown")
      /\ UNCHANGED <<connVars, venueVars, inbox, reauthVars, quarantined, executed, losses, overruns>>
  BY DEF ConnectionLost, Callers
<1>2. AnswersMatch'
  <2>1. pc' = [pc EXCEPT ![r] = "idle"] /\ on' = [on EXCEPT ![r] = 0]
    BY <1>1 DEF Tells, Ends, Goes
  <2>2. \A d \in Callers : Waits(d)' <=> Waits(d)
    BY <1>1, <2>1 DEF Waits, Alive, connVars, IInv, TypeOK
  <2> QED BY <1>1, <2>2, MatchKept DEF IInv
<1>3. \A q \in Requests : NothingNew(q)
  BY <1>1, InboxType, NewNothing DEF IInv
<1>4. inbox' \in Seq(Messages) /\ (~open => inbox' = <<>>)
  BY <1>1, InboxType DEF IInv, WireSound
<1> QED BY <1>1, <1>2, <1>3, <1>4, TellsStep DEF Plain, reauthVars, Outcomes

LEMMA ResumeStep ==
  ASSUME IInv, NEW r \in Requests, Resume(r)
  PROVE  IInv'
<1>1. pc[r] = "rewon" /\ r \in Callers
      /\ UNCHANGED <<connVars, venueVars, inbox, reauthVars, quarantined, executed, losses, overruns>>
  BY DEF Resume, Callers
<1>2. CASE ~attached
  <2>1. Tells(r, "unexecuted")
    BY <1>2 DEF Resume
  <2>2. executed[r] = 0
    BY <1>1 DEF IInv, WriteSound, WriteSoundOf
  <2>3. AnswersMatch'
    <3>1. pc' = [pc EXCEPT ![r] = "idle"] /\ on' = [on EXCEPT ![r] = 0]
      BY <2>1 DEF Tells, Ends, Goes
    <3>2. \A d \in Callers : Waits(d)' <=> Waits(d)
      BY <1>1, <3>1 DEF Waits, Alive, connVars, IInv, TypeOK
    <3> QED BY <1>1, <3>2, MatchKept DEF IInv
  <2>4. \A q \in Requests : NothingNew(q)
    BY <1>1, InboxType, NewNothing DEF IInv
  <2>5. inbox' \in Seq(Messages) /\ (~open => inbox' = <<>>)
    BY <1>1, InboxType DEF IInv, WireSound
  <2> QED BY <1>1, <2>1, <2>2, <2>3, <2>4, <2>5, TellsStep DEF Plain, reauthVars, Outcomes
<1>3. CASE attached
  <2>1. Goes(r, "rewriting") /\ on' = [on EXCEPT ![r] = cur] /\ UNCHANGED <<seen, outcome>>
    BY <1>3 DEF Resume
  <2>2. tokenOk' \in BOOLEAN
    BY <1>1 DEF venueVars, IInv, TypeOK
  <2> QED BY <1>1, <2>1, <2>2, PlansKept, GoesStep DEF Midway, PcStates, Recovering, venueVars, reauthVars
<1> QED BY <1>2, <1>3

\* A write that was answered for the first time waits for the re-auth lock.
LEMMA WriteAnsweredStep ==
  ASSUME IInv, NEW r \in Requests, WriteAnswered(r)
  PROVE  IInv'
<1> DEFINE told == Head(inbox).what
<1>1. /\ inbox # <<>> /\ Head(inbox).to = r /\ pc[r] \in {"answered", "reanswered"} /\ r \in Callers
      /\ inbox' = Tail(inbox)
      /\ UNCHANGED <<connVars, venueVars, gen, lock, plan, quarantined, executed, losses, overruns>>
  BY DEF WriteAnswered, Callers
<1>2. inbox \in Seq(Messages) /\ pc \in [Callers -> PcStates] /\ WriteSoundOf(r)
  BY InboxType DEF IInv, TypeOK, WriteSound
<1>3. told = "ok" <=> executed[r] = 1
  <2>1. 1 \in DOMAIN inbox /\ inbox[1] = Head(inbox)
    BY <1>1, <1>2, Tailed
  <2> QED BY <1>1, <1>2, <2>1 DEF WriteSoundOf
<1>4. executed[r] \in {0, 1}
  BY <1>2 DEF WriteSoundOf
<1>5. open
  BY <1>1 DEF IInv, WireSound
<1>6. \A q \in Requests : NothingNew(q)
  BY <1>1, <1>2, NewNothing
<1>7. CASE told = "ok" \/ pc[r] = "reanswered"
  <2>1. PICK what \in {"done", "unexecuted"} :
          /\ Tells(r, what) /\ UNCHANGED mode
          /\ what = "unexecuted" => executed[r] = 0
          /\ what = "done" => executed[r] = 1
    BY <1>3, <1>4, <1>7 DEF WriteAnswered
  <2>2. pc' = [pc EXCEPT ![r] = "idle"] /\ on' = [on EXCEPT ![r] = 0]
    BY <2>1 DEF Tells, Ends, Goes
  <2>3. inbox' \in Seq(Messages) /\ AnswersMatch'
    <3>1. ~Waits(r)' /\ \A d \in Callers \ {r} : Waits(d)' <=> Waits(d)
      BY <1>1, <1>2, <2>2 DEF Waits, Alive, connVars, IInv, TypeOK
    <3> QED BY <1>1, <3>1, MatchTaken DEF IInv
  <2> QED BY <1>1, <1>5, <1>6, <2>1, <2>3, TellsStep DEF Plain, Outcomes
<1>8. CASE told # "ok" /\ pc[r] = "answered"
  <2>1. /\ Goes(r, "queued") /\ UNCHANGED <<on, seen, outcome>>
        /\ mode' = [mode EXCEPT ![r] =
             [app |-> told = "client", force |-> told = "token", fallback |-> FALSE]]
    BY <1>8 DEF WriteAnswered
  <2>2. pc' = [pc EXCEPT ![r] = "queued"]
    BY <2>1 DEF Goes
  <2>3. inbox' \in Seq(Messages) /\ AnswersMatch'
    <3>1. ~Waits(r)' /\ \A d \in Callers \ {r} : Waits(d)' <=> Waits(d)
      BY <1>1, <1>2, <2>1, <2>2 DEF Waits, Alive, connVars
    <3> QED BY <1>1, <3>1, MatchTaken DEF IInv
  <2>4. TypeOK'
    <3>1. pc' \in [Callers -> PcStates]
      BY <1>2, <2>2 DEF PcStates, Recovering
    <3>2. [app |-> told = "client", force |-> told = "token", fallback |-> FALSE] \in Modes
      BY DEF Modes
    <3>3. mode' \in [Callers -> Modes]
      BY <2>1, <3>2, PlansKept
    <3> QED BY <1>1, <2>1, <2>3, <3>1, <3>3 DEF IInv, TypeOK, connVars, venueVars, Messages, Whats, Modes
  <2>5. LockExclusive'
    BY <1>1, <1>2, <2>2 DEF LockExclusive, IInv
  <2>6. WireSound' /\ PlanSound'
    BY <1>1, <1>5, <2>1 DEF WireSound, PlanSound, IInv, connVars
  <2>7. WriteSoundOf(r)'
    BY <1>1, <1>2, <1>3, <1>4, <1>8, <2>1, <2>2 DEF WriteSoundOf
  <2>8. WriteSound'
    BY <1>1, <1>2, <1>6, <2>1, <2>2, <2>7, WriteRest DEF IInv, Callers
  <2> QED BY <2>3, <2>4, <2>5, <2>6, <2>8 DEF IInv
<1> QED BY <1>1, <1>7, <1>8

-----------------------------------------------------------------------------
(* The recovery *)

\* A recovery that fails leaves no live connection.
LEMMA GivesUpStep ==
  ASSUME IInv, NEW c \in Callers, GivesUp(c), pc[c] \in Recovering,
         UNCHANGED <<cur, attached, ready, gen, quarantined, executed, losses>>,
         tokenOk' \in BOOLEAN, overruns' \in Nat
  PROVE  IInv'
<1> USE DEF IInv
<1>1. /\ pc' = [pc EXCEPT ![c] = "idle"] /\ on' = [on EXCEPT ![c] = 0]
      /\ seen' = [r \in Requests |-> IF r = c THEN 0 ELSE seen[r]]
      /\ outcome' = [r \in Requests |-> IF r = c THEN "unexecuted" ELSE outcome[r]]
      /\ lock' = IF lock = c THEN NoOne ELSE lock
      /\ plan' = [plan EXCEPT ![c] = <<>>] /\ mode' = [mode EXCEPT ![c] = NoMode]
  BY DEF GivesUp, Ends, Goes
<1>2. open' = FALSE /\ inbox' = <<>> /\ app' \in BOOLEAN /\ acct' \in BOOLEAN
  <2>1. CASE attached /\ open
    BY <2>1 DEF GivesUp, Down
  <2>2. CASE ~(attached /\ open)
    BY <2>2 DEF GivesUp, WireSound, TypeOK
  <2> QED BY <2>1, <2>2
<1>3. pc \in [Callers -> PcStates] /\ NoOne \notin Callers
  BY DEF TypeOK
<1>4. TypeOK'
  <2>1. /\ pc' \in [Callers -> PcStates] /\ on' \in [Callers -> Nat] /\ seen' \in [Requests -> Nat]
        /\ lock' \in Callers \cup {NoOne} /\ outcome' \in [Requests -> Outcomes]
    BY <1>1 DEF TypeOK, PcStates, Outcomes
  <2>2. plan' \in [Callers -> Seq(Steps)] /\ inbox' \in Seq(Messages)
    <3>1. <<>> \in Seq(Steps) /\ <<>> \in Seq(Messages)
      OBVIOUS
    <3> QED BY <1>1, <1>2, <3>1 DEF TypeOK
  <2>3. mode' \in [Callers -> [app : BOOLEAN, force : BOOLEAN, fallback : BOOLEAN]]
    BY <1>1 DEF TypeOK, NoMode
  <2>4. open' \in BOOLEAN
    BY <1>2
  <2> QED BY <1>2, <2>1, <2>2, <2>3, <2>4 DEF TypeOK, Messages, Whats
<1>5. LockExclusive'
  BY <1>1, <1>3 DEF LockExclusive, TypeOK
<1>6. AnswersMatch'
  BY <1>2, MatchGone
<1>7. WireSound'
  BY <1>1, <1>2 DEF WireSound, TypeOK
<1>8. PlanSound'
  BY <1>1 DEF PlanSound, TypeOK
<1>9. WriteSound'
  <2>1. \A q \in Requests : NothingNew(q)
    BY <1>2, InboxType, NewNothing
  <2>2. c \in Requests => WriteSoundOf(c)'
    <3>1. c \in Requests => executed[c] = 0
      BY DEF WriteSound, WriteSoundOf, Recovering
    <3> QED BY <1>1, <1>3, <3>1, WriteEnds
  <2> QED BY <1>1, <1>3, <2>1, <2>2, WriteRest DEF Callers
<1> QED BY <1>4, <1>5, <1>6, <1>7, <1>8, <1>9

LEMMA FailureSteps ==
  ASSUME IInv, NEW c \in Callers, AskLost(c) \/ StepRefused(c) \/ Overruns(c)
  PROVE  IInv'
<1>1. /\ GivesUp(c) /\ pc[c] \in Recovering
      /\ UNCHANGED <<cur, attached, ready, gen, quarantined, executed, losses>>
  BY DEF AskLost, StepRefused, Overruns, AnswerFor, Recovering
<1>2. tokenOk' \in BOOLEAN /\ overruns' \in Nat
  <2>1. tokenOk \in BOOLEAN /\ overruns \in Nat
    BY DEF IInv, TypeOK
  <2>2. tokenOk' = tokenOk \/ tokenOk' = TRUE
    BY DEF AskLost, StepRefused, Overruns
  <2>3. overruns' = overruns \/ overruns' = overruns + 1
    BY DEF AskLost, StepRefused, Overruns
  <2>4. tokenOk' \in BOOLEAN
    BY <2>1, <2>2
  <2>5. overruns' \in Nat
    BY <2>1, <2>3
  <2> QED BY <2>4, <2>5
<1> QED BY <1>1, <1>2, GivesUpStep

LEMMA PushArrivesStep ==
  ASSUME IInv, PushArrives
  PROVE  IInv'
<1> USE DEF IInv
<1> DEFINE told == Head(inbox).what
<1>1. /\ inbox # <<>> /\ Head(inbox).to = NoOne /\ inbox' = Tail(inbox)
      /\ UNCHANGED <<connVars, venueVars, gen, lock, plan, on, writeVars, losses, overruns>>
  BY DEF PushArrives
<1>2. (pc[Push] = "idle" /\ pc' = [pc EXCEPT ![Push] = "queued"]) \/ pc' = pc
  BY DEF PushArrives, Goes
<1>3. mode' = mode \/ mode' = [mode EXCEPT ![Push] =
             [app |-> told = "client", force |-> told = "token", fallback |-> FALSE]]
  BY DEF PushArrives
<1>4. /\ Push \in Callers /\ Push \notin Requests /\ NoOne \notin Callers
      /\ pc \in [Callers -> PcStates] /\ inbox \in Seq(Messages)
  BY InboxType DEF Callers, TypeOK
<1>5. open
  BY <1>1 DEF WireSound
<1>6. inbox' \in Seq(Messages) /\ AnswersMatch'
  <2>1. \A d \in Callers : Waits(d)' <=> Waits(d)
    BY <1>1, <1>2, <1>4 DEF Waits, Alive, connVars
  <2> QED BY <1>1, <1>4, <2>1, MatchTaken
<1>7. TypeOK'
  <2>1. pc' \in [Callers -> PcStates]
    BY <1>2, <1>4 DEF PcStates, Recovering
  <2>2. [app |-> told = "client", force |-> told = "token", fallback |-> FALSE] \in Modes
    BY DEF Modes
  <2>3. mode' \in [Callers -> Modes]
    BY <1>3, <2>2, PlansKept
  <2> QED BY <1>1, <1>6, <2>1, <2>3 DEF TypeOK, connVars, venueVars, writeVars, Messages, Whats, Modes
<1>8. LockExclusive'
  BY <1>1, <1>2, <1>4 DEF LockExclusive
<1>9. WireSound' /\ PlanSound'
  BY <1>1, <1>5 DEF WireSound, PlanSound, connVars
<1>10. WriteSound'
  <2>1. \A q \in Requests : NothingNew(q)
    BY <1>1, <1>4, NewNothing
  <2>2. \A q \in Requests : pc'[q] = pc[q]
    BY <1>2, <1>4 DEF Callers
  <2> QED BY <1>1, <2>1, <2>2, WriteStays DEF WriteSound, writeVars
<1> QED BY <1>6, <1>7, <1>8, <1>9, <1>10

LEMMA TakesLockStep ==
  ASSUME IInv, NEW c \in Callers, TakesLock(c)
  PROVE  IInv'
<1>1. /\ pc[c] = "queued" /\ lock = NoOne /\ NoOne \notin Callers
      /\ UNCHANGED <<cur, attached, ready, tokenOk, gen, quarantined, executed, losses, overruns>>
  BY DEF TakesLock
<1>2. CASE GivesUp(c)
  <2>1. tokenOk' \in BOOLEAN /\ overruns' \in Nat
    BY <1>1 DEF IInv, TypeOK
  <2> QED BY <1>1, <1>2, <2>1, GivesUpStep DEF Recovering
<1>3. CASE /\ Goes(c, "rewon") /\ mode' = [mode EXCEPT ![c] = NoMode]
           /\ UNCHANGED <<open, app, acct, inbox, lock, plan, on, seen, outcome>>
  <2>1. mode' \in [Callers -> Modes]
    <3>1. NoMode \in Modes
      BY DEF NoMode, Modes
    <3> QED BY <1>3, <3>1, PlansKept
  <2>2. tokenOk' \in BOOLEAN
    BY <1>1 DEF IInv, TypeOK
  <2> QED BY <1>1, <1>3, <2>1, <2>2, PlansKept, GoesStep DEF Midway, PcStates, Recovering, connVars
<1>4. CASE /\ attached /\ ready /\ Goes(c, "stepping") /\ lock' = c
           /\ on' = [on EXCEPT ![c] = cur] /\ plan' = [plan EXCEPT ![c] = FirstPlan(mode[c])]
           /\ UNCHANGED <<open, app, acct, inbox, mode, seen, outcome>>
  <2> USE DEF IInv
  <2>1. pc' = [pc EXCEPT ![c] = "stepping"] /\ pc \in [Callers -> PcStates] /\ on \in [Callers -> Nat]
        /\ cur \in Nat
    BY <1>4 DEF Goes, TypeOK
  <2>2. Sound(FirstPlan(mode[c])) /\ FirstPlan(mode[c]) # <<>>
    BY PlansKept, FirstPlanSound
  <2>3. TypeOK'
    <3>1. pc' \in [Callers -> PcStates] /\ on' \in [Callers -> Nat]
      BY <1>4, <2>1 DEF PcStates, Recovering
    <3>2. plan' \in [Callers -> Seq(Steps)]
      BY <1>4, <2>2, PlansKept DEF Sound
    <3> QED BY <1>1, <1>4, <3>1, <3>2 DEF TypeOK
  <2>4. LockExclusive'
    BY <1>1, <1>4, <2>1, <2>2, PlansKept DEF LockExclusive
  <2>5. AnswersMatch'
    <3>1. \A d \in Callers : Waits(d)' <=> Waits(d)
      BY <1>1, <1>4, <2>1 DEF Waits, Alive
    <3> QED BY <1>4, <3>1, MatchKept
  <2>6. WireSound'
    BY <1>1, <1>4, <2>1 DEF WireSound
  <2>7. PlanSound'
    BY <1>4, <2>2, PlansKept DEF PlanSound, Sound
  <2>8. WriteSound'
    <3>1. \A q \in Requests : NothingNew(q)
      BY <1>4, InboxType, NewNothing
    <3>2. c \in Requests => WriteSoundOf(c)'
      <4>1. pc[c] \in Midway /\ pc'[c] \in Midway
        BY <1>1, <2>1 DEF Midway, PcStates, Recovering
      <4> QED BY <1>1, <1>4, <4>1, WriteMoves DEF WriteSound
    <3> QED BY <1>1, <1>4, <2>1, <3>1, <3>2, WriteRest DEF Callers
  <2> QED BY <2>3, <2>4, <2>5, <2>6, <2>7, <2>8
<1> QED BY <1>2, <1>3, <1>4 DEF TakesLock

LEMMA FileLockStep ==
  ASSUME IInv, NEW c \in Callers, FileLock(c)
  PROVE  IInv'
<1> USE DEF IInv
<1>1. /\ pc[c] = "stepping" /\ Head(plan[c]) = "filelock"
      /\ UNCHANGED <<connVars, app, acct, inbox, gen, lock, mode, pc, on, writeVars, losses, overruns>>
  BY DEF FileLock
<1>2. plan[c] # <<>> /\ Sound(plan[c])
  BY <1>1, PlansKept DEF LockExclusive
<1>3. PICK p : plan' = [plan EXCEPT ![c] = p] /\ (p = Tail(plan[c]) \/ p = Tail(Tail(plan[c])))
  BY PlansKept DEF FileLock
<1>4. Sound(p) /\ p # <<>>
  BY <1>1, <1>2, <1>3, PlanTail
<1>5. tokenOk' \in BOOLEAN
  <2>1. tokenOk' = tokenOk \/ tokenOk' = TRUE
    BY DEF FileLock
  <2> QED BY <2>1 DEF TypeOK
<1>6. plan' \in [Callers -> Seq(Steps)] /\ \A d \in Callers : Sound(plan'[d])
      /\ (plan'[d] # <<>> <=> plan[d] # <<>>)
  BY <1>2, <1>3, <1>4, PlansKept DEF Sound
<1>7. pc' = [pc EXCEPT ![c] = "stepping"] /\ pc[c] \in Midway /\ "stepping" \in Midway
  BY <1>1 DEF TypeOK, Midway, PcStates, Recovering
<1> QED BY <1>1, <1>5, <1>6, <1>7, PlansKept, GoesStep DEF Goes, writeVars, connVars

LEMMA AskStep ==
  ASSUME IInv, NEW c \in Callers, Ask(c)
  PROVE  IInv'
<1>1. /\ pc[c] = "stepping" /\ Goes(c, "asking")
      /\ UNCHANGED <<connVars, venueVars, inbox, reauthVars, on, writeVars, losses, overruns>>
  BY DEF Ask
<1>2. tokenOk' \in BOOLEAN
  BY <1>1 DEF IInv, TypeOK, venueVars
<1>3. pc[c] \in Midway /\ "asking" \in Midway
  BY <1>1 DEF Midway, PcStates, Recovering
<1> QED BY <1>1, <1>2, <1>3, PlansKept, GoesStep DEF venueVars, reauthVars, writeVars

\* What an answer to a recovery finds.
LEMMA AnswerFound ==
  ASSUME IInv, NEW c \in Callers, AnswerFor(c)
  PROVE  /\ inbox # <<>> /\ inbox \in Seq(Messages) /\ Head(inbox).to = c
         /\ pc[c] = "told" /\ lock = c /\ open
         /\ plan[c] # <<>> /\ Sound(plan[c]) /\ pc \in [Callers -> PcStates]
  BY InboxType, PlansKept DEF IInv, AnswerFor, LockExclusive, WireSound, TypeOK

LEMMA StepsOnStep ==
  ASSUME IInv, NEW c \in Callers, StepsOn(c)
  PROVE  IInv'
<1> USE DEF IInv
<1> DEFINE told == Head(inbox).what
<1>1. /\ AnswerFor(c) /\ inbox' = Tail(inbox) /\ pc' = [pc EXCEPT ![c] = "stepping"]
      /\ UNCHANGED <<connVars, venueVars, gen, lock, on, writeVars, losses, overruns>>
  BY DEF StepsOn, Goes
<1>2. /\ inbox # <<>> /\ inbox \in Seq(Messages) /\ Head(inbox).to = c
      /\ pc[c] = "told" /\ lock = c /\ open
      /\ plan[c] # <<>> /\ Sound(plan[c]) /\ pc \in [Callers -> PcStates]
  BY <1>1, AnswerFound
<1>3. PICK p : plan' = [plan EXCEPT ![c] = p] /\ Sound(p) /\ p # <<>>
  <2>1. CASE told = "ok" /\ Len(plan[c]) > 1 /\ plan' = [plan EXCEPT ![c] = Tail(@)]
    <3>1. Sound(Tail(plan[c])) /\ Tail(plan[c]) # <<>>
      BY <1>2, <2>1, PlanTail
    <3> QED BY <2>1, <3>1, PlansKept
  <2>2. CASE Fallback(c, told) # <<>> /\ plan' = [plan EXCEPT ![c] = Fallback(c, told)]
    BY <2>2, FallbackSound
  <2> QED BY <2>1, <2>2 DEF StepsOn
<1>4. inbox' \in Seq(Messages) /\ AnswersMatch'
  <2>1. ~Waits(c)' /\ \A d \in Callers \ {c} : Waits(d)' <=> Waits(d)
    BY <1>1, <1>2 DEF Waits, Alive, connVars
  <2> QED BY <1>1, <1>2, <2>1, MatchTaken
<1>5. mode' \in [Callers -> Modes]
  <2>1. CASE UNCHANGED mode
    BY <2>1, PlansKept
  <2>2. CASE mode' = [mode EXCEPT ![c].app = @ \/ told = "client",
                                  ![c].fallback = Head(plan[c]) = "auth"]
    <3>1. mode[c] \in Modes
      BY PlansKept
    <3>2. [[mode[c] EXCEPT !.app = @ \/ told = "client"]
             EXCEPT !.fallback = Head(plan[c]) = "auth"] \in Modes
      BY <3>1 DEF Modes
    <3>3. mode' = [mode EXCEPT ![c] = [[mode[c] EXCEPT !.app = @ \/ told = "client"]
                                         EXCEPT !.fallback = Head(plan[c]) = "auth"]]
      BY <2>2, PlansKept
    <3> QED BY <3>2, <3>3, PlansKept
  <2> QED BY <2>1, <2>2 DEF StepsOn
<1>6. TypeOK'
  <2>1. pc' \in [Callers -> PcStates]
    BY <1>1, <1>2 DEF PcStates, Recovering
  <2>2. plan' \in [Callers -> Seq(Steps)]
    BY <1>3, PlansKept DEF Sound
  <2> QED BY <1>1, <1>4, <1>5, <2>1, <2>2 DEF TypeOK, connVars, venueVars, writeVars, Messages, Whats, Modes
<1>7. LockExclusive'
  BY <1>1, <1>2, <1>3, PlansKept DEF LockExclusive
<1>8. WireSound'
  BY <1>1, <1>2 DEF WireSound, connVars
<1>9. PlanSound'
  BY <1>3, PlansKept DEF PlanSound, Sound
<1>10. WriteSound'
  <2>1. \A q \in Requests : NothingNew(q)
    BY <1>1, <1>2, NewNothing
  <2>2. c \in Requests => WriteSoundOf(c)'
    <3>1. pc[c] \in Midway /\ pc'[c] \in Midway
      BY <1>1, <1>2 DEF Midway, PcStates, Recovering
    <3> QED BY <1>1, <3>1, WriteMoves DEF WriteSound, writeVars
  <2> QED BY <1>1, <1>2, <2>1, <2>2, WriteRest DEF Callers, writeVars
<1> QED BY <1>4, <1>6, <1>7, <1>8, <1>9, <1>10

LEMMA RewinsStep ==
  ASSUME IInv, NEW c \in Callers, Rewins(c)
  PROVE  IInv'
<1> USE DEF IInv
<1>1. /\ AnswerFor(c) /\ inbox' = Tail(inbox) /\ gen' = gen + 1 /\ lock' = NoOne
      /\ plan' = [plan EXCEPT ![c] = <<>>] /\ mode' = [mode EXCEPT ![c] = NoMode]
      /\ UNCHANGED <<connVars, venueVars, quarantined, executed, outcome, losses, overruns>>
  BY DEF Rewins
<1>2. /\ inbox # <<>> /\ inbox \in Seq(Messages) /\ Head(inbox).to = c
      /\ pc[c] = "told" /\ lock = c /\ open
      /\ plan[c] # <<>> /\ Sound(plan[c]) /\ pc \in [Callers -> PcStates]
  BY <1>1, AnswerFound
<1>3. PICK where \in {"idle", "rewon"} : /\ pc' = [pc EXCEPT ![c] = where]
                                         /\ c = Push <=> where = "idle"
  BY DEF Rewins, Ends, Goes
<1>4. on' \in [Callers -> Nat] /\ seen' \in [Requests -> Nat]
      /\ (\A d \in Callers : on'[d] <= cur) /\ (\A d \in Callers \ {c} : on'[d] = on[d])
  <2>1. on \in [Callers -> Nat] /\ seen \in [Requests -> Nat] /\ cur \in Nat
        /\ \A d \in Callers : on[d] <= cur
    BY DEF TypeOK, WireSound
  <2>2. CASE c = Push
    <3>1. on' = [on EXCEPT ![c] = 0] /\ seen' = [r \in Requests |-> IF r = c THEN 0 ELSE seen[r]]
      BY <2>2 DEF Rewins, Ends
    <3> QED BY <2>1, <3>1
  <2>3. CASE c # Push
    <3>1. on' = on /\ seen' = seen
      BY <2>3 DEF Rewins
    <3> QED BY <2>1, <3>1
  <2> QED BY <2>2, <2>3
<1>5. inbox' \in Seq(Messages) /\ AnswersMatch'
  <2>1. ~Waits(c)' /\ \A d \in Callers \ {c} : Waits(d)' <=> Waits(d)
    BY <1>1, <1>2, <1>3, <1>4 DEF Waits, Alive, connVars
  <2> QED BY <1>1, <1>2, <2>1, MatchTaken
<1>6. TypeOK'
  <2>1. pc' \in [Callers -> PcStates]
    BY <1>2, <1>3 DEF PcStates
  <2>2. plan' \in [Callers -> Seq(Steps)]
    <3>1. <<>> \in Seq(Steps)
      OBVIOUS
    <3> QED BY <1>1, <3>1, PlansKept
  <2>3. mode' \in [Callers -> Modes]
    <3>1. NoMode \in Modes
      BY DEF NoMode, Modes
    <3> QED BY <1>1, <3>1, PlansKept
  <2> QED BY <1>1, <1>4, <1>5, <2>1, <2>2, <2>3 DEF TypeOK, connVars, venueVars, Messages, Whats, Modes
<1>7. LockExclusive'
  BY <1>1, <1>2, <1>3, PlansKept DEF LockExclusive
<1>8. WireSound' /\ PlanSound'
  BY <1>1, <1>2, <1>4, PlansKept DEF WireSound, PlanSound, connVars
<1>9. WriteSound'
  <2>1. \A q \in Requests : NothingNew(q)
    BY <1>1, <1>2, NewNothing
  <2>2. c \in Requests => WriteSoundOf(c)'
    <3>1. c \in Requests => pc[c] \in Midway /\ pc'[c] \in Midway
      BY <1>2, <1>3 DEF Midway, PcStates, Recovering
    <3> QED BY <1>1, <3>1, WriteMoves DEF WriteSound
  <2> QED BY <1>1, <1>2, <1>3, <2>1, <2>2, WriteRest DEF Callers
<1> QED BY <1>5, <1>6, <1>7, <1>8, <1>9

-----------------------------------------------------------------------------
(* Theorems *)

LEMMA Inductive == IInv /\ [Next]_vars => IInv'
<1> SUFFICES ASSUME IInv, [Next]_vars PROVE IInv'
  OBVIOUS
<1>1. CASE VenueStep
  BY <1>1, VenueHandlesStep, VenueAnswersStep DEF VenueStep
<1>2. CASE VenueDrops \/ NetLoss \/ Disconnect
  BY <1>2, VenueDropsStep, NetLossStep, DisconnectStep
<1>3. CASE Connect \/ Handshake \/ Quarantine
  BY <1>3, FlagSteps
<1>4. CASE PushArrives
  BY <1>4, PushArrivesStep
<1>5. CASE \E r \in Requests : Issue(r) \/ WriteStep(r)
  BY <1>5, IssueStep, WriteActStep, ConnectionLostStep, WriteAnsweredStep, ResumeStep DEF WriteStep
<1>6. CASE \E c \in Callers : TakesLock(c) \/ RecoveryStep(c) \/ Overruns(c)
  BY <1>6, TakesLockStep, FileLockStep, AskStep, RewinsStep, StepsOnStep, FailureSteps DEF RecoveryStep
<1>7. CASE UNCHANGED vars
  <2> USE <1>7 DEF vars, connVars, venueVars, reauthVars, writeVars
  <2>1. TypeOK' /\ LockExclusive' /\ WireSound' /\ PlanSound'
    BY DEF IInv, TypeOK, LockExclusive, WireSound, PlanSound
  <2>2. AnswersMatch'
    BY DEF IInv, AnswersMatch, Waits, Alive
  <2>3. WriteSound'
    BY DEF IInv, WriteSound, WriteSoundOf
  <2> QED BY <2>1, <2>2, <2>3 DEF IInv
<1> QED BY <1>1, <1>2, <1>3, <1>4, <1>5, <1>6, <1>7 DEF Next

\* The re-auth lock is exclusive, every answer finds the one caller that waits for it,
\* and what is known of a write's execution is so.
THEOREM InvariantHolds == Spec => []IInv
<1>1. Init => IInv
  BY Initial
<1>2. IInv /\ [Next]_vars => IInv'
  BY Inductive
<1> QED BY <1>1, <1>2, PTL DEF Spec

\* No caller of a write is told what is not so: a write that is sent again after a
\* recovery was not executed before.
THEOREM ReportTruthfulHolds == Spec => []ReportTruthful
<1>1. IInv => ReportTruthful
  <2>1. ASSUME IInv, NEW r \in Requests
        PROVE  /\ executed[r] \in {0, 1}
               /\ outcome[r] = "unexecuted" => executed[r] = 0
               /\ outcome[r] = "done" => executed[r] = 1
    <3>1. WriteSoundOf(r)
      BY <2>1 DEF IInv, WriteSound
    <3> QED BY <3>1 DEF WriteSoundOf
  <2>2. ASSUME IInv, NEW r \in Requests
        PROVE  executed[r] <= 1
    BY <2>1, <2>2
  <2> QED BY <2>1, <2>2 DEF ReportTruthful
<1> QED BY <1>1, InvariantHolds, PTL

\* Nothing leaves while the client is quarantined.
THEOREM NothingSentHolds == Spec => NothingSentInQuarantine
<1> DEFINE Sends(r) == pc'[r] \in {"sent", "resent"} /\ pc[r] # pc'[r]
<1>1. ASSUME IInv, [Next]_vars, NEW r \in Requests, Sends(r)
      PROVE  ~quarantined
  <2>1. pc \in [Callers -> PcStates] /\ r \in Callers
    BY <1>1 DEF IInv, TypeOK, Callers
  <2>2. CASE VenueStep
    BY <1>1, <2>1, <2>2 DEF VenueStep, VenueHandles, VenueAnswers, Goes
  <2>3. CASE VenueDrops \/ NetLoss \/ Disconnect \/ Connect \/ Handshake \/ Quarantine \/ PushArrives
    BY <1>1, <2>1, <2>3 DEF VenueDrops, NetLoss, Disconnect, Connect, Handshake, Quarantine, PushArrives,
                            Ends, Goes
  <2>4. CASE \E q \in Requests : Issue(q) \/ ConnectionLost(q) \/ WriteAnswered(q) \/ Resume(q)
    BY <1>1, <2>1, <2>4 DEF Issue, ConnectionLost, WriteAnswered, Resume, Tells, Ends, Goes
  <2>5. CASE \E q \in Requests : Write(q)
    BY <1>1, <2>1, <2>5 DEF Write, Tells, Ends, Goes
  <2>6. CASE \E c \in Callers : TakesLock(c) \/ RecoveryStep(c) \/ Overruns(c)
    BY <1>1, <2>1, <2>6 DEF TakesLock, RecoveryStep, Overruns, FileLock, Ask, AskLost, Rewins, StepsOn,
                            StepRefused, GivesUp, Ends, Goes
  <2>7. CASE UNCHANGED vars
    BY <1>1, <2>7 DEF vars
  <2> QED BY <1>1, <2>2, <2>3, <2>4, <2>5, <2>6, <2>7 DEF Next, WriteStep
<1>2. IInv /\ [Next]_vars => [\A r \in Requests : Sends(r) => ~quarantined]_vars
  BY <1>1
<1> QED BY <1>2, InvariantHolds, PTL DEF Spec, NothingSentInQuarantine
=============================================================================
