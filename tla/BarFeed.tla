------------------------------ MODULE BarFeed ------------------------------
(***************************************************************************)
(* What a live bar feed promises its runner: every bar that traded, once   *)
(* it has closed, in order, exactly once, and with none left out.          *)
(***************************************************************************)
EXTENDS Naturals

VARIABLES
  now,      \* the slot that is forming
  traded,   \* the slots with a tick: the venue has a bar for each
  got       \* the closed bars the runner holds

feed == <<now, traded, got>>

Init == now = 1 /\ traded = {0, 1} /\ got = {0}

Trade == traded' = traded \cup {now} /\ UNCHANGED <<now, got>>

Pass == now' = now + 1 /\ UNCHANGED <<traded, got>>

\* The next bars are handed over: later than any handed over before, closed,
\* and complete up to the last of them.
Hand ==
  \E bars \in SUBSET traded :
    /\ \A b \in bars : /\ b < now
                       /\ \A g \in got : g < b
                       /\ \A s \in traded : s < b => s \in got \cup bars
    /\ got' = got \cup bars
    /\ UNCHANGED <<now, traded>>

Next == Trade \/ Pass \/ Hand

Spec == Init /\ [][Next]_feed
=============================================================================
