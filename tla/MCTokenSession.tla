--------------------------- MODULE MCTokenSession ---------------------------
(* Model-checking instances of TokenSession. *)
EXTENDS TokenSession, TLC

CONSTANTS a, b, c, a1, a2, b1, c1

\* Two bots on demo and one on live; the first has two refreshes at once.
ThreeBots == (a :> "demo") @@ (b :> "demo") @@ (c :> "live")
FourRefreshes == (a1 :> a) @@ (a2 :> a) @@ (b1 :> b) @@ (c1 :> c)

\* One bot on demo and one consent for live.
BotAndConsent == (a :> "demo") @@ (c :> "live")
OneOfEach == (a1 :> a) @@ (c1 :> c)
=============================================================================
