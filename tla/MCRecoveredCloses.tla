------------------------- MODULE MCRecoveredCloses -------------------------
(* Model-checking instance of RecoveredCloses: every bound is a number the  *)
(* configurations give.                                                    *)
EXTENDS RecoveredCloses
=============================================================================
