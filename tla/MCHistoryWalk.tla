--------------------------- MODULE MCHistoryWalk ---------------------------
(* Small instance of HistoryWalk.                                          *)
EXTENDS HistoryWalk
=============================================================================
