---------------------------- MODULE MCOwnCloses ----------------------------
(* Small instance of OwnCloses: one position, a buy, with shares of a few   *)
(* units.                                                                   *)
EXTENDS OwnCloses
=============================================================================
