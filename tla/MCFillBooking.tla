--------------------------- MODULE MCFillBooking ---------------------------
(* Model-checking instance of FillBooking. *)
EXTENDS FillBooking
=============================================================================
