---------------------------- MODULE MCOrderTerms ----------------------------
(* Small instance of OrderTerms: the bot repeats the terms it placed, sends    *)
(* another volume or another price; others change the price, an attribute or   *)
(* the volume.                                                                 *)
EXTENDS OrderTerms

Own3 == {[price |-> 1, vol |-> 3], [price |-> 1, vol |-> 5], [price |-> 2, vol |-> 3]}
Others3 == {[price |-> 3, total |-> 3, attr |-> "default"],
            [price |-> 1, total |-> 3, attr |-> "set"],
            [price |-> 1, total |-> 6, attr |-> "default"]}
\* The volume is raised by one.
Raised == {[price |-> 1, total |-> 4, attr |-> "default"]}
WholeTaken == [shows : {"whole", "remainder"}, takes : {"whole"}]
RemainderTaken == [shows : {"whole", "remainder"}, takes : {"remainder"}]
=============================================================================
