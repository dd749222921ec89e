---------------------------- MODULE FillLedger ----------------------------
(***************************************************************************)
(* What the fill paths together promise the engine, without saying how: a  *)
(* ledger that is opened by adopting the venue's executed units and from   *)
(* then on is only added to, never past what the venue executed.           *)
(*                                                                         *)
(* "twice" is the allowance an adoption may leave: units already adopted   *)
(* that a later report may count once more.  A perfect adoption leaves 0.  *)
(***************************************************************************)
EXTENDS Integers

CONSTANTS Orders,   \* the orders the ledger books
          Qty       \* units in one order

VARIABLES executed,   \* units of the order the venue executed
          booked,     \* units of the order the engine holds
          twice,      \* units an adoption may have left to be counted again
          open        \* the ledger is open: the engine takes reports

ledger == <<executed, booked, twice, open>>

None == [o \in Orders |-> 0]

Init ==
  /\ executed = None /\ booked = None /\ twice = None
  /\ open = TRUE

Execute(o) ==
  /\ executed[o] < Qty
  /\ executed' = [executed EXCEPT ![o] = @ + 1]
  /\ UNCHANGED <<booked, twice, open>>

\* One report, of one order, of any number of slices not booked before.
Book(o) ==
  /\ open
  /\ \E n \in booked[o] + 1 .. executed[o] + twice[o] :
       booked' = [booked EXCEPT ![o] = n]
  /\ UNCHANGED <<executed, twice, open>>

\* The process dies: the engine's book is lost.
Close ==
  /\ open' = FALSE
  /\ booked' = None /\ twice' = None
  /\ UNCHANGED executed

\* Start-up: per order all of the executed units are adopted, or none.
Open ==
  /\ ~open /\ open' = TRUE
  /\ booked' \in [Orders -> 0 .. Qty]
  /\ \A o \in Orders : booked'[o] \in {0, executed[o]}
  /\ twice' \in [Orders -> 0 .. Qty]
  /\ \A o \in Orders : twice'[o] <= booked'[o]
  /\ UNCHANGED executed

Next == Close \/ Open \/ \E o \in Orders : Execute(o) \/ Book(o)

Spec == Init /\ [][Next]_ledger
=============================================================================
