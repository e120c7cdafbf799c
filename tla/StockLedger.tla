------------------------------ MODULE StockLedger ------------------------------
(***************************************************************************)
(* What the store of ONE product promises, seen from outside: what was     *)
(* received is added once and never beyond the limit, and every slip takes *)
(* what it was handed once.  Inventory, one request at a time, implements  *)
(* this specification.                                                     *)
(***************************************************************************)
EXTENDS Integers

CONSTANTS Slip, MaxStock, None

VARIABLES
    stock,      \* what the store says it has
    received,   \* what came in, in all
    handed      \* handed[s]: what the slip was handed, or None

Init == stock = 0 /\ received = 0 /\ handed = [s \in Slip |-> None]

Receive ==
    /\ received' > received
    /\ stock' = stock + (received' - received)
    /\ stock' <= MaxStock
    /\ UNCHANGED handed

HandOut(s) ==
    /\ handed[s] = None /\ handed'[s] # None
    /\ handed' = [handed EXCEPT ![s] = handed'[s]]
    /\ stock' = stock - handed'[s]
    /\ UNCHANGED received

Next == Receive \/ \E s \in Slip : HandOut(s)

Spec == Init /\ [][Next]_<<stock, received, handed>>
=============================================================================
