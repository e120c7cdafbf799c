-------------------------------- MODULE MCStock --------------------------------
(***************************************************************************)
(* Inventory with a history variable that tells the behaviours in which    *)
(* requests run one after the other from the others: what the handlers     *)
(* promise is checked in the first, what remains of it in all of them.     *)
(***************************************************************************)
EXTENDS Inventory

CONSTANT MaxOverlap  \* bound: requests in a behaviour with overlaps

VARIABLE overlapped  \* history: were two requests ever at work together?

Overlapping == \E r, q \in Request : r # q /\ ~At(r, "idle") /\ ~At(q, "idle")

MCInit == Init /\ overlapped = FALSE

MCNext ==
    /\ Next
    /\ overlapped' = (overlapped \/ Overlapping')
    /\ (overlapped' /\ requests' # requests) => requests' <= MaxOverlap

MCSpec == MCInit /\ [][MCNext]_<<vars, overlapped>>

\* Nothing received or handed out is forgotten or counted twice, whatever was
\* approved, rejected or sent again in between, as long as nothing overlaps.
Promised == INSTANCE StockLedger
LedgerInTurn == Promised!Init /\ [][~overlapped' => Promised!Next]_<<stock, received, handed>>
=============================================================================
