---------------------------- MODULE MCDisbursement ----------------------------
(***************************************************************************)
(* Disbursement with history variables that tell the behaviours in which   *)
(* requests run one after the other from the others: what the handlers     *)
(* promise is checked in the first, what remains of it in all of them.     *)
(***************************************************************************)
EXTENDS Disbursement, TLC

CONSTANT MaxOverlap  \* bound: requests in a behaviour with overlaps

VARIABLES
    overlapped,  \* history: were two requests ever at work together?
    unlocked     \* history: ... while the programme had no sequence row?

Overlapping == \E r, q \in Request : r # q /\ ~At(r, "idle") /\ ~At(q, "idle")

MCInit == Init /\ overlapped = FALSE /\ unlocked = FALSE

MCNext ==
    /\ Next
    /\ overlapped' = (overlapped \/ Overlapping')
    /\ unlocked' = (unlocked \/ (Overlapping' /\ sequence' = 0))
    /\ (overlapped' /\ requests' # requests) => requests' <= MaxOverlap

MCSpec == MCInit /\ [][MCNext]_<<vars, overlapped, unlocked>>

\* Neither the disbursements nor the requests are told apart.
Symmetry == Permutations(Disbursements) \cup Permutations(Request)

\* createDisbursement: the lock of the sequence row gives every disbursement a
\* number of its own, unless two requests overlap before the row exists.
NumbersWithRow == ~unlocked => UniqueNumber

\* updateDisbursement and updateStatus, one at a time: what is approved,
\* transferred or completed is the total that was approved, or that came in
\* the form that sent such a status.
TotalInTurn == ~overlapped => ApprovedTotal

\* updateStatus, one at a time: what is completed stays so.
CompletedInTurn ==
    [][ \A d \in Disbursements :
          (~overlapped' /\ Present(d) /\ row[d].status = "COMPLETED") =>
              row'[d] # None /\ row'[d].status = "COMPLETED" ]_vars
=============================================================================
