------------------------------- MODULE MCNumbers -------------------------------
(***************************************************************************)
(* OutgoingBook with history variables that tell the behaviours in which   *)
(* requests, or the requests that give numbers, run one after the other.   *)
(***************************************************************************)
EXTENDS OutgoingBook, TLC

CONSTANT MaxOverlap  \* bound: requests in a behaviour with overlaps

VARIABLES
    overlapped,  \* history: were two requests ever at work together?
    raced,       \* history: ... two that gave a number?
    freed        \* history: numbers that a document had and has no more

Together(Op) == \E r, q \in Request : r # q /\ {task[r].op, task[q].op} \subseteq Op
AnyOp == {"setNumber", "reserve", "save"}

MCInit == Init /\ overlapped = FALSE /\ raced = FALSE /\ freed = {}

MCNext ==
    /\ Next
    /\ overlapped' = (overlapped \/ Together(AnyOp)')
    /\ raced' = (raced \/ Together({"setNumber"})')
    /\ freed' = freed \cup (Given \ Given')
    /\ (overlapped' /\ requests' # requests) => requests' <= MaxOverlap

MCSpec == MCInit /\ [][MCNext]_<<vars, overlapped, raced, freed>>

\* Neither the documents nor the requests are told apart.
Symmetry == Permutations(Document) \cup Permutations(Request)

\* setNumber, whatever is reserved or saved beside it: two documents of the
\* book never have the same number, as long as numbers are given in turn.
UniqueInTurn == ~raced => UniqueNumber

\* setNumber, likewise: the count is no document's number, and below it every
\* number is given, or was until its document was deleted, renumbered or moved.
CountInTurn ==
    ~raced => /\ count \notin Given
              /\ \A n \in Numbers : n < count => n \in Given \cup freed

\* createReservation, one request at a time: nobody gets a reservation on a
\* number that a document has, or had when it was deleted.
ReservationInTurn ==
    [][ \A n \in WithZero :
          (~overlapped' /\ reservation[n] = "free" /\ reservation'[n] # "free")
              => n \notin Written ]_vars
=============================================================================
