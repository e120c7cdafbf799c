------------------------------ MODULE NumberBook ------------------------------
(***************************************************************************)
(* What a book of incoming documents promises, whatever the statements and *)
(* locks behind it: a document enters a book under a number nobody else    *)
(* has there, keeps it until it is moved, and gives it back when it is     *)
(* withdrawn.  IncomingBook implements this specification.                 *)
(***************************************************************************)
EXTENDS Naturals

CONSTANTS Document, Book, None

VARIABLE place   \* place[d]: <<book, number>>, or None

Init == place = [d \in Document |-> None]

\* d is now in b under a number of its own.
Entered(d, b) ==
    /\ place'[d] # None
    /\ place'[d][1] = b /\ place'[d][2] \in Nat \ {0}
    /\ \A e \in Document \ {d} : place'[e] # place'[d]

Others(D) == \A d \in Document \ D : place'[d] = place[d]

\* Documents without a number enter a book together.
Register(D, b) ==
    /\ \A d \in D : place[d] = None /\ Entered(d, b)
    /\ Others(D)

Move(d, b) == place[d] # None /\ Entered(d, b) /\ Others({d})

Withdraw(d) == place[d] # None /\ place'[d] = None /\ Others({d})

Next ==
    \/ \E D \in (SUBSET Document) \ {{}}, b \in Book : Register(D, b)
    \/ \E d \in Document, b \in Book : Move(d, b)
    \/ \E d \in Document : Withdraw(d)

Spec == Init /\ [][Next]_place
=============================================================================
