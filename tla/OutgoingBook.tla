----------------------------- MODULE OutgoingBook -----------------------------
(***************************************************************************)
(* The numbers of outgoing documents in ONE book, and the reservations     *)
(* users hold on numbers to come.  setNumber looks only at the documents,  *)
(* a reservation looks at both, and nothing is locked in between; saving a *)
(* document marks the reservation of its number as used.  A document can   *)
(* go to another book, or be deleted: its row stays with its number, but   *)
(* setNumber no longer sees it.                                            *)
(***************************************************************************)
EXTENDS Naturals

CONSTANTS
    Document,
    Request,      \* HTTP requests that can be in flight together
    MaxNumber,    \* bound: numbers of the book
    MaxRequest    \* bound: requests in a behaviour

ASSUME OutgoingBookAssumption == MaxNumber \in Nat \ {0} /\ MaxRequest \in Nat

VARIABLES
    number,       \* number[d]: to_book of the document, 0 if it has none in this book
    deleted,      \* documents whose status is not ACTIVED any more
    reservation,  \* reservation[n]: what document_number_reservations says of n
    count,        \* book_documents.count
    task,         \* what a request runs
    requests      \* counted for the bound

vars == <<number, deleted, reservation, count, task, requests>>

Numbers == 1..MaxNumber
WithZero == 0..MaxNumber
Idle == [op |-> "none", at |-> "idle", docs |-> {}, number |-> 0, seen |-> 0, typed |-> 0]

At(r, label) == task[r].at = label
Written == {number[d] : d \in Document} \ {0}
Given == {number[d] : d \in Document \ deleted} \ {0}
GivenToOthers(d) == {number[e] : e \in Document \ (deleted \cup {d})} \ {0}
Held == {n \in WithZero : reservation[n] # "free"}

\* n is the first number from `from` on that is not in S.
FirstFree(n, from, S) ==
    n >= from /\ n \notin S /\ \A m \in WithZero : (from <= m /\ m < n) => m \in S

----------------------------------------------------------------------------
(* How a request begins.                                                   *)

Begin(r, t) ==
    /\ At(r, "idle")
    /\ requests < MaxRequest
    /\ requests' = requests + 1
    /\ task' = [task EXCEPT ![r] = t]

\* findAll shows the book with a number that is neither held nor written.  A
\* zero shows as an empty field, and the user types a number; the one who holds
\* a number types that.  Into another book: here the document has no number.
OpenForm(r) ==
    /\ \E d \in Document, n \in Numbers :
          LET form == [Idle EXCEPT !.op = "setNumber", !.at = "check",
                                   !.docs = {d}, !.number = n]
          IN \/ /\ FirstFree(n, count, Held \cup Written) \/ FirstFree(0, count, Held \cup Written)
                /\ Begin(r, form)
             \/ reservation[n] = "reserved" /\ Begin(r, [form EXCEPT !.typed = n])
             \/ Begin(r, [form EXCEPT !.number = 0])
    /\ UNCHANGED <<number, deleted, reservation, count>>

\* createReservation reads the count of the book; the number is the user's,
\* or the first one from the largest reservation and the count on.
Reserve(r) ==
    /\ \E n \in Numbers : Begin(r, [Idle EXCEPT !.op = "reserve", !.at = "check",
                                                !.number = n, !.seen = count])
    /\ UNCHANGED <<number, deleted, reservation, count>>

LargestHeld(n) == n \in Held \cup {0} /\ \A m \in Held : m <= n

ReserveNext(r) ==
    /\ \E n \in WithZero, l \in Held \cup {0} :
          /\ LargestHeld(l)
          /\ FirstFree(n, IF l > count THEN l ELSE count, Held \cup Written)
          /\ Begin(r, [Idle EXCEPT !.op = "reserve", !.at = "save", !.number = n])
    /\ UNCHANGED <<number, deleted, reservation, count>>

\* updateOutgoingDocument: the form sends the number it was opened with.
Save(r) ==
    /\ \E d \in Document :
          /\ number[d] # 0
          /\ Begin(r, [Idle EXCEPT !.op = "save", !.at = "use", !.number = number[d]])
    /\ UNCHANGED <<number, deleted, reservation, count>>

----------------------------------------------------------------------------
(* setNumber, one transaction.                                             *)

Goto(r, label) == task' = [task EXCEPT ![r].at = label]
End(r) == task' = [task EXCEPT ![r] = Idle]

\* Mutant: the number is taken as it comes.
CheckDuplicateNever(r) ==
    /\ At(r, "check") /\ task[r].op = "setNumber"
    /\ Goto(r, "write")
    /\ UNCHANGED <<number, deleted, reservation, count, requests>>

\* The number is another document's: the next one that no document has.
CheckDuplicate(r) ==
    /\ At(r, "check") /\ task[r].op = "setNumber"
    /\ \E d \in task[r].docs :
          \/ task[r].number \notin GivenToOthers(d) /\ Goto(r, "write")
          \/ /\ task[r].number \in GivenToOthers(d)
             /\ \E n \in Numbers :
                   /\ FirstFree(n, task[r].number + 1, Given)
                   /\ task' = [task EXCEPT ![r].at = "write", ![r].number = n]
    /\ UNCHANGED <<number, deleted, reservation, count, requests>>

\* Mutant: the count is looked for from the number given on.
CountFrom(r) == task[r].number + 1

FirstNumber(r) == 1

Locked(d) == \E q \in Request : At(q, "commit") /\ d \in task[q].docs

\* The number as the searches see it: of a deleted document, they do not.
OwnNumber(r, d) == IF d \in deleted THEN {} ELSE {task[r].number}

\* The UPDATE locks the row of the document; the next count is looked for
\* among the committed rows and this one.
Write(r) ==
    /\ At(r, "write")
    /\ \E d \in task[r].docs :
          /\ ~Locked(d)
          /\ \/ task[r].number = 0 /\ Goto(r, "commit")
             \/ \E n \in Numbers :
                   /\ task[r].number # 0
                   /\ FirstFree(n, FirstNumber(r), GivenToOthers(d) \cup OwnNumber(r, d))
                   /\ task' = [task EXCEPT ![r].at = "commit", ![r].seen = n]
    /\ UNCHANGED <<number, deleted, reservation, count, requests>>

\* Mutant: the count is one more than the number given.
CommitNextNumber(r) ==
    /\ At(r, "commit")
    /\ number' = [d \in Document |-> IF d \in task[r].docs THEN task[r].number ELSE number[d]]
    /\ count' = IF task[r].number = 0 THEN count ELSE task[r].number + 1
    /\ End(r)
    /\ UNCHANGED <<deleted, reservation, requests>>

Commit(r) ==
    /\ At(r, "commit")
    /\ number' = [d \in Document |-> IF d \in task[r].docs THEN task[r].number ELSE number[d]]
    /\ count' = IF task[r].number = 0 THEN count ELSE task[r].seen
    /\ End(r)
    /\ UNCHANGED <<deleted, reservation, requests>>

\* deleteOutgoingDocument: one UPDATE, which waits for the lock of the row.
Delete(r) ==
    /\ At(r, "idle") /\ requests < MaxRequest
    /\ \E d \in Document \ deleted : ~Locked(d) /\ deleted' = deleted \cup {d}
    /\ requests' = requests + 1
    /\ UNCHANGED <<number, reservation, count, task>>

----------------------------------------------------------------------------
(* Reservations.                                                           *)

\* Mutant: only the reservations are looked at.
CanReserveAmongHeld(n, seen) == n \notin Held /\ n >= seen

CanReserve(n, seen) == n \notin Held \cup Written /\ n >= seen

CheckReservation(r) ==
    /\ At(r, "check") /\ task[r].op = "reserve"
    /\ IF CanReserve(task[r].number, task[r].seen) THEN Goto(r, "save") ELSE End(r)
    /\ UNCHANGED <<number, deleted, reservation, count, requests>>

\* UQ_book_reserved_number refuses the second row of a number.
SaveReservation(r) ==
    /\ At(r, "save")
    /\ IF reservation[task[r].number] = "free"
       THEN reservation' = [reservation EXCEPT ![task[r].number] = "reserved"]
       ELSE UNCHANGED reservation
    /\ End(r)
    /\ UNCHANGED <<number, deleted, count, requests>>

\* The document is saved: the reservation of its number is used.
Use(r) ==
    /\ At(r, "use")
    /\ reservation' = [reservation EXCEPT ![task[r].number] =
                          IF @ = "reserved" THEN "used" ELSE @]
    /\ End(r)
    /\ UNCHANGED <<number, deleted, count, requests>>

\* markAsUsed, and updateReservation, which sets either status.
SetReservation(r) ==
    /\ At(r, "idle") /\ requests < MaxRequest
    /\ \E n \in Held, s \in {"reserved", "used"} :
          reservation' = [reservation EXCEPT ![n] = s]
    /\ requests' = requests + 1
    /\ UNCHANGED <<number, deleted, count, task>>

Fail(r) ==
    /\ ~At(r, "idle")
    /\ End(r)
    /\ UNCHANGED <<number, deleted, reservation, count, requests>>

----------------------------------------------------------------------------

Init ==
    /\ number = [d \in Document |-> 0]
    /\ deleted = {}
    /\ reservation = [n \in WithZero |-> "free"]
    /\ count \in {0, 1}
    /\ task = [r \in Request |-> Idle]
    /\ requests = 0

Arrival(r) == OpenForm(r) \/ Reserve(r) \/ ReserveNext(r) \/ Save(r) \/ SetReservation(r) \/ Delete(r)

Progress(r) ==
    \/ CheckDuplicate(r) \/ Write(r) \/ Commit(r)
    \/ CheckReservation(r) \/ SaveReservation(r) \/ Use(r)

\* Nothing is in flight and nobody sends anything any more.
Quiescent == (\A r \in Request : At(r, "idle")) /\ UNCHANGED vars

Next == (\E r \in Request : Arrival(r) \/ Progress(r) \/ Fail(r)) \/ Quiescent

Spec == Init /\ [][Next]_vars

----------------------------------------------------------------------------

\* The rows of the book, and what a request keeps of them.
TypeOK ==
    /\ number \in [Document -> WithZero]
    /\ deleted \subseteq Document
    /\ reservation \in [WithZero -> {"free", "reserved", "used"}]
    /\ count \in WithZero
    /\ task \in [Request -> [op : {"none", "setNumber", "reserve", "save"},
                             at : {"idle", "check", "write", "commit", "save", "use"},
                             docs : SUBSET Document, number : WithZero,
                             seen : WithZero, typed : WithZero]]
    /\ requests \in Nat

\* setNumber: two documents of the book never have the same number.
UniqueNumber ==
    \A d, e \in Document \ deleted : (d # e /\ number[d] # 0) => number[d] # number[e]
=============================================================================
