----------------------------- MODULE IncomingBook -----------------------------
(***************************************************************************)
(* The numbers of incoming documents in their books.  The handlers give,   *)
(* change or take back a number, each with its own idea of what to lock:   *)
(*   assign    assignBookToDocuments: the book, then the documents;        *)
(*   change    changeIncomingDocumentBook: the document, then the book;    *)
(*   refile    updateDocument with another book and no number: the book,   *)
(*             the numbered documents of the book, at last the document;   *)
(*   keep      updateDocument with the same book and no number;            *)
(*   edit      updateDocument with any book and a number of the client's,  *)
(*             which nobody compares with those of the book;               *)
(*   create    createDocument with the count that the form showed;         *)
(*   enter     createDocument with another number, not compared either;    *)
(*   file      an insertion that does not count: no number, or no book;    *)
(*   copy      cloneIncomingDocument: the row again, number included;      *)
(*   generate  generateToBookCode: the count of a book is computed anew;   *)
(*   withdraw  deleteDocument: the row is marked.                          *)
(* Rows an open transaction wrote are seen by nobody else before it        *)
(* commits; a lock it took is held until then.                             *)
(***************************************************************************)
EXTENDS Naturals, FiniteSets

CONSTANTS
    Document, Book, None,
    Request,      \* HTTP requests that can be in flight together
    Operations,   \* the handlers in use
    MaxNumber,    \* bound: numbers of a book
    MaxTyped,     \* bound: numbers that a client sends
    MaxRequest    \* bound: requests in a behaviour

ASSUME BookAssumption ==
    /\ Document \cap Book = {}
    /\ None \notin Request \cup Book \cup (Book \X Nat)
    /\ MaxNumber \in Nat \ {0} /\ MaxTyped \in 0..MaxNumber /\ MaxRequest \in Nat

VARIABLES
    docs,      \* committed rows of incomming_documents
    count,     \* book_documents.count: the number the next form shows
    owner,     \* who holds the lock of a book or a document
    task,      \* what a request runs
    requests   \* counted for the bound

vars == <<docs, count, owner, task, requests>>

Lockable == Book \cup Document
Numbers == 1..MaxNumber

\* A column that is NULL is None for the book and 0 for the code; book number 0
\* is None too.  lookedUp is no column: the server looked for the number.
NewDocument == [state |-> "active", book |-> None, code |-> 0, lookedUp |-> TRUE]
Idle == [op |-> "none", pc |-> 0, docs |-> {}, book |-> None, code |-> 0,
         from |-> 1, codes |-> {}]

\* The statements of a handler, by what they lock or write.
Path(op) ==
    CASE op = "assign" -> <<"book", "docs", "number", "commit">>
      [] op = "change" -> <<"docs", "book", "number", "commit">>
      [] op = "refile" -> <<"book", "codes", "number", "docs", "commit">>
      [] op \in {"keep", "edit"} -> <<"code", "book", "docs", "commit">>
      [] op \in {"create", "enter"} -> <<"book", "increase", "insert">>
      [] op = "generate" -> <<"book", "codes", "commit">>

Label(r) == IF task[r].pc = 0 THEN "idle" ELSE Path(task[r].op)[task[r].pc]
BookOf(r) == task[r].book

----------------------------------------------------------------------------
(* What a request sees of the book: the committed rows and its own writes. *)

Written(r) == {w[1] : w \in task[r].codes}
OwnCodes(r) == {w[2] : w \in task[r].codes}

\* change clears the number of its document before it looks for a new one.
Hidden(r) == IF task[r].op = "change" THEN task[r].docs ELSE {}

InBook(b, D) == {d \in D : docs[d].book = b /\ docs[d].code # 0}
Active == {d \in Document : docs[d].state = "active"}

Taken(r) == {docs[d].code : d \in InBook(BookOf(r), Active \ Hidden(r))} \cup OwnCodes(r)

\* increaseBookDocumentCount(ForUpdate) do not look at the status.
Recorded(b) == {docs[d].code : d \in InBook(b, Document)}

\* Mutant: the search goes on from the number after the last one used.
FirstFreeAppending(n, from, S) ==
    n >= from /\ n \notin S /\ \A m \in S : m < n

\* Mutant: the first number tried is taken.
FirstFreeUnchecked(n, from, S) == n = from

\* n is the first number from `from` on that is not in S.
FirstFree(n, from, S) ==
    n >= from /\ n \notin S /\ \A m \in Numbers : (from <= m /\ m < n) => m \in S

\* Mutant: the largest number instead of the one after it.
AfterLargestOff(n, S) == n \in S /\ \A m \in S : m <= n

AfterLargest(n, S) == n - 1 \in S /\ \A m \in S : m < n

----------------------------------------------------------------------------
(* Locks.                                                                  *)

Sends(r) == task[r].op \in {"keep", "edit"}

\* updateDocument leaves a book alone whose number is already recorded.
BookNeeded(r) ==
    IF Label(r) = "book" /\ (Sends(r) => task[r].code \notin Recorded(BookOf(r)))
    THEN {BookOf(r)} \cap Book ELSE {}

RowsNeeded(r) ==
    CASE Label(r) = "docs"  -> task[r].docs
      [] Label(r) = "codes" -> InBook(BookOf(r), Active)
      [] Label(r) = "code"  ->
            {d \in InBook(BookOf(r), Document) : docs[d].code = task[r].code}
      [] OTHER -> {}

\* Mutant: the book is read without its lock.
NeedsNoBook(r) == RowsNeeded(r)

\* The locks that the next statement of r asks for.
Needs(r) == BookNeeded(r) \cup RowsNeeded(r)

WaitsFor(r) == {owner[l] : l \in Needs(r)} \ {None, r}

\* r is part of a cycle of waiting transactions.
Deadlocked(r) ==
    \E D \in SUBSET Request :
        /\ r \in D
        /\ \A x \in D : WaitsFor(x) \cap D # {} /\ \E y \in D : x \in WaitsFor(y)

At(r, label) == Label(r) = label /\ WaitsFor(r) = {}

Step(r, t) == task' = [task EXCEPT ![r] = [t EXCEPT !.pc = @ + 1]]
Release(r) == owner' = [l \in Lockable |-> IF owner[l] = r THEN None ELSE owner[l]]
End(r) == task' = [task EXCEPT ![r] = Idle] /\ Release(r)

----------------------------------------------------------------------------
(* How a request begins.                                                   *)

Begin(r, op, D, b, c) ==
    /\ task[r] = Idle /\ op \in Operations
    /\ requests < MaxRequest
    /\ requests' = requests + 1
    /\ task' = [task EXCEPT ![r] = [Idle EXCEPT !.op = op, !.pc = 1, !.docs = D,
                                                !.book = b, !.code = c]]
    /\ UNCHANGED <<docs, count, owner>>

Existing == {d \in Document : docs[d].state # "absent"}

\* A document that is created has an id of its own.
Fresh == {d \in Document \ Existing : \A q \in Request : d \notin task[q].docs}
Typed == 1..MaxTyped

Assign(r) == \E D \in (SUBSET Existing) \ {{}}, b \in Book : Begin(r, "assign", D, b, 0)
Change(r) == \E d \in Existing, b \in Book : Begin(r, "change", {d}, b, 0)

\* updateDocument reads the document, whatever its status.  Without a number in
\* the request it keeps the old one, or looks for one if the book is another;
\* a number in the request is taken as it is.
Refile(r) ==
    \E d \in Existing, b \in Book :
        /\ docs[d].book # b \/ docs[d].code = 0
        /\ Begin(r, "refile", {d}, b, 0)
Keep(r) ==
    \E d \in Existing :
        /\ docs[d].book # None /\ docs[d].code # 0
        /\ Begin(r, "keep", {d}, docs[d].book, docs[d].code)
Edit(r) == \E d \in Existing, b \in Book \cup {None}, c \in Typed : Begin(r, "edit", {d}, b, c)

\* The form takes the count of the book for the number; with a count of zero
\* it shows none.  The user can type another number.
OpenForm(r) ==
    \E d \in Fresh, b \in Book : count[b] # 0 /\ Begin(r, "create", {d}, b, count[b])
Enter(r) == \E d \in Fresh, b \in Book, c \in Typed : Begin(r, "enter", {d}, b, c)

Generate(r) == \E b \in Book : Begin(r, "generate", {}, b, 0)

----------------------------------------------------------------------------
(* Requests of a single statement.                                         *)

AtOnce(r, op) ==
    /\ task[r] = Idle /\ op \in Operations
    /\ requests < MaxRequest
    /\ requests' = requests + 1
    /\ UNCHANGED <<count, owner, task>>

\* createDocument counts only with a book and a number.
File(r) ==
    /\ AtOnce(r, "file")
    /\ \E d \in Fresh, b \in Book \cup {None}, c \in {0} \cup Typed :
          /\ b = None \/ c = 0
          /\ docs' = [docs EXCEPT ![d] =
                        [NewDocument EXCEPT !.book = b, !.code = c, !.lookedUp = (c = 0)]]

Copy(r) ==
    /\ AtOnce(r, "copy")
    /\ \E d \in Fresh, e \in Existing :
          docs' = [docs EXCEPT ![d] = [docs[e] EXCEPT !.lookedUp = FALSE]]

\* deleteDocument marks the row; its number can be given again.
Withdraw(r) ==
    /\ AtOnce(r, "withdraw")
    /\ \E d \in Active : owner[d] = None /\ docs' = [docs EXCEPT ![d].state = "deleted"]

----------------------------------------------------------------------------
(* The statements.                                                         *)

\* SELECT ... WITH (UPDLOCK, ROWLOCK), or the lock an UPDATE takes.
Lock(r) ==
    /\ \E label \in {"book", "docs", "codes", "code"} : At(r, label)
    /\ owner' = [l \in Lockable |-> IF l \in Needs(r) THEN r ELSE owner[l]]
    /\ Step(r, task[r])
    /\ UNCHANGED <<docs, count, requests>>

\* BOOK already given (assign), or document deleted meanwhile (change).
Refused(r) ==
    \/ task[r].op = "assign" /\ \E d \in task[r].docs : docs[d].book # None
    \/ task[r].op = "change" /\ \E d \in task[r].docs : docs[d].state # "active"

\* Mutant: the transaction is left open.
RefuseOpen(r) ==
    /\ At(r, "number") /\ Refused(r)
    /\ task' = [task EXCEPT ![r] = Idle]
    /\ UNCHANGED <<docs, count, owner, requests>>

Refuse(r) ==
    /\ At(r, "number") /\ Refused(r)
    /\ End(r)
    /\ UNCHANGED <<docs, count, requests>>

\* One document gets the first free number; assign goes on from there.
GiveNumber(r) ==
    /\ At(r, "number") /\ ~Refused(r)
    /\ \E d \in task[r].docs \ Written(r), n \in Numbers :
          LET t == [task[r] EXCEPT !.codes = @ \cup {<<d, n>>}, !.from = n + 1, !.code = n]
          IN /\ FirstFree(n, task[r].from, Taken(r))
             /\ IF Written(r) \cup {d} = task[r].docs THEN Step(r, t)
                ELSE task' = [task EXCEPT ![r] = t]
    /\ UNCHANGED <<docs, count, owner, requests>>

\* updateDocument does not count a number that its book had already.
Counts(r) == Sends(r) => BookOf(r) \in Book /\ owner[BookOf(r)] = r

\* The count that goes with the numbers given.
NextCount(r, n) ==
    CASE task[r].op = "assign" -> FirstFree(n, task[r].from, Taken(r))
      [] task[r].op = "change" -> AfterLargest(n, Taken(r))
      [] task[r].op = "refile" /\ task[r].code \in Recorded(BookOf(r)) ->
            AfterLargest(n, Taken(r))
      [] task[r].op = "generate" ->
            \E m \in Numbers : FirstFree(m, 1, Taken(r)) /\ AfterLargest(n, Taken(r) \cup {m})
      [] OTHER -> FirstFree(n, task[r].code + 1, Recorded(BookOf(r)))

\* Mutant: the number is written and the book is not.
NumberedCodeOnly(r, d) ==
    [docs[d] EXCEPT !.lookedUp = TRUE, !.code = IF Sends(r) THEN task[r].code ELSE task[r].from - 1]

Numbered(r, d) ==
    IF Sends(r)
    THEN [docs[d] EXCEPT !.book = BookOf(r), !.code = task[r].code,
                         !.lookedUp = @ /\ task[r].op = "keep"]
    ELSE [docs[d] EXCEPT !.book = BookOf(r), !.lookedUp = TRUE,
                         !.code = CHOOSE n \in OwnCodes(r) : <<d, n>> \in task[r].codes]

Commit(r) ==
    /\ At(r, "commit")
    /\ IF Counts(r)
       THEN \E n \in Numbers : NextCount(r, n) /\ count' = [count EXCEPT ![BookOf(r)] = n]
       ELSE UNCHANGED count
    /\ docs' = [d \in Document |-> IF d \in task[r].docs THEN Numbered(r, d) ELSE docs[d]]
    /\ End(r)
    /\ UNCHANGED requests

\* createDocument: the count in a transaction of its own, then the row.
IncreaseCount(r) ==
    /\ At(r, "increase")
    /\ \E n \in Numbers : /\ FirstFree(n, count[BookOf(r)] + 1, Recorded(BookOf(r)))
                          /\ count' = [count EXCEPT ![BookOf(r)] = n]
    /\ Release(r) /\ Step(r, task[r])
    /\ UNCHANGED <<docs, requests>>

Insert(r) ==
    /\ At(r, "insert")
    /\ docs' = [d \in Document |->
                  IF d \in task[r].docs
                  THEN [NewDocument EXCEPT !.book = BookOf(r), !.code = task[r].code,
                                            !.lookedUp = (task[r].op = "create")]
                  ELSE docs[d]]
    /\ End(r)
    /\ UNCHANGED <<count, requests>>

Rollback(r) == End(r) /\ UNCHANGED <<docs, count, requests>>
DeadlockVictim(r) == Deadlocked(r) /\ Rollback(r)
Fail(r) == task[r] # Idle /\ Rollback(r)

----------------------------------------------------------------------------

Init ==
    /\ docs \in [Document -> {NewDocument, [NewDocument EXCEPT !.state = "absent"]}]
    /\ count \in [Book -> {0, 1}]
    /\ owner = [l \in Lockable |-> None]
    /\ task = [r \in Request |-> Idle]
    /\ requests = 0

Arrival(r) ==
    \/ Assign(r) \/ Change(r) \/ Refile(r) \/ Keep(r) \/ Edit(r)
    \/ OpenForm(r) \/ Enter(r) \/ Generate(r)
    \/ File(r) \/ Copy(r) \/ Withdraw(r)

Progress(r) ==
    \/ Lock(r) \/ Refuse(r) \/ GiveNumber(r) \/ Commit(r)
    \/ IncreaseCount(r) \/ Insert(r) \/ DeadlockVictim(r)

\* Nothing is in flight, and nobody sends anything any more.
Quiescent == (\A r \in Request : task[r] = Idle) /\ UNCHANGED vars

Next == (\E r \in Request : Arrival(r) \/ Progress(r) \/ Fail(r)) \/ Quiescent

Spec == Init /\ [][Next]_vars

\* The server executes what it began; nobody has to send anything.
FairSpec == Spec /\ \A r \in Request : WF_vars(Progress(r))

----------------------------------------------------------------------------

\* The rows of the documents and books, and what a request keeps of them; a
\* number that the server looked for is in a book.
TypeOK ==
    /\ docs \in [Document -> [state : {"absent", "active", "deleted"},
                              book : Book \cup {None}, code : {0} \cup Numbers,
                              lookedUp : BOOLEAN]]
    /\ \A d \in Document : docs[d].lookedUp /\ docs[d].code # 0 => docs[d].book # None
    /\ count \in [Book -> {0} \cup Numbers]
    /\ owner \in [Lockable -> Request \cup {None}]
    /\ task \in [Request -> [op : {"none", "assign", "change", "refile", "keep", "edit",
                                   "create", "enter", "generate"},
                             pc : 0..5, docs : SUBSET Document, book : Book \cup {None},
                             code : {0} \cup Numbers, from : 1..(MaxNumber + 1),
                             codes : SUBSET (Document \X Numbers)]]
    /\ requests \in Nat

\* The active documents of b whose number the server looked for.
LookedUp(b) == {d \in InBook(b, Active) : docs[d].lookedUp}

\* assign, change, updateDocument and the count of the form: of two documents
\* with the same number of a book, one has it from a client or is a copy.
UniqueCode ==
    \A b \in Book : \A d, e \in LookedUp(b) : d # e => docs[d].code # docs[e].code

\* assign, change, updateDocument, createDocument, generateToBookCode: the
\* number that the next form will show was looked up for nobody else.
CountIsFree ==
    \A b \in Book : count[b] \notin {docs[d].code : d \in LookedUp(b)}

\* assign, change, updateDocument: a number that the server looks for, for
\* documents that are not deleted, leaves no smaller one free ("hole filling").
HolesFilled ==
    [][ \A d \in Document :
          /\ <<docs'[d].book, docs'[d].code>> # <<docs[d].book, docs[d].code>>
          /\ docs'[d].lookedUp
          /\ \A e \in Document : docs'[e] # docs[e] => docs[e].state = "active"
          => 1..docs'[d].code \subseteq
               {docs'[e].code : e \in {x \in Document : /\ docs'[x].state = "active"
                                                       /\ docs'[x].book = docs'[d].book}} ]_vars

\* Locks, deadlocks and failures: a request that began ends.
RequestsEnd == \A r \in Request : (task[r] # Idle) ~> (task[r] = Idle)

\* What assign, change, refile and withdraw promise together: NumberBook.
Place == [d \in Document |->
            IF docs[d].state = "active" /\ docs[d].book # None /\ docs[d].code # 0
            THEN <<docs[d].book, docs[d].code>> ELSE None]
Abstract == INSTANCE NumberBook WITH place <- Place
ImplementsNumberBook == Abstract!Spec
=============================================================================
