----------------------------- MODULE Disbursement -----------------------------
(***************************************************************************)
(* Disbursements of ONE item of a social programme: drafted, submitted,    *)
(* approved in three steps, or rejected and edited.  Every handler is a    *)
(* transaction that reads the disbursement without a lock, decides on what *)
(* it read and saves the entity; the number of a new one comes from the    *)
(* sequence of the programme, whose row is locked if it exists.            *)
(***************************************************************************)
EXTENDS Naturals, FiniteSets, EntityManager

CONSTANTS
    Disbursements,
    Request,      \* HTTP requests that can be in flight together
    Amounts,      \* what a disbursement can be of
    FirstNumbers, \* initial next_sequence_no; 0: the programme has no row yet
    LastStep,     \* steps configured in the workflow
    MaxRequest,   \* bound: requests in a behaviour
    None

\* "OTHER": the column is free text, and so is what the forms send.
Status == {"DRAFT", "PENDING_APPROVAL", "APPROVED", "DISBURSED", "COMPLETED", "REJECTED", "OTHER"}
Rows == [status : Status, step : 1..5, number : Nat]

ASSUME DisbursementAssumption ==
    /\ Amounts \subseteq Nat \ {0}
    /\ FirstNumbers \subseteq Nat
    /\ LastStep \in 4..5
    /\ MaxRequest \in Nat
    /\ None \notin Request
    /\ None \notin Rows

VARIABLES
    row,       \* rows of disbursements, or None
    details,   \* their detail lines: the total, and which edit wrote them
    sequence,  \* next_sequence_no of the programme, 0 if it has no row
    owner,     \* the transaction that holds the lock of that row, or None
    task,      \* what a request runs
    requests,  \* counted for the bound
    passed,    \* history: steps whose approval was ever written, or that a form
               \* skipped by the status it sent
    agreed     \* history: the total when step 2 was last approved or skipped

vars == <<row, details, sequence, owner, task, requests, passed, agreed>>

Editable == {"DRAFT", "REJECTED"}
NoDetails == [total |-> 0, edit |-> 0]
Idle == [op |-> "none", at |-> "idle", ids |-> {}, entity |-> None, lines |-> NoDetails,
         columns |-> {}, asked |-> "DRAFT", seen |-> 0]

At(r, label) == task[r].at = label
Present(d) == row[d] # None
Goto(r, label) == task' = [task EXCEPT ![r].at = label]

\* The transaction is over; a lock it took is free.
End(r) == /\ task' = [task EXCEPT ![r] = Idle]
          /\ owner' = IF owner = r THEN None ELSE owner

----------------------------------------------------------------------------
(* How a request begins: findOne, the guards, the assignments.             *)

Begin(r, t) ==
    /\ At(r, "idle")
    /\ requests < MaxRequest
    /\ requests' = requests + 1
    /\ task' = [task EXCEPT ![r] = t]
    /\ UNCHANGED <<row, details, sequence, owner, passed, agreed>>

Saving(o, d, e, lines) ==
    [Idle EXCEPT !.op = o, !.at = "select", !.ids = {d}, !.entity = e, !.lines = lines]

Submitted(e) == [e EXCEPT !.status = "PENDING_APPROVAL", !.step = 2]

\* TRANSFERRED, which only a form can have set, is one of the OTHER statuses.
CanSubmit(d) == Present(d) /\ row[d].status \in {"DRAFT", "OTHER"}

\* The save of confirmSubmit compares the detail lines too.
ConfirmSubmit(r) ==
    \E d \in Disbursements :
        /\ CanSubmit(d) /\ details[d].total # 0
        /\ Begin(r, Saving("submit", d, Submitted(row[d]), details[d]))

\* Mutant: whatever the status.
CanEditAlways(d) == Present(d)

CanEdit(d) == Present(d) /\ row[d].status \in Editable

\* The form submits, or sends no status, or sends one, which is stored as it is;
\* then the step stays.
Update(r) ==
    \E d \in Disbursements, q \in Amounts :
        /\ CanEdit(d)
        /\ LET lines == [total |-> q, edit |-> requests + 1]
           IN \/ Begin(r, Saving("edit", d, Submitted(row[d]), lines))
              \/ Begin(r, Saving("edit", d, row[d], lines))
              \/ \E s \in Status :
                    Begin(r, [Saving("edit", d, [row[d] EXCEPT !.status = s], lines)
                              EXCEPT !.asked = s])

StepOf == [s \in Status |->
    CASE s \in Editable \cup {"OTHER"} -> 1 [] s = "PENDING_APPROVAL" -> 2
      [] s = "APPROVED" -> 3 [] s = "DISBURSED" -> 4 [] s = "COMPLETED" -> 5]

\* Only a status that nobody knows leaves the step to the column.
DeriveStep(x) == IF x.status = "OTHER" THEN x.step ELSE StepOf[x.status]

\* Mutant: whoever may approve may also transfer.
NextStatusSkipping(s) ==
    CASE s = "PENDING_APPROVAL" -> "DISBURSED" [] s = "APPROVED" -> "DISBURSED"
      [] s = "DISBURSED" -> "COMPLETED"

NextStatus(s) ==
    CASE s = "PENDING_APPROVAL" -> "APPROVED" [] s = "APPROVED" -> "DISBURSED"
      [] s = "DISBURSED" -> "COMPLETED"

\* Mutant: the editor finds the disbursement at no step.
SentBackNowhere(e) == [e EXCEPT !.status = "REJECTED", !.step = 0]

SentBack(e) == [e EXCEPT !.status = "REJECTED", !.step = 1]

\* Mutant: a step that the workflow does not have can be rejected.
CanRejectAnywhere(d) == DeriveStep(row[d]) >= 2

CanReject(d) == DeriveStep(row[d]) \in 2..LastStep

\* Of the status that is asked for only REJECTED is told from the others.
UpdateStatus(r) ==
    \E d \in Disbursements, asked \in {"REJECTED", "APPROVED"} :
        /\ Present(d)
        /\ LET s == row[d].status
               t == Saving("status", d, row[d], details[d])
           IN \/ /\ asked = "REJECTED" /\ CanReject(d)
                 /\ Begin(r, [t EXCEPT !.asked = asked, !.entity = SentBack(@)])
              \/ /\ asked # "REJECTED" /\ StepOf[s] \in 2..4
                 /\ Begin(r, [t EXCEPT !.asked = asked,
                                       !.entity.status = NextStatus(s),
                                       !.entity.step = StepOf[s] + 1])

Delete(r) ==
    \E d \in Disbursements :
        /\ Present(d) /\ row[d].status \in Editable
        /\ Begin(r, [Idle EXCEPT !.op = "delete", !.at = "delete", !.ids = {d}])

\* The status that the form sends, at the first step.
New(s) == [status |-> s, step |-> 1, number |-> 0]

\* A new disbursement has an id of its own.
Create(r) ==
    \E d \in Disbursements, q \in Amounts,
       e \in {Submitted(New("DRAFT"))} \cup {New(s) : s \in Status} :
        /\ ~Present(d) /\ passed[d] = {} /\ \A x \in Request : d \notin task[x].ids
        /\ Begin(r, [Saving("create", d, e, [total |-> q, edit |-> requests + 1])
                     EXCEPT !.at = "sequence", !.asked = e.status])

----------------------------------------------------------------------------
(* The number of a new disbursement.                                       *)

\* Mutant: the row is read like any other.
LockSequenceNot(r) == owner' = owner

LockSequence(r) == owner = None /\ owner' = r

\* The row is read under its lock.  Without a row there is nothing to lock.
ReadSequence(r) ==
    /\ At(r, "sequence")
    /\ \/ /\ sequence # 0 /\ LockSequence(r)
          /\ task' = [task EXCEPT ![r].at = "create", ![r].seen = sequence]
       \/ /\ sequence = 0 /\ owner = None /\ UNCHANGED owner
          /\ task' = [task EXCEPT ![r].at = "newSequence", ![r].seen = 1]
    /\ UNCHANGED <<row, details, sequence, requests, passed, agreed>>

\* save looks for the row again: it inserts it, or sets it to the value in
\* memory, or finds that value there and writes nothing.
SelectSequence(r) ==
    /\ At(r, "newSequence")
    /\ Goto(r, IF sequence = 0 THEN "insertSequence"
               ELSE IF sequence = task[r].seen + 1 THEN "create" ELSE "setSequence")
    /\ UNCHANGED <<row, details, sequence, owner, requests, passed, agreed>>

\* The key of the row is locked; a second INSERT of it fails.
WriteSequence(r) ==
    /\ At(r, "insertSequence") \/ At(r, "setSequence")
    /\ owner = None
    /\ IF At(r, "insertSequence") /\ sequence # 0 THEN End(r)
       ELSE owner' = r /\ Goto(r, "create")
    /\ UNCHANGED <<row, details, sequence, requests, passed, agreed>>

\* The step that a committed approval stands for; the steps before the status
\* that a form sends.
Passes(t) ==
    CASE t.op = "status" /\ t.asked # "REJECTED" -> {t.entity.step - 1}
      [] t.op \in {"create", "edit"} -> 2..(StepOf[t.asked] - 1)
      [] OTHER -> {}

\* What the history keeps of a commit that leaves d with this total.
Recorded(r, d, total) ==
    /\ passed' = [passed EXCEPT ![d] = @ \cup Passes(task[r])]
    /\ agreed' = IF 2 \in Passes(task[r]) THEN [agreed EXCEPT ![d] = total] ELSE agreed

\* The disbursement, its lines and its log; then the commit.
Insert(r) ==
    /\ At(r, "create")
    /\ \E d \in task[r].ids :
          /\ row' = [row EXCEPT ![d] = [task[r].entity EXCEPT !.number = task[r].seen]]
          /\ details' = [details EXCEPT ![d] = task[r].lines]
          /\ Recorded(r, d, task[r].lines.total)
    /\ sequence' = IF owner = r THEN task[r].seen + 1 ELSE sequence
    /\ End(r)
    /\ UNCHANGED requests

----------------------------------------------------------------------------
(* save(disbursement), the rest of the transaction, and its commit.        *)

\* confirmSubmit alone has loaded the detail lines: the mapper wants to
\* detach those it does not know, and disbursement_id is NOT NULL.
Refused(r, d) == task[r].op = "submit" /\ Present(d) /\ details[d] # task[r].lines

Select(r) ==
    /\ At(r, "select")
    /\ \E d \in task[r].ids :
          \/ Refused(r, d) /\ End(r)
          \/ /\ ~Refused(r, d) /\ UNCHANGED owner
             /\ task' = [task EXCEPT ![r].at = IF Present(d) THEN "write" ELSE "insert",
                    ![r].columns = IF Present(d) THEN Differing(task[r].entity, row[d])
                                   ELSE {}]
    /\ UNCHANGED <<row, details, sequence, requests, passed, agreed>>

Saved(r, d, e) ==
    /\ row' = [row EXCEPT ![d] = e]
    /\ details' = IF task[r].op = "edit" THEN [details EXCEPT ![d] = task[r].lines] ELSE details
    /\ Recorded(r, d, details'[d].total)

\* The log refers to the disbursement: without its row the transaction fails.
Write(r) ==
    /\ At(r, "write")
    /\ \E d \in task[r].ids :
          IF Present(d) THEN Saved(r, d, Updated(row[d], task[r].entity, task[r].columns))
          ELSE UNCHANGED <<row, details, passed, agreed>>
    /\ End(r)
    /\ UNCHANGED <<sequence, requests>>

\* The row was gone when the mapper looked: it is inserted as it was read.
InsertAgain(r) ==
    /\ At(r, "insert")
    /\ \E d \in task[r].ids :
          IF Present(d) THEN UNCHANGED <<row, details, passed, agreed>>
          ELSE Saved(r, d, task[r].entity)
    /\ End(r)
    /\ UNCHANGED <<sequence, requests>>

\* The lines, the log and the row, whatever its status is by now.
Remove(r) ==
    /\ At(r, "delete")
    /\ row' = [d \in Disbursements |-> IF d \in task[r].ids THEN None ELSE row[d]]
    /\ details' = [d \in Disbursements |-> IF d \in task[r].ids THEN NoDetails ELSE details[d]]
    /\ End(r)
    /\ UNCHANGED <<sequence, requests, passed, agreed>>

Fail(r) ==
    /\ ~At(r, "idle") /\ End(r)
    /\ UNCHANGED <<row, details, sequence, requests, passed, agreed>>

----------------------------------------------------------------------------

Init ==
    /\ row = [d \in Disbursements |-> None]
    /\ details = [d \in Disbursements |-> NoDetails]
    /\ sequence \in FirstNumbers
    /\ owner = None
    /\ task = [r \in Request |-> Idle]
    /\ requests = 0
    /\ passed = [d \in Disbursements |-> {}]
    /\ agreed = [d \in Disbursements |-> 0]

Arrival(r) == Create(r) \/ ConfirmSubmit(r) \/ Update(r) \/ UpdateStatus(r) \/ Delete(r)

Progress(r) ==
    \/ ReadSequence(r) \/ SelectSequence(r) \/ WriteSequence(r) \/ Insert(r)
    \/ Select(r) \/ Write(r) \/ InsertAgain(r) \/ Remove(r)

\* Nothing is in flight and nobody sends anything any more.
Quiescent == (\A r \in Request : At(r, "idle")) /\ UNCHANGED vars

Next == (\E r \in Request : Arrival(r) \/ Progress(r) \/ Fail(r)) \/ Quiescent

Spec == Init /\ [][Next]_vars

----------------------------------------------------------------------------

Lines == [total : Amounts \cup {0}, edit : Nat]

TaskRecord ==
    [op : {"none", "create", "submit", "edit", "status", "delete"},
     at : {"idle", "sequence", "newSequence", "insertSequence", "setSequence", "create",
           "select", "write", "insert", "delete"},
     ids : SUBSET Disbursements, entity : Rows \cup {None}, lines : Lines,
     columns : SUBSET {"status", "step", "number"}, asked : Status, seen : Nat]

\* The tables, and what a request keeps of them.
TypeOK ==
    /\ row \in [Disbursements -> Rows \cup {None}]
    /\ details \in [Disbursements -> Lines]
    /\ sequence \in Nat /\ owner \in Request \cup {None}
    /\ task \in [Request -> TaskRecord]
    /\ requests \in Nat
    /\ passed \in [Disbursements -> SUBSET (2..4)]
    /\ agreed \in [Disbursements -> Amounts \cup {0}]

\* createDisbursement: no two disbursements of the programme have the same number.
UniqueNumber ==
    \A d, e \in Disbursements :
        (d # e /\ Present(d) /\ Present(e)) => row[d].number # row[e].number

\* updateStatus, whatever runs beside it: a disbursement has been through every
\* step before the one that its status stands for; the step was approved, or
\* createDisbursement or updateDisbursement skipped it by the status they sent.
StepsInOrder ==
    \A d \in Disbursements : Present(d) => 2..(StepOf[row[d].status] - 1) \subseteq passed[d]

\* updateDisbursement against updateStatus: what is approved, transferred or
\* completed is the total that was approved, or that came with the status.
ApprovedTotal ==
    \A d \in Disbursements :
        (Present(d) /\ row[d].status \in {"APPROVED", "DISBURSED", "COMPLETED"})
            => details[d].total = agreed[d]
=============================================================================
