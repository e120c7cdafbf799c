------------------------- MODULE MCDisbursement_proofs -------------------------
(***************************************************************************)
(* Theorems about MCDisbursement: what the lock of the sequence row gives  *)
(* to the numbers of disbursements, and what the approval promises as long *)
(* as one request works at a time, for any number of either.               *)
(***************************************************************************)
EXTENDS MCDisbursement, Disbursement_proofs

----------------------------------------------------------------------------
(* The shape of the steps.                                                 *)

\* The phases of a creation, and those in which a handler holds a copy of a row.
Sequencing == {"sequence", "newSequence", "insertSequence", "setSequence", "create"}
Holding == {"select", "write", "insert"}

\* What has been approved, at least once.
Settled == {"APPROVED", "DISBURSED", "COMPLETED"}

\* How the copy of the handler t differs from the row x that it was made from:
\* only an approval, or a form that says so, makes it settled.
Legal(t, x) ==
    \/ /\ t.op = "edit" /\ x.status \in Editable
       /\ t.entity.status \in Settled => t.asked = t.entity.status
    \/ t.op = "submit" /\ x.status \in {"DRAFT", "OTHER"} /\ t.entity.status = "PENDING_APPROVAL"
    \/ /\ t.op = "status" /\ t.asked = "REJECTED" /\ DeriveStep(x) \in 2..LastStep
       /\ t.entity.status = "REJECTED"
    \/ /\ t.op = "status" /\ t.asked # "REJECTED" /\ StepOf[x.status] \in 2..4
       /\ t.entity.status = NextStatus(x.status) /\ t.entity.step = StepOf[x.status] + 1

\* A creation begins for a disbursement that nobody knows.
Creating(t, d) ==
    /\ ~Present(d) /\ \A x \in Request : d \notin task[x].ids
    /\ t.at = "sequence" /\ t.op = "create" /\ t.asked = t.entity.status

\* A change of a row begins; the copy has the number of the row.
Changing(t, d) ==
    /\ Present(d) /\ t.at = "select" /\ t.entity.number = row[d].number
    /\ Legal(t, row[d])

Deleting(t, d) == Present(d) /\ t.at = "delete" /\ row[d].status \in Editable

LEMMA CopyFields ==
    ASSUME NEW e \in Rows
    PROVE  /\ Submitted(e).number = e.number /\ Submitted(e).step = 2
           /\ SentBack(e).number = e.number /\ SentBack(e).step = 1
BY DEF Submitted, SentBack, Rows

LEMMA ArrivalShape ==
    ASSUME IInv, NEW r \in Request, Arrival(r)
    PROVE  \E t \in TaskRecord, d \in Disbursements :
              /\ Begin(r, t) /\ t.ids = {d}
              /\ Creating(t, d) \/ Changing(t, d) \/ Deleting(t, d)
<1>t. \A d \in Disbursements : Present(d) => row[d] \in Rows
  BY DEF IInv, TypeOK, Present
<1>d. \A d \in Disbursements : details[d] \in Lines
  BY DEF IInv, TypeOK
<1>l. \A q \in Amounts : [total |-> q, edit |-> requests + 1] \in Lines
  BY DEF IInv, TypeOK, Lines
<1>1. CASE Create(r)
  <2>1. PICK d \in Disbursements, q \in Amounts,
             e \in {Submitted(New("DRAFT"))} \cup {New(s) : s \in Status} :
          /\ ~Present(d) /\ \A x \in Request : d \notin task[x].ids
          /\ Begin(r, [Saving("create", d, e, [total |-> q, edit |-> requests + 1])
                       EXCEPT !.at = "sequence", !.asked = e.status])
    BY <1>1 DEF Create
  <2> DEFINE t == Saving("create", d, e, [total |-> q, edit |-> requests + 1])
             u == [t EXCEPT !.at = "sequence", !.asked = e.status]
  <2>2. e \in Rows /\ e.status \in Status
    BY <2>1, NewType, DraftIsNew, SubmittedType, RowFields
  <2>3. t \in TaskRecord /\ t.op = "create" /\ t.ids = {d} /\ t.entity = e
    BY <2>2, <1>l, SavingType
  <2>4. /\ u \in TaskRecord /\ u.op = "create" /\ u.at = "sequence" /\ u.ids = {d}
        /\ u.entity = e /\ u.asked = e.status
    BY <2>2, <2>3 DEF TaskRecord
  <2> HIDE DEF u
  <2>5. Creating(u, d)
    BY <2>1, <2>4 DEF Creating
  <2> QED
    BY <2>1, <2>4, <2>5 DEF u
<1>2. CASE ConfirmSubmit(r)
  <2>1. PICK d \in Disbursements :
          /\ Present(d) /\ row[d].status \in {"DRAFT", "OTHER"}
          /\ Begin(r, Saving("submit", d, Submitted(row[d]), details[d]))
    BY <1>2 DEF ConfirmSubmit, CanSubmit
  <2> DEFINE t == Saving("submit", d, Submitted(row[d]), details[d])
  <2>2. /\ Submitted(row[d]) \in Rows /\ Submitted(row[d]).status = "PENDING_APPROVAL"
        /\ Submitted(row[d]).number = row[d].number /\ Submitted(row[d]).step = 2
    BY <2>1, <1>t, SubmittedType, CopyFields
  <2>3. /\ t \in TaskRecord /\ t.op = "submit" /\ t.at = "select" /\ t.ids = {d}
        /\ t.entity = Submitted(row[d])
    BY <2>2, <1>d, SavingType
  <2> HIDE DEF t
  <2>4. Changing(t, d)
    BY <2>1, <2>2, <2>3 DEF Changing, Legal
  <2> QED
    BY <2>1, <2>3, <2>4 DEF t
<1>3. CASE Update(r)
  <2>1. PICK d \in Disbursements, q \in Amounts :
          /\ CanEdit(d)
          /\ LET lines == [total |-> q, edit |-> requests + 1]
             IN \/ Begin(r, Saving("edit", d, Submitted(row[d]), lines))
                \/ Begin(r, Saving("edit", d, row[d], lines))
                \/ \E s \in Status :
                      Begin(r, [Saving("edit", d, [row[d] EXCEPT !.status = s], lines)
                                EXCEPT !.asked = s])
    BY <1>3 DEF Update
  <2> DEFINE lines == [total |-> q, edit |-> requests + 1]
  <2>2. /\ lines \in Lines /\ Present(d) /\ row[d] \in Rows
        /\ row[d].status \in Editable
    BY <2>1, <1>t, <1>l DEF CanEdit
  <2> HIDE DEF lines
  \* Submitted, or saved with the status it has.
  <2>3. ASSUME NEW e \in {Submitted(row[d]), row[d]}, Begin(r, Saving("edit", d, e, lines))
        PROVE  \E t \in TaskRecord : Begin(r, t) /\ t.ids = {d} /\ Changing(t, d)
    <3> DEFINE t == Saving("edit", d, e, lines)
    <3>1. e \in Rows /\ e.number = row[d].number /\ e.status \notin Settled
      BY <2>2, SubmittedType, CopyFields DEF Editable, Settled
    <3>2. /\ t \in TaskRecord /\ t.op = "edit" /\ t.at = "select" /\ t.ids = {d}
          /\ t.entity = e
      BY <2>2, <3>1, SavingType
    <3> HIDE DEF t
    <3>3. Changing(t, d)
      BY <2>2, <3>1, <3>2 DEF Changing, Legal
    <3> QED
      BY <2>3, <3>2, <3>3 DEF t
  \* Saved with the status it sends.
  <2>4. ASSUME NEW s \in Status,
               Begin(r, [Saving("edit", d, [row[d] EXCEPT !.status = s], lines)
                         EXCEPT !.asked = s])
        PROVE  \E t \in TaskRecord : Begin(r, t) /\ t.ids = {d} /\ Changing(t, d)
    <3> DEFINE e == [row[d] EXCEPT !.status = s]
               t == Saving("edit", d, e, lines)
               u == [t EXCEPT !.asked = s]
    <3>1. e \in Rows /\ e.status = s /\ e.number = row[d].number
      BY <2>2 DEF Rows
    <3> HIDE DEF e
    <3>2. t \in TaskRecord /\ t.op = "edit" /\ t.at = "select" /\ t.ids = {d} /\ t.entity = e
      BY <2>2, <3>1, SavingType
    <3>3. /\ u \in TaskRecord /\ u.op = "edit" /\ u.at = "select" /\ u.ids = {d}
          /\ u.entity = e /\ u.asked = s
      BY <3>2 DEF TaskRecord
    <3> HIDE DEF t, u
    <3>4. Changing(u, d)
      BY <2>2, <3>1, <3>3 DEF Changing, Legal
    <3> QED
      BY <2>4, <3>3, <3>4 DEF u, t, e
  <2> QED
    BY <2>1, <2>3, <2>4 DEF lines
<1>4. CASE UpdateStatus(r)
  <2> DEFINE S(d) == Saving("status", d, row[d], details[d])
  <2>1. PICK d \in Disbursements, asked \in {"REJECTED", "APPROVED"} :
          /\ Present(d)
          /\ \/ /\ asked = "REJECTED" /\ CanReject(d)
                /\ Begin(r, [S(d) EXCEPT !.asked = asked, !.entity = SentBack(@)])
             \/ /\ asked # "REJECTED" /\ StepOf[row[d].status] \in 2..4
                /\ Begin(r, [S(d) EXCEPT !.asked = asked,
                                         !.entity.status = NextStatus(row[d].status),
                                         !.entity.step = StepOf[row[d].status] + 1])
    BY <1>4 DEF UpdateStatus
  <2>2. row[d] \in Rows /\ row[d].status \in Status /\ asked \in Status
    BY <2>1, <1>t, RowFields DEF Status
  <2>3. /\ S(d) \in TaskRecord /\ S(d).op = "status" /\ S(d).at = "select"
        /\ S(d).ids = {d} /\ S(d).entity = row[d]
    BY <2>2, <1>d, SavingType
  <2> HIDE DEF S
  <2>4. CASE /\ asked = "REJECTED" /\ CanReject(d)
             /\ Begin(r, [S(d) EXCEPT !.asked = asked, !.entity = SentBack(@)])
    <3> DEFINE t == [S(d) EXCEPT !.asked = asked, !.entity = SentBack(@)]
    <3>1. /\ SentBack(row[d]) \in Rows /\ SentBack(row[d]).status = "REJECTED"
          /\ SentBack(row[d]).number = row[d].number /\ SentBack(row[d]).step = 1
      BY <2>2, SubmittedType, CopyFields
    <3>2. t \in TaskRecord
      BY <2>2, <2>3, <3>1 DEF TaskRecord
    <3>3. /\ t.op = "status" /\ t.asked = "REJECTED" /\ t.at = "select" /\ t.ids = {d}
          /\ t.entity = SentBack(row[d])
      BY <2>3, <2>4 DEF TaskRecord
    <3>4. DeriveStep(row[d]) \in 2..LastStep
      BY <2>4 DEF CanReject
    <3> HIDE DEF t
    <3>5. Changing(t, d)
      BY <2>1, <3>1, <3>3, <3>4 DEF Changing, Legal
    <3> QED
      BY <2>4, <3>2, <3>3, <3>5 DEF t
  <2>5. CASE /\ asked # "REJECTED" /\ StepOf[row[d].status] \in 2..4
             /\ Begin(r, [S(d) EXCEPT !.asked = asked,
                                      !.entity.status = NextStatus(row[d].status),
                                      !.entity.step = StepOf[row[d].status] + 1])
    <3> DEFINE k == StepOf[row[d].status]
               e == [row[d] EXCEPT !.status = NextStatus(row[d].status), !.step = k + 1]
               t == [S(d) EXCEPT !.asked = asked, !.entity.status = NextStatus(row[d].status),
                                 !.entity.step = k + 1]
    <3>1. NextStatus(row[d].status) \in Status /\ StepOf[NextStatus(row[d].status)] = k + 1
      BY <2>2, <2>5, NextStatusType
    <3>k. k \in 2..4 /\ k + 1 \in 1..5
      BY <2>5
    <3> HIDE DEF k
    <3>2. /\ e \in Rows /\ e.status = NextStatus(row[d].status) /\ e.step = k + 1
          /\ e.number = row[d].number
      BY <2>2, <3>k, <3>1 DEF Rows
    <3>3. /\ t.op = "status" /\ t.asked = asked /\ t.at = "select" /\ t.ids = {d}
          /\ t.entity = e
      BY <2>2, <2>3 DEF TaskRecord, Rows
    <3>4. t \in TaskRecord
      BY <2>2, <2>3, <3>2, <3>3 DEF TaskRecord
    <3> HIDE DEF t, e
    <3>5. Changing(t, d)
      BY <2>1, <2>5, <3>1, <3>2, <3>3 DEF Changing, Legal, k
    <3> QED
      BY <2>5, <3>3, <3>4, <3>5 DEF t, k
  <2> QED
    BY <2>1, <2>4, <2>5
<1>5. CASE Delete(r)
  <2>1. PICK d \in Disbursements :
          /\ Present(d) /\ row[d].status \in Editable
          /\ Begin(r, [Idle EXCEPT !.op = "delete", !.at = "delete", !.ids = {d}])
    BY <1>5 DEF Delete
  <2> DEFINE t == [Idle EXCEPT !.op = "delete", !.at = "delete", !.ids = {d}]
  <2>2. t \in TaskRecord
    BY IdleType DEF TaskRecord
  <2>3. t.at = "delete" /\ t.ids = {d}
    BY DEF Idle
  <2> HIDE DEF t
  <2>4. Deleting(t, d)
    BY <2>1, <2>3 DEF Deleting
  <2> QED
    BY <2>1, <2>2, <2>3, <2>4 DEF t
<1> QED
  BY <1>1, <1>2, <1>3, <1>4, <1>5 DEF Arrival

\* What a request keeps of a disbursement while it takes a number or saves.
Keeps(t, u) ==
    /\ t.op = u.op /\ t.ids = u.ids /\ t.entity = u.entity /\ t.asked = u.asked
    /\ t.lines = u.lines

\* The way to a number: under the lock, or to a sequence row that is not there.
Numbering(r, t) ==
    \/ /\ task[r].at = "sequence" /\ t.at = "create" /\ sequence # 0 /\ t.seen = sequence
       /\ owner = None /\ owner' = r
    \/ task[r].at = "sequence" /\ t.at = "newSequence" /\ sequence = 0 /\ owner' = owner
    \/ /\ task[r].at = "newSequence" /\ owner' = owner
       /\ t.at = "insertSequence" \/ (sequence # 0 /\ t.at \in {"create", "setSequence"})
    \/ /\ task[r].at \in {"insertSequence", "setSequence"} /\ t.at = "create"
       /\ owner = None /\ owner' = r

\* The second read of save, before the UPDATE or the INSERT.
Selecting(r, t) ==
    /\ task[r].at = "select" /\ owner' = owner
    /\ \E d \in task[r].ids :
          \/ Present(d) /\ t.at = "write" /\ t.columns = Differing(task[r].entity, row[d])
          \/ ~Present(d) /\ t.at = "insert"

\* The task u with a new label, and with it another value of one field.
Moved(u, a, n, C) == [u EXCEPT !.at = a, !.seen = n, !.columns = C]

LEMMA MovedType ==
    ASSUME NEW u \in TaskRecord, NEW n \in Nat, NEW C \in SUBSET {"status", "step", "number"},
           NEW a \in {"newSequence", "insertSequence", "setSequence", "create", "write", "insert"}
    PROVE  /\ Moved(u, a, n, C) \in TaskRecord /\ Keeps(Moved(u, a, n, C), u)
           /\ Moved(u, a, n, C).at = a /\ Moved(u, a, n, C).seen = n
           /\ Moved(u, a, n, C).columns = C
BY DEF TaskRecord, Keeps, Moved

LEMMA MoveShape ==
    ASSUME IInv, NEW r \in Request,
           ReadSequence(r) \/ SelectSequence(r) \/ WriteSequence(r) \/ Select(r)
    PROVE  /\ task[r].at # "idle"
           /\ UNCHANGED <<row, details, sequence, requests, passed, agreed>>
           /\ \/ End(r)
              \/ \E t \in TaskRecord :
                    /\ task' = [task EXCEPT ![r] = t] /\ Keeps(t, task[r])
                    /\ Numbering(r, t) \/ Selecting(r, t)
<1>t. task[r] \in TaskRecord /\ task \in [Request -> TaskRecord]
  BY DEF IInv, TypeOK
<1>u. /\ task[r].at # "idle"
      /\ UNCHANGED <<row, details, sequence, requests, passed, agreed>>
  BY DEF ReadSequence, SelectSequence, WriteSequence, Select, At
<1>f. task[r].seen \in Nat /\ task[r].columns \in SUBSET {"status", "step", "number"}
      /\ sequence \in Nat
  BY <1>t DEF TaskRecord, IInv, TypeOK
<1>1. CASE ReadSequence(r)
  <2>1. CASE sequence # 0
    <3> DEFINE t == Moved(task[r], "create", sequence, task[r].columns)
    <3>1. task' = [task EXCEPT ![r] = t]
      BY <1>t, <1>1, <2>1 DEF ReadSequence, Moved, TaskRecord
    <3>2. t \in TaskRecord /\ Keeps(t, task[r]) /\ t.at = "create" /\ t.seen = sequence
      BY <1>t, <1>f, MovedType
    <3> HIDE DEF t
    <3>3. Numbering(r, t)
      BY <1>1, <2>1, <3>2 DEF ReadSequence, LockSequence, Numbering, At
    <3> QED
      BY <1>u, <3>1, <3>2, <3>3
  <2>2. CASE sequence = 0
    <3> DEFINE t == Moved(task[r], "newSequence", 1, task[r].columns)
    <3>1. task' = [task EXCEPT ![r] = t]
      BY <1>t, <1>1, <2>2 DEF ReadSequence, Moved, TaskRecord
    <3>2. t \in TaskRecord /\ Keeps(t, task[r]) /\ t.at = "newSequence"
      BY <1>t, <1>f, MovedType
    <3> HIDE DEF t
    <3>3. Numbering(r, t)
      BY <1>1, <2>2, <3>2 DEF ReadSequence, Numbering, At
    <3> QED
      BY <1>u, <3>1, <3>2, <3>3
  <2> QED
    BY <2>1, <2>2
<1>2. CASE SelectSequence(r)
  <2> DEFINE a == IF sequence = 0 THEN "insertSequence"
                  ELSE IF sequence = task[r].seen + 1 THEN "create" ELSE "setSequence"
             t == Moved(task[r], a, task[r].seen, task[r].columns)
  <2>0. /\ a \in {"create", "insertSequence", "setSequence"}
        /\ a # "insertSequence" => sequence # 0
    OBVIOUS
  <2>1. task' = [task EXCEPT ![r].at = a]
    BY <1>2 DEF SelectSequence, Goto
  <2> HIDE DEF a
  <2>2. task' = [task EXCEPT ![r] = t]
    BY <1>t, <2>1 DEF Moved, TaskRecord
  <2>3. t \in TaskRecord /\ Keeps(t, task[r]) /\ t.at = a
    BY <1>t, <1>f, MovedType, <2>0
  <2> HIDE DEF t
  <2>4. Numbering(r, t)
    BY <1>2, <2>0, <2>3 DEF SelectSequence, Numbering, At
  <2> QED
    BY <1>u, <2>2, <2>3, <2>4
<1>3. CASE WriteSequence(r)
  <2>1. CASE ~End(r)
    <3> DEFINE t == Moved(task[r], "create", task[r].seen, task[r].columns)
    <3>1. owner = None /\ owner' = r /\ task' = [task EXCEPT ![r].at = "create"]
          /\ task[r].at \in {"insertSequence", "setSequence"}
      BY <1>3, <2>1 DEF WriteSequence, Goto, At
    <3>2. task' = [task EXCEPT ![r] = t]
      BY <1>t, <3>1 DEF Moved, TaskRecord
    <3>3. t \in TaskRecord /\ Keeps(t, task[r]) /\ t.at = "create"
      BY <1>t, <1>f, MovedType
    <3> HIDE DEF t
    <3>4. Numbering(r, t)
      BY <3>1, <3>3 DEF Numbering
    <3> QED
      BY <1>u, <3>2, <3>3, <3>4
  <2> QED
    BY <1>u, <2>1
<1>4. CASE Select(r)
  <2>1. CASE ~End(r)
    <3>1. PICK d \in task[r].ids :
            /\ UNCHANGED owner
            /\ task' = [task EXCEPT ![r].at = IF Present(d) THEN "write" ELSE "insert",
                   ![r].columns = IF Present(d) THEN Differing(task[r].entity, row[d]) ELSE {}]
      BY <1>4, <2>1 DEF Select
    <3> DEFINE a == IF Present(d) THEN "write" ELSE "insert"
               C == IF Present(d) THEN Differing(task[r].entity, row[d]) ELSE {}
               t == Moved(task[r], a, task[r].seen, C)
    <3>2. C \in SUBSET {"status", "step", "number"}
      <4>1. d \in Disbursements
        BY <1>t DEF TaskRecord
      <4>2. Present(d) => row[d] \in Rows
        BY <4>1 DEF IInv, TypeOK, Present
      <4> QED
        BY <4>2, DifferingType
    <3>3. a \in {"write", "insert"}
      OBVIOUS
    <3>4. task' = [task EXCEPT ![r] = t]
      BY <1>t, <3>1 DEF Moved, TaskRecord
    <3>5. t \in TaskRecord /\ Keeps(t, task[r]) /\ t.at = a /\ t.columns = C
      BY <1>t, <1>f, MovedType, <3>2, <3>3
    <3> HIDE DEF t
    <3>6. Selecting(r, t)
      BY <1>4, <3>1, <3>5 DEF Select, Selecting, At
    <3> QED
      BY <1>u, <3>4, <3>5, <3>6
  <2> QED
    BY <1>u, <2>1
<1> QED
  BY <1>1, <1>2, <1>3, <1>4

----------------------------------------------------------------------------
(* Numbers.  A disbursement has one number, in its row and in every copy   *)
(* that may be saved, below the next one; whoever is about to insert holds *)
(* the lock, so that nobody else has seen the number it took.              *)

\* Nobody but its creator knows a disbursement that is being created.
Exclusive ==
    \A r \in Request : \A d \in task[r].ids :
        task[r].at \in Sequencing =>
            ~Present(d) /\ \A q \in Request \ {r} : d \notin task[q].ids

\* n is the number of d, in the table or in a copy.
Has(d, n) ==
    \/ Present(d) /\ row[d].number = n
    \/ \E r \in Request : task[r].at \in Holding /\ d \in task[r].ids /\ task[r].entity.number = n

OwnNumber ==
    /\ \A d \in Disbursements, n \in Nat : Has(d, n) => n < sequence
    /\ \A d, e \in Disbursements, n, m \in Nat : Has(d, n) /\ Has(e, m) => (d = e <=> n = m)

LockedSequence ==
    /\ sequence = 0 => ~Overlapping
    /\ \A r \in Request :
          /\ task[r].at \in {"newSequence", "insertSequence"} => sequence = 0
          /\ task[r].at # "setSequence"
          /\ task[r].at = "create" => owner = r /\ task[r].seen >= sequence

NumberInv == Exclusive /\ (~unlocked => LockedSequence /\ OwnNumber)

\* Everything but the task of one request is as it was.
LEMMA Others ==
    ASSUME IInv, NEW r \in Request, NEW t, task' = [task EXCEPT ![r] = t]
    PROVE  task'[r] = t /\ \A q \in Request \ {r} : task'[q] = task[q]
BY DEF IInv, TypeOK

\* A step that keeps the numbers of the copy and the rows, or makes the row of
\* the copy it holds.
KeepsNumbers(r, t) ==
    /\ t.ids \subseteq task[r].ids
    /\ t.at \in Sequencing => task[r].at \in Sequencing
    /\ t.at \in Holding => task[r].at \in Holding /\ t.entity = task[r].entity
    /\ \A d \in Disbursements : row'[d] # None =>
          \/ Present(d) /\ row'[d].number = row[d].number
          \/ /\ task[r].at \in Holding /\ d \in task[r].ids
             /\ row'[d].number = task[r].entity.number

LEMMA KeepStep ==
    ASSUME IInv, Exclusive, NEW r \in Request, NEW t \in TaskRecord,
           task' = [task EXCEPT ![r] = t], sequence' = sequence, KeepsNumbers(r, t)
    PROVE  Exclusive' /\ (OwnNumber => OwnNumber')
<1>1. task'[r] = t /\ \A q \in Request \ {r} : task'[q] = task[q]
  BY Others
<1>2. ASSUME NEW q \in Request, NEW d \in task'[q].ids, task'[q].at \in Sequencing
      PROVE  row'[d] = None /\ \A p \in Request \ {q} : d \notin task'[p].ids
  <2>1. task[q].at \in Sequencing /\ d \in task[q].ids
    BY <1>1, <1>2 DEF KeepsNumbers
  <2>2. ~Present(d) /\ \A p \in Request \ {q} : d \notin task[p].ids
    BY <2>1 DEF Exclusive
  <2>3. d \in Disbursements
    BY <2>1, TaskFields DEF IInv, TypeOK
  <2>4. ~(task[r].at \in Holding /\ d \in task[r].ids)
    BY <2>1, <2>2 DEF Sequencing, Holding
  <2> QED
    BY <1>1, <2>2, <2>3, <2>4 DEF KeepsNumbers
<1>3. ASSUME NEW d \in Disbursements, NEW n \in Nat, Has(d, n)'
      PROVE  Has(d, n)
  <2>1. CASE row'[d] # None /\ row'[d].number = n
    BY <2>1 DEF Has, KeepsNumbers
  <2>2. CASE \E q \in Request : /\ task'[q].at \in Holding /\ d \in task'[q].ids
                                /\ task'[q].entity.number = n
    BY <1>1, <2>2 DEF Has, KeepsNumbers
  <2> QED
    BY <1>3, <2>1, <2>2 DEF Has, Present
<1> QED
  BY <1>2, <1>3 DEF Exclusive, Present, OwnNumber

\* A request begins.
LEMMA BeginNumbers ==
    ASSUME IInv, Exclusive, NEW r \in Request, Arrival(r)
    PROVE  Exclusive' /\ (OwnNumber => OwnNumber')
<1>1. PICK t \in TaskRecord, d \in Disbursements :
        /\ Begin(r, t) /\ t.ids = {d}
        /\ Creating(t, d) \/ Changing(t, d) \/ Deleting(t, d)
  BY ArrivalShape
<1>2. /\ task' = [task EXCEPT ![r] = t] /\ UNCHANGED <<row, sequence>>
      /\ task[r].at = "idle"
  BY <1>1 DEF Begin, At
<1>3. task'[r] = t /\ \A q \in Request \ {r} : task'[q] = task[q]
  BY <1>2, Others
<1>4. t.at \notin Sequencing => Present(d)
  BY <1>1 DEF Creating, Changing, Deleting, Sequencing
<1>5. t.at \in Sequencing => ~Present(d) /\ \A q \in Request : d \notin task[q].ids
  BY <1>1 DEF Creating, Changing, Deleting, Sequencing
<1>6. Exclusive'
  <2>1. ASSUME NEW q \in Request, NEW e \in task'[q].ids, task'[q].at \in Sequencing
        PROVE  row'[e] = None /\ \A p \in Request \ {q} : e \notin task'[p].ids
    <3>1. CASE q = r
      <4>1. e = d /\ ~Present(d) /\ \A p \in Request : d \notin task[p].ids
        BY <1>1, <1>3, <1>5, <2>1, <3>1
      <4> QED
        BY <1>2, <1>3, <3>1, <4>1 DEF Present
    <3>2. CASE q # r
      <4>1. ~Present(e) /\ \A p \in Request \ {q} : e \notin task[p].ids
        BY <1>3, <2>1, <3>2 DEF Exclusive
      <4>2. e # d
        BY <1>3, <1>4, <1>5, <2>1, <3>2, <4>1
      <4> QED
        BY <1>1, <1>2, <1>3, <4>1, <4>2 DEF Present
    <3> QED
      BY <3>1, <3>2
  <2> QED
    BY <2>1 DEF Exclusive, Present
<1>7. ASSUME NEW e \in Disbursements, NEW n \in Nat, Has(e, n)'
      PROVE  Has(e, n)
  <2>1. CASE row'[e] # None /\ row'[e].number = n
    BY <1>2, <2>1 DEF Has, Present
  <2>2. CASE \E q \in Request : /\ task'[q].at \in Holding /\ e \in task'[q].ids
                                /\ task'[q].entity.number = n
    <3>1. PICK q \in Request : /\ task'[q].at \in Holding /\ e \in task'[q].ids
                               /\ task'[q].entity.number = n
      BY <2>2
    <3>2. CASE q = r
      <4>1. e = d /\ t.at \in Holding /\ t.entity.number = n
        BY <1>1, <1>3, <3>1, <3>2
      <4>2. Changing(t, d)
        BY <1>1, <4>1 DEF Creating, Deleting, Holding
      <4> QED
        BY <4>1, <4>2 DEF Changing, Has
    <3>3. CASE q # r
      BY <1>3, <3>1, <3>3 DEF Has
    <3> QED
      BY <3>2, <3>3
  <2> QED
    BY <1>7, <2>1, <2>2 DEF Has, Present
<1> QED
  BY <1>2, <1>6, <1>7 DEF OwnNumber

\* The sequence row of a request that goes on.
LEMMA LockStep ==
    ASSUME IInv, LockedSequence, NEW r \in Request, NEW t \in TaskRecord,
           task' = [task EXCEPT ![r] = t], sequence' = sequence,
           ~(Overlapping' /\ sequence' = 0),
           \A q \in Request \ {r} : owner = q => owner' = q,
           t.at \in {"newSequence", "insertSequence"} => sequence = 0,
           t.at # "setSequence",
           t.at = "create" => owner' = r /\ t.seen >= sequence
    PROVE  LockedSequence'
<1>1. task'[r] = t /\ \A q \in Request \ {r} : task'[q] = task[q]
  BY Others
<1>2. ASSUME NEW q \in Request
      PROVE  /\ task'[q].at \in {"newSequence", "insertSequence"} => sequence' = 0
             /\ task'[q].at # "setSequence"
             /\ task'[q].at = "create" => owner' = q /\ task'[q].seen >= sequence'
  <2>1. CASE q = r
    BY <1>1, <2>1
  <2>2. CASE q # r
    BY <1>1, <2>2 DEF LockedSequence
  <2> QED
    BY <2>1, <2>2
<1> QED
  BY <1>2 DEF LockedSequence

\* A request that is over has nothing of this any more.
LEMMA EndNumbers ==
    ASSUME NEW r \in Request,
           \A d \in Disbursements : row'[d] # None =>
              \/ Present(d) /\ row'[d].number = row[d].number
              \/ /\ task[r].at \in Holding /\ d \in task[r].ids
                 /\ row'[d].number = task[r].entity.number
    PROVE  KeepsNumbers(r, Idle)
BY DEF KeepsNumbers, Idle, Sequencing, Holding

LEMMA EndLock ==
    ASSUME IInv, LockedSequence, NEW r \in Request, End(r), sequence' = sequence,
           ~(Overlapping' /\ sequence' = 0)
    PROVE  LockedSequence'
<1>1. Idle \in TaskRecord /\ Idle.at = "idle" /\ task' = [task EXCEPT ![r] = Idle]
  BY IdleType DEF Idle, End
<1>2. \A q \in Request \ {r} : owner = q => owner' = q
  BY DEF End
<1> QED
  BY <1>1, <1>2, LockStep

\* The new disbursement takes the next number, which nobody has.
LEMMA InsertNumbers ==
    ASSUME IInv, Exclusive, NEW r \in Request, Insert(r)
    PROVE  /\ Exclusive'
           /\ LockedSequence /\ OwnNumber /\ ~(Overlapping' /\ sequence' = 0)
                 => LockedSequence' /\ OwnNumber'
<1>1. PICK d \in task[r].ids :
        row' = [row EXCEPT ![d] = [task[r].entity EXCEPT !.number = task[r].seen]]
  BY DEF Insert
<1>2. /\ task[r] \in TaskRecord /\ Sound(task[r], passed) /\ task[r].at = "create" /\ End(r)
      /\ sequence' = IF owner = r THEN task[r].seen + 1 ELSE sequence
  BY DEF Insert, At, IInv, TasksOK, TypeOK
<1>3. /\ d \in Disbursements /\ task[r].seen \in Nat /\ task[r].entity \in Rows
      /\ sequence \in Nat
  BY <1>1, <1>2, TaskFields DEF Sound, IInv, TypeOK
<1>4. /\ row'[d].number = task[r].seen
      /\ \A x \in Disbursements \ {d} : row'[x] = row[x]
  <2>1. [task[r].entity EXCEPT !.number = task[r].seen].number = task[r].seen
    BY <1>3 DEF Rows
  <2> QED
    BY <1>1, <1>3, <2>1 DEF IInv, TypeOK
<1>5. task'[r] = Idle /\ \A q \in Request \ {r} : task'[q] = task[q]
  BY <1>2, Others DEF End
<1>i. Idle.at = "idle" /\ Idle.ids = {}
  BY DEF Idle
<1>6. ~Present(d) /\ \A q \in Request \ {r} : d \notin task[q].ids
  BY <1>1, <1>2 DEF Exclusive, Sequencing
<1>7. Exclusive'
  <2>1. ASSUME NEW q \in Request, NEW e \in task'[q].ids, task'[q].at \in Sequencing
        PROVE  row'[e] = None /\ \A p \in Request \ {q} : e \notin task'[p].ids
    <3>1. q # r /\ task'[q] = task[q]
      BY <1>5, <1>i, <2>1
    <3>2. ~Present(e) /\ \A p \in Request \ {q} : e \notin task[p].ids
      BY <2>1, <3>1 DEF Exclusive
    <3>3. e # d /\ e \in Disbursements
      BY <1>6, <2>1, <3>1, TaskFields DEF IInv, TypeOK
    <3> QED
      BY <1>4, <1>5, <1>i, <3>1, <3>2, <3>3 DEF Present
  <2> QED
    BY <2>1 DEF Exclusive, Present
<1>8. ASSUME LockedSequence, OwnNumber, ~(Overlapping' /\ sequence' = 0)
      PROVE  LockedSequence' /\ OwnNumber'
  <2>1. owner = r /\ task[r].seen >= sequence /\ sequence' = task[r].seen + 1
    BY <1>2, <1>8 DEF LockedSequence
  <2>2. ASSUME NEW q \in Request
        PROVE  /\ task'[q].at \notin {"newSequence", "insertSequence", "setSequence"}
               /\ task'[q].at # "create"
    <3>1. CASE q = r
      BY <1>5, <1>i, <3>1
    <3>2. CASE q # r
      <4>1. task'[q] = task[q]
        BY <1>5, <3>2
      <4>2. sequence = 0 => task[q].at = "idle"
        BY <1>2, <1>8, <3>2 DEF LockedSequence, Overlapping, At
      <4> QED
        BY <1>8, <2>1, <3>2, <4>1, <4>2 DEF LockedSequence
    <3> QED
      BY <3>1, <3>2
  <2>3. LockedSequence'
    BY <1>8, <2>2 DEF LockedSequence
  <2>4. ASSUME NEW e \in Disbursements, NEW n \in Nat, Has(e, n)'
        PROVE  \/ e = d /\ n = task[r].seen
               \/ e # d /\ Has(e, n)
    <3>1. CASE row'[e] # None /\ row'[e].number = n
      BY <1>4, <3>1 DEF Has, Present
    <3>2. CASE \E q \in Request : /\ task'[q].at \in Holding /\ e \in task'[q].ids
                                  /\ task'[q].entity.number = n
      <4>1. PICK q \in Request : /\ task'[q].at \in Holding /\ e \in task'[q].ids
                                 /\ task'[q].entity.number = n
        BY <3>2
      <4>2. q # r
        BY <1>5, <1>i, <4>1
      <4> QED
        BY <1>5, <1>6, <4>1, <4>2 DEF Has
    <3> QED
      BY <2>4, <3>1, <3>2 DEF Has, Present
  <2>5. \A e \in Disbursements, n \in Nat : Has(e, n) => n < task[r].seen
    BY <1>3, <1>8, <2>1 DEF OwnNumber
  <2>6. \A e \in Disbursements, n \in Nat : Has(e, n)' => n < sequence'
    BY <1>3, <2>1, <2>4, <2>5
  <2>7. ASSUME NEW e \in Disbursements, NEW f \in Disbursements, NEW n \in Nat, NEW m \in Nat,
               Has(e, n)', Has(f, m)'
        PROVE  e = f <=> n = m
    <3>1. CASE e = d /\ f = d
      BY <2>4, <2>7, <3>1
    <3>2. CASE e = d /\ f # d
      <4>1. n = task[r].seen /\ Has(f, m)
        BY <2>4, <2>7, <3>2
      <4> QED
        BY <1>3, <2>5, <3>2, <4>1
    <3>3. CASE e # d /\ f = d
      <4>1. m = task[r].seen /\ Has(e, n)
        BY <2>4, <2>7, <3>3
      <4> QED
        BY <1>3, <2>5, <3>3, <4>1
    <3>4. CASE e # d /\ f # d
      BY <1>8, <2>4, <2>7, <3>4 DEF OwnNumber
    <3> QED
      BY <3>1, <3>2, <3>3, <3>4
  <2> QED
    BY <2>3, <2>6, <2>7 DEF OwnNumber
<1> QED
  BY <1>7, <1>8

\* UPDATE and INSERT of a copy: the row has its number.
LEMMA SaveNumbers ==
    ASSUME IInv, NEW r \in Request, Write(r) \/ InsertAgain(r)
    PROVE  End(r) /\ sequence' = sequence /\ KeepsNumbers(r, Idle)
<1>1. /\ task[r] \in TaskRecord /\ Sound(task[r], passed) /\ task[r].at \in {"write", "insert"}
      /\ End(r) /\ sequence' = sequence
  BY DEF Write, InsertAgain, At, IInv, TasksOK, TypeOK
<1>2. task[r].entity \in Rows /\ \A d \in task[r].ids : d \in Disbursements
  BY <1>1, TaskFields DEF Sound
<1>3. PICK d \in task[r].ids :
        \/ row' = row
        \/ \E e \in Rows : /\ row' = [row EXCEPT ![d] = e]
                           /\ \/ Present(d) /\ e.number = row[d].number
                              \/ e.number = task[r].entity.number
  <2>1. CASE Write(r)
    <3>1. PICK d \in task[r].ids :
            IF Present(d) THEN Saved(r, d, Updated(row[d], task[r].entity, task[r].columns))
            ELSE UNCHANGED <<row, details, passed, agreed>>
      BY <2>1 DEF Write
    <3>2. CASE Present(d)
      <4> DEFINE e == Updated(row[d], task[r].entity, task[r].columns)
      <4>1. row[d] \in Rows
        BY <1>2, <3>2 DEF IInv, TypeOK, Present
      <4>2. e \in Rows
        BY <1>2, <4>1, UpdatedType
      <4>3. e.number = row[d].number \/ e.number = task[r].entity.number
        BY <4>1 DEF Updated, Rows
      <4>4. row' = [row EXCEPT ![d] = e]
        BY <3>1, <3>2 DEF Saved
      <4> QED
        BY <3>2, <4>2, <4>3, <4>4
    <3> QED
      BY <3>1, <3>2
  <2>2. CASE InsertAgain(r)
    <3>1. PICK d \in task[r].ids :
            IF Present(d) THEN UNCHANGED <<row, details, passed, agreed>>
            ELSE Saved(r, d, task[r].entity)
      BY <2>2 DEF InsertAgain
    <3> QED
      BY <1>2, <3>1 DEF Saved
  <2> QED
    BY <2>1, <2>2
<1>4. ASSUME NEW x \in Disbursements, row'[x] # None
      PROVE  \/ Present(x) /\ row'[x].number = row[x].number
             \/ /\ task[r].at \in Holding /\ x \in task[r].ids
                /\ row'[x].number = task[r].entity.number
  <2>1. CASE row' = row
    BY <1>4, <2>1 DEF Present
  <2>2. CASE row' # row
    <3>1. PICK e \in Rows : /\ row' = [row EXCEPT ![d] = e]
                            /\ \/ Present(d) /\ e.number = row[d].number
                               \/ e.number = task[r].entity.number
      BY <1>3, <2>2
    <3>2. row \in [Disbursements -> Rows \cup {None}]
      BY DEF IInv, TypeOK
    <3>3. CASE x = d
      BY <1>1, <3>1, <3>2, <3>3 DEF Holding
    <3>4. CASE x # d
      BY <1>4, <3>1, <3>2, <3>4 DEF Present
    <3> QED
      BY <3>3, <3>4
  <2> QED
    BY <2>1, <2>2
<1> QED
  BY <1>1, <1>4, EndNumbers

LEMMA NumberStep ==
    ASSUME IInv, NumberInv, NEW r \in Request, Arrival(r) \/ Progress(r) \/ Fail(r),
           unlocked' \/ (~unlocked /\ ~(Overlapping' /\ sequence' = 0))
    PROVE  NumberInv'
<1>n. Exclusive /\ (~unlocked => LockedSequence /\ OwnNumber)
  BY DEF NumberInv
<1>i. Idle \in TaskRecord
  BY IdleType
\* A request that is over leaves the rows, or that of its copy.
<1>e. ASSUME End(r), sequence' = sequence, KeepsNumbers(r, Idle)
      PROVE  NumberInv'
  <2>1. Exclusive' /\ (OwnNumber => OwnNumber')
    BY <1>e, <1>i, <1>n, KeepStep DEF End
  <2>2. ~unlocked' => LockedSequence'
    BY <1>e, <1>n, EndLock
  <2> QED
    BY <1>n, <2>1, <2>2 DEF NumberInv
<1>1. CASE Arrival(r)
  <2>1. Exclusive' /\ (OwnNumber => OwnNumber')
    BY <1>1, <1>n, BeginNumbers
  <2>2. PICK t \in TaskRecord, d \in Disbursements :
          Begin(r, t) /\ (Creating(t, d) \/ Changing(t, d) \/ Deleting(t, d))
    BY <1>1, ArrivalShape
  <2>3. t.at \in {"sequence", "select", "delete"}
    BY <2>2 DEF Creating, Changing, Deleting
  <2>4. ~unlocked' => LockedSequence'
    BY <1>n, <2>2, <2>3, LockStep DEF Begin
  <2> QED
    BY <1>n, <2>1, <2>4 DEF NumberInv
<1>2. CASE ReadSequence(r) \/ SelectSequence(r) \/ WriteSequence(r) \/ Select(r)
  <2>1. /\ UNCHANGED <<row, details, sequence, requests, passed, agreed>>
        /\ \/ End(r)
           \/ \E t \in TaskRecord :
                 /\ task' = [task EXCEPT ![r] = t] /\ Keeps(t, task[r])
                 /\ Numbering(r, t) \/ Selecting(r, t)
    BY <1>2, MoveShape
  <2>2. CASE End(r)
    <3>1. KeepsNumbers(r, Idle)
      BY <2>1, EndNumbers DEF Present
    <3> QED
      BY <1>e, <2>1, <2>2, <3>1
  <2>3. CASE ~End(r)
    <3>1. PICK t \in TaskRecord :
            /\ task' = [task EXCEPT ![r] = t] /\ Keeps(t, task[r])
            /\ Numbering(r, t) \/ Selecting(r, t)
      BY <2>1, <2>3
    <3>2. KeepsNumbers(r, t)
      BY <2>1, <3>1 DEF KeepsNumbers, Keeps, Numbering, Selecting, Sequencing, Holding, Present
    <3>3. Exclusive' /\ (OwnNumber => OwnNumber')
      BY <1>n, <2>1, <3>1, <3>2, KeepStep
    <3>4. ASSUME ~unlocked' PROVE LockedSequence'
      <4>1. LockedSequence /\ ~(Overlapping' /\ sequence' = 0) /\ sequence' = sequence
        BY <1>n, <2>1, <3>4
      <4>2. /\ \A q \in Request \ {r} : owner = q => owner' = q
            /\ t.at \in {"newSequence", "insertSequence"} => sequence = 0
            /\ t.at # "setSequence"
            /\ t.at = "create" => owner' = r
        BY <3>1, <4>1, DisbursementAssumption DEF LockedSequence, Numbering, Selecting
      <4>3. t.at = "create" => t.seen >= sequence
        <5>1. sequence \in Nat /\ t.seen \in Nat
          BY TaskFields DEF IInv, TypeOK
        <5>2. CASE task[r].at = "sequence" /\ t.at = "create"
          BY <3>1, <5>1, <5>2 DEF Numbering, Selecting
        <5>3. CASE task[r].at \in {"newSequence", "insertSequence"} /\ t.at = "create"
          BY <4>1, <5>1, <5>3 DEF LockedSequence
        <5> QED
          BY <3>1, <4>1, <5>2, <5>3 DEF LockedSequence, Numbering, Selecting
      <4> QED
        BY <3>1, <4>1, <4>2, <4>3, LockStep
    <3> QED
      BY <1>n, <3>3, <3>4 DEF NumberInv
  <2> QED
    BY <2>2, <2>3
<1>3. CASE Insert(r)
  BY <1>3, <1>n, InsertNumbers DEF NumberInv
<1>4. CASE Write(r) \/ InsertAgain(r)
  BY <1>4, <1>e, SaveNumbers
<1>5. CASE Remove(r)
  <2>1. End(r) /\ sequence' = sequence
        /\ \A d \in Disbursements : row'[d] # None => row'[d] = row[d]
    BY <1>5 DEF Remove
  <2>2. KeepsNumbers(r, Idle)
    BY <2>1, EndNumbers DEF Present
  <2> QED
    BY <1>e, <2>1, <2>2
<1>6. CASE Fail(r)
  <2>1. End(r) /\ UNCHANGED <<row, sequence>>
    BY <1>6 DEF Fail
  <2>2. KeepsNumbers(r, Idle)
    BY <2>1, EndNumbers DEF Present
  <2> QED
    BY <1>e, <2>1, <2>2
<1> QED
  BY <1>1, <1>2, <1>3, <1>4, <1>5, <1>6 DEF Progress

LEMMA InitNumbers == MCInit => NumberInv
<1> SUFFICES ASSUME MCInit PROVE NumberInv
  OBVIOUS
<1>1. /\ \A r \in Request : task[r] = Idle /\ Idle.at = "idle" /\ Idle.ids = {}
      /\ \A d \in Disbursements : ~Present(d)
  BY DEF MCInit, Init, Idle, Present
<1>2. Exclusive /\ LockedSequence
  BY <1>1 DEF Exclusive, LockedSequence, Overlapping, At
<1>3. \A d \in Disbursements, n \in Nat : ~Has(d, n)
  BY <1>1 DEF Has
<1> QED
  BY <1>2, <1>3 DEF NumberInv, OwnNumber

mcVars == <<vars, overlapped, unlocked>>

LEMMA NumberNext == IInv /\ NumberInv /\ [MCNext]_mcVars => NumberInv'
<1> SUFFICES ASSUME IInv, NumberInv, [MCNext]_mcVars PROVE NumberInv'
  OBVIOUS
<1>1. ASSUME UNCHANGED vars, ~unlocked' => ~unlocked
      PROVE  NumberInv'
  BY <1>1 DEF vars, NumberInv, Exclusive, LockedSequence, OwnNumber, Has, Overlapping, At, Present
<1>2. CASE UNCHANGED mcVars
  BY <1>1, <1>2 DEF mcVars
<1>3. CASE MCNext
  <2>1. Next /\ unlocked' = (unlocked \/ (Overlapping' /\ sequence' = 0))
    BY <1>3 DEF MCNext
  <2>2. unlocked' \/ (~unlocked /\ ~(Overlapping' /\ sequence' = 0))
    BY <2>1, Zenon
  <2>3. ASSUME NEW r \in Request, Arrival(r) \/ Progress(r) \/ Fail(r)
        PROVE  NumberInv'
    BY <2>2, <2>3, NumberStep
  <2> QED
    BY <1>1, <2>1, <2>2, <2>3 DEF Next, Quiescent
<1> QED
  BY <1>2, <1>3

\* createDisbursement: once the programme has its sequence row, or as long as
\* nothing overlaps before it has one, every disbursement has a number of its
\* own, whatever else runs, fails or is deleted.
THEOREM NumbersAreUnique == MCSpec => []NumbersWithRow
<1>1. MCInit => IInv /\ NumberInv
  BY InitIInv, InitNumbers DEF MCInit
<1>2. IInv /\ NumberInv /\ [MCNext]_mcVars => (IInv /\ NumberInv)'
  <2>1. IInv /\ [MCNext]_mcVars => IInv'
    BY NextIInv DEF MCNext, mcVars
  <2> QED
    BY <2>1, NumberNext
<1>3. IInv /\ NumberInv => NumbersWithRow
  <2> SUFFICES ASSUME IInv, NumberInv, ~unlocked,
                      NEW d \in Disbursements, NEW e \in Disbursements,
                      d # e, Present(d), Present(e)
               PROVE  row[d].number # row[e].number
    BY DEF NumbersWithRow, UniqueNumber
  <2>1. row[d].number \in Nat /\ row[e].number \in Nat
    BY RowFields DEF IInv, TypeOK, Present
  <2>2. Has(d, row[d].number) /\ Has(e, row[e].number) /\ OwnNumber
    BY DEF Has, NumberInv
  <2> QED
    BY <2>1, <2>2 DEF OwnNumber
<1> QED
  BY <1>1, <1>2, <1>3, PTL DEF MCSpec, mcVars

----------------------------------------------------------------------------
(* One request at a time.  What a handler saves is then the row it read    *)
(* with the change of its operation, and the UPDATE writes all of it.      *)

\* What is settled is what was agreed.
Fits(x, lines, total) ==
    \A d \in Disbursements :
        (x[d] # None /\ x[d].status \in Settled) => lines[d].total = total[d]

\* The table is as the request found it.
Follows(t, x) ==
    /\ t.at # "insert"
    /\ t.at # "idle" => \E d \in Disbursements : t.ids = {d}
    /\ t.at \in Sequencing =>
          /\ \A d \in t.ids : x[d] = None
          /\ t.op = "create" /\ t.asked = t.entity.status
    /\ t.at \in Holding => \A d \in t.ids :
          /\ x[d] # None /\ Legal(t, x[d])
          /\ t.at = "write" => t.columns = Differing(t.entity, x[d])
    /\ t.at = "delete" => \A d \in t.ids : x[d] # None => x[d].status \in Editable

TurnInv ==
    ~overlapped => /\ ~Overlapping /\ Fits(row, details, agreed)
                   /\ \A r \in Request : Follows(task[r], row)

\* It is enough to look at the request that acts.
LEMMA AloneStep ==
    ASSUME IInv, TurnInv, ~overlapped, ~Overlapping',
           NEW r \in Request, NEW t, task' = [task EXCEPT ![r] = t],
           task[r].at # "idle" \/ t.at # "idle",
           Follows(t, row'), Fits(row', details', agreed')
    PROVE  TurnInv'
<1>1. task'[r] = t /\ \A q \in Request \ {r} : task'[q] = task[q]
  BY Others
<1>2. ASSUME NEW q \in Request \ {r} PROVE task'[q].at = "idle"
  <2>1. CASE task[r].at # "idle"
    BY <1>1, <2>1 DEF TurnInv, Overlapping, At
  <2>2. CASE t.at # "idle"
    BY <1>1, <2>2 DEF Overlapping, At
  <2> QED
    BY <2>1, <2>2
<1>3. \A q \in Request : Follows(task'[q], row')
  BY <1>1, <1>2 DEF Follows, Sequencing, Holding
<1> QED
  BY <1>3 DEF TurnInv

LEMMA IdleFollows == \A x : Follows(Idle, x)
BY DEF Follows, Idle, Sequencing, Holding

\* A request is over and leaves the table in order.
LEMMA EndTurn ==
    ASSUME IInv, TurnInv, ~overlapped, ~Overlapping', NEW r \in Request, End(r),
           task[r].at # "idle", Fits(row', details', agreed')
    PROVE  TurnInv'
BY AloneStep, IdleFollows DEF End

\* If nobody wrote between the second read and the UPDATE, the row becomes the
\* copy.
LEMMA UpdatedDiffering ==
    ASSUME NEW x \in Rows, NEW e \in Rows
    PROVE  Updated(x, e, Differing(e, x)) = e
<1> DEFINE C == {"status", "step", "number"}
<1>1. DOMAIN x = C /\ e = [c \in C |-> e[c]]
  BY DEF Rows
<1>2. \A c \in C : (IF c \in Differing(e, x) THEN e[c] ELSE x[c]) = e[c]
  BY <1>1 DEF Differing
<1>3. Updated(x, e, Differing(e, x)) = [c \in C |-> IF c \in Differing(e, x) THEN e[c] ELSE x[c]]
  BY <1>1 DEF Updated
<1> QED
  BY <1>1, <1>2, <1>3

\* The UPDATE of a copy writes exactly its one row.
LEMMA WriteShape ==
    ASSUME IInv, TurnInv, ~overlapped, NEW r \in Request, Write(r) \/ InsertAgain(r)
    PROVE  /\ End(r) /\ task[r].at = "write"
           /\ \E d \in Disbursements :
                 /\ Present(d) /\ row[d] \in Rows /\ task[r].entity \in Rows
                 /\ Legal(task[r], row[d])
                 /\ Saved(r, d, task[r].entity)
<1>1. /\ task[r] \in TaskRecord /\ Sound(task[r], passed) /\ Follows(task[r], row)
      /\ row \in [Disbursements -> Rows \cup {None}]
  BY DEF IInv, TasksOK, TypeOK, TurnInv
<1>2. Write(r) /\ End(r) /\ task[r].at = "write" /\ task[r].entity \in Rows
  BY <1>1 DEF Write, InsertAgain, At, Follows, Sound
<1>3. PICK d \in Disbursements :
        /\ task[r].ids = {d} /\ Present(d) /\ Legal(task[r], row[d])
        /\ task[r].columns = Differing(task[r].entity, row[d])
  BY <1>1, <1>2 DEF Follows, Holding, Present
<1>4. row[d] \in Rows /\ Updated(row[d], task[r].entity, task[r].columns) = task[r].entity
  BY <1>1, <1>2, <1>3, UpdatedDiffering DEF Present
<1>5. Saved(r, d, task[r].entity)
  BY <1>2, <1>3, <1>4 DEF Write
<1> QED
  BY <1>2, <1>3, <1>4, <1>5

\* A form that claims that a disbursement is settled skips its approval.
LEMMA SettledPasses ==
    ASSUME NEW t, t.op \in {"create", "edit"}, t.asked \in Settled
    PROVE  2 \in Passes(t)
<1>1. t.asked \in Status /\ StepOf[t.asked] \in 3..5
  BY StepValues DEF Settled, Status
<1> QED
  BY <1>1, FormPasses

\* The row is in order again: what becomes settled is agreed by this step, and
\* what was settled keeps its lines.
LEMMA WriteTurn ==
    ASSUME IInv, TurnInv, ~overlapped, NEW r \in Request, Write(r) \/ InsertAgain(r)
    PROVE  Fits(row', details', agreed')
<1>1. PICK d \in Disbursements :
        /\ Present(d) /\ row[d] \in Rows /\ task[r].entity \in Rows
        /\ Legal(task[r], row[d]) /\ Saved(r, d, task[r].entity)
  BY WriteShape
<1> DEFINE e == task[r].entity
<1>2. /\ row \in [Disbursements -> Rows \cup {None}]
      /\ details \in [Disbursements -> Lines] /\ agreed \in [Disbursements -> Amounts \cup {0}]
      /\ Fits(row, details, agreed)
  BY DEF IInv, TypeOK, TurnInv
<1>3. /\ row' = [row EXCEPT ![d] = e]
      /\ \A x \in Disbursements \ {d} : details'[x] = details[x] /\ agreed'[x] = agreed[x]
  BY <1>1, <1>2 DEF Saved, Recorded
<1>5. e.status \in Settled => details'[d].total = agreed'[d]
  <2>1. SUFFICES ASSUME e.status \in Settled
                 PROVE  details'[d].total = agreed'[d]
    OBVIOUS
  <2>2. CASE 2 \in Passes(task[r])
    BY <1>1, <1>2, <2>2 DEF Saved, Recorded
  <2>3. CASE task[r].op = "edit"
    <3>1. task[r].asked = e.status
      BY <1>1, <2>1, <2>3 DEF Legal
    <3> QED
      BY <2>1, <2>2, <2>3, <3>1, SettledPasses
  <2>4. CASE task[r].op # "edit" /\ 2 \notin Passes(task[r])
    <3>1. /\ task[r].op = "status" /\ task[r].asked # "REJECTED"
          /\ StepOf[row[d].status] \in 2..4 /\ e.step = StepOf[row[d].status] + 1
      BY <1>1, <2>1, <2>4 DEF Legal, Settled
    <3>2. Passes(task[r]) = {StepOf[row[d].status]}
      BY <3>1 DEF Passes
    <3>3. row[d].status \in Settled
      BY <1>1, <2>4, <3>1, <3>2, StepValues DEF Rows, Status, Settled
    <3>4. agreed' = agreed /\ details' = details
      BY <1>1, <2>4, <3>1 DEF Saved, Recorded
    <3> QED
      BY <1>1, <1>2, <3>3, <3>4 DEF Fits, Present
  <2> QED
    BY <2>2, <2>3, <2>4
<1> HIDE DEF e
<1>6. ASSUME NEW x \in Disbursements, row'[x] # None, row'[x].status \in Settled
      PROVE  details'[x].total = agreed'[x]
  <2>1. CASE x = d
    BY <1>2, <1>3, <1>5, <1>6, <2>1
  <2>2. CASE x # d
    BY <1>2, <1>3, <1>6, <2>2 DEF Fits
  <2> QED
    BY <2>1, <2>2
<1> QED
  BY <1>6 DEF Fits

\* A new disbursement has the status that the form sent; if that is settled,
\* its total is agreed.
LEMMA InsertShape ==
    ASSUME IInv, TurnInv, ~overlapped, NEW r \in Request, Insert(r)
    PROVE  /\ End(r) /\ task[r].at = "create"
           /\ \E d \in Disbursements, e \in Rows :
                 /\ ~Present(d) /\ row' = [row EXCEPT ![d] = e]
                 /\ e.status \in Settled => details'[d].total = agreed'[d]
                 /\ \A x \in Disbursements \ {d} :
                       details'[x] = details[x] /\ agreed'[x] = agreed[x]
<1>1. /\ task[r] \in TaskRecord /\ Sound(task[r], passed) /\ Follows(task[r], row)
      /\ details \in [Disbursements -> Lines] /\ agreed \in [Disbursements -> Amounts \cup {0}]
  BY DEF IInv, TasksOK, TypeOK, TurnInv
<1>2. End(r) /\ task[r].at = "create"
  BY DEF Insert, At
<1>3. PICK d \in task[r].ids :
        /\ row' = [row EXCEPT ![d] = [task[r].entity EXCEPT !.number = task[r].seen]]
        /\ details' = [details EXCEPT ![d] = task[r].lines]
        /\ Recorded(r, d, task[r].lines.total)
  BY DEF Insert
<1> DEFINE e == [task[r].entity EXCEPT !.number = task[r].seen]
<1>4. task[r].entity \in Rows /\ task[r].seen \in Nat /\ d \in Disbursements
  BY <1>1, <1>2, TaskFields DEF Sound
<1>5. e \in Rows /\ e.status = task[r].entity.status
  BY <1>4 DEF Rows
<1>6. row' = [row EXCEPT ![d] = e]
  BY <1>3
<1> HIDE DEF e
<1>7. ~Present(d) /\ task[r].op = "create" /\ task[r].asked = e.status
  BY <1>1, <1>2, <1>5 DEF Follows, Sequencing, Present
<1>8. \A x \in Disbursements \ {d} : details'[x] = details[x] /\ agreed'[x] = agreed[x]
  BY <1>1, <1>3, <1>4 DEF Recorded
<1>9. e.status \in Settled => details'[d].total = agreed'[d]
  <2>1. e.status \in Settled => 2 \in Passes(task[r])
    BY <1>7, SettledPasses
  <2> QED
    BY <1>1, <1>3, <1>4, <2>1 DEF Recorded
<1> QED
  BY <1>2, <1>4, <1>5, <1>6, <1>7, <1>8, <1>9

LEMMA TurnStep ==
    ASSUME IInv, TurnInv, ~overlapped, ~Overlapping',
           NEW r \in Request, Arrival(r) \/ Progress(r) \/ Fail(r)
    PROVE  TurnInv'
<1>f. /\ Fits(row, details, agreed) /\ Follows(task[r], row)
      /\ row \in [Disbursements -> Rows \cup {None}]
  BY DEF TurnInv, IInv, TypeOK
<1>1. CASE Arrival(r)
  <2>1. PICK t \in TaskRecord, d \in Disbursements :
          /\ Begin(r, t) /\ t.ids = {d}
          /\ Creating(t, d) \/ Changing(t, d) \/ Deleting(t, d)
    BY <1>1, ArrivalShape
  <2>2. /\ task' = [task EXCEPT ![r] = t] /\ UNCHANGED <<row, details, agreed>>
    BY <2>1 DEF Begin
  <2>3. Follows(t, row) /\ t.at # "idle"
    <3>1. CASE Creating(t, d)
      BY <2>1, <3>1 DEF Creating, Follows, Sequencing, Holding, Present
    <3>2. CASE Changing(t, d)
      <4>1. Legal(t, row[d]) /\ row[d] # None /\ t.at = "select"
        BY <3>2 DEF Changing, Present
      <4> QED
        BY <2>1, <4>1 DEF Follows, Sequencing, Holding
    <3>3. CASE Deleting(t, d)
      BY <2>1, <3>3 DEF Deleting, Follows, Sequencing, Holding
    <3> QED
      BY <2>1, <3>1, <3>2, <3>3
  <2> QED
    BY <1>f, <2>2, <2>3, AloneStep
<1>2. CASE ReadSequence(r) \/ SelectSequence(r) \/ WriteSequence(r) \/ Select(r)
  <2>1. /\ task[r].at # "idle"
        /\ UNCHANGED <<row, details, sequence, requests, passed, agreed>>
        /\ \/ End(r)
           \/ \E t \in TaskRecord :
                 /\ task' = [task EXCEPT ![r] = t] /\ Keeps(t, task[r])
                 /\ Numbering(r, t) \/ Selecting(r, t)
    BY <1>2, MoveShape
  <2>2. CASE End(r)
    BY <1>f, <2>1, <2>2, EndTurn
  <2>3. CASE ~End(r)
    <3>1. PICK t \in TaskRecord :
            /\ task' = [task EXCEPT ![r] = t] /\ Keeps(t, task[r])
            /\ Numbering(r, t) \/ Selecting(r, t)
      BY <2>1, <2>3
    <3>2. CASE Numbering(r, t)
      <4>1. task[r].at \in Sequencing /\ t.at \in Sequencing
        BY <3>2 DEF Numbering, Sequencing
      <4>2. Follows(t, row)
        BY <1>f, <2>1, <3>1, <4>1 DEF Follows, Keeps, Sequencing, Holding
      <4> QED
        BY <1>f, <2>1, <3>1, <4>2, AloneStep
    <3>3. CASE Selecting(r, t)
      <4>1. PICK d \in Disbursements :
              /\ task[r].ids = {d} /\ Present(d) /\ Legal(task[r], row[d])
        BY <1>f, <2>1, <3>3 DEF Follows, Selecting, Holding, Present
      <4>2. t.at = "write" /\ t.columns = Differing(task[r].entity, row[d])
        BY <3>3, <4>1 DEF Selecting
      <4>3. Legal(t, row[d])
        BY <3>1, <4>1 DEF Keeps, Legal
      <4>4. t.ids = {d} /\ t.entity = task[r].entity
        BY <3>1, <4>1 DEF Keeps
      <4>5. Follows(t, row)
        BY <4>1, <4>2, <4>3, <4>4 DEF Follows, Sequencing, Present
      <4> QED
        BY <1>f, <2>1, <3>1, <4>5, AloneStep
    <3> QED
      BY <3>1, <3>2, <3>3
  <2> QED
    BY <2>2, <2>3
<1>3. CASE Insert(r)
  <2>1. PICK d \in Disbursements, e \in Rows :
          /\ row' = [row EXCEPT ![d] = e]
          /\ e.status \in Settled => details'[d].total = agreed'[d]
          /\ \A x \in Disbursements \ {d} :
                details'[x] = details[x] /\ agreed'[x] = agreed[x]
    BY <1>3, InsertShape
  <2>2. ASSUME NEW x \in Disbursements, row'[x] # None, row'[x].status \in Settled
        PROVE  details'[x].total = agreed'[x]
    <3>1. CASE x = d
      BY <1>f, <2>1, <2>2, <3>1
    <3>2. CASE x # d
      BY <1>f, <2>1, <2>2, <3>2 DEF Fits
    <3> QED
      BY <3>1, <3>2
  <2> QED
    BY <1>3, <2>2, EndTurn, InsertShape DEF Fits
<1>4. CASE Write(r) \/ InsertAgain(r)
  BY <1>4, WriteTurn, WriteShape, EndTurn
<1>5. CASE Remove(r)
  <2>1. /\ End(r) /\ task[r].at # "idle" /\ agreed' = agreed
        /\ \A d \in Disbursements : row'[d] # None => row'[d] = row[d] /\ details'[d] = details[d]
    BY <1>5 DEF Remove, At
  <2>2. Fits(row', details', agreed')
    BY <1>f, <2>1 DEF Fits
  <2> QED
    BY <2>1, <2>2, EndTurn
<1>6. CASE Fail(r)
  BY <1>6, <1>f, EndTurn DEF Fail, At
<1> QED
  BY <1>1, <1>2, <1>3, <1>4, <1>5, <1>6 DEF Progress

LEMMA TurnNext == IInv /\ TurnInv /\ [MCNext]_mcVars => TurnInv'
<1> SUFFICES ASSUME IInv, TurnInv, [MCNext]_mcVars, ~overlapped' PROVE TurnInv'
  BY DEF TurnInv
<1>1. ASSUME UNCHANGED vars, ~overlapped
      PROVE  TurnInv'
  BY <1>1 DEF vars, TurnInv, Overlapping, At
<1>2. CASE UNCHANGED mcVars
  BY <1>1, <1>2 DEF mcVars
<1>3. CASE MCNext
  <2>1. Next /\ ~overlapped /\ ~Overlapping'
    BY <1>3 DEF MCNext
  <2>2. ASSUME NEW r \in Request, Arrival(r) \/ Progress(r) \/ Fail(r)
        PROVE  TurnInv'
    BY <2>1, <2>2, TurnStep
  <2> QED
    BY <1>1, <2>1, <2>2 DEF Next, Quiescent
<1> QED
  BY <1>2, <1>3

LEMMA InitTurn == MCInit => TurnInv
<1> SUFFICES ASSUME MCInit PROVE TurnInv
  OBVIOUS
<1>1. \A r \in Request : task[r] = Idle /\ Idle.at = "idle"
  BY DEF MCInit, Init, Idle
<1>2. \A d \in Disbursements : row[d] = None
  BY DEF MCInit, Init
<1> QED
  BY <1>1, <1>2, IdleFollows DEF TurnInv, Overlapping, At, Fits

LEMMA TurnInvariant == MCSpec => [](IInv /\ TurnInv)
<1>1. MCInit => IInv /\ TurnInv
  BY InitIInv, InitTurn DEF MCInit
<1>2. IInv /\ TurnInv /\ [MCNext]_mcVars => (IInv /\ TurnInv)'
  <2>1. IInv /\ [MCNext]_mcVars => IInv'
    BY NextIInv DEF MCNext, mcVars
  <2> QED
    BY <2>1, TurnNext
<1> QED
  BY <1>1, <1>2, PTL DEF MCSpec, mcVars

\* updateDisbursement and updateStatus, one at a time: what is approved,
\* transferred or completed is the total that was approved, or that came in
\* the form that sent such a status.
THEOREM TotalIsApproved == MCSpec => []TotalInTurn
<1>1. IInv /\ TurnInv => TotalInTurn
  BY DEF TurnInv, Fits, TotalInTurn, ApprovedTotal, Present, Settled
<1> QED
  BY <1>1, TurnInvariant, PTL

\* updateStatus, one at a time, with the four steps of the workflow as it is
\* seeded: what is completed stays so.
THEOREM CompletedStays ==
    ASSUME LastStep = 4
    PROVE  MCSpec => CompletedInTurn
<1>1. IInv /\ TurnInv /\ [MCNext]_mcVars
        => [ \A d \in Disbursements :
               (~overlapped' /\ Present(d) /\ row[d].status = "COMPLETED") =>
                   row'[d] # None /\ row'[d].status = "COMPLETED" ]_vars
  <2> SUFFICES ASSUME IInv, TurnInv, MCNext, ~overlapped',
                      NEW d \in Disbursements, Present(d), row[d].status = "COMPLETED"
               PROVE  row'[d] # None /\ row'[d].status = "COMPLETED"
    BY DEF mcVars
  <2>f. /\ ~overlapped /\ Next
        /\ row \in [Disbursements -> Rows \cup {None}] /\ StepOf["COMPLETED"] = 5
    BY StepValues DEF MCNext, IInv, TypeOK
  <2>u. row' = row => row'[d] # None /\ row'[d].status = "COMPLETED"
    BY DEF Present
  <2>1. ASSUME NEW r \in Request, Arrival(r)
        PROVE  row' = row
    BY <2>1, ArrivalShape DEF Begin
  <2>2. ASSUME NEW r \in Request,
               ReadSequence(r) \/ SelectSequence(r) \/ WriteSequence(r) \/ Select(r)
        PROVE  row' = row
    BY <2>2, MoveShape
  <2>3. ASSUME NEW r \in Request, Insert(r)
        PROVE  row'[d] = row[d]
    <3>1. PICK x \in Disbursements, e \in Rows : ~Present(x) /\ row' = [row EXCEPT ![x] = e]
      BY <2>3, <2>f, InsertShape
    <3> QED
      BY <2>f, <3>1
  <2>4. ASSUME NEW r \in Request, Write(r) \/ InsertAgain(r)
        PROVE  row'[d] = row[d]
    <3>1. PICK x \in Disbursements :
            Legal(task[r], row[x]) /\ row' = [row EXCEPT ![x] = task[r].entity]
      BY <2>4, <2>f, WriteShape DEF Saved
    <3>2. x # d
      BY <2>f, <3>1 DEF Legal, Editable, DeriveStep
    <3> QED
      BY <2>f, <3>1, <3>2
  <2>5. ASSUME NEW r \in Request, Remove(r)
        PROVE  row'[d] = row[d]
    <3>1. task[r].at = "delete" /\ Follows(task[r], row)
      BY <2>5, <2>f DEF Remove, At, TurnInv
    <3>2. d \notin task[r].ids
      BY <3>1 DEF Follows, Present, Editable
    <3> QED
      BY <2>5, <3>2 DEF Remove
  <2>6. ASSUME NEW r \in Request, Fail(r)
        PROVE  row' = row
    BY <2>6 DEF Fail
  <2>7. CASE Quiescent
    BY <2>7, <2>u DEF Quiescent, vars
  <2> QED
    BY <2>f, <2>u, <2>1, <2>2, <2>3, <2>4, <2>5, <2>6, <2>7 DEF Next, Progress, Present
<1> QED
  BY <1>1, TurnInvariant, PTL DEF MCSpec, CompletedInTurn, mcVars
=============================================================================
