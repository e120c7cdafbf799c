------------------------- MODULE Disbursement_proofs -------------------------
(***************************************************************************)
(* Theorems about Disbursement, for any number of disbursements and of     *)
(* requests in flight: what the approval keeps although every handler      *)
(* decides on a row it read without a lock.                                *)
(***************************************************************************)
EXTENDS Disbursement, TLAPS

----------------------------------------------------------------------------
(* The inductive invariant.                                                *)

\* The disbursement has passed the steps before the status that the request is
\* going to write, but for those that it passes by the request itself.
Sound(t, p) ==
    /\ t.at \notin {"idle", "delete"} => t.entity \in Rows
    /\ t.at \in {"sequence", "newSequence", "insertSequence", "setSequence", "create"}
          => t.op = "create"
    /\ t.at \notin {"idle", "delete"} =>
          /\ Passes(t) \subseteq 2..4
          /\ \A d \in t.ids : 2..(StepOf[t.entity.status] - 1) \subseteq p[d] \cup Passes(t)

TasksOK == \A r \in Request : Sound(task[r], passed)

IInv == TypeOK /\ TasksOK /\ StepsInOrder

----------------------------------------------------------------------------
(* What the operators return.                                              *)

LEMMA StepType == \A s \in Status : StepOf[s] \in 1..5
BY DEF Status, StepOf, Editable

LEMMA StepValues ==
    /\ StepOf["OTHER"] = 1 /\ StepOf["DRAFT"] = 1 /\ StepOf["REJECTED"] = 1 /\ StepOf["PENDING_APPROVAL"] = 2
    /\ StepOf["APPROVED"] = 3 /\ StepOf["DISBURSED"] = 4 /\ StepOf["COMPLETED"] = 5
BY DEF Status, StepOf, Editable

LEMMA EditableStep == \A s \in Editable : s \in Status /\ StepOf[s] = 1
BY StepValues DEF Editable, Status

\* None is no row.
LEMMA NoneIsNoRow == None \notin Rows
BY DisbursementAssumption

\* What an UPDATE leaves of a row.
LEMMA UpdatedType ==
    ASSUME NEW x \in Rows, NEW e \in Rows, NEW C
    PROVE  Updated(x, e, C) \in Rows /\ Updated(x, e, C).status \in {x.status, e.status}
<1>1. Updated(x, e, C) \in Rows
  BY DEF Updated, Rows
<1>2. Updated(x, e, C).status \in {x.status, e.status}
  BY DEF Updated, Rows
<1> QED
  BY <1>1, <1>2

LEMMA DifferingType ==
    ASSUME NEW x \in Rows, NEW e
    PROVE  Differing(e, x) \in SUBSET {"status", "step", "number"}
BY DEF Rows, Differing

LEMMA RowFields ==
    ASSUME NEW x \in Rows
    PROVE  x.status \in Status /\ x.step \in 1..5 /\ x.number \in Nat
BY DEF Rows

LEMMA TaskFields ==
    ASSUME NEW t \in TaskRecord
    PROVE  /\ t.ids \in SUBSET Disbursements /\ t.entity \in Rows \cup {None}
           /\ t.lines \in Lines /\ t.asked \in Status /\ t.seen \in Nat
BY DEF TaskRecord

LEMMA IdleType == Idle \in TaskRecord
BY DEF Idle, TaskRecord, Status, NoDetails, Lines

LEMMA IdleSound == \A p : Sound(Idle, p)
BY DEF Sound, Idle

----------------------------------------------------------------------------
(* Steps.                                                                  *)

\* One request changes what it remembers; approvals are not forgotten.
LEMMA TasksStep ==
    ASSUME TypeOK, TasksOK, NEW r \in Request, NEW t \in TaskRecord,
           task' = [task EXCEPT ![r] = t],
           \A d \in Disbursements : passed[d] \subseteq passed'[d],
           Sound(t, passed')
    PROVE  task' \in [Request -> TaskRecord] /\ TasksOK'
<1>1. ASSUME NEW q \in Request
      PROVE  task'[q] \in TaskRecord /\ Sound(task'[q], passed')
  <2>1. CASE q = r
    BY <2>1 DEF TypeOK
  <2>2. CASE q # r
    <3>1. task'[q] = task[q] /\ task[q] \in TaskRecord /\ Sound(task[q], passed)
      BY <2>2 DEF TypeOK, TasksOK
    <3>2. task[q].ids \subseteq Disbursements
      BY <3>1, TaskFields
    <3> QED
      BY <3>1, <3>2 DEF Sound
  <2> QED
    BY <2>1, <2>2
<1> QED
  BY <1>1 DEF TasksOK, TypeOK

\* A request ends; a lock it had is free.
LEMMA EndStep ==
    ASSUME IInv, NEW r \in Request, End(r),
           \A d \in Disbursements : passed[d] \subseteq passed'[d]
    PROVE  /\ task' \in [Request -> TaskRecord] /\ TasksOK'
           /\ owner' \in Request \cup {None}
<1>1. owner' \in Request \cup {None}
  BY DEF End, IInv, TypeOK
<1> QED
  BY <1>1, TasksStep, IdleType, IdleSound DEF End, IInv

\* A request begins with a record that is sound.
LEMMA BeginStep ==
    ASSUME IInv, NEW r \in Request, NEW t \in TaskRecord, Begin(r, t), Sound(t, passed)
    PROVE  IInv'
<1>1. task' \in [Request -> TaskRecord] /\ TasksOK'
  BY TasksStep DEF IInv, Begin
<1> QED
  BY <1>1 DEF IInv, Begin, TypeOK, StepsInOrder, Present

\* What a form passes: the steps before the status it sends.
LEMMA FormPasses ==
    ASSUME NEW t, t.op \in {"create", "edit"}, t.asked \in Status
    PROVE  /\ Passes(t) = 2..(StepOf[t.asked] - 1) /\ Passes(t) \subseteq 2..4
           /\ StepOf[t.asked] \in 1..5
<1>1. Passes(t) = 2..(StepOf[t.asked] - 1)
  BY DEF Passes
<1> QED
  BY <1>1, StepType

\* A record that saves d is sound if d has passed the steps before the status
\* of its entity, or passes them with it.
LEMMA SavingSound ==
    ASSUME NEW t \in TaskRecord, NEW d, NEW p,
           t.ids = {d}, t.entity \in Rows, t.at \in {"select", "sequence"},
           t.at = "sequence" => t.op = "create",
           Passes(t) \subseteq 2..4,
           2..(StepOf[t.entity.status] - 1) \subseteq p[d] \cup Passes(t)
    PROVE  Sound(t, p)
BY DEF Sound

LEMMA SavingType ==
    ASSUME NEW d \in Disbursements, NEW e \in Rows, NEW lines \in Lines,
           NEW o \in {"create", "submit", "edit", "status"}
    PROVE  LET t == Saving(o, d, e, lines)
           IN /\ t \in TaskRecord
              /\ t.op = o /\ t.at = "select" /\ t.ids = {d} /\ t.entity = e
              /\ t.asked = "DRAFT"
<1> DEFINE t == Saving(o, d, e, lines)
<1>1. t \in TaskRecord
  BY IdleType DEF Saving, TaskRecord
<1>2. t.op = o /\ t.at = "select" /\ t.ids = {d}
  BY DEF Saving, Idle
<1>3. t.entity = e /\ t.asked = "DRAFT"
  BY DEF Saving, Idle
<1> QED
  BY <1>1, <1>2, <1>3

\* The entity of a draft that is submitted, of what is sent back.
LEMMA SubmittedType ==
    ASSUME NEW e \in Rows
    PROVE  /\ Submitted(e) \in Rows /\ Submitted(e).status = "PENDING_APPROVAL"
           /\ SentBack(e) \in Rows /\ SentBack(e).status = "REJECTED"
<1>1. "PENDING_APPROVAL" \in Status /\ "REJECTED" \in Status /\ 1 \in 1..5 /\ 2 \in 1..5
  BY DEF Status
<1>2. Submitted(e) \in Rows /\ Submitted(e).status = "PENDING_APPROVAL"
  BY <1>1 DEF Submitted, Rows
<1>3. SentBack(e) \in Rows /\ SentBack(e).status = "REJECTED"
  BY <1>1 DEF SentBack, Rows
<1> QED
  BY <1>2, <1>3

LEMMA NewType == \A s \in Status : New(s) \in Rows /\ New(s).status = s
BY DEF New, Rows

LEMMA DraftIsNew == New("DRAFT") \in Rows
BY NewType DEF Status

\* The status that follows, and its step.
LEMMA NextStatusType ==
    ASSUME NEW s \in Status, StepOf[s] \in 2..4
    PROVE  NextStatus(s) \in Status /\ StepOf[NextStatus(s)] = StepOf[s] + 1
<1>1. s \in {"PENDING_APPROVAL", "APPROVED", "DISBURSED"}
  BY StepValues DEF Status
<1> QED
  BY <1>1, StepValues DEF NextStatus, Status

LEMMA ArrivalStep ==
    ASSUME IInv, NEW r \in Request, Arrival(r)
    PROVE  IInv'
<1>t. \A d \in Disbursements : Present(d) => row[d] \in Rows
  BY DEF IInv, TypeOK, Present
<1>d. \A d \in Disbursements : details[d] \in Lines
  BY DEF IInv, TypeOK
<1>l. \A q \in Amounts : [total |-> q, edit |-> requests + 1] \in Lines
  BY DEF IInv, TypeOK, Lines
<1>1. CASE Create(r)
  <2>1. PICK d \in Disbursements, q \in Amounts,
             e \in {Submitted(New("DRAFT"))} \cup {New(s) : s \in Status} :
          Begin(r, [Saving("create", d, e, [total |-> q, edit |-> requests + 1])
                    EXCEPT !.at = "sequence", !.asked = e.status])
    BY <1>1 DEF Create
  <2> DEFINE t == Saving("create", d, e, [total |-> q, edit |-> requests + 1])
             u == [t EXCEPT !.at = "sequence", !.asked = e.status]
  <2>2. e \in Rows /\ e.status \in Status
    BY <2>1, NewType, DraftIsNew, SubmittedType, RowFields
  <2>4. t \in TaskRecord /\ t.op = "create" /\ t.ids = {d} /\ t.entity = e
    BY <2>2, <1>l, SavingType
  <2>5. /\ u \in TaskRecord /\ u.op = "create" /\ u.at = "sequence" /\ u.ids = {d}
        /\ u.entity = e /\ u.asked = e.status
    BY <2>2, <2>4 DEF TaskRecord
  <2> HIDE DEF u
  <2>6. Passes(u) = 2..(StepOf[u.entity.status] - 1) /\ Passes(u) \subseteq 2..4
    BY <2>2, <2>5, FormPasses
  <2>7. Sound(u, passed)
    BY <2>2, <2>5, <2>6, SavingSound
  <2> QED
    BY <2>1, <2>5, <2>7, BeginStep DEF u
<1>2. CASE ConfirmSubmit(r)
  <2>1. PICK d \in Disbursements :
          Present(d) /\ Begin(r, Saving("submit", d, Submitted(row[d]), details[d]))
    BY <1>2 DEF ConfirmSubmit, CanSubmit
  <2> DEFINE t == Saving("submit", d, Submitted(row[d]), details[d])
  <2>2. Submitted(row[d]) \in Rows /\ Submitted(row[d]).status = "PENDING_APPROVAL"
    BY <2>1, <1>t, SubmittedType
  <2>3. /\ t \in TaskRecord /\ t.op = "submit" /\ t.at = "select" /\ t.ids = {d}
        /\ t.entity = Submitted(row[d])
    BY <2>2, <1>d, SavingType
  <2> HIDE DEF t
  <2>4. /\ Passes(t) = {} /\ Passes(t) \subseteq 2..4
        /\ 2..(StepOf[t.entity.status] - 1) \subseteq passed[d] \cup Passes(t)
    BY <2>2, <2>3, StepValues DEF Passes
  <2>6. t \in TaskRecord /\ t.entity \in Rows /\ t.ids = {d} /\ t.at = "select"
    BY <2>2, <2>3
  <2>5. Sound(t, passed)
    BY <2>4, <2>6, SavingSound
  <2> QED
    BY <2>1, <2>3, <2>5, BeginStep DEF t
<1>3. CASE Update(r)
  <2>1. PICK d \in Disbursements, q \in Amounts :
          /\ CanEdit(d)
          /\ LET lines == [total |-> q, edit |-> requests + 1]
             IN \/ Begin(r, Saving("edit", d, Submitted(row[d]), lines))
                \/ Begin(r, Saving("edit", d, row[d], lines))
                \/ \E s \in Status :
                      Begin(r, [Saving("edit", d, [row[d] EXCEPT !.status = s], lines)
                                EXCEPT !.asked = s])
    BY <1>3 DEF Update
  <2> DEFINE lines == [total |-> q, edit |-> requests + 1]
  <2>2. lines \in Lines /\ row[d] \in Rows /\ StepOf[row[d].status] = 1
    BY <2>1, <1>t, <1>l, EditableStep DEF CanEdit
  <2> HIDE DEF lines
\* Submitted, or saved with the status it has: no step is passed.
  <2>3. ASSUME NEW e \in {Submitted(row[d]), row[d]}, Begin(r, Saving("edit", d, e, lines))
        PROVE  IInv'
    <3> DEFINE t == Saving("edit", d, e, lines)
    <3>1. e \in Rows /\ StepOf[e.status] \in 1..2
      BY <2>2, SubmittedType, StepValues
    <3>2. /\ t \in TaskRecord /\ t.op = "edit" /\ t.at = "select" /\ t.ids = {d}
          /\ t.entity = e /\ t.asked = "DRAFT"
      BY <2>2, <3>1, SavingType
    <3> HIDE DEF t
    <3>3. Passes(t) \subseteq 2..4
      BY <3>2, FormPasses DEF Status
    <3>4. Sound(t, passed)
      BY <3>1, <3>2, <3>3, SavingSound
    <3> QED
      BY <2>3, <3>2, <3>4, BeginStep DEF t
\* Saved with the status it sends: the steps before it are passed.
  <2>4. ASSUME NEW s \in Status,
               Begin(r, [Saving("edit", d, [row[d] EXCEPT !.status = s], lines)
                         EXCEPT !.asked = s])
        PROVE  IInv'
    <3> DEFINE e == [row[d] EXCEPT !.status = s]
               t == Saving("edit", d, e, lines)
               u == [t EXCEPT !.asked = s]
    <3>1. e \in Rows /\ e.status = s
      BY <2>2 DEF Rows
    <3> HIDE DEF e
    <3>2. t \in TaskRecord /\ t.op = "edit" /\ t.at = "select" /\ t.ids = {d} /\ t.entity = e
      BY <2>2, <3>1, SavingType
    <3>3. /\ u \in TaskRecord /\ u.op = "edit" /\ u.at = "select" /\ u.ids = {d}
          /\ u.entity = e /\ u.asked = s
      BY <3>2 DEF TaskRecord
    <3> HIDE DEF t, u
    <3>4. Passes(u) = 2..(StepOf[u.entity.status] - 1) /\ Passes(u) \subseteq 2..4
      BY <3>1, <3>3, FormPasses
    <3>5. Sound(u, passed)
      BY <3>1, <3>3, <3>4, SavingSound
    <3> QED
      BY <2>4, <3>3, <3>5, BeginStep DEF u, t, e
  <2> QED
    BY <2>1, <2>3, <2>4 DEF lines
<1>4. CASE UpdateStatus(r)
  <2> DEFINE S(d) == Saving("status", d, row[d], details[d])
  <2>1. PICK d \in Disbursements, asked \in {"REJECTED", "APPROVED"} :
          /\ Present(d)
          /\ \/ /\ asked = "REJECTED"
                /\ Begin(r, [S(d) EXCEPT !.asked = asked, !.entity = SentBack(@)])
             \/ /\ asked # "REJECTED" /\ StepOf[row[d].status] \in 2..4
                /\ Begin(r, [S(d) EXCEPT !.asked = asked,
                                         !.entity.status = NextStatus(row[d].status),
                                         !.entity.step = StepOf[row[d].status] + 1])
    BY <1>4 DEF UpdateStatus
  <2>2. row[d] \in Rows /\ row[d].status \in Status /\ asked \in Status
    BY <2>1, <1>t, RowFields DEF Status
  <2>3. /\ S(d) \in TaskRecord /\ S(d).op = "status" /\ S(d).at = "select"
        /\ S(d).ids = {d} /\ S(d).entity = row[d]
    BY <2>2, <1>d, SavingType
  <2> HIDE DEF S
  <2>4. CASE /\ asked = "REJECTED"
             /\ Begin(r, [S(d) EXCEPT !.asked = asked, !.entity = SentBack(@)])
    <3> DEFINE t == [S(d) EXCEPT !.asked = asked, !.entity = SentBack(@)]
    <3>1. SentBack(row[d]) \in Rows /\ SentBack(row[d]).status = "REJECTED"
      BY <2>2, SubmittedType
    <3>2. t \in TaskRecord
      BY <2>2, <2>3, <3>1 DEF TaskRecord
    <3>3. /\ t.op = "status" /\ t.asked = "REJECTED" /\ t.at = "select" /\ t.ids = {d}
          /\ t.entity = SentBack(row[d])
      BY <2>3, <2>4 DEF TaskRecord
    <3> HIDE DEF t
    <3>4. /\ Passes(t) = {} /\ Passes(t) \subseteq 2..4
          /\ 2..(StepOf[t.entity.status] - 1) \subseteq passed[d] \cup Passes(t)
      BY <3>1, <3>3, StepValues DEF Passes
    <3>5. Sound(t, passed)
      BY <3>1, <3>2, <3>3, <3>4, SavingSound
    <3> QED
      BY <2>4, <3>2, <3>5, BeginStep DEF t
  <2>5. CASE /\ asked # "REJECTED" /\ StepOf[row[d].status] \in 2..4
             /\ Begin(r, [S(d) EXCEPT !.asked = asked,
                                      !.entity.status = NextStatus(row[d].status),
                                      !.entity.step = StepOf[row[d].status] + 1])
    <3> DEFINE k == StepOf[row[d].status]
               e == [row[d] EXCEPT !.status = NextStatus(row[d].status), !.step = k + 1]
               t == [S(d) EXCEPT !.asked = asked, !.entity.status = NextStatus(row[d].status),
                                 !.entity.step = k + 1]
    <3>1. NextStatus(row[d].status) \in Status /\ StepOf[NextStatus(row[d].status)] = k + 1
      BY <2>2, <2>5, NextStatusType
    <3>k. k \in 2..4 /\ k + 1 \in 1..5
      BY <2>5
    <3> HIDE DEF k
    <3>2. e \in Rows /\ e.status = NextStatus(row[d].status) /\ e.step = k + 1
      BY <2>2, <3>k, <3>1 DEF Rows
    <3>3. /\ t.op = "status" /\ t.asked = asked /\ t.at = "select" /\ t.ids = {d}
          /\ t.entity = e
      BY <2>2, <2>3 DEF TaskRecord, Rows
    <3>4. t \in TaskRecord
      BY <2>2, <2>3, <3>2, <3>3 DEF TaskRecord
    <3>6. 2..(k - 1) \subseteq passed[d]
      BY <2>1 DEF IInv, StepsInOrder, k
    <3> HIDE DEF t, e
    <3>5. Passes(t) = {k}
      BY <2>5, <3>k, <3>2, <3>3 DEF Passes
    <3>7. 2..(StepOf[t.entity.status] - 1) \subseteq passed[d] \cup Passes(t)
      BY <3>k, <3>1, <3>2, <3>3, <3>5, <3>6
    <3>8. Sound(t, passed)
      BY <3>k, <3>2, <3>3, <3>4, <3>5, <3>7, SavingSound
    <3> QED
      BY <2>5, <3>4, <3>8, BeginStep DEF t, k
  <2> QED
    BY <2>1, <2>4, <2>5
<1>5. CASE Delete(r)
  <2>1. PICK d \in Disbursements :
          Begin(r, [Idle EXCEPT !.op = "delete", !.at = "delete", !.ids = {d}])
    BY <1>5 DEF Delete
  <2> DEFINE t == [Idle EXCEPT !.op = "delete", !.at = "delete", !.ids = {d}]
  <2>2. t \in TaskRecord
    BY IdleType DEF TaskRecord
  <2>3. t.at = "delete"
    BY DEF Idle
  <2>4. Sound(t, passed)
    BY <2>3 DEF Sound
  <2> QED
    BY <2>1, <2>2, <2>4, BeginStep
<1> QED
  BY <1>1, <1>2, <1>3, <1>4, <1>5 DEF Arrival

LEMMA ProgressStep ==
    ASSUME IInv, NEW r \in Request, Progress(r)
    PROVE  IInv'
<1>t. /\ TypeOK /\ TasksOK /\ StepsInOrder
      /\ task[r] \in TaskRecord /\ Sound(task[r], passed)
  BY DEF IInv, TasksOK, TypeOK
<1>i. task[r].ids \subseteq Disbursements /\ task[r].entity \in Rows \cup {None}
      /\ task[r].lines \in Lines /\ task[r].seen \in Nat
  BY <1>t, TaskFields
<1>p. UNCHANGED passed => \A d \in Disbursements : passed[d] \subseteq passed'[d]
  OBVIOUS
\* A request that only moves on to another label.
<1>g. ASSUME NEW t \in TaskRecord, task' = [task EXCEPT ![r] = t],
             owner' \in Request \cup {None}, Sound(t, passed),
             UNCHANGED <<row, details, sequence, requests, passed, agreed>>
      PROVE  IInv'
  <2>1. task' \in [Request -> TaskRecord] /\ TasksOK'
    BY <1>t, <1>g, TasksStep
  <2> QED
    BY <1>t, <1>g, <2>1 DEF IInv, TypeOK, StepsInOrder, Present
\* A request that ends.
<1>e. ASSUME End(r), UNCHANGED <<row, details, sequence, requests, passed, agreed>>
      PROVE  IInv'
  <2>1. task' \in [Request -> TaskRecord] /\ TasksOK' /\ owner' \in Request \cup {None}
    BY <1>e, EndStep
  <2> QED
    BY <1>t, <1>e, <2>1 DEF IInv, TypeOK, StepsInOrder, Present
\* What the history records of a commit has its type and forgets nothing.
<1>h. ASSUME NEW d \in Disbursements, NEW total \in Amounts \cup {0},
             Recorded(r, d, total), Passes(task[r]) \subseteq 2..4
      PROVE  /\ \A x \in Disbursements : passed[x] \subseteq passed'[x]
             /\ passed' \in [Disbursements -> SUBSET (2..4)]
             /\ passed'[d] = passed[d] \cup Passes(task[r])
             /\ agreed' \in [Disbursements -> Amounts \cup {0}]
  <2>1. /\ passed' = [passed EXCEPT ![d] = @ \cup Passes(task[r])]
        /\ agreed' \in {agreed, [agreed EXCEPT ![d] = total]}
    BY <1>h DEF Recorded
  <2>2. /\ passed \in [Disbursements -> SUBSET (2..4)]
        /\ agreed \in [Disbursements -> Amounts \cup {0}]
    BY <1>t DEF TypeOK
  <2> QED
    BY <1>h, <2>1, <2>2
<1>1. CASE ReadSequence(r)
  <2>1. PICK a \in {"create", "newSequence"}, n \in Nat :
          task' = [task EXCEPT ![r].at = a, ![r].seen = n]
    BY <1>t, <1>1 DEF ReadSequence, TypeOK
  <2> DEFINE t == [task[r] EXCEPT !.at = a, !.seen = n]
  <2>2. t \in TaskRecord
    BY <1>t DEF TaskRecord
  <2>3. t.at = a /\ t.op = task[r].op /\ t.ids = task[r].ids /\ t.entity = task[r].entity
        /\ t.asked = task[r].asked
    BY <1>t DEF TaskRecord
  <2>4. task' = [task EXCEPT ![r] = t]
    BY <1>t, <2>1 DEF TypeOK
  <2>5. task[r].at = "sequence"
    BY <1>1 DEF ReadSequence, At
  <2> HIDE DEF t
  <2>6. Sound(t, passed)
    BY <1>t, <2>3, <2>5 DEF Sound, Passes
  <2>7. owner' \in Request \cup {None}
    BY <1>t, <1>1 DEF ReadSequence, LockSequence, TypeOK
  <2> QED
    BY <1>1, <1>g, <2>2, <2>4, <2>6, <2>7 DEF ReadSequence
<1>2. CASE SelectSequence(r)
  <2>1. PICK a \in {"create", "insertSequence", "setSequence"} :
          task' = [task EXCEPT ![r].at = a]
    BY <1>2 DEF SelectSequence, Goto
  <2> DEFINE t == [task[r] EXCEPT !.at = a]
  <2>2. t \in TaskRecord
    BY <1>t DEF TaskRecord
  <2>3. t.at = a /\ t.op = task[r].op /\ t.ids = task[r].ids /\ t.entity = task[r].entity
        /\ t.asked = task[r].asked
    BY <1>t DEF TaskRecord
  <2>4. task' = [task EXCEPT ![r] = t]
    BY <1>t, <2>1 DEF TypeOK
  <2>5. task[r].at = "newSequence"
    BY <1>2 DEF SelectSequence, At
  <2> HIDE DEF t
  <2>6. Sound(t, passed)
    BY <1>t, <2>3, <2>5 DEF Sound, Passes
  <2> QED
    BY <1>t, <1>2, <1>g, <2>2, <2>4, <2>6 DEF SelectSequence, TypeOK
<1>3. CASE WriteSequence(r)
  <2>1. CASE End(r)
    BY <1>3, <1>e, <2>1 DEF WriteSequence
  <2>2. CASE owner' = r /\ Goto(r, "create")
    <3> DEFINE t == [task[r] EXCEPT !.at = "create"]
    <3>2. t \in TaskRecord
      BY <1>t DEF TaskRecord
    <3>3. t.at = "create" /\ t.op = task[r].op /\ t.ids = task[r].ids
          /\ t.entity = task[r].entity /\ t.asked = task[r].asked
      BY <1>t DEF TaskRecord
    <3>4. task' = [task EXCEPT ![r] = t]
      BY <1>t, <2>2 DEF TypeOK, Goto
    <3>5. task[r].at \in {"insertSequence", "setSequence"}
      BY <1>3 DEF WriteSequence, At
    <3> HIDE DEF t
    <3>6. Sound(t, passed)
      BY <1>t, <3>3, <3>5 DEF Sound, Passes
    <3> QED
      BY <1>3, <1>g, <2>2, <3>2, <3>4, <3>6 DEF WriteSequence
  <2> QED
    BY <1>3, <2>1, <2>2 DEF WriteSequence
<1>4. CASE Insert(r)
  <2>1. /\ task[r].at = "create" /\ task[r].op = "create" /\ task[r].entity \in Rows
        /\ Passes(task[r]) \subseteq 2..4 /\ End(r) /\ UNCHANGED requests
    BY <1>t, <1>4 DEF Insert, At, Sound
  <2>2. PICK d \in task[r].ids :
          /\ row' = [row EXCEPT ![d] = [task[r].entity EXCEPT !.number = task[r].seen]]
          /\ details' = [details EXCEPT ![d] = task[r].lines]
          /\ Recorded(r, d, task[r].lines.total)
    BY <1>4 DEF Insert
  <2> DEFINE e == [task[r].entity EXCEPT !.number = task[r].seen]
  <2>3. e \in Rows /\ e.status = task[r].entity.status
    BY <1>i, <2>1 DEF Rows
  <2> HIDE DEF e
  <2>4. d \in Disbursements /\ row' = [row EXCEPT ![d] = e]
    BY <1>i, <2>2 DEF e
  <2>r. /\ \A x \in Disbursements : passed[x] \subseteq passed'[x]
        /\ passed' \in [Disbursements -> SUBSET (2..4)]
        /\ passed'[d] = passed[d] \cup Passes(task[r])
        /\ agreed' \in [Disbursements -> Amounts \cup {0}]
    <3>1. task[r].lines.total \in Amounts \cup {0}
      BY <1>i DEF Lines
    <3> QED
      BY <1>h, <2>1, <2>2, <2>4, <3>1
  <2>5. 2..(StepOf[e.status] - 1) \subseteq passed'[d]
    BY <1>t, <2>1, <2>2, <2>3, <2>r DEF Sound
  <2>6. StepsInOrder'
    <3>1. ASSUME NEW x \in Disbursements, row'[x] # None
          PROVE  2..(StepOf[row'[x].status] - 1) \subseteq passed'[x]
      <4>1. CASE x = d
        BY <1>t, <2>4, <2>5, <4>1 DEF TypeOK
      <4>2. CASE x # d
        BY <1>t, <2>4, <2>r, <3>1, <4>2 DEF StepsInOrder, Present, TypeOK
      <4> QED
        BY <4>1, <4>2
    <3> QED
      BY <3>1 DEF StepsInOrder, Present
  <2>7. task' \in [Request -> TaskRecord] /\ TasksOK' /\ owner' \in Request \cup {None}
    BY <2>1, <2>r, EndStep
  <2>8. sequence' \in Nat
    BY <1>i, <1>t, <1>4 DEF Insert, TypeOK
  <2>9. row' \in [Disbursements -> Rows \cup {None}] /\ details' \in [Disbursements -> Lines]
    BY <1>t, <1>i, <2>2, <2>3, <2>4 DEF TypeOK
  <2> QED
    BY <1>t, <2>1, <2>r, <2>6, <2>7, <2>8, <2>9 DEF IInv, TypeOK
<1>5. CASE Select(r)
  <2>1. CASE End(r)
    BY <1>5, <1>e, <2>1 DEF Select
  <2>2. CASE ~End(r)
    <3>1. PICK d \in task[r].ids :
            /\ UNCHANGED owner
            /\ task' = [task EXCEPT ![r].at = IF Present(d) THEN "write" ELSE "insert",
                   ![r].columns = IF Present(d) THEN Differing(task[r].entity, row[d]) ELSE {}]
      BY <1>5, <2>2 DEF Select
    <3> DEFINE a == IF Present(d) THEN "write" ELSE "insert"
               C == IF Present(d) THEN Differing(task[r].entity, row[d]) ELSE {}
               t == [task[r] EXCEPT !.at = a, !.columns = C]
    <3>2. C \in SUBSET {"status", "step", "number"}
      <4>1. Present(d) => row[d] \in Rows
        BY <1>t, <1>i, <3>1 DEF TypeOK, Present
      <4> QED
        BY <4>1, DifferingType
    <3>3. a \in {"write", "insert"}
      OBVIOUS
    <3>4. task' = [task EXCEPT ![r] = t]
      BY <1>t, <3>1 DEF TypeOK
    <3> HIDE DEF a, C
    <3>5. t \in TaskRecord
      BY <1>t, <3>2, <3>3 DEF TaskRecord
    <3>6. t.at = a /\ t.op = task[r].op /\ t.ids = task[r].ids
          /\ t.entity = task[r].entity /\ t.asked = task[r].asked
      BY <1>t DEF TaskRecord
    <3>7. task[r].at = "select"
      BY <1>5 DEF Select, At
    <3> HIDE DEF t
    <3>8. Sound(t, passed)
      BY <1>t, <3>3, <3>6, <3>7 DEF Sound, Passes
    <3>9. owner' \in Request \cup {None}
      BY <1>t, <3>1 DEF TypeOK
    <3> QED
      BY <1>5, <1>g, <3>4, <3>5, <3>8, <3>9 DEF Select
  <2> QED
    BY <2>1, <2>2
\* A request that commits what it decided.
<1>s. ASSUME NEW d \in task[r].ids, NEW e \in Rows, Saved(r, d, e), End(r),
             task[r].at \in {"write", "insert"},
             UNCHANGED <<sequence, requests>>,
             \/ Present(d) /\ e.status = row[d].status
             \/ e.status = task[r].entity.status
      PROVE  IInv'
  <2>1. d \in Disbursements /\ Passes(task[r]) \subseteq 2..4
    BY <1>t, <1>i, <1>s DEF Sound
  <2>2. row' = [row EXCEPT ![d] = e] /\ Recorded(r, d, details'[d].total)
    BY <1>s DEF Saved
  <2>6. details' \in [Disbursements -> Lines]
    BY <1>t, <1>i, <1>s, <2>1 DEF TypeOK, Saved
  <2>7. details'[d].total \in Amounts \cup {0}
    BY <2>1, <2>6 DEF Lines
  <2>3. /\ \A x \in Disbursements : passed[x] \subseteq passed'[x]
        /\ passed' \in [Disbursements -> SUBSET (2..4)]
        /\ passed'[d] = passed[d] \cup Passes(task[r])
        /\ agreed' \in [Disbursements -> Amounts \cup {0}]
    BY <1>h, <2>1, <2>2, <2>7
  <2>4. task' \in [Request -> TaskRecord] /\ TasksOK' /\ owner' \in Request \cup {None}
    BY <1>s, <2>3, EndStep
  <2>5. /\ row' \in [Disbursements -> Rows \cup {None}]
        /\ row'[d] = e /\ \A x \in Disbursements \ {d} : row'[x] = row[x]
    BY <1>t, <1>s, <2>1, <2>2 DEF TypeOK
  <2>9. 2..(StepOf[e.status] - 1) \subseteq passed'[d]
    <3>1. CASE Present(d) /\ e.status = row[d].status
      BY <1>t, <2>1, <2>3, <3>1 DEF StepsInOrder
    <3>2. CASE e.status = task[r].entity.status
      BY <1>t, <1>s, <2>1, <2>3, <3>2 DEF Sound
    <3> QED
      BY <1>s, <3>1, <3>2
  <2>10. StepsInOrder'
    <3>1. ASSUME NEW x \in Disbursements, row'[x] # None
          PROVE  2..(StepOf[row'[x].status] - 1) \subseteq passed'[x]
      <4>1. CASE x = d
        BY <4>1, <2>5, <2>9
      <4>2. CASE x # d
        BY <1>t, <3>1, <4>2, <2>3, <2>5 DEF StepsInOrder, Present
      <4> QED
        BY <4>1, <4>2
    <3> QED
      BY <3>1 DEF StepsInOrder, Present
  <2> QED
    BY <1>t, <1>s, <2>3, <2>4, <2>5, <2>6, <2>10 DEF IInv, TypeOK
<1>6. CASE Write(r)
  <2>1. PICK d \in task[r].ids :
          IF Present(d) THEN Saved(r, d, Updated(row[d], task[r].entity, task[r].columns))
          ELSE UNCHANGED <<row, details, passed, agreed>>
    BY <1>6 DEF Write
  <2>2. task[r].at = "write" /\ End(r) /\ UNCHANGED <<sequence, requests>>
    BY <1>6 DEF Write, At
  <2>3. CASE Present(d)
    <3>1. row[d] \in Rows /\ task[r].entity \in Rows
      BY <1>t, <1>i, <2>2, <2>3 DEF TypeOK, Present, Sound
    <3> QED
      BY <1>s, <2>1, <2>2, <2>3, <3>1, UpdatedType
  <2>4. CASE ~Present(d)
    BY <1>e, <2>1, <2>2, <2>4
  <2> QED
    BY <2>3, <2>4
<1>7. CASE InsertAgain(r)
  <2>1. PICK d \in task[r].ids :
          IF Present(d) THEN UNCHANGED <<row, details, passed, agreed>>
          ELSE Saved(r, d, task[r].entity)
    BY <1>7 DEF InsertAgain
  <2>2. task[r].at = "insert" /\ End(r) /\ UNCHANGED <<sequence, requests>>
    BY <1>7 DEF InsertAgain, At
  <2>3. CASE ~Present(d)
    <3>1. task[r].entity \in Rows
      BY <1>t, <2>2 DEF Sound
    <3> QED
      BY <1>s, <2>1, <2>2, <2>3, <3>1
  <2>4. CASE Present(d)
    BY <1>e, <2>1, <2>2, <2>4
  <2> QED
    BY <2>3, <2>4
<1>8. CASE Remove(r)
  <2>1. /\ row' = [d \in Disbursements |-> IF d \in task[r].ids THEN None ELSE row[d]]
        /\ details' = [d \in Disbursements |-> IF d \in task[r].ids THEN NoDetails ELSE details[d]]
        /\ End(r) /\ UNCHANGED <<sequence, requests, passed, agreed>>
    BY <1>8 DEF Remove
  <2>2. task' \in [Request -> TaskRecord] /\ TasksOK' /\ owner' \in Request \cup {None}
    BY <1>p, <2>1, EndStep
  <2>3. NoDetails \in Lines
    BY DEF NoDetails, Lines
  <2>4. /\ row' \in [Disbursements -> Rows \cup {None}]
        /\ details' \in [Disbursements -> Lines]
    BY <1>t, <2>1, <2>3 DEF TypeOK
  <2>5. \A d \in Disbursements : row'[d] # None => row'[d] = row[d]
    BY <2>1
  <2>6. StepsInOrder'
    BY <1>t, <2>1, <2>5 DEF StepsInOrder, Present
  <2> QED
    BY <1>t, <2>1, <2>2, <2>4, <2>6 DEF IInv, TypeOK
<1> QED
  BY <1>1, <1>2, <1>3, <1>4, <1>5, <1>6, <1>7, <1>8 DEF Progress

LEMMA InitIInv == Init => IInv
<1> SUFFICES ASSUME Init PROVE IInv
  OBVIOUS
<1>1. TypeOK
  <2>1. NoDetails \in Lines
    BY DEF NoDetails, Lines
  <2> QED
    BY <2>1, IdleType, DisbursementAssumption DEF Init, TypeOK
<1>2. TasksOK
  BY IdleSound DEF Init, TasksOK
<1>3. StepsInOrder
  BY DEF Init, StepsInOrder, Present
<1> QED
  BY <1>1, <1>2, <1>3 DEF IInv

LEMMA NextIInv == IInv /\ [Next]_vars => IInv'
<1> SUFFICES ASSUME IInv, [Next]_vars PROVE IInv'
  OBVIOUS
<1>1. ASSUME NEW r \in Request, Arrival(r) \/ Progress(r) PROVE IInv'
  BY <1>1, ArrivalStep, ProgressStep
<1>2. ASSUME NEW r \in Request, Fail(r) PROVE IInv'
  <2>1. End(r) /\ UNCHANGED <<row, details, sequence, requests, passed, agreed>>
    BY <1>2 DEF Fail
  <2>2. task' \in [Request -> TaskRecord] /\ TasksOK' /\ owner' \in Request \cup {None}
    BY <2>1, EndStep
  <2> QED
    BY <2>1, <2>2 DEF IInv, TypeOK, StepsInOrder, Present
<1>3. CASE UNCHANGED vars
  BY <1>3 DEF vars, IInv, TypeOK, TasksOK, Sound, StepsInOrder, Present
<1> QED
  BY <1>1, <1>2, <1>3 DEF Next, Quiescent

----------------------------------------------------------------------------

\* The tables and the requests have the types they should have, whatever runs
\* beside what.
THEOREM TypeCorrect == Spec => []TypeOK
<1>1. IInv => TypeOK
  BY DEF IInv
<1> QED
  BY InitIInv, NextIInv, <1>1, PTL DEF Spec

\* updateStatus: however requests interleave, a disbursement that is approved,
\* transferred or completed has been through the approval of every step before.
THEOREM ApprovedInOrder == Spec => []StepsInOrder
<1>1. IInv => StepsInOrder
  BY DEF IInv
<1> QED
  BY InitIInv, NextIInv, <1>1, PTL DEF Spec
=============================================================================
