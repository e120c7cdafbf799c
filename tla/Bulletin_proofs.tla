---------------------------- MODULE Bulletin_proofs ----------------------------
(***************************************************************************)
(* Theorems about Bulletin, for any number of requests, steps and failing  *)
(* statements: what no interleaving of the handlers can break, and, with   *)
(* the history variable of MCBulletin, what the approval promises as long  *)
(* as one request runs at a time.                                          *)
(***************************************************************************)
EXTENDS MCBulletin, TLAPS

----------------------------------------------------------------------------
(* The inductive invariant.                                                *)

Columns == {"status", "step", "content", "views"}
TaskRecord(n) ==
    [at : Phase, op : Operation, entity : Bulletins \cup {NoRow},
     loaded : SUBSET (1..n), columns : SUBSET Columns]

\* The phases in which a handler holds a copy that it may save.
Holding == {"step", "next", "save", "write", "insert"}
Saving == {"save", "write", "insert"}
Public == {"APPROVED", "PUBLISHED"}

\* A copy that would make the bulletin public is an approval, or there was
\* one before.
Sound(t, approved) ==
    /\ t.at \in Holding => t.entity \in Bulletins
    /\ t.at = "step" => t.op \in {"approve", "reject"}
    /\ t.at = "next" => t.op = "approve"
    /\ (t.at \in {"step", "next"} /\ t.op = "approve") => t.entity.status = "PENDING"
    /\ (t.at \in Saving /\ t.op = "approve") =>
          \/ t.entity.status = "PENDING" /\ t.entity.step \in 2..Steps
          \/ t.entity.status = "APPROVED"
    /\ (t.at \in Holding /\ t.op # "approve" /\ t.entity.status \in Public) => approved

TasksSound == \A s \in Request : Sound(task[s], approvals)

PublicApproved == (row # NoRow /\ row.status \in Public) => approvals

IInv == TypeOK /\ TasksSound /\ PublicApproved

----------------------------------------------------------------------------
(* What the operators return.                                              *)

LEMMA BulletinFields ==
    ASSUME NEW r \in Bulletins
    PROVE  /\ r.status \in Status /\ r.step \in 1..Steps /\ r.content \in Contents
           /\ r.views \in Nat
           /\ DOMAIN r = Columns
BY DEF Bulletins, Columns

\* NoRow is no bulletin.
LEMMA NoRowIsNoBulletin == NoRow \notin Bulletins
BY BulletinAssumption

LEMMA DifferingType ==
    ASSUME NEW x \in Bulletins, NEW e
    PROVE  Differing(e, x) \in SUBSET Columns
BY BulletinFields DEF Differing

\* What an UPDATE leaves of a row.
LEMMA UpdatedType ==
    ASSUME NEW x \in Bulletins, NEW e \in Bulletins, NEW C
    PROVE  /\ Updated(x, e, C) \in Bulletins
           /\ Updated(x, e, C).status \in {x.status, e.status}
<1>1. DOMAIN x = Columns
  BY BulletinFields
<1>2. Updated(x, e, C) = [c \in Columns |-> IF c \in C THEN e[c] ELSE x[c]]
  BY <1>1 DEF Updated
<1>3. Updated(x, e, C) \in Bulletins
  BY <1>2 DEF Bulletins, Columns
<1>4. Updated(x, e, C).status \in {x.status, e.status}
  BY <1>2 DEF Columns
<1> QED
  BY <1>3, <1>4

\* If nobody wrote between the second read and the UPDATE, the row becomes the
\* entity.
LEMMA UpdatedDiffering ==
    ASSUME NEW x \in Bulletins, NEW e \in Bulletins
    PROVE  Updated(x, e, Differing(e, x)) = e
<1>1. DOMAIN x = Columns /\ DOMAIN e = Columns
  BY BulletinFields
<1>2. e = [c \in Columns |-> e[c]]
  BY <1>1 DEF Bulletins, Columns
<1>3. \A c \in Columns : (IF c \in Differing(e, x) THEN e[c] ELSE x[c]) = e[c]
  BY <1>1 DEF Differing
<1>4. Updated(x, e, Differing(e, x))
        = [c \in Columns |-> IF c \in Differing(e, x) THEN e[c] ELSE x[c]]
  BY <1>1 DEF Updated
<1> QED
  BY <1>2, <1>3, <1>4

LEMMA TaskFields ==
    ASSUME NEW n, NEW t \in TaskRecord(n)
    PROVE  /\ t.at \in Phase /\ t.op \in Operation
           /\ t.entity \in Bulletins \cup {NoRow}
           /\ t.loaded \in SUBSET (1..n) /\ t.columns \in SUBSET Columns
BY DEF TaskRecord

LEMMA IdleType == \A n : Idle \in TaskRecord(n)
BY DEF Idle, TaskRecord, Phase, Operation

LEMMA IdleSound == \A a : Sound(Idle, a)
BY DEF Sound, Idle, Holding, Saving

\* A later history only adds ids.
LEMMA TaskRecordGrows ==
    ASSUME NEW n \in Nat, NEW m \in Nat, n <= m, NEW t \in TaskRecord(n)
    PROVE  t \in TaskRecord(m)
<1>1. 1..n \subseteq 1..m
  OBVIOUS
<1> QED
  BY <1>1 DEF TaskRecord

LEMMA AtType ==
    ASSUME NEW n, NEW t \in TaskRecord(n), NEW phase \in Phase
    PROVE  LET u == [t EXCEPT !.at = phase]
           IN /\ u \in TaskRecord(n)
              /\ u.at = phase /\ u.op = t.op /\ u.entity = t.entity
              /\ u.loaded = t.loaded /\ u.columns = t.columns
BY DEF TaskRecord

----------------------------------------------------------------------------
(* Steps.                                                                  *)

\* One request changes what it remembers; an approval is not forgotten.
LEMMA TasksStep ==
    ASSUME IInv, NEW s \in Request,
           lastHistory' \in {lastHistory, lastHistory + 1},
           approvals => approvals',
           NEW t \in TaskRecord(lastHistory'), Sound(t, approvals'),
           task' = [task EXCEPT ![s] = t]
    PROVE  /\ task' \in [Request -> TaskRecord(lastHistory')] /\ TasksSound'
           /\ \A q \in Request : task'[q].at \in Holding => task'[q].entity # NoRow
<1>1. ASSUME NEW q \in Request
      PROVE  task'[q] \in TaskRecord(lastHistory') /\ Sound(task'[q], approvals')
  <2>1. CASE q = s
    BY <2>1 DEF IInv, TypeOK
  <2>2. CASE q # s
    <3>1. task'[q] = task[q] /\ task[q] \in TaskRecord(lastHistory)
          /\ Sound(task[q], approvals)
      BY <2>2 DEF IInv, TypeOK, TasksSound, TaskRecord, Columns
    <3>2. lastHistory \in Nat /\ lastHistory' \in Nat /\ lastHistory <= lastHistory'
      BY DEF IInv, TypeOK
    <3> QED
      BY <3>1, <3>2, TaskRecordGrows DEF Sound
  <2> QED
    BY <2>1, <2>2
<1>2. task' \in [Request -> TaskRecord(lastHistory')] /\ TasksSound'
  BY <1>1 DEF TasksSound, IInv, TypeOK
<1>3. \A q \in Request : task'[q].at \in Holding => task'[q].entity # NoRow
  BY <1>1, NoRowIsNoBulletin DEF Sound
<1> QED
  BY <1>2, <1>3

\* The invariant holds again if the table and one task are as they should be.
LEMMA StepIInv ==
    ASSUME IInv, NEW s \in Request,
           row' \in Bulletins \cup {NoRow}, PublicApproved',
           lastHistory' \in {lastHistory, lastHistory + 1},
           histories' \subseteq 1..lastHistory',
           configured' \subseteq 1..Steps, requests' \in Nat, failures' \in Nat,
           signed' \subseteq 1..Steps, kept' \subseteq 1..Steps, approvals' \in BOOLEAN, approvals => approvals',
           NEW t \in TaskRecord(lastHistory'), Sound(t, approvals'),
           task' = [task EXCEPT ![s] = t]
    PROVE  IInv'
<1>1. /\ task' \in [Request -> TaskRecord(lastHistory')] /\ TasksSound'
      /\ \A q \in Request : task'[q].at \in Holding => task'[q].entity # NoRow
  BY TasksStep
<1>2. lastHistory' \in Nat
  BY DEF IInv, TypeOK
<1> QED
  BY <1>1, <1>2 DEF IInv, TypeOK, TaskRecord, Columns, Holding, EntityOf

\* What the invariant says of the request that acts.
LEMMA TaskInv ==
    ASSUME IInv, NEW s \in Request
    PROVE  /\ task[s] \in TaskRecord(lastHistory) /\ Sound(task[s], approvals)
           /\ lastHistory \in Nat /\ histories \subseteq 1..lastHistory
           /\ row # NoRow => row \in Bulletins
BY DEF IInv, TypeOK, TasksSound, TaskRecord, Columns

\* A request goes on, or is over, and nothing but its task changes.
LEMMA PrivateStep ==
    ASSUME IInv, NEW s \in Request, NEW phase \in Phase,
           NEW t \in TaskRecord(lastHistory), Continue(s, phase, t),
           phase # "idle" => Sound([t EXCEPT !.at = phase], approvals),
           UNCHANGED <<table, ghosts>>, requests' \in Nat, failures' \in Nat
    PROVE  IInv'
<1> DEFINE u == IF phase = "idle" THEN Idle ELSE [t EXCEPT !.at = phase]
<1>1. u \in TaskRecord(lastHistory) /\ Sound(u, approvals)
  BY AtType, IdleType, IdleSound
<1>2. task' = [task EXCEPT ![s] = u]
  BY DEF Continue
<1> HIDE DEF u
<1>3. UNCHANGED <<row, histories, lastHistory, configured, signed, kept, approvals>>
  BY DEF table, ghosts
<1>4. PublicApproved'
  BY <1>3 DEF IInv, PublicApproved
<1> QED
  BY <1>1, <1>2, <1>3, <1>4, StepIInv DEF IInv, TypeOK

\* A request begins with the copy e of the row.
LEMMA BeginStep ==
    ASSUME IInv, NEW s \in Request, NEW o \in Operation, NEW e \in Bulletins,
           NEW phase \in {"step", "save", "dropHistories"}, Begin(s, o, phase, e),
           phase = "step" => o \in {"approve", "reject"},
           o = "approve" => phase = "step" /\ e.status = "PENDING",
           (o # "approve" /\ e.status \in Public) => approvals
    PROVE  IInv'
<1> DEFINE t == [Idle EXCEPT !.op = o, !.entity = e, !.loaded = histories]
<1>1. histories \subseteq 1..lastHistory
  BY TaskInv
<1>3. t \in TaskRecord(lastHistory) /\ t.op = o /\ t.entity = e
  BY <1>1, IdleType DEF TaskRecord
<1>4. phase \in Phase /\ phase # "idle"
  BY DEF Phase
<1> HIDE DEF t
<1>5. Sound([t EXCEPT !.at = phase], approvals)
  BY <1>3, <1>4, AtType DEF Sound, Saving
<1>6. /\ Continue(s, phase, t) /\ UNCHANGED <<table, ghosts>>
      /\ requests' \in Nat /\ failures' \in Nat
  BY DEF Begin, t, IInv, TypeOK
<1> QED
  BY <1>3, <1>4, <1>5, <1>6, PrivateStep

LEMMA StatusValues ==
    /\ {"DRAFT", "PENDING", "APPROVED", "PUBLISHED", "REJECTED", "REQUIRE_EDIT"} = Status
    /\ Editable \cap Public = {} /\ Editable \subseteq Status
BY DEF Status, Editable, Public

LEMMA ArrivalStep ==
    ASSUME IInv, NEW s \in Request, Arrival(s)
    PROVE  IInv'
<1>r. row # NoRow => /\ row \in Bulletins
                     /\ row.status \in Public => approvals
  BY DEF IInv, TypeOK, PublicApproved
<1>1. CASE Update(s)
  <2>1. PICK c \in Contents :
          /\ row # NoRow /\ row.status \in Editable
          /\ Begin(s, "update", "save", [row EXCEPT !.content = c])
    BY <1>1 DEF Update
  <2>2. /\ [row EXCEPT !.content = c] \in Bulletins
        /\ [row EXCEPT !.content = c].status = row.status
    BY <1>r, <2>1 DEF Bulletins
  <2>3. "update" \in Operation
    BY DEF Operation
  <2> QED
    BY <2>1, <2>2, <2>3, BeginStep, StatusValues
<1>2. CASE Submit(s)
  <2> DEFINE e == [row EXCEPT !.status = "PENDING", !.step = 1]
  <2>0. row \in Bulletins /\ "PENDING" \in Status /\ 1 \in 1..Steps
    BY <1>r, <1>2, BulletinAssumption DEF Submit, Status
  <2>1. e \in Bulletins /\ e.status = "PENDING"
    BY <2>0 DEF Bulletins
  <2>2. "submit" \in Operation /\ "PENDING" \notin Public
    BY DEF Operation, Public
  <2> HIDE DEF e
  <2>3. Begin(s, "submit", "save", e)
    BY <1>2 DEF Submit, e
  <2> QED
    BY <2>1, <2>2, <2>3, BeginStep
<1>3. CASE Approve(s)
  <2>1. row \in Bulletins /\ row.status = "PENDING" /\ Begin(s, "approve", "step", row)
    BY <1>r, <1>3 DEF Approve
  <2>2. "approve" \in Operation
    BY DEF Operation
  <2> QED
    BY <2>1, <2>2, BeginStep
<1>4. CASE Reject(s)
  <2> DEFINE e == [row EXCEPT !.status = "REJECTED"]
  <2>1. e \in Bulletins /\ e.status = "REJECTED"
    BY <1>r, <1>4 DEF Reject, Bulletins, Status
  <2>2. "reject" \in Operation /\ "REJECTED" \notin Public
    BY DEF Operation, Public
  <2> HIDE DEF e
  <2>3. Begin(s, "reject", "step", e)
    BY <1>4 DEF Reject, e
  <2> QED
    BY <2>1, <2>2, <2>3, BeginStep
<1>5. CASE Publish(s)
  <2> DEFINE e == [row EXCEPT !.status = "PUBLISHED"]
  <2>1. e \in Bulletins /\ approvals
    BY <1>r, <1>5 DEF Publish, Bulletins, Status, Public
  <2>2. "publish" \in Operation
    BY DEF Operation
  <2> HIDE DEF e
  <2>3. Begin(s, "publish", "save", e)
    BY <1>5 DEF Publish, e
  <2> QED
    BY <2>1, <2>2, <2>3, BeginStep
<1>6. CASE Unpublish(s)
  <2> DEFINE e == [row EXCEPT !.status = "APPROVED"]
  <2>1. e \in Bulletins /\ approvals
    BY <1>r, <1>6 DEF Unpublish, Bulletins, Status, Public
  <2>2. "unpublish" \in Operation
    BY DEF Operation
  <2> HIDE DEF e
  <2>3. Begin(s, "unpublish", "save", e)
    BY <1>6 DEF Unpublish, e
  <2> QED
    BY <2>1, <2>2, <2>3, BeginStep
<1>7. CASE View(s)
  <2> DEFINE e == [row EXCEPT !.views = @ + 1]
  <2>1. e \in Bulletins /\ e.status = row.status /\ row # NoRow
    BY <1>r, <1>7 DEF View, Bulletins
  <2>2. "view" \in Operation
    BY DEF Operation
  <2> HIDE DEF e
  <2>3. Begin(s, "view", "save", e)
    BY <1>7 DEF View, e
  <2> QED
    BY <1>r, <2>1, <2>2, <2>3, BeginStep
<1>8. CASE Delete(s)
  <2>1. row # NoRow /\ Begin(s, "delete", "dropHistories", row)
    BY <1>8 DEF Delete
  <2>2. "delete" \in Operation
    BY DEF Operation
  <2> QED
    BY <1>r, <2>1, <2>2, BeginStep
<1>9. CASE DeleteSteps(s)
  <2> DEFINE t == [Idle EXCEPT !.op = "workflow"]
             u == [t EXCEPT !.at = "addSteps"]
  <2>1. t \in TaskRecord(lastHistory)
    BY IdleType DEF TaskRecord, Operation
  <2>2. u \in TaskRecord(lastHistory) /\ u.at = "addSteps"
    BY <2>1, AtType, ZenonT(60) DEF Phase
  <2>3. task' = [task EXCEPT ![s] = u]
    BY <1>9 DEF DeleteSteps, Continue
  <2> HIDE DEF u, t
  <2>4. Sound(u, approvals)
    BY <2>2 DEF Sound, Holding, Saving
  <2>5. /\ UNCHANGED <<row, histories, lastHistory, failures, signed, kept, approvals>>
        /\ configured' = {} /\ requests' = requests + 1
    BY <1>9 DEF DeleteSteps, ghosts
  <2>6. PublicApproved'
    BY <2>5 DEF IInv, PublicApproved
  <2>7. configured' \subseteq 1..Steps
    BY <2>5
  <2>8. /\ row' \in Bulletins \cup {NoRow} /\ histories' \subseteq 1..lastHistory'
        /\ requests' \in Nat /\ failures' \in Nat
        /\ signed' \subseteq 1..Steps /\ kept' \subseteq 1..Steps /\ approvals' \in BOOLEAN
    BY <2>5 DEF IInv, TypeOK
  <2> QED
    BY <2>2, <2>3, <2>4, <2>5, <2>6, <2>7, <2>8, StepIInv
<1> QED
  BY <1>1, <1>2, <1>3, <1>4, <1>5, <1>6, <1>7, <1>8, <1>9 DEF Arrival

\* Where a handler goes after its save.
LEMMA AfterSaveType == \A s : AfterSave(s) \in {"idle", "log"}
BY DEF AfterSave

\* A task that holds no copy, and no step of the workflow either, is sound.
LEMMA NotHoldingSound ==
    ASSUME NEW t, NEW a, t.at \notin Holding
    PROVE  Sound(t, a)
BY DEF Sound, Holding, Saving

LEMMA NextPhases ==
    /\ {"idle", "step", "next", "save", "write", "insert", "log",
        "dropHistories", "dropRow", "addSteps"} = Phase
    /\ \A p \in {"idle", "log", "dropHistories", "dropRow", "addSteps"} : p \notin Holding
BY DEF Phase, Holding

\* A request goes on with a copy that is sound, or is over.
LEMMA GotoStep ==
    ASSUME IInv, NEW s \in Request, NEW phase \in {"idle", "log", "dropRow"},
           Goto(s, phase),
           row' \in Bulletins \cup {NoRow}, PublicApproved',
           lastHistory' \in {lastHistory, lastHistory + 1},
           histories' \subseteq 1..lastHistory',
           configured' \subseteq 1..Steps, requests' \in Nat, failures' \in Nat,
           signed' \subseteq 1..Steps, kept' \subseteq 1..Steps, approvals' \in BOOLEAN, approvals => approvals'
    PROVE  IInv'
<1> DEFINE u == IF phase = "idle" THEN Idle ELSE [task[s] EXCEPT !.at = phase]
<1>1. task[s] \in TaskRecord(lastHistory) /\ lastHistory \in Nat
  BY TaskInv
<1>2. task[s] \in TaskRecord(lastHistory')
  BY <1>1, TaskRecordGrows
<1>3. u \in TaskRecord(lastHistory') /\ u.at \in {"idle", "log", "dropRow"}
  <2>1. CASE phase = "idle"
    BY <2>1, IdleType DEF Idle
  <2>2. CASE phase # "idle"
    <3>1. phase \in Phase /\ u = [task[s] EXCEPT !.at = phase]
      BY <2>2, NextPhases
    <3> HIDE DEF u
    <3> QED
      BY <1>2, <3>1, AtType
  <2> QED
    BY <2>1, <2>2
<1>4. task' = [task EXCEPT ![s] = u]
  BY DEF Goto, Continue
<1> HIDE DEF u
<1>5. Sound(u, approvals')
  BY <1>3, NotHoldingSound, NextPhases
<1> QED
  BY <1>3, <1>4, <1>5, StepIInv

\* The decision of approve and reject: a new copy.
LEMMA DecidedStep ==
    ASSUME IInv, NEW s \in Request, NEW phase \in {"next", "save"},
           NEW e \in Bulletins, Decided(s, phase, e), task[s].at \in {"step", "next"},
           phase = "next" => task[s].op = "approve" /\ e.status = "PENDING",
           (phase = "save" /\ task[s].op = "approve")
              => e.status = "APPROVED" \/ (e.status = "PENDING" /\ e.step \in 2..Steps),
           task[s].op # "approve" => (e.status \in Public => approvals)
    PROVE  IInv'
<1> DEFINE t == [task[s] EXCEPT !.entity = e]
<1>1. task[s] \in TaskRecord(lastHistory) /\ Sound(task[s], approvals)
  BY TaskInv
<1>2. t \in TaskRecord(lastHistory) /\ t.entity = e /\ t.op = task[s].op
  BY <1>1 DEF TaskRecord
<1>3. Continue(s, phase, t) /\ UNCHANGED <<table, bounds, ghosts>> /\ phase \in Phase
  BY NextPhases DEF Decided
<1> HIDE DEF t
<1>4. Sound([t EXCEPT !.at = phase], approvals)
  BY <1>2, <1>3, AtType DEF Sound, Saving
<1>5. requests' \in Nat /\ failures' \in Nat
  BY <1>3 DEF bounds, IInv, TypeOK
<1> QED
  BY <1>2, <1>3, <1>4, <1>5, PrivateStep

LEMMA ReadStepStep ==
    ASSUME IInv, NEW s \in Request, ReadStep(s) \/ ReadNext(s)
    PROVE  IInv'
<1> DEFINE e == EntityOf(s)
<1>1. task[s] \in TaskRecord(lastHistory) /\ Sound(task[s], approvals)
  BY TaskInv
<1>2. e \in Bulletins /\ task[s].at \in {"step", "next"}
  BY <1>1 DEF ReadStep, ReadNext, At, EntityOf, Sound, Holding
<1>3. /\ task[s].at = "next" => task[s].op = "approve"
      /\ task[s].op = "approve" => e.status = "PENDING"
      /\ task[s].op # "approve" => (e.status \in Public => approvals)
  BY <1>1, <1>2 DEF Sound, EntityOf, Holding
<1>4. Approved(s) \in Bulletins /\ Approved(s).status = "APPROVED"
  BY <1>2 DEF Approved, Bulletins, Status
<1>5. CASE ReadStep(s)
  <2>1. \/ task[s].op = "reject" /\ Decided(s, "save", e)
        \/ task[s].op = "approve" /\ Decided(s, "next", e)
        \/ task[s].op = "approve" /\ Decided(s, "save", Approved(s))
    BY <1>5 DEF ReadStep
  <2> HIDE DEF e
  <2> QED
    BY <1>2, <1>3, <1>4, <2>1, DecidedStep
<1>6. CASE ReadNext(s)
  <2> DEFINE f == [e EXCEPT !.step = @ + 1]
  <2>1. task[s].op = "approve"
    BY <1>3, <1>6 DEF ReadNext, At
  <2>2. CASE HasNext(s)
    <3>1. Decided(s, "save", f)
      BY <1>6, <2>2 DEF ReadNext
    <3>2. e.step + 1 \in 1..Steps /\ e.step \in 1..Steps
      BY <1>2, <2>2, BulletinFields DEF HasNext, IInv, TypeOK
    <3>3. f \in Bulletins /\ f.status = e.status /\ f.step = e.step + 1
      BY <1>2, <3>2 DEF Bulletins
    <3> HIDE DEF e, f
    <3>4. f.step \in 2..Steps /\ f.status = "PENDING"
      BY <1>3, <2>1, <3>2, <3>3, BulletinAssumption
    <3> QED
      BY <1>2, <2>1, <3>1, <3>3, <3>4, DecidedStep
  <2>3. CASE ~HasNext(s)
    <3>1. Decided(s, "save", Approved(s))
      BY <1>6, <2>3 DEF ReadNext
    <3> QED
      BY <1>2, <1>4, <2>1, <3>1, DecidedStep
  <2> QED
    BY <2>2, <2>3
<1> QED
  BY <1>5, <1>6

LEMMA SelectForSaveStep ==
    ASSUME IInv, NEW s \in Request, SelectForSave(s)
    PROVE  IInv'
<1>1. task[s] \in TaskRecord(lastHistory) /\ Sound(task[s], approvals)
      /\ (row # NoRow => row \in Bulletins)
  BY TaskInv
<1>2. task[s].at = "save" /\ UNCHANGED <<table, bounds, ghosts>>
  BY DEF SelectForSave, At
<1>3. requests' \in Nat /\ failures' \in Nat
  BY <1>2 DEF bounds, IInv, TypeOK
<1>4. PICK phase \in {"insert", "idle", "write", "log"}, t \in TaskRecord(lastHistory) :
        /\ Continue(s, phase, t)
        /\ t.op = task[s].op /\ t.entity = task[s].entity
  <2>1. CASE row = NoRow
    BY <1>1, <2>1 DEF SelectForSave, Goto
  <2>2. CASE row # NoRow /\ IsStale(s)
    BY <1>1, <2>2 DEF SelectForSave, Goto
  <2>3. CASE row # NoRow /\ ~IsStale(s)
    <3> DEFINE t == [task[s] EXCEPT !.columns = Differing(EntityOf(s), row)]
               phase == IF EntityOf(s) = row THEN AfterSave(s) ELSE "write"
    <3>1. Continue(s, phase, t)
      BY <2>3 DEF SelectForSave
    <3>2. Differing(EntityOf(s), row) \in SUBSET Columns
      BY <1>1, <2>3, DifferingType
    <3>3. t \in TaskRecord(lastHistory) /\ t.op = task[s].op /\ t.entity = task[s].entity
      BY <1>1, <3>2 DEF TaskRecord
    <3>4. phase \in {"insert", "idle", "write", "log"}
      BY AfterSaveType
    <3> QED
      BY <3>1, <3>3, <3>4
  <2> QED
    BY <2>1, <2>2, <2>3
<1>5. phase \in Phase
  BY NextPhases
<1>6. Sound([t EXCEPT !.at = phase], approvals)
  BY <1>1, <1>2, <1>4, <1>5, AtType DEF Sound, Saving, Holding
<1> QED
  BY <1>2, <1>3, <1>4, <1>5, <1>6, PrivateStep

\* UPDATE and INSERT: what becomes public was approved.
LEMMA WriteStep ==
    ASSUME IInv, NEW s \in Request, Write(s) \/ Insert(s)
    PROVE  IInv'
<1>1. task[s] \in TaskRecord(lastHistory) /\ Sound(task[s], approvals)
      /\ (row # NoRow => row \in Bulletins)
  BY TaskInv
<1>2. task[s].at \in {"write", "insert"}
      /\ UNCHANGED <<histories, lastHistory, configured, bounds>>
  BY DEF Write, Insert, At
<1>3. EntityOf(s) \in Bulletins
      /\ (task[s].op = "approve" \/ EntityOf(s).status \notin Public \/ approvals)
  BY <1>1, <1>2 DEF Sound, Holding, EntityOf
<1>4. task[s].op = "approve" => StepOf(EntityOf(s)) \in 1..Steps
  <2>1. EntityOf(s).step \in 1..Steps
    BY <1>3, BulletinFields
  <2>2. task[s].op = "approve" =>
          \/ EntityOf(s).status = "PENDING" /\ EntityOf(s).step \in 2..Steps
          \/ EntityOf(s).status = "APPROVED"
    BY <1>1, <1>2 DEF Sound, Saving, EntityOf
  <2> QED
    BY <2>1, <2>2, BulletinAssumption DEF StepOf
<1>5. /\ histories' \subseteq 1..lastHistory' /\ lastHistory' \in {lastHistory, lastHistory + 1}
      /\ configured' \subseteq 1..Steps /\ requests' \in Nat /\ failures' \in Nat
  BY <1>2 DEF bounds, IInv, TypeOK
<1>6. /\ approvals \in BOOLEAN /\ signed \subseteq 1..Steps /\ kept \subseteq 1..Steps
      /\ row \in Bulletins \cup {NoRow}
      /\ (row # NoRow /\ row.status \in Public) => approvals
  BY DEF IInv, TypeOK, PublicApproved
<1>7. /\ row' \in Bulletins \cup {NoRow}
      /\ PublicApproved' /\ approvals' \in BOOLEAN /\ (approvals => approvals')
      /\ signed' \subseteq 1..Steps /\ kept' \subseteq 1..Steps
      /\ \E phase \in {"idle", "log", "dropRow"} : Goto(s, phase)
  <2>1. CASE Write(s) /\ row = NoRow
    <3>1. UNCHANGED <<row, signed, kept, approvals>> /\ Goto(s, AfterSave(s))
      BY <2>1 DEF Write, ghosts
    <3> QED
      BY <1>6, <3>1, AfterSaveType DEF PublicApproved
  <2>2. CASE Write(s) /\ row # NoRow
    <3>1. /\ row' = Updated(row, EntityOf(s), task[s].columns)
          /\ signed' = SignedAfter(s, row')
          /\ approvals' = (approvals \/ task[s].op = "approve")
          /\ Goto(s, AfterSave(s))
      BY <2>2 DEF Write
    <3>2. row' \in Bulletins /\ row'.status \in {row.status, EntityOf(s).status}
      BY <1>1, <1>3, <2>2, <3>1, UpdatedType
    <3>3. signed' \subseteq 1..Steps /\ kept' \subseteq 1..Steps
      BY <1>4, <1>6, <2>2, <3>1 DEF SignedAfter, Write, IInv, TypeOK
    <3>4. approvals' \in BOOLEAN /\ (approvals => approvals')
      BY <3>1, Zenon
    <3>5. row'.status \in Public => approvals'
      <4>1. row'.status \in Public => approvals \/ task[s].op = "approve"
        BY <1>3, <1>6, <2>2, <3>2
      <4> QED
        BY <4>1, <3>1, Zenon
    <3> QED
      BY <3>1, <3>2, <3>3, <3>4, <3>5, AfterSaveType DEF PublicApproved
  <2>3. CASE Insert(s) /\ row = NoRow
    <3>0. NoRow \notin Bulletins /\ ~(row # NoRow)
      BY <2>3, NoRowIsNoBulletin
    <3>1. /\ row' = EntityOf(s) /\ signed' = signed /\ kept' = kept
          /\ approvals' = (approvals \/ task[s].op = "approve")
          /\ Goto(s, AfterSave(s))
      BY <2>3, <3>0, Zenon DEF Insert
    <3>4. approvals' \in BOOLEAN /\ (approvals => approvals')
      BY <3>1, Zenon
    <3>5. row'.status \in Public => approvals'
      <4>1. row'.status \in Public => approvals \/ task[s].op = "approve"
        BY <1>3, <3>1
      <4> QED
        BY <4>1, <3>1, Zenon
    <3> QED
      BY <1>3, <1>6, <3>1, <3>4, <3>5, AfterSaveType DEF PublicApproved
  <2>4. CASE Insert(s) /\ row # NoRow
    <3>1. UNCHANGED <<row, approvals, signed, kept>> /\ Goto(s, "idle")
      BY <2>4 DEF Insert
    <3> QED
      BY <1>6, <3>1 DEF PublicApproved
  <2> QED
    BY <2>1, <2>2, <2>3, <2>4
<1> QED
  BY <1>5, <1>7, GotoStep

LEMMA ProgressStep ==
    ASSUME IInv, NEW s \in Request, Progress(s)
    PROVE  IInv'
<1>i. /\ row \in Bulletins \cup {NoRow} /\ PublicApproved
      /\ histories \subseteq 1..lastHistory /\ lastHistory \in Nat
      /\ configured \subseteq 1..Steps /\ requests \in Nat /\ failures \in Nat
      /\ signed \subseteq 1..Steps /\ kept \subseteq 1..Steps /\ approvals \in BOOLEAN
  BY DEF IInv, TypeOK
<1>1. CASE ReadStep(s) \/ ReadNext(s)
  BY <1>1, ReadStepStep
<1>2. CASE SelectForSave(s)
  BY <1>2, SelectForSaveStep
<1>3. CASE Write(s) \/ Insert(s)
  BY <1>3, WriteStep
<1>4. CASE AddSteps(s)
  <2>1. /\ Goto(s, "idle")
        /\ UNCHANGED <<row, histories, lastHistory, requests, failures, signed, approvals>>
    BY <1>4 DEF AddSteps, bounds
  <2>2. PublicApproved' /\ configured' \subseteq 1..Steps /\ kept' \subseteq 1..Steps
    BY <1>4, <1>i, <2>1 DEF AddSteps, PublicApproved
  <2> QED
    BY <1>i, <2>1, <2>2, GotoStep
<1>5. CASE LogHistory(s)
  <2>1. /\ Goto(s, "idle") /\ lastHistory' = lastHistory + 1
        /\ histories' = histories \cup {lastHistory + 1}
        /\ UNCHANGED <<row, configured, requests, failures, signed, kept, approvals>>
    BY <1>5 DEF LogHistory, bounds, ghosts
  <2>2. PublicApproved' /\ histories' \subseteq 1..lastHistory'
    BY <1>i, <2>1 DEF PublicApproved
  <2> QED
    BY <1>i, <2>1, <2>2, GotoStep
<1>6. CASE DropHistories(s)
  <2>1. /\ Goto(s, "dropRow") /\ histories' = {}
        /\ UNCHANGED <<row, lastHistory, configured, requests, failures, signed, kept, approvals>>
    BY <1>6 DEF DropHistories, bounds, ghosts
  <2>2. PublicApproved'
    BY <1>i, <2>1 DEF PublicApproved
  <2> QED
    BY <1>i, <2>1, <2>2, GotoStep
<1>7. CASE DropRow(s)
  <2>1. /\ Goto(s, "idle") /\ row' = NoRow
        /\ UNCHANGED <<histories, lastHistory, configured, requests, failures, signed, kept, approvals>>
    BY <1>7 DEF DropRow, bounds, ghosts
  <2>2. PublicApproved'
    BY <2>1 DEF PublicApproved
  <2> QED
    BY <1>i, <2>1, <2>2, GotoStep
<1> QED
  BY <1>1, <1>2, <1>3, <1>4, <1>5, <1>6, <1>7 DEF Progress

LEMMA InitIInv == Init => IInv
<1> SUFFICES ASSUME Init PROVE IInv
  OBVIOUS
<1>1. row \in Bulletins /\ row.status = "DRAFT"
  BY BulletinAssumption DEF Init, Bulletins, Status
<1>2. \A s \in Request : task[s] = Idle /\ task[s] \in TaskRecord(0)
  BY IdleType DEF Init
<1>3. TypeOK
  <2>1. task \in [Request -> TaskRecord(lastHistory)]
    BY <1>2 DEF Init
  <2>2. \A s \in Request : task[s].at \notin Holding
    BY <1>2 DEF Idle, Holding
  <2> QED
    BY <1>1, <2>1, <2>2 DEF Init, TypeOK, TaskRecord, Columns, Holding
<1>4. TasksSound
  BY <1>2, IdleSound DEF TasksSound
<1>5. PublicApproved
  BY <1>1 DEF PublicApproved, Public
<1> QED
  BY <1>3, <1>4, <1>5 DEF IInv

LEMMA NextIInv == IInv /\ [Next]_vars => IInv'
<1> SUFFICES ASSUME IInv, [Next]_vars PROVE IInv'
  OBVIOUS
<1>1. ASSUME NEW s \in Request, Arrival(s) \/ Progress(s) PROVE IInv'
  BY <1>1, ArrivalStep, ProgressStep
<1>2. ASSUME NEW s \in Request, Fail(s) PROVE IInv'
  <2>1. /\ Goto(s, "idle") /\ failures' = failures + 1
        /\ UNCHANGED <<row, histories, lastHistory, configured, requests, signed, kept, approvals>>
    BY <1>2 DEF Fail, table, ghosts
  <2>2. PublicApproved'
    BY <2>1 DEF IInv, PublicApproved
  <2>3. /\ row' \in Bulletins \cup {NoRow}
        /\ histories' \subseteq 1..lastHistory' /\ lastHistory' \in {lastHistory, lastHistory + 1}
        /\ configured' \subseteq 1..Steps /\ requests' \in Nat /\ failures' \in Nat
        /\ signed' \subseteq 1..Steps /\ kept' \subseteq 1..Steps
    BY <2>1 DEF IInv, TypeOK
  <2>4. approvals' \in BOOLEAN /\ (approvals => approvals')
    BY <2>1 DEF IInv, TypeOK
  <2> QED
    BY <2>1, <2>2, <2>3, <2>4, GotoStep
<1>3. CASE UNCHANGED vars
  BY <1>3 DEF vars, table, bounds, ghosts, IInv, TypeOK, TasksSound, Sound, PublicApproved, EntityOf
<1> QED
  BY <1>1, <1>2, <1>3 DEF Next, Quiescent

----------------------------------------------------------------------------

\* The bulletin, its history and the requests have the types they should have,
\* whatever runs beside what and whatever fails.
THEOREM TypeCorrect == Spec => []TypeOK
<1>1. IInv => TypeOK
  BY DEF IInv
<1> QED
  BY InitIInv, NextIInv, <1>1, PTL DEF Spec

\* approve, publish and every save of a stale copy: however the handlers
\* interleave and whatever fails, a bulletin is never published that nobody
\* ever approved.
THEOREM PublishedWasApproved == Spec => []NothingUnapproved
<1>1. IInv => NothingUnapproved
  BY DEF IInv, PublicApproved, NothingUnapproved, Public
<1> QED
  BY InitIInv, NextIInv, <1>1, PTL DEF Spec

----------------------------------------------------------------------------
(* One request at a time.  As long as nothing overlaps and no statement    *)
(* fails, the copy a handler saves is the row it read with the change its  *)
(* operation makes, and a step is counted as approved when it is passed.   *)

\* The bulletin is past a step only when the step approved this content.
RowSound(r, s, k) ==
    r # NoRow =>
        /\ r.status = "PENDING" => 1..(r.step - 1) \subseteq s
        /\ r.status \in Public =>
              \A n \in 1..Steps : (n <= r.step \/ 1..n \subseteq k) => n \in s

\* No step that the workflow kept, with all before it, comes after this one.
LastKept(step, k) == \A n \in 1..Steps : 1..n \subseteq k => n <= step

\* How the copy e differs from the row r.
Changes(t, e, r, k) ==
    \/ t.op = "update" /\ r.status \in Editable /\ e.status = r.status
    \/ t.op = "submit" /\ e.status = "PENDING" /\ e.step = 1
    \/ t.op = "reject" /\ e.status = "REJECTED"
    \/ t.op = "view" /\ e.status = r.status /\ e.step = r.step /\ e.content = r.content
    \/ /\ t.op \in {"publish", "unpublish"}
       /\ r.status \in Public /\ e.status \in Public
       /\ e.content = r.content /\ e.step = r.step
    \/ /\ t.op = "approve" /\ r.status = "PENDING" /\ e.content = r.content
       /\ \/ t.at \in {"step", "next"} /\ e.step = r.step
          \/ t.at \notin {"step", "next"} /\ e.status = "PENDING" /\ e.step = r.step + 1
          \/ /\ t.at \notin {"step", "next"}
             /\ e.status = "APPROVED" /\ e.step = r.step /\ LastKept(r.step, k)

Follows(t, r, k) ==
    /\ t.at # "insert"
    /\ t.at \in Holding => r # NoRow /\ Changes(t, t.entity, r, k)
    /\ t.at = "write" => t.columns = Differing(t.entity, r)

TurnInv ==
    (~overlapped /\ failures = 0) =>
        /\ ~Overlapping /\ RowSound(row, signed, kept)
        /\ kept \subseteq configured \/ \E s \in Request : At(s, "addSteps")
        /\ \A s \in Request : Follows(task[s], row, kept)

----------------------------------------------------------------------------

\* A request at work is alone, and what the workflow kept is in the table
\* unless it is the one that deleted the steps.
LEMMA Alone ==
    ASSUME IInv, TurnInv, ~overlapped, failures = 0, ~Overlapping',
           NEW s \in Request, NEW t, task' = [task EXCEPT ![s] = t],
           task[s].at # "idle" \/ t.at # "idle"
    PROVE  /\ \A q \in Request \ {s} : task'[q] = task[q] /\ task[q].at = "idle"
           /\ task'[s] = t
           /\ task[s].at # "addSteps" => kept \subseteq configured
<1>1. task'[s] = t /\ \A q \in Request \ {s} : task'[q] = task[q]
  BY DEF IInv, TypeOK
<1>2. ASSUME NEW q \in Request \ {s} PROVE task[q].at = "idle"
  <2>1. CASE task[s].at # "idle"
    BY <2>1 DEF TurnInv, Overlapping, At
  <2>2. CASE t.at # "idle"
    BY <1>1, <2>2 DEF Overlapping, At
  <2> QED
    BY <2>1, <2>2
<1>3. task[s].at # "addSteps" => kept \subseteq configured
  BY <1>2 DEF TurnInv, At
<1> QED
  BY <1>1, <1>2, <1>3

\* It is enough to look at the request that acts.
LEMMA AloneStep ==
    ASSUME IInv, TurnInv, ~overlapped, failures = 0, ~Overlapping',
           NEW s \in Request, NEW t, task' = [task EXCEPT ![s] = t],
           task[s].at # "idle" \/ t.at # "idle",
           RowSound(row', signed', kept'), Follows(t, row', kept'),
           kept' \subseteq configured' \/ t.at = "addSteps"
    PROVE  TurnInv'
<1>1. /\ \A q \in Request \ {s} : task'[q].at = "idle"
      /\ task'[s] = t
  BY Alone
<1>2. \A q \in Request : Follows(task'[q], row', kept')
  BY <1>1 DEF Follows, Holding
<1>3. kept' \subseteq configured' \/ \E q \in Request : At(q, "addSteps")'
  BY <1>1 DEF At
<1> QED
  BY <1>2, <1>3 DEF TurnInv

\* A request begins.
LEMMA BeginTurn ==
    ASSUME IInv, TurnInv, ~overlapped, failures = 0, ~Overlapping',
           NEW s \in Request, NEW o, NEW e \in Bulletins,
           NEW phase \in {"step", "save", "dropHistories"}, Begin(s, o, phase, e),
           o \in Operation, row # NoRow,
           phase = "dropHistories"
              \/ \A t : (t.op = o /\ t.at = phase) => Changes(t, e, row, kept)
    PROVE  TurnInv'
<1> DEFINE t == [Idle EXCEPT !.op = o, !.entity = e, !.loaded = histories]
           u == [t EXCEPT !.at = phase]
<1>1. t \in TaskRecord(lastHistory) /\ t.op = o /\ t.entity = e
  BY TaskInv, IdleType DEF TaskRecord
<1>2. phase \in Phase /\ phase # "idle"
  BY DEF Phase
<1>3. task' = [task EXCEPT ![s] = u] /\ UNCHANGED <<row, signed, kept, configured>>
      /\ task[s].at = "idle"
  BY <1>2 DEF Begin, Continue, table, ghosts, At
<1> HIDE DEF t
<1>4. u.at = phase /\ u.op = o /\ u.entity = e
  BY <1>1, <1>2, AtType
<1> HIDE DEF u
<1>5. Follows(u, row, kept)
  BY <1>4 DEF Follows, Holding
<1>6. kept \subseteq configured
  BY <1>2, <1>3, <1>4, Alone
<1> QED
  BY <1>2, <1>3, <1>4, <1>5, <1>6, AloneStep DEF TurnInv

LEMMA ArrivalTurn ==
    ASSUME IInv, TurnInv, ~overlapped, failures = 0, ~Overlapping',
           NEW s \in Request, Arrival(s)
    PROVE  TurnInv'
<1>r. row # NoRow => row \in Bulletins
  BY TaskInv
<1>o. {"update", "submit", "approve", "reject", "publish", "unpublish", "view",
       "delete", "workflow"} \subseteq Operation
  BY DEF Operation
<1>1. CASE Update(s)
  <2>1. PICK c \in Contents :
          /\ row # NoRow /\ row.status \in Editable
          /\ Begin(s, "update", "save", [row EXCEPT !.content = c])
    BY <1>1 DEF Update
  <2> DEFINE e == [row EXCEPT !.content = c]
  <2>2. e \in Bulletins /\ e.status = row.status
    BY <1>r, <2>1 DEF Bulletins
  <2> HIDE DEF e
  <2>3. \A t : (t.op = "update" /\ t.at = "save") => Changes(t, e, row, kept)
    BY <2>1, <2>2 DEF Changes
  <2> QED
    BY <1>o, <2>1, <2>2, <2>3, BeginTurn DEF e
<1>2. CASE Submit(s)
  <2> DEFINE e == [row EXCEPT !.status = "PENDING", !.step = 1]
  <2>1. row # NoRow /\ row \in Bulletins /\ "PENDING" \in Status /\ 1 \in 1..Steps
    BY <1>r, <1>2, BulletinAssumption DEF Submit, Status
  <2>2. e \in Bulletins /\ e.status = "PENDING" /\ e.step = 1
    BY <2>1 DEF Bulletins
  <2>3. Begin(s, "submit", "save", e)
    BY <1>2 DEF Submit
  <2> HIDE DEF e
  <2>4. \A t : (t.op = "submit" /\ t.at = "save") => Changes(t, e, row, kept)
    BY <2>2 DEF Changes
  <2> QED
    BY <1>o, <2>1, <2>2, <2>3, <2>4, BeginTurn
<1>3. CASE Approve(s)
  <2>1. row # NoRow /\ row.status = "PENDING" /\ Begin(s, "approve", "step", row)
    BY <1>3 DEF Approve
  <2>2. \A t : (t.op = "approve" /\ t.at = "step") => Changes(t, row, row, kept)
    BY <2>1 DEF Changes
  <2> QED
    BY <1>o, <1>r, <2>1, <2>2, BeginTurn
<1>4. CASE Reject(s)
  <2> DEFINE e == [row EXCEPT !.status = "REJECTED"]
  <2>1. row # NoRow /\ e \in Bulletins /\ e.status = "REJECTED"
    BY <1>r, <1>4 DEF Reject, Bulletins, Status
  <2>2. Begin(s, "reject", "step", e)
    BY <1>4 DEF Reject
  <2> HIDE DEF e
  <2>3. \A t : (t.op = "reject" /\ t.at = "step") => Changes(t, e, row, kept)
    BY <2>1 DEF Changes
  <2> QED
    BY <1>o, <2>1, <2>2, <2>3, BeginTurn
<1>5. CASE Publish(s) \/ Unpublish(s)
  <2>1. PICK o \in {"publish", "unpublish"}, x \in Public :
          /\ row # NoRow /\ row.status \in Public
          /\ Begin(s, o, "save", [row EXCEPT !.status = x])
    BY <1>5 DEF Publish, Unpublish, Public
  <2> DEFINE e == [row EXCEPT !.status = x]
  <2>2. e \in Bulletins /\ e.status \in Public /\ e.content = row.content /\ e.step = row.step
    <3>1. row \in Bulletins /\ x \in Status
      BY <1>r, <2>1 DEF Public, Status
    <3> QED
      BY <3>1 DEF Bulletins
  <2> HIDE DEF e
  <2>3. \A t : (t.op = o /\ t.at = "save") => Changes(t, e, row, kept)
    BY <2>1, <2>2 DEF Changes
  <2> QED
    BY <1>o, <2>1, <2>2, <2>3, BeginTurn DEF e
<1>6. CASE View(s)
  <2> DEFINE e == [row EXCEPT !.views = @ + 1]
  <2>1. /\ row # NoRow /\ e \in Bulletins
        /\ e.status = row.status /\ e.step = row.step /\ e.content = row.content
    BY <1>r, <1>6 DEF View, Bulletins
  <2>2. Begin(s, "view", "save", e)
    BY <1>6 DEF View
  <2> HIDE DEF e
  <2>3. \A t : (t.op = "view" /\ t.at = "save") => Changes(t, e, row, kept)
    BY <2>1 DEF Changes
  <2> QED
    BY <1>o, <2>1, <2>2, <2>3, BeginTurn
<1>7. CASE Delete(s)
  <2>1. row # NoRow /\ Begin(s, "delete", "dropHistories", row)
    BY <1>7 DEF Delete
  <2> QED
    BY <1>o, <1>r, <2>1, BeginTurn
<1>8. CASE DeleteSteps(s)
  <2> DEFINE t == [Idle EXCEPT !.op = "workflow"]
             u == [t EXCEPT !.at = "addSteps"]
  <2>1. t \in TaskRecord(lastHistory)
    BY <1>o, IdleType DEF TaskRecord
  <2>2. u.at = "addSteps"
    BY <2>1, AtType DEF Phase
  <2>3. task' = [task EXCEPT ![s] = u] /\ UNCHANGED <<row, signed, kept>>
    BY <1>8 DEF DeleteSteps, Continue, ghosts
  <2> HIDE DEF u, t
  <2>4. Follows(u, row, kept)
    BY <2>2 DEF Follows, Holding
  <2> QED
    BY <2>2, <2>3, <2>4, AloneStep DEF TurnInv
<1> QED
  BY <1>1, <1>2, <1>3, <1>4, <1>5, <1>6, <1>7, <1>8 DEF Arrival

\* A request at work goes on without a copy, or is over.
LEMMA GotoTurn ==
    ASSUME IInv, TurnInv, ~overlapped, failures = 0, ~Overlapping',
           NEW s \in Request, NEW phase \in {"idle", "log", "dropRow"},
           task[s].at # "idle", Goto(s, phase),
           RowSound(row', signed', kept'),
           \/ kept' \subseteq configured'
           \/ task[s].at # "addSteps" /\ UNCHANGED <<kept, configured>>
    PROVE  TurnInv'
<1> DEFINE u == IF phase = "idle" THEN Idle ELSE [task[s] EXCEPT !.at = phase]
<1>1. u.at \in {"idle", "log", "dropRow"}
  <2>1. CASE phase = "idle"
    BY <2>1 DEF Idle
  <2>2. CASE phase # "idle"
    <3>1. phase \in Phase /\ u = [task[s] EXCEPT !.at = phase]
      BY <2>2, NextPhases
    <3>2. task[s] \in TaskRecord(lastHistory)
      BY TaskInv
    <3> HIDE DEF u
    <3> QED
      BY <3>1, <3>2, AtType
  <2> QED
    BY <2>1, <2>2
<1>2. task' = [task EXCEPT ![s] = u]
  BY DEF Goto, Continue
<1> HIDE DEF u
<1>3. Follows(u, row', kept')
  BY <1>1 DEF Follows, Holding
<1>4. kept' \subseteq configured'
  BY <1>2, Alone
<1> QED
  BY <1>1, <1>2, <1>3, <1>4, AloneStep

LEMMA ReadStepTurn ==
    ASSUME IInv, TurnInv, ~overlapped, failures = 0, ~Overlapping',
           NEW s \in Request, ReadStep(s) \/ ReadNext(s)
    PROVE  TurnInv'
<1> DEFINE e == EntityOf(s)
<1>1. /\ task[s] \in TaskRecord(lastHistory) /\ Sound(task[s], approvals)
      /\ row # NoRow => row \in Bulletins
  BY TaskInv
<1>2. e \in Bulletins /\ task[s].at \in {"step", "next"}
  BY <1>1 DEF ReadStep, ReadNext, At, EntityOf, Sound, Holding
<1>3. row # NoRow /\ row \in Bulletins /\ Changes(task[s], e, row, kept) /\ RowSound(row, signed, kept)
  BY <1>1, <1>2 DEF TurnInv, Follows, Holding, EntityOf
<1>4. e.status \in Status /\ e.step \in 1..Steps /\ row.step \in 1..Steps
  BY <1>2, <1>3, BulletinFields
<1>5. /\ Approved(s) \in Bulletins /\ Approved(s).status = "APPROVED"
      /\ Approved(s).step = e.step /\ Approved(s).content = e.content
  BY <1>2 DEF Approved, Bulletins, Status
\* Whatever copy the decision leaves, the table has not changed.
<1>6. ASSUME NEW phase \in {"next", "save"}, NEW f \in Bulletins, Decided(s, phase, f),
             kept \subseteq configured => \A t : (t.op = task[s].op /\ t.at = phase) => Changes(t, f, row, kept)
      PROVE  TurnInv'
  <2> DEFINE t == [task[s] EXCEPT !.entity = f]
             u == [t EXCEPT !.at = phase]
  <2>1. t \in TaskRecord(lastHistory) /\ t.entity = f /\ t.op = task[s].op
    BY <1>1 DEF TaskRecord
  <2>2. task' = [task EXCEPT ![s] = u] /\ UNCHANGED <<row, signed, kept, configured>>
    BY <1>6 DEF Decided, Continue, table, ghosts
  <2> HIDE DEF t
  <2>3. u.at = phase /\ u.op = task[s].op /\ u.entity = f
    BY <2>1, AtType, NextPhases
  <2> HIDE DEF u
  <2>4. kept \subseteq configured
    BY <1>2, <2>2, Alone
  <2>5. Follows(u, row, kept)
    BY <1>3, <1>6, <2>3, <2>4 DEF Follows
  <2> QED
    BY <1>2, <1>3, <2>2, <2>3, <2>4, <2>5, AloneStep
<1>7. CASE ReadStep(s)
  <2>0. task[s].at = "step"
    BY <1>7 DEF ReadStep, At
  <2>1. CASE task[s].op = "reject" /\ Decided(s, "save", e)
    <3>1. \A t : (t.op = "reject" /\ t.at = "save") => Changes(t, e, row, kept)
      BY <1>3, <2>1 DEF Changes
    <3> HIDE DEF e
    <3> QED
      BY <1>2, <1>6, <2>1, <3>1
  <2>2. CASE task[s].op = "approve" /\ Decided(s, "next", e)
    <3>1. \A t : (t.op = "approve" /\ t.at = "next") => Changes(t, e, row, kept)
      BY <1>3, <2>0, <2>2 DEF Changes
    <3> HIDE DEF e
    <3> QED
      BY <1>2, <1>6, <2>2, <3>1
  <2>3. CASE /\ task[s].op = "approve" /\ e.step \notin configured
             /\ Decided(s, "save", Approved(s))
    <3>1. row.status = "PENDING" /\ e.content = row.content /\ e.step = row.step
      BY <1>3, <2>0, <2>3 DEF Changes
    <3>2. kept \subseteq configured => LastKept(row.step, kept)
      <4>1. ASSUME NEW n \in 1..Steps, 1..n \subseteq kept, kept \subseteq configured
            PROVE  n <= row.step
        BY <1>4, <2>3, <3>1, <4>1, BulletinAssumption
      <4> QED
        BY <4>1 DEF LastKept
    <3> HIDE DEF e
    <3>3. kept \subseteq configured =>
            \A t : (t.op = task[s].op /\ t.at = "save") => Changes(t, Approved(s), row, kept)
      BY <1>5, <2>3, <3>1, <3>2 DEF Changes
    <3> QED
      BY <1>5, <1>6, <2>3, <3>3
  <2> QED
    BY <1>7, <2>1, <2>2, <2>3 DEF ReadStep
<1>8. CASE ReadNext(s)
  <2> DEFINE f == [e EXCEPT !.step = @ + 1]
  <2>1. /\ task[s].op = "approve" /\ e.status = "PENDING"
        /\ row.status = "PENDING" /\ e.content = row.content /\ e.step = row.step
    <3>1. task[s].at = "next" /\ task[s].op = "approve" /\ e.status = "PENDING"
      BY <1>1, <1>8 DEF ReadNext, At, Sound, EntityOf
    <3> QED
      BY <1>3, <3>1 DEF Changes
  <2>2. CASE HasNext(s)
    <3>1. Decided(s, "save", f)
      BY <1>8, <2>2 DEF ReadNext
    <3>2. e.step + 1 \in 1..Steps
      BY <2>2 DEF HasNext, IInv, TypeOK
    <3>3. f \in Bulletins /\ f.status = e.status /\ f.step = e.step + 1 /\ f.content = e.content
      BY <1>2, <3>2 DEF Bulletins
    <3> HIDE DEF e, f
    <3>4. \A t : (t.op = task[s].op /\ t.at = "save") => Changes(t, f, row, kept)
      BY <2>1, <3>3 DEF Changes
    <3> QED
      BY <1>6, <3>1, <3>3, <3>4
  <2>3. CASE ~HasNext(s)
    <3>1. Decided(s, "save", Approved(s))
      BY <1>8, <2>3 DEF ReadNext
    <3>2. kept \subseteq configured => LastKept(row.step, kept)
      <4>1. row.step + 1 \notin configured
        BY <2>1, <2>3 DEF HasNext
      <4>2. ASSUME NEW n \in 1..Steps, 1..n \subseteq kept, kept \subseteq configured
            PROVE  n <= row.step
        BY <1>4, <4>1, <4>2, BulletinAssumption
      <4> QED
        BY <4>2 DEF LastKept
    <3> HIDE DEF e
    <3>3. kept \subseteq configured => \A t : (t.op = task[s].op /\ t.at = "save") => Changes(t, Approved(s), row, kept)
      BY <1>5, <2>1, <3>2 DEF Changes
    <3> QED
      BY <1>5, <1>6, <3>1, <3>3
  <2> QED
    BY <2>2, <2>3
<1> QED
  BY <1>7, <1>8

LEMMA SelectForSaveTurn ==
    ASSUME IInv, TurnInv, ~overlapped, failures = 0, ~Overlapping',
           NEW s \in Request, SelectForSave(s)
    PROVE  TurnInv'
<1>1. /\ task[s] \in TaskRecord(lastHistory)
      /\ row # NoRow => row \in Bulletins
  BY TaskInv
<1>2. task[s].at = "save" /\ UNCHANGED <<row, signed, kept, configured>>
  BY DEF SelectForSave, At, table, ghosts
<1>3. row # NoRow /\ row \in Bulletins /\ Changes(task[s], EntityOf(s), row, kept)
      /\ RowSound(row, signed, kept)
  BY <1>1, <1>2 DEF TurnInv, Follows, Holding, EntityOf
<1>4. CASE IsStale(s)
  <2>1. Goto(s, "idle")
    BY <1>3, <1>4 DEF SelectForSave
  <2> QED
    BY <1>2, <1>3, <2>1, GotoTurn
<1>5. CASE ~IsStale(s)
  <2> DEFINE t == [task[s] EXCEPT !.columns = Differing(EntityOf(s), row)]
             phase == IF EntityOf(s) = row THEN AfterSave(s) ELSE "write"
             u == IF phase = "idle" THEN Idle ELSE [t EXCEPT !.at = phase]
  <2>1. task' = [task EXCEPT ![s] = u]
    BY <1>3, <1>5 DEF SelectForSave, Continue
  <2>2. t \in TaskRecord(lastHistory) /\ t.entity = EntityOf(s) /\ t.op = task[s].op
        /\ t.columns = Differing(EntityOf(s), row)
    BY <1>1, <1>3, DifferingType DEF TaskRecord, EntityOf
  <2>3. phase \in {"idle", "log", "write"} /\ phase \in Phase
    BY AfterSaveType, NextPhases
  <2> HIDE DEF t, phase
  <2>4. CASE phase = "idle"
    <3>1. u.at = "idle"
      BY <2>4 DEF Idle
    <3> HIDE DEF u
    <3>2. Follows(u, row, kept)
      BY <3>1 DEF Follows, Holding
    <3>3. kept \subseteq configured
      BY <1>2, <2>1, Alone
    <3> QED
      BY <1>2, <1>3, <2>1, <3>2, <3>3, AloneStep
  <2>5. CASE phase # "idle"
    <3>1. u = [t EXCEPT !.at = phase]
      BY <2>5
    <3> HIDE DEF u
    <3>2. u.at = phase /\ u.op = t.op /\ u.entity = t.entity /\ u.columns = t.columns
      BY <2>2, <2>3, <3>1, AtType
    <3>3. u.at = "write" => Changes(u, u.entity, row, kept)
      BY <1>2, <1>3, <2>2, <3>2 DEF Changes
    <3>4. Follows(u, row, kept)
      BY <1>3, <2>2, <2>3, <3>2, <3>3 DEF Follows, Holding
    <3>5. kept \subseteq configured
      BY <1>2, <2>1, Alone
    <3> QED
      BY <1>2, <1>3, <2>1, <3>4, <3>5, AloneStep
  <2> QED
    BY <2>4, <2>5
<1> QED
  BY <1>4, <1>5

\* The row becomes the copy; what the copy is past is approved.
LEMMA WriteTurn ==
    ASSUME IInv, TurnInv, ~overlapped, failures = 0, ~Overlapping',
           NEW s \in Request, Write(s) \/ Insert(s)
    PROVE  TurnInv'
<1> DEFINE e == EntityOf(s)
<1>1. /\ task[s] \in TaskRecord(lastHistory) /\ Sound(task[s], approvals)
      /\ row # NoRow => row \in Bulletins
  BY TaskInv
<1>2. Write(s) /\ task[s].at = "write"
  <2>1. task[s].at # "insert"
    BY DEF TurnInv, Follows
  <2> QED
    BY <2>1 DEF Write, Insert, At
<1>3. /\ row # NoRow /\ row \in Bulletins /\ Changes(task[s], e, row, kept)
      /\ RowSound(row, signed, kept) /\ task[s].columns = Differing(e, row)
  BY <1>1, <1>2 DEF TurnInv, Follows, Holding, EntityOf
<1>4. e \in Bulletins
  BY <1>1, <1>2 DEF Sound, Holding, EntityOf
<1>5. /\ row' = Updated(row, e, task[s].columns) /\ signed' = SignedAfter(s, row')
      /\ kept' = IF task[s].op = "submit" THEN configured ELSE kept
      /\ Goto(s, AfterSave(s)) /\ configured' = configured
  BY <1>2, <1>3 DEF Write
<1>6. row' = e
  BY <1>3, <1>4, <1>5, UpdatedDiffering
<1>7. RowSound(e, signed', kept')
  <2>1. e.step \in 1..Steps /\ row.step \in 1..Steps /\ Steps \in Nat
    BY <1>3, <1>4, BulletinFields, BulletinAssumption
  <2>2. signed' = IF task[s].op = "submit" \/ e.content # row.content THEN {}
                  ELSE IF task[s].op = "approve" /\ e.content = row.content
                       THEN signed \cup {IF e.status = "APPROVED" THEN e.step ELSE e.step - 1}
                  ELSE signed
    BY <1>5, <1>6 DEF SignedAfter, StepOf
  <2>3. /\ row.status = "PENDING" => 1..(row.step - 1) \subseteq signed
        /\ row.status \in Public =>
              \A n \in 1..Steps : (n <= row.step \/ 1..n \subseteq kept) => n \in signed
    BY <1>3 DEF RowSound
  <2> HIDE DEF e
  <2>4. CASE task[s].op = "approve"
    <3>1. /\ row.status = "PENDING" /\ e.content = row.content
          /\ \/ e.status = "PENDING" /\ e.step = row.step + 1
             \/ e.status = "APPROVED" /\ e.step = row.step /\ LastKept(row.step, kept)
      BY <1>2, <1>3, <2>4 DEF Changes
    <3>2. CASE e.status = "PENDING" /\ e.step = row.step + 1
      <4>1. signed' = signed \cup {row.step}
        BY <2>1, <2>2, <2>4, <3>1, <3>2
      <4>2. 1..(e.step - 1) \subseteq signed'
        BY <2>1, <2>3, <3>1, <3>2, <4>1
      <4> QED
        BY <3>2, <4>2 DEF RowSound, Public
    <3>3. CASE e.status = "APPROVED" /\ e.step = row.step /\ LastKept(row.step, kept)
      <4>1. signed' = signed \cup {row.step} /\ kept' = kept
        BY <1>5, <2>1, <2>2, <2>4, <3>1, <3>3
      <4>2. 1..row.step \subseteq signed'
        BY <2>1, <2>3, <3>1, <4>1
      <4>3. ASSUME NEW n \in 1..Steps, n <= e.step \/ 1..n \subseteq kept'
            PROVE  n \in signed'
        <5>1. n <= row.step
          BY <3>3, <4>1, <4>3 DEF LastKept
        <5> QED
          BY <2>1, <4>2, <5>1
      <4> QED
        BY <3>3, <4>3 DEF RowSound, Public
    <3> QED
      BY <3>1, <3>2, <3>3
  <2>5. CASE task[s].op = "submit"
    <3>1. e.status = "PENDING" /\ e.step = 1
      BY <1>3, <2>5 DEF Changes
    <3> QED
      BY <3>1 DEF RowSound, Public
  <2>6. CASE task[s].op = "update" \/ task[s].op = "reject"
    <3>1. e.status \notin Public /\ e.status # "PENDING"
      BY <1>3, <2>6 DEF Changes, Public, Editable
    <3> QED
      BY <3>1 DEF RowSound
  <2>7. CASE task[s].op = "view"
    <3>1. e.status = row.status /\ e.step = row.step /\ e.content = row.content
      BY <1>3, <2>7 DEF Changes
    <3> QED
      BY <1>5, <2>2, <2>3, <2>7, <3>1 DEF RowSound
  <2>8. CASE task[s].op \in {"publish", "unpublish"}
    <3>1. /\ row.status \in Public /\ e.status \in Public
          /\ e.content = row.content /\ e.step = row.step
      BY <1>3, <2>8 DEF Changes
    <3> QED
      BY <1>5, <2>2, <2>3, <2>8, <3>1 DEF RowSound, Public
  <2> QED
    BY <1>3, <2>4, <2>5, <2>6, <2>7, <2>8 DEF Changes
<1> QED
  BY <1>2, <1>5, <1>6, <1>7, GotoTurn, AfterSaveType

LEMMA ProgressTurn ==
    ASSUME IInv, TurnInv, ~overlapped, failures = 0, ~Overlapping',
           NEW s \in Request, Progress(s)
    PROVE  TurnInv'
<1>r. RowSound(row, signed, kept)
  BY DEF TurnInv
<1>1. CASE ReadStep(s) \/ ReadNext(s)
  BY <1>1, ReadStepTurn
<1>2. CASE SelectForSave(s)
  BY <1>2, SelectForSaveTurn
<1>3. CASE Write(s) \/ Insert(s)
  BY <1>3, WriteTurn
<1>4. CASE AddSteps(s)
  <2>1. PICK S \in SUBSET (1..Steps) :
          /\ task[s].at = "addSteps" /\ Goto(s, "idle") /\ UNCHANGED <<row, signed>>
          /\ configured' = configured \cup S /\ kept' = kept \cap S
    BY <1>4 DEF AddSteps, At
  <2>2. RowSound(row', signed', kept')
    BY <1>r, <2>1 DEF RowSound
  <2> QED
    BY <2>1, <2>2, GotoTurn
<1>5. CASE LogHistory(s) \/ DropHistories(s)
  <2>1. /\ task[s].at \in {"log", "dropHistories"}
        /\ \E phase \in {"idle", "dropRow"} : Goto(s, phase)
        /\ UNCHANGED <<row, signed, kept, configured>>
    BY <1>5 DEF LogHistory, DropHistories, At, ghosts
  <2> QED
    BY <1>r, <2>1, GotoTurn
<1>6. CASE DropRow(s)
  <2>1. /\ task[s].at = "dropRow" /\ Goto(s, "idle") /\ row' = NoRow
        /\ UNCHANGED <<signed, kept, configured>>
    BY <1>6 DEF DropRow, At, ghosts
  <2>2. RowSound(row', signed', kept')
    BY <2>1 DEF RowSound
  <2> QED
    BY <2>1, <2>2, GotoTurn
<1> QED
  BY <1>1, <1>2, <1>3, <1>4, <1>5, <1>6 DEF Progress

LEMMA TurnStep == IInv /\ TurnInv /\ [MCNext]_<<vars, overlapped>> => TurnInv'
<1> SUFFICES ASSUME IInv, TurnInv, [MCNext]_<<vars, overlapped>>,
                    ~overlapped', failures' = 0
             PROVE  TurnInv'
  BY DEF TurnInv
<1>1. CASE UNCHANGED <<vars, overlapped>>
  BY <1>1 DEF vars, table, bounds, ghosts, TurnInv, Overlapping, At
<1>2. CASE MCNext
  <2>1. Next /\ ~overlapped /\ ~Overlapping'
    BY <1>2 DEF MCNext
  <2>2. CASE Quiescent
    BY <2>1, <2>2 DEF Quiescent, vars, table, bounds, ghosts, TurnInv, At
  <2>3. ASSUME NEW s \in Request, Arrival(s)
        PROVE  TurnInv'
    <3>1. failures' = failures
      BY <2>3 DEF Arrival, Begin, Update, Submit, Approve, Reject, Publish, Unpublish,
                  View, Delete, DeleteSteps
    <3> QED
      BY <2>1, <2>3, <3>1, ArrivalTurn
  <2>4. ASSUME NEW s \in Request, Progress(s)
        PROVE  TurnInv'
    <3>1. failures' = failures
      BY <2>4 DEF Progress, ReadStep, ReadNext, Decided, AddSteps, SelectForSave, Write,
                  Insert, LogHistory, DropHistories, DropRow, bounds
    <3> QED
      BY <2>1, <2>4, <3>1, ProgressTurn
  <2>5. ASSUME NEW s \in Request, Fail(s)
        PROVE  FALSE
    BY <2>5 DEF Fail, IInv, TypeOK
  <2> QED
    BY <2>1, <2>2, <2>3, <2>4, <2>5 DEF Next
<1> QED
  BY <1>1, <1>2

LEMMA InitTurn == MCInit => TurnInv
<1> SUFFICES ASSUME MCInit PROVE TurnInv
  OBVIOUS
<1>1. /\ row.status = "DRAFT" /\ kept = configured
      /\ \A s \in Request : task[s].at = "idle"
  BY DEF MCInit, Init, Idle
<1> QED
  BY <1>1 DEF TurnInv, Overlapping, At, RowSound, Public, Follows, Holding

\* update, submit, approve, reject and updateWorkflow one after the other:
\* before a bulletin is approved or public, every step it passed, and every step
\* that the workflow kept from the submission on, has approved what it says now.
THEOREM EveryStepApproves == MCSpec => []StepsApprovedInTurn
<1>1. MCInit => IInv /\ TurnInv
  BY InitIInv, InitTurn DEF MCInit
<1>2. IInv /\ TurnInv /\ [MCNext]_<<vars, overlapped>> => (IInv /\ TurnInv)'
  <2>1. IInv /\ [MCNext]_<<vars, overlapped>> => IInv'
    BY NextIInv DEF MCNext
  <2> QED
    BY <2>1, TurnStep
<1>3. IInv /\ TurnInv => StepsApprovedInTurn
  BY DEF TurnInv, StepsApprovedInTurn, AllStepsApproved, RowSound, Public
<1> QED
  BY <1>1, <1>2, <1>3, PTL DEF MCSpec
=============================================================================
