--------------------------- MODULE Inventory_proofs ---------------------------
(***************************************************************************)
(* Theorems about Inventory, for any number of slips and of requests in    *)
(* flight.  None of them needs a lock on what was read: they rest on what  *)
(* a request remembers of its own read.                                    *)
(***************************************************************************)
EXTENDS Inventory, TLAPS

----------------------------------------------------------------------------
(* The inductive invariant.                                                *)

\* What a request remembers is enough for what it is going to write; who read
\* a slip as issued knows that it was handed out.
Sound(t, h) ==
    /\ t.at = "write" => t.op # "none"
    /\ t.at = "deduct" => /\ t.op = "confirm" /\ t.status = "FINISHED" /\ t.type # "ISSUE"
                          /\ t.seen <= MaxStock
    /\ t.op = "import" => t.seen + t.quantity <= MaxStock
    /\ t.status = "FINISHED" => t.op = "confirm"
    /\ t.type = "ISSUE" => \A s \in t.slips : h[s] # None

TasksOK == \A r \in Request : Sound(task[r], handed)

IInv == TypeOK /\ TasksOK /\ StockCap /\ FinishedIsHanded

----------------------------------------------------------------------------
(* What the operators return.                                              *)

\* Quantities are numbers, and None is none.
LEMMA QuantityType == Quantity \cup {0} \subseteq Nat /\ None \notin Quantity \cup {0}
<1>1. Quantity \cup {0} \subseteq Nat
  BY InventoryAssumption
<1> QED
  BY <1>1, InventoryAssumption, Zenon

\* The fields of a row and of a request.
LEMMA RowFields ==
    ASSUME NEW x \in SlipRow
    PROVE  /\ x.state \in {"absent", "present", "gone"} /\ x.status \in Status
           /\ x.type \in Type /\ x.gi \in Nat /\ x.items \in BOOLEAN
           /\ x.actual \in Quantity \cup {0}
BY DEF SlipRow

LEMMA TaskFields ==
    ASSUME NEW t \in TaskRecord
    PROVE  /\ t.op \in {"none", "import", "approve", "approveStep", "escalate", "reject",
                       "delete", "confirm"}
           /\ t.slips \in SUBSET Slip /\ t.status \in Status /\ t.type \in Type
           /\ t.quantity \in Quantity \cup {0} /\ t.seen \in Int
BY DEF TaskRecord

\* An idle request has nothing to remember.
LEMMA IdleType == Idle \in TaskRecord
BY DEF Idle, TaskRecord, Status, Type

\* A request that starts with what it read of a slip.
LEMMA ReadType ==
    ASSUME TypeOK, NEW s \in Slip, NEW status \in Status,
           NEW o \in {"approve", "approveStep", "escalate", "reject", "delete", "confirm"}
    PROVE  /\ Read(o, s, status) \in TaskRecord
           /\ Read(o, s, status).op = o /\ Read(o, s, status).slips = {s}
           /\ Read(o, s, status).status = status /\ Read(o, s, status).type = slip[s].type
<1>1. slip[s].type \in Type
  BY RowFields DEF TypeOK
<1>2. Read(o, s, status) \in TaskRecord
  BY <1>1, IdleType DEF Read, TaskRecord
<1> QED
  BY <1>2 DEF Read, Idle

\* A row that a request saves is a row.
LEMMA SavedType ==
    ASSUME TypeOK, NEW r \in Request, NEW s \in Slip, At(r, "write") \/ At(r, "deduct"),
           task[r].op \notin {"none", "import", "delete"}
    PROVE  /\ Saved(r, s) \in SlipRow /\ HandedSlip(r, s) \in SlipRow
           /\ Saved(r, s).status = task[r].status /\ Saved(r, s).type = task[r].type
           /\ HandedSlip(r, s).status = task[r].status
<1>1. slip[s] \in SlipRow /\ task[r] \in TaskRecord
  BY DEF TypeOK
<1>2. GoodsIssue(r, slip[s].gi) \in Nat
  BY <1>1, RowFields, TaskFields DEF GoodsIssue
<1>3. /\ task[r].status \in Status /\ task[r].type \in Type
      /\ task[r].quantity \in Quantity \cup {0} /\ slip[s].actual \in Quantity \cup {0}
  BY <1>1, RowFields, TaskFields
<1> QED
  BY <1>1, <1>2, <1>3 DEF Saved, HandedSlip, SlipRow, Type
----------------------------------------------------------------------------
(* Steps.                                                                  *)

\* One request changes what it remembers; handed slips stay handed.
LEMMA TasksStep ==
    ASSUME TypeOK, TasksOK, NEW r \in Request, NEW t \in TaskRecord,
           task' = [task EXCEPT ![r] = t],
           \A s \in Slip : handed[s] # None => handed'[s] # None,
           Sound(t, handed')
    PROVE  task' \in [Request -> TaskRecord] /\ TasksOK'
<1>1. ASSUME NEW q \in Request
      PROVE  task'[q] \in TaskRecord /\ Sound(task'[q], handed')
  <2>1. CASE q = r
    BY <2>1 DEF TypeOK
  <2>2. CASE q # r
    <3>1. task'[q] = task[q] /\ task[q] \in TaskRecord /\ Sound(task[q], handed)
      BY <2>2 DEF TypeOK, TasksOK
    <3>2. task[q].slips \subseteq Slip
      BY <3>1, TaskFields
    <3> QED
      BY <3>1, <3>2 DEF Sound
  <2> QED
    BY <2>1, <2>2
<1> QED
  BY <1>1 DEF TasksOK, TypeOK

LEMMA IdleSound == \A h : Sound(Idle, h)
BY DEF Sound, Idle

\* A request begins with a record that is sound.
LEMMA BeginStep ==
    ASSUME IInv, NEW r \in Request, NEW t, Begin(r, t),
           [t EXCEPT !.at = "write"] \in TaskRecord,
           Sound([t EXCEPT !.at = "write"], handed)
    PROVE  IInv'
<1>1. task' \in [Request -> TaskRecord] /\ TasksOK'
  BY TasksStep DEF IInv, Begin
<1> QED
  BY <1>1 DEF IInv, Begin, TypeOK, StockCap, FinishedIsHanded

\* A request that starts with what it read of a slip.
LEMMA ReadStep ==
    ASSUME IInv, NEW r \in Request, NEW s \in Slip, NEW status \in Status,
           NEW o \in {"approve", "approveStep", "escalate", "reject", "delete", "confirm"},
           status = "FINISHED" => o = "confirm",
           NEW q \in Quantity \cup {0},
           \/ Begin(r, Read(o, s, status))
           \/ Begin(r, [Read(o, s, status) EXCEPT !.quantity = q])
    PROVE  IInv'
<1>1. /\ Read(o, s, status) \in TaskRecord
      /\ Read(o, s, status).op = o /\ Read(o, s, status).slips = {s}
      /\ Read(o, s, status).status = status /\ Read(o, s, status).type = slip[s].type
  BY ReadType DEF IInv
<1>2. slip[s].type = "ISSUE" => handed[s] # None
  BY DEF IInv, FinishedIsHanded
<1>3. CASE Begin(r, Read(o, s, status))
  <2> DEFINE t == [Read(o, s, status) EXCEPT !.at = "write"]
  <2>1. t \in TaskRecord /\ Sound(t, handed)
    BY <1>1, <1>2 DEF TaskRecord, Sound
  <2> QED
    BY <1>3, <2>1, BeginStep
<1>4. CASE Begin(r, [Read(o, s, status) EXCEPT !.quantity = q])
  <2> DEFINE t == [[Read(o, s, status) EXCEPT !.quantity = q] EXCEPT !.at = "write"]
  <2>1. t \in TaskRecord /\ Sound(t, handed)
    BY <1>1, <1>2 DEF TaskRecord, Sound
  <2> QED
    BY <1>4, <2>1, BeginStep
<1> QED
  BY <1>3, <1>4

\* A request ends; which slips were handed out is not forgotten.
LEMMA EndStep ==
    ASSUME IInv, NEW r \in Request, End(r),
           \A s \in Slip : handed[s] # None => handed'[s] # None
    PROVE  task' \in [Request -> TaskRecord] /\ TasksOK'
BY TasksStep, IdleType, IdleSound DEF End, IInv

\* The step of each action.
LEMMA ArrivalStep ==
    ASSUME IInv, NEW r \in Request, Arrival(r)
    PROVE  IInv'
<1>1. CASE ReadImport(r)
  <2>1. PICK q \in Quantity : /\ Fits(q)
                              /\ Begin(r, [Idle EXCEPT !.op = "import", !.quantity = q,
                                                       !.seen = stock])
    BY <1>1 DEF ReadImport
  <2> DEFINE t == [Idle EXCEPT !.op = "import", !.quantity = q, !.seen = stock]
             u == [t EXCEPT !.at = "write"]
  <2>2. stock \in Int
    BY DEF IInv, TypeOK
  <2>3. u \in TaskRecord
    BY <2>2, IdleType DEF TaskRecord
  <2>4. /\ u.op = "import" /\ u.at = "write" /\ u.seen = stock /\ u.quantity = q
        /\ u.status = "DRAFT" /\ u.type = "ISSUE_REQUEST"
    BY DEF Idle
  <2>5. Sound(u, handed)
    BY <2>1, <2>4 DEF Sound, Fits
  <2> QED
    BY <2>1, <2>3, <2>5, BeginStep
<1>2. CASE ReadApprove(r)
  <2>1. \A s \in Slip : slip[s].actual \in Quantity \cup {0}
    BY RowFields DEF IInv, TypeOK
  <2>2. PICK s \in Slip :
          \/ Begin(r, Read("approveStep", s, "PENDING_APPROVAL"))
          \/ \E q \in Quantity \cup {0} :
                Begin(r, [Read("approve", s, "APPROVED") EXCEPT !.quantity = q])
    BY <1>2, <2>1 DEF ReadApprove
  <2> QED
    BY <2>2, ReadStep DEF Status
<1>3. CASE ReadEscalate(r)
  BY <1>3, ReadStep DEF ReadEscalate, Status
<1>4. CASE ReadReject(r)
  BY <1>4, ReadStep DEF ReadReject, Status
<1>5. CASE ReadDelete(r)
  BY <1>5, ReadStep DEF ReadDelete, Status
<1>6. CASE ReadConfirm(r)
  <2>1. PICK s \in Slip, q \in Quantity \cup {0}, status \in {"PARTIAL", "FINISHED"} :
          Begin(r, [Read("confirm", s, status) EXCEPT !.quantity = q])
    BY <1>6 DEF ReadConfirm
  <2>2. status \in Status
    BY DEF Status
  <2> QED
    BY <2>1, <2>2, ReadStep
<1>7. CASE Create(r)
  <2>1. PICK s \in Slip, submitted \in BOOLEAN :
          slip' = [slip EXCEPT ![s] =
                [NoSlip EXCEPT !.state = "present", !.items = TRUE,
                               !.status = IF submitted THEN "PENDING_APPROVAL" ELSE "DRAFT",
                               !.gi = IF submitted THEN 2 ELSE 1]]
    BY <1>7 DEF Create
  <2>2. slip'[s] \in SlipRow /\ slip'[s].status # "FINISHED" /\ slip'[s].type # "ISSUE"
    BY <2>1 DEF NoSlip, SlipRow, Status, Type, IInv, TypeOK
  <2>3. \A x \in Slip \ {s} : slip'[x] = slip[x]
    BY <2>1 DEF IInv, TypeOK
  <2>4. slip' \in [Slip -> SlipRow]
    BY <2>1, <2>2, <2>3 DEF IInv, TypeOK
  <2>5. requests' = requests + 1 /\ UNCHANGED <<stock, task, received, handed>>
    BY <1>7 DEF Create
  <2>6. FinishedIsHanded'
    BY <2>2, <2>3, <2>5 DEF FinishedIsHanded, IInv
  <2> QED
    BY <2>4, <2>5, <2>6 DEF IInv, TypeOK, TasksOK, StockCap
<1>8. CASE Resubmit(r)
  <2>1. PICK s \in Slip :
          slip' = [slip EXCEPT ![s].status = "PENDING_APPROVAL",
                               ![s].gi = IF @ = 0 THEN 0 ELSE 2,
                               ![s].items = TRUE, ![s].actual = 0]
    BY <1>8 DEF Resubmit
  <2>2. slip[s] \in SlipRow
    BY DEF IInv, TypeOK
  <2>3. slip'[s] \in SlipRow /\ slip'[s].status = "PENDING_APPROVAL" /\ slip'[s].type = slip[s].type
    BY <2>1, <2>2 DEF SlipRow, Status, IInv, TypeOK
  <2>4. \A x \in Slip \ {s} : slip'[x] = slip[x]
    BY <2>1 DEF IInv, TypeOK
  <2> QED
    BY <1>8, <2>1, <2>3, <2>4 DEF Resubmit, IInv, TypeOK, TasksOK, StockCap, FinishedIsHanded
<1> QED
  BY <1>1, <1>2, <1>3, <1>4, <1>5, <1>6, <1>7, <1>8 DEF Arrival

LEMMA ProgressStep ==
    ASSUME IInv, NEW r \in Request, Progress(r)
    PROVE  IInv'
<1>t. task[r] \in TaskRecord /\ Sound(task[r], handed)
  BY DEF IInv, TypeOK, TasksOK
<1>1. CASE SaveImport(r)
  <2>1. task' \in [Request -> TaskRecord] /\ TasksOK'
    BY <1>1, EndStep DEF SaveImport
  <2>2. task[r].quantity \in Nat /\ task[r].seen \in Int /\ task[r].seen + task[r].quantity <= MaxStock
    BY <1>1, <1>t, TaskFields, QuantityType DEF SaveImport, Sound
  <2> QED
    BY <1>1, <2>1, <2>2 DEF SaveImport, IInv, TypeOK, StockCap, FinishedIsHanded
<1>2. CASE SaveSlip(r)
  <2>1. task' \in [Request -> TaskRecord] /\ TasksOK'
    BY <1>2, EndStep DEF SaveSlip
  <2>2. PICK s \in task[r].slips : slip' = [slip EXCEPT ![s] = Saved(r, s)]
    BY <1>2 DEF SaveSlip
  <2>3. s \in Slip /\ task[r].op \notin {"none", "import", "delete"} /\ At(r, "write")
    BY <1>2, <2>2, <1>t, TaskFields DEF SaveSlip, At, Sound
  <2>4. /\ Saved(r, s) \in SlipRow /\ Saved(r, s).status = task[r].status
        /\ Saved(r, s).type = task[r].type
    BY <2>3, SavedType DEF IInv
  <2>5. slip'[s] = Saved(r, s) /\ \A x \in Slip \ {s} : slip'[x] = slip[x]
    BY <2>2, <2>3 DEF IInv, TypeOK
  <2>6. slip' \in [Slip -> SlipRow]
    BY <2>2, <2>4 DEF IInv, TypeOK
  <2>7. (task[r].status = "FINISHED" \/ task[r].type = "ISSUE") => handed[s] # None
    BY <1>2, <1>t, <2>2 DEF SaveSlip, Deducts, Sound
  <2>8. UNCHANGED <<stock, requests, received, handed>>
    BY <1>2 DEF SaveSlip
  <2>9. FinishedIsHanded'
    BY <2>4, <2>5, <2>7, <2>8 DEF FinishedIsHanded, IInv
  <2> QED
    BY <2>1, <2>6, <2>8, <2>9 DEF IInv, TypeOK, StockCap
<1>3. CASE Delete(r)
  <2>1. task' \in [Request -> TaskRecord] /\ TasksOK'
    BY <1>3, EndStep DEF Delete
  <2>2. PICK s \in task[r].slips : slip' = [slip EXCEPT ![s] = [NoSlip EXCEPT !.state = "gone"]]
    BY <1>3 DEF Delete
  <2>3. s \in Slip
    BY <2>2, <1>t, TaskFields
  <2>4. slip'[s] \in SlipRow /\ slip'[s].status # "FINISHED" /\ slip'[s].type # "ISSUE"
    BY <2>2, <2>3 DEF NoSlip, SlipRow, Status, Type, IInv, TypeOK
  <2>5. \A x \in Slip \ {s} : slip'[x] = slip[x]
    BY <2>2 DEF IInv, TypeOK
  <2>6. slip' \in [Slip -> SlipRow]
    BY <2>2, <2>4, <2>5 DEF IInv, TypeOK
  <2>7. UNCHANGED <<stock, requests, received, handed>>
    BY <1>3 DEF Delete
  <2>8. FinishedIsHanded'
    BY <2>4, <2>5, <2>7 DEF FinishedIsHanded, IInv
  <2> QED
    BY <2>1, <2>6, <2>7, <2>8 DEF IInv, TypeOK, StockCap
<1>4. CASE UpdateSlip(r)
  <2> DEFINE t == [task[r] EXCEPT !.at = "deduct", !.seen = stock]
  <2>1. stock \in Int /\ stock <= MaxStock
    BY DEF IInv, TypeOK, StockCap
  <2>2. t \in TaskRecord
    BY <1>t, <2>1 DEF TaskRecord
  <2>3. t.at = "deduct" /\ t.seen = stock /\ t.op = task[r].op /\ t.status = task[r].status
        /\ t.type = task[r].type /\ t.slips = task[r].slips
    BY <1>t DEF TaskRecord
  <2>4. Sound(t, handed)
    BY <1>4, <1>t, <2>1, <2>3 DEF UpdateSlip, Deducts, Sound
  <2>5. task' = [task EXCEPT ![r] = t] /\ UNCHANGED <<slip, stock, requests, received, handed>>
    BY <1>4 DEF UpdateSlip
  <2>6. task' \in [Request -> TaskRecord] /\ TasksOK'
    BY <2>2, <2>4, <2>5, TasksStep DEF IInv
  <2> QED
    BY <2>5, <2>6 DEF IInv, TypeOK, StockCap, FinishedIsHanded
<1>5. CASE Deduct(r)
  <2>1. PICK s \in task[r].slips :
          /\ slip' = [slip EXCEPT ![s] = HandedSlip(r, s)]
          /\ handed' = [handed EXCEPT ![s] = task[r].quantity]
    BY <1>5 DEF Deduct
  <2>2. /\ s \in Slip /\ At(r, "deduct") /\ task[r].op = "confirm"
        /\ task[r].quantity \in Quantity \cup {0} /\ task[r].seen \in Int
        /\ task[r].seen <= MaxStock
    BY <1>5, <1>t, <2>1, TaskFields DEF Deduct, At, Sound
  <2>3. HandedSlip(r, s) \in SlipRow
    BY <2>2, SavedType DEF IInv
  <2>4. /\ handed'[s] # None /\ handed' \in [Slip -> Quantity \cup {0, None}]
        /\ \A x \in Slip \ {s} : handed'[x] = handed[x] /\ slip'[x] = slip[x]
    BY <2>1, <2>2, QuantityType DEF IInv, TypeOK
  <2>5. slip' \in [Slip -> SlipRow]
    BY <2>1, <2>3 DEF IInv, TypeOK
  <2>6. task' \in [Request -> TaskRecord] /\ TasksOK'
    BY <1>5, <2>4, EndStep DEF Deduct
  <2>7. stock' \in Int /\ stock' <= MaxStock
    <3>1. stock' = IF task[r].quantity = 0 THEN stock ELSE task[r].seen - task[r].quantity
      BY <1>5 DEF Deduct
    <3>2. task[r].quantity \in Nat
      BY <2>2, QuantityType
    <3>3. stock \in Int /\ stock <= MaxStock /\ MaxStock \in Nat
      BY InventoryAssumption DEF IInv, TypeOK, StockCap
    <3> QED
      BY <2>2, <3>1, <3>2, <3>3
  <2>8. UNCHANGED <<requests, received>>
    BY <1>5 DEF Deduct
  <2>9. FinishedIsHanded'
    BY <2>4 DEF FinishedIsHanded, IInv
  <2> QED
    BY <2>4, <2>5, <2>6, <2>7, <2>8, <2>9 DEF IInv, TypeOK, StockCap
<1> QED
  BY <1>1, <1>2, <1>3, <1>4, <1>5 DEF Progress

----------------------------------------------------------------------------
(* The theorems.                                                           *)

LEMMA InitIInv == Init => IInv
<1> SUFFICES ASSUME Init PROVE IInv
  OBVIOUS
<1>1. TypeOK
  BY IdleType, InventoryAssumption DEF Init, TypeOK, NoSlip, SlipRow, Status, Type
<1>2. TasksOK
  BY IdleSound DEF Init, TasksOK
<1> QED
  BY <1>1, <1>2, InventoryAssumption DEF Init, IInv, StockCap, FinishedIsHanded, NoSlip

LEMMA NextIInv == IInv /\ [Next]_vars => IInv'
<1> SUFFICES ASSUME IInv, [Next]_vars PROVE IInv'
  OBVIOUS
<1>1. ASSUME NEW r \in Request, Fail(r) PROVE IInv'
  <2>1. task' \in [Request -> TaskRecord] /\ TasksOK'
    BY <1>1, EndStep DEF Fail
  <2> QED
    BY <1>1, <2>1 DEF Fail, IInv, TypeOK, StockCap, FinishedIsHanded
<1>2. CASE UNCHANGED vars
  BY <1>2 DEF vars, IInv, TypeOK, TasksOK, StockCap, FinishedIsHanded
<1> QED
  BY <1>1, <1>2, ArrivalStep, ProgressStep DEF Next, Quiescent

\* The rows, the stock and the requests hold what the handlers store there.
THEOREM TypeCorrect == Spec => []TypeOK
<1>1. IInv => TypeOK
  BY DEF IInv
<1> QED
  BY <1>1, InitIInv, NextIInv, PTL DEF Spec

\* importStock, confirmIssue: the stock of a product never passes the limit,
\* although the sum is written that was compared and not the one that is true.
THEOREM StockIsCapped == Spec => []StockCap
<1>1. IInv => StockCap
  BY DEF IInv
<1> QED
  BY <1>1, InitIInv, NextIInv, PTL DEF Spec

\* confirmIssue beside every handler that saves the same slip, deleted ones
\* included: what is finished, or counts as issued, was taken from the stock.
THEOREM FinishedWasHanded == Spec => []FinishedIsHanded
<1>1. IInv => FinishedIsHanded
  BY DEF IInv
<1> QED
  BY <1>1, InitIInv, NextIInv, PTL DEF Spec
=============================================================================
