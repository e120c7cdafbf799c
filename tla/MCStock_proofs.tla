----------------------------- MODULE MCStock_proofs -----------------------------
(***************************************************************************)
(* Inventory keeps the ledger of StockLedger as long as no two of its      *)
(* requests are at work together, for any number of slips and of requests. *)
(* The step simulation: a receipt is Receive, the deduction of a           *)
(* confirmation is HandOut, and every other step stutters.                 *)
(***************************************************************************)
EXTENDS MCStock, Inventory_proofs

mcVars == <<vars, overlapped>>

----------------------------------------------------------------------------
(* The inductive invariant of the behaviours without overlap.              *)

\* What a request that is at work read is what is there.
Current(t, n, rows) ==
    /\ (t.at = "write" /\ t.op = "import") \/ t.at = "deduct" => t.seen = n
    /\ t.at # "idle" => \A s \in t.slips : rows[s].state = "present" /\ rows[s].type = t.type

\* A slip that took its goods says so, until it is deleted.
Accounted(row, h) ==
    /\ row.state = "absent" => h = None
    /\ row.state = "present" /\ h # None => row.type = "ISSUE"

TurnInv ==
    ~overlapped => /\ ~Overlapping
                   /\ \A r \in Request : Current(task[r], stock, slip)
                   /\ \A s \in Slip : Accounted(slip[s], handed[s])

\* A request that rests read nothing.
LEMMA IdleCurrent == \A t, n, rows : t.at = "idle" => Current(t, n, rows)
BY DEF Current

LEMMA InitTurnInv == MCInit => TurnInv
<1> SUFFICES ASSUME MCInit PROVE TurnInv
  OBVIOUS
<1>1. \A r \in Request : task[r].at = "idle"
  BY DEF MCInit, Init, Idle
<1>2. \A s \in Slip : slip[s].state = "absent" /\ handed[s] = None
  BY DEF MCInit, Init, NoSlip
<1> QED
  BY <1>1, <1>2, IdleCurrent DEF TurnInv, Overlapping, At, Accounted

\* What a step without overlap starts from.
LEMMA StillInTurn ==
    ASSUME MCNext, ~overlapped', TurnInv
    PROVE  /\ ~overlapped /\ Next /\ ~Overlapping /\ ~Overlapping'
           /\ \A r \in Request : Current(task[r], stock, slip)
           /\ \A s \in Slip : Accounted(slip[s], handed[s])
<1>1. Next /\ overlapped' = (overlapped \/ Overlapping')
  BY DEF MCNext
<1>2. ~overlapped /\ ~Overlapping'
  BY <1>1, Zenon
<1> QED
  BY <1>1, <1>2 DEF TurnInv

\* Whoever moves is alone: the others rest.
LEMMA AloneStep ==
    ASSUME TypeOK, ~Overlapping, ~Overlapping', NEW r \in Request, NEW t \in TaskRecord,
           task' = [task EXCEPT ![r] = t],
           t.at # "idle" \/ task[r].at # "idle",
           Current(t, stock', slip')
    PROVE  \A q \in Request : Current(task'[q], stock', slip')
<1> SUFFICES ASSUME NEW q \in Request PROVE Current(task'[q], stock', slip')
  OBVIOUS
<1>1. CASE q = r
  BY <1>1 DEF TypeOK
<1>2. CASE q # r
  <2>1. task'[q] = task[q] /\ task'[r] = t
    BY <1>2 DEF TypeOK
  <2>2. task'[q].at = "idle"
    BY <1>2, <2>1 DEF Overlapping, At
  <2> QED
    BY <2>2, IdleCurrent
<1> QED
  BY <1>1, <1>2

\* A request that ends leaves only requests that rest.
LEMMA AloneEnd ==
    ASSUME TypeOK, ~Overlapping, ~Overlapping', NEW r \in Request,
           ~At(r, "idle"), End(r)
    PROVE  \A q \in Request : Current(task'[q], stock', slip')
<1>1. Current(Idle, stock', slip')
  BY IdleCurrent DEF Idle
<1> QED
  BY <1>1, AloneStep, IdleType DEF End, At

\* A request that begins finds the others at rest.
LEMMA AloneBegin ==
    ASSUME TypeOK, ~Overlapping, ~Overlapping', NEW r \in Request, NEW t, Begin(r, t),
           [t EXCEPT !.at = "write"] \in TaskRecord,
           Current([t EXCEPT !.at = "write"], stock, slip)
    PROVE  /\ \A q \in Request : Current(task'[q], stock', slip')
           /\ UNCHANGED <<slip, stock, received, handed>>
<1> DEFINE u == [t EXCEPT !.at = "write"]
<1>1. task' = [task EXCEPT ![r] = u] /\ UNCHANGED <<slip, stock, received, handed>>
  BY DEF Begin
<1>2. u.at # "idle"
  BY DEF TaskRecord
<1> QED
  BY <1>1, <1>2, AloneStep

\* A request that begins with what it read of a slip.
LEMMA AloneRead ==
    ASSUME TypeOK, ~Overlapping, ~Overlapping', NEW r \in Request, NEW s \in Slip, Present(s),
           NEW status \in Status,
           NEW o \in {"approve", "approveStep", "escalate", "reject", "delete", "confirm"},
           NEW q \in Quantity \cup {0},
           \/ Begin(r, Read(o, s, status))
           \/ Begin(r, [Read(o, s, status) EXCEPT !.quantity = q])
    PROVE  /\ \A p \in Request : Current(task'[p], stock', slip')
           /\ UNCHANGED <<slip, stock, received, handed>>
<1>1. /\ Read(o, s, status) \in TaskRecord
      /\ Read(o, s, status).op = o /\ Read(o, s, status).slips = {s}
      /\ Read(o, s, status).type = slip[s].type
  BY ReadType
<1>2. CASE Begin(r, Read(o, s, status))
  <2> DEFINE t == [Read(o, s, status) EXCEPT !.at = "write"]
  <2>1. t \in TaskRecord /\ t.op = o /\ t.at = "write" /\ t.slips = {s} /\ t.type = slip[s].type
    BY <1>1 DEF TaskRecord
  <2>2. Current(t, stock, slip)
    BY <2>1 DEF Current, Present
  <2> QED
    BY <1>2, <2>1, <2>2, AloneBegin
<1>3. CASE Begin(r, [Read(o, s, status) EXCEPT !.quantity = q])
  <2> DEFINE t == [[Read(o, s, status) EXCEPT !.quantity = q] EXCEPT !.at = "write"]
  <2>1. t \in TaskRecord /\ t.op = o /\ t.at = "write" /\ t.slips = {s} /\ t.type = slip[s].type
    BY <1>1 DEF TaskRecord
  <2>2. Current(t, stock, slip)
    BY <2>1 DEF Current, Present
  <2> QED
    BY <1>3, <2>1, <2>2, AloneBegin
<1> QED
  BY <1>2, <1>3

----------------------------------------------------------------------------
(* Steps.                                                                  *)

\* What is shown of a step: what is read stays current, the slips stay
\* accounted for, and the ledger makes a step of its own or none.
LedgerStep == Promised!Next \/ UNCHANGED <<stock, received, handed>>

Simulates ==
    /\ \A q \in Request : Current(task'[q], stock', slip')
    /\ \A s \in Slip : Accounted(slip'[s], handed'[s])
    /\ LedgerStep

\* A request that begins: it reads, or writes what nobody else has read.
LEMMA ArrivalSimulates ==
    ASSUME TypeOK, MCNext, TurnInv, ~overlapped', NEW r \in Request, Arrival(r)
    PROVE  Simulates
<1>i. /\ ~Overlapping /\ ~Overlapping'
      /\ \A q \in Request : Current(task[q], stock, slip)
      /\ \A s \in Slip : Accounted(slip[s], handed[s])
  BY StillInTurn
<1>u. ASSUME \A q \in Request : Current(task'[q], stock', slip'),
             UNCHANGED <<slip, stock, received, handed>>
      PROVE  Simulates
  BY <1>i, <1>u DEF Simulates, LedgerStep
<1>1. CASE ReadImport(r)
  <2>1. PICK q \in Quantity : Begin(r, [Idle EXCEPT !.op = "import", !.quantity = q,
                                                    !.seen = stock])
    BY <1>1 DEF ReadImport
  <2> DEFINE u == [[Idle EXCEPT !.op = "import", !.quantity = q, !.seen = stock]
                       EXCEPT !.at = "write"]
  <2>2. u \in TaskRecord
    BY IdleType DEF TypeOK, TaskRecord
  <2>3. u.seen = stock /\ u.slips = {}
    BY DEF Idle
  <2>4. Current(u, stock, slip)
    BY <2>3 DEF Current
  <2> QED
    BY <1>i, <1>u, <2>1, <2>2, <2>4, AloneBegin
<1>2. CASE ReadApprove(r)
  <2>1. \A s \in Slip : slip[s].actual \in Quantity \cup {0}
    BY RowFields DEF TypeOK
  <2>2. PICK s \in Slip :
          /\ Present(s)
          /\ \/ Begin(r, Read("approveStep", s, "PENDING_APPROVAL"))
             \/ \E q \in Quantity \cup {0} :
                   Begin(r, [Read("approve", s, "APPROVED") EXCEPT !.quantity = q])
    BY <1>2, <2>1 DEF ReadApprove
  <2> QED
    BY <1>i, <1>u, <2>2, AloneRead DEF Status
<1>3. CASE ReadEscalate(r)
  BY <1>i, <1>u, <1>3, AloneRead DEF ReadEscalate, Status
<1>4. CASE ReadReject(r)
  BY <1>i, <1>u, <1>4, AloneRead DEF ReadReject, Status
<1>5. CASE ReadDelete(r)
  BY <1>i, <1>u, <1>5, AloneRead DEF ReadDelete, Status
<1>6. CASE ReadConfirm(r)
  <2>1. PICK s \in Slip, q \in Quantity \cup {0}, status \in {"PARTIAL", "FINISHED"} :
          Present(s) /\ Begin(r, [Read("confirm", s, status) EXCEPT !.quantity = q])
    BY <1>6 DEF ReadConfirm
  <2>2. status \in Status
    BY DEF Status
  <2> QED
    BY <1>i, <1>u, <2>1, <2>2, AloneRead
<1>7. CASE Create(r)
  <2>1. PICK s \in Slip, submitted \in BOOLEAN :
          /\ slip[s].state = "absent"
          /\ slip' = [slip EXCEPT ![s] =
                [NoSlip EXCEPT !.state = "present", !.items = TRUE,
                               !.status = IF submitted THEN "PENDING_APPROVAL" ELSE "DRAFT",
                               !.gi = IF submitted THEN 2 ELSE 1]]
    BY <1>7 DEF Create
  <2>2. UNCHANGED <<stock, task, received, handed>>
    BY <1>7 DEF Create
  <2>3. \A x \in Slip \ {s} : slip'[x] = slip[x]
    BY <2>1 DEF TypeOK
  <2>4. Accounted(slip'[s], handed'[s])
    BY <1>i, <2>1, <2>2 DEF Accounted
  <2>5. ASSUME NEW q \in Request PROVE Current(task'[q], stock', slip')
    <3>1. task[q].slips \subseteq Slip
      BY TaskFields DEF TypeOK
    <3>2. task[q].at # "idle" => s \notin task[q].slips
      BY <1>i, <2>1 DEF Current
    <3> QED
      BY <1>i, <2>2, <2>3, <3>1, <3>2 DEF Current
  <2> QED
    BY <1>i, <2>2, <2>3, <2>4, <2>5 DEF Simulates, LedgerStep
<1>8. CASE Resubmit(r)
  <2>1. PICK s \in Slip :
          slip' = [slip EXCEPT ![s].status = "PENDING_APPROVAL",
                               ![s].gi = IF @ = 0 THEN 0 ELSE 2,
                               ![s].items = TRUE, ![s].actual = 0]
    BY <1>8 DEF Resubmit
  <2>2. UNCHANGED <<stock, task, received, handed>>
    BY <1>8 DEF Resubmit
  <2>3. \A x \in Slip : slip'[x].state = slip[x].state /\ slip'[x].type = slip[x].type
    <3>1. slip[s] \in SlipRow
      BY DEF TypeOK
    <3>2. slip'[s].state = slip[s].state /\ slip'[s].type = slip[s].type
      BY <2>1, <3>1 DEF SlipRow, TypeOK
    <3>3. \A x \in Slip \ {s} : slip'[x] = slip[x]
      BY <2>1 DEF TypeOK
    <3> QED
      BY <3>2, <3>3
  <2>4. ASSUME NEW q \in Request PROVE Current(task'[q], stock', slip')
    <3>1. task[q].slips \subseteq Slip
      BY TaskFields DEF TypeOK
    <3> QED
      BY <1>i, <2>2, <2>3, <3>1 DEF Current
  <2>5. \A x \in Slip : Accounted(slip'[x], handed'[x])
    BY <1>i, <2>2, <2>3 DEF Accounted
  <2> QED
    BY <2>2, <2>4, <2>5 DEF Simulates, LedgerStep
<1> QED
  BY <1>1, <1>2, <1>3, <1>4, <1>5, <1>6, <1>7, <1>8 DEF Arrival

\* A request that goes on with what it read.
LEMMA ProgressSimulates ==
    ASSUME IInv, MCNext, TurnInv, ~overlapped', NEW r \in Request, Progress(r) \/ Fail(r)
    PROVE  Simulates
<1>i. /\ ~Overlapping /\ ~Overlapping' /\ TypeOK
      /\ \A q \in Request : Current(task[q], stock, slip)
      /\ \A s \in Slip : Accounted(slip[s], handed[s])
  BY StillInTurn DEF IInv
<1>t. /\ task[r] \in TaskRecord /\ Sound(task[r], handed) /\ task[r].slips \subseteq Slip
      /\ task[r].quantity \in Quantity \cup {0}
  BY TaskFields DEF IInv, TypeOK, TasksOK
<1>1. CASE SaveImport(r)
  <2>1. \A q \in Request : Current(task'[q], stock', slip')
    BY <1>i, <1>1, AloneEnd DEF SaveImport, At
  <2>2. /\ stock' = stock + task[r].quantity /\ received' = received + task[r].quantity
        /\ stock' <= MaxStock /\ UNCHANGED <<slip, handed>>
    BY <1>i, <1>t, <1>1 DEF SaveImport, At, Current, Sound
  <2>3. task[r].quantity \in Nat /\ stock \in Int /\ received \in Nat
    BY <1>i, <1>t, QuantityType DEF TypeOK
  <2>4. CASE task[r].quantity = 0
    BY <1>i, <2>1, <2>2, <2>3, <2>4 DEF Simulates, LedgerStep
  <2>5. CASE task[r].quantity # 0
    <3>1. Promised!Receive
      BY <2>2, <2>3, <2>5 DEF Promised!Receive
    <3> QED
      BY <1>i, <2>1, <2>2, <3>1 DEF Simulates, LedgerStep, Promised!Next
  <2> QED
    BY <2>4, <2>5
<1>2. CASE SaveSlip(r)
  <2>1. \A q \in Request : Current(task'[q], stock', slip')
    BY <1>i, <1>2, AloneEnd DEF SaveSlip, At
  <2>2. PICK s \in task[r].slips : slip' = [slip EXCEPT ![s] = Saved(r, s)]
    BY <1>2 DEF SaveSlip
  <2>3. /\ s \in Slip /\ task[r].op \notin {"none", "import", "delete"} /\ At(r, "write")
        /\ slip[s].state = "present" /\ slip[s].type = task[r].type
    BY <1>i, <1>2, <1>t, <2>2 DEF SaveSlip, At, Sound, Current
  <2>4. Saved(r, s).state = "present" /\ Saved(r, s).type = task[r].type
    <3>1. slip[s] \in SlipRow
      BY <1>i, <2>3 DEF TypeOK
    <3> QED
      BY <3>1 DEF Saved, SlipRow
  <2>5. \A x \in Slip : Accounted(slip'[x], handed[x])
    BY <1>i, <2>2, <2>3, <2>4 DEF TypeOK, Accounted
  <2>6. UNCHANGED <<stock, received, handed>>
    BY <1>2 DEF SaveSlip
  <2> QED
    BY <2>1, <2>5, <2>6 DEF Simulates, LedgerStep
<1>3. CASE Delete(r)
  <2>1. \A q \in Request : Current(task'[q], stock', slip')
    BY <1>i, <1>3, AloneEnd DEF Delete, At
  <2>2. PICK s \in task[r].slips : slip' = [slip EXCEPT ![s] = [NoSlip EXCEPT !.state = "gone"]]
    BY <1>3 DEF Delete
  <2>3. slip'[s].state = "gone" /\ \A x \in Slip \ {s} : slip'[x] = slip[x]
    BY <1>i, <1>t, <2>2 DEF TypeOK, NoSlip
  <2>4. UNCHANGED <<stock, received, handed>>
    BY <1>3 DEF Delete
  <2>5. \A x \in Slip : Accounted(slip'[x], handed'[x])
    BY <1>i, <2>3, <2>4 DEF Accounted
  <2> QED
    BY <2>1, <2>4, <2>5 DEF Simulates, LedgerStep
<1>4. CASE UpdateSlip(r)
  <2> DEFINE t == [task[r] EXCEPT !.at = "deduct", !.seen = stock]
  <2>1. /\ task' = [task EXCEPT ![r] = t] /\ At(r, "write")
        /\ UNCHANGED <<slip, stock, requests, received, handed>>
    BY <1>4 DEF UpdateSlip
  <2>2. /\ t \in TaskRecord /\ t.at = "deduct" /\ t.seen = stock
        /\ t.type = task[r].type /\ t.slips = task[r].slips
    BY <1>i, <1>t DEF TaskRecord, TypeOK
  <2>3. Current(t, stock, slip)
    BY <1>i, <2>1, <2>2 DEF Current, At
  <2>4. \A q \in Request : Current(task'[q], stock', slip')
    BY <1>i, <2>1, <2>2, <2>3, AloneStep
  <2> QED
    BY <1>i, <2>1, <2>4 DEF Simulates, LedgerStep
<1>5. CASE Deduct(r)
  <2>1. \A q \in Request : Current(task'[q], stock', slip')
    BY <1>i, <1>5, AloneEnd DEF Deduct, At
  <2>2. PICK s \in task[r].slips :
          /\ slip' = [slip EXCEPT ![s] = HandedSlip(r, s)]
          /\ handed' = [handed EXCEPT ![s] = task[r].quantity]
    BY <1>5 DEF Deduct
  <2>3. /\ s \in Slip /\ At(r, "deduct") /\ task[r].op = "confirm" /\ task[r].type # "ISSUE"
        /\ task[r].seen = stock
        /\ slip[s].state = "present" /\ slip[s].type = task[r].type
    BY <1>i, <1>5, <1>t, <2>2 DEF Deduct, At, Sound, Current
  <2>4. handed[s] = None
    BY <1>i, <2>3 DEF Accounted
  <2>5. HandedSlip(r, s).state = "present" /\ HandedSlip(r, s).type = "ISSUE"
    <3>1. slip[s] \in SlipRow
      BY <1>i, <2>3 DEF TypeOK
    <3> QED
      BY <3>1 DEF HandedSlip, Saved, SlipRow
  <2>6. /\ handed'[s] = task[r].quantity /\ handed'[s] # None
        /\ \A x \in Slip \ {s} : handed'[x] = handed[x] /\ slip'[x] = slip[x]
        /\ slip'[s] = HandedSlip(r, s)
    BY <1>i, <1>t, <2>2, <2>3, QuantityType DEF TypeOK
  <2>7. \A x \in Slip : Accounted(slip'[x], handed'[x])
    BY <1>i, <2>5, <2>6 DEF Accounted
  <2>8. stock' = stock - handed'[s] /\ received' = received
    <3>1. task[r].quantity \in Nat /\ stock \in Int
      BY <1>i, <1>t, QuantityType DEF TypeOK
    <3> QED
      BY <1>5, <2>3, <2>6, <3>1 DEF Deduct
  <2>9. Promised!HandOut(s)
    BY <2>2, <2>4, <2>6, <2>8 DEF Promised!HandOut
  <2> QED
    BY <2>1, <2>3, <2>7, <2>9 DEF Simulates, LedgerStep, Promised!Next
<1>6. CASE Fail(r)
  <2>1. \A q \in Request : Current(task'[q], stock', slip')
    BY <1>i, <1>6, AloneEnd DEF Fail
  <2> QED
    BY <1>i, <1>6, <2>1 DEF Fail, Simulates, LedgerStep
<1> QED
  BY <1>1, <1>2, <1>3, <1>4, <1>5, <1>6 DEF Progress

LEMMA NextSimulates ==
    ASSUME IInv, MCNext, TurnInv, ~overlapped'
    PROVE  Simulates
<1>1. CASE UNCHANGED vars
  BY <1>1, StillInTurn DEF vars, Simulates, LedgerStep
<1> QED
  BY <1>1, StillInTurn, ArrivalSimulates, ProgressSimulates DEF Next, Quiescent, IInv

LEMMA NextTurnInv == IInv /\ TurnInv /\ [MCNext]_mcVars => TurnInv'
<1> SUFFICES ASSUME IInv, TurnInv, [MCNext]_mcVars PROVE TurnInv'
  OBVIOUS
<1>1. CASE MCNext /\ ~overlapped'
  BY <1>1, NextSimulates, StillInTurn DEF TurnInv, Simulates
<1>2. CASE UNCHANGED mcVars
  BY <1>2 DEF mcVars, vars, TurnInv, Overlapping, At
<1>3. CASE overlapped'
  BY <1>3 DEF TurnInv
<1> QED
  BY <1>1, <1>2, <1>3

----------------------------------------------------------------------------
(* The theorem.                                                            *)

LEMMA Invariants == MCSpec => [](IInv /\ TurnInv)
<1>1. MCInit => IInv /\ TurnInv
  BY InitIInv, InitTurnInv DEF MCInit
<1>2. IInv /\ TurnInv /\ [MCNext]_mcVars => (IInv /\ TurnInv)'
  <2>1. [MCNext]_mcVars => [Next]_vars
    BY DEF MCNext, mcVars
  <2> QED
    BY <2>1, NextIInv, NextTurnInv
<1> QED
  BY <1>1, <1>2, PTL DEF MCSpec, mcVars

\* importStock, confirmIssue and all that approves, rejects, sends again or
\* deletes a slip in between, one request at a time: the store keeps the ledger
\* of StockLedger, where what comes in is added once, up to the limit, and a
\* slip takes its goods once.
THEOREM KeepsTheLedger == MCSpec => LedgerInTurn
<1>1. MCInit => Promised!Init
  BY DEF MCInit, Init, Promised!Init
<1>2. IInv /\ TurnInv /\ [MCNext]_mcVars
        => [~overlapped' => Promised!Next]_<<stock, received, handed>>
  BY NextSimulates DEF mcVars, vars, Simulates, LedgerStep
<1> QED
  BY <1>1, <1>2, Invariants, PTL DEF MCSpec, LedgerInTurn, mcVars
=============================================================================
