------------------------------- MODULE Inventory -------------------------------
(***************************************************************************)
(* Office supplies: the stock of ONE product and the slips by which        *)
(* departments ask for it.  Every handler is a transaction that reads the  *)
(* slip or the stock, decides, and saves the entity it read: a save writes *)
(* the columns in which the entity differs from the row, so also those     *)
(* that another request changed meanwhile.  Nothing is locked by a read.   *)
(***************************************************************************)
EXTENDS Integers

CONSTANTS
    Slip,
    Request,      \* HTTP requests that can be in flight together
    Quantity,     \* what can be received, asked for or handed out at once
    MaxStock,     \* MAX_TOTAL_QUANTITY of importStock
    MaxRequest,   \* bound: requests in a behaviour
    None

ASSUME InventoryAssumption ==
    /\ Quantity \subseteq Nat \ {0}
    /\ MaxStock \in Nat /\ MaxRequest \in Nat
    /\ None \notin Nat

VARIABLES
    slip,       \* rows of InventoryTransaction and GoodsIssue
    stock,      \* Inventories.quantity
    task,       \* what a request runs
    requests,   \* counted for the bound
    received,   \* history: what importStock was told to add
    handed      \* history: what confirmIssue took from the stock for a slip

vars == <<slip, stock, task, requests, received, handed>>

Status == {"DRAFT", "PENDING_APPROVAL", "APPROVED", "REJECTED", "PARTIAL", "FINISHED"}
Type == {"ISSUE_REQUEST", "ISSUE"}
\* gi: GoodsIssue.status, 0 if the slip has no row there; items: does it have
\* its line in InventoryTransaction_Item?  actual: the quantity of that line.
NoSlip == [state |-> "absent", status |-> "DRAFT", type |-> "ISSUE_REQUEST",
           gi |-> 0, items |-> FALSE, actual |-> 0]
\* entity: the InventoryTransaction in memory; seen: the stock that was read.
Idle == [op |-> "none", at |-> "idle", slips |-> {}, status |-> "DRAFT",
         type |-> "ISSUE_REQUEST", quantity |-> 0, seen |-> 0]

At(r, label) == task[r].at = label
Present(s) == slip[s].state = "present"

\* A confirmation has updated the rows of s and not committed.
Locked(s) == \E r \in Request : At(r, "deduct") /\ s \in task[r].slips

----------------------------------------------------------------------------

Begin(r, t) ==
    /\ At(r, "idle")
    /\ requests < MaxRequest
    /\ requests' = requests + 1
    /\ task' = [task EXCEPT ![r] = [t EXCEPT !.at = "write"]]
    /\ UNCHANGED <<slip, stock, received, handed>>

\* The slip as it was read, and the status the entity will be given.
Read(o, s, status) ==
    [Idle EXCEPT !.op = o, !.slips = {s}, !.status = status, !.type = slip[s].type]

\* Mutant: only the stock itself is compared with the limit.
FitsBefore(q) == stock <= MaxStock

Fits(q) == stock + q <= MaxStock

ReadImport(r) ==
    \E q \in Quantity :
        Fits(q) /\ Begin(r, [Idle EXCEPT !.op = "import", !.quantity = q, !.seen = stock])

\* Neither looks at the status of the slip.
ReadApprove(r) ==
    \E s \in Slip : /\ Present(s)
                    /\ \/ Begin(r, Read("approveStep", s, "PENDING_APPROVAL"))
                       \/ \E q \in Quantity \cup {slip[s].actual} :
                             Begin(r, [Read("approve", s, "APPROVED") EXCEPT !.quantity = q])
ReadEscalate(r) ==
    \E s \in Slip : Present(s) /\ Begin(r, Read("escalate", s, "PENDING_APPROVAL"))

ReadReject(r) ==
    \E s \in Slip : /\ Present(s) /\ slip[s].status = "PENDING_APPROVAL"
                    /\ Begin(r, Read("reject", s, "REJECTED"))

ReadDelete(r) ==
    \E s \in Slip : /\ Present(s) /\ slip[s].status = "DRAFT"
                    /\ Begin(r, Read("delete", s, "DRAFT"))

ReadConfirm(r) ==
    \E s \in Slip, q \in Quantity \cup {0}, status \in {"PARTIAL", "FINISHED"} :
        Present(s) /\ Begin(r, [Read("confirm", s, status) EXCEPT !.quantity = q])

\* Handlers that decide on nothing they read before.
Create(r) ==
    /\ At(r, "idle") /\ requests < MaxRequest
    /\ requests' = requests + 1
    /\ \E q \in Quantity : q <= stock
    /\ \E s \in Slip, submitted \in BOOLEAN :
          /\ slip[s].state = "absent"
          /\ slip' = [slip EXCEPT ![s] =
                [NoSlip EXCEPT !.state = "present", !.items = TRUE,
                               !.status = IF submitted THEN "PENDING_APPROVAL" ELSE "DRAFT",
                               !.gi = IF submitted THEN 2 ELSE 1]]
    /\ UNCHANGED <<stock, task, received, handed>>

Resubmit(r) ==
    /\ At(r, "idle") /\ requests < MaxRequest
    /\ requests' = requests + 1
    /\ \E s \in Slip :
          /\ Present(s) /\ ~Locked(s)
          /\ slip' = [slip EXCEPT ![s].status = "PENDING_APPROVAL",
                                  ![s].gi = IF @ = 0 THEN 0 ELSE 2,
                                  ![s].items = TRUE, ![s].actual = 0]
    /\ UNCHANGED <<stock, task, received, handed>>

----------------------------------------------------------------------------

End(r) == task' = [task EXCEPT ![r] = Idle]

SaveImport(r) ==
    /\ At(r, "write") /\ task[r].op = "import"
    /\ stock' = task[r].seen + task[r].quantity
    /\ received' = received + task[r].quantity
    /\ End(r)
    /\ UNCHANGED <<slip, requests, handed>>

\* The code of GoodsIssue.status that goes with the new status.
GoodsIssue(r, gi) ==
    CASE gi = 0 -> 0
      [] gi # 0 /\ task[r].op \in {"approveStep", "escalate"} -> gi + 1
      [] gi # 0 /\ task[r].op = "approve" -> 4
      [] gi # 0 /\ task[r].op = "reject" -> 5
      [] gi # 0 /\ task[r].op = "confirm" -> IF task[r].status = "FINISHED" THEN 1 ELSE 2

\* Mutant: what was handed out before is added up.
SavedAdding(r, s) ==
    [slip[s] EXCEPT !.state = "present", !.status = task[r].status, !.type = task[r].type,
                    !.gi = GoodsIssue(r, @),
                    !.actual = IF slip[s].items /\ task[r].op \in {"approve", "confirm"}
                               THEN @ + task[r].quantity ELSE @]

\* The UPDATEs of the other tables change the rows that are still there.
Saved(r, s) ==
    [slip[s] EXCEPT !.state = "present", !.status = task[r].status, !.type = task[r].type,
                    !.gi = GoodsIssue(r, @),
                    !.actual = IF slip[s].items /\ task[r].op \in {"approve", "confirm"}
                               THEN task[r].quantity ELSE @]

\* Mutant: whether the slip was handed out already is not asked.
DeductsAgain(r) == task[r].op = "confirm" /\ task[r].status = "FINISHED"

\* Mutant: a store that has too little is left alone.
DeductsIfEnough(r) ==
    /\ task[r].op = "confirm" /\ task[r].status = "FINISHED"
    /\ task[r].type # "ISSUE" /\ task[r].quantity <= stock

\* confirmIssue takes the goods from the stock when the slip is finished and
\* was not before, as far as the entity knows.
Deducts(r) ==
    /\ task[r].op = "confirm" /\ task[r].status = "FINISHED"
    /\ task[r].type # "ISSUE"

\* The mapper inserts a slip that was deleted meanwhile again.
SaveSlip(r) ==
    /\ At(r, "write")
    /\ task[r].op \notin {"import", "delete"} /\ ~Deducts(r)
    /\ \E s \in task[r].slips : ~Locked(s) /\ slip' = [slip EXCEPT ![s] = Saved(r, s)]
    /\ End(r)
    /\ UNCHANGED <<stock, requests, received, handed>>

Delete(r) ==
    /\ At(r, "write") /\ task[r].op = "delete"
    /\ \E s \in task[r].slips :
          ~Locked(s) /\ slip' = [slip EXCEPT ![s] = [NoSlip EXCEPT !.state = "gone"]]
    /\ End(r)
    /\ UNCHANGED <<stock, requests, received, handed>>

\* The rows of the slip are updated and locked; then the stock is read.
UpdateSlip(r) ==
    /\ At(r, "write") /\ Deducts(r)
    /\ \A s \in task[r].slips : ~Locked(s)
    /\ task' = [task EXCEPT ![r].at = "deduct", ![r].seen = stock]
    /\ UNCHANGED <<slip, stock, requests, received, handed>>

HandedSlip(r, s) == [Saved(r, s) EXCEPT !.type = "ISSUE"]

Deduct(r) ==
    /\ At(r, "deduct")
    /\ stock' = IF task[r].quantity = 0 THEN stock ELSE task[r].seen - task[r].quantity
    /\ \E s \in task[r].slips :
          /\ slip' = [slip EXCEPT ![s] = HandedSlip(r, s)]
          /\ handed' = [handed EXCEPT ![s] = task[r].quantity]
    /\ End(r)
    /\ UNCHANGED <<requests, received>>

\* A statement fails: the transaction is rolled back.
Fail(r) ==
    /\ ~At(r, "idle")
    /\ End(r)
    /\ UNCHANGED <<slip, stock, requests, received, handed>>

----------------------------------------------------------------------------

Init ==
    /\ slip = [s \in Slip |-> NoSlip]
    /\ stock = 0
    /\ task = [r \in Request |-> Idle]
    /\ requests = 0
    /\ received = 0
    /\ handed = [s \in Slip |-> None]

Arrival(r) ==
    \/ ReadImport(r) \/ ReadApprove(r) \/ ReadEscalate(r) \/ ReadReject(r)
    \/ ReadDelete(r) \/ ReadConfirm(r) \/ Create(r) \/ Resubmit(r)

Progress(r) == SaveImport(r) \/ SaveSlip(r) \/ Delete(r) \/ UpdateSlip(r) \/ Deduct(r)

\* Nothing is in flight and nobody sends anything any more.
Quiescent == (\A r \in Request : At(r, "idle")) /\ UNCHANGED vars

Next == (\E r \in Request : Arrival(r) \/ Progress(r) \/ Fail(r)) \/ Quiescent

Spec == Init /\ [][Next]_vars

\* The server goes on with what it began.
FairSpec == Spec /\ \A r \in Request : WF_vars(Progress(r))

----------------------------------------------------------------------------

SlipRow == [state : {"absent", "present", "gone"}, status : Status, type : Type,
            gi : Nat, items : BOOLEAN, actual : Quantity \cup {0}]
TaskRecord ==
    [op : {"none", "import", "approve", "approveStep", "escalate", "reject", "delete",
           "confirm"},
     at : {"idle", "write", "deduct"}, slips : SUBSET Slip, status : Status, type : Type,
     quantity : Quantity \cup {0}, seen : Int]

\* The rows of slips and stock, and what a request keeps of them.
TypeOK ==
    /\ slip \in [Slip -> SlipRow]
    /\ stock \in Int
    /\ task \in [Request -> TaskRecord]
    /\ requests \in Nat /\ received \in Nat
    /\ handed \in [Slip -> Quantity \cup {0, None}]

\* importStock beside confirmations and other receipts: the stock never passes
\* the limit, although it is compared with a stock read earlier.
StockCap == stock <= MaxStock

\* confirmIssue, with other handlers saving the same slip: a finished slip, and
\* one that counts as issued, took its goods from the stock.
FinishedIsHanded ==
    \A s \in Slip :
        (slip[s].status = "FINISHED" \/ slip[s].type = "ISSUE") => handed[s] # None

\* importStock and confirmIssue: a confirmation takes its quantity from the
\* stock, and a receipt adds its own.
StockIsRight ==
    [][ \A r \in Request :
          (task[r] # Idle /\ task'[r] = Idle /\ stock' # stock) =>
              stock' = stock + (IF task[r].op = "import" THEN 1 ELSE -1) * task[r].quantity ]_vars
=============================================================================
