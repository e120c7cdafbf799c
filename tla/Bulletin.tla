------------------------------- MODULE Bulletin -------------------------------
(***************************************************************************)
(* ONE bulletin of the intranet: written by its author, submitted, approved *)
(* step by step along the workflow of its department, which an             *)
(* administrator may replace by any other at any time, and published.      *)
(* Every handler reads the bulletin with its history, decides on what it   *)
(* read, saves the entity and only then writes the history row; there is   *)
(* no transaction around the three and no lock.  The permission tables do  *)
(* not change: a request is sent by somebody who passes the check its      *)
(* handler makes.                                                          *)
(***************************************************************************)
EXTENDS Naturals, EntityManager

CONSTANTS
    Request,     \* HTTP requests that can be in flight together
    Contents,    \* what the author may write
    Steps,       \* the largest step_order in a workflow of the department
    MaxRequest,  \* bound: HTTP requests in a behaviour
    MaxFailure,  \* bound: statements that fail in a behaviour
    NoRow

Status == {"DRAFT", "PENDING", "APPROVED", "PUBLISHED", "REJECTED", "REQUIRE_EDIT"}
Editable == {"DRAFT", "REJECTED", "REQUIRE_EDIT"}
Bulletins == [status : Status, step : 1..Steps, content : Contents, views : Nat]

ASSUME BulletinAssumption ==
    /\ Steps \in Nat \ {0}
    /\ MaxRequest \in Nat /\ MaxFailure \in Nat
    /\ Contents # {}
    /\ NoRow \notin Bulletins

VARIABLES
    row,         \* the row of bulletins, or NoRow
    histories,   \* ids of its rows in bulletin_approval_histories
    lastHistory, \* the last id given to a history row
    configured,  \* the step_orders that the workflow table has for the department
    requests, failures,  \* counted for the bounds
    task,        \* what a request runs: the handler, what it does next, its
                 \* copy of the bulletin, the histories of that copy, the
                 \* columns its save will write
    signed,      \* history: steps approved since the content was submitted
    kept,        \* history: steps in every workflow since the submission
    approvals    \* history: was any approval ever written?

table == <<row, histories, lastHistory, configured>>
bounds == <<requests, failures>>
ghosts == <<signed, kept, approvals>>
vars == <<table, bounds, task, ghosts>>

Phase == {"idle", "step", "next", "save", "write", "insert", "log",
          "dropHistories", "dropRow", "addSteps"}
Operation == {"none", "update", "submit", "approve", "reject", "publish",
              "unpublish", "view", "delete", "workflow"}
Idle == [at |-> "idle", op |-> "none", entity |-> NoRow, loaded |-> {}, columns |-> {}]

At(s, phase) == task[s].at = phase
EntityOf(s) == task[s].entity

\* The handler goes on with these local variables, or is over.
Continue(s, phase, t) ==
    task' = [task EXCEPT ![s] = IF phase = "idle" THEN Idle ELSE [t EXCEPT !.at = phase]]
Goto(s, phase) == Continue(s, phase, task[s])

----------------------------------------------------------------------------
(* How a request begins: findOne, its guards, and the assignments to the   *)
(* entity that depend on nothing else.                                     *)

Begin(s, o, phase, e) ==
    /\ At(s, "idle")
    /\ requests < MaxRequest
    /\ requests' = requests + 1
    /\ Continue(s, phase, [Idle EXCEPT !.op = o, !.entity = e, !.loaded = histories])
    /\ UNCHANGED <<table, failures, ghosts>>

Update(s) ==
    /\ row # NoRow /\ row.status \in Editable
    /\ \E c \in Contents : Begin(s, "update", "save", [row EXCEPT !.content = c])

Submit(s) ==
    /\ row # NoRow /\ row.status \in Editable
    /\ Begin(s, "submit", "save", [row EXCEPT !.status = "PENDING", !.step = 1])

Approve(s) ==
    /\ row # NoRow /\ row.status = "PENDING"
    /\ Begin(s, "approve", "step", row)

\* reject asks for no particular status.
Reject(s) ==
    /\ row # NoRow
    /\ Begin(s, "reject", "step", [row EXCEPT !.status = "REJECTED"])

\* Mutant: the status is not looked at.
PublishAny(s) ==
    /\ row # NoRow
    /\ Begin(s, "publish", "save", [row EXCEPT !.status = "PUBLISHED"])

Publish(s) ==
    /\ row # NoRow /\ row.status = "APPROVED"
    /\ Begin(s, "publish", "save", [row EXCEPT !.status = "PUBLISHED"])

Unpublish(s) ==
    /\ row # NoRow /\ row.status = "PUBLISHED"
    /\ Begin(s, "unpublish", "save", [row EXCEPT !.status = "APPROVED"])

View(s) ==
    /\ row # NoRow
    /\ Begin(s, "view", "save", [row EXCEPT !.views = @ + 1])

Delete(s) ==
    /\ row # NoRow
    /\ Begin(s, "delete", "dropHistories", row)

----------------------------------------------------------------------------
(* The steps of the department, which approve and reject read.             *)

Decided(s, phase, e) ==
    /\ Continue(s, phase, [task[s] EXCEPT !.entity = e])
    /\ UNCHANGED <<table, bounds, ghosts>>

Approved(s) == [EntityOf(s) EXCEPT !.status = "APPROVED"]

\* The step exists: its approver goes on.  It does not: whoever may approve
\* news approves the bulletin outright.
ReadStep(s) ==
    /\ At(s, "step")
    /\ \/ task[s].op = "reject" /\ Decided(s, "save", EntityOf(s))
       \/ /\ task[s].op = "approve" /\ EntityOf(s).step \in configured
          /\ Decided(s, "next", EntityOf(s))
       \/ /\ task[s].op = "approve" /\ EntityOf(s).step \notin configured
          /\ Decided(s, "save", Approved(s))

\* Mutant: the step in hand is looked up, not the next one.
HasNextConfigured(s) == EntityOf(s).step \in configured

HasNext(s) == EntityOf(s).step + 1 \in configured

\* Mutant: the step in hand is taken for the last.
ReadNextTooFew(s) == At(s, "next") /\ Decided(s, "save", Approved(s))

ReadNext(s) ==
    /\ At(s, "next")
    /\ \/ HasNext(s) /\ Decided(s, "save", [EntityOf(s) EXCEPT !.step = @ + 1])
       \/ ~HasNext(s) /\ Decided(s, "save", Approved(s))

\* updateWorkflow: delete the rows, then insert what the administrator sends,
\* any list of steps and also none.
DeleteSteps(s) ==
    /\ At(s, "idle")
    /\ requests < MaxRequest
    /\ requests' = requests + 1
    /\ configured' = {}
    /\ Continue(s, "addSteps", [Idle EXCEPT !.op = "workflow"])
    /\ UNCHANGED <<row, histories, lastHistory, failures, ghosts>>

AddSteps(s) ==
    /\ At(s, "addSteps")
    /\ \E S \in SUBSET (1..Steps) :
          configured' = configured \cup S /\ kept' = kept \cap S
    /\ Goto(s, "idle")
    /\ UNCHANGED <<row, histories, lastHistory, bounds, signed, approvals>>

----------------------------------------------------------------------------
(* save(entity).                                                           *)

AfterSave(s) == IF task[s].op \in {"update", "view"} THEN "idle" ELSE "log"

\* The history got rows that the entity does not list.  The mapper wants to
\* detach them, bulletin_id is NOT NULL, and the save fails.
IsStale(s) == ~(histories \subseteq task[s].loaded)

\* The mapper reads the row again.
SelectForSave(s) ==
    /\ At(s, "save")
    /\ \/ row = NoRow /\ Goto(s, "insert")
       \/ row # NoRow /\ IsStale(s) /\ Goto(s, "idle")
       \/ /\ row # NoRow /\ ~IsStale(s)
          /\ Continue(s, IF EntityOf(s) = row THEN AfterSave(s) ELSE "write",
                      [task[s] EXCEPT !.columns = Differing(EntityOf(s), row)])
    /\ UNCHANGED <<table, bounds, ghosts>>

\* The step an approval stands for.
StepOf(e) == IF e.status = "APPROVED" THEN e.step ELSE e.step - 1

SignedAfter(s, r) ==
    IF task[s].op = "submit" \/ r.content # row.content THEN {}
    ELSE IF task[s].op = "approve" /\ EntityOf(s).content = row.content
         THEN signed \cup {StepOf(EntityOf(s))}
    ELSE signed

\* An UPDATE of a row that is gone changes nothing.
Write(s) ==
    /\ At(s, "write")
    /\ \/ row = NoRow /\ UNCHANGED <<row, ghosts>>
       \/ /\ row # NoRow
          /\ row' = Updated(row, EntityOf(s), task[s].columns)
          /\ signed' = SignedAfter(s, row')
          /\ kept' = IF task[s].op = "submit" THEN configured ELSE kept
          /\ approvals' = (approvals \/ task[s].op = "approve")
    /\ Goto(s, AfterSave(s))
    /\ UNCHANGED <<histories, lastHistory, configured, bounds>>

\* The mapper found no row and inserts one; if it is there by now the key is
\* taken and the save fails.
Insert(s) ==
    /\ At(s, "insert")
    /\ \/ /\ row = NoRow /\ row' = EntityOf(s)
          /\ approvals' = (approvals \/ task[s].op = "approve")
          /\ Goto(s, AfterSave(s))
       \/ row # NoRow /\ Goto(s, "idle") /\ UNCHANGED <<row, approvals>>
    /\ UNCHANGED <<histories, lastHistory, configured, bounds, signed, kept>>

LogHistory(s) ==
    /\ At(s, "log")
    /\ lastHistory' = lastHistory + 1
    /\ histories' = histories \cup {lastHistory + 1}
    /\ Goto(s, "idle")
    /\ UNCHANGED <<row, configured, bounds, ghosts>>

----------------------------------------------------------------------------
(* delete: the history first, then the bulletin.                           *)

DropHistories(s) ==
    /\ At(s, "dropHistories")
    /\ histories' = {}
    /\ Goto(s, "dropRow")
    /\ UNCHANGED <<row, lastHistory, configured, bounds, ghosts>>

DropRow(s) ==
    /\ At(s, "dropRow")
    /\ row' = NoRow
    /\ Goto(s, "idle")
    /\ UNCHANGED <<histories, lastHistory, configured, bounds, ghosts>>

\* A statement fails: what was written before it stays.
Fail(s) ==
    /\ ~At(s, "idle") /\ failures < MaxFailure
    /\ failures' = failures + 1
    /\ Goto(s, "idle")
    /\ UNCHANGED <<table, requests, ghosts>>

----------------------------------------------------------------------------

\* create: the author saves the first version as a draft.
Init ==
    /\ row \in [status : {"DRAFT"}, step : {1}, content : Contents, views : {0}]
    /\ histories = {} /\ lastHistory = 0
    /\ configured \in SUBSET (1..Steps)
    /\ requests = 0 /\ failures = 0
    /\ task = [s \in Request |-> Idle]
    /\ signed = {} /\ kept = configured /\ approvals = FALSE

Arrival(s) ==
    \/ Update(s) \/ Submit(s) \/ Approve(s) \/ Reject(s)
    \/ Publish(s) \/ Unpublish(s) \/ View(s) \/ Delete(s) \/ DeleteSteps(s)

Progress(s) ==
    \/ ReadStep(s) \/ ReadNext(s) \/ AddSteps(s)
    \/ SelectForSave(s) \/ Write(s) \/ Insert(s) \/ LogHistory(s)
    \/ DropHistories(s) \/ DropRow(s)

Quiescent == (\A s \in Request : At(s, "idle")) /\ UNCHANGED vars

Next == (\E s \in Request : Arrival(s) \/ Progress(s) \/ Fail(s)) \/ Quiescent

Spec == Init /\ [][Next]_vars

----------------------------------------------------------------------------

\* The bulletin, the tables and the requests hold what the code stores there;
\* current_step in particular never passes the largest step of a workflow.
TypeOK ==
    /\ row \in Bulletins \cup {NoRow}
    /\ histories \subseteq 1..lastHistory /\ lastHistory \in Nat
    /\ configured \subseteq 1..Steps /\ requests \in Nat /\ failures \in Nat
    /\ task \in [Request ->
          [at : Phase, op : Operation, entity : Bulletins \cup {NoRow},
           loaded : SUBSET (1..lastHistory),
           columns : SUBSET {"status", "step", "content", "views"}]]
    /\ \A s \in Request : task[s].at \in {"step", "next", "save", "write", "insert"}
                             => EntityOf(s) # NoRow
    /\ signed \subseteq 1..Steps /\ kept \subseteq 1..Steps /\ approvals \in BOOLEAN

\* approve, update, reject, updateWorkflow: an approved or published bulletin
\* carries the approval of every step up to the one it stands at, and of every
\* step that no rewriting of the workflow took away, or cut off from the first,
\* since the submission; all given to the content it has now.
AllStepsApproved ==
    (row # NoRow /\ row.status \in {"APPROVED", "PUBLISHED"}) =>
        \A n \in 1..Steps : (n <= row.step \/ 1..n \subseteq kept) => n \in signed

\* approve and publish, whatever runs beside them and whatever fails: a
\* bulletin is never published that nobody ever approved.
NothingUnapproved == (row # NoRow /\ row.status = "PUBLISHED") => approvals
=============================================================================
