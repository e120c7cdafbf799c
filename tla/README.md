# Verification of the EOffice back end

This directory holds TLA+ models of the back end (`src/backend_nest`), the TLC
configurations that check them on small instances, and proofs that hold for
every instance. All paths below are relative to `src/backend_nest/src/`, and
"runtime" is `bpmn/runtime-dbmssql.service.ts`.

    tlc -config stage_serial.cfg MCOutgoing     # the module of each .cfg: section 4
    tlapm OutgoingWorkflow_proofs.tla           # likewise every module *_proofs

## 1. The system

EOffice is the office system of a group of companies: incoming and outgoing
documents that circulate along BPMN models, and around them meetings, tasks,
cars, office supplies, passports, bulletins and a social security programme.
It is a NestJS application over SQL Server. Every operation is an HTTP request;
there is no queue and no lock in the process, and requests of different users
interleave freely at their database statements. Several instances may run.

| component | state it keeps | operations | what makes it correct |
|---|---|---|---|
| circulation of outgoing documents (runtime) | `work_items`, `outgoing_document_users` (signers), `audit`, `outgoing_current_state`, the document's status | `createDocumentAtNodeOutgoing`, `setProcessor`, `returnWorkItemOutgoing`, `recallWorkItemOutgoing`, `completeOutgoingWorkItem`, `signDoc` | the document always waits for somebody; it is at one step; a step is left only when all its signers signed; a return voids what it must and nothing else |
| concurrent stages (`bpmn/concurrent-stage.orchestrator.ts`) | none: computed from the model and the open items | `handleTargetNode`, `markNodeProcessed` | a stage is left once, when its priority nodes are through |
| BPMN engine (`bpmn/bpmn-engine.service.ts`) | cached models | parse, flows, lanes, properties | answers are those of the XML |
| circulation of incoming documents (runtime) | the same tables for incoming documents, viewers, supporters | `completeWorkItem`, `completeSuport`, `returnWorkItem`, `recallWorkItem`, `processDocumentv2` | as above, and the supporters' part |
| work-items API (`work-items/`) | none | dispatch by action code, notifications | each action reaches its handler |
| office supplies (`vpp/`) | inventories, slips (`InventoryTransaction`), `GoodsIssue` | import, issue request, approve, reject, escalate, resubmit, confirm, delete | stock equals receipts minus what was handed out; a slip is handed out once; the stock stays below its limit |
| social security programme (`asxh/`) | programmes, disbursements, detail lines, the sequence of a programme | create, submit, edit, update status, delete, check budget | no approval step is jumped but by a status that a form sends; what was approved does not change; numbers are unique |
| numbers of incoming documents (`database/sqlRepo.mssql.ts`) | `incomming_documents`, `book_documents.count` | assign, change book, update, create, copy, generate a code, delete | a number that the server looks for is nobody's, no hole is left, the next form shows a free number |
| numbers of outgoing documents (`database/sqlRepo.mssql.ts`, `book-documents/`) | `outgoing_documents.to_book`, `book_documents.count`, `document_number_reservations` | set number, delete, reserve, use | a number is used once; nobody reserves a number in use |
| bulletins (`bulletins/workflow/`) | the bulletin, its approval history, the steps of the department | create, update, submit, approve, reject, publish, unpublish, delete, replace the workflow | nothing unapproved is published; every step that stays in the workflow approves; a deleted one stays away |
| news | articles and their approval | submit, approve, publish | as bulletins |
| meal booking (`meal/`) | registrations, check-ins | register, cancel, check in | one registration per person and meal |
| vehicles, rooms, meetings | bookings | book, approve, cancel, cron | no overlapping bookings |
| tasks, passports, archive, destruction, duty schedules, projects | rows | CRUD and approvals | permissions |
| signing, WOPI, notifications, user synchronisation, authentication | sessions, tokens, files | calls to external services | outside the document logic |
| front end (`fe-tancang`) | none of its own | forms | it offers the flows of the model |

How the circulation works: the front end
(`fe-tancang/src/components/SigningSubmission/index.js`) posts an action code
and optional assignees; `work-items.service.ts` calls `setProcessor` or
`returnWorkItemOutgoing`; these read the item, the audit trail and the model,
decide where the document goes and to whom, and then run one transaction that
removes work items, marks the signature, updates audit rows, asks the
orchestrator how the stage stands, inserts the next work items and sets the
status. The orchestrator calls back into the runtime to close the covered
nodes and to choose the exit.

What is hard in the circulation: everything before `repo.begin()` (runtime 10932, 6706) is read
without a lock and used after it; two reads inside the transaction go through
the pool and not through the transaction (runtime 10963, 11187); some writes
happen before the transaction and stay if it fails (runtime 10575, 10766);
nothing but the row locks of SQL Server orders two requests.

The other modelled parts share one pattern: a handler reads a row without a
lock, decides on what it read, and saves it. The parts meet in the database
only: `OutgoingBook` is about the numbers of the documents that
`OutgoingWorkflow` circulates, but no handler of the one reads what the other
writes, so they are not composed. What is hard there: `save` of the object
mapper writes every column in which the entity in memory differs from the row
as it is now, also those another request changed in between; it inserts a row
it does not find; the bulletin service runs without transactions, so its
statements fail one by one; and four handlers lock books and documents in
different orders. PROJECT.json lists the hazards at their lines with the
properties that watch them.

## 2. Modules

| module | models |
|---|---|
| `ConcurrentStage` | pure operators on the process model: stage membership, coverage, completion, exit, search for the next step with signers |
| `OutgoingWorkflow` | one outgoing document, its tables and any number of requests in flight; EXTENDS `ConcurrentStage` |
| `MCOutgoing` | three small process models and their users for TLC |
| `OutgoingWorkflow_proofs` | theorems about `OutgoingWorkflow` and the operators of `ConcurrentStage` |
| `EntityManager` | what `repository.save(entity)` of the object mapper does to an existing row |
| `Bulletin`, `MCBulletin` | one bulletin and the workflow of its department |
| `Bulletin_proofs` | theorems about `MCBulletin` |
| `NumberBook` | abstract: what a book of incoming documents promises |
| `IncomingBook` | the handlers that number incoming documents, with their locks; implements `NumberBook` |
| `IncomingBook_proofs` | theorems about `IncomingBook`, the refinement among them |
| `OutgoingBook`, `MCNumbers` | the numbers of outgoing documents in one book, and the reservations |
| `MCNumbers_proofs` | theorems about `MCNumbers` |
| `StockLedger` | abstract: what the store of one product promises |
| `Inventory`, `MCStock` | one product and its slips; one request at a time it implements `StockLedger` |
| `Inventory_proofs`, `MCStock_proofs` | theorems about `Inventory`; the refinement of `StockLedger` |
| `Disbursement`, `MCDisbursement` | the disbursements of one item of a programme |
| `Disbursement_proofs`, `MCDisbursement_proofs` | theorems about `Disbursement`, and with the history of overlaps |

The parts below are each a transition system of their own; `EntityManager` is
the operator module that `Bulletin` and `Disbursement` share.

### State of OutgoingWorkflow

| variable | code |
|---|---|
| `workItems` | open rows of `work_items`; an item is the request that made it, its node and its assignee |
| `signers` | `outgoing_document_users`: per signer type and user absent, pending or signed |
| `audit`, `auditId` | rows of `audit` reduced to source, target, author, receiver, lane, return flag and "still waiting" (`stage_status` CHUA_XU_LY or a waiting status) |
| `docStatus` | the status of the document, named by the node whose `statusCode` it carries |
| `docLock` | the transaction that has updated the document's row in `outgoing_current_state` |
| `fresh` | history variable: signatures given since the last return; no action reads it |
| `pc`, `request`, `next`, `assignees`, `last` | the local variables of a request: what it read, `nextNode`, `assignees`, `isLastSigner` |
| `del`, `mark`, `ins`, `cover`, `outcome` | uncommitted effects of its transaction |

### Actions of OutgoingWorkflow

    setProcessor                       returnWorkItemOutgoing
      ReadForward      10317-10535       ReadReturn        6555-6704
      ResetSigners     10571-10605       RemoveOwn         6706-6710
      ResolveEnd /                       WipeDownstream    6712-6770
        ResolveChosen /                  TouchAudit        6828-6838
        ResolveAutomatic /               CommitReturn      6772-6845
        Refuse         10606-10931
      CountSigners     10948-10968     AlreadyCompleted    10999, 6710
      MarkAndRemove    10970-11003     DeadlockVictim      SQL Server
      TouchAudit       11005-11062     Fail                catch blocks
      StageWaits / StageExits /
        Advance        11064-11386
      CommitForward    11352-11417

Each request runs this sequence; between any two of its actions another
request may run. An action is a run of statements between which another
request can change nothing the rest of the run depends on: e.g. marking the
signature and removing items are one action, since both are blind writes of
rows the transaction locks.

### Isolation in OutgoingWorkflow

A statement sees the committed rows and those its own transaction wrote; rows
that a transaction deleted or updated stay locked until it ends, and a
statement that writes a row another transaction locked waits (`WaitsFor`).
Reads never wait: this is
READ COMMITTED with row versioning (READ_COMMITTED_SNAPSHOT). `begin()` asks
for the default level and the option is set in the database, which is not in
the repository, but the code runs under no other: `setProcessor` reads
`work_items` (runtime 11187) and the signers (`resolveConcurrentPriorityAdvanceContext`)
through the pool, on another connection, while its own transaction has deleted
and updated rows of those tables. Under locking READ COMMITTED these reads
would wait for the transaction that waits for them, and no document could enter
a stage. A cycle of waiting transactions
is resolved by rolling one of them back (`DeadlockVictim`, any member, since
which one is the database's choice).

Every audit write ends with a MERGE into `outgoing_current_state`, one row per
document (`database/sqlRepo.mssql.ts` 4486). `docLock` is the lock on it. It is
taken by the first audit write of the transaction that touches a row: always
for a return and for a signature, otherwise only when an audit row matches.
That lock is what makes commits that create items mutually exclusive; no
comment in the code says so, and section 5 proves what rests on it.

### What OutgoingWorkflow abstracts

 - An item is identified by (request, node, user) instead of a GUID.
 - Audit rows are ordered by identity. The code sorts by time, then
   `created_at`; rows of one transaction get the same number here.
 - `from` of the first audit row is the start event, which is not a `Node`; it
   is written `None`.
 - Gateways and service tasks: `Flow` holds the interactive successor that
   `nextInteractiveFromFlow` finds. Gateway conditions are the client's choice.
 - Signer type `signStamp`, digital signatures, the sequential signing order,
   delegation, viewers, deadlines, notes, notifications, names.
 - Return actions sent to `setProcessor` (the client sends them to
   `returnWorkItemOutgoing`) and recalls (section 6).
 - The tie between exits of equal rank is left open instead of decided by id.
 - A request is sent by the assignee of its item.
 - `replaceRuntimeSigners` is one step; it is a delete and inserts in the code.
 - Row locks on audit rows other than through the document row.
 - `advanceContext.statusDoc` is computed but not used by the caller
   (runtime 11110-11116), so the status after an exit is the status of the
   step the request named; the model keeps this.
 - With `Resubmit = FALSE` a user does not send an item twice while the first
   request is being processed (the form shows a spinner meanwhile, which another
   tab does not). The runs leave it FALSE; with TRUE a repeated request counts
   the other signer as itself and closes the step for it.

### Bulletins

`Bulletin` follows one bulletin (`bulletins/workflow/bulletin-workflow.service.ts`).

| variable | code |
|---|---|
| `row` | its row: status, current step, content, views |
| `histories`, `lastHistory` | ids of its rows in `bulletin_approval_histories` |
| `configured` | the step numbers that the workflow table has for its department |
| `task` | the handler a request is in: the entity it read, the history rows it loaded with it, the columns its UPDATE will name |
| `signed`, `kept`, `approvals` | history: steps approved since the content was submitted; steps that were in every workflow since then; was any approval ever written |

A handler is `findOne` and its guards (`Update`, `Submit`, `Approve`, `Reject`,
`Publish`, `Unpublish`, `View`, `Delete`), the reads of the workflow
(`ReadStep`, `ReadNext`), the save (`SelectForSave`, then `Write` or `Insert`)
and the history row (`LogHistory`). There is no transaction, so each is a
commit and `Fail` stops between any two. `save` is modelled by what TypeORM
does: it selects the row again, compares, and updates only the columns that
differ; without a row it inserts. `findOne` loads the history with the
bulletin; when rows were added since, the mapper tries to detach them,
`bulletin_id` is NOT NULL, and the save fails (`IsStale`).

`updateWorkflow` is two commits: `DeleteSteps` takes all steps of the department
away and `AddSteps` inserts whatever the administrator sent: any list, also a
shorter one or none. A bulletin that is pending meanwhile keeps its number of
the step, which now means another step, or none; where there is none, a
single approval ends the matter. The code gives no more than
`StepsApprovedInTurn` says: steps that the new workflow lost or got need not
approve, those that stayed must.

`BulletinScheduleCronService` (publication and withdrawal at a set time) is in no
module's providers, so it never runs; it is not modelled, and nothing is claimed
of bulletins that are due.

### Numbers of incoming documents

`IncomingBook` has eleven operations over any number of books
(`database/sqlRepo.mssql.ts`). `Path` lists what each locks, in its order; the
last three are one statement each.

| operation | code |
|---|---|
| `Assign` | `assignBookToDocuments` 12793: documents without a book, whatever their status |
| `Change` | `changeIncomingDocumentBook` 12942 |
| `Refile`, `Keep`, `Edit` | `updateDocument` 6941 with a book and no number (another book; the same), and with a number of the client's |
| `OpenForm`, `Enter` | `createDocument` 2076 with the number the form showed, and with another |
| `Generate` | `generateToBookCode` 13305, which an administrator calls |
| `File` | insertions that do not count: no number, or no book (2094; drafts, runtime 1253) |
| `Copy` | `cloneIncomingDocument` (runtime 8404): the row again, book and number included |
| `Withdraw` | `deleteDocument` 1582, also of documents without a book; other soft deletions have the same effect |

| variable | code |
|---|---|
| `docs` | `incomming_documents`: status, book, `to_book_code`; `lookedUp` is history: whether the number came from a search (or the form's count) or from a client or a copy |
| `count` | `book_documents.count`: the number the next form shows |
| `owner` | the transaction that holds the update lock of a book or of a document |
| `task` | a request: handler, statement, documents, book, the number it read or got, and the numbers it has written and not committed |

`Lock` is a SELECT with UPDLOCK (or the lock an UPDATE takes), `GiveNumber` the
search for the first free number, `Commit` the rows and the count, which the
handlers compute in different ways (`NextCount`). `IncreaseCount` and `Insert`
are createDocument, whose number nobody compares with those of the book. A
refused request (`Refuse`) and a failure give back everything.

A number the client sends to `updateDocument` is stored as it is, and if the
book has it already the count is left alone (13212). So two documents of a book
can have one number, with one request at a time. `UniqueCode`, `CountIsFree` and
`HolesFilled` are therefore about `lookedUp` numbers, in books where clients
and copies write what they like: what the server searches for must still not
collide with what it searched for before. `updateDocument` requires a book with
a number unless a configuration makes it optional (`validateRequiredTextFields`);
book 0 passes that check and is stored as no book (`None` in `Edit`).

`NumberBook` is what assign, change, refile and withdraw are for: a document
enters a book under a number nobody else has there, keeps it until it is moved,
and gives it back. The refinement maps each document to its book and number, or
to none if it was deleted or lacks either.

### Numbers of outgoing documents

`OutgoingBook`: `number` is `to_book` of each document of one book, `deleted` the
documents whose status is no longer ACTIVED, `reservation` the rows of
`document_number_reservations`, `count` the book's count. setNumber is `OpenForm`
(the number the form shows, computed by `findAll`, or one the user holds; number
0 stands for a number of another book, where the document goes: 15667),
`CheckDuplicate`, `Write` and `Commit`; `Delete` is `deleteOutgoingDocument`;
createReservation is `Reserve` or `ReserveNext`, `CheckReservation`,
`SaveReservation`; `Save`, `Use` and `SetReservation` change the status of a
reservation. setNumber looks at active documents only (`Given`), the form and
the reservations at all that are written (`Written`). A deletion or a move frees
a number and leaves the count as it is, so the count need not be the first free
number; what it is, `CountInTurn` says.

### Office supplies

`Inventory`: one product and its slips (`vpp/service/vpp-inventory.service.ts`).

| variable | code |
|---|---|
| `slip` | the rows of `InventoryTransaction`, `GoodsIssue` and the line of the slip |
| `stock` | `Inventories.quantity` |
| `task` | the handler: the entity it read (status, type), the quantity asked for, the stock it read |
| `received`, `handed` | history: what receipts brought and what each slip took |

A handler is a transaction that reads and decides (`Read...`) and then writes
(`SaveImport`, `SaveSlip`, `Delete`, or `UpdateSlip` and `Deduct`); createIssueRequest
and resubmitRequest decide on nothing they read before and are one step.
Between the update of a slip and the commit its rows are locked. `StockLedger`
is the store from outside: a receipt is added once and within the limit, a slip
is handed out once.

### Programme budget

`Disbursement`: the disbursements of one item of a programme
(`asxh/service/asxh.service.ts`).

| variable | code |
|---|---|
| `row` | status, step and number |
| `details` | the detail lines: their total, and which edit wrote them |
| `sequence`, `owner` | `next_sequence_no` of the programme (0: no row yet) and the transaction that holds its row |
| `task` | the handler: entity, lines, columns to write, status asked for |
| `passed`, `agreed` | history: steps whose approval was written or that a form skipped, the total when step 2 was |

createDisbursement is `Create`, `ReadSequence`, `SelectSequence`,
`WriteSequence`, `Insert`; the others read and decide (`ConfirmSubmit`,
`Update`, `UpdateStatus`) and save (`Select`, then `Write` or `InsertAgain`);
`Delete` and `Remove` are deleteDisbursement.

The status is free text in the forms of createDisbursement (682) and
updateDisbursement (785), and both store what they get beside the old step:
an edit of a draft can make it APPROVED or COMPLETED, with new lines, in one
request. `Update` and `Create` take any status, `"OTHER"` standing for those the
code does not know and for TRANSFERRED, which confirmSubmit accepts. Status and
step then disagree, until `deriveStepFromStatus` takes the status for the truth
(`DeriveStep`). What is left to claim is that nothing but such a form jumps a
step: `passed` and `agreed` count what a form skipped as passed, with the lines
it came with.

### What these modules abstract

 - Permissions: a request is sent by somebody the handler lets pass.
 - Names, notes, attachments, receivers, signatures, log rows nobody reads back.
 - `REQUIRE_EDIT` of a bulletin is in the code's lists and nothing sets it.
 - The limit of 100 attempts in the search for a number, the range locks of
   HOLDLOCK, numbers with a prefix, and the check whether a document was
   transferred.
 - Incoming documents: rows that are removed (recalled and rejected copies,
   drafts), the return of a deleted document (`outgoing.service.ts` 8798), and
   the count of certified copies (`incoming.service.ts` 9106), which moves
   another book on by one. Outgoing: the removal of draft rows.
 - A list of steps whose entries name another department (numbers of their own
   they may have: `configured` becomes any set).
 - `generateDocumentNumber()`, which `GAP_FIT_ANALYSIS.md:171` mentions, does not
   exist; the handlers of `IncomingBook` are the numbering.
 - `updateStatus` of a disbursement without a workflow key, which neither
   creation nor edit leaves behind; spellings of a status (lower case, spaces)
   that updateStatus reads as the status and the other handlers do not.
 - One product, one item, one book of outgoing documents: no handler relates two.
   A confirmation with several lines is a loop over products.
 - The stock of `createIssueRequest` is only looked at.

### History of overlaps

What the handlers guarantee when requests run one after the other is much more
than what survives when they overlap. Except in the
circulation and the incoming numbers, where runs with one request at a time and with two tell the cases apart, the
MC modules keep a history variable
(`overlapped`; `raced`, `unlocked` for narrower cases)
that tells the two apart inside one run: properties that end in `InTurn` are
about the behaviours without an overlap, the others about all behaviours. The
variables only watch: no action of the code depends on them. `MaxOverlap`
bounds the requests of a behaviour that has such an overlap, so that turns can
be longer than races.

## 3. What the properties say

| property | module | meaning |
|---|---|---|
| `TypeOK` | each | the type invariant; for bulletins also that the step never passes the largest one of any workflow, for incoming documents that a number the server looked for is in a book |
| `FlowNeverDies` | `OutgoingWorkflow` | until the end event the document has an open work item |
| `OneRegion` | | open items are at one step or in one stage |
| `NoDuplicateAssignment` | | nobody has two items of a step |
| `AllSigned`, `SignedUntilReturn` | | a signer step is handed on only when all its signers have signed; the latter until the document is sent back |
| `ExitWaitsForPriority` | | a stage is left only when no priority node is open, still true when the exit commits |
| `OnlySelectedSigners`, `SelectedUntilRework` | | only appointed signers hold items of signer steps |
| `FreshUntilRework` | | a finished document carries no signature older than its last return to the drafter |
| `ClosedWhenFinished` | | a finished document has no open step before the end |
| `RequestsEnd` | `OutgoingWorkflow`, `IncomingBook` | every request ends |
| `NothingUnapproved` | `Bulletin` | what is published was approved by somebody once, whatever overlaps or fails |
| `StepsApprovedInTurn` | | what is approved or public was approved, in the content it has, by every step up to the one it stands at, and by every step that no rewriting of the workflow since the submission took away or cut off from the first; one request at a time, without failures |
| `UniqueCode`, `CountIsFree` | `IncomingBook` | of two active documents with one number of a book, one has it from a client or a copy; the number the next form shows was looked for and given to nobody |
| `HolesFilled` | | a number that the server looks for, for documents that are not deleted, leaves no smaller one free |
| `ImplementsNumberBook` | | every transaction is one registration, move or withdrawal |
| `UniqueInTurn`, `CountInTurn` | `OutgoingBook` | unique numbers; the count is the number of no document, and every number below it is given, or was until its document was deleted, renumbered or moved; as long as numbers are given in turn, whatever is reserved, saved or deleted beside them |
| `ReservationInTurn` | | nobody gets a reservation on a number that a document of the book has, deleted or not; one request at a time |
| `StockCap` | `Inventory` | the stock never passes the limit, whatever overlaps |
| `FinishedIsHanded` | | a finished slip took its goods, whatever overlaps |
| `LedgerInTurn` | | one request at a time, the store is `StockLedger` |
| `StepsInOrder` | `Disbursement` | a step that is behind a disbursement was approved, or skipped by the status a form sent, whatever overlaps |
| `NumbersWithRow` | | numbers are unique unless two requests met before the sequence had a row |
| `TotalInTurn`, `CompletedInTurn` | | what is approved is the total that was agreed, or that came with such a status; what is completed stays so; one request at a time |

## 4. Runs

| run | module | instance and bound | result |
|---|---|---|---|
| `stage_serial` | `MCOutgoing` | stage of A (two co-signers), B, supporter Q, then X; 1 session, 8 requests | six invariants |
| `stage_concurrent` | `MCOutgoing` | the stage with one signer per node, returns out of A and B; 2 sessions, 5 requests; 42 thousand states | three invariants, liveness |
| `chain_return` | `MCOutgoing` | A, B, C in a row, other signers chosen, returns to the drafter and from C to A; 1 session, 12 requests; 59 thousand states | five invariants |
| `bulletin` | `MCBulletin` | 2 sessions, any workflow of up to 3 steps, 2 contents; 7 requests, 3 after an overlap, 1 failure; 1.3 million states | three invariants |
| `book_serial` | `IncomingBook` | all operations, 2 documents, 2 books, 8 numbers, 2 of them typed; 1 session, 4 requests; 601 thousand states | three invariants, one action property |
| `book_concurrent` | `IncomingBook` | assign, change, refile, withdraw; 2 documents, 2 books, 5 numbers, 2 sessions, 3 requests; 106 thousand states | invariant, refinement, liveness |
| `numbers` | `MCNumbers` | 3 documents, 6 numbers, 2 sessions; 5 requests, 3 after an overlap; 238 thousand states up to symmetry | three invariants, one action property |
| `stock` | `MCStock` | 2 slips, quantities 1 and 2, limit 3, 2 sessions; 7 requests, 5 after an overlap; 335 thousand states | three invariants, refinement |
| `budget` | `MCDisbursement` | 2 disbursements, amounts 1 and 2, with and without sequence row, 2 sessions; 5 requests, 3 after an overlap; 428 thousand states up to symmetry | four invariants, one action property |
| `cosigners` | `MCOutgoing` | two co-signers, 2 sessions, 6 requests | `FlowNeverDies` violated |
| `detour` | `MCOutgoing` | a stage behind a step that can be passed over; 1 session, 8 requests | `OnlySelectedSigners` violated |
| `stock_lost` | `Inventory` | 1 slip, 2 sessions, 4 requests | `StockIsRight` violated |

A session is a request that can be in flight beside the others.

Bounds. `MaxRequest` bounds the requests of a behaviour. A whole pass of the
longest process model takes six, so twelve allow two returns and a third pass. A
bulletin with two steps is public after four requests (submit, two approvals,
publish), so seven allow a rejection and a second round, or two rewritings of the
workflow; three steps are the least for which a list can lose its middle. A slip
is handed out after create, approve and confirm, beside a receipt; a disbursement
is completed after create, submit and three approvals, which is five, and sooner
when a form sends a status. Two sessions suffice for every two-party race; no
handler waits for a third party. Two books and two documents are the
least for which "other book" and "other document" exist; the numbers
run has three documents because a count after two numbers is the question. Four
requests let an incoming document be numbered, deleted or copied, and two more
numbers be looked for after that; with two sessions, three requests are a race
and what led to it.
`MaxNumber` is above what the requests can use up. The stage has two priority
nodes and one other because coverage, completion and exit differ in them.
`Quiescent` is the stuttering of a system no user acts on, so that deadlock
checking stays on: any other state without a successor would be reported.

Symmetry. `numbers` and `budget` identify states that differ in the names of
documents (disbursements) and requests; they check no liveness, and neither
module tells one from another.

Fairness. `FairSpec` is weak fairness of `Progress(r)`: the server goes on
with a request it began, SQL Server grants a free lock and breaks deadlocks. No
fairness is assumed of users (`Arrival`) nor of failures (`Fail`), so
`RequestsEnd` is not "eventually somebody signs" but "no request hangs". Nothing
in the modelled code runs by itself: the scheduler of the bulletins is registered
nowhere.

Disagreements between the code and its comments that a run exhibits
(PROJECT.json "findings" quotes them):

 1. `cosigners`: `isLastSigner` is counted outside the transaction. Both
    co-signers count two and neither hands the document on.
 2. `detour`: signatures are reset for the first step after a return only, and
    only if the newest audit row that is still flagged as a return is newer than
    the rows of the step's own sign type (10550-10580). The drafter's resubmission
    to an intermediate step takes that flag off the return (11007-11017), so when
    the document comes to the stage from there, the old signatures stand, nobody
    is pending, and the items go to every user of the lane.
 3. `stock_lost`: receipts and confirmations read the stock, compute and save;
    of two that overlap only the later write counts.

What the conditions of the other properties exclude is excluded because the
code does not give it. To see it, drop the condition in the MC module, give
`book_serial` a second session, or check the invariants of `stage_serial` in
`stage_concurrent`. With requests that overlap:

 - outgoing circulation: a signature that was read before a return still hands
   the document on, or leaves its step signed although a new item of it is open.
   When that item is signed again, to no effect, and another return overlaps, a
   reset can make its signer pending while this request leaves the stage
   (`AllSigned` in `stage_concurrent` with 7 requests); `SignedUntilReturn`
   therefore stops at the first return. A supporter and the last priority signer
   can both leave a stage;
 - bulletins: an approval between the two statements of updateWorkflow finds
   no step and approves outright; a save after a delete inserts the bulletin
   again (*);
 - incoming numbers: two forms opened together store one number twice; an edit
   brings back a number its document had before it was moved;
 - outgoing numbers: two requests both find a number free; a number that was
   reserved after a form was opened is given to the form's document (*);
 - stock: a slip is handed out by two confirmations;
 - disbursements: the first two of a programme get number 1; an edit that read a
   draft changes an approved one; a rejection that read the last approval step
   takes a completed one back.

The models have the behaviours marked (*), and no property of the project is
about them.

And in turn, without any overlap: confirmIssue asks for no approval, a finished
slip can be confirmed with another quantity, `GoodsIssue.status` counts up to
the code of a rejection; an approval that is sent twice approves two steps; a
form that edits a draft can send APPROVED or COMPLETED; a workflow that is
replaced can leave a pending bulletin with a single approval to go, or none of
the new steps to pass; clients store a number of an incoming document a second
time, copies have the number of their original, a deletion or a number the
client sends leaves a hole; a form with another outgoing book, or a deletion,
frees a number below the count;
checkBudget does not count APPROVED and DISBURSED, which the programme counts
as disbursed. No property claims the opposite.

## 5. Proofs

Theorems hold for every value of the constants that satisfies the named
assumptions: the types of the constants, for any process model and any number of
users, slips, disbursements, documents or requests. Where a theorem needs more,
its ASSUME says so by a named condition, and this section says why. Every
invariant below was checked by TLC before it was proved.

A theorem about a specification with a history variable (`MCSpec`) says what
holds in turn; the variable is set by the first overlap, so a behaviour without
overlaps is one in which it stays FALSE.

### `OutgoingWorkflow_proofs`

For every process model, under `ModelAssumption` and `WorkflowAssumption`:

 - `TypeCorrect`: `Spec => []TypeOK`. Inductive as it stands; one lemma per
   family of operators, one step per action.
 - `PriorityExit`: if every node of a stage is a signer step
   (`StagesAreSigned`), `Spec => []ExitWaitsForPriority`. The invariant is
   `ExitInv`: types, the property, and `DocumentRowKept`, that a transaction
   that signs or returns holds the document row from its first audit write to
   its end. Without it the property is not inductive: another request could
   insert an item of a priority node between the evaluation and the commit. With
   it, whoever inserts items must wait, and whoever waits does not move. The
   lemma `StepLocal` says that once per action; `ExitStepInv` turns it into the
   invariant. The assumption is needed: a stage step without a signer type
   writes no audit row of its own and may hold no lock.

For documents that go straight on, with any stages and any number of co-signers:

| theorem | property |
|---|---|
| `OneStepAtATime` | `OneRegion` |
| `NobodyAskedTwice` | `NoDuplicateAssignment` |
| `FlowGoesOn` | `FlowNeverDies` |
| `OnlyChosenSign` | `OnlySelectedSigners` |
| `AllHaveSigned` | `AllSigned` |
| `ClosedAtTheEnd` | `ClosedWhenFinished`, which also needs `OneBeforeEnd` |

`Alone` is one request at a time; `StraightModel` is a finite model without
returns and skipped lanes, in which flows lead forward, each signer type belongs
to one step, the exits of a stage lead to one signer step or end event, and a
stage with an end step has priority nodes. The instance of `stage_serial`
satisfies both, and `OneBeforeEnd`. None of this is said of the code; it is
where the code keeps the properties. Without `Alone` the last of two co-signers
is lost (run `cosigners`); with returns the items of a sender's co-signers
survive beside the new step; with two signers on the step before the end the
first signature already sets the final status. The invariant `StraightInv` says
what holds between requests (`Settled`: one step or stage; everybody with an
item there is pending, and the converse; nobody has signed ahead; a stage is
open only while a priority node is) and what a request in flight knows
(`InFlight`), up to the commit, which is known to leave a settled document
before it happens. `ClosedInv` adds that one signer is left before the end.

For steps with a single signer and no stages:

| theorem | property | further conditions |
|---|---|---|
| `SingleSignersGoOn` | `FlowNeverDies` | none |
| `SingleSignerIsAsked` | `OnlySelectedSigners` | `SentToDraft`: returns lead to unsigned steps |
| `SentBackToOneStep` | `OneRegion` | `SentBySigners`: returns come from signer steps; `Alone` |
| `NobodyAskedTwiceAfterReturn` | `NoDuplicateAssignment` | the same |

`OneByOneModel` is a model without stages whose flows lead forward;
`OneCandidate` says that per signer type one user at most is appointed at the
start or can be chosen later. Returns are arbitrary, and so are skipped lanes.
The first two hold for any number of requests at once, also when an item is sent
twice (`Resubmit`) and when statements fail: they are what the `cosigners`
finding leaves standing. `OneByOneInv` says where a request may be and that what
it will commit keeps the document alive (`Serves`), and that the tables and the
signatures in flight name candidates only; then the count of signers is at most
one whatever it races with. `AppointedInv` adds that whom a request will ask is
a signer, which with one candidate cannot become false (`AppointedStays`).
`PlaceInv` adds, one request at a time, that all open items are of one step and
made by one request, and that a request has removed all of them when it commits.
The conditions of the last two are needed: `OneRegion` fails in these models
when a request is sent twice, and when a step with several items sends back.

For signatures after returns:

| theorem | property |
|---|---|
| `SignedSinceReturn` | `FreshUntilRework` |
| `AskedAfterReturn` | `SelectedUntilRework` |

Both need `LineModel` (signer steps in a line, each with a signer type of its
own and one rank after the step before it; any returns), `OneAppointed` (one
signer at the start, one in each choice; later choices may name others) and
`SubmittedOnce` (`Alone`, or an item is not submitted while a request processes
it). Then at most one request is in flight, which the invariant `LineInv` shows
(`OneActive`). The code has no version of a signature: whether one is void
after a return is read off the audit trail when the next request for its step
arrives. `LineInv` says why that is enough in these models. Every signature is
either behind the document and newer than the last return, or ahead and `Due`
(`SignedInTime`): the trail holds a closed return newer than everything its
signers did, which is what makes the next request reset it. A return is closed
by the first request after it because the row of the open item is the newest
(`Newest`). `Reworked` is where this ends: a return to a step in between resets
that step only, the steps after it keep their old signatures (finding 2), and so
the properties, and the invariant, are about documents without such a return.
The instance of `chain_return` satisfies the conditions.

For stages whose steps have a single signer, until the first return
(`Returned`):

| theorem | property | conditions besides `OneCandidate` |
|---|---|---|
| `SingleSignersSign` | `SignedUntilReturn` | `PlainModel`: no skipped lanes, an unsigned draft |
| `SingleSignersCarryOn` | `~Returned => FlowNeverDies` | `SignedModel`: also, flows lead away from the draft and every step between it and the end events is signed; `~Resubmit`: an item is not submitted while a request processes it |

Any stages, any number of requests at once, returns among them, any statement
may fail. The first also holds when items are sent twice. In a model without
return flows `Returned` is FALSE, and the two are `AllSigned` and
`FlowNeverDies`. The invariant `AnswersInv` says that whoever has an item, or
will get one, answers for the step: is a signer of it, or it has been signed
(`Answers`). With one candidate the one who answers is then the only one who can
be pending, so he signs for all when he removes his item, and nobody becomes
pending behind him (`AnswersStay`). It needs that somebody is appointed for
every step before the draft is left, which `SignersChosen` sees to. `CarryInv`
adds that while the draft is open nothing else is (`DraftFirst`), and that what
a request commits leaves an item open (`LeavesItem`): one it creates, or, where
a branch waits for the others, one of theirs. The last is about rows of other
requests, and stays true because a signer keeps the document row until it
commits (`OneSignerCommits`). It is not true of the draft, which is not signed,
and so an item must not be submitted twice: a second submission that finds all
branches open creates nothing, and if it commits after they have been signed and
the end was reached, it sets the status back to the first step with no item
left. TLC finds that behaviour when `stage_concurrent` without its returns is
given `Resubmit = TRUE`, a choice `{"b"}` and 6 requests; with
`Resubmit = FALSE` that instance satisfies both sets of conditions.

Two inductions over data were needed and are possible without the induction
theorems: over sets, from the pigeonhole theorem of `FiniteSetTheorems`
(`SetInduction`, `Iteration`). They give that a node is among those reached
inside its stage (`InOwnReach`) and what the search for the next step with
signers returns (`NextStepFacts`).

### `Inventory_proofs`, `MCStock_proofs`

Under `InventoryAssumption`:

 - `TypeCorrect`, `StockIsCapped` (`Spec => []StockCap`) and `FinishedWasHanded`
   (`Spec => []FinishedIsHanded`). The invariant is `IInv`: types, the two
   properties, and `TasksOK`, which says of each request in flight what its
   handler established when it read: a receipt will write at most the limit, a
   deduction starts from a stock within it, only a confirmation carries the
   status FINISHED, and who carries the type ISSUE read it of a slip that was
   handed out. This is why the two survive any overlap: what a stale entity
   brings back was true of an earlier state and stays true.
 - `KeepsTheLedger`: `MCSpec => LedgerInTurn`, the refinement of `StockLedger`.
   `TurnInv` says that without overlap the stock a request holds is the stock,
   and that a slip which can still be confirmed took nothing. A receipt maps to
   `Receive`, a deduction to `HandOut`, all else to stuttering.

### `Disbursement_proofs`, `MCDisbursement_proofs`

Under `DisbursementAssumption`:

 - `TypeCorrect` and `ApprovedInOrder` (`Spec => []StepsInOrder`). `TasksOK`
   says that the status a request will write has all its earlier steps passed,
   except those it passes itself, by approving one or by the status of its form;
   a save writes the status as a whole, and `passed` only grows, so a stale
   decision is still one about steps that were passed.
 - `NumbersAreUnique` (`MCSpec => []NumbersWithRow`), any overlap: from the read
   of the sequence row to the commit its lock is held, so the number a creation
   carries is above every number given (`NumberInv`).
 - `TotalIsApproved` and `CompletedStays`, in turn: `TurnInv` ties what a request
   will write to the row it read, which is still the row (`Legal`). `CompletedStays` needs `LastStep = 4`, the seeded workflow: a
   rejection is refused past the last configured step, and COMPLETED is step 5.

### `IncomingBook_proofs`

Under `BookAssumption`:

 - `TypeCorrect`, for all handlers and any overlap.
 - `CodesAreUnique` (`[]UniqueCode`) and `CountStaysFree` (`[]CountIsFree`) under
   `Safe`: either all operations and one request at a time, or the handlers that
   lock the book (assign, change, refile, generate, withdraw), any number at
   once. The others store a number without a search under the lock, and beside
   them the properties fail (section 4). One proof serves both cases: `BookInv`
   says what a request that holds the lock of a book knows of its numbers, and
   that nobody else gives numbers of that book meanwhile. Numbers of clients
   and copies are in the books it speaks of; a search that avoids all numbers
   avoids those that were looked for.
 - `KeepsTheBook` (the refinement of `NumberBook`) under `Safe` and without the
   operations edit, enter and copy (`PlainOperations`), which do not ask what the
   book has.
 - `NoHoleIsLeft` (`HolesFilled`), all operations, one request at a time
   (`FilledInv`). A deleted document can be numbered too (assign and
   updateDocument do not look at the status); its number is then nobody's, which
   is why the property speaks of documents that are not deleted.

### `MCNumbers_proofs`

Under `OutgoingBookAssumption`:

 - `TypeCorrect`, any overlap.
 - `NumbersAreUnique` (`[]UniqueInTurn`) and `CountIsNext` (`[]CountInTurn`), as
   long as numbers are set in turn, whatever is reserved, saved or deleted
   beside: `SetInv`. A number below the count that no document has any more is
   in the history `freed`.
 - `ReservationIsFree` (`ReservationInTurn`), one request at a time:
   `ReserveInv`.

### `Bulletin_proofs`

Under `BulletinAssumption`:

 - `TypeCorrect` and `PublishedWasApproved` (`[]NothingUnapproved`), whatever
   overlaps or fails: `IInv` says of every copy a request holds that a status
   that is approved or public in it was approved once, so a stale copy that is
   written or inserted again still satisfies it.
 - `EveryStepApproves` (`[]StepsApprovedInTurn`), one request at a time and
   without failures, for any sequence of workflows: `TurnInv` says that the steps
   before the current one have approved the content as it is, between requests
   and at every statement of one, and that the steps in `kept` are in the
   workflow of now, so that an approval that finds no next step ends behind them.

### What is only model-checked

 - Liveness, which is out of reach of the prover: `RequestsEnd`.
 - In the circulation: `FlowNeverDies` after a return when requests overlap in
   a stage (`stage_concurrent`; it also holds there with 8 requests), and all
   about returns from steps with several signers.
 - The violations, which are about particular instances.

## 6. Not modelled, and the plan

Modelled so far: stages and the circulation of outgoing documents, bulletins,
both kinds of numbers, office supplies, disbursements. Next, in this order:

 1. `OutgoingWorkflow`, more operations: `recallWorkItemOutgoing` (runtime
    13731), `completeOutgoingWorkItem` (6880), the signing part of `signDoc`
    (13927); returns from a step with co-signers.
 2. Theorems: `FlowNeverDies` after returns out of a stage, which needs an
    invariant about the open audit rows of the draft.
 3. The circulation of incoming documents (`completeWorkItem`,
    `completeSuport`, `returnWorkItem`, `processDocumentv2`).
 4. Meal booking: registration is kept unique by an index on user and day; the
    status update of a check-in uses one id for two tables (`meal_bookings`,
    `meal_registrations`), which a model should separate.
 5. Vehicle bookings with the scheduler that synchronises cars and drivers;
    overlapping bookings of rooms.

Left out for good: external services (signing providers, WOPI, SMS, push
messages, user import), parsing of BPMN XML, CRUD modules without a state
machine, the front end. PROJECT.json gives the reason for each. The share of
the repository's lines that is modelled stays small for that reason: most of
its code is queries, CRUD, reports and rendering.
