-------------------------- MODULE OutgoingWorkflow --------------------------
(***************************************************************************)
(* The circulation of ONE outgoing document: its open work items, its      *)
(* signers, its audit trail and its status, changed by HTTP requests that  *)
(* run concurrently.  A request is either                                  *)
(*   - setProcessor: submit or sign the step and hand the document on;     *)
(*   - returnWorkItemOutgoing: send the document back.                     *)
(*                                                                         *)
(* One action is one database statement, or a run of them between which    *)
(* another request can change nothing that matters.  Statements read the   *)
(* committed rows and the rows their own transaction wrote; a transaction  *)
(* keeps the rows it deleted or updated locked until it ends, and the      *)
(* MERGE into outgoing_current_state, which every audit write ends with,   *)
(* locks the one row of the document (docLock).                            *)
(***************************************************************************)
EXTENDS ConcurrentStage

CONSTANTS
    User,
    RoleName,       \* the lanes of the model
    Role,           \* laneMap: the lane of a node
    Members,        \* getUsersByRoleInFlow: the users of a lane
    SkipNode,       \* nodes whose lane has skipLane = 'true'
    Draft,          \* the node a new document waits at
    Drafter,        \* the user who created the document
    InitialSigners, \* outgoing_document_users when the document is created
    Choices,        \* the non-empty assignToUserId lists a client may send
    Session,        \* server requests that can be in flight together
    MaxRequest,     \* bound: requests in a behaviour
    Resubmit        \* may an item be submitted while a request processes it?

ASSUME WorkflowAssumption ==
    /\ None \notin User \cup Session \cup RoleName
    /\ Role \in [Node -> RoleName]
    /\ Members \in [RoleName -> SUBSET User]
    /\ SkipNode \subseteq Node
    /\ Draft \in Node
    /\ Drafter \in User
    /\ InitialSigners \in [SignType -> SUBSET User]
    /\ Choices \subseteq SUBSET User
    /\ MaxRequest \in Nat
    /\ Resubmit \in BOOLEAN

Item == [req : Nat, node : Node, user : User]

VARIABLES
    workItems,  \* the committed open rows of work_items
    signers,    \* outgoing_document_users: absent, pending or signed
    audit,      \* the committed rows of audit
    auditId,    \* the last identity value of audit
    docStatus,  \* the node whose statusCode the document carries
    docLock,    \* the transaction that locks the outgoing_current_state row
    requests,   \* number of requests received so far
    fresh,      \* history: signatures given since the last return
    pc,         \* the next statement of each request
    request,    \* what it read before its transaction
    next,       \* nextNode before the transaction
    assignees,  \* who is to receive the next step
    last,       \* isLastSigner
    del, mark,  \* uncommitted: items deleted, signer rows marked signed
    ins,        \*   items inserted,
    cover,      \*   nodes closed because the priority nodes are through
    outcome     \*   what the transaction decided

db == <<workItems, signers, audit, auditId, docStatus, fresh>>
txVars == <<del, mark, ins, cover, outcome>>
planVars == <<next, assignees, last>>
vars == <<db, docLock, requests, pc, request, planVars, txVars>>

----------------------------------------------------------------------------
(* Reading the tables. *)

Users(n) == Members[Role[n]]
PendingOf(T) == {u \in User : signers[T][u] = "pending"}
PendingAt(n) == IF TypeOf[n] = None THEN {} ELSE PendingOf(TypeOf[n])
HasPending == [n \in Node |-> PendingAt(n) # {}]
NextStep(n) == NextStepWithSigners(n, HasPending)

ItemsAt(ns) == {i \in workItems : i.node \in ns}
NodesOf(items) == {i.node : i \in items}

NodeOf(s) == request[s].item.node
UserOf(s) == request[s].item.user
IsSigner(s) == TypeOf[NodeOf(s)] # None

\* Mutant: the first signature is taken for the last.
NodeDoneByOne(s) == next[s] # NodeOf(s)

\* The step is over for everybody: all of its items go and the target is
\* created.
NodeDone(s) == next[s] # NodeOf(s) /\ (~IsSigner(s) \/ last[s])

\* Mutant: only a return to a step of this type counts.
NeedsResetAtTarget(T) ==
    \E r \in audit :
        /\ r.ret /\ TypeOf[r.to] = T
        /\ \A x \in audit :
              (x.from # None /\ ~x.ret) =>
                 (TypeOf[x.from] = T => x.id < r.id)

\* resetSignersForReturnedCycle: the newest return or recall is newer than
\* anything signers of this type did.
NeedsReset(T) ==
    \E r \in audit :
        /\ r.ret
        /\ \A x \in audit :
              (x.from # None /\ ~x.ret) =>
                 (TypeOf[x.from] = T => x.id < r.id)

TypesToReset(t) ==
    {T \in SignType :
        /\ \E n \in StageNodes(t) \cup {t} : TypeOf[n] = T
        /\ NeedsReset(T)}

----------------------------------------------------------------------------
(* Where a return goes. *)

Downstream(t) ==
    LET targets(q) == {m \in Node : <<q, m>> \in Flow \cup ReturnFlow}
        reach[k \in Nat] ==
          IF k = 0 THEN {t} ELSE UNION {{q} \cup targets(q) : q \in reach[k - 1]}
    IN  {m \in Node \ {t} : m \in reach[Cardinality(Node)]}

\* Rows of the audit trail from the last arrival at t on (its last departure
\* if it never arrived).
SinceArrival(t) ==
    LET marks == IF \E r \in audit : r.to = t
                   THEN {r \in audit : r.to = t}
                   ELSE {r \in audit : r.from = t}
    IN  {r \in audit : \E m \in marks : \A x \in marks : x.id <= m.id /\ m.id <= r.id}

\* Mutant: rows without a source node are not filtered out.
WipeNodesUnfiltered(n, t) ==
    ({r.to : r \in SinceArrival(t)} \cup {r.from : r \in SinceArrival(t)}
       \cup Downstream(t)) \ {n}

WipeNodes(n, t) ==
    ({r.to : r \in SinceArrival(t)} \cup {r.from : r \in SinceArrival(t)}
       \cup Downstream(t)) \ {n, None}

\* The user of the newest audit row written in the lane of t.
LastActors(t) ==
    LET rows == {r \in audit : r.role = Role[t]}
    IN  {r.by : r \in {q \in rows : \A x \in rows : x.id <= q.id}}

----------------------------------------------------------------------------
(* Row locks. *)

Removal(s) == IF NodeDone(s) THEN ItemsAt({NodeOf(s)})
                             ELSE {request[s].item} \cap workItems

\* Mutant: the last signer hands on without signing.
MarkRowsBeforeLast(s) ==
    IF IsSigner(s) /\ ~last[s] /\ UserOf(s) \in PendingAt(NodeOf(s))
      THEN {<<TypeOf[NodeOf(s)], UserOf(s)>>} ELSE {}

MarkRows(s) ==
    IF IsSigner(s) /\ UserOf(s) \in PendingAt(NodeOf(s))
      THEN {<<TypeOf[NodeOf(s)], UserOf(s)>>} ELSE {}

OpenNodes(s) == NodesOf(workItems \ del[s])

\* Mutant: the other nodes of the stage are not closed.
CoveredNothing(s) == {}

Covered(s) ==
    IF InStage(NodeOf(s)) /\ CoversStage(NodeOf(s), OpenNodes(s))
      THEN CoveredNodes(NodeOf(s)) ELSE {}

WipeItems(s) == IF request[s].wipe = {} THEN workItems ELSE ItemsAt(request[s].wipe)

\* An audit update of no row skips the MERGE, and so its lock.
TouchesAudit(s) ==
    \/ request[s].op = "return"
    \/ IsSigner(s)
    \/ IF NodeDone(s) THEN \E r \in audit : r.to = NodeOf(s) /\ r.open
                      ELSE \E r \in audit : r.receiver = UserOf(s)

ItemRows(s) ==
    CASE pc[s] = "write" -> IF request[s].op = "return"
                              THEN {request[s].item} ELSE Removal(s)
      [] pc[s] = "wipe" -> WipeItems(s)
      [] pc[s] = "evaluate" -> ItemsAt(Covered(s))
      [] OTHER -> {}

SignerRows(s) ==
    CASE pc[s] = "write" /\ request[s].op = "forward" -> MarkRows(s)
      [] pc[s] = "reset" -> request[s].resets \X User
      [] pc[s] = "resolve" /\ request[s].choice # {} ->
            {TypeOf[request[s].target]} \X User
      [] OTHER -> {}

NeedsDocLock(s) ==
    \/ pc[s] = "audit" /\ TouchesAudit(s)
    \/ pc[s] = "commit" /\ ins[s] # {}

\* The transactions whose locks the next statement of s runs into.
WaitsFor(s) ==
    {r \in Session \ {s} :
        \/ ItemRows(s) \cap del[r] # {}
        \/ SignerRows(s) \cap mark[r] # {}
        \/ NeedsDocLock(s) /\ docLock = r}

\* s takes part in a cycle of waiting transactions.
Deadlocked(s) ==
    \E D \in SUBSET Session :
        /\ s \in D
        /\ \A x \in D : WaitsFor(x) \cap D # {}
        /\ \A x \in D : \E y \in D : x \in WaitsFor(y)

At(s, label) == pc[s] = label /\ WaitsFor(s) = {}
Goto(s, label) == pc' = [pc EXCEPT ![s] = label]

----------------------------------------------------------------------------
NoRequest == [op |-> "forward", req |-> 0,
              item |-> [req |-> 0, node |-> Draft, user |-> Drafter],
              target |-> Draft, choice |-> {}, resets |-> {}, wipe |-> {}]

\* createDocumentAtNodeOutgoing: the draft item and the row of the start event,
\* which is no step (from = None), addressed to the one who acted.
Init ==
    /\ workItems = {[req |-> 0, node |-> Draft, user |-> Drafter]}
    /\ signers = [T \in SignType |-> [u \in User |->
                    IF u \in InitialSigners[T] THEN "pending" ELSE "absent"]]
    /\ audit = {[id |-> 1, from |-> None, to |-> Draft, by |-> Drafter,
                 receiver |-> Drafter, role |-> Role[Draft],
                 ret |-> FALSE, open |-> TRUE]}
    /\ auditId = 1
    /\ docStatus = Draft
    /\ docLock = None
    /\ requests = 0
    /\ fresh = {}
    /\ pc = [s \in Session |-> "idle"]
    /\ request = [s \in Session |-> NoRequest]
    /\ next = [s \in Session |-> Draft]
    /\ assignees = [s \in Session |-> {}]
    /\ last = [s \in Session |-> FALSE]
    /\ del = [s \in Session |-> {}]
    /\ mark = [s \in Session |-> {}]
    /\ ins = [s \in Session |-> {}]
    /\ cover = [s \in Session |-> {}]
    /\ outcome = [s \in Session |-> "none"]

\* The request is over: its locks are released, nothing of it is left.
End(s) ==
    /\ Goto(s, "idle")
    /\ request' = [request EXCEPT ![s] = NoRequest]
    /\ next' = [next EXCEPT ![s] = Draft]
    /\ assignees' = [assignees EXCEPT ![s] = {}]
    /\ last' = [last EXCEPT ![s] = FALSE]
    /\ del' = [del EXCEPT ![s] = {}]
    /\ mark' = [mark EXCEPT ![s] = {}]
    /\ ins' = [ins EXCEPT ![s] = {}]
    /\ cover' = [cover EXCEPT ![s] = {}]
    /\ outcome' = [outcome EXCEPT ![s] = "none"]
    /\ docLock' = IF docLock = s THEN None ELSE docLock

\* An exception: rollback, and the error goes to the client.
Rollback(s) == End(s) /\ UNCHANGED <<db, requests>>

----------------------------------------------------------------------------
(* A request arrives and reads the item and the audit trail. *)

Submittable(s, i) ==
    /\ pc[s] = "idle"
    /\ requests < MaxRequest
    /\ Resubmit \/ \A r \in Session : pc[r] # "idle" => request[r].item # i

\* The drafter can submit only once every signer type has somebody.
SignersChosen(n) ==
    Role[n] = Role[Draft] =>
        \A m \in Node \ SkipNode :
            TypeOf[m] # None => \E u \in User : signers[TypeOf[m]][u] # "absent"

ReadForward(s, i, t, c) ==
    /\ Submittable(s, i)
    /\ <<i.node, t>> \in Flow
    /\ SignersChosen(i.node)
    /\ requests' = requests + 1
    /\ request' = [request EXCEPT ![s] =
                     [op |-> "forward", req |-> requests + 1, item |-> i,
                      target |-> t, choice |-> c,
                      resets |-> TypesToReset(t), wipe |-> {}]]
    /\ Goto(s, IF TypesToReset(t) = {} THEN "resolve" ELSE "reset")
    /\ UNCHANGED <<db, docLock, planVars, txVars>>

ReadReturn(s, i, t, c) ==
    /\ Submittable(s, i)
    /\ <<i.node, t>> \in ReturnFlow
    /\ \E u \in User :
         /\ IF c = {} THEN u \in LastActors(t)
                      ELSE c = {u} /\ (Users(t) = {} \/ u \in Users(t))
         /\ assignees' = [assignees EXCEPT ![s] = {u}]
    /\ requests' = requests + 1
    /\ request' = [request EXCEPT ![s] =
                     [op |-> "return", req |-> requests + 1, item |-> i,
                      target |-> t, choice |-> c, resets |-> {},
                      wipe |-> WipeNodes(i.node, t)]]
    /\ next' = [next EXCEPT ![s] = t]
    /\ Goto(s, "write")
    /\ UNCHANGED <<db, docLock, last, txVars>>

----------------------------------------------------------------------------
(* setProcessor, before its transaction: every statement commits alone. *)

ResetSigners(s) ==
    /\ At(s, "reset")
    /\ signers' = [T \in SignType |->
                     IF T \in request[s].resets
                       THEN [u \in User |-> IF signers[T][u] = "signed"
                                              THEN "pending" ELSE signers[T][u]]
                       ELSE signers[T]]
    /\ Goto(s, "resolve")
    /\ UNCHANGED <<workItems, audit, auditId, docStatus, fresh, docLock,
                   requests, request, planVars, txVars>>

\* A lane with skipLane is passed over when nobody is to sign there.
AfterSkipLane(t) ==
    IF t \in SkipNode /\ PendingAt(t) = {} /\ NextStep(t) \in Node
      THEN IF TypeOf[NextStep(t)] # None THEN NextStep(t) ELSE t
      ELSE t

\* replaceRuntimeSigners: the pending signers of the type are replaced, those
\* who signed stay.
Replaced(row, c) ==
    [u \in User |->
        IF row[u] = "signed" THEN "signed"
        ELSE IF u \in c THEN "pending" ELSE "absent"]

Plan(s, n, who) ==
    /\ next' = [next EXCEPT ![s] = n]
    /\ assignees' = [assignees EXCEPT ![s] = who]
    /\ Goto(s, "count")
    /\ UNCHANGED <<workItems, audit, auditId, docStatus, fresh, docLock,
                   requests, request, last, txVars>>

\* End events are in no lane: nobody is assigned.
ResolveEnd(s) ==
    /\ At(s, "resolve")
    /\ request[s].target \in EndEvent
    /\ Plan(s, request[s].target, {})
    /\ UNCHANGED signers

\* Mutant: the choice of the client is not saved.
ResolveChosenUnsaved(s) ==
    LET t == AfterSkipLane(request[s].target) IN
    /\ At(s, "resolve")
    /\ request[s].target \notin EndEvent
    /\ request[s].choice # {}
    /\ request[s].choice \subseteq Users(t)
    /\ Plan(s, t, request[s].choice)
    /\ UNCHANGED signers

\* The client chose the assignees.
ResolveChosen(s) ==
    LET t == AfterSkipLane(request[s].target)
        c == request[s].choice
        keep == TypeOf[t] # None /\ PendingAt(t) # {} /\ c = {UserOf(s)}
    IN
    /\ At(s, "resolve")
    /\ request[s].target \notin EndEvent
    /\ c # {}
    /\ c \subseteq Users(t)
    /\ IF keep THEN PendingAt(t) \subseteq Users(t) ELSE TRUE
    /\ Plan(s, t, IF keep THEN PendingAt(t) ELSE c)
    /\ signers' = IF keep \/ TypeOf[t] = None THEN signers
                  ELSE [signers EXCEPT ![TypeOf[t]] = Replaced(@, c)]

\* Nobody was chosen: the pending signers of the step, or of the first later
\* step that has some.
Automatic(t) ==
    IF PendingAt(t) # {} THEN t ELSE NextStep(t)

CanResolve(t) ==
    /\ TypeOf[t] # None
    /\ Automatic(t) \in Node
    /\ \/ Automatic(t) \in EndEvent
       \/ /\ PendingAt(Automatic(t)) # {}
          /\ PendingAt(Automatic(t)) \subseteq Users(Automatic(t))

ResolveAutomatic(s) ==
    LET t == AfterSkipLane(request[s].target) IN
    /\ At(s, "resolve")
    /\ request[s].target \notin EndEvent
    /\ request[s].choice = {}
    /\ CanResolve(t)
    /\ Plan(s, Automatic(t), PendingAt(Automatic(t)))
    /\ UNCHANGED signers

\* Nobody can be assigned: the request is refused, with its resets kept.
Refuse(s) ==
    LET t == AfterSkipLane(request[s].target)
        c == request[s].choice
    IN
    /\ At(s, "resolve")
    /\ request[s].target \notin EndEvent
    /\ IF c = {} THEN ~CanResolve(t)
       ELSE \/ ~(c \subseteq Users(t))
            \/ /\ TypeOf[t] # None /\ c = {UserOf(s)}
               /\ PendingAt(t) # {} /\ ~(PendingAt(t) \subseteq Users(t))
    /\ Rollback(s)

----------------------------------------------------------------------------
(* setProcessor, the transaction. *)

\* Mutant: off by one.
CountSignersBelow(s) ==
    /\ At(s, "count")
    /\ last' = [last EXCEPT ![s] =
                  IsSigner(s) => Cardinality(PendingAt(NodeOf(s))) < 1]
    /\ Goto(s, "write")
    /\ UNCHANGED <<db, docLock, requests, request, next, assignees, txVars>>

\* The signers left are counted through the pool, outside the transaction.
CountSigners(s) ==
    /\ At(s, "count")
    /\ last' = [last EXCEPT ![s] =
                  IsSigner(s) => Cardinality(PendingAt(NodeOf(s))) <= 1]
    /\ Goto(s, "write")
    /\ UNCHANGED <<db, docLock, requests, request, next, assignees, txVars>>

\* markUserSigned and removeWorkItem.  Only the removal of the single item
\* checks that a row was there.
MarkAndRemove(s) ==
    /\ At(s, "write")
    /\ request[s].op = "forward"
    /\ NodeDone(s) \/ request[s].item \in workItems
    /\ mark' = [mark EXCEPT ![s] = MarkRows(s)]
    /\ del' = [del EXCEPT ![s] = Removal(s)]
    /\ Goto(s, "audit")
    /\ UNCHANGED <<db, docLock, requests, request, planVars, ins, cover, outcome>>

AlreadyCompleted(s) ==
    /\ At(s, "write")
    /\ request[s].item \notin workItems
    /\ request[s].op = "return" \/ ~NodeDone(s)
    /\ Rollback(s)

\* Mutant: the document row is not written, and so not locked.
TouchAuditUnlocked(s) ==
    /\ At(s, "audit")
    /\ Goto(s, IF request[s].op = "return" THEN "commit" ELSE "evaluate")
    /\ IF request[s].op = "return"
         THEN /\ ins' = [ins EXCEPT ![s] =
                   [req : {request[s].req}, node : {next[s]}, user : assignees[s]]]
              /\ outcome' = [outcome EXCEPT ![s] = "return"]
         ELSE UNCHANGED <<ins, outcome>>
    /\ UNCHANGED <<db, docLock, requests, request, planVars, del, mark, cover>>

\* The audit rows are updated (in effect at the commit); the document row is
\* locked by the MERGE behind it.
TouchAudit(s) ==
    /\ At(s, "audit")
    /\ docLock' = IF TouchesAudit(s) THEN s ELSE docLock
    /\ Goto(s, IF request[s].op = "return" THEN "commit" ELSE "evaluate")
    /\ IF request[s].op = "return"
         THEN /\ ins' = [ins EXCEPT ![s] =
                   [req : {request[s].req}, node : {next[s]}, user : assignees[s]]]
              /\ outcome' = [outcome EXCEPT ![s] = "return"]
         ELSE UNCHANGED <<ins, outcome>>
    /\ UNCHANGED <<db, requests, request, planVars, del, mark, cover>>

\* The sender does not get the next step unless it is a signer step, or there
\* is nobody else.
Recipients(s, who) ==
    IF /\ TypeOf[next[s]] = None /\ TypeOf[request[s].target] = None
       /\ who # {UserOf(s)}
      THEN who \ {UserOf(s)} ELSE who

NewItems(s, n, who) == [req : {request[s].req}, node : {n}, user : who]

Decide(s, what, items) ==
    /\ cover' = [cover EXCEPT ![s] = Covered(s)]
    /\ del' = [del EXCEPT ![s] = @ \cup ItemsAt(Covered(s))]
    /\ ins' = [ins EXCEPT ![s] = items]
    /\ outcome' = [outcome EXCEPT ![s] = what]
    /\ Goto(s, "commit")
    /\ UNCHANGED <<db, docLock, requests, request, planVars, mark>>

\* Mutant: the early return forgets the commit and keeps its locks.
StageWaitsUncommitted(s) ==
    /\ At(s, "evaluate")
    /\ InStage(NodeOf(s))
    /\ ~StageComplete(NodeOf(s), OpenNodes(s))
    /\ Goto(s, "idle")
    /\ UNCHANGED <<db, docLock, requests, request, planVars, txVars>>

\* Other nodes of the stage are still open.
StageWaits(s) ==
    /\ At(s, "evaluate")
    /\ InStage(NodeOf(s))
    /\ ~StageComplete(NodeOf(s), OpenNodes(s))
    /\ Decide(s, "wait", {})

\* The stage is complete: resolveConcurrentPriorityAdvanceContext.
ExitStep(x) ==
    IF x \in EndEvent \/ PendingAt(x) # {} \/ NextStep(x) \notin Node
      THEN x ELSE NextStep(x)

ExitAssignees(s, x) ==
    IF PendingAt(x) # {} THEN PendingAt(x)
    ELSE IF assignees[s] # {} THEN assignees[s] ELSE {UserOf(s)}

StageExits(s) ==
    /\ At(s, "evaluate")
    /\ InStage(NodeOf(s))
    /\ StageComplete(NodeOf(s), OpenNodes(s))
    /\ \E e \in ExitTargets(NodeOf(s)) :
         LET x == ExitStep(e) IN
         IF PendingAt(x) = {} /\ TypeOf[x] # None
           THEN Rollback(s)
           ELSE Decide(s, "exit",
                  IF NodeDone(s)
                    THEN NewItems(s, x, Recipients(s, ExitAssignees(s, x)))
                    ELSE {})

\* Entering a stage creates the items of all of its nodes that have none; the
\* open items are read through the pool.
EntersStage(s) ==
    /\ ~InStage(NodeOf(s))
    /\ InStage(request[s].target)
    /\ InStage(next[s])

\* Mutant: the signers appointed for the node are not looked up.
StageAssigneesByLane(s, m) ==
    IF Users(m) # {} THEN Users(m) ELSE Recipients(s, assignees[s])

StageAssignees(s, m) ==
    IF PendingAt(m) # {} THEN PendingAt(m)
    ELSE IF Users(m) # {} THEN Users(m) ELSE Recipients(s, assignees[s])

StageItems(s) ==
    UNION {NewItems(s, m, StageAssignees(s, m)) :
             m \in StageNodes(next[s]) \ NodesOf(workItems)}

TargetItems(s) ==
    LET stage == IF EntersStage(s) THEN StageItems(s) ELSE {}
        created == NodesOf(stage) \cup NodesOf(workItems)
    IN  IF EntersStage(s) /\ next[s] \in created
          THEN stage
          ELSE stage \cup NewItems(s, next[s], Recipients(s, assignees[s]))

Advance(s) ==
    /\ At(s, "evaluate")
    /\ InStage(NodeOf(s)) =>
         /\ StageComplete(NodeOf(s), OpenNodes(s))
         /\ ExitTargets(NodeOf(s)) = {}
    /\ IF NodeDone(s) THEN Decide(s, "advance", TargetItems(s))
                      ELSE Decide(s, "stay", {})

----------------------------------------------------------------------------
(* Commit. *)

Closed(rows) == {[r EXCEPT !.open = FALSE, !.ret = FALSE] : r \in rows}

\* The rows of the audit trail after the updates of s.
ForwardUpdate(s) ==
    LET mine == IF NodeDone(s)
                  THEN {r \in audit : r.to = NodeOf(s) /\ r.open}
                  ELSE {r \in audit : r.receiver = UserOf(s)}
        dropped == {r \in audit \ mine : r.to \in cover[s] /\ r.open}
    IN  (audit \ (mine \cup dropped)) \cup Closed(dropped) \cup
        (IF NodeDone(s) THEN Closed(mine)
                        ELSE {[r EXCEPT !.open = FALSE] : r \in mine})

Row(s, id, from, to, receiver, ret, open) ==
    [id |-> id, from |-> from, to |-> to, by |-> UserOf(s),
     receiver |-> receiver, role |-> Role[NodeOf(s)], ret |-> ret, open |-> open]

CommitForward(s) ==
    /\ At(s, "commit")
    /\ outcome[s] # "return"
    /\ workItems' = (workItems \ del[s]) \cup ins[s]
    /\ signers' = [T \in SignType |-> [u \in User |->
                     IF <<T, u>> \in mark[s] THEN "signed" ELSE signers[T][u]]]
    /\ audit' = ForwardUpdate(s)
          \cup (IF IsSigner(s)
                  THEN {Row(s, auditId + 1, NodeOf(s), NodeOf(s), None, FALSE, FALSE)}
                  ELSE {})
          \cup {Row(s, auditId + 2, NodeOf(s), i.node, i.user, FALSE, TRUE) : i \in ins[s]}
    /\ auditId' = auditId + 2
    /\ docStatus' = IF outcome[s] = "wait" THEN docStatus ELSE next[s]
    /\ fresh' = fresh \cup mark[s]
    /\ End(s)
    /\ UNCHANGED requests

\* Every audit row that waits for the sender becomes a return.
SentBack(s, r) ==
    IF r.receiver = UserOf(s) THEN [r EXCEPT !.ret = TRUE, !.open = FALSE] ELSE r

\* Mutant: the wipe comes after the new item.
CommitReturnWiped(s) ==
    /\ At(s, "commit")
    /\ outcome[s] = "return"
    /\ workItems' = {i \in (workItems \ del[s]) \cup ins[s] : i.node \notin request[s].wipe}
    /\ auditId' = auditId + 2
    /\ docStatus' = next[s]
    /\ fresh' = {}
    /\ End(s)
    /\ UNCHANGED <<signers, audit, requests>>

CommitReturn(s) ==
    LET new == {Row(s, auditId + 1, NodeOf(s), next[s], u, TRUE, TRUE) : u \in assignees[s]}
    IN
    /\ At(s, "commit")
    /\ outcome[s] = "return"
    /\ workItems' = (workItems \ del[s]) \cup ins[s]
    /\ audit' = {SentBack(s, r) : r \in audit \cup new}
    /\ auditId' = auditId + 2
    /\ docStatus' = next[s]
    /\ fresh' = {}
    /\ End(s)
    /\ UNCHANGED <<signers, requests>>

----------------------------------------------------------------------------
(* returnWorkItemOutgoing, the transaction. *)

\* Mutant: the item that is sent back is not removed.
RemoveOwnForgotten(s) ==
    /\ At(s, "write")
    /\ request[s].op = "return"
    /\ request[s].item \in workItems
    /\ Goto(s, "wipe")
    /\ UNCHANGED <<db, docLock, requests, request, planVars, txVars>>

RemoveOwn(s) ==
    /\ At(s, "write")
    /\ request[s].op = "return"
    /\ request[s].item \in workItems
    /\ del' = [del EXCEPT ![s] = {request[s].item}]
    /\ Goto(s, "wipe")
    /\ UNCHANGED <<db, docLock, requests, request, planVars, mark, ins, cover, outcome>>

WipeDownstream(s) ==
    /\ At(s, "wipe")
    /\ del' = [del EXCEPT ![s] = @ \cup WipeItems(s)]
    /\ Goto(s, "audit")
    /\ UNCHANGED <<db, docLock, requests, request, planVars, mark, ins, cover, outcome>>

----------------------------------------------------------------------------
\* The database ends a deadlock by rolling one transaction back.
DeadlockVictim(s) == Deadlocked(s) /\ Rollback(s)

\* A statement fails, or the server stops, in the middle of a request.
Fail(s) == pc[s] # "idle" /\ Rollback(s)

Progress(s) ==
    \/ ResetSigners(s) \/ ResolveEnd(s) \/ ResolveChosen(s)
    \/ ResolveAutomatic(s) \/ Refuse(s)
    \/ CountSigners(s) \/ MarkAndRemove(s) \/ AlreadyCompleted(s)
    \/ TouchAudit(s) \/ StageWaits(s) \/ StageExits(s) \/ Advance(s)
    \/ CommitForward(s) \/ RemoveOwn(s) \/ WipeDownstream(s) \/ CommitReturn(s)
    \/ DeadlockVictim(s)

Arrival(s) ==
    \E i \in workItems, t \in Node, c \in Choices \cup {{}} :
        ReadForward(s, i, t, c) \/ ReadReturn(s, i, t, c)

\* No request is in flight and no user can, or (the bound) does, send one.
Quiescent ==
    /\ \A s \in Session : pc[s] = "idle"
    /\ \/ requests = MaxRequest
       \/ \A i \in workItems, f \in Flow \cup ReturnFlow : f[1] # i.node
    /\ UNCHANGED vars

Next ==
    \/ \E s \in Session : Arrival(s) \/ Progress(s) \/ Fail(s)
    \/ Quiescent

Spec == Init /\ [][Next]_vars

\* The server executes a request it has begun; nothing makes users act.
FairSpec == Spec /\ \A s \in Session : WF_vars(Progress(s))
----------------------------------------------------------------------------
(* Properties. *)

AuditRow == [id : Nat, from : Node \cup {None}, to : Node, by : User,
            receiver : User \cup {None}, role : RoleName,
            ret : BOOLEAN, open : BOOLEAN]

Request == [op : {"forward", "return"}, req : Nat, item : Item,
            target : Node, choice : SUBSET User,
            resets : SUBSET SignType, wipe : SUBSET Node]

Labels == {"idle", "reset", "resolve", "count", "write", "wipe", "audit",
           "evaluate", "commit"}

\* The tables and the state of every request hold what the code stores there.
TypeOK ==
    /\ workItems \subseteq Item
    /\ signers \in [SignType -> [User -> {"absent", "pending", "signed"}]]
    /\ audit \subseteq AuditRow
    /\ auditId \in Nat
    /\ docStatus \in Node
    /\ docLock \in Session \cup {None}
    /\ requests \in Nat
    /\ fresh \subseteq SignType \X User
    /\ pc \in [Session -> Labels]
    /\ request \in [Session -> Request]
    /\ next \in [Session -> Node]
    /\ assignees \in [Session -> SUBSET User]
    /\ last \in [Session -> BOOLEAN]
    /\ del \in [Session -> SUBSET Item]
    /\ mark \in [Session -> SUBSET (SignType \X User)]
    /\ ins \in [Session -> SUBSET Item]
    /\ cover \in [Session -> SUBSET Node]
    /\ outcome \in [Session -> {"none", "wait", "stay", "advance", "exit", "return"}]

\* Somebody can always go on with the document until it has reached an end
\* event: no commit of setProcessor or of a return leaves it without an open
\* work item ("de flow khong chet", runtime-dbmssql.service.ts:11326).
FlowNeverDies == workItems # {} \/ docStatus \in EndEvent

\* The document is at one step, or in one concurrent stage: no branch of an
\* earlier step stays open when it has moved on or was sent back.
OneRegion ==
    \A i, j \in workItems :
        \/ i.node = j.node
        \/ InStage(i.node) /\ StageKey(i.node) = StageKey(j.node)

\* Nobody is asked twice for the same step.
NoDuplicateAssignment ==
    \A i, j \in workItems : i.node = j.node /\ i.user = j.user => i = j

\* A signer step is handed on only when every signer appointed for it has
\* signed, the one who hands it on included.
AllSigned ==
    \A s \in Session :
        pc[s] = "commit" /\ outcome[s] \in {"advance", "exit", "wait"}
          /\ IsSigner(s) /\ NodeDone(s) =>
            \A u \in PendingAt(NodeOf(s)) : <<TypeOf[NodeOf(s)], u>> \in mark[s]

\* A stage with priority nodes is left only when no work item of a priority
\* node remains, whatever other requests commit between the moment the
\* progress of the stage is read and the commit.
ExitWaitsForPriority ==
    \A s \in Session :
        pc[s] = "commit" /\ outcome[s] = "exit" =>
            StagePriority(NodeOf(s)) \cap NodesOf(workItems \ del[s]) = {}

\* Every node of a stage is a signer step, as in the models the code is used
\* with.
StagesAreSigned == \A n \in Node : InStage(n) => TypeOf[n] # None

\* A transaction that signs or returns keeps the document row from its first
\* audit write to its end.
DocumentRowKept ==
    \A s \in Session :
        /\ pc[s] \in {"evaluate", "commit"}
        /\ request[s].op = "return" \/ IsSigner(s)
        => docLock = s

\* A signer step is put before nobody but the signers appointed for it.
OnlySelectedSigners ==
    \A i \in workItems :
        TypeOf[i.node] # None => signers[TypeOf[i.node]][i.user] # "absent"

\* A finished document carries only signatures given since it was last sent
\* back: what was changed after a return has been signed again by everybody.
FreshSignatures ==
    docStatus \in EndEvent =>
        \A T \in SignType, u \in User :
            signers[T][u] = "signed" => <<T, u>> \in fresh

\* The document was sent back to a step between the drafter and the sender.
Reworked == \E r \in audit : <<r.from, r.to>> \in ReturnFlow /\ r.to # Draft

\* The document was sent back.
Returned == \E r \in audit : <<r.from, r.to>> \in ReturnFlow

\* setProcessor until the first return: whatever requests overlap, a signer
\* step is handed on only when every signer appointed for it has signed.
SignedUntilReturn == ~Returned => AllSigned

\* setProcessor after returns to the drafter: a signer step is put before
\* nobody but the signers appointed for it.
SelectedUntilRework == ~Reworked => OnlySelectedSigners

\* setProcessor after returns to the drafter: a finished document carries only
\* signatures given since it was last sent back.
FreshUntilRework == ~Reworked => FreshSignatures

\* Once the status says that the document is finished, no step before the end
\* is open.
ClosedWhenFinished ==
    docStatus \in EndEvent => \A i \in workItems : i.node \in EndEvent

\* Every request that was begun ends: two transactions never keep waiting for
\* each other's rows.
RequestsEnd == \A s \in Session : pc[s] # "idle" ~> pc[s] = "idle"

=============================================================================
