---------------------- MODULE OutgoingWorkflow_proofs ----------------------
(***************************************************************************)
(* Theorems about OutgoingWorkflow.  The types and the exit of a stage: for *)
(* every process model, every set of users and any number of concurrent    *)
(* requests.  Where the document is, who is asked, and that it goes on: for *)
(* models without returns, one request at a time (StraightModel, Alone).   *)
(* With returns, and with overlapping and repeated requests: for models     *)
(* without stages where each step has a single signer (OneByOneModel,       *)
(* OneCandidate), that the document goes on and who is asked; one request   *)
(* at a time also that it is at one step.  For signer steps in a line       *)
(* (LineModel), that what is signed was signed since the last return.       *)
(* With stages, overlapping requests and a single signer for each type      *)
(* (PlainModel, SignedModel), until the first return: that whoever is to    *)
(* sign a step has signed when it is handed on, and that the document goes  *)
(* on.                                                                      *)
(***************************************************************************)
EXTENDS OutgoingWorkflow, FiniteSetTheorems, TLAPS

----------------------------------------------------------------------------
(* What the operators of the model return. *)

\* A request names a node, a user and an item of the right kind.
LEMMA RequestType ==
    ASSUME TypeOK, NEW s \in Session
    PROVE  /\ request[s] \in Request
           /\ request[s].item \in Item
           /\ NodeOf(s) \in Node
           /\ UserOf(s) \in User
           /\ next[s] \in Node
BY DEF TypeOK, Request, Item, NodeOf, UserOf

\* Users of a lane and pending signers are users.
LEMMA UsersType ==
    ASSUME NEW n \in Node
    PROVE  Users(n) \subseteq User /\ PendingAt(n) \subseteq User
BY WorkflowAssumption DEF Users, PendingAt, PendingOf

\* Items made for a node of the process and for users are items.
LEMMA NewItemsType ==
    ASSUME TypeOK, NEW s \in Session, NEW n \in Node, NEW who \in SUBSET User
    PROVE  NewItems(s, n, who) \subseteq Item
BY RequestType DEF NewItems, Item, Request

\* A stage consists of nodes of the process.
LEMMA StageNodesType ==
    ASSUME NEW n
    PROVE  StageNodes(n) \subseteq Node /\ CoveredNodes(n) \subseteq Node
BY DEF StageNodes, CoveredNodes

\* A stage is left to a node of the process.
LEMMA ExitTargetsType ==
    ASSUME NEW n
    PROVE  ExitTargets(n) \subseteq Node
BY ModelAssumption DEF ExitTargets, BestExits, ExitFlows

\* Who receives a step is a set of users, with or without the sender.
LEMMA RecipientsType ==
    ASSUME NEW s, NEW who \in SUBSET User
    PROVE  Recipients(s, who) \in SUBSET User
BY DEF Recipients

\* Removals and locks concern existing items and appointed signers.
LEMMA RemovalType ==
    ASSUME TypeOK, NEW s \in Session
    PROVE  /\ Removal(s) \subseteq Item
           /\ MarkRows(s) \subseteq SignType \X User
           /\ ItemsAt(Covered(s)) \subseteq Item
           /\ Covered(s) \subseteq Node
           /\ WipeItems(s) \subseteq Item
<1>1. NodeOf(s) \in Node /\ UserOf(s) \in User
  BY RequestType
<1>2. workItems \subseteq Item
  BY DEF TypeOK
<1>3. Removal(s) \subseteq Item /\ ItemsAt(Covered(s)) \subseteq Item /\ WipeItems(s) \subseteq Item
  BY <1>2 DEF Removal, ItemsAt, WipeItems
<1>4. MarkRows(s) \subseteq SignType \X User
  BY <1>1, ModelAssumption DEF MarkRows, IsSigner
<1>5. Covered(s) \subseteq Node
  BY StageNodesType DEF Covered
<1> QED
  BY <1>3, <1>4, <1>5

\* The nodes a return wipes are nodes of the process.
LEMMA WipeNodesType ==
    ASSUME TypeOK, NEW n \in Node, NEW t \in Node
    PROVE  WipeNodes(n, t) \subseteq Node
<1>1. SinceArrival(t) \subseteq AuditRow
  BY DEF TypeOK, SinceArrival
<1>2. Downstream(t) \subseteq Node
  BY DEF Downstream
<1> QED
  BY <1>1, <1>2 DEF WipeNodes, AuditRow

----------------------------------------------------------------------------
(* Type correctness. *)

\* A step that ends its request and leaves the tables well-typed keeps TypeOK.
LEMMA EndType ==
    ASSUME TypeOK, NEW s \in Session, End(s),
           workItems' \subseteq Item,
           signers' \in [SignType -> [User -> {"absent", "pending", "signed"}]],
           audit' \subseteq AuditRow, auditId' \in Nat, docStatus' \in Node,
           fresh' \subseteq SignType \X User, requests' \in Nat
    PROVE  TypeOK'
<1>1. NoRequest \in Request /\ Draft \in Node
  BY WorkflowAssumption DEF NoRequest, Request, Item
<1>2. /\ docLock' \in Session \cup {None}
      /\ pc' \in [Session -> Labels]
      /\ request' \in [Session -> Request]
      /\ next' \in [Session -> Node]
      /\ assignees' \in [Session -> SUBSET User]
      /\ last' \in [Session -> BOOLEAN]
  BY <1>1 DEF TypeOK, End, Goto, Labels
<1>3. /\ del' \in [Session -> SUBSET Item]
      /\ mark' \in [Session -> SUBSET (SignType \X User)]
      /\ ins' \in [Session -> SUBSET Item]
      /\ cover' \in [Session -> SUBSET Node]
      /\ outcome' \in [Session -> {"none", "wait", "stay", "advance", "exit", "return"}]
  BY DEF TypeOK, End
<1> QED
  BY <1>2, <1>3 DEF TypeOK

\* A rolled-back request leaves the tables as they were.
LEMMA RollbackType ==
    ASSUME TypeOK, NEW s \in Session, Rollback(s)
    PROVE  TypeOK'
BY EndType DEF TypeOK, Rollback, db

\* The rows a forward commit writes are audit rows.
LEMMA ForwardRowsType ==
    ASSUME TypeOK, NEW s \in Session, CommitForward(s)
    PROVE  audit' \subseteq AuditRow
<1>1. NodeOf(s) \in Node /\ UserOf(s) \in User /\ Role[NodeOf(s)] \in RoleName
  BY RequestType, WorkflowAssumption
<1>2. audit \subseteq AuditRow /\ auditId \in Nat /\ ins[s] \subseteq Item
  BY DEF TypeOK
<1>3. \A rows \in SUBSET AuditRow : Closed(rows) \subseteq AuditRow
  BY DEF Closed, AuditRow
<1>4. \A r \in AuditRow : [r EXCEPT !.open = FALSE] \in AuditRow
  BY DEF AuditRow
<1>5. ForwardUpdate(s) \subseteq AuditRow
  BY <1>2, <1>3, <1>4 DEF ForwardUpdate
<1>6. Row(s, auditId + 1, NodeOf(s), NodeOf(s), None, FALSE, FALSE) \in AuditRow
  BY <1>1, <1>2 DEF Row, AuditRow
<1>7. \A i \in ins[s] :
        Row(s, auditId + 2, NodeOf(s), i.node, i.user, FALSE, TRUE) \in AuditRow
  BY <1>1, <1>2 DEF Row, AuditRow, Item
<1> QED
  BY <1>5, <1>6, <1>7 DEF CommitForward

\* Deciding what a transaction does touches only its own variables.
LEMMA DecideType ==
    ASSUME TypeOK, NEW s \in Session, NEW what, NEW items \in SUBSET Item,
           what \in {"wait", "stay", "advance", "exit"},
           Decide(s, what, items)
    PROVE  TypeOK'
<1>1. Covered(s) \in SUBSET Node /\ del[s] \cup ItemsAt(Covered(s)) \in SUBSET Item
  BY RemovalType DEF TypeOK
<1>2. cover' \in [Session -> SUBSET Node] /\ del' \in [Session -> SUBSET Item]
  BY <1>1 DEF TypeOK, Decide
<1>3. /\ ins' \in [Session -> SUBSET Item]
      /\ outcome' \in [Session -> {"none", "wait", "stay", "advance", "exit", "return"}]
      /\ pc' \in [Session -> Labels]
  BY DEF TypeOK, Decide, Goto, Labels
<1> QED
  BY <1>2, <1>3 DEF TypeOK, Decide, db, planVars

\* A plan for the transaction is well-typed if its node and its users are.
LEMMA PlanType ==
    ASSUME TypeOK, NEW s \in Session, NEW n \in Node, NEW who \in SUBSET User,
           Plan(s, n, who),
           signers' \in [SignType -> [User -> {"absent", "pending", "signed"}]]
    PROVE  TypeOK'
BY DEF TypeOK, Plan, Goto, Labels, txVars

\* The items created for the next step are items.
LEMMA TargetItemsType ==
    ASSUME TypeOK, NEW s \in Session
    PROVE  TargetItems(s) \subseteq Item
<1>1. next[s] \in Node /\ assignees[s] \in SUBSET User
  BY RequestType DEF TypeOK
<1>2. Recipients(s, assignees[s]) \in SUBSET User
  BY <1>1, RecipientsType
<1>3. NewItems(s, next[s], Recipients(s, assignees[s])) \subseteq Item
  BY <1>1, <1>2, NewItemsType
<1>4. \A m \in Node : NewItems(s, m, StageAssignees(s, m)) \subseteq Item
  BY <1>2, UsersType, NewItemsType DEF StageAssignees
<1>5. StageItems(s) \subseteq Item
  BY <1>4, StageNodesType DEF StageItems
<1> QED
  BY <1>3, <1>5 DEF TargetItems

\* The step a stage is left to is a node; its recipients are users.
LEMMA ExitStepType ==
    ASSUME TypeOK, NEW s \in Session, NEW e \in ExitTargets(NodeOf(s))
    PROVE  /\ ExitStep(e) \in Node
           /\ Recipients(s, ExitAssignees(s, ExitStep(e))) \in SUBSET User
<1>1. e \in Node
  BY ExitTargetsType
<1>2. ExitStep(e) \in Node
  BY <1>1 DEF ExitStep
<1>3. ExitAssignees(s, ExitStep(e)) \in SUBSET User
  BY <1>2, UsersType, RequestType DEF ExitAssignees, TypeOK
<1> QED
  BY <1>2, <1>3, RecipientsType

\* A new document, its draft item and its first audit row are well-typed.
LEMMA TypeInit == Init => TypeOK
<1> SUFFICES ASSUME Init PROVE TypeOK
  OBVIOUS
<1>1. [req |-> 0, node |-> Draft, user |-> Drafter] \in Item
  BY WorkflowAssumption DEF Item
<1>2. NoRequest \in Request /\ Draft \in Node
  BY <1>1, WorkflowAssumption DEF NoRequest, Request
<1>3. audit \subseteq AuditRow
  BY WorkflowAssumption DEF Init, AuditRow
<1>4. signers \in [SignType -> [User -> {"absent", "pending", "signed"}]]
  BY DEF Init
<1>5. pc \in [Session -> Labels]
  BY DEF Init, Labels
<1> QED
  BY <1>1, <1>2, <1>3, <1>4, <1>5 DEF Init, TypeOK

\* Every step keeps the tables and the requests well-typed.
LEMMA TypeStep ==
    ASSUME TypeOK, [Next]_vars
    PROVE  TypeOK'
<1>1. ASSUME NEW s \in Session, NEW i \in workItems, NEW t \in Node,
             NEW c \in Choices \cup {{}}, ReadForward(s, i, t, c)
      PROVE  TypeOK'
  <2>1. i \in Item /\ c \in SUBSET User /\ requests + 1 \in Nat
    BY <1>1, WorkflowAssumption DEF TypeOK
  <2>2. TypesToReset(t) \in SUBSET SignType
    BY DEF TypesToReset
  <2>3. request' \in [Session -> Request]
    BY <1>1, <2>1, <2>2 DEF ReadForward, TypeOK, Request
  <2>4. pc' \in [Session -> Labels] /\ requests' \in Nat
    BY <1>1, <2>1 DEF ReadForward, TypeOK, Goto, Labels
  <2> QED
    BY <1>1, <2>3, <2>4 DEF ReadForward, TypeOK, db, planVars, txVars
<1>2. ASSUME NEW s \in Session, NEW i \in workItems, NEW t \in Node,
             NEW c \in Choices \cup {{}}, ReadReturn(s, i, t, c)
      PROVE  TypeOK'
  <2>1. i \in Item /\ c \in SUBSET User /\ requests + 1 \in Nat
    BY <1>2, WorkflowAssumption DEF TypeOK
  <2>2. WipeNodes(i.node, t) \in SUBSET Node
    BY <2>1, WipeNodesType DEF Item
  <2>3. request' \in [Session -> Request]
    BY <1>2, <2>1, <2>2 DEF ReadReturn, TypeOK, Request
  <2>4. /\ pc' \in [Session -> Labels] /\ requests' \in Nat
        /\ next' \in [Session -> Node]
        /\ assignees' \in [Session -> SUBSET User]
    BY <1>2, <2>1 DEF ReadReturn, TypeOK, Goto, Labels
  <2> QED
    BY <1>2, <2>3, <2>4 DEF ReadReturn, TypeOK, db, txVars
<1>3. ASSUME NEW s \in Session, ResetSigners(s) PROVE TypeOK'
  <2>1. signers' \in [SignType -> [User -> {"absent", "pending", "signed"}]]
    BY <1>3 DEF ResetSigners, TypeOK
  <2> QED
    BY <1>3, <2>1 DEF ResetSigners, TypeOK, Goto, Labels, planVars, txVars
<1>4. ASSUME NEW s \in Session, ResolveEnd(s) PROVE TypeOK'
  <2>1. request[s].target \in Node
    BY RequestType DEF Request
  <2>2. Plan(s, request[s].target, {}) /\ signers' = signers
    BY <1>4 DEF ResolveEnd
  <2>3. signers' \in [SignType -> [User -> {"absent", "pending", "signed"}]]
    BY <2>2 DEF TypeOK
  <2> QED
    BY <2>1, <2>2, <2>3, PlanType
<1>5. ASSUME NEW s \in Session, ResolveChosen(s) PROVE TypeOK'
  <2> DEFINE t == AfterSkipLane(request[s].target)
             c == request[s].choice
             keep == TypeOf[t] # None /\ PendingAt(t) # {} /\ c = {UserOf(s)}
  <2>1. t \in Node /\ c \in SUBSET User
    BY RequestType DEF AfterSkipLane, Request
  <2>2. Plan(s, t, IF keep THEN PendingAt(t) ELSE c)
    BY <1>5 DEF ResolveChosen
  <2>3. (IF keep THEN PendingAt(t) ELSE c) \in SUBSET User
    BY <2>1, UsersType
  <2>4. signers' \in [SignType -> [User -> {"absent", "pending", "signed"}]]
    <3>1. signers' = IF keep \/ TypeOf[t] = None THEN signers
                     ELSE [signers EXCEPT ![TypeOf[t]] = Replaced(signers[TypeOf[t]], c)]
      BY <1>5 DEF ResolveChosen
    <3>2. CASE keep \/ TypeOf[t] = None
      BY <3>1, <3>2 DEF TypeOK
    <3>3. CASE ~(keep \/ TypeOf[t] = None)
      <4>1. TypeOf[t] \in SignType
        BY <3>3, <2>1, ModelAssumption
      <4>2. Replaced(signers[TypeOf[t]], c) \in [User -> {"absent", "pending", "signed"}]
        BY DEF Replaced
      <4> HIDE DEF keep, t, c
      <4> QED
        BY <3>1, <3>3, <4>1, <4>2 DEF TypeOK
    <3> QED
      BY <3>2, <3>3
  <2> HIDE DEF keep, t, c
  <2> QED
    BY <2>1, <2>2, <2>3, <2>4, PlanType
<1>6. ASSUME NEW s \in Session, ResolveAutomatic(s) PROVE TypeOK'
  <2> DEFINE t == AfterSkipLane(request[s].target)
  <2>1. Automatic(t) \in Node
    BY <1>6 DEF ResolveAutomatic, CanResolve
  <2>2. PendingAt(Automatic(t)) \in SUBSET User
    BY <2>1, UsersType
  <2>3. Plan(s, Automatic(t), PendingAt(Automatic(t))) /\ signers' = signers
    BY <1>6 DEF ResolveAutomatic
  <2> QED
    BY <2>1, <2>2, <2>3, PlanType DEF TypeOK
<1>7. ASSUME NEW s \in Session, Refuse(s) PROVE TypeOK'
  BY <1>7, RollbackType DEF Refuse
<1>8. ASSUME NEW s \in Session, CountSigners(s) PROVE TypeOK'
  <2> DEFINE few == IsSigner(s) => Cardinality(PendingAt(NodeOf(s))) <= 1
  <2>1. few \in BOOLEAN
    BY Zenon
  <2>2. last' = [last EXCEPT ![s] = few]
    BY <1>8 DEF CountSigners
  <2> HIDE DEF few
  <2>3. last' \in [Session -> BOOLEAN] /\ pc' \in [Session -> Labels]
    BY <1>8, <2>1, <2>2 DEF CountSigners, TypeOK, Goto, Labels
  <2> QED
    BY <1>8, <2>3 DEF CountSigners, TypeOK, db, txVars
<1>9. ASSUME NEW s \in Session, MarkAndRemove(s) PROVE TypeOK'
  <2>1. Removal(s) \in SUBSET Item /\ MarkRows(s) \in SUBSET (SignType \X User)
    BY RemovalType
  <2>2. /\ del' \in [Session -> SUBSET Item]
        /\ mark' \in [Session -> SUBSET (SignType \X User)]
        /\ pc' \in [Session -> Labels]
    BY <1>9, <2>1 DEF MarkAndRemove, TypeOK, Goto, Labels
  <2> QED
    BY <1>9, <2>2 DEF MarkAndRemove, TypeOK, db, planVars
<1>10. ASSUME NEW s \in Session, AlreadyCompleted(s) PROVE TypeOK'
  BY <1>10, RollbackType DEF AlreadyCompleted
<1>11. ASSUME NEW s \in Session, TouchAudit(s) PROVE TypeOK'
  <2> DEFINE made == [req : {request[s].req}, node : {next[s]}, user : assignees[s]]
  <2>1. made \in SUBSET Item
    BY RequestType DEF Request, Item, TypeOK
  <2>2. /\ ins' \in [Session -> SUBSET Item]
        /\ outcome' \in [Session -> {"none", "wait", "stay", "advance", "exit", "return"}]
    <3>1. CASE request[s].op = "return"
      <4>1. /\ ins' = [ins EXCEPT ![s] = made]
            /\ outcome' = [outcome EXCEPT ![s] = "return"]
        BY <1>11, <3>1 DEF TouchAudit
      <4> HIDE DEF made
      <4> QED
        BY <2>1, <4>1 DEF TypeOK
    <3>2. CASE request[s].op # "return"
      BY <1>11, <3>2 DEF TouchAudit, TypeOK
    <3> QED
      BY <3>1, <3>2
  <2>3. docLock' \in Session \cup {None} /\ pc' \in [Session -> Labels]
    BY <1>11 DEF TouchAudit, TypeOK, Goto, Labels
  <2> QED
    BY <1>11, <2>2, <2>3 DEF TouchAudit, TypeOK, db, planVars
<1>12. ASSUME NEW s \in Session, StageWaits(s) PROVE TypeOK'
  BY <1>12, DecideType DEF StageWaits
<1>13. ASSUME NEW s \in Session, StageExits(s) PROVE TypeOK'
  <2>1. PICK e \in ExitTargets(NodeOf(s)) :
          \/ Rollback(s)
          \/ Decide(s, "exit",
               IF NodeDone(s)
                 THEN NewItems(s, ExitStep(e), Recipients(s, ExitAssignees(s, ExitStep(e))))
                 ELSE {})
    BY <1>13 DEF StageExits
  <2>2. NewItems(s, ExitStep(e), Recipients(s, ExitAssignees(s, ExitStep(e)))) \subseteq Item
    BY ExitStepType, NewItemsType
  <2> QED
    BY <2>1, <2>2, DecideType, RollbackType
<1>14. ASSUME NEW s \in Session, Advance(s) PROVE TypeOK'
  BY <1>14, TargetItemsType, DecideType DEF Advance
<1>15. ASSUME NEW s \in Session, CommitForward(s) PROVE TypeOK'
  <2>1. audit' \subseteq AuditRow
    BY <1>15, ForwardRowsType
  <2>2. workItems' \subseteq Item /\ auditId' \in Nat /\ docStatus' \in Node
    BY <1>15, RequestType DEF CommitForward, TypeOK
  <2>3. /\ signers' \in [SignType -> [User -> {"absent", "pending", "signed"}]]
        /\ fresh' \subseteq SignType \X User
    BY <1>15 DEF CommitForward, TypeOK
  <2>4. End(s) /\ requests' \in Nat
    BY <1>15 DEF CommitForward, TypeOK
  <2> QED
    BY <2>1, <2>2, <2>3, <2>4, EndType
<1>16. ASSUME NEW s \in Session, RemoveOwn(s) PROVE TypeOK'
  <2>1. del' \in [Session -> SUBSET Item] /\ pc' \in [Session -> Labels]
    BY <1>16, RequestType DEF RemoveOwn, TypeOK, Goto, Labels
  <2> QED
    BY <1>16, <2>1 DEF RemoveOwn, TypeOK, db, planVars
<1>17. ASSUME NEW s \in Session, WipeDownstream(s) PROVE TypeOK'
  <2>1. del[s] \cup WipeItems(s) \in SUBSET Item
    BY RemovalType DEF TypeOK
  <2>2. del' \in [Session -> SUBSET Item] /\ pc' \in [Session -> Labels]
    BY <1>17, <2>1 DEF WipeDownstream, TypeOK, Goto, Labels
  <2> QED
    BY <1>17, <2>2 DEF WipeDownstream, TypeOK, db, planVars
<1>18. ASSUME NEW s \in Session, CommitReturn(s) PROVE TypeOK'
  <2>1. \A u \in assignees[s] :
          Row(s, auditId + 1, NodeOf(s), next[s], u, TRUE, TRUE) \in AuditRow
    BY RequestType, WorkflowAssumption DEF Row, AuditRow, TypeOK
  <2>2. \A r \in AuditRow : SentBack(s, r) \in AuditRow
    <3> TAKE r \in AuditRow
    <3>1. [r EXCEPT !.ret = TRUE, !.open = FALSE] \in AuditRow
      BY DEF AuditRow
    <3> QED
      BY <3>1, Zenon DEF SentBack
  <2> DEFINE new == {Row(s, auditId + 1, NodeOf(s), next[s], u, TRUE, TRUE) : u \in assignees[s]}
  <2>3. audit' \subseteq AuditRow
    <3>1. audit \cup new \subseteq AuditRow
      BY <2>1 DEF TypeOK
    <3>2. audit' = {SentBack(s, r) : r \in audit \cup new}
      BY <1>18 DEF CommitReturn
    <3> HIDE DEF new
    <3> QED
      BY <2>2, <3>1, <3>2
  <2>4. workItems' \subseteq Item /\ auditId' \in Nat /\ docStatus' \in Node
    BY <1>18, RequestType DEF CommitReturn, TypeOK
  <2>5. End(s) /\ requests' \in Nat /\ fresh' = {} /\ signers' = signers
    BY <1>18 DEF CommitReturn, TypeOK
  <2> QED
    BY <2>3, <2>4, <2>5, EndType DEF TypeOK
<1>19. ASSUME NEW s \in Session, DeadlockVictim(s) \/ Fail(s) PROVE TypeOK'
  BY <1>19, RollbackType DEF DeadlockVictim, Fail
<1>20. CASE UNCHANGED vars
  BY <1>20 DEF TypeOK, vars, db, planVars, txVars
<1> QED
  BY <1>1, <1>2, <1>3, <1>4, <1>5, <1>6, <1>7, <1>8, <1>9, <1>10, <1>11, <1>12,
     <1>13, <1>14, <1>15, <1>16, <1>17, <1>18, <1>19, <1>20
     DEF Next, Arrival, Progress, Quiescent

\* The reachable states are well-typed: every table keeps the kind of rows the
\* code stores, and no step, lane or signer appears from nowhere.
THEOREM TypeCorrect == Spec => []TypeOK
<1>1. Init => TypeOK
  BY TypeInit
<1>2. TypeOK /\ [Next]_vars => TypeOK'
  BY TypeStep
<1> QED
  BY <1>1, <1>2, PTL DEF Spec

----------------------------------------------------------------------------
(* Leaving a stage. *)

StepOf(r) == Arrival(r) \/ Progress(r) \/ Fail(r)

\* What a request does not change of the others.
OthersUnchanged(r) ==
    \A s \in Session \ {r} :
        /\ pc'[s] = pc[s]
        /\ request'[s] = request[s]
        /\ del'[s] = del[s]
        /\ outcome'[s] = outcome[s]

\* While another request holds the document row, nobody takes it away and
\* nobody creates an item.
LockRespected(r) ==
    \A s \in Session \ {r} :
        docLock = s => docLock' = s /\ workItems' \subseteq workItems

\* The invariant's parts for the request that takes the step.
OwnPart(r) ==
    /\ /\ pc'[r] \in {"evaluate", "commit"}
       /\ request'[r].op = "return" \/ IsSigner(r)'
       => docLock' = r
    /\ pc'[r] = "commit" /\ outcome'[r] = "exit" =>
         StagePriority(NodeOf(r)') \cap NodesOf(workItems' \ del'[r]) = {}

\* The end of a request gives back its own lock and nobody else's.
LEMMA EndLocal ==
    ASSUME TypeOK, NEW r \in Session, End(r)
    PROVE  /\ OthersUnchanged(r)
           /\ \A s \in Session \ {r} : docLock = s => docLock' = s
           /\ OwnPart(r)
BY DEF TypeOK, End, Goto, OthersUnchanged, OwnPart

\* So does a rollback, which creates no item either.
LEMMA RollbackLocal ==
    ASSUME TypeOK, NEW r \in Session, Rollback(r)
    PROVE  OthersUnchanged(r) /\ LockRespected(r) /\ OwnPart(r)
BY EndLocal DEF Rollback, db, LockRespected

\* A commit that creates items waits for the document row.
LEMMA CommitLocal ==
    ASSUME TypeOK, NEW r \in Session, At(r, "commit"), End(r),
           workItems' = (workItems \ del[r]) \cup ins[r]
    PROVE  OthersUnchanged(r) /\ LockRespected(r) /\ OwnPart(r)
<1>1. ASSUME NEW s \in Session \ {r}, docLock = s PROVE ins[r] = {}
  <2>1. SUFFICES ASSUME ins[r] # {} PROVE s \in WaitsFor(r)
    BY DEF At
  <2> QED
    BY <1>1, <2>1 DEF At, WaitsFor, NeedsDocLock
<1> QED
  BY <1>1, EndLocal DEF LockRespected

\* Deciding needs the lock the audit write took, if it took one.
LEMMA DecideLocal ==
    ASSUME TypeOK, DocumentRowKept, NEW r \in Session, NEW what, NEW items,
           At(r, "evaluate"), Decide(r, what, items),
           what = "exit" =>
             StagePriority(NodeOf(r)) \cap NodesOf(workItems \ del[r]) = {}
    PROVE  OthersUnchanged(r) /\ LockRespected(r) /\ OwnPart(r)
<1>1. OthersUnchanged(r)
  BY DEF TypeOK, Decide, Goto, OthersUnchanged
<1>2. LockRespected(r)
  BY DEF Decide, db, LockRespected
<1>3. IsSigner(r)' = IsSigner(r) /\ NodeOf(r)' = NodeOf(r) /\ request' = request
  BY DEF Decide, IsSigner, NodeOf
<1>4. docLock' = docLock /\ workItems' = workItems /\ pc[r] = "evaluate"
  BY DEF Decide, db, At
<1>5. outcome'[r] = what /\ del[r] \subseteq del'[r]
  BY DEF TypeOK, Decide
<1>6. NodesOf(workItems' \ del'[r]) \subseteq NodesOf(workItems \ del[r])
  BY <1>4, <1>5 DEF NodesOf
<1> QED
  BY <1>1, <1>2, <1>3, <1>4, <1>5, <1>6 DEF OwnPart, DocumentRowKept

\* A complete stage has no open priority node.
LEMMA CompleteStage ==
    ASSUME NEW r \in Session, StageComplete(NodeOf(r), OpenNodes(r))
    PROVE  StagePriority(NodeOf(r)) \cap NodesOf(workItems \ del[r]) = {}
BY DEF StageComplete, OpenNodes

\* Every step of a request leaves the others alone, respects the document row
\* and keeps its own part of the invariant.
LEMMA StepLocal ==
    ASSUME TypeOK, DocumentRowKept, NEW r \in Session, StepOf(r)
    PROVE  OthersUnchanged(r) /\ LockRespected(r) /\ OwnPart(r)
<1>1. ASSUME NEW i, NEW t, NEW c, ReadForward(r, i, t, c) \/ ReadReturn(r, i, t, c)
      PROVE  OthersUnchanged(r) /\ LockRespected(r) /\ OwnPart(r)
  BY <1>1 DEF ReadForward, ReadReturn, Goto, db, txVars, TypeOK,
       OthersUnchanged, LockRespected, OwnPart
<1>2. CASE ResetSigners(r)
  BY <1>2 DEF ResetSigners, Goto, txVars, TypeOK, OthersUnchanged, LockRespected, OwnPart
<1>3. ASSUME NEW n, NEW who, Plan(r, n, who)
      PROVE  OthersUnchanged(r) /\ LockRespected(r) /\ OwnPart(r)
  BY <1>3 DEF Plan, Goto, txVars, TypeOK, OthersUnchanged, LockRespected, OwnPart
<1>4. CASE ResolveEnd(r) \/ ResolveChosen(r) \/ ResolveAutomatic(r)
  BY <1>3, <1>4 DEF ResolveEnd, ResolveChosen, ResolveAutomatic
<1>5. CASE Refuse(r) \/ AlreadyCompleted(r) \/ DeadlockVictim(r) \/ Fail(r)
  BY <1>5, RollbackLocal DEF Refuse, AlreadyCompleted, DeadlockVictim, Fail
<1>6. CASE CountSigners(r)
  BY <1>6 DEF CountSigners, Goto, db, txVars, TypeOK, OthersUnchanged, LockRespected, OwnPart
<1>7. CASE MarkAndRemove(r) \/ RemoveOwn(r) \/ WipeDownstream(r)
  BY <1>7 DEF MarkAndRemove, RemoveOwn, WipeDownstream, Goto, db, TypeOK,
       OthersUnchanged, LockRespected, OwnPart
<1>8. CASE TouchAudit(r)
  <2>1. request' = request /\ IsSigner(r)' = IsSigner(r) /\ workItems' = workItems
    BY <1>8 DEF TouchAudit, IsSigner, NodeOf, db
  <2>2. OthersUnchanged(r)
    BY <1>8, <2>1 DEF TouchAudit, Goto, TypeOK, OthersUnchanged
  <2>3. LockRespected(r)
    <3>1. SUFFICES ASSUME NEW s \in Session \ {r}, docLock = s PROVE docLock' = s
      BY <2>1 DEF LockRespected
    <3>2. ~TouchesAudit(r)
      BY <1>8, <3>1 DEF TouchAudit, At, WaitsFor, NeedsDocLock
    <3> QED
      BY <1>8, <3>1, <3>2 DEF TouchAudit
  <2>4. request[r].op = "return" \/ IsSigner(r) => docLock' = r
    BY <1>8 DEF TouchAudit, TouchesAudit
  <2>5. pc'[r] = "commit" => outcome'[r] = "return"
    BY <1>8 DEF TouchAudit, Goto, TypeOK
  <2> QED
    BY <2>1, <2>2, <2>3, <2>4, <2>5 DEF OwnPart
<1>9. CASE StageWaits(r) \/ Advance(r)
  BY <1>9, DecideLocal DEF StageWaits, Advance
<1>10. CASE StageExits(r)
  <2>1. PICK items : Rollback(r) \/ Decide(r, "exit", items)
    BY <1>10 DEF StageExits
  <2>2. At(r, "evaluate") /\ StageComplete(NodeOf(r), OpenNodes(r))
    BY <1>10 DEF StageExits
  <2> QED
    BY <2>1, <2>2, CompleteStage, DecideLocal, RollbackLocal
<1>11. CASE CommitForward(r) \/ CommitReturn(r)
  BY <1>11, CommitLocal DEF CommitForward, CommitReturn
<1> QED
  BY <1>1, <1>2, <1>4, <1>5, <1>6, <1>7, <1>8, <1>9, <1>10, <1>11
     DEF StepOf, Arrival, Progress

\* The inductive invariant: an "exit" that is about to commit was decided
\* under the document row, and it still holds that row.
ExitInv == TypeOK /\ DocumentRowKept /\ ExitWaitsForPriority

\* Every step keeps the two parts of ExitInv that are not about types: the
\* requests that do not move are protected by the document row.
LEMMA ExitStepInv ==
    ASSUME StagesAreSigned, ExitInv, [Next]_vars
    PROVE  DocumentRowKept' /\ ExitWaitsForPriority'
<1>1. CASE UNCHANGED vars
  <2>1. \A s \in Session : IsSigner(s)' = IsSigner(s) /\ NodeOf(s)' = NodeOf(s)
    BY <1>1 DEF vars, IsSigner, NodeOf
  <2> QED
    BY <1>1, <2>1 DEF ExitInv, DocumentRowKept, ExitWaitsForPriority, vars, db, txVars, NodesOf
<1>2. ASSUME NEW r \in Session, StepOf(r)
      PROVE  DocumentRowKept' /\ ExitWaitsForPriority'
  <2>1. OthersUnchanged(r) /\ LockRespected(r) /\ OwnPart(r)
    BY <1>2, StepLocal DEF ExitInv
  <2>2. \A s \in Session \ {r} : IsSigner(s)' = IsSigner(s) /\ NodeOf(s)' = NodeOf(s)
    BY <2>1 DEF OthersUnchanged, IsSigner, NodeOf
  <2>3. DocumentRowKept'
    BY <2>1, <2>2 DEF ExitInv, DocumentRowKept, OthersUnchanged, LockRespected, OwnPart
  <2>4. ASSUME NEW s \in Session \ {r}, pc[s] = "commit", outcome[s] = "exit",
               StagePriority(NodeOf(s)) # {}
        PROVE  NodesOf(workItems' \ del'[s]) \subseteq NodesOf(workItems \ del[s])
    <3>1. InStage(NodeOf(s)) /\ NodeOf(s) \in Node
      BY <2>4, RequestType DEF StagePriority, StageNodes, ExitInv
    <3>2. docLock = s
      BY <2>4, <3>1 DEF StagesAreSigned, ExitInv, DocumentRowKept, IsSigner
    <3> QED
      BY <2>1, <3>2 DEF LockRespected, OthersUnchanged, NodesOf
  <2>5. ExitWaitsForPriority'
    <3>1. ASSUME NEW s \in Session, pc'[s] = "commit", outcome'[s] = "exit"
          PROVE  StagePriority(NodeOf(s)') \cap NodesOf(workItems' \ del'[s]) = {}
      <4>1. CASE s = r
        BY <2>1, <3>1, <4>1 DEF OwnPart
      <4>2. CASE s # r
        BY <2>1, <2>2, <2>4, <3>1, <4>2 DEF OthersUnchanged, ExitInv, ExitWaitsForPriority
      <4> QED
        BY <4>1, <4>2
    <3> QED
      BY <3>1 DEF ExitWaitsForPriority, NodesOf
  <2> QED
    BY <2>3, <2>5
<1> QED
  BY <1>1, <1>2 DEF Next, StepOf, Quiescent

\* A stage with priority nodes is never left while a work item of a priority
\* node remains: with any number of requests in flight, whatever they read
\* before their transactions, and although they can fail at every statement.
THEOREM PriorityExit ==
    ASSUME StagesAreSigned
    PROVE  Spec => []ExitWaitsForPriority
<1>1. Init => ExitInv
  <2> SUFFICES ASSUME Init PROVE ExitInv
    OBVIOUS
  <2>1. \A s \in Session : pc[s] = "idle"
    BY DEF Init
  <2> QED
    BY <2>1, TypeInit DEF ExitInv, DocumentRowKept, ExitWaitsForPriority
<1>2. ExitInv /\ [Next]_vars => ExitInv'
  BY ExitStepInv, TypeStep DEF ExitInv
<1>3. ExitInv => ExitWaitsForPriority
  BY DEF ExitInv
<1> QED
  BY <1>1, <1>2, <1>3, PTL DEF Spec

----------------------------------------------------------------------------
(* Induction without an induction theorem, and the reach of a node.          *)

\* Induction on a set of numbers: a set that holds 0 and with k also k + 1
\* holds every natural number (otherwise k |-> k + 1 would map 0..n one to one
\* into 1..n).
LEMMA SetInduction ==
    ASSUME NEW T, 0 \in T, \A k \in Nat : k \in T => k + 1 \in T, NEW n \in Nat
    PROVE  n \in T
<1> SUFFICES ASSUME n \notin T PROVE FALSE
  OBVIOUS
<1> DEFINE f == [k \in 0..n |-> IF k \in T THEN k + 1 ELSE k]
<1>1. f \in [0..n -> 1..n]
  <2>1. \A k \in 0..n : (IF k \in T THEN k + 1 ELSE k) \in 1..n
    OBVIOUS
  <2> QED
    BY <2>1
<1>2. \A k, m \in 0..n : f[k] = f[m] => k = m
  <2> SUFFICES ASSUME NEW k \in 0..n, NEW m \in 0..n,
                      (IF k \in T THEN k + 1 ELSE k) = (IF m \in T THEN m + 1 ELSE m)
               PROVE  k = m
    OBVIOUS
  <2> QED
    OBVIOUS
<1>3. /\ IsFiniteSet(0..n) /\ Cardinality(0..n) = n + 1
      /\ IsFiniteSet(1..n) /\ Cardinality(1..n) = n
      /\ Cardinality(1..n) < Cardinality(0..n)
  <2>1. IsFiniteSet(0..n) /\ Cardinality(0..n) = n + 1
    BY FS_Interval
  <2>2. IsFiniteSet(1..n) /\ Cardinality(1..n) = n
    BY FS_Interval
  <2> QED
    BY <2>1, <2>2
<1> HIDE DEF f
<1>4. \E k, m \in 0..n : k # m /\ f[k] = f[m]
  BY <1>1, <1>3, FS_PigeonHole
<1> QED
  BY <1>2, <1>4

\* Iterating a function from a first value is a function on the naturals.
LEMMA Iteration ==
    ASSUME NEW S, NEW a \in S, NEW G \in [S -> S]
    PROVE  \E f \in [Nat -> S] : f[0] = a /\ \A k \in Nat : f[k + 1] = G[f[k]]
<1> DEFINE Upto(n) == {g \in [0..n -> S] : g[0] = a /\ \A k \in 0..(n - 1) : g[k + 1] = G[g[k]]}
           Defined == {n \in Nat : Upto(n) # {}}
           f == [n \in Nat |-> (CHOOSE w \in Upto(n) : TRUE)[n]]
<1>1. ASSUME NEW n \in Nat, NEW g \in Upto(n), NEW h \in Upto(n + 1)
      PROVE  \A k \in Nat : k <= n => g[k] = h[k]
  <2> DEFINE Same == {k \in Nat : k <= n => g[k] = h[k]}
  <2>1. 0 \in Same
    OBVIOUS
  <2>2. \A k \in Nat : k \in Same => k + 1 \in Same
    <3> SUFFICES ASSUME NEW k \in Nat, g[k] = h[k], k + 1 <= n PROVE g[k + 1] = h[k + 1]
      OBVIOUS
    <3>1. k \in 0..(n - 1) /\ k \in 0..((n + 1) - 1)
      OBVIOUS
    <3> QED
      BY <3>1
  <2> HIDE DEF Same
  <2>3. \A k \in Nat : k \in Same
    BY <2>1, <2>2, SetInduction
  <2> QED
    BY <2>3 DEF Same
<1>2. 0 \in Defined
  <2>1. [k \in 0..0 |-> a] \in Upto(0)
    OBVIOUS
  <2> QED
    BY <2>1
<1>3. \A n \in Nat : n \in Defined => n + 1 \in Defined
  <2> SUFFICES ASSUME NEW n \in Nat, NEW g \in Upto(n) PROVE Upto(n + 1) # {}
    BY SMTT(30)
  <2> DEFINE h == [k \in 0..(n + 1) |-> IF k <= n THEN g[k] ELSE G[g[n]]]
  <2>1. \A k \in 0..(n + 1) : (IF k <= n THEN g[k] ELSE G[g[n]]) \in S
    OBVIOUS
  <2>2. h \in [0..(n + 1) -> S] /\ h[0] = a
    BY <2>1
  <2>3. ASSUME NEW k \in 0..((n + 1) - 1) PROVE h[k + 1] = G[h[k]]
    <3>1. CASE k = n
      BY <3>1
    <3>2. CASE k # n
      <4>1. k \in 0..(n - 1) /\ k + 1 <= n
        BY <3>2
      <4> QED
        BY <4>1
    <3> QED
      BY <3>1, <3>2
  <2> QED
    BY <2>2, <2>3
<1>4. ASSUME NEW n \in Nat PROVE (CHOOSE w \in Upto(n) : TRUE) \in Upto(n)
  <2> HIDE DEF Defined, Upto
  <2>1. n \in Defined
    BY <1>2, <1>3, SetInduction
  <2> QED
    BY <2>1 DEF Defined
<1>5. f \in [Nat -> S]
  <2>1. \A n \in Nat : (CHOOSE w \in Upto(n) : TRUE)[n] \in S
    <3> SUFFICES ASSUME NEW n \in Nat PROVE (CHOOSE w \in Upto(n) : TRUE)[n] \in S
      OBVIOUS
    <3> DEFINE g == CHOOSE w \in Upto(n) : TRUE
    <3>1. g \in Upto(n)
      BY <1>4
    <3> HIDE DEF g
    <3>2. g[n] \in S
      BY <3>1
    <3> QED
      BY <3>2 DEF g
  <2> HIDE DEF Upto
  <2> QED
    BY <2>1
<1>6. f[0] = a
  <2> DEFINE g == CHOOSE w \in Upto(0) : TRUE
  <2>1. g \in Upto(0)
    <3>1. 0 \in Nat
      OBVIOUS
    <3> HIDE DEF Upto
    <3> QED
      BY <1>4, <3>1
  <2> HIDE DEF g
  <2>2. g[0] = a
    BY <2>1
  <2> QED
    BY <2>2 DEF g
<1>7. ASSUME NEW n \in Nat PROVE f[n + 1] = G[f[n]]
  <2> DEFINE g == CHOOSE w \in Upto(n) : TRUE
             h == CHOOSE w \in Upto(n + 1) : TRUE
  <2>1. g \in Upto(n) /\ h \in Upto(n + 1)
    <3>1. n + 1 \in Nat
      OBVIOUS
    <3> HIDE DEF Upto
    <3> QED
      BY <1>4, <3>1
  <2>2. f[n] = g[n] /\ f[n + 1] = h[n + 1]
    OBVIOUS
  <2> HIDE DEF g, h, f
  <2>3. g[n] = h[n]
    <3> HIDE DEF Upto
    <3> QED
      BY <1>1, <2>1
  <2>4. n \in 0..((n + 1) - 1)
    OBVIOUS
  <2>5. h[n + 1] = G[h[n]]
    BY <2>1, <2>4
  <2> QED
    BY <2>2, <2>3, <2>5
<1> HIDE DEF f
<1> QED
  BY <1>5, <1>6, <1>7

\* A node lies within its own stage's reach: the search starts there.
LEMMA InOwnReach ==
    ASSUME IsFiniteSet(Node), NEW p \in Node
    PROVE  p \in WithinStage(p)
<1> DEFINE targets(q) == {m \in StageNodes(p) : <<q, m>> \in Flow \cup ReturnFlow}
           wider(Q) == UNION {{q} \cup targets(q) : q \in Q}
           G == [Q \in SUBSET Node |-> wider(Q)]
           Body(g) == [k \in Nat |-> IF k = 0 THEN {p} ELSE wider(g[k - 1])]
           reach == CHOOSE g : g = Body(g)
<1>1. G \in [SUBSET Node -> SUBSET Node]
  <2>1. \A Q \in SUBSET Node : wider(Q) \in SUBSET Node
    BY DEF StageNodes
  <2> QED
    BY <2>1
<1>2. PICK f \in [Nat -> SUBSET Node] : f[0] = {p} /\ \A k \in Nat : f[k + 1] = G[f[k]]
  <2> DEFINE S == SUBSET Node
             a == {p}
  <2>1. a \in S /\ G \in [S -> S]
    BY <1>1
  <2> HIDE DEF G, reach, Body, wider, targets, S, a
  <2>2. \E f \in [Nat -> S] : f[0] = a /\ \A k \in Nat : f[k + 1] = G[f[k]]
    BY <2>1, Iteration
  <2> QED
    BY <2>2 DEF S, a
<1>3. \A k \in Nat : k # 0 => f[k] = wider(f[k - 1])
  <2> SUFFICES ASSUME NEW k \in Nat, k # 0 PROVE f[k] = wider(f[k - 1])
    OBVIOUS
  <2>1. k - 1 \in Nat /\ (k - 1) + 1 = k
    OBVIOUS
  <2>2. f[k - 1] \in SUBSET Node
    BY <2>1
  <2>3. f[k] = G[f[k - 1]]
    BY <1>2, <2>1
  <2> HIDE DEF wider
  <2> QED
    BY <2>2, <2>3
<1>4. f = Body(f)
  <2> HIDE DEF wider
  <2> QED
    BY <1>2, <1>3
<1>5. reach = Body(reach)
  <2> HIDE DEF Body
  <2> QED
    BY <1>4
<1>6. reach[0] = {p}
  <2> HIDE DEF reach, wider
  <2> QED
    BY <1>5
<1>7. \A k \in Nat : reach[k + 1] = wider(reach[k])
  <2> HIDE DEF reach, wider
  <2> SUFFICES ASSUME NEW k \in Nat PROVE reach[k + 1] = wider(reach[k])
    OBVIOUS
  <2>1. k + 1 \in Nat /\ k + 1 # 0 /\ (k + 1) - 1 = k
    OBVIOUS
  <2> QED
    BY <1>5, <2>1
<1>8. \A k \in Nat : p \in reach[k]
  <2> DEFINE T == {k \in Nat : p \in reach[k]}
  <2> HIDE DEF reach
  <2>1. 0 \in T
    BY <1>6
  <2>2. \A k \in Nat : k \in T => k + 1 \in T
    <3>1. \A Q : p \in Q => p \in wider(Q)
      OBVIOUS
    <3> HIDE DEF wider
    <3> QED
      BY <1>7, <3>1
  <2> HIDE DEF T
  <2>3. \A k \in Nat : k \in T
    BY <2>1, <2>2, SetInduction
  <2> QED
    BY <2>3 DEF T
<1>9. Cardinality(Node) \in Nat
  BY FS_CardinalityType
<1>10. WithinStage(p) = reach[Cardinality(Node)]
  BY DEF WithinStage
<1> HIDE DEF reach
<1> QED
  BY <1>8, <1>9, <1>10

----------------------------------------------------------------------------
(* Documents that go straight on, one request at a time.                    *)

\* One request at a time.
Alone == \A r, s \in Session : r = s

\* Steps come one after the other: every flow leads to a higher rank, and the
\* nodes of a stage share one.
Graded(rank) ==
    /\ \A f \in Flow : rank[f[1]] < rank[f[2]]
    /\ \A m, n \in Node : InStage(m) /\ StageKey(m) = StageKey(n) => rank[m] = rank[n]

Rank == CHOOSE rank \in [Node -> Nat] : Graded(rank)
Behind(m, n) == Rank[m] < Rank[n]

\* Process models without returns and skipped lanes, in which every signer
\* type belongs to one step, the nodes of a stage lead to one signer step or
\* end event, and a stage with an end step has priority nodes.
StraightModel ==
    /\ SkipNode = {} /\ ReturnFlow = {}
    /\ IsFiniteSet(Node) /\ IsFiniteSet(User)
    /\ \E rank \in [Node -> Nat] : Graded(rank)
    /\ \A m, n \in Node : TypeOf[m] # None /\ TypeOf[m] = TypeOf[n] => m = n
    /\ TypeOf[Draft] = None /\ ~InStage(Draft)
    /\ \A n \in EndEvent : ~InStage(n) /\ \A f \in Flow : f[1] # n
    /\ \A f \in Flow : InStage(f[1]) =>
         /\ ~InStage(f[2])
         /\ TypeOf[f[2]] # None \/ f[2] \in EndEvent
         /\ \A g \in Flow : StageKey(g[1]) = StageKey(f[1]) => g[2] = f[2]
    /\ \A n \in Node : InStage(n) /\ StagePriority(n) = {} =>
         StageNodes(n) \cap EndStep = {}

\* What holds of the open items, the signers and the status between requests.
Together(items) ==
    \A i, j \in items :
        \/ i.node = j.node
        \/ InStage(i.node) /\ StageKey(i.node) = StageKey(j.node)

AskedOnce(items) ==
    \A i, j \in items : i.node = j.node /\ i.user = j.user => i = j

\* At a signer step, who has an item is pending, and who is pending has one.
HoldersSign(items, sg) ==
    \A i \in items : TypeOf[i.node] # None =>
        /\ sg[TypeOf[i.node]][i.user] = "pending"
        /\ \A u \in User : sg[TypeOf[i.node]][u] = "pending" =>
             \E j \in items : j.node = i.node /\ j.user = u

\* Nobody has signed a step that is still to come.
NoneSignedAhead(items, sg) ==
    \A i \in items, n \in Node : TypeOf[n] # None /\ Behind(i.node, n) =>
        \A u \in User : sg[TypeOf[n]][u] # "signed"

EverySignerChosen(sg) ==
    \A n \in Node : TypeOf[n] # None => \E u \in User : sg[TypeOf[n]][u] # "absent"

ChosenOrDraft(items, sg) ==
    EverySignerChosen(sg) \/ \A i \in items : i.node = Draft

\* A stage is open only while one of its priority nodes is.
PriorityOpen(items) ==
    \A i \in items : InStage(i.node) /\ StagePriority(i.node) # {} =>
        \E j \in items : j.node \in StagePriority(i.node)

Alive(items, status) == items # {} \/ status \in EndEvent

Settled(items, sg, status) ==
    /\ Together(items)
    /\ AskedOnce(items)
    /\ HoldersSign(items, sg)
    /\ NoneSignedAhead(items, sg)
    /\ ChosenOrDraft(items, sg)
    /\ PriorityOpen(items)
    /\ Alive(items, status)

\* What the commit of a forward request will leave.
ItemsAfter(s) == (workItems \ del[s]) \cup ins[s]
SignersAfter(s) ==
    [T \in SignType |-> [u \in User |->
        IF <<T, u>> \in mark[s] THEN "signed" ELSE signers[T][u]]]
StatusAfter(s) == IF outcome[s] = "wait" THEN docStatus ELSE next[s]

OneLeft(n) == \A u, v \in PendingAt(n) : u = v
TargetOf(s) == request[s].target

\* What a request in flight knows.
Asked(s) ==
    /\ request[s].op = "forward"
    /\ request[s].item \in workItems
    /\ <<NodeOf(s), TargetOf(s)>> \in Flow
    /\ EverySignerChosen(signers)

Planned(s) ==
    /\ next[s] = TargetOf(s)
    /\ TargetOf(s) \notin EndEvent => assignees[s] # {}
    /\ TypeOf[TargetOf(s)] # None => assignees[s] = PendingAt(TargetOf(s))

Counted(s) == last[s] <=> (IsSigner(s) => OneLeft(NodeOf(s)))

InFlight(s) ==
    /\ pc[s] \in {"idle", "resolve", "count", "write", "audit", "evaluate", "commit"}
    /\ pc[s] # "idle" => Asked(s)
    /\ pc[s] \notin {"idle", "resolve"} => Planned(s)
    /\ pc[s] \in {"write", "audit", "evaluate", "commit"} => Counted(s)
    /\ pc[s] \in {"audit", "evaluate"} => del[s] = Removal(s)
    /\ pc[s] \in {"audit", "evaluate", "commit"} => mark[s] = MarkRows(s)
    /\ pc[s] = "commit" =>
         /\ outcome[s] # "return"
         /\ Settled(ItemsAfter(s), SignersAfter(s), StatusAfter(s))

NothingReturned == \A r \in audit : ~r.ret

StraightInv ==
    /\ TypeOK
    /\ NothingReturned
    /\ Settled(workItems, signers, docStatus)
    /\ \A s \in Session : InFlight(s)

----------------------------------------------------------------------------
\* The ranks grow along the flows and are equal in a stage.
LEMMA RankFacts ==
    ASSUME StraightModel
    PROVE  /\ Rank \in [Node -> Nat]
           /\ \A f \in Flow : Behind(f[1], f[2])
           /\ \A m, n \in Node : InStage(m) /\ StageKey(m) = StageKey(n) => Rank[m] = Rank[n]
<1>1. Rank \in [Node -> Nat] /\ Graded(Rank)
  BY DEF StraightModel, Rank
<1> QED
  BY <1>1 DEF Graded, Behind

\* Where a request goes lies behind no open item.
LEMMA TargetAhead ==
    ASSUME StraightModel, TypeOK, Together(workItems), NEW s \in Session, Asked(s)
    PROVE  /\ NodeOf(s) \in Node /\ TargetOf(s) \in Node /\ UserOf(s) \in User
           /\ Behind(NodeOf(s), TargetOf(s))
           /\ NodeOf(s) # TargetOf(s)
           /\ \A i \in workItems :
                /\ i.node \in Node /\ i.user \in User
                /\ Rank[i.node] = Rank[NodeOf(s)]
                /\ Behind(i.node, TargetOf(s))
<1>1. NodeOf(s) \in Node /\ TargetOf(s) \in Node /\ UserOf(s) \in User
  BY RequestType DEF TargetOf, Request
<1>2. Behind(NodeOf(s), TargetOf(s))
  BY RankFacts DEF Asked
<1>3. Rank \in [Node -> Nat]
  BY RankFacts
<1>4. NodeOf(s) # TargetOf(s)
  BY <1>1, <1>2, <1>3 DEF Behind
<1>5. ASSUME NEW i \in workItems
      PROVE  i.node \in Node /\ i.user \in User /\ Rank[i.node] = Rank[NodeOf(s)]
  <2>1. i.node \in Node /\ i.user \in User
    BY DEF TypeOK, Item
  <2>2. request[s].item \in workItems
    BY DEF Asked
  <2>3. i.node = NodeOf(s) \/ (InStage(i.node) /\ StageKey(i.node) = StageKey(NodeOf(s)))
    BY <2>2 DEF Together, NodeOf
  <2> QED
    BY <1>1, <2>1, <2>3, RankFacts
<1> QED
  BY <1>1, <1>2, <1>4, <1>5 DEF Behind

\* A signer step a request goes to has pending signers and nobody who signed.
LEMMA TargetPending ==
    ASSUME StraightModel, TypeOK, Settled(workItems, signers, docStatus),
           NEW s \in Session, Asked(s),
           NEW n \in Node, TypeOf[n] # None, Rank[n] = Rank[TargetOf(s)]
    PROVE  /\ TypeOf[n] \in SignType
           /\ \A u \in User : signers[TypeOf[n]][u] \in {"absent", "pending"}
           /\ PendingAt(n) # {}
<1>1. TypeOf[n] \in SignType
  BY ModelAssumption
<1>2. Behind(NodeOf(s), n)
  BY TargetAhead DEF Settled, Behind
<1>3. \A u \in User : signers[TypeOf[n]][u] # "signed"
  <2>1. request[s].item \in workItems
    BY DEF Asked
  <2> QED
    BY <1>2, <2>1 DEF Settled, NoneSignedAhead, NodeOf
<1>4. \A u \in User : signers[TypeOf[n]][u] \in {"absent", "pending", "signed"}
  BY <1>1 DEF TypeOK
<1>5. PICK u \in User : signers[TypeOf[n]][u] # "absent"
  BY DEF Asked, EverySignerChosen
<1> QED
  BY <1>1, <1>3, <1>4, <1>5 DEF PendingAt, PendingOf

----------------------------------------------------------------------------
(* The tables after a commit.                                               *)

\* After the commit of a signer its own row is signed, and no other row changes.
LEMMA AfterMark ==
    ASSUME StraightModel, TypeOK, Settled(workItems, signers, docStatus),
           NEW s \in Session, Asked(s), mark[s] = MarkRows(s),
           NEW n \in Node, TypeOf[n] # None, NEW u \in User
    PROVE  SignersAfter(s)[TypeOf[n]][u] =
             IF n = NodeOf(s) /\ u = UserOf(s) THEN "signed" ELSE signers[TypeOf[n]][u]
<1>1. TypeOf[n] \in SignType
  BY ModelAssumption
<1>2. NodeOf(s) \in Node /\ UserOf(s) \in User
  BY TargetAhead DEF Settled
<1>3. IsSigner(s) => UserOf(s) \in PendingAt(NodeOf(s))
  <2> SUFFICES ASSUME IsSigner(s) PROVE UserOf(s) \in PendingAt(NodeOf(s))
    OBVIOUS
  <2>1. signers[TypeOf[NodeOf(s)]][UserOf(s)] = "pending"
    BY DEF Asked, Settled, HoldersSign, NodeOf, UserOf, IsSigner
  <2> QED
    BY <1>2, <2>1 DEF PendingAt, PendingOf, IsSigner
<1>4. <<TypeOf[n], u>> \in mark[s] <=> n = NodeOf(s) /\ u = UserOf(s)
  <2>1. TypeOf[n] = TypeOf[NodeOf(s)] => n = NodeOf(s)
    BY <1>2 DEF StraightModel
  <2> QED
    BY <1>2, <1>3, <2>1 DEF MarkRows, IsSigner
<1> QED
  BY <1>1, <1>4 DEF SignersAfter

\* Everybody who had to be chosen still is after the commit.
LEMMA AfterChosen ==
    ASSUME StraightModel, TypeOK, Settled(workItems, signers, docStatus),
           NEW s \in Session, Asked(s), mark[s] = MarkRows(s)
    PROVE  EverySignerChosen(SignersAfter(s))
<1> SUFFICES ASSUME NEW n \in Node, TypeOf[n] # None
             PROVE  \E u \in User : SignersAfter(s)[TypeOf[n]][u] # "absent"
  BY DEF EverySignerChosen
<1>1. PICK u \in User : signers[TypeOf[n]][u] # "absent"
  BY DEF Asked, EverySignerChosen
<1> QED
  BY <1>1, AfterMark

\* The document stays where it is: items of the sender's step or stage are
\* left over, with every item of the nodes they are at but the sender's own.
LEMMA StaysSettled ==
    ASSUME StraightModel, TypeOK, Settled(workItems, signers, docStatus),
           NEW s \in Session, Asked(s), mark[s] = MarkRows(s),
           NEW items \in SUBSET workItems, request[s].item \notin items,
           \A i \in items, j \in workItems :
             j.node = i.node /\ j # request[s].item => j \in items,
           PriorityOpen(items),
           NEW status, Alive(items, status)
    PROVE  Settled(items, SignersAfter(s), status)
<1> DEFINE own == request[s].item
<1>0. own \in workItems /\ NodeOf(s) = own.node /\ UserOf(s) = own.user
  BY DEF Asked, NodeOf, UserOf
<1>1. Together(items) /\ AskedOnce(items)
  BY DEF Settled, Together, AskedOnce
<1>2. \A i \in items : i \in workItems /\ i # own /\ i.node \in Node /\ i.user \in User
                       /\ Rank[i.node] = Rank[NodeOf(s)]
  BY TargetAhead DEF Settled
<1>3. NodeOf(s) \in Node /\ UserOf(s) \in User
  BY TargetAhead DEF Settled
<1>4. HoldersSign(items, SignersAfter(s))
  <2> SUFFICES ASSUME NEW i \in items, TypeOf[i.node] # None
               PROVE  /\ SignersAfter(s)[TypeOf[i.node]][i.user] = "pending"
                      /\ \A u \in User : SignersAfter(s)[TypeOf[i.node]][u] = "pending" =>
                           \E j \in items : j.node = i.node /\ j.user = u
    BY DEF HoldersSign
  <2>1. signers[TypeOf[i.node]][i.user] = "pending"
    BY <1>2 DEF Settled, HoldersSign
  <2>2. ~(i.node = NodeOf(s) /\ i.user = UserOf(s))
    BY <1>0, <1>2 DEF Settled, AskedOnce
  <2>3. SignersAfter(s)[TypeOf[i.node]][i.user] = "pending"
    BY <1>2, <2>1, <2>2, AfterMark
  <2>4. ASSUME NEW u \in User, SignersAfter(s)[TypeOf[i.node]][u] = "pending"
        PROVE  \E j \in items : j.node = i.node /\ j.user = u
    <3>1. ~(i.node = NodeOf(s) /\ u = UserOf(s)) /\ signers[TypeOf[i.node]][u] = "pending"
      BY <1>2, <2>4, AfterMark
    <3>2. PICK j \in workItems : j.node = i.node /\ j.user = u
      BY <1>2, <3>1 DEF Settled, HoldersSign
    <3>3. j # own
      BY <1>0, <3>1, <3>2
    <3> QED
      BY <3>2, <3>3
  <2> QED
    BY <2>3, <2>4
<1>5. NoneSignedAhead(items, SignersAfter(s))
  <2> SUFFICES ASSUME NEW i \in items, NEW n \in Node, TypeOf[n] # None, Behind(i.node, n),
                      NEW u \in User
               PROVE  SignersAfter(s)[TypeOf[n]][u] # "signed"
    BY DEF NoneSignedAhead
  <2>1. signers[TypeOf[n]][u] # "signed"
    BY <1>2 DEF Settled, NoneSignedAhead
  <2>2. n # NodeOf(s)
    BY <1>2, <1>3, RankFacts DEF Behind
  <2> QED
    BY <2>1, <2>2, AfterMark
<1> QED
  BY <1>1, <1>4, <1>5, AfterChosen DEF Settled, ChosenOrDraft

\* The document goes on: the items left are new ones, at the target of the
\* request or in the stage of the target, and at a signer step they are those
\* of its pending signers.
LEMMA GoesOnSettled ==
    ASSUME StraightModel, TypeOK, Settled(workItems, signers, docStatus),
           NEW s \in Session, Asked(s), mark[s] = MarkRows(s),
           NEW items \in SUBSET Item, NEW req,
           \A i \in items : /\ i.req = req
                            /\ \/ i.node = TargetOf(s)
                               \/ InStage(TargetOf(s)) /\ StageKey(TargetOf(s)) = StageKey(i.node),
           \A i \in items, u \in User : TypeOf[i.node] # None =>
             (u \in PendingAt(i.node) <=> \E j \in items : j.node = i.node /\ j.user = u),
           PriorityOpen(items),
           NEW status, Alive(items, status)
    PROVE  Settled(items, SignersAfter(s), status)
<1> DEFINE t == TargetOf(s)
<1>1. t \in Node /\ NodeOf(s) \in Node /\ UserOf(s) \in User
  BY TargetAhead DEF Settled
<1>2. \A i \in items : i.node \in Node /\ i.user \in User /\ Rank[i.node] = Rank[t]
  BY <1>1, RankFacts DEF Item
<1>3. Together(items)
  BY DEF Together, InStage
<1>4. AskedOnce(items)
  BY DEF AskedOnce, Item
<1>5. \A i \in items : i.node # NodeOf(s)
  BY <1>1, <1>2, TargetAhead, RankFacts DEF Settled, Behind
<1>6. HoldersSign(items, SignersAfter(s))
  <2> SUFFICES ASSUME NEW i \in items, TypeOf[i.node] # None
               PROVE  /\ SignersAfter(s)[TypeOf[i.node]][i.user] = "pending"
                      /\ \A u \in User : SignersAfter(s)[TypeOf[i.node]][u] = "pending" =>
                           \E j \in items : j.node = i.node /\ j.user = u
    BY DEF HoldersSign
  <2>1. \A u \in User : SignersAfter(s)[TypeOf[i.node]][u] = "pending" <=> u \in PendingAt(i.node)
    BY <1>2, <1>5, AfterMark DEF PendingAt, PendingOf
  <2>2. i.user \in User /\ i.user \in PendingAt(i.node)
    BY <1>2
  <2> QED
    BY <2>1, <2>2
<1>7. NoneSignedAhead(items, SignersAfter(s))
  <2> SUFFICES ASSUME NEW i \in items, NEW n \in Node, TypeOf[n] # None, Behind(i.node, n),
                      NEW u \in User
               PROVE  SignersAfter(s)[TypeOf[n]][u] # "signed"
    BY DEF NoneSignedAhead
  <2>1. Behind(NodeOf(s), t)
    BY TargetAhead DEF Settled
  <2>2. Behind(NodeOf(s), n) /\ n # NodeOf(s)
    BY <1>1, <1>2, <2>1, RankFacts DEF Behind
  <2>3. signers[TypeOf[n]][u] # "signed"
    BY <2>2 DEF Settled, NoneSignedAhead, Asked, NodeOf
  <2> QED
    BY <2>2, <2>3, AfterMark
<1> QED
  BY <1>3, <1>4, <1>6, <1>7, AfterChosen DEF Settled, ChosenOrDraft

----------------------------------------------------------------------------
(* What a request decides from.                                             *)

\* What a request knows when it decides.
Deciding(s) ==
    /\ Asked(s) /\ Planned(s) /\ Counted(s)
    /\ del[s] = Removal(s) /\ mark[s] = MarkRows(s)

\* A step is over for everybody when it has no signer left but the sender.
LEMMA DoneFacts ==
    ASSUME StraightModel, TypeOK, Settled(workItems, signers, docStatus),
           NEW s \in Session, Asked(s), Planned(s), Counted(s)
    PROVE  /\ NodeDone(s) <=> (IsSigner(s) => OneLeft(NodeOf(s)))
           /\ NodeDone(s) => Removal(s) = ItemsAt({NodeOf(s)})
           /\ ~NodeDone(s) => Removal(s) = {request[s].item}
<1>1. next[s] # NodeOf(s)
  BY TargetAhead DEF Planned, Settled
<1>2. last[s] \in BOOLEAN
  BY DEF TypeOK
<1> QED
  BY <1>1, <1>2 DEF NodeDone, Counted, Removal, Asked

\* Until it is over, somebody else has an item of the step.
LEMMA SomebodyElse ==
    ASSUME StraightModel, TypeOK, Settled(workItems, signers, docStatus),
           NEW s \in Session, Deciding(s), ~NodeDone(s)
    PROVE  \E i \in workItems \ del[s] : i.node = NodeOf(s)
<1>1. IsSigner(s) /\ ~OneLeft(NodeOf(s)) /\ del[s] = {request[s].item}
  BY DoneFacts DEF Deciding
<1>2. PICK u, v \in PendingAt(NodeOf(s)) : u # v
  BY <1>1 DEF OneLeft
<1>3. \A w \in PendingAt(NodeOf(s)) : \E i \in workItems : i.node = NodeOf(s) /\ i.user = w
  BY <1>1 DEF Deciding, Asked, Settled, HoldersSign, NodeOf, IsSigner, PendingAt, PendingOf
<1>4. PICK i \in workItems, j \in workItems :
        i.node = NodeOf(s) /\ i.user = u /\ j.node = NodeOf(s) /\ j.user = v
  BY <1>2, <1>3
<1>5. i # request[s].item \/ j # request[s].item
  BY <1>2, <1>4
<1> QED
  BY <1>1, <1>4, <1>5

\* What a removal leaves is complete at every node, but for the sender's item.
LEMMA LeftOver ==
    ASSUME StraightModel, TypeOK, Settled(workItems, signers, docStatus),
           NEW s \in Session, Deciding(s)
    PROVE  /\ request[s].item \notin workItems \ del[s]
           /\ \A i \in workItems \ del[s], j \in workItems :
                j.node = i.node /\ j # request[s].item => j \in workItems \ del[s]
<1>1. request[s].item \in workItems /\ NodeOf(s) = request[s].item.node
  BY DEF Deciding, Asked, NodeOf
<1>2. CASE NodeDone(s)
  <2>1. del[s] = {i \in workItems : i.node = NodeOf(s)}
    BY <1>2, DoneFacts DEF Deciding, ItemsAt
  <2> QED
    BY <1>1, <2>1
<1>3. CASE ~NodeDone(s)
  <2>1. del[s] = {request[s].item}
    BY <1>3, DoneFacts DEF Deciding
  <2> QED
    BY <1>1, <2>1
<1> QED
  BY <1>2, <1>3

\* The nodes of a stage agree on its priority nodes.
LEMMA SameStage ==
    ASSUME NEW m, NEW n, InStage(m), StageKey(m) = StageKey(n)
    PROVE  InStage(n) /\ StageNodes(m) = StageNodes(n) /\ StagePriority(m) = StagePriority(n)
BY DEF InStage, StageNodes, StagePriority

\* Every open item is at the sender's node or in its stage.
LEMMA Neighbours ==
    ASSUME TypeOK, Settled(workItems, signers, docStatus), NEW s \in Session, Asked(s),
           NEW i \in workItems, i.node # NodeOf(s)
    PROVE  InStage(NodeOf(s)) /\ i.node \in StageNodes(NodeOf(s))
<1>1. InStage(NodeOf(s)) /\ StageKey(NodeOf(s)) = StageKey(i.node)
  BY DEF Asked, Settled, Together, NodeOf
<1>2. i.node \in Node
  BY DEF TypeOK, Item
<1> QED
  BY <1>1, <1>2 DEF StageNodes

\* A stage is complete only when the sender's own step is over.
LEMMA CompleteIsDone ==
    ASSUME StraightModel, TypeOK, Settled(workItems, signers, docStatus),
           NEW s \in Session, Deciding(s), InStage(NodeOf(s)),
           StageComplete(NodeOf(s), OpenNodes(s))
    PROVE  NodeDone(s)
<1> DEFINE n == NodeOf(s)
<1> SUFFICES ASSUME ~NodeDone(s) PROVE FALSE
  OBVIOUS
<1>1. n \in OpenNodes(s)
  BY SomebodyElse DEF OpenNodes, NodesOf
<1>2. n \in Node /\ n \in StageNodes(n)
  BY TargetAhead DEF Deciding, Settled, StageNodes
<1>3. CASE StagePriority(n) = {}
  <2>1. StageNodes(n) \cap EndStep = {}
    BY <1>2, <1>3 DEF StraightModel
  <2> QED
    BY <1>1, <1>2, <1>3, <2>1 DEF StageComplete
<1>4. CASE StagePriority(n) # {}
  <2>1. PICK j \in workItems : j.node \in StagePriority(n)
    BY <1>4 DEF Deciding, Asked, Settled, PriorityOpen, NodeOf
  <2>2. j.node \notin OpenNodes(s)
    BY <1>4, <2>1 DEF StageComplete
  <2>3. j \in del[s]
    BY <2>2 DEF OpenNodes, NodesOf
  <2>4. j = request[s].item
    BY <2>3, DoneFacts, ZenonT(60) DEF Deciding
  <2> QED
    BY <1>1, <2>2, <2>4 DEF NodeOf
<1> QED
  BY <1>3, <1>4

\* When the document goes on, no item of the step or stage is left.
LEMMA NothingLeft ==
    ASSUME StraightModel, TypeOK, Settled(workItems, signers, docStatus),
           NEW s \in Session, Deciding(s), NodeDone(s),
           InStage(NodeOf(s)) => StageComplete(NodeOf(s), OpenNodes(s))
    PROVE  workItems \ (del[s] \cup ItemsAt(Covered(s))) = {}
<1> DEFINE n == NodeOf(s)
<1> SUFFICES ASSUME NEW i \in workItems, i \notin del[s] PROVE i \in ItemsAt(Covered(s))
  OBVIOUS
<1>1. del[s] = {j \in workItems : j.node = n}
  BY DoneFacts DEF Deciding, ItemsAt
<1>2. InStage(n) /\ i.node \in StageNodes(n) /\ i.node \in OpenNodes(s)
  BY <1>1, Neighbours DEF Deciding, OpenNodes, NodesOf
<1>3. StagePriority(n) # {} /\ StagePriority(n) \cap OpenNodes(s) = {}
  <2>1. n \in Node
    BY TargetAhead DEF Deciding, Settled
  <2> QED
    BY <1>2, <2>1 DEF StageComplete, StraightModel
<1>4. PICK j \in workItems : j.node \in StagePriority(n)
  BY <1>2, <1>3 DEF Deciding, Asked, Settled, PriorityOpen, NodeOf
<1>5. j.node = n
  <2>1. j \in del[s]
    BY <1>3, <1>4 DEF OpenNodes, NodesOf
  <2> QED
    BY <1>1, <2>1
<1>6. n \in StagePriority(n) /\ n \in Node
  BY <1>4, <1>5 DEF StagePriority, StageNodes
<1>7. CoversStage(n, OpenNodes(s))
  BY <1>3, <1>6, InOwnReach DEF CoversStage, StraightModel
<1>8. i.node \in CoveredNodes(n)
  BY <1>2, <1>3 DEF CoveredNodes, StagePriority
<1> QED
  BY <1>2, <1>7, <1>8 DEF Covered, ItemsAt

----------------------------------------------------------------------------
(* The steps of a request keep the invariant.                               *)

\* What a step must keep, types apart.
Kept(r) ==
    /\ NothingReturned
    /\ Settled(workItems, signers, docStatus)
    /\ InFlight(r)

\* A step that leaves the items, the signers and what the request read alone
\* changes nothing of what was computed from them.
LEMMA SameReads ==
    ASSUME NEW r \in Session, workItems' = workItems, signers' = signers, request' = request
    PROVE  /\ NodeOf(r)' = NodeOf(r) /\ UserOf(r)' = UserOf(r) /\ TargetOf(r)' = TargetOf(r)
           /\ IsSigner(r)' = IsSigner(r)
           /\ \A n : PendingAt(n)' = PendingAt(n) /\ (OneLeft(n)' <=> OneLeft(n))
           /\ Asked(r)' <=> Asked(r)
           /\ MarkRows(r)' = MarkRows(r)
<1>1. /\ NodeOf(r)' = NodeOf(r) /\ UserOf(r)' = UserOf(r) /\ TargetOf(r)' = TargetOf(r)
      /\ IsSigner(r)' = IsSigner(r)
  BY DEF NodeOf, UserOf, TargetOf, IsSigner
<1>2. \A n : PendingAt(n)' = PendingAt(n) /\ (OneLeft(n)' <=> OneLeft(n))
  BY DEF PendingAt, PendingOf, OneLeft
<1>3. Asked(r)' <=> Asked(r)
  BY <1>1 DEF Asked
<1>4. MarkRows(r)' = MarkRows(r)
  BY <1>1, <1>2 DEF MarkRows
<1> QED
  BY <1>1, <1>2, <1>3, <1>4

\* The same for what it computed itself.
LEMMA SamePlan ==
    ASSUME NEW r \in Session, workItems' = workItems, signers' = signers, request' = request,
           next' = next, assignees' = assignees
    PROVE  /\ Planned(r)' <=> Planned(r)
           /\ last' = last => /\ Counted(r)' <=> Counted(r)
                              /\ NodeDone(r)' <=> NodeDone(r)
                              /\ Removal(r)' = Removal(r)
<1>1. Planned(r)' <=> Planned(r)
  BY SameReads DEF Planned
<1>2. ASSUME last' = last
      PROVE  (Counted(r)' <=> Counted(r)) /\ (NodeDone(r)' <=> NodeDone(r))
  BY <1>2, SameReads DEF Counted, NodeDone
<1>3. ASSUME last' = last PROVE Removal(r)' = Removal(r)
  BY <1>2, <1>3, SameReads DEF Removal, ItemsAt
<1> QED
  BY <1>1, <1>2, <1>3

\* The tables stay as they are.
LEMMA SameTables ==
    ASSUME NothingReturned, Settled(workItems, signers, docStatus), UNCHANGED db
    PROVE  NothingReturned' /\ Settled(workItems, signers, docStatus)'
<1>1. workItems' = workItems /\ signers' = signers /\ audit' = audit /\ docStatus' = docStatus
  BY DEF db
<1>2. NothingReturned'
  BY <1>1 DEF NothingReturned
<1>3. Settled(workItems, signers, docStatus)'
  BY <1>1
<1> QED
  BY <1>2, <1>3

\* A request that ended knows nothing.
LEMMA EndKeeps ==
    ASSUME TypeOK, NEW r \in Session, End(r)
    PROVE  InFlight(r)'
BY DEF End, Goto, TypeOK, InFlight

\* A request that is rolled back leaves the tables as they are.
LEMMA RollbackKeeps ==
    ASSUME TypeOK, NEW r \in Session, Kept(r), Rollback(r)
    PROVE  Kept(r)'
<1>1. InFlight(r)'
  BY EndKeeps DEF Rollback
<1>2. NothingReturned' /\ Settled(workItems, signers, docStatus)'
  BY SameTables DEF Kept, Rollback
<1> QED
  BY <1>1, <1>2 DEF Kept

\* A request that decides keeps the tables, and knows what its commit leaves.
LEMMA DecideKeeps ==
    ASSUME TypeOK, NEW r \in Session, Kept(r), pc[r] = "evaluate",
           NEW what \in {"wait", "stay", "advance", "exit"}, NEW items,
           Decide(r, what, items),
           Settled((workItems \ (del[r] \cup ItemsAt(Covered(r)))) \cup items,
                   SignersAfter(r), IF what = "wait" THEN docStatus ELSE next[r])
    PROVE  Kept(r)'
<1>1. /\ workItems' = workItems /\ signers' = signers /\ UNCHANGED db
      /\ docStatus' = docStatus /\ request' = request /\ next' = next
      /\ assignees' = assignees /\ last' = last /\ mark' = mark
      /\ pc'[r] = "commit" /\ outcome'[r] = what /\ ins'[r] = items
      /\ del'[r] = del[r] \cup ItemsAt(Covered(r))
  BY DEF Decide, db, planVars, Goto, TypeOK
<1>2. /\ ItemsAfter(r)' = (workItems \ (del[r] \cup ItemsAt(Covered(r)))) \cup items
      /\ SignersAfter(r)' = SignersAfter(r)
      /\ StatusAfter(r)' = IF what = "wait" THEN docStatus ELSE next[r]
  BY <1>1 DEF ItemsAfter, SignersAfter, StatusAfter
<1>3. NothingReturned' /\ Settled(workItems, signers, docStatus)'
  BY <1>1, SameTables DEF Kept
<1>4. Asked(r)' /\ Planned(r)' /\ Counted(r)' /\ mark'[r] = MarkRows(r)'
  BY <1>1, SameReads, SamePlan DEF Kept, InFlight
<1>5. outcome'[r] # "return" /\ Settled(ItemsAfter(r), SignersAfter(r), StatusAfter(r))'
  BY <1>1, <1>2
<1> QED
  BY <1>1, <1>3, <1>4, <1>5 DEF Kept, InFlight

\* Other nodes of the stage are open: the document stays in it.
LEMMA WaitKeeps ==
    ASSUME StraightModel, TypeOK, NEW r \in Session, Kept(r), StageWaits(r)
    PROVE  Kept(r)'
<1> DEFINE n == NodeOf(r)
           rest == workItems \ del[r]
<1>1. /\ pc[r] = "evaluate" /\ InStage(n) /\ ~StageComplete(n, OpenNodes(r))
      /\ Decide(r, "wait", {})
  BY DEF StageWaits, At
<1>2. Deciding(r) /\ Settled(workItems, signers, docStatus)
  BY <1>1 DEF Kept, InFlight, Deciding
<1>3. Covered(r) = {}
  <2>1. CoversStage(n, OpenNodes(r)) => StageComplete(n, OpenNodes(r))
    BY DEF CoversStage, StageComplete
  <2> QED
    BY <1>1, <2>1 DEF Covered
<1>4. (workItems \ (del[r] \cup ItemsAt(Covered(r)))) \cup {} = rest
  BY <1>3 DEF ItemsAt
<1>5. ASSUME NEW i \in rest, InStage(i.node), StagePriority(i.node) # {}
      PROVE  \E j \in rest : j.node \in StagePriority(i.node)
  <2>1. StagePriority(i.node) = StagePriority(n)
    BY <1>1, <1>2, <1>5, SameStage DEF Deciding, Asked, Settled, Together, NodeOf
  <2>2. StagePriority(n) \cap OpenNodes(r) # {}
    BY <1>1, <1>5, <2>1 DEF StageComplete
  <2> QED
    BY <2>1, <2>2 DEF OpenNodes, NodesOf
<1>6. rest # {}
  BY <1>1 DEF StageComplete, OpenNodes, NodesOf
<1>7. PriorityOpen(rest) /\ Alive(rest, docStatus)
  BY <1>5, <1>6 DEF PriorityOpen, Alive
<1>8. Settled(rest, SignersAfter(r), docStatus)
  BY <1>2, <1>7, LeftOver, StaysSettled DEF Deciding
<1> HIDE DEF rest, n
<1> QED
  BY <1>1, <1>4, <1>8, DecideKeeps

\* Somebody remains when the sender is left out of the recipients.
LEMMA RecipientsLeft ==
    ASSUME NEW s \in Session, NEW who, who # {}
    PROVE  /\ Recipients(s, who) # {}
           /\ TypeOf[next[s]] # None => Recipients(s, who) = who
BY DEF Recipients

\* The users of the items made for a node.
LEMMA NewItemsAt ==
    ASSUME TypeOK, NEW s \in Session, NEW n \in Node, NEW who \in SUBSET User
    PROVE  /\ NewItems(s, n, who) \subseteq Item
           /\ \A i \in NewItems(s, n, who) :
                i.req = request[s].req /\ i.node = n /\ i.user \in who
           /\ \A u \in who : \E i \in NewItems(s, n, who) : i.node = n /\ i.user = u
<1>1. \A u \in who : [req |-> request[s].req, node |-> n, user |-> u] \in NewItems(s, n, who)
  BY DEF NewItems
<1> QED
  BY <1>1, NewItemsType DEF NewItems

\* The document goes on to one step outside any stage.
LEMMA GoesOnToStep ==
    ASSUME StraightModel, TypeOK, Settled(workItems, signers, docStatus),
           NEW s \in Session, Deciding(s), ~InStage(TargetOf(s)),
           NEW who \in SUBSET User,
           who # {} \/ TargetOf(s) \in EndEvent,
           TypeOf[TargetOf(s)] # None => who = PendingAt(TargetOf(s))
    PROVE  Settled(NewItems(s, TargetOf(s), who), SignersAfter(s), next[s])
<1> DEFINE t == TargetOf(s)
           items == NewItems(s, t, who)
<1>1. t \in Node /\ next[s] = t
  BY TargetAhead DEF Deciding, Planned, Settled
<1>2. /\ items \subseteq Item
      /\ \A i \in items : i.req = request[s].req /\ i.node = t /\ i.user \in who
      /\ \A u \in who : \E i \in items : i.node = t /\ i.user = u
  BY <1>1, NewItemsAt
<1> HIDE DEF items
<1>3. PriorityOpen(items) /\ Alive(items, t)
  BY <1>2 DEF PriorityOpen, Alive
<1>4. \A i \in items, u \in User : TypeOf[i.node] # None =>
        (u \in PendingAt(i.node) <=> \E j \in items : j.node = i.node /\ j.user = u)
  BY <1>2
<1>5. \A i \in items : /\ i.req = request[s].req
                       /\ \/ i.node = TargetOf(s)
                          \/ InStage(TargetOf(s)) /\ StageKey(TargetOf(s)) = StageKey(i.node)
  BY <1>2
<1>6. items \in SUBSET Item /\ Asked(s) /\ mark[s] = MarkRows(s)
  BY <1>2 DEF Deciding
<1>7. Settled(items, SignersAfter(s), t)
  BY <1>3, <1>4, <1>5, <1>6, GoesOnSettled
<1> QED
  BY <1>1, <1>7 DEF items

\* The stage is complete and left, to the step the request named.
LEMMA ExitsToTarget ==
    ASSUME StraightModel, TypeOK, NEW r \in Session, Kept(r), StageExits(r)
    PROVE  \/ Rollback(r)
           \/ \E who \in SUBSET User :
                /\ pc[r] = "evaluate"
                /\ Decide(r, "exit", NewItems(r, TargetOf(r), who))
                /\ workItems \ (del[r] \cup ItemsAt(Covered(r))) = {}
                /\ Settled(NewItems(r, TargetOf(r), who), SignersAfter(r), next[r])
<1> DEFINE n == NodeOf(r)
           t == TargetOf(r)
<1>1. pc[r] = "evaluate" /\ InStage(n) /\ StageComplete(n, OpenNodes(r))
  BY DEF StageExits, At
<1>2. Deciding(r) /\ Settled(workItems, signers, docStatus)
  BY <1>1 DEF Kept, InFlight, Deciding
<1>3. NodeDone(r) /\ workItems \ (del[r] \cup ItemsAt(Covered(r))) = {}
  BY <1>1, <1>2, CompleteIsDone, NothingLeft
<1>4. PICK e \in ExitTargets(n) :
        \/ Rollback(r)
        \/ Decide(r, "exit", NewItems(r, ExitStep(e), Recipients(r, ExitAssignees(r, ExitStep(e)))))
  BY <1>3 DEF StageExits
<1>5. e = t
  <2>1. PICK f \in Flow : f[1] \in StageNodes(n) /\ e = f[2]
    BY DEF ExitTargets, BestExits, ExitFlows
  <2>2. <<n, t>> \in Flow
    BY <1>2 DEF Deciding, Asked
  <2>3. StageKey(f[1]) = StageKey(n)
    BY <2>1 DEF StageNodes
  <2> QED
    BY <1>1, <2>1, <2>2, <2>3 DEF StraightModel
<1>6. t \in Node /\ ~InStage(t) /\ (TypeOf[t] # None \/ t \in EndEvent)
  <2>1. <<n, t>> \in Flow /\ t \in Node
    BY <1>2, TargetAhead DEF Deciding, Asked, Settled
  <2> QED
    BY <1>1, <2>1 DEF StraightModel
<1>7. TypeOf[t] # None => PendingAt(t) # {}
  BY <1>2, <1>6, TargetPending DEF Deciding
<1>8. ExitStep(t) = t
  BY <1>6, <1>7 DEF ExitStep
<1> DEFINE who == Recipients(r, ExitAssignees(r, t))
<1>9. who \in SUBSET User
  <2>1. ExitStep(e) = t
    BY <1>5, <1>8
  <2> QED
    BY <2>1, ExitStepType
<1>10. /\ who # {} \/ t \in EndEvent
       /\ TypeOf[t] # None => who = PendingAt(t)
  BY <1>2, <1>6, <1>7, RecipientsLeft DEF ExitAssignees, Deciding, Planned
<1>11. Settled(NewItems(r, t, who), SignersAfter(r), next[r])
  BY <1>2, <1>6, <1>9, <1>10, GoesOnToStep
<1> QED
  BY <1>1, <1>3, <1>4, <1>5, <1>8, <1>9, <1>11

\* Leaving the stage keeps the invariant.
LEMMA ExitKeeps ==
    ASSUME StraightModel, TypeOK, NEW r \in Session, Kept(r), StageExits(r)
    PROVE  Kept(r)'
<1>1. CASE Rollback(r)
  BY <1>1, RollbackKeeps
<1>2. CASE ~Rollback(r)
  <2>1. PICK who \in SUBSET User :
          /\ pc[r] = "evaluate"
          /\ Decide(r, "exit", NewItems(r, TargetOf(r), who))
          /\ workItems \ (del[r] \cup ItemsAt(Covered(r))) = {}
          /\ Settled(NewItems(r, TargetOf(r), who), SignersAfter(r), next[r])
    BY <1>2, ExitsToTarget
  <2> DEFINE items == NewItems(r, TargetOf(r), who)
  <2> HIDE DEF items
  <2>2. (workItems \ (del[r] \cup ItemsAt(Covered(r)))) \cup items = items
    BY <2>1
  <2> QED
    BY <2>1, <2>2, DecideKeeps DEF items
<1> QED
  BY <1>1, <1>2

\* The document enters a stage: every node of it gets its items.
LEMMA EntersSettled ==
    ASSUME StraightModel, TypeOK, Settled(workItems, signers, docStatus),
           NEW s \in Session, Deciding(s), EntersStage(s)
    PROVE  TargetItems(s) = StageItems(s) /\ Settled(StageItems(s), SignersAfter(s), next[s])
<1> DEFINE t == TargetOf(s)
           who(m) == StageAssignees(s, m)
<1>1. t \in Node /\ next[s] = t /\ InStage(t) /\ ~InStage(NodeOf(s))
  BY TargetAhead DEF Deciding, Planned, Settled, EntersStage, TargetOf
<1>2. t \notin EndEvent /\ assignees[s] # {} /\ assignees[s] \in SUBSET User
  BY <1>1 DEF StraightModel, Deciding, Planned, TypeOK
<1>3. ASSUME NEW m \in StageNodes(t)
      PROVE  /\ m \in Node /\ StageKey(m) = StageKey(t) /\ InStage(m) /\ Rank[m] = Rank[t]
             /\ m \notin NodesOf(workItems)
             /\ who(m) \in SUBSET User /\ who(m) # {}
             /\ TypeOf[m] # None => who(m) = PendingAt(m)
  <2>1. m \in Node /\ StageKey(m) = StageKey(t) /\ InStage(m)
    BY <1>3 DEF StageNodes, InStage
  <2>2. Rank[m] = Rank[t] /\ Rank \in [Node -> Nat]
    BY <1>1, <2>1, RankFacts
  <2>3. m \notin NodesOf(workItems)
    <3> SUFFICES ASSUME NEW i \in workItems, i.node = m PROVE FALSE
      BY DEF NodesOf
    <3>1. Behind(i.node, t)
      BY TargetAhead DEF Deciding, Settled
    <3> QED
      BY <1>1, <2>1, <2>2, <3>1 DEF Behind
  <2>4. Recipients(s, assignees[s]) \in SUBSET User /\ Recipients(s, assignees[s]) # {}
    BY <1>2, RecipientsLeft, RecipientsType
  <2>5. who(m) \in SUBSET User /\ who(m) # {}
    BY <2>1, <2>4, UsersType DEF StageAssignees
  <2>6. TypeOf[m] # None => PendingAt(m) # {}
    BY <2>1, <2>2, TargetPending DEF Deciding
  <2> QED
    BY <2>1, <2>2, <2>3, <2>5, <2>6 DEF StageAssignees
<1>4. StageItems(s) = UNION {NewItems(s, m, who(m)) : m \in StageNodes(t)}
  BY <1>1, <1>3 DEF StageItems
<1> HIDE DEF who
<1>5. \A m \in StageNodes(t) :
        /\ NewItems(s, m, who(m)) \subseteq Item
        /\ \A i \in NewItems(s, m, who(m)) :
             i.req = request[s].req /\ i.node = m /\ i.user \in who(m)
        /\ \A u \in who(m) : \E i \in NewItems(s, m, who(m)) : i.node = m /\ i.user = u
  BY <1>3, NewItemsAt
<1>6. /\ StageItems(s) \subseteq Item
      /\ \A i \in StageItems(s) :
           i.node \in StageNodes(t) /\ i.req = request[s].req /\ i.user \in who(i.node)
      /\ \A m \in StageNodes(t) : \A u \in who(m) :
           \E i \in StageItems(s) : i.node = m /\ i.user = u
  BY <1>4, <1>5
<1>7. t \in StageNodes(t)
  BY <1>1 DEF StageNodes
<1>8. \E i \in StageItems(s) : i.node = t
  BY <1>3, <1>6, <1>7
<1>9. TargetItems(s) = StageItems(s)
  BY <1>1, <1>8 DEF TargetItems, NodesOf
<1>10. PriorityOpen(StageItems(s))
  <2> SUFFICES ASSUME NEW i \in StageItems(s), NEW m \in StagePriority(i.node)
               PROVE  \E j \in StageItems(s) : j.node = m
    BY DEF PriorityOpen
  <2>1. StageKey(i.node) = StageKey(t)
    BY <1>3, <1>6
  <2>2. m \in StageNodes(t)
    BY <1>1, <2>1 DEF StagePriority, StageNodes
  <2> QED
    BY <1>3, <1>6, <2>2
<1>11. \A i \in StageItems(s), u \in User : TypeOf[i.node] # None =>
         (u \in PendingAt(i.node) <=> \E j \in StageItems(s) : j.node = i.node /\ j.user = u)
  BY <1>3, <1>6
<1>12. \A i \in StageItems(s) :
         i.req = request[s].req /\ InStage(t) /\ StageKey(t) = StageKey(i.node)
  BY <1>1, <1>3, <1>6
<1>13. Alive(StageItems(s), t)
  BY <1>8 DEF Alive
<1> HIDE DEF t
<1>14. Settled(StageItems(s), SignersAfter(s), t)
  BY <1>6, <1>10, <1>11, <1>12, <1>13, GoesOnSettled DEF Deciding, t
<1> QED
  BY <1>1, <1>9, <1>14

\* A step outside a stage hands on, or waits for its other signers.
LEMMA AdvanceKeeps ==
    ASSUME StraightModel, TypeOK, NEW r \in Session, Kept(r), Advance(r)
    PROVE  Kept(r)'
<1> DEFINE n == NodeOf(r)
           t == TargetOf(r)
           rest == workItems \ del[r]
<1>1. /\ pc[r] = "evaluate"
      /\ InStage(n) => StageComplete(n, OpenNodes(r))
      /\ IF NodeDone(r) THEN Decide(r, "advance", TargetItems(r)) ELSE Decide(r, "stay", {})
  BY DEF Advance, At
<1>2. Deciding(r) /\ Settled(workItems, signers, docStatus)
  BY <1>1 DEF Kept, InFlight, Deciding
<1>3. CASE NodeDone(r)
  <2>1. workItems \ (del[r] \cup ItemsAt(Covered(r))) = {}
    BY <1>1, <1>2, <1>3, NothingLeft
  <2>2. Settled(TargetItems(r), SignersAfter(r), next[r])
    <3>1. CASE EntersStage(r)
      BY <1>2, <3>1, EntersSettled
    <3>2. CASE ~EntersStage(r)
      <4>1. <<n, t>> \in Flow /\ next[r] = t
        BY <1>2 DEF Deciding, Asked, Planned
      <4>2. ~InStage(t)
        BY <3>2, <4>1 DEF StraightModel, EntersStage, TargetOf
      <4>3. TargetItems(r) = NewItems(r, t, Recipients(r, assignees[r]))
        BY <3>2, <4>1 DEF TargetItems
      <4>4. assignees[r] \in SUBSET User
        BY DEF TypeOK
      <4>5. /\ Recipients(r, assignees[r]) # {} \/ t \in EndEvent
            /\ TypeOf[t] # None => Recipients(r, assignees[r]) = PendingAt(t)
        <5>1. t \notin EndEvent => assignees[r] # {}
          BY <1>2 DEF Deciding, Planned
        <5>2. TypeOf[t] # None => assignees[r] = PendingAt(t) /\ t \notin EndEvent
          BY <1>2, ModelAssumption DEF Deciding, Planned
        <5> QED
          BY <4>1, <5>1, <5>2, RecipientsLeft
      <4> QED
        BY <1>2, <4>2, <4>3, <4>4, <4>5, RecipientsType, GoesOnToStep
    <3> QED
      BY <3>1, <3>2
  <2>3. (workItems \ (del[r] \cup ItemsAt(Covered(r)))) \cup TargetItems(r) = TargetItems(r)
    BY <2>1
  <2> QED
    BY <1>1, <1>3, <2>2, <2>3, DecideKeeps
<1>4. CASE ~NodeDone(r)
  <2>1. ~InStage(n)
    BY <1>1, <1>2, <1>4, CompleteIsDone
  <2>2. (workItems \ (del[r] \cup ItemsAt(Covered(r)))) \cup {} = rest
    BY <2>1 DEF Covered, ItemsAt
  <2>3. \A i \in workItems : ~InStage(i.node)
    BY <1>2, <2>1, Neighbours DEF Deciding
  <2>4. PriorityOpen(rest) /\ Alive(rest, next[r])
    BY <1>2, <1>4, <2>3, SomebodyElse DEF PriorityOpen, Alive
  <2>5. Settled(rest, SignersAfter(r), next[r])
    BY <1>2, <2>4, LeftOver, StaysSettled DEF Deciding
  <2> HIDE DEF rest
  <2> QED
    BY <1>1, <1>4, <2>2, <2>5, DecideKeeps
<1> QED
  BY <1>3, <1>4

\* A request arrives: nothing was returned, so nothing is to be reset.
LEMMA ReadKeeps ==
    ASSUME StraightModel, TypeOK, NEW r \in Session, Kept(r),
           NEW i \in workItems, NEW t \in Node, NEW c, ReadForward(r, i, t, c)
    PROVE  Kept(r)'
<1>1. TypesToReset(t) = {}
  BY DEF TypesToReset, NeedsReset, Kept, NothingReturned
<1>2. /\ pc'[r] = "resolve" /\ UNCHANGED db
      /\ request'[r].op = "forward" /\ request'[r].item = i /\ request'[r].target = t
      /\ <<i.node, t>> \in Flow
  BY <1>1 DEF ReadForward, Goto, TypeOK
<1>3. EverySignerChosen(signers)
  <2>1. CASE \A j \in workItems : j.node = Draft
    <3>1. \A m \in Node : TypeOf[m] # None => \E u \in User : signers[TypeOf[m]][u] # "absent"
      BY <2>1 DEF ReadForward, SignersChosen, StraightModel
    <3> QED
      BY <3>1 DEF EverySignerChosen
  <2> QED
    BY <2>1 DEF Kept, Settled, ChosenOrDraft
<1>4. workItems' = workItems /\ signers' = signers
  BY <1>2 DEF db
<1>5. EverySignerChosen(signers)'
  BY <1>3, <1>4 DEF EverySignerChosen
<1>6. Asked(r)'
  BY <1>2, <1>4, <1>5 DEF Asked, NodeOf, TargetOf
<1>7. NothingReturned' /\ Settled(workItems, signers, docStatus)'
  BY <1>2, SameTables DEF Kept
<1> QED
  BY <1>2, <1>6, <1>7 DEF Kept, InFlight

\* A plan is for the step the request named and for its pending signers.
LEMMA PlanKeeps ==
    ASSUME StraightModel, TypeOK, NEW r \in Session, Kept(r), pc[r] = "resolve",
           NEW who, Plan(r, TargetOf(r), who), UNCHANGED signers,
           TargetOf(r) \notin EndEvent => who # {},
           TypeOf[TargetOf(r)] # None => who = PendingAt(TargetOf(r))
    PROVE  Kept(r)'
<1>1. /\ pc'[r] = "count" /\ UNCHANGED db /\ request' = request
      /\ next'[r] = TargetOf(r) /\ assignees'[r] = who
  BY DEF Plan, Goto, TypeOK, db
<1>2. workItems' = workItems /\ signers' = signers
  BY <1>1 DEF db
<1>3. Asked(r)' /\ Planned(r)'
  BY <1>1, <1>2, SameReads DEF Kept, InFlight, Planned
<1>4. NothingReturned' /\ Settled(workItems, signers, docStatus)'
  BY <1>1, SameTables DEF Kept
<1> QED
  BY <1>1, <1>3, <1>4 DEF Kept, InFlight

\* Choosing other signers for the target changes nothing for the open steps.
LEMMA ChooseKeeps ==
    ASSUME StraightModel, TypeOK, NEW r \in Session, Kept(r), pc[r] = "resolve",
           NEW c \in SUBSET User, c # {}, TypeOf[TargetOf(r)] # None,
           Plan(r, TargetOf(r), c),
           signers' = [signers EXCEPT ![TypeOf[TargetOf(r)]] =
                         Replaced(signers[TypeOf[TargetOf(r)]], c)]
    PROVE  Kept(r)'
<1> DEFINE t == TargetOf(r)
           T == TypeOf[t]
<1>1. /\ pc'[r] = "count" /\ request' = request /\ workItems' = workItems
      /\ audit' = audit /\ docStatus' = docStatus
      /\ next'[r] = t /\ assignees'[r] = c
  BY DEF Plan, Goto, TypeOK
<1>2. Asked(r) /\ Settled(workItems, signers, docStatus)
  BY DEF Kept, InFlight
<1>3. t \in Node /\ T \in SignType
  BY <1>2, TargetAhead, ModelAssumption DEF Settled
<1>4. \A u \in User : signers[T][u] \in {"absent", "pending"}
  BY <1>2, <1>3, TargetPending
<1>5. \A u \in User : signers'[T][u] = IF u \in c THEN "pending" ELSE "absent"
  <2>1. signers'[T] = Replaced(signers[T], c)
    BY <1>3 DEF TypeOK
  <2> QED
    BY <1>4, <2>1 DEF Replaced
<1>6. ASSUME NEW n \in Node, TypeOf[n] # None, n # t
      PROVE  signers'[TypeOf[n]] = signers[TypeOf[n]]
  <2>1. TypeOf[n] \in SignType /\ TypeOf[n] # T
    BY <1>3, <1>6, ModelAssumption DEF StraightModel
  <2> QED
    BY <2>1 DEF TypeOK
<1>7. \A i \in workItems : i.node \in Node /\ i.node # t
  BY <1>2, <1>3, TargetAhead, RankFacts DEF Settled, Behind
<1>8. HoldersSign(workItems, signers')
  BY <1>2, <1>6, <1>7 DEF Settled, HoldersSign
<1>9. NoneSignedAhead(workItems, signers')
  <2> SUFFICES ASSUME NEW i \in workItems, NEW n \in Node, TypeOf[n] # None,
                      Behind(i.node, n), NEW u \in User
               PROVE  signers'[TypeOf[n]][u] # "signed"
    BY DEF NoneSignedAhead
  <2>1. CASE n = t
    BY <1>5, <2>1
  <2>2. CASE n # t
    BY <1>2, <1>6, <2>2 DEF Settled, NoneSignedAhead
  <2> QED
    BY <2>1, <2>2
<1>10. EverySignerChosen(signers')
  <2> SUFFICES ASSUME NEW n \in Node, TypeOf[n] # None
               PROVE  \E u \in User : signers'[TypeOf[n]][u] # "absent"
    BY DEF EverySignerChosen
  <2>1. CASE n = t
    BY <1>5, <2>1
  <2>2. CASE n # t
    BY <1>2, <1>6, <2>2 DEF Asked, EverySignerChosen
  <2> QED
    BY <2>1, <2>2
<1>11. Settled(workItems, signers', docStatus)
  BY <1>2, <1>8, <1>9, <1>10 DEF Settled, ChosenOrDraft
<1>12. Settled(workItems, signers, docStatus)'
  BY <1>1, <1>11
<1>13. PendingAt(t)' = c
  <2>1. PendingAt(t)' = {u \in User : signers'[T][u] = "pending"}
    <3>1. t' = t /\ t \in Node /\ T # None
      BY <1>1, <1>3, ModelAssumption DEF TargetOf
    <3> HIDE DEF t
    <3> QED
      BY <3>1 DEF PendingAt, PendingOf, T
  <2> HIDE DEF t, T
  <2> QED
    BY <1>5, <2>1
<1>14. TargetOf(r)' = t /\ NodeOf(r)' = NodeOf(r)
  BY <1>1 DEF TargetOf, NodeOf
<1>15. Planned(r)'
  BY <1>1, <1>13, <1>14 DEF Planned
<1>16. EverySignerChosen(signers)'
  BY <1>10 DEF EverySignerChosen
<1>17. Asked(r)'
  BY <1>1, <1>2, <1>14, <1>16 DEF Asked
<1>18. NothingReturned'
  BY <1>1 DEF Kept, NothingReturned
<1> QED
  BY <1>1, <1>12, <1>15, <1>17, <1>18 DEF Kept, InFlight

\* A request finds out where the document goes and to whom.
LEMMA ResolveKeeps ==
    ASSUME StraightModel, TypeOK, NEW r \in Session, Kept(r),
           ResolveEnd(r) \/ ResolveChosen(r) \/ ResolveAutomatic(r)
    PROVE  Kept(r)'
<1> DEFINE t == TargetOf(r)
<1>1. pc[r] = "resolve" /\ request[r].target = t
  BY DEF ResolveEnd, ResolveChosen, ResolveAutomatic, At, TargetOf
<1>2. AfterSkipLane(request[r].target) = t
  BY <1>1 DEF AfterSkipLane, StraightModel
<1>3. t \in Node /\ (t \in EndEvent => TypeOf[t] = None)
  BY RequestType, ModelAssumption DEF TargetOf, Request
<1>4. TypeOf[t] # None => PendingAt(t) # {}
  BY <1>1, <1>3, TargetPending DEF Kept, InFlight
<1>5. CASE ResolveEnd(r)
  <2>1. t \in EndEvent /\ Plan(r, t, {}) /\ UNCHANGED signers
    BY <1>1, <1>5 DEF ResolveEnd
  <2> QED
    BY <1>1, <1>3, <2>1, PlanKeeps
<1>6. CASE ResolveChosen(r)
  <2> DEFINE c == request[r].choice
             keep == TypeOf[t] # None /\ PendingAt(t) # {} /\ c = {UserOf(r)}
  <2>1. /\ c # {} /\ c \in SUBSET User
        /\ Plan(r, t, IF keep THEN PendingAt(t) ELSE c)
        /\ signers' = IF keep \/ TypeOf[t] = None THEN signers
                      ELSE [signers EXCEPT ![TypeOf[t]] = Replaced(signers[TypeOf[t]], c)]
    BY <1>2, <1>6, RequestType DEF ResolveChosen, Request
  <2>2. CASE keep \/ TypeOf[t] = None
    <3>1. UNCHANGED signers
      BY <2>1, <2>2
    <3> DEFINE who == IF keep THEN PendingAt(t) ELSE c
    <3>2. who # {} /\ (TypeOf[t] # None => who = PendingAt(t))
      BY <2>1, <2>2
    <3>3. Plan(r, t, who)
      BY <2>1
    <3> HIDE DEF who
    <3> QED
      BY <1>1, <3>1, <3>2, <3>3, PlanKeeps
  <2>3. CASE ~keep /\ TypeOf[t] # None
    <3>1. /\ Plan(r, t, c)
          /\ signers' = [signers EXCEPT ![TypeOf[t]] = Replaced(signers[TypeOf[t]], c)]
      BY <2>1, <2>3
    <3> QED
      BY <1>1, <2>1, <2>3, <3>1, ChooseKeeps
  <2> QED
    BY <2>2, <2>3
<1>7. CASE ResolveAutomatic(r)
  <2>1. TypeOf[t] # None
    BY <1>2, <1>7 DEF ResolveAutomatic, CanResolve
  <2>2. Automatic(t) = t
    BY <1>4, <2>1 DEF Automatic
  <2>3. Plan(r, t, PendingAt(t)) /\ UNCHANGED signers
    BY <1>2, <1>7, <2>2 DEF ResolveAutomatic
  <2> QED
    BY <1>1, <1>4, <2>1, <2>3, PlanKeeps
<1> QED
  BY <1>5, <1>6, <1>7

\* At most one signer is left exactly when the count is at most one.
LEMMA OneLeftCount ==
    ASSUME StraightModel, NEW n \in Node
    PROVE  Cardinality(PendingAt(n)) <= 1 <=> OneLeft(n)
<1> DEFINE P == PendingAt(n)
<1>1. IsFiniteSet(P)
  BY UsersType, FS_Subset DEF StraightModel
<1>2. Cardinality(P) \in Nat
  BY <1>1, FS_CardinalityType
<1>3. Cardinality(P) = 0 <=> P = {}
  BY <1>1, FS_EmptySet
<1>4. Cardinality(P) = 1 <=> \E u : P = {u}
  BY <1>1, FS_Singleton
<1>5. OneLeft(n) <=> P = {} \/ \E u : P = {u}
  BY DEF OneLeft
<1> HIDE DEF P
<1>6. Cardinality(P) <= 1 <=> Cardinality(P) = 0 \/ Cardinality(P) = 1
  BY <1>2
<1> QED
  BY <1>3, <1>4, <1>5, <1>6 DEF P

\* The count of the pending signers is right: nobody else signs meanwhile.
LEMMA CountKeeps ==
    ASSUME StraightModel, TypeOK, NEW r \in Session, Kept(r), CountSigners(r)
    PROVE  Kept(r)'
<1> DEFINE few == IsSigner(r) => Cardinality(PendingAt(NodeOf(r))) <= 1
<1>1. /\ pc[r] = "count" /\ pc'[r] = "write" /\ UNCHANGED db /\ request' = request
      /\ next' = next /\ assignees' = assignees
  BY DEF CountSigners, At, Goto, TypeOK
<1>2. last'[r] = few
  BY DEF CountSigners, TypeOK
<1>3. few <=> (IsSigner(r) => OneLeft(NodeOf(r)))
  BY RequestType, OneLeftCount
<1> HIDE DEF few
<1>4. workItems' = workItems /\ signers' = signers
  BY <1>1 DEF db
<1>5. Asked(r)' /\ Planned(r)'
  BY <1>1, <1>4, SameReads, SamePlan DEF Kept, InFlight
<1>6. Counted(r)'
  BY <1>1, <1>2, <1>3, <1>4, SameReads DEF Counted
<1>7. NothingReturned' /\ Settled(workItems, signers, docStatus)'
  BY <1>1, SameTables DEF Kept
<1> QED
  BY <1>1, <1>5, <1>6, <1>7 DEF Kept, InFlight

\* The statements before the decision change no committed row.
LEMMA RemoveKeeps ==
    ASSUME TypeOK, NEW r \in Session, Kept(r), MarkAndRemove(r) \/ TouchAudit(r)
    PROVE  Kept(r)'
<1>1. request' = request /\ next' = next /\ assignees' = assignees /\ last' = last /\ UNCHANGED db
  BY DEF MarkAndRemove, TouchAudit, planVars
<1>2. workItems' = workItems /\ signers' = signers
  BY <1>1 DEF db
<1>3. NothingReturned' /\ Settled(workItems, signers, docStatus)'
  BY <1>1, SameTables DEF Kept
<1>4. pc[r] \in {"write", "audit"}
  BY DEF MarkAndRemove, TouchAudit, At
<1>5. Asked(r)' /\ Planned(r)' /\ Counted(r)'
  BY <1>1, <1>2, <1>4, SameReads, SamePlan DEF Kept, InFlight
<1>6. Removal(r)' = Removal(r) /\ MarkRows(r)' = MarkRows(r)
  BY <1>1, <1>2, SameReads, SamePlan
<1>7. CASE MarkAndRemove(r)
  <2>1. pc'[r] = "audit" /\ del'[r] = Removal(r) /\ mark'[r] = MarkRows(r)
    BY <1>7 DEF MarkAndRemove, Goto, TypeOK
  <2> QED
    BY <1>3, <1>5, <1>6, <2>1 DEF Kept, InFlight
<1>8. CASE TouchAudit(r)
  <2>1. pc[r] = "audit" /\ request[r].op = "forward"
    BY <1>8 DEF TouchAudit, At, Kept, InFlight, Asked
  <2>2. pc'[r] = "evaluate" /\ del' = del /\ mark' = mark
    BY <1>8, <2>1 DEF TouchAudit, Goto, TypeOK
  <2>3. del[r] = Removal(r) /\ mark[r] = MarkRows(r)
    BY <2>1 DEF Kept, InFlight
  <2> QED
    BY <1>3, <1>5, <1>6, <2>2, <2>3 DEF Kept, InFlight
<1> QED
  BY <1>7, <1>8

\* Handing on leaves no return behind.
LEMMA NothingSentBack ==
    ASSUME TypeOK, NothingReturned, NEW r \in Session, CommitForward(r)
    PROVE  NothingReturned'
<1>1. \A x \in audit : x \in AuditRow /\ ~x.ret
  BY DEF TypeOK, NothingReturned
<1>2. \A x \in ForwardUpdate(r) : ~x.ret
  BY <1>1 DEF ForwardUpdate, Closed, AuditRow
<1>3. SUFFICES ASSUME NEW x \in audit'
               PROVE  ~x.ret
  BY DEF NothingReturned
<1>4. \/ x \in ForwardUpdate(r)
      \/ x = Row(r, auditId + 1, NodeOf(r), NodeOf(r), None, FALSE, FALSE)
      \/ \E i \in ins[r] : x = Row(r, auditId + 2, NodeOf(r), i.node, i.user, FALSE, TRUE)
  BY <1>3 DEF CommitForward
<1>5. CASE x \in ForwardUpdate(r)
  BY <1>2, <1>5
<1>6. CASE x = Row(r, auditId + 1, NodeOf(r), NodeOf(r), None, FALSE, FALSE)
  BY <1>6 DEF Row
<1>7. CASE \E i \in ins[r] : x = Row(r, auditId + 2, NodeOf(r), i.node, i.user, FALSE, TRUE)
  BY <1>7 DEF Row
<1> QED
  BY <1>4, <1>5, <1>6, <1>7

\* The commit leaves the tables as the request decided.
LEMMA CommitKeeps ==
    ASSUME TypeOK, NEW r \in Session, Kept(r), CommitForward(r)
    PROVE  Kept(r)'
<1>1. workItems' = ItemsAfter(r) /\ signers' = SignersAfter(r) /\ docStatus' = StatusAfter(r)
  BY DEF CommitForward, ItemsAfter, SignersAfter, StatusAfter
<1>2. Settled(ItemsAfter(r), SignersAfter(r), StatusAfter(r))
  BY DEF CommitForward, At, Kept, InFlight
<1>3. Settled(workItems, signers, docStatus)'
  BY <1>1, <1>2
<1>4. NothingReturned'
  BY NothingSentBack DEF Kept
<1>5. InFlight(r)'
  BY EndKeeps DEF CommitForward
<1> QED
  BY <1>3, <1>4, <1>5 DEF Kept

\* Without returns a request never is where only returns are.
LEMMA NoReturns ==
    ASSUME StraightModel, NEW r \in Session, Kept(r)
    PROVE  /\ \A i, t, c : ~ReadReturn(r, i, t, c)
           /\ ~ResetSigners(r) /\ ~RemoveOwn(r) /\ ~WipeDownstream(r) /\ ~CommitReturn(r)
<1>1. \A i, t, c : ~ReadReturn(r, i, t, c)
  BY DEF ReadReturn, StraightModel
<1>2. ~ResetSigners(r) /\ ~WipeDownstream(r)
  BY DEF ResetSigners, WipeDownstream, At, Kept, InFlight
<1>3. ~RemoveOwn(r)
  BY DEF RemoveOwn, At, Kept, InFlight, Asked
<1>4. ~CommitReturn(r)
  BY DEF CommitReturn, At, Kept, InFlight
<1> QED
  BY <1>1, <1>2, <1>3, <1>4

\* Every step of the only request keeps the invariant.
LEMMA StraightStep ==
    ASSUME StraightModel, Alone, StraightInv, [Next]_vars
    PROVE  StraightInv'
<1>1. TypeOK /\ TypeOK'
  BY TypeStep DEF StraightInv
<1>2. CASE UNCHANGED vars
  <2>1. NothingReturned' /\ Settled(workItems, signers, docStatus)'
    BY <1>2, SameTables DEF vars, StraightInv
  <2>2. ASSUME NEW s \in Session PROVE InFlight(s)'
    <3>1. /\ workItems' = workItems /\ signers' = signers /\ docStatus' = docStatus
          /\ request' = request /\ next' = next /\ assignees' = assignees /\ last' = last
          /\ pc' = pc /\ del' = del /\ mark' = mark /\ ins' = ins /\ outcome' = outcome
      BY <1>2 DEF vars, db, planVars, txVars
    <3>2. ItemsAfter(s)' = ItemsAfter(s) /\ SignersAfter(s)' = SignersAfter(s)
          /\ StatusAfter(s)' = StatusAfter(s)
      BY <3>1 DEF ItemsAfter, SignersAfter, StatusAfter
    <3>3. InFlight(s)
      BY DEF StraightInv
    <3>4. Settled(ItemsAfter(s), SignersAfter(s), StatusAfter(s)) =>
            Settled(ItemsAfter(s), SignersAfter(s), StatusAfter(s))'
      BY <3>2
    <3>5. /\ Asked(s)' <=> Asked(s)
          /\ Planned(s)' <=> Planned(s)
          /\ Counted(s)' <=> Counted(s)
          /\ Removal(s)' = Removal(s) /\ MarkRows(s)' = MarkRows(s)
      BY <3>1, SameReads, SamePlan
    <3> QED
      BY <3>1, <3>3, <3>4, <3>5 DEF InFlight
  <2> QED
    BY <1>1, <2>1, <2>2 DEF StraightInv
<1>3. ASSUME NEW r \in Session, StepOf(r) PROVE StraightInv'
  <2>1. Kept(r)
    BY DEF StraightInv, Kept
  <2>2. Kept(r)'
    <3>1. ASSUME NEW i \in workItems, NEW t \in Node, NEW c,
                 ReadForward(r, i, t, c) \/ ReadReturn(r, i, t, c)
          PROVE  Kept(r)'
      BY <1>1, <2>1, <3>1, ReadKeeps, NoReturns
    <3>2. CASE ResetSigners(r) \/ RemoveOwn(r) \/ WipeDownstream(r) \/ CommitReturn(r)
      BY <2>1, <3>2, NoReturns
    <3>3. CASE ResolveEnd(r) \/ ResolveChosen(r) \/ ResolveAutomatic(r)
      BY <1>1, <2>1, <3>3, ResolveKeeps
    <3>4. CASE Refuse(r) \/ AlreadyCompleted(r) \/ DeadlockVictim(r) \/ Fail(r)
      BY <1>1, <2>1, <3>4, RollbackKeeps DEF Refuse, AlreadyCompleted, DeadlockVictim, Fail
    <3>5. CASE CountSigners(r)
      BY <1>1, <2>1, <3>5, CountKeeps
    <3>6. CASE MarkAndRemove(r) \/ TouchAudit(r)
      BY <1>1, <2>1, <3>6, RemoveKeeps
    <3>7. CASE StageWaits(r) \/ StageExits(r) \/ Advance(r)
      BY <1>1, <2>1, <3>7, WaitKeeps, ExitKeeps, AdvanceKeeps
    <3>8. CASE CommitForward(r)
      BY <1>1, <2>1, <3>8, CommitKeeps
    <3> QED
      BY <1>3, <3>1, <3>2, <3>3, <3>4, <3>5, <3>6, <3>7, <3>8 DEF StepOf, Arrival, Progress
  <2>3. \A s \in Session : s = r
    BY DEF Alone
  <2> QED
    BY <1>1, <2>2, <2>3 DEF StraightInv, Kept
<1> QED
  BY <1>2, <1>3 DEF Next, StepOf, Quiescent

\* A new document has one item, at the draft, and nobody has signed.
LEMMA StraightInit ==
    ASSUME StraightModel, Init
    PROVE  StraightInv
<1>1. TypeOK
  BY TypeInit
<1>2. NothingReturned
  BY DEF Init, NothingReturned
<1>3. workItems = {[req |-> 0, node |-> Draft, user |-> Drafter]}
  BY DEF Init
<1>4. \A T \in SignType, u \in User : signers[T][u] # "signed"
  BY DEF Init
<1>5. Together(workItems) /\ AskedOnce(workItems) /\ ChosenOrDraft(workItems, signers)
      /\ Alive(workItems, docStatus)
  BY <1>3 DEF Together, AskedOnce, ChosenOrDraft, Alive
<1>6. HoldersSign(workItems, signers) /\ PriorityOpen(workItems)
  BY <1>3 DEF HoldersSign, PriorityOpen, StraightModel
<1>7. NoneSignedAhead(workItems, signers)
  BY <1>4, ModelAssumption DEF NoneSignedAhead
<1>8. \A s \in Session : InFlight(s)
  BY DEF Init, InFlight
<1> QED
  BY <1>1, <1>2, <1>5, <1>6, <1>7, <1>8 DEF StraightInv, Settled

\* The invariant holds of every behaviour.
LEMMA StraightAlways ==
    ASSUME StraightModel, Alone
    PROVE  Spec => []StraightInv
<1>1. Init => StraightInv
  BY StraightInit
<1>2. StraightInv /\ [Next]_vars => StraightInv'
  BY StraightStep
<1> QED
  BY <1>1, <1>2, PTL DEF Spec

----------------------------------------------------------------------------
(* The theorems about documents that go straight on.                        *)

\* An outgoing document that goes straight on is at one step, or in one stage,
\* at a time (runtime-dbmssql.service.ts, setProcessor).
THEOREM OneStepAtATime ==
    ASSUME StraightModel, Alone
    PROVE  Spec => []OneRegion
<1>1. StraightInv => OneRegion
  BY DEF StraightInv, Settled, Together, OneRegion
<1> QED
  BY <1>1, StraightAlways, PTL

\* Nobody is asked twice for the same step, whatever the model assigns and
\* however many submissions fail between.
THEOREM NobodyAskedTwice ==
    ASSUME StraightModel, Alone
    PROVE  Spec => []NoDuplicateAssignment
<1>1. StraightInv => NoDuplicateAssignment
  BY DEF StraightInv, Settled, AskedOnce, NoDuplicateAssignment
<1> QED
  BY <1>1, StraightAlways, PTL

\* No commit of setProcessor leaves the document without an open work item
\* before the end.
THEOREM FlowGoesOn ==
    ASSUME StraightModel, Alone
    PROVE  Spec => []FlowNeverDies
<1>1. StraightInv => FlowNeverDies
  BY DEF StraightInv, Settled, Alive, FlowNeverDies
<1> QED
  BY <1>1, StraightAlways, PTL

\* Only an appointed signer is asked to sign: the work items and
\* outgoing_document_users, written by different statements, agree.
THEOREM OnlyChosenSign ==
    ASSUME StraightModel, Alone
    PROVE  Spec => []OnlySelectedSigners
<1>1. StraightInv => OnlySelectedSigners
  BY DEF StraightInv, Settled, HoldersSign, OnlySelectedSigners
<1> QED
  BY <1>1, StraightAlways, PTL

\* A signer step is handed on only when its last signer signs with the same
\* commit.
THEOREM AllHaveSigned ==
    ASSUME StraightModel, Alone
    PROVE  Spec => []AllSigned
<1>1. StraightInv => AllSigned
  <2> SUFFICES ASSUME StraightInv, NEW s \in Session, pc[s] = "commit",
                      IsSigner(s), NodeDone(s), NEW u \in PendingAt(NodeOf(s))
               PROVE  <<TypeOf[NodeOf(s)], u>> \in mark[s]
    BY DEF AllSigned
  <2>1. TypeOK /\ Settled(workItems, signers, docStatus)
    BY DEF StraightInv
  <2>2. Asked(s) /\ Planned(s) /\ Counted(s) /\ mark[s] = MarkRows(s)
    BY DEF StraightInv, InFlight
  <2>3. OneLeft(NodeOf(s))
    BY <2>1, <2>2, DoneFacts
  <2>4. UserOf(s) \in PendingAt(NodeOf(s))
    <3>1. request[s].item \in workItems /\ TypeOf[NodeOf(s)] # None
      BY <2>2 DEF Asked, IsSigner
    <3>2. UserOf(s) \in User
      BY <2>1, <2>2, TargetAhead DEF Settled
    <3> QED
      BY <2>1, <3>1, <3>2 DEF Settled, HoldersSign, NodeOf, UserOf, PendingAt, PendingOf
  <2>5. u = UserOf(s)
    BY <2>3, <2>4 DEF OneLeft
  <2> QED
    BY <2>2, <2>4, <2>5 DEF MarkRows
<1> QED
  BY <1>1, StraightAlways, PTL

----------------------------------------------------------------------------
(* The end of the document.                                                 *)

\* A step outside a stage that hands the document to an end event.
BeforeEnd(n) ==
    TypeOf[n] # None /\ ~InStage(n) /\ \E f \in Flow : f[1] = n /\ f[2] \in EndEvent

\* Such a step has one signer: who may be chosen for it is never several.
OneBeforeEnd ==
    \A n \in Node : BeforeEnd(n) =>
        /\ \A u, v \in InitialSigners[TypeOf[n]] : u = v
        /\ \A c \in Choices : c \subseteq Users(n) => \A u, v \in c : u = v

\* What holds of the end of the document: one signer is left before it, and
\* a commit that sets its status creates nothing elsewhere.
ClosedInv ==
    /\ \A n \in Node : BeforeEnd(n) => OneLeft(n)
    /\ ClosedWhenFinished
    /\ \A s \in Session :
         /\ request[s].choice \in Choices \cup {{}}
         /\ pc[s] = "commit" /\ StatusAfter(s) \in EndEvent =>
              \A i \in ItemsAfter(s) : i.node \in EndEvent

\* One signer remains one when no other becomes pending.
LEMMA OneLeftShrinks ==
    ASSUME NEW n, OneLeft(n), PendingAt(n)' \subseteq PendingAt(n)
    PROVE  OneLeft(n)'
BY DEF OneLeft

\* Choosing the signers of the target leaves one signer before the end.
LEMMA ChoiceBeforeEnd ==
    ASSUME StraightModel, OneBeforeEnd, TypeOK, ClosedInv, NEW r \in Session,
           ResolveChosen(r), NEW n \in Node, BeforeEnd(n)
    PROVE  OneLeft(n)'
<1> DEFINE t == TargetOf(r)
           c == request[r].choice
<1>1. t \in Node /\ TypeOf[n] \in SignType /\ TypeOf[n] # None
  BY RequestType, ModelAssumption DEF TargetOf, Request, BeforeEnd
<1>2. AfterSkipLane(request[r].target) = t
  BY DEF AfterSkipLane, StraightModel, TargetOf
<1>3. /\ c \subseteq Users(t)
      /\ c \in Choices
      /\ \/ signers' = signers
         \/ TypeOf[t] # None
            /\ signers' = [signers EXCEPT ![TypeOf[t]] = Replaced(signers[TypeOf[t]], c)]
  BY <1>2 DEF ResolveChosen, ClosedInv
<1>4. OneLeft(n)
  BY DEF ClosedInv
<1>5. CASE signers'[TypeOf[n]] = signers[TypeOf[n]]
  BY <1>4, <1>5, OneLeftShrinks DEF PendingAt, PendingOf
<1>6. CASE signers'[TypeOf[n]] # signers[TypeOf[n]]
  <2>1. TypeOf[t] # None /\ TypeOf[t] = TypeOf[n]
        /\ signers'[TypeOf[n]] = Replaced(signers[TypeOf[n]], c)
    BY <1>1, <1>3, <1>6 DEF TypeOK
  <2>2. t = n
    BY <1>1, <2>1 DEF StraightModel
  <2>3. \A u, v \in c : u = v
    BY <1>3, <2>2 DEF OneBeforeEnd
  <2>4. \A u \in PendingAt(n)' : u \in c
    BY <1>1, <2>1 DEF PendingAt, PendingOf, Replaced
  <2> QED
    BY <2>3, <2>4 DEF OneLeft
<1> QED
  BY <1>5, <1>6

\* Before the commit nothing is known of the end, and nothing is asked.
LEMMA ClosedWaits ==
    ASSUME StraightModel, OneBeforeEnd, TypeOK, StraightInv, ClosedInv, NEW r \in Session,
           UNCHANGED <<workItems, docStatus>>,
           request'[r] = request[r] \/ request'[r].choice \in Choices \cup {{}},
           pc'[r] # "commit",
           signers' = signers \/ ResolveChosen(r), Alone
    PROVE  ClosedInv'
<1>1. ASSUME NEW n \in Node, BeforeEnd(n) PROVE OneLeft(n)'
  <2>1. CASE signers' = signers
    BY <1>1, <2>1, OneLeftShrinks DEF PendingAt, PendingOf, ClosedInv
  <2>2. CASE ResolveChosen(r)
    BY <1>1, <2>2, ChoiceBeforeEnd
  <2> QED
    BY <2>1, <2>2
<1>2. ClosedWhenFinished'
  BY DEF ClosedInv, ClosedWhenFinished
<1>3. ASSUME NEW s \in Session
      PROVE  request'[s].choice \in Choices \cup {{}} /\ pc'[s] # "commit"
  <2>1. s = r
    BY DEF Alone
  <2> QED
    BY <2>1 DEF ClosedInv
<1>4. \A n : BeforeEnd(n)' <=> BeforeEnd(n)
  BY DEF BeforeEnd
<1> QED
  BY <1>1, <1>2, <1>3, <1>4 DEF ClosedInv

\* A decision that creates items at the end only.
LEMMA ClosedDecides ==
    ASSUME TypeOK, ClosedInv, Alone, NEW r \in Session, NEW what, NEW items,
           Decide(r, what, items),
           (IF what = "wait" THEN docStatus ELSE next[r]) \in EndEvent =>
             \A i \in (workItems \ (del[r] \cup ItemsAt(Covered(r)))) \cup items :
                i.node \in EndEvent
    PROVE  ClosedInv'
<1>1. /\ UNCHANGED <<db, request, next>>
      /\ del'[r] = del[r] \cup ItemsAt(Covered(r)) /\ ins'[r] = items /\ outcome'[r] = what
  BY DEF Decide, planVars, TypeOK
<1>2. workItems' = workItems /\ signers' = signers /\ docStatus' = docStatus
  BY <1>1 DEF db
<1>3. \A n \in Node : BeforeEnd(n) => OneLeft(n)'
  BY <1>2, OneLeftShrinks DEF PendingAt, PendingOf, ClosedInv
<1>4. ClosedWhenFinished'
  BY <1>2 DEF ClosedInv, ClosedWhenFinished
<1>5. ASSUME NEW s \in Session, StatusAfter(s)' \in EndEvent
      PROVE  \A i \in ItemsAfter(s)' : i.node \in EndEvent
  <2>1. s = r
    BY DEF Alone
  <2>2. StatusAfter(r)' = IF what = "wait" THEN docStatus ELSE next[r]
    BY <1>1, <1>2 DEF StatusAfter
  <2>3. ItemsAfter(r)' = (workItems \ (del[r] \cup ItemsAt(Covered(r)))) \cup items
    BY <1>1, <1>2 DEF ItemsAfter
  <2> QED
    BY <1>5, <2>1, <2>2, <2>3
<1>6. \A n : BeforeEnd(n)' <=> BeforeEnd(n)
  BY DEF BeforeEnd
<1> QED
  BY <1>1, <1>3, <1>4, <1>5, <1>6 DEF ClosedInv

\* Whoever decides keeps the end closed.
LEMMA DecisionsClose ==
    ASSUME StraightModel, Alone, TypeOK, NEW r \in Session, Kept(r), ClosedInv,
           StageWaits(r) \/ StageExits(r) \/ Advance(r), ~Rollback(r)
    PROVE  ClosedInv'
<1> DEFINE n == NodeOf(r)
           t == TargetOf(r)
<1>1. pc[r] = "evaluate"
  BY DEF StageWaits, StageExits, Advance, At
<1>2. Deciding(r) /\ Settled(workItems, signers, docStatus)
  BY <1>1 DEF Kept, InFlight, Deciding
<1>3. /\ n \in Node /\ <<n, t>> \in Flow /\ next[r] = t /\ request[r].item \in workItems
  BY <1>2, TargetAhead DEF Deciding, Asked, Planned, Settled
<1>4. ASSUME NEW who \in SUBSET User
      PROVE  \A i \in NewItems(r, t, who) : i.node = t
  BY DEF NewItems
<1>5. CASE StageWaits(r)
  <2>1. docStatus \notin EndEvent
    <3>1. n \notin EndEvent
      BY <1>3 DEF StraightModel
    <3> QED
      BY <1>3, <3>1 DEF ClosedInv, ClosedWhenFinished, NodeOf
  <2> QED
    BY <1>5, <2>1, ClosedDecides DEF StageWaits
<1>6. CASE StageExits(r)
  <2>1. PICK who \in SUBSET User :
          /\ Decide(r, "exit", NewItems(r, t, who))
          /\ workItems \ (del[r] \cup ItemsAt(Covered(r))) = {}
    BY <1>6, ExitsToTarget
  <2> DEFINE items == NewItems(r, t, who)
  <2>2. \A i \in items : i.node = next[r]
    BY <1>3, <1>4
  <2> HIDE DEF items
  <2>3. Decide(r, "exit", items)
    BY <2>1 DEF items
  <2> QED
    BY <2>1, <2>2, <2>3, ClosedDecides
<1>7. CASE Advance(r) /\ NodeDone(r)
  <2>1. Decide(r, "advance", TargetItems(r))
        /\ (InStage(n) => StageComplete(n, OpenNodes(r)))
    BY <1>7 DEF Advance
  <2>2. workItems \ (del[r] \cup ItemsAt(Covered(r))) = {}
    BY <1>2, <1>7, <2>1, NothingLeft
  <2>3. next[r] \in EndEvent => \A i \in TargetItems(r) : i.node = next[r]
    <3> SUFFICES ASSUME t \in EndEvent PROVE \A i \in TargetItems(r) : i.node = t
      BY <1>3
    <3>1. ~EntersStage(r)
      BY <1>3 DEF StraightModel, EntersStage
    <3>2. TargetItems(r) = NewItems(r, t, Recipients(r, assignees[r]))
      BY <1>3, <3>1 DEF TargetItems
    <3> QED
      BY <3>2 DEF NewItems
  <2> QED
    BY <2>1, <2>2, <2>3, ClosedDecides
<1>8. CASE Advance(r) /\ ~NodeDone(r)
  <2>1. Decide(r, "stay", {}) /\ (InStage(n) => StageComplete(n, OpenNodes(r)))
    BY <1>8 DEF Advance
  <2>2. ~InStage(n)
    BY <1>2, <1>8, <2>1, CompleteIsDone
  <2>3. IsSigner(r) /\ ~OneLeft(n)
    BY <1>2, <1>8, DoneFacts DEF Deciding
  <2>4. t \notin EndEvent
    <3>1. BeforeEnd(n) => OneLeft(n)
      BY <1>3 DEF ClosedInv
    <3> QED
      BY <1>3, <2>2, <2>3, <3>1 DEF BeforeEnd, IsSigner
  <2> QED
    BY <1>3, <2>1, <2>4, ClosedDecides
<1> QED
  BY <1>5, <1>6, <1>7, <1>8

\* The end of a request keeps the end closed.
LEMMA RollbackCloses ==
    ASSUME StraightModel, OneBeforeEnd, Alone, TypeOK, StraightInv, ClosedInv,
           NEW r \in Session, Rollback(r)
    PROVE  ClosedInv'
<1>1. UNCHANGED <<workItems, docStatus, signers>> /\ pc'[r] = "idle"
      /\ request'[r].choice = {}
  BY DEF Rollback, End, Goto, db, NoRequest, TypeOK
<1> QED
  BY <1>1, ClosedWaits

\* The commit brings what was decided.
LEMMA CommitCloses ==
    ASSUME StraightModel, Alone, TypeOK, ClosedInv, NEW r \in Session, CommitForward(r)
    PROVE  ClosedInv'
<1>1. /\ workItems' = ItemsAfter(r) /\ docStatus' = StatusAfter(r)
      /\ signers' = SignersAfter(r)
      /\ pc[r] = "commit"
  BY DEF CommitForward, At, ItemsAfter, StatusAfter, SignersAfter
<1>2. ClosedWhenFinished'
  BY <1>1 DEF ClosedInv, ClosedWhenFinished
<1>3. ASSUME NEW n \in Node, BeforeEnd(n) PROVE OneLeft(n)'
  <2>1. TypeOf[n] \in SignType /\ TypeOf[n] # None
    BY <1>3, ModelAssumption DEF BeforeEnd
  <2>2. PendingAt(n)' \subseteq PendingAt(n)
    BY <1>1, <2>1 DEF PendingAt, PendingOf, SignersAfter
  <2> QED
    BY <1>3, <2>2, OneLeftShrinks DEF ClosedInv
<1>4. pc'[r] # "commit" /\ request'[r].choice = {}
  BY DEF CommitForward, End, Goto, NoRequest, TypeOK
<1>5. \A s \in Session : s = r
  BY DEF Alone
<1>6. \A n : BeforeEnd(n)' <=> BeforeEnd(n)
  BY DEF BeforeEnd
<1> QED
  BY <1>2, <1>3, <1>4, <1>5, <1>6 DEF ClosedInv

\* Every step of the only request keeps the end closed.
LEMMA ClosedStep ==
    ASSUME StraightModel, OneBeforeEnd, Alone, StraightInv, ClosedInv, [Next]_vars
    PROVE  ClosedInv'
<1>1. TypeOK
  BY DEF StraightInv
<1>2. CASE UNCHANGED vars
  <2>1. /\ workItems' = workItems /\ signers' = signers /\ docStatus' = docStatus
        /\ pc' = pc /\ request' = request /\ next' = next /\ del' = del /\ ins' = ins
        /\ outcome' = outcome
    BY <1>2 DEF vars, db, planVars, txVars
  <2>2. \A n : (BeforeEnd(n)' <=> BeforeEnd(n)) /\ (OneLeft(n)' <=> OneLeft(n))
    BY <2>1 DEF BeforeEnd, OneLeft, PendingAt, PendingOf
  <2>3. \A s : StatusAfter(s)' = StatusAfter(s) /\ ItemsAfter(s)' = ItemsAfter(s)
    BY <2>1 DEF StatusAfter, ItemsAfter
  <2> QED
    BY <2>1, <2>2, <2>3 DEF ClosedInv, ClosedWhenFinished
<1>3. ASSUME NEW r \in Session, StepOf(r) PROVE ClosedInv'
  <2>1. Kept(r)
    BY DEF StraightInv, Kept
  <2>2. ASSUME NEW i \in workItems, NEW t \in Node, NEW c \in Choices \cup {{}},
               ReadForward(r, i, t, c) \/ ReadReturn(r, i, t, c)
        PROVE  ClosedInv'
    <3>1. ReadForward(r, i, t, c)
      BY <2>1, <2>2, NoReturns
    <3>2. /\ UNCHANGED <<workItems, docStatus, signers>> /\ pc'[r] # "commit"
          /\ request'[r].choice = c
      BY <1>1, <3>1 DEF ReadForward, Goto, db, TypeOK
    <3> QED
      BY <1>1, <3>2, ClosedWaits
  <2>3. CASE ResetSigners(r) \/ RemoveOwn(r) \/ WipeDownstream(r) \/ CommitReturn(r)
    BY <2>1, <2>3, NoReturns
  <2>4. CASE Refuse(r) \/ AlreadyCompleted(r) \/ DeadlockVictim(r) \/ Fail(r)
    BY <1>1, <2>4, RollbackCloses DEF Refuse, AlreadyCompleted, DeadlockVictim, Fail
  <2>5. CASE ResolveEnd(r) \/ ResolveChosen(r) \/ ResolveAutomatic(r)
    <3>1. /\ UNCHANGED <<workItems, docStatus, request>> /\ pc'[r] # "commit"
          /\ signers' = signers \/ ResolveChosen(r)
      BY <1>1, <2>5 DEF ResolveEnd, ResolveChosen, ResolveAutomatic, Plan, Goto, TypeOK
    <3> QED
      BY <1>1, <3>1, ClosedWaits
  <2>6. CASE CountSigners(r) \/ MarkAndRemove(r)
    <3>1. UNCHANGED <<workItems, docStatus, signers, request>> /\ pc'[r] # "commit"
      BY <1>1, <2>6 DEF CountSigners, MarkAndRemove, db, Goto, TypeOK
    <3> QED
      BY <1>1, <3>1, ClosedWaits
  <2>7. CASE TouchAudit(r)
    <3>1. request[r].op = "forward"
      BY <2>1, <2>7 DEF TouchAudit, At, Kept, InFlight, Asked
    <3>2. UNCHANGED <<workItems, docStatus, signers, request>> /\ pc'[r] # "commit"
      BY <1>1, <2>7, <3>1 DEF TouchAudit, db, Goto, TypeOK
    <3> QED
      BY <1>1, <3>2, ClosedWaits
  <2>8. CASE StageWaits(r) \/ StageExits(r) \/ Advance(r)
    BY <1>1, <2>1, <2>8, DecisionsClose, RollbackCloses
  <2>9. CASE CommitForward(r)
    BY <1>1, <2>9, CommitCloses
  <2> QED
    BY <1>3, <2>2, <2>3, <2>4, <2>5, <2>6, <2>7, <2>8, <2>9 DEF StepOf, Arrival, Progress
<1> QED
  BY <1>2, <1>3 DEF Next, StepOf, Quiescent

\* Once the status says that the document is finished, no step before the end
\* is open, in a model whose last step before an end event has one signer
\* (with two, the first signature finishes the document while the second
\* signer still has an item).
THEOREM ClosedAtTheEnd ==
    ASSUME StraightModel, OneBeforeEnd, Alone
    PROVE  Spec => []ClosedWhenFinished
<1>1. Init => ClosedInv
  <2> SUFFICES ASSUME Init PROVE ClosedInv
    OBVIOUS
  <2>1. docStatus = Draft /\ workItems = {[req |-> 0, node |-> Draft, user |-> Drafter]}
    BY DEF Init
  <2>2. ClosedWhenFinished
    BY <2>1 DEF ClosedWhenFinished
  <2>3. ASSUME NEW n \in Node, BeforeEnd(n) PROVE OneLeft(n)
    <3>1. TypeOf[n] \in SignType /\ TypeOf[n] # None
      BY <2>3, ModelAssumption DEF BeforeEnd
    <3>2. \A u \in PendingAt(n) : u \in InitialSigners[TypeOf[n]]
      BY <3>1 DEF Init, PendingAt, PendingOf
    <3> QED
      BY <2>3, <3>2 DEF OneBeforeEnd, OneLeft
  <2>4. \A s \in Session : request[s].choice = {} /\ pc[s] # "commit"
    BY DEF Init, NoRequest
  <2> QED
    BY <2>2, <2>3, <2>4 DEF ClosedInv
<1>2. StraightInv /\ ClosedInv /\ [Next]_vars => ClosedInv'
  BY ClosedStep
<1>3. ClosedInv => ClosedWhenFinished
  BY DEF ClosedInv
<1> QED
  BY <1>1, <1>2, <1>3, StraightAlways, PTL DEF Spec

\* What the search for the next step with signers returns: nothing, or a step
\* further along the flows listed first that is an end event, needs no signer
\* or has a pending one.
LEMMA NextStepFacts ==
    ASSUME NEW pending, NEW rank \in [Node -> Nat],
           \A m \in Node : FirstFlow[m] # None => rank[m] < rank[FirstFlow[m]],
           NEW n \in Node, NextStepWithSigners(n, pending) # None
    PROVE  LET x == NextStepWithSigners(n, pending)
           IN  /\ x \in Node
               /\ rank[n] < rank[x]
               /\ x \in EndEvent \/ TypeOf[x] = None \/ pending[x]
<1> DEFINE Stop(x) == x \in EndEvent \/ TypeOf[x] = None \/ pending[x]
           Step(h) == [m \in Node |->
                         IF FirstFlow[m] = None THEN None
                         ELSE IF Stop(FirstFlow[m]) THEN FirstFlow[m] ELSE h[FirstFlow[m]]]
           S == [Node -> Node \cup {None}]
           G == [h \in S |-> Step(h)]
           a == [m \in Node |-> None]
           Body(g) == [d \in 0..MaxDepth |-> [m \in Node |->
                         IF d = 0 \/ FirstFlow[m] = None THEN None
                         ELSE LET x == FirstFlow[m] IN
                              IF x \in EndEvent \/ TypeOf[x] = None \/ pending[x]
                                THEN x ELSE g[d - 1][x]]]
           walk == CHOOSE g : g = Body(g)
<1>1. FirstFlow \in [Node -> Node \cup {None}]
  BY ModelAssumption
<1>2. PICK f \in [Nat -> S] : f[0] = a /\ \A k \in Nat : f[k + 1] = G[f[k]]
  <2>1. a \in S
    OBVIOUS
  <2>2. \A h \in S : Step(h) \in S
    <3> HIDE DEF Stop
    <3> QED
      BY <1>1
  <2>3. G \in [S -> S]
    <3> HIDE DEF Step, S
    <3> QED
      BY <2>2
  <2> DEFINE A == S
             b == a
  <2>4. b \in A /\ G \in [A -> A]
    BY <2>1, <2>3
  <2> HIDE DEF G, Stop, Step, Body, walk, S, a, A, b
  <2>5. \E f \in [Nat -> A] : f[0] = b /\ \A k \in Nat : f[k + 1] = G[f[k]]
    BY <2>4, Iteration, SMTT(30)
  <2> QED
    BY <2>5, SMTT(20) DEF A, b
<1>3. ASSUME NEW d \in 0..MaxDepth, d # 0
      PROVE  d - 1 \in 0..MaxDepth /\ f[d] = Step(f[d - 1])
  <2>1. d - 1 \in Nat /\ (d - 1) + 1 = d /\ d - 1 \in 0..MaxDepth
    BY <1>3 DEF MaxDepth
  <2>2. f[d] = G[f[d - 1]] /\ f[d - 1] \in S
    BY <1>2, <2>1
  <2> HIDE DEF Step, S
  <2> QED
    BY <2>1, <2>2
<1> DEFINE w == [d \in 0..MaxDepth |-> f[d]]
<1>4. w = Body(w)
  <2> DEFINE val(d) == [m \in Node |->
                          IF d = 0 \/ FirstFlow[m] = None THEN None
                          ELSE LET x == FirstFlow[m] IN
                               IF x \in EndEvent \/ TypeOf[x] = None \/ pending[x]
                                 THEN x ELSE w[d - 1][x]]
  <2>1. ASSUME NEW d \in 0..MaxDepth PROVE f[d] = val(d)
    <3>1. CASE d = 0
      BY <1>2, <3>1
    <3>2. CASE d # 0
      <4>1. d - 1 \in 0..MaxDepth /\ f[d] = Step(f[d - 1])
        BY <1>3, <3>2
      <4>2. w[d - 1] = f[d - 1]
        BY <4>1
      <4> HIDE DEF w
      <4> QED
        BY <3>2, <4>1, <4>2
    <3> QED
      BY <3>1, <3>2
  <2> HIDE DEF val
  <2>2. w = [d \in 0..MaxDepth |-> val(d)]
    BY <2>1
  <2> QED
    BY <2>2 DEF val
<1>5. walk = Body(walk)
  <2> HIDE DEF Body, w
  <2> QED
    BY <1>4
<1> DEFINE Ahead(d) == \A m \in Node : walk[d][m] # None =>
                         walk[d][m] \in Node /\ rank[m] < rank[walk[d][m]] /\ Stop(walk[d][m])
<1>6. \A d \in 0..MaxDepth, m \in Node :
        walk[d][m] = IF d = 0 \/ FirstFlow[m] = None THEN None
                     ELSE IF Stop(FirstFlow[m]) THEN FirstFlow[m] ELSE walk[d - 1][FirstFlow[m]]
  <2> HIDE DEF walk
  <2> SUFFICES ASSUME NEW d \in 0..MaxDepth, NEW m \in Node
               PROVE  walk[d][m] = IF d = 0 \/ FirstFlow[m] = None THEN None
                                   ELSE IF Stop(FirstFlow[m]) THEN FirstFlow[m]
                                   ELSE walk[d - 1][FirstFlow[m]]
    OBVIOUS
  <2>1. walk[d] = Body(walk)[d]
    BY <1>5
  <2>2. Body(walk)[d][m] = IF d = 0 \/ FirstFlow[m] = None THEN None
                           ELSE IF Stop(FirstFlow[m]) THEN FirstFlow[m]
                           ELSE walk[d - 1][FirstFlow[m]]
    OBVIOUS
  <2> HIDE DEF Body, Stop
  <2> QED
    BY <2>1, <2>2
<1> HIDE DEF walk
<1>7. \A d \in Nat : d \in 0..MaxDepth => Ahead(d)
  <2> DEFINE T == {d \in Nat : d \in 0..MaxDepth => Ahead(d)}
  <2> HIDE DEF Stop
  <2>1. 0 \in T
    <3>1. Ahead(0)
      BY <1>6 DEF MaxDepth
    <3> QED
      BY <3>1
  <2>2. \A d \in Nat : d \in T => d + 1 \in T
    <3> SUFFICES ASSUME NEW d \in Nat, d + 1 \in 0..MaxDepth, d \in 0..MaxDepth => Ahead(d)
                 PROVE  Ahead(d + 1)
      <4> HIDE DEF Ahead
      <4> QED
        OBVIOUS
    <3>1. d \in 0..MaxDepth /\ d + 1 # 0 /\ (d + 1) - 1 = d
      BY DEF MaxDepth
    <3>2. SUFFICES ASSUME NEW m \in Node, walk[d + 1][m] # None
                   PROVE  /\ walk[d + 1][m] \in Node
                          /\ rank[m] < rank[walk[d + 1][m]] /\ Stop(walk[d + 1][m])
      OBVIOUS
    <3>3. /\ FirstFlow[m] # None
          /\ walk[d + 1][m] = IF Stop(FirstFlow[m]) THEN FirstFlow[m] ELSE walk[d][FirstFlow[m]]
      BY <1>6, <3>1, <3>2
    <3>4. FirstFlow[m] \in Node /\ rank[m] < rank[FirstFlow[m]]
      BY <1>1, <3>3
    <3>5. CASE Stop(FirstFlow[m])
      BY <3>3, <3>4, <3>5
    <3>6. CASE ~Stop(FirstFlow[m])
      <4>1. walk[d + 1][m] = walk[d][FirstFlow[m]]
        BY <3>3, <3>6
      <4>2. /\ walk[d][FirstFlow[m]] \in Node
            /\ rank[FirstFlow[m]] < rank[walk[d][FirstFlow[m]]]
            /\ Stop(walk[d][FirstFlow[m]])
        BY <3>1, <3>2, <3>4, <4>1
      <4> QED
        BY <3>4, <4>1, <4>2
    <3> QED
      BY <3>5, <3>6
  <2> HIDE DEF T
  <2>3. \A d \in Nat : d \in T
    BY <2>1, <2>2, SetInduction
  <2> QED
    BY <2>3 DEF T
<1>8. NextStepWithSigners(n, pending) = walk[MaxDepth][n]
  BY DEF NextStepWithSigners, walk
<1>9. MaxDepth \in Nat /\ MaxDepth \in 0..MaxDepth
  BY DEF MaxDepth
<1>10. Ahead(MaxDepth)
  BY <1>7, <1>9
<1> QED
  BY <1>8, <1>10

----------------------------------------------------------------------------
(* Documents with one signer per step, whatever overlaps and is sent back.  *)

\* Flows lead up the ranks.
Ascends(rank) == \A f \in Flow : rank[f[1]] < rank[f[2]]
FirstIsFlow == \A n \in Node : FirstFlow[n] # None => <<n, FirstFlow[n]>> \in Flow

\* Process models without stages whose steps never lead back by themselves.
OneByOneModel ==
    /\ \A n \in Node : ~InStage(n)
    /\ \E rank \in [Node -> Nat] : Ascends(rank)
    /\ FirstIsFlow

\* Who may become a signer of a type: those of the draft, and those a client
\* may choose among the users of a lane.
MaySign(T) ==
    InitialSigners[T] \cup
    {u \in User : \E c \in Choices, n \in Node :
                    u \in c /\ TypeOf[n] = T /\ c \subseteq Users(n)}

\* At most one user can ever be asked to sign for a kind of signature.
OneCandidate == \A T \in SignType : \A u, v \in MaySign(T) : u = v

\* The tables name nobody else as a signer.
OnlyCandidates ==
    \A T \in SignType, u \in User : signers[T][u] # "absent" => u \in MaySign(T)

\* Nor do the signatures of a request.
MarksCandidates ==
    \A s \in Session : \A p \in mark[s] : p[2] \in MaySign(p[1])

\* What a forward request knows: where it goes, that its step is over, and
\* that what it creates keeps the document alive.
GoesOn(s) ==
    /\ pc[s] # "wipe"
    /\ request[s].choice \in Choices \cup {{}}
    /\ pc[s] \in {"reset", "resolve"} => <<NodeOf(s), TargetOf(s)>> \in Flow
    /\ pc[s] \in {"count", "write", "audit", "evaluate", "commit"} =>
         /\ next[s] # NodeOf(s)
         /\ next[s] \notin EndEvent => assignees[s] # {}
    /\ pc[s] \in {"write", "audit", "evaluate", "commit"} => last[s]
    /\ pc[s] = "commit" => ins[s] # {} \/ (outcome[s] = "advance" /\ next[s] \in EndEvent)

\* A return knows to whom.
GoesBack(s) ==
    /\ pc[s] \in {"write", "wipe", "audit", "commit"}
    /\ assignees[s] # {}
    /\ pc[s] = "commit" => ins[s] # {}

\* What a request in flight keeps true of itself.
Serves(s) ==
    \/ pc[s] = "idle"
    \/ request[s].op = "forward" /\ GoesOn(s)
    \/ request[s].op = "return" /\ GoesBack(s)

\* Whom the client chose is one of its choices.
ChoiceKnown(s) == pc[s] = "resolve" => request[s].choice \in Choices \cup {{}}

\* The inductive invariant.
OneByOneInv ==
    /\ TypeOK
    /\ FlowNeverDies
    /\ OnlyCandidates
    /\ MarksCandidates
    /\ \A s \in Session : Serves(s)

\* What a step of r leaves of the others.
Untouched(r) ==
    \A s \in Session \ {r} :
        /\ pc'[s] = pc[s] /\ request'[s] = request[s] /\ next'[s] = next[s]
        /\ assignees'[s] = assignees[s] /\ last'[s] = last[s]
        /\ mark'[s] = mark[s] /\ ins'[s] = ins[s] /\ outcome'[s] = outcome[s]

\* The statements of a request leave the others untouched.
LEMMA StepUntouched ==
    ASSUME TypeOK, NEW r \in Session, StepOf(r)
    PROVE  Untouched(r)
<1>1. ASSUME End(r) PROVE Untouched(r)
  BY <1>1 DEF End, Goto, TypeOK, Untouched
<1>2. ASSUME NEW i, NEW t, NEW c, ReadForward(r, i, t, c) \/ ReadReturn(r, i, t, c)
      PROVE  Untouched(r)
  BY <1>2 DEF ReadForward, ReadReturn, Goto, planVars, txVars, TypeOK, Untouched
<1>3. ASSUME NEW n, NEW who, Plan(r, n, who) PROVE Untouched(r)
  BY <1>3 DEF Plan, Goto, txVars, TypeOK, Untouched
<1>4. ASSUME NEW what, NEW items, Decide(r, what, items) PROVE Untouched(r)
  BY <1>4 DEF Decide, Goto, planVars, TypeOK, Untouched
<1>5. CASE ResetSigners(r) \/ CountSigners(r)
  BY <1>5 DEF ResetSigners, CountSigners, Goto, planVars, txVars, TypeOK, Untouched
<1>6. CASE MarkAndRemove(r) \/ TouchAudit(r) \/ RemoveOwn(r) \/ WipeDownstream(r)
  BY <1>6 DEF MarkAndRemove, TouchAudit, RemoveOwn, WipeDownstream, Goto, planVars,
     TypeOK, Untouched
<1>7. CASE ResolveEnd(r) \/ ResolveChosen(r) \/ ResolveAutomatic(r)
  BY <1>3, <1>7 DEF ResolveEnd, ResolveChosen, ResolveAutomatic
<1>8. CASE StageWaits(r) \/ Advance(r)
  BY <1>4, <1>8 DEF StageWaits, Advance
<1>9. CASE StageExits(r)
  <2>1. Rollback(r) \/ \E items : Decide(r, "exit", items)
    BY <1>9 DEF StageExits
  <2> QED
    BY <1>1, <1>4, <2>1 DEF Rollback
<1>10. CASE Refuse(r) \/ AlreadyCompleted(r) \/ DeadlockVictim(r) \/ Fail(r)
  BY <1>1, <1>10 DEF Refuse, AlreadyCompleted, DeadlockVictim, Fail, Rollback
<1>11. CASE CommitForward(r) \/ CommitReturn(r)
  BY <1>1, <1>11 DEF CommitForward, CommitReturn
<1> QED
  BY <1>2, <1>5, <1>6, <1>7, <1>8, <1>9, <1>10, <1>11 DEF StepOf, Arrival, Progress

\* Items, audit rows and the status are written by commits only.
LEMMA OnlyCommitsWrite ==
    ASSUME NEW r \in Session, StepOf(r)
    PROVE  \/ CommitForward(r) \/ CommitReturn(r)
           \/ workItems' = workItems /\ audit' = audit /\ docStatus' = docStatus
<1>1. CASE Arrival(r)
  BY <1>1 DEF Arrival, ReadForward, ReadReturn, db
<1>2. CASE ResolveEnd(r) \/ ResolveChosen(r) \/ ResolveAutomatic(r)
  BY <1>2 DEF ResolveEnd, ResolveChosen, ResolveAutomatic, Plan
<1>3. CASE ResetSigners(r) \/ CountSigners(r) \/ MarkAndRemove(r) \/ TouchAudit(r)
           \/ RemoveOwn(r) \/ WipeDownstream(r)
  BY <1>3 DEF ResetSigners, CountSigners, MarkAndRemove, TouchAudit, RemoveOwn,
     WipeDownstream, db
<1>4. CASE StageWaits(r) \/ StageExits(r) \/ Advance(r) \/ Refuse(r) \/ AlreadyCompleted(r)
           \/ DeadlockVictim(r) \/ Fail(r)
  <2>1. Rollback(r) \/ \E what, items : Decide(r, what, items)
    BY <1>4 DEF StageWaits, StageExits, Advance, Refuse, AlreadyCompleted, DeadlockVictim, Fail
  <2> QED
    BY <2>1 DEF Rollback, Decide, db
<1> QED
  BY <1>1, <1>2, <1>3, <1>4 DEF StepOf, Progress

\* The statements that write signers.
LEMMA SignersWritten ==
    ASSUME NEW r \in Session, StepOf(r)
    PROVE  signers' = signers \/ ResetSigners(r) \/ ResolveChosen(r) \/ CommitForward(r)
<1>1. ASSUME NEW i, NEW t, NEW c, ReadForward(r, i, t, c) \/ ReadReturn(r, i, t, c)
      PROVE  signers' = signers
  BY <1>1 DEF ReadForward, ReadReturn, db
<1>2. CASE ResolveEnd(r) \/ ResolveAutomatic(r) \/ CommitReturn(r)
  BY <1>2 DEF ResolveEnd, ResolveAutomatic, CommitReturn
<1>3. CASE CountSigners(r) \/ MarkAndRemove(r) \/ TouchAudit(r) \/ RemoveOwn(r)
            \/ WipeDownstream(r)
  BY <1>3 DEF CountSigners, MarkAndRemove, TouchAudit, RemoveOwn, WipeDownstream, db
<1>4. CASE StageWaits(r) \/ StageExits(r) \/ Advance(r) \/ Refuse(r) \/ AlreadyCompleted(r)
            \/ DeadlockVictim(r) \/ Fail(r)
  <2>1. Rollback(r) \/ \E what, items : Decide(r, what, items)
    BY <1>4 DEF StageWaits, StageExits, Advance, Refuse, AlreadyCompleted, DeadlockVictim, Fail
  <2> QED
    BY <2>1 DEF Rollback, Decide, db
<1> QED
  BY <1>1, <1>2, <1>3, <1>4 DEF StepOf, Arrival, Progress

\* With one candidate a count of the pending signers is at most one.
LEMMA CandidateCount ==
    ASSUME TypeOK, OneCandidate, OnlyCandidates, NEW n \in Node
    PROVE  Cardinality(PendingAt(n)) <= 1
<1>1. \A u, v \in PendingAt(n) : u = v
  <2> SUFFICES ASSUME NEW u \in PendingAt(n), NEW v \in PendingAt(n) PROVE u = v
    OBVIOUS
  <2>1. TypeOf[n] \in SignType
    BY ModelAssumption DEF PendingAt
  <2>2. u \in MaySign(TypeOf[n]) /\ v \in MaySign(TypeOf[n])
    BY <2>1 DEF PendingAt, PendingOf, OnlyCandidates
  <2> QED
    BY <2>1, <2>2 DEF OneCandidate
<1>2. CASE PendingAt(n) = {}
  <2>1. Cardinality(PendingAt(n)) = 0
    BY <1>2, FS_EmptySet
  <2> QED
    BY <2>1
<1>3. CASE PendingAt(n) # {}
  <2>1. PICK u : u \in PendingAt(n)
    BY <1>3
  <2>2. PendingAt(n) = {u}
    BY <1>1, <2>1
  <2>3. Cardinality({u}) = 1
    BY FS_Singleton
  <2> QED
    BY <2>2, <2>3
<1> QED
  BY <1>2, <1>3

\* Where the search for signers can lead a forward request.
Onward(s, m) ==
    \/ m = TargetOf(s) \/ m = NextStep(TargetOf(s))
    \/ m = NextStep(NextStep(TargetOf(s))) /\ NextStep(TargetOf(s)) \in Node

\* The search leads up the ranks.
LEMMA OnwardAscends ==
    ASSUME TypeOK, FirstIsFlow, NEW rank \in [Node -> Nat], Ascends(rank),
           NEW r \in Session, <<NodeOf(r), TargetOf(r)>> \in Flow,
           NEW n \in Node, Onward(r, n)
    PROVE  rank[NodeOf(r)] < rank[n]
<1> DEFINE t == TargetOf(r)
<1>1. \A m \in Node : FirstFlow[m] # None => rank[m] < rank[FirstFlow[m]]
  BY DEF Ascends, FirstIsFlow
<1>2. \A m \in Node : NextStep(m) \in Node => rank[m] < rank[NextStep(m)]
  <2> SUFFICES ASSUME NEW m \in Node, NextStep(m) \in Node PROVE rank[m] < rank[NextStep(m)]
    OBVIOUS
  <2>1. NextStepWithSigners(m, HasPending) # None
    BY ModelAssumption DEF NextStep
  <2> QED
    BY <1>1, <2>1, NextStepFacts DEF NextStep
<1>3. t \in Node /\ NodeOf(r) \in Node /\ rank[NodeOf(r)] < rank[t]
  BY RequestType DEF Ascends, Request, TargetOf
<1> QED
  BY <1>2, <1>3 DEF Onward

\* Where a forward request goes is another step than its own.
LEMMA PlanGoesOn ==
    ASSUME OneByOneModel, TypeOK, NEW r \in Session, GoesOn(r), pc[r] = "resolve",
           NEW n \in Node, Onward(r, n), NEW who, Plan(r, n, who),
           n \notin EndEvent => who # {}
    PROVE  GoesOn(r)'
<1>1. PICK rank \in [Node -> Nat] : Ascends(rank)
  BY DEF OneByOneModel
<1>2. rank[NodeOf(r)] < rank[n]
  BY <1>1, OnwardAscends DEF GoesOn, OneByOneModel
<1>3. n # NodeOf(r)
  BY <1>2, RequestType
<1>4. /\ pc'[r] = "count" /\ request' = request /\ next'[r] = n /\ assignees'[r] = who
  BY DEF Plan, Goto, TypeOK
<1>5. NodeOf(r)' = NodeOf(r)
  BY <1>4 DEF NodeOf
<1> QED
  BY <1>3, <1>4, <1>5 DEF GoesOn

\* A request arrives.
LEMMA ArrivalServes ==
    ASSUME TypeOK, NEW r \in Session, NEW i \in workItems, NEW t \in Node,
           NEW c \in Choices \cup {{}}, ReadForward(r, i, t, c) \/ ReadReturn(r, i, t, c)
    PROVE  Serves(r)'
<1>1. CASE ReadForward(r, i, t, c)
  <2>1. /\ request'[r].op = "forward" /\ request'[r].choice = c
        /\ request'[r].target = t /\ request'[r].item = i
        /\ pc'[r] \in {"reset", "resolve"} /\ <<i.node, t>> \in Flow
    BY <1>1 DEF ReadForward, Goto, TypeOK
  <2>2. NodeOf(r)' = i.node /\ TargetOf(r)' = t
    BY <2>1 DEF NodeOf, TargetOf
  <2> QED
    BY <2>1, <2>2 DEF Serves, GoesOn
<1>2. CASE ReadReturn(r, i, t, c)
  <2>1. request'[r].op = "return" /\ pc'[r] = "write"
    BY <1>2 DEF ReadReturn, Goto, TypeOK
  <2>2. assignees'[r] # {}
    <3>1. PICK u \in User : assignees' = [assignees EXCEPT ![r] = {u}]
      BY <1>2 DEF ReadReturn
    <3> QED
      BY <3>1 DEF TypeOK
  <2> QED
    BY <2>1, <2>2 DEF Serves, GoesBack
<1> QED
  BY <1>1, <1>2

\* A request resolves its target: it plans a step the search can lead to, for
\* somebody.
LEMMA ResolvePlans ==
    ASSUME TypeOK, NEW r \in Session, ResolveEnd(r) \/ ResolveChosen(r) \/ ResolveAutomatic(r)
    PROVE  /\ pc[r] = "resolve" /\ request' = request
           /\ \E n \in Node : \E who : /\ Plan(r, n, who) /\ Onward(r, n)
                                       /\ n \notin EndEvent => who # {}
<1> DEFINE t == TargetOf(r)
           x == AfterSkipLane(t)
<1>1. pc[r] = "resolve"
  BY DEF ResolveEnd, ResolveChosen, ResolveAutomatic, At
<1>2. x = t \/ (x = NextStep(t) /\ NextStep(t) \in Node)
  BY DEF AfterSkipLane, TargetOf
<1>3. t \in Node /\ x \in Node
  BY <1>2, RequestType DEF Request, TargetOf
<1> HIDE DEF x
<1>4. PICK n, who : /\ Plan(r, n, who)
                    /\ n \in {t, x} \/ (n = NextStep(x) /\ n \in Node)
                    /\ n \notin EndEvent => who # {}
  <2>1. CASE ResolveEnd(r)
    BY <2>1 DEF ResolveEnd, TargetOf
  <2>2. CASE ResolveChosen(r)
    <3> DEFINE c == request[r].choice
               keep == TypeOf[x] # None /\ PendingAt(x) # {} /\ c = {UserOf(r)}
    <3>1. c # {} /\ Plan(r, x, IF keep THEN PendingAt(x) ELSE c)
      BY <2>2 DEF ResolveChosen, x, TargetOf
    <3>2. (IF keep THEN PendingAt(x) ELSE c) # {}
      BY <3>1
    <3> HIDE DEF keep, c
    <3> QED
      BY <3>1, <3>2
  <2>3. CASE ResolveAutomatic(r)
    <3>1. /\ Plan(r, Automatic(x), PendingAt(Automatic(x)))
          /\ Automatic(x) \in Node
          /\ Automatic(x) \notin EndEvent => PendingAt(Automatic(x)) # {}
      BY <2>3 DEF ResolveAutomatic, CanResolve, x, TargetOf
    <3>2. Automatic(x) = x \/ Automatic(x) = NextStep(x)
      BY DEF Automatic
    <3> QED
      BY <3>1, <3>2
  <2> QED
    BY <2>1, <2>2, <2>3
<1>5. n \in Node
  BY <1>3, <1>4
<1>6. Onward(r, n)
  <2>1. CASE x = t
    <3>1. n = t \/ n = NextStep(t)
      BY <1>4, <2>1
    <3> QED
      BY <1>5, <3>1 DEF Onward
  <2>2. CASE x = NextStep(t) /\ NextStep(t) \in Node
    <3>1. n = t \/ n = NextStep(t) \/ n = NextStep(NextStep(t))
      BY <1>4, <2>2
    <3> QED
      BY <1>5, <2>2, <3>1 DEF Onward
  <2> QED
    BY <1>2, <2>1, <2>2
<1>7. request' = request
  BY <1>4 DEF Plan
<1> QED
  BY <1>1, <1>4, <1>5, <1>6, <1>7

\* A request that resolved its target knows where to go.
LEMMA ResolveServes ==
    ASSUME OneByOneModel, TypeOK, NEW r \in Session, Serves(r),
           ResolveEnd(r) \/ ResolveChosen(r) \/ ResolveAutomatic(r)
    PROVE  Serves(r)'
<1>1. pc[r] = "resolve" /\ request' = request
  BY ResolvePlans
<1>2. GoesOn(r) /\ request[r].op = "forward"
  BY <1>1 DEF Serves, GoesBack
<1>3. GoesOn(r)'
  BY <1>1, <1>2, ResolvePlans, PlanGoesOn
<1> QED
  BY <1>1, <1>2, <1>3 DEF Serves

\* A step leads on, with items for somebody.
LEMMA AdvanceServes ==
    ASSUME OneByOneModel, TypeOK, NEW r \in Session, Serves(r),
           StageWaits(r) \/ StageExits(r) \/ Advance(r)
    PROVE  Serves(r)'
<1>1. pc[r] = "evaluate" /\ GoesOn(r) /\ request[r].op = "forward"
  BY DEF StageWaits, StageExits, Advance, At, Serves, GoesBack
<1>2. NodeOf(r) \in Node /\ next[r] \in Node /\ assignees[r] \in SUBSET User
  BY RequestType DEF TypeOK
<1>3. Advance(r)
  BY <1>2 DEF StageWaits, StageExits, OneByOneModel
<1>4. NodeDone(r)
  BY <1>1 DEF GoesOn, NodeDone
<1>5. Decide(r, "advance", TargetItems(r))
  BY <1>3, <1>4 DEF Advance
<1>6. TargetItems(r) = NewItems(r, next[r], Recipients(r, assignees[r]))
  <2>1. ~EntersStage(r)
    BY <1>2 DEF EntersStage, OneByOneModel
  <2> QED
    BY <2>1 DEF TargetItems
<1>7. next[r] \notin EndEvent => TargetItems(r) # {}
  <2> SUFFICES ASSUME next[r] \notin EndEvent PROVE TargetItems(r) # {}
    OBVIOUS
  <2>1. PICK u : u \in Recipients(r, assignees[r])
    BY <1>1 DEF GoesOn, Recipients
  <2>2. [req |-> request[r].req, node |-> next[r], user |-> u] \in TargetItems(r)
    BY <1>6, <2>1 DEF NewItems
  <2> QED
    BY <2>2
<1>8. /\ pc'[r] = "commit" /\ ins'[r] = TargetItems(r) /\ outcome'[r] = "advance"
      /\ request' = request /\ next' = next /\ assignees' = assignees /\ last' = last
  BY <1>5 DEF Decide, Goto, planVars, TypeOK
<1>9. NodeOf(r)' = NodeOf(r)
  BY <1>8 DEF NodeOf
<1> HIDE DEF Serves
<1>10. GoesOn(r)'
  BY <1>1, <1>7, <1>8, <1>9 DEF GoesOn
<1> QED
  BY <1>1, <1>8, <1>10 DEF Serves

\* The other statements of a request.
LEMMA StatementServes ==
    ASSUME TypeOK, OneCandidate, OnlyCandidates, NEW r \in Session, Serves(r),
           \/ ResetSigners(r) \/ CountSigners(r) \/ MarkAndRemove(r) \/ TouchAudit(r)
           \/ RemoveOwn(r) \/ WipeDownstream(r)
    PROVE  Serves(r)'
<1>1. /\ request' = request /\ next' = next /\ assignees' = assignees
      /\ NodeOf(r)' = NodeOf(r) /\ TargetOf(r)' = TargetOf(r)
  BY DEF ResetSigners, CountSigners, MarkAndRemove, TouchAudit, RemoveOwn, WipeDownstream,
     planVars, NodeOf, TargetOf
<1>2. CASE ResetSigners(r)
  <2>1. pc[r] = "reset" /\ pc'[r] = "resolve"
    BY <1>2 DEF ResetSigners, At, Goto, TypeOK
  <2> QED
    BY <1>1, <2>1 DEF Serves, GoesOn, GoesBack
<1>3. CASE CountSigners(r)
  <2>1. pc[r] = "count" /\ pc'[r] = "write"
    BY <1>3 DEF CountSigners, At, Goto, TypeOK
  <2>2. last'[r]
    <3>1. Cardinality(PendingAt(NodeOf(r))) <= 1
      BY RequestType, CandidateCount
    <3> QED
      BY <1>3, <3>1 DEF CountSigners, TypeOK
  <2> QED
    BY <1>1, <2>1, <2>2 DEF Serves, GoesOn, GoesBack
<1>4. CASE MarkAndRemove(r) \/ RemoveOwn(r) \/ WipeDownstream(r)
  <2>1. last' = last /\ pc[r] \in {"write", "wipe"} /\ pc'[r] \in {"wipe", "audit"}
    BY <1>4 DEF MarkAndRemove, RemoveOwn, WipeDownstream, planVars, At, Goto, TypeOK
  <2>2. MarkAndRemove(r) => request[r].op = "forward" /\ pc[r] = "write" /\ pc'[r] = "audit"
    BY DEF MarkAndRemove, At, Goto, TypeOK
  <2>3. RemoveOwn(r) => request[r].op = "return"
    BY DEF RemoveOwn
  <2>4. WipeDownstream(r) => pc[r] = "wipe" /\ pc'[r] = "audit"
    BY DEF WipeDownstream, At, Goto, TypeOK
  <2>5. CASE request[r].op = "return"
    BY <1>1, <2>1, <2>5 DEF Serves, GoesBack
  <2>6. CASE request[r].op = "forward" /\ pc'[r] = "audit" /\ pc[r] = "write"
    BY <1>1, <2>1, <2>6 DEF Serves, GoesOn
  <2>7. CASE request[r].op = "forward" /\ WipeDownstream(r)
    BY <2>4, <2>7 DEF Serves, GoesOn
  <2> QED
    BY <1>4, <2>2, <2>3, <2>5, <2>6, <2>7, <2>1 DEF Serves
<1>5. CASE TouchAudit(r)
  <2>1. last' = last /\ pc[r] = "audit"
    BY <1>5 DEF TouchAudit, planVars, At
  <2>2. CASE request[r].op = "return"
    <3>1. assignees[r] # {}
      BY <2>1, <2>2 DEF Serves, GoesBack
    <3>2. /\ pc'[r] = "commit"
          /\ ins'[r] = [req : {request[r].req}, node : {next[r]}, user : assignees[r]]
      BY <1>5, <2>2 DEF TouchAudit, Goto, TypeOK
    <3>3. ins'[r] # {}
      <4>1. PICK u : u \in assignees[r]
        BY <3>1
      <4>2. [req |-> request[r].req, node |-> next[r], user |-> u] \in ins'[r]
        BY <3>2, <4>1
      <4> QED
        BY <4>2
    <3> QED
      BY <1>1, <2>2, <3>1, <3>2, <3>3 DEF Serves, GoesBack
  <2>3. CASE request[r].op = "forward"
    <3>1. pc'[r] = "evaluate"
      BY <1>5, <2>3 DEF TouchAudit, Goto, TypeOK
    <3> QED
      BY <1>1, <2>1, <2>3, <3>1 DEF Serves, GoesOn
  <2> QED
    BY <2>1, <2>2, <2>3 DEF Serves
<1> QED
  BY <1>2, <1>3, <1>4, <1>5

\* Choosing signers makes nobody else a signer.
LEMMA ChoiceKeepsCandidates ==
    ASSUME TypeOK, NEW r \in Session, ChoiceKnown(r), OnlyCandidates, ResolveChosen(r)
    PROVE  OnlyCandidates'
<1> DEFINE x == AfterSkipLane(request[r].target)
           c == request[r].choice
<1>1. x \in Node
  BY RequestType DEF AfterSkipLane, Request
<1>2. c \subseteq Users(x) /\ c \in Choices \cup {{}}
      /\ \/ signers' = signers
         \/ TypeOf[x] # None
            /\ signers' = [signers EXCEPT ![TypeOf[x]] = Replaced(signers[TypeOf[x]], c)]
  BY DEF ResolveChosen, ChoiceKnown, At
<1> HIDE DEF x, c
<1>3. SUFFICES ASSUME NEW T \in SignType, NEW u \in User, signers'[T][u] # "absent",
                      signers[T][u] = "absent"
               PROVE  u \in MaySign(T)
  BY DEF OnlyCandidates, MaySign
<1>4. TypeOf[x] = T /\ signers'[T] = Replaced(signers[T], c)
  BY <1>1, <1>2, <1>3, ModelAssumption DEF TypeOK
<1>5. u \in c
  BY <1>3, <1>4 DEF Replaced
<1> QED
  BY <1>1, <1>2, <1>4, <1>5 DEF MaySign

\* Nobody but a candidate becomes a signer or signs.
LEMMA CandidatesKept ==
    ASSUME TypeOK, NEW r \in Session, ChoiceKnown(r), OnlyCandidates, MarksCandidates,
           StepOf(r)
    PROVE  OnlyCandidates' /\ MarksCandidates'
<1>1. ASSUME NEW T \in SignType, NEW u \in User
      PROVE  MaySign(T)' = MaySign(T)
  BY DEF MaySign
<1>2. CASE signers' = signers /\ mark' = mark
  BY <1>2 DEF OnlyCandidates, MarksCandidates, MaySign
<1>3. CASE Rollback(r)
  <2>1. signers' = signers /\ \A s \in Session : mark'[s] \subseteq mark[s]
    BY <1>3 DEF Rollback, End, db, TypeOK
  <2> QED
    BY <2>1 DEF OnlyCandidates, MarksCandidates, MaySign
<1>4. CASE ResetSigners(r)
  <2>1. mark' = mark /\ \A T \in SignType, u \in User :
          signers'[T][u] # "absent" => signers[T][u] # "absent"
    BY <1>4 DEF ResetSigners, txVars, TypeOK
  <2> QED
    BY <2>1 DEF OnlyCandidates, MarksCandidates, MaySign
<1>5. CASE ResolveChosen(r)
  <2>1. mark' = mark
    BY <1>5 DEF ResolveChosen, Plan, txVars
  <2> QED
    BY <1>5, <2>1, ChoiceKeepsCandidates DEF MarksCandidates, MaySign
<1>6. CASE MarkAndRemove(r)
  <2>1. signers' = signers
        /\ \A s \in Session : mark'[s] = IF s = r THEN MarkRows(r) ELSE mark[s]
    BY <1>6 DEF MarkAndRemove, db, TypeOK
  <2>2. ASSUME NEW p \in MarkRows(r) PROVE p[2] \in MaySign(p[1])
    <3>1. /\ p = <<TypeOf[NodeOf(r)], UserOf(r)>> /\ UserOf(r) \in PendingAt(NodeOf(r))
          /\ IsSigner(r)
      BY <2>2 DEF MarkRows
    <3>2. TypeOf[NodeOf(r)] \in SignType
      BY <3>1, RequestType, ModelAssumption DEF IsSigner
    <3> QED
      BY <3>1, <3>2 DEF PendingAt, PendingOf, OnlyCandidates
  <2>3. OnlyCandidates'
    BY <2>1 DEF OnlyCandidates, MaySign
  <2>4. \A s \in Session : \A p \in mark'[s] : p[2] \in MaySign(p[1])
    BY <2>1, <2>2 DEF MarksCandidates
  <2> QED
    BY <2>3, <2>4 DEF MarksCandidates, MaySign
<1>7. CASE CommitForward(r)
  <2>1. \A s \in Session : mark'[s] \subseteq mark[s]
    BY <1>7 DEF CommitForward, End, TypeOK
  <2>2. \A T \in SignType, u \in User :
          signers'[T][u] # "absent" => signers[T][u] # "absent" \/ <<T, u>> \in mark[r]
    BY <1>7 DEF CommitForward
  <2>3. \A T, u : <<T, u>> \in mark[r] => u \in MaySign(T)
    BY DEF MarksCandidates
  <2>4. OnlyCandidates'
    BY <2>2, <2>3 DEF OnlyCandidates, MaySign
  <2>5. MarksCandidates'
    BY <2>1 DEF MarksCandidates, MaySign
  <2> QED
    BY <2>4, <2>5
<1>8. CASE CommitReturn(r)
  <2>1. signers' = signers /\ \A s \in Session : mark'[s] \subseteq mark[s]
    BY <1>8 DEF CommitReturn, End, TypeOK
  <2> QED
    BY <2>1 DEF OnlyCandidates, MarksCandidates, MaySign
<1>9. ASSUME NEW i, NEW t, NEW c, ReadForward(r, i, t, c) \/ ReadReturn(r, i, t, c)
      PROVE  signers' = signers /\ mark' = mark
  BY <1>9 DEF ReadForward, ReadReturn, db, txVars
<1>10. CASE ResolveEnd(r) \/ ResolveAutomatic(r)
  BY <1>2, <1>10 DEF ResolveEnd, ResolveAutomatic, Plan, txVars
<1>11. CASE CountSigners(r) \/ TouchAudit(r) \/ RemoveOwn(r) \/ WipeDownstream(r)
  BY <1>2, <1>11 DEF CountSigners, TouchAudit, RemoveOwn, WipeDownstream, db, txVars
<1>12. ASSUME NEW what, NEW items, Decide(r, what, items)
       PROVE  signers' = signers /\ mark' = mark
  BY <1>12 DEF Decide, db
<1>13. CASE StageWaits(r) \/ Advance(r)
  BY <1>2, <1>12, <1>13 DEF StageWaits, Advance
<1>14. CASE StageExits(r)
  <2>1. Rollback(r) \/ \E items : Decide(r, "exit", items)
    BY <1>14 DEF StageExits
  <2> QED
    BY <1>2, <1>3, <1>12, <2>1
<1>15. CASE Refuse(r) \/ AlreadyCompleted(r) \/ DeadlockVictim(r) \/ Fail(r)
  BY <1>3, <1>15 DEF Refuse, AlreadyCompleted, DeadlockVictim, Fail
<1> QED
  BY <1>2, <1>4, <1>5, <1>6, <1>7, <1>8, <1>9, <1>10, <1>11, <1>13, <1>14, <1>15
     DEF StepOf, Arrival, Progress

\* Every commit leaves an item, or the document at its end.
LEMMA CommitsAlive ==
    ASSUME TypeOK, NEW r \in Session, Serves(r), FlowNeverDies, StepOf(r)
    PROVE  FlowNeverDies'
<1>1. CASE workItems' = workItems /\ docStatus' = docStatus
  BY <1>1 DEF FlowNeverDies
<1>2. CASE CommitForward(r)
  <2>1. pc[r] = "commit" /\ workItems' = (workItems \ del[r]) \cup ins[r]
        /\ docStatus' = IF outcome[r] = "wait" THEN docStatus ELSE next[r]
    BY <1>2 DEF CommitForward, At
  <2>2. ins[r] # {} \/ (outcome[r] = "advance" /\ next[r] \in EndEvent)
    BY <2>1 DEF Serves, GoesOn, GoesBack
  <2> QED
    BY <2>1, <2>2 DEF FlowNeverDies
<1>3. CASE CommitReturn(r)
  <2>1. pc[r] = "commit" /\ workItems' = (workItems \ del[r]) \cup ins[r]
        /\ docStatus' = next[r]
    BY <1>3 DEF CommitReturn, At
  <2>2. ins[r] # {} \/ next[r] \in EndEvent
    BY <2>1 DEF Serves, GoesOn, GoesBack
  <2> QED
    BY <2>1, <2>2 DEF FlowNeverDies
<1> QED
  BY <1>1, <1>2, <1>3, OnlyCommitsWrite

\* Every step of every request keeps the invariant.
LEMMA OneByOneStep ==
    ASSUME OneByOneModel, OneCandidate, OneByOneInv, [Next]_vars
    PROVE  OneByOneInv'
<1>1. TypeOK /\ TypeOK'
  BY TypeStep DEF OneByOneInv
<1>2. CASE UNCHANGED vars
  <2>1. /\ workItems' = workItems /\ docStatus' = docStatus /\ signers' = signers
        /\ pc' = pc /\ request' = request /\ next' = next /\ assignees' = assignees
        /\ last' = last /\ mark' = mark /\ ins' = ins /\ outcome' = outcome
    BY <1>2 DEF vars, db, planVars, txVars
  <2>2. FlowNeverDies' /\ OnlyCandidates' /\ MarksCandidates'
    BY <2>1 DEF OneByOneInv, FlowNeverDies, OnlyCandidates, MarksCandidates, MaySign
  <2>3. \A s : NodeOf(s)' = NodeOf(s) /\ TargetOf(s)' = TargetOf(s)
    BY <2>1 DEF NodeOf, TargetOf
  <2>4. \A s \in Session : Serves(s)'
    BY <2>1, <2>3 DEF OneByOneInv, Serves, GoesOn, GoesBack
  <2> QED
    BY <1>1, <2>2, <2>4 DEF OneByOneInv
<1>3. ASSUME NEW r \in Session, StepOf(r) PROVE OneByOneInv'
  <2>1. Serves(r) /\ ChoiceKnown(r) /\ OnlyCandidates /\ MarksCandidates /\ FlowNeverDies
    BY DEF OneByOneInv, Serves, GoesOn, GoesBack, ChoiceKnown
  <2>2. OnlyCandidates' /\ MarksCandidates' /\ FlowNeverDies'
    BY <1>1, <1>3, <2>1, CandidatesKept, CommitsAlive
  <2>3. Serves(r)'
    <3>1. ASSUME End(r) PROVE Serves(r)'
      BY <1>1, <3>1 DEF End, Goto, TypeOK, Serves
    <3>2. ASSUME NEW i \in workItems, NEW t \in Node, NEW c \in Choices \cup {{}},
                 ReadForward(r, i, t, c) \/ ReadReturn(r, i, t, c)
          PROVE  Serves(r)'
      BY <1>1, <3>2, ArrivalServes
    <3>3. CASE ResolveEnd(r) \/ ResolveChosen(r) \/ ResolveAutomatic(r)
      BY <1>1, <2>1, <3>3, ResolveServes
    <3>4. CASE StageWaits(r) \/ StageExits(r) \/ Advance(r)
      BY <1>1, <2>1, <3>4, AdvanceServes
    <3>5. CASE ResetSigners(r) \/ CountSigners(r) \/ MarkAndRemove(r) \/ TouchAudit(r)
               \/ RemoveOwn(r) \/ WipeDownstream(r)
      BY <1>1, <2>1, <3>5, StatementServes
    <3>6. CASE Refuse(r) \/ AlreadyCompleted(r) \/ DeadlockVictim(r) \/ Fail(r)
               \/ CommitForward(r) \/ CommitReturn(r)
      BY <3>1, <3>6 DEF Refuse, AlreadyCompleted, DeadlockVictim, Fail, Rollback,
         CommitForward, CommitReturn
    <3> QED
      BY <1>3, <3>2, <3>3, <3>4, <3>5, <3>6 DEF StepOf, Arrival, Progress
  <2>4. ASSUME NEW s \in Session \ {r} PROVE Serves(s)'
    <3>1. /\ pc'[s] = pc[s] /\ request'[s] = request[s] /\ next'[s] = next[s]
          /\ assignees'[s] = assignees[s] /\ last'[s] = last[s]
          /\ ins'[s] = ins[s] /\ outcome'[s] = outcome[s]
      BY <1>1, <1>3, StepUntouched DEF Untouched
    <3>2. NodeOf(s)' = NodeOf(s) /\ TargetOf(s)' = TargetOf(s)
      BY <3>1 DEF NodeOf, TargetOf
    <3>3. Serves(s)
      BY DEF OneByOneInv
    <3> QED
      BY <3>1, <3>2, <3>3 DEF Serves, GoesOn, GoesBack
  <2> QED
    BY <1>1, <2>2, <2>3, <2>4 DEF OneByOneInv
<1> QED
  BY <1>2, <1>3 DEF Next, StepOf, Quiescent

\* It holds at the start.
LEMMA OneByOneInit ==
    ASSUME Init
    PROVE  OneByOneInv
<1>1. TypeOK
  BY TypeInit
<1>2. FlowNeverDies
  BY DEF Init, FlowNeverDies
<1>3. OnlyCandidates
  BY DEF Init, OnlyCandidates, MaySign
<1>4. MarksCandidates /\ \A s \in Session : Serves(s)
  BY DEF Init, MarksCandidates, Serves
<1> QED
  BY <1>1, <1>2, <1>3, <1>4 DEF OneByOneInv

\* With one candidate per signer type the document never dies, whatever
\* requests overlap, are sent back or fail.  (Two overlapping co-signers can
\* lose the last signature: the run cosigners.)
THEOREM SingleSignersGoOn ==
    ASSUME OneByOneModel, OneCandidate
    PROVE  Spec => []FlowNeverDies
<1>1. Init => OneByOneInv
  BY OneByOneInit
<1>2. OneByOneInv /\ [Next]_vars => OneByOneInv'
  BY OneByOneStep
<1>3. OneByOneInv => FlowNeverDies
  BY DEF OneByOneInv
<1> QED
  BY <1>1, <1>2, <1>3, PTL DEF Spec

----------------------------------------------------------------------------
(* Who is asked, with one signer per step, whatever overlaps.               *)

\* The draft is not signed, and returns lead to such steps.
SentToDraft ==
    /\ TypeOf[Draft] = None
    /\ \A f \in ReturnFlow : TypeOf[f[2]] = None

\* u is a signer of the step n, if anybody is.
SignerIn(sg, n, u) == TypeOf[n] # None => sg[TypeOf[n]][u] # "absent"
Appointed(n, u) == SignerIn(signers, n, u)

\* Whom a request is about to ask is a signer.
AsksAppointed(s) ==
    /\ pc[s] \in {"count", "write", "wipe", "audit", "evaluate"} =>
         \A u \in assignees[s] : Appointed(next[s], u)
    /\ \A i \in ins[s] : Appointed(i.node, i.user)

AppointedInv ==
    /\ OneByOneInv
    /\ OnlySelectedSigners
    /\ \A s \in Session : AsksAppointed(s)

\* With one candidate, who is a signer stays one.
LEMMA AppointedStays ==
    ASSUME OneCandidate, TypeOK, OnlyCandidates, NEW r \in Session, ChoiceKnown(r),
           StepOf(r), NEW n \in Node, NEW u \in User, Appointed(n, u)
    PROVE  SignerIn(signers', n, u)
<1> DEFINE T == TypeOf[n]
<1>2. SUFFICES ASSUME T # None, signers[T][u] # "absent" PROVE signers'[T][u] # "absent"
  BY DEF Appointed, SignerIn
<1>3. T \in SignType
  BY <1>2, ModelAssumption
<1> HIDE DEF T
<1>4. CASE signers' = signers
  BY <1>2, <1>4
<1>5. CASE ResetSigners(r)
  BY <1>2, <1>3, <1>5 DEF ResetSigners, TypeOK
<1>6. CASE ResolveChosen(r)
  <2> DEFINE x == AfterSkipLane(request[r].target)
             c == request[r].choice
  <2>2. x \in Node
    BY RequestType DEF AfterSkipLane, Request
  <2>3. c # {} /\ c \subseteq Users(x) /\ c \in Choices
    BY <1>6 DEF ResolveChosen, ChoiceKnown, At
  <2>4. \/ signers' = signers
        \/ signers' = [signers EXCEPT ![TypeOf[x]] = Replaced(signers[TypeOf[x]], c)]
    BY <1>6 DEF ResolveChosen
  <2> HIDE DEF x, c
  <2>5. SUFFICES ASSUME TypeOf[x] = T, signers'[T] = Replaced(signers[T], c)
                 PROVE  signers'[T][u] # "absent"
    BY <1>2, <1>3, <2>4 DEF TypeOK
  <2>6. PICK v : v \in c
    BY <2>3
  <2>7. v \in User
    BY <2>2, <2>3, <2>6, UsersType
  <2>8. v \in MaySign(T)
    BY <2>2, <2>3, <2>5, <2>6, <2>7 DEF MaySign
  <2>9. u \in MaySign(T)
    BY <1>2, <1>3 DEF OnlyCandidates
  <2>10. u \in c
    BY <1>3, <2>6, <2>8, <2>9 DEF OneCandidate
  <2> QED
    BY <2>5, <2>10 DEF Replaced
<1>7. CASE CommitForward(r)
  BY <1>2, <1>3, <1>7 DEF CommitForward
<1> QED
  BY <1>4, <1>5, <1>6, <1>7, SignersWritten

\* A resolved request asks signers: those pending, or those it makes pending.
LEMMA ResolveAppoints ==
    ASSUME TypeOK, NEW r \in Session,
           ResolveEnd(r) \/ ResolveChosen(r) \/ ResolveAutomatic(r)
    PROVE  /\ \A u \in assignees'[r] : SignerIn(signers', next'[r], u)
           /\ ins' = ins /\ request' = request /\ pc'[r] = "count"
           /\ pc[r] = "resolve"
<1>0. ASSUME NEW n, NEW who, Plan(r, n, who)
      PROVE  /\ next'[r] = n /\ assignees'[r] = who /\ pc'[r] = "count"
             /\ ins' = ins /\ request' = request
  BY <1>0 DEF Plan, Goto, txVars, TypeOK
<1>a. ASSUME NEW n, NEW u \in PendingAt(n), signers' = signers PROVE SignerIn(signers', n, u)
  BY <1>a DEF PendingAt, PendingOf, SignerIn
<1>b. pc[r] = "resolve"
  BY DEF ResolveEnd, ResolveChosen, ResolveAutomatic, At
<1>1. CASE ResolveEnd(r)
  BY <1>0, <1>1, <1>b DEF ResolveEnd
<1>2. CASE ResolveChosen(r)
  <2> DEFINE x == AfterSkipLane(request[r].target)
             c == request[r].choice
             keep == TypeOf[x] # None /\ PendingAt(x) # {} /\ c = {UserOf(r)}
  <2>1. /\ Plan(r, x, IF keep THEN PendingAt(x) ELSE c)
        /\ signers' = IF keep \/ TypeOf[x] = None THEN signers
                      ELSE [signers EXCEPT ![TypeOf[x]] = Replaced(@, c)]
        /\ c \subseteq Users(x)
    BY <1>2 DEF ResolveChosen
  <2>2. x \in Node
    BY RequestType DEF AfterSkipLane, Request
  <2> HIDE DEF x, c
  <2>3. CASE keep
    BY <1>0, <1>a, <1>b, <2>1, <2>3
  <2>4. CASE ~keep
    <3>1. next'[r] = x /\ assignees'[r] = c
      BY <1>0, <2>1, <2>4
    <3>2. ASSUME NEW u \in c, TypeOf[x] # None PROVE signers'[TypeOf[x]][u] # "absent"
      <4>1. TypeOf[x] \in SignType /\ u \in User
        BY <2>1, <2>2, <3>2, UsersType, ModelAssumption
      <4>2. signers'[TypeOf[x]] = Replaced(signers[TypeOf[x]], c)
        BY <2>1, <2>4, <3>2, <4>1 DEF TypeOK
      <4> QED
        BY <3>2, <4>1, <4>2 DEF Replaced
    <3>3. \A u \in c : SignerIn(signers', x, u)
      BY <3>2 DEF SignerIn
    <3> QED
      BY <1>0, <1>b, <2>1, <3>1, <3>3
  <2> QED
    BY <2>3, <2>4
<1>3. CASE ResolveAutomatic(r)
  <2> DEFINE x == AfterSkipLane(request[r].target)
  <2>1. Plan(r, Automatic(x), PendingAt(Automatic(x))) /\ signers' = signers
    BY <1>3 DEF ResolveAutomatic
  <2> HIDE DEF x
  <2>2. /\ next'[r] = Automatic(x) /\ assignees'[r] = PendingAt(Automatic(x))
        /\ pc'[r] = "count" /\ ins' = ins /\ request' = request
    BY <1>0, <2>1
  <2>3. \A u \in PendingAt(Automatic(x)) : SignerIn(signers', Automatic(x), u)
    BY <1>a, <2>1
  <2> QED
    BY <1>b, <2>2, <2>3
<1> QED
  BY <1>1, <1>2, <1>3

\* What a request decides to ask stays with it until the commit.
LEMMA AsksStep ==
    ASSUME OneByOneModel, SentToDraft, OneCandidate, AppointedInv,
           NEW r \in Session, StepOf(r)
    PROVE  AsksAppointed(r)'
<1> DEFINE Sg(n, u) == SignerIn(signers', n, u)
<1>1. TypeOK /\ TypeOK' /\ OnlyCandidates /\ ChoiceKnown(r) /\ AsksAppointed(r) /\ Next
  BY TypeStep DEF AppointedInv, OneByOneInv, Next, StepOf, Serves, GoesOn, GoesBack, ChoiceKnown
<1>2. \A n \in Node, u \in User : Appointed(n, u) => Sg(n, u)
  BY <1>1, AppointedStays
<1>3. SUFFICES /\ pc'[r] \in {"count", "write", "wipe", "audit", "evaluate"} =>
                    \A u \in assignees'[r] : Sg(next'[r], u)
               /\ \A i \in ins'[r] : Sg(i.node, i.user)
  BY DEF AsksAppointed, Appointed
<1>4. next[r] \in Node /\ assignees[r] \subseteq User /\ ins[r] \subseteq Item
  BY <1>1 DEF TypeOK
<1>5. \A i \in ins[r] : Sg(i.node, i.user)
  BY <1>1, <1>2, <1>4 DEF AsksAppointed, Item
<1>6. pc[r] \in {"count", "write", "wipe", "audit", "evaluate"} =>
        \A u \in assignees[r] : Sg(next[r], u)
  BY <1>1, <1>2, <1>4 DEF AsksAppointed
<1> HIDE DEF Sg
<1>7. ASSUME End(r) PROVE pc'[r] = "idle" /\ ins'[r] = {}
  BY <1>1, <1>7 DEF End, Goto, TypeOK
<1>8. CASE Refuse(r) \/ AlreadyCompleted(r) \/ DeadlockVictim(r) \/ Fail(r)
           \/ CommitForward(r) \/ CommitReturn(r)
  BY <1>7, <1>8 DEF Refuse, AlreadyCompleted, DeadlockVictim, Fail, Rollback,
     CommitForward, CommitReturn
<1>9. ASSUME NEW i, NEW t, NEW c, ReadForward(r, i, t, c)
      PROVE  pc'[r] \in {"reset", "resolve"} /\ ins' = ins
  BY <1>1, <1>9 DEF ReadForward, Goto, txVars, TypeOK
<1>10. ASSUME NEW i \in workItems, NEW t \in Node, NEW c, ReadReturn(r, i, t, c)
       PROVE  ins' = ins /\ TypeOf[next'[r]] = None
  <2>1. ins' = ins /\ next'[r] = t /\ <<i.node, t>> \in ReturnFlow
    BY <1>1, <1>10 DEF ReadReturn, txVars, TypeOK
  <2> QED
    BY <2>1 DEF SentToDraft
<1>11. CASE Arrival(r)
  BY <1>5, <1>9, <1>10, <1>11 DEF Arrival, Sg, SignerIn
<1>12. CASE ResetSigners(r)
  BY <1>1, <1>5, <1>12 DEF ResetSigners, Goto, txVars, TypeOK
<1>13. CASE ResolveEnd(r) \/ ResolveChosen(r) \/ ResolveAutomatic(r)
  BY <1>1, <1>5, <1>13, ResolveAppoints DEF Sg
<1>14. CASE CountSigners(r) \/ MarkAndRemove(r) \/ RemoveOwn(r) \/ WipeDownstream(r)
  <2>1. pc[r] \in {"count", "write", "wipe"} /\ next' = next /\ assignees' = assignees
        /\ ins' = ins
    BY <1>14 DEF CountSigners, MarkAndRemove, RemoveOwn, WipeDownstream, At, planVars, txVars
  <2> QED
    BY <1>5, <1>6, <2>1
<1>15. CASE TouchAudit(r)
  <2>1. pc[r] = "audit" /\ next' = next /\ assignees' = assignees
        /\ \/ ins' = ins
           \/ ins'[r] = [req : {request[r].req}, node : {next[r]}, user : assignees[r]]
    BY <1>1, <1>15, ZenonT(60) DEF TouchAudit, At, planVars, TypeOK
  <2>2. CASE ins' = ins
    BY <1>5, <1>6, <2>1, <2>2
  <2>3. CASE ins'[r] = [req : {request[r].req}, node : {next[r]}, user : assignees[r]]
    <3>1. \A i \in ins'[r] : i.node = next[r] /\ i.user \in assignees[r]
      BY <2>3
    <3> QED
      BY <1>6, <2>1, <3>1
  <2> QED
    BY <2>1, <2>2, <2>3
<1>16. CASE StageWaits(r) \/ StageExits(r) \/ Advance(r)
  <2>1. pc[r] = "evaluate" /\ NodeOf(r) \in Node
    BY <1>1, <1>16, RequestType DEF StageWaits, StageExits, Advance, At
  <2>2. Advance(r)
    BY <1>16, <2>1 DEF StageWaits, StageExits, OneByOneModel
  <2>3. \E what : Decide(r, what, TargetItems(r)) \/ Decide(r, what, {})
    BY <2>2 DEF Advance
  <2>b. PICK what : Decide(r, what, TargetItems(r)) \/ Decide(r, what, {})
    BY <2>3
  <2>4. pc'[r] = "commit" /\ (ins'[r] = TargetItems(r) \/ ins'[r] = {})
    <3>1. CASE Decide(r, what, TargetItems(r))
      BY <1>1, <3>1 DEF Decide, Goto, TypeOK
    <3>2. CASE Decide(r, what, {})
      BY <1>1, <3>2 DEF Decide, Goto, TypeOK
    <3> QED
      BY <2>b, <3>1, <3>2
  <2>5. ~EntersStage(r)
    BY <1>4, <2>1 DEF EntersStage, OneByOneModel
  <2>6. TargetItems(r) = NewItems(r, next[r], Recipients(r, assignees[r]))
    BY <2>5 DEF TargetItems
  <2>7. Recipients(r, assignees[r]) \subseteq assignees[r]
    BY DEF Recipients
  <2>8. \A i \in TargetItems(r) : i.node = next[r] /\ i.user \in assignees[r]
    BY <2>6, <2>7 DEF NewItems
  <2> QED
    BY <1>6, <2>1, <2>4, <2>8
<1> QED
  BY <1>8, <1>11, <1>12, <1>13, <1>14, <1>15, <1>16 DEF StepOf, Progress

\* A commit puts the step before signers only.
LEMMA CommitsAppointed ==
    ASSUME OneCandidate, AppointedInv, NEW r \in Session, StepOf(r)
    PROVE  OnlySelectedSigners'
<1>1. TypeOK /\ OnlyCandidates /\ ChoiceKnown(r)
  BY DEF AppointedInv, OneByOneInv, Serves, GoesOn, GoesBack, ChoiceKnown
<1>2. \A n \in Node, u \in User : Appointed(n, u) => SignerIn(signers', n, u)
  BY <1>1, AppointedStays
<1>3. \A i \in workItems \cup ins[r] :
        i.node \in Node /\ i.user \in User /\ Appointed(i.node, i.user)
  BY <1>1 DEF TypeOK, Item, AppointedInv, AsksAppointed, OnlySelectedSigners, Appointed, SignerIn
<1>4. workItems' \subseteq workItems \cup ins[r]
  BY OnlyCommitsWrite DEF CommitForward, CommitReturn
<1>5. \A i \in workItems' : SignerIn(signers', i.node, i.user)
  BY <1>2, <1>3, <1>4
<1> QED
  BY <1>5 DEF OnlySelectedSigners, SignerIn

\* Every step keeps the invariant.
LEMMA AppointedStep ==
    ASSUME OneByOneModel, SentToDraft, OneCandidate, AppointedInv, [Next]_vars
    PROVE  AppointedInv'
<1>1. OneByOneInv' /\ TypeOK
  BY OneByOneStep DEF AppointedInv, OneByOneInv
<1>2. CASE UNCHANGED vars
  BY <1>1, <1>2 DEF vars, db, planVars, txVars, AppointedInv, OnlySelectedSigners,
     AsksAppointed, Appointed
<1>3. ASSUME NEW r \in Session, StepOf(r) PROVE AppointedInv'
  <2>1. OnlySelectedSigners' /\ AsksAppointed(r)'
    BY <1>3, AsksStep, CommitsAppointed
  <2>2. ASSUME NEW s \in Session \ {r} PROVE AsksAppointed(s)'
    <3>1. /\ pc'[s] = pc[s] /\ next'[s] = next[s]
          /\ assignees'[s] = assignees[s] /\ ins'[s] = ins[s]
      BY <1>1, <1>3, StepUntouched DEF Untouched
    <3>2. AsksAppointed(s) /\ OnlyCandidates /\ ChoiceKnown(r)
      BY DEF AppointedInv, OneByOneInv, Serves, GoesOn, GoesBack, ChoiceKnown
    <3>3. \A n \in Node, u \in User : Appointed(n, u) => SignerIn(signers', n, u)
      BY <1>1, <1>3, <3>2, AppointedStays
    <3>4. next[s] \in Node /\ assignees[s] \subseteq User /\ ins[s] \subseteq Item
      BY <1>1 DEF TypeOK
    <3>5. pc[s] \in {"count", "write", "wipe", "audit", "evaluate"} =>
            \A u \in assignees[s] : SignerIn(signers', next[s], u)
      BY <3>2, <3>3, <3>4 DEF AsksAppointed
    <3>6. \A i \in ins[s] : SignerIn(signers', i.node, i.user)
      BY <3>2, <3>3, <3>4 DEF AsksAppointed, Item
    <3> QED
      BY <3>1, <3>5, <3>6 DEF AsksAppointed, Appointed
  <2> QED
    BY <1>1, <2>1, <2>2 DEF AppointedInv
<1> QED
  BY <1>2, <1>3 DEF Next, StepOf, Quiescent

\* setProcessor, with one candidate per signer type and returns to steps that
\* are not signed: whatever overlaps, is sent twice or fails, a signer step is
\* put before nobody but its signer.
THEOREM SingleSignerIsAsked ==
    ASSUME OneByOneModel, OneCandidate, SentToDraft
    PROVE  Spec => []OnlySelectedSigners
<1>1. Init => AppointedInv
  <2> SUFFICES ASSUME Init PROVE AppointedInv
    OBVIOUS
  <2>1. OneByOneInv
    BY OneByOneInit
  <2>2. TypeOf[Draft] = None
    BY DEF SentToDraft
  <2>3. OnlySelectedSigners /\ \A s \in Session : AsksAppointed(s)
    BY <2>2 DEF Init, OnlySelectedSigners, AsksAppointed
  <2> QED
    BY <2>1, <2>3 DEF AppointedInv
<1>2. AppointedInv /\ [Next]_vars => AppointedInv'
  BY AppointedStep
<1>3. AppointedInv => OnlySelectedSigners
  BY DEF AppointedInv
<1> QED
  BY <1>1, <1>2, <1>3, PTL DEF Spec

----------------------------------------------------------------------------
(* Where the document is, with one signer per step and returns, in turn.    *)

\* Documents are sent back from signer steps.
SentBySigners == \A f \in ReturnFlow : TypeOf[f[1]] # None

\* Items of one step, made by one request; one item if the step is signed.
OnePlace(items) ==
    \A i, j \in items : i.node = j.node /\ i.req = j.req /\ (TypeOf[i.node] # None => i = j)

\* What a request knows when nothing runs beside it: its item is open, it asks
\* one user to sign, and what it has removed by its commit is everything.
KnowsPlace(s) ==
    /\ pc[s] # "idle" => request[s].item \in workItems
    /\ pc[s] # "idle" /\ request[s].op = "return" => IsSigner(s)
    /\ pc[s] \in {"count", "write", "wipe", "audit", "evaluate"} /\ TypeOf[next[s]] # None =>
         \A u, v \in assignees[s] : u = v
    /\ pc[s] \in {"wipe", "audit", "evaluate", "commit"} => workItems \subseteq del[s]
    /\ pc[s] = "commit" => OnePlace(ins[s])

PlaceInv ==
    /\ OneByOneInv
    /\ OnePlace(workItems)
    /\ \A s \in Session : KnowsPlace(s)

\* The statements that decide nothing about items.
LEMMA PlaceKept ==
    ASSUME OneByOneModel, SentBySigners, OneCandidate, PlaceInv, TypeOK', OnlyCandidates',
           NEW r \in Session,
           \/ Arrival(r) \/ ResetSigners(r) \/ CountSigners(r)
           \/ ResolveEnd(r) \/ ResolveChosen(r) \/ ResolveAutomatic(r)
    PROVE  workItems' = workItems /\ KnowsPlace(r)'
<1>1. TypeOK /\ KnowsPlace(r)
  BY DEF PlaceInv, OneByOneInv
<1>2. CASE Arrival(r)
  <2>1. PICK i \in workItems, t \in Node, c \in Choices \cup {{}} :
          ReadForward(r, i, t, c) \/ ReadReturn(r, i, t, c)
    BY <1>2 DEF Arrival
  <2>2. workItems' = workItems /\ request'[r].item = i
    BY <1>1, <2>1 DEF ReadForward, ReadReturn, db, TypeOK
  <2>3. CASE ReadForward(r, i, t, c)
    <3>1. pc'[r] \in {"reset", "resolve"} /\ request'[r].op = "forward"
      BY <1>1, <2>3 DEF ReadForward, Goto, TypeOK
    <3> QED
      BY <2>2, <3>1 DEF KnowsPlace
  <2>4. CASE ReadReturn(r, i, t, c)
    <3>1. pc'[r] = "write" /\ TypeOf[i.node] # None
      BY <1>1, <2>4, SMTT(20) DEF ReadReturn, Goto, SentBySigners, TypeOK
    <3>2. PICK u : assignees'[r] = {u}
      <4>1. PICK u \in User : assignees' = [assignees EXCEPT ![r] = {u}]
        BY <2>4 DEF ReadReturn
      <4>2. assignees'[r] = {u}
        BY <1>1, <4>1 DEF TypeOK
      <4> QED
        BY <4>2
    <3>3. IsSigner(r)'
      BY <2>2, <3>1 DEF IsSigner, NodeOf
    <3> QED
      BY <2>2, <3>1, <3>2, <3>3 DEF KnowsPlace
  <2> QED
    BY <2>1, <2>3, <2>4
<1>3. CASE ResetSigners(r)
  <2>1. /\ pc[r] = "reset" /\ pc'[r] = "resolve" /\ workItems' = workItems /\ request' = request
    BY <1>1, <1>3 DEF ResetSigners, At, Goto, TypeOK
  <2> QED
    BY <1>1, <2>1 DEF KnowsPlace, IsSigner, NodeOf
<1>4. CASE CountSigners(r)
  <2>1. /\ pc[r] = "count" /\ pc'[r] = "write" /\ workItems' = workItems /\ request' = request
        /\ next' = next /\ assignees' = assignees
    BY <1>1, <1>4 DEF CountSigners, At, Goto, db, TypeOK
  <2> QED
    BY <1>1, <2>1 DEF KnowsPlace, IsSigner, NodeOf
<1>5. CASE ResolveEnd(r) \/ ResolveChosen(r) \/ ResolveAutomatic(r)
  <2>1. workItems' = workItems
    BY <1>5 DEF ResolveEnd, ResolveChosen, ResolveAutomatic, Plan
  <2>2. /\ \A u \in assignees'[r] : SignerIn(signers', next'[r], u)
        /\ request' = request /\ pc'[r] = "count" /\ pc[r] = "resolve"
    BY <1>1, <1>5, ResolveAppoints
  <2>3. ASSUME TypeOf[next'[r]] # None, NEW u \in assignees'[r], NEW v \in assignees'[r]
        PROVE  u = v
    <3>1. TypeOf[next'[r]] \in SignType /\ u \in User /\ v \in User
      BY <2>3, ModelAssumption DEF TypeOK
    <3>2. u \in MaySign(TypeOf[next'[r]]) /\ v \in MaySign(TypeOf[next'[r]])
      BY <2>2, <2>3, <3>1 DEF OnlyCandidates, SignerIn, MaySign
    <3> QED
      BY <3>1, <3>2 DEF OneCandidate
  <2> QED
    BY <1>1, <2>1, <2>2, <2>3 DEF KnowsPlace, IsSigner, NodeOf
<1> QED
  BY <1>2, <1>3, <1>4, <1>5

\* The statements that remove items: all there are.
LEMMA PlaceCleared ==
    ASSUME PlaceInv, NEW r \in Session,
           MarkAndRemove(r) \/ RemoveOwn(r) \/ WipeDownstream(r) \/ TouchAudit(r)
    PROVE  workItems' = workItems /\ KnowsPlace(r)'
<1>1. TypeOK /\ KnowsPlace(r) /\ OnePlace(workItems) /\ Serves(r)
  BY DEF PlaceInv, OneByOneInv
<1>2. /\ workItems' = workItems /\ request' = request /\ next' = next /\ assignees' = assignees
      /\ pc[r] # "idle" /\ (IsSigner(r)' <=> IsSigner(r)) /\ NodeOf(r)' = NodeOf(r)
  BY DEF MarkAndRemove, RemoveOwn, WipeDownstream, TouchAudit, db, planVars, At, IsSigner, NodeOf
<1>3. CASE MarkAndRemove(r)
  <2>1. /\ pc[r] = "write" /\ pc'[r] = "audit" /\ del'[r] = Removal(r) /\ request[r].op = "forward"
    BY <1>1, <1>3 DEF MarkAndRemove, At, Goto, TypeOK
  <2>2. NodeDone(r)
    BY <1>1, <2>1 DEF Serves, GoesOn, NodeDone
  <2>3. workItems \subseteq Removal(r)
    BY <1>1, <2>1, <2>2 DEF Removal, ItemsAt, KnowsPlace, OnePlace, NodeOf
  <2> QED
    BY <1>1, <1>2, <2>1, <2>3 DEF KnowsPlace
<1>4. CASE RemoveOwn(r)
  <2>1. /\ pc[r] = "write" /\ pc'[r] = "wipe" /\ del'[r] = {request[r].item}
        /\ request[r].op = "return"
    BY <1>1, <1>4 DEF RemoveOwn, At, Goto, TypeOK
  <2>2. workItems \subseteq {request[r].item}
    BY <1>1, <2>1 DEF KnowsPlace, OnePlace, IsSigner, NodeOf
  <2> QED
    BY <1>1, <1>2, <2>1, <2>2 DEF KnowsPlace
<1>5. CASE WipeDownstream(r)
  <2>1. /\ pc[r] = "wipe" /\ pc'[r] = "audit" /\ del[r] \subseteq del'[r]
    BY <1>1, <1>5 DEF WipeDownstream, At, Goto, TypeOK
  <2> QED
    BY <1>1, <1>2, <2>1 DEF KnowsPlace
<1>6. CASE TouchAudit(r)
  <2>1. pc[r] = "audit" /\ del' = del
    BY <1>6 DEF TouchAudit, At
  <2>2. CASE request[r].op = "return"
    <3>1. pc'[r] = "commit"
          /\ ins'[r] = [req : {request[r].req}, node : {next[r]}, user : assignees[r]]
      BY <1>1, <1>6, <2>2 DEF TouchAudit, Goto, TypeOK
    <3>2. OnePlace(ins'[r])
      BY <1>1, <2>1, <3>1 DEF KnowsPlace, OnePlace
    <3> QED
      BY <1>1, <1>2, <2>1, <3>1, <3>2 DEF KnowsPlace, OnePlace
  <2>3. CASE request[r].op # "return"
    <3>1. pc'[r] = "evaluate"
      BY <1>1, <1>6, <2>3 DEF TouchAudit, Goto, TypeOK
    <3> QED
      BY <1>1, <1>2, <2>1, <3>1 DEF KnowsPlace
  <2> QED
    BY <2>2, <2>3
<1> QED
  BY <1>3, <1>4, <1>5, <1>6

\* The decision: items of the next step, and no others.
LEMMA PlaceChosen ==
    ASSUME OneByOneModel, PlaceInv, NEW r \in Session,
           StageWaits(r) \/ StageExits(r) \/ Advance(r)
    PROVE  workItems' = workItems /\ KnowsPlace(r)'
<1>1. TypeOK /\ KnowsPlace(r) /\ pc[r] = "evaluate" /\ NodeOf(r) \in Node /\ next[r] \in Node
  BY RequestType DEF PlaceInv, OneByOneInv, StageWaits, StageExits, Advance, At
<1>2. Advance(r)
  BY <1>1 DEF StageWaits, StageExits, OneByOneModel
<1>3. PICK what : Decide(r, what, TargetItems(r)) \/ Decide(r, what, {})
  BY <1>2 DEF Advance
<1>4. /\ pc'[r] = "commit" /\ request' = request /\ workItems' = workItems
      /\ del[r] \subseteq del'[r]
      /\ ins'[r] = TargetItems(r) \/ ins'[r] = {}
  BY <1>1, <1>3 DEF Decide, Goto, db, TypeOK
<1>5. ~EntersStage(r)
  BY <1>1 DEF EntersStage, OneByOneModel
<1>6. TargetItems(r) = NewItems(r, next[r], Recipients(r, assignees[r]))
  BY <1>5 DEF TargetItems
<1>7. \A i \in TargetItems(r) : /\ i.node = next[r] /\ i.req = request[r].req
                               /\ i.user \in assignees[r]
                               /\ i = [req |-> request[r].req, node |-> next[r], user |-> i.user]
  BY <1>6 DEF NewItems, Recipients
<1>8. OnePlace(TargetItems(r))
  BY <1>1, <1>7 DEF KnowsPlace, OnePlace
<1>9. OnePlace(ins'[r])
  BY <1>4, <1>8 DEF OnePlace
<1> QED
  BY <1>1, <1>4, <1>9 DEF KnowsPlace, IsSigner, NodeOf, OnePlace

\* Every step keeps the invariant.
LEMMA PlaceStep ==
    ASSUME OneByOneModel, SentBySigners, OneCandidate, Alone, PlaceInv, [Next]_vars
    PROVE  PlaceInv'
<1>1. OneByOneInv' /\ TypeOK /\ TypeOK' /\ OnlyCandidates'
  BY OneByOneStep DEF PlaceInv, OneByOneInv
<1>2. CASE UNCHANGED vars
  BY <1>1, <1>2 DEF vars, db, planVars, txVars, PlaceInv, OnePlace, KnowsPlace, IsSigner, NodeOf
<1>3. ASSUME NEW r \in Session, StepOf(r) PROVE PlaceInv'
  <2>1. OnePlace(workItems) /\ KnowsPlace(r)
    BY DEF PlaceInv
  <2>2. ASSUME End(r) PROVE KnowsPlace(r)'
    BY <1>1, <2>2 DEF End, Goto, TypeOK, KnowsPlace
  <2>3. ASSUME Refuse(r) \/ AlreadyCompleted(r) \/ DeadlockVictim(r) \/ Fail(r)
        PROVE  KnowsPlace(r)' /\ workItems' = workItems
    BY <2>2, <2>3 DEF Refuse, AlreadyCompleted, DeadlockVictim, Fail, Rollback, db
  <2>4. ASSUME CommitForward(r) \/ CommitReturn(r)
        PROVE  KnowsPlace(r)' /\ OnePlace(workItems)'
    <3>1. pc[r] = "commit" /\ workItems' = (workItems \ del[r]) \cup ins[r] /\ End(r)
      BY <2>4 DEF CommitForward, CommitReturn, At
    <3>2. workItems' = ins[r] /\ OnePlace(ins[r])
      BY <2>1, <3>1 DEF KnowsPlace
    <3> QED
      BY <2>2, <3>1, <3>2 DEF OnePlace
  <2>5. KnowsPlace(r)' /\ OnePlace(workItems)'
    <3>1. workItems' = workItems => OnePlace(workItems)'
      BY <2>1 DEF OnePlace
    <3>2. CASE \/ Arrival(r) \/ ResetSigners(r) \/ CountSigners(r)
               \/ ResolveEnd(r) \/ ResolveChosen(r) \/ ResolveAutomatic(r)
      BY <1>1, <3>1, <3>2, PlaceKept
    <3>3. CASE MarkAndRemove(r) \/ RemoveOwn(r) \/ WipeDownstream(r) \/ TouchAudit(r)
      BY <3>1, <3>3, PlaceCleared
    <3>4. CASE StageWaits(r) \/ StageExits(r) \/ Advance(r)
      BY <3>1, <3>4, PlaceChosen
    <3> QED
      BY <1>3, <2>3, <2>4, <3>1, <3>2, <3>3, <3>4 DEF StepOf, Progress
  <2> QED
    BY <1>1, <2>5 DEF PlaceInv, Alone
<1> QED
  BY <1>2, <1>3 DEF Next, StepOf, Quiescent

\* The invariant holds of every behaviour.
LEMMA PlaceAlways ==
    ASSUME OneByOneModel, SentBySigners, OneCandidate, Alone
    PROVE  Spec => []PlaceInv
<1>1. Init => PlaceInv
  <2> SUFFICES ASSUME Init PROVE PlaceInv
    OBVIOUS
  <2>1. OneByOneInv
    BY OneByOneInit
  <2>2. OnePlace(workItems) /\ \A s \in Session : KnowsPlace(s)
    BY DEF Init, OnePlace, KnowsPlace
  <2> QED
    BY <2>1, <2>2 DEF PlaceInv
<1>2. PlaceInv /\ [Next]_vars => PlaceInv'
  BY PlaceStep
<1> QED
  BY <1>1, <1>2, PTL DEF Spec

\* setProcessor and returnWorkItemOutgoing, one request at a time: when signers
\* send a document back, to whatever step, nothing stays open elsewhere.  (The
\* items of the sender's own step are not wiped; with one signer there are none.)
THEOREM SentBackToOneStep ==
    ASSUME OneByOneModel, SentBySigners, OneCandidate, Alone
    PROVE  Spec => []OneRegion
<1>1. PlaceInv => OneRegion
  BY DEF PlaceInv, OnePlace, OneRegion
<1> QED
  BY <1>1, PlaceAlways, PTL

\* Likewise: after any number of returns nobody has two items of a step.
THEOREM NobodyAskedTwiceAfterReturn ==
    ASSUME OneByOneModel, SentBySigners, OneCandidate, Alone
    PROVE  Spec => []NoDuplicateAssignment
<1>1. PlaceInv => NoDuplicateAssignment
  <2> SUFFICES ASSUME PlaceInv, NEW i \in workItems, NEW j \in workItems,
                      i.node = j.node, i.user = j.user
               PROVE  i = j
    BY DEF NoDuplicateAssignment
  <2>1. i.req = j.req /\ i \in Item /\ j \in Item
    BY DEF PlaceInv, OnePlace, OneByOneInv, TypeOK
  <2> QED
    BY <2>1 DEF Item
<1> QED
  BY <1>1, PlaceAlways, PTL

----------------------------------------------------------------------------
(* Signatures after returns to the drafter, with one signer per step.        *)

\* Ranks of steps that follow one another from the draft to the end: a flow
\* leads one rank up, and a signer step has its rank for itself.
InLine(rank) ==
    /\ rank[Draft] = 0
    /\ \A f \in Flow : rank[f[2]] = rank[f[1]] + 1
    /\ \A m, n \in Node : TypeOf[m] # None /\ rank[m] = rank[n] => m = n
    /\ \A e \in EndEvent, n \in Node : TypeOf[n] # None => rank[n] < rank[e]

LineRank == CHOOSE rank \in [Node -> Nat] : InLine(rank)
Earlier(m, n) == LineRank[m] < LineRank[n]

\* Process models of signer steps in a line, each with a signer type of its
\* own, whatever returns they have.
LineModel ==
    /\ SkipNode = {}
    /\ \A n \in Node : ~InStage(n)
    /\ \E rank \in [Node -> Nat] : InLine(rank)
    /\ TypeOf[Draft] = None /\ Draft \notin EndEvent
    /\ \A n \in Node : n = Draft \/ n \in EndEvent \/ TypeOf[n] # None
    /\ \A m, n \in Node : TypeOf[m] # None /\ TypeOf[m] = TypeOf[n] => m = n

\* One signer is appointed, and one is chosen, at a time.
OneAppointed ==
    /\ \A T \in SignType : \A u, v \in InitialSigners[T] : u = v
    /\ \A c \in Choices : \A u, v \in c : u = v

\* Requests come in turn, or an item is not submitted while one processes it.
SubmittedOnce == Alone \/ ~Resubmit

OneSignerEach ==
    \A T \in SignType : \A u, v \in User :
        signers[T][u] # "absent" /\ signers[T][v] # "absent" => u = v

\* A return was completed after everything else the signers of type T did: the
\* next request for their step resets them.
Due(T) ==
    \E r \in audit :
        /\ r.ret /\ ~r.open
        /\ \A x \in audit :
             (x.from # None /\ TypeOf[x.from] = T /\ (~x.ret \/ x.open)) => x.id < r.id

\* A signature belongs to a step behind the document and is newer than the last
\* return, or to a step ahead and is due for a reset.
SignedInTime ==
    \A T \in SignType, u \in User : signers[T][u] = "signed" =>
        \E n \in Node :
            /\ TypeOf[n] = T
            /\ \/ <<T, u>> \in fresh /\ \A i \in workItems : Earlier(n, i.node)
               \/ Due(T) /\ \A i \in workItems : Earlier(i.node, n)

\* The newest row of the audit trail waits for the owner of the item.
Newest(i) ==
    \E r \in audit : r.receiver = i.user /\ \A x \in audit : x = r \/ x.id < r.id

\* The item the document waits at: its owner has not signed, everybody was
\* appointed before the document left the drafter.
WaitsInLine ==
    /\ \A i, j \in workItems : i = j
    /\ \A i \in workItems :
         /\ TypeOf[i.node] # None => signers[TypeOf[i.node]][i.user] = "pending"
         /\ i.node # Draft => EverySignerChosen(signers)
         /\ Newest(i)
    /\ docStatus \in EndEvent => workItems = {} /\ FreshSignatures
    /\ \A r \in audit : r.id <= auditId

Unsigned(sg, n) == TypeOf[n] # None => \A u \in User : sg[TypeOf[n]][u] # "signed"

\* What a forward request knows: the signers of its target are reset, its step
\* is over, everything it removes is everything there is.
HandsOn(s) ==
    LET n == NodeOf(s)
        t == TargetOf(s)
    IN
    /\ pc[s] # "wipe"
    /\ <<n, t>> \in Flow
    /\ EverySignerChosen(signers)
    /\ request[s].choice \in Choices \cup {{}}
    /\ pc[s] = "reset" => request[s].resets = TypesToReset(t)
    /\ pc[s] # "reset" => Unsigned(signers, t)
    /\ pc[s] \in {"count", "write", "audit", "evaluate", "commit"} =>
         /\ next[s] = t
         /\ t \in EndEvent => assignees[s] = {}
         /\ \A u, v \in assignees[s] : u = v
         /\ TypeOf[t] # None => \A u \in assignees[s] : signers[TypeOf[t]][u] = "pending"
    /\ pc[s] \in {"write", "audit", "evaluate", "commit"} => last[s]
    /\ pc[s] \in {"audit", "evaluate", "commit"} => mark[s] = MarkRows(s) /\ workItems \subseteq del[s]
    /\ pc[s] = "commit" =>
         /\ outcome[s] = "advance" /\ cover[s] = {}
         /\ ins[s] \subseteq NewItems(s, next[s], assignees[s])

\* What a return knows: where it goes and to whom.
SendsBack(s) ==
    /\ pc[s] \in {"write", "wipe", "audit", "commit"}
    /\ <<NodeOf(s), next[s]>> \in ReturnFlow
    /\ \E u \in User : assignees[s] = {u}
    /\ pc[s] # "write" => workItems \subseteq del[s]
    /\ pc[s] = "commit" => outcome[s] = "return" /\ ins[s] = NewItems(s, next[s], assignees[s])

FollowsLine(s) ==
    pc[s] # "idle" =>
        /\ request[s].item \in workItems
        /\ IF request[s].op = "forward" THEN HandsOn(s) ELSE SendsBack(s)

\* One item, hence one request, at a time.
OneActive == \A r, s \in Session : pc[r] # "idle" /\ pc[s] # "idle" => r = s

OnLine ==
    /\ OneActive
    /\ OneSignerEach
    /\ SignedInTime
    /\ WaitsInLine
    /\ \A s \in Session : FollowsLine(s)

LineInv == TypeOK /\ (Reworked \/ OnLine)

\* The ranks the model has.
LEMMA LineRankFacts ==
    ASSUME LineModel
    PROVE  LineRank \in [Node -> Nat] /\ InLine(LineRank)
BY DEF LineModel, LineRank

\* A flow leads to the step next in line.
LEMMA NextInLine ==
    ASSUME LineModel, NEW n \in Node, NEW t \in Node, <<n, t>> \in Flow
    PROVE  /\ Earlier(n, t) /\ n # t /\ t # Draft
           /\ TypeOf[t] # None => TypeOf[t] # TypeOf[n]
           /\ t \in EndEvent \/ TypeOf[t] # None
           /\ \A m \in Node : TypeOf[m] # None /\ Earlier(n, m) =>
                t \notin EndEvent /\ (m = t \/ Earlier(t, m))
           /\ \A m \in Node : TypeOf[m] # None /\ Earlier(m, n) => Earlier(m, t)
<1>1. /\ LineRank[n] \in Nat /\ LineRank[t] = LineRank[n] + 1 /\ LineRank[Draft] = 0
      /\ \A m \in Node : LineRank[m] \in Nat
      /\ \A m, k \in Node : TypeOf[m] # None /\ LineRank[m] = LineRank[k] => m = k
      /\ \A e \in EndEvent, m \in Node : TypeOf[m] # None => LineRank[m] < LineRank[e]
  <2>1. <<n, t>>[1] = n /\ <<n, t>>[2] = t
    OBVIOUS
  <2> QED
    BY <2>1, LineRankFacts DEF InLine
<1>2. Earlier(n, t) /\ n # t /\ t # Draft
  BY <1>1 DEF Earlier
<1>3. TypeOf[t] # None => TypeOf[t] # TypeOf[n]
  BY <1>2 DEF LineModel
<1>4. t \in EndEvent \/ TypeOf[t] # None
  BY <1>2 DEF LineModel
<1>5. ASSUME NEW m \in Node, TypeOf[m] # None, Earlier(n, m)
      PROVE  t \notin EndEvent /\ (m = t \/ Earlier(t, m))
  <2>1. LineRank[m] \in Nat /\ LineRank[t] <= LineRank[m]
    BY <1>1, <1>5 DEF Earlier
  <2>2. t \notin EndEvent
    BY <1>1, <1>5, <2>1
  <2>3. m = t \/ LineRank[m] # LineRank[t]
    BY <1>1, <1>5
  <2> QED
    BY <1>1, <2>1, <2>2, <2>3 DEF Earlier
<1>6. ASSUME NEW m \in Node, Earlier(m, n) PROVE Earlier(m, t)
  <2>1. LineRank[m] \in Nat
    BY <1>1
  <2> QED
    BY <1>1, <1>6, <2>1 DEF Earlier
<1> QED
  BY <1>2, <1>3, <1>4, <1>5, <1>6

\* A return that is due is one setProcessor resets signers for.
LEMMA DueNeedsReset ==
    ASSUME NEW T, Due(T)
    PROVE  NeedsReset(T)
BY DEF Due, NeedsReset

\* Whoever has signed the next step is reset before it is reached.
LEMMA ResetNextInLine ==
    ASSUME LineModel, TypeOK, SignedInTime, NEW i \in workItems, NEW t \in Node,
           <<i.node, t>> \in Flow, TypeOf[t] # None,
           NEW u \in User, signers[TypeOf[t]][u] = "signed"
    PROVE  TypeOf[t] \in TypesToReset(t)
<1> DEFINE T == TypeOf[t]
<1>1. T \in SignType /\ i.node \in Node
  BY ModelAssumption DEF TypeOK, Item
<1>2. PICK n \in Node :
        /\ TypeOf[n] = T
        /\ \/ \A j \in workItems : Earlier(n, j.node)
           \/ Due(T) /\ \A j \in workItems : Earlier(j.node, n)
  BY <1>1 DEF SignedInTime
<1>3. n = t
  BY <1>2 DEF LineModel
<1>4. Earlier(i.node, t)
  BY <1>1, NextInLine
<1>5. ~Earlier(t, i.node)
  <2>1. LineRank[t] \in Nat /\ LineRank[i.node] \in Nat
    BY <1>1, LineRankFacts
  <2> QED
    BY <1>4, <2>1 DEF Earlier
<1>6. NeedsReset(T)
  BY <1>2, <1>3, <1>5, DueNeedsReset
<1> QED
  BY <1>1, <1>6 DEF TypesToReset

\* No row of the audit trail is lost.
LEMMA RowsKept ==
    ASSUME TypeOK, NEW r \in Session, StepOf(r), NEW x \in audit
    PROVE  \E y \in audit' : y.from = x.from /\ y.to = x.to
<1>1. x \in AuditRow
  BY DEF TypeOK
<1>2. CASE audit' = audit
  BY <1>2
<1>3. CASE CommitForward(r)
  <2>1. ForwardUpdate(r) \subseteq audit'
    BY <1>3 DEF CommitForward
  <2> DEFINE y == [x EXCEPT !.open = FALSE, !.ret = FALSE]
             z == [x EXCEPT !.open = FALSE]
  <2>2. y.from = x.from /\ y.to = x.to /\ z.from = x.from /\ z.to = x.to
    BY <1>1 DEF AuditRow
  <2>3. x \in ForwardUpdate(r) \/ y \in ForwardUpdate(r) \/ z \in ForwardUpdate(r)
    BY DEF ForwardUpdate, Closed
  <2> QED
    BY <2>1, <2>2, <2>3
<1>4. CASE CommitReturn(r)
  <2>1. SentBack(r, x) \in audit'
    BY <1>4 DEF CommitReturn
  <2>2. SentBack(r, x).from = x.from /\ SentBack(r, x).to = x.to
    BY <1>1 DEF SentBack, AuditRow
  <2> QED
    BY <2>1, <2>2
<1> QED
  BY <1>2, <1>3, <1>4, OnlyCommitsWrite

\* Where a document was sent back to stays in its audit trail.
LEMMA ReworkedStays ==
    ASSUME TypeOK, Reworked, NEW r \in Session, StepOf(r)
    PROVE  Reworked'
BY RowsKept DEF Reworked

\* Statements after which nobody has signed who had not before.
LEMMA FewerSigned ==
    ASSUME SignedInTime,
           UNCHANGED <<workItems, audit, fresh>>,
           \A T \in SignType, u \in User :
             signers'[T][u] = "signed" => signers[T][u] = "signed"
    PROVE  SignedInTime'
<1>1. \A T : Due(T)' <=> Due(T)
  BY DEF Due
<1> QED
  BY <1>1 DEF SignedInTime

\* The reset of the signers of the next step.
LEMMA LineReset ==
    ASSUME LineModel, TypeOK, OnLine, NEW r \in Session, ResetSigners(r)
    PROVE  OneSignerEach' /\ SignedInTime' /\ WaitsInLine' /\ FollowsLine(r)'
<1> DEFINE i == request[r].item
           t == TargetOf(r)
<1>1. pc[r] = "reset" /\ pc'[r] = "resolve" /\ request' = request
      /\ UNCHANGED <<workItems, audit, auditId, docStatus, fresh>>
  BY DEF ResetSigners, At, Goto, TypeOK
<1>2. i \in workItems /\ request[r].op = "forward" /\ HandsOn(r)
  BY <1>1 DEF OnLine, FollowsLine, SendsBack
<1>3. <<i.node, t>> \in Flow /\ request[r].resets = TypesToReset(t) /\ EverySignerChosen(signers)
  BY <1>1, <1>2 DEF HandsOn, NodeOf
<1>4. \A T \in SignType, u \in User :
        /\ signers'[T][u] = "signed" => signers[T][u] = "signed" /\ T \notin TypesToReset(t)
        /\ signers'[T][u] = "absent" <=> signers[T][u] = "absent"
        /\ signers[T][u] = "pending" => signers'[T][u] = "pending"
  BY <1>3 DEF ResetSigners, TypeOK
<1>5. OneSignerEach'
  BY <1>4 DEF OnLine, OneSignerEach
<1>6. SignedInTime'
  BY <1>1, <1>4, FewerSigned DEF OnLine
<1>7. EverySignerChosen(signers')
  BY <1>3, <1>4, ModelAssumption DEF EverySignerChosen
<1>8. WaitsInLine'
  <2>1. \A j \in workItems : Newest(j)' <=> Newest(j)
    BY <1>1 DEF Newest
  <2>2. docStatus \notin EndEvent
    BY <1>2 DEF OnLine, WaitsInLine
  <2>3. \A j \in workItems : TypeOf[j.node] # None =>
          TypeOf[j.node] \in SignType /\ j.user \in User
    BY ModelAssumption DEF TypeOK, Item
  <2> QED
    BY <1>1, <1>4, <1>7, <2>1, <2>2, <2>3 DEF OnLine, WaitsInLine
<1>9. Unsigned(signers', t)
  <2> SUFFICES ASSUME TypeOf[t] # None, NEW u \in User, signers'[TypeOf[t]][u] = "signed"
               PROVE  FALSE
    BY DEF Unsigned
  <2>1. t \in Node
    BY RequestType DEF Request, TargetOf
  <2>2. TypeOf[t] \in SignType
    BY <2>1, ModelAssumption
  <2>3. signers[TypeOf[t]][u] = "signed" /\ TypeOf[t] \notin TypesToReset(t)
    BY <1>4, <2>2
  <2> QED
    BY <1>2, <1>3, <2>1, <2>3, ResetNextInLine DEF OnLine
<1>10. NodeOf(r)' = NodeOf(r) /\ TargetOf(r)' = t
  BY <1>1 DEF NodeOf, TargetOf
<1>11. HandsOn(r)'
  BY <1>1, <1>2, <1>3, <1>7, <1>9, <1>10 DEF HandsOn, NodeOf
<1> QED
  BY <1>1, <1>2, <1>5, <1>6, <1>8, <1>11 DEF FollowsLine

\* A client chooses the signer of the next step.
LEMMA LineChosen ==
    ASSUME LineModel, OneAppointed, TypeOK, OnLine, NEW r \in Session, ResolveChosen(r)
    PROVE  OneSignerEach' /\ SignedInTime' /\ WaitsInLine' /\ FollowsLine(r)'
<1> DEFINE i == request[r].item
           t == TargetOf(r)
           T == TypeOf[t]
           c == request[r].choice
           keep == PendingAt(t) # {} /\ c = {UserOf(r)}
<1>1. pc[r] = "resolve" /\ t \notin EndEvent /\ c # {} /\ c \subseteq Users(t)
  BY DEF ResolveChosen, At, LineModel, AfterSkipLane, TargetOf
<1>2. i \in workItems /\ request[r].op = "forward" /\ HandsOn(r)
  BY <1>1 DEF OnLine, FollowsLine, SendsBack
<1>3. /\ <<i.node, t>> \in Flow /\ EverySignerChosen(signers) /\ c \in Choices
      /\ Unsigned(signers, t) /\ t \in Node /\ i.node \in Node
  BY <1>1, <1>2, RequestType DEF HandsOn, NodeOf, Request, TargetOf
<1>4. T # None /\ T # TypeOf[i.node] /\ T \in SignType
  BY <1>1, <1>3, NextInLine, ModelAssumption
<1>5. /\ Plan(r, t, IF keep THEN PendingAt(t) ELSE c)
      /\ signers' = IF keep THEN signers ELSE [signers EXCEPT ![T] = Replaced(@, c)]
  BY <1>4 DEF ResolveChosen, LineModel, AfterSkipLane, TargetOf
<1>6. /\ pc'[r] = "count" /\ request' = request /\ next'[r] = t
      /\ assignees'[r] = IF keep THEN PendingAt(t) ELSE c
      /\ UNCHANGED <<workItems, audit, auditId, docStatus, fresh>>
  BY <1>5 DEF Plan, Goto, TypeOK
<1>7. \A u \in User : signers[T][u] # "signed"
  BY <1>3, <1>4 DEF Unsigned
<1>8. \A S \in SignType : S # T => signers'[S] = signers[S]
  BY <1>4, <1>5 DEF TypeOK
<1>9. keep \/ signers'[T] = Replaced(signers[T], c)
  BY <1>4, <1>5 DEF TypeOK
<1> HIDE DEF keep, c, t, T, i
<1>10. \A S \in SignType, u \in User :
         signers'[S][u] = "signed" => signers[S][u] = "signed"
  <2>1. \A u \in User : signers'[T][u] = "signed" => signers[T][u] = "signed"
    BY <1>5, <1>9 DEF Replaced
  <2> QED
    BY <1>8, <2>1
<1>11. Unsigned(signers', t)
  BY <1>4, <1>7, <1>10 DEF Unsigned, T
<1>12. OneSignerEach'
  <2> SUFFICES ASSUME NEW S \in SignType, NEW u \in User, NEW v \in User,
                      signers'[S][u] # "absent", signers'[S][v] # "absent"
               PROVE  u = v
    BY DEF OneSignerEach
  <2>1. CASE S # T \/ keep
    <3>1. signers'[S] = signers[S]
      BY <1>5, <1>8, <2>1
    <3> QED
      BY <3>1 DEF OnLine, OneSignerEach
  <2>2. CASE S = T /\ ~keep
    <3>1. u \in c /\ v \in c
      BY <1>7, <1>9, <2>2 DEF Replaced
    <3> QED
      BY <1>3, <3>1 DEF OneAppointed
  <2> QED
    BY <2>1, <2>2
<1>13. \A u \in assignees'[r] : u \in User /\ signers'[T][u] = "pending"
  <2>1. CASE keep
    BY <1>3, <1>4, <1>5, <1>6, <2>1 DEF PendingAt, PendingOf, T
  <2>2. CASE ~keep
    <3>1. \A u \in c : u \in User
      BY <1>1, <1>3, UsersType
    <3> QED
      BY <1>6, <1>7, <1>9, <2>2, <3>1 DEF Replaced
  <2> QED
    BY <2>1, <2>2
<1>14. \A u, v \in assignees'[r] : u = v
  BY <1>4, <1>12, <1>13 DEF OneSignerEach
<1>15. assignees'[r] # {}
  BY <1>1, <1>6 DEF keep
<1>16. EverySignerChosen(signers')
  <2>1. \E u \in User : signers'[T][u] # "absent"
    BY <1>13, <1>15
  <2> QED
    BY <1>3, <1>8, <2>1, ModelAssumption DEF EverySignerChosen
<1>17. SignedInTime'
  BY <1>6, <1>10, FewerSigned DEF OnLine
<1>18. WaitsInLine'
  <2>1. \A j \in workItems : Newest(j)' <=> Newest(j)
    BY <1>6 DEF Newest
  <2>2. docStatus \notin EndEvent
    BY <1>2 DEF OnLine, WaitsInLine
  <2>3. ASSUME NEW j \in workItems, TypeOf[j.node] # None
        PROVE  signers'[TypeOf[j.node]] = signers[TypeOf[j.node]]
    <3>1. j = i /\ TypeOf[j.node] \in SignType
      BY <1>2, <2>3, ModelAssumption DEF OnLine, WaitsInLine, TypeOK, Item
    <3> QED
      BY <1>4, <1>8, <3>1
  <2> QED
    BY <1>6, <1>16, <2>1, <2>2, <2>3 DEF OnLine, WaitsInLine
<1>19. NodeOf(r)' = NodeOf(r) /\ TargetOf(r)' = t
  BY <1>6 DEF NodeOf, TargetOf, t
<1>20. HandsOn(r)'
  <2>1. <<NodeOf(r), t>> \in Flow /\ request'[r].choice \in Choices \cup {{}} /\ t \notin EndEvent
    BY <1>1, <1>3, <1>6 DEF NodeOf, i, c
  <2>2. \A u \in assignees'[r] : signers'[TypeOf[t]][u] = "pending"
    BY <1>13 DEF T
  <2> QED
    BY <1>6, <1>11, <1>14, <1>16, <1>19, <2>1, <2>2 DEF HandsOn
<1>21. request'[r].item \in workItems' /\ request'[r].op = "forward"
  BY <1>2, <1>6 DEF i
<1> QED
  BY <1>12, <1>17, <1>18, <1>20, <1>21 DEF FollowsLine

\* Statements that change no table.
LEMMA LineTablesKept ==
    ASSUME OnLine, UNCHANGED <<workItems, signers, audit, auditId, docStatus, fresh>>
    PROVE  OneSignerEach' /\ SignedInTime' /\ WaitsInLine'
<1>1. \A T : Due(T)' <=> Due(T)
  BY DEF Due
<1>2. \A i : Newest(i)' <=> Newest(i)
  BY DEF Newest
<1>3. FreshSignatures' <=> FreshSignatures
  BY DEF FreshSignatures
<1> QED
  BY <1>1, <1>2, <1>3 DEF OnLine, OneSignerEach, SignedInTime, WaitsInLine

\* A request arrives.
LEMMA LineArrival ==
    ASSUME LineModel, TypeOK, OnLine, NEW r \in Session, NEW i \in workItems, NEW t \in Node,
           NEW c \in Choices \cup {{}}, ReadForward(r, i, t, c) \/ ReadReturn(r, i, t, c)
    PROVE  /\ OneSignerEach' /\ SignedInTime' /\ WaitsInLine' /\ FollowsLine(r)'
<1>1. UNCHANGED <<workItems, signers, audit, auditId, docStatus, fresh>>
  BY DEF ReadForward, ReadReturn, db
<1>2. CASE ReadForward(r, i, t, c)
  <2>1. /\ request'[r].op = "forward" /\ request'[r].item = i /\ request'[r].target = t
        /\ request'[r].choice = c /\ request'[r].resets = TypesToReset(t)
        /\ pc'[r] = IF TypesToReset(t) = {} THEN "resolve" ELSE "reset"
        /\ <<i.node, t>> \in Flow
    BY <1>2 DEF ReadForward, Goto, TypeOK
  <2>2. NodeOf(r)' = i.node /\ TargetOf(r)' = t
    BY <2>1 DEF NodeOf, TargetOf
  <2>3. EverySignerChosen(signers)
    <3>1. CASE i.node = Draft
      BY <1>2, <3>1 DEF ReadForward, SignersChosen, LineModel, EverySignerChosen
    <3>2. CASE i.node # Draft
      BY <3>2 DEF OnLine, WaitsInLine
    <3> QED
      BY <3>1, <3>2
  <2>4. TypesToReset(t)' = TypesToReset(t)
    BY <1>1 DEF TypesToReset, NeedsReset
  <2>5. TypesToReset(t) = {} => Unsigned(signers, t)
    <3> SUFFICES ASSUME TypesToReset(t) = {}, TypeOf[t] # None, NEW u \in User,
                        signers[TypeOf[t]][u] = "signed"
                 PROVE  FALSE
      BY DEF Unsigned
    <3> QED
      BY <2>1, ResetNextInLine DEF OnLine
  <2>6. HandsOn(r)'
    BY <1>1, <2>1, <2>2, <2>3, <2>4, <2>5 DEF HandsOn
  <2> QED
    BY <1>1, <2>1, <2>6, LineTablesKept DEF FollowsLine
<1>3. CASE ReadReturn(r, i, t, c)
  <2>1. /\ request'[r].op = "return" /\ request'[r].item = i
        /\ pc'[r] = "write" /\ next'[r] = t /\ <<i.node, t>> \in ReturnFlow
        /\ \E u \in User : assignees'[r] = {u}
    BY <1>3 DEF ReadReturn, Goto, TypeOK
  <2>2. NodeOf(r)' = i.node
    BY <2>1 DEF NodeOf
  <2>3. SendsBack(r)'
    BY <2>1, <2>2 DEF SendsBack
  <2> QED
    BY <1>1, <2>1, <2>3, LineTablesKept DEF FollowsLine
<1> QED
  BY <1>2, <1>3

\* The signer of the next step, or the end.
LEMMA LineResolve ==
    ASSUME LineModel, TypeOK, OnLine, NEW r \in Session, ResolveEnd(r) \/ ResolveAutomatic(r)
    PROVE  OneSignerEach' /\ SignedInTime' /\ WaitsInLine' /\ FollowsLine(r)'
<1> DEFINE t == TargetOf(r)
<1>1. pc[r] = "resolve"
  BY DEF ResolveEnd, ResolveAutomatic, At
<1>2. request[r].item \in workItems /\ request[r].op = "forward" /\ HandsOn(r)
  BY <1>1 DEF OnLine, FollowsLine, SendsBack
<1>3. /\ <<NodeOf(r), t>> \in Flow /\ EverySignerChosen(signers)
      /\ Unsigned(signers, t) /\ t \in Node /\ NodeOf(r) \in Node
  BY <1>1, <1>2, RequestType DEF HandsOn, Request, TargetOf
<1>4. t \notin EndEvent => TypeOf[t] # None
  BY <1>3, NextInLine
<1>5. TypeOf[t] # None => PendingAt(t) # {}
  <2> SUFFICES ASSUME TypeOf[t] # None PROVE PendingAt(t) # {}
    OBVIOUS
  <2>1. TypeOf[t] \in SignType
    BY <1>3, ModelAssumption
  <2>2. PICK u \in User : signers[TypeOf[t]][u] # "absent"
    BY <1>3 DEF EverySignerChosen
  <2>3. signers[TypeOf[t]][u] = "pending"
    BY <1>3, <2>1, <2>2 DEF Unsigned, TypeOK
  <2> QED
    BY <2>3 DEF PendingAt, PendingOf
<1>6. /\ Plan(r, t, IF t \in EndEvent THEN {} ELSE PendingAt(t)) /\ signers' = signers
  <2>1. CASE ResolveEnd(r)
    BY <2>1 DEF ResolveEnd, TargetOf
  <2>2. CASE ResolveAutomatic(r)
    <3>1. /\ t \notin EndEvent /\ AfterSkipLane(t) = t
          /\ Plan(r, Automatic(t), PendingAt(Automatic(t))) /\ signers' = signers
      BY <2>2 DEF ResolveAutomatic, AfterSkipLane, LineModel, TargetOf
    <3>2. Automatic(t) = t
      BY <1>4, <1>5, <3>1 DEF Automatic
    <3> QED
      BY <3>1, <3>2
  <2> QED
    BY <2>1, <2>2
<1>7. /\ pc'[r] = "count" /\ request' = request /\ next'[r] = t
      /\ assignees'[r] = IF t \in EndEvent THEN {} ELSE PendingAt(t)
      /\ UNCHANGED <<workItems, signers, audit, auditId, docStatus, fresh>>
  BY <1>6 DEF Plan, Goto, TypeOK
<1>8. NodeOf(r)' = NodeOf(r) /\ TargetOf(r)' = t
  BY <1>7 DEF NodeOf, TargetOf
<1>9. \A u, v \in PendingAt(t) : u = v /\ TypeOf[t] # None /\ signers[TypeOf[t]][u] = "pending"
  <2> SUFFICES ASSUME NEW u \in PendingAt(t), NEW v \in PendingAt(t)
               PROVE  u = v /\ TypeOf[t] # None /\ signers[TypeOf[t]][u] = "pending"
    OBVIOUS
  <2>1. /\ TypeOf[t] # None /\ u \in User /\ v \in User
        /\ signers[TypeOf[t]][u] = "pending" /\ signers[TypeOf[t]][v] = "pending"
    BY DEF PendingAt, PendingOf
  <2>2. TypeOf[t] \in SignType
    BY <1>3, <2>1, ModelAssumption
  <2> QED
    BY <2>1, <2>2 DEF OnLine, OneSignerEach
<1> HIDE DEF t
<1>10. HandsOn(r)'
  BY <1>2, <1>3, <1>7, <1>8, <1>9 DEF HandsOn
<1> QED
  BY <1>2, <1>7, <1>10, LineTablesKept DEF FollowsLine

\* The statements of a transaction that decide nothing.
LEMMA LineStatements ==
    ASSUME LineModel, TypeOK, OnLine, NEW r \in Session,
           \/ CountSigners(r) \/ MarkAndRemove(r) \/ TouchAudit(r)
           \/ RemoveOwn(r) \/ WipeDownstream(r)
    PROVE  OneSignerEach' /\ SignedInTime' /\ WaitsInLine' /\ FollowsLine(r)'
<1>1. /\ UNCHANGED <<workItems, signers, audit, auditId, docStatus, fresh, request, next, assignees>>
      /\ pc[r] # "idle"
  BY DEF CountSigners, MarkAndRemove, TouchAudit, RemoveOwn, WipeDownstream, db, planVars, At
<1>2. /\ request[r].item \in workItems
      /\ IF request[r].op = "forward" THEN HandsOn(r) ELSE SendsBack(r)
  BY <1>1 DEF OnLine, FollowsLine
<1>3. /\ NodeOf(r)' = NodeOf(r) /\ TargetOf(r)' = TargetOf(r)
      /\ MarkRows(r)' = MarkRows(r) /\ NewItems(r, next[r], assignees[r])' = NewItems(r, next[r], assignees[r])
  BY <1>1 DEF NodeOf, TargetOf, MarkRows, IsSigner, UserOf, PendingAt, PendingOf, NewItems
<1>4. OneSignerEach' /\ SignedInTime' /\ WaitsInLine'
  BY <1>1, LineTablesKept
<1>5. SUFFICES IF request[r].op = "forward" THEN HandsOn(r)' ELSE SendsBack(r)'
  BY <1>1, <1>2, <1>4 DEF FollowsLine
<1>6. \A i \in workItems : i = request[r].item
  BY <1>2 DEF OnLine, WaitsInLine
<1>7. NodeOf(r) \in Node /\ TargetOf(r) \in Node
  BY RequestType DEF Request, TargetOf
<1>8. CASE CountSigners(r)
  <2>1. pc[r] = "count" /\ pc'[r] = "write"
    BY <1>8 DEF CountSigners, At, Goto, TypeOK
  <2>2. request[r].op = "forward" /\ HandsOn(r)
    BY <1>2, <2>1 DEF SendsBack
  <2>3. \A u, v \in PendingAt(NodeOf(r)) : u = v
    BY <1>7, ModelAssumption DEF PendingAt, PendingOf, OnLine, OneSignerEach
  <2>4. Cardinality(PendingAt(NodeOf(r))) <= 1
    <3>1. CASE PendingAt(NodeOf(r)) = {}
      BY <3>1, FS_EmptySet
    <3>2. CASE PendingAt(NodeOf(r)) # {}
      <4>1. PICK u : u \in PendingAt(NodeOf(r))
        BY <3>2
      <4>2. PendingAt(NodeOf(r)) = {u}
        BY <2>3, <4>1
      <4>3. Cardinality({u}) = 1
        BY FS_Singleton
      <4> QED
        BY <4>2, <4>3
    <3> QED
      BY <3>1, <3>2
  <2>5. last'[r]
    BY <1>8, <2>4 DEF CountSigners, TypeOK
  <2> QED
    BY <1>1, <1>3, <2>1, <2>2, <2>5 DEF HandsOn
<1>9. CASE MarkAndRemove(r)
  <2>1. /\ pc[r] = "write" /\ pc'[r] = "audit" /\ request[r].op = "forward"
        /\ mark'[r] = MarkRows(r) /\ del'[r] = Removal(r) /\ last' = last
    BY <1>9 DEF MarkAndRemove, At, Goto, planVars, TypeOK
  <2>2. HandsOn(r) /\ <<NodeOf(r), TargetOf(r)>> \in Flow /\ next[r] = TargetOf(r) /\ last[r]
    BY <1>2, <2>1 DEF HandsOn
  <2>3. NodeDone(r)
    BY <1>7, <2>2, NextInLine DEF NodeDone
  <2>4. workItems \subseteq Removal(r)
    BY <1>6, <2>3 DEF Removal, ItemsAt, NodeOf
  <2> QED
    BY <1>1, <1>3, <2>1, <2>2, <2>4 DEF HandsOn
<1>10. CASE TouchAudit(r)
  <2>1. pc[r] = "audit" /\ UNCHANGED <<del, mark, cover, last>>
    BY <1>10 DEF TouchAudit, At, planVars
  <2>2. CASE request[r].op = "forward"
    <3>1. pc'[r] = "evaluate" /\ HandsOn(r)
      BY <1>2, <1>10, <2>2 DEF TouchAudit, Goto, TypeOK
    <3> QED
      BY <1>1, <1>3, <2>1, <2>2, <3>1 DEF HandsOn
  <2>3. CASE request[r].op # "forward"
    <3>1. request[r].op = "return"
      BY <2>3, RequestType DEF Request
    <3>2. /\ pc'[r] = "commit" /\ outcome'[r] = "return"
          /\ ins'[r] = [req : {request[r].req}, node : {next[r]}, user : assignees[r]]
      BY <1>10, <3>1 DEF TouchAudit, Goto, TypeOK
    <3> QED
      BY <1>1, <1>2, <1>3, <2>1, <2>3, <3>2 DEF SendsBack, NewItems
  <2> QED
    BY <2>2, <2>3
<1>11. CASE RemoveOwn(r)
  <2>1. /\ pc[r] = "write" /\ pc'[r] = "wipe" /\ request[r].op = "return"
        /\ del'[r] = {request[r].item}
    BY <1>11 DEF RemoveOwn, At, Goto, TypeOK
  <2> QED
    BY <1>1, <1>2, <1>3, <1>6, <2>1 DEF SendsBack
<1>12. CASE WipeDownstream(r)
  <2>1. pc[r] = "wipe" /\ pc'[r] = "audit" /\ del[r] \subseteq del'[r]
    BY <1>12 DEF WipeDownstream, At, Goto, TypeOK
  <2>2. request[r].op # "forward" /\ SendsBack(r)
    BY <1>2, <2>1 DEF HandsOn
  <2> QED
    BY <1>1, <1>3, <2>1, <2>2 DEF SendsBack
<1> QED
  BY <1>8, <1>9, <1>10, <1>11, <1>12

\* The decision: the step is handed to its signer.
LEMMA LineDecides ==
    ASSUME LineModel, TypeOK, OnLine, NEW r \in Session,
           StageWaits(r) \/ StageExits(r) \/ Advance(r)
    PROVE  OneSignerEach' /\ SignedInTime' /\ WaitsInLine' /\ FollowsLine(r)'
<1>1. pc[r] = "evaluate" /\ NodeOf(r) \in Node /\ next[r] \in Node /\ TargetOf(r) \in Node
  BY RequestType DEF StageWaits, StageExits, Advance, At, Request, TargetOf
<1>2. request[r].item \in workItems /\ request[r].op = "forward" /\ HandsOn(r)
  BY <1>1 DEF OnLine, FollowsLine, SendsBack
<1>3. /\ <<NodeOf(r), TargetOf(r)>> \in Flow /\ next[r] = TargetOf(r) /\ last[r]
  BY <1>1, <1>2 DEF HandsOn
<1>4. NodeDone(r)
  BY <1>1, <1>3, NextInLine DEF NodeDone
<1>5. Decide(r, "advance", TargetItems(r))
  BY <1>1, <1>4 DEF StageWaits, StageExits, Advance, LineModel
<1>6. Covered(r) = {}
  BY <1>1 DEF Covered, LineModel
<1>7. TargetItems(r) = NewItems(r, next[r], Recipients(r, assignees[r]))
  <2>1. ~EntersStage(r)
    BY <1>1 DEF EntersStage, LineModel
  <2> QED
    BY <2>1 DEF TargetItems
<1>8. TargetItems(r) \subseteq NewItems(r, next[r], assignees[r])
  BY <1>7 DEF NewItems, Recipients
<1>9. /\ UNCHANGED <<workItems, signers, audit, auditId, docStatus, fresh>>
      /\ UNCHANGED <<request, next, assignees, last, mark>>
      /\ pc'[r] = "commit" /\ cover'[r] = {} /\ del[r] \subseteq del'[r]
      /\ ins'[r] = TargetItems(r) /\ outcome'[r] = "advance"
  BY <1>5, <1>6 DEF Decide, Goto, db, planVars, TypeOK
<1>10. /\ NodeOf(r)' = NodeOf(r) /\ TargetOf(r)' = TargetOf(r)
       /\ MarkRows(r)' = MarkRows(r)
       /\ NewItems(r, next[r], assignees[r])' = NewItems(r, next[r], assignees[r])
  BY <1>9 DEF NodeOf, TargetOf, MarkRows, IsSigner, UserOf, PendingAt, PendingOf, NewItems
<1>11. HandsOn(r)'
  BY <1>1, <1>2, <1>8, <1>9, <1>10 DEF HandsOn
<1> QED
  BY <1>2, <1>9, <1>11, LineTablesKept DEF FollowsLine

\* What a signer hands on leaves the returns due that others have to answer.
LEMMA DueKept ==
    ASSUME TypeOK, \A x \in audit : x.id <= auditId, NEW r \in Session, CommitForward(r),
           NodeDone(r), cover[r] = {}, NEW T \in SignType, TypeOf[NodeOf(r)] # T, Due(T)
    PROVE  Due(T)'
<1>1. PICK m \in audit :
        /\ m.ret /\ ~m.open
        /\ \A x \in audit :
             (x.from # None /\ TypeOf[x.from] = T /\ (~x.ret \/ x.open)) => x.id < m.id
  BY DEF Due
<1>2. \A x \in audit : x \in AuditRow
  BY DEF TypeOK
<1> DEFINE mine == {x \in audit : x.to = NodeOf(r) /\ x.open}
<1>3. ForwardUpdate(r) = (audit \ mine) \cup Closed(mine)
  BY DEF ForwardUpdate, Closed
<1>4. m \in ForwardUpdate(r)
  BY <1>1, <1>3
<1>5. ASSUME NEW y \in ForwardUpdate(r), y.from # None, TypeOf[y.from] = T, ~y.ret \/ y.open
      PROVE  y.id < m.id
  <2>1. CASE y \in audit
    BY <1>1, <1>5, <2>1
  <2>2. CASE y \in Closed(mine)
    <3>1. PICK x \in mine : y = [x EXCEPT !.open = FALSE, !.ret = FALSE]
      BY <2>2 DEF Closed
    <3>2. x \in audit /\ x.open /\ y.from = x.from /\ y.id = x.id
      BY <1>2, <3>1 DEF AuditRow
    <3> QED
      BY <1>1, <1>5, <3>2
  <2> QED
    BY <1>3, <2>1, <2>2
<1>6. \A y \in audit' : y \in ForwardUpdate(r) \/ y.from = NodeOf(r)
  <2> DEFINE A == IF IsSigner(r)
                    THEN {Row(r, auditId + 1, NodeOf(r), NodeOf(r), None, FALSE, FALSE)} ELSE {}
             B == {Row(r, auditId + 2, NodeOf(r), i.node, i.user, FALSE, TRUE) : i \in ins[r]}
  <2>1. audit' = ForwardUpdate(r) \cup A \cup B
    BY DEF CommitForward
  <2>2. \A y \in A \cup B : y.from = NodeOf(r)
    BY DEF Row
  <2> QED
    BY <2>1, <2>2
<1>7. m \in audit'
  BY <1>4 DEF CommitForward
<1>8. \A y \in audit' : (y.from # None /\ TypeOf[y.from] = T /\ (~y.ret \/ y.open)) => y.id < m.id
  BY <1>5, <1>6
<1> QED
  BY <1>1, <1>7, <1>8 DEF Due

\* A return is due for all but the signers of the step that was sent back.
LEMMA DueAfterReturn ==
    ASSUME TypeOK, \A x \in audit : x.id <= auditId, NEW r \in Session, CommitReturn(r),
           Newest(request[r].item), NEW T \in SignType, TypeOf[NodeOf(r)] # T
    PROVE  Due(T)'
<1>1. PICK m \in audit : m.receiver = UserOf(r) /\ \A x \in audit : x = m \/ x.id < m.id
  BY DEF Newest, UserOf
<1>2. \A x \in audit : x \in AuditRow
  BY DEF TypeOK
<1> DEFINE w == SentBack(r, m)
           new == {Row(r, auditId + 1, NodeOf(r), next[r], u, TRUE, TRUE) : u \in assignees[r]}
<1>3. audit' = {SentBack(r, x) : x \in audit \cup new}
  BY DEF CommitReturn
<1>4. w \in audit' /\ w.ret /\ ~w.open /\ w.id = m.id
  BY <1>1, <1>2, <1>3 DEF SentBack, AuditRow
<1>5. \A x \in new : x.from = NodeOf(r) /\ SentBack(r, x).from = NodeOf(r)
  BY DEF Row, SentBack
<1>6. \A x \in audit : SentBack(r, x).id = x.id
  BY <1>2 DEF SentBack, AuditRow
<1>7. ASSUME NEW y \in audit', y.from # None, TypeOf[y.from] = T, ~y.ret \/ y.open
      PROVE  y.id < w.id
  <2>1. PICK x \in audit \cup new : y = SentBack(r, x)
    BY <1>3
  <2>2. x \in audit
    BY <1>5, <1>7, <2>1
  <2>3. x # m
    BY <1>4, <1>7, <2>1
  <2> QED
    BY <1>1, <1>4, <1>6, <2>1, <2>2, <2>3
<1> HIDE DEF w
<1> QED
  BY <1>4, <1>7 DEF Due

\* The row that puts a document before somebody is the newest of the trail.
LEMMA ForwardRowIsNewest ==
    ASSUME TypeOK, \A x \in audit : x.id <= auditId, NEW r \in Session, CommitForward(r),
           \A i, j \in ins[r] : i = j
    PROVE  /\ \A i \in ins[r] : Newest(i)'
           /\ \A x \in audit' : x.id <= auditId'
<1>1. \A x \in audit : x \in AuditRow /\ x.id \in Nat
  BY DEF TypeOK, AuditRow
<1>2. auditId \in Nat /\ auditId' = auditId + 2
  BY DEF TypeOK, CommitForward
<1> DEFINE A == IF IsSigner(r)
                  THEN {Row(r, auditId + 1, NodeOf(r), NodeOf(r), None, FALSE, FALSE)} ELSE {}
           B == {Row(r, auditId + 2, NodeOf(r), i.node, i.user, FALSE, TRUE) : i \in ins[r]}
<1>3. audit' = ForwardUpdate(r) \cup A \cup B
  BY DEF CommitForward
<1>4. \A y \in ForwardUpdate(r) : \E x \in audit : y.id = x.id
  <2>1. \A x \in audit : /\ [x EXCEPT !.open = FALSE].id = x.id
                         /\ [x EXCEPT !.open = FALSE, !.ret = FALSE].id = x.id
    BY <1>1 DEF AuditRow
  <2> QED
    BY <2>1 DEF ForwardUpdate, Closed
<1>5. \A y \in ForwardUpdate(r) \cup A : y.id \in Nat /\ y.id < auditId + 2
  <2>1. \A y \in ForwardUpdate(r) : y.id \in Nat /\ y.id < auditId + 2
    BY <1>1, <1>2, <1>4
  <2>2. \A y \in A : y.id = auditId + 1
    BY DEF Row
  <2> HIDE DEF A
  <2> QED
    BY <1>2, <2>1, <2>2
<1>6. \A y \in B : y.id = auditId + 2
  BY DEF Row
<1>7. ASSUME NEW i \in ins[r] PROVE Newest(i)'
  <2> DEFINE m == Row(r, auditId + 2, NodeOf(r), i.node, i.user, FALSE, TRUE)
  <2>1. B = {m}
    OBVIOUS
  <2>2. m \in audit' /\ m.receiver = i.user /\ m.id = auditId + 2
    BY <1>3, <2>1 DEF Row
  <2>3. \A y \in audit' : y = m \/ y.id < m.id
    <3> HIDE DEF m, A
    <3>1. ASSUME NEW y \in audit', y # m PROVE y.id < m.id
      BY <1>3, <1>5, <2>1, <2>2, <3>1
    <3> QED
      BY <3>1
  <2> HIDE DEF m
  <2> QED
    BY <2>2, <2>3 DEF Newest
<1> HIDE DEF A, B
<1>8. \A x \in audit' : x.id <= auditId'
  BY <1>2, <1>3, <1>5, <1>6
<1> QED
  BY <1>7, <1>8

\* Likewise when a document is sent back.
LEMMA ReturnRowIsNewest ==
    ASSUME TypeOK, \A x \in audit : x.id <= auditId, NEW r \in Session, CommitReturn(r),
           NEW u \in User, assignees[r] = {u}
    PROVE  /\ \A i : i.user = u => Newest(i)'
           /\ \A x \in audit' : x.id <= auditId'
<1>1. \A x \in audit : x \in AuditRow /\ x.id \in Nat
  BY DEF TypeOK, AuditRow
<1>2. auditId \in Nat /\ auditId' = auditId + 2
  BY DEF TypeOK, CommitReturn
<1> DEFINE n == Row(r, auditId + 1, NodeOf(r), next[r], u, TRUE, TRUE)
           m == SentBack(r, n)
<1>3. audit' = {SentBack(r, x) : x \in audit \cup {n}}
  BY DEF CommitReturn
<1>4. \A x \in audit : SentBack(r, x).id = x.id
  BY <1>1 DEF SentBack, AuditRow
<1>5. m \in audit' /\ m.receiver = u /\ m.id = auditId + 1
  BY <1>3 DEF SentBack, Row
<1>6. \A y \in audit' : y = m \/ (y.id \in Nat /\ y.id <= auditId)
  BY <1>1, <1>3, <1>4
<1> HIDE DEF m
<1> QED
  BY <1>2, <1>5, <1>6 DEF Newest

\* The commit of a step that was handed on.
LEMMA LineCommits ==
    ASSUME LineModel, TypeOK, OnLine, NEW r \in Session, CommitForward(r)
    PROVE  OneSignerEach' /\ SignedInTime' /\ WaitsInLine'
<1> DEFINE n == NodeOf(r)
           t == TargetOf(r)
<1>1. pc[r] = "commit" /\ outcome[r] # "return"
  BY DEF CommitForward, At
<1>2. request[r].item \in workItems /\ request[r].op = "forward" /\ HandsOn(r)
  BY <1>1 DEF OnLine, FollowsLine, SendsBack
<1>3. /\ <<n, t>> \in Flow /\ next[r] = t /\ n \in Node /\ t \in Node
      /\ EverySignerChosen(signers) /\ Unsigned(signers, t) /\ last[r]
      /\ mark[r] = MarkRows(r) /\ cover[r] = {} /\ outcome[r] = "advance"
      /\ ins[r] \subseteq NewItems(r, t, assignees[r])
      /\ \A u, v \in assignees[r] : u = v
      /\ t \in EndEvent => assignees[r] = {}
      /\ TypeOf[t] # None => \A u \in assignees[r] : signers[TypeOf[t]][u] = "pending"
  BY <1>1, <1>2, RequestType DEF HandsOn, Request, TargetOf
<1>4. \A i \in workItems : i.node = n /\ i.user = UserOf(r)
  BY <1>2 DEF OnLine, WaitsInLine, NodeOf, UserOf
<1>5. workItems' = ins[r]
  <2>1. workItems \subseteq del[r]
    BY <1>1, <1>2 DEF HandsOn
  <2> QED
    BY <2>1 DEF CommitForward
<1>6. \A i \in ins[r] : i.node = t /\ i.user \in assignees[r]
                        /\ i = [req |-> request[r].req, node |-> t, user |-> i.user]
  BY <1>3 DEF NewItems
<1>7. \A i, j \in ins[r] : i = j
  BY <1>3, <1>6
<1>8. NodeDone(r)
  BY <1>3, NextInLine DEF NodeDone
<1>9. \A p \in mark[r] : TypeOf[n] # None /\ p = <<TypeOf[n], UserOf(r)>>
                         /\ UserOf(r) \in PendingAt(n)
  BY <1>3 DEF MarkRows, IsSigner
<1>10. \A T \in SignType, u \in User :
         /\ <<T, u>> \in mark[r] => signers'[T][u] = "signed"
         /\ <<T, u>> \notin mark[r] => signers'[T][u] = signers[T][u]
  BY DEF CommitForward
<1>11. \A T \in SignType, u \in User : signers'[T][u] # "absent" <=> signers[T][u] # "absent"
  <2>1. \A T \in SignType, u \in User : <<T, u>> \in mark[r] => signers[T][u] = "pending"
    BY <1>9 DEF PendingAt, PendingOf
  <2> QED
    BY <1>10, <2>1
<1>12. OneSignerEach'
  BY <1>11 DEF OnLine, OneSignerEach
<1>13. fresh' = fresh \cup mark[r]
  BY DEF CommitForward
<1>14. /\ \A x \in audit : x.id <= auditId
       /\ Earlier(n, t)
       /\ TypeOf[t] # None => TypeOf[t] # TypeOf[n]
       /\ t \in EndEvent \/ TypeOf[t] # None
       /\ t # Draft
  BY <1>3, NextInLine DEF OnLine, WaitsInLine
<1>15. ASSUME NEW T \in SignType, NEW u \in User, signers'[T][u] = "signed"
       PROVE  \E k \in Node :
                /\ TypeOf[k] = T
                /\ \/ <<T, u>> \in fresh' /\ Earlier(k, t)
                   \/ Due(T)' /\ Earlier(t, k) /\ t \notin EndEvent
  <2>1. CASE <<T, u>> \in mark[r]
    <3>1. TypeOf[n] = T
      BY <1>9, <2>1
    <3> QED
      BY <1>3, <1>13, <1>14, <2>1, <3>1
  <2>2. CASE <<T, u>> \notin mark[r]
    <3>1. signers[T][u] = "signed"
      BY <1>10, <1>15, <2>2
    <3>2. PICK k \in Node :
            /\ TypeOf[k] = T
            /\ \/ <<T, u>> \in fresh /\ Earlier(k, n)
               \/ Due(T) /\ Earlier(n, k)
      BY <1>2, <3>1 DEF OnLine, SignedInTime, NodeOf
    <3>3. TypeOf[k] # None
      BY <3>2, ModelAssumption
    <3>4. CASE <<T, u>> \in fresh /\ Earlier(k, n)
      <4>1. Earlier(k, t)
        BY <1>3, <3>3, <3>4, NextInLine
      <4> QED
        BY <1>13, <3>2, <3>4, <4>1
    <3>5. CASE Due(T) /\ Earlier(n, k)
      <4>1. k # t
        BY <1>3, <3>1, <3>2, <3>3 DEF Unsigned
      <4>2. t \notin EndEvent /\ Earlier(t, k)
        BY <1>3, <3>3, <3>5, <4>1, NextInLine
      <4>3. TypeOf[n] # T
        <5>1. n = k => FALSE
          BY <3>5, LineRankFacts DEF Earlier
        <5> QED
          BY <1>3, <3>2, <3>3, <5>1 DEF LineModel
      <4>4. Due(T)'
        BY <1>3, <1>8, <1>14, <3>5, <4>3, DueKept
      <4> QED
        BY <3>2, <4>2, <4>4
    <3> QED
      BY <3>2, <3>4, <3>5
  <2> QED
    BY <2>1, <2>2
<1>16. SignedInTime'
  BY <1>5, <1>6, <1>15, ZenonT(60) DEF SignedInTime
<1>17. WaitsInLine'
  <2>1. EverySignerChosen(signers')
    BY <1>3, <1>11, ModelAssumption DEF EverySignerChosen
  <2>2. ASSUME NEW i \in ins[r], TypeOf[i.node] # None
        PROVE  signers'[TypeOf[i.node]][i.user] = "pending"
    <3>1. TypeOf[t] \in SignType /\ i.user \in User /\ TypeOf[t] # None
      BY <1>3, <1>6, <2>2, ModelAssumption DEF TypeOK
    <3>2. signers[TypeOf[t]][i.user] = "pending"
      BY <1>3, <1>6, <3>1
    <3>3. <<TypeOf[t], i.user>> \notin mark[r]
      BY <1>9, <1>14, <3>1
    <3> QED
      BY <1>6, <1>10, <3>1, <3>2, <3>3
  <2>3. /\ \A i \in ins[r] : Newest(i)'
        /\ \A x \in audit' : x.id <= auditId'
    BY <1>7, <1>14, ForwardRowIsNewest
  <2>4. docStatus' = t
    BY <1>3 DEF CommitForward
  <2>5. ASSUME t \in EndEvent PROVE ins[r] = {} /\ FreshSignatures'
    <3>1. ins[r] = {}
      BY <1>3, <1>6, <2>5
    <3>2. \A T \in SignType, u \in User : signers'[T][u] = "signed" => <<T, u>> \in fresh'
      BY <1>15, <2>5
    <3> QED
      BY <3>1, <3>2 DEF FreshSignatures
  <2> QED
    BY <1>5, <1>7, <2>1, <2>2, <2>3, <2>4, <2>5 DEF WaitsInLine
<1> QED
  BY <1>12, <1>16, <1>17

\* The commit of a return to the drafter, or to a step between.
LEMMA LineReturns ==
    ASSUME LineModel, TypeOK, OnLine, NEW r \in Session, CommitReturn(r)
    PROVE  Reworked' \/ (OneSignerEach' /\ SignedInTime' /\ WaitsInLine')
<1> DEFINE n == NodeOf(r)
           t == next[r]
<1>1. pc[r] = "commit" /\ outcome[r] = "return"
  BY DEF CommitReturn, At
<1>2. request[r].item \in workItems /\ SendsBack(r)
  BY <1>1 DEF OnLine, FollowsLine, HandsOn
<1>3. PICK v \in User : assignees[r] = {v}
  BY <1>2 DEF SendsBack
<1>4. /\ <<n, t>> \in ReturnFlow /\ n \in Node /\ t \in Node
      /\ ins[r] = NewItems(r, t, {v}) /\ workItems \subseteq del[r]
  BY <1>1, <1>2, <1>3, RequestType DEF SendsBack
<1>5. CASE t # Draft
  <2> DEFINE x == Row(r, auditId + 1, n, t, v, TRUE, TRUE)
             y == SentBack(r, x)
  <2>1. y \in audit'
    BY <1>3 DEF CommitReturn
  <2>2. y.from = n /\ y.to = t
    BY DEF SentBack, Row
  <2> HIDE DEF y
  <2> QED
    BY <1>4, <1>5, <2>1, <2>2 DEF Reworked
<1>6. CASE t = Draft
  <2>1. workItems' = NewItems(r, Draft, {v}) /\ docStatus' = Draft /\ signers' = signers
    BY <1>4, <1>6 DEF CommitReturn
  <2>2. \A i \in workItems' : i = [req |-> request[r].req, node |-> Draft, user |-> v]
    BY <2>1 DEF NewItems
  <2>3. \A i \in workItems' : i.node = Draft /\ i.user = v
    BY <2>2
  <2>4. \A x \in audit : x.id <= auditId
    BY DEF OnLine, WaitsInLine
  <2>5. OneSignerEach'
    BY <2>1 DEF OnLine, OneSignerEach
  <2>6. SignedInTime'
    <3> SUFFICES ASSUME NEW T \in SignType, NEW u \in User, signers[T][u] = "signed"
                 PROVE  \E k \in Node : TypeOf[k] = T /\ Due(T)' /\ Earlier(Draft, k)
      BY <2>1, <2>3 DEF SignedInTime
    <3>1. PICK k \in Node : TypeOf[k] = T
      BY DEF OnLine, SignedInTime
    <3>2. TypeOf[k] # None
      BY <3>1, ModelAssumption
    <3>3. Earlier(Draft, k)
      <4>1. k # Draft /\ Draft \in Node
        BY <3>2, WorkflowAssumption DEF LineModel
      <4>2. /\ LineRank[k] \in Nat /\ LineRank[Draft] = 0
            /\ \A m \in Node : LineRank[k] = LineRank[m] => k = m
        BY <3>2, LineRankFacts DEF InLine
      <4> QED
        BY <4>1, <4>2 DEF Earlier
    <3>4. TypeOf[n] # T
      <4> SUFFICES ASSUME TypeOf[n] = T PROVE FALSE
        OBVIOUS
      <4>1. signers[T][UserOf(r)] = "pending"
        BY <1>2, <3>1, <3>2 DEF OnLine, WaitsInLine, NodeOf, UserOf
      <4>2. UserOf(r) = u
        BY <4>1, RequestType DEF OnLine, OneSignerEach
      <4> QED
        BY <4>1, <4>2
    <3>5. Newest(request[r].item)
      BY <1>2 DEF OnLine, WaitsInLine
    <3>6. Due(T)'
      BY <2>4, <3>4, <3>5, DueAfterReturn
    <3> QED
      BY <3>1, <3>3, <3>6
  <2>7. WaitsInLine'
    <3>1. \A i, j \in workItems' : i = j
      BY <2>2
    <3>2. ASSUME NEW i \in workItems' PROVE Newest(i)'
      BY <1>3, <2>3, <2>4, ReturnRowIsNewest
    <3>3. \A x \in audit' : x.id <= auditId'
      BY <1>3, <2>4, ReturnRowIsNewest
    <3>4. TypeOf[Draft] = None /\ Draft \notin EndEvent
      BY DEF LineModel
    <3> QED
      BY <2>1, <2>3, <3>1, <3>2, <3>3, <3>4 DEF WaitsInLine
  <2> QED
    BY <2>5, <2>6, <2>7
<1> QED
  BY <1>5, <1>6

\* Who takes a step finds no other request in flight.
LEMMA OthersIdle ==
    ASSUME SubmittedOnce, OnLine, NEW r \in Session, StepOf(r), NEW s \in Session, s # r
    PROVE  pc[s] = "idle"
<1>1. SUFFICES ASSUME pc[s] # "idle", ~Resubmit PROVE FALSE
  BY DEF SubmittedOnce, Alone
<1>2. pc[r] = "idle"
  BY <1>1 DEF OnLine, OneActive
<1>3. Arrival(r)
  <2>1. ~Deadlocked(r)
    <3>1. ItemRows(r) = {} /\ SignerRows(r) = {} /\ ~NeedsDocLock(r)
      BY <1>2 DEF ItemRows, SignerRows, NeedsDocLock
    <3>2. WaitsFor(r) = {}
      BY <3>1 DEF WaitsFor
    <3> QED
      BY <3>2 DEF Deadlocked
  <2> QED
    BY <1>2, <2>1 DEF StepOf, Progress, Fail, DeadlockVictim, At, ResetSigners, ResolveEnd,
       ResolveChosen, ResolveAutomatic, Refuse, CountSigners, MarkAndRemove, AlreadyCompleted,
       TouchAudit, StageWaits, StageExits, Advance, CommitForward, RemoveOwn, WipeDownstream,
       CommitReturn
<1>4. PICK i \in workItems : Submittable(r, i)
  BY <1>3 DEF Arrival, ReadForward, ReadReturn
<1>5. request[s].item = i
  BY <1>1 DEF OnLine, FollowsLine, WaitsInLine
<1> QED
  BY <1>1, <1>4, <1>5 DEF Submittable

\* Every step keeps the invariant.
LEMMA LineStep ==
    ASSUME LineModel, OneAppointed, SubmittedOnce, LineInv, [Next]_vars
    PROVE  LineInv'
<1>1. TypeOK /\ TypeOK'
  BY TypeStep DEF LineInv
<1>2. CASE UNCHANGED vars
  <2>1. /\ UNCHANGED <<workItems, signers, audit, auditId, docStatus, fresh, pc, request, next,
                       assignees, last, del, mark, ins, cover, outcome>>
    BY <1>2 DEF vars, db, planVars, txVars
  <2>2. Reworked => Reworked'
    BY <2>1 DEF Reworked
  <2>3. ASSUME OnLine, NEW s \in Session PROVE FollowsLine(s)'
    <3>1. /\ NodeOf(s)' = NodeOf(s) /\ TargetOf(s)' = TargetOf(s)
          /\ MarkRows(s)' = MarkRows(s)
          /\ NewItems(s, next[s], assignees[s])' = NewItems(s, next[s], assignees[s])
      BY <2>1 DEF NodeOf, TargetOf, MarkRows, IsSigner, UserOf, PendingAt, PendingOf, NewItems
    <3>2. TypesToReset(TargetOf(s))' = TypesToReset(TargetOf(s))
      BY <2>1, <3>1 DEF TypesToReset, NeedsReset
    <3>3. HandsOn(s)' <=> HandsOn(s)
      BY <2>1, <3>1, <3>2 DEF HandsOn
    <3>4. SendsBack(s)' <=> SendsBack(s)
      BY <2>1, <3>1 DEF SendsBack
    <3>5. FollowsLine(s)
      BY <2>3 DEF OnLine
    <3> QED
      BY <2>1, <3>3, <3>4, <3>5 DEF FollowsLine
  <2>4. OnLine => OnLine'
    BY <2>1, <2>3, LineTablesKept DEF OnLine, OneActive
  <2> QED
    BY <1>1, <2>2, <2>4 DEF LineInv
<1>3. ASSUME NEW r \in Session, StepOf(r) PROVE LineInv'
  <2>1. CASE Reworked
    BY <1>1, <1>3, <2>1, ReworkedStays DEF LineInv
  <2>2. CASE OnLine
    <3>1. ASSUME End(r) PROVE FollowsLine(r)'
      BY <1>1, <3>1 DEF End, Goto, TypeOK, FollowsLine
    <3>a. \A s \in Session \ {r} : pc'[s] = "idle"
      BY <1>1, <1>3, <2>2, OthersIdle, StepUntouched DEF Untouched
    <3>b. OneActive' /\ \A s \in Session \ {r} : FollowsLine(s)'
      BY <3>a DEF OneActive, FollowsLine
    <3>2. SUFFICES Reworked' \/ (/\ OneSignerEach' /\ SignedInTime' /\ WaitsInLine'
                                 /\ FollowsLine(r)')
      BY <1>1, <3>b DEF LineInv, OnLine
    <3>3. CASE Arrival(r)
      BY <1>1, <2>2, <3>3, LineArrival DEF Arrival
    <3>4. CASE ResetSigners(r)
      BY <1>1, <2>2, <3>4, LineReset
    <3>5. CASE ResolveChosen(r)
      BY <1>1, <2>2, <3>5, LineChosen
    <3>6. CASE ResolveEnd(r) \/ ResolveAutomatic(r)
      BY <1>1, <2>2, <3>6, LineResolve
    <3>7. CASE \/ CountSigners(r) \/ MarkAndRemove(r) \/ TouchAudit(r)
               \/ RemoveOwn(r) \/ WipeDownstream(r)
      BY <1>1, <2>2, <3>7, LineStatements
    <3>8. CASE StageWaits(r) \/ StageExits(r) \/ Advance(r)
      BY <1>1, <2>2, <3>8, LineDecides
    <3>9. CASE Refuse(r) \/ AlreadyCompleted(r) \/ DeadlockVictim(r) \/ Fail(r)
      <4>1. Rollback(r)
        BY <3>9 DEF Refuse, AlreadyCompleted, DeadlockVictim, Fail
      <4> QED
        BY <2>2, <3>1, <4>1, LineTablesKept DEF Rollback, db
    <3>10. CASE CommitForward(r)
      BY <1>1, <2>2, <3>1, <3>10, LineCommits DEF CommitForward
    <3>11. CASE CommitReturn(r)
      BY <1>1, <2>2, <3>1, <3>11, LineReturns DEF CommitReturn
    <3> QED
      BY <1>3, <3>3, <3>4, <3>5, <3>6, <3>7, <3>8, <3>9, <3>10, <3>11 DEF StepOf, Progress
  <2> QED
    BY <2>1, <2>2 DEF LineInv
<1> QED
  BY <1>2, <1>3 DEF Next, StepOf, Quiescent

\* It holds at the start.
LEMMA LineInit ==
    ASSUME LineModel, OneAppointed, Init
    PROVE  LineInv
<1>1. TypeOK
  BY TypeInit
<1>2. OneSignerEach /\ SignedInTime
  BY DEF Init, OneAppointed, OneSignerEach, SignedInTime
<1>3. WaitsInLine
  <2>1. \A i \in workItems : i.node = Draft /\ i.user = Drafter
    BY DEF Init
  <2>2. \A i \in workItems : Newest(i)
    BY <2>1 DEF Init, Newest
  <2> QED
    BY <2>1, <2>2 DEF Init, WaitsInLine, LineModel
<1>4. \A s \in Session : FollowsLine(s)
  BY DEF Init, FollowsLine
<1>5. OneActive
  BY DEF Init, OneActive
<1> QED
  BY <1>1, <1>2, <1>3, <1>4, <1>5 DEF LineInv, OnLine

\* The invariant holds of every behaviour.
LEMMA LineAlways ==
    ASSUME LineModel, OneAppointed, SubmittedOnce
    PROVE  Spec => []LineInv
<1>1. Init => LineInv
  BY LineInit
<1>2. LineInv /\ [Next]_vars => LineInv'
  BY LineStep
<1> QED
  BY <1>1, <1>2, PTL DEF Spec

\* resetSignersForReturnedCycle, for signer steps in a line, whatever fails and
\* whoever acts, unless an item is submitted twice at once: until a document is sent back to a step behind the drafter's, when it
\* is finished nobody's signature is older than its last return.
THEOREM SignedSinceReturn ==
    ASSUME LineModel, OneAppointed, SubmittedOnce
    PROVE  Spec => []FreshUntilRework
<1>1. LineInv => FreshUntilRework
  BY DEF LineInv, OnLine, WaitsInLine, FreshUntilRework, FreshSignatures
<1> QED
  BY <1>1, LineAlways, PTL

\* setProcessor, likewise: a signer step is put before nobody but its signers,
\* also when clients replace the ones who have not signed.
THEOREM AskedAfterReturn ==
    ASSUME LineModel, OneAppointed, SubmittedOnce
    PROVE  Spec => []SelectedUntilRework
<1>1. LineInv => SelectedUntilRework
  <2> SUFFICES ASSUME LineInv, ~Reworked, NEW i \in workItems, TypeOf[i.node] # None
               PROVE  signers[TypeOf[i.node]][i.user] # "absent"
    BY DEF SelectedUntilRework, OnlySelectedSigners
  <2>1. signers[TypeOf[i.node]][i.user] = "pending"
    BY DEF LineInv, OnLine, WaitsInLine
  <2> QED
    BY <2>1
<1> QED
  BY <1>1, LineAlways, PTL

----------------------------------------------------------------------------
(* Stages whose steps have one signer each, signed at once: who has signed.  *)

\* No lane is passed over; the draft is not signed.
PlainModel == SkipNode = {} /\ TypeOf[Draft] = None

\* u is a signer of n, or n is signed already.
AnswersIn(sg, n, u) ==
    TypeOf[n] # None => \/ sg[TypeOf[n]][u] # "absent"
                        \/ \E v \in User : sg[TypeOf[n]][v] = "signed"
Answers(n, u) == AnswersIn(signers, n, u)

\* Whoever is to sign at the step of a request signs with it.
SignsForAll(s) == \A u \in PendingAt(NodeOf(s)) : <<TypeOf[NodeOf(s)], u>> \in mark[s]

\* A request that goes forward does so for somebody who can sign, and asks such;
\* one that sends back follows a return flow, to somebody.
AsksAnswering(s) ==
    /\ request[s].op = "forward" =>
         /\ pc[s] # "idle" =>
              /\ pc[s] \notin {"reset", "wipe"} /\ request[s].choice \in Choices \cup {{}}
              /\ EverySignerChosen(signers) /\ Answers(NodeOf(s), UserOf(s))
         /\ pc[s] \in {"count", "write", "audit", "evaluate"} =>
              \A u \in assignees[s] : Answers(next[s], u)
         /\ outcome[s] # "return" /\ \A i \in ins[s] : Answers(i.node, i.user)
         /\ pc[s] \in {"audit", "evaluate", "commit"} => SignsForAll(s)
    /\ request[s].op = "return" =>
         /\ pc[s] \in {"write", "wipe", "audit", "commit"}
         /\ pc[s] = "commit" => outcome[s] = "return"
         /\ <<NodeOf(s), next[s]>> \in ReturnFlow /\ assignees[s] # {}

AnswersInv ==
    /\ TypeOK
    /\ NothingReturned
    /\ OnlyCandidates
    /\ MarksCandidates
    /\ ChosenOrDraft(workItems, signers)
    /\ \A i \in workItems : Answers(i.node, i.user)
    /\ \A s \in Session : AsksAnswering(s)

\* A signature stays unless it is reset.
LEMMA SignedStays ==
    ASSUME TypeOK, NEW r \in Session, StepOf(r), ~ResetSigners(r),
           NEW T \in SignType, NEW u \in User, signers[T][u] = "signed"
    PROVE  signers'[T][u] = "signed"
<1>1. CASE ResolveChosen(r)
  <2> DEFINE x == AfterSkipLane(request[r].target)
             c == request[r].choice
  <2>1. \/ signers' = signers
        \/ signers' = [signers EXCEPT ![TypeOf[x]] = Replaced(signers[TypeOf[x]], c)]
    BY <1>1 DEF ResolveChosen
  <2> HIDE DEF x, c
  <2>2. CASE signers'[T] = Replaced(signers[T], c)
    BY <2>2 DEF Replaced
  <2> QED
    BY <2>1, <2>2 DEF TypeOK
<1>2. CASE CommitForward(r)
  BY <1>2 DEF CommitForward
<1> QED
  BY <1>1, <1>2, SignersWritten

\* With one candidate per type, once somebody is appointed for every step, who
\* answers for a step goes on to, and nobody else comes to be asked.
LEMMA AnswersStay ==
    ASSUME OneCandidate, TypeOK, OnlyCandidates, MarksCandidates, NEW r \in Session,
           ChoiceKnown(r), StepOf(r), ~ResetSigners(r)
    PROVE  /\ \A n \in Node, u \in User : Answers(n, u) => AnswersIn(signers', n, u)
           /\ EverySignerChosen(signers) =>
                /\ EverySignerChosen(signers')
                /\ \A n \in Node, u \in User :
                     TypeOf[n] # None /\ signers'[TypeOf[n]][u] = "pending" =>
                       signers[TypeOf[n]][u] = "pending"
<1>1. \A n \in Node : TypeOf[n] # None => TypeOf[n] \in SignType
  BY ModelAssumption
<1>2. \A n \in Node, u \in User : TypeOf[n] # None =>
        /\ signers[TypeOf[n]][u] # "absent" => signers'[TypeOf[n]][u] # "absent"
        /\ signers[TypeOf[n]][u] = "signed" => signers'[TypeOf[n]][u] = "signed"
  <2> SUFFICES ASSUME NEW n \in Node, NEW u \in User, TypeOf[n] # None
               PROVE  /\ signers[TypeOf[n]][u] # "absent" => signers'[TypeOf[n]][u] # "absent"
                      /\ signers[TypeOf[n]][u] = "signed" => signers'[TypeOf[n]][u] = "signed"
    OBVIOUS
  <2>1. signers[TypeOf[n]][u] # "absent" => signers'[TypeOf[n]][u] # "absent"
    BY AppointedStays DEF Appointed, SignerIn
  <2>2. signers[TypeOf[n]][u] = "signed" => signers'[TypeOf[n]][u] = "signed"
    BY <1>1, SignedStays
  <2> QED
    BY <2>1, <2>2
<1>3. \A n \in Node, u \in User : Answers(n, u) => AnswersIn(signers', n, u)
  BY <1>2 DEF Answers, AnswersIn
<1>4. ASSUME EverySignerChosen(signers)
      PROVE  /\ EverySignerChosen(signers')
             /\ \A n \in Node, u \in User :
                  TypeOf[n] # None /\ signers'[TypeOf[n]][u] = "pending" =>
                    signers[TypeOf[n]][u] = "pending"
  <2>1. EverySignerChosen(signers')
    BY <1>2, <1>4 DEF EverySignerChosen
  <2>2. ASSUME NEW n \in Node, NEW u \in User, TypeOf[n] # None,
               signers'[TypeOf[n]][u] = "pending"
        PROVE  signers[TypeOf[n]][u] = "pending"
    <3>1. PICK w \in User : signers[TypeOf[n]][w] # "absent"
      BY <1>4, <2>2 DEF EverySignerChosen
    <3>2. w \in MaySign(TypeOf[n])
      BY <1>1, <2>2, <3>1 DEF OnlyCandidates
    <3>3. OnlyCandidates'
      BY CandidatesKept
    <3>4. u \in MaySign(TypeOf[n])
      BY <1>1, <2>2, <3>3 DEF OnlyCandidates, MaySign
    <3>5. u = w
      BY <1>1, <2>2, <3>2, <3>4 DEF OneCandidate
    <3>6. signers[TypeOf[n]][u] \in {"absent", "pending", "signed"}
      BY <1>1, <2>2 DEF TypeOK
    <3> QED
      BY <1>2, <2>2, <3>1, <3>5, <3>6
  <2> QED
    BY <2>1, <2>2
<1> QED
  BY <1>3, <1>4

\* Who is pending answers.
LEMMA PendingAnswers ==
    ASSUME NEW n \in Node, NEW u \in PendingAt(n)
    PROVE  Answers(n, u)
BY DEF PendingAt, PendingOf, Answers, AnswersIn

\* The one who signs is the only one who is still to sign.
LEMMA SignsAlone ==
    ASSUME TypeOK, OneCandidate, OnlyCandidates, NEW r \in Session,
           Answers(NodeOf(r), UserOf(r)), NEW u \in PendingAt(NodeOf(r))
    PROVE  <<TypeOf[NodeOf(r)], u>> \in MarkRows(r)
<1> DEFINE T == TypeOf[NodeOf(r)]
<1>1. T # None /\ T \in SignType /\ u \in User /\ signers[T][u] = "pending"
  BY RequestType, ModelAssumption DEF PendingAt, PendingOf
<1>2. \A v \in User : signers[T][v] # "absent" => v = u
  BY <1>1 DEF OneCandidate, OnlyCandidates
<1>3. signers[T][UserOf(r)] # "absent"
  BY <1>1, <1>2 DEF Answers, AnswersIn
<1>4. UserOf(r) = u
  BY <1>2, <1>3, RequestType
<1> QED
  BY <1>1, <1>4 DEF MarkRows, IsSigner

\* Without returns nothing is reset.
LEMMA NothingToReset ==
    ASSUME NothingReturned, NEW t
    PROVE  TypesToReset(t) = {}
BY DEF NothingReturned, TypesToReset, NeedsReset

\* Whoever submits the draft has chosen all signers.
LEMMA ChosenBySubmission ==
    ASSUME PlainModel, ChosenOrDraft(workItems, signers), NEW i \in workItems,
           SignersChosen(i.node)
    PROVE  EverySignerChosen(signers)
BY DEF PlainModel, ChosenOrDraft, SignersChosen, EverySignerChosen

\* A request that goes forward arrives.
LEMMA ArrivalAnswers ==
    ASSUME PlainModel, AnswersInv, NEW r \in Session, NEW i \in workItems, NEW t \in Node,
           NEW c \in Choices \cup {{}}, ReadForward(r, i, t, c)
    PROVE  AsksAnswering(r)'
<1>1. pc[r] = "idle" /\ TypeOK /\ request[r].op \in {"forward", "return"}
  BY RequestType DEF ReadForward, Submittable, AnswersInv, Request
<1>2. request[r].op = "forward" /\ AsksAnswering(r)
  BY <1>1 DEF AnswersInv, AsksAnswering
<1>3. /\ pc'[r] = "resolve" /\ request'[r].op = "forward"
      /\ request'[r].choice = c /\ request'[r].item = i
      /\ signers' = signers /\ ins' = ins /\ outcome' = outcome
  <2>1. TypesToReset(t) = {}
    BY NothingToReset DEF AnswersInv
  <2> QED
    BY <1>1, <2>1 DEF ReadForward, Goto, db, txVars, TypeOK
<1>4. EverySignerChosen(signers)
  BY ChosenBySubmission DEF ReadForward, AnswersInv
<1>5. NodeOf(r)' = i.node /\ UserOf(r)' = i.user
  BY <1>3 DEF NodeOf, UserOf
<1>6. /\ AnswersIn(signers', i.node, i.user) /\ outcome[r] # "return"
      /\ \A j \in ins[r] : AnswersIn(signers', j.node, j.user)
  BY <1>2, <1>3 DEF AnswersInv, AsksAnswering, Answers
<1>7. EverySignerChosen(signers') /\ AnswersIn(signers', NodeOf(r)', UserOf(r)')
  BY <1>3, <1>4, <1>5, <1>6
<1> QED
  BY <1>3, <1>6, <1>7 DEF AsksAnswering, Answers

\* A request that sends back arrives, and goes on to its commit.
LEMMA ReturnAnswers ==
    ASSUME AnswersInv, NEW r \in Session,
           \/ \E i \in workItems, t \in Node, c \in Choices \cup {{}} : ReadReturn(r, i, t, c)
           \/ RemoveOwn(r) \/ WipeDownstream(r)
           \/ TouchAudit(r) /\ request[r].op = "return"
    PROVE  AsksAnswering(r)'
<1>1. TypeOK /\ AsksAnswering(r) /\ request[r].op \in {"forward", "return"}
  BY RequestType DEF AnswersInv, Request
<1>2. ASSUME NEW i \in workItems, NEW t \in Node, NEW c, ReadReturn(r, i, t, c)
      PROVE  AsksAnswering(r)'
  <2>1. /\ pc'[r] = "write" /\ request'[r].op = "return" /\ request'[r].item = i
        /\ next'[r] = t /\ assignees'[r] # {} /\ <<i.node, t>> \in ReturnFlow
    BY <1>1, <1>2 DEF ReadReturn, Goto, TypeOK
  <2> QED
    BY <2>1 DEF AsksAnswering, NodeOf
<1>3. ASSUME RemoveOwn(r) \/ WipeDownstream(r) \/ (TouchAudit(r) /\ request[r].op = "return")
      PROVE  AsksAnswering(r)'
  <2>1. request[r].op = "return"
    BY <1>1, <1>3 DEF RemoveOwn, WipeDownstream, At, AsksAnswering
  <2>2. /\ request' = request /\ next' = next /\ assignees' = assignees
        /\ pc'[r] \in {"wipe", "audit"} \/ (pc'[r] = "commit" /\ outcome'[r] = "return")
    BY <1>1, <1>3, <2>1 DEF RemoveOwn, WipeDownstream, TouchAudit, Goto, planVars, TypeOK
  <2> QED
    BY <1>1, <2>1, <2>2 DEF AsksAnswering, NodeOf
<1> QED
  BY <1>2, <1>3

\* The commit of a return leaves its row in the trail.
LEMMA ReturnIsWritten ==
    ASSUME AnswersInv, NEW r \in Session, CommitReturn(r)
    PROVE  Returned'
<1>1. /\ <<NodeOf(r), next[r]>> \in ReturnFlow /\ assignees[r] # {}
  <2>1. request[r].op = "return"
    BY RequestType DEF CommitReturn, AnswersInv, AsksAnswering, Request
  <2> QED
    BY <2>1 DEF AnswersInv, AsksAnswering
<1>2. PICK u \in assignees[r] : TRUE
  BY <1>1
<1> DEFINE x == Row(r, auditId + 1, NodeOf(r), next[r], u, TRUE, TRUE)
<1>3. SentBack(r, x) \in audit'
  BY DEF CommitReturn
<1>4. SentBack(r, x).from = NodeOf(r) /\ SentBack(r, x).to = next[r]
  BY DEF SentBack, Row
<1> QED
  BY <1>1, <1>3, <1>4 DEF Returned

\* What AnswersStay says of a step of r, with the parts of the invariant it needs.
LEMMA AnswersKept ==
    ASSUME OneCandidate, AnswersInv, NEW r \in Session, StepOf(r)
    PROVE  /\ ~ResetSigners(r)
           /\ OnlyCandidates' /\ MarksCandidates'
           /\ \A n \in Node, u \in User : Answers(n, u) => AnswersIn(signers', n, u)
           /\ EverySignerChosen(signers) => EverySignerChosen(signers')
           /\ EverySignerChosen(signers) =>
                \A n \in Node, u \in User :
                  TypeOf[n] # None /\ signers'[TypeOf[n]][u] = "pending" =>
                    signers[TypeOf[n]][u] = "pending"
<1>1. /\ TypeOK /\ OnlyCandidates /\ MarksCandidates /\ ChoiceKnown(r)
      /\ pc[r] # "reset"
  BY RequestType DEF AnswersInv, AsksAnswering, ChoiceKnown, Request
<1>2. ~ResetSigners(r)
  BY <1>1 DEF ResetSigners, At
<1> QED
  BY <1>1, <1>2, AnswersStay, CandidatesKept

\* A request resolves its target.
LEMMA ResolveAnswers ==
    ASSUME OneCandidate, AnswersInv, NEW r \in Session, StepOf(r),
           ResolveEnd(r) \/ ResolveChosen(r) \/ ResolveAutomatic(r)
    PROVE  AsksAnswering(r)'
<1>1. TypeOK /\ AsksAnswering(r)
  BY DEF AnswersInv
<1>2. /\ \A u \in assignees'[r] : SignerIn(signers', next'[r], u)
      /\ ins' = ins /\ request' = request /\ pc'[r] = "count" /\ pc[r] = "resolve"
  BY <1>1, ResolveAppoints
<1>3. outcome' = outcome /\ request[r].op = "forward"
  BY <1>1, <1>2, RequestType DEF ResolveEnd, ResolveChosen, ResolveAutomatic, Plan, txVars,
     AsksAnswering, Request
<1>4. \A u \in assignees'[r] : AnswersIn(signers', next'[r], u)
  BY <1>2 DEF SignerIn, AnswersIn
<1>5. /\ EverySignerChosen(signers') /\ AnswersIn(signers', NodeOf(r), UserOf(r))
      /\ \A i \in ins[r] : AnswersIn(signers', i.node, i.user)
  <2>1. NodeOf(r) \in Node /\ UserOf(r) \in User /\ \A i \in ins[r] : i.node \in Node /\ i.user \in User
    BY <1>1, RequestType DEF TypeOK, Item
  <2> QED
    BY <1>1, <1>2, <1>3, <2>1, AnswersKept DEF AsksAnswering
<1>6. NodeOf(r)' = NodeOf(r) /\ UserOf(r)' = UserOf(r)
  BY <1>2 DEF NodeOf, UserOf
<1>7. outcome[r] # "return" /\ request[r].choice \in Choices \cup {{}}
  BY <1>1, <1>2, <1>3 DEF AsksAnswering
<1>8. EverySignerChosen(signers') /\ AnswersIn(signers', NodeOf(r)', UserOf(r)')
  BY <1>5, <1>6
<1> QED
  BY <1>2, <1>3, <1>4, <1>5, <1>7, <1>8 DEF AsksAnswering, Answers

\* The statements of a forward request that change no signer and plan nothing.
LEMMA StatementAnswers ==
    ASSUME OneCandidate, AnswersInv, NEW r \in Session, request[r].op = "forward",
           CountSigners(r) \/ MarkAndRemove(r) \/ TouchAudit(r)
    PROVE  AsksAnswering(r)'
<1>1. TypeOK /\ AsksAnswering(r) /\ OnlyCandidates
  BY DEF AnswersInv
<1>2. /\ request' = request /\ next' = next /\ assignees' = assignees /\ signers' = signers
      /\ NodeOf(r)' = NodeOf(r) /\ UserOf(r)' = UserOf(r)
  BY DEF CountSigners, MarkAndRemove, TouchAudit, planVars, db, NodeOf, UserOf
<1>3. /\ pc[r] \in {"count", "write", "audit"}
      /\ EverySignerChosen(signers) /\ Answers(NodeOf(r), UserOf(r))
      /\ request[r].choice \in Choices \cup {{}}
      /\ \A u \in assignees[r] : Answers(next[r], u)
      /\ outcome[r] # "return" /\ \A i \in ins[r] : Answers(i.node, i.user)
  BY <1>1 DEF CountSigners, MarkAndRemove, TouchAudit, At, AsksAnswering
<1>4. ins' = ins /\ outcome' = outcome
  BY <1>3 DEF CountSigners, MarkAndRemove, TouchAudit, txVars
<1>5. pc'[r] \in {"write", "audit", "evaluate"}
  BY <1>1, <1>3 DEF CountSigners, MarkAndRemove, TouchAudit, Goto, TypeOK
<1>6. /\ \A n, u : Answers(n, u) <=> AnswersIn(signers', n, u)
      /\ EverySignerChosen(signers')
  BY <1>2, <1>3 DEF Answers
<1>7. ASSUME pc'[r] \in {"audit", "evaluate", "commit"}, NEW u \in PendingAt(NodeOf(r))
      PROVE  <<TypeOf[NodeOf(r)], u>> \in mark'[r]
  <2>1. CASE CountSigners(r)
    BY <1>1, <1>7, <2>1 DEF CountSigners, Goto, TypeOK
  <2>2. CASE MarkAndRemove(r)
    <3>1. mark'[r] = MarkRows(r)
      BY <1>1, <2>2 DEF MarkAndRemove, TypeOK
    <3> QED
      BY <1>1, <1>3, <3>1, SignsAlone
  <2>3. CASE TouchAudit(r)
    BY <1>1, <2>3 DEF TouchAudit, At, AsksAnswering, SignsForAll
  <2> QED
    BY <2>1, <2>2, <2>3
<1>8. PendingAt(NodeOf(r))' = PendingAt(NodeOf(r))
  BY <1>2 DEF PendingAt, PendingOf
<1>9. pc'[r] \in {"audit", "evaluate", "commit"} => SignsForAll(r)'
  BY <1>2, <1>7, <1>8 DEF SignsForAll
<1>10. Answers(NodeOf(r), UserOf(r))' /\ EverySignerChosen(signers)'
  BY <1>2, <1>3, <1>6 DEF Answers
<1>11. (\A u \in assignees[r] : Answers(next[r], u))' /\ (\A i \in ins[r] : Answers(i.node, i.user))'
  BY <1>2, <1>3, <1>4, <1>6 DEF Answers
<1> QED
  BY <1>2, <1>3, <1>4, <1>5, <1>9, <1>10, <1>11 DEF AsksAnswering

\* A decision creates items for those who answer.
LEMMA DecideAnswers ==
    ASSUME AnswersInv, NEW r \in Session, At(r, "evaluate"), NEW what, NEW items,
           Decide(r, what, items), what # "return", \A i \in items : Answers(i.node, i.user)
    PROVE  AsksAnswering(r)'
<1>1. TypeOK /\ AsksAnswering(r) /\ pc[r] = "evaluate" /\ request[r].op = "forward"
  BY RequestType DEF AnswersInv, At, AsksAnswering, Request
<1>2. /\ request' = request /\ signers' = signers /\ pc'[r] = "commit" /\ mark' = mark
      /\ ins'[r] = items /\ outcome'[r] = what
      /\ NodeOf(r)' = NodeOf(r) /\ UserOf(r)' = UserOf(r)
  BY <1>1 DEF Decide, Goto, db, TypeOK, NodeOf, UserOf
<1>3. \A n, u : Answers(n, u)' <=> Answers(n, u)
  BY <1>2 DEF Answers
<1>4. SignsForAll(r)'
  BY <1>1, <1>2 DEF AsksAnswering, SignsForAll, PendingAt, PendingOf
<1>5. EverySignerChosen(signers)' /\ Answers(NodeOf(r), UserOf(r))'
  BY <1>1, <1>2 DEF AsksAnswering, Answers
<1>6. (\A i \in ins[r] : Answers(i.node, i.user))'
  BY <1>2 DEF Answers
<1> QED
  BY <1>1, <1>2, <1>4, <1>5, <1>6 DEF AsksAnswering

\* The exit of a stage.
LEMMA ExitAnswers ==
    ASSUME AnswersInv, NEW r \in Session, StageExits(r)
    PROVE  Rollback(r) \/ AsksAnswering(r)'
<1>1. SUFFICES ASSUME ~Rollback(r) PROVE AsksAnswering(r)'
  OBVIOUS
<1>2. PICK e \in ExitTargets(NodeOf(r)) :
        /\ ~(PendingAt(ExitStep(e)) = {} /\ TypeOf[ExitStep(e)] # None)
        /\ Decide(r, "exit",
             IF NodeDone(r)
               THEN NewItems(r, ExitStep(e), Recipients(r, ExitAssignees(r, ExitStep(e))))
               ELSE {})
  BY <1>1 DEF StageExits
<1> DEFINE x == ExitStep(e)
<1>3. \A i \in NewItems(r, x, Recipients(r, ExitAssignees(r, x))) : Answers(i.node, i.user)
  <2> SUFFICES ASSUME NEW i \in NewItems(r, x, Recipients(r, ExitAssignees(r, x)))
               PROVE  Answers(i.node, i.user)
    OBVIOUS
  <2>1. i.node = x /\ i.user \in ExitAssignees(r, x)
    BY DEF NewItems, Recipients
  <2>3. x \in Node
    BY ExitStepType DEF AnswersInv
  <2> HIDE DEF x
  <2>4. CASE PendingAt(x) # {}
    BY <2>1, <2>3, <2>4, PendingAnswers DEF ExitAssignees
  <2>5. CASE TypeOf[x] = None
    BY <2>1, <2>5 DEF Answers, AnswersIn
  <2> QED
    BY <1>2, <2>4, <2>5 DEF x
<1>4. At(r, "evaluate")
  BY DEF StageExits
<1> QED
  BY <1>2, <1>3, <1>4, DecideAnswers

\* The step is handed on, or the stage entered.
LEMMA AdvanceAnswers ==
    ASSUME AnswersInv, NEW r \in Session, Advance(r)
    PROVE  AsksAnswering(r)'
<1>1. /\ At(r, "evaluate")
      /\ Decide(r, "advance", TargetItems(r)) \/ Decide(r, "stay", {})
  BY DEF Advance
<1>2. /\ TypeOK /\ AsksAnswering(r) /\ pc[r] = "evaluate" /\ next[r] \in Node
      /\ request[r].op = "forward"
  BY <1>1, RequestType DEF AnswersInv, At, AsksAnswering, TypeOK, Request
<1>3. \A u \in Recipients(r, assignees[r]) : Answers(next[r], u)
  BY <1>2 DEF AsksAnswering, Recipients
<1>4. ASSUME NEW m \in StageNodes(next[r]), NEW u \in StageAssignees(r, m)
      PROVE  Answers(m, u)
  <2>1. m \in Node
    BY DEF StageNodes
  <2>2. CASE PendingAt(m) # {}
    BY <1>4, <2>1, <2>2, PendingAnswers DEF StageAssignees
  <2>3. CASE PendingAt(m) = {} /\ TypeOf[m] # None
    <3>1. PICK v \in User : signers[TypeOf[m]][v] # "absent"
      BY <1>2, <2>1, <2>3 DEF AsksAnswering, EverySignerChosen
    <3>2. signers[TypeOf[m]][v] # "pending"
      BY <2>3 DEF PendingAt, PendingOf
    <3>3. signers[TypeOf[m]][v] = "signed"
      BY <1>2, <2>1, <2>3, <3>1, <3>2, ModelAssumption DEF TypeOK
    <3> QED
      BY <3>3 DEF Answers, AnswersIn
  <2>4. CASE TypeOf[m] = None
    BY <2>4 DEF Answers, AnswersIn
  <2> QED
    BY <2>2, <2>3, <2>4
<1>5. \A i \in StageItems(r) : Answers(i.node, i.user)
  <2> SUFFICES ASSUME NEW i \in StageItems(r) PROVE Answers(i.node, i.user)
    OBVIOUS
  <2>1. PICK m \in StageNodes(next[r]) : i \in NewItems(r, m, StageAssignees(r, m))
    BY DEF StageItems
  <2>2. i.node = m /\ i.user \in StageAssignees(r, m)
    BY <2>1 DEF NewItems
  <2> QED
    BY <1>4, <2>2
<1>6. \A i \in NewItems(r, next[r], Recipients(r, assignees[r])) : Answers(i.node, i.user)
  BY <1>3 DEF NewItems
<1>7. \A i \in TargetItems(r) : Answers(i.node, i.user)
  BY <1>5, <1>6 DEF TargetItems
<1>8. CASE Decide(r, "advance", TargetItems(r))
  BY <1>1, <1>7, <1>8, DecideAnswers
<1>9. CASE Decide(r, "stay", {})
  BY <1>1, <1>9, DecideAnswers
<1> QED
  BY <1>1, <1>8, <1>9

\* Nothing becomes a return.
LEMMA NothingReturnedStays ==
    ASSUME AnswersInv, NEW r \in Session, StepOf(r), ~CommitReturn(r)
    PROVE  NothingReturned'
<1>1. CASE audit' = audit
  BY <1>1 DEF AnswersInv, NothingReturned
<1>2. CASE CommitForward(r)
  BY <1>2, NothingSentBack DEF AnswersInv
<1> QED
  BY <1>1, <1>2, OnlyCommitsWrite

\* Open items stay with those who answer, and the draft is left once.
LEMMA ItemsAnswer ==
    ASSUME OneCandidate, AnswersInv, NEW r \in Session, StepOf(r), ~CommitReturn(r)
    PROVE  /\ ChosenOrDraft(workItems, signers)'
           /\ (\A i \in workItems : Answers(i.node, i.user))'
<1>1. workItems' = workItems \/ (CommitForward(r) /\ workItems' = (workItems \ del[r]) \cup ins[r])
  BY OnlyCommitsWrite DEF CommitForward
<1>2. CommitForward(r) => request[r].op = "forward" /\ pc[r] = "commit"
  BY RequestType DEF CommitForward, At, AnswersInv, AsksAnswering, Request
<1>3. \A i \in workItems' : AnswersIn(signers', i.node, i.user)
  <2>1. \A i \in workItems : i.node \in Node /\ i.user \in User /\ Answers(i.node, i.user)
    BY DEF AnswersInv, TypeOK, Item
  <2>2. CommitForward(r) =>
          \A i \in ins[r] : i.node \in Node /\ i.user \in User /\ Answers(i.node, i.user)
    <3>1. AsksAnswering(r) /\ ins[r] \subseteq Item
      BY DEF AnswersInv, TypeOK
    <3>2. CommitForward(r) => \A i \in ins[r] : Answers(i.node, i.user)
      BY <1>2, <3>1 DEF AsksAnswering
    <3> QED
      BY <3>1, <3>2 DEF Item
  <2>3. \A n \in Node, u \in User : Answers(n, u) => AnswersIn(signers', n, u)
    BY AnswersKept
  <2>4. \A i \in workItems' : i.node \in Node /\ i.user \in User /\ Answers(i.node, i.user)
    BY <1>1, <2>1, <2>2
  <2> QED
    BY <2>3, <2>4
<1>4. EverySignerChosen(signers') \/ \A i \in workItems' : i.node = Draft
  <2>1. EverySignerChosen(signers) => EverySignerChosen(signers')
    BY AnswersKept
  <2>2. CommitForward(r) => EverySignerChosen(signers)
    BY <1>2 DEF AnswersInv, AsksAnswering
  <2>3. EverySignerChosen(signers) \/ \A i \in workItems : i.node = Draft
    BY DEF AnswersInv, ChosenOrDraft
  <2> QED
    BY <1>1, <2>1, <2>2, <2>3
<1> QED
  BY <1>3, <1>4 DEF ChosenOrDraft, Answers

\* A document that was sent back has been so for good.
LEMMA ReturnedStays ==
    ASSUME TypeOK, Returned, [Next]_vars
    PROVE  Returned'
<1>1. CASE UNCHANGED vars
  BY <1>1 DEF vars, db, Returned
<1>2. ASSUME NEW r \in Session, StepOf(r) PROVE Returned'
  BY <1>2, RowsKept DEF Returned
<1> QED
  BY <1>1, <1>2 DEF Next, StepOf, Quiescent

\* Every step of every request keeps the invariant, except a return's commit.
LEMMA AnswersStep ==
    ASSUME PlainModel, OneCandidate, AnswersInv, [Next]_vars, ~Returned'
    PROVE  AnswersInv'
<1>1. TypeOK /\ TypeOK'
  BY TypeStep DEF AnswersInv
<1>2. CASE UNCHANGED vars
  <2>1. /\ workItems' = workItems /\ audit' = audit /\ signers' = signers
        /\ pc' = pc /\ request' = request /\ next' = next /\ assignees' = assignees
        /\ mark' = mark /\ ins' = ins /\ outcome' = outcome
    BY <1>2 DEF vars, db, planVars, txVars
  <2>2. NothingReturned' /\ OnlyCandidates' /\ MarksCandidates'
        /\ ChosenOrDraft(workItems, signers)'
    BY <2>1 DEF AnswersInv, NothingReturned, OnlyCandidates, MarksCandidates, MaySign, ChosenOrDraft
  <2>3. (\A i \in workItems : Answers(i.node, i.user))'
    BY <2>1 DEF AnswersInv, Answers
  <2>4. \A s \in Session : AsksAnswering(s)'
    BY <2>1 DEF AnswersInv, AsksAnswering, Answers, SignsForAll, PendingAt, PendingOf, NodeOf, UserOf
  <2> QED
    BY <1>1, <2>2, <2>3, <2>4 DEF AnswersInv
<1>3. ASSUME NEW r \in Session, StepOf(r) PROVE AnswersInv'
  <2>1. OnlyCandidates' /\ MarksCandidates' /\ ~ResetSigners(r) /\ ~CommitReturn(r)
    BY <1>3, AnswersKept, ReturnIsWritten
  <2>2. /\ NothingReturned' /\ ChosenOrDraft(workItems, signers)'
        /\ (\A i \in workItems : Answers(i.node, i.user))'
    BY <1>3, <2>1, NothingReturnedStays, ItemsAnswer
  <2>3. AsksAnswering(r)'
    <3>1. ASSUME End(r) PROVE AsksAnswering(r)'
      BY <1>1, <3>1 DEF End, Goto, NoRequest, TypeOK, AsksAnswering
    <3>2. CASE Arrival(r)
      BY <3>2, ArrivalAnswers, ReturnAnswers DEF Arrival
    <3>3. CASE ResolveEnd(r) \/ ResolveChosen(r) \/ ResolveAutomatic(r)
      BY <1>3, <3>3, ResolveAnswers
    <3>4. CASE CountSigners(r) \/ MarkAndRemove(r) \/ TouchAudit(r)
      <4>1. request[r].op = "forward" \/ (TouchAudit(r) /\ request[r].op = "return")
        BY <1>1, <3>4, RequestType DEF CountSigners, MarkAndRemove, At, AnswersInv,
           AsksAnswering, Request
      <4> QED
        BY <3>4, <4>1, StatementAnswers, ReturnAnswers
    <3>5. CASE StageWaits(r)
      BY <3>5, DecideAnswers DEF StageWaits
    <3>6. CASE StageExits(r) \/ Advance(r)
      BY <3>1, <3>6, ExitAnswers, AdvanceAnswers DEF Rollback
    <3>7. CASE Refuse(r) \/ AlreadyCompleted(r) \/ DeadlockVictim(r) \/ Fail(r)
               \/ CommitForward(r)
      BY <3>1, <3>7 DEF Refuse, AlreadyCompleted, DeadlockVictim, Fail, Rollback, CommitForward
    <3>8. CASE RemoveOwn(r) \/ WipeDownstream(r)
      BY <3>8, ReturnAnswers
    <3> QED
      BY <1>3, <2>1, <3>2, <3>3, <3>4, <3>5, <3>6, <3>7, <3>8 DEF StepOf, Progress
  <2>4. ASSUME NEW s \in Session \ {r} PROVE AsksAnswering(s)'
    <3>1. /\ pc'[s] = pc[s] /\ request'[s] = request[s] /\ next'[s] = next[s]
          /\ assignees'[s] = assignees[s] /\ mark'[s] = mark[s] /\ ins'[s] = ins[s]
          /\ outcome'[s] = outcome[s]
      BY <1>1, <1>3, StepUntouched DEF Untouched
    <3>2. NodeOf(s)' = NodeOf(s) /\ UserOf(s)' = UserOf(s)
      BY <3>1 DEF NodeOf, UserOf
    <3>3. AsksAnswering(s)
      BY DEF AnswersInv
    <3>4. /\ NodeOf(s) \in Node /\ UserOf(s) \in User /\ next[s] \in Node
          /\ assignees[s] \subseteq User /\ \A i \in ins[s] : i.node \in Node /\ i.user \in User
      BY <1>1, RequestType DEF TypeOK, Item
    <3>5. CASE request[s].op = "forward"
      <4>1. /\ pc[s] # "idle" =>
                 EverySignerChosen(signers') /\ AnswersIn(signers', NodeOf(s), UserOf(s))
            /\ pc[s] \in {"count", "write", "audit", "evaluate"} =>
                 \A u \in assignees[s] : AnswersIn(signers', next[s], u)
            /\ \A i \in ins[s] : AnswersIn(signers', i.node, i.user)
        BY <1>3, <3>3, <3>4, <3>5, AnswersKept DEF AsksAnswering
      <4>2. pc[s] \in {"audit", "evaluate", "commit"} => SignsForAll(s)'
        <5> SUFFICES ASSUME pc[s] \in {"audit", "evaluate", "commit"} PROVE SignsForAll(s)'
          OBVIOUS
        <5>1. EverySignerChosen(signers) /\ SignsForAll(s)
          BY <3>3, <3>5 DEF AsksAnswering
        <5>2. PendingAt(NodeOf(s))' \subseteq PendingAt(NodeOf(s))
          BY <1>3, <3>2, <3>4, <5>1, AnswersKept DEF PendingAt, PendingOf
        <5> QED
          BY <3>1, <3>2, <5>1, <5>2 DEF SignsForAll
      <4>3. /\ pc'[s] # "idle" =>
                 EverySignerChosen(signers)' /\ Answers(NodeOf(s), UserOf(s))'
            /\ pc'[s] \in {"count", "write", "audit", "evaluate"} =>
                 (\A u \in assignees[s] : Answers(next[s], u))'
            /\ (\A i \in ins[s] : Answers(i.node, i.user))'
        BY <3>1, <3>2, <4>1 DEF Answers
      <4> QED
        BY <3>1, <3>3, <3>5, <4>2, <4>3 DEF AsksAnswering
    <3>6. CASE request[s].op = "return"
      BY <3>1, <3>2, <3>3, <3>6 DEF AsksAnswering
    <3> QED
      BY <1>1, <3>5, <3>6, RequestType DEF Request
  <2> QED
    BY <1>1, <2>1, <2>2, <2>3, <2>4 DEF AnswersInv
<1> QED
  BY <1>2, <1>3 DEF Next, StepOf, Quiescent

\* A new document waits for its drafter, and nobody has been chosen for more
\* than the draft says.
LEMMA AnswersInit ==
    ASSUME PlainModel, Init
    PROVE  AnswersInv
<1>1. TypeOK
  BY TypeInit
<1>2. NothingReturned /\ OnlyCandidates /\ MarksCandidates
  BY DEF Init, NothingReturned, OnlyCandidates, MarksCandidates, MaySign
<1>3. \A i \in workItems : i.node = Draft /\ TypeOf[i.node] = None
  BY DEF Init, PlainModel
<1>4. \A s \in Session : AsksAnswering(s)
  BY DEF Init, NoRequest, AsksAnswering
<1> QED
  BY <1>1, <1>2, <1>3, <1>4 DEF AnswersInv, ChosenOrDraft, Answers, AnswersIn

\* setProcessor until the first return, with one candidate per signer type:
\* whatever stages the model has and whatever requests overlap, are sent twice
\* or fail, a signer step is handed on only when its signer has signed.
THEOREM SingleSignersSign ==
    ASSUME PlainModel, OneCandidate
    PROVE  Spec => []SignedUntilReturn
<1> DEFINE Inv == TypeOK /\ (Returned \/ AnswersInv)
<1>1. Init => Inv
  BY AnswersInit, TypeInit
<1>2. Inv /\ [Next]_vars => Inv'
  <2> SUFFICES ASSUME Inv, [Next]_vars, ~Returned' PROVE AnswersInv'
    BY TypeStep
  <2>1. ~Returned
    BY ReturnedStays
  <2> QED
    BY <2>1, AnswersStep
<1>3. Inv => SignedUntilReturn
  <2> SUFFICES ASSUME AnswersInv PROVE AllSigned
    BY DEF SignedUntilReturn
  <2>1. \A s \in Session : request[s].op \in {"forward", "return"}
    BY RequestType DEF AnswersInv, Request
  <2> QED
    BY <2>1 DEF AnswersInv, AsksAnswering, SignsForAll, AllSigned
<1> QED
  BY <1>1, <1>2, <1>3, PTL DEF Spec

----------------------------------------------------------------------------
(* Stages whose steps have one signer each, signed at once: the document     *)
(* goes on.                                                                  *)

\* Flows lead away from the draft towards the end events, and every step in
\* between is signed.
SignedModel ==
    /\ PlainModel /\ FirstIsFlow
    /\ \E rank \in [Node -> Nat] : Ascends(rank) /\ rank[Draft] = 0
    /\ Draft \notin EndEvent /\ ~InStage(Draft)
    /\ \A n \in Node : TypeOf[n] # None \/ n = Draft \/ n \in EndEvent
    /\ \A e \in EndEvent : ~InStage(e) /\ \A f \in Flow : f[1] # e

\* One request at most processes an item; while the draft is open, nothing else
\* is, and only the request that submits it is in flight.
DraftFirst ==
    /\ \A r, s \in Session :
         pc[r] # "idle" /\ pc[s] # "idle" /\ request[r].item = request[s].item => r = s
    /\ \A s \in Session : pc[s] # "idle" /\ NodeOf(s) = Draft => request[s].item \in workItems
    /\ \A i \in workItems : i.node = Draft =>
         /\ \A j \in workItems : j = i
         /\ \A s \in Session : pc[s] # "idle" => NodeOf(s) = Draft

\* What a request is about to commit leaves an open item, or reaches the end.
LeavesItem(s) ==
    \/ ins[s] # {}
    \/ outcome[s] = "advance" /\ next[s] \in EndEvent
    \/ IsSigner(s) /\ workItems \ del[s] # {}

\* What a request that goes forward knows: it hands its step on, to somebody.
Carries(s) ==
    request[s].op = "forward" =>
      /\ \A i \in ins[s] : i.node # Draft
      /\ pc[s] # "idle" => NodeOf(s) = Draft \/ IsSigner(s)
      /\ pc[s] = "resolve" => <<NodeOf(s), TargetOf(s)>> \in Flow
      /\ pc[s] \in {"count", "write", "audit", "evaluate", "commit"} =>
           /\ next[s] # NodeOf(s) /\ next[s] # Draft
           /\ next[s] \notin EndEvent => assignees[s] # {}
      /\ pc[s] \in {"write", "audit", "evaluate", "commit"} => last[s]
      /\ pc[s] \in {"audit", "evaluate", "commit"} /\ NodeOf(s) = Draft =>
           request[s].item \in del[s]
      /\ pc[s] \in {"audit", "evaluate"} => \A i \in del[s] : i.node = NodeOf(s)
      /\ pc[s] = "commit" => LeavesItem(s)

CarryInv ==
    /\ AnswersInv
    /\ DocumentRowKept /\ ExitWaitsForPriority
    /\ FlowNeverDies
    /\ DraftFirst
    /\ \A s \in Session : Carries(s)

\* In these models the nodes of a stage are signed.
LEMMA SignedStages ==
    ASSUME SignedModel
    PROVE  StagesAreSigned
BY DEF SignedModel, StagesAreSigned

\* A request that goes forward arrives.
LEMMA ArrivalCarries ==
    ASSUME SignedModel, OneCandidate, CarryInv, NEW r \in Session, NEW i \in workItems,
           NEW t \in Node, NEW c \in Choices \cup {{}}, ReadForward(r, i, t, c)
    PROVE  Carries(r)'
<1>1. <<i.node, t>> \in Flow /\ pc[r] = "idle" /\ ins' = ins
  BY DEF ReadForward, Submittable, txVars
<1>2. AsksAnswering(r)' /\ TypeOK
  BY ArrivalAnswers DEF CarryInv, SignedModel, AnswersInv
<1>3. /\ pc'[r] \in {"reset", "resolve"} /\ request'[r].item = i /\ request'[r].target = t
      /\ request'[r].op = "forward"
  BY <1>2 DEF ReadForward, Goto, TypeOK
<1>4. pc'[r] = "resolve" /\ NodeOf(r)' = i.node /\ TargetOf(r)' = t
  BY <1>2, <1>3 DEF AsksAnswering, NodeOf, TargetOf
<1>5. i.node \in Node /\ i.node \notin EndEvent
  <2>1. <<i.node, t>>[1] = i.node
    OBVIOUS
  <2> QED
    BY <1>1, <1>2, <2>1 DEF SignedModel, TypeOK, Item
<1>6. i.node = Draft \/ TypeOf[i.node] # None
  BY <1>5 DEF SignedModel
<1>7. \A j \in ins[r] : j.node # Draft
  <2>1. request[r].op = "forward"
    BY <1>1, RequestType DEF CarryInv, AnswersInv, AsksAnswering, Request
  <2> QED
    BY <2>1 DEF CarryInv, Carries
<1> QED
  BY <1>1, <1>3, <1>4, <1>6, <1>7 DEF Carries, IsSigner

\* A request resolves its target.
LEMMA ResolveCarries ==
    ASSUME SignedModel, CarryInv, NEW r \in Session,
           ResolveEnd(r) \/ ResolveChosen(r) \/ ResolveAutomatic(r)
    PROVE  Carries(r)'
<1>1. TypeOK /\ Carries(r)
  BY DEF CarryInv, AnswersInv
<1>2. PICK n \in Node : \E who : /\ Plan(r, n, who) /\ Onward(r, n)
                                 /\ n \notin EndEvent => who # {}
  BY <1>1, ResolvePlans
<1>3. PICK who : /\ Plan(r, n, who) /\ Onward(r, n)
                 /\ n \notin EndEvent => who # {}
  BY <1>2
<1>4. pc[r] = "resolve" /\ request' = request /\ request[r].op = "forward"
  BY <1>1, ResolvePlans, RequestType DEF CarryInv, AnswersInv, AsksAnswering, Request
<1>5. PICK rank \in [Node -> Nat] : Ascends(rank) /\ rank[Draft] = 0
  BY DEF SignedModel
<1>6. rank[NodeOf(r)] < rank[n]
  BY <1>1, <1>3, <1>4, <1>5, OnwardAscends DEF SignedModel, Carries
<1>7. n # NodeOf(r) /\ n # Draft
  <2>1. NodeOf(r) \in Node /\ rank[NodeOf(r)] \in Nat
    BY <1>1, RequestType
  <2> QED
    BY <1>5, <1>6, <2>1
<1>8. /\ pc'[r] = "count" /\ next'[r] = n /\ assignees'[r] = who /\ ins' = ins
  BY <1>1, <1>3 DEF Plan, Goto, txVars, TypeOK
<1>9. NodeOf(r)' = NodeOf(r) /\ (IsSigner(r)' <=> IsSigner(r))
  BY <1>4 DEF NodeOf, IsSigner
<1> QED
  BY <1>1, <1>3, <1>4, <1>7, <1>8, <1>9 DEF Carries

\* The count, the removal and the audit.
LEMMA StatementCarries ==
    ASSUME OneCandidate, CarryInv, NEW r \in Session, request[r].op = "forward",
           CountSigners(r) \/ MarkAndRemove(r) \/ TouchAudit(r)
    PROVE  Carries(r)'
<1>1. TypeOK /\ Carries(r) /\ OnlyCandidates /\ AsksAnswering(r) /\ DraftFirst
  BY DEF CarryInv, AnswersInv
<1>2. /\ request' = request /\ next' = next /\ assignees' = assignees
      /\ NodeOf(r)' = NodeOf(r) /\ (IsSigner(r)' <=> IsSigner(r))
      /\ pc[r] \in {"count", "write", "audit"}
  BY DEF CountSigners, MarkAndRemove, TouchAudit, planVars, NodeOf, IsSigner, At
<1>3. ins' = ins
  BY DEF CountSigners, MarkAndRemove, TouchAudit, txVars
<1>4. CASE CountSigners(r)
  <2>1. pc'[r] = "write"
    BY <1>1, <1>4 DEF CountSigners, Goto, TypeOK
  <2>2. last'[r]
    <3>1. Cardinality(PendingAt(NodeOf(r))) <= 1
      BY <1>1, RequestType, CandidateCount
    <3> QED
      BY <1>1, <1>4, <3>1 DEF CountSigners, TypeOK
  <2> QED
    BY <1>1, <1>2, <1>3, <2>1, <2>2 DEF Carries
<1>5. CASE MarkAndRemove(r)
  <2>1. pc[r] = "write" /\ pc'[r] = "audit" /\ last' = last /\ del'[r] = Removal(r)
    BY <1>1, <1>5 DEF MarkAndRemove, At, Goto, planVars, TypeOK
  <2>2. /\ NodeOf(r) = Draft => request[r].item \in Removal(r)
        /\ \A i \in Removal(r) : i.node = NodeOf(r)
    BY <1>1, <2>1 DEF DraftFirst, Removal, ItemsAt, NodeOf
  <2> QED
    BY <1>1, <1>2, <1>3, <2>1, <2>2 DEF Carries
<1>6. CASE TouchAudit(r)
  <2>1. pc[r] = "audit" /\ pc'[r] = "evaluate" /\ last' = last /\ del' = del
    BY <1>1, <1>6 DEF TouchAudit, At, Goto, planVars, TypeOK
  <2> QED
    BY <1>1, <1>2, <1>3, <2>1 DEF Carries
<1> QED
  BY <1>4, <1>5, <1>6

\* A step planned for somebody gets an item.
LEMMA ItemsForSomebody ==
    ASSUME NEW s \in Session, NEW n, NEW who
    PROVE  /\ who # {} => NewItems(s, n, Recipients(s, who)) # {}
           /\ \A i \in NewItems(s, n, Recipients(s, who)) : i.node = n
<1>1. ASSUME who # {} PROVE NewItems(s, n, Recipients(s, who)) # {}
  <2>1. PICK u \in Recipients(s, who) : TRUE
    BY <1>1 DEF Recipients
  <2>2. [req |-> request[s].req, node |-> n, user |-> u] \in NewItems(s, n, Recipients(s, who))
    BY <2>1 DEF NewItems
  <2> QED
    BY <2>2
<1>2. \A i \in NewItems(s, n, Recipients(s, who)) : i.node = n
  BY DEF NewItems
<1> QED
  BY <1>1, <1>2

\* A decision keeps what the request knows, and leaves an item or ends.
LEMMA DecideCarries ==
    ASSUME CarryInv, NEW r \in Session, At(r, "evaluate"), NEW what, NEW items,
           Decide(r, what, items), \A i \in items : i.node # Draft,
           \/ items # {}
           \/ what = "advance" /\ next[r] \in EndEvent
           \/ IsSigner(r) /\ workItems \ (del[r] \cup ItemsAt(Covered(r))) # {}
    PROVE  Carries(r)'
<1>1. TypeOK /\ Carries(r) /\ pc[r] = "evaluate" /\ request[r].op = "forward"
  BY RequestType DEF CarryInv, AnswersInv, At, AsksAnswering, Request
<1>2. /\ request' = request /\ next' = next /\ assignees' = assignees /\ last' = last
      /\ workItems' = workItems /\ NodeOf(r)' = NodeOf(r) /\ (IsSigner(r)' <=> IsSigner(r))
  BY DEF Decide, planVars, db, NodeOf, IsSigner
<1>3. /\ pc'[r] = "commit" /\ ins'[r] = items /\ outcome'[r] = what
      /\ del'[r] = del[r] \cup ItemsAt(Covered(r))
  BY <1>1 DEF Decide, Goto, TypeOK
<1>4. LeavesItem(r)'
  BY <1>2, <1>3 DEF LeavesItem
<1> QED
  BY <1>1, <1>2, <1>3, <1>4 DEF Carries

\* A stage that waits has an open item left.
LEMMA WaitCarries ==
    ASSUME SignedModel, CarryInv, NEW r \in Session, StageWaits(r)
    PROVE  Carries(r)'
<1> DEFINE n == NodeOf(r)
<1>1. /\ At(r, "evaluate") /\ InStage(n) /\ ~StageComplete(n, OpenNodes(r))
      /\ Decide(r, "wait", {})
  BY DEF StageWaits
<1>2. ItemsAt(Covered(r)) = {}
  <2>1. CoversStage(n, OpenNodes(r)) => StageComplete(n, OpenNodes(r))
    BY DEF CoversStage, StageComplete
  <2> QED
    BY <1>1, <2>1 DEF Covered, ItemsAt
<1>3. workItems \ del[r] # {}
  <2>1. OpenNodes(r) # {}
    BY <1>1 DEF StageComplete
  <2> QED
    BY <2>1 DEF OpenNodes, NodesOf
<1>4. IsSigner(r)
  <2>1. n \in Node
    BY RequestType DEF CarryInv, AnswersInv
  <2> QED
    BY <1>1, <2>1, SignedStages DEF StagesAreSigned, IsSigner
<1> QED
  BY <1>1, <1>2, <1>3, <1>4, DecideCarries

\* The exit of a stage opens a step behind it.
LEMMA ExitCarries ==
    ASSUME SignedModel, CarryInv, NEW r \in Session, StageExits(r)
    PROVE  Rollback(r) \/ Carries(r)'
<1>1. SUFFICES ASSUME ~Rollback(r) PROVE Carries(r)'
  OBVIOUS
<1>2. /\ TypeOK /\ Carries(r) /\ At(r, "evaluate") /\ pc[r] = "evaluate"
      /\ InStage(NodeOf(r)) /\ NodeOf(r) \in Node /\ request[r].op = "forward"
  BY RequestType DEF CarryInv, AnswersInv, StageExits, At, AsksAnswering, Request
<1>3. NodeDone(r)
  BY <1>2 DEF Carries, NodeDone
<1>4. PICK e \in ExitTargets(NodeOf(r)) :
        Decide(r, "exit", NewItems(r, ExitStep(e), Recipients(r, ExitAssignees(r, ExitStep(e)))))
  BY <1>1, <1>3 DEF StageExits
<1> DEFINE x == ExitStep(e)
<1>5. PICK rank \in [Node -> Nat] : Ascends(rank) /\ rank[Draft] = 0
  BY DEF SignedModel
<1>6. PICK f \in Flow : f[2] = e /\ f[1] \in Node
  BY DEF ExitTargets, BestExits, ExitFlows, StageNodes
<1>7. e \in Node /\ 0 < rank[e]
  <2>1. e \in Node /\ rank[f[1]] < rank[e] /\ rank[f[1]] \in Nat /\ rank[e] \in Nat
    BY <1>2, <1>5, <1>6, ExitTargetsType DEF Ascends
  <2> QED
    BY <2>1
<1>8. x # Draft
  <2>1. CASE x = e
    BY <1>5, <1>7, <2>1
  <2>2. CASE x # e
    <3>1. x = NextStep(e) /\ x \in Node
      BY <2>2 DEF ExitStep
    <3>2. \A m \in Node : FirstFlow[m] # None => rank[m] < rank[FirstFlow[m]]
      BY <1>5 DEF SignedModel, FirstIsFlow, Ascends
    <3>3. NextStepWithSigners(e, HasPending) # None
      BY <3>1, ModelAssumption DEF NextStep
    <3>4. rank[e] < rank[x]
      BY <1>7, <3>1, <3>2, <3>3, NextStepFacts DEF NextStep
    <3>5. rank[e] \in Nat /\ rank[x] \in Nat
      BY <1>7, <3>1
    <3> QED
      BY <1>5, <1>7, <3>4, <3>5
  <2> QED
    BY <2>1, <2>2
<1>9. ExitAssignees(r, x) # {}
  BY DEF ExitAssignees
<1> HIDE DEF x
<1>10. /\ NewItems(r, x, Recipients(r, ExitAssignees(r, x))) # {}
       /\ \A i \in NewItems(r, x, Recipients(r, ExitAssignees(r, x))) : i.node # Draft
  BY <1>8, <1>9, ItemsForSomebody
<1> QED
  BY <1>2, <1>4, <1>10, DecideCarries DEF x

\* The next step, or the stage it begins, has an item, now or already.
LEMMA AdvanceCarries ==
    ASSUME SignedModel, CarryInv, NEW r \in Session, Advance(r)
    PROVE  Carries(r)'
<1>1. /\ TypeOK /\ Carries(r) /\ At(r, "evaluate") /\ pc[r] = "evaluate" /\ DraftFirst
      /\ request[r].op = "forward"
  BY RequestType DEF CarryInv, AnswersInv, Advance, At, AsksAnswering, Request
<1>2. /\ next[r] # NodeOf(r) /\ next[r] # Draft /\ next[r] \in Node
      /\ next[r] \notin EndEvent => assignees[r] # {}
      /\ \A i \in del[r] : i.node = NodeOf(r)
      /\ NodeDone(r)
  BY <1>1 DEF Carries, NodeDone, TypeOK
<1>3. Decide(r, "advance", TargetItems(r))
  BY <1>2 DEF Advance
<1> DEFINE items == NewItems(r, next[r], Recipients(r, assignees[r]))
<1>4. next[r] \notin EndEvent => items # {}
  BY <1>2, ItemsForSomebody
<1>5. \A i \in items : i.node # Draft
  BY <1>2, ItemsForSomebody
<1>6. ASSUME EntersStage(r) PROVE \A i \in StageItems(r) : i.node # Draft
  <2>1. Draft \notin StageNodes(next[r])
    BY <1>6 DEF EntersStage, SignedModel, StageNodes, InStage
  <2> QED
    BY <2>1 DEF StageItems, NewItems
<1>7. CASE EntersStage(r) /\ next[r] \in NodesOf(StageItems(r)) \cup NodesOf(workItems)
  <2>1. TargetItems(r) = StageItems(r)
    BY <1>7 DEF TargetItems
  <2>2. CASE next[r] \in NodesOf(StageItems(r))
    <3>1. StageItems(r) # {}
      BY <2>2 DEF NodesOf
    <3> QED
      BY <1>1, <1>3, <1>6, <1>7, <2>1, <3>1, DecideCarries
  <2>3. CASE next[r] \in NodesOf(workItems)
    <3>1. PICK i \in workItems : i.node = next[r]
      BY <2>3 DEF NodesOf
    <3>2. NodeOf(r) # Draft
      BY <1>1, <1>2, <3>1 DEF DraftFirst, NodeOf
    <3>3. IsSigner(r)
      BY <1>1, <3>2 DEF Carries
    <3>4. ItemsAt(Covered(r)) = {}
      BY <1>7 DEF EntersStage, Covered, ItemsAt
    <3>5. i \notin del[r] \cup ItemsAt(Covered(r))
      BY <1>2, <3>1, <3>4
    <3> QED
      BY <1>1, <1>3, <1>6, <1>7, <2>1, <3>3, <3>5, DecideCarries
  <2> QED
    BY <1>7, <2>2, <2>3
<1>8. CASE ~(EntersStage(r) /\ next[r] \in NodesOf(StageItems(r)) \cup NodesOf(workItems))
  <2>1. /\ items \subseteq TargetItems(r)
        /\ \A i \in TargetItems(r) : i.node # Draft
    BY <1>5, <1>6, <1>8 DEF TargetItems
  <2>2. TargetItems(r) # {} \/ next[r] \in EndEvent
    BY <1>4, <2>1
  <2> QED
    BY <1>1, <1>3, <2>1, <2>2, DecideCarries
<1> QED
  BY <1>7, <1>8

\* A request in flight after a step has just arrived, or was in flight before.
LEMMA StaysInFlight ==
    ASSUME TypeOK, NEW r \in Session, StepOf(r), pc'[r] # "idle"
    PROVE  Arrival(r) \/ (pc[r] # "idle" /\ request' = request)
<1>1. ASSUME End(r) PROVE FALSE
  BY <1>1 DEF End, Goto, TypeOK
<1>2. CASE Refuse(r) \/ AlreadyCompleted(r) \/ DeadlockVictim(r) \/ Fail(r)
            \/ CommitForward(r) \/ CommitReturn(r)
  BY <1>1, <1>2 DEF Refuse, AlreadyCompleted, DeadlockVictim, Fail, Rollback,
     CommitForward, CommitReturn
<1>3. CASE ResolveEnd(r) \/ ResolveChosen(r) \/ ResolveAutomatic(r)
  BY <1>3, ResolvePlans
<1>4. CASE ResetSigners(r) \/ CountSigners(r) \/ MarkAndRemove(r) \/ TouchAudit(r)
            \/ RemoveOwn(r) \/ WipeDownstream(r)
  BY <1>4 DEF ResetSigners, CountSigners, MarkAndRemove, TouchAudit, RemoveOwn,
     WipeDownstream, At
<1>5. CASE StageWaits(r) \/ StageExits(r) \/ Advance(r)
  <2>1. pc[r] = "evaluate" /\ (Rollback(r) \/ \E what, items : Decide(r, what, items))
    BY <1>5 DEF StageWaits, StageExits, Advance, At
  <2> QED
    BY <1>1, <2>1 DEF Rollback, Decide
<1> QED
  BY <1>2, <1>3, <1>4, <1>5 DEF StepOf, Progress

\* The one who commits a signature is alone: other signers and returns have yet
\* to lock the document row, and whoever submits the draft is the only one in flight.
LEMMA OneSignerCommits ==
    ASSUME SignedModel, CarryInv, NEW r \in Session, NEW s \in Session \ {r},
           pc[r] = "commit", pc[s] = "commit"
    PROVE  ~IsSigner(s)
<1>1. /\ DocumentRowKept /\ DraftFirst /\ Carries(r) /\ TypeOf[Draft] = None
  BY DEF CarryInv, SignedModel, PlainModel
<1>2. CASE request[r].op = "return" \/ IsSigner(r)
  BY <1>1, <1>2 DEF DocumentRowKept
<1>3. CASE NodeOf(r) = Draft
  <2>1. NodeOf(s) = Draft
    BY <1>1, <1>3 DEF DraftFirst, NodeOf
  <2> QED
    BY <1>1, <2>1 DEF IsSigner
<1>4. request[r].op \in {"forward", "return"}
  BY RequestType DEF CarryInv, AnswersInv, Request
<1> QED
  BY <1>1, <1>2, <1>3, <1>4 DEF Carries

\* A step of another request changes nothing of what a request knows.
LEMMA OthersCarry ==
    ASSUME SignedModel, CarryInv, NEW r \in Session, StepOf(r), NEW s \in Session \ {r}
    PROVE  Carries(s)'
<1>1. TypeOK /\ Carries(s) /\ Untouched(r) /\ OthersUnchanged(r)
  BY StepLocal, StepUntouched DEF CarryInv, AnswersInv
<1>2. /\ pc'[s] = pc[s] /\ request'[s] = request[s] /\ next'[s] = next[s]
      /\ assignees'[s] = assignees[s] /\ last'[s] = last[s] /\ ins'[s] = ins[s]
      /\ outcome'[s] = outcome[s] /\ del'[s] = del[s]
  BY <1>1 DEF Untouched, OthersUnchanged
<1>3. NodeOf(s)' = NodeOf(s) /\ TargetOf(s)' = TargetOf(s) /\ (IsSigner(s)' <=> IsSigner(s))
  BY <1>2 DEF NodeOf, TargetOf, IsSigner
<1>4. ASSUME pc[s] = "commit", request[s].op = "forward" PROVE LeavesItem(s)'
  <2>1. LeavesItem(s)
    BY <1>1, <1>4 DEF Carries
  <2>2. IsSigner(s) => workItems' = workItems
    <3>1. pc[r] = "commit" => ~IsSigner(s)
      BY <1>4, OneSignerCommits
    <3> QED
      BY <3>1, OnlyCommitsWrite DEF CommitForward, CommitReturn, At
  <2> QED
    BY <1>2, <1>3, <2>1, <2>2 DEF LeavesItem
<1> QED
  BY <1>1, <1>2, <1>3, <1>4 DEF Carries

\* The draft stays alone until it is handed on, and is never opened again.
LEMMA DraftStep ==
    ASSUME SignedModel, ~Resubmit, CarryInv, NEW r \in Session, StepOf(r), ~CommitReturn(r)
    PROVE  DraftFirst'
<1>1. TypeOK /\ DraftFirst /\ Carries(r) /\ Untouched(r) /\ AsksAnswering(r)
  BY StepUntouched DEF CarryInv, AnswersInv
<1>2. \A s \in Session \ {r} : pc'[s] = pc[s] /\ request'[s] = request[s] /\ NodeOf(s)' = NodeOf(s)
  BY <1>1 DEF Untouched, NodeOf
<1>3. CASE CommitForward(r)
  <2>1. /\ pc[r] = "commit" /\ pc'[r] = "idle" /\ request[r].op = "forward"
        /\ workItems' = (workItems \ del[r]) \cup ins[r]
    BY <1>1, <1>3, RequestType DEF CommitForward, At, End, Goto, TypeOK, AsksAnswering, Request
  <2>2. \A i \in ins[r] : i.node # Draft
    BY <1>1, <2>1 DEF Carries
  <2>3. \A a, b \in Session :
          pc'[a] # "idle" /\ pc'[b] # "idle" /\ request'[a].item = request'[b].item => a = b
    BY <1>1, <1>2, <2>1 DEF DraftFirst
  <2>4. CASE NodeOf(r) = Draft
    <3>1. request[r].item \in workItems \cap del[r] /\ request[r].item.node = Draft
      BY <1>1, <2>1, <2>4 DEF DraftFirst, Carries, NodeOf
    <3>2. \A i \in workItems' : i.node # Draft
      BY <1>1, <2>1, <2>2, <3>1 DEF DraftFirst
    <3>3. \A s \in Session : pc'[s] = "idle"
      <4> SUFFICES ASSUME NEW s \in Session, pc'[s] # "idle" PROVE FALSE
        OBVIOUS
      <4>1. s # r /\ pc[s] # "idle"
        BY <1>2, <2>1
      <4>2. NodeOf(s) = Draft
        BY <1>1, <3>1, <4>1 DEF DraftFirst
      <4>3. request[s].item = request[r].item
        BY <1>1, <3>1, <4>1, <4>2 DEF DraftFirst
      <4> QED
        BY <1>1, <2>1, <4>1, <4>3 DEF DraftFirst
    <3> QED
      BY <2>3, <3>2, <3>3 DEF DraftFirst
  <2>5. CASE NodeOf(r) # Draft
    <3>1. \A i \in workItems : i.node # Draft
      BY <1>1, <2>1, <2>5 DEF DraftFirst
    <3>2. \A s \in Session : pc[s] # "idle" => NodeOf(s) # Draft
      BY <1>1, <3>1 DEF DraftFirst, NodeOf
    <3>3. /\ \A i \in workItems' : i.node # Draft
          /\ \A s \in Session : pc'[s] # "idle" => NodeOf(s)' # Draft
      BY <1>2, <2>1, <2>2, <3>1, <3>2
    <3> QED
      BY <2>3, <3>3 DEF DraftFirst
  <2> QED
    BY <2>4, <2>5
<1>4. CASE ~CommitForward(r)
  <2>1. workItems' = workItems
    BY <1>4, OnlyCommitsWrite
  <2>2. CASE Arrival(r)
    <3>1. PICK i \in workItems : request'[r].item = i /\ Submittable(r, i)
      BY <1>1, <2>2 DEF Arrival, ReadForward, ReadReturn, TypeOK
    <3>2. \A s \in Session \ {r} : pc[s] # "idle" => request[s].item # i
      BY <3>1 DEF Submittable
    <3>3. NodeOf(r)' = i.node
      BY <3>1 DEF NodeOf
    <3>4. \A a, b \in Session :
            pc'[a] # "idle" /\ pc'[b] # "idle" /\ request'[a].item = request'[b].item => a = b
      BY <1>1, <1>2, <3>1, <3>2 DEF DraftFirst
    <3>5. \A s \in Session : pc'[s] # "idle" /\ NodeOf(s)' = Draft => request'[s].item \in workItems'
      BY <1>1, <1>2, <2>1, <3>1 DEF DraftFirst
    <3>6. \A j \in workItems' : j.node = Draft =>
            /\ \A k \in workItems' : k = j
            /\ \A s \in Session : pc'[s] # "idle" => NodeOf(s)' = Draft
      BY <1>1, <1>2, <2>1, <3>1, <3>3 DEF DraftFirst
    <3> QED
      BY <3>4, <3>5, <3>6 DEF DraftFirst
  <2>3. CASE ~Arrival(r)
    <3>1. \A s \in Session : pc'[s] # "idle" =>
            pc[s] # "idle" /\ request'[s] = request[s] /\ NodeOf(s)' = NodeOf(s)
      BY <1>1, <1>2, <2>3, StaysInFlight DEF NodeOf
    <3> QED
      BY <1>1, <2>1, <3>1 DEF DraftFirst
  <2> QED
    BY <2>2, <2>3
<1> QED
  BY <1>3, <1>4

\* A commit leaves an open item, or the end is reached.
LEMMA CommitCarriesOn ==
    ASSUME CarryInv, NEW r \in Session, StepOf(r), ~CommitReturn(r)
    PROVE  FlowNeverDies'
<1>1. TypeOK /\ Carries(r) /\ AsksAnswering(r) /\ FlowNeverDies
  BY DEF CarryInv, AnswersInv
<1>2. CASE CommitForward(r)
  <2>1. /\ LeavesItem(r) /\ workItems' = (workItems \ del[r]) \cup ins[r]
        /\ outcome[r] = "advance" => docStatus' = next[r]
    BY <1>1, <1>2, RequestType DEF CommitForward, At, Carries, AsksAnswering, Request
  <2> QED
    BY <2>1 DEF LeavesItem, FlowNeverDies
<1>3. CASE ~CommitForward(r)
  <2>1. workItems' = workItems /\ docStatus' = docStatus
    BY <1>3, OnlyCommitsWrite
  <2> QED
    BY <1>1, <2>1 DEF FlowNeverDies
<1> QED
  BY <1>2, <1>3

\* Every step of every request keeps the invariant, except a return's commit.
LEMMA CarryStep ==
    ASSUME SignedModel, OneCandidate, ~Resubmit, CarryInv, [Next]_vars, ~Returned'
    PROVE  CarryInv'
<1>1. AnswersInv' /\ DocumentRowKept' /\ ExitWaitsForPriority'
  BY AnswersStep, ExitStepInv, SignedStages DEF CarryInv, AnswersInv, ExitInv, SignedModel
<1>2. CASE UNCHANGED vars
  <2>1. /\ workItems' = workItems /\ docStatus' = docStatus /\ pc' = pc /\ request' = request
        /\ next' = next /\ assignees' = assignees /\ last' = last /\ del' = del
        /\ ins' = ins /\ outcome' = outcome
    BY <1>2 DEF vars, db, planVars, txVars
  <2>2. FlowNeverDies' /\ DraftFirst'
    BY <2>1 DEF CarryInv, FlowNeverDies, DraftFirst, NodeOf
  <2>3. \A s \in Session : Carries(s)'
    BY <2>1 DEF CarryInv, Carries, LeavesItem, NodeOf, TargetOf, IsSigner
  <2> QED
    BY <1>1, <2>2, <2>3 DEF CarryInv
<1>3. ASSUME NEW r \in Session, StepOf(r) PROVE CarryInv'
  <2>1. FlowNeverDies' /\ DraftFirst' /\ \A s \in Session \ {r} : Carries(s)'
    <3>1. ~CommitReturn(r)
      BY ReturnIsWritten DEF CarryInv
    <3> QED
      BY <1>3, <3>1, CommitCarriesOn, DraftStep, OthersCarry
  <2>2. Carries(r)'
    <3> SUFFICES ASSUME request'[r].op = "forward" PROVE Carries(r)'
      BY DEF Carries
    <3>1. ASSUME End(r) PROVE Carries(r)'
      BY <3>1 DEF End, Goto, CarryInv, AnswersInv, TypeOK, Carries
    <3>2. CASE Arrival(r)
      <4>1. PICK i \in workItems, t \in Node, c \in Choices \cup {{}} :
              ReadForward(r, i, t, c) \/ ReadReturn(r, i, t, c)
        BY <3>2 DEF Arrival
      <4>2. ~ReadReturn(r, i, t, c)
        BY DEF ReadReturn, CarryInv, AnswersInv, TypeOK
      <4> QED
        BY <4>1, <4>2, ArrivalCarries
    <3>3. CASE ResolveEnd(r) \/ ResolveChosen(r) \/ ResolveAutomatic(r)
      BY <3>3, ResolveCarries
    <3>4. CASE CountSigners(r) \/ MarkAndRemove(r) \/ TouchAudit(r)
      <4>1. request' = request
        BY <3>4 DEF CountSigners, MarkAndRemove, TouchAudit
      <4> QED
        BY <3>4, <4>1, StatementCarries
    <3>5. CASE StageWaits(r) \/ StageExits(r) \/ Advance(r)
      BY <3>1, <3>5, WaitCarries, ExitCarries, AdvanceCarries DEF Rollback
    <3>6. CASE Refuse(r) \/ AlreadyCompleted(r) \/ DeadlockVictim(r) \/ Fail(r)
               \/ CommitForward(r) \/ CommitReturn(r)
      BY <3>1, <3>6 DEF Refuse, AlreadyCompleted, DeadlockVictim, Fail, Rollback,
         CommitForward, CommitReturn
    <3>7. CASE ResetSigners(r) \/ RemoveOwn(r) \/ WipeDownstream(r)
      <4>1. request' = request
        BY <3>7 DEF ResetSigners, RemoveOwn, WipeDownstream
      <4> QED
        BY <3>7, <4>1 DEF ResetSigners, RemoveOwn, WipeDownstream, At, CarryInv, AnswersInv, AsksAnswering
    <3> QED
      BY <1>3, <3>2, <3>3, <3>4, <3>5, <3>6, <3>7 DEF StepOf, Progress
  <2> QED
    BY <1>1, <2>1, <2>2 DEF CarryInv
<1> QED
  BY <1>2, <1>3 DEF Next, StepOf, Quiescent

\* A new document has its draft item and nobody in flight.
LEMMA CarryInit ==
    ASSUME SignedModel, Init
    PROVE  CarryInv
<1>1. AnswersInv
  BY AnswersInit DEF SignedModel
<1>2. DocumentRowKept /\ ExitWaitsForPriority /\ FlowNeverDies /\ DraftFirst
  BY DEF Init, DocumentRowKept, ExitWaitsForPriority, FlowNeverDies, DraftFirst
<1>3. \A s \in Session : Carries(s)
  BY DEF Init, Carries
<1> QED
  BY <1>1, <1>2, <1>3 DEF CarryInv

\* setProcessor until the first return, with one candidate per signer type, when
\* an item is submitted only once at a time: whatever stages the model has,
\* however their branches overlap and whichever requests fail, the document has
\* an open item until it reaches an end event.
THEOREM SingleSignersCarryOn ==
    ASSUME SignedModel, OneCandidate, ~Resubmit
    PROVE  Spec => [](~Returned => FlowNeverDies)
<1> DEFINE Inv == TypeOK /\ (Returned \/ CarryInv)
<1>1. Init => Inv
  BY CarryInit, TypeInit
<1>2. Inv /\ [Next]_vars => Inv'
  <2> SUFFICES ASSUME Inv, [Next]_vars, ~Returned' PROVE CarryInv'
    BY TypeStep
  <2>1. ~Returned
    BY ReturnedStays
  <2> QED
    BY <2>1, CarryStep
<1>3. Inv => (~Returned => FlowNeverDies)
  BY DEF CarryInv
<1> QED
  BY <1>1, <1>2, <1>3, PTL DEF Spec
=============================================================================
