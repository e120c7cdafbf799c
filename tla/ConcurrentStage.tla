-------------------------- MODULE ConcurrentStage --------------------------
(***************************************************************************)
(* The parts of the circulation of an outgoing document that only read the *)
(* BPMN model: which nodes form a concurrent stage, when the stage is      *)
(* complete, by which flow it is left, and which step a step without       *)
(* pending signers is skipped to.                                          *)
(*                                                                         *)
(* Source: bpmn/concurrent-stage.orchestrator.ts and the helpers of        *)
(* bpmn/runtime-dbmssql.service.ts it calls back.                          *)
(***************************************************************************)
EXTENDS Naturals, FiniteSets

CONSTANTS
    Node,         \* interactive BPMN nodes and end events
    EndEvent,     \* the nodes of $type bpmn:EndEvent
    Flow,         \* forward sequence flows <<source, target>>
    ReturnFlow,   \* sequence flows whose action is TRA_LAI
    FirstFlow,    \* the target of the forward flow listed first, or None
    StepKey,      \* executeConcurrentByStep of a node, or None
    StartStep,    \* nodes with isStartConcurrentStep
    EndStep,      \* nodes with isEndConcurrentStep
    PriorityNode, \* nodes with isPriorityConcurrentNode
    Main,         \* the number in a node's "main" property
    SignType,     \* signer types
    TypeOf,       \* signerRequired or processRequired of a node, or None
    None

ASSUME ModelAssumption ==
    /\ None \notin Node \cup SignType
    /\ EndEvent \subseteq Node
    /\ Flow \subseteq Node \X Node
    /\ ReturnFlow \subseteq Node \X Node
    /\ FirstFlow \in [Node -> Node \cup {None}]
    /\ StepKey \in [Node -> Node \cup {None}]
    /\ StartStep \subseteq Node
    /\ EndStep \subseteq Node
    /\ PriorityNode \subseteq Node
    /\ Main \in [Node -> Nat]
    /\ TypeOf \in [Node -> SignType \cup {None}]
    /\ \A n \in EndEvent : TypeOf[n] = None

----------------------------------------------------------------------------
(* The stage a node belongs to. *)

StageKey(n) ==
    IF StepKey[n] # None THEN StepKey[n]
    ELSE IF n \in StartStep THEN n ELSE None

InStage(n) == StageKey(n) # None

StageNodes(n) == {m \in Node : InStage(n) /\ StageKey(m) = StageKey(n)}

StagePriority(n) == StageNodes(n) \cap PriorityNode

----------------------------------------------------------------------------
(* Progress of the stage of n, given the nodes that have an open item. *)

\* Nodes a breadth-first search from p reaches in at most k flows without
\* leaving the stage; the search follows every sequence flow.
WithinStage(p) ==
    LET targets(q) == {m \in StageNodes(p) : <<q, m>> \in Flow \cup ReturnFlow}
        reach[k \in Nat] ==
          IF k = 0 THEN {p} ELSE UNION {{q} \cup targets(q) : q \in reach[k - 1]}
    IN  reach[Cardinality(Node)]

\* Mutant: the items are read outside the transaction, so n counts as open.
CoversStageStale(n, openNodes) ==
    /\ \E p \in StagePriority(n) : n \in WithinStage(p)
    /\ StagePriority(n) \cap (openNodes \cup {n}) = {}

\* Completing n closes the rest of the stage: n is a priority node or lies
\* behind one, and no priority node is open any more.
CoversStage(n, openNodes) ==
    /\ \E p \in StagePriority(n) : n \in WithinStage(p)
    /\ StagePriority(n) \cap openNodes = {}

\* The nodes whose items are dropped when the priority nodes are through.
CoveredNodes(n) == StageNodes(n) \ PriorityNode

\* Mutant: one priority node is enough.
StageCompleteOnAny(n, openNodes) ==
    IF StagePriority(n) # {}
      THEN StagePriority(n) \ openNodes # {}
      ELSE \/ (StageNodes(n) \cap EndStep) \ openNodes # {}
           \/ StageNodes(n) \cap openNodes = {}

StageComplete(n, openNodes) ==
    IF StagePriority(n) # {}
      THEN StagePriority(n) \cap openNodes = {}
      ELSE \/ (StageNodes(n) \cap EndStep) \ openNodes # {}
           \/ StageNodes(n) \cap openNodes = {}

----------------------------------------------------------------------------
(* Leaving the stage. *)

ExitFlows(n) == {f \in Flow : f[1] \in StageNodes(n) /\ f[2] \notin StageNodes(n)}

\* End steps first, then the higher "main"; the last tie-break, by node id,
\* is left open.
Precedes(f, g) ==
    \/ f[1] \in EndStep /\ g[1] \notin EndStep
    \/ /\ f[1] \in EndStep <=> g[1] \in EndStep
       /\ Main[f[1]] > Main[g[1]]

BestExits(n) ==
    {f \in ExitFlows(n) : \A g \in ExitFlows(n) : ~Precedes(g, f)}

ExitTargets(n) == {f[2] : f \in BestExits(n)}

----------------------------------------------------------------------------
(* The step reached from n along the first forward flows when signer steps *)
(* without pending signers are passed over; None if the walk ends nowhere. *)

MaxDepth == 10

NextStepWithSigners(n, hasPending) ==
    LET walk[d \in 0..MaxDepth] ==
          [m \in Node |->
             IF d = 0 \/ FirstFlow[m] = None THEN None
             ELSE LET x == FirstFlow[m] IN
                  IF x \in EndEvent \/ TypeOf[x] = None \/ hasPending[x]
                    THEN x
                    ELSE walk[d - 1][x]]
    IN  walk[MaxDepth][n]
=============================================================================
