------------------------------ MODULE MCBulletin ------------------------------
(***************************************************************************)
(* Bulletin with a history variable that tells the behaviours in which     *)
(* requests run one after the other from the others: what the handlers     *)
(* promise is checked in the first, what remains of it in all of them.     *)
(***************************************************************************)
EXTENDS Bulletin

CONSTANT MaxOverlap  \* bound: HTTP requests in a behaviour with overlaps

VARIABLE overlapped  \* history: were two requests ever at work together?

Overlapping == \E s, q \in Request : s # q /\ ~At(s, "idle") /\ ~At(q, "idle")

MCInit == Init /\ overlapped = FALSE

MCNext ==
    /\ Next
    /\ overlapped' = (overlapped \/ Overlapping')
    /\ (overlapped' /\ requests' # requests) => requests' <= MaxOverlap

MCSpec == MCInit /\ [][MCNext]_<<vars, overlapped>>

\* approve, update, reject and updateWorkflow, as long as nothing overlaps and
\* no statement fails: before a bulletin is approved or public, every step that
\* stayed in the workflow since the submission has approved what it says now.
StepsApprovedInTurn == (~overlapped /\ failures = 0) => AllStepsApproved
=============================================================================
