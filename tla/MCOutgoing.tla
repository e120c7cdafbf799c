----------------------------- MODULE MCOutgoing -----------------------------
(***************************************************************************)
(* Small process models for OutgoingWorkflow.  A node is written in upper  *)
(* case, its lane r and its signer type t with its lower case letter.      *)
(***************************************************************************)
EXTENDS OutgoingWorkflow, TLC

\* The users of every lane: the drafter, two signers A, one signer else.
LaneMembers == [r \in {"rd", "re", "ra", "rb", "rc", "rq", "rx"} |->
                  CASE r = "rd" -> {"d"} [] r = "re" -> {"e"}
                    [] r = "ra" -> {"a1", "a2"} [] r = "rb" -> {"b", "b2"}
                    [] r = "rc" -> {"c"} [] r = "rq" -> {"q", "q2"}
                    [] r = "rx" -> {"x"}]

OneSigner == [T \in SignType |->
                CASE T = "ta" -> {"a1"} [] T = "tb" -> {"b"} [] T = "tc" -> {"c"}
                  [] T = "te" -> {"e"} [] T = "tq" -> {"q"} [] T = "tx" -> {"x"}]
TwoSigners == [OneSigner EXCEPT !["ta"] = {"a1", "a2"}]

TypeIn(Signer) == [n \in Node |->
    IF n \notin Signer THEN None
    ELSE CASE n = "A" -> "ta" [] n = "B" -> "tb" [] n = "C" -> "tc"
           [] n = "E" -> "te" [] n = "Q" -> "tq" [] n = "X" -> "tx"]
LaneIn == [n \in Node |->
    CASE n = "A" -> "ra" [] n = "B" -> "rb" [] n = "C" -> "rc"
      [] n = "E" -> "re" [] n = "Q" -> "rq" [] n = "X" -> "rx"
      [] OTHER -> "rd"]
NoStep == [n \in Node |-> None]
NoRank == [n \in Node |-> 0]

----------------------------------------------------------------------------
(* D, then a stage of the priority signers A and B and the signer Q, left   *)
(* from A, then X.                                                          *)
StageFlow == {<<"D", "A">>, <<"A", "X">>, <<"B", "X">>, <<"Q", "X">>, <<"X", "Z">>}
StageFirst == [n \in Node |-> CASE n = "D" -> "A" [] n = "X" -> "Z"
                                [] n = "Z" -> None [] OTHER -> "X"]
StageStep == [n \in Node |-> IF n \in {"B", "Q"} THEN "A" ELSE None]
StageRank == [n \in Node |-> IF n = "A" THEN 1 ELSE 0]
StageReturn == {<<"A", "D">>, <<"B", "D">>}
StageType == TypeIn({"A", "B", "Q", "X"})

----------------------------------------------------------------------------
(* The signers A, B and C one after the other; B and C can send the document *)
(* back to the drafter, C also to A.                                         *)
ChainFlow == {<<"D", "A">>, <<"A", "B">>, <<"B", "C">>, <<"C", "Z">>}
ChainReturn == {<<"B", "D">>, <<"C", "D">>, <<"C", "A">>}
ChainFirst == [n \in Node |-> CASE n = "D" -> "A" [] n = "A" -> "B" [] n = "B" -> "C"
                                [] n = "C" -> "Z" [] OTHER -> None]
ChainType == TypeIn({"A", "B", "C"})

----------------------------------------------------------------------------
(* A step E before a stage of A and B, which the drafter may pass over; A    *)
(* sends the document back to the drafter.                                   *)
DetourFlow == {<<"D", "E">>, <<"D", "A">>, <<"E", "A">>,
               <<"A", "X">>, <<"B", "X">>, <<"X", "Z">>}
DetourReturn == {<<"A", "D">>}
DetourFirst == [n \in Node |-> CASE n = "D" -> "E" [] n = "E" -> "A" [] n = "X" -> "Z"
                                 [] n = "Z" -> None [] OTHER -> "X"]
DetourStep == [n \in Node |-> IF n = "B" THEN "A" ELSE None]
DetourType == TypeIn({"A", "B", "E", "X"})

=============================================================================
