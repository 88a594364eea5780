---------------------------- MODULE MCClaimStore ----------------------------
(***************************************************************************)
(* Instances of ClaimStore: a store where no id is held yet, and one whose *)
(* friend f1 has held e1 since before there were claims.                   *)
(***************************************************************************)
EXTENDS ClaimStore

HeldByNobody == [f \in Friend |-> {}]
F1Holds      == [f \in Friend |-> IF f = "f1" THEN {"e1"} ELSE {}]
=============================================================================
