----------------------------- MODULE AcceptOnce -----------------------------
(***************************************************************************)
(* What replay protection promises, with no ledger, no in-flight set and   *)
(* no concurrency: of all the sealed blobs that carry one delivery         *)
(* identity, at most one is ever accepted, and in one step.                *)
(***************************************************************************)
EXTENDS Naturals

CONSTANTS
  Blob,       \* the sealed blobs that may arrive
  IdentityOf  \* [Blob -> identity]: what makes two blobs the same delivery

VARIABLE accepted  \* [Blob -> Nat]: how often each blob was accepted

Init == accepted = [b \in Blob |-> 0]

Accept(b) ==
  /\ \A c \in Blob : IdentityOf[c] = IdentityOf[b] => accepted[c] = 0
  /\ accepted' = [accepted EXCEPT ![b] = 1]

Next == \E b \in Blob : Accept(b)

Spec == Init /\ [][Next]_accepted
=============================================================================
