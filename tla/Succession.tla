----------------------------- MODULE Succession -----------------------------
(***************************************************************************)
(* What key rotation promises: a DID is met once and may name one heir,    *)
(* once, that was not known before.  No DID has two predecessors, and one  *)
(* that has an heir is out for good.                                       *)
(***************************************************************************)
CONSTANTS Did, NoDid

VARIABLES
  known,  \* the DIDs met so far
  heir    \* [Did -> the DID that took over from it, or NoDid]

Init == known = {} /\ heir = [d \in Did |-> NoDid]

Meet(d) ==
  /\ d \notin known
  /\ known' = known \cup {d}
  /\ UNCHANGED heir

Succeed(d, e) ==
  /\ d \in known /\ heir[d] = NoDid
  /\ e \notin known
  /\ known' = known \cup {e}
  /\ heir' = [heir EXCEPT ![d] = e]

Next == \E d \in Did : Meet(d) \/ \E e \in Did : Succeed(d, e)

Spec == Init /\ [][Next]_<<known, heir>>
=============================================================================
