--------------------------- MODULE MCCoordination ---------------------------
(* Model checking of Coordination: who trusts whom, and who runs the calls. *)
EXTENDS Coordination, TLC

CONSTANTS alice, bob, carol, p1, p2, p3

\* p1 and p2 run at alice.
Homes == (p1 :> alice @@ p2 :> alice @@ p3 :> bob)

\* alice and bob are friends; alice also writes to carol, who does nothing here.
Trusts ==
  (alice :> (alice :> "friend" @@ bob :> "friend" @@ carol :> "friend")
   @@ bob :> (alice :> "friend" @@ bob :> "friend" @@ carol :> "stranger")
   @@ carol :> (alice :> "friend" @@ bob :> "stranger" @@ carol :> "friend"))

CallSymmetry == Permutations(Id) \cup Permutations({p1, p2})
=============================================================================
