------------------------------ MODULE MCPeers ------------------------------
(***************************************************************************)
(* Instances of Peers.  r1 is a friend of the owner's from an earlier      *)
(* version: it holds the agent's id and a legacy grant, and no DID.        *)
(***************************************************************************)
EXTENDS Peers, TLC

CONSTANTS p1, p2, r1, r2, r3

OldFriend == [ext |-> {"agent"}, trust |-> Family, did |-> NoDid, reset |-> FALSE,
              grant |-> TRUE, profile |-> TRUE]
OneFriend == [r \in Rec |-> IF r = r1 THEN OldFriend ELSE Absent]

HostNamed == [x \in LocalId |-> "user@host"]

OursMembers == [ro \in Roster |-> IF ro = "ours" THEN {"d1"} ELSE {"d1", "d2"}]
OursSigned  == [ro \in Roster |-> IF ro = "ours" THEN "k1" ELSE "k2"]

CallSymmetry == Permutations({p1, p2}) \cup Permutations({r2, r3})
=============================================================================
