----------------------------- MODULE MCSharing -----------------------------
(***************************************************************************)
(* Instances of Sharing.  A client pipelines a new grant, shares that ask  *)
(* for it and for an old grant, revocations of the old one, a listing and  *)
(* a notification, in both framings; and one whose first request has a     *)
(* body that is longer in bytes than in characters.                        *)
(***************************************************************************)
EXTENDS Sharing

For(peer, scope, expires) == [peer |-> peer, scope |-> scope, expires |-> expires]
Grants == [g \in Grant |-> IF g = "g0" THEN For("bob", "notes:safe", 0) ELSE For("ann", "outcomes", 1)]

Ask(op, g)                 == [op |-> op, grant |-> g, form |-> For("bob", "name", 0), policy |-> "tiered"]
Share(peer, scope, policy) == [op |-> "share", grant |-> NoGrant, form |-> For(peer, scope, 0), policy |-> policy]

Tools == [q \in Request |->
  CASE q = "new"                -> Ask("grant", "g1")
    [] q \in {"revoke", "again"} -> Ask("revoke", "g0")
    [] q = "list"               -> Ask("list", NoGrant)
    [] q = "share"              -> Share("bob", "notes:safe", "tiered")
    [] q = "outcome"            -> Share("ann", "outcomes", "strict")
    [] q = "later"              -> Share("bob", "notes:safe", "trust_implied")
    [] q = "name"               -> Share("bob", "name", "tiered")
    [] q = "family"             -> Share("ann", "identity", "tiered")
    [] OTHER                    -> Ask("ping", NoGrant)]

Plain(framing, id) == [framing |-> framing, chars |-> 1, bytes |-> 1, id |-> id]
Bodies == [q \in Request |-> IF q = "note" THEN Plain("line", FALSE)
                             ELSE IF q \in {"share", "list"} THEN Plain("line", TRUE)
                             ELSE Plain("length", TRUE)]
WideBodies == [q \in Request |-> [framing |-> "length", chars |-> 2, bytes |-> IF q = "family" THEN 3 ELSE 2, id |-> TRUE]]

Pipeline == <<"ping", "new", "family", "share", "revoke", "again", "list", "note", "name", "outcome", "later">>
ShortPipeline == <<"family", "later">>
Trusts   == [p \in Peer |-> IF p = "ann" THEN Family ELSE Stranger]
=============================================================================
