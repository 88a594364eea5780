--------------------------- MODULE IdentityBinding ---------------------------
(***************************************************************************)
(* What claiming an external id promises: an id is bound to one friend, in *)
(* one step, and every claim that succeeds names that friend.              *)
(***************************************************************************)
CONSTANTS
  Ext,      \* external ids
  Friend,   \* friends
  NoFriend  \* "nobody"

VARIABLES
  owner,    \* [Ext -> the friend it is bound to, or NoFriend]
  granted   \* the pairs <<id, friend>> that claims answered

Init ==
  /\ owner \in [Ext -> Friend \cup {NoFriend}]
  /\ granted = {}

Bind(e, f) ==
  /\ owner[e] = NoFriend
  /\ owner' = [owner EXCEPT ![e] = f]
  /\ UNCHANGED granted

Grant(e) ==
  /\ owner[e] \in Friend
  /\ granted' = granted \cup {<<e, owner[e]>>}
  /\ UNCHANGED owner

Next == \E e \in Ext : Grant(e) \/ \E f \in Friend : Bind(e, f)

Spec == Init /\ [][Next]_<<owner, granted>>
=============================================================================
