SPECIFICATION RetrySpec
CONSTANTS
  Proc = {p1, p2}
  Friend = {"f1", "f2", "f3"}
  Ext = {"e1", "e2"}
  Op = {"claim", "update"}
  Existing = {"f1"}
  Crashers = {p1}
  MaxInc = 2
  MaxTries = 2
  Held <- F1Holds
  NoFriend = NoFriend
  NoExt = NoExt
INVARIANTS
  ClaimInv
  Unambiguous
  GrantsHold
PROPERTIES
  ImplementsBinding
  PendingSettles
