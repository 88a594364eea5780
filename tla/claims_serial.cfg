SPECIFICATION Spec
CONSTANTS
  Proc = {p1}
  Friend = {"f1", "f2"}
  Ext = {"e1", "e2"}
  Op = {"claim", "link", "seat", "unlink", "delete"}
  Existing = {"f1"}
  Crashers = {p1}
  MaxInc = 2
  MaxTries = 2
  Held <- F1Holds
  NoFriend = NoFriend
  NoExt = NoExt
PROPERTIES
  NoIdLost
