SPECIFICATION Spec
CONSTANTS
  Proc = {p1}
  Friend = {"f1", "f2", "f3"}
  Ext = {"e1"}
  Op = {"claim", "unlink", "link"}
  Existing = {"f1"}
  Crashers = {}
  MaxInc = 2
  MaxTries = 2
  Held <- HeldByNobody
  NoFriend = NoFriend
  NoExt = NoExt
PROPERTIES
  UnlinkClearsJournal
