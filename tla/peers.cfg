SPECIFICATION Spec
CONSTANTS
  p1 = p1
  p2 = p2
  r1 = r1
  r2 = r2
  r3 = r3
  Proc = {p1, p2}
  Crashers = {p1, p2}
  Roster = {"ours", "theirs"}
  Key = {"k1", "k2"}
  Did = {"d1", "d2"}
  Members <- OursMembers
  SignedBy <- OursSigned
  Rec = {r1, r2, r3}
  Existing <- OneFriend
  AgentId = {"agent", "other"}
  HumanId = {"human"}
  LocalId = {"user"}
  OwnerId = {"user"}
  Legacy <- HostNamed
  GroupId = {"group"}
  Candidate = {"d1"}
  Level = {0, 1, 4}
  Sense = {"local", "closed", "open"}
  Op = {"onboard","connect","set_trust","touch","group","resolve","roster"}
  MaxCalls = 3
  NoRec = NoRec
  NoId = NoId
  NoDid = NoDid
  NoKey = NoKey
  NoRoster = NoRoster
INVARIANTS
  PeersInv
  AuthorityWasGiven
  LogIsTrue
  OneKeyGrantsFamily
PROPERTIES
  RaisesAreDeliberate
SYMMETRY CallSymmetry
CHECK_DEADLOCK FALSE
