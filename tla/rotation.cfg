SPECIFICATION RetrySpec
CONSTANTS
  Did = {"a", "b", "c"}
  WebDid = {"c"}
  Key = {"ka", "kb", "kc"}
  KeyOf <- KeyNamed
  NoDid = NoDid
  NoKey = NoKey
  MaxTime = 1
  Skew = 1
  AcceptUndated = {"a"}
  Proc = {p1, p2}
  Rec = {"r1", "r2"}
  Crashers = {p1}
  MaxHops = 1
INVARIANTS
  
  RecordInv
PROPERTIES
  TombstonesStay
  
  ImplementsSuccession
  PeersStayApart
  
CHECK_DEADLOCK FALSE
