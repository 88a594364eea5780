SPECIFICATION Spec
CONSTANTS
  Agent = {"ann", "bob", "cat"}
  Id = {"i1", "i2", "i3"}
  Key = {"k"}
  Value = {"a0", "a1", "a2", "b1", "c1"}
  None = None
  Torn = Torn
  MaxClaims = 2
  Op = {"note1", "note2", "heard", "own", "tell1", "tell2", "back", "name1", "name2", "name3", "link", "relink", "intro", "met", "rumour", "gossip", "record1", "record2", "record3", "ledger1", "learned", "ledger2"}
  Plan <- Calls
  Plans <- Behaviours
  Origin <- Origins
  Trust <- TrustTable
  Starts <- Known
  Stray <- Strays
  Rec = {"r1", "r2", "r3"}
  Mis = {"m1", "m2"}
  MaxTime = 1
  MaxCrashes = 1
INVARIANTS
  
  
  
  
  
  ClaimsBounded
PROPERTIES
  StandingIsEarned
CHECK_DEADLOCK FALSE
