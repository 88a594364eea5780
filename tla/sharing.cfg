SPECIFICATION Spec
CONSTANTS
  Request = {"ping", "new", "family", "share", "revoke", "again", "list", "note", "name", "outcome", "later"}
  Script <- Pipeline
  Body <- Bodies
  MaxChunk = 3
  MaxRestarts = 1
  Grant = {"g0", "g1"}
  Given <- Grants
  Existing = {"g0"}
  Tool <- Tools
  Peer = {"ann", "bob"}
  Trust <- Trusts
  MaxTime = 1
  MaxOpen = 2
  NoGrant = "no grant"
INVARIANTS
  SharingInv
  RevocationHolds
  GrantsHonoured
  NoneLeftLying
CHECK_DEADLOCK FALSE
