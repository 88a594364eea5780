SPECIFICATION Spec
CONSTANTS
  Request = {"family", "later"}
  Script <- ShortPipeline
  Body <- WideBodies
  MaxChunk = 5
  MaxRestarts = 0
  Grant = {"g0", "g1"}
  Given <- Grants
  Existing = {"g0"}
  Tool <- Tools
  Peer = {"ann", "bob"}
  Trust <- Trusts
  MaxTime = 1
  MaxOpen = 2
  NoGrant = "no grant"
INVARIANT MessagesReadAsSent
CHECK_DEADLOCK FALSE
