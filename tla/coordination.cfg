\* Three agents, two calls at alice that overlap, either of which may die, one task.
SPECIFICATION Spec
CONSTANTS
  alice = alice
  bob = bob
  carol = carol
  p1 = p1
  p2 = p2
  p3 = p3
  Agent = {alice, bob, carol}
  Proc = {p1, p2, p3}
  Home <- Homes
  Id = {i1, i2}
  Req = {q1}
  Intent = {"request", "accept", "handoff"}
  Trust <- Trusts
  Knows = {alice, bob}
  Crashers = {p1, p2}
  MaxSent = 2
  MaxTime = 2
  NoAgent = NoAgent
  NoReq = NoReq
  NoId = NoId
INVARIANTS  AcceptedByItself 
SYMMETRY CallSymmetry
CHECK_DEADLOCK FALSE
