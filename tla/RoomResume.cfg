SPECIFICATION Spec
CONSTANTS
  p1 = p1
  p2 = p2
  p3 = p3
  p4 = p4
  NoPeer = NoPeer
  Users = {1, 2}
  Peers = {p1, p2, p3}
  NumSeats = 2
  BoundSeat <- SecondBound
  Tokens <- ResumeTokens
  ResumeMode = TRUE
  PlayerCounts = {2}
  MaxGen = 2
INVARIANTS OnePlace NoPhantomPeer
PROPERTIES TimersSparePresent
CONSTRAINT ResumeBound
CHECK_DEADLOCK FALSE
