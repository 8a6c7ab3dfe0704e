SPECIFICATION FairSpec
CONSTANTS
  p1 = p1
  p2 = p2
  p3 = p3
  p4 = p4
  NoPeer = NoPeer
  Users = {1, 2}
  Peers = {p1, p2, p3}
  NumSeats = 2
  BoundSeat <- NoBinding
  Tokens <- NormalTokens
  ResumeMode = FALSE
  PlayerCounts = {2}
  MaxGen = 3
INVARIANTS TypeOK RosterAgreement GameSeated LobbyHasHost LobbySeatCovered
PROPERTIES ImplementsLease LobbyHostReturns AwayResolved
CHECK_DEADLOCK FALSE
