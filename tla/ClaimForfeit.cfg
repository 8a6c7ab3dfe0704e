SPECIFICATION GameSpec
CONSTANTS
  p1 = p1
  p2 = p2
  p3 = p3
  p4 = p4
  NoPeer = NoPeer
  Users = {1, 2, 3}
  Peers = {p1, p2, p3, p4}
  NumSeats = 3
  BoundSeat <- NoBinding
  Tokens <- GameTokens
  ResumeMode = FALSE
  PlayerCounts = {3}
  MaxGen = 4
PROPERTIES ForfeitIsFinal
CHECK_DEADLOCK FALSE
