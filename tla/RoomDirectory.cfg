SPECIFICATION FairSpec
CONSTANTS
  Code = {c1}
  MaxStops = 2
  MaxLost = 2
INVARIANTS TypeOK SettledAgrees ReportedOnce
PROPERTIES NeverRevived RemoteEndReachesServer GhostsLeaveDirectory EndedIsReported
