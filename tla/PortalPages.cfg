SPECIFICATION FairSpec
CONSTANTS
  m1 = m1
  m2 = m2
  s1 = s1
  Session = {s1}
  NoSession = NoSession
  Match = {m1, m2}
  NoMatch = NoMatch
  Ask = {a1, a2}
  Snapshots <- SnapshotsOf
  NoSnapshot = NoSnapshot
  Replayed = {m1}
  PartIn <- Parts
  Name = {"Ann"}
  Email = {"a@x"}
  NoEmail = NoEmail
  NoUser = NoUser
  Form = {"display_name", "bind_email", "device"}
  Call = {c1, c2}
  LowerOf <- Lowered
  CountOf <- Counts
  MaxUnusual = 2
  ReportModules = {"base_products", "base_employees", "coffee", "rural_marketeers"}
INVARIANTS TypeOK MatchOrReason SuccessIsTrue 
PROPERTIES LoadingEnds FormAnswers
