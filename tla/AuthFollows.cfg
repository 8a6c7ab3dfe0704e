SPECIFICATION FairSpec
CONSTANTS
  u1 = u1
  u2 = u2
  NoSession = NoSession
  NoUser = NoUser
  NoPage = NoPage
  NoTab = NoTab
  NoCall = NoCall
  Tab = {t1, t2}
  Call = {c1, c2}
  Session = {s1}
  User = {u1, u2}
  Admin <- Admins
  Guest <- Guests
  OwnerOf <- Owners
  Page = {"login", "game"}
PROPERTIES FollowsShared SignOutReachesEveryTab
