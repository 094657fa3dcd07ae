SPECIFICATION ConnectionsSpec
CONSTANTS
  Conns = {i1, i2}
  Resident = r
  Others = {o}
  Account = a
  Nicks = {a, n, m}
  Skeleton <- MCSkeleton
  Gateway = gw
  Home = home
  MaxConcurrent = 2
  MaxCommands = 2
  MaxOutside = 1
  ForceNickEqualsAccount = TRUE
  None = None

  b1 = b1
  n1 = n1
  n2 = n2
  m1 = m1
  BanConns = {b1}
  BanOpers = {o1, o2}
  Nets = {n1, n2}
  Masks = {m1}
  ConnsIn <- MCConnsIn
  ShownBy <- MCShownBy
  MatchedBy <- MCMatchedBy
  MaxBanOps = 2
SYMMETRY MCSymmetry
INVARIANTS
  NickMapsAgree
  StatsExact
  LimiterExact
  NoOrphan
  DestroyedIsForgotten
  AlwaysOnNick
  BansSurviveRestart
  
CHECK_DEADLOCK FALSE
