SPECIFICATION AccessSpec
CONSTANTS
  Users = {u1, u2}
  Names <- MCNames
  Fold <- MCFold
  Skel <- MCSkel
  Certs = {f}
  Nobody = nobody
  AdditionalNickLimit = 2
  MaxAccountOps = 3

  c1 = c1
  c2 = c2
  op = op
  Folk = {c1, c2, op}
  Oper = op
  NoOwner = "none"
  AccountOfFolk <- MCAccountOfFolk
  ChanListModes = 1
  MaxChannelOps = 4

  RegistrationMessages = 5
  MaxConversations = 2
  MaxRehashes = 1

  SessionCaps <- MCCaps
  BurstLimit = 2
  MessagesPerWindow = 1
  CommandBudget = 1
  MaxLines = 2
  MaxTokenChunks = 1
  MaxCommands = 5
INVARIANTS
  ReservationsMatchDb
  CertIndexExact
  LoggedInIsAllowed
  InvitesSuffice
  AdmittedHasProved
  
  FakelagExact
PROPERTY
  FounderKeepsChannel
CHECK_DEADLOCK FALSE
