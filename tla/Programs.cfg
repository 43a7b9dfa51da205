CONSTANTS
  SqlUsers = {u1, u2}
  PoolNumber = 2
  MaxSqlFails = 1
  Conns = {d1, d2, d3}
  ConnMax = 2
  LogWorkers = {w1}
  LogLevels = {0, 2}
  LogTexts = {"a", "b"}
  MaxLogLines = 3
  MaxLogFails = 1
  NeedRead = 2
  ReplyLength = 3
  MaxAgain = 2
  LoadCalls = 3
  EchoClients = {e1, e2}
  EchoFds = {0, 4}
  EchoBuff = 2
  MaxEcho = 2
  ForkClients = {f1, f2}
  PipeCapacity = 1
  LoggerReads = 2
  MaxForkSends = 2
  MaxForkFails = 1
  ThreadClients = {h1, h2}
  ThreadFds = {4, 5, 6, 7}
  Requests = {"bad", "file", "missing", "plain"}
  MaxSays = 1
  StreamBuff = 2
  StreamRoom = 3
  MaxTyped = 4
SPECIFICATION MCSpec
INVARIANTS
  ProgramTypes
  SqlNodeUse
  ConnLedger
  LogLines
  LogFaultsNeedCause
  ReplyInOrder
  TotalIsAnswers
  EchoExact
  ZombieLedger
  ChatTableExact
  HttpAnswersOwn
PROPERTIES
  PairsFinish
  SigtermHandled
  EchoServed
  ClientsReleased
\* Every program can stop: its clients are done, or it has crashed.
CHECK_DEADLOCK FALSE
