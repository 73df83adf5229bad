SPECIFICATION FairSpec
CONSTANTS
  LAN_TCPCLIENT_MAX = 2
  Fds = {f1, f2, f3}
  NoFd = NoFd
  MaxLive = 1
  ApFactor = 2
  BindTime = 1
  Steps = {1, 2}
  Modes <- ApOrStation
  WanCounts = {0, 1}
  MaxNums = 2
INVARIANTS
  TypeOK
  FdOwnership
  CountedReported
  BindingMatchesCountdown
PROPERTIES
  SessionKept
  SilentClientDropped
  BindingWindowCloses
