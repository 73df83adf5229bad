SPECIFICATION Spec
CONSTANTS
  LAN_TCPCLIENT_MAX = 1
  Fds = {f1, f2}
  NoFd = NoFd
  MaxLive = 1
  ApFactor = 2
  BindTime = 1
  Steps = {1}
  Modes <- StationOnly
  WanCounts = {0}
  MaxNums = 2
INVARIANT
  LoginBelongsToConnection
