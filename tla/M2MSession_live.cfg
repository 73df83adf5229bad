SPECIFICATION FairSpec
CONSTANTS
  Modes <- ServiceOrOnboarding
  MaxBackoff = 2
  MaxPing = 1
  IdMod = 3
  MaxSent = 1
  MaxInbox = 1
PROPERTIES
  StaleReportWithdrawn
  DeadSessionNoticed
  LoginCompletes
  MuteBrokerRestarts
