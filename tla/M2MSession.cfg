SPECIFICATION Spec
CONSTANTS
  Modes <- ServiceOrOnboarding
  MaxBackoff = 2
  MaxPing = 1
  IdMod = 5
  MaxSent = 2
  MaxInbox = 2
INVARIANTS
  TypeOK
  RunningIsSubscribed
  NoOrphanSession
