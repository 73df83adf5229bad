SPECIFICATION Spec
CONSTANTS
  LanApps = {a1, a2}
  CloudApps = {c1}
  NoApp = NoApp
  MaxSends = 3
  MaxPings = 1
  SnMod = 3
  Kinds <- AllKinds
  MaxLine = 2
  MaxDepth = 2
INVARIANTS
  TypeOK
  BusyMatchesCall
  ReplyToRequester
