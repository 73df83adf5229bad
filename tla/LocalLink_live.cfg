SPECIFICATION FairSpec
CONSTANTS
  LanApps = {a1}
  CloudApps = {}
  NoApp = NoApp
  MaxSends = 3
  MaxPings = 2
  SnMod = 3
  Kinds <- AllKinds
  MaxLine = 1
  MaxDepth = 2
PROPERTIES
  ImplementsStopAndWait
  MainLoopComesBack
  MuteMcuRestarts
