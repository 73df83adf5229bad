SPECIFICATION FairSpec
CONSTANT MaxPings <- MCMaxPings
INVARIANTS
  TypeOK
  FlowComplete
  JdNewestAccepted
PROPERTY ConfigCompletes
