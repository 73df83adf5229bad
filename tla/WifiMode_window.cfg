CONSTANTS
  Nets = {home}
  TestAp = TestAp
  NoNet = NoNet
  OnboardTime = 2
  SendTimes = 2
  TestScans = 1
SPECIFICATION FairSpec
PROPERTY HotspotCloses
CHECK_DEADLOCK FALSE
