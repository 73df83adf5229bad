CONSTANTS
  Nets = {home}
  TestAp = TestAp
  NoNet = NoNet
  OnboardTime = 2
  SendTimes = 2
  TestScans = 1
SPECIFICATION FairSpec
INVARIANTS TypeOK NetworkTakesEffect
PROPERTIES OnboardingEnds AnnouncementEnds
CHECK_DEADLOCK FALSE
