SPECIFICATION FairSpec
CONSTANTS
  W = 5
  Period = 2
  MaxLag = 1
  MaxSamples = 2
  FlexDelay = 2
  MaxHog = 1
  MaxResets = 2
INVARIANTS TypeOK Configured WholeAndFresh WrongScaleFirstOnly PostsFindQueue
PROPERTIES KeepsPace Resumes
CHECK_DEADLOCK FALSE
