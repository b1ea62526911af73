SPECIFICATION PullFairSpec
CONSTANTS
  Header = 2
  Body = 2
  Frames = 3
  Cap = 2
  MaxGarbage = 3
  Wants = {"channel", "width"}
  MaxPolls = 1
  Clocks = 2
  wlan100 = wlan100
  mon7 = mon7
  eth0 = eth0
  Name = {wlan100, mon7, eth0}
  Known <- MCKnown
  Skipped = {eth0}
  MaxListed = 2
  Rounds = 2
CHECK_DEADLOCK FALSE
INVARIANTS
  PrefixUnlessTorn
  CapHolds
  CleanEnd
  SettingsTook
  TapFound
PROPERTIES
  StopEndsPull
  AnswersHeard
