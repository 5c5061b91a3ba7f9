SPECIFICATION FairSpec
CONSTANTS
  IDT_ENTRIES = 48
  Lines = {0, 12}
  Drivers = {"timer", "mouse"}
  NoHandler = "null"
  WIDTH = 8
  SECOND = 2
  Sleeps = {0, 2, 3, 5}
  Frequencies = {2}
  TimerDriver = "timer"
  Others <- MCOthers
INVARIANTS NothingLeftInService OnlyFaultsStop
PROPERTIES SleepLasts SleepEnds
CHECK_DEADLOCK FALSE
