\* wificfg with a network that has no psk.
CONSTANTS
  CliStates = {}
  Networks = {"open"}
  TimerArgs = {}
  Chores = {}
  CliMax = 1
  MaxQ = 3
  Faults = FALSE
  Foreign = FALSE
  InitRace = FALSE
SPECIFICATION FairSpec
PROPERTY ConnectsOpen
CHECK_DEADLOCK FALSE
