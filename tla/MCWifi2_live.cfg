\* wificfg after any other commands: the network is reached, a lost link noticed.
CONSTANTS
  CliStates <- AllButConnect
  Networks = {"wpa", "open"}
  TimerArgs = {0}
  Chores <- AllChores
  CliMax = 2
  MaxQ = 3
  Faults = FALSE
  Foreign = TRUE
  InitRace = FALSE
SPECIFICATION FairSpec
PROPERTIES Connects LossNoticed
CHECK_DEADLOCK FALSE
