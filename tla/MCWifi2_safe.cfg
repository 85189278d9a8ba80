\* Every command but the one to enter ST_WPASUP_CONNECT, failures included.
CONSTANTS
  CliStates <- AllButConnect
  Networks = {"wpa", "open"}
  TimerArgs = {1}
  Chores <- AllChores
  CliMax = 3
  MaxQ = 3
  Faults = TRUE
  Foreign = TRUE
  InitRace = TRUE
SPECIFICATION Spec
INVARIANTS MachineAlive ControlFresh
CHECK_DEADLOCK FALSE
