\* Each part on a small instance.  The programs may stop.
CONSTANTS
  NULL = NULL
  NoFd <- NoFdV
\* The older loop: two clients on two descriptors.
  EvFd = {3, 4}  EvOwner = {"a", "b"}
\* dummy1: four services and a connection.
  DummyFd = {3, 4, 5, 6, 7, 8}  Service = {"cycle", "mgmt", "cli", "ipc", "c1"}  Conn = {"c1"}
\* The console: reads of one or two characters against small buffers.
  Char = {"a", "q"}  Blank = "_"  LF = "n"  Commands <- CommandsV  Quit <- QuitV
  Cap = 5  LineCap = 3  ReadMax = 2  MaxInput = 7
\* tester_ev3: two handles are ready at once.
  BatchMax = 2
\* RFCOMM: a closed descriptor is reused at once.
  Fd = {3, 4}  Msg = {"a", "b"}  MsgLen = 2  MaxSent = 4
\* GATT: around the default and the greatest MTU, around the value's size.
  ClientMtus = {5, 23, 64, 200}  Writes = {0, 2, 20, 64, 65}
\* Video: three buffers.
  Index = {0, 1, 2}
  Buf = {1, 2, 3}  MaxNal = 2  MaxFrames = 5
\* The settings file.
  Trees <- TreesV  Tags <- TagsV  NoHeader = NoHeader
\* The conversions: borders, tails and both ends of the range.
  BayerFrames <- BayerFramesV  Rg10Frames <- Rg10FramesV
SPECIFICATION PartsSpec
INVARIANTS HandleExact OnePerService LinesOnce ExitClean SessionExact WholeTexts ServerExact
INVARIANTS RepliesComplete CaptureExact NoStall LoadTrue VersionsAgree
PROPERTIES FrameOrder
CHECK_DEADLOCK FALSE
