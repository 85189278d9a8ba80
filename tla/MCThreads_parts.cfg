\* The semaphore: five threads with finite waits and posts that broadcast.
CONSTANTS
  w1 = w1  w2 = w2  w3 = w3  w4 = w4  w5 = w5
  Waiter = {w1, w2, w3, w4, w5}
  Modes = {TRUE}  Timed = TRUE
  max = 4  cnt0 = 0
\* The flasher: every mode; the last chunk is shorter than the others.
  FlashSize = 5  Chunk = 2  Timeout = 2  MaxFaults = 3
\* The peripheral: any six public calls, failing D-Bus calls, a connection that breaks.
  Messages = {"hello", "other"}  MaxCalls = 6  Faults = TRUE
\* The Wi-Fi thread: two networks.
  c1 = c1  c2 = c2  Cred = {c1, c2}  None = None  Empty = Empty
SPECIFICATION PartsSpec
INVARIANTS NoMissedCount Programmed StartTruth NothingLeft
PROPERTIES ResetOnlyVerified Terminates Returns TryEnds Agreed
CHECK_DEADLOCK FALSE
