\* Two threads hand over one-shot timers while the application runs, cancels and destroys.
CONSTANTS
  h1 = h1  h2 = h2  f1 = f1  t1 = t1  t2 = t2
  Handle = {h1, h2}
  WakeH = WakeH  NULL = NULL
  Fd = {}  PipeFd = PipeFd  TimerFd = TimerFd
  Thread = {t1, t2}
  Requests = {}  Masks = {{"IN"}}
  Timeouts = {0, 1}  UINT64_MAX = 100
  MaxTime = 2  PipeCap = 1
SPECIFICATION FairSpec
INVARIANTS NoLostWake
PROPERTIES ImplementsLifecycle QueuedTimerFires DestroyCompletes
