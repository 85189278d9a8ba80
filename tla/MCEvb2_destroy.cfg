\* aloe_evb2_destroy from a callback with another handle ready.
CONSTANTS
  h1 = h1  h2 = h2  f1 = f1  t1 = t1  t2 = t2
  Handle = {h1, h2}
  WakeH = WakeH  NULL = NULL
  Fd = {f1}  PipeFd = PipeFd  TimerFd = TimerFd
  Thread = {}
  Requests = {{"READ"}}  Masks = {{"IN"}}
  Timeouts = {1}  UINT64_MAX = 100
  MaxTime = 1  PipeCap = 1
SPECIFICATION Spec
PROPERTY OnlyCancelledAfterDestroy
