\* Two handles on one descriptor or as timers, callbacks using the whole API.
CONSTANTS
  h1 = h1  h2 = h2  f1 = f1  t1 = t1  t2 = t2
  Handle = {h1, h2}
  WakeH = WakeH  NULL = NULL
  Fd = {f1}  PipeFd = PipeFd  TimerFd = TimerFd
  Thread = {}
  Requests = {{"READ"}, {"WRITE"}}  Masks = {{"IN"}, {"OUT"}, {"HUP"}}
  Timeouts = {0, 1}  UINT64_MAX = 100
  MaxTime = 2  PipeCap = 1
SPECIFICATION Spec
SYMMETRY Sym
INVARIANTS LinkExclusive NoDangling NoLeak NoOversleep InterestExact
