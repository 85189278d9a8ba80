\* Posts that signal one thread, two waiting threads.
CONSTANTS
  w1 = w1  w2 = w2  w3 = w3  w4 = w4  w5 = w5
  Waiter = {w1, w2}
  Modes = {FALSE}
  Timed = FALSE
  max = 2
  cnt0 = 0
SPECIFICATION FairSpec
PROPERTY WaiterServed
