\* A second try is written while the first one is getting its address.
CONSTANTS
  c1 = c1  c2 = c2  Cred = {c1, c2}
  None = None  Empty = Empty
SPECIFICATION Spec
PROPERTY CommittedTried
CHECK_DEADLOCK FALSE
