\* Two threads whose writes may fail in the middle of a frame; the socket holds less
\* than a longest frame, so that writers block on it.
CONSTANTS
  t1 = t1  t2 = t2  NoOne = NoOne
  Thread = {t1, t2}  NoThread = NoOne
  Message <- Messages
  LEADNG <- Mark
  Byte <- Bytes
  SeqRange = 4  LenRange = 4
  cap = 6  SockCap = 5  ReadMax = 2  MaxWrites = 3
  WriteFails = TRUE
SPECIFICATION FairSpec
INVARIANTS InOrder NoFrameLeft NoFrameCut
PROPERTIES Delivered DestroyCompletes
