SPECIFICATION Spec
CONSTANTS
  Hwm = 2
  MaxWmDelta = 1024
  Writers <- MCWriters
  MultiPart <- MCMultiPart
  Hiccupers <- MCHiccupers
  Linger <- MCLinger
  MaxMsgs <- MCMaxMsgs
  Delays <- MCDelays
  MaxHiccups = 1
CHECK_DEADLOCK FALSE
INVARIANTS PipeSound MessagesKept
PROPERTIES BothEndsGo WriterResumes
