SPECIFICATION Spec
CONSTANTS
  Senders = {s1, s2}
  Commands = 3
  N = 2
  Chunk = {1, 2, 3, 4}
CHECK_DEADLOCK FALSE
INVARIANTS MailboxSound
PROPERTIES ImplementsQueue EveryCommandArrives
