SPECIFICATION PollSpec
CONSTANTS
  POLL_SET_SIZE = 2
  Descriptor = {0, 1, 3, 6}
  Socket = {1, 3, 6}
  HangUp = {}
INVARIANTS
  PollTypeOK
  ReadyMeansReadable
PROPERTIES
  ImplementsPollSet
