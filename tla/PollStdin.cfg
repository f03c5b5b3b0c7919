SPECIFICATION PollSpec
CONSTANTS
  POLL_SET_SIZE = 10
  Descriptor = {0, 3}
  Socket = {3}
  HangUp = {0}
INVARIANTS
  ReadyMeansReadable
