SPECIFICATION ChecksumSpec
CONSTANTS
  Base = 4
  MaxData = 1
  MaxFlips = 1
INVARIANTS
  MadeIsAccepted
  FlipIsNoticed
