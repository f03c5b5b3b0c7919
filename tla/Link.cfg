SPECIFICATION LinkSpec
CONSTANTS
  Unset = Unset
  NotNumber = NotNumber
  MsgSpace = 16
  Rcopy = rcopy
  Server = server
  Child = {c1, c2}
  Environments <- AllEnvironments
  ErrorRate = 1
  PacketSize = 2
  StartTime = 100
  LastTime = 101
  MaxSends = 2
SYMMETRY ChildSymmetry
INVARIANTS
  LinkTypeOK
  EnvironmentWins
  OnlyListedDropped
  SameOdds
  AtMostOneFlip
