SPECIFICATION FairSpec
CONSTANTS
  SeqSpace = 64
  Client = Client
  Main = Main
  Child = {c1, c2, c3}
  Nil = Nil
  FaultKinds = {"lose"}
  MaxFaults = 3
  IoFaults = {}
  File <- ThreeChunks
  WindowSize = 2
  RcopyTries = 3
  ServerTries = 3
  Timely = TRUE
INVARIANTS
  GiveUpOnlyAfterFaults
  SuccessMeansCopied
  SecondChildNeedsLoss
PROPERTIES
  EventuallyCopied
