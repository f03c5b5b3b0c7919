SPECIFICATION Spec
CONSTANTS
  SeqSpace = 6
  Client = Client
  Main = Main
  Child = {c1}
  Nil = Nil
  FaultKinds = {"lose", "duplicate", "delay"}
  MaxFaults = 2
  IoFaults = {}
  File <- FourChunks
  WindowSize = 2
  RcopyTries = 2
  ServerTries = 2
  Timely = FALSE
INVARIANTS
  SuccessMeansCopied
