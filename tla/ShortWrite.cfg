SPECIFICATION Spec
CONSTANTS
  SeqSpace = 64
  Client = Client
  Main = Main
  Child = {c1}
  Nil = Nil
  FaultKinds = {}
  MaxFaults = 0
  IoFaults = {"short write"}
  File <- ThreeChunks
  WindowSize = 2
  RcopyTries = 2
  ServerTries = 2
  Timely = TRUE
INVARIANTS
  SuccessMeansCopied
