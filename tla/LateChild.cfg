SPECIFICATION Spec
CONSTANTS
  SeqSpace = 64
  Client = Client
  Main = Main
  Child = {c1, c2}
  Nil = Nil
  FaultKinds = {}
  MaxFaults = 0
  IoFaults = {}
  File <- ThreeChunks
  WindowSize = 2
  RcopyTries = 2
  ServerTries = 2
  Timely = FALSE
SYMMETRY ChildSymmetry
INVARIANTS
  SuccessMeansCopied
