SPECIFICATION Spec
CONSTANTS
  SeqSpace = 64
  Client = Client
  Main = Main
  Child = {c1}
  Nil = Nil
  FaultKinds = {"damage"}
  MaxFaults = 1
  IoFaults = {}
  File <- ThreeChunks
  WindowSize = 2
  RcopyTries = 10
  ServerTries = 10
  Timely = TRUE
INVARIANTS
  GiveUpOnlyAfterFaults
