SPECIFICATION Spec
CONSTANTS
  SeqSpace = 64
  Client = Client
  Main = Main
  Child = {c1, c2}
  Nil = Nil
  FaultKinds = {"lose"}
  MaxFaults = 1
  IoFaults = {"open", "read", "write"}
  File <- TwoChunks
  WindowSize = 2
  RcopyTries = 2
  ServerTries = 2
  Timely = FALSE
SYMMETRY ChildSymmetry
INVARIANTS
  DiskNeverWrong
  RejectExactlyWhenGap
  AcksAreTrue
