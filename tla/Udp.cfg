SPECIFICATION FairSpec
CONSTANTS
  SeqSpace = 64
  Client = Client
  Main = Main
  Child = {c1}
  Nil = Nil
  FaultKinds = {"lose", "damage", "duplicate", "delay"}
  MaxFaults = 2
  IoFaults = {"open", "read", "write"}
  File <- ThreeChunks
  WindowSize = 2
  RcopyTries = 2
  ServerTries = 2
  Timely = FALSE
INVARIANTS
  TypeOK
  WindowHoldsUnacked
  BufferHoldsLater
  SenderKeepsMissing
  AcksAreTrue
  RejectExactlyWhenGap
  DiskNeverWrong
  SuccessMeansCopied
  EofAfterAllData
  CleanEndMeansSuccess
PROPERTIES
  NeverResendsAcked
  ProgressIsKept
  RcopyTerminates
  ChildrenTerminate
  ImplementsFileCopy
