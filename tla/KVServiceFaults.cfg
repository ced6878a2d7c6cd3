SPECIFICATION Spec
CONSTANTS
  NumClients = 2
  Faulty = {0}
  Keys = {k1}
  Values = {"middle", "large"}
  Addrs = {a1, a2, a3}
  KeyLen <- MCKeyLen
  ValueLen <- MCValueLen
  BufferSize = 4096
  Garbage = Garbage
  Nil = Nil
SYMMETRY AddrSymmetry
INVARIANTS
  TransferIsProtected
  
  RepliesAreExpected
  NoGarbageReturned
  StopIsClean
