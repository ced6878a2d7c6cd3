SPECIFICATION Spec
CONSTANTS
  NumClients = 2
  Faulty = {}
  Keys = {k1, k2}
  Values = {"small", "large"}
  Addrs = {a1, a2, a3}
  KeyLen <- MCKeyLen
  ValueLen <- MCValueLen
  BufferSize = 4096
  Garbage = Garbage
  Nil = Nil
SYMMETRY DataSymmetry
INVARIANTS
  TypeOK
  LockMeansWork
  NoMessageOverwritten
  BusyIsHonest
  NoBufferLeftRegistered
PROPERTIES
  Linearizable
