SPECIFICATION Spec
CONSTANTS
  NumClients = 1
  Faulty = {}
  Keys = {k1}
  Values = {"small", "edge"}
  Addrs = {a1, a2, a3}
  KeyLen <- MCKeyLen
  ValueLen <- MCValueLen
  BufferSize = 4096
  Garbage = Garbage
  Nil = Nil
INVARIANTS
  NoGarbageReturned
