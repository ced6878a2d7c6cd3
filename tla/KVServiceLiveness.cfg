\* Two rendezvous clients at one key; the connection of one of them may break.
SPECIFICATION FairSpec
CONSTANTS
  NumClients = 2
  Faulty = {0}
  Keys = {k1}
  Values = {"large"}
  Addrs = {a1, a2, a3}
  KeyLen <- MCKeyLen
  ValueLen <- MCValueLen
  BufferSize = 4096
  Garbage = Garbage
  Nil = Nil
PROPERTIES
  
  ServerStops
