---------------------------- MODULE MCKVService ----------------------------
(***************************************************************************)
(* KVService for TLC.  The sizes are the program's: a buffer of 4096       *)
(* bytes, keys of 5 characters, and one value of each size class the code  *)
(* tells apart.                                                            *)
(***************************************************************************)
EXTENDS KVLinearizable, TLC

MCKeyLen == [k \in Keys |-> 5]

(* small: eager both ways.  middle: rendezvous kv_set, eager kv_get.       *)
(* large: rendezvous both ways.  edge: passes kv_set's eager test, but     *)
(* key, size_t and value together exceed the buffer.                       *)
MCValueLen ==
  [v \in Values |-> CASE v = "small"  -> 10
                      [] v = "middle" -> 4094
                      [] v = "edge"   -> 4085
                      [] OTHER        -> 5000]

(* The code never compares addresses, keys have the same length, and no    *)
(* property names one.                                                     *)
AddrSymmetry == Permutations(Addrs)
DataSymmetry == Permutations(Keys) \cup Permutations(Addrs)
=============================================================================
