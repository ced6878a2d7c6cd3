---------------------------- MODULE KeyValueMap ----------------------------
(***************************************************************************)
(* What run_server takes its database for (kv_api.c:558-861): a map from   *)
(* keys to values, where a value may be marked as being transferred.  A    *)
(* marked key is neither replaced nor marked again.                        *)
(***************************************************************************)
CONSTANTS Keys, Addrs, Nil

VARIABLES
    map,       \* the entry of each key, Nil if it has none
    freed      \* has the server given the database up?

vars == <<map, freed>>

Entry == [value : Addrs, marked : BOOLEAN]

Free(k) == map[k] # Nil => ~map[k].marked

Init == map = [k \in Keys |-> Nil] /\ ~freed

\* The key gets a new value; it is marked if a client is to fill it in.
Put(k) ==
    /\ ~freed /\ Free(k)
    /\ map'[k] \in Entry
    /\ map' = [map EXCEPT ![k] = map'[k]]
    /\ UNCHANGED freed

Mark(k) ==
    /\ ~freed /\ map[k] # Nil /\ Free(k)
    /\ map' = [map EXCEPT ![k].marked = TRUE]
    /\ UNCHANGED freed

Unmark(k) ==
    /\ ~freed /\ ~Free(k)
    /\ map' = [map EXCEPT ![k].marked = FALSE]
    /\ UNCHANGED freed

FreeAll == ~freed /\ freed' = TRUE /\ UNCHANGED map

Next == FreeAll \/ \E k \in Keys : Put(k) \/ Mark(k) \/ Unmark(k)

Spec == Init /\ [][Next]_vars
=============================================================================
