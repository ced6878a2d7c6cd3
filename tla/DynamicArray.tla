---------------------------- MODULE DynamicArray ----------------------------
(***************************************************************************)
(* The server's database (dynamic_array.h): an array of pairs that doubles *)
(* when it is full, the strings on the heap its pairs point to, and the    *)
(* memory regions its mr_rdma fields point to.  The operations are those   *)
(* of the request handlers (kv_api.c:609-826) as far as they touch the     *)
(* array; the server is one thread and handles one request at a time, so   *)
(* each is one step.  Who sends which request when, and that a FIN names a *)
(* key in progress, is the business of KVService.                          *)
(***************************************************************************)
EXTENDS Naturals, Sequences, FiniteSets

CONSTANTS
    Keys,
    MaxObjects,    \* how many strings the server may ever allocate
    InitialSize,   \* pairs the array starts with: 20 in run_server
    Nil

ASSUME SizesAssumption == InitialSize \in Nat \ {0} /\ MaxObjects \in Nat
ASSUME NilAssumption   == Nil \notin Keys /\ Nil \notin Nat

Addrs == 1 .. MaxObjects

VARIABLES
    head,      \* the array: total_length pairs, of which the first used_length count
    used,      \* used_length
    heap,      \* what each allocated string is: a key, or "value"; Nil if not allocated
    regions,   \* values registered for RDMA and not deregistered
    freed      \* has free_array run?

vars == <<head, used, heap, regions, freed>>

\* A pair's key and value point into the heap; mr points to the registered value, if any.
Pair   == [key : Addrs, value : Addrs, mr : Addrs \cup {Nil}]
Unset  == [key |-> Nil, value |-> Nil, mr |-> Nil]    \* malloc and realloc clear nothing
Entries == {head[i] : i \in 1 .. used}

TypeOK ==
    /\ used \in Nat
    /\ head \in Seq(Pair \cup {Unset})
    /\ \A i \in 1 .. used : i \in DOMAIN head => head[i] \in Pair
    /\ heap \in [Addrs -> Keys \cup {"value", Nil}]
    /\ regions \subseteq Addrs
    /\ freed \in BOOLEAN

Init ==
    /\ head = [i \in 1 .. InitialSize |-> Unset]
    /\ used = 0
    /\ heap = [a \in Addrs |-> Nil]
    /\ regions = {}
    /\ freed = FALSE

-----------------------------------------------------------------------------
(* The array's functions.                                                  *)

\* set_kv_malloc compares the flag with 1 and does not assign it.
kv_malloc == FALSE

\* free(): of a string, and only when the flag says that the array owns it.
FreeStrings(h, strings) ==
    IF kv_malloc THEN [a \in Addrs |-> IF a \in strings THEN Nil ELSE h[a]] ELSE h

\* get_KeyValueAddressPair: the pairs are compared by the strings they point to.
At(k) == {i \in 1 .. used : heap[head[i].key] = k}
Found(k) == At(k) # {}
Position(k) == CHOOSE i \in At(k) : \A j \in At(k) : i <= j
Get(k) == head[Position(k)]

\* A full array is doubled before the insertion.
\* A faulty variant: one insertion too late.
GrownLate ==
    IF used > Len(head) THEN head \o [i \in 1 .. Len(head) |-> Unset] ELSE head

Grown == IF used = Len(head) THEN head \o [i \in 1 .. Len(head) |-> Unset] ELSE head

\* A faulty variant: one pair too far.
AppendBehind(pair) ==
    /\ head' = [Grown EXCEPT ![used + 2] = pair]
    /\ used' = used + 1

AppendPair(pair) ==
    /\ head' = [Grown EXCEPT ![used + 1] = pair]
    /\ used' = used + 1

\* A faulty variant: it does not look for the key.
InsertAlways(k, pair, h) == AppendPair(pair) /\ heap' = h

\* A faulty variant: the pair keeps the old value, although its region is the new one's.
InsertKeepsValue(k, pair, h) ==
    \/ /\ ~Found(k)
       /\ AppendPair(pair)
       /\ heap' = h
    \/ /\ Found(k)
       /\ heap' = FreeStrings(h, {pair.key})
       /\ head' = [head EXCEPT ![Position(k)].mr = pair.mr]
       /\ UNCHANGED used

\* A faulty variant: the pair takes the new key, which goes the way of the old value.
InsertFreesKey(k, pair, h) ==
    \/ /\ ~Found(k)
       /\ AppendPair(pair)
       /\ heap' = h
    \/ /\ Found(k)
       /\ heap' = [h EXCEPT ![pair.key] = Nil, ![Get(k).value] = Nil]
       /\ head' = [head EXCEPT ![Position(k)] = pair]
       /\ UNCHANGED used

\* insert_to_array of a pair whose key is the string k, into the heap h.
Insert(k, pair, h) ==
    \/ /\ ~Found(k)
       /\ AppendPair(pair)
       /\ heap' = h
    \/ /\ Found(k)
       /\ heap' = FreeStrings(h, {pair.key, Get(k).value})
       /\ head' = [head EXCEPT ![Position(k)] = [pair EXCEPT !.key = Get(k).key]]
       /\ UNCHANGED used

\* deregister_rdma_mr: nothing happens when the pair has no region.
Deregister(k) ==
    \/ /\ Get(k).mr = Nil
       /\ UNCHANGED <<head, regions>>
    \/ /\ Get(k).mr # Nil
       /\ regions' = regions \ {Get(k).mr}
       /\ head' = [head EXCEPT ![Position(k)].mr = Nil]

-----------------------------------------------------------------------------
(* What the request handlers do with it.                                   *)

Running == ~freed
Busy(k) == Found(k) /\ Get(k).mr # Nil

\* malloc.  Strings are numbered as they come: only their equality matters.
FreeAddrs == {a \in Addrs : heap[a] = Nil}
Malloc2 == {p \in FreeAddrs \X FreeAddrs :
               /\ p[1] < p[2]
               /\ \A a \in FreeAddrs : p[1] <= a /\ (a # p[1] => p[2] <= a)}

Allocated(k, p) == [heap EXCEPT ![p[1]] = k, ![p[2]] = "value"]

\* handle_EAGER_KV_SET inserts before it answers.
HandleEagerSet(k) == \E p \in Malloc2 :
    /\ Running /\ ~Busy(k)
    /\ Insert(k, [key |-> p[1], value |-> p[2], mr |-> Nil], Allocated(k, p))
    /\ UNCHANGED <<regions, freed>>

\* A faulty variant: it does not ask whether the key is in progress.
HandleRendezvousSetBusy(k) == \E p \in Malloc2 :
    /\ Running
    /\ regions' = regions \cup {p[2]}
    /\ Insert(k, [key |-> p[1], value |-> p[2], mr |-> p[2]], Allocated(k, p))
    /\ UNCHANGED freed

\* handle_RENDEZVOUS_KV_SET_KEY inserts when its answer was sent; when it was not,
\* the strings and the region are left to themselves.
HandleRendezvousSet(k) == \E p \in Malloc2 :
    /\ Running /\ ~Busy(k)
    /\ regions' = regions \cup {p[2]}
    /\ \/ Insert(k, [key |-> p[1], value |-> p[2], mr |-> p[2]], Allocated(k, p))
       \/ heap' = Allocated(k, p) /\ UNCHANGED <<head, used>>
    /\ UNCHANGED freed

\* handle_CLIENT_KV_GET marks the pair when its answer was sent.
HandleGet(k) ==
    /\ Running /\ Found(k) /\ ~Busy(k)
    /\ regions' = regions \cup {Get(k).value}
    /\ \/ head' = [head EXCEPT ![Position(k)].mr = Get(k).value]
       \/ UNCHANGED head
    /\ UNCHANGED <<used, heap, freed>>

\* handle_CLIENT_KV_SET_RENDEZVOUS_FIN and handle_CLIENT_KV_GET_RENDEZVOUS_FIN
HandleFin(k) ==
    /\ Running /\ Found(k)
    /\ Deregister(k)
    /\ UNCHANGED <<used, heap, freed>>

\* free_array, when the last client has asked for the shutdown.
FreeArray ==
    /\ Running
    /\ heap' = FreeStrings(heap, {e.key : e \in Entries} \cup {e.value : e \in Entries})
    /\ freed' = TRUE
    /\ UNCHANGED <<head, used, regions>>

Next ==
    \/ FreeArray
    \/ \E k \in Keys : HandleEagerSet(k) \/ HandleRendezvousSet(k)
                       \/ HandleGet(k) \/ HandleFin(k)

Spec == Init /\ [][Next]_vars

-----------------------------------------------------------------------------
(* Properties.                                                             *)

\* An insertion never writes past the end of the array: the array is doubled in time,
\* also when it was doubled before (dynamic_array.h:98-107).
WithinCapacity == used <= Len(head)

\* Each key has one pair, so that the first one a lookup finds is the only one, and no
\* two pairs share a string: freeing or filling one would change the other.
PairsAreSeparate ==
    Running => \A i, j \in 1 .. used :
        /\ heap[head[i].key] \in Keys
        /\ head[i].key # head[j].value
        /\ i # j => /\ heap[head[i].key] # heap[head[j].key]
                    /\ head[i].value # head[j].value

\* A pair's region is registered and is the region of the value the pair has now, so
\* that a client's RDMA write ends in what the next kv_get reads
\* (dynamic_array.h:34: "if this MR is registered, then there is something going on").
RegionIsOfItsValue ==
    \A e \in Entries : e.mr # Nil => e.mr = e.value /\ e.mr \in regions

\* Seen through its lookup, the array is the map the handlers take it for:
\* lookups, updates, appends and doublings in any order keep every other entry.
Map == INSTANCE KeyValueMap WITH
    map <- [k \in Keys |-> IF Found(k)
                           THEN [value |-> Get(k).value, marked |-> Get(k).mr # Nil]
                           ELSE Nil]
IsMap == Map!Spec

\* kv_api.c:860 "free the database and every allocated memory inside".
EverythingIsFreed == freed => \A e \in Entries : heap[e.key] = Nil /\ heap[e.value] = Nil
=============================================================================
