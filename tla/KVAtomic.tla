------------------------------ MODULE KVAtomic ------------------------------
(***************************************************************************)
(* What the key-value service promises its callers (README.md:4-11: store  *)
(* a pair, later retrieve the value of a key, several clients at a time):  *)
(* every kv_set and kv_get takes effect at one moment between its call and *)
(* its return, or is refused because another client's call on the same key *)
(* is under way, and then has no effect.                                   *)
(***************************************************************************)
CONSTANTS Clients, Keys, Values, Nil

VARIABLES
  store,     \* the value of each key, Nil before the first kv_set
  pending,   \* the call each client is waiting for
  answer,    \* what the pending call will return, once that is decided
  result     \* what the last call returned

vars == <<store, pending, answer, result>>

Call   == [type : {"set"}, key : Keys, value : Values]
            \cup [type : {"get"}, key : Keys, value : {Nil}]
Result == [code : {0, 1, 2}, value : Values \cup {Nil}]

Init ==
  /\ store = [k \in Keys |-> Nil]
  /\ pending = [c \in Clients |-> Nil]
  /\ answer = [c \in Clients |-> Nil]
  /\ result = [c \in Clients |-> Nil]

Invoke(c) ==
  /\ pending[c] = Nil
  /\ \E cl \in Call : pending' = [pending EXCEPT ![c] = cl]
  /\ result' = [result EXCEPT ![c] = Nil]
  /\ UNCHANGED <<store, answer>>

Undecided(c, type) ==
  pending[c] # Nil /\ answer[c] = Nil /\ pending[c].type = type

Decide(c, code, value) ==
  /\ answer' = [answer EXCEPT ![c] = [code |-> code, value |-> value]]
  /\ UNCHANGED <<pending, result>>

Set(c) ==
  /\ Undecided(c, "set")
  /\ store' = [store EXCEPT ![pending[c].key] = pending[c].value]
  /\ Decide(c, 0, Nil)

Get(c) ==
  LET value == store[pending[c].key]
  IN  /\ Undecided(c, "get")
      /\ Decide(c, IF value = Nil THEN 1 ELSE 0, value)
      /\ UNCHANGED store

Contended(c) ==
  \E d \in Clients \ {c} : pending[d] # Nil /\ pending[d].key = pending[c].key

(* kv_set returns 2; kv_get does not tell a busy key from a missing one.   *)
Refuse(c) ==
  /\ \/ Undecided(c, "set") /\ Decide(c, 2, Nil)
     \/ Undecided(c, "get") /\ Decide(c, 1, Nil)
  /\ Contended(c)
  /\ UNCHANGED store

Return(c) ==
  /\ answer[c] # Nil
  /\ result' = [result EXCEPT ![c] = answer[c]]
  /\ pending' = [pending EXCEPT ![c] = Nil]
  /\ answer' = [answer EXCEPT ![c] = Nil]
  /\ UNCHANGED store

Next == \E c \in Clients :
          Invoke(c) \/ Set(c) \/ Get(c) \/ Refuse(c) \/ Return(c)

Spec == Init /\ [][Next]_vars
=============================================================================
