--------------------------- MODULE KVLinearizable ---------------------------
(***************************************************************************)
(* KVService implements KVAtomic while no connection breaks.  A call takes *)
(* effect when run_server handles its request: from then on the answer is  *)
(* fixed, although a rendezvous value is still to be transferred.  The     *)
(* mapping below reads the abstract state off the concrete one.            *)
(***************************************************************************)
EXTENDS KVService

(* The entry of k once the handler at work has finished.                   *)
EntryOf(k) ==
  IF server.commit # Nil /\ server.commit.key = k THEN server.commit.entry
                                                  ELSE database[k]

(* A key that is being written has the value its writer is writing.        *)
StoreOf(k) ==
  LET entry == EntryOf(k)
  IN  IF entry = Nil THEN Nil
      ELSE IF entry.mr # Nil /\ entry.mr.access = "write"
           THEN call[entry.mr.owner].value
           ELSE memory[entry.addr]

(* What the client will return after it reads the answer m.                *)
Outcome(c, m) ==
  LET isGet == call[c].type = "get"
  IN  CASE m.op = "SERVER_IN_PROGRESS" ->
             [code |-> IF isGet THEN 1 ELSE 2, value |-> Nil]
        [] m.op = "SERVER_KV_GET_KEY_NOT_FOUND" -> [code |-> 1, value |-> Nil]
        [] m.op = "SERVER_KV_GET_EAGER" -> [code |-> 0, value |-> m.value]
        [] m.op = "SERVER_KV_GET_RENDEZVOUS" ->
             [code |-> 0, value |-> memory[m.addr]]
        [] OTHER -> [code |-> 0, value |-> Nil]

AnswerOf(c) ==
  CASE call[c] = Nil -> Nil
    [] stage[c] \in {"rdma", "fin", "ack"} ->
         [code |-> 0, value |-> IF call[c].type = "set" THEN Nil
                                ELSE IF stage[c] = "rdma" THEN memory[grant[c]]
                                ELSE call[c].value]
    [] downWire[c] # Nil         -> Outcome(c, downWire[c])
    [] clientRecv[c].cqes > 0    -> Outcome(c, clientRecv[c].buf)
    [] OTHER                     -> Nil

(* A kv_get's call record also holds what it has read so far.              *)
PendingOf(c) ==
  IF call[c] # Nil /\ call[c].type = "get" THEN [call[c] EXCEPT !.value = Nil]
                                           ELSE call[c]

Atomic == INSTANCE KVAtomic WITH
  store   <- [k \in Keys |-> StoreOf(k)],
  pending <- [c \in Clients |-> PendingOf(c)],
  answer  <- [c \in Clients |-> AnswerOf(c)],
  result  <- ret

(* Every kv_set and kv_get is atomic: a kv_get returns the value of the    *)
(* last kv_set that took effect on the key, whole, whichever protocol      *)
(* either of them used and whatever ran in between; a refused call has no  *)
(* effect and another client's call on the key was under way.              *)
Linearizable == Atomic!Spec
=============================================================================
