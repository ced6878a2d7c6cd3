------------------------------ MODULE KVService ------------------------------
(***************************************************************************)
(* The key-value service of src/LowLatencyProtocols: clients calling       *)
(* kv_set, kv_get and shut_down_server, the single-threaded server loop    *)
(* run_server with its request handlers, and the reliable RDMA connection  *)
(* between each client and the server (one queue pair, one control-message *)
(* receive buffer at each end, remotely readable or writable regions).     *)
(*                                                                         *)
(* A call of a client is split at every point where the code gives up      *)
(* control to the other side: posting a send, polling its completion,      *)
(* blocking on a receive, posting an RDMA operation.  A handler of the     *)
(* server is split where it polls the completion of its answer, because    *)
(* two handlers change the database only after that.                       *)
(***************************************************************************)
EXTENDS Naturals, FiniteSets

CONSTANTS
  NumClients,   \* num_remote_host: how many clients the server accepted
  Faulty,       \* the clients whose connection may break
  Keys,
  Values,
  Addrs,        \* heap addresses malloc can return for a value buffer
  KeyLen,       \* strlen of each key
  ValueLen,     \* strlen of each value
  BufferSize,   \* CONTROL_MESSAGE_BUFFER_SIZE
  Garbage,      \* the content of a buffer that holds no value anybody set
  Nil           \* a NULL pointer, an absent field

Clients == 0 .. NumClients - 1
Content == Values \cup {Garbage}
SizeT   == 8    \* sizeof(size_t)

(***************************************************************************)
(* The bound on keys is what main.c's command reader guarantees: a key     *)
(* comes from a SET or GET line of at most 4095 characters.                *)
(***************************************************************************)
ASSUME SizesAssumption ==
  /\ NumClients \in Nat \ {0}
  /\ Faulty \subseteq Clients
  /\ BufferSize \in Nat
  /\ KeyLen \in [Keys -> Nat]
  /\ ValueLen \in [Values -> Nat]
  /\ \A k \in Keys : KeyLen[k] + 1 + SizeT <= BufferSize

(***************************************************************************)
(* Control messages (enum Operation and what set_control_message puts in   *)
(* the buffer for each), registered regions (struct MRInfo) and database   *)
(* entries (struct KeyValueAddressPair).                                   *)
(***************************************************************************)
RequestOp ==
  { "CLIENT_KV_SET_EAGER", "CLIENT_KV_SET_RENDEZVOUS", "CLIENT_KV_GET",
    "CLIENT_KV_SET_RENDEZVOUS_FIN", "CLIENT_KV_GET_RENDEZVOUS_FIN",
    "SHUT_DOWN_SERVER" }

GrantOp == { "SERVER_KV_SET_RENDEZVOUS", "SERVER_KV_GET_RENDEZVOUS" }

AnswerOp == GrantOp \cup
  { "SERVER_KV_GET_EAGER", "SERVER_KV_GET_KEY_NOT_FOUND", "SERVER_IN_PROGRESS",
    "SERVER_KV_SET_SUCCESSFUL", "SERVER_KV_GET_SUCCESSFUL" }

Message == [op    : RequestOp \cup AnswerOp,
            key   : Keys \cup {Nil},
            value : Content \cup {Nil},
            size  : Nat,                     \* value_size
            addr  : Addrs \cup {Nil}]        \* virtual address + rkey

Request == {m \in Message :
  /\ m.op \in RequestOp
  /\ m.op # "SHUT_DOWN_SERVER" => m.key \in Keys
  /\ m.op = "CLIENT_KV_SET_EAGER" => m.value \in Content}

Answer == {m \in Message : m.op \in AnswerOp /\ (m.op \in GrantOp => m.addr \in Addrs)}

Region == [addr : Addrs, owner : Clients, access : {"read", "write"}]
Entry  == [addr : Addrs, size : Nat, mr : Region \cup {Nil}]
Call   == {cl \in [type : {"set", "get"}, key : Keys, value : Content \cup {Nil}] :
             cl.type = "set" => cl.value \in Values}
Commit == [key : Keys, entry : Entry]
Result == [code : 0 .. 2, value : Content \cup {Nil}]

ASSUME NilAssumption ==
  /\ Garbage \notin Values
  /\ Nil \notin Keys \cup Content \cup Addrs
  /\ Nil \notin Message \cup Region \cup Entry
  /\ Nil \notin Call \cup Commit \cup Result

-----------------------------------------------------------------------------
VARIABLES
  stage,        \* where each client is in its current call
  call,         \* the call a client is executing, Nil between calls
  ret,          \* what the client's last call returned
  grant,        \* ctx->remote_buf_va and remote_buf_rkey
  localMR,      \* does the client hold a registered region of its own?
  qp,           \* state of the client's connection: "rts" or "err"
  upWire,       \* control message posted by the client, not yet delivered
  downWire,     \* control message posted by the server, not yet delivered
  serverRecv,   \* the server's receive buffer and completions, per client
  clientRecv,   \* the client's receive buffer and completions
  database,     \* the server's KeyValueAddressArray, as a map
  memory,       \* the server's heap: content of each value buffer
  regions,      \* regions registered with the server's adapter
  server,       \* where run_server is
  shutDowns     \* num_shut_down_server_request

clientVars == <<stage, call, ret, grant, localMR>>
linkVars   == <<qp, upWire, downWire, serverRecv, clientRecv>>
serverVars == <<database, memory, regions, server, shutDowns>>
vars       == <<clientVars, linkVars, serverVars>>

Stage == {"idle", "request", "reply", "rdma", "fin", "ack",
          "shutdown", "closed"}

Recv(M) == [buf : M \cup {Nil}, cqes : Nat]

TypeOK ==
  /\ stage \in [Clients -> Stage]
  /\ call \in [Clients -> Call \cup {Nil}]
  /\ ret \in [Clients -> Result \cup {Nil}]
  /\ grant \in [Clients -> Addrs \cup {Nil}]
  /\ localMR \in [Clients -> BOOLEAN]
  /\ qp \in [Clients -> {"rts", "err"}]
  /\ upWire \in [Clients -> Request \cup {Nil}]
  /\ downWire \in [Clients -> Answer \cup {Nil}]
  /\ serverRecv \in [Clients -> Recv(Request)]
  /\ clientRecv \in [Clients -> Recv(Answer)]
  /\ database \in [Keys -> Entry \cup {Nil}]
  /\ memory \in [Addrs -> Content]
  /\ regions \subseteq Region
  /\ server \in [state : {"polling", "sending", "stopped"},
                 turn : Clients, commit : Commit \cup {Nil}]
  /\ shutDowns \in Nat

NothingReceived == [buf |-> Nil, cqes |-> 0]

(* kv_open has returned on both sides: every connection is established.   *)
Init ==
  /\ stage = [c \in Clients |-> "idle"]
  /\ call = [c \in Clients |-> Nil]
  /\ ret = [c \in Clients |-> Nil]
  /\ grant = [c \in Clients |-> Nil]
  /\ localMR = [c \in Clients |-> FALSE]
  /\ qp = [c \in Clients |-> "rts"]
  /\ upWire = [c \in Clients |-> Nil]
  /\ downWire = [c \in Clients |-> Nil]
  /\ serverRecv = [c \in Clients |-> NothingReceived]
  /\ clientRecv = [c \in Clients |-> NothingReceived]
  /\ database = [k \in Keys |-> Nil]
  /\ memory = [a \in Addrs |-> Garbage]
  /\ regions = {}
  /\ server = [state |-> "polling", turn |-> 0, commit |-> Nil]
  /\ shutDowns = 0

-----------------------------------------------------------------------------
(***************************************************************************)
(* Sizes and messages.                                                     *)
(***************************************************************************)

(* kv_set's test for the eager protocol: two terminators, no size_t.       *)
EagerSet(k, v) == KeyLen[k] + ValueLen[v] + 2 <= BufferSize

StoredSize(v) == ValueLen[v] + 1

(* What set_control_message copies for CLIENT_KV_SET_EAGER, against the    *)
(* size of ControlMessage.buf.                                             *)
EagerFits(k, v) == KeyLen[k] + 1 + SizeT + StoredSize(v) <= BufferSize

Msg(op, k, v, n, a) ==
  [op |-> op, key |-> k, value |-> v, size |-> n, addr |-> a]

Status(op) == Msg(op, Nil, Nil, 0, Nil)    \* an operation without information

(* The request of kv_set.  An eager value that passes EagerSet but does    *)
(* not fit is cut: the server's strcpy runs past its receive buffer.       *)
SetRequest(k, v) ==
  IF EagerSet(k, v)
  THEN Msg("CLIENT_KV_SET_EAGER", k,
           IF EagerFits(k, v) THEN v ELSE Garbage, StoredSize(v), Nil)
  ELSE Msg("CLIENT_KV_SET_RENDEZVOUS", k, Nil, StoredSize(v), Nil)

GetRequest(k) == Msg("CLIENT_KV_GET", k, Nil, 0, Nil)

Fin(cl) == Msg(IF cl.type = "set" THEN "CLIENT_KV_SET_RENDEZVOUS_FIN"
                                  ELSE "CLIENT_KV_GET_RENDEZVOUS_FIN",
               cl.key, Nil, 0, Nil)

Success(cl) == IF cl.type = "set" THEN "SERVER_KV_SET_SUCCESSFUL"
                                  ELSE "SERVER_KV_GET_SUCCESSFUL"

RendezvousSet(c) == call[c].type = "set" /\ ~EagerSet(call[c].key, call[c].value)

(* A message lands in the single receive buffer; poll_next_receive_wc      *)
(* takes a completion and refills the receive queue.  Nobody reads the     *)
(* buffer when no completion is left.                                      *)
Land(r, m) == [buf |-> m, cqes |-> r.cqes + 1]
Poll(r) == [buf |-> IF r.cqes = 1 THEN Nil ELSE r.buf, cqes |-> r.cqes - 1]

-----------------------------------------------------------------------------
(***************************************************************************)
(* The client: kv_set, kv_get and shut_down_server.                        *)
(***************************************************************************)

Invoke(c, cl, request) ==
  /\ stage[c] = "idle"
  /\ stage' = [stage EXCEPT ![c] = "request"]
  /\ call' = [call EXCEPT ![c] = cl]
  /\ ret' = [ret EXCEPT ![c] = Nil]
  /\ upWire' = [upWire EXCEPT ![c] = request]
  /\ UNCHANGED <<grant, localMR, qp, downWire, serverRecv, clientRecv, serverVars>>

KvSet(c, k, v) ==
  Invoke(c, [type |-> "set", key |-> k, value |-> v], SetRequest(k, v))

KvGet(c, k) ==
  Invoke(c, [type |-> "get", key |-> k, value |-> Nil], GetRequest(k))

(* kv_set or kv_get returns.                                               *)
Return(c, code, value) ==
  /\ stage' = [stage EXCEPT ![c] = "idle"]
  /\ call' = [call EXCEPT ![c] = Nil]
  /\ ret' = [ret EXCEPT ![c] = [code |-> code, value |-> value]]
  /\ grant' = [grant EXCEPT ![c] = Nil]

(* poll_n_send_wc saw the request's completion: the message is in the      *)
(* server's buffer.  A rendezvous kv_set registers the value only now.     *)
RequestSent(c) ==
  /\ stage[c] = "request"
  /\ upWire[c] = Nil
  /\ stage' = [stage EXCEPT ![c] = "reply"]
  /\ localMR' = [localMR EXCEPT ![c] = @ \/ RendezvousSet(c)]
  /\ UNCHANGED <<call, ret, grant, linkVars, serverVars>>

(* get_remote_control_message, blocking, returned a message.               *)
Received(c) ==
  /\ clientRecv[c].cqes > 0
  /\ clientRecv' = [clientRecv EXCEPT ![c] = Poll(@)]
  /\ UNCHANGED <<qp, upWire, downWire, serverRecv>>

Reply(c) == clientRecv[c].buf

EagerSetReply(c) ==
  /\ stage[c] = "reply" /\ call[c].type = "set" /\ ~RendezvousSet(c)
  /\ Received(c)
  /\ Return(c, CASE Reply(c).op = "SERVER_IN_PROGRESS"       -> 2
                 [] Reply(c).op = "SERVER_KV_SET_SUCCESSFUL" -> 0
                 [] OTHER                                    -> 1, Nil)
  /\ UNCHANGED <<localMR, serverVars>>

(* A faulty variant: the refused call does not deregister its value.       *)
RendezvousSetRefusedKeepsRegion(c) ==
  /\ stage[c] = "reply" /\ RendezvousSet(c)
  /\ Received(c)
  /\ Reply(c).op = "SERVER_IN_PROGRESS"
  /\ Return(c, 2, Nil)
  /\ UNCHANGED <<localMR, serverVars>>

RendezvousSetRefused(c) ==
  /\ stage[c] = "reply" /\ RendezvousSet(c)
  /\ Received(c)
  /\ Reply(c).op = "SERVER_IN_PROGRESS"
  /\ localMR' = [localMR EXCEPT ![c] = FALSE]
  /\ Return(c, 2, Nil)
  /\ UNCHANGED serverVars

(* Anything that is not SERVER_IN_PROGRESS is decoded as the grant.        *)
RendezvousSetGranted(c) ==
  /\ stage[c] = "reply" /\ RendezvousSet(c)
  /\ Received(c)
  /\ Reply(c).op # "SERVER_IN_PROGRESS"
  /\ grant' = [grant EXCEPT ![c] = Reply(c).addr]
  /\ stage' = [stage EXCEPT ![c] = "rdma"]
  /\ UNCHANGED <<call, ret, localMR, serverVars>>

GetEagerReply(c) ==
  /\ stage[c] = "reply" /\ call[c].type = "get"
  /\ Received(c)
  /\ Reply(c).op = "SERVER_KV_GET_EAGER"
  /\ Return(c, 0, Reply(c).value)
  /\ UNCHANGED <<localMR, serverVars>>

GetGranted(c) ==
  /\ stage[c] = "reply" /\ call[c].type = "get"
  /\ Received(c)
  /\ Reply(c).op = "SERVER_KV_GET_RENDEZVOUS"
  /\ grant' = [grant EXCEPT ![c] = Reply(c).addr]
  /\ localMR' = [localMR EXCEPT ![c] = TRUE]
  /\ stage' = [stage EXCEPT ![c] = "rdma"]
  /\ UNCHANGED <<call, ret, serverVars>>

(* SERVER_IN_PROGRESS, and "probably Key doesn't exist".                   *)
GetRefused(c) ==
  /\ stage[c] = "reply" /\ call[c].type = "get"
  /\ Received(c)
  /\ Reply(c).op \notin {"SERVER_KV_GET_EAGER", "SERVER_KV_GET_RENDEZVOUS"}
  /\ Return(c, 1, Nil)
  /\ UNCHANGED <<localMR, serverVars>>

(* The adapters let client c reach address a: the region is registered     *)
(* with c's protection domain and grants the access.                       *)
Permitted(c, access) ==
  \E r \in regions : r.addr = grant[c] /\ r.owner = c /\ r.access = access

(* pp_post_rdma, its completion, and pp_post_send of the FIN.              *)
FinPosted(c) ==
  /\ stage' = [stage EXCEPT ![c] = "fin"]
  /\ upWire' = [upWire EXCEPT ![c] = Fin(call[c])]
  /\ UNCHANGED <<ret, grant, localMR, qp, downWire, serverRecv, clientRecv>>

RdmaWrite(c) ==
  /\ stage[c] = "rdma" /\ call[c].type = "set"
  /\ qp[c] = "rts" /\ Permitted(c, "write")
  /\ memory' = [memory EXCEPT ![grant[c]] = call[c].value]
  /\ FinPosted(c)
  /\ UNCHANGED <<call, database, regions, server, shutDowns>>

RdmaRead(c) ==
  /\ stage[c] = "rdma" /\ call[c].type = "get"
  /\ qp[c] = "rts" /\ Permitted(c, "read")
  /\ call' = [call EXCEPT ![c].value = memory[grant[c]]]
  /\ FinPosted(c)
  /\ UNCHANGED serverVars

Access(cl) == IF cl.type = "set" THEN "write" ELSE "read"

(* The transfer completes with an error, which also puts the queue pair    *)
(* in the error state.  kv_set and kv_get return with the local region     *)
(* still registered.                                                       *)
RdmaFails(c) ==
  /\ stage[c] = "rdma"
  /\ qp[c] = "err" \/ ~Permitted(c, Access(call[c]))
  /\ qp' = [qp EXCEPT ![c] = "err"]
  /\ Return(c, 1, Nil)
  /\ UNCHANGED <<localMR, upWire, downWire, serverRecv, clientRecv, serverVars>>

(* A faulty variant: the call returns without waiting for the server.      *)
FinSentNoWait(c) ==
  /\ stage[c] = "fin"
  /\ upWire[c] = Nil
  /\ localMR' = [localMR EXCEPT ![c] = FALSE]
  /\ Return(c, 0, IF call[c].type = "get" THEN call[c].value ELSE Nil)
  /\ UNCHANGED <<linkVars, serverVars>>

FinSent(c) ==
  /\ stage[c] = "fin"
  /\ upWire[c] = Nil
  /\ stage' = [stage EXCEPT ![c] = "ack"]
  /\ localMR' = [localMR EXCEPT ![c] = FALSE]
  /\ grant' = [grant EXCEPT ![c] = Nil]
  /\ UNCHANGED <<call, ret, linkVars, serverVars>>

Ack(c) ==
  /\ stage[c] = "ack"
  /\ Received(c)
  /\ Return(c, IF Reply(c).op = Success(call[c]) THEN 0 ELSE 1,
               IF call[c].type = "get" THEN call[c].value ELSE Nil)
  /\ UNCHANGED <<localMR, serverVars>>

(* main.c: the commands are over, shut_down_server then kv_close.          *)
ShutDown(c) ==
  /\ stage[c] = "idle"
  /\ stage' = [stage EXCEPT ![c] = "shutdown"]
  /\ upWire' = [upWire EXCEPT ![c] = Status("SHUT_DOWN_SERVER")]
  /\ UNCHANGED <<call, ret, grant, localMR, qp, downWire, serverRecv, clientRecv, serverVars>>

ShutDownSent(c) ==
  /\ stage[c] = "shutdown"
  /\ upWire[c] = Nil
  /\ stage' = [stage EXCEPT ![c] = "closed"]
  /\ UNCHANGED <<call, ret, grant, localMR, linkVars, serverVars>>

(* The connection broke and a send completes with an error.  The message   *)
(* may have arrived with its acknowledgement lost, but not if the server   *)
(* answered it: the answer acknowledges it.                                *)
SendFails(c) ==
  /\ stage[c] \in {"request", "fin"}
  /\ qp[c] = "err" /\ clientRecv[c].cqes = 0
  /\ Return(c, 1, Nil)
  /\ UNCHANGED <<localMR, linkVars, serverVars>>

ShutDownFails(c) ==
  /\ stage[c] = "shutdown"
  /\ qp[c] = "err"
  /\ stage' = [stage EXCEPT ![c] = "closed"]
  /\ UNCHANGED <<call, ret, grant, localMR, linkVars, serverVars>>

(* The posted receives of a broken connection are flushed: the blocking    *)
(* poll returns a completion that is not a message.                        *)
RecvFails(c) ==
  /\ stage[c] \in {"reply", "ack"}
  /\ qp[c] = "err" /\ clientRecv[c].cqes = 0
  /\ Return(c, 1, Nil)
  /\ UNCHANGED <<localMR, linkVars, serverVars>>

(***************************************************************************)
(* The connection: reliable, in order, delivered into the receive buffer;  *)
(* or broken for good.                                                     *)
(***************************************************************************)
DeliverUp(c) ==
  /\ qp[c] = "rts" /\ upWire[c] # Nil
  /\ serverRecv' = [serverRecv EXCEPT ![c] = Land(@, upWire[c])]
  /\ upWire' = [upWire EXCEPT ![c] = Nil]
  /\ UNCHANGED <<qp, downWire, clientRecv, clientVars, serverVars>>

DeliverDown(c) ==
  /\ qp[c] = "rts" /\ downWire[c] # Nil
  /\ clientRecv' = [clientRecv EXCEPT ![c] = Land(@, downWire[c])]
  /\ downWire' = [downWire EXCEPT ![c] = Nil]
  /\ UNCHANGED <<qp, upWire, serverRecv, clientVars, serverVars>>

LinkFault(c) ==
  /\ c \in Faulty
  /\ qp[c] = "rts" /\ stage[c] # "closed"
  /\ qp' = [qp EXCEPT ![c] = "err"]
  /\ UNCHANGED <<upWire, downWire, serverRecv, clientRecv, clientVars, serverVars>>

-----------------------------------------------------------------------------
(***************************************************************************)
(* The server: run_server polls the clients' connections in turn and runs  *)
(* a handler to its end before it polls the next one.                      *)
(***************************************************************************)

(* A faulty variant: the loop over the clients runs past its end.          *)
NextTurnNoWrap(c) == c + 1

NextTurn(c) == (c + 1) % NumClients

Polling(c) == server.state = "polling" /\ server.turn = c

(* A handler of c's message m, polled from c's connection.                 *)
Handles(c, m, op) ==
  /\ Polling(c)
  /\ serverRecv[c].cqes > 0
  /\ m = serverRecv[c].buf
  /\ m.op = op
  /\ serverRecv' = [serverRecv EXCEPT ![c] = Poll(@)]

(* set_control_message and pp_post_send; the handler then polls the        *)
(* completion, and only after it makes the change "commit" (or none).      *)
Send(c, m, commit) ==
  /\ downWire' = [downWire EXCEPT ![c] = m]
  /\ server' = [state |-> "sending", turn |-> c, commit |-> commit]
  /\ UNCHANGED <<qp, upWire, clientRecv, shutDowns, clientVars>>

(* Faulty variants: only writers, or only readers, keep others away.       *)
InProgressWriters(k) ==
  database[k] # Nil /\ database[k].mr # Nil /\ database[k].mr.access = "write"

InProgressReaders(k) ==
  database[k] # Nil /\ database[k].mr # Nil /\ database[k].mr.access = "read"

(* get_kv_pair->mr_rdma != NULL                                            *)
InProgress(k) == database[k] # Nil /\ database[k].mr # Nil

(* What malloc may return: no address in use or still registered.  An      *)
(* address nothing refers to any more was leaked by the code, so handing   *)
(* it out again is the same as handing out a new one.                      *)
FreeAddrs ==
  Addrs \ ({database[k].addr : k \in {j \in Keys : database[j] # Nil}}
             \cup {r.addr : r \in regions})

PollNothing(c) ==
  /\ Polling(c)
  /\ serverRecv[c].cqes = 0
  /\ server' = [server EXCEPT !.turn = NextTurn(c)]
  /\ UNCHANGED <<database, memory, regions, shutDowns, linkVars, clientVars>>

(* The check the three request handlers share.                             *)
HandleBusy(c) == \E m \in {serverRecv[c].buf} :
  /\ \E op \in {"CLIENT_KV_SET_EAGER", "CLIENT_KV_SET_RENDEZVOUS", "CLIENT_KV_GET"} :
       Handles(c, m, op)
  /\ InProgress(m.key)
  /\ Send(c, Status("SERVER_IN_PROGRESS"), Nil)
  /\ UNCHANGED <<database, memory, regions>>

(* A faulty variant: an existing key keeps its old value.                  *)
HandleEagerSetOnce(c) == \E m \in {serverRecv[c].buf}, a \in FreeAddrs :
  /\ Handles(c, m, "CLIENT_KV_SET_EAGER")
  /\ ~InProgress(m.key)
  /\ memory' = [memory EXCEPT ![a] = m.value]
  /\ database' = IF database[m.key] # Nil THEN database
                 ELSE [database EXCEPT ![m.key] = [addr |-> a, size |-> m.size, mr |-> Nil]]
  /\ Send(c, Status("SERVER_KV_SET_SUCCESSFUL"), Nil)
  /\ UNCHANGED regions

HandleEagerSet(c) == \E m \in {serverRecv[c].buf}, a \in FreeAddrs :
  /\ Handles(c, m, "CLIENT_KV_SET_EAGER")
  /\ ~InProgress(m.key)
  /\ memory' = [memory EXCEPT ![a] = m.value]
  /\ database' = [database EXCEPT ![m.key] = [addr |-> a, size |-> m.size, mr |-> Nil]]
  /\ Send(c, Status("SERVER_KV_SET_SUCCESSFUL"), Nil)
  /\ UNCHANGED regions

(* A fresh buffer is registered and offered; the key enters the database   *)
(* only after the offer was sent.                                          *)
HandleRendezvousSetKey(c) == \E m \in {serverRecv[c].buf}, a \in FreeAddrs :
  LET region == [addr |-> a, owner |-> c, access |-> "write"]
  IN  /\ Handles(c, m, "CLIENT_KV_SET_RENDEZVOUS")
      /\ ~InProgress(m.key)
      /\ memory' = [memory EXCEPT ![a] = Garbage]
      /\ regions' = regions \cup {region}
      /\ Send(c, Msg("SERVER_KV_SET_RENDEZVOUS", Nil, Nil, 0, a),
              [key |-> m.key, entry |-> [addr |-> a, size |-> m.size, mr |-> region]])
      /\ UNCHANGED database

HandleGetMissing(c) == \E m \in {serverRecv[c].buf} :
  /\ Handles(c, m, "CLIENT_KV_GET")
  /\ database[m.key] = Nil
  /\ Send(c, Status("SERVER_KV_GET_KEY_NOT_FOUND"), Nil)
  /\ UNCHANGED <<database, memory, regions>>

HandleGetEager(c) == \E m \in {serverRecv[c].buf} :
  /\ Handles(c, m, "CLIENT_KV_GET")
  /\ database[m.key] # Nil /\ ~InProgress(m.key)
  /\ database[m.key].size < BufferSize
  /\ Send(c, Msg("SERVER_KV_GET_EAGER", Nil, memory[database[m.key].addr], 0, Nil), Nil)
  /\ UNCHANGED <<database, memory, regions>>


(* The entry is marked in progress only after the grant was sent.          *)
HandleGetRendezvous(c) == \E m \in {serverRecv[c].buf} :
  LET entry  == database[m.key]
      region == [addr |-> entry.addr, owner |-> c, access |-> "read"]
  IN  /\ Handles(c, m, "CLIENT_KV_GET")
      /\ entry # Nil /\ ~InProgress(m.key)
      /\ entry.size >= BufferSize
      /\ regions' = regions \cup {region}
      /\ Send(c, Msg("SERVER_KV_GET_RENDEZVOUS", Nil, Nil, entry.size, entry.addr),
              [key |-> m.key, entry |-> [entry EXCEPT !.mr = region]])
      /\ UNCHANGED <<database, memory>>

(* A faulty variant: the entry's mr_rdma is not reset.                     *)
DeregisterRdmaMrNoReset(k) ==
  /\ database[k] # Nil
  /\ regions' = regions \ {database[k].mr}
  /\ UNCHANGED database

(* deregister_rdma_mr "trusts the key exists": on a key without an entry   *)
(* it dereferences NULL, so the step is not defined there.                 *)
DeregisterRdmaMr(k) ==
  /\ database[k] # Nil
  /\ regions' = regions \ {database[k].mr}
  /\ database' = [database EXCEPT ![k].mr = Nil]


HandleFin(c, fin, success) == \E m \in {serverRecv[c].buf} :
  /\ Handles(c, m, fin)
  /\ DeregisterRdmaMr(m.key)
  /\ Send(c, Status(success), Nil)
  /\ UNCHANGED memory

HandleSetFin(c) ==
  HandleFin(c, "CLIENT_KV_SET_RENDEZVOUS_FIN", "SERVER_KV_SET_SUCCESSFUL")

(* A faulty variant: the answer of the other FIN handler.                  *)
HandleGetFinCopied(c) ==
  HandleFin(c, "CLIENT_KV_GET_RENDEZVOUS_FIN", "SERVER_KV_SET_SUCCESSFUL")

HandleGetFin(c) ==
  HandleFin(c, "CLIENT_KV_GET_RENDEZVOUS_FIN", "SERVER_KV_GET_SUCCESSFUL")

(* Faulty variants: the count of shutdown requests off by one.             *)
HandleShutDownEarly(c) ==
  /\ Handles(c, serverRecv[c].buf, "SHUT_DOWN_SERVER")
  /\ shutDowns' = shutDowns + 1
  /\ server' = IF shutDowns + 1 = NumClients - 1
               THEN [server EXCEPT !.state = "stopped"]
               ELSE [server EXCEPT !.turn = NextTurn(c)]
  /\ UNCHANGED <<database, memory, regions, qp, upWire, downWire, clientRecv, clientVars>>

HandleShutDownLate(c) ==
  /\ Handles(c, serverRecv[c].buf, "SHUT_DOWN_SERVER")
  /\ shutDowns' = shutDowns + 1
  /\ server' = IF shutDowns = NumClients
               THEN [server EXCEPT !.state = "stopped"]
               ELSE [server EXCEPT !.turn = NextTurn(c)]
  /\ UNCHANGED <<database, memory, regions, qp, upWire, downWire, clientRecv, clientVars>>

HandleShutDown(c) ==
  /\ Handles(c, serverRecv[c].buf, "SHUT_DOWN_SERVER")
  /\ shutDowns' = shutDowns + 1
  /\ server' = IF shutDowns + 1 = NumClients
               THEN [server EXCEPT !.state = "stopped"]
               ELSE [server EXCEPT !.turn = NextTurn(c)]
  /\ UNCHANGED <<database, memory, regions, qp, upWire, downWire, clientRecv, clientVars>>

(* poll_n_send_wc saw the answer's completion: the rest of the handler.    *)
SrvSent(c) ==
  /\ server.state = "sending" /\ server.turn = c
  /\ downWire[c] = Nil
  /\ database' = IF server.commit = Nil THEN database
                 ELSE [database EXCEPT ![server.commit.key] = server.commit.entry]
  /\ server' = [state |-> "polling", turn |-> NextTurn(c), commit |-> Nil]
  /\ UNCHANGED <<memory, regions, shutDowns, linkVars, clientVars>>

(* The answer's send completes with an error: the handler gives up.  A     *)
(* later message of the client would have acknowledged the answer.         *)
SrvSendAborted(c) ==
  /\ server.state = "sending" /\ server.turn = c
  /\ qp[c] = "err" /\ serverRecv[c].cqes = 0
  /\ server' = [state |-> "polling", turn |-> NextTurn(c), commit |-> Nil]
  /\ UNCHANGED <<database, memory, regions, shutDowns, linkVars, clientVars>>

-----------------------------------------------------------------------------
(* The program's own decisions to call, and the steps within a call.       *)
ClientCall(c) ==
  \/ \E k \in Keys, v \in Values : KvSet(c, k, v)
  \/ \E k \in Keys : KvGet(c, k)
  \/ ShutDown(c)

ClientStep(c) ==
  \/ RequestSent(c)
  \/ EagerSetReply(c)
  \/ RendezvousSetRefused(c)
  \/ RendezvousSetGranted(c)
  \/ GetEagerReply(c)
  \/ GetGranted(c)
  \/ GetRefused(c)
  \/ RdmaWrite(c)
  \/ RdmaRead(c)
  \/ RdmaFails(c)
  \/ FinSent(c)
  \/ Ack(c)
  \/ ShutDownSent(c)
  \/ SendFails(c)
  \/ ShutDownFails(c)
  \/ RecvFails(c)

Deliver(c) == DeliverUp(c) \/ DeliverDown(c)

ServerStep(c) ==
  \/ PollNothing(c)
  \/ HandleBusy(c)
  \/ HandleEagerSet(c)
  \/ HandleRendezvousSetKey(c)
  \/ HandleGetMissing(c)
  \/ HandleGetEager(c)
  \/ HandleGetRendezvous(c)
  \/ HandleSetFin(c)
  \/ HandleGetFin(c)
  \/ HandleShutDown(c)
  \/ SrvSent(c)
  \/ SrvSendAborted(c)

Done ==
  /\ server.state = "stopped" /\ \A c \in Clients : stage[c] = "closed"
  /\ UNCHANGED vars

Next ==
  \/ \E c \in Clients :
       ClientCall(c) \/ ClientStep(c) \/ Deliver(c) \/ LinkFault(c) \/ ServerStep(c)
  \/ Done

Spec == Init /\ [][Next]_vars

(* A call runs to its end, the server loop spins, and a working connection *)
(* delivers.  Nothing makes a program call, shut down, or a link break.    *)
Fairness ==
  /\ \A c \in Clients : WF_vars(ClientStep(c)) /\ WF_vars(Deliver(c))
  /\ WF_vars(\E c \in Clients : ServerStep(c))

FairSpec == Spec /\ Fairness

-----------------------------------------------------------------------------
(***************************************************************************)
(* Safety.                                                                 *)
(***************************************************************************)

(* dynamic_array.h:34, "if this MR is registered, then there is something  *)
(* going on": a key in progress is held by the rendezvous call of the      *)
(* client whose connection its region was registered on.  Without broken   *)
(* connections.                                                            *)
LockMeansWork ==
  \A k \in Keys : InProgress(k) =>
    LET mr == database[k].mr
        cl == call[mr.owner]
    IN  cl # Nil /\ cl.key = k /\ Access(cl) = mr.access

(* While a client transfers on a working connection, the server's region   *)
(* it was granted is registered for it, and the key's entry points to that *)
(* region, so that no other request touches the key (kv_api.c:629, 711,    *)
(* 771).  The entry is still to be updated while the completion of the     *)
(* grant's send is not polled.                                             *)
TransferIsProtected ==
  \A c \in Clients : stage[c] = "rdma" /\ qp[c] = "rts" =>
    LET region == [addr |-> grant[c], owner |-> c, access |-> Access(call[c])]
        k      == call[c].key
    IN  /\ region \in regions
        /\ \/ database[k] # Nil /\ database[k].mr = region
           \/ /\ server.state = "sending" /\ server.turn = c
              /\ server.commit # Nil /\ server.commit.key = k
              /\ server.commit.entry.mr = region


(* There is one receive buffer behind all the posted receives: a message   *)
(* never arrives on top of one its reader has not taken, in either         *)
(* direction.                                                              *)
NoMessageOverwritten ==
  \A c \in Clients : qp[c] = "rts" =>
    /\ upWire[c] # Nil => serverRecv[c].cqes = 0
    /\ downWire[c] # Nil => clientRecv[c].cqes = 0

(* The answer a client reads is one its protocol step expects: the "weird  *)
(* message" branches are dead, and what a rendezvous kv_set decodes as a   *)
(* grant is one.                                                           *)
RepliesAreExpected ==
  \A c \in Clients : clientRecv[c].cqes > 0 =>
    LET op == clientRecv[c].buf.op
    IN  /\ call[c] # Nil
        /\ IF stage[c] \in {"fin", "ack"} THEN op = Success(call[c])
           ELSE op \in CASE call[c].type = "get" ->
                              {"SERVER_KV_GET_EAGER", "SERVER_KV_GET_RENDEZVOUS",
                               "SERVER_KV_GET_KEY_NOT_FOUND", "SERVER_IN_PROGRESS"}
                         [] RendezvousSet(c) ->
                              {"SERVER_KV_SET_RENDEZVOUS", "SERVER_IN_PROGRESS"}
                         [] OTHER ->
                              {"SERVER_KV_SET_SUCCESSFUL", "SERVER_IN_PROGRESS"}

(* A client is told "this key is in progress" only while another client's  *)
(* call is at work on that key.  Without broken connections.               *)
BusyIsHonest ==
  \A c \in Clients :
    downWire[c] # Nil /\ downWire[c].op = "SERVER_IN_PROGRESS" =>
      \E d \in Clients \ {c} :
        call[d] # Nil /\ call[d].key = call[c].key /\ InProgress(call[d].key)

(* kv_get never returns a buffer that was allocated but not yet, or only   *)
(* partly, written, or a value that was cut on its way.                    *)
NoGarbageReturned ==
  \A c \in Clients : ret[c] # Nil => ret[c].value # Garbage

(* A call leaves no memory of its caller registered ("temporarily          *)
(* register", kv_api.c:306 and 451): main.c frees the value right after.   *)
NoBufferLeftRegistered ==
  \A c \in Clients : stage[c] \in {"idle", "closed"} => ~localMR[c]

(* run_server frees the database only when every client is done with it:   *)
(* no call under way, no region registered, no message to come.            *)
StopIsClean ==
  server.state = "stopped" =>
    /\ regions = {}
    /\ \A c \in Clients : /\ stage[c] \in {"shutdown", "closed"}
                          /\ upWire[c] = Nil /\ serverRecv[c].cqes = 0

(***************************************************************************)
(* Liveness.                                                               *)
(***************************************************************************)


SomeBroke == \E c \in Clients : qp[c] = "err"

(* When every client has shut down, run_server returns, unless a           *)
(* connection broke: then it may wait for a message that was lost.         *)
ServerStops ==
  (\A c \in Clients : stage[c] = "closed") ~> (server.state = "stopped" \/ SomeBroke)

=============================================================================
