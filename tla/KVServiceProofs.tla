-------------------------- MODULE KVServiceProofs --------------------------
(***************************************************************************)
(* Proofs about KVService, for every number of clients, every set of keys, *)
(* values, addresses and breaking connections, and all sizes.              *)
(***************************************************************************)
EXTENDS KVService, TLAPS

InCall == {"request", "reply", "rdma", "fin", "ack"}

(* What TypeOK needs to be inductive: a client is at a stage of a call     *)
(* exactly when it has one, and a completion always finds a message.       *)
CallShape == \A c \in Clients : stage[c] \in InCall <=> call[c] # Nil

BufferShape ==
  \A c \in Clients : /\ serverRecv[c].cqes > 0 => serverRecv[c].buf # Nil
                     /\ clientRecv[c].cqes > 0 => clientRecv[c].buf # Nil

TypeInv == TypeOK /\ CallShape /\ BufferShape

-----------------------------------------------------------------------------
(***************************************************************************)
(* What the operators that build messages return.                          *)
(***************************************************************************)

(* kv_set's request is a well-formed request, whichever protocol it picks. *)
LEMMA SetRequestType ==
  ASSUME NEW k \in Keys, NEW v \in Values
  PROVE  SetRequest(k, v) \in Request
  BY SizesAssumption, NilAssumption
     DEF SetRequest, Msg, Request, Message, RequestOp, StoredSize, Content

(* So is the FIN of either call.                                           *)
LEMMA FinType ==
  ASSUME NEW cl \in Call
  PROVE  Fin(cl) \in Request
  BY NilAssumption DEF Fin, Call, Msg, Request, Message, RequestOp

(* An operation without information is a well-formed answer.               *)
LEMMA StatusType ==
  ASSUME NEW op \in AnswerOp \ GrantOp
  PROVE  Status(op) \in Answer
  BY NilAssumption DEF Status, Msg, Answer, Message

(* Delivering into a receive buffer, and polling a message out of it,      *)
(* leave a receive buffer.                                                 *)
LEMMA RecvType ==
  ASSUME NEW M, NEW r \in Recv(M), r.cqes > 0 => r.buf # Nil
  PROVE  /\ \A m \in M : m # Nil => /\ Land(r, m) \in Recv(M)
                                    /\ Land(r, m).buf # Nil
         /\ r.cqes > 0 => /\ Poll(r) \in Recv(M)
                          /\ Poll(r).cqes > 0 => Poll(r).buf # Nil
                          /\ r.buf \in M
  BY DEF Recv, Land, Poll

-----------------------------------------------------------------------------
(***************************************************************************)
(* TypeInv is inductive.                                                   *)
(***************************************************************************)

(* The state kv_open leaves behind is well typed.                          *)
LEMMA InitTypeInv == Init => TypeInv
  <1> SUFFICES ASSUME Init PROVE TypeInv
    OBVIOUS
  <1>1. 0 \in Clients
    BY SizesAssumption DEF Clients
  <1>2. TypeOK
    BY <1>1, NilAssumption DEF Init, TypeOK, NothingReceived, Recv, Stage, Content
  <1>3. CallShape /\ BufferShape
    BY DEF Init, CallShape, BufferShape, InCall, NothingReceived
  <1> QED BY <1>2, <1>3 DEF TypeInv

(* The calls a program can make keep the types.                            *)
LEMMA CallTypeInv ==
  ASSUME TypeInv, NEW c \in Clients, ClientCall(c)
  PROVE  TypeInv'
  <1> USE DEF TypeInv
  <1>1. ASSUME NEW k \in Keys, NEW v \in Values, KvSet(c, k, v)
        PROVE  TypeInv'
    <2>1. [type |-> "set", key |-> k, value |-> v] \in Call
      BY DEF Call, Content
    <2>2. TypeOK'
      BY <1>1, <2>1, SetRequestType DEF KvSet, Invoke, TypeOK, Stage, serverVars
    <2>3. CallShape' /\ BufferShape'
      BY <1>1, <2>1, NilAssumption
         DEF KvSet, Invoke, TypeOK, CallShape, BufferShape, InCall
    <2> QED BY <2>2, <2>3
  <1>2. ASSUME NEW k \in Keys, KvGet(c, k)
        PROVE  TypeInv'
    <2>1. [type |-> "get", key |-> k, value |-> Nil] \in Call
      BY DEF Call
    <2>2. GetRequest(k) \in Request
      BY NilAssumption DEF GetRequest, Msg, Request, Message, RequestOp
    <2>3. TypeOK'
      BY <1>2, <2>1, <2>2 DEF KvGet, Invoke, TypeOK, Stage, serverVars
    <2>4. CallShape' /\ BufferShape'
      BY <1>2, <2>1, NilAssumption
         DEF KvGet, Invoke, TypeOK, CallShape, BufferShape, InCall
    <2> QED BY <2>3, <2>4
  <1>3. ASSUME ShutDown(c)
        PROVE  TypeInv'
    <2>1. Status("SHUT_DOWN_SERVER") \in Request
      BY NilAssumption DEF Status, Msg, Request, Message, RequestOp
    <2>2. TypeOK'
      BY <1>3, <2>1 DEF ShutDown, TypeOK, Stage, serverVars
    <2>3. CallShape' /\ BufferShape'
      BY <1>3 DEF ShutDown, TypeOK, CallShape, BufferShape, InCall
    <2> QED BY <2>2, <2>3
  <1> QED BY <1>1, <1>2, <1>3 DEF ClientCall

(* Receiving an answer: the buffer stays a receive buffer, and the answer  *)
(* is one.                                                                 *)
LEMMA ReceivedType ==
  ASSUME TypeInv, NEW c \in Clients, Received(c)
  PROVE  /\ clientRecv' \in [Clients -> Recv(Answer)]
         /\ BufferShape'
         /\ Reply(c) \in Answer
         /\ UNCHANGED <<qp, upWire, downWire, serverRecv>>
  <1>1. clientRecv[c] \in Recv(Answer) /\ clientRecv[c].cqes > 0 /\ clientRecv[c].buf # Nil
    BY DEF TypeInv, TypeOK, BufferShape, Received
  <1>2. /\ Poll(clientRecv[c]) \in Recv(Answer)
        /\ Poll(clientRecv[c]).cqes > 0 => Poll(clientRecv[c]).buf # Nil
        /\ clientRecv[c].buf \in Answer
    BY <1>1, RecvType
  <1> QED BY <1>1, <1>2 DEF Received, Reply, TypeInv, TypeOK, BufferShape

(* Returning from a call, with any well-typed result.                      *)
LEMMA ReturnType ==
  ASSUME TypeInv, NEW c \in Clients, NEW code \in 0 .. 2,
         NEW value \in Content \cup {Nil}, Return(c, code, value)
  PROVE  /\ stage' \in [Clients -> Stage]
         /\ call' \in [Clients -> Call \cup {Nil}]
         /\ ret' \in [Clients -> Result \cup {Nil}]
         /\ grant' \in [Clients -> Addrs \cup {Nil}]
         /\ CallShape'
  BY DEF Return, TypeInv, TypeOK, CallShape, InCall, Stage, Result

(* Each step within a call keeps the types.                                *)
LEMMA StepTypeInv ==
  ASSUME TypeInv, NEW c \in Clients, ClientStep(c)
  PROVE  TypeInv'
  <1> USE DEF TypeInv
  <1>1. CASE RequestSent(c)
    BY <1>1 DEF RequestSent, linkVars, serverVars, TypeOK, CallShape, BufferShape, InCall, Stage
  <1>2. CASE EagerSetReply(c)
    <2>1. PICK code \in 0 .. 2 : Return(c, code, Nil)
      BY <1>2 DEF EagerSetReply
    <2> QED BY <1>2, <2>1, ReturnType, ReceivedType DEF EagerSetReply, serverVars, TypeOK
  <1>3. CASE RendezvousSetRefused(c)
    BY <1>3, ReturnType, ReceivedType DEF RendezvousSetRefused, serverVars, TypeOK
  <1>4. CASE RendezvousSetGranted(c)
    <2>1. Reply(c).addr \in Addrs \cup {Nil}
      BY <1>4, ReceivedType DEF RendezvousSetGranted, Answer, Message
    <2> QED BY <1>4, <2>1, ReceivedType
            DEF RendezvousSetGranted, serverVars, TypeOK, CallShape, InCall, Stage
  <1>5. CASE GetEagerReply(c)
    <2>1. Reply(c).value \in Content \cup {Nil}
      BY <1>5, ReceivedType DEF GetEagerReply, Answer, Message
    <2> QED BY <1>5, <2>1, ReturnType, ReceivedType DEF GetEagerReply, serverVars, TypeOK
  <1>6. CASE GetGranted(c)
    <2>1. Reply(c).addr \in Addrs \cup {Nil}
      BY <1>6, ReceivedType DEF GetGranted, Answer, Message
    <2> QED BY <1>6, <2>1, ReceivedType
            DEF GetGranted, serverVars, TypeOK, CallShape, InCall, Stage
  <1>7. CASE GetRefused(c)
    BY <1>7, ReturnType, ReceivedType DEF GetRefused, serverVars, TypeOK
  <1>8. CASE RdmaWrite(c)
    <2>1. call[c] \in Call /\ call[c].type = "set"
      BY <1>8 DEF RdmaWrite, TypeOK, CallShape, InCall
    <2>2. Fin(call[c]) \in Request
      BY <2>1, FinType
    <2>3. call[c].value \in Content
      BY <2>1 DEF Call, Content
    <2>4. TypeOK'
      BY <1>8, <2>2, <2>3 DEF RdmaWrite, FinPosted, TypeOK, Stage
    <2>5. CallShape' /\ BufferShape'
      BY <1>8, <2>1 DEF RdmaWrite, FinPosted, TypeOK, CallShape, BufferShape, InCall
    <2> QED BY <2>4, <2>5
  <1>9. CASE RdmaRead(c)
    <2>1. call[c] \in Call /\ call[c].type = "get"
      BY <1>9 DEF RdmaRead, TypeOK, CallShape, InCall
    <2>2. grant[c] \in Addrs
      BY <1>9 DEF RdmaRead, Permitted, TypeOK, Region
    <2>3. Fin(call[c]) \in Request
      BY <2>1, FinType
    <2>4. [call[c] EXCEPT !.value = memory[grant[c]]] \in Call
      BY <2>1, <2>2 DEF Call, TypeOK
    <2>5. TypeOK'
      BY <1>9, <2>3, <2>4 DEF RdmaRead, FinPosted, TypeOK, Stage, serverVars
    <2>6. CallShape' /\ BufferShape'
      BY <1>9, <2>1, <2>4, NilAssumption
         DEF RdmaRead, FinPosted, TypeOK, CallShape, BufferShape, InCall
    <2> QED BY <2>5, <2>6
  <1>10. CASE RdmaFails(c)
    <2>1. Return(c, 1, Nil)
      BY <1>10 DEF RdmaFails
    <2> QED BY <1>10, <2>1, ReturnType DEF RdmaFails, serverVars, TypeOK, BufferShape
  <1>11. CASE FinSent(c)
    BY <1>11 DEF FinSent, linkVars, serverVars, TypeOK, CallShape, BufferShape, InCall, Stage
  <1>12. CASE Ack(c)
    <2>1. call[c] \in Call
      BY <1>12 DEF Ack, TypeOK, CallShape, InCall
    <2>2. PICK code \in 0 .. 2, value \in Content \cup {Nil} : Return(c, code, value)
      BY <1>12, <2>1 DEF Ack, Call
    <2> QED BY <1>12, <2>2, ReturnType, ReceivedType DEF Ack, serverVars, TypeOK
  <1>13. CASE ShutDownSent(c)
    BY <1>13 DEF ShutDownSent, linkVars, serverVars, TypeOK, CallShape, BufferShape, InCall, Stage
  <1>14. CASE SendFails(c)
    BY <1>14, ReturnType DEF SendFails, linkVars, serverVars, TypeOK, BufferShape
  <1>15. CASE ShutDownFails(c)
    BY <1>15 DEF ShutDownFails, linkVars, serverVars, TypeOK, CallShape, BufferShape, InCall, Stage
  <1>16. CASE RecvFails(c)
    BY <1>16, ReturnType DEF RecvFails, linkVars, serverVars, TypeOK, BufferShape
  <1> QED BY <1>1, <1>2, <1>3, <1>4, <1>5, <1>6, <1>7, <1>8, <1>9, <1>10,
             <1>11, <1>12, <1>13, <1>14, <1>15, <1>16 DEF ClientStep

(* So does the connection.                                                 *)
LEMMA LinkTypeInv ==
  ASSUME TypeInv, NEW c \in Clients, Deliver(c) \/ LinkFault(c)
  PROVE  TypeInv'
  <1> USE DEF TypeInv
  <1>1. CASE DeliverUp(c)
    <2> DEFINE r == serverRecv[c]
               m == upWire[c]
    <2>1. r \in Recv(Request) /\ m \in Request /\ m # Nil /\ (r.cqes > 0 => r.buf # Nil)
      BY <1>1 DEF DeliverUp, TypeOK, BufferShape
    <2>2. Land(r, m) \in Recv(Request) /\ Land(r, m).buf # Nil
      <3> HIDE DEF r, m
      <3> QED BY <2>1, RecvType
    <2> QED BY <1>1, <2>2
            DEF DeliverUp, clientVars, serverVars, TypeOK, CallShape, BufferShape
  <1>2. CASE DeliverDown(c)
    <2> DEFINE r == clientRecv[c]
               m == downWire[c]
    <2>1. r \in Recv(Answer) /\ m \in Answer /\ m # Nil /\ (r.cqes > 0 => r.buf # Nil)
      BY <1>2 DEF DeliverDown, TypeOK, BufferShape
    <2>2. Land(r, m) \in Recv(Answer) /\ Land(r, m).buf # Nil
      <3> HIDE DEF r, m
      <3> QED BY <2>1, RecvType
    <2> QED BY <1>2, <2>2
            DEF DeliverDown, clientVars, serverVars, TypeOK, CallShape, BufferShape
  <1>3. CASE LinkFault(c)
    BY <1>3 DEF LinkFault, clientVars, serverVars, TypeOK, CallShape, BufferShape
  <1> QED BY <1>1, <1>2, <1>3 DEF Deliver

(* The server's loop never leaves the connections it has.                  *)
LEMMA NextTurnType ==
  ASSUME NEW c \in Clients
  PROVE  NextTurn(c) \in Clients
  BY SizesAssumption DEF NextTurn, Clients

(* Polling a request: the buffer stays a receive buffer, and the request   *)
(* is one.                                                                 *)
LEMMA HandlesType ==
  ASSUME TypeInv, NEW c \in Clients, NEW m, NEW op, Handles(c, m, op)
  PROVE  /\ serverRecv' \in [Clients -> Recv(Request)]
         /\ \A d \in Clients : serverRecv'[d].cqes > 0 => serverRecv'[d].buf # Nil
         /\ m \in Request
         /\ m.op = op
         /\ server.turn = c
  <1> DEFINE r == serverRecv[c]
  <1>1. r \in Recv(Request) /\ r.cqes > 0 /\ r.buf # Nil
    BY DEF TypeInv, TypeOK, BufferShape, Handles
  <1>2. /\ Poll(r) \in Recv(Request)
        /\ Poll(r).cqes > 0 => Poll(r).buf # Nil
        /\ r.buf \in Request
    <2> HIDE DEF r
    <2> QED BY <1>1, RecvType
  <1> QED BY <1>1, <1>2 DEF Handles, Polling, TypeInv, TypeOK, BufferShape

(* Answering: what a handler does after polling its request and before it  *)
(* polls the answer's completion.                                          *)
LEMMA SendType ==
  ASSUME TypeInv, NEW c \in Clients, NEW m \in Answer,
         NEW commit \in Commit \cup {Nil}, Send(c, m, commit),
         serverRecv' \in [Clients -> Recv(Request)],
         \A d \in Clients : serverRecv'[d].cqes > 0 => serverRecv'[d].buf # Nil,
         database' \in [Keys -> Entry \cup {Nil}],
         memory' \in [Addrs -> Content],
         regions' \subseteq Region
  PROVE  TypeInv'
  BY DEF Send, clientVars, TypeInv, TypeOK, CallShape, BufferShape

(* The answers that carry something are well-formed: a grant names a       *)
(* buffer of the server, an eager value is what the key's buffer holds.    *)
LEMMA AnswerType ==
  ASSUME TypeInv
  PROVE  /\ \A a \in FreeAddrs : Msg("SERVER_KV_SET_RENDEZVOUS", Nil, Nil, 0, a) \in Answer
         /\ \A k \in Keys : database[k] # Nil =>
              /\ Msg("SERVER_KV_GET_EAGER", Nil, memory[database[k].addr], 0, Nil) \in Answer
              /\ Msg("SERVER_KV_GET_RENDEZVOUS", Nil, Nil, database[k].size,
                     database[k].addr) \in Answer
  <1>1. ASSUME NEW a \in FreeAddrs
        PROVE  Msg("SERVER_KV_SET_RENDEZVOUS", Nil, Nil, 0, a) \in Answer
    <2>1. a \in Addrs
      BY DEF FreeAddrs
    <2> QED BY <2>1, NilAssumption DEF Msg, Answer, Message, AnswerOp, GrantOp
  <1>2. ASSUME NEW k \in Keys, database[k] # Nil
        PROVE  /\ Msg("SERVER_KV_GET_EAGER", Nil, memory[database[k].addr], 0, Nil) \in Answer
               /\ Msg("SERVER_KV_GET_RENDEZVOUS", Nil, Nil, database[k].size,
                      database[k].addr) \in Answer
    <2>1. database[k].addr \in Addrs /\ database[k].size \in Nat
      BY <1>2 DEF TypeInv, TypeOK, Entry
    <2>2. memory[database[k].addr] \in Content
      BY <2>1 DEF TypeInv, TypeOK
    <2> QED BY <2>1, <2>2, NilAssumption DEF Msg, Answer, Message, AnswerOp, GrantOp
  <1> QED BY <1>1, <1>2

(* Each handler and each step of the server's loop keeps the types.        *)
LEMMA ServerTypeInv ==
  ASSUME TypeInv, NEW c \in Clients, ServerStep(c)
  PROVE  TypeInv'
  <1>1. CASE PollNothing(c)
    BY <1>1, NextTurnType
       DEF PollNothing, clientVars, linkVars, TypeInv, TypeOK, CallShape, BufferShape
  <1>2. CASE HandleBusy(c)
    <2>1. PICK m, op : Handles(c, m, op)
      BY <1>2 DEF HandleBusy
    <2>2. Status("SERVER_IN_PROGRESS") \in Answer
      BY StatusType DEF AnswerOp, GrantOp
    <2> QED BY <1>2, <2>1, <2>2, HandlesType, SendType DEF HandleBusy, TypeInv, TypeOK
  <1>3. CASE HandleEagerSet(c)
    <2>1. PICK m \in {serverRecv[c].buf}, a \in FreeAddrs :
            /\ Handles(c, m, "CLIENT_KV_SET_EAGER")
            /\ memory' = [memory EXCEPT ![a] = m.value]
            /\ database' = [database EXCEPT ![m.key] =
                              [addr |-> a, size |-> m.size, mr |-> Nil]]
            /\ Send(c, Status("SERVER_KV_SET_SUCCESSFUL"), Nil)
            /\ UNCHANGED regions
      BY <1>3 DEF HandleEagerSet
    <2>2. m \in Request /\ m.op = "CLIENT_KV_SET_EAGER"
      BY <2>1, HandlesType
    <2>3. m.value \in Content /\ m.size \in Nat
      BY <2>2 DEF Request, Message
    <2>4. a \in Addrs
      BY DEF FreeAddrs
    <2>5. [addr |-> a, size |-> m.size, mr |-> Nil] \in Entry
      BY <2>3, <2>4 DEF Entry
    <2>6. database' \in [Keys -> Entry \cup {Nil}] /\ memory' \in [Addrs -> Content]
      BY <2>1, <2>3, <2>5 DEF TypeInv, TypeOK
    <2>7. Status("SERVER_KV_SET_SUCCESSFUL") \in Answer
      BY StatusType DEF AnswerOp, GrantOp
    <2> QED BY <2>1, <2>6, <2>7, HandlesType, SendType DEF TypeInv, TypeOK
  <1>4. CASE HandleRendezvousSetKey(c)
    <2> DEFINE region(a) == [addr |-> a, owner |-> c, access |-> "write"]
               entry(m, a) == [addr |-> a, size |-> m.size, mr |-> region(a)]
    <2>1. PICK m \in {serverRecv[c].buf}, a \in FreeAddrs :
            /\ Handles(c, m, "CLIENT_KV_SET_RENDEZVOUS")
            /\ memory' = [memory EXCEPT ![a] = Garbage]
            /\ regions' = regions \cup {region(a)}
            /\ Send(c, Msg("SERVER_KV_SET_RENDEZVOUS", Nil, Nil, 0, a),
                    [key |-> m.key, entry |-> entry(m, a)])
            /\ UNCHANGED database
      BY <1>4 DEF HandleRendezvousSetKey
    <2>2. m \in Request /\ m.op = "CLIENT_KV_SET_RENDEZVOUS"
      BY <2>1, HandlesType
    <2>3. m.key \in Keys /\ m.size \in Nat
      BY <2>2 DEF Request, Message
    <2>4. a \in Addrs
      BY DEF FreeAddrs
    <2>5. region(a) \in Region
      BY <2>4 DEF Region
    <2>6. [key |-> m.key, entry |-> entry(m, a)] \in Commit
      BY <2>3, <2>4, <2>5 DEF Entry, Commit
    <2>7. Msg("SERVER_KV_SET_RENDEZVOUS", Nil, Nil, 0, a) \in Answer
      BY AnswerType
    <2>8. memory' \in [Addrs -> Content] /\ regions' \subseteq Region
          /\ database' \in [Keys -> Entry \cup {Nil}]
      BY <2>1, <2>5 DEF TypeInv, TypeOK, Content
    <2> HIDE DEF entry
    <2> QED BY <2>1, <2>6, <2>7, <2>8, HandlesType, SendType
  <1>5. CASE HandleGetMissing(c)
    <2>1. PICK m : Handles(c, m, "CLIENT_KV_GET")
      BY <1>5 DEF HandleGetMissing
    <2>2. Status("SERVER_KV_GET_KEY_NOT_FOUND") \in Answer
      BY StatusType DEF AnswerOp, GrantOp
    <2> QED BY <1>5, <2>1, <2>2, HandlesType, SendType DEF HandleGetMissing, TypeInv, TypeOK
  <1>6. CASE HandleGetEager(c)
    <2> DEFINE answer(m) == Msg("SERVER_KV_GET_EAGER", Nil, memory[database[m.key].addr], 0, Nil)
    <2>1. PICK m \in {serverRecv[c].buf} :
            /\ Handles(c, m, "CLIENT_KV_GET")
            /\ database[m.key] # Nil
            /\ Send(c, answer(m), Nil)
            /\ UNCHANGED <<database, memory, regions>>
      BY <1>6 DEF HandleGetEager
    <2>2. m.key \in Keys
      BY <2>1, HandlesType DEF Request
    <2>3. answer(m) \in Answer
      BY <2>1, <2>2, AnswerType
    <2> HIDE DEF answer
    <2> QED BY <2>1, <2>3, HandlesType, SendType DEF TypeInv, TypeOK
  <1>7. CASE HandleGetRendezvous(c)
    <2> DEFINE region(m) == [addr |-> database[m.key].addr, owner |-> c, access |-> "read"]
               commit(m) == [key   |-> m.key,
                             entry |-> [database[m.key] EXCEPT !.mr = region(m)]]
               answer(m) == Msg("SERVER_KV_GET_RENDEZVOUS", Nil, Nil,
                                database[m.key].size, database[m.key].addr)
    <2>1. PICK m \in {serverRecv[c].buf} :
            /\ Handles(c, m, "CLIENT_KV_GET")
            /\ database[m.key] # Nil
            /\ regions' = regions \cup {region(m)}
            /\ Send(c, answer(m), commit(m))
            /\ UNCHANGED <<database, memory>>
      BY <1>7 DEF HandleGetRendezvous
    <2>2. m.key \in Keys
      BY <2>1, HandlesType DEF Request
    <2>3. database[m.key] \in Entry
      BY <2>1, <2>2 DEF TypeInv, TypeOK
    <2>4. region(m) \in Region
      BY <2>3 DEF Entry, Region
    <2>5. commit(m) \in Commit
      BY <2>2, <2>3, <2>4 DEF Entry, Commit
    <2>6. answer(m) \in Answer
      BY <2>1, <2>2, AnswerType
    <2>7. regions' \subseteq Region
      BY <2>1, <2>4 DEF TypeInv, TypeOK
    <2> HIDE DEF answer, commit
    <2> QED BY <2>1, <2>5, <2>6, <2>7, HandlesType, SendType DEF TypeInv, TypeOK
  <1>8. ASSUME NEW fin, NEW success \in AnswerOp \ GrantOp, HandleFin(c, fin, success),
               fin \in {"CLIENT_KV_SET_RENDEZVOUS_FIN", "CLIENT_KV_GET_RENDEZVOUS_FIN"}
        PROVE  TypeInv'
    <2>1. PICK m : /\ Handles(c, m, fin)
                   /\ DeregisterRdmaMr(m.key)
                   /\ Send(c, Status(success), Nil)
                   /\ UNCHANGED memory
      BY <1>8 DEF HandleFin
    <2>2. m.key \in Keys
      BY <1>8, <2>1, HandlesType DEF Request
    <2>3. [database[m.key] EXCEPT !.mr = Nil] \in Entry
      BY <2>1, <2>2 DEF DeregisterRdmaMr, TypeInv, TypeOK, Entry
    <2>4. database' \in [Keys -> Entry \cup {Nil}] /\ regions' \subseteq Region
      BY <2>1, <2>3 DEF DeregisterRdmaMr, TypeInv, TypeOK
    <2>5. memory' \in [Addrs -> Content]
      BY <2>1 DEF TypeInv, TypeOK
    <2> QED BY <2>1, <2>4, <2>5, StatusType, HandlesType, SendType
  <1>9. CASE HandleSetFin(c)
    BY <1>8, <1>9 DEF HandleSetFin, AnswerOp, GrantOp
  <1>10. CASE HandleGetFin(c)
    BY <1>8, <1>10 DEF HandleGetFin, AnswerOp, GrantOp
  <1>11. CASE HandleShutDown(c)
    <2>1. Handles(c, serverRecv[c].buf, "SHUT_DOWN_SERVER")
      BY <1>11 DEF HandleShutDown
    <2> QED BY <1>11, <2>1, HandlesType, NextTurnType
            DEF HandleShutDown, clientVars, TypeInv, TypeOK, CallShape, BufferShape
  <1>12. CASE SrvSent(c)
    BY <1>12, NextTurnType
       DEF SrvSent, Commit, clientVars, linkVars, TypeInv, TypeOK, CallShape, BufferShape
  <1>13. CASE SrvSendAborted(c)
    BY <1>13, NextTurnType
       DEF SrvSendAborted, clientVars, linkVars, TypeInv, TypeOK, CallShape, BufferShape
  <1> QED BY <1>1, <1>2, <1>3, <1>4, <1>5, <1>6, <1>7, <1>9, <1>10, <1>11, <1>12, <1>13
          DEF ServerStep

(* Every step keeps the types.                                             *)
LEMMA NextTypeInv == TypeInv /\ [Next]_vars => TypeInv'
  <1> SUFFICES ASSUME TypeInv, [Next]_vars PROVE TypeInv'
    OBVIOUS
  <1>1. ASSUME UNCHANGED vars PROVE TypeInv'
    BY <1>1 DEF vars, clientVars, linkVars, serverVars, TypeInv, TypeOK, CallShape, BufferShape
  <1>2. CASE Done
    BY <1>1, <1>2 DEF Done
  <1>3. ASSUME NEW c \in Clients,
               ClientCall(c) \/ ClientStep(c) \/ Deliver(c) \/ LinkFault(c) \/ ServerStep(c)
        PROVE  TypeInv'
    BY <1>3, CallTypeInv, StepTypeInv, LinkTypeInv, ServerTypeInv
  <1> QED BY <1>1, <1>2, <1>3 DEF Next

(* Every state of the service is well typed: the requests and answers on   *)
(* the wire and in the buffers carry the fields their reader takes from    *)
(* them, the database maps keys to entries, and the server's turn stays    *)
(* within its connections.                                                 *)
THEOREM TypeCorrect == Spec => []TypeOK
  <1>1. TypeInv => TypeOK
    BY DEF TypeInv
  <1> QED BY InitTypeInv, NextTypeInv, <1>1, PTL DEF Spec

-----------------------------------------------------------------------------
(***************************************************************************)
(* One message per connection.  While a connection works, at most one      *)
(* message is on it, in one of four places, and the client's stage says    *)
(* which are possible.  What the server is doing plays no part: an answer  *)
(* may be read, and the next request be posted, before the handler polls   *)
(* the completion of its answer's send.                                    *)
(***************************************************************************)
Quiet(c) ==
  upWire[c] = Nil /\ serverRecv[c].cqes = 0 /\ downWire[c] = Nil /\ clientRecv[c].cqes = 0

AtUp(c) ==
  upWire[c] # Nil /\ serverRecv[c].cqes = 0 /\ downWire[c] = Nil /\ clientRecv[c].cqes = 0

AtServer(c) ==
  upWire[c] = Nil /\ serverRecv[c].cqes = 1 /\ downWire[c] = Nil /\ clientRecv[c].cqes = 0

AtDown(c) ==
  upWire[c] = Nil /\ serverRecv[c].cqes = 0 /\ downWire[c] # Nil /\ clientRecv[c].cqes = 0

AtClient(c) ==
  upWire[c] = Nil /\ serverRecv[c].cqes = 0 /\ downWire[c] = Nil /\ clientRecv[c].cqes = 1

(* Only SHUT_DOWN_SERVER is never answered, and only it follows the last   *)
(* call.                                                                   *)
ShutsDown(c) ==
  /\ upWire[c] # Nil =>
       (upWire[c].op = "SHUT_DOWN_SERVER" <=> stage[c] \in {"shutdown", "closed"})
  /\ serverRecv[c].cqes > 0 =>
       (serverRecv[c].buf.op = "SHUT_DOWN_SERVER" <=> stage[c] \in {"shutdown", "closed"})

OneMessage(c) ==
  qp[c] = "rts" =>
    /\ stage[c] \in {"idle", "rdma"} => Quiet(c)
    /\ stage[c] \in {"request", "fin"} => AtUp(c) \/ AtServer(c) \/ AtDown(c) \/ AtClient(c)
    /\ stage[c] \in {"reply", "ack"} => AtServer(c) \/ AtDown(c) \/ AtClient(c)
    /\ stage[c] = "shutdown" => AtUp(c) \/ AtServer(c) \/ Quiet(c)
    /\ stage[c] = "closed" => AtServer(c) \/ Quiet(c)
    /\ ShutsDown(c)

MessageInv == \A c \in Clients : OneMessage(c)

(* A step that leaves a connection and its client's stage alone keeps it.  *)
LEMMA OneMessageFrame ==
  ASSUME NEW d \in Clients, OneMessage(d), stage'[d] = stage[d], qp'[d] = qp[d],
         upWire'[d] = upWire[d], downWire'[d] = downWire[d],
         serverRecv'[d] = serverRecv[d], clientRecv'[d] = clientRecv[d]
  PROVE  OneMessage(d)'
  BY DEF OneMessage, ShutsDown, Quiet, AtUp, AtServer, AtDown, AtClient

(* At the start nothing is on its way.                                     *)
LEMMA InitMessageInv == Init => MessageInv
  BY DEF Init, NothingReceived, MessageInv, OneMessage, ShutsDown, Quiet

(* A program's call is made when nothing is on its way.                    *)
LEMMA CallMessageInv ==
  ASSUME TypeInv, MessageInv, NEW c \in Clients, ClientCall(c)
  PROVE  MessageInv'
  <1> USE DEF TypeInv, TypeOK, MessageInv
  <1>1. ASSUME NEW cl \in Call, NEW request \in Request,
               request.op # "SHUT_DOWN_SERVER", Invoke(c, cl, request)
        PROVE  MessageInv'
    <2>1. request # Nil
      BY NilAssumption DEF Request
    <2>2. OneMessage(c)'
      BY <1>1, <2>1 DEF Invoke, OneMessage, ShutsDown, Quiet, AtUp
    <2>3. \A d \in Clients \ {c} : OneMessage(d)'
      BY <1>1, OneMessageFrame DEF Invoke
    <2> QED BY <2>2, <2>3
  <1>2. ASSUME NEW k \in Keys, NEW v \in Values, KvSet(c, k, v)
        PROVE  MessageInv'
    <2>1. [type |-> "set", key |-> k, value |-> v] \in Call
      BY DEF Call, Content
    <2>2. SetRequest(k, v) \in Request /\ SetRequest(k, v).op # "SHUT_DOWN_SERVER"
      BY SetRequestType DEF SetRequest, Msg
    <2> QED BY <1>1, <1>2, <2>1, <2>2 DEF KvSet
  <1>3. ASSUME NEW k \in Keys, KvGet(c, k)
        PROVE  MessageInv'
    <2>1. [type |-> "get", key |-> k, value |-> Nil] \in Call
      BY DEF Call
    <2>2. GetRequest(k) \in Request /\ GetRequest(k).op # "SHUT_DOWN_SERVER"
      BY NilAssumption DEF GetRequest, Msg, Request, Message, RequestOp
    <2> QED BY <1>1, <1>3, <2>1, <2>2 DEF KvGet
  <1>4. ASSUME ShutDown(c)
        PROVE  MessageInv'
    <2>1. Status("SHUT_DOWN_SERVER") \in Request /\ Status("SHUT_DOWN_SERVER").op = "SHUT_DOWN_SERVER"
      BY NilAssumption DEF Status, Msg, Request, Message, RequestOp
    <2>2. Status("SHUT_DOWN_SERVER") # Nil
      BY <2>1, NilAssumption DEF Request
    <2>3. OneMessage(c)'
      BY <1>4, <2>1, <2>2 DEF ShutDown, OneMessage, ShutsDown, Quiet, AtUp
    <2>4. \A d \in Clients \ {c} : OneMessage(d)'
      BY <1>4, OneMessageFrame DEF ShutDown
    <2> QED BY <2>3, <2>4
  <1> QED BY <1>2, <1>3, <1>4 DEF ClientCall

(* A step of a call takes the message from its buffer, posts the FIN when  *)
(* nothing is on its way, or moves on with the message where it was.       *)
LEMMA StepMessageInv ==
  ASSUME TypeInv, MessageInv, NEW c \in Clients, ClientStep(c)
  PROVE  MessageInv'
  <1> USE DEF MessageInv
  <1> DEFINE Frame == \A d \in Clients \ {c} : OneMessage(d)'
  <1>1. CASE RequestSent(c)
    <2>1. OneMessage(c)'
      BY <1>1 DEF RequestSent, linkVars, TypeInv, TypeOK,
                  OneMessage, ShutsDown, AtUp, AtServer, AtDown, AtClient
    <2>2. Frame
      BY <1>1, OneMessageFrame DEF RequestSent, linkVars, TypeInv, TypeOK
    <2> QED BY <2>1, <2>2
  <1>2. ASSUME Received(c), stage[c] \in {"reply", "ack"},
               NEW next \in {"idle", "rdma"}, stage' = [stage EXCEPT ![c] = next]
        PROVE  MessageInv'
    <2>1. /\ clientRecv' = [clientRecv EXCEPT ![c] =
               [buf  |-> IF clientRecv[c].cqes = 1 THEN Nil ELSE clientRecv[c].buf,
                cqes |-> clientRecv[c].cqes - 1]]
          /\ clientRecv[c].cqes > 0
      BY <1>2 DEF Received, Poll
    <2>2. OneMessage(c)'
      BY <1>2, <2>1 DEF Received, TypeInv, TypeOK, Recv,
                  OneMessage, ShutsDown, Quiet, AtServer, AtDown, AtClient
    <2>3. Frame
      BY <1>2, <2>1, OneMessageFrame DEF Received, TypeInv, TypeOK
    <2> QED BY <2>2, <2>3
  <1>3. CASE \/ EagerSetReply(c) \/ RendezvousSetRefused(c) \/ RendezvousSetGranted(c)
             \/ GetEagerReply(c) \/ GetGranted(c) \/ GetRefused(c) \/ Ack(c)
    BY <1>2, <1>3
       DEF EagerSetReply, RendezvousSetRefused, RendezvousSetGranted,
           GetEagerReply, GetGranted, GetRefused, Ack, Return
  <1>4. CASE RdmaWrite(c) \/ RdmaRead(c)
    <2>1. call[c] \in Call /\ stage[c] = "rdma" /\ FinPosted(c)
      BY <1>4 DEF RdmaWrite, RdmaRead, TypeInv, TypeOK, CallShape, InCall
    <2>2. Fin(call[c]) # Nil /\ Fin(call[c]).op # "SHUT_DOWN_SERVER"
      BY <2>1, FinType, NilAssumption DEF Fin, Msg, Request
    <2>3. OneMessage(c)'
      BY <2>1, <2>2 DEF FinPosted, TypeInv, TypeOK, OneMessage, ShutsDown, Quiet, AtUp
    <2>4. Frame
      BY <2>1, OneMessageFrame DEF FinPosted, TypeInv, TypeOK
    <2> QED BY <2>3, <2>4
  <1>5. CASE RdmaFails(c)
    <2>1. OneMessage(c)'
      BY <1>5 DEF RdmaFails, TypeInv, TypeOK, OneMessage
    <2>2. Frame
      BY <1>5, OneMessageFrame DEF RdmaFails, Return, TypeInv, TypeOK
    <2> QED BY <2>1, <2>2
  <1>6. CASE FinSent(c)
    <2>1. OneMessage(c)'
      BY <1>6 DEF FinSent, linkVars, TypeInv, TypeOK,
                  OneMessage, ShutsDown, AtUp, AtServer, AtDown, AtClient
    <2>2. Frame
      BY <1>6, OneMessageFrame DEF FinSent, linkVars, TypeInv, TypeOK
    <2> QED BY <2>1, <2>2
  <1>7. CASE ShutDownSent(c)
    <2>1. OneMessage(c)'
      BY <1>7 DEF ShutDownSent, linkVars, TypeInv, TypeOK,
                  OneMessage, ShutsDown, Quiet, AtUp, AtServer
    <2>2. Frame
      BY <1>7, OneMessageFrame DEF ShutDownSent, linkVars, TypeInv, TypeOK
    <2> QED BY <2>1, <2>2
  <1>8. CASE SendFails(c) \/ ShutDownFails(c) \/ RecvFails(c)
    <2>1. OneMessage(c)'
      BY <1>8 DEF SendFails, ShutDownFails, RecvFails, linkVars, OneMessage
    <2>2. Frame
      BY <1>8, OneMessageFrame
         DEF SendFails, ShutDownFails, RecvFails, Return, linkVars, TypeInv, TypeOK
    <2> QED BY <2>1, <2>2
  <1> QED BY <1>1, <1>3, <1>4, <1>5, <1>6, <1>7, <1>8 DEF ClientStep

(* A message that arrives finds the receive buffer empty.                  *)
LEMMA LinkMessageInv ==
  ASSUME TypeInv, MessageInv, NEW c \in Clients, Deliver(c) \/ LinkFault(c)
  PROVE  MessageInv'
  <1> USE DEF MessageInv
  <1> DEFINE Frame == \A d \in Clients \ {c} : OneMessage(d)'
  <1>1. CASE DeliverUp(c)
    <2>1. OneMessage(c)'
      BY <1>1 DEF DeliverUp, Land, clientVars, TypeInv, TypeOK, Recv, Stage,
                  OneMessage, ShutsDown, Quiet, AtUp, AtServer, AtDown, AtClient
    <2>2. Frame
      BY <1>1, OneMessageFrame DEF DeliverUp, clientVars, TypeInv, TypeOK
    <2> QED BY <2>1, <2>2
  <1>2. CASE DeliverDown(c)
    <2>1. OneMessage(c)'
      BY <1>2 DEF DeliverDown, Land, clientVars, TypeInv, TypeOK, Recv, Stage,
                  OneMessage, ShutsDown, Quiet, AtUp, AtServer, AtDown, AtClient
    <2>2. Frame
      BY <1>2, OneMessageFrame DEF DeliverDown, clientVars, TypeInv, TypeOK
    <2> QED BY <2>1, <2>2
  <1>3. CASE LinkFault(c)
    <2>1. OneMessage(c)'
      BY <1>3 DEF LinkFault, TypeInv, TypeOK, OneMessage
    <2>2. Frame
      BY <1>3, OneMessageFrame DEF LinkFault, clientVars, TypeInv, TypeOK
    <2> QED BY <2>1, <2>2
  <1> QED BY <1>1, <1>2, <1>3 DEF Deliver

(* A handler takes the connection's message and puts its answer there; the *)
(* one without an answer takes the message nobody waits for an answer to.  *)
LEMMA ServerMessageInv ==
  ASSUME TypeInv, MessageInv, NEW c \in Clients, ServerStep(c)
  PROVE  MessageInv'
  <1> USE DEF MessageInv
  <1> DEFINE Frame == \A d \in Clients \ {c} : OneMessage(d)'
  <1>1. ASSUME NEW m, NEW op, op # "SHUT_DOWN_SERVER", NEW answer \in Answer, NEW commit,
               Handles(c, m, op), Send(c, answer, commit)
        PROVE  MessageInv'
    <2>1. answer # Nil
      BY NilAssumption DEF Answer
    <2>2. OneMessage(c)'
      BY <1>1, <2>1 DEF Handles, Poll, Send, clientVars, TypeInv, TypeOK, Recv, Stage,
                  OneMessage, ShutsDown, Quiet, AtUp, AtServer, AtDown, AtClient
    <2>3. Frame
      BY <1>1, OneMessageFrame DEF Handles, Send, clientVars, TypeInv, TypeOK
    <2> QED BY <2>2, <2>3
  <1>2. CASE HandleShutDown(c)
    <2>1. Handles(c, serverRecv[c].buf, "SHUT_DOWN_SERVER")
          /\ UNCHANGED <<upWire, downWire, clientRecv, stage, qp>>
      BY <1>2 DEF HandleShutDown, clientVars
    <2>2. OneMessage(c)'
      BY <2>1 DEF Handles, Poll, TypeInv, TypeOK, Recv, Stage,
                  OneMessage, ShutsDown, Quiet, AtUp, AtServer, AtDown, AtClient
    <2>3. Frame
      BY <2>1, OneMessageFrame DEF Handles, TypeInv, TypeOK
    <2> QED BY <2>2, <2>3
  <1>3. ASSUME NEW m, NEW op, op # "SHUT_DOWN_SERVER", NEW status \in AnswerOp \ GrantOp,
               NEW commit, Handles(c, m, op), Send(c, Status(status), commit)
        PROVE  MessageInv'
    BY <1>1, <1>3, StatusType
  <1>4. CASE HandleBusy(c)
    BY <1>3, <1>4 DEF HandleBusy, AnswerOp, GrantOp
  <1>5. CASE HandleEagerSet(c)
    BY <1>3, <1>5 DEF HandleEagerSet, AnswerOp, GrantOp
  <1>6. CASE HandleRendezvousSetKey(c)
    BY <1>1, <1>6, AnswerType DEF HandleRendezvousSetKey
  <1>7. CASE HandleGetMissing(c)
    BY <1>3, <1>7 DEF HandleGetMissing, AnswerOp, GrantOp
  <1>8. CASE HandleGetEager(c) \/ HandleGetRendezvous(c)
    <2>1. PICK m : /\ Handles(c, m, "CLIENT_KV_GET")
                   /\ database[m.key] # Nil
                   /\ \/ Send(c, Msg("SERVER_KV_GET_EAGER", Nil,
                                     memory[database[m.key].addr], 0, Nil), Nil)
                      \/ \E commit : Send(c, Msg("SERVER_KV_GET_RENDEZVOUS", Nil, Nil,
                                                 database[m.key].size,
                                                 database[m.key].addr), commit)
      BY <1>8 DEF HandleGetEager, HandleGetRendezvous
    <2>2. m.key \in Keys
      BY <2>1, HandlesType DEF Request
    <2> QED BY <1>1, <2>1, <2>2, AnswerType
  <1>9. CASE HandleSetFin(c)
    BY <1>3, <1>9 DEF HandleSetFin, HandleFin, AnswerOp, GrantOp
  <1>10. CASE HandleGetFin(c)
    BY <1>3, <1>10 DEF HandleGetFin, HandleFin, AnswerOp, GrantOp
  <1>11. CASE PollNothing(c) \/ SrvSent(c) \/ SrvSendAborted(c)
    <2>1. UNCHANGED <<stage, qp, upWire, downWire, serverRecv, clientRecv>>
      BY <1>11 DEF PollNothing, SrvSent, SrvSendAborted, linkVars, clientVars
    <2> QED BY <2>1, OneMessageFrame
  <1> QED BY <1>2, <1>4, <1>5, <1>6, <1>7, <1>8, <1>9, <1>10, <1>11 DEF ServerStep

(* Every step keeps TypeInv and MessageInv.                                *)
LEMMA NextMessageInv == TypeInv /\ MessageInv /\ [Next]_vars => MessageInv'
  <1> SUFFICES ASSUME TypeInv, MessageInv, [Next]_vars PROVE MessageInv'
    OBVIOUS
  <1>1. ASSUME UNCHANGED vars PROVE MessageInv'
    <2>1. UNCHANGED <<stage, qp, upWire, downWire, serverRecv, clientRecv>>
      BY <1>1 DEF vars, linkVars, clientVars
    <2> QED BY <2>1, OneMessageFrame DEF MessageInv
  <1>2. CASE Done
    BY <1>1, <1>2 DEF Done
  <1>3. ASSUME NEW c \in Clients,
               ClientCall(c) \/ ClientStep(c) \/ Deliver(c) \/ LinkFault(c) \/ ServerStep(c)
        PROVE  MessageInv'
    BY <1>3, CallMessageInv, StepMessageInv, LinkMessageInv, ServerMessageInv
  <1> QED BY <1>1, <1>2, <1>3 DEF Next

(* The single receive buffer of each side is enough: on a connection that  *)
(* works, whatever the other connections do, no message arrives on top of  *)
(* one that was not taken.                                                 *)
THEOREM MessagesAreSafe == Spec => []NoMessageOverwritten
  <1>1. TypeInv /\ MessageInv => NoMessageOverwritten
    <2> SUFFICES ASSUME TypeInv, MessageInv, NEW c \in Clients, qp[c] = "rts"
                 PROVE  /\ upWire[c] # Nil => serverRecv[c].cqes = 0
                        /\ downWire[c] # Nil => clientRecv[c].cqes = 0
      BY DEF NoMessageOverwritten
    <2>1. stage[c] \in Stage
      BY DEF TypeInv, TypeOK
    <2> QED BY <2>1 DEF MessageInv, OneMessage, Stage, Quiet, AtUp, AtServer, AtDown, AtClient
  <1> QED BY InitTypeInv, NextTypeInv, InitMessageInv, NextMessageInv, <1>1, PTL DEF Spec
=============================================================================
