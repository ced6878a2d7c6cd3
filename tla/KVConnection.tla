---------------------------- MODULE KVConnection ----------------------------
(***************************************************************************)
(* The life of the connections of the key-value service: kv_open on the    *)
(* server and on each client (kv_api.c:10-226), the sockets over which     *)
(* they tell each other their queue pairs (ib_functions.c:121-458), the    *)
(* receives that are kept posted while requests and answers go back and    *)
(* forth (710-735, 871-930), and kv_close (kv_api.c:521-535).  What        *)
(* requests say and do is in KVService.                                    *)
(*                                                                         *)
(* An end is one side of a connection: a client has one, named like the    *)
(* client, and the server has one for each of its NumClients clients,      *)
(* numbered like its arrays.                                               *)
(***************************************************************************)
EXTENDS Integers, Sequences, FiniteSets, AdapterObjects

CONSTANTS
    Clients,       \* the client programs that are started
    NumClients,    \* NUM_CLIENTS: how many the server serves
    RxDepth,       \* RX_DEPTH: receives that fit the receive queue
    RefillAt,      \* REFILL_RWR_THRES
    Faulty,        \* processes that may fail in kv_open or be killed
    Refusing,      \* ends whose adapter may refuse a receive when the queue is refilled
    MaxLag,        \* bound: by how much routs may fall behind at a refusing end
    Server,        \* the server process
    Nil

ASSUME SizesAssumption ==
    /\ NumClients \in Nat \ {0}
    /\ MaxLag \in Nat /\ RxDepth \in Nat /\ RefillAt \in Nat /\ RefillAt < RxDepth
ASSUME NamesAssumption ==
    Server \notin Clients /\ Nil \notin Clients \cup Nat \cup {Server} /\ Clients \cap Nat = {}

Slots == 1 .. NumClients
Ends  == Clients \cup Slots
Procs == Clients \cup {Server}
Owner(e) == IF e \in Slots THEN Server ELSE e

VARIABLES
    at,        \* where each process stands
    turn,      \* server: the client slot kv_open is setting up
    my_dest,   \* server: the end its one my_dest describes
    socks,     \* server: the accepted sockets, by the client at the other side
    downs,     \* server: num_shut_down_server_request
    port,      \* the listening socket: "closed", "open" or "gone"
    backlog,   \* clients that connected and are not yet accepted
    toServer,  \* what each client wrote on its socket and the server did not read
    toClient,  \* and the other way
    verbs,     \* what each end holds of the adapter: the part of AllResources it has made
    qp,        \* state of the queue pair of each end
    dest,      \* the end each queue pair was connected to
    buf,       \* the receive buffer of each end
    posted,    \* receives in the receive queue of each end
    landed,    \* receive completions that were not polled
    routs,     \* the program's own count of its receives
    wire,      \* message under way to each end
    refused    \* history: the ends where a refill failed

setup == <<turn, my_dest, socks, port, backlog, toServer, toClient>>
rdma  == <<verbs, qp, dest, buf, posted, landed, routs, wire>>
vars  == <<at, downs, setup, rdma, refused>>

ClientAt == {"start", "made", "asked", "told", "running", "sent", "waiting",
             "leaving", "closing", "ended", "failed", "crashed", "killed"}
ServerAt == {"start", "accepting", "making", "made", "connected", "told",
             "running", "answering", "closing", "ended", "failed"}
Message  == {"request", "answer", "SHUT_DOWN_SERVER"}
Gone     == {"ended", "failed", "crashed", "killed"}

-----------------------------------------------------------------------------
(* The objects of the adapter: who needs whom, the order pp_init_ctx makes *)
(* them in and the order pp_close_ctx destroys them in.                    *)

InitOrder == <<"context", "pd", "mr_send", "mr_receive", "send_cq", "receive_cq", "qp">>
AllResources == {InitOrder[i] : i \in DOMAIN InitOrder}

\* The library refuses to destroy what another object still uses.
Uses == [r \in AllResources |->
    CASE r = "context" -> {}
      [] r \in {"pd", "send_cq", "receive_cq"} -> {"context"}
      [] r \in {"mr_send", "mr_receive"} -> {"pd"}
      [] r = "qp" -> {"pd", "send_cq", "receive_cq"}]


CloseOrder ==
    <<"qp", "send_cq", "receive_cq", "mr_send", "mr_receive", "pd", "context">>

AfterClose == LeftBy(CloseOrder, Uses)

-----------------------------------------------------------------------------

TypeOK ==
    /\ at \in [Procs -> ClientAt \cup ServerAt]
    /\ turn \in 1 .. NumClients + 1
    /\ my_dest \in Slots \cup {Nil}
    /\ socks \in Seq(Clients) /\ backlog \in Seq(Clients)
    /\ downs \in 0 .. NumClients
    /\ port \in {"closed", "open", "gone"}
    /\ toServer \in [Clients -> Clients \cup {"done", Nil}]
    /\ toClient \in [Clients -> Slots \cup {Nil}]
    /\ verbs \in [Ends -> SUBSET AllResources]
    /\ qp \in [Ends -> {"none", "init", "rts", "err"}]
    /\ dest \in [Ends -> Ends \cup {Nil}]
    /\ posted \in [Ends -> 0 .. RxDepth]
    /\ landed \in [Ends -> 0 .. RxDepth]
    /\ routs \in [Ends -> Int]
    /\ wire \in [Ends -> Message \cup {Nil}]
    /\ buf \in [Ends -> Message \cup {Nil}]
    /\ refused \subseteq Ends

Init ==
    /\ at = [p \in Procs |-> "start"]
    /\ turn = 1 /\ my_dest = Nil /\ socks = <<>> /\ downs = 0
    /\ port = "closed" /\ backlog = <<>>
    /\ toServer = [c \in Clients |-> Nil]
    /\ toClient = [c \in Clients |-> Nil]
    /\ verbs = [e \in Ends |-> {}]
    /\ qp = [e \in Ends |-> "none"]
    /\ dest = [e \in Ends |-> Nil]
    /\ buf = [e \in Ends |-> Nil]
    /\ posted = [e \in Ends |-> 0]
    /\ landed = [e \in Ends |-> 0]
    /\ routs = [e \in Ends |-> 0]
    /\ wire = [e \in Ends |-> Nil]
    /\ refused = {}

Goto(p, place) == at' = [at EXCEPT ![p] = place]

\* pp_init_ctx, pp_post_recv and the port query: the queue pair of end e is in INIT and
\* its receive queue is full.
Make(e) ==
    /\ verbs' = [verbs EXCEPT ![e] = AllResources]
    /\ qp' = [qp EXCEPT ![e] = "init"]
    /\ posted' = [posted EXCEPT ![e] = RxDepth]
    /\ routs' = [routs EXCEPT ![e] = RxDepth]
    /\ UNCHANGED <<dest, buf, landed, wire>>

\* pp_connect_ctx takes the queue pair through RTR to RTS.
Connect(e, peer) ==
    /\ qp' = [qp EXCEPT ![e] = "rts"]
    /\ dest' = [dest EXCEPT ![e] = peer]
    /\ UNCHANGED <<verbs, buf, posted, landed, routs, wire>>

-----------------------------------------------------------------------------
(* kv_open, the server: listen_to_websocket, then one client at a time.    *)

Listen ==
    /\ at[Server] = "start"
    /\ port' = "open"
    /\ Goto(Server, "accepting")
    /\ UNCHANGED <<turn, my_dest, socks, backlog, toServer, toClient, downs, rdma, refused>>

\* The listening socket is closed when the last client was accepted; whoever is still in
\* its queue loses the connection.
Accept ==
    /\ at[Server] = "accepting" /\ backlog # <<>>
    /\ socks' = Append(socks, Head(backlog))
    /\ \/ /\ Len(socks') < NumClients
          /\ backlog' = Tail(backlog)
          /\ UNCHANGED <<at, port>>
       \/ /\ Len(socks') = NumClients
          /\ backlog' = <<>> /\ port' = "gone"
          /\ Goto(Server, "making")
    /\ UNCHANGED <<turn, my_dest, toServer, toClient, downs, rdma, refused>>

Peer == socks[turn]    \* the client at the other side of the socket in use

\* A faulty variant: my_dest is filled in for the first client only.
SrvMakeOnce ==
    /\ at[Server] = "making"
    /\ Make(turn)
    /\ my_dest' = (IF turn = 1 THEN turn ELSE my_dest)
    /\ Goto(Server, "made")
    /\ UNCHANGED <<turn, socks, port, backlog, toServer, toClient, downs, refused>>

SrvMake ==
    /\ at[Server] = "making"
    /\ Make(turn)
    /\ my_dest' = turn
    /\ Goto(Server, "made")
    /\ UNCHANGED <<turn, socks, port, backlog, toServer, toClient, downs, refused>>

\* A call of the verbs library fails: kv_open returns 1 and the process exits, which
\* gives back what it has made.
SrvMakeFails ==
    /\ at[Server] = "making" /\ Server \in Faulty
    /\ Goto(Server, "failed")
    /\ UNCHANGED <<setup, downs, rdma, refused>>

\* A faulty variant: the own address is sent as soon as the client's was read.
SrvTellEarly ==
    /\ at[Server] = "made" /\ toServer[Peer] # Nil
    /\ toClient' = [toClient EXCEPT ![Peer] = my_dest]
    /\ UNCHANGED <<at, turn, my_dest, socks, port, backlog, toServer, downs, rdma, refused>>

\* pp_server_exch_dest: the client's address is read and the queue pair connected to it
\* before the own address is sent.
SrvConnect ==
    /\ at[Server] = "made" /\ toServer[Peer] # Nil
    /\ toServer' = [toServer EXCEPT ![Peer] = Nil]
    /\ Connect(turn, toServer[Peer])
    /\ Goto(Server, "connected")
    /\ UNCHANGED <<turn, my_dest, socks, port, backlog, toClient, downs, refused>>

SrvTell ==
    /\ at[Server] = "connected"
    /\ toClient' = [toClient EXCEPT ![Peer] = my_dest]
    /\ Goto(Server, "told")
    /\ UNCHANGED <<turn, my_dest, socks, port, backlog, toServer, downs, rdma, refused>>

\* A faulty variant: one client too many is waited for.
SrvDoneLate ==
    /\ at[Server] = "told"
    /\ toServer[Peer] = "done" \/ at[Peer] \in Gone
    /\ toServer' = [toServer EXCEPT ![Peer] = Nil]
    /\ turn' = turn + 1
    /\ Goto(Server, IF turn > NumClients THEN "running" ELSE "making")
    /\ UNCHANGED <<my_dest, socks, port, backlog, toClient, downs, rdma, refused>>

\* The read that waits for the client's "done" is not looked at: the end of the stream
\* will do.  Then comes the next client, or run_server.
SrvDone ==
    /\ at[Server] = "told"
    /\ toServer[Peer] = "done" \/ at[Peer] \in Gone
    /\ toServer' = [toServer EXCEPT ![Peer] = Nil]
    /\ turn' = turn + 1
    /\ Goto(Server, IF turn = NumClients THEN "running" ELSE "making")
    /\ UNCHANGED <<my_dest, socks, port, backlog, toClient, downs, rdma, refused>>

\* One client's failure ends the server: its stream ended before its address came, or the
\* queue pair cannot be connected.
SrvExchangeFails ==
    /\ at[Server] = "made"
    /\ \/ toServer[Peer] = Nil /\ at[Peer] \in Gone
       \/ toServer[Peer] # Nil /\ Server \in Faulty
    /\ Goto(Server, "failed")
    /\ UNCHANGED <<setup, downs, rdma, refused>>

SrvTellFails ==
    /\ at[Server] = "connected" /\ at[Peer] \in Gone
    /\ Goto(Server, "failed")
    /\ UNCHANGED <<setup, downs, rdma, refused>>

-----------------------------------------------------------------------------
(* kv_open, a client.                                                      *)

ClientMake(c) ==
    /\ at[c] = "start"
    /\ Make(c)
    /\ Goto(c, "made")
    /\ UNCHANGED <<setup, downs, refused>>

ClientMakeFails(c) ==
    /\ at[c] = "start" /\ c \in Faulty
    /\ Goto(c, "failed")
    /\ UNCHANGED <<setup, downs, rdma, refused>>

\* pp_client_exch_dest connects and writes its address.
ClientAsk(c) ==
    /\ at[c] = "made" /\ port = "open" /\ at[Server] \notin Gone
    /\ backlog' = Append(backlog, c)
    /\ toServer' = [toServer EXCEPT ![c] = c]
    /\ Goto(c, "asked")
    /\ UNCHANGED <<turn, my_dest, socks, port, toClient, downs, rdma, refused>>

Accepted(c) == \E i \in DOMAIN socks : socks[i] = c
Queued(c)   == \E i \in DOMAIN backlog : backlog[i] = c

\* The connection stands, and the address cannot be written.
ClientAskCut(c) ==
    /\ at[c] = "made" /\ c \in Faulty /\ port = "open" /\ at[Server] \notin Gone
    /\ backlog' = Append(backlog, c)
    /\ Goto(c, "crashed")
    /\ UNCHANGED <<turn, my_dest, socks, port, toServer, toClient, downs, rdma, refused>>

\* A faulty variant: a client whose connection was accepted does not see it end.
ClientDestMissingIfRefused(c) == at[c] = "made" /\ (port # "open" \/ at[Server] \in Gone)

\* The connection is refused, or lost before an address came, and pp_client_exch_dest
\* returns NULL.  kv_open takes the address of rem_dest->gid without looking.
ClientDestMissing(c) ==
    \/ at[c] = "made" /\ (port # "open" \/ at[Server] \in Gone)
    \/ /\ at[c] = "asked" /\ toClient[c] = Nil
       /\ at[Server] \in Gone \/ (~Accepted(c) /\ ~Queued(c))

ClientCrashes(c) ==
    /\ ClientDestMissing(c)
    /\ Goto(c, "crashed")
    /\ UNCHANGED <<setup, downs, rdma, refused>>

\* The address of the server's end has come; "done" goes back and the socket is closed.
ClientTold(c) ==
    /\ at[c] = "asked" /\ toClient[c] # Nil
    /\ toServer' = [toServer EXCEPT ![c] = "done"]
    /\ Goto(c, "told")
    /\ UNCHANGED <<turn, my_dest, socks, port, backlog, toClient, downs, rdma, refused>>

ClientConnect(c) ==
    /\ at[c] = "told"
    /\ Connect(c, toClient[c])
    /\ Goto(c, "running")
    /\ UNCHANGED <<setup, downs, refused>>

ClientConnectFails(c) ==
    /\ at[c] = "told" /\ c \in Faulty
    /\ Goto(c, "failed")
    /\ UNCHANGED <<setup, downs, rdma, refused>>

\* A client is killed while it waits for the server.
ClientKilled(c) ==
    /\ at[c] \in {"asked", "waiting"} /\ c \in Faulty
    /\ Goto(c, "killed")
    /\ UNCHANGED <<setup, downs, rdma, refused>>

-----------------------------------------------------------------------------
(* The connection in use.                                                  *)

\* A queue pair receives when it is connected and its process exists.
Receives(e) == qp[e] = "rts" /\ at[Owner(e)] \notin Gone

\* The adapter hands a message to a posted receive.
Land(e) ==
    /\ wire[e] # Nil /\ Receives(e) /\ posted[e] > 0
    /\ wire' = [wire EXCEPT ![e] = Nil]
    /\ buf' = [buf EXCEPT ![e] = wire[e]]
    /\ posted' = [posted EXCEPT ![e] = @ - 1]
    /\ landed' = [landed EXCEPT ![e] = @ + 1]
    /\ UNCHANGED <<at, downs, setup, verbs, qp, dest, routs, refused>>

\* A message for an end that cannot receive it is tried again until the sender's
\* adapter gives up and puts its queue pair into the error state.
Undeliverable(e) == wire[e] # Nil /\ at[Owner(e)] \in Gone

\* poll_next_receive_wc counts the completion, and fills the receive queue up when
\* routs is down to the threshold.  Then n receives are missing.
Missing(e) == IF routs[e] - 1 <= RefillAt THEN RxDepth - (routs[e] - 1) ELSE 0
Room(e)    == RxDepth - posted[e] - (landed[e] - 1)

\* A faulty variant: the new receives are not counted.
RefilledUncounted(e) ==
    /\ landed[e] > 0 /\ Missing(e) <= Room(e)
    /\ landed' = [landed EXCEPT ![e] = @ - 1]
    /\ posted' = [posted EXCEPT ![e] = @ + Missing(e)]
    /\ routs'  = [routs EXCEPT ![e] = @ - 1]
    /\ UNCHANGED refused

\* A faulty variant: the queue is not refilled.
RefilledNever(e) ==
    /\ landed[e] > 0
    /\ landed' = [landed EXCEPT ![e] = @ - 1]
    /\ routs'  = [routs EXCEPT ![e] = @ - 1]
    /\ UNCHANGED <<posted, refused>>

Refilled(e) ==
    /\ landed[e] > 0 /\ Missing(e) <= Room(e)
    /\ landed' = [landed EXCEPT ![e] = @ - 1]
    /\ posted' = [posted EXCEPT ![e] = @ + Missing(e)]
    /\ routs'  = [routs EXCEPT ![e] = @ - 1 + Missing(e)]
    /\ UNCHANGED refused

\* pp_post_recv gives up at the first receive it cannot post, without counting those it
\* has posted; poll_next_receive_wc returns -1 and the message just polled is lost.
RefillFails(e) ==
    /\ landed[e] > 0 /\ Missing(e) > 0
    /\ e \in Refusing \/ Missing(e) > Room(e)
    /\ landed' = [landed EXCEPT ![e] = @ - 1]
    /\ \E n \in 0 .. Missing(e) - 1 :
           /\ n <= Room(e)
           /\ e \notin Refusing => n = Room(e)
           /\ posted' = [posted EXCEPT ![e] = @ + n]
    /\ routs' = [routs EXCEPT ![e] = @ - 1]
    /\ refused' = refused \cup {e}

\* A request on its way; a queue pair in the error state takes it and fails it.
ClientPost(c, m, place) ==
    /\ wire' = (IF qp[c] = "rts" THEN [wire EXCEPT ![dest[c]] = m] ELSE wire)
    /\ Goto(c, place)
    /\ UNCHANGED <<downs, setup, verbs, qp, dest, buf, posted, landed, routs, refused>>

ClientCall(c) ==
    /\ at[c] = "running" /\ routs[c] > -MaxLag
    /\ ClientPost(c, "request", "sent")

\* shut_down_server, after the last call.
ClientShutDown(c) ==
    /\ at[c] = "running"
    /\ ClientPost(c, "SHUT_DOWN_SERVER", "leaving")

ClientSent(c) ==
    /\ at[c] \in {"sent", "leaving"} /\ qp[c] = "rts" /\ wire[dest[c]] = Nil
    /\ Goto(c, IF at[c] = "sent" THEN "waiting" ELSE "closing")
    /\ UNCHANGED <<downs, setup, rdma, refused>>

\* The call returns 1; shut_down_server's result is not looked at.
ClientSendFails(c) ==
    /\ at[c] \in {"sent", "leaving"}
    /\ qp[c] = "err" \/ Undeliverable(dest[c])
    /\ qp' = [qp EXCEPT ![c] = "err"]
    /\ wire' = [wire EXCEPT ![dest[c]] = Nil]
    /\ Goto(c, IF at[c] = "sent" THEN "running" ELSE "closing")
    /\ UNCHANGED <<downs, setup, verbs, dest, buf, posted, landed, routs, refused>>

\* The answer, or the error of its poll, ends the exchange.
ClientReceive(c) ==
    /\ at[c] = "waiting"
    /\ Refilled(c) \/ RefillFails(c)
    /\ Goto(c, "running")
    /\ UNCHANGED <<downs, setup, verbs, qp, dest, buf, wire>>

\* kv_close of a client.
ClientClose(c) ==
    /\ at[c] = "closing"
    /\ verbs' = [verbs EXCEPT ![c] = AfterClose]
    /\ Goto(c, "ended")
    /\ UNCHANGED <<downs, setup, qp, dest, buf, posted, landed, routs, wire, refused>>

-----------------------------------------------------------------------------
(* run_server and kv_close, the server.                                    *)

SrvAnswer(i) ==
    /\ at[Server] = "running" /\ buf[i] = "request"
    /\ Refilled(i)
    /\ turn' = i
    /\ wire' = [wire EXCEPT ![dest[i]] = "answer"]
    /\ Goto(Server, "answering")
    /\ UNCHANGED <<downs, my_dest, socks, port, backlog, toServer, toClient,
                   verbs, qp, dest, buf>>

SrvSent ==
    /\ at[Server] = "answering" /\ wire[dest[turn]] = Nil
    /\ Goto(Server, "running")
    /\ UNCHANGED <<downs, setup, rdma, refused>>

SrvSendFails ==
    /\ at[Server] = "answering" /\ Undeliverable(dest[turn])
    /\ qp' = [qp EXCEPT ![turn] = "err"]
    /\ wire' = [wire EXCEPT ![dest[turn]] = Nil]
    /\ Goto(Server, "running")
    /\ UNCHANGED <<downs, setup, verbs, dest, buf, posted, landed, routs, refused>>

\* The message was polled and is lost: run_server takes it for no message.
SrvDrops(i) ==
    /\ at[Server] = "running"
    /\ RefillFails(i)
    /\ UNCHANGED <<at, downs, setup, verbs, qp, dest, buf, wire>>

\* A faulty variant: the first client to leave stops the server.
SrvShutDownFirst(i) ==
    /\ at[Server] = "running" /\ buf[i] = "SHUT_DOWN_SERVER"
    /\ Refilled(i)
    /\ downs' = downs + 1
    /\ Goto(Server, "closing")
    /\ UNCHANGED <<setup, verbs, qp, dest, buf, wire>>

SrvShutDown(i) ==
    /\ at[Server] = "running" /\ buf[i] = "SHUT_DOWN_SERVER"
    /\ Refilled(i)
    /\ downs' = downs + 1
    /\ Goto(Server, IF downs' = NumClients THEN "closing" ELSE "running")
    /\ UNCHANGED <<setup, verbs, qp, dest, buf, wire>>

SrvClose ==
    /\ at[Server] = "closing"
    /\ verbs' = [e \in Ends |-> IF e \in Slots THEN AfterClose ELSE verbs[e]]
    /\ Goto(Server, "ended")
    /\ UNCHANGED <<downs, setup, qp, dest, buf, posted, landed, routs, wire, refused>>

-----------------------------------------------------------------------------

SrvPoll(i) == SrvAnswer(i) \/ SrvDrops(i) \/ SrvShutDown(i)

ServerStep ==
    \/ Listen \/ Accept \/ SrvMake \/ SrvConnect \/ SrvTell \/ SrvDone
    \/ SrvExchangeFails \/ SrvTellFails
    \/ SrvSent \/ SrvSendFails \/ SrvClose

ClientStep(c) ==
    \/ ClientMake(c) \/ ClientAsk(c) \/ ClientCrashes(c) \/ ClientTold(c)
    \/ ClientConnect(c) \/ ClientCall(c) \/ ClientSent(c) \/ ClientSendFails(c)
    \/ ClientReceive(c) \/ ClientClose(c)

Fault ==
    \/ SrvMakeFails
    \/ \E c \in Clients : ClientMakeFails(c) \/ ClientAskCut(c) \/ ClientConnectFails(c)
                           \/ ClientKilled(c)

Next ==
    \/ ServerStep \/ Fault
    \/ \E i \in Slots : SrvPoll(i)
    \/ \E c \in Clients : ClientStep(c) \/ ClientShutDown(c)
    \/ \E e \in Ends : Land(e)

Spec == Init /\ [][Next]_vars

\* The programs are started and run on, and the network delivers.  run_server polls its
\* clients in turn, and a client has only so many calls to make.
Fairness ==
    /\ WF_vars(ServerStep)
    /\ \A i \in Slots : SF_vars(SrvPoll(i))
    /\ \A c \in Clients : WF_vars(ClientStep(c)) /\ SF_vars(ClientShutDown(c))
    /\ \A e \in Ends : WF_vars(Land(e))

FairSpec == Spec /\ Fairness

-----------------------------------------------------------------------------
(* Properties.                                                             *)

\* A client that uses its connection and the server's end it uses point at each other, and
\* no two ends of the server point at one client, although my_dest and the sockets pass
\* through shared variables: the server serves its own clients and no other
\* (src/LOG:8 "Exclusivity").
EndsArePaired ==
    /\ \A c \in Clients : qp[c] = "rts" => dest[c] \in Slots /\ dest[dest[c]] = c
    /\ \A i, j \in Slots : dest[i] = dest[j] /\ dest[i] # Nil => i = j

\* A message never meets a queue pair that is not connected yet or has no receive posted:
\* the server connects before it sends its address, each side has posted its receives
\* before that, and they are refilled in time (ib_functions.c:434, 920; kv_api.c:119).
PeerIsReady ==
    \A e \in Ends \ refused : wire[e] # Nil /\ at[Owner(e)] \notin Gone
                               => qp[e] = "rts" /\ posted[e] > 0

\* routs is the number of receives that were posted and not polled, so that a refill
\* neither overfills the receive queue nor leaves room in it (ib_functions.c:710-735, 912).
CountIsHonest == \A e \in Ends \ refused : routs[e] = posted[e] + landed[e]

\* The server takes its ends away only when each of its clients has sent its last message
\* and that has arrived (kv_api.c:855-862).
ServedToTheEnd ==
    at[Server] \in {"closing", "ended"} =>
        \A i \in Slots : /\ at[dest[i]] \in {"leaving", "closing", "ended"}
                         /\ wire[i] = Nil


\* When nothing fails and the clients are started after the server, the server and
\* NumClients clients come to an end: nobody waits for a connection, an address, an answer
\* or a shutdown that does not come.
NothingFails == /\ at[Server] # "failed"
                /\ \A c \in Clients : at[c] \notin {"failed", "killed"}
                /\ port # "gone" => \A c \in Clients : at[c] # "crashed"
                /\ refused = {}
AllEnd == /\ at[Server] = "ended"
          /\ Cardinality({c \in Clients : at[c] = "ended"}) = NumClients
EverybodyEnds == []NothingFails => <>AllEnd

\* No client stays in kv_open, whoever fails, unless the server waits for another client
\* to connect (ib_functions.c:361, which has no timeout).
SomeoneOpens == \E c \in Clients : at[c] \in {"made", "asked", "told"}
SetupResolves == SomeoneOpens ~> (~SomeoneOpens \/ at[Server] = "accepting")

\* main.c:169 "in main: kv_open failed!": a kv_open that does not succeed says so.
OpenFailureIsReported == \A c \in Clients : at[c] # "crashed"
=============================================================================
