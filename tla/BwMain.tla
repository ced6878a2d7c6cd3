------------------------------- MODULE BwMain -------------------------------
(***************************************************************************)
(* The whole life of the benchmark of src/Optimization/bw_template.c: main *)
(* makes the objects of the adapter, the two programs tell each other      *)
(* their addresses over a socket, connect their queue pairs, run the tests *)
(* of BwTest, and close.  A program does not look whether the other one is *)
(* done when it closes.                                                    *)
(***************************************************************************)
EXTENDS BwTest, AdapterObjects

VARIABLES
  main,     \* where main of each program stands
  verbs,    \* the adapter's objects each program holds
  socket,   \* what the client has written, and the server not yet read
  broken    \* history: the sides whose queue pair failed of itself

setupVars == <<main, verbs, socket, broken>>
allVars   == <<vars, setupVars>>

(* pp_init_ctx makes them in this order, without use_event's channel.      *)
InitOrder == <<"context", "pd", "mr_control_send", "mr_rdma_write", "cq", "qp">>

Objects == {InitOrder[k] : k \in DOMAIN InitOrder}

Uses == [r \in Objects |->
  CASE r = "context" -> {}
    [] r \in {"pd", "cq"} -> {"context"}
    [] r \in {"mr_control_send", "mr_rdma_write"} -> {"pd"}
    [] r = "qp" -> {"pd", "cq"}]

(* A faulty variant: takes down the protection domain before its regions.  *)
CloseOrderPdFirst ==
  <<"qp", "cq", "pd", "mr_control_send", "mr_rdma_write", "context">>

CloseOrder ==
  <<"qp", "cq", "mr_control_send", "mr_rdma_write", "pd", "context">>

Place == {"start", "made", "listening", "asked", "connected", "told",
          "testing", "ended", "failed"}
Gone(n) == main[n] \in {"ended", "failed"}

MainTypeOK ==
  /\ TypeOK
  /\ main \in [Node -> Place]
  /\ verbs \in [Node -> SUBSET Objects]
  /\ socket \in {"nothing", "address", "cut", "done"}
  /\ broken \subseteq Faulty

MainInit ==
  /\ Init
  /\ main = [n \in Node |-> "start"]
  /\ verbs = [n \in Node |-> {}]
  /\ socket = "nothing"
  /\ broken = {}

Goto(n, place) == main' = [main EXCEPT ![n] = place]

-----------------------------------------------------------------------------
(***************************************************************************)
(* main up to the first test.                                              *)
(***************************************************************************)

(* pp_init_ctx, which leaves the queue pair in INIT, and the receives.     *)
Make(n) ==
  /\ main[n] = "start"
  /\ Goto(n, "made")
  /\ verbs' = [verbs EXCEPT ![n] = Objects]
  /\ qp' = [qp EXCEPT ![n] = "init"]
  /\ rq' = [rq EXCEPT ![n] = RxDepth]
  /\ routs' = [routs EXCEPT ![n] = RxDepth]
  /\ UNCHANGED <<progVars, sq, unacked, cq, socket, broken>>

(* main returns 1 when any of its steps fails.                             *)
SetupFails(n) ==
  /\ n \in Faulty
  /\ main[n] \in Place \ {"testing", "ended", "failed"}
  /\ n = "server" => main[n] # "told"
  /\ Goto(n, "failed")
  /\ UNCHANGED <<vars, verbs, socket, broken>>

(* pp_server_exch_dest up to accept, which waits for ever.                 *)
ServerListen ==
  /\ main["server"] = "made"
  /\ Goto("server", "listening")
  /\ UNCHANGED <<vars, verbs, socket, broken>>

(* pp_client_exch_dest up to the read, or a write that comes to nothing.   *)
ClientAsk ==
  /\ main["client"] = "made" /\ main["server"] = "listening"
  /\ \/ /\ socket' = "address"
        /\ Goto("client", "asked")
     \/ /\ "client" \in Faulty
        /\ socket' = "cut"
        /\ Goto("client", "failed")
  /\ UNCHANGED <<vars, verbs, broken>>

(* Nobody listens, or the server's stream ends before its address came:    *)
(* pp_client_exch_dest returns NULL and main returns 1.                    *)
ClientRefused ==
  /\ \/ main["client"] = "made" /\ main["server"] # "listening"
     \/ main["client"] = "asked" /\ main["server"] = "failed"
  /\ Goto("client", "failed")
  /\ UNCHANGED <<vars, verbs, socket, broken>>

Connect(n) == qp' = [qp EXCEPT ![n] = "rts"]

(* A faulty variant: sends its address before it connects its queue pair.  *)
ServerConnectLate ==
  /\ main["server"] = "listening" /\ socket = "address"
  /\ socket' = "nothing"
  /\ Goto("server", "connected")
  /\ UNCHANGED <<vars, verbs, broken>>

(* The client's address is read, and the queue pair connected to it before *)
(* the own address is sent.                                                *)
ServerConnect ==
  /\ main["server"] = "listening" /\ socket = "address"
  /\ Connect("server")
  /\ socket' = "nothing"
  /\ Goto("server", "connected")
  /\ UNCHANGED <<progVars, routs, sq, unacked, rq, cq, verbs, broken>>

ServerRefused ==
  /\ main["server"] = "listening" /\ socket = "cut"
  /\ Goto("server", "failed")
  /\ UNCHANGED <<vars, verbs, socket, broken>>

ServerTell ==
  /\ main["server"] = "connected"
  /\ \/ Goto("server", "told")
     \/ Gone("client") /\ Goto("server", "failed")
  /\ UNCHANGED <<vars, verbs, socket, broken>>

ClientTold ==
  /\ main["client"] = "asked" /\ main["server"] = "told"
  /\ socket' = "done"
  /\ Goto("client", "told")
  /\ UNCHANGED <<vars, verbs, broken>>

ClientConnect ==
  /\ main["client"] = "told"
  /\ Connect("client")
  /\ Goto("client", "testing")
  /\ UNCHANGED <<progVars, routs, sq, unacked, rq, cq, verbs, socket, broken>>

(* What the last read of the server returns is not looked at.              *)
ServerDone ==
  /\ main["server"] = "told"
  /\ socket = "done" \/ Gone("client")
  /\ Goto("server", "testing")
  /\ UNCHANGED <<vars, verbs, socket, broken>>

-----------------------------------------------------------------------------
(***************************************************************************)
(* The tests, and the adapters when one side may have left.                *)
(***************************************************************************)
ClientTests ==
  /\ main["client"] = "testing" /\ ClientStep
  /\ UNCHANGED setupVars

ServerTests ==
  /\ main["server"] = "testing" /\ ServerStep
  /\ UNCHANGED setupVars

Poll(n) == PollCq(n) /\ UNCHANGED setupVars

Deliver(n) == ~Gone(Other(n)) /\ CarryOut(n) /\ UNCHANGED setupVars

(* Also for what was carried out before the other side closed.             *)
Confirm(n) == Acknowledge(n) /\ UNCHANGED setupVars

Flush(n) == (FlushSend(n) \/ FlushRecv(n)) /\ UNCHANGED setupVars

Breaks(n) ==
  /\ qp[n] = "rts" /\ ~Gone(n)
  /\ qp' = [qp EXCEPT ![n] = "err"]
  /\ UNCHANGED <<progVars, routs, sq, unacked, rq, cq, main, verbs, socket>>

BreaksOfItself(n) == n \in Faulty /\ Breaks(n) /\ broken' = broken \cup {n}

(* The other side's queue pair has failed or is gone, and acknowledges     *)
(* nothing of what this one sends.                                         *)
GivesUp(n) ==
  /\ qp[Other(n)] = "err" \/ Gone(Other(n))
  /\ Len(sq[n]) + unacked[n] > 0
  /\ Breaks(n) /\ UNCHANGED broken

(* A faulty variant: closes without the last wait of the last test.        *)
CloseEarly(n) ==
  /\ main[n] = "testing" /\ test[n] \notin Tests
  /\ Goto(n, "ended")
  /\ verbs' = [verbs EXCEPT ![n] = LeftBy(CloseOrder, Uses)]
  /\ sq' = [sq EXCEPT ![n] = << >>]
  /\ cq' = [cq EXCEPT ![n] = << >>]
  /\ rq' = [rq EXCEPT ![n] = 0]
  /\ unacked' = [unacked EXCEPT ![n] = 0]
  /\ left' = [left EXCEPT ![n] = 0]
  /\ UNCHANGED <<test, i, numComplete, told, begun, routs, qp, socket, broken>>

(* pp_close_ctx after the last test: what is still queued is lost.         *)
Close(n) ==
  /\ main[n] = "testing" /\ Finished(n)
  /\ Goto(n, "ended")
  /\ verbs' = [verbs EXCEPT ![n] = LeftBy(CloseOrder, Uses)]
  /\ sq' = [sq EXCEPT ![n] = << >>]
  /\ cq' = [cq EXCEPT ![n] = << >>]
  /\ rq' = [rq EXCEPT ![n] = 0]
  /\ unacked' = [unacked EXCEPT ![n] = 0]
  /\ UNCHANGED <<progVars, routs, qp, socket, broken>>

-----------------------------------------------------------------------------
ServerSetup ==
  ServerListen \/ ServerConnect \/ ServerRefused \/ ServerTell \/ ServerDone

ClientSetup == ClientAsk \/ ClientRefused \/ ClientTold \/ ClientConnect

MainNext ==
  \/ ServerSetup \/ ClientSetup \/ ClientTests \/ ServerTests
  \/ \E n \in Node : \/ Make(n) \/ SetupFails(n) \/ Close(n)
                     \/ BreaksOfItself(n) \/ GivesUp(n) \/ Poll(n)
                     \/ Deliver(n) \/ Confirm(n) \/ Flush(n)

MainSpec == MainInit /\ [][MainNext]_allVars

(* Both programs run, both adapters work, and a queue pair whose requests  *)
(* nobody acknowledges gives up; nothing makes a connection break of       *)
(* itself.                                                                 *)
MainFairness ==
  /\ WF_allVars(ServerSetup) /\ WF_allVars(ClientSetup)
  /\ WF_allVars(ClientTests) /\ WF_allVars(ServerTests)
  /\ \A n \in Node : /\ WF_allVars(Make(n)) /\ WF_allVars(Close(n))
                     /\ WF_allVars(Poll(n)) /\ WF_allVars(Deliver(n))
                     /\ WF_allVars(Confirm(n)) /\ WF_allVars(Flush(n))
                     /\ WF_allVars(GivesUp(n))

MainFairSpec == MainSpec /\ MainFairness

-----------------------------------------------------------------------------
(***************************************************************************)
(* Properties of the whole.                                                *)
(***************************************************************************)

(* Nothing is posted to a queue pair whose other side is not connected:    *)
(* the server connects before it tells its address (572-583), the client   *)
(* before its first test (1522-1524).                                      *)
PeerIsConnected ==
  \A n \in Node : sq[n] # << >> => qp[n] # "init" /\ qp[Other(n)] \in {"rts", "err"}

(* A program closes without asking the other one: still, on a connection   *)
(* that works, nothing of the other side's is then waiting to be carried   *)
(* out, and nothing of its own is lost, and pp_close_ctx takes down all    *)
(* that pp_init_ctx made.                                                  *)
CloseIsClean ==
  [][\A n \in Node : Close(n) =>
       /\ verbs'[n] = {}
       /\ Unbroken => /\ sq[n] = << >> /\ unacked[n] = 0 /\ cq[n] = << >>
                      /\ sq[Other(n)] = << >>]_allVars

(* When no setup fails and no queue pair fails of itself, both programs    *)
(* come to an end: neither waits for a completion the other does not       *)
(* cause, nor for an acknowledgement of a side that has closed.            *)
NothingFails == (\A n \in Node : main[n] # "failed") /\ broken = {}
BothEnd == []NothingFails => <>(\A n \in Node : main[n] = "ended")

(* The client comes to an end also when its own setup or its own queue     *)
(* pair fails: none of its waits is left without a completion.             *)
ClientEnds == <>Gone("client")
=============================================================================
