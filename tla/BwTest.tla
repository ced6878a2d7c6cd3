-------------------------------- MODULE BwTest --------------------------------
(***************************************************************************)
(* The bandwidth and latency benchmark of src/Optimization/bw_template.c:  *)
(* a client and a server run the same series of tests over one reliable    *)
(* connection and stay in step only by counting completions.  Each side    *)
(* has one completion queue for its sends and its receives, and            *)
(* pp_wait_completions counts both kinds alike.                            *)
(*                                                                         *)
(* A program's step is one call of a post function, with the              *)
(* pp_wait_completions that follows it opened, or one ibv_poll_cq of it.   *)
(* The adapters deliver, acknowledge, and give up on a broken connection.  *)
(***************************************************************************)
EXTENDS Naturals, Sequences, SequencesExt, FiniteSetsExt

CONSTANTS
  TxDepth,          \* tx_depth: send work requests the queue pair holds
  RxDepth,          \* rx_depth: receive work requests it holds
  RefillThreshold,  \* REFILL_RWR_THRES
  WcBatch,          \* WC_BATCH
  Iters,            \* iters: writes of a throughput test, rounds of latency
  WarmupRounds,     \* NUM_OF_WARMUP
  NumSizes,         \* len_list_message_sizes: number of throughput tests
  Faulty            \* the sides whose connection may break

Node == {"client", "server"}
Other(n) == IF n = "client" THEN "server" ELSE "client"

ASSUME BwAssumption ==
  /\ {TxDepth, RxDepth, WcBatch, Iters, WarmupRounds, NumSizes} \subseteq Nat \ {0}
  /\ RefillThreshold \in Nat
  /\ Faulty \subseteq Node

(* main: the warm-up latency test, one throughput test per message size,   *)
(* the latency test.                                                       *)
Tests == 1 .. NumSizes + 2
Throughput(t) == t \in 2 .. NumSizes + 1

(* The client's control messages in a test, which the server answers.      *)
Rounds(t) == IF t = 1 THEN WarmupRounds
             ELSE IF Throughput(t) THEN 1 ELSE Iters

VARIABLES
  test,         \* the test each side is in, NumSizes + 2 + 1 after the last
  i,            \* the loop variable of that test
  numComplete,  \* num_complete of the client's throughput test
  told,         \* has the client's throughput test told the server it is done?
  begun,        \* has the server's test waited for its first message?
  left,         \* completions pp_wait_completions still waits for
  routs,        \* ctx->routs
  qp,           \* state of the queue pair, its last one once it is destroyed
  sq,           \* send work requests not yet carried out, in order
  unacked,      \* number carried out and not yet acknowledged
  rq,           \* number of receive work requests posted and unused
  cq            \* the completion queue

progVars == <<test, i, numComplete, told, begun, left>>
vars == <<progVars, routs, qp, sq, unacked, rq, cq>>

TypeOK ==
  /\ test \in [Node -> 1 .. NumSizes + 3]
  /\ i \in [Node -> 0 .. Max({Iters, WarmupRounds})]
  /\ numComplete \in 0 .. Iters
  /\ told \in BOOLEAN /\ begun \in BOOLEAN
  /\ left \in [Node -> 0 .. Iters + 2]
  /\ routs \in [Node -> 0 .. RxDepth]
  /\ qp \in [Node -> {"none", "init", "rts", "err"}]
  /\ sq \in [Node -> Seq({"write", "send"})]
  /\ unacked \in [Node -> 0 .. TxDepth]
  /\ rq \in [Node -> 0 .. RxDepth]
  /\ cq \in [Node -> Seq({"send", "recv", "sendError", "recvError"})]

(* The programs have just been started.                                    *)
Init ==
  /\ test = [n \in Node |-> 1]
  /\ i = [n \in Node |-> 0]
  /\ numComplete = 0
  /\ told = FALSE /\ begun = FALSE
  /\ left = [n \in Node |-> 0]
  /\ routs = [n \in Node |-> 0]
  /\ qp = [n \in Node |-> "none"]
  /\ sq = [n \in Node |-> << >>]
  /\ unacked = [n \in Node |-> 0]
  /\ rq = [n \in Node |-> 0]
  /\ cq = [n \in Node |-> << >>]

-----------------------------------------------------------------------------
(***************************************************************************)
(* pp_wait_completions.  Every caller ignores its result.                  *)
(***************************************************************************)

Count(s, kinds) == Len(SelectSeq(s, LAMBDA e : e \in kinds))

(* A faulty variant: the template's batch, not cut to what is awaited.     *)
NumPollUncut(n) == Min({WcBatch, Len(cq[n])})

NumPoll(n) == Min({WcBatch, left[n], Len(cq[n])})

(* A faulty variant: fills up as if the receive queue were empty.          *)
RefillAll(r) == IF r <= RefillThreshold THEN RxDepth ELSE 0

(* A faulty variant: never fills up.                                       *)
RefillNever(r) == 0

(* How many receives one completion makes pp_wait_completions post, when   *)
(* routs has become r.  There is room for them: see QueuesFit.             *)
Refill(r) == IF r <= RefillThreshold THEN RxDepth - r ELSE 0

(* A receive completion: --routs, and the refill.                          *)
CountReceive(account, e) ==
  LET r == account.routs - 1
  IN  IF e # "recv" THEN account
      ELSE [routs |-> r + Refill(r), posted |-> account.posted + Refill(r)]

(* A faulty variant: after an error goes on waiting for the rest.          *)
PollCqRetry(n) ==
  /\ left[n] > 0
  /\ cq[n] # << >>
  /\ LET polled  == SubSeq(cq[n], 1, NumPoll(n))
         good    == SelectSeq(polled, LAMBDA e : e \in {"send", "recv"})
         account == FoldLeft(CountReceive, [routs |-> routs[n], posted |-> 0], good)
     IN  /\ cq' = [cq EXCEPT ![n] = SubSeq(@, NumPoll(n) + 1, Len(@))]
         /\ left' = [left EXCEPT ![n] = @ - Len(good)]
         /\ routs' = [routs EXCEPT ![n] = account.routs]
         /\ rq' = [rq EXCEPT ![n] = @ + account.posted]
  /\ UNCHANGED <<test, i, numComplete, told, begun, qp, sq, unacked>>

(* One ibv_poll_cq and the loop over what it returned, up to the first     *)
(* completion with an error, on which pp_wait_completions returns at once; *)
(* on a failed queue pair no good completion follows a bad one.            *)
PollCq(n) ==
  /\ left[n] > 0
  /\ cq[n] # << >>
  /\ LET polled  == SubSeq(cq[n], 1, NumPoll(n))
         good    == SelectSeq(polled, LAMBDA e : e \in {"send", "recv"})
         account == FoldLeft(CountReceive, [routs |-> routs[n], posted |-> 0], good)
     IN  /\ cq' = [cq EXCEPT ![n] = SubSeq(@, NumPoll(n) + 1, Len(@))]
         /\ left' = [left EXCEPT ![n] = IF good = polled THEN @ - Len(polled) ELSE 0]
         /\ routs' = [routs EXCEPT ![n] = account.routs]
         /\ rq' = [rq EXCEPT ![n] = @ + account.posted]
  /\ UNCHANGED <<test, i, numComplete, told, begun, qp, sq, unacked>>

-----------------------------------------------------------------------------
(***************************************************************************)
(* Posting to the send queue: pp_post_rdma_write and pp_post_send.         *)
(***************************************************************************)

(* A request keeps its place in the send queue until its completion is     *)
(* polled.                                                                 *)
Outstanding(n) == Len(sq[n]) + unacked[n] + Count(cq[n], {"send", "sendError"})

Full(n) == Outstanding(n) >= TxDepth

Post(n, wr) ==
  /\ ~Full(n)
  /\ sq' = [sq EXCEPT ![n] = Append(@, wr)]
  /\ UNCHANGED <<routs, qp, unacked, rq, cq>>

(* The side goes on to its next test.                                      *)
NextTest(n) ==
  /\ test' = [test EXCEPT ![n] = @ + 1]
  /\ i' = [i EXCEPT ![n] = 0]

(***************************************************************************)
(* The client.                                                             *)
(***************************************************************************)
InThroughput == test["client"] \in Tests /\ Throughput(test["client"]) /\ left["client"] = 0
InLatency    == test["client"] \in Tests /\ ~Throughput(test["client"]) /\ left["client"] = 0

(* A faulty variant: waits one write too late.                             *)
MustDrainLate == i["client"] # 0 /\ i["client"] % (TxDepth + 1) = 0 /\ numComplete # i["client"]

(* The client has posted tx_depth writes since it last waited.             *)
MustDrain == i["client"] # 0 /\ i["client"] % TxDepth = 0 /\ numComplete # i["client"]

ClientDrain ==
  /\ InThroughput /\ ~told /\ i["client"] < Iters
  /\ MustDrain
  /\ left' = [left EXCEPT !["client"] = TxDepth]
  /\ numComplete' = numComplete + TxDepth
  /\ UNCHANGED <<test, i, told, begun, routs, qp, sq, unacked, rq, cq>>

ClientWrite ==
  /\ InThroughput /\ ~told /\ i["client"] < Iters
  /\ ~MustDrain
  /\ Post("client", "write")
  /\ i' = [i EXCEPT !["client"] = @ + 1]
  /\ UNCHANGED <<test, numComplete, told, begun, left>>

(* A faulty variant: forgets that the message's own completion counts.     *)
FinalWaitShort == Iters - numComplete + 1

FinalWait == Iters - numComplete + 2

(* The message that tells the server the writing is done.                  *)
ClientTell ==
  /\ InThroughput /\ ~told /\ i["client"] = Iters
  /\ Post("client", "send")
  /\ told' = TRUE
  /\ left' = [left EXCEPT !["client"] = FinalWait]
  /\ UNCHANGED <<test, i, numComplete, begun>>

(* perform_single_experiment returned 0: throughput_test takes the time,   *)
(* prints the throughput and goes on.                                      *)
ClientReport ==
  /\ InThroughput /\ told
  /\ NextTest("client")
  /\ numComplete' = 0
  /\ told' = FALSE
  /\ UNCHANGED <<begun, left, routs, qp, sq, unacked, rq, cq>>

(* A post failed: perform_single_experiment returned 1, which              *)
(* throughput_test ignores: it prints a throughput all the same.           *)
ClientGivesUp ==
  /\ InThroughput /\ ~told
  /\ ~(i["client"] < Iters /\ MustDrain)
  /\ Full("client")
  /\ NextTest("client")
  /\ numComplete' = 0
  /\ UNCHANGED <<told, begun, left, routs, qp, sq, unacked, rq, cq>>

ClientPing ==
  /\ InLatency /\ i["client"] < Rounds(test["client"])
  /\ Post("client", "send")
  /\ i' = [i EXCEPT !["client"] = @ + 1]
  /\ left' = [left EXCEPT !["client"] = 2]
  /\ UNCHANGED <<test, numComplete, told, begun>>

(* The rounds are over, or a post failed, which main ignores.              *)
ClientLatencyEnds ==
  /\ InLatency
  /\ i["client"] = Rounds(test["client"]) \/ Full("client")
  /\ NextTest("client")
  /\ UNCHANGED <<numComplete, told, begun, left, routs, qp, sq, unacked, rq, cq>>

(***************************************************************************)
(* The server.  An experiment of throughput_test is for it one round of    *)
(* latency_test: wait for a message, answer, wait for the answer's         *)
(* completion.                                                             *)
(***************************************************************************)
Serving == test["server"] \in Tests /\ left["server"] = 0

(* A faulty variant: answers without waiting for the first message.        *)
ServerAwaitNothing ==
  /\ Serving /\ ~begun
  /\ begun' = TRUE
  /\ UNCHANGED <<test, i, numComplete, told, left, routs, qp, sq, unacked, rq, cq>>

ServerAwait ==
  /\ Serving /\ ~begun
  /\ begun' = TRUE
  /\ left' = [left EXCEPT !["server"] = 1]
  /\ UNCHANGED <<test, i, numComplete, told, routs, qp, sq, unacked, rq, cq>>

LastRound == i["server"] = Rounds(test["server"]) - 1

(* Faulty variants: between rounds, waits only for its own completion; at  *)
(* the end, waits for a message that will not come.                        *)
WaitAfterAnswerShort == 1
WaitAfterAnswerLong  == 2

(* The completion of the answer and, if there is one, the next message.    *)
WaitAfterAnswer == IF LastRound THEN 1 ELSE 2

ServerAnswer ==
  /\ Serving /\ begun
  /\ Post("server", "send")
  /\ left' = [left EXCEPT !["server"] = WaitAfterAnswer]
  /\ IF LastRound THEN NextTest("server") /\ begun' = FALSE
     ELSE /\ i' = [i EXCEPT !["server"] = @ + 1]
          /\ UNCHANGED <<test, begun>>
  /\ UNCHANGED <<numComplete, told>>

(* The post failed: the test returns 1, which its caller ignores.          *)
ServerGivesUp ==
  /\ Serving /\ begun
  /\ Full("server")
  /\ NextTest("server")
  /\ begun' = FALSE
  /\ UNCHANGED <<numComplete, told, left, routs, qp, sq, unacked, rq, cq>>

-----------------------------------------------------------------------------
(***************************************************************************)
(* The adapters.  Work requests are carried out in order; a write goes to  *)
(* the other side's memory, a send takes one of its receives.  The         *)
(* acknowledgement may come later than anything the other side does next.  *)
(***************************************************************************)
Working == \A n \in Node : qp[n] = "rts"

CarryOut(n) ==
  /\ Working
  /\ sq[n] # << >>
  /\ sq' = [sq EXCEPT ![n] = Tail(@)]
  /\ unacked' = [unacked EXCEPT ![n] = @ + 1]
  /\ IF Head(sq[n]) = "write" THEN UNCHANGED <<rq, cq>>
     ELSE /\ rq[Other(n)] > 0
          /\ rq' = [rq EXCEPT ![Other(n)] = @ - 1]
          /\ cq' = [cq EXCEPT ![Other(n)] = Append(@, "recv")]
  /\ UNCHANGED <<progVars, routs, qp>>

Acknowledge(n) ==
  /\ Working
  /\ unacked[n] > 0
  /\ unacked' = [unacked EXCEPT ![n] = @ - 1]
  /\ cq' = [cq EXCEPT ![n] = Append(@, "send")]
  /\ UNCHANGED <<progVars, routs, qp, sq, rq>>

(* What was posted, or is posted, on a failed queue pair completes with an *)
(* error, the requests of either queue in order.                           *)
FlushSend(n) ==
  /\ qp[n] = "err"
  /\ \/ /\ unacked[n] > 0
        /\ unacked' = [unacked EXCEPT ![n] = @ - 1]
        /\ UNCHANGED sq
     \/ /\ unacked[n] = 0 /\ sq[n] # << >>
        /\ sq' = [sq EXCEPT ![n] = Tail(@)]
        /\ UNCHANGED unacked
  /\ cq' = [cq EXCEPT ![n] = Append(@, "sendError")]
  /\ UNCHANGED <<progVars, routs, qp, rq>>

FlushRecv(n) ==
  /\ qp[n] = "err"
  /\ rq[n] > 0
  /\ rq' = [rq EXCEPT ![n] = @ - 1]
  /\ cq' = [cq EXCEPT ![n] = Append(@, "recvError")]
  /\ UNCHANGED <<progVars, routs, qp, sq, unacked>>

-----------------------------------------------------------------------------
ClientStep ==
  \/ ClientDrain \/ ClientWrite \/ ClientTell \/ ClientReport \/ ClientGivesUp
  \/ ClientPing \/ ClientLatencyEnds

ServerStep == ServerAwait \/ ServerAnswer \/ ServerGivesUp

Adapter(n) == CarryOut(n) \/ Acknowledge(n) \/ FlushSend(n) \/ FlushRecv(n)

Finished(n) == test[n] \notin Tests /\ left[n] = 0

-----------------------------------------------------------------------------
(***************************************************************************)
(* Safety.                                                                 *)
(***************************************************************************)

Unbroken == \A n \in Node : qp[n] # "err"

(* The client's control messages and the server's answers so far.          *)
Sent(t)  == MapThenSumSet(Rounds, 1 .. t - 1)
Asked    == Sent(test["client"]) +
              (IF test["client"] \in Tests /\ Throughput(test["client"])
               THEN IF told THEN 1 ELSE 0 ELSE i["client"])
Answered == Sent(test["server"]) + i["server"]

(* Counting completions of either kind keeps the two programs in step: the *)
(* server never answers before it was asked, although its waits may take   *)
(* the client's next message for the completion of its own answer, and the *)
(* client never asks again before it was answered (comment at 1045-1048:   *)
(* "sometimes clients might send too fast"), as long as the connection     *)
(* works.                                                                  *)
Lockstep == Unbroken => Answered <= Asked /\ Asked <= Answered + 1

(* When the server has answered a throughput test, all the test's writes   *)
(* have reached its memory, however many waits the client needed.          *)
AnswerMeansWritten ==
  Unbroken /\ test["server"] > test["client"] => "write" \notin ToSet(sq["client"])

(* The client leaves a throughput test, and takes its time, only when      *)
(* every write of the test is acknowledged and the server has answered,    *)
(* and it leaves no completion over to be counted in the next test         *)
(* (perform_single_experiment 1113-1120, throughput_test 1167-1181).       *)
MeasurementIsComplete ==
  [][InThroughput /\ test'["client"] # test["client"] /\ Unbroken =>
       /\ sq["client"] = << >> /\ unacked["client"] = 0 /\ cq["client"] = << >>
       /\ test["server"] > test["client"]]_vars

(* "The client might post 10 send, but pp_wait_completions will return as  *)
(* long as there are 9 sends completed and 1 receive completed. So this is *)
(* a bug" (1087-1091): it does not happen, because no answer arrives while *)
(* the client is still writing.                                            *)
DrainsCountSends ==
  Unbroken /\ test["client"] \in Tests /\ Throughput(test["client"]) /\ ~told =>
    "recv" \notin ToSet(cq["client"])

(* Waiting after every tx_depth writes (1071-1072) keeps room in the send  *)
(* queue: no post of either side fails.                                    *)
PostsSucceed ==
  /\ \/ InThroughput /\ ~told /\ ~(i["client"] < Iters /\ MustDrain)
     \/ InLatency /\ i["client"] < Rounds(test["client"])
     => ~Full("client")
  /\ Serving /\ begun => ~Full("server")

(* The refill keeps a receive posted for every message that arrives: the   *)
(* adapter never has to retry for want of one.                             *)
ReceiverIsReady ==
  \A n \in Node : Working /\ sq[n] # << >> /\ Head(sq[n]) = "send" => rq[Other(n)] > 0

(* The receive queue takes all the receives a refill posts, so that the    *)
(* check after it never fails, and the completion queue, of the size       *)
(* created (rx_depth + tx_depth), takes all completions.                   *)
QueuesFit ==
  \A n \in Node : /\ rq[n] <= RxDepth
                  /\ Len(cq[n]) <= RxDepth + TxDepth

(* The three queues are large enough, and the waits and refills early      *)
(* enough, for all that the tests post.                                    *)
QueuesSuffice == /\ Unbroken => PostsSucceed /\ ReceiverIsReady
                 /\ QueuesFit

===============================================================================
