------------------------------ MODULE Baseline ------------------------------
(***************************************************************************)
(* The TCP baseline (Baseline/client.c, Baseline/server.c).  The client    *)
(* runs round after round: it sends the bytes of a test, an end marker 'z',*)
(* and receives the server's answer; the server receives until the last    *)
(* byte of what one recv returned is the marker.  TCP keeps the order of   *)
(* the bytes and not their grouping: a send may pass in pieces, and a recv *)
(* returns any part of what has come.                                      *)
(***************************************************************************)
EXTENDS Naturals, Sequences

CONSTANTS
    Bytes,     \* for each round of the client, how many 'A's it sends before the marker
    Window     \* bytes of the client that fit the socket buffers

ASSUME SizesAssumption ==
    /\ Bytes \in Seq(Nat) /\ Bytes # <<>>
    /\ Window \in Nat \ {0}

AnswerSize == 2    \* "R" is sent with its terminator

VARIABLES
    client,    \* where the client stands
    round,     \* its round
    left,      \* bytes of the round not yet handed to the socket, the marker included
    server,    \* where the server stands
    up,        \* the client's bytes that the server has not received
    down,      \* bytes of answers that the client has not received
    whole      \* does TCP deliver an answer in one piece?

vars == <<client, round, left, server, up, down, whole>>

TypeOK ==
    /\ client \in {"start", "sending", "receiving", "closed", "failed", "killed"}
    /\ server \in {"start", "accepting", "receiving", "closed", "gone"}
    /\ round \in 1 .. Len(Bytes) + 1
    /\ left \in Nat
    /\ up \in Seq({"A", "z"}) /\ Len(up) <= Window
    /\ down \in 0 .. AnswerSize * Len(Bytes)
    /\ whole \in BOOLEAN

Init ==
    /\ client = "start" /\ server = "start"
    /\ round = 1 /\ left = Bytes[1] + 1
    /\ up = <<>> /\ down = 0
    /\ whole \in BOOLEAN

-----------------------------------------------------------------------------
(* The connection is set up.                                               *)

Listen ==
    /\ server = "start"
    /\ server' = "accepting"
    /\ UNCHANGED <<client, round, left, up, down, whole>>

\* connect() finds the server listening, and the server's accept() returns.
Connect ==
    /\ client = "start" /\ server = "accepting"
    /\ client' = "sending" /\ server' = "receiving"
    /\ UNCHANGED <<round, left, up, down, whole>>

ConnectRefused ==
    /\ client = "start" /\ server \in {"start", "gone"}
    /\ client' = "failed"
    /\ UNCHANGED <<round, left, server, up, down, whole>>

-----------------------------------------------------------------------------
(* measure_throughput and measure_latency.                                 *)

\* What the next n bytes of the round are: its last byte is the marker.
NextBytes(n) == [i \in 1 .. n |-> IF i = left THEN "z" ELSE "A"]

\* A faulty variant: all of the round's bytes are taken to fit.
SendAll ==
    /\ client = "sending" /\ server = "receiving"
    /\ up' = up \o NextBytes(left)
    /\ left' = 0
    /\ client' = "receiving"
    /\ UNCHANGED <<round, server, down, whole>>

\* send() blocks while the socket's buffer is full, and a buffer empties in any pieces.
Send ==
    /\ client = "sending" /\ server = "receiving"
    /\ \E n \in 1 .. left :
           /\ Len(up) + n <= Window
           /\ up' = up \o NextBytes(n)
           /\ left' = left - n
    /\ client' = (IF left' = 0 THEN "receiving" ELSE "sending")
    /\ UNCHANGED <<round, server, down, whole>>

\* The next round, or close() after the last one.
Advance ==
    /\ round' = round + 1
    /\ client' = (IF round = Len(Bytes) THEN "closed" ELSE "sending")
    /\ left' = (IF round = Len(Bytes) THEN 0 ELSE Bytes[round + 1] + 1)

\* A faulty variant: the answer's first byte is taken for the answer.
TakesFirstByte(n) == n = 1

\* One recv(), of whatever has come, is the answer.
Takes(n) == IF whole THEN n = down ELSE n <= down

Receive ==
    /\ client = "receiving" /\ down > 0
    /\ \E n \in 1 .. down : Takes(n) /\ down' = down - n
    /\ Advance
    /\ UNCHANGED <<server, up, whole>>

\* The server is gone: recv() returns nothing, "damaged message" is printed, and the
\* client goes on with the next round.
ReceiveDamaged ==
    /\ client = "receiving" /\ server = "gone" /\ down = 0
    /\ Advance
    /\ UNCHANGED <<server, up, down, whole>>

\* A send to a server that is gone passes unnoticed or kills the client (SIGPIPE).
SendLost ==
    /\ client = "sending" /\ server = "gone"
    /\ client' \in {"receiving", "killed"}
    /\ left' = 0
    /\ UNCHANGED <<round, server, up, down, whole>>

-----------------------------------------------------------------------------
(* The server's main.                                                      *)

\* A faulty variant: every recv ends an experiment, as if it returned a whole message.
EndsExperimentAlways(bytes) == bytes # <<>>

\* A faulty variant: the marker is looked for in the first byte only.
EndsExperimentFirst(bytes) == bytes[1] = "z"

EndsExperiment(bytes) == bytes[Len(bytes)] = "z"

\* recv() returns what has come or a part of it.
ServerReceive ==
    /\ server = "receiving" /\ up # <<>>
    /\ \E n \in 1 .. Len(up) :
           /\ up' = SubSeq(up, n + 1, Len(up))
           /\ down' = IF EndsExperiment(SubSeq(up, 1, n)) THEN down + AnswerSize ELSE down
    /\ UNCHANGED <<client, round, left, server, whole>>

\* A faulty variant: only an error of recv() ends the server.
ServerCloseOnError ==
    /\ server = "receiving" /\ up = <<>> /\ client = "killed"
    /\ server' = "closed"
    /\ UNCHANGED <<client, round, left, up, down, whole>>

\* recv() returns 0: the client has closed the connection.
ServerClose ==
    /\ server = "receiving" /\ up = <<>> /\ client \in {"closed", "killed"}
    /\ server' = "closed"
    /\ UNCHANGED <<client, round, left, up, down, whole>>

\* The server is killed.
ServerKilled ==
    /\ server \in {"start", "accepting", "receiving"}
    /\ server' = "gone"
    /\ up' = <<>>
    /\ UNCHANGED <<client, round, left, down, whole>>

-----------------------------------------------------------------------------

ClientStep == Connect \/ ConnectRefused \/ Send \/ Receive \/ ReceiveDamaged \/ SendLost
ServerStep == Listen \/ ServerReceive \/ ServerClose

Done == client \in {"closed", "failed", "killed"} /\ UNCHANGED vars

Next == ClientStep \/ ServerStep \/ ServerKilled \/ Done

Fairness == WF_vars(ClientStep) /\ WF_vars(ServerStep)

Spec == Init /\ [][Next]_vars /\ Fairness

-----------------------------------------------------------------------------
(* Properties.                                                             *)

\* When the client's clock stops, the server has received all bytes of the round, and no
\* part of an answer is left over that would stop a later round's clock: provided that
\* TCP delivers the two bytes of an answer together (client.c:47-51, server.c:87-88
\* "send a message to the client to indicate that process is completed").
RoundIsComplete ==
    [][client = "receiving" /\ client' # client /\ server # "gone" /\ whole
       => up = <<>> /\ down' = 0]_vars

\* The client comes to its end, whatever TCP does with the bytes, and whether the server
\* lives or not: it never waits for an answer that is not coming.
ClientEnds == <>(client \in {"closed", "failed", "killed"})

\* When the client has closed its socket the server stops.
ServerEnds == client = "closed" ~> server \in {"closed", "gone"}
=============================================================================
