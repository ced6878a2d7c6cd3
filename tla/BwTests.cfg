\* A throughput test of three writes through a send queue of two, between two latency
\* tests; the receive queue is refilled during them, and the client's side may fail.
\* A server whose client has left waits for ever, so that behaviours may stop.
SPECIFICATION MainFairSpec
CONSTANTS
  TxDepth = 2
  RxDepth = 3
  RefillThreshold = 1
  WcBatch = 2
  Iters = 3
  WarmupRounds = 1
  NumSizes = 1
  Faulty = {"client"}
INVARIANTS MainTypeOK Lockstep AnswerMeansWritten DrainsCountSends QueuesSuffice PeerIsConnected
PROPERTIES MeasurementIsComplete CloseIsClean BothEnd ClientEnds
CHECK_DEADLOCK FALSE
