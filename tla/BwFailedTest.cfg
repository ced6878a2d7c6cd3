\* As many writes as the send queue holds: the message after them finds it full.
SPECIFICATION MainSpec
CONSTANTS
  TxDepth = 3
  RxDepth = 3
  RefillThreshold = 1
  WcBatch = 2
  Iters = 3
  WarmupRounds = 1
  NumSizes = 1
  Faulty = {}
PROPERTIES MeasurementIsComplete
CHECK_DEADLOCK FALSE
