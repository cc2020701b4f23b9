\* Two inputs, a line on each pipe, every fault; a queue and a connection that
\* fill up.
SPECIFICATION Spec
CONSTANTS
  Client = {k1, k2}
  MaxAttempts = 1
  QueueCap = 1
  SockCap = 2
  MaxInputs = 2
  MaxOut = 2
  MaxErr = 1
  Faults = {"setup", "crash", "host"}
CHECK_DEADLOCK FALSE
INVARIANTS TypeOK  InputConserved  FailureExplained
