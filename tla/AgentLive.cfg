\* Three inputs, so that one waits behind a full queue, and every fault.
SPECIFICATION FairSpec
CONSTANTS
  Client = {k1}
  MaxAttempts = 0
  QueueCap = 1
  SockCap = 2
  MaxInputs = 3
  MaxOut = 1
  MaxErr = 0
  Faults = {"setup", "crash", "host"}
CHECK_DEADLOCK FALSE
PROPERTIES ExitReported SenderFreed
