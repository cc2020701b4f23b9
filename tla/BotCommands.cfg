\* Two commands at once and three faults between them.
CONSTANTS
  Interaction = {i1, i2}
  Task = {t1}
  MaxFaults = 3
SPECIFICATION FairSpec
INVARIANTS SaysWhatItDid NoSilentEnd
PROPERTIES Answered
CHECK_DEADLOCK FALSE
