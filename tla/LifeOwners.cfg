\* One task, two stops and a resume, without the failures that leak.
SPECIFICATION Spec
CONSTANTS
  Task = {t1}
  Deleter = {d1, d2}
  Resumer = {r1}
  NoTask = NoTask
  TapName <- OwnTap
  CidStart = 3
  FirstIp = 100
  LastIp = 101
  Events = {"db", "pid", "relay", "guest", "suspend"}
  MaxRestarts = 0
  QemuSurvives = FALSE
SYMMETRY DeleterSymmetry
INVARIANTS EveryResourceHasOwner ChannelUntilStopped
