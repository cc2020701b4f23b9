\* One task under every fault: two stops, a resume and a restart interleave.
SPECIFICATION Spec
CONSTANTS
  Task = {t1}
  Deleter = {d1, d2}
  Resumer = {r1}
  NoTask = NoTask
  TapName <- OwnTap
  CidStart = 3
  FirstIp = 100
  LastIp = 101
  Events = {"db", "cancel", "tap", "tapdel", "volume", "rootfs", "qemu", "socket", "pid", "qmp", "relay", "guest", "suspend"}
  MaxRestarts = 1
  QemuSurvives = TRUE
SYMMETRY DeleterSymmetry
INVARIANTS OneTeardown TrackedIsDeletable
PROPERTIES TerminatedFinalOnceSettled
