\* Every fault but a lost query, a dropped handler or a restart.
SPECIFICATION FairSpec
CONSTANTS
  Task = {t1}
  Deleter = {d1}
  Resumer = {r1}
  NoTask = NoTask
  TapName <- OwnTap
  CidStart = 3
  FirstIp = 100
  LastIp = 101
  Events = {"tap", "volume", "rootfs", "qemu", "socket", "qmp", "relay", "guest", "suspend"}
  MaxRestarts = 0
  QemuSurvives = FALSE
PROPERTIES StartingResolves DeleteAnswered
