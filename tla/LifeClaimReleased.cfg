\* Violated: a stop during the boot leaves the VM behind.
SPECIFICATION Spec
CONSTANTS
  Task = {t1}
  Deleter = {d1}
  Resumer = {}
  NoTask = NoTask
  TapName <- OwnTap
  CidStart = 3
  FirstIp = 100
  LastIp = 101
  Events = {}
  MaxRestarts = 0
  QemuSurvives = FALSE
INVARIANTS StopReleasesAll
