\* Two tasks whose ids share the TAP prefix, and one address for both; QEMU outlives a
\* restart of the API.
SPECIFICATION Spec
CONSTANTS
  Task = {t1, t2}
  Deleter = {d1}
  Resumer = {}
  NoTask = NoTask
  TapName <- SharedTap
  CidStart = 3
  FirstIp = 100
  LastIp = 100
  Events = {"tap", "qemu", "relay", "guest"}
  MaxRestarts = 1
  QemuSurvives = TRUE
SYMMETRY TaskSymmetry
INVARIANTS IInv TapNotStolen RelayReachesOwnVm 
