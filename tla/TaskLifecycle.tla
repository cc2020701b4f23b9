--------------------------- MODULE TaskLifecycle ---------------------------
(***************************************************************************)
(* The life of a task in the VM API: the HTTP handlers that create, stop   *)
(* and resume it (api/src/handlers.rs), the background job that boots its  *)
(* VM, the VM manager that owns QEMU processes and host resources          *)
(* (api/src/qemu.rs) and the row of table tasks (api/src/db.rs).           *)
(*                                                                         *)
(* Every handler is a process with a program counter; one action is one    *)
(* stretch of code between two awaits at which another process may run.    *)
(***************************************************************************)
EXTENDS Integers, FiniteSets

CONSTANTS
  Task,          (* task ids; each is used by one create request (Uuid::new_v4) *)
  Deleter,       (* concurrent DELETE requests the server may be serving        *)
  Resumer,       (* concurrent resume requests the server may be serving        *)
  NoTask,        (* the target of an idle request slot                          *)
  TapName,       (* TapName[t]: the TAP name cut from the id of t               *)
  CidStart,      (* config.vm.vsock_cid_start                                   *)
  FirstIp,       (* 100: first last-octet handed out                            *)
  LastIp,        (* 254: last one                                               *)
  Events,        (* what the environment may do in this instance, see below     *)
  MaxRestarts,   (* bound on restarts of the API process                        *)
  QemuSurvives   (* do QEMU processes outlive the API process?                  *)

(***************************************************************************)
(* The environment's faults and external operations.  A fault that is not  *)
(* in Events never happens in that instance.                               *)
(***************************************************************************)
AllEvents ==
  { "db",       \* a query fails: the handler answers 500
    "cancel",   \* the client disconnects and the server drops the handler
    "tap",      \* lia-create-tap fails, before or after the device exists
    "tapdel",   \* lia-delete-tap fails: only warned about
    "volume",   \* the volume cannot be created or formatted
    "rootfs",   \* the rootfs copy fails
    "qemu",     \* QEMU cannot be spawned or exits with an error
    "socket",   \* the QMP socket does not appear within 50 polls
    "pid",      \* the pid file cannot be read: VmInfo.pid is None
    "qmp",      \* a QMP command to a live QEMU fails
    "relay",    \* the agent cannot be reached on vsock
    "guest",    \* the QEMU process ends by itself
    "suspend" } \* an operator pauses the VM and marks the row suspended

ASSUME ConstantsAssumption ==
  /\ NoTask \notin Task
  /\ CidStart \in Nat
  /\ FirstIp \in Nat \ {0}
  /\ LastIp \in Nat
  /\ FirstIp <= LastIp
  /\ Events \subseteq AllEvents
  /\ MaxRestarts \in Nat
  /\ QemuSurvives \in BOOLEAN
  /\ DOMAIN TapName = Task

TapNames == { TapName[t] : t \in Task }

VARIABLES
  \* the row of table tasks; of vm_id, started_at and completed_at (with
  \* exit_code and error_message) only which tasks have one
  status, vmId, startedAt, finished, ipRow,
  \* requests and background jobs
  createPc, bootPc, deletePc, deleteOf, resumePc, resumeOf,
  \* VmManager and WsRegistry, lost when the process ends
  nextCid, nextIp, tracked, pidKnown, channels,
  \* locals of the boot job that the VM keeps
  cid, ip,
  \* the host
  qemu, tapOwner, files,
  \* history: tasks for which a DELETE has answered 204; process restarts
  acked, restarts

rowVars     == <<status, vmId, startedAt, finished, ipRow>>
deleteVars  == <<deletePc, deleteOf>>
resumeVars  == <<resumePc, resumeOf>>
counterVars == <<nextCid, nextIp, cid, ip>>
mapVars     == <<tracked, pidKnown>>
hostVars    == <<qemu, tapOwner, files>>
historyVars == <<acked, restarts>>
vars == <<rowVars, createPc, bootPc, deleteVars, resumeVars, counterVars,
          mapVars, channels, hostVars, historyVars>>

Status == {"absent", "pending", "starting", "running", "suspended", "terminated"}
CreatePc == {"new", "guild", "mark", "spawn", "done"}
BootPc == {"none", "cid", "ip", "wrap", "tap", "volume", "rootfs", "qemu",
           "socket", "track", "running", "storeip", "relay", "failed", "done"}
DeletePc == {"idle", "stop", "quit", "tap", "files", "mark", "channel"}
ResumePc == {"idle", "lock", "cont", "mark"}
File == {"volume", "rootfs", "run"}   \* run: QMP socket, serial log, pid file

Init ==
  /\ status    = [t \in Task |-> "absent"]
  /\ vmId      = {}
  /\ startedAt = {}
  /\ finished  = {}
  /\ ipRow     = [t \in Task |-> 0]
  /\ createPc  = [t \in Task |-> "new"]
  /\ bootPc    = [t \in Task |-> "none"]
  /\ deletePc  = [d \in Deleter |-> "idle"]
  /\ deleteOf  = [d \in Deleter |-> NoTask]
  /\ resumePc  = [r \in Resumer |-> "idle"]
  /\ resumeOf  = [r \in Resumer |-> NoTask]
  /\ nextCid   = CidStart
  /\ nextIp    = FirstIp
  /\ tracked   = {}
  /\ pidKnown  = {}
  /\ channels  = {}
  /\ cid       = [t \in Task |-> 0]
  /\ ip        = [t \in Task |-> 0]
  /\ qemu      = [t \in Task |-> "off"]
  /\ tapOwner  = [n \in TapNames |-> NoTask]
  /\ files     = [t \in Task |-> {}]
  /\ acked     = {}
  /\ restarts  = 0

----------------------------------------------------------------------------
(* Table tasks (db.rs): unconditional updates of one row. *)

\* vm_id = COALESCE($3, vm_id).  Mutant: without the COALESCE.
OverwrittenVmIds(t, given) == IF given THEN vmId \union {t} ELSE vmId \ {t}
NewVmIds(t, given) == IF given THEN vmId \union {t} ELSE vmId

\* started_at is set by the first "running".
update_task_status(t, new, withVmId) ==
  /\ status'    = [status EXCEPT ![t] = new]
  /\ vmId'      = NewVmIds(t, withVmId)
  /\ startedAt' = IF new = "running" THEN startedAt \union {t} ELSE startedAt
  /\ UNCHANGED <<finished, ipRow>>

\* status, exit_code, error_message and completed_at of a failed boot.
\* Mutant: the status is forgotten.
complete_task_keeps_status(t) ==
  finished' = finished \union {t} /\ UNCHANGED <<status, vmId, startedAt, ipRow>>
complete_task(t) ==
  /\ status'   = [status EXCEPT ![t] = "terminated"]
  /\ finished' = finished \union {t}
  /\ UNCHANGED <<vmId, startedAt, ipRow>>

----------------------------------------------------------------------------
(* POST /tasks: create_task up to the spawn of the boot job. *)

CreateInsert(t) ==
  /\ createPc[t] = "new"
  /\ createPc' = [createPc EXCEPT ![t] = "guild"]
  /\ status' = [status EXCEPT ![t] = "pending"]
  /\ UNCHANGED <<vmId, startedAt, finished, ipRow, bootPc, deleteVars,
                 resumeVars, counterVars, mapVars, channels, hostVars, historyVars>>

\* The guild row is written when the request names a guild; an error there
\* ends the request and leaves the task pending.
CreateGuild(t) ==
  /\ createPc[t] = "guild"
  /\ \/ createPc' = [createPc EXCEPT ![t] = "mark"]
     \/ "db" \in Events /\ createPc' = [createPc EXCEPT ![t] = "done"]
  /\ UNCHANGED <<rowVars, bootPc, deleteVars, resumeVars, counterVars,
                 mapVars, channels, hostVars, historyVars>>

CreateMarkStarting(t) ==
  /\ createPc[t] = "mark"
  /\ \/ /\ update_task_status(t, "starting", TRUE)
        /\ createPc' = [createPc EXCEPT ![t] = "spawn"]
     \/ /\ "db" \in Events
        /\ createPc' = [createPc EXCEPT ![t] = "done"]
        /\ UNCHANGED rowVars
  /\ UNCHANGED <<bootPc, deleteVars, resumeVars, counterVars, mapVars,
                 channels, hostVars, historyVars>>

\* WsRegistry::get_or_create.  Mutant: get.
get_channel(t)   == channels
get_or_create(t) == channels \union {t}

\* The reply reads the row back and changes nothing.
CreateSpawn(t) ==
  /\ createPc[t] = "spawn"
  /\ createPc' = [createPc EXCEPT ![t] = "done"]
  /\ channels' = get_or_create(t)
  /\ bootPc' = [bootPc EXCEPT ![t] = "cid"]
  /\ UNCHANGED <<rowVars, deleteVars, resumeVars, counterVars, mapVars,
                 hostVars, historyVars>>

\* A dropped connection drops the handler's future at the await it is at.
CreateCancelled(t) ==
  /\ "cancel" \in Events
  /\ createPc[t] \in {"guild", "mark", "spawn"}
  /\ createPc' = [createPc EXCEPT ![t] = "done"]
  /\ UNCHANGED <<rowVars, bootPc, deleteVars, resumeVars, counterVars,
                 mapVars, channels, hostVars, historyVars>>

----------------------------------------------------------------------------
(* The boot job: VmManager::create_vm_with_progress, then the relay. *)

BootGoto(t, pc) == bootPc' = [bootPc EXCEPT ![t] = pc]

\* next_cid.fetch_add(1).  Mutant: CIDs counted by the VMs in the map.
CidByCount == CidStart + Cardinality(tracked)
NextCid == nextCid

BootTakeCid(t) ==
  /\ bootPc[t] = "cid"
  /\ cid' = [cid EXCEPT ![t] = NextCid]
  /\ nextCid' = nextCid + 1
  /\ BootGoto(t, "ip")
  /\ UNCHANGED <<rowVars, createPc, deleteVars, resumeVars, nextIp, ip,
                 mapVars, channels, hostVars, historyVars>>

\* last_octet > 254.  Mutant: off by one.
PastRangeLate  == nextIp > LastIp + 1
PastRange      == nextIp > LastIp

\* allocate_ip: the fetch_add, ...
BootTakeIp(t) ==
  /\ bootPc[t] = "ip"
  /\ nextIp' = nextIp + 1
  /\ \/ PastRange  /\ BootGoto(t, "wrap") /\ UNCHANGED ip
     \/ ~PastRange /\ BootGoto(t, "tap")  /\ ip' = [ip EXCEPT ![t] = nextIp]
  /\ UNCHANGED <<rowVars, createPc, deleteVars, resumeVars, nextCid, cid,
                 mapVars, channels, hostVars, historyVars>>

\* ... and, past the range, a separate store.
BootWrapIp(t) ==
  /\ bootPc[t] = "wrap"
  /\ nextIp' = FirstIp + 1
  /\ ip' = [ip EXCEPT ![t] = FirstIp]
  /\ BootGoto(t, "tap")
  /\ UNCHANGED <<rowVars, createPc, deleteVars, resumeVars, nextCid, cid,
                 mapVars, channels, hostVars, historyVars>>

\* lia-create-tap refuses a name that exists.  Mutant: it takes the device.
TapAnyway(t) == TRUE
TapFree(t)   == tapOwner[TapName[t]] = NoTask

\* Directories, then lia-create-tap, which can fail after the device is there.
BootCreateTap(t) ==
  /\ bootPc[t] = "tap"
  /\ \/ /\ TapFree(t)
        /\ tapOwner' = [tapOwner EXCEPT ![TapName[t]] = t]
        /\ BootGoto(t, "volume")
     \/ /\ TapFree(t)
        /\ "tap" \in Events
        /\ tapOwner' = [tapOwner EXCEPT ![TapName[t]] = t]
        /\ BootGoto(t, "failed")
     \/ /\ ~TapFree(t) \/ "tap" \in Events
        /\ BootGoto(t, "failed")
        /\ UNCHANGED tapOwner
  /\ UNCHANGED <<rowVars, createPc, deleteVars, resumeVars, counterVars,
                 mapVars, channels, qemu, files, historyVars>>

\* create_sparse_volume: the file exists before set_len and mkfs can fail.
BootCreateVolume(t) ==
  /\ bootPc[t] = "volume"
  /\ \/ /\ files' = [files EXCEPT ![t] = @ \union {"volume"}]
        /\ BootGoto(t, "rootfs") \/ ("volume" \in Events /\ BootGoto(t, "failed"))
     \/ "volume" \in Events /\ BootGoto(t, "failed") /\ UNCHANGED files
  /\ UNCHANGED <<rowVars, createPc, deleteVars, resumeVars, counterVars,
                 mapVars, channels, qemu, tapOwner, historyVars>>

BootCopyRootfs(t) ==
  /\ bootPc[t] = "rootfs"
  /\ \/ /\ files' = [files EXCEPT ![t] = @ \union {"rootfs"}]
        /\ BootGoto(t, "qemu") \/ ("rootfs" \in Events /\ BootGoto(t, "failed"))
     \/ "rootfs" \in Events /\ BootGoto(t, "failed") /\ UNCHANGED files
  /\ UNCHANGED <<rowVars, createPc, deleteVars, resumeVars, counterVars,
                 mapVars, channels, qemu, tapOwner, historyVars>>

\* delete_tap removes the device of that name whoever created it; its
\* failure is only logged.
delete_tap(t) ==
  \/ tapOwner' = [tapOwner EXCEPT ![TapName[t]] = NoTask]
  \/ "tapdel" \in Events /\ UNCHANGED tapOwner

\* vhost-vsock refuses a guest CID that a live QEMU already uses.
CidFree(t) == \A u \in Task \ {t} : qemu[u] = "off" \/ cid[u] # cid[t]

\* QEMU daemonizes, cannot be spawned (the error returns at once), or exits
\* with an error (the TAP is deleted; the files stay).
BootStartQemu(t) ==
  /\ bootPc[t] = "qemu"
  /\ \/ /\ CidFree(t)
        /\ qemu' = [qemu EXCEPT ![t] = "on"]
        /\ files' = [files EXCEPT ![t] = @ \union {"run"}]
        /\ BootGoto(t, "socket")
        /\ UNCHANGED tapOwner
     \/ /\ "qemu" \in Events
        /\ BootGoto(t, "failed")
        /\ UNCHANGED hostVars
     \/ /\ "qemu" \in Events \/ ~CidFree(t)
        /\ delete_tap(t)
        /\ BootGoto(t, "failed")
        /\ UNCHANGED <<qemu, files>>
  /\ UNCHANGED <<rowVars, createPc, deleteVars, resumeVars, counterVars,
                 mapVars, channels, historyVars>>

BootWaitForSocket(t) ==
  /\ bootPc[t] = "socket"
  /\ BootGoto(t, "track") \/ ("socket" \in Events /\ BootGoto(t, "failed"))
  /\ UNCHANGED <<rowVars, createPc, deleteVars, resumeVars, counterVars,
                 mapVars, channels, hostVars, historyVars>>

\* The vms lock: a resume holds it for reading while it talks to QEMU.
VmsWritable == \A r \in Resumer : resumePc[r] # "cont"

\* The pid file is read, then the VM enters the map.
BootTrack(t) ==
  /\ bootPc[t] = "track"
  /\ VmsWritable
  /\ \/ pidKnown' = pidKnown \union {t}
     \/ "pid" \in Events /\ UNCHANGED pidKnown
  /\ tracked' = tracked \union {t}
  /\ BootGoto(t, "running")
  /\ UNCHANGED <<rowVars, createPc, deleteVars, resumeVars, counterVars,
                 channels, hostVars, historyVars>>

\* The row becomes running whatever it says now; a failed update ends the job.
BootMarkRunning(t) ==
  /\ bootPc[t] = "running"
  /\ \/ /\ update_task_status(t, "running", TRUE)
        /\ BootGoto(t, "storeip")
     \/ /\ "db" \in Events
        /\ BootGoto(t, "done")
        /\ UNCHANGED rowVars
  /\ UNCHANGED <<createPc, deleteVars, resumeVars, counterVars, mapVars,
                 channels, hostVars, historyVars>>

BootStoreIp(t) ==
  /\ bootPc[t] = "storeip"
  /\ \/ ipRow' = [ipRow EXCEPT ![t] = ip[t]]
     \/ "db" \in Events /\ UNCHANGED ipRow
  /\ BootGoto(t, "relay")
  /\ UNCHANGED <<status, vmId, startedAt, finished, createPc, deleteVars,
                 resumeVars, counterVars, mapVars, channels, hostVars, historyVars>>

\* vm_info.cid.  Mutant: the CID handed out last.
LastCid(t)  == nextCid - 1
RelayCid(t) == cid[t]

\* Can the host reach an agent on the CID of t, and whose agent answers?
AnswersOn(t) == { u \in Task : qemu[u] = "on" /\ cid[u] = RelayCid(t) }

\* VsockRelay::start connects, or gives up after MAX_ATTEMPTS.
BootStartRelay(t) ==
  /\ bootPc[t] = "relay"
  /\ \/ AnswersOn(t) # {} /\ BootGoto(t, "done")
     \/ (AnswersOn(t) = {} \/ "relay" \in Events) /\ BootGoto(t, "failed")
  /\ UNCHANGED <<rowVars, createPc, deleteVars, resumeVars, counterVars,
                 mapVars, channels, hostVars, historyVars>>

\* Both error arms of the job: complete_task with exit code 1, whose own
\* failure is ignored.  Nothing is stopped or removed here.
BootFail(t) ==
  /\ bootPc[t] = "failed"
  /\ complete_task(t) \/ ("db" \in Events /\ UNCHANGED rowVars)
  /\ BootGoto(t, "done")
  /\ UNCHANGED <<createPc, deleteVars, resumeVars, counterVars, mapVars,
                 channels, hostVars, historyVars>>

----------------------------------------------------------------------------
(* DELETE /tasks/:id: delete_task and VmManager::stop_vm. *)

DeleteGoto(d, pc) == deletePc' = [deletePc EXCEPT ![d] = pc] /\ UNCHANGED deleteOf
DeleteEnd(d) == /\ deletePc' = [deletePc EXCEPT ![d] = "idle"]
                /\ deleteOf' = [deleteOf EXCEPT ![d] = NoTask]

\* get_task: only a row with a vm_id gets its VM stopped.
DeleteBegin(d, t) ==
  /\ deletePc[d] = "idle"
  /\ status[t] # "absent"
  /\ deletePc' = [deletePc EXCEPT ![d] = IF t \in vmId THEN "stop" ELSE "mark"]
  /\ deleteOf' = [deleteOf EXCEPT ![d] = t]
  /\ UNCHANGED <<rowVars, createPc, bootPc, resumeVars, counterVars, mapVars,
                 channels, hostVars, historyVars>>

\* vms.remove.  Mutant: the VM is looked up and stays in the map.
KeepVm(t)   == tracked
RemoveVm(t) == tracked \ {t}

\* The VM leaves the map first; a VM that is not there needs no stopping.
StopUntrack(d) ==
  /\ deletePc[d] = "stop"
  /\ VmsWritable
  /\ tracked' = RemoveVm(deleteOf[d])
  /\ DeleteGoto(d, IF deleteOf[d] \in tracked THEN "quit" ELSE "mark")
  /\ UNCHANGED <<rowVars, createPc, bootPc, resumeVars, counterVars, pidKnown,
                 channels, hostVars, historyVars>>

\* QMP quit; when that fails, TERM and KILL if the pid is known.
StopQuit(d) ==
  LET t == deleteOf[d] IN
  /\ deletePc[d] = "quit"
  /\ \/ /\ qemu[t] # "off" \/ t \in pidKnown
        /\ qemu' = [qemu EXCEPT ![t] = "off"]
     \/ /\ qemu[t] = "off" \/ "qmp" \in Events
        /\ t \notin pidKnown
        /\ UNCHANGED qemu
  /\ DeleteGoto(d, "tap")
  /\ UNCHANGED <<rowVars, createPc, bootPc, resumeVars, counterVars, mapVars,
                 channels, tapOwner, files, historyVars>>

StopDeleteTap(d) ==
  /\ deletePc[d] = "tap"
  /\ delete_tap(deleteOf[d])
  /\ DeleteGoto(d, "files")
  /\ UNCHANGED <<rowVars, createPc, bootPc, resumeVars, counterVars, mapVars,
                 channels, qemu, files, historyVars>>

\* What stop_vm removes.  Mutant: not the copied rootfs.
CleanedUpNotRootfs == {"volume", "run"}
CleanedUp == File

StopRemoveFiles(d) ==
  /\ deletePc[d] = "files"
  /\ files' = [files EXCEPT ![deleteOf[d]] = @ \ CleanedUp]
  /\ DeleteGoto(d, "mark")
  /\ UNCHANGED <<rowVars, createPc, bootPc, resumeVars, counterVars, mapVars,
                 channels, qemu, tapOwner, historyVars>>

DeleteMark(d) ==
  /\ deletePc[d] = "mark"
  /\ \/ /\ update_task_status(deleteOf[d], "terminated", FALSE)
        /\ DeleteGoto(d, "channel")
     \/ /\ "db" \in Events
        /\ DeleteEnd(d)
        /\ UNCHANGED rowVars
  /\ UNCHANGED <<createPc, bootPc, resumeVars, counterVars, mapVars,
                 channels, hostVars, historyVars>>

DeleteReply(d) ==
  /\ deletePc[d] = "channel"
  /\ channels' = channels \ {deleteOf[d]}
  /\ acked' = acked \union {deleteOf[d]}
  /\ DeleteEnd(d)
  /\ UNCHANGED <<rowVars, createPc, bootPc, resumeVars, counterVars, mapVars,
                 hostVars, restarts>>

DeleteCancelled(d) ==
  /\ "cancel" \in Events
  /\ deletePc[d] # "idle"
  /\ DeleteEnd(d)
  /\ UNCHANGED <<rowVars, createPc, bootPc, resumeVars, counterVars, mapVars,
                 channels, hostVars, historyVars>>

----------------------------------------------------------------------------
(* POST /tasks/:id/resume: resume_task and VmManager::resume_vm. *)

ResumeGoto(r, pc) == resumePc' = [resumePc EXCEPT ![r] = pc] /\ UNCHANGED resumeOf

ResumeEnd(r) == /\ resumePc' = [resumePc EXCEPT ![r] = "idle"]
                /\ resumeOf' = [resumeOf EXCEPT ![r] = NoTask]

\* Any other status, or no vm_id, is answered 409 and changes nothing.
\* Mutant: only the vm_id is checked.
ResumableAnyStatus(t) == t \in vmId
Resumable(t) == status[t] = "suspended" /\ t \in vmId

ResumeBegin(r, t) ==
  /\ resumePc[r] = "idle"
  /\ Resumable(t)
  /\ resumePc' = [resumePc EXCEPT ![r] = "lock"]
  /\ resumeOf' = [resumeOf EXCEPT ![r] = t]
  /\ UNCHANGED <<rowVars, createPc, bootPc, deleteVars, counterVars, mapVars,
                 channels, hostVars, historyVars>>

\* The read lock is taken and kept if the VM is in the map.
ResumeLookUp(r) ==
  /\ resumePc[r] = "lock"
  /\ IF resumeOf[r] \in tracked THEN ResumeGoto(r, "cont") ELSE ResumeEnd(r)
  /\ UNCHANGED <<rowVars, createPc, bootPc, deleteVars, counterVars, mapVars,
                 channels, hostVars, historyVars>>

\* A QMP command fails on a dead QEMU.  Mutant: the handler waits for it.
QmpWaits(t) == FALSE
QmpFails(t) == qemu[t] = "off" \/ "qmp" \in Events

\* QMP cont; its error is the answer.  Either way the lock is released.
ResumeCont(r) ==
  LET t == resumeOf[r] IN
  /\ resumePc[r] = "cont"
  /\ \/ /\ qemu[t] # "off"
        /\ qemu' = [qemu EXCEPT ![t] = "on"]
        /\ ResumeGoto(r, "mark")
     \/ /\ QmpFails(t)
        /\ ResumeEnd(r)
        /\ UNCHANGED qemu
  /\ UNCHANGED <<rowVars, createPc, bootPc, deleteVars, counterVars, mapVars,
                 channels, tapOwner, files, historyVars>>

ResumeMark(r) ==
  /\ resumePc[r] = "mark"
  /\ \/ update_task_status(resumeOf[r], "running", FALSE)
     \/ "db" \in Events /\ UNCHANGED rowVars
  /\ ResumeEnd(r)
  /\ UNCHANGED <<createPc, bootPc, deleteVars, counterVars, mapVars,
                 channels, hostVars, historyVars>>

ResumeCancelled(r) ==
  /\ "cancel" \in Events
  /\ resumePc[r] # "idle"
  /\ ResumeEnd(r)
  /\ UNCHANGED <<rowVars, createPc, bootPc, deleteVars, counterVars, mapVars,
                 channels, hostVars, historyVars>>

----------------------------------------------------------------------------
(* WebSocket clients: handle_ws checks the row, then get_or_create. *)

WsOpen(t) ==
  /\ status[t] # "absent"
  /\ channels' = get_or_create(t)
  /\ UNCHANGED <<rowVars, createPc, bootPc, deleteVars, resumeVars, counterVars,
                 mapVars, hostVars, historyVars>>

----------------------------------------------------------------------------
(* The environment. *)

\* The guest powers off, or QEMU crashes.
GuestStops(t) ==
  /\ "guest" \in Events
  /\ qemu[t] # "off"
  /\ qemu' = [qemu EXCEPT ![t] = "off"]
  /\ UNCHANGED <<rowVars, createPc, bootPc, deleteVars, resumeVars, counterVars,
                 mapVars, channels, tapOwner, files, historyVars>>

\* No code under src/ suspends a task; resume_task only makes sense if
\* somebody pauses the VM over QMP and writes the status.
OperatorSuspends(t) ==
  /\ "suspend" \in Events
  /\ status[t] = "running"
  /\ qemu[t] = "on"
  /\ qemu' = [qemu EXCEPT ![t] = "paused"]
  /\ status' = [status EXCEPT ![t] = "suspended"]
  /\ UNCHANGED <<vmId, startedAt, finished, ipRow, createPc, bootPc, deleteVars,
                 resumeVars, counterVars, mapVars, channels, tapOwner, files,
                 historyVars>>

\* The API process ends and a new one starts: AppState::new.
Restart ==
  /\ restarts < MaxRestarts
  /\ restarts' = restarts + 1
  /\ createPc' = [t \in Task |-> IF createPc[t] = "new" THEN "new" ELSE "done"]
  /\ bootPc' = [t \in Task |-> IF bootPc[t] = "none" THEN "none" ELSE "done"]
  /\ deletePc' = [d \in Deleter |-> "idle"]
  /\ deleteOf' = [d \in Deleter |-> NoTask]
  /\ resumePc' = [r \in Resumer |-> "idle"]
  /\ resumeOf' = [r \in Resumer |-> NoTask]
  /\ nextCid' = CidStart
  /\ nextIp' = FirstIp
  /\ tracked' = {}
  /\ channels' = {}
  /\ qemu' = IF QemuSurvives THEN qemu ELSE [t \in Task |-> "off"]
  /\ UNCHANGED <<rowVars, pidKnown, cid, ip, tapOwner, files, acked>>

----------------------------------------------------------------------------
CreateStep(t) == \/ CreateInsert(t) \/ CreateGuild(t) \/ CreateMarkStarting(t)
                 \/ CreateSpawn(t)

BootStep(t) ==
  \/ BootTakeCid(t) \/ BootTakeIp(t) \/ BootWrapIp(t) \/ BootCreateTap(t)
  \/ BootCreateVolume(t) \/ BootCopyRootfs(t) \/ BootStartQemu(t)
  \/ BootWaitForSocket(t) \/ BootTrack(t) \/ BootMarkRunning(t)
  \/ BootStoreIp(t) \/ BootStartRelay(t) \/ BootFail(t)

\* A running DELETE, up to its answer.
DeleteStep(d) ==
  \/ StopUntrack(d) \/ StopQuit(d) \/ StopDeleteTap(d) \/ StopRemoveFiles(d)
  \/ DeleteMark(d) \/ DeleteReply(d)

ResumeStep(r) == ResumeLookUp(r) \/ ResumeCont(r) \/ ResumeMark(r)

Next ==
  \/ \E t \in Task :
       \/ CreateStep(t) \/ CreateCancelled(t) \/ BootStep(t)
       \/ WsOpen(t) \/ GuestStops(t) \/ OperatorSuspends(t)
       \/ \E d \in Deleter : DeleteBegin(d, t)
       \/ \E r \in Resumer : ResumeBegin(r, t)
  \/ \E d \in Deleter : DeleteStep(d) \/ DeleteCancelled(d)
  \/ \E r \in Resumer : ResumeStep(r) \/ ResumeCancelled(r)
  \/ Restart

Spec == Init /\ [][Next]_vars

\* The server runs what it has started: every wait in it is bounded (50 polls
\* for the socket, 600 connection attempts) and QEMU answers QMP.  The vms
\* lock is tokio's, which serves writers in turn.
Fairness ==
  /\ \A t \in Task : /\ WF_vars(CreateGuild(t) \/ CreateMarkStarting(t) \/ CreateSpawn(t))
                     /\ SF_vars(BootStep(t))
  /\ \A d \in Deleter : SF_vars(DeleteStep(d))
  /\ \A r \in Resumer : WF_vars(ResumeStep(r))

FairSpec == Spec /\ Fairness

----------------------------------------------------------------------------
(* Properties. *)

RowTypeOK ==
  /\ status \in [Task -> Status]
  /\ vmId \subseteq Task
  /\ startedAt \subseteq Task
  /\ finished \subseteq Task
  /\ ipRow \in [Task -> Nat]

\* A request slot has a target exactly while it is busy.
RequestTypeOK ==
  /\ createPc \in [Task -> CreatePc]
  /\ bootPc \in [Task -> BootPc]
  /\ deletePc \in [Deleter -> DeletePc]
  /\ deleteOf \in [Deleter -> Task \union {NoTask}]
  /\ \A d \in Deleter : deleteOf[d] = NoTask <=> deletePc[d] = "idle"
  /\ resumePc \in [Resumer -> ResumePc]
  /\ resumeOf \in [Resumer -> Task \union {NoTask}]
  /\ \A r \in Resumer : resumeOf[r] = NoTask <=> resumePc[r] = "idle"

VmTypeOK ==
  /\ nextCid \in Nat
  /\ nextIp \in Nat
  /\ tracked \subseteq Task
  /\ pidKnown \subseteq Task
  /\ channels \subseteq Task
  /\ cid \in [Task -> Nat]
  /\ ip \in [Task -> Nat]
  /\ qemu \in [Task -> {"off", "on", "paused"}]
  /\ tapOwner \in [TapNames -> Task \union {NoTask}]
  /\ files \in [Task -> SUBSET File]
  /\ acked \subseteq Task
  /\ restarts \in Nat

\* The type invariant of all variables.
TypeOK == RowTypeOK /\ RequestTypeOK /\ VmTypeOK

\* The boot job holds a TAP from its creation until the VM is in the map.
Building(t) == bootPc[t] \in {"volume", "rootfs", "qemu", "socket", "track"}

\* A DELETE of t between taking the VM out of the map and removing the files.
TearsDown(d, t) == deleteOf[d] = t /\ deletePc[d] \in {"quit", "tap", "files"}

\* Concurrent DELETEs never dismantle one VM twice, and a VM being dismantled
\* is neither in the map nor still being built (stop_vm removes first).
OneTeardown ==
  \A d \in Deleter, t \in Task : TearsDown(d, t) =>
    /\ t \notin tracked
    /\ ~Building(t)
    /\ \A e \in Deleter \ {d} : ~TearsDown(e, t)

\* A VM in the map can be found by delete_task: its row exists and names it,
\* however deletes, resumes and a late boot have overwritten that row.
TrackedIsDeletable ==
  \A t \in tracked : t \in vmId /\ status[t] # "absent"

\* The TAP a VM was given stays its own until its own teardown deletes it,
\* also when two task ids share the eight characters TAP names are cut to.
TapNotStolen ==
  \A t \in Task :
    t \in tracked \/ Building(t)
      \/ (\E d \in Deleter : deleteOf[d] = t /\ deletePc[d] \in {"quit", "tap"})
    => tapOwner[TapName[t]] = t

\* Between the fetch_add and the end of its relay's connection attempts, and
\* while it is in the map, a task's CID is its own.
HoldsCid(t) == t \in tracked \/ bootPc[t] \notin {"none", "cid", "failed", "done"}
DistinctCids ==
  \A t, u \in Task : t # u /\ HoldsCid(t) /\ HoldsCid(u) => cid[t] # cid[u]

\* The relay of a task reaches that task's agent and no other, although the
\* VM it was started for may have died and CIDs restart with the process.
RelayReachesOwnVm ==
  \A t \in Task : bootPc[t] = "relay" => AnswersOn(t) \subseteq {t}

\* The invariants above are not inductive by themselves; these are the facts
\* about the stages of a task they rest on.
Booted(t) == bootPc[t] \in {"running", "storeip", "relay", "failed", "done"}
StagesAgree ==
  /\ \A t \in Task :
       /\ createPc[t] # "done" => bootPc[t] = "none"
       /\ t \in tracked => Booted(t)
       /\ qemu[t] # "off" => Booted(t) \/ bootPc[t] \in {"socket", "track"}
  /\ \A d \in Deleter :
       deletePc[d] \in {"quit", "tap", "files"} => Booted(deleteOf[d])
RowNamesVm ==
  \A t \in Task : bootPc[t] # "none" \/ createPc[t] = "spawn" =>
                  t \in vmId /\ status[t] # "absent"
CidsAhead == \A t \in Task : HoldsCid(t) => cid[t] < nextCid
LiveCidsApart ==
  \A t \in Task : bootPc[t] \in {"socket", "track", "running", "storeip", "relay"} => CidFree(t)

\* Until the process restarts no CID is given out twice, held or not.
FreshCids ==
  restarts = 0 =>
    \A t \in Task : bootPc[t] \notin {"none", "cid"} =>
      /\ cid[t] < nextCid
      /\ \A u \in Task \ {t} : bootPc[u] \notin {"none", "cid"} => cid[u] # cid[t]

\* The inductive invariant.
IInv == /\ TypeOK /\ StagesAgree /\ RowNamesVm /\ OneTeardown /\ TapNotStolen
        /\ DistinctCids /\ CidsAhead /\ LiveCidsApart /\ FreshCids

\* Nothing is leaked: each process, TAP and file of a VM belongs to a boot
\* job, to the map or to a DELETE that will release it.  Holds in instances
\* whose Events exclude the failures that have no cleanup (Leaky).
Leaky == {"cancel", "tap", "tapdel", "volume", "rootfs", "qemu", "socket", "qmp"}
DeleteAt(t, pcs) == \E d \in Deleter : deleteOf[d] = t /\ deletePc[d] \in pcs
EveryResourceHasOwner ==
  \A t \in Task :
    /\ qemu[t] # "off" =>
         t \in tracked \/ Building(t) \/ DeleteAt(t, {"quit"})
    /\ tapOwner[TapName[t]] = t =>
         t \in tracked \/ Building(t) \/ DeleteAt(t, {"quit", "tap"})
    /\ files[t] # {} =>
         t \in tracked \/ Building(t) \/ DeleteAt(t, {"quit", "tap", "files"})

\* Output of a boot job or relay finds its channel in the registry until a
\* DELETE of the task has run to its end (delete_task removes it last).
ChannelUntilStopped ==
  \A t \in Task :
    bootPc[t] # "none" /\ restarts = 0 /\ t \notin acked => t \in channels

\* allocate_ip stays in its range although the wrap is a fetch_add and a
\* separate store that other jobs interleave with.
IpInRange == \A t \in Task : ip[t] # 0 => ip[t] \in FirstIp .. LastIp

\* No request or job of t is left that writes its row without asking what
\* it says (a resume asks only when it begins).
Settled(t) == /\ createPc[t] = "done"
              /\ bootPc[t] \in {"none", "done"}
              /\ \A r \in Resumer : resumeOf[r] # t

\* A terminated task whose boot job has ended, and that no resume is working
\* on, is final: no later request restarts or resumes it.
Over(t) == Settled(t) /\ status[t] = "terminated"
TerminatedFinalOnceSettled == [][\A t \in Task : Over(t) => Over(t)']_vars

\* A task does not stay in starting: it boots, fails or is stopped.
StartingResolves ==
  \A t \in Task : status[t] = "starting" ~> status[t] # "starting"

\* Every DELETE is answered, also while resumes hold the vms lock.
DeleteAnswered ==
  \A d \in Deleter : deletePc[d] # "idle" ~> deletePc[d] = "idle"

----------------------------------------------------------------------------
(* What the documents say of the program and the code does not do. *)

\* "The AI agent has been terminated and all resources released."
\* (discord-bot stop.ts, after the 204): once no DELETE is in flight.
StopReleasesAll ==
  \A t \in acked :
    (\A d \in Deleter : deleteOf[d] # t)
      => qemu[t] = "off" /\ tapOwner[TapName[t]] # t /\ files[t] = {}
=============================================================================
