------------------------ MODULE TaskLifecycleProofs ------------------------
(***************************************************************************)
(* Proofs about TaskLifecycle for any number of tasks, requests, restarts  *)
(* and for every set of Events.                                            *)
(*                                                                         *)
(* Each lemma <I>Step shows that a step keeps the part I of the inductive  *)
(* invariant IInv.  Its first case is a step that leaves alone every       *)
(* variable I mentions; then there is one case per action that writes one. *)
(***************************************************************************)
EXTENDS TaskLifecycle, TLAPS

(* Every action keeps the types. *)
LEMMA TypeOKStep ==
  ASSUME TypeOK, [Next]_vars
  PROVE  TypeOK'
<1>1. CASE UNCHANGED <<status, vmId, startedAt, finished, ipRow, createPc,
        bootPc, deletePc, deleteOf, resumePc, resumeOf, nextCid, nextIp, tracked,
        pidKnown, channels, cid, ip, qemu, tapOwner, files, acked, restarts>>
  BY <1>1, ConstantsAssumption DEF TypeOK, RowTypeOK, RequestTypeOK, VmTypeOK,
    Status, CreatePc, BootPc, DeletePc, ResumePc, File, TapNames
<1>2. ASSUME NEW t \in Task, CreateInsert(t)
      PROVE  TypeOK'
  BY <1>2, ConstantsAssumption DEF CreateInsert, rowVars, deleteVars,
    resumeVars, counterVars, mapVars, hostVars, historyVars, TypeOK,
    RowTypeOK, RequestTypeOK, VmTypeOK, Status, CreatePc, BootPc, DeletePc,
    ResumePc, File, TapNames
<1>3. ASSUME NEW t \in Task, CreateGuild(t)
      PROVE  TypeOK'
  BY <1>3, ConstantsAssumption DEF CreateGuild, rowVars, deleteVars,
    resumeVars, counterVars, mapVars, hostVars, historyVars, TypeOK,
    RowTypeOK, RequestTypeOK, VmTypeOK, Status, CreatePc, BootPc, DeletePc,
    ResumePc, File, TapNames
<1>4. ASSUME NEW t \in Task, CreateMarkStarting(t)
      PROVE  TypeOK'
  BY <1>4, ConstantsAssumption DEF CreateMarkStarting, update_task_status,
    NewVmIds, rowVars, deleteVars, resumeVars, counterVars, mapVars, hostVars,
    historyVars, TypeOK, RowTypeOK, RequestTypeOK, VmTypeOK, Status, CreatePc,
    BootPc, DeletePc, ResumePc, File, TapNames
<1>5. ASSUME NEW t \in Task, CreateSpawn(t)
      PROVE  TypeOK'
  BY <1>5, ConstantsAssumption DEF CreateSpawn, get_or_create, rowVars,
    deleteVars, resumeVars, counterVars, mapVars, hostVars, historyVars,
    TypeOK, RowTypeOK, RequestTypeOK, VmTypeOK, Status, CreatePc, BootPc,
    DeletePc, ResumePc, File, TapNames
<1>6. ASSUME NEW t \in Task, CreateCancelled(t)
      PROVE  TypeOK'
  BY <1>6, ConstantsAssumption DEF CreateCancelled, rowVars, deleteVars,
    resumeVars, counterVars, mapVars, hostVars, historyVars, TypeOK,
    RowTypeOK, RequestTypeOK, VmTypeOK, Status, CreatePc, BootPc, DeletePc,
    ResumePc, File, TapNames
<1>7. ASSUME NEW t \in Task, BootTakeCid(t)
      PROVE  TypeOK'
  BY <1>7, ConstantsAssumption DEF BootTakeCid, NextCid, BootGoto, rowVars,
    deleteVars, resumeVars, counterVars, mapVars, hostVars, historyVars,
    TypeOK, RowTypeOK, RequestTypeOK, VmTypeOK, Status, CreatePc, BootPc,
    DeletePc, ResumePc, File, TapNames
<1>8. ASSUME NEW t \in Task, BootTakeIp(t)
      PROVE  TypeOK'
  BY <1>8, ConstantsAssumption DEF BootTakeIp, PastRange, BootGoto, rowVars,
    deleteVars, resumeVars, counterVars, mapVars, hostVars, historyVars,
    TypeOK, RowTypeOK, RequestTypeOK, VmTypeOK, Status, CreatePc, BootPc,
    DeletePc, ResumePc, File, TapNames
<1>9. ASSUME NEW t \in Task, BootWrapIp(t)
      PROVE  TypeOK'
  BY <1>9, ConstantsAssumption DEF BootWrapIp, BootGoto, rowVars, deleteVars,
    resumeVars, counterVars, mapVars, hostVars, historyVars, TypeOK,
    RowTypeOK, RequestTypeOK, VmTypeOK, Status, CreatePc, BootPc, DeletePc,
    ResumePc, File, TapNames
<1>10. ASSUME NEW t \in Task, BootCreateTap(t)
      PROVE  TypeOK'
  BY <1>10, ConstantsAssumption DEF BootCreateTap, TapFree, BootGoto, rowVars,
    deleteVars, resumeVars, counterVars, mapVars, hostVars, historyVars,
    TypeOK, RowTypeOK, RequestTypeOK, VmTypeOK, Status, CreatePc, BootPc,
    DeletePc, ResumePc, File, TapNames
<1>11. ASSUME NEW t \in Task, BootCreateVolume(t)
      PROVE  TypeOK'
  BY <1>11, ConstantsAssumption DEF BootCreateVolume, BootGoto, rowVars,
    deleteVars, resumeVars, counterVars, mapVars, hostVars, historyVars,
    TypeOK, RowTypeOK, RequestTypeOK, VmTypeOK, Status, CreatePc, BootPc,
    DeletePc, ResumePc, File, TapNames
<1>12. ASSUME NEW t \in Task, BootCopyRootfs(t)
      PROVE  TypeOK'
  BY <1>12, ConstantsAssumption DEF BootCopyRootfs, BootGoto, rowVars,
    deleteVars, resumeVars, counterVars, mapVars, hostVars, historyVars,
    TypeOK, RowTypeOK, RequestTypeOK, VmTypeOK, Status, CreatePc, BootPc,
    DeletePc, ResumePc, File, TapNames
<1>13. ASSUME NEW t \in Task, BootStartQemu(t)
      PROVE  TypeOK'
  BY <1>13, ConstantsAssumption DEF BootStartQemu, delete_tap, BootGoto,
    rowVars, deleteVars, resumeVars, counterVars, mapVars, hostVars,
    historyVars, TypeOK, RowTypeOK, RequestTypeOK, VmTypeOK, Status, CreatePc,
    BootPc, DeletePc, ResumePc, File, TapNames
<1>14. ASSUME NEW t \in Task, BootWaitForSocket(t)
      PROVE  TypeOK'
  BY <1>14, ConstantsAssumption DEF BootWaitForSocket, BootGoto, rowVars,
    deleteVars, resumeVars, counterVars, mapVars, hostVars, historyVars,
    TypeOK, RowTypeOK, RequestTypeOK, VmTypeOK, Status, CreatePc, BootPc,
    DeletePc, ResumePc, File, TapNames
<1>15. ASSUME NEW t \in Task, BootTrack(t)
      PROVE  TypeOK'
  BY <1>15, ConstantsAssumption DEF BootTrack, BootGoto, rowVars, deleteVars,
    resumeVars, counterVars, mapVars, hostVars, historyVars, TypeOK,
    RowTypeOK, RequestTypeOK, VmTypeOK, Status, CreatePc, BootPc, DeletePc,
    ResumePc, File, TapNames
<1>16. ASSUME NEW t \in Task, BootMarkRunning(t)
      PROVE  TypeOK'
  BY <1>16, ConstantsAssumption DEF BootMarkRunning, update_task_status,
    NewVmIds, BootGoto, rowVars, deleteVars, resumeVars, counterVars, mapVars,
    hostVars, historyVars, TypeOK, RowTypeOK, RequestTypeOK, VmTypeOK, Status,
    CreatePc, BootPc, DeletePc, ResumePc, File, TapNames
<1>17. ASSUME NEW t \in Task, BootStoreIp(t)
      PROVE  TypeOK'
  BY <1>17, ConstantsAssumption DEF BootStoreIp, BootGoto, rowVars,
    deleteVars, resumeVars, counterVars, mapVars, hostVars, historyVars,
    TypeOK, RowTypeOK, RequestTypeOK, VmTypeOK, Status, CreatePc, BootPc,
    DeletePc, ResumePc, File, TapNames
<1>18. ASSUME NEW t \in Task, BootStartRelay(t)
      PROVE  TypeOK'
  BY <1>18, ConstantsAssumption DEF BootStartRelay, BootGoto, rowVars,
    deleteVars, resumeVars, counterVars, mapVars, hostVars, historyVars,
    TypeOK, RowTypeOK, RequestTypeOK, VmTypeOK, Status, CreatePc, BootPc,
    DeletePc, ResumePc, File, TapNames
<1>19. ASSUME NEW t \in Task, BootFail(t)
      PROVE  TypeOK'
  BY <1>19, ConstantsAssumption DEF BootFail, complete_task, BootGoto,
    rowVars, deleteVars, resumeVars, counterVars, mapVars, hostVars,
    historyVars, TypeOK, RowTypeOK, RequestTypeOK, VmTypeOK, Status, CreatePc,
    BootPc, DeletePc, ResumePc, File, TapNames
<1>20. ASSUME NEW t \in Task, WsOpen(t)
      PROVE  TypeOK'
  BY <1>20, ConstantsAssumption DEF WsOpen, get_or_create, rowVars,
    deleteVars, resumeVars, counterVars, mapVars, hostVars, historyVars,
    TypeOK, RowTypeOK, RequestTypeOK, VmTypeOK, Status, CreatePc, BootPc,
    DeletePc, ResumePc, File, TapNames
<1>21. ASSUME NEW t \in Task, GuestStops(t)
      PROVE  TypeOK'
  BY <1>21, ConstantsAssumption DEF GuestStops, rowVars, deleteVars,
    resumeVars, counterVars, mapVars, hostVars, historyVars, TypeOK,
    RowTypeOK, RequestTypeOK, VmTypeOK, Status, CreatePc, BootPc, DeletePc,
    ResumePc, File, TapNames
<1>22. ASSUME NEW t \in Task, OperatorSuspends(t)
      PROVE  TypeOK'
  BY <1>22, ConstantsAssumption DEF OperatorSuspends, rowVars, deleteVars,
    resumeVars, counterVars, mapVars, hostVars, historyVars, TypeOK,
    RowTypeOK, RequestTypeOK, VmTypeOK, Status, CreatePc, BootPc, DeletePc,
    ResumePc, File, TapNames
<1>23. ASSUME NEW t \in Task, NEW d \in Deleter, DeleteBegin(d, t)
      PROVE  TypeOK'
  BY <1>23, ConstantsAssumption DEF DeleteBegin, rowVars, deleteVars,
    resumeVars, counterVars, mapVars, hostVars, historyVars, TypeOK,
    RowTypeOK, RequestTypeOK, VmTypeOK, Status, CreatePc, BootPc, DeletePc,
    ResumePc, File, TapNames
<1>24. ASSUME NEW t \in Task, NEW r \in Resumer, ResumeBegin(r, t)
      PROVE  TypeOK'
  BY <1>24, ConstantsAssumption DEF ResumeBegin, Resumable, rowVars,
    deleteVars, resumeVars, counterVars, mapVars, hostVars, historyVars,
    TypeOK, RowTypeOK, RequestTypeOK, VmTypeOK, Status, CreatePc, BootPc,
    DeletePc, ResumePc, File, TapNames
<1>25. ASSUME NEW d \in Deleter, StopUntrack(d)
      PROVE  TypeOK'
  BY <1>25, ConstantsAssumption DEF StopUntrack, RemoveVm, DeleteGoto, rowVars,
    deleteVars, resumeVars, counterVars, mapVars, hostVars, historyVars,
    TypeOK, RowTypeOK, RequestTypeOK, VmTypeOK, Status, CreatePc, BootPc,
    DeletePc, ResumePc, File, TapNames
<1>26. ASSUME NEW d \in Deleter, StopQuit(d)
      PROVE  TypeOK'
  BY <1>26, ConstantsAssumption DEF StopQuit, DeleteGoto, rowVars, deleteVars,
    resumeVars, counterVars, mapVars, hostVars, historyVars, TypeOK,
    RowTypeOK, RequestTypeOK, VmTypeOK, Status, CreatePc, BootPc, DeletePc,
    ResumePc, File, TapNames
<1>27. ASSUME NEW d \in Deleter, StopDeleteTap(d)
      PROVE  TypeOK'
  BY <1>27, ConstantsAssumption DEF StopDeleteTap, delete_tap, DeleteGoto,
    rowVars, deleteVars, resumeVars, counterVars, mapVars, hostVars,
    historyVars, TypeOK, RowTypeOK, RequestTypeOK, VmTypeOK, Status, CreatePc,
    BootPc, DeletePc, ResumePc, File, TapNames
<1>28. ASSUME NEW d \in Deleter, StopRemoveFiles(d)
      PROVE  TypeOK'
  BY <1>28, ConstantsAssumption DEF StopRemoveFiles, CleanedUp, DeleteGoto,
    rowVars, deleteVars, resumeVars, counterVars, mapVars, hostVars,
    historyVars, TypeOK, RowTypeOK, RequestTypeOK, VmTypeOK, Status, CreatePc,
    BootPc, DeletePc, ResumePc, File, TapNames
<1>29. ASSUME NEW d \in Deleter, DeleteMark(d)
      PROVE  TypeOK'
  BY <1>29, ConstantsAssumption DEF DeleteMark, update_task_status, NewVmIds,
    DeleteGoto, DeleteEnd, rowVars, deleteVars, resumeVars, counterVars,
    mapVars, hostVars, historyVars, TypeOK, RowTypeOK, RequestTypeOK,
    VmTypeOK, Status, CreatePc, BootPc, DeletePc, ResumePc, File, TapNames
<1>30. ASSUME NEW d \in Deleter, DeleteReply(d)
      PROVE  TypeOK'
  BY <1>30, ConstantsAssumption DEF DeleteReply, DeleteEnd, rowVars,
    deleteVars, resumeVars, counterVars, mapVars, hostVars, historyVars,
    TypeOK, RowTypeOK, RequestTypeOK, VmTypeOK, Status, CreatePc, BootPc,
    DeletePc, ResumePc, File, TapNames
<1>31. ASSUME NEW d \in Deleter, DeleteCancelled(d)
      PROVE  TypeOK'
  BY <1>31, ConstantsAssumption DEF DeleteCancelled, DeleteEnd, rowVars,
    deleteVars, resumeVars, counterVars, mapVars, hostVars, historyVars,
    TypeOK, RowTypeOK, RequestTypeOK, VmTypeOK, Status, CreatePc, BootPc,
    DeletePc, ResumePc, File, TapNames
<1>32. ASSUME NEW r \in Resumer, ResumeLookUp(r)
      PROVE  TypeOK'
  BY <1>32, ConstantsAssumption DEF ResumeLookUp, ResumeGoto, ResumeEnd,
    rowVars, deleteVars, resumeVars, counterVars, mapVars, hostVars,
    historyVars, TypeOK, RowTypeOK, RequestTypeOK, VmTypeOK, Status, CreatePc,
    BootPc, DeletePc, ResumePc, File, TapNames
<1>33. ASSUME NEW r \in Resumer, ResumeCont(r)
      PROVE  TypeOK'
  BY <1>33, ConstantsAssumption DEF ResumeCont, QmpFails, ResumeGoto,
    ResumeEnd, rowVars, deleteVars, resumeVars, counterVars, mapVars,
    hostVars, historyVars, TypeOK, RowTypeOK, RequestTypeOK, VmTypeOK, Status,
    CreatePc, BootPc, DeletePc, ResumePc, File, TapNames
<1>34. ASSUME NEW r \in Resumer, ResumeMark(r)
      PROVE  TypeOK'
  BY <1>34, ConstantsAssumption DEF ResumeMark, update_task_status, NewVmIds,
    ResumeEnd, rowVars, deleteVars, resumeVars, counterVars, mapVars,
    hostVars, historyVars, TypeOK, RowTypeOK, RequestTypeOK, VmTypeOK, Status,
    CreatePc, BootPc, DeletePc, ResumePc, File, TapNames
<1>35. ASSUME NEW r \in Resumer, ResumeCancelled(r)
      PROVE  TypeOK'
  BY <1>35, ConstantsAssumption DEF ResumeCancelled, ResumeEnd, rowVars,
    deleteVars, resumeVars, counterVars, mapVars, hostVars, historyVars,
    TypeOK, RowTypeOK, RequestTypeOK, VmTypeOK, Status, CreatePc, BootPc,
    DeletePc, ResumePc, File, TapNames
<1>36. CASE Restart
  BY <1>36, ConstantsAssumption DEF Restart, rowVars, deleteVars, resumeVars,
    counterVars, mapVars, hostVars, historyVars, TypeOK, RowTypeOK,
    RequestTypeOK, VmTypeOK, Status, CreatePc, BootPc, DeletePc, ResumePc,
    File, TapNames
<1>37. QED
  BY <1>1, <1>2, <1>3, <1>4, <1>5, <1>6, <1>7, <1>8, <1>9, <1>10, <1>11,
    <1>12, <1>13, <1>14, <1>15, <1>16, <1>17, <1>18, <1>19, <1>20, <1>21,
    <1>22, <1>23, <1>24, <1>25, <1>26, <1>27, <1>28, <1>29, <1>30, <1>31,
    <1>32, <1>33, <1>34, <1>35, <1>36 DEF Next, CreateStep, BootStep,
    DeleteStep, ResumeStep, vars, rowVars, deleteVars, resumeVars,
    counterVars, mapVars, hostVars, historyVars

(* The stages of create handler, boot job, map, QEMU and DELETE agree. *)
LEMMA StagesAgreeStep ==
  ASSUME TypeOK, StagesAgree, [Next]_vars
  PROVE  StagesAgree'
<1>1. CASE UNCHANGED <<createPc, bootPc, deletePc, deleteOf, tracked, qemu>>
  BY <1>1, ConstantsAssumption DEF StagesAgree, Booted, TypeOK, RequestTypeOK,
    VmTypeOK
<1>2. ASSUME NEW t \in Task, CreateInsert(t)
      PROVE  StagesAgree'
  BY <1>2, ConstantsAssumption DEF CreateInsert, deleteVars, mapVars,
    hostVars, StagesAgree, Booted, TypeOK, RequestTypeOK, VmTypeOK
<1>3. ASSUME NEW t \in Task, CreateGuild(t)
      PROVE  StagesAgree'
  BY <1>3, ConstantsAssumption DEF CreateGuild, deleteVars, mapVars, hostVars,
    StagesAgree, Booted, TypeOK, RequestTypeOK, VmTypeOK
<1>4. ASSUME NEW t \in Task, CreateMarkStarting(t)
      PROVE  StagesAgree'
  BY <1>4, ConstantsAssumption DEF CreateMarkStarting, update_task_status,
    NewVmIds, deleteVars, mapVars, hostVars, StagesAgree, Booted, TypeOK,
    RequestTypeOK, VmTypeOK
<1>5. ASSUME NEW t \in Task, CreateSpawn(t)
      PROVE  StagesAgree'
  BY <1>5, ConstantsAssumption DEF CreateSpawn, get_or_create, deleteVars,
    mapVars, hostVars, StagesAgree, Booted, TypeOK, RequestTypeOK, VmTypeOK
<1>6. ASSUME NEW t \in Task, CreateCancelled(t)
      PROVE  StagesAgree'
  BY <1>6, ConstantsAssumption DEF CreateCancelled, deleteVars, mapVars,
    hostVars, StagesAgree, Booted, TypeOK, RequestTypeOK, VmTypeOK
<1>7. ASSUME NEW t \in Task, BootTakeCid(t)
      PROVE  StagesAgree'
  BY <1>7, ConstantsAssumption DEF BootTakeCid, NextCid, BootGoto, deleteVars,
    mapVars, hostVars, StagesAgree, Booted, TypeOK, RequestTypeOK, VmTypeOK
<1>8. ASSUME NEW t \in Task, BootTakeIp(t)
      PROVE  StagesAgree'
  BY <1>8, ConstantsAssumption DEF BootTakeIp, PastRange, BootGoto,
    deleteVars, mapVars, hostVars, StagesAgree, Booted, TypeOK, RequestTypeOK,
    VmTypeOK
<1>9. ASSUME NEW t \in Task, BootWrapIp(t)
      PROVE  StagesAgree'
  BY <1>9, ConstantsAssumption DEF BootWrapIp, BootGoto, deleteVars, mapVars,
    hostVars, StagesAgree, Booted, TypeOK, RequestTypeOK, VmTypeOK
<1>10. ASSUME NEW t \in Task, BootCreateTap(t)
      PROVE  StagesAgree'
  BY <1>10, ConstantsAssumption DEF BootCreateTap, TapFree, BootGoto,
    deleteVars, mapVars, hostVars, StagesAgree, Booted, TypeOK, RequestTypeOK,
    VmTypeOK
<1>11. ASSUME NEW t \in Task, BootCreateVolume(t)
      PROVE  StagesAgree'
  BY <1>11, ConstantsAssumption DEF BootCreateVolume, BootGoto, deleteVars,
    mapVars, hostVars, StagesAgree, Booted, TypeOK, RequestTypeOK, VmTypeOK
<1>12. ASSUME NEW t \in Task, BootCopyRootfs(t)
      PROVE  StagesAgree'
  BY <1>12, ConstantsAssumption DEF BootCopyRootfs, BootGoto, deleteVars,
    mapVars, hostVars, StagesAgree, Booted, TypeOK, RequestTypeOK, VmTypeOK
<1>13. ASSUME NEW t \in Task, BootStartQemu(t)
      PROVE  StagesAgree'
  <2>1. /\ bootPc[t] = "qemu"
        /\ UNCHANGED <<createPc, tracked, deletePc, deleteOf>>
    BY <1>13 DEF BootStartQemu, deleteVars, mapVars
  <2>2. CASE /\ bootPc' = [bootPc EXCEPT ![t] = "socket"]
             /\ qemu' = [qemu EXCEPT ![t] = "on"]
    BY <2>1, <2>2 DEF StagesAgree, Booted, TypeOK, RequestTypeOK, VmTypeOK
  <2>3. CASE /\ bootPc' = [bootPc EXCEPT ![t] = "failed"]
             /\ UNCHANGED qemu
    BY <2>1, <2>3 DEF StagesAgree, Booted, TypeOK, RequestTypeOK
  <2>4. QED
    BY <1>13, <2>2, <2>3 DEF BootStartQemu, BootGoto, hostVars
<1>14. ASSUME NEW t \in Task, BootWaitForSocket(t)
      PROVE  StagesAgree'
  BY <1>14, ConstantsAssumption DEF BootWaitForSocket, BootGoto, deleteVars,
    mapVars, hostVars, StagesAgree, Booted, TypeOK, RequestTypeOK, VmTypeOK
<1>15. ASSUME NEW t \in Task, BootTrack(t)
      PROVE  StagesAgree'
  BY <1>15, ConstantsAssumption DEF BootTrack, BootGoto, deleteVars, mapVars,
    hostVars, StagesAgree, Booted, TypeOK, RequestTypeOK, VmTypeOK
<1>16. ASSUME NEW t \in Task, BootMarkRunning(t)
      PROVE  StagesAgree'
  BY <1>16, ConstantsAssumption DEF BootMarkRunning, update_task_status,
    NewVmIds, BootGoto, deleteVars, mapVars, hostVars, StagesAgree, Booted,
    TypeOK, RequestTypeOK, VmTypeOK
<1>17. ASSUME NEW t \in Task, BootStoreIp(t)
      PROVE  StagesAgree'
  BY <1>17, ConstantsAssumption DEF BootStoreIp, BootGoto, deleteVars,
    mapVars, hostVars, StagesAgree, Booted, TypeOK, RequestTypeOK, VmTypeOK
<1>18. ASSUME NEW t \in Task, BootStartRelay(t)
      PROVE  StagesAgree'
  BY <1>18, ConstantsAssumption DEF BootStartRelay, BootGoto, deleteVars,
    mapVars, hostVars, StagesAgree, Booted, TypeOK, RequestTypeOK, VmTypeOK
<1>19. ASSUME NEW t \in Task, BootFail(t)
      PROVE  StagesAgree'
  BY <1>19, ConstantsAssumption DEF BootFail, complete_task, BootGoto,
    deleteVars, mapVars, hostVars, StagesAgree, Booted, TypeOK, RequestTypeOK,
    VmTypeOK
<1>20. ASSUME NEW t \in Task, GuestStops(t)
      PROVE  StagesAgree'
  BY <1>20, ConstantsAssumption DEF GuestStops, deleteVars, mapVars, hostVars,
    StagesAgree, Booted, TypeOK, RequestTypeOK, VmTypeOK
<1>21. ASSUME NEW t \in Task, OperatorSuspends(t)
      PROVE  StagesAgree'
  BY <1>21, ConstantsAssumption DEF OperatorSuspends, deleteVars, mapVars,
    hostVars, StagesAgree, Booted, TypeOK, RequestTypeOK, VmTypeOK
<1>22. ASSUME NEW t \in Task, NEW d \in Deleter, DeleteBegin(d, t)
      PROVE  StagesAgree'
  BY <1>22, ConstantsAssumption DEF DeleteBegin, deleteVars, mapVars,
    hostVars, StagesAgree, Booted, TypeOK, RequestTypeOK, VmTypeOK
<1>23. ASSUME NEW d \in Deleter, StopUntrack(d)
      PROVE  StagesAgree'
  BY <1>23, ConstantsAssumption DEF StopUntrack, RemoveVm, DeleteGoto,
    deleteVars, mapVars, hostVars, StagesAgree, Booted, TypeOK, RequestTypeOK,
    VmTypeOK
<1>24. ASSUME NEW d \in Deleter, StopQuit(d)
      PROVE  StagesAgree'
  BY <1>24, ConstantsAssumption DEF StopQuit, DeleteGoto, deleteVars, mapVars,
    hostVars, StagesAgree, Booted, TypeOK, RequestTypeOK, VmTypeOK
<1>25. ASSUME NEW d \in Deleter, StopDeleteTap(d)
      PROVE  StagesAgree'
  BY <1>25, ConstantsAssumption DEF StopDeleteTap, delete_tap, DeleteGoto,
    deleteVars, mapVars, hostVars, StagesAgree, Booted, TypeOK, RequestTypeOK,
    VmTypeOK
<1>26. ASSUME NEW d \in Deleter, StopRemoveFiles(d)
      PROVE  StagesAgree'
  BY <1>26, ConstantsAssumption DEF StopRemoveFiles, CleanedUp, DeleteGoto,
    deleteVars, mapVars, hostVars, StagesAgree, Booted, TypeOK, RequestTypeOK,
    VmTypeOK
<1>27. ASSUME NEW d \in Deleter, DeleteMark(d)
      PROVE  StagesAgree'
  BY <1>27, ConstantsAssumption DEF DeleteMark, update_task_status, NewVmIds,
    DeleteGoto, DeleteEnd, deleteVars, mapVars, hostVars, StagesAgree, Booted,
    TypeOK, RequestTypeOK, VmTypeOK
<1>28. ASSUME NEW d \in Deleter, DeleteReply(d)
      PROVE  StagesAgree'
  BY <1>28, ConstantsAssumption DEF DeleteReply, DeleteEnd, deleteVars,
    mapVars, hostVars, StagesAgree, Booted, TypeOK, RequestTypeOK, VmTypeOK
<1>29. ASSUME NEW d \in Deleter, DeleteCancelled(d)
      PROVE  StagesAgree'
  BY <1>29, ConstantsAssumption DEF DeleteCancelled, DeleteEnd, deleteVars,
    mapVars, hostVars, StagesAgree, Booted, TypeOK, RequestTypeOK, VmTypeOK
<1>30. ASSUME NEW r \in Resumer, ResumeCont(r)
      PROVE  StagesAgree'
  BY <1>30, ConstantsAssumption DEF ResumeCont, QmpFails, deleteVars, mapVars,
    hostVars, StagesAgree, Booted, TypeOK, RequestTypeOK, VmTypeOK
<1>31. CASE Restart
  BY <1>31, ConstantsAssumption DEF Restart, deleteVars, mapVars, hostVars,
    StagesAgree, Booted, TypeOK, RequestTypeOK, VmTypeOK
<1>32. QED
  BY <1>1, <1>2, <1>3, <1>4, <1>5, <1>6, <1>7, <1>8, <1>9, <1>10, <1>11,
    <1>12, <1>13, <1>14, <1>15, <1>16, <1>17, <1>18, <1>19, <1>20, <1>21,
    <1>22, <1>23, <1>24, <1>25, <1>26, <1>27, <1>28, <1>29, <1>30, <1>31 DEF
    Next, CreateStep, BootStep, DeleteStep, ResumeStep, vars, WsOpen,
    get_or_create, ResumeBegin, Resumable, ResumeLookUp, ResumeMark,
    ResumeCancelled, deleteVars, mapVars, hostVars

(* No update takes the vm_id from the row of a task that is being booted. *)
LEMMA RowNamesVmStep ==
  ASSUME TypeOK, StagesAgree, RowNamesVm, [Next]_vars
  PROVE  RowNamesVm'
<1>1. CASE UNCHANGED <<status, vmId, createPc, bootPc>>
  BY <1>1, ConstantsAssumption DEF RowNamesVm, StagesAgree, TypeOK, RowTypeOK,
    RequestTypeOK
<1>2. ASSUME NEW t \in Task, CreateInsert(t)
      PROVE  RowNamesVm'
  BY <1>2, ConstantsAssumption DEF CreateInsert, rowVars, RowNamesVm,
    StagesAgree, TypeOK, RowTypeOK, RequestTypeOK
<1>3. ASSUME NEW t \in Task, CreateGuild(t)
      PROVE  RowNamesVm'
  BY <1>3, ConstantsAssumption DEF CreateGuild, rowVars, RowNamesVm,
    StagesAgree, TypeOK, RowTypeOK, RequestTypeOK
<1>4. ASSUME NEW t \in Task, CreateMarkStarting(t)
      PROVE  RowNamesVm'
  BY <1>4, ConstantsAssumption DEF CreateMarkStarting, update_task_status,
    NewVmIds, rowVars, RowNamesVm, StagesAgree, TypeOK, RowTypeOK,
    RequestTypeOK
<1>5. ASSUME NEW t \in Task, CreateSpawn(t)
      PROVE  RowNamesVm'
  BY <1>5, ConstantsAssumption DEF CreateSpawn, get_or_create, rowVars,
    RowNamesVm, StagesAgree, TypeOK, RowTypeOK, RequestTypeOK
<1>6. ASSUME NEW t \in Task, CreateCancelled(t)
      PROVE  RowNamesVm'
  BY <1>6, ConstantsAssumption DEF CreateCancelled, rowVars, RowNamesVm,
    StagesAgree, TypeOK, RowTypeOK, RequestTypeOK
<1>7. ASSUME NEW t \in Task, BootTakeCid(t)
      PROVE  RowNamesVm'
  BY <1>7, ConstantsAssumption DEF BootTakeCid, NextCid, BootGoto, rowVars,
    RowNamesVm, StagesAgree, TypeOK, RowTypeOK, RequestTypeOK
<1>8. ASSUME NEW t \in Task, BootTakeIp(t)
      PROVE  RowNamesVm'
  BY <1>8, ConstantsAssumption DEF BootTakeIp, PastRange, BootGoto, rowVars,
    RowNamesVm, StagesAgree, TypeOK, RowTypeOK, RequestTypeOK
<1>9. ASSUME NEW t \in Task, BootWrapIp(t)
      PROVE  RowNamesVm'
  BY <1>9, ConstantsAssumption DEF BootWrapIp, BootGoto, rowVars, RowNamesVm,
    StagesAgree, TypeOK, RowTypeOK, RequestTypeOK
<1>10. ASSUME NEW t \in Task, BootCreateTap(t)
      PROVE  RowNamesVm'
  BY <1>10, ConstantsAssumption DEF BootCreateTap, TapFree, BootGoto, rowVars,
    RowNamesVm, StagesAgree, TypeOK, RowTypeOK, RequestTypeOK
<1>11. ASSUME NEW t \in Task, BootCreateVolume(t)
      PROVE  RowNamesVm'
  BY <1>11, ConstantsAssumption DEF BootCreateVolume, BootGoto, rowVars,
    RowNamesVm, StagesAgree, TypeOK, RowTypeOK, RequestTypeOK
<1>12. ASSUME NEW t \in Task, BootCopyRootfs(t)
      PROVE  RowNamesVm'
  BY <1>12, ConstantsAssumption DEF BootCopyRootfs, BootGoto, rowVars,
    RowNamesVm, StagesAgree, TypeOK, RowTypeOK, RequestTypeOK
<1>13. ASSUME NEW t \in Task, BootStartQemu(t)
      PROVE  RowNamesVm'
  BY <1>13, ConstantsAssumption DEF BootStartQemu, delete_tap, BootGoto,
    rowVars, RowNamesVm, StagesAgree, TypeOK, RowTypeOK, RequestTypeOK
<1>14. ASSUME NEW t \in Task, BootWaitForSocket(t)
      PROVE  RowNamesVm'
  BY <1>14, ConstantsAssumption DEF BootWaitForSocket, BootGoto, rowVars,
    RowNamesVm, StagesAgree, TypeOK, RowTypeOK, RequestTypeOK
<1>15. ASSUME NEW t \in Task, BootTrack(t)
      PROVE  RowNamesVm'
  BY <1>15, ConstantsAssumption DEF BootTrack, BootGoto, rowVars, RowNamesVm,
    StagesAgree, TypeOK, RowTypeOK, RequestTypeOK
<1>16. ASSUME NEW t \in Task, BootMarkRunning(t)
      PROVE  RowNamesVm'
  BY <1>16, ConstantsAssumption DEF BootMarkRunning, update_task_status,
    NewVmIds, BootGoto, rowVars, RowNamesVm, StagesAgree, TypeOK, RowTypeOK,
    RequestTypeOK
<1>17. ASSUME NEW t \in Task, BootStoreIp(t)
      PROVE  RowNamesVm'
  BY <1>17, ConstantsAssumption DEF BootStoreIp, BootGoto, rowVars,
    RowNamesVm, StagesAgree, TypeOK, RowTypeOK, RequestTypeOK
<1>18. ASSUME NEW t \in Task, BootStartRelay(t)
      PROVE  RowNamesVm'
  BY <1>18, ConstantsAssumption DEF BootStartRelay, BootGoto, rowVars,
    RowNamesVm, StagesAgree, TypeOK, RowTypeOK, RequestTypeOK
<1>19. ASSUME NEW t \in Task, BootFail(t)
      PROVE  RowNamesVm'
  BY <1>19, ConstantsAssumption DEF BootFail, complete_task, BootGoto,
    rowVars, RowNamesVm, StagesAgree, TypeOK, RowTypeOK, RequestTypeOK
<1>20. ASSUME NEW t \in Task, OperatorSuspends(t)
      PROVE  RowNamesVm'
  BY <1>20, ConstantsAssumption DEF OperatorSuspends, rowVars, RowNamesVm,
    StagesAgree, TypeOK, RowTypeOK, RequestTypeOK
<1>21. ASSUME NEW d \in Deleter, DeleteMark(d)
      PROVE  RowNamesVm'
  BY <1>21, ConstantsAssumption DEF DeleteMark, update_task_status, NewVmIds,
    rowVars, RowNamesVm, StagesAgree, TypeOK, RowTypeOK, RequestTypeOK
<1>22. ASSUME NEW r \in Resumer, ResumeMark(r)
      PROVE  RowNamesVm'
  BY <1>22, ConstantsAssumption DEF ResumeMark, update_task_status, NewVmIds,
    rowVars, RowNamesVm, StagesAgree, TypeOK, RowTypeOK, RequestTypeOK
<1>23. CASE Restart
  BY <1>23, ConstantsAssumption DEF Restart, rowVars, RowNamesVm, StagesAgree,
    TypeOK, RowTypeOK, RequestTypeOK
<1>24. QED
  BY <1>1, <1>2, <1>3, <1>4, <1>5, <1>6, <1>7, <1>8, <1>9, <1>10, <1>11,
    <1>12, <1>13, <1>14, <1>15, <1>16, <1>17, <1>18, <1>19, <1>20, <1>21,
    <1>22, <1>23 DEF Next, CreateStep, BootStep, DeleteStep, ResumeStep, vars,
    WsOpen, get_or_create, GuestStops, DeleteBegin, ResumeBegin, Resumable,
    StopUntrack, RemoveVm, StopQuit, StopDeleteTap, StopRemoveFiles,
    CleanedUp, DeleteReply, DeleteCancelled, ResumeLookUp, ResumeCont,
    QmpFails, ResumeCancelled, rowVars

(* A VM is dismantled by at most one DELETE: StopUntrack, RemoveVm is the only way
   in, and it takes the VM out of the map. *)
LEMMA OneTeardownStep ==
  ASSUME TypeOK, StagesAgree, OneTeardown, [Next]_vars
  PROVE  OneTeardown'
<1>1. CASE UNCHANGED <<bootPc, deletePc, deleteOf, tracked>>
  BY <1>1, ConstantsAssumption DEF OneTeardown, TearsDown, Building,
    StagesAgree, Booted, TypeOK, RequestTypeOK, VmTypeOK
<1>2. ASSUME NEW t \in Task, CreateSpawn(t)
      PROVE  OneTeardown'
  BY <1>2, ConstantsAssumption DEF CreateSpawn, get_or_create, deleteVars,
    mapVars, OneTeardown, TearsDown, Building, StagesAgree, Booted, TypeOK,
    RequestTypeOK, VmTypeOK
<1>3. ASSUME NEW t \in Task, BootTakeCid(t)
      PROVE  OneTeardown'
  BY <1>3, ConstantsAssumption DEF BootTakeCid, NextCid, BootGoto, deleteVars,
    mapVars, OneTeardown, TearsDown, Building, StagesAgree, Booted, TypeOK,
    RequestTypeOK, VmTypeOK
<1>4. ASSUME NEW t \in Task, BootTakeIp(t)
      PROVE  OneTeardown'
  BY <1>4, ConstantsAssumption DEF BootTakeIp, PastRange, BootGoto,
    deleteVars, mapVars, OneTeardown, TearsDown, Building, StagesAgree,
    Booted, TypeOK, RequestTypeOK, VmTypeOK
<1>5. ASSUME NEW t \in Task, BootWrapIp(t)
      PROVE  OneTeardown'
  BY <1>5, ConstantsAssumption DEF BootWrapIp, BootGoto, deleteVars, mapVars,
    OneTeardown, TearsDown, Building, StagesAgree, Booted, TypeOK,
    RequestTypeOK, VmTypeOK
<1>6. ASSUME NEW t \in Task, BootCreateTap(t)
      PROVE  OneTeardown'
  BY <1>6, ConstantsAssumption DEF BootCreateTap, TapFree, BootGoto,
    deleteVars, mapVars, OneTeardown, TearsDown, Building, StagesAgree,
    Booted, TypeOK, RequestTypeOK, VmTypeOK
<1>7. ASSUME NEW t \in Task, BootCreateVolume(t)
      PROVE  OneTeardown'
  BY <1>7, ConstantsAssumption DEF BootCreateVolume, BootGoto, deleteVars,
    mapVars, OneTeardown, TearsDown, Building, StagesAgree, Booted, TypeOK,
    RequestTypeOK, VmTypeOK
<1>8. ASSUME NEW t \in Task, BootCopyRootfs(t)
      PROVE  OneTeardown'
  BY <1>8, ConstantsAssumption DEF BootCopyRootfs, BootGoto, deleteVars,
    mapVars, OneTeardown, TearsDown, Building, StagesAgree, Booted, TypeOK,
    RequestTypeOK, VmTypeOK
<1>9. ASSUME NEW t \in Task, BootStartQemu(t)
      PROVE  OneTeardown'
  BY <1>9, ConstantsAssumption DEF BootStartQemu, delete_tap, BootGoto,
    deleteVars, mapVars, OneTeardown, TearsDown, Building, StagesAgree,
    Booted, TypeOK, RequestTypeOK, VmTypeOK
<1>10. ASSUME NEW t \in Task, BootWaitForSocket(t)
      PROVE  OneTeardown'
  BY <1>10, ConstantsAssumption DEF BootWaitForSocket, BootGoto, deleteVars,
    mapVars, OneTeardown, TearsDown, Building, StagesAgree, Booted, TypeOK,
    RequestTypeOK, VmTypeOK
<1>11. ASSUME NEW t \in Task, BootTrack(t)
      PROVE  OneTeardown'
  BY <1>11, ConstantsAssumption DEF BootTrack, BootGoto, deleteVars, mapVars,
    OneTeardown, TearsDown, Building, StagesAgree, Booted, TypeOK,
    RequestTypeOK, VmTypeOK
<1>12. ASSUME NEW t \in Task, BootMarkRunning(t)
      PROVE  OneTeardown'
  BY <1>12, ConstantsAssumption DEF BootMarkRunning, update_task_status,
    NewVmIds, BootGoto, deleteVars, mapVars, OneTeardown, TearsDown, Building,
    StagesAgree, Booted, TypeOK, RequestTypeOK, VmTypeOK
<1>13. ASSUME NEW t \in Task, BootStoreIp(t)
      PROVE  OneTeardown'
  BY <1>13, ConstantsAssumption DEF BootStoreIp, BootGoto, deleteVars,
    mapVars, OneTeardown, TearsDown, Building, StagesAgree, Booted, TypeOK,
    RequestTypeOK, VmTypeOK
<1>14. ASSUME NEW t \in Task, BootStartRelay(t)
      PROVE  OneTeardown'
  BY <1>14, ConstantsAssumption DEF BootStartRelay, BootGoto, deleteVars,
    mapVars, OneTeardown, TearsDown, Building, StagesAgree, Booted, TypeOK,
    RequestTypeOK, VmTypeOK
<1>15. ASSUME NEW t \in Task, BootFail(t)
      PROVE  OneTeardown'
  BY <1>15, ConstantsAssumption DEF BootFail, complete_task, BootGoto,
    deleteVars, mapVars, OneTeardown, TearsDown, Building, StagesAgree,
    Booted, TypeOK, RequestTypeOK, VmTypeOK
<1>16. ASSUME NEW t \in Task, NEW d \in Deleter, DeleteBegin(d, t)
      PROVE  OneTeardown'
  BY <1>16, ConstantsAssumption DEF DeleteBegin, deleteVars, mapVars,
    OneTeardown, TearsDown, Building, StagesAgree, Booted, TypeOK,
    RequestTypeOK, VmTypeOK
<1>17. ASSUME NEW d \in Deleter, StopUntrack(d)
      PROVE  OneTeardown'
  BY <1>17, ConstantsAssumption DEF StopUntrack, RemoveVm, DeleteGoto,
    deleteVars, mapVars, OneTeardown, TearsDown, Building, StagesAgree,
    Booted, TypeOK, RequestTypeOK, VmTypeOK
<1>18. ASSUME NEW d \in Deleter, StopQuit(d)
      PROVE  OneTeardown'
  BY <1>18, ConstantsAssumption DEF StopQuit, DeleteGoto, deleteVars, mapVars,
    OneTeardown, TearsDown, Building, StagesAgree, Booted, TypeOK,
    RequestTypeOK, VmTypeOK
<1>19. ASSUME NEW d \in Deleter, StopDeleteTap(d)
      PROVE  OneTeardown'
  BY <1>19, ConstantsAssumption DEF StopDeleteTap, delete_tap, DeleteGoto,
    deleteVars, mapVars, OneTeardown, TearsDown, Building, StagesAgree,
    Booted, TypeOK, RequestTypeOK, VmTypeOK
<1>20. ASSUME NEW d \in Deleter, StopRemoveFiles(d)
      PROVE  OneTeardown'
  BY <1>20, ConstantsAssumption DEF StopRemoveFiles, CleanedUp, DeleteGoto,
    deleteVars, mapVars, OneTeardown, TearsDown, Building, StagesAgree,
    Booted, TypeOK, RequestTypeOK, VmTypeOK
<1>21. ASSUME NEW d \in Deleter, DeleteMark(d)
      PROVE  OneTeardown'
  BY <1>21, ConstantsAssumption DEF DeleteMark, update_task_status, NewVmIds,
    DeleteGoto, DeleteEnd, deleteVars, mapVars, OneTeardown, TearsDown,
    Building, StagesAgree, Booted, TypeOK, RequestTypeOK, VmTypeOK
<1>22. ASSUME NEW d \in Deleter, DeleteReply(d)
      PROVE  OneTeardown'
  BY <1>22, ConstantsAssumption DEF DeleteReply, DeleteEnd, deleteVars,
    mapVars, OneTeardown, TearsDown, Building, StagesAgree, Booted, TypeOK,
    RequestTypeOK, VmTypeOK
<1>23. ASSUME NEW d \in Deleter, DeleteCancelled(d)
      PROVE  OneTeardown'
  BY <1>23, ConstantsAssumption DEF DeleteCancelled, DeleteEnd, deleteVars,
    mapVars, OneTeardown, TearsDown, Building, StagesAgree, Booted, TypeOK,
    RequestTypeOK, VmTypeOK
<1>24. CASE Restart
  BY <1>24, ConstantsAssumption DEF Restart, deleteVars, mapVars, OneTeardown,
    TearsDown, Building, StagesAgree, Booted, TypeOK, RequestTypeOK, VmTypeOK
<1>25. QED
  BY <1>1, <1>2, <1>3, <1>4, <1>5, <1>6, <1>7, <1>8, <1>9, <1>10, <1>11,
    <1>12, <1>13, <1>14, <1>15, <1>16, <1>17, <1>18, <1>19, <1>20, <1>21,
    <1>22, <1>23, <1>24 DEF Next, CreateStep, BootStep, DeleteStep,
    ResumeStep, vars, CreateInsert, CreateGuild, CreateMarkStarting,
    CreateCancelled, WsOpen, get_or_create, GuestStops, OperatorSuspends,
    ResumeBegin, Resumable, ResumeLookUp, ResumeCont, QmpFails, ResumeMark,
    ResumeCancelled, deleteVars, mapVars

(* A TAP is deleted only by the boot job or the DELETE that holds it,
   although it is deleted by name. *)
LEMMA TapNotStolenStep ==
  ASSUME TypeOK, StagesAgree, OneTeardown, TapNotStolen, [Next]_vars
  PROVE  TapNotStolen'
<1>1. CASE UNCHANGED <<bootPc, deletePc, deleteOf, tracked, tapOwner>>
  BY <1>1, ConstantsAssumption DEF TapNotStolen, OneTeardown, TearsDown,
    Building, StagesAgree, Booted, TapNames, TypeOK, RequestTypeOK, VmTypeOK
<1>2. ASSUME NEW t \in Task, CreateSpawn(t)
      PROVE  TapNotStolen'
  BY <1>2, ConstantsAssumption DEF CreateSpawn, get_or_create, deleteVars,
    mapVars, hostVars, TapNotStolen, OneTeardown, TearsDown, Building,
    StagesAgree, Booted, TapNames, TypeOK, RequestTypeOK, VmTypeOK
<1>3. ASSUME NEW t \in Task, BootTakeCid(t)
      PROVE  TapNotStolen'
  BY <1>3, ConstantsAssumption DEF BootTakeCid, NextCid, BootGoto, deleteVars,
    mapVars, hostVars, TapNotStolen, OneTeardown, TearsDown, Building,
    StagesAgree, Booted, TapNames, TypeOK, RequestTypeOK, VmTypeOK
<1>4. ASSUME NEW t \in Task, BootTakeIp(t)
      PROVE  TapNotStolen'
  BY <1>4, ConstantsAssumption DEF BootTakeIp, PastRange, BootGoto,
    deleteVars, mapVars, hostVars, TapNotStolen, OneTeardown, TearsDown,
    Building, StagesAgree, Booted, TapNames, TypeOK, RequestTypeOK, VmTypeOK
<1>5. ASSUME NEW t \in Task, BootWrapIp(t)
      PROVE  TapNotStolen'
  BY <1>5, ConstantsAssumption DEF BootWrapIp, BootGoto, deleteVars, mapVars,
    hostVars, TapNotStolen, OneTeardown, TearsDown, Building, StagesAgree,
    Booted, TapNames, TypeOK, RequestTypeOK, VmTypeOK
<1>6. ASSUME NEW t \in Task, BootCreateTap(t)
      PROVE  TapNotStolen'
  BY <1>6, ConstantsAssumption DEF BootCreateTap, TapFree, BootGoto,
    deleteVars, mapVars, hostVars, TapNotStolen, OneTeardown, TearsDown,
    Building, StagesAgree, Booted, TapNames, TypeOK, RequestTypeOK, VmTypeOK
<1>7. ASSUME NEW t \in Task, BootCreateVolume(t)
      PROVE  TapNotStolen'
  BY <1>7, ConstantsAssumption DEF BootCreateVolume, BootGoto, deleteVars,
    mapVars, hostVars, TapNotStolen, OneTeardown, TearsDown, Building,
    StagesAgree, Booted, TapNames, TypeOK, RequestTypeOK, VmTypeOK
<1>8. ASSUME NEW t \in Task, BootCopyRootfs(t)
      PROVE  TapNotStolen'
  BY <1>8, ConstantsAssumption DEF BootCopyRootfs, BootGoto, deleteVars,
    mapVars, hostVars, TapNotStolen, OneTeardown, TearsDown, Building,
    StagesAgree, Booted, TapNames, TypeOK, RequestTypeOK, VmTypeOK
<1>9. ASSUME NEW t \in Task, BootStartQemu(t)
      PROVE  TapNotStolen'
  <2>1. CASE /\ bootPc' = [bootPc EXCEPT ![t] = "socket"]
             /\ UNCHANGED tapOwner
    BY <1>9, <2>1, ConstantsAssumption DEF BootStartQemu, deleteVars, mapVars,
      TapNotStolen, Building, TypeOK, RequestTypeOK
  <2>2. CASE /\ bootPc' = [bootPc EXCEPT ![t] = "failed"]
             /\ UNCHANGED tapOwner
    BY <1>9, <2>2, ConstantsAssumption DEF BootStartQemu, deleteVars, mapVars,
      TapNotStolen, Building, TypeOK, RequestTypeOK
  <2>3. CASE /\ bootPc' = [bootPc EXCEPT ![t] = "failed"]
             /\ tapOwner' = [tapOwner EXCEPT ![TapName[t]] = NoTask]
    <3>1. /\ bootPc[t] = "qemu"
          /\ UNCHANGED <<tracked, deletePc, deleteOf>>
      BY <1>9 DEF BootStartQemu, deleteVars, mapVars
    <3>2. t \notin tracked /\ \A d \in Deleter : ~TearsDown(d, t)
      BY <3>1 DEF StagesAgree, Booted, TearsDown
    <3>3. tapOwner[TapName[t]] = t
      BY <3>1 DEF TapNotStolen, Building
    <3>4. QED
      BY <2>3, <3>1, <3>2, <3>3, ConstantsAssumption DEF TapNotStolen,
        Building, TearsDown, TypeOK, RequestTypeOK, VmTypeOK, TapNames
  <2>4. QED
    BY <1>9, <2>1, <2>2, <2>3 DEF BootStartQemu, BootGoto, delete_tap, hostVars
<1>10. ASSUME NEW t \in Task, BootWaitForSocket(t)
      PROVE  TapNotStolen'
  BY <1>10, ConstantsAssumption DEF BootWaitForSocket, BootGoto, deleteVars,
    mapVars, hostVars, TapNotStolen, OneTeardown, TearsDown, Building,
    StagesAgree, Booted, TapNames, TypeOK, RequestTypeOK, VmTypeOK
<1>11. ASSUME NEW t \in Task, BootTrack(t)
      PROVE  TapNotStolen'
  BY <1>11, ConstantsAssumption DEF BootTrack, BootGoto, deleteVars, mapVars,
    hostVars, TapNotStolen, OneTeardown, TearsDown, Building, StagesAgree,
    Booted, TapNames, TypeOK, RequestTypeOK, VmTypeOK
<1>12. ASSUME NEW t \in Task, BootMarkRunning(t)
      PROVE  TapNotStolen'
  BY <1>12, ConstantsAssumption DEF BootMarkRunning, update_task_status,
    NewVmIds, BootGoto, deleteVars, mapVars, hostVars, TapNotStolen,
    OneTeardown, TearsDown, Building, StagesAgree, Booted, TapNames, TypeOK,
    RequestTypeOK, VmTypeOK
<1>13. ASSUME NEW t \in Task, BootStoreIp(t)
      PROVE  TapNotStolen'
  BY <1>13, ConstantsAssumption DEF BootStoreIp, BootGoto, deleteVars,
    mapVars, hostVars, TapNotStolen, OneTeardown, TearsDown, Building,
    StagesAgree, Booted, TapNames, TypeOK, RequestTypeOK, VmTypeOK
<1>14. ASSUME NEW t \in Task, BootStartRelay(t)
      PROVE  TapNotStolen'
  BY <1>14, ConstantsAssumption DEF BootStartRelay, BootGoto, deleteVars,
    mapVars, hostVars, TapNotStolen, OneTeardown, TearsDown, Building,
    StagesAgree, Booted, TapNames, TypeOK, RequestTypeOK, VmTypeOK
<1>15. ASSUME NEW t \in Task, BootFail(t)
      PROVE  TapNotStolen'
  BY <1>15, ConstantsAssumption DEF BootFail, complete_task, BootGoto,
    deleteVars, mapVars, hostVars, TapNotStolen, OneTeardown, TearsDown,
    Building, StagesAgree, Booted, TapNames, TypeOK, RequestTypeOK, VmTypeOK
<1>16. ASSUME NEW t \in Task, NEW d \in Deleter, DeleteBegin(d, t)
      PROVE  TapNotStolen'
  BY <1>16, ConstantsAssumption DEF DeleteBegin, deleteVars, mapVars,
    hostVars, TapNotStolen, OneTeardown, TearsDown, Building, StagesAgree,
    Booted, TapNames, TypeOK, RequestTypeOK, VmTypeOK
<1>17. ASSUME NEW d \in Deleter, StopUntrack(d)
      PROVE  TapNotStolen'
  BY <1>17, ConstantsAssumption DEF StopUntrack, RemoveVm, DeleteGoto,
    deleteVars, mapVars, hostVars, TapNotStolen, OneTeardown, TearsDown,
    Building, StagesAgree, Booted, TapNames, TypeOK, RequestTypeOK, VmTypeOK
<1>18. ASSUME NEW d \in Deleter, StopQuit(d)
      PROVE  TapNotStolen'
  BY <1>18, ConstantsAssumption DEF StopQuit, DeleteGoto, deleteVars, mapVars,
    hostVars, TapNotStolen, OneTeardown, TearsDown, Building, StagesAgree,
    Booted, TapNames, TypeOK, RequestTypeOK, VmTypeOK
<1>19. ASSUME NEW d \in Deleter, StopDeleteTap(d)
      PROVE  TapNotStolen'
  BY <1>19, ConstantsAssumption DEF StopDeleteTap, delete_tap, DeleteGoto,
    deleteVars, mapVars, hostVars, TapNotStolen, OneTeardown, TearsDown,
    Building, StagesAgree, Booted, TapNames, TypeOK, RequestTypeOK, VmTypeOK
<1>20. ASSUME NEW d \in Deleter, StopRemoveFiles(d)
      PROVE  TapNotStolen'
  BY <1>20, ConstantsAssumption DEF StopRemoveFiles, CleanedUp, DeleteGoto,
    deleteVars, mapVars, hostVars, TapNotStolen, OneTeardown, TearsDown,
    Building, StagesAgree, Booted, TapNames, TypeOK, RequestTypeOK, VmTypeOK
<1>21. ASSUME NEW d \in Deleter, DeleteMark(d)
      PROVE  TapNotStolen'
  BY <1>21, ConstantsAssumption DEF DeleteMark, update_task_status, NewVmIds,
    DeleteGoto, DeleteEnd, deleteVars, mapVars, hostVars, TapNotStolen,
    OneTeardown, TearsDown, Building, StagesAgree, Booted, TapNames, TypeOK,
    RequestTypeOK, VmTypeOK
<1>22. ASSUME NEW d \in Deleter, DeleteReply(d)
      PROVE  TapNotStolen'
  BY <1>22, ConstantsAssumption DEF DeleteReply, DeleteEnd, deleteVars,
    mapVars, hostVars, TapNotStolen, OneTeardown, TearsDown, Building,
    StagesAgree, Booted, TapNames, TypeOK, RequestTypeOK, VmTypeOK
<1>23. ASSUME NEW d \in Deleter, DeleteCancelled(d)
      PROVE  TapNotStolen'
  BY <1>23, ConstantsAssumption DEF DeleteCancelled, DeleteEnd, deleteVars,
    mapVars, hostVars, TapNotStolen, OneTeardown, TearsDown, Building,
    StagesAgree, Booted, TapNames, TypeOK, RequestTypeOK, VmTypeOK
<1>24. CASE Restart
  BY <1>24, ConstantsAssumption DEF Restart, deleteVars, mapVars, hostVars,
    TapNotStolen, OneTeardown, TearsDown, Building, StagesAgree, Booted,
    TapNames, TypeOK, RequestTypeOK, VmTypeOK
<1>25. QED
  BY <1>1, <1>2, <1>3, <1>4, <1>5, <1>6, <1>7, <1>8, <1>9, <1>10, <1>11,
    <1>12, <1>13, <1>14, <1>15, <1>16, <1>17, <1>18, <1>19, <1>20, <1>21,
    <1>22, <1>23, <1>24 DEF Next, CreateStep, BootStep, DeleteStep,
    ResumeStep, vars, CreateInsert, CreateGuild, CreateMarkStarting,
    CreateCancelled, WsOpen, get_or_create, GuestStops, OperatorSuspends,
    ResumeBegin, Resumable, ResumeLookUp, ResumeCont, QmpFails, ResumeMark,
    ResumeCancelled, deleteVars, mapVars, hostVars

(* The counter is ahead of every CID in use, also after a restart resets
   it. *)
LEMMA DistinctCidsStep ==
  ASSUME TypeOK, StagesAgree, DistinctCids, CidsAhead, [Next]_vars
  PROVE  (DistinctCids /\ CidsAhead)'
<1>1. CASE UNCHANGED <<bootPc, nextCid, tracked, cid>>
  BY <1>1 DEF DistinctCids, CidsAhead, HoldsCid, StagesAgree, Booted, TypeOK,
    RequestTypeOK, VmTypeOK
<1>2. ASSUME NEW t \in Task, CreateSpawn(t)
      PROVE  (DistinctCids /\ CidsAhead)'
  BY <1>2 DEF CreateSpawn, get_or_create, counterVars, mapVars, DistinctCids,
    CidsAhead, HoldsCid, StagesAgree, Booted, TypeOK, RequestTypeOK, VmTypeOK
<1>3. ASSUME NEW t \in Task, BootTakeCid(t)
      PROVE  (DistinctCids /\ CidsAhead)'
  BY <1>3 DEF BootTakeCid, NextCid, BootGoto, counterVars, mapVars,
    DistinctCids, CidsAhead, HoldsCid, StagesAgree, Booted, TypeOK,
    RequestTypeOK, VmTypeOK
<1>4. ASSUME NEW t \in Task, BootTakeIp(t)
      PROVE  (DistinctCids /\ CidsAhead)'
  BY <1>4 DEF BootTakeIp, PastRange, BootGoto, counterVars, mapVars,
    DistinctCids, CidsAhead, HoldsCid, StagesAgree, Booted, TypeOK,
    RequestTypeOK, VmTypeOK
<1>5. ASSUME NEW t \in Task, BootWrapIp(t)
      PROVE  (DistinctCids /\ CidsAhead)'
  BY <1>5 DEF BootWrapIp, BootGoto, counterVars, mapVars, DistinctCids,
    CidsAhead, HoldsCid, StagesAgree, Booted, TypeOK, RequestTypeOK, VmTypeOK
<1>6. ASSUME NEW t \in Task, BootCreateTap(t)
      PROVE  (DistinctCids /\ CidsAhead)'
  BY <1>6 DEF BootCreateTap, TapFree, BootGoto, counterVars, mapVars,
    DistinctCids, CidsAhead, HoldsCid, StagesAgree, Booted, TypeOK,
    RequestTypeOK, VmTypeOK
<1>7. ASSUME NEW t \in Task, BootCreateVolume(t)
      PROVE  (DistinctCids /\ CidsAhead)'
  BY <1>7 DEF BootCreateVolume, BootGoto, counterVars, mapVars, DistinctCids,
    CidsAhead, HoldsCid, StagesAgree, Booted, TypeOK, RequestTypeOK, VmTypeOK
<1>8. ASSUME NEW t \in Task, BootCopyRootfs(t)
      PROVE  (DistinctCids /\ CidsAhead)'
  BY <1>8 DEF BootCopyRootfs, BootGoto, counterVars, mapVars, DistinctCids,
    CidsAhead, HoldsCid, StagesAgree, Booted, TypeOK, RequestTypeOK, VmTypeOK
<1>9. ASSUME NEW t \in Task, BootStartQemu(t)
      PROVE  (DistinctCids /\ CidsAhead)'
  BY <1>9 DEF BootStartQemu, delete_tap, BootGoto, counterVars, mapVars,
    DistinctCids, CidsAhead, HoldsCid, StagesAgree, Booted, TypeOK,
    RequestTypeOK, VmTypeOK
<1>10. ASSUME NEW t \in Task, BootWaitForSocket(t)
      PROVE  (DistinctCids /\ CidsAhead)'
  BY <1>10 DEF BootWaitForSocket, BootGoto, counterVars, mapVars,
    DistinctCids, CidsAhead, HoldsCid, StagesAgree, Booted, TypeOK,
    RequestTypeOK, VmTypeOK
<1>11. ASSUME NEW t \in Task, BootTrack(t)
      PROVE  (DistinctCids /\ CidsAhead)'
  BY <1>11 DEF BootTrack, BootGoto, counterVars, mapVars, DistinctCids,
    CidsAhead, HoldsCid, StagesAgree, Booted, TypeOK, RequestTypeOK, VmTypeOK
<1>12. ASSUME NEW t \in Task, BootMarkRunning(t)
      PROVE  (DistinctCids /\ CidsAhead)'
  BY <1>12 DEF BootMarkRunning, update_task_status, NewVmIds, BootGoto,
    counterVars, mapVars, DistinctCids, CidsAhead, HoldsCid, StagesAgree,
    Booted, TypeOK, RequestTypeOK, VmTypeOK
<1>13. ASSUME NEW t \in Task, BootStoreIp(t)
      PROVE  (DistinctCids /\ CidsAhead)'
  BY <1>13 DEF BootStoreIp, BootGoto, counterVars, mapVars, DistinctCids,
    CidsAhead, HoldsCid, StagesAgree, Booted, TypeOK, RequestTypeOK, VmTypeOK
<1>14. ASSUME NEW t \in Task, BootStartRelay(t)
      PROVE  (DistinctCids /\ CidsAhead)'
  BY <1>14 DEF BootStartRelay, BootGoto, counterVars, mapVars, DistinctCids,
    CidsAhead, HoldsCid, StagesAgree, Booted, TypeOK, RequestTypeOK, VmTypeOK
<1>15. ASSUME NEW t \in Task, BootFail(t)
      PROVE  (DistinctCids /\ CidsAhead)'
  BY <1>15 DEF BootFail, complete_task, BootGoto, counterVars, mapVars,
    DistinctCids, CidsAhead, HoldsCid, StagesAgree, Booted, TypeOK,
    RequestTypeOK, VmTypeOK
<1>16. ASSUME NEW d \in Deleter, StopUntrack(d)
      PROVE  (DistinctCids /\ CidsAhead)'
  BY <1>16 DEF StopUntrack, RemoveVm, counterVars, mapVars, DistinctCids,
    CidsAhead, HoldsCid, StagesAgree, Booted, TypeOK, RequestTypeOK, VmTypeOK
<1>17. CASE Restart
  BY <1>17 DEF Restart, counterVars, mapVars, DistinctCids, CidsAhead,
    HoldsCid, StagesAgree, Booted, TypeOK, RequestTypeOK, VmTypeOK
<1>18. QED
  BY <1>1, <1>2, <1>3, <1>4, <1>5, <1>6, <1>7, <1>8, <1>9, <1>10, <1>11,
    <1>12, <1>13, <1>14, <1>15, <1>16, <1>17 DEF Next, CreateStep, BootStep,
    DeleteStep, ResumeStep, vars, CreateInsert, CreateGuild,
    CreateMarkStarting, CreateCancelled, WsOpen, get_or_create, GuestStops,
    OperatorSuspends, DeleteBegin, ResumeBegin, Resumable, StopQuit,
    StopDeleteTap, StopRemoveFiles, CleanedUp, DeleteMark, DeleteReply,
    DeleteCancelled, ResumeLookUp, ResumeCont, QmpFails, ResumeMark,
    ResumeCancelled, counterVars, mapVars

(* No live QEMU comes to use the CID of a VM that is booting. *)
LEMMA LiveCidsApartStep ==
  ASSUME TypeOK, StagesAgree, DistinctCids, CidsAhead, LiveCidsApart, [Next]_vars
  PROVE  LiveCidsApart'
<1>1. CASE UNCHANGED <<bootPc, cid, qemu>>
  BY <1>1 DEF LiveCidsApart, CidFree, DistinctCids, CidsAhead, HoldsCid,
    StagesAgree, Booted, TypeOK, RequestTypeOK, VmTypeOK
<1>2. ASSUME NEW t \in Task, CreateSpawn(t)
      PROVE  LiveCidsApart'
  BY <1>2 DEF CreateSpawn, get_or_create, counterVars, hostVars,
    LiveCidsApart, CidFree, DistinctCids, CidsAhead, HoldsCid, StagesAgree,
    Booted, TypeOK, RequestTypeOK, VmTypeOK
<1>3. ASSUME NEW t \in Task, BootTakeCid(t)
      PROVE  LiveCidsApart'
  BY <1>3 DEF BootTakeCid, NextCid, BootGoto, counterVars, hostVars,
    LiveCidsApart, CidFree, DistinctCids, CidsAhead, HoldsCid, StagesAgree,
    Booted, TypeOK, RequestTypeOK, VmTypeOK
<1>4. ASSUME NEW t \in Task, BootTakeIp(t)
      PROVE  LiveCidsApart'
  BY <1>4 DEF BootTakeIp, PastRange, BootGoto, counterVars, hostVars,
    LiveCidsApart, CidFree, DistinctCids, CidsAhead, HoldsCid, StagesAgree,
    Booted, TypeOK, RequestTypeOK, VmTypeOK
<1>5. ASSUME NEW t \in Task, BootWrapIp(t)
      PROVE  LiveCidsApart'
  BY <1>5 DEF BootWrapIp, BootGoto, counterVars, hostVars, LiveCidsApart,
    CidFree, DistinctCids, CidsAhead, HoldsCid, StagesAgree, Booted, TypeOK,
    RequestTypeOK, VmTypeOK
<1>6. ASSUME NEW t \in Task, BootCreateTap(t)
      PROVE  LiveCidsApart'
  BY <1>6 DEF BootCreateTap, TapFree, BootGoto, counterVars, hostVars,
    LiveCidsApart, CidFree, DistinctCids, CidsAhead, HoldsCid, StagesAgree,
    Booted, TypeOK, RequestTypeOK, VmTypeOK
<1>7. ASSUME NEW t \in Task, BootCreateVolume(t)
      PROVE  LiveCidsApart'
  BY <1>7 DEF BootCreateVolume, BootGoto, counterVars, hostVars,
    LiveCidsApart, CidFree, DistinctCids, CidsAhead, HoldsCid, StagesAgree,
    Booted, TypeOK, RequestTypeOK, VmTypeOK
<1>8. ASSUME NEW t \in Task, BootCopyRootfs(t)
      PROVE  LiveCidsApart'
  BY <1>8 DEF BootCopyRootfs, BootGoto, counterVars, hostVars, LiveCidsApart,
    CidFree, DistinctCids, CidsAhead, HoldsCid, StagesAgree, Booted, TypeOK,
    RequestTypeOK, VmTypeOK
<1>9. ASSUME NEW t \in Task, BootStartQemu(t)
      PROVE  LiveCidsApart'
  <2>1. /\ bootPc[t] = "qemu"
        /\ cid' = cid
    BY <1>9 DEF BootStartQemu, counterVars
  <2>2. CASE /\ bootPc' = [bootPc EXCEPT ![t] = "socket"]
             /\ qemu' = [qemu EXCEPT ![t] = "on"]
             /\ CidFree(t)
    BY <2>1, <2>2 DEF LiveCidsApart, CidFree, DistinctCids, HoldsCid, TypeOK,
      RequestTypeOK, VmTypeOK
  <2>3. CASE /\ bootPc' = [bootPc EXCEPT ![t] = "failed"]
             /\ UNCHANGED qemu
    BY <2>1, <2>3 DEF LiveCidsApart, CidFree, TypeOK, RequestTypeOK
  <2>4. QED
    BY <1>9, <2>2, <2>3 DEF BootStartQemu, BootGoto, hostVars
<1>10. ASSUME NEW t \in Task, BootWaitForSocket(t)
      PROVE  LiveCidsApart'
  BY <1>10 DEF BootWaitForSocket, BootGoto, counterVars, hostVars,
    LiveCidsApart, CidFree, DistinctCids, CidsAhead, HoldsCid, StagesAgree,
    Booted, TypeOK, RequestTypeOK, VmTypeOK
<1>11. ASSUME NEW t \in Task, BootTrack(t)
      PROVE  LiveCidsApart'
  BY <1>11 DEF BootTrack, BootGoto, counterVars, hostVars, LiveCidsApart,
    CidFree, DistinctCids, CidsAhead, HoldsCid, StagesAgree, Booted, TypeOK,
    RequestTypeOK, VmTypeOK
<1>12. ASSUME NEW t \in Task, BootMarkRunning(t)
      PROVE  LiveCidsApart'
  BY <1>12 DEF BootMarkRunning, update_task_status, NewVmIds, BootGoto,
    counterVars, hostVars, LiveCidsApart, CidFree, DistinctCids, CidsAhead,
    HoldsCid, StagesAgree, Booted, TypeOK, RequestTypeOK, VmTypeOK
<1>13. ASSUME NEW t \in Task, BootStoreIp(t)
      PROVE  LiveCidsApart'
  BY <1>13 DEF BootStoreIp, BootGoto, counterVars, hostVars, LiveCidsApart,
    CidFree, DistinctCids, CidsAhead, HoldsCid, StagesAgree, Booted, TypeOK,
    RequestTypeOK, VmTypeOK
<1>14. ASSUME NEW t \in Task, BootStartRelay(t)
      PROVE  LiveCidsApart'
  BY <1>14 DEF BootStartRelay, BootGoto, counterVars, hostVars, LiveCidsApart,
    CidFree, DistinctCids, CidsAhead, HoldsCid, StagesAgree, Booted, TypeOK,
    RequestTypeOK, VmTypeOK
<1>15. ASSUME NEW t \in Task, BootFail(t)
      PROVE  LiveCidsApart'
  BY <1>15 DEF BootFail, complete_task, BootGoto, counterVars, hostVars,
    LiveCidsApart, CidFree, DistinctCids, CidsAhead, HoldsCid, StagesAgree,
    Booted, TypeOK, RequestTypeOK, VmTypeOK
<1>16. ASSUME NEW t \in Task, GuestStops(t)
      PROVE  LiveCidsApart'
  BY <1>16 DEF GuestStops, counterVars, hostVars, LiveCidsApart, CidFree,
    DistinctCids, CidsAhead, HoldsCid, StagesAgree, Booted, TypeOK,
    RequestTypeOK, VmTypeOK
<1>17. ASSUME NEW t \in Task, OperatorSuspends(t)
      PROVE  LiveCidsApart'
  BY <1>17 DEF OperatorSuspends, counterVars, hostVars, LiveCidsApart,
    CidFree, DistinctCids, CidsAhead, HoldsCid, StagesAgree, Booted, TypeOK,
    RequestTypeOK, VmTypeOK
<1>18. ASSUME NEW d \in Deleter, StopQuit(d)
      PROVE  LiveCidsApart'
  BY <1>18 DEF StopQuit, counterVars, hostVars, LiveCidsApart, CidFree,
    DistinctCids, CidsAhead, HoldsCid, StagesAgree, Booted, TypeOK,
    RequestTypeOK, VmTypeOK
<1>19. ASSUME NEW r \in Resumer, ResumeCont(r)
      PROVE  LiveCidsApart'
  BY <1>19 DEF ResumeCont, QmpFails, counterVars, hostVars, LiveCidsApart,
    CidFree, DistinctCids, CidsAhead, HoldsCid, StagesAgree, Booted, TypeOK,
    RequestTypeOK, VmTypeOK
<1>20. CASE Restart
  BY <1>20 DEF Restart, counterVars, hostVars, LiveCidsApart, CidFree,
    DistinctCids, CidsAhead, HoldsCid, StagesAgree, Booted, TypeOK,
    RequestTypeOK, VmTypeOK
<1>21. QED
  BY <1>1, <1>2, <1>3, <1>4, <1>5, <1>6, <1>7, <1>8, <1>9, <1>10, <1>11,
    <1>12, <1>13, <1>14, <1>15, <1>16, <1>17, <1>18, <1>19, <1>20 DEF Next,
    CreateStep, BootStep, DeleteStep, ResumeStep, vars, CreateInsert,
    CreateGuild, CreateMarkStarting, CreateCancelled, WsOpen, get_or_create,
    DeleteBegin, ResumeBegin, Resumable, StopUntrack, RemoveVm, StopDeleteTap,
    StopRemoveFiles, CleanedUp, DeleteMark, DeleteReply, DeleteCancelled,
    ResumeLookUp, ResumeMark, ResumeCancelled, counterVars, hostVars

(* Without a restart the counter only grows. *)
LEMMA FreshCidsStep ==
  ASSUME TypeOK, FreshCids, [Next]_vars
  PROVE  FreshCids'
<1>1. CASE UNCHANGED <<bootPc, nextCid, cid, restarts>>
  BY <1>1 DEF FreshCids, TypeOK, RequestTypeOK, VmTypeOK
<1>2. ASSUME NEW t \in Task, CreateSpawn(t)
      PROVE  FreshCids'
  BY <1>2 DEF CreateSpawn, get_or_create, counterVars, historyVars, FreshCids,
    TypeOK, RequestTypeOK, VmTypeOK
<1>3. ASSUME NEW t \in Task, BootTakeCid(t)
      PROVE  FreshCids'
  BY <1>3 DEF BootTakeCid, NextCid, BootGoto, counterVars, historyVars,
    FreshCids, TypeOK, RequestTypeOK, VmTypeOK
<1>4. ASSUME NEW t \in Task, BootTakeIp(t)
      PROVE  FreshCids'
  BY <1>4 DEF BootTakeIp, PastRange, BootGoto, counterVars, historyVars,
    FreshCids, TypeOK, RequestTypeOK, VmTypeOK
<1>5. ASSUME NEW t \in Task, BootWrapIp(t)
      PROVE  FreshCids'
  BY <1>5 DEF BootWrapIp, BootGoto, counterVars, historyVars, FreshCids,
    TypeOK, RequestTypeOK, VmTypeOK
<1>6. ASSUME NEW t \in Task, BootCreateTap(t)
      PROVE  FreshCids'
  BY <1>6 DEF BootCreateTap, TapFree, BootGoto, counterVars, historyVars,
    FreshCids, TypeOK, RequestTypeOK, VmTypeOK
<1>7. ASSUME NEW t \in Task, BootCreateVolume(t)
      PROVE  FreshCids'
  BY <1>7 DEF BootCreateVolume, BootGoto, counterVars, historyVars, FreshCids,
    TypeOK, RequestTypeOK, VmTypeOK
<1>8. ASSUME NEW t \in Task, BootCopyRootfs(t)
      PROVE  FreshCids'
  BY <1>8 DEF BootCopyRootfs, BootGoto, counterVars, historyVars, FreshCids,
    TypeOK, RequestTypeOK, VmTypeOK
<1>9. ASSUME NEW t \in Task, BootStartQemu(t)
      PROVE  FreshCids'
  BY <1>9 DEF BootStartQemu, delete_tap, BootGoto, counterVars, historyVars,
    FreshCids, TypeOK, RequestTypeOK, VmTypeOK
<1>10. ASSUME NEW t \in Task, BootWaitForSocket(t)
      PROVE  FreshCids'
  BY <1>10 DEF BootWaitForSocket, BootGoto, counterVars, historyVars,
    FreshCids, TypeOK, RequestTypeOK, VmTypeOK
<1>11. ASSUME NEW t \in Task, BootTrack(t)
      PROVE  FreshCids'
  BY <1>11 DEF BootTrack, BootGoto, counterVars, historyVars, FreshCids,
    TypeOK, RequestTypeOK, VmTypeOK
<1>12. ASSUME NEW t \in Task, BootMarkRunning(t)
      PROVE  FreshCids'
  BY <1>12 DEF BootMarkRunning, update_task_status, NewVmIds, BootGoto,
    counterVars, historyVars, FreshCids, TypeOK, RequestTypeOK, VmTypeOK
<1>13. ASSUME NEW t \in Task, BootStoreIp(t)
      PROVE  FreshCids'
  BY <1>13 DEF BootStoreIp, BootGoto, counterVars, historyVars, FreshCids,
    TypeOK, RequestTypeOK, VmTypeOK
<1>14. ASSUME NEW t \in Task, BootStartRelay(t)
      PROVE  FreshCids'
  BY <1>14 DEF BootStartRelay, BootGoto, counterVars, historyVars, FreshCids,
    TypeOK, RequestTypeOK, VmTypeOK
<1>15. ASSUME NEW t \in Task, BootFail(t)
      PROVE  FreshCids'
  BY <1>15 DEF BootFail, complete_task, BootGoto, counterVars, historyVars,
    FreshCids, TypeOK, RequestTypeOK, VmTypeOK
<1>16. CASE Restart
  BY <1>16 DEF Restart, counterVars, historyVars, FreshCids, TypeOK,
    RequestTypeOK, VmTypeOK
<1>17. QED
  BY <1>1, <1>2, <1>3, <1>4, <1>5, <1>6, <1>7, <1>8, <1>9, <1>10, <1>11,
    <1>12, <1>13, <1>14, <1>15, <1>16 DEF Next, CreateStep, BootStep,
    DeleteStep, ResumeStep, vars, CreateInsert, CreateGuild,
    CreateMarkStarting, CreateCancelled, WsOpen, get_or_create, GuestStops,
    OperatorSuspends, DeleteBegin, ResumeBegin, Resumable, StopUntrack,
    RemoveVm, StopQuit, StopDeleteTap, StopRemoveFiles, CleanedUp, DeleteMark,
    DeleteReply, DeleteCancelled, ResumeLookUp, ResumeCont, QmpFails,
    ResumeMark, ResumeCancelled, counterVars, historyVars

(* The invariant holds initially. *)
LEMMA InitIInv == Init => IInv
<1> SUFFICES ASSUME Init PROVE IInv
  OBVIOUS
<1>1. TypeOK
  BY ConstantsAssumption DEF Init, TypeOK, RowTypeOK, RequestTypeOK, VmTypeOK,
    Status, CreatePc, BootPc, DeletePc, ResumePc, File
<1>2. StagesAgree /\ RowNamesVm
  BY DEF Init, StagesAgree, RowNamesVm, Booted
<1>3. OneTeardown /\ TapNotStolen
  BY DEF Init, OneTeardown, TapNotStolen, TearsDown, Building
<1>4. DistinctCids /\ CidsAhead /\ LiveCidsApart /\ FreshCids
  BY DEF Init, DistinctCids, CidsAhead, LiveCidsApart, FreshCids, HoldsCid
<1>5. QED
  BY <1>1, <1>2, <1>3, <1>4 DEF IInv

(* The variables always hold values of their types. *)
THEOREM TypeCorrect == Spec => []TypeOK
<1>1. Init => TypeOK
  BY InitIInv DEF IInv
<1>2. TypeOK /\ [Next]_vars => TypeOK'
  BY TypeOKStep
<1>3. QED
  BY <1>1, <1>2, PTL DEF Spec

(* The inductive invariant holds in every reachable state. *)
THEOREM Invariance == Spec => []IInv
<1>1. IInv /\ [Next]_vars => IInv'
  BY TypeOKStep, StagesAgreeStep, RowNamesVmStep, OneTeardownStep,
     TapNotStolenStep, DistinctCidsStep, LiveCidsApartStep, FreshCidsStep
     DEF IInv
<1>2. QED
  BY InitIInv, <1>1, PTL DEF Spec

(* Concurrent DELETEs never dismantle one VM twice (VmManager::stop_vm). *)
THEOREM TeardownOnce == Spec => []OneTeardown
<1>1. IInv => OneTeardown
  BY DEF IInv
<1>2. QED
  BY Invariance, <1>1, PTL

(* delete_task finds every VM in the map through its row. *)
THEOREM TrackedDeletable == Spec => []TrackedIsDeletable
<1>1. IInv => TrackedIsDeletable
  BY DEF IInv, TrackedIsDeletable, StagesAgree, RowNamesVm, Booted, TypeOK,
    RequestTypeOK, VmTypeOK
<1>2. QED
  BY Invariance, <1>1, PTL

(* delete_tap never takes the TAP of another task's VM, whatever the names. *)
THEOREM TapsKept == Spec => []TapNotStolen
<1>1. IInv => TapNotStolen
  BY DEF IInv
<1>2. QED
  BY Invariance, <1>1, PTL

(* The CIDs of booting and tracked VMs are distinct across restarts. *)
THEOREM CidsDistinct == Spec => []DistinctCids
<1>1. IInv => DistinctCids
  BY DEF IInv
<1>2. QED
  BY Invariance, <1>1, PTL

(* VsockRelay::start connects to the VM of its own task or to none. *)
THEOREM RelayOwnVm == Spec => []RelayReachesOwnVm
<1>1. IInv => RelayReachesOwnVm
  BY DEF IInv, RelayReachesOwnVm, LiveCidsApart, CidFree, AnswersOn, RelayCid
<1>2. QED
  BY Invariance, <1>1, PTL

(* Without the failures that have no cleanup, and without a restart, a
   resource only changes owner: boot job, map, DELETE. *)
LEMMA EveryResourceHasOwnerStep ==
  ASSUME Events \intersect Leaky = {}, restarts = 0, IInv,
         EveryResourceHasOwner, [Next]_vars, ~Restart
  PROVE  EveryResourceHasOwner'
<1>0. TypeOK /\ StagesAgree /\ OneTeardown /\ FreshCids
  BY DEF IInv
<1>1. CASE UNCHANGED <<bootPc, deletePc, deleteOf, tracked, qemu, tapOwner, files>>
  BY <1>1, ConstantsAssumption, <1>0 DEF EveryResourceHasOwner, DeleteAt,
    Building, StagesAgree, Booted, OneTeardown, TearsDown, Leaky, TapNames,
    TypeOK, RequestTypeOK, VmTypeOK
<1>2. ASSUME NEW t \in Task, CreateSpawn(t)
      PROVE  EveryResourceHasOwner'
  BY <1>2, ConstantsAssumption, <1>0 DEF CreateSpawn, get_or_create,
    deleteVars, mapVars, hostVars, EveryResourceHasOwner, DeleteAt, Building,
    StagesAgree, Booted, OneTeardown, TearsDown, Leaky, TapNames, TypeOK,
    RequestTypeOK, VmTypeOK
<1>3. ASSUME NEW t \in Task, BootTakeCid(t)
      PROVE  EveryResourceHasOwner'
  BY <1>3, ConstantsAssumption, <1>0 DEF BootTakeCid, NextCid, BootGoto,
    deleteVars, mapVars, hostVars, EveryResourceHasOwner, DeleteAt, Building,
    StagesAgree, Booted, OneTeardown, TearsDown, Leaky, TapNames, TypeOK,
    RequestTypeOK, VmTypeOK
<1>4. ASSUME NEW t \in Task, BootTakeIp(t)
      PROVE  EveryResourceHasOwner'
  BY <1>4, ConstantsAssumption, <1>0 DEF BootTakeIp, PastRange, BootGoto,
    deleteVars, mapVars, hostVars, EveryResourceHasOwner, DeleteAt, Building,
    StagesAgree, Booted, OneTeardown, TearsDown, Leaky, TapNames, TypeOK,
    RequestTypeOK, VmTypeOK
<1>5. ASSUME NEW t \in Task, BootWrapIp(t)
      PROVE  EveryResourceHasOwner'
  BY <1>5, ConstantsAssumption, <1>0 DEF BootWrapIp, BootGoto, deleteVars,
    mapVars, hostVars, EveryResourceHasOwner, DeleteAt, Building, StagesAgree,
    Booted, OneTeardown, TearsDown, Leaky, TapNames, TypeOK, RequestTypeOK,
    VmTypeOK
<1>6. ASSUME NEW t \in Task, BootCreateTap(t)
      PROVE  EveryResourceHasOwner'
  BY <1>6, ConstantsAssumption, <1>0 DEF BootCreateTap, TapFree, BootGoto,
    deleteVars, mapVars, hostVars, EveryResourceHasOwner, DeleteAt, Building,
    StagesAgree, Booted, OneTeardown, TearsDown, Leaky, TapNames, TypeOK,
    RequestTypeOK, VmTypeOK
<1>7. ASSUME NEW t \in Task, BootCreateVolume(t)
      PROVE  EveryResourceHasOwner'
  BY <1>7, ConstantsAssumption, <1>0 DEF BootCreateVolume, BootGoto,
    deleteVars, mapVars, hostVars, EveryResourceHasOwner, DeleteAt, Building,
    StagesAgree, Booted, OneTeardown, TearsDown, Leaky, TapNames, TypeOK,
    RequestTypeOK, VmTypeOK
<1>8. ASSUME NEW t \in Task, BootCopyRootfs(t)
      PROVE  EveryResourceHasOwner'
  BY <1>8, ConstantsAssumption, <1>0 DEF BootCopyRootfs, BootGoto, deleteVars,
    mapVars, hostVars, EveryResourceHasOwner, DeleteAt, Building, StagesAgree,
    Booted, OneTeardown, TearsDown, Leaky, TapNames, TypeOK, RequestTypeOK,
    VmTypeOK
<1>9. ASSUME NEW t \in Task, BootStartQemu(t)
      PROVE  EveryResourceHasOwner'
  <2>1. "qemu" \notin Events
    BY DEF Leaky
  <2>2. CASE CidFree(t)
    <3>1. /\ bootPc[t] = "qemu"
          /\ bootPc' = [bootPc EXCEPT ![t] = "socket"]
          /\ UNCHANGED <<tapOwner, tracked, deletePc, deleteOf>>
          /\ \A u \in Task \ {t} : qemu'[u] = qemu[u] /\ files'[u] = files[u]
      BY <1>9, <2>1, <2>2, <1>0 DEF BootStartQemu, BootGoto, mapVars,
        deleteVars, TypeOK, VmTypeOK, RequestTypeOK
    <3>2. QED
      BY <3>1, <1>0 DEF EveryResourceHasOwner, Building, DeleteAt, TypeOK,
        RequestTypeOK, VmTypeOK
  <2>3. CASE ~CidFree(t)
    <3>1. PICK u \in Task \ {t} : qemu[u] # "off" /\ cid[u] = cid[t]
      BY <2>3 DEF CidFree
    <3>2. bootPc[u] \notin {"none", "cid"} /\ bootPc[t] \notin {"none", "cid"}
      BY <1>9, <3>1, <1>0 DEF BootStartQemu, StagesAgree, Booted
    <3>3. QED
      BY <3>1, <3>2, <1>0 DEF FreshCids
  <2>4. QED
    BY <2>2, <2>3
<1>10. ASSUME NEW t \in Task, BootWaitForSocket(t)
      PROVE  EveryResourceHasOwner'
  BY <1>10, ConstantsAssumption, <1>0 DEF BootWaitForSocket, BootGoto,
    deleteVars, mapVars, hostVars, EveryResourceHasOwner, DeleteAt, Building,
    StagesAgree, Booted, OneTeardown, TearsDown, Leaky, TapNames, TypeOK,
    RequestTypeOK, VmTypeOK
<1>11. ASSUME NEW t \in Task, BootTrack(t)
      PROVE  EveryResourceHasOwner'
  BY <1>11, ConstantsAssumption, <1>0 DEF BootTrack, BootGoto, deleteVars,
    mapVars, hostVars, EveryResourceHasOwner, DeleteAt, Building, StagesAgree,
    Booted, OneTeardown, TearsDown, Leaky, TapNames, TypeOK, RequestTypeOK,
    VmTypeOK
<1>12. ASSUME NEW t \in Task, BootMarkRunning(t)
      PROVE  EveryResourceHasOwner'
  BY <1>12, ConstantsAssumption, <1>0 DEF BootMarkRunning, update_task_status,
    NewVmIds, BootGoto, deleteVars, mapVars, hostVars, EveryResourceHasOwner,
    DeleteAt, Building, StagesAgree, Booted, OneTeardown, TearsDown, Leaky,
    TapNames, TypeOK, RequestTypeOK, VmTypeOK
<1>13. ASSUME NEW t \in Task, BootStoreIp(t)
      PROVE  EveryResourceHasOwner'
  BY <1>13, ConstantsAssumption, <1>0 DEF BootStoreIp, BootGoto, deleteVars,
    mapVars, hostVars, EveryResourceHasOwner, DeleteAt, Building, StagesAgree,
    Booted, OneTeardown, TearsDown, Leaky, TapNames, TypeOK, RequestTypeOK,
    VmTypeOK
<1>14. ASSUME NEW t \in Task, BootStartRelay(t)
      PROVE  EveryResourceHasOwner'
  BY <1>14, ConstantsAssumption, <1>0 DEF BootStartRelay, BootGoto,
    deleteVars, mapVars, hostVars, EveryResourceHasOwner, DeleteAt, Building,
    StagesAgree, Booted, OneTeardown, TearsDown, Leaky, TapNames, TypeOK,
    RequestTypeOK, VmTypeOK
<1>15. ASSUME NEW t \in Task, BootFail(t)
      PROVE  EveryResourceHasOwner'
  BY <1>15, ConstantsAssumption, <1>0 DEF BootFail, complete_task, BootGoto,
    deleteVars, mapVars, hostVars, EveryResourceHasOwner, DeleteAt, Building,
    StagesAgree, Booted, OneTeardown, TearsDown, Leaky, TapNames, TypeOK,
    RequestTypeOK, VmTypeOK
<1>16. ASSUME NEW t \in Task, GuestStops(t)
      PROVE  EveryResourceHasOwner'
  BY <1>16, ConstantsAssumption, <1>0 DEF GuestStops, deleteVars, mapVars,
    hostVars, EveryResourceHasOwner, DeleteAt, Building, StagesAgree, Booted,
    OneTeardown, TearsDown, Leaky, TapNames, TypeOK, RequestTypeOK, VmTypeOK
<1>17. ASSUME NEW t \in Task, OperatorSuspends(t)
      PROVE  EveryResourceHasOwner'
  BY <1>17, ConstantsAssumption, <1>0 DEF OperatorSuspends, deleteVars,
    mapVars, hostVars, EveryResourceHasOwner, DeleteAt, Building, StagesAgree,
    Booted, OneTeardown, TearsDown, Leaky, TapNames, TypeOK, RequestTypeOK,
    VmTypeOK
<1>18. ASSUME NEW t \in Task, NEW d \in Deleter, DeleteBegin(d, t)
      PROVE  EveryResourceHasOwner'
  BY <1>18, ConstantsAssumption, <1>0 DEF DeleteBegin, deleteVars, mapVars,
    hostVars, EveryResourceHasOwner, DeleteAt, Building, StagesAgree, Booted,
    OneTeardown, TearsDown, Leaky, TapNames, TypeOK, RequestTypeOK, VmTypeOK
<1>19. ASSUME NEW d \in Deleter, StopUntrack(d)
      PROVE  EveryResourceHasOwner'
  BY <1>19, ConstantsAssumption, <1>0 DEF StopUntrack, RemoveVm, DeleteGoto,
    deleteVars, mapVars, hostVars, EveryResourceHasOwner, DeleteAt, Building,
    StagesAgree, Booted, OneTeardown, TearsDown, Leaky, TapNames, TypeOK,
    RequestTypeOK, VmTypeOK
<1>20. ASSUME NEW d \in Deleter, StopQuit(d)
      PROVE  EveryResourceHasOwner'
  BY <1>20, ConstantsAssumption, <1>0 DEF StopQuit, DeleteGoto, deleteVars,
    mapVars, hostVars, EveryResourceHasOwner, DeleteAt, Building, StagesAgree,
    Booted, OneTeardown, TearsDown, Leaky, TapNames, TypeOK, RequestTypeOK,
    VmTypeOK
<1>21. ASSUME NEW d \in Deleter, StopDeleteTap(d)
      PROVE  EveryResourceHasOwner'
  BY <1>21, ConstantsAssumption, <1>0 DEF StopDeleteTap, delete_tap,
    DeleteGoto, deleteVars, mapVars, hostVars, EveryResourceHasOwner,
    DeleteAt, Building, StagesAgree, Booted, OneTeardown, TearsDown, Leaky,
    TapNames, TypeOK, RequestTypeOK, VmTypeOK
<1>22. ASSUME NEW d \in Deleter, StopRemoveFiles(d)
      PROVE  EveryResourceHasOwner'
  BY <1>22, ConstantsAssumption, <1>0 DEF StopRemoveFiles, CleanedUp,
    DeleteGoto, deleteVars, mapVars, hostVars, EveryResourceHasOwner,
    DeleteAt, Building, StagesAgree, Booted, OneTeardown, TearsDown, Leaky,
    TapNames, TypeOK, RequestTypeOK, VmTypeOK
<1>23. ASSUME NEW d \in Deleter, DeleteMark(d)
      PROVE  EveryResourceHasOwner'
  BY <1>23, ConstantsAssumption, <1>0 DEF DeleteMark, update_task_status,
    NewVmIds, DeleteGoto, DeleteEnd, deleteVars, mapVars, hostVars,
    EveryResourceHasOwner, DeleteAt, Building, StagesAgree, Booted,
    OneTeardown, TearsDown, Leaky, TapNames, TypeOK, RequestTypeOK, VmTypeOK
<1>24. ASSUME NEW d \in Deleter, DeleteReply(d)
      PROVE  EveryResourceHasOwner'
  BY <1>24, ConstantsAssumption, <1>0 DEF DeleteReply, DeleteEnd, deleteVars,
    mapVars, hostVars, EveryResourceHasOwner, DeleteAt, Building, StagesAgree,
    Booted, OneTeardown, TearsDown, Leaky, TapNames, TypeOK, RequestTypeOK,
    VmTypeOK
<1>25. ASSUME NEW d \in Deleter, DeleteCancelled(d)
      PROVE  EveryResourceHasOwner'
  BY <1>25, ConstantsAssumption, <1>0 DEF DeleteCancelled, DeleteEnd,
    deleteVars, mapVars, hostVars, EveryResourceHasOwner, DeleteAt, Building,
    StagesAgree, Booted, OneTeardown, TearsDown, Leaky, TapNames, TypeOK,
    RequestTypeOK, VmTypeOK
<1>26. ASSUME NEW r \in Resumer, ResumeCont(r)
      PROVE  EveryResourceHasOwner'
  BY <1>26, ConstantsAssumption, <1>0 DEF ResumeCont, QmpFails, deleteVars,
    mapVars, hostVars, EveryResourceHasOwner, DeleteAt, Building, StagesAgree,
    Booted, OneTeardown, TearsDown, Leaky, TapNames, TypeOK, RequestTypeOK,
    VmTypeOK
<1>27. CASE Restart
  BY <1>27
<1>28. QED
  BY <1>1, <1>2, <1>3, <1>4, <1>5, <1>6, <1>7, <1>8, <1>9, <1>10, <1>11,
    <1>12, <1>13, <1>14, <1>15, <1>16, <1>17, <1>18, <1>19, <1>20, <1>21,
    <1>22, <1>23, <1>24, <1>25, <1>26, <1>27 DEF Next, CreateStep, BootStep,
    DeleteStep, ResumeStep, vars, CreateInsert, CreateGuild,
    CreateMarkStarting, CreateCancelled, WsOpen, get_or_create, ResumeBegin,
    Resumable, ResumeLookUp, ResumeMark, ResumeCancelled, deleteVars, mapVars,
    hostVars

(* In an instance without those failures nothing is ever leaked: every QEMU
   process, TAP and file belongs to somebody who will release it. *)
THEOREM NoLeak ==
  ASSUME Events \intersect Leaky = {}, MaxRestarts = 0
  PROVE  Spec => []EveryResourceHasOwner
<1> DEFINE NL == IInv /\ EveryResourceHasOwner /\ restarts = 0
<1>1. Init => NL
  <2>1. Init => IInv
    BY InitIInv
  <2>2. Init => EveryResourceHasOwner
    BY ConstantsAssumption DEF Init, EveryResourceHasOwner, TapNames
  <2>3. Init => restarts = 0
    BY DEF Init
  <2>4. QED
    BY <2>1, <2>2, <2>3
<1>2. NL /\ [Next]_vars => NL'
  <2> SUFFICES ASSUME NL, [Next]_vars PROVE NL'
    OBVIOUS
  <2>1. IInv'
    BY TypeOKStep, StagesAgreeStep, RowNamesVmStep, OneTeardownStep,
       TapNotStolenStep, DistinctCidsStep, LiveCidsApartStep, FreshCidsStep
       DEF IInv
  <2>2. ~Restart
    BY DEF Restart
  <2>3. restarts' = 0
    BY <2>2 DEF Next, CreateStep, BootStep, DeleteStep, ResumeStep, vars,
      historyVars, CreateInsert, CreateGuild, CreateMarkStarting, CreateSpawn,
      get_or_create, CreateCancelled, BootTakeCid, NextCid, BootTakeIp,
      PastRange, BootWrapIp, BootCreateTap, TapFree, BootCreateVolume,
      BootCopyRootfs, BootStartQemu, BootWaitForSocket, BootTrack,
      BootMarkRunning, BootStoreIp, BootStartRelay, BootFail, WsOpen,
      get_or_create, GuestStops, OperatorSuspends, DeleteBegin, ResumeBegin,
      Resumable, StopUntrack, RemoveVm, StopQuit, StopDeleteTap,
      StopRemoveFiles, CleanedUp, DeleteMark, DeleteReply, DeleteCancelled,
      ResumeLookUp, ResumeCont, QmpFails, ResumeMark, ResumeCancelled
  <2>4. QED
    BY <2>1, <2>2, <2>3, EveryResourceHasOwnerStep
<1>3. NL => EveryResourceHasOwner
  OBVIOUS
<1>4. QED
  BY <1>1, <1>2, <1>3, PTL DEF Spec

TerminatedKept == \A t \in Task : Over(t) => Over(t)'

(* Every update that could leave terminated belongs to a create handler, a
   boot job or a resume that has not ended, and none of these starts again. *)
LEMMA TerminatedKeptStep ==
  ASSUME TypeOK, StagesAgree, [Next]_vars
  PROVE  TerminatedKept
<1>1. CASE UNCHANGED <<status, createPc, bootPc, resumeOf>>
  BY <1>1, ConstantsAssumption DEF TerminatedKept, Over, Settled, StagesAgree,
    TypeOK, RowTypeOK, RequestTypeOK
<1>2. ASSUME NEW t \in Task, CreateInsert(t)
      PROVE  TerminatedKept
  BY <1>2, ConstantsAssumption DEF CreateInsert, rowVars, resumeVars,
    TerminatedKept, Over, Settled, StagesAgree, TypeOK, RowTypeOK,
    RequestTypeOK
<1>3. ASSUME NEW t \in Task, CreateGuild(t)
      PROVE  TerminatedKept
  BY <1>3, ConstantsAssumption DEF CreateGuild, rowVars, resumeVars,
    TerminatedKept, Over, Settled, StagesAgree, TypeOK, RowTypeOK,
    RequestTypeOK
<1>4. ASSUME NEW t \in Task, CreateMarkStarting(t)
      PROVE  TerminatedKept
  BY <1>4, ConstantsAssumption DEF CreateMarkStarting, update_task_status,
    NewVmIds, rowVars, resumeVars, TerminatedKept, Over, Settled, StagesAgree,
    TypeOK, RowTypeOK, RequestTypeOK
<1>5. ASSUME NEW t \in Task, CreateSpawn(t)
      PROVE  TerminatedKept
  BY <1>5, ConstantsAssumption DEF CreateSpawn, get_or_create, rowVars,
    resumeVars, TerminatedKept, Over, Settled, StagesAgree, TypeOK, RowTypeOK,
    RequestTypeOK
<1>6. ASSUME NEW t \in Task, CreateCancelled(t)
      PROVE  TerminatedKept
  BY <1>6, ConstantsAssumption DEF CreateCancelled, rowVars, resumeVars,
    TerminatedKept, Over, Settled, StagesAgree, TypeOK, RowTypeOK,
    RequestTypeOK
<1>7. ASSUME NEW t \in Task, BootTakeCid(t)
      PROVE  TerminatedKept
  BY <1>7, ConstantsAssumption DEF BootTakeCid, NextCid, BootGoto, rowVars,
    resumeVars, TerminatedKept, Over, Settled, StagesAgree, TypeOK, RowTypeOK,
    RequestTypeOK
<1>8. ASSUME NEW t \in Task, BootTakeIp(t)
      PROVE  TerminatedKept
  BY <1>8, ConstantsAssumption DEF BootTakeIp, PastRange, BootGoto, rowVars,
    resumeVars, TerminatedKept, Over, Settled, StagesAgree, TypeOK, RowTypeOK,
    RequestTypeOK
<1>9. ASSUME NEW t \in Task, BootWrapIp(t)
      PROVE  TerminatedKept
  BY <1>9, ConstantsAssumption DEF BootWrapIp, BootGoto, rowVars, resumeVars,
    TerminatedKept, Over, Settled, StagesAgree, TypeOK, RowTypeOK,
    RequestTypeOK
<1>10. ASSUME NEW t \in Task, BootCreateTap(t)
      PROVE  TerminatedKept
  BY <1>10, ConstantsAssumption DEF BootCreateTap, TapFree, BootGoto, rowVars,
    resumeVars, TerminatedKept, Over, Settled, StagesAgree, TypeOK, RowTypeOK,
    RequestTypeOK
<1>11. ASSUME NEW t \in Task, BootCreateVolume(t)
      PROVE  TerminatedKept
  BY <1>11, ConstantsAssumption DEF BootCreateVolume, BootGoto, rowVars,
    resumeVars, TerminatedKept, Over, Settled, StagesAgree, TypeOK, RowTypeOK,
    RequestTypeOK
<1>12. ASSUME NEW t \in Task, BootCopyRootfs(t)
      PROVE  TerminatedKept
  BY <1>12, ConstantsAssumption DEF BootCopyRootfs, BootGoto, rowVars,
    resumeVars, TerminatedKept, Over, Settled, StagesAgree, TypeOK, RowTypeOK,
    RequestTypeOK
<1>13. ASSUME NEW t \in Task, BootStartQemu(t)
      PROVE  TerminatedKept
  BY <1>13, ConstantsAssumption DEF BootStartQemu, delete_tap, BootGoto,
    rowVars, resumeVars, TerminatedKept, Over, Settled, StagesAgree, TypeOK,
    RowTypeOK, RequestTypeOK
<1>14. ASSUME NEW t \in Task, BootWaitForSocket(t)
      PROVE  TerminatedKept
  BY <1>14, ConstantsAssumption DEF BootWaitForSocket, BootGoto, rowVars,
    resumeVars, TerminatedKept, Over, Settled, StagesAgree, TypeOK, RowTypeOK,
    RequestTypeOK
<1>15. ASSUME NEW t \in Task, BootTrack(t)
      PROVE  TerminatedKept
  BY <1>15, ConstantsAssumption DEF BootTrack, BootGoto, rowVars, resumeVars,
    TerminatedKept, Over, Settled, StagesAgree, TypeOK, RowTypeOK,
    RequestTypeOK
<1>16. ASSUME NEW t \in Task, BootMarkRunning(t)
      PROVE  TerminatedKept
  BY <1>16, ConstantsAssumption DEF BootMarkRunning, update_task_status,
    NewVmIds, BootGoto, rowVars, resumeVars, TerminatedKept, Over, Settled,
    StagesAgree, TypeOK, RowTypeOK, RequestTypeOK
<1>17. ASSUME NEW t \in Task, BootStoreIp(t)
      PROVE  TerminatedKept
  BY <1>17, ConstantsAssumption DEF BootStoreIp, BootGoto, rowVars,
    resumeVars, TerminatedKept, Over, Settled, StagesAgree, TypeOK, RowTypeOK,
    RequestTypeOK
<1>18. ASSUME NEW t \in Task, BootStartRelay(t)
      PROVE  TerminatedKept
  BY <1>18, ConstantsAssumption DEF BootStartRelay, BootGoto, rowVars,
    resumeVars, TerminatedKept, Over, Settled, StagesAgree, TypeOK, RowTypeOK,
    RequestTypeOK
<1>19. ASSUME NEW t \in Task, BootFail(t)
      PROVE  TerminatedKept
  BY <1>19, ConstantsAssumption DEF BootFail, complete_task, BootGoto,
    rowVars, resumeVars, TerminatedKept, Over, Settled, StagesAgree, TypeOK,
    RowTypeOK, RequestTypeOK
<1>20. ASSUME NEW t \in Task, OperatorSuspends(t)
      PROVE  TerminatedKept
  BY <1>20, ConstantsAssumption DEF OperatorSuspends, rowVars, resumeVars,
    TerminatedKept, Over, Settled, StagesAgree, TypeOK, RowTypeOK,
    RequestTypeOK
<1>21. ASSUME NEW t \in Task, NEW r \in Resumer, ResumeBegin(r, t)
      PROVE  TerminatedKept
  BY <1>21, ConstantsAssumption DEF ResumeBegin, Resumable, rowVars,
    resumeVars, TerminatedKept, Over, Settled, StagesAgree, TypeOK, RowTypeOK,
    RequestTypeOK
<1>22. ASSUME NEW d \in Deleter, DeleteMark(d)
      PROVE  TerminatedKept
  BY <1>22, ConstantsAssumption DEF DeleteMark, update_task_status, NewVmIds,
    rowVars, resumeVars, TerminatedKept, Over, Settled, StagesAgree, TypeOK,
    RowTypeOK, RequestTypeOK
<1>23. ASSUME NEW r \in Resumer, ResumeLookUp(r)
      PROVE  TerminatedKept
  BY <1>23, ConstantsAssumption DEF ResumeLookUp, ResumeGoto, ResumeEnd,
    rowVars, resumeVars,
    TerminatedKept, Over, Settled, StagesAgree, TypeOK, RowTypeOK,
    RequestTypeOK
<1>24. ASSUME NEW r \in Resumer, ResumeCont(r)
      PROVE  TerminatedKept
  BY <1>24, ConstantsAssumption DEF ResumeCont, QmpFails, ResumeGoto,
    ResumeEnd, rowVars, resumeVars, TerminatedKept, Over, Settled,
    StagesAgree, TypeOK, RowTypeOK, RequestTypeOK
<1>25. ASSUME NEW r \in Resumer, ResumeMark(r)
      PROVE  TerminatedKept
  BY <1>25, ConstantsAssumption DEF ResumeMark, ResumeEnd,
    update_task_status, NewVmIds, rowVars,
    resumeVars, TerminatedKept, Over, Settled, StagesAgree, TypeOK, RowTypeOK,
    RequestTypeOK
<1>26. ASSUME NEW r \in Resumer, ResumeCancelled(r)
      PROVE  TerminatedKept
  BY <1>26, ConstantsAssumption DEF ResumeCancelled, ResumeEnd,
    rowVars, resumeVars,
    TerminatedKept, Over, Settled, StagesAgree, TypeOK, RowTypeOK,
    RequestTypeOK
<1>27. CASE Restart
  BY <1>27, ConstantsAssumption DEF Restart, rowVars, resumeVars,
    TerminatedKept, Over, Settled, StagesAgree, TypeOK, RowTypeOK,
    RequestTypeOK
<1>28. QED
  BY <1>1, <1>2, <1>3, <1>4, <1>5, <1>6, <1>7, <1>8, <1>9, <1>10, <1>11,
    <1>12, <1>13, <1>14, <1>15, <1>16, <1>17, <1>18, <1>19, <1>20, <1>21,
    <1>22, <1>23, <1>24, <1>25, <1>26, <1>27 DEF Next, CreateStep, BootStep,
    DeleteStep, ResumeStep, vars, WsOpen, get_or_create, GuestStops,
    DeleteBegin, StopUntrack, RemoveVm, StopQuit, StopDeleteTap,
    StopRemoveFiles, CleanedUp, DeleteReply, DeleteCancelled, rowVars,
    resumeVars

(* A terminated task whose boot job has ended, and that no resume is working
   on, stays so. *)
THEOREM TerminatedFinal == Spec => TerminatedFinalOnceSettled
<1>1. IInv /\ [Next]_vars => [\A t \in Task : Over(t) => Over(t)']_vars
  BY TerminatedKeptStep DEF IInv, TerminatedKept
<1>2. QED
  BY <1>1, Invariance, PTL DEF Spec, TerminatedFinalOnceSettled

(* allocate_ip hands out nothing outside the range, however its two atomics
   interleave. *)
LEMMA IpStep ==
  ASSUME TypeOK, IpInRange, nextIp >= FirstIp, [Next]_vars
  PROVE  (IpInRange /\ nextIp >= FirstIp)'
<1>1. CASE UNCHANGED <<nextIp, ip>>
  BY <1>1, ConstantsAssumption DEF IpInRange, TypeOK, VmTypeOK
<1>2. ASSUME NEW t \in Task, BootTakeIp(t)
      PROVE  (IpInRange /\ nextIp >= FirstIp)'
  BY <1>2, ConstantsAssumption DEF BootTakeIp, PastRange, counterVars,
    IpInRange, TypeOK, VmTypeOK
<1>3. ASSUME NEW t \in Task, BootWrapIp(t)
      PROVE  (IpInRange /\ nextIp >= FirstIp)'
  BY <1>3, ConstantsAssumption DEF BootWrapIp, counterVars, IpInRange, TypeOK,
    VmTypeOK
<1>4. CASE Restart
  BY <1>4, ConstantsAssumption DEF Restart, counterVars, IpInRange, TypeOK,
    VmTypeOK
<1>5. QED
  BY <1>1, <1>2, <1>3, <1>4 DEF Next, CreateStep, BootStep, DeleteStep,
    ResumeStep, vars, CreateInsert, CreateGuild, CreateMarkStarting,
    CreateSpawn, get_or_create, CreateCancelled, BootTakeCid, NextCid,
    BootCreateTap, TapFree, BootCreateVolume, BootCopyRootfs, BootStartQemu,
    BootWaitForSocket, BootTrack, BootMarkRunning, BootStoreIp,
    BootStartRelay, BootFail, WsOpen, get_or_create, GuestStops,
    OperatorSuspends, DeleteBegin, ResumeBegin, Resumable, StopUntrack,
    RemoveVm, StopQuit, StopDeleteTap, StopRemoveFiles, CleanedUp, DeleteMark,
    DeleteReply, DeleteCancelled, ResumeLookUp, ResumeCont, QmpFails,
    ResumeMark, ResumeCancelled, counterVars

(* Every address handed out is in FirstIp .. LastIp. *)
THEOREM IpsInRange == Spec => []IpInRange
<1> DEFINE R == IpInRange /\ nextIp >= FirstIp
<1>1. Init => R
  BY ConstantsAssumption DEF Init, IpInRange
<1>2. TypeOK /\ R /\ [Next]_vars => R'
  BY IpStep
<1>3. R => IpInRange
  OBVIOUS
<1>4. QED
  BY <1>1, <1>2, <1>3, TypeCorrect, PTL DEF Spec

(* A job has a channel from its spawn to the end of a DELETE: only CreateSpawn makes a
   job, only a DELETE that acknowledges and a restart remove channels. *)
LEMMA ChannelStep ==
  ASSUME TypeOK, ChannelUntilStopped, [Next]_vars
  PROVE  ChannelUntilStopped'
<1>1. CASE UNCHANGED <<bootPc, channels, acked, restarts>>
  BY <1>1 DEF ChannelUntilStopped
<1>2. ASSUME NEW t \in Task, CreateSpawn(t)
      PROVE  ChannelUntilStopped'
  BY <1>2 DEF CreateSpawn, get_or_create, historyVars, ChannelUntilStopped, TypeOK, RequestTypeOK
<1>3. ASSUME NEW t \in Task, BootStep(t)
      PROVE  ChannelUntilStopped'
  <2>1. /\ bootPc[t] # "none" /\ UNCHANGED <<channels, acked, restarts>>
        /\ \E pc \in BootPc : bootPc' = [bootPc EXCEPT ![t] = pc]
    BY <1>3 DEF BootStep, BootTakeCid, BootTakeIp, BootWrapIp, BootCreateTap,
      BootCreateVolume, BootCopyRootfs, BootStartQemu, BootWaitForSocket, BootTrack,
      BootMarkRunning, BootStoreIp, BootStartRelay, BootFail, BootGoto, historyVars, BootPc
  <2>2. \A u \in Task : bootPc'[u] # "none" => bootPc[u] # "none"
    BY <2>1 DEF TypeOK, RequestTypeOK
  <2>3. QED
    BY <2>1, <2>2 DEF ChannelUntilStopped
<1>4. ASSUME NEW t \in Task, WsOpen(t)
      PROVE  ChannelUntilStopped'
  BY <1>4 DEF WsOpen, get_or_create, historyVars, ChannelUntilStopped
<1>5. ASSUME NEW d \in Deleter, DeleteReply(d)
      PROVE  ChannelUntilStopped'
  BY <1>5 DEF DeleteReply, ChannelUntilStopped
<1>6. CASE Restart
  <2>1. restarts' # 0
    BY <1>6 DEF Restart, TypeOK, VmTypeOK
  <2>2. QED
    BY <2>1 DEF ChannelUntilStopped
<1>7. QED
  BY <1>1, <1>2, <1>3, <1>4, <1>5, <1>6 DEF Next, CreateStep, DeleteStep, ResumeStep,
    vars, historyVars, CreateInsert, CreateGuild, CreateMarkStarting, CreateCancelled,
    GuestStops, OperatorSuspends, DeleteBegin, ResumeBegin, StopUntrack, StopQuit,
    StopDeleteTap, StopRemoveFiles, DeleteMark, DeleteCancelled, ResumeLookUp, ResumeCont,
    ResumeMark, ResumeCancelled

(* Until the process restarts, the output of a job finds its channel until a DELETE of
   its task has run to its end. *)
THEOREM ChannelKept == Spec => []ChannelUntilStopped
<1>1. Init => ChannelUntilStopped
  BY DEF Init, ChannelUntilStopped
<1>2. TypeOK /\ ChannelUntilStopped /\ [Next]_vars => ChannelUntilStopped'
  BY ChannelStep
<1>3. QED
  BY <1>1, <1>2, TypeCorrect, PTL DEF Spec
=============================================================================
