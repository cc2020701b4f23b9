----------------------------- MODULE WebUiProofs -----------------------------
(***************************************************************************)
(* Proofs about WebUi, for any number of tasks, visits, lines and faults:  *)
(* what the page shows, whom it types to and which sockets it keeps,       *)
(* whatever answers come late.                                             *)
(***************************************************************************)
EXTENDS WebUi, SequenceTheorems, TLAPS

SocketState == {"none", "connecting", "open", "closing", "aborting", "closed"}
GetState    == {"none", "asked", "found", "failed", "done"}

(* The types, variable by variable group, with what ties the groups together: a visit  *)
(* that was asked for was made; only an answer makes a socket; a socket the server     *)
(* knows of is live, and nothing is on its way to one it does not know of.             *)
ServerOK ==
  /\ row \in [Task -> TaskStatus] /\ \A t \in Task : row[t] # "none"
  /\ outputs \in [Task -> 0 .. MaxOutputs]
  /\ stage \in [Task -> {"booting", "row", "early exit", "ready", "failed", "exited"}]
  /\ stopping \in [Task -> {"no", "asked", "stopped", "failed"}]
RouteOK ==
  /\ path \in Visit \cup {None} /\ path <= Len(visits)
  /\ visits \in Seq(Task) /\ instance \in Seq(Visit) /\ Len(instance) = Len(visits)
GetOK ==
  /\ getPc \in [Visit -> GetState] /\ snapshot \in [Visit -> TaskStatus]
  /\ \A v \in Visit : /\ getPc[v] # "none" => v <= Len(visits)
                      /\ getPc[v] = "found" => snapshot[v] # "none"
SocketOK ==
  /\ wsRef \in [Visit -> Visit \cup {None}]
  /\ socket \in [Visit -> SocketState]
  /\ subscribed \subseteq Visit
  /\ \A v \in Visit : /\ getPc[v] # "done" => socket[v] = "none"
                      /\ v \in subscribed => Live(v)
InboxOK ==
  /\ inbox \in [Visit -> Seq(WsMessage)]
  /\ \A v \in Visit : v \notin subscribed => inbox[v] = <<>>
StoreOK ==
  /\ task = NoTask \/ (task.id \in Task /\ task.status \in TaskStatus \ {"none"})
  /\ connectionStatus \in {"idle", "loading", "error", "connected"}
  /\ ws \in Visit \cup {None} /\ ws <= Len(visits)
  /\ shown \in Seq(Task \X (1 .. MaxOutputs))
  /\ strays \subseteq Visit
UiTypeOK == ServerOK /\ RouteOK /\ GetOK /\ SocketOK /\ InboxOK /\ StoreOK

(* What the assumption says of the constants. *)
LEMMA Constants ==
  /\ MaxVisits \in Nat /\ MaxOutputs \in Nat
  /\ Visit \subseteq Nat \ {0} /\ None \notin Visit
BY UiAssumption DEF Visit, None

(* The types hold before the first page. *)
LEMMA TypeInit == Init => UiTypeOK
<1> SUFFICES ASSUME Init PROVE UiTypeOK
  OBVIOUS
<1>1. ServerOK
  BY Constants, UiAssumption DEF Init, ServerOK, TaskStatus
<1>2. RouteOK
  BY Constants DEF Init, RouteOK, None
<1>3. GetOK
  BY DEF Init, GetOK, GetState, TaskStatus
<1>4. SocketOK /\ InboxOK
  BY DEF Init, SocketOK, SocketState, InboxOK, Live
<1>5. StoreOK
  BY Constants DEF Init, StoreOK, None
<1> QED BY <1>1, <1>2, <1>3, <1>4, <1>5 DEF UiTypeOK

(* A visit that was made has a task and a page. *)
LEMMA VisitMade ==
  ASSUME RouteOK, NEW v \in Visit, v <= Len(visits)
  PROVE  TaskOf(v) \in Task /\ instance[v] \in Visit
BY Constants DEF RouteOK, TaskOf

(* The socket that a cleanup closes. *)
Held == IF path = None THEN None ELSE wsRef[instance[path]]

(* A cleanup closes the held socket and forgets it, and does nothing else. *)
LEMMA CleanupIs ==
  ASSUME UiTypeOK, Cleanup
  PROVE  /\ wsRef' \in [Visit -> Visit \cup {None}]
         /\ socket' \in [Visit -> SocketState]
         /\ inbox' \in [Visit -> Seq(WsMessage)]
         /\ subscribed' = subscribed \ {Held}
         /\ \A v \in Visit :
              /\ inbox'[v] = IF v = Held THEN <<>> ELSE inbox[v]
              /\ socket'[v] = IF v # Held THEN socket[v]
                              ELSE CASE socket[v] = "open" -> "closing"
                                     [] socket[v] = "connecting" -> "aborting"
                                     [] OTHER -> socket[v]
<1>1. /\ path # None => instance[path] \in Visit
      /\ wsRef \in [Visit -> Visit \cup {None}] /\ socket \in [Visit -> SocketState]
      /\ inbox \in [Visit -> Seq(WsMessage)] /\ subscribed \subseteq Visit
  BY VisitMade DEF UiTypeOK, RouteOK, SocketOK, InboxOK
<1>2. CASE path = None \/ Held = None
  BY <1>1, <1>2, Constants DEF Cleanup, Held
<1>3. CASE path # None /\ Held # None
  <2>1. Held \in Visit /\ Held = wsRef[instance[path]]
    BY <1>1, <1>3 DEF Held
  <2>2. /\ wsRef' = [wsRef EXCEPT ![instance[path]] = None]
        /\ inbox' = [inbox EXCEPT ![Held] = <<>>]
        /\ subscribed' = subscribed \ {Held}
        /\ socket' = [socket EXCEPT ![Held] =
             CASE socket[Held] = "open" -> "closing"
               [] socket[Held] = "connecting" -> "aborting"
               [] OTHER -> socket[Held]]
    BY <1>3, <2>1 DEF Cleanup
  <2>3. inbox' \in [Visit -> Seq(WsMessage)]
    <3>1. <<>> \in Seq(WsMessage)
      OBVIOUS
    <3> QED BY <1>1, <2>1, <2>2, <3>1
  <2> QED BY <1>1, <2>1, <2>2, <2>3 DEF SocketState
<1> QED BY <1>2, <1>3

(* What the server keeps of the tasks. *)
LEMMA ServerStep ==
  ASSUME UiTypeOK, [Next]_vars
  PROVE  ServerOK'
<1> USE DEF UiTypeOK, serverVars, clientVars, stopVars
<1>1. CASE UNCHANGED <<row, outputs, stage, stopping>>
  BY <1>1 DEF ServerOK
<1>2. ASSUME NEW t \in Task, BootRow(t)
      PROVE  ServerOK'
  BY <1>2 DEF BootRow, ServerOK, TaskStatus
<1>3. ASSUME NEW t \in Task, BootReady(t)
      PROVE  ServerOK'
  BY <1>3 DEF BootReady, ServerOK
<1>4. ASSUME NEW t \in Task, BootFails(t)
      PROVE  ServerOK'
  BY <1>4 DEF BootFails, ServerOK, TaskStatus
<1>5. ASSUME NEW t \in Task, AgentPrints(t)
      PROVE  ServerOK'
  <2>1. outputs[t] + 1 \in 0 .. MaxOutputs
    <3>1. outputs[t] \in 0 .. MaxOutputs /\ outputs[t] < MaxOutputs
      BY <1>5 DEF AgentPrints, ServerOK
    <3> QED BY <3>1, Constants
  <2>2. outputs' = [outputs EXCEPT ![t] = outputs[t] + 1]
    BY <1>5 DEF AgentPrints
  <2> QED BY <1>5, <2>1, <2>2 DEF AgentPrints, ServerOK
<1>6. ASSUME NEW t \in Task, AgentExits(t)
      PROVE  ServerOK'
  BY <1>6 DEF AgentExits, ServerOK
<1>7. ASSUME NEW t \in Task, ServerStops(t)
      PROVE  ServerOK'
  BY <1>7 DEF ServerStops, ServerOK, TaskStatus
<1>8. CASE UserStops
  <2>1. task.id \in Task
    BY <1>8 DEF UserStops, CanStop, StoreOK, NoTask
  <2> QED BY <1>8, <2>1 DEF UserStops, ServerOK
<1>9. ASSUME NEW t \in Task, StopAnswered(t)
      PROVE  ServerOK'
  BY <1>9 DEF StopAnswered, ServerOK
<1>10. ASSUME NEW v \in Visit, ServerGets(v) \/ ServerSubscribes(v) \/ GetAnswered(v) \/ GetFailed(v)
                                \/ SocketMessage(v) \/ SocketOpens(v) \/ SocketCloses(v)
       PROVE  UNCHANGED <<row, outputs, stage, stopping>>
  BY <1>10 DEF ServerGets, ServerSubscribes, GetAnswered, GetFailed, SocketMessage, SocketOpens,
               SocketCloses
<1>11. ASSUME NEW t \in Task, OpenTask(t)
       PROVE  UNCHANGED <<row, outputs, stage, stopping>>
  BY <1>11 DEF OpenTask, Visits
<1>12. CASE GoHome \/ UNCHANGED vars
  BY <1>1, <1>12 DEF GoHome, vars
<1> QED BY <1>1, <1>2, <1>3, <1>4, <1>5, <1>6, <1>7, <1>8, <1>9, <1>10, <1>11, <1>12
        DEF Next, Server, Callback, User

(* The visits: only a visit makes one, and it is the one shown then. *)
LEMMA RouteKept ==
  ASSUME [Next]_vars
  PROVE  UNCHANGED routeVars \/ (\E t \in Task : OpenTask(t)) \/ GoHome
<1> USE DEF clientVars
<1>1. ASSUME NEW t \in Task, BootRow(t) \/ BootReady(t) \/ BootFails(t) \/ AgentPrints(t)
                              \/ AgentExits(t) \/ ServerStops(t)
      PROVE  UNCHANGED routeVars
  BY <1>1 DEF BootRow, BootReady, BootFails, AgentPrints, AgentExits, ServerStops
<1>2. ASSUME NEW v \in Visit, ServerGets(v) \/ ServerSubscribes(v) \/ GetAnswered(v) \/ GetFailed(v)
                               \/ SocketMessage(v) \/ SocketOpens(v) \/ SocketCloses(v)
      PROVE  UNCHANGED routeVars
  BY <1>2 DEF ServerGets, ServerSubscribes, GetAnswered, GetFailed, SocketMessage, SocketOpens,
              SocketCloses
<1>3. ASSUME NEW t \in Task, StopAnswered(t)
      PROVE  UNCHANGED routeVars
  BY <1>3 DEF StopAnswered
<1>4. UserStops \/ UNCHANGED vars => UNCHANGED routeVars
  BY DEF UserStops, vars
<1> QED BY <1>1, <1>2, <1>3, <1>4 DEF Next, Server, Callback, User

(* To open a task is to begin the next visit. *)
LEMMA VisitIs ==
  ASSUME UiTypeOK, NEW t \in Task, OpenTask(t)
  PROVE  LET v == Len(visits) + 1 IN
         /\ v \in Visit /\ path' = v /\ Len(visits') = v
         /\ visits' \in Seq(Task) /\ instance' \in Seq(Visit) /\ Len(instance') = v
         /\ \A u \in 1 .. Len(visits) : visits'[u] = visits[u] /\ instance'[u] = instance[u]
         /\ visits'[v] = t
         /\ getPc' = [getPc EXCEPT ![v] = "asked"] /\ snapshot' = snapshot
         /\ Cleanup
         /\ task' = NoTask /\ connectionStatus' = "loading" /\ ws' = None /\ shown' = <<>>
         /\ lateStop' = FALSE /\ stale' = FALSE /\ strays' = strays
<1> DEFINE v == Len(visits) + 1
           p == IF path = None THEN v ELSE instance[path]
<1>1. /\ v \in Visit /\ visits' = Append(visits, t) /\ instance' = Append(instance, p)
      /\ visits \in Seq(Task) /\ instance \in Seq(Visit) /\ Len(instance) = Len(visits)
  BY DEF OpenTask, Visits, UiTypeOK, RouteOK
<1>2. p \in Visit
  <2>1. CASE path # None
    BY <2>1, VisitMade DEF UiTypeOK, RouteOK
  <2> QED BY <1>1, <2>1
<1> HIDE DEF p
<1>3. /\ Len(visits') = v /\ visits' \in Seq(Task) /\ instance' \in Seq(Visit) /\ Len(instance') = v
      /\ \A u \in 1 .. Len(visits) : visits'[u] = visits[u] /\ instance'[u] = instance[u]
      /\ visits'[v] = t
  BY <1>1, <1>2
<1> QED BY <1>1, <1>3 DEF OpenTask, Visits, Reset

(* The router keeps its types. *)
LEMMA RouteStep ==
  ASSUME UiTypeOK, [Next]_vars
  PROVE  /\ RouteOK'
         /\ \A u \in 1 .. Len(visits) : u <= Len(visits') /\ TaskOf(u)' = TaskOf(u)
<1>1. CASE UNCHANGED routeVars
  BY <1>1 DEF routeVars, UiTypeOK, RouteOK, TaskOf
<1>2. ASSUME NEW t \in Task, OpenTask(t)
      PROVE  /\ RouteOK'
             /\ \A u \in 1 .. Len(visits) : u <= Len(visits') /\ TaskOf(u)' = TaskOf(u)
  <2>1. Len(visits) \in Nat
    BY DEF UiTypeOK, RouteOK
  <2> DEFINE v == Len(visits) + 1
  <2>2. /\ v \in Visit /\ path' = v /\ Len(visits') = v
        /\ visits' \in Seq(Task) /\ instance' \in Seq(Visit) /\ Len(instance') = v
        /\ \A u \in 1 .. Len(visits) : visits'[u] = visits[u]
    BY <1>2, VisitIs
  <2>3. v \in Nat /\ \A u \in 1 .. Len(visits) : u <= v
    BY <2>1
  <2> HIDE DEF v
  <2>4. RouteOK'
    BY <2>2, <2>3 DEF RouteOK
  <2> QED BY <2>2, <2>3, <2>4 DEF TaskOf
<1>3. CASE GoHome
  BY <1>3 DEF GoHome, UiTypeOK, RouteOK, TaskOf, None
<1> QED BY <1>1, <1>2, <1>3, RouteKept

(* The steps that are about the requests, the sockets and the store, visit by visit.   *)
OtherStep ==
  \/ \E t \in Task : BootRow(t) \/ ServerStops(t)
  \/ UserStops \/ UNCHANGED vars

(* The row changes and a stop is sent without the page. *)
LEMMA OtherKeeps ==
  ASSUME OtherStep
  PROVE  UNCHANGED <<routeVars, getVars, socketVars, storeVars, history, outputs>>
<1>1. ASSUME NEW t \in Task, BootRow(t) \/ ServerStops(t)
      PROVE  UNCHANGED <<routeVars, getVars, socketVars, storeVars, history, outputs>>
  BY <1>1 DEF BootRow, ServerStops, clientVars, socketVars
<1>2. UserStops \/ UNCHANGED vars
        => UNCHANGED <<routeVars, getVars, socketVars, storeVars, history, outputs>>
  BY DEF UserStops, serverVars, vars
<1> QED BY <1>1, <1>2 DEF OtherStep

(* A message is sent to the sockets of a task that the server knows of. *)
LEMMA Sends ==
  ASSUME [Next]_vars, NEW t \in Task,
         BootReady(t) \/ BootFails(t) \/ AgentPrints(t) \/ AgentExits(t)
  PROVE  /\ UNCHANGED clientVars
         /\ \/ UNCHANGED inbox /\ UNCHANGED outputs
            \/ Broadcast(t, [type |-> "status"]) /\ UNCHANGED outputs
            \/ Broadcast(t, [type |-> "progress"]) /\ UNCHANGED outputs
            \/ Broadcast(t, [type |-> "error"]) /\ UNCHANGED outputs
            \/ /\ Broadcast(t, [type |-> "output", of |-> t, n |-> outputs[t] + 1])
               /\ outputs[t] < MaxOutputs /\ outputs' = [outputs EXCEPT ![t] = outputs[t] + 1]
BY DEF BootReady, BootFails, AgentPrints, AgentExits

(* Requests keep their types, ... *)
LEMMA GetStep ==
  ASSUME UiTypeOK, [Next]_vars
  PROVE  GetOK'
<1>0. /\ GetOK /\ RouteOK /\ Len(visits) \in Nat
      /\ \A v \in Visit : v \in Nat
      /\ \A u \in Visit : u <= Len(visits) => u <= Len(visits')
  <2>1. Len(visits) \in Nat /\ GetOK /\ RouteOK /\ \A v \in Visit : v \in Nat \ {0}
    BY Constants DEF UiTypeOK, RouteOK
  <2>2. \A u \in 1 .. Len(visits) : u <= Len(visits')
    BY RouteStep
  <2> QED BY <2>1, <2>2
<1>1. CASE UNCHANGED getVars
  BY <1>0, <1>1 DEF getVars, GetOK
<1>2. ASSUME NEW v \in Visit, ServerGets(v)
      PROVE  GetOK'
  <2>1. row[TaskOf(v)] \in TaskStatus /\ row[TaskOf(v)] # "none"
    BY <1>0, <1>2, VisitMade DEF ServerGets, UiTypeOK, ServerOK, GetOK
  <2>2. /\ getPc[v] = "asked"
        /\ \/ getPc' = [getPc EXCEPT ![v] = "found"] /\ snapshot' = [snapshot EXCEPT ![v] = row[TaskOf(v)]]
           \/ getPc' = [getPc EXCEPT ![v] = "failed"] /\ UNCHANGED snapshot
    BY <1>2 DEF ServerGets
  <2> QED BY <1>0, <2>1, <2>2 DEF GetOK, GetState
<1>3. ASSUME NEW v \in Visit, GetAnswered(v) \/ GetFailed(v)
      PROVE  GetOK'
  <2>1. /\ getPc[v] \in {"found", "failed"} /\ getPc' = [getPc EXCEPT ![v] = "done"]
        /\ snapshot' = [snapshot EXCEPT ![v] = "none"] \/ snapshot' = snapshot
    BY <1>3 DEF GetAnswered, GetFailed
  <2> QED BY <1>0, <2>1 DEF GetOK, GetState, TaskStatus
<1>4. ASSUME NEW t \in Task, OpenTask(t)
      PROVE  GetOK'
  <2> DEFINE v == Len(visits) + 1
  <2>1. /\ v \in Visit /\ Len(visits') = v /\ getPc' = [getPc EXCEPT ![v] = "asked"]
        /\ snapshot' = snapshot
    BY <1>4, VisitIs
  <2>2. v <= Len(visits')
    BY <1>0, <2>1
  <2> HIDE DEF v
  <2> QED BY <1>0, <2>1, <2>2 DEF GetOK, GetState
<1>5. ASSUME NEW v \in Visit, ServerSubscribes(v) \/ SocketMessage(v) \/ SocketOpens(v) \/ SocketCloses(v)
      PROVE  UNCHANGED getVars
  BY <1>5 DEF ServerSubscribes, SocketMessage, SocketOpens, SocketCloses
<1>6. ASSUME NEW t \in Task, StopAnswered(t)
      PROVE  UNCHANGED getVars
  BY <1>6 DEF StopAnswered
<1>7. GoHome \/ OtherStep => UNCHANGED getVars
  BY OtherKeeps DEF GoHome
<1>8. ASSUME NEW t \in Task, BootReady(t) \/ BootFails(t) \/ AgentPrints(t) \/ AgentExits(t)
      PROVE  UNCHANGED getVars
  BY <1>8, Sends DEF clientVars
<1> QED BY <1>1, <1>2, <1>3, <1>4, <1>5, <1>6, <1>7, <1>8 DEF Next, Server, Callback, User, OtherStep

(* ... sockets theirs, ... *)
LEMMA SocketStep ==
  ASSUME UiTypeOK, [Next]_vars
  PROVE  SocketOK'
<1>0. SocketOK /\ GetOK /\ RouteOK
  BY DEF UiTypeOK
<1>1. CASE UNCHANGED <<getVars, wsRef, socket, subscribed>>
  BY <1>0, <1>1 DEF getVars, SocketOK, Live
<1>2. ASSUME NEW v \in Visit, ServerGets(v)
      PROVE  SocketOK'
  <2>1. /\ getPc[v] = "asked" /\ UNCHANGED <<wsRef, socket, subscribed>>
        /\ \A u \in Visit : getPc'[u] # "done" => getPc[u] # "done"
    BY <1>0, <1>2 DEF ServerGets, socketVars, GetOK
  <2> QED BY <1>0, <2>1 DEF SocketOK, Live
<1>3. ASSUME NEW v \in Visit, GetAnswered(v)
      PROVE  SocketOK'
  <2>1. /\ getPc[v] = "found" /\ getPc' = [getPc EXCEPT ![v] = "done"]
        /\ socket' = [socket EXCEPT ![v] = "connecting"]
        /\ wsRef' = [wsRef EXCEPT ![instance[v]] = v] /\ UNCHANGED subscribed
    BY <1>3 DEF GetAnswered
  <2> QED BY <1>0, <2>1 DEF SocketOK, GetOK, SocketState, Live
<1>4. ASSUME NEW v \in Visit, GetFailed(v)
      PROVE  SocketOK'
  <2>1. UNCHANGED <<wsRef, socket, subscribed>> /\ getPc' = [getPc EXCEPT ![v] = "done"]
    BY <1>4 DEF GetFailed, socketVars
  <2> QED BY <1>0, <2>1 DEF SocketOK, GetOK, Live
<1>5. ASSUME NEW v \in Visit, ServerSubscribes(v)
      PROVE  SocketOK'
  BY <1>0, <1>5 DEF ServerSubscribes, getVars, SocketOK, Live
<1>6. ASSUME NEW v \in Visit, SocketOpens(v) \/ SocketCloses(v)
      PROVE  SocketOK'
  <2>1. /\ UNCHANGED <<getPc, wsRef>>
        /\ \/ socket[v] = "connecting" /\ socket' = [socket EXCEPT ![v] = "open"] /\ UNCHANGED subscribed
           \/ /\ socket[v] # "none" /\ socket' = [socket EXCEPT ![v] = "closed"]
              /\ subscribed' = subscribed \ {v}
    BY <1>6 DEF SocketOpens, SocketCloses, getVars, Live
  <2> QED BY <1>0, <2>1 DEF SocketOK, SocketState, Live
<1>7. CASE Cleanup /\ (getPc' = getPc \/ \E v \in Visit : getPc' = [getPc EXCEPT ![v] = "asked"]
                                                         /\ getPc[v] = "none")
  <2>1. \A u \in Visit : getPc'[u] # "done" => getPc[u] # "done"
    BY <1>0, <1>7 DEF GetOK
  <2> QED BY <1>0, <1>7, <2>1, CleanupIs DEF SocketOK, Live
<1>8. ASSUME NEW t \in Task, OpenTask(t)
      PROVE  SocketOK'
  <2> DEFINE v == Len(visits) + 1
  <2>1. v \in Visit /\ getPc' = [getPc EXCEPT ![v] = "asked"] /\ Cleanup
    BY <1>8, VisitIs
  <2>2. getPc[v] = "none"
    <3>1. ~(v <= Len(visits))
      BY <1>0 DEF RouteOK
    <3> QED BY <1>0, <2>1, <3>1 DEF GetOK
  <2> QED BY <1>7, <2>1, <2>2
<1>9. CASE GoHome
  BY <1>7, <1>9 DEF GoHome, getVars
<1>10. ASSUME NEW v \in Visit, SocketMessage(v)
       PROVE  UNCHANGED <<getVars, wsRef, socket, subscribed>>
  BY <1>10 DEF SocketMessage
<1>11. ASSUME NEW t \in Task, StopAnswered(t)
       PROVE  UNCHANGED <<getVars, wsRef, socket, subscribed>>
  BY <1>11 DEF StopAnswered, socketVars
<1>12. OtherStep => UNCHANGED <<getVars, wsRef, socket, subscribed>>
  BY OtherKeeps DEF socketVars
<1>13. ASSUME NEW t \in Task, BootReady(t) \/ BootFails(t) \/ AgentPrints(t) \/ AgentExits(t)
       PROVE  UNCHANGED <<getVars, wsRef, socket, subscribed>>
  BY <1>13, Sends DEF clientVars
<1> QED BY <1>1, <1>2, <1>3, <1>4, <1>5, <1>6, <1>8, <1>9, <1>10, <1>11, <1>12, <1>13
        DEF Next, Server, Callback, User, OtherStep

(* What the server sends are messages of the protocol. *)
LEMMA Messages ==
  /\ \A s \in {"status", "progress", "error"} : [type |-> s] \in WsMessage
  /\ \A t \in Task, n \in 1 .. MaxOutputs : [type |-> "output", of |-> t, n |-> n] \in WsMessage
  /\ \A m \in WsMessage : m.type = "output" => m.of \in Task /\ m.n \in 1 .. MaxOutputs
BY DEF WsMessage

(* ... what is in the sockets its own, ... *)
LEMMA InboxStep ==
  ASSUME UiTypeOK, [Next]_vars
  PROVE  InboxOK'
<1>0. /\ inbox \in [Visit -> Seq(WsMessage)]
      /\ \A v \in Visit : v \notin subscribed => inbox[v] = <<>>
      /\ <<>> \in Seq(WsMessage)
  BY DEF UiTypeOK, InboxOK
<1>1. CASE UNCHANGED <<inbox, subscribed>>
  BY <1>0, <1>1 DEF InboxOK
<1>2. ASSUME NEW t \in Task, NEW m \in WsMessage, Broadcast(t, m), UNCHANGED subscribed
      PROVE  InboxOK'
  <2>1. ASSUME NEW v \in Visit
        PROVE  /\ inbox'[v] \in Seq(WsMessage)
               /\ v \notin subscribed => inbox'[v] = <<>>
    <3>1. inbox[v] \in Seq(WsMessage) /\ Append(inbox[v], m) \in Seq(WsMessage)
      BY <1>0
    <3>2. inbox'[v] = IF v \in subscribed /\ TaskOf(v) = t THEN Append(inbox[v], m) ELSE inbox[v]
      BY <1>2 DEF Broadcast
    <3> QED BY <1>0, <3>1, <3>2
  <2>2. inbox' = [v \in Visit |-> inbox'[v]]
    BY <1>2 DEF Broadcast
  <2>3. inbox' \in [Visit -> Seq(WsMessage)]
    BY <2>1, <2>2
  <2> QED BY <1>2, <2>1, <2>3 DEF InboxOK
<1>3. ASSUME NEW t \in Task, BootReady(t) \/ BootFails(t) \/ AgentPrints(t) \/ AgentExits(t)
      PROVE  InboxOK'
  <2>1. UNCHANGED subscribed
    BY <1>3, Sends DEF clientVars
  <2>2. CASE UNCHANGED inbox
    BY <1>1, <2>1, <2>2
  <2>3. \A s \in {"status", "progress", "error"} : Broadcast(t, [type |-> s]) => InboxOK'
    BY <1>2, <2>1, Messages
  <2>4. CASE Broadcast(t, [type |-> "output", of |-> t, n |-> outputs[t] + 1]) /\ outputs[t] < MaxOutputs
    <3>1. outputs[t] \in 0 .. MaxOutputs
      BY DEF UiTypeOK, ServerOK
    <3>2. outputs[t] + 1 \in 1 .. MaxOutputs
      BY <2>4, <3>1, Constants
    <3> QED BY <1>2, <2>1, <2>4, <3>2, Messages
  <2> QED BY <1>3, <2>2, <2>3, <2>4, Sends
<1>4. ASSUME NEW v \in Visit, ServerSubscribes(v)
      PROVE  InboxOK'
  <2> DEFINE all == [n \in 1 .. outputs[TaskOf(v)] |-> [type |-> "output", of |-> TaskOf(v), n |-> n]]
  <2>1. TaskOf(v) \in Task /\ outputs[TaskOf(v)] \in 0 .. MaxOutputs
    <3>1. getPc[v] = "done"
      BY <1>4 DEF ServerSubscribes, Live, UiTypeOK, SocketOK
    <3>2. v <= Len(visits)
      BY <3>1 DEF UiTypeOK, GetOK
    <3> QED BY <3>2, VisitMade DEF UiTypeOK, ServerOK
  <2>2. \A n \in 1 .. outputs[TaskOf(v)] : n \in 1 .. MaxOutputs
    BY <2>1, Constants
  <2>3. all \in Seq(WsMessage)
    BY <2>1, <2>2, Messages
  <2>4. inbox' = [inbox EXCEPT ![v] = all] /\ subscribed' = subscribed \cup {v}
    BY <1>4 DEF ServerSubscribes
  <2> HIDE DEF all
  <2> QED BY <1>0, <2>3, <2>4 DEF InboxOK
<1>5. ASSUME NEW v \in Visit, SocketCloses(v)
      PROVE  InboxOK'
  <2>1. inbox' = [inbox EXCEPT ![v] = <<>>] /\ subscribed' = subscribed \ {v}
    BY <1>5 DEF SocketCloses
  <2> QED BY <1>0, <2>1 DEF InboxOK
<1>6. ASSUME NEW v \in Visit, SocketMessage(v)
      PROVE  InboxOK'
  <2>1. inbox' = [inbox EXCEPT ![v] = Tail(inbox[v])] /\ inbox[v] # <<>> /\ UNCHANGED subscribed
    BY <1>6 DEF SocketMessage
  <2>2. v \in subscribed /\ Tail(inbox[v]) \in Seq(WsMessage)
    BY <1>0, <2>1
  <2> QED BY <1>0, <2>1, <2>2 DEF InboxOK
<1>7. CASE Cleanup
  BY <1>0, <1>7, CleanupIs DEF InboxOK
<1>8. ASSUME NEW t \in Task, OpenTask(t)
      PROVE  Cleanup
  BY <1>8 DEF OpenTask, Visits
<1>9. GoHome => Cleanup
  BY DEF GoHome
<1>10. ASSUME NEW v \in Visit, ServerGets(v) \/ GetAnswered(v) \/ GetFailed(v) \/ SocketOpens(v)
       PROVE  UNCHANGED <<inbox, subscribed>>
  BY <1>10 DEF ServerGets, GetAnswered, GetFailed, SocketOpens, socketVars
<1>11. ASSUME NEW t \in Task, StopAnswered(t)
       PROVE  UNCHANGED <<inbox, subscribed>>
  BY <1>11 DEF StopAnswered, socketVars
<1>12. OtherStep => UNCHANGED <<inbox, subscribed>>
  BY OtherKeeps DEF socketVars
<1> QED BY <1>1, <1>3, <1>4, <1>5, <1>6, <1>7, <1>8, <1>9, <1>10, <1>11, <1>12
        DEF Next, Server, Callback, User, OtherStep

(* ... and so does the store. *)
LEMMA StoreStep ==
  ASSUME UiTypeOK, [Next]_vars
  PROVE  StoreOK'
<1> USE DEF storeVars, history
<1>0. /\ StoreOK /\ RouteOK /\ Len(visits) \in Nat /\ ws \in Nat
      /\ ws <= Len(visits')
  <2>1. /\ StoreOK /\ RouteOK /\ Len(visits) \in Nat /\ ws \in Nat /\ ws <= Len(visits)
    BY Constants DEF UiTypeOK, RouteOK, StoreOK, None
  <2>2. CASE ws = 0
    <3>1. Len(visits') \in Nat
      BY RouteStep DEF RouteOK
    <3> QED BY <2>1, <2>2, <3>1
  <2>3. CASE ws # 0
    <3>1. ws \in 1 .. Len(visits)
      BY <2>1, <2>3
    <3> QED BY <2>1, <3>1, RouteStep
  <2> QED BY <2>2, <2>3
<1>1. CASE UNCHANGED <<storeVars, strays>>
  BY <1>0, <1>1 DEF StoreOK
<1>2. ASSUME NEW v \in Visit, GetAnswered(v)
      PROVE  StoreOK'
  <2>1. v <= Len(visits) /\ snapshot[v] \in TaskStatus \ {"none"} /\ TaskOf(v) \in Task
        /\ instance[v] \in Visit /\ wsRef[instance[v]] \in Visit \cup {None}
    BY <1>2, VisitMade DEF GetAnswered, UiTypeOK, GetOK, SocketOK
  <2>2. /\ task' = [id |-> TaskOf(v), status |-> snapshot[v]] /\ ws' = v
        /\ strays' = strays \cup ({wsRef[instance[v]]} \ {None}) \cup ({v} \ {path})
        /\ UNCHANGED <<connectionStatus, shown, visits>>
    BY <1>2 DEF GetAnswered, NewWs, routeVars
  <2> QED BY <1>0, <2>1, <2>2 DEF StoreOK
<1>3. ASSUME NEW v \in Visit, GetFailed(v) \/ SocketOpens(v) \/ SocketCloses(v)
      PROVE  StoreOK'
  <2>1. UNCHANGED <<task, ws, shown, strays>> /\ connectionStatus' \in {"error", "connected", "idle"}
    BY <1>3 DEF GetFailed, SocketOpens, SocketCloses
  <2> QED BY <1>0, <2>1 DEF StoreOK
<1>4. ASSUME NEW v \in Visit, SocketMessage(v)
      PROVE  StoreOK'
  <2> DEFINE m == Head(inbox[v])
  <2>1. m \in WsMessage
    BY <1>4 DEF SocketMessage, UiTypeOK, InboxOK
  <2>2. /\ task' = StatusAfter(m) /\ UNCHANGED <<ws, connectionStatus, strays>>
        /\ shown' = IF m.type = "output" THEN Append(shown, <<m.of, m.n>>) ELSE shown
    BY <1>4 DEF SocketMessage, ProcessOutput
  <2> HIDE DEF m
  <2>3. shown' \in Seq(Task \X (1 .. MaxOutputs))
    <3>1. m.type = "output" => <<m.of, m.n>> \in Task \X (1 .. MaxOutputs)
      BY <2>1, Messages
    <3> QED BY <1>0, <2>2, <3>1 DEF StoreOK
  <2>4. task' = NoTask \/ (task'.id \in Task /\ task'.status \in TaskStatus \ {"none"})
    BY <1>0, <2>2 DEF StoreOK, StatusAfter, TaskStatus
  <2> QED BY <1>0, <2>2, <2>3, <2>4 DEF StoreOK
<1>5. ASSUME NEW t \in Task, StopAnswered(t)
      PROVE  StoreOK'
  <2>1. /\ UNCHANGED <<connectionStatus, ws, shown, strays>>
        /\ task' = task \/ task' = [id |-> t, status |-> "terminated"]
    BY <1>5 DEF StopAnswered
  <2>2. task' = NoTask \/ (task'.id \in Task /\ task'.status \in TaskStatus \ {"none"})
    BY <1>0, <2>1 DEF StoreOK, TaskStatus
  <2>3. UNCHANGED visits
    BY <1>5 DEF StopAnswered, routeVars
  <2> QED BY <1>0, <2>1, <2>2, <2>3 DEF StoreOK
<1>6. ASSUME NEW t \in Task, OpenTask(t)
      PROVE  StoreOK'
  <2>1. task' = NoTask /\ connectionStatus' = "loading" /\ ws' = None /\ shown' = <<>>
        /\ strays' = strays
    BY <1>6, VisitIs
  <2>2. Len(visits') \in Nat
    BY RouteStep DEF RouteOK
  <2> QED BY <1>0, <2>1, <2>2 DEF StoreOK, None
<1>7. ASSUME NEW v \in Visit, ServerGets(v) \/ ServerSubscribes(v)
      PROVE  UNCHANGED <<storeVars, strays>>
  BY <1>7 DEF ServerGets, ServerSubscribes
<1>8. GoHome \/ OtherStep => UNCHANGED <<storeVars, strays>>
  BY OtherKeeps DEF GoHome
<1>9. ASSUME NEW t \in Task, BootReady(t) \/ BootFails(t) \/ AgentPrints(t) \/ AgentExits(t)
      PROVE  UNCHANGED <<storeVars, strays>>
  BY <1>9, Sends DEF clientVars
<1> QED BY <1>1, <1>2, <1>3, <1>4, <1>5, <1>6, <1>7, <1>8, <1>9
        DEF Next, Server, Callback, User, OtherStep

(* All types together. *)
LEMMA TypeStep == UiTypeOK /\ [Next]_vars => UiTypeOK'
BY ServerStep, RouteStep, GetStep, SocketStep, InboxStep, StoreStep DEF UiTypeOK

(* A live socket is the one that the page shown holds, or a stray. *)
OwnedInv ==
  \A v \in Visit : Live(v) /\ v \notin strays => v = path /\ wsRef[instance[path]] = v

(* The socket of the store is that of the task of the store, or that task is over. *)
InputInv ==
  ws # None => task # NoTask /\ (task.id = TaskOf(ws) \/ task.status = "terminated")

(* What a page has once its socket was made, and what is to be told of it before. *)
FoundInv ==
  path # None =>
    /\ socket[path] # "none" => task # NoTask
    /\ ~stale /\ connectionStatus = "error" => getPc[path] = "done" /\ socket[path] = "none"
    /\ ~stale /\ connectionStatus \in {"idle", "connected"} => socket[path] # "none"

(* The messages b that are on their way bring the lines of t that come after those     *)
(* shown, s, up to the last one buffered: all of them, and in order.                   *)
Feed(s, b, t, last) ==
  /\ Len(s) <= last
  /\ \A i \in DOMAIN b : b[i].type = "output" =>
       /\ b[i].of = t /\ b[i].n > Len(s) /\ b[i].n <= last
       /\ \A j \in DOMAIN b : i < j /\ b[j].type = "output" => b[i].n < b[j].n
  /\ \A n \in Len(s) + 1 .. last : \E i \in DOMAIN b : b[i].type = "output" /\ b[i].n = n

PageInv ==
  path # None /\ strays = {} =>
    /\ task # NoTask /\ ~lateStop => task.id = TaskOf(path)
    /\ \A i \in DOMAIN shown : shown[i] = <<TaskOf(path), i>>
    /\ path \in subscribed =>
         Feed(shown, inbox[path], TaskOf(path), outputs[TaskOf(path)])
    /\ path \notin subscribed /\ socket[path] \in {"none", "connecting", "open"} => shown = <<>>

UiInv == UiTypeOK /\ OwnedInv /\ InputInv /\ FoundInv /\ PageInv

(* The invariant holds before the first page. *)
LEMMA UiInit == Init => UiInv
<1> SUFFICES ASSUME Init PROVE UiInv
  OBVIOUS
<1>1. OwnedInv /\ InputInv /\ FoundInv /\ PageInv
  BY DEF Init, OwnedInv, Live, InputInv, FoundInv, PageInv, None
<1> QED BY <1>1, TypeInit DEF UiInv

(* A visit is made when nothing was asked for it, and no socket made. *)
LEMMA FreshVisit ==
  ASSUME UiTypeOK, NEW t \in Task, OpenTask(t)
  PROVE  /\ path' \in Visit /\ path' = Len(visits) + 1 /\ path' # None
         /\ socket'[path'] = "none" /\ inbox'[path'] = <<>> /\ path' \notin subscribed'
<1> DEFINE v == Len(visits) + 1
<1>1. v \in Visit /\ path' = v /\ Cleanup /\ ~(v <= Len(visits))
  <2>1. Len(visits) \in Nat
    BY DEF UiTypeOK, RouteOK
  <2>2. ~(v <= Len(visits))
    BY <2>1
  <2> QED BY <2>2, VisitIs
<1> HIDE DEF v
<1>2. socket[v] = "none" /\ v \notin subscribed /\ inbox[v] = <<>>
  <2>1. getPc[v] = "none"
    BY <1>1 DEF UiTypeOK, GetOK
  <2> QED BY <1>1, <2>1 DEF UiTypeOK, SocketOK, InboxOK, Live
<1>3. socket'[v] = "none" /\ v \notin subscribed' /\ inbox'[v] = <<>>
  BY <1>1, <1>2, CleanupIs
<1> QED BY <1>1, <1>3, Constants DEF v

(* After a cleanup all live sockets are strays. *)
LEMMA CleanupCloses ==
  ASSUME UiTypeOK, OwnedInv, Cleanup, NEW v \in Visit, Live(v)'
  PROVE  v \in strays
<1>1. v # Held /\ Live(v)
  BY CleanupIs DEF Live
<1>2. CASE v \notin strays
  BY <1>1, <1>2, Constants DEF OwnedInv, Held
<1> QED BY <1>2

(* A socket that is not closing is the shown page's, or came late. *)
LEMMA OwnedStep ==
  ASSUME UiTypeOK, OwnedInv, [Next]_vars
  PROVE  OwnedInv'
<1> USE DEF routeVars, socketVars, history
<1>1. CASE UNCHANGED <<path, instance, wsRef, socket, strays>>
  BY <1>1 DEF OwnedInv, Live
<1>2. ASSUME NEW v \in Visit, GetAnswered(v)
      PROVE  OwnedInv'
  <2>1. /\ socket' = [socket EXCEPT ![v] = "connecting"] /\ socket[v] = "none"
        /\ wsRef' = [wsRef EXCEPT ![instance[v]] = v] /\ UNCHANGED <<path, instance>>
        /\ strays' = strays \cup ({wsRef[instance[v]]} \ {None}) \cup ({v} \ {path})
        /\ instance[v] \in Visit
    BY <1>2, VisitMade DEF GetAnswered, UiTypeOK, SocketOK, GetOK
  <2>2. socket \in [Visit -> SocketState] /\ wsRef \in [Visit -> Visit \cup {None}]
    BY DEF UiTypeOK, SocketOK
  <2> SUFFICES ASSUME NEW u \in Visit, Live(u)', u \notin strays'
               PROVE  u = path /\ wsRef'[instance[path]] = u
    BY <2>1 DEF OwnedInv
  <2>3. CASE u = v
    BY <2>1, <2>2, <2>3
  <2>4. CASE u # v
    <3>1. u = path /\ wsRef[instance[path]] = u
      BY <2>1, <2>2, <2>4 DEF OwnedInv, Live
    <3>2. instance[path] # instance[v]
      BY <2>1, <3>1, Constants
    <3> QED BY <2>1, <2>2, <3>1, <3>2
  <2> QED BY <2>3, <2>4
<1>3. ASSUME NEW v \in Visit, SocketOpens(v) \/ SocketCloses(v)
      PROVE  OwnedInv'
  <2>1. /\ UNCHANGED <<path, instance, wsRef, strays>>
        /\ \/ socket[v] = "connecting" /\ socket' = [socket EXCEPT ![v] = "open"]
           \/ socket' = [socket EXCEPT ![v] = "closed"]
    BY <1>3 DEF SocketOpens, SocketCloses
  <2>2. \A u \in Visit : Live(u)' => Live(u)
    BY <2>1 DEF UiTypeOK, SocketOK, Live
  <2> QED BY <2>1, <2>2 DEF OwnedInv
<1>4. ASSUME NEW t \in Task, OpenTask(t)
      PROVE  OwnedInv'
  BY <1>4, CleanupCloses, VisitIs DEF OwnedInv
<1>5. CASE GoHome
  BY <1>5, CleanupCloses DEF GoHome, OwnedInv
<1>6. ASSUME NEW v \in Visit, ServerGets(v) \/ ServerSubscribes(v) \/ GetFailed(v) \/ SocketMessage(v)
      PROVE  UNCHANGED <<path, instance, wsRef, socket, strays>>
  BY <1>6 DEF ServerGets, ServerSubscribes, GetFailed, SocketMessage
<1>7. ASSUME NEW t \in Task, StopAnswered(t)
      PROVE  UNCHANGED <<path, instance, wsRef, socket, strays>>
  BY <1>7 DEF StopAnswered
<1>8. OtherStep => UNCHANGED <<path, instance, wsRef, socket, strays>>
  BY OtherKeeps
<1>9. ASSUME NEW t \in Task, BootReady(t) \/ BootFails(t) \/ AgentPrints(t) \/ AgentExits(t)
      PROVE  UNCHANGED <<path, instance, wsRef, socket, strays>>
  BY <1>9, Sends DEF clientVars
<1> QED BY <1>1, <1>2, <1>3, <1>4, <1>5, <1>6, <1>7, <1>8, <1>9
        DEF Next, Server, Callback, User, OtherStep

(* What a message does to the task of the store: it may end it, or make it run. *)
LEMMA StatusIs ==
  ASSUME StoreOK, NEW m
  PROVE  /\ task = NoTask <=> StatusAfter(m) = NoTask
         /\ StatusAfter(m).id = task.id
         /\ task.status = "terminated" => StatusAfter(m).status = "terminated"
BY DEF StoreOK, StatusAfter, NoTask, TaskStatus

(* What is typed goes to the shown task. *)
LEMMA InputStep ==
  ASSUME UiTypeOK, InputInv, [Next]_vars
  PROVE  InputInv'
<1> USE DEF storeVars
<1>0. ws # None => visits'[ws] = visits[ws]
  <2>1. ws # None => ws \in 1 .. Len(visits)
    BY Constants DEF UiTypeOK, StoreOK, RouteOK
  <2> QED BY <2>1, RouteStep DEF TaskOf
<1>1. CASE UNCHANGED <<task, ws>>
  BY <1>0, <1>1 DEF InputInv, TaskOf
<1>2. ASSUME NEW v \in Visit, GetAnswered(v)
      PROVE  InputInv'
  <2>1. task' = [id |-> TaskOf(v), status |-> snapshot[v]] /\ ws' = v /\ UNCHANGED visits
        /\ snapshot[v] # "none"
    BY <1>2 DEF GetAnswered, NewWs, routeVars, UiTypeOK, GetOK
  <2> QED BY <2>1 DEF InputInv, NoTask, TaskOf
<1>3. ASSUME NEW v \in Visit, SocketMessage(v)
      PROVE  InputInv'
  <2>1. task' = StatusAfter(Head(inbox[v])) /\ ws' = ws
    BY <1>3 DEF SocketMessage
  <2> QED BY <1>0, <2>1, StatusIs DEF InputInv, UiTypeOK, TaskOf
<1>4. ASSUME NEW t \in Task, StopAnswered(t)
      PROVE  InputInv'
  <2>1. ws' = ws
    BY <1>4 DEF StopAnswered
  <2>2. task' = task \/ task' = [id |-> t, status |-> "terminated"]
    BY <1>4 DEF StopAnswered
  <2> QED BY <1>0, <2>1, <2>2 DEF InputInv, NoTask, TaskOf
<1>5. ASSUME NEW t \in Task, OpenTask(t)
      PROVE  InputInv'
  BY <1>5, VisitIs DEF InputInv
<1>6. ASSUME NEW v \in Visit, ServerGets(v) \/ ServerSubscribes(v) \/ GetFailed(v) \/ SocketOpens(v)
                               \/ SocketCloses(v)
      PROVE  UNCHANGED <<task, ws>>
  BY <1>6 DEF ServerGets, ServerSubscribes, GetFailed, SocketOpens, SocketCloses
<1>7. GoHome \/ OtherStep => UNCHANGED <<task, ws>>
  BY OtherKeeps DEF GoHome
<1>8. ASSUME NEW t \in Task, BootReady(t) \/ BootFails(t) \/ AgentPrints(t) \/ AgentExits(t)
      PROVE  UNCHANGED <<task, ws>>
  BY <1>8, Sends DEF clientVars
<1> QED BY <1>1, <1>2, <1>3, <1>4, <1>5, <1>6, <1>7, <1>8
        DEF Next, Server, Callback, User, OtherStep

(* A page says "Task not found" for a reason. *)
LEMMA FoundStep ==
  ASSUME UiTypeOK, FoundInv, [Next]_vars
  PROVE  FoundInv'
<1> USE DEF storeVars, history, routeVars, socketVars, getVars
<1>0. /\ path # None => path \in Visit
      /\ socket \in [Visit -> SocketState] /\ getPc \in [Visit -> GetState]
      /\ \A v \in Visit : getPc[v] # "done" => socket[v] = "none"
  BY DEF UiTypeOK, RouteOK, SocketOK, GetOK
<1>1. CASE UNCHANGED <<path, getPc, socket, task, connectionStatus, stale>>
  BY <1>1 DEF FoundInv
<1>2. ASSUME NEW v \in Visit, ServerGets(v)
      PROVE  FoundInv'
  <2>1. /\ UNCHANGED <<path, socket, task, connectionStatus, stale>> /\ getPc[v] = "asked"
        /\ \A u \in Visit : getPc[u] = "done" => getPc'[u] = "done"
    BY <1>0, <1>2 DEF ServerGets
  <2> QED BY <1>0, <2>1 DEF FoundInv
<1>3. ASSUME NEW v \in Visit, GetAnswered(v)
      PROVE  FoundInv'
  <2>1. /\ task'.status = snapshot[v] /\ snapshot[v] # "none" /\ getPc[v] = "found"
        /\ socket' = [socket EXCEPT ![v] = "connecting"] /\ getPc' = [getPc EXCEPT ![v] = "done"]
        /\ UNCHANGED <<path, connectionStatus, stale>>
    BY <1>3 DEF GetAnswered, UiTypeOK, GetOK
  <2>2. task' # NoTask
    BY <2>1 DEF NoTask
  <2> QED BY <1>0, <2>1, <2>2 DEF FoundInv
<1>4. ASSUME NEW v \in Visit, GetFailed(v)
      PROVE  FoundInv'
  <2>1. /\ getPc[v] = "failed" /\ getPc' = [getPc EXCEPT ![v] = "done"]
        /\ connectionStatus' = "error" /\ UNCHANGED <<path, task, socket>>
        /\ stale' <=> stale \/ v # path
    BY <1>4 DEF GetFailed
  <2> QED BY <1>0, <2>1 DEF FoundInv
<1>5. ASSUME NEW v \in Visit, SocketOpens(v) \/ SocketCloses(v)
      PROVE  FoundInv'
  <2>1. /\ connectionStatus' \in {"idle", "connected"} /\ UNCHANGED <<path, task, getPc>>
        /\ stale' <=> stale \/ v # path
        /\ socket[v] # "none"
        /\ \/ socket' = [socket EXCEPT ![v] = "open"]
           \/ socket' = [socket EXCEPT ![v] = "closed"]
    BY <1>5 DEF SocketOpens, SocketCloses, Live
  <2> QED BY <1>0, <2>1 DEF FoundInv
<1>6. ASSUME NEW v \in Visit, SocketMessage(v)
      PROVE  FoundInv'
  <2>1. task' = StatusAfter(Head(inbox[v])) /\ UNCHANGED <<path, getPc, socket, connectionStatus, stale>>
    BY <1>6 DEF SocketMessage
  <2>2. task' = NoTask <=> task = NoTask
    BY <2>1, StatusIs DEF UiTypeOK
  <2> QED BY <2>1, <2>2 DEF FoundInv
<1>7. ASSUME NEW t \in Task, StopAnswered(t)
      PROVE  FoundInv'
  <2>1. /\ UNCHANGED <<path, getPc, socket, connectionStatus, stale>>
        /\ task' = task \/ task' = [id |-> t, status |-> "terminated"]
    BY <1>7 DEF StopAnswered
  <2> QED BY <2>1 DEF FoundInv, NoTask
<1>8. ASSUME NEW t \in Task, OpenTask(t)
      PROVE  FoundInv'
  BY <1>8, FreshVisit, VisitIs DEF FoundInv
<1>9. CASE GoHome
  BY <1>9 DEF GoHome, FoundInv
<1>10. ASSUME NEW v \in Visit, ServerSubscribes(v)
       PROVE  UNCHANGED <<path, getPc, socket, task, connectionStatus, stale>>
  BY <1>10 DEF ServerSubscribes
<1>11. OtherStep => UNCHANGED <<path, getPc, socket, task, connectionStatus, stale>>
  BY OtherKeeps
<1>12. ASSUME NEW t \in Task, BootReady(t) \/ BootFails(t) \/ AgentPrints(t) \/ AgentExits(t)
       PROVE  UNCHANGED <<path, getPc, socket, task, connectionStatus, stale>>
  BY <1>12, Sends DEF clientVars
<1> QED BY <1>1, <1>2, <1>3, <1>4, <1>5, <1>6, <1>7, <1>8, <1>9, <1>10, <1>11, <1>12
        DEF Next, Server, Callback, User, OtherStep

(* What is on its way to a socket: a line that the agent prints comes last, ... *)
LEMMA FeedLine ==
  ASSUME NEW b \in Seq(WsMessage), NEW s, Len(s) \in Nat, NEW t \in Task, NEW last \in Nat,
         last < MaxOutputs, Feed(s, b, t, last)
  PROVE  Feed(s, Append(b, [type |-> "output", of |-> t, n |-> last + 1]), t, last + 1)
<1> DEFINE m == [type |-> "output", of |-> t, n |-> last + 1]
           c == Append(b, m)
<1>1. /\ Len(b) \in Nat /\ DOMAIN b = 1 .. Len(b) /\ DOMAIN c = 1 .. Len(b) + 1
      /\ \A i \in DOMAIN b : c[i] = b[i]
      /\ c[Len(b) + 1] = m
  <2>1. m \in WsMessage
    BY Constants, Messages
  <2> HIDE DEF m
  <2> QED BY <2>1
<1>2. /\ m.type = "output" /\ m.of = t /\ m.n = last + 1
  OBVIOUS
<1> HIDE DEF m, c
<1>3. \A i \in DOMAIN b : b[i].type = "output" => b[i].n \in Nat
  BY <1>1, Messages
<1>4. ASSUME NEW i \in DOMAIN c, c[i].type = "output"
      PROVE  /\ c[i].of = t /\ c[i].n > Len(s) /\ c[i].n <= last + 1
             /\ \A j \in DOMAIN c : i < j /\ c[j].type = "output" => c[i].n < c[j].n
  <2>1. CASE i \in DOMAIN b
    <3>1. /\ b[i].type = "output" /\ c[i] = b[i] /\ b[i].n \in Nat
          /\ b[i].of = t /\ b[i].n > Len(s) /\ b[i].n <= last
      BY <1>1, <1>3, <1>4, <2>1 DEF Feed
    <3>2. ASSUME NEW j \in DOMAIN c, i < j, c[j].type = "output"
          PROVE  c[i].n < c[j].n
      <4>1. CASE j \in DOMAIN b
        BY <1>1, <2>1, <3>1, <3>2, <4>1 DEF Feed
      <4>2. CASE j = Len(b) + 1
        BY <1>1, <1>2, <3>1, <4>2
      <4> QED BY <1>1, <4>1, <4>2
    <3> QED BY <3>1, <3>2
  <2>2. CASE i = Len(b) + 1
    BY <1>1, <1>2, <2>2 DEF Feed
  <2> QED BY <1>1, <2>1, <2>2
<1>5. ASSUME NEW n \in Len(s) + 1 .. last + 1
      PROVE  \E i \in DOMAIN c : c[i].type = "output" /\ c[i].n = n
  <2>1. CASE n = last + 1
    <3>1. Len(b) + 1 \in DOMAIN c
      BY <1>1
    <3> QED BY <1>1, <1>2, <2>1, <3>1
  <2>2. CASE n # last + 1
    <3>1. n \in Len(s) + 1 .. last
      BY <2>2
    <3>2. PICK i \in DOMAIN b : b[i].type = "output" /\ b[i].n = n
      BY <3>1 DEF Feed
    <3> QED BY <1>1, <3>2
  <2> QED BY <2>1, <2>2
<1>6. Len(s) <= last + 1
  BY DEF Feed
<1> QED BY <1>4, <1>5, <1>6 DEF Feed, c, m

(* ... another message changes nothing of the lines, ... *)
LEMMA FeedOther ==
  ASSUME NEW b \in Seq(WsMessage), NEW s, NEW t, NEW last, Feed(s, b, t, last),
         NEW m \in WsMessage, m.type # "output"
  PROVE  Feed(s, Append(b, m), t, last)
<1> DEFINE c == Append(b, m)
<1>1. /\ Len(b) \in Nat /\ DOMAIN b = 1 .. Len(b) /\ DOMAIN c = 1 .. Len(b) + 1
      /\ \A i \in DOMAIN b : c[i] = b[i]
      /\ c[Len(b) + 1] = m
  OBVIOUS
<1> HIDE DEF c
<1>2. \A i \in DOMAIN c : c[i].type = "output" => i \in DOMAIN b
  BY <1>1
<1> QED BY <1>1, <1>2 DEF Feed, c

(* ... the buffered output is all lines so far, ... *)
LEMMA FeedAll ==
  ASSUME NEW t, NEW last \in Nat
  PROVE  Feed(<<>>, [n \in 1 .. last |-> [type |-> "output", of |-> t, n |-> n]], t, last)
<1> DEFINE c == [n \in 1 .. last |-> [type |-> "output", of |-> t, n |-> n]]
<1>1. DOMAIN c = 1 .. last /\ \A i \in 1 .. last : c[i].type = "output" /\ c[i].of = t /\ c[i].n = i
  OBVIOUS
<1> HIDE DEF c
<1>2. Len(<<>>) = 0
  OBVIOUS
<1> QED BY <1>1, <1>2 DEF Feed, c

(* ... and the next message, if it is a line, is the one after those shown. *)
LEMMA FeedNext ==
  ASSUME NEW b \in Seq(WsMessage), b # <<>>, NEW s \in Seq(Task \X (1 .. MaxOutputs)),
         NEW t \in Task, NEW last \in Nat, Feed(s, b, t, last)
  PROVE  LET m == Head(b)
             r == IF m.type = "output" THEN Append(s, <<m.of, m.n>>) ELSE s
         IN  /\ m.type = "output" => m.of = t /\ m.n = Len(s) + 1
             /\ Feed(r, Tail(b), t, last)
<1> DEFINE m == Head(b)
           c == Tail(b)
           r == IF m.type = "output" THEN Append(s, <<m.of, m.n>>) ELSE s
<1>1. /\ Len(b) \in Nat \ {0} /\ DOMAIN b = 1 .. Len(b) /\ DOMAIN c = 1 .. Len(b) - 1
      /\ \A i \in DOMAIN c : c[i] = b[i + 1] /\ i + 1 \in DOMAIN b
      /\ b[1] = m /\ 1 \in DOMAIN b
  <2>1. /\ Len(b) \in Nat \ {0} /\ DOMAIN b = 1 .. Len(b) /\ b[1] = m
    OBVIOUS
  <2>2. /\ c \in Seq(WsMessage) /\ Len(c) = Len(b) - 1
        /\ \A i \in 1 .. Len(c) : c[i] = b[i + 1]
    BY HeadTailProperties
  <2>3. DOMAIN c = 1 .. Len(b) - 1
    BY <2>2
  <2> QED BY <2>1, <2>2, <2>3
<1>2. Len(s) \in Nat
  OBVIOUS
<1> HIDE DEF m, c
<1>3. \A i \in DOMAIN b : b[i].type = "output" => b[i].n \in Nat
  BY <1>1, Messages
<1>4. ASSUME m.type = "output"
      PROVE  m.of = t /\ m.n = Len(s) + 1
  <2>1. m.of = t /\ m.n > Len(s) /\ m.n <= last /\ m.n \in Nat
    BY <1>1, <1>3, <1>4 DEF Feed
  <2>2. PICK i \in DOMAIN b : b[i].type = "output" /\ b[i].n = Len(s) + 1
    <3>1. Len(s) + 1 \in Len(s) + 1 .. last
      BY <1>2, <2>1
    <3> QED BY <3>1 DEF Feed
  <2>3. CASE i = 1
    BY <1>1, <2>1, <2>2, <2>3
  <2>4. CASE i # 1
    <3>1. 1 < i
      BY <1>1, <2>4
    <3>2. m.n < b[i].n
      BY <1>1, <1>4, <2>2, <3>1 DEF Feed
    <3> QED BY <1>2, <2>1, <2>2, <3>2
  <2> QED BY <2>1, <2>3, <2>4
<1>5. Len(r) \in Nat /\ Len(r) = IF m.type = "output" THEN Len(s) + 1 ELSE Len(s)
  <2>1. CASE m.type = "output"
    <3>1. m \in WsMessage
      BY <1>1
    <3>2. <<m.of, m.n>> \in Task \X (1 .. MaxOutputs)
      BY <2>1, <3>1, Messages
    <3> QED BY <1>2, <2>1, <3>2
  <2> QED BY <1>2, <2>1
<1> HIDE DEF r
<1>6. Len(r) <= last
  <2>1. m.type = "output" => m.n <= last
    BY <1>1 DEF Feed
  <2> QED BY <1>4, <1>5, <2>1 DEF Feed
<1>7. ASSUME NEW i \in DOMAIN c, c[i].type = "output"
      PROVE  /\ c[i].of = t /\ c[i].n > Len(r) /\ c[i].n <= last
             /\ \A j \in DOMAIN c : i < j /\ c[j].type = "output" => c[i].n < c[j].n
  <2>1. c[i] = b[i + 1] /\ i + 1 \in DOMAIN b /\ b[i + 1].n \in Nat /\ 1 < i + 1
    BY <1>1, <1>3, <1>7
  <2>2. b[i + 1].of = t /\ b[i + 1].n > Len(s) /\ b[i + 1].n <= last
    BY <1>7, <2>1 DEF Feed
  <2>3. m.type = "output" => m.n < b[i + 1].n
    BY <1>1, <1>7, <2>1 DEF Feed
  <2>4. c[i].n > Len(r)
    BY <1>2, <1>4, <1>5, <2>1, <2>2, <2>3
  <2>5. ASSUME NEW j \in DOMAIN c, i < j, c[j].type = "output"
        PROVE  c[i].n < c[j].n
    <3>1. c[j] = b[j + 1] /\ j + 1 \in DOMAIN b /\ i + 1 < j + 1
      BY <1>1, <2>5
    <3> QED BY <1>7, <2>1, <2>5, <3>1 DEF Feed
  <2> QED BY <2>1, <2>2, <2>4, <2>5
<1>8. ASSUME NEW n \in Len(r) + 1 .. last
      PROVE  \E i \in DOMAIN c : c[i].type = "output" /\ c[i].n = n
  <2>1. n \in Len(s) + 1 .. last /\ (m.type = "output" => n # Len(s) + 1)
    BY <1>2, <1>5
  <2>2. PICK i \in DOMAIN b : b[i].type = "output" /\ b[i].n = n
    BY <2>1 DEF Feed
  <2>3. i # 1
    BY <1>1, <1>4, <2>1, <2>2
  <2>4. i - 1 \in DOMAIN c /\ c[i - 1] = b[i]
    BY <1>1, <2>3
  <2> QED BY <2>2, <2>4
<1>9. Feed(r, c, t, last)
  BY <1>6, <1>7, <1>8 DEF Feed
<1> QED BY <1>4, <1>9 DEF m, c, r

(* The page and its parser stay with its task. *)
LEMMA PageStep ==
  ASSUME UiTypeOK, OwnedInv, PageInv, [Next]_vars
  PROVE  PageInv'
<1> USE DEF storeVars, history, routeVars, socketVars, getVars, serverVars
<1>0. /\ path # None => path \in Visit /\ path <= Len(visits) /\ TaskOf(path) \in Task
      /\ path # None => outputs[TaskOf(path)] \in Nat /\ inbox[path] \in Seq(WsMessage)
      /\ socket \in [Visit -> SocketState] /\ inbox \in [Visit -> Seq(WsMessage)]
      /\ outputs \in [Task -> 0 .. MaxOutputs]
      /\ shown \in Seq(Task \X (1 .. MaxOutputs)) /\ Len(shown) \in Nat
  <2>1. path # None => path \in Visit /\ path <= Len(visits)
    BY DEF UiTypeOK, RouteOK
  <2>2. path # None => TaskOf(path) \in Task
    BY <2>1, VisitMade DEF UiTypeOK
  <2>3. /\ socket \in [Visit -> SocketState] /\ inbox \in [Visit -> Seq(WsMessage)]
        /\ outputs \in [Task -> 0 .. MaxOutputs]
        /\ shown \in Seq(Task \X (1 .. MaxOutputs)) /\ Len(shown) \in Nat
    <3>1. shown \in Seq(Task \X (1 .. MaxOutputs))
      BY DEF UiTypeOK, StoreOK
    <3>2. /\ socket \in [Visit -> SocketState] /\ inbox \in [Visit -> Seq(WsMessage)]
          /\ outputs \in [Task -> 0 .. MaxOutputs]
      BY DEF UiTypeOK, SocketOK, InboxOK, ServerOK
    <3>3. Len(shown) \in Nat
      BY <3>1
    <3> QED BY <3>1, <3>2, <3>3
  <2>4. path # None => outputs[TaskOf(path)] \in Nat
    <3>1. path # None => outputs[TaskOf(path)] \in 0 .. MaxOutputs
      BY <2>2, <2>3
    <3> QED BY <3>1
  <2> QED BY <2>1, <2>2, <2>3, <2>4
<1>1. strays = {} => \A v \in Visit : Live(v) => v = path
  BY DEF OwnedInv
<1>2. CASE UNCHANGED <<path, visits, outputs, strays, task, lateStop, shown, socket, inbox, subscribed>>
  BY <1>2 DEF PageInv, TaskOf
<1>3. ASSUME NEW t \in Task, OpenTask(t)
      PROVE  PageInv'
  <2>1. /\ task' = NoTask /\ shown' = <<>> /\ path' \notin subscribed'
    BY <1>3, VisitIs, FreshVisit
  <2> QED BY <2>1 DEF PageInv
<1>4. CASE GoHome
  BY <1>4 DEF GoHome, PageInv
(* From here on the page stays, and so do the strays, but for an answer. *)
<1>5. ASSUME NEW t \in Task, BootReady(t) \/ BootFails(t) \/ AgentPrints(t) \/ AgentExits(t)
      PROVE  PageInv'
  <2>1. UNCHANGED <<path, visits, strays, task, lateStop, shown, socket, subscribed>>
    BY <1>5, Sends DEF clientVars
  <2>2. CASE UNCHANGED <<inbox, outputs>>
    BY <1>2, <2>1, <2>2
  <2> SUFFICES ASSUME path # None, strays = {}, path \in subscribed
               PROVE  Feed(shown, inbox'[path], TaskOf(path), outputs'[TaskOf(path)])
    BY <2>1 DEF PageInv, TaskOf
  <2>3. Feed(shown, inbox[path], TaskOf(path), outputs[TaskOf(path)])
    BY DEF PageInv
  <2>4. ASSUME NEW m, Broadcast(t, m)
        PROVE  inbox'[path] = IF TaskOf(path) = t THEN Append(inbox[path], m) ELSE inbox[path]
    BY <1>0, <2>4 DEF Broadcast
  <2>5. ASSUME NEW s \in {"status", "progress", "error"}, Broadcast(t, [type |-> s]),
               UNCHANGED outputs
        PROVE  Feed(shown, inbox'[path], TaskOf(path), outputs'[TaskOf(path)])
    <3> DEFINE m == [type |-> s]
    <3>1. m \in WsMessage /\ m.type # "output"
      BY Messages
    <3>2. inbox'[path] = IF TaskOf(path) = t THEN Append(inbox[path], m) ELSE inbox[path]
      BY <2>4, <2>5
    <3> HIDE DEF m
    <3>3. Feed(shown, Append(inbox[path], m), TaskOf(path), outputs[TaskOf(path)])
      BY <1>0, <2>3, <3>1, FeedOther
    <3> QED BY <2>3, <2>5, <3>2, <3>3
  <2>6. ASSUME Broadcast(t, [type |-> "output", of |-> t, n |-> outputs[t] + 1]),
               outputs[t] < MaxOutputs, outputs' = [outputs EXCEPT ![t] = outputs[t] + 1]
        PROVE  Feed(shown, inbox'[path], TaskOf(path), outputs'[TaskOf(path)])
    <3>1. CASE TaskOf(path) = t
      <4>1. inbox'[path] = Append(inbox[path], [type |-> "output", of |-> t, n |-> outputs[t] + 1])
        BY <2>4, <2>6, <3>1
      <4>2. Feed(shown, Append(inbox[path], [type |-> "output", of |-> t, n |-> outputs[t] + 1]),
                 t, outputs[t] + 1)
        BY <1>0, <2>3, <2>6, <3>1, FeedLine
      <4>3. outputs'[t] = outputs[t] + 1
        BY <1>0, <2>6
      <4> QED BY <3>1, <4>1, <4>2, <4>3
    <3>2. CASE TaskOf(path) # t
      <4>1. inbox'[path] = inbox[path]
        BY <2>4, <2>6, <3>2
      <4>2. outputs'[TaskOf(path)] = outputs[TaskOf(path)]
        BY <1>0, <2>6, <3>2
      <4> QED BY <2>3, <4>1, <4>2
    <3> QED BY <3>1, <3>2
  <2>7. CASE UNCHANGED <<inbox, outputs>>
    BY <2>3, <2>7
  <2> QED BY <1>5, <2>5, <2>6, <2>7, Sends
<1>6. ASSUME NEW v \in Visit, ServerSubscribes(v)
      PROVE  PageInv'
  <2>1. /\ Live(v) /\ v \notin subscribed /\ subscribed' = subscribed \cup {v}
        /\ inbox' = [inbox EXCEPT ![v] =
             [n \in 1 .. outputs[TaskOf(v)] |-> [type |-> "output", of |-> TaskOf(v), n |-> n]]]
        /\ UNCHANGED <<path, visits, outputs, strays, task, lateStop, shown, socket>>
    BY <1>6 DEF ServerSubscribes
  <2> SUFFICES ASSUME path # None, strays = {}
               PROVE  Feed(shown, inbox'[path], TaskOf(path), outputs[TaskOf(path)])
    <3>1. strays = {} => v = path
      BY <1>1, <2>1
    <3> QED BY <2>1, <3>1 DEF PageInv, TaskOf
  <2>2. v = path /\ shown = <<>>
    BY <1>1, <2>1 DEF PageInv, Live
  <2>3. inbox'[path] = [n \in 1 .. outputs[TaskOf(path)] |->
                          [type |-> "output", of |-> TaskOf(path), n |-> n]]
    BY <1>0, <2>1, <2>2
  <2> QED BY <1>0, <2>2, <2>3, FeedAll
<1>7. ASSUME NEW v \in Visit, GetAnswered(v)
      PROVE  PageInv'
  <2>1. /\ task'.id = TaskOf(v) /\ socket' = [socket EXCEPT ![v] = "connecting"]
        /\ strays \subseteq strays' /\ (v # path => v \in strays')
        /\ UNCHANGED <<path, visits, outputs, inbox, subscribed, shown, lateStop>>
    BY <1>7 DEF GetAnswered
  <2>2. socket[v] = "none" /\ v \notin subscribed
    BY <1>7 DEF GetAnswered, UiTypeOK, SocketOK, Live
  <2> QED BY <1>0, <2>1, <2>2 DEF PageInv, TaskOf
<1>8. ASSUME NEW v \in Visit, SocketOpens(v)
      PROVE  PageInv'
  <2>1. /\ socket[v] = "connecting" /\ socket' = [socket EXCEPT ![v] = "open"]
        /\ UNCHANGED <<path, visits, outputs, strays, task, lateStop, shown, inbox, subscribed>>
    BY <1>8 DEF SocketOpens
  <2>2. \A u \in Visit : socket'[u] \in {"none", "connecting", "open"} =>
                         socket[u] \in {"none", "connecting", "open"}
    BY <1>0, <2>1
  <2> QED BY <1>0, <2>1, <2>2 DEF PageInv, TaskOf
<1>9. ASSUME NEW v \in Visit, SocketCloses(v)
      PROVE  PageInv'
  <2>1. /\ socket' = [socket EXCEPT ![v] = "closed"] /\ subscribed' = subscribed \ {v}
        /\ inbox' = [inbox EXCEPT ![v] = <<>>]
        /\ UNCHANGED <<path, visits, outputs, strays, task, lateStop, shown>>
    BY <1>9 DEF SocketCloses
  <2>2. CASE v = path
    <3>1. socket'[path] = "closed" /\ path \notin subscribed'
      BY <1>0, <2>1, <2>2
    <3> QED BY <2>1, <3>1 DEF PageInv, TaskOf
  <2>3. CASE v # path
    <3>1. path # None => socket'[path] = socket[path] /\ inbox'[path] = inbox[path]
      BY <1>0, <2>1, <2>3
    <3> QED BY <2>1, <2>3, <3>1 DEF PageInv, TaskOf
  <2> QED BY <2>2, <2>3
<1>10. ASSUME NEW v \in Visit, SocketMessage(v)
       PROVE  PageInv'
  <2> DEFINE m == Head(inbox[v])
             r == IF m.type = "output" THEN Append(shown, <<m.of, m.n>>) ELSE shown
  <2>1. /\ Live(v) /\ inbox[v] # <<>> /\ inbox' = [inbox EXCEPT ![v] = Tail(inbox[v])]
        /\ task' = StatusAfter(m) /\ shown' = r
        /\ UNCHANGED <<path, visits, outputs, strays, lateStop, socket, subscribed>>
    BY <1>10 DEF SocketMessage, ProcessOutput, Live
  <2> SUFFICES ASSUME path # None, strays = {}
               PROVE  /\ task' # NoTask /\ ~lateStop => task'.id = TaskOf(path)
                      /\ \A i \in DOMAIN r : r[i] = <<TaskOf(path), i>>
                      /\ path \in subscribed
                      /\ Feed(r, inbox'[path], TaskOf(path), outputs[TaskOf(path)])
    BY <2>1 DEF PageInv, TaskOf
  <2>2. v = path
    BY <1>1, <2>1
  <2>3. path \in subscribed
    BY <2>1, <2>2 DEF UiTypeOK, InboxOK
  <2>4. /\ m.type = "output" => m.of = TaskOf(path) /\ m.n = Len(shown) + 1
        /\ Feed(r, Tail(inbox[path]), TaskOf(path), outputs[TaskOf(path)])
    <3>1. Feed(shown, inbox[path], TaskOf(path), outputs[TaskOf(path)])
      BY <2>3 DEF PageInv
    <3> QED BY <1>0, <2>1, <2>2, <3>1, FeedNext
  <2>5. inbox'[path] = Tail(inbox[path])
    BY <1>0, <2>1, <2>2
  <2>6. task' # NoTask /\ ~lateStop => task'.id = TaskOf(path)
    <3>1. (task' = NoTask <=> task = NoTask) /\ task'.id = task.id
      BY <2>1, StatusIs DEF UiTypeOK
    <3> QED BY <3>1 DEF PageInv
  <2>7. \A i \in DOMAIN r : r[i] = <<TaskOf(path), i>>
    <3>1. \A i \in DOMAIN shown : shown[i] = <<TaskOf(path), i>>
      BY DEF PageInv
    <3>2. CASE m.type = "output"
      <4>1. r = Append(shown, <<TaskOf(path), Len(shown) + 1>>)
        BY <2>4, <3>2
      <4> HIDE DEF r, m
      <4>2. DOMAIN shown = 1 .. Len(shown) /\ DOMAIN r = 1 .. Len(shown) + 1
        BY <1>0, <4>1
      <4> QED BY <1>0, <3>1, <4>1, <4>2
    <3>3. CASE m.type # "output"
      BY <3>1, <3>3
    <3> QED BY <3>2, <3>3
  <2> QED BY <2>3, <2>4, <2>5, <2>6, <2>7
<1>11. ASSUME NEW t \in Task, StopAnswered(t)
       PROVE  PageInv'
  <2>1. UNCHANGED <<path, visits, outputs, strays, shown, socket, inbox, subscribed>>
    BY <1>11 DEF StopAnswered
  <2>2. \/ UNCHANGED <<task, lateStop>>
        \/ /\ task' = [id |-> t, status |-> "terminated"]
           /\ lateStop' <=> (lateStop \/ (path # None /\ TaskOf(path) # t))
    BY <1>11 DEF StopAnswered
  <2>3. PageInv /\ path # None /\ strays = {} =>
          (task' # NoTask /\ ~lateStop' => task'.id = TaskOf(path))
    BY <2>2 DEF PageInv
  <2> QED BY <2>1, <2>3 DEF PageInv, TaskOf
<1>12. ASSUME NEW v \in Visit, ServerGets(v) \/ GetFailed(v)
       PROVE  UNCHANGED <<path, visits, outputs, strays, task, lateStop, shown, socket, inbox, subscribed>>
  BY <1>12 DEF ServerGets, GetFailed
<1>13. OtherStep => UNCHANGED <<path, visits, outputs, strays, task, lateStop, shown, socket, inbox, subscribed>>
  BY OtherKeeps
<1> QED BY <1>2, <1>3, <1>4, <1>5, <1>6, <1>7, <1>8, <1>9, <1>10, <1>11, <1>12, <1>13
        DEF Next, Server, Callback, User, OtherStep

(* All parts of the invariant together. *)
LEMMA UiStep == UiInv /\ [Next]_vars => UiInv'
BY TypeStep, OwnedStep, InputStep, FoundStep, PageStep DEF UiInv

(* The invariant holds in every state the web UI gets to. *)
LEMMA UiCorrect == Spec => []UiInv
BY UiInit, UiStep, PTL DEF Spec

(* Every variable of the store, the requests and the sockets keeps its type. *)
THEOREM UiTypes == Spec => []TypeOK
<1>1. UiInv => TypeOK
  BY DEF UiInv, UiTypeOK, ServerOK, RouteOK, GetOK, SocketOK, InboxOK, StoreOK, TypeOK,
         GetState, SocketState
<1> QED BY <1>1, UiCorrect, PTL

(* However answers come late, a socket that is open is the one the page shown will     *)
(* close, or the stray of an answer that came when its visit was over.                 *)
THEOREM NoSocketLeft == Spec => []SocketsOwned
<1>1. UiInv => SocketsOwned
  BY Constants DEF UiInv, OwnedInv, SocketsOwned
<1> QED BY <1>1, UiCorrect, PTL

(* Without stray sockets the page of a task shows that task and its output, each line  *)
(* once and in order, whatever was visited before.                                     *)
THEOREM ShowsItsTask == Spec => []PageOfItsTask
<1>1. UiInv => PageOfItsTask
  BY DEF UiInv, PageInv, PageOfItsTask
<1> QED BY <1>1, UiCorrect, PTL

(* What the user types goes to the task that the header names, or nowhere. *)
THEOREM TypesToShown == Spec => []InputToShownTask
<1>1. UiInv => InputToShownTask
  BY DEF UiInv, InputInv, InputToShownTask, CanType, InputGoesTo
<1> QED BY <1>1, UiCorrect, PTL

(* "Task not found" is said only when the task could not be loaded, or after a callback *)
(* of an earlier visit.                                                                *)
THEOREM NotFoundTold == Spec => []NotFoundExplained
<1>1. UiInv => NotFoundExplained
  <2> SUFFICES ASSUME UiInv, View = "not found", ~stale
               PROVE  getPc[path] = "done" /\ socket[path] = "none"
    BY DEF NotFoundExplained
  <2>1. /\ path # None
        /\ connectionStatus = "error" \/ (connectionStatus # "loading" /\ task = NoTask)
    BY DEF View, UiInv, UiTypeOK, StoreOK
  <2> QED BY <2>1 DEF UiInv, FoundInv, UiTypeOK, StoreOK
<1> QED BY <1>1, UiCorrect, PTL
=============================================================================
