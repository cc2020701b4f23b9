------------------------------- MODULE WebUi -------------------------------
(***************************************************************************)
(* The web UI (web-ui/src): one store, one page at a time, and callbacks   *)
(* of requests and sockets that come when they come.                       *)
(*                                                                         *)
(* Every run of the effect of TaskPage is a visit, numbered as they come.  *)
(* The closures of a visit live on when the page has gone to another task: *)
(* nothing in them asks whether theirs is still the one shown.  Going from *)
(* task to task keeps the page and its wsRef; going home unmounts it.      *)
(*                                                                         *)
(* The server is what the page can tell of it: api/src/handlers.rs, ws.rs. *)
(***************************************************************************)
EXTENDS Integers, Sequences, FiniteSets

CONSTANTS
  Task,
  Booting,     \* the tasks that are still booting when the user opens the web UI
  MaxVisits, MaxOutputs, MaxStops, MaxFaults \* bounds

ASSUME UiAssumption ==
  Booting \subseteq Task /\ {MaxVisits, MaxOutputs, MaxStops, MaxFaults} \subseteq Nat

Visit == 1 .. MaxVisits
None == 0

VARIABLES
  row, outputs,         \* server: status of each task, its buffered output
  stage,                \* how far its boot is
  path, visits,         \* the visit that is shown, None at home; the task of each visit
  instance, wsRef,      \* the page each visit belongs to; the wsRef of each page
  getPc, snapshot,      \* getTask of each visit, and the status it answers
  socket, inbox,        \* the socket of each visit, the messages on their way to it
  subscribed,           \* the sockets the channel of their task knows
  task, connectionStatus, ws, shown, \* the store; shown is what its parser was given
  stopping, stops,      \* stopTask: requests on their way, and answers; how many so far
  faults,               \* boots, requests and sockets that failed so far
  strays, lateStop, stale \* history

serverVars  == <<row, outputs, stage>>
routeVars   == <<path, visits, instance>>
getVars     == <<getPc, snapshot>>
socketVars  == <<wsRef, socket, inbox, subscribed>>
storeVars   == <<task, connectionStatus, ws, shown>>
stopVars    == <<stopping, stops>>
history     == <<strays, lateStop, stale>>
vars == <<serverVars, routeVars, getVars, socketVars, storeVars, stopVars, faults, history>>

TaskStatus == {"none", "starting", "running", "terminated"}
NoTask == [id |-> None, status |-> "none"]
TaskOf(v) == visits[v]

\* The messages of a socket; of the progress the page acts on "ready" alone.
WsMessage ==
  [type : {"status", "progress", "error"}] \cup [type : {"output"}, of : Task, n : 1 .. MaxOutputs]
Live(v) == socket[v] \in {"connecting", "open"}

Init ==
  /\ row = [t \in Task |-> IF t \in Booting THEN "starting" ELSE "running"]
  /\ outputs = [t \in Task |-> 0]
  /\ stage = [t \in Task |-> IF t \in Booting THEN "booting" ELSE "ready"]
  /\ path = None /\ visits = <<>> /\ instance = <<>>
  /\ wsRef = [v \in Visit |-> None]
  /\ getPc = [v \in Visit |-> "none"] /\ snapshot = [v \in Visit |-> "none"]
  /\ socket = [v \in Visit |-> "none"] /\ inbox = [v \in Visit |-> <<>>]
  /\ subscribed = {}
  /\ task = NoTask /\ connectionStatus = "idle" /\ ws = None /\ shown = <<>>
  /\ stopping = [t \in Task |-> "no"] /\ stops = 0 /\ faults = 0
  /\ strays = {} /\ lateStop = FALSE /\ stale = FALSE

----------------------------------------------------------------------------
(* The server. *)

Fault == faults < MaxFaults /\ faults' = faults + 1

\* The channel of a task sends to the sockets that have subscribed to it.
Broadcast(t, msg) ==
  inbox' = [v \in Visit |->
    IF v \in subscribed /\ TaskOf(v) = t THEN Append(inbox[v], msg) ELSE inbox[v]]

clientVars == <<routeVars, getVars, wsRef, socket, subscribed, storeVars, history>>

\* The row is written before Ready is sent, whatever it was: a stop is overwritten.
BootRow(t) ==
  /\ stage[t] = "booting"
  /\ stage' = [stage EXCEPT ![t] = "row"]
  /\ row' = [row EXCEPT ![t] = "running"]
  /\ UNCHANGED <<outputs, inbox, stopVars, faults, clientVars>>

\* The agent may print and exit before Ready is sent, half a second after it was reached.
BootReady(t) ==
  /\ stage[t] \in {"row", "early exit"}
  /\ stage' = [stage EXCEPT ![t] = IF @ = "row" THEN "ready" ELSE "exited"]
  /\ Broadcast(t, [type |-> "progress"])
  /\ UNCHANGED <<row, outputs, stopVars, faults, clientVars>>

\* A boot that fails is told as an error, and the row ends; no status is sent.  If it is
\* the row that could not be written the boot ends and nobody is told.
BootFails(t) ==
  /\ stage[t] \in {"booting", "row"} /\ outputs[t] = 0
  /\ stage' = [stage EXCEPT ![t] = "failed"]
  /\ \/ row' = [row EXCEPT ![t] = "terminated"] /\ Broadcast(t, [type |-> "error"])
     \/ stage[t] = "booting" /\ UNCHANGED <<row, inbox>>
  /\ Fault
  /\ UNCHANGED <<outputs, stopVars, clientVars>>

AgentPrints(t) ==
  /\ stage[t] \in {"row", "ready"} /\ outputs[t] < MaxOutputs
  /\ outputs' = [outputs EXCEPT ![t] = @ + 1]
  /\ Broadcast(t, [type |-> "output", of |-> t, n |-> outputs[t] + 1])
  /\ UNCHANGED <<row, stage, stopVars, faults, clientVars>>

\* The relay says so when the agent exits, and leaves the row as it is.
AgentExits(t) ==
  /\ stage[t] \in {"row", "ready"}
  /\ stage' = [stage EXCEPT ![t] = IF @ = "row" THEN "early exit" ELSE "exited"]
  /\ Broadcast(t, [type |-> "status"])
  /\ Fault
  /\ UNCHANGED <<row, outputs, stopVars, clientVars>>

\* delete_task, for the page: it tells nobody else.
ServerStops(t) ==
  /\ stopping[t] = "asked"
  /\ \/ /\ stopping' = [stopping EXCEPT ![t] = "stopped"]
        /\ row' = [row EXCEPT ![t] = "terminated"]
        /\ UNCHANGED faults
     \/ /\ Fault
        /\ stopping' = [stopping EXCEPT ![t] = "failed"]
        /\ UNCHANGED row
  /\ UNCHANGED <<outputs, stage, stops, inbox, clientVars>>

\* get_task: the row as it is now, or an error.
ServerGets(v) ==
  /\ getPc[v] = "asked"
  /\ \/ /\ getPc' = [getPc EXCEPT ![v] = "found"]
        /\ snapshot' = [snapshot EXCEPT ![v] = row[TaskOf(v)]]
        /\ UNCHANGED faults
     \/ /\ Fault
        /\ getPc' = [getPc EXCEPT ![v] = "failed"]
        /\ UNCHANGED snapshot
  /\ UNCHANGED <<serverVars, routeVars, socketVars, storeVars, stopVars, history>>

\* handle_ws: the buffered output first, then what comes.  The response that opens
\* the socket of the client was sent before.
ServerSubscribes(v) ==
  /\ Live(v) /\ v \notin subscribed
  /\ subscribed' = subscribed \cup {v}
  /\ inbox' = [inbox EXCEPT ![v] =
       [n \in 1 .. outputs[TaskOf(v)] |-> [type |-> "output", of |-> TaskOf(v), n |-> n]]]
  /\ UNCHANGED <<serverVars, routeVars, getVars, wsRef, socket, storeVars, stopVars, faults, history>>

----------------------------------------------------------------------------
(* TaskPage: what is shown. *)

View ==
  CASE path = None -> "home"
    [] path # None /\ connectionStatus = "loading" -> "loading"
    [] path # None /\ (connectionStatus = "error" \/ (connectionStatus # "loading" /\ task = NoTask))
         -> "not found"
    [] path # None /\ connectionStatus \in {"idle", "connected"} /\ task # NoTask
         -> IF task.status = "starting" THEN "boot" ELSE "session"

\* The header has its button while the task runs.
CanStop == View = "session" /\ task.status = "running"

\* The cleanup of the effect: the socket of wsRef is closed, which takes a while; no
\* message comes any more.  Mutant: it is left alone.
CleanupLeaves == UNCHANGED <<socket, wsRef, inbox, subscribed>>
Cleanup ==
  LET page == instance[path]
      v == wsRef[page]
  IN IF path # None /\ v # None
     THEN /\ socket' = [socket EXCEPT ![v] =
               CASE @ = "open" -> "closing" [] @ = "connecting" -> "aborting" [] OTHER -> @]
          /\ wsRef' = [wsRef EXCEPT ![page] = None]
          /\ inbox' = [inbox EXCEPT ![v] = <<>>]
          /\ subscribed' = subscribed \ {v}
     ELSE UNCHANGED <<socket, wsRef, inbox, subscribed>>

\* reset() of the store, and "loading".  Mutants: the parser is kept; "loading" is not
\* said.
ResetKeepsParser ==
  /\ task' = NoTask /\ connectionStatus' = "loading" /\ ws' = None
  /\ UNCHANGED shown
ResetOnly ==
  /\ task' = NoTask /\ connectionStatus' = "idle" /\ ws' = None
  /\ shown' = <<>>
Reset ==
  /\ task' = NoTask /\ connectionStatus' = "loading" /\ ws' = None
  /\ shown' = <<>>

\* The effect.  A page that was at home is mounted anew.
Visits(t) ==
  LET v == Len(visits) + 1 IN
  /\ v \in Visit
  /\ Cleanup
  /\ visits' = Append(visits, t)
  /\ instance' = Append(instance, IF path = None THEN v ELSE instance[path])
  /\ path' = v
  /\ getPc' = [getPc EXCEPT ![v] = "asked"]
  /\ Reset
  /\ lateStop' = FALSE /\ stale' = FALSE
  /\ UNCHANGED <<serverVars, snapshot, stopVars, faults, strays>>

\* A link of the sidebar, or the back button.
OpenTask(t) ==
  /\ path # None => TaskOf(path) # t
  /\ Visits(t)

\* No taskId: the page is unmounted, and the store stays as it is.
GoHome ==
  /\ path # None
  /\ Cleanup
  /\ path' = None
  /\ UNCHANGED <<serverVars, visits, instance, getVars, storeVars, stopVars, faults, history>>

\* Mutant: the socket there is is kept.
KeptWs(v) == IF ws = None THEN v ELSE ws
NewWs(v) == v

\* getTask answers: setTask, createWebSocket, wsRef.current, setWebSocket.  Nothing
\* tells whether the visit is over; the socket that wsRef held is not closed.
GetAnswered(v) ==
  LET held == wsRef[instance[v]] IN
  /\ getPc[v] = "found"
  /\ getPc' = [getPc EXCEPT ![v] = "done"]
  /\ snapshot' = [snapshot EXCEPT ![v] = "none"]
  /\ task' = [id |-> TaskOf(v), status |-> snapshot[v]]
  /\ socket' = [socket EXCEPT ![v] = "connecting"]
  /\ wsRef' = [wsRef EXCEPT ![instance[v]] = v]
  /\ ws' = NewWs(v)
  /\ strays' = strays \cup ({held} \ {None}) \cup ({v} \ {path})
  /\ UNCHANGED <<serverVars, routeVars, inbox, subscribed, connectionStatus, shown,
                 stopVars, faults, lateStop, stale>>

GetFailed(v) ==
  /\ getPc[v] = "failed"
  /\ getPc' = [getPc EXCEPT ![v] = "done"]
  /\ connectionStatus' = "error"
  /\ stale' = (stale \/ v # path)
  /\ UNCHANGED <<serverVars, routeVars, snapshot, socketVars, task, ws, shown, stopVars, faults, strays, lateStop>>

----------------------------------------------------------------------------
(* The callbacks of the socket. *)

\* onopen.
SocketOpens(v) ==
  /\ socket[v] = "connecting"
  /\ socket' = [socket EXCEPT ![v] = "open"]
  /\ connectionStatus' = "connected"
  /\ stale' = (stale \/ v # path)
  /\ UNCHANGED <<serverVars, routeVars, getVars, wsRef, inbox, subscribed, task, ws, shown,
                 stopVars, faults, strays, lateStop>>

\* onclose, after close(), or onerror and then onclose when the connection fails:
\* "idle" is what stays.
SocketCloses(v) ==
  /\ \/ socket[v] \in {"closing", "aborting"} /\ UNCHANGED faults
     \/ Live(v) /\ Fault
  /\ socket' = [socket EXCEPT ![v] = "closed"]
  /\ inbox' = [inbox EXCEPT ![v] = <<>>]
  /\ subscribed' = subscribed \ {v}
  /\ connectionStatus' = "idle"
  /\ stale' = (stale \/ v # path)
  /\ UNCHANGED <<serverVars, routeVars, getVars, wsRef, task, ws, shown, stopVars, strays,
                 lateStop>>

\* processOutput: the parser of the store gets the line, whoever sent it.
ProcessOutput(msg) ==
  shown' = IF msg.type = "output" THEN Append(shown, <<msg.of, msg.n>>) ELSE shown

\* onmessage: it is about the task that is in the store now.  Mutants: it is not asked
\* whether there is one; Ready is like any other progress.
StatusAfterUnguarded(msg) ==
  CASE msg.type = "status" -> [task EXCEPT !.status = "terminated"]
    [] msg.type = "progress" ->
         [task EXCEPT !.status = IF @ = "starting" THEN "running" ELSE @]
    [] OTHER -> task
StatusAfterNoReady(msg) ==
  IF task # NoTask /\ msg.type = "status" THEN [task EXCEPT !.status = "terminated"] ELSE task
StatusAfter(msg) ==
  IF task = NoTask THEN task
  ELSE CASE msg.type = "status" -> [task EXCEPT !.status = "terminated"]
         [] msg.type = "progress" ->
              [task EXCEPT !.status = IF @ = "starting" THEN "running" ELSE @]
         [] OTHER -> task

SocketMessage(v) ==
  LET msg == Head(inbox[v]) IN
  /\ socket[v] = "open" /\ inbox[v] # <<>>
  /\ inbox' = [inbox EXCEPT ![v] = Tail(@)]
  /\ task' = StatusAfter(msg)
  /\ ProcessOutput(msg)
  /\ UNCHANGED <<serverVars, routeVars, getVars, wsRef, socket, subscribed, connectionStatus,
                 ws, stopVars, faults, history>>

----------------------------------------------------------------------------
(* What the user does. *)

\* InputBar and sendInput: whom a line typed now goes to; a socket that is not open
\* drops it.
CanType == View = "session" /\ task.status = "running"
InputGoesTo == IF ws # None /\ socket[ws] = "open" THEN {TaskOf(ws)} ELSE {}

\* handleStop: the header holds the task it was drawn with ...
UserStops ==
  /\ CanStop /\ stopping[task.id] = "no" /\ stops < MaxStops
  /\ stopping' = [stopping EXCEPT ![task.id] = "asked"]
  /\ stops' = stops + 1
  /\ UNCHANGED <<serverVars, routeVars, getVars, socketVars, storeVars, faults, history>>

\* ... and puts it in the store when the answer comes, wherever the page is by then.
StopAnswered(t) ==
  /\ stopping[t] \in {"stopped", "failed"}
  /\ stopping' = [stopping EXCEPT ![t] = "no"]
  /\ IF stopping[t] = "stopped"
     THEN /\ task' = [id |-> t, status |-> "terminated"]
          /\ lateStop' = (lateStop \/ (path # None /\ TaskOf(path) # t))
     ELSE UNCHANGED <<task, lateStop>>
  /\ UNCHANGED <<serverVars, routeVars, getVars, socketVars, connectionStatus, ws, shown,
                 stops, faults, strays, stale>>

----------------------------------------------------------------------------
Server ==
  \/ \E t \in Task : \/ BootRow(t) \/ BootReady(t) \/ BootFails(t)
                     \/ AgentPrints(t) \/ AgentExits(t) \/ ServerStops(t)
  \/ \E v \in Visit : ServerGets(v) \/ ServerSubscribes(v)

Callback ==
  \/ \E v \in Visit : GetAnswered(v) \/ GetFailed(v) \/ SocketMessage(v)
                      \/ SocketOpens(v) \/ SocketCloses(v)
  \/ \E t \in Task : StopAnswered(t)

User ==
  \/ \E t \in Task : OpenTask(t)
  \/ GoHome \/ UserStops

Next == Server \/ Callback \/ User

Spec == Init /\ [][Next]_vars

\* Requests are answered and messages delivered, and a boot goes on; the user may stop
\* doing anything, and the sockets need not fail.
FairSpec ==
  /\ Spec
  /\ \A t \in Task : WF_vars(BootRow(t) \/ BootReady(t))
  /\ \A v \in Visit : /\ WF_vars(ServerGets(v) \/ GetAnswered(v) \/ GetFailed(v))
                      /\ WF_vars(ServerSubscribes(v))
                      /\ WF_vars(SocketOpens(v) \/ SocketMessage(v))

----------------------------------------------------------------------------
(* Properties. *)

TypeOK ==
  /\ row \in [Task -> TaskStatus]
  /\ outputs \in [Task -> 0 .. MaxOutputs]
  /\ stage \in [Task -> {"booting", "row", "early exit", "ready", "failed", "exited"}]
  /\ path \in Visit \cup {None} /\ path <= Len(visits)
  /\ visits \in Seq(Task) /\ instance \in Seq(Visit) /\ Len(instance) = Len(visits)
  /\ wsRef \in [Visit -> Visit \cup {None}]
  /\ getPc \in [Visit -> {"none", "asked", "found", "failed", "done"}]
  /\ snapshot \in [Visit -> TaskStatus]
  /\ socket \in [Visit -> {"none", "connecting", "open", "closing", "aborting", "closed"}]
  /\ inbox \in [Visit -> Seq(WsMessage)]
  /\ subscribed \subseteq Visit
  /\ task = NoTask \/ (task.id \in Task /\ task.status \in TaskStatus \ {"none"})
  /\ connectionStatus \in {"idle", "loading", "error", "connected"}
  /\ ws \in Visit \cup {None}
  /\ stopping \in [Task -> {"no", "asked", "stopped", "failed"}]

\* No socket is left behind: what is open or opening is the socket of the page that
\* is shown, which its cleanup will close.  The exceptions are the sockets of a
\* getTask that answered when its visit was over, and those these made wsRef forget.
SocketsOwned ==
  \A v \in Visit :
    Live(v) /\ v \notin strays => path # None /\ wsRef[instance[path]] = v

\* The page of a task shows that task and its output, each line once and in order;
\* nothing of the tasks visited before, even if their answers are still to come.
\* The exceptions are stray sockets and a stop that was answered elsewhere.
PageOfItsTask ==
  (path # None /\ strays = {}) =>
    /\ task # NoTask /\ ~lateStop => task.id = TaskOf(path)
    /\ \A i \in DOMAIN shown : shown[i] = <<TaskOf(path), i>>

\* What the user types goes to the task the header names, whatever answers came late:
\* the store never has the task of one visit and the open socket of another's task
\* with an input bar.
InputToShownTask == CanType => InputGoesTo \subseteq {task.id}

\* "Task not found" is said of a task that could not be loaded.  The exception is a
\* callback of an earlier visit, its socket's onclose above all: it ends "loading".
NotFoundExplained ==
  View = "not found" =>
    stale \/ (getPc[path] = "done" /\ socket[path] = "none")

BeforeReady == {"booting", "row", "early exit"}

\* A page goes on: from "Loading task..." once its task is answered and its socket
\* opens or fails; and from the boot screen to the session by Ready, if its socket had
\* subscribed by then and stays open.  Not if the boot fails, which only sets an error
\* text that the boot screen does not show.
PageSettles ==
  \A v \in Visit :
    /\ (path = v /\ View = "loading") ~> (path # v \/ View # "loading")
    /\ (path = v /\ View = "boot" /\ v \in subscribed /\ stage[TaskOf(v)] \in BeforeReady)
         ~> \/ path # v \/ View # "boot" \/ socket[v] # "open"
            \/ stage[TaskOf(v)] = "failed"
=============================================================================
