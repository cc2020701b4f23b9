------------------------------ MODULE WsChannel ------------------------------
(***************************************************************************)
(* The message channels of one task (api/src/ws.rs), from those who send   *)
(* on them (the boot job of create_task and the vsock reader) to the web   *)
(* clients who listen (handle_ws in api/src/handlers.rs).                  *)
(*                                                                         *)
(* A channel is an Arc: whoever holds one goes on using it after the       *)
(* registry forgot it.  Channels are numbered in the order they are made;  *)
(* create_task has made number 1 when the behaviour starts.                *)
(***************************************************************************)
EXTENDS Integers, Sequences

CONSTANTS
  Client,        (* web clients, each with one connection at a time            *)
  Capacity,      (* CHANNEL_CAPACITY: messages a broadcast channel retains     *)
  MaxOutputs,    (* bound on the output lines of the agent                     *)
  MaxChannels,   (* bound on the channels made for the task                    *)
  MaxNotes       (* bound on the other messages, but for the final status      *)

ASSUME WsAssumption ==
  /\ Capacity \in Nat \ {0}
  /\ MaxOutputs \in Nat
  /\ MaxChannels \in Nat \ {0}
  /\ MaxNotes \in Nat

VARIABLES
  registered,  \* the channel in the registry, 0 if none
  made,        \* channels made so far
  buffer,      \* buffer[c]: output_buffer of c
  log,         \* log[c]: every message broadcast on c (the channel keeps the last Capacity)
  relayPc, relayOn, relayMsg,  \* the vsock reader, the channel and message it works on
  produced,    \* output lines read from the agent
  wsPc, wsOn, pos,             \* a client's handler, its channel, its place in log
  seen, snap, from,            \* outputs it was sent; how many of them before it
                               \* subscribed; its place in log at that moment
  cut,         \* history: Len(buffer[c]) when c left the registry, -1 before
  notes        \* messages sent so far that are neither output nor status

chanVars  == <<registered, made, cut>>
relayVars == <<relayPc, relayOn, relayMsg, produced>>
wsVars    == <<wsPc, wsOn, pos, seen, snap, from>>
vars == <<chanVars, buffer, log, relayVars, wsVars, notes>>

Channel == 1 .. MaxChannels

Output(n) == [kind |-> "output", n |-> n]
Exited    == [kind |-> "status", n |-> 0]
Other     == [kind |-> "other", n |-> 0]   \* progress, error or pong

Init ==
  /\ registered = 1
  /\ made = 1
  /\ cut = [c \in Channel |-> -1]
  /\ buffer = [c \in Channel |-> <<>>]
  /\ log = [c \in Channel |-> <<>>]
  /\ relayPc = "read"
  /\ relayOn = 0
  /\ relayMsg = Other
  /\ produced = 0
  /\ wsPc = [k \in Client |-> "closed"]
  /\ wsOn = [k \in Client |-> 0]
  /\ pos = [k \in Client |-> 0]
  /\ seen = [k \in Client |-> <<>>]
  /\ snap = [k \in Client |-> 0]
  /\ from = [k \in Client |-> 0]
  /\ notes = 0

\* TaskChannel::send after the buffering: a broadcast without an await.
Broadcast(c, m) == log' = [log EXCEPT ![c] = Append(@, m)]

----------------------------------------------------------------------------
(* The boot job, on the channel it was given. *)

\* send_progress by the job or by its forwarder task, or one of the error
\* arms: a message that is not buffered.
Announce ==
  /\ notes < MaxNotes
  /\ notes' = notes + 1
  /\ Broadcast(1, Other)
  /\ UNCHANGED <<chanVars, buffer, relayVars, wsVars>>

----------------------------------------------------------------------------
(* The vsock reader: WsRegistry::broadcast for each message of the agent. *)

\* What the agent may send next: an exit, an error, the next line.
NextMessages ==
  { Exited }
    \union (IF notes < MaxNotes THEN { Other } ELSE {})
    \union (IF produced < MaxOutputs THEN { Output(produced + 1) } ELSE {})

\* WsRegistry::get.  Mutant: the reader keeps the channel of the boot job.
KeptChannel == 1
GetChannel  == registered

\* Without a channel the message is dropped; a final status ends the reader
\* all the same.
AfterGet(m) ==
  CASE GetChannel = 0 -> IF m.kind = "status" THEN "ended" ELSE "read"
    [] GetChannel # 0 -> IF m.kind = "output" THEN "push" ELSE "send"

RelayRead ==
  /\ relayPc = "read"
  /\ \E m \in NextMessages :
       /\ relayMsg' = m
       /\ produced' = IF m.kind = "output" THEN m.n ELSE produced
       /\ notes' = IF m.kind = "other" THEN notes + 1 ELSE notes
       /\ relayOn' = GetChannel
       /\ relayPc' = AfterGet(m)
  /\ UNCHANGED <<chanVars, buffer, log, wsVars>>

\* output_buffer.push.
Pushed(c, m) == Append(buffer[c], m.n)

\* TaskChannel::send buffers an output, ...
RelayPush ==
  /\ relayPc = "push"
  /\ buffer' = [buffer EXCEPT ![relayOn] = Pushed(relayOn, relayMsg)]
  /\ relayPc' = "send"
  /\ UNCHANGED <<chanVars, log, relayOn, relayMsg, produced, wsVars, notes>>

\* ... and broadcasts it once the buffer's lock is released.
RelaySend ==
  /\ relayPc = "send"
  /\ Broadcast(relayOn, relayMsg)
  /\ relayPc' = IF relayMsg.kind = "status" THEN "ended" ELSE "read"
  /\ UNCHANGED <<chanVars, buffer, relayOn, relayMsg, produced, wsVars, notes>>

\* EOF or a read error.
RelayClosed ==
  /\ relayPc = "read"
  /\ relayPc' = "ended"
  /\ UNCHANGED <<chanVars, buffer, log, relayOn, relayMsg, produced,
                 wsVars, notes>>

----------------------------------------------------------------------------
(* The registry and the clients. *)

\* WsRegistry::remove, by delete_task.
Remove ==
  /\ registered # 0
  /\ cut' = [cut EXCEPT ![registered] = Len(buffer[registered])]
  /\ registered' = 0
  /\ UNCHANGED <<made, buffer, log, relayVars, wsVars, notes>>

\* The registry's entry once a channel was made for it (entry().or_insert_with).
\* Mutant: the new channel is not entered.
NoEntry == registered
Entry   == made + 1

\* get_or_create, under the registry's write lock.
WsConnect(k) ==
  /\ wsPc[k] = "closed"
  /\ \/ /\ registered # 0
        /\ wsOn' = [wsOn EXCEPT ![k] = registered]
        /\ UNCHANGED chanVars
     \/ /\ registered = 0
        /\ made < MaxChannels
        /\ made' = made + 1
        /\ registered' = Entry
        /\ wsOn' = [wsOn EXCEPT ![k] = made + 1]
        /\ UNCHANGED cut
  /\ wsPc' = [wsPc EXCEPT ![k] = "snapshot"]
  /\ UNCHANGED <<buffer, log, relayVars, pos, seen, snap, from, notes>>

\* get_buffered_output and its delivery, ...
WsSnapshot(k) ==
  /\ wsPc[k] = "snapshot"
  /\ seen' = [seen EXCEPT ![k] = buffer[wsOn[k]]]
  /\ snap' = [snap EXCEPT ![k] = Len(buffer[wsOn[k]])]
  /\ wsPc' = [wsPc EXCEPT ![k] = "subscribe"]
  /\ UNCHANGED <<chanVars, buffer, log, relayVars, wsOn, pos, from, notes>>

\* A receiver starts after the last message so far.  Mutant: with what the
\* channel still retains.
FirstRetained(c) == IF Len(log[c]) > Capacity THEN Len(log[c]) - Capacity ELSE 0
LastSent(c) == Len(log[c])

\* ... and subscribe.
WsSubscribe(k) ==
  /\ wsPc[k] = "subscribe"
  /\ pos' = [pos EXCEPT ![k] = LastSent(wsOn[k])]
  /\ from' = [from EXCEPT ![k] = LastSent(wsOn[k])]
  /\ wsPc' = [wsPc EXCEPT ![k] = "open"]
  /\ UNCHANGED <<chanVars, buffer, log, relayVars, wsOn, seen, snap, notes>>

Lagging(k) == Len(log[wsOn[k]]) - pos[k] > Capacity

\* recv: the next message, ...
Deliver(k) ==
  LET m == log[wsOn[k]][pos[k] + 1] IN
  /\ pos[k] < Len(log[wsOn[k]])
  /\ ~Lagging(k)
  /\ pos' = [pos EXCEPT ![k] = @ + 1]
  /\ seen' = [seen EXCEPT ![k] = IF m.kind = "output" THEN Append(@, m.n) ELSE @]

\* ... or, if the channel has dropped it, RecvError::Lagged, which moves the
\* receiver to the oldest message retained.  Mutants: the handler resubscribes;
\* the error ends the sender task.
Resubscribe(k) ==
  /\ Lagging(k)
  /\ pos' = [pos EXCEPT ![k] = Len(log[wsOn[k]])]
  /\ UNCHANGED seen
BreakOnLag(k) == FALSE /\ UNCHANGED <<pos, seen>>
SkipLagged(k) ==
  /\ Lagging(k)
  /\ pos' = [pos EXCEPT ![k] = Len(log[wsOn[k]]) - Capacity]
  /\ UNCHANGED seen

\* The sender task of handle_ws.
WsRecv(k) ==
  /\ wsPc[k] = "open"
  /\ Deliver(k) \/ SkipLagged(k)
  /\ UNCHANGED <<chanVars, buffer, log, relayVars, wsPc, wsOn, snap, from, notes>>

\* A ping is answered on the channel: every client of it gets the pong.
WsPing(k) ==
  /\ wsPc[k] = "open"
  /\ notes < MaxNotes
  /\ notes' = notes + 1
  /\ Broadcast(wsOn[k], Other)
  /\ UNCHANGED <<chanVars, buffer, relayVars, wsVars>>

\* The client leaves, or sending to it fails.
WsClose(k) ==
  /\ wsPc[k] # "closed"
  /\ wsPc' = [wsPc EXCEPT ![k] = "closed"]
  /\ wsOn' = [wsOn EXCEPT ![k] = 0]
  /\ pos' = [pos EXCEPT ![k] = 0]
  /\ seen' = [seen EXCEPT ![k] = <<>>]
  /\ snap' = [snap EXCEPT ![k] = 0]
  /\ from' = [from EXCEPT ![k] = 0]
  /\ UNCHANGED <<chanVars, buffer, log, relayVars, notes>>

Next ==
  \/ Announce
  \/ RelayRead \/ RelayPush \/ RelaySend \/ RelayClosed
  \/ Remove
  \/ \E k \in Client : \/ WsConnect(k) \/ WsSnapshot(k) \/ WsSubscribe(k)
                       \/ WsRecv(k) \/ WsPing(k) \/ WsClose(k)

Spec == Init /\ [][Next]_vars

\* A connected client reads what it is sent.
FairSpec == Spec /\ \A k \in Client : WF_vars(WsRecv(k))

----------------------------------------------------------------------------
(* Properties. *)

\* A client gets the lines in the order the agent wrote them, although it
\* gets them from the buffer and from the broadcasts.  The one line that may
\* come twice is the last of the buffer, if it was being sent.
SeenInOrder ==
  \A k \in Client : \A i, j \in DOMAIN seen[k] : i < j =>
    \/ seen[k][i] < seen[k][j]
    \/ seen[k][i] = seen[k][j] /\ i = snap[k] /\ j = i + 1

\* What a client misses was broadcast between its snapshot and its
\* subscription, or was dropped by the channel before the client read it.
MissedOnlyInGapOrLag ==
  \A k \in Client : wsPc[k] = "open" =>
    \A i \in 1 .. pos[k] :
      LET m == log[wsOn[k]][i] IN
      m.kind = "output" =>
        \/ \E j \in DOMAIN seen[k] : seen[k][j] = m.n
        \/ i <= from[k] /\ \A j \in 1 .. snap[k] : seen[k][j] < m.n
        \/ i <= Len(log[wsOn[k]]) - Capacity

\* A stop cuts a task's output off: a removed channel gets at most the line
\* whose sender had already looked it up.
RemovedChannelQuiet ==
  \A c \in Channel : cut[c] # -1 => Len(buffer[c]) <= cut[c] + 1

\* All clients listen to the registered channel, but for those who connected
\* before a remove.
NobodyStranded ==
  \A k \in Client : wsOn[k] # 0 => wsOn[k] = registered \/ cut[wsOn[k]] # -1

\* A client that stays connected catches up with its channel, lagging or not.
CatchesUp ==
  \A k \in Client :
    wsPc[k] = "open" ~> wsPc[k] = "closed" \/ pos[k] = Len(log[wsOn[k]])
=============================================================================
