------------------------------ MODULE AgentLink ------------------------------
(***************************************************************************)
(* One task's agent connection, both ends: VsockRelay in the VM API        *)
(* (api/src/vsock.rs) with the clients that send it input, and the sidecar *)
(* in the VM (vm/agent-sidecar/src/main.rs) with its main thread, its two  *)
(* output threads, its input thread and the Claude Code process.           *)
(*                                                                         *)
(* The vsock connection is a bounded stream each way.  Lines carry numbers *)
(* instead of text: outputs are numbered per pipe as Claude writes them,   *)
(* inputs in the order the relay's queue takes them.                       *)
(***************************************************************************)
EXTENDS Integers, Sequences, FiniteSets

CONSTANTS
  Client,        (* web clients that send input                                *)
  MaxAttempts,   (* MAX_ATTEMPTS: connection attempts that may fail            *)
  QueueCap,      (* capacity of the relay's queue of inputs                    *)
  SockCap,       (* bound on what the connection holds, each way               *)
  MaxInputs,     (* bound on the inputs                                        *)
  MaxOut, MaxErr, (* bounds on what Claude writes to stdout and to stderr      *)
  Faults         (* "setup": the sidecar cannot start Claude; "crash": the     *)
                 (* sidecar dies; "host": the VM API dies                      *)

ASSUME AgentAssumption ==
  /\ MaxAttempts \in Nat
  /\ QueueCap \in Nat \ {0}
  /\ SockCap \in Nat \ {0, 1}
  /\ MaxInputs \in Nat
  /\ MaxOut \in Nat /\ MaxErr \in Nat
  /\ Faults \subseteq {"setup", "crash", "host"}

VARIABLES
  host, attempts,      \* VsockRelay::start
  reader, writer,      \* its two tasks
  queue, writing,      \* inputs queued, and with the writer (0: none)
  sending, sent,       \* clients in send_input; inputs queued so far
  conn, down, up,      \* the connection, to the sidecar and from it
  side, running,       \* the sidecar's main thread; its flag
  claude,              \* the Claude Code process
  outPc, wrote, taken, \* per pipe: its thread, lines written, lines the thread read
  inPc, input,         \* the input thread and the input it holds (0: none)
  swallowed, told,     \* inputs lost with the first reader; inputs given to Claude
  received, ended, erred, crashed   \* history: what the host received; a crash

hostVars  == <<host, attempts, reader, writer, queue, writing, sending, sent>>
sockVars  == <<conn, down, up>>
claudeVars == <<claude, wrote>>
outVars   == <<outPc, taken>>
inVars    == <<inPc, input, swallowed, told>>
history   == <<received, ended, erred, crashed>>
vars == <<hostVars, sockVars, side, running, claudeVars, outVars, inVars, history>>

Pipe == {"stdout", "stderr"}
MaxLines == [stdout |-> MaxOut, stderr |-> MaxErr]
InitMsg == 0          \* what goes down: the Init message, then inputs
Line(p, n) == [kind |-> p, n |-> n]
Error == [kind |-> "error", n |-> 0]
Exit  == [kind |-> "exit", n |-> 0]
Exited == claude \in {"ok", "failed"}

Init ==
  /\ host = "connecting" /\ attempts = 0
  /\ reader = "off" /\ writer = "off"
  /\ queue = <<>> /\ writing = 0 /\ sending = {} /\ sent = 0
  /\ conn = "none" /\ down = <<>> /\ up = <<>>
  /\ side = "off" /\ running = TRUE /\ claude = "none"
  /\ outPc = [p \in Pipe |-> "off"]
  /\ wrote = [p \in Pipe |-> 0] /\ taken = [p \in Pipe |-> 0]
  /\ inPc = "off" /\ input = 0 /\ swallowed = 0 /\ told = <<>>
  /\ received = [p \in Pipe |-> <<>>]
  /\ ended = FALSE /\ erred = FALSE /\ crashed = FALSE

----------------------------------------------------------------------------
(* VsockRelay::start. *)

\* Mutant: the loop has no limit.
GaveUpNever == FALSE
GaveUp == attempts' > MaxAttempts

\* A connection attempt fails while nothing listens in the VM.
HostRefused ==
  /\ host = "connecting"
  /\ side # "listen"
  /\ attempts' = attempts + 1
  /\ host' = IF GaveUp THEN "failed" ELSE "connecting"
  /\ UNCHANGED <<reader, writer, queue, writing, sending, sent, sockVars, side,
                 running, claudeVars, outVars, inVars, history>>

\* It succeeds as soon as the sidecar listens, which accepts it.
HostConnect ==
  /\ host = "connecting"
  /\ side = "listen"
  /\ host' = "init"
  /\ conn' = "open"
  /\ side' = "init"
  /\ UNCHANGED <<attempts, reader, writer, queue, writing, sending, sent, down, up,
                 running, claudeVars, outVars, inVars, history>>

\* The Init message is written and the two tasks are spawned, or the write fails.
HostInit ==
  /\ host = "init"
  /\ \/ /\ conn = "open"
        /\ down' = Append(down, InitMsg)
        /\ host' = "up" /\ reader' = "on" /\ writer' = "idle"
     \/ /\ conn = "shut"
        /\ host' = "failed"
        /\ UNCHANGED <<down, reader, writer>>
  /\ UNCHANGED <<attempts, queue, writing, sending, sent, conn, up, side, running,
                 claudeVars, outVars, inVars, history>>

----------------------------------------------------------------------------
(* The relay's tasks and its clients. *)

\* The reader task: one line, ...
ReaderRead ==
  /\ reader = "on"
  /\ up # <<>>
  /\ LET m == Head(up) IN
     /\ received' = IF m.kind \in Pipe
                    THEN [received EXCEPT ![m.kind] = Append(@, m.n)] ELSE received
     /\ ended' = (ended \/ m = Exit)
     /\ erred' = (erred \/ m = Error)
     /\ reader' = IF m = Exit THEN "ended" ELSE "on"
  /\ up' = Tail(up)
  /\ UNCHANGED <<host, attempts, writer, queue, writing, sending, sent, conn, down,
                 side, running, claudeVars, outVars, inVars, crashed>>

\* ... or the end of the stream.
ReaderEof ==
  /\ reader = "on"
  /\ up = <<>> /\ conn = "shut"
  /\ reader' = "ended"
  /\ UNCHANGED <<host, attempts, writer, queue, writing, sending, sent, sockVars,
                 side, running, claudeVars, outVars, inVars, history>>

\* handle_ws takes an input from a client, once the channel has a sender.
ClientSend(c) ==
  /\ host = "up"
  /\ c \notin sending
  /\ sent + Cardinality(sending) < MaxInputs
  /\ sending' = sending \union {c}
  /\ UNCHANGED <<host, attempts, reader, writer, queue, writing, sent, sockVars,
                 side, running, claudeVars, outVars, inVars, history>>

\* TaskChannel::send_input: into the queue when it has room, or an error when
\* the writer is gone.
ClientSent(c) ==
  /\ c \in sending
  /\ \/ /\ writer # "ended"
        /\ Len(queue) < QueueCap
        /\ queue' = Append(queue, sent + 1)
        /\ sent' = sent + 1
     \/ writer = "ended" /\ UNCHANGED <<queue, sent>>
  /\ sending' = sending \ {c}
  /\ UNCHANGED <<host, attempts, reader, writer, writing, sockVars, side, running,
                 claudeVars, outVars, inVars, history>>

\* The writer task: an input off the queue, ...
WriterTake ==
  /\ writer = "idle"
  /\ queue # <<>>
  /\ writing' = Head(queue)
  /\ queue' = Tail(queue)
  /\ writer' = "write"
  /\ UNCHANGED <<host, attempts, reader, sending, sent, sockVars, side, running,
                 claudeVars, outVars, inVars, history>>

\* What a failed write leaves of the writer.  Mutant: it goes on to the next.
AfterBrokenRetry == "write"
AfterBroken == "ended"

\* ... and onto the connection; when that fails, the writer ends and its
\* queue with it.
WriterWrite ==
  /\ writer = "write"
  /\ \/ /\ conn = "open" /\ Len(down) < SockCap
        /\ down' = Append(down, writing)
        /\ writer' = "idle"
        /\ writing' = 0
        /\ UNCHANGED queue
     \/ /\ conn = "shut"
        /\ writer' = AfterBroken
        /\ queue' = IF writer' = "ended" THEN <<>> ELSE queue
        /\ writing' = IF writer' = "ended" THEN 0 ELSE writing
        /\ UNCHANGED down
  /\ UNCHANGED <<host, attempts, reader, sending, sent, conn, up, side, running,
                 claudeVars, outVars, inVars, history>>

\* The API process dies: the sidecar's reads end and its writes fail.
HostCrash ==
  /\ "host" \in Faults
  /\ host # "dead"
  /\ host' = "dead"
  /\ reader' = "off" /\ writer' = "off"
  /\ queue' = <<>> /\ writing' = 0 /\ sending' = {}
  /\ up' = <<>>
  /\ UNCHANGED <<attempts, sent, conn, down, side, running, claudeVars, outVars,
                 inVars, history>>

----------------------------------------------------------------------------
(* The sidecar's main thread. *)

\* systemd starts it, at boot and 5 s after a failure: listen_vsock.
SideListen ==
  /\ side = "off"
  /\ side' = "listen"
  /\ UNCHANGED <<hostVars, sockVars, running, claudeVars, outVars, inVars, history>>

\* Whether a write to the host can be done: there is room, or it fails.
CanWrite == host = "dead" \/ Len(up) < SockCap
\* What the write leaves on the connection.
Written(m) == IF host = "dead" THEN up ELSE Append(up, m)

\* The lines a BufReader takes off the connection with the Init message: all
\* that are there, or some, and they are dropped with it.
WithInit == 0 .. Len(down) - 1

\* The Init message is read.
SideReadInit ==
  /\ side = "init"
  /\ down # <<>>
  /\ \E n \in WithInit :
       /\ down' = SubSeq(down, n + 2, Len(down))
       /\ swallowed' = n
  /\ side' = "setup"
  /\ UNCHANGED <<hostVars, conn, up, running, claudeVars, outVars, inPc, input,
                 told, history>>

\* What a bail leaves behind: main returns an error and the process exits.
\* Mutant: it does so without a word to the host.
SilentBail == up
Bail == Written(Error)

\* A line that is no Init message (the empty one, if the host died), or a file
\* or process that cannot be made.
SideSetupFails ==
  /\ \/ side = "init" /\ host = "dead" /\ down = <<>>
     \/ side = "setup" /\ "setup" \in Faults
  /\ CanWrite
  /\ up' = Bail
  /\ side' = "off"
  /\ conn' = "shut" /\ down' = <<>>
  /\ UNCHANGED <<hostVars, running, claudeVars, outVars, inVars, history>>

\* Files written, Claude spawned with its prompt, the three threads started.
SideSpawn ==
  /\ side = "setup"
  /\ claude' = "alive"
  /\ outPc' = [stdout |-> "read", stderr |-> "check"]
  /\ inPc' = "check"
  /\ side' = "wait"
  /\ UNCHANGED <<hostVars, sockVars, running, wrote, taken, input, swallowed, told,
                 history>>

\* The main thread after child.wait.  Mutants: no error is sent; the threads
\* are joined before the exit is sent.
AfterWaitQuiet == "exit"
AfterWait == IF claude = "failed" THEN "error" ELSE "exit"
ExitReadyLate == \A p \in Pipe : outPc[p] = "ended" /\ inPc = "ended"
ExitReady == TRUE

SideWait ==
  /\ side = "wait"
  /\ Exited
  /\ running' = FALSE
  /\ side' = AfterWait
  /\ UNCHANGED <<hostVars, sockVars, claudeVars, outVars, inVars, history>>

SideSendError ==
  /\ side = "error"
  /\ CanWrite
  /\ up' = Written(Error)
  /\ side' = "exit"
  /\ UNCHANGED <<hostVars, conn, down, running, claudeVars, outVars, inVars, history>>

SideSendExit ==
  /\ side = "exit"
  /\ CanWrite /\ ExitReady
  /\ up' = Written(Exit)
  /\ side' = "join"
  /\ UNCHANGED <<hostVars, conn, down, running, claudeVars, outVars, inVars, history>>

\* The threads are joined and the process exits, closing the connection.
SideReturn ==
  /\ side = "join"
  /\ inPc = "ended" /\ \A p \in Pipe : outPc[p] = "ended"
  /\ side' = "gone"
  /\ conn' = "shut" /\ down' = <<>>
  /\ UNCHANGED <<hostVars, up, running, claudeVars, outVars, inVars, history>>

\* The sidecar dies; systemd kills what it started.
SideCrash ==
  /\ "crash" \in Faults
  /\ side \in {"init", "setup", "wait", "error", "exit", "join"}
  /\ crashed' = TRUE
  /\ side' = "off"
  /\ running' = TRUE
  /\ claude' = "none"
  /\ outPc' = [p \in Pipe |-> "off"]
  /\ inPc' = "off" /\ input' = 0
  /\ conn' = "shut" /\ down' = <<>>
  /\ UNCHANGED <<hostVars, up, wrote, taken, swallowed, told, received, ended, erred>>

----------------------------------------------------------------------------
(* Claude Code and the threads. *)

ClaudeWrites(p) ==
  /\ claude = "alive"
  /\ wrote[p] < MaxLines[p]
  /\ wrote' = [wrote EXCEPT ![p] = @ + 1]
  /\ UNCHANGED <<hostVars, sockVars, side, running, claude, outVars, inVars, history>>

ClaudeExits ==
  /\ claude = "alive"
  /\ claude' \in {"ok", "failed"}
  /\ UNCHANGED <<hostVars, sockVars, side, running, wrote, outVars, inVars, history>>

\* The stdout thread looks at the flag after it has read a line, which it then
\* drops; the stderr thread before it reads.
After == [stdout |-> [read |-> "check", check |-> "write", write |-> "read"],
          stderr |-> [check |-> "read", read |-> "write", write |-> "check"]]
Goto(p, l) == outPc' = [outPc EXCEPT ![p] = l]

OutRead(p) ==
  /\ outPc[p] = "read"
  /\ \/ /\ taken[p] < wrote[p]
        /\ taken' = [taken EXCEPT ![p] = @ + 1]
        /\ Goto(p, After[p].read)
     \/ /\ taken[p] = wrote[p] /\ Exited
        /\ Goto(p, "ended")
        /\ UNCHANGED taken
  /\ UNCHANGED <<hostVars, sockVars, side, running, claudeVars, inVars, history>>

OutCheck(p) ==
  /\ outPc[p] = "check"
  /\ Goto(p, IF running THEN After[p].check ELSE "ended")
  /\ UNCHANGED <<hostVars, sockVars, side, running, claudeVars, taken, inVars, history>>

\* Mutant: a write that would block drops the line.
MayWriteAnyway == TRUE
MayWrite == CanWrite

OutWrite(p) ==
  /\ outPc[p] = "write"
  /\ MayWrite
  /\ up' = IF CanWrite THEN Written(Line(p, taken[p])) ELSE up
  /\ Goto(p, IF host = "dead" THEN "ended" ELSE After[p].write)
  /\ UNCHANGED <<hostVars, conn, down, side, running, claudeVars, taken, inVars, history>>

InCheck ==
  /\ inPc = "check"
  /\ inPc' = IF running THEN "read" ELSE "ended"
  /\ UNCHANGED <<hostVars, sockVars, side, running, claudeVars, outVars, input,
                 swallowed, told, history>>

\* What one read takes off the connection: the lines up to n, of which the
\* last is kept.  Mutant: a reader made for each line drops what it read ahead.
ReadAhead == 1 .. Len(down)
ReadLine  == {1}

InRead ==
  /\ inPc = "read"
  /\ \/ /\ down # <<>>
        /\ \E n \in ReadLine : down' = SubSeq(down, n + 1, Len(down))
        /\ input' = Head(down)
        /\ inPc' = "write"
     \/ /\ down = <<>> /\ host = "dead"
        /\ inPc' = "ended"
        /\ UNCHANGED <<down, input>>
  /\ UNCHANGED <<hostVars, conn, up, side, running, claudeVars, outVars, swallowed,
                 told, history>>

\* The input reaches Claude's stdin, which may take for ever, ...
InWrite ==
  /\ inPc = "write"
  /\ claude = "alive"
  /\ told' = Append(told, input)
  /\ input' = 0
  /\ inPc' = "check"
  /\ UNCHANGED <<hostVars, sockVars, side, running, claudeVars, outVars, swallowed,
                 history>>

\* ... or there is no longer anybody to read it.
InBroken ==
  /\ inPc = "write"
  /\ Exited
  /\ input' = 0
  /\ inPc' = "ended"
  /\ UNCHANGED <<hostVars, sockVars, side, running, claudeVars, outVars, swallowed,
                 told, history>>

----------------------------------------------------------------------------
Relay ==
  \/ HostRefused \/ HostConnect \/ HostInit
  \/ ReaderRead \/ ReaderEof \/ WriterTake \/ WriterWrite
  \/ \E c \in Client : ClientSent(c)

Sidecar ==
  \/ SideListen \/ SideReadInit \/ SideSetupFails \/ SideSpawn
  \/ SideWait \/ SideSendError \/ SideSendExit \/ SideReturn

Threads ==
  \/ InCheck \/ InRead \/ InBroken
  \/ \E p \in Pipe : OutRead(p) \/ OutCheck(p) \/ OutWrite(p)

Next ==
  \/ Relay \/ Sidecar \/ Threads \/ InWrite
  \/ \E c \in Client : ClientSend(c)
  \/ \E p \in Pipe : ClaudeWrites(p)
  \/ ClaudeExits \/ HostCrash \/ SideCrash

Spec == Init /\ [][Next]_vars

\* Tasks and threads run; nothing is assumed of clients, of Claude (it may
\* neither exit nor read its stdin) and of faults.
FairSpec ==
  /\ Spec
  /\ WF_vars(ReaderRead \/ ReaderEof) /\ WF_vars(WriterTake \/ WriterWrite)
  /\ \A c \in Client : WF_vars(ClientSent(c))
  /\ WF_vars(Sidecar)
  /\ WF_vars(InCheck \/ InRead \/ InBroken)
  /\ \A p \in Pipe : WF_vars(OutRead(p) \/ OutCheck(p) \/ OutWrite(p))

----------------------------------------------------------------------------
(* Properties. *)

TypeOK ==
  /\ host \in {"connecting", "init", "up", "failed", "dead"}
  /\ attempts \in 0 .. MaxAttempts + 1
  /\ reader \in {"off", "on", "ended"}
  /\ writer \in {"off", "idle", "write", "ended"}
  /\ queue \in Seq(1 .. MaxInputs) /\ Len(queue) <= QueueCap
  /\ writing \in 0 .. MaxInputs
  /\ sending \subseteq Client
  /\ sent \in 0 .. MaxInputs
  /\ conn \in {"none", "open", "shut"}
  /\ down \in Seq(0 .. MaxInputs) /\ Len(down) <= SockCap
  /\ up \in Seq([kind : Pipe \union {"error", "exit"}, n : Nat])
  /\ Len(up) <= SockCap
  /\ side \in {"off", "listen", "init", "setup", "wait", "error", "exit", "join", "gone"}
  /\ claude \in {"none", "alive", "ok", "failed"}
  /\ outPc \in [Pipe -> {"off", "read", "check", "write", "ended"}]
  /\ wrote \in [Pipe -> Nat]
  /\ taken \in [Pipe -> Nat]
  /\ \A p \in Pipe : taken[p] <= wrote[p] /\ wrote[p] <= MaxLines[p]
  /\ inPc \in {"off", "check", "read", "write", "ended"}
  /\ input \in 0 .. MaxInputs
  /\ swallowed \in 0 .. MaxInputs
  /\ told \in Seq(1 .. MaxInputs)
  /\ received \in [Pipe -> Seq(Nat)]
  /\ {running, ended, erred, crashed} \subseteq BOOLEAN

Numbers(a, b) == [i \in 1 .. b - a |-> a + i]
OnTheWay(p) == { i \in DOMAIN up : up[i].kind = p }
Held(p) == IF outPc[p] = "write" \/ (p = "stdout" /\ outPc[p] = "check")
           THEN 1 ELSE 0

\* No line of Claude is lost, doubled or reordered between the pipe and the
\* channel while Claude runs, whatever the other writers on the connection do:
\* the host has the first lines of each pipe, and the others, all that its
\* thread has passed on, are on their way in order.
OutputConserved ==
  claude = "alive" /\ side = "wait" /\ host = "up" =>
    \A p \in Pipe :
      LET got == Len(received[p])
          passed == taken[p] - Held(p)
      IN  /\ got <= passed
          /\ received[p] = Numbers(0, got)
          /\ { up[i].n : i \in OnTheWay(p) } = got + 1 .. passed
          /\ \A i, j \in OnTheWay(p) : i < j => up[i].n < up[j].n

\* Inputs reach Claude in the order the relay took them, and none is lost
\* on the way but those the reader of the Init message had read ahead.
One(n) == IF n = 0 THEN <<>> ELSE <<n>>
InputConserved ==
  claude = "alive" /\ host = "up" /\ conn = "open" =>
    told \o One(input) \o down \o One(writing) \o queue = Numbers(swallowed, sent)

\* The host never sees the connection end unexplained: there was an Exit or
\* an Error, or the sidecar crashed.
EndExplained == reader = "ended" => ended \/ erred \/ crashed

\* The Terminated status of an agent that failed comes after an Error.
FailureExplained == ended /\ claude = "failed" => erred

\* When Claude exits, the host gets to know, or loses the connection: the
\* report never waits for the threads the sidecar joins.
ExitReported == Exited ~> reader = "ended" \/ host = "dead"

\* Once Claude has exited, nobody is stuck sending it an input, although it
\* no longer reads and the sidecar waits for its input thread.
SenderFreed == \A c \in Client : Exited /\ c \in sending ~> c \notin sending

=============================================================================
