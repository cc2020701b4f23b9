--------------------------- MODULE AgentLinkProofs ---------------------------
(***************************************************************************)
(* Proofs about AgentLink, for any number of clients, inputs and lines,    *)
(* any capacity of the queue and the connection, and every fault: what     *)
(* goes through the connection, and what the host knows of its end.        *)
(***************************************************************************)
EXTENDS AgentLink, SequenceTheorems, FiniteSetTheorems, TLAPS

Message == [kind : Pipe \union {"error", "exit"}, n : Nat]
Connected == {"init", "setup", "wait", "error", "exit", "join"}

(* The types of the relay: a task of it runs only in a relay that is up, and the       *)
(* inputs of clients come into the queue of a writer that is not done.                 *)
HostOK ==
  /\ host \in {"connecting", "init", "up", "failed", "dead"}
  /\ attempts \in Nat
  /\ attempts <= IF host = "connecting" THEN MaxAttempts ELSE MaxAttempts + 1
  /\ reader \in {"off", "on", "ended"}
  /\ writer \in {"off", "idle", "write", "ended"}
  /\ reader # "off" => host = "up"
  /\ writer # "off" <=> host = "up"
QueueOK ==
  /\ queue \in Seq(Nat \ {0}) /\ Len(queue) <= QueueCap
  /\ writing \in Nat /\ sent \in Nat
  /\ sending \subseteq Client /\ IsFiniteSet(sending)
  /\ sent + Cardinality(sending) <= MaxInputs
  /\ sent # 0 => host \in {"up", "dead"}
  /\ sending # {} => host = "up"
  /\ writer \in {"off", "ended"} => queue = <<>>
  /\ writer = "write" <=> writing # 0
(* The types of the connection; what was closed holds nothing for the sidecar. *)
SockOK ==
  /\ conn \in {"none", "open", "shut"}
  /\ down \in Seq(Nat) /\ Len(down) <= SockCap
  /\ up \in Seq(Message) /\ Len(up) <= SockCap
  /\ conn # "open" => down = <<>>
  /\ host \in {"connecting", "init"} => down = <<>>
(* The types of the sidecar's process and of Claude's. *)
SideOK ==
  /\ side \in {"off", "listen", "init", "setup", "wait", "error", "exit", "join", "gone"}
  /\ claude \in {"none", "alive", "ok", "failed"}
  /\ outPc \in [Pipe -> {"off", "read", "check", "write", "ended"}]
  /\ wrote \in [Pipe -> Nat] /\ taken \in [Pipe -> Nat]
  /\ \A p \in Pipe : taken[p] <= wrote[p] /\ wrote[p] <= MaxLines[p]
  /\ inPc \in {"off", "check", "read", "write", "ended"}
  /\ input \in Nat /\ swallowed \in Nat /\ told \in Seq(Nat)
  /\ inPc = "write" <=> input # 0
  /\ received \in [Pipe -> Seq(Nat)]
FlagsOK == {running, ended, erred, crashed} \subseteq BOOLEAN
LinkTypeOK == HostOK /\ QueueOK /\ SockOK /\ SideOK /\ FlagsOK

(* The sidecar serves one connection in its life, and starts Claude once. *)
PhaseInv ==
  /\ host = "connecting" => conn = "none"
  /\ host = "init" => conn # "none"
  /\ host = "up" => conn # "none"
  /\ conn = "none" => side \in {"off", "listen"}
  /\ conn = "open" <=> side \in Connected
  /\ conn = "open" /\ host = "init" => side = "init"
  /\ side \in {"off", "listen", "init", "setup"} =>
       /\ claude = "none" /\ running /\ inPc = "off"
       /\ \A p \in Pipe : outPc[p] = "off"
  /\ conn = "none" \/ side \in {"init", "setup"} =>
       /\ up = <<>> /\ told = <<>> /\ (side # "setup" => swallowed = 0)
       /\ \A p \in Pipe : taken[p] = 0 /\ wrote[p] = 0 /\ received[p] = <<>>
       /\ ~ended /\ ~erred /\ ~crashed
  /\ claude = "alive" => side = "wait"
  /\ side = "wait" => claude # "none" /\ running
  /\ side \in {"error", "exit", "join", "gone"} => Exited

(* What has been said of the end of the agent, or is on its way to be read. *)
Sent(m) == \E i \in DOMAIN up : up[i] = m
EndInv ==
  /\ side \in {"wait", "error", "exit"} => ~ended /\ ~Sent(Exit)
  /\ side = "error" => claude = "failed"
  /\ side \in {"join", "gone"} /\ host # "dead" => ended \/ Sent(Exit)
  /\ conn = "shut" /\ host # "dead" => ended \/ erred \/ crashed \/ Sent(Exit) \/ Sent(Error)
  /\ claude = "failed" =>
       /\ ended => erred
       /\ \A j \in DOMAIN up : up[j] = Exit => erred \/ \E i \in 1 .. j - 1 : up[i] = Error
       /\ side = "exit" /\ host # "dead" => erred \/ Sent(Error)

(* The inputs: those queued, the one with the writer, those on the connection behind   *)
(* the Init message, the one with the input thread, and those given to Claude.         *)
Behind == IF writing = 0 THEN sent - Len(queue) ELSE sent - Len(queue) - 1
QueueInv ==
  /\ Behind \in Nat
  /\ \A i \in 1 .. Len(queue) : queue[i] = sent - Len(queue) + i
  /\ writing # 0 => writing = sent - Len(queue)
InitInv ==
  /\ \A i \in 1 .. Len(down) : down[i] = i - 1
  /\ Len(down) <= Behind + 1
  /\ host = "up" => Len(down) = Behind + 1
PastInv ==
  /\ side # "init" => \A i \in 1 .. Len(down) : down[i] \in 1 .. Behind
  /\ input <= Behind /\ swallowed <= Behind
  /\ \A i \in 1 .. Len(told) : told[i] \in 1 .. Behind
Ordered(d, i, t, w, b) ==
  /\ \A k \in 1 .. Len(d) : d[k] = b - Len(d) + k
  /\ i # 0 => i = b - Len(d)
  /\ \A k \in 1 .. Len(t) : t[k] = w + k
  /\ w + Len(t) = IF i = 0 THEN b - Len(d) ELSE b - Len(d) - 1
OrderInv == Ordered(down, input, told, swallowed, Behind)
Served == side \in {"setup", "wait"} /\ claude \in {"none", "alive"} /\ host = "up"
InputInv ==
  /\ QueueInv /\ PastInv
  /\ side = "init" => InitInv
  /\ Served => OrderInv

LinkInv ==
  /\ LinkTypeOK /\ PhaseInv /\ EndInv /\ EndExplained
  /\ InputInv /\ OutputConserved

(* What the assumption says of the constants. *)
LEMMA Constants ==
  /\ MaxAttempts \in Nat /\ QueueCap \in Nat /\ SockCap \in Nat /\ SockCap >= 2
  /\ MaxInputs \in Nat /\ MaxOut \in Nat /\ MaxErr \in Nat
  /\ \A p \in Pipe : MaxLines[p] \in Nat
BY AgentAssumption DEF Pipe, MaxLines

(* The invariant holds when the API and the VM have just started. *)
LEMMA LinkInit == Init => LinkInv
<1> SUFFICES ASSUME Init PROVE LinkInv
  OBVIOUS
<1> USE Constants DEF Init
<1>1. HostOK
  BY DEF HostOK
<1>2. QueueOK
  BY FS_EmptySet DEF QueueOK
<1>3. SockOK
  BY DEF SockOK
<1>4. SideOK
  <2>1. \A p \in Pipe : wrote[p] = 0 /\ taken[p] = 0
    OBVIOUS
  <2> QED BY <2>1 DEF SideOK
<1>9. FlagsOK
  BY DEF FlagsOK
<1>5. PhaseInv
  BY DEF PhaseInv, Connected
<1>6. EndInv
  BY DEF EndInv
<1>7. InputInv
  BY DEF InputInv, QueueInv, PastInv, InitInv, OrderInv, Ordered, Served, Behind
<1>8. OutputConserved
  BY DEF OutputConserved
<1>10. EndExplained
  BY DEF EndExplained
<1> QED
  BY <1>1, <1>2, <1>3, <1>4, <1>5, <1>6, <1>7, <1>8, <1>9, <1>10 DEF LinkInv, LinkTypeOK

(* The steps of the sidecar, its threads and Claude leave the relay alone, ... *)
SideStep ==
  \/ Sidecar \/ Threads \/ InWrite \/ ClaudeExits \/ SideCrash
  \/ \E p \in Pipe : ClaudeWrites(p)
(* The sidecar and Claude write nothing of the relay, ... *)
LEMMA SideKeeps == SideStep => UNCHANGED hostVars
<1>1. Sidecar => UNCHANGED hostVars
  BY DEF Sidecar, SideListen, SideReadInit, SideSetupFails, SideSpawn, SideWait, SideSendError,
         SideSendExit, SideReturn
<1>2. ASSUME NEW p \in Pipe, OutRead(p) \/ OutCheck(p) \/ OutWrite(p) \/ ClaudeWrites(p)
      PROVE  UNCHANGED hostVars
  BY <1>2 DEF OutRead, OutCheck, OutWrite, ClaudeWrites
<1>3. InCheck \/ InRead \/ InBroken \/ InWrite \/ ClaudeExits \/ SideCrash => UNCHANGED hostVars
  BY DEF InCheck, InRead, InBroken, InWrite, ClaudeExits, SideCrash
<1> QED BY <1>1, <1>2, <1>3 DEF SideStep, Threads

(* ... and the relay and its clients leave the sidecar and Claude alone. *)
sideVars == <<side, running, claudeVars, outVars, inVars, crashed>>
HostStep ==
  \/ HostRefused \/ HostInit \/ ReaderRead \/ ReaderEof \/ WriterTake \/ WriterWrite \/ HostCrash
  \/ \E c \in Client : ClientSend(c) \/ ClientSent(c)
(* ... the relay nothing of theirs, ... *)
LEMMA HostKeeps == HostStep => UNCHANGED sideVars
<1> USE DEF sideVars, history
<1>1. ASSUME NEW c \in Client, ClientSend(c) \/ ClientSent(c)
      PROVE  UNCHANGED sideVars
  BY <1>1 DEF ClientSend, ClientSent
<1>2. HostRefused \/ HostInit \/ ReaderRead \/ ReaderEof \/ WriterTake \/ WriterWrite \/ HostCrash
        => UNCHANGED sideVars
  BY DEF HostRefused, HostInit, ReaderRead, ReaderEof, WriterTake, WriterWrite, HostCrash
<1> QED BY <1>1, <1>2 DEF HostStep

(* ... and only the connection is made by both. *)
LEMMA Steps ==
  ASSUME [Next]_vars
  PROVE  SideStep \/ HostStep \/ HostConnect \/ UNCHANGED vars
BY DEF Next, SideStep, HostStep, Relay

(* The relay keeps its types, ... *)
LEMMA HostOKStep ==
  ASSUME LinkTypeOK, [Next]_vars
  PROVE  HostOK'
<1> USE Constants DEF LinkTypeOK, HostOK
<1>1. CASE UNCHANGED hostVars
  BY <1>1 DEF hostVars
<1>2. CASE HostRefused
  BY <1>2 DEF HostRefused, GaveUp
<1>3. CASE HostConnect \/ HostInit
  BY <1>3 DEF HostConnect, HostInit
<1>4. CASE ReaderRead \/ ReaderEof
  BY <1>4 DEF ReaderRead, ReaderEof
<1>5. CASE WriterTake \/ WriterWrite
  BY <1>5 DEF WriterTake, WriterWrite, AfterBroken
<1>6. CASE HostCrash
  BY <1>6 DEF HostCrash
<1>7. ASSUME NEW c \in Client, ClientSend(c) \/ ClientSent(c)
      PROVE  UNCHANGED <<host, attempts, reader, writer>>
  BY <1>7 DEF ClientSend, ClientSent
<1>8. CASE UNCHANGED <<host, attempts, reader, writer>>
  BY <1>8
<1> QED BY <1>1, <1>2, <1>3, <1>4, <1>5, <1>6, <1>7, <1>8, Steps, SideKeeps DEF HostStep, vars

(* ... the inputs theirs, with the bounds on them, ... *)
LEMMA QueueOKStep ==
  ASSUME LinkTypeOK, [Next]_vars
  PROVE  QueueOK'
<1> USE Constants
<1>0. QueueOK /\ HostOK
  BY DEF LinkTypeOK
<1>1. CASE UNCHANGED <<host, writer, queue, writing, sending, sent>>
  BY <1>0, <1>1 DEF QueueOK
<1>2. CASE HostRefused \/ HostConnect \/ HostInit
  BY <1>0, <1>2 DEF HostRefused, GaveUp, HostConnect, HostInit, QueueOK, HostOK
<1>3. CASE WriterTake
  <2>1. /\ queue # <<>> /\ writing' = Head(queue) /\ queue' = Tail(queue) /\ writer' = "write"
        /\ UNCHANGED <<host, sending, sent>>
    BY <1>3 DEF WriterTake
  <2>2. /\ Tail(queue) \in Seq(Nat \ {0}) /\ Len(Tail(queue)) <= QueueCap
        /\ Head(queue) \in Nat \ {0}
    BY <1>0, <2>1 DEF QueueOK
  <2> QED BY <1>0, <2>1, <2>2 DEF QueueOK
<1>4. CASE WriterWrite
  <2>1. UNCHANGED <<host, sending, sent>>
    BY <1>4 DEF WriterWrite
  <2>2. CASE writer' = "idle" /\ writing' = 0 /\ UNCHANGED queue
    BY <1>0, <2>1, <2>2 DEF QueueOK
  <2>3. CASE writer' = "ended" /\ queue' = <<>> /\ writing' = 0
    <3>1. <<>> \in Seq(Nat \ {0}) /\ Len(<<>>) = 0
      OBVIOUS
    <3> QED BY <1>0, <2>1, <2>3, <3>1 DEF QueueOK
  <2> QED BY <1>4, <2>2, <2>3 DEF WriterWrite, AfterBroken
<1>5. CASE HostCrash
  <2>1. /\ host' = "dead" /\ writer' = "off" /\ queue' = <<>> /\ writing' = 0 /\ sending' = {}
        /\ UNCHANGED sent
    BY <1>5 DEF HostCrash
  <2>2. sent \in Nat /\ sent <= MaxInputs
    <3>1. Cardinality(sending) \in Nat
      BY <1>0, FS_CardinalityType DEF QueueOK
    <3> QED BY <1>0, <3>1 DEF QueueOK
  <2>3. IsFiniteSet({}) /\ Cardinality({}) = 0
    BY FS_EmptySet
  <2> QED BY <1>0, <2>1, <2>2, <2>3 DEF QueueOK
<1>6. ASSUME NEW c \in Client, ClientSend(c)
      PROVE  QueueOK'
  <2>1. /\ host = "up" /\ c \notin sending /\ sent + Cardinality(sending) < MaxInputs
        /\ sending' = sending \union {c} /\ UNCHANGED <<host, writer, queue, writing, sent>>
    BY <1>6 DEF ClientSend
  <2>2. IsFiniteSet(sending') /\ Cardinality(sending') = Cardinality(sending) + 1
    BY <1>0, <2>1, FS_AddElement DEF QueueOK
  <2>3. Cardinality(sending) \in Nat
    BY <1>0, FS_CardinalityType DEF QueueOK
  <2> QED BY <1>0, <2>1, <2>2, <2>3 DEF QueueOK
<1>7. ASSUME NEW c \in Client, ClientSent(c)
      PROVE  QueueOK'
  <2>1. /\ c \in sending /\ sending' = sending \ {c} /\ UNCHANGED <<host, writer, writing>>
        /\ \/ /\ writer # "ended" /\ Len(queue) < QueueCap
              /\ queue' = Append(queue, sent + 1) /\ sent' = sent + 1
           \/ UNCHANGED <<queue, sent>>
    BY <1>7 DEF ClientSent
  <2>2. /\ IsFiniteSet(sending') /\ Cardinality(sending') = Cardinality(sending) - 1
        /\ Cardinality(sending) \in Nat
    BY <1>0, <2>1, FS_RemoveElement, FS_CardinalityType DEF QueueOK
  <2>3. host = "up" /\ sending # {}
    BY <1>0, <2>1 DEF QueueOK
  <2>4. CASE UNCHANGED <<queue, sent>>
    BY <1>0, <2>1, <2>2, <2>3, <2>4 DEF QueueOK
  <2>5. CASE /\ writer # "ended" /\ Len(queue) < QueueCap
             /\ queue' = Append(queue, sent + 1) /\ sent' = sent + 1
    <3>1. writer # "off"
      BY <1>0, <2>1, <2>3 DEF QueueOK, HostOK
    <3>2. Append(queue, sent + 1) \in Seq(Nat \ {0}) /\ Len(queue') = Len(queue) + 1
          /\ Len(queue) \in Nat
      BY <1>0, <2>5 DEF QueueOK
    <3>3. sent' + Cardinality(sending') <= MaxInputs /\ sent' \in Nat
      BY <1>0, <2>2, <2>5 DEF QueueOK
    <3> QED BY <1>0, <2>1, <2>2, <2>3, <2>5, <3>1, <3>2, <3>3 DEF QueueOK
  <2> QED BY <2>1, <2>4, <2>5
<1>8. CASE ReaderRead \/ ReaderEof
  BY <1>1, <1>8 DEF ReaderRead, ReaderEof
<1>9. CASE SideStep \/ UNCHANGED vars
  BY <1>1, <1>9, SideKeeps DEF hostVars, vars
<1> QED BY <1>2, <1>3, <1>4, <1>5, <1>6, <1>7, <1>8, <1>9, Steps DEF HostStep

(* ... the connection its own, ... *)
LEMMA SockOKStep ==
  ASSUME LinkTypeOK, PhaseInv, [Next]_vars
  PROVE  SockOK'
<1> USE Constants DEF sockVars
<1>0. SockOK /\ HostOK /\ QueueOK /\ SideOK
  BY DEF LinkTypeOK
<1>1. CASE UNCHANGED <<host, conn, down, up>>
  BY <1>0, <1>1 DEF SockOK
<1>2. CASE HostRefused \/ HostConnect \/ HostCrash
  <2>1. CASE HostRefused
    BY <1>0, <2>1 DEF HostRefused, GaveUp, SockOK
  <2>2. CASE HostConnect
    BY <1>0, <2>2 DEF HostConnect, SockOK
  <2>3. CASE HostCrash
    <3>1. /\ host' = "dead" /\ up' = <<>> /\ UNCHANGED <<conn, down>>
      BY <2>3 DEF HostCrash
    <3>2. up' \in Seq(Message) /\ Len(up') <= SockCap
      BY <3>1
    <3> QED BY <1>0, <3>1, <3>2 DEF SockOK
  <2> QED BY <1>2, <2>1, <2>2, <2>3
<1>3. CASE HostInit
  <2>1. /\ host = "init" /\ host' \in {"up", "failed"} /\ UNCHANGED <<conn, up>> /\ down = <<>>
    BY <1>0, <1>3 DEF HostInit, SockOK
  <2>2. CASE conn = "open" /\ down' = Append(down, InitMsg)
    <3>1. down' \in Seq(Nat) /\ Len(down') = 1
      BY <2>1, <2>2 DEF InitMsg
    <3> QED BY <1>0, <2>1, <2>2, <3>1 DEF SockOK
  <2>3. CASE UNCHANGED down
    BY <1>0, <2>1, <2>3 DEF SockOK
  <2> QED BY <1>3, <2>2, <2>3 DEF HostInit
<1>4. CASE ReaderRead
  <2>1. up # <<>> /\ up' = Tail(up) /\ UNCHANGED <<host, conn, down>>
    BY <1>4 DEF ReaderRead
  <2>2. Tail(up) \in Seq(Message) /\ Len(Tail(up)) <= SockCap
    BY <1>0, <2>1 DEF SockOK
  <2> QED BY <1>0, <2>1, <2>2 DEF SockOK
<1>5. CASE WriterWrite
  <2>1. /\ writer = "write" /\ UNCHANGED <<host, conn, up>>
        /\ \/ conn = "open" /\ Len(down) < SockCap /\ down' = Append(down, writing)
           \/ UNCHANGED down
    BY <1>5 DEF WriterWrite
  <2>2. host = "up"
    BY <1>0, <2>1 DEF HostOK
  <2>3. Len(down) < SockCap =>
          Append(down, writing) \in Seq(Nat) /\ Len(Append(down, writing)) <= SockCap
    BY <1>0 DEF SockOK, QueueOK
  <2> QED BY <1>0, <2>1, <2>2, <2>3 DEF SockOK
(* The sidecar writes a message when there is room for it, or the host is dead. *)
<1>6. ASSUME NEW m \in Message, CanWrite, up' = Written(m), UNCHANGED host,
             conn' = conn \/ (conn' = "shut" /\ down' = <<>>), down' = down \/ down' = <<>>
      PROVE  SockOK'
  <2>1. up' \in Seq(Message) /\ Len(up') <= SockCap
    <3>1. CASE host = "dead"
      BY <1>0, <1>6, <3>1 DEF SockOK, Written
    <3>2. CASE host # "dead"
      <4>1. Len(up) < SockCap /\ up' = Append(up, m) /\ up \in Seq(Message)
        BY <1>0, <1>6, <3>2 DEF CanWrite, Written, SockOK
      <4> QED BY <4>1
    <3> QED BY <3>1, <3>2
  <2>2. down' \in Seq(Nat) /\ Len(down') <= SockCap
    <3>1. CASE down' = <<>>
      BY <3>1
    <3>2. CASE down' = down
      BY <1>0, <3>2 DEF SockOK
    <3> QED BY <1>6, <3>1, <3>2
  <2>3. conn' \in {"none", "open", "shut"} /\ (conn' # "open" => down' = <<>>)
    BY <1>0, <1>6 DEF SockOK
  <2>4. host' \in {"connecting", "init"} => down' = <<>>
    BY <1>0, <1>6 DEF SockOK
  <2> QED BY <2>1, <2>2, <2>3, <2>4 DEF SockOK
<1>7. /\ Error \in Message /\ Exit \in Message
      /\ \A p \in Pipe : Line(p, taken[p]) \in Message
  BY <1>0 DEF Error, Exit, Line, Message, SideOK
<1>8. CASE SideSetupFails \/ SideSendError \/ SideSendExit
  <2>1. UNCHANGED host
    BY <1>8 DEF SideSetupFails, SideSendError, SideSendExit, hostVars
  <2> QED BY <1>6, <1>7, <1>8, <2>1 DEF SideSetupFails, SideSendError, SideSendExit, Bail
<1>9. ASSUME NEW p \in Pipe, OutWrite(p)
      PROVE  SockOK'
  <2>1. CanWrite /\ up' = Written(Line(p, taken[p])) /\ UNCHANGED <<host, conn, down>>
    BY <1>9 DEF OutWrite, MayWrite, hostVars
  <2> QED BY <1>6, <1>7, <2>1
<1>10. CASE SideReturn \/ SideCrash
  <2>1. conn' = "shut" /\ down' = <<>> /\ UNCHANGED <<host, up>>
    BY <1>10 DEF SideReturn, SideCrash, hostVars
  <2>2. <<>> \in Seq(Nat) /\ Len(<<>>) = 0
    OBVIOUS
  <2> QED BY <1>0, <2>1, <2>2 DEF SockOK
(* What is read off the connection leaves the rest. *)
<1>11. CASE SideReadInit \/ InRead
  <2>1. UNCHANGED <<host, conn, up>>
    BY <1>11 DEF SideReadInit, InRead, hostVars
  <2>2. down' = down \/ \E n \in Nat : n >= 1 /\ n <= Len(down) /\ down' = SubSeq(down, n + 1, Len(down))
    <3>1. CASE SideReadInit
      <4>1. PICK n \in 0 .. Len(down) - 1 : down' = SubSeq(down, n + 2, Len(down))
        BY <3>1 DEF SideReadInit, WithInit
      <4>2. n + 1 \in Nat /\ n + 1 >= 1 /\ n + 1 <= Len(down) /\ n + 2 = (n + 1) + 1
        BY <1>0 DEF SockOK
      <4> QED BY <4>1, <4>2
    <3>2. CASE InRead /\ down # <<>>
      <4>1. down' = SubSeq(down, 1 + 1, Len(down))
        BY <3>2 DEF InRead, ReadLine
      <4>2. 1 <= Len(down)
        BY <1>0, <3>2 DEF SockOK
      <4> QED BY <4>1, <4>2
    <3>3. CASE InRead /\ down = <<>>
      BY <3>3 DEF InRead
    <3> QED BY <1>11, <3>1, <3>2, <3>3
  <2>3. CASE down' = down
    BY <1>1, <2>1, <2>3
  <2>4. ASSUME NEW n \in Nat, n >= 1, n <= Len(down), down' = SubSeq(down, n + 1, Len(down))
        PROVE  SockOK'
    <3>1. down \in Seq(Nat) /\ Len(down) \in Nat /\ down # <<>> /\ Len(down) <= SockCap
      BY <1>0, <2>4 DEF SockOK
    <3>2. SubSeq(down, n + 1, Len(down)) \in Seq(Nat) /\ Len(SubSeq(down, n + 1, Len(down))) = Len(down) - n
      BY <2>4, <3>1, SubSeqProperties
    <3>3. Len(down') <= SockCap
      BY <2>4, <3>1, <3>2
    <3> QED BY <1>0, <2>1, <2>4, <3>1, <3>2, <3>3 DEF SockOK
  <2> QED BY <2>2, <2>3, <2>4
<1>12. CASE SideListen \/ SideSpawn \/ SideWait
  BY <1>1, <1>12 DEF SideListen, SideSpawn, SideWait, hostVars
<1>13. CASE InCheck \/ InBroken \/ InWrite \/ ClaudeExits
  BY <1>1, <1>13 DEF InCheck, InBroken, InWrite, ClaudeExits, hostVars
<1>14. ASSUME NEW p \in Pipe, OutRead(p) \/ OutCheck(p) \/ ClaudeWrites(p)
       PROVE  UNCHANGED <<host, conn, down, up>>
  BY <1>14 DEF OutRead, OutCheck, ClaudeWrites, hostVars
<1>15. SideStep => SockOK'
  BY <1>1, <1>8, <1>9, <1>10, <1>11, <1>12, <1>13, <1>14 DEF SideStep, Sidecar, Threads
<1>16. CASE ReaderEof \/ WriterTake
  BY <1>1, <1>16 DEF ReaderEof, WriterTake
<1>17. ASSUME NEW c \in Client, ClientSend(c) \/ ClientSent(c)
       PROVE  UNCHANGED <<host, conn, down, up>>
  BY <1>17 DEF ClientSend, ClientSent
<1>18. HostStep => SockOK'
  BY <1>1, <1>2, <1>3, <1>4, <1>5, <1>16, <1>17 DEF HostStep
<1>19. UNCHANGED vars => SockOK'
  BY <1>1 DEF vars, hostVars
<1> QED BY <1>2, <1>15, <1>18, <1>19, Steps

(* ... and so do the flags. *)
LEMMA FlagsOKStep ==
  ASSUME FlagsOK, [Next]_vars
  PROVE  FlagsOK'
<1> USE DEF FlagsOK
<1>1. CASE UNCHANGED <<running, ended, erred, crashed>>
  BY <1>1
<1>2. CASE ReaderRead
  BY <1>2 DEF ReaderRead
<1>3. CASE SideWait
  BY <1>3 DEF SideWait, history
<1>4. CASE SideCrash
  BY <1>4 DEF SideCrash
<1>5. HostRefused \/ HostConnect \/ HostInit \/ ReaderEof \/ WriterTake \/ WriterWrite \/ HostCrash
        => UNCHANGED <<running, ended, erred, crashed>>
  BY DEF HostRefused, HostConnect, HostInit, ReaderEof, WriterTake, WriterWrite, HostCrash, history
<1>6. ASSUME NEW c \in Client, ClientSend(c) \/ ClientSent(c)
      PROVE  UNCHANGED <<running, ended, erred, crashed>>
  BY <1>6 DEF ClientSend, ClientSent, history
<1>7. SideListen \/ SideReadInit \/ SideSetupFails \/ SideSpawn \/ SideSendError \/ SideSendExit
        \/ SideReturn => UNCHANGED <<running, ended, erred, crashed>>
  BY DEF SideListen, SideReadInit, SideSetupFails, SideSpawn, SideSendError, SideSendExit, SideReturn,
         history
<1>8. InCheck \/ InRead \/ InBroken \/ InWrite \/ ClaudeExits \/ UNCHANGED vars
        => UNCHANGED <<running, ended, erred, crashed>>
  BY DEF InCheck, InRead, InBroken, InWrite, ClaudeExits, vars, history
<1>9. ASSUME NEW p \in Pipe, OutRead(p) \/ OutCheck(p) \/ OutWrite(p) \/ ClaudeWrites(p)
      PROVE  UNCHANGED <<running, ended, erred, crashed>>
  BY <1>9 DEF OutRead, OutCheck, OutWrite, ClaudeWrites, history
<1> QED BY <1>1, <1>2, <1>3, <1>4, <1>5, <1>6, <1>7, <1>8, <1>9
        DEF Next, Relay, Sidecar, Threads

(* The order of an output thread's three steps: the two pipes start it differently. *)
LEMMA PipeTypes ==
  /\ Pipe = {"stdout", "stderr"}
  /\ After["stdout"] = [read |-> "check", check |-> "write", write |-> "read"]
  /\ After["stderr"] = [check |-> "read", read |-> "write", write |-> "check"]
  /\ \A p \in Pipe : /\ After[p].read \in {"check", "write"}
                     /\ After[p].check \in {"read", "write"}
                     /\ After[p].write \in {"read", "check"}
BY DEF Pipe, After

(* The sidecar and Claude keep their types. *)
LEMMA SideOKStep ==
  ASSUME LinkTypeOK, PhaseInv, InputInv, [Next]_vars
  PROVE  SideOK'
<1> USE Constants DEF claudeVars, outVars, inVars, history, sockVars
<1>0. SideOK /\ SockOK /\ QueueOK /\ \A p \in Pipe : MaxLines[p] \in Nat
  BY DEF LinkTypeOK
<1>1. CASE UNCHANGED <<side, claudeVars, outVars, inVars, received>>
  BY <1>0, <1>1 DEF SideOK
<1>2. CASE UNCHANGED <<claudeVars, outVars, inVars, received>>
           /\ side' \in {"off", "listen", "init", "setup", "wait", "error", "exit", "join", "gone"}
  BY <1>0, <1>2 DEF SideOK
<1>3. CASE HostConnect \/ SideListen \/ SideSetupFails \/ SideWait \/ SideSendError \/ SideSendExit
           \/ SideReturn
  BY <1>2, <1>3 DEF HostConnect, SideListen, SideSetupFails, SideWait, AfterWait, SideSendError,
                    SideSendExit, SideReturn
<1>4. CASE ReaderRead
  <2>1. /\ up # <<>> /\ UNCHANGED <<side, claudeVars, outVars, inVars>>
        /\ received' = IF Head(up).kind \in Pipe
                       THEN [received EXCEPT ![Head(up).kind] = Append(received[Head(up).kind], Head(up).n)]
                       ELSE received
    BY <1>4 DEF ReaderRead
  <2>2. Head(up) \in Message
    BY <1>0, <2>1 DEF SockOK
  <2>3. Head(up).n \in Nat
    BY <2>2 DEF Message
  <2>4. received' \in [Pipe -> Seq(Nat)]
    <3> DEFINE k == Head(up).kind
               v == Append(received[k], Head(up).n)
    <3>1. k \in Pipe => v \in Seq(Nat)
      BY <1>0, <2>3 DEF SideOK
    <3> HIDE DEF v, k
    <3>2. received' = IF k \in Pipe THEN [received EXCEPT ![k] = v] ELSE received
      BY <2>1 DEF k, v
    <3> QED BY <1>0, <3>1, <3>2 DEF SideOK
  <2> QED BY <1>0, <2>1, <2>4 DEF SideOK
<1>5. CASE SideReadInit
  <2>1. PICK n \in 0 .. Len(down) - 1 : swallowed' = n
    BY <1>5 DEF SideReadInit, WithInit
  <2>2. n \in Nat /\ UNCHANGED <<claudeVars, outVars, inPc, input, told, received>> /\ side' = "setup"
    BY <1>0, <1>5 DEF SideReadInit, SockOK
  <2> QED BY <1>0, <2>1, <2>2 DEF SideOK
<1>6. CASE SideSpawn
  <2>1. /\ side' = "wait" /\ claude' = "alive" /\ inPc' = "check" /\ side = "setup"
        /\ outPc' = [stdout |-> "read", stderr |-> "check"]
        /\ UNCHANGED <<wrote, taken, input, swallowed, told, received>>
    BY <1>6 DEF SideSpawn
  <2>2. outPc' \in [Pipe -> {"off", "read", "check", "write", "ended"}]
    BY <2>1, PipeTypes
  <2>3. inPc = "off"
    BY <2>1 DEF PhaseInv
  <2> QED BY <1>0, <2>1, <2>2, <2>3 DEF SideOK
<1>7. CASE SideCrash
  <2>1. /\ side' = "off" /\ claude' = "none" /\ inPc' = "off" /\ input' = 0
        /\ outPc' = [p \in Pipe |-> "off"]
        /\ UNCHANGED <<wrote, taken, swallowed, told, received>>
    BY <1>7 DEF SideCrash
  <2> QED BY <1>0, <2>1 DEF SideOK
<1>8. ASSUME NEW p \in Pipe, ClaudeWrites(p)
      PROVE  SideOK'
  <2>1. /\ wrote[p] < MaxLines[p] /\ wrote' = [wrote EXCEPT ![p] = wrote[p] + 1]
        /\ UNCHANGED <<side, claude, outVars, inVars, received>>
    BY <1>8 DEF ClaudeWrites
  <2>2. wrote[p] + 1 \in Nat /\ wrote[p] + 1 <= MaxLines[p] /\ taken[p] <= wrote[p] + 1
    BY <1>0, <2>1 DEF SideOK
  <2> QED BY <1>0, <2>1, <2>2 DEF SideOK
<1>9. CASE ClaudeExits
  BY <1>0, <1>9 DEF ClaudeExits, SideOK
<1>10. ASSUME NEW p \in Pipe, OutRead(p)
       PROVE  SideOK'
  <2>1. CASE /\ taken[p] < wrote[p] /\ taken' = [taken EXCEPT ![p] = taken[p] + 1]
             /\ outPc' = [outPc EXCEPT ![p] = After[p].read]
    <3>1. taken[p] + 1 \in Nat /\ taken[p] + 1 <= wrote[p]
      BY <1>0, <2>1 DEF SideOK
    <3>2. UNCHANGED <<side, claudeVars, inVars, received>>
      BY <1>10 DEF OutRead
    <3> QED BY <1>0, <2>1, <3>1, <3>2, PipeTypes DEF SideOK
  <2>2. CASE outPc' = [outPc EXCEPT ![p] = "ended"] /\ UNCHANGED taken
    BY <1>0, <1>10, <2>2 DEF OutRead, SideOK
  <2> QED BY <1>10, <2>1, <2>2 DEF OutRead, Goto
<1>11. ASSUME NEW p \in Pipe, OutCheck(p) \/ OutWrite(p)
       PROVE  SideOK'
  <2>1. /\ UNCHANGED <<side, claudeVars, taken, inVars, received>>
        /\ \E l \in {"read", "check", "write", "ended"} : outPc' = [outPc EXCEPT ![p] = l]
    BY <1>11, PipeTypes DEF OutCheck, OutWrite, Goto
  <2> QED BY <1>0, <2>1 DEF SideOK
<1>12. CASE InCheck
  BY <1>0, <1>12 DEF InCheck, SideOK
<1>13. CASE InRead
  <2>1. inPc = "read" /\ side # "init"
    BY <1>13 DEF InRead, PhaseInv
  <2>2. CASE down # <<>> /\ input' = Head(down) /\ inPc' = "write"
    <3>1. Head(down) \in Nat \ {0}
      <4>1. 1 \in DOMAIN down /\ Head(down) = down[1] /\ Head(down) \in Nat
        BY <1>0, <2>2 DEF SockOK
      <4>2. down[1] # 0
        <5>1. Behind \in Int
          BY <1>0 DEF QueueOK, Behind
        <5> QED BY <2>1, <4>1, <5>1 DEF InputInv, PastInv
      <4> QED BY <4>1, <4>2
    <3> QED BY <1>0, <1>13, <2>2, <3>1 DEF InRead, SideOK
  <2>3. CASE inPc' = "ended" /\ UNCHANGED input
    BY <1>0, <1>13, <2>1, <2>3 DEF InRead, SideOK
  <2> QED BY <1>13, <2>2, <2>3 DEF InRead
<1>14. CASE InWrite
  <2>1. told' = Append(told, input) /\ input' = 0 /\ inPc' = "check"
        /\ UNCHANGED <<side, claudeVars, outVars, swallowed, received>>
    BY <1>14 DEF InWrite
  <2>2. told' \in Seq(Nat)
    BY <1>0, <2>1 DEF SideOK
  <2> QED BY <1>0, <2>1, <2>2 DEF SideOK
<1>15. CASE InBroken
  BY <1>0, <1>15 DEF InBroken, SideOK
<1>16. SideStep => SideOK'
  BY <1>3, <1>5, <1>6, <1>7, <1>8, <1>9, <1>10, <1>11, <1>12, <1>13, <1>14, <1>15
     DEF SideStep, Sidecar, Threads
<1>17. HostRefused \/ HostInit \/ ReaderEof \/ WriterTake \/ WriterWrite \/ HostCrash
         => UNCHANGED <<side, claudeVars, outVars, inVars, received>>
  BY DEF HostRefused, HostInit, ReaderEof, WriterTake, WriterWrite, HostCrash
<1>18. ASSUME NEW c \in Client, ClientSend(c) \/ ClientSent(c)
       PROVE  UNCHANGED <<side, claudeVars, outVars, inVars, received>>
  BY <1>18 DEF ClientSend, ClientSent
<1>19. HostStep => SideOK'
  BY <1>1, <1>4, <1>17, <1>18 DEF HostStep
<1>20. UNCHANGED vars => SideOK'
  BY <1>1 DEF vars
<1> QED BY <1>3, <1>16, <1>19, <1>20, Steps

(* The stages of the two ends agree. *)
LEMMA PhaseStep ==
  ASSUME LinkTypeOK, PhaseInv, [Next]_vars
  PROVE  PhaseInv'
<1> USE DEF claudeVars, outVars, inVars, history, sockVars, hostVars, Connected, Exited
<1>0. SideOK /\ SockOK /\ QueueOK /\ HostOK /\ FlagsOK
  BY DEF LinkTypeOK
<1>1. CASE UNCHANGED <<host, conn, up, side, running, claudeVars, outPc, taken, inPc, told,
                       swallowed, received, ended, erred, crashed>>
  BY <1>1 DEF PhaseInv
<1>2. CASE HostRefused \/ HostInit
  BY <1>0, <1>2 DEF HostRefused, HostInit, PhaseInv
<1>3. CASE HostConnect
  BY <1>3 DEF HostConnect, PhaseInv
<1>4. CASE HostCrash
  BY <1>4 DEF HostCrash, PhaseInv
<1>5. CASE ReaderRead
  <2>1. /\ up # <<>> /\ UNCHANGED <<host, conn, side, running, claudeVars, outPc, taken, inPc, told,
                                   swallowed, crashed>>
    BY <1>5 DEF ReaderRead
  <2>2. conn # "none" /\ side \notin {"init", "setup"}
    BY <2>1 DEF PhaseInv
  <2> QED BY <2>1, <2>2 DEF PhaseInv
<1>6. CASE SideListen
  BY <1>0, <1>6 DEF SideListen, PhaseInv
<1>7. CASE SideReadInit
  BY <1>0, <1>7 DEF SideReadInit, PhaseInv, SockOK
<1>8. CASE SideSetupFails
  BY <1>0, <1>8 DEF SideSetupFails, PhaseInv
<1>9. CASE SideSpawn
  BY <1>0, <1>9 DEF SideSpawn, PhaseInv
<1>10. CASE SideWait \/ SideSendError \/ SideSendExit \/ SideReturn
  BY <1>0, <1>10 DEF SideWait, AfterWait, SideSendError, SideSendExit, SideReturn, PhaseInv
<1>11. CASE SideCrash
  BY <1>0, <1>11 DEF SideCrash, PhaseInv
<1>12. ASSUME NEW p \in Pipe, OutRead(p) \/ OutCheck(p) \/ OutWrite(p)
       PROVE  PhaseInv'
  <2>1. /\ outPc[p] # "off"
        /\ UNCHANGED <<host, conn, side, running, claudeVars, inPc, told, swallowed, received, ended,
                       erred, crashed>>
    BY <1>12 DEF OutRead, OutCheck, OutWrite
  <2>2. side \in {"wait", "error", "exit", "join", "gone"}
    BY <1>0, <2>1 DEF PhaseInv, SideOK
  <2>3. conn # "none"
    BY <2>2 DEF PhaseInv
  <2> QED BY <2>1, <2>2, <2>3 DEF PhaseInv
<1>13. ASSUME NEW p \in Pipe, ClaudeWrites(p)
       PROVE  PhaseInv'
  <2>1. /\ claude = "alive"
        /\ UNCHANGED <<host, conn, up, side, running, claude, outPc, taken, inPc, told, swallowed,
                       received, ended, erred, crashed>>
    BY <1>13 DEF ClaudeWrites
  <2>2. side = "wait" /\ conn # "none"
    BY <2>1 DEF PhaseInv
  <2> QED BY <2>1, <2>2 DEF PhaseInv
<1>14. CASE ClaudeExits
  BY <1>0, <1>14 DEF ClaudeExits, PhaseInv
<1>15. CASE InCheck \/ InRead \/ InBroken \/ InWrite
  <2>1. /\ inPc # "off"
        /\ UNCHANGED <<host, conn, up, side, running, claudeVars, outPc, taken, swallowed, received,
                       ended, erred, crashed>>
    BY <1>15 DEF InCheck, InRead, InBroken, InWrite
  <2>2. side \in {"wait", "error", "exit", "join", "gone"}
    BY <1>0, <2>1 DEF PhaseInv, SideOK
  <2>3. conn # "none"
    BY <2>2 DEF PhaseInv
  <2> QED BY <2>1, <2>2, <2>3 DEF PhaseInv
<1>16. SideStep => PhaseInv'
  BY <1>6, <1>7, <1>8, <1>9, <1>10, <1>11, <1>12, <1>13, <1>14, <1>15
     DEF SideStep, Sidecar, Threads
<1>17. CASE ReaderEof \/ WriterTake \/ WriterWrite \/ UNCHANGED vars
  BY <1>1, <1>17 DEF ReaderEof, WriterTake, WriterWrite, vars
<1>18. ASSUME NEW c \in Client, ClientSend(c) \/ ClientSent(c)
       PROVE  PhaseInv'
  BY <1>1, <1>18 DEF ClientSend, ClientSent
<1> QED BY <1>2, <1>3, <1>4, <1>5, <1>16, <1>17, <1>18, Steps DEF HostStep

(* A message that is written comes last, and the one that is read came first. *)
LEMMA Writes ==
  ASSUME SockOK, NEW m \in Message, up' = Append(up, m)
  PROVE  /\ DOMAIN up = 1 .. Len(up) /\ DOMAIN up' = 1 .. Len(up) + 1 /\ Len(up) \in Nat
         /\ \A i \in DOMAIN up : up'[i] = up[i] /\ i \in DOMAIN up'
         /\ up'[Len(up) + 1] = m
         /\ \A x : Sent(x)' <=> Sent(x) \/ x = m
<1>1. /\ DOMAIN up = 1 .. Len(up) /\ DOMAIN up' = 1 .. Len(up) + 1 /\ Len(up) \in Nat
      /\ \A i \in DOMAIN up : up'[i] = up[i] /\ i \in DOMAIN up'
      /\ up'[Len(up) + 1] = m
  BY DEF SockOK
<1> QED BY <1>1 DEF Sent

(* What the host reads is gone from the connection, and the rest moves up. *)
LEMMA Reads ==
  ASSUME SockOK, up # <<>>, up' = Tail(up)
  PROVE  /\ DOMAIN up = 1 .. Len(up) /\ DOMAIN up' = 1 .. Len(up) - 1 /\ Len(up) \in Nat \ {0}
         /\ \A i \in DOMAIN up' : up'[i] = up[i + 1] /\ i + 1 \in DOMAIN up
         /\ 1 \in DOMAIN up /\ up[1] = Head(up) /\ Head(up) \in Message
         /\ \A x : Sent(x) <=> Sent(x)' \/ x = Head(up)
<1>1. /\ DOMAIN up = 1 .. Len(up) /\ Len(up) \in Nat \ {0} /\ up[1] = Head(up) /\ up[1] \in Message
  BY DEF SockOK
<1>2. up' \in Seq(Message) /\ Len(up') = Len(up) - 1 /\ \A i \in 1 .. Len(up') : up'[i] = up[i + 1]
  BY HeadTailProperties DEF SockOK
<1>3. DOMAIN up' = 1 .. Len(up) - 1 /\ \A i \in DOMAIN up' : up'[i] = up[i + 1] /\ i + 1 \in DOMAIN up
  BY <1>1, <1>2
<1>4. ASSUME NEW x
      PROVE  Sent(x) <=> Sent(x)' \/ x = Head(up)
  <2>1. ASSUME NEW i \in DOMAIN up, up[i] = x, x # Head(up)
        PROVE  Sent(x)'
    <3>1. i - 1 \in DOMAIN up' /\ up'[i - 1] = up[i]
      BY <1>1, <1>3, <2>1
    <3> QED BY <2>1, <3>1 DEF Sent
  <2> QED BY <1>1, <1>3, <2>1 DEF Sent
<1> QED BY <1>1, <1>3, <1>4

(* Lines, Error and Exit are messages and are told apart. *)
LEMMA MessageTypes ==
  /\ Error \in Message /\ Exit \in Message /\ Error # Exit
  /\ \A p \in Pipe, n \in Nat : /\ Line(p, n) \in Message /\ Line(p, n) # Error /\ Line(p, n) # Exit
                              /\ Line(p, n).kind = p /\ Line(p, n).n = n
  /\ Error.kind \notin Pipe /\ Exit.kind \notin Pipe
BY PipeTypes DEF Error, Exit, Line, Message

(* What is known of the agent's end. *)
LEMMA EndStep ==
  ASSUME LinkTypeOK, PhaseInv, EndInv, [Next]_vars
  PROVE  EndInv'
<1> USE MessageTypes DEF claudeVars, outVars, inVars, history, sockVars, hostVars, Exited
<1>0. SideOK /\ SockOK /\ HostOK
  BY DEF LinkTypeOK
<1>1. CASE UNCHANGED <<host, conn, up, side, claude, ended, erred, crashed>>
  BY <1>1 DEF EndInv, Sent
<1>2. CASE HostRefused \/ HostConnect \/ HostInit
  <2>1. UNCHANGED <<up, claude, ended, erred, crashed>> /\ host # "dead" /\ host' # "dead"
        /\ (UNCHANGED <<conn, side>> \/ (conn' = "open" /\ side' = "init"))
    BY <1>0, <1>2 DEF HostRefused, GaveUp, HostConnect, HostInit
  <2> QED BY <2>1 DEF EndInv, Sent
<1>3. CASE HostCrash
  <2>1. host' = "dead" /\ up' = <<>> /\ UNCHANGED <<conn, side, claude, ended, erred, crashed>>
    BY <1>3 DEF HostCrash
  <2>2. \A x : ~Sent(x)'
    BY <2>1 DEF Sent
  <2> QED BY <2>1, <2>2 DEF EndInv
<1>4. CASE ReaderRead
  <2> DEFINE m == Head(up)
  <2>1. /\ up # <<>> /\ up' = Tail(up) /\ UNCHANGED <<host, conn, side, claude, crashed>>
        /\ ended' <=> ended \/ m = Exit
        /\ erred' <=> erred \/ m = Error
    BY <1>4 DEF ReaderRead
  <2>2. /\ DOMAIN up' = 1 .. Len(up) - 1 /\ Len(up) \in Nat \ {0}
        /\ \A i \in DOMAIN up' : up'[i] = up[i + 1] /\ i + 1 \in DOMAIN up
        /\ 1 \in DOMAIN up /\ up[1] = m
        /\ \A x : Sent(x) <=> Sent(x)' \/ x = m
    BY <1>0, <2>1, Reads
  <2> HIDE DEF m
  <2>3. ASSUME claude = "failed"
        PROVE  /\ ended' => erred'
               /\ \A j \in DOMAIN up' : up'[j] = Exit => erred' \/ \E i \in 1 .. j - 1 : up'[i] = Error
    <3>1. m = Exit => erred
      BY <2>2, <2>3 DEF EndInv
    <3>2. ASSUME NEW j \in DOMAIN up', up'[j] = Exit, ~erred'
          PROVE  \E i \in 1 .. j - 1 : up'[i] = Error
      <4>1. PICK i \in 1 .. j : up[i] = Error
        <5>1. up[j + 1] = Exit /\ j + 1 \in DOMAIN up /\ ~erred
          BY <2>1, <2>2, <3>2
        <5>2. PICK i \in 1 .. (j + 1) - 1 : up[i] = Error
          BY <2>3, <5>1 DEF EndInv
        <5>3. (j + 1) - 1 = j
          BY <2>2
        <5> QED BY <5>2, <5>3
      <4>2. i # 1
        BY <2>1, <2>2, <3>2, <4>1
      <4>3. i - 1 \in 1 .. j - 1 /\ i - 1 \in DOMAIN up' /\ up'[i - 1] = up[i]
        <5>1. j \in Nat /\ j <= Len(up) - 1 /\ i \in Nat /\ i >= 2 /\ i <= j /\ Len(up) \in Nat
          BY <2>2, <4>1, <4>2
        <5>2. i - 1 \in 1 .. j - 1 /\ i - 1 \in 1 .. Len(up) - 1 /\ (i - 1) + 1 = i
          BY <5>1
        <5> QED BY <2>2, <5>2
      <4> QED BY <4>1, <4>3
    <3> QED BY <2>1, <2>3, <3>1, <3>2 DEF EndInv
  <2> QED BY <2>1, <2>2, <2>3 DEF EndInv
(* A message of the sidecar, in a state where the host may read it or is dead. *)
<1>5. ASSUME NEW m \in Message, up' = Written(m), UNCHANGED <<host, claude, ended, erred, crashed>>
      PROVE  /\ \A x : Sent(x)' <=> Sent(x) \/ (host # "dead" /\ x = m)
             /\ claude = "failed" /\ (m = Exit => erred \/ Sent(Error)) =>
                  \A j \in DOMAIN up' : up'[j] = Exit => erred \/ \E i \in 1 .. j - 1 : up'[i] = Error
  <2>1. CASE host = "dead"
    BY <1>5, <2>1 DEF Written, Sent, EndInv
  <2>2. CASE host # "dead"
    <3>1. up' = Append(up, m)
      BY <1>5, <2>2 DEF Written
    <3>2. /\ DOMAIN up = 1 .. Len(up) /\ DOMAIN up' = 1 .. Len(up) + 1 /\ Len(up) \in Nat
          /\ \A i \in DOMAIN up : up'[i] = up[i] /\ i \in DOMAIN up'
          /\ up'[Len(up) + 1] = m
          /\ \A x : Sent(x)' <=> Sent(x) \/ x = m
      BY <1>0, <3>1, Writes
    <3>3. ASSUME claude = "failed", m = Exit => erred \/ Sent(Error), NEW j \in DOMAIN up',
                 up'[j] = Exit, ~erred
          PROVE  \E i \in 1 .. j - 1 : up'[i] = Error
      <4>1. CASE j \in DOMAIN up
        <5>1. PICK i \in 1 .. j - 1 : up[i] = Error
          BY <3>2, <3>3, <4>1 DEF EndInv
        <5>2. i \in DOMAIN up
          BY <3>2, <4>1
        <5> QED BY <3>2, <5>1, <5>2
      <4>2. CASE j = Len(up) + 1
        <5>1. PICK i \in DOMAIN up : up[i] = Error
          BY <3>2, <3>3, <4>2 DEF Sent
        <5>2. i \in 1 .. j - 1
          BY <3>2, <4>2
        <5> QED BY <3>2, <5>1, <5>2
      <4> QED BY <3>2, <4>1, <4>2
    <3> QED BY <2>2, <3>2, <3>3
  <2> QED BY <2>1, <2>2
<1>6. CASE SideListen \/ SideReadInit
  <2>1. UNCHANGED <<host, conn, up, claude, ended, erred, crashed>> /\ side' \in {"listen", "setup"}
    BY <1>6 DEF SideListen, SideReadInit
  <2> QED BY <2>1 DEF EndInv, Sent
<1>7. CASE SideSetupFails
  <2>1. /\ up' = Written(Error) /\ UNCHANGED <<host, claude, ended, erred, crashed>> /\ side' = "off"
        /\ side \in {"init", "setup"}
    BY <1>7 DEF SideSetupFails, Bail
  <2>2. claude = "none"
    BY <2>1 DEF PhaseInv
  <2> QED BY <1>5, <2>1, <2>2 DEF EndInv
<1>8. CASE SideSpawn
  <2>1. /\ UNCHANGED <<host, conn, up, ended, erred, crashed>> /\ side = "setup" /\ side' = "wait"
        /\ claude' = "alive"
    BY <1>8 DEF SideSpawn
  <2>2. up = <<>> /\ ~ended /\ conn = "open"
    BY <2>1 DEF PhaseInv, Connected
  <2> QED BY <2>1, <2>2 DEF EndInv, Sent
<1>9. CASE SideWait
  <2>1. /\ UNCHANGED <<host, conn, up, claude, ended, erred, crashed>> /\ side = "wait"
        /\ side' = IF claude = "failed" THEN "error" ELSE "exit"
    BY <1>9 DEF SideWait, AfterWait
  <2> QED BY <2>1 DEF EndInv, Sent
<1>10. CASE SideSendError
  <2>1. /\ up' = Written(Error) /\ UNCHANGED <<host, conn, claude, ended, erred, crashed>>
        /\ side = "error" /\ side' = "exit"
    BY <1>10 DEF SideSendError
  <2> QED BY <1>5, <2>1 DEF EndInv
<1>11. CASE SideSendExit
  <2>1. /\ up' = Written(Exit) /\ UNCHANGED <<host, conn, claude, ended, erred, crashed>>
        /\ side = "exit" /\ side' = "join"
    BY <1>11 DEF SideSendExit
  <2>2. CASE host = "dead"
    <3>1. up' = up
      BY <2>1, <2>2 DEF Written
    <3> QED BY <2>1, <2>2, <3>1 DEF EndInv, Sent
  <2>3. CASE host # "dead"
    BY <1>5, <2>1, <2>3 DEF EndInv
  <2> QED BY <2>2, <2>3
<1>12. CASE SideReturn
  <2>1. /\ UNCHANGED <<host, up, claude, ended, erred, crashed>> /\ side = "join" /\ side' = "gone"
    BY <1>12 DEF SideReturn
  <2> QED BY <2>1 DEF EndInv, Sent
<1>13. CASE SideCrash
  <2>1. UNCHANGED <<host, up, ended, erred>> /\ side' = "off" /\ claude' = "none" /\ crashed'
    BY <1>13 DEF SideCrash
  <2> QED BY <2>1 DEF EndInv, Sent
<1>14. CASE ClaudeExits
  <2>1. UNCHANGED <<host, conn, up, side, ended, erred, crashed>> /\ claude = "alive"
    BY <1>14 DEF ClaudeExits
  <2>2. side = "wait"
    BY <2>1 DEF PhaseInv
  <2> QED BY <2>1, <2>2 DEF EndInv, Sent
<1>15. ASSUME NEW p \in Pipe, OutWrite(p)
       PROVE  EndInv'
  <2>1. /\ up' = Written(Line(p, taken[p])) /\ UNCHANGED <<host, conn, side, claude, ended, erred, crashed>>
        /\ Line(p, taken[p]) \in Message /\ Line(p, taken[p]) # Error /\ Line(p, taken[p]) # Exit
    BY <1>0, <1>15 DEF OutWrite, MayWrite, SideOK
  <2> QED BY <1>5, <2>1 DEF EndInv
<1>16. InCheck \/ InRead \/ InBroken \/ InWrite
         => UNCHANGED <<host, conn, up, side, claude, ended, erred, crashed>>
  BY DEF InCheck, InRead, InBroken, InWrite
<1>17. ASSUME NEW p \in Pipe, OutRead(p) \/ OutCheck(p) \/ ClaudeWrites(p)
       PROVE  UNCHANGED <<host, conn, up, side, claude, ended, erred, crashed>>
  BY <1>17 DEF OutRead, OutCheck, ClaudeWrites
<1>18. SideStep => EndInv'
  BY <1>1, <1>6, <1>7, <1>8, <1>9, <1>10, <1>11, <1>12, <1>13, <1>14, <1>15, <1>16, <1>17
     DEF SideStep, Sidecar, Threads
<1>19. CASE ReaderEof \/ WriterTake \/ WriterWrite \/ UNCHANGED vars
  BY <1>1, <1>19 DEF ReaderEof, WriterTake, WriterWrite, vars
<1>20. ASSUME NEW c \in Client, ClientSend(c) \/ ClientSent(c)
       PROVE  EndInv'
  BY <1>1, <1>20 DEF ClientSend, ClientSent
<1> QED BY <1>2, <1>3, <1>4, <1>18, <1>19, <1>20, Steps DEF HostStep

(* The reader ends on an Exit, or on a connection that was shut with nothing left on it. *)
LEMMA EndExplainedStep ==
  ASSUME LinkTypeOK, EndInv, EndExplained, [Next]_vars
  PROVE  EndExplained'
<1> USE DEF EndExplained
<1>0. HostOK
  BY DEF LinkTypeOK
<1>1. CASE UNCHANGED <<reader, ended, erred, crashed>>
  BY <1>1
<1>2. CASE ReaderRead
  BY <1>2 DEF ReaderRead
<1>3. CASE ReaderEof
  <2>1. /\ reader = "on" /\ up = <<>> /\ conn = "shut" /\ UNCHANGED <<ended, erred, crashed>>
    BY <1>3 DEF ReaderEof, history
  <2>2. host # "dead" /\ ~Sent(Exit) /\ ~Sent(Error)
    BY <1>0, <2>1 DEF HostOK, Sent
  <2> QED BY <2>1, <2>2 DEF EndInv
<1>4. CASE HostInit \/ HostCrash
  BY <1>4 DEF HostInit, HostCrash, history
<1>5. CASE HostRefused \/ HostConnect \/ WriterTake \/ WriterWrite \/ UNCHANGED vars
  BY <1>1, <1>5
     DEF HostRefused, HostConnect, WriterTake, WriterWrite, vars, hostVars, history
<1>6. ASSUME NEW c \in Client, ClientSend(c) \/ ClientSent(c)
      PROVE  EndExplained'
  BY <1>1, <1>6 DEF ClientSend, ClientSent, history
<1>7. CASE SideStep
  <2>1. UNCHANGED reader
    BY <1>7, SideKeeps DEF hostVars
  <2>2. UNCHANGED <<ended, erred>> /\ (crashed' = crashed \/ crashed')
    <3> USE DEF history
    <3>1. Sidecar => UNCHANGED history
      BY DEF Sidecar, SideListen, SideReadInit, SideSetupFails, SideSpawn, SideWait,
             SideSendError, SideSendExit, SideReturn
    <3>2. ASSUME NEW p \in Pipe, OutRead(p) \/ OutCheck(p) \/ OutWrite(p) \/ ClaudeWrites(p)
          PROVE  UNCHANGED history
      BY <3>2 DEF OutRead, OutCheck, OutWrite, ClaudeWrites
    <3>3. InCheck \/ InRead \/ InBroken \/ InWrite \/ ClaudeExits => UNCHANGED history
      BY DEF InCheck, InRead, InBroken, InWrite, ClaudeExits
    <3>4. SideCrash => UNCHANGED <<ended, erred>> /\ crashed'
      BY DEF SideCrash
    <3> QED BY <1>7, <3>1, <3>2, <3>3, <3>4 DEF SideStep, Threads
  <2> QED BY <2>1, <2>2
<1> QED BY <1>2, <1>3, <1>4, <1>5, <1>6, <1>7, Steps DEF HostStep

(* The relay's queue: what it takes in and what it hands on. *)
LEMMA QueueInvStep ==
  ASSUME LinkTypeOK, InputInv, [Next]_vars
  PROVE  /\ QueueInv' /\ Behind' >= Behind
         /\ Behind' = Behind \/ WriterWrite \/ HostCrash
<1> USE DEF hostVars
<1>0. QueueOK /\ HostOK /\ QueueInv /\ Behind \in Nat /\ Len(queue) \in Nat
  BY DEF LinkTypeOK, InputInv, QueueInv, QueueOK
<1>1. CASE UNCHANGED <<queue, writing, sent>>
  BY <1>0, <1>1 DEF QueueInv, Behind
<1>2. CASE WriterTake
  <2>1. /\ queue # <<>> /\ writing' = Head(queue) /\ queue' = Tail(queue) /\ UNCHANGED sent
        /\ writing = 0
    BY <1>0, <1>2 DEF WriterTake, QueueOK
  <2>2. /\ 1 \in 1 .. Len(queue) /\ Head(queue) = queue[1] /\ Head(queue) # 0
        /\ Len(queue') = Len(queue) - 1 /\ DOMAIN queue' = 1 .. Len(queue')
        /\ \A i \in 1 .. Len(queue') : queue'[i] = queue[i + 1] /\ i + 1 \in 1 .. Len(queue)
    BY <1>0, <2>1, HeadTailProperties DEF QueueOK
  <2>3. writing' = sent - Len(queue') /\ Behind' = Behind
    BY <1>0, <2>1, <2>2 DEF QueueInv, Behind, QueueOK
  <2>4. \A i \in 1 .. Len(queue') : queue'[i] = sent' - Len(queue') + i
    BY <1>0, <2>1, <2>2 DEF QueueInv, QueueOK
  <2> QED BY <1>0, <2>1, <2>3, <2>4 DEF QueueInv
<1>3. CASE WriterWrite
  <2>1. UNCHANGED sent /\ writing # 0
    BY <1>0, <1>3 DEF WriterWrite, QueueOK
  <2>2. CASE writing' = 0 /\ UNCHANGED queue
    BY <1>0, <1>3, <2>1, <2>2 DEF QueueInv, Behind, QueueOK
  <2>3. CASE writing' = 0 /\ queue' = <<>>
    BY <1>0, <1>3, <2>1, <2>3 DEF QueueInv, Behind, QueueOK
  <2> QED BY <1>3, <2>2, <2>3 DEF WriterWrite, AfterBroken
<1>4. CASE HostCrash
  <2>1. UNCHANGED sent /\ writing' = 0 /\ queue' = <<>>
    BY <1>4 DEF HostCrash
  <2> QED BY <1>0, <1>4, <2>1 DEF QueueInv, Behind, QueueOK
<1>5. ASSUME NEW c \in Client, ClientSent(c), ~UNCHANGED <<queue, writing, sent>>
      PROVE  QueueInv' /\ Behind' = Behind
  <2>1. queue' = Append(queue, sent + 1) /\ sent' = sent + 1 /\ UNCHANGED writing
    BY <1>5 DEF ClientSent
  <2>2. /\ Len(queue') = Len(queue) + 1 /\ DOMAIN queue' = 1 .. Len(queue) + 1
        /\ \A i \in 1 .. Len(queue) : queue'[i] = queue[i]
        /\ queue'[Len(queue) + 1] = sent + 1 /\ DOMAIN queue = 1 .. Len(queue)
    BY <1>0, <2>1 DEF QueueOK
  <2>3. \A i \in 1 .. Len(queue') : queue'[i] = sent' - Len(queue') + i
    <3> TAKE i \in 1 .. Len(queue')
    <3>1. CASE i \in 1 .. Len(queue)
      BY <1>0, <2>1, <2>2, <3>1 DEF QueueInv, QueueOK
    <3>2. CASE i = Len(queue) + 1
      BY <1>0, <2>1, <2>2, <3>2 DEF QueueOK
    <3> QED BY <1>0, <2>2, <3>1, <3>2
  <2>4. sent' - Len(queue') = sent - Len(queue)
    BY <1>0, <2>1, <2>2 DEF QueueOK
  <2> QED BY <1>0, <2>1, <2>3, <2>4 DEF QueueInv, Behind
<1>6. ASSUME NEW c \in Client, ClientSend(c)
      PROVE  UNCHANGED <<queue, writing, sent>>
  BY <1>6 DEF ClientSend
<1>7. HostRefused \/ HostConnect \/ HostInit \/ ReaderRead \/ ReaderEof
        => UNCHANGED <<queue, writing, sent>>
  BY DEF HostRefused, HostConnect, HostInit, ReaderRead, ReaderEof
<1>8. CASE SideStep \/ UNCHANGED vars
  BY <1>1, <1>8, SideKeeps DEF vars
<1> QED BY <1>0, <1>1, <1>2, <1>3, <1>4, <1>5, <1>6, <1>7, <1>8, Steps DEF HostStep

(* One more input on the connection, one taken off it, and one told to Claude. *)
LEMMA OrderKept ==
  ASSUME NEW d \in Seq(Nat), NEW i \in Nat, NEW t \in Seq(Nat), NEW w \in Nat, NEW b \in Nat,
         Ordered(d, i, t, w, b)
  PROVE  /\ Ordered(Append(d, b + 1), i, t, w, b + 1)
         /\ i = 0 /\ d # <<>> /\ Head(d) # 0 => Ordered(SubSeq(d, 2, Len(d)), Head(d), t, w, b)
         /\ i # 0 => Ordered(d, 0, Append(t, i), w, b)
<1> DEFINE l == Len(d)  n == Len(t)
<1>1. /\ l \in Nat /\ n \in Nat
      /\ \A k \in 1 .. l : d[k] = b - l + k
      /\ i # 0 => i = b - l
      /\ \A k \in 1 .. n : t[k] = w + k
      /\ w + n = IF i = 0 THEN b - l ELSE b - l - 1
  BY DEF Ordered
<1>2. Ordered(Append(d, b + 1), i, t, w, b + 1)
  <2> DEFINE e == Append(d, b + 1)
  <2>1. Len(e) = l + 1 /\ (\A k \in 1 .. l : e[k] = d[k]) /\ e[l + 1] = b + 1
    OBVIOUS
  <2> HIDE DEF e, l, n
  <2>2. ASSUME NEW k \in 1 .. l + 1
        PROVE  e[k] = (b + 1) - (l + 1) + k
    <3>1. CASE k \in 1 .. l
      BY <1>1, <2>1, <3>1
    <3>2. CASE k = l + 1
      BY <1>1, <2>1, <3>2
    <3> QED BY <1>1, <3>1, <3>2
  <2>3. Ordered(e, i, t, w, b + 1)
    BY <1>1, <2>1, <2>2 DEF Ordered, n
  <2> QED BY <2>3 DEF e
<1>3. ASSUME i = 0, d # <<>>, Head(d) # 0
      PROVE  Ordered(SubSeq(d, 2, Len(d)), Head(d), t, w, b)
  <2> DEFINE e == SubSeq(d, 2, Len(d))
             h == Head(d)
  <2>1. l >= 1 /\ h = d[1] /\ h # 0
    BY <1>3
  <2>2. Len(e) = l - 1 /\ \A k \in 1 .. l - 1 : e[k] = d[k + 1] /\ k + 1 \in 1 .. l
    <3>1. \A k \in 2 .. l : d[k] \in Nat
      OBVIOUS
    <3>2. \A k \in 1 .. l - 2 + 1 : e[k] = d[2 + k - 1]
      BY <1>1, <2>1, <3>1, SubSeqProperties
    <3>4. Len(e) = l - 2 + 1
      <4>1. CASE l >= 2
        BY <1>1, <3>1, <4>1, SubSeqProperties
      <4>2. CASE l < 2
        <5>1. e = <<>>
          BY <4>2, SubSeqEmpty
        <5>2. l - 2 + 1 = 0
          <6> HIDE DEF l
          <6> QED BY <1>1, <2>1, <4>2
        <5> QED BY <5>1, <5>2
      <4> QED BY <1>1, <2>1, <4>1, <4>2
    <3>3. l - 2 + 1 = l - 1 /\ \A k \in 1 .. l - 1 : 2 + k - 1 = k + 1 /\ k + 1 \in 1 .. l
      <4> HIDE DEF l
      <4> QED BY <1>1, <2>1
    <3> QED BY <3>2, <3>3, <3>4
  <2> HIDE DEF e, l, n, h
  <2>3. \A k \in 1 .. l - 1 : e[k] = b - (l - 1) + k
    BY <1>1, <2>1, <2>2
  <2>4. h = b - (l - 1) /\ w + n = b - (l - 1) - 1
    BY <1>1, <1>3, <2>1
  <2>5. Ordered(e, h, t, w, b)
    BY <1>1, <2>1, <2>2, <2>3, <2>4 DEF Ordered, n
  <2> QED BY <2>5 DEF e, h
<1>4. ASSUME i # 0
      PROVE  Ordered(d, 0, Append(t, i), w, b)
  <2> DEFINE u == Append(t, i)
  <2>1. Len(u) = n + 1 /\ (\A k \in 1 .. n : u[k] = t[k]) /\ u[n + 1] = i
    OBVIOUS
  <2> HIDE DEF u, l, n
  <2>2. ASSUME NEW k \in 1 .. n + 1
        PROVE  u[k] = w + k
    <3>1. CASE k \in 1 .. n
      BY <1>1, <2>1, <3>1
    <3>2. CASE k = n + 1
      <4>1. w + (n + 1) = i
        BY <1>1, <1>4
      <4> QED BY <2>1, <3>2, <4>1
    <3> QED BY <1>1, <3>1, <3>2
  <2>3. w + (n + 1) = b - l
    BY <1>1, <1>4
  <2>4. Ordered(d, 0, u, w, b)
    BY <1>1, <2>1, <2>2, <2>3 DEF Ordered, l
  <2> QED BY <2>4 DEF u
<1> QED BY <1>2, <1>3, <1>4

(* What the reader of the Init message leaves, when it takes n inputs with it. *)
LEMMA OrderAfterInit ==
  ASSUME NEW d \in Seq(Nat), NEW n \in 0 .. Len(d) - 1, \A k \in 1 .. Len(d) : d[k] = k - 1
  PROVE  /\ \A k \in 1 .. Len(SubSeq(d, n + 2, Len(d))) :
              SubSeq(d, n + 2, Len(d))[k] \in 1 .. Len(d) - 1
         /\ Ordered(SubSeq(d, n + 2, Len(d)), 0, <<>>, n, Len(d) - 1)
<1> DEFINE l == Len(d)
           e == SubSeq(d, n + 2, Len(d))
<1>1. l \in Nat /\ n \in Nat /\ n <= l - 1 /\ n + 2 \in Int
  OBVIOUS
<1>2. Len(e) = l - n - 1
  <2>1. CASE n + 2 <= l
    <3>1. Len(e) = l - (n + 2) + 1
      BY <1>1, <2>1, SubSeqProperties
    <3> HIDE DEF e, l
    <3> QED BY <1>1, <3>1
  <2>2. CASE l < n + 2
    <3>1. e = <<>>
      BY <1>1, <2>2, SubSeqEmpty
    <3>2. Len(e) = 0 /\ l = n + 1
      BY <1>1, <2>2, <3>1
    <3> HIDE DEF e, l
    <3> QED BY <1>1, <3>2
  <2> QED BY <1>1, <2>1, <2>2
<1>3. ASSUME NEW k \in 1 .. l - n - 1
      PROVE  e[k] = n + k
  <2>1. \A i \in n + 2 .. l : d[i] \in Nat
    BY <1>1
  <2>2. \A i \in 1 .. l - (n + 2) + 1 : e[i] = d[(n + 2) + i - 1]
    BY <1>1, <2>1, SubSeqProperties
  <2>3. k \in 1 .. l - (n + 2) + 1 /\ (n + 2) + k - 1 = n + k + 1 /\ n + k + 1 \in 1 .. l
        /\ (n + k + 1) - 1 = n + k
    <3> HIDE DEF l
    <3> QED BY <1>1, <1>3
  <2> QED BY <2>2, <2>3
<1> HIDE DEF e, l
<1>4. \A k \in 1 .. Len(e) : e[k] \in 1 .. l - 1
  BY <1>1, <1>2, <1>3
<1>5. \A k \in 1 .. Len(e) : e[k] = (l - 1) - Len(e) + k
  BY <1>1, <1>2, <1>3
<1>6. n + 0 = (l - 1) - Len(e) /\ Len(<<>>) = 0 /\ Len(e) \in Nat
  BY <1>1, <1>2
<1>7. Ordered(e, 0, <<>>, n, l - 1)
  BY <1>1, <1>5, <1>6 DEF Ordered
<1> QED BY <1>4, <1>7 DEF e, l

(* The inputs on the connection and past it. *)
LEMMA InputStep ==
  ASSUME LinkTypeOK, PhaseInv, InputInv, [Next]_vars
  PROVE  InputInv'
<1> USE DEF claudeVars, outVars, inVars, history, sockVars, hostVars
<1>0. /\ QueueOK /\ HostOK /\ SockOK /\ SideOK
      /\ QueueInv /\ PastInv /\ Behind \in Nat /\ Len(down) \in Nat /\ DOMAIN down = 1 .. Len(down)
      /\ Len(told) \in Nat /\ DOMAIN told = 1 .. Len(told) /\ input \in Nat /\ swallowed \in Nat
  BY DEF LinkTypeOK, InputInv, QueueInv, SockOK, SideOK
<1>00. /\ QueueInv' /\ Behind' \in Nat /\ Behind' >= Behind
       /\ Behind' = Behind \/ WriterWrite \/ HostCrash
  BY QueueInvStep DEF QueueInv
(* Nothing on the connection or past it moves, or it goes away unread. *)
<1>1. ASSUME UNCHANGED <<swallowed, told>>, down' = down \/ down' = <<>>, input' = input \/ input' = 0,
             side' # "init", side # "init" \/ down' = <<>>
      PROVE  PastInv'
  <2>1. \A i \in 1 .. Len(down') : down'[i] \in 1 .. Behind'
    <3>1. CASE down' = <<>>
      BY <3>1
    <3>2. CASE down' = down /\ side # "init"
      BY <1>0, <1>00, <3>2 DEF PastInv
    <3> QED BY <1>1, <3>1, <3>2
  <2> QED BY <1>0, <1>00, <1>1, <2>1 DEF PastInv
<1>2. ASSUME UNCHANGED <<side, down, input, swallowed, told>>
      PROVE  PastInv'
  BY <1>0, <1>00, <1>2 DEF PastInv
<1>3. ASSUME UNCHANGED <<side, down, input, swallowed, told, claude, host>>, Behind' = Behind
      PROVE  InputInv'
  BY <1>00, <1>2, <1>3 DEF InputInv, InitInv, OrderInv, Served
(* The steps that leave no order to keep. *)
<1>4. ASSUME PastInv', side' # "init", ~Served'
      PROVE  InputInv'
  BY <1>00, <1>4 DEF InputInv
<1>5. CASE HostConnect
  <2>1. /\ host = "connecting" /\ host' = "init" /\ side' = "init" /\ UNCHANGED <<down, input, swallowed, told>>
        /\ side = "listen" /\ down = <<>>
    BY <1>0, <1>5 DEF HostConnect, SockOK
  <2>2. PastInv'
    BY <1>0, <1>00, <2>1 DEF PastInv
  <2>3. Len(down') = 0 /\ Len(down') <= 0
    BY <2>1
  <2>4. InitInv'
    <3>1. host' # "up"
      BY <2>1
    <3>2. Len(down') <= Behind' + 1
      <4>1. Behind' \in Nat
        BY <1>00
      <4>2. Len(down') \in Int /\ Len(down') <= 0
        BY <2>3
      <4> QED BY <4>1, <4>2
    <3>3. \A i \in 1 .. Len(down') : down'[i] = i - 1
      BY <2>3
    <3> QED BY <3>1, <3>2, <3>3 DEF InitInv
  <2> QED BY <1>00, <2>1, <2>2, <2>4 DEF InputInv, Served
<1>6. CASE HostInit
  <2>1. CASE conn = "open" /\ down' = Append(down, InitMsg) /\ host' = "up"
    <3>1. /\ host = "init" /\ down = <<>> /\ side = "init" /\ UNCHANGED <<side, input, swallowed, told>>
      BY <1>0, <1>6, <2>1 DEF HostInit, SockOK, PhaseInv
    <3>2. Len(down') = 1 /\ down'[1] = 0 /\ DOMAIN down' = 1 .. 1
      BY <2>1, <3>1 DEF InitMsg
    <3>3. Behind' = 0
      <4>1. sent = 0 /\ queue = <<>> /\ writing = 0 /\ UNCHANGED <<sent, queue, writing>>
        BY <1>0, <1>6, <3>1 DEF QueueOK, HostOK, HostInit
      <4>2. sent' = 0 /\ writing' = 0 /\ Len(queue') = 0
        BY <4>1
      <4> QED BY <4>2 DEF Behind
    <3>4. PastInv'
      BY <1>0, <1>00, <3>1 DEF PastInv
    <3> QED BY <1>00, <3>1, <3>2, <3>3, <3>4 DEF InputInv, InitInv, Served
  <2>2. CASE conn = "shut" /\ host' = "failed"
    <3>1. side # "init" /\ UNCHANGED <<side, down, input, swallowed, told>>
      BY <1>6, <2>2 DEF HostInit, PhaseInv, Connected
    <3> QED BY <1>2, <1>4, <2>2, <3>1 DEF Served
  <2> QED BY <1>6, <2>1, <2>2 DEF HostInit
<1>7. CASE WriterWrite
  <2>1. UNCHANGED <<host, side, claude, input, swallowed, told, sent>> /\ host = "up" /\ writing # 0
    BY <1>0, <1>7 DEF WriterWrite, HostOK, QueueOK
  <2>2. CASE conn = "shut" /\ UNCHANGED down
    <3>1. side # "init" /\ ~Served'
      BY <2>1, <2>2 DEF PhaseInv, Connected, Served
    <3> QED BY <1>2, <1>4, <2>1, <2>2, <3>1
  <2>3. CASE down' = Append(down, writing) /\ writing' = 0 /\ UNCHANGED queue
    <3>1. /\ Len(down') = Len(down) + 1 /\ DOMAIN down' = 1 .. Len(down) + 1
          /\ \A i \in 1 .. Len(down) : down'[i] = down[i]
          /\ down'[Len(down) + 1] = writing
      BY <1>0, <2>3 DEF SockOK, QueueOK
    <3>2. Behind' = Behind + 1 /\ writing = Behind + 1
      <4>1. writing = sent - Len(queue) /\ sent - Len(queue) \in Int
        BY <1>0, <2>1 DEF QueueInv, QueueOK
      <4> QED BY <2>1, <2>3, <4>1 DEF Behind
    <3> HIDE DEF Behind
    <3>3. PastInv'
      BY <1>0, <2>1, <3>1, <3>2 DEF PastInv
    <3>4. ASSUME side = "init"
          PROVE  InitInv'
      BY <1>0, <2>1, <3>1, <3>2, <3>4 DEF InputInv, InitInv
    <3>5. ASSUME Served
          PROVE  OrderInv'
      <4>1. Ordered(Append(down, Behind + 1), input, told, swallowed, Behind + 1)
        BY <1>0, <3>5, OrderKept DEF InputInv, OrderInv, SockOK, SideOK
      <4> QED BY <2>1, <2>3, <3>2, <4>1 DEF OrderInv
    <3> QED BY <1>00, <2>1, <3>3, <3>4, <3>5 DEF InputInv, Served
  <2> QED BY <1>7, <2>2, <2>3 DEF WriterWrite
<1>8. CASE HostCrash
  <2>1. host' = "dead" /\ UNCHANGED <<side, down, claude, input, swallowed, told>>
    BY <1>8 DEF HostCrash
  <2>2. ASSUME side = "init"
        PROVE  InitInv'
    <3>1. InitInv
      BY <2>2 DEF InputInv
    <3>2. Len(down) <= Behind' + 1
      <4>1. Len(down) <= Behind + 1
        BY <3>1 DEF InitInv
      <4>2. Len(down) \in Nat /\ Behind \in Nat
        BY <1>0
      <4>3. Behind' \in Nat
        BY <1>00
      <4>4. Behind' >= Behind
        BY <1>00
      <4> QED BY <4>1, <4>2, <4>3, <4>4
    <3> QED BY <2>1, <3>1, <3>2 DEF InitInv
  <2> QED BY <1>00, <1>2, <2>1, <2>2 DEF InputInv, Served
<1>9. CASE SideReadInit
  <2>1. /\ side = "init" /\ side' = "setup" /\ UNCHANGED <<host, claude, input, told>>
        /\ told = <<>> /\ input = 0 /\ Behind' = Behind
    <3>1. side = "init" /\ side' = "setup" /\ UNCHANGED <<host, claude, input, told, sent, queue, writing>>
      BY <1>9 DEF SideReadInit
    <3>2. told = <<>> /\ input = 0
      BY <1>0, <3>1 DEF PhaseInv, SideOK
    <3> QED BY <3>1, <3>2 DEF Behind
  <2>2. PICK n \in WithInit : down' = SubSeq(down, n + 2, Len(down)) /\ swallowed' = n
    BY <1>9 DEF SideReadInit
  <2>3. n \in 0 .. Len(down) - 1 /\ n \in Nat /\ Len(down) - 1 <= Behind
        /\ (host = "up" => Len(down) - 1 = Behind)
        /\ \A k \in 1 .. Len(down) : down[k] = k - 1
    <3>1. InitInv
      BY <2>1 DEF InputInv
    <3>2. /\ Len(down) <= Behind + 1 /\ (host = "up" => Len(down) = Behind + 1)
          /\ \A k \in 1 .. Len(down) : down[k] = k - 1
      BY <3>1 DEF InitInv
    <3>3. Behind \in Nat /\ Len(down) \in Nat
      BY <1>0
    <3> QED BY <2>2, <3>2, <3>3 DEF WithInit
  <2> DEFINE e == SubSeq(down, n + 2, Len(down))
  <2>4. /\ \A k \in 1 .. Len(e) : e[k] \in 1 .. Len(down) - 1
        /\ Ordered(e, 0, <<>>, n, Len(down) - 1)
    BY <1>0, <2>3, OrderAfterInit DEF SockOK
  <2>5. down' = e
    BY <2>2
  <2> HIDE DEF e
  <2>6. \A k \in 1 .. Len(e) : e[k] \in 1 .. Behind
    <3>1. Behind \in Nat /\ Len(down) \in Nat /\ Len(down) - 1 <= Behind
      BY <1>0, <2>3
    <3> QED BY <2>4, <3>1
  <2>7. PastInv'
    <3>1. \A k \in 1 .. Len(down') : down'[k] \in 1 .. Behind'
      BY <2>1, <2>5, <2>6
    <3>2. input' = 0 /\ swallowed' <= Behind' /\ told' = <<>> /\ Behind' \in Nat
      <4>1. Behind \in Nat /\ Len(down) \in Nat
        BY <1>0
      <4>2. n <= Behind
        BY <2>3, <4>1
      <4>3. UNCHANGED <<input, told>> /\ input = 0 /\ told = <<>> /\ Behind' = Behind
        BY <2>1
      <4> QED BY <2>2, <4>1, <4>2, <4>3
    <3>3. Len(told') = 0
      BY <3>2
    <3> QED BY <3>1, <3>2, <3>3 DEF PastInv
  <2>8. host = "up" => OrderInv'
    BY <2>1, <2>2, <2>3, <2>4, <2>5 DEF OrderInv
  <2> QED BY <1>00, <2>1, <2>7, <2>8 DEF InputInv, Served
<1>10. CASE SideSetupFails \/ SideReturn \/ SideCrash
  <2>1. down' = <<>> /\ side' \in {"off", "gone"} /\ UNCHANGED <<swallowed, told>>
        /\ (input' = input \/ input' = 0)
    BY <1>10 DEF SideSetupFails, SideReturn, SideCrash
  <2> QED BY <1>1, <1>4, <2>1 DEF Served
<1>11. CASE SideSpawn
  <2>1. /\ side = "setup" /\ side' = "wait" /\ claude' = "alive" /\ claude = "none"
        /\ UNCHANGED <<host, down, input, swallowed, told, queue, writing, sent>>
    BY <1>11 DEF SideSpawn, PhaseInv
  <2>2. PastInv' /\ Behind' = Behind
    BY <1>1, <2>1 DEF Behind
  <2> QED BY <1>00, <2>1, <2>2 DEF InputInv, Served, OrderInv
<1>12. CASE SideListen \/ SideWait \/ SideSendError \/ SideSendExit
  <2>1. /\ side' \in {"listen", "error", "exit", "join"} /\ side # "init"
        /\ UNCHANGED <<down, input, swallowed, told>>
    BY <1>12 DEF SideListen, SideWait, AfterWait, SideSendError, SideSendExit
  <2> QED BY <1>1, <1>4, <2>1 DEF Served
<1>13. CASE InRead
  <2>1. /\ inPc = "read" /\ UNCHANGED <<host, side, claude, swallowed, told, queue, writing, sent>>
        /\ side # "init" /\ input = 0
    BY <1>0, <1>13 DEF InRead, PhaseInv, SideOK
  <2>2. Behind' = Behind
    BY <2>1 DEF Behind
  <2>3. CASE down # <<>> /\ down' = SubSeq(down, 2, Len(down)) /\ input' = Head(down)
    <3>1. /\ Len(down) >= 1 /\ input' = down[1] /\ 1 \in 1 .. Len(down)
          /\ Len(down') = Len(down) - 1 /\ DOMAIN down' = 1 .. Len(down) - 1
          /\ \A i \in 1 .. Len(down') : down'[i] = down[i + 1] /\ i + 1 \in 1 .. Len(down)
      BY <1>0, <2>3, SubSeqProperties DEF SockOK
    <3>2. PastInv'
      BY <1>0, <2>1, <2>2, <3>1 DEF PastInv
    <3>3. ASSUME Served
          PROVE  OrderInv'
      <4>1. OrderInv /\ down[1] # 0
        BY <1>0, <2>1, <3>1, <3>3 DEF InputInv, PastInv
      <4>2. Ordered(SubSeq(down, 2, Len(down)), Head(down), told, swallowed, Behind)
        BY <1>0, <2>1, <2>3, <3>1, <4>1, OrderKept DEF OrderInv, SockOK, SideOK
      <4> QED BY <2>1, <2>2, <2>3, <4>2 DEF OrderInv
    <3> QED BY <1>00, <2>1, <3>2, <3>3 DEF InputInv, Served
  <2>4. CASE UNCHANGED <<down, input>>
    BY <1>3, <2>1, <2>2, <2>4
  <2>5. down # <<>> => ReadLine = {1} /\ 1 + 1 = 2
    BY DEF ReadLine
  <2> QED BY <1>13, <2>3, <2>4, <2>5 DEF InRead
<1>14. CASE InWrite
  <2>1. /\ inPc = "write" /\ told' = Append(told, input) /\ input' = 0 /\ input # 0
        /\ UNCHANGED <<host, side, claude, down, swallowed, queue, writing, sent>> /\ side # "init"
    BY <1>0, <1>14 DEF InWrite, PhaseInv, SideOK
  <2>2. Behind' = Behind
    BY <2>1 DEF Behind
  <2>3. /\ Len(told') = Len(told) + 1 /\ DOMAIN told' = 1 .. Len(told) + 1
        /\ \A i \in 1 .. Len(told) : told'[i] = told[i]
        /\ told'[Len(told) + 1] = input
    BY <1>0, <2>1 DEF SideOK
  <2>4. PastInv'
    BY <1>0, <2>1, <2>2, <2>3 DEF PastInv
  <2>5. ASSUME Served
        PROVE  OrderInv'
    <3>1. Ordered(down, 0, Append(told, input), swallowed, Behind)
      BY <1>0, <2>1, <2>5, OrderKept DEF InputInv, OrderInv, SockOK, SideOK
    <3> QED BY <2>1, <2>2, <3>1 DEF OrderInv
  <2> QED BY <1>00, <2>1, <2>4, <2>5 DEF InputInv, Served
<1>15. CASE InBroken
  <2>1. /\ inPc = "write" /\ input' = 0 /\ Exited /\ UNCHANGED <<side, claude, down, swallowed, told>>
        /\ side # "init"
    BY <1>0, <1>15 DEF InBroken, PhaseInv, SideOK
  <2> QED BY <1>1, <1>4, <2>1 DEF Served, Exited
<1>16. CASE ClaudeExits
  <2>1. /\ claude = "alive" /\ claude' \in {"ok", "failed"} /\ UNCHANGED <<side, down, input, swallowed, told>>
        /\ side # "init"
    BY <1>16 DEF ClaudeExits, PhaseInv
  <2> QED BY <1>1, <1>4, <2>1 DEF Served
<1>17. InCheck => UNCHANGED <<side, down, input, swallowed, told, claude, host, queue, writing, sent>>
  BY DEF InCheck
<1>18. ASSUME NEW p \in Pipe, OutRead(p) \/ OutCheck(p) \/ OutWrite(p) \/ ClaudeWrites(p)
       PROVE  UNCHANGED <<side, down, input, swallowed, told, claude, host, queue, writing, sent>>
  BY <1>18 DEF OutRead, OutCheck, OutWrite, ClaudeWrites
<1>19. CASE UNCHANGED <<side, down, input, swallowed, told, claude, host, queue, writing, sent>>
  BY <1>3, <1>19 DEF Behind
<1>20. SideStep => InputInv'
  BY <1>9, <1>10, <1>11, <1>12, <1>13, <1>14, <1>15, <1>16, <1>17, <1>18, <1>19
     DEF SideStep, Sidecar, Threads
<1>21. CASE HostRefused
  <2>1. UNCHANGED <<side, down, input, swallowed, told, claude, queue, writing, sent>>
        /\ host' # "up" /\ side \notin {"init", "setup", "wait"}
    BY <1>21 DEF HostRefused, GaveUp, PhaseInv, Connected
  <2> QED BY <1>2, <1>4, <2>1 DEF Served
<1>22. CASE ReaderRead \/ ReaderEof \/ WriterTake
  <2>1. UNCHANGED <<side, down, input, swallowed, told, claude, host>> /\ ~WriterWrite /\ ~HostCrash
    BY <1>0, <1>22 DEF ReaderRead, ReaderEof, WriterTake, WriterWrite, HostCrash, HostOK
  <2> QED BY <1>00, <1>3, <2>1
<1>23. ASSUME NEW c \in Client, ClientSend(c) \/ ClientSent(c)
       PROVE  InputInv'
  <2>1. UNCHANGED <<side, down, input, swallowed, told, claude, host, writing>> /\ sending' # sending
    BY <1>23 DEF ClientSend, ClientSent
  <2>2. ~WriterWrite /\ (HostCrash => sending' # sending /\ host' = "dead" /\ host # "dead")
    BY <2>1 DEF WriterWrite, HostCrash
  <2> QED BY <1>00, <1>3, <2>1, <2>2
<1>24. UNCHANGED vars => InputInv'
  BY <1>19 DEF vars
<1> QED BY <1>5, <1>6, <1>7, <1>8, <1>20, <1>21, <1>22, <1>23, <1>24, Steps DEF HostStep

(* The lines of pipe p of which n have been passed on: those in r were received, the   *)
(* others are in u, in order.                                                          *)
Flow(p, u, r, n) ==
  /\ Len(r) <= n
  /\ \A k \in 1 .. Len(r) : r[k] = k
  /\ \A i \in 1 .. Len(u) : u[i].kind = p => u[i].n \in Len(r) + 1 .. n
  /\ \A k \in Len(r) + 1 .. n : \E i \in 1 .. Len(u) : u[i].kind = p /\ u[i].n = k
  /\ \A i, j \in 1 .. Len(u) : u[i].kind = p /\ u[j].kind = p /\ i < j => u[i].n < u[j].n

(* Every message carries a number. *)
LEMMA LineNumbers ==
  ASSUME NEW u \in Seq(Message)
  PROVE  \A i \in 1 .. Len(u) : u[i].n \in Nat
<1> TAKE i \in 1 .. Len(u)
<1>1. u[i] \in Message
  OBVIOUS
<1> QED BY <1>1 DEF Message

(* Flow, said with sets as OutputConserved says it. *)
LEMMA FlowIs ==
  ASSUME NEW p \in Pipe, NEW u \in Seq(Message), NEW r \in Seq(Nat), NEW n \in Int
  PROVE  Flow(p, u, r, n) <=>
           /\ Len(r) <= n
           /\ r = Numbers(0, Len(r))
           /\ { u[i].n : i \in { i \in DOMAIN u : u[i].kind = p } } = Len(r) + 1 .. n
           /\ \A i, j \in { i \in DOMAIN u : u[i].kind = p } : i < j => u[i].n < u[j].n
<1> DEFINE got == Len(r)
           way == { i \in DOMAIN u : u[i].kind = p }
<1>1. got \in Nat /\ Len(u) \in Nat /\ \A i \in 1 .. Len(u) : u[i].n \in Nat
  BY LineNumbers
<1>2. (r = Numbers(0, got)) <=> \A k \in 1 .. got : r[k] = k
  <2>1. Numbers(0, got) = [i \in 1 .. got |-> i]
    <3>1. got - 0 = got /\ \A i \in 1 .. got : 0 + i = i
      BY <1>1
    <3> HIDE DEF got
    <3> QED BY <3>1 DEF Numbers
  <2>2. r = [i \in 1 .. got |-> r[i]]
    OBVIOUS
  <2> HIDE DEF got
  <2> QED BY <2>1, <2>2
<1>3. way = { i \in 1 .. Len(u) : u[i].kind = p }
  OBVIOUS
<1> HIDE DEF got, way
<1>5. { u[i].n : i \in way } = got + 1 .. n <=>
        /\ \A i \in 1 .. Len(u) : u[i].kind = p => u[i].n \in got + 1 .. n
        /\ \A k \in got + 1 .. n : \E i \in 1 .. Len(u) : u[i].kind = p /\ u[i].n = k
  BY <1>3
<1>6. (\A i, j \in way : i < j => u[i].n < u[j].n) <=>
        \A i, j \in 1 .. Len(u) : u[i].kind = p /\ u[j].kind = p /\ i < j => u[i].n < u[j].n
  BY <1>3
<1> QED BY <1>2, <1>5, <1>6 DEF Flow, got, way

(* A line that is written comes after those on their way, ... *)
LEMMA FlowWrite ==
  ASSUME NEW p \in Pipe, NEW u \in Seq(Message), NEW r \in Seq(Nat), NEW n \in Int, Flow(p, u, r, n),
         NEW m \in Message
  PROVE  /\ m.kind # p => Flow(p, Append(u, m), r, n)
         /\ m.kind = p /\ m.n = n + 1 => Flow(p, Append(u, m), r, n + 1)
<1> DEFINE v == Append(u, m)
           l == Len(u)
           got == Len(r)
<1>1. /\ Len(v) = l + 1 /\ v[l + 1] = m /\ (\A i \in 1 .. l : v[i] = u[i])
      /\ l \in Nat /\ got \in Nat /\ \A i \in 1 .. l : u[i].n \in Nat
  BY LineNumbers
<1>2. /\ got <= n
      /\ \A k \in 1 .. got : r[k] = k
      /\ \A i \in 1 .. l : u[i].kind = p => u[i].n \in got + 1 .. n
      /\ \A k \in got + 1 .. n : \E i \in 1 .. l : u[i].kind = p /\ u[i].n = k
      /\ \A i, j \in 1 .. l : u[i].kind = p /\ u[j].kind = p /\ i < j => u[i].n < u[j].n
  BY DEF Flow
<1> HIDE DEF v, l, got
<1>3. \A i \in 1 .. l + 1 : i \in 1 .. l \/ i = l + 1
  BY <1>1
<1>4. \A i \in 1 .. l : i \in 1 .. l + 1 /\ i # l + 1 /\ i < l + 1
  BY <1>1
<1>5. ASSUME m.kind # p
      PROVE  Flow(p, v, r, n)
  <2>1. \A i \in 1 .. l + 1 : v[i].kind = p => i \in 1 .. l /\ v[i] = u[i]
    BY <1>1, <1>3, <1>5
  <2>2. \A i \in 1 .. l + 1 : v[i].kind = p => v[i].n \in got + 1 .. n
    BY <1>2, <2>1
  <2>3. \A k \in got + 1 .. n : \E i \in 1 .. l + 1 : v[i].kind = p /\ v[i].n = k
    BY <1>1, <1>2, <1>4
  <2>4. \A i, j \in 1 .. l + 1 : v[i].kind = p /\ v[j].kind = p /\ i < j => v[i].n < v[j].n
    BY <1>2, <2>1
  <2> QED BY <1>1, <1>2, <2>2, <2>3, <2>4 DEF Flow, got
<1>6. ASSUME m.kind = p, m.n = n + 1
      PROVE  Flow(p, v, r, n + 1)
  <2>1. ASSUME NEW i \in 1 .. l + 1, v[i].kind = p
        PROVE  v[i].n \in got + 1 .. n + 1 /\ (i \in 1 .. l => v[i].n \in got + 1 .. n)
    <3>1. CASE i \in 1 .. l
      BY <1>1, <1>2, <2>1, <3>1
    <3>2. CASE i = l + 1
      <4>1. v[i].n = n + 1 /\ i \notin 1 .. l
        BY <1>1, <1>4, <1>6, <3>2
      <4> QED BY <1>1, <1>2, <4>1
    <3> QED BY <1>3, <3>1, <3>2
  <2>2. ASSUME NEW k \in got + 1 .. n + 1
        PROVE  \E i \in 1 .. l + 1 : v[i].kind = p /\ v[i].n = k
    <3>1. CASE k = n + 1
      BY <1>1, <1>6, <3>1
    <3>2. CASE k \in got + 1 .. n
      BY <1>1, <1>2, <1>4, <3>2
    <3> QED BY <1>1, <3>1, <3>2
  <2>3. ASSUME NEW i \in 1 .. l + 1, NEW j \in 1 .. l + 1, v[i].kind = p, v[j].kind = p, i < j
        PROVE  v[i].n < v[j].n
    <3>1. i \in 1 .. l
      BY <1>1, <2>3
    <3>2. CASE j \in 1 .. l
      BY <1>1, <1>2, <2>3, <3>1, <3>2
    <3>3. CASE j = l + 1
      <4>1. v[j].n = n + 1 /\ v[i].n \in got + 1 .. n
        BY <1>1, <1>6, <2>1, <2>3, <3>1, <3>3
      <4> QED BY <1>1, <4>1
    <3> QED BY <1>3, <3>2, <3>3
  <2>4. got <= n + 1
    BY <1>1, <1>2
  <2> QED BY <1>1, <1>2, <2>1, <2>2, <2>3, <2>4 DEF Flow, got
<1> QED BY <1>5, <1>6 DEF v

(* ... and one that is read is the next the host has. *)
LEMMA FlowRead ==
  ASSUME NEW p \in Pipe, NEW u \in Seq(Message), u # <<>>, NEW r \in Seq(Nat), NEW n \in Int,
         Flow(p, u, r, n)
  PROVE  /\ Head(u).kind # p => Flow(p, Tail(u), r, n)
         /\ Head(u).kind = p => Flow(p, Tail(u), Append(r, Head(u).n), n)
<1> DEFINE v == Tail(u)
           l == Len(u)
           m == Head(u)
           got == Len(r)
<1>1. /\ Len(v) = l - 1 /\ m = u[1] /\ (\A i \in 1 .. l - 1 : v[i] = u[i + 1])
      /\ l \in Nat /\ l >= 1 /\ got \in Nat /\ \A i \in 1 .. l : u[i].n \in Nat
  <2>1. l \in Nat /\ l >= 1 /\ got \in Nat /\ m = u[1]
    OBVIOUS
  <2>2. \A i \in 1 .. l : u[i].n \in Nat
    BY LineNumbers
  <2>3. Len(v) = l - 1 /\ \A i \in 1 .. Len(v) : v[i] = u[i + 1]
    BY HeadTailProperties
  <2> QED BY <2>1, <2>2, <2>3
<1>2. /\ got <= n
      /\ \A k \in 1 .. got : r[k] = k
      /\ \A i \in 1 .. l : u[i].kind = p => u[i].n \in got + 1 .. n
      /\ \A k \in got + 1 .. n : \E i \in 1 .. l : u[i].kind = p /\ u[i].n = k
      /\ \A i, j \in 1 .. l : u[i].kind = p /\ u[j].kind = p /\ i < j => u[i].n < u[j].n
  BY DEF Flow
<1> DEFINE q == Append(r, m.n)
<1>3. Len(q) = got + 1 /\ q[got + 1] = m.n /\ \A k \in 1 .. got : q[k] = r[k]
  <2>1. m.n \in Nat
    BY <1>1
  <2> HIDE DEF m
  <2> QED BY <2>1
<1> HIDE DEF v, l, m, got, q
<1>4. \A i \in 1 .. l - 1 : i + 1 \in 1 .. l /\ i + 1 > 1
  BY <1>1
<1>5. \A i \in 1 .. l : i = 1 \/ (i - 1 \in 1 .. l - 1 /\ v[i - 1] = u[i])
  <2> TAKE i \in 1 .. l
  <2>1. CASE i # 1
    <3>1. i - 1 \in 1 .. l - 1 /\ (i - 1) + 1 = i
      BY <1>1, <2>1
    <3> QED BY <1>1, <3>1
  <2> QED BY <2>1
<1>6. 1 \in 1 .. l
  BY <1>1
<1>7. \A i, j \in 1 .. l - 1 : v[i].kind = p /\ v[j].kind = p /\ i < j => v[i].n < v[j].n
  <2> TAKE i, j \in 1 .. l - 1
  <2>1. i < j => i + 1 < j + 1
    BY <1>1
  <2>2. v[i] = u[i + 1] /\ v[j] = u[j + 1] /\ i + 1 \in 1 .. l /\ j + 1 \in 1 .. l
    BY <1>1, <1>4
  <2> QED BY <1>2, <2>1, <2>2
<1>8. ASSUME m.kind # p
      PROVE  Flow(p, v, r, n)
  <2>1. \A i \in 1 .. l - 1 : v[i].kind = p => v[i].n \in got + 1 .. n
    <3> SUFFICES ASSUME NEW i \in 1 .. l - 1, v[i].kind = p PROVE v[i].n \in got + 1 .. n
      OBVIOUS
    <3>1. v[i] = u[i + 1] /\ i + 1 \in 1 .. l
      BY <1>1, <1>4
    <3> QED BY <1>2, <3>1
  <2>2. ASSUME NEW k \in got + 1 .. n
        PROVE  \E i \in 1 .. l - 1 : v[i].kind = p /\ v[i].n = k
    <3>1. PICK i \in 1 .. l : u[i].kind = p /\ u[i].n = k
      BY <1>2
    <3>2. i # 1
      BY <1>1, <1>8, <3>1
    <3> QED BY <1>5, <3>1, <3>2
  <2> QED BY <1>1, <1>2, <1>7, <2>1, <2>2 DEF Flow, got
<1>9. ASSUME m.kind = p
      PROVE  Flow(p, v, q, n)
  <2>1. u[1].n \in got + 1 .. n
    BY <1>1, <1>2, <1>6, <1>9
  <2>2. u[1].n = got + 1
    <3>1. got + 1 \in got + 1 .. n
      BY <1>1, <2>1
    <3>2. PICK i \in 1 .. l : u[i].kind = p /\ u[i].n = got + 1
      BY <1>2, <3>1
    <3>3. CASE i = 1
      BY <3>2, <3>3
    <3>4. CASE i # 1
      <4>1. 1 < i
        BY <1>1, <3>4
      <4>2. u[1].n < got + 1
        BY <1>1, <1>2, <1>6, <1>9, <3>2, <4>1
      <4> QED BY <1>1, <2>1, <4>2
    <3> QED BY <3>3, <3>4
  <2>3. ASSUME NEW i \in 1 .. l - 1, v[i].kind = p
        PROVE  v[i].n \in (got + 1) + 1 .. n
    <3>1. i + 1 \in 1 .. l /\ 1 < i + 1 /\ v[i] = u[i + 1]
      BY <1>1, <1>4
    <3>2. u[1].n < u[i + 1].n /\ u[i + 1].n \in got + 1 .. n
      BY <1>1, <1>2, <1>6, <1>9, <2>3, <3>1
    <3> QED BY <1>1, <2>2, <3>1, <3>2
  <2>4. ASSUME NEW k \in (got + 1) + 1 .. n
        PROVE  \E i \in 1 .. l - 1 : v[i].kind = p /\ v[i].n = k
    <3>1. k \in got + 1 .. n /\ k # got + 1
      BY <1>1
    <3>2. PICK i \in 1 .. l : u[i].kind = p /\ u[i].n = k
      BY <1>2, <3>1
    <3>3. i # 1
      BY <2>2, <3>1, <3>2
    <3> QED BY <1>5, <3>2, <3>3
  <2>5. \A k \in 1 .. got + 1 : q[k] = k
    <3> TAKE k \in 1 .. got + 1
    <3>1. CASE k \in 1 .. got
      BY <1>2, <1>3, <3>1
    <3>2. CASE k = got + 1
      BY <1>1, <1>3, <2>2, <3>2
    <3> QED BY <1>1, <3>1, <3>2
  <2>6. got + 1 <= n
    BY <1>1, <2>1
  <2> QED BY <1>1, <1>3, <1>7, <2>3, <2>4, <2>5, <2>6 DEF Flow
<1> QED BY <1>8, <1>9 DEF v, q, m

(* What the host has of Claude's output. *)
Live == claude = "alive" /\ side = "wait" /\ host = "up"
Passed(p) == taken[p] - Held(p)
(* What the host has of a pipe and what is on the way are what Claude printed. *)
LEMMA OutputStep ==
  ASSUME LinkTypeOK, LinkTypeOK', PhaseInv, OutputConserved, [Next]_vars
  PROVE  OutputConserved'
<1> USE DEF claudeVars, outVars, inVars, history, sockVars, hostVars
<1>0. /\ SideOK /\ SockOK /\ HostOK
      /\ up \in Seq(Message)
      /\ \A p \in Pipe : /\ taken[p] \in Nat /\ Held(p) \in {0, 1} /\ Passed(p) \in Int
                          /\ received[p] \in Seq(Nat)
  BY SMTT(30) DEF LinkTypeOK, SideOK, SockOK, Held, Passed
<1>00. Live => \A p \in Pipe : Flow(p, up, received[p], Passed(p))
  BY <1>0, FlowIs DEF OutputConserved, OnTheWay, Live, Passed
<1> SUFFICES ASSUME Live', NEW p \in Pipe
             PROVE  Flow(p, up', received'[p], Passed(p)')
  <2>1. /\ up' \in Seq(Message)
        /\ \A p \in Pipe : received'[p] \in Seq(Nat) /\ Passed(p)' \in Int
    BY SMTT(30) DEF LinkTypeOK, SideOK, SockOK, Passed, Held
  <2> QED BY <2>1, FlowIs DEF OutputConserved, OnTheWay, Live, Passed
<1>1. CASE Live /\ UNCHANGED <<up, received, taken, outPc>>
  BY <1>00, <1>1 DEF Passed, Held
<1>2. CASE SideSpawn
  <2>1. /\ side = "setup" /\ outPc' = [stdout |-> "read", stderr |-> "check"]
        /\ UNCHANGED <<up, received, taken>>
    BY <1>2 DEF SideSpawn
  <2>2. up = <<>> /\ taken[p] = 0 /\ received[p] = <<>>
    BY <2>1 DEF PhaseInv
  <2>3. Held(p)' = 0
    BY <2>1 DEF Held, Pipe
  <2>4. Passed(p)' = 0
    BY <2>1, <2>2, <2>3 DEF Passed
  <2>5. Len(up') = 0 /\ Len(received'[p]) = 0
    BY <2>1, <2>2
  <2> QED BY <2>4, <2>5 DEF Flow
<1>3. CASE ReaderRead
  <2>1. /\ up # <<>> /\ up' = Tail(up) /\ UNCHANGED <<taken, outPc, side, claude>>
        /\ received' = IF Head(up).kind \in Pipe
                       THEN [received EXCEPT ![Head(up).kind] = Append(@, Head(up).n)] ELSE received
    BY <1>3 DEF ReaderRead
  <2>2. Flow(p, up, received[p], Passed(p)) /\ UNCHANGED Passed(p)
    BY <1>0, <1>00, <1>3, <2>1 DEF Live, ReaderRead, Passed, Held
  <2>3. CASE Head(up).kind = p
    <3>1. received'[p] = Append(received[p], Head(up).n)
      BY <1>0, <2>1, <2>3 DEF SideOK
    <3> QED BY <1>0, <2>1, <2>2, <2>3, <3>1, FlowRead
  <2>4. CASE Head(up).kind # p
    <3>1. received'[p] = received[p]
      BY <1>0, <2>1, <2>4 DEF SideOK
    <3> QED BY <1>0, <2>1, <2>2, <2>4, <3>1, FlowRead
  <2> QED BY <2>3, <2>4
<1>4. ASSUME NEW q \in Pipe, OutRead(q)
      PROVE  Flow(p, up', received'[p], Passed(p)')
  <2>1. /\ UNCHANGED <<up, received, side, claude, host>> /\ outPc[q] = "read"
        /\ \/ /\ taken' = [taken EXCEPT ![q] = @ + 1]
              /\ outPc' = [outPc EXCEPT ![q] = After[q].read]
           \/ Exited
    BY <1>4 DEF OutRead, Goto
  <2>2. /\ taken' = [taken EXCEPT ![q] = @ + 1] /\ outPc' = [outPc EXCEPT ![q] = After[q].read]
        /\ Flow(p, up, received[p], Passed(p))
    BY <1>00, <2>1 DEF Live, Exited
  <2>3. Passed(p)' = Passed(p)
    <3>1. CASE p = q
      <4>1. Held(p) = 0 /\ Held(p)' = 1
        BY <1>0, <2>1, <2>2, <3>1 DEF Held, After, Pipe, SideOK
      <4>2. taken'[p] = taken[p] + 1
        BY <1>0, <2>2, <3>1 DEF SideOK
      <4> QED BY <1>0, <4>1, <4>2 DEF Passed
    <3>2. CASE p # q
      BY <1>0, <2>2, <3>2 DEF Passed, Held, SideOK
    <3> QED BY <3>1, <3>2
  <2> QED BY <2>1, <2>2, <2>3
<1>5. ASSUME NEW q \in Pipe, OutCheck(q)
      PROVE  Flow(p, up', received'[p], Passed(p)')
  <2>1. /\ UNCHANGED <<up, received, side, claude, host, taken>> /\ outPc[q] = "check"
        /\ outPc' = [outPc EXCEPT ![q] = IF running THEN After[q].check ELSE "ended"]
    BY <1>5 DEF OutCheck, Goto
  <2>2. running /\ Flow(p, up, received[p], Passed(p))
    BY <1>00, <2>1 DEF Live, PhaseInv
  <2>3. Held(p)' = Held(p)
    <3>1. CASE p = q
      BY <1>0, <2>1, <2>2, <3>1 DEF Held, After, Pipe, SideOK
    <3>2. CASE p # q
      BY <1>0, <2>1, <3>2 DEF Held, SideOK
    <3> QED BY <3>1, <3>2
  <2> QED BY <2>1, <2>2, <2>3 DEF Passed
<1>6. ASSUME NEW q \in Pipe, OutWrite(q)
      PROVE  Flow(p, up', received'[p], Passed(p)')
  <2>1. /\ UNCHANGED <<received, side, claude, host, taken>> /\ outPc[q] = "write" /\ host = "up"
        /\ up' = Append(up, Line(q, taken[q])) /\ outPc' = [outPc EXCEPT ![q] = After[q].write]
    BY <1>6 DEF OutWrite, Goto, Live, MayWrite, Written
  <2>2. Flow(p, up, received[p], Passed(p))
    BY <1>00, <2>1 DEF Live
  <2>3. /\ Line(q, taken[q]) \in Message /\ Line(q, taken[q]).kind = q
        /\ Line(q, taken[q]).n = taken[q]
    BY <1>0, MessageTypes
  <2>4. CASE p = q
    <3>1. Held(p) = 1 /\ Held(p)' = 0
      BY <1>0, <2>1, <2>4 DEF Held, After, Pipe, SideOK
    <3>2. taken[p] = Passed(p) + 1 /\ Passed(p)' = Passed(p) + 1
      BY <1>0, <2>1, <3>1 DEF Passed
    <3> QED BY <1>0, <2>1, <2>2, <2>3, <2>4, <3>2, FlowWrite
  <2>5. CASE p # q
    <3>1. Passed(p)' = Passed(p)
      BY <1>0, <2>1, <2>5 DEF Passed, Held, SideOK
    <3> QED BY <1>0, <2>1, <2>2, <2>3, <2>5, <3>1, FlowWrite
  <2> QED BY <2>4, <2>5
(* The other steps leave the output alone, and Claude and its sidecar where they are.   *)
<1>7. CASE \/ ReaderEof \/ WriterTake \/ WriterWrite \/ InCheck \/ InRead \/ InBroken
           \/ InWrite \/ UNCHANGED vars
  <2>1. UNCHANGED <<up, received, taken, outPc, side, claude, host>>
    BY <1>7 DEF ReaderEof, WriterTake, WriterWrite, InCheck, InRead, InBroken, InWrite, vars
  <2> QED BY <1>1, <2>1 DEF Live
<1>8. ASSUME NEW c \in Client, ClientSend(c) \/ ClientSent(c)
      PROVE  Flow(p, up', received'[p], Passed(p)')
  <2>1. UNCHANGED <<up, received, taken, outPc, side, claude, host>>
    BY <1>8 DEF ClientSend, ClientSent
  <2> QED BY <1>1, <2>1 DEF Live
<1>9. ASSUME NEW q \in Pipe, ClaudeWrites(q)
      PROVE  Flow(p, up', received'[p], Passed(p)')
  <2>1. UNCHANGED <<up, received, taken, outPc, side, claude, host>>
    BY <1>9 DEF ClaudeWrites
  <2> QED BY <1>1, <2>1 DEF Live
(* ... or the host is not up, or Claude not alive, or the sidecar not with it. *)
<1>10. ~HostRefused /\ ~HostConnect /\ ~HostCrash
  BY DEF HostRefused, GaveUp, HostConnect, HostCrash, Live
<1>11. ~HostInit
  <2>1. HostInit /\ host' = "up" => side' = "init"
    BY DEF HostInit, PhaseInv
  <2> QED BY <2>1 DEF Live
<1>12. /\ ~SideListen /\ ~SideReadInit /\ ~SideSetupFails /\ ~SideWait /\ ~SideSendError
       /\ ~SideSendExit /\ ~SideReturn /\ ~SideCrash
  BY DEF SideListen, SideReadInit, SideSetupFails, SideWait, AfterWait, SideSendError,
         SideSendExit, SideReturn, SideCrash, Live
<1>13. ~ClaudeExits
  BY DEF ClaudeExits, Live
<1> QED
  BY <1>2, <1>3, <1>4, <1>5, <1>6, <1>7, <1>8, <1>9, <1>10, <1>11, <1>12, <1>13
     DEF Next, Relay, Sidecar, Threads

(* All parts of the invariant together. *)
LEMMA LinkStep == LinkInv /\ [Next]_vars => LinkInv'
<1> SUFFICES ASSUME LinkInv, [Next]_vars
             PROVE  LinkInv'
  OBVIOUS
<1>1. LinkTypeOK /\ PhaseInv /\ EndInv /\ EndExplained /\ InputInv /\ OutputConserved
  BY DEF LinkInv
<1>2. LinkTypeOK'
  BY <1>1, HostOKStep, QueueOKStep, SockOKStep, SideOKStep, FlagsOKStep DEF LinkTypeOK
<1>3. PhaseInv' /\ EndInv' /\ EndExplained' /\ InputInv'
  BY <1>1, PhaseStep, EndStep, EndExplainedStep, InputStep
<1>4. OutputConserved'
  BY <1>1, <1>2, OutputStep
<1> QED BY <1>2, <1>3, <1>4 DEF LinkInv

(* The invariant of the connection, for every value of the constants. *)
THEOREM LinkCorrect == Spec => []LinkInv
BY LinkInit, LinkStep, PTL DEF Spec

(* A sequence of elements of S is one over S. *)
LEMMA SeqOf ==
  ASSUME NEW T, NEW S, NEW s \in Seq(T), \A i \in 1 .. Len(s) : s[i] \in S
  PROVE  s \in Seq(S)
<1>1. s = [i \in 1 .. Len(s) |-> s[i]] /\ Len(s) \in Nat
  OBVIOUS
<1>2. \E n \in Nat : s \in [1 .. n -> S]
  BY <1>1
<1> QED BY <1>2, SeqDef

(* Everything the two ends of the connection hold has the type TypeOK gives it; the    *)
(* queue and the connection never hold more than their capacities.                     *)
THEOREM Types == Spec => []TypeOK
<1>1. ASSUME LinkInv
      PROVE  TypeOK
  <2>0. /\ HostOK /\ QueueOK /\ SockOK /\ SideOK /\ FlagsOK /\ QueueInv /\ PastInv
        /\ side = "init" => InitInv
    BY <1>1 DEF LinkInv, LinkTypeOK, InputInv
  <2>1. /\ MaxInputs \in Nat /\ sent \in Nat /\ sent <= MaxInputs
        /\ Len(queue) \in Nat /\ Behind \in Nat /\ Behind <= sent /\ sent - Len(queue) \in Nat
    <3>1. Cardinality(sending) \in Nat
      BY <2>0, FS_CardinalityType DEF QueueOK
    <3>2. Len(queue) \in Nat /\ sent \in Nat /\ sent <= MaxInputs /\ MaxInputs \in Nat
      BY <2>0, <3>1, Constants DEF QueueOK
    <3> QED BY <2>0, <3>2 DEF QueueInv, Behind
  <2>2. queue \in Seq(1 .. MaxInputs) /\ writing \in 0 .. MaxInputs
    <3>1. \A i \in 1 .. Len(queue) : queue[i] \in 1 .. MaxInputs
      BY <2>0, <2>1 DEF QueueInv
    <3>2. writing \in 0 .. MaxInputs
      BY <2>0, <2>1 DEF QueueInv, QueueOK
    <3>3. queue \in Seq(Nat)
      BY <2>0 DEF QueueOK
    <3> QED BY <3>1, <3>2, <3>3, SeqOf
  <2>3. down \in Seq(0 .. MaxInputs)
    <3>1. down \in Seq(Nat) /\ Len(down) \in Nat
      BY <2>0 DEF SockOK
    <3>2. CASE side = "init"
      <4>1. \A i \in 1 .. Len(down) : down[i] = i - 1
        BY <2>0, <3>2 DEF InitInv
      <4>2. Len(down) <= Behind + 1
        BY <2>0, <3>2 DEF InitInv
      <4>3. \A i \in 1 .. Len(down) : down[i] \in 0 .. MaxInputs
        BY <2>1, <3>1, <4>1, <4>2
      <4> QED BY <3>1, <4>3, SeqOf
    <3>3. CASE side # "init"
      <4>1. \A i \in 1 .. Len(down) : down[i] \in 1 .. Behind
        BY <2>0, <3>3 DEF PastInv
      <4>2. \A i \in 1 .. Len(down) : down[i] \in 0 .. MaxInputs
        BY <2>1, <4>1
      <4> QED BY <3>1, <4>2, SeqOf
    <3> QED BY <3>2, <3>3
  <2>4. told \in Seq(1 .. MaxInputs) /\ input \in 0 .. MaxInputs /\ swallowed \in 0 .. MaxInputs
    <3>1. told \in Seq(Nat) /\ input \in Nat /\ swallowed \in Nat
      BY <2>0 DEF SideOK
    <3>2. \A i \in 1 .. Len(told) : told[i] \in 1 .. MaxInputs
      BY <2>0, <2>1 DEF PastInv
    <3>3. input <= MaxInputs /\ swallowed <= MaxInputs
      BY <2>0, <2>1, <3>1 DEF PastInv
    <3> QED BY <2>1, <3>1, <3>2, <3>3, SeqOf
  <2>5. attempts \in 0 .. MaxAttempts + 1
    BY <2>0, Constants DEF HostOK
  <2> QED BY <2>0, <2>1, <2>2, <2>3, <2>4, <2>5, SMTT(30)
          DEF TypeOK, HostOK, QueueOK, SockOK, SideOK, FlagsOK, Message
<1> QED BY <1>1, LinkCorrect, PTL

(* No line of Claude is lost, doubled or reordered between its pipe and the channel    *)
(* while Claude runs, with both output threads and the main thread writing.            *)
THEOREM OutputInOrder == Spec => []OutputConserved
<1>1. LinkInv => OutputConserved
  BY DEF LinkInv
<1> QED BY <1>1, LinkCorrect, PTL

(* Ranges of numbers. *)
LEMMA NumbersJoin ==
  ASSUME NEW a \in Int, NEW b \in Int, NEW c \in Int, a <= b, b <= c
  PROVE  Numbers(a, b) \o Numbers(b, c) = Numbers(a, c)
<1> DEFINE s == Numbers(a, b)
           t == Numbers(b, c)
<1>1. /\ s \in Seq(Int) /\ Len(s) = b - a /\ \A i \in 1 .. b - a : s[i] = a + i
      /\ t \in Seq(Int) /\ Len(t) = c - b /\ \A i \in 1 .. c - b : t[i] = b + i
  <2>1. b - a \in Nat /\ c - b \in Nat
    OBVIOUS
  <2> QED BY <2>1 DEF Numbers
<1> HIDE DEF s, t
<1>2. s \o t \in Seq(Int) /\ Len(s \o t) = c - a
  <2>1. s \o t \in Seq(Int) /\ Len(s \o t) = Len(s) + Len(t)
    BY <1>1, ConcatProperties
  <2> QED BY <1>1, <2>1
<1>3. ASSUME NEW i \in 1 .. c - a
      PROVE  (s \o t)[i] = a + i
  <2>0. i \in Int /\ b - a \in Int /\ (i <= b - a \/ i > b - a)
    OBVIOUS
  <2>1. CASE i <= b - a
    <3>1. (s \o t)[i] = s[i] /\ i \in 1 .. b - a
      BY <1>1, <2>1
    <3> QED BY <1>1, <3>1
  <2>2. CASE i > b - a
    <3>1. i - (b - a) \in 1 .. c - b /\ b + (i - (b - a)) = a + i
      BY <2>2
    <3>2. (s \o t)[i] = t[i - (b - a)]
      BY <1>1, <2>2, SMTT(30)
    <3> QED BY <1>1, <3>1, <3>2
  <2> QED BY <2>0, <2>1, <2>2
<1> DEFINE u == s \o t
<1>4. u \in Seq(Int) /\ Len(u) = c - a /\ \A i \in 1 .. c - a : u[i] = a + i
  BY <1>2, <1>3
<1> HIDE DEF u
<1>5. u = [i \in 1 .. c - a |-> u[i]]
  BY <1>4
<1>6. u = [i \in 1 .. c - a |-> a + i]
  BY <1>4, <1>5
<1> QED BY <1>6 DEF Numbers, s, t, u

(* A sequence that counts is Numbers, ... *)
LEMMA NumbersAre ==
  ASSUME NEW s \in Seq(Nat), NEW a \in Int, \A k \in 1 .. Len(s) : s[k] = a + k
  PROVE  s = Numbers(a, a + Len(s))
<1> DEFINE l == Len(s)
<1>1. l \in Nat /\ s = [k \in 1 .. l |-> s[k]]
  OBVIOUS
<1> HIDE DEF l
<1>2. (a + l) - a = l
  BY <1>1
<1>3. s = [k \in 1 .. l |-> a + k]
  BY <1>1 DEF l
<1> QED BY <1>2, <1>3 DEF Numbers, l

(* ... and so is what holds the next number or nothing. *)
LEMMA OneIs ==
  ASSUME NEW n \in Nat, NEW a \in Int, n # 0 => n = a + 1
  PROVE  One(n) = Numbers(a, IF n = 0 THEN a ELSE a + 1)
<1>1. CASE n = 0
  <2>1. a - a = 0
    OBVIOUS
  <2> QED BY <1>1, <2>1 DEF One, Numbers
<1>2. CASE n # 0
  <2>1. (a + 1) - a = 1
    OBVIOUS
  <2>2. <<n>> = [k \in 1 .. 1 |-> a + k]
    BY <1>2
  <2> QED BY <1>2, <2>1, <2>2 DEF One, Numbers
<1> QED BY <1>1, <1>2

(* Inputs reach Claude in the order the relay's queue took them, and none is lost but   *)
(* those read ahead with the Init message.                                              *)
THEOREM InputInOrder == Spec => []InputConserved
<1>1. ASSUME LinkInv, claude = "alive", host = "up"
      PROVE  told \o One(input) \o down \o One(writing) \o queue = Numbers(swallowed, sent)
  <2>0. QueueOK /\ SockOK /\ SideOK /\ QueueInv /\ Ordered(down, input, told, swallowed, Behind)
    <3>1. side = "wait"
      BY <1>1 DEF LinkInv, PhaseInv
    <3> QED BY <1>1, <3>1 DEF LinkInv, LinkTypeOK, InputInv, Served, OrderInv
  <2> DEFINE q == sent - Len(queue)
             b == Behind
             d == b - Len(down)
             t == swallowed + Len(told)
  <2>1. /\ b \in Int /\ d \in Int /\ t \in Int /\ q \in Int /\ sent \in Int /\ swallowed \in Int
        /\ swallowed <= t /\ d <= b /\ q <= sent
        /\ writing \in Nat /\ input \in Nat
        /\ d = (IF input = 0 THEN t ELSE t + 1) /\ (input # 0 => input = t + 1)
        /\ q = (IF writing = 0 THEN b ELSE b + 1) /\ (writing # 0 => writing = b + 1)
    <3>1. /\ Len(queue) \in Nat /\ Len(told) \in Nat /\ Len(down) \in Nat /\ b \in Nat /\ sent \in Nat
          /\ writing \in Nat /\ input \in Nat /\ swallowed \in Nat
      BY <2>0 DEF QueueOK, SockOK, SideOK, QueueInv
    <3>2. /\ t = (IF input = 0 THEN d ELSE d - 1) /\ (input # 0 => input = d)
      BY <2>0 DEF Ordered
    <3>3. b = (IF writing = 0 THEN q ELSE q - 1) /\ (writing # 0 => writing = q)
      BY <2>0 DEF QueueInv, Behind
    <3> QED BY <3>1, <3>2, <3>3, SMTT(30)
  <2>2. told = Numbers(swallowed, t)
    <3>1. \A k \in 1 .. Len(told) : told[k] = swallowed + k
      BY <2>0 DEF Ordered
    <3> QED BY <2>0, <2>1, <3>1, NumbersAre DEF SideOK
  <2>3. down = Numbers(d, b)
    <3>1. \A k \in 1 .. Len(down) : down[k] = d + k
      BY <2>0 DEF Ordered
    <3>2. d + Len(down) = b
      BY <2>0, <2>1 DEF SockOK
    <3> HIDE DEF d
    <3>3. down = Numbers(d, d + Len(down))
      BY <2>0, <2>1, <3>1, NumbersAre DEF SockOK
    <3> QED BY <3>2, <3>3
  <2>4. queue = Numbers(q, sent)
    <3>1. \A k \in 1 .. Len(queue) : queue[k] = q + k
      BY <2>0 DEF QueueInv
    <3>2. q + Len(queue) = sent /\ queue \in Seq(Nat)
      BY <2>0, <2>1 DEF QueueOK
    <3> HIDE DEF q
    <3>3. queue = Numbers(q, q + Len(queue))
      BY <2>1, <3>1, <3>2, NumbersAre
    <3> QED BY <3>2, <3>3
  <2> HIDE DEF q, b, d, t
  <2>5. One(input) = Numbers(t, d)
    BY <2>1, OneIs
  <2>6. One(writing) = Numbers(b, q)
    BY <2>1, OneIs
  <2>7. swallowed <= t /\ t <= d /\ d <= b /\ b <= q /\ q <= sent
    BY <2>1
  <2>8. /\ Numbers(swallowed, t) \o Numbers(t, d) = Numbers(swallowed, d)
        /\ Numbers(swallowed, d) \o Numbers(d, b) = Numbers(swallowed, b)
        /\ Numbers(swallowed, b) \o Numbers(b, q) = Numbers(swallowed, q)
        /\ Numbers(swallowed, q) \o Numbers(q, sent) = Numbers(swallowed, sent)
    <3>1. swallowed <= d /\ swallowed <= b /\ swallowed <= q
      BY <2>1, <2>7
    <3>2. Numbers(swallowed, t) \o Numbers(t, d) = Numbers(swallowed, d)
      BY <2>1, <2>7, NumbersJoin
    <3>3. Numbers(swallowed, d) \o Numbers(d, b) = Numbers(swallowed, b)
      BY <2>1, <2>7, <3>1, NumbersJoin
    <3>4. Numbers(swallowed, b) \o Numbers(b, q) = Numbers(swallowed, q)
      BY <2>1, <2>7, <3>1, NumbersJoin
    <3>5. Numbers(swallowed, q) \o Numbers(q, sent) = Numbers(swallowed, sent)
      BY <2>1, <2>7, <3>1, NumbersJoin
    <3> QED BY <3>2, <3>3, <3>4, <3>5
  <2> QED BY Zenon, <2>2, <2>3, <2>4, <2>5, <2>6, <2>8
<1>2. LinkInv => InputConserved
  BY <1>1 DEF InputConserved
<1> QED BY <1>2, LinkCorrect, PTL

(* The host never sees the connection end without an Exit, an Error or a crash.        *)
THEOREM EndIsExplained == Spec => []EndExplained
<1>1. LinkInv => EndExplained
  BY DEF LinkInv
<1> QED BY <1>1, LinkCorrect, PTL

(* The Exit of an agent that failed is only read after an Error.                       *)
THEOREM FailureIsExplained == Spec => []FailureExplained
<1>1. LinkInv => FailureExplained
  BY DEF LinkInv, EndInv, FailureExplained
<1> QED BY <1>1, LinkCorrect, PTL
=============================================================================
