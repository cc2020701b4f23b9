--------------------------- MODULE WsChannelProofs ---------------------------
(***************************************************************************)
(* Proofs about WsChannel, for any number of clients, channels and         *)
(* messages and any capacity: what a client sees and misses, and what a    *)
(* stop leaves of a channel.                                               *)
(***************************************************************************)
EXTENDS WsChannel, SequenceTheorems, TLAPS

Message == [kind : {"output", "status", "other"}, n : Nat]
RelayBusy == relayPc \in {"push", "send"}

WsTypeOK ==
  /\ made \in Channel
  /\ registered \in 0 .. made
  /\ cut \in [Channel -> Nat \cup {-1}]
  /\ buffer \in [Channel -> Seq(Nat)]
  /\ log \in [Channel -> Seq(Message)]
  /\ relayPc \in {"read", "push", "send", "ended"}
  /\ relayOn \in 0 .. made
  /\ relayMsg \in Message
  /\ produced \in Nat
  /\ wsPc \in [Client -> {"closed", "snapshot", "subscribe", "open"}]
  /\ wsOn \in [Client -> 0 .. made]
  /\ pos \in [Client -> Nat] /\ snap \in [Client -> Nat] /\ from \in [Client -> Nat]
  /\ seen \in [Client -> Seq(Nat)]
  /\ RelayBusy => relayOn # 0
  /\ relayPc = "push" => relayMsg.kind = "output"
  /\ \A k \in Client : wsOn[k] = 0 <=> wsPc[k] = "closed"

(* A channel that was made is the registered one, or it was cut off; only a line whose *)
(* sender had already looked it up still comes into its buffer.                        *)
RegistryInv ==
  /\ registered # 0 => cut[registered] = -1
  /\ \A c \in Channel :
       /\ c <= made => c = registered \/ cut[c] # -1
       /\ cut[c] # -1 => /\ c <= made
                         /\ Len(buffer[c]) <=
                              IF relayPc = "push" /\ relayOn = c THEN cut[c] ELSE cut[c] + 1

(* The lines of the agent: the one the reader holds is the last it has read; it is     *)
(* buffered before it is broadcast, and only then.                                     *)
HeldInv ==
  /\ RelayBusy /\ relayMsg.kind = "output" => relayMsg.n = produced
  /\ relayPc = "send" /\ relayMsg.kind = "output" =>
       \E q \in DOMAIN buffer[relayOn] : buffer[relayOn][q] = relayMsg.n
BuffersInv ==
  \A c \in Channel :
    /\ \A q \in DOMAIN buffer[c] :
         buffer[c][q] <= produced /\ (relayPc = "push" => buffer[c][q] < produced)
    /\ \A q, r \in DOMAIN buffer[c] : q < r => buffer[c][q] < buffer[c][r]
LogsInv ==
  \A c \in Channel : \A i \in DOMAIN log[c] : log[c][i].kind = "output" =>
    /\ log[c][i].n <= produced
    /\ RelayBusy /\ relayMsg.kind = "output" => log[c][i].n < produced
    /\ \E q \in DOMAIN buffer[c] : buffer[c][q] = log[c][i].n
    /\ \A j \in DOMAIN log[c] :
         j < i /\ log[c][j].kind = "output" => log[c][j].n < log[c][i].n
LinesInv == HeldInv /\ BuffersInv /\ LogsInv

(* Line n may still come to a client that was sent the lines s, the first h of them     *)
(* its snapshot: it is beyond all lines but, perhaps, one of the snapshot.             *)
Passed(s, h, n) == \A i \in DOMAIN s : s[i] < n \/ (s[i] = n /\ i <= h)
Beyond(k, n) == Passed(seen[k], snap[k], n)

(* Lines s, the first h of them a snapshot, come in order when the agent wrote top.    *)
Ordered(s, h, top) ==
  /\ \A i \in DOMAIN s : s[i] <= top
  /\ \A i, j \in DOMAIN s : i < j =>
       \/ s[i] < s[j]
       \/ s[i] = s[j] /\ i <= h /\ j > h

(* What each client has seen, and what it will see. *)
SnapInv(k) ==
  /\ wsPc[k] \in {"closed", "snapshot"} => seen[k] = <<>> /\ snap[k] = 0
  /\ snap[k] <= Len(seen[k])
  /\ wsPc[k] = "subscribe" =>
       /\ Len(seen[k]) = snap[k] /\ snap[k] <= Len(buffer[wsOn[k]])
       /\ \A i \in 1 .. snap[k] : seen[k][i] = buffer[wsOn[k]][i]
SeenInv(k) == Ordered(seen[k], snap[k], produced)
NextInv(k) ==
  /\ wsPc[k] = "open" =>
       /\ pos[k] <= Len(log[wsOn[k]])
       /\ \A i \in DOMAIN log[wsOn[k]] :
            i > pos[k] /\ log[wsOn[k]][i].kind = "output" => Beyond(k, log[wsOn[k]][i].n)
  /\ wsPc[k] \in {"subscribe", "open"} /\ RelayBusy /\ relayOn = wsOn[k]
        /\ relayMsg.kind = "output" => Beyond(k, relayMsg.n)
ClientInv == \A k \in Client : SnapInv(k) /\ SeenInv(k) /\ NextInv(k)

WsInv == WsTypeOK /\ RegistryInv /\ LinesInv /\ ClientInv /\ MissedOnlyInGapOrLag

(* What the assumption says of the constants. *)
LEMMA Constants == Capacity \in Nat \ {0} /\ MaxChannels \in Nat \ {0} /\ 1 \in Channel
BY WsAssumption DEF Channel

(* The types hold in the initial state. *)
LEMMA TypeInit == Init => WsTypeOK
BY Constants DEF Init, WsTypeOK, RelayBusy, Channel, Message, Other

(* A client that is connected, and a reader that has a message, work on a channel. *)
LEMMA OnChannel ==
  ASSUME WsTypeOK, NEW c \in 1 .. made
  PROVE  /\ c \in Channel
         /\ buffer[c] \in Seq(Nat) /\ Len(buffer[c]) \in Nat
         /\ log[c] \in Seq(Message) /\ Len(log[c]) \in Nat
<1>1. c \in Channel
  BY Constants DEF WsTypeOK, Channel
<1> QED BY <1>1 DEF WsTypeOK

(* A client that has begun is on a channel that was made, ... *)
LEMMA ClientOn ==
  ASSUME WsTypeOK, NEW k \in Client, wsPc[k] # "closed"
  PROVE  wsOn[k] \in 1 .. made
BY DEF WsTypeOK, Channel

(* ... and so is a relay with a line in its hands. *)
LEMMA RelayIsOn ==
  ASSUME WsTypeOK, RelayBusy
  PROVE  relayOn \in 1 .. made
BY DEF WsTypeOK, Channel

(* The types. *)
LEMMA TypeStep ==
  ASSUME WsTypeOK, [Next]_vars
  PROVE  WsTypeOK'
<1> USE Constants DEF WsTypeOK, RelayBusy, Message, Channel, chanVars, relayVars, wsVars, Output, Exited, Other
<1>1. CASE Announce
  BY <1>1, SMTT(30) DEF Announce, Broadcast
<1>2. CASE RelayRead
  BY <1>2 DEF RelayRead, NextMessages, AfterGet, GetChannel
<1>3. CASE RelayPush
  BY <1>3, SMTT(30) DEF RelayPush, Pushed
<1>4. CASE RelaySend
  BY <1>4, SMTT(30) DEF RelaySend, Broadcast
<1>5. CASE RelayClosed
  BY <1>5 DEF RelayClosed
<1>6. CASE Remove
  BY <1>6, SMTT(30) DEF Remove
<1>7. ASSUME NEW k \in Client, WsConnect(k)
      PROVE  WsTypeOK'
  <2> DEFINE c == IF registered # 0 THEN registered ELSE made + 1
  <2>1. /\ made' \in Channel /\ made' >= made /\ registered' \in 0 .. made'
        /\ c \in 1 .. made' /\ wsOn' = [wsOn EXCEPT ![k] = c] /\ cut' = cut
    <3>1. CASE registered # 0
      BY <1>7, <3>1 DEF WsConnect
    <3>2. CASE registered = 0
      BY <1>7, <3>2 DEF WsConnect, Entry
    <3> QED BY <3>1, <3>2
  <2> HIDE DEF c
  <2>3. \A l \in Client : wsOn'[l] = IF l = k THEN c ELSE wsOn[l]
    BY <2>1
  <2>2. wsOn' \in [Client -> 0 .. made'] /\ relayOn \in 0 .. made'
    <3>1. 0 .. made \subseteq 0 .. made'
      BY <2>1
    <3>2. c \in 0 .. made'
      BY <2>1
    <3>3. wsOn \in [Client -> 0 .. made'] /\ relayOn \in 0 .. made'
      BY <3>1
    <3> QED BY <2>1, <3>2, <3>3
  <2>4. \A l \in Client : wsPc'[l] = IF l = k THEN "snapshot" ELSE wsPc[l]
    BY <1>7 DEF WsConnect
  <2>5. ASSUME NEW l \in Client
        PROVE  wsOn'[l] = 0 <=> wsPc'[l] = "closed"
    <3>1. c # 0
      BY <2>1
    <3> QED BY <2>3, <2>4, <3>1
  <2> QED BY <1>7, <2>1, <2>2, <2>5 DEF WsConnect
<1>8. ASSUME NEW k \in Client, WsSnapshot(k)
      PROVE  WsTypeOK'
  <2>1. buffer[wsOn[k]] \in Seq(Nat) /\ Len(buffer[wsOn[k]]) \in Nat
    BY <1>8, ClientOn, OnChannel DEF WsSnapshot
  <2> QED BY <1>8, <2>1 DEF WsSnapshot
<1>9. ASSUME NEW k \in Client, WsSubscribe(k)
      PROVE  WsTypeOK'
  <2>1. Len(log[wsOn[k]]) \in Nat
    BY <1>9, ClientOn, OnChannel DEF WsSubscribe
  <2> QED BY <1>9, <2>1 DEF WsSubscribe, LastSent
<1>10. ASSUME NEW k \in Client, WsRecv(k)
      PROVE  WsTypeOK'
  <2>1. log[wsOn[k]] \in Seq(Message) /\ Len(log[wsOn[k]]) \in Nat
    BY <1>10, ClientOn, OnChannel DEF WsRecv
  <2>2. CASE Deliver(k)
    <3>1. pos[k] + 1 \in 1 .. Len(log[wsOn[k]])
      BY <2>1, <2>2, SMTT(30) DEF Deliver
    <3>2. log[wsOn[k]][pos[k] + 1] \in Message
      BY <2>1, <3>1, ElementOfSeq
    <3>3. seen[k] \in Seq(Nat) /\ Append(seen[k], log[wsOn[k]][pos[k] + 1].n) \in Seq(Nat)
      BY <3>2, SMTT(30)
    <3> DEFINE s == IF log[wsOn[k]][pos[k] + 1].kind = "output"
                    THEN Append(seen[k], log[wsOn[k]][pos[k] + 1].n) ELSE seen[k]
    <3>4. s \in Seq(Nat) /\ seen' = [seen EXCEPT ![k] = s]
      BY <2>2, <3>3 DEF Deliver
    <3> HIDE DEF s
    <3>5. seen' \in [Client -> Seq(Nat)]
      BY <3>4
    <3>6. pos' \in [Client -> Nat]
      <4>1. pos' = [pos EXCEPT ![k] = pos[k] + 1]
        BY <2>2 DEF Deliver
      <4>2. pos[k] + 1 \in Nat
        OBVIOUS
      <4> QED BY <4>1, <4>2
    <3> QED BY <1>10, <3>5, <3>6 DEF WsRecv
  <2>3. CASE SkipLagged(k)
    <3>1. Len(log[wsOn[k]]) - pos[k] > Capacity /\ pos[k] \in Nat
      BY <2>3 DEF SkipLagged, Lagging
    <3>2. Len(log[wsOn[k]]) - Capacity \in Nat
      BY <2>1, <3>1, SMTT(30)
    <3> QED BY <1>10, <2>3, <3>2 DEF WsRecv, SkipLagged
  <2> QED BY <1>10, <2>2, <2>3 DEF WsRecv
<1>11. ASSUME NEW k \in Client, WsPing(k)
      PROVE  WsTypeOK'
  <2>1. wsOn[k] \in Channel /\ Append(log[wsOn[k]], Other) \in Seq(Message)
    <3>1. wsOn[k] \in 1 .. made
      BY <1>11, ClientOn DEF WsPing
    <3>2. Other \in Message
      OBVIOUS
    <3> QED BY <3>1, <3>2, OnChannel, SMTT(30)
  <2>2. log' \in [Channel -> Seq(Message)]
    BY <1>11, <2>1 DEF WsPing, Broadcast
  <2> QED BY <1>11, <2>2 DEF WsPing
<1>12. ASSUME NEW k \in Client, WsClose(k)
      PROVE  WsTypeOK'
  BY <1>12, SMTT(30) DEF WsClose
<1>13. CASE UNCHANGED vars
  BY <1>13 DEF vars
<1> QED
  BY <1>1, <1>2, <1>3, <1>4, <1>5, <1>6, <1>7, <1>8, <1>9, <1>10, <1>11, <1>12, <1>13 DEF Next

(* What the registry says of the channels. *)
LEMMA RegistryStep ==
  ASSUME WsTypeOK, RegistryInv, [Next]_vars
  PROVE  RegistryInv'
<1> USE DEF Channel, chanVars, relayVars, wsVars
<1>0. /\ MaxChannels \in Nat /\ made \in 1 .. MaxChannels /\ registered \in 0 .. made
      /\ cut \in [Channel -> Nat \cup {-1}]
      /\ \A c \in Channel : buffer[c] \in Seq(Nat) /\ Len(buffer[c]) \in Nat
  BY Constants DEF WsTypeOK
<1>1. CASE UNCHANGED <<chanVars, buffer>> /\ (relayPc' = "push" => UNCHANGED <<relayPc, relayOn>>)
                                        /\ relayPc # "push"
  BY <1>0, <1>1 DEF RegistryInv
<1>2. CASE UNCHANGED <<chanVars, buffer, relayPc, relayOn>>
  BY <1>2 DEF RegistryInv
<1>3. CASE RelayRead
  <2>1. /\ UNCHANGED <<chanVars, buffer>> /\ relayPc = "read"
        /\ relayPc' = "push" => relayOn' = registered /\ registered # 0
    BY <1>3 DEF RelayRead, AfterGet, GetChannel
  <2> QED BY <1>0, <2>1 DEF RegistryInv
<1>4. CASE RelayPush
  <2>1. /\ UNCHANGED chanVars /\ relayPc = "push" /\ relayPc' = "send" /\ relayOn \in Channel
        /\ buffer' = [buffer EXCEPT ![relayOn] = Append(buffer[relayOn], relayMsg.n)]
    BY <1>0, <1>4 DEF RelayPush, Pushed, WsTypeOK, RelayBusy
  <2>2. relayMsg.n \in Nat
    BY DEF WsTypeOK, Message
  <2>3. \A c \in Channel : Len(buffer'[c]) = IF c = relayOn THEN Len(buffer[c]) + 1 ELSE Len(buffer[c])
    BY <1>0, <2>1, <2>2 DEF WsTypeOK
  <2> QED BY <1>0, <2>1, <2>3 DEF RegistryInv
<1>5. CASE Remove
  <2>1. \A c \in Channel : cut'[c] = IF c = registered THEN Len(buffer[c]) ELSE cut[c]
    BY <1>0, <1>5 DEF Remove
  <2>2. registered \in Channel /\ registered' = 0 /\ UNCHANGED <<made, buffer, relayPc, relayOn>>
    BY <1>0, <1>5 DEF Remove
  <2> QED BY <1>0, <2>1, <2>2 DEF RegistryInv
<1>6. ASSUME NEW k \in Client, WsConnect(k)
      PROVE  RegistryInv'
  <2>1. CASE registered # 0
    BY <1>6, <2>1 DEF WsConnect, RegistryInv
  <2>2. CASE registered = 0
    <3>1. /\ made < MaxChannels /\ made' = made + 1 /\ registered' = made + 1
          /\ UNCHANGED <<cut, buffer, relayPc, relayOn>>
      BY <1>6, <2>2 DEF WsConnect, Entry
    <3>2. made + 1 \in Channel
      BY <1>0, <3>1
    <3>3. cut[made + 1] = -1
      BY <1>0, <3>2 DEF RegistryInv
    <3> QED BY <1>0, <2>2, <3>1, <3>2, <3>3 DEF RegistryInv
  <2> QED BY <2>1, <2>2
<1>7. CASE RelaySend \/ RelayClosed
  BY <1>1, <1>7 DEF RelaySend, RelayClosed
<1>8. CASE Announce \/ UNCHANGED vars
  BY <1>2, <1>8 DEF Announce, vars
<1>9. ASSUME NEW k \in Client,
             WsSnapshot(k) \/ WsSubscribe(k) \/ WsRecv(k) \/ WsPing(k) \/ WsClose(k)
      PROVE  RegistryInv'
  BY <1>2, <1>9 DEF WsSnapshot, WsSubscribe, WsRecv, WsPing, WsClose
<1> QED
  BY <1>3, <1>4, <1>5, <1>6, <1>7, <1>8, <1>9 DEF Next

(* The lines of the agent in the buffers and on the channels. *)
LEMMA LinesStep ==
  ASSUME WsTypeOK, LinesInv, [Next]_vars
  PROVE  LinesInv'
<1> USE DEF Channel, chanVars, relayVars, wsVars, RelayBusy
<1>0. /\ produced \in Nat /\ relayMsg.n \in Nat
      /\ \A c \in Channel : buffer[c] \in Seq(Nat) /\ log[c] \in Seq(Message)
      /\ \A c \in Channel : \A i \in DOMAIN log[c] : log[c][i].n \in Nat
      /\ \A c \in Channel : \A i \in DOMAIN buffer[c] : buffer[c][i] \in Nat
      /\ RelayBusy => relayOn \in Channel
  <2>1. /\ produced \in Nat /\ relayMsg.n \in Nat /\ (RelayBusy => relayOn \in Channel)
        /\ \A c \in Channel : buffer[c] \in Seq(Nat) /\ log[c] \in Seq(Message)
    BY Constants DEF WsTypeOK, Message
  <2>2. ASSUME NEW c \in Channel, NEW i \in DOMAIN log[c]
        PROVE  log[c][i].n \in Nat
    <3>1. log[c][i] \in Message
      BY <2>1
    <3> QED BY <3>1 DEF Message
  <2> QED BY <2>1, <2>2
<1>1. CASE UNCHANGED <<buffer, log, relayPc, relayOn, relayMsg, produced>>
  BY <1>1 DEF LinesInv, HeldInv, BuffersInv, LogsInv
<1>2. CASE RelayRead
  <2>1. /\ UNCHANGED <<buffer, log>> /\ relayPc = "read"
        /\ relayPc' # "send" \/ relayMsg'.kind # "output"
        /\ IF relayMsg'.kind = "output" THEN relayMsg'.n = produced + 1 /\ produced' = produced + 1
           ELSE produced' = produced /\ relayPc' # "push"
    BY <1>2 DEF RelayRead, AfterGet, GetChannel, NextMessages, Output, Exited, Other
  <2>2. HeldInv'
    BY <2>1 DEF HeldInv
  <2>3. BuffersInv'
    <3> SUFFICES ASSUME NEW c \in Channel
                 PROVE  /\ \A q \in DOMAIN buffer[c] :
                             /\ buffer[c][q] <= produced'
                             /\ relayPc' = "push" => buffer[c][q] < produced'
                        /\ \A q, r \in DOMAIN buffer[c] : q < r => buffer[c][q] < buffer[c][r]
      BY <2>1 DEF BuffersInv
    <3>1. \A q \in DOMAIN buffer[c] : buffer[c][q] \in Nat /\ buffer[c][q] <= produced
      BY <1>0 DEF LinesInv, BuffersInv
    <3> QED BY <1>0, <2>1, <3>1, SMTT(30) DEF LinesInv, BuffersInv
  <2>4. LogsInv'
    <3> SUFFICES ASSUME NEW c \in Channel, NEW i \in DOMAIN log[c], log[c][i].kind = "output"
                 PROVE  /\ log[c][i].n <= produced'
                        /\ relayMsg'.kind = "output" => log[c][i].n < produced'
      BY <2>1 DEF LinesInv, LogsInv
    <3>1. log[c][i].n \in Nat /\ log[c][i].n <= produced
      BY <1>0 DEF LinesInv, LogsInv
    <3> QED BY <1>0, <2>1, <3>1
  <2> QED BY <2>2, <2>3, <2>4 DEF LinesInv
<1>3. CASE RelayPush
  <2>1. /\ UNCHANGED <<log, relayMsg, relayOn, produced>> /\ relayPc = "push" /\ relayPc' = "send"
        /\ buffer' = [buffer EXCEPT ![relayOn] = Append(buffer[relayOn], relayMsg.n)]
        /\ relayMsg.kind = "output"
    BY <1>3 DEF RelayPush, Pushed, WsTypeOK
  <2>2. relayOn \in Channel /\ relayMsg.n = produced
    BY <1>0, <2>1 DEF LinesInv, HeldInv
  <2> DEFINE b == Append(buffer[relayOn], relayMsg.n)
  <2>3. /\ DOMAIN b = DOMAIN buffer[relayOn] \cup {Len(buffer[relayOn]) + 1}
        /\ DOMAIN buffer[relayOn] = 1 .. Len(buffer[relayOn]) /\ Len(buffer[relayOn]) \in Nat
        /\ \A q \in DOMAIN buffer[relayOn] : b[q] = buffer[relayOn][q]
        /\ b[Len(buffer[relayOn]) + 1] = relayMsg.n
    BY <1>0, <2>2
  <2>4. \A c \in Channel : buffer'[c] = IF c = relayOn THEN b ELSE buffer[c]
    BY <2>1, <2>2 DEF WsTypeOK
  <2> HIDE DEF b
  <2>5. \E q \in DOMAIN buffer'[relayOn'] : buffer'[relayOn'][q] = relayMsg'.n
    BY <2>1, <2>2, <2>3, <2>4
  <2>6. ASSUME NEW c \in Channel
        PROVE  /\ \A q \in DOMAIN buffer'[c] : buffer'[c][q] <= produced
               /\ \A q, r \in DOMAIN buffer'[c] : q < r => buffer'[c][q] < buffer'[c][r]
               /\ \A q \in DOMAIN buffer[c] : q \in DOMAIN buffer'[c] /\ buffer'[c][q] = buffer[c][q]
    BY <1>0, <2>1, <2>2, <2>3, <2>4 DEF LinesInv, BuffersInv
  <2>7. HeldInv'
    BY <2>1, <2>2, <2>5 DEF HeldInv
  <2>8. BuffersInv'
    BY <2>1, <2>6 DEF BuffersInv
  <2>9. LogsInv'
    <3> SUFFICES ASSUME NEW c \in Channel, NEW i \in DOMAIN log[c], log[c][i].kind = "output"
                 PROVE  \E q \in DOMAIN buffer'[c] : buffer'[c][q] = log[c][i].n
      BY <2>1 DEF LinesInv, LogsInv
    <3>1. PICK q \in DOMAIN buffer[c] : buffer[c][q] = log[c][i].n
      BY DEF LinesInv, LogsInv
    <3> QED BY <2>6, <3>1
  <2> QED BY <2>7, <2>8, <2>9 DEF LinesInv
<1>4. ASSUME NEW c \in Channel, NEW m \in Message, Broadcast(c, m), UNCHANGED <<buffer, produced>>,
             m.kind = "output" => relayPc = "send" /\ relayOn = c /\ relayMsg = m /\ relayPc' = "read",
             relayPc' \in {"read", "ended"} \/ UNCHANGED <<relayPc, relayOn, relayMsg>>
      PROVE  LinesInv'
  <2> DEFINE l == Append(log[c], m)
  <2>1. /\ DOMAIN l = DOMAIN log[c] \cup {Len(log[c]) + 1}
        /\ DOMAIN log[c] = 1 .. Len(log[c]) /\ Len(log[c]) \in Nat
        /\ \A q \in DOMAIN log[c] : l[q] = log[c][q]
        /\ l[Len(log[c]) + 1] = m /\ m.n \in Nat
    BY <1>0 DEF Message
  <2>2. \A d \in Channel : log'[d] = IF d = c THEN l ELSE log[d]
    BY <1>4 DEF Broadcast, WsTypeOK
  <2> HIDE DEF l
  <2>3. m.kind = "output" =>
          /\ m.n = produced /\ (\E q \in DOMAIN buffer[c] : buffer[c][q] = m.n)
          /\ \A i \in DOMAIN log[c] : log[c][i].kind = "output" => log[c][i].n < m.n
    BY <1>0, <1>4 DEF LinesInv, HeldInv, LogsInv
  <2>4. ASSUME NEW d \in Channel, NEW i \in DOMAIN log'[d], log'[d][i].kind = "output"
        PROVE  /\ log'[d][i].n <= produced
               /\ RelayBusy' /\ relayMsg'.kind = "output" => log'[d][i].n < produced
               /\ \E q \in DOMAIN buffer[d] : buffer[d][q] = log'[d][i].n
               /\ \A j \in DOMAIN log'[d] :
                    j < i /\ log'[d][j].kind = "output" => log'[d][j].n < log'[d][i].n
    <3>1. CASE d = c /\ i = Len(log[c]) + 1
      <4>1. log'[d][i] = m /\ m.kind = "output" /\ ~RelayBusy'
        BY <1>4, <2>1, <2>2, <2>4, <3>1
      <4>2. \A j \in DOMAIN log'[d] : j < i => j \in DOMAIN log[c] /\ log'[d][j] = log[c][j]
        BY <2>1, <2>2, <3>1
      <4>3. m.n <= produced
        BY <1>0, <2>3, <4>1
      <4> QED BY <2>3, <3>1, <4>1, <4>2, <4>3
    <3>2. CASE ~(d = c /\ i = Len(log[c]) + 1)
      <4>1. /\ i \in DOMAIN log[d] /\ log'[d][i] = log[d][i]
            /\ \A j \in DOMAIN log'[d] : j < i => j \in DOMAIN log[d] /\ log'[d][j] = log[d][j]
        BY <2>1, <2>2, <2>4, <3>2
      <4> QED BY <1>0, <1>4, <2>4, <4>1 DEF LinesInv, LogsInv
    <3> QED BY <3>1, <3>2
  <2>5. LogsInv'
    BY <1>4, <2>4 DEF LogsInv
  <2> QED BY <1>4, <2>5 DEF LinesInv, HeldInv, BuffersInv
<1>5. CASE RelaySend
  <2>1. relayMsg \in Message /\ relayPc = "send"
    BY <1>5 DEF RelaySend, WsTypeOK
  <2> QED BY <1>0, <1>4, <1>5, <2>1 DEF RelaySend
<1>6. Other \in Message /\ Other.kind # "output"
  BY DEF Other, Message
<1>7. CASE Announce
  BY <1>4, <1>6, <1>7, Constants DEF Announce
<1>8. ASSUME NEW k \in Client, WsPing(k)
      PROVE  LinesInv'
  <2>1. wsOn[k] \in Channel
    BY <1>8, ClientOn, OnChannel DEF WsPing
  <2> QED BY <1>4, <1>6, <1>8, <2>1 DEF WsPing
<1>9. CASE RelayClosed
  BY <1>9 DEF RelayClosed, LinesInv, HeldInv, BuffersInv, LogsInv
<1>10. CASE Remove \/ UNCHANGED vars
  BY <1>1, <1>10 DEF Remove, vars
<1>11. ASSUME NEW k \in Client,
              WsConnect(k) \/ WsSnapshot(k) \/ WsSubscribe(k) \/ WsRecv(k) \/ WsClose(k)
       PROVE  LinesInv'
  BY <1>1, <1>11 DEF WsConnect, WsSnapshot, WsSubscribe, WsRecv, WsClose
<1> QED
  BY <1>2, <1>3, <1>5, <1>7, <1>8, <1>9, <1>10, <1>11 DEF Next

(* Buffers and channels only grow, and what comes on a channel as a line is what the *)
(* reader held; what it holds is what it held, or a line beyond all so far.          *)
LEMMA Grows ==
  ASSUME WsTypeOK, [Next]_vars
  PROVE  /\ \A c \in Channel : \A i \in DOMAIN buffer[c] :
              i \in DOMAIN buffer'[c] /\ buffer'[c][i] = buffer[c][i]
         /\ \A c \in Channel : \A i \in DOMAIN log[c] :
              i \in DOMAIN log'[c] /\ log'[c][i] = log[c][i]
         /\ \A c \in Channel : \A i \in DOMAIN log'[c] :
              i \in DOMAIN log[c] \/ log'[c][i].kind # "output"
                \/ (relayPc = "send" /\ relayOn = c /\ relayMsg = log'[c][i])
         /\ RelayBusy' /\ relayMsg'.kind = "output" =>
              \/ RelayBusy /\ UNCHANGED <<relayMsg, relayOn>>
              \/ relayMsg'.n = produced + 1
         /\ produced' \in {produced, produced + 1}
<1> USE DEF Channel, chanVars, relayVars, wsVars, RelayBusy
<1>0. /\ \A c \in Channel : buffer[c] \in Seq(Nat) /\ log[c] \in Seq(Message)
      /\ buffer \in [Channel -> Seq(Nat)] /\ log \in [Channel -> Seq(Message)]
  BY DEF WsTypeOK
<1>1. CASE UNCHANGED <<buffer, log, relayPc, relayOn, relayMsg, produced>>
  BY <1>1
<1>2. CASE RelayRead
  BY <1>2 DEF RelayRead, AfterGet, GetChannel, NextMessages, Output, Exited, Other
<1>3. CASE RelayPush
  <2>1. /\ UNCHANGED <<log, relayMsg, relayOn, produced>> /\ relayPc = "push"
        /\ buffer' = [buffer EXCEPT ![relayOn] = Append(buffer[relayOn], relayMsg.n)]
    BY <1>3 DEF RelayPush, Pushed
  <2>2. relayMsg.n \in Nat
    BY DEF WsTypeOK, Message
  <2> QED BY <1>0, <2>1, <2>2
<1>4. ASSUME NEW c \in Channel, NEW m \in Message, Broadcast(c, m), UNCHANGED <<buffer, produced>>,
             m.kind = "output" => relayPc = "send" /\ relayOn = c /\ relayMsg = m,
             relayPc' \in {"read", "ended"} \/ UNCHANGED <<relayPc, relayOn, relayMsg>>
      PROVE  /\ \A d \in Channel : \A i \in DOMAIN log[d] :
                  i \in DOMAIN log'[d] /\ log'[d][i] = log[d][i]
             /\ \A d \in Channel : \A i \in DOMAIN log'[d] :
                  i \in DOMAIN log[d] \/ log'[d][i].kind # "output"
                    \/ (relayPc = "send" /\ relayOn = d /\ relayMsg = log'[d][i])
  <2>1. log' = [log EXCEPT ![c] = Append(log[c], m)]
    BY <1>4 DEF Broadcast
  <2> QED BY <1>0, <1>4, <2>1
<1>5. CASE RelaySend
  <2>1. relayMsg \in Message /\ relayPc = "send" /\ relayOn \in Channel
    BY <1>5, Constants DEF RelaySend, WsTypeOK
  <2>2. Broadcast(relayOn, relayMsg) /\ UNCHANGED <<buffer, produced>> /\ relayPc' \in {"read", "ended"}
    BY <1>5 DEF RelaySend
  <2> QED BY <1>4, <2>1, <2>2
<1>6. Other \in Message /\ Other.kind # "output"
  BY DEF Other, Message
<1>7. CASE Announce
  <2>1. Broadcast(1, Other) /\ UNCHANGED <<buffer, relayPc, relayOn, relayMsg, produced>>
    BY <1>7 DEF Announce
  <2> QED BY <1>4, <1>6, <2>1, Constants
<1>8. ASSUME NEW k \in Client, WsPing(k)
      PROVE  Broadcast(wsOn[k], Other) /\ wsOn[k] \in Channel
             /\ UNCHANGED <<buffer, relayPc, relayOn, relayMsg, produced>>
  BY <1>8, ClientOn, OnChannel DEF WsPing
<1>9. CASE \E k \in Client : WsPing(k)
  BY <1>4, <1>6, <1>8, <1>9
<1>10. CASE RelayClosed
  BY <1>10 DEF RelayClosed
<1>11. CASE Remove \/ UNCHANGED vars
  BY <1>1, <1>11 DEF Remove, vars
<1>12. ASSUME NEW k \in Client,
              WsConnect(k) \/ WsSnapshot(k) \/ WsSubscribe(k) \/ WsRecv(k) \/ WsClose(k)
       PROVE  UNCHANGED <<buffer, log, relayPc, relayOn, relayMsg, produced>>
  BY <1>12 DEF WsConnect, WsSnapshot, WsSubscribe, WsRecv, WsClose
<1> QED
  BY <1>1, <1>2, <1>3, <1>5, <1>7, <1>9, <1>10, <1>11, <1>12 DEF Next

ClientOf(k) == <<wsPc[k], wsOn[k], pos[k], seen[k], snap[k], from[k]>>

(* A client is left alone by all steps but its own. *)
LEMMA OthersIdle ==
  ASSUME WsTypeOK, [Next]_vars, NEW k \in Client
  PROVE  \/ ClientOf(k)' = ClientOf(k)
         \/ WsConnect(k) \/ WsSnapshot(k) \/ WsSubscribe(k) \/ WsRecv(k) \/ WsClose(k)
<1>1. CASE UNCHANGED wsVars
  BY <1>1 DEF wsVars, ClientOf
<1>2. ASSUME NEW l \in Client, l # k,
             WsConnect(l) \/ WsSnapshot(l) \/ WsSubscribe(l) \/ WsRecv(l) \/ WsClose(l)
      PROVE  ClientOf(k)' = ClientOf(k)
  BY <1>2 DEF WsConnect, WsSnapshot, WsSubscribe, WsRecv, Deliver, SkipLagged, WsClose,
              ClientOf, WsTypeOK
<1>3. ASSUME NEW l \in Client, WsPing(l)
      PROVE  UNCHANGED wsVars
  BY <1>3 DEF WsPing
<1>4. Announce \/ RelayRead \/ RelayPush \/ RelaySend \/ RelayClosed \/ Remove
        \/ UNCHANGED vars => UNCHANGED wsVars
  BY DEF Announce, RelayRead, RelayPush, RelaySend, RelayClosed, Remove, vars
<1> QED BY <1>1, <1>2, <1>3, <1>4 DEF Next

(* A client that does nothing keeps its part of the invariant, whatever is sent. *)
LEMMA IdleClient ==
  ASSUME WsTypeOK, WsTypeOK', LinesInv, [Next]_vars, NEW k \in Client,
         SnapInv(k), SeenInv(k), NextInv(k), ClientOf(k)' = ClientOf(k)
  PROVE  SnapInv(k)' /\ SeenInv(k)' /\ NextInv(k)'
<1>0. /\ UNCHANGED <<wsPc[k], wsOn[k], pos[k], seen[k], snap[k], from[k]>>
      /\ produced \in Nat /\ seen[k] \in Seq(Nat) /\ snap[k] \in Nat /\ pos[k] \in Nat
      /\ wsPc[k] \in {"closed", "snapshot", "subscribe", "open"}
      /\ wsPc[k] # "closed" => wsOn[k] \in Channel
  BY ClientOn, OnChannel DEF ClientOf, WsTypeOK
<1>1. SnapInv(k)'
  <2>1. CASE wsPc[k] = "subscribe"
    <3>1. /\ buffer[wsOn[k]] \in Seq(Nat) /\ buffer'[wsOn[k]] \in Seq(Nat)
      BY <1>0, <2>1 DEF WsTypeOK
    <3>2. \A i \in 1 .. Len(buffer[wsOn[k]]) :
            i \in 1 .. Len(buffer'[wsOn[k]]) /\ buffer'[wsOn[k]][i] = buffer[wsOn[k]][i]
      BY <1>0, <2>1, <3>1, Grows
    <3>3. snap[k] <= Len(buffer[wsOn[k]])
      BY <2>1 DEF SnapInv
    <3>4. snap[k] <= Len(buffer'[wsOn[k]])
      BY <1>0, <3>1, <3>2, <3>3
    <3>5. ASSUME NEW i \in 1 .. snap[k]
          PROVE  seen[k][i] = buffer'[wsOn[k]][i]
      <4>1. i \in 1 .. Len(buffer[wsOn[k]])
        BY <1>0, <3>1, <3>3
      <4> QED BY <2>1, <3>2, <4>1 DEF SnapInv
    <3>6. Len(seen[k]) = snap[k]
      BY <2>1 DEF SnapInv
    <3> QED BY <1>0, <2>1, <3>4, <3>5, <3>6 DEF SnapInv
  <2>2. CASE wsPc[k] # "subscribe"
    BY <1>0, <2>2 DEF SnapInv
  <2> QED BY <2>1, <2>2
<1>2. SeenInv(k)'
  <2>1. produced' >= produced /\ produced' \in Nat
    BY <1>0, Grows
  <2>2. \A i \in DOMAIN seen[k] : seen[k][i] \in Nat
    BY <1>0
  <2> QED BY <1>0, <2>1, <2>2 DEF SeenInv, Ordered
<1>3. \A n : Beyond(k, n)' <=> Beyond(k, n)
  BY <1>0 DEF Beyond, Passed
<1>4. NextInv(k)'
  <2>1. ASSUME wsPc[k] = "open"
        PROVE  /\ pos[k] <= Len(log'[wsOn[k]])
               /\ \A i \in DOMAIN log'[wsOn[k]] :
                    i > pos[k] /\ log'[wsOn[k]][i].kind = "output" => Beyond(k, log'[wsOn[k]][i].n)
    <3>1. log[wsOn[k]] \in Seq(Message) /\ log'[wsOn[k]] \in Seq(Message)
      BY <1>0, <2>1 DEF WsTypeOK
    <3>2. \A i \in 1 .. Len(log[wsOn[k]]) :
            i \in 1 .. Len(log'[wsOn[k]]) /\ log'[wsOn[k]][i] = log[wsOn[k]][i]
      BY <1>0, <2>1, <3>1, Grows
    <3>3. pos[k] <= Len(log'[wsOn[k]])
      BY <1>0, <2>1, <3>1, <3>2 DEF NextInv
    <3>4. ASSUME NEW i \in DOMAIN log'[wsOn[k]], i > pos[k], log'[wsOn[k]][i].kind = "output"
          PROVE  Beyond(k, log'[wsOn[k]][i].n)
      <4>1. CASE i \in DOMAIN log[wsOn[k]]
        BY <2>1, <3>1, <3>2, <3>4, <4>1 DEF NextInv
      <4>2. CASE i \notin DOMAIN log[wsOn[k]]
        <5>1. relayPc = "send" /\ relayOn = wsOn[k] /\ relayMsg = log'[wsOn[k]][i]
          BY <1>0, <2>1, <3>4, <4>2, Grows
        <5> QED BY <2>1, <3>4, <5>1 DEF NextInv, RelayBusy
      <4> QED BY <4>1, <4>2
    <3> QED BY <3>3, <3>4
  <2>2. ASSUME wsPc[k] \in {"subscribe", "open"}, RelayBusy', relayOn' = wsOn[k],
               relayMsg'.kind = "output"
        PROVE  Beyond(k, relayMsg'.n)
    <3>1. CASE RelayBusy /\ UNCHANGED <<relayMsg, relayOn>>
      BY <2>2, <3>1 DEF NextInv
    <3>2. CASE relayMsg'.n = produced + 1
      <4>1. \A i \in DOMAIN seen[k] : seen[k][i] \in Nat /\ seen[k][i] <= produced
        BY <1>0 DEF SeenInv, Ordered
      <4> QED BY <1>0, <3>2, <4>1 DEF Beyond, Passed
    <3> QED BY <2>2, <3>1, <3>2, Grows
  <2> QED BY <1>0, <1>3, <2>1, <2>2 DEF NextInv
<1> QED BY <1>1, <1>2, <1>4

(* The next line a client is sent, when it comes in order. *)
LEMMA NextSeen ==
  ASSUME NEW s \in Seq(Nat), NEW h \in Nat, h <= Len(s), NEW top \in Nat,
         NEW n \in Nat, n <= top, Ordered(s, h, top), Passed(s, h, n)
  PROVE  /\ Ordered(Append(s, n), h, top)
         /\ \A m \in Nat : Passed(s, h, m) /\ n < m => Passed(Append(s, n), h, m)
<1> DEFINE t == Append(s, n)
<1>1. /\ Len(s) \in Nat /\ DOMAIN s = 1 .. Len(s) /\ DOMAIN t = 1 .. Len(s) + 1
      /\ \A i \in DOMAIN s : t[i] = s[i] /\ s[i] \in Nat
      /\ t[Len(s) + 1] = n
  OBVIOUS
<1> HIDE DEF t
<1>2. ASSUME NEW i \in DOMAIN t
      PROVE  t[i] <= top
  BY <1>1 DEF Ordered
<1>3. ASSUME NEW i \in DOMAIN t, NEW j \in DOMAIN t, i < j
      PROVE  t[i] < t[j] \/ (t[i] = t[j] /\ i <= h /\ j > h)
  <2>1. i \in DOMAIN s
    BY <1>1, <1>3
  <2>2. CASE j \in DOMAIN s
    BY <1>1, <1>3, <2>1, <2>2 DEF Ordered
  <2>3. CASE j = Len(s) + 1
    BY <1>1, <2>1, <2>3 DEF Passed
  <2> QED BY <1>1, <2>2, <2>3
<1>4. Ordered(t, h, top)
  BY <1>2, <1>3 DEF Ordered
<1>5. ASSUME NEW m \in Nat, Passed(s, h, m), n < m
      PROVE  Passed(t, h, m)
  BY <1>1, <1>5 DEF Passed
<1> QED BY <1>4, <1>5 DEF t

(* What a client does itself, while no message is sent. *)
LEMMA BusyClient ==
  ASSUME WsTypeOK, WsTypeOK', LinesInv, NEW k \in Client, SnapInv(k), SeenInv(k), NextInv(k),
         WsConnect(k) \/ WsSnapshot(k) \/ WsSubscribe(k) \/ WsRecv(k) \/ WsClose(k)
  PROVE  SnapInv(k)' /\ SeenInv(k)' /\ NextInv(k)'
<1> USE DEF relayVars, Beyond
<1> DEFINE c == wsOn[k]
           l == log[c]
<1>0. /\ produced \in Nat /\ seen[k] \in Seq(Nat) /\ snap[k] \in Nat /\ pos[k] \in Nat
      /\ wsPc[k] # "closed" => c \in Channel /\ buffer[c] \in Seq(Nat) /\ l \in Seq(Message)
  BY ClientOn, OnChannel DEF WsTypeOK
<1>1. CASE WsConnect(k)
  <2>1. wsPc'[k] = "snapshot" /\ UNCHANGED <<seen, snap, produced>> /\ wsPc[k] = "closed"
    BY <1>1 DEF WsConnect, WsTypeOK
  <2> QED BY <1>0, <2>1 DEF SnapInv, SeenInv, NextInv
<1>2. CASE WsSnapshot(k)
  <2>1. /\ wsPc[k] = "snapshot" /\ wsPc'[k] = "subscribe"
        /\ seen'[k] = buffer[c] /\ snap'[k] = Len(buffer[c])
        /\ UNCHANGED <<buffer, log, wsOn, produced, relayPc, relayOn, relayMsg>>
    BY <1>2 DEF WsSnapshot, WsTypeOK
  <2> DEFINE b == buffer[c]
  <2>2. /\ \A i \in DOMAIN b : b[i] \in Nat /\ b[i] <= produced
        /\ \A i, j \in DOMAIN b : i < j => b[i] < b[j]
        /\ DOMAIN b = 1 .. Len(b) /\ Len(b) \in Nat
    BY <1>0, <2>1 DEF LinesInv, BuffersInv
  <2>3. SnapInv(k)'
    BY <2>1, <2>2 DEF SnapInv
  <2>4. SeenInv(k)'
    BY <2>1, <2>2 DEF SeenInv, Ordered
  <2>5. ASSUME RelayBusy, relayMsg.kind = "output"
        PROVE  Passed(b, Len(b), relayMsg.n)
    <3>1. relayMsg.n = produced
      BY <2>5 DEF LinesInv, HeldInv
    <3> QED BY <2>2, <3>1, <1>0 DEF Passed
  <2>6. NextInv(k)'
    BY <2>1, <2>5 DEF NextInv, RelayBusy
  <2> QED BY <2>3, <2>4, <2>6
<1>3. CASE WsSubscribe(k)
  <2>1. /\ wsPc[k] = "subscribe" /\ wsPc'[k] = "open" /\ pos'[k] = Len(l)
        /\ UNCHANGED <<seen, snap, buffer, log, wsOn, produced, relayPc, relayOn, relayMsg>>
    BY <1>3 DEF WsSubscribe, LastSent, WsTypeOK
  <2>2. SnapInv(k)' /\ SeenInv(k)'
    BY <2>1 DEF SnapInv, SeenInv
  <2>3. l \in Seq(Message)
    BY <1>0, <2>1
  <2>4. NextInv(k)'
    BY <2>1, <2>3 DEF NextInv, RelayBusy
  <2> QED BY <2>2, <2>4
<1>4. CASE WsRecv(k)
  <2>1. /\ wsPc[k] = "open"
        /\ UNCHANGED <<wsPc, snap, buffer, log, wsOn, produced, relayPc, relayOn, relayMsg>>
    BY <1>4 DEF WsRecv
  <2>4. l \in Seq(Message) /\ c \in Channel /\ Len(l) \in Nat /\ DOMAIN l = 1 .. Len(l)
    BY <1>0, <2>1
  <2>5. ASSUME NEW i \in DOMAIN l
        PROVE  l[i].n \in Nat
    <3>1. l[i] \in Message
      BY <2>4, ElementOfSeq
    <3> QED BY <3>1 DEF Message
  <2>6. /\ pos[k] <= Len(l)
        /\ \A i \in DOMAIN l : i > pos[k] /\ l[i].kind = "output" =>
              Passed(seen[k], snap[k], l[i].n)
        /\ RelayBusy /\ relayOn = c /\ relayMsg.kind = "output" =>
              Passed(seen[k], snap[k], relayMsg.n)
    BY <2>1 DEF NextInv
  <2>7. ASSUME UNCHANGED seen, NEW q \in Nat, q >= pos[k], q <= Len(l), pos'[k] = q
        PROVE  SnapInv(k)' /\ SeenInv(k)' /\ NextInv(k)'
    <3>1. SnapInv(k)' /\ SeenInv(k)'
      BY <2>1, <2>7 DEF SnapInv, SeenInv
    <3>2. \A i \in DOMAIN l : i > q => i > pos[k]
      BY <1>0, <2>4, <2>7
    <3>3. NextInv(k)'
      BY <2>1, <2>6, <2>7, <3>2 DEF NextInv, RelayBusy
    <3> QED BY <3>1, <3>3
  <2>2. CASE SkipLagged(k)
    <3>1. UNCHANGED seen /\ pos'[k] = Len(l) - Capacity /\ Len(l) - pos[k] > Capacity
      BY <2>2 DEF SkipLagged, Lagging, WsTypeOK
    <3>2. /\ Len(l) - Capacity \in Nat /\ Len(l) - Capacity >= pos[k]
          /\ Len(l) - Capacity <= Len(l)
      <4> HIDE DEF l
      <4> QED BY <1>0, <2>4, <3>1, Constants
    <3> HIDE DEF l
    <3> QED BY <2>7, <3>1, <3>2
  <2>3. CASE Deliver(k)
    <3> DEFINE m == l[pos[k] + 1]
    <3>1. /\ pos[k] < Len(l) /\ pos'[k] = pos[k] + 1
          /\ seen' = [seen EXCEPT ![k] = IF m.kind = "output" THEN Append(@, m.n) ELSE @]
      BY <2>3 DEF Deliver, WsTypeOK
    <3>2. pos[k] + 1 \in DOMAIN l /\ pos[k] + 1 \in Nat /\ pos[k] + 1 <= Len(l)
          /\ pos[k] + 1 > pos[k] /\ pos[k] + 1 >= pos[k]
      <4> HIDE DEF l
      <4> QED BY <1>0, <2>4, <3>1
    <3>3. CASE m.kind # "output"
      <4>1. UNCHANGED seen
        BY <3>1, <3>3 DEF WsTypeOK
      <4> QED BY <2>7, <3>1, <3>2, <4>1
    <3>4. CASE m.kind = "output"
      <4> DEFINE t == Append(seen[k], m.n)
      <4>0. seen'[k] = t
        BY <3>1, <3>4 DEF WsTypeOK
      <4>1. m.n \in Nat /\ m.n <= produced
        BY <2>4, <2>5, <3>2, <3>4 DEF LinesInv, LogsInv
      <4>2. Passed(seen[k], snap[k], m.n) /\ snap[k] <= Len(seen[k])
        BY <2>6, <3>2, <3>4 DEF SnapInv
      <4>3. /\ Ordered(t, snap[k], produced)
            /\ \A n \in Nat : Passed(seen[k], snap[k], n) /\ m.n < n => Passed(t, snap[k], n)
        <5> HIDE DEF m
        <5> QED BY <1>0, <4>1, <4>2, NextSeen DEF SeenInv
      <4>4. Len(t) = Len(seen[k]) + 1 /\ Len(seen[k]) \in Nat
        BY <1>0, <4>1
      <4> HIDE DEF t
      <4>5. SnapInv(k)'
        BY <1>0, <2>1, <4>0, <4>2, <4>4 DEF SnapInv
      <4>6. SeenInv(k)'
        BY <2>1, <4>0, <4>3 DEF SeenInv
      <4>8. ASSUME NEW i \in DOMAIN l, i > pos[k] + 1, l[i].kind = "output"
            PROVE  Passed(t, snap[k], l[i].n)
        <5>1. i > pos[k]
          BY <1>0, <2>4, <4>8
        <5>2. m.n < l[i].n
          BY <2>4, <3>2, <3>4, <4>8 DEF LinesInv, LogsInv
        <5> QED BY <2>5, <2>6, <4>3, <4>8, <5>1, <5>2
      <4>9. ASSUME RelayBusy, relayOn = c, relayMsg.kind = "output"
            PROVE  Passed(t, snap[k], relayMsg.n)
        <5>1. m.n < relayMsg.n
          BY <2>4, <3>2, <3>4, <4>9 DEF LinesInv, HeldInv, LogsInv
        <5>2. relayMsg.n \in Nat
          BY DEF WsTypeOK, Message
        <5> QED BY <2>6, <4>3, <4>9, <5>1, <5>2
      <4>10. NextInv(k)'
        BY <2>1, <3>1, <3>2, <4>0, <4>8, <4>9 DEF NextInv, RelayBusy
      <4> QED BY <4>5, <4>6, <4>10
    <3> QED BY <3>3, <3>4
  <2> QED BY <1>4, <2>2, <2>3 DEF WsRecv
<1>5. CASE WsClose(k)
  <2>1. wsPc'[k] = "closed" /\ seen'[k] = <<>> /\ snap'[k] = 0
    BY <1>5 DEF WsClose, WsTypeOK
  <2> QED BY <2>1 DEF SnapInv, SeenInv, Ordered, NextInv
<1> QED BY <1>1, <1>2, <1>3, <1>4, <1>5

(* What each client has copied and seen, and what it is to see next. *)
LEMMA ClientStep ==
  ASSUME WsTypeOK, WsTypeOK', LinesInv, ClientInv, [Next]_vars
  PROVE  ClientInv'
<1> SUFFICES ASSUME NEW k \in Client
             PROVE  SnapInv(k)' /\ SeenInv(k)' /\ NextInv(k)'
  BY DEF ClientInv
<1>0. SnapInv(k) /\ SeenInv(k) /\ NextInv(k)
  BY DEF ClientInv
<1>1. CASE WsConnect(k) \/ WsSnapshot(k) \/ WsSubscribe(k) \/ WsRecv(k) \/ WsClose(k)
  BY <1>0, <1>1, BusyClient
<1>2. CASE ClientOf(k)' = ClientOf(k)
  BY <1>0, <1>2, IdleClient
<1> QED BY <1>1, <1>2, OthersIdle

(* Of the first p messages of channel l, a client that was sent the lines s, the first *)
(* h of them its snapshot, and subscribed at f, misses what MissedOnlyInGapOrLag says. *)
Explained(s, h, f, l, p) ==
  \A i \in 1 .. p : l[i].kind = "output" =>
    \/ \E j \in DOMAIN s : s[j] = l[i].n
    \/ i <= f /\ \A j \in 1 .. h : s[j] < l[i].n
    \/ i <= Len(l) - Capacity

(* The property, said with values. *)
LEMMA MissedIs ==
  MissedOnlyInGapOrLag <=>
    \A k \in Client :
      wsPc[k] = "open" => Explained(seen[k], snap[k], from[k], log[wsOn[k]], pos[k])
BY DEF MissedOnlyInGapOrLag, Explained

(* A line that is explained stays so when the channel grows, ... *)
LEMMA LongerChannel ==
  ASSUME NEW l \in Seq(Message), NEW m \in Seq(Message), NEW p \in Nat, p <= Len(l),
         \A i \in 1 .. Len(l) : i \in 1 .. Len(m) /\ m[i] = l[i],
         NEW s, NEW h, NEW f, Explained(s, h, f, l, p)
  PROVE  Explained(s, h, f, m, p)
<1>1. Len(l) \in Nat /\ Len(m) \in Nat /\ Len(l) <= Len(m)
  OBVIOUS
<1>2. SUFFICES ASSUME NEW i \in 1 .. p, m[i].kind = "output"
               PROVE  \/ \E j \in DOMAIN s : s[j] = m[i].n
                      \/ i <= f /\ \A j \in 1 .. h : s[j] < m[i].n
                      \/ i <= Len(m) - Capacity
  BY DEF Explained
<1>3. i \in 1 .. Len(l) /\ m[i] = l[i] /\ i \in Nat
  BY <1>1
<1>4. i <= Len(l) - Capacity => i <= Len(m) - Capacity
  BY <1>1, <1>3, Constants
<1> QED BY <1>2, <1>3, <1>4 DEF Explained

(* ... and when the client is sent the next one. *)
LEMMA LongerSeen ==
  ASSUME NEW l \in Seq(Message), NEW p \in Nat, NEW s \in Seq(Nat), NEW h \in Nat, h <= Len(s),
         NEW f, Explained(s, h, f, l, p), NEW n \in Nat,
         l[p + 1].kind = "output" => l[p + 1].n = n
  PROVE  Explained(Append(s, n), h, f, l, p + 1)
<1> DEFINE t == Append(s, n)
<1>1. /\ Len(s) \in Nat /\ DOMAIN s = 1 .. Len(s) /\ DOMAIN t = 1 .. Len(s) + 1
      /\ \A i \in DOMAIN s : t[i] = s[i]
      /\ t[Len(s) + 1] = n
  OBVIOUS
<1> HIDE DEF t
<1>2. SUFFICES ASSUME NEW i \in 1 .. p + 1, l[i].kind = "output"
               PROVE  \/ \E j \in DOMAIN t : t[j] = l[i].n
                      \/ i <= f /\ \A j \in 1 .. h : t[j] < l[i].n
                      \/ i <= Len(l) - Capacity
  BY DEF Explained, t
<1>3. CASE i = p + 1
  <2>1. t[Len(s) + 1] = l[i].n /\ Len(s) + 1 \in DOMAIN t
    BY <1>1, <1>2, <1>3
  <2> QED BY <2>1
<1>4. CASE i # p + 1
  <2>1. i \in 1 .. p
    BY <1>4
  <2>2. CASE \E j \in DOMAIN s : s[j] = l[i].n
    BY <1>1, <2>2
  <2>3. CASE i <= f /\ \A j \in 1 .. h : s[j] < l[i].n
    <3>1. \A j \in 1 .. h : j \in DOMAIN s
      BY <1>1
    <3> QED BY <1>1, <2>3, <3>1
  <2> QED BY <1>2, <2>1, <2>2, <2>3 DEF Explained
<1> QED BY <1>3, <1>4

(* What a client misses. *)
LEMMA MissedStep ==
  ASSUME WsTypeOK, WsTypeOK', LinesInv, ClientInv, MissedOnlyInGapOrLag, [Next]_vars
  PROVE  MissedOnlyInGapOrLag'
<1> SUFFICES ASSUME NEW k \in Client, wsPc'[k] = "open"
             PROVE  Explained(seen[k], snap[k], from[k], log[wsOn[k]], pos[k])'
  BY DEF MissedOnlyInGapOrLag, Explained
<1> DEFINE c == wsOn[k]
           l == log[c]
<1>0. SnapInv(k) /\ SeenInv(k) /\ NextInv(k)
  BY DEF ClientInv
<1>1. /\ seen[k] \in Seq(Nat) /\ snap[k] \in Nat /\ pos[k] \in Nat
      /\ wsPc[k] # "closed" =>
           c \in Channel /\ buffer[c] \in Seq(Nat) /\ l \in Seq(Message) /\ Len(l) \in Nat
  BY ClientOn, OnChannel DEF WsTypeOK
<1>2. wsPc[k] = "open" => Explained(seen[k], snap[k], from[k], l, pos[k])
  BY MissedIs
<1>3. CASE ClientOf(k)' = ClientOf(k)
  <2>1. UNCHANGED <<wsPc[k], wsOn[k], pos[k], seen[k], snap[k], from[k]>> /\ wsPc[k] = "open"
    BY <1>3 DEF ClientOf
  <2>2. l \in Seq(Message) /\ log'[c] \in Seq(Message) /\ pos[k] <= Len(l) /\ c \in Channel
    BY <1>0, <1>1, <2>1 DEF WsTypeOK, NextInv
  <2>3. \A i \in 1 .. Len(l) : i \in 1 .. Len(log'[c]) /\ log'[c][i] = l[i]
    BY <2>2, Grows
  <2>4. Explained(seen[k], snap[k], from[k], log'[c], pos[k])
    <3> HIDE DEF l
    <3> QED BY <1>1, <1>2, <2>1, <2>2, <2>3, LongerChannel
  <2> QED BY <2>1, <2>4
<1>4. CASE WsSubscribe(k)
  <2>1. /\ wsPc[k] = "subscribe" /\ pos'[k] = Len(l) /\ from'[k] = Len(l)
        /\ UNCHANGED <<seen, snap, log, wsOn>>
    BY <1>4 DEF WsSubscribe, LastSent, WsTypeOK
  <2>2. /\ c \in Channel /\ buffer[c] \in Seq(Nat) /\ l \in Seq(Message)
        /\ DOMAIN l = 1 .. Len(l)
        /\ Len(seen[k]) = snap[k] /\ snap[k] <= Len(buffer[c])
        /\ DOMAIN seen[k] = 1 .. snap[k] /\ DOMAIN buffer[c] = 1 .. Len(buffer[c])
        /\ \A i \in 1 .. snap[k] : seen[k][i] = buffer[c][i]
    BY <1>0, <1>1, <2>1 DEF SnapInv
  <2>3. ASSUME NEW i \in 1 .. Len(l), l[i].kind = "output"
        PROVE  \/ \E j \in DOMAIN seen[k] : seen[k][j] = l[i].n
               \/ i <= Len(l) /\ \A j \in 1 .. snap[k] : seen[k][j] < l[i].n
    <3>1. PICK q \in DOMAIN buffer[c] : buffer[c][q] = l[i].n
      BY <2>2, <2>3 DEF LinesInv, LogsInv
    <3>2. CASE q <= snap[k]
      <4>1. q \in 1 .. snap[k]
        BY <1>1, <2>2, <3>2
      <4> QED BY <2>2, <3>1, <4>1
    <3>3. CASE ~(q <= snap[k])
      <4>1. ASSUME NEW j \in 1 .. snap[k]
            PROVE  seen[k][j] < l[i].n
        <5>1. j < q /\ j \in DOMAIN buffer[c]
          BY <1>1, <2>2, <3>3
        <5> QED BY <2>2, <3>1, <5>1 DEF LinesInv, BuffersInv
      <4>2. i <= Len(l)
        BY <1>1, <2>1
      <4> QED BY <4>1, <4>2
    <3> QED BY <3>2, <3>3
  <2> QED BY <2>1, <2>3 DEF Explained
<1>5. CASE WsRecv(k)
  <2>1. wsPc[k] = "open" /\ UNCHANGED <<snap, from, log, wsOn>>
    BY <1>5 DEF WsRecv
  <2>2. CASE SkipLagged(k)
    <3>1. pos'[k] = Len(l) - Capacity
      BY <2>2 DEF SkipLagged, WsTypeOK
    <3>2. \A i \in 1 .. pos'[k] : i <= Len(l) - Capacity
      BY <1>1, <2>1, <3>1, Constants
    <3> QED BY <2>1, <3>2 DEF Explained
  <2>3. CASE Deliver(k)
    <3> DEFINE m == l[pos[k] + 1]
    <3>1. /\ pos[k] < Len(l) /\ pos'[k] = pos[k] + 1
          /\ seen' = [seen EXCEPT ![k] = IF m.kind = "output" THEN Append(@, m.n) ELSE @]
      BY <2>3 DEF Deliver, WsTypeOK
    <3>2. m \in Message /\ snap[k] <= Len(seen[k]) /\ m.n \in Nat
      <4>1. pos[k] + 1 \in 1 .. Len(l)
        <5> HIDE DEF l
        <5> QED BY <1>1, <2>1, <3>1
      <4>2. m \in Message
        BY <1>1, <2>1, <4>1, ElementOfSeq
      <4> QED BY <1>0, <4>2 DEF SnapInv, Message
    <3>3. CASE m.kind = "output"
      <4>1. seen'[k] = Append(seen[k], m.n)
        BY <3>1, <3>3 DEF WsTypeOK
      <4>2. Explained(Append(seen[k], m.n), snap[k], from[k], l, pos[k] + 1)
        BY <1>1, <1>2, <2>1, <3>2, LongerSeen
      <4> QED BY <2>1, <3>1, <4>1, <4>2
    <3>4. CASE m.kind # "output"
      <4>1. seen'[k] = seen[k]
        BY <3>1, <3>4 DEF WsTypeOK
      <4>2. \A i \in 1 .. pos[k] + 1 : i \in 1 .. pos[k] \/ i = pos[k] + 1
        BY <1>1
      <4>3. Explained(seen[k], snap[k], from[k], l, pos[k] + 1)
        BY <1>2, <2>1, <3>4, <4>2 DEF Explained
      <4> QED BY <2>1, <3>1, <4>1, <4>3
    <3> QED BY <3>3, <3>4
  <2> QED BY <1>5, <2>2, <2>3 DEF WsRecv
<1>6. CASE WsConnect(k) \/ WsSnapshot(k) \/ WsClose(k)
  <2>1. wsPc'[k] # "open"
    BY <1>6 DEF WsConnect, WsSnapshot, WsClose, WsTypeOK
  <2> QED BY <2>1
<1> QED BY <1>3, <1>4, <1>5, <1>6, OthersIdle

(* The invariant holds when the task is made, and every step keeps it. *)
LEMMA WsInit == Init => WsInv
<1> SUFFICES ASSUME Init PROVE WsInv
  OBVIOUS
<1>1. WsTypeOK
  BY TypeInit
<1>2. RegistryInv
  BY Constants DEF Init, RegistryInv, Channel
<1>3. LinesInv
  BY DEF Init, LinesInv, HeldInv, BuffersInv, LogsInv, RelayBusy
<1>4. ClientInv
  <2> SUFFICES ASSUME NEW k \in Client
               PROVE  SnapInv(k) /\ SeenInv(k) /\ NextInv(k)
    BY DEF ClientInv
  <2>1. wsPc[k] = "closed" /\ seen[k] = <<>> /\ snap[k] = 0
    BY DEF Init
  <2> QED BY <2>1 DEF SnapInv, SeenInv, Ordered, NextInv
<1>5. MissedOnlyInGapOrLag
  BY DEF Init, MissedOnlyInGapOrLag
<1> QED BY <1>1, <1>2, <1>3, <1>4, <1>5 DEF WsInv

(* All parts of the invariant together. *)
LEMMA WsStep == WsInv /\ [Next]_vars => WsInv'
BY TypeStep, RegistryStep, LinesStep, ClientStep, MissedStep DEF WsInv

(* The invariant of the channels, for every value of the constants. *)
LEMMA WsCorrect == Spec => []WsInv
BY WsInit, WsStep, PTL DEF Spec

(* Whatever is sent while clients come, go and lag, each gets the lines in the order   *)
(* the agent wrote them: only the last line of its snapshot may come again, at once.   *)
THEOREM InOrder == Spec => []SeenInOrder
<1>1. WsInv => SeenInOrder
  <2> SUFFICES ASSUME WsInv, NEW k \in Client, NEW i \in DOMAIN seen[k], NEW j \in DOMAIN seen[k],
                      i < j, ~(seen[k][i] < seen[k][j])
               PROVE  seen[k][i] = seen[k][j] /\ i = snap[k] /\ j = i + 1
    BY DEF SeenInOrder
  <2>1. /\ seen[k] \in Seq(Nat) /\ snap[k] \in Nat /\ snap[k] <= Len(seen[k])
        /\ Len(seen[k]) \in Nat /\ DOMAIN seen[k] = 1 .. Len(seen[k])
        /\ Ordered(seen[k], snap[k], produced)
    BY DEF WsInv, WsTypeOK, ClientInv, SnapInv, SeenInv
  <2>2. seen[k][i] = seen[k][j] /\ i <= snap[k] /\ j > snap[k]
    BY <2>1 DEF Ordered
  <2>3. \A a \in DOMAIN seen[k] : seen[k][a] \in Nat
    BY <2>1
  (* A line between the two would be both above the first and below the second. *)
  <2>4. ASSUME NEW a \in DOMAIN seen[k], i < a, a < j
        PROVE  FALSE
    <3>1. \/ seen[k][i] < seen[k][a]
          \/ a > snap[k]
      BY <2>1, <2>4 DEF Ordered
    <3>2. \/ seen[k][a] < seen[k][j]
          \/ a <= snap[k]
      BY <2>1, <2>4 DEF Ordered
    <3>3. seen[k][i] <= seen[k][a] /\ seen[k][a] <= seen[k][j]
      BY <2>1, <2>3, <2>4, SMTT(30) DEF Ordered
    <3> QED BY <2>1, <2>2, <2>3, <3>1, <3>2, <3>3
  <2>5. i = snap[k]
    <3>1. CASE i < snap[k]
      <4>1. i + 1 \in DOMAIN seen[k] /\ i < i + 1 /\ i + 1 < j
        BY <2>1, <2>2, <3>1
      <4> QED BY <2>4, <4>1
    <3> QED BY <2>1, <2>2, <3>1
  <2>6. j = i + 1
    <3>1. CASE j > i + 1
      <4>1. i + 1 \in DOMAIN seen[k] /\ i < i + 1
        BY <2>1, <3>1
      <4> QED BY <2>4, <3>1, <4>1
    <3> QED BY <2>1, <3>1
  <2> QED BY <2>2, <2>5, <2>6
<1> QED BY <1>1, WsCorrect, PTL

(* A line that was broadcast and a client does not have was sent between its snapshot  *)
(* and its subscription, or dropped by the channel before the client read it.          *)
THEOREM MissedExplained == Spec => []MissedOnlyInGapOrLag
<1>1. WsInv => MissedOnlyInGapOrLag
  BY DEF WsInv
<1> QED BY <1>1, WsCorrect, PTL

(* After a stop took a channel from the registry, at most one more line comes into its *)
(* buffer: the one the reader had already looked it up for.                            *)
THEOREM RemovedQuiet == Spec => []RemovedChannelQuiet
<1>1. WsInv => RemovedChannelQuiet
  <2> SUFFICES ASSUME WsInv, NEW c \in Channel, cut[c] # -1
               PROVE  Len(buffer[c]) <= cut[c] + 1
    BY DEF RemovedChannelQuiet
  <2>1. cut[c] \in Nat /\ Len(buffer[c]) \in Nat
    BY DEF WsInv, WsTypeOK
  <2>2. Len(buffer[c]) <= cut[c] \/ Len(buffer[c]) <= cut[c] + 1
    BY DEF WsInv, RegistryInv
  <2> QED BY <2>1, <2>2
<1> QED BY <1>1, WsCorrect, PTL

(* Two channels of one task never serve clients side by side: all but those who came   *)
(* before a stop listen to the registered one.                                         *)
THEOREM OneChannel == Spec => []NobodyStranded
<1>1. WsInv => NobodyStranded
  <2> SUFFICES ASSUME WsInv, NEW k \in Client, wsOn[k] # 0
               PROVE  wsOn[k] = registered \/ cut[wsOn[k]] # -1
    BY DEF NobodyStranded
  <2>1. wsOn[k] \in Channel /\ wsOn[k] <= made
    BY Constants, SMTT(30) DEF WsInv, WsTypeOK, Channel
  <2> QED BY <2>1 DEF WsInv, RegistryInv
<1> QED BY <1>1, WsCorrect, PTL
=============================================================================
