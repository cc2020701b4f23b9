-------------------------- MODULE DiscordBotProofs --------------------------
(***************************************************************************)
(* Proofs about DiscordBot, for any number of commands, tasks and faults:  *)
(* what users read is what has happened, and no command ends in silence.   *)
(***************************************************************************)
EXTENDS DiscordBot, TLAPS

(* The types that the steps below rely on; a command can be anything there is. *)
BotTypeOK ==
  /\ pc \in [Interaction -> {"none", "received", "fetch", "call", "reply", "last", "caught",
                             "ended"}]
  /\ text \in [Interaction -> {"nothing", "done", "no agents", "failed", "invalid", "too large"}]
  /\ shown \in [Interaction -> {"nothing", "done", "no agents", "failed", "invalid", "too large"}]
  /\ cmd \in [Interaction -> Command]
  /\ failed \in [Interaction -> Nat]

(* What is said of command i, or about to be, is true of it. *)
Holds(said, i) ==
  /\ said \in {"done", "no agents"} => i \in did
  /\ said = "failed" /\ i \in did => i \in unsure
  /\ said \in {"invalid", "too large"} => i \notin did

(* Until the API is asked nothing has been done, and nothing is to be said. *)
Silent(i) == i \notin did /\ text[i] = "nothing" /\ shown[i] = "nothing"

SayOf(i) ==
  /\ Holds(text[i], i) /\ Holds(shown[i], i)
  /\ pc[i] \in {"none", "received", "fetch", "call"} => Silent(i)
  /\ pc[i] \in {"reply", "last"} => text[i] # "nothing"
SayInv == \A i \in Interaction : SayOf(i)

(* What the bot knows of its acknowledgements; an error on its way is a call that failed. *)
EndInv ==
  /\ deferred \subseteq acked
  /\ \A i \in Interaction : pc[i] = "caught" => failed[i] >= 1

BotInv == BotTypeOK /\ SayInv /\ EndInv /\ NoSilentEnd

(* The invariant holds before the first command. *)
LEMMA BotInit == Init => BotInv
<1> SUFFICES ASSUME Init PROVE BotInv
  OBVIOUS
<1>1. [name |-> "unregistered"] \in Command
  BY DEF Command
<1>2. BotTypeOK
  BY <1>1 DEF Init, BotTypeOK
<1>3. SayInv /\ EndInv /\ NoSilentEnd
  BY DEF Init, SayInv, SayOf, Holds, Silent, EndInv, NoSilentEnd
<1> QED
  BY <1>2, <1>3 DEF BotInv

(* A step of command i changes nothing of what there is of another. *)
Kept(j) ==
  /\ pc'[j] = pc[j] /\ text'[j] = text[j] /\ shown'[j] = shown[j] /\ cmd'[j] = cmd[j]
  /\ failed'[j] = failed[j]
  /\ j \in did' <=> j \in did
  /\ j \in unsure' <=> j \in unsure
  /\ j \in acked' <=> j \in acked
  /\ j \in deferred' <=> j \in deferred
  /\ j \in noted' <=> j \in noted

CommandStep(i) == Receive(i) \/ Bot(i) \/ Api(i) \/ Expires(i)

(* A step of one command changes nothing of another. *)
LEMMA OthersKept ==
  ASSUME BotTypeOK, NEW i \in Interaction, CommandStep(i), NEW j \in Interaction, j # i
  PROVE  Kept(j)
<1> USE DEF BotTypeOK, Kept, Goto, Say, seenVars, serverVars
<1>1. CASE Receive(i)
  BY <1>1 DEF Receive
<1>2. CASE Defer(i)
  BY <1>2 DEF Defer, Succeeds, Fails
<1>3. CASE Fetch(i)
  BY <1>3 DEF Fetch
<1>4. CASE Reply(i)
  BY <1>4 DEF Reply, Succeeds, Fails, Shows
<1>5. CASE LastReply(i)
  BY <1>5 DEF LastReply, Succeeds, Fails, Shows
<1>6. CASE CatchAll(i)
  <2>1. noted' = noted \cup {i} \/ noted' = noted
    BY <1>6 DEF CatchAll
  <2>2. failed' = failed \/ failed' = [failed EXCEPT ![i] = @ + 1]
    BY <1>6 DEF CatchAll, Succeeds, Fails
  <2>3. /\ UNCHANGED <<cmd, text, deferred, shown, did, unsure>>
        /\ pc' = [pc EXCEPT ![i] = "ended"]
        /\ acked' = acked \cup {i} \/ acked' = acked
    BY <1>6 DEF CatchAll
  <2> QED BY <2>1, <2>2, <2>3
<1>7. CASE ApiAnswers(i)
  BY <1>7 DEF ApiAnswers
<1>8. CASE ApiRefuses(i)
  BY <1>8 DEF ApiRefuses
<1>9. CASE Expires(i)
  BY <1>9 DEF Expires
<1> QED
  BY <1>1, <1>2, <1>3, <1>4, <1>5, <1>6, <1>7, <1>8, <1>9 DEF CommandStep, Bot, Api

(* What command i itself says and owes stays true. *)
LEMMA OwnSay ==
  ASSUME BotTypeOK, SayInv, NEW i \in Interaction, CommandStep(i)
  PROVE  SayOf(i)'
<1> USE DEF BotTypeOK, SayOf, Holds, Silent, Goto, Say, seenVars, serverVars
<1>0. SayOf(i)
  BY DEF SayInv
<1>1. CASE Receive(i)
  BY <1>0, <1>1 DEF Receive
<1>2. CASE Defer(i)
  BY <1>0, <1>2 DEF Defer
<1>3. CASE Fetch(i)
  BY <1>0, <1>3 DEF Fetch
<1>4. CASE Reply(i)
  BY <1>0, <1>4 DEF Reply, Shows
<1>5. CASE LastReply(i)
  BY <1>0, <1>5 DEF LastReply, Shows, AfterLast
<1>6. CASE CatchAll(i)
  BY <1>0, <1>6 DEF CatchAll
<1>7. CASE ApiAnswers(i)
  BY <1>0, <1>7 DEF ApiAnswers, SaysDone
<1>8. CASE ApiRefuses(i)
  BY <1>0, <1>8 DEF ApiRefuses
<1>9. CASE Expires(i)
  BY <1>0, <1>9 DEF Expires
<1> QED
  BY <1>1, <1>2, <1>3, <1>4, <1>5, <1>6, <1>7, <1>8, <1>9 DEF CommandStep, Bot, Api

(* A step of command i counts at most one failed call more. *)
LEMMA FailedStep ==
  ASSUME BotTypeOK, NEW i \in Interaction, CommandStep(i)
  PROVE  /\ failed' \in [Interaction -> Nat]
         /\ \A j \in Interaction : failed'[j] >= failed[j]
<1>1. failed' = failed \/ failed' = [failed EXCEPT ![i] = failed[i] + 1]
  BY DEF CommandStep, Bot, Api, Receive, Defer, Fetch, Reply, LastReply, CatchAll, ApiAnswers,
         ApiRefuses, Expires, Succeeds, Fails
<1>2. failed \in [Interaction -> Nat] /\ failed[i] \in Nat
  BY DEF BotTypeOK
<1>3. CASE failed' = [failed EXCEPT ![i] = failed[i] + 1]
  <2>1. \A j \in Interaction : failed'[j] = IF j = i THEN failed[i] + 1 ELSE failed[j]
    BY <1>2, <1>3
  <2> QED BY <1>2, <1>3, <2>1
<1> QED BY <1>1, <1>2, <1>3

(* A call to Discord that fails is counted. *)
LEMMA FailsCounts ==
  ASSUME BotTypeOK, NEW i \in Interaction, NEW seen, Fails(i, seen)
  PROVE  failed[i] \in Nat /\ failed'[i] = failed[i] + 1
<1>1. failed \in [Interaction -> Nat] /\ failed' = [failed EXCEPT ![i] = failed[i] + 1]
  BY DEF BotTypeOK, Fails
<1> QED BY <1>1

(* The types. *)
LEMMA TypeStep ==
  ASSUME BotTypeOK, NEW i \in Interaction, CommandStep(i)
  PROVE  BotTypeOK'
<1>0. failed' \in [Interaction -> Nat]
  BY FailedStep
<1> USE DEF BotTypeOK, Goto, Say, seenVars, serverVars
<1>1. CASE Receive(i)
  <2>1. PICK c \in Command :
          /\ cmd' = [cmd EXCEPT ![i] = c]
          /\ pc' = [pc EXCEPT ![i] = IF c.name = "unregistered" THEN "ended" ELSE "received"]
    BY <1>1 DEF Receive
  <2>2. UNCHANGED <<text, shown>>
    BY <1>1 DEF Receive
  <2> QED BY <1>0, <2>1, <2>2
<1>2. CASE Defer(i)
  BY <1>0, <1>2 DEF Defer
<1>3. CASE Fetch(i)
  BY <1>0, <1>3 DEF Fetch
<1>4. CASE Reply(i)
  BY <1>0, <1>4 DEF Reply, Shows
<1>5. CASE LastReply(i)
  BY <1>0, <1>5 DEF LastReply, Shows, AfterLast
<1>6. CASE CatchAll(i)
  BY <1>0, <1>6 DEF CatchAll
<1>7. CASE ApiAnswers(i)
  BY <1>0, <1>7 DEF ApiAnswers, SaysDone
<1>8. CASE ApiRefuses(i)
  BY <1>0, <1>8 DEF ApiRefuses
<1>9. CASE Expires(i)
  BY <1>0, <1>9 DEF Expires
<1> QED
  BY <1>1, <1>2, <1>3, <1>4, <1>5, <1>6, <1>7, <1>8, <1>9 DEF CommandStep, Bot, Api

(* What command i leaves behind when it ends, and what it leaves of the bot. *)
LEMMA OwnEnd ==
  ASSUME BotInv, NEW i \in Interaction, CommandStep(i)
  PROVE  /\ deferred' \subseteq acked'
         /\ pc'[i] = "caught" => failed'[i] >= 1
         /\ pc'[i] = "ended" /\ cmd'[i].name # "unregistered" =>
              shown'[i] # "nothing" \/ i \in noted' \/ ~alive'
         /\ alive /\ ~alive' => Abandoned(i)'
<1>0. /\ BotTypeOK /\ failed[i] \in Nat /\ deferred \subseteq acked /\ SayOf(i)
      /\ pc[i] = "caught" => failed[i] >= 1
  BY DEF BotInv, BotTypeOK, EndInv, SayInv
<1> USE DEF BotTypeOK, Goto, Say, seenVars, serverVars
<1>1. CASE Receive(i)
  BY <1>0, <1>1 DEF Receive
<1>2. CASE Defer(i)
  <2>1. UNCHANGED alive /\ deferred' \subseteq acked' /\ pc'[i] # "ended"
    BY <1>0, <1>2 DEF Defer
  <2>2. pc'[i] = "caught" => \E seen \in BOOLEAN : Fails(i, seen)
    BY <1>0, <1>2 DEF Defer
  <2>3. ASSUME pc'[i] = "caught"
        PROVE  failed'[i] >= 1
    <3>1. PICK seen \in BOOLEAN : Fails(i, seen)
      BY <2>2, <2>3
    <3>2. failed[i] \in Nat /\ failed'[i] = failed[i] + 1
      BY <1>0, <3>1, FailsCounts
    <3> QED BY <3>2
  <2> QED BY <2>1, <2>3
<1>3. CASE Fetch(i)
  BY <1>0, <1>3 DEF Fetch
<1>4. CASE Reply(i)
  BY <1>0, <1>4 DEF Reply, Shows, Succeeds, SayOf
<1>5. CASE LastReply(i)
  <2>1. /\ UNCHANGED <<alive, acked, deferred>>
        /\ pc'[i] = "ended" => shown'[i] # "nothing"
    BY <1>0, <1>5 DEF LastReply, Shows, AfterLast, SayOf
  <2>2. pc'[i] = "caught" => \E seen \in BOOLEAN : Fails(i, seen)
    BY <1>0, <1>5 DEF LastReply, AfterLast
  <2>3. ASSUME pc'[i] = "caught"
        PROVE  failed'[i] >= 1
    <3>1. PICK seen \in BOOLEAN : Fails(i, seen)
      BY <2>2, <2>3
    <3>2. failed[i] \in Nat /\ failed'[i] = failed[i] + 1
      BY <1>0, <3>1, FailsCounts
    <3> QED BY <3>2
  <2> QED BY <1>0, <2>1, <2>3
<1>6. CASE CatchAll(i)
  <2>1. pc'[i] = "ended" /\ UNCHANGED <<shown, deferred>> /\ failed[i] >= 1
    BY <1>0, <1>6 DEF CatchAll
  <2>2. CASE /\ Taken(i) /\ Succeeds(i)
             /\ noted' = noted \cup {i} /\ acked' = acked \cup {i} /\ UNCHANGED alive
    BY <1>0, <2>1, <2>2
  <2>3. CASE alive' = FALSE /\ UNCHANGED acked /\ Taken(i) /\ \E seen \in BOOLEAN : Fails(i, seen)
    <3>1. failed[i] \in Nat /\ failed'[i] = failed[i] + 1
      BY <1>0, <2>3, FailsCounts
    <3>2. failed'[i] >= 2
      BY <2>1, <3>1
    <3> QED BY <1>0, <2>1, <2>3, <3>2 DEF Abandoned
  <2>4. CASE alive' = FALSE /\ UNCHANGED acked /\ ~Taken(i)
    BY <1>0, <2>1, <2>4 DEF Taken, Abandoned
  <2> QED BY <1>6, <2>2, <2>3, <2>4 DEF CatchAll
<1>7. CASE ApiAnswers(i)
  BY <1>0, <1>7 DEF ApiAnswers, SaysDone
<1>8. CASE ApiRefuses(i)
  BY <1>0, <1>8 DEF ApiRefuses
<1>9. CASE Expires(i)
  BY <1>0, <1>9 DEF Expires
<1> QED
  BY <1>1, <1>2, <1>3, <1>4, <1>5, <1>6, <1>7, <1>8, <1>9 DEF CommandStep, Bot, Api

(* Every step keeps the invariant. *)
LEMMA BotStep == BotInv /\ [Next]_vars => BotInv'
<1> SUFFICES ASSUME BotInv, [Next]_vars PROVE BotInv'
  OBVIOUS
<1>1. ASSUME NEW i \in Interaction, CommandStep(i)
      PROVE  BotInv'
  <2>1. BotTypeOK'
    BY <1>1, TypeStep DEF BotInv
  <2>2. SayInv'
    <3> SUFFICES ASSUME NEW j \in Interaction PROVE SayOf(j)'
      BY DEF SayInv
    <3>1. CASE j = i
      BY <1>1, <3>1, OwnSay DEF BotInv
    <3>2. CASE j # i
      <4>1. Kept(j)
        BY <1>1, <3>2, OthersKept DEF BotInv
      <4> QED BY <4>1 DEF BotInv, SayInv, SayOf, Holds, Silent, Kept
    <3> QED BY <3>1, <3>2
  <2>3. EndInv'
    <3>1. deferred' \subseteq acked'
      BY <1>1, OwnEnd
    <3>2. ASSUME NEW j \in Interaction, pc'[j] = "caught"
          PROVE  failed'[j] >= 1
      <4>1. CASE j = i
        BY <1>1, <3>2, <4>1, OwnEnd
      <4>2. CASE j # i
        <5>1. Kept(j)
          BY <1>1, <4>2, OthersKept DEF BotInv
        <5> QED BY <3>2, <5>1 DEF BotInv, EndInv, Kept
      <4> QED BY <4>1, <4>2
    <3> QED BY <3>1, <3>2 DEF EndInv
  <2>4. NoSilentEnd'
    <3>0. alive' => alive
      BY <1>1 DEF CommandStep, Bot, Api, Receive, Defer, Fetch, Reply, LastReply, CatchAll,
                  ApiAnswers, ApiRefuses, Expires
    <3>1. ASSUME NEW j \in Interaction, pc'[j] = "ended", cmd'[j].name # "unregistered"
          PROVE  shown'[j] # "nothing" \/ j \in noted' \/ ~alive'
      <4>1. CASE j = i
        BY <1>1, <3>1, <4>1, OwnEnd
      <4>2. CASE j # i
        <5>1. Kept(j)
          BY <1>1, <4>2, OthersKept DEF BotInv
        <5> QED BY <3>0, <3>1, <5>1 DEF BotInv, NoSilentEnd, Kept
      <4> QED BY <4>1, <4>2
    <3>2. ASSUME ~alive'
          PROVE  \E j \in Interaction : Abandoned(j)'
      <4>1. CASE alive
        BY <1>1, <3>2, <4>1, OwnEnd
      <4>2. CASE ~alive
        <5>1. PICK j \in Interaction : Abandoned(j)
          BY <4>2 DEF BotInv, NoSilentEnd
        <5>2. failed[j] \in Nat /\ failed'[j] \in Nat /\ failed'[j] >= failed[j]
          BY <1>1, FailedStep DEF BotInv, BotTypeOK
        <5>3. j \in acked \ deferred => j \in acked' \ deferred'
          BY <1>1, <4>2 DEF CommandStep, Bot, Api, Receive, Defer, Fetch, Reply, LastReply,
               CatchAll, ApiAnswers, ApiRefuses, Expires, seenVars
        <5> QED BY <5>1, <5>2, <5>3 DEF Abandoned
      <4> QED BY <4>1, <4>2
    <3> QED BY <3>1, <3>2 DEF NoSilentEnd
  <2> QED BY <2>1, <2>2, <2>3, <2>4 DEF BotInv
<1>2. CASE UNCHANGED vars
  BY <1>2 DEF vars, BotInv, BotTypeOK, SayInv, SayOf, Holds, Silent, EndInv, NoSilentEnd, Abandoned
<1>3. ASSUME NEW t \in Task, RowChanges(t)
      PROVE  BotInv'
  BY <1>3 DEF RowChanges, seenVars, BotInv, BotTypeOK, SayInv, SayOf, Holds, Silent, EndInv,
              NoSilentEnd, Abandoned
<1> QED
  BY <1>1, <1>2, <1>3 DEF Next, CommandStep

(* The invariant holds. *)
LEMMA BotCorrect == Spec => []BotInv
<1> QED BY BotInit, BotStep, PTL DEF Spec

(* For any number of commands, faults and tasks: what users read is what has happened, *)
(* unless the response to what was done was lost.                                      *)
THEOREM SaysTrue == Spec => []SaysWhatItDid
<1>1. BotInv => SaysWhatItDid
  BY DEF BotInv, SayInv, SayOf, Holds, SaysWhatItDid
<1> QED BY <1>1, BotCorrect, PTL

(* No command ends in silence, and the bot ends only by an abandoned command. *)
THEOREM EndsExplained == Spec => []NoSilentEnd
<1>1. BotInv => NoSilentEnd
  BY DEF BotInv
<1> QED BY <1>1, BotCorrect, PTL
=============================================================================
