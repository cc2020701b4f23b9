------------------------- MODULE MessageParserProofs -------------------------
(***************************************************************************)
(* Proofs about MessageParser, for every sequence of lines: the types, the *)
(* references into messages, and that it implements Transcript; and about  *)
(* ChatStream, whose parser is that one.                                   *)
(***************************************************************************)
EXTENDS ChatStream, SequenceTheorems, TLAPS

(* A function on 1 .. n is a sequence of n. *)
LEMMA FunctionIsSeq ==
  ASSUME NEW S, NEW n \in Nat, NEW f \in [1 .. n -> S]
  PROVE  f \in Seq(S) /\ Len(f) = n
OBVIOUS

(* NewMessage makes a message. *)
LEMMA NewMessageType ==
  ASSUME NEW type \in {"system_info", "text", "tool_call", "user_input", "result"},
         NEW id \in ToolId \cup GeneratedId
  PROVE  NewMessage(type, id) \in Message
BY DEF NewMessage, Message, Input

(* The references: at most one is set, to an entry of its kind, and only the current *)
(* text is streaming.                                                                 *)
Refs ==
  /\ currentTextMessage \in {0} \cup DOMAIN messages
  /\ currentToolCall \in {0} \cup DOMAIN messages
  /\ currentTextMessage = 0 \/ currentToolCall = 0
  /\ currentTextMessage # 0 => messages[currentTextMessage].type = "text"
  /\ currentToolCall # 0 => messages[currentToolCall].type = "tool_call"
  /\ \A i \in DOMAIN messages : messages[i].isStreaming => i = currentTextMessage

ParserInv == ParserTypeOK /\ Refs

(* What finalizeCurrentContent leaves: the same entries, none of them streaming. *)
LEMMA Finalized ==
  ASSUME ParserInv
  PROVE  /\ FinalizedMessages \in Seq(Message)
         /\ Len(FinalizedMessages) = Len(messages)
         /\ FinalizedMessages = TheTranscript!Settled
         /\ FinalizedBuffer \in Seq(Piece)
<1>1. FinalizedMessages \in [1 .. Len(messages) -> Message]
  <2>1. DOMAIN messages = 1 .. Len(messages)
    BY DEF ParserInv, ParserTypeOK
  <2>2. ASSUME NEW i \in DOMAIN messages
        PROVE  FinalizedMessages[i] \in Message
    <3>1. messages[i] \in Message
      BY DEF ParserInv, ParserTypeOK
    <3>2. [messages[i] EXCEPT !.isStreaming = FALSE] \in Message
      BY <3>1 DEF Message
    <3> QED BY <3>1, <3>2 DEF FinalizedMessages
  <2> QED BY <2>1, <2>2 DEF FinalizedMessages
<1>2. FinalizedMessages \in Seq(Message) /\ Len(FinalizedMessages) = Len(messages)
  BY <1>1, FunctionIsSeq DEF ParserInv, ParserTypeOK
<1>3. ASSUME NEW i \in DOMAIN messages
      PROVE  FinalizedMessages[i] = TheTranscript!Settled[i]
  <2>1. messages[i] \in Message
    BY DEF ParserInv, ParserTypeOK
  <2>2. CASE i = currentTextMessage
    BY <2>2 DEF FinalizedMessages, TheTranscript!Settled
  <2>3. CASE i # currentTextMessage
    <3>1. messages[i].isStreaming = FALSE
      BY <2>1, <2>3 DEF ParserInv, Refs, Message
    <3>2. [messages[i] EXCEPT !.isStreaming = FALSE] = messages[i]
      BY <2>1, <3>1 DEF Message
    <3> QED BY <2>3, <3>2 DEF FinalizedMessages, TheTranscript!Settled
  <2> QED BY <2>2, <2>3
<1>4. FinalizedMessages = TheTranscript!Settled
  BY <1>3 DEF FinalizedMessages, TheTranscript!Settled
<1>5. FinalizedBuffer \in Seq(Piece)
  BY DEF ParserInv, ParserTypeOK, FinalizedBuffer
<1> QED BY <1>2, <1>4, <1>5

(* What adding an entry m to the old ones leaves. *)
LEMMA Pushed ==
  ASSUME NEW old \in Seq(Message), NEW m \in Message
  PROVE  /\ Append(old, m) \in Seq(Message)
         /\ Len(Append(old, m)) = Len(old) + 1
         /\ Append(old, m)[Len(old) + 1] = m
         /\ \A i \in DOMAIN old : Append(old, m)[i] = old[i]
         /\ DOMAIN Append(old, m) = DOMAIN old \cup {Len(old) + 1}
OBVIOUS

(* Another message in place of one of its type that streams no more nor less. *)
LEMMA Replaced ==
  ASSUME ParserTypeOK, NEW k \in DOMAIN messages, NEW m \in Message,
         m.type = messages[k].type, m.isStreaming = messages[k].isStreaming
  PROVE  /\ [messages EXCEPT ![k] = m] \in Seq(Message)
         /\ DOMAIN [messages EXCEPT ![k] = m] = DOMAIN messages
         /\ \A i \in DOMAIN messages :
              /\ [messages EXCEPT ![k] = m][i].type = messages[i].type
              /\ [messages EXCEPT ![k] = m][i].isStreaming = messages[i].isStreaming
<1>1. k \in 1 .. Len(messages) /\ messages \in Seq(Message) /\ DOMAIN messages = 1 .. Len(messages)
  BY DEF ParserTypeOK
<1>2. /\ [messages EXCEPT ![k] = m] \in Seq(Message)
      /\ DOMAIN [messages EXCEPT ![k] = m] = DOMAIN messages
  BY <1>1, ExceptSeq
<1>3. \A i \in DOMAIN messages : [messages EXCEPT ![k] = m][i] = IF i = k THEN m ELSE messages[i]
  BY <1>1
<1> QED BY <1>2, <1>3

(* The types of the messages and what streams are all that the references depend on. *)
LEMMA Rewritten ==
  ASSUME ParserInv,
         messages' \in Seq(Message), DOMAIN messages' = DOMAIN messages,
         \A i \in DOMAIN messages : /\ messages'[i].type = messages[i].type
                                    /\ messages'[i].isStreaming = messages[i].isStreaming,
         UNCHANGED <<currentTextMessage, currentToolCall, messageIdCounter>>,
         toolCallJsonBuffer' \in Seq(Piece)
  PROVE  ParserInv'
BY DEF ParserInv, ParserTypeOK, Refs

(* Every action of the parser keeps its types and references. *)
LEMMA ParserInvStep ==
  ASSUME ParserInv, [Next]_parserVars
  PROVE  ParserInv'
<1> USE DEF ParserInv, ParserTypeOK
<1>a. GenerateId \in GeneratedId
  BY DEF GenerateId, GeneratedId
<1>b. /\ FinalizedMessages \in Seq(Message) /\ Len(FinalizedMessages) = Len(messages)
      /\ FinalizedBuffer \in Seq(Piece)
  BY Finalized
<1>c. \A i \in DOMAIN messages : ~FinalizedMessages[i].isStreaming
  <2> SUFFICES ASSUME NEW i \in DOMAIN messages PROVE ~FinalizedMessages[i].isStreaming
    OBVIOUS
  <2>1. messages[i] \in Message
    OBVIOUS
  <2>2. [messages[i] EXCEPT !.isStreaming = FALSE].isStreaming = FALSE
    BY <2>1 DEF Message
  <2> QED BY <2>1, <2>2 DEF FinalizedMessages, Refs
<1>1. CASE UNCHANGED parserVars
  BY <1>1 DEF parserVars, Refs
<1>2. CASE SystemInit
  <2>1. NewMessage("system_info", GenerateId) \in Message
    BY <1>a, NewMessageType
  <2>2. ~NewMessage("system_info", GenerateId).isStreaming
    BY DEF NewMessage
  <2> QED BY <1>2, <2>1, <2>2, Pushed DEF SystemInit, Refs
<1>3. ASSUME FinalizeCurrentContent
      PROVE  ParserInv'
  BY <1>3, <1>b, <1>c, SMTT(30) DEF FinalizeCurrentContent, Refs
<1>4. CASE StartText
  <2>1. NewMessage("text", GenerateId) \in Message
    BY <1>a, NewMessageType
  <2>2. NewMessage("text", GenerateId).type = "text"
    BY DEF NewMessage
  <2> QED BY <1>4, <1>b, <1>c, <2>1, <2>2, Pushed DEF StartText, Refs
<1>5. CASE BlockStop
  <2>0. toolCallJsonBuffer' \in Seq(Piece)
    <3>1. toolCallJsonBuffer' = <<>> \/ toolCallJsonBuffer' = toolCallJsonBuffer
      BY <1>5, Zenon DEF BlockStop
    <3> QED BY <3>1, EmptySeq
  <2>1. CASE /\ currentToolCall # 0 /\ toolCallJsonBuffer # <<>>
             /\ messages' = [messages EXCEPT ![currentToolCall].input = toolCallJsonBuffer[1].of]
    <3>1. messages[currentToolCall] \in Message
      BY <2>1 DEF Refs
    <3>2. toolCallJsonBuffer[1].of \in Input
      <4>1. 1 \in 1 .. Len(toolCallJsonBuffer)
        BY <2>1
      <4>2. toolCallJsonBuffer[1] \in Piece
        BY <4>1
      <4> QED BY <4>2 DEF Piece, Input
    <3> DEFINE m == [messages[currentToolCall] EXCEPT !.input = toolCallJsonBuffer[1].of]
    <3>3. /\ m \in Message /\ m.type = messages[currentToolCall].type
          /\ m.isStreaming = messages[currentToolCall].isStreaming
      BY <3>1, <3>2 DEF Message
    <3>4. messages' = [messages EXCEPT ![currentToolCall] = m]
      BY <2>1
    <3> HIDE DEF m
    <3>5. /\ messages' \in Seq(Message) /\ DOMAIN messages' = DOMAIN messages
          /\ \A i \in DOMAIN messages :
               messages'[i].type = messages[i].type /\ messages'[i].isStreaming = messages[i].isStreaming
      <4>1. currentToolCall \in DOMAIN messages
        BY <2>1 DEF Refs
      <4> QED BY <3>3, <3>4, <4>1, Replaced
    <3> QED BY <1>5, <2>0, <3>5, Rewritten DEF BlockStop
  <2>2. CASE UNCHANGED messages
    BY <1>5, <2>0, <2>2, Rewritten DEF BlockStop
  <2> QED BY <1>5, <2>1, <2>2 DEF BlockStop
<1>6. ASSUME NEW results \in UNION { [S -> {"ok", "error"}] : S \in SUBSET ToolId },
             ToolResults(results)
      PROVE  ParserInv'
  <2>1. /\ messages' \in Seq(Message) /\ DOMAIN messages' = DOMAIN messages
        /\ \A i \in DOMAIN messages :
             messages'[i].type = messages[i].type /\ messages'[i].isStreaming = messages[i].isStreaming
    <3>1. ASSUME NEW i \in DOMAIN messages
          PROVE  /\ messages'[i] \in Message
                 /\ messages'[i].type = messages[i].type
                 /\ messages'[i].isStreaming = messages[i].isStreaming
      <4>1. messages[i] \in Message
        OBVIOUS
      <4>2. CASE messages[i].id \in DOMAIN results /\ FirstCall(i, messages[i].id)
        <5>1. results[messages[i].id] \in {"ok", "error"}
          BY <4>2
        <5>2. messages'[i] = [messages[i] EXCEPT !.result = results[messages[i].id]]
          BY <1>6, <4>2 DEF ToolResults
        <5> QED BY <4>1, <5>1, <5>2 DEF Message
      <4>3. CASE ~(messages[i].id \in DOMAIN results /\ FirstCall(i, messages[i].id))
        BY <1>6, <4>1, <4>3 DEF ToolResults
      <4> QED BY <4>2, <4>3
    <3>2. DOMAIN messages = 1 .. Len(messages) /\ DOMAIN messages' = DOMAIN messages
      BY <1>6 DEF ToolResults
    <3>3. messages' = [i \in 1 .. Len(messages) |-> messages'[i]]
      BY <1>6, <3>2 DEF ToolResults
    <3>4. messages' \in [1 .. Len(messages) -> Message]
      BY <3>1, <3>2, <3>3
    <3>5. messages' \in Seq(Message)
      BY <3>4, FunctionIsSeq
    <3> QED BY <3>1, <3>2, <3>5
  <2> QED BY <1>6, <2>1, Rewritten DEF ToolResults
<1>7. ASSUME NEW isError \in BOOLEAN, Result(isError)
      PROVE  ParserInv'
  <2> DEFINE m == [NewMessage("result", GenerateId) EXCEPT !.result = IF isError THEN "error" ELSE "ok"]
  <2>1. NewMessage("result", GenerateId) \in Message
    BY <1>a, NewMessageType
  <2>2. m \in Message /\ ~m.isStreaming
    BY <2>1 DEF Message, NewMessage
  <2>3. messages' = Append(FinalizedMessages, m)
    BY <1>7 DEF Result
  <2> HIDE DEF m
  <2>4. messages' \in Seq(Message) /\ \A i \in DOMAIN messages' : ~messages'[i].isStreaming
    BY <1>b, <1>c, <2>2, <2>3, Pushed
  <2>5. /\ currentTextMessage' = 0 /\ currentToolCall' = 0
        /\ toolCallJsonBuffer' \in Seq(Piece) /\ messageIdCounter' \in Nat
    BY <1>7, <1>b DEF Result
  <2> QED BY <2>4, <2>5 DEF Refs
<1>8. ASSUME NEW id \in ToolId, StartToolUse(id)
      PROVE  ParserInv'
  <2>1. NewMessage("tool_call", id) \in Message
    BY NewMessageType
  <2>2. NewMessage("tool_call", id).type = "tool_call" /\ ~NewMessage("tool_call", id).isStreaming
    BY DEF NewMessage
  <2> QED BY <1>8, <1>b, <1>c, <2>1, <2>2, Pushed DEF StartToolUse, Refs
<1>9. ASSUME NEW piece \in Piece, TextDelta(piece)
      PROVE  ParserInv'
  <2>1. CASE currentTextMessage # 0
    <3> DEFINE m == [messages[currentTextMessage] EXCEPT !.text = Append(@, piece)]
    <3>1. messages[currentTextMessage] \in Message
      BY <2>1 DEF Refs
    <3>2. Append(messages[currentTextMessage].text, piece) \in Seq(Piece)
      BY <3>1 DEF Message
    <3>3. /\ m \in Message /\ m.type = messages[currentTextMessage].type
          /\ m.isStreaming = messages[currentTextMessage].isStreaming
      BY <3>1, <3>2 DEF Message
    <3>4. messages' = [messages EXCEPT ![currentTextMessage] = m]
      BY <1>9, <2>1 DEF TextDelta
    <3> HIDE DEF m
    <3>5. /\ messages' \in Seq(Message) /\ DOMAIN messages' = DOMAIN messages
          /\ \A i \in DOMAIN messages :
               messages'[i].type = messages[i].type /\ messages'[i].isStreaming = messages[i].isStreaming
      <4>1. currentTextMessage \in DOMAIN messages
        BY <2>1 DEF Refs
      <4> QED BY <3>3, <3>4, <4>1, Replaced
    <3> QED BY <1>9, <3>5, Rewritten DEF TextDelta
  <2>2. CASE currentTextMessage = 0
    BY <1>9, <2>2 DEF TextDelta, Refs
  <2> QED BY <2>1, <2>2
<1>10. ASSUME NEW piece \in Piece, InputJsonDelta(piece)
       PROVE  ParserInv'
  BY <1>10 DEF InputJsonDelta, Refs
<1>11. CASE AddUserInput
  <2>1. NewMessage("user_input", GenerateId) \in Message
    BY <1>a, NewMessageType
  <2>2. ~NewMessage("user_input", GenerateId).isStreaming
    BY DEF NewMessage
  <2> QED BY <1>11, <2>1, <2>2, Pushed DEF AddUserInput, Refs
<1>12. CASE Clear
  BY <1>12 DEF Clear, Refs
<1> QED
  BY <1>1, <1>2, <1>3, <1>4, <1>5, <1>6, <1>7, <1>8, <1>9, <1>10, <1>11, <1>12
    DEF Next, Assistant, MessageStop, MessageDelta

(* An entry m added to the old ones is the new entry of the transcript. *)
LEMMA AddedStep ==
  ASSUME ParserInv, NEW old \in Seq(Message), Len(old) = Len(messages), NEW m \in Message,
         messages' = Append(old, m)
  PROVE  /\ TheTranscript!Added(old) /\ TheTranscript!NewEntry = m
         /\ Len(messages') = Len(messages) + 1
<1>1. /\ Len(messages') = Len(messages) + 1 /\ messages'[Len(messages) + 1] = m
  BY Pushed
<1> QED BY <1>1 DEF TheTranscript!Added, TheTranscript!NewEntry

(* Every step of the parser is one of the transcript, or none. *)
LEMMA TranscriptStep ==
  ASSUME ParserInv, [Next]_parserVars
  PROVE  [TheTranscript!Next]_<<messages, Current>>
<1>a. GenerateId \in GeneratedId
  BY DEF ParserInv, ParserTypeOK, GenerateId, GeneratedId
<1>b. messages \in Seq(Message) /\ DOMAIN messages = 1 .. Len(messages) /\ Len(messages) \in Nat
  BY DEF ParserInv, ParserTypeOK
<1>1. CASE UNCHANGED parserVars
  BY <1>1 DEF parserVars, Current
<1>2. ASSUME NEW m \in Message, ~m.isStreaming, messages' = Append(messages, m),
             UNCHANGED <<currentTextMessage, currentToolCall>>
      PROVE  TheTranscript!Say
  BY <1>2, <1>b, AddedStep DEF TheTranscript!Say, Current
<1>3. CASE SystemInit
  <2>1. /\ NewMessage("system_info", GenerateId) \in Message
        /\ ~NewMessage("system_info", GenerateId).isStreaming
    BY <1>a, NewMessageType DEF NewMessage
  <2> QED BY <1>2, <1>3, <2>1 DEF SystemInit, TheTranscript!Next
<1>4. CASE AddUserInput
  <2>1. /\ NewMessage("user_input", GenerateId) \in Message
        /\ ~NewMessage("user_input", GenerateId).isStreaming
    BY <1>a, NewMessageType DEF NewMessage
  <2> QED BY <1>2, <1>4, <2>1 DEF AddUserInput, TheTranscript!Next
<1>5. ASSUME FinalizeCurrentContent
      PROVE  TheTranscript!Next
  BY <1>5, Finalized DEF FinalizeCurrentContent, TheTranscript!End, TheTranscript!Next, Current
<1>6. CASE StartText
  <2>1. /\ NewMessage("text", GenerateId) \in Message
        /\ NewMessage("text", GenerateId).type = "text"
        /\ NewMessage("text", GenerateId).isStreaming
    BY <1>a, NewMessageType DEF NewMessage
  <2>2. messages' = Append(FinalizedMessages, NewMessage("text", GenerateId))
    BY <1>6 DEF StartText
  <2>3. /\ TheTranscript!Added(TheTranscript!Settled) /\ Len(messages') = Len(messages) + 1
        /\ TheTranscript!NewEntry = NewMessage("text", GenerateId)
    BY <2>1, <2>2, Finalized, AddedStep
  <2>4. Current' = Len(messages')
    BY <1>6, <1>b, <2>3 DEF StartText, Current
  <2> QED BY <2>1, <2>3, <2>4 DEF TheTranscript!Begin, TheTranscript!Next
<1>7. ASSUME NEW id \in ToolId, StartToolUse(id)
      PROVE  TheTranscript!Next
  <2>1. /\ NewMessage("tool_call", id) \in Message
        /\ NewMessage("tool_call", id).type = "tool_call"
        /\ NewMessage("tool_call", id).isStreaming = FALSE
    BY NewMessageType DEF NewMessage
  <2>2. messages' = Append(FinalizedMessages, NewMessage("tool_call", id))
    BY <1>7 DEF StartToolUse
  <2>3. /\ TheTranscript!Added(TheTranscript!Settled) /\ Len(messages') = Len(messages) + 1
        /\ TheTranscript!NewEntry = NewMessage("tool_call", id)
    BY <2>1, <2>2, Finalized, AddedStep
  <2>4. Current' = Len(messages')
    BY <1>7, <1>b, <2>3 DEF StartToolUse, Current
  <2> QED BY <2>1, <2>3, <2>4 DEF TheTranscript!Begin, TheTranscript!Next
<1>8. ASSUME NEW isError \in BOOLEAN, Result(isError)
      PROVE  TheTranscript!Next
  <2> DEFINE m == [NewMessage("result", GenerateId) EXCEPT !.result = IF isError THEN "error" ELSE "ok"]
  <2>1. NewMessage("result", GenerateId) \in Message
    BY <1>a, NewMessageType
  <2>2. m \in Message /\ ~m.isStreaming
    BY <2>1 DEF Message, NewMessage
  <2>3. messages' = Append(FinalizedMessages, m)
    BY <1>8 DEF Result
  <2> HIDE DEF m
  <2>4. /\ TheTranscript!Added(TheTranscript!Settled) /\ TheTranscript!NewEntry = m
    BY <2>2, <2>3, Finalized, AddedStep
  <2>5. Current' = 0
    BY <1>8 DEF Result, Current
  <2> QED BY <2>2, <2>4, <2>5 DEF TheTranscript!Finish, TheTranscript!Next
<1>9. ASSUME NEW piece \in Piece, TextDelta(piece)
      PROVE  [TheTranscript!Next]_<<messages, Current>>
  <2>1. CASE currentTextMessage # 0
    <3>1. /\ Current = currentTextMessage /\ Current' = Current /\ Current # 0
          /\ currentTextMessage \in DOMAIN messages
          /\ messages[Current].type = "text"
      BY <1>9, <2>1 DEF TextDelta, Current, ParserInv, Refs
    <3> DEFINE text == messages[Current].text
    <3>2. messages[Current] \in Message
      BY <1>b, <3>1
    <3>3. text \in Seq(Piece)
      BY <3>2 DEF Message
    <3>4. messages' = [messages EXCEPT ![Current].text = Append(text, piece)]
      BY <1>9, <2>1, <3>1 DEF TextDelta
    <3>5. messages'[Current].text = Append(text, piece)
      BY <3>1, <3>2, <3>4 DEF Message
    <3>6. /\ Len(Append(text, piece)) = Len(text) + 1 /\ Len(text) \in Nat
          /\ Append(text, piece)[Len(text) + 1] = piece
      BY <3>3
    <3>7. messages' = [messages EXCEPT ![Current].text =
                        Append(@, messages'[Current].text[Len(messages'[Current].text)])]
      BY <3>4, <3>5, <3>6
    <3>8. Len(messages'[Current].text) # 0
      BY <3>5, <3>6
    <3>9. TheTranscript!Continue
      BY <3>1, <3>7, <3>8 DEF TheTranscript!Continue
    <3> QED BY <3>9 DEF TheTranscript!Next
  <2>2. CASE currentTextMessage = 0
    BY <1>9, <2>2 DEF TextDelta, Current
  <2> QED BY <2>1, <2>2
<1>10. ASSUME NEW piece \in Piece, InputJsonDelta(piece)
       PROVE  [TheTranscript!Next]_<<messages, Current>>
  BY <1>10 DEF InputJsonDelta, Current
<1>11. CASE BlockStop
  <2>1. CASE /\ currentToolCall # 0 /\ toolCallJsonBuffer # <<>>
             /\ messages' = [messages EXCEPT ![currentToolCall].input = toolCallJsonBuffer[1].of]
    <3>1. /\ Current = currentToolCall /\ Current' = Current /\ Current # 0
          /\ Current \in DOMAIN messages
          /\ messages[Current].type = "tool_call"
      BY <1>11, <2>1 DEF BlockStop, Current, ParserInv, Refs
    <3>2. messages[Current] \in Message
      BY <1>b, <3>1
    <3>3. messages'[Current].input = toolCallJsonBuffer[1].of
      BY <2>1, <3>1, <3>2 DEF Message
    <3>4. messages' = [messages EXCEPT ![Current].input = messages'[Current].input]
      BY <2>1, <3>1, <3>3
    <3>5. TheTranscript!Continue
      BY <3>1, <3>4 DEF TheTranscript!Continue
    <3> QED BY <3>5 DEF TheTranscript!Next
  <2>2. CASE UNCHANGED messages
    BY <1>11, <2>2 DEF BlockStop, Current
  <2> QED BY <1>11, <2>1, <2>2 DEF BlockStop
<1>12. ASSUME NEW results \in UNION { [S -> {"ok", "error"}] : S \in SUBSET ToolId },
              ToolResults(results)
       PROVE  TheTranscript!Next
  <2>1. ASSUME NEW i \in DOMAIN messages
        PROVE  messages'[i] = messages[i] \/ TheTranscript!Answered(i)
    <3>1. messages[i] \in Message
      BY <1>b
    <3>2. CASE messages[i].id \in DOMAIN results /\ FirstCall(i, messages[i].id)
      <4>1. results[messages[i].id] \in {"ok", "error"}
        BY <3>2
      <4>2. messages'[i] = [messages[i] EXCEPT !.result = results[messages[i].id]]
        BY <1>12, <3>2 DEF ToolResults
      <4>3. messages'[i].result = results[messages[i].id]
        BY <3>1, <4>2 DEF Message
      <4> QED BY <3>2, <4>1, <4>2, <4>3 DEF TheTranscript!Answered, FirstCall
    <3>3. CASE ~(messages[i].id \in DOMAIN results /\ FirstCall(i, messages[i].id))
      BY <1>12, <3>3 DEF ToolResults
    <3> QED BY <3>2, <3>3
  <2>2. DOMAIN messages' = DOMAIN messages /\ Current' = Current
    BY <1>12 DEF ToolResults, Current
  <2> QED BY <2>1, <2>2 DEF TheTranscript!Answer, TheTranscript!Next
<1>13. CASE Clear
  BY <1>13 DEF Clear, Current, TheTranscript!Wipe, TheTranscript!Next
<1> QED
  BY <1>1, <1>3, <1>4, <1>5, <1>6, <1>7, <1>8, <1>9, <1>10, <1>11, <1>12, <1>13
    DEF Next, Assistant, MessageStop, MessageDelta

(* The parser starts with an empty transcript. *)
LEMMA ParserStart ==
  Init => ParserInv /\ TheTranscript!Init
BY EmptySeq DEF Init, ParserInv, ParserTypeOK, Refs, TheTranscript!Init, Current

(* The parser's types and references hold whatever lines come. *)
THEOREM ParserCorrect == Spec => []ParserInv
<1>1. ParserInv /\ [Next]_parserVars => ParserInv'
  BY ParserInvStep
<1> QED BY <1>1, ParserStart, PTL DEF Spec

(* The parser keeps what Transcript promises (message-parser.ts), for every sequence *)
(* of lines: those of two sockets, those after a gap, and lines Claude never prints.  *)
THEOREM ParserImplementsTranscript == Spec => ImplementsTranscript
<1>1. ParserInv /\ [Next]_parserVars => [TheTranscript!Next]_<<messages, Current>>
  BY TranscriptStep
<1> QED BY <1>1, ParserStart, ParserCorrect, PTL DEF Spec, ImplementsTranscript, TheTranscript!Spec

----------------------------------------------------------------------------
(* A conversation. *)

BlockRecord == [kind : {"text", "tool_use"}, n : Nat, whole : BOOLEAN]

(* The types of what Claude is at; a block that is being printed is there. *)
ChatTypes ==
  /\ phase \in {"start", "idle", "message", "block", "delta", "said", "asked"}
  /\ blocks \in Seq(BlockRecord)
  /\ calls \subseteq ToolId
  /\ {turns, inputs, losses} \subseteq Nat
  /\ lostStarts \subseteq DOMAIN blocks /\ cut \subseteq DOMAIN blocks
  /\ \A id \in DOMAIN answers : id \in ToolId /\ answers[id] \in {"ok", "error"}
  /\ phase = "block" => Block \in DOMAIN blocks

(* The id of a block's tool call is a tool id, and its own. *)
LEMMA CallIds ==
  ASSUME NEW b \in Nat, NEW c \in Nat
  PROVE  CallId(b) \in ToolId /\ (CallId(b) = CallId(c) => b = c)
BY DEF CallId, ToolId

(* The next piece of a block is a piece. *)
LEMMA NextPieceType ==
  ASSUME ChatTypes, phase = "block", NEW last \in BOOLEAN
  PROVE  NextPiece(last) \in Piece
<1>1. blocks[Block] \in BlockRecord
  BY DEF ChatTypes
<1> QED BY <1>1 DEF NextPiece, Piece, BlockRecord, Block, ChatTypes

(* The parser of a conversation takes a step of its own, or none. *)
LEMMA ParserOfChat ==
  ASSUME ChatTypes, [ChatNext]_vars
  PROVE  [Next]_parserVars
<1>1. CASE UNCHANGED vars
  BY <1>1 DEF vars, parserVars
<1>2. CASE UserTypes
  BY <1>2 DEF UserTypes, Next
<1>3. CASE ClaudeInit
  BY <1>3 DEF ClaudeInit, Send, Lose, Next
<1>4. CASE ClaudeMessageStart
  BY <1>4 DEF ClaudeMessageStart, Send, Lose, OtherLine
<1>5. CASE ClaudeBlockStop
  BY <1>5 DEF ClaudeBlockStop, SendOfBlock, Lose, Next
<1>6. CASE ClaudeMessageStop
  BY <1>6 DEF ClaudeMessageStop, Send, Lose, Next
<1>7. CASE ClaudeSnapshot
  BY <1>7 DEF ClaudeSnapshot, Lose, Next
<1>8. ASSUME NEW kind \in {"text", "tool_use"}, ClaudeBlockStart(kind)
      PROVE  [Next]_parserVars
  <2>1. CallId(Block + 1) \in ToolId
    BY CallIds DEF Block, ChatTypes
  <2> QED BY <1>8, <2>1 DEF ClaudeBlockStart, Lose, Next
<1>9. ASSUME NEW last \in BOOLEAN, ClaudeBlockDelta(last)
      PROVE  [Next]_parserVars
  <2>1. NextPiece(last) \in Piece
    BY <1>9, NextPieceType DEF ClaudeBlockDelta
  <2> QED BY <1>9, <2>1 DEF ClaudeBlockDelta, SendOfBlock, Lose, Next
<1>10. ASSUME NEW stopReason \in StopReason, ClaudeMessageDelta(stopReason)
       PROVE  [Next]_parserVars
  BY <1>10 DEF ClaudeMessageDelta, Send, Lose, Next
<1>11. ASSUME NEW S \in SUBSET calls, NEW results \in [S -> {"ok", "error"}],
              ClaudeToolResults(results)
       PROVE  [Next]_parserVars
  <2>1. results \in UNION { [R -> {"ok", "error"}] : R \in SUBSET ToolId }
    BY DEF ChatTypes
  <2> QED BY <1>11, <2>1 DEF ClaudeToolResults, Lose, Next
<1>12. ASSUME NEW isError \in BOOLEAN, ClaudeResult(isError)
       PROVE  [Next]_parserVars
  BY <1>12 DEF ClaudeResult, Lose, Next
<1> QED
  BY <1>1, <1>2, <1>3, <1>4, <1>5, <1>6, <1>7, <1>8, <1>9, <1>10, <1>11, <1>12
    DEF ChatNext, Claude

(* What does not change in the steps that print no line of a block. *)
LEMMA ChatTypesKept ==
  ASSUME ChatTypes, UNCHANGED blocks,
         phase' \in {"start", "idle", "message", "delta", "said", "asked"} \/ UNCHANGED phase,
         calls' \subseteq calls,
         turns' \in {turns, turns + 1}, inputs' \in {inputs, inputs + 1},
         losses' \in {losses, losses + 1}, UNCHANGED lostStarts,
         cut' \in {cut, cut \cup {Block}}, cut' # cut => phase = "block",
         UNCHANGED answers
  PROVE  ChatTypes'
BY DEF ChatTypes, Block

(* The types of a conversation hold. *)
LEMMA ChatTypesStep ==
  ASSUME ChatTypes, [ChatNext]_vars
  PROVE  ChatTypes'
<1>0. losses \in Nat /\ turns \in Nat /\ inputs \in Nat
  BY DEF ChatTypes
<1>1. CASE UNCHANGED vars
  BY <1>1, ChatTypesKept DEF vars, claudeVars, history
<1>2. CASE UserTypes
  BY <1>2, ChatTypesKept DEF UserTypes, claudeVars, history
<1>3. CASE ClaudeInit
  BY <1>3, ChatTypesKept DEF ClaudeInit, Send, Lose
<1>4. CASE ClaudeMessageStart
  BY <1>4, ChatTypesKept DEF ClaudeMessageStart, Send, Lose
<1>5. CASE ClaudeBlockStop
  BY <1>5, ChatTypesKept DEF ClaudeBlockStop, SendOfBlock, Lose
<1>6. CASE ClaudeMessageStop
  BY <1>6, ChatTypesKept DEF ClaudeMessageStop, Send, Lose
<1>7. CASE ClaudeSnapshot
  BY <1>7, ChatTypesKept DEF ClaudeSnapshot, Lose, claudeVars
<1>8. ASSUME NEW kind \in {"text", "tool_use"}, ClaudeBlockStart(kind)
      PROVE  ChatTypes'
  <2> DEFINE b == [kind |-> kind, n |-> 0, whole |-> FALSE]
  <2>1. b \in BlockRecord /\ blocks' = Append(blocks, b)
    BY <1>8 DEF BlockRecord, ClaudeBlockStart
  <2> HIDE DEF b
  <2>2. /\ blocks' \in Seq(BlockRecord) /\ Len(blocks') = Len(blocks) + 1
        /\ DOMAIN blocks' = DOMAIN blocks \cup {Len(blocks) + 1}
    BY <2>1 DEF ChatTypes
  <2>3. calls' \subseteq ToolId
    BY <1>8, CallIds DEF ClaudeBlockStart, ChatTypes, Block
  <2>4. losses' \in Nat /\ UNCHANGED <<turns, inputs, answers>> /\ phase' = "block"
    BY <1>8, <1>0 DEF ClaudeBlockStart, Lose
  <2>5. lostStarts' \subseteq DOMAIN blocks' /\ cut' \subseteq DOMAIN blocks'
    BY <1>8, <2>2 DEF ClaudeBlockStart, ChatTypes, Block
  <2> QED BY <2>2, <2>3, <2>4, <2>5 DEF ChatTypes, Block
<1>9. ASSUME NEW last \in BOOLEAN, ClaudeBlockDelta(last)
      PROVE  ChatTypes'
  <2> DEFINE b == [kind |-> blocks[Block].kind, n |-> blocks[Block].n + 1, whole |-> last]
  <2>1. Block \in DOMAIN blocks /\ blocks \in Seq(BlockRecord) /\ blocks[Block] \in BlockRecord
    BY <1>9 DEF ClaudeBlockDelta, ChatTypes
  <2>2. b \in BlockRecord
    BY <2>1 DEF BlockRecord
  <2>3. blocks' = [blocks EXCEPT ![Block] = b]
    BY <1>9, <2>1 DEF ClaudeBlockDelta, BlockRecord
  <2> HIDE DEF b
  <2>4. blocks' \in Seq(BlockRecord) /\ DOMAIN blocks' = DOMAIN blocks /\ Len(blocks') = Len(blocks)
    BY <2>1, <2>2, <2>3, ExceptSeq
  <2>5. losses' \in Nat /\ UNCHANGED <<phase, calls, turns, inputs, answers, lostStarts>>
    BY <1>9, <1>0 DEF ClaudeBlockDelta, SendOfBlock, Lose
  <2>6. cut' \in {cut, cut \cup {Block}}
    BY <1>9 DEF ClaudeBlockDelta, SendOfBlock
  <2> QED BY <2>1, <2>4, <2>5, <2>6 DEF ChatTypes, Block
<1>10. ASSUME NEW stopReason \in StopReason, ClaudeMessageDelta(stopReason)
       PROVE  ChatTypes'
  BY <1>10, ChatTypesKept DEF ClaudeMessageDelta, Send, Lose
<1>11. ASSUME NEW S \in SUBSET calls, NEW results \in [S -> {"ok", "error"}],
              ClaudeToolResults(results)
       PROVE  ChatTypes'
  <2>1. \A id \in DOMAIN results : id \in ToolId /\ results[id] \in {"ok", "error"}
    BY DEF ChatTypes
  <2>2. \A id \in DOMAIN answers' : id \in ToolId /\ answers'[id] \in {"ok", "error"}
    BY <1>11, <2>1 DEF ClaudeToolResults, ChatTypes
  <2>3. losses' \in Nat /\ calls' \subseteq calls
        /\ UNCHANGED <<phase, blocks, turns, inputs, lostStarts, cut>>
    BY <1>11, <1>0 DEF ClaudeToolResults, Lose
  <2> QED BY <2>2, <2>3 DEF ChatTypes, Block
<1>12. ASSUME NEW isError \in BOOLEAN, ClaudeResult(isError)
       PROVE  ChatTypes'
  BY <1>12, ChatTypesKept DEF ClaudeResult, Lose
<1> QED
  BY <1>1, <1>2, <1>3, <1>4, <1>5, <1>6, <1>7, <1>8, <1>9, <1>10, <1>11, <1>12
    DEF ChatNext, Claude

(* A conversation begins with an empty transcript. *)
LEMMA ChatStart == ChatInit => Init /\ ChatTypes
BY EmptySeq DEF ChatInit, ChatTypes

(* The parser of a conversation is the parser (ChatStream's lines and losses are among *)
(* the lines it is proved for).                                                        *)
LEMMA ChatIsSpec == ChatSpec => Spec /\ []ChatTypes
<1>1. ChatTypes /\ [ChatNext]_vars => ChatTypes'
  BY ChatTypesStep
<1>2. ChatTypes /\ [ChatNext]_vars => [Next]_parserVars
  BY ParserOfChat
<1> QED BY <1>1, <1>2, ChatStart, PTL DEF ChatSpec, Spec

(* The types of a conversation and of its parser hold, whatever is lost. *)
THEOREM ChatTypeCorrect == ChatSpec => []TypeOK
<1>1. ParserInv /\ ChatTypes => TypeOK
  BY DEF ParserInv, ChatTypes, TypeOK, BlockRecord
<1> QED BY <1>1, ChatIsSpec, ParserCorrect, PTL

(* A conversation's parser keeps what Transcript promises. *)
THEOREM ChatImplementsTranscript == ChatSpec => ImplementsTranscript
BY ChatIsSpec, ParserImplementsTranscript, PTL

----------------------------------------------------------------------------
(* Which answer a tool call shows. *)

AskedIds == { CallId(b) : b \in 1 .. Block }
IsCall(i) == messages[i].type = "tool_call"

(* Each tool call is one Claude has made, there is one entry for it, and the answer of *)
(* the entry is the one that came for that call.                                       *)
AnswerInv ==
  /\ calls \subseteq AskedIds /\ DOMAIN answers \subseteq AskedIds
  /\ \A i \in DOMAIN messages : IsCall(i) =>
       /\ messages[i].id \in AskedIds
       /\ messages[i].result =
            IF messages[i].id \in DOMAIN answers THEN answers[messages[i].id] ELSE "none"
       /\ \A j \in DOMAIN messages : IsCall(j) /\ messages[j].id = messages[i].id => j = i

(* The entries keep what answers depend on, and those that come are no tool calls. *)
Extends ==
  /\ DOMAIN messages \subseteq DOMAIN messages'
  /\ \A i \in DOMAIN messages : /\ messages'[i].type = messages[i].type
                                /\ messages'[i].id = messages[i].id
                                /\ messages'[i].result = messages[i].result
  /\ \A i \in DOMAIN messages' \ DOMAIN messages : messages'[i].type # "tool_call"

(* Entries that keep their ids and results, and new ones that are no calls, change no answer. *)
LEMMA Extended ==
  ASSUME AnswerInv, Extends, UNCHANGED answers,
         AskedIds \subseteq AskedIds', calls' \subseteq AskedIds'
  PROVE  AnswerInv'
BY DEF AnswerInv, Extends, IsCall

(* To finalize an entry changes neither its type, its id nor its result. *)
LEMMA FinalizedSame ==
  ASSUME ParserInv, NEW i \in DOMAIN messages
  PROVE  /\ FinalizedMessages[i].type = messages[i].type
         /\ FinalizedMessages[i].id = messages[i].id
         /\ FinalizedMessages[i].result = messages[i].result
<1>1. messages[i] \in Message
  BY DEF ParserInv, ParserTypeOK
<1> QED BY <1>1 DEF FinalizedMessages, Message

(* An entry that is no tool call is added to the old ones. *)
LEMMA AddedExtends ==
  ASSUME ParserInv, NEW old \in Seq(Message), Len(old) = Len(messages),
         \A i \in DOMAIN messages : /\ old[i].type = messages[i].type
                                    /\ old[i].id = messages[i].id
                                    /\ old[i].result = messages[i].result,
         NEW m \in Message, m.type # "tool_call", messages' = Append(old, m)
  PROVE  Extends
<1>1. DOMAIN old = DOMAIN messages
  BY DEF ParserInv, ParserTypeOK
<1> QED BY <1>1, Pushed DEF Extends

(* All the lines but the start and the result of a tool call are such. *)
LEMMA OtherLinesExtend ==
  ASSUME ParserInv,
         \/ UNCHANGED parserVars \/ SystemInit \/ AddUserInput \/ FinalizeCurrentContent
         \/ StartText \/ BlockStop
         \/ \E isError \in BOOLEAN : Result(isError)
         \/ \E piece \in Piece : TextDelta(piece) \/ InputJsonDelta(piece)
  PROVE  Extends
<1>a. GenerateId \in GeneratedId
  BY DEF ParserInv, ParserTypeOK, GenerateId, GeneratedId
<1>b. messages \in Seq(Message) /\ FinalizedMessages \in Seq(Message)
      /\ Len(FinalizedMessages) = Len(messages) /\ DOMAIN messages = 1 .. Len(messages)
  BY Finalized DEF ParserInv, ParserTypeOK
<1>c. ASSUME NEW type \in {"system_info", "user_input", "text", "result"}
      PROVE  NewMessage(type, GenerateId) \in Message /\ NewMessage(type, GenerateId).type = type
  BY <1>a, NewMessageType DEF NewMessage
<1>1. CASE UNCHANGED messages
  BY <1>1 DEF Extends
<1>2. CASE SystemInit
  BY <1>2, <1>b, <1>c, AddedExtends DEF SystemInit
<1>3. CASE AddUserInput
  BY <1>3, <1>b, <1>c, AddedExtends DEF AddUserInput
<1>4. CASE FinalizeCurrentContent
  BY <1>4, <1>b, FinalizedSame DEF FinalizeCurrentContent, Extends
<1>5. CASE StartText
  BY <1>5, <1>b, <1>c, FinalizedSame, AddedExtends DEF StartText
<1>6. ASSUME NEW isError \in BOOLEAN, Result(isError)
      PROVE  Extends
  <2> DEFINE m == [NewMessage("result", GenerateId) EXCEPT !.result = IF isError THEN "error" ELSE "ok"]
  <2>1. m \in Message /\ m.type # "tool_call"
    BY <1>c DEF Message
  <2>2. messages' = Append(FinalizedMessages, m)
    BY <1>6 DEF Result
  <2> HIDE DEF m
  <2> QED BY <1>b, <2>1, <2>2, FinalizedSame, AddedExtends
<1>7. ASSUME NEW k \in DOMAIN messages, NEW m \in Message, messages' = [messages EXCEPT ![k] = m],
             m.type = messages[k].type, m.id = messages[k].id, m.result = messages[k].result
      PROVE  Extends
  BY <1>7 DEF Extends
<1>8. CASE BlockStop
  <2>1. CASE /\ currentToolCall # 0
             /\ messages' = [messages EXCEPT ![currentToolCall].input = toolCallJsonBuffer[1].of]
             /\ toolCallJsonBuffer # <<>>
    <3>1. currentToolCall \in DOMAIN messages /\ messages[currentToolCall] \in Message
      BY <2>1 DEF ParserInv, ParserTypeOK, Refs
    <3>2. toolCallJsonBuffer[1].of \in Input
      <4>1. toolCallJsonBuffer[1] \in Piece
        BY <2>1 DEF ParserInv, ParserTypeOK
      <4> QED BY <4>1 DEF Piece, Input
    <3> DEFINE m == [messages[currentToolCall] EXCEPT !.input = toolCallJsonBuffer[1].of]
    <3>3. /\ m \in Message /\ m.type = messages[currentToolCall].type
          /\ m.id = messages[currentToolCall].id /\ m.result = messages[currentToolCall].result
      BY <3>1, <3>2 DEF Message
    <3>4. messages' = [messages EXCEPT ![currentToolCall] = m]
      BY <2>1
    <3> HIDE DEF m
    <3> QED BY <1>7, <3>1, <3>3, <3>4
  <2>2. CASE UNCHANGED messages
    BY <1>1, <2>2
  <2> QED BY <1>8, <2>1, <2>2 DEF BlockStop
<1>9. ASSUME NEW piece \in Piece, TextDelta(piece)
      PROVE  Extends
  <2>1. CASE currentTextMessage # 0
    <3>1. currentTextMessage \in DOMAIN messages /\ messages[currentTextMessage] \in Message
      BY <2>1 DEF ParserInv, ParserTypeOK, Refs
    <3> DEFINE m == [messages[currentTextMessage] EXCEPT !.text = Append(@, piece)]
    <3>2. Append(messages[currentTextMessage].text, piece) \in Seq(Piece)
      BY <3>1 DEF Message
    <3>3. /\ m \in Message /\ m.type = messages[currentTextMessage].type
          /\ m.id = messages[currentTextMessage].id
          /\ m.result = messages[currentTextMessage].result
      BY <3>1, <3>2 DEF Message
    <3>4. messages' = [messages EXCEPT ![currentTextMessage] = m]
      BY <1>9, <2>1 DEF TextDelta
    <3> HIDE DEF m
    <3> QED BY <1>7, <3>1, <3>3, <3>4
  <2>2. CASE currentTextMessage = 0
    BY <1>1, <1>9, <2>2 DEF TextDelta
  <2> QED BY <2>1, <2>2
<1>10. ASSUME NEW piece \in Piece, InputJsonDelta(piece)
       PROVE  Extends
  BY <1>1, <1>10 DEF InputJsonDelta
<1> QED BY <1>1, <1>2, <1>3, <1>4, <1>5, <1>6, <1>8, <1>9, <1>10 DEF parserVars

(* Every step of a conversation keeps the answers with their calls. *)
LEMMA AnswerStep ==
  ASSUME ParserInv, ChatTypes, AnswerInv, [ChatNext]_vars
  PROVE  AnswerInv'
<1>0. Block \in Nat
  BY DEF ChatTypes, Block
<1>a. ASSUME UNCHANGED answers, blocks' = blocks \/ Len(blocks') = Len(blocks) + 1,
             calls' \subseteq AskedIds',
             \/ UNCHANGED parserVars \/ SystemInit \/ AddUserInput \/ FinalizeCurrentContent
             \/ StartText \/ BlockStop
             \/ \E isError \in BOOLEAN : Result(isError)
             \/ \E piece \in Piece : TextDelta(piece) \/ InputJsonDelta(piece)
      PROVE  AnswerInv'
  <2>1. AskedIds \subseteq AskedIds'
    BY <1>a, <1>0 DEF AskedIds, Block
  <2> QED BY <1>a, <2>1, OtherLinesExtend, Extended
<1>b. ASSUME UNCHANGED blocks, calls' \subseteq calls
      PROVE  calls' \subseteq AskedIds'
  BY <1>b DEF AnswerInv, AskedIds, Block
<1>1. CASE UNCHANGED vars
  BY <1>1, <1>a, <1>b DEF vars, claudeVars, history
<1>2. CASE UserTypes
  BY <1>2, <1>a, <1>b DEF UserTypes, claudeVars, history
<1>3. CASE ClaudeInit
  BY <1>3, <1>a, <1>b DEF ClaudeInit, Send, Lose
<1>4. CASE ClaudeMessageStart
  BY <1>4, <1>a, <1>b DEF ClaudeMessageStart, Send, Lose, OtherLine
<1>5. CASE ClaudeBlockStop
  BY <1>5, <1>a, <1>b DEF ClaudeBlockStop, SendOfBlock, Lose
<1>6. CASE ClaudeMessageStop
  BY <1>6, <1>a, <1>b DEF ClaudeMessageStop, Send, Lose, MessageStop
<1>7. CASE ClaudeSnapshot
  BY <1>7, <1>a, <1>b DEF ClaudeSnapshot, Lose, Assistant, claudeVars
<1>8. ASSUME NEW kind \in {"text", "tool_use"}, ClaudeBlockStart(kind)
      PROVE  AnswerInv'
  <2>1. /\ Len(blocks') = Len(blocks) + 1 /\ UNCHANGED answers
        /\ calls' \subseteq calls \cup {CallId(Block + 1)}
    BY <1>8 DEF ClaudeBlockStart, ChatTypes
  <2>2. AskedIds' = AskedIds \cup {CallId(Block + 1)}
    <3>1. Block' = Block + 1 /\ 1 .. Block + 1 = (1 .. Block) \cup {Block + 1}
      BY <2>1, <1>0 DEF Block
    <3> QED BY <3>1 DEF AskedIds, CallId
  <2>3. calls' \subseteq AskedIds'
    BY <2>1, <2>2 DEF AnswerInv
  <2>4. CASE UNCHANGED parserVars \/ StartText
    BY <2>1, <2>3, <2>4, <1>a
  <2>5. CASE StartToolUse(CallId(Block + 1))
    <3> DEFINE id == CallId(Block + 1)
               m == NewMessage("tool_call", id)
               new == Len(messages) + 1
    <3>1. id \in ToolId /\ id \notin AskedIds
      BY <1>0, CallIds DEF AskedIds
    <3>2. m \in Message /\ m.type = "tool_call" /\ m.id = id /\ m.result = "none"
      BY <3>1, NewMessageType DEF NewMessage
    <3>3. messages' = Append(FinalizedMessages, m)
      BY <2>5 DEF StartToolUse
    <3> HIDE DEF m, id
    <3>4. /\ DOMAIN messages' = DOMAIN messages \cup {new} /\ new \notin DOMAIN messages
          /\ messages'[new] = m
          /\ \A i \in DOMAIN messages : messages'[i] = FinalizedMessages[i]
      BY <3>2, <3>3, Finalized, Pushed DEF ParserInv, ParserTypeOK
    <3>5. \A i \in DOMAIN messages : /\ messages'[i].type = messages[i].type
                                     /\ messages'[i].id = messages[i].id
                                     /\ messages'[i].result = messages[i].result
      BY <3>4, FinalizedSame
    <3>6. AskedIds' = AskedIds \cup {id}
      BY <2>2 DEF id
    <3>7. id \notin DOMAIN answers
      BY <3>1 DEF AnswerInv
    <3>8. ASSUME NEW i \in DOMAIN messages', IsCall(i)'
          PROVE  /\ messages'[i].id \in AskedIds'
                 /\ messages'[i].result =
                      IF messages'[i].id \in DOMAIN answers' THEN answers'[messages'[i].id] ELSE "none"
                 /\ \A j \in DOMAIN messages' :
                      IsCall(j)' /\ messages'[j].id = messages'[i].id => j = i
      <4>1. CASE i = new
        BY <4>1, <2>1, <3>1, <3>2, <3>4, <3>5, <3>6, <3>7 DEF AnswerInv, IsCall
      <4>2. CASE i \in DOMAIN messages
        BY <4>2, <3>8, <2>1, <3>1, <3>2, <3>4, <3>5, <3>6 DEF AnswerInv, IsCall
      <4> QED BY <3>4, <4>1, <4>2
    <3> QED BY <2>1, <2>3, <3>6, <3>8 DEF AnswerInv
  <2> QED BY <1>8, <2>4, <2>5 DEF ClaudeBlockStart, Lose
<1>9. ASSUME NEW last \in BOOLEAN, ClaudeBlockDelta(last)
      PROVE  AnswerInv'
  <2>1. NextPiece(last) \in Piece
    BY <1>9, NextPieceType DEF ClaudeBlockDelta
  <2>2. Len(blocks') = Len(blocks) /\ UNCHANGED <<calls, answers>>
    BY <1>9 DEF ClaudeBlockDelta, ChatTypes
  <2>3. \/ UNCHANGED parserVars
        \/ \E piece \in Piece : TextDelta(piece) \/ InputJsonDelta(piece)
    BY <1>9, <2>1 DEF ClaudeBlockDelta, SendOfBlock, Lose
  <2>4. AskedIds' = AskedIds
    BY <2>2 DEF AskedIds, Block
  <2> QED BY <2>2, <2>3, <2>4, OtherLinesExtend, Extended DEF AnswerInv
<1>10. ASSUME NEW stopReason \in StopReason, ClaudeMessageDelta(stopReason)
       PROVE  AnswerInv'
  BY <1>10, <1>a, <1>b DEF ClaudeMessageDelta, Send, Lose, MessageDelta
<1>11. ASSUME NEW S \in SUBSET calls, NEW results \in [S -> {"ok", "error"}],
              ClaudeToolResults(results)
       PROVE  AnswerInv'
  <2>1. calls' \subseteq AskedIds' /\ AskedIds' = AskedIds
    BY <1>11, <1>b DEF ClaudeToolResults, AskedIds, Block
  <2>2. CASE UNCHANGED <<parserVars, answers>>
    BY <1>11, <1>a, <2>1, <2>2 DEF ClaudeToolResults
  <2>3. CASE /\ ToolResults(results)
             /\ answers' = [id \in DOMAIN answers \cup DOMAIN results |->
                              IF id \in DOMAIN results THEN results[id] ELSE answers[id]]
    <3>1. DOMAIN answers' \subseteq AskedIds
      BY <2>3 DEF AnswerInv
    <3>2. ASSUME NEW i \in DOMAIN messages
          PROVE  /\ i \in DOMAIN messages'
                 /\ messages'[i].type = messages[i].type /\ messages'[i].id = messages[i].id
                 /\ IsCall(i) => messages'[i].result =
                      IF messages[i].id \in DOMAIN results THEN results[messages[i].id]
                      ELSE messages[i].result
      <4>0. i \in DOMAIN messages' /\ messages[i] \in Message /\ DOMAIN messages = 1 .. Len(messages)
        BY <2>3 DEF ToolResults, ParserInv, ParserTypeOK
      <4>1. IsCall(i) => FirstCall(i, messages[i].id)
        BY <4>0 DEF AnswerInv, FirstCall, IsCall
      <4>2. CASE messages[i].id \in DOMAIN results /\ FirstCall(i, messages[i].id)
        <5>1. messages'[i] = [messages[i] EXCEPT !.result = results[messages[i].id]]
          BY <2>3, <4>2 DEF ToolResults
        <5> QED BY <4>0, <4>2, <5>1 DEF Message
      <4>3. CASE ~(messages[i].id \in DOMAIN results /\ FirstCall(i, messages[i].id))
        BY <2>3, <4>0, <4>1, <4>3 DEF ToolResults
      <4> QED BY <4>2, <4>3
    <3>3. DOMAIN messages' = DOMAIN messages
      BY <2>3 DEF ToolResults
    <3> QED BY <2>1, <2>3, <3>1, <3>2, <3>3 DEF AnswerInv, IsCall
  <2> QED BY <1>11, <2>2, <2>3 DEF ClaudeToolResults, Lose
<1>12. ASSUME NEW isError \in BOOLEAN, ClaudeResult(isError)
       PROVE  AnswerInv'
  BY <1>12, <1>a, <1>b DEF ClaudeResult, Lose
<1> QED
  BY <1>1, <1>2, <1>3, <1>4, <1>5, <1>6, <1>7, <1>8, <1>9, <1>10, <1>11, <1>12
    DEF ChatNext, Claude

(* A tool call shows the answer that came for it, and spins until then, however many  *)
(* calls are under way and whatever is lost (message-parser.ts, ToolCallMessage.tsx). *)
THEOREM AnswersCorrect == ChatSpec => []AnswersShown
<1>1. ChatInit => AnswerInv
  BY DEF ChatInit, Init, AnswerInv
<1>2. ParserInv /\ ChatTypes /\ AnswerInv /\ [ChatNext]_vars => AnswerInv'
  BY AnswerStep
<1>3. ParserInv /\ ChatTypes /\ AnswerInv => AnswersShown
  <2> SUFFICES ASSUME ParserInv, ChatTypes, AnswerInv,
                      NEW i \in Rows, messages[i].type = "tool_call"
               PROVE  ToolIcon(messages[i]) =
                        IF messages[i].id \in DOMAIN answers
                        THEN IF answers[messages[i].id] = "ok" THEN "tick" ELSE "cross"
                        ELSE "spinner"
    BY DEF AnswersShown
  <2>1. /\ i \in DOMAIN messages
        /\ messages[i].result =
             IF messages[i].id \in DOMAIN answers THEN answers[messages[i].id] ELSE "none"
        /\ messages[i].id \in DOMAIN answers => answers[messages[i].id] \in {"ok", "error"}
    BY DEF Rows, AnswerInv, IsCall, ChatTypes
  <2> QED BY <2>1 DEF ToolIcon
<1> QED BY <1>1, <1>2, <1>3, ChatIsSpec, ParserCorrect, PTL DEF ChatSpec
=============================================================================
