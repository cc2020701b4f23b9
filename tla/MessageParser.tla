---------------------------- MODULE MessageParser ----------------------------
(***************************************************************************)
(* MessageParser (web-ui/src/lib/message-parser.ts): it makes the entries  *)
(* of the conversation out of the lines the agent prints, whatever lines   *)
(* come and in whatever order.                                             *)
(*                                                                         *)
(* A text and the JSON of a tool's input arrive in pieces; a piece is      *)
(* known by the block it is of and its place there.  currentTextMessage    *)
(* and currentToolCall are references into messages: 0 is null.            *)
(***************************************************************************)
EXTENDS Integers, Sequences

VARIABLES
  messages, currentTextMessage, currentToolCall, toolCallJsonBuffer, messageIdCounter

parserVars ==
  <<messages, currentTextMessage, currentToolCall, toolCallJsonBuffer, messageIdCounter>>

ToolId == {"tool"} \X Nat               \* Claude's ids of tool calls, ...
GeneratedId == {"msg"} \X Nat           \* ... and those of the parser
Piece == [of : Nat, n : Nat, last : BOOLEAN]
Input == Nat                            \* 0 is {}, else the block the input is of
StopReason == {"end_turn", "tool_use", "null"}

\* What a row is made of: isComplete is result # "none", isError is "error".
Message ==
  [ type        : {"system_info", "text", "tool_call", "user_input", "result"},
    id          : ToolId \cup GeneratedId,
    text        : Seq(Piece),
    isStreaming : BOOLEAN,
    input       : Input,
    result      : {"none", "ok", "error"} ]

\* Mutant: a tool call without `|| {}` for its input.
NewMessageUndefined(type, id) ==
  [type |-> type, id |-> id, text |-> <<>>, isStreaming |-> type = "text",
   input |-> IF type = "tool_call" THEN -1 ELSE 0, result |-> "none"]
NewMessage(type, id) ==
  [type |-> type, id |-> id, text |-> <<>>, isStreaming |-> type = "text",
   input |-> 0, result |-> "none"]

Init ==
  /\ messages = <<>>
  /\ currentTextMessage = 0 /\ currentToolCall = 0
  /\ toolCallJsonBuffer = <<>>
  /\ messageIdCounter = 0

GenerateId == <<"msg", messageIdCounter + 1>>

\* finalizeCurrentContent.  Mutant: the text is let go and goes on streaming.
FinalizedStreaming == messages
FinalizedMessages ==
  [i \in DOMAIN messages |->
     IF i = currentTextMessage THEN [messages[i] EXCEPT !.isStreaming = FALSE] ELSE messages[i]]
FinalizedBuffer == IF currentToolCall # 0 THEN <<>> ELSE toolCallJsonBuffer

FinalizeCurrentContent ==
  /\ messages' = FinalizedMessages
  /\ currentTextMessage' = 0 /\ currentToolCall' = 0
  /\ toolCallJsonBuffer' = FinalizedBuffer
  /\ UNCHANGED messageIdCounter

----------------------------------------------------------------------------
(* processMessage, one action for each kind of line. *)

SystemInit ==
  /\ messages' = Append(messages, NewMessage("system_info", GenerateId))
  /\ messageIdCounter' = messageIdCounter + 1
  /\ UNCHANGED <<currentTextMessage, currentToolCall, toolCallJsonBuffer>>

\* The snapshot of a whole assistant message is only taken for its end.
Assistant == FinalizeCurrentContent

\* The first tool call with that id.  Mutant: the one being written.
CurrentCall(i, id) == i = currentToolCall
FirstCall(i, id) ==
  /\ messages[i].type = "tool_call" /\ messages[i].id = id
  /\ \A j \in 1 .. i - 1 : ~(messages[j].type = "tool_call" /\ messages[j].id = id)

\* A user line with the results of some tools, each ok or an error.
ToolResults(results) ==
  /\ messages' = [i \in DOMAIN messages |->
       IF messages[i].id \in DOMAIN results /\ FirstCall(i, messages[i].id)
       THEN [messages[i] EXCEPT !.result = results[messages[i].id]]
       ELSE messages[i]]
  /\ UNCHANGED <<currentTextMessage, currentToolCall, toolCallJsonBuffer, messageIdCounter>>

Result(isError) ==
  /\ messages' = Append(FinalizedMessages,
       [NewMessage("result", GenerateId) EXCEPT !.result = IF isError THEN "error" ELSE "ok"])
  /\ currentTextMessage' = 0 /\ currentToolCall' = 0
  /\ toolCallJsonBuffer' = FinalizedBuffer
  /\ messageIdCounter' = messageIdCounter + 1

----------------------------------------------------------------------------
(* handleStreamEvent. *)

StartText ==
  /\ messages' = Append(FinalizedMessages, NewMessage("text", GenerateId))
  /\ currentTextMessage' = Len(messages) + 1
  /\ currentToolCall' = 0
  /\ toolCallJsonBuffer' = FinalizedBuffer
  /\ messageIdCounter' = messageIdCounter + 1

\* Mutant: content_block_stop is thought to have ended the tool call before.
StartToolUseIfNone(id) ==
  /\ messages' = Append(FinalizedMessages, NewMessage("tool_call", id))
  /\ currentTextMessage' = 0
  /\ currentToolCall' = IF currentToolCall # 0 THEN currentToolCall ELSE Len(messages) + 1
  /\ toolCallJsonBuffer' = <<>>
  /\ UNCHANGED messageIdCounter
StartToolUse(id) ==
  /\ messages' = Append(FinalizedMessages, NewMessage("tool_call", id))
  /\ currentTextMessage' = 0
  /\ currentToolCall' = Len(messages) + 1
  /\ toolCallJsonBuffer' = <<>>
  /\ UNCHANGED messageIdCounter

\* The index of a delta is not looked at: it is for whatever is current.
TextDelta(piece) ==
  /\ messages' = IF currentTextMessage # 0
                 THEN [messages EXCEPT ![currentTextMessage].text = Append(@, piece)]
                 ELSE messages
  /\ UNCHANGED <<currentTextMessage, currentToolCall, toolCallJsonBuffer, messageIdCounter>>

InputJsonDelta(piece) ==
  /\ toolCallJsonBuffer' = IF currentToolCall # 0
                           THEN Append(toolCallJsonBuffer, piece)
                           ELSE toolCallJsonBuffer
  /\ UNCHANGED <<messages, currentTextMessage, currentToolCall, messageIdCounter>>

\* JSON.parse takes what is all of one input, and nothing else.
Parses(buffer) ==
  \A i \in DOMAIN buffer :
    /\ buffer[i].of = buffer[1].of /\ buffer[i].n = i
    /\ buffer[i].last = (i = Len(buffer))

\* A tool call gets its input; it stays the current one, and so does a text.
BlockStop ==
  /\ IF currentToolCall # 0 /\ toolCallJsonBuffer # <<>>
     THEN /\ messages' = IF Parses(toolCallJsonBuffer)
                         THEN [messages EXCEPT ![currentToolCall].input = toolCallJsonBuffer[1].of]
                         ELSE messages
          /\ toolCallJsonBuffer' = <<>>
     ELSE UNCHANGED <<messages, toolCallJsonBuffer>>
  /\ UNCHANGED <<currentTextMessage, currentToolCall, messageIdCounter>>

MessageDelta(stopReason) ==
  IF stopReason = "end_turn" THEN FinalizeCurrentContent ELSE UNCHANGED parserVars

MessageStop == FinalizeCurrentContent

\* Any other line: a message_start, another system line, no JSON.
OtherLine == UNCHANGED parserVars

----------------------------------------------------------------------------
(* What the page does itself. *)

\* Mutant: an input ends what the agent is writing.
AddUserInputEnds ==
  /\ messages' = Append(FinalizedMessages, NewMessage("user_input", GenerateId))
  /\ currentTextMessage' = 0 /\ currentToolCall' = 0
  /\ toolCallJsonBuffer' = FinalizedBuffer
  /\ messageIdCounter' = messageIdCounter + 1
AddUserInput ==
  /\ messages' = Append(messages, NewMessage("user_input", GenerateId))
  /\ messageIdCounter' = messageIdCounter + 1
  /\ UNCHANGED <<currentTextMessage, currentToolCall, toolCallJsonBuffer>>

\* clear(), and reset() of the store, which takes a new parser.
Clear ==
  /\ messages' = <<>>
  /\ currentTextMessage' = 0 /\ currentToolCall' = 0
  /\ toolCallJsonBuffer' = <<>>
  /\ messageIdCounter' = 0

Next ==
  \/ SystemInit \/ Assistant \/ StartText \/ BlockStop \/ MessageStop
  \/ \E results \in UNION { [S -> {"ok", "error"}] : S \in SUBSET ToolId } : ToolResults(results)
  \/ \E isError \in BOOLEAN : Result(isError)
  \/ \E id \in ToolId : StartToolUse(id)
  \/ \E piece \in Piece : TextDelta(piece) \/ InputJsonDelta(piece)
  \/ \E stopReason \in StopReason : MessageDelta(stopReason)
  \/ AddUserInput \/ Clear

Spec == Init /\ [][Next]_parserVars

----------------------------------------------------------------------------
(* What the rows show. *)

\* TextMessage: its cursor pulses while it is written.
Cursor(m) == m.type = "text" /\ m.isStreaming

\* ToolCallMessage: a spinner, a cross or a tick; what the tool is called with, or a
\* stand-in; and the output, under a button, once there is one.
ToolIcon(m) ==
  CASE m.result = "none"  -> "spinner"
    [] m.result = "error" -> "cross"
    [] m.result = "ok"    -> "tick"
ToolSummary(m) == IF m.input = 0 THEN "stand-in" ELSE "input"

\* MessageItem: system_info has no row.
Rows == { i \in DOMAIN messages : messages[i].type # "system_info" }

----------------------------------------------------------------------------
(* Properties. *)

Current == IF currentTextMessage # 0 THEN currentTextMessage ELSE currentToolCall

ParserTypeOK ==
  /\ messages \in Seq(Message)
  /\ currentTextMessage \in Nat /\ currentToolCall \in Nat
  /\ toolCallJsonBuffer \in Seq(Piece)
  /\ messageIdCounter \in Nat

\* The parser keeps what Transcript promises, whatever lines come: an entry that has
\* been written is not changed by what comes later, and one that streams is the last
\* one begun.
TheTranscript == INSTANCE Transcript WITH entries <- messages, open <- Current
ImplementsTranscript == TheTranscript!Spec
=============================================================================
