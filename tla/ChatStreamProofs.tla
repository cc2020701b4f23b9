--------------------------- MODULE ChatStreamProofs ---------------------------
(***************************************************************************)
(* Proofs about ChatStream, for conversations of any length and any lines  *)
(* lost: what Claude says in one block is not shown as part of another,    *)
(* and nothing of a block that was not cut is missing.                     *)
(***************************************************************************)
EXTENDS MessageParserProofs, FiniteSetTheorems

(* What the rows show, that these proofs are about, is kept by every line that comes *)
(* between the blocks; new entries have nothing to show yet.                         *)
SameContent(m, old) ==
  m.type = old.type /\ m.id = old.id /\ m.text = old.text /\ m.input = old.input

Grown ==
  /\ DOMAIN messages \subseteq DOMAIN messages'
  /\ \A i \in DOMAIN messages : SameContent(messages'[i], messages[i])
  /\ \A i \in DOMAIN messages' \ DOMAIN messages :
       messages'[i].text = <<>> /\ messages'[i].input = 0

(* What is current goes on, or is let go. *)
LetGo ==
  /\ currentTextMessage' \in {currentTextMessage, 0}
  /\ currentToolCall' \in {currentToolCall, 0}
  /\ toolCallJsonBuffer' \in {toolCallJsonBuffer, <<>>}

(* To finalize an entry changes nothing of its content. *)
LEMMA FinalizedContent ==
  ASSUME ParserInv, NEW i \in DOMAIN messages
  PROVE  SameContent(FinalizedMessages[i], messages[i])
<1>1. messages[i] \in Message
  BY DEF ParserInv, ParserTypeOK
<1> QED BY <1>1 DEF FinalizedMessages, Message, SameContent

(* An entry with nothing in it is added to the old ones. *)
LEMMA AddedGrows ==
  ASSUME ParserInv, NEW old \in Seq(Message), Len(old) = Len(messages),
         \A i \in DOMAIN messages : SameContent(old[i], messages[i]),
         NEW m \in Message, m.text = <<>>, m.input = 0, messages' = Append(old, m)
  PROVE  Grown
<1>1. DOMAIN old = DOMAIN messages
  BY DEF ParserInv, ParserTypeOK
<1>2. \A i \in DOMAIN messages : messages'[i] = old[i]
  BY <1>1, Pushed
<1>3. DOMAIN messages' = DOMAIN messages \cup {Len(old) + 1} /\ messages'[Len(old) + 1] = m
  BY <1>1, Pushed
<1> QED BY <1>2, <1>3 DEF Grown

(* The lines that start a block and those between blocks keep the content. *)
LEMMA LinesGrow ==
  ASSUME ParserInv,
         \/ UNCHANGED parserVars \/ SystemInit \/ AddUserInput \/ FinalizeCurrentContent
         \/ StartText
         \/ \E isError \in BOOLEAN : Result(isError)
         \/ \E id \in ToolId : StartToolUse(id)
  PROVE  Grown
<1>a. GenerateId \in GeneratedId
  BY DEF ParserInv, ParserTypeOK, GenerateId, GeneratedId
<1>b. /\ messages \in Seq(Message) /\ FinalizedMessages \in Seq(Message)
      /\ Len(FinalizedMessages) = Len(messages)
      /\ DOMAIN FinalizedMessages = DOMAIN messages
  BY Finalized DEF ParserInv, ParserTypeOK, FinalizedMessages
<1>c. ASSUME NEW type \in {"system_info", "user_input", "text", "result", "tool_call"},
             NEW id \in ToolId \cup GeneratedId
      PROVE  /\ NewMessage(type, id) \in Message
             /\ NewMessage(type, id).text = <<>> /\ NewMessage(type, id).input = 0
  BY NewMessageType DEF NewMessage
<1>d. \A i \in DOMAIN messages : SameContent(messages[i], messages[i])
  BY DEF SameContent
<1>1. CASE UNCHANGED parserVars
  BY <1>1, <1>d DEF Grown, parserVars
<1>2. CASE SystemInit
  BY <1>2, <1>a, <1>b, <1>c, <1>d, AddedGrows DEF SystemInit
<1>3. CASE AddUserInput
  BY <1>3, <1>a, <1>b, <1>c, <1>d, AddedGrows DEF AddUserInput
<1>4. CASE FinalizeCurrentContent
  BY <1>4, <1>b, FinalizedContent DEF FinalizeCurrentContent, Grown
<1>5. CASE StartText
  BY <1>5, <1>a, <1>b, <1>c, FinalizedContent, AddedGrows DEF StartText
<1>6. ASSUME NEW isError \in BOOLEAN, Result(isError)
      PROVE  Grown
  <2> DEFINE m == [NewMessage("result", GenerateId) EXCEPT !.result = IF isError THEN "error" ELSE "ok"]
  <2>1. NewMessage("result", GenerateId) \in Message
    BY <1>a, NewMessageType
  <2>2. m \in Message /\ m.text = <<>> /\ m.input = 0
    BY <2>1 DEF Message, NewMessage
  <2>3. messages' = Append(FinalizedMessages, m)
    BY <1>6 DEF Result
  <2> HIDE DEF m
  <2> QED BY <1>b, <2>2, <2>3, FinalizedContent, AddedGrows
<1>7. ASSUME NEW id \in ToolId, StartToolUse(id)
      PROVE  Grown
  <2>1. NewMessage("tool_call", id) \in Message
    BY NewMessageType
  <2>2. messages' = Append(FinalizedMessages, NewMessage("tool_call", id))
    BY <1>7 DEF StartToolUse
  <2>3. NewMessage("tool_call", id).text = <<>> /\ NewMessage("tool_call", id).input = 0
    BY DEF NewMessage
  <2> QED BY <1>b, <2>1, <2>2, <2>3, FinalizedContent, AddedGrows
<1> QED BY <1>1, <1>2, <1>3, <1>4, <1>5, <1>6, <1>7

(* The results of tools change no more than the results of entries. *)
LEMMA ResultsGrow ==
  ASSUME ParserInv, NEW results, ToolResults(results)
  PROVE  Grown
<1>1. DOMAIN messages' = DOMAIN messages
  BY DEF ToolResults
<1>2. ASSUME NEW i \in DOMAIN messages
      PROVE  SameContent(messages'[i], messages[i])
  <2>1. messages[i] \in Message
    BY DEF ParserInv, ParserTypeOK
  <2>2. \/ messages'[i] = messages[i]
        \/ messages'[i] = [messages[i] EXCEPT !.result = results[messages[i].id]]
    BY DEF ToolResults
  <2> QED BY <2>1, <2>2 DEF Message, SameContent
<1> QED BY <1>1, <1>2 DEF Grown

----------------------------------------------------------------------------
(* What is shown where. *)

(* The pieces of a text are in their order, and a block that follows another in it is *)
(* one whose first line was lost; all of them have been printed.                      *)
InOrder(text, lost) ==
  \A j, k \in DOMAIN text :
    j < k => \/ text[j].of < text[k].of /\ text[k].of \in lost
             \/ text[j].of = text[k].of /\ text[j].n < text[k].n
Printed(text, bs) ==
  \A k \in DOMAIN text : text[k].of \in DOMAIN bs /\ text[k].n <= bs[text[k].of].n
OfBlock(text, b) == \A k \in DOMAIN text : text[k].of = b
OwnInput(id, of, lost) == id = CallId(of) \/ of \in lost

RowsOwn ==
  \A i \in DOMAIN messages :
    /\ InOrder(messages[i].text, lostStarts) /\ Printed(messages[i].text, blocks)
    /\ messages[i].input # 0 => OwnInput(messages[i].id, messages[i].input, lostStarts)

(* Unless its first line was lost, the last block is what is current, if anything is. *)
CurrentOwn ==
  /\ currentTextMessage # 0 /\ Block \notin lostStarts =>
       OfBlock(messages[currentTextMessage].text, Block)
  /\ currentToolCall # 0 /\ Block \notin lostStarts =>
       messages[currentToolCall].id = CallId(Block)

(* The input that is being collected is of the current tool call. *)
BufferOwn ==
  \A k \in DOMAIN toolCallJsonBuffer :
    /\ toolCallJsonBuffer[k].of # 0
    /\ currentToolCall # 0 =>
         OwnInput(messages[currentToolCall].id, toolCallJsonBuffer[k].of, lostStarts)

OwnInv == RowsOwn /\ CurrentOwn /\ BufferOwn

(* Blocks only get more of them, and get longer. *)
LaterBlocks(bs, bs2) ==
  DOMAIN bs \subseteq DOMAIN bs2 /\ \A b \in DOMAIN bs : bs2[b].n >= bs[b].n

(* What was in order and printed stays so. *)
LEMMA TextKept ==
  ASSUME NEW text \in Seq(Piece), NEW lost, NEW lost2, lost \subseteq lost2,
         NEW bs \in Seq(BlockRecord), NEW bs2 \in Seq(BlockRecord), LaterBlocks(bs, bs2),
         InOrder(text, lost), Printed(text, bs)
  PROVE  InOrder(text, lost2) /\ Printed(text, bs2)
<1>1. InOrder(text, lost2)
  BY DEF InOrder
<1>2. ASSUME NEW k \in DOMAIN text
      PROVE  text[k].of \in DOMAIN bs2 /\ text[k].n <= bs2[text[k].of].n
  <2>1. text[k].of \in DOMAIN bs /\ text[k].n <= bs[text[k].of].n
    BY DEF Printed
  <2>2. text[k].of \in DOMAIN bs2 /\ bs2[text[k].of].n >= bs[text[k].of].n
    BY <2>1 DEF LaterBlocks
  <2>3. text[k] \in Piece /\ bs[text[k].of] \in BlockRecord /\ bs2[text[k].of] \in BlockRecord
    BY <2>1, <2>2
  <2>4. text[k].n \in Nat /\ bs[text[k].of].n \in Nat /\ bs2[text[k].of].n \in Nat
    BY <2>3 DEF Piece, BlockRecord
  <2> QED BY <2>1, <2>2, <2>4
<1> QED BY <1>1, <1>2 DEF Printed

(* The next piece of the last block comes after all that has been printed. *)
LEMMA TextAppended ==
  ASSUME NEW text \in Seq(Piece), NEW lost,
         NEW bs \in Seq(BlockRecord), NEW bs2 \in Seq(BlockRecord), LaterBlocks(bs, bs2),
         InOrder(text, lost), Printed(text, bs),
         NEW p \in Piece, p.of = Len(bs), p.of \in DOMAIN bs, p.n = bs[p.of].n + 1,
         bs2[p.of].n = p.n,
         p.of \in lost \/ OfBlock(text, p.of)
  PROVE  InOrder(Append(text, p), lost) /\ Printed(Append(text, p), bs2)
<1> DEFINE new == Append(text, p)
           l == Len(text)
<1>1. /\ DOMAIN new = DOMAIN text \cup {l + 1} /\ new[l + 1] = p /\ l \in Nat
      /\ DOMAIN text = 1 .. l /\ \A k \in DOMAIN text : new[k] = text[k]
  OBVIOUS
<1> HIDE DEF new, l
<1>2. ASSUME NEW j \in DOMAIN text
      PROVE  \/ text[j].of < p.of /\ p.of \in lost
             \/ text[j].of = p.of /\ text[j].n < p.n
  <2>1. text[j].of \in DOMAIN bs /\ text[j].n <= bs[text[j].of].n
    BY DEF Printed
  <2>2. text[j] \in Piece /\ bs[text[j].of] \in BlockRecord
    BY <2>1
  <2>3. text[j].n \in Nat /\ text[j].of \in Nat /\ bs[text[j].of].n \in Nat /\ text[j].of <= p.of
    BY <2>1, <2>2 DEF Piece, BlockRecord
  <2>4. CASE text[j].of = p.of
    BY <2>1, <2>3, <2>4
  <2>5. CASE text[j].of # p.of
    <3>1. p.of \in lost
      BY <2>5 DEF OfBlock
    <3> QED BY <2>3, <2>5, <3>1 DEF Piece
  <2> QED BY <2>4, <2>5
<1>3. ASSUME NEW j \in DOMAIN new, NEW k \in DOMAIN new, j < k
      PROVE  \/ new[j].of < new[k].of /\ new[k].of \in lost
             \/ new[j].of = new[k].of /\ new[j].n < new[k].n
  <2>1. j \in DOMAIN text
    BY <1>1, <1>3
  <2>2. CASE k \in DOMAIN text
    <3>1. new[j] = text[j] /\ new[k] = text[k]
      BY <1>1, <2>1, <2>2
    <3> QED BY <1>3, <2>1, <2>2, <3>1 DEF InOrder
  <2>3. CASE k = l + 1
    <3>1. new[j] = text[j] /\ new[k] = p
      BY <1>1, <2>1, <2>3
    <3> QED BY <1>2, <2>1, <3>1
  <2> QED BY <1>1, <2>2, <2>3
<1>4. ASSUME NEW k \in DOMAIN new
      PROVE  new[k].of \in DOMAIN bs2 /\ new[k].n <= bs2[new[k].of].n
  <2>1. CASE k \in DOMAIN text
    <3>1. new[k] = text[k]
      BY <1>1, <2>1
    <3>2. Printed(text, bs2)
      BY TextKept
    <3> QED BY <2>1, <3>1, <3>2 DEF Printed
  <2>2. CASE k = l + 1
    <3>1. new[k] = p /\ p.n \in Nat
      BY <1>1, <2>2 DEF Piece
    <3> QED BY <3>1 DEF LaterBlocks
  <2> QED BY <1>1, <2>1, <2>2
<1> QED BY <1>3, <1>4 DEF new, InOrder, Printed

(* The rows keep what is theirs when they keep their content. *)
LEMMA RowsKept ==
  ASSUME ParserInv, ChatTypes, ChatTypes', RowsOwn, Grown,
         LaterBlocks(blocks, blocks'), lostStarts \subseteq lostStarts'
  PROVE  RowsOwn'
<1>1. ASSUME NEW i \in DOMAIN messages'
      PROVE  /\ InOrder(messages'[i].text, lostStarts') /\ Printed(messages'[i].text, blocks')
             /\ messages'[i].input # 0 =>
                  OwnInput(messages'[i].id, messages'[i].input, lostStarts')
  <2>1. CASE i \in DOMAIN messages
    <3>1. SameContent(messages'[i], messages[i])
      BY <2>1 DEF Grown
    <3>2. messages[i].text \in Seq(Piece)
      <4>1. messages[i] \in Message
        BY <2>1 DEF ParserInv, ParserTypeOK
      <4> QED BY <4>1 DEF Message
    <3>3. InOrder(messages[i].text, lostStarts') /\ Printed(messages[i].text, blocks')
      BY <2>1, <3>2, TextKept DEF RowsOwn, ChatTypes
    <3>4. messages[i].input # 0 => OwnInput(messages[i].id, messages[i].input, lostStarts')
      BY <2>1 DEF RowsOwn, OwnInput
    <3> QED BY <3>1, <3>3, <3>4 DEF SameContent
  <2>2. CASE i \notin DOMAIN messages
    <3>1. messages'[i].text = <<>> /\ messages'[i].input = 0
      BY <2>2 DEF Grown
    <3> QED BY <3>1 DEF InOrder, Printed
  <2> QED BY <2>1, <2>2
<1> QED BY <1>1 DEF RowsOwn

(* Lines between blocks, and lost lines of blocks, put nothing into another's row. *)
LEMMA OwnKept ==
  ASSUME ParserInv, ChatTypes, ChatTypes', OwnInv, Grown, LetGo,
         LaterBlocks(blocks, blocks'), lostStarts \subseteq lostStarts',
         Block' = Block \/ Block' \in lostStarts'
  PROVE  OwnInv'
<1>1. RowsOwn'
  BY RowsKept DEF OwnInv
<1>2. /\ currentTextMessage' # 0 => /\ currentTextMessage' = currentTextMessage
                                    /\ currentTextMessage \in DOMAIN messages
      /\ currentToolCall' # 0 => /\ currentToolCall' = currentToolCall
                                 /\ currentToolCall \in DOMAIN messages
  BY DEF LetGo, ParserInv, Refs
<1>3. Block' \notin lostStarts' => Block' = Block /\ Block \notin lostStarts
  OBVIOUS
<1>4. CurrentOwn'
  BY <1>2, <1>3 DEF OwnInv, CurrentOwn, Grown, SameContent
<1>5. currentToolCall' # 0 => messages'[currentToolCall'].id = messages[currentToolCall].id
  BY <1>2 DEF Grown, SameContent
<1>6. \A k \in DOMAIN toolCallJsonBuffer' :
        k \in DOMAIN toolCallJsonBuffer /\ toolCallJsonBuffer'[k] = toolCallJsonBuffer[k]
  BY DEF LetGo
<1>7. BufferOwn'
  BY <1>2, <1>5, <1>6 DEF OwnInv, BufferOwn, OwnInput
<1> QED BY <1>1, <1>4, <1>7 DEF OwnInv

(* A step that prints no piece leaves the blocks as they are. *)
LEMMA SameBlocks ==
  ASSUME ChatTypes, UNCHANGED blocks
  PROVE  LaterBlocks(blocks, blocks') /\ Block' = Block
<1>1. ASSUME NEW b \in DOMAIN blocks
      PROVE  blocks[b].n \in Nat
  <2>1. blocks[b] \in BlockRecord
    BY DEF ChatTypes
  <2> QED BY <2>1 DEF BlockRecord
<1> QED BY <1>1 DEF LaterBlocks, Block

(* A block is begun after the others. *)
LEMMA BlockBegun ==
  ASSUME ChatTypes, NEW kind \in {"text", "tool_use"}, ClaudeBlockStart(kind)
  PROVE  /\ LaterBlocks(blocks, blocks') /\ Block' = Block + 1 /\ Block \in Nat
         /\ DOMAIN blocks' = DOMAIN blocks \cup {Block'}
         /\ \A b \in DOMAIN blocks : b <= Block /\ blocks'[b] = blocks[b]
         /\ blocks'[Block'] = [kind |-> kind, n |-> 0, whole |-> FALSE]
<1> DEFINE new == [kind |-> kind, n |-> 0, whole |-> FALSE]
<1>1. blocks' = Append(blocks, new) /\ blocks \in Seq(BlockRecord)
  BY DEF ClaudeBlockStart, ChatTypes
<1> HIDE DEF new
<1>2. /\ Len(blocks') = Len(blocks) + 1 /\ Len(blocks) \in Nat
      /\ DOMAIN blocks' = DOMAIN blocks \cup {Len(blocks) + 1}
      /\ \A b \in DOMAIN blocks : b <= Len(blocks) /\ blocks'[b] = blocks[b]
      /\ blocks'[Len(blocks) + 1] = new
  BY <1>1
<1>3. ASSUME NEW b \in DOMAIN blocks
      PROVE  blocks[b].n \in Nat
  <2>1. blocks[b] \in BlockRecord
    BY DEF ChatTypes
  <2> QED BY <2>1 DEF BlockRecord
<1>4. LaterBlocks(blocks, blocks')
  BY <1>2, <1>3 DEF LaterBlocks
<1> QED BY <1>2, <1>4 DEF Block, new

(* A piece makes the last block longer. *)
LEMMA BlockLonger ==
  ASSUME ChatTypes, NEW last \in BOOLEAN, ClaudeBlockDelta(last)
  PROVE  /\ LaterBlocks(blocks, blocks') /\ Block' = Block /\ Block \in Nat
         /\ DOMAIN blocks' = DOMAIN blocks /\ Block \in DOMAIN blocks
         /\ \A b \in DOMAIN blocks : b <= Block /\ (b # Block => blocks'[b] = blocks[b])
         /\ blocks[Block].n \in Nat /\ ~blocks[Block].whole
         /\ blocks'[Block].kind = blocks[Block].kind
         /\ blocks'[Block].n = blocks[Block].n + 1 /\ blocks'[Block].whole = last
<1> DEFINE new == [kind |-> blocks[Block].kind, n |-> blocks[Block].n + 1, whole |-> last]
<1>1. blocks' = [blocks EXCEPT ![Block] = new] /\ blocks \in Seq(BlockRecord)
      /\ Block \in DOMAIN blocks /\ ~blocks[Block].whole
  BY DEF ClaudeBlockDelta, ChatTypes
<1>2. ASSUME NEW b \in DOMAIN blocks
      PROVE  blocks[b].n \in Nat
  <2>1. blocks[b] \in BlockRecord
    BY DEF ChatTypes
  <2> QED BY <2>1 DEF BlockRecord
<1>3. new.n >= blocks[Block].n
  BY <1>1, <1>2
<1>4. /\ blocks' = [blocks EXCEPT ![Block] = new]
      /\ new.kind = blocks[Block].kind /\ new.n = blocks[Block].n + 1 /\ new.whole = last
  BY <1>1
<1> HIDE DEF new
<1>5. /\ DOMAIN blocks' = DOMAIN blocks /\ blocks'[Block] = new
      /\ \A b \in DOMAIN blocks : b # Block => blocks'[b] = blocks[b]
  BY <1>1, <1>4
<1>6. LaterBlocks(blocks, blocks')
  <2> SUFFICES ASSUME NEW b \in DOMAIN blocks PROVE blocks'[b].n >= blocks[b].n
    BY <1>5 DEF LaterBlocks
  <2> QED BY <1>2, <1>3, <1>5
<1>7. /\ Block \in Nat /\ DOMAIN blocks = 1 .. Block
      /\ Len(blocks') = Len(blocks)
  BY <1>1, <1>4 DEF Block
<1>8. \A b \in DOMAIN blocks : b <= Block
  BY <1>7
<1>9. Block' = Block
  BY <1>7 DEF Block
<1> QED BY <1>1, <1>2, <1>4, <1>5, <1>6, <1>7, <1>8, <1>9

(* A text that begins has an entry of its own, with nothing in it. *)
LEMMA OwnStartText ==
  ASSUME ParserInv, ChatTypes, ChatTypes', OwnInv,
         ClaudeBlockStart("text"), StartText, UNCHANGED lostStarts
  PROVE  OwnInv'
<1>1. Grown
  BY LinesGrow
<1>2. RowsOwn'
  BY <1>1, BlockBegun, RowsKept DEF OwnInv
<1>3. /\ currentTextMessage' = Len(messages) + 1 /\ currentToolCall' = 0
      /\ toolCallJsonBuffer' \in {toolCallJsonBuffer, <<>>}
  BY DEF StartText, FinalizedBuffer
<1>4. Len(messages) + 1 \in DOMAIN messages' \ DOMAIN messages
  <2>1. /\ FinalizedMessages \in Seq(Message) /\ Len(FinalizedMessages) = Len(messages)
        /\ messages \in Seq(Message)
    BY Finalized DEF ParserInv, ParserTypeOK
  <2>2. messages' = Append(FinalizedMessages, NewMessage("text", GenerateId))
    BY DEF StartText
  <2> QED BY <2>1, <2>2
<1>5. messages'[currentTextMessage'].text = <<>>
  BY <1>1, <1>3, <1>4 DEF Grown
<1>6. CurrentOwn'
  BY <1>3, <1>5 DEF CurrentOwn, OfBlock
<1>7. BufferOwn'
  BY <1>3 DEF OwnInv, BufferOwn
<1> QED BY <1>2, <1>6, <1>7 DEF OwnInv

(* A tool call that begins has an entry of its own, and no input yet. *)
LEMMA OwnStartToolUse ==
  ASSUME ParserInv, ChatTypes, ChatTypes', OwnInv,
         ClaudeBlockStart("tool_use"), StartToolUse(CallId(Block + 1)), UNCHANGED lostStarts
  PROVE  OwnInv'
<1>0. CallId(Block + 1) \in ToolId
  BY CallIds DEF Block, ChatTypes
<1>1. Grown
  BY <1>0, LinesGrow
<1>2. RowsOwn' /\ Block' = Block + 1
  BY <1>1, BlockBegun, RowsKept DEF OwnInv
<1>3. /\ currentTextMessage' = 0 /\ currentToolCall' = Len(messages) + 1
      /\ toolCallJsonBuffer' = <<>>
  BY DEF StartToolUse
<1>4. messages'[Len(messages) + 1] = NewMessage("tool_call", CallId(Block + 1))
  <2>1. /\ FinalizedMessages \in Seq(Message) /\ Len(FinalizedMessages) = Len(messages)
    BY Finalized
  <2>2. messages' = Append(FinalizedMessages, NewMessage("tool_call", CallId(Block + 1)))
    BY DEF StartToolUse
  <2> QED BY <2>1, <2>2
<1>5. messages'[currentToolCall'].id = CallId(Block')
  BY <1>2, <1>3, <1>4 DEF NewMessage
<1>6. CurrentOwn'
  BY <1>3, <1>5 DEF CurrentOwn
<1>7. BufferOwn'
  BY <1>3 DEF BufferOwn
<1> QED BY <1>2, <1>6, <1>7 DEF OwnInv

(* A piece of text goes to the current text, behind what is there. *)
LEMMA TextPut ==
  ASSUME ParserInv, currentTextMessage # 0, NEW piece \in Piece, TextDelta(piece)
  PROVE  /\ currentTextMessage \in DOMAIN messages /\ currentToolCall = 0
         /\ messages[currentTextMessage].text \in Seq(Piece)
         /\ DOMAIN messages' = DOMAIN messages
         /\ \A i \in DOMAIN messages : i # currentTextMessage => messages'[i] = messages[i]
         /\ messages'[currentTextMessage].text = Append(messages[currentTextMessage].text, piece)
         /\ messages'[currentTextMessage].id = messages[currentTextMessage].id
         /\ messages'[currentTextMessage].input = messages[currentTextMessage].input
         /\ messages'[currentTextMessage].type = messages[currentTextMessage].type
         /\ UNCHANGED <<currentTextMessage, currentToolCall, toolCallJsonBuffer>>
<1> DEFINE m == [messages[currentTextMessage] EXCEPT !.text = Append(@, piece)]
<1>1. currentTextMessage \in DOMAIN messages /\ currentToolCall = 0
  BY DEF ParserInv, Refs
<1>2. messages[currentTextMessage] \in Message
  BY <1>1 DEF ParserInv, ParserTypeOK
<1>3. messages[currentTextMessage].text \in Seq(Piece)
  BY <1>2 DEF Message
<1>4. /\ m.text = Append(messages[currentTextMessage].text, piece)
      /\ m.id = messages[currentTextMessage].id /\ m.input = messages[currentTextMessage].input
      /\ m.type = messages[currentTextMessage].type
  BY <1>2 DEF Message
<1>5. messages' = [messages EXCEPT ![currentTextMessage] = m]
  BY DEF TextDelta
<1>6. UNCHANGED <<currentTextMessage, currentToolCall, toolCallJsonBuffer>>
  BY DEF TextDelta
<1> HIDE DEF m
<1> QED BY <1>1, <1>3, <1>4, <1>5, <1>6

(* The current text gets the next piece of its own block, or of one whose first line was *)
(* lost.                                                                                 *)
LEMMA OwnTextDelta ==
  ASSUME ParserInv, ChatTypes, ChatTypes', OwnInv, currentTextMessage # 0,
         NEW last \in BOOLEAN, ClaudeBlockDelta(last), TextDelta(NextPiece(last)),
         UNCHANGED lostStarts
  PROVE  OwnInv'
<1> DEFINE p == NextPiece(last)
           c == currentTextMessage
<1>1. p \in Piece
  BY NextPieceType DEF ClaudeBlockDelta
<1>2. p.of = Block /\ p.n = blocks[Block].n + 1
  BY DEF NextPiece
<1>4. TextDelta(p)
  OBVIOUS
<1> HIDE DEF p
<1>3. /\ LaterBlocks(blocks, blocks') /\ Block' = Block /\ Block \in DOMAIN blocks
      /\ blocks'[Block].n = p.n
  <2>1. /\ LaterBlocks(blocks, blocks') /\ Block' = Block /\ Block \in DOMAIN blocks
        /\ blocks'[Block].n = blocks[Block].n + 1
    BY BlockLonger
  <2> QED BY <1>2, <2>1
<1>5. /\ c \in DOMAIN messages /\ currentToolCall = 0
      /\ messages[c].text \in Seq(Piece)
      /\ DOMAIN messages' = DOMAIN messages
      /\ \A i \in DOMAIN messages : i # c => messages'[i] = messages[i]
      /\ messages'[c].text = Append(messages[c].text, p)
      /\ messages'[c].id = messages[c].id /\ messages'[c].input = messages[c].input
      /\ UNCHANGED <<currentTextMessage, currentToolCall, toolCallJsonBuffer>>
  BY <1>1, <1>4, TextPut
<1>6. Block \in lostStarts \/ OfBlock(messages[c].text, Block)
  BY DEF OwnInv, CurrentOwn
<1> HIDE DEF c
<1>7. ASSUME NEW i \in DOMAIN messages
      PROVE  /\ InOrder(messages'[i].text, lostStarts') /\ Printed(messages'[i].text, blocks')
             /\ messages'[i].input # 0 =>
                  OwnInput(messages'[i].id, messages'[i].input, lostStarts')
  <2>1. /\ InOrder(messages[i].text, lostStarts) /\ Printed(messages[i].text, blocks)
        /\ messages[i].input # 0 => OwnInput(messages[i].id, messages[i].input, lostStarts)
    BY DEF OwnInv, RowsOwn
  <2>2. messages[i].text \in Seq(Piece)
    <3>1. messages[i] \in Message
      BY DEF ParserInv, ParserTypeOK
    <3> QED BY <3>1 DEF Message
  <2>3. CASE i # c
    <3>1. InOrder(messages[i].text, lostStarts') /\ Printed(messages[i].text, blocks')
      BY <1>3, <2>1, <2>2, TextKept DEF ChatTypes
    <3> QED BY <1>5, <2>1, <2>3, <3>1
  <2>4. CASE i = c
    <3>1. /\ blocks \in Seq(BlockRecord) /\ blocks' \in Seq(BlockRecord) /\ Block = Len(blocks)
      BY DEF ChatTypes, Block
    <3>2. /\ InOrder(Append(messages[c].text, p), lostStarts)
          /\ Printed(Append(messages[c].text, p), blocks')
      <4>1. /\ messages[c].text \in Seq(Piece)
            /\ InOrder(messages[c].text, lostStarts) /\ Printed(messages[c].text, blocks)
        BY <1>5, <2>1, <2>4
      <4>2. /\ p.of = Len(blocks) /\ p.of \in DOMAIN blocks /\ p.n = blocks[p.of].n + 1
            /\ blocks'[p.of].n = p.n
        BY <1>2, <1>3, <3>1
      <4>3. p.of \in lostStarts \/ OfBlock(messages[c].text, p.of)
        BY <1>2, <1>6
      <4> QED BY <1>1, <1>3, <3>1, <4>1, <4>2, <4>3, TextAppended
    <3> QED BY <1>5, <2>1, <2>4, <3>2
  <2> QED BY <2>3, <2>4
<1>8. RowsOwn'
  BY <1>5, <1>7 DEF RowsOwn
<1>9. OfBlock(messages[c].text, Block) => OfBlock(messages'[c].text, Block)
  BY <1>2, <1>5 DEF OfBlock
<1>10. CurrentOwn'
  BY <1>3, <1>5, <1>6, <1>9 DEF CurrentOwn, c
<1>11. BufferOwn'
  BY <1>5 DEF OwnInv, BufferOwn
<1> QED BY <1>8, <1>10, <1>11 DEF OwnInv

(* The input that is collected gets the next piece of its own block, or of one whose *)
(* first line was lost.                                                              *)
LEMMA OwnInputDelta ==
  ASSUME ParserInv, ChatTypes, ChatTypes', OwnInv,
         NEW last \in BOOLEAN, ClaudeBlockDelta(last), InputJsonDelta(NextPiece(last)),
         UNCHANGED lostStarts
  PROVE  OwnInv'
<1> DEFINE p == NextPiece(last)
<1>1. p \in Piece /\ p.of = Block /\ Block \in Nat /\ Block \in DOMAIN blocks
  <2>1. p \in Piece
    BY NextPieceType DEF ClaudeBlockDelta
  <2>2. Block \in Nat /\ Block \in DOMAIN blocks
    BY BlockLonger
  <2> QED BY <2>1, <2>2 DEF NextPiece
<1>2. /\ UNCHANGED <<messages, currentTextMessage, currentToolCall>>
      /\ toolCallJsonBuffer' \in {toolCallJsonBuffer, Append(toolCallJsonBuffer, p)}
      /\ currentToolCall = 0 => toolCallJsonBuffer' = toolCallJsonBuffer
  BY DEF InputJsonDelta
<1> HIDE DEF p
<1>3. /\ LaterBlocks(blocks, blocks') /\ Block' = Block
  BY BlockLonger
<1>4. Grown
  BY <1>2 DEF Grown, SameContent
<1>5. RowsOwn'
  BY <1>3, <1>4, RowsKept DEF OwnInv
<1>6. CurrentOwn'
  BY <1>2, <1>3 DEF OwnInv, CurrentOwn
<1>7. Block # 0
  BY <1>1 DEF Block, ChatTypes
<1>8. ASSUME NEW k \in DOMAIN toolCallJsonBuffer'
      PROVE  /\ toolCallJsonBuffer'[k].of # 0
             /\ currentToolCall # 0 =>
                  OwnInput(messages[currentToolCall].id, toolCallJsonBuffer'[k].of, lostStarts)
  <2>1. \/ k \in DOMAIN toolCallJsonBuffer /\ toolCallJsonBuffer'[k] = toolCallJsonBuffer[k]
        \/ currentToolCall # 0 /\ toolCallJsonBuffer'[k] = p
    <3>1. toolCallJsonBuffer \in Seq(Piece)
      BY DEF ParserInv, ParserTypeOK
    <3> QED BY <1>2, <1>8, <3>1
  <2>2. CASE k \in DOMAIN toolCallJsonBuffer /\ toolCallJsonBuffer'[k] = toolCallJsonBuffer[k]
    BY <2>2 DEF OwnInv, BufferOwn
  <2>3. CASE currentToolCall # 0 /\ toolCallJsonBuffer'[k] = p
    BY <1>1, <1>7, <2>3 DEF OwnInv, CurrentOwn, OwnInput
  <2> QED BY <2>1, <2>2, <2>3
<1>9. BufferOwn'
  BY <1>2, <1>8 DEF BufferOwn
<1> QED BY <1>5, <1>6, <1>9 DEF OwnInv

(* The end of a block changes no more than the input of the current tool call. *)
LEMMA InputPut ==
  ASSUME ParserInv, BlockStop
  PROVE  /\ DOMAIN messages' = DOMAIN messages
         /\ UNCHANGED <<currentTextMessage, currentToolCall>>
         /\ toolCallJsonBuffer' \in {toolCallJsonBuffer, <<>>}
         /\ \A i \in DOMAIN messages :
              \/ messages'[i] = messages[i]
              \/ /\ i = currentToolCall /\ currentToolCall # 0
                 /\ 1 \in DOMAIN toolCallJsonBuffer
                 /\ messages'[i].input = toolCallJsonBuffer[1].of
                 /\ messages'[i].type = messages[i].type /\ messages'[i].id = messages[i].id
                 /\ messages'[i].text = messages[i].text
<1>1. CASE /\ currentToolCall # 0 /\ toolCallJsonBuffer # <<>>
           /\ messages' = [messages EXCEPT ![currentToolCall].input = toolCallJsonBuffer[1].of]
           /\ toolCallJsonBuffer' = <<>>
  <2>1. currentToolCall \in DOMAIN messages
    BY <1>1 DEF ParserInv, Refs
  <2>2. messages[currentToolCall] \in Message
    BY <2>1 DEF ParserInv, ParserTypeOK
  <2>3. 1 \in DOMAIN toolCallJsonBuffer
    BY <1>1 DEF ParserInv, ParserTypeOK
  <2> DEFINE m == [messages[currentToolCall] EXCEPT !.input = toolCallJsonBuffer[1].of]
  <2>4. /\ m.input = toolCallJsonBuffer[1].of /\ m.type = messages[currentToolCall].type
        /\ m.id = messages[currentToolCall].id /\ m.text = messages[currentToolCall].text
    BY <2>2 DEF Message
  <2>5. messages' = [messages EXCEPT ![currentToolCall] = m]
    BY <1>1
  <2> HIDE DEF m
  <2>6. UNCHANGED <<currentTextMessage, currentToolCall>>
    BY DEF BlockStop
  <2> QED BY <1>1, <2>1, <2>3, <2>4, <2>5, <2>6
<1>2. CASE UNCHANGED messages
  <2>1. toolCallJsonBuffer' = <<>> \/ toolCallJsonBuffer' = toolCallJsonBuffer
    BY Zenon DEF BlockStop
  <2>2. UNCHANGED <<currentTextMessage, currentToolCall>>
    BY DEF BlockStop
  <2> QED BY <1>2, <2>1, <2>2
<1> QED BY <1>1, <1>2 DEF BlockStop

(* A tool call gets its own input, or that of a block whose first line was lost. *)
LEMMA OwnBlockStop ==
  ASSUME ParserInv, ChatTypes, ChatTypes', OwnInv, BlockStop, UNCHANGED <<blocks, lostStarts>>
  PROVE  OwnInv'
<1>1. ASSUME NEW i \in DOMAIN messages
      PROVE  /\ messages'[i].text = messages[i].text /\ messages'[i].id = messages[i].id
             /\ messages'[i].input # 0 => OwnInput(messages[i].id, messages'[i].input, lostStarts)
  BY <1>1, InputPut DEF OwnInv, RowsOwn, BufferOwn
<1>2. /\ DOMAIN messages' = DOMAIN messages
      /\ UNCHANGED <<currentTextMessage, currentToolCall>>
      /\ toolCallJsonBuffer' \in {toolCallJsonBuffer, <<>>}
  BY InputPut
<1>3. RowsOwn'
  BY <1>1, <1>2 DEF OwnInv, RowsOwn
<1>4. /\ currentTextMessage \in {0} \cup DOMAIN messages
      /\ currentToolCall \in {0} \cup DOMAIN messages
  BY DEF ParserInv, Refs
<1>5. CurrentOwn'
  BY <1>1, <1>2, <1>4 DEF OwnInv, CurrentOwn, Block
<1>6. BufferOwn'
  BY <1>1, <1>2, <1>4 DEF OwnInv, BufferOwn
<1> QED BY <1>3, <1>5, <1>6 DEF OwnInv

(* Every step of a conversation leaves each block's content in its own row. *)
LEMMA OwnStep ==
  ASSUME ParserInv, ChatTypes, ChatTypes', OwnInv, [ChatNext]_vars
  PROVE  OwnInv'
<1>1. ASSUME Grown, LetGo, UNCHANGED <<blocks, lostStarts>>
      PROVE  OwnInv'
  BY <1>1, SameBlocks, OwnKept
<1>2. ASSUME UNCHANGED parserVars \/ SystemInit \/ AddUserInput \/ FinalizeCurrentContent
               \/ \E isError \in BOOLEAN : Result(isError)
      PROVE  Grown /\ LetGo
  <2>1. LetGo
    BY <1>2 DEF LetGo, parserVars, SystemInit, AddUserInput, FinalizeCurrentContent, Result,
                FinalizedBuffer
  <2> QED BY <1>2, <2>1, LinesGrow
<1>3. CASE UNCHANGED vars
  BY <1>1, <1>2, <1>3 DEF vars, claudeVars, history
<1>4. CASE UserTypes
  BY <1>1, <1>2, <1>4 DEF UserTypes, claudeVars, history
<1>5. CASE ClaudeInit
  BY <1>1, <1>2, <1>5 DEF ClaudeInit, Send, Lose
<1>6. CASE ClaudeMessageStart
  BY <1>1, <1>2, <1>6 DEF ClaudeMessageStart, Send, Lose, OtherLine
<1>7. CASE ClaudeBlockStop
  BY <1>1, <1>2, <1>7, OwnBlockStop DEF ClaudeBlockStop, SendOfBlock, Lose
<1>8. CASE ClaudeMessageStop
  BY <1>1, <1>2, <1>8 DEF ClaudeMessageStop, Send, Lose, MessageStop
<1>9. CASE ClaudeSnapshot
  BY <1>1, <1>2, <1>9 DEF ClaudeSnapshot, Lose, Assistant, claudeVars
<1>10. ASSUME NEW kind \in {"text", "tool_use"}, ClaudeBlockStart(kind)
       PROVE  OwnInv'
  <2>1. CASE kind = "text" /\ StartText /\ UNCHANGED lostStarts
    BY <1>10, <2>1, OwnStartText
  <2>2. CASE kind = "tool_use" /\ StartToolUse(CallId(Block + 1)) /\ UNCHANGED lostStarts
    BY <1>10, <2>2, OwnStartToolUse
  <2>3. CASE UNCHANGED parserVars /\ lostStarts' = lostStarts \cup {Block + 1}
    BY <1>2, <1>10, <2>3, BlockBegun, OwnKept
  <2> QED BY <1>10, <2>1, <2>2, <2>3 DEF ClaudeBlockStart, Lose
<1>11. ASSUME NEW last \in BOOLEAN, ClaudeBlockDelta(last)
       PROVE  OwnInv'
  <2>1. UNCHANGED lostStarts
    BY <1>11 DEF ClaudeBlockDelta, SendOfBlock
  <2>2. CASE UNCHANGED parserVars
    BY <1>2, <1>11, <2>1, <2>2, BlockLonger, OwnKept
  <2>3. CASE TextDelta(NextPiece(last))
    <3>1. CASE currentTextMessage = 0
      BY <2>2, <2>3, <3>1 DEF TextDelta, parserVars
    <3> QED BY <1>11, <2>1, <2>3, <3>1, OwnTextDelta
  <2>4. CASE InputJsonDelta(NextPiece(last))
    BY <1>11, <2>1, <2>4, OwnInputDelta
  <2> QED BY <1>11, <2>2, <2>3, <2>4 DEF ClaudeBlockDelta, SendOfBlock, Lose
<1>12. ASSUME NEW stopReason \in StopReason, ClaudeMessageDelta(stopReason)
       PROVE  OwnInv'
  BY <1>1, <1>2, <1>12 DEF ClaudeMessageDelta, Send, Lose, MessageDelta
<1>13. ASSUME NEW S \in SUBSET calls, NEW results \in [S -> {"ok", "error"}],
              ClaudeToolResults(results)
       PROVE  OwnInv'
  <2>1. ToolResults(results) => Grown /\ LetGo
    BY ResultsGrow DEF ToolResults, LetGo
  <2> QED BY <1>1, <1>2, <1>13, <2>1 DEF ClaudeToolResults, Lose
<1>14. ASSUME NEW isError \in BOOLEAN, ClaudeResult(isError)
       PROVE  OwnInv'
  BY <1>1, <1>2, <1>14 DEF ClaudeResult, Lose
<1> QED
  BY <1>3, <1>4, <1>5, <1>6, <1>7, <1>8, <1>9, <1>10, <1>11, <1>12, <1>13, <1>14
    DEF ChatNext, Claude

(* What Claude says or calls in one block is never shown as part of another, unless   *)
(* its first line was lost, however long the conversation and whatever else is lost    *)
(* (handleStreamEvent gives every delta to whatever is current).                       *)
THEOREM ContentOwned == ChatSpec => []OwnContent
<1>1. ChatInit => OwnInv
  BY DEF ChatInit, Init, OwnInv, RowsOwn, CurrentOwn, BufferOwn
<1>2. ParserInv /\ ChatTypes /\ ChatTypes' /\ OwnInv /\ [ChatNext]_vars => OwnInv'
  BY OwnStep
<1>3. OwnInv => OwnContent
  BY DEF OwnInv, RowsOwn, OwnContent, Rows, InOrder, OwnInput
<1> QED BY <1>1, <1>2, <1>3, ChatIsSpec, ParserCorrect, PTL DEF ChatSpec

----------------------------------------------------------------------------
(* What is missing. *)

(* The entry m has all of block b, which Claude printed as bl. *)
Complete(m, b, bl) ==
  /\ m.type # "system_info"
  /\ bl.kind = "text" => PiecesOf(b, m.text) = 1 .. bl.n
  /\ bl.kind = "tool_use" => m.id = CallId(b) /\ (bl.n > 0 => m.input # 0)

Done(b) == b < Block \/ phase # "block"
Whole == phase = "block" /\ Block \notin cut

DoneInv ==
  \A b \in DOMAIN blocks \ cut :
    Done(b) => \E i \in DOMAIN messages : Complete(messages[i], b, blocks[b])

(* The last block, while it is printed and not cut, is all there so far. *)
TextInv ==
  Whole /\ blocks[Block].kind = "text" =>
    currentTextMessage # 0 /\ Len(messages[currentTextMessage].text) = blocks[Block].n
ToolInv ==
  Whole /\ blocks[Block].kind = "tool_use" =>
    /\ currentToolCall # 0 /\ Len(toolCallJsonBuffer) = blocks[Block].n
    /\ \A k \in DOMAIN toolCallJsonBuffer :
         /\ toolCallJsonBuffer[k].of = Block /\ toolCallJsonBuffer[k].n = k
         /\ toolCallJsonBuffer[k].last <=> k = blocks[Block].n /\ blocks[Block].whole

MissInv == lostStarts \subseteq cut /\ DoneInv /\ TextInv /\ ToolInv

(* An entry with the same content is as complete. *)
LEMMA CompleteKept ==
  ASSUME NEW m, NEW m2, NEW b, NEW bl, SameContent(m2, m), Complete(m, b, bl)
  PROVE  Complete(m2, b, bl)
BY DEF SameContent, Complete

(* What was done stays done when the entries keep their content and the block is as it was. *)
LEMMA DoneKept ==
  ASSUME DoneInv, Grown, NEW b \in DOMAIN blocks \ cut, Done(b), blocks'[b] = blocks[b]
  PROVE  \E i \in DOMAIN messages' : Complete(messages'[i], b, blocks'[b])
<1>1. PICK i \in DOMAIN messages : Complete(messages[i], b, blocks[b])
  BY DEF DoneInv
<1>2. i \in DOMAIN messages' /\ SameContent(messages'[i], messages[i])
  BY DEF Grown
<1>3. Complete(messages'[i], b, blocks[b])
  BY <1>1, <1>2, CompleteKept
<1> QED BY <1>2, <1>3

(* Lines between blocks, and lines of a block that is cut, make nothing missing. *)
LEMMA MissKept ==
  ASSUME ParserInv, ChatTypes, MissInv, Grown, UNCHANGED <<blocks, lostStarts>>,
         cut \subseteq cut',
         phase' = "block" => phase = "block",
         Whole /\ Block \notin cut' =>
           /\ phase' = "block"
           /\ UNCHANGED <<currentTextMessage, currentToolCall, toolCallJsonBuffer>>
  PROVE  MissInv'
<1>0. Block' = Block /\ Block \in Nat /\ DOMAIN blocks = 1 .. Block
  BY DEF ChatTypes, Block
<1>1. ASSUME NEW b \in DOMAIN blocks' \ cut', Done(b)'
      PROVE  \E i \in DOMAIN messages' : Complete(messages'[i], b, blocks'[b])
  <2>1. b \in DOMAIN blocks \ cut /\ blocks'[b] = blocks[b]
    BY <1>1
  <2>2. Done(b)
    <3>1. CASE b < Block
      BY <3>1 DEF Done
    <3>2. CASE b = Block /\ phase = "block"
      BY <1>0, <1>1, <2>1, <3>2 DEF Done, Whole
    <3> QED BY <1>0, <2>1, <3>1, <3>2 DEF Done
  <2> QED BY <2>1, <2>2, DoneKept DEF MissInv
<1>2. Whole' => Whole /\ UNCHANGED <<currentTextMessage, currentToolCall, toolCallJsonBuffer>>
  BY <1>0 DEF Whole
<1>3. TextInv'
  <2> SUFFICES ASSUME Whole', blocks[Block].kind = "text"
               PROVE  /\ currentTextMessage # 0
                      /\ Len(messages'[currentTextMessage].text) = blocks[Block].n
    BY <1>0, <1>2 DEF TextInv
  <2>1. currentTextMessage # 0 /\ Len(messages[currentTextMessage].text) = blocks[Block].n
    BY <1>2 DEF MissInv, TextInv
  <2>2. currentTextMessage \in DOMAIN messages
    BY <2>1 DEF ParserInv, Refs
  <2> QED BY <2>1, <2>2 DEF Grown, SameContent
<1>4. ToolInv'
  BY <1>0, <1>2 DEF MissInv, ToolInv
<1> QED BY <1>1, <1>3, <1>4 DEF MissInv, DoneInv

(* A new block has nothing yet, and is what is current unless its first line was lost. *)
LEMMA MissStart ==
  ASSUME ParserInv, ChatTypes, MissInv, NEW kind \in {"text", "tool_use"}, ClaudeBlockStart(kind)
  PROVE  MissInv'
<1>1. /\ Block' = Block + 1 /\ Block \in Nat
      /\ DOMAIN blocks' = DOMAIN blocks \cup {Block'}
      /\ \A b \in DOMAIN blocks : b <= Block /\ blocks'[b] = blocks[b]
      /\ blocks'[Block'].kind = kind /\ blocks'[Block'].n = 0
  BY BlockBegun
<1>2. phase # "block" /\ phase' = "block"
  BY DEF ClaudeBlockStart
<1>3. \/ kind = "text" /\ StartText
      \/ kind = "tool_use" /\ StartToolUse(CallId(Block + 1))
      \/ UNCHANGED parserVars /\ cut' = cut \cup {Block'}
  BY <1>1 DEF ClaudeBlockStart, Lose
<1>4. Grown
  <2>1. CallId(Block + 1) \in ToolId
    BY <1>1, CallIds
  <2> QED BY <1>3, <2>1, LinesGrow
<1>5. cut \subseteq cut'
  BY DEF ClaudeBlockStart
<1>6. ASSUME NEW b \in DOMAIN blocks' \ cut', Done(b)'
      PROVE  \E i \in DOMAIN messages' : Complete(messages'[i], b, blocks'[b])
  <2>1. b # Block'
    BY <1>1, <1>2, <1>6 DEF Done
  <2>2. b \in DOMAIN blocks \ cut /\ Done(b) /\ blocks'[b] = blocks[b]
    BY <1>1, <1>2, <1>5, <1>6, <2>1 DEF Done
  <2> QED BY <1>4, <2>2, DoneKept DEF MissInv
<1>7. TextInv' /\ ToolInv'
  <2>1. CASE UNCHANGED parserVars /\ cut' = cut \cup {Block'}
    BY <2>1 DEF TextInv, ToolInv, Whole
  <2>2. CASE kind = "text" /\ StartText
    <3>1. currentTextMessage' = Len(messages) + 1 /\ currentTextMessage' # 0
      BY <2>2 DEF StartText, ParserInv, ParserTypeOK
    <3>2. Len(messages) + 1 \in DOMAIN messages' \ DOMAIN messages
      <4>1. /\ FinalizedMessages \in Seq(Message) /\ Len(FinalizedMessages) = Len(messages)
            /\ messages \in Seq(Message)
        BY Finalized DEF ParserInv, ParserTypeOK
      <4>2. messages' = Append(FinalizedMessages, NewMessage("text", GenerateId))
        BY <2>2 DEF StartText
      <4> QED BY <4>1, <4>2
    <3>3. messages'[currentTextMessage'].text = <<>>
      BY <1>4, <3>1, <3>2 DEF Grown
    <3>4. Len(messages'[currentTextMessage'].text) = 0
      BY <3>3
    <3> QED BY <1>1, <2>2, <3>1, <3>4 DEF TextInv, ToolInv
  <2>3. CASE kind = "tool_use" /\ StartToolUse(CallId(Block + 1))
    <3>1. currentToolCall' # 0 /\ toolCallJsonBuffer' = <<>>
      BY <2>3 DEF StartToolUse, ParserInv, ParserTypeOK
    <3>2. Len(toolCallJsonBuffer') = 0 /\ DOMAIN toolCallJsonBuffer' = {}
      BY <3>1
    <3> QED BY <1>1, <2>3, <3>1, <3>2 DEF TextInv, ToolInv
  <2> QED BY <1>3, <2>1, <2>2, <2>3
<1>8. lostStarts' \subseteq cut'
  BY DEF MissInv, ClaudeBlockStart
<1> QED BY <1>6, <1>7, <1>8 DEF MissInv, DoneInv

(* A piece of another block is not among those of b. *)
LEMMA OtherPiece ==
  ASSUME NEW text \in Seq(Piece), NEW p \in Piece, NEW b, p.of # b
  PROVE  PiecesOf(b, Append(text, p)) = PiecesOf(b, text)
<1> DEFINE new == Append(text, p)
           l == Len(text)
<1>1. /\ DOMAIN new = DOMAIN text \cup {l + 1} /\ new[l + 1] = p
      /\ \A k \in DOMAIN text : new[k] = text[k]
  OBVIOUS
<1> HIDE DEF new, l
<1> QED BY <1>1 DEF PiecesOf, new

(* A piece of the block that is printed makes nothing missing in those that are done. *)
LEMMA DoneDelta ==
  ASSUME ParserInv, ChatTypes, MissInv, NEW last \in BOOLEAN, ClaudeBlockDelta(last),
         UNCHANGED parserVars \/ TextDelta(NextPiece(last)) \/ InputJsonDelta(NextPiece(last)),
         NEW b \in DOMAIN blocks' \ cut', Done(b)'
  PROVE  \E i \in DOMAIN messages' : Complete(messages'[i], b, blocks'[b])
<1>1. /\ phase = "block" /\ phase' = "block" /\ cut \subseteq cut'
  BY DEF ClaudeBlockDelta, SendOfBlock
<1>2. /\ Block' = Block /\ Block \in Nat /\ DOMAIN blocks' = DOMAIN blocks
      /\ \A c \in DOMAIN blocks : c # Block => blocks'[c] = blocks[c]
  BY BlockLonger
<1>3. b < Block
  BY <1>1, <1>2 DEF Done
<1>4. b \in DOMAIN blocks \ cut /\ Done(b) /\ b # Block /\ blocks'[b] = blocks[b]
  BY <1>1, <1>2, <1>3 DEF Done, ChatTypes
<1>5. CASE UNCHANGED messages
  <2>1. Grown
    BY <1>5 DEF Grown, SameContent
  <2> QED BY <1>4, <2>1, DoneKept DEF MissInv
<1>6. CASE TextDelta(NextPiece(last)) /\ currentTextMessage # 0
  <2> DEFINE p == NextPiece(last)
  <2>1. p \in Piece /\ p.of = Block
    <3>1. p \in Piece
      BY <1>1, NextPieceType
    <3> QED BY <3>1 DEF NextPiece
  <2>2. TextDelta(p)
    BY <1>6
  <2> HIDE DEF p
  <2>3. /\ DOMAIN messages' = DOMAIN messages
        /\ messages[currentTextMessage].text \in Seq(Piece)
        /\ \A i \in DOMAIN messages : i # currentTextMessage => messages'[i] = messages[i]
        /\ messages'[currentTextMessage].text = Append(messages[currentTextMessage].text, p)
        /\ messages'[currentTextMessage].id = messages[currentTextMessage].id
        /\ messages'[currentTextMessage].input = messages[currentTextMessage].input
        /\ messages'[currentTextMessage].type = messages[currentTextMessage].type
    BY <1>6, <2>1, <2>2, TextPut
  <2>4. PICK i \in DOMAIN messages : Complete(messages[i], b, blocks[b])
    BY <1>4 DEF MissInv, DoneInv
  <2>5. CASE i # currentTextMessage
    BY <1>4, <2>3, <2>4, <2>5
  <2>6. CASE i = currentTextMessage
    <3>1. PiecesOf(b, messages'[i].text) = PiecesOf(b, messages[i].text)
      <4>1. PiecesOf(b, Append(messages[currentTextMessage].text, p))
              = PiecesOf(b, messages[currentTextMessage].text)
        BY <1>4, <2>1, <2>3, OtherPiece
      <4> QED BY <2>3, <2>6, <4>1
    <3>2. Complete(messages'[i], b, blocks[b])
      BY <2>3, <2>4, <2>6, <3>1 DEF Complete
    <3> QED BY <1>4, <2>3, <3>2
  <2> QED BY <2>5, <2>6
<1> QED BY <1>5, <1>6 DEF TextDelta, InputJsonDelta, parserVars

(* A piece goes to its block, if that is the current one, or cuts it. *)
LEMMA MissDelta ==
  ASSUME ParserInv, ChatTypes, MissInv, NEW last \in BOOLEAN, ClaudeBlockDelta(last)
  PROVE  MissInv'
<1>1. /\ Block' = Block /\ Block \in Nat /\ Block \in DOMAIN blocks
      /\ blocks[Block].n \in Nat /\ ~blocks[Block].whole
      /\ blocks'[Block].kind = blocks[Block].kind
      /\ blocks'[Block].n = blocks[Block].n + 1 /\ blocks'[Block].whole = last
  BY BlockLonger
<1>2. phase = "block" /\ phase' = "block" /\ UNCHANGED lostStarts /\ cut \subseteq cut'
  BY DEF ClaudeBlockDelta, SendOfBlock
<1>3. \/ UNCHANGED parserVars /\ Block \in cut'
      \/ blocks[Block].kind = "text" /\ TextDelta(NextPiece(last)) /\ UNCHANGED cut
      \/ blocks[Block].kind # "text" /\ InputJsonDelta(NextPiece(last)) /\ UNCHANGED cut
  BY DEF ClaudeBlockDelta, SendOfBlock, Lose
<1>4. DoneInv'
  BY <1>3, DoneDelta DEF DoneInv
<1>5. NextPiece(last) \in Piece
  BY <1>2, NextPieceType
<1>6. TextInv' /\ ToolInv'
  <2>1. CASE Block \in cut'
    BY <1>1, <2>1 DEF TextInv, ToolInv, Whole
  <2>2. CASE blocks[Block].kind = "text" /\ TextDelta(NextPiece(last)) /\ Block \notin cut
    <3>1. currentTextMessage # 0 /\ Len(messages[currentTextMessage].text) = blocks[Block].n
      BY <1>2, <2>2 DEF MissInv, TextInv, Whole
    <3>2. /\ messages[currentTextMessage].text \in Seq(Piece)
          /\ messages'[currentTextMessage].text =
               Append(messages[currentTextMessage].text, NextPiece(last))
          /\ UNCHANGED currentTextMessage
      BY <1>5, <2>2, <3>1, TextPut
    <3>3. Len(messages'[currentTextMessage].text) = blocks[Block].n + 1
      BY <1>5, <3>1, <3>2
    <3>4. TextInv'
      BY <1>1, <3>1, <3>2, <3>3 DEF TextInv
    <3>5. ToolInv'
      BY <1>1, <2>2 DEF ToolInv
    <3> QED BY <3>4, <3>5
  <2>3. CASE blocks[Block].kind # "text" /\ InputJsonDelta(NextPiece(last)) /\ Block \notin cut
    <3> DEFINE p == NextPiece(last)
               n == blocks[Block].n
    <3>0. blocks[Block].kind = "tool_use"
      <4>1. blocks[Block] \in BlockRecord
        BY <1>1 DEF ChatTypes
      <4> QED BY <2>3, <4>1 DEF BlockRecord
    <3>1. /\ currentToolCall # 0 /\ Len(toolCallJsonBuffer) = n
          /\ \A k \in DOMAIN toolCallJsonBuffer :
               /\ toolCallJsonBuffer[k].of = Block /\ toolCallJsonBuffer[k].n = k
               /\ toolCallJsonBuffer[k].last <=> k = n /\ blocks[Block].whole
      BY <1>2, <2>3, <3>0 DEF MissInv, ToolInv, Whole
    <3>2. toolCallJsonBuffer' = Append(toolCallJsonBuffer, p) /\ UNCHANGED currentToolCall
      BY <2>3, <3>1 DEF InputJsonDelta
    <3>3. p \in Piece /\ p.of = Block /\ p.n = n + 1 /\ (p.last <=> last)
      BY <1>5 DEF NextPiece
    <3> HIDE DEF p
    <3>4. toolCallJsonBuffer \in Seq(Piece) /\ n \in Nat
      BY <1>1 DEF ParserInv, ParserTypeOK
    <3> HIDE DEF n
    <3>5. /\ Len(toolCallJsonBuffer') = n + 1
          /\ DOMAIN toolCallJsonBuffer' = 1 .. n + 1 /\ DOMAIN toolCallJsonBuffer = 1 .. n
          /\ toolCallJsonBuffer'[n + 1] = p
          /\ \A k \in 1 .. n : toolCallJsonBuffer'[k] = toolCallJsonBuffer[k]
      BY <3>1, <3>2, <3>3, <3>4
    <3>6. ASSUME NEW k \in 1 .. n + 1
          PROVE  /\ toolCallJsonBuffer'[k].of = Block /\ toolCallJsonBuffer'[k].n = k
                 /\ toolCallJsonBuffer'[k].last <=> k = n + 1 /\ last
      <4>1. CASE k \in 1 .. n
        <5>1. k # n + 1 /\ toolCallJsonBuffer'[k] = toolCallJsonBuffer[k]
          BY <3>4, <3>5, <4>1
        <5>2. /\ toolCallJsonBuffer[k].of = Block /\ toolCallJsonBuffer[k].n = k
              /\ ~toolCallJsonBuffer[k].last
          BY <1>1, <3>1, <3>5, <4>1
        <5> QED BY <5>1, <5>2
      <4>2. CASE k = n + 1
        BY <3>3, <3>5, <4>2
      <4> QED BY <3>4, <4>1, <4>2
    <3>7. ToolInv'
      <4>1. blocks'[Block].n = n + 1
        BY <1>1 DEF n
      <4> QED BY <1>1, <3>1, <3>2, <3>5, <3>6, <4>1 DEF ToolInv
    <3>8. TextInv'
      BY <1>1, <2>3 DEF TextInv
    <3> QED BY <3>7, <3>8
  <2> QED BY <1>3, <2>1, <2>2, <2>3
<1>7. lostStarts' \subseteq cut'
  BY <1>2 DEF MissInv
<1> QED BY <1>4, <1>6, <1>7 DEF MissInv

(* What has been collected of the block is all of its input when the block ends. *)
LEMMA AllCollected ==
  ASSUME ParserInv, ChatTypes, ToolInv, Whole, blocks[Block].kind = "tool_use",
         blocks[Block].n > 0, blocks[Block].whole
  PROVE  Parses(toolCallJsonBuffer)
<1>1. /\ Len(toolCallJsonBuffer) = blocks[Block].n
      /\ \A k \in DOMAIN toolCallJsonBuffer :
           /\ toolCallJsonBuffer[k].of = Block /\ toolCallJsonBuffer[k].n = k
           /\ toolCallJsonBuffer[k].last <=> k = Len(toolCallJsonBuffer)
  BY DEF ToolInv
<1>2. /\ toolCallJsonBuffer \in Seq(Piece) /\ Len(toolCallJsonBuffer) \in Nat
      /\ DOMAIN toolCallJsonBuffer = 1 .. Len(toolCallJsonBuffer)
  BY DEF ParserInv, ParserTypeOK
<1>3. 1 \in DOMAIN toolCallJsonBuffer \/ DOMAIN toolCallJsonBuffer = {}
  BY <1>2
<1>4. ASSUME NEW k \in DOMAIN toolCallJsonBuffer
      PROVE  toolCallJsonBuffer[k].last \in BOOLEAN
  <2>1. toolCallJsonBuffer[k] \in Piece
    BY <1>2
  <2> QED BY <2>1 DEF Piece
<1>5. ASSUME NEW k \in DOMAIN toolCallJsonBuffer
      PROVE  /\ toolCallJsonBuffer[k].of = toolCallJsonBuffer[1].of
             /\ toolCallJsonBuffer[k].n = k
  BY <1>1, <1>3
<1>6. ASSUME NEW k \in DOMAIN toolCallJsonBuffer
      PROVE  toolCallJsonBuffer[k].last = (k = Len(toolCallJsonBuffer))
  BY <1>1, <1>4, Zenon
<1> QED BY <1>5, <1>6 DEF Parses

(* The end of a block takes nothing from an entry. *)
LEMMA CompleteAtStop ==
  ASSUME ParserInv, BufferOwn, BlockStop, NEW i \in DOMAIN messages, NEW b, NEW bl,
         Complete(messages[i], b, bl)
  PROVE  Complete(messages'[i], b, bl)
<1>1. CASE messages'[i] = messages[i]
  BY <1>1
<1>2. CASE /\ messages'[i].input # 0
           /\ messages'[i].type = messages[i].type /\ messages'[i].id = messages[i].id
           /\ messages'[i].text = messages[i].text
  BY <1>2 DEF Complete
<1>3. 1 \in DOMAIN toolCallJsonBuffer => toolCallJsonBuffer[1].of # 0
  BY DEF BufferOwn
<1> QED BY <1>1, <1>2, <1>3, InputPut

(* A block that has all of its lines is complete when it ends. *)
LEMMA CompleteNow ==
  ASSUME ParserInv, ChatTypes, OwnInv, MissInv, Whole, BlockStop,
         blocks[Block].n = 0 \/ blocks[Block].whole
  PROVE  \E i \in DOMAIN messages' : Complete(messages'[i], Block, blocks[Block])
<1>0. Block \notin lostStarts /\ blocks[Block] \in BlockRecord
  BY DEF MissInv, Whole, ChatTypes
<1>1. DOMAIN messages' = DOMAIN messages /\ UNCHANGED currentToolCall
  BY InputPut
<1>2. CASE blocks[Block].kind = "text"
  <2> DEFINE c == currentTextMessage
  <2>1. c \in DOMAIN messages /\ Len(messages[c].text) = blocks[Block].n
        /\ messages[c].type = "text" /\ OfBlock(messages[c].text, Block)
    BY <1>0, <1>2 DEF MissInv, TextInv, ParserInv, Refs, OwnInv, CurrentOwn
  <2>2. messages[c].text \in Seq(Piece)
    <3>1. messages[c] \in Message
      BY <2>1 DEF ParserInv, ParserTypeOK
    <3> QED BY <3>1 DEF Message
  <2>3. PiecesOf(Block, messages[c].text) = 1 .. blocks[Block].n
    <3>1. PiecesOf(Block, messages[c].text) = DOMAIN messages[c].text
      BY <2>1 DEF OfBlock, PiecesOf
    <3> QED BY <2>1, <2>2, <3>1
  <2>4. Complete(messages[c], Block, blocks[Block])
    BY <1>2, <2>1, <2>3 DEF Complete
  <2> QED BY <1>1, <2>1, <2>4, CompleteAtStop DEF OwnInv
<1>3. CASE blocks[Block].kind = "tool_use"
  <2> DEFINE c == currentToolCall
  <2>1. c # 0 /\ c \in DOMAIN messages /\ messages[c].type = "tool_call"
        /\ messages[c].id = CallId(Block) /\ Len(toolCallJsonBuffer) = blocks[Block].n
    BY <1>0, <1>3 DEF MissInv, ToolInv, ParserInv, Refs, OwnInv, CurrentOwn
  <2>2. messages'[c].type = "tool_call" /\ messages'[c].id = CallId(Block)
    BY <2>1, InputPut
  <2>3. ASSUME blocks[Block].n > 0
        PROVE  messages'[c].input # 0
    <3>1. blocks[Block].n # 0 /\ blocks[Block].whole
      BY <2>3
    <3>2. Parses(toolCallJsonBuffer)
      BY <1>3, <2>3, <3>1, AllCollected DEF MissInv
    <3>3. 1 \in DOMAIN toolCallJsonBuffer /\ Len(toolCallJsonBuffer) # 0
      BY <1>0, <2>1, <2>3 DEF ParserInv, ParserTypeOK, BlockRecord
    <3>4. toolCallJsonBuffer # <<>>
      BY <3>3
    <3>5. messages' = [messages EXCEPT ![c].input = toolCallJsonBuffer[1].of]
      BY <2>1, <3>2, <3>4 DEF BlockStop
    <3>6. messages'[c].input = toolCallJsonBuffer[1].of
      <4>1. messages[c] \in Message
        BY <2>1 DEF ParserInv, ParserTypeOK
      <4> QED BY <2>1, <3>5, <4>1 DEF Message
    <3> QED BY <3>3, <3>6 DEF OwnInv, BufferOwn
  <2>4. Complete(messages'[c], Block, blocks[Block])
    BY <1>3, <2>2, <2>3 DEF Complete
  <2> QED BY <1>1, <2>1, <2>4
<1> QED BY <1>0, <1>2, <1>3 DEF BlockRecord

(* At its end a block that is not cut has all of it, and the others keep what they have. *)
LEMMA MissStop ==
  ASSUME ParserInv, ChatTypes, OwnInv, MissInv, ClaudeBlockStop
  PROVE  MissInv'
<1>1. /\ phase = "block" /\ phase' = "message" /\ UNCHANGED <<blocks, lostStarts>>
      /\ blocks[Block].n = 0 \/ blocks[Block].whole
  BY DEF ClaudeBlockStop, SendOfBlock
<1>2. CASE UNCHANGED parserVars /\ cut' = cut \cup {Block}
  <2>1. Grown
    BY <1>2, LinesGrow
  <2> QED BY <1>1, <1>2, <2>1, MissKept
<1>3. CASE BlockStop /\ UNCHANGED cut
  <2>1. ASSUME NEW b \in DOMAIN blocks \ cut
        PROVE  \E i \in DOMAIN messages' : Complete(messages'[i], b, blocks[b])
    <3>1. CASE b = Block
      BY <1>1, <1>3, <2>1, <3>1, CompleteNow DEF Whole
    <3>2. CASE b # Block
      <4>1. b < Block
        BY <3>2 DEF ChatTypes, Block
      <4>2. PICK i \in DOMAIN messages : Complete(messages[i], b, blocks[b])
        BY <2>1, <4>1 DEF MissInv, DoneInv, Done
      <4>3. DOMAIN messages' = DOMAIN messages
        BY <1>3, InputPut
      <4> QED BY <1>3, <4>2, <4>3, CompleteAtStop DEF OwnInv
    <3> QED BY <3>1, <3>2
  <2>2. DoneInv'
    BY <1>1, <1>3, <2>1 DEF DoneInv
  <2>3. TextInv' /\ ToolInv'
    BY <1>1 DEF TextInv, ToolInv, Whole
  <2> QED BY <1>1, <1>3, <2>2, <2>3 DEF MissInv
<1> QED BY <1>2, <1>3 DEF ClaudeBlockStop, SendOfBlock, Lose

(* No step of a conversation makes anything missing but what is cut. *)
LEMMA MissStep ==
  ASSUME ParserInv, ChatTypes, OwnInv, MissInv, [ChatNext]_vars
  PROVE  MissInv'
<1>1. ASSUME UNCHANGED parserVars \/ SystemInit \/ AddUserInput \/ FinalizeCurrentContent
               \/ \E isError \in BOOLEAN : Result(isError)
      PROVE  Grown
  BY <1>1, LinesGrow
<1>2. CASE UNCHANGED vars
  <2>1. UNCHANGED parserVars /\ UNCHANGED <<blocks, lostStarts, cut, phase>>
    BY <1>2 DEF vars, claudeVars, history
  <2>2. Grown
    BY <1>1, <2>1
  <2>3. UNCHANGED <<currentTextMessage, currentToolCall, toolCallJsonBuffer>>
    BY <2>1 DEF parserVars
  <2> QED BY <2>1, <2>2, <2>3, MissKept DEF Whole
<1>3. CASE UserTypes
  <2>1. AddUserInput /\ UNCHANGED <<blocks, lostStarts, cut, phase>>
    BY <1>3 DEF UserTypes, claudeVars, history
  <2>2. UNCHANGED <<currentTextMessage, currentToolCall, toolCallJsonBuffer>>
    BY <2>1 DEF AddUserInput
  <2>3. Grown
    BY <1>1, <2>1
  <2> QED BY <2>1, <2>2, <2>3, MissKept DEF Whole
<1>4. CASE ClaudeInit
  BY <1>1, <1>4, MissKept DEF ClaudeInit, Send, Lose, Whole
<1>5. CASE ClaudeMessageStart
  BY <1>1, <1>5, MissKept DEF ClaudeMessageStart, Send, Lose, OtherLine, Whole
<1>6. CASE ClaudeBlockStop
  BY <1>6, MissStop
<1>7. CASE ClaudeMessageStop
  BY <1>1, <1>7, MissKept DEF ClaudeMessageStop, Send, Lose, MessageStop, Whole
<1>8. CASE ClaudeSnapshot
  <2>1. CASE Assistant /\ cut' = IF phase = "block" THEN cut \cup {Block} ELSE cut
    <3>1. Grown
      BY <1>1, <2>1 DEF Assistant
    <3>2. UNCHANGED <<blocks, lostStarts, phase>>
      BY <1>8 DEF ClaudeSnapshot, claudeVars
    <3>3. cut \subseteq cut' /\ ~(Whole /\ Block \notin cut')
      BY <2>1 DEF Whole
    <3> QED BY <3>1, <3>2, <3>3, MissKept
  <2>2. CASE UNCHANGED parserVars /\ UNCHANGED cut
    <3>1. UNCHANGED <<blocks, lostStarts, phase>>
      BY <1>8 DEF ClaudeSnapshot, claudeVars
    <3> QED BY <1>1, <2>2, <3>1, MissKept DEF parserVars, Whole
  <2> QED BY <1>8, <2>1, <2>2 DEF ClaudeSnapshot, Lose
<1>9. ASSUME NEW kind \in {"text", "tool_use"}, ClaudeBlockStart(kind)
      PROVE  MissInv'
  BY <1>9, MissStart
<1>10. ASSUME NEW last \in BOOLEAN, ClaudeBlockDelta(last)
       PROVE  MissInv'
  BY <1>10, MissDelta
<1>11. ASSUME NEW stopReason \in StopReason, ClaudeMessageDelta(stopReason)
       PROVE  MissInv'
  BY <1>1, <1>11, MissKept DEF ClaudeMessageDelta, Send, Lose, MessageDelta, Whole
<1>12. ASSUME NEW S \in SUBSET calls, NEW results \in [S -> {"ok", "error"}],
              ClaudeToolResults(results)
       PROVE  MissInv'
  <2>1. Grown
    BY <1>1, <1>12, ResultsGrow DEF ClaudeToolResults, Lose
  <2> QED BY <1>12, <2>1, MissKept DEF ClaudeToolResults, Whole
<1>13. ASSUME NEW isError \in BOOLEAN, ClaudeResult(isError)
       PROVE  MissInv'
  <2>1. Grown
    BY <1>1, <1>13 DEF ClaudeResult, Lose
  <2>2. /\ UNCHANGED <<blocks, lostStarts>> /\ phase' # "block"
        /\ cut' = IF phase = "block" THEN cut \cup {Block} ELSE cut
    BY <1>13 DEF ClaudeResult
  <2>3. cut \subseteq cut' /\ ~(Whole /\ Block \notin cut')
    BY <2>2 DEF Whole
  <2> QED BY <2>1, <2>2, <2>3, MissKept
<1> QED
  BY <1>2, <1>3, <1>4, <1>5, <1>6, <1>7, <1>8, <1>9, <1>10, <1>11, <1>12, <1>13
    DEF ChatNext, Claude

(* Once a block has ended its row has all of it, unless a line of it was lost or a     *)
(* snapshot came in its midst: the text to its last piece, the tool call its input     *)
(* (content_block_stop parses what input_json_delta has collected).                    *)
THEOREM ContentComplete == ChatSpec => []NothingMissing
<1>1. ChatInit => OwnInv
  BY DEF ChatInit, Init, OwnInv, RowsOwn, CurrentOwn, BufferOwn
<1>2. ChatInit => MissInv
  BY DEF ChatInit, MissInv, DoneInv, TextInv, ToolInv, Whole
<1>3. ParserInv /\ ChatTypes /\ ChatTypes' /\ OwnInv /\ [ChatNext]_vars => OwnInv'
  BY OwnStep
<1>4. ParserInv /\ ChatTypes /\ OwnInv /\ MissInv /\ [ChatNext]_vars => MissInv'
  BY MissStep
<1>5. ChatTypes /\ MissInv => NothingMissing
  <2> SUFFICES ASSUME ChatTypes, MissInv, NEW b \in DOMAIN blocks \ cut,
                      b < Block \/ phase # "block"
               PROVE  \E i \in Rows :
                 /\ blocks[b].kind = "text" =>
                      Cardinality(PiecesOf(b, messages[i].text)) = blocks[b].n
                 /\ blocks[b].kind = "tool_use" =>
                      /\ messages[i].id = CallId(b)
                      /\ blocks[b].n > 0 => ToolSummary(messages[i]) = "input"
    BY DEF NothingMissing
  <2>1. PICK i \in DOMAIN messages : Complete(messages[i], b, blocks[b])
    BY DEF MissInv, DoneInv, Done
  <2>2. blocks[b].n \in Nat
    <3>1. blocks[b] \in BlockRecord
      BY DEF ChatTypes
    <3> QED BY <3>1 DEF BlockRecord
  <2>3. Cardinality(1 .. blocks[b].n) = blocks[b].n
    BY <2>2, FS_Interval
  <2> QED BY <2>1, <2>3 DEF Complete, Rows, ToolSummary
<1> QED BY <1>1, <1>2, <1>3, <1>4, <1>5, ChatIsSpec, ParserCorrect, PTL DEF ChatSpec
=============================================================================
