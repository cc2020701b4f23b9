----------------------------- MODULE ChatStream -----------------------------
(***************************************************************************)
(* A conversation: Claude prints its lines in the order docs/claude-cli.md *)
(* and types/claude-stream.ts give, some of them are lost on the way to    *)
(* the page (a client that lags, the oldest lines of a full buffer), and   *)
(* the parser takes the others, between inputs of the user.                *)
(*                                                                         *)
(* When the snapshot of a message comes is left open: the docs show it     *)
(* after message_stop, and nothing in the parser relies on that.           *)
(***************************************************************************)
EXTENDS MessageParser, FiniteSets

CONSTANTS
  MaxBlocks, MaxPieces, \* bounds on the blocks of a conversation and the pieces of each,
  MaxTurns, MaxInputs,  \* its turns, what the user types meanwhile,
  MaxLosses             \* and the lines that are lost

VARIABLES
  phase,             \* where Claude is in its turn
  blocks,            \* the blocks it has begun: kind, pieces so far, was that all?
  calls,             \* the tool calls it waits for the results of
  turns, inputs,     \* turns so far, inputs so far
  losses, lostStarts,\* lines lost so far; the blocks whose first line was;
  cut,               \* those that lost a line or were cut short by a snapshot
  answers            \* the results that reached the page

claudeVars == <<phase, blocks, calls, turns>>
history == <<losses, lostStarts, cut, answers>>
vars == <<parserVars, claudeVars, inputs, history>>

Block == Len(blocks)
CallId(b) == <<"tool", b>>

ChatInit ==
  /\ Init
  /\ phase = "start" /\ blocks = <<>> /\ calls = {}
  /\ turns = 0 /\ inputs = 0
  /\ losses = 0 /\ lostStarts = {} /\ cut = {} /\ answers = [id \in {} |-> "none"]

\* A line reaches the parser or is lost, ...
Lose == losses < MaxLosses /\ losses' = losses + 1 /\ UNCHANGED parserVars
Send(line) ==
  /\ \/ line /\ UNCHANGED losses
     \/ Lose
  /\ UNCHANGED <<lostStarts, cut>>

\* ... and so does a line of the block that is being printed.
SendOfBlock(line) ==
  \/ line /\ UNCHANGED <<losses, lostStarts, cut>>
  \/ Lose /\ cut' = cut \cup {Block} /\ UNCHANGED lostStarts

----------------------------------------------------------------------------
(* Claude. *)

ClaudeInit ==
  /\ phase = "start"
  /\ phase' = "idle"
  /\ Send(SystemInit)
  /\ UNCHANGED <<blocks, calls, turns, inputs, answers>>

\* A turn begins, or goes on when all its tool calls are answered.
ClaudeMessageStart ==
  /\ \/ phase = "idle" /\ turns < MaxTurns /\ turns' = turns + 1
     \/ phase = "asked" /\ calls = {} /\ UNCHANGED turns
  /\ phase' = "message"
  /\ Send(OtherLine)
  /\ UNCHANGED <<blocks, calls, inputs, answers>>

ClaudeBlockStart(kind) ==
  /\ phase = "message" /\ Block < MaxBlocks
  /\ phase' = "block"
  /\ blocks' = Append(blocks, [kind |-> kind, n |-> 0, whole |-> FALSE])
  /\ calls' = IF kind = "tool_use" THEN calls \cup {CallId(Block + 1)} ELSE calls
  /\ \/ /\ IF kind = "text" THEN StartText ELSE StartToolUse(CallId(Block + 1))
        /\ UNCHANGED <<losses, lostStarts, cut>>
     \/ /\ Lose
        /\ lostStarts' = lostStarts \cup {Block + 1}
        /\ cut' = cut \cup {Block + 1}
  /\ UNCHANGED <<turns, inputs, answers>>

NextPiece(last) == [of |-> Block, n |-> blocks[Block].n + 1, last |-> last]

ClaudeBlockDelta(last) ==
  /\ phase = "block" /\ ~blocks[Block].whole
  /\ blocks[Block].n < IF last THEN MaxPieces ELSE MaxPieces - 1
  /\ blocks' = [blocks EXCEPT ![Block] = [kind |-> @.kind, n |-> @.n + 1, whole |-> last]]
  /\ SendOfBlock(IF blocks[Block].kind = "text"
                 THEN TextDelta(NextPiece(last)) ELSE InputJsonDelta(NextPiece(last)))
  /\ UNCHANGED <<phase, calls, turns, inputs, answers>>

\* A block may be empty, but it has no half.
ClaudeBlockStop ==
  /\ phase = "block"
  /\ blocks[Block].n = 0 \/ blocks[Block].whole
  /\ phase' = "message"
  /\ SendOfBlock(BlockStop)
  /\ UNCHANGED <<blocks, calls, turns, inputs, answers>>

\* The reason is tool_use when there are calls, and null when Claude ran out of tokens.
ClaudeMessageDelta(stopReason) ==
  /\ phase = "message"
  /\ stopReason = "tool_use" => calls # {}
  /\ stopReason = "end_turn" => calls = {}
  /\ phase' = "delta"
  /\ Send(MessageDelta(stopReason))
  /\ UNCHANGED <<blocks, calls, turns, inputs, answers>>

ClaudeMessageStop ==
  /\ phase = "delta"
  /\ phase' = IF calls = {} THEN "said" ELSE "asked"
  /\ Send(MessageStop)
  /\ UNCHANGED <<blocks, calls, turns, inputs, answers>>

ClaudeSnapshot ==
  /\ phase \in {"block", "message", "delta", "said", "asked"}
  /\ \/ /\ Assistant
        /\ cut' = IF phase = "block" THEN cut \cup {Block} ELSE cut
        /\ UNCHANGED losses
     \/ /\ Lose
        /\ UNCHANGED cut
  /\ UNCHANGED <<claudeVars, inputs, lostStarts, answers>>

\* Some of the calls are answered, in one line.
ClaudeToolResults(results) ==
  /\ phase = "asked"
  /\ DOMAIN results # {}
  /\ calls' = calls \ DOMAIN results
  /\ \/ /\ ToolResults(results)
        /\ answers' = [id \in DOMAIN answers \cup DOMAIN results |->
                         IF id \in DOMAIN results THEN results[id] ELSE answers[id]]
        /\ UNCHANGED losses
     \/ /\ Lose
        /\ UNCHANGED answers
  /\ UNCHANGED <<phase, blocks, turns, inputs, lostStarts, cut>>

\* The turn is over, or failed somewhere in its midst.
ClaudeResult(isError) ==
  /\ phase \in IF isError THEN {"block", "message", "delta", "said", "asked"} ELSE {"said"}
  /\ phase' = "idle" /\ calls' = {}
  /\ cut' = IF phase = "block" THEN cut \cup {Block} ELSE cut
  /\ \/ Result(isError) /\ UNCHANGED losses
     \/ Lose
  /\ UNCHANGED <<blocks, turns, inputs, lostStarts, answers>>

Claude ==
  \/ ClaudeInit \/ ClaudeMessageStart \/ ClaudeBlockStop \/ ClaudeMessageStop \/ ClaudeSnapshot
  \/ \E kind \in {"text", "tool_use"} : ClaudeBlockStart(kind)
  \/ \E last \in BOOLEAN : ClaudeBlockDelta(last)
  \/ \E stopReason \in StopReason : ClaudeMessageDelta(stopReason)
  \/ \E S \in SUBSET calls : \E results \in [S -> {"ok", "error"}] : ClaudeToolResults(results)
  \/ \E isError \in BOOLEAN : ClaudeResult(isError)

\* The user types whenever the page lets him.
UserTypes ==
  /\ inputs < MaxInputs
  /\ inputs' = inputs + 1
  /\ AddUserInput
  /\ UNCHANGED <<claudeVars, history>>

ChatNext == Claude \/ UserTypes

ChatSpec == ChatInit /\ [][ChatNext]_vars

----------------------------------------------------------------------------
(* Properties. *)

TypeOK ==
  /\ ParserTypeOK
  /\ phase \in {"start", "idle", "message", "block", "delta", "said", "asked"}
  /\ blocks \in Seq([kind : {"text", "tool_use"}, n : Nat, whole : BOOLEAN])
  /\ calls \subseteq ToolId
  /\ {turns, inputs, losses} \subseteq Nat
  /\ lostStarts \subseteq DOMAIN blocks /\ cut \subseteq DOMAIN blocks
  /\ \A id \in DOMAIN answers : id \in ToolId /\ answers[id] \in {"ok", "error"}

\* What Claude says or calls in one block is never shown as part of another: the
\* pieces of a row are of one block and in their order, and a tool call has its own
\* input.  The exception is a block whose first line was lost: what follows goes to
\* the block before it, if that is still the current one.
OwnContent ==
  \A i \in Rows :
    LET m == messages[i] IN
    /\ \A j, k \in DOMAIN m.text :
         j < k => \/ m.text[j].of < m.text[k].of /\ m.text[k].of \in lostStarts
                  \/ m.text[j].of = m.text[k].of /\ m.text[j].n < m.text[k].n
    /\ m.input # 0 => m.id = CallId(m.input) \/ m.input \in lostStarts

PiecesOf(b, text) == { m \in DOMAIN text : text[m].of = b }

\* Once a block has ended its row has all of it: the text to its last piece, the
\* input of the tool, with a row that no longer says "Running command...".  The
\* exception is a block that was cut: a line of it was lost, or a snapshot came
\* before its content_block_stop and made the parser forget what was current.
NothingMissing ==
  \A b \in DOMAIN blocks \ cut :
    (b < Block \/ phase # "block") =>
      \E i \in Rows :
        /\ blocks[b].kind = "text"     => Cardinality(PiecesOf(b, messages[i].text)) = blocks[b].n
        /\ blocks[b].kind = "tool_use" =>
             /\ messages[i].id = CallId(b)
             /\ blocks[b].n > 0 => ToolSummary(messages[i]) = "input"

\* A tool call spins until its result comes, and then shows that one: with several
\* calls under way, results in any order and rows in between, none gets another's.
AnswersShown ==
  \A i \in Rows :
    messages[i].type = "tool_call" =>
      ToolIcon(messages[i]) =
        IF messages[i].id \in DOMAIN answers
        THEN IF answers[messages[i].id] = "ok" THEN "tick" ELSE "cross"
        ELSE "spinner"
=============================================================================
