----------------------------- MODULE Transcript -----------------------------
(***************************************************************************)
(* What the page promises of the conversation it shows, whatever the agent *)
(* sends: a list of entries that only grows, in which at most one entry is *)
(* being written, and what is written stays as it is, but for the answer a *)
(* tool call gets.                                                         *)
(***************************************************************************)
EXTENDS Integers, Sequences

VARIABLES
  entries, \* the conversation: texts, tool calls, user inputs, ...
  open     \* the entry being written, 0 when there is none

Init == entries = <<>> /\ open = 0

\* No entry is streaming any more.
Settled == [i \in DOMAIN entries |-> [entries[i] EXCEPT !.isStreaming = FALSE]]

NewEntry == entries'[Len(entries) + 1]
Added(old) == Len(entries') = Len(entries) + 1 /\ entries' = Append(old, NewEntry)

\* An entry that needs no writing comes between.
Say == Added(entries) /\ ~NewEntry.isStreaming /\ open' = open

\* A new entry is begun, which ends the one before it, ...
Begin ==
  /\ Added(Settled)
  /\ open' = Len(entries')
  /\ NewEntry.type \in {"text", "tool_call"}
  /\ NewEntry.isStreaming = (NewEntry.type = "text")

\* ... goes on: a text by another piece, a tool call by its input, ...
Continue ==
  /\ open # 0 /\ open' = open
  /\ \/ \E n \in {Len(entries'[open].text)} :
          /\ entries[open].type = "text" /\ n # 0
          /\ entries' = [entries EXCEPT ![open].text = Append(@, entries'[open].text[n])]
     \/ /\ entries[open].type = "tool_call"
        /\ entries' = [entries EXCEPT ![open].input = entries'[open].input]

\* ... and ends, ...
End == entries' = Settled /\ open' = 0

\* ... perhaps by the last word of the turn.
Finish == Added(Settled) /\ ~NewEntry.isStreaming /\ open' = 0

\* Tool calls are answered, whether they are still open or not.
Answered(i) ==
  /\ entries[i].type = "tool_call"
  /\ entries'[i].result # "none"
  /\ entries'[i] = [entries[i] EXCEPT !.result = entries'[i].result]

Answer ==
  /\ open' = open
  /\ DOMAIN entries' = DOMAIN entries
  /\ \A i \in DOMAIN entries : entries'[i] = entries[i] \/ Answered(i)

\* The page turns to another task.
Wipe == entries' = <<>> /\ open' = 0

Next == Say \/ Begin \/ Continue \/ End \/ Finish \/ Answer \/ Wipe

Spec == Init /\ [][Next]_<<entries, open>>
=============================================================================
