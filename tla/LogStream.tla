------------------------------ MODULE LogStream ------------------------------
(***************************************************************************)
(* stream_vm_logs (api/src/handlers.rs): one client follows the serial log *)
(* of a VM, which QEMU makes and writes, stop_vm removes and an operator   *)
(* may truncate.                                                           *)
(*                                                                         *)
(* The log is a sequence of pieces, numbered in the order QEMU wrote them. *)
(* A piece ends its line or not, and may hold bytes that are not UTF-8;    *)
(* sizes and offsets count pieces.                                         *)
(***************************************************************************)
EXTENDS Integers, Sequences, FiniteSets

CONSTANTS
  TailLines,   (* params.tail: lines sent to begin with       *)
  MaxPieces,   (* bound on the pieces QEMU writes             *)
  MaxTruncates (* bound on truncations of the log             *)

ASSUME LogAssumption == TailLines \in Nat /\ MaxPieces \in Nat /\ MaxTruncates \in Nat

VARIABLES
  file, name,            \* the log; is its name not there yet, there, or gone again?
  written, truncates,    \* pieces written so far; truncations so far
  pc,                    \* where the stream is
  off, buf,              \* its reader: offset in the log and bytes read ahead
  lastSize, currentSize, \* its two sizes
  sent,                  \* history: pieces sent, in order,
  skipped, gap,          \* those not sent to begin with, and those written between
                         \* the first read and the seek;
  torn, unseen           \* was the log truncated during a poll; was it truncated
                         \* since the stream last opened it?

logVars  == <<file, name, written, truncates>>
readVars == <<off, buf>>
sizeVars == <<lastSize, currentSize>>
history  == <<sent, skipped, gap>>
cuts     == <<torn, unseen>>
vars == <<logVars, pc, readVars, sizeVars, history, cuts>>

Kind  == {"text", "eol", "bad"}   \* goes on; ends its line; is no UTF-8 and ends it
Piece == [n : 1 .. MaxPieces, kind : Kind]
EndsLine(p) == p.kind \in {"eol", "bad"}
exists == name = "there"
Ns(s) == [i \in DOMAIN s |-> s[i].n]
WasSent(n) == \E i \in DOMAIN sent : sent[i] = n
NSet(s) == { s[i].n : i \in DOMAIN s }

Init ==
  /\ file = <<>> /\ name = "none"
  /\ written = 0 /\ truncates = 0
  /\ pc = "check"
  /\ off = 0 /\ buf = <<>>
  /\ lastSize = 0 /\ currentSize = 0
  /\ sent = <<>> /\ skipped = {} /\ gap = {}
  /\ torn = FALSE /\ unseen = FALSE

----------------------------------------------------------------------------
(* The log. *)

\* QEMU opens its serial log, ...
LogCreated ==
  /\ name = "none"
  /\ name' = "there"
  /\ UNCHANGED <<file, written, truncates, pc, readVars, sizeVars, history, cuts>>

\* ... appends to it, ...
LogAppend(kind) ==
  /\ exists /\ written < MaxPieces
  /\ file' = Append(file, [n |-> written + 1, kind |-> kind])
  /\ written' = written + 1
  /\ UNCHANGED <<name, truncates, pc, readVars, sizeVars, history, cuts>>

\* ... an operator empties it, ...
LogTruncate ==
  /\ exists /\ truncates < MaxTruncates
  /\ file' = <<>>
  /\ truncates' = truncates + 1
  /\ unseen' = (pc \notin {"check", "first", "open", "seek"})
  /\ torn' = (torn \/ pc \in {"reopen", "read"})
  /\ UNCHANGED <<name, written, pc, readVars, sizeVars, history>>

\* ... and stop_vm removes it, once QEMU is gone.  Who has it open still reads it.
LogRemove ==
  /\ exists
  /\ name' = "gone"
  /\ UNCHANGED <<file, written, truncates, pc, readVars, sizeVars, history, cuts>>

----------------------------------------------------------------------------
(* The first lines. *)

\* How many pieces the last n lines of s begin after (read_last_n_lines).
LinesFrom(s, i) == Cardinality({ j \in i + 1 .. Len(s) : j = Len(s) \/ EndsLine(s[j]) })
LineStarts(s) == { i \in 0 .. Len(s) : i \in {0, Len(s)} \/ EndsLine(s[i]) }
SkippedBy(s, n) ==
  CHOOSE i \in LineStarts(s) : /\ LinesFrom(s, i) <= n
                               /\ \A j \in LineStarts(s) : j < i => LinesFrom(s, j) > n

\* After the init event: no log, no stream.
StreamCheck ==
  /\ pc = "check"
  /\ pc' = IF exists THEN "first" ELSE "ended"
  /\ UNCHANGED <<logVars, readVars, sizeVars, history, cuts>>

\* A log that is gone by now has no lines; one that goes between the test and the
\* read, or is not UTF-8, is an error.
StreamFirst ==
  LET seenLog == IF exists THEN file ELSE <<>>
      from == SkippedBy(seenLog, TailLines)
  IN
  /\ pc = "first"
  /\ \/ /\ \A i \in DOMAIN seenLog : seenLog[i].kind # "bad"
        /\ sent' = Ns(SubSeq(seenLog, from + 1, Len(seenLog)))
        /\ skipped' = NSet(SubSeq(seenLog, 1, from))
        /\ pc' = "open"
     \/ /\ ~exists \/ \E i \in DOMAIN seenLog : seenLog[i].kind = "bad"
        /\ pc' = "ended"
        /\ UNCHANGED <<sent, skipped>>
  /\ UNCHANGED <<logVars, readVars, sizeVars, gap, cuts>>

StreamOpen ==
  /\ pc = "open"
  /\ pc' = IF exists THEN "seek" ELSE "ended"
  /\ UNCHANGED <<logVars, readVars, sizeVars, history, cuts>>

\* seek(SeekFrom::End(0)).  Mutant: from the beginning.
SeekStart == 0
SeekEnd == Len(file)

StreamSeek ==
  /\ pc = "seek"
  /\ off' = SeekEnd
  /\ gap' = { n \in NSet(SubSeq(file, 1, SeekEnd)) : n \notin skipped /\ ~WasSent(n) }
  /\ pc' = "size"
  /\ UNCHANGED <<logVars, buf, sizeVars, sent, skipped, cuts>>

StreamSize ==
  /\ pc = "size"
  /\ lastSize' = IF exists THEN Len(file) ELSE 0
  /\ pc' = "poll"
  /\ UNCHANGED <<logVars, readVars, currentSize, history, cuts>>

----------------------------------------------------------------------------
(* The polls. *)

\* metadata; without a file the poll is skipped.
PollSize ==
  /\ pc = "poll"
  /\ exists
  /\ currentSize' = Len(file)
  /\ pc' = IF currentSize' < lastSize THEN "reopen" ELSE "read"
  /\ UNCHANGED <<logVars, readVars, lastSize, history, cuts>>

\* A log that shrank was truncated.  Mutant: the old reader is kept.
KeptReader == off
NewReader == 0

PollReopen ==
  /\ pc = "reopen"
  /\ \/ /\ exists
        /\ off' = NewReader /\ buf' = <<>>
        /\ lastSize' = 0
        /\ unseen' = FALSE
        /\ pc' = "read"
     \/ /\ ~exists
        /\ pc' = "poll"
        /\ UNCHANGED <<readVars, lastSize, unseen>>
  /\ UNCHANGED <<logVars, currentSize, history, torn>>

\* The first line of the buffer, with its end.
HasLine == \E i \in DOMAIN buf : EndsLine(buf[i])
LineLen == CHOOSE i \in DOMAIN buf :
             EndsLine(buf[i]) /\ \A j \in 1 .. i - 1 : ~EndsLine(buf[j])

\* read_line takes more off the log, as much as there is or less, ...
PollFill ==
  /\ pc = "read"
  /\ ~HasLine
  /\ off < Len(file)
  /\ \E m \in off + 1 .. Len(file) :
       /\ buf' = buf \o SubSeq(file, off + 1, m)
       /\ off' = m
  /\ UNCHANGED <<logVars, pc, sizeVars, history, cuts>>

\* ... until it has a line, which is sent, or dropped with the rest of the poll
\* if it is no UTF-8, ...
PollLine ==
  /\ pc = "read"
  /\ HasLine
  /\ buf' = SubSeq(buf, LineLen + 1, Len(buf))
  /\ \/ /\ buf[LineLen].kind = "eol"
        /\ sent' = sent \o Ns(SubSeq(buf, 1, LineLen))
        /\ UNCHANGED <<pc, lastSize>>
     \/ /\ buf[LineLen].kind = "bad"
        /\ pc' = "poll"
        /\ lastSize' = currentSize
        /\ UNCHANGED sent
  /\ UNCHANGED <<logVars, off, currentSize, skipped, gap, cuts>>

\* What is left of a line that has no end yet.  Mutant: it is dropped.
DroppedPart == <<>>
SentPart == Ns(buf)

\* ... or reaches the end of the log: a part of a line is sent as it is, ...
PollPart ==
  /\ pc = "read"
  /\ ~HasLine /\ off >= Len(file) /\ buf # <<>>
  /\ sent' = sent \o SentPart
  /\ buf' = <<>>
  /\ UNCHANGED <<logVars, pc, off, sizeVars, skipped, gap, cuts>>

\* ... and the poll ends.
PollEnd ==
  /\ pc = "read"
  /\ off >= Len(file) /\ buf = <<>>
  /\ lastSize' = currentSize
  /\ pc' = "poll"
  /\ UNCHANGED <<logVars, readVars, currentSize, history, cuts>>

----------------------------------------------------------------------------
Stream ==
  \/ StreamCheck \/ StreamFirst \/ StreamOpen \/ StreamSeek \/ StreamSize
  \/ PollSize \/ PollReopen \/ PollFill \/ PollLine \/ PollPart \/ PollEnd

Next ==
  \/ Stream
  \/ LogCreated \/ LogTruncate \/ LogRemove
  \/ \E kind \in Kind : LogAppend(kind)

Spec == Init /\ [][Next]_vars

\* The server polls, and the client takes what it is sent.
FairSpec == Spec /\ WF_vars(Stream)

----------------------------------------------------------------------------
(* Properties. *)

\* What the client is sent it is sent once and in the order QEMU wrote it: the
\* first lines and the polls do not overlap, and a truncated log is read again
\* from its beginning only if what it holds is new.  The exception is a log
\* truncated during a poll: last_size is then a size of the log that is no more,
\* and the next poll may read again what this one has read.
InOrder ==
  ~torn => \A i, j \in DOMAIN sent : i < j => sent[i] < sent[j]

\* The line a piece of the log is in ends with bytes that are not UTF-8.
InBadLine(i) ==
  \E j \in i .. Len(file) : file[j].kind = "bad" /\ \A k \in i .. j - 1 : ~EndsLine(file[k])

Accounted(i) ==
  \/ file[i].n \in NSet(buf) \cup skipped \cup gap
  \/ WasSent(file[i].n)
  \/ InBadLine(i)

\* The stream passes over nothing: behind its reader there are only pieces it has
\* sent or is about to send, those before the first lines, those written between
\* reading these and the seek, and lines that are not UTF-8.  The exception is a
\* log that was truncated and has grown past last_size before the next poll.
NothingPassedOver ==
  ~unseen => \A i \in DOMAIN file : i <= off => Accounted(i)

\* A log that is neither truncated nor removed is followed: each piece of it is
\* sent in the end, a part of a line too, with the same exceptions.
Follows ==
  \A n \in 1 .. MaxPieces :
    (pc = "poll" /\ n \in NSet(file)) ~>
      \/ truncates > 0 \/ ~exists
      \/ n \in DOMAIN file /\ Accounted(n) /\ n \notin NSet(buf)
=============================================================================
