--------------------------- MODULE LogStreamProofs ---------------------------
(***************************************************************************)
(* Proofs about LogStream, for any number of first lines, of pieces and of *)
(* truncations: what the client is sent comes in order and once, and the   *)
(* stream passes over nothing it should send.                              *)
(***************************************************************************)
EXTENDS LogStream, SequenceTheorems, FiniteSetTheorems, WellFoundedInduction, TLAPS

Bit == [n : Nat, kind : Kind]

LogTypeOK ==
  /\ file \in Seq(Bit) /\ written \in Nat
  /\ pc \in {"check", "first", "open", "seek", "size", "poll", "reopen", "read", "ended"}
  /\ off \in Nat /\ buf \in Seq(Bit)
  /\ lastSize \in Nat /\ currentSize \in Nat
  /\ sent \in Seq(Nat)
  /\ torn \in BOOLEAN /\ unseen \in BOOLEAN

(* The log numbers its pieces without a hole, from where it was last truncated; what    *)
(* was read of it has been written.                                                     *)
NumberInv ==
  /\ Len(file) <= written
  /\ \A i \in 1 .. Len(file) : file[i].n = written - Len(file) + i
  /\ \A i \in 1 .. Len(buf) : buf[i].n <= written
  /\ \A i \in 1 .. Len(sent) : sent[i] <= written

Streaming == pc \in {"size", "poll", "reopen", "read"}
StartInv ==
  /\ ~Streaming => off = 0 /\ buf = <<>> /\ lastSize = 0
  /\ pc \in {"check", "first"} => sent = <<>>
  /\ pc \in {"check", "first", "open", "seek"} => ~unseen

(* What was sent and what the reader holds rise, and all that the log has past o is     *)
(* newer.                                                                               *)
Rising(s) == \A i, j \in 1 .. Len(s) : i < j => s[i] < s[j]
InLine(s, b) ==
  /\ Rising(s)
  /\ \A i, j \in 1 .. Len(b) : i < j => b[i].n < b[j].n
  /\ \A i \in 1 .. Len(s), j \in 1 .. Len(b) : s[i] < b[j].n
Newer(s, b, f, o) ==
  \A k \in o + 1 .. Len(f) :
    /\ \A i \in 1 .. Len(s) : s[i] < f[k].n
    /\ \A i \in 1 .. Len(b) : b[i].n < f[k].n
OrderInv ==
  ~torn =>
    /\ InLine(sent, buf)
    /\ Streaming => Newer(sent, buf, file, off)
    /\ pc = "reopen" => Newer(sent, buf, file, 0)
    /\ Len(file) < lastSize => Newer(sent, buf, file, 0)
    /\ pc \in {"reopen", "read"} => currentSize <= Len(file)
    /\ pc = "read" => lastSize <= Len(file)

(* The reader of a log that was not truncated holds the last it read of it, and all it  *)
(* has read is accounted for.                                                           *)
ReaderInv ==
  ~unseen =>
    /\ Len(buf) <= off /\ off <= Len(file)
    /\ \A i \in 1 .. Len(buf) : buf[i] = file[off - Len(buf) + i]
    /\ \A i \in 1 .. off : Accounted(i)

LogInv == LogTypeOK /\ NumberInv /\ StartInv /\ OrderInv /\ ReaderInv

----------------------------------------------------------------------------
(* Lemmas about the operators. *)

(* A set of numbers has a least one. *)
LEMMA Least ==
  ASSUME NEW S \in SUBSET Nat, S # {}
  PROVE  \E m \in S : \A k \in S : m <= k
<1>1. \E m \in S : \A k \in S : <<k, m>> \notin OpToRel(<, Nat)
  BY WFMin, NatLessThanWellFounded, Zenon
<1>2. \E m \in S : \A k \in S : ~(k < m)
  BY <1>1 DEF OpToRel
<1> QED BY <1>2

(* A part of a sequence. *)
LEMMA Slice ==
  ASSUME NEW T, NEW s \in Seq(T), NEW a \in Nat, NEW b \in Nat, a <= b, b <= Len(s)
  PROVE  /\ SubSeq(s, a + 1, b) \in Seq(T) /\ Len(SubSeq(s, a + 1, b)) = b - a
         /\ \A i \in 1 .. b - a : SubSeq(s, a + 1, b)[i] = s[a + i] /\ a + i \in 1 .. Len(s)
<1>1. Len(s) \in Nat /\ \A i \in a + 1 .. b : s[i] \in T
  OBVIOUS
<1>2. CASE a < b
  <2>1. /\ SubSeq(s, a + 1, b) \in Seq(T)
        /\ Len(SubSeq(s, a + 1, b)) = b - (a + 1) + 1
        /\ \A i \in 1 .. b - (a + 1) + 1 : SubSeq(s, a + 1, b)[i] = s[(a + 1) + i - 1]
    BY <1>1, <1>2, SubSeqProperties
  <2> DEFINE e == SubSeq(s, a + 1, b)
  <2> HIDE DEF e
  <2>2. b - (a + 1) + 1 = b - a
    OBVIOUS
  <2>3. \A i \in 1 .. b - a : (a + 1) + i - 1 = a + i /\ a + i \in 1 .. Len(s)
    BY <1>1
  <2> QED BY <2>1, <2>2, <2>3
<1>3. CASE a = b
  <2>1. SubSeq(s, a + 1, b) = <<>>
    BY <1>3, SubSeqEmpty
  <2>2. b - a = 0
    BY <1>3
  <2> QED BY <2>1, <2>2
<1> QED BY <1>2, <1>3

(* One sequence behind another. *)
LEMMA Joined ==
  ASSUME NEW T, NEW s \in Seq(T), NEW t \in Seq(T)
  PROVE  /\ s \o t \in Seq(T) /\ Len(s \o t) = Len(s) + Len(t)
         /\ Len(s) \in Nat /\ Len(t) \in Nat
         /\ \A i \in 1 .. Len(s) : (s \o t)[i] = s[i] /\ i \in 1 .. Len(s \o t)
         /\ \A i \in 1 .. Len(t) : (s \o t)[Len(s) + i] = t[i] /\ Len(s) + i \in 1 .. Len(s \o t)
         /\ \A i \in 1 .. Len(s \o t) :
              \/ i \in 1 .. Len(s) /\ (s \o t)[i] = s[i]
              \/ i > Len(s) /\ i - Len(s) \in 1 .. Len(t) /\ (s \o t)[i] = t[i - Len(s)]
<1> DEFINE e == s \o t
           l == Len(s)
           n == Len(t)
<1>1. /\ e \in Seq(T) /\ Len(e) = l + n /\ l \in Nat /\ n \in Nat
      /\ \A i \in 1 .. l + n : e[i] = IF i <= l THEN s[i] ELSE t[i - l]
  BY ConcatProperties
<1> HIDE DEF e, l, n
<1>2. ASSUME NEW i \in 1 .. l
      PROVE  e[i] = s[i] /\ i \in 1 .. l + n
  <2>1. i \in 1 .. l + n /\ i <= l
    BY <1>1
  <2> QED BY <1>1, <2>1
<1>3. ASSUME NEW i \in 1 .. n
      PROVE  e[l + i] = t[i] /\ l + i \in 1 .. l + n
  <2>1. l + i \in 1 .. l + n /\ ~(l + i <= l) /\ (l + i) - l = i
    BY <1>1
  <2> QED BY <1>1, <2>1
<1>4. ASSUME NEW i \in 1 .. l + n
      PROVE  \/ i \in 1 .. l /\ e[i] = s[i]
             \/ i > l /\ i - l \in 1 .. n /\ e[i] = t[i - l]
  <2>1. CASE i <= l
    BY <1>1, <2>1
  <2>2. CASE ~(i <= l)
    <3>1. i > l /\ i - l \in 1 .. n
      BY <1>1, <2>2
    <3> QED BY <1>1, <2>2, <3>1
  <2> QED BY <2>1, <2>2
<1> QED BY <1>1, <1>2, <1>3, <1>4 DEF e, l, n

(* The same for numbers. *)
LEMMA JoinedNumbers ==
  ASSUME NEW s \in Seq(Nat), NEW t \in Seq(Nat)
  PROVE  /\ s \o t \in Seq(Nat) /\ Len(s \o t) = Len(s) + Len(t)
         /\ Len(s) \in Nat /\ Len(t) \in Nat
         /\ \A i \in 1 .. Len(s) : (s \o t)[i] = s[i] /\ i \in 1 .. Len(s \o t)
         /\ \A i \in 1 .. Len(t) : (s \o t)[Len(s) + i] = t[i] /\ Len(s) + i \in 1 .. Len(s \o t)
         /\ \A i \in 1 .. Len(s \o t) :
              \/ i \in 1 .. Len(s) /\ (s \o t)[i] = s[i]
              \/ i > Len(s) /\ i - Len(s) \in 1 .. Len(t) /\ (s \o t)[i] = t[i - Len(s)]
BY Joined

(* The pieces of a sequence of pieces have numbers. *)
LEMMA BitTypes ==
  ASSUME NEW s \in Seq(Bit)
  PROVE  Len(s) \in Nat /\ \A i \in 1 .. Len(s) : s[i] \in Bit /\ s[i].n \in Nat
<1>1. Len(s) \in Nat /\ \A i \in 1 .. Len(s) : s[i] \in Bit
  OBVIOUS
<1>2. \A p \in Bit : p.n \in Nat
  BY DEF Bit
<1> QED BY <1>1, <1>2

(* The numbers of a sequence of pieces. *)
LEMMA NsIs ==
  ASSUME NEW s \in Seq(Bit)
  PROVE  Ns(s) \in Seq(Nat) /\ Len(Ns(s)) = Len(s) /\ \A i \in 1 .. Len(s) : Ns(s)[i] = s[i].n
<1> DEFINE l == Len(s)
<1>1. l \in Nat /\ DOMAIN s = 1 .. l /\ \A i \in 1 .. l : s[i].n \in Nat
  BY BitTypes
<1> HIDE DEF l
<1>2. Ns(s) = [i \in 1 .. l |-> s[i].n]
  BY <1>1 DEF Ns
<1> DEFINE e == [i \in 1 .. l |-> s[i].n]
<1>3. e \in [1 .. l -> Nat] /\ \A i \in 1 .. l : e[i] = s[i].n
  BY <1>1
<1> HIDE DEF e
<1>4. e \in Seq(Nat) /\ Len(e) = l
  BY <1>1, <1>3
<1> QED BY <1>2, <1>3, <1>4 DEF e, l

(* The first line of the buffer ends where no earlier piece ends one. *)
LEMMA LineLenIs ==
  ASSUME buf \in Seq(Bit), HasLine
  PROVE  /\ LineLen \in 1 .. Len(buf) /\ EndsLine(buf[LineLen])
         /\ \A j \in 1 .. LineLen - 1 : ~EndsLine(buf[j])
<1> DEFINE S == { i \in 1 .. Len(buf) : EndsLine(buf[i]) }
<1>1. DOMAIN buf = 1 .. Len(buf) /\ Len(buf) \in Nat
  OBVIOUS
<1>2. S # {} /\ S \in SUBSET Nat
  BY <1>1 DEF HasLine
<1>3. PICK m \in S : \A k \in S : m <= k
  BY <1>2, Least
<1>4. ASSUME NEW j \in 1 .. m - 1
      PROVE  ~EndsLine(buf[j])
  <2>1. j \in 1 .. Len(buf) /\ ~(m <= j)
    BY <1>1
  <2> QED BY <1>3, <2>1
<1>5. m \in DOMAIN buf /\ EndsLine(buf[m])
  BY <1>1
<1>6. \E i \in DOMAIN buf : EndsLine(buf[i]) /\ \A j \in 1 .. i - 1 : ~EndsLine(buf[j])
  BY <1>4, <1>5
<1>7. /\ LineLen \in DOMAIN buf /\ EndsLine(buf[LineLen])
      /\ \A j \in 1 .. LineLen - 1 : ~EndsLine(buf[j])
  BY <1>6 DEF LineLen
<1> QED BY <1>1, <1>7

(* The last lines of a log begin somewhere in it. *)
LEMMA SkippedByIs ==
  ASSUME NEW s \in Seq(Bit), NEW n \in Nat
  PROVE  SkippedBy(s, n) \in 0 .. Len(s)
<1> DEFINE S == { i \in LineStarts(s) : LinesFrom(s, i) <= n }
<1>1. Len(s) \in Nat /\ LineStarts(s) \subseteq 0 .. Len(s)
  BY DEF LineStarts
<1>2. Len(s) \in S
  <2>1. { j \in Len(s) + 1 .. Len(s) : j = Len(s) \/ EndsLine(s[j]) } = {}
    BY <1>1
  <2>2. LinesFrom(s, Len(s)) = 0
    BY <2>1, FS_EmptySet DEF LinesFrom
  <2>3. Len(s) \in LineStarts(s)
    BY <1>1 DEF LineStarts
  <2> QED BY <2>2, <2>3
<1>3. S \in SUBSET Nat
  BY <1>1
<1>4. PICK m \in S : \A k \in S : m <= k
  BY <1>2, <1>3, Least
<1>5. ASSUME NEW j \in LineStarts(s), j < m
      PROVE  LinesFrom(s, j) > n
  <2>1. j \notin S
    BY <1>1, <1>3, <1>4, <1>5
  <2>2. LinesFrom(s, j) \in Nat
    <3>1. IsFiniteSet(j + 1 .. Len(s))
      BY <1>1, FS_Interval
    <3>2. { k \in j + 1 .. Len(s) : k = Len(s) \/ EndsLine(s[k]) } \in SUBSET (j + 1 .. Len(s))
      OBVIOUS
    <3>3. IsFiniteSet({ k \in j + 1 .. Len(s) : k = Len(s) \/ EndsLine(s[k]) })
      BY <3>1, <3>2, FS_Subset
    <3> QED BY <3>3, FS_CardinalityType DEF LinesFrom
  <2>3. ~(LinesFrom(s, j) <= n)
    BY <2>1
  <2> QED BY <2>2, <2>3
<1>6. m \in LineStarts(s) /\ LinesFrom(s, m) <= n
  OBVIOUS
<1>7. \E i \in LineStarts(s) : LinesFrom(s, i) <= n /\ \A j \in LineStarts(s) : j < i => LinesFrom(s, j) > n
  BY <1>5, <1>6
<1>8. SkippedBy(s, n) \in LineStarts(s)
  BY <1>7, Zenon DEF SkippedBy
<1> QED BY <1>1, <1>8

----------------------------------------------------------------------------
(* The invariant. *)

(* The invariant holds before QEMU opens the log. *)
LEMMA LogInit == Init => LogInv
<1> SUFFICES ASSUME Init PROVE LogInv
  OBVIOUS
<1>1. LogTypeOK
  <2>1. <<>> \in Seq(Bit) /\ <<>> \in Seq(Nat)
    OBVIOUS
  <2> QED BY <2>1 DEF Init, LogTypeOK
<1>2. Len(file) = 0 /\ Len(buf) = 0 /\ Len(sent) = 0 /\ written = 0 /\ off = 0 /\ lastSize = 0
  BY DEF Init
<1>3. NumberInv
  BY <1>2 DEF NumberInv
<1>4. StartInv
  BY DEF Init, StartInv
<1>5. OrderInv
  <2>1. pc = "check"
    BY DEF Init
  <2>2. Newer(sent, buf, file, 0)
    BY <1>2 DEF Newer
  <2> QED BY <1>2, <2>1, <2>2 DEF OrderInv, InLine, Rising, Streaming
<1>6. ReaderInv
  BY <1>2 DEF ReaderInv
<1> QED BY <1>1, <1>3, <1>4, <1>5, <1>6 DEF LogInv

(* What the actions take and leave. *)
LEMMA Lines ==
  ASSUME LogTypeOK, PollLine
  PROVE  /\ LineLen \in 1 .. Len(buf) /\ Len(buf) \in Nat /\ EndsLine(buf[LineLen])
         /\ \A j \in 1 .. LineLen - 1 : ~EndsLine(buf[j])
         /\ buf' \in Seq(Bit) /\ Len(buf') = Len(buf) - LineLen
         /\ \A i \in 1 .. Len(buf) - LineLen : buf'[i] = buf[LineLen + i] /\ LineLen + i \in 1 .. Len(buf)
<1>1. buf \in Seq(Bit) /\ HasLine /\ buf' = SubSeq(buf, LineLen + 1, Len(buf)) /\ Len(buf) \in Nat
  BY DEF LogTypeOK, PollLine
<1>2. /\ LineLen \in 1 .. Len(buf) /\ EndsLine(buf[LineLen])
      /\ \A j \in 1 .. LineLen - 1 : ~EndsLine(buf[j])
  BY <1>1, LineLenIs
<1>3. LineLen \in Nat /\ LineLen <= Len(buf) /\ Len(buf) <= Len(buf)
  BY <1>1, <1>2
<1> QED BY <1>1, <1>2, <1>3, Slice

(* A line that is sent follows what was sent before it. *)
LEMMA LineSent ==
  ASSUME LogTypeOK, PollLine, buf[LineLen].kind = "eol"
  PROVE  /\ sent' \in Seq(Nat) /\ Len(sent') = Len(sent) + LineLen /\ Len(sent) \in Nat
         /\ UNCHANGED <<pc, lastSize>>
         /\ \A i \in 1 .. Len(sent) : sent'[i] = sent[i] /\ i \in 1 .. Len(sent')
         /\ \A i \in 1 .. LineLen : sent'[Len(sent) + i] = buf[i].n /\ Len(sent) + i \in 1 .. Len(sent')
         /\ \A i \in 1 .. Len(sent') :
              \/ i \in 1 .. Len(sent) /\ sent'[i] = sent[i]
              \/ i > Len(sent) /\ i - Len(sent) \in 1 .. LineLen /\ sent'[i] = buf[i - Len(sent)].n
<1> DEFINE t == Ns(SubSeq(buf, 1, LineLen))
           l == LineLen
<1>1. sent' = sent \o t /\ UNCHANGED <<pc, lastSize>> /\ sent \in Seq(Nat) /\ buf \in Seq(Bit)
  BY DEF PollLine, LogTypeOK
<1>2. l \in 1 .. Len(buf) /\ Len(buf) \in Nat
  BY Lines
<1>3. t \in Seq(Nat) /\ Len(t) = l /\ \A i \in 1 .. l : t[i] = buf[i].n
  <2> HIDE DEF l
  <2>1. l \in Nat /\ l <= Len(buf) /\ 0 <= l /\ l - 0 = l /\ 0 + 1 = 1
    BY <1>2
  <2> DEFINE u == SubSeq(buf, 1, l)
  <2>2. u \in Seq(Bit) /\ Len(u) = l /\ \A i \in 1 .. l : u[i] = buf[0 + i]
    BY <1>1, <2>1, Slice
  <2>3. \A i \in 1 .. l : 0 + i = i
    BY <2>1
  <2>4. t = Ns(u)
    BY DEF l
  <2> HIDE DEF u, t
  <2>5. Ns(u) \in Seq(Nat) /\ Len(Ns(u)) = Len(u) /\ \A i \in 1 .. Len(u) : Ns(u)[i] = u[i].n
    BY <2>2, NsIs
  <2> QED BY <2>2, <2>3, <2>4, <2>5
<1> HIDE DEF t, l
<1>4. /\ sent' \in Seq(Nat) /\ Len(sent') = Len(sent) + l /\ Len(sent) \in Nat
      /\ \A i \in 1 .. Len(sent) : sent'[i] = sent[i] /\ i \in 1 .. Len(sent')
      /\ \A i \in 1 .. l : sent'[Len(sent) + i] = t[i] /\ Len(sent) + i \in 1 .. Len(sent')
      /\ \A i \in 1 .. Len(sent') :
           \/ i \in 1 .. Len(sent) /\ sent'[i] = sent[i]
           \/ i > Len(sent) /\ i - Len(sent) \in 1 .. l /\ sent'[i] = t[i - Len(sent)]
  <2> DEFINE e == sent \o t
  <2>1. /\ e \in Seq(Nat) /\ Len(e) = Len(sent) + Len(t) /\ Len(sent) \in Nat
        /\ \A i \in 1 .. Len(sent) : e[i] = sent[i] /\ i \in 1 .. Len(e)
        /\ \A i \in 1 .. Len(t) : e[Len(sent) + i] = t[i] /\ Len(sent) + i \in 1 .. Len(e)
        /\ \A i \in 1 .. Len(e) :
             \/ i \in 1 .. Len(sent) /\ e[i] = sent[i]
             \/ i > Len(sent) /\ i - Len(sent) \in 1 .. Len(t) /\ e[i] = t[i - Len(sent)]
    BY <1>1, <1>3, JoinedNumbers
  <2>2. sent' = e
    BY <1>1
  <2> HIDE DEF e
  <2> QED BY <2>1, <2>2, <1>3
<1>5. \A i \in 1 .. Len(sent') :
           \/ i \in 1 .. Len(sent) /\ sent'[i] = sent[i]
           \/ i > Len(sent) /\ i - Len(sent) \in 1 .. l /\ sent'[i] = buf[i - Len(sent)].n
  BY <1>3, <1>4
<1>6. \A i \in 1 .. l : sent'[Len(sent) + i] = buf[i].n /\ Len(sent) + i \in 1 .. Len(sent')
  BY <1>3, <1>4
<1> QED BY <1>1, <1>4, <1>5, <1>6 DEF l

(* The part of a line that is sent follows it too. *)
LEMMA PartSent ==
  ASSUME LogTypeOK, PollPart
  PROVE  /\ sent' \in Seq(Nat) /\ Len(sent') = Len(sent) + Len(buf) /\ Len(sent) \in Nat
         /\ \A i \in 1 .. Len(sent) : sent'[i] = sent[i] /\ i \in 1 .. Len(sent')
         /\ \A i \in 1 .. Len(buf) : sent'[Len(sent) + i] = buf[i].n /\ Len(sent) + i \in 1 .. Len(sent')
         /\ \A i \in 1 .. Len(sent') :
              \/ i \in 1 .. Len(sent) /\ sent'[i] = sent[i]
              \/ i > Len(sent) /\ i - Len(sent) \in 1 .. Len(buf) /\ sent'[i] = buf[i - Len(sent)].n
<1> DEFINE t == Ns(buf)
<1>1. sent' = sent \o t /\ sent \in Seq(Nat) /\ buf \in Seq(Bit)
  BY DEF PollPart, SentPart, LogTypeOK
<1>2. t \in Seq(Nat) /\ Len(t) = Len(buf) /\ \A i \in 1 .. Len(buf) : t[i] = buf[i].n
  BY <1>1, NsIs
<1> HIDE DEF t
<1>4. /\ sent' \in Seq(Nat) /\ Len(sent') = Len(sent) + Len(buf) /\ Len(sent) \in Nat
      /\ \A i \in 1 .. Len(sent) : sent'[i] = sent[i] /\ i \in 1 .. Len(sent')
      /\ \A i \in 1 .. Len(buf) : sent'[Len(sent) + i] = t[i] /\ Len(sent) + i \in 1 .. Len(sent')
      /\ \A i \in 1 .. Len(sent') :
           \/ i \in 1 .. Len(sent) /\ sent'[i] = sent[i]
           \/ i > Len(sent) /\ i - Len(sent) \in 1 .. Len(buf) /\ sent'[i] = t[i - Len(sent)]
  <2> DEFINE e == sent \o t
  <2>1. /\ e \in Seq(Nat) /\ Len(e) = Len(sent) + Len(t) /\ Len(sent) \in Nat
        /\ \A i \in 1 .. Len(sent) : e[i] = sent[i] /\ i \in 1 .. Len(e)
        /\ \A i \in 1 .. Len(t) : e[Len(sent) + i] = t[i] /\ Len(sent) + i \in 1 .. Len(e)
        /\ \A i \in 1 .. Len(e) :
             \/ i \in 1 .. Len(sent) /\ e[i] = sent[i]
             \/ i > Len(sent) /\ i - Len(sent) \in 1 .. Len(t) /\ e[i] = t[i - Len(sent)]
    BY <1>1, <1>2, JoinedNumbers
  <2>2. sent' = e
    BY <1>1
  <2> HIDE DEF e
  <2> QED BY <2>1, <2>2, <1>2
<1>5. \A i \in 1 .. Len(sent') :
           \/ i \in 1 .. Len(sent) /\ sent'[i] = sent[i]
           \/ i > Len(sent) /\ i - Len(sent) \in 1 .. Len(buf) /\ sent'[i] = buf[i - Len(sent)].n
  BY <1>2, <1>4
<1>6. \A i \in 1 .. Len(buf) : sent'[Len(sent) + i] = buf[i].n /\ Len(sent) + i \in 1 .. Len(sent')
  BY <1>2, <1>4
<1> QED BY <1>1, <1>4, <1>5, <1>6

(* A read puts what follows in the log behind what the reader holds. *)
LEMMA Filled ==
  ASSUME LogTypeOK, PollFill
  PROVE  /\ off' \in Nat /\ off' > off /\ off' <= Len(file) /\ Len(buf) \in Nat /\ Len(file) \in Nat
         /\ buf' \in Seq(Bit) /\ Len(buf') = Len(buf) + (off' - off)
         /\ \A i \in 1 .. Len(buf) : buf'[i] = buf[i] /\ i \in 1 .. Len(buf')
         /\ \A i \in 1 .. off' - off :
              buf'[Len(buf) + i] = file[off + i] /\ Len(buf) + i \in 1 .. Len(buf')
         /\ \A i \in 1 .. Len(buf') :
              \/ i \in 1 .. Len(buf) /\ buf'[i] = buf[i]
              \/ /\ i > Len(buf) /\ i - Len(buf) \in 1 .. off' - off
                 /\ off + (i - Len(buf)) \in off + 1 .. off' /\ buf'[i] = file[off + (i - Len(buf))]
<1>1. file \in Seq(Bit) /\ buf \in Seq(Bit) /\ off \in Nat /\ Len(file) \in Nat /\ Len(buf) \in Nat
  BY DEF LogTypeOK
<1>2. PICK m \in off + 1 .. Len(file) : buf' = buf \o SubSeq(file, off + 1, m) /\ off' = m
  BY DEF PollFill
<1> DEFINE t == SubSeq(file, off + 1, m)
           d == m - off
<1>3. m \in Nat /\ off <= m /\ m <= Len(file) /\ m > off
  BY <1>1, <1>2
<1>4. t \in Seq(Bit) /\ Len(t) = d /\ \A i \in 1 .. d : t[i] = file[off + i]
  BY <1>1, <1>3, Slice
<1>5. buf' = buf \o t
  BY <1>2
<1> HIDE DEF t
<1>6. /\ buf' \in Seq(Bit) /\ Len(buf') = Len(buf) + Len(t)
      /\ \A i \in 1 .. Len(buf) : buf'[i] = buf[i] /\ i \in 1 .. Len(buf')
      /\ \A i \in 1 .. Len(t) : buf'[Len(buf) + i] = t[i] /\ Len(buf) + i \in 1 .. Len(buf')
      /\ \A i \in 1 .. Len(buf') :
           \/ i \in 1 .. Len(buf) /\ buf'[i] = buf[i]
           \/ i > Len(buf) /\ i - Len(buf) \in 1 .. Len(t) /\ buf'[i] = t[i - Len(buf)]
  <2> DEFINE e == buf \o t
  <2>1. /\ e \in Seq(Bit) /\ Len(e) = Len(buf) + Len(t) /\ Len(buf) \in Nat
        /\ \A i \in 1 .. Len(buf) : e[i] = buf[i] /\ i \in 1 .. Len(e)
        /\ \A i \in 1 .. Len(t) : e[Len(buf) + i] = t[i] /\ Len(buf) + i \in 1 .. Len(e)
        /\ \A i \in 1 .. Len(e) :
             \/ i \in 1 .. Len(buf) /\ e[i] = buf[i]
             \/ i > Len(buf) /\ i - Len(buf) \in 1 .. Len(t) /\ e[i] = t[i - Len(buf)]
    BY <1>1, <1>4, Joined, ZenonT(30)
  <2>2. buf' = e
    BY <1>5
  <2> HIDE DEF e
  <2> QED BY <2>1, <2>2, <1>1
<1>7. \A k \in 1 .. d : off + k \in off + 1 .. m
  BY <1>1, <1>3
<1> HIDE DEF d
<1>8. d = off' - off /\ m = off'
  BY <1>2 DEF d
<1>9. \A i \in 1 .. Len(buf') :
           \/ i \in 1 .. Len(buf) /\ buf'[i] = buf[i]
           \/ /\ i > Len(buf) /\ i - Len(buf) \in 1 .. d
              /\ off + (i - Len(buf)) \in off + 1 .. m /\ buf'[i] = file[off + (i - Len(buf))]
  BY <1>4, <1>6, <1>7
<1>10. /\ Len(buf') = Len(buf) + d
       /\ \A i \in 1 .. d : buf'[Len(buf) + i] = file[off + i] /\ Len(buf) + i \in 1 .. Len(buf')
  BY <1>4, <1>6
<1> QED BY <1>1, <1>3, <1>6, <1>8, <1>9, <1>10

(* One more piece at the end of the log. *)
LEMMA Appended ==
  ASSUME LogTypeOK, NEW kind \in Kind, LogAppend(kind)
  PROVE  /\ file' \in Seq(Bit) /\ Len(file') = Len(file) + 1 /\ Len(file) \in Nat
         /\ \A i \in 1 .. Len(file) : file'[i] = file[i] /\ i \in 1 .. Len(file')
         /\ file'[Len(file) + 1].n = written + 1 /\ written' = written + 1
         /\ \A i \in 1 .. Len(file') : i \in 1 .. Len(file) \/ i = Len(file) + 1
         /\ UNCHANGED <<name, pc, off, buf, lastSize, currentSize, sent, skipped, gap, torn, unseen>>
<1> DEFINE p == [n |-> written + 1, kind |-> kind]
<1>1. /\ file' = Append(file, p) /\ written' = written + 1 /\ file \in Seq(Bit) /\ written \in Nat
      /\ UNCHANGED <<name, pc, off, buf, lastSize, currentSize, sent, skipped, gap, torn, unseen>>
  BY DEF LogAppend, LogTypeOK, readVars, sizeVars, history, cuts
<1>2. p \in Bit /\ p.n = written + 1
  BY <1>1 DEF Bit
<1> HIDE DEF p
<1>3. /\ file' \in Seq(Bit) /\ Len(file') = Len(file) + 1 /\ Len(file) \in Nat
      /\ \A i \in 1 .. Len(file) : file'[i] = file[i]
      /\ file'[Len(file) + 1] = p
  BY <1>1, <1>2
<1> QED BY <1>1, <1>2, <1>3

(* The first lines are the end of the log, or nothing. *)
LEMMA Firsts ==
  ASSUME LogTypeOK, StreamFirst
  PROVE  /\ pc = "first" /\ pc' \in {"open", "ended"}
         /\ UNCHANGED <<file, name, written, off, buf, lastSize, currentSize, gap, torn, unseen>>
         /\ \/ sent' = sent
            \/ sent' \in Seq(Nat) /\ \E a \in 0 .. Len(file) :
                 /\ Len(sent') = Len(file) - a
                 /\ \A i \in 1 .. Len(sent') : sent'[i] = file[a + i].n /\ a + i \in 1 .. Len(file)
<1>1. /\ pc = "first" /\ pc' \in {"open", "ended"}
      /\ UNCHANGED <<file, name, written, off, buf, lastSize, currentSize, gap, torn, unseen>>
  BY DEF StreamFirst, logVars, readVars, sizeVars, cuts
<1> DEFINE seenLog == IF exists THEN file ELSE <<>>
           from == SkippedBy(seenLog, TailLines)
<1>2. sent' = sent \/ sent' = Ns(SubSeq(seenLog, from + 1, Len(seenLog)))
  BY DEF StreamFirst
<1>3. seenLog \in Seq(Bit) /\ (seenLog = file \/ Len(seenLog) = 0) /\ Len(file) \in Nat
  BY DEF LogTypeOK
<1> HIDE DEF seenLog
<1>4. from \in 0 .. Len(seenLog) /\ Len(seenLog) \in Nat
  BY <1>3, LogAssumption, SkippedByIs
<1> HIDE DEF from
<1>5. ASSUME sent' = Ns(SubSeq(seenLog, from + 1, Len(seenLog)))
      PROVE  /\ sent' \in Seq(Nat)
             /\ \E a \in 0 .. Len(file) :
                  /\ Len(sent') = Len(file) - a
                  /\ \A i \in 1 .. Len(sent') : sent'[i] = file[a + i].n /\ a + i \in 1 .. Len(file)
  <2> DEFINE u == SubSeq(seenLog, from + 1, Len(seenLog))
             l == Len(seenLog)
  <2>1. from \in Nat /\ from <= l /\ l <= l /\ l \in Nat
    BY <1>4
  <2>2. u \in Seq(Bit) /\ Len(u) = l - from
        /\ \A i \in 1 .. l - from : u[i] = seenLog[from + i] /\ from + i \in 1 .. l
    BY <1>3, <2>1, Slice
  <2>3. sent' = Ns(u)
    BY <1>5
  <2> HIDE DEF u, l
  <2>4. Ns(u) \in Seq(Nat) /\ Len(Ns(u)) = Len(u) /\ \A i \in 1 .. Len(u) : Ns(u)[i] = u[i].n
    BY <2>2, NsIs
  <2>5. sent' \in Seq(Nat) /\ Len(sent') = l - from
        /\ \A i \in 1 .. l - from : sent'[i] = seenLog[from + i].n /\ from + i \in 1 .. l
    BY <2>2, <2>3, <2>4
  <2>6. CASE seenLog = file
    <3>1. l = Len(file) /\ from \in 0 .. Len(file)
      BY <2>1, <2>6 DEF l
    <3> QED BY <2>5, <2>6, <3>1
  <2>7. CASE Len(seenLog) = 0
    <3>1. l - from = 0 /\ Len(file) - Len(file) = 0 /\ Len(file) \in 0 .. Len(file)
      BY <1>3, <2>1, <2>7 DEF l
    <3>2. Len(sent') = 0
      BY <2>5, <3>1
    <3>3. \A i \in 1 .. Len(sent') : FALSE
      BY <3>2
    <3> QED BY <2>5, <3>1, <3>2, <3>3
  <2> QED BY <1>3, <2>6, <2>7
<1> QED BY <1>1, <1>2, <1>5

(* Every action keeps the types. *)
LEMMA LogTypeOKStep ==
  ASSUME LogTypeOK, [Next]_vars
  PROVE  LogTypeOK'
<1> USE DEF logVars, readVars, sizeVars, history, cuts, exists
<1>1. CASE UNCHANGED vars
  BY <1>1 DEF vars, LogTypeOK
<1>2. CASE LogCreated \/ LogRemove
  BY <1>2 DEF LogCreated, LogRemove, LogTypeOK
<1>3. CASE LogTruncate
  <2>1. <<>> \in Seq(Bit)
    OBVIOUS
  <2> QED BY <1>3, <2>1 DEF LogTruncate, LogTypeOK
<1>4. ASSUME NEW kind \in Kind, LogAppend(kind)
      PROVE  LogTypeOK'
  BY <1>4, Appended DEF LogTypeOK
<1>5. CASE StreamCheck \/ StreamOpen
  BY <1>5 DEF StreamCheck, StreamOpen, LogTypeOK
<1>6. CASE StreamFirst
  BY <1>6, Firsts DEF LogTypeOK
<1>7. CASE StreamSeek
  BY <1>7 DEF StreamSeek, SeekEnd, LogTypeOK
<1>8. CASE StreamSize
  BY <1>8 DEF StreamSize, LogTypeOK
<1>9. CASE PollSize
  BY <1>9 DEF PollSize, LogTypeOK
<1>10. CASE PollReopen
  <2>1. /\ UNCHANGED <<file, written, currentSize, sent, torn>> /\ pc' \in {"read", "poll"}
        /\ \/ off' = 0 /\ buf' = <<>> /\ lastSize' = 0 /\ unseen' = FALSE
           \/ UNCHANGED <<off, buf, lastSize, unseen>>
    BY <1>10 DEF PollReopen, NewReader
  <2>2. <<>> \in Seq(Bit)
    OBVIOUS
  <2>3. off' \in Nat /\ buf' \in Seq(Bit) /\ lastSize' \in Nat /\ unseen' \in BOOLEAN
    <3>1. CASE off' = 0 /\ buf' = <<>> /\ lastSize' = 0 /\ unseen' = FALSE
      BY <2>2, <3>1
    <3>2. CASE UNCHANGED <<off, buf, lastSize, unseen>>
      BY <3>2 DEF LogTypeOK
    <3> QED BY <2>1, <3>1, <3>2
  <2> QED BY <2>1, <2>3 DEF LogTypeOK
<1>11. CASE PollFill
  <2>1. UNCHANGED <<file, written, pc, lastSize, currentSize, sent, torn, unseen>>
    BY <1>11 DEF PollFill
  <2> QED BY <1>11, <2>1, Filled DEF LogTypeOK
<1>12. CASE PollLine
  <2>1. /\ UNCHANGED <<file, written, off, currentSize, torn, unseen>>
        /\ pc' \in {"read", "poll"} /\ (lastSize' = lastSize \/ lastSize' = currentSize)
        /\ (buf[LineLen].kind = "eol" \/ sent' = sent)
    BY <1>12 DEF PollLine
  <2>2. sent' \in Seq(Nat)
    BY <1>12, <2>1, LineSent DEF LogTypeOK
  <2> QED BY <1>12, <2>1, <2>2, Lines DEF LogTypeOK
<1>13. CASE PollPart
  <2>1. UNCHANGED <<file, written, pc, off, lastSize, currentSize, torn, unseen>> /\ buf' = <<>>
    BY <1>13 DEF PollPart
  <2>2. <<>> \in Seq(Bit)
    OBVIOUS
  <2> QED BY <1>13, <2>1, <2>2, PartSent DEF LogTypeOK
<1>14. CASE PollEnd
  BY <1>14 DEF PollEnd, LogTypeOK
<1> QED
  BY <1>1, <1>2, <1>3, <1>4, <1>5, <1>6, <1>7, <1>8, <1>9, <1>10, <1>11, <1>12, <1>13, <1>14
     DEF Next, Stream

(* The numbers of the pieces. *)
LEMMA NumberStep ==
  ASSUME LogTypeOK, NumberInv, [Next]_vars
  PROVE  NumberInv'
<1> USE DEF logVars, readVars, sizeVars, history, cuts
<1>0. /\ Len(file) \in Nat /\ Len(buf) \in Nat /\ Len(sent) \in Nat /\ written \in Nat
      /\ \A i \in 1 .. Len(file) : file[i].n \in Nat
      /\ \A i \in 1 .. Len(buf) : buf[i].n \in Nat
      /\ \A i \in 1 .. Len(sent) : sent[i] \in Nat
  BY BitTypes DEF LogTypeOK
<1>00. /\ Len(file) <= written
       /\ \A i \in 1 .. Len(file) : file[i].n = written - Len(file) + i
       /\ \A i \in 1 .. Len(buf) : buf[i].n <= written
       /\ \A i \in 1 .. Len(sent) : sent[i] <= written
  BY DEF NumberInv
<1>000. \A i \in 1 .. Len(file) : file[i].n <= written
  BY <1>0, <1>00
<1>1. CASE UNCHANGED <<file, written, sent>> /\ (buf' = buf \/ buf' = <<>>)
  <2>1. Len(buf') = 0 \/ buf' = buf
    BY <1>1
  <2>2. \A i \in 1 .. Len(buf') : buf'[i].n <= written
    BY <1>00, <2>1
  <2> QED BY <1>00, <1>1, <2>2 DEF NumberInv
<1>2. CASE LogTruncate
  <2>1. Len(file') = 0 /\ UNCHANGED <<written, buf, sent>>
    BY <1>2 DEF LogTruncate
  <2> QED BY <1>0, <1>00, <2>1 DEF NumberInv
<1>3. ASSUME NEW kind \in Kind, LogAppend(kind)
      PROVE  NumberInv'
  <2>1. /\ Len(file') = Len(file) + 1
        /\ \A i \in 1 .. Len(file) : file'[i] = file[i] /\ i \in 1 .. Len(file')
        /\ file'[Len(file) + 1].n = written + 1 /\ written' = written + 1
        /\ \A i \in 1 .. Len(file') : i \in 1 .. Len(file) \/ i = Len(file) + 1
        /\ UNCHANGED <<buf, sent>>
    BY <1>3, Appended
  <2>2. ASSUME NEW i \in 1 .. Len(file')
        PROVE  file'[i].n = written' - Len(file') + i
    <3>1. CASE i \in 1 .. Len(file)
      BY <1>0, <1>00, <2>1, <3>1
    <3>2. CASE i = Len(file) + 1
      BY <1>0, <2>1, <3>2
    <3> QED BY <2>1, <3>1, <3>2
  <2>3. \A i \in 1 .. Len(buf') : buf'[i].n <= written'
    BY <1>0, <1>00, <2>1
  <2>4. \A i \in 1 .. Len(sent') : sent'[i] <= written'
    BY <1>0, <1>00, <2>1
  <2> QED BY <1>0, <1>00, <2>1, <2>2, <2>3, <2>4 DEF NumberInv
<1>4. CASE StreamFirst
  <2>1. UNCHANGED <<file, written, buf>>
    BY <1>4, Firsts
  <2>2. CASE sent' = sent
    BY <1>1, <2>1, <2>2
  <2>3. CASE sent' # sent
    <3>1. PICK a \in 0 .. Len(file) :
            \A i \in 1 .. Len(sent') : sent'[i] = file[a + i].n /\ a + i \in 1 .. Len(file)
      BY <1>4, <2>3, Firsts
    <3>2. \A i \in 1 .. Len(sent') : sent'[i] <= written
      BY <1>000, <3>1
    <3> QED BY <1>00, <2>1, <3>2 DEF NumberInv
  <2> QED BY <2>2, <2>3
<1>5. CASE PollFill
  <2>1. UNCHANGED <<file, written, sent>>
    BY <1>5 DEF PollFill
  <2>2. \A i \in 1 .. Len(buf') :
          \/ i \in 1 .. Len(buf) /\ buf'[i] = buf[i]
          \/ /\ off + (i - Len(buf)) \in off + 1 .. off' /\ buf'[i] = file[off + (i - Len(buf))]
    BY <1>5, Filled
  <2>3. \A k \in off + 1 .. off' : k \in 1 .. Len(file)
    <3>1. off \in Nat /\ off' \in Nat /\ off' <= Len(file)
      BY <1>5, Filled DEF LogTypeOK
    <3> QED BY <1>0, <3>1
  <2>4. \A i \in 1 .. Len(buf') : buf'[i].n <= written
    BY <1>00, <1>000, <2>2, <2>3
  <2> QED BY <1>00, <2>1, <2>4 DEF NumberInv
<1>6. CASE PollLine
  <2>1. UNCHANGED <<file, written>> /\ (buf[LineLen].kind = "eol" \/ sent' = sent)
    BY <1>6 DEF PollLine
  <2>2. \A i \in 1 .. Len(buf') : buf'[i].n <= written
    <3>1. /\ Len(buf') = Len(buf) - LineLen
          /\ \A i \in 1 .. Len(buf) - LineLen : buf'[i] = buf[LineLen + i] /\ LineLen + i \in 1 .. Len(buf)
      BY <1>6, Lines
    <3> QED BY <1>00, <3>1
  <2>3. \A i \in 1 .. Len(sent') : sent'[i] <= written
    <3>1. CASE sent' = sent
      BY <1>00, <3>1
    <3>2. CASE buf[LineLen].kind = "eol"
      <4>1. \A i \in 1 .. Len(sent') :
              \/ i \in 1 .. Len(sent) /\ sent'[i] = sent[i]
              \/ i - Len(sent) \in 1 .. LineLen /\ sent'[i] = buf[i - Len(sent)].n
        BY <1>6, <3>2, LineSent
      <4>2. \A k \in 1 .. LineLen : k \in 1 .. Len(buf)
        <5>1. LineLen \in 1 .. Len(buf)
          BY <1>6, Lines
        <5> QED BY <1>0, <5>1
      <4> QED BY <1>00, <4>1, <4>2
    <3> QED BY <2>1, <3>1, <3>2
  <2> QED BY <1>00, <2>1, <2>2, <2>3 DEF NumberInv
<1>7. CASE PollPart
  <2>1. UNCHANGED <<file, written>> /\ Len(buf') = 0
    BY <1>7 DEF PollPart
  <2>2. \A i \in 1 .. Len(sent') :
          \/ i \in 1 .. Len(sent) /\ sent'[i] = sent[i]
          \/ i - Len(sent) \in 1 .. Len(buf) /\ sent'[i] = buf[i - Len(sent)].n
    BY <1>7, PartSent
  <2>3. \A i \in 1 .. Len(sent') : sent'[i] <= written
    BY <1>00, <2>2
  <2> QED BY <1>00, <2>1, <2>3 DEF NumberInv
<1>9. CASE \/ LogCreated \/ LogRemove \/ StreamCheck \/ StreamOpen \/ StreamSeek \/ StreamSize
           \/ PollSize \/ PollReopen \/ PollEnd \/ UNCHANGED vars
  <2>1. UNCHANGED <<file, written, sent>> /\ (buf' = buf \/ buf' = <<>>)
    BY <1>9 DEF LogCreated, LogRemove, StreamCheck, StreamOpen, StreamSeek, StreamSize, PollSize,
                PollReopen, PollEnd, vars
  <2> QED BY <1>1, <2>1
<1> QED BY <1>2, <1>3, <1>4, <1>5, <1>6, <1>7, <1>9 DEF Next, Stream

(* The stream reads nothing before its polls. *)
LEMMA StartStep ==
  ASSUME LogTypeOK, StartInv, [Next]_vars
  PROVE  StartInv'
<1> USE DEF logVars, readVars, sizeVars, history, cuts, StartInv, Streaming
<1>1. ASSUME NEW kind \in Kind, LogAppend(kind)
      PROVE  StartInv'
  BY <1>1 DEF LogAppend
<1>2. CASE LogCreated \/ LogRemove \/ UNCHANGED vars
  BY <1>2 DEF LogCreated, LogRemove, vars
<1>6. CASE LogTruncate
  <2>1. /\ UNCHANGED <<pc, off, buf, lastSize, sent>>
        /\ unseen' <=> pc \notin {"check", "first", "open", "seek"}
    BY <1>6 DEF LogTruncate
  <2> QED BY <2>1
<1>3. CASE StreamFirst
  BY <1>3, Firsts
<1>4. CASE StreamCheck \/ StreamOpen \/ StreamSeek \/ StreamSize
  BY <1>4 DEF StreamCheck, StreamOpen, StreamSeek, StreamSize
<1>5. CASE PollSize \/ PollReopen \/ PollFill \/ PollLine \/ PollPart \/ PollEnd
  <2>1. Streaming' /\ pc' \in {"poll", "reopen", "read"}
    BY <1>5 DEF PollSize, PollReopen, PollFill, PollLine, PollPart, PollEnd
  <2> QED BY <2>1
<1> QED BY <1>1, <1>2, <1>3, <1>4, <1>5, <1>6 DEF Next, Stream

(* The first l pieces the reader holds go out, or are dropped; the others stay. *)
LEMMA LineMoves ==
  ASSUME NEW s \in Seq(Nat), NEW b \in Seq(Bit), NEW f \in Seq(Bit), InLine(s, b),
         NEW t \in Seq(Nat), NEW c \in Seq(Bit), NEW l \in Nat,
         \A i \in 1 .. Len(t) : \/ i \in 1 .. Len(s) /\ t[i] = s[i]
                               \/ /\ i > Len(s) /\ i - Len(s) \in 1 .. l
                                  /\ i - Len(s) \in 1 .. Len(b) /\ t[i] = b[i - Len(s)].n,
         \A i \in 1 .. Len(c) : c[i] = b[l + i] /\ l + i \in 1 .. Len(b)
  PROVE  InLine(t, c) /\ \A o \in Nat : Newer(s, b, f, o) => Newer(t, c, f, o)
<1>1. /\ Len(s) \in Nat /\ Len(b) \in Nat /\ Len(t) \in Nat /\ Len(c) \in Nat
      /\ \A i \in 1 .. Len(b) : b[i].n \in Nat
  BY BitTypes
<1>2. /\ \A i, j \in 1 .. Len(s) : i < j => s[i] < s[j]
      /\ \A i, j \in 1 .. Len(b) : i < j => b[i].n < b[j].n
      /\ \A i \in 1 .. Len(s), j \in 1 .. Len(b) : s[i] < b[j].n
  BY DEF InLine, Rising
<1>3. ASSUME NEW i \in 1 .. Len(t), NEW j \in 1 .. Len(t), i < j
      PROVE  t[i] < t[j]
  <2>1. CASE j \in 1 .. Len(s) /\ t[j] = s[j]
    <3>1. i \in 1 .. Len(s) /\ ~(i > Len(s))
      BY <1>1, <1>3, <2>1, SMTT(30)
    <3> QED BY <1>2, <1>3, <2>1, <3>1
  <2>2. CASE /\ j > Len(s) /\ j - Len(s) \in 1 .. Len(b) /\ t[j] = b[j - Len(s)].n
    <3>1. CASE i \in 1 .. Len(s) /\ t[i] = s[i]
      BY <1>2, <2>2, <3>1
    <3>2. CASE i - Len(s) \in 1 .. Len(b) /\ t[i] = b[i - Len(s)].n
      <4>1. i - Len(s) < j - Len(s)
        BY <1>1, <1>3
      <4> QED BY <1>2, <2>2, <3>2, <4>1
    <3> QED BY <3>1, <3>2
  <2> QED BY <2>1, <2>2
<1>4. ASSUME NEW i \in 1 .. Len(c), NEW j \in 1 .. Len(c), i < j
      PROVE  c[i].n < c[j].n
  <2>1. l + i < l + j
    BY <1>4
  <2> QED BY <1>2, <2>1
<1>5. ASSUME NEW i \in 1 .. Len(t), NEW j \in 1 .. Len(c)
      PROVE  t[i] < c[j].n
  <2>1. c[j] = b[l + j] /\ l + j \in 1 .. Len(b)
    OBVIOUS
  <2>2. CASE i \in 1 .. Len(s) /\ t[i] = s[i]
    BY <1>2, <2>1, <2>2
  <2>3. CASE i - Len(s) \in 1 .. l /\ i - Len(s) \in 1 .. Len(b) /\ t[i] = b[i - Len(s)].n
    <3>1. i - Len(s) < l + j
      BY <1>1, <2>3
    <3> QED BY <1>2, <2>1, <2>3, <3>1
  <2> QED BY <2>2, <2>3
<1>6. ASSUME NEW o \in Nat, Newer(s, b, f, o)
      PROVE  Newer(t, c, f, o)
  <2> SUFFICES ASSUME NEW k \in o + 1 .. Len(f)
               PROVE  /\ \A i \in 1 .. Len(t) : t[i] < f[k].n
                      /\ \A i \in 1 .. Len(c) : c[i].n < f[k].n
    BY DEF Newer
  <2>1. /\ \A i \in 1 .. Len(s) : s[i] < f[k].n
        /\ \A i \in 1 .. Len(b) : b[i].n < f[k].n
    BY <1>6 DEF Newer
  <2> QED BY <2>1
<1> QED BY <1>3, <1>4, <1>5, <1>6 DEF InLine, Rising

(* The reader takes more of the log, whose numbers rise. *)
LEMMA LineFills ==
  ASSUME NEW s \in Seq(Nat), NEW b \in Seq(Bit), NEW f \in Seq(Bit), NEW o \in Nat,
         InLine(s, b), Newer(s, b, f, o),
         \A i, j \in 1 .. Len(f) : i < j => f[i].n < f[j].n,
         NEW m \in Nat, o < m, m <= Len(f), NEW c \in Seq(Bit),
         \A i \in 1 .. Len(c) : \/ i \in 1 .. Len(b) /\ c[i] = b[i]
                               \/ /\ i > Len(b) /\ o + (i - Len(b)) \in o + 1 .. m
                                  /\ c[i] = f[o + (i - Len(b))]
  PROVE  InLine(s, c) /\ Newer(s, c, f, m)
<1>1. Len(s) \in Nat /\ Len(b) \in Nat /\ Len(c) \in Nat /\ Len(f) \in Nat
  OBVIOUS
<1>2. /\ Rising(s)
      /\ \A i, j \in 1 .. Len(b) : i < j => b[i].n < b[j].n
      /\ \A i \in 1 .. Len(s), j \in 1 .. Len(b) : s[i] < b[j].n
      /\ \A k \in o + 1 .. Len(f) : /\ \A i \in 1 .. Len(s) : s[i] < f[k].n
                                   /\ \A i \in 1 .. Len(b) : b[i].n < f[k].n
  BY DEF InLine, Newer
<1>3. \A k \in o + 1 .. m : k \in o + 1 .. Len(f) /\ k \in 1 .. Len(f)
  BY <1>1
<1>4. ASSUME NEW i \in 1 .. Len(c), NEW j \in 1 .. Len(c), i < j
      PROVE  c[i].n < c[j].n
  <2>1. CASE j \in 1 .. Len(b) /\ c[j] = b[j]
    <3>1. i \in 1 .. Len(b) /\ ~(i > Len(b))
      BY <1>1, <1>4, <2>1
    <3> QED BY <1>2, <1>4, <2>1, <3>1
  <2>2. CASE j > Len(b) /\ o + (j - Len(b)) \in o + 1 .. m /\ c[j] = f[o + (j - Len(b))]
    <3>1. CASE i \in 1 .. Len(b) /\ c[i] = b[i]
      BY <1>2, <1>3, <2>2, <3>1
    <3>2. CASE o + (i - Len(b)) \in o + 1 .. m /\ c[i] = f[o + (i - Len(b))]
      <4>1. o + (i - Len(b)) < o + (j - Len(b))
        BY <1>1, <1>4
      <4> QED BY <1>3, <2>2, <3>2, <4>1
    <3> QED BY <3>1, <3>2
  <2> QED BY <2>1, <2>2
<1>5. \A i \in 1 .. Len(s), j \in 1 .. Len(c) : s[i] < c[j].n
  BY <1>2, <1>3
<1>6. ASSUME NEW k \in m + 1 .. Len(f)
      PROVE  /\ \A i \in 1 .. Len(s) : s[i] < f[k].n
             /\ \A i \in 1 .. Len(c) : c[i].n < f[k].n
  <2>1. k \in o + 1 .. Len(f) /\ k \in 1 .. Len(f) /\ \A j \in o + 1 .. m : j < k
    BY <1>1
  <2> QED BY <1>2, <1>3, <2>1
<1> QED BY <1>2, <1>4, <1>5, <1>6 DEF InLine, Newer

(* What was sent and what the reader holds stay in line. *)
LEMMA OrderStep ==
  ASSUME LogTypeOK, NumberInv, StartInv, OrderInv, [Next]_vars
  PROVE  OrderInv'
<1> USE DEF logVars, readVars, sizeVars, history, cuts
<1> DEFINE Same == UNCHANGED <<file, off, buf, sent>>
<1>1. SUFFICES ASSUME ~torn'
      PROVE  /\ InLine(sent', buf')
             /\ Streaming' => Newer(sent', buf', file', off')
             /\ pc' = "reopen" => Newer(sent', buf', file', 0)
             /\ Len(file') < lastSize' => Newer(sent', buf', file', 0)
             /\ pc' \in {"reopen", "read"} => currentSize' <= Len(file')
             /\ pc' = "read" => lastSize' <= Len(file')
  BY DEF OrderInv
<1>2. ~torn
  BY <1>1 DEF Next, Stream, LogCreated, LogAppend, LogTruncate, LogRemove, StreamCheck, StreamFirst,
     StreamOpen, StreamSeek, StreamSize, PollSize, PollReopen, PollFill, PollLine, PollPart, PollEnd, vars
<1>3. /\ InLine(sent, buf)
      /\ Streaming => Newer(sent, buf, file, off)
      /\ pc = "reopen" => Newer(sent, buf, file, 0)
      /\ Len(file) < lastSize => Newer(sent, buf, file, 0)
      /\ pc \in {"reopen", "read"} => currentSize <= Len(file)
      /\ pc = "read" => lastSize <= Len(file)
  BY <1>2 DEF OrderInv
<1>4. /\ file \in Seq(Bit) /\ buf \in Seq(Bit) /\ sent \in Seq(Nat) /\ written \in Nat
      /\ off \in Nat /\ lastSize \in Nat /\ currentSize \in Nat /\ Len(file) \in Nat
      /\ Len(buf) \in Nat /\ Len(sent) \in Nat
      /\ \A i \in 1 .. Len(file) : file[i].n \in Nat
  BY BitTypes DEF LogTypeOK
<1>5. /\ \A i \in 1 .. Len(file) : file[i].n = written - Len(file) + i
      /\ \A i \in 1 .. Len(buf) : buf[i].n <= written
      /\ \A i \in 1 .. Len(sent) : sent[i] <= written
  BY DEF NumberInv
<1>6. \A i, j \in 1 .. Len(file) : i < j => file[i].n < file[j].n
  BY <1>4, <1>5
<1>7. ~Streaming => off = 0 /\ Len(buf) <= 0 /\ lastSize = 0
  BY DEF StartInv
<1>a. CASE LogCreated \/ LogRemove \/ UNCHANGED vars
  BY <1>3, <1>a DEF LogCreated, LogRemove, vars, Streaming
<1>b. CASE StreamCheck \/ StreamOpen
  <2>1. Same /\ UNCHANGED <<lastSize, currentSize>> /\ ~Streaming /\ pc' \in {"first", "seek", "ended"}
    BY <1>b DEF StreamCheck, StreamOpen, Streaming
  <2> QED BY <1>3, <1>4, <1>7, <2>1 DEF Streaming
<1>c. CASE StreamFirst
  <2>1. /\ UNCHANGED <<file, buf, lastSize>> /\ ~Streaming /\ pc' \in {"open", "ended"}
    BY <1>c, Firsts DEF Streaming
  <2>2. Rising(sent')
    <3>1. CASE sent' = sent
      BY <1>3, <3>1 DEF InLine, Rising
    <3>2. CASE sent' # sent
      <4>1. PICK a \in 0 .. Len(file) :
              \A i \in 1 .. Len(sent') : sent'[i] = file[a + i].n /\ a + i \in 1 .. Len(file)
        BY <1>c, <3>2, Firsts
      <4>2. ASSUME NEW i \in 1 .. Len(sent'), NEW j \in 1 .. Len(sent'), i < j
            PROVE  sent'[i] < sent'[j]
        <5>1. a + i < a + j
          BY <1>4, <4>2
        <5> QED BY <1>6, <4>1, <5>1
      <4> QED BY <4>2 DEF Rising
    <3> QED BY <3>1, <3>2
  <2>3. \A i \in 1 .. Len(buf) : FALSE
    BY <1>4, <1>7, <2>1
  <2>4. InLine(sent', buf')
    BY <2>1, <2>2, <2>3 DEF InLine
  <2> QED BY <1>4, <1>7, <2>1, <2>4 DEF Streaming
<1>d. CASE StreamSeek
  <2>1. /\ UNCHANGED <<file, buf, sent, lastSize>> /\ ~Streaming /\ pc' = "size" /\ off' = Len(file)
    BY <1>d DEF StreamSeek, SeekEnd, Streaming
  <2>2. \A k \in Len(file) + 1 .. Len(file) : FALSE
    BY <1>4
  <2>3. Newer(sent, buf, file, Len(file))
    BY <2>2 DEF Newer
  <2> QED BY <1>3, <1>4, <1>7, <2>1, <2>3
<1>e. CASE StreamSize
  <2>1. /\ Same /\ Streaming /\ pc' = "poll" /\ lastSize' \in {0, Len(file)}
    BY <1>e DEF StreamSize, Streaming
  <2> QED BY <1>3, <1>4, <2>1
<1>f. CASE PollSize
  <2>1. /\ Same /\ UNCHANGED lastSize /\ Streaming /\ currentSize' = Len(file)
        /\ \/ pc' = "reopen" /\ Len(file) < lastSize
           \/ pc' = "read" /\ ~(Len(file) < lastSize)
    BY <1>f DEF PollSize, Streaming
  <2> QED BY <1>3, <1>4, <2>1
<1>g. CASE PollReopen
  <2>1. /\ UNCHANGED <<file, sent, currentSize>> /\ pc = "reopen" /\ Streaming
        /\ \/ off' = 0 /\ Len(buf') = 0 /\ lastSize' = 0 /\ pc' = "read"
           \/ UNCHANGED <<off, buf, lastSize>> /\ pc' = "poll"
    BY <1>g DEF PollReopen, NewReader, Streaming
  <2>2. CASE UNCHANGED <<off, buf, lastSize>> /\ pc' = "poll"
    BY <1>3, <2>1, <2>2
  <2>3. CASE off' = 0 /\ Len(buf') = 0 /\ lastSize' = 0 /\ pc' = "read"
    <3>1. \A i \in 1 .. Len(buf') : FALSE
      BY <2>3
    <3>2. InLine(sent, buf')
      BY <1>3, <3>1 DEF InLine
    <3>3. Newer(sent, buf', file, 0)
      BY <1>3, <2>1, <3>1 DEF Newer
    <3> QED BY <1>3, <1>4, <2>1, <2>3, <3>2, <3>3
  <2> QED BY <2>1, <2>2, <2>3
<1>h. CASE PollFill
  <2>1. UNCHANGED <<file, sent, lastSize, currentSize, pc>> /\ pc = "read" /\ Streaming
    BY <1>h DEF PollFill, Streaming
  <2>2. /\ off' \in Nat /\ off < off' /\ off' <= Len(file) /\ buf' \in Seq(Bit)
        /\ \A i \in 1 .. Len(buf') :
             \/ i \in 1 .. Len(buf) /\ buf'[i] = buf[i]
             \/ /\ i > Len(buf) /\ off + (i - Len(buf)) \in off + 1 .. off'
                /\ buf'[i] = file[off + (i - Len(buf))]
    BY <1>4, <1>h, Filled
  <2>3. InLine(sent, buf') /\ Newer(sent, buf', file, off')
    BY <1>3, <1>4, <1>6, <2>1, <2>2, LineFills
  <2> QED BY <1>3, <1>4, <2>1, <2>3
<1>i. CASE PollLine
  <2>1. /\ UNCHANGED <<file, off, currentSize>> /\ pc = "read" /\ Streaming
        /\ \/ buf[LineLen].kind = "eol" /\ UNCHANGED <<pc, lastSize>>
           \/ UNCHANGED sent /\ pc' = "poll" /\ lastSize' = currentSize
    BY <1>i DEF PollLine, Streaming
  <2>2. /\ LineLen \in Nat /\ buf' \in Seq(Bit) /\ \A i \in 1 .. LineLen : i \in 1 .. Len(buf)
        /\ \A i \in 1 .. Len(buf') : buf'[i] = buf[LineLen + i] /\ LineLen + i \in 1 .. Len(buf)
    <3>1. LineLen \in 1 .. Len(buf)
      BY <1>i, Lines
    <3> QED BY <1>i, <3>1, Lines
  <2>3. sent' \in Seq(Nat) /\ \A i \in 1 .. Len(sent') :
          \/ i \in 1 .. Len(sent) /\ sent'[i] = sent[i]
          \/ /\ i > Len(sent) /\ i - Len(sent) \in 1 .. LineLen
             /\ i - Len(sent) \in 1 .. Len(buf) /\ sent'[i] = buf[i - Len(sent)].n
    <3>1. CASE UNCHANGED sent
      BY <1>4, <3>1
    <3>2. CASE buf[LineLen].kind = "eol"
      BY <1>i, <2>2, <3>2, LineSent
    <3> QED BY <2>1, <3>1, <3>2
  <2> DEFINE l == LineLen
  <2>4. InLine(sent', buf') /\ \A o \in Nat : Newer(sent, buf, file, o) => Newer(sent', buf', file, o)
    <3>1. l \in Nat
      BY <2>2
    <3> HIDE DEF l
    <3>2. \A i \in 1 .. Len(buf') : buf'[i] = buf[l + i] /\ l + i \in 1 .. Len(buf)
      BY <2>2 DEF l
    <3>3. \A i \in 1 .. Len(sent') :
            \/ i \in 1 .. Len(sent) /\ sent'[i] = sent[i]
            \/ /\ i > Len(sent) /\ i - Len(sent) \in 1 .. l
               /\ i - Len(sent) \in 1 .. Len(buf) /\ sent'[i] = buf[i - Len(sent)].n
      BY <2>3 DEF l
    <3> QED BY <1>3, <1>4, <2>2, <2>3, <3>1, <3>2, <3>3, LineMoves
  <2>5. Newer(sent', buf', file', off')
    BY <1>3, <1>4, <2>1, <2>4
  <2> QED BY <1>3, <1>4, <2>1, <2>4, <2>5
<1>j. CASE PollPart
  <2>1. UNCHANGED <<file, off, lastSize, currentSize, pc>> /\ pc = "read" /\ Streaming /\ buf' = <<>>
    BY <1>j DEF PollPart, Streaming
  <2>2. /\ sent' \in Seq(Nat) /\ \A i \in 1 .. Len(sent') :
             \/ i \in 1 .. Len(sent) /\ sent'[i] = sent[i]
             \/ /\ i > Len(sent) /\ i - Len(sent) \in 1 .. Len(buf)
                /\ i - Len(sent) \in 1 .. Len(buf) /\ sent'[i] = buf[i - Len(sent)].n
    BY <1>j, PartSent
  <2>3. buf' \in Seq(Bit) /\ \A i \in 1 .. Len(buf') : FALSE
    <3>1. Len(buf') = 0 /\ buf' \in Seq(Bit)
      BY <2>1
    <3> QED BY <3>1
  <2>4. InLine(sent', buf') /\ \A o \in Nat : Newer(sent, buf, file, o) => Newer(sent', buf', file, o)
    <3> DEFINE l == Len(buf)
               c == buf'
    <3>1. l \in Nat /\ c \in Seq(Bit) /\ \A i \in 1 .. Len(c) : c[i] = buf[l + i] /\ l + i \in 1 .. Len(buf)
      BY <1>4, <2>3
    <3>2. \A i \in 1 .. Len(sent') :
            \/ i \in 1 .. Len(sent) /\ sent'[i] = sent[i]
            \/ /\ i > Len(sent) /\ i - Len(sent) \in 1 .. l
               /\ i - Len(sent) \in 1 .. Len(buf) /\ sent'[i] = buf[i - Len(sent)].n
      BY <2>2
    <3> HIDE DEF l, c
    <3>3. InLine(sent', c) /\ \A o \in Nat : Newer(sent, buf, file, o) => Newer(sent', c, file, o)
      BY <1>3, <1>4, <2>2, <3>1, <3>2, LineMoves
    <3> QED BY <3>3 DEF c
  <2>5. Newer(sent', buf', file', off')
    BY <1>3, <1>4, <2>1, <2>4
  <2> QED BY <1>3, <1>4, <2>1, <2>4, <2>5
<1>k. CASE PollEnd
  <2>1. /\ Same /\ pc = "read" /\ Streaming /\ pc' = "poll" /\ lastSize' = currentSize
    BY <1>k DEF PollEnd, Streaming
  <2> QED BY <1>3, <1>4, <2>1
<1>l. CASE LogTruncate
  <2>1. /\ UNCHANGED <<pc, off, buf, lastSize, currentSize, sent>> /\ Len(file') = 0
        /\ pc \notin {"reopen", "read"}
    BY <1>1, <1>l DEF LogTruncate
  <2>2. \A o \in Nat : Newer(sent, buf, file', o)
    <3>1. \A o \in Nat : \A k \in o + 1 .. Len(file') : FALSE
      BY <2>1
    <3> QED BY <3>1 DEF Newer
  <2> QED BY <1>3, <1>4, <2>1, <2>2
<1>m. ASSUME NEW kind \in Kind, LogAppend(kind)
      PROVE  /\ InLine(sent', buf')
             /\ Streaming' => Newer(sent', buf', file', off')
             /\ pc' = "reopen" => Newer(sent', buf', file', 0)
             /\ Len(file') < lastSize' => Newer(sent', buf', file', 0)
             /\ pc' \in {"reopen", "read"} => currentSize' <= Len(file')
             /\ pc' = "read" => lastSize' <= Len(file')
  <2>1. /\ Len(file') = Len(file) + 1
        /\ \A i \in 1 .. Len(file) : file'[i] = file[i]
        /\ file'[Len(file) + 1].n = written + 1
        /\ UNCHANGED <<pc, off, buf, lastSize, currentSize, sent>>
    BY <1>m, Appended
  <2>2. ASSUME NEW o \in Nat, Newer(sent, buf, file, o)
        PROVE  Newer(sent, buf, file', o)
    <3> SUFFICES ASSUME NEW k \in o + 1 .. Len(file')
                 PROVE  /\ \A i \in 1 .. Len(sent) : sent[i] < file'[k].n
                        /\ \A i \in 1 .. Len(buf) : buf[i].n < file'[k].n
      BY DEF Newer
    <3>1. CASE k \in 1 .. Len(file)
      <4>1. k \in o + 1 .. Len(file) /\ file'[k] = file[k]
        BY <1>4, <2>1, <3>1
      <4> QED BY <2>2, <4>1 DEF Newer
    <3>2. CASE k \notin 1 .. Len(file)
      <4>1. k = Len(file) + 1
        BY <1>4, <2>1, <3>2
      <4>2. \A i \in 1 .. Len(sent) : sent[i] < written + 1
        BY <1>4, <1>5
      <4>3. \A i \in 1 .. Len(buf) : buf[i].n \in Nat
        BY <1>4, BitTypes
      <4>4. \A i \in 1 .. Len(buf) : buf[i].n < written + 1
        BY <1>4, <1>5, <4>3, SMTT(30)
      <4> QED BY <2>1, <4>1, <4>2, <4>4
    <3> QED BY <3>1, <3>2
  <2>3. 0 \in Nat /\ (Len(file') < lastSize => Len(file) < lastSize)
        /\ (currentSize <= Len(file) => currentSize <= Len(file'))
        /\ (lastSize <= Len(file) => lastSize <= Len(file'))
    BY <1>4, <2>1
  <2> QED BY <1>3, <1>4, <2>1, <2>2, <2>3 DEF Streaming
<1> QED
  BY <1>a, <1>b, <1>c, <1>d, <1>e, <1>f, <1>g, <1>h, <1>i, <1>j, <1>k, <1>l, <1>m DEF Next, Stream

(* The pieces of a sequence, and those sent. *)
LEMMA InNSet ==
  ASSUME NEW s \in Seq(Bit), NEW n
  PROVE  n \in NSet(s) <=> \E i \in 1 .. Len(s) : s[i].n = n
BY DEF NSet

(* A number was sent when it is one of those sent. *)
LEMMA SentIs ==
  ASSUME sent \in Seq(Nat), NEW n
  PROVE  WasSent(n) <=> \E i \in 1 .. Len(sent) : sent[i] = n
BY DEF WasSent

(* A piece stays accounted for: a log that only grows keeps its lines, and what is read *)
(* ahead stays there, is sent or is in a line that is not UTF-8.                        *)
LEMMA StaysAccounted ==
  ASSUME LogTypeOK, LogTypeOK', NEW i \in 1 .. Len(file), Accounted(i),
         Len(file) <= Len(file'), \A k \in 1 .. Len(file) : file'[k] = file[k],
         skipped \subseteq skipped', gap \subseteq gap',
         Len(sent) <= Len(sent'), \A k \in 1 .. Len(sent) : sent'[k] = sent[k],
         \A j \in 1 .. Len(buf) : buf[j].n = file[i].n =>
           \/ \E k \in 1 .. Len(buf') : buf'[k].n = buf[j].n
           \/ \E k \in 1 .. Len(sent') : sent'[k] = buf[j].n
           \/ InBadLine(i)'
  PROVE  Accounted(i)'
<1>1. /\ file \in Seq(Bit) /\ buf \in Seq(Bit) /\ sent \in Seq(Nat)
      /\ file' \in Seq(Bit) /\ buf' \in Seq(Bit) /\ sent' \in Seq(Nat)
      /\ Len(file) \in Nat /\ Len(file') \in Nat /\ Len(sent) \in Nat /\ Len(sent') \in Nat
  BY DEF LogTypeOK
<1>2. file'[i] = file[i]
  OBVIOUS
<1> DEFINE n == file[i].n
<1>3. n \in NSet(buf) \/ n \in skipped \/ n \in gap \/ WasSent(n) \/ InBadLine(i)
  BY DEF Accounted
<1>4. SUFFICES n \in NSet(buf') \/ n \in skipped' \/ n \in gap' \/ WasSent(n)' \/ InBadLine(i)'
  BY <1>2 DEF Accounted, WasSent
<1>5. WasSent(n)' <=> \E k \in 1 .. Len(sent') : sent'[k] = n
  BY <1>1 DEF WasSent
<1> HIDE DEF n
<1>6. CASE n \in NSet(buf)
  <2>1. PICK j \in 1 .. Len(buf) : buf[j].n = n
    BY <1>1, <1>6, InNSet
  <2>2. \/ \E k \in 1 .. Len(buf') : buf'[k].n = n
        \/ \E k \in 1 .. Len(sent') : sent'[k] = n
        \/ InBadLine(i)'
    BY <2>1 DEF n
  <2> QED BY <1>1, <1>4, <1>5, <2>2, InNSet
<1>7. CASE n \in skipped \/ n \in gap
  BY <1>4, <1>7
<1>8. CASE WasSent(n)
  <2>1. PICK k \in 1 .. Len(sent) : sent[k] = n
    BY <1>1, <1>8, SentIs
  <2>2. k \in 1 .. Len(sent') /\ sent'[k] = n
    BY <1>1, <2>1, SMTT(30)
  <2> QED BY <1>4, <1>5, <2>2
<1>9. CASE InBadLine(i)
  <2>1. PICK j \in i .. Len(file) : file[j].kind = "bad" /\ \A k \in i .. j - 1 : ~EndsLine(file[k])
    BY <1>9 DEF InBadLine
  <2>2. /\ j \in i .. Len(file') /\ j \in 1 .. Len(file)
        /\ \A k \in i .. j - 1 : k \in 1 .. Len(file)
    BY <1>1
  <2>3. file'[j].kind = "bad" /\ \A k \in i .. j - 1 : ~EndsLine(file'[k])
    BY <2>1, <2>2
  <2>4. InBadLine(i)'
    BY <2>2, <2>3 DEF InBadLine
  <2> QED BY <1>4, <2>4
<1> QED BY <1>3, <1>6, <1>7, <1>8, <1>9

(* What the reader holds that is accounted for by a line that is not UTF-8. *)
LEMMA Dropped ==
  ASSUME LogTypeOK, NumberInv, PollLine, buf[LineLen].kind = "bad",
         Len(buf) <= off, off <= Len(file),
         \A j \in 1 .. Len(buf) : buf[j] = file[off - Len(buf) + j],
         NEW i \in 1 .. Len(file), NEW j \in 1 .. LineLen, buf[j].n = file[i].n
  PROVE  InBadLine(i)
<1>1. /\ Len(file) \in Nat /\ Len(buf) \in Nat /\ off \in Nat /\ written \in Nat
      /\ \A k \in 1 .. Len(file) : file[k].n = written - Len(file) + k
  BY DEF LogTypeOK, NumberInv
<1> DEFINE l == LineLen
           o == off - Len(buf)
<1>2. l \in 1 .. Len(buf) /\ \A k \in 1 .. l - 1 : ~EndsLine(buf[k])
  BY Lines
<1>3. buf[l].kind = "bad" /\ j \in 1 .. l /\ o \in Nat /\ o + Len(buf) <= Len(file)
      /\ \A k \in 1 .. Len(buf) : buf[k] = file[o + k]
  BY <1>1
<1> HIDE DEF l, o
<1>4. o + j \in 1 .. Len(file) /\ j \in 1 .. Len(buf) /\ o + l \in 1 .. Len(file)
  <2>1. l \in 1 .. Len(buf) /\ Len(buf) \in Nat /\ Len(file) \in Nat
    BY <1>1, <1>2
  <2>2. j \in 1 .. l /\ o \in Nat /\ o + Len(buf) <= Len(file)
    BY <1>3
  <2> QED BY <2>1, <2>2
<1>5. file[o + j].n = file[i].n
  BY <1>3, <1>4
<1>6. i = o + j
  <2>1. file[o + j].n = written - Len(file) + (o + j) /\ file[i].n = written - Len(file) + i
    BY <1>1, <1>4
  <2>2. written - Len(file) + (o + j) = written - Len(file) + i
    BY <1>5, <2>1
  <2> QED BY <1>1, <1>3, <1>4, <2>2
<1>7. o + l \in i .. Len(file) /\ file[o + l].kind = "bad"
  <2>1. l \in Nat /\ o \in Nat /\ j \in Nat /\ j <= l
    BY <1>1, <1>2, <1>3
  <2>2. o + l \in i .. Len(file)
    BY <1>1, <1>4, <1>6, <2>1
  <2>3. file[o + l] = buf[l]
    BY <1>2, <1>3
  <2> QED BY <1>3, <2>2, <2>3
<1>8. ASSUME NEW k \in i .. (o + l) - 1
      PROVE  ~EndsLine(file[k])
  <2>1. j \in Nat /\ l \in Nat /\ o \in Nat /\ k \in (o + j) .. (o + l) - 1 /\ j >= 1 /\ l <= Len(buf)
    BY <1>1, <1>2, <1>3, <1>6
  <2>2. k - o \in 1 .. l - 1 /\ k - o \in 1 .. Len(buf) /\ o + (k - o) = k
    BY <1>1, <2>1
  <2> QED BY <1>2, <1>3, <2>2
<1> QED BY <1>7, <1>8 DEF InBadLine

(* The reader stays behind what is accounted for. *)
LEMMA ReaderStep ==
  ASSUME LogTypeOK, LogTypeOK', NumberInv, StartInv, ReaderInv, [Next]_vars
  PROVE  ReaderInv'
<1> USE DEF logVars, readVars, sizeVars, history, cuts
<1>1. /\ file \in Seq(Bit) /\ buf \in Seq(Bit) /\ sent \in Seq(Nat) /\ off \in Nat
      /\ Len(file) \in Nat /\ Len(buf) \in Nat /\ Len(sent) \in Nat
  BY DEF LogTypeOK
<1>2. ~Streaming => off = 0 /\ Len(buf) = 0
  BY DEF StartInv
<1>3. ~unseen => /\ Len(buf) <= off /\ off <= Len(file)
                 /\ \A i \in 1 .. Len(buf) : buf[i] = file[off - Len(buf) + i]
                 /\ \A i \in 1 .. off : Accounted(i)
  BY DEF ReaderInv
<1>4. off <= Len(file) => \A i \in 1 .. off : i \in 1 .. Len(file)
  BY <1>1
<1>a. ASSUME off' = 0, Len(buf') = 0
      PROVE  ReaderInv'
  <2>1. Len(file') \in Nat
    BY DEF LogTypeOK
  <2>2. /\ \A i \in 1 .. Len(buf') : FALSE
        /\ \A i \in 1 .. off' : FALSE
    BY <1>a
  <2>3. Len(buf') <= off' /\ off' <= Len(file')
    BY <1>a, <2>1
  <2> QED BY <2>2, <2>3 DEF ReaderInv
<1>b. CASE UNCHANGED <<file, off, buf, sent, skipped, gap, unseen>>
  BY <1>b DEF ReaderInv, Accounted, WasSent, NSet, InBadLine, EndsLine
<1>c. CASE StreamFirst
  <2>1. off' = off /\ buf' = buf /\ ~Streaming
    BY <1>c, Firsts DEF Streaming
  <2> QED BY <1>2, <1>a, <2>1
<1>d. CASE StreamSeek
  <2>1. /\ UNCHANGED <<file, buf, sent, skipped>> /\ ~Streaming /\ off' = Len(file)
        /\ gap' = { n \in NSet(SubSeq(file, 1, Len(file))) : n \notin skipped /\ ~WasSent(n) }
    BY <1>d DEF StreamSeek, SeekEnd, Streaming
  <2>2. SubSeq(file, 1, Len(file)) = file
    BY <1>1
  <2>3. ASSUME NEW i \in 1 .. Len(file)
        PROVE  Accounted(i)'
    <3>1. file[i].n \in NSet(file)
      BY <1>1, InNSet
    <3>2. file[i].n \in gap' \/ file[i].n \in skipped \/ WasSent(file[i].n)
      BY <2>1, <2>2, <3>1
    <3> DEFINE n == file[i].n
    <3>3. WasSent(n) => WasSent(n)'
      BY <2>1 DEF WasSent
    <3>4. n' = n
      BY <2>1
    <3>5. n' \in gap' \/ n' \in skipped' \/ WasSent(n)'
      BY <2>1, <3>2, <3>3, <3>4
    <3> HIDE DEF n
    <3> QED BY <3>5 DEF Accounted, n
  <2>4. \A i \in 1 .. Len(buf') : FALSE
    BY <1>2, <2>1
  <2>5. Len(buf') <= off' /\ off' <= Len(file')
    BY <1>1, <1>2, <2>1
  <2> QED BY <2>1, <2>3, <2>4, <2>5 DEF ReaderInv
<1>e. CASE PollReopen
  <2>1. \/ off' = 0 /\ Len(buf') = 0
        \/ UNCHANGED <<file, off, buf, sent, skipped, gap, unseen>>
    BY <1>e DEF PollReopen, NewReader
  <2> QED BY <1>a, <1>b, <2>1
<1>f. CASE PollFill
  <2> SUFFICES ASSUME ~unseen'
               PROVE  /\ Len(buf') <= off' /\ off' <= Len(file')
                      /\ \A i \in 1 .. Len(buf') : buf'[i] = file'[off' - Len(buf') + i]
                      /\ \A i \in 1 .. off' : Accounted(i)'
    BY DEF ReaderInv
  <2>1. UNCHANGED <<file, sent, skipped, gap, unseen>> /\ ~unseen
    BY <1>f DEF PollFill
  <2>2. /\ off' \in Nat /\ off' > off /\ off' <= Len(file)
        /\ Len(buf') = Len(buf) + (off' - off)
        /\ \A i \in 1 .. Len(buf) : buf'[i] = buf[i] /\ i \in 1 .. Len(buf')
        /\ \A i \in 1 .. off' - off :
              buf'[Len(buf) + i] = file[off + i] /\ Len(buf) + i \in 1 .. Len(buf')
        /\ \A i \in 1 .. Len(buf') :
              \/ i \in 1 .. Len(buf) /\ buf'[i] = buf[i]
              \/ buf'[i] = file[off + (i - Len(buf))]
    BY <1>f, Filled
  <2>3. off' - Len(buf') = off - Len(buf)
    BY <1>1, <2>2
  <2>4. ASSUME NEW i \in 1 .. Len(buf')
        PROVE  buf'[i] = file[off - Len(buf) + i]
    <3>1. off + (i - Len(buf)) = off - Len(buf) + i
      BY <1>1
    <3> QED BY <1>3, <2>1, <2>2, <3>1
  <2>5. ASSUME NEW i \in 1 .. off'
        PROVE  Accounted(i)'
    <3>1. CASE i \in 1 .. off
      <4>1. Accounted(i) /\ i \in 1 .. Len(file)
        BY <1>3, <1>4, <2>1, <3>1
      <4>2. \A j \in 1 .. Len(buf) : \E k \in 1 .. Len(buf') : buf'[k].n = buf[j].n
        BY <2>2
      <4>3. /\ Len(file) <= Len(file') /\ \A k \in 1 .. Len(file) : file'[k] = file[k]
            /\ Len(sent) <= Len(sent') /\ \A k \in 1 .. Len(sent) : sent'[k] = sent[k]
            /\ skipped \subseteq skipped' /\ gap \subseteq gap'
        BY <1>1, <2>1
      <4> QED BY <4>1, <4>2, <4>3, StaysAccounted
    <3>2. CASE i \notin 1 .. off
      <4>1. i - off \in 1 .. off' - off /\ off + (i - off) = i
        BY <1>1, <2>2, <3>2
      <4>2. Len(buf) + (i - off) \in 1 .. Len(buf') /\ buf'[Len(buf) + (i - off)] = file'[i]
        BY <2>1, <2>2, <4>1
      <4>3. file'[i].n \in NSet(buf')
        <5>1. buf' \in Seq(Bit)
          BY DEF LogTypeOK
        <5> QED BY <4>2, <5>1, InNSet
      <4> QED BY <4>3 DEF Accounted
    <3> QED BY <3>1, <3>2
  <2>6. Len(buf') <= off'
    <3>1. Len(buf) <= off
      BY <1>3, <2>1
    <3>2. Len(buf) \in Nat /\ off \in Nat /\ off' \in Nat /\ Len(buf') = Len(buf) + (off' - off)
      BY <1>1, <2>2
    <3> QED BY <3>1, <3>2
  <2>7. off' <= Len(file')
    BY <2>1, <2>2
  <2>8. \A i \in 1 .. Len(buf') : buf'[i] = file'[off' - Len(buf') + i]
    BY <2>1, <2>3, <2>4
  <2> QED BY <2>5, <2>6, <2>7, <2>8
<1>g. CASE PollLine
  <2> SUFFICES ASSUME ~unseen'
               PROVE  /\ Len(buf') <= off' /\ off' <= Len(file')
                      /\ \A i \in 1 .. Len(buf') : buf'[i] = file'[off' - Len(buf') + i]
                      /\ \A i \in 1 .. off' : Accounted(i)'
    BY DEF ReaderInv
  <2> DEFINE l == LineLen
  <2>1. /\ UNCHANGED <<file, off, skipped, gap, unseen>> /\ ~unseen
        /\ buf[l].kind = "eol" \/ (buf[l].kind = "bad" /\ sent' = sent)
    BY <1>g DEF PollLine
  <2>2. /\ l \in 1 .. Len(buf) /\ Len(buf') = Len(buf) - l
        /\ \A i \in 1 .. Len(buf) - l : buf'[i] = buf[l + i] /\ l + i \in 1 .. Len(buf)
    BY <1>g, Lines
  <2>3. buf[l].kind = "eol" =>
          /\ Len(sent') = Len(sent) + l
          /\ \A i \in 1 .. Len(sent) : sent'[i] = sent[i]
          /\ \A i \in 1 .. l : sent'[Len(sent) + i] = buf[i].n /\ Len(sent) + i \in 1 .. Len(sent')
    BY <1>g, LineSent
  <2>4. buf[l].kind = "bad" =>
          \A i \in 1 .. Len(file), j \in 1 .. l : buf[j].n = file[i].n => InBadLine(i)
    BY <1>3, <1>g, <2>1, Dropped
  <2> HIDE DEF l
  <2>5. off' - Len(buf') = off - Len(buf) + l /\ Len(buf') <= off' /\ off' <= Len(file')
    BY <1>1, <1>3, <2>1, <2>2
  <2>6. ASSUME NEW i \in 1 .. Len(buf')
        PROVE  buf'[i] = file'[off' - Len(buf') + i]
    <3>1. off - Len(buf) + l + i = off - Len(buf) + (l + i)
      BY <1>1, <2>2
    <3> QED BY <1>3, <2>1, <2>2, <2>5, <3>1
  <2>7. ASSUME NEW i \in 1 .. off'
        PROVE  Accounted(i)'
    <3>1. Accounted(i) /\ i \in 1 .. Len(file)
      BY <1>3, <1>4, <2>1
    <3>2. /\ Len(file) <= Len(file') /\ \A k \in 1 .. Len(file) : file'[k] = file[k]
          /\ skipped \subseteq skipped' /\ gap \subseteq gap'
      BY <1>1, <2>1
    <3>3. Len(sent) <= Len(sent') /\ \A k \in 1 .. Len(sent) : sent'[k] = sent[k]
      BY <1>1, <2>1, <2>2, <2>3
    <3>4. ASSUME NEW j \in 1 .. Len(buf), buf[j].n = file[i].n
          PROVE  \/ \E k \in 1 .. Len(buf') : buf'[k].n = buf[j].n
                 \/ \E k \in 1 .. Len(sent') : sent'[k] = buf[j].n
                 \/ InBadLine(i)'
      <4>1. CASE j \in 1 .. l
        <5>1. CASE buf[l].kind = "eol"
          BY <2>3, <4>1, <5>1
        <5>2. CASE buf[l].kind = "bad"
          <6>1. InBadLine(i)
            BY <2>4, <3>1, <3>4, <4>1, <5>2
          <6> QED BY <2>1, <6>1 DEF InBadLine, EndsLine
        <5> QED BY <2>1, <5>1, <5>2
      <4>2. CASE j \notin 1 .. l
        <5>1. j - l \in 1 .. Len(buf) - l /\ l + (j - l) = j
          BY <1>1, <2>2, <4>2
        <5> QED BY <2>2, <5>1
      <4> QED BY <4>1, <4>2
    <3> QED BY <3>1, <3>2, <3>3, <3>4, StaysAccounted
  <2> QED BY <2>5, <2>6, <2>7
<1>h. CASE PollPart
  <2> SUFFICES ASSUME ~unseen'
               PROVE  /\ Len(buf') <= off' /\ off' <= Len(file')
                      /\ \A i \in 1 .. Len(buf') : buf'[i] = file'[off' - Len(buf') + i]
                      /\ \A i \in 1 .. off' : Accounted(i)'
    BY DEF ReaderInv
  <2>1. UNCHANGED <<file, off, skipped, gap, unseen>> /\ ~unseen /\ Len(buf') = 0
    BY <1>h DEF PollPart
  <2>2. /\ Len(sent') = Len(sent) + Len(buf)
        /\ \A i \in 1 .. Len(sent) : sent'[i] = sent[i]
        /\ \A i \in 1 .. Len(buf) : sent'[Len(sent) + i] = buf[i].n /\ Len(sent) + i \in 1 .. Len(sent')
    BY <1>h, PartSent
  <2>3. ASSUME NEW i \in 1 .. off'
        PROVE  Accounted(i)'
    <3>1. Accounted(i) /\ i \in 1 .. Len(file)
      BY <1>3, <1>4, <2>1
    <3>2. /\ Len(file) <= Len(file') /\ \A k \in 1 .. Len(file) : file'[k] = file[k]
          /\ skipped \subseteq skipped' /\ gap \subseteq gap'
          /\ Len(sent) <= Len(sent')
      BY <1>1, <2>1, <2>2
    <3>3. \A j \in 1 .. Len(buf) : \E k \in 1 .. Len(sent') : sent'[k] = buf[j].n
      BY <2>2
    <3> QED BY <2>2, <3>1, <3>2, <3>3, StaysAccounted
  <2>4. /\ Len(buf') <= off' /\ off' <= Len(file')
        /\ \A i \in 1 .. Len(buf') : FALSE
    BY <1>1, <1>3, <2>1
  <2> QED BY <2>3, <2>4
<1>i. CASE LogTruncate
  <2>1. UNCHANGED <<off, buf>> /\ (unseen' <=> pc \notin {"check", "first", "open", "seek"})
    BY <1>i DEF LogTruncate
  <2>2. CASE unseen'
    BY <2>2 DEF ReaderInv
  <2>3. CASE ~unseen'
    <3>1. ~Streaming
      BY <2>1, <2>3 DEF Streaming
    <3> QED BY <1>2, <1>a, <2>1, <3>1
  <2> QED BY <2>2, <2>3
<1>j. ASSUME NEW kind \in Kind, LogAppend(kind)
      PROVE  ReaderInv'
  <2> SUFFICES ASSUME ~unseen'
               PROVE  /\ Len(buf') <= off' /\ off' <= Len(file')
                      /\ \A i \in 1 .. Len(buf') : buf'[i] = file'[off' - Len(buf') + i]
                      /\ \A i \in 1 .. off' : Accounted(i)'
    BY DEF ReaderInv
  <2>1. /\ UNCHANGED <<off, buf, sent, skipped, gap, unseen>> /\ ~unseen
        /\ Len(file') = Len(file) + 1 /\ \A k \in 1 .. Len(file) : file'[k] = file[k]
    BY <1>j, Appended
  <2>2. ASSUME NEW i \in 1 .. off'
        PROVE  Accounted(i)'
    <3>1. Accounted(i) /\ i \in 1 .. Len(file)
      BY <1>3, <1>4, <2>1
    <3>2. /\ Len(file) <= Len(file')
          /\ Len(sent) <= Len(sent') /\ \A k \in 1 .. Len(sent) : sent'[k] = sent[k]
          /\ skipped \subseteq skipped' /\ gap \subseteq gap'
      BY <1>1, <2>1
    <3>3. \A j \in 1 .. Len(buf) : \E k \in 1 .. Len(buf') : buf'[k].n = buf[j].n
      BY <2>1
    <3> QED BY <2>1, <3>1, <3>2, <3>3, StaysAccounted
  <2>3. ASSUME NEW i \in 1 .. Len(buf)
        PROVE  buf[i] = file'[off - Len(buf) + i]
    <3>1. off - Len(buf) + i \in 1 .. Len(file)
      BY <1>1, <1>3, <2>1
    <3> QED BY <1>3, <2>1, <3>1
  <2> QED BY <1>1, <1>3, <2>1, <2>2, <2>3
<1>k. CASE \/ LogCreated \/ LogRemove \/ StreamCheck \/ StreamOpen \/ StreamSize
           \/ PollSize \/ PollEnd \/ UNCHANGED vars
  BY <1>b, <1>k DEF LogCreated, LogRemove, StreamCheck, StreamOpen, StreamSize, PollSize, PollEnd, vars
<1> QED
  BY <1>c, <1>d, <1>e, <1>f, <1>g, <1>h, <1>i, <1>j, <1>k DEF Next, Stream

----------------------------------------------------------------------------
(* The theorems. *)

(* All parts of the invariant together. *)
LEMMA LogStep == LogInv /\ [Next]_vars => LogInv'
<1> SUFFICES ASSUME LogInv, [Next]_vars PROVE LogInv'
  OBVIOUS
<1>1. LogTypeOK /\ NumberInv /\ StartInv /\ OrderInv /\ ReaderInv
  BY DEF LogInv
<1>2. LogTypeOK'
  BY <1>1, LogTypeOKStep
<1>3. NumberInv' /\ StartInv'
  BY <1>1, NumberStep, StartStep
<1>4. OrderInv'
  BY <1>1, OrderStep
<1>5. ReaderInv'
  BY <1>1, <1>2, ReaderStep
<1> QED BY <1>2, <1>3, <1>4, <1>5 DEF LogInv

(* The stream's reader, its two sizes, the log and what was sent agree in every state.  *)
THEOREM LogCorrect == Spec => []LogInv
BY LogInit, LogStep, PTL DEF Spec

(* The client is sent each piece at most once and in the order QEMU wrote them, however *)
(* the log grows, is truncated between two polls and read again, or is removed.         *)
THEOREM SentInOrder == Spec => []InOrder
<1>1. LogInv => InOrder
  <2> SUFFICES ASSUME LogInv PROVE InOrder
    OBVIOUS
  <2>1. sent \in Seq(Nat) /\ OrderInv
    BY DEF LogInv, LogTypeOK
  <2>2. DOMAIN sent = 1 .. Len(sent)
    BY <2>1
  <2>3. ~torn => \A i, j \in 1 .. Len(sent) : i < j => sent[i] < sent[j]
    BY <2>1 DEF OrderInv, InLine, Rising
  <2> QED BY <2>2, <2>3 DEF InOrder
<1> QED BY <1>1, LogCorrect, PTL

(* Every piece behind the reader of a log whose truncations it has seen is sent, about  *)
(* to be, skipped before the first lines, written before the seek or not UTF-8.         *)
THEOREM PassesOverNothing == Spec => []NothingPassedOver
<1>1. LogInv => NothingPassedOver
  <2> SUFFICES ASSUME LogInv, ~unseen, NEW i \in DOMAIN file, i <= off
               PROVE  Accounted(i)
    BY DEF NothingPassedOver
  <2>1. /\ file \in Seq(Bit) /\ off \in Nat
        /\ \A k \in 1 .. off : Accounted(k)
    BY DEF LogInv, LogTypeOK, ReaderInv
  <2>2. i \in 1 .. off
    BY <2>1
  <2> QED BY <2>1, <2>2
<1> QED BY <1>1, LogCorrect, PTL
=============================================================================
