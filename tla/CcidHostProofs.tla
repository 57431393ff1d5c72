--------------------------- MODULE CcidHostProofs ---------------------------
(***************************************************************************)
(* Proofs about the transport and the bridge driven by a conforming host,  *)
(* for any commands, sequence numbers, packet sizes and read sizes.        *)
(***************************************************************************)
EXTENDS CcidHost, CcidTransportProofs

-----------------------------------------------------------------------------
(* Messages *)

\* A length of four bytes is read back from them.
LEMMA LengthReadsBack ==
    ASSUME NEW n \in Nat, FitsHeader(n)
    PROVE  LET l == ToLeBytes(n) IN FromLeBytes(l[1], l[2], l[3], l[4]) = n
<1>1. FromLeBytes(LowByte(n), LowByte(n \div 256), LowByte(n \div 65536),
                  LowByte(n \div 16777216)) = n
  BY SMTT(60) DEF FitsHeader, FromLeBytes, LowByte, Byte
<1> QED BY ONLY <1>1, SMT DEF ToLeBytes

LEMMA LengthShape ==
    ASSUME NEW n \in Nat
    PROVE  ToLeBytes(n) \in Seq(Byte) /\ Len(ToLeBytes(n)) = 4
<1>1. Len(ToLeBytes(n)) = 4
  BY SMT DEF ToLeBytes
<1> QED BY <1>1, ToLeBytesType

LEMMA JoinedBytes ==
    ASSUME NEW s \in Seq(Byte), NEW t \in Seq(Byte)
    PROVE  /\ s \o t \in Seq(Byte)
           /\ Len(s) \in Nat /\ Len(t) \in Nat
           /\ Len(s \o t) = Len(s) + Len(t)
           /\ \A i \in 1..Len(s) : (s \o t)[i] = s[i]
           /\ \A i \in 1..Len(t) : (s \o t)[Len(s) + i] = t[i]
OBVIOUS

LEMMA JoinAssociates ==
    ASSUME NEW s \in Seq(Byte), NEW t \in Seq(Byte), NEW u \in Seq(Byte)
    PROVE  (s \o t) \o u = s \o (t \o u)
<1>1. Len(s) \in Nat /\ Len(t) \in Nat /\ Len(u) \in Nat
  OBVIOUS
<1> DEFINE a == s \o t
           b == t \o u
<1>2. /\ a \in Seq(Byte) /\ b \in Seq(Byte)
      /\ Len(a) = Len(s) + Len(t) /\ Len(b) = Len(t) + Len(u)
  BY JoinedBytes
<1> DEFINE x == a \o u
           y == s \o b
<1>3. /\ x \in Seq(Byte) /\ y \in Seq(Byte) /\ Len(x) = Len(y)
      /\ \A i \in 1..Len(x) : x[i] = y[i]
  BY <1>1, <1>2
<1> HIDE DEF a, b, x, y
<1>4. x = y
  BY <1>3, SeqEqual
<1> QED BY <1>4 DEF a, b, x, y

\* A message, be it a command or a response.
Message(t, a, b, c, d, e, p) ==
    <<t>> \o ToLeBytes(Len(p)) \o <<a, b, c, d, e>> \o p

\* Where the fields of a message stand.
LaidOut(m, type, slot, n, len) ==
    /\ m \in Seq(Byte) /\ Len(m) = HeaderLen + len
    /\ DeclaredLen(m) = len
    /\ m[1] = type /\ m[6] = slot /\ m[7] = n

LEMMA MessageLayout ==
    ASSUME NEW t \in Byte, NEW a \in Byte, NEW b \in Byte, NEW c \in Byte,
           NEW d \in Byte, NEW e \in Byte, NEW p \in Sendable
    PROVE  LaidOut(Message(t, a, b, c, d, e, p), t, a, b, Len(p))
<1> DEFINE n == Len(p)
           l == ToLeBytes(n)
           o == <<t>>
           g == <<a, b, c, d, e>>
           x == o \o l
           h == x \o g
           m == Message(t, a, b, c, d, e, p)
<1>1. p \in Seq(Byte) /\ n \in Nat /\ FitsHeader(n)
  BY DEF Sendable
<1>2. l \in Seq(Byte) /\ Len(l) = 4 /\ FromLeBytes(l[1], l[2], l[3], l[4]) = n
  BY <1>1, LengthReadsBack, LengthShape
<1>3. o \in Seq(Byte) /\ Len(o) = 1 /\ o[1] = t
  OBVIOUS
<1>4. g \in Seq(Byte) /\ Len(g) = 5 /\ g[1] = a /\ g[2] = b
  OBVIOUS
<1>5. m = h \o p
  BY Zenon DEF Message
<1> HIDE DEF n, l, o, g, m
<1>6. /\ x \in Seq(Byte) /\ Len(x) = 5
      /\ x[1] = o[1] /\ \A i \in 1..4 : x[1 + i] = l[i]
  <2>1. /\ x \in Seq(Byte) /\ Len(x) = Len(o) + Len(l)
        /\ \A i \in 1..Len(o) : x[i] = o[i]
        /\ \A i \in 1..Len(l) : x[Len(o) + i] = l[i]
    BY <1>2, <1>3, JoinedBytes
  <2> HIDE DEF x
  <2> QED BY <1>2, <1>3, <2>1
<1> HIDE DEF x
<1>7. /\ h \in Seq(Byte) /\ Len(h) = 10
      /\ \A i \in 1..5 : h[i] = x[i]
      /\ \A i \in 1..5 : h[5 + i] = g[i]
  <2>1. /\ h \in Seq(Byte) /\ Len(h) = Len(x) + Len(g)
        /\ \A i \in 1..Len(x) : h[i] = x[i]
        /\ \A i \in 1..Len(g) : h[Len(x) + i] = g[i]
    BY <1>4, <1>6, JoinedBytes, ZenonT(60)
  <2> HIDE DEF h
  <2> QED BY <1>4, <1>6, <2>1
<1> HIDE DEF h
<1>8. /\ m \in Seq(Byte) /\ Len(m) = 10 + n
      /\ \A i \in 1..10 : m[i] = h[i]
  <2>1. Len(p) = n
    BY DEF n
  <2>2. /\ h \o p \in Seq(Byte) /\ Len(h \o p) = Len(h) + Len(p)
        /\ \A i \in 1..Len(h) : (h \o p)[i] = h[i]
    BY <1>1, <1>7, JoinedBytes, ZenonT(60)
  <2> QED BY <1>5, <1>7, <2>1, <2>2
<1>9. /\ m[1] = t /\ m[2] = l[1] /\ m[3] = l[2] /\ m[4] = l[3] /\ m[5] = l[4]
      /\ m[6] = a /\ m[7] = b
  <2>1. /\ x[1] = t /\ x[2] = l[1] /\ x[3] = l[2] /\ x[4] = l[3] /\ x[5] = l[4]
    BY <1>3, <1>6
  <2>2. /\ h[1] = x[1] /\ h[2] = x[2] /\ h[3] = x[3] /\ h[4] = x[4] /\ h[5] = x[5]
        /\ h[6] = a /\ h[7] = b
    BY <1>4, <1>7
  <2>3. /\ m[1] = h[1] /\ m[2] = h[2] /\ m[3] = h[3] /\ m[4] = h[4] /\ m[5] = h[5]
        /\ m[6] = h[6] /\ m[7] = h[7]
    BY <1>8
  <2> QED BY <2>1, <2>2, <2>3
<1>10. DeclaredLen(m) = n
  BY <1>2, <1>9, Zenon DEF DeclaredLen
<1> QED BY <1>8, <1>9, <1>10 DEF HeaderLen, LaidOut, n, m

LEMMA ZeroIsByte == 0 \in Byte
BY DEF Byte

LEMMA SmallFits ==
    ASSUME NEW k \in Nat, k <= CCID_MAX_MESSAGE_LENGTH
    PROVE  FitsHeader(k)
<1>1. k \div 16777216 = 0
  BY SMT DEF CCID_MAX_MESSAGE_LENGTH
<1> QED BY <1>1, ZeroIsByte, SMT DEF FitsHeader

\* A message of the host is one whole frame within the configured maximum.
Fits(m) ==
    /\ m \in Seq(Byte) /\ IsWhole(m)
    /\ Len(m) <= CCID_MAX_MESSAGE_LENGTH + HeaderLen

LEMMA WireMessageFits ==
    ASSUME NEW type \in Byte, NEW n \in Byte, NEW p \in Seq(Byte),
           Len(p) <= CCID_MAX_MESSAGE_LENGTH
    PROVE  LET m == WireMessage(type, n, p)
           IN  Fits(m) /\ m[1] = type /\ m[6] = 0 /\ m[7] = n
<1> DEFINE m == WireMessage(type, n, p)
<1>1. p \in Sendable /\ Len(p) \in Nat
  BY SmallFits DEF Sendable
<1>2. m = Message(type, 0, n, 0, 0, 0, p)
  BY Zenon DEF WireMessage, Message
<1> HIDE DEF m
<1>3. /\ m \in Seq(Byte) /\ Len(m) = HeaderLen + Len(p)
      /\ DeclaredLen(m) = Len(p)
      /\ m[1] = type /\ m[6] = 0 /\ m[7] = n
  <2>1. LaidOut(m, type, 0, n, Len(p))
    BY <1>1, <1>2, ZeroIsByte, MessageLayout
  <2> QED BY <2>1 DEF LaidOut
<1>4. IsWhole(m) /\ Len(m) <= CCID_MAX_MESSAGE_LENGTH + HeaderLen
  BY <1>1, <1>3 DEF IsWhole, HeaderLen, CCID_MAX_MESSAGE_LENGTH
<1>5. Fits(m) /\ m[1] = type /\ m[6] = 0 /\ m[7] = n
  BY <1>3, <1>4 DEF Fits
<1> QED BY <1>5 DEF m

\* A command the host may have begun with number n.
IsCommand(m, n) == \E c \in Commands : m = WireMessage(c[1], n, c[2])

LEMMA CommandFits ==
    ASSUME NEW n \in Byte, NEW m, IsCommand(m, n)
    PROVE  Fits(m) /\ m[6] = 0 /\ m[7] = n
<1>1. PICK c \in Commands : m = WireMessage(c[1], n, c[2])
  BY DEF IsCommand
<1>2. c[1] \in Byte /\ c[2] \in Seq(Byte) /\ Len(c[2]) <= CCID_MAX_MESSAGE_LENGTH
  BY HostAssumption
<1> QED BY <1>1, <1>2, WireMessageFits

LEMMA AbortFits ==
    ASSUME NEW n \in Byte
    PROVE  LET m == AbortMessageOf(n)
           IN  Fits(m) /\ m[1] = PC_TO_RDR.Abort /\ m[6] = 0 /\ m[7] = n
<1> DEFINE t == PC_TO_RDR.Abort
           p == << >>
<1>1. t \in Byte
  BY DEF PC_TO_RDR, Byte
<1>2. p \in Seq(Byte) /\ Len(p) <= CCID_MAX_MESSAGE_LENGTH
  BY DEF CCID_MAX_MESSAGE_LENGTH
<1>3. AbortMessageOf(n) = WireMessage(t, n, p)
  BY Zenon DEF AbortMessageOf
<1> HIDE DEF t, p
<1>4. LET m == WireMessage(t, n, p)
      IN  Fits(m) /\ m[1] = t /\ m[6] = 0 /\ m[7] = n
  BY <1>1, <1>2, WireMessageFits
<1>5. LET m == AbortMessageOf(n)
      IN  Fits(m) /\ m[1] = t /\ m[6] = 0 /\ m[7] = n
  BY <1>3, <1>4, Zenon
<1> QED BY <1>5 DEF t

\* A response whose payload can be sent is whole, and has its number where the
\* host looks for it.
LEMMA EncodedIsWhole ==
    ASSUME NEW r \in CcidResponse, r.payload \in Sendable
    PROVE  LET m == encode(r)
           IN  m \in Seq(Byte) /\ m # << >> /\ IsWhole(m) /\ m[7] = r.seq
<1> DEFINE t == RDR_TO_PC[r.kind]
           s == StatusByte(r.icc, r.status)
           m == encode(r)
<1>1. /\ r.kind \in DOMAIN RDR_TO_PC /\ r.icc \in DOMAIN IccStatus
      /\ r.status \in DOMAIN CommandStatus
      /\ r.slot \in Byte /\ r.seq \in Byte /\ r.error \in Byte /\ r.extra \in Byte
  BY DEF CcidResponse
<1>2. t \in Byte
  <2>1. RDR_TO_PC[r.kind] \in 128..130
    BY <1>1 DEF RDR_TO_PC
  <2> QED BY <2>1 DEF Byte
<1>3. s \in Byte
  <2>1. IccStatus[r.icc] \in 0..2 /\ CommandStatus[r.status] \in 0..1
    BY <1>1 DEF IccStatus, CommandStatus
  <2> QED BY <2>1 DEF StatusByte, Byte
<1>4. m = Message(t, r.slot, r.seq, s, r.error, r.extra, r.payload)
  BY Zenon DEF encode, Message
<1> HIDE DEF m, t, s
<1>5. /\ m \in Seq(Byte) /\ Len(m) = HeaderLen + Len(r.payload)
      /\ DeclaredLen(m) = Len(r.payload) /\ m[7] = r.seq
  <2>1. LaidOut(m, t, r.slot, r.seq, Len(r.payload))
    BY <1>1, <1>2, <1>3, <1>4, MessageLayout
  <2> QED BY <2>1 DEF LaidOut
<1>6. Len(r.payload) \in Nat
  BY DEF Sendable
<1>7. IsWhole(m) /\ m # << >>
  BY <1>5, <1>6 DEF IsWhole, HeaderLen
<1> QED BY <1>5, <1>7 DEF m

\* What begins a message is not one itself.
LEMMA NotBothWhole ==
    ASSUME NEW s \in Seq(Byte), NEW t \in Seq(Byte), t # << >>, IsWhole(s \o t)
    PROVE  ~IsWhole(s)
<1>1. Len(s) \in Nat /\ Len(t) \in Nat /\ Len(t) > 0 /\ Len(s \o t) = Len(s) + Len(t)
  OBVIOUS
<1>2. CASE Len(s) >= HeaderLen
  <2>1. DeclaredLen(s \o t) = DeclaredLen(s) /\ DeclaredLen(s) \in Nat
    BY <1>2, DeclaredLenOfConcat, DeclaredLenType
  <2> QED BY <1>1, <2>1 DEF IsWhole, HeaderLen
<1> QED BY <1>2 DEF IsWhole

-----------------------------------------------------------------------------
(* What the loop of handle_bulk_out does with the bytes of a conforming host *)

LEMMA WholeIsTaken ==
    ASSUME TransportInv, Fits(pending_out_buffer)
    PROVE  /\ FrameComplete
           /\ NextFrame = pending_out_buffer /\ AfterFrame = << >>
<1> DEFINE buf == pending_out_buffer
<1>1. /\ buf \in Seq(Byte) /\ Len(buf) \in Nat /\ Len(buf) >= HeaderLen
      /\ Len(buf) = HeaderLen + DeclaredLen(buf)
      /\ Len(buf) <= CCID_MAX_MESSAGE_LENGTH + HeaderLen
  BY DEF Fits, IsWhole
<1>2. FrameLen = Len(buf)
  BY <1>1 DEF FrameLen, FrameLenIsCurrent, TransportInv
<1>3. HasHeader /\ ~Oversized
  BY <1>1, <1>2 DEF HasHeader, Oversized, HeaderLen, CCID_MAX_MESSAGE_LENGTH
<1>4. SubSeq(buf, 1, Len(buf)) = buf /\ SubSeq(buf, Len(buf) + 1, Len(buf)) = << >>
  BY <1>1, SubSeqFull, SubSeqEmpty
<1> QED BY <1>1, <1>2, <1>3, <1>4 DEF FrameComplete, NextFrame, AfterFrame

LEMMA PartWaits ==
    ASSUME TransportInv, NEW rest \in Seq(Byte), rest # << >>,
           Fits(pending_out_buffer \o rest)
    PROVE  ~Oversized /\ ~FrameComplete
<1> DEFINE buf == pending_out_buffer
<1>1. buf \in Seq(Byte) /\ Len(buf) \in Nat
  BY DEF TransportInv, TransportTypeOK
<1>2. Len(rest) \in Nat /\ Len(rest) > 0 /\ Len(buf \o rest) = Len(buf) + Len(rest)
  BY <1>1
<1>3. CASE HasHeader
  <2>1. DeclaredLen(buf \o rest) = DeclaredLen(buf) /\ DeclaredLen(buf) \in Nat
    BY <1>1, <1>3, DeclaredLenOfConcat, DeclaredLenType DEF HasHeader
  <2>2. FrameLen = HeaderLen + DeclaredLen(buf)
    BY DEF FrameLen, FrameLenIsCurrent, TransportInv
  <2>3. /\ HeaderLen + DeclaredLen(buf) = Len(buf) + Len(rest)
        /\ Len(buf) + Len(rest) <= CCID_MAX_MESSAGE_LENGTH + HeaderLen
    BY <1>2, <2>1 DEF Fits, IsWhole
  <2> QED BY <1>1, <1>2, <2>1, <2>2, <2>3
          DEF Oversized, FrameComplete, HeaderLen, CCID_MAX_MESSAGE_LENGTH
<1> QED BY <1>3 DEF Oversized, FrameComplete

LEMMA NothingWaits ==
    ASSUME pending_out_buffer = << >>
    PROVE  ~Oversized /\ ~FrameComplete
<1>1. ~HasHeader
  BY DEF HasHeader, HeaderLen
<1> QED BY <1>1 DEF Oversized, FrameComplete

LEMMA DecodesToAbort ==
    ASSUME NEW m, m[1] = PC_TO_RDR.Abort
    PROVE  decode(m).op = "Abort"
<1>1. OpOf(m[1]) = "Abort"
  BY DEF OpOf, PC_TO_RDR
<1> QED BY <1>1 DEF decode

LEMMA DecodedFields ==
    ASSUME NEW m
    PROVE  decode(m).slot = m[6] /\ decode(m).seq = m[7]
BY DEF decode

-----------------------------------------------------------------------------
(* Answers *)

LEMMA SmallIsSendable ==
    ASSUME NEW p \in Seq(Byte), Len(p) <= CCID_MAX_MESSAGE_LENGTH
    PROVE  p \in Sendable
BY SmallFits DEF Sendable

LEMMA NothingIsSendable == << >> \in Sendable
<1>1. << >> \in Seq(Byte) /\ Len(<< >>) <= CCID_MAX_MESSAGE_LENGTH
  BY DEF CCID_MAX_MESSAGE_LENGTH
<1> QED BY ONLY <1>1, SmallIsSendable, Zenon

\* Every response answers the number of its command and can be sent.
LEMMA ReplyIsSendable ==
    ASSUME BridgeTypeOK, NEW c \in CcidCommand, handle_command(c)
    PROVE  /\ reply' \in CcidResponse
           /\ reply'.seq = c.seq /\ reply'.payload \in Sendable
<1> DEFINE Answers == reply'.seq = c.seq /\ reply'.payload \in Sendable
<1>1. BridgeTypeOK' /\ reply' \in CcidResponse
  BY HandleCommandType DEF BridgeTypeOK
<1>2. reader_name \in Backends
  BY DEF BridgeTypeOK
<1>3. ASSUME NEW icc, reply' = SlotStatusOk(c, icc) \/ reply' = SlotStatusFailed(c, icc)
      PROVE  Answers
  BY <1>3, NothingIsSendable DEF SlotStatusOk, SlotStatusFailed, Response
<1>4. ASSUME NEW p \in Sendable, reply' = DataBlock(c, p)
      PROVE  Answers
  BY <1>4 DEF DataBlock, Response
<1>5. ASSUME NEW status, reply' = ParametersResponse(c, status)
      PROVE  Answers
  <2>1. parameters' \in Seq(Byte) /\ Len(parameters') = 7
    BY <1>1, DefaultParametersType DEF BridgeTypeOK
  <2>2. Len(parameters') <= CCID_MAX_MESSAGE_LENGTH
    BY <2>1 DEF CCID_MAX_MESSAGE_LENGTH
  <2>3. parameters' \in Sendable
    BY <2>1, <2>2, SmallIsSendable
  <2> QED BY <1>5, <2>3 DEF ParametersResponse, Response
<1> HIDE DEF Answers
<1>6. ASSUME NEW poll \in PollResults(reader_name), IccPowerOn(c, poll)
      PROVE  Answers
  <2>1. poll.val \in Cards \cup {None}
    BY <1>2, PollResultType
  <2>2. poll.val # None => BuildPseudoAtr(poll.val) \in Sendable
    BY <2>1, HostAssumption
  <2> QED BY <1>3, <1>4, <1>6, <2>2 DEF IccPowerOn
<1>7. ASSUME NEW poll \in PollResults(reader_name),
             GetSlotStatus(c, poll) \/ XfrLookFails(c, poll) \/ XfrBlocked(c, poll)
      PROVE  Answers
  BY <1>3, <1>7 DEF GetSlotStatus, XfrLookFails, XfrBlocked
<1>8. ASSUME NEW poll, NEW xchg \in ExchangeResults(reader_name),
             XfrExchange(c, poll, xchg)
      PROVE  Answers
  <2>1. xchg.tag = "Ok" => xchg.val \in Sendable
    BY HostAssumption DEF ExchangeResults, Ok, Err, TargetLost
  <2> QED BY <1>3, <1>4, <1>8, <2>1 DEF XfrExchange, LosesTarget
<1>9. ASSUME NEW off, IccPowerOff(c, off)
      PROVE  Answers
  BY <1>3, <1>9 DEF IccPowerOff
<1>10. ASSUME GetParameters(c) \/ ResetParameters(c) \/ SetParameters(c)
       PROVE  Answers
  BY <1>5, <1>10 DEF GetParameters, ResetParameters, SetParameters
<1>11. ASSUME AbortOrUnknown(c)
       PROVE  Answers
  BY <1>3, <1>11 DEF AbortOrUnknown
<1>12. Answers
  BY <1>6, <1>7, <1>8, <1>9, <1>10, <1>11 DEF handle_command
<1> QED BY <1>1, <1>12 DEF Answers

\* One frame is unread, the whole answer to number n.
AnswersTo(n) ==
    /\ Len(Unread) = 1 /\ Unread[1] \in Seq(Byte) /\ Unread[1] # << >>
    /\ IsWhole(Unread[1]) /\ Unread[1][7] = n

\* A queue without a byte to read: at most the empty packet of a transfer.
HoldsNothing(queue) ==
    queue = << >> \/ (Len(queue) = 1 /\ queue[1] = << >>)

LEMMA UnreadNothing ==
    ASSUME TransportTypeOK, Unread = << >>
    PROVE  HoldsNothing(pending_in_frames)
<1>1. pending_in_frames \in Seq(Seq(Byte))
  BY DEF TransportTypeOK
<1>2. CASE pending_in_frames # << >> /\ Head(pending_in_frames) = << >>
  <2>1. /\ Len(Tail(pending_in_frames)) = Len(pending_in_frames) - 1
        /\ Head(pending_in_frames) = pending_in_frames[1]
        /\ Len(pending_in_frames) \in Nat
    BY <1>1, <1>2, HeadTailProperties
  <2>2. Tail(pending_in_frames) = << >>
    <3>1. Unread = Tail(pending_in_frames)
      BY ONLY <1>2, Zenon DEF Unread
    <3> QED BY <3>1
  <2>3. Len(pending_in_frames) = 1
    <3>1. Len(Tail(pending_in_frames)) = 0
      BY <1>1, <1>2, <2>2, HeadTailProperties, EmptySeq
    <3> QED BY <2>1, <3>1
  <2>4. pending_in_frames[1] = << >>
    BY <1>2, <2>1, Zenon
  <2> QED BY <2>3, <2>4 DEF HoldsNothing
<1> QED BY <1>2 DEF Unread, HoldsNothing

LEMMA UnreadPushed ==
    ASSUME NEW queue \in Seq(Seq(Byte)), HoldsNothing(queue),
           NEW frame \in Seq(Byte), frame # << >>,
           pending_in_frames' = push_in_frame(queue, frame)
    PROVE  Len(Unread') = 1 /\ Unread'[1] = frame
<1> DEFINE one == <<frame>>
           two == Append(queue, frame)
<1>1. one # << >> /\ Len(one) = 1 /\ one[1] = frame /\ Head(one) # << >>
  OBVIOUS
<1>2. CASE queue = << >>
  <2>1. pending_in_frames' = one
    BY <1>2 DEF push_in_frame
  <2> QED BY <1>1, <2>1 DEF Unread
<1>3. CASE Len(queue) = 1 /\ queue[1] = << >>
  <2>1. /\ two \in Seq(Seq(Byte)) /\ two # << >> /\ Len(two) = 2
        /\ two[1] = << >> /\ two[2] = frame
    <3>1. /\ two \in Seq(Seq(Byte)) /\ two # << >> /\ Len(two) = Len(queue) + 1
          /\ \A i \in 1..Len(queue) : two[i] = queue[i]
          /\ two[Len(queue) + 1] = frame
      BY AppendProperties
    <3> HIDE DEF two
    <3> QED BY <1>3, <3>1
  <2> HIDE DEF one, two
  <2>2. /\ Head(two) = << >> /\ Len(Tail(two)) = 1 /\ Tail(two)[1] = frame
    <3>1. /\ Head(two) = two[1] /\ Len(Tail(two)) = Len(two) - 1
          /\ \A i \in 1..Len(Tail(two)) : Tail(two)[i] = two[i + 1]
      BY <2>1, HeadTailProperties
    <3>2. Len(Tail(two)) = 1
      BY ONLY <2>1, <3>1, SMT
    <3>3. Tail(two)[1] = two[2]
      <4>1. 1 \in 1..1 /\ 1 + 1 = 2
        OBVIOUS
      <4> QED BY ONLY <3>1, <3>2, <4>1, Zenon
    <3> QED BY ONLY <2>1, <3>1, <3>2, <3>3, Zenon
  <2>3. pending_in_frames' = one \/ pending_in_frames' = two
    BY <1>3 DEF push_in_frame, one, two
  <2> QED BY <1>1, <2>1, <2>2, <2>3 DEF Unread
<1> QED BY <1>2, <1>3 DEF HoldsNothing

LEMMA EnqueueAnswers ==
    ASSUME NEW queue \in Seq(Seq(Byte)), HoldsNothing(queue),
           NEW r \in CcidResponse, r.payload \in Sendable, enqueue_response(queue, r)
    PROVE  AnswersTo(r.seq)'
<1> DEFINE m == encode(r)
<1>1. m \in Seq(Byte) /\ m # << >> /\ IsWhole(m) /\ m[7] = r.seq
  BY EncodedIsWhole
<1>2. pending_in_frames' = push_in_frame(queue, m)
  BY DEF enqueue_response
<1> HIDE DEF m
<1>3. Len(Unread') = 1 /\ Unread'[1] = m
  BY <1>1, <1>2, UnreadPushed
<1> QED BY <1>1, <1>3 DEF AnswersTo

-----------------------------------------------------------------------------
(* The steps of the loop *)

NoHalves == bulk_abort = None /\ control_abort = None

LEMMA DrainSafe ==
    ASSUME TransportInv, DrainOutBuffer
    PROVE  TransportInv'
BY WaitForMoreSafe, RejectFrameSafe, MatchControlAbortSafe, AnswerAbortedSafe,
   HoldBulkAbortSafe, RunCommandSafe DEF DrainOutBuffer

LEMMA DrainWaits ==
    ASSUME DrainOutBuffer, ~Oversized, ~FrameComplete
    PROVE  UNCHANGED <<pending_in_frames, pending_out_buffer, bulk_abort, control_abort>>
BY DEF DrainOutBuffer, WaitForMore, RejectFrame, MatchControlAbort, AnswerAborted,
       HoldBulkAbort, RunCommand, TakeFrame, queueVars

\* None is no pair, so a control half that is held is told from none.
LEMMA NoneIsNoPair ==
    ASSUME NEW a \in Byte, NEW b \in Byte
    PROVE  <<a, b>> # None /\ a # None
<1>1. a \in Nat /\ b \in Nat
  BY DEF Byte
<1>2. <<a, b>> \in Nat \X Nat
  BY <1>1
<1> QED BY <1>1, <1>2, ReaderAssumption

\* A whole message in the buffer is taken by the next pass of the loop.
LEMMA DrainTakes ==
    ASSUME TransportInv, DrainOutBuffer, Fits(pending_out_buffer)
    PROVE  LET c == decode(pending_out_buffer)
           IN  /\ TakeFrame /\ AfterFrame = << >>
               /\ c \in CcidCommand
               /\ \/ MatchControlAbort(c) \/ AnswerAborted(c)
                  \/ HoldBulkAbort(c) \/ RunCommand(c)
<1>1. FrameComplete /\ NextFrame = pending_out_buffer /\ AfterFrame = << >>
  BY WholeIsTaken
<1>2. Decodable(NextFrame) /\ decode(NextFrame) \in CcidCommand
  BY <1>1, FrameFacts DEF TransportInv
<1>3. ~WaitForMore /\ ~RejectFrame
  BY <1>1, <1>2 DEF WaitForMore, RejectFrame, FrameComplete
<1>4. LET c == decode(NextFrame)
      IN  \/ MatchControlAbort(c) \/ AnswerAborted(c)
          \/ HoldBulkAbort(c) \/ RunCommand(c)
  BY <1>3 DEF DrainOutBuffer
<1>5. TakeFrame
  BY <1>4 DEF MatchControlAbort, AnswerAborted, HoldBulkAbort, RunCommand
<1> QED BY <1>1, <1>2, <1>4, <1>5

LEMMA DrainRunsCommand ==
    ASSUME TransportInv, DrainOutBuffer, Fits(pending_out_buffer),
           NEW n \in Byte, pending_out_buffer[7] = n,
           control_abort = None, Unread = << >>
    PROVE  /\ pending_out_buffer' = << >> /\ control_abort' = None
           /\ \/ bulk_abort' = None /\ AnswersTo(n)'
              \/ bulk_abort' = n /\ UNCHANGED pending_in_frames
<1> DEFINE c == decode(pending_out_buffer)
<1>1. /\ AfterFrame = << >> /\ c \in CcidCommand
      /\ MatchControlAbort(c) \/ AnswerAborted(c) \/ HoldBulkAbort(c) \/ RunCommand(c)
  BY DrainTakes
<1>2. c.seq = n
  BY DecodedFields
<1> HIDE DEF c
<1>3. ~IsControlAbort(c)
  BY <1>1, NoneIsNoPair DEF IsControlAbort, CcidCommand
<1>4. CASE HoldBulkAbort(c)
  BY <1>1, <1>2, <1>4 DEF HoldBulkAbort, queueVars
<1>5. CASE RunCommand(c)
  <2>1. /\ BridgeTypeOK /\ handle_command(c)
        /\ enqueue_response(pending_in_frames, reply')
        /\ pending_in_frames \in Seq(Seq(Byte))
    BY <1>5 DEF RunCommand, TransportInv, TransportTypeOK
  <2>2. HoldsNothing(pending_in_frames)
    BY UnreadNothing DEF TransportInv
  <2>3. reply' \in CcidResponse /\ reply'.seq = n /\ reply'.payload \in Sendable
    BY <1>1, <1>2, <2>1, ReplyIsSendable
  <2>4. AnswersTo(n)'
    BY <2>1, <2>2, <2>3, EnqueueAnswers
  <2> QED BY <1>1, <1>2, <1>5, <2>4 DEF RunCommand
<1> QED BY <1>1, <1>3, <1>4, <1>5 DEF MatchControlAbort, AnswerAborted

LEMMA DrainHoldsAbort ==
    ASSUME TransportInv, DrainOutBuffer, NEW n \in Byte,
           pending_out_buffer = AbortMessageOf(n), control_abort = None
    PROVE  /\ pending_out_buffer' = << >> /\ control_abort' = None
           /\ bulk_abort' = n /\ UNCHANGED pending_in_frames
<1> DEFINE c == decode(pending_out_buffer)
<1>1. /\ Fits(pending_out_buffer)
      /\ pending_out_buffer[1] = PC_TO_RDR.Abort /\ pending_out_buffer[7] = n
  BY AbortFits
<1>2. /\ AfterFrame = << >> /\ c \in CcidCommand
      /\ MatchControlAbort(c) \/ AnswerAborted(c) \/ HoldBulkAbort(c) \/ RunCommand(c)
  BY <1>1, DrainTakes
<1>3. c.op = "Abort" /\ c.seq = n
  BY <1>1, DecodesToAbort, DecodedFields
<1> HIDE DEF c
<1>4. ~IsControlAbort(c)
  BY <1>2, NoneIsNoPair DEF IsControlAbort, CcidCommand
<1> QED BY <1>2, <1>3, <1>4
        DEF MatchControlAbort, AnswerAborted, HoldBulkAbort, RunCommand, queueVars

LEMMA FinishAnswers ==
    ASSUME TransportInv, NEW n \in Byte, finish_abort(0, n)
    PROVE  pending_out_buffer' = << >> /\ NoHalves' /\ AnswersTo(n)'
<1> DEFINE c == AbortCommand(0, n)
<1>1. c \in CcidCommand /\ c.seq = n
  <2>1. 0 \in Byte /\ "Abort" \in Ops
    BY DEF Byte, Ops, PC_TO_RDR
  <2> QED BY <2>1, EmptyBytes DEF AbortCommand, CcidCommand
<1>2. handle_command(c) /\ BridgeTypeOK
  BY DEF finish_abort, TransportInv, TransportTypeOK
<1>3. reply' \in CcidResponse /\ reply'.seq = n /\ reply'.payload \in Sendable
  BY <1>1, <1>2, ReplyIsSendable
<1>4. enqueue_response(<< >>, reply')
  BY DEF finish_abort
<1>5. << >> \in Seq(Seq(Byte)) /\ HoldsNothing(<< >>)
  BY DEF HoldsNothing
<1>6. AnswersTo(n)'
  BY <1>3, <1>4, <1>5, EnqueueAnswers
<1> QED BY <1>6 DEF finish_abort, NoHalves

LEMMA DrainCompletesAbort ==
    ASSUME TransportInv, DrainOutBuffer, NEW n \in Byte,
           pending_out_buffer = AbortMessageOf(n), control_abort = <<0, n>>
    PROVE  pending_out_buffer' = << >> /\ NoHalves' /\ AnswersTo(n)'
<1> DEFINE c == decode(pending_out_buffer)
<1>1. /\ Fits(pending_out_buffer) /\ pending_out_buffer[1] = PC_TO_RDR.Abort
      /\ pending_out_buffer[6] = 0 /\ pending_out_buffer[7] = n
  BY AbortFits
<1>2. MatchControlAbort(c) \/ AnswerAborted(c) \/ HoldBulkAbort(c) \/ RunCommand(c)
  BY <1>1, DrainTakes
<1>3. c.op = "Abort" /\ c.slot = 0 /\ c.seq = n
  BY <1>1, DecodesToAbort, DecodedFields
<1> HIDE DEF c
<1>4. IsControlAbort(c) /\ control_abort # None
  BY <1>3, NoneIsNoPair, ZeroIsByte DEF IsControlAbort
<1>5. finish_abort(0, n)
  BY <1>2, <1>3, <1>4 DEF MatchControlAbort, AnswerAborted, HoldBulkAbort, RunCommand
<1> QED BY <1>5, FinishAnswers

-----------------------------------------------------------------------------
(* Reading *)

LEMMA NothingUnread ==
    ASSUME pending_in_frames' \in Seq(Seq(Byte)), HoldsNothing(pending_in_frames')
    PROVE  Unread' = << >>
<1> DEFINE q == pending_in_frames'
<1>1. CASE q = << >>
  BY <1>1 DEF Unread
<1>2. CASE Len(q) = 1 /\ q[1] = << >>
  <2>1. q # << >>
    BY <1>2
  <2>2. Tail(q) \in Seq(Seq(Byte)) /\ Len(Tail(q)) = 0 /\ Head(q) = q[1]
    BY <1>2, <2>1, HeadTailProperties
  <2>3. Tail(q) = << >>
    BY <2>2, EmptySeq
  <2>4. Unread' = Tail(q)
    BY <1>2, <2>1, <2>2 DEF Unread
  <2> QED BY <2>3, <2>4
<1> QED BY <1>1, <1>2 DEF HoldsNothing

LEMMA HeadOfOne ==
    ASSUME NEW q \in Seq(Seq(Byte)), Len(q) = 1
    PROVE  q # << >> /\ Head(q) = q[1]
<1>1. q # << >>
  <2>1. Len(<< >>) = 0
    BY ONLY EmptySeq, Zenon
  <2>2. 0 # 1
    OBVIOUS
  <2> QED BY <2>1, <2>2, Zenon
<1> QED BY <1>1

LEMMA ReadsEmptyPacket ==
    ASSUME NEW max_len \in Nat, Head(pending_in_frames) = << >>
    PROVE  BulkInPacket(max_len) = << >> /\ BulkInRest(max_len) = << >>
<1> DEFINE f == Head(pending_in_frames)
<1>1. f = << >> /\ Len(f) <= max_len /\ ~(Len(f) > max_len)
  BY EmptySeq
<1> HIDE DEF f
<1> QED BY <1>1, Zenon DEF BulkInPacket, BulkInRest, f

LEMMA ReadsWholeFrame ==
    ASSUME NEW max_len \in Nat, Head(pending_in_frames) \in Seq(Byte),
           Len(Head(pending_in_frames)) <= max_len
    PROVE  /\ BulkInPacket(max_len) = Head(pending_in_frames)
           /\ BulkInRest(max_len) = << >> \/ BulkInRest(max_len) = << << >> >>
<1> DEFINE f == Head(pending_in_frames)
<1>1. ~(Len(f) > max_len)
  OBVIOUS
<1> HIDE DEF f
<1> QED BY <1>1, Zenon DEF BulkInPacket, BulkInRest, f

LEMMA SplitFrame ==
    ASSUME NEW f \in Seq(Byte), NEW k \in Nat, k <= Len(f)
    PROVE  LET d == SubSeq(f, 1, k)
               g == SubSeq(f, k + 1, Len(f))
           IN  /\ d \in Seq(Byte) /\ g \in Seq(Byte) /\ d \o g = f
               /\ k < Len(f) => g # << >>
<1> DEFINE d == SubSeq(f, 1, k)
           g == SubSeq(f, k + 1, Len(f))
<1>1. Len(f) \in Nat /\ k \in Int /\ 1 \in Int /\ k + 1 \in Int
  OBVIOUS
<1>2. \A i \in 1..Len(f) : f[i] \in Byte
  OBVIOUS
<1>3. d \in Seq(Byte)
  <2>1. \A i \in 1..k : f[i] \in Byte
    BY <1>1, <1>2
  <2> QED BY <1>1, <2>1, SubSeqProperties
<1>4. g \in Seq(Byte) /\ (k < Len(f) => Len(g) = Len(f) - (k + 1) + 1)
  <2>1. \A i \in k + 1 .. Len(f) : f[i] \in Byte
    BY <1>1, <1>2
  <2> QED BY <1>1, <2>1, SubSeqProperties
<1>5. d \o g = SubSeq(f, 1, Len(f))
  <2>1. 1 \in 1..Len(f) + 1 /\ k \in 1 - 1 .. Len(f) /\ Len(f) \in k..Len(f)
    BY <1>1
  <2> QED BY <2>1, ConcatAdjacentSubSeq
<1>6. ASSUME k < Len(f) PROVE g # << >>
  <2>1. Len(g) # 0
    BY <1>1, <1>4, <1>6
  <2> HIDE DEF g
  <2> QED BY <2>1
<1> QED BY <1>3, <1>4, <1>5, <1>6, SubSeqFull

\* A read finds nothing while there is nothing.
LEMMA ReadsNothing ==
    ASSUME TransportInv, NEW max_len \in Nat, handle_bulk_in(max_len), Unread = << >>
    PROVE  urb'.data = << >> /\ Unread' = << >>
<1> DEFINE q == pending_in_frames
<1>1. q \in Seq(Seq(Byte)) /\ HoldsNothing(q)
  BY UnreadNothing DEF TransportInv, TransportTypeOK
<1>2. CASE q = << >>
  <2>1. q' = << >> /\ urb' = Urb("bulk_in", << >>)
    BY <1>2 DEF handle_bulk_in
  <2> QED BY <2>1 DEF Unread, Urb
<1>3. CASE Len(q) = 1 /\ q[1] = << >>
  <2>1. /\ q # << >> /\ Head(q) = << >>
        /\ Tail(q) \in Seq(Seq(Byte)) /\ Len(Tail(q)) = 0
    BY <1>1, <1>3, HeadTailProperties
  <2>2. BulkInPacket(max_len) = << >> /\ BulkInRest(max_len) = << >>
    BY <2>1, ReadsEmptyPacket
  <2>3. urb' = Urb("bulk_in", << >>) /\ q' = << >> \o Tail(q)
    BY <2>1, <2>2 DEF handle_bulk_in
  <2>4. q' \in Seq(Seq(Byte)) /\ HoldsNothing(q')
    BY <2>1, <2>3, ConcatEmptySeq, EmptySeq DEF HoldsNothing
  <2> QED BY <2>3, <2>4, NothingUnread DEF Urb
<1> QED BY <1>1, <1>2, <1>3 DEF HoldsNothing

\* A read of an answer takes all of it or leaves a part to be read.
LEMMA ReadsAnswer ==
    ASSUME TransportInv, NEW max_len \in Nat, handle_bulk_in(max_len),
           Len(Unread) = 1, Unread[1] # << >>
    PROVE  /\ Unread[1] \in Seq(Byte) /\ urb'.data \in Seq(Byte)
           /\ \/ urb'.data = Unread[1] /\ Unread' = << >>
              \/ /\ Len(Unread') = 1 /\ Unread'[1] \in Seq(Byte) /\ Unread'[1] # << >>
                 /\ urb'.data \o Unread'[1] = Unread[1]
                 /\ Unread' = pending_in_frames'
<1> DEFINE q == pending_in_frames
           f == Unread[1]
<1>1. q \in Seq(Seq(Byte))
  BY DEF TransportInv, TransportTypeOK
<1>2. q # << >>
  BY DEF Unread
<1>3. /\ Head(q) \in Seq(Byte) /\ Head(q) = q[1]
      /\ Tail(q) \in Seq(Seq(Byte)) /\ Len(Tail(q)) = Len(q) - 1
  BY <1>1, <1>2, HeadTailProperties
<1>4. /\ urb' = Urb("bulk_in", BulkInPacket(max_len))
      /\ q' = BulkInRest(max_len) \o Tail(q)
  BY <1>2 DEF handle_bulk_in
<1>5. CASE Head(q) = << >>
  <2>1. Unread = Tail(q)
    BY <1>2, <1>5 DEF Unread
  <2>2. BulkInPacket(max_len) = << >> /\ BulkInRest(max_len) = << >>
    BY <1>5, ReadsEmptyPacket
  <2>3. q' = Tail(q) /\ urb'.data = << >>
    BY <1>3, <1>4, <2>2, ConcatEmptySeq DEF Urb
  <2>4. f \in Seq(Byte) /\ f = Tail(q)[1] /\ Len(Tail(q)) = 1
    BY <1>3, <2>1
  <2>5. Tail(q) # << >> /\ Head(Tail(q)) # << >>
    BY <1>3, <2>4, HeadOfOne
  <2>6. Unread' = Tail(q)
    BY <2>3, <2>5 DEF Unread
  <2> QED BY <2>3, <2>4, <2>6, ConcatEmptySeq, EmptyBytes
<1>6. CASE Head(q) # << >>
  <2>1. Unread = q
    BY <1>6 DEF Unread
  <2>2. f = Head(q) /\ f \in Seq(Byte) /\ Tail(q) = << >>
    <3>1. f = q[1] /\ Len(q) = 1
      BY <2>1
    <3>2. Len(Tail(q)) = 0
      BY ONLY <1>3, <3>1, SMT
    <3>3. Tail(q) = << >>
      BY ONLY <1>3, <3>2, EmptySeq, Zenon
    <3> HIDE DEF f, q
    <3> QED BY ONLY <1>3, <3>1, <3>3, Zenon
  <2> DEFINE rest == BulkInRest(max_len)
  <2>3. ASSUME NEW g \in Seq(Byte), rest = <<g>>
        PROVE  q' \in Seq(Seq(Byte)) /\ Len(q') = 1 /\ q'[1] = g
    <3>1. <<g>> \in Seq(Seq(Byte)) /\ Len(<<g>>) = 1 /\ <<g>>[1] = g
      OBVIOUS
    <3>2. q' = <<g>>
      BY <1>4, <2>2, <2>3, <3>1, ConcatEmptySeq
    <3> QED BY <3>1, <3>2
  <2>4. CASE Len(f) <= max_len
    <3>1. urb'.data = f
      BY <1>4, <2>2, <2>4, ReadsWholeFrame DEF Urb
    <3>2. rest = << >> \/ rest = << << >> >>
      BY <2>2, <2>4, ReadsWholeFrame
    <3>3. CASE rest = << >>
      <4>1. q' = << >> \o Tail(q)
        BY <1>4, <3>3
      <4>2. q' \in Seq(Seq(Byte)) /\ HoldsNothing(q')
        BY <1>3, <2>2, <4>1, ConcatEmptySeq, EmptySeq DEF HoldsNothing
      <4> QED BY <2>2, <3>1, <4>2, NothingUnread
    <3>4. CASE rest = << << >> >>
      <4>1. q' \in Seq(Seq(Byte)) /\ HoldsNothing(q')
        BY <2>3, <3>4, EmptyBytes DEF HoldsNothing
      <4> QED BY <2>2, <3>1, <4>1, NothingUnread
    <3> QED BY <3>2, <3>3, <3>4
  <2>5. CASE max_len < Len(f)
    <3> DEFINE d == SubSeq(f, 1, max_len)
               g == SubSeq(f, max_len + 1, Len(f))
    <3>1. ~(Len(f) <= max_len) /\ Len(f) > max_len /\ max_len <= Len(f)
      BY <2>2, <2>5
    <3>2. BulkInPacket(max_len) = d /\ rest = <<g>>
      BY <2>2, <3>1, Zenon DEF BulkInPacket, BulkInRest
    <3>3. d \in Seq(Byte) /\ g \in Seq(Byte) /\ g # << >> /\ d \o g = f
      BY <2>2, <2>5, <3>1, SplitFrame
    <3> HIDE DEF g, d, rest
    <3>4. urb'.data = d
      BY <1>4, <3>2 DEF Urb
    <3>5. q' \in Seq(Seq(Byte)) /\ Len(q') = 1 /\ q'[1] = g
      BY <2>3, <3>2, <3>3
    <3>6. q' # << >> /\ Head(q') # << >>
      BY <3>3, <3>5, HeadOfOne
    <3>7. Unread' = q'
      BY ONLY <3>6, Zenon DEF Unread
    <3>8. Len(Unread') = 1 /\ Unread'[1] = g
      BY <3>5, <3>7
    <3>9. urb'.data \o Unread'[1] = f
      BY <3>3, <3>4, <3>8
    <3>10. urb'.data \in Seq(Byte) /\ Unread'[1] \in Seq(Byte) /\ Unread'[1] # << >>
      BY <3>3, <3>4, <3>8
    <3> QED BY <2>2, <3>7, <3>8, <3>9, <3>10
  <2>6. Len(f) <= max_len \/ max_len < Len(f)
    BY <2>2
  <2> QED BY <2>4, <2>5, <2>6, Zenon
<1> QED BY <1>5, <1>6

-----------------------------------------------------------------------------
(* The inductive invariant: where the message the host has begun, and its    *)
(* answer, are in each of the host's phases.                                 *)

\* No byte of an answer is anywhere.
Silent == Unread = << >> /\ rx = << >>

\* The answer to number seq: what has been read of it and, in the queue, the
\* rest.
Answered ==
    /\ Len(Unread) = 1 /\ Unread[1] # << >>
    /\ IsWhole(rx \o Unread[1]) /\ (rx \o Unread[1])[7] = seq

IdleInv == ~draining /\ Silent /\ NoHalves /\ pending_out_buffer = << >>

\* The message is in two parts, one received and one still to be sent.
WritingInv ==
    Silent /\ NoHalves /\ tx # << >> /\ IsCommand(pending_out_buffer \o tx, seq)

\* The command waits in the buffer, has been answered, or was an Abort.
ReadingInv ==
    /\ tx = << >> /\ control_abort = None
    /\ \/ draining /\ Silent /\ bulk_abort = None /\ IsCommand(pending_out_buffer, seq)
       \/ pending_out_buffer = << >> /\ Answered /\ bulk_abort = None
       \/ pending_out_buffer = << >> /\ Silent /\ bulk_abort = seq

\* Neither half has been sent; the command the host gave up may still be in the
\* buffer, with its own number, or its answer in the queue.
NeitherSent ==
    /\ halves = {"control", "bulk"} /\ control_abort = None /\ bulk_abort # seq
    /\ \/ pending_out_buffer = << >>
       \/ /\ draining /\ Silent /\ bulk_abort = None
          /\ \E n \in Byte \ {seq} : IsCommand(pending_out_buffer, n)

ControlSent ==
    /\ halves = {"bulk"} /\ control_abort = <<0, seq>> /\ bulk_abort # seq
    /\ ~draining /\ pending_out_buffer = << >>

BulkSent ==
    /\ halves = {"control"} /\ control_abort = None
    /\ \/ draining /\ bulk_abort # seq /\ pending_out_buffer = AbortMessageOf(seq)
       \/ bulk_abort = seq /\ pending_out_buffer = << >>

AbortingInv ==
    /\ tx = << >> /\ rx = << >> /\ Len(Unread) <= 1
    /\ Len(Unread) = 1 => Unread[1] # << >>
    /\ NeitherSent \/ ControlSent \/ BulkSent

\* The second half waits in the buffer, or both have met.
ReadingAbortInv ==
    /\ tx = << >>
    /\ \/ /\ draining /\ rx = << >> /\ Len(Unread) <= 1
          /\ control_abort = <<0, seq>>
          /\ pending_out_buffer = AbortMessageOf(seq)
       \/ Answered /\ NoHalves /\ pending_out_buffer = << >>

HostInv ==
    /\ TransportInv
    /\ phase \in {"idle", "writing", "reading", "aborting", "reading_abort"}
    /\ seq \in 0..SeqModulus - 1 /\ tx \in Seq(Byte) /\ rx \in Seq(Byte)
    /\ phase = "idle" => IdleInv
    /\ phase = "writing" => WritingInv
    /\ phase = "reading" => ReadingInv
    /\ phase = "aborting" => AbortingInv
    /\ phase = "reading_abort" => ReadingAbortInv

LEMMA SeqIsByte ==
    ASSUME NEW n \in 0..SeqModulus - 1
    PROVE  n \in Byte
BY HostAssumption DEF Byte

LEMMA NextSeqIsFresh ==
    ASSUME seq \in 0..SeqModulus - 1
    PROVE  NextSeq \in 0..SeqModulus - 1 /\ NextSeq # seq
<1>1. SeqModulus \in Nat /\ SeqModulus >= 2 /\ seq \in Nat
  BY HostAssumption
<1>2. CASE seq + 1 = SeqModulus
  <2>1. NextSeq = 0
    BY <1>1, <1>2 DEF NextSeq
  <2> QED BY <1>1, <1>2, <2>1
<1>3. CASE seq + 1 < SeqModulus
  <2>1. NextSeq = seq + 1
    BY <1>1, <1>3 DEF NextSeq
  <2> QED BY <1>1, <1>3, <2>1
<1> QED BY <1>1, <1>2, <1>3

LEMMA UnchangedSafe ==
    ASSUME TransportInv, UNCHANGED vars
    PROVE  TransportInv' /\ Unread' = Unread
BY TransportStepSafe DEF Unread, vars, transportVars, queueVars

\* A first answer, nothing of it read yet.
LEMMA AnswersToIsAnswered ==
    ASSUME NEW n, AnswersTo(n)', rx' = << >>, seq' = n
    PROVE  Answered'
<1>1. << >> \o Unread'[1] = Unread'[1]
  BY ConcatEmptySeq DEF AnswersTo
<1> QED BY <1>1 DEF AnswersTo, Answered

LEMMA SubmitStep ==
    ASSUME HostInv, Submit
    PROVE  HostInv'
<1>1. TransportInv' /\ Unread' = Unread
  BY UnchangedSafe DEF Submit, HostInv
<1>2. /\ seq' = NextSeq /\ NextSeq \in 0..SeqModulus - 1 /\ seq' \in Byte
  BY NextSeqIsFresh, SeqIsByte DEF Submit, HostInv
<1>3. PICK c \in Commands : tx' = WireMessage(c[1], NextSeq, c[2])
  BY DEF Submit
<1>4. IsCommand(tx', seq')
  BY <1>2, <1>3 DEF IsCommand
<1>5. Fits(tx')
  BY <1>2, <1>4, CommandFits
<1>6. tx' \in Seq(Byte) /\ tx' # << >>
  <2>1. tx' \in Seq(Byte) /\ Len(tx') # 0
    BY <1>5 DEF Fits, IsWhole, HeaderLen
  <2> QED BY <2>1
<1>7. pending_out_buffer' = << >> /\ pending_out_buffer' \o tx' = tx'
  BY <1>6, ConcatEmptySeq
     DEF Submit, HostInv, IdleInv, vars, transportVars
<1>8. rx' = rx /\ bulk_abort' = bulk_abort /\ control_abort' = control_abort
  BY DEF Submit, vars, transportVars
<1>9. WritingInv'
  BY <1>1, <1>4, <1>6, <1>7, <1>8
     DEF WritingInv, HostInv, IdleInv, Silent, NoHalves, Submit
<1> QED BY <1>1, <1>2, <1>6, <1>8, <1>9 DEF HostInv, Submit

\* The bytes written move from one part of the message to the other.
LEMMA WritePacketStep ==
    ASSUME HostInv, WritePacket
    PROVE  HostInv'
<1> DEFINE k == IF Len(tx) < PacketSize THEN Len(tx) ELSE PacketSize
           d == SubSeq(tx, 1, k)
           g == SubSeq(tx, k + 1, Len(tx))
           buf == pending_out_buffer
<1>1. /\ TransportInv /\ tx \in Seq(Byte) /\ tx # << >> /\ buf \in Seq(Byte)
      /\ Silent /\ NoHalves /\ IsCommand(buf \o tx, seq)
      /\ seq \in 0..SeqModulus - 1
  BY DEF HostInv, WritePacket, WritingInv, TransportInv, TransportTypeOK
<1>2. Len(tx) \in Nat \ {0} /\ PacketSize \in Nat \ {0}
  BY <1>1, EmptySeq, HostAssumption
<1>3. k \in Nat /\ k <= Len(tx)
  BY <1>2
<1>4. handle_bulk_out(d) /\ tx' = g
  BY DEF WritePacket
<1>5. d \in Seq(Byte) /\ g \in Seq(Byte) /\ d \o g = tx
  <2> HIDE DEF k
  <2> QED BY <1>1, <1>3, SplitFrame
<1> HIDE DEF d, g
<1>6. TransportInv'
  BY <1>1, <1>4, <1>5, BulkOutSafe
<1>7. /\ buf' = buf \o d /\ Unread' = Unread /\ draining' = TRUE
      /\ bulk_abort' = bulk_abort /\ control_abort' = control_abort
  BY <1>4 DEF handle_bulk_out, queueVars, Unread
<1>8. (buf \o d) \o g = buf \o tx
  <2>1. (buf \o d) \o g = buf \o (d \o g)
    <3> HIDE DEF buf
    <3>1. buf \in Seq(Byte) /\ d \in Seq(Byte) /\ g \in Seq(Byte)
      BY <1>1, <1>5
    <3> QED BY <3>1, JoinAssociates
  <2> QED BY <1>5, <2>1
<1>9. IsCommand(buf' \o tx', seq) /\ tx' \in Seq(Byte) /\ buf' \in Seq(Byte)
  BY <1>1, <1>4, <1>5, <1>7, <1>8
<1>10. /\ seq' = seq /\ rx' = rx
       /\ phase' = IF tx' = << >> THEN "reading" ELSE "writing"
       /\ rx \in Seq(Byte)
  BY DEF WritePacket, HostInv
<1> HIDE DEF buf
<1>11. CASE tx' = << >>
  <2>1. buf' \o tx' = buf'
    BY <1>9, <1>11, ConcatEmptySeq
  <2>2. IsCommand(buf', seq')
    BY <1>9, <1>10, <2>1
  <2>3. ReadingInv'
    BY <1>1, <1>7, <1>10, <1>11, <2>2 DEF ReadingInv, Silent, NoHalves, buf
  <2> QED BY <1>1, <1>6, <1>9, <1>10, <1>11, <2>3 DEF HostInv
<1>12. CASE tx' # << >>
  <2>1. WritingInv'
    BY <1>1, <1>7, <1>9, <1>10, <1>12 DEF WritingInv, Silent, NoHalves, buf
  <2> QED BY <1>1, <1>6, <1>9, <1>10, <1>12, <2>1 DEF HostInv
<1> QED BY <1>11, <1>12

LEMMA GiveUpStep ==
    ASSUME HostInv, GiveUp
    PROVE  HostInv'
<1>1. TransportInv' /\ Unread' = Unread
  BY UnchangedSafe DEF GiveUp, HostInv
<1>2. /\ seq' \in 0..SeqModulus - 1 /\ seq' # seq
      /\ seq' \in Byte /\ seq \in Byte
  BY NextSeqIsFresh, SeqIsByte DEF GiveUp, HostInv
<1>3. /\ UNCHANGED <<pending_out_buffer, bulk_abort, control_abort, draining, tx>>
      /\ halves' = {"control", "bulk"} /\ rx' = << >> /\ phase' = "aborting"
      /\ ReadingInv
  BY DEF GiveUp, HostInv, vars, transportVars
<1>4. None # seq'
  BY <1>2, NoneIsNoPair
<1>5. NeitherSent'
  <2>1. CASE draining /\ Silent /\ bulk_abort = None /\ IsCommand(pending_out_buffer, seq)
    <3>1. seq \in Byte \ {seq'}
      BY <1>2
    <3>2. \E n \in Byte \ {seq'} : IsCommand(pending_out_buffer', n)
      BY <1>3, <2>1, <3>1
    <3> QED BY <1>1, <1>3, <1>4, <2>1, <3>2 DEF NeitherSent, Silent, ReadingInv
  <2>2. CASE pending_out_buffer = << >> /\ bulk_abort = None
    BY <1>3, <1>4, <2>2 DEF NeitherSent, ReadingInv
  <2>3. CASE pending_out_buffer = << >> /\ bulk_abort = seq
    BY <1>2, <1>3, <2>3 DEF NeitherSent, ReadingInv
  <2> QED BY <1>3, <2>1, <2>2, <2>3 DEF ReadingInv
<1>6. Len(Unread) <= 1 /\ (Len(Unread) = 1 => Unread[1] # << >>)
  <2>1. Silent => Len(Unread) = 0
    BY DEF Silent
  <2>2. Len(Unread) = 0 \/ (Len(Unread) = 1 /\ Unread[1] # << >>)
    BY <1>3, <2>1, Zenon DEF ReadingInv, Answered
  <2> HIDE DEF Unread
  <2> QED BY <2>2
<1>7. AbortingInv'
  BY <1>1, <1>3, <1>5, <1>6 DEF AbortingInv, ReadingInv
<1> QED BY <1>1, <1>2, <1>3, <1>7, EmptyBytes DEF HostInv

LEMMA NothingIsNotWhole == ~IsWhole(<< >>)
<1>1. Len(<< >>) = 0
  BY ONLY EmptySeq, Zenon
<1> QED BY <1>1 DEF IsWhole, HeaderLen

\* While an answer is being read: it stays in two parts until it is whole.
LEMMA AnswerReadStep ==
    ASSUME HostInv, Answered, NEW max_len \in Nat, handle_bulk_in(max_len)
    PROVE  LET got == rx \o urb'.data
           IN  \/ IsWhole(got) /\ Unread' = << >>
               \/ /\ ~IsWhole(got) /\ got \in Seq(Byte)
                  /\ Len(Unread') = 1 /\ Unread'[1] # << >>
                  /\ got \o Unread'[1] = rx \o Unread[1]
<1> DEFINE f == Unread[1]
           d == urb'.data
           g == Unread'[1]
           got == rx \o d
<1>1. /\ f \in Seq(Byte) /\ d \in Seq(Byte)
      /\ \/ d = f /\ Unread' = << >>
         \/ Len(Unread') = 1 /\ g \in Seq(Byte) /\ g # << >> /\ d \o g = f
  BY ReadsAnswer DEF HostInv, Answered
<1>2. rx \in Seq(Byte) /\ IsWhole(rx \o f)
  BY DEF HostInv, Answered
<1> HIDE DEF f, d, g
<1>3. CASE d = f /\ Unread' = << >>
  BY <1>2, <1>3 DEF d
<1>4. CASE Len(Unread') = 1 /\ g \in Seq(Byte) /\ g # << >> /\ d \o g = f
  <2>1. got \in Seq(Byte) /\ got \o g = rx \o (d \o g)
    <3>1. rx \in Seq(Byte) /\ d \in Seq(Byte) /\ g \in Seq(Byte)
      BY <1>1, <1>2, <1>4
    <3>2. got \in Seq(Byte)
      BY <3>1, JoinedBytes
    <3>3. (rx \o d) \o g = rx \o (d \o g)
      BY <3>1, JoinAssociates
    <3> QED BY <3>2, <3>3
  <2>2. got \o g = rx \o f
    BY <1>4, <2>1
  <2> HIDE DEF got
  <2>3. ~IsWhole(got)
    BY <1>2, <1>4, <2>1, <2>2, NotBothWhole
  <2> QED BY <1>4, <2>1, <2>2, <2>3 DEF got, d, f, g
<1> QED BY <1>1, <1>3, <1>4

LEMMA ReadPacketStep ==
    ASSUME HostInv, ReadPacket
    PROVE  HostInv'
<1> DEFINE got == rx \o urb'.data
<1>1. PICK max_len \in ReadSizes : handle_bulk_in(max_len)
  BY DEF ReadPacket
<1>2. max_len \in Nat
  BY TransportAssumption
<1>3. TransportInv'
  BY <1>1, <1>2, BulkInSafe DEF HostInv
<1>4. /\ ~draining /\ UNCHANGED <<pending_out_buffer, bulk_abort, control_abort,
                                  draining, seq, tx, halves>>
      /\ IF IsWhole(got) THEN phase' = "idle" /\ rx' = << >>
         ELSE phase' = phase /\ rx' = got
      /\ phase \in {"reading", "reading_abort"}
      /\ seq \in 0..SeqModulus - 1 /\ tx \in Seq(Byte)
  BY <1>1 DEF ReadPacket, handle_bulk_in, HostInv
<1>5. tx = << >> /\ pending_out_buffer = << >> /\ control_abort = None
      /\ \/ Answered /\ bulk_abort = None
         \/ phase = "reading" /\ Silent /\ bulk_abort = seq
  <2>1. CASE phase = "reading"
    BY <1>4, <2>1 DEF HostInv, ReadingInv
  <2>2. CASE phase = "reading_abort"
    BY <1>4, <2>2 DEF HostInv, ReadingAbortInv, NoHalves
  <2> QED BY <1>4, <2>1, <2>2
<1>6. CASE Answered /\ bulk_abort = None
  <2>1. \/ IsWhole(got) /\ Unread' = << >>
        \/ /\ ~IsWhole(got) /\ got \in Seq(Byte)
           /\ Len(Unread') = 1 /\ Unread'[1] # << >>
           /\ got \o Unread'[1] = rx \o Unread[1]
    BY <1>1, <1>2, <1>6, AnswerReadStep
  <2> HIDE DEF got
  <2>2. CASE IsWhole(got) /\ Unread' = << >>
    <3>1. IdleInv'
      BY <1>4, <1>5, <1>6, <2>2 DEF IdleInv, Silent, NoHalves
    <3> QED BY <1>3, <1>4, <2>2, <3>1, EmptyBytes DEF HostInv
  <2>3. CASE /\ ~IsWhole(got) /\ got \in Seq(Byte)
             /\ Len(Unread') = 1 /\ Unread'[1] # << >>
             /\ got \o Unread'[1] = rx \o Unread[1]
    <3>1. rx' = got /\ phase' = phase
      BY <1>4, <2>3
    <3>2. rx' \o Unread'[1] = rx \o Unread[1]
      BY <2>3, <3>1
    <3>3. Answered'
      BY <1>4, <1>6, <2>3, <3>2 DEF Answered
    <3>4. ReadingInv' /\ ReadingAbortInv'
      BY <1>4, <1>5, <1>6, <3>3 DEF ReadingInv, ReadingAbortInv, NoHalves
    <3> QED BY <1>3, <1>4, <2>3, <3>1, <3>4 DEF HostInv
  <2> QED BY <2>1, <2>2, <2>3
<1>7. CASE phase = "reading" /\ Silent /\ bulk_abort = seq
  <2>1. urb'.data = << >> /\ Unread' = << >>
    BY <1>1, <1>2, <1>7, ReadsNothing DEF HostInv, Silent
  <2>2. got = << >>
    <3>1. << >> \o << >> = << >>
      BY ONLY EmptyBytes, ConcatEmptySeq, Zenon
    <3> QED BY <1>7, <2>1, <3>1 DEF Silent
  <2> HIDE DEF got
  <2>3. rx' = << >> /\ phase' = "reading"
    BY <1>4, <1>7, <2>2, NothingIsNotWhole
  <2>4. ReadingInv'
    BY <1>4, <1>5, <1>7, <2>1, <2>3 DEF ReadingInv, Silent
  <2> QED BY <1>3, <1>4, <2>3, <2>4, EmptyBytes DEF HostInv
<1> QED BY <1>5, <1>6, <1>7

\* Between the halves nothing is running; the second one completes the abort.
LEMMA SendHalfStep ==
    ASSUME HostInv, SendHalf
    PROVE  HostInv'
<1>1. PICK h \in halves :
         /\ \/ h = "control" /\ control_abort_request(0, seq)
            \/ h = "bulk" /\ handle_bulk_out(AbortMessageOf(seq))
         /\ halves' = halves \ {h}
  BY DEF SendHalf
<1>2. /\ TransportInv /\ AbortingInv /\ tx = << >> /\ rx = << >>
      /\ seq \in 0..SeqModulus - 1 /\ seq \in Byte
      /\ phase' = IF halves' = {} THEN "reading_abort" ELSE "aborting"
      /\ seq' = seq /\ tx' = << >> /\ rx' = << >>
  BY SeqIsByte DEF SendHalf, HostInv, AbortingInv
<1>3. tx' \in Seq(Byte) /\ rx' \in Seq(Byte)
  BY <1>2, EmptyBytes
<1>4. CASE h = "control"
  <2>1. control_abort_request(0, seq)
    BY <1>1, <1>4
  <2>2. TransportInv'
    BY <1>2, <2>1, ZeroIsByte, ControlAbortRequestSafe
  <2>3. ~draining
    BY <2>1 DEF control_abort_request
  <2>4. CASE NeitherSent
    <3>1. ~MatchesBulkAbort(0, seq) /\ pending_out_buffer = << >>
      BY <2>3, <2>4 DEF NeitherSent, MatchesBulkAbort
    <3>2. /\ control_abort' = <<0, seq>> /\ Unread' = Unread
          /\ UNCHANGED <<pending_out_buffer, bulk_abort, draining>>
      BY <2>1, <3>1 DEF control_abort_request, HeldControlAbort, queueVars, Unread
    <3>3. halves' = {"bulk"} /\ phase' = "aborting"
      BY <1>1, <1>2, <1>4, <2>4 DEF NeitherSent
    <3>4. ControlSent'
      BY <1>2, <2>3, <2>4, <3>1, <3>2, <3>3 DEF ControlSent, NeitherSent
    <3>5. AbortingInv'
      BY <1>2, <3>2, <3>4 DEF AbortingInv
    <3> QED BY <1>2, <1>3, <2>2, <3>3, <3>5 DEF HostInv
  <2>5. CASE BulkSent
    <3>1. MatchesBulkAbort(0, seq)
      BY <2>3, <2>5 DEF BulkSent, MatchesBulkAbort
    <3>2. finish_abort(0, seq)
      BY <2>1, <3>1 DEF control_abort_request
    <3>3. pending_out_buffer' = << >> /\ NoHalves' /\ AnswersTo(seq)'
      <4>1. ASSUME NEW n \in Byte, n = seq
            PROVE  pending_out_buffer' = << >> /\ NoHalves' /\ AnswersTo(n)'
        BY <1>2, <3>2, <4>1, FinishAnswers
      <4>2. seq' = seq /\ seq \in Byte
        BY <1>2
      <4> QED BY <4>1, <4>2 DEF AnswersTo
    <3>4. Answered'
      BY <1>2, <3>3, AnswersToIsAnswered
    <3>5. halves' = {} /\ phase' = "reading_abort"
      BY <1>1, <1>2, <1>4, <2>5 DEF BulkSent
    <3>6. ReadingAbortInv'
      BY <1>2, <3>3, <3>4 DEF ReadingAbortInv
    <3> QED BY <1>2, <1>3, <2>2, <3>5, <3>6 DEF HostInv
  <2> QED BY <1>1, <1>2, <1>4, <2>4, <2>5 DEF AbortingInv, ControlSent
<1>5. CASE h = "bulk"
  <2>1. handle_bulk_out(AbortMessageOf(seq))
    BY <1>1, <1>5
  <2>2. AbortMessageOf(seq) \in Seq(Byte)
    BY <1>2, AbortFits DEF Fits
  <2>3. TransportInv'
    BY <1>2, <2>1, <2>2, BulkOutSafe
  <2>4. /\ ~draining /\ draining' = TRUE
        /\ pending_out_buffer' = pending_out_buffer \o AbortMessageOf(seq)
        /\ bulk_abort' = bulk_abort /\ control_abort' = control_abort
        /\ Unread' = Unread
    BY <2>1 DEF handle_bulk_out, queueVars, Unread
  <2>5. pending_out_buffer = << >> /\ bulk_abort # seq
    BY <1>1, <1>2, <1>5, <2>4 DEF AbortingInv, NeitherSent, ControlSent, BulkSent
  <2>6. pending_out_buffer' = AbortMessageOf(seq)
    BY <2>2, <2>4, <2>5, ConcatEmptySeq
  <2>7. AbortMessageOf(seq') = AbortMessageOf(seq)
    BY <1>2
  <2>8. CASE NeitherSent
    <3>1. halves' = {"control"} /\ phase' = "aborting"
      BY <1>1, <1>2, <1>5, <2>8 DEF NeitherSent
    <3>2. BulkSent'
      BY <1>2, <2>4, <2>5, <2>6, <2>7, <2>8, <3>1 DEF BulkSent, NeitherSent
    <3>3. AbortingInv'
      BY <1>2, <2>4, <3>2 DEF AbortingInv
    <3> QED BY <1>2, <1>3, <2>3, <3>1, <3>3 DEF HostInv
  <2>9. CASE ControlSent
    <3>1. halves' = {} /\ phase' = "reading_abort"
      BY <1>1, <1>2, <1>5, <2>9 DEF ControlSent
    <3>2. ReadingAbortInv'
      BY <1>2, <2>4, <2>6, <2>7, <2>9
         DEF ReadingAbortInv, AbortingInv, ControlSent
    <3> QED BY <1>2, <1>3, <2>3, <3>1, <3>2 DEF HostInv
  <2> QED BY <1>1, <1>2, <1>5, <2>8, <2>9 DEF AbortingInv, BulkSent
<1> QED BY <1>1, <1>4, <1>5

\* A pass that only waits, and a poll, leave every part where it is.
LEMMA NothingMoves ==
    ASSUME HostInv, TransportInv', UNCHANGED hostOnly,
           UNCHANGED <<pending_in_frames, pending_out_buffer, bulk_abort, control_abort>>,
           pending_out_buffer = << >> \/ phase = "writing" \/ UNCHANGED draining,
           phase = "idle" => UNCHANGED draining,
           phase = "aborting" /\ ControlSent => UNCHANGED draining
    PROVE  HostInv'
<1>1. Unread' = Unread
  BY DEF Unread
<1>2. UNCHANGED <<phase, seq, tx, rx, halves>>
  BY DEF hostOnly
<1>3. phase = "idle" => IdleInv'
  BY <1>1, <1>2 DEF HostInv, IdleInv, Silent, NoHalves
<1>4. phase = "writing" => WritingInv'
  BY <1>1, <1>2 DEF HostInv, WritingInv, Silent, NoHalves
<1>5. ASSUME NEW n \in Byte
      PROVE  /\ pending_out_buffer = AbortMessageOf(n) => pending_out_buffer # << >>
             /\ IsCommand(pending_out_buffer, n) => pending_out_buffer # << >>
  <2>1. ~Fits(<< >>)
    BY NothingIsNotWhole DEF Fits
  <2> QED BY <2>1, AbortFits, CommandFits
<1>6. seq \in Byte
  BY SeqIsByte DEF HostInv
<1>7. Answered => Answered'
  BY <1>1, <1>2 DEF Answered
<1>8. Silent => Silent'
  BY <1>1, <1>2 DEF Silent
<1>9. phase = "reading" => ReadingInv'
  BY <1>2, <1>5, <1>6, <1>7, <1>8 DEF HostInv, ReadingInv
<1>10. ASSUME phase = "aborting"
       PROVE  AbortingInv'
  <2>1. CASE NeitherSent
    <3>1. NeitherSent'
      BY <1>2, <1>5, <1>8, <1>10, <2>1 DEF NeitherSent
    <3> QED BY <1>1, <1>2, <1>10, <3>1 DEF HostInv, AbortingInv
  <2>2. CASE ControlSent
    <3>1. ControlSent'
      BY <1>2, <1>10, <2>2 DEF ControlSent
    <3> QED BY <1>1, <1>2, <1>10, <3>1 DEF HostInv, AbortingInv
  <2>3. CASE BulkSent
    <3>1. BulkSent'
      BY <1>2, <1>5, <1>6, <1>10, <2>3 DEF BulkSent
    <3> QED BY <1>1, <1>2, <1>10, <3>1 DEF HostInv, AbortingInv
  <2> QED BY <1>10, <2>1, <2>2, <2>3 DEF HostInv, AbortingInv
<1>11. phase = "reading_abort" => ReadingAbortInv'
  BY <1>1, <1>2, <1>5, <1>6, <1>7 DEF HostInv, ReadingAbortInv, NoHalves
<1> QED BY <1>2, <1>3, <1>4, <1>9, <1>10, <1>11 DEF HostInv

LEMMA DrainStep ==
    ASSUME HostInv, DrainOutBuffer, UNCHANGED hostOnly
    PROVE  HostInv'
<1> DEFINE buf == pending_out_buffer
<1>1. TransportInv /\ TransportInv' /\ draining
  BY DrainSafe DEF HostInv, DrainOutBuffer, WaitForMore, RejectFrame, TakeFrame,
     MatchControlAbort, AnswerAborted, HoldBulkAbort, RunCommand
<1>2. /\ UNCHANGED <<phase, seq, tx, rx, halves>>
      /\ seq \in 0..SeqModulus - 1 /\ seq \in Byte /\ tx \in Seq(Byte) /\ rx \in Seq(Byte)
      /\ phase \in {"idle", "writing", "reading", "aborting", "reading_abort"}
  BY SeqIsByte DEF hostOnly, HostInv
<1>3. phase # "idle" /\ ~(phase = "aborting" /\ ControlSent)
  BY <1>1 DEF HostInv, IdleInv, ControlSent
<1>4. CASE ~Oversized /\ ~FrameComplete
  <2>1. UNCHANGED <<pending_in_frames, pending_out_buffer, bulk_abort, control_abort>>
    BY <1>4, DrainWaits
  <2>2. buf = << >> \/ phase = "writing"
    <3>1. \A n \in Byte : IsCommand(buf, n) \/ buf = AbortMessageOf(n) => FrameComplete
      BY <1>1, WholeIsTaken, CommandFits, AbortFits
    <3> QED BY <1>2, <1>3, <1>4, <3>1
            DEF HostInv, ReadingInv, AbortingInv, NeitherSent, ControlSent, BulkSent,
                ReadingAbortInv
  <2> QED BY <1>1, <1>3, <2>1, <2>2, NothingMoves
<1>5. CASE Oversized \/ FrameComplete
  <2>1. buf # << >>
    BY <1>5, NothingWaits
  <2>2. phase # "writing"
    <3>1. ASSUME phase = "writing" PROVE FALSE
      <4>1. tx \in Seq(Byte) /\ tx # << >> /\ IsCommand(buf \o tx, seq)
        BY <1>2, <3>1 DEF HostInv, WritingInv
      <4>2. Fits(buf \o tx)
        BY <1>2, <4>1, CommandFits
      <4> QED BY <1>1, <1>5, <4>1, <4>2, PartWaits
    <3> QED BY <3>1
  <2>3. CASE phase = "reading"
    <3>1. /\ Silent /\ bulk_abort = None /\ control_abort = None /\ tx = << >>
          /\ IsCommand(buf, seq)
      BY <2>1, <2>3 DEF HostInv, ReadingInv
    <3>2. Fits(buf) /\ buf[7] = seq
      BY <1>2, <3>1, CommandFits
    <3>3. PICK n \in Byte : n = seq /\ seq' = n
      BY <1>2
    <3>4. /\ buf' = << >> /\ control_abort' = None
          /\ \/ bulk_abort' = None /\ AnswersTo(n)'
             \/ bulk_abort' = n /\ UNCHANGED pending_in_frames
      BY <1>1, <3>1, <3>2, <3>3, DrainRunsCommand DEF Silent
    <3>5. rx' = << >> /\ tx' = << >>
      BY <1>2, <3>1 DEF Silent
    <3>6. CASE bulk_abort' = None /\ AnswersTo(n)'
      <4>1. Answered'
        BY <3>3, <3>5, <3>6, AnswersToIsAnswered
      <4> QED BY <1>1, <1>2, <2>3, <3>4, <3>5, <3>6, <4>1 DEF HostInv, ReadingInv
    <3>7. CASE bulk_abort' = n /\ UNCHANGED pending_in_frames
      <4>1. Silent'
        BY <3>1, <3>5, <3>7 DEF Silent, Unread
      <4> QED BY <1>1, <1>2, <2>3, <3>3, <3>4, <3>5, <3>7, <4>1 DEF HostInv, ReadingInv
    <3> QED BY <3>4, <3>6, <3>7
  <2>4. CASE phase = "aborting" /\ NeitherSent
    <3>1. PICK n \in Byte \ {seq} : IsCommand(buf, n)
      BY <2>1, <2>4 DEF NeitherSent
    <3>2. Fits(buf) /\ buf[7] = n
      BY <3>1, CommandFits
    <3>3. Silent /\ control_abort = None /\ tx = << >> /\ rx = << >>
      BY <2>1, <2>4 DEF NeitherSent, HostInv, AbortingInv
    <3>4. /\ buf' = << >> /\ control_abort' = None
          /\ \/ bulk_abort' = None /\ AnswersTo(n)'
             \/ bulk_abort' = n /\ UNCHANGED pending_in_frames
      BY <1>1, <3>2, <3>3, DrainRunsCommand DEF Silent
    <3>5. bulk_abort' # seq'
      BY <1>2, <3>1, <3>4, NoneIsNoPair
    <3>6. NeitherSent'
      BY <1>2, <2>4, <3>4, <3>5 DEF NeitherSent
    <3>7. Len(Unread') <= 1 /\ (Len(Unread') = 1 => Unread'[1] # << >>)
      <4>1. CASE AnswersTo(n)'
        BY <4>1 DEF AnswersTo
      <4>2. CASE UNCHANGED pending_in_frames
        <5>1. Unread' = << >>
          BY <3>3, <4>2 DEF Silent, Unread
        <5> QED BY <5>1
      <4> QED BY <3>4, <4>1, <4>2
    <3> QED BY <1>1, <1>2, <2>4, <3>3, <3>6, <3>7 DEF HostInv, AbortingInv
  <2>5. CASE phase = "aborting" /\ BulkSent
    <3>1. buf = AbortMessageOf(seq) /\ control_abort = None
      BY <2>1, <2>5 DEF BulkSent
    <3>2. /\ buf' = << >> /\ control_abort' = None /\ bulk_abort' = seq
          /\ UNCHANGED pending_in_frames
      BY <1>1, <1>2, <3>1, DrainHoldsAbort
    <3>3. BulkSent'
      BY <1>2, <2>5, <3>2 DEF BulkSent
    <3>4. Unread' = Unread
      BY <3>2 DEF Unread
    <3>5. AbortingInv'
      BY <1>2, <2>5, <3>3, <3>4 DEF HostInv, AbortingInv
    <3> QED BY <1>1, <1>2, <2>5, <3>5 DEF HostInv
  <2>6. CASE phase = "reading_abort"
    <3>1. /\ rx = << >> /\ tx = << >> /\ control_abort = <<0, seq>>
          /\ buf = AbortMessageOf(seq)
      BY <2>1, <2>6 DEF HostInv, ReadingAbortInv
    <3>2. PICK n \in Byte : n = seq /\ seq' = n
      BY <1>2
    <3>3. buf' = << >> /\ NoHalves' /\ AnswersTo(n)'
      BY <1>1, <3>1, <3>2, DrainCompletesAbort
    <3>4. Answered'
      BY <1>2, <3>1, <3>2, <3>3, AnswersToIsAnswered
    <3> QED BY <1>1, <1>2, <2>6, <3>1, <3>3, <3>4 DEF HostInv, ReadingAbortInv
  <2>7. phase = "aborting" => NeitherSent \/ BulkSent
    BY <1>3 DEF HostInv, AbortingInv
  <2> QED BY <1>2, <1>3, <2>2, <2>3, <2>4, <2>5, <2>6, <2>7
<1> QED BY <1>4, <1>5

LEMMA PollStep ==
    ASSUME HostInv, PollInterruptIn, UNCHANGED hostOnly
    PROVE  HostInv'
<1>1. PICK poll \in PollResults(reader_name) : handle_interrupt_in(poll)
  BY DEF PollInterruptIn
<1>2. TransportInv'
  BY <1>1, InterruptInSafe DEF HostInv
<1>3. UNCHANGED <<pending_in_frames, pending_out_buffer, bulk_abort, control_abort,
                  draining>>
  BY <1>1 DEF handle_interrupt_in
<1> QED BY <1>2, <1>3, NothingMoves

LEMMA HostInitSafe == HostInit => HostInv
<1> SUFFICES ASSUME HostInit PROVE HostInv
  OBVIOUS
<1>1. TransportInv
  BY TransportInitSafe DEF HostInit
<1>2. 0 \in 0..SeqModulus - 1
  BY HostAssumption
<1>3. IdleInv
  BY DEF IdleInv, Silent, NoHalves, Unread, HostInit, TransportInit
<1> QED BY <1>1, <1>2, <1>3, EmptyBytes DEF HostInv, HostInit

LEMMA HostStepSafe == HostInv /\ [HostNext]_hostVars => HostInv'
<1> SUFFICES ASSUME HostInv, [HostNext]_hostVars PROVE HostInv'
  OBVIOUS
<1>1. CASE Submit
  BY <1>1, SubmitStep
<1>2. CASE WritePacket
  BY <1>2, WritePacketStep
<1>3. CASE ReadPacket
  BY <1>3, ReadPacketStep
<1>4. CASE GiveUp
  BY <1>4, GiveUpStep
<1>5. CASE SendHalf
  BY <1>5, SendHalfStep
<1>6. CASE DrainOutBuffer /\ HostIdle
  BY <1>6, DrainStep DEF HostIdle
<1>7. CASE PollInterruptIn /\ HostIdle
  BY <1>7, PollStep DEF HostIdle
<1>8. CASE UNCHANGED hostVars
  <2>1. UNCHANGED vars /\ UNCHANGED hostOnly
    BY <1>8 DEF hostVars
  <2>2. TransportInv'
    BY <2>1, UnchangedSafe DEF HostInv
  <2>3. UNCHANGED <<pending_in_frames, pending_out_buffer, bulk_abort, control_abort,
                    draining>>
    BY <2>1 DEF vars, transportVars, queueVars
  <2> QED BY <2>1, <2>2, <2>3, NothingMoves
<1> QED BY <1>1, <1>2, <1>3, <1>4, <1>5, <1>6, <1>7, <1>8 DEF HostNext

LEMMA HostInvAlways == HostSpec => []HostInv
BY HostInitSafe, HostStepSafe, PTL DEF HostSpec

-----------------------------------------------------------------------------
(* Empty reads *)

\* No read is served between the packets of a message and the end of the loop.
EmptyReadInv == (draining => urb.ep # "bulk_in") /\ OneEmptyRead

\* An answer is behind one empty packet at most.
LEMMA EmptyReadUncovers ==
    ASSUME TransportInv, NEW max_len \in Nat, handle_bulk_in(max_len),
           Len(Unread) = 1, Unread[1] # << >>, urb'.data = << >>
    PROVE  pending_in_frames' # << >> /\ Head(pending_in_frames') # << >>
<1>1. Len(Unread') = 1 /\ Unread'[1] # << >> /\ Unread' = pending_in_frames'
  BY ReadsAnswer
<1>2. TransportInv'
  BY BulkInSafe
<1>3. pending_in_frames' \in Seq(Seq(Byte))
  BY <1>2 DEF TransportInv, TransportTypeOK
<1> QED BY <1>1, <1>3, HeadOfOne

LEMMA ReadKeepsEmptyRead ==
    ASSUME HostInv, ReadPacket
    PROVE  EmptyReadInv'
<1>1. PICK max_len \in ReadSizes : handle_bulk_in(max_len)
  BY DEF ReadPacket
<1>2. max_len \in Nat
  BY TransportAssumption
<1>3. ~draining /\ draining' = draining /\ bulk_abort' = bulk_abort
  BY <1>1 DEF handle_bulk_in
<1>4. ASSUME phase' \in {"reading", "reading_abort"}, bulk_abort' = None,
             urb'.data = << >>
      PROVE  pending_in_frames' # << >> /\ Head(pending_in_frames') # << >>
  <2>1. phase \in {"reading", "reading_abort"} /\ TransportInv
    BY DEF ReadPacket, HostInv
  <2>2. bulk_abort # seq
    <3>1. seq \in Byte
      BY SeqIsByte DEF HostInv
    <3> QED BY <1>3, <1>4, <3>1, NoneIsNoPair
  <2>3. Answered
    BY <1>3, <2>1, <2>2 DEF HostInv, ReadingInv, ReadingAbortInv
  <2> QED BY <1>1, <1>2, <1>4, <2>1, <2>3, EmptyReadUncovers DEF Answered
<1> QED BY <1>3, <1>4 DEF EmptyReadInv, OneEmptyRead

\* Every other step leaves urb alone, and the queue with it, or returns from
\* another endpoint, or leaves the host with nothing to read.
LEMMA EmptyReadStep ==
    ASSUME HostInv, EmptyReadInv, [HostNext]_hostVars
    PROVE  EmptyReadInv'
<1>1. CASE Submit
  <2>1. phase' = "writing" /\ UNCHANGED <<draining, urb>>
    BY <1>1 DEF Submit, vars, transportVars
  <2> QED BY <2>1 DEF EmptyReadInv, OneEmptyRead
<1>2. CASE WritePacket
  <2>1. urb'.ep = "none"
    BY <1>2 DEF WritePacket, handle_bulk_out, Urb
  <2> QED BY <2>1 DEF EmptyReadInv, OneEmptyRead
<1>3. CASE ReadPacket
  BY <1>3, ReadKeepsEmptyRead
<1>4. CASE GiveUp
  <2>1. phase' = "aborting" /\ UNCHANGED <<draining, urb>>
    BY <1>4 DEF GiveUp, vars, transportVars
  <2> QED BY <2>1 DEF EmptyReadInv, OneEmptyRead
<1>5. CASE SendHalf
  <2>1. urb'.ep \in {"none", "control"}
    BY <1>5 DEF SendHalf, handle_bulk_out, control_abort_request, Urb
  <2> QED BY <2>1 DEF EmptyReadInv, OneEmptyRead
<1>6. CASE DrainOutBuffer
  <2>1. draining /\ (urb' = urb \/ urb'.ep = "bulk_out")
    BY <1>6 DEF DrainOutBuffer, WaitForMore, RejectFrame, TakeFrame,
       MatchControlAbort, AnswerAborted, HoldBulkAbort, RunCommand, Urb, FailedUrb
  <2>2. urb'.ep # "bulk_in"
    BY <2>1 DEF EmptyReadInv
  <2> QED BY <2>2 DEF EmptyReadInv, OneEmptyRead
<1>7. CASE PollInterruptIn
  <2>1. urb'.ep = "interrupt_in"
    BY <1>7 DEF PollInterruptIn, handle_interrupt_in, Urb
  <2> QED BY <2>1 DEF EmptyReadInv, OneEmptyRead
<1>8. CASE UNCHANGED hostVars
  <2>1. UNCHANGED <<phase, bulk_abort, urb, pending_in_frames, draining>>
    BY <1>8 DEF hostVars, hostOnly, vars, transportVars, queueVars
  <2> QED BY <2>1 DEF EmptyReadInv, OneEmptyRead
<1> QED BY <1>1, <1>2, <1>3, <1>4, <1>5, <1>6, <1>7, <1>8 DEF HostNext

LEMMA EmptyReadInit == HostInit => EmptyReadInv
BY DEF HostInit, TransportInit, EmptyReadInv, OneEmptyRead, Urb

-----------------------------------------------------------------------------
(* Theorems *)

\* Whatever a conforming host submits, gives up and aborts, and however its
\* packets are cut, what push_in_frame and handle_bulk_in hand it joins to one
\* whole response with the outstanding sequence number.
THEOREM ResponsesStayWhole == HostSpec => []ResponseIsWhole
<1>1. HostInv => ResponseIsWhole
  <2> SUFFICES ASSUME HostInv PROVE ResponseIsWhole
    OBVIOUS
  <2>1. Silent => Len(Unread) = 0
    BY DEF Silent
  <2>2. \/ Silent
        \/ Answered
        \/ Len(Unread) <= 1 /\ rx = << >> /\ (phase = "aborting" \/ draining)
    BY DEF HostInv, IdleInv, WritingInv, ReadingInv, AbortingInv, ReadingAbortInv
  <2>3. CASE Silent
    BY <2>1, <2>3 DEF Silent, ResponseIsWhole
  <2>4. CASE Answered
    <3>1. Unread # << >>
      BY <2>4 DEF Answered
    <3> QED BY <2>4, <3>1 DEF Answered, ResponseIsWhole
  <2>5. CASE Len(Unread) <= 1 /\ rx = << >> /\ (phase = "aborting" \/ draining)
    BY <2>5 DEF ResponseIsWhole
  <2> QED BY <2>2, <2>3, <2>4, <2>5
<1> QED BY <1>1, HostInvAlways, PTL

\* Between two commands of a conforming host pending_in_frames is empty or holds
\* one empty packet, which the last handle_bulk_in put there as it filled its
\* read exactly; there is no byte of a message and no half of an abort
\* (try_take_complete_frame, handle_bulk_in, finish_abort).
THEOREM IdleStaysClean == HostSpec => []IdleIsClean
<1>1. HostInv => IdleIsClean
  <2> SUFFICES ASSUME HostInv, phase = "idle" PROVE IdleIsClean
    BY DEF IdleIsClean
  <2>1. /\ ~draining /\ pending_out_buffer = << >>
        /\ bulk_abort = None /\ control_abort = None
        /\ Unread = << >> /\ TransportTypeOK
    BY DEF HostInv, IdleInv, Silent, NoHalves, TransportInv
  <2>2. HoldsNothing(pending_in_frames) /\ pending_in_frames \in Seq(Seq(Byte))
    BY <2>1, UnreadNothing DEF TransportTypeOK
  <2>3. pending_in_frames \in {<< >>, << << >> >>}
    <3>1. CASE Len(pending_in_frames) = 1 /\ pending_in_frames[1] = << >>
      BY <2>2, <3>1, SMT
    <3> QED BY <2>2, <3>1 DEF HoldsNothing
  <2> QED BY <2>1, <2>3 DEF IdleIsClean
<1> QED BY <1>1, HostInvAlways, PTL

\* The empty packet that handle_bulk_in leaves behind a response is read by a
\* later command at most once, and the next read starts its response, for any
\* read sizes: an empty packet is not followed by another, and push_in_frame
\* never puts a response behind two.
THEOREM EmptyReadsStayOne == HostSpec => []OneEmptyRead
<1>1. EmptyReadInv => OneEmptyRead
  BY DEF EmptyReadInv
<1> QED BY <1>1, HostInvAlways, EmptyReadInit, EmptyReadStep, PTL DEF HostSpec

\* Driven by a conforming host, whose packets and sequence numbers the transport
\* does not choose, handle_urb keeps its own invariant: types, frame length,
\* queue limit, presence, notification history and the matching of aborts.
THEOREM HostKeepsTransportSafe == HostSpec => []TransportInv
<1>1. HostInv => TransportInv
  BY DEF HostInv
<1> QED BY <1>1, HostInvAlways, PTL
=============================================================================
