------------------------- MODULE Pn532ReaderProofs --------------------------
(***************************************************************************)
(* Proofs about Pn532Reader, for any cards, APDUs and answers.             *)
(***************************************************************************)
EXTENDS Pn532Reader, Pn532FrameProofs

\* The stage of the call in progress fits the target and the field: the field
\* is on when targets are listed, and the target is forgotten before it goes
\* off.
StageFits(c) ==
    /\ c.stage \in Stages
    /\ c.stage = "list" => rf_field_enabled
    /\ c.stage \in {"rf_off", "rf_off_absent", "rf_off_lost"} => active_target = None

FieldInv ==
    /\ rf_field_enabled \in BOOLEAN
    /\ TargetNeedsField
    /\ call # None => StageFits(call)

\* A call starts in a stage that fits (pn532.rs: poll_card, exchange_apdu,
\* power_off up to their first command).
LEMMA CallsKeepField ==
    ASSUME FieldInv,
           poll_card \/ power_off \/ \E apdu \in Apdus : exchange_apdu(apdu)
    PROVE  FieldInv'
<1>1. CASE poll_card
  BY <1>1 DEF poll_card, BeginPoll, Issue, Return, FieldInv, TargetNeedsField,
     StageFits, Stages, RfStages
<1>2. CASE power_off
  BY <1>2 DEF power_off, Issue, Return, FieldInv, TargetNeedsField,
     StageFits, Stages, RfStages
<1>3. ASSUME NEW apdu \in Apdus, exchange_apdu(apdu)
      PROVE  FieldInv'
  BY <1>3 DEF exchange_apdu, BeginPoll, Issue, Return, FieldInv, TargetNeedsField,
     StageFits, Stages, RfStages
<1> QED
  BY <1>1, <1>2, <1>3

\* A failed command ends the call and leaves target and field as they are.
LEMMA FailKeepsField ==
    ASSUME FieldInv, Fail
    PROVE  FieldInv'
BY DEF Fail, Finish, Return, readerVars, FieldInv, TargetNeedsField

\* The three kinds of answer (set_rf_field, poll_card, exchange_apdu).
LEMMA AnswersKeepField ==
    ASSUME FieldInv, call # None,
           NEW STATE response,
           \/ call.stage = "list" /\ Listed(response)
           \/ call.stage = "data" /\ Exchanged(response)
           \/ call.stage \in RfStages /\ RfConfigured
    PROVE  FieldInv'
<1>1. CASE call.stage = "list" /\ Listed(response)
  BY <1>1 DEF Listed, Proceed, Finish, Issue, Return, FieldInv, TargetNeedsField,
     StageFits, Stages, RfStages
<1>2. CASE call.stage = "data" /\ Exchanged(response)
  BY <1>2 DEF Exchanged, deactivate_target, Proceed, Finish, Issue, Return, readerVars, FieldInv,
     TargetNeedsField, StageFits, Stages, RfStages
<1>3. CASE call.stage \in RfStages /\ RfConfigured
  <2>1. CASE call.stage = "rf_on"
    <3>1. rf_field_enabled' = TRUE
      BY <1>3, <2>1, Zenon DEF RfConfigured
    <3>2. call'.stage = "list"
      BY <1>3, <2>1 DEF RfConfigured, Proceed, Issue
    <3> QED
      BY <3>1, <3>2 DEF FieldInv, TargetNeedsField, StageFits, Stages, RfStages
  <2>2. CASE call.stage # "rf_on"
    <3>1. active_target = None /\ active_target' = active_target
      BY <1>3, <2>2 DEF RfConfigured, FieldInv, StageFits, RfStages
    <3>2. rf_field_enabled' \in BOOLEAN
      BY <1>3, Zenon DEF RfConfigured
    <3>3. call' = None
      BY <1>3, <2>2 DEF RfConfigured, Finish, Return
    <3> QED
      BY <3>1, <3>2, <3>3 DEF FieldInv, TargetNeedsField
  <2> QED
    BY <2>1, <2>2
<1> QED
  BY <1>1, <1>2, <1>3

LEMMA ReaderKeepsField ==
    ASSUME FieldInv, ReaderStep
    PROVE  FieldInv'
<1>1. CASE Send
  BY <1>1 DEF Send, readerVars, FieldInv, TargetNeedsField, StageFits
<1>2. CASE SendFails
  BY <1>2, FailKeepsField DEF SendFails
<1>3. CASE TimesOut
  BY <1>3, FailKeepsField DEF TimesOut
<1>4. CASE ReceiveAck
  <2>1. CASE Fail
    BY <2>1, FailKeepsField
  <2>2. CASE call' = [call EXCEPT !.phase = "resp"] /\ UNCHANGED readerVars
    BY <1>4, <2>2 DEF ReceiveAck, readerVars, FieldInv, TargetNeedsField, StageFits
  <2> QED
    BY <1>4, <2>1, <2>2 DEF ReceiveAck
<1>5. CASE ReceiveResponse
  <2>1. CASE Fail
    BY <2>1, FailKeepsField
  <2>2. CASE ~Fail
    <3>1. call # None /\ call.stage \in Stages
      BY <1>5 DEF ReceiveResponse, FieldInv, StageFits
    <3>2. \/ call.stage = "list" /\ Listed(Received.val)
          \/ call.stage = "data" /\ Exchanged(Received.val)
          \/ call.stage \in RfStages /\ RfConfigured
      BY <1>5, <2>2, <3>1 DEF ReceiveResponse, Stages, RfStages
    <3> QED
      BY <3>1, <3>2, AnswersKeepField
  <2> QED
    BY <2>1, <2>2
<1> QED
  BY <1>1, <1>2, <1>3, <1>4, <1>5 DEF ReaderStep

\* The chip, the cards and the clock touch neither target nor field flag.
LEMMA WorldKeepsField ==
    ASSUME FieldInv, WorldStep
    PROVE  FieldInv'
<1>1. UNCHANGED <<active_target, rf_field_enabled, call>>
  BY DEF WorldStep, ChipAck, ChipAnswer, ChipRefuses, ChipDrops, NewsFromChip, PlaceCard,
     RemoveCard, Tick, readerVars
<1> QED
  BY <1>1 DEF FieldInv, TargetNeedsField, StageFits

\* A selected target always has the RF field on (Pn532UartReader's fields
\* active_target and rf_field_enabled), at every step of every call, for any
\* bytes the chip may send.
THEOREM TargetHasField == Pn532Spec => []TargetNeedsField
<1>1. Pn532Init => FieldInv
  BY DEF Pn532Init, FieldInv, TargetNeedsField
<1>2. FieldInv /\ [Pn532Next]_pn532Vars => FieldInv'
  <2> SUFFICES ASSUME FieldInv, [Pn532Next]_pn532Vars
               PROVE  FieldInv'
    OBVIOUS
  <2>1. CASE Pn532Next
    BY <2>1, CallsKeepField, ReaderKeepsField, WorldKeepsField DEF Pn532Next
  <2>2. CASE UNCHANGED pn532Vars
    BY <2>2 DEF pn532Vars, readerVars, FieldInv, TargetNeedsField, StageFits
  <2> QED
    BY <2>1, <2>2
<1>3. FieldInv => TargetNeedsField
  BY DEF FieldInv
<1> QED
  BY <1>1, <1>2, <1>3, PTL DEF Pn532Spec

-----------------------------------------------------------------------------
\* Everything the chip sends and the reader reads is made of bytes.
LEMMA ByteIsU8 == Byte = u8
BY DEF Byte, u8

-----------------------------------------------------------------------------
(* The line: what a wait reads from it *)

LEMMA AckShape ==
    /\ ACK \in Seq(u8) /\ Len(ACK) = 6
    /\ ERROR_FRAME \in Seq(u8) /\ Len(ERROR_FRAME) = 8
    /\ ERROR_FRAME[4] = 1 /\ ERROR_FRAME[5] = 255
<1>1. 0 \in u8 /\ 1 \in u8 /\ 127 \in u8 /\ 129 \in u8 /\ 255 \in u8
  BY DEF u8
<1> QED BY <1>1 DEF ACK, ERROR_FRAME

\* An acknowledgement at the head of the line is recognised, and removing it
\* leaves what is behind it.
LEMMA AckIsRead ==
    ASSUME NEW s \in Seq(u8)
    PROVE  /\ ACK \o s \in Seq(u8)
           /\ ~(Len(ACK \o s) < Len(ACK))
           /\ IsPrefix(ACK, ACK \o s)
           /\ SubSeq(ACK \o s, Len(ACK) + 1, Len(ACK \o s)) = s
<1> DEFINE in == ACK \o s
<1>1. /\ in \in Seq(u8) /\ Len(s) \in Nat /\ Len(in) = Len(ACK) + Len(s)
      /\ \A i \in 1..Len(ACK) : in[i] = ACK[i]
      /\ \A i \in 1..Len(s) : in[Len(ACK) + i] = s[i]
  <2>1. ACK \in Seq(u8)
    BY AckShape
  <2> QED BY <2>1, Joined
<1> HIDE DEF in
<1>2. Len(ACK) = 6 /\ ACK \in Seq(u8)
  BY AckShape
<1>3. SubSeq(in, Len(ACK) + 1, Len(in)) = s
  <2>1. ASSUME NEW i \in 1..Len(s) PROVE in[Len(ACK) + 1 + i - 1] = s[i]
    <3>1. Len(ACK) + 1 + i - 1 = Len(ACK) + i
      BY <1>2
    <3> QED BY <1>1, <3>1
  <2>2. Len(ACK) + 1 \in Nat /\ Len(ACK) + 1 >= 1 /\ Len(in) \in Nat
        /\ Len(in) = Len(ACK) + 1 + Len(s) - 1 /\ Len(in) <= Len(in)
    BY <1>1, <1>2
  <2> QED BY <1>1, <2>1, <2>2, SliceIs
<1>4. SubSeq(in, 1, Len(ACK)) = ACK /\ SubSeq(ACK, 1, Len(ACK)) = ACK
  <2>1. ASSUME NEW t \in Seq(u8), Len(ACK) <= Len(t), \A i \in 1..Len(ACK) : t[i] = ACK[i]
        PROVE  SubSeq(t, 1, Len(ACK)) = ACK
    <3>1. \A i \in 1..Len(ACK) : t[1 + i - 1] = ACK[i]
      BY <1>2, <2>1
    <3>2. 1 \in Nat /\ 1 >= 1 /\ Len(ACK) \in Nat /\ Len(ACK) = 1 + Len(ACK) - 1
      BY <1>2
    <3> QED BY <1>2, <2>1, <3>1, <3>2, SliceIs
  <2>2. Len(ACK) <= Len(in) /\ Len(ACK) <= Len(ACK)
    BY <1>1, <1>2
  <2> QED BY <1>1, <1>2, <2>1, <2>2
<1>5. IsPrefix(ACK, in)
  BY <1>1, <1>2, <1>4 DEF IsPrefix
<1>6. ~(Len(in) < Len(ACK))
  BY <1>1, <1>2
<1> QED BY <1>1, <1>3, <1>5, <1>6 DEF in

LEMMA LoneAckIsRead ==
    /\ ~(Len(ACK) < Len(ACK)) /\ IsPrefix(ACK, ACK)
    /\ SubSeq(ACK, Len(ACK) + 1, Len(ACK)) = << >>
<1>1. ACK \o << >> = ACK /\ << >> \in Seq(u8)
  BY AckShape, ConcatEmptySeq
<1> QED BY <1>1, AckIsRead

Payloads == {p \in Seq(u8) : Len(p) + 2 < FrameLimit}

\* The command code of the stage in progress.
LEMMA CommandCode ==
    ASSUME NEW stage \in Stages, NEW apdu
    PROVE  LET code == CommandOf(stage, apdu).code
           IN  /\ code \in {RFConfiguration, InListPassiveTarget, InDataExchange}
               /\ code \in Nat /\ code + 1 \in u8
               /\ code = (IF stage \in RfStages THEN RFConfiguration
                          ELSE IF stage = "list" THEN InListPassiveTarget
                          ELSE InDataExchange)
BY DEF CommandOf, Stages, RfStages, RFConfiguration, InListPassiveTarget,
       InDataExchange, u8

\* Nothing is left of a line whose every byte is read.
LEMMA AllIsRead ==
    ASSUME NEW s \in Seq(u8)
    PROVE  SubSeq(s, Len(s) + 1, Len(s)) = << >>
<1>1. Len(s) \in Int /\ Len(s) + 1 \in Int /\ Len(s) < Len(s) + 1
  OBVIOUS
<1> QED BY <1>1, SubSeqEmpty

\* The answer to a command is read as such, by process and by
\* receive_dynamic_response_from alike, and nothing is left of it.
LEMMA AnswerIsRead ==
    ASSUME call.stage \in Stages, NEW p \in Payloads,
           call.stage \in RfStages => p = << >>,
           line = EncodeFrame(CommandOf(call.stage, call.apdu).code + 1, p)
    PROVE  /\ Received.tag = "Ok" /\ Received.val = p
           /\ SubSeq(line, Received.used + 1, Len(line)) = << >>
<1> DEFINE code == CommandOf(call.stage, call.apdu).code + 1
<1>1. code \in u8
  BY CommandCode
<1> HIDE DEF code
<1>2. line = EncodeFrame(code, p)
  BY DEF code
<1>3. p \in Seq(u8) /\ Len(p) + 2 < FrameLimit
  BY DEF Payloads
<1>4. line \in Seq(u8) /\ Len(line) \in Nat /\ Len(line) >= 9
  BY <1>1, <1>2, <1>3, FrameType
<1>5. SubSeq(line, Len(line) + 1, Len(line)) = << >>
  BY <1>4, AllIsRead
<1>6. CASE call.stage \notin RfStages
  <2>1. ReceiveDynamicResponse(line, code) = Parsed("Ok", p, Len(line))
    <3>1. line \o << >> = line /\ << >> \in Seq(u8)
      BY <1>4, ConcatEmptySeq
    <3>2. ReceiveDynamicResponse(EncodeFrame(code, p) \o << >>, code)
            = Parsed("Ok", p, Len(EncodeFrame(code, p)))
      BY <1>1, <1>3, <3>1, FrameReadsBackAlways
    <3> QED BY <1>2, <3>1, <3>2
  <2>2. Received = Parsed("Ok", p, Len(line))
    BY <1>6, <2>1 DEF Received, code
  <2> QED BY <1>5, <2>2 DEF Parsed
<1>7. CASE call.stage \in RfStages
  <2>1. p = << >> /\ Len(line) = 9
    BY <1>1, <1>2, <1>3, <1>7, EmptyFrameLen
  <2>2. SubSeq(line, 1, 9) = line
    <3>1. \A i \in 1..Len(line) : line[1 + i - 1] = line[i]
      BY <1>4
    <3>2. Len(line) = 9
      BY <2>1
    <3>3. 1 \in Nat /\ 1 >= 1 /\ 9 \in Nat /\ 9 = 1 + Len(line) - 1 /\ 9 <= Len(line)
      BY ONLY <3>2
    <3> QED BY <1>4, <3>1, <3>3, SliceIs
  <2>3. Received = Parsed("Ok", << >>, 9)
    <3>1. ~(Len(line) < 9) /\ SubSeq(line, 1, 9) = EncodeFrame(code, << >>)
      BY <1>2, <2>1, <2>2
    <3> QED BY <1>7, <3>1 DEF Received, code
  <2> QED BY <1>5, <2>1, <2>3 DEF Parsed
<1> QED BY <1>6, <1>7

\* An error frame is never taken for an answer: its length is one.
LEMMA RefusalIsNoAnswer ==
    ASSUME call.stage \in Stages, line = ERROR_FRAME
    PROVE  Received.tag # "Ok"
<1>1. CASE call.stage \in RfStages
  <2>1. Len(line) < 9
    BY AckShape
  <2> QED BY <1>1, <2>1 DEF Received, Parsed
<1>2. CASE call.stage \notin RfStages
  <2>1. ~IsExtended(line)
    <3>1. /\ SubSeq(ERROR_FRAME, 4, 5) \in Seq(u8)
          /\ SubSeq(ERROR_FRAME, 4, 5)[1] = ERROR_FRAME[4 + 1 - 1]
      <4>1. 4 \in Nat /\ 5 \in Nat /\ 4 >= 1 /\ 5 <= Len(ERROR_FRAME)
            /\ ERROR_FRAME \in Seq(u8) /\ 1 \in 1..(5 - 4 + 1)
        BY AckShape
      <4> QED BY <4>1, Slice
    <3>2. SubSeq(ERROR_FRAME, 4, 5)[1] = 1
      BY <3>1, AckShape
    <3> QED BY <3>2, MarkerShape DEF IsExtended
  <2>2. line[4] = 1
    BY AckShape
  <2>3. \A code : ReceiveDynamicResponse(line, code).tag # "Ok"
    BY <2>1, <2>2 DEF ReceiveDynamicResponse, Parsed
  <2> QED BY <1>2, <2>3 DEF Received
<1> QED BY <1>1, <1>2

\* With nothing on the line both waits go on.
LEMMA EmptyLineStarves ==
    ASSUME line = << >>, call.phase \in {"ack", "resp"}
    PROVE  Starved
<1>1. Len(line) = 0 /\ Len(line) < Len(ACK)
  BY AckShape
<1>2. Received.tag = "Short"
  <2>1. \A code : ReceiveDynamicResponse(line, code) = Parsed("Short", << >>, 0)
    BY <1>1 DEF ReceiveDynamicResponse
  <2>2. Received = Parsed("Short", << >>, 0)
    BY <1>1, <2>1 DEF Received
  <2> QED BY <2>2 DEF Parsed
<1> QED BY <1>1, <1>2 DEF Starved

-----------------------------------------------------------------------------
(* What the chip answers with *)

\* The target list of an InListPassiveTarget that finds card c.
CardList(c) == EncodeTarget(c.uid, EncodeAts({}, c.historical_bytes))

LEMMA CardShape ==
    ASSUME NEW c \in Cards
    PROVE  /\ c.uid \in Seq(u8) /\ Len(c.uid) \in u8
           /\ c.historical_bytes \in Seq(u8)
           /\ 2 + Cardinality({}) + Len(c.historical_bytes) \in u8
           /\ c = CardPresence(c.uid, c.historical_bytes)
<1>1. c \in [uid : Seq(u8), historical_bytes : Seq(u8)]
  BY Pn532Assumption, ByteIsU8
<1>2. Len(c.uid) \in u8 /\ 2 + Len(c.historical_bytes) \in u8
  BY Pn532Assumption, ByteIsU8
<1>3. Cardinality({}) = 0
  BY FS_EmptySet
<1>4. 2 + 0 + Len(c.historical_bytes) = 2 + Len(c.historical_bytes)
  BY <1>1
<1> QED BY <1>1, <1>2, <1>3, <1>4 DEF CardPresence

\* poll_card finds the card that the chip lists.
LEMMA CardListIsRead ==
    ASSUME NEW c \in Cards
    PROVE  CardList(c) \in Payloads /\ ParseTargets(CardList(c)) = Target(ISO_A_TARGET_SLOT, c)
<1> DEFINE ats == EncodeAts({}, c.historical_bytes)
<1>1. {} \in SUBSET AtsBits
  OBVIOUS
<1>2. ParseTargets(CardList(c)) = Target(ISO_A_TARGET_SLOT, c)
  BY <1>1, CardShape, TargetReadsBackAlways DEF CardList
<1>3. ats \in Seq(u8) /\ ats[1] = Len(ats) /\ Len(ats) \in Nat /\ Len(ats) >= 1
  <2>1. Cardinality({}) = 0
    BY FS_EmptySet
  <2>2. /\ ats \in Seq(u8) /\ Len(ats) = 2 + Cardinality({}) + Len(c.historical_bytes)
        /\ ats[1] = Len(ats)
    BY <1>1, CardShape, AtsShape
  <2>3. Len(c.historical_bytes) \in Nat
    BY CardShape
  <2> HIDE DEF ats
  <2> QED BY <2>1, <2>2, <2>3
<1> HIDE DEF ats
<1>4. Len(ats) \in u8
  <2>1. 1 \in 1..Len(ats)
    BY <1>3
  <2>2. ats[1] \in u8
    BY <1>3, <2>1
  <2> QED BY <1>3, <2>2
<1>5. CardList(c) \in Seq(u8) /\ Len(CardList(c)) = 6 + Len(c.uid) + Len(ats)
  BY <1>3, CardShape, TargetShape DEF CardList, ats
<1>6. \A m \in u8, n \in u8 : 6 + m + n + 2 < FrameLimit
  BY DEF u8, FrameLimit
<1>7. Len(CardList(c)) + 2 < FrameLimit
  BY <1>4, <1>5, <1>6, CardShape
<1> QED BY <1>2, <1>5, <1>7 DEF Payloads

\* An empty list, a status byte, and nothing.
LEMMA ShortPayloads ==
    /\ << >> \in Payloads /\ <<0>> \in Payloads /\ <<1>> \in Payloads
    /\ ParseTargets(<<0>>) = NoTarget
    /\ <<0>> # << >> /\ <<1>> # << >> /\ <<1>>[1] = 1
<1>1. 0 \in u8 /\ 1 \in u8 /\ 0 + 2 < FrameLimit /\ 1 + 2 < FrameLimit
  BY DEF u8, FrameLimit
<1>2. /\ << >> \in Seq(u8) /\ <<0>> \in Seq(u8) /\ <<1>> \in Seq(u8)
      /\ Len(<< >>) = 0 /\ Len(<<0>>) = 1 /\ Len(<<1>>) = 1
  BY <1>1
<1>3. ParseTargets(<<0>>) = NoTarget
  BY DEF ParseTargets
<1> QED BY <1>1, <1>2, <1>3 DEF Payloads

\* The answer of a card behind the status byte of an exchange.
LEMMA AnswerShape ==
    ASSUME NEW c \in Cards, NEW a \in Apdus
    PROVE  LET p == <<0>> \o CardAnswer(c, a)
           IN  /\ p \in Payloads /\ p # << >> /\ p[1] = 0
               /\ Tail(p) = CardAnswer(c, a)
<1> DEFINE s == CardAnswer(c, a)
           z == <<0>>
           p == z \o s
<1>1. s \in Seq(u8) /\ Len(s) + 3 < FrameLimit
  BY Pn532Assumption, ReaderAssumption, ByteIsU8
<1> HIDE DEF s
<1>2. z \in Seq(u8) /\ Len(z) = 1 /\ z[1] = 0
  BY DEF u8
<1> HIDE DEF z
<1>3. /\ p \in Seq(u8) /\ Len(s) \in Nat /\ Len(p) = Len(z) + Len(s)
      /\ \A i \in 1..Len(z) : p[i] = z[i]
      /\ \A i \in 1..Len(s) : p[Len(z) + i] = s[i]
  <2>1. s \in Seq(u8) /\ z \in Seq(u8)
    BY <1>1, <1>2
  <2> QED BY <2>1, Joined
<1>4. p = <<0>> \o CardAnswer(c, a)
  BY DEF z, s
<1> HIDE DEF p
<1>5. Len(p) = 1 + Len(s) /\ p[1] = 0
  BY <1>2, <1>3
<1>6. p # << >>
  BY <1>3, <1>5
<1>7. Len(p) + 2 < FrameLimit
  <2>1. Len(p) + 2 = Len(s) + 3
    BY <1>3, <1>5
  <2> QED BY <1>1, <2>1
<1>8. Tail(p) = s
  <2>1. /\ Tail(p) \in Seq(u8) /\ Len(Tail(p)) = Len(p) - 1
        /\ \A i \in 1..Len(Tail(p)) : Tail(p)[i] = p[i + 1]
    BY <1>3, <1>6, HeadTailProperties
  <2>2. Len(Tail(p)) = Len(s)
    BY <1>3, <1>5, <2>1
  <2>3. ASSUME NEW i \in 1..Len(s) PROVE Tail(p)[i] = s[i]
    <3>1. i + 1 = Len(z) + i
      BY <1>2
    <3> QED BY <1>3, <2>1, <2>2, <3>1
  <2> QED BY <1>1, <2>1, <2>2, <2>3, SeqEqual
<1> QED BY <1>3, <1>4, <1>5, <1>6, <1>7, <1>8 DEF Payloads, s

-----------------------------------------------------------------------------
(* The invariant *)

StagesOf(op) ==
    CASE op = "power_off"     -> {"rf_off"}
      [] op = "poll_card"     -> {"rf_on", "list", "rf_off_absent"}
      [] op = "exchange_apdu" -> {"rf_on", "list", "rf_off_absent", "data", "rf_off_lost"}

\* The call in progress is in a stage of its operation.
CallInv ==
    call # None =>
      /\ call \in CallRecord
      /\ call.stage \in StagesOf(call.op)
      /\ call.op = "exchange_apdu" => call.apdu \in Apdus

\* The chip selects only the card that is there, with its field on; seen
\* records where the cards are, for as long as it is kept.
WorldInv ==
    /\ chip.rf \in BOOLEAN /\ chip.acked \in BOOLEAN
    /\ chip.selected \in Cards \cup {None}
    /\ chip.selected # None => chip.rf /\ chip.selected = card_in_field
    /\ chip.pending # None =>
         chip.pending.code \in {RFConfiguration, InListPassiveTarget, InDataExchange}
    /\ card_in_field \in Cards \cup {None}
    /\ last_poll \in 0..LongAgo
    /\ seen \in [Cards \cup {None} -> 0..LongAgo]
    /\ seen[card_in_field] = 0
    /\ out_of_step => \A x \in Cards \cup {None} : seen[x] = 0
    /\ call # None /\ call.stage = "rf_off_absent" => seen[None] = 0

\* The command the call in progress sends, and the bytes left of what it reads.
Cmd == CommandOf(call.stage, call.apdu)

OnLine(bytes) ==
    /\ chip.pending = None
    /\ line = IF call.phase = "ack" THEN ACK \o bytes ELSE bytes

\* A payload the chip may have answered the command with, and what is then true
\* of it.
PayloadFits(p) ==
    \/ /\ call.stage \in RfStages /\ p = << >>
       /\ chip.rf <=> call.stage = "rf_on"
       /\ call.stage # "rf_on" => chip.selected = None
    \/ /\ call.stage = "list" /\ p = <<0>>
       /\ chip.selected = None /\ chip.rf /\ seen[None] = 0
    \/ /\ call.stage = "list" /\ chip.rf
       /\ \E c \in Cards : p = CardList(c) /\ chip.selected \in {None, c} /\ seen[c] = 0
    \/ call.stage = "data" /\ p = <<1>>
    \/ /\ call.stage = "data"
       /\ \E c \in Cards : /\ p = <<0>> \o CardAnswer(c, call.apdu)
                           /\ ~out_of_step => c = cached_card

AnsweredWith(p) ==
    /\ call.phase # "send"
    /\ OnLine(EncodeFrame(Cmd.code + 1, p))
    /\ PayloadFits(p)

Answered == \E p \in Payloads : AnsweredWith(p)

Unanswered ==
    \/ call.phase = "send" /\ Quiet
    \/ /\ call.phase # "send" /\ line = << >>
       /\ \/ chip.pending = None
          \/ chip.pending = Cmd /\ (chip.acked <=> call.phase = "resp")
    \/ /\ call.phase = "ack" /\ line = ACK
       /\ \/ chip.pending = None
          \/ chip.pending = Cmd /\ chip.acked

Refused == call.phase # "send" /\ OnLine(ERROR_FRAME)

\* A call that started on a quiet line finds on it only the acknowledgement and
\* the answer of its own command.
LineInv == call # None /\ call.quiet => Unanswered \/ Refused \/ Answered

\* As long as the line is in step: the reader knows the field and the target,
\* unless the chip has changed them and its answer is still on the line; and
\* the cached card was there at the last poll.
FieldKnown ==
    \/ chip.rf <=> rf_field_enabled
    \/ call # None /\ call.stage \in RfStages /\ Answered

TargetKnown ==
    active_target # None =>
      /\ cached_card \in Cards
      /\ \/ chip.selected \in {None, cached_card}
         \/ call # None /\ call.stage = "list" /\ Answered

CacheRecent ==
    ~poll_failed /\ ~(call # None /\ call.stage = "list")
      => seen[cached_card] <= last_poll

InStep ==
    /\ call # None => call.quiet
    /\ call = None => Quiet
    /\ Pn532TypeOK
    /\ FieldKnown /\ TargetKnown /\ CacheRecent
    /\ call # None /\ call.stage = "data" => active_target # None
    /\ call # None /\ call.stage = "rf_off_absent" => cached_card = None

StepInv == ~out_of_step => InStep

\* What the last step returned.
ReturnInv ==
    /\ QuietLineOwnAnswer
    /\ AnsweredByCachedCard
    /\ PresenceIsRecent
    /\ FieldFlagIsTrue

ReaderInv ==
    /\ out_of_step \in BOOLEAN
    /\ FieldInv /\ CallInv /\ WorldInv /\ LineInv /\ StepInv /\ ReturnInv

LEMMA StageOps ==
    ASSUME CallInv, call # None
    PROVE  /\ call.op \in {"poll_card", "power_off", "exchange_apdu"}
           /\ call.stage \in Stages /\ call.phase \in {"send", "ack", "resp"}
           /\ call.stage = "rf_off" <=> call.op = "power_off"
           /\ call.stage \in {"data", "rf_off_lost"} => call.op = "exchange_apdu"
           /\ call.op = "exchange_apdu" => call.apdu \in Apdus
<1>1. call.op \in {"poll_card", "power_off", "exchange_apdu"} /\ call.stage \in Stages
      /\ call.phase \in {"send", "ack", "resp"}
  BY DEF CallInv, CallRecord
<1> QED BY <1>1 DEF CallInv, StagesOf

LEMMA InitInv == Pn532Init => ReaderInv
<1> SUFFICES ASSUME Pn532Init PROVE ReaderInv
  OBVIOUS
<1> USE DEF Pn532Init
<1>1. FieldInv /\ CallInv /\ LineInv
  BY DEF FieldInv, TargetNeedsField, CallInv, LineInv
<1>2. WorldInv
  BY DEF WorldInv, LongAgo
<1>3. Pn532TypeOK
  <2>1. last_poll \in 0..LongAgo /\ line \in Seq(Byte)
    BY DEF LongAgo
  <2>2. rf_field_enabled \in BOOLEAN
    OBVIOUS
  <2> QED BY <2>1, <2>2, Zenon DEF Pn532TypeOK
<1>4. InStep
  BY <1>3 DEF InStep, Quiet, FieldKnown, TargetKnown, CacheRecent, LongAgo
<1>5. ReturnInv
  BY DEF ReturnInv, QuietLineOwnAnswer, AnsweredByCachedCard, PresenceIsRecent, FieldFlagIsTrue
<1> QED BY <1>1, <1>2, <1>4, <1>5 DEF ReaderInv, StepInv

-----------------------------------------------------------------------------
(* Steps of the chip, the cards and the clock *)

\* A step that returns nothing has nothing to answer for.
LEMMA NothingReturned ==
    ASSUME returned' = None, StepInv', WorldInv', FieldInv'
    PROVE  ReturnInv'
<1>1. QuietLineOwnAnswer' /\ AnsweredByCachedCard' /\ PresenceIsRecent'
  BY DEF QuietLineOwnAnswer, AnsweredByCachedCard, PresenceIsRecent
<1>2. FieldFlagIsTrue'
  <2> SUFFICES ASSUME ~out_of_step', call' = None
               PROVE  rf_field_enabled' = (chip.rf)'
    BY DEF FieldFlagIsTrue
  <2>1. (chip.rf)' <=> rf_field_enabled'
    BY DEF StepInv, InStep, FieldKnown
  <2>2. (chip.rf)' \in BOOLEAN /\ rf_field_enabled' \in BOOLEAN
    BY DEF WorldInv, FieldInv
  <2> QED BY <2>1, <2>2
<1> QED BY <1>1, <1>2 DEF ReturnInv

LEMMA AnsweredIsSent == Answered => chip.pending = None /\ call.phase # "send"
BY DEF Answered, AnsweredWith, OnLine

\* The types that only the line can disturb.
LEMMA TypesStay ==
    ASSUME Pn532TypeOK, returned' = None, UNCHANGED <<readerVars, call, card_in_field>>,
           line' \in Seq(Byte)
    PROVE  Pn532TypeOK'
BY Zenon DEF Pn532TypeOK, readerVars

\* While the chip works on a command, no answer is on the line; and in step the
\* command is that of the call.
LEMMA ChipWorks ==
    ASSUME ReaderInv, chip.pending # None
    PROVE  /\ ~Answered /\ ~Refused
           /\ call # None /\ call.quiet =>
                /\ chip.pending = Cmd
                /\ \/ line = << >> /\ call.phase \in {"ack", "resp"}
                      /\ (chip.acked <=> call.phase = "resp")
                   \/ line = ACK /\ call.phase = "ack" /\ chip.acked
           /\ ~out_of_step => call # None /\ call.quiet
<1>1. ~Answered /\ ~Refused
  BY AnsweredIsSent DEF Refused, OnLine
<1>2. ~out_of_step => call # None /\ call.quiet
  BY DEF ReaderInv, StepInv, InStep, Quiet
<1>3. call # None => call.phase \in {"send", "ack", "resp"}
  BY StageOps DEF ReaderInv
<1> QED BY <1>1, <1>2, <1>3 DEF ReaderInv, LineInv, Unanswered, Quiet

LEMMA AckStep ==
    ASSUME ReaderInv, ChipAck
    PROVE  ReaderInv'
<1>0. /\ chip.pending # None /\ ~chip.acked
      /\ line' = line \o ACK
      /\ chip'.pending = chip.pending /\ chip'.acked = TRUE
      /\ chip'.rf = chip.rf /\ chip'.selected = chip.selected
      /\ returned' = None
      /\ UNCHANGED <<readerVars, call, card_in_field, historyVars>>
  BY DEF ChipAck, NewsFromChip
<1> USE DEF readerVars, historyVars
<1>1. FieldInv'
  BY WorldKeepsField DEF ReaderInv, WorldStep
<1>2. CallInv'
  BY <1>0 DEF ReaderInv, CallInv
<1>3. WorldInv'
  BY <1>0 DEF ReaderInv, WorldInv
<1>4. call # None /\ call.quiet => line = << >> /\ call.phase = "ack" /\ chip.pending = Cmd
  BY <1>0, ChipWorks
<1>5. << >> \o ACK = ACK /\ ACK \in Seq(Byte)
  BY AckShape, ByteIsU8, ConcatEmptySeq
<1>6. Cmd' = Cmd
  BY <1>0 DEF Cmd, CommandOf
<1>7. LineInv'
  BY <1>0, <1>4, <1>5, <1>6 DEF LineInv, Unanswered
<1>8. StepInv'
  <2> SUFFICES ASSUME ~out_of_step' PROVE InStep'
    BY DEF StepInv
  <2>1. InStep /\ ~Answered /\ call # None /\ call.quiet
    BY <1>0, ChipWorks DEF ReaderInv, StepInv
  <2>2. Pn532TypeOK'
    BY <1>0, <1>4, <1>5, <2>1, TypesStay DEF InStep
  <2> QED BY <1>0, <2>1, <2>2 DEF InStep, FieldKnown, TargetKnown, CacheRecent
<1>9. ReturnInv'
  BY <1>0, <1>1, <1>3, <1>8, NothingReturned
<1> QED BY <1>0, <1>1, <1>2, <1>3, <1>7, <1>8, <1>9 DEF ReaderInv

LEMMA DropStep ==
    ASSUME ReaderInv, ChipDrops
    PROVE  ReaderInv'
<1>0. /\ chip.pending # None /\ line' = line
      /\ chip'.pending = None /\ chip'.acked = FALSE
      /\ chip'.rf = chip.rf /\ chip'.selected = chip.selected
      /\ returned' = None
      /\ UNCHANGED <<readerVars, call, card_in_field, historyVars>>
  BY DEF ChipDrops, NewsFromChip
<1> USE DEF readerVars, historyVars
<1>1. FieldInv'
  BY WorldKeepsField DEF ReaderInv, WorldStep
<1>2. CallInv'
  BY <1>0 DEF ReaderInv, CallInv
<1>3. WorldInv'
  BY <1>0 DEF ReaderInv, WorldInv
<1>4. LineInv'
  BY <1>0, ChipWorks DEF LineInv, Unanswered
<1>5. StepInv'
  <2> SUFFICES ASSUME ~out_of_step' PROVE InStep'
    BY DEF StepInv
  <2>1. InStep /\ ~Answered /\ call # None /\ call.quiet
    BY <1>0, ChipWorks DEF ReaderInv, StepInv
  <2>2. Pn532TypeOK'
    BY <1>0, <2>1, TypesStay DEF InStep, Pn532TypeOK
  <2> QED BY <1>0, <2>1, <2>2 DEF InStep, FieldKnown, TargetKnown, CacheRecent
<1>6. ReturnInv'
  BY <1>0, <1>1, <1>3, <1>5, NothingReturned
<1> QED BY <1>0, <1>1, <1>2, <1>3, <1>4, <1>5, <1>6 DEF ReaderInv

\* What the chip puts on the line of a quiet call that it has acknowledged.
LEMMA PutOnLine ==
    ASSUME NEW bytes \in Seq(u8), line' = line \o bytes, UNCHANGED call,
           chip'.pending = None,
           \/ line = << >> /\ call.phase = "resp"
           \/ line = ACK /\ call.phase = "ack"
    PROVE  OnLine(bytes)' /\ line' \in Seq(u8)
<1>1. << >> \o bytes = bytes
  BY ConcatEmptySeq
<1>2. ACK \o bytes \in Seq(u8)
  BY AckIsRead
<1> QED BY <1>1, <1>2 DEF OnLine

LEMMA RefuseStep ==
    ASSUME ReaderInv, ChipRefuses
    PROVE  ReaderInv'
<1>0. /\ chip.pending # None /\ chip.acked /\ line' = line \o ERROR_FRAME
      /\ chip'.pending = None /\ chip'.acked = FALSE
      /\ chip'.rf = chip.rf /\ chip'.selected = chip.selected
      /\ returned' = None
      /\ UNCHANGED <<readerVars, call, card_in_field, historyVars>>
  BY DEF ChipRefuses, NewsFromChip
<1> USE DEF readerVars, historyVars
<1>1. FieldInv'
  BY WorldKeepsField DEF ReaderInv, WorldStep
<1>2. CallInv'
  BY <1>0 DEF ReaderInv, CallInv
<1>3. WorldInv'
  BY <1>0 DEF ReaderInv, WorldInv
<1>4. call # None /\ call.quiet => OnLine(ERROR_FRAME)' /\ line' \in Seq(u8)
                                   /\ call.phase # "send"
  BY <1>0, ChipWorks, PutOnLine, AckShape
<1>5. LineInv'
  BY <1>0, <1>4 DEF LineInv, Refused
<1>6. StepInv'
  <2> SUFFICES ASSUME ~out_of_step' PROVE InStep'
    BY DEF StepInv
  <2>1. InStep /\ ~Answered /\ call # None /\ call.quiet
    BY <1>0, ChipWorks DEF ReaderInv, StepInv
  <2>2. Pn532TypeOK'
    BY <1>0, <1>4, <2>1, TypesStay, ByteIsU8 DEF InStep
  <2> QED BY <1>0, <2>1, <2>2 DEF InStep, FieldKnown, TargetKnown, CacheRecent
<1>7. ReturnInv'
  BY <1>0, <1>1, <1>3, <1>6, NothingReturned
<1> QED BY <1>0, <1>1, <1>2, <1>3, <1>5, <1>6, <1>7 DEF ReaderInv

LEMMA ConcatAt ==
    ASSUME NEW S, NEW t \in Seq(S), NEW a \in Seq(S)
    PROVE  /\ t \o a \in Seq(S) /\ Len(t \o a) = Len(t) + Len(a) /\ Len(a) \in Nat
           /\ \A i \in 1..Len(a) : (t \o a)[Len(t) + i] = a[i]
OBVIOUS

\* The results of each command.
LEMMA Codes ==
    /\ RFConfiguration # InListPassiveTarget
    /\ RFConfiguration # InDataExchange
    /\ InListPassiveTarget # InDataExchange
BY DEF RFConfiguration, InListPassiveTarget, InDataExchange

LEMMA RfResult ==
    ASSUME NEW command, command.code = RFConfiguration, NEW r \in ChipResults(command)
    PROVE  /\ r.payload = << >> /\ r.rf \in BOOLEAN
           /\ r.rf <=> command.data = RF_FIELD_ON
           /\ r.selected = IF command.data = RF_FIELD_ON THEN chip.selected ELSE None
<1> DEFINE on == command.data = RF_FIELD_ON
<1>0. command.code # InListPassiveTarget /\ command.code # InDataExchange
  BY Codes
<1>1. ChipResults(command)
        = {[payload |-> << >>, rf |-> on, selected |-> IF on THEN chip.selected ELSE None]}
  BY <1>0, Zenon DEF ChipResults
<1>2. r = [payload |-> << >>, rf |-> on, selected |-> IF on THEN chip.selected ELSE None]
  BY <1>1, Zenon
<1>3. r.payload = << >> /\ r.rf = on /\ r.selected = IF on THEN chip.selected ELSE None
  BY <1>2, Zenon
<1> QED BY <1>3, Zenon

LEMMA ListResult ==
    ASSUME NEW command, command.code = InListPassiveTarget, NEW r \in ChipResults(command)
    PROVE  /\ r.payload = IF card_in_field = None THEN <<0>> ELSE CardList(card_in_field)
           /\ r.rf = TRUE /\ r.selected = card_in_field
<1>1. command.code # RFConfiguration /\ command.code # InDataExchange
  BY Codes
<1>2. ChipResults(command)
        = {[payload |-> IF card_in_field = None THEN <<0>> ELSE CardList(card_in_field),
            rf |-> TRUE, selected |-> card_in_field]}
  BY <1>1, Zenon DEF ChipResults, CardList
<1> QED BY <1>2

LEMMA DataResult ==
    ASSUME NEW command, command.code = InDataExchange, NEW r \in ChipResults(command)
    PROVE  /\ r.rf = chip.rf /\ r.selected = chip.selected
           /\ \/ r.payload = <<1>>
              \/ /\ chip.selected # None
                 /\ r.payload = <<0>> \o CardAnswer(chip.selected, Tail(command.data))
<1>1. command.code # RFConfiguration /\ command.code # InListPassiveTarget
  BY Codes
<1> DEFINE a == <<0>> \o CardAnswer(chip.selected, Tail(command.data))
<1>2. ChipResults(command)
        = {[payload |-> <<1>>, rf |-> chip.rf, selected |-> chip.selected]}
            \cup IF chip.selected = None THEN {}
                 ELSE {[payload |-> a, rf |-> chip.rf, selected |-> chip.selected]}
  BY <1>1, Zenon DEF ChipResults
<1> HIDE DEF a
<1>3. \/ r = [payload |-> <<1>>, rf |-> chip.rf, selected |-> chip.selected]
      \/ chip.selected # None
         /\ r = [payload |-> a, rf |-> chip.rf, selected |-> chip.selected]
  BY <1>2
<1> QED BY <1>3 DEF a

\* The chip passes on the APDU behind the target's number.
LEMMA TailOfCommand ==
    ASSUME NEW x, NEW a, a \in Seq(Byte)
    PROVE  Tail(<<x>> \o a) = a
<1> DEFINE S == Byte \cup {x}
           t == <<x>>
           s == t \o a
<1>1. a \in Seq(S) /\ t \in Seq(S) /\ Len(t) = 1
  OBVIOUS
<1> HIDE DEF S, t
<1>2. /\ s \in Seq(S) /\ Len(s) = Len(t) + Len(a) /\ Len(a) \in Nat
      /\ \A i \in 1..Len(a) : s[Len(t) + i] = a[i]
  BY <1>1, ConcatAt, ZenonT(60)
<1> HIDE DEF s
<1>3. s # << >>
  BY <1>1, <1>2
<1>4. /\ Tail(s) \in Seq(S) /\ Len(Tail(s)) = Len(s) - 1
      /\ \A i \in 1..Len(Tail(s)) : Tail(s)[i] = s[i + 1]
  BY <1>2, <1>3, HeadTailProperties
<1>5. Len(Tail(s)) = Len(a)
  BY <1>1, <1>2, <1>4
<1>6. ASSUME NEW i \in 1..Len(a) PROVE Tail(s)[i] = a[i]
  <2>1. i + 1 = Len(t) + i
    BY <1>1
  <2> QED BY <1>2, <1>4, <1>5, <2>1
<1>7. Tail(s) = a
  BY <1>1, <1>4, <1>5, <1>6, SeqEqual
<1> QED BY <1>7 DEF s, t

\* What the chip answers the command of a quiet call with.
LEMMA ResultFits ==
    ASSUME ReaderInv, call # None, call.quiet, chip.pending = Cmd, UNCHANGED call,
           UNCHANGED <<out_of_step, seen, cached_card>>,
           NEW r \in ChipResults(Cmd),
           chip'.rf = r.rf, chip'.selected = r.selected
    PROVE  r.payload \in Payloads /\ PayloadFits(r.payload)'
<1>0. call.stage \in Stages
  BY StageOps DEF ReaderInv
<1>1. CASE call.stage \in RfStages
  <2>1. Cmd.code = RFConfiguration /\ (Cmd.data = RF_FIELD_ON <=> call.stage = "rf_on")
    BY <1>1 DEF Cmd, CommandOf, RfStages, RF_FIELD_ON, RF_FIELD_OFF
  <2>2. r.payload = << >> /\ (r.rf <=> call.stage = "rf_on")
        /\ (call.stage # "rf_on" => r.selected = None)
    BY <2>1, RfResult
  <2> QED BY <1>1, <2>2, ShortPayloads DEF PayloadFits
<1>2. CASE call.stage = "list"
  <2>1. Cmd.code = InListPassiveTarget
    BY <1>2 DEF Cmd, CommandOf, RfStages
  <2>2. /\ r.payload = IF card_in_field = None THEN <<0>> ELSE CardList(card_in_field)
        /\ r.rf = TRUE /\ r.selected = card_in_field
    BY <2>1, ListResult
  <2>3. card_in_field \in Cards \cup {None} /\ seen[card_in_field] = 0
    BY DEF ReaderInv, WorldInv
  <2>4. CASE card_in_field = None
    <3>1. r.payload = <<0>> /\ r.rf = TRUE /\ r.selected = None
      BY <2>2, <2>4
    <3> QED BY <1>2, <2>3, <2>4, <3>1, ShortPayloads DEF PayloadFits
  <2>5. CASE card_in_field # None
    <3>1. r.payload = CardList(card_in_field) /\ r.rf = TRUE /\ r.selected = card_in_field
      BY <2>2, <2>5
    <3>2. card_in_field \in Cards
      BY <2>3, <2>5
    <3> QED BY <1>2, <2>3, <3>1, <3>2, CardListIsRead DEF PayloadFits
  <2> QED BY <2>4, <2>5
<1>3. CASE call.stage = "data"
  <2>0. call.apdu \in Apdus /\ Apdus \subseteq Seq(Byte)
    BY <1>3, StageOps, Pn532Assumption DEF ReaderInv
  <2>1. Cmd = [code |-> InDataExchange, data |-> <<active_target>> \o call.apdu]
    BY <1>3 DEF Cmd, CommandOf, RfStages
  <2>2. Tail(Cmd.data) = call.apdu
    BY <2>0, <2>1, TailOfCommand
  <2>3. Cmd.code = InDataExchange
    BY <2>1
  <2>4. \/ r.payload = <<1>>
        \/ chip.selected # None /\ r.payload = <<0>> \o CardAnswer(chip.selected, call.apdu)
    BY <2>2, <2>3, DataResult
  <2>5. CASE r.payload = <<1>>
    BY <1>3, <2>5, ShortPayloads DEF PayloadFits
  <2>6. CASE chip.selected # None
             /\ r.payload = <<0>> \o CardAnswer(chip.selected, call.apdu)
    <3>1. chip.selected \in Cards
      BY <2>6 DEF ReaderInv, WorldInv
    <3>2. ~out_of_step => chip.selected = cached_card
      <4> SUFFICES ASSUME ~out_of_step PROVE chip.selected = cached_card
        OBVIOUS
      <4>1. active_target # None
        BY <1>3 DEF ReaderInv, StepInv, InStep
      <4>2. TargetKnown
        BY DEF ReaderInv, StepInv, InStep
      <4> QED BY <1>3, <2>6, <4>1, <4>2 DEF TargetKnown
    <3>3. r.payload \in Payloads
      BY <2>0, <2>6, <3>1, AnswerShape
    <3> QED BY <1>3, <2>6, <3>1, <3>2, <3>3 DEF PayloadFits
  <2> QED BY <2>4, <2>5, <2>6
<1> QED BY <1>0, <1>1, <1>2, <1>3 DEF Stages

LEMMA AnswerStep ==
    ASSUME ReaderInv, ChipAnswer
    PROVE  ReaderInv'
<1>0. PICK r \in ChipResults(chip.pending) :
        /\ line' = line \o EncodeFrame(chip.pending.code + 1, r.payload)
        /\ chip' = [rf |-> r.rf, selected |-> r.selected, pending |-> None, acked |-> FALSE]
  BY DEF ChipAnswer
<1>1. /\ chip.pending # None /\ chip.acked
      /\ chip'.pending = None /\ chip'.acked = FALSE
      /\ chip'.rf = r.rf /\ chip'.selected = r.selected
      /\ returned' = None
      /\ UNCHANGED <<readerVars, call, card_in_field, historyVars>>
  BY <1>0 DEF ChipAnswer, NewsFromChip
<1> USE DEF readerVars, historyVars
<1>2. FieldInv'
  BY WorldKeepsField DEF ReaderInv, WorldStep
<1>3. CallInv'
  BY <1>1 DEF ReaderInv, CallInv
<1>4. /\ r.rf \in BOOLEAN
      /\ r.selected \in Cards \cup {None}
      /\ r.selected # None => r.rf /\ r.selected = card_in_field
  <2>1. /\ chip.pending.code \in {RFConfiguration, InListPassiveTarget, InDataExchange}
        /\ chip.rf \in BOOLEAN /\ chip.selected \in Cards \cup {None}
        /\ chip.selected # None => chip.rf /\ chip.selected = card_in_field
        /\ card_in_field \in Cards \cup {None}
    BY <1>1 DEF ReaderInv, WorldInv
  <2>2. CASE chip.pending.code = RFConfiguration
    <3>1. /\ r.rf \in BOOLEAN
          /\ r.rf <=> chip.pending.data = RF_FIELD_ON
          /\ r.selected = IF chip.pending.data = RF_FIELD_ON THEN chip.selected ELSE None
      BY <2>2, RfResult
    <3> QED BY <2>1, <3>1
  <2>3. CASE chip.pending.code = InListPassiveTarget
    BY <2>1, <2>3, ListResult
  <2>4. CASE chip.pending.code = InDataExchange
    BY <2>1, <2>4, DataResult
  <2> QED BY <2>1, <2>2, <2>3, <2>4
<1>5. WorldInv'
  BY <1>1, <1>4 DEF ReaderInv, WorldInv
<1>6. Cmd' = Cmd
  BY <1>1 DEF Cmd, CommandOf
<1>7. call # None /\ call.quiet => /\ Answered'
                                   /\ line' \in Seq(u8)
  <2> SUFFICES ASSUME call # None, call.quiet
               PROVE  Answered' /\ line' \in Seq(u8)
    OBVIOUS
  <2>1. /\ chip.pending = Cmd
        /\ \/ line = << >> /\ call.phase = "resp"
           \/ line = ACK /\ call.phase = "ack"
    BY <1>1, ChipWorks
  <2>2. r.payload \in Payloads /\ PayloadFits(r.payload)'
    BY <1>0, <1>1, <2>1, ResultFits
  <2>3. call.stage \in Stages
    BY StageOps DEF ReaderInv
  <2>4. Cmd.code + 1 \in u8
    BY <2>3, CommandCode DEF Cmd
  <2>5. EncodeFrame(Cmd.code + 1, r.payload) \in Seq(u8)
    BY <2>2, <2>4, FrameType DEF Payloads
  <2>6. OnLine(EncodeFrame(Cmd.code + 1, r.payload))' /\ line' \in Seq(u8)
    <3>1. line' = line \o EncodeFrame(Cmd.code + 1, r.payload)
      BY <1>0, <2>1
    <3> DEFINE f == EncodeFrame(Cmd.code + 1, r.payload)
    <3>2. f' = EncodeFrame(Cmd.code + 1, r.payload)
      BY <1>6
    <3> QED BY <1>1, <1>6, <2>1, <2>5, <3>1, PutOnLine
  <2> QED BY <1>1, <2>1, <2>2, <2>6 DEF Answered, AnsweredWith
<1>8. LineInv'
  BY <1>1, <1>7 DEF LineInv
<1>9. StepInv'
  <2> SUFFICES ASSUME ~out_of_step' PROVE InStep'
    BY DEF StepInv
  <2>1. InStep /\ ~Answered /\ call # None /\ call.quiet
    BY <1>1, ChipWorks DEF ReaderInv, StepInv
  <2>2. Pn532TypeOK'
    BY <1>1, <1>7, <2>1, TypesStay, ByteIsU8 DEF InStep
  <2>3. Answered' /\ chip.pending = Cmd /\ call.stage \in Stages
    BY <1>1, <1>7, <2>1, ChipWorks, StageOps DEF ReaderInv
  <2>4. FieldKnown'
    <3>1. CASE call.stage \in RfStages
      BY <1>1, <2>1, <2>3, <3>1 DEF FieldKnown
    <3>2. CASE call.stage = "list"
      <4>1. chip.rf <=> rf_field_enabled
        BY <2>1 DEF InStep, FieldKnown
      <4>2. rf_field_enabled
        BY <2>1, <3>2 DEF ReaderInv, FieldInv, StageFits
      <4>3. Cmd.code = InListPassiveTarget
        BY <3>2 DEF Cmd, CommandOf, RfStages
      <4>4. r.rf = TRUE
        BY <2>3, <4>3, ListResult
      <4> QED BY <1>1, <4>2, <4>4 DEF FieldKnown
    <3>3. CASE call.stage = "data"
      <4>1. chip.rf <=> rf_field_enabled
        BY <2>1 DEF InStep, FieldKnown
      <4>2. Cmd.code = InDataExchange
        BY <3>3 DEF Cmd, CommandOf, RfStages
      <4>3. r.rf = chip.rf
        BY <2>3, <4>2, DataResult
      <4> QED BY <1>1, <4>1, <4>3 DEF FieldKnown
    <3> QED BY <2>3, <3>1, <3>2, <3>3 DEF Stages
  <2>5. TargetKnown'
    <3>1. active_target # None => cached_card \in Cards /\ chip.selected \in {None, cached_card}
      BY <2>1 DEF InStep, TargetKnown
    <3>2. call.stage # "list" => r.selected \in {None, chip.selected}
      <4> SUFFICES ASSUME call.stage # "list" PROVE r.selected \in {None, chip.selected}
        OBVIOUS
      <4>1. Cmd.code \in {RFConfiguration, InDataExchange}
        BY <2>3 DEF Stages, Cmd, CommandOf, RfStages
      <4> QED BY <2>3, <4>1, RfResult, DataResult
    <3> QED BY <1>1, <2>1, <2>3, <3>1, <3>2 DEF TargetKnown
  <2> QED BY <1>1, <2>1, <2>2, <2>4, <2>5 DEF InStep, CacheRecent
<1>10. ReturnInv'
  BY <1>1, <1>2, <1>5, <1>9, NothingReturned
<1> QED BY <1>1, <1>2, <1>3, <1>5, <1>8, <1>9, <1>10 DEF ReaderInv

LEMMA MinOfTwo ==
    ASSUME NEW m \in Nat, NEW n \in Nat
    PROVE  Min({m, n}) = IF n >= m THEN m ELSE n
<1> DEFINE z == IF n >= m THEN m ELSE n
<1>1. z \in {m, n} /\ \A y \in {m, n} : z <= y
  OBVIOUS
<1>2. \A x \in {m, n} : (\A y \in {m, n} : x <= y) => x = z
  OBVIOUS
<1> HIDE DEF z
<1>3. Min({m, n}) = z
  BY <1>1, <1>2, Zenon DEF Min
<1> QED BY <1>3 DEF z

\* A card that comes or goes leaves what is on the line as true as it was.
LEMMA AnsweredStays ==
    ASSUME Answered, UNCHANGED <<call, line, active_target, cached_card, out_of_step>>,
           chip'.pending = chip.pending, chip'.rf = chip.rf,
           chip'.selected \in {None, chip.selected},
           \A x \in Cards \cup {None} : seen[x] = 0 => seen'[x] = 0
    PROVE  Answered'
<1>1. PICK p \in Payloads : AnsweredWith(p)
  BY DEF Answered
<1>2. Cmd' = Cmd
  BY DEF Cmd, CommandOf
<1>3. OnLine(EncodeFrame(Cmd.code + 1, p))'
  BY <1>1, <1>2 DEF AnsweredWith, OnLine
<1>4. PayloadFits(p)'
  <2>1. PayloadFits(p)
    BY <1>1 DEF AnsweredWith
  <2>2. CASE \E c \in Cards : p = CardList(c) /\ chip.selected \in {None, c} /\ seen[c] = 0
    <3>1. PICK c \in Cards : p = CardList(c) /\ chip.selected \in {None, c} /\ seen[c] = 0
      BY <2>2
    <3>2. chip'.selected \in {None, c} /\ seen'[c] = 0
      BY <3>1
    <3> QED BY <2>1, <3>1, <3>2 DEF PayloadFits
  <2>3. CASE ~\E c \in Cards : p = CardList(c) /\ chip.selected \in {None, c} /\ seen[c] = 0
    BY <2>1, <2>3 DEF PayloadFits
  <2> QED BY <2>2, <2>3
<1> QED BY <1>1, <1>2, <1>3, <1>4 DEF Answered, AnsweredWith

\* What both steps do.
CardMoves ==
    /\ chip'.pending = chip.pending /\ chip'.acked = chip.acked /\ chip'.rf = chip.rf
    /\ chip'.selected \in {None, chip.selected}
    /\ chip'.selected # None => card_in_field' = card_in_field
    /\ card_in_field' \in Cards \cup {None}
    /\ seen' = Sight(card_in_field')
    /\ returned' = None
    /\ UNCHANGED <<readerVars, call, line, out_of_step, poll_failed>>

LEMMA MoveStep ==
    ASSUME ReaderInv, CardMoves, WorldStep
    PROVE  ReaderInv'
<1>0. /\ chip'.pending = chip.pending /\ chip'.acked = chip.acked /\ chip'.rf = chip.rf
      /\ chip'.selected \in {None, chip.selected}
      /\ chip'.selected # None => card_in_field' = card_in_field
      /\ card_in_field' \in Cards \cup {None}
      /\ seen' = Sight(card_in_field')
      /\ returned' = None
      /\ UNCHANGED <<active_target, cached_card, last_poll, rf_field_enabled, call, line,
                     out_of_step, poll_failed>>
  BY DEF CardMoves, readerVars
<1>1. FieldInv'
  BY WorldKeepsField DEF ReaderInv
<1>2. CallInv'
  BY <1>0 DEF ReaderInv, CallInv
<1>3. /\ seen' \in [Cards \cup {None} -> 0..LongAgo]
      /\ seen'[card_in_field'] = 0
      /\ \A x \in Cards \cup {None} : seen'[x] = 0 \/ seen'[x] = seen[x]
  <2>1. seen \in [Cards \cup {None} -> 0..LongAgo]
        /\ (out_of_step => \A x \in Cards \cup {None} : seen[x] = 0)
    BY DEF ReaderInv, WorldInv
  <2> QED BY <1>0, <2>1 DEF Sight, LongAgo
<1>4. WorldInv'
  <2> USE DEF ReaderInv, WorldInv
  <2>1. /\ (chip.rf \in BOOLEAN /\ chip.acked \in BOOLEAN)'
        /\ (chip.selected \in Cards \cup {None})'
        /\ (chip.selected # None => chip.rf /\ chip.selected = card_in_field)'
    BY <1>0
  <2>2. (out_of_step => \A x \in Cards \cup {None} : seen[x] = 0)'
    BY <1>0, <1>3
  <2>3. (call # None /\ call.stage = "rf_off_absent" => seen[None] = 0)'
    BY <1>0, <1>3
  <2> QED BY <1>0, <1>3, <2>1, <2>2, <2>3
<1>5. Answered => Answered'
  BY <1>0, <1>3, AnsweredStays
<1>6. LineInv'
  <2>1. Cmd' = Cmd
    BY <1>0 DEF Cmd, CommandOf
  <2>2. Refused => Refused'
    BY <1>0 DEF Refused, OnLine
  <2>3. Unanswered => Unanswered'
    BY <1>0, <2>1 DEF Unanswered, Quiet
  <2> QED BY <1>0, <1>5, <2>2, <2>3 DEF ReaderInv, LineInv
<1>7. StepInv'
  <2> SUFFICES ASSUME ~out_of_step' PROVE InStep'
    BY DEF StepInv
  <2>1. InStep
    BY <1>0 DEF ReaderInv, StepInv
  <2>2. Pn532TypeOK'
    BY <1>0, <2>1, Zenon DEF InStep, Pn532TypeOK
  <2>3. FieldKnown' /\ TargetKnown'
    BY <1>0, <1>5, <2>1 DEF InStep, FieldKnown, TargetKnown
  <2>4. CacheRecent'
    <3>1. cached_card \in Cards \cup {None} /\ last_poll \in 0..LongAgo
      BY <2>1 DEF InStep, Pn532TypeOK
    <3> QED BY <1>0, <1>3, <2>1, <3>1 DEF InStep, CacheRecent, LongAgo
  <2> QED BY <1>0, <2>1, <2>2, <2>3, <2>4 DEF InStep, Quiet
<1>8. ReturnInv'
  BY <1>0, <1>1, <1>4, <1>7, NothingReturned
<1> QED BY <1>0, <1>1, <1>2, <1>4, <1>6, <1>7, <1>8 DEF ReaderInv

LEMMA PlaceStep ==
    ASSUME ReaderInv, NEW c \in Cards, PlaceCard(c)
    PROVE  ReaderInv'
<1>1. chip.selected = None
  BY DEF PlaceCard, ReaderInv, WorldInv
<1>2. CardMoves
  BY <1>1 DEF PlaceCard, CardMoves
<1>3. WorldStep
  BY DEF WorldStep
<1> QED BY <1>2, <1>3, MoveStep

LEMMA RemoveStep ==
    ASSUME ReaderInv, RemoveCard
    PROVE  ReaderInv'
<1>1. CardMoves
  BY DEF RemoveCard, CardMoves
<1>2. WorldStep
  BY DEF WorldStep
<1> QED BY <1>1, <1>2, MoveStep

LEMMA TickStep ==
    ASSUME ReaderInv, Tick
    PROVE  ReaderInv'
<1>0. /\ call = None /\ last_poll' = Older(last_poll)
      /\ returned' = None
      /\ UNCHANGED <<active_target, cached_card, rf_field_enabled, call, line, chip,
                     card_in_field, out_of_step, poll_failed>>
  BY DEF Tick, worldVars
<1>1. FieldInv'
  BY WorldKeepsField DEF ReaderInv, WorldStep
<1>2. CallInv' /\ LineInv'
  BY <1>0 DEF CallInv, LineInv
<1>3. \A n \in 0..LongAgo : Older(n) \in 0..LongAgo /\ Older(n) >= n
                            /\ \A m \in 0..n : Older(m) <= Older(n)
  <2>1. \A n \in 0..LongAgo : Older(n) = IF n >= LongAgo THEN LongAgo ELSE n + 1
    BY MinOfTwo DEF Older, LongAgo
  <2> QED BY <2>1 DEF LongAgo
<1>4. /\ seen' \in [Cards \cup {None} -> 0..LongAgo]
      /\ seen'[card_in_field] = 0
      /\ out_of_step => seen' = seen
      /\ ~out_of_step => \A x \in Cards \cup {None} :
                           seen'[x] = IF x = card_in_field THEN 0 ELSE Older(seen[x])
  <2>1. seen \in [Cards \cup {None} -> 0..LongAgo] /\ card_in_field \in Cards \cup {None}
        /\ seen[card_in_field] = 0
    BY DEF ReaderInv, WorldInv
  <2>2. CASE out_of_step
    BY <2>1, <2>2 DEF Tick
  <2>3. CASE ~out_of_step
    <3>1. seen' = [x \in Cards \cup {None} |-> IF x = card_in_field THEN 0 ELSE Older(seen[x])]
      BY <2>1, <2>3 DEF Tick
    <3>2. \A x \in Cards \cup {None} : Older(seen[x]) \in 0..LongAgo
      BY <1>3, <2>1
    <3>3. 0 \in 0..LongAgo
      BY DEF LongAgo
    <3> QED BY <2>1, <2>3, <3>1, <3>2, <3>3
  <2> QED BY <2>2, <2>3
<1>5. WorldInv'
  BY <1>0, <1>3, <1>4 DEF ReaderInv, WorldInv
<1>6. StepInv'
  <2> SUFFICES ASSUME ~out_of_step' PROVE InStep'
    BY DEF StepInv
  <2>1. InStep /\ last_poll \in 0..LongAgo /\ last_poll' \in 0..LongAgo
    BY <1>0, <1>3 DEF ReaderInv, StepInv, WorldInv
  <2>2. Pn532TypeOK'
    BY <1>0, <2>1, Zenon DEF InStep, Pn532TypeOK
  <2>3. FieldKnown' /\ TargetKnown'
    BY <1>0, <2>1 DEF InStep, FieldKnown, TargetKnown
  <2>4. CacheRecent'
    <3> SUFFICES ASSUME ~poll_failed PROVE seen'[cached_card] <= last_poll'
      BY <1>0 DEF CacheRecent
    <3>1. cached_card \in Cards \cup {None} /\ seen[cached_card] <= last_poll
      BY <1>0, <2>1 DEF InStep, CacheRecent, Pn532TypeOK
    <3>2. seen[cached_card] \in 0..LongAgo
      BY <3>1 DEF ReaderInv, WorldInv
    <3>3. seen[cached_card] \in 0..last_poll
      BY <2>1, <3>1, <3>2 DEF LongAgo
    <3>4. Older(seen[cached_card]) <= Older(last_poll)
      BY <1>3, <2>1, <3>3
    <3>5. CASE cached_card = card_in_field
      BY <1>0, <1>4, <2>1, <3>5 DEF LongAgo
    <3>6. CASE cached_card # card_in_field
      BY <1>0, <1>4, <3>1, <3>4, <3>6
    <3> QED BY <3>5, <3>6
  <2> QED BY <1>0, <2>1, <2>2, <2>3, <2>4 DEF InStep, Quiet
<1>7. ReturnInv'
  BY <1>0, <1>1, <1>5, <1>6, NothingReturned
<1> QED BY <1>0, <1>1, <1>2, <1>5, <1>6, <1>7 DEF ReaderInv

LEMMA WorldSteps ==
    ASSUME ReaderInv, WorldStep
    PROVE  ReaderInv'
BY AckStep, AnswerStep, RefuseStep, DropStep, PlaceStep, RemoveStep, TickStep DEF WorldStep


-----------------------------------------------------------------------------
(* The start of a call *)

LEMMA CallIsSome ==
    ASSUME NEW c \in CallRecord
    PROVE  c # None
BY CallAssumption

\* The record of a call that sends its first or its next command.
LEMMA IssueShape ==
    ASSUME NEW op \in {"poll_card", "power_off", "exchange_apdu"},
           NEW apdu \in Apdus \cup {<< >>}, NEW quiet \in BOOLEAN,
           NEW stage \in Stages, Issue(op, apdu, quiet, stage)
    PROVE  /\ call' \in CallRecord /\ call' # None /\ returned' = None
           /\ call'.op = op /\ call'.apdu = apdu /\ call'.stage = stage
           /\ call'.phase = "send" /\ call'.quiet = quiet
<1>1. call' \in CallRecord
  BY DEF Issue, CallRecord
<1>2. call' # None
  BY <1>1, CallIsSome
<1> QED BY <1>1, <1>2 DEF Issue

\* What the start of any call leaves alone.
Starts ==
    /\ call = None
    /\ active_target' \in {active_target, None}
    /\ UNCHANGED <<cached_card, rf_field_enabled, line, chip, card_in_field,
                   out_of_step, poll_failed, seen>>

LEMMA StartIssues ==
    ASSUME ReaderInv, Starts, FieldInv',
           NEW op \in {"poll_card", "power_off", "exchange_apdu"},
           NEW apdu \in Apdus \cup {<< >>}, op = "exchange_apdu" => apdu \in Apdus,
           NEW stage \in StagesOf(op), Issue(op, apdu, Quiet, stage),
           stage # "rf_off_absent", stage = "data" => active_target' # None,
           last_poll' = last_poll \/ (last_poll' = 0 /\ stage = "list")
    PROVE  ReaderInv'
<1>0. /\ call = None
      /\ active_target' \in {active_target, None}
      /\ UNCHANGED <<cached_card, rf_field_enabled, line, chip, card_in_field,
                     out_of_step, poll_failed, seen>>
  BY DEF Starts
<1>1. stage \in Stages
  BY DEF StagesOf, Stages, RfStages
<1>2. Quiet \in BOOLEAN
  BY Zenon DEF Quiet
<1>3. /\ call' \in CallRecord /\ call' # None /\ returned' = None
      /\ call'.op = op /\ call'.apdu = apdu /\ call'.stage = stage
      /\ call'.phase = "send" /\ call'.quiet = Quiet
  BY <1>1, <1>2, IssueShape
<1>4. CallInv'
  BY <1>3 DEF CallInv
<1>5. last_poll' \in 0..LongAgo
  BY DEF ReaderInv, WorldInv, LongAgo
<1>6. WorldInv'
  BY <1>0, <1>3, <1>5 DEF ReaderInv, WorldInv
<1>7. Quiet' = Quiet
  BY <1>0 DEF Quiet
<1>8. LineInv'
  BY <1>3, <1>7 DEF LineInv, Unanswered
<1>9. StepInv'
  <2> SUFFICES ASSUME ~out_of_step' PROVE InStep'
    BY DEF StepInv
  <2>1. InStep /\ Quiet
    BY <1>0 DEF ReaderInv, StepInv, InStep
  <2>2. Pn532TypeOK'
    BY <1>0, <1>3, <1>5, <2>1, Zenon DEF InStep, Pn532TypeOK
  <2>3. FieldKnown' /\ TargetKnown'
    BY <1>0, <2>1 DEF InStep, FieldKnown, TargetKnown
  <2>4. CacheRecent'
    BY <1>0, <1>3, <2>1 DEF InStep, CacheRecent
  <2> QED BY <1>0, <1>3, <2>1, <2>2, <2>3, <2>4 DEF InStep
<1>10. ReturnInv'
  BY <1>3, <1>6, <1>9, NothingReturned
<1> QED BY <1>0, <1>4, <1>6, <1>8, <1>9, <1>10 DEF ReaderInv

\* A call that returns at once.
LEMMA StartReturns ==
    ASSUME ReaderInv, Starts, FieldInv',
           NEW op, NEW apdu, NEW r, Return(op, apdu, Quiet, r), last_poll' = last_poll,
           ~out_of_step => r \in ResultsOf(op),
           op = "exchange_apdu" => r.tag # "Ok",
           op = "poll_card" /\ r.tag = "Ok" => r.val = cached_card /\ RecentlyPolled,
           op = "power_off" => ~rf_field_enabled
    PROVE  ReaderInv'
<1>0. /\ call = None
      /\ active_target' \in {active_target, None}
      /\ UNCHANGED <<cached_card, rf_field_enabled, line, chip, card_in_field,
                     out_of_step, poll_failed, seen>>
  BY DEF Starts
<1>1. call' = None /\ returned'.op = op /\ returned'.result = r
  BY DEF Return
<1>2. CallInv' /\ LineInv'
  BY <1>1 DEF CallInv, LineInv
<1>3. WorldInv'
  BY <1>0, <1>1 DEF ReaderInv, WorldInv
<1>4. StepInv'
  <2> SUFFICES ASSUME ~out_of_step' PROVE InStep'
    BY DEF StepInv
  <2>1. InStep /\ Quiet
    BY <1>0 DEF ReaderInv, StepInv, InStep
  <2>2. Pn532TypeOK'
    <3>1. returned'.result \in ResultsOf(returned'.op)
      BY <1>0, <1>1
    <3> QED BY <1>0, <1>1, <2>1, <3>1, Zenon DEF InStep, Pn532TypeOK
  <2>3. FieldKnown' /\ TargetKnown' /\ CacheRecent'
    BY <1>0, <1>1, <2>1 DEF InStep, FieldKnown, TargetKnown, CacheRecent
  <2> QED BY <1>0, <1>1, <2>1, <2>2, <2>3 DEF InStep, Quiet
<1>5. ~out_of_step => InStep
  BY DEF ReaderInv, StepInv
<1>6. PresenceIsRecent'
  <2> SUFFICES ASSUME ~out_of_step, ~poll_failed, op = "poll_card", r.tag = "Ok"
               PROVE  seen[r.val] < IF r.val = None THEN PN532_ABSENT_POLL_INTERVAL
                                    ELSE PN532_POLL_INTERVAL
    BY <1>0, <1>1 DEF PresenceIsRecent, ReportIsRecent
  <2>1. r.val = cached_card /\ RecentlyPolled
    OBVIOUS
  <2>2. seen[cached_card] <= last_poll
    BY <1>0, <1>5 DEF InStep, CacheRecent
  <2>3. last_poll \in Nat /\ seen[cached_card] \in Nat
    <3>1. cached_card \in Cards \cup {None}
      BY <1>5, Zenon DEF InStep, Pn532TypeOK
    <3> QED BY <3>1 DEF ReaderInv, WorldInv, LongAgo
  <2> QED BY <2>1, <2>2, <2>3 DEF RecentlyPolled, PN532_POLL_INTERVAL, PN532_ABSENT_POLL_INTERVAL
<1>7. FieldFlagIsTrue'
  <2> SUFFICES ASSUME ~out_of_step
               PROVE  /\ rf_field_enabled = chip.rf
                      /\ op = "power_off" => chip.selected = None
    BY <1>0, <1>1 DEF FieldFlagIsTrue
  <2>1. chip.rf <=> rf_field_enabled
    BY <1>0, <1>5 DEF InStep, FieldKnown
  <2>2. chip.rf \in BOOLEAN /\ rf_field_enabled \in BOOLEAN
    BY DEF ReaderInv, WorldInv, FieldInv
  <2>3. op = "power_off" => chip.selected = None
    BY <2>1 DEF ReaderInv, WorldInv
  <2> QED BY <2>1, <2>2, <2>3
<1>8. ReturnInv'
  BY <1>1, <1>6, <1>7 DEF ReturnInv, QuietLineOwnAnswer, AnsweredByCachedCard
<1> QED BY <1>0, <1>2, <1>3, <1>4, <1>8 DEF ReaderInv

LEMMA PollStarts ==
    ASSUME ReaderInv, Starts, FieldInv', UNCHANGED active_target,
           NEW op \in {"poll_card", "exchange_apdu"}, NEW apdu \in Apdus \cup {<< >>},
           op = "exchange_apdu" => apdu \in Apdus /\ active_target = None,
           BeginPoll(op, apdu)
    PROVE  ReaderInv'
<1>1. CASE can_return_cached_presence
  <2> DEFINE r == IF op = "exchange_apdu" THEN TargetLost ELSE Ok(cached_card)
  <2>1. Return(op, apdu, Quiet, r) /\ last_poll' = last_poll
    BY <1>1 DEF BeginPoll
  <2>2. RecentlyPolled
    BY <1>1 DEF can_return_cached_presence
  <2>3. ~out_of_step => r \in ResultsOf(op)
    <3>1. ~out_of_step => cached_card \in Cards \cup {None}
      BY Zenon DEF ReaderInv, StepInv, InStep, Pn532TypeOK
    <3> QED BY <3>1 DEF ResultsOf, PollResults, ExchangeResults
  <2>4. op = "exchange_apdu" => r.tag # "Ok"
    BY DEF TargetLost
  <2>5. op = "poll_card" => r.val = cached_card
    BY DEF Ok
  <2> HIDE DEF r
  <2> QED BY <2>1, <2>2, <2>3, <2>4, <2>5, StartReturns
<1>2. CASE ~can_return_cached_presence
  <2> DEFINE stage == IF rf_field_enabled THEN "list" ELSE "rf_on"
  <2>1. /\ Issue(op, apdu, Quiet, stage)
        /\ last_poll' = IF rf_field_enabled THEN 0 ELSE last_poll
    BY <1>2, Zenon DEF BeginPoll
  <2>2. stage \in StagesOf(op) /\ stage # "rf_off_absent" /\ stage # "data"
    BY DEF StagesOf
  <2>3. last_poll' = last_poll \/ (last_poll' = 0 /\ stage = "list")
    <3>1. CASE rf_field_enabled
      BY <2>1, <3>1
    <3>2. CASE ~rf_field_enabled
      BY <2>1, <3>2
    <3> QED BY <3>1, <3>2
  <2> HIDE DEF stage
  <2> QED BY <2>1, <2>2, <2>3, StartIssues
<1> QED BY <1>1, <1>2

LEMMA CallSteps ==
    ASSUME ReaderInv,
           poll_card \/ power_off \/ \E apdu \in Apdus : exchange_apdu(apdu)
    PROVE  ReaderInv'
<1>0. FieldInv'
  BY CallsKeepField DEF ReaderInv
<1> USE DEF worldVars, historyVars
<1>1. CASE poll_card
  <2>1. Starts /\ UNCHANGED active_target /\ BeginPoll("poll_card", << >>)
    BY <1>1 DEF poll_card, MayCall, Starts, BeginPoll
  <2> QED BY <1>0, <2>1, PollStarts
<1>2. CASE power_off
  <2>1. Starts /\ active_target' = None /\ UNCHANGED last_poll
    BY <1>2 DEF power_off, MayCall, Starts
  <2>2. CASE rf_field_enabled
    <3>1. Issue("power_off", << >>, Quiet, "rf_off")
      BY <1>2, <2>2 DEF power_off
    <3>2. /\ "rf_off" \in StagesOf("power_off") /\ "rf_off" # "rf_off_absent"
          /\ "rf_off" # "data" /\ "power_off" # "exchange_apdu"
      BY DEF StagesOf
    <3>3. /\ "power_off" \in {"poll_card", "power_off", "exchange_apdu"}
          /\ << >> \in Apdus \cup {<< >>} /\ last_poll' = last_poll
      BY <2>1
    <3> QED BY <1>0, <2>1, <3>1, <3>2, <3>3, StartIssues
  <2>3. CASE ~rf_field_enabled
    <3>1. Return("power_off", << >>, Quiet, Ok(None))
      BY <1>2, <2>3 DEF power_off
    <3>2. Ok(None) \in ResultsOf("power_off")
      BY DEF ResultsOf, PowerOffResults
    <3> QED BY <1>0, <2>1, <2>3, <3>1, <3>2, StartReturns
  <2> QED BY <2>2, <2>3
<1>3. ASSUME NEW apdu \in Apdus, exchange_apdu(apdu)
      PROVE  ReaderInv'
  <2>1. call = None /\ UNCHANGED <<active_target, rf_field_enabled, worldVars, historyVars>>
    BY <1>3 DEF exchange_apdu, MayCall
  <2>2. CASE TooLong(apdu)
    <3>1. Return("exchange_apdu", apdu, Quiet, Err) /\ UNCHANGED <<cached_card, last_poll>>
      BY <1>3, <2>2 DEF exchange_apdu
    <3>2. Err \in ResultsOf("exchange_apdu") /\ Err.tag # "Ok"
      BY DEF ResultsOf, ExchangeResults, Err
    <3>3. Starts
      BY <2>1, <3>1 DEF Starts
    <3> QED BY <1>0, <3>1, <3>2, <3>3, StartReturns
  <2>3. CASE ~TooLong(apdu) /\ active_target # None
    <3>1. Issue("exchange_apdu", apdu, Quiet, "data") /\ UNCHANGED <<cached_card, last_poll>>
      BY <1>3, <2>3 DEF exchange_apdu
    <3>2. "data" \in StagesOf("exchange_apdu") /\ "data" # "rf_off_absent"
      BY DEF StagesOf
    <3>3. Starts
      BY <2>1, <3>1 DEF Starts
    <3>4. /\ "exchange_apdu" \in {"poll_card", "power_off", "exchange_apdu"}
          /\ apdu \in Apdus \cup {<< >>} /\ last_poll' = last_poll
          /\ active_target' # None
      BY <2>1, <2>3, <3>1
    <3> QED BY <1>0, <3>1, <3>2, <3>3, <3>4, StartIssues
  <2>4. CASE ~TooLong(apdu) /\ active_target = None
    <3>1. BeginPoll("exchange_apdu", apdu)
      BY <1>3, <2>4 DEF exchange_apdu
    <3>2. Starts
      BY <2>1, <3>1 DEF Starts, BeginPoll
    <3> QED BY <1>0, <2>1, <2>4, <3>1, <3>2, PollStarts
  <2> QED BY <2>2, <2>3, <2>4
<1> QED BY <1>1, <1>2, <1>3


-----------------------------------------------------------------------------
(* Steps of a call *)

\* What the reader knows when no answer is on the line.
Known ==
    /\ active_target \in Byte \cup {None} /\ cached_card \in Cards \cup {None}
    /\ chip.rf <=> rf_field_enabled
    /\ active_target # None => cached_card \in Cards /\ chip.selected \in {None, cached_card}

CacheHolds == ~poll_failed => seen[cached_card] <= last_poll

LEMMA InStepCall ==
    ASSUME ReaderInv, call # None, ~out_of_step
    PROVE  call.quiet /\ InStep
BY DEF ReaderInv, StepInv, InStep

\* Before its answer is on the line, a call knows what it knew; afterwards it
\* depends on the stage.
LEMMA KnownBefore ==
    ASSUME ReaderInv, call # None, ~out_of_step, ~Answered
    PROVE  Known
<1>1. InStep
  BY InStepCall
<1>2. active_target \in Byte \cup {None} /\ cached_card \in Cards \cup {None}
  BY <1>1, Zenon DEF InStep, Pn532TypeOK
<1> QED BY <1>1, <1>2 DEF InStep, FieldKnown, TargetKnown, Known

\* The call goes on with its next command, on a quiet line if it started on one.
LEMMA GoesOn ==
    ASSUME ReaderInv, call # None, FieldInv', WorldInv',
           NEW stage \in StagesOf(call.op), Proceed(stage),
           UNCHANGED <<chip, card_in_field, out_of_step>>,
           call.quiet => line' = << >> /\ chip.pending = None,
           ~out_of_step => /\ Known'
                           /\ stage # "list" => CacheHolds'
                           /\ stage = "data" => active_target' # None
                           /\ stage = "rf_off_absent" => cached_card' = None
    PROVE  ReaderInv'
<1>0. call \in CallRecord /\ (call.op = "exchange_apdu" => call.apdu \in Apdus)
      /\ out_of_step \in BOOLEAN
  BY DEF ReaderInv, CallInv
<1>1. stage \in Stages
  BY <1>0 DEF StagesOf, Stages, RfStages, CallRecord
<1>2. /\ call' \in CallRecord /\ call' # None /\ returned' = None
      /\ call'.op = call.op /\ call'.apdu = call.apdu /\ call'.stage = stage
      /\ call'.phase = "send" /\ call'.quiet = call.quiet
  BY <1>0, <1>1, IssueShape DEF Proceed, CallRecord
<1>3. CallInv'
  BY <1>0, <1>2 DEF CallInv
<1>4. LineInv'
  BY <1>2 DEF LineInv, Unanswered, Quiet
<1>5. StepInv'
  <2> SUFFICES ASSUME ~out_of_step PROVE InStep'
    BY DEF StepInv
  <2>1. call.quiet /\ Known'
    BY InStepCall
  <2>2. Pn532TypeOK'
    <3>1. line' \in Seq(Byte)
      BY <2>1
    <3>2. (card_in_field \in Cards \cup {None} /\ last_poll \in 0..LongAgo)'
      BY DEF WorldInv
    <3>3. rf_field_enabled' \in BOOLEAN
      BY DEF FieldInv
    <3> QED BY <1>2, <2>1, <3>1, <3>2, <3>3, Zenon DEF Known, Pn532TypeOK
  <2>3. FieldKnown' /\ TargetKnown'
    BY <2>1 DEF Known, FieldKnown, TargetKnown
  <2>4. CacheRecent'
    BY <1>2 DEF CacheRecent, CacheHolds
  <2> QED BY <1>2, <2>1, <2>2, <2>3, <2>4 DEF InStep
<1>6. ReturnInv'
  BY <1>2, <1>5, NothingReturned
<1> QED BY <1>0, <1>3, <1>4, <1>5, <1>6 DEF ReaderInv

\* The call returns r.
LEMMA Ends ==
    ASSUME ReaderInv, call # None, FieldInv', WorldInv',
           NEW r, Finish(r), UNCHANGED <<chip, card_in_field, out_of_step, seen>>,
           call.quiet => line' = << >> /\ chip.pending = None,
           ~out_of_step => Known' /\ CacheHolds' /\ r \in ResultsOf(call.op),
           r.tag = "Ok" =>
             /\ call.op = "exchange_apdu" /\ call.quiet =>
                  \E c \in Cards : /\ r.val = CardAnswer(c, call.apdu)
                                   /\ ~out_of_step => c = cached_card'
             /\ ~out_of_step => /\ call.op = "poll_card" => seen[r.val] = 0
                                /\ call.op = "power_off" => chip.selected = None
    PROVE  ReaderInv'
<1>0. /\ call' = None /\ returned'.op = call.op /\ returned'.apdu = call.apdu
      /\ returned'.quiet = call.quiet /\ returned'.result = r
      /\ out_of_step' = out_of_step /\ out_of_step \in BOOLEAN
  BY DEF Finish, Return, ReaderInv
<1>1. CallInv' /\ LineInv'
  BY <1>0 DEF CallInv, LineInv
<1>2. ~out_of_step => call.quiet
  BY InStepCall
<1>3. StepInv'
  <2> SUFFICES ASSUME ~out_of_step PROVE InStep'
    BY <1>0 DEF StepInv
  <2>1. Known' /\ line' = << >> /\ chip'.pending = None
    BY <1>2
  <2>2. Pn532TypeOK'
    <3>1. line' \in Seq(Byte)
      BY <2>1
    <3>2. (card_in_field \in Cards \cup {None} /\ last_poll \in 0..LongAgo)'
      BY DEF WorldInv
    <3>3. rf_field_enabled' \in BOOLEAN
      BY DEF FieldInv
    <3>4. returned'.result \in ResultsOf(returned'.op)
      BY <1>0
    <3> QED BY <1>0, <2>1, <3>1, <3>2, <3>3, <3>4, Zenon DEF Known, Pn532TypeOK
  <2>3. FieldKnown' /\ TargetKnown'
    BY <2>1 DEF Known, FieldKnown, TargetKnown
  <2>4. CacheRecent'
    BY DEF CacheRecent, CacheHolds
  <2> QED BY <1>0, <2>1, <2>2, <2>3, <2>4 DEF InStep, Quiet
<1>4. QuietLineOwnAnswer'
  BY <1>0 DEF QuietLineOwnAnswer
<1>5. AnsweredByCachedCard'
  BY <1>0, <1>2 DEF AnsweredByCachedCard
<1>6. PresenceIsRecent'
  <2> SUFFICES ASSUME ~out_of_step, call.op = "poll_card", r.tag = "Ok"
               PROVE  seen'[r.val] < IF r.val = None THEN PN532_ABSENT_POLL_INTERVAL
                                     ELSE PN532_POLL_INTERVAL
    BY <1>0 DEF PresenceIsRecent, ReportIsRecent
  <2>1. seen'[r.val] = 0
    OBVIOUS
  <2> QED BY <2>1 DEF PN532_POLL_INTERVAL, PN532_ABSENT_POLL_INTERVAL
<1>7. FieldFlagIsTrue'
  <2> SUFFICES ASSUME ~out_of_step
               PROVE  /\ rf_field_enabled' = (chip.rf)'
                      /\ call.op = "power_off" /\ r = Ok(None) => chip.selected = None
    BY <1>0 DEF FieldFlagIsTrue
  <2>1. (chip.rf)' <=> rf_field_enabled'
    BY DEF Known
  <2>2. (chip.rf)' \in BOOLEAN /\ rf_field_enabled' \in BOOLEAN
    BY DEF WorldInv, FieldInv
  <2>3. r = Ok(None) => r.tag = "Ok"
    BY DEF Ok
  <2> QED BY <2>1, <2>2, <2>3
<1>8. ReturnInv'
  BY <1>4, <1>5, <1>6, <1>7 DEF ReturnInv
<1> QED BY <1>0, <1>1, <1>3, <1>8 DEF ReaderInv

\* The result of a command that fails.
LEMMA FailShape ==
    ASSUME CallInv, call # None, Fail
    PROVE  \E r : /\ Finish(r) /\ r.tag # "Ok" /\ r \in ResultsOf(call.op)
                  /\ call' = None /\ returned'.result = r
<1> DEFINE r == IF call.stage = "rf_off_lost" THEN TargetLost ELSE Err
<1>1. Finish(r)
  BY DEF Fail
<1>2. r.tag # "Ok"
  BY DEF TargetLost, Err
<1>3. call' = None /\ returned'.result = r
  BY <1>1 DEF Finish, Return
<1>4. r \in ResultsOf(call.op)
  <2>1. /\ call.op \in {"poll_card", "power_off", "exchange_apdu"}
        /\ call.stage = "rf_off_lost" => call.op = "exchange_apdu"
    BY StageOps
  <2> QED BY <2>1 DEF ResultsOf, PollResults, PowerOffResults, ExchangeResults
<1> HIDE DEF r
<1> QED BY <1>1, <1>2, <1>3, <1>4

\* A command fails and the line is, or from now on may be, out of step.
LEMMA FailsOutOfStep ==
    ASSUME ReaderInv, call # None, Fail, UNCHANGED <<chip, card_in_field>>,
           out_of_step' = TRUE, seen' \in [Cards \cup {None} -> {0}]
    PROVE  ReaderInv'
<1>1. PICK r : r.tag # "Ok" /\ call' = None /\ returned'.result = r
  BY FailShape DEF ReaderInv
<1>2. FieldInv'
  BY FailKeepsField DEF ReaderInv
<1>3. CallInv' /\ LineInv' /\ StepInv'
  BY <1>1 DEF CallInv, LineInv, StepInv
<1>4. WorldInv'
  <2>1. last_poll' = last_poll
    BY DEF Fail, readerVars
  <2>2. /\ seen' \in [Cards \cup {None} -> 0..LongAgo]
        /\ \A x \in Cards \cup {None} : seen'[x] = 0
    BY DEF LongAgo
  <2>3. card_in_field' \in Cards \cup {None}
    BY DEF ReaderInv, WorldInv
  <2>4. seen'[card_in_field'] = 0
    BY <2>2, <2>3
  <2> QED BY <1>1, <2>1, <2>2, <2>3, <2>4 DEF ReaderInv, WorldInv
<1>5. ReturnInv'
  BY <1>1 DEF ReturnInv, QuietLineOwnAnswer, AnsweredByCachedCard, PresenceIsRecent,
     FieldFlagIsTrue
<1> QED BY <1>2, <1>3, <1>4, <1>5 DEF ReaderInv

LEMMA LoseStep ==
    ASSUME ReaderInv, call # None, Fail, LosesStep, UNCHANGED <<chip, card_in_field>>
    PROVE  ReaderInv'
<1>1. out_of_step' = TRUE /\ seen' \in [Cards \cup {None} -> {0}]
  BY DEF LosesStep, ReaderInv, WorldInv
<1> QED BY <1>1, FailsOutOfStep

LEMMA SendStep ==
    ASSUME ReaderInv, Send
    PROVE  ReaderInv'
<1>0. /\ call # None /\ call.phase = "send" /\ call \in CallRecord
      /\ chip'.pending = Cmd /\ chip'.acked = FALSE
      /\ chip'.rf = chip.rf /\ chip'.selected = chip.selected
      /\ call' = [call EXCEPT !.phase = "ack"]
      /\ returned' = None
      /\ UNCHANGED <<active_target, cached_card, last_poll, rf_field_enabled, line,
                     card_in_field, out_of_step, poll_failed, seen>>
  BY DEF Send, Cmd, readerVars, historyVars, ReaderInv, CallInv
<1>1. /\ call' \in CallRecord /\ call' # None
      /\ call'.op = call.op /\ call'.apdu = call.apdu /\ call'.stage = call.stage
      /\ call'.phase = "ack" /\ call'.quiet = call.quiet
  <2>1. /\ call' \in CallRecord
        /\ call'.op = call.op /\ call'.apdu = call.apdu /\ call'.stage = call.stage
        /\ call'.phase = "ack" /\ call'.quiet = call.quiet
    BY <1>0 DEF CallRecord
  <2> QED BY <2>1, CallIsSome
<1>2. FieldInv'
  BY ReaderKeepsField DEF ReaderInv, ReaderStep
<1>3. CallInv'
  BY <1>0, <1>1 DEF ReaderInv, CallInv
<1>4. WorldInv'
  <2>1. Cmd.code \in {RFConfiguration, InListPassiveTarget, InDataExchange}
    BY <1>0, CommandCode, StageOps DEF ReaderInv, Cmd
  <2> QED BY <1>0, <1>1, <2>1 DEF ReaderInv, WorldInv
<1>5. Cmd' = Cmd
  BY <1>0, <1>1 DEF Cmd, CommandOf
<1>6. call.quiet => line = << >>
  BY <1>0, AnsweredIsSent DEF ReaderInv, LineInv, Refused, Unanswered, Quiet
<1>7. LineInv'
  BY <1>0, <1>1, <1>5, <1>6 DEF LineInv, Unanswered
<1>8. StepInv'
  <2> SUFFICES ASSUME ~out_of_step PROVE InStep'
    BY <1>0 DEF StepInv
  <2>1. InStep /\ call.quiet /\ ~Answered
    BY <1>0, AnsweredIsSent, InStepCall
  <2>2. Pn532TypeOK'
    BY <1>0, <1>1, <2>1, Zenon DEF InStep, Pn532TypeOK
  <2> QED BY <1>0, <1>1, <2>1, <2>2 DEF InStep, FieldKnown, TargetKnown, CacheRecent
<1>9. ReturnInv'
  BY <1>0, <1>2, <1>4, <1>8, NothingReturned
<1> QED BY <1>0, <1>2, <1>3, <1>4, <1>7, <1>8, <1>9 DEF ReaderInv

LEMMA SendFailsStep ==
    ASSUME ReaderInv, SendFails
    PROVE  ReaderInv'
<1>0. /\ call # None /\ call.phase = "send" /\ Fail
      /\ poll_failed' = (poll_failed \/ call.stage = "list")
      /\ UNCHANGED <<active_target, cached_card, last_poll, rf_field_enabled, line, chip,
                     card_in_field, out_of_step, seen>>
  BY DEF SendFails, Fail, readerVars, worldVars
<1>1. PICK r : Finish(r) /\ r.tag # "Ok" /\ r \in ResultsOf(call.op) /\ call' = None
  BY <1>0, FailShape DEF ReaderInv
<1>2. FieldInv'
  BY <1>0, FailKeepsField DEF ReaderInv
<1>3. WorldInv'
  BY <1>0, <1>1 DEF ReaderInv, WorldInv
<1>4. ~Answered
  BY <1>0, AnsweredIsSent
<1>5. call.quiet => line' = << >> /\ chip.pending = None
  BY <1>0, <1>4 DEF ReaderInv, LineInv, Refused, Unanswered, Quiet
<1>6. ~out_of_step => Known' /\ CacheHolds'
  <2> SUFFICES ASSUME ~out_of_step PROVE Known' /\ CacheHolds'
    OBVIOUS
  <2>1. Known /\ InStep
    BY <1>0, <1>4, KnownBefore, InStepCall
  <2>2. Known'
    BY <1>0, <2>1 DEF Known
  <2>3. CacheHolds'
    BY <1>0, <2>1 DEF InStep, CacheRecent, CacheHolds
  <2> QED BY <2>2, <2>3
<1> QED BY <1>0, <1>1, <1>2, <1>3, <1>5, <1>6, Ends


LEMMA TimesOutStep ==
    ASSUME ReaderInv, TimesOut
    PROVE  ReaderInv'
BY LoseStep DEF TimesOut

\* A quiet call finds an acknowledgement in front of what it waits for.
LEMMA QuietAck ==
    ASSUME ReaderInv, call # None, call.quiet, call.phase = "ack", ~Starved
    PROVE  LET rest == SubSeq(line, Len(ACK) + 1, Len(line))
           IN  /\ IsPrefix(ACK, line) /\ rest \in Seq(u8)
               /\ \/ /\ rest = << >>
                     /\ chip.pending = None \/ (chip.pending = Cmd /\ chip.acked)
                  \/ chip.pending = None /\ rest = ERROR_FRAME
                  \/ \E p \in Payloads : /\ rest = EncodeFrame(Cmd.code + 1, p)
                                         /\ chip.pending = None /\ PayloadFits(p)
<1> DEFINE rest == SubSeq(line, Len(ACK) + 1, Len(line))
<1>1. line # << >>
  BY EmptyLineStarves
<1>2. Unanswered \/ Refused \/ Answered
  BY DEF ReaderInv, LineInv
<1>3. CASE Unanswered
  <2>1. line = ACK /\ (chip.pending = None \/ (chip.pending = Cmd /\ chip.acked))
    BY <1>1, <1>3 DEF Unanswered
  <2>2. << >> \in Seq(u8)
    OBVIOUS
  <2> QED BY <2>1, <2>2, LoneAckIsRead
<1>4. CASE Refused
  <2>1. line = ACK \o ERROR_FRAME /\ chip.pending = None
    BY <1>4 DEF Refused, OnLine
  <2>2. ERROR_FRAME \in Seq(u8)
    BY AckShape
  <2> QED BY <2>1, <2>2, AckIsRead
<1>5. CASE Answered
  <2>1. PICK p \in Payloads : AnsweredWith(p)
    BY <1>5 DEF Answered
  <2>2. line = ACK \o EncodeFrame(Cmd.code + 1, p) /\ chip.pending = None /\ PayloadFits(p)
    BY <2>1 DEF AnsweredWith, OnLine
  <2>3. Cmd.code + 1 \in u8
    BY CommandCode, StageOps DEF ReaderInv, Cmd
  <2>4. EncodeFrame(Cmd.code + 1, p) \in Seq(u8)
    BY <2>3, FrameType DEF Payloads
  <2> QED BY <2>2, <2>4, AckIsRead
<1> QED BY <1>2, <1>3, <1>4, <1>5

LEMMA AckReadStep ==
    ASSUME ReaderInv, ReceiveAck
    PROVE  ReaderInv'
<1>0. /\ call # None /\ call.phase = "ack" /\ ~Starved /\ call \in CallRecord
      /\ line' = SubSeq(line, Len(ACK) + 1, Len(line))
      /\ UNCHANGED <<chip, card_in_field, out_of_step, seen>>
  BY DEF ReceiveAck, ReaderInv, CallInv
<1>1. CASE Fail /\ ~IsPrefix(ACK, line)
  <2>1. ~call.quiet
    BY <1>0, <1>1, QuietAck
  <2>2. out_of_step
    BY <1>0, <2>1, InStepCall
  <2>3. out_of_step' = TRUE /\ seen' \in [Cards \cup {None} -> {0}]
    BY <1>0, <2>2 DEF ReaderInv, WorldInv
  <2> QED BY <1>0, <1>1, <2>3, FailsOutOfStep
<1>2. CASE /\ call' = [call EXCEPT !.phase = "resp"]
           /\ returned' = None
           /\ UNCHANGED <<readerVars, poll_failed>>
  <2>0. UNCHANGED <<active_target, cached_card, last_poll, rf_field_enabled, poll_failed>>
    BY <1>2 DEF readerVars
  <2>1. /\ call' \in CallRecord /\ call' # None
        /\ call'.op = call.op /\ call'.apdu = call.apdu /\ call'.stage = call.stage
        /\ call'.phase = "resp" /\ call'.quiet = call.quiet
    <3>1. /\ call' \in CallRecord
          /\ call'.op = call.op /\ call'.apdu = call.apdu /\ call'.stage = call.stage
          /\ call'.phase = "resp" /\ call'.quiet = call.quiet
      BY <1>0, <1>2 DEF CallRecord
    <3> QED BY <3>1, CallIsSome
  <2>2. FieldInv'
    BY ReaderKeepsField DEF ReaderInv, ReaderStep
  <2>3. CallInv'
    BY <1>0, <2>1 DEF ReaderInv, CallInv
  <2>4. WorldInv'
    BY <1>0, <2>0, <2>1 DEF ReaderInv, WorldInv
  <2>5. Cmd' = Cmd
    BY <2>0, <2>1 DEF Cmd, CommandOf
  <2>6. ASSUME NEW p, PayloadFits(p) PROVE PayloadFits(p)'
    BY <1>0, <2>0, <2>1, <2>6 DEF PayloadFits
  <2>7. LineInv'
    <3> SUFFICES ASSUME call.quiet PROVE (Unanswered \/ Refused \/ Answered)'
      BY <2>1 DEF LineInv
    <3>1. CASE line' = << >> /\ (chip.pending = None \/ (chip.pending = Cmd /\ chip.acked))
      <4>1. Unanswered'
        BY <1>0, <2>1, <2>5, <3>1 DEF Unanswered
      <4> QED BY <4>1
    <3>2. CASE chip.pending = None /\ line' = ERROR_FRAME
      <4>1. Refused'
        BY <1>0, <2>1, <3>2 DEF Refused, OnLine
      <4> QED BY <4>1
    <3>3. CASE \E p \in Payloads : /\ line' = EncodeFrame(Cmd.code + 1, p)
                                   /\ chip.pending = None /\ PayloadFits(p)
      <4>1. PICK p \in Payloads : /\ line' = EncodeFrame(Cmd.code + 1, p)
                                  /\ chip.pending = None /\ PayloadFits(p)
        BY <3>3
      <4>2. PayloadFits(p)'
        BY <2>6, <4>1
      <4>3. OnLine(EncodeFrame(Cmd.code + 1, p))'
        BY <1>0, <2>1, <2>5, <4>1 DEF OnLine
      <4>4. Answered'
        BY <2>1, <4>2, <4>3 DEF Answered, AnsweredWith
      <4> QED BY <4>4
    <3> QED BY <1>0, <3>1, <3>2, <3>3, QuietAck
  <2>8. Answered => Answered'
    <3> SUFFICES ASSUME Answered PROVE Answered'
      OBVIOUS
    <3>1. PICK p \in Payloads : AnsweredWith(p)
      BY DEF Answered
    <3>2. line = ACK \o EncodeFrame(Cmd.code + 1, p) /\ chip.pending = None /\ PayloadFits(p)
      BY <1>0, <3>1 DEF AnsweredWith, OnLine
    <3>3. Cmd.code + 1 \in u8
      BY <1>0, CommandCode, StageOps DEF ReaderInv, Cmd
    <3>4. EncodeFrame(Cmd.code + 1, p) \in Seq(u8)
      BY <3>3, FrameType DEF Payloads
    <3>5. line' = EncodeFrame(Cmd.code + 1, p)
      BY <1>0, <3>2, <3>4, AckIsRead
    <3>6. OnLine(EncodeFrame(Cmd.code + 1, p))'
      BY <1>0, <2>1, <2>5, <3>2, <3>5 DEF OnLine
    <3> QED BY <2>1, <2>6, <3>2, <3>6 DEF Answered, AnsweredWith
  <2>9. StepInv'
    <3> SUFFICES ASSUME ~out_of_step PROVE InStep'
      BY <1>0 DEF StepInv
    <3>1. InStep /\ call.quiet
      BY <1>0, InStepCall
    <3>2. line' \in Seq(Byte)
      BY <1>0, <3>1, QuietAck, ByteIsU8
    <3>3. Pn532TypeOK'
      BY <1>0, <1>2, <2>0, <2>1, <3>1, <3>2, Zenon DEF InStep, Pn532TypeOK
    <3>4. FieldKnown' /\ TargetKnown' /\ CacheRecent'
      BY <1>0, <2>0, <2>1, <2>8, <3>1 DEF InStep, FieldKnown, TargetKnown, CacheRecent
    <3> QED BY <1>0, <2>0, <2>1, <3>1, <3>3, <3>4 DEF InStep
  <2>10. ReturnInv'
    BY <1>2, <2>2, <2>4, <2>9, NothingReturned
  <2> QED BY <1>0, <2>2, <2>3, <2>4, <2>7, <2>9, <2>10 DEF ReaderInv
<1> QED BY <1>1, <1>2 DEF ReceiveAck

\* What the reader takes for the answer of a quiet call is its answer, and
\* nothing else is left on the line.
LEMMA QuietAnswer ==
    ASSUME ReaderInv, call # None, call.quiet, call.phase = "resp", ~Starved,
           Received.tag = "Ok"
    PROVE  /\ Received.val \in Payloads /\ PayloadFits(Received.val)
           /\ chip.pending = None
           /\ SubSeq(line, Received.used + 1, Len(line)) = << >>
<1>0. call.stage \in Stages
  BY StageOps DEF ReaderInv
<1>1. line # << >>
  BY EmptyLineStarves
<1>2. ~Unanswered
  BY <1>1 DEF Unanswered
<1>3. ~Refused
  BY <1>0, RefusalIsNoAnswer DEF Refused, OnLine
<1>4. PICK p \in Payloads : AnsweredWith(p)
  BY <1>2, <1>3 DEF ReaderInv, LineInv, Answered
<1>5. line = EncodeFrame(Cmd.code + 1, p) /\ chip.pending = None /\ PayloadFits(p)
  BY <1>4 DEF AnsweredWith, OnLine
<1>6. call.stage \in RfStages => p = << >>
  BY <1>5 DEF PayloadFits, RfStages
<1>7. Received.val = p /\ SubSeq(line, Received.used + 1, Len(line)) = << >>
  BY <1>0, <1>5, <1>6, AnswerIsRead DEF Cmd
<1> QED BY <1>5, <1>7


\* A call has its answer, with payload p if it started on a quiet line.
Answers(p) ==
    /\ call # None
    /\ UNCHANGED <<chip, card_in_field, out_of_step, seen>>
    /\ call.quiet => /\ p \in Payloads /\ PayloadFits(p)
                     /\ line' = << >> /\ chip.pending = None

LEMMA WorldStays ==
    ASSUME ReaderInv, NEW p, Answers(p), last_poll' \in 0..LongAgo,
           (call # None /\ call.stage = "rf_off_absent" => seen[None] = 0)'
    PROVE  WorldInv'
BY DEF ReaderInv, WorldInv, Answers

LEMMA RfStep ==
    ASSUME ReaderInv, NEW p, Answers(p), call.stage \in RfStages, RfConfigured, FieldInv'
    PROVE  ReaderInv'
<1>0. /\ call # None
      /\ UNCHANGED <<chip, card_in_field, out_of_step, seen>>
      /\ call.quiet => line' = << >> /\ chip.pending = None
      /\ call.quiet => PayloadFits(p)
      /\ UNCHANGED <<active_target, cached_card, poll_failed>>
      /\ last_poll \in 0..LongAgo
  BY DEF Answers, RfConfigured, ReaderInv, WorldInv
<1>1. rf_field_enabled' <=> call.stage = "rf_on"
  BY Zenon DEF RfConfigured
<1>2. call.quiet => /\ chip.rf <=> call.stage = "rf_on"
                    /\ call.stage # "rf_on" => chip.selected = None
  BY <1>0 DEF PayloadFits, RfStages
<1>3. ~out_of_step => Known'
  <2> SUFFICES ASSUME ~out_of_step PROVE Known'
    OBVIOUS
  <2>1. call.quiet /\ InStep
    BY <1>0, InStepCall
  <2>2. active_target \in Byte \cup {None} /\ cached_card \in Cards \cup {None}
    BY <2>1, Zenon DEF InStep, Pn532TypeOK
  <2>3. active_target # None => cached_card \in Cards /\ chip.selected \in {None, cached_card}
    BY <2>1 DEF InStep, TargetKnown, RfStages
  <2> QED BY <1>0, <1>1, <1>2, <2>1, <2>2, <2>3 DEF Known
<1>4. CASE call.stage = "rf_on"
  <2>1. last_poll' = 0 /\ Proceed("list")
    BY <1>4 DEF RfConfigured
  <2>2. "list" \in StagesOf(call.op) /\ call'.stage = "list" /\ "list" # "rf_off_absent"
        /\ "list" # "data"
    <3>1. call.op \in {"poll_card", "exchange_apdu"}
      BY <1>0, <1>4, StageOps DEF ReaderInv, CallInv, StagesOf
    <3> QED BY <2>1, <3>1 DEF StagesOf, Proceed, Issue
  <2>3. WorldInv'
    BY <2>1, <2>2, WorldStays DEF LongAgo
  <2> QED BY <1>0, <1>3, <2>1, <2>2, <2>3, GoesOn
<1>5. CASE call.stage # "rf_on"
  <2>1. last_poll' = last_poll
    BY <1>5 DEF RfConfigured
  <2>2. /\ call.stage = "rf_off" => call.op = "power_off"
        /\ call.stage = "rf_off_absent" => call.op \in {"poll_card", "exchange_apdu"}
        /\ call.stage = "rf_off_lost" => call.op = "exchange_apdu"
        /\ call.stage \in {"rf_off", "rf_off_absent", "rf_off_lost"}
    BY <1>0, <1>5, StageOps DEF ReaderInv, RfStages
  <2>3. PICK r : /\ Finish(r) /\ r \in {Ok(None), TargetLost} /\ r \in ResultsOf(call.op)
                 /\ r = Ok(None) => /\ call.op # "exchange_apdu"
                                    /\ call.op = "poll_card" => call.stage = "rf_off_absent"
    <3>1. CASE call.stage = "rf_off"
      <4>1. Finish(Ok(None)) /\ Ok(None) \in ResultsOf("power_off")
        BY <3>1 DEF RfConfigured, ResultsOf, PowerOffResults
      <4> QED BY <2>2, <3>1, <4>1
    <3>2. CASE call.stage = "rf_off_absent"
      <4>1. Finish(IF call.op = "exchange_apdu" THEN TargetLost ELSE Ok(None))
        BY <3>2 DEF RfConfigured
      <4>2. Ok(None) \in ResultsOf("poll_card") /\ TargetLost \in ResultsOf("exchange_apdu")
            /\ Ok(None) # TargetLost
        BY DEF ResultsOf, PollResults, ExchangeResults, Ok, TargetLost
      <4> QED BY <2>2, <3>2, <4>1, <4>2
    <3>3. CASE call.stage = "rf_off_lost"
      <4>1. Finish(TargetLost) /\ TargetLost \in ResultsOf("exchange_apdu")
            /\ Ok(None) # TargetLost
        BY <3>3 DEF RfConfigured, ResultsOf, ExchangeResults, Ok, TargetLost
      <4> QED BY <2>2, <3>3, <4>1
    <3> QED BY <2>2, <3>1, <3>2, <3>3
  <2>4. call' = None
    BY <2>3 DEF Finish, Return
  <2>5. WorldInv'
    BY <1>0, <2>1, <2>4, WorldStays
  <2>6. ~out_of_step => CacheHolds'
    BY <1>0, <2>1, <2>2, InStepCall DEF InStep, CacheRecent, CacheHolds
  <2>7. /\ r.tag = "Ok" => r = Ok(None) /\ r.val = None
    BY <2>3 DEF Ok, TargetLost
  <2>8. call.stage = "rf_off_absent" => seen[None] = 0
    BY <1>0 DEF ReaderInv, WorldInv
  <2>9. ~out_of_step => chip.selected = None
    BY <1>0, <1>2, <1>5, InStepCall
  <2> QED BY <1>0, <1>3, <2>3, <2>5, <2>6, <2>7, <2>8, <2>9, Ends
<1> QED BY <1>4, <1>5

\* What the target list says to a quiet call.
LEMMA ListSays ==
    ASSUME ReaderInv, NEW p, Answers(p), call.stage = "list", call.quiet
    PROVE  LET t == ParseTargets(p)
           IN  \/ /\ t = NoTarget /\ seen[None] = 0 /\ chip.rf
                  /\ chip.selected = None
               \/ \E c \in Cards : /\ t = Target(ISO_A_TARGET_SLOT, c) /\ seen[c] = 0 /\ chip.rf
                                   /\ chip.selected \in {None, c}
<1>1. PayloadFits(p)
  BY DEF Answers
<1>2. CASE p = <<0>> /\ chip.selected = None /\ chip.rf /\ seen[None] = 0
  BY <1>2, ShortPayloads
<1>3. CASE /\ chip.rf
           /\ \E c \in Cards : p = CardList(c) /\ chip.selected \in {None, c} /\ seen[c] = 0
  <2>1. PICK c \in Cards : p = CardList(c) /\ chip.selected \in {None, c} /\ seen[c] = 0
    BY <1>3
  <2>2. ParseTargets(p) = Target(ISO_A_TARGET_SLOT, c)
    BY <2>1, CardListIsRead
  <2> QED BY <1>3, <2>1, <2>2
<1> QED BY <1>1, <1>2, <1>3 DEF PayloadFits, RfStages

LEMMA ListStep ==
    ASSUME ReaderInv, NEW p, Answers(p), call.stage = "list", Listed(p), FieldInv'
    PROVE  ReaderInv'
<1> DEFINE t == ParseTargets(p)
<1>0. /\ call # None
      /\ UNCHANGED <<chip, card_in_field, out_of_step, seen>>
      /\ call.quiet => line' = << >> /\ chip.pending = None
      /\ UNCHANGED <<last_poll, rf_field_enabled>>
      /\ poll_failed' = (t.tag = "Err")
      /\ last_poll \in 0..LongAgo /\ rf_field_enabled
      /\ call.op \in {"poll_card", "exchange_apdu"}
  <2>1. call # None
    BY DEF Answers
  <2>2. call.op \in {"poll_card", "exchange_apdu"}
    BY <2>1, StageOps DEF ReaderInv, CallInv, StagesOf
  <2>3. rf_field_enabled
    BY <2>1 DEF ReaderInv, FieldInv, StageFits
  <2> QED BY <2>1, <2>2, <2>3 DEF Answers, Listed, ReaderInv, WorldInv
<1>1. call.quiet =>
        \/ /\ t = NoTarget /\ seen[None] = 0 /\ chip.rf /\ chip.selected = None
        \/ \E c \in Cards : /\ t = Target(ISO_A_TARGET_SLOT, c) /\ seen[c] = 0 /\ chip.rf
                            /\ chip.selected \in {None, c}
  BY ListSays
<1>2. ~out_of_step => call.quiet
  BY <1>0, InStepCall
<1>3. \/ /\ t.tag = "None" /\ active_target' = None /\ cached_card' = None
         /\ Proceed("rf_off_absent")
      \/ /\ t.tag = "Err" /\ Finish(Err) /\ UNCHANGED <<active_target, cached_card>>
      \/ /\ t.tag = "Some" /\ active_target' = t.target /\ cached_card' = t.card
         /\ IF call.op = "exchange_apdu" THEN Proceed("data") ELSE Finish(Ok(t.card))
  BY DEF Listed, FoundCard
<1> HIDE DEF t
<1>4. /\ NoTarget.tag = "None"
      /\ \A c : LET s == Target(ISO_A_TARGET_SLOT, c)
                IN  s.tag = "Some" /\ s.card = c /\ s.target \in Byte /\ s.target # None
  BY ReaderAssumption DEF NoTarget, Target, ISO_A_TARGET_SLOT, Byte
<1>5. CASE t.tag = "None"
  <2>1. active_target' = None /\ cached_card' = None /\ Proceed("rf_off_absent")
    BY <1>3, <1>5
  <2>2. call.quiet => seen[None] = 0 /\ chip.rf
    BY <1>1, <1>4, <1>5
  <2>3. seen[None] = 0
    BY <1>2, <2>2 DEF ReaderInv, WorldInv
  <2>4. WorldInv'
    BY <1>0, <2>3, WorldStays
  <2>5. "rf_off_absent" \in StagesOf(call.op) /\ "rf_off_absent" # "data"
    BY <1>0 DEF StagesOf
  <2>6. ~out_of_step => Known' /\ CacheHolds'
    BY <1>0, <1>2, <2>1, <2>2, <2>3 DEF Known, CacheHolds
  <2> QED BY <1>0, <2>1, <2>4, <2>5, <2>6, GoesOn
<1>6. CASE t.tag = "Err"
  <2>1. Finish(Err) /\ call' = None
    BY <1>3, <1>6 DEF Finish, Return
  <2>2. out_of_step /\ ~call.quiet
    BY <1>1, <1>2, <1>4, <1>6
  <2>3. WorldInv'
    BY <1>0, <2>1, WorldStays
  <2>4. Err.tag # "Ok"
    BY DEF Err
  <2> QED BY <1>0, <2>1, <2>2, <2>3, <2>4, Ends
<1>7. CASE t.tag = "Some"
  <2>0. ~poll_failed'
    BY <1>0, <1>7
  <2>1. active_target' = t.target /\ cached_card' = t.card
    BY <1>3, <1>7
  <2>2. call.quiet => /\ t.card \in Cards /\ t.target \in Byte /\ t.target # None
                      /\ seen[t.card] = 0 /\ chip.rf /\ chip.selected \in {None, t.card}
    BY <1>1, <1>4, <1>7
  <2>3. ~out_of_step => Known' /\ CacheHolds'
    BY <1>0, <1>2, <2>1, <2>2 DEF Known, CacheHolds
  <2>4. CASE call.op = "exchange_apdu"
    <3>1. Proceed("data") /\ call'.stage = "data" /\ "data" # "rf_off_absent"
      BY <1>3, <1>7, <2>4 DEF Proceed, Issue
    <3>2. WorldInv'
      BY <1>0, <3>1, WorldStays
    <3>3. "data" \in StagesOf(call.op)
      BY <2>4 DEF StagesOf
    <3>4. ~out_of_step => active_target' # None
      BY <1>2, <2>1, <2>2
    <3> QED BY <1>0, <2>3, <3>1, <3>2, <3>3, <3>4, GoesOn
  <2>5. CASE call.op = "poll_card"
    <3>1. Finish(Ok(t.card)) /\ call' = None
      BY <1>3, <1>7, <2>5 DEF Finish, Return
    <3>2. WorldInv'
      BY <1>0, <3>1, WorldStays
    <3>3. ~out_of_step => Ok(t.card) \in ResultsOf(call.op)
      BY <1>2, <2>2, <2>5 DEF ResultsOf, PollResults
    <3>4. Ok(t.card).val = t.card
      BY DEF Ok
    <3>5. ~out_of_step => seen[Ok(t.card).val] = 0
      BY <1>2, <2>2, <3>4
    <3> QED BY <1>0, <2>3, <2>5, <3>1, <3>2, <3>3, <3>5, Ends
  <2> QED BY <1>0, <2>4, <2>5
<1> QED BY <1>3, <1>5, <1>6, <1>7


LEMMA DataStep ==
    ASSUME ReaderInv, NEW p, Answers(p), call.stage = "data", Exchanged(p), FieldInv'
    PROVE  ReaderInv'
<1>0. /\ call # None /\ call.op = "exchange_apdu" /\ call.apdu \in Apdus
      /\ UNCHANGED <<chip, card_in_field, out_of_step, seen, poll_failed>>
      /\ call.quiet => line' = << >> /\ chip.pending = None /\ PayloadFits(p)
      /\ last_poll \in 0..LongAgo
  <2>1. call # None
    BY DEF Answers
  <2> QED BY <2>1, StageOps DEF Answers, Exchanged, ReaderInv, WorldInv
<1>1. call.quiet =>
        \/ p = <<1>>
        \/ \E c \in Cards : /\ p = <<0>> \o CardAnswer(c, call.apdu)
                            /\ ~out_of_step => c = cached_card
  BY <1>0 DEF PayloadFits, RfStages
<1>2. ~out_of_step => /\ call.quiet /\ InStep
                      /\ chip.rf <=> rf_field_enabled
                      /\ active_target \in Byte \cup {None}
                      /\ cached_card \in Cards \cup {None}
                      /\ active_target # None =>
                           cached_card \in Cards /\ chip.selected \in {None, cached_card}
  <2> SUFFICES ASSUME ~out_of_step
               PROVE  /\ call.quiet /\ InStep
                      /\ chip.rf <=> rf_field_enabled
                      /\ active_target \in Byte \cup {None}
                      /\ cached_card \in Cards \cup {None}
                      /\ active_target # None =>
                           cached_card \in Cards /\ chip.selected \in {None, cached_card}
    OBVIOUS
  <2>1. call.quiet /\ InStep
    BY <1>0, InStepCall
  <2>2. active_target \in Byte \cup {None} /\ cached_card \in Cards \cup {None}
    BY <2>1, Zenon DEF InStep, Pn532TypeOK
  <2> QED BY <2>1, <2>2 DEF InStep, FieldKnown, TargetKnown, RfStages
<1>3. ASSUME UNCHANGED readerVars
      PROVE  ~out_of_step => Known' /\ CacheHolds'
  <2>1. UNCHANGED <<active_target, cached_card, last_poll, rf_field_enabled>>
    BY <1>3 DEF readerVars
  <2>2. ~out_of_step => CacheHolds
    BY <1>0, <1>2 DEF InStep, CacheRecent, CacheHolds
  <2> QED BY <1>0, <1>2, <2>1, <2>2 DEF Known, CacheHolds
<1>4. CASE p = << >> /\ Finish(Err) /\ UNCHANGED readerVars
  <2>1. call' = None /\ last_poll' = last_poll
    BY <1>4 DEF Finish, Return, readerVars
  <2>2. WorldInv'
    BY <1>0, <2>1, WorldStays
  <2>3. Err.tag # "Ok" /\ Err \in ResultsOf("exchange_apdu")
    BY DEF Err, ResultsOf, ExchangeResults
  <2> QED BY <1>0, <1>3, <1>4, <2>2, <2>3, Ends
<1>5. CASE /\ p # << >> /\ exchange_status_keeps_target_active(p[1])
           /\ Finish(Ok(Tail(p))) /\ UNCHANGED readerVars
  <2>1. call' = None /\ last_poll' = last_poll /\ cached_card' = cached_card
    BY <1>5 DEF Finish, Return, readerVars
  <2>2. WorldInv'
    BY <1>0, <2>1, WorldStays
  <2>3. call.quiet => \E c \in Cards : /\ Tail(p) = CardAnswer(c, call.apdu)
                                       /\ ~out_of_step => c = cached_card
    <3>1. p[1] = 0
      BY <1>5 DEF exchange_status_keeps_target_active
    <3>2. p # <<1>>
      BY <3>1, ShortPayloads
    <3> QED BY <1>0, <1>1, <3>2, AnswerShape
  <2>4. ~out_of_step => Ok(Tail(p)) \in ResultsOf("exchange_apdu")
    <3>1. \A c \in Cards : CardAnswer(c, call.apdu) \in ApduResponses
      BY <1>0, Pn532Assumption
    <3> QED BY <1>2, <2>3, <3>1 DEF ResultsOf, ExchangeResults
  <2>5. Ok(Tail(p)).val = Tail(p)
    BY DEF Ok
  <2> QED BY <1>0, <1>3, <1>5, <2>1, <2>2, <2>3, <2>4, <2>5, Ends
<1>6. CASE deactivate_target
  <2>1. /\ active_target' = None /\ cached_card' = None /\ last_poll' = LongAgo
        /\ UNCHANGED rf_field_enabled
    BY <1>6 DEF deactivate_target
  <2>2. ~out_of_step => Known' /\ CacheHolds'
    <3>1. seen[None] <= LongAgo
      BY DEF ReaderInv, WorldInv, LongAgo
    <3> QED BY <1>0, <1>2, <2>1, <3>1 DEF Known, CacheHolds
  <2>3. LongAgo \in 0..LongAgo
    BY DEF LongAgo
  <2>4. CASE rf_field_enabled
    <3>1. Proceed("rf_off_lost") /\ call'.stage = "rf_off_lost"
          /\ "rf_off_lost" # "rf_off_absent" /\ "rf_off_lost" # "data"
      BY <1>6, <2>4 DEF deactivate_target, Proceed, Issue
    <3>2. WorldInv'
      BY <2>1, <2>3, <3>1, WorldStays
    <3>3. "rf_off_lost" \in StagesOf(call.op)
      BY <1>0 DEF StagesOf
    <3> QED BY <1>0, <2>2, <3>1, <3>2, <3>3, GoesOn
  <2>5. CASE ~rf_field_enabled
    <3>1. Finish(TargetLost) /\ call' = None
      BY <1>6, <2>5 DEF deactivate_target, Finish, Return
    <3>2. WorldInv'
      BY <2>1, <2>3, <3>1, WorldStays
    <3>3. TargetLost.tag # "Ok" /\ TargetLost \in ResultsOf("exchange_apdu")
      BY DEF TargetLost, ResultsOf, ExchangeResults
    <3> QED BY <1>0, <2>2, <3>1, <3>2, <3>3, Ends
  <2> QED BY <2>4, <2>5
<1> QED BY <1>4, <1>5, <1>6 DEF Exchanged

LEMMA ResponseStep ==
    ASSUME ReaderInv, ReceiveResponse
    PROVE  ReaderInv'
<1> DEFINE p == Received.val
<1>0. /\ call # None /\ call.phase = "resp" /\ ~Starved
      /\ line' = SubSeq(line, Received.used + 1, Len(line))
      /\ UNCHANGED <<chip, card_in_field>>
  BY DEF ReceiveResponse
<1>1. FieldInv'
  BY ReaderKeepsField DEF ReaderInv, ReaderStep
<1>2. call.stage \in Stages
  BY <1>0, StageOps DEF ReaderInv
<1>3. CASE Received.tag # "Ok"
  BY <1>0, <1>3, LoseStep DEF ReceiveResponse
<1>4. CASE Received.tag = "Ok"
  <2>1. /\ UNCHANGED <<out_of_step, seen>>
        /\ \/ call.stage = "list" /\ Listed(p)
           \/ call.stage = "data" /\ Exchanged(p)
           \/ call.stage \in RfStages /\ RfConfigured
    BY <1>2, <1>4 DEF ReceiveResponse, Stages, RfStages
  <2>2. call.quiet => /\ p \in Payloads /\ PayloadFits(p)
                      /\ line' = << >> /\ chip.pending = None
    BY <1>0, <1>4, QuietAnswer
  <2>3. Answers(p)
    BY <1>0, <2>1, <2>2 DEF Answers
  <2> HIDE DEF p
  <2> QED BY <1>1, <2>1, <2>3, ListStep, DataStep, RfStep
<1> QED BY <1>3, <1>4

\* A step that changes nothing, or only forgets what was returned.
LEMMA StutterStep ==
    ASSUME ReaderInv, UNCHANGED <<readerVars, call, worldVars, historyVars>>,
           returned' \in {returned, None}
    PROVE  ReaderInv'
<1>0. UNCHANGED <<active_target, cached_card, last_poll, rf_field_enabled, call,
                  line, chip, card_in_field, out_of_step, poll_failed, seen>>
  BY DEF readerVars, worldVars, historyVars
<1>1. FieldInv' /\ CallInv' /\ WorldInv'
  BY <1>0 DEF ReaderInv, FieldInv, TargetNeedsField, StageFits, CallInv, WorldInv
<1>2. Cmd' = Cmd
  BY <1>0 DEF Cmd, CommandOf
<1>3. (Unanswered => Unanswered') /\ (Refused => Refused')
  BY <1>0, <1>2 DEF Unanswered, Refused, OnLine, Quiet
<1>4. Answered => Answered'
  BY <1>0, AnsweredStays
<1>5. LineInv'
  BY <1>0, <1>3, <1>4 DEF ReaderInv, LineInv
<1>6. ~out_of_step => InStep'
  <2> SUFFICES ASSUME ~out_of_step PROVE InStep'
    OBVIOUS
  <2>1. InStep
    BY DEF ReaderInv, StepInv
  <2>2. Pn532TypeOK'
    BY <1>0, <2>1, Zenon DEF InStep, Pn532TypeOK
  <2> QED BY <1>0, <1>4, <2>1, <2>2 DEF InStep, FieldKnown, TargetKnown, CacheRecent, Quiet
<1>7. ReturnInv'
  BY <1>0 DEF ReaderInv, ReturnInv, QuietLineOwnAnswer, AnsweredByCachedCard,
     PresenceIsRecent, ReportIsRecent, FieldFlagIsTrue
<1> QED BY <1>0, <1>1, <1>5, <1>6, <1>7 DEF ReaderInv, StepInv

-----------------------------------------------------------------------------

LEMMA ReaderInvSteps ==
    ASSUME ReaderInv, [Pn532Next]_pn532Vars
    PROVE  ReaderInv'
<1>1. CASE poll_card \/ power_off \/ \E apdu \in Apdus : exchange_apdu(apdu)
  BY <1>1, CallSteps
<1>2. CASE ReaderStep
  BY <1>2, SendStep, SendFailsStep, TimesOutStep, AckReadStep, ResponseStep DEF ReaderStep
<1>3. CASE WorldStep
  BY <1>3, WorldSteps
<1>4. CASE UNCHANGED pn532Vars
  BY <1>4, StutterStep DEF pn532Vars
<1> QED BY <1>1, <1>2, <1>3, <1>4 DEF Pn532Next

\* ReaderInv is an inductive invariant of the reader, the chip and the cards.
THEOREM ReaderInvariant == Pn532Spec => []ReaderInv
<1>1. ReaderInv /\ [Pn532Next]_pn532Vars => ReaderInv'
  BY ReaderInvSteps
<1> QED BY InitInv, <1>1, PTL DEF Pn532Spec

\* Until a wait times out or the chip refuses a command, process and
\* receive_dynamic_response_from take from the serial line every byte of every
\* answer and no other: between calls the line is quiet, for any cards, any APDUs
\* and any sequence of calls.
THEOREM LineStaysInStep == Pn532Spec => []LineInStep
<1>1. ReaderInv => LineInStep
  BY DEF ReaderInv, StepInv, InStep, LineInStep
<1> QED BY <1>1, ReaderInvariant, PTL

\* A call that starts on a quiet line answers its own request, whatever timeouts
\* there were before it (exchange_apdu with process_dynamic_response).
THEOREM QuietCallsGetOwnAnswer == Pn532Spec => []QuietLineOwnAnswer
<1>1. ReaderInv => QuietLineOwnAnswer
  BY DEF ReaderInv, ReturnInv
<1> QED BY <1>1, ReaderInvariant, PTL

\* In step, an APDU is answered by the card in the reader's cache (cached_card),
\* although cards come and go between the commands of a call.
THEOREM CachedCardAnswers == Pn532Spec => []AnsweredByCachedCard
<1>1. ReaderInv => AnsweredByCachedCard
  BY DEF ReaderInv, ReturnInv
<1> QED BY <1>1, ReaderInvariant, PTL

\* In step and after a poll that did not fail, poll_card reports a card that was
\* there within the last interval, or an absence within the last two
\* (can_return_cached_presence).
THEOREM ReportedPresenceIsRecent == Pn532Spec => []PresenceIsRecent
<1>1. ReaderInv => PresenceIsRecent
  BY DEF ReaderInv, ReturnInv
<1> QED BY <1>1, ReaderInvariant, PTL

\* In step, rf_field_enabled is the state of the chip's field between calls, and a
\* power_off that succeeds has reset the card (set_rf_field).
THEOREM FieldFlagStaysTrue == Pn532Spec => []FieldFlagIsTrue
<1>1. ReaderInv => FieldFlagIsTrue
  BY DEF ReaderInv, ReturnInv
<1> QED BY <1>1, ReaderInvariant, PTL

\* In step the reader's fields keep their types and every call keeps to the
\* contract of the NfcReader trait.  Out of step nothing of the kind holds for all
\* cards: the bytes of one card's answer, read at a wrong place, may form a
\* frame that lists a card that does not exist.
THEOREM InStepTypes == Pn532Spec => [](~out_of_step => Pn532TypeOK)
<1>1. ReaderInv => (~out_of_step => Pn532TypeOK)
  BY DEF ReaderInv, StepInv, InStep
<1> QED BY <1>1, ReaderInvariant, PTL

-----------------------------------------------------------------------------
(* A call comes to its end *)

\* A call either ends or goes on: with the next phase of its command, or with a
\* command of which fewer can follow.
Nearer ==
    \/ call' = None
    \/ /\ call'.stage = call.stage
       /\ \/ call.phase = "send" /\ call'.phase = "ack"
          \/ call.phase = "ack" /\ call'.phase = "resp"
    \/ /\ call'.stage \in Stages /\ call'.phase = "send"
       /\ CommandsLeft(call'.stage) < CommandsLeft(call.stage)

LEMMA NearerIsLess ==
    ASSUME call \in CallRecord, Nearer, call' # None
    PROVE  StepsLeft(call') < StepsLeft(call)
<1>1. /\ call.stage \in Stages
      /\ call.phase \in {"send", "ack", "resp"}
  BY DEF CallRecord
<1>2. \A stage \in Stages : CommandsLeft(stage) \in 1..4
  BY DEF CommandsLeft
<1>3. CASE /\ call'.stage = call.stage
           /\ \/ call.phase = "send" /\ call'.phase = "ack"
              \/ call.phase = "ack" /\ call'.phase = "resp"
  <2>1. CommandsLeft(call'.stage) = CommandsLeft(call.stage)
    BY <1>3
  <2>2. CommandsLeft(call.stage) \in Int
    BY <1>1, <1>2
  <2> QED BY ONLY <1>3, <2>1, <2>2 DEF StepsLeft
<1>4. CASE /\ call'.stage \in Stages /\ call'.phase = "send"
           /\ CommandsLeft(call'.stage) < CommandsLeft(call.stage)
  <2>0. CommandsLeft(call'.stage) \in 1..4 /\ CommandsLeft(call.stage) \in 1..4
    BY <1>1, <1>2, <1>4
  <2>1. StepsLeft(call') = 3 * CommandsLeft(call'.stage)
    BY <1>4, <2>0 DEF StepsLeft
  <2>2. StepsLeft(call) \in Int /\ StepsLeft(call) >= 3 * CommandsLeft(call.stage) - 2
    BY <1>1, <2>0 DEF StepsLeft
  <2> QED BY ONLY <1>4, <2>0, <2>1, <2>2, SMT
<1> QED BY <1>3, <1>4 DEF Nearer

\* What follows the answer to each command (set_rf_field, poll_card,
\* exchange_apdu, deactivate_target).
LEMMA AnswersComeNearer ==
    ASSUME NEW STATE response,
           \/ call.stage = "list" /\ Listed(response)
           \/ call.stage = "data" /\ Exchanged(response)
           \/ call.stage \in RfStages /\ RfConfigured
    PROVE  Nearer
<1>1. CASE call.stage = "list" /\ Listed(response)
  <2>1. \/ call' = None
        \/ call'.stage \in {"rf_off_absent", "data"} /\ call'.phase = "send"
    BY <1>1 DEF Listed, Proceed, Finish, Issue, Return
  <2> QED BY <1>1, <2>1 DEF Nearer, Stages, RfStages, CommandsLeft
<1>2. CASE call.stage = "data" /\ Exchanged(response)
  <2>1. \/ call' = None
        \/ call'.stage = "rf_off_lost" /\ call'.phase = "send"
    BY <1>2 DEF Exchanged, deactivate_target, Proceed, Finish, Issue, Return
  <2> QED BY <1>2, <2>1 DEF Nearer, Stages, RfStages, CommandsLeft
<1>3. CASE call.stage \in RfStages /\ RfConfigured
  <2>1. \/ call' = None
        \/ call.stage = "rf_on" /\ call'.stage = "list" /\ call'.phase = "send"
    BY <1>3 DEF RfConfigured, Proceed, Finish, Issue, Return
  <2> QED BY <1>3, <2>1 DEF Nearer, Stages, RfStages, CommandsLeft
<1> QED BY <1>1, <1>2, <1>3

LEMMA ReaderComesNearer ==
    ASSUME call \in CallRecord, ReaderStep
    PROVE  Nearer
<1>1. CASE Send
  BY <1>1 DEF Send, Nearer, CallRecord
<1>2. CASE SendFails \/ TimesOut
  BY <1>2 DEF SendFails, TimesOut, Fail, Finish, Return, Nearer
<1>3. CASE ReceiveAck
  BY <1>3 DEF ReceiveAck, Fail, Finish, Return, Nearer, CallRecord
<1>4. CASE ReceiveResponse
  <2>1. CASE Fail
    BY <2>1 DEF Fail, Finish, Return, Nearer
  <2>2. CASE ~Fail
    <3>1. call.stage \in Stages
      BY DEF CallRecord
    <3>2. \/ call.stage = "list" /\ Listed(Received.val)
          \/ call.stage = "data" /\ Exchanged(Received.val)
          \/ call.stage \in RfStages /\ RfConfigured
      BY <1>4, <2>2, <3>1 DEF ReceiveResponse, Stages, RfStages
    <3> QED BY <3>2, AnswersComeNearer
  <2> QED BY <2>1, <2>2
<1> QED BY <1>1, <1>2, <1>3, <1>4 DEF ReaderStep

\* Whatever the chip sends, a call never polls or exchanges a second time: every
\* step of it brings it nearer its end, four commands away at most
\* (poll_card, exchange_apdu, deactivate_target, process_dynamic_response).
THEOREM CallsAdvance == Pn532Spec => CallAdvances
<1>1. ASSUME ReaderInv, [Pn532Next]_pn532Vars,
             call # None, call' # call, call' # None
      PROVE  StepsLeft(call') < StepsLeft(call)
  <2>1. call \in CallRecord
    BY <1>1 DEF ReaderInv, CallInv
  <2>2. ReaderStep
    <3>1. ~(poll_card \/ power_off \/ \E apdu \in Apdus : exchange_apdu(apdu))
      BY <1>1 DEF poll_card, power_off, exchange_apdu, MayCall
    <3>2. ~WorldStep
      BY <1>1 DEF WorldStep, ChipAck, ChipAnswer, ChipRefuses, ChipDrops, NewsFromChip,
         PlaceCard, RemoveCard, Tick
    <3> QED BY <1>1, <3>1, <3>2 DEF Pn532Next, pn532Vars
  <2> QED BY <1>1, <2>1, <2>2, ReaderComesNearer, NearerIsLess
<1>2. ReaderInv /\ [Pn532Next]_pn532Vars
        => [call # None /\ call' # call /\ call' # None
              => StepsLeft(call') < StepsLeft(call)]_pn532Vars
  BY <1>1
<1> QED BY <1>2, ReaderInvariant, PTL DEF Pn532Spec, CallAdvances

-----------------------------------------------------------------------------
(* Out of step *)

\* Whatever receive_dynamic_response_from reads are bytes, and not more than
\* there are.
LEMMA ParsedType ==
    ASSUME NEW in \in Seq(u8), NEW code, ReceiveDynamicResponse(in, code).tag # "Short"
    PROVE  LET R == ReceiveDynamicResponse(in, code)
           IN  /\ R.used \in Nat /\ R.used <= Len(in)
               /\ R.tag = "Ok" => R.val \in Seq(u8)
<1> DEFINE R         == ReceiveDynamicResponse(in, code)
           extended  == IsExtended(in)
           header    == IF extended THEN 8 ELSE 5
           frame_len == IF extended THEN 256 * in[6] + in[7] ELSE in[4]
           total     == header + BodyLen(frame_len)
           frame     == SubSeq(in, header + 1, total)
           val       == SubSeq(frame, 3, frame_len)
           short     == Parsed("Short", << >>, 0)
<1>1. \/ R = short
      \/ Len(in) >= 5 /\ R = Parsed("BadResponseFrame", << >>, 5)
      \/ /\ ~(Len(in) < header)
         /\ R \in {Parsed(tag, << >>, header) : tag \in {"CrcError", "BadResponseFrame", "Syntax"}}
      \/ /\ ~(Len(in) < header) /\ ~(Len(in) < total)
         /\ R \in {Parsed(tag, << >>, total) : tag \in {"CrcError", "BadResponseFrame"}}
      \/ /\ ~(Len(in) < header) /\ ~(Len(in) < total)
         /\ R = Parsed("Ok", val, total)
  <2>1. Len(in) \in Nat
    OBVIOUS
  <2>2. Len(in) >= 5 <=> ~(Len(in) < 5)
    BY <2>1
  <2> DEFINE bad == Last(frame) # POSTAMBLE \/ frame[1] # PN532_TO_HOST \/ frame[2] # code
             crc == ChecksumOk(Front(frame))
             hdr == WrappingSum(SubSeq(in, IF extended THEN 6 ELSE 4, header))
             pre == SubSeq(in, 1, 3)
  <2>3. R = IF Len(in) < 5 THEN short
            ELSE IF pre # PREAMBLE THEN Parsed("BadResponseFrame", << >>, 5)
            ELSE IF Len(in) < header THEN short
            ELSE IF hdr # 0 THEN Parsed("CrcError", << >>, header)
            ELSE IF frame_len = 0 THEN Parsed("BadResponseFrame", << >>, header)
            ELSE IF frame_len = 1 THEN Parsed("Syntax", << >>, header)
            ELSE IF Len(in) < total THEN short
            ELSE IF bad THEN Parsed("BadResponseFrame", << >>, total)
            ELSE IF ~crc THEN Parsed("CrcError", << >>, total)
            ELSE Parsed("Ok", val, total)
    BY Zenon DEF ReceiveDynamicResponse
  <2> HIDE DEF R, header, frame_len, total, val, short, bad, crc, hdr, pre
  <2> QED BY <2>2, <2>3, Zenon
<1>2. R.tag # "Short" /\ short.tag = "Short"
  BY DEF Parsed
<1>3. Len(in) \in Nat /\ header \in Nat /\ header >= 5
  OBVIOUS
<1>4. ~(Len(in) < header) => total \in Nat
  <2> SUFFICES ASSUME ~(Len(in) < header) PROVE total \in Nat
    OBVIOUS
  <2>1. CASE extended
    <3>1. header = 8 /\ frame_len = 256 * in[6] + in[7] /\ Len(in) >= 8
      BY <1>3, <2>1
    <3>2. in[6] \in u8 /\ in[7] \in u8
      BY <3>1
    <3>3. in[6] \in Nat /\ in[7] \in Nat
      BY <3>2, U8IsNat
    <3>4. frame_len \in Nat
      BY <3>1, <3>3
    <3> HIDE DEF frame_len, header
    <3> QED BY <3>1, <3>4 DEF BodyLen
  <2>2. CASE ~extended
    <3>1. header = 5 /\ frame_len = in[4] /\ Len(in) >= 5
      BY <1>3, <2>2
    <3>2. in[4] \in u8
      BY <3>1
    <3>3. frame_len \in Nat
      BY <3>1, <3>2, U8IsNat
    <3> HIDE DEF frame_len, header
    <3> QED BY <3>1, <3>3 DEF BodyLen
  <2> QED BY <2>1, <2>2
<1>5. ~(Len(in) < header) /\ ~(Len(in) < total) => val \in Seq(u8)
  <2> SUFFICES ASSUME ~(Len(in) < header), ~(Len(in) < total) PROVE val \in Seq(u8)
    OBVIOUS
  <2>1. total \in Nat /\ total <= Len(in) /\ header + 1 \in Nat /\ header + 1 >= 1
    BY <1>3, <1>4
  <2>2. total = header + frame_len + 2 /\ frame_len \in Nat
    <3>1. frame_len \in Nat
      <4>1. CASE extended
        <5>1. in[6] \in u8 /\ in[7] \in u8
          BY <1>3, <4>1
        <5>2. in[6] \in Nat /\ in[7] \in Nat
          BY <5>1, U8IsNat
        <5> QED BY <4>1, <5>2
      <4>2. CASE ~extended
        <5>1. in[4] \in u8
          BY <1>3, <4>2
        <5> QED BY <4>2, <5>1, U8IsNat
      <4> QED BY <4>1, <4>2
    <3> HIDE DEF frame_len, header
    <3> QED BY <1>3, <3>1 DEF BodyLen
  <2> HIDE DEF total, header, frame_len
  <2>3. frame \in Seq(u8)
        /\ Len(frame) = IF header + 1 <= total THEN total - (header + 1) + 1 ELSE 0
    BY <2>1, Slice
  <2>4. frame_len <= Len(frame)
    BY <1>3, <2>2, <2>3
  <2>5. 3 \in Nat /\ 3 >= 1
    OBVIOUS
  <2> HIDE DEF frame
  <2> QED BY <2>2, <2>3, <2>4, <2>5, Slice
<1> HIDE DEF R, header, total, val, short
<1>6. \/ R.used = 5 /\ Len(in) >= 5 /\ R.tag # "Ok"
      \/ R.used = header /\ ~(Len(in) < header) /\ R.tag # "Ok"
      \/ R.used = total /\ ~(Len(in) < header) /\ ~(Len(in) < total) /\ R.tag # "Ok"
      \/ R.used = total /\ ~(Len(in) < header) /\ ~(Len(in) < total) /\ R.val = val
  BY <1>1, <1>2 DEF Parsed
<1>7. R.used \in Nat /\ R.used <= Len(in) /\ (R.tag = "Ok" => R.val \in Seq(u8))
  BY <1>3, <1>4, <1>5, <1>6
<1> QED BY <1>7 DEF R


LEMMA ReceivedType ==
    ASSUME line \in Seq(u8), call.stage \in Stages, Received.tag # "Short"
    PROVE  /\ SubSeq(line, Received.used + 1, Len(line)) \in Seq(u8)
           /\ Received.tag = "Ok" => Received.val \in Seq(u8)
<1>1. /\ Received.used \in Nat /\ Received.used <= Len(line)
      /\ Received.tag = "Ok" => Received.val \in Seq(u8)
  <2>1. CASE call.stage \in RfStages
    <3>1. ~(Len(line) < 9) /\ Received.used = 9 /\ Received.val = << >>
      BY <2>1 DEF Received, Parsed
    <3> QED BY <3>1
  <2>2. CASE call.stage \notin RfStages
    <3>1. Received = ReceiveDynamicResponse(line, CommandOf(call.stage, call.apdu).code + 1)
      BY <2>2 DEF Received
    <3> QED BY <3>1, ParsedType
  <2> QED BY <2>1, <2>2
<1>2. Received.used + 1 \in Nat /\ Received.used + 1 >= 1 /\ Len(line) \in Nat
      /\ Len(line) <= Len(line)
  BY <1>1
<1>3. SubSeq(line, Received.used + 1, Len(line)) \in Seq(u8)
  BY <1>2, Slice
<1> QED BY <1>1, <1>3

\* A target found is one byte.
LEMMA TargetType ==
    ASSUME NEW p \in Seq(u8), ParseTargets(p).tag = "Some"
    PROVE  ParseTargets(p).target \in u8
<1>1. Len(p) \in Nat
  OBVIOUS
<1>2. ~(Len(p) < 6) /\ ParseTargets(p).target = p[2]
  BY DEF ParseTargets, NoTarget, BadTarget, Target
<1>3. 2 \in 1..Len(p)
  BY <1>1, <1>2
<1> QED BY <1>2, <1>3

\* Every card the chip's formats can describe.
AllCards ==
    {c \in [uid : Seq(Byte), historical_bytes : Seq(Byte)] :
        {Len(c.uid), 2 + Len(c.historical_bytes)} \subseteq Byte}

LEMMA BytesBelow ==
    ASSUME NEW m \in u8
    PROVE  m \in Nat /\ \A n \in Nat : n <= m => n \in u8
BY DEF u8

\* The historical bytes of an ATS are at least two bytes shorter than its
\* one-byte length says.
LEMMA HistoricalType ==
    ASSUME NEW ats \in Seq(u8), ats_historical_bytes(ats).tag = "Ok"
    PROVE  LET hist == ats_historical_bytes(ats).val
           IN  hist \in Seq(u8) /\ 2 + Len(hist) \in u8
<1> DEFINE hist == ats_historical_bytes(ats).val
           bits == {bit \in AtsBits : (ats[2] \div bit) % 2 = 1}
           start == HistoricalStart(ats)
<1>1. Len(ats) \in Nat /\ ~(Len(ats) < 2) /\ ats[1] = Len(ats) /\ ~(start > Len(ats))
      /\ hist = SubSeq(ats, start + 1, Len(ats))
  <2> DEFINE bad == Len(ats) < 2 \/ ats[1] # Len(ats) \/ start > Len(ats)
  <2>1. ats_historical_bytes(ats) =
          IF bad THEN Parsed("Err", << >>, 0)
          ELSE Parsed("Ok", SubSeq(ats, start + 1, Len(ats)), Len(ats))
    BY DEF ats_historical_bytes
  <2> HIDE DEF bad
  <2>2. ~bad
    BY <2>1 DEF Parsed
  <2>3. hist = SubSeq(ats, start + 1, Len(ats))
    <3>1. ats_historical_bytes(ats) = Parsed("Ok", SubSeq(ats, start + 1, Len(ats)), Len(ats))
      BY <2>1, <2>2
    <3>2. ASSUME NEW s, NEW n, NEW x, x = Parsed("Ok", s, n) PROVE x.val = s
      BY <3>2 DEF Parsed
    <3> QED BY <3>1, <3>2, Zenon
  <2> QED BY <2>2, <2>3 DEF bad
<1>2. start = 2 + Cardinality(bits)
  BY DEF HistoricalStart, SetBits, Quantify, AtsBits
<1>3. bits \in SUBSET AtsBits
  OBVIOUS
<1> HIDE DEF bits, start, hist
<1>4. Cardinality(bits) \in Nat
  BY <1>3, FewBits
<1>5. Len(ats) \in u8
  <2>1. 1 \in 1..Len(ats)
    BY <1>1
  <2> QED BY <1>1, <2>1
<1>6. start + 1 \in Nat /\ start + 1 >= 1 /\ Len(ats) <= Len(ats)
  BY <1>1, <1>2, <1>4
<1>7. hist \in Seq(u8)
      /\ Len(hist) = IF start + 1 <= Len(ats) THEN Len(ats) - (start + 1) + 1 ELSE 0
  BY <1>1, <1>6, Slice
<1>8. 2 + Len(hist) \in Nat /\ 2 + Len(hist) <= Len(ats)
  BY <1>1, <1>2, <1>4, <1>7, SMTT(60)
<1>9. 2 + Len(hist) \in u8
  BY <1>5, <1>8, BytesBelow
<1> QED BY <1>7, <1>9 DEF hist

\* Whatever bytes poll_card reads, the card it makes of them is one the formats
\* can describe.
LEMMA CardType ==
    ASSUME NEW p \in Seq(u8), ParseTargets(p).tag = "Some"
    PROVE  ParseTargets(p).card \in AllCards
<1> DEFINE uid_end == 6 + p[6]
           ats_end == uid_end + p[uid_end + 1]
           uid     == SubSeq(p, 7, uid_end)
           raw     == SubSeq(p, uid_end + 1, ats_end)
           ats     == ats_historical_bytes(raw)
<1>1. /\ Len(p) \in Nat /\ ~(Len(p) < 6) /\ ~(Len(p) < uid_end)
      /\ \/ ParseTargets(p).card = CardPresence(uid, << >>)
         \/ /\ Len(p) # uid_end /\ ~(Len(p) < ats_end) /\ ats.tag = "Ok"
            /\ ParseTargets(p).card = CardPresence(uid, ats.val)
  BY DEF ParseTargets, NoTarget, BadTarget, Target
<1>2. p[6] \in u8 /\ p[6] \in Nat
  <2>1. 6 \in 1..Len(p)
    BY <1>1
  <2>2. p[6] \in u8
    BY <2>1
  <2> QED BY <2>2, BytesBelow
<1>3. uid \in Seq(u8) /\ Len(uid) \in u8
  <2>1. uid_end \in Nat /\ 7 \in Nat /\ uid_end <= Len(p)
    BY <1>1, <1>2
  <2>2. uid \in Seq(u8) /\ Len(uid) = IF 7 <= uid_end THEN uid_end - 7 + 1 ELSE 0
    BY <2>1, Slice
  <2>3. Len(uid) = p[6]
    BY <1>2, <2>2
  <2> QED BY <1>2, <2>2, <2>3
<1>4. ASSUME NEW hist \in Seq(u8), 2 + Len(hist) \in u8
      PROVE  CardPresence(uid, hist) \in AllCards
  <2>1. CardPresence(uid, hist).uid = uid /\ CardPresence(uid, hist).historical_bytes = hist
        /\ CardPresence(uid, hist) \in [uid : Seq(u8), historical_bytes : Seq(u8)]
    BY <1>3, <1>4 DEF CardPresence
  <2> QED BY <1>3, <1>4, <2>1, ByteIsU8 DEF AllCards
<1>5. CASE ParseTargets(p).card = CardPresence(uid, << >>)
  <2>1. << >> \in Seq(u8) /\ 2 + Len(<< >>) \in u8
    BY DEF u8
  <2> QED BY <1>4, <1>5, <2>1
<1>6. CASE /\ Len(p) # uid_end /\ ~(Len(p) < ats_end) /\ ats.tag = "Ok"
           /\ ParseTargets(p).card = CardPresence(uid, ats.val)
  <2>1. uid_end + 1 \in 1..Len(p)
    BY <1>1, <1>2, <1>6
  <2>2. p[uid_end + 1] \in u8 /\ p[uid_end + 1] \in Nat
    <3>1. \A i \in 1..Len(p) : p[i] \in u8
      OBVIOUS
    <3> QED BY <2>1, <3>1, BytesBelow
  <2>3. uid_end + 1 \in Nat /\ uid_end + 1 >= 1 /\ ats_end \in Nat /\ ats_end <= Len(p)
    BY <1>1, <1>2, <1>6, <2>2
  <2>4. raw \in Seq(u8)
    BY <2>3, Slice
  <2>5. ats.val \in Seq(u8) /\ 2 + Len(ats.val) \in u8
    BY <1>6, <2>4, HistoricalType
  <2> QED BY <1>4, <1>6, <2>5
<1> QED BY <1>1, <1>5, <1>6

\* No card and no answer that bytes can express is excluded.
Unrestricted == AllCards \subseteq Cards /\ Seq(Byte) \subseteq ApduResponses

\* The APDU of the command the chip works on, whichever call sent it.
PendingInv ==
    chip.pending # None /\ chip.pending.code = InDataExchange
      => Tail(chip.pending.data) \in Apdus

LEMMA PendingSteps ==
    ASSUME ReaderInv, PendingInv, [Pn532Next]_pn532Vars
    PROVE  PendingInv'
<1>1. CASE Send
  <2>1. chip'.pending = Cmd /\ call # None
    BY <1>1 DEF Send, Cmd
  <2>2. Cmd.code = InDataExchange => Tail(Cmd.data) \in Apdus
    <3> SUFFICES ASSUME Cmd.code = InDataExchange PROVE Tail(Cmd.data) \in Apdus
      OBVIOUS
    <3>1. call.stage \in Stages
      BY <2>1, StageOps DEF ReaderInv
    <3>2. call.stage = "data"
      BY <3>1, CommandCode, Codes DEF Cmd, Stages
    <3>3. call.apdu \in Apdus /\ call.apdu \in Seq(Byte)
      BY <2>1, <3>2, StageOps, Pn532Assumption DEF ReaderInv
    <3>4. Cmd.data = <<active_target>> \o call.apdu
      BY <3>2 DEF Cmd, CommandOf, RfStages
    <3> QED BY <3>3, <3>4, TailOfCommand
  <2> QED BY <2>1, <2>2 DEF PendingInv
<1>2. CASE ~Send
  <2>1. chip'.pending \in {chip.pending, None}
    <3>1. CASE poll_card \/ power_off \/ \E apdu \in Apdus : exchange_apdu(apdu)
      BY <3>1 DEF poll_card, power_off, exchange_apdu, worldVars
    <3>2. CASE ReaderStep
      BY <1>2, <3>2 DEF ReaderStep, SendFails, TimesOut, ReceiveAck, ReceiveResponse, worldVars
    <3>3. CASE WorldStep
      <4>1. CASE ChipAck
        <5>1. chip'.pending = chip.pending
          BY <4>1 DEF ChipAck
        <5> QED BY <5>1
      <4>2. CASE ChipAnswer \/ ChipRefuses \/ ChipDrops
        <5>1. ChipAnswer => chip'.pending = None
          BY DEF ChipAnswer
        <5>2. ChipRefuses => chip'.pending = None
          BY DEF ChipRefuses
        <5>3. ChipDrops => chip'.pending = None
          BY DEF ChipDrops
        <5> QED BY <4>2, <5>1, <5>2, <5>3
      <4>3. CASE RemoveCard
        <5>1. chip'.pending = chip.pending
          BY <4>3 DEF RemoveCard
        <5> QED BY <5>1
      <4>4. CASE Tick \/ \E c \in Cards : PlaceCard(c)
        BY <4>4 DEF PlaceCard, Tick, worldVars
      <4> QED BY <3>3, <4>1, <4>2, <4>3, <4>4 DEF WorldStep
    <3>4. CASE UNCHANGED pn532Vars
      BY <3>4 DEF pn532Vars, worldVars
    <3> QED BY <3>1, <3>2, <3>3, <3>4 DEF Pn532Next
  <2>2. CASE chip'.pending = chip.pending
    BY <2>2 DEF PendingInv
  <2>3. CASE chip'.pending = None
    BY <2>3 DEF PendingInv
  <2> QED BY <2>1, <2>2, <2>3
<1> QED BY <1>1, <1>2

\* Bytes only: what the chip puts on the line, and what is left of it.
LEMMA LineSteps ==
    ASSUME ReaderInv, PendingInv, line \in Seq(u8), [Pn532Next]_pn532Vars
    PROVE  line' \in Seq(u8)
<1>1. CASE poll_card \/ power_off \/ \E apdu \in Apdus : exchange_apdu(apdu)
  BY <1>1 DEF poll_card, power_off, exchange_apdu, worldVars
<1>2. CASE Send \/ SendFails \/ TimesOut
  <2>1. line' = line \/ line' = << >>
    BY <1>2 DEF Send, SendFails, TimesOut, worldVars
  <2>2. << >> \in Seq(u8)
    OBVIOUS
  <2> QED BY <2>1, <2>2
<1>3. CASE ReceiveAck
  <2>1. line' = SubSeq(line, Len(ACK) + 1, Len(line))
    BY <1>3 DEF ReceiveAck
  <2>2. Len(ACK) + 1 \in Nat /\ Len(ACK) + 1 >= 1 /\ Len(line) \in Nat /\ Len(line) <= Len(line)
    BY AckShape
  <2> QED BY <2>1, <2>2, Slice
<1>4. CASE ReceiveResponse
  <2>1. call # None /\ ~Starved /\ call.phase = "resp"
        /\ line' = SubSeq(line, Received.used + 1, Len(line))
    BY <1>4 DEF ReceiveResponse
  <2>2. Received.tag # "Short" /\ call.stage \in Stages
    BY <2>1, StageOps DEF Starved, ReaderInv
  <2> QED BY <2>1, <2>2, ReceivedType
<1>5. CASE ChipAck \/ ChipRefuses
  <2>1. line' = line \o ACK \/ line' = line \o ERROR_FRAME
    BY <1>5 DEF ChipAck, ChipRefuses
  <2> QED BY <2>1, AckShape, Joined
<1>6. CASE ChipAnswer
  <2>1. PICK r \in ChipResults(chip.pending) :
          line' = line \o EncodeFrame(chip.pending.code + 1, r.payload)
    BY <1>6 DEF ChipAnswer
  <2>2. /\ chip.pending # None
        /\ chip.pending.code \in {RFConfiguration, InListPassiveTarget, InDataExchange}
        /\ card_in_field \in Cards \cup {None} /\ chip.selected \in Cards \cup {None}
    BY <1>6 DEF ChipAnswer, ReaderInv, WorldInv
  <2>3. r.payload \in Payloads
    <3>1. CASE chip.pending.code = RFConfiguration
      BY <3>1, RfResult, ShortPayloads
    <3>2. CASE chip.pending.code = InListPassiveTarget
      <4>1. r.payload = <<0>> \/ \E c \in Cards : r.payload = CardList(c)
        BY <2>2, <3>2, ListResult
      <4> QED BY <4>1, CardListIsRead, ShortPayloads
    <3>3. CASE chip.pending.code = InDataExchange
      <4>1. Tail(chip.pending.data) \in Apdus
        BY <2>2, <3>3 DEF PendingInv
      <4>2. \/ r.payload = <<1>>
            \/ /\ chip.selected # None
               /\ r.payload = <<0>> \o CardAnswer(chip.selected, Tail(chip.pending.data))
        BY <3>3, DataResult
      <4> QED BY <2>2, <4>1, <4>2, AnswerShape, ShortPayloads
    <3> QED BY <2>2, <3>1, <3>2, <3>3
  <2>4. chip.pending.code + 1 \in u8
    <3>1. RFConfiguration + 1 \in u8 /\ InListPassiveTarget + 1 \in u8
          /\ InDataExchange + 1 \in u8
      BY DEF RFConfiguration, InListPassiveTarget, InDataExchange, u8
    <3> QED BY <2>2, <3>1
  <2>5. EncodeFrame(chip.pending.code + 1, r.payload) \in Seq(u8)
    BY <2>3, <2>4, FrameType DEF Payloads
  <2> QED BY <2>1, <2>5, Joined
<1>7. CASE ChipDrops \/ (\E c \in Cards : PlaceCard(c)) \/ RemoveCard \/ Tick
  BY <1>7 DEF ChipDrops, PlaceCard, RemoveCard, Tick, worldVars
<1>8. CASE UNCHANGED pn532Vars
  BY <1>8 DEF pn532Vars, worldVars
<1> QED BY <1>1, <1>2, <1>3, <1>4, <1>5, <1>6, <1>7, <1>8 DEF Pn532Next, ReaderStep, WorldStep


\* What a call finds and returns, from whatever bytes.
FieldsOk ==
    /\ active_target \in Byte \cup {None}
    /\ cached_card \in Cards \cup {None}
    /\ returned # None => returned.result \in ResultsOf(returned.op)

LEMMA StartTypes ==
    ASSUME FieldsOk, poll_card \/ power_off \/ \E apdu \in Apdus : exchange_apdu(apdu)
    PROVE  FieldsOk'
<1>1. active_target' \in Byte \cup {None} /\ cached_card' = cached_card
  BY DEF FieldsOk, poll_card, power_off, exchange_apdu, BeginPoll
<1>2. ASSUME NEW op \in {"poll_card", "exchange_apdu"}, NEW apdu, BeginPoll(op, apdu)
      PROVE  returned' = None \/ returned'.result \in ResultsOf(returned'.op)
  <2>1. CASE returned' = None
    BY <2>1
  <2>2. CASE returned' # None
    <3>1. Return(op, apdu, Quiet, IF op = "exchange_apdu" THEN TargetLost ELSE Ok(cached_card))
      BY <1>2, <2>2 DEF BeginPoll, Issue
    <3>2. returned'.op = op
          /\ returned'.result = IF op = "exchange_apdu" THEN TargetLost ELSE Ok(cached_card)
      BY <3>1 DEF Return
    <3> QED BY <3>2 DEF FieldsOk, ResultsOf, PollResults, ExchangeResults
  <2> QED BY <2>1, <2>2
<1>3. returned' = None \/ returned'.result \in ResultsOf(returned'.op)
  <2>1. CASE poll_card
    BY <1>2, <2>1 DEF poll_card
  <2>2. CASE power_off
    BY <2>2 DEF power_off, Issue, Return, ResultsOf, PowerOffResults
  <2>3. ASSUME NEW apdu \in Apdus, exchange_apdu(apdu)
        PROVE  returned' = None \/ returned'.result \in ResultsOf(returned'.op)
    <3>1. CASE BeginPoll("exchange_apdu", apdu)
      BY <1>2, <3>1
    <3>2. CASE Return("exchange_apdu", apdu, Quiet, Err)
      BY <3>2 DEF Return, ResultsOf, ExchangeResults
    <3>3. CASE Issue("exchange_apdu", apdu, Quiet, "data")
      BY <3>3 DEF Issue
    <3> QED BY <2>3, <3>1, <3>2, <3>3 DEF exchange_apdu
  <2> QED BY <2>1, <2>2, <2>3
<1> QED BY <1>1, <1>3 DEF FieldsOk

LEMMA FailTypes ==
    ASSUME FieldsOk, CallInv, call # None, Fail
    PROVE  FieldsOk'
<1>1. PICK r : Finish(r) /\ r \in ResultsOf(call.op)
  BY FailShape
<1>2. returned'.op = call.op /\ returned'.result = r
  BY <1>1 DEF Finish, Return
<1>3. UNCHANGED <<active_target, cached_card>>
  BY DEF Fail, readerVars
<1> QED BY <1>1, <1>2, <1>3 DEF FieldsOk

LEMMA AnswerTypes ==
    ASSUME Unrestricted, FieldsOk, ReaderInv, call # None, NEW p \in Seq(u8),
           \/ call.stage = "list" /\ Listed(p)
           \/ call.stage = "data" /\ Exchanged(p)
           \/ call.stage \in RfStages /\ RfConfigured
    PROVE  FieldsOk'
<1>0. /\ call.op \in {"poll_card", "power_off", "exchange_apdu"}
      /\ call.stage \in StagesOf(call.op)
      /\ call.stage = "rf_off" <=> call.op = "power_off"
      /\ call.stage \in {"data", "rf_off_lost"} => call.op = "exchange_apdu"
  BY StageOps DEF ReaderInv, CallInv
<1>1. ASSUME NEW stage, Proceed(stage) PROVE returned' = None
  BY <1>1 DEF Proceed, Issue
<1>2. ASSUME NEW r, Finish(r) PROVE returned'.op = call.op /\ returned'.result = r
  BY <1>2 DEF Finish, Return
<1>3. CASE call.stage = "list" /\ Listed(p)
  <2> DEFINE t == ParseTargets(p)
  <2>1. t.tag = "Some" => t.card \in Cards /\ t.target \in Byte
    BY TargetType, CardType, ByteIsU8 DEF Unrestricted
  <2>2. call.op \in {"poll_card", "exchange_apdu"}
    BY <1>0, <1>3
  <2>3. \/ /\ t.tag = "None" /\ active_target' = None /\ cached_card' = None
           /\ Proceed("rf_off_absent")
        \/ /\ t.tag = "Err" /\ Finish(Err) /\ UNCHANGED <<active_target, cached_card>>
        \/ /\ t.tag = "Some" /\ active_target' = t.target /\ cached_card' = t.card
           /\ IF call.op = "exchange_apdu" THEN Proceed("data") ELSE Finish(Ok(t.card))
    BY <1>3 DEF Listed, FoundCard
  <2> HIDE DEF t
  <2>4. /\ Err \in ResultsOf("poll_card") /\ Err \in ResultsOf("exchange_apdu")
        /\ \A c \in Cards : Ok(c) \in ResultsOf("poll_card")
    BY DEF ResultsOf, PollResults, ExchangeResults
  <2>5. active_target' \in Byte \cup {None} /\ cached_card' \in Cards \cup {None}
    BY <2>1, <2>3 DEF FieldsOk
  <2>6. returned' = None \/ returned'.result \in ResultsOf(returned'.op)
    BY <1>1, <1>2, <2>1, <2>2, <2>3, <2>4
  <2> QED BY <2>5, <2>6 DEF FieldsOk
<1>4. CASE call.stage = "data" /\ Exchanged(p)
  <2>1. call.op = "exchange_apdu"
    BY <1>0, <1>4
  <2>2. /\ active_target' \in {active_target, None}
        /\ cached_card' \in {cached_card, None}
    BY <1>4 DEF Exchanged, deactivate_target, readerVars
  <2>3. \/ \E stage : Proceed(stage)
        \/ Finish(Err) \/ Finish(TargetLost)
        \/ p # << >> /\ Finish(Ok(Tail(p)))
    BY <1>4 DEF Exchanged, deactivate_target
  <2>4. p # << >> => Tail(p) \in ApduResponses
    <3>1. p # << >> => Tail(p) \in Seq(u8)
      BY HeadTailProperties
    <3> QED BY <3>1, ByteIsU8 DEF Unrestricted
  <2>5. /\ Err \in ResultsOf("exchange_apdu") /\ TargetLost \in ResultsOf("exchange_apdu")
        /\ \A d \in ApduResponses : Ok(d) \in ResultsOf("exchange_apdu")
    BY DEF ResultsOf, ExchangeResults
  <2>6. returned' = None \/ returned'.result \in ResultsOf(returned'.op)
    BY <1>1, <1>2, <2>1, <2>3, <2>4, <2>5
  <2> QED BY <2>2, <2>6 DEF FieldsOk
<1>5. CASE call.stage \in RfStages /\ RfConfigured
  <2>1. UNCHANGED <<active_target, cached_card>>
    BY <1>5 DEF RfConfigured
  <2>2. \/ \E stage : Proceed(stage)
        \/ call.stage = "rf_off" /\ Finish(Ok(None))
        \/ /\ call.stage = "rf_off_absent"
           /\ Finish(IF call.op = "exchange_apdu" THEN TargetLost ELSE Ok(None))
        \/ call.stage = "rf_off_lost" /\ Finish(TargetLost)
    BY <1>5 DEF RfConfigured
  <2>3. /\ TargetLost \in ResultsOf("exchange_apdu") /\ Ok(None) \in ResultsOf("poll_card")
        /\ Ok(None) \in ResultsOf("power_off")
    BY DEF ResultsOf, ExchangeResults, PollResults, PowerOffResults
  <2>4. returned' = None \/ returned'.result \in ResultsOf(returned'.op)
    BY <1>0, <1>1, <1>2, <2>2, <2>3
  <2> QED BY <2>1, <2>4 DEF FieldsOk
<1> QED BY <1>3, <1>4, <1>5

LEMMA FieldSteps ==
    ASSUME Unrestricted, ReaderInv, FieldsOk, line \in Seq(u8), [Pn532Next]_pn532Vars
    PROVE  FieldsOk'
<1>1. CASE poll_card \/ power_off \/ \E apdu \in Apdus : exchange_apdu(apdu)
  BY <1>1, StartTypes
<1>2. CASE ReaderStep
  <2>0. call # None /\ CallInv
    BY <1>2 DEF ReaderStep, Send, SendFails, TimesOut, ReceiveAck, ReceiveResponse, ReaderInv
  <2>1. CASE Fail
    BY <2>0, <2>1, FailTypes
  <2>2. CASE ReceiveResponse /\ ~Fail
    <3>1. call.stage \in Stages
      BY <2>0, StageOps
    <3>2. Received.tag = "Ok"
          /\ \/ call.stage = "list" /\ Listed(Received.val)
             \/ call.stage = "data" /\ Exchanged(Received.val)
             \/ call.stage \in RfStages /\ RfConfigured
      BY <2>2, <3>1 DEF ReceiveResponse, Stages, RfStages
    <3>3. Received.val \in Seq(u8)
      BY <3>1, <3>2, ReceivedType
    <3> QED BY <2>0, <3>2, <3>3, AnswerTypes
  <2>3. CASE returned' = None /\ UNCHANGED readerVars
    BY <2>3 DEF FieldsOk, readerVars
  <2> QED BY <1>2, <2>1, <2>2, <2>3 DEF ReaderStep, Send, SendFails, TimesOut, ReceiveAck
<1>3. CASE WorldStep
  <2>1. returned' = None /\ UNCHANGED <<active_target, cached_card>>
    BY <1>3 DEF WorldStep, ChipAck, ChipAnswer, ChipRefuses, ChipDrops, NewsFromChip,
       PlaceCard, RemoveCard, Tick, readerVars
  <2> QED BY <2>1 DEF FieldsOk
<1>4. CASE UNCHANGED pn532Vars
  BY <1>4 DEF pn532Vars, readerVars, FieldsOk
<1> QED BY <1>1, <1>2, <1>3, <1>4 DEF Pn532Next

TypeInv == PendingInv /\ line \in Seq(u8) /\ FieldsOk

LEMMA InitTypes == Pn532Init => TypeInv
BY DEF Pn532Init, TypeInv, PendingInv, FieldsOk

LEMMA TypeInvSteps ==
    ASSUME Unrestricted, ReaderInv, TypeInv, [Pn532Next]_pn532Vars
    PROVE  TypeInv'
BY PendingSteps, LineSteps, FieldSteps DEF TypeInv

\* Whatever has gone wrong on the line, the reader's fields keep their types and
\* every call keeps to the contract of the NfcReader trait, when no card and no
\* answer that bytes can express is excluded: no bytes, in any place, make the
\* reader's code leave its own types.
THEOREM ReaderTypeCorrect ==
    ASSUME Unrestricted
    PROVE  Pn532Spec => []Pn532TypeOK
<1>1. Pn532Init => TypeInv
  BY InitTypes
<1>2. ReaderInv /\ TypeInv /\ [Pn532Next]_pn532Vars => TypeInv'
  BY TypeInvSteps
<1>3. ReaderInv /\ TypeInv => Pn532TypeOK
  <2> SUFFICES ASSUME ReaderInv, TypeInv PROVE Pn532TypeOK
    OBVIOUS
  <2>1. call \in CallRecord \cup {None}
    BY DEF ReaderInv, CallInv
  <2>2. last_poll \in 0..LongAgo /\ card_in_field \in Cards \cup {None}
    BY DEF ReaderInv, WorldInv
  <2>3. rf_field_enabled \in BOOLEAN
    BY DEF ReaderInv, FieldInv
  <2>4. line \in Seq(Byte)
    BY ByteIsU8 DEF TypeInv
  <2> QED BY <2>1, <2>2, <2>3, <2>4, Zenon DEF TypeInv, FieldsOk, Pn532TypeOK
<1> QED BY <1>1, <1>2, <1>3, ReaderInvariant, PTL DEF Pn532Spec
=============================================================================
