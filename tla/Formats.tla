------------------------------- MODULE Formats ------------------------------
(***************************************************************************)
(* The byte formats of the readers, on inputs grown byte by byte: the      *)
(* historical bytes build_pseudo_atr makes an ATR of, the payload of a     *)
(* response frame of the PN532, and a target list with the historical      *)
(* bytes of a card of any UID and any combination of interface bytes.      *)
(***************************************************************************)
EXTENDS PseudoAtr, Pn532Frame

CONSTANTS AtrByteValues, FrameByteValues, AtsByteValues,   \* the alphabets
          Uids,                \* the UIDs of the listed cards
          MaxHistorical,       \* bound: the longest input of build_pseudo_atr
          PayloadLengths,      \* bound: the lengths of the payloads
          StartLengths,        \* those of the payloads to start from
          MaxAts               \* bound: the historical bytes of an ATS

\* The length of a UID and that of an ATS are one byte, of a frame two.
ASSUME FormatsAssumption ==
    /\ AtrByteValues \cup FrameByteValues \cup AtsByteValues \subseteq 0..255
    /\ \A uid \in Uids : uid \in Seq(0..255) /\ Len(uid) < 256
    /\ MaxHistorical \in Nat
    /\ PayloadLengths \subseteq 0..FrameLimit - 3 /\ StartLengths \subseteq PayloadLengths
    /\ MaxAts \in 0..250

VARIABLES subject,   \* what is being read, and the card if it is a target list
          bytes      \* the historical bytes or the payload

formatVars == <<subject, bytes>>

Atr   == [kind |-> "atr"]
Frame == [kind |-> "frame"]
ListedCards ==
    [kind : {"target"}, uid : Uids,
     bits : SUBSET {ATS_T0_TA_PRESENT, ATS_T0_TB_PRESENT, ATS_T0_TC_PRESENT}]

FormatsInit ==
    \/ subject \in {Atr} \cup ListedCards /\ bytes = << >>
    \/ subject = Frame /\ \E n \in StartLengths : bytes = [i \in 1..n |-> 165]

GrowHistorical ==
    /\ subject = Atr /\ Len(bytes) < MaxHistorical
    /\ \E b \in AtrByteValues : bytes' = Append(bytes, b)
    /\ UNCHANGED subject

GrowPayload ==
    /\ subject = Frame /\ Len(bytes) + 1 \in PayloadLengths
    /\ \E b \in FrameByteValues : bytes' = Append(bytes, b)
    /\ UNCHANGED subject

GrowAts ==
    /\ subject \in ListedCards /\ Len(bytes) < MaxAts
    /\ \E b \in AtsByteValues : bytes' = Append(bytes, b)
    /\ UNCHANGED subject

FormatsSpec ==
    FormatsInit /\ [][GrowHistorical \/ GrowPayload \/ GrowAts]_formatVars

-----------------------------------------------------------------------------
(* Properties *)

\* The ATR a card gets reads back, byte for byte, as an ATR offering T=1 whose
\* historical bytes are the card's first fifteen, and its check byte makes the
\* bytes after TS add up to zero: the count in T0, the truncation and the
\* checksum of build_pseudo_atr agree with each other at every length.
AtrReadsBack ==
    LET atr == build_pseudo_atr(bytes)
    IN  subject = Atr /\ ~IsWholeAtr(bytes) =>
          /\ Len(atr) = AtrLength(atr)
          /\ AtrHistorical(atr) = SubSeq(bytes, 1, Min({Len(bytes), 15}))
          /\ HasTCK(atr) /\ XorAll(Tail(atr)) = 0

ResponseCode == 65   \* of InDataExchange

Sent == EncodeFrame(ResponseCode, bytes)

\* What may already wait on the line behind a frame.
Behind == {<< >>, <<0>>, Sent}

\* A frame is read back as its payload, in full and not a byte further, on
\* either side of the change from one-byte to two-byte lengths, and whatever
\* is already waiting behind it on the line (receive_dynamic_response_from).
FrameReadsBack ==
    subject = Frame =>
      \A rest \in Behind :
         ReceiveDynamicResponse(Sent \o rest, ResponseCode)
           = Parsed("Ok", bytes, Len(Sent))

\* The positions of a frame that carry more than payload.
FramingBytes == {i \in DOMAIN Sent : i <= 12 \/ i >= Len(Sent) - 4}

\* The length whose two bytes are those a response starts with.  Such a frame
\* with the second byte of its marker changed to 1 starts like a frame of 255
\* bytes, and whether it is accepted as one hangs on the payload.
Mistakable(n, code) == n = 256 * PN532_TO_HOST + code

\* No frame with one byte changed anywhere in its framing, and none answering
\* another command, is accepted: the parser returns an error or waits for more
\* bytes, and never hands over a payload.
CorruptFrameRejected ==
    subject = Frame /\ ~Mistakable(Len(bytes) + 2, ResponseCode) =>
      /\ \A i \in FramingBytes, d \in {1, 2, 127, 128, 255} :
            ReceiveDynamicResponse(ReplaceAt(Sent, i, (Sent[i] + d) % 256),
                                   ResponseCode).tag # "Ok"
      /\ ReceiveDynamicResponse(Sent, ResponseCode + 10).tag # "Ok"

\* A frame whose last bytes have not arrived is waited for, never read short.
PartialFrameWaits ==
    subject = Frame =>
      \A n \in 0..Len(Sent) - 1 :
         ReceiveDynamicResponse(SubSeq(Sent, 1, n), ResponseCode).tag = "Short"

TargetList == EncodeTarget(subject.uid, EncodeAts(subject.bits, bytes))

\* A listed card is read back with its UID and exactly its historical bytes,
\* whichever of TA, TB and TC its ATS carries (poll_card, ats_historical_bytes).
TargetReadsBack ==
    subject \in ListedCards =>
      ParseTargets(TargetList)
        = Target(ISO_A_TARGET_SLOT, CardPresence(subject.uid, bytes))

\* A target list cut short at any byte is rejected, never misread: the one cut
\* that is accepted loses the whole ATS, and gives the right UID with no
\* historical bytes.
CutListNotMisread ==
    subject \in ListedCards =>
      \A n \in 1..Len(TargetList) - 1 :
         ParseTargets(SubSeq(TargetList, 1, n))
           \in {BadTarget,
                Target(ISO_A_TARGET_SLOT, CardPresence(subject.uid, << >>))}
=============================================================================
