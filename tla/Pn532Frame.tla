----------------------------- MODULE Pn532Frame -----------------------------
(***************************************************************************)
(* The byte formats src/nfc/pn532.rs reads from a PN532: response frames,  *)
(* the list of targets an InListPassiveTarget returns, and the ATS inside  *)
(* it.  A parser returns a tag, the value read and how many bytes of its   *)
(* input it consumed; "Short" says it blocks for more bytes than there are.*)
(***************************************************************************)
EXTENDS Naturals, Sequences, SequencesExt

PREAMBLE == <<0, 0, 255>>
POSTAMBLE == 0
PN532_TO_HOST == 213
EXTENDED_FRAME_MARKER == <<255, 255>>
ISO_A_TARGET_SLOT == 1

\* The bits of T0 that announce TA, TB and TC.
ATS_T0_TA_PRESENT == 16
ATS_T0_TB_PRESENT == 32
ATS_T0_TC_PRESENT == 64

\* A sum of u8 values with wrapping_add; by halves, to keep recursion shallow.
WrappingSum(bytes) ==
    LET sum[r \in (DOMAIN bytes) \X (DOMAIN bytes)] ==
            LET mid == (r[1] + r[2]) \div 2
            IN  IF r[1] >= r[2] THEN bytes[r[1]]
                ELSE (sum[<<r[1], mid>>] + sum[<<mid + 1, r[2]>>]) % 256
    IN  IF bytes = << >> THEN 0 ELSE sum[<<1, Len(bytes)>>]

Parsed(tag, val, used) == [tag |-> tag, val |-> val, used |-> used]

-----------------------------------------------------------------------------
(* Frames *)

\* The frame a PN532 answers with: code is the request's command code plus one.
\* A frame of 256 bytes or more has a two-byte length after a marker.
FrameHeader(n) ==
    PREAMBLE \o (IF n < 256 THEN <<n, (256 - n) % 256>>
                 ELSE EXTENDED_FRAME_MARKER
                        \o <<n \div 256, n % 256, (512 - n \div 256 - (n % 256)) % 256>>)

\* No frame of so many bytes has a header: the length has two bytes at most.
FrameLimit == 65536

FrameBody(code, payload) == <<PN532_TO_HOST, code>> \o payload

FrameTail(body) == <<(256 - WrappingSum(body)) % 256, POSTAMBLE>>

EncodeFrame(code, payload) ==
    LET body == FrameBody(code, payload)
    IN  FrameHeader(Len(body)) \o body \o FrameTail(body)

NeverExtended(in) == FALSE   \* fault: only one-byte lengths are read

IsExtended(in) == SubSeq(in, 4, 5) = EXTENDED_FRAME_MARKER

ForgetsPostamble(frame_len) == frame_len + 1   \* fault: one byte too few

\* What is read after the header: the frame, its checksum and the postamble.
BodyLen(frame_len) == frame_len + 2

NoChecksum(frame) == TRUE   \* fault: the data checksum is not verified

\* The data checksum of a frame without its postamble.
ChecksumOk(frame) == WrappingSum(frame) = 0

\* receive_dynamic_response_from, in the order of its early returns.
ReceiveDynamicResponse(in, expected) ==
    LET extended  == IsExtended(in)
        header    == IF extended THEN 8 ELSE 5
        frame_len == IF extended THEN 256 * in[6] + in[7] ELSE in[4]
        total     == header + BodyLen(frame_len)
        frame     == SubSeq(in, header + 1, total)
    IN  IF Len(in) < 5 THEN Parsed("Short", << >>, 0)
        ELSE IF SubSeq(in, 1, 3) # PREAMBLE THEN Parsed("BadResponseFrame", << >>, 5)
        ELSE IF Len(in) < header THEN Parsed("Short", << >>, 0)
        ELSE IF WrappingSum(SubSeq(in, IF extended THEN 6 ELSE 4, header)) # 0
             THEN Parsed("CrcError", << >>, header)
        ELSE IF frame_len = 0 THEN Parsed("BadResponseFrame", << >>, header)
        ELSE IF frame_len = 1 THEN Parsed("Syntax", << >>, header)
        ELSE IF Len(in) < total THEN Parsed("Short", << >>, 0)
        ELSE IF Last(frame) # POSTAMBLE \/ frame[1] # PN532_TO_HOST
                  \/ frame[2] # expected
             THEN Parsed("BadResponseFrame", << >>, total)
        ELSE IF ~ChecksumOk(Front(frame)) THEN Parsed("CrcError", << >>, total)
        ELSE Parsed("Ok", SubSeq(frame, 3, frame_len), total)

-----------------------------------------------------------------------------
(* The ATS of a card *)

\* How many of the bits are set in t0.
SetBits(t0, bits) == Quantify(bits, LAMBDA bit : (t0 \div bit) % 2 = 1)

ForgetsTC(ats) ==   \* fault: TC is not skipped
    2 + SetBits(ats[2], {ATS_T0_TA_PRESENT, ATS_T0_TB_PRESENT})

\* The number of bytes before the historical bytes: TL, T0, TA, TB, TC.
HistoricalStart(ats) ==
    2 + SetBits(ats[2], {ATS_T0_TA_PRESENT, ATS_T0_TB_PRESENT, ATS_T0_TC_PRESENT})

ats_historical_bytes(ats) ==
    IF Len(ats) < 2 \/ ats[1] # Len(ats) \/ HistoricalStart(ats) > Len(ats)
    THEN Parsed("Err", << >>, 0)
    ELSE Parsed("Ok", SubSeq(ats, HistoricalStart(ats) + 1, Len(ats)), Len(ats))

-----------------------------------------------------------------------------
(* The targets of an InListPassiveTarget response *)

CardPresence(uid, historical) == [uid |-> uid, historical_bytes |-> historical]

NoTarget    == [tag |-> "None"]
BadTarget   == [tag |-> "Err"]
Target(n, card) == [tag |-> "Some", target |-> n, card |-> card]

TakesCutUid(response) ==   \* fault: the UID is not checked against its length
    IF response = << >> \/ response[1] = 0 THEN NoTarget
    ELSE IF Len(response) < 6 THEN BadTarget
    ELSE LET uid == SubSeq(response, 7, Min({Len(response), 6 + response[6]}))
         IN  Target(response[2], CardPresence(uid, << >>))

\* What poll_card makes of the response.
ParseTargets(response) ==
    LET uid_end == 6 + response[6]
        ats_end == uid_end + response[uid_end + 1]
        uid     == SubSeq(response, 7, uid_end)
        ats     == ats_historical_bytes(SubSeq(response, uid_end + 1, ats_end))
    IN  IF response = << >> \/ response[1] = 0 THEN NoTarget
        ELSE IF Len(response) < 6 \/ Len(response) < uid_end THEN BadTarget
        ELSE IF Len(response) = uid_end
             THEN Target(response[2], CardPresence(uid, << >>))
        ELSE IF Len(response) < ats_end \/ ats.tag # "Ok" THEN BadTarget
        ELSE Target(response[2], CardPresence(uid, ats.val))

\* The ATS of a card with the given interface bytes (a set of bits of T0).
T0(bits) ==
    LET BitOf(bit) == IF bit \in bits THEN bit ELSE 0
    IN  BitOf(ATS_T0_TA_PRESENT) + BitOf(ATS_T0_TB_PRESENT) + BitOf(ATS_T0_TC_PRESENT)

EncodeAts(bits, historical) ==
    LET interface == [i \in 1..Cardinality(bits) |-> 200]
    IN  <<2 + Len(interface) + Len(historical), T0(bits)>> \o interface \o historical

\* The response for one ISO 14443-A target; a card without ATS gives << >>.
EncodeTarget(uid, ats) ==
    <<1, ISO_A_TARGET_SLOT, 0, 4, 32, Len(uid)>> \o uid \o ats
=============================================================================
