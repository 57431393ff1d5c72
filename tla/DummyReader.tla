---------------------------- MODULE DummyReader -----------------------------
(***************************************************************************)
(* DummyReader of src/nfc/dummy.rs: a reader whose one card never leaves   *)
(* and emulates a FIDO applet.  Response data that nothing tells apart     *)
(* further is named: "U2F_V2", "GetInfo", "CtapError", "None".             *)
(***************************************************************************)
EXTENDS Naturals, Sequences

CONSTANTS Headers,     \* the CLA, INS, P1, P2 of the APDUs sent
          Payloads,    \* their data fields
          Behind,      \* the byte strings behind those: none, an Le, or anything
          Malformed,   \* byte strings that are too short
          MaxCalls     \* bound: calls per behaviour

\* No whole header, or fewer bytes than the Lc behind it announces.  One byte
\* behind the header is an Le.
TooShort(bytes) ==
    Len(bytes) < 4 \/ (Len(bytes) > 5 /\ Len(bytes) < 5 + bytes[5])

ASSUME DummyAssumption ==
    /\ Headers \subseteq (0..255) \X (0..255) \X (0..255) \X (0..255)
    /\ Payloads \subseteq Seq(0..255)
    /\ \A p \in Payloads : Len(p) < 256
    /\ Behind \subseteq Seq(0..255)
    /\ Malformed \subseteq Seq(0..255)
    /\ \A m \in Malformed : TooShort(m)
    /\ MaxCalls \in Nat

VARIABLES selected_applet,  \* "None" or "Fido"
          log               \* history: the calls, with what they returned

dummyVars == <<selected_applet, log>>

FIDO_AID == <<160, 0, 0, 6, 71, 47, 0, 1>>
FIDO_NFCCTAP_MSG == 16
FIDO_NFCCTAP_CONTROL == 18
FIDO_NFC_END_CTAP_MSG == 1

\* Status words, in hexadecimal.
SW_SUCCESS == "9000"
SW_INS_NOT_SUPPORTED == "6d00"
SW_WRONG_PARAMETERS == "6a86"
SW_WRONG_LENGTH == "6700"
SW_FILE_NOT_FOUND == "6a82"

Response(data, sw) == [data |-> data, sw |-> sw]
Status(sw) == Response("None", sw)

-----------------------------------------------------------------------------
(* Short APDUs *)

\* parse_short_apdu returns None.
NotAnApdu == [header |-> << >>, data |-> << >>]

\* Fault: a body of one byte is taken for a length.
LeTakenForLc(apdu) ==
    LET body == SubSeq(apdu, 5, Len(apdu))
    IN  IF Len(apdu) < 4 \/ (body # << >> /\ Len(body) < 1 + body[1]) THEN NotAnApdu
        ELSE [header |-> SubSeq(apdu, 1, 4),
              data   |-> IF body = << >> THEN << >> ELSE SubSeq(body, 2, 1 + body[1])]

parse_short_apdu(apdu) ==
    LET body == SubSeq(apdu, 5, Len(apdu))
    IN  IF Len(apdu) < 4 \/ (Len(body) > 1 /\ Len(body) < 1 + body[1]) THEN NotAnApdu
        ELSE [header |-> SubSeq(apdu, 1, 4),
              data   |-> IF Len(body) <= 1 THEN << >> ELSE SubSeq(body, 2, 1 + body[1])]

\* The byte strings that say this header and this data when read as a short
\* APDU: the encodings of ISO 7816-4, with or without Le, and those with more
\* bytes behind.  An APDU of extended length is among them: its first length
\* byte is 0, so that it says no data, whatever its own data are.
Encodings(header, data) ==
    {header \o <<Len(data)>> \o data \o rest : rest \in Behind}
      \cup IF data = << >> THEN {header \o rest : rest \in {r \in Behind : Len(r) <= 1}}
           ELSE {}

-----------------------------------------------------------------------------
(* The applet *)

handle_ctap_msg(p1, data) ==
    IF p1 % 128 # 0 THEN Status(SW_WRONG_PARAMETERS)
    ELSE IF data = << >> THEN Status(SW_WRONG_LENGTH)
    ELSE Response(IF data = <<4>> THEN "GetInfo" ELSE "CtapError", SW_SUCCESS)

IsSelect(header) == header \in {<<0, 164, 4, 0>>, <<0, 164, 4, 12>>}
IsEnd(header) == header = <<128, FIDO_NFCCTAP_CONTROL, FIDO_NFC_END_CTAP_MSG, 0>>

\* What a parsed APDU is answered with, and the applet selected afterwards.
\* NFCCTAP_GETRESPONSE is not supported, in a session or not.
AnswerOf(a) ==
    LET fido == selected_applet = "Fido"
        h    == a.header
    IN  IF IsSelect(h) /\ a.data = FIDO_AID
        THEN [response |-> Response("U2F_V2", SW_SUCCESS), applet |-> "Fido"]
        ELSE IF h[1] = 128 /\ h[2] = FIDO_NFCCTAP_MSG /\ h[4] = 0 /\ fido
        THEN [response |-> handle_ctap_msg(h[3], a.data), applet |-> "Fido"]
        ELSE IF IsEnd(h) /\ fido
        THEN [response |-> Status(SW_SUCCESS), applet |-> "None"]
        ELSE [response |-> Status(IF IsSelect(h) THEN SW_FILE_NOT_FOUND
                                  ELSE SW_INS_NOT_SUPPORTED),
              applet |-> selected_applet]

\* meant is what the bytes say as a short APDU, NotAnApdu if they are too short.
handle_apdu(apdu, meant) ==
    LET a == parse_short_apdu(apdu)
    IN  /\ \/ /\ a = NotAnApdu
              /\ log' = Append(log, [meant |-> meant, response |-> Status(SW_WRONG_LENGTH)])
              /\ UNCHANGED selected_applet
           \/ /\ a # NotAnApdu
              /\ log' = Append(log, [meant |-> meant, response |-> AnswerOf(a).response])
              /\ selected_applet' = AnswerOf(a).applet

\* A history entry for a power-off.
PoweredOff == [meant |-> NotAnApdu, response |-> Status("power_off")]

KeepsApplet ==   \* fault: the applet stays selected
    /\ log' = Append(log, PoweredOff)
    /\ UNCHANGED selected_applet

power_off ==
    /\ selected_applet' = "None"
    /\ log' = Append(log, PoweredOff)

\* poll_card always finds the card and changes nothing.
poll_card == UNCHANGED dummyVars

-----------------------------------------------------------------------------

DummyInit == selected_applet = "None" /\ log = << >>

DummyNext ==
    /\ Len(log) < MaxCalls
    /\ \/ \E h \in Headers, d \in Payloads :
             \E apdu \in Encodings(h, d) :
                handle_apdu(apdu, [header |-> h, data |-> d])
       \/ \E apdu \in Malformed : handle_apdu(apdu, NotAnApdu)
       \/ power_off
       \/ poll_card

DummySpec == DummyInit /\ [][DummyNext]_dummyVars

-----------------------------------------------------------------------------
(* Properties *)

IsApdu(e) == e.meant # NotAnApdu

\* A successful SELECT of the FIDO applet; a call that ends its session.
Selects(e) == IsApdu(e) /\ IsSelect(e.meant.header) /\ e.response.sw = SW_SUCCESS
Ends(e) == \/ e = PoweredOff
           \/ IsApdu(e) /\ IsEnd(e.meant.header) /\ e.response.sw = SW_SUCCESS

\* The i-th call falls into a FIDO session.
InSession(i) ==
    \E j \in 1..i - 1 : Selects(log[j]) /\ \A k \in j + 1 .. i - 1 : ~Ends(log[k])

IsCtapMessage(m) == m.header \in {<<128, FIDO_NFCCTAP_MSG, p1, 0>> : p1 \in {0, 128}}

\* authenticatorGetInfo in a short APDU is answered exactly in a FIDO session,
\* that is after a SELECT and before an END or a power-off, with or without Le
\* and whatever malformed or failing calls lie in between; outside one it gets
\* "instruction not supported".
GetInfoExactlyInSession ==
    \A i \in 1..Len(log) :
       IsCtapMessage(log[i].meant) /\ log[i].meant.data = <<4>>
         => log[i].response = IF InSession(i) THEN Response("GetInfo", SW_SUCCESS)
                              ELSE Status(SW_INS_NOT_SUPPORTED)

\* "Wrong length" is the answer to exactly the byte strings that are too short
\* and, in a session, the CTAP messages that say no command.  No short APDU is
\* refused for its Le or its lack of one.  Bytes behind an APDU are ignored, and
\* an APDU of extended length is not refused but read as one without data.
WrongLengthOnlyIfWrong ==
    \A i \in 1..Len(log) :
       LET e == log[i]
           empty_message == IsCtapMessage(e.meant) /\ e.meant.data = << >>
       IN  e # PoweredOff =>
             ((e.response.sw = SW_WRONG_LENGTH)
                <=> (~IsApdu(e) \/ (empty_message /\ InSession(i))))
=============================================================================
