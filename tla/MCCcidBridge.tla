---------------------------- MODULE MCCcidBridge ----------------------------
(***************************************************************************)
(* The bridge on a reader that may hold either of two cards, with one      *)
(* message of every kind: CcidCommand::decode is part of what is run.      *)
(***************************************************************************)
EXTENDS CcidBridge, PseudoAtr

CONSTANTS c1, c2

\* A message with slot 0, sequence number seq and the first parameter byte p.
Message(op, seq, p, payload) ==
    <<PC_TO_RDR[op]>> \o ToLeBytes(Len(payload)) \o <<0, seq, p, 0, 0>> \o payload

MCCards == {c1, c2}

\* The dummy backend hands over a whole ATR, a PN532 the bytes of the ATS.
MCBuildPseudoAtr(c) ==
    build_pseudo_atr(
        IF c = c1 THEN <<59, 104, 0, 255, 56, 43, 65, 82, 68, 110, 115, 115>>
        ELSE <<128, 49>>)

MCApduResponses == {<<144, 0>>}

SelectApdu      == <<0, 164, 4, 0>>
GetResponseApdu == <<128, 192, 0, 0, 16>>

MCFrames ==
    {Message(op, 1, 0, << >>) :
        op \in {"IccPowerOn", "IccPowerOff", "GetSlotStatus", "GetParameters",
                "ResetParameters", "Abort"}}
      \cup {Message("SetParameters", 1, 1, <<17, 16, 0, 77, 0, 254, 0>>),
            Message("SetParameters", 1, 0, <<17, 0, 0, 10, 0>>),
            Message("SetParameters", 1, 1, <<17, 16, 0, 77, 0>>),
            Message("XfrBlock", 1, 0, SelectApdu),
            Message("XfrBlock", 1, 0, GetResponseApdu),
            [Message("Abort", 1, 0, << >>) EXCEPT ![1] = 107],    \* Unknown
            [Message("Abort", 1, 0, << >>) EXCEPT ![2] = 3]}      \* LengthMismatch
=============================================================================
