---------------------------- MODULE MCCcidSystem ----------------------------
(***************************************************************************)
(* The bridge and the PN532 reader together, with two cards and the        *)
(* commands that reach the reader.                                         *)
(***************************************************************************)
EXTENDS CcidSystem

CardA == CardPresence(<<4, 1>>, <<128>>)
CardB == CardPresence(<<8>>, << >>)

MCCards == {CardA, CardB}

OneCard == {CardA}

MCBuildPseudoAtr(c) == <<59>> \o c.uid

SelectApdu == <<0, 164>>

MCCardAnswer(c, apdu) == <<c.uid[1], apdu[2]>>

MCApdus == {SelectApdu}

MCApduResponses == {MCCardAnswer(c, a) : c \in MCCards, a \in MCApdus}

Message(op, payload) ==
    <<PC_TO_RDR[op]>> \o ToLeBytes(Len(payload)) \o <<0, 1, 0, 0, 0>> \o payload

MCFrames ==
    {Message(op, << >>) : op \in {"IccPowerOn", "IccPowerOff", "GetSlotStatus"}}
      \cup {Message("XfrBlock", SelectApdu)}

\* For the liveness run: fewer commands, and only the behaviours whose line
\* stays in step, which are the ones RemovalNoticed speaks of.
InStep == ~out_of_step

LiveFrames == MCFrames \ {Message("GetSlotStatus", << >>)}
=============================================================================
