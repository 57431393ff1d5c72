--------------------------- MODULE MCCcidTransport --------------------------
(***************************************************************************)
(* The transport and the bridge below it, with URBs in any order.  A bulk  *)
(* OUT packet is a whole message, an oversized header, or a piece of a     *)
(* message cut inside the payload; pieces of different messages may follow *)
(* each other, as after an abandoned transfer.                             *)
(***************************************************************************)
EXTENDS CcidTransport

CONSTANT c1

Message(type, seq, payload) ==
    <<type>> \o ToLeBytes(Len(payload)) \o <<0, seq, 0, 0, 0>> \o payload

MCCards == {c1}
MCBuildPseudoAtr(c) == <<59, 128, 128, 1, 1>>
MCApduResponses == {<<144, 0>>}

PowerOnMessage == Message(PC_TO_RDR.IccPowerOn, 1, << >>)
StatusMessage  == Message(PC_TO_RDR.GetSlotStatus, 1, << >>)
AbortMessage   == Message(PC_TO_RDR.Abort, 2, << >>)
XfrMessage     == Message(PC_TO_RDR.XfrBlock, 1, <<0, 4>>)
\* A header that declares 13 * 256 bytes of payload.
OversizedHeader == [StatusMessage EXCEPT ![3] = 13]

Pieces(message, cut) ==
    {SubSeq(message, 1, cut), SubSeq(message, cut + 1, Len(message))}

MCPackets == {PowerOnMessage, AbortMessage, OversizedHeader} \cup Pieces(XfrMessage, 11)
MCReadSizes == {10}
MCAbortRequests == {<<0, 2>>, <<0, 3>>, <<1, 2>>}

\* For the abandoned transfer: a part of a message, and the bulk Abort.
OneAbortRequest == {<<0, 2>>}
AbandonedPackets == {SubSeq(XfrMessage, 1, 11), AbortMessage}
=============================================================================
