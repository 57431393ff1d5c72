----------------------------- MODULE MCCcidHost -----------------------------
(***************************************************************************)
(* A conforming host with one command of each kind of outcome: a response  *)
(* of 10 bytes, which fills a read of 10 or 5 exactly, and data blocks of  *)
(* other lengths; a 12-byte command takes two packets of 11.               *)
(***************************************************************************)
EXTENDS CcidHost

CONSTANTS c1

MCCards == {c1}
MCBuildPseudoAtr(c) == <<59, 128, 128, 1, 1>>
MCApduResponses == {<<144, 0>>}
MCReadSizes == {5, 10}

MCCommands == {<<PC_TO_RDR.IccPowerOn, << >> >>,
               <<PC_TO_RDR.GetSlotStatus, << >> >>,
               <<PC_TO_RDR.XfrBlock, <<0, 164>> >>}
=============================================================================
