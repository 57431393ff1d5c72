----------------------------- MODULE MCFormats ------------------------------
(***************************************************************************)
(* Formats over small alphabets: ATRs up to one byte past the fifteen      *)
(* historical bytes they can carry, short payloads and ones around the     *)
(* length where the PN532 changes to extended frames, single and double    *)
(* size UIDs.                                                              *)
(***************************************************************************)
EXTENDS Formats

MCUids == {<<4, 1, 2, 3>>, <<7, 0, 1, 2, 3, 4, 5>>}

MCPayloadLengths == 0..4 \cup 251..255
=============================================================================
