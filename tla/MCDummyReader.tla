--------------------------- MODULE MCDummyReader ----------------------------
(***************************************************************************)
(* The dummy reader with one APDU for every arm of handle_apdu.            *)
(***************************************************************************)
EXTENDS DummyReader

MCHeaders == {<<0, 164, 4, 12>>,    \* SELECT
              <<128, 16, 128, 0>>,  \* CTAP message
              <<128, 16, 1, 0>>,    \* the same with a wrong P1
              <<128, 18, 1, 0>>}    \* END
MCPayloads == {<< >>, <<4>>, FIDO_AID}
\* None, an Le, an Le and more bytes, and what makes <<0, 0, 1, 4>> and
\* <<0, 0, 1, 4, 0>>, the body of an extended APDU with data <<4>>, of a header.
MCBehind == {<< >>, <<2>>, <<0, 4>>, <<0, 1, 4>>, <<0, 1, 4, 0>>}
MCMalformed == {<<128, 16, 0>>, <<128, 16, 128, 0, 2, 4>>}
=============================================================================
