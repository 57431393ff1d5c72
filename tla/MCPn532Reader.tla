--------------------------- MODULE MCPn532Reader ----------------------------
(***************************************************************************)
(* The PN532 reader with two cards, one with an ATS, and two APDUs.        *)
(***************************************************************************)
EXTENDS Pn532Reader

CardA == CardPresence(<<4, 1>>, <<128>>)
CardB == CardPresence(<<8>>, << >>)

MCCards == {CardA, CardB}

\* An answer names the card and the APDU.
MCCardAnswer(c, apdu) == <<c.uid[1], apdu[1]>>

ShortApdus == {<<1>>, <<2>>}

\* One byte more than the buffer allows.
LongApdu == [i \in 1..311 |-> 0]

MCApdus == ShortApdus \cup {LongApdu}

MCApduResponses == {MCCardAnswer(c, a) : c \in MCCards, a \in MCApdus}
=============================================================================
