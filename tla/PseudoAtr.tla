------------------------------ MODULE PseudoAtr -----------------------------
(***************************************************************************)
(* The answer-to-reset CcidBridge::build_pseudo_atr (src/ccid/bridge.rs)   *)
(* makes of a contactless card's historical bytes, checked against an      *)
(* ISO 7816-3 reading of the bytes it returns.                             *)
(***************************************************************************)
EXTENDS Naturals, Sequences, SequencesExt

ATR_T0_TD1_PRESENT == 128
ATR_TD_T0_WITH_TD2 == 128
ATR_TD_T1 == 1
ATR_T0_HISTORICAL_BYTES_MASK == 15

\* The exclusive or of two bytes, bit by bit (^^ of Bitwise is recursive and
\* could not be used in a proof).
Xor(x, y) ==
    LET Bit(w) == w * (((x \div w) + (y \div w)) % 2)
    IN  Bit(1) + Bit(2) + Bit(4) + Bit(8) + Bit(16) + Bit(32) + Bit(64) + Bit(128)

XorAll(bytes) ==
    LET xor[i \in 0..Len(bytes)] == IF i = 0 THEN 0 ELSE Xor(xor[i - 1], bytes[i])
    IN  xor[Len(bytes)]

\* The reader has handed over a whole ATR, told by its first byte.
IsWholeAtr(hist) == hist # << >> /\ hist[1] \in {59, 63}

KeepsAll(hist) == hist   \* fault: no truncation

KeptHistorical(hist) ==
    IF Len(hist) > ATR_T0_HISTORICAL_BYTES_MASK THEN SubSeq(hist, 1, 15) ELSE hist

build_pseudo_atr(hist) ==
    IF IsWholeAtr(hist) THEN hist
    ELSE LET kept == KeptHistorical(hist)
             body == <<ATR_T0_TD1_PRESENT + Len(kept), ATR_TD_T0_WITH_TD2,
                       ATR_TD_T1>> \o kept
         IN  <<59>> \o body \o <<XorAll(body)>>

-----------------------------------------------------------------------------
(* The ISO 7816-3 reading of an ATR *)

\* How many of TA, TB, TC the high nibble of T0 or of a TD byte announces.
InterfaceBytes(b) ==
    ((b \div 16) % 2) + ((b \div 32) % 2) + ((b \div 64) % 2)

AnnouncesTD(b) == (b \div 128) % 2 = 1

\* The positions of the TD bytes, following the chain that T0 starts.
TDs(atr) ==
    LET after[pos \in 1..Len(atr)] ==
            LET td == pos + InterfaceBytes(atr[pos]) + 1
            IN  IF AnnouncesTD(atr[pos]) /\ td <= Len(atr)
                THEN {td} \cup after[td] ELSE {}
    IN  after[2]

\* Where the header ends: the last interface byte.
HeaderEnd(atr) ==
    LET lastTD == Max({2} \cup TDs(atr))
    IN  lastTD + InterfaceBytes(atr[lastTD])

\* The check byte TCK is there unless T=0 is the only protocol offered.
HasTCK(atr) == \E td \in TDs(atr) : atr[td] % 16 # 0

\* The historical bytes a reader of the ATR finds in it.
AtrHistorical(atr) == SubSeq(atr, HeaderEnd(atr) + 1, HeaderEnd(atr) + (atr[2] % 16))

AtrLength(atr) ==
    HeaderEnd(atr) + (atr[2] % 16) + (IF HasTCK(atr) THEN 1 ELSE 0)
=============================================================================
