------------------------------ MODULE CcidSlot ------------------------------
(***************************************************************************)
(* What the reader's one slot promises the host: a card session is opened  *)
(* for one card, stays with that card, and ends by a power-off, with the   *)
(* loss of the card or with the next power-on.  Only a power-on, which     *)
(* gives the host the card's ATR, can put another card into an open        *)
(* session; an eager reader may also open one, without an ATR, when there  *)
(* is none.                                                                *)
(***************************************************************************)
CONSTANTS Cards, None

VARIABLES eager,     \* the reader powers a card by itself; never changes
          card,      \* the card in the slot, or None
          session,   \* the card of the open session, or None
          answered   \* the card whose ATR the last power-on gave, or None

slotVars == <<eager, card, session, answered>>

SlotInit == eager \in BOOLEAN /\ card = None /\ session = None /\ answered = None

\* IccPowerOn finds a card, whatever was there before.
Open(c) == card' = c /\ session' = c /\ answered' = c

\* IccPowerOn finds none.
Refuse == card' = None /\ session' = None /\ answered' = None

OpenUnasked(c) ==
    /\ eager /\ session = None
    /\ card' = c /\ session' = c
    /\ UNCHANGED answered

\* IccPowerOff
Close == session' = None /\ UNCHANGED <<card, answered>>

\* A poll finds a card, possibly another one than before.
Detect(c) == session = None /\ card' = c /\ UNCHANGED <<session, answered>>

\* A poll finds the slot empty, or an exchange finds the card gone.
Lose == card' = None /\ session' = None /\ UNCHANGED answered

SlotNext ==
    /\ \/ \E c \in Cards : Open(c) \/ OpenUnasked(c) \/ Detect(c)
       \/ Refuse
       \/ Close
       \/ Lose
    /\ UNCHANGED eager

SlotSpec == SlotInit /\ [][SlotNext]_slotVars
=============================================================================
