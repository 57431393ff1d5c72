-------------------------- MODULE CcidBridgeProofs --------------------------
(***************************************************************************)
(* Proofs about the bridge, for any cards, any response APDUs, any ATRs    *)
(* and any byte strings from the host.                                     *)
(***************************************************************************)
EXTENDS CcidBridge, SequenceTheorems, TLAPS

-----------------------------------------------------------------------------
(* What a command is and what a reader may return *)

LEMMA DecodeType ==
    ASSUME NEW f \in Seq(Byte), Decodable(f)
    PROVE  decode(f) \in CcidCommand
<1>1. Len(f) \in Nat /\ Len(f) >= 10
  BY DEF Decodable, HeaderLen
<1>2. f[6] \in Byte /\ f[7] \in Byte /\ f[8] \in Byte
  BY <1>1
<1>3. OpOf(f[1]) \in Ops
  <2>1. CASE \E op \in DOMAIN PC_TO_RDR : PC_TO_RDR[op] = f[1]
    BY <2>1 DEF OpOf, Ops
  <2>2. CASE ~\E op \in DOMAIN PC_TO_RDR : PC_TO_RDR[op] = f[1]
    BY <2>2 DEF OpOf, Ops
  <2> QED BY <2>1, <2>2
<1>4. SubSeq(f, HeaderLen + 1, Len(f)) \in Seq(Byte)
  BY <1>1 DEF HeaderLen
<1> QED BY <1>2, <1>3, <1>4 DEF decode, CcidCommand

LEMMA PollResultType ==
    ASSUME NEW b \in Backends, NEW poll \in PollResults(b)
    PROVE  /\ poll.val \in Cards \cup {None}
           /\ poll.tag = "Ok" \/ (poll.tag = "Err" /\ poll.val = None)
BY ReaderAssumption DEF PollResults, Ok, Err

LEMMA ExchangeResultType ==
    ASSUME NEW b \in Backends, NEW xchg \in ExchangeResults(b)
    PROVE  xchg.tag = "Ok" => xchg.val \in Seq(Byte)
BY ReaderAssumption DEF ExchangeResults, Ok, Err, TargetLost

LEMMA NormalizeApduType ==
    ASSUME NEW apdu \in Seq(Byte)
    PROVE  NormalizeApdu(apdu) \in Seq(Byte)
<1>1. CASE Len(apdu) > 1 /\ apdu[2] = APDU_GET_RESPONSE_INS
  <2>1. 0 \in Byte /\ 1 \in 1..Len(apdu)
    BY <1>1 DEF Byte
  <2> QED BY <1>1, <2>1, ExceptSeq DEF NormalizeApdu
<1>2. CASE ~(Len(apdu) > 1 /\ apdu[2] = APDU_GET_RESPONSE_INS)
  BY <1>2 DEF NormalizeApdu
<1> QED BY <1>1, <1>2

LEMMA ResponseType ==
    ASSUME NEW c \in CcidCommand, NEW kind \in DOMAIN RDR_TO_PC,
           NEW icc \in DOMAIN IccStatus, NEW status \in DOMAIN CommandStatus,
           NEW extra \in Byte, NEW payload \in Seq(Byte)
    PROVE  Response(kind, c, icc, status, extra, payload) \in CcidResponse
BY DEF Response, CcidResponse, CcidCommand, Byte, GENERIC_FAILURE_ERROR

LEMMA ReaderCallType ==
    /\ PollCard \in ReaderCall
    /\ PowerOff \in ReaderCall
    /\ \A apdu \in Seq(Byte) : ExchangeApdu(apdu) \in ReaderCall
BY DEF PollCard, PowerOff, ExchangeApdu, ReaderCall

LEMMA IccStatusOfType ==
    ASSUME NEW card, NEW powered
    PROVE  IccStatusOf(card, powered) \in DOMAIN IccStatus
BY DEF IccStatusOf, IccStatus

LEMMA DefaultParametersType ==
    DEFAULT_T1_PARAMETERS \in Seq(Byte) /\ Len(DEFAULT_T1_PARAMETERS) = 7
BY DEF DEFAULT_T1_PARAMETERS, Byte

LEMMA SlotStatusType ==
    ASSUME NEW c \in CcidCommand, NEW icc \in DOMAIN IccStatus
    PROVE  /\ SlotStatusOk(c, icc) \in CcidResponse
           /\ SlotStatusFailed(c, icc) \in CcidResponse
<1>1. 0 \in Byte /\ << >> \in Seq(Byte) /\ "SlotStatus" \in DOMAIN RDR_TO_PC
      /\ "NoError" \in DOMAIN CommandStatus /\ "Failed" \in DOMAIN CommandStatus
  BY DEF Byte, RDR_TO_PC, CommandStatus
<1> QED BY <1>1, ResponseType DEF SlotStatusOk, SlotStatusFailed

LEMMA DataBlockType ==
    ASSUME NEW c \in CcidCommand, NEW payload \in Seq(Byte)
    PROVE  DataBlock(c, payload) \in CcidResponse
<1>1. 0 \in Byte /\ "DataBlock" \in DOMAIN RDR_TO_PC
      /\ "NoError" \in DOMAIN CommandStatus /\ "Active" \in DOMAIN IccStatus
  BY DEF Byte, RDR_TO_PC, CommandStatus, IccStatus
<1> QED BY <1>1, ResponseType DEF DataBlock

-----------------------------------------------------------------------------
(* Type correctness, one step per operation *)

LEMMA HandleCommandType ==
    ASSUME BridgeTypeOK, NEW c \in CcidCommand, handle_command(c)
    PROVE  BridgeTypeOK' /\ reply' # None
<1> USE DEF BridgeTypeOK
<1>0. None \notin CcidResponse
  BY ReaderAssumption
<1>1. /\ c.payload \in Seq(Byte)
      /\ << >> \in Seq(ReaderCall)
      /\ <<PollCard>> \in Seq(ReaderCall) /\ <<PowerOff>> \in Seq(ReaderCall)
      /\ RefreshCalls \in Seq(ReaderCall)
  BY ReaderCallType DEF RefreshCalls, CcidCommand
<1>2. /\ "Active" \in DOMAIN IccStatus /\ "Inactive" \in DOMAIN IccStatus
      /\ "NotPresent" \in DOMAIN IccStatus
  BY DEF IccStatus
<1>3. ASSUME NEW poll \in PollResults(reader_name), IccPowerOn(c, poll)
      PROVE  BridgeTypeOK' /\ reply' # None
  <2>1. poll.val \in Cards \cup {None}
    BY PollResultType
  <2>2. reply' \in CcidResponse
    BY <1>2, <1>3, <2>1, SlotStatusType, DataBlockType, BridgeAssumption
       DEF IccPowerOn
  <2> QED BY <1>0, <1>1, <1>3, <2>1, <2>2 DEF IccPowerOn
<1>4. ASSUME NEW off \in PowerOffResults(reader_name), IccPowerOff(c, off)
      PROVE  BridgeTypeOK' /\ reply' # None
  <2>1. reply' \in CcidResponse
    BY <1>2, <1>4, SlotStatusType, IccStatusOfType DEF IccPowerOff
  <2> QED BY <1>0, <1>1, <1>4, <2>1 DEF IccPowerOff
<1>5. ASSUME NEW poll \in PollResults(reader_name), GetSlotStatus(c, poll)
      PROVE  BridgeTypeOK' /\ reply' # None
  <2>1. poll.val \in Cards \cup {None}
    BY PollResultType
  <2>2. reply' \in CcidResponse
    BY <1>2, <1>5, SlotStatusType, IccStatusOfType DEF GetSlotStatus
  <2> QED BY <1>0, <1>1, <1>5, <2>1, <2>2
          DEF GetSlotStatus, RefreshedCard, RefreshedPower
<1>6. ASSUME NEW status \in DOMAIN CommandStatus,
             protocol_num' = T1_PROTOCOL_NUM, parameters' \in Seq(Byte)
      PROVE  ParametersResponse(c, status) \in CcidResponse
  <2>1. protocol_num' \in Byte /\ "Parameters" \in DOMAIN RDR_TO_PC
    BY <1>6 DEF T1_PROTOCOL_NUM, Byte, RDR_TO_PC
  <2> QED BY <1>6, <2>1, ResponseType, IccStatusOfType
          DEF ParametersResponse, CurrentIccStatus
<1>7. "NoError" \in DOMAIN CommandStatus /\ "Failed" \in DOMAIN CommandStatus
  BY DEF CommandStatus
<1>8. CASE GetParameters(c)
  BY <1>0, <1>1, <1>6, <1>7, <1>8 DEF GetParameters
<1>9. CASE ResetParameters(c)
  BY <1>0, <1>1, <1>6, <1>7, <1>9, DefaultParametersType DEF ResetParameters
<1>10. CASE SetParameters(c)
  BY <1>0, <1>1, <1>6, <1>7, <1>10 DEF SetParameters, AcceptsParameters
<1>11. /\ XfrPoll \in Seq(ReaderCall)
       /\ Append(XfrPoll, ExchangeApdu(NormalizeApdu(c.payload))) \in Seq(ReaderCall)
  BY <1>1, ReaderCallType, NormalizeApduType DEF XfrPoll
<1>12. ASSUME NEW poll \in PollResults(reader_name)
       PROVE  XfrCard(poll) \in Cards \cup {None} /\ XfrPower(poll) \in BOOLEAN
              /\ RefreshedCard(poll) \in Cards \cup {None}
  BY PollResultType DEF XfrCard, XfrPower, RefreshedCard, RefreshedPower
<1>13. ASSUME NEW poll \in PollResults(reader_name),
              XfrLookFails(c, poll) \/ XfrBlocked(c, poll)
       PROVE  BridgeTypeOK' /\ reply' # None
  <2>1. reply' \in CcidResponse
    BY <1>2, <1>13, SlotStatusType DEF XfrLookFails, XfrBlocked
  <2> QED BY <1>0, <1>11, <1>12, <1>13, <2>1 DEF XfrLookFails, XfrBlocked
<1>14. ASSUME NEW poll \in PollResults(reader_name),
              NEW xchg \in ExchangeResults(reader_name), XfrExchange(c, poll, xchg)
       PROVE  BridgeTypeOK' /\ reply' # None
  <2>1. reply' \in CcidResponse
    BY <1>2, <1>14, SlotStatusType, DataBlockType, IccStatusOfType,
       ExchangeResultType DEF XfrExchange, LosesTarget
  <2> QED BY <1>0, <1>11, <1>12, <1>14, <2>1 DEF XfrExchange, LosesTarget
<1>15. CASE AbortOrUnknown(c)
  BY <1>0, <1>1, <1>15, SlotStatusType, IccStatusOfType
     DEF AbortOrUnknown, CurrentIccStatus
<1> QED BY <1>3, <1>4, <1>5, <1>8, <1>9, <1>10, <1>13, <1>14, <1>15
        DEF handle_command

LEMMA RefreshType ==
    ASSUME BridgeTypeOK, NEW poll \in PollResults(reader_name),
           refresh_card_presence(poll)
    PROVE  BridgeTypeOK'
<1>1. RefreshCalls \in Seq(ReaderCall)
  BY ReaderCallType DEF RefreshCalls
<1> QED BY <1>1, PollResultType
        DEF BridgeTypeOK, refresh_card_presence, RefreshedCard, RefreshedPower

\* Every field of the bridge keeps its range; so in particular GetParameters
\* always answers with a T=1 block of seven bytes (parameters_response).
THEOREM BridgeTypeCorrect == BridgeSpec => []BridgeTypeOK
<1>1. BridgeInit => BridgeTypeOK
  <2>1. << >> \in Seq(ReaderCall)
    OBVIOUS
  <2> QED BY <2>1, DefaultParametersType DEF BridgeInit, BridgeTypeOK
<1>2. BridgeTypeOK /\ [BridgeNext]_bridgeVars => BridgeTypeOK'
  <2>1. ASSUME BridgeTypeOK, NEW f \in Frames, Decodable(f),
               handle_command(decode(f))
        PROVE  BridgeTypeOK'
    BY <2>1, DecodeType, HandleCommandType, BridgeAssumption
  <2>2. ASSUME BridgeTypeOK, UNCHANGED bridgeVars
        PROVE  BridgeTypeOK'
    BY <2>2 DEF BridgeTypeOK, bridgeVars
  <2> QED BY <2>1, <2>2, RefreshType DEF BridgeNext
<1> QED BY <1>1, <1>2, PTL DEF BridgeSpec

-----------------------------------------------------------------------------
(* The session.  The strengthening that makes PoweredCardIsAtrCard inductive *)
(* is PoweredImpliesCard: a powered slot without a card would be polled.     *)

BridgeInv == BridgeTypeOK /\ PoweredImpliesCard /\ PoweredCardIsAtrCard

\* What a step may do to the slot as CcidSlot describes it.
SlotStep == [Slot!SlotNext]_(Slot!slotVars)

LEMMA HandleCommandSafe ==
    ASSUME BridgeInv, NEW c \in CcidCommand, handle_command(c)
    PROVE  /\ PoweredImpliesCard' /\ PoweredCardIsAtrCard' /\ SuccessReportsSlot'
           /\ SlotStep
<1> USE DEF BridgeInv, BridgeTypeOK, PoweredImpliesCard, PoweredCardIsAtrCard,
            SlotStep, Slot!SlotNext, Slot!slotVars, Slot!Open, Slot!Close,
            Slot!OpenUnasked, Slot!Refuse, Slot!Detect, Slot!Lose,
            SuccessReportsSlot, CurrentIccStatus, IccStatusOf
<1>0. None \notin Cards
  BY ReaderAssumption
<1>1. ASSUME NEW poll \in PollResults(reader_name), IccPowerOn(c, poll)
      PROVE  /\ PoweredImpliesCard' /\ PoweredCardIsAtrCard'
             /\ SuccessReportsSlot' /\ SlotStep
  BY <1>0, <1>1, PollResultType
     DEF IccPowerOn, DataBlock, SlotStatusFailed, Response, Ok, Err
<1>2. ASSUME NEW off \in PowerOffResults(reader_name), IccPowerOff(c, off)
      PROVE  /\ PoweredImpliesCard' /\ PoweredCardIsAtrCard'
             /\ SuccessReportsSlot' /\ SlotStep
  BY <1>0, <1>2 DEF IccPowerOff, SlotStatusOk, SlotStatusFailed, Response
<1>3. ASSUME NEW poll \in PollResults(reader_name), GetSlotStatus(c, poll)
      PROVE  /\ PoweredImpliesCard' /\ PoweredCardIsAtrCard'
             /\ SuccessReportsSlot' /\ SlotStep
  BY <1>0, <1>3, PollResultType
     DEF GetSlotStatus, SlotStatusOk, SlotStatusFailed, Response, Ok,
         RefreshFails, RefreshPolls, RefreshedCard, RefreshedPower
<1>4. CASE GetParameters(c) \/ ResetParameters(c) \/ SetParameters(c)
  BY <1>4 DEF GetParameters, ResetParameters, SetParameters,
              ParametersResponse, Response
<1>5. ASSUME NEW poll \in PollResults(reader_name),
             XfrLookFails(c, poll) \/ XfrBlocked(c, poll)
      PROVE  /\ PoweredImpliesCard' /\ PoweredCardIsAtrCard'
             /\ SuccessReportsSlot' /\ SlotStep
  BY <1>0, <1>5, PollResultType
     DEF XfrLookFails, XfrBlocked, SlotStatusFailed, Response, Ok, XfrLooks,
         XfrCard, XfrPower, RefreshFails, RefreshPolls, RefreshedCard, RefreshedPower
<1>6. ASSUME NEW poll \in PollResults(reader_name),
             NEW xchg \in ExchangeResults(reader_name), XfrExchange(c, poll, xchg)
      PROVE  /\ PoweredImpliesCard' /\ PoweredCardIsAtrCard'
             /\ SuccessReportsSlot' /\ SlotStep
  <2>1. XfrCard(poll) = current_card /\ XfrPower(poll) = slot_powered
    BY <1>6 DEF XfrExchange, LosesTarget, XfrCard, XfrPower, XfrLooks, RefreshedPower
  <2>2. slot_powered /\ current_card # None /\ atr_card' = atr_card
        /\ reader_name' = reader_name
    BY <1>6, <2>1 DEF XfrExchange, LosesTarget
  <2>3. CASE UNCHANGED <<current_card, slot_powered>>
             /\ \/ reply' = DataBlock(c, xchg.val)
                \/ \E icc : reply' = SlotStatusFailed(c, icc)
    BY <2>2, <2>3 DEF DataBlock, SlotStatusFailed, Response
  <2>4. CASE current_card' = None /\ slot_powered' = FALSE
             /\ reply' = SlotStatusFailed(c, "NotPresent")
    BY <2>2, <2>4 DEF SlotStatusFailed, Response
  <2> QED BY <1>6, <2>1, <2>3, <2>4 DEF XfrExchange, LosesTarget
<1>7. CASE AbortOrUnknown(c)
  BY <1>7 DEF AbortOrUnknown, SlotStatusOk, SlotStatusFailed, Response
<1> QED BY <1>1, <1>2, <1>3, <1>4, <1>5, <1>6, <1>7 DEF handle_command

LEMMA RefreshSafe ==
    ASSUME BridgeInv, NEW poll \in PollResults(reader_name),
           refresh_card_presence(poll)
    PROVE  /\ PoweredImpliesCard' /\ PoweredCardIsAtrCard' /\ SuccessReportsSlot'
           /\ SlotStep
BY PollResultType, ReaderAssumption
   DEF BridgeInv, BridgeTypeOK, PoweredImpliesCard, PoweredCardIsAtrCard,
       SlotStep, Slot!SlotNext, Slot!slotVars, Slot!Close, Slot!Detect, Slot!Lose,
       SuccessReportsSlot, refresh_card_presence, RefreshPolls, RefreshedCard,
       RefreshedPower, Ok

LEMMA BridgeInvInductive == BridgeInv /\ [BridgeNext]_bridgeVars => BridgeInv'
<1>1. ASSUME BridgeInv, NEW f \in Frames, Decodable(f), handle_command(decode(f))
      PROVE  BridgeInv'
  BY <1>1, DecodeType, HandleCommandType, HandleCommandSafe, BridgeAssumption
     DEF BridgeInv
<1>2. ASSUME BridgeInv, NEW poll \in PollResults(reader_name),
             refresh_card_presence(poll)
      PROVE  BridgeInv'
  BY <1>2, RefreshType, RefreshSafe DEF BridgeInv
<1>3. ASSUME BridgeInv, UNCHANGED bridgeVars
      PROVE  BridgeInv'
  BY <1>3 DEF BridgeInv, BridgeTypeOK, PoweredImpliesCard, PoweredCardIsAtrCard,
              bridgeVars
<1> QED BY <1>1, <1>2, <1>3 DEF BridgeNext

LEMMA BridgeInitSafe == BridgeInit => BridgeInv
<1>1. << >> \in Seq(ReaderCall)
  OBVIOUS
<1> QED BY <1>1, DefaultParametersType
        DEF BridgeInit, BridgeInv, BridgeTypeOK, PoweredImpliesCard,
            PoweredCardIsAtrCard

LEMMA BridgeInvAlways == BridgeSpec => []BridgeInv
BY BridgeInitSafe, BridgeInvInductive, PTL DEF BridgeSpec

\* A powered slot has a card: every path of handle_command and
\* refresh_card_presence that forgets the card drops its power too.
THEOREM PoweredSlotHasCard == BridgeSpec => []PoweredImpliesCard
<1>1. BridgeInv => PoweredImpliesCard
  BY DEF BridgeInv
<1> QED BY <1>1, BridgeInvAlways, PTL

\* On a real reader the card of a powered slot is the card whose ATR the host
\* was given: no command, poll or failure separates slot_powered, current_card
\* and the last IccPowerOn answer.
THEOREM SessionSafe == BridgeSpec => []PoweredCardIsAtrCard
<1>1. BridgeInv => PoweredCardIsAtrCard
  BY DEF BridgeInv
<1> QED BY <1>1, BridgeInvAlways, PTL

\* A response without error carries the ICC status the slot is left in, for
\* every handler of handle_command.
THEOREM SuccessIsTruthful == BridgeSpec => []SuccessReportsSlot
<1>1. BridgeInit => SuccessReportsSlot
  BY DEF BridgeInit, SuccessReportsSlot
<1>2. BridgeInv /\ SuccessReportsSlot /\ [BridgeNext]_bridgeVars
      => SuccessReportsSlot'
  <2>1. ASSUME BridgeInv, NEW f \in Frames, Decodable(f), handle_command(decode(f))
        PROVE  SuccessReportsSlot'
    BY <2>1, DecodeType, HandleCommandSafe, BridgeAssumption
  <2>2. ASSUME SuccessReportsSlot, UNCHANGED bridgeVars
        PROVE  SuccessReportsSlot'
    BY <2>2 DEF SuccessReportsSlot, CurrentIccStatus, IccStatusOf, bridgeVars
  <2> QED BY <2>1, <2>2, RefreshSafe DEF BridgeNext
<1> QED BY <1>1, <1>2, BridgeInvAlways, PTL DEF BridgeSpec

\* The bridge implements CcidSlot: an open session stays with its card.
THEOREM BridgeImplementsSlot == BridgeSpec => SlotRefinement
<1>1. BridgeInit => Slot!SlotInit
  BY DEF BridgeInit, Slot!SlotInit
<1>2. BridgeInv /\ [BridgeNext]_bridgeVars => SlotStep
  <2>1. ASSUME BridgeInv, NEW f \in Frames, Decodable(f), handle_command(decode(f))
        PROVE  SlotStep
    BY <2>1, DecodeType, HandleCommandSafe, BridgeAssumption
  <2>2. ASSUME UNCHANGED bridgeVars
        PROVE  SlotStep
    BY <2>2 DEF SlotStep, Slot!slotVars, bridgeVars
  <2> QED BY <2>1, <2>2, RefreshSafe DEF BridgeNext
<1> QED BY <1>1, <1>2, BridgeInvAlways, PTL
        DEF BridgeSpec, SlotRefinement, Slot!SlotSpec, SlotStep

-----------------------------------------------------------------------------
(* Calls of the reader *)

LEMMA NormalizedGetResponse ==
    ASSUME NEW apdu \in Seq(Byte), Len(NormalizeApdu(apdu)) > 1,
           NormalizeApdu(apdu)[2] = APDU_GET_RESPONSE_INS
    PROVE  NormalizeApdu(apdu)[1] = 0
<1>1. CASE Len(apdu) > 1 /\ apdu[2] = APDU_GET_RESPONSE_INS
  <2>1. 0 \in Byte /\ 1 \in 1..Len(apdu)
    BY <1>1 DEF Byte
  <2> QED BY <1>1, <2>1, ExceptSeq DEF NormalizeApdu
<1>2. CASE ~(Len(apdu) > 1 /\ apdu[2] = APDU_GET_RESPONSE_INS)
  BY <1>2 DEF NormalizeApdu
<1> QED BY <1>1, <1>2

LEMMA HandleCommandCalls ==
    ASSUME BridgeInv, NEW c \in CcidCommand, handle_command(c)
    PROVE  OneReaderCall' /\ ApduInSession
<1> USE DEF OneReaderCall, ApduInSession
<1>1. CASE calls' = << >>
  BY <1>1
<1>2. ASSUME NEW r, calls' = <<r>>, r.call # "exchange_apdu"
      PROVE  OneReaderCall' /\ ApduInSession
  <2>1. Len(calls') = 1 /\ DOMAIN calls' = 1..1 /\ calls'[1] = r
    BY <1>2
  <2> QED BY <1>2, <2>1
<1>3. ASSUME NEW poll \in PollResults(reader_name),
             NEW xchg \in ExchangeResults(reader_name), XfrExchange(c, poll, xchg)
      PROVE  OneReaderCall' /\ ApduInSession
  <2>1. /\ slot_powered /\ current_card # None
        /\ calls' = Append(<< >>, ExchangeApdu(NormalizeApdu(c.payload)))
        /\ reader_name # "dummy" => current_card = atr_card
    BY <1>3 DEF BridgeInv, BridgeTypeOK, PoweredImpliesCard, PoweredCardIsAtrCard,
                XfrExchange, XfrCard, XfrPower, XfrPoll, XfrLooks, RefreshedPower
  <2>2. c.payload \in Seq(Byte)
    BY DEF CcidCommand
  <2>3. /\ Len(calls') = 1 /\ DOMAIN calls' = 1..1
        /\ calls'[1] = ExchangeApdu(NormalizeApdu(c.payload))
    BY <2>1
  <2> QED BY <2>1, <2>2, <2>3, NormalizedGetResponse DEF ExchangeApdu
<1>4. ASSUME NEW poll \in PollResults(reader_name),
             \/ IccPowerOn(c, poll) \/ GetSlotStatus(c, poll)
             \/ XfrLookFails(c, poll) \/ XfrBlocked(c, poll)
      PROVE  calls' = << >> \/ calls' = <<PollCard>>
  BY <1>4 DEF IccPowerOn, GetSlotStatus, XfrLookFails, XfrBlocked, XfrPoll,
              RefreshCalls
<1>5. ASSUME NEW off \in PowerOffResults(reader_name), IccPowerOff(c, off)
      PROVE  calls' = <<PowerOff>>
  BY <1>5 DEF IccPowerOff
<1>6. ASSUME \/ GetParameters(c) \/ ResetParameters(c) \/ SetParameters(c)
             \/ AbortOrUnknown(c)
      PROVE  calls' = << >>
  BY <1>6 DEF GetParameters, ResetParameters, SetParameters, AbortOrUnknown
<1>7. PollCard.call # "exchange_apdu" /\ PowerOff.call # "exchange_apdu"
  BY DEF PollCard, PowerOff
<1> QED BY <1>1, <1>2, <1>3, <1>4, <1>5, <1>6, <1>7 DEF handle_command

\* An APDU reaches the reader only in a powered session with the card the host
\* powered on, and GET RESPONSE always with CLA 00 (the XfrBlock handler).
THEOREM ApdusStayInSession == BridgeSpec => ApduOnlyInSession
<1>1. BridgeInv /\ [BridgeNext]_bridgeVars => [ApduInSession]_bridgeVars
  <2>1. ASSUME BridgeInv, NEW f \in Frames, Decodable(f), handle_command(decode(f))
        PROVE  ApduInSession
    BY <2>1, DecodeType, HandleCommandCalls, BridgeAssumption
  <2>2. ASSUME NEW poll, refresh_card_presence(poll)
        PROVE  ApduInSession
    BY <2>2 DEF refresh_card_presence, RefreshCalls, PollCard, ApduInSession
  <2> QED BY <2>1, <2>2 DEF BridgeNext
<1> QED BY <1>1, BridgeInvAlways, PTL DEF BridgeSpec, ApduOnlyInSession

\* handle_command calls the reader at most once: the presence check and the
\* exchange of XfrBlock exclude each other.
THEOREM OneCallPerCommand == BridgeSpec => []OneReaderCall
<1>1. BridgeInit => OneReaderCall
  BY DEF BridgeInit, OneReaderCall
<1>2. BridgeInv /\ OneReaderCall /\ [BridgeNext]_bridgeVars => OneReaderCall'
  <2>1. ASSUME BridgeInv, NEW f \in Frames, Decodable(f), handle_command(decode(f))
        PROVE  OneReaderCall'
    BY <2>1, DecodeType, HandleCommandCalls, BridgeAssumption
  <2>2. ASSUME NEW poll, refresh_card_presence(poll)
        PROVE  OneReaderCall'
    <3>1. calls' = << >> \/ calls' = <<PollCard>>
      BY <2>2 DEF refresh_card_presence, RefreshCalls
    <3>2. CASE calls' = << >>
      BY <3>2 DEF OneReaderCall
    <3>3. CASE calls' = <<PollCard>>
      <4>1. Len(calls') = 1
        BY <3>3
      <4> QED BY <4>1 DEF OneReaderCall
    <3> QED BY <3>1, <3>2, <3>3
  <2>3. ASSUME OneReaderCall, UNCHANGED bridgeVars
        PROVE  OneReaderCall'
    BY <2>3 DEF OneReaderCall, bridgeVars
  <2> QED BY <2>1, <2>2, <2>3 DEF BridgeNext
<1> QED BY <1>1, <1>2, BridgeInvAlways, PTL DEF BridgeSpec
=============================================================================
