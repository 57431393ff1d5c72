----------------------------- MODULE CcidBridge -----------------------------
(***************************************************************************)
(* CcidBridge of src/ccid/bridge.rs: the slot state machine that turns     *)
(* CCID commands into calls of an NFC reader.  handle_command runs under   *)
(* the bridge's mutex, so each command is one step; what the reader        *)
(* returns inside it is an input of the step.                              *)
(***************************************************************************)
EXTENDS NfcReader

CONSTANTS Frames,             \* the byte strings a host writes
          BuildPseudoAtr(_)   \* the ATR built for a card (module PseudoAtr)

ASSUME BridgeAssumption ==
    /\ Frames \subseteq Seq(Byte)
    /\ \A c \in Cards : BuildPseudoAtr(c) \in Seq(Byte)

VARIABLES
    reader_name,   \* reader_capabilities.name, fixed when the bridge is made
    current_card,  \* the card last detected, or None
    slot_powered,
    protocol_num,
    parameters,
    reply,         \* what the last handle_command returned; None if the last
                   \*   step ran no command
    calls,         \* history: the reader calls the last step made
    atr_card       \* history: the card the last IccPowerOn answered for

bridgeVars == <<reader_name, current_card, slot_powered, protocol_num,
                parameters, reply, calls, atr_card>>

GENERIC_FAILURE_ERROR == 255
T1_PROTOCOL_NUM == 1
DEFAULT_T1_PARAMETERS == <<17, 16, 0, 21, 0, 254, 0>>
APDU_GET_RESPONSE_INS == 192

\* The reader calls a step records.
PollCard == [call |-> "poll_card", apdu |-> << >>]
PowerOff == [call |-> "power_off", apdu |-> << >>]
ExchangeApdu(apdu) == [call |-> "exchange_apdu", apdu |-> apdu]

ReaderCall == [call : {"poll_card", "power_off", "exchange_apdu"}, apdu : Seq(Byte)]

\* current_icc_status, of a card and a power flag.
IccStatusOf(card, powered) == IF card = None THEN "NotPresent"
                              ELSE IF powered THEN "Active" ELSE "Inactive"

CurrentIccStatus == IccStatusOf(current_card, slot_powered)

card_present == current_card # None

-----------------------------------------------------------------------------
(* Responses *)

Response(kind, c, icc, status, extra, payload) ==
    [kind |-> kind, slot |-> c.slot, seq |-> c.seq, icc |-> icc,
     status |-> status, extra |-> extra, payload |-> payload,
     error |-> IF status = "Failed" THEN GENERIC_FAILURE_ERROR ELSE 0]

SlotStatusOk(c, icc)     == Response("SlotStatus", c, icc, "NoError", 0, << >>)
SlotStatusFailed(c, icc) == Response("SlotStatus", c, icc, "Failed", 0, << >>)
DataBlock(c, payload) == Response("DataBlock", c, "Active", "NoError", 0, payload)

\* parameters_response, with the fields as the handler leaves them.
ParametersResponse(c, status) ==
    Response("Parameters", c, CurrentIccStatus, status, protocol_num', parameters')

-----------------------------------------------------------------------------
(* refresh_card_presence: polls unless a powered card is connected. *)

AlwaysPolls == TRUE   \* fault: no early return

RefreshPolls == ~(slot_powered /\ current_card # None)

RefreshFails(poll) == RefreshPolls /\ poll.tag = "Err"

RefreshedCard(poll) ==
    IF RefreshPolls /\ poll.tag = "Ok" THEN poll.val ELSE current_card

RefreshedPower(poll) ==
    slot_powered /\ ~(RefreshPolls /\ poll = Ok(None))

RefreshCalls == IF RefreshPolls THEN <<PollCard>> ELSE << >>

\* The refresh an interrupt IN transfer makes.
refresh_card_presence(poll) ==
    /\ current_card' = RefreshedCard(poll)
    /\ slot_powered' = RefreshedPower(poll)
    /\ calls' = RefreshCalls
    /\ reply' = None
    /\ UNCHANGED <<reader_name, protocol_num, parameters, atr_card>>

-----------------------------------------------------------------------------
(* handle_command, one action per command *)

IccPowerOn(c, poll) ==
    /\ c.op = "IccPowerOn"
    /\ \/ /\ poll.tag = "Ok" /\ poll.val # None
          /\ slot_powered' = TRUE
          /\ reply' = DataBlock(c, BuildPseudoAtr(poll.val))
       \/ /\ poll = Ok(None)
          /\ slot_powered' = FALSE
          /\ reply' = SlotStatusFailed(c, "NotPresent")
       \/ /\ poll = Err
          /\ slot_powered' = FALSE
          /\ reply' = SlotStatusFailed(c, "Inactive")
    /\ current_card' = poll.val   \* None when the poll failed
    /\ atr_card' = poll.val
    /\ calls' = <<PollCard>>
    /\ UNCHANGED <<reader_name, protocol_num, parameters>>

\* Fault: the flag is not reset.
PowerOffKeepsFlag(c, off) ==
    /\ c.op = "IccPowerOff"
    /\ reply' = IF off = Err THEN SlotStatusFailed(c, "Inactive")
                ELSE SlotStatusOk(c, IccStatusOf(current_card, FALSE))
    /\ calls' = <<PowerOff>>
    /\ UNCHANGED <<reader_name, current_card, slot_powered, protocol_num,
                   parameters, atr_card>>

IccPowerOff(c, off) ==
    /\ c.op = "IccPowerOff"
    /\ \/ /\ off = Err
          /\ reply' = SlotStatusFailed(c, "Inactive")
          /\ UNCHANGED slot_powered
       \/ /\ off = Ok(None)
          /\ slot_powered' = FALSE
          /\ reply' = SlotStatusOk(c, IccStatusOf(current_card, FALSE))
    /\ calls' = <<PowerOff>>
    /\ UNCHANGED <<reader_name, current_card, protocol_num, parameters, atr_card>>

GetSlotStatus(c, poll) ==
    /\ c.op = "GetSlotStatus"
    /\ current_card' = RefreshedCard(poll)
    /\ \/ /\ RefreshFails(poll)
          /\ slot_powered' = RefreshedPower(poll)
          /\ reply' = SlotStatusFailed(c, "Inactive")
       \/ /\ ~RefreshFails(poll)
          /\ slot_powered' = (RefreshedPower(poll)
                 \/ (RefreshedCard(poll) # None /\ reader_name = "dummy"))
          /\ reply' = SlotStatusOk(c, IccStatusOf(current_card', slot_powered'))
    /\ calls' = RefreshCalls
    /\ UNCHANGED <<reader_name, protocol_num, parameters, atr_card>>

GetParameters(c) ==
    /\ c.op = "GetParameters"
    /\ UNCHANGED <<protocol_num, parameters>>
    /\ reply' = ParametersResponse(c, "NoError")
    /\ calls' = << >>
    /\ UNCHANGED <<reader_name, current_card, slot_powered, atr_card>>

ResetParameters(c) ==
    /\ c.op = "ResetParameters"
    /\ protocol_num' = T1_PROTOCOL_NUM
    /\ parameters' = DEFAULT_T1_PARAMETERS
    /\ reply' = ParametersResponse(c, "NoError")
    /\ calls' = << >>
    /\ UNCHANGED <<reader_name, current_card, slot_powered, atr_card>>

AcceptsAnyLength(c) == c.param = T1_PROTOCOL_NUM   \* fault: no length check

AcceptsParameters(c) ==
    c.param = T1_PROTOCOL_NUM /\ Len(c.payload) = Len(DEFAULT_T1_PARAMETERS)

SetParameters(c) ==
    /\ c.op = "SetParameters"
    /\ \/ /\ ~AcceptsParameters(c)
          /\ UNCHANGED <<protocol_num, parameters>>
          /\ reply' = ParametersResponse(c, "Failed")
       \/ /\ AcceptsParameters(c)
          /\ protocol_num' = c.param
          /\ parameters' = c.payload
          /\ reply' = ParametersResponse(c, "NoError")
    /\ calls' = << >>
    /\ UNCHANGED <<reader_name, current_card, slot_powered, atr_card>>

\* normalize_apdu_for_exchange: GET RESPONSE is sent with CLA 00.
NormalizeApdu(apdu) ==
    IF Len(apdu) > 1 /\ apdu[2] = APDU_GET_RESPONSE_INS
    THEN [apdu EXCEPT ![1] = 0] ELSE apdu

(* XfrBlock looks for a card first when it knows of none.  XfrCard is the   *)
(* card and XfrPower the power flag after that look, XfrPoll the call.      *)
XfrLooks == current_card = None
XfrCard(poll)  == IF XfrLooks THEN RefreshedCard(poll) ELSE current_card
UncheckedPower(poll) == TRUE   \* fault: exchanges whether powered or not
XfrPower(poll) == IF XfrLooks THEN RefreshedPower(poll) ELSE slot_powered
XfrPoll        == IF XfrLooks THEN RefreshCalls ELSE << >>

XfrLookFails(c, poll) ==
    /\ c.op = "XfrBlock"
    /\ XfrLooks /\ RefreshFails(poll)
    /\ current_card' = RefreshedCard(poll)
    /\ slot_powered' = FALSE
    /\ reply' = SlotStatusFailed(c, "Inactive")
    /\ calls' = XfrPoll
    /\ UNCHANGED <<reader_name, protocol_num, parameters, atr_card>>

XfrBlocked(c, poll) ==
    /\ c.op = "XfrBlock"
    /\ ~(XfrLooks /\ RefreshFails(poll))
    /\ XfrCard(poll) = None \/ ~XfrPower(poll)
    /\ current_card' = XfrCard(poll)
    /\ slot_powered' = XfrPower(poll)
    /\ reply' = SlotStatusFailed(c, IF current_card' = None THEN "NotPresent"
                                    ELSE "Inactive")
    /\ calls' = XfrPoll
    /\ UNCHANGED <<reader_name, protocol_num, parameters, atr_card>>

\* Fault: the card is forgotten, its power is not.
LosesCardOnly(c) ==
    /\ current_card' = None
    /\ UNCHANGED slot_powered
    /\ reply' = SlotStatusFailed(c, "NotPresent")

\* The reader reports the target lost.
LosesTarget(c) ==
    /\ current_card' = None
    /\ slot_powered' = FALSE
    /\ reply' = SlotStatusFailed(c, "NotPresent")

XfrExchange(c, poll, xchg) ==
    /\ c.op = "XfrBlock"
    /\ ~(XfrLooks /\ RefreshFails(poll))
    /\ XfrCard(poll) # None /\ XfrPower(poll)
    /\ \/ /\ xchg.tag = "Ok"
          /\ current_card' = XfrCard(poll) /\ slot_powered' = XfrPower(poll)
          /\ reply' = DataBlock(c, xchg.val)
       \/ xchg = TargetLost /\ LosesTarget(c)
       \/ /\ xchg = Err
          /\ current_card' = XfrCard(poll) /\ slot_powered' = XfrPower(poll)
          /\ reply' = SlotStatusFailed(c, IccStatusOf(current_card', slot_powered'))
    /\ calls' = Append(XfrPoll, ExchangeApdu(NormalizeApdu(c.payload)))
    /\ UNCHANGED <<reader_name, protocol_num, parameters, atr_card>>

\* Abort only reports; an unknown message type is reported as failed.
AbortOrUnknown(c) ==
    /\ \/ c.op = "Abort" /\ reply' = SlotStatusOk(c, CurrentIccStatus)
       \/ c.op = "Unknown" /\ reply' = SlotStatusFailed(c, CurrentIccStatus)
    /\ calls' = << >>
    /\ UNCHANGED <<reader_name, current_card, slot_powered, protocol_num,
                   parameters, atr_card>>

handle_command(c) ==
    \/ \E poll \in PollResults(reader_name) :
          \/ IccPowerOn(c, poll)
          \/ GetSlotStatus(c, poll)
          \/ XfrLookFails(c, poll)
          \/ XfrBlocked(c, poll)
          \/ \E xchg \in ExchangeResults(reader_name) : XfrExchange(c, poll, xchg)
    \/ \E off \in PowerOffResults(reader_name) : IccPowerOff(c, off)
    \/ GetParameters(c)
    \/ ResetParameters(c)
    \/ SetParameters(c)
    \/ AbortOrUnknown(c)

-----------------------------------------------------------------------------

BridgeInit ==
    /\ reader_name \in Backends
    /\ current_card = None
    /\ slot_powered = FALSE
    /\ protocol_num = T1_PROTOCOL_NUM
    /\ parameters = DEFAULT_T1_PARAMETERS
    /\ reply = None
    /\ calls = << >>
    /\ atr_card = None

BridgeNext ==
    \/ \E f \in Frames : Decodable(f) /\ handle_command(decode(f))
    \/ \E poll \in PollResults(reader_name) : refresh_card_presence(poll)

BridgeSpec == BridgeInit /\ [][BridgeNext]_bridgeVars

-----------------------------------------------------------------------------
(* Properties *)

\* Every field of the bridge stays in its range; in particular the parameter
\* block GetParameters answers with is always a T=1 block of seven bytes.
BridgeTypeOK ==
    /\ reader_name \in Backends
    /\ current_card \in Cards \cup {None}
    /\ slot_powered \in BOOLEAN
    /\ protocol_num = T1_PROTOCOL_NUM
    /\ parameters \in Seq(Byte) /\ Len(parameters) = Len(DEFAULT_T1_PARAMETERS)
    /\ reply \in CcidResponse \cup {None}
    /\ calls \in Seq(ReaderCall)
    /\ atr_card \in Cards \cup {None}

\* The slot is never powered without a card: every path that forgets the card
\* (failed power-on, lost target, empty poll) also drops power.
PoweredImpliesCard == slot_powered => current_card # None

\* While the slot is powered, the bridge's card is the one whose ATR the host
\* was given: no poll replaces it behind the host's back.  The dummy backend
\* is exempt, since GetSlotStatus powers its slot without an ATR.
PoweredCardIsAtrCard ==
    slot_powered /\ reader_name # "dummy" => current_card = atr_card

\* A response without error reports the slot status the bridge is left in, so
\* the host's idea of the slot follows from the replies.
SuccessReportsSlot ==
    reply # None =>
        (reply.status = "NoError" => reply.icc = CurrentIccStatus)

\* The reader is called at most once per command, so no command can leave the
\* reader half-way between two calls.
OneReaderCall == Len(calls) <= 1

\* An APDU is handed to the reader only in a powered session with the card the
\* host powered on, and GET RESPONSE always goes out with CLA 00.
ApduInSession ==
    \A i \in DOMAIN calls' :
       calls'[i].call = "exchange_apdu" =>
          /\ slot_powered /\ current_card # None
          /\ reader_name # "dummy" => current_card = atr_card
          /\ LET apdu == calls'[i].apdu
             IN  Len(apdu) > 1 /\ apdu[2] = APDU_GET_RESPONSE_INS => apdu[1] = 0

ApduOnlyInSession == [][ApduInSession]_bridgeVars

\* The bridge implements the slot of CcidSlot, its session being the card of a
\* powered slot: no poll, parameter command or error path moves an open
\* session to another card, and only the dummy backend opens one without
\* giving the host an ATR.
Slot == INSTANCE CcidSlot
          WITH eager    <- reader_name = "dummy",
               card     <- current_card,
               session  <- IF slot_powered THEN current_card ELSE None,
               answered <- atr_card

SlotRefinement == Slot!SlotSpec
=============================================================================
