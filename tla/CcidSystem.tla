----------------------------- MODULE CcidSystem -----------------------------
(***************************************************************************)
(* The CCID bridge on a PN532: a command of the host, or the poll of an    *)
(* interrupt transfer, runs the reader call it needs step by step, under   *)
(* the bridge's mutex, while cards come and go; what the call returns is   *)
(* the input of the bridge's action.                                       *)
(***************************************************************************)
EXTENDS CcidBridge, Pn532Reader

VARIABLES
    serving,      \* the command in progress, Interrupt, or None
    served,       \* the command the last step answered, or None
    off_failed    \* history: a power-off failed since the last power-on

systemVars == <<bridgeVars, pn532Vars, serving, served, off_failed>>

\* The poll an interrupt IN transfer makes, as a pseudo command.
Interrupt == [op |-> "Interrupt"]

Commands == {decode(f) : f \in {g \in Frames : Decodable(g)}}

ASSUME SystemAssumption ==
    /\ \A c \in Commands : c.op = "XfrBlock" => NormalizeApdu(c.payload) \in Apdus
    /\ None \notin Commands \cup {Interrupt}

-----------------------------------------------------------------------------
(* Which reader call a command makes, and what the bridge does with it *)

Polls(c) ==
    \/ c.op = "IccPowerOn"
    \/ c.op \in {"GetSlotStatus", "Interrupt"} /\ RefreshPolls
    \/ c.op = "XfrBlock" /\ XfrLooks

Exchanges(c) == c.op = "XfrBlock" /\ ~XfrLooks /\ slot_powered

CallsReader(c) == Polls(c) \/ Exchanges(c) \/ c.op = "IccPowerOff"

StartCall(c) ==
    \/ Polls(c) /\ poll_card
    \/ c.op = "IccPowerOff" /\ power_off
    \/ Exchanges(c) /\ exchange_apdu(NormalizeApdu(c.payload))

\* The bridge's action with r, the result of the reader call it makes.
Conclude(c, r) ==
    \/ IccPowerOn(c, r)
    \/ IccPowerOff(c, r)
    \/ GetSlotStatus(c, r)
    \/ XfrLookFails(c, r)
    \/ XfrBlocked(c, r)
    \/ XfrExchange(c, Ok(None), r)
    \/ c = Interrupt /\ refresh_card_presence(r)

\* A step of the reader in the service of c: the bridge moves when it returns.
Serve(c) ==
    \/ /\ returned' = None
       /\ serving' = c
       /\ served' = None
       /\ UNCHANGED <<bridgeVars, off_failed>>
    \/ /\ returned' # None
       /\ Conclude(c, returned'.result)
       /\ serving' = None
       /\ served' = c
       /\ off_failed' = ((off_failed /\ c.op # "IccPowerOn")
                          \/ (c.op = "IccPowerOff" /\ returned'.result = Err))

Accept(c) ==
    /\ serving = None /\ CallsReader(c)
    /\ StartCall(c)
    /\ Serve(c)

Run == serving # None /\ ReaderStep /\ Serve(serving)

\* A command that needs no reader call is answered at once.
AnswerAtOnce(c) ==
    /\ serving = None /\ ~CallsReader(c)
    /\ \/ GetSlotStatus(c, Ok(None))
       \/ XfrBlocked(c, Ok(None))
       \/ GetParameters(c)
       \/ ResetParameters(c)
       \/ SetParameters(c)
       \/ AbortOrUnknown(c)
       \/ c = Interrupt /\ refresh_card_presence(Ok(None))
    /\ served' = c
    /\ returned' = None
    /\ UNCHANGED <<readerVars, call, worldVars, historyVars, serving, off_failed>>

\* A step the bridge does not take part in.
Beside(step) ==
    /\ step
    /\ served' = None
    /\ UNCHANGED <<bridgeVars, serving, off_failed>>

World == Beside(WorldStep)

-----------------------------------------------------------------------------

SystemInit ==
    /\ BridgeInit /\ reader_name = "pn532-uart"
    /\ Pn532Init
    /\ serving = None
    /\ served = None
    /\ off_failed = FALSE

SystemNext ==
    \/ \E c \in Commands \cup {Interrupt} : Accept(c) \/ AnswerAtOnce(c)
    \/ Run
    \/ World

SystemSpec == SystemInit /\ [][SystemNext]_systemVars

Serves(c) == Accept(c) \/ AnswerAtOnce(c)

(* The bridge's thread and the chip run on, time passes, and the host keeps *)
(* reading the interrupt pipe and sending APDUs, whatever else it does.     *)
SystemLiveSpec ==
    /\ SystemSpec
    /\ WF_systemVars(Run)
    /\ WF_systemVars(Beside(ChipAck \/ ChipAnswer))
    /\ SF_systemVars(Beside(Tick))
    /\ SF_systemVars(Serves(Interrupt))
    /\ \A c \in Commands : c.op = "XfrBlock" => SF_systemVars(Serves(c))

-----------------------------------------------------------------------------
(* Properties *)

\* The bridge on a PN532 behaves as the bridge specification says: whatever
\* happens on the serial line and in the field, a command makes the one reader
\* call the specification has it make, and the PN532 returns only what the
\* specification expects of it.  (This is BridgeSpec, with the many steps that
\* do not concern the bridge set apart.)
BridgeRefinement ==
    BridgeInit /\ [][UNCHANGED bridgeVars \/ BridgeNext]_systemVars

\* The APDU answered by the last step was answered by the card whose ATR the
\* host was given.
AnsweredByAtrCard ==
    served # None =>
      (served.op = "XfrBlock" /\ reply.kind = "DataBlock"
         => reply.payload = CardAnswer(atr_card, NormalizeApdu(served.payload)))

\* In a session every APDU is answered by the card whose ATR the host was
\* given, although cards are exchanged behind the reader's back and presence
\* is reported from a cache: as long as the serial line is in step and no
\* power-off failed in the session.
SessionKeepsCard == ~out_of_step /\ ~off_failed => AnsweredByAtrCard

\* The card a slot status reports was on the reader within the poll interval.
StatusIsRecent ==
    served # None =>
      (served.op = "GetSlotStatus" /\ reply.status = "NoError"
                                   /\ reply.icc # "NotPresent"
         => seen[current_card] < PN532_POLL_INTERVAL)

\* While the slot is not powered, GetSlotStatus reports a card only if it was
\* on the reader within the poll interval, unless the latest poll failed.
UnpoweredStatusIsRecent ==
    ~out_of_step /\ ~poll_failed /\ ~slot_powered => StatusIsRecent

\* A card taken away for good is noticed, powered or not: the next APDU loses
\* the target, or a poll after the interval finds the reader empty, and the
\* cached card never comes back.  Provided the serial line works: it stays in
\* step, and only finitely many commands cannot be sent.
RemovalNoticed ==
    (/\ <>[](card_in_field = None)
     /\ []~out_of_step
     /\ <>[][~SendFails]_systemVars)
      => <>[](current_card = None)

\* The CCID layer is to "map CCID slot state to NFC token state"
\* (docs/architecture.md): in a session the APDUs reach the card whose ATR the
\* host was given, as long as the serial line is in step.
SlotStateIsTokenState == ~out_of_step => AnsweredByAtrCard
=============================================================================
