---------------------------- MODULE Pn532Reader -----------------------------
(***************************************************************************)
(* Pn532UartReader of src/nfc/pn532.rs.  A call of the NfcReader trait is  *)
(* a series of commands to the PN532, each sent, acknowledged and answered *)
(* over a serial line; cards come and go, the chip works, and the bytes it *)
(* has sent wait on the line, between any two of these steps.              *)
(*                                                                         *)
(* The chip and the send, receive_ack and process of the pn532 crate are   *)
(* external.  The chip handles one command at a time: it acknowledges,     *)
(* then answers, or refuses the command with its error frame; a new        *)
(* command replaces one it has not answered; it may drop a command.        *)
(* Nothing in the code discards bytes left on the line.                    *)
(***************************************************************************)
EXTENDS NfcReader, Pn532Frame

CONSTANTS Apdus,          \* the APDUs the CCID layer sends
          CardAnswer(_,_),\* what a card answers to an APDU
          MaxBacklog      \* bound: bytes left on the line when a call starts

ASSUME Pn532Assumption ==
    /\ Cards \subseteq [uid : Seq(Byte), historical_bytes : Seq(Byte)]
    /\ Apdus \subseteq Seq(Byte)
    /\ \A c \in Cards, a \in Apdus : CardAnswer(c, a) \in ApduResponses
    \* What a card says fits the chip's formats: one byte for the length of
    \* a UID and of an ATS, two for that of a frame.
    /\ \A c \in Cards : {Len(c.uid), 2 + Len(c.historical_bytes)} \subseteq Byte
    /\ \A c \in Cards, a \in Apdus : Len(CardAnswer(c, a)) + 3 < FrameLimit
    /\ MaxBacklog \in Nat

VARIABLES
    \* Pn532UartReader
    active_target,     \* the chip's number of the selected target, or None
    cached_card,       \* the card the last complete poll found, or None
    last_poll,         \* poll intervals since the last poll, up to LongAgo
    rf_field_enabled,
    \* the call in progress
    call,              \* its operation, APDU, stage and phase; None between calls
    returned,          \* what the last step returned, None if it returned nothing
    \* the world
    line,              \* the bytes the chip has sent and nobody has read
    chip,              \* its field, its selected card, the command it works on
    card_in_field,     \* the card on the reader, or None
    \* history
    out_of_step,       \* bytes may have been lost, left or still to come: a
                       \*   wait timed out or an answer was refused
    poll_failed,       \* the last poll of the chip gave no answer
    seen               \* intervals since each card, or no card (None), was there

readerVars == <<active_target, cached_card, last_poll, rf_field_enabled>>
worldVars  == <<line, chip, card_in_field>>
historyVars == <<out_of_step, poll_failed, seen>>
pn532Vars  == <<readerVars, call, returned, worldVars, historyVars>>

PN532_BUFFER_SIZE == 320

\* Ages are counted in units of PN532_POLL_INTERVAL_MS.
PN532_POLL_INTERVAL == 1
PN532_ABSENT_POLL_INTERVAL == 2
LongAgo == 2

\* Command codes; the chip answers with the code plus one.
RFConfiguration     == 50
InListPassiveTarget == 74
InDataExchange      == 64

RF_FIELD_ON  == <<1, 1>>
RF_FIELD_OFF == <<1, 0>>

ACK == <<0, 0, 255, 0, 255, 0>>
ERROR_FRAME == <<0, 0, 255, 1, 255, 127, 129, 0>>

-----------------------------------------------------------------------------
(* Stages of a call: the command the reader is about to send or waits for. *)

RfStages == {"rf_on", "rf_off", "rf_off_absent", "rf_off_lost"}
Stages   == RfStages \cup {"list", "data"}

SendsTargetTwice(stage, apdu) ==   \* fault
    IF stage = "rf_on" THEN [code |-> RFConfiguration, data |-> RF_FIELD_ON]
    ELSE IF stage \in RfStages THEN [code |-> RFConfiguration, data |-> RF_FIELD_OFF]
    ELSE IF stage = "list" THEN [code |-> InListPassiveTarget, data |-> <<1, 0>>]
    ELSE [code |-> InDataExchange, data |-> <<active_target, active_target>> \o apdu]

CommandOf(stage, apdu) ==
    IF stage = "rf_on" THEN [code |-> RFConfiguration, data |-> RF_FIELD_ON]
    ELSE IF stage \in RfStages THEN [code |-> RFConfiguration, data |-> RF_FIELD_OFF]
    ELSE IF stage = "list" THEN [code |-> InListPassiveTarget, data |-> <<1, 0>>]
    ELSE [code |-> InDataExchange, data |-> <<active_target>> \o apdu]

\* The line and the chip are idle.
Quiet == line = << >> /\ chip.pending = None

\* The operation op goes on with a command, or returns r.
Issue(op, apdu, quiet, stage) ==
    /\ call' = [op |-> op, apdu |-> apdu, stage |-> stage, phase |-> "send",
                quiet |-> quiet]
    /\ returned' = None

Return(op, apdu, quiet, r) ==
    /\ call' = None
    /\ returned' = [op |-> op, apdu |-> apdu, quiet |-> quiet, result |-> r]

\* The same from inside a call.
Proceed(stage) == Issue(call.op, call.apdu, call.quiet, stage)
Finish(r) == Return(call.op, call.apdu, call.quiet, r)

-----------------------------------------------------------------------------
(* The start of a call, up to its first command *)

OneInterval == last_poll < PN532_ABSENT_POLL_INTERVAL   \* fault: always the longer

RecentlyPolled ==
    last_poll < (IF cached_card # None THEN PN532_POLL_INTERVAL
                 ELSE PN532_ABSENT_POLL_INTERVAL)

IgnoresTarget == RecentlyPolled   \* fault: the target may be gone

can_return_cached_presence ==
    RecentlyPolled /\ (cached_card = None \/ active_target # None)

\* poll_card up to its first command, for itself or inside exchange_apdu; no
\* card then means the target is lost.
BeginPoll(op, apdu) ==
    \/ /\ can_return_cached_presence
       /\ Return(op, apdu, Quiet,
                 IF op = "exchange_apdu" THEN TargetLost ELSE Ok(cached_card))
       /\ UNCHANGED <<cached_card, last_poll>>
    \/ /\ ~can_return_cached_presence
       /\ Issue(op, apdu, Quiet, IF rf_field_enabled THEN "list" ELSE "rf_on")
       /\ last_poll' = IF rf_field_enabled THEN 0 ELSE last_poll
       /\ UNCHANGED cached_card

\* The bound on the bytes nobody reads.
MayCall == call = None /\ Len(line) <= MaxBacklog

poll_card ==
    /\ MayCall
    /\ BeginPoll("poll_card", << >>)
    /\ UNCHANGED <<active_target, rf_field_enabled, worldVars, historyVars>>

KeepsTarget ==   \* fault: the target is not forgotten
    /\ MayCall
    /\ IF rf_field_enabled THEN Issue("power_off", << >>, Quiet, "rf_off")
       ELSE Return("power_off", << >>, Quiet, Ok(None))
    /\ UNCHANGED <<readerVars, worldVars, historyVars>>

power_off ==
    /\ MayCall
    /\ active_target' = None
    /\ IF rf_field_enabled THEN Issue("power_off", << >>, Quiet, "rf_off")
       ELSE Return("power_off", << >>, Quiet, Ok(None))
    /\ UNCHANGED <<cached_card, last_poll, rf_field_enabled, worldVars,
                   historyVars>>

TooLong(apdu) == Len(apdu) + 1 > PN532_BUFFER_SIZE - 9

exchange_apdu(apdu) ==
    /\ MayCall
    /\ \/ /\ TooLong(apdu)
          /\ Return("exchange_apdu", apdu, Quiet, Err)
          /\ UNCHANGED <<cached_card, last_poll>>
       \/ /\ ~TooLong(apdu) /\ active_target # None
          /\ Issue("exchange_apdu", apdu, Quiet, "data")
          /\ UNCHANGED <<cached_card, last_poll>>
       \/ /\ ~TooLong(apdu) /\ active_target = None
          /\ BeginPoll("exchange_apdu", apdu)
    /\ UNCHANGED <<active_target, rf_field_enabled, worldVars, historyVars>>

-----------------------------------------------------------------------------
(* One command: send, wait for the acknowledgement, wait for the answer *)

FlagsAnyway ==   \* fault: the flag is set although the command failed
    /\ Finish(IF call.stage = "rf_off_lost" THEN TargetLost ELSE Err)
    /\ poll_failed' = (poll_failed \/ call.stage = "list")
    /\ rf_field_enabled' = IF call.stage \in RfStages THEN call.stage = "rf_on"
                           ELSE rf_field_enabled
    /\ UNCHANGED <<active_target, cached_card, last_poll>>

\* The command fails.  Errors of the last stage of a lost target are only
\* logged; all others end the call.
Fail == /\ Finish(IF call.stage = "rf_off_lost" THEN TargetLost ELSE Err)
        /\ poll_failed' = (poll_failed \/ call.stage = "list")
        /\ UNCHANGED readerVars

Send ==
    /\ call # None /\ call.phase = "send"
    /\ chip' = [chip EXCEPT !.pending = CommandOf(call.stage, call.apdu),
                            !.acked = FALSE]
    /\ call' = [call EXCEPT !.phase = "ack"]
    /\ returned' = None
    /\ UNCHANGED <<readerVars, line, card_in_field, historyVars>>

SendFails ==
    /\ call # None /\ call.phase = "send"
    /\ Fail
    /\ UNCHANGED <<worldVars, out_of_step, seen>>

LeavesPostamble ==   \* fault: the last byte of the answer stays on the line
    LET code == CommandOf(call.stage, call.apdu).code + 1
    IN  IF call.stage \notin RfStages THEN ReceiveDynamicResponse(line, code)
        ELSE IF Len(line) < 8 THEN Parsed("Short", << >>, 0)
        ELSE Parsed(IF IsPrefix(SubSeq(line, 1, 8), EncodeFrame(code, << >>))
                    THEN "Ok" ELSE "BadResponseFrame", << >>, 8)

\* The answer on the line as the stage reads it: process takes a fixed number
\* of bytes, nine for a command without data.
Received ==
    LET code == CommandOf(call.stage, call.apdu).code + 1
    IN  IF call.stage \notin RfStages THEN ReceiveDynamicResponse(line, code)
        ELSE IF Len(line) < 9 THEN Parsed("Short", << >>, 0)
        ELSE Parsed(IF SubSeq(line, 1, 9) = EncodeFrame(code, << >>) THEN "Ok"
                    ELSE "BadResponseFrame", << >>, 9)

\* The bytes the reader waits for are not all there.
Starved ==
    \/ call.phase = "ack" /\ Len(line) < Len(ACK)
    \/ call.phase = "resp" /\ Received.tag = "Short"

LosesStep ==
    /\ out_of_step' = TRUE
    /\ seen' = [x \in DOMAIN seen |-> 0]   \* no longer kept

WaitsForever == FALSE   \* fault: no deadline

\* TimeoutAck, TimeoutResponse, or the port's own timeout inside read_exact,
\* which has consumed what there was.
TimesOut ==
    /\ call # None /\ call.phase # "send"
    /\ Starved
    /\ Fail
    /\ line' = << >>
    /\ LosesStep
    /\ UNCHANGED <<chip, card_in_field>>

ReceiveAck ==
    /\ call # None /\ call.phase = "ack"
    /\ ~Starved
    /\ line' = SubSeq(line, Len(ACK) + 1, Len(line))
    /\ \/ /\ IsPrefix(ACK, line)
          /\ call' = [call EXCEPT !.phase = "resp"]
          /\ returned' = None
          /\ UNCHANGED <<readerVars, poll_failed>>
       \/ ~IsPrefix(ACK, line) /\ Fail
    /\ UNCHANGED <<chip, card_in_field, out_of_step, seen>>

-----------------------------------------------------------------------------
(* What each stage does with its answer *)

\* set_rf_field has succeeded; what follows depends on its caller.
RfConfigured ==
    /\ rf_field_enabled' = (call.stage = "rf_on")
    /\ \/ /\ call.stage = "rf_on"
          /\ last_poll' = 0
          /\ Proceed("list")
       \/ /\ call.stage = "rf_off"
          /\ Finish(Ok(None))
          /\ UNCHANGED last_poll
       \/ /\ call.stage = "rf_off_absent"
          /\ Finish(IF call.op = "exchange_apdu" THEN TargetLost ELSE Ok(None))
          /\ UNCHANGED last_poll
       \/ /\ call.stage = "rf_off_lost"
          /\ Finish(TargetLost)
          /\ UNCHANGED last_poll
    /\ UNCHANGED <<active_target, cached_card, poll_failed>>

\* Fault: a card in the cache is taken to be the one found.
KeepsCached(t) == IF cached_card # None THEN cached_card ELSE t.card

\* What the cache holds after a target was found.
FoundCard(t) == t.card

\* The target list, handled by poll_card.  The field was on, so switching it
\* off takes a command.
Listed(response) ==
    LET t == ParseTargets(response)
    IN  /\ \/ /\ t.tag = "None"
              /\ active_target' = None
              /\ cached_card' = None
              /\ Proceed("rf_off_absent")
           \/ /\ t.tag = "Err"
              /\ Finish(Err)
              /\ UNCHANGED <<active_target, cached_card>>
           \/ /\ t.tag = "Some"
              /\ active_target' = t.target
              /\ cached_card' = FoundCard(t)
              /\ IF call.op = "exchange_apdu" THEN Proceed("data")
                 ELSE Finish(Ok(t.card))
        /\ poll_failed' = (t.tag = "Err")
        /\ UNCHANGED <<last_poll, rf_field_enabled>>

AnyStatus(status) == TRUE   \* fault: every status keeps the target

exchange_status_keeps_target_active(status) == status = 0

RetriesTarget ==   \* fault: a lost target is polled for and asked again
    /\ active_target' = None
    /\ cached_card' = None
    /\ last_poll' = LongAgo
    /\ IF rf_field_enabled THEN Proceed("list") ELSE Finish(TargetLost)
    /\ UNCHANGED rf_field_enabled

deactivate_target ==
    /\ active_target' = None
    /\ cached_card' = None
    /\ last_poll' = LongAgo
    /\ IF rf_field_enabled THEN Proceed("rf_off_lost") ELSE Finish(TargetLost)
    /\ UNCHANGED rf_field_enabled

\* The answer to an APDU.
Exchanged(response) ==
    /\ \/ /\ response = << >>
          /\ Finish(Err)
          /\ UNCHANGED readerVars
       \/ /\ response # << >> /\ exchange_status_keeps_target_active(response[1])
          /\ Finish(Ok(Tail(response)))
          /\ UNCHANGED readerVars
       \/ /\ response # << >> /\ ~exchange_status_keeps_target_active(response[1])
          /\ deactivate_target
    /\ UNCHANGED poll_failed

\* A refused answer leaves on the line what of it has not been read: of an
\* error frame, its code, checksum and postamble.
ReceiveResponse ==
    /\ call # None /\ call.phase = "resp"
    /\ ~Starved
    /\ \E answer \in {Received} :
         /\ line' = SubSeq(line, answer.used + 1, Len(line))
         /\ \/ /\ answer.tag # "Ok"
               /\ Fail
               /\ LosesStep
            \/ /\ answer.tag = "Ok"
               /\ CASE call.stage = "list" -> Listed(answer.val)
                    [] call.stage = "data" -> Exchanged(answer.val)
                    [] OTHER -> RfConfigured
               /\ UNCHANGED <<out_of_step, seen>>
    /\ UNCHANGED <<chip, card_in_field>>

\* The steps of the thread that is in the call.
ReaderStep == Send \/ SendFails \/ TimesOut \/ ReceiveAck \/ ReceiveResponse

-----------------------------------------------------------------------------
(* The chip *)

NewsFromChip == UNCHANGED <<readerVars, call, card_in_field, historyVars>>
                  /\ returned' = None

ChipAck ==
    /\ chip.pending # None /\ ~chip.acked
    /\ line' = line \o ACK
    /\ chip' = [chip EXCEPT !.acked = TRUE]
    /\ NewsFromChip

\* The answer payload and the chip's field and selected card after it.  The
\* chip switches the field on to look for a target.
ChipResults(command) ==
    CASE command.code = RFConfiguration ->
           LET on == command.data = RF_FIELD_ON
           IN  {[payload |-> << >>, rf |-> on,
                 selected |-> IF on THEN chip.selected ELSE None]}
      [] command.code = InListPassiveTarget ->
           {[payload |-> IF card_in_field = None THEN <<0>>
                         ELSE EncodeTarget(card_in_field.uid,
                                EncodeAts({}, card_in_field.historical_bytes)),
             rf |-> TRUE, selected |-> card_in_field]}
      [] command.code = InDataExchange ->
           {[payload |-> <<1>>, rf |-> chip.rf, selected |-> chip.selected]}
             \cup IF chip.selected = None THEN {}
                  ELSE {[payload |-> <<0>> \o CardAnswer(chip.selected, Tail(command.data)),
                         rf |-> chip.rf, selected |-> chip.selected]}

ChipAnswer ==
    /\ chip.pending # None /\ chip.acked
    /\ \E r \in ChipResults(chip.pending) :
          /\ line' = line \o EncodeFrame(chip.pending.code + 1, r.payload)
          /\ chip' = [rf |-> r.rf, selected |-> r.selected, pending |-> None,
                      acked |-> FALSE]
    /\ NewsFromChip

ChipRefuses ==
    /\ chip.pending # None /\ chip.acked
    /\ line' = line \o ERROR_FRAME
    /\ chip' = [chip EXCEPT !.pending = None, !.acked = FALSE]
    /\ NewsFromChip

ChipDrops ==
    /\ chip.pending # None
    /\ chip' = [chip EXCEPT !.pending = None, !.acked = FALSE]
    /\ UNCHANGED line
    /\ NewsFromChip

-----------------------------------------------------------------------------
(* Cards and time *)

Sight(x) == IF out_of_step THEN seen ELSE [seen EXCEPT ![x] = 0]

PlaceCard(c) ==
    /\ card_in_field = None
    /\ card_in_field' = c
    /\ seen' = Sight(c)
    /\ returned' = None
    /\ UNCHANGED <<readerVars, call, line, chip, out_of_step, poll_failed>>

\* A card taken away loses its activation.
RemoveCard ==
    /\ card_in_field # None
    /\ card_in_field' = None
    /\ chip' = [chip EXCEPT !.selected = None]
    /\ seen' = Sight(None)
    /\ returned' = None
    /\ UNCHANGED <<readerVars, call, line, out_of_step, poll_failed>>

Older(n) == Min({LongAgo, n + 1})

\* A poll interval passes.  It may also pass during a call, but then as well
\* right after it: a call reads the clock only when it starts.
Tick ==
    /\ call = None
    /\ last_poll' = Older(last_poll)
    /\ seen' = IF out_of_step THEN seen
               ELSE [x \in DOMAIN seen |->
                       IF x = card_in_field THEN 0 ELSE Older(seen[x])]
    /\ returned' = None
    /\ UNCHANGED <<active_target, cached_card, rf_field_enabled, call, worldVars,
                   out_of_step, poll_failed>>

-----------------------------------------------------------------------------

\* Pn532UartFactory::open has succeeded, on a chip fresh from reset.
Pn532Init ==
    /\ active_target = None
    /\ cached_card = None
    /\ last_poll = LongAgo
    /\ rf_field_enabled = FALSE
    /\ call = None
    /\ returned = None
    /\ line = << >>
    /\ chip = [rf |-> FALSE, selected |-> None, pending |-> None, acked |-> FALSE]
    /\ card_in_field = None
    /\ out_of_step = FALSE
    /\ poll_failed = FALSE
    /\ seen = [x \in Cards \cup {None} |-> IF x = None THEN 0 ELSE LongAgo]

WorldStep ==
    \/ ChipAck \/ ChipAnswer \/ ChipRefuses \/ ChipDrops
    \/ \E c \in Cards : PlaceCard(c)
    \/ RemoveCard
    \/ Tick

Pn532Next ==
    \/ poll_card \/ power_off \/ \E apdu \in Apdus : exchange_apdu(apdu)
    \/ ReaderStep
    \/ WorldStep

Pn532Spec == Pn532Init /\ [][Pn532Next]_pn532Vars

\* The thread that is in a call goes on; the chip may stop for ever.
FairPn532Spec == Pn532Spec /\ WF_pn532Vars(ReaderStep)

-----------------------------------------------------------------------------
(* Properties *)

CallRecord == [op : {"poll_card", "power_off", "exchange_apdu"},
               apdu : Apdus \cup {<< >>}, stage : Stages,
               phase : {"send", "ack", "resp"}, quiet : BOOLEAN]

ASSUME CallAssumption == None \notin CallRecord

\* What a call returns is what the CCID layer is told to expect of this
\* backend (module NfcReader), whatever has gone wrong on the line.
ResultsOf(op) ==
    CASE op = "poll_card"     -> PollResults("pn532-uart")
      [] op = "power_off"     -> PowerOffResults("pn532-uart")
      [] op = "exchange_apdu" -> ExchangeResults("pn532-uart")

\* The reader's fields keep their types and every call keeps to the contract
\* of the NfcReader trait.  Out of step a poll may read any answer left on the
\* line: that it still finds only cards of Cards is a fact of the instance, or
\* of a set Cards that holds every card the chip's bytes can describe.
Pn532TypeOK ==
    /\ active_target \in Byte \cup {None}
    /\ cached_card \in Cards \cup {None}
    /\ last_poll \in 0..LongAgo
    /\ rf_field_enabled \in BOOLEAN
    /\ call \in CallRecord \cup {None}
    /\ returned # None => returned.result \in ResultsOf(returned.op)
    /\ line \in Seq(Byte)
    /\ card_in_field \in Cards \cup {None}

\* A selected target always has the RF field on, at every step of every call
\* and whatever fails in it: power_off, an empty poll and a failed exchange
\* forget the target before the field goes off, and a poll that cannot switch
\* the field on selects nothing.
TargetNeedsField == active_target # None => rf_field_enabled

\* A call that starts on a quiet line answers its own request: an APDU gets
\* the answer to that APDU, whatever timeouts there were before the call.
QuietLineOwnAnswer ==
    returned # None =>
      (returned.op = "exchange_apdu" /\ returned.quiet /\ returned.result.tag = "Ok"
         => \E c \in Cards : returned.result.val = CardAnswer(c, returned.apdu))

\* As long as the line is in step, an APDU is answered by the card the reader
\* believes is selected, although cards come and go unseen between calls and
\* during them.
AnsweredByCachedCard ==
    returned # None =>
      (returned.op = "exchange_apdu" /\ ~out_of_step /\ returned.result.tag = "Ok"
         => returned.result.val = CardAnswer(cached_card, returned.apdu))

\* What poll_card reports was true within the poll intervals: a reported card
\* was on the reader within the last second, and an empty reader was empty
\* within the last two.
ReportIsRecent ==
    returned.op = "poll_card" /\ returned.result.tag = "Ok"
      => seen[returned.result.val] <
            (IF returned.result.val = None THEN PN532_ABSENT_POLL_INTERVAL
             ELSE PN532_POLL_INTERVAL)

\* Presence is reported from the cache no longer than the poll intervals
\* allow, as long as the line is in step and unless the latest poll of the chip
\* failed, for then the cache says what it said before.
PresenceIsRecent ==
    returned # None /\ ~out_of_step /\ ~poll_failed => ReportIsRecent

\* The NFC layer is to "detect card presence" (docs/architecture.md): as long
\* as the line is in step, what a poll reports was true within the intervals.
PollDetectsPresence == returned # None /\ ~out_of_step => ReportIsRecent

\* As long as the line is in step, the reader knows the state of the RF field
\* between calls, and a power_off that succeeds has reset the card.
FieldFlagIsTrue ==
    ~out_of_step /\ call = None =>
      /\ rf_field_enabled = chip.rf
      /\ returned # None =>
           (returned.op = "power_off" /\ returned.result = Ok(None)
              => chip.selected = None)

\* Until a wait times out or the chip refuses a command, every byte it sends is
\* read by the command it answers: between calls the line is quiet, also after
\* calls of several commands, and after status errors and empty polls.
LineInStep == ~out_of_step /\ call = None => Quiet

\* Every call returns, whatever the chip does or fails to do and whatever is on
\* the line: each wait of process_dynamic_response has its own end, no answer
\* leaves the code without a next step, and no call goes round.  Nothing is
\* assumed of the chip, the cards or the CCID layer.
EveryCallReturns == call # None ~> call = None

\* The commands a call may still send, the current one included, and the steps
\* these take: send, acknowledgement, answer.
CommandsLeft(stage) ==
    CASE stage = "rf_on" -> 4     \* then list, data and rf_off_lost
      [] stage = "list"  -> 3
      [] stage = "data"  -> 2
      [] OTHER           -> 1

StepsLeft(c) ==
    3 * CommandsLeft(c.stage)
      - (CASE c.phase = "send" -> 0 [] c.phase = "ack" -> 1 [] c.phase = "resp" -> 2)

\* A call in progress only moves towards its end: no failure, timeout, status
\* or empty poll makes it poll or exchange a second time, so that it sends at
\* most four commands, those of set_rf_field(true), poll_card, exchange_apdu
\* and deactivate_target, under the lock of the bridge.
CallAdvances ==
    [][call # None /\ call' # call /\ call' # None
         => StepsLeft(call') < StepsLeft(call)]_pn532Vars

\* "XfrBlock forwards APDU payloads to the NFC backend", which "returns APDU
\* responses" (docs/architecture.md): the answer to an APDU is the answer to
\* that APDU.
EveryAnswerIsOwn ==
    returned # None =>
      (returned.op = "exchange_apdu" /\ returned.result.tag = "Ok"
         => \E c \in Cards : returned.result.val = CardAnswer(c, returned.apdu))
=============================================================================
