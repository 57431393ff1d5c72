-------------------------- MODULE CcidSystemProofs --------------------------
(***************************************************************************)
(* Proofs about the bridge on a PN532: what the two components' own        *)
(* invariants give together, for any commands, cards and APDUs.            *)
(***************************************************************************)
EXTENDS CcidSystem, CcidBridgeProofs, Pn532ReaderProofs

-----------------------------------------------------------------------------
(* What the reader returns to the bridge *)

\* A step of a call returns the call's own result or goes on with it.
LEMMA ReaderReturns ==
    ASSUME ReaderInv, ReaderStep
    PROVE  /\ call # None
           /\ call' # None => call'.op = call.op /\ call'.apdu = call.apdu
           /\ returned' # None => /\ call' = None /\ returned'.op = call.op
                                  /\ returned'.apdu = call.apdu
<1>0. call # None /\ call \in CallRecord
  BY DEF ReaderStep, Send, SendFails, TimesOut, ReceiveAck, ReceiveResponse, ReaderInv, CallInv
<1> DEFINE Goal == /\ call' # None => call'.op = call.op /\ call'.apdu = call.apdu
                   /\ returned' # None => /\ call' = None /\ returned'.op = call.op
                                          /\ returned'.apdu = call.apdu
<1> SUFFICES Goal
  BY <1>0
<1>1. ASSUME NEW r, Finish(r) PROVE Goal
  BY <1>1 DEF Finish, Return
<1>2. ASSUME NEW stage, Proceed(stage) PROVE Goal
  BY <1>2 DEF Proceed, Issue
<1>3. ASSUME NEW phase, call' = [call EXCEPT !.phase = phase], returned' = None PROVE Goal
  BY <1>0, <1>3 DEF CallRecord
<1>4. CASE Send
  BY <1>3, <1>4 DEF Send
<1>5. CASE Fail
  <2>1. \E r : Finish(r)
    BY <1>5 DEF Fail
  <2> QED BY <1>1, <2>1
<1>6. CASE ReceiveAck
  BY <1>3, <1>5, <1>6 DEF ReceiveAck
<1>7. CASE ReceiveResponse /\ ~Fail
  <2>1. call.stage \in Stages
    BY <1>0 DEF CallRecord
  <2>2. \/ call.stage = "list" /\ Listed(Received.val)
        \/ call.stage = "data" /\ Exchanged(Received.val)
        \/ call.stage \in RfStages /\ RfConfigured
    BY <1>7, <2>1 DEF ReceiveResponse, Stages, RfStages
  <2>3. (\E r : Finish(r)) \/ (\E stage : Proceed(stage))
    BY <2>2 DEF Listed, Exchanged, RfConfigured, deactivate_target
  <2> HIDE DEF Goal
  <2> QED BY <1>1, <1>2, <2>3
<1> HIDE DEF Goal
<1> QED BY <1>4, <1>5, <1>6, <1>7 DEF ReaderStep, SendFails, TimesOut

\* The call a command starts.
LEMMA StartReturnsOwn ==
    ASSUME NEW op, NEW apdu,
           \/ op = "poll_card" /\ apdu = << >> /\ poll_card
           \/ op = "power_off" /\ apdu = << >> /\ power_off
           \/ op = "exchange_apdu" /\ exchange_apdu(apdu)
    PROVE  /\ call' # None => call'.op = op /\ call'.apdu = apdu
           /\ returned' # None => call' = None /\ returned'.op = op /\ returned'.apdu = apdu
<1> DEFINE Goal == /\ call' # None => call'.op = op /\ call'.apdu = apdu
                   /\ returned' # None => call' = None /\ returned'.op = op
                                          /\ returned'.apdu = apdu
<1>1. ASSUME NEW r, NEW quiet, Return(op, apdu, quiet, r) PROVE Goal
  BY <1>1 DEF Return
<1>2. ASSUME NEW stage, NEW quiet, Issue(op, apdu, quiet, stage) PROVE Goal
  BY <1>2 DEF Issue
<1>3. \/ \E r, quiet : Return(op, apdu, quiet, r)
      \/ \E stage, quiet : Issue(op, apdu, quiet, stage)
  BY DEF poll_card, power_off, exchange_apdu, BeginPoll
<1> HIDE DEF Goal
<1>4. Goal
  BY <1>1, <1>2, <1>3
<1> QED BY <1>4 DEF Goal


\* In step, a poll that reports a card leaves it selected and in the cache.
LEMMA PollFinds ==
    ASSUME ReaderInv, poll_card \/ (ReaderStep /\ call.op = "poll_card"),
           returned' # None, ~out_of_step', returned'.result.tag = "Ok",
           returned'.result.val # None
    PROVE  active_target' # None /\ cached_card' = returned'.result.val
<1>1. CASE poll_card
  <2>1. UNCHANGED active_target /\ BeginPoll("poll_card", << >>)
    BY <1>1 DEF poll_card
  <2>2. /\ can_return_cached_presence /\ cached_card' = cached_card
        /\ Return("poll_card", << >>, Quiet, Ok(cached_card))
    BY <2>1 DEF BeginPoll, Issue
  <2>3. returned'.result = Ok(cached_card)
    BY <2>2 DEF Return
  <2>4. returned'.result.val = cached_card
    BY <2>3 DEF Ok
  <2> QED BY <2>1, <2>2, <2>4 DEF can_return_cached_presence
<1>2. CASE ReaderStep /\ call.op = "poll_card"
  <2>0. call # None
    BY <1>2, ReaderReturns
  <2>1. ~Fail
    <3> SUFFICES ASSUME Fail PROVE FALSE
      OBVIOUS
    <3>1. PICK r : r.tag # "Ok" /\ returned'.result = r
      BY <2>0, FailShape DEF ReaderInv
    <3> QED BY <3>1
  <2>2. ReceiveResponse
    BY <1>2, <2>1 DEF ReaderStep, Send, SendFails, TimesOut, ReceiveAck
  <2> DEFINE p == Received.val
  <2>3. /\ call.phase = "resp" /\ ~Starved /\ Received.tag = "Ok"
        /\ line' = SubSeq(line, Received.used + 1, Len(line))
        /\ UNCHANGED <<chip, card_in_field, out_of_step, seen>>
    BY <2>1, <2>2 DEF ReceiveResponse
  <2>4. call.stage \in Stages /\ call.stage # "data"
    BY <1>2, <2>0, StageOps DEF ReaderInv
  <2>5. call.quiet
    BY <2>0, <2>3, InStepCall
  <2>6. Answers(p)
    BY <2>0, <2>3, <2>5, QuietAnswer DEF Answers
  <2>7. (call.stage = "list" /\ Listed(p)) \/ (call.stage \in RfStages /\ RfConfigured)
    BY <2>1, <2>2, <2>4 DEF ReceiveResponse, Stages, RfStages
  <2>8. CASE call.stage = "list" /\ Listed(p)
    <3> DEFINE t == ParseTargets(p)
    <3>1. \/ t = NoTarget \/ \E c \in Cards : t = Target(ISO_A_TARGET_SLOT, c)
      BY <2>5, <2>6, <2>8, ListSays
    <3>2. /\ NoTarget.tag = "None"
          /\ \A c : LET s == Target(ISO_A_TARGET_SLOT, c)
                    IN  s.tag = "Some" /\ s.card = c /\ s.target # None
      BY ReaderAssumption DEF NoTarget, Target, ISO_A_TARGET_SLOT
    <3>3. \/ t.tag = "None" /\ Proceed("rf_off_absent")
          \/ t.tag = "Err"
          \/ /\ t.tag = "Some" /\ active_target' = t.target /\ cached_card' = t.card
             /\ Finish(Ok(t.card))
      BY <1>2, <2>8 DEF Listed, FoundCard
    <3> HIDE DEF t
    <3>4. /\ t.target # None /\ active_target' = t.target /\ cached_card' = t.card
          /\ Finish(Ok(t.card))
      BY <3>1, <3>2, <3>3 DEF Proceed, Issue
    <3>5. returned'.result.val = t.card
      BY <3>4 DEF Finish, Return, Ok
    <3> QED BY <3>4, <3>5
  <2>9. CASE call.stage \in RfStages /\ RfConfigured
    <3>1. Finish(Ok(None)) \/ Finish(TargetLost) \/ Proceed("list")
      BY <2>9 DEF RfConfigured
    <3>2. returned'.result.val = None
      BY <3>1 DEF Finish, Return, Ok, TargetLost, Proceed, Issue
    <3> QED BY <3>2
  <2> QED BY <2>7, <2>8, <2>9
<1> QED BY <1>1, <1>2

\* An exchange keeps its target until it reports it lost.
LEMMA ExchangeKeeps ==
    ASSUME ReaderInv, ReaderStep, call.stage \in {"data", "rf_off_lost"}
    PROVE  \/ /\ call.stage = "data" /\ UNCHANGED <<active_target, cached_card>>
              /\ call' # None => call'.stage = "data"
           \/ /\ call' # None => call'.stage = "rf_off_lost"
              /\ returned' # None => returned'.result = TargetLost
<1> DEFINE Goal == \/ /\ call.stage = "data" /\ UNCHANGED <<active_target, cached_card>>
                      /\ call' # None => call'.stage = "data"
                   \/ /\ call' # None => call'.stage = "rf_off_lost"
                      /\ returned' # None => returned'.result = TargetLost
<1> SUFFICES Goal
  OBVIOUS
<1>0. call # None /\ call \in CallRecord
  BY ReaderReturns DEF ReaderInv, CallInv
<1>1. ASSUME NEW phase, call' = [call EXCEPT !.phase = phase], returned' = None,
             UNCHANGED readerVars
      PROVE  Goal
  <2>1. call'.stage = call.stage
    BY <1>0, <1>1 DEF CallRecord
  <2> QED BY <1>1, <2>1 DEF readerVars
<1>2. CASE Fail
  <2>1. UNCHANGED readerVars /\ call' = None
        /\ returned'.result = IF call.stage = "rf_off_lost" THEN TargetLost ELSE Err
    BY <1>2 DEF Fail, Finish, Return
  <2> QED BY <2>1 DEF readerVars
<1>3. CASE Send
  BY <1>1, <1>3 DEF Send
<1>4. CASE ReceiveAck
  BY <1>1, <1>2, <1>4 DEF ReceiveAck
<1>5. CASE ReceiveResponse /\ ~Fail
  <2>1. \/ call.stage = "data" /\ Exchanged(Received.val)
        \/ call.stage = "rf_off_lost" /\ RfConfigured
    BY <1>5 DEF ReceiveResponse
  <2>2. CASE call.stage = "rf_off_lost" /\ RfConfigured
    <3>1. Finish(TargetLost)
      BY <2>2 DEF RfConfigured
    <3> QED BY <3>1 DEF Finish, Return
  <2>3. CASE call.stage = "data" /\ Exchanged(Received.val)
    <3>1. \/ UNCHANGED readerVars /\ call' = None
          \/ Proceed("rf_off_lost") \/ Finish(TargetLost)
      BY <2>3 DEF Exchanged, deactivate_target, Finish, Return
    <3> QED BY <2>3, <3>1 DEF readerVars, Proceed, Issue, Finish, Return
  <2> QED BY <2>1, <2>2, <2>3
<1> QED BY <1>2, <1>3, <1>4, <1>5 DEF ReaderStep, SendFails, TimesOut

-----------------------------------------------------------------------------
(* The invariant *)

\* The reader call op, with its APDU, is the one command c makes.
Link(c, op, apdu) ==
    \/ Polls(c) /\ op = "poll_card"
    \/ c.op = "IccPowerOff" /\ op = "power_off"
    \/ Exchanges(c) /\ op = "exchange_apdu" /\ apdu = NormalizeApdu(c.payload)

ServingInv ==
    call # None => serving \in Commands \cup {Interrupt} /\ Link(serving, call.op, call.apdu)

\* While a session is open, and no failed power-off has come between, the
\* reader's target is the card of the session: unless the exchange in progress
\* has lost it and is about to say so.
SessionInv ==
    ~out_of_step /\ ~off_failed /\ slot_powered
      /\ (serving = None \/ (serving.op = "XfrBlock" /\ call # None))
      => \/ /\ active_target # None /\ cached_card = current_card
            /\ call # None => call.stage = "data"
         \/ call # None /\ call.stage = "rf_off_lost"

\* As long as the line is in step, or where no bytes are excluded, the reader
\* keeps the contract the bridge relies on.
Trusted == ~out_of_step \/ Unrestricted

SystemInv ==
    /\ ReaderInv /\ (Unrestricted => TypeInv)
    /\ reader_name = "pn532-uart"
    /\ Trusted => BridgeInv
    /\ ServingInv /\ SessionInv
    /\ SessionKeepsCard /\ UnpoweredStatusIsRecent

-----------------------------------------------------------------------------
(* Each component moves as its own specification says *)

\* A step that accepts or serves command c.
Works(c) ==
    /\ c \in Commands \cup {Interrupt}
    /\ Serve(c)
    /\ \/ serving = None /\ StartCall(c)
       \/ serving = c /\ ReaderStep

LEMMA WorkSteps ==
    ASSUME ServingInv, ReaderInv, NEW c \in Commands \cup {Interrupt},
           Accept(c) \/ (Run /\ serving = c)
    PROVE  Works(c)
BY DEF Accept, Run, Works

LEMMA RunWorks ==
    ASSUME ServingInv, ReaderInv, Run
    PROVE  Works(serving)
<1>1. serving \in Commands \cup {Interrupt}
  BY ReaderReturns DEF Run, ServingInv
<1> QED BY <1>1 DEF Run, Works


\* What a step says of the steps of the two components' own specifications.
LEMMA CommandShape ==
    ASSUME NEW c \in Commands \cup {Interrupt}
    PROVE  /\ c \in Commands => c \in CcidCommand /\ c # Interrupt
           /\ c.op = "XfrBlock" => c \in Commands
           /\ c # None
<1>1. ASSUME c \in Commands PROVE c \in CcidCommand /\ c # Interrupt
  <2>1. PICK f \in Frames : Decodable(f) /\ c = decode(f)
    BY <1>1 DEF Commands
  <2>2. c \in CcidCommand
    BY <2>1, DecodeType, BridgeAssumption
  <2>3. c.op # "Interrupt"
    BY <2>2 DEF CcidCommand, Ops, PC_TO_RDR
  <2> QED BY <2>2, <2>3 DEF Interrupt
<1>2. Interrupt.op # "XfrBlock"
  BY DEF Interrupt
<1> QED BY <1>1, <1>2, SystemAssumption

LEMMA WorkNext ==
    ASSUME NEW c, Works(c)
    PROVE  Pn532Next
<1>1. CASE serving = None /\ StartCall(c)
  <2>1. ASSUME Exchanges(c) PROVE NormalizeApdu(c.payload) \in Apdus
    BY <2>1, CommandShape, SystemAssumption DEF Exchanges, Works
  <2>2. poll_card \/ power_off \/ \E apdu \in Apdus : exchange_apdu(apdu)
    BY <1>1, <2>1 DEF StartCall
  <2> QED BY <2>2 DEF Pn532Next
<1> QED BY <1>1 DEF Works, Pn532Next

\* A step of the system is the work for a command, an answer given at once, a
\* step of the world, or none.
LEMMA StepKinds ==
    ASSUME SystemInv, [SystemNext]_systemVars
    PROVE  \/ \E c : Works(c)
           \/ \E c \in Commands \cup {Interrupt} : AnswerAtOnce(c)
           \/ World
           \/ UNCHANGED systemVars
BY WorkSteps, RunWorks DEF SystemNext, SystemInv

\* The line does not get into step again.
LEMMA OutOfStepStays ==
    ASSUME ReaderInv, [Pn532Next]_pn532Vars, out_of_step
    PROVE  out_of_step'
BY DEF Pn532Next, poll_card, power_off, exchange_apdu, ReaderStep, WorldStep, Send,
       SendFails, TimesOut, ReceiveAck, ReceiveResponse, LosesStep, ChipAck, ChipAnswer,
       ChipRefuses, ChipDrops, NewsFromChip, PlaceCard, RemoveCard, Tick, pn532Vars,
       historyVars

LEMMA ReaderPart ==
    ASSUME SystemInv, [SystemNext]_systemVars
    PROVE  /\ ReaderInv' /\ (Unrestricted => TypeInv')
           /\ ~out_of_step' => ~out_of_step
<1> USE DEF SystemInv
<1>1. ASSUME [Pn532Next]_pn532Vars
      PROVE  /\ ReaderInv' /\ (Unrestricted => TypeInv')
             /\ ~out_of_step' => ~out_of_step
  BY <1>1, ReaderInvSteps, TypeInvSteps, OutOfStepStays
<1>2. ASSUME NEW c, AnswerAtOnce(c)
      PROVE  /\ ReaderInv' /\ (Unrestricted => TypeInv')
             /\ ~out_of_step' => ~out_of_step
  <2>1. UNCHANGED <<readerVars, call, worldVars, historyVars>> /\ returned' = None
    BY <1>2 DEF AnswerAtOnce
  <2>2. ReaderInv'
    BY <2>1, StutterStep
  <2>3. TypeInv => TypeInv'
    BY <2>1 DEF TypeInv, PendingInv, FieldsOk, readerVars, worldVars
  <2>4. ~out_of_step' => ~out_of_step
    BY <2>1 DEF historyVars
  <2> QED BY <2>2, <2>3, <2>4
<1>3. ASSUME NEW c, Works(c) PROVE [Pn532Next]_pn532Vars
  BY <1>3, WorkNext
<1>4. CASE World
  BY <1>1, <1>4 DEF World, Beside, Pn532Next
<1>5. CASE UNCHANGED systemVars
  BY <1>1, <1>5 DEF systemVars
<1> QED BY <1>1, <1>2, <1>3, <1>4, <1>5, StepKinds

-----------------------------------------------------------------------------
(* The bridge's part of a step *)

\* The call a command makes is the one it works on, and returns.
LEMMA WorkLinks ==
    ASSUME SystemInv, NEW c, Works(c)
    PROVE  /\ call' # None => Link(c, call'.op, call'.apdu)
           /\ returned' # None => /\ call' = None
                                  /\ Link(c, returned'.op, returned'.apdu)
<1>1. CASE serving = None /\ StartCall(c)
  <2>1. CASE Polls(c) /\ poll_card
    BY <2>1, StartReturnsOwn DEF Link
  <2>2. CASE c.op = "IccPowerOff" /\ power_off
    BY <2>2, StartReturnsOwn DEF Link
  <2>3. CASE Exchanges(c) /\ exchange_apdu(NormalizeApdu(c.payload))
    BY <2>3, StartReturnsOwn DEF Link
  <2> QED BY <1>1, <2>1, <2>2, <2>3 DEF StartCall
<1>2. CASE serving = c /\ ReaderStep
  <2>1. call # None /\ Link(c, call.op, call.apdu)
    BY <1>2, ReaderReturns DEF SystemInv, ServingInv
  <2>2. /\ call' # None => call'.op = call.op /\ call'.apdu = call.apdu
        /\ returned' # None => /\ call' = None /\ returned'.op = call.op
                               /\ returned'.apdu = call.apdu
    BY <1>2, ReaderReturns DEF SystemInv
  <2> QED BY <2>1, <2>2
<1> QED BY <1>1, <1>2 DEF Works

\* A call that goes on leaves the bridge where it was; one that returns hands
\* its result over.
LEMMA WorkServes ==
    ASSUME SystemInv, NEW c, Works(c)
    PROVE  \/ /\ returned' = None /\ serving' = c /\ served' = None
              /\ UNCHANGED <<bridgeVars, off_failed>>
           \/ /\ returned' # None /\ call' = None
              /\ Conclude(c, returned'.result)
              /\ serving' = None /\ served' = c
              /\ off_failed' = ((off_failed /\ c.op # "IccPowerOn")
                                 \/ (c.op = "IccPowerOff" /\ returned'.result = Err))
BY WorkLinks DEF Works, Serve

\* What the trusted reader returns is what the bridge expects of it.
LEMMA WorkResult ==
    ASSUME SystemInv, [SystemNext]_systemVars, Trusted', returned' # None
    PROVE  returned'.result \in ResultsOf(returned'.op)
<1>1. CASE ~out_of_step'
  BY <1>1, ReaderPart DEF ReaderInv, StepInv, InStep, Pn532TypeOK
<1>2. CASE Unrestricted
  BY <1>2, ReaderPart DEF TypeInv, FieldsOk
<1> QED BY <1>1, <1>2 DEF Trusted


\* What each call may return, to a bridge on a PN532.
LEMMA ResultKinds ==
    ASSUME reader_name = "pn532-uart", NEW op, NEW r, r \in ResultsOf(op)
    PROVE  /\ op = "poll_card" => r \in PollResults(reader_name)
           /\ op = "power_off" => r \in PowerOffResults(reader_name)
           /\ op = "exchange_apdu" => r \in ExchangeResults(reader_name)
BY DEF ResultsOf

LEMMA EmptyPoll ==
    ASSUME reader_name = "pn532-uart"
    PROVE  Ok(None) \in PollResults(reader_name)
BY DEF PollResults

\* The result of its call makes command c a step of the bridge specification.
LEMMA ConcludeNext ==
    ASSUME reader_name = "pn532-uart", NEW c \in Commands \cup {Interrupt}, NEW r,
           NEW op, NEW apdu, Link(c, op, apdu), r \in ResultsOf(op), Conclude(c, r)
    PROVE  BridgeNext
<1> DEFINE Next == \/ c \in Commands /\ handle_command(c)
                   \/ \E poll \in PollResults(reader_name) : refresh_card_presence(poll)
<1>0. SUFFICES Next
  BY DEF BridgeNext, Commands
<1>1. c = Interrupt \/ (c \in Commands /\ c # Interrupt)
  BY CommandShape
<1>2. Interrupt.op = "Interrupt"
  BY DEF Interrupt
<1>3. Polls(c) \/ c.op = "IccPowerOff" \/ Exchanges(c)
  BY DEF Link
<1>4. ASSUME c.op \in {"IccPowerOn", "GetSlotStatus"} \/ c = Interrupt \/ XfrLooks,
             c.op # "IccPowerOff"
      PROVE  r \in PollResults(reader_name)
  BY <1>2, <1>4, ResultKinds DEF Link, Exchanges
<1>5. CASE IccPowerOn(c, r)
  BY <1>1, <1>2, <1>4, <1>5 DEF IccPowerOn, handle_command
<1>6. CASE IccPowerOff(c, r)
  <2>1. c.op = "IccPowerOff" /\ c \in Commands
    BY <1>1, <1>2, <1>6 DEF IccPowerOff
  <2>2. r \in PowerOffResults(reader_name)
    BY <2>1, ResultKinds DEF Link, Polls, Exchanges
  <2> QED BY <1>6, <2>1, <2>2 DEF handle_command
<1>7. CASE GetSlotStatus(c, r)
  BY <1>1, <1>2, <1>4, <1>7 DEF GetSlotStatus, handle_command
<1>8. CASE XfrLookFails(c, r)
  BY <1>1, <1>2, <1>4, <1>8 DEF XfrLookFails, handle_command
<1>9. CASE XfrBlocked(c, r)
  <2>1. c.op = "XfrBlock" /\ c \in Commands
    BY <1>1, <1>2, <1>9 DEF XfrBlocked
  <2>2. CASE XfrLooks
    BY <1>4, <1>9, <2>1, <2>2 DEF handle_command
  <2>3. CASE ~XfrLooks
    BY <1>3, <1>9, <2>1, <2>3 DEF XfrBlocked, XfrLooks, XfrCard, XfrPower, Polls, Exchanges
  <2> QED BY <2>2, <2>3
<1>10. CASE XfrExchange(c, Ok(None), r)
  <2>1. c.op = "XfrBlock" /\ c \in Commands
    BY <1>1, <1>2, <1>10 DEF XfrExchange
  <2>2. ~XfrLooks
    BY <1>10 DEF XfrExchange, XfrLooks, XfrCard, XfrPower, RefreshedPower, RefreshPolls,
       RefreshedCard, Ok
  <2>3. r \in ExchangeResults(reader_name)
    BY <2>1, <2>2, ResultKinds DEF Link, Polls
  <2> QED BY <1>10, <2>1, <2>3, EmptyPoll DEF handle_command
<1>11. CASE c = Interrupt /\ refresh_card_presence(r)
  BY <1>2, <1>4, <1>11
<1> HIDE DEF Next
<1> QED BY <1>5, <1>6, <1>7, <1>8, <1>9, <1>10, <1>11 DEF Conclude

\* As long as the reader is trusted, every step is a step of the bridge
\* specification or does not concern the bridge.
LEMMA BridgeStep ==
    ASSUME SystemInv, [SystemNext]_systemVars, Trusted'
    PROVE  UNCHANGED bridgeVars \/ BridgeNext
<1>1. ASSUME NEW c, Works(c) PROVE UNCHANGED bridgeVars \/ BridgeNext
  <2>1. CASE returned' = None
    BY <1>1, <2>1, WorkServes
  <2>2. CASE returned' # None
    <3>1. Link(c, returned'.op, returned'.apdu) /\ Conclude(c, returned'.result)
      BY <1>1, <2>2, WorkLinks, WorkServes
    <3>2. returned'.result \in ResultsOf(returned'.op)
      BY <2>2, WorkResult
    <3>3. c \in Commands \cup {Interrupt} /\ reader_name = "pn532-uart"
      BY <1>1 DEF Works, SystemInv
    <3> QED BY <3>1, <3>2, <3>3, ConcludeNext
  <2> QED BY <2>1, <2>2
<1>2. ASSUME NEW c \in Commands \cup {Interrupt}, AnswerAtOnce(c) PROVE BridgeNext
  <2>1. Ok(None) \in PollResults(reader_name)
    BY EmptyPoll DEF SystemInv
  <2>2. CASE c = Interrupt /\ refresh_card_presence(Ok(None))
    BY <2>1, <2>2 DEF BridgeNext
  <2>3. CASE ~(c = Interrupt /\ refresh_card_presence(Ok(None)))
    <3>1. handle_command(c)
      BY <1>2, <2>1, <2>3 DEF AnswerAtOnce, handle_command
    <3>2. c # Interrupt
      <4>1. Interrupt.op = "Interrupt"
        BY DEF Interrupt
      <4> QED BY <1>2, <2>3, <4>1
              DEF AnswerAtOnce, GetSlotStatus, XfrBlocked, GetParameters, ResetParameters,
                  SetParameters, AbortOrUnknown
    <3> QED BY <3>1, <3>2 DEF BridgeNext, Commands
  <2> QED BY <2>2, <2>3
<1>3. CASE World
  BY <1>3 DEF World, Beside
<1>4. CASE UNCHANGED systemVars
  BY <1>4 DEF systemVars
<1> QED BY <1>1, <1>2, <1>3, <1>4, StepKinds

LEMMA BridgePart ==
    ASSUME SystemInv, [SystemNext]_systemVars
    PROVE  Trusted' => BridgeInv'
<1> SUFFICES ASSUME Trusted' PROVE BridgeInv'
  OBVIOUS
<1>1. Trusted
  BY ReaderPart DEF Trusted
<1> QED BY <1>1, BridgeStep, BridgeInvInductive DEF SystemInv

LEMMA NameStays ==
    ASSUME SystemInv, [SystemNext]_systemVars
    PROVE  reader_name' = reader_name
<1>1. ASSUME NEW c, Works(c) PROVE reader_name' = reader_name
  BY <1>1, WorkServes DEF bridgeVars, Conclude, IccPowerOn, IccPowerOff, GetSlotStatus,
     XfrLookFails, XfrBlocked, XfrExchange, refresh_card_presence
<1>2. ASSUME NEW c, AnswerAtOnce(c) PROVE reader_name' = reader_name
  BY <1>2 DEF AnswerAtOnce, GetSlotStatus, XfrBlocked, GetParameters, ResetParameters,
     SetParameters, AbortOrUnknown, refresh_card_presence
<1>3. CASE World \/ UNCHANGED systemVars
  BY <1>3 DEF World, Beside, systemVars, bridgeVars
<1> QED BY <1>1, <1>2, <1>3, StepKinds


LEMMA WorldKeepsCall ==
    ASSUME World
    PROVE  /\ UNCHANGED <<call, active_target, cached_card, serving, off_failed, bridgeVars>>
           /\ served' = None /\ returned' = None
BY DEF World, Beside, WorldStep, ChipAck, ChipAnswer, ChipRefuses, ChipDrops, NewsFromChip,
       PlaceCard, RemoveCard, Tick, readerVars

LEMMA ServingPart ==
    ASSUME SystemInv, [SystemNext]_systemVars
    PROVE  ServingInv'
<1>1. ASSUME NEW c, Works(c) PROVE ServingInv'
  <2> SUFFICES ASSUME call' # None
               PROVE  serving' \in Commands \cup {Interrupt}
                      /\ Link(serving, call.op, call.apdu)'
    BY DEF ServingInv
  <2>1. serving' = c /\ UNCHANGED bridgeVars
    BY <1>1, WorkServes
  <2>2. Link(c, call'.op, call'.apdu) /\ c \in Commands \cup {Interrupt}
    BY <1>1, WorkLinks DEF Works
  <2> QED BY <2>1, <2>2 DEF Link, Polls, Exchanges, RefreshPolls, XfrLooks, bridgeVars
<1>2. ASSUME NEW c, AnswerAtOnce(c) PROVE ServingInv'
  <2>1. call = None
    BY <1>2, SystemAssumption DEF AnswerAtOnce, SystemInv, ServingInv
  <2> QED BY <1>2, <2>1 DEF AnswerAtOnce, ServingInv
<1>3. CASE World \/ UNCHANGED systemVars
  <2>1. UNCHANGED <<call, serving, bridgeVars>>
    BY <1>3, WorldKeepsCall DEF systemVars, pn532Vars
  <2> QED BY <2>1 DEF SystemInv, ServingInv, Link, Polls, Exchanges, RefreshPolls, XfrLooks,
             bridgeVars
<1> QED BY <1>1, <1>2, <1>3, StepKinds

-----------------------------------------------------------------------------
(* The session's card *)

\* A command that makes no reader call does not touch a powered slot.
LEMMA AtOnceKeepsSlot ==
    ASSUME SystemInv, BridgeInv, NEW c, AnswerAtOnce(c)
    PROVE  /\ slot_powered' => slot_powered /\ current_card' = current_card
           /\ c.op = "XfrBlock" => reply'.kind = "SlotStatus"
           /\ c.op = "GetSlotStatus" => slot_powered'
<1>0. /\ slot_powered \in BOOLEAN /\ (slot_powered => current_card # None)
      /\ reader_name = "pn532-uart"
  BY DEF SystemInv, BridgeInv, BridgeTypeOK, PoweredImpliesCard
<1>1. CASE GetSlotStatus(c, Ok(None))
  <2>1. ~RefreshPolls
    BY <1>1 DEF AnswerAtOnce, CallsReader, Polls, GetSlotStatus
  <2> QED BY <1>0, <1>1, <2>1 DEF GetSlotStatus, RefreshedCard, RefreshedPower, RefreshPolls
<1>2. CASE XfrBlocked(c, Ok(None))
  <2>1. ~XfrLooks
    BY <1>2 DEF AnswerAtOnce, CallsReader, Polls, XfrBlocked
  <2> QED BY <1>0, <1>2, <2>1 DEF XfrBlocked, XfrCard, XfrPower, SlotStatusFailed, Response
<1>3. CASE c = Interrupt /\ refresh_card_presence(Ok(None))
  <2>1. c.op = "Interrupt"
    BY <1>3 DEF Interrupt
  <2>2. ~RefreshPolls
    BY <2>1 DEF AnswerAtOnce, CallsReader, Polls
  <2> QED BY <1>0, <1>3, <2>1, <2>2 DEF refresh_card_presence, RefreshedCard, RefreshedPower,
             RefreshPolls
<1>4. CASE GetParameters(c) \/ ResetParameters(c) \/ SetParameters(c) \/ AbortOrUnknown(c)
  BY <1>4 DEF GetParameters, ResetParameters, SetParameters, AbortOrUnknown
<1> QED BY <1>1, <1>2, <1>3, <1>4 DEF AnswerAtOnce

\* What the result of its call makes of the slot.
LEMMA ConcludeSlot ==
    ASSUME reader_name = "pn532-uart", BridgeInv, NEW c \in Commands \cup {Interrupt},
           NEW op, NEW apdu, Link(c, op, apdu), NEW r, Conclude(c, r)
    PROVE  /\ slot_powered' =>
                \/ /\ c.op = "IccPowerOn" /\ op = "poll_card" /\ r.tag = "Ok"
                   /\ r.val # None /\ current_card' = r.val
                \/ c.op = "IccPowerOff" /\ r = Err
                \/ /\ c.op = "XfrBlock" /\ op = "exchange_apdu" /\ r # TargetLost
                   /\ slot_powered /\ current_card' = current_card
           /\ c.op = "XfrBlock" /\ reply'.kind = "DataBlock" =>
                /\ op = "exchange_apdu" /\ apdu = NormalizeApdu(c.payload)
                /\ slot_powered /\ slot_powered' /\ r.tag = "Ok"
                /\ reply'.payload = r.val
                /\ UNCHANGED <<current_card, atr_card>>
           /\ c.op = "GetSlotStatus" /\ reply'.status = "NoError" =>
                op = "poll_card" /\ r.tag # "Err" /\ current_card' = RefreshedCard(r)
                /\ RefreshPolls
<1> USE DEF Link
<1>0. /\ slot_powered \in BOOLEAN /\ (slot_powered => current_card # None)
      /\ Interrupt.op = "Interrupt"
  BY DEF BridgeInv, BridgeTypeOK, PoweredImpliesCard, Interrupt
<1> DEFINE Goal == /\ slot_powered' =>
                        \/ /\ c.op = "IccPowerOn" /\ op = "poll_card" /\ r.tag = "Ok"
                           /\ r.val # None /\ current_card' = r.val
                        \/ c.op = "IccPowerOff" /\ r = Err
                        \/ /\ c.op = "XfrBlock" /\ op = "exchange_apdu" /\ r # TargetLost
                           /\ slot_powered /\ current_card' = current_card
                   /\ c.op = "XfrBlock" /\ reply'.kind = "DataBlock" =>
                        /\ op = "exchange_apdu" /\ apdu = NormalizeApdu(c.payload)
                        /\ slot_powered /\ slot_powered' /\ r.tag = "Ok"
                        /\ reply'.payload = r.val
                        /\ UNCHANGED <<current_card, atr_card>>
                   /\ c.op = "GetSlotStatus" /\ reply'.status = "NoError" =>
                        op = "poll_card" /\ r.tag # "Err" /\ current_card' = RefreshedCard(r)
                        /\ RefreshPolls
<1> SUFFICES Goal
  OBVIOUS
<1>1. CASE IccPowerOn(c, r)
  BY <1>1 DEF IccPowerOn, Polls, Exchanges
<1>2. CASE IccPowerOff(c, r)
  BY <1>2 DEF IccPowerOff
<1>3. CASE GetSlotStatus(c, r)
  <2>1. op = "poll_card" /\ RefreshPolls
    BY <1>3 DEF GetSlotStatus, Polls, Exchanges
  <2>2. slot_powered = FALSE
    BY <1>0, <2>1 DEF RefreshPolls
  <2>3. slot_powered' = FALSE
    BY <1>3, <2>2 DEF GetSlotStatus, RefreshedPower
  <2>4. RefreshFails(r) => reply'.status = "Failed"
    BY <1>3 DEF GetSlotStatus, SlotStatusFailed, Response
  <2> QED BY <1>3, <2>1, <2>3, <2>4 DEF GetSlotStatus, RefreshFails
<1>4. CASE XfrLookFails(c, r)
  BY <1>4 DEF XfrLookFails, SlotStatusFailed, Response
<1>5. CASE XfrBlocked(c, r)
  <2>1. XfrLooks
    BY <1>5 DEF XfrBlocked, XfrLooks, XfrCard, XfrPower, Polls, Exchanges
  <2>2. slot_powered' = FALSE
    BY <1>0, <1>5, <2>1 DEF XfrBlocked, XfrLooks, XfrPower, RefreshedPower
  <2> QED BY <1>5, <2>2 DEF XfrBlocked, SlotStatusFailed, Response
<1>6. CASE XfrExchange(c, Ok(None), r)
  <2>1. ~XfrLooks
    BY <1>6 DEF XfrExchange, XfrLooks, XfrCard, XfrPower, RefreshedPower, RefreshPolls,
       RefreshedCard, Ok
  <2>2. /\ op = "exchange_apdu" /\ apdu = NormalizeApdu(c.payload) /\ slot_powered
        /\ c.op = "XfrBlock" /\ UNCHANGED atr_card
    BY <1>6, <2>1 DEF XfrExchange, Polls, Exchanges
  <2>3. CASE r = TargetLost
    <3>1. r.tag = "TargetLost" /\ TargetLost # Err
      BY <2>3 DEF TargetLost, Err
    <3>2. LosesTarget(c)
      BY <1>6, <2>3, <3>1 DEF XfrExchange
    <3>3. slot_powered' = FALSE /\ reply'.kind = "SlotStatus"
      BY <3>2 DEF LosesTarget, SlotStatusFailed, Response
    <3> QED BY <2>2, <3>3
  <2>4. CASE r # TargetLost
    <3>1. UNCHANGED <<current_card, slot_powered>>
      BY <1>6, <2>1, <2>4 DEF XfrExchange, XfrCard, XfrPower
    <3>2. CASE r.tag = "Ok"
      <4>1. r # Err
        BY <3>2 DEF Err
      <4>2. reply' = DataBlock(c, r.val)
        BY <1>6, <2>4, <4>1 DEF XfrExchange
      <4>3. reply'.payload = r.val
        BY <4>2 DEF DataBlock, Response
      <4> QED BY <2>2, <2>4, <3>1, <3>2, <4>3
    <3>3. CASE r.tag # "Ok"
      <4>1. reply' = SlotStatusFailed(c, IccStatusOf(current_card', slot_powered'))
        BY <1>6, <2>4, <3>3 DEF XfrExchange
      <4>2. reply'.kind = "SlotStatus"
        BY <4>1 DEF SlotStatusFailed, Response
      <4> QED BY <2>2, <2>4, <3>1, <4>2
    <3> QED BY <3>2, <3>3
  <2> QED BY <2>3, <2>4
<1>7. CASE c = Interrupt /\ refresh_card_presence(r)
  <2>1. RefreshPolls /\ slot_powered = FALSE
    BY <1>0, <1>7 DEF Polls, Exchanges, RefreshPolls
  <2> QED BY <1>0, <1>7, <2>1 DEF refresh_card_presence, RefreshedPower
<1> HIDE DEF Goal
<1> QED BY <1>1, <1>2, <1>3, <1>4, <1>5, <1>6, <1>7 DEF Conclude


\* The session is the one SessionInv speaks of.
InSession == ~out_of_step /\ ~off_failed /\ slot_powered

LEMMA BetweenCalls ==
    ASSUME SystemInv, serving = None
    PROVE  call = None
BY SystemAssumption DEF SystemInv, ServingInv

\* The steps of an exchange in the session keep its target until they report
\* it lost.
LEMMA SessionExchange ==
    ASSUME SystemInv, BridgeInv, NEW c, Works(c), InSession, c.op = "XfrBlock"
    PROVE  \/ /\ active_target' # None /\ cached_card' = current_card
              /\ call' # None => call'.stage = "data"
           \/ /\ call' # None => call'.stage = "rf_off_lost"
              /\ returned' # None => returned'.result = TargetLost
<1>1. current_card # None /\ ~XfrLooks /\ ~Polls(c)
  BY DEF BridgeInv, PoweredImpliesCard, InSession, XfrLooks, Polls
<1>2. CASE serving = None /\ StartCall(c)
  <2>1. exchange_apdu(NormalizeApdu(c.payload))
    BY <1>1, <1>2 DEF StartCall
  <2>2. active_target # None /\ cached_card = current_card
    BY <1>2, BetweenCalls DEF SystemInv, SessionInv, InSession
  <2>3. UNCHANGED <<active_target, cached_card>>
    BY <2>1, <2>2 DEF exchange_apdu
  <2>4. \/ call' = None
        \/ Issue("exchange_apdu", NormalizeApdu(c.payload), Quiet, "data")
    BY <2>1, <2>2 DEF exchange_apdu, Return
  <2> QED BY <2>2, <2>3, <2>4 DEF Issue
<1>3. CASE serving = c /\ ReaderStep
  <2>1. call # None
    BY <1>3, ReaderReturns DEF SystemInv
  <2>2. \/ active_target # None /\ cached_card = current_card /\ call.stage = "data"
        \/ call.stage = "rf_off_lost"
    BY <1>3, <2>1 DEF SystemInv, SessionInv, InSession
  <2>3. \/ /\ call.stage = "data" /\ UNCHANGED <<active_target, cached_card>>
           /\ call' # None => call'.stage = "data"
        \/ /\ call' # None => call'.stage = "rf_off_lost"
           /\ returned' # None => returned'.result = TargetLost
    BY <1>3, <2>2, ExchangeKeeps DEF SystemInv
  <2> QED BY <2>2, <2>3
<1> QED BY <1>2, <1>3 DEF Works

LEMMA SessionPart ==
    ASSUME SystemInv, [SystemNext]_systemVars
    PROVE  SessionInv'
<1> SUFFICES ASSUME ~out_of_step', ~off_failed', slot_powered',
                    serving' = None \/ (serving'.op = "XfrBlock" /\ call' # None)
             PROVE  \/ /\ active_target' # None /\ cached_card' = current_card'
                       /\ call' # None => call'.stage = "data"
                    \/ call' # None /\ call'.stage = "rf_off_lost"
  BY DEF SessionInv
<1>0. ~out_of_step /\ BridgeInv
  BY ReaderPart DEF SystemInv, Trusted
<1> DEFINE Goal == \/ /\ active_target' # None /\ cached_card' = current_card'
                      /\ call' # None => call'.stage = "data"
                   \/ call' # None /\ call'.stage = "rf_off_lost"
<1> SUFFICES Goal
  OBVIOUS
<1>1. CASE World \/ UNCHANGED systemVars
  <2>1. UNCHANGED <<call, active_target, cached_card, serving, off_failed, bridgeVars>>
    BY <1>1, WorldKeepsCall DEF systemVars, pn532Vars, readerVars
  <2> QED BY <1>0, <2>1 DEF SystemInv, SessionInv, bridgeVars
<1>2. ASSUME NEW c, AnswerAtOnce(c) PROVE Goal
  <2>1. slot_powered /\ current_card' = current_card
    BY <1>0, <1>2, AtOnceKeepsSlot
  <2>2. UNCHANGED <<call, active_target, cached_card, off_failed>> /\ serving = None
    BY <1>2 DEF AnswerAtOnce, readerVars
  <2> QED BY <1>0, <2>1, <2>2 DEF SystemInv, SessionInv
<1>3. ASSUME NEW c, Works(c), returned' = None PROVE Goal
  <2>1. serving' = c /\ UNCHANGED <<bridgeVars, off_failed>>
    BY <1>3, WorkServes
  <2>2. c # None
    BY <1>3, CommandShape DEF Works
  <2>3. InSession /\ c.op = "XfrBlock" /\ call' # None /\ current_card' = current_card
    BY <1>0, <2>1, <2>2 DEF InSession, bridgeVars
  <2> QED BY <1>0, <1>3, <2>3, SessionExchange
<1>4. ASSUME NEW c, Works(c), returned' # None PROVE Goal
  <2> DEFINE r == returned'.result
  <2>1. /\ call' = None /\ Conclude(c, r)
        /\ off_failed' = ((off_failed /\ c.op # "IccPowerOn")
                           \/ (c.op = "IccPowerOff" /\ r = Err))
    BY <1>4, WorkServes
  <2>2. Link(c, returned'.op, returned'.apdu)
    BY <1>4, WorkLinks
  <2>3. c \in Commands \cup {Interrupt} /\ reader_name = "pn532-uart"
    BY <1>4 DEF Works, SystemInv
  <2>4. \/ /\ c.op = "IccPowerOn" /\ returned'.op = "poll_card" /\ r.tag = "Ok"
           /\ r.val # None /\ current_card' = r.val
        \/ c.op = "IccPowerOff" /\ r = Err
        \/ /\ c.op = "XfrBlock" /\ r # TargetLost /\ slot_powered
           /\ current_card' = current_card
    BY <1>0, <2>1, <2>2, <2>3, ConcludeSlot
  <2>5. CASE /\ c.op = "IccPowerOn" /\ r.tag = "Ok" /\ r.val # None
             /\ current_card' = r.val
    <3>1. poll_card \/ (ReaderStep /\ call.op = "poll_card")
      <4>1. CASE serving = None /\ StartCall(c)
        BY <2>5, <4>1 DEF StartCall, Exchanges
      <4>2. CASE serving = c /\ ReaderStep
        <5>1. call # None
          BY <4>2, ReaderReturns DEF SystemInv
        <5> QED BY <2>5, <4>2, <5>1 DEF SystemInv, ServingInv, Link, Exchanges
      <4> QED BY <1>4, <4>1, <4>2 DEF Works
    <3> QED BY <1>4, <2>1, <2>5, <3>1, PollFinds DEF SystemInv
  <2>6. CASE /\ c.op = "XfrBlock" /\ r # TargetLost /\ slot_powered
             /\ current_card' = current_card
    <3>1. InSession
      BY <1>0, <2>1, <2>6 DEF InSession
    <3> QED BY <1>0, <1>4, <2>1, <2>6, <3>1, SessionExchange
  <2> QED BY <2>1, <2>4, <2>5, <2>6
<1> HIDE DEF Goal
<1> QED BY <1>1, <1>2, <1>3, <1>4, StepKinds

\* The answer the host gets is the answer of the session's card.
LEMMA AnswerPart ==
    ASSUME SystemInv, [SystemNext]_systemVars
    PROVE  SessionKeepsCard'
<1> SUFFICES ASSUME ~out_of_step', ~off_failed', served' # None,
                    served'.op = "XfrBlock", reply'.kind = "DataBlock"
             PROVE  reply'.payload = CardAnswer(atr_card', NormalizeApdu(served'.payload))
  BY DEF SessionKeepsCard, AnsweredByAtrCard
<1>0. ~out_of_step /\ BridgeInv /\ reader_name = "pn532-uart"
  BY ReaderPart DEF SystemInv, Trusted
<1> DEFINE Goal == reply'.payload = CardAnswer(atr_card', NormalizeApdu(served'.payload))
<1> SUFFICES Goal
  OBVIOUS
<1>1. CASE World
  BY <1>1, WorldKeepsCall
<1>2. CASE UNCHANGED systemVars
  BY <1>0, <1>2 DEF systemVars, bridgeVars, pn532Vars, historyVars, SystemInv,
     SessionKeepsCard, AnsweredByAtrCard
<1>3. ASSUME NEW c, AnswerAtOnce(c) PROVE FALSE
  BY <1>0, <1>3, AtOnceKeepsSlot DEF AnswerAtOnce
<1>4. ASSUME NEW c, Works(c) PROVE Goal
  <2> DEFINE r == returned'.result
  <2>1. /\ returned' # None /\ served' = c /\ Conclude(c, r)
        /\ off_failed' = ((off_failed /\ c.op # "IccPowerOn")
                           \/ (c.op = "IccPowerOff" /\ r = Err))
    BY <1>4, WorkServes
  <2>2. Link(c, returned'.op, returned'.apdu)
    BY <1>4, <2>1, WorkLinks
  <2>3. c \in Commands \cup {Interrupt}
    BY <1>4 DEF Works
  <2>4. /\ returned'.op = "exchange_apdu" /\ returned'.apdu = NormalizeApdu(c.payload)
        /\ slot_powered /\ r.tag = "Ok" /\ reply'.payload = r.val
        /\ UNCHANGED <<current_card, atr_card>>
    BY <1>0, <2>1, <2>2, <2>3, ConcludeSlot
  <2>5. AnsweredByCachedCard'
    BY ReaderPart DEF ReaderInv, ReturnInv
  <2>6. r.val = CardAnswer(cached_card', returned'.apdu)
    BY <2>1, <2>4, <2>5 DEF AnsweredByCachedCard
  <2>7. InSession
    BY <1>0, <2>1, <2>4 DEF InSession
  <2>8. r # TargetLost
    BY <2>4 DEF TargetLost
  <2>9. cached_card' = current_card
    BY <1>0, <1>4, <2>1, <2>7, <2>8, SessionExchange
  <2>10. current_card = atr_card
    BY <1>0, <2>4 DEF BridgeInv, PoweredCardIsAtrCard
  <2> QED BY <2>1, <2>4, <2>6, <2>9, <2>10
<1> HIDE DEF Goal
<1> QED BY <1>1, <1>2, <1>3, <1>4, StepKinds


\* The card a slot status reports is the one the poll has just found.
LEMMA StatusPart ==
    ASSUME SystemInv, [SystemNext]_systemVars
    PROVE  UnpoweredStatusIsRecent'
<1> SUFFICES ASSUME ~out_of_step', ~poll_failed', ~slot_powered', served' # None,
                    served'.op = "GetSlotStatus", reply'.status = "NoError",
                    reply'.icc # "NotPresent"
             PROVE  seen'[current_card'] < PN532_POLL_INTERVAL
  BY DEF UnpoweredStatusIsRecent, StatusIsRecent
<1>0. ~out_of_step /\ BridgeInv /\ reader_name = "pn532-uart" /\ Trusted'
  BY ReaderPart DEF SystemInv, Trusted
<1> DEFINE Goal == seen'[current_card'] < PN532_POLL_INTERVAL
<1> SUFFICES Goal
  OBVIOUS
<1>1. CASE World
  BY <1>1, WorldKeepsCall
<1>2. CASE UNCHANGED systemVars
  BY <1>0, <1>2 DEF systemVars, bridgeVars, pn532Vars, historyVars, SystemInv,
     UnpoweredStatusIsRecent, StatusIsRecent
<1>3. ASSUME NEW c, AnswerAtOnce(c) PROVE FALSE
  BY <1>0, <1>3, AtOnceKeepsSlot DEF AnswerAtOnce
<1>4. ASSUME NEW c, Works(c) PROVE Goal
  <2> DEFINE r == returned'.result
  <2>1. returned' # None /\ served' = c /\ Conclude(c, r)
    BY <1>4, WorkServes
  <2>2. Link(c, returned'.op, returned'.apdu) /\ c \in Commands \cup {Interrupt}
    BY <1>4, <2>1, WorkLinks DEF Works
  <2>3. returned'.op = "poll_card" /\ r.tag # "Err" /\ current_card' = RefreshedCard(r)
        /\ RefreshPolls
    BY <1>0, <2>1, <2>2, ConcludeSlot
  <2>4. r \in PollResults(reader_name)
    BY <1>0, <2>1, <2>3, WorkResult, ResultKinds
  <2>5. r.tag = "Ok" /\ current_card' = r.val
    BY <1>0, <2>3, <2>4, PollResultType DEF RefreshedCard, Backends
  <2>6. current_card' # None
    <3>1. Interrupt.op # "GetSlotStatus"
      BY DEF Interrupt
    <3>2. GetSlotStatus(c, r)
      BY <2>1, <3>1 DEF Conclude, IccPowerOn, IccPowerOff, XfrLookFails, XfrBlocked,
         XfrExchange
    <3>3. reply' = SlotStatusOk(c, IccStatusOf(current_card', slot_powered'))
      BY <2>5, <3>2 DEF GetSlotStatus, RefreshFails
    <3>4. reply'.icc = IccStatusOf(current_card', slot_powered')
      BY <3>3 DEF SlotStatusOk, Response
    <3> QED BY <3>4 DEF IccStatusOf
  <2>7. PresenceIsRecent'
    BY ReaderPart DEF ReaderInv, ReturnInv
  <2>8. ReportIsRecent'
    BY <2>1, <2>7 DEF PresenceIsRecent
  <2> QED BY <2>3, <2>5, <2>6, <2>8 DEF ReportIsRecent
<1> HIDE DEF Goal
<1> QED BY <1>1, <1>2, <1>3, <1>4, StepKinds

-----------------------------------------------------------------------------

LEMMA SystemInitInv == SystemInit => SystemInv
<1> SUFFICES ASSUME SystemInit PROVE SystemInv
  OBVIOUS
<1>1. ReaderInv /\ TypeInv /\ BridgeInv /\ reader_name = "pn532-uart"
  BY InitInv, InitTypes, BridgeInitSafe DEF SystemInit
<1>2. call = None /\ slot_powered = FALSE /\ served = None
  BY DEF SystemInit, Pn532Init, BridgeInit
<1> QED BY <1>1, <1>2 DEF SystemInv, ServingInv, SessionInv, SessionKeepsCard,
           AnsweredByAtrCard, UnpoweredStatusIsRecent, StatusIsRecent

LEMMA SystemInvAlways == SystemSpec => []SystemInv
<1>1. SystemInv /\ [SystemNext]_systemVars => SystemInv'
  BY ReaderPart, BridgePart, NameStays, ServingPart, SessionPart, AnswerPart, StatusPart
     DEF SystemInv
<1> QED BY SystemInitInv, <1>1, PTL DEF SystemSpec

\* In a session every APDU is answered by the card whose ATR the host was given
\* (CcidBridge::handle_command over Pn532UartReader::exchange_apdu), as long as
\* the line is in step and no power-off failed in the session.
THEOREM SessionsKeepTheirCard == SystemSpec => []SessionKeepsCard
<1>1. SystemInv => SessionKeepsCard
  BY DEF SystemInv
<1> QED BY <1>1, SystemInvAlways, PTL

\* While the slot is not powered, GetSlotStatus reports only a card that was on
\* the reader within the poll interval: the bridge polls, and the reader's cache
\* (can_return_cached_presence) is not older.
THEOREM UnpoweredStatusStaysRecent == SystemSpec => []UnpoweredStatusIsRecent
<1>1. SystemInv => UnpoweredStatusIsRecent
  BY DEF SystemInv
<1> QED BY <1>1, SystemInvAlways, PTL

\* The bridge on a PN532 implements the bridge specification, whatever happens
\* on the serial line, when no card and no answer that bytes can express is
\* excluded: handle_command and refresh_card_presence make the reader call the
\* specification has them make and get a result it allows.
THEOREM BridgeOnPn532 ==
    ASSUME Unrestricted
    PROVE  SystemSpec => BridgeRefinement
<1>1. SystemInit => BridgeInit
  BY DEF SystemInit
<1>2. Trusted'
  BY DEF Trusted
<1>3. SystemInv /\ [SystemNext]_systemVars
        => [UNCHANGED bridgeVars \/ BridgeNext]_systemVars
  BY <1>2, BridgeStep
<1> QED BY <1>1, <1>3, SystemInvAlways, PTL DEF SystemSpec, BridgeRefinement

\* The same for any cards and answers, as long as the line is in step.
THEOREM BridgeOnPn532InStep == SystemSpec /\ []~out_of_step => BridgeRefinement
<1>1. SystemInit => BridgeInit
  BY DEF SystemInit
<1>2. SystemInv /\ [SystemNext]_systemVars /\ (~out_of_step)'
        => [UNCHANGED bridgeVars \/ BridgeNext]_systemVars
  BY BridgeStep DEF Trusted
<1> QED BY <1>1, <1>2, SystemInvAlways, PTL DEF SystemSpec, BridgeRefinement
=============================================================================
