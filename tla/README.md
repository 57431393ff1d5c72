# vusbipd-ccid: TLA+ models, model checking and proofs

`vusbipd-ccid` exports a virtual USB CCID smart-card reader over USB/IP and
serves it from an NFC reader. This directory specifies the program from the URBs
of the host down to the bytes on the PN532's serial line: the USB transport, the
CCID messages, the slot state machine and both reader backends.

## The system

| Component | Source | State | Operations |
|---|---|---|---|
| CCID protocol | `src/ccid/protocol.rs` | none | `CcidCommand::decode`, `CcidResponse::encode` |
| CCID bridge | `src/ccid/bridge.rs` | `current_card`, `slot_powered`, `protocol_num`, `parameters` | `handle_command` (nine kinds), `refresh_card_presence` |
| Pseudo ATR | `src/ccid/bridge.rs` | none | `build_pseudo_atr` |
| CCID transport | `src/ccid/transport.rs` | OUT buffer and cached frame length, IN queue, interrupt queue, `slot_present`, two abort halves, `state` | bulk OUT, bulk IN, interrupt IN, control requests |
| NFC reader | `src/nfc/mod.rs` | (backend) | `poll_card`, `power_off`, `exchange_apdu` |
| PN532 backend | `src/nfc/pn532.rs` | `active_target`, `cached_card`, `last_poll`, `rf_field_enabled`, serial line | the reader calls, over a request/ack/response exchange with timeouts |
| Dummy backend | `src/nfc/dummy.rs` | `selected_applet` | the reader calls |
| USB device | `src/usbip/device.rs` | `remote_wakeup_enabled` | URB routing, descriptors, device requests |
| USB/IP server, application | `src/usbip/server.rs`, `src/app.rs`, `src/config.rs`, `src/main.rs` | none | start-up |

A URB from the host reaches `CcidUsbIpInterfaceHandler::handle_urb`, which the
`usbip` crate calls under the handler's mutex, one URB at a time. It calls the
transport; the transport locks the bridge; the bridge calls the reader and
waits for it. The interrupt pipe polls the reader through the same bridge as
the commands do.

What is hard here is order: packets of one message with other URBs between
them, an abort split over two pipes, notifications queued now and sent later,
a reader that fails or loses its card in any call, cards that are exchanged
while the reader trusts its cache, and a serial line on which an answer may come
after its timeout. What each component must keep:

- protocol: a response reads back as what was meant, a malformed frame is told
  from a good one;
- bridge: a session belongs to the card the host powered on, and the replies
  tell the truth about the slot;
- transport: packets become the messages they were cut from, responses arrive
  whole and once, both halves of an abort meet, notifications are a consistent
  history and get through;
- PN532: what the cache says is about the card in the field, an answer belongs
  to the request it is taken for, and every call ends;
- framing: what the chip sends reads back, and nothing else is accepted;
- dummy: the applet answers exactly inside its session, in every short encoding.

## Modules

| Module | Models |
|---|---|
| `CcidProtocol` | message bytes: `decode`, `encode`, status byte |
| `NfcReader` | what a reader call can return, per backend |
| `CcidBridge` | `CcidBridge`: one action per command, and `refresh_card_presence` |
| `CcidSlot` | the abstract slot: the card in it, the session with it, the card announced to the host |
| `PseudoAtr` | `build_pseudo_atr`, and an ISO 7816-3 reading of an ATR; exclusive or is written out bit by bit, since nothing could be proved about the one of `Bitwise` |
| `CcidTransport` | `CcidTransport` over the bridge, and the URB routing of `device.rs` |
| `CcidHost` | the transport driven by a conforming host driver (external) |
| `Pn532Frame` | the parsers of `pn532.rs`: response frames, target lists, ATS; and encoders of what a PN532 sends (external) |
| `Formats` | the inputs of `PseudoAtr` and `Pn532Frame`, grown byte by byte, and what must hold of them |
| `Pn532Reader` | `Pn532UartReader` command by command, with the chip, the serial line, cards and time around it |
| `CcidSystem` | the bridge on a `Pn532Reader`: each command runs its reader call step by step |
| `DummyReader` | the dummy backend and its FIDO applet |
| `CcidBridgeProofs`, `CcidTransportProofs`, `CcidHostProofs`, `DummyReaderProofs`, `Pn532FrameProofs`, `FormatsProofs`, `Pn532ReaderProofs`, `CcidSystemProofs` | the theorems of the module of that name; `CcidHostProofs` builds on those of the transport, `FormatsProofs` and `Pn532ReaderProofs` on those of the frames, `CcidSystemProofs` on those of bridge and reader |
| `MC*` | instances for TLC |

`NfcReader` extends `CcidProtocol`, `CcidBridge` extends `NfcReader`,
`CcidTransport` extends `CcidBridge` and `CcidHost` extends `CcidTransport`, so
every transport run and proof is about the bridge below it too. `Pn532Reader`
extends `NfcReader` and `Pn532Frame`; `CcidSystem` extends `CcidBridge` and
`Pn532Reader`. The layers meet in two places: the transport uses the bridge's
actions with any result `NfcReader` allows, and `CcidSystem` shows that the
bridge on the detailed reader does nothing else (`BridgeRefinement`).

### How state and actions correspond to the code

Variables and constants have the names of the fields and constants they stand
for. Beyond them the models keep: `reply` (what `handle_command` returned),
`urb` (what the URB returned), and the history variables `calls` (the reader
calls of the last step), `atr_card` (the card of the last `IccPowerOn`) and
`told` (the presence last sent on the interrupt pipe). None of these is read by
a guard.

- *Bridge.* `handle_command` holds the bridge's lock for the whole command, so
  a command is one step. What the reader returns inside the step is chosen from
  `PollResults`, `PowerOffResults` and `ExchangeResults`. The CCID layer tells
  `TargetLost` from the other errors and looks no further; so does the model.
  Only `exchange_apdu` returns `TargetLost`. `XfrBlock` is three actions: its
  presence check fails, it is blocked, it exchanges.
- *Transport.* Bytes are bytes: packets are concatenated, frames cut by the
  declared length, responses encoded and split. `handle_bulk_out` is a loop, so
  storing the packet is one step and each pass of the loop another; `draining`
  keeps other URBs out in between, as the handler's mutex does.
  `update_state` runs at the end of each step with the frame length the code
  has by then; in the code it runs more than once, and only the last run is
  visible. The branch of `handle_urb` for unknown endpoints is left out: the
  device announces no other endpoints.
- *Pseudo ATR.* In the bridge the ATR of a card is the constant operator
  `BuildPseudoAtr`; the instance `MCCcidBridge` gives it `build_pseudo_atr`.
- *Host.* Not in the repository. One command at a time (the descriptor's
  `bMaxCCIDBusySlots` is 1), bulk packets of bounded size, reads until a whole
  message has arrived, and an abort of a command it no longer waits for.

- *PN532.* `call` is the call in progress: the operation, the command it has
  reached (`stage`: field on, list targets, exchange, or one of three reasons to
  switch the field off) and whether that command is to be sent, acknowledged or
  answered. `poll_card`, `power_off` and `exchange_apdu` run up to their first
  command; `Send`, `ReceiveAck` and `ReceiveResponse` do the rest, and what
  follows an answer (`RfConfigured`, `Listed`, `Exchanged`) is part of the step
  that reads it. Every command can fail to be sent and every wait can time out.
  Between any two steps the chip may acknowledge, answer, refuse or drop, and a
  card may come or go. `Instant` is counted in poll intervals since the last
  poll; half a second more or less makes no difference to the code. The
  500 ms, 1 s and 5 s timeouts are one nondeterministic choice.
- *Chip and crate* (external). The chip works on one command: it acknowledges,
  then answers or sends its error frame; a new command replaces one it has not
  answered; it may lose a command. Its field goes on when it looks for targets.
  A card taken away is no longer selected when it returns. The crate's
  `receive_ack` reads six bytes and its `process`, used for the RF field, nine
  more; neither the crate's calls used here nor `pn532.rs` discards input. A
  timeout inside a read loses the bytes read so far.
- *System.* A command that needs the reader starts its call, and the bridge's
  action happens with what the call returns; the bridge's mutex keeps every
  other command out until then, and only the world moves. A command without a
  reader call is one step. `Interrupt` stands for the poll of an interrupt
  transfer.
- *History of the reader.* `seen` holds the age of the last moment each card, or
  no card, was on the reader; `out_of_step` that a wait timed out or an answer
  was refused, after which unread bytes may be on the line (`seen` is no longer
  kept then); `poll_failed` that the latest poll gave no answer; `off_failed`
  that a power-off failed since the last power-on.
- *Dummy.* Answers are named, status words are kept. `log` is the history of
  calls the properties speak about. `card_present` is always true in the code.

Operators introduced as *faults* in comments are single defects of the
definition that follows them; no specification uses them. Putting a fault in
place of its definition makes TLC report the property it is listed with in
`PROJECT.json`, which shows that the property depends on that code.

## Model checking

| Run | Checks | Shows |
|---|---|---|
| `bridge` | `BridgeTypeOK`, `PoweredImpliesCard`, `PoweredCardIsAtrCard`, `SuccessReportsSlot`, `OneReaderCall`, `ApduOnlyInSession`, `SlotRefinement` | slot, session and replies agree; the bridge implements `CcidSlot` |
| `formats` | `AtrReadsBack`, `FrameReadsBack`, `CorruptFrameRejected`, `PartialFrameWaits`, `TargetReadsBack`, `CutListNotMisread` | count, truncation and checksum of the ATR agree at every length; the frame parser inverts the chip's encoder and accepts nothing else near it; UID and historical bytes are read with every set of interface bytes, and a cut list is no other card |
| `transport` | `TransportTypeOK`, `FrameLenIsCurrent`, `CompleteFramesDecode`, `InQueueBounded`, `PresenceInSync`, `NotificationsConsistent`, `AbortHalvesMeet` | framing, queues and aborts with URBs in any order |
| `host` | `ResponseIsWhole`, `IdleIsClean`, `OneEmptyRead`, `EveryCommandAnswered`, `PresenceReported` | a conforming host gets one whole answer per command, at most one empty packet is left over, which costs the next command one read, and it learns of a card that stays |
| `pn532_reader` | `Pn532TypeOK`, `TargetNeedsField`, `QuietLineOwnAnswer`, `AnsweredByCachedCard`, `PresenceIsRecent`, `FieldFlagIsTrue`, `LineInStep`, `CallAdvances`, `EveryCallReturns` | target, cache, field flag, line and answers agree while cards, failures and timeouts interfere; every result is within `NfcReader`'s contract; no call polls or exchanges twice, and every call returns, whatever the chip does or fails to do |
| `system` | `SessionKeepsCard`, `UnpoweredStatusIsRecent`, `BridgeRefinement` | a session stays with the card of its ATR; an unpowered slot reports presence within the interval; bridge and PN532 together implement the bridge specification |
| `system_removal` | `RemovalNoticed` | a card taken away for good is dropped in the end |
| `dummy_reader` | `GetInfoExactlyInSession`, `WrongLengthOnlyIfWrong` | the applet's session, and which byte strings are read as APDUs |
| `transport_abandoned` | `MatchingBulkAbortCompletes` (violated) | finding 1 |
| `pn532_late_answer` | `EveryAnswerIsOwn` (violated) | finding 2 |
| `pn532_failed_poll` | `PollDetectsPresence` (violated) | finding 3 |
| `system_power_off` | `SlotStateIsTokenState` (violated) | finding 4 |

Three violated properties have a counterpart that holds and differs in one
premise: `EveryAnswerIsOwn` and `QuietLineOwnAnswer` in the line being quiet when
the call starts, `PollDetectsPresence` and `PresenceIsRecent` in `poll_failed`,
`SlotStateIsTokenState` and `SessionKeepsCard` in `off_failed`. These findings are
therefore the only reasons for which these fail.

Run one with `tlc -config <cfg> <module>`; `PROJECT.json` names both.

### Bounds

- *bridge*: two cards, so that one can replace the other, with an ATR that is
  passed through and one that is built; one frame of every kind, accepted and
  refused parameters, an unknown type and a length mismatch; both backends. The
  state space is finite without further bounds.
- *formats*: for the ATR, all strings up to length 16, one past the fifteen
  bytes `T0` can count, over two byte values, one of which marks a whole ATR;
  for frames, payloads of 0 to 4 bytes over four byte values, and the same after
  251 fixed bytes, so that the frame length passes from 253 to 257 through the
  change at 256; for target lists, 4 and 7 byte UIDs, every subset of TA, TB, TC,
  and historical bytes. The theorems of `FormatsProofs` hold for every alphabet,
  every UID and every length the formats can carry.
- *transport*: one whole command, one command cut inside its payload, the bulk
  Abort and an oversized header; `MaxOutBuffer = 21` lets one message follow an
  unfinished one. `MAX_PENDING_IN_FRAMES = 2` (32 in the code) reaches the limit
  with a response half read. `MaxBacklog = 2` stops bulk OUT and matched control
  aborts at two queued notifications: enough for a change that is queued behind
  another. Control aborts for the matching number, another number and another
  slot.
- *host*: commands with a plain status and with data, a command of two packets,
  reads of 10 bytes (which a status response fills exactly) and of 5; sequence
  numbers wrap at 3, so a stale number would be met again soon.
- *pn532_reader*: two cards, one with and one without historical bytes, two
  APDUs, and one that is a byte too long for the buffer. `MaxBacklog = 6`: a
  call may start with an unread acknowledgement, or the rest of an error frame, on
  the line; the two runs with a finding allow 12. `LongAgo` cuts ages off where no interval
  distinguishes them.
- *system*: two cards, the commands that call the reader, one APDU;
  `MaxBacklog = 0`, so a call starts with no unread bytes: what a line out of
  step does is the question of `pn532_reader`, and what the bridge makes of it then is
  shown by the proof of `BridgeOnPn532` for any backlog. The removal run has one card,
  which it does not need to tell from another, and leaves out GetSlotStatus (the interrupt poll does the same) and the
  behaviours that fall out of step, which its property excludes.
- *dummy_reader*: four calls, enough to select, disturb, end and ask again; one
  APDU for every arm of `handle_apdu`, each with and without Le, with bytes behind
  it, and in the form of an extended APDU.

The bounds on the buffer and the backlog are conjuncts of the guards; the
proofs hold for every value of them.

### Fairness

`FairTransportSpec` has weak fairness of `DrainOutBuffer`, because the loop of
`handle_bulk_out` runs to its end once entered, and strong fairness of
`PollInterruptIn`, because the host keeps an interrupt IN URB submitted and URBs
are served in the order they arrive; draining disables it again and again, which
weak fairness would not survive. Nothing is assumed of what the poll returns:
it may fail forever. `FairHostSpec` has weak fairness of the host's own steps
once it has started something (writing, reading, sending the halves of an
abort) and of the loop; it does not oblige the host to submit or to give up.
`PresenceReported` takes strong fairness of the interrupt poll as its premise, for
the reason above.

`FairPn532Spec` has weak fairness of `ReaderStep`, the steps of the thread that is
in the call, and of nothing else: the chip may be silent for ever, and the CCID
layer need not call. The thread always has a step, because each wait ends with the
bytes it waits for or with its deadline; that it gets to the end is
`EveryCallReturns`, and how far the end is at most (four commands: field on, list
targets, exchange, field off) is `CallAdvances`.

`SystemLiveSpec` assumes that the thread making a reader call runs on (every wait
in `pn532.rs` has a deadline, `EveryCallReturns`), that the chip works, that time
passes, and that the host keeps an interrupt transfer submitted and goes on
sending APDUs, each of them again and again possible only between calls, hence
strong fairness. Without the passing of time, or without the thread,
`RemovalNoticed` fails: the cache would answer forever, or nobody would.

## Proofs

The theorems hold for all cards, frames, packets, read sizes, abort requests,
APDUs, response APDUs, limits and bounds that satisfy the assumptions.

| Theorem | Statement |
|---|---|
| *`CcidBridgeProofs`* | |
| `BridgeTypeCorrect` | `BridgeSpec => []BridgeTypeOK` |
| `PoweredSlotHasCard` | `BridgeSpec => []PoweredImpliesCard` |
| `SessionSafe` | `BridgeSpec => []PoweredCardIsAtrCard` |
| `SuccessIsTruthful` | `BridgeSpec => []SuccessReportsSlot` |
| `BridgeImplementsSlot` | `BridgeSpec => SlotRefinement` |
| `ApdusStayInSession` | `BridgeSpec => ApduOnlyInSession` |
| `OneCallPerCommand` | `BridgeSpec => []OneReaderCall` |
| *`CcidTransportProofs`* | |
| `TransportTypeCorrect` | `TransportSpec => []TransportTypeOK` |
| `FramingSound` | `TransportSpec => []FrameLenIsCurrent` |
| `TakenFramesDecode` | `TransportSpec => []CompleteFramesDecode` |
| `QueueStaysBounded` | `TransportSpec => []InQueueBounded` |
| `PresenceStaysInSync` | `TransportSpec => []PresenceInSync` |
| `NotificationsTruthful` | `TransportSpec => []NotificationsConsistent` |
| `AbortsMatched` | `TransportSpec => []AbortHalvesMeet` |
| `TransportImplementsSlot` | `TransportSpec => SlotRefinement` |
| *`CcidHostProofs`* | |
| `ResponsesStayWhole` | `HostSpec => []ResponseIsWhole` |
| `IdleStaysClean` | `HostSpec => []IdleIsClean` |
| `EmptyReadsStayOne` | `HostSpec => []OneEmptyRead` |
| `HostKeepsTransportSafe` | `HostSpec => []TransportInv` |
| *`Pn532FrameProofs`* | |
| `FrameReadsBackAlways` | a frame of any payload, with anything behind it, is read back and exactly consumed |
| `PartialFrameAlwaysWaits` | of a frame cut anywhere nothing is read |
| `TargetReadsBackAlways`, `BareTargetReadsBack` | any UID, any historical bytes, any interface bytes or no ATS: the target list gives the card |
| *`FormatsProofs`* | |
| `AtrsReadBack` | `FormatsSpec => []AtrReadsBack` |
| `FramesReadBack` | `FormatsSpec => []FrameReadsBack` |
| `PartialFramesWait` | `FormatsSpec => []PartialFrameWaits` |
| `CorruptFramesRejected` | `FormatsSpec => []CorruptFrameRejected` |
| `ChangedFrameRejected` | a frame of any payload with any one byte changed to any other is not accepted, unless its length is `Mistakable` |
| `TargetsReadBack` | `FormatsSpec => []TargetReadsBack` |
| `CutListsNotMisread` | `FormatsSpec => []CutListNotMisread` |
| *`Pn532ReaderProofs`* | |
| `TargetHasField` | `Pn532Spec => []TargetNeedsField` |
| `LineStaysInStep` | `Pn532Spec => []LineInStep` |
| `QuietCallsGetOwnAnswer` | `Pn532Spec => []QuietLineOwnAnswer` |
| `CachedCardAnswers` | `Pn532Spec => []AnsweredByCachedCard` |
| `ReportedPresenceIsRecent` | `Pn532Spec => []PresenceIsRecent` |
| `FieldFlagStaysTrue` | `Pn532Spec => []FieldFlagIsTrue` |
| `CallsAdvance` | `Pn532Spec => CallAdvances` |
| `ReaderTypeCorrect` | if `Unrestricted`: `Pn532Spec => []Pn532TypeOK` |
| `InStepTypes` | `Pn532Spec => [](~out_of_step => Pn532TypeOK)` |
| *`CcidSystemProofs`* | |
| `SessionsKeepTheirCard` | `SystemSpec => []SessionKeepsCard` |
| `UnpoweredStatusStaysRecent` | `SystemSpec => []UnpoweredStatusIsRecent` |
| `BridgeOnPn532` | if `Unrestricted`: `SystemSpec => BridgeRefinement` |
| `BridgeOnPn532InStep` | `SystemSpec /\ []~out_of_step => BridgeRefinement` |
| *`DummyReaderProofs`* | |
| `GetInfoOnlyInSession` | `DummySpec => []GetInfoExactlyInSession` |
| `WrongLengthIsWrong` | `DummySpec => []WrongLengthOnlyIfWrong` |
| `EveryStringIsCovered` | with all headers, payloads and bytes behind them, every byte string is `TooShort` or one of the `Encodings` |

**Assumptions.** TLC evaluates each of them on every instance.

- `ReaderAssumption`: the dummy's card is a card, response APDUs are bytes,
  `None` is no card, number, pair or response.
- `BridgeAssumption`: frames and ATRs are bytes.
- `TransportAssumption`: packets are bytes, sizes are numbers, the queue limit is
  positive.
- `HostAssumption`: commands are bytes and keep to the `dwMaxCCIDMessageLength` of the
  descriptor, ATRs and response APDUs have lengths the four bytes of a header can
  hold, there are at least two sequence numbers, and a packet has a byte. Without
  the first the transport drops a command (`Oversized`), and the host waits in vain;
  with one sequence number an abort could not be told from the command it aborts.
- `FormatsAssumption`: the alphabets and UIDs are bytes, and lengths fit the formats: one
  byte for the length of a UID and of an ATS (at most 250 historical bytes behind
  its length, `T0`, TA, TB and TC), two for that of a frame. The length of the
  historical bytes given to `build_pseudo_atr` is not limited.
- `Pn532Assumption`: cards, APDUs and answers are bytes, and what a card says fits
  the chip's formats: one byte for the length of a UID and of an ATS, two for that
  of a frame. Without the last no PN532 could report the card.
- `CallAssumption`: `None` is no call.
- `SystemAssumption`: an APDU the bridge passes on is among `Apdus`, and `None` is
  no command.
- `DummyAssumption`: headers, payloads and what follows them are bytes, payloads are
  short, and a malformed APDU has no whole header or announces more bytes than it
  has. This leaves no byte string out (`EveryStringIsCovered`).

`Unrestricted` is a hypothesis of two theorems and no assumption: `Cards` holds
every card the formats can describe and `ApduResponses` every byte string. It is
what the code itself may meet. It is needed there because a line out of step may
yield bytes of one answer read at a wrong place, and these may list a card
nobody put on the reader; when `Cards` leaves it out, `Pn532TypeOK` is false. While
the line is in step both results hold for any `Cards` (`InStepTypes`,
`BridgeOnPn532InStep`).

*The bridge.* The inductive invariant `BridgeInv` is the type invariant with
`PoweredImpliesCard` and `PoweredCardIsAtrCard`. The second needs the first:
`refresh_card_presence` spares a powered slot only if it has a card, so a
powered empty slot would be polled and get a card without an ATR. The session
of `CcidSlot` is `IF slot_powered THEN current_card ELSE None`, the card it was
announced with is `atr_card`, and the eager reader is the dummy backend. Every
command opens, refuses, closes, loses or detects, or leaves the slot as it is;
in particular nothing but IccPowerOn can put another card into an open session.

*The transport.* `TransportInv` adds `FrameLenIsCurrent`, `InQueueBounded`,
`PresenceInSync`, `NotificationsConsistent` and `AbortHalvesMeet`. The type of
a decoded frame needs `FrameLenIsCurrent`, since the frame is cut by the cached
length. `NotificationsConsistent` speaks of the queue, of what was sent and of
`slot_present`; the lemmas `HistoryAppend` and `HistoryTail` say that queueing a
notification computed from `slot_present` and sending the oldest both extend or
shift one history. `CompleteFramesDecode` follows: the error path for a taken
frame that does not decode is dead code behind the transport.

*The host.* `HostInv` joins `TransportInv` with a description of each phase of the
host. While it writes, what the buffer holds and what is still to be sent make up
one command, so the loop can only wait: the frame length it reads from the header is
that of the whole (`PartWaits`). Once all is sent, the command is either the whole
buffer (`WholeIsTaken`: the loop takes it and leaves nothing), or answered, or held
as a bulk Abort. `Answered` says that what has been read and the one frame unread
join to a whole message with the outstanding number; a read keeps that or ends it
(`ReadsAnswer`), and as no message begins another (`NotBothWhole`), the host stops
reading exactly at its end. While it aborts, `NeitherSent`, `ControlSent` and
`BulkSent` say what the transport holds of the abort and of the command given up,
whose number is another (`NextSeqIsFresh`), so that the halves meet each other and
nothing else; `finish_abort` clears the queue, and the answer to the abort is alone
in it. `OneEmptyRead` needs besides that no read is served inside the loop
(`EmptyReadInv`): behind an empty read `ReadsAnswer` leaves the answer alone in the queue. `MessageLayout` is the arithmetic behind all this: the length in a header is
read back, and the type and the number stand where they are looked for.

*Frames.* The sum of a frame is a recursive function on ranges of it. `SumOfHalves`
gives it meaning: there are prefix sums `s` with `s[i] = s[i - 1] + b[i]`
(`SumsExist`), and the sum of any range is a difference of two of them modulo
256, so that adding the complement makes it zero (`ChecksumCancels`). Both are proved by
induction over the naturals and over the length of a range; as no theorem with an
operator parameter can be used, the induction is `SetInduction`, in which the
claim is a set of numbers. The rest is arithmetic of positions: which byte of the
header, the body or the tail stands where, for lengths of one byte and of two.

*Formats.* `FormatsInv`, which is inductive, says that what is grown is bytes within those
lengths; the six properties follow from it without a further step of the
specification, by the lemmas about one input.
A changed frame: `AcceptedFrame` says what a parser that returns a payload has seen, with
a header of five or of eight bytes (`k`) and a body of `n` bytes: preamble, length
check, direction, code, checksum, postamble. The frame sent and the changed
one would both have to be like that. If both have the same `k`, the changed byte
leaves the length alone, because one byte cannot change a length and keep its check
(`HeaderRead`), and two bodies that differ in one byte have different sums
(`SumsShift`, `SumChanges`), so the checksum gives it away. If `k` changes, the
changed byte is in the marker of an extended frame: `MarkerMade` says that a short
frame never gets one, `MarkerLost` that an extended frame that loses it would have its
two length bytes read as direction and code. That is what `Mistakable` excludes,
a single length: 54593 bytes, which no PN532 sends, and where a frame of 255
bytes is accepted or not depending on the payload.
A cut target list: each length check of the parser stands before the bytes it
guards, so a cut inside the fixed part or the UID is refused, one inside the ATS too, since the ATS
states its own length, and one exactly before the ATS leaves a card without any.
An ATR: `XorCancels`, by induction over the prefixes (`XorsExist`) from the facts
about one bit, makes the bytes and their exclusive or add up to zero. The reader
of the ATR follows the chain of TD bytes by recursion; `ChainsExist` and
`TDsFollow` unfold it, and on the three fixed bytes `build_pseudo_atr` starts with it
ends after TD2, which announces T=1 (`PseudoHeader`).

*The PN532 reader.* `TargetNeedsField` relates two fields that are set in
different commands of a call, so `FieldInv` adds what each stage knows: targets
are listed only with the field on, and no target is selected once a command to
switch the field off is due. Nothing is said about the bytes received, so it
holds for any chip. The other properties need to know what is on the line.
`ReaderInv` adds:

- `CallInv`: the stages a call of each operation can be in.
- `WorldInv`: the chip selects only the card that is there, with its field on, and
  `seen` records where the cards are.
- `LineInv`: a call that started on a quiet line has on it nothing yet, or its
  acknowledgement and the chip's error frame, or its acknowledgement and an answer
  that fits its command (`Answered`): for an APDU the answer of the selected card.
  With `FrameReadsBackAlways` this is why a reader takes exactly its own answer.
- `StepInv`: in step, every call is quiet, the line between calls is empty, and
  `FieldKnown`, `TargetKnown` and `CacheRecent` hold: field flag, target and cache
  are right unless the answer that will correct them is still on the line.
- `ReturnInv`: what the last step returned.

`CallsAdvance` needs only the stages of `CallInv`: `Nearer` says that a step ends the
call, goes to the next phase of its command, or to a command that comes later.

For `ReaderTypeCorrect`, `TypeInv` says that the line holds bytes and the fields what
bytes can describe, whatever was read where: `HistoricalType` and `CardType` are
about `ats_historical_bytes` and `poll_card` on any bytes at all.

*The system.* `SystemInv` joins `ReaderInv` and `BridgeInv` with two links.
`ServingInv`: the call in progress is the one the command being served makes,
so the bridge's action happens with a result of that call. `SessionInv`: in
an open session the reader has a target, its cache is the bridge's card, and an
exchange goes straight to its data command; if the reader has dropped the target
it is about to say `TargetLost`, which ends the session. From there
`SessionKeepsCard` is `AnsweredByCachedCard` and `PoweredCardIsAtrCard`, one on each side.
For the refinement each step of the system is a step of the bridge with a result
`NfcReader` allows, which is what `Pn532TypeOK` promises, or changes nothing of it.

*The dummy reader.* Its `SessionInv` says that `selected_applet` agrees with the history:
selected if and only if the last SELECT came after the last END or power-off.
`EncodingReadsBack` shows that a header, a length and that many bytes are read as
what they say, for any payload of up to 255 bytes and whatever follows it, and
`MalformedIsRefused` that the rest is wrong length. What follows may be an Le, or
the greater part of an APDU of extended length, whose first length byte is 0: the
code does not refuse it but takes it for an APDU without data (`dummy.rs:152-161`).

**Only model-checked.** The liveness properties (`PresenceReported`,
`EveryCommandAnswered`, `RemovalNoticed`, `EveryCallReturns`), because fairness is out
of the prover's reach. Every other property of a passing run is a theorem.

## Findings

1. *An Abort behind an unfinished message* is appended to it
   (`transport.rs:101`) and consumed as payload; the abort never completes.
2. *A late answer.* If an acknowledgement is late (`pn532.rs:397`), it and the
   answer behind it are read by the next `exchange_apdu`, which returns the
   answer to the previous APDU. Nothing discards unread input before a command,
   and an answer carries only the command code.
3. *A failed poll counts as a poll.* `last_poll` is set before the poll succeeds
   (`pn532.rs:168`); after a failure the cache is trusted for another interval.
4. *A failed power-off lets the card change.* `power_off` forgets the target
   first (`pn532.rs:239`). If the field then cannot be switched off, the bridge
   replies Inactive but keeps the slot powered (`bridge.rs:96`), and the next APDU
   selects and reaches whatever card is there.

Seen while modelling, without a run of their own:

- `handle_bulk_in` queues an empty packet whenever a read is filled exactly
  (`transport.rs:151`), also by the end of a response. The host reads no more, as it
  knows the length of the response, so the packet stays, and the first read of the
  next command gets it, and nothing, although the response is ready behind it. The
  test of that name (`bulk_out_queues_a_response_frame`, `transport.rs:430`) asserts
  that the read after a bulk OUT is not empty (`transport.rs:442`) and tries the
  first command only. The packet is the only thing a command leaves behind
  (`IdleIsClean`), never part of an answer (`ResponseIsWhole`) and costs one read,
  never two (`OneEmptyRead`), so a host that reads again gets its response
  (`EveryCommandAnswered`).
- GetSlotStatus powers the slot of a reader named "dummy" (`bridge.rs:120`), so a
  session opens without an ATR. The session properties exempt that backend.
- `update_slot_presence` queues a notification also when nothing changed
  (`transport.rs:185`). As a URB puts in one and takes out one, the backlog left
  by commands never shrinks; `NotificationsConsistent` and `PresenceReported`
  hold all the same.
- A powered slot is never polled (`bridge.rs:308`), so GetSlotStatus goes on
  reporting a card that is gone until an APDU fails. `UnpoweredStatusIsRecent`
  speaks of unpowered slots only; `RemovalNoticed` says what remains.
- The error frame of the chip is refused after its header (`pn532.rs:460`) and its
  last three bytes stay on the line, so that the next acknowledgement is read out
  of step. From a quiet line this never yields a wrong answer (`QuietLineOwnAnswer`).
  On the instance it never yields a card that is not there (`Pn532TypeOK`); in
  general it might, which is why that theorem has a hypothesis.

## Not modelled, and why

- `Pn532UartFactory::open`: its three commands run before there is a reader; the
  initial state is the one it leaves on a chip fresh from reset. A server that is
  restarted while the chip keeps its field on starts with a flag that is not
  true until the first poll; no text says what should hold then.
- Descriptors, configuration, command line, start-up and logging (`select_aid`,
  `format_hex`): constant data or output without state. The content of the
  dummy's authenticatorGetInfo answer is constant too.
- The control requests of the device handler: they set and report one flag
  (remote wake-up) that nothing else in the program reads.
- The USB/IP crate: external; its serialisation of URBs is assumed.
- An ATS of one byte: `ats_historical_bytes` refuses it (`pn532.rs:326`), so that such a
  card is never found; `EncodeAts` always sends `T0`.
- `examples/pn532_list_passive_target.rs`: a diagnostic program that shares no
  code with the server.
- A poisoned bridge lock: it takes a panic inside the bridge, and there is none
  on the modelled paths.
- Parameters that survive a change of card: the code resets them in
  ResetParameters only, and nothing says it should do more.

## Plan

Done: protocol, bridge with its abstract slot, ATR, transport, host, both reader
backends, their composition with the bridge, and a proof of every safety property
that holds. What would add most: `CcidSystem` under the transport, to follow
a card from the field to the notification on the interrupt pipe.
