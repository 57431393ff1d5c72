---------------------------- MODULE CcidTransport ---------------------------
(***************************************************************************)
(* CcidTransport of src/ccid/transport.rs on top of the bridge: bulk OUT   *)
(* packets are joined into messages and run, responses are queued for bulk *)
(* IN, slot changes for interrupt IN, and the two halves of an abort (one  *)
(* on the control pipe, one on bulk OUT) are matched in either order.      *)
(*                                                                         *)
(* The USB/IP server locks the interface handler for one URB at a time, so *)
(* a handler is one step; only handle_bulk_out, which runs a loop, takes a *)
(* step to store its packet and one for every pass of the loop, and        *)
(* draining keeps every other URB out meanwhile.                           *)
(***************************************************************************)
EXTENDS CcidBridge

CONSTANTS Packets,                \* the payloads of bulk OUT URBs
          ReadSizes,              \* transfer_buffer_length of bulk IN URBs
          AbortRequests,          \* the <<slot, seq>> of control aborts
          MAX_PENDING_IN_FRAMES,
          MaxOutBuffer,           \* bound on pending_out_buffer, in bytes
          MaxBacklog              \* bound on pending_interrupt_frames

ASSUME TransportAssumption ==
    /\ Packets \subseteq Seq(Byte)
    /\ ReadSizes \subseteq Nat
    /\ AbortRequests \subseteq Byte \X Byte
    /\ MAX_PENDING_IN_FRAMES \in Nat \ {0}
    /\ MaxOutBuffer \in Nat
    /\ MaxBacklog \in Nat

VARIABLES
    state,
    pending_in_frames,         \* messages, the first one maybe half delivered
    pending_interrupt_frames,
    pending_out_buffer,        \* bytes received and not yet taken as a frame
    next_frame_len,            \* length of the frame at its head, or None
    slot_present,
    bulk_abort,                \* sequence number of an unmatched bulk Abort
    control_abort,             \* <<slot, seq>> of an unmatched control abort
    draining,                  \* inside the loop of handle_bulk_out
    urb,                       \* what the last URB returned
    told                       \* history: presence as last sent to the host

queueVars == <<pending_in_frames, pending_interrupt_frames, slot_present>>
transportVars == <<state, queueVars, pending_out_buffer, next_frame_len,
                   bulk_abort, control_abort, draining, urb, told>>
vars == <<bridgeVars, transportVars>>

CCID_MAX_MESSAGE_LENGTH == 3072
CCID_NOTIFY_SLOT_CHANGE == 80
CMD_ABORTED_ERROR == 255
CCID_CLOCK_FREQUENCY_KHZ == <<252, 13, 0, 0>>
CCID_DATA_RATE_BPS == <<128, 37, 0, 0>>

Endpoints == {"none", "control", "bulk_out", "bulk_in", "interrupt_in"}

Urb(ep, data) == [ep |-> ep, ok |-> TRUE, data |-> data]
FailedUrb(ep) == [ep |-> ep, ok |-> FALSE, data |-> << >>]

-----------------------------------------------------------------------------
(* update_state, on the queue and the buffer as the handler leaves them;    *)
(* len is the frame length known by then.                                   *)

StateOf(in_frames, out_buffer) ==
    IF in_frames # << >> THEN "ReadyToSend"
    ELSE IF out_buffer = << >> THEN "Idle" ELSE "Receiving"

\* Fault: a length once known is never forgotten.
KeepsFrameLen(len) ==
    /\ state' = StateOf(pending_in_frames', pending_out_buffer')
    /\ next_frame_len' = IF len = None THEN next_frame_len ELSE len

update_state(len) ==
    /\ state' = StateOf(pending_in_frames', pending_out_buffer')
    /\ next_frame_len' = IF state' = "Idle" THEN None ELSE len

-----------------------------------------------------------------------------
(* Queues *)

\* Fault: the limit is off by one.
PushesOneTooMany(queue, frame) ==
    IF queue # << >> /\ queue[Len(queue)] = frame THEN queue
    ELSE IF Len(queue) > MAX_PENDING_IN_FRAMES THEN <<frame>>
    ELSE Append(queue, frame)

push_in_frame(queue, frame) ==
    IF queue # << >> /\ queue[Len(queue)] = frame THEN queue
    ELSE IF Len(queue) >= MAX_PENDING_IN_FRAMES THEN <<frame>>
    ELSE Append(queue, frame)

\* NotifySlotChange for one slot: bit 0 is presence, bit 1 says it changed.
Notify(present, changed) ==
    <<CCID_NOTIFY_SLOT_CHANGE,
      (IF present THEN 1 ELSE 0) + (IF changed THEN 2 ELSE 0)>>

Notifications == {Notify(p, c) : p \in BOOLEAN, c \in BOOLEAN}

SaysPresent(frame) == frame[2] % 2 = 1
SaysChanged(frame) == frame[2] \div 2 = 1

\* Faults: a change is measured against what was sent, not against what is
\* queued; only the removal of a card is notified.
ComparesWithTold(present) ==
    Append(pending_interrupt_frames, Notify(present, present # told))

DropsArrivals(present) ==
    IF present THEN pending_interrupt_frames
    ELSE Append(pending_interrupt_frames, Notify(present, present # slot_present))

\* The queue update_slot_presence leaves; slot_present becomes present.
Notified(present) ==
    Append(pending_interrupt_frames, Notify(present, present # slot_present))

\* Fault: the new presence is not remembered.
ForgetsPresence(present) ==
    /\ pending_interrupt_frames' = Notified(present)
    /\ UNCHANGED slot_present

update_slot_presence(present) ==
    /\ pending_interrupt_frames' = Notified(present)
    /\ slot_present' = present

\* Behind what is left of queue.  The bridge's step has set reply'.
enqueue_response(queue, response) ==
    /\ pending_in_frames' = push_in_frame(queue, encode(response))
    /\ update_slot_presence(current_card' # None)

\* A handler that leaves the bridge alone.
BridgeIdle ==
    /\ reply' = None
    /\ calls' = << >>
    /\ UNCHANGED <<reader_name, current_card, slot_powered, protocol_num,
                   parameters, atr_card>>

-----------------------------------------------------------------------------
(* Aborts *)

AbortCommand(slot, seq) ==
    [op |-> "Abort", slot |-> slot, seq |-> seq, param |-> 0, payload |-> << >>]

\* Fault: the control half stays held.
KeepsControlHalf(slot, seq) ==
    /\ handle_command(AbortCommand(slot, seq))
    /\ bulk_abort' = None
    /\ UNCHANGED control_abort
    /\ pending_out_buffer' = << >>
    /\ enqueue_response(<< >>, reply')
    /\ update_state(None)

finish_abort(slot, seq) ==
    /\ handle_command(AbortCommand(slot, seq))
    /\ bulk_abort' = None
    /\ control_abort' = None
    /\ pending_out_buffer' = << >>
    /\ enqueue_response(<< >>, reply')
    /\ update_state(None)

queue_aborted_response(c) ==
    /\ BridgeIdle
    /\ enqueue_response(pending_in_frames,
           [SlotStatusFailed(c, CurrentIccStatus) EXCEPT !.error = CMD_ABORTED_ERROR])

-----------------------------------------------------------------------------
(* Bulk OUT *)

\* Room for one more notification: the bound MaxBacklog.
BacklogRoom == Len(pending_interrupt_frames) < MaxBacklog

handle_bulk_out(packet) ==
    /\ ~draining
    /\ BacklogRoom
    /\ Len(pending_out_buffer) + Len(packet) <= MaxOutBuffer
    /\ pending_out_buffer' = pending_out_buffer \o packet
    /\ UNCHANGED queueVars
    /\ update_state(next_frame_len)
    /\ draining' = TRUE
    /\ urb' = Urb("none", << >>)
    /\ BridgeIdle
    /\ UNCHANGED <<bulk_abort, control_abort, told>>

\* try_take_complete_frame
HasHeader == Len(pending_out_buffer) >= HeaderLen

FrameLen == IF next_frame_len # None THEN next_frame_len
            ELSE HeaderLen + DeclaredLen(pending_out_buffer)

Oversized == /\ HasHeader
             /\ next_frame_len = None
             /\ FrameLen > CCID_MAX_MESSAGE_LENGTH + HeaderLen

FrameComplete == HasHeader /\ ~Oversized /\ Len(pending_out_buffer) >= FrameLen

NextFrame == SubSeq(pending_out_buffer, 1, FrameLen)
AfterFrame == SubSeq(pending_out_buffer, FrameLen + 1, Len(pending_out_buffer))

\* The loop ends: no complete frame is buffered.
WaitForMore ==
    /\ draining
    /\ ~Oversized /\ ~FrameComplete
    /\ UNCHANGED <<queueVars, pending_out_buffer>>
    /\ update_state(IF HasHeader THEN FrameLen ELSE None)
    /\ draining' = FALSE
    /\ urb' = Urb("bulk_out", << >>)
    /\ BridgeIdle
    /\ UNCHANGED <<bulk_abort, control_abort, told>>

\* The loop ends with an error: an oversized frame drops the whole buffer, one
\* that does not decode only itself.
RejectFrame ==
    /\ draining
    /\ \/ Oversized /\ pending_out_buffer' = << >>
       \/ FrameComplete /\ ~Decodable(NextFrame) /\ pending_out_buffer' = AfterFrame
    /\ UNCHANGED queueVars
    /\ update_state(None)
    /\ draining' = FALSE
    /\ urb' = FailedUrb("bulk_out")
    /\ BridgeIdle
    /\ UNCHANGED <<bulk_abort, control_abort, told>>

\* A frame is taken; c below is the command it decodes to.
TakeFrame ==
    /\ draining
    /\ FrameComplete /\ Decodable(NextFrame)
    /\ UNCHANGED <<draining, urb, told>>

IsControlAbort(c) == c.op = "Abort" /\ control_abort = <<c.slot, c.seq>>

MatchControlAbort(c) ==
    /\ TakeFrame
    /\ IsControlAbort(c)
    /\ finish_abort(c.slot, c.seq)

AnswerAborted(c) ==
    /\ TakeFrame
    /\ control_abort # None /\ ~IsControlAbort(c)
    /\ queue_aborted_response(c)
    /\ pending_out_buffer' = AfterFrame
    /\ update_state(None)
    /\ UNCHANGED <<bulk_abort, control_abort>>

HoldBulkAbort(c) ==
    /\ TakeFrame
    /\ control_abort = None
    /\ c.op = "Abort"
    /\ bulk_abort' = c.seq
    /\ pending_out_buffer' = AfterFrame
    /\ UNCHANGED queueVars
    /\ update_state(None)
    /\ BridgeIdle
    /\ UNCHANGED control_abort

RunCommand(c) ==
    /\ TakeFrame
    /\ control_abort = None
    /\ c.op # "Abort"
    /\ bulk_abort' = None
    /\ handle_command(c)
    /\ enqueue_response(pending_in_frames, reply')
    /\ pending_out_buffer' = AfterFrame
    /\ update_state(None)
    /\ UNCHANGED control_abort

DrainOutBuffer ==
    \/ WaitForMore
    \/ RejectFrame
    \/ MatchControlAbort(decode(NextFrame))
    \/ AnswerAborted(decode(NextFrame))
    \/ HoldBulkAbort(decode(NextFrame))
    \/ RunCommand(decode(NextFrame))

-----------------------------------------------------------------------------
(* Bulk IN, interrupt IN and control requests *)

\* The packet a bulk IN URB of size max_len returns and the queue it leaves: a
\* frame that fills its last packet is followed by an empty one.
BulkInPacket(max_len) ==
    LET frame == Head(pending_in_frames)
    IN  IF Len(frame) <= max_len THEN frame ELSE SubSeq(frame, 1, max_len)

\* Faults: the unread part is not put back; an empty packet is followed by another.
DropsRest(max_len) == << >>

RepeatsEmpty(max_len) ==
    LET frame == Head(pending_in_frames)
    IN  IF Len(frame) > max_len THEN <<SubSeq(frame, max_len + 1, Len(frame))>>
        ELSE IF Len(frame) % max_len = 0 THEN << << >> >>
        ELSE << >>

BulkInRest(max_len) ==
    LET frame == Head(pending_in_frames)
    IN  IF Len(frame) > max_len THEN <<SubSeq(frame, max_len + 1, Len(frame))>>
        ELSE IF frame # << >> /\ Len(frame) % max_len = 0 THEN << << >> >>
        ELSE << >>

handle_bulk_in(max_len) ==
    /\ ~draining
    /\ \/ /\ pending_in_frames = << >>
          /\ urb' = Urb("bulk_in", << >>)
          /\ UNCHANGED pending_in_frames
       \/ /\ pending_in_frames # << >>
          /\ urb' = Urb("bulk_in", BulkInPacket(max_len))
          /\ pending_in_frames' = BulkInRest(max_len) \o Tail(pending_in_frames)
    /\ UNCHANGED pending_out_buffer
    /\ update_state(next_frame_len)
    /\ BridgeIdle
    /\ UNCHANGED <<pending_interrupt_frames, slot_present, bulk_abort,
                   control_abort, draining, told>>

\* A presence check that succeeds queues a notification, changed or not; then
\* the oldest one is sent.
handle_interrupt_in(poll) ==
    /\ ~draining
    /\ refresh_card_presence(poll)
    /\ LET queue == IF RefreshFails(poll) THEN pending_interrupt_frames
                    ELSE Notified(current_card' # None)
       IN  \/ /\ queue = << >>
              /\ pending_interrupt_frames' = << >>
              /\ urb' = Urb("interrupt_in", << >>)
              /\ UNCHANGED told
           \/ /\ queue # << >>
              /\ pending_interrupt_frames' = Tail(queue)
              /\ urb' = Urb("interrupt_in", Head(queue))
              /\ told' = SaysPresent(Head(queue))
    /\ slot_present' = IF RefreshFails(poll) THEN slot_present
                       ELSE current_card' # None
    /\ UNCHANGED <<state, pending_in_frames, pending_out_buffer, next_frame_len,
                   bulk_abort, control_abort, draining>>

\* Faults: the control half never meets a bulk half; it is held for any slot.
NeverMatches(slot, seq) == FALSE
HoldsAnySlot(slot, seq) == <<slot, seq>>

\* CCID_ABORT: expect_abort.
MatchesBulkAbort(slot, seq) == slot = 0 /\ bulk_abort = seq
HeldControlAbort(slot, seq) == IF slot = 0 THEN <<slot, seq>> ELSE control_abort

control_abort_request(slot, seq) ==
    /\ ~draining
    /\ urb' = Urb("control", << >>)
    /\ \/ /\ MatchesBulkAbort(slot, seq)
          /\ BacklogRoom
          /\ finish_abort(slot, seq)
       \/ /\ ~MatchesBulkAbort(slot, seq)
          /\ control_abort' = HeldControlAbort(slot, seq)
          /\ BridgeIdle
          /\ UNCHANGED <<state, queueVars, pending_out_buffer, next_frame_len,
                         bulk_abort>>
    /\ UNCHANGED <<draining, told>>

\* The two queries, and a request that is not supported.
control_query ==
    /\ ~draining
    /\ urb' \in {Urb("control", CCID_CLOCK_FREQUENCY_KHZ),
                 Urb("control", CCID_DATA_RATE_BPS), FailedUrb("control")}
    /\ BridgeIdle
    /\ UNCHANGED <<state, queueVars, pending_out_buffer, next_frame_len,
                   bulk_abort, control_abort, draining, told>>

-----------------------------------------------------------------------------

TransportInit ==
    /\ BridgeInit
    /\ state = "Idle"
    /\ pending_in_frames = << >>
    /\ pending_interrupt_frames = << >>
    /\ pending_out_buffer = << >>
    /\ next_frame_len = None
    /\ slot_present = FALSE
    /\ bulk_abort = None
    /\ control_abort = None
    /\ draining = FALSE
    /\ urb = Urb("none", << >>)
    /\ told = FALSE

PollInterruptIn == \E poll \in PollResults(reader_name) : handle_interrupt_in(poll)

TransportNext ==
    \/ \E packet \in Packets : handle_bulk_out(packet)
    \/ DrainOutBuffer
    \/ \E max_len \in ReadSizes : handle_bulk_in(max_len)
    \/ PollInterruptIn
    \/ \E r \in AbortRequests : control_abort_request(r[1], r[2])
    \/ control_query

TransportSpec == TransportInit /\ [][TransportNext]_vars

(* The loop of handle_bulk_out runs to its end once entered.  URBs are      *)
(* served in the order they arrive and the host always has an interrupt IN  *)
(* URB submitted, so one is served again and again between bulk transfers.  *)
FairTransportSpec ==
    TransportSpec /\ WF_vars(DrainOutBuffer) /\ SF_vars(PollInterruptIn)

-----------------------------------------------------------------------------
(* Properties *)

TransportTypeOK ==
    /\ BridgeTypeOK
    /\ state \in {"Idle", "Receiving", "ReadyToSend"}
    /\ pending_in_frames \in Seq(Seq(Byte))
    /\ pending_interrupt_frames \in Seq(Notifications)
    /\ pending_out_buffer \in Seq(Byte)
    /\ next_frame_len \in Nat \cup {None}
    /\ slot_present \in BOOLEAN
    /\ bulk_abort \in Byte \cup {None}
    /\ control_abort \in ({0} \X Byte) \cup {None}
    /\ draining \in BOOLEAN
    /\ urb \in [ep : Endpoints, ok : BOOLEAN, data : Seq(Byte)]
    /\ told \in BOOLEAN

\* The frame length kept between two bulk OUT packets is the length of the
\* frame at the head of the buffer, however aborts, errors and other URBs fall
\* between the packets, and it never exceeds the configured maximum.
FrameLenIsCurrent ==
    next_frame_len # None =>
        /\ HasHeader
        /\ next_frame_len = HeaderLen + DeclaredLen(pending_out_buffer)
        /\ next_frame_len <= CCID_MAX_MESSAGE_LENGTH + HeaderLen

\* Every complete frame the loop takes decodes: the LengthMismatch error of
\* CcidCommand::decode never reaches the host through the transport.
CompleteFramesDecode == FrameComplete => Decodable(NextFrame)

\* Responses nobody reads never pile up beyond the limit, empty packets and the
\* unread part of a split response included.
InQueueBounded == Len(pending_in_frames) <= MAX_PENDING_IN_FRAMES

\* The presence bit slot changes are computed from is the bridge's: no command,
\* failed poll or abort lets the two drift apart.
PresenceInSync == slot_present <=> card_present

\* The notifications form one history: each says "changed" exactly when its
\* presence differs from the one sent before it, starting from what the host
\* was last told, and the newest says what the transport believes.
Before(queue, first, i) == IF i = 1 THEN first ELSE SaysPresent(queue[i - 1])

OneHistory(queue, first, last) ==
    /\ \A i \in 1..Len(queue) :
          SaysChanged(queue[i]) <=> (SaysPresent(queue[i]) # Before(queue, first, i))
    /\ last = Before(queue, first, Len(queue) + 1)

NotificationsConsistent == OneHistory(pending_interrupt_frames, told, slot_present)

\* The two halves of one abort are never both waiting: whichever comes second
\* completes it.
AbortHalvesMeet ==
    bulk_abort # None /\ control_abort # None => control_abort[2] # bulk_abort

\* matching_bulk_abort_completes_abort_sequence, the name of a test of
\* handle_bulk_out: once the bulk half of the expected abort has been received,
\* the abort completes.
ReceivedBulkHalf ==
    LET n == Len(pending_out_buffer)
        message == SubSeq(pending_out_buffer, n - HeaderLen + 1, n)
    IN  /\ draining /\ control_abort # None
        /\ HasHeader /\ Decodable(message) /\ IsControlAbort(decode(message))

MatchingBulkAbortCompletes == ReceivedBulkHalf ~> (control_abort = None)
=============================================================================
