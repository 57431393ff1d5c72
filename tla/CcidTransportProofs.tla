------------------------ MODULE CcidTransportProofs -------------------------
(***************************************************************************)
(* Proofs about the transport with the bridge below it, for any packets,   *)
(* in any order of URBs, and any queue limit.                              *)
(***************************************************************************)
EXTENDS CcidTransport, CcidBridgeProofs

-----------------------------------------------------------------------------
(* Framing *)

LEMMA ByteIsNat == \A b \in Byte : b \in Nat
BY DEF Byte

LEMMA FromLeBytesType ==
    ASSUME NEW a \in Nat, NEW b \in Nat, NEW c \in Nat, NEW d \in Nat
    PROVE  FromLeBytes(a, b, c, d) \in Nat
BY DEF FromLeBytes

LEMMA DeclaredLenType ==
    ASSUME NEW f \in Seq(Byte), Len(f) >= HeaderLen
    PROVE  DeclaredLen(f) \in Nat
<1>1. Len(f) \in Nat /\ Len(f) >= 10
  BY DEF HeaderLen
<1>2. f[2] \in Byte /\ f[3] \in Byte /\ f[4] \in Byte /\ f[5] \in Byte
  BY <1>1
<1>3. f[2] \in Nat /\ f[3] \in Nat /\ f[4] \in Nat /\ f[5] \in Nat
  BY <1>2, ByteIsNat
<1> QED BY <1>3, FromLeBytesType DEF DeclaredLen

LEMMA DeclaredLenOfConcat ==
    ASSUME NEW f \in Seq(Byte), NEW g \in Seq(Byte), Len(f) >= HeaderLen
    PROVE  DeclaredLen(f \o g) = DeclaredLen(f) /\ Len(f \o g) >= HeaderLen
<1>1. Len(f) \in Nat /\ Len(f) >= 10 /\ Len(g) \in Nat
  BY DEF HeaderLen
<1>2. \A i \in 2..5 : (f \o g)[i] = f[i]
  BY <1>1
<1>3. Len(f \o g) = Len(f) + Len(g)
  BY <1>1
<1> QED BY <1>1, <1>2, <1>3 DEF DeclaredLen, HeaderLen

LEMMA DeclaredLenOfPrefix ==
    ASSUME NEW f \in Seq(Byte), NEW n \in Nat, n >= HeaderLen, n <= Len(f)
    PROVE  /\ SubSeq(f, 1, n) \in Seq(Byte)
           /\ Len(SubSeq(f, 1, n)) = n
           /\ DeclaredLen(SubSeq(f, 1, n)) = DeclaredLen(f)
<1>1. Len(f) \in Nat /\ n >= 10
  BY DEF HeaderLen
<1>2. SubSeq(f, 1, n) \in Seq(Byte) /\ Len(SubSeq(f, 1, n)) = n
  BY <1>1
<1>3. \A i \in 2..5 : SubSeq(f, 1, n)[i] = f[i]
  BY <1>1
<1>4. /\ SubSeq(f, 1, n)[2] = f[2] /\ SubSeq(f, 1, n)[3] = f[3]
      /\ SubSeq(f, 1, n)[4] = f[4] /\ SubSeq(f, 1, n)[5] = f[5]
  <2>1. 2 \in 2..5 /\ 3 \in 2..5 /\ 4 \in 2..5 /\ 5 \in 2..5
    OBVIOUS
  <2> QED BY <1>3, <2>1, Zenon
<1>5. DeclaredLen(SubSeq(f, 1, n)) = DeclaredLen(f)
  BY <1>4, Zenon DEF DeclaredLen
<1> QED BY <1>2, <1>5

LEMMA SuffixType ==
    ASSUME NEW f \in Seq(Byte), NEW n \in Nat
    PROVE  SubSeq(f, n + 1, Len(f)) \in Seq(Byte)
<1>1. Len(f) \in Nat
  OBVIOUS
<1>2. \A i \in n + 1 .. Len(f) : f[i] \in Byte
  BY <1>1
<1> QED BY <1>1, <1>2, SubSeqProperties

-----------------------------------------------------------------------------
(* Responses on the wire *)

LEMMA LowByteType ==
    ASSUME NEW n \in Nat
    PROVE  LowByte(n) \in Byte
BY DEF Byte, LowByte

LEMMA ToLeBytesType ==
    ASSUME NEW n \in Nat
    PROVE  ToLeBytes(n) \in Seq(Byte)
<1>1. /\ n \div 256 \in Nat /\ n \div 65536 \in Nat
      /\ n \div 16777216 \in Nat
  OBVIOUS
<1>2. /\ LowByte(n) \in Byte /\ LowByte(n \div 256) \in Byte
      /\ LowByte(n \div 65536) \in Byte /\ LowByte(n \div 16777216) \in Byte
  BY <1>1, LowByteType
<1>3. ASSUME NEW a \in Byte, NEW b \in Byte, NEW c \in Byte, NEW d \in Byte
      PROVE  <<a, b, c, d>> \in Seq(Byte)
  OBVIOUS
<1> QED BY <1>2, <1>3 DEF ToLeBytes

LEMMA EncodeType ==
    ASSUME NEW r \in CcidResponse
    PROVE  encode(r) \in Seq(Byte)
<1>1. /\ r.kind \in DOMAIN RDR_TO_PC /\ r.icc \in DOMAIN IccStatus
      /\ r.status \in DOMAIN CommandStatus /\ r.payload \in Seq(Byte)
      /\ r.slot \in Byte /\ r.seq \in Byte /\ r.error \in Byte /\ r.extra \in Byte
  BY DEF CcidResponse
<1>2. RDR_TO_PC[r.kind] \in Byte
  <2>1. RDR_TO_PC[r.kind] \in 128..130
    BY <1>1 DEF RDR_TO_PC
  <2> QED BY <2>1 DEF Byte
<1>3. StatusByte(r.icc, r.status) \in Byte
  <2>1. IccStatus[r.icc] \in 0..2 /\ CommandStatus[r.status] \in 0..1
    BY <1>1 DEF IccStatus, CommandStatus
  <2> QED BY <2>1 DEF StatusByte, Byte
<1>4. ToLeBytes(Len(r.payload)) \in Seq(Byte)
  BY <1>1, ToLeBytesType
<1> QED BY <1>1, <1>2, <1>3, <1>4 DEF encode

-----------------------------------------------------------------------------
(* Queues *)

LEMMA PushType ==
    ASSUME NEW queue \in Seq(Seq(Byte)), NEW frame \in Seq(Byte)
    PROVE  /\ push_in_frame(queue, frame) \in Seq(Seq(Byte))
           /\ push_in_frame(queue, frame) # << >>
           /\ Len(queue) <= MAX_PENDING_IN_FRAMES
                => Len(push_in_frame(queue, frame)) <= MAX_PENDING_IN_FRAMES
<1>1. MAX_PENDING_IN_FRAMES \in Nat /\ MAX_PENDING_IN_FRAMES >= 1 /\ Len(queue) \in Nat
  BY TransportAssumption
<1>2. <<frame>> \in Seq(Seq(Byte)) /\ Len(<<frame>>) = 1 /\ <<frame>> # << >>
  OBVIOUS
<1>3. /\ Append(queue, frame) \in Seq(Seq(Byte)) /\ Append(queue, frame) # << >>
      /\ Len(Append(queue, frame)) = Len(queue) + 1
  BY AppendProperties
<1> QED BY <1>1, <1>2, <1>3 DEF push_in_frame

LEMMA NotifySays ==
    ASSUME NEW p \in BOOLEAN, NEW c \in BOOLEAN
    PROVE  /\ Notify(p, c) \in Notifications
           /\ SaysPresent(Notify(p, c)) = p
           /\ SaysChanged(Notify(p, c)) = c
<1>1. Notify(p, c) \in Notifications
  BY DEF Notifications
<1>2. Notify(p, c)[2] = (IF p THEN 1 ELSE 0) + (IF c THEN 2 ELSE 0)
  BY DEF Notify
<1>3. /\ 0 % 2 = 0 /\ 1 % 2 = 1 /\ 2 % 2 = 0 /\ 3 % 2 = 1
      /\ 0 \div 2 = 0 /\ 1 \div 2 = 0 /\ 2 \div 2 = 1 /\ 3 \div 2 = 1
  OBVIOUS
<1>4. CASE p = TRUE /\ c = TRUE
  <2>1. Notify(p, c)[2] = 3
    BY <1>2, <1>4
  <2> QED BY <1>1, <1>3, <1>4, <2>1 DEF SaysPresent, SaysChanged
<1>5. CASE p = TRUE /\ c = FALSE
  <2>1. Notify(p, c)[2] = 1
    BY <1>2, <1>5
  <2>2. SaysPresent(Notify(p, c)) /\ ~SaysChanged(Notify(p, c))
    BY <1>3, <2>1 DEF SaysPresent, SaysChanged
  <2>3. SaysChanged(Notify(p, c)) \in BOOLEAN /\ SaysPresent(Notify(p, c)) \in BOOLEAN
    BY DEF SaysPresent, SaysChanged
  <2> QED BY <1>1, <1>5, <2>2, <2>3
<1>6. CASE p = FALSE
  BY <1>1, <1>2, <1>3, <1>6 DEF SaysPresent, SaysChanged
<1> QED BY <1>4, <1>5, <1>6

LEMMA SaysPresentType ==
    ASSUME NEW n \in Notifications
    PROVE  SaysPresent(n) \in BOOLEAN /\ n \in Seq(Byte)
<1>1. SaysPresent(n) \in BOOLEAN
  BY DEF SaysPresent
<1>2. PICK p \in BOOLEAN, c \in BOOLEAN : n = Notify(p, c)
  BY DEF Notifications
<1>3. (IF p THEN 1 ELSE 0) + (IF c THEN 2 ELSE 0) \in Byte /\ 80 \in Byte
  BY DEF Byte
<1> QED BY <1>1, <1>2, <1>3 DEF Notify, CCID_NOTIFY_SLOT_CHANGE

\* Queueing a notification computed from the newest one extends the history.
LEMMA HistoryAppend ==
    ASSUME NEW q \in Seq(Notifications), NEW first \in BOOLEAN,
           NEW last \in BOOLEAN, NEW p \in BOOLEAN, OneHistory(q, first, last)
    PROVE  OneHistory(Append(q, Notify(p, p # last)), first, p)
<1> DEFINE n == Notify(p, p # last)
           r == Append(q, n)
<1>1. n \in Notifications /\ SaysPresent(n) = p /\ SaysChanged(n) = (p # last)
  BY NotifySays
<1> HIDE DEF n
<1>2. /\ Len(q) \in Nat /\ Len(r) = Len(q) + 1
      /\ \A i \in 1..Len(q) : r[i] = q[i]
      /\ r[Len(q) + 1] = n
  BY <1>1, AppendProperties
<1> HIDE DEF r
<1>3. \A i \in 1..Len(q) + 1 : Before(r, first, i) = Before(q, first, i)
  BY <1>2 DEF Before
<1>4. Before(r, first, Len(r) + 1) = p
  BY <1>1, <1>2 DEF Before
<1>5. ASSUME NEW i \in 1..Len(r)
      PROVE  SaysChanged(r[i]) <=> (SaysPresent(r[i]) # Before(r, first, i))
  <2>1. CASE i \in 1..Len(q)
    BY <1>2, <1>3, <2>1 DEF OneHistory
  <2>2. CASE i = Len(q) + 1
    BY <1>1, <1>2, <1>3, <2>2 DEF OneHistory
  <2> QED BY <1>2, <2>1, <2>2
<1>6. OneHistory(r, first, p)
  BY <1>4, <1>5 DEF OneHistory
<1> QED BY <1>6 DEF r, n

\* Sending the oldest notification leaves a history that starts from it.
LEMMA HistoryTail ==
    ASSUME NEW q \in Seq(Notifications), q # << >>, NEW first \in BOOLEAN,
           NEW last \in BOOLEAN, OneHistory(q, first, last)
    PROVE  OneHistory(Tail(q), SaysPresent(Head(q)), last)
<1> DEFINE t == Tail(q)
<1>1. /\ Len(q) \in Nat /\ Len(q) >= 1 /\ Len(t) = Len(q) - 1
      /\ \A i \in 1..Len(t) : t[i] = q[i + 1]
      /\ Head(q) = q[1]
  BY HeadTailProperties
<1> HIDE DEF t
<1>2. \A i \in 1..Len(t) + 1 :
         Before(t, SaysPresent(Head(q)), i) = Before(q, first, i + 1)
  BY <1>1 DEF Before
<1>3. OneHistory(t, SaysPresent(Head(q)), last)
  BY <1>1, <1>2 DEF OneHistory
<1> QED BY <1>3 DEF t

-----------------------------------------------------------------------------
(* The inductive invariant.  The frame length kept between packets is only   *)
(* right together with the type of the buffer; presence and notifications    *)
(* need each other because the change bit is computed from slot_present.     *)

TransportInv ==
    /\ TransportTypeOK
    /\ PoweredImpliesCard
    /\ PoweredCardIsAtrCard
    /\ FrameLenIsCurrent
    /\ InQueueBounded
    /\ PresenceInSync
    /\ NotificationsConsistent
    /\ AbortHalvesMeet

LEMMA TransportInvBridge == TransportInv => BridgeInv
BY DEF TransportInv, TransportTypeOK, BridgeInv

LEMMA BridgeIdleSafe ==
    ASSUME BridgeInv, BridgeIdle
    PROVE  BridgeInv' /\ SlotStep /\ current_card' = current_card
<1>1. << >> \in Seq(ReaderCall)
  OBVIOUS
<1> QED BY <1>1 DEF BridgeInv, BridgeTypeOK, PoweredImpliesCard,
                    PoweredCardIsAtrCard, BridgeIdle, SlotStep, Slot!slotVars

LEMMA HandleCommandKeepsBridge ==
    ASSUME BridgeInv, NEW c \in CcidCommand, handle_command(c)
    PROVE  BridgeInv' /\ SlotStep /\ reply' \in CcidResponse
<1>1. BridgeTypeOK' /\ reply' # None
  BY HandleCommandType DEF BridgeInv
<1>2. reply' \in CcidResponse
  BY <1>1 DEF BridgeTypeOK
<1> QED BY <1>1, <1>2, HandleCommandSafe DEF BridgeInv

\* A complete frame has the length its header declares, so it decodes.
LEMMA FrameFacts ==
    ASSUME TransportTypeOK, FrameLenIsCurrent, FrameComplete
    PROVE  /\ FrameLen \in Nat
           /\ Decodable(NextFrame)
           /\ decode(NextFrame) \in CcidCommand
           /\ AfterFrame \in Seq(Byte)
<1> DEFINE buf == pending_out_buffer
<1>1. buf \in Seq(Byte) /\ Len(buf) \in Nat /\ Len(buf) >= HeaderLen
  BY DEF TransportTypeOK, FrameComplete, HasHeader
<1>2. DeclaredLen(buf) \in Nat
  BY <1>1, DeclaredLenType
<1>3. FrameLen = HeaderLen + DeclaredLen(buf)
  BY DEF FrameLen, FrameLenIsCurrent
<1>4. FrameLen \in Nat /\ FrameLen >= HeaderLen /\ FrameLen <= Len(buf)
  BY <1>1, <1>2, <1>3 DEF HeaderLen, FrameComplete
<1>5. /\ NextFrame \in Seq(Byte) /\ Len(NextFrame) = FrameLen
      /\ DeclaredLen(NextFrame) = DeclaredLen(buf)
  BY <1>1, <1>4, DeclaredLenOfPrefix DEF NextFrame
<1>6. Decodable(NextFrame)
  BY <1>2, <1>3, <1>4, <1>5 DEF Decodable, HeaderLen
<1>7. AfterFrame \in Seq(Byte)
  BY <1>1, <1>4, SuffixType DEF AfterFrame
<1> QED BY <1>4, <1>5, <1>6, <1>7, DecodeType

LEMMA EnqueueSafe ==
    ASSUME TransportInv, NEW queue \in Seq(Seq(Byte)),
           Len(queue) <= MAX_PENDING_IN_FRAMES, NEW response \in CcidResponse,
           enqueue_response(queue, response), told' = told
    PROVE  /\ pending_in_frames' \in Seq(Seq(Byte))
           /\ InQueueBounded'
           /\ pending_interrupt_frames' \in Seq(Notifications)
           /\ slot_present' \in BOOLEAN
           /\ PresenceInSync'
           /\ NotificationsConsistent'
<1>1. encode(response) \in Seq(Byte)
  BY EncodeType
<1>2. pending_in_frames' \in Seq(Seq(Byte)) /\ InQueueBounded'
  BY <1>1, PushType DEF enqueue_response, InQueueBounded
<1> DEFINE p == (current_card' # None)
<1>3. /\ pending_interrupt_frames' =
            Append(pending_interrupt_frames, Notify(p, p # slot_present))
      /\ slot_present' = p
  BY DEF enqueue_response, update_slot_presence, Notified
<1>4. p \in BOOLEAN /\ (p # slot_present) \in BOOLEAN
  OBVIOUS
<1>5. PresenceInSync'
  BY <1>3 DEF PresenceInSync, card_present
<1> HIDE DEF p
<1>6. /\ pending_interrupt_frames \in Seq(Notifications) /\ told \in BOOLEAN
      /\ slot_present \in BOOLEAN
      /\ OneHistory(pending_interrupt_frames, told, slot_present)
  BY DEF TransportInv, TransportTypeOK, NotificationsConsistent
<1>7. pending_interrupt_frames' \in Seq(Notifications)
  BY <1>3, <1>4, <1>6, NotifySays, AppendProperties
<1>8. NotificationsConsistent'
  BY <1>3, <1>4, <1>6, HistoryAppend DEF NotificationsConsistent
<1> QED BY <1>2, <1>3, <1>4, <1>5, <1>7, <1>8

LEMMA UpdateStateFacts ==
    ASSUME NEW len, update_state(len)
    PROVE  /\ state' \in {"Idle", "Receiving", "ReadyToSend"}
           /\ next_frame_len' = None \/ next_frame_len' = len
BY DEF update_state, StateOf

\* The frame length survives a step that keeps or extends the buffer.
LEMMA FrameLenKept ==
    ASSUME TransportTypeOK, FrameLenIsCurrent, NEW packet \in Seq(Byte),
           pending_out_buffer' = pending_out_buffer
             \/ pending_out_buffer' = pending_out_buffer \o packet,
           next_frame_len' = None \/ next_frame_len' = next_frame_len
    PROVE  /\ pending_out_buffer' \in Seq(Byte)
           /\ next_frame_len' \in Nat \cup {None}
           /\ FrameLenIsCurrent'
<1>1. pending_out_buffer \in Seq(Byte) /\ next_frame_len \in Nat \cup {None}
  BY DEF TransportTypeOK
<1>2. pending_out_buffer' \in Seq(Byte)
  BY <1>1, ConcatProperties
<1>3. ASSUME next_frame_len # None
      PROVE  /\ Len(pending_out_buffer') >= HeaderLen
             /\ DeclaredLen(pending_out_buffer') = DeclaredLen(pending_out_buffer)
  BY <1>1, <1>3, DeclaredLenOfConcat DEF FrameLenIsCurrent, HasHeader
<1> QED BY <1>1, <1>2, <1>3 DEF FrameLenIsCurrent, HasHeader

LEMMA NoFrameLen ==
    ASSUME next_frame_len' = None
    PROVE  next_frame_len' \in Nat \cup {None} /\ FrameLenIsCurrent'
BY DEF FrameLenIsCurrent

\* A step that leaves the notifications, told and the bridge's card alone.
LEMMA PresenceKept ==
    ASSUME TransportInv, current_card' = current_card,
           UNCHANGED <<pending_interrupt_frames, slot_present, told>>
    PROVE  PresenceInSync' /\ NotificationsConsistent'
BY DEF TransportInv, PresenceInSync, card_present, NotificationsConsistent

LEMMA EmptyBytes == << >> \in Seq(Byte)
OBVIOUS

LEMMA UrbType ==
    ASSUME NEW ep \in Endpoints, NEW data \in Seq(Byte)
    PROVE  /\ Urb(ep, data) \in [ep : Endpoints, ok : BOOLEAN, data : Seq(Byte)]
           /\ FailedUrb(ep) \in [ep : Endpoints, ok : BOOLEAN, data : Seq(Byte)]
BY EmptyBytes DEF Urb, FailedUrb

LEMMA BulkOutSafe ==
    ASSUME TransportInv, NEW packet \in Seq(Byte), handle_bulk_out(packet)
    PROVE  TransportInv' /\ SlotStep
<1>1. BridgeInv' /\ SlotStep /\ current_card' = current_card
  BY TransportInvBridge, BridgeIdleSafe DEF handle_bulk_out
<1>2. /\ pending_out_buffer' \in Seq(Byte) /\ next_frame_len' \in Nat \cup {None}
      /\ FrameLenIsCurrent' /\ state' \in {"Idle", "Receiving", "ReadyToSend"}
  BY UpdateStateFacts, FrameLenKept DEF TransportInv, handle_bulk_out
<1>3. PresenceInSync' /\ NotificationsConsistent'
  BY <1>1, PresenceKept DEF handle_bulk_out, queueVars
<1>4. urb' \in [ep : Endpoints, ok : BOOLEAN, data : Seq(Byte)]
  BY UrbType, EmptyBytes DEF handle_bulk_out, Endpoints
<1> QED BY <1>1, <1>2, <1>3, <1>4
        DEF TransportInv, TransportTypeOK, BridgeInv, InQueueBounded,
            AbortHalvesMeet, handle_bulk_out, queueVars

LEMMA WaitForMoreSafe ==
    ASSUME TransportInv, WaitForMore
    PROVE  TransportInv' /\ SlotStep
<1>1. BridgeInv' /\ SlotStep /\ current_card' = current_card
  BY TransportInvBridge, BridgeIdleSafe DEF WaitForMore
<1>2. /\ next_frame_len' \in Nat \cup {None}
      /\ FrameLenIsCurrent' /\ state' \in {"Idle", "Receiving", "ReadyToSend"}
  <2>1. /\ state' \in {"Idle", "Receiving", "ReadyToSend"}
        /\ next_frame_len' = None
             \/ next_frame_len' = (IF HasHeader THEN FrameLen ELSE None)
        /\ pending_out_buffer' = pending_out_buffer
    BY UpdateStateFacts DEF WaitForMore
  <2>2. CASE next_frame_len' = None
    BY <2>1, <2>2, NoFrameLen
  <2>3. CASE HasHeader /\ next_frame_len' = FrameLen
    <3>1. DeclaredLen(pending_out_buffer) \in Nat
      BY <2>3, DeclaredLenType DEF TransportInv, TransportTypeOK, HasHeader
    <3>2. FrameLen = HeaderLen + DeclaredLen(pending_out_buffer)
      BY DEF FrameLen, FrameLenIsCurrent, TransportInv
    <3>3. FrameLen \in Nat /\ FrameLen <= CCID_MAX_MESSAGE_LENGTH + HeaderLen
      BY <2>3, <3>1, <3>2
         DEF WaitForMore, Oversized, FrameLen, FrameLenIsCurrent, TransportInv,
             HeaderLen, CCID_MAX_MESSAGE_LENGTH
    <3> QED BY <2>1, <2>3, <3>2, <3>3 DEF FrameLenIsCurrent, HasHeader
  <2> QED BY <2>1, <2>2, <2>3
<1>3. PresenceInSync' /\ NotificationsConsistent'
  BY <1>1, PresenceKept DEF WaitForMore, queueVars
<1>4. urb' \in [ep : Endpoints, ok : BOOLEAN, data : Seq(Byte)]
  BY UrbType, EmptyBytes DEF WaitForMore, Endpoints
<1> QED BY <1>1, <1>2, <1>3, <1>4
        DEF TransportInv, TransportTypeOK, BridgeInv, InQueueBounded,
            AbortHalvesMeet, WaitForMore, queueVars

LEMMA RejectFrameSafe ==
    ASSUME TransportInv, RejectFrame
    PROVE  TransportInv' /\ SlotStep
<1>1. BridgeInv' /\ SlotStep /\ current_card' = current_card
  BY TransportInvBridge, BridgeIdleSafe DEF RejectFrame
<1>2. /\ next_frame_len' \in Nat \cup {None}
      /\ FrameLenIsCurrent' /\ state' \in {"Idle", "Receiving", "ReadyToSend"}
  BY UpdateStateFacts, NoFrameLen DEF RejectFrame
<1>3. pending_out_buffer' \in Seq(Byte)
  BY FrameFacts, EmptyBytes DEF RejectFrame, TransportInv
<1>4. PresenceInSync' /\ NotificationsConsistent'
  BY <1>1, PresenceKept DEF RejectFrame, queueVars
<1>5. urb' \in [ep : Endpoints, ok : BOOLEAN, data : Seq(Byte)]
  BY UrbType, EmptyBytes DEF RejectFrame, Endpoints
<1> QED BY <1>1, <1>2, <1>3, <1>4, <1>5
        DEF TransportInv, TransportTypeOK, BridgeInv, InQueueBounded,
            AbortHalvesMeet, RejectFrame, queueVars

LEMMA FinishAbortSafe ==
    ASSUME TransportInv, NEW slot \in Byte, NEW seq \in Byte,
           finish_abort(slot, seq), UNCHANGED <<draining, told>>,
           urb' \in [ep : Endpoints, ok : BOOLEAN, data : Seq(Byte)]
    PROVE  TransportInv' /\ SlotStep
<1>1. AbortCommand(slot, seq) \in CcidCommand
  <2>1. 0 \in Byte /\ "Abort" \in Ops
    BY DEF Byte, Ops, PC_TO_RDR
  <2> QED BY <2>1, EmptyBytes DEF AbortCommand, CcidCommand
<1>2. BridgeInv' /\ SlotStep /\ reply' \in CcidResponse
  BY <1>1, TransportInvBridge, HandleCommandKeepsBridge DEF finish_abort
<1>3. << >> \in Seq(Seq(Byte)) /\ Len(<< >>) <= MAX_PENDING_IN_FRAMES
  BY TransportAssumption
<1>4. /\ pending_in_frames' \in Seq(Seq(Byte)) /\ InQueueBounded'
      /\ pending_interrupt_frames' \in Seq(Notifications)
      /\ slot_present' \in BOOLEAN /\ PresenceInSync' /\ NotificationsConsistent'
  BY <1>2, <1>3, EnqueueSafe DEF finish_abort
<1>5. /\ next_frame_len' \in Nat \cup {None}
      /\ FrameLenIsCurrent' /\ state' \in {"Idle", "Receiving", "ReadyToSend"}
  BY UpdateStateFacts, NoFrameLen DEF finish_abort
<1> QED BY <1>2, <1>4, <1>5, EmptyBytes
        DEF TransportInv, TransportTypeOK, BridgeInv, AbortHalvesMeet, finish_abort

\* What the steps that take a frame share.
LEMMA TakeFrameFacts ==
    ASSUME TransportInv, TakeFrame
    PROVE  /\ decode(NextFrame) \in CcidCommand
           /\ decode(NextFrame).slot \in Byte /\ decode(NextFrame).seq \in Byte
           /\ AfterFrame \in Seq(Byte)
           /\ draining' \in BOOLEAN /\ told' = told
           /\ urb' \in [ep : Endpoints, ok : BOOLEAN, data : Seq(Byte)]
<1>1. decode(NextFrame) \in CcidCommand /\ AfterFrame \in Seq(Byte)
  BY FrameFacts DEF TransportInv, TakeFrame
<1> QED BY <1>1 DEF TransportInv, TransportTypeOK, TakeFrame, CcidCommand

LEMMA MatchControlAbortSafe ==
    ASSUME TransportInv, MatchControlAbort(decode(NextFrame))
    PROVE  TransportInv' /\ SlotStep
BY TakeFrameFacts, FinishAbortSafe DEF MatchControlAbort, TakeFrame

LEMMA AnswerAbortedSafe ==
    ASSUME TransportInv, AnswerAborted(decode(NextFrame))
    PROVE  TransportInv' /\ SlotStep
<1> DEFINE c == decode(NextFrame)
           response == [SlotStatusFailed(c, CurrentIccStatus)
                          EXCEPT !.error = CMD_ABORTED_ERROR]
<1>1. TakeFrame
  BY DEF AnswerAborted
<1>2. c \in CcidCommand /\ AfterFrame \in Seq(Byte)
  BY <1>1, TakeFrameFacts
<1>3. BridgeInv' /\ SlotStep
  BY TransportInvBridge, BridgeIdleSafe DEF AnswerAborted, queue_aborted_response
<1>4. response \in CcidResponse
  <2>1. SlotStatusFailed(c, CurrentIccStatus) \in CcidResponse
    BY <1>2, SlotStatusType, IccStatusOfType DEF CurrentIccStatus
  <2>2. CMD_ABORTED_ERROR \in Byte
    BY DEF CMD_ABORTED_ERROR, Byte
  <2> QED BY <2>1, <2>2 DEF CcidResponse
<1>5. enqueue_response(pending_in_frames, response)
  BY DEF AnswerAborted, queue_aborted_response
<1> HIDE DEF response
<1>6. /\ pending_in_frames' \in Seq(Seq(Byte)) /\ InQueueBounded'
      /\ pending_interrupt_frames' \in Seq(Notifications)
      /\ slot_present' \in BOOLEAN /\ PresenceInSync' /\ NotificationsConsistent'
  BY <1>1, <1>4, <1>5, EnqueueSafe, TakeFrameFacts
     DEF TransportInv, TransportTypeOK, InQueueBounded
<1>7. /\ next_frame_len' \in Nat \cup {None}
      /\ FrameLenIsCurrent' /\ state' \in {"Idle", "Receiving", "ReadyToSend"}
  BY UpdateStateFacts, NoFrameLen DEF AnswerAborted
<1> QED BY <1>1, <1>2, <1>3, <1>6, <1>7, TakeFrameFacts
        DEF TransportInv, TransportTypeOK, BridgeInv, AbortHalvesMeet, AnswerAborted

LEMMA HoldBulkAbortSafe ==
    ASSUME TransportInv, HoldBulkAbort(decode(NextFrame))
    PROVE  TransportInv' /\ SlotStep
<1>1. TakeFrame
  BY DEF HoldBulkAbort
<1>2. BridgeInv' /\ SlotStep /\ current_card' = current_card
  BY TransportInvBridge, BridgeIdleSafe DEF HoldBulkAbort
<1>3. /\ next_frame_len' \in Nat \cup {None}
      /\ FrameLenIsCurrent' /\ state' \in {"Idle", "Receiving", "ReadyToSend"}
  BY UpdateStateFacts, NoFrameLen DEF HoldBulkAbort
<1>4. PresenceInSync' /\ NotificationsConsistent'
  BY <1>1, <1>2, PresenceKept, TakeFrameFacts DEF HoldBulkAbort, queueVars
<1> QED BY <1>1, <1>2, <1>3, <1>4, TakeFrameFacts
        DEF TransportInv, TransportTypeOK, BridgeInv, InQueueBounded,
            AbortHalvesMeet, HoldBulkAbort, queueVars

LEMMA RunCommandSafe ==
    ASSUME TransportInv, RunCommand(decode(NextFrame))
    PROVE  TransportInv' /\ SlotStep
<1>1. TakeFrame
  BY DEF RunCommand
<1>2. BridgeInv' /\ SlotStep /\ reply' \in CcidResponse
  BY <1>1, TakeFrameFacts, TransportInvBridge, HandleCommandKeepsBridge DEF RunCommand
<1>3. /\ pending_in_frames' \in Seq(Seq(Byte)) /\ InQueueBounded'
      /\ pending_interrupt_frames' \in Seq(Notifications)
      /\ slot_present' \in BOOLEAN /\ PresenceInSync' /\ NotificationsConsistent'
  BY <1>1, <1>2, EnqueueSafe, TakeFrameFacts
     DEF TransportInv, TransportTypeOK, InQueueBounded, RunCommand
<1>4. /\ next_frame_len' \in Nat \cup {None}
      /\ FrameLenIsCurrent' /\ state' \in {"Idle", "Receiving", "ReadyToSend"}
  BY UpdateStateFacts, NoFrameLen DEF RunCommand
<1> QED BY <1>1, <1>2, <1>3, <1>4, TakeFrameFacts
        DEF TransportInv, TransportTypeOK, BridgeInv, AbortHalvesMeet, RunCommand

\* Splitting the first frame or following it by an empty packet keeps the queue
\* a queue of byte strings, and never makes it longer.
LEMMA BulkInQueue ==
    ASSUME NEW max_len \in Nat, pending_in_frames \in Seq(Seq(Byte)),
           pending_in_frames # << >>
    PROVE  /\ BulkInPacket(max_len) \in Seq(Byte)
           /\ BulkInRest(max_len) \o Tail(pending_in_frames) \in Seq(Seq(Byte))
           /\ Len(BulkInRest(max_len) \o Tail(pending_in_frames))
                <= Len(pending_in_frames)
<1> DEFINE frame == Head(pending_in_frames)
<1>1. /\ frame \in Seq(Byte) /\ Tail(pending_in_frames) \in Seq(Seq(Byte))
      /\ Len(Tail(pending_in_frames)) = Len(pending_in_frames) - 1
      /\ Len(pending_in_frames) \in Nat
  BY HeadTailProperties
<1>2. SubSeq(frame, max_len + 1, Len(frame)) \in Seq(Byte)
  BY <1>1, SuffixType
<1>3. BulkInPacket(max_len) \in Seq(Byte)
  <2>1. Len(frame) \in Nat
    BY <1>1
  <2>2. CASE Len(frame) <= max_len
    BY <1>1, <2>2 DEF BulkInPacket
  <2>3. CASE ~(Len(frame) <= max_len)
    <3>1. \A i \in 1..max_len : frame[i] \in Byte
      BY <1>1, <2>1, <2>3
    <3>2. SubSeq(frame, 1, max_len) \in Seq(Byte)
      BY <3>1, SubSeqProperties
    <3> QED BY <2>3, <3>2 DEF BulkInPacket
  <2> QED BY <2>2, <2>3
<1>4. BulkInRest(max_len) \in Seq(Seq(Byte)) /\ Len(BulkInRest(max_len)) <= 1
  <2>1. ASSUME NEW f \in Seq(Byte)
        PROVE  <<f>> \in Seq(Seq(Byte)) /\ Len(<<f>>) <= 1
    OBVIOUS
  <2>2. << >> \in Seq(Seq(Byte)) /\ Len(<< >>) <= 1
    OBVIOUS
  <2>3. \/ BulkInRest(max_len) = <<SubSeq(frame, max_len + 1, Len(frame))>>
        \/ BulkInRest(max_len) = << << >> >>
        \/ BulkInRest(max_len) = << >>
    BY DEF BulkInRest
  <2> QED BY <1>2, <2>1, <2>2, <2>3, EmptyBytes
<1> QED BY <1>1, <1>3, <1>4, ConcatProperties

LEMMA BulkInSafe ==
    ASSUME TransportInv, NEW max_len \in Nat, handle_bulk_in(max_len)
    PROVE  TransportInv' /\ SlotStep
<1>1. BridgeInv' /\ SlotStep /\ current_card' = current_card
  BY TransportInvBridge, BridgeIdleSafe DEF handle_bulk_in
<1>2. /\ pending_out_buffer' \in Seq(Byte) /\ next_frame_len' \in Nat \cup {None}
      /\ FrameLenIsCurrent' /\ state' \in {"Idle", "Receiving", "ReadyToSend"}
  BY UpdateStateFacts, FrameLenKept, EmptyBytes DEF TransportInv, handle_bulk_in
<1>3. PresenceInSync' /\ NotificationsConsistent'
  BY <1>1, PresenceKept DEF handle_bulk_in
<1>4. /\ pending_in_frames' \in Seq(Seq(Byte)) /\ InQueueBounded'
      /\ urb' \in [ep : Endpoints, ok : BOOLEAN, data : Seq(Byte)]
  <2>1. "bulk_in" \in Endpoints
    BY DEF Endpoints
  <2>2. CASE pending_in_frames = << >>
    BY <2>1, <2>2, UrbType, EmptyBytes, ZenonT(60)
       DEF handle_bulk_in, TransportInv, TransportTypeOK, InQueueBounded
  <2>3. CASE pending_in_frames # << >>
    <3>1. /\ pending_in_frames \in Seq(Seq(Byte))
          /\ Len(pending_in_frames) \in Nat
          /\ Len(pending_in_frames) <= MAX_PENDING_IN_FRAMES
      BY DEF TransportInv, TransportTypeOK, InQueueBounded
    <3>2. /\ BulkInPacket(max_len) \in Seq(Byte)
          /\ pending_in_frames' \in Seq(Seq(Byte))
          /\ Len(pending_in_frames') <= Len(pending_in_frames)
      BY <2>3, <3>1, BulkInQueue DEF handle_bulk_in
    <3>3. urb' = Urb("bulk_in", BulkInPacket(max_len))
      BY <2>3 DEF handle_bulk_in
    <3>4. Len(pending_in_frames') \in Nat
      BY <3>2
    <3>5. InQueueBounded'
      BY <3>1, <3>2, <3>4, TransportAssumption DEF InQueueBounded
    <3> QED BY <2>1, <3>2, <3>3, <3>5, UrbType
  <2> QED BY <2>2, <2>3
<1> QED BY <1>1, <1>2, <1>3, <1>4
        DEF TransportInv, TransportTypeOK, BridgeInv, AbortHalvesMeet, handle_bulk_in

LEMMA InterruptInSafe ==
    ASSUME TransportInv, NEW poll \in PollResults(reader_name),
           handle_interrupt_in(poll)
    PROVE  TransportInv' /\ SlotStep
<1> DEFINE p == (current_card' # None)
           queue == IF RefreshFails(poll) THEN pending_interrupt_frames ELSE Notified(p)
<1>1. BridgeInv' /\ SlotStep
  BY TransportInvBridge, RefreshType, RefreshSafe DEF BridgeInv, handle_interrupt_in
<1>2. /\ pending_interrupt_frames \in Seq(Notifications) /\ told \in BOOLEAN
      /\ slot_present \in BOOLEAN
      /\ OneHistory(pending_interrupt_frames, told, slot_present)
  BY DEF TransportInv, TransportTypeOK, NotificationsConsistent
<1>3. slot_present' \in BOOLEAN /\ PresenceInSync'
  <2>1. CASE RefreshFails(poll)
    <3>1. current_card' = current_card
      BY <2>1 DEF handle_interrupt_in, refresh_card_presence, RefreshedCard,
                  RefreshFails
    <3> QED BY <1>2, <2>1, <3>1
            DEF handle_interrupt_in, PresenceInSync, card_present, TransportInv
  <2>2. CASE ~RefreshFails(poll)
    BY <2>2 DEF handle_interrupt_in, PresenceInSync, card_present
  <2> QED BY <2>1, <2>2
<1>4. queue \in Seq(Notifications) /\ OneHistory(queue, told, slot_present')
  <2>1. CASE RefreshFails(poll)
    BY <1>2, <2>1 DEF handle_interrupt_in
  <2>2. CASE ~RefreshFails(poll)
    <3>1. queue = Append(pending_interrupt_frames, Notify(p, p # slot_present))
          /\ slot_present' = p
      BY <2>2 DEF Notified, handle_interrupt_in
    <3>2. p \in BOOLEAN /\ (p # slot_present) \in BOOLEAN
      OBVIOUS
    <3> HIDE DEF p, queue
    <3> QED BY <1>2, <3>1, <3>2, NotifySays, AppendProperties, HistoryAppend, ZenonT(60)
  <2> QED BY <2>1, <2>2
<1>5. \/ /\ queue = << >> /\ pending_interrupt_frames' = << >>
         /\ urb' = Urb("interrupt_in", << >>) /\ told' = told
      \/ /\ queue # << >> /\ pending_interrupt_frames' = Tail(queue)
         /\ urb' = Urb("interrupt_in", Head(queue))
         /\ told' = SaysPresent(Head(queue))
  BY DEF handle_interrupt_in
<1> HIDE DEF queue, p
<1>6. "interrupt_in" \in Endpoints
  BY DEF Endpoints
<1>7. /\ pending_interrupt_frames' \in Seq(Notifications) /\ told' \in BOOLEAN
      /\ urb' \in [ep : Endpoints, ok : BOOLEAN, data : Seq(Byte)]
      /\ NotificationsConsistent'
  <2>1. CASE queue = << >>
    BY <1>2, <1>4, <1>5, <1>6, <2>1, UrbType, EmptyBytes DEF NotificationsConsistent
  <2>2. CASE queue # << >>
    <3>1. Head(queue) \in Notifications /\ Tail(queue) \in Seq(Notifications)
      BY <1>4, <2>2, HeadTailProperties
    <3>2. SaysPresent(Head(queue)) \in BOOLEAN /\ Head(queue) \in Seq(Byte)
      BY <3>1, SaysPresentType
    <3>3. OneHistory(Tail(queue), SaysPresent(Head(queue)), slot_present')
      BY <1>2, <1>3, <1>4, <2>2, HistoryTail
    <3> QED BY <1>5, <1>6, <2>2, <3>1, <3>2, <3>3, UrbType DEF NotificationsConsistent
  <2> QED BY <2>1, <2>2
<1>8. FrameLenIsCurrent'
  BY DEF TransportInv, FrameLenIsCurrent, HasHeader, handle_interrupt_in
<1> QED BY <1>1, <1>3, <1>7, <1>8
        DEF TransportInv, TransportTypeOK, BridgeInv, InQueueBounded,
            AbortHalvesMeet, handle_interrupt_in

LEMMA ControlAbortRequestSafe ==
    ASSUME TransportInv, NEW slot \in Byte, NEW seq \in Byte,
           control_abort_request(slot, seq)
    PROVE  TransportInv' /\ SlotStep
<1>1. urb' \in [ep : Endpoints, ok : BOOLEAN, data : Seq(Byte)]
  BY UrbType, EmptyBytes DEF control_abort_request, Endpoints
<1>2. CASE slot = 0 /\ bulk_abort = seq /\ finish_abort(slot, seq)
  BY <1>1, <1>2, FinishAbortSafe DEF control_abort_request
<1>3. CASE ~(slot = 0 /\ bulk_abort = seq /\ finish_abort(slot, seq))
  <2>1. /\ ~(slot = 0 /\ bulk_abort = seq)
        /\ control_abort' = IF slot = 0 THEN <<slot, seq>> ELSE control_abort
        /\ BridgeIdle
        /\ UNCHANGED <<state, queueVars, pending_out_buffer, next_frame_len,
                       bulk_abort, draining, told>>
    BY <1>3 DEF control_abort_request, MatchesBulkAbort, HeldControlAbort
  <2>2. BridgeInv' /\ SlotStep /\ current_card' = current_card
    BY <2>1, TransportInvBridge, BridgeIdleSafe
  <2>3. PresenceInSync' /\ NotificationsConsistent'
    BY <2>1, <2>2, PresenceKept DEF queueVars
  <2>4. FrameLenIsCurrent'
    BY <2>1 DEF TransportInv, FrameLenIsCurrent, HasHeader
  <2>5. control_abort' \in ({0} \X Byte) \cup {None} /\ AbortHalvesMeet'
    BY <2>1 DEF TransportInv, TransportTypeOK, AbortHalvesMeet
  <2> QED BY <1>1, <2>1, <2>2, <2>3, <2>4, <2>5
          DEF TransportInv, TransportTypeOK, BridgeInv, InQueueBounded, queueVars
<1> QED BY <1>2, <1>3

LEMMA ControlQuerySafe ==
    ASSUME TransportInv, control_query
    PROVE  TransportInv' /\ SlotStep
<1>1. urb' \in [ep : Endpoints, ok : BOOLEAN, data : Seq(Byte)]
  <2>1. /\ "control" \in Endpoints
        /\ CCID_CLOCK_FREQUENCY_KHZ \in Seq(Byte) /\ CCID_DATA_RATE_BPS \in Seq(Byte)
    BY DEF Endpoints, CCID_CLOCK_FREQUENCY_KHZ, CCID_DATA_RATE_BPS, Byte
  <2> QED BY <2>1, UrbType, SMTT(60) DEF control_query
<1>2. BridgeInv' /\ SlotStep /\ current_card' = current_card
  BY TransportInvBridge, BridgeIdleSafe DEF control_query
<1>3. PresenceInSync' /\ NotificationsConsistent'
  BY <1>2, PresenceKept DEF control_query, queueVars
<1>4. FrameLenIsCurrent'
  BY DEF TransportInv, FrameLenIsCurrent, HasHeader, control_query
<1> QED BY <1>1, <1>2, <1>3, <1>4
        DEF TransportInv, TransportTypeOK, BridgeInv, InQueueBounded,
            AbortHalvesMeet, control_query, queueVars

LEMMA TransportInitSafe == TransportInit => TransportInv
<1> SUFFICES ASSUME TransportInit PROVE TransportInv
  OBVIOUS
<1>1. BridgeInv
  BY BridgeInitSafe DEF TransportInit
<1>2. urb \in [ep : Endpoints, ok : BOOLEAN, data : Seq(Byte)]
  BY UrbType, EmptyBytes DEF TransportInit, Endpoints
<1>3. << >> \in Seq(Seq(Byte)) /\ << >> \in Seq(Notifications) /\ Len(<< >>) = 0
  OBVIOUS
<1>4. NotificationsConsistent
  <2>1. 1..Len(<< >>) = {} /\ Len(<< >>) + 1 = 1
    BY <1>3
  <2>2. OneHistory(<< >>, FALSE, FALSE)
    BY <2>1 DEF OneHistory, Before
  <2> QED BY <2>2 DEF TransportInit, NotificationsConsistent
<1>5. InQueueBounded
  BY <1>3, TransportAssumption DEF TransportInit, InQueueBounded
<1>6. PresenceInSync
  BY DEF TransportInit, BridgeInit, PresenceInSync, card_present
<1> QED BY <1>1, <1>2, <1>3, <1>4, <1>5, <1>6, EmptyBytes
        DEF TransportInit, TransportInv, TransportTypeOK, BridgeInv,
            FrameLenIsCurrent, AbortHalvesMeet

LEMMA TransportStepSafe ==
    ASSUME TransportInv, [TransportNext]_vars
    PROVE  TransportInv' /\ SlotStep
<1>1. ASSUME NEW packet \in Packets, handle_bulk_out(packet)
      PROVE  TransportInv' /\ SlotStep
  BY <1>1, BulkOutSafe, TransportAssumption
<1>2. CASE DrainOutBuffer
  BY <1>2, WaitForMoreSafe, RejectFrameSafe, MatchControlAbortSafe,
     AnswerAbortedSafe, HoldBulkAbortSafe, RunCommandSafe DEF DrainOutBuffer
<1>3. ASSUME NEW max_len \in ReadSizes, handle_bulk_in(max_len)
      PROVE  TransportInv' /\ SlotStep
  BY <1>3, BulkInSafe, TransportAssumption
<1>4. CASE PollInterruptIn
  BY <1>4, InterruptInSafe DEF PollInterruptIn
<1>5. ASSUME NEW r \in AbortRequests, control_abort_request(r[1], r[2])
      PROVE  TransportInv' /\ SlotStep
  <2>1. r[1] \in Byte /\ r[2] \in Byte
    BY TransportAssumption
  <2> QED BY <1>5, <2>1, ControlAbortRequestSafe
<1>6. CASE control_query
  BY <1>6, ControlQuerySafe
<1>7. CASE UNCHANGED vars
  <2>1. UNCHANGED bridgeVars /\ UNCHANGED transportVars
    BY <1>7 DEF vars
  <2>2. BridgeInv' /\ SlotStep
    BY <2>1, TransportInvBridge
       DEF BridgeInv, BridgeTypeOK, PoweredImpliesCard, PoweredCardIsAtrCard,
           bridgeVars, SlotStep, Slot!slotVars
  <2>3. PresenceInSync' /\ NotificationsConsistent'
    BY <2>1, PresenceKept DEF bridgeVars, transportVars, queueVars
  <2>4. FrameLenIsCurrent'
    BY <2>1 DEF TransportInv, FrameLenIsCurrent, HasHeader, transportVars
  <2> QED BY <2>1, <2>2, <2>3, <2>4
          DEF TransportInv, TransportTypeOK, BridgeInv, InQueueBounded,
              AbortHalvesMeet, transportVars, queueVars
<1> QED BY <1>1, <1>2, <1>3, <1>4, <1>5, <1>6, <1>7 DEF TransportNext

LEMMA TransportInvAlways == TransportSpec => []TransportInv
BY TransportInitSafe, TransportStepSafe, PTL DEF TransportSpec

-----------------------------------------------------------------------------
(* Theorems *)

\* Every field of the transport and of the bridge below it keeps its range
\* under every URB of handle_urb; only slot 0 is ever held for an abort.
THEOREM TransportTypeCorrect == TransportSpec => []TransportTypeOK
<1>1. TransportInv => TransportTypeOK
  BY DEF TransportInv
<1> QED BY <1>1, TransportInvAlways, PTL

\* The frame length try_take_complete_frame caches between two packets always
\* belongs to the frame now at the head of the buffer.
THEOREM FramingSound == TransportSpec => []FrameLenIsCurrent
<1>1. TransportInv => FrameLenIsCurrent
  BY DEF TransportInv
<1> QED BY <1>1, TransportInvAlways, PTL

\* Every frame the loop of handle_bulk_out takes from the buffer decodes, so
\* that its decode error path is never taken.
THEOREM TakenFramesDecode == TransportSpec => []CompleteFramesDecode
<1>1. TransportInv => CompleteFramesDecode
  BY FrameFacts DEF TransportInv, CompleteFramesDecode
<1> QED BY <1>1, TransportInvAlways, PTL

\* push_in_frame, the splitting and the empty packets of handle_bulk_in never
\* leave more than MAX_PENDING_IN_FRAMES frames queued.
THEOREM QueueStaysBounded == TransportSpec => []InQueueBounded
<1>1. TransportInv => InQueueBounded
  BY DEF TransportInv
<1> QED BY <1>1, TransportInvAlways, PTL

\* slot_present follows the bridge's card through every handler
\* (update_slot_presence).
THEOREM PresenceStaysInSync == TransportSpec => []PresenceInSync
<1>1. TransportInv => PresenceInSync
  BY DEF TransportInv
<1> QED BY <1>1, TransportInvAlways, PTL

\* The slot change notifications, sent and queued, form one consistent history
\* that ends in what the transport believes.
THEOREM NotificationsTruthful == TransportSpec => []NotificationsConsistent
<1>1. TransportInv => NotificationsConsistent
  BY DEF TransportInv
<1> QED BY <1>1, TransportInvAlways, PTL

\* expect_abort and handle_bulk_out never both keep waiting for the other half
\* of the same abort.
THEOREM AbortsMatched == TransportSpec => []AbortHalvesMeet
<1>1. TransportInv => AbortHalvesMeet
  BY DEF TransportInv
<1> QED BY <1>1, TransportInvAlways, PTL

\* Seen through the whole transport, with packets, aborts, interrupt polls and
\* commands in any order, the slot still behaves as CcidSlot says.
THEOREM TransportImplementsSlot == TransportSpec => SlotRefinement
<1>1. TransportInit => Slot!SlotInit
  BY DEF TransportInit, BridgeInit, Slot!SlotInit
<1>2. TransportInv /\ [TransportNext]_vars => [Slot!SlotNext]_(Slot!slotVars)
  BY TransportStepSafe DEF SlotStep
<1> QED BY <1>1, <1>2, TransportInvAlways, PTL
        DEF TransportSpec, SlotRefinement, Slot!SlotSpec
=============================================================================
