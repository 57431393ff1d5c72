------------------------------ MODULE CcidHost ------------------------------
(***************************************************************************)
(* The transport and the bridge driven by a host driver that keeps to the  *)
(* CCID rules the functional descriptor asks for (bMaxCCIDBusySlots = 1 in *)
(* src/usbip/device.rs): it has one command outstanding, writes it in      *)
(* packets, and reads packets until it has the whole response, taking an   *)
(* empty packet for "nothing yet".  It may give up waiting for a response  *)
(* at any time and abort, with the two halves in either order and a        *)
(* sequence number of their own; then it waits for the response to the     *)
(* abort.  The interrupt pipe is polled meanwhile.  The driver is not part *)
(* of the repository.                                                      *)
(***************************************************************************)
EXTENDS CcidTransport

CONSTANTS Commands,      \* <<message type, payload>> of the commands it sends
          SeqModulus,    \* sequence numbers wrap here (256 on the wire)
          PacketSize     \* bulk OUT packets are at most this long

\* The payloads whose length the four bytes of a header can hold.
FitsHeader(len) == len \div 16777216 \in Byte
Sendable == {p \in Seq(Byte) : FitsHeader(Len(p))}

\* A command keeps to dwMaxCCIDMessageLength of the descriptor, counted without
\* its header as the transport does; what the reader returns fits a message.
ASSUME HostAssumption ==
    /\ Commands \subseteq Byte \X Seq(Byte)
    /\ \A c \in Commands : Len(c[2]) <= CCID_MAX_MESSAGE_LENGTH
    /\ \A data \in ApduResponses : data \in Sendable
    /\ \A card \in Cards : BuildPseudoAtr(card) \in Sendable
    /\ SeqModulus \in 2..256
    /\ PacketSize \in Nat \ {0}

VARIABLES phase,    \* "idle", "writing", "reading", and, for an abort,
                    \*   "aborting", "reading_abort"
          seq,      \* sequence number of the last message begun
          tx,       \* bytes still to be written
          rx,       \* bytes of the response read so far
          halves    \* the halves of an abort still to be sent

hostOnly == <<phase, seq, tx, rx, halves>>
hostVars == <<vars, hostOnly>>

NextSeq == (seq + 1) % SeqModulus

WireMessage(type, n, payload) ==
    <<type>> \o ToLeBytes(Len(payload)) \o <<0, n, 0, 0, 0>> \o payload

AbortMessageOf(n) == WireMessage(PC_TO_RDR.Abort, n, << >>)

IsWhole(bytes) ==
    Len(bytes) >= HeaderLen /\ Len(bytes) = HeaderLen + DeclaredLen(bytes)

\* Room for the notifications of a command and of its abort.
Submit ==
    /\ phase = "idle"
    /\ Len(pending_interrupt_frames) + 1 < MaxBacklog
    /\ \E c \in Commands : tx' = WireMessage(c[1], NextSeq, c[2])
    /\ phase' = "writing"
    /\ seq' = NextSeq
    /\ UNCHANGED <<vars, rx, halves>>

WritePacket ==
    /\ phase = "writing"
    /\ LET k == IF Len(tx) < PacketSize THEN Len(tx) ELSE PacketSize
       IN  /\ handle_bulk_out(SubSeq(tx, 1, k))
           /\ tx' = SubSeq(tx, k + 1, Len(tx))
    /\ phase' = IF tx' = << >> THEN "reading" ELSE "writing"
    /\ UNCHANGED <<seq, rx, halves>>

ReadPacket ==
    /\ phase \in {"reading", "reading_abort"}
    /\ \E max_len \in ReadSizes : handle_bulk_in(max_len)
    /\ LET got == rx \o urb'.data
       IN  IF IsWhole(got) THEN phase' = "idle" /\ rx' = << >>
           ELSE phase' = phase /\ rx' = got
    /\ UNCHANGED <<seq, tx, halves>>

GiveUp ==
    /\ phase = "reading"
    /\ phase' = "aborting"
    /\ seq' = NextSeq
    /\ halves' = {"control", "bulk"}
    /\ rx' = << >>
    /\ UNCHANGED <<vars, tx>>

SendHalf ==
    /\ phase = "aborting"
    /\ \E h \in halves :
          /\ \/ h = "control" /\ control_abort_request(0, seq)
             \/ h = "bulk" /\ handle_bulk_out(AbortMessageOf(seq))
          /\ halves' = halves \ {h}
    /\ phase' = IF halves' = {} THEN "reading_abort" ELSE "aborting"
    /\ UNCHANGED <<seq, tx, rx>>

HostIdle == UNCHANGED hostOnly

HostInit ==
    /\ TransportInit
    /\ phase = "idle"
    /\ seq = 0
    /\ tx = << >>
    /\ rx = << >>
    /\ halves = {}

HostNext ==
    \/ Submit
    \/ WritePacket
    \/ ReadPacket
    \/ GiveUp
    \/ SendHalf
    \/ DrainOutBuffer /\ HostIdle
    \/ PollInterruptIn /\ HostIdle

HostSpec == HostInit /\ [][HostNext]_hostVars

(* The driver writes what it has begun to write, sends both halves of an    *)
(* abort and keeps reading while it waits; handle_bulk_out runs to its end. *)
FairHostSpec ==
    /\ HostSpec
    /\ WF_hostVars(WritePacket)
    /\ WF_hostVars(ReadPacket)
    /\ WF_hostVars(SendHalf)
    /\ WF_hostVars(DrainOutBuffer /\ HostIdle)

-----------------------------------------------------------------------------
(* Properties *)

\* The queue behind the empty packet that handle_bulk_in puts in front of it when
\* a read is filled exactly.
Unread == IF pending_in_frames # << >> /\ Head(pending_in_frames) = << >>
          THEN Tail(pending_in_frames) ELSE pending_in_frames

\* What the host has read and what is still queued join to one whole message
\* that answers the outstanding number: no response is torn by the packet
\* split, by the empty packet after a full one or by an abort, none is
\* delivered late to a later command, and none is glued to another.
ResponseIsWhole ==
    /\ Len(Unread) <= 1
    /\ rx # << >> => Unread # << >>
    /\ phase \in {"reading", "reading_abort"} /\ Unread # << >> /\ ~draining =>
          LET message == rx \o Unread[1]
          IN  IsWhole(message) /\ message[7] = seq

\* With no command outstanding all that can be left of the earlier ones is a
\* single empty packet, queued behind a response whose last read was filled
\* exactly: no byte of a response or a message, no second empty packet, no half
\* of an abort.
IdleIsClean ==
    phase = "idle" =>
        /\ ~draining
        /\ pending_in_frames \in {<< >>, << << >> >>}
        /\ pending_out_buffer = << >>
        /\ bulk_abort = None /\ control_abort = None

\* The empty packet an earlier command has left costs the host one read: behind
\* a read that got nothing the outstanding response stands at the head of the
\* queue, unless the command was itself an abort whose other half is missing.
OneEmptyRead ==
    /\ phase \in {"reading", "reading_abort"} /\ bulk_abort = None
    /\ urb.ep = "bulk_in" /\ urb.data = << >>
    => pending_in_frames # << >> /\ Head(pending_in_frames) # << >>

\* Every command is answered and every abort completes.
EveryCommandAnswered == phase # "idle" ~> phase = "idle"

\* A host that keeps an interrupt IN URB submitted learns of a card, unless it
\* is gone again first: whatever notifications are queued before the news,
\* however often polls fail (handle_interrupt_in, update_slot_presence), and
\* whatever commands and aborts go on beside it.
PresenceReported ==
    SF_hostVars(PollInterruptIn /\ HostIdle)
      => (slot_present ~> (told \/ ~slot_present))
=============================================================================
