---------------------------- MODULE CcidProtocol ----------------------------
(***************************************************************************)
(* The CCID wire format of src/ccid/protocol.rs: commands decoded from the *)
(* bytes of a bulk OUT message, responses encoded into the bytes of a bulk *)
(* IN message.  Fields the program only logs (bwi, level_parameter,        *)
(* power_select) share the field param, the first of the three             *)
(* message-specific header bytes; the other two are never read.            *)
(***************************************************************************)
EXTENDS Naturals, Sequences

Byte == 0..255

\* Every message starts with a header of this many bytes.
HeaderLen == 10

-----------------------------------------------------------------------------
(* Commands, PC to reader *)

PC_TO_RDR == [IccPowerOn |-> 98, IccPowerOff |-> 99, GetSlotStatus |-> 101,
              SetParameters |-> 97, GetParameters |-> 108,
              ResetParameters |-> 109, XfrBlock |-> 111, Abort |-> 114]

Ops == DOMAIN PC_TO_RDR \cup {"Unknown"}

CcidCommand == [op : Ops, slot : Byte, seq : Byte, param : Byte,
                payload : Seq(Byte)]

\* The command a message type byte stands for.
OpOf(b) == IF \E op \in DOMAIN PC_TO_RDR : PC_TO_RDR[op] = b
           THEN CHOOSE op \in DOMAIN PC_TO_RDR : PC_TO_RDR[op] = b
           ELSE "Unknown"

\* u32::from_le_bytes
FromLeBytes(a, b, c, d) == a + 256 * b + 65536 * c + 16777216 * d

\* The payload length the header declares.
DeclaredLen(frame) == FromLeBytes(frame[2], frame[3], frame[4], frame[5])

\* decode returns Ok: neither FrameTooShort nor LengthMismatch.
Decodable(frame) ==
    /\ Len(frame) >= HeaderLen
    /\ DeclaredLen(frame) = Len(frame) - HeaderLen

decode(frame) ==
    LET op == OpOf(frame[1])
    IN  [op      |-> op,
         slot    |-> frame[6],
         seq     |-> frame[7],
         param   |-> frame[8],
         payload |-> IF op \in {"SetParameters", "XfrBlock", "Unknown"}
                     THEN SubSeq(frame, HeaderLen + 1, Len(frame))
                     ELSE << >>]

-----------------------------------------------------------------------------
(* Responses, reader to PC *)

RDR_TO_PC == [DataBlock |-> 128, SlotStatus |-> 129, Parameters |-> 130]

IccStatus == [Active |-> 0, Inactive |-> 1, NotPresent |-> 2]

\* TimeExtension is declared in the source and never used.
CommandStatus == [NoError |-> 0, Failed |-> 1]

\* extra is chain_parameter, clock_status or protocol_num, by kind.
CcidResponse == [kind : DOMAIN RDR_TO_PC, slot : Byte, seq : Byte,
                 icc : DOMAIN IccStatus, status : DOMAIN CommandStatus,
                 error : Byte, extra : Byte, payload : Seq(Byte)]

\* SlotStatus::encode
StatusByte(icc, status) == 64 * CommandStatus[status] + IccStatus[icc]

LowByte(n) == n % 256

ToLeBytes(n) == <<LowByte(n), LowByte(n \div 256), LowByte(n \div 65536),
                  LowByte(n \div 16777216)>>

encode(r) ==
    <<RDR_TO_PC[r.kind]>> \o ToLeBytes(Len(r.payload))
      \o <<r.slot, r.seq, StatusByte(r.icc, r.status), r.error, r.extra>>
      \o r.payload
=============================================================================
