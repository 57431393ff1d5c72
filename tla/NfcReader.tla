----------------------------- MODULE NfcReader ------------------------------
(***************************************************************************)
(* The NfcReader trait of src/nfc/mod.rs as the CCID layer sees it: what   *)
(* each call may return, for each of the two backends.  The dummy backend  *)
(* (src/nfc/dummy.rs) always holds its one card and never fails; any call  *)
(* to a PN532 over its serial line may fail.                               *)
(***************************************************************************)
EXTENDS CcidProtocol

CONSTANTS Cards,          \* the cards that may be put on the reader
          DummyCard,      \* the built-in card of the dummy backend
          ApduResponses,  \* the response APDUs the cards return
          None            \* Option::None

ASSUME ReaderAssumption ==
    /\ DummyCard \in Cards
    /\ ApduResponses \subseteq Seq(Byte)
    /\ None \notin Cards
    /\ None \notin Nat
    /\ None \notin Nat \X Nat
    /\ None \notin CcidResponse

\* ReaderCapabilities.name of the backends.
Backends == {"pn532-uart", "dummy"}

(* Result values.  The CCID layer tells ReaderError::TargetLost from every  *)
(* other error and looks no further, so an error carries nothing.           *)
Ok(x)      == [tag |-> "Ok", val |-> x]
Err        == [tag |-> "Err", val |-> None]
TargetLost == [tag |-> "TargetLost", val |-> None]

PollResults(backend) ==
    IF backend = "dummy" THEN {Ok(DummyCard)}
    ELSE {Ok(c) : c \in Cards \cup {None}} \cup {Err}

PowerOffResults(backend) ==
    IF backend = "dummy" THEN {Ok(None)} ELSE {Ok(None), Err}

ExchangeResults(backend) ==
    {Ok(data) : data \in ApduResponses}
      \cup (IF backend = "dummy" THEN {} ELSE {TargetLost, Err})
=============================================================================
