CONSTANTS
    c1 = c1
    None = None
    Cards <- MCCards
    DummyCard = c1
    ApduResponses <- MCApduResponses
    Frames = {}
    BuildPseudoAtr <- MCBuildPseudoAtr
    Packets = {}
    ReadSizes <- MCReadSizes
    AbortRequests = {}
    MAX_PENDING_IN_FRAMES = 2
    MaxOutBuffer = 12
    MaxBacklog = 3
    Commands <- MCCommands
    SeqModulus = 3
    PacketSize = 11
SPECIFICATION FairHostSpec
INVARIANTS ResponseIsWhole IdleIsClean OneEmptyRead
PROPERTIES EveryCommandAnswered PresenceReported
