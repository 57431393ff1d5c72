CONSTANTS
    c1 = c1
    None = None
    Cards <- MCCards
    DummyCard = c1
    ApduResponses <- MCApduResponses
    Frames = {}
    BuildPseudoAtr <- MCBuildPseudoAtr
    Packets <- AbandonedPackets
    ReadSizes <- MCReadSizes
    AbortRequests <- OneAbortRequest
    MAX_PENDING_IN_FRAMES = 2
    MaxOutBuffer = 21
    MaxBacklog = 2
SPECIFICATION FairTransportSpec
PROPERTY MatchingBulkAbortCompletes
