CONSTANTS
    None = None
    Cards <- MCCards
    DummyCard <- CardA
    ApduResponses <- MCApduResponses
    Apdus <- MCApdus
    CardAnswer <- MCCardAnswer
    MaxBacklog = 12
SPECIFICATION Pn532Spec
INVARIANT PollDetectsPresence
