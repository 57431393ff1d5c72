CONSTANTS
    None = None
    Cards <- MCCards
    DummyCard <- CardA
    ApduResponses <- MCApduResponses
    BuildPseudoAtr <- MCBuildPseudoAtr
    Frames <- MCFrames
    Apdus <- MCApdus
    CardAnswer <- MCCardAnswer
    MaxBacklog = 0
SPECIFICATION SystemSpec
INVARIANT SlotStateIsTokenState
