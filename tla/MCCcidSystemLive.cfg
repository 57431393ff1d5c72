CONSTANTS
    None = None
    Cards <- OneCard
    DummyCard <- CardA
    ApduResponses <- MCApduResponses
    BuildPseudoAtr <- MCBuildPseudoAtr
    Frames <- LiveFrames
    Apdus <- MCApdus
    CardAnswer <- MCCardAnswer
    MaxBacklog = 0
SPECIFICATION SystemLiveSpec
PROPERTY RemovalNoticed
CONSTRAINT InStep
