CONSTANTS
    c1 = c1
    c2 = c2
    None = None
    Cards <- MCCards
    DummyCard = c1
    ApduResponses <- MCApduResponses
    Frames <- MCFrames
    BuildPseudoAtr <- MCBuildPseudoAtr
SPECIFICATION BridgeSpec
INVARIANTS BridgeTypeOK PoweredImpliesCard PoweredCardIsAtrCard SuccessReportsSlot OneReaderCall
PROPERTIES ApduOnlyInSession SlotRefinement
