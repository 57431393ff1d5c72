CONSTANTS
    None = None
    Cards <- MCCards
    DummyCard <- CardA
    ApduResponses <- MCApduResponses
    Apdus <- MCApdus
    CardAnswer <- MCCardAnswer
    MaxBacklog = 6
SPECIFICATION FairPn532Spec
INVARIANTS Pn532TypeOK TargetNeedsField QuietLineOwnAnswer AnsweredByCachedCard PresenceIsRecent FieldFlagIsTrue LineInStep
PROPERTIES CallAdvances EveryCallReturns
