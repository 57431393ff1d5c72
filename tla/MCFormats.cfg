CONSTANTS
    AtrByteValues = {59, 200}
    FrameByteValues = {0, 1, 213, 255}
    AtsByteValues = {0, 3}
    Uids <- MCUids
    MaxHistorical = 16
    PayloadLengths <- MCPayloadLengths
    StartLengths = {0, 251}
    MaxAts = 5
SPECIFICATION FormatsSpec
INVARIANTS AtrReadsBack FrameReadsBack CorruptFrameRejected PartialFrameWaits TargetReadsBack CutListNotMisread
CHECK_DEADLOCK FALSE
