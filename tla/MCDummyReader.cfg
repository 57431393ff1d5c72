CONSTANTS
    Headers <- MCHeaders
    Payloads <- MCPayloads
    Behind <- MCBehind
    Malformed <- MCMalformed
    MaxCalls = 4
SPECIFICATION DummySpec
INVARIANTS GetInfoExactlyInSession WrongLengthOnlyIfWrong
CHECK_DEADLOCK FALSE
