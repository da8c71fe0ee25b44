\* A frame shorter than the header of its type.
CONSTANTS
    Ids <- TwoIds
    Keys = {k1}
    ErrCodes = {e1}
    Payloads <- TwoPayloads
    BadJson <- NotJson
    BadFrames <- StrayFrames
    MaxWire = 2
    NoSession = NoSession
    NoCode = NoCode
    None = None
SPECIFICATION Spec
INVARIANT ReaderSurvives
