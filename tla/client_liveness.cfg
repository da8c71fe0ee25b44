\* One request and up to three frames in flight, under a reader that is
\* scheduled.
CONSTANTS
    Ids <- OneId
    Keys = {k1}
    ErrCodes = {e1}
    Payloads <- TwoPayloads
    BadJson <- NotJson
    BadFrames <- StrayFrames
    MaxWire = 3
    NoSession = NoSession
    NoCode = NoCode
    None = None
SPECIFICATION FairSpec
PROPERTY AnsweredRequestReturns
