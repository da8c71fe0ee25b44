\* The reader, the request manager and the server of one client: two
\* requests, each an ordinary request or the restoration of a session.
CONSTANTS
    Ids <- TwoIds
    Keys = {k1}
    ErrCodes = {e1}
    Payloads <- OnePayload
    BadJson <- NotJson
    BadFrames <- StrayFrames
    MaxWire = 2
    NoSession = NoSession
    NoCode = NoCode
    None = None
SPECIFICATION Spec
INVARIANT TypeOK
INVARIANT FramesDecode
PROPERTY CallerSeesAnswer
