\* One client, over two connections of a server that may end and restart:
\* restorations and requests, one at a time.
CONSTANTS
    Conns = {c1, c2}
    Keys = {k1}
    Caps = {1}
    Ids <- OneId
    MaxWire = 2
    NoSession = NoSession
    None = None
SPECIFICATION FairSpec
PROPERTY CallerSeesAnswer
PROPERTY CallReturns
PROPERTY LoggedInOnReturn
