\* The session of a connection changes while OnSessionCreated saves it.
CONSTANTS
    Conns = {c1}
    Keys = {k1, k2}
    Caps = {0}
    NoSession = NoSession
SPECIFICATION Spec
INVARIANT FileHoldsItsSession
