\* The first start of a server whose session directory does not exist yet.
CONSTANTS
    Conns = {c1}
    Keys = {k1}
    Caps = {0}
    NoSession = NoSession
SPECIFICATION Spec
PROPERTY StartCreatesDirectory
