\* server.CloseSession works on a copy of the bucket while readers go on.
CONSTANTS
    Conns = {c1, c2}
    Keys = {k1, k2}
    Caps = {0}
    NoSession = NoSession
SPECIFICATION Spec
PROPERTY CloseSessionClosesItsKey
