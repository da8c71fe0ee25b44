\* Sessions with and without a connection limit: two connections, two keys,
\* session files, and restarts of the server over them.
CONSTANTS
    Conns = {c1, c2}
    Keys = {k1, k2}
    Caps = {0, 1}
    NoSession = NoSession
SYMMETRY Symmetric
SPECIFICATION Spec
INVARIANT TypeOK
INVARIANT RegistryConsistent
INVARIANT BoundIsRegistered
INVARIANT CapRespected
PROPERTY ClosedSessionStaysClosed
