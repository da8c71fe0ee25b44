\* Two connections restore the same session under a limit of one.
CONSTANTS
    Conns = {c1, c2}
    Keys = {k1}
    Caps = {1}
    NoSession = NoSession
SPECIFICATION Spec
INVARIANT RegisterAfterCheckSucceeds
