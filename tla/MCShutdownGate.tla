--------------------------- MODULE MCShutdownGate ---------------------------
(* ShutdownGate for TLC: messages, callers and peers are model values.     *)
EXTENDS ShutdownGate, TLC

Symmetric ==
    Permutations(Requests) \cup Permutations(Signals)
        \cup Permutations(Callers) \cup Permutations(Peers)

=============================================================================
