-------------------------- MODULE MCServerSessions --------------------------
(* ServerSessions for TLC: connections and keys are model values.          *)
EXTENDS ServerSessions

Symmetric == Permutations(Conns) \cup Permutations(Keys)

=============================================================================
