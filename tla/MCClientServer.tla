--------------------------- MODULE MCClientServer ---------------------------
(* ClientServer for TLC: one identifier of eight bytes, used again and     *)
(* again.                                                                  *)
EXTENDS ClientServer

id1 == <<0, 0, 0, 0, 0, 0, 0, 1>>

OneId == <<id1>>

=============================================================================
