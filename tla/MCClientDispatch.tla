-------------------------- MODULE MCClientDispatch --------------------------
(***************************************************************************)
(* ClientDispatch for TLC: identifiers of eight bytes, an empty and a      *)
(* two-byte payload, and the frames no server encodes.                     *)
(***************************************************************************)
EXTENDS ClientDispatch

id1 == <<0, 0, 0, 0, 0, 0, 0, 1>>
id2 == <<0, 0, 0, 0, 0, 0, 0, 2>>

TwoIds == <<id1, id2>>

OneId == <<id1>>

TwoPayloads == {<<>>, <<0, 65>>}

OnePayload == {<<0, 65>>}

NotJson == {<<123>>}

\* An empty message, and a signal cut off after its type.
StrayFrames == {<<>>, <<"MsgSignalUtf8">>}

=============================================================================
