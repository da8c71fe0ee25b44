------------------------------- MODULE Frames -------------------------------
(***************************************************************************)
(* The frames a webwire server writes to a client, as the message codec    *)
(* lays them out: a frame is a sequence of bytes whose first byte is the   *)
(* message type.  A type is written by its name, every other byte is a     *)
(* value.  A JSON text is abstracted to the one value it carries: the key  *)
(* of a session, or the code of an error.                                  *)
(***************************************************************************)
EXTENDS Naturals, Sequences

Encodings == {"Binary", "Utf8", "Utf16"}

ReplyType == [Binary |-> "MsgReplyBinary", Utf8 |-> "MsgReplyUtf8", Utf16 |-> "MsgReplyUtf16"]
SignalType == [Binary |-> "MsgSignalBinary", Utf8 |-> "MsgSignalUtf8", Utf16 |-> "MsgSignalUtf16"]

\* The reply types that carry a request identifier and nothing else, and
\* the error each of them stands for.
FailureMeaning ==
    [MsgReplyShutdown       |-> "ReqSrvShutdownErr",
     MsgSessionNotFound     |-> "SessNotFoundErr",
     MsgMaxSessConnsReached |-> "MaxSessConnsReachedErr",
     MsgSessionsDisabled    |-> "SessionsDisabledErr",
     MsgReplyInternalError  |-> "ReqInternalErr",
     MsgReplyProtocolError  |-> "ReqProtocolErr"]

\* The types of the messages that answer a request.
ReplyTypes ==
    {ReplyType[enc] : enc \in Encodings} \cup DOMAIN FailureMeaning \cup {"MsgErrorReply"}

\* A payload of encoding Utf16 starts at an even offset: one byte of padding
\* follows the identifier.
ReplyFrame(enc, id, data) ==
    <<ReplyType[enc]>> \o id \o (IF enc = "Utf16" THEN <<0>> ELSE <<>>) \o data

\* The payload of a signal starts at offset 2: one byte lies between the
\* type and the payload.
SignalFrame(enc, data) == <<SignalType[enc], 0>> \o data

ErrorReplyFrame(id, json) == <<"MsgErrorReply">> \o id \o json

FailureFrame(type, id) == <<type>> \o id

SessionCreatedFrame(json) == <<"MsgSessionCreated">> \o json

SessionClosedFrame == <<"MsgSessionClosed">>

\* json.Marshal of a session, and of a request error.
Json(v) == <<v>>

=============================================================================
