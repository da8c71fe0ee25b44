--------------------------- MODULE ClientDispatch ---------------------------
(***************************************************************************)
(* The reader of a webwire client: handleMessage takes the frames of the   *)
(* server in the order they arrive and hands each to its handler, which    *)
(* ends a pending request of the request manager, replaces or clears the   *)
(* client's copy of the session, or calls a hook.  Callers submit          *)
(* requests, give up at their deadline and, for a session restoration,     *)
(* publish the session of the reply themselves; the connection may be      *)
(* lost at any moment.  The server is the environment: it answers what it  *)
(* received and pushes signals and session changes of its own.             *)
(***************************************************************************)
EXTENDS Frames, FiniteSets

CONSTANTS
    Ids,        \* the request identifiers, in the order the generator tries them
    Keys,       \* session keys
    ErrCodes,   \* codes of the errors a request handler returns
    Payloads,   \* payload data
    BadJson,    \* texts json.Unmarshal rejects
    BadFrames,  \* frames no encoder of the server produces
    MaxWire,    \* bound on the frames in flight to the client
    NoSession,  \* a nil session
    NoCode,     \* the code of a zero-valued ReqErr
    None        \* no result yet

ReqIds == {Ids[n] : n \in DOMAIN Ids}

VARIABLES
    connected,     \* the connection is up
    wire,          \* frames written by the server, not yet read
    atServer,      \* requests the server has not answered
    srvSession,    \* the session the server holds for the connection
    st,            \* request manager: "pending" while a waiter is registered
    outcome,       \* what each request returned to its caller
    restoring,     \* the key a pending or unpublished restoration asked for
    session,       \* clt.session
    hook,          \* the hook called last, with the session it was given
    panicked,      \* the reader ran into a runtime panic
    answer,        \* what the server answered to each request
    frameSession   \* the session as the frames dispatched so far leave it

vars == <<connected, wire, atServer, srvSession, st, outcome, restoring, session,
          hook, panicked, answer, frameSession>>

\* The results of a request: a payload, a typed error, a ReqErr.
Payload(enc, data) == [encoding |-> enc, data |-> data]
Err(name) == [err |-> name]
ReqErr(code) == [err |-> "ReqErr", code |-> code]

\* Utf16 text has an even number of bytes.
PayloadsOf(enc) == {p \in Payloads : enc = "Utf16" => Len(p) % 2 = 0}

AllPayloads ==
    {Payload(enc, p) : enc \in Encodings, p \in Payloads}
        \cup {Payload("Utf8", j) : j \in {Json(k) : k \in Keys} \cup BadJson}

Results ==
    AllPayloads \cup {ReqErr(c) : c \in ErrCodes \cup {NoCode}}
        \cup {Err(FailureMeaning[t]) : t \in DOMAIN FailureMeaning}

Gone == {Err("TimeoutErr"), Err("DisconnectedErr")}

Hooks ==
    {[name |-> "none"], [name |-> "OnSessionClosed"]}
        \cup {[name |-> "OnSessionCreated", arg |-> k] : k \in Keys}
        \cup {[name |-> "OnServerSignal"]}

TypeOK ==
    /\ connected \in BOOLEAN
    /\ DOMAIN wire = 1..Len(wire) /\ Len(wire) <= MaxWire
    /\ \A n \in DOMAIN wire : DOMAIN wire[n] = 1..Len(wire[n])
    /\ atServer \subseteq ReqIds
    /\ srvSession \in Keys \cup {NoSession}
    /\ st \in [ReqIds -> {"unused", "pending", "done"}]
    /\ outcome \in [ReqIds -> Results \cup Gone \cup {None}]
    /\ restoring \in [ReqIds -> Keys \cup {NoSession}]
    /\ session \in Keys \cup {NoSession}
    /\ hook \in Hooks
    /\ panicked \in BOOLEAN
    /\ answer \in [ReqIds -> Results \cup {None}]
    /\ frameSession \in Keys \cup {NoSession}

Init ==
    /\ connected = FALSE
    /\ wire = <<>>
    /\ atServer = {}
    /\ srvSession = NoSession
    /\ st = [i \in ReqIds |-> "unused"]
    /\ outcome = [i \in ReqIds |-> None]
    /\ restoring = [i \in ReqIds |-> NoSession]
    /\ session = NoSession
    /\ hook = [name |-> "none"]
    /\ panicked = FALSE
    /\ answer = [i \in ReqIds |-> None]
    /\ frameSession = NoSession

-----------------------------------------------------------------------------
(* The request manager.                                                    *)

\* The identifier generator: the first identifier that is free.
NextId == Ids[CHOOSE n \in DOMAIN Ids :
                /\ st[Ids[n]] = "unused"
                /\ \A m \in 1..(n - 1) : st[Ids[m]] # "unused"]

\* The payload is stored in the entry of the request and its waiter is
\* signalled; without an entry, it is dropped.
Fulfill(reqID, payload) ==
    IF reqID \in ReqIds /\ st[reqID] = "pending"
    THEN /\ st' = [st EXCEPT ![reqID] = "done"]
         /\ outcome' = [outcome EXCEPT ![reqID] = payload]
    ELSE UNCHANGED <<st, outcome>>

\* The same, with an error.
Fail(reqID, err) == Fulfill(reqID, err)

\* Every waiter is signalled with err and the table is cleared.
FailAll(err) ==
    /\ st' = [i \in ReqIds |-> IF st[i] = "pending" THEN "done" ELSE st[i]]
    /\ outcome' = [i \in ReqIds |-> IF st[i] = "pending" THEN err ELSE outcome[i]]

\* A request, or the restoration of session k, is submitted: registered and
\* sent over a connection that is up, refused at once without one.
Submit(k) ==
    /\ ~panicked
    /\ \E i \in ReqIds : st[i] = "unused"
    /\ restoring' = [restoring EXCEPT ![NextId] = k]
    /\ \/ /\ connected
          /\ st' = [st EXCEPT ![NextId] = "pending"]
          /\ atServer' = atServer \cup {NextId}
          /\ UNCHANGED outcome
       \/ /\ ~connected
          /\ st' = [st EXCEPT ![NextId] = "done"]
          /\ outcome' = [outcome EXCEPT ![NextId] = Err("DisconnectedErr")]
          /\ UNCHANGED atServer
    /\ UNCHANGED <<connected, wire, srvSession, session, hook, panicked, answer,
                   frameSession>>

\* The deadline of a waiter passes before a result: its entry is removed.
Timeout(i) ==
    /\ ~panicked
    /\ st[i] = "pending"
    /\ st' = [st EXCEPT ![i] = "done"]
    /\ outcome' = [outcome EXCEPT ![i] = Err("TimeoutErr")]
    /\ UNCHANGED <<connected, wire, atServer, srvSession, restoring, session, hook,
                   panicked, answer, frameSession>>

\* json.Unmarshal of a text that carries one of the values of S.
Decodes(json, S) == Len(json) = 1 /\ json[1] \in S

\* The restoration that got a reply and has not published its session.
Unpublished(i) ==
    /\ st[i] = "done" /\ restoring[i] # NoSession
    /\ outcome[i] \in AllPayloads

\* The caller of a restoration, woken by the reply, parses the session and
\* makes it the client's.
RestorePublish(i) ==
    /\ ~panicked
    /\ Unpublished(i)
    /\ restoring' = [restoring EXCEPT ![i] = NoSession]
    /\ session' = IF Decodes(outcome[i].data, Keys) THEN outcome[i].data[1] ELSE session
    /\ UNCHANGED <<connected, wire, atServer, srvSession, st, outcome, hook, panicked,
                   answer, frameSession>>

-----------------------------------------------------------------------------
(* The handlers of the reader.                                             *)

\* message[n:]
Slice(m, n) == SubSeq(m, n + 1, Len(m))

extractMessageIdentifier(m) == SubSeq(m, 2, 9)

\* Nothing of request i is left on its way: the server has answered it or
\* lost it, and no reply to it is in flight.
Quiet(i) ==
    /\ i \notin atServer
    /\ \A n \in DOMAIN wire :
          ~(Len(wire[n]) >= 9 /\ wire[n][1] \in ReplyTypes
              /\ extractMessageIdentifier(wire[n]) = i)

\* The identifier of a request that returned is free again.  The generator
\* counts through 2^64 identifiers before it comes back to one: whatever
\* was on its way for the earlier request of that identifier is gone.
Recycle(i) ==
    /\ ~panicked
    /\ st[i] = "done" /\ ~Unpublished(i) /\ Quiet(i)
    /\ st' = [st EXCEPT ![i] = "unused"]
    /\ outcome' = [outcome EXCEPT ![i] = None]
    /\ answer' = [answer EXCEPT ![i] = None]
    /\ restoring' = [restoring EXCEPT ![i] = NoSession]
    /\ UNCHANGED <<connected, wire, atServer, srvSession, session, hook, panicked,
                   frameSession>>

clientVars == <<st, outcome, session, hook, panicked, frameSession>>

ReplyEncoding ==
    [MsgReplyBinary |-> "Binary", MsgReplyUtf8 |-> "Utf8", MsgReplyUtf16 |-> "Utf16"]

SignalEncoding ==
    [MsgSignalBinary |-> "Binary", MsgSignalUtf8 |-> "Utf8", MsgSignalUtf16 |-> "Utf16"]

SliceFromUnpadded ==
    [MsgReplyBinary |-> 9, MsgReplyUtf8 |-> 9, MsgReplyUtf16 |-> 9, MsgErrorReply |-> 9,
     MsgSignalBinary |-> 2, MsgSignalUtf8 |-> 2, MsgSignalUtf16 |-> 2,
     MsgSessionCreated |-> 1]

\* Where handleMessage cuts the payload off a message of each type.
SliceFrom ==
    [MsgReplyBinary |-> 9, MsgReplyUtf8 |-> 9, MsgReplyUtf16 |-> 10, MsgErrorReply |-> 9,
     MsgSignalBinary |-> 2, MsgSignalUtf8 |-> 2, MsgSignalUtf16 |-> 2,
     MsgSessionCreated |-> 1]

Body(m) == Slice(m, SliceFrom[m[1]])

\* A slice that starts past the end of the message is a runtime panic.  The
\* typed failures, which handleMessage does not slice, are not among these: a
\* short one reaches extractMessageIdentifier, whose code the source does not
\* hold, and BadFrames has none.
TooShort(m) ==
    /\ m # <<>> /\ m[1] \in DOMAIN SliceFrom
    /\ Len(m) < SliceFrom[m[1]]

FailureErrMixedUp ==
    [MsgReplyShutdown       |-> "ReqSrvShutdownErr",
     MsgSessionNotFound     |-> "SessionsDisabledErr",
     MsgMaxSessConnsReached |-> "MaxSessConnsReachedErr",
     MsgSessionsDisabled    |-> "SessionsDisabledErr",
     MsgReplyInternalError  |-> "ReqInternalErr"]

\* handleReplyShutdown, handleSessionNotFound, handleMaxSessConnsReached,
\* handleSessionsDisabled and handleInternalError: the error each of them
\* fails the request with.
FailureErr ==
    [MsgReplyShutdown       |-> "ReqSrvShutdownErr",
     MsgSessionNotFound     |-> "SessNotFoundErr",
     MsgMaxSessConnsReached |-> "MaxSessConnsReachedErr",
     MsgSessionsDisabled    |-> "SessionsDisabledErr",
     MsgReplyInternalError  |-> "ReqInternalErr"]

handleSessionCreatedUnparsed(sessionKey) ==
    /\ session' = sessionKey
    /\ frameSession' = session'
    /\ hook' = [name |-> "OnSessionCreated", arg |-> session']
    /\ UNCHANGED <<st, outcome, panicked>>

handleSessionCreatedNotStored(sessionKey) ==
    /\ \/ /\ ~Decodes(sessionKey, Keys)
          /\ UNCHANGED <<frameSession, hook>>
       \/ /\ Decodes(sessionKey, Keys)
          /\ frameSession' = sessionKey[1]
          /\ hook' = [name |-> "OnSessionCreated", arg |-> sessionKey[1]]
    /\ UNCHANGED <<st, outcome, session, panicked>>

\* The session of the message becomes the client's and OnSessionCreated is
\* called with it; a text that is no session changes nothing.
handleSessionCreated(sessionKey) ==
    /\ \/ /\ ~Decodes(sessionKey, Keys)
          /\ UNCHANGED <<session, frameSession, hook>>
       \/ /\ Decodes(sessionKey, Keys)
          /\ session' = sessionKey[1]
          /\ frameSession' = session'
          /\ hook' = [name |-> "OnSessionCreated", arg |-> session']
    /\ UNCHANGED <<st, outcome, panicked>>

handleSessionClosed ==
    /\ session' = NoSession
    /\ frameSession' = NoSession
    /\ hook' = [name |-> "OnSessionClosed"]
    /\ UNCHANGED <<st, outcome, panicked>>

handleFailureGivesUp(reqID, payload) ==
    /\ IF Decodes(payload, ErrCodes)
       THEN Fail(reqID, ReqErr(payload[1]))
       ELSE UNCHANGED <<st, outcome>>
    /\ UNCHANGED <<session, hook, panicked, frameSession>>

\* The request fails with the error of the payload, and with a zero-valued
\* ReqErr when the payload is no error.
handleFailure(reqID, payload) ==
    /\ Fail(reqID, ReqErr(IF Decodes(payload, ErrCodes) THEN payload[1] ELSE NoCode))
    /\ UNCHANGED <<session, hook, panicked, frameSession>>

\* The reply of a restoration that still waits carries the session the
\* client is about to hold.
Restores(reqID, payload) ==
    /\ reqID \in ReqIds /\ st[reqID] = "pending" /\ restoring[reqID] # NoSession
    /\ Decodes(payload.data, Keys)

handleReply(reqID, payload) ==
    /\ Fulfill(reqID, payload)
    /\ frameSession' = IF Restores(reqID, payload) THEN payload.data[1] ELSE frameSession
    /\ UNCHANGED <<session, hook, panicked>>

\* The message the reader reads next.
message == Head(wire)

Read ==
    /\ ~panicked /\ connected /\ wire # <<>>
    /\ wire' = Tail(wire)
    /\ UNCHANGED <<connected, atServer, srvSession, restoring, answer>>

\* The reader reads a message of one of the types, long enough to be cut.
ReadOf(types) ==
    /\ Read
    /\ message # <<>> /\ message[1] \in types
    /\ ~TooShort(message)

EmptyMessage ==
    /\ Read /\ message = <<>>
    /\ UNCHANGED clientVars

SlicePanics ==
    /\ Read /\ TooShort(message)
    /\ panicked' = TRUE
    /\ UNCHANGED <<st, outcome, session, hook, frameSession>>

ReplyMessage ==
    /\ ReadOf(DOMAIN ReplyEncoding)
    /\ handleReply(extractMessageIdentifier(message),
                   Payload(ReplyEncoding[message[1]], Body(message)))

FailureMessage ==
    /\ ReadOf(DOMAIN FailureErr)
    /\ Fail(extractMessageIdentifier(message), Err(FailureErr[message[1]]))
    /\ UNCHANGED <<session, hook, panicked, frameSession>>

ErrorReplyMessage ==
    /\ ReadOf({"MsgErrorReply"})
    /\ handleFailure(extractMessageIdentifier(message), Body(message))

SignalMessage ==
    /\ ReadOf(DOMAIN SignalEncoding)
    /\ hook' = [name |-> "OnServerSignal"]
    /\ UNCHANGED <<st, outcome, session, panicked, frameSession>>

SessionCreatedMessage ==
    /\ ReadOf({"MsgSessionCreated"})
    /\ handleSessionCreated(Body(message))

SessionClosedMessage ==
    /\ ReadOf({"MsgSessionClosed"})
    /\ handleSessionClosed

\* A message of a type the client does not know is logged and dropped.
StrangeMessage ==
    /\ Read /\ message # <<>>
    /\ message[1] \notin DOMAIN SliceFrom \cup DOMAIN FailureErr \cup {"MsgSessionClosed"}
    /\ UNCHANGED clientVars

\* The reader hands the message to the handler of its type.
handleMessage ==
    \/ EmptyMessage \/ SlicePanics \/ StrangeMessage
    \/ ReplyMessage \/ FailureMessage \/ ErrorReplyMessage
    \/ SignalMessage \/ SessionCreatedMessage \/ SessionClosedMessage

-----------------------------------------------------------------------------
(* The connection and the server at its other end.                         *)

\* An answer of the server: the frame it writes, what the caller is to see
\* of it, and the session the connection holds after it.
Reaction(frame, seen, binds) == [frame |-> frame, seen |-> seen, binds |-> binds]

Refusals(i, types) ==
    {Reaction(FailureFrame(t, i), Err(FailureMeaning[t]), srvSession) : t \in types}

RequestAnswers(i) ==
    UNION {{Reaction(ReplyFrame(enc, i, p), Payload(enc, p), srvSession) :
               p \in PayloadsOf(enc)} : enc \in Encodings}
      \cup {Reaction(ErrorReplyFrame(i, Json(c)), ReqErr(c), srvSession) : c \in ErrCodes}
      \cup {Reaction(ErrorReplyFrame(i, j), ReqErr(NoCode), srvSession) : j \in BadJson}
      \cup Refusals(i, {"MsgReplyShutdown", "MsgReplyInternalError",
                        "MsgReplyProtocolError"})

RestoreAnswers(i) ==
    LET json == Json(restoring[i])
    IN  {Reaction(ReplyFrame("Utf8", i, json), Payload("Utf8", json), restoring[i])}
          \cup Refusals(i, {"MsgSessionNotFound", "MsgMaxSessConnsReached",
                            "MsgSessionsDisabled", "MsgReplyInternalError"})

Writable == ~panicked /\ connected /\ Len(wire) < MaxWire

ServerAnswers(i) ==
    /\ Writable /\ i \in atServer
    /\ \E a \in IF restoring[i] = NoSession THEN RequestAnswers(i) ELSE RestoreAnswers(i) :
          /\ wire' = Append(wire, a.frame)
          /\ answer' = [answer EXCEPT ![i] = a.seen]
          /\ srvSession' = a.binds
    /\ atServer' = atServer \ {i}
    /\ UNCHANGED <<connected, st, outcome, restoring, session, hook, panicked, frameSession>>

\* A request handler of the server creates session k for the connection.
ServerCreatesSession(k) ==
    /\ Writable /\ srvSession = NoSession
    /\ srvSession' = k
    /\ \E json \in {Json(k)} \cup BadJson : wire' = Append(wire, SessionCreatedFrame(json))
    /\ UNCHANGED <<connected, atServer, st, outcome, restoring, session, hook, panicked,
                   answer, frameSession>>

ServerClosesSession ==
    /\ Writable /\ srvSession # NoSession
    /\ srvSession' = NoSession
    /\ wire' = Append(wire, SessionClosedFrame)
    /\ UNCHANGED <<connected, atServer, st, outcome, restoring, session, hook, panicked,
                   answer, frameSession>>

ServerSignals(enc) ==
    /\ Writable
    /\ \E p \in PayloadsOf(enc) : wire' = Append(wire, SignalFrame(enc, p))
    /\ UNCHANGED <<connected, atServer, srvSession, st, outcome, restoring, session, hook,
                   panicked, answer, frameSession>>

\* A frame no encoder of the server writes reaches the reader.
Stray(frame) ==
    /\ Writable
    /\ wire' = Append(wire, frame)
    /\ UNCHANGED <<connected, atServer, srvSession, st, outcome, restoring, session, hook,
                   panicked, answer, frameSession>>

\* The connection is lost: what was in flight is gone, the server forgets
\* the connection and the reader fails every pending request.
Disconnect ==
    /\ ~panicked /\ connected
    /\ connected' = FALSE
    /\ wire' = <<>> /\ atServer' = {} /\ srvSession' = NoSession
    /\ FailAll(Err("DisconnectedErr"))
    /\ UNCHANGED <<restoring, session, hook, panicked, answer, frameSession>>

Connect ==
    /\ ~panicked /\ ~connected
    /\ connected' = TRUE
    /\ UNCHANGED <<wire, atServer, srvSession, st, outcome, restoring, session, hook,
                   panicked, answer, frameSession>>

\* A panic of the reader ends the client.
Halted == panicked /\ UNCHANGED vars

-----------------------------------------------------------------------------

Next ==
    \/ handleMessage \/ ServerClosesSession \/ Disconnect \/ Connect \/ Halted
    \/ \E k \in Keys \cup {NoSession} : Submit(k)
    \/ \E i \in ReqIds : Timeout(i) \/ RestorePublish(i) \/ Recycle(i) \/ ServerAnswers(i)
    \/ \E k \in Keys : ServerCreatesSession(k)
    \/ \E enc \in Encodings : ServerSignals(enc)
    \/ \E frame \in BadFrames : Stray(frame)

Spec == Init /\ [][Next]_vars

\* The reader goroutine is scheduled: a message that arrived is read.
FairSpec == Spec /\ WF_vars(handleMessage)

-----------------------------------------------------------------------------
(* Properties.                                                             *)

RR == INSTANCE RequestReply
          WITH Ids <- ReqIds, Answers <- Results, status <- st

\* The client implements the request-reply contract: through the reader's
\* handlers a call returns once, with what the server wrote for the request
\* of that identifier (payload, encoding and error as the codec laid them
\* out), or with the error of its timeout or of the lost connection, and
\* never with what the server wrote for an earlier request that had the
\* same identifier.
CallerSeesAnswer == RR!Spec

\* A request the server answered returns without waiting for its deadline:
\* the reader reaches the answer behind whatever was written before it and
\* its handler ends the request, the error reply whose payload does not
\* parse included.  A reply of a type handleMessage has no case for is
\* the exception (see AnswerEndsRequest), as is a reader that panicked.
AnsweredRequestReturns ==
    \A i \in ReqIds :
        (st[i] = "pending" /\ answer[i] \notin {None, Err("ReqProtocolErr")})
            ~> (st[i] = "done" \/ panicked)

\* What handleMessage cuts out of a frame in flight is what the server put
\* in: the identifier, the encoding and the payload of a reply are those of
\* the answer to that request, the padded Utf16 payload included, and the
\* payload of a signal is one a server sends in that encoding.
FramesDecode ==
    \A n \in DOMAIN wire :
        LET m == wire[n]
        IN  (m # <<>> /\ ~TooShort(m)) =>
              /\ m[1] \in DOMAIN ReplyEncoding =>
                    answer[extractMessageIdentifier(m)] = Payload(ReplyEncoding[m[1]], Body(m))
              /\ m[1] \in DOMAIN SignalEncoding =>
                    Body(m) \in PayloadsOf(SignalEncoding[m[1]])

\* The client's copy of the session is what the frames dispatched so far
\* leave it, in the order the server wrote them: handleSessionClosed after
\* the reply of a restoration means no session.
SessionInFrameOrder ==
    (\A i \in ReqIds : ~Unpublished(i)) => session = frameSession

\* The message that answers a pending request ends it: whatever type of
\* reply the server writes, handleMessage hands it to the request manager
\* and the caller returns with it before its deadline.
AnswerEndsRequest ==
    [][\A i \in ReqIds :
          (/\ st[i] = "pending" /\ wire # <<>>
           /\ wire' = Tail(wire) /\ connected'
           /\ message # <<>> /\ message[1] \in ReplyTypes
           /\ extractMessageIdentifier(message) = i)
             => st'[i] = "done"]_vars

\* handleMessage returns for every frame, whatever its length.
ReaderSurvives == ~panicked

=============================================================================
