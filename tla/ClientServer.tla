---------------------------- MODULE ClientServer ----------------------------
(***************************************************************************)
(* One webwire client and the server it talks to.  The client of           *)
(* ClientDispatch submits restorations of a session and requests; the      *)
(* server of ServerSessions handles a restoration on the reader of the     *)
(* connection (handleSessionRestore) and a request on a worker, which may  *)
(* create a session, and writes its replies and session notifications to   *)
(* the connection, where the reader of the client finds them in the order  *)
(* they were written.                                                      *)
(*                                                                         *)
(* The connection may be lost at any moment: the client fails what it      *)
(* waits for and connects again, while the server goes on with the old     *)
(* connection until its reader notices.  The server may end, by a panic    *)
(* or from outside, and start again over the session files it left.        *)
(***************************************************************************)
EXTENDS Frames, FiniteSets

CONSTANTS
    Conns,      \* the connections of the server
    Keys,       \* session keys
    Caps,       \* the values of ServerOptions.MaxSessionConnections
    Ids,        \* the request identifiers of the client
    MaxWire,    \* bound on the frames in flight to the client
    NoSession,  \* a nil session
    None        \* no connection, no request, no result

VARIABLES
    \* the client
    connected, wire, atServer, st, outcome, restoring, cltSession, hook, panicked,
    answer, frameSession,
    \* the server
    sessionsEnabled, maxConns, up, dir, registry, session, open, files, pc, key,
    reply, wpc, sess, admin,
    \* the two ends of the connection
    link,       \* the connection of the server the client is attached to
    serving,    \* the restoration the reader of that connection handles
    working,    \* the request the worker of that connection handles
    login       \* history: the session the handler of a request created

clientVars ==
    <<connected, wire, atServer, st, outcome, restoring, cltSession, hook, panicked,
      answer, frameSession>>

serverVars ==
    <<sessionsEnabled, maxConns, up, dir, registry, session, open, files, pc, key,
      reply, wpc, sess, admin>>

vars == <<clientVars, serverVars, link, serving, working, login>>

\* The session the server holds for the connection of the client.
LinkSession == IF link = None THEN NoSession ELSE session[link]

S == INSTANCE ServerSessions

C == INSTANCE ClientDispatch
         WITH session <- cltSession, srvSession <- LinkSession,
              ErrCodes <- {}, Payloads <- {<<>>}, BadJson <- {}, BadFrames <- {},
              NoCode <- None

TypeOK ==
    /\ C!TypeOK /\ S!TypeOK
    /\ link \in Conns \cup {None}
    /\ serving \in C!ReqIds \cup {None}
    /\ working \in C!ReqIds \cup {None}
    /\ login \in [C!ReqIds -> Keys \cup {NoSession}]

Init ==
    /\ link = None /\ serving = None /\ working = None
    /\ login = [i \in C!ReqIds |-> NoSession]
    /\ S!Init /\ C!Init

-----------------------------------------------------------------------------
(* The client.                                                             *)

\* A step of the client alone.
Client(step) ==
    /\ UNCHANGED <<serverVars, link, serving, working, login>>
    /\ step

\* The identifier of a request that returned is taken again.
Recycle(i) ==
    /\ UNCHANGED <<serverVars, link, serving, working>>
    /\ login' = [login EXCEPT ![i] = NoSession]
    /\ C!Recycle(i)

\* The handshake: the server accepts a connection for the client.
Connect(c) ==
    /\ S!Connect(c)
    /\ link' = c
    /\ C!Connect
    /\ UNCHANGED <<serving, working, login>>

\* The client loses the connection; the server has not noticed yet, and
\* what it writes from now on reaches nobody.
ConnectionLost ==
    /\ UNCHANGED serverVars
    /\ link' = None /\ serving' = None /\ working' = None
    /\ C!Disconnect
    /\ UNCHANGED login

\* The read of the client fails because the server has closed its end.
ReadError == link # None /\ ~open[link] /\ ConnectionLost

\* The reader of the server gets the read error of a connection the client
\* has left.
ServerNotices(c) ==
    /\ c # link
    /\ S!Disconnect(c)
    /\ UNCHANGED <<clientVars, link, serving, working, login>>

-----------------------------------------------------------------------------
(* What the server writes to the connection.                               *)

\* failMsg: the type of the message for each error handleSessionRestore
\* fails a restoration with.
FailureType ==
    [SessionsDisabled    |-> "MsgSessionsDisabled",
     MaxSessConnsReached |-> "MsgMaxSessConnsReached",
     SessionNotFound     |-> "MsgSessionNotFound",
     ReplyInternalError  |-> "MsgReplyInternalError"]

\* What the caller of the restoration of k is to see of reply r.
Verdict(r, k) ==
    IF r = "ReplyUtf8"
    THEN C!Payload("Utf8", Json(k))
    ELSE C!Err([SessionsDisabled    |-> "SessionsDisabledErr",
                MaxSessConnsReached |-> "MaxSessConnsReachedErr",
                SessionNotFound     |-> "SessNotFoundErr",
                ReplyInternalError  |-> "ReqInternalErr"][r])

\* The frame of reply r to the restoration i of session k: fulfillMsg with
\* the encoded session, or failMsg.
ReplyMessage(r, i, k) ==
    IF r = "ReplyUtf8"
    THEN ReplyFrame("Utf8", i, Json(k))
    ELSE FailureFrame(FailureType[r], i)

\* The frame is written to the connection of the client, which takes it
\* when there is room.
Write(frame) ==
    /\ Len(wire) < MaxWire
    /\ wire' = Append(wire, frame)

\* Request i is answered with that frame.
Answered(i, frame, seen) ==
    /\ Write(frame)
    /\ answer' = [answer EXCEPT ![i] = seen]
    /\ atServer' = atServer \ {i}

unwritten == <<connected, st, outcome, restoring, cltSession, hook, panicked, frameSession>>

-----------------------------------------------------------------------------
(* The reader of a connection of the server: handleSessionRestore.         *)

RestorationUnanswered(c, i, step) ==
    /\ step
    /\ IF c = link /\ pc'[c] = "idle"
       THEN /\ IF reply'[c] = "SessionNotFound"
               THEN UNCHANGED <<wire, answer>> /\ atServer' = atServer \ {i}
               ELSE Answered(i, ReplyMessage(reply'[c], i, restoring[i]),
                             Verdict(reply'[c], restoring[i]))
            /\ serving' = None
       ELSE /\ UNCHANGED <<wire, answer, atServer>>
            /\ serving' = IF c = link THEN i ELSE serving
    /\ UNCHANGED <<unwritten, link, working, login>>

\* A step of handleSessionRestore on connection c that ends the handler
\* writes its reply, which reaches the client when c is its connection.
Restoration(c, i, step) ==
    /\ step
    /\ IF c = link /\ pc'[c] = "idle"
       THEN /\ Answered(i, ReplyMessage(reply'[c], i, restoring[i]),
                        Verdict(reply'[c], restoring[i]))
            /\ serving' = None
       ELSE /\ UNCHANGED <<wire, answer, atServer>>
            /\ serving' = IF c = link THEN i ELSE serving
    /\ UNCHANGED <<unwritten, link, working, login>>

\* The reader reads the restoration i the client sent.
RestoreArrives(i) ==
    /\ link # None /\ serving = None
    /\ i \in atServer /\ restoring[i] # NoSession
    /\ Restoration(link, i, S!RestoreDisabled(link) \/ S!RestoreCheck(link, restoring[i]))

RestoreStep(c) ==
    /\ c = link => serving # None
    /\ Restoration(c, serving,
                   S!ReaderStep(c))

-----------------------------------------------------------------------------
(* The worker of a request on the connection of the client.                *)

Request(i) == i \in atServer /\ restoring[i] = NoSession

\* The handler's reply.
Done == C!Payload("Binary", <<>>)

\* The handler of request i creates session k: CreateSession binds and
\* registers it and notifies the client, before OnSessionCreated.
HandlerCreates(i, k) ==
    /\ link # None /\ working = None /\ Request(i)
    /\ S!CreateBind(link, k)
    /\ Write(SessionCreatedFrame(Json(k)))
    /\ working' = i
    /\ login' = [login EXCEPT ![i] = k]
    /\ UNCHANGED <<unwritten, answer, atServer, link, serving>>

\* A step of OnSessionCreated; when it returns on the connection of the
\* client, so does the handler, and its reply is written.
Persist(c) ==
    /\ S!PersistRead(c) \/ S!PersistWrite(c)
    /\ IF c = link /\ working # None /\ wpc'[c] = "idle"
       THEN /\ Answered(working, ReplyFrame("Binary", working, <<>>), Done)
            /\ working' = None
       ELSE UNCHANGED <<wire, answer, atServer, working>>
    /\ UNCHANGED <<unwritten, link, serving, login>>

\* The handler of request i returns without creating a session.
HandlerReplies(i) ==
    /\ link # None /\ open[link] /\ S!Running
    /\ working = None /\ Request(i)
    /\ Answered(i, ReplyFrame("Binary", i, <<>>), Done)
    /\ UNCHANGED <<unwritten, serverVars, link, serving, working, login>>

-----------------------------------------------------------------------------
(* server.CloseSession, and the server process.                            *)

CloseSessionBegin(k) ==
    /\ S!CloseSessionBegin(k)
    /\ UNCHANGED <<clientVars, link, serving, working, login>>

\* connection.CloseSession tells the client when it closed a session.
CloseSessionNext(c) ==
    /\ S!CloseSessionNext(c)
    /\ IF c = link /\ session[c] # NoSession
       THEN Write(SessionClosedFrame)
       ELSE UNCHANGED wire
    /\ UNCHANGED <<unwritten, answer, atServer, link, serving, working, login>>

NewDefaultSessionManager ==
    /\ S!NewDefaultSessionManager
    /\ UNCHANGED <<clientVars, link, serving, working, login>>

\* The server process ends; the client has yet to find out.
Exit ==
    /\ S!Exit
    /\ serving' = None /\ working' = None
    /\ UNCHANGED <<clientVars, link, login>>

\* A process that panicked ends.
PanicExit == S!Crashed /\ Exit

-----------------------------------------------------------------------------

Next ==
    \/ Client(C!handleMessage) \/ ConnectionLost \/ ReadError
    \/ NewDefaultSessionManager \/ Exit \/ PanicExit
    \/ \E k \in Keys \cup {NoSession} : Client(C!Submit(k))
    \/ \E i \in C!ReqIds :
          \/ Client(C!Timeout(i)) \/ Client(C!RestorePublish(i)) \/ Recycle(i)
          \/ RestoreArrives(i) \/ HandlerReplies(i)
          \/ \E k \in Keys : HandlerCreates(i, k)
    \/ \E c \in Conns :
          \/ Connect(c) \/ ServerNotices(c)
          \/ RestoreStep(c) \/ Persist(c) \/ CloseSessionNext(c)
    \/ \E k \in Keys : CloseSessionBegin(k)

Spec == Init /\ [][Next]_vars

\* The readers of both ends and the workers of the server are scheduled,
\* the file system answers, a read on a connection the server closed
\* fails, and a process that panicked ends.
FairSpec ==
    /\ Spec
    /\ WF_vars(Client(C!handleMessage))
    /\ WF_vars(ReadError)
    /\ WF_vars(PanicExit)
    /\ \A i \in C!ReqIds : WF_vars(RestoreArrives(i)) /\ WF_vars(HandlerReplies(i))
    /\ \A c \in Conns : WF_vars(RestoreStep(c)) /\ WF_vars(Persist(c))

-----------------------------------------------------------------------------
(* Properties.                                                             *)

\* From the handler of the server to the caller of the client: a call
\* returns once, with what handleSessionRestore or the request handler
\* decided for that very request (failMsg and fulfillMsg on one side,
\* handleMessage and its handlers on the other), or with the error of its
\* timeout or of the lost connection; what the server writes to a connection
\* the client has left, or for a request that was given up, ends no call.
CallerSeesAnswer == C!CallerSeesAnswer

\* No call waits for its deadline in vain: a request or a restoration that
\* was sent returns with the answer of the server, or with DisconnectedErr
\* when the server ended, whatever the two readers, the worker,
\* server.CloseSession and the session files do in between.
CallReturns ==
    \A i \in C!ReqIds : st[i] = "pending" ~> st[i] # "pending"

\* When the request that logged the client in returns with its reply, the
\* client has the session: CreateSession writes MsgSessionCreated before
\* the handler's reply, the reader of the client takes the frames in that
\* order, and handleSessionCreated has set clt.session before handleReply
\* wakes the caller.  The client has no session then only if the server
\* closed it in between and handleSessionClosed was the last hook to run.
LoggedInOnReturn ==
    [][\A i \in C!ReqIds :
          st[i] = "pending" /\ outcome'[i] = Done /\ login[i] # NoSession
              => \/ cltSession' = login[i]
                 \/ cltSession' = NoSession /\ hook'.name = "OnSessionClosed"]_vars

=============================================================================
