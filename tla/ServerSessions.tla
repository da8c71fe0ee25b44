--------------------------- MODULE ServerSessions ---------------------------
(***************************************************************************)
(* The session side of the webwire server: the session registry, the       *)
(* session pointer of every connection, the session files of the default   *)
(* session manager, and the three parties that change them concurrently:   *)
(*                                                                         *)
(*   - the reader goroutine of a connection, which runs                    *)
(*     handleSessionRestore and the client's session closure inline;       *)
(*   - a user handler (worker goroutine) of a connection, which calls      *)
(*     CreateSession;                                                      *)
(*   - a caller of server.CloseSession(key), which copies the bucket of a  *)
(*     key and then closes the session of every connection of the copy.    *)
(*                                                                         *)
(* The server is a process over a session directory: it is started by     *)
(* NewDefaultSessionManager, ends by a panic or from outside, and is       *)
(* started again over the files it left.                                   *)
(*                                                                         *)
(* A step of the model is one critical section or one file-system call of  *)
(* the code; what a goroutine does between two of them with its own local  *)
(* variables belongs to the step before.  A session is abstracted to its   *)
(* key, and the creation time and info of a session file to the key of     *)
(* the session they were taken from.                                       *)
(***************************************************************************)
EXTENDS Integers, FiniteSets, TLC

CONSTANTS
    Conns,      \* connection objects of the server
    Keys,       \* session keys
    Caps,       \* the values of ServerOptions.MaxSessionConnections, 0 = unlimited
    NoSession   \* the nil session pointer, and the empty key

ASSUME /\ IsFiniteSet(Conns) /\ IsFiniteSet(Keys)
       /\ Caps \subseteq Nat /\ Caps # {}
       /\ NoSession \notin Keys

VARIABLES
    sessionsEnabled,  \* server.sessionsEnabled, fixed when the server is built
    maxConns,         \* sessionRegistry.maxConns, fixed when the server is built
    up,               \* the server process runs
    dir,              \* the session directory exists
    registry,         \* sessionRegistry: key |-> set of connections, no entry = no bucket
    session,          \* connection.session, by key
    open,             \* the connection's reader goroutine is reading its socket
    files,            \* session files: key of the name |-> session of the contents
    pc,               \* where the reader of a connection is in handleSessionRestore
    key,              \* the key that reader is restoring
    reply,            \* the last reply written for a restore on the connection
    wpc,              \* where the user handler of a connection is in CreateSession
    sess,             \* the session that handler read in OnSessionCreated
    admin             \* the local variables of the server.CloseSession call in progress

vars == <<sessionsEnabled, maxConns, up, dir, registry, session, open, files, pc, key,
          reply, wpc, sess, admin>>

\* What no step of a running server changes.
fixed == <<sessionsEnabled, maxConns, up, dir>>

Replies == {"None", "SessionsDisabled", "MaxSessConnsReached", "SessionNotFound",
            "ReplyInternalError", "ReplyUtf8"}

\* No call of server.CloseSession is in progress.  What a call returns (the
\* connections of the copy, and the errors of their closures with their
\* number) is not kept: nothing in the server depends on it.
AdminIdle == [pc |-> "idle", key |-> NoSession, todo |-> {}]

TypeOK ==
    /\ sessionsEnabled \in BOOLEAN /\ maxConns \in Caps
    /\ up \in BOOLEAN /\ dir \in BOOLEAN
    /\ DOMAIN registry \subseteq Keys
    /\ \A k \in DOMAIN registry : registry[k] \in SUBSET Conns
    /\ session \in [Conns -> Keys \cup {NoSession}]
    /\ open \in [Conns -> BOOLEAN]
    /\ DOMAIN files \subseteq Keys \cup {NoSession}
    /\ \A n \in DOMAIN files : files[n] \in Keys
    /\ pc \in [Conns -> {"idle", "stat", "parse", "bind", "register", "panicked"}]
    /\ key \in [Conns -> Keys \cup {NoSession}]
    /\ reply \in [Conns -> Replies]
    /\ wpc \in [Conns -> {"idle", "read", "write", "panicked"}]
    /\ sess \in [Conns -> Keys \cup {NoSession}]
    /\ admin \in [pc : {"idle", "closing"}, key : Keys \cup {NoSession},
                  todo : SUBSET Conns]

Init ==
    /\ sessionsEnabled \in BOOLEAN /\ maxConns \in Caps
    /\ up = FALSE /\ dir \in BOOLEAN
    /\ files = <<>>
    /\ registry = <<>>
    /\ session = [c \in Conns |-> NoSession]
    /\ open = [c \in Conns |-> FALSE]
    /\ pc = [c \in Conns |-> "idle"]
    /\ key = [c \in Conns |-> NoSession]
    /\ reply = [c \in Conns |-> "None"]
    /\ wpc = [c \in Conns |-> "idle"]
    /\ sess = [c \in Conns |-> NoSession]
    /\ admin = AdminIdle

-----------------------------------------------------------------------------
(* The session registry.                                                   *)

\* -1 when the key has no bucket, else the size of the bucket.
sessionConnectionsNum(k) ==
    IF k \in DOMAIN registry THEN Cardinality(registry[k]) ELSE -1

ActiveSessionsNum == Cardinality(DOMAIN registry)

\* register(conn) fails when the bucket of the connection's key is at capacity.
CanRegister(k) ==
    ~(k \in DOMAIN registry /\ maxConns > 0 /\ Cardinality(registry[k]) >= maxConns)

Registered(c, k) ==
    (k :> ((IF k \in DOMAIN registry THEN registry[k] ELSE {}) \cup {c})) @@ registry

\* deregister(conn): out of the bucket of its session's key, and the bucket
\* erased when that leaves it empty.
Deregistered(c) ==
    LET k == session[c] IN
    IF k \notin DOMAIN registry THEN registry
    ELSE IF registry[k] \subseteq {c}
         THEN [x \in DOMAIN registry \ {k} |-> registry[x]]
         ELSE [registry EXCEPT ![k] = @ \ {c}]

-----------------------------------------------------------------------------
(* The default session manager: one file per session, named by the key.    *)

filePath(k) == k

SessionFileExists(k) == filePath(k) \in DOMAIN files

\* Parse can read the file of that name.
Readable(name) == name \in DOMAIN files

\* WriteFile creates or truncates the file of that name.
WriteFile(name, data) == (name :> data) @@ files

OnSessionClosedRemoves(c) ==
    [n \in DOMAIN files \ {filePath(session[c])} |-> files[n]]

\* NewDefaultSessionManager: a missing directory is created, and the error
\* of the os.Stat that found it missing is then taken for the error of
\* os.MkdirAll; any other error of os.Stat panics as well.
NewDefaultSessionManager ==
    /\ ~up
    /\ \/ ~dir /\ dir' \in BOOLEAN /\ UNCHANGED up
       \/ dir /\ up' \in BOOLEAN /\ UNCHANGED dir
    /\ UNCHANGED <<sessionsEnabled, maxConns, registry, session, open, files, pc, key,
                   reply, wpc, sess, admin>>

-----------------------------------------------------------------------------
(* The connection.                                                         *)

Crashed == \E c \in Conns : pc[c] = "panicked" \/ wpc[c] = "panicked"

\* A panic stops every goroutine of the server.
Running == up /\ ~Crashed

Ready(c) == open[c] /\ pc[c] = "idle"

\* setSession: the previous session leaves the registry, the pointer is replaced.
setSession(c, k) ==
    /\ registry' = Deregistered(c)
    /\ session' = [session EXCEPT ![c] = k]

\* connection.CloseSession: nothing without a session; else the connection
\* leaves the registry, OnSessionClosed removes the file, the pointer is nil.
CloseSessionOf(c) ==
    IF session[c] = NoSession
    THEN UNCHANGED <<registry, files, session>>
    ELSE /\ registry' = Deregistered(c)
         /\ files' = OnSessionClosedRemoves(c)
         /\ session' = [session EXCEPT ![c] = NoSession]

Connect(c) ==
    /\ Running
    /\ ~open[c] /\ wpc[c] = "idle" /\ c \notin admin.todo
    /\ open' = [open EXCEPT ![c] = TRUE]
    /\ session' = [session EXCEPT ![c] = NoSession]
    /\ reply' = [reply EXCEPT ![c] = "None"]
    /\ UNCHANGED <<fixed, registry, files, pc, key, wpc, sess, admin>>

Disconnect(c) ==
    /\ Running
    /\ Ready(c)
    /\ open' = [open EXCEPT ![c] = FALSE]
    /\ registry' = Deregistered(c)
    /\ UNCHANGED <<fixed, session, files, pc, key, reply, wpc, sess, admin>>

ClientClosesSession(c) ==
    /\ Running
    /\ Ready(c) /\ session[c] # NoSession
    /\ CloseSessionOf(c)
    /\ UNCHANGED <<fixed, open, pc, key, reply, wpc, sess, admin>>

-----------------------------------------------------------------------------
(* handleSessionRestore, on the reader goroutine of connection c.          *)

Answer(c, r) ==
    /\ reply' = [reply EXCEPT ![c] = r]
    /\ pc' = [pc EXCEPT ![c] = "idle"]
    /\ key' = [key EXCEPT ![c] = NoSession]

RestoreDisabled(c) ==
    /\ Running
    /\ Ready(c) /\ ~sessionsEnabled
    /\ Answer(c, "SessionsDisabled")
    /\ UNCHANGED <<fixed, registry, session, open, files, wpc, sess, admin>>

\* The bound the handler checks before it looks the session up.
RestoreRefused(k) ==
    /\ sessionConnectionsNum(k) >= 0
    /\ maxConns > 0
    /\ sessionConnectionsNum(k) + 1 > maxConns

RestoreCheck(c, k) ==
    /\ Running
    /\ Ready(c) /\ sessionsEnabled
    /\ \/ RestoreRefused(k) /\ Answer(c, "MaxSessConnsReached")
       \/ /\ ~RestoreRefused(k)
          /\ pc' = [pc EXCEPT ![c] = "stat"]
          /\ key' = [key EXCEPT ![c] = k]
          /\ reply' = [reply EXCEPT ![c] = "None"]
    /\ UNCHANGED <<fixed, registry, session, open, files, wpc, sess, admin>>

\* OnSessionLookup, first half: os.Stat of the session file.
LookupStat(c) ==
    /\ Running
    /\ pc[c] = "stat"
    /\ \/ ~SessionFileExists(key[c]) /\ Answer(c, "SessionNotFound")
       \/ Answer(c, "ReplyInternalError")
       \/ /\ SessionFileExists(key[c])
          /\ pc' = [pc EXCEPT ![c] = "parse"]
          /\ UNCHANGED <<key, reply>>
    /\ UNCHANGED <<fixed, registry, session, open, files, wpc, sess, admin>>

LookupParseTrustsStat(c) ==
    /\ Running
    /\ pc[c] = "parse"
    /\ pc' = [pc EXCEPT ![c] = "bind"]
    /\ UNCHANGED <<fixed, registry, session, open, files, key, reply, wpc, sess, admin>>

\* OnSessionLookup, second half: the file is read and parsed, which may
\* fail; a file removed since the Stat cannot be read.
LookupParse(c) ==
    /\ Running
    /\ pc[c] = "parse"
    /\ \/ Answer(c, "ReplyInternalError")
       \/ /\ Readable(filePath(key[c]))
          /\ pc' = [pc EXCEPT ![c] = "bind"]
          /\ UNCHANGED <<key, reply>>
    /\ UNCHANGED <<fixed, registry, session, open, files, wpc, sess, admin>>

RestoreBindKeepsBucket(c) ==
    /\ Running
    /\ pc[c] = "bind"
    /\ session' = [session EXCEPT ![c] = key[c]]
    /\ pc' = [pc EXCEPT ![c] = "register"]
    /\ UNCHANGED <<fixed, registry, open, files, key, reply, wpc, sess, admin>>

\* The session found is encoded for the reply, which may fail, and then
\* becomes the session of the connection.
RestoreBind(c) ==
    /\ Running
    /\ pc[c] = "bind"
    /\ \/ /\ Answer(c, "ReplyInternalError")
          /\ UNCHANGED <<registry, session>>
       \/ /\ setSession(c, key[c])
          /\ pc' = [pc EXCEPT ![c] = "register"]
          /\ UNCHANGED <<key, reply>>
    /\ UNCHANGED <<fixed, open, files, wpc, sess, admin>>

RestoreRegisterForgets(c) ==
    /\ Running
    /\ pc[c] = "register"
    /\ Answer(c, "ReplyUtf8")
    /\ UNCHANGED <<fixed, registry, session, open, files, wpc, sess, admin>>

RestoreRegisterUnchecked(c) ==
    /\ Running
    /\ pc[c] = "register"
    /\ registry' = Registered(c, session[c])
    /\ Answer(c, "ReplyUtf8")
    /\ UNCHANGED <<fixed, session, open, files, wpc, sess, admin>>

\* register(con) takes the key from the connection's session as it is now;
\* the handler panics when it fails.
RestoreRegister(c) ==
    /\ Running
    /\ pc[c] = "register"
    /\ \/ /\ session[c] # NoSession /\ CanRegister(session[c])
          /\ registry' = Registered(c, session[c])
          /\ Answer(c, "ReplyUtf8")
       \/ /\ session[c] = NoSession \/ ~CanRegister(session[c])
          /\ pc' = [pc EXCEPT ![c] = "panicked"]
          /\ UNCHANGED <<registry, key, reply>>
    /\ UNCHANGED <<fixed, session, open, files, wpc, sess, admin>>

-----------------------------------------------------------------------------
(* CreateSession, on a user handler of connection c.                       *)

\* The key generator never returns a key the server still holds anywhere.
Fresh(k) ==
    /\ k \notin DOMAIN files \cup DOMAIN registry \cup {admin.key}
    /\ \A n \in DOMAIN files : files[n] # k
    /\ \A c \in Conns : k \notin {session[c], key[c], sess[c]}

CreateBind(c, k) ==
    /\ Running
    /\ sessionsEnabled /\ open[c] /\ wpc[c] = "idle" /\ Fresh(k)
    /\ session[c] = NoSession
    /\ session' = [session EXCEPT ![c] = k]
    /\ registry' = Registered(c, k)
    /\ wpc' = [wpc EXCEPT ![c] = "read"]
    /\ UNCHANGED <<fixed, open, files, pc, key, reply, sess, admin>>

\* OnSessionCreated reads the session back from the connection: a nil
\* pointer is dereferenced, any other session is what will be written.
PersistRead(c) ==
    /\ Running
    /\ wpc[c] = "read"
    /\ \/ /\ session[c] = NoSession
          /\ wpc' = [wpc EXCEPT ![c] = "panicked"]
          /\ UNCHANGED sess
       \/ /\ session[c] # NoSession
          /\ wpc' = [wpc EXCEPT ![c] = "write"]
          /\ sess' = [sess EXCEPT ![c] = session[c]]
    /\ UNCHANGED <<fixed, registry, session, open, files, pc, key, reply, admin>>

\* OnSessionCreated writes what it read to the file named by the key the
\* connection has now, which it reads a second time; the write may fail.
PersistWrite(c) ==
    /\ Running
    /\ wpc[c] = "write"
    /\ files' \in {WriteFile(filePath(session[c]), sess[c]), files}
    /\ wpc' = [wpc EXCEPT ![c] = "idle"]
    /\ sess' = [sess EXCEPT ![c] = NoSession]
    /\ UNCHANGED <<fixed, registry, session, open, pc, key, reply, admin>>

-----------------------------------------------------------------------------
(* server.CloseSession(k).                                                 *)

sessionConnections(k) == IF k \in DOMAIN registry THEN registry[k] ELSE {}

CloseSessionBegin(k) ==
    /\ Running
    /\ admin.pc = "idle"
    /\ admin' = IF sessionConnections(k) = {}
                THEN AdminIdle
                ELSE [pc |-> "closing", key |-> k, todo |-> sessionConnections(k)]
    /\ UNCHANGED <<fixed, registry, session, open, files, pc, key, reply, wpc, sess>>

\* One iteration of the loop over the copy; the last one returns.
CloseSessionNext(c) ==
    /\ Running
    /\ admin.pc = "closing" /\ c \in admin.todo
    /\ CloseSessionOf(c)
    /\ admin' = IF admin.todo = {c} THEN AdminIdle ELSE [admin EXCEPT !.todo = @ \ {c}]
    /\ UNCHANGED <<fixed, open, pc, key, reply, wpc, sess>>

-----------------------------------------------------------------------------

\* The server process ends, by a panic or from outside: its memory and its
\* connections are gone, the session directory stays as it is.
Exit ==
    /\ up
    /\ up' = FALSE
    /\ registry' = <<>>
    /\ session' = [c \in Conns |-> NoSession]
    /\ open' = [c \in Conns |-> FALSE]
    /\ pc' = [c \in Conns |-> "idle"]
    /\ key' = [c \in Conns |-> NoSession]
    /\ reply' = [c \in Conns |-> "None"]
    /\ wpc' = [c \in Conns |-> "idle"]
    /\ sess' = [c \in Conns |-> NoSession]
    /\ admin' = AdminIdle
    /\ UNCHANGED <<sessionsEnabled, maxConns, dir, files>>

Next ==
    \/ NewDefaultSessionManager
    \/ Exit
    \/ \E c \in Conns :
          \/ Connect(c) \/ Disconnect(c) \/ ClientClosesSession(c)
          \/ RestoreDisabled(c) \/ LookupStat(c) \/ LookupParse(c)
          \/ RestoreBind(c) \/ RestoreRegister(c)
          \/ PersistRead(c) \/ PersistWrite(c) \/ CloseSessionNext(c)
          \/ \E k \in Keys : RestoreCheck(c, k) \/ CreateBind(c, k)
    \/ \E k \in Keys : CloseSessionBegin(k)

Spec == Init /\ [][Next]_vars

\* The steps of a restore under way on the reader goroutine of a connection.
ReaderStep(c) ==
    LookupStat(c) \/ LookupParse(c) \/ RestoreBind(c) \/ RestoreRegister(c)

-----------------------------------------------------------------------------
(* Properties.                                                             *)

\* The registry never lists a connection under a key that is not the key of
\* its session, never lists a closed connection and never keeps an empty
\* bucket: setSession takes a connection out of the bucket of the session it
\* replaces, whoever replaces it (restore, CreateSession, either CloseSession)
\* and in whatever order the goroutines of the connection run.
RegistryConsistent ==
    \A k \in DOMAIN registry :
        /\ registry[k] # {}
        /\ \A c \in registry[k] : open[c] /\ session[c] = k

\* An open connection with a session is in the bucket of that session's key,
\* except between setSession and register of a restore (lines 74 and 80 of
\* handleSessionRestore are two critical sections): sessionConnections and
\* server.CloseSession find every connection that holds the session.
BoundIsRegistered ==
    \A c \in Conns :
        open[c] /\ session[c] # NoSession /\ pc[c] \notin {"register", "panicked"}
            => session[c] \in DOMAIN registry /\ c \in registry[session[c]]

\* No session ever has more than maxConns connections, however restores of
\* the same key by several connections interleave: register refuses under the
\* registry lock what the unlocked check of handleSessionRestore let through.
CapRespected ==
    maxConns > 0 => \A k \in DOMAIN registry : Cardinality(registry[k]) <= maxConns

\* What handleSessionRestore takes for granted when it panics with "The
\* number of concurrent session connections was unexpectedly exceeded":
\* register cannot fail after the check of sessionConnectionsNum passed.
RegisterAfterCheckSucceeds ==
    \A c \in Conns : pc[c] # "panicked"

\* server.CloseSession(key) closes the session with that key and no other:
\* a connection of the copied bucket whose session it closes still holds
\* the session the caller named.
CloseSessionClosesItsKey ==
    [][\A c \in Conns :
          CloseSessionNext(c) => session[c] \in {admin.key, NoSession}]_vars

\* Nothing of session k is left: no file, no connection that holds it, no
\* restore that found it.
Closed(k) ==
    /\ ~SessionFileExists(k)
    /\ \A c \in Conns : session[c] # k /\ ~(pc[c] \in {"bind", "register"} /\ key[c] = k)

\* A session that was closed, or never was, comes into being by
\* CreateSession only.  A restore brings back a closed session in one case,
\* the closure between the successful OnSessionLookup of line 31 and the
\* setSession of line 74 of handleSessionRestore; a closure before or during
\* the lookup is seen by the lookup, whose Parse reads the file again
\* after the Stat, and no restore, OnSessionCreated of a connection that
\* changed its session, or restart over the directory brings a session back.
ClosedSessionStaysClosed ==
    [][\A k \in Keys :
          Closed(k) /\ ~Closed(k)'
              => \E c \in Conns : wpc[c] = "idle" /\ wpc'[c] = "read" /\ session'[c] = k]_vars

\* What the comment of NewDefaultSessionManager says: it "verifies the
\* existence of the given session directory and creates it if it doesn't
\* exist yet".  A start that finds no directory and creates it returns a
\* session manager, and the server runs.
StartCreatesDirectory ==
    [][~up /\ ~dir /\ dir' => up']_vars

\* The file of a session key holds the creation time and the info of that
\* session: OnSessionLookup answers a restore of a key with the contents of
\* the file of that name, and OnSessionCreated takes the contents and the
\* name from two reads of connection.session with no lock held between
\* them.  (A closure between the two reads leaves a file of the empty key.)
FileHoldsItsSession ==
    \A k \in DOMAIN files \cap Keys : files[k] = k

=============================================================================
