---------------------------- MODULE ShutdownGate ----------------------------
(***************************************************************************)
(* Graceful shutdown of the webwire server: server.Shutdown, the counter   *)
(* of handlers in progress it waits on, and the gate every incoming        *)
(* message and every new connection passes.                                *)
(*                                                                         *)
(* server.Shutdown sets the shutdown flag and reads currentOps in one      *)
(* critical section of opsLock, waits on shutdownRdy when handlers are in  *)
(* progress, and then shuts the HTTP server down.  A message takes its     *)
(* place in currentOps, or is turned away, in one critical section; the    *)
(* handler that brings the counter back to zero under a set flag signals   *)
(* shutdownRdy.  Handlers run outside the lock, so any number of them and  *)
(* any number of Shutdown calls interleave.                                *)
(***************************************************************************)
EXTENDS Naturals, FiniteSets

CONSTANTS
    Requests,       \* request messages a client may send
    Signals,        \* signal messages a client may send
    Callers,        \* goroutines that call server.Shutdown
    Peers,          \* clients that try to connect
    CounterModulus  \* number of values of currentOps (2^32 in the code)

Ops == Requests \cup Signals

ASSUME /\ IsFiniteSet(Ops) /\ IsFiniteSet(Callers) /\ IsFiniteSet(Peers)
       /\ Requests \cap Signals = {}
       /\ CounterModulus \in Nat /\ CounterModulus > Cardinality(Ops)

VARIABLES
    shutdown,     \* server.shutdown
    currentOps,   \* server.currentOps
    shutdownRdy,  \* server.shutdownRdy has been closed
    httpServer,   \* "none" for a headless server, else what Serve is doing
    connected,    \* peers with an upgraded connection
    running,      \* messages whose handler is in progress
    outcome,      \* what became of the last message of each kind
    pc,           \* where each caller is in Shutdown
    result        \* what Shutdown returned to each caller

vars == <<shutdown, currentOps, shutdownRdy, httpServer, connected, running,
          outcome, pc, result>>

TypeOK ==
    /\ shutdown \in BOOLEAN
    /\ currentOps \in 0..Cardinality(Ops)
    /\ shutdownRdy \in BOOLEAN
    /\ httpServer \in {"none", "idle", "serving", "closed", "failed"}
    /\ connected \subseteq Peers
    /\ running \subseteq Ops
    /\ outcome \in [Ops -> {"none", "replied", "handled", "ReplyShutdown", "dropped"}]
    /\ pc \in [Callers -> {"idle", "await", "stop", "returned"}]
    /\ result \in [Callers -> {"none", "nil", "error"}]

Init ==
    /\ shutdown = FALSE
    /\ currentOps = 0
    /\ shutdownRdy = FALSE
    /\ httpServer \in {"none", "idle"}
    /\ connected = {}
    /\ running = {}
    /\ outcome = [o \in Ops |-> "none"]
    /\ pc = [p \in Callers |-> "idle"]
    /\ result = [p \in Callers |-> "none"]

-----------------------------------------------------------------------------
(* The HTTP server.                                                        *)

\* Run: Serve blocks until the server is shut down.
Run ==
    /\ httpServer = "idle"
    /\ httpServer' = "serving"
    /\ UNCHANGED <<shutdown, currentOps, shutdownRdy, connected, running, outcome, pc, result>>

\* Serve returns an error other than ErrServerClosed, and Run that error.
ServeFails ==
    /\ httpServer = "serving"
    /\ httpServer' = "failed"
    /\ UNCHANGED <<shutdown, currentOps, shutdownRdy, connected, running, outcome, pc, result>>

Accepting == httpServer \in {"none", "serving"} /\ ~shutdown

\* The upgrade of a new connection, refused once the flag is set.
Accept(peer) ==
    /\ Accepting /\ peer \notin connected
    /\ connected' = connected \cup {peer}
    /\ UNCHANGED <<shutdown, currentOps, shutdownRdy, httpServer, running, outcome, pc, result>>

Disconnect(peer) ==
    /\ peer \in connected
    /\ connected' = connected \ {peer}
    /\ UNCHANGED <<shutdown, currentOps, shutdownRdy, httpServer, running, outcome, pc, result>>

-----------------------------------------------------------------------------
(* The gate of incoming messages.                                          *)

\* A message read from a connection: turned away under the flag (a request
\* with MsgReplyShutdown, a signal silently), else counted and handled.
HandleMessage(o) ==
    /\ connected # {} /\ o \notin running
    /\ \/ /\ shutdown
          /\ outcome' = [outcome EXCEPT
                           ![o] = IF o \in Requests THEN "ReplyShutdown" ELSE "dropped"]
          /\ UNCHANGED <<currentOps, running>>
       \/ /\ ~shutdown
          /\ currentOps' = (currentOps + 1) % CounterModulus
          /\ running' = running \cup {o}
          /\ outcome' = [outcome EXCEPT ![o] = "none"]
    /\ UNCHANGED <<shutdown, shutdownRdy, httpServer, connected, pc, result>>

HandlerDoneTwice(o) ==
    /\ o \in running
    /\ running' = running \ {o}
    /\ outcome' = [outcome EXCEPT ![o] = IF o \in Requests THEN "replied" ELSE "handled"]
    /\ currentOps' = (currentOps + CounterModulus - 2) % CounterModulus
    /\ shutdownRdy' = (shutdownRdy \/ (shutdown /\ currentOps' = 0))
    /\ UNCHANGED <<shutdown, httpServer, connected, pc, result>>

\* The handler returns: the counter goes down and the last handler under
\* the flag signals shutdownRdy.
HandlerDone(o) ==
    /\ o \in running
    /\ running' = running \ {o}
    /\ outcome' = [outcome EXCEPT ![o] = IF o \in Requests THEN "replied" ELSE "handled"]
    /\ currentOps' = (currentOps + CounterModulus - 1) % CounterModulus
    /\ shutdownRdy' = (shutdownRdy \/ (shutdown /\ currentOps' = 0))
    /\ UNCHANGED <<shutdown, httpServer, connected, pc, result>>

-----------------------------------------------------------------------------
(* server.Shutdown, called by p.                                           *)

ShutdownBeginNoFlag(p) ==
    /\ pc[p] = "idle"
    /\ pc' = [pc EXCEPT ![p] = IF currentOps < 1 THEN "stop" ELSE "await"]
    /\ UNCHANGED <<shutdown, currentOps, shutdownRdy, httpServer, connected, running,
                   outcome, result>>

ShutdownBeginAlwaysWaits(p) ==
    /\ pc[p] = "idle"
    /\ shutdown' = TRUE
    /\ pc' = [pc EXCEPT ![p] = "await"]
    /\ UNCHANGED <<currentOps, shutdownRdy, httpServer, connected, running, outcome, result>>

\* The critical section: the flag is set and the counter read.
ShutdownBegin(p) ==
    /\ pc[p] = "idle"
    /\ shutdown' = TRUE
    /\ pc' = [pc EXCEPT ![p] = IF currentOps < 1 THEN "stop" ELSE "await"]
    /\ UNCHANGED <<currentOps, shutdownRdy, httpServer, connected, running, outcome, result>>

ShutdownAwaitSkipped(p) ==
    /\ pc[p] = "await"
    /\ pc' = [pc EXCEPT ![p] = "stop"]
    /\ UNCHANGED <<shutdown, currentOps, shutdownRdy, httpServer, connected, running,
                   outcome, result>>

\* <-srv.shutdownRdy
ShutdownAwait(p) ==
    /\ pc[p] = "await" /\ shutdownRdy
    /\ pc' = [pc EXCEPT ![p] = "stop"]
    /\ UNCHANGED <<shutdown, currentOps, shutdownRdy, httpServer, connected, running,
                   outcome, result>>

\* shutdownHTTPServer: nothing to do for a headless server; else the
\* listener is closed, whether http.Server.Shutdown reports an error or not.
shutdownHTTPServer(p) ==
    /\ pc[p] = "stop"
    /\ pc' = [pc EXCEPT ![p] = "returned"]
    /\ \/ /\ httpServer = "none"
          /\ result' = [result EXCEPT ![p] = "nil"]
          /\ UNCHANGED httpServer
       \/ /\ httpServer # "none"
          /\ httpServer' = IF httpServer = "failed" THEN "failed" ELSE "closed"
          /\ \E r \in {"nil", "error"} : result' = [result EXCEPT ![p] = r]
    /\ UNCHANGED <<shutdown, currentOps, shutdownRdy, connected, running, outcome>>

-----------------------------------------------------------------------------

Next ==
    \/ Run \/ ServeFails
    \/ \E peer \in Peers : Accept(peer) \/ Disconnect(peer)
    \/ \E o \in Ops : HandleMessage(o) \/ HandlerDone(o)
    \/ \E p \in Callers : ShutdownBegin(p) \/ ShutdownAwait(p) \/ shutdownHTTPServer(p)

Spec == Init /\ [][Next]_vars

\* Handlers return, and a caller of Shutdown is scheduled.
FairSpec ==
    /\ Spec
    /\ \A o \in Ops : WF_vars(HandlerDone(o))
    /\ \A p \in Callers : WF_vars(ShutdownAwait(p) \/ shutdownHTTPServer(p))

-----------------------------------------------------------------------------
(* Properties.                                                             *)

ShutdownCalled == \E p \in Callers : pc[p] # "idle"

\* Shutdown stops the HTTP server, and returns, only when no handler is in
\* progress: a handler that started before the flag was set, or slipped in
\* between the reading of the counter and the wait, is waited for.
DrainedBeforeStop ==
    \A p \in Callers : pc[p] \in {"stop", "returned"} => running = {}

\* From the critical section of the first Shutdown on, no handler starts and
\* no connection is accepted: messages are turned away and upgrades refused
\* while the handlers in progress finish.
NothingStartsAfterShutdown ==
    [][ShutdownCalled => running' \subseteq running /\ connected' \subseteq connected]_vars

\* Every call of Shutdown returns once the handlers in progress have
\* returned: the signal of the last handler is not lost to a caller that
\* read the counter before it and waits after it, nor to a second caller.
ShutdownReturns ==
    \A p \in Callers : pc[p] # "idle" ~> pc[p] = "returned"

=============================================================================
