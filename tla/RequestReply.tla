---------------------------- MODULE RequestReply ----------------------------
(***************************************************************************)
(* What a webwire client promises the caller of a request: the call ends   *)
(* exactly once, with what the server answered to that very request, or    *)
(* with the error of a timeout or of a lost connection.  The first of      *)
(* these to happen decides; whatever comes later changes nothing.          *)
(***************************************************************************)
CONSTANTS
    Ids,       \* identifiers of requests
    Answers,   \* what a server may answer, as its caller is to see it
    Gone,      \* the errors of a request no answer ended
    None       \* no answer, no outcome

VARIABLES
    status,    \* of each request: "unused", "pending", "done"
    outcome,   \* what the call returned
    answer     \* what the server answered

vars == <<status, outcome, answer>>

TypeOK ==
    /\ status \in [Ids -> {"unused", "pending", "done"}]
    /\ outcome \in [Ids -> Answers \cup Gone \cup {None}]
    /\ answer \in [Ids -> Answers \cup {None}]

Init ==
    /\ status = [i \in Ids |-> "unused"]
    /\ outcome = [i \in Ids |-> None]
    /\ answer = [i \in Ids |-> None]

\* The request is on its way and the caller waits.
Submit(i) ==
    /\ status[i] = "unused"
    /\ status' = [status EXCEPT ![i] = "pending"]
    /\ UNCHANGED <<outcome, answer>>

\* The request never leaves the client.
Reject(i) ==
    /\ status[i] = "unused"
    /\ status' = [status EXCEPT ![i] = "done"]
    /\ \E e \in Gone : outcome' = [outcome EXCEPT ![i] = e]
    /\ UNCHANGED answer

\* The server answers a request it received, once, whether or not its
\* caller still waits.
Answer(i) ==
    /\ status[i] # "unused" /\ answer[i] = None
    /\ \E a \in Answers : answer' = [answer EXCEPT ![i] = a]
    /\ UNCHANGED <<status, outcome>>

\* The caller gets the answer to its request.
Deliver(i) ==
    /\ status[i] = "pending" /\ answer[i] # None
    /\ status' = [status EXCEPT ![i] = "done"]
    /\ outcome' = [outcome EXCEPT ![i] = answer[i]]
    /\ UNCHANGED answer

\* The callers of S stop waiting: one whose deadline passed, or all that
\* waited when the connection was lost.
Abandon(S) ==
    /\ S # {} /\ \A i \in S : status[i] = "pending"
    /\ \E e \in Gone :
          /\ status' = [i \in Ids |-> IF i \in S THEN "done" ELSE status[i]]
          /\ outcome' = [i \in Ids |-> IF i \in S THEN e ELSE outcome[i]]
    /\ UNCHANGED answer

\* The identifier of a call that returned is taken for a later request.
Retire(i) ==
    /\ status[i] = "done"
    /\ status' = [status EXCEPT ![i] = "unused"]
    /\ outcome' = [outcome EXCEPT ![i] = None]
    /\ answer' = [answer EXCEPT ![i] = None]

Next ==
    \/ \E i \in Ids : Submit(i) \/ Reject(i) \/ Answer(i) \/ Deliver(i) \/ Retire(i)
    \/ \E S \in SUBSET Ids : Abandon(S)

Spec == Init /\ [][Next]_vars

=============================================================================
