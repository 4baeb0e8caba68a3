------------------------------- MODULE ProxyStart -------------------------------
(***************************************************************************)
(* Many clients open the same qmi-proxy socket and find no proxy           *)
(* (openProxyTransport of pkg/qmi/proxy_transport_linux.go): one of them   *)
(* starts a process, the others wait for its attempt.  An attempt and the  *)
(* process it starts go by the name of the opener who owns them.           *)
(***************************************************************************)
EXTENDS FiniteSets

CONSTANTS Openers,   \* callers of openProxyTransport, each with a context of its own
          Others     \* proxies that something else may start

ProxyAssumption == Openers \cap Others = {} /\ "nobody" \notin Openers \cup Others

VARIABLES at,         \* where each opener is
          expired,    \* openers whose context has ended
          starting,   \* proxyStartAttempts: the owner of the attempt, or "nobody"
          waitsFor,   \* whose attempt an opener waits or has waited for, or "nobody"
          conn,       \* the process an opener is connected to, or "nobody"
          hurried,    \* openers who launched a process with their context ended
          process     \* the state of each proxy process

vars == <<at, expired, starting, waitsFor, conn, hurried, process>>

Owning   == {"check", "launch", "retry", "leave"}
Returned == {"open", "failed"}
Places   == {"dial", "claim", "wait", "redial"} \cup Owning \cup Returned

Processes == Openers \cup Others
Live == {p \in Processes : process[p] \in {"binding", "serving"}}
Serving == {p \in Processes : process[p] = "serving"}

Init ==
    /\ at = [o \in Openers |-> "dial"] /\ expired = {} /\ starting = "nobody"
    /\ waitsFor = [o \in Openers |-> "nobody"] /\ conn = [o \in Openers |-> "nobody"]
    /\ hurried = {} /\ process = [p \in Processes |-> "none"]

Goto(o, place) == at' = [at EXCEPT ![o] = place]

\* dialProxy: a socket is served by one process, and an ended context dials nobody.
Reachable(o) == Serving # {} /\ o \notin expired
Connect(o) == \E p \in Serving : conn' = [conn EXCEPT ![o] = p]

\* The first dial; the executable may be unavailable.
Dial(o) ==
    /\ at[o] = "dial"
    /\ \/ Reachable(o) /\ Connect(o) /\ Goto(o, "open")
       \/ ~Reachable(o) /\ (Goto(o, "claim") \/ Goto(o, "failed")) /\ UNCHANGED conn
    /\ UNCHANGED <<expired, starting, waitsFor, hurried, process>>

\* Mutant: every caller starts an attempt of its own.
ClaimForEach(o) ==
    /\ at[o] = "claim" /\ starting' = o /\ Goto(o, "check")
    /\ UNCHANGED <<expired, waitsFor, conn, hurried, process>>

\* The attempt for the socket is taken over, or waited for.
Claim(o) ==
    /\ at[o] = "claim"
    /\ IF starting = "nobody"
       THEN starting' = o /\ Goto(o, "check") /\ UNCHANGED waitsFor
       ELSE /\ Goto(o, "wait") /\ waitsFor' = [waitsFor EXCEPT ![o] = starting]
            /\ UNCHANGED starting
    /\ UNCHANGED <<expired, conn, hurried, process>>

\* Mutant: the owner trusts the first dial.
CheckNothing(o) ==
    /\ at[o] = "check" /\ Goto(o, "launch")
    /\ hurried' = hurried \cup ({o} \cap expired)
    /\ UNCHANGED <<expired, starting, waitsFor, conn, process>>

\* startProxyAndWait: the dial of the owner.
Check(o) ==
    /\ at[o] = "check"
    /\ \/ Reachable(o) /\ Connect(o) /\ Goto(o, "leave") /\ UNCHANGED hurried
       \/ /\ ~Reachable(o) /\ Goto(o, "launch")
          /\ hurried' = hurried \cup ({o} \cap expired) /\ UNCHANGED conn
    /\ UNCHANGED <<expired, starting, waitsFor, process>>

Launch(o) ==
    /\ at[o] = "launch"
    /\ \/ process' = [process EXCEPT ![o] = "binding"] /\ Goto(o, "retry")
       \/ Goto(o, "leave") /\ UNCHANGED process
    /\ UNCHANGED <<expired, starting, waitsFor, conn, hurried>>

\* A turn of the loop that dials until it succeeds or the context ends.
Retry(o) ==
    /\ at[o] = "retry" /\ Goto(o, "leave")
    /\ \/ Reachable(o) /\ Connect(o)
       \/ o \in expired /\ UNCHANGED conn
    /\ UNCHANGED <<expired, starting, waitsFor, hurried, process>>

\* Mutant: the entry of a failed attempt stays in the table.
LeaveOnSuccess(o) ==
    /\ at[o] = "leave"
    /\ starting' = IF conn[o] = "nobody" THEN starting ELSE "nobody"
    /\ Goto(o, IF conn[o] = "nobody" THEN "failed" ELSE "open")
    /\ UNCHANGED <<expired, waitsFor, conn, hurried, process>>

\* The attempt has its result and leaves the table.
Leave(o) ==
    /\ at[o] = "leave" /\ starting' = "nobody"
    /\ Goto(o, IF conn[o] = "nobody" THEN "failed" ELSE "open")
    /\ UNCHANGED <<expired, waitsFor, conn, hurried, process>>

\* waitForProxyStart: the attempt is done, with its owner's error for all, or the
\* context ends first.
Awaited(o) ==
    /\ at[o] = "wait"
    /\ \/ at[waitsFor[o]] = "open" /\ Goto(o, "redial")
       \/ at[waitsFor[o]] = "failed" /\ Goto(o, "failed")
       \/ o \in expired /\ Goto(o, "failed")
    /\ UNCHANGED <<expired, starting, waitsFor, conn, hurried, process>>

Redial(o) ==
    /\ at[o] = "redial"
    /\ IF Reachable(o)
       THEN Connect(o) /\ Goto(o, "open")
       ELSE Goto(o, "failed") /\ UNCHANGED conn
    /\ UNCHANGED <<expired, starting, waitsFor, hurried, process>>

Expire(o) ==
    /\ at[o] \notin Returned /\ expired' = expired \cup {o}
    /\ UNCHANGED <<at, starting, waitsFor, conn, hurried, process>>

\* The processes: one that finds the socket taken exits, and any may die.
Bind(p) ==
    /\ process[p] = "binding"
    /\ process' = [process EXCEPT ![p] = IF Serving = {} THEN "serving" ELSE "gone"]
    /\ UNCHANGED <<at, expired, starting, waitsFor, conn, hurried>>

Die(p) ==
    /\ p \in Live /\ process' = [process EXCEPT ![p] = "gone"]
    /\ UNCHANGED <<at, expired, starting, waitsFor, conn, hurried>>

StartedElsewhere(p) ==
    /\ process[p] = "none" /\ process' = [process EXCEPT ![p] = "binding"]
    /\ UNCHANGED <<at, expired, starting, waitsFor, conn, hurried>>

OpenStep(o) ==
    Dial(o) \/ Claim(o) \/ Check(o) \/ Launch(o) \/ Retry(o) \/ Leave(o) \/ Awaited(o) \/ Redial(o)

Next ==
    \/ \E o \in Openers : OpenStep(o) \/ Expire(o)
    \/ \E p \in Processes : Bind(p) \/ Die(p)
    \/ \E p \in Others : StartedElsewhere(p)

Spec == Init /\ [][Next]_vars

FairSpec ==
    /\ Spec
    /\ \A o \in Openers : WF_vars(OpenStep(o))
    /\ \A p \in Processes : WF_vars(Bind(p))

(***************************************************************************)
(* Properties.                                                             *)
(***************************************************************************)
ProxyTypeOK ==
    /\ at \in [Openers -> Places] /\ expired \subseteq Openers /\ hurried \subseteq Openers
    /\ starting \in Openers \cup {"nobody"}
    /\ waitsFor \in [Openers -> Openers \cup {"nobody"}]
    /\ conn \in [Openers -> Processes \cup {"nobody"}]
    /\ process \in [Processes -> {"none", "binding", "serving", "gone"}]

\* The attempt in the table is that of the one opener who works on it, and whoever waits
\* waits for this attempt or for one that has its result.
OneOwner ==
    /\ \A o \in Openers : at[o] \in Owning <=> starting = o
    /\ \A o \in Openers : at[o] = "wait" => waitsFor[o] = starting \/ at[waitsFor[o]] \in Returned

\* An attempt has left its process to itself: it ended without this process.
Abandoned(p) == at[p] \in Returned /\ conn[p] # p

\* Two openers have processes alive at once only if one of them launched it with its
\* context ended, whatever the dial would have found, or gave up before its process
\* served ("instead of each forking a proxy while the first is still binding").
NoForkBesides ==
    \A p, q \in Live \cap Openers : p # q => {p, q} \cap hurried # {} \/ Abandoned(p) \/ Abandoned(q)

\* An opener who waited fails only with the owner, by its own context, or for the loss
\* of the process the owner was connected to.
WaiterFailsWithReason ==
    \A o \in Openers :
        at[o] = "failed" /\ waitsFor[o] # "nobody" =>
            \/ o \in expired \/ at[waitsFor[o]] = "failed"
            \/ process[conn[waitsFor[o]]] = "gone"

\* What openProxyTransport promises the clients that open at once.
ProxyStartedOnce == ProxyTypeOK /\ OneOwner /\ NoForkBesides /\ WaiterFailsWithReason

\* Nobody waits for the attempt of another for ever while a proxy is there to connect to.
WaitersReturn ==
    \A o \in Openers : at[o] = "wait" ~> at[o] # "wait" \/ Live = {}
=================================================================================
