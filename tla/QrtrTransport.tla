------------------------------ MODULE QrtrTransport ------------------------------
(***************************************************************************)
(* The QRTR transport (pkg/qmi/qrtr_transport_linux.go): the control       *)
(* service is simulated by the transport itself, and each service has one  *)
(* client with a socket and a reader of its own.                           *)
(*                                                                         *)
(* Three kinds of goroutines: the client's writer, which runs Write and    *)
(* hence the simulated control requests; a reader per socket; Close.       *)
(***************************************************************************)
EXTENDS Integers, FiniteSets

CONSTANTS Services,      \* QRTR services
          MaxClients,    \* bound on the clients allocated
          QueueSize,     \* qrtrRxQueueSize
          MaxChanges     \* bound on servers coming and going

QrtrAssumption ==
    /\ Services # {}
    /\ MaxClients \in Nat /\ QueueSize \in Nat \ {0} /\ MaxChanges \in Nat

None == 0
Cids == 1 .. MaxClients

VARIABLES services,      \* services with a known server
          announced,     \* announcements the control reader has not read: service and whether new
          notifications, \* how often notifyCh was closed
          changes,
          clients,       \* per service the cid of its client, or None
          nextCID,
          open,          \* cids whose socket is open
          reader,        \* where the reader of each cid is: "none", "recv", "push" or "ended"
          queued,        \* frames in rxCh
          closeCh,       \* closeCh is closed
          closed,        \* t.closed
          closing,       \* where Close is
          pc,            \* where the writer is
          asking,        \* the service it allocates a client of
          waitsFor       \* the notification it waits to be superseded

vars == <<services, announced, notifications, changes, clients, nextCID, open, reader, queued,
          closeCh, closed, closing, pc, asking, waitsFor>>

Init ==
    /\ services = {} /\ announced = {} /\ notifications = 0 /\ changes = 0
    /\ clients = [s \in Services |-> None] /\ nextCID = 0
    /\ open = {} /\ reader = [c \in Cids |-> "none"]
    /\ queued = 0 /\ closeCh = FALSE /\ closed = FALSE /\ closing = "no"
    /\ pc = "idle" /\ asking = (CHOOSE s \in Services : TRUE) /\ waitsFor = 0

(***************************************************************************)
(* Servers come and go; the control reader notes it and wakes who waits.   *)
(***************************************************************************)
ServerChanges(s) ==
    /\ changes < MaxChanges
    /\ changes' = changes + 1
    /\ announced' = announced \union {[service |-> s, new |-> s \notin services]}
    /\ UNCHANGED <<services, notifications, clients, nextCID, open, reader, queued, closeCh, closed,
                   closing, pc, asking, waitsFor>>

\* Mutant: a new server wakes nobody.
NotesQuietly(a) ==
    /\ a \in announced /\ closing # "done"
    /\ announced' = announced \ {a}
    /\ services' = IF a.new THEN services \union {a.service} ELSE services \ {a.service}
    /\ UNCHANGED <<notifications, changes, clients, nextCID, open, reader, queued, closeCh, closed,
                   closing, pc, asking, waitsFor>>

\* runCtrlReader
Notes(a) ==
    /\ a \in announced /\ closing # "done"
    /\ announced' = announced \ {a}
    /\ services' = IF a.new THEN services \union {a.service} ELSE services \ {a.service}
    /\ notifications' = notifications + 1
    /\ UNCHANGED <<changes, clients, nextCID, open, reader, queued, closeCh, closed, closing, pc,
                   asking, waitsFor>>

(***************************************************************************)
(* Write of a GetClientID request: resolveService, then                    *)
(* handleAllocateClientID.                                                 *)
(***************************************************************************)
AllocateClientID(s) ==
    /\ pc = "idle" /\ nextCID < MaxClients
    /\ asking' = s
    /\ pc' = IF s \in services THEN "socket" ELSE IF closed THEN "reply" ELSE "lookup"
    /\ UNCHANGED <<services, announced, notifications, changes, clients, nextCID, open, reader,
                   queued, closeCh, closed, closing, waitsFor>>

\* resolveService looks, under the mutex, and waits for the channel it saw there.
Looks ==
    /\ pc = "lookup"
    /\ pc' = IF asking \in services THEN "socket" ELSE IF closed THEN "reply" ELSE "wait"
    /\ waitsFor' = notifications
    /\ UNCHANGED <<services, announced, notifications, changes, clients, nextCID, open, reader,
                   queued, closeCh, closed, closing, asking>>

Woken ==
    /\ pc = "wait" /\ waitsFor # notifications
    /\ pc' = "lookup"
    /\ UNCHANGED <<services, announced, notifications, changes, clients, nextCID, open, reader,
                   queued, closeCh, closed, closing, asking, waitsFor>>

\* The deadline passes, or the transport is closed.
GivesUp ==
    /\ pc = "wait"
    /\ pc' = "reply"
    /\ UNCHANGED <<services, announced, notifications, changes, clients, nextCID, open, reader,
                   queued, closeCh, closed, closing, asking, waitsFor>>

OpensSocket ==
    /\ pc = "socket"
    /\ pc' = "install"
    /\ nextCID' = nextCID + 1
    /\ open' = open \union {nextCID + 1}
    /\ UNCHANGED <<services, announced, notifications, changes, clients, reader, queued, closeCh,
                   closed, closing, asking, waitsFor>>

\* The socket of the client the service had is closed: there is one client per service.
Installs ==
    /\ clients' = [clients EXCEPT ![asking] = nextCID]
    /\ open' = open \ {clients[asking]}
    /\ reader' = [reader EXCEPT ![nextCID] = "recv"]

\* Mutant: Close may have come in between.
InstallBlind ==
    /\ pc = "install"
    /\ pc' = "reply"
    /\ Installs
    /\ UNCHANGED <<services, announced, notifications, changes, nextCID, queued, closeCh, closed,
                   closing, asking, waitsFor>>

\* Mutant: the socket the service had stays open.
InstallLeaks ==
    /\ pc = "install"
    /\ pc' = "reply"
    /\ IF closed
       THEN open' = open \ {nextCID} /\ UNCHANGED <<clients, reader>>
       ELSE /\ clients' = [clients EXCEPT ![asking] = nextCID]
            /\ reader' = [reader EXCEPT ![nextCID] = "recv"]
            /\ UNCHANGED open
    /\ UNCHANGED <<services, announced, notifications, changes, nextCID, queued, closeCh, closed,
                   closing, asking, waitsFor>>

Install ==
    /\ pc = "install"
    /\ pc' = "reply"
    /\ IF closed
       THEN open' = open \ {nextCID} /\ UNCHANGED <<clients, reader>>
       ELSE Installs
    /\ UNCHANGED <<services, announced, notifications, changes, nextCID, queued, closeCh, closed,
                   closing, asking, waitsFor>>

\* handleReleaseClientID goes by the service, whichever client is meant.
Release(s) ==
    /\ pc = "idle" /\ ~closed
    /\ clients' = [clients EXCEPT ![s] = None]
    /\ open' = open \ {clients[s]}
    /\ pc' = "reply"
    /\ UNCHANGED <<services, announced, notifications, changes, nextCID, reader, queued, closeCh,
                   closed, closing, asking, waitsFor>>

\* pushRx: into the queue, or nowhere once closeCh is closed.
Pushed == (queued < QueueSize /\ queued' = queued + 1) \/ (closeCh /\ UNCHANGED queued)

Reply ==
    /\ pc = "reply"
    /\ Pushed
    /\ pc' = "idle"
    /\ UNCHANGED <<services, announced, notifications, changes, clients, nextCID, open, reader,
                   closeCh, closed, closing, asking, waitsFor>>

(***************************************************************************)
(* The readers, and Read.                                                  *)
(***************************************************************************)
Receives(c) ==
    /\ reader[c] = "recv" /\ c \in open
    /\ reader' = [reader EXCEPT ![c] = "push"]
    /\ UNCHANGED <<services, announced, notifications, changes, clients, nextCID, open, queued,
                   closeCh, closed, closing, pc, asking, waitsFor>>

\* Mutant: the reader waits for room in the queue whatever happens.
PushesForever(c) ==
    /\ reader[c] = "push" /\ queued < QueueSize
    /\ queued' = queued + 1
    /\ reader' = [reader EXCEPT ![c] = "recv"]
    /\ UNCHANGED <<services, announced, notifications, changes, clients, nextCID, open, closeCh,
                   closed, closing, pc, asking, waitsFor>>

Pushes(c) ==
    /\ reader[c] = "push"
    /\ Pushed
    /\ reader' = [reader EXCEPT ![c] = "recv"]
    /\ UNCHANGED <<services, announced, notifications, changes, clients, nextCID, open, closeCh,
                   closed, closing, pc, asking, waitsFor>>

\* The receive fails because the socket is closed, or times out with closeCh closed.
ReaderEnds(c) ==
    /\ reader[c] = "recv" /\ (c \notin open \/ closeCh)
    /\ reader' = [reader EXCEPT ![c] = "ended"]
    /\ UNCHANGED <<services, announced, notifications, changes, clients, nextCID, open, queued,
                   closeCh, closed, closing, pc, asking, waitsFor>>

\* The client's readLoop, which ends with closeCh and may leave frames behind.
Read ==
    /\ queued > 0 /\ ~closeCh
    /\ queued' = queued - 1
    /\ UNCHANGED <<services, announced, notifications, changes, clients, nextCID, open, reader,
                   closeCh, closed, closing, pc, asking, waitsFor>>

(***************************************************************************)
(* Close.                                                                  *)
(***************************************************************************)
CloseBegins ==
    /\ closing = "no"
    /\ closing' = "channel"
    /\ closeCh' = TRUE
    /\ UNCHANGED <<services, announced, notifications, changes, clients, nextCID, open, reader,
                   queued, closed, pc, asking, waitsFor>>

CloseSockets ==
    /\ closing = "channel"
    /\ closing' = "waiting"
    /\ closed' = TRUE
    /\ open' = open \ {clients[s] : s \in Services}
    /\ clients' = [s \in Services |-> None]
    /\ notifications' = notifications + 1
    /\ UNCHANGED <<services, announced, changes, nextCID, reader, queued, closeCh, pc, asking,
                   waitsFor>>

CloseReturns ==
    /\ closing = "waiting"
    /\ \A c \in Cids : reader[c] \in {"none", "ended"}
    /\ closing' = "done"
    /\ UNCHANGED <<services, announced, notifications, changes, clients, nextCID, open, reader,
                   queued, closeCh, closed, pc, asking, waitsFor>>

WriterStep == Looks \/ Woken \/ GivesUp \/ OpensSocket \/ Install \/ Reply
ReaderStep(c) == Pushes(c) \/ ReaderEnds(c)

Next ==
    \/ \E s \in Services : ServerChanges(s) \/ AllocateClientID(s) \/ Release(s)
    \/ \E a \in announced : Notes(a)
    \/ \E c \in Cids : Receives(c) \/ ReaderStep(c)
    \/ WriterStep \/ Read \/ CloseBegins \/ CloseSockets \/ CloseReturns

Spec == Init /\ [][Next]_vars

\* Goroutines run, and a wait has a deadline.
FairSpec ==
    /\ Spec /\ WF_vars(WriterStep) /\ (\A c \in Cids : WF_vars(ReaderStep(c)))
    /\ WF_vars(CloseSockets) /\ WF_vars(CloseReturns)

(***************************************************************************)
(* Properties.                                                             *)
(***************************************************************************)
QrtrTypeOK ==
    /\ services \subseteq Services /\ changes \in 0 .. MaxChanges
    /\ announced \subseteq [service : Services, new : BOOLEAN]
    /\ notifications \in Nat /\ waitsFor \in Nat
    /\ clients \in [Services -> Cids \union {None}] /\ nextCID \in 0 .. MaxClients
    /\ open \subseteq Cids /\ reader \in [Cids -> {"none", "recv", "push", "ended"}]
    /\ queued \in 0 .. QueueSize
    /\ closeCh \in BOOLEAN /\ closed \in BOOLEAN
    /\ closing \in {"no", "channel", "waiting", "done"}
    /\ pc \in {"idle", "lookup", "wait", "socket", "install", "reply"} /\ asking \in Services

\* When Close has returned, no reader runs and no socket is open, except one that a client
\* being allocated still has to find out about.
ClosedForGood ==
    closing = "done" => /\ \A c \in Cids : reader[c] \in {"none", "ended"}
                        /\ open \subseteq (IF pc = "install" THEN {nextCID} ELSE {})

\* Every open socket belongs to the client of a service, or to the one being allocated:
\* none is lost when a service is allocated again or released.
SocketsAreClients ==
    open \subseteq {clients[s] : s \in Services} \union (IF pc = "install" THEN {nextCID} ELSE {})

\* The writer does not sleep through the server it waits for (and with it every request
\* of the client, for the lookup's whole timeout).
LookupWakes == pc = "wait" /\ asking \in services => waitsFor # notifications

\* Close returns, even when readLoop has ended and the queue is full.
CloseEnds == closing = "channel" ~> closing = "done"

\* Sockets and readers are those of the clients, none outlives Close, and a lookup is
\* woken by the server it looks for.
SocketsTracked == QrtrTypeOK /\ ClosedForGood /\ SocketsAreClients /\ LookupWakes
=============================================================================
