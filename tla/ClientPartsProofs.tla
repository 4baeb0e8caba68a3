---------------------------- MODULE ClientPartsProofs ----------------------------
(***************************************************************************)
(* What the parts of the QMI client and of its transports promise, and     *)
(* those of the manager that use the services, for any values of their     *)
(* constants. Each invariant says where a thing can be that must not be    *)
(* lost or shared: a client id is with the modem, on its way, or with one  *)
(* caller; an open socket is that of a client or of the allocation under   *)
(* way; an indication is owed to, or missed by, the one whose token it     *)
(* carries; a proxy that is being started has one opener who works on it;  *)
(* a timeout of a service is in the count of its operation until a success *)
(* or the end of its window; a call that is up has a handle, or one who    *)
(* will store it; and an id of the client in use is a service's, or one    *)
(* caller's who will install or close it.                                  *)
(***************************************************************************)
EXTENDS Parts, FiniteSetTheorems, TLAPS

\* The indications are counted with the operator of FiniteSets.
LEMMA SameCount ==
    ASSUME NEW S
    PROVE  Waits!Cardinality(S) = Cardinality(S)
  BY DEF Cardinality, Waits!Cardinality

\* A step is one of this part, or leaves it alone.
LEMMA ClientIdsRuns == Spec => ClientIds!Spec
  <1>1. Init => ClientIds!Init
    BY DEF Init
  <1>2. ASSUME [Next]_vars
        PROVE  [ClientIds!Next]_(ClientIds!vars)
    <2>1. RunClientIds \/ UNCHANGED varsClientIds
      BY <1>2 DEF Next, vars, RunEmitter, RunRebind, RunTimeouts, RunIdentities, RunPdn, RunProbe,
         RunServing, RunData, RunClientIds, RunQrtr, RunDecoders, RunModemPool, RunWaits,
         RunProxy, RunSim, RunMuxes, RunSms
    <2>2. CASE RunClientIds
      BY <2>2 DEF RunClientIds
    <2>3. CASE UNCHANGED varsClientIds
      BY <2>3 DEF varsClientIds, ClientIds!vars
    <2> QED
      BY <2>1, <2>2, <2>3
  <1> QED
    BY <1>1, <1>2, PTL DEF Spec, ClientIds!Spec

\* An answer is waiting for whoever asked, who then has no id yet; ids are numbered as the
\* modem allocates them, and each is in one place.
IdPlaces ==
    /\ \A c \in ci_Callers : ci_answer[c] # ClientIds!None <=> ci_pc[c] = "answered"
    /\ \A c \in ci_Callers : ci_pc[c] # "idle" => ci_holds[c] = ClientIds!None
IdNumbers == \A c \in ci_Callers : ci_answer[c] <= ci_lastId /\ ci_holds[c] <= ci_lastId
IdOwners ==
    /\ \A c, d \in ci_Callers : ci_answer[c] = ci_answer[d] /\ ci_answer[c] # ClientIds!None
       => c = d
    /\ \A c, d \in ci_Callers : ci_holds[c] = ci_holds[d] /\ ci_holds[c] # ClientIds!None => c = d
    /\ \A c, d \in ci_Callers : ci_answer[c] = ci_holds[d] => ci_answer[c] = ClientIds!None
\* The modem has the id of an answer, or has revoked it.
AnswerIsLive ==
    \A c \in ci_Callers : ci_answer[c] # ClientIds!None
        => ci_answer[c] \in ci_allocated \cup ci_revocations \cup ci_raced

IdInv == ClientIds!IdsTypeOK /\ IdPlaces /\ IdNumbers /\ IdOwners /\ AnswerIsLive
    /\ ClientIds!IdsAccounted /\ ClientIds!CachedIsLive

\* The invariant survives the start of an allocation, its timeout and its retry.
LEMMA IdAsksKeep ==
    ASSUME ClientIds!IdAssumption, IdInv, NEW c \in ci_Callers,
           ClientIds!Allocate(c) \/ ClientIds!TimesOut(c) \/ ClientIds!Retry(c)
    PROVE  IdInv'
  <1> USE DEF IdInv, ClientIds!Allocate, ClientIds!TimesOut, ClientIds!Retry
  <1>1. ClientIds!IdsTypeOK'
    <2>1. ci_pc' \in [ci_Callers -> {"idle", "asked", "answered", "timedout"}]
      BY DEF ClientIds!IdsTypeOK
    <2>2. ci_retry' \in [ci_Callers -> 0 .. ci_MaxRetries]
      BY DEF ClientIds!IdsTypeOK, ClientIds!IdAssumption
    <2> QED
      BY <2>1, <2>2 DEF ClientIds!IdsTypeOK
  <1>2. IdPlaces'
    BY DEF ClientIds!IdsTypeOK, IdPlaces
  <1>3. IdNumbers' /\ IdOwners'
    BY DEF IdNumbers, IdOwners
  <1>4. AnswerIsLive' /\ ClientIds!IdsAccounted' /\ ClientIds!CachedIsLive'
    BY DEF AnswerIsLive, ClientIds!IdsAccounted, ClientIds!CachedIsLive
  <1> QED
    BY <1>1, <1>2, <1>3, <1>4

\* The id of an answer is new.
LEMMA IdAnswerKeeps ==
    ASSUME ClientIds!IdAssumption, IdInv, NEW c \in ci_Callers, ClientIds!Answer(c)
    PROVE  IdInv'
  <1> USE DEF IdInv
  <1> DEFINE n == ci_lastId + 1
  <1>0. /\ ci_pc[c] = "asked" /\ ci_answer[c] = ClientIds!None /\ ci_holds[c] = ClientIds!None
        /\ n \in ClientIds!Ids /\ ci_lastId \in 0 .. ci_MaxIds /\ n # ClientIds!None
        /\ \A d \in ci_Callers : ci_answer[d] # n /\ ci_holds[d] # n
    BY DEF ClientIds!Answer, ClientIds!IdsTypeOK, IdPlaces, IdNumbers, ClientIds!IdAssumption,
       ClientIds!Ids, ClientIds!None
  <1>a. ci_lastId' = n /\ ci_allocated' = ci_allocated \cup {n}
        /\ UNCHANGED <<ci_retry, ci_holds, ci_cached, ci_revocations, ci_unreleased,
           ci_unanswered, ci_raced>>
    BY DEF ClientIds!Answer
  <1>1. CASE /\ ci_pc' = [ci_pc EXCEPT ![c] = "answered"]
             /\ ci_answer' = [ci_answer EXCEPT ![c] = n]
             /\ UNCHANGED ci_late
    <2>a. \A d \in ci_Callers : /\ ci_pc'[d] = IF d = c THEN "answered" ELSE ci_pc[d]
                                /\ ci_answer'[d] = IF d = c THEN n ELSE ci_answer[d]
      BY <1>1 DEF ClientIds!IdsTypeOK
    <2>1. ClientIds!IdsTypeOK'
      BY <1>0, <1>a, <1>1 DEF ClientIds!IdsTypeOK, ClientIds!Ids
    <2> HIDE DEF n
    <2>2. IdPlaces'
      BY <1>0, <1>a, <2>a DEF IdPlaces
    <2>3. IdNumbers'
      BY <1>0, <1>a, <2>a DEF IdNumbers, ClientIds!IdsTypeOK, ClientIds!Ids, ClientIds!None, n
    <2>4. IdOwners'
      BY <1>0, <1>a, <2>a DEF IdOwners
    <2>5. AnswerIsLive' /\ ClientIds!CachedIsLive'
      BY <1>0, <1>a, <2>a DEF AnswerIsLive, ClientIds!CachedIsLive
    <2>6. ClientIds!IdsAccounted'
      BY <1>0, <1>a, <1>1, <2>a DEF ClientIds!IdsAccounted
    <2> QED
      BY <2>1, <2>2, <2>3, <2>4, <2>5, <2>6
  <1>2. CASE /\ ci_late' = ci_late \cup {n}
             /\ ci_pc' = [ci_pc EXCEPT ![c] = "timedout"]
             /\ UNCHANGED ci_answer
    <2>a. \A d \in ci_Callers : ci_pc'[d] = IF d = c THEN "timedout" ELSE ci_pc[d]
      BY <1>2 DEF ClientIds!IdsTypeOK
    <2>1. ClientIds!IdsTypeOK'
      BY <1>0, <1>a, <1>2 DEF ClientIds!IdsTypeOK, ClientIds!Ids
    <2> HIDE DEF n
    <2>2. IdPlaces'
      BY <1>0, <1>a, <1>2, <2>a DEF IdPlaces
    <2>3. IdNumbers'
      BY <1>0, <1>a, <1>2 DEF IdNumbers, ClientIds!IdsTypeOK, ClientIds!Ids, ClientIds!None, n
    <2>4. IdOwners'
      BY <1>0, <1>a, <1>2 DEF IdOwners
    <2>5. AnswerIsLive' /\ ClientIds!CachedIsLive'
      BY <1>0, <1>a, <1>2 DEF AnswerIsLive, ClientIds!CachedIsLive
    <2>6. ClientIds!IdsAccounted'
      BY <1>0, <1>a, <1>2 DEF ClientIds!IdsAccounted
    <2> QED
      BY <2>1, <2>2, <2>3, <2>4, <2>5, <2>6
  <1> QED
    BY <1>1, <1>2 DEF ClientIds!Answer

\* The id of an answer becomes that of its caller.
LEMMA IdTakesKeeps ==
    ASSUME ClientIds!IdAssumption, IdInv, NEW c \in ci_Callers, ClientIds!Takes(c)
    PROVE  IdInv'
  <1> USE DEF IdInv
  <1>0. /\ ci_pc[c] = "answered" /\ ci_answer[c] # ClientIds!None /\ ci_holds[c] = ClientIds!None
           /\ ci_answer[c] \in ClientIds!Ids
        /\ ci_answer[c] <= ci_lastId
    BY DEF ClientIds!Takes, IdPlaces, ClientIds!IdsTypeOK, IdNumbers
  <1>1. /\ ci_cached' = ci_answer[c]
        /\ UNCHANGED <<ci_allocated, ci_lastId, ci_revocations, ci_late, ci_unreleased,
           ci_unanswered, ci_raced>>
        /\ \A d \in ci_Callers : /\ ci_pc'[d] = IF d = c THEN "idle" ELSE ci_pc[d]
                                 /\ ci_answer'[d] = IF d = c THEN ClientIds!None ELSE ci_answer[d]
                                 /\ ci_holds'[d] = IF d = c THEN ci_answer[c] ELSE ci_holds[d]
    BY DEF ClientIds!Takes, ClientIds!IdsTypeOK
  <1>2. ClientIds!IdsTypeOK'
    BY <1>0 DEF ClientIds!Takes, ClientIds!IdsTypeOK, ClientIds!IdAssumption
  <1>3. IdPlaces'
    BY <1>0, <1>1 DEF IdPlaces
  <1>4. IdNumbers'
    BY <1>0, <1>1 DEF IdNumbers, ClientIds!IdsTypeOK, ClientIds!None
  <1>5. IdOwners'
    BY <1>0, <1>1 DEF IdOwners
  <1>6. AnswerIsLive' /\ ClientIds!CachedIsLive'
    BY <1>0, <1>1 DEF AnswerIsLive, ClientIds!CachedIsLive
  <1>7. ClientIds!IdsAccounted'
    BY <1>0, <1>1 DEF ClientIds!IdsAccounted, IdOwners, ClientIds!IdsTypeOK, ClientIds!Ids,
       ClientIds!None
  <1> QED
    BY <1>2, <1>3, <1>4, <1>5, <1>6, <1>7

\* An id that is given up is released, or remembered as one whose release failed or was
\* not answered.
LEMMA IdReleasesKeeps ==
    ASSUME ClientIds!IdAssumption, IdInv, NEW c \in ci_Callers, ClientIds!Releases(c)
    PROVE  IdInv'
  <1> USE DEF IdInv
  <1>0. /\ ci_pc[c] = "idle" /\ ci_holds[c] # ClientIds!None /\ ci_holds[c] \in ClientIds!Ids
        /\ \A d \in ci_Callers : ci_answer[d] # ci_holds[c]
    BY DEF ClientIds!Releases, ClientIds!IdsTypeOK, IdOwners
  <1>1. /\ UNCHANGED <<ci_lastId, ci_pc, ci_retry, ci_answer, ci_revocations, ci_late, ci_raced>>
        /\ \A d \in ci_Callers : ci_holds'[d] = IF d = c THEN ClientIds!None ELSE ci_holds[d]
        /\ \/ /\ ci_allocated' = ci_allocated \ {ci_holds[c]} /\ ci_cached' = ClientIds!None
              /\ UNCHANGED <<ci_unreleased, ci_unanswered>>
           \/ /\ ci_unreleased' = ci_unreleased \cup {ci_holds[c]}
              /\ UNCHANGED <<ci_allocated, ci_cached, ci_unanswered>>
           \/ /\ ci_allocated' = ci_allocated \ {ci_holds[c]} /\ ci_unanswered' = ci_unanswered
                 \cup {ci_holds[c]}
              /\ UNCHANGED <<ci_cached, ci_unreleased>>
    BY DEF ClientIds!Releases, ClientIds!IdsTypeOK
  <1>2. ClientIds!IdsTypeOK'
    BY <1>0, <1>1 DEF ClientIds!Releases, ClientIds!IdsTypeOK
  <1>3. IdPlaces'
    BY <1>0, <1>1 DEF IdPlaces
  <1>4. IdNumbers'
    BY <1>0, <1>1 DEF IdNumbers, ClientIds!IdsTypeOK, ClientIds!None
  <1>5. IdOwners'
    BY <1>0, <1>1 DEF IdOwners
  <1>6. AnswerIsLive' /\ ClientIds!CachedIsLive'
    BY <1>0, <1>1 DEF AnswerIsLive, ClientIds!CachedIsLive
  <1>7. ClientIds!IdsAccounted'
    BY <1>0, <1>1 DEF ClientIds!IdsAccounted, IdOwners, ClientIds!IdsTypeOK, ClientIds!Ids,
       ClientIds!None
  <1> QED
    BY <1>2, <1>3, <1>4, <1>5, <1>6, <1>7

\* An id the modem revokes is forgotten, and known to be if its answer was not yet taken.
LEMMA IdRevocationKeeps ==
    ASSUME ClientIds!IdAssumption, IdInv, NEW id \in ClientIds!Ids,
           ClientIds!Revokes(id) \/ ClientIds!handleClientIDRevoke(id)
    PROVE  IdInv'
  <1> USE DEF IdInv
  <1>1. UNCHANGED <<ci_lastId, ci_pc, ci_retry, ci_answer, ci_holds, ci_late, ci_unreleased,
        ci_unanswered>>
        /\ ci_allocated' \subseteq ci_allocated
    BY DEF ClientIds!Revokes, ClientIds!handleClientIDRevoke
  <1>2. ClientIds!IdsTypeOK'
    BY DEF ClientIds!Revokes, ClientIds!handleClientIDRevoke, ClientIds!IdsTypeOK
  <1>3. IdPlaces' /\ IdNumbers' /\ IdOwners' /\ ClientIds!IdsAccounted'
    BY <1>1 DEF IdPlaces, IdNumbers, IdOwners, ClientIds!IdsAccounted
  <1>4. AnswerIsLive'
    BY <1>1 DEF ClientIds!Revokes, ClientIds!handleClientIDRevoke, AnswerIsLive
  <1>5. ClientIds!CachedIsLive'
    BY <1>1 DEF ClientIds!Revokes, ClientIds!handleClientIDRevoke, ClientIds!CachedIsLive
  <1> QED
    BY <1>2, <1>3, <1>4, <1>5

\* Ids have one place each, whatever is answered late or not at all, released or revoked
\* meanwhile.
THEOREM IdInvariant == Spec => []IdInv
  <1>0. ClientIds!IdAssumption
    BY PartsAssumption
  <1>1. ASSUME ClientIds!Init
        PROVE  IdInv
    BY <1>0, <1>1 DEF ClientIds!Init, IdInv, ClientIds!IdsTypeOK, IdPlaces, IdNumbers, IdOwners,
       AnswerIsLive,
       ClientIds!IdsAccounted, ClientIds!CachedIsLive, ClientIds!IdAssumption, ClientIds!Ids,
           ClientIds!None
  <1>2. ASSUME IdInv, [ClientIds!Next]_(ClientIds!vars)
        PROVE  IdInv'
    <2>1. CASE UNCHANGED ClientIds!vars
      BY <1>2, <2>1 DEF ClientIds!vars, IdInv, ClientIds!IdsTypeOK, IdPlaces, IdNumbers,
         IdOwners, AnswerIsLive,
         ClientIds!IdsAccounted, ClientIds!CachedIsLive
    <2> QED
      BY <1>0, <1>2, <2>1, IdAsksKeep, IdAnswerKeeps, IdTakesKeeps, IdReleasesKeeps,
         IdRevocationKeeps DEF ClientIds!Next
  <1> QED
    BY <1>1, <1>2, ClientIdsRuns, PTL DEF ClientIds!Spec

-----------------------------------------------------------------------------
\* A step is one of this part, or leaves it alone.
LEMMA QrtrRuns == Spec => Qrtr!Spec
  <1>1. Init => Qrtr!Init
    BY DEF Init
  <1>2. ASSUME [Next]_vars
        PROVE  [Qrtr!Next]_(Qrtr!vars)
    <2>1. RunQrtr \/ UNCHANGED varsQrtr
      BY <1>2 DEF Next, vars, RunEmitter, RunRebind, RunTimeouts, RunIdentities, RunPdn, RunProbe,
         RunServing, RunData, RunClientIds, RunQrtr, RunDecoders, RunModemPool, RunWaits,
         RunProxy, RunSim, RunMuxes, RunSms
    <2>2. CASE RunQrtr
      BY <2>2 DEF RunQrtr
    <2>3. CASE UNCHANGED varsQrtr
      BY <2>3 DEF varsQrtr, Qrtr!vars
    <2> QED
      BY <2>1, <2>2, <2>3
  <1> QED
    BY <1>1, <1>2, PTL DEF Spec, Qrtr!Spec

\* The numbers of clients count up, and there is room for the one being allocated.
CidsCount ==
    /\ \A s \in qt_Services : qt_clients[s] <= qt_nextCID
    /\ qt_pc \in {"lookup", "wait", "socket"} => qt_nextCID < qt_MaxClients
    /\ qt_pc = "install" => qt_nextCID # Qrtr!None
CloseState ==
    /\ qt_closed <=> qt_closing \in {"waiting", "done"}
    /\ qt_closed => \A s \in qt_Services : qt_clients[s] = Qrtr!None
    /\ qt_closing = "done" => \A c \in Qrtr!Cids : qt_reader[c] \in {"none", "ended"}
QrtrInv == Qrtr!QrtrTypeOK /\ CidsCount /\ CloseState /\ Qrtr!SocketsAreClients
    /\ Qrtr!LookupWakes /\ qt_waitsFor <= qt_notifications

\* The invariant survives servers that come and go.
LEMMA QrtrServersKeep ==
    ASSUME Qrtr!QrtrAssumption, QrtrInv,
           (\E s \in qt_Services : Qrtr!ServerChanges(s)) \/ (\E a \in qt_announced : Qrtr!Notes(a))
    PROVE  QrtrInv'
  <1> USE DEF QrtrInv
  <1>1. CASE \E s \in qt_Services : Qrtr!ServerChanges(s)
    <2>1. PICK s \in qt_Services : Qrtr!ServerChanges(s)
      BY <1>1
    <2>a. [service |-> s, new |-> s \notin qt_services] \in [service : qt_Services, new : BOOLEAN]
      OBVIOUS
    <2>b. qt_announced' \subseteq [service : qt_Services, new : BOOLEAN]
      BY <2>1, <2>a, Zenon DEF Qrtr!ServerChanges, Qrtr!QrtrTypeOK
    <2>c. qt_changes' \in 0 .. qt_MaxChanges
      BY <2>1 DEF Qrtr!ServerChanges, Qrtr!QrtrTypeOK, Qrtr!QrtrAssumption
    <2>2. Qrtr!QrtrTypeOK'
      BY <2>1, <2>b, <2>c DEF Qrtr!ServerChanges, Qrtr!QrtrTypeOK
    <2>3. /\ CidsCount' /\ CloseState' /\ Qrtr!SocketsAreClients' /\ Qrtr!LookupWakes'
          /\ qt_waitsFor' <= qt_notifications'
      BY <2>1 DEF Qrtr!ServerChanges, CidsCount, CloseState, Qrtr!SocketsAreClients,
         Qrtr!LookupWakes
    <2> QED
      BY <2>2, <2>3
  <1>2. CASE \E a \in qt_announced : Qrtr!Notes(a)
    <2>1. PICK a \in qt_announced : Qrtr!Notes(a)
      BY <1>2
    <2>2. Qrtr!QrtrTypeOK'
      BY <2>1 DEF Qrtr!Notes, Qrtr!QrtrTypeOK
    <2>3. CidsCount' /\ CloseState' /\ Qrtr!SocketsAreClients'
      BY <2>1 DEF Qrtr!Notes, CidsCount, CloseState, Qrtr!SocketsAreClients
    <2>4. qt_waitsFor' <= qt_notifications' /\ qt_waitsFor' # qt_notifications'
      BY <2>1 DEF Qrtr!Notes, Qrtr!QrtrTypeOK
    <2> QED
      BY <2>2, <2>3, <2>4 DEF Qrtr!LookupWakes
  <1> QED
    BY <1>1, <1>2

\* The invariant survives the lookup of a server.
LEMMA QrtrLookupKeeps ==
    ASSUME Qrtr!QrtrAssumption, QrtrInv,
           (\E s \in qt_Services : Qrtr!AllocateClientID(s)) \/ Qrtr!Looks \/ Qrtr!Woken
               \/ Qrtr!GivesUp
    PROVE  QrtrInv'
  <1> USE DEF QrtrInv
  <1>1. CASE \E s \in qt_Services : Qrtr!AllocateClientID(s)
    BY <1>1 DEF Qrtr!AllocateClientID, Qrtr!QrtrTypeOK, CidsCount, CloseState,
       Qrtr!SocketsAreClients, Qrtr!LookupWakes
  <1>2. CASE Qrtr!Looks \/ Qrtr!Woken \/ Qrtr!GivesUp
    <2> USE DEF Qrtr!Looks, Qrtr!Woken, Qrtr!GivesUp
    <2>1. Qrtr!QrtrTypeOK'
      BY <1>2 DEF Qrtr!QrtrTypeOK
    <2>2. CidsCount' /\ CloseState' /\ Qrtr!SocketsAreClients'
      BY <1>2 DEF CidsCount, CloseState, Qrtr!SocketsAreClients
    <2>3. Qrtr!LookupWakes' /\ qt_waitsFor' <= qt_notifications'
      BY <1>2 DEF Qrtr!LookupWakes, Qrtr!QrtrTypeOK
    <2> QED
      BY <2>1, <2>2, <2>3
  <1> QED
    BY <1>1, <1>2

\* A socket is opened for the next client, and becomes that of the service unless Close
\* came in between.
LEMMA QrtrSocketKeeps ==
    ASSUME Qrtr!QrtrAssumption, QrtrInv, Qrtr!OpensSocket \/ Qrtr!Install
    PROVE  QrtrInv'
  <1> USE DEF QrtrInv
  <1>1. CASE Qrtr!OpensSocket
    <2>0. qt_nextCID' = qt_nextCID + 1 /\ qt_nextCID + 1 \in Qrtr!Cids
          /\ qt_nextCID \in 0 .. qt_MaxClients
      BY <1>1 DEF Qrtr!OpensSocket, CidsCount, Qrtr!QrtrTypeOK, Qrtr!Cids, Qrtr!QrtrAssumption
    <2>1. Qrtr!QrtrTypeOK'
      BY <1>1, <2>0 DEF Qrtr!OpensSocket, Qrtr!QrtrTypeOK, Qrtr!Cids
    <2>2. CidsCount'
      BY <1>1, <2>0 DEF Qrtr!OpensSocket, CidsCount, Qrtr!QrtrTypeOK, Qrtr!Cids, Qrtr!None
    <2>3. CloseState' /\ Qrtr!LookupWakes' /\ qt_waitsFor' <= qt_notifications'
      BY <1>1 DEF Qrtr!OpensSocket, CloseState, Qrtr!LookupWakes
    <2>4. Qrtr!SocketsAreClients'
      BY <1>1 DEF Qrtr!OpensSocket, Qrtr!SocketsAreClients
    <2> QED
      BY <2>1, <2>2, <2>3, <2>4
  <1>2. CASE Qrtr!Install
    <2>0. qt_nextCID \in Qrtr!Cids /\ qt_pc = "install" /\ qt_pc' = "reply"
      BY <1>2 DEF Qrtr!Install, CidsCount, Qrtr!QrtrTypeOK, Qrtr!Cids, Qrtr!None
    <2>1. CASE qt_closed
      <3>1. /\ qt_open' = qt_open \ {qt_nextCID}
            /\ UNCHANGED <<qt_services, qt_announced, qt_notifications, qt_changes, qt_clients,
               qt_reader, qt_nextCID,
                           qt_queued, qt_closeCh, qt_closed, qt_closing, qt_asking, qt_waitsFor>>
        BY <1>2, <2>1 DEF Qrtr!Install
      <3> QED
        BY <2>0, <3>1 DEF Qrtr!QrtrTypeOK, CidsCount, CloseState, Qrtr!SocketsAreClients,
           Qrtr!LookupWakes
    <2>2. CASE ~qt_closed
      <3>1. /\ qt_open' = qt_open \ {qt_clients[qt_asking]} /\ qt_asking \in qt_Services
            /\ \A s \in qt_Services :
                  qt_clients'[s] = IF s = qt_asking THEN qt_nextCID ELSE qt_clients[s]
            /\ qt_clients' \in [qt_Services -> Qrtr!Cids \cup {Qrtr!None}]
            /\ qt_reader' \in [Qrtr!Cids -> {"none", "recv", "push", "ended"}]
            /\ UNCHANGED <<qt_services, qt_announced, qt_notifications, qt_changes, qt_nextCID,
               qt_queued,
                           qt_closeCh, qt_closed, qt_closing, qt_asking, qt_waitsFor>>
        BY <1>2, <2>0, <2>2 DEF Qrtr!Install, Qrtr!Installs, Qrtr!QrtrTypeOK
      <3>2. Qrtr!QrtrTypeOK'
        BY <2>0, <3>1 DEF Qrtr!QrtrTypeOK
      <3>3. CidsCount'
        BY <2>0, <3>1 DEF Qrtr!QrtrTypeOK, CidsCount
      <3>4. CloseState' /\ Qrtr!LookupWakes' /\ qt_waitsFor' <= qt_notifications'
        BY <2>0, <2>2, <3>1 DEF CloseState, Qrtr!LookupWakes
      <3>5. Qrtr!SocketsAreClients'
        <4>1. \A c \in qt_open' : c = qt_nextCID \/ \E s \in qt_Services : s # qt_asking
              /\ c = qt_clients[s]
          BY <2>0, <3>1 DEF Qrtr!SocketsAreClients
        <4> QED
          BY <3>1, <4>1 DEF Qrtr!SocketsAreClients
      <3> QED
        BY <3>2, <3>3, <3>4, <3>5
    <2> QED
      BY <2>1, <2>2
  <1> QED
    BY <1>1, <1>2

\* The socket of a service that is released is closed, and that of no other.
LEMMA QrtrReleaseKeeps ==
    ASSUME Qrtr!QrtrAssumption, QrtrInv, NEW s \in qt_Services, Qrtr!Release(s)
    PROVE  QrtrInv'
  <1> USE DEF QrtrInv
  <1>1. /\ qt_open' = qt_open \ {qt_clients[s]} /\ qt_pc = "idle" /\ qt_pc' = "reply" /\ ~qt_closed
        /\ \A r \in qt_Services : qt_clients'[r] = IF r = s THEN Qrtr!None ELSE qt_clients[r]
        /\ UNCHANGED <<qt_services, qt_announced, qt_notifications, qt_changes, qt_nextCID,
           qt_reader, qt_queued,
                       qt_closeCh, qt_closed, qt_closing, qt_asking, qt_waitsFor>>
    BY DEF Qrtr!Release, Qrtr!QrtrTypeOK
  <1>2. Qrtr!QrtrTypeOK'
    BY <1>1 DEF Qrtr!Release, Qrtr!QrtrTypeOK
  <1>3. CidsCount'
    BY <1>1 DEF CidsCount, Qrtr!QrtrTypeOK, Qrtr!None
  <1>4. CloseState' /\ Qrtr!LookupWakes' /\ qt_waitsFor' <= qt_notifications'
    BY <1>1 DEF CloseState, Qrtr!LookupWakes
  <1>5. Qrtr!SocketsAreClients'
    <2>1. \A c \in qt_open' : \E r \in qt_Services : r # s /\ c = qt_clients[r]
      BY <1>1 DEF Qrtr!SocketsAreClients
    <2> QED
      BY <1>1, <2>1 DEF Qrtr!SocketsAreClients
  <1> QED
    BY <1>2, <1>3, <1>4, <1>5

\* The invariant survives the readers, the queue of frames and the writer's replies.
LEMMA QrtrReadersKeep ==
    ASSUME Qrtr!QrtrAssumption, QrtrInv,
           Qrtr!Reply \/ Qrtr!Read \/ (\E c \in Qrtr!Cids : Qrtr!Receives(c) \/ Qrtr!Pushes(c)
               \/ Qrtr!ReaderEnds(c))
    PROVE  QrtrInv'
  <1> USE DEF QrtrInv
  <1>1. CASE Qrtr!Reply \/ Qrtr!Read
    <2>1. /\ qt_queued' \in 0 .. qt_QueueSize /\ qt_pc' \in {"idle", qt_pc}
             /\ (qt_pc # "reply" => qt_pc' = qt_pc)
          /\ UNCHANGED <<qt_services, qt_announced, qt_notifications, qt_changes, qt_clients,
             qt_nextCID, qt_open,
                         qt_reader, qt_closeCh, qt_closed, qt_closing, qt_asking, qt_waitsFor>>
      BY <1>1 DEF Qrtr!Reply, Qrtr!Read, Qrtr!Pushed, Qrtr!QrtrTypeOK, Qrtr!QrtrAssumption
    <2> QED
      BY <2>1 DEF Qrtr!QrtrTypeOK, CidsCount, CloseState, Qrtr!SocketsAreClients, Qrtr!LookupWakes
  <1>2. CASE \E c \in Qrtr!Cids : Qrtr!Receives(c) \/ Qrtr!Pushes(c) \/ Qrtr!ReaderEnds(c)
    <2>0. PICK c \in Qrtr!Cids : Qrtr!Receives(c) \/ Qrtr!Pushes(c) \/ Qrtr!ReaderEnds(c)
      BY <1>2
    <2>1. /\ qt_queued' \in 0 .. qt_QueueSize
          /\ qt_reader' \in [Qrtr!Cids -> {"none", "recv", "push", "ended"}]
          /\ UNCHANGED <<qt_services, qt_announced, qt_notifications, qt_changes, qt_clients,
             qt_nextCID, qt_open,
                         qt_closeCh, qt_closed, qt_closing, qt_pc, qt_asking, qt_waitsFor>>
      BY <2>0 DEF Qrtr!Receives, Qrtr!Pushes, Qrtr!ReaderEnds, Qrtr!Pushed, Qrtr!QrtrTypeOK,
         Qrtr!QrtrAssumption
    <2>2. qt_closing = "done" => FALSE
      BY <2>0 DEF Qrtr!Receives, Qrtr!Pushes, Qrtr!ReaderEnds, CloseState
    <2> QED
      BY <2>1, <2>2 DEF Qrtr!QrtrTypeOK, CidsCount, CloseState, Qrtr!SocketsAreClients,
         Qrtr!LookupWakes
  <1> QED
    BY <1>1, <1>2

\* Close takes the sockets of all clients, and returns when every reader has ended.
LEMMA QrtrCloseKeeps ==
    ASSUME Qrtr!QrtrAssumption, QrtrInv, Qrtr!CloseBegins \/ Qrtr!CloseSockets \/ Qrtr!CloseReturns
    PROVE  QrtrInv'
  <1> USE DEF QrtrInv
  <1>1. CASE Qrtr!CloseBegins
    BY <1>1 DEF Qrtr!CloseBegins, Qrtr!QrtrTypeOK, CidsCount, CloseState, Qrtr!SocketsAreClients,
       Qrtr!LookupWakes
  <1>2. CASE Qrtr!CloseSockets
    <2>1. Qrtr!QrtrTypeOK'
      BY <1>2 DEF Qrtr!CloseSockets, Qrtr!QrtrTypeOK
    <2>2. CidsCount' /\ CloseState'
      BY <1>2 DEF Qrtr!CloseSockets, Qrtr!QrtrTypeOK, CidsCount, CloseState, Qrtr!None
    <2>3. Qrtr!SocketsAreClients'
      BY <1>2 DEF Qrtr!CloseSockets, Qrtr!SocketsAreClients
    <2>4. qt_waitsFor' <= qt_notifications' /\ qt_waitsFor' # qt_notifications'
      BY <1>2 DEF Qrtr!CloseSockets, Qrtr!QrtrTypeOK
    <2> QED
      BY <2>1, <2>2, <2>3, <2>4 DEF Qrtr!LookupWakes
  <1>3. CASE Qrtr!CloseReturns
    BY <1>3 DEF Qrtr!CloseReturns, Qrtr!QrtrTypeOK, CidsCount, CloseState,
       Qrtr!SocketsAreClients, Qrtr!LookupWakes
  <1> QED
    BY <1>1, <1>2, <1>3

\* Sockets, clients and the waiting lookup, whenever Close comes.
THEOREM QrtrInvariant == Spec => []QrtrInv
  <1>0. Qrtr!QrtrAssumption
    BY PartsAssumption
  <1>1. ASSUME Qrtr!Init
        PROVE  QrtrInv
    <2>1. qt_asking \in qt_Services
      BY <1>0, <1>1 DEF Qrtr!Init, Qrtr!QrtrAssumption
    <2>2. qt_clients \in [qt_Services -> Qrtr!Cids \cup {Qrtr!None}]
          /\ \A s \in qt_Services : qt_clients[s] = Qrtr!None
      BY <1>1 DEF Qrtr!Init
    <2>3. qt_reader \in [Qrtr!Cids -> {"none", "recv", "push", "ended"}]
      BY <1>1 DEF Qrtr!Init
    <2>4. qt_changes \in 0 .. qt_MaxChanges /\ qt_nextCID \in 0 .. qt_MaxClients
          /\ qt_queued \in 0 .. qt_QueueSize
      BY <1>0, <1>1 DEF Qrtr!Init, Qrtr!QrtrAssumption
    <2>5. Qrtr!QrtrTypeOK
      BY <1>1, <2>1, <2>2, <2>3, <2>4 DEF Qrtr!Init, Qrtr!QrtrTypeOK
    <2>6. CidsCount /\ CloseState
      BY <1>1, <2>2 DEF Qrtr!Init, CidsCount, CloseState, Qrtr!None
    <2> QED
      BY <1>1, <2>5, <2>6 DEF Qrtr!Init, QrtrInv, Qrtr!SocketsAreClients, Qrtr!LookupWakes
  <1>2. ASSUME QrtrInv, [Qrtr!Next]_(Qrtr!vars)
        PROVE  QrtrInv'
    <2>1. CASE UNCHANGED Qrtr!vars
      BY <1>2, <2>1 DEF Qrtr!vars, QrtrInv, Qrtr!QrtrTypeOK, CidsCount, CloseState,
         Qrtr!SocketsAreClients,
         Qrtr!LookupWakes
    <2> QED
      BY <1>0, <1>2, <2>1, QrtrServersKeep, QrtrLookupKeeps, QrtrSocketKeeps, QrtrReleaseKeeps,
         QrtrReadersKeep, QrtrCloseKeeps DEF Qrtr!Next, Qrtr!WriterStep, Qrtr!ReaderStep
  <1> QED
    BY <1>1, <1>2, QrtrRuns, PTL DEF Qrtr!Spec

\* When Close has returned, only the socket of a client being allocated can be open.
LEMMA QrtrInvTracks ==
    ASSUME QrtrInv
    PROVE  Qrtr!SocketsTracked
  <1>1. Qrtr!ClosedForGood
    <2>1. SUFFICES ASSUME qt_closing = "done"
                   PROVE  qt_open \subseteq (IF qt_pc = "install" THEN {qt_nextCID} ELSE {})
      BY DEF Qrtr!ClosedForGood, QrtrInv, CloseState
    <2>2. \A s \in qt_Services : qt_clients[s] = Qrtr!None
      BY <2>1 DEF QrtrInv, CloseState
    <2> QED
      BY <2>2 DEF QrtrInv, Qrtr!SocketsAreClients, Qrtr!QrtrTypeOK, Qrtr!Cids, Qrtr!None
  <1> QED
    BY <1>1 DEF QrtrInv, Qrtr!SocketsTracked

-----------------------------------------------------------------------------
\* A step is one of this part, or leaves it alone.
LEMMA WaitsRuns == Spec => Waits!Spec
  <1>1. Init => Waits!Init
    BY DEF Init
  <1>2. ASSUME [Next]_vars
        PROVE  [Waits!Next]_(Waits!vars)
    <2>1. RunWaits \/ UNCHANGED varsWaits
      BY <1>2 DEF Next, vars, RunEmitter, RunRebind, RunTimeouts, RunIdentities, RunPdn, RunProbe,
         RunServing, RunData, RunClientIds, RunQrtr, RunDecoders, RunModemPool, RunWaits,
         RunProxy, RunSim, RunMuxes, RunSms
    <2>2. CASE RunWaits
      BY <2>2 DEF RunWaits
    <2>3. CASE UNCHANGED varsWaits
      BY <2>3 DEF varsWaits, Waits!vars
    <2> QED
      BY <2>1, <2>2, <2>3
  <1> QED
    BY <1>1, <1>2, PTL DEF Spec, Waits!Spec

\* The tokens drawn are distinct; the waiters are those of the callers who wait; and what a
\* caller will wait for is on its way, or with it, or was missed.
WaitTokens ==
    /\ \A c \in iw_Callers : iw_token[c] <= iw_tokens
    /\ \A c \in iw_Callers : iw_pc[c] \in {"sent", "answered", "waits"} => iw_token[c] # 0
    /\ \A c, d \in iw_Callers : iw_token[c] = iw_token[d] /\ iw_token[c] # 0 => c = d
WaitersWait ==
    /\ \A t \in iw_waiters : \E c \in iw_Callers : iw_pc[c] = "waits" /\ iw_token[c] = t
    /\ \A c \in iw_Callers : iw_pc[c] = "waits" => iw_token[c] \in iw_waiters
    /\ iw_channel \subseteq iw_waiters
ComesOrMissed ==
    /\ iw_handler = "none" => \A c \in iw_Callers : iw_pc[c] = "idle"
    /\ \A c \in iw_Callers : iw_pc[c] \in {"answered", "waits"} /\ iw_handler = "registered"
                             => iw_token[c] \in iw_owed \cup iw_channel \cup iw_missed

WaitInv == Waits!WaitsTypeOK /\ WaitTokens /\ WaitersWait /\ ComesOrMissed

\* The invariant survives the opening and the closing of the service.
LEMMA WaitServiceKeeps ==
    ASSUME Waits!WaitsAssumption, WaitInv, Waits!Open \/ Waits!Close
    PROVE  WaitInv'
  <1> USE DEF WaitInv, Waits!Open, Waits!Close
  <1>1. Waits!WaitsTypeOK'
    BY DEF Waits!WaitsTypeOK
  <1>2. WaitTokens' /\ WaitersWait' /\ ComesOrMissed'
    BY DEF WaitTokens, WaitersWait, ComesOrMissed
  <1> QED
    BY <1>1, <1>2

\* A token is drawn that nobody has.
LEMMA WaitSendsKeeps ==
    ASSUME Waits!WaitsAssumption, WaitInv, NEW c \in iw_Callers, Waits!Sends(c)
    PROVE  WaitInv'
  <1> DEFINE n == iw_tokens + 1
  <1>0. /\ iw_tokens' = n /\ n \in 1 .. iw_MaxTokens /\ iw_pc[c] # "waits"
           /\ iw_handler = "registered"
        /\ iw_tokens \in 0 .. iw_MaxTokens
        /\ UNCHANGED <<iw_handler, iw_waiters, iw_channel, iw_owed, iw_missed>>
        /\ \A d \in iw_Callers : iw_token[d] \in Nat /\ iw_token[d] <= iw_tokens /\ iw_token[d] < n
        /\ \A d \in iw_Callers : /\ iw_pc'[d] = IF d = c THEN "sent" ELSE iw_pc[d]
                                 /\ iw_token'[d] = IF d = c THEN n ELSE iw_token[d]
    BY DEF Waits!Sends, WaitInv, Waits!WaitsTypeOK, WaitTokens, Waits!WaitsAssumption
  <1>1. Waits!WaitsTypeOK'
    BY <1>0 DEF Waits!Sends, WaitInv, Waits!WaitsTypeOK
  <1> HIDE DEF n
  <1>2. WaitTokens'
    BY <1>0 DEF WaitTokens, WaitInv
  <1>3. WaitersWait'
    BY <1>0 DEF WaitersWait, WaitInv
  <1>4. ComesOrMissed'
    BY <1>0 DEF ComesOrMissed, WaitInv
  <1> QED
    BY <1>1, <1>2, <1>3, <1>4 DEF WaitInv

\* An answer announces the indication, or a refusal ends the operation.
LEMMA WaitAnswerKeeps ==
    ASSUME Waits!WaitsAssumption, WaitInv, NEW c \in iw_Callers,
           Waits!Refused(c) \/ Waits!Granted(c)
    PROVE  WaitInv'
  <1>0. /\ iw_pc[c] = "sent" /\ iw_token[c] # 0 /\ iw_token[c] \in 1 .. iw_MaxTokens
        /\ UNCHANGED <<iw_handler, iw_tokens, iw_token, iw_waiters, iw_channel, iw_missed>>
        /\ iw_owed \subseteq iw_owed' /\ iw_owed' \subseteq iw_owed \cup {iw_token[c]}
        /\ \/ /\ \A d \in iw_Callers : iw_pc'[d] = IF d = c THEN "failed" ELSE iw_pc[d]
           \/ /\ \A d \in iw_Callers : iw_pc'[d] = IF d = c THEN "answered" ELSE iw_pc[d]
              /\ iw_token[c] \in iw_owed'
    BY DEF Waits!Refused, Waits!Granted, WaitInv, Waits!WaitsTypeOK, WaitTokens
  <1>1. Waits!WaitsTypeOK'
    BY <1>0 DEF Waits!Refused, Waits!Granted, WaitInv, Waits!WaitsTypeOK
  <1>2. WaitTokens'
    BY <1>0 DEF WaitTokens, WaitInv
  <1>3. WaitersWait'
    BY <1>0 DEF WaitersWait, WaitInv
  <1>4. ComesOrMissed'
    BY <1>0 DEF ComesOrMissed, WaitInv
  <1> QED
    BY <1>1, <1>2, <1>3, <1>4 DEF WaitInv

\* A waiter is registered for a token that nobody else has.
LEMMA WaitRegistersKeeps ==
    ASSUME Waits!WaitsAssumption, WaitInv, NEW c \in iw_Callers, Waits!registerWaiter(c)
    PROVE  WaitInv'
  <1>0. /\ iw_pc[c] = "answered" /\ iw_token[c] # 0 /\ iw_token[c] \in 1 .. iw_MaxTokens
        /\ UNCHANGED <<iw_handler, iw_tokens, iw_token, iw_channel, iw_owed, iw_missed>>
        /\ iw_waiters' = iw_waiters \cup {iw_token[c]}
        /\ \A d \in iw_Callers : iw_pc'[d] = IF d = c THEN "waits" ELSE iw_pc[d]
    BY DEF Waits!registerWaiter, WaitInv, Waits!WaitsTypeOK, WaitTokens
  <1>1. Waits!WaitsTypeOK'
    BY <1>0 DEF Waits!registerWaiter, WaitInv, Waits!WaitsTypeOK
  <1>2. WaitTokens'
    BY <1>0 DEF WaitTokens, WaitInv
  <1>3. WaitersWait'
    BY <1>0 DEF WaitersWait, WaitInv
  <1>4. ComesOrMissed'
    BY <1>0 DEF ComesOrMissed, WaitInv
  <1> QED
    BY <1>1, <1>2, <1>3, <1>4 DEF WaitInv

\* An indication goes to the waiter of its token, or is known to have come too early.
LEMMA WaitArrivalKeeps ==
    ASSUME Waits!WaitsAssumption, WaitInv, NEW t \in 1 .. iw_MaxTokens, Waits!IndicationArrives(t)
    PROVE  WaitInv'
  <1> USE DEF WaitInv
  <1>1. Waits!WaitsTypeOK'
    BY DEF Waits!IndicationArrives, Waits!handleIndication, Waits!WaitsTypeOK
  <1>2. WaitTokens' /\ WaitersWait'
    BY DEF Waits!IndicationArrives, Waits!handleIndication, WaitTokens, WaitersWait
  <1>3. ComesOrMissed'
    <2>1. SUFFICES ASSUME NEW c \in iw_Callers, iw_pc[c] \in {"answered", "waits"},
                          iw_handler = "registered"
                   PROVE  iw_token[c] \in iw_owed' \cup iw_channel' \cup iw_missed'
      BY DEF Waits!IndicationArrives, ComesOrMissed
    <2>2. iw_token[c] \in iw_owed \cup iw_channel \cup iw_missed
      BY <2>1 DEF ComesOrMissed
    <2>3. CASE iw_token[c] = t /\ iw_pc[c] = "answered"
      BY <2>1, <2>3 DEF Waits!IndicationArrives
    <2>4. CASE iw_token[c] = t /\ iw_pc[c] = "waits"
      BY <2>1, <2>4 DEF Waits!IndicationArrives, Waits!handleIndication, WaitersWait
    <2>5. CASE iw_token[c] # t
      BY <2>1, <2>2, <2>5 DEF Waits!IndicationArrives, Waits!handleIndication
    <2> QED
      BY <2>1, <2>3, <2>4, <2>5
  <1> QED
    BY <1>1, <1>2, <1>3

\* Whoever ends takes his waiter with him, and no other.
LEMMA WaitEndsKeeps ==
    ASSUME Waits!WaitsAssumption, WaitInv, NEW c \in iw_Callers,
           Waits!TakesIndication(c) \/ Waits!TimesOut(c)
    PROVE  WaitInv'
  <1>0. PICK how \in {"done", "timeout"} : iw_pc[c] = "waits" /\ Waits!Ends(c, how)
    BY DEF Waits!TakesIndication, Waits!TimesOut
  <1>1. /\ UNCHANGED <<iw_handler, iw_tokens, iw_token, iw_owed, iw_missed>>
        /\ iw_waiters' = iw_waiters \ {iw_token[c]} /\ iw_channel' = iw_channel \ {iw_token[c]}
        /\ \A d \in iw_Callers : iw_pc'[d] = IF d = c THEN how ELSE iw_pc[d]
        /\ \A d \in iw_Callers : d # c /\ iw_pc[d] \in {"answered", "waits"}
           => iw_token[d] # iw_token[c]
    BY <1>0 DEF Waits!Ends, WaitInv, Waits!WaitsTypeOK, WaitTokens
  <1>2. Waits!WaitsTypeOK'
    BY <1>0, <1>1 DEF Waits!Ends, WaitInv, Waits!WaitsTypeOK
  <1>3. WaitTokens'
    BY <1>0, <1>1 DEF WaitTokens, WaitInv
  <1>4. WaitersWait'
    BY <1>0, <1>1 DEF WaitersWait, WaitInv
  <1>5. ComesOrMissed'
    BY <1>0, <1>1 DEF ComesOrMissed, WaitInv
  <1> QED
    BY <1>2, <1>3, <1>4, <1>5 DEF WaitInv

\* Tokens, waiters and indications belong together, however answers, indications and
\* timeouts follow each other.
THEOREM WaitInvariant == Spec => []WaitInv
  <1>0. Waits!WaitsAssumption
    BY PartsAssumption
  <1>1. ASSUME Waits!Init
        PROVE  WaitInv
    BY <1>0, <1>1 DEF Waits!Init, WaitInv, Waits!WaitsTypeOK, WaitTokens, WaitersWait,
       ComesOrMissed,
       Waits!WaitsAssumption
  <1>2. ASSUME WaitInv, [Waits!Next]_(Waits!vars)
        PROVE  WaitInv'
    <2>1. CASE UNCHANGED Waits!vars
      BY <1>2, <2>1 DEF Waits!vars, WaitInv, Waits!WaitsTypeOK, WaitTokens, WaitersWait,
         ComesOrMissed
    <2> QED
      BY <1>0, <1>2, <2>1, WaitServiceKeeps, WaitSendsKeeps, WaitAnswerKeeps,
         WaitRegistersKeeps, WaitArrivalKeeps, WaitEndsKeeps DEF Waits!Next
  <1> QED
    BY <1>1, <1>2, WaitsRuns, PTL DEF Waits!Spec

\* The invariant gives every indication to its own caller.
LEMMA WaitInvMatches ==
    ASSUME WaitInv
    PROVE  Waits!IndicationsMatched
  <1>1. ASSUME NEW t \in iw_waiters
        PROVE  Cardinality({c \in iw_Callers : iw_pc[c] = "waits" /\ iw_token[c] = t}) = 1
    <2> DEFINE S == {c \in iw_Callers : iw_pc[c] = "waits" /\ iw_token[c] = t}
    <2>1. PICK c \in iw_Callers : iw_pc[c] = "waits" /\ iw_token[c] = t
      BY <1>1 DEF WaitInv, WaitersWait
    <2>2. S = {c}
      BY <2>1 DEF WaitInv, WaitTokens
    <2>3. Cardinality(S) = 1
      BY <2>2, FS_Singleton
    <2> QED
      BY <2>3
  <1> QED
    BY <1>1, SameCount DEF WaitInv, WaitersWait, ComesOrMissed, Waits!IndicationsMatched,
       Waits!OwnIndication,
       Waits!InVainIfMissed

-----------------------------------------------------------------------------
\* A step is one of this part, or leaves it alone.
LEMMA ProxyRuns == Spec => Proxy!Spec
  <1>1. Init => Proxy!Init
    BY DEF Init
  <1>2. ASSUME [Next]_vars
        PROVE  [Proxy!Next]_(Proxy!vars)
    <2>1. RunProxy \/ UNCHANGED varsProxy
      BY <1>2 DEF Next, vars, RunEmitter, RunRebind, RunTimeouts, RunIdentities, RunPdn, RunProbe,
         RunServing, RunData, RunClientIds, RunQrtr, RunDecoders, RunModemPool, RunWaits,
         RunProxy, RunSim, RunMuxes, RunSms
    <2>2. CASE RunProxy
      BY <2>2 DEF RunProxy
    <2>3. CASE UNCHANGED varsProxy
      BY <2>3 DEF varsProxy, Proxy!vars
    <2> QED
      BY <2>1, <2>2, <2>3
  <1> QED
    BY <1>1, <1>2, PTL DEF Spec, Proxy!Spec

\* What an opener has at each place: a process of its own after the launch, a connection
\* once it is open, and an attempt it waited for unless it never had to.
BeforeLaunch == {"dial", "claim", "check", "launch", "wait", "redial"}
Unconnected == BeforeLaunch \cup {"retry"}
Waited == {"wait", "redial"} \cup Proxy!Returned
OpenerHas ==
    /\ \A o \in px_Openers : px_at[o] \in BeforeLaunch => px_process[o] = "none"
    /\ \A o \in px_Openers : px_at[o] \in Unconnected => px_conn[o] = "nobody"
    /\ \A o \in px_Openers : px_at[o] = "open" => px_conn[o] # "nobody"
    /\ \A o \in px_Openers : px_conn[o] # "nobody" => px_process[px_conn[o]] \in {"serving", "gone"}
WaiterHas ==
    /\ \A o \in px_Openers : px_waitsFor[o] # "nobody" => px_at[o] \in Waited
    /\ \A o \in px_Openers : px_at[o] \in {"wait", "redial"} => px_waitsFor[o] \in px_Openers
    /\ \A o \in px_Openers : px_at[o] = "redial" => px_at[px_waitsFor[o]] = "open"
\* The owner who is about to launch a process, and had the time to look, has found none
\* that the opener who launched it is connected to.
LaunchesAlone ==
    \A o, p \in px_Openers :
        px_at[o] = "launch" /\ o \notin px_hurried /\ px_conn[p] = p => px_process[p] = "gone"
\* A reason to fail stays one: the process that is gone is that of a connection.
ReasonsStay ==
    \A o \in px_Openers :
        px_at[o] = "failed" /\ px_waitsFor[o] # "nobody" =>
            \/ o \in px_expired \/ px_at[px_waitsFor[o]] = "failed"
            \/ px_conn[px_waitsFor[o]] # "nobody" /\ px_process[px_conn[px_waitsFor[o]]] = "gone"
ProxyInv ==
    /\ Proxy!ProxyTypeOK /\ Proxy!OneOwner /\ OpenerHas /\ WaiterHas /\ LaunchesAlone
    /\ Proxy!NoForkBesides /\ ReasonsStay

\* An opener who dials connects to a process that serves, and to no "nobody".
LEMMA ConnectGives ==
    ASSUME Proxy!ProxyAssumption, Proxy!ProxyTypeOK, NEW o \in px_Openers, Proxy!Connect(o)
    PROVE  /\ px_conn' \in [px_Openers -> Proxy!Processes \cup {"nobody"}]
           /\ px_conn'[o] \in Proxy!Processes /\ px_conn'[o] # "nobody"
              /\ px_process[px_conn'[o]] = "serving"
           /\ \A p \in px_Openers : p # o => px_conn'[p] = px_conn[p]
  <1>1. PICK p \in Proxy!Serving : px_conn' = [px_conn EXCEPT ![o] = p]
    BY DEF Proxy!Connect
  <1>2. p \in Proxy!Processes /\ p # "nobody" /\ px_process[p] = "serving"
    BY DEF Proxy!Serving, Proxy!Processes, Proxy!ProxyAssumption
  <1> QED
    BY <1>1, <1>2 DEF Proxy!ProxyTypeOK

\* The only opener who is at a place changes it.
LEMMA GotoGives ==
    ASSUME Proxy!ProxyTypeOK, NEW o \in px_Openers, NEW place \in Proxy!Places, Proxy!Goto(o, place)
    PROVE  /\ px_at' \in [px_Openers -> Proxy!Places] /\ px_at'[o] = place
           /\ \A p \in px_Openers : p # o => px_at'[p] = px_at[p]
  BY DEF Proxy!Goto, Proxy!ProxyTypeOK

\* The first dial and the claim of the attempt.
LEMMA DialKeeps ==
    ASSUME Proxy!ProxyAssumption, ProxyInv, NEW o \in px_Openers, Proxy!Dial(o)
    PROVE  ProxyInv'
  <1> USE DEF ProxyInv
  <1>0. px_at[o] = "dial" /\ px_conn[o] = "nobody" /\ px_process[o] = "none"
        /\ px_waitsFor[o] = "nobody"
    BY DEF Proxy!Dial, OpenerHas, WaiterHas, BeforeLaunch, Unconnected, Waited, Proxy!Returned
  <1>1. UNCHANGED <<px_expired, px_starting, px_waitsFor, px_hurried, px_process>>
    BY DEF Proxy!Dial
  <1>2. /\ px_at' \in [px_Openers -> Proxy!Places] /\ \A p \in px_Openers : p # o
           => px_at'[p] = px_at[p]
        /\ px_at'[o] \in {"open", "claim", "failed"}
        /\ px_conn' \in [px_Openers -> Proxy!Processes \cup {"nobody"}]
        /\ \A p \in px_Openers : p # o => px_conn'[p] = px_conn[p]
        /\ px_at'[o] = "open" => px_conn'[o] # "nobody" /\ px_process[px_conn'[o]] = "serving"
        /\ px_at'[o] # "open" => px_conn'[o] = "nobody"
    <2>1. CASE Proxy!Reachable(o) /\ Proxy!Connect(o) /\ Proxy!Goto(o, "open")
      BY <2>1, ConnectGives, GotoGives DEF Proxy!Places, Proxy!Returned
    <2>2. CASE (Proxy!Goto(o, "claim") \/ Proxy!Goto(o, "failed")) /\ UNCHANGED px_conn
      BY <1>0, <2>2, GotoGives DEF Proxy!Places, Proxy!Returned, Proxy!ProxyTypeOK
    <2> QED
      BY <2>1, <2>2 DEF Proxy!Dial
  <1>3. Proxy!ProxyTypeOK'
    BY <1>1, <1>2 DEF Proxy!ProxyTypeOK, Proxy!Processes
  <1>4. Proxy!OneOwner'
    <2>1. \A p \in px_Openers : px_at'[p] \in Proxy!Owning <=> px_starting' = p
      BY <1>0, <1>1, <1>2 DEF Proxy!OneOwner, Proxy!Owning
    <2>2. ASSUME NEW p \in px_Openers, px_at'[p] = "wait"
          PROVE  px_waitsFor'[p] = px_starting' \/ px_at'[px_waitsFor'[p]] \in Proxy!Returned
      <3>1. p # o /\ px_at[p] = "wait" /\ px_waitsFor[p] \in px_Openers
        BY <1>2, <2>2 DEF WaiterHas
      <3>2. px_waitsFor[p] = px_starting \/ px_at[px_waitsFor[p]] \in Proxy!Returned
        BY <3>1 DEF Proxy!OneOwner
      <3> QED
        BY <1>0, <1>1, <1>2, <3>1, <3>2 DEF Proxy!Returned
    <2> QED
      BY <2>1, <2>2 DEF Proxy!OneOwner
  <1>5. OpenerHas'
    BY <1>0, <1>1, <1>2 DEF OpenerHas, BeforeLaunch, Unconnected
  <1>6. WaiterHas'
    BY <1>0, <1>1, <1>2 DEF WaiterHas, Waited, Proxy!Returned
  <1>7. LaunchesAlone'
    BY <1>0, <1>1, <1>2 DEF LaunchesAlone
  <1>8. Proxy!NoForkBesides'
    BY <1>0, <1>1, <1>2 DEF Proxy!NoForkBesides, Proxy!Abandoned, Proxy!Live, Proxy!Returned,
       Proxy!Processes
  <1>9. ReasonsStay'
    <2>1. SUFFICES ASSUME NEW p \in px_Openers, px_at'[p] = "failed", px_waitsFor'[p] # "nobody"
                   PROVE  \/ p \in px_expired' \/ px_at'[px_waitsFor'[p]] = "failed"
                          \/ /\ px_conn'[px_waitsFor'[p]] # "nobody"
                             /\ px_process'[px_conn'[px_waitsFor'[p]]] = "gone"
      BY DEF ReasonsStay
    <2>2. p # o /\ px_at[p] = "failed" /\ px_waitsFor[p] \in px_Openers
      BY <1>0, <1>1, <1>2, <2>1 DEF Proxy!ProxyTypeOK
    <2> QED
      BY <1>0, <1>1, <1>2, <2>1, <2>2 DEF ReasonsStay
  <1> QED
    BY <1>3, <1>4, <1>5, <1>6, <1>7, <1>8, <1>9

\* The attempt is taken over by one, or waited for.
LEMMA ClaimKeeps ==
    ASSUME Proxy!ProxyAssumption, ProxyInv, NEW o \in px_Openers, Proxy!Claim(o)
    PROVE  ProxyInv'
  <1> USE DEF ProxyInv
  <1>0. px_at[o] = "claim" /\ px_conn[o] = "nobody" /\ px_process[o] = "none"
        /\ px_waitsFor[o] = "nobody"
    BY DEF Proxy!Claim, OpenerHas, WaiterHas, BeforeLaunch, Unconnected, Waited, Proxy!Returned
  <1>1. UNCHANGED <<px_expired, px_conn, px_hurried, px_process>>
    BY DEF Proxy!Claim
  <1>2. /\ px_at' \in [px_Openers -> Proxy!Places] /\ \A p \in px_Openers : p # o
           => px_at'[p] = px_at[p]
        /\ px_waitsFor' \in [px_Openers -> px_Openers \cup {"nobody"}]
        /\ \A p \in px_Openers : p # o => px_waitsFor'[p] = px_waitsFor[p]
        /\ px_starting' \in px_Openers \cup {"nobody"}
        /\ \/ /\ px_starting = "nobody" /\ px_starting' = o /\ px_at'[o] = "check"
              /\ px_waitsFor'[o] = "nobody"
           \/ /\ px_starting # "nobody" /\ px_starting' = px_starting /\ px_at'[o] = "wait"
              /\ px_waitsFor'[o] = px_starting
    <2>1. CASE px_starting = "nobody"
      <3>1. px_starting' = o /\ Proxy!Goto(o, "check") /\ UNCHANGED px_waitsFor
        BY <2>1 DEF Proxy!Claim
      <3> QED
        BY <1>0, <2>1, <3>1, GotoGives DEF Proxy!Places, Proxy!Owning, Proxy!ProxyTypeOK
    <2>2. CASE px_starting # "nobody"
      <3>1. /\ Proxy!Goto(o, "wait") /\ px_waitsFor' = [px_waitsFor EXCEPT ![o] = px_starting]
            /\ UNCHANGED px_starting
        BY <2>2 DEF Proxy!Claim
      <3> QED
        BY <2>2, <3>1, GotoGives DEF Proxy!Places, Proxy!ProxyTypeOK
    <2> QED
      BY <2>1, <2>2
  <1>3. Proxy!ProxyTypeOK'
    BY <1>1, <1>2 DEF Proxy!ProxyTypeOK, Proxy!Processes
  <1>4. Proxy!OneOwner'
    <2>1. \A p \in px_Openers : px_at'[p] \in Proxy!Owning <=> px_starting' = p
      BY <1>0, <1>1, <1>2 DEF Proxy!OneOwner, Proxy!Owning, Proxy!ProxyAssumption
    <2>2. ASSUME NEW p \in px_Openers, px_at'[p] = "wait"
          PROVE  px_waitsFor'[p] = px_starting' \/ px_at'[px_waitsFor'[p]] \in Proxy!Returned
      <3>1. CASE p = o
        BY <1>2, <2>2, <3>1
      <3>2. CASE p # o
        <4>1. px_at[p] = "wait" /\ px_waitsFor[p] \in px_Openers /\ px_waitsFor'[p] = px_waitsFor[p]
          BY <1>2, <2>2, <3>2 DEF WaiterHas
        <4>2. px_waitsFor[p] = px_starting \/ px_at[px_waitsFor[p]] \in Proxy!Returned
          BY <4>1 DEF Proxy!OneOwner
        <4> QED
          BY <1>0, <1>2, <4>1, <4>2 DEF Proxy!Returned, Proxy!ProxyAssumption
      <3> QED
        BY <3>1, <3>2
    <2> QED
      BY <2>1, <2>2 DEF Proxy!OneOwner
  <1>5. OpenerHas'
    BY <1>0, <1>1, <1>2 DEF OpenerHas, BeforeLaunch, Unconnected
  <1>6. WaiterHas'
    <2>1. ASSUME NEW p \in px_Openers, px_at'[p] = "redial"
          PROVE  px_at'[px_waitsFor'[p]] = "open"
      <3>1. p # o /\ px_at[p] = "redial" /\ px_waitsFor[p] \in px_Openers
            /\ px_at[px_waitsFor[p]] = "open"
        BY <1>2, <2>1 DEF WaiterHas
      <3> QED
        BY <1>0, <1>2, <3>1
    <2>2. \A p \in px_Openers : px_at'[p] \in {"wait", "redial"} => px_waitsFor'[p] \in px_Openers
      BY <1>2 DEF WaiterHas, Proxy!ProxyTypeOK
    <2>3. \A p \in px_Openers : px_waitsFor'[p] # "nobody" => px_at'[p] \in Waited
      BY <1>2 DEF WaiterHas, Waited
    <2> QED
      BY <2>1, <2>2, <2>3 DEF WaiterHas
  <1>7. LaunchesAlone'
    BY <1>0, <1>1, <1>2 DEF LaunchesAlone
  <1>8. Proxy!NoForkBesides'
    BY <1>0, <1>1, <1>2 DEF Proxy!NoForkBesides, Proxy!Abandoned, Proxy!Live, Proxy!Returned,
       Proxy!Processes
  <1>9. ReasonsStay'
    <2>1. SUFFICES ASSUME NEW p \in px_Openers, px_at'[p] = "failed", px_waitsFor'[p] # "nobody"
                   PROVE  \/ p \in px_expired' \/ px_at'[px_waitsFor'[p]] = "failed"
                          \/ /\ px_conn'[px_waitsFor'[p]] # "nobody"
                             /\ px_process'[px_conn'[px_waitsFor'[p]]] = "gone"
      BY DEF ReasonsStay
    <2>2. p # o /\ px_at[p] = "failed" /\ px_waitsFor'[p] = px_waitsFor[p]
          /\ px_waitsFor[p] \in px_Openers
      BY <1>0, <1>1, <1>2, <2>1 DEF Proxy!ProxyTypeOK
    <2> QED
      BY <1>0, <1>1, <1>2, <2>1, <2>2 DEF ReasonsStay
  <1> QED
    BY <1>3, <1>4, <1>5, <1>6, <1>7, <1>8, <1>9

\* What a step of the owner from one place of the attempt to the next leaves as it was.
OwnerMoves(o) ==
    /\ px_at' \in [px_Openers -> Proxy!Places] /\ px_at[o] \in Proxy!Owning
       /\ px_at'[o] \in Proxy!Owning
    /\ \A p \in px_Openers : p # o => px_at'[p] = px_at[p] /\ px_conn'[p] = px_conn[p]
    /\ px_conn' \in [px_Openers -> Proxy!Processes \cup {"nobody"}]
    /\ UNCHANGED <<px_expired, px_starting, px_waitsFor>>

\* The owner's steps do not concern those who wait.
LEMMA OwnerMovesKeeps ==
    ASSUME Proxy!ProxyAssumption, ProxyInv, NEW o \in px_Openers, OwnerMoves(o),
           px_process' \in [Proxy!Processes -> {"none", "binding", "serving", "gone"}],
           px_conn[o] = "nobody" \/ px_conn'[o] = px_conn[o],
           \A p \in Proxy!Processes : px_process[p] = "gone" => px_process'[p] = "gone"
    PROVE  Proxy!OneOwner' /\ WaiterHas' /\ ReasonsStay'
  <1> USE DEF ProxyInv, OwnerMoves
  <1>1. Proxy!OneOwner'
    <2>1. \A p \in px_Openers : px_at'[p] \in Proxy!Owning <=> px_starting' = p
      BY DEF Proxy!OneOwner
    <2>2. ASSUME NEW p \in px_Openers, px_at'[p] = "wait"
          PROVE  px_waitsFor'[p] = px_starting' \/ px_at'[px_waitsFor'[p]] \in Proxy!Returned
      <3>1. p # o /\ px_at[p] = "wait" /\ px_waitsFor[p] \in px_Openers
        BY <2>2 DEF WaiterHas, Proxy!Owning
      <3>2. px_waitsFor[p] = px_starting \/ px_at[px_waitsFor[p]] \in Proxy!Returned
        BY <3>1 DEF Proxy!OneOwner
      <3> QED
        BY <3>1, <3>2 DEF Proxy!Returned, Proxy!Owning
    <2> QED
      BY <2>1, <2>2 DEF Proxy!OneOwner
  <1>2. WaiterHas'
    BY DEF WaiterHas, Proxy!Owning, Waited, Proxy!Returned
  <1>3. ReasonsStay'
    <2>1. SUFFICES ASSUME NEW p \in px_Openers, px_at'[p] = "failed", px_waitsFor'[p] # "nobody"
                   PROVE  \/ p \in px_expired' \/ px_at'[px_waitsFor'[p]] = "failed"
                          \/ /\ px_conn'[px_waitsFor'[p]] # "nobody"
                             /\ px_process'[px_conn'[px_waitsFor'[p]]] = "gone"
      BY DEF ReasonsStay
    <2>2. p # o /\ px_at[p] = "failed" /\ px_waitsFor[p] \in px_Openers
      BY <2>1 DEF Proxy!ProxyTypeOK, Proxy!Owning
    <2>3. \/ p \in px_expired \/ px_at[px_waitsFor[p]] = "failed"
          \/ px_conn[px_waitsFor[p]] # "nobody" /\ px_process[px_conn[px_waitsFor[p]]] = "gone"
      BY <2>1, <2>2 DEF ReasonsStay
    <2>4. CASE px_conn[px_waitsFor[p]] # "nobody" /\ px_process[px_conn[px_waitsFor[p]]] = "gone"
      <3>1. px_conn'[px_waitsFor[p]] = px_conn[px_waitsFor[p]]
            /\ px_conn[px_waitsFor[p]] \in Proxy!Processes
        BY <2>2, <2>4 DEF Proxy!ProxyTypeOK
      <3> QED
        BY <2>4, <3>1
    <2> QED
      BY <2>2, <2>3, <2>4 DEF Proxy!Owning
  <1> QED
    BY <1>1, <1>2, <1>3

\* The owner dials before it launches a process, and dials on after it.
LEMMA OwnerDialsKeep ==
    ASSUME Proxy!ProxyAssumption, ProxyInv, NEW o \in px_Openers, Proxy!Check(o) \/ Proxy!Retry(o)
    PROVE  ProxyInv'
  <1> USE DEF ProxyInv
  <1>0. px_at[o] \in {"check", "retry"} /\ px_conn[o] = "nobody"
    BY DEF Proxy!Check, Proxy!Retry, OpenerHas, BeforeLaunch, Unconnected
  <1>1. UNCHANGED <<px_expired, px_starting, px_waitsFor, px_process>>
        /\ px_hurried \subseteq px_hurried'
    BY DEF Proxy!Check, Proxy!Retry
  <1>2. /\ px_at' \in [px_Openers -> Proxy!Places] /\ \A p \in px_Openers : p # o
           => px_at'[p] = px_at[p]
        /\ px_at'[o] \in {"leave", "launch"} /\ (px_at'[o] = "launch" => px_at[o] = "check")
        /\ px_conn' \in [px_Openers -> Proxy!Processes \cup {"nobody"}]
        /\ \A p \in px_Openers : p # o => px_conn'[p] = px_conn[p]
        /\ px_conn'[o] # "nobody" => px_process[px_conn'[o]] = "serving"
        /\ px_at'[o] = "launch" => /\ px_conn'[o] = "nobody" /\ ~Proxy!Reachable(o)
                                   /\ px_hurried' = px_hurried \cup ({o} \cap px_expired)
        /\ px_at'[o] # "launch" => px_hurried' = px_hurried
    <2>1. CASE /\ Proxy!Reachable(o) /\ Proxy!Connect(o) /\ Proxy!Goto(o, "leave")
          /\ UNCHANGED px_hurried
      BY <1>0, <2>1, ConnectGives, GotoGives DEF Proxy!Places, Proxy!Owning
    <2>2. CASE /\ Proxy!Check(o) /\ ~Proxy!Reachable(o) /\ Proxy!Goto(o, "launch")
          /\ UNCHANGED px_conn
               /\ px_hurried' = px_hurried \cup ({o} \cap px_expired)
      BY <1>0, <2>2, GotoGives DEF Proxy!Places, Proxy!Owning, Proxy!ProxyTypeOK, Proxy!Check
    <2>3. CASE Proxy!Goto(o, "leave") /\ UNCHANGED <<px_conn, px_hurried>>
      BY <1>0, <2>3, GotoGives DEF Proxy!Places, Proxy!Owning, Proxy!ProxyTypeOK
    <2> QED
      BY <2>1, <2>2, <2>3 DEF Proxy!Check, Proxy!Retry
  <1>3. Proxy!ProxyTypeOK'
    BY <1>1, <1>2 DEF Proxy!ProxyTypeOK, Proxy!Processes
  <1>4. Proxy!OneOwner' /\ WaiterHas' /\ ReasonsStay'
    BY <1>0, <1>1, <1>2, <1>3, OwnerMovesKeeps DEF OwnerMoves, Proxy!Owning, Proxy!ProxyTypeOK
  <1>5. OpenerHas'
    BY <1>0, <1>1, <1>2 DEF OpenerHas, BeforeLaunch, Unconnected
  <1>7. LaunchesAlone'
    <2>1. SUFFICES ASSUME NEW q \in px_Openers, NEW p \in px_Openers,
                          px_at'[q] = "launch", q \notin px_hurried', px_conn'[p] = p
                   PROVE  px_process'[p] = "gone"
      BY DEF LaunchesAlone
    <2>2. CASE q = o
      <3>1. Proxy!Serving = {} /\ p # o
        BY <1>1, <1>2, <2>1, <2>2 DEF Proxy!Reachable, Proxy!ProxyAssumption
      <3>2. px_process[p] \in {"serving", "gone"}
        BY <1>2, <2>1, <3>1 DEF OpenerHas, Proxy!ProxyAssumption
      <3> QED
        BY <1>1, <3>1, <3>2 DEF Proxy!Serving, Proxy!Processes
    <2>3. CASE q # o
      <3>1. px_at[q] = "launch"
        BY <1>2, <2>1, <2>3
      <3> QED
        BY <1>0, <2>3, <3>1 DEF Proxy!OneOwner, Proxy!Owning
    <2> QED
      BY <2>2, <2>3
  <1>8. Proxy!NoForkBesides'
    BY <1>0, <1>1, <1>2 DEF Proxy!NoForkBesides, Proxy!Abandoned, Proxy!Live, Proxy!Returned,
       Proxy!Processes
  <1> QED
    BY <1>3, <1>4, <1>5, <1>7, <1>8

\* The process launched is the second one alive only with a reason.
LEMMA LaunchKeeps ==
    ASSUME Proxy!ProxyAssumption, ProxyInv, NEW o \in px_Openers, Proxy!Launch(o)
    PROVE  ProxyInv'
  <1> USE DEF ProxyInv
  <1>0. px_at[o] = "launch" /\ px_conn[o] = "nobody" /\ px_process[o] = "none"
        /\ o \in Proxy!Processes
    BY DEF Proxy!Launch, OpenerHas, BeforeLaunch, Unconnected, Proxy!Processes
  <1>1. UNCHANGED <<px_expired, px_starting, px_waitsFor, px_conn, px_hurried>>
    BY DEF Proxy!Launch
  <1>2. /\ px_at' \in [px_Openers -> Proxy!Places] /\ \A p \in px_Openers : p # o
           => px_at'[p] = px_at[p]
        /\ px_at'[o] \in {"retry", "leave"}
        /\ px_process' \in [Proxy!Processes -> {"none", "binding", "serving", "gone"}]
        /\ \A p \in Proxy!Processes : p # o => px_process'[p] = px_process[p]
    <2>1. CASE px_process' = [px_process EXCEPT ![o] = "binding"] /\ Proxy!Goto(o, "retry")
      BY <2>1, GotoGives DEF Proxy!Places, Proxy!Owning, Proxy!ProxyTypeOK
    <2>2. CASE Proxy!Goto(o, "leave") /\ UNCHANGED px_process
      BY <2>2, GotoGives DEF Proxy!Places, Proxy!Owning, Proxy!ProxyTypeOK
    <2> QED
      BY <2>1, <2>2 DEF Proxy!Launch
  <1>3. Proxy!ProxyTypeOK'
    BY <1>1, <1>2 DEF Proxy!ProxyTypeOK
  <1>4. Proxy!OneOwner' /\ WaiterHas' /\ ReasonsStay'
    BY <1>0, <1>1, <1>2, <1>3, OwnerMovesKeeps DEF OwnerMoves, Proxy!Owning, Proxy!ProxyTypeOK
  <1>5. OpenerHas'
    <2>1. ASSUME NEW p \in px_Openers, px_conn'[p] # "nobody"
          PROVE  px_process'[px_conn'[p]] \in {"serving", "gone"}
      <3>1. px_conn[p] \in Proxy!Processes /\ px_process[px_conn[p]] \in {"serving", "gone"}
        BY <1>1, <2>1 DEF OpenerHas, Proxy!ProxyTypeOK
      <3> QED
        BY <1>0, <1>1, <1>2, <3>1
    <2> QED
      BY <1>0, <1>1, <1>2, <2>1 DEF OpenerHas, BeforeLaunch, Unconnected, Proxy!Processes
  <1>7. LaunchesAlone'
    BY <1>0, <1>1, <1>2 DEF LaunchesAlone, Proxy!Processes
  <1>8. Proxy!NoForkBesides'
    <2>1. ASSUME NEW q \in Proxy!Live' \cap px_Openers, q # o
          PROVE  q \in Proxy!Live /\ px_at[q] \notin BeforeLaunch /\ px_at[q] \notin Proxy!Owning
      <3>1. px_process[q] # "none" /\ q \in Proxy!Live
        BY <1>2, <2>1 DEF Proxy!Live, Proxy!Processes
      <3> QED
        BY <1>0, <2>1, <3>1 DEF OpenerHas, Proxy!OneOwner, Proxy!Owning
    <2>2. ASSUME NEW q \in Proxy!Live' \cap px_Openers, q # o, o \notin px_hurried
          PROVE  Proxy!Abandoned(q)
      <3>1. px_at[q] \in Proxy!Returned
        BY <2>1, <2>2 DEF Proxy!ProxyTypeOK, Proxy!Places, BeforeLaunch, Proxy!Owning
      <3>2. px_conn[q] # q
        BY <1>0, <2>1, <2>2 DEF LaunchesAlone, Proxy!Live
      <3> QED
        BY <3>1, <3>2 DEF Proxy!Abandoned
    <2>3. \A q \in px_Openers : q # o => Proxy!Abandoned(q)' = Proxy!Abandoned(q)
      BY <1>1, <1>2 DEF Proxy!Abandoned
    <2>4. SUFFICES ASSUME NEW p \in Proxy!Live' \cap px_Openers,
                          NEW q \in Proxy!Live' \cap px_Openers, p # q
                   PROVE  {p, q} \cap px_hurried # {} \/ Proxy!Abandoned(p)' \/ Proxy!Abandoned(q)'
      BY <1>1 DEF Proxy!NoForkBesides
    <2>5. CASE p = o
      BY <2>2, <2>3, <2>4, <2>5
    <2>6. CASE q = o
      BY <2>2, <2>3, <2>4, <2>6
    <2>7. CASE p # o /\ q # o
      BY <2>1, <2>3, <2>4, <2>7 DEF Proxy!NoForkBesides
    <2> QED
      BY <2>5, <2>6, <2>7
  <1> QED
    BY <1>3, <1>4, <1>5, <1>7, <1>8

\* The attempt leaves the table with its result.
LEMMA LeaveKeeps ==
    ASSUME Proxy!ProxyAssumption, ProxyInv, NEW o \in px_Openers, Proxy!Leave(o)
    PROVE  ProxyInv'
  <1> USE DEF ProxyInv
  <1>0. px_at[o] = "leave" /\ px_starting = o /\ px_starting' = "nobody"
    BY DEF Proxy!Leave, Proxy!OneOwner, Proxy!Owning
  <1>1. UNCHANGED <<px_expired, px_waitsFor, px_conn, px_hurried, px_process>>
    BY DEF Proxy!Leave
  <1>2. /\ px_at' \in [px_Openers -> Proxy!Places] /\ \A p \in px_Openers : p # o
           => px_at'[p] = px_at[p]
        /\ px_at'[o] = IF px_conn[o] = "nobody" THEN "failed" ELSE "open"
    BY GotoGives DEF Proxy!Leave, Proxy!Places, Proxy!Returned
  <1>3. Proxy!ProxyTypeOK'
    BY <1>0, <1>1, <1>2 DEF Proxy!ProxyTypeOK, Proxy!Processes
  <1>4. Proxy!OneOwner'
    <2>1. \A p \in px_Openers : px_at'[p] \in Proxy!Owning <=> px_starting' = p
      BY <1>0, <1>2 DEF Proxy!OneOwner, Proxy!Owning, Proxy!ProxyAssumption
    <2>2. ASSUME NEW p \in px_Openers, px_at'[p] = "wait"
          PROVE  px_waitsFor'[p] = px_starting' \/ px_at'[px_waitsFor'[p]] \in Proxy!Returned
      <3>1. p # o /\ px_at[p] = "wait" /\ px_waitsFor[p] \in px_Openers
        BY <1>2, <2>2 DEF WaiterHas
      <3>2. px_waitsFor[p] = px_starting \/ px_at[px_waitsFor[p]] \in Proxy!Returned
        BY <3>1 DEF Proxy!OneOwner
      <3> QED
        BY <1>0, <1>1, <1>2, <3>1, <3>2 DEF Proxy!Returned
    <2> QED
      BY <2>1, <2>2 DEF Proxy!OneOwner
  <1>5. OpenerHas'
    BY <1>0, <1>1, <1>2 DEF OpenerHas, BeforeLaunch, Unconnected
  <1>6. WaiterHas'
    BY <1>0, <1>1, <1>2 DEF WaiterHas, Waited, Proxy!Returned
  <1>7. LaunchesAlone'
    BY <1>1, <1>2 DEF LaunchesAlone
  <1>8. Proxy!NoForkBesides'
    BY <1>1, <1>2 DEF Proxy!NoForkBesides, Proxy!Abandoned, Proxy!Live, Proxy!Returned,
       Proxy!Processes
  <1>9. ReasonsStay'
    <2>1. px_waitsFor[o] = "nobody"
      BY <1>0 DEF WaiterHas, Waited, Proxy!Returned
    <2> QED
      BY <1>0, <1>1, <1>2, <2>1 DEF ReasonsStay, Proxy!ProxyTypeOK
  <1> QED
    BY <1>3, <1>4, <1>5, <1>6, <1>7, <1>8, <1>9

\* Who waited takes the owner's error, or dials once more and fails only for a reason.
LEMMA WaitersKeep ==
    ASSUME Proxy!ProxyAssumption, ProxyInv, NEW o \in px_Openers,
           Proxy!Awaited(o) \/ Proxy!Redial(o)
    PROVE  ProxyInv'
  <1> USE DEF ProxyInv
  <1>0. /\ px_at[o] \in {"wait", "redial"} /\ px_conn[o] = "nobody" /\ px_waitsFor[o] \in px_Openers
        /\ px_process[o] = "none"
    BY DEF Proxy!Awaited, Proxy!Redial, OpenerHas, WaiterHas, BeforeLaunch, Unconnected
  <1>1. UNCHANGED <<px_expired, px_starting, px_waitsFor, px_hurried, px_process>>
    BY DEF Proxy!Awaited, Proxy!Redial
  <1>2. /\ px_at' \in [px_Openers -> Proxy!Places] /\ \A p \in px_Openers : p # o
           => px_at'[p] = px_at[p]
        /\ px_at'[o] \in {"redial", "failed", "open"}
        /\ px_conn' \in [px_Openers -> Proxy!Processes \cup {"nobody"}]
        /\ \A p \in px_Openers : p # o => px_conn'[p] = px_conn[p]
        /\ px_at'[o] = "open" => px_conn'[o] # "nobody" /\ px_process[px_conn'[o]] = "serving"
        /\ px_at'[o] # "open" => px_conn'[o] = "nobody"
        /\ px_at'[o] = "redial" => px_at[px_waitsFor[o]] = "open"
        /\ px_at'[o] = "failed" => \/ o \in px_expired \/ px_at[px_waitsFor[o]] = "failed"
                                   \/ px_at[px_waitsFor[o]] = "open" /\ Proxy!Serving = {}
    <2>1. CASE /\ Proxy!Awaited(o) /\ px_at[px_waitsFor[o]] = "open" /\ Proxy!Goto(o, "redial")
      BY <1>0, <2>1, GotoGives DEF Proxy!Places, Proxy!ProxyTypeOK, Proxy!Awaited
    <2>2. CASE /\ Proxy!Awaited(o) /\ px_at[px_waitsFor[o]] = "failed" /\ Proxy!Goto(o, "failed")
      BY <1>0, <2>2, GotoGives DEF Proxy!Places, Proxy!Returned, Proxy!ProxyTypeOK, Proxy!Awaited
    <2>3. CASE /\ Proxy!Awaited(o) /\ o \in px_expired /\ Proxy!Goto(o, "failed")
      BY <1>0, <2>3, GotoGives DEF Proxy!Places, Proxy!Returned, Proxy!ProxyTypeOK, Proxy!Awaited
    <2>4. CASE Proxy!Redial(o) /\ Proxy!Reachable(o)
      <3>1. Proxy!Connect(o) /\ Proxy!Goto(o, "open")
        BY <2>4 DEF Proxy!Redial
      <3> QED
        BY <1>0, <3>1, ConnectGives, GotoGives DEF Proxy!Places, Proxy!Returned
    <2>5. CASE Proxy!Redial(o) /\ ~Proxy!Reachable(o)
      <3>1. Proxy!Goto(o, "failed") /\ UNCHANGED px_conn /\ px_at[px_waitsFor[o]] = "open"
        BY <2>5 DEF Proxy!Redial, WaiterHas
      <3> QED
        BY <1>0, <2>5, <3>1, GotoGives DEF Proxy!Places, Proxy!Returned, Proxy!ProxyTypeOK,
           Proxy!Reachable
    <2> QED
      BY <2>1, <2>2, <2>3, <2>4, <2>5 DEF Proxy!Awaited
  <1>3. Proxy!ProxyTypeOK'
    BY <1>1, <1>2 DEF Proxy!ProxyTypeOK, Proxy!Processes
  <1>4. Proxy!OneOwner'
    <2>1. \A p \in px_Openers : px_at'[p] \in Proxy!Owning <=> px_starting' = p
      BY <1>0, <1>1, <1>2 DEF Proxy!OneOwner, Proxy!Owning
    <2>2. ASSUME NEW p \in px_Openers, px_at'[p] = "wait"
          PROVE  px_waitsFor'[p] = px_starting' \/ px_at'[px_waitsFor'[p]] \in Proxy!Returned
      <3>1. p # o /\ px_at[p] = "wait" /\ px_waitsFor[p] \in px_Openers
        BY <1>2, <2>2 DEF WaiterHas
      <3>2. px_waitsFor[p] = px_starting \/ px_at[px_waitsFor[p]] \in Proxy!Returned
        BY <3>1 DEF Proxy!OneOwner
      <3> QED
        BY <1>0, <1>1, <1>2, <3>1, <3>2 DEF Proxy!Returned
    <2> QED
      BY <2>1, <2>2 DEF Proxy!OneOwner
  <1>5. OpenerHas'
    BY <1>0, <1>1, <1>2 DEF OpenerHas, BeforeLaunch, Unconnected
  <1>6. WaiterHas'
    <2>1. ASSUME NEW p \in px_Openers, px_at'[p] = "redial"
          PROVE  px_at'[px_waitsFor'[p]] = "open"
      <3>1. px_at[px_waitsFor[p]] = "open" /\ px_waitsFor[p] \in px_Openers
        BY <1>0, <1>2, <2>1 DEF WaiterHas
      <3> QED
        BY <1>0, <1>1, <1>2, <3>1
    <2> QED
      BY <1>0, <1>1, <1>2, <2>1 DEF WaiterHas, Waited, Proxy!Returned
  <1>7. LaunchesAlone'
    BY <1>0, <1>1, <1>2 DEF LaunchesAlone
  <1>8. Proxy!NoForkBesides'
    BY <1>0, <1>1, <1>2 DEF Proxy!NoForkBesides, Proxy!Abandoned, Proxy!Live, Proxy!Returned,
       Proxy!Processes
  <1>9. ReasonsStay'
    <2>1. SUFFICES ASSUME NEW p \in px_Openers, px_at'[p] = "failed", px_waitsFor'[p] # "nobody"
                   PROVE  \/ p \in px_expired' \/ px_at'[px_waitsFor'[p]] = "failed"
                          \/ /\ px_conn'[px_waitsFor'[p]] # "nobody"
                             /\ px_process'[px_conn'[px_waitsFor'[p]]] = "gone"
      BY DEF ReasonsStay
    <2>2. px_waitsFor[p] \in px_Openers
      BY <1>1, <2>1 DEF Proxy!ProxyTypeOK
    <2>3. CASE p = o
      <3>1. CASE px_at[px_waitsFor[o]] = "open" /\ Proxy!Serving = {}
        <4>1. /\ px_waitsFor[o] # o /\ px_conn[px_waitsFor[o]] # "nobody"
              /\ px_process[px_conn[px_waitsFor[o]]] \in {"serving", "gone"}
              /\ px_conn[px_waitsFor[o]] \in Proxy!Processes
          BY <1>0, <3>1 DEF OpenerHas, Proxy!ProxyTypeOK
        <4> QED
          BY <1>1, <1>2, <2>2, <2>3, <3>1, <4>1 DEF Proxy!Serving
      <3> QED
        BY <1>0, <1>1, <1>2, <2>1, <2>3, <3>1
    <2>4. CASE p # o
      <3>1. \/ p \in px_expired \/ px_at[px_waitsFor[p]] = "failed"
            \/ px_conn[px_waitsFor[p]] # "nobody" /\ px_process[px_conn[px_waitsFor[p]]] = "gone"
        BY <1>1, <1>2, <2>1, <2>4 DEF ReasonsStay
      <3> QED
        BY <1>0, <1>1, <1>2, <2>2, <3>1
    <2> QED
      BY <2>3, <2>4
  <1> QED
    BY <1>3, <1>4, <1>5, <1>6, <1>7, <1>8, <1>9

\* Contexts end, and processes bind, die, and are started by others.
LEMMA ProxiesKeep ==
    ASSUME Proxy!ProxyAssumption, ProxyInv,
           \/ \E o \in px_Openers : Proxy!Expire(o)
           \/ \E p \in Proxy!Processes : Proxy!Bind(p) \/ Proxy!Die(p)
           \/ \E p \in px_Others : Proxy!StartedElsewhere(p)
    PROVE  ProxyInv'
  <1> USE DEF ProxyInv
  <1>1. CASE \E o \in px_Openers : Proxy!Expire(o)
    <2>1. UNCHANGED <<px_at, px_starting, px_waitsFor, px_conn, px_hurried, px_process>>
      BY <1>1 DEF Proxy!Expire
    <2>2. px_expired \subseteq px_expired' /\ px_expired' \subseteq px_Openers
      BY <1>1 DEF Proxy!Expire, Proxy!ProxyTypeOK
    <2>3. Proxy!ProxyTypeOK' /\ Proxy!OneOwner' /\ OpenerHas' /\ WaiterHas' /\ LaunchesAlone'
      BY <2>1, <2>2 DEF Proxy!ProxyTypeOK, Proxy!OneOwner, OpenerHas, WaiterHas, LaunchesAlone
    <2>4. Proxy!NoForkBesides'
      BY <2>1 DEF Proxy!NoForkBesides, Proxy!Abandoned, Proxy!Live
    <2> QED
      BY <2>1, <2>2, <2>3, <2>4 DEF ReasonsStay
  <1>2. CASE \/ \E p \in Proxy!Processes : Proxy!Bind(p) \/ Proxy!Die(p)
             \/ \E p \in px_Others : Proxy!StartedElsewhere(p)
    <2>0. PICK p \in Proxy!Processes : Proxy!Bind(p) \/ Proxy!Die(p)
          \/ (p \in px_Others /\ Proxy!StartedElsewhere(p))
      BY <1>2 DEF Proxy!Processes
    <2>1. UNCHANGED <<px_at, px_expired, px_starting, px_waitsFor, px_conn, px_hurried>>
      BY <2>0 DEF Proxy!Bind, Proxy!Die, Proxy!StartedElsewhere
    <2>2. /\ px_process' \in [Proxy!Processes -> {"none", "binding", "serving", "gone"}]
          /\ \A q \in Proxy!Processes : q # p => px_process'[q] = px_process[q]
          /\ \/ px_process[p] = "binding" /\ px_process'[p] \in {"serving", "gone"}
             \/ px_process[p] \in {"binding", "serving"} /\ px_process'[p] = "gone"
             \/ p \in px_Others /\ px_process[p] = "none" /\ px_process'[p] = "binding"
      BY <2>0 DEF Proxy!Bind, Proxy!Die, Proxy!StartedElsewhere, Proxy!Live, Proxy!ProxyTypeOK
    <2>3. Proxy!ProxyTypeOK' /\ Proxy!OneOwner' /\ WaiterHas'
      BY <2>1, <2>2 DEF Proxy!ProxyTypeOK, Proxy!OneOwner, WaiterHas
    <2>4. OpenerHas'
      <3>1. \A o \in px_Openers : px_process[o] = "none" => px_process'[o] = "none"
        BY <2>2 DEF Proxy!Processes, Proxy!ProxyAssumption
      <3>2. ASSUME NEW o \in px_Openers, px_conn[o] # "nobody"
            PROVE  px_process'[px_conn[o]] \in {"serving", "gone"}
        <4>1. px_conn[o] \in Proxy!Processes /\ px_process[px_conn[o]] \in {"serving", "gone"}
          BY <3>2 DEF OpenerHas, Proxy!ProxyTypeOK
        <4> QED
          BY <2>2, <4>1
      <3> QED
        BY <2>1, <3>1, <3>2 DEF OpenerHas
    <2>5. LaunchesAlone'
      BY <2>1, <2>2 DEF LaunchesAlone, Proxy!Processes
    <2>6. Proxy!NoForkBesides'
      <3>1. Proxy!Live' \cap px_Openers \subseteq Proxy!Live \cap px_Openers
        BY <2>2 DEF Proxy!Live, Proxy!Processes, Proxy!ProxyAssumption
      <3>2. \A q \in px_Openers : Proxy!Abandoned(q)' = Proxy!Abandoned(q)
        BY <2>1 DEF Proxy!Abandoned
      <3> QED
        BY <2>1, <3>1, <3>2 DEF Proxy!NoForkBesides
    <2>7. ReasonsStay'
      <3>1. ASSUME NEW o \in px_Openers, px_conn[o] # "nobody", px_process[px_conn[o]] = "gone"
            PROVE  px_process'[px_conn[o]] = "gone"
        <4>1. px_conn[o] \in Proxy!Processes
          BY <3>1 DEF Proxy!ProxyTypeOK
        <4> QED
          BY <2>2, <3>1, <4>1
      <3> QED
        BY <2>1, <3>1 DEF ReasonsStay, Proxy!ProxyTypeOK
    <2> QED
      BY <2>3, <2>4, <2>5, <2>6, <2>7
  <1> QED
    BY <1>1, <1>2

\* One attempt at a time, whoever opens the socket and whatever processes do.
THEOREM ProxyInvariant == Spec => []ProxyInv
  <1>0. Proxy!ProxyAssumption
    BY PartsAssumption
  <1>1. ASSUME Proxy!Init
        PROVE  ProxyInv
    <2>1. Proxy!ProxyTypeOK
      BY <1>1 DEF Proxy!Init, Proxy!ProxyTypeOK, Proxy!Places, Proxy!Owning, Proxy!Returned
    <2>2. Proxy!Live = {}
      BY <1>1 DEF Proxy!Init, Proxy!Live
    <2> QED
      BY <1>0, <1>1, <2>1, <2>2 DEF Proxy!Init, ProxyInv, Proxy!OneOwner, OpenerHas, WaiterHas,
         LaunchesAlone, Proxy!NoForkBesides, ReasonsStay, Proxy!ProxyAssumption, Proxy!Owning,
             Proxy!Processes
  <1>2. ASSUME ProxyInv, [Proxy!Next]_(Proxy!vars)
        PROVE  ProxyInv'
    <2>1. CASE UNCHANGED Proxy!vars
      BY <1>2, <2>1 DEF Proxy!vars, ProxyInv, Proxy!ProxyTypeOK, Proxy!OneOwner, OpenerHas,
         WaiterHas,
         LaunchesAlone, Proxy!NoForkBesides, Proxy!Abandoned, Proxy!Live, ReasonsStay
    <2> QED
      BY <1>0, <1>2, <2>1, DialKeeps, ClaimKeeps, OwnerDialsKeep, LaunchKeeps, LeaveKeeps,
         WaitersKeep, ProxiesKeep DEF Proxy!Next, Proxy!OpenStep
  <1> QED
    BY <1>1, <1>2, ProxyRuns, PTL DEF Proxy!Spec

\* The invariant gives what openProxyTransport promises.
LEMMA ProxyInvStarts ==
    ASSUME ProxyInv
    PROVE  Proxy!ProxyStartedOnce
  BY DEF ProxyInv, ReasonsStay, Proxy!WaiterFailsWithReason, Proxy!ProxyStartedOnce

-----------------------------------------------------------------------------
\* A client id is in one place and a cached one live, but for what the client could not
\* learn; a socket outlives neither its client nor Close, an indication reaches whoever it
\* is for, and one opener at a time starts a proxy.
THEOREM ClientsAreTracked == Spec => []ClientsTracked
  <1>1. ASSUME IdInv, QrtrInv, WaitInv, ProxyInv
        PROVE  ClientsTracked
    <2>1. ClientIds!IdsTracked
      BY <1>1 DEF IdInv, ClientIds!IdsTracked
    <2> QED
      BY <1>1, <2>1, QrtrInvTracks, WaitInvMatches, ProxyInvStarts DEF ClientsTracked
  <1> QED
    BY <1>1, IdInvariant, QrtrInvariant, WaitInvariant, ProxyInvariant, PTL

-----------------------------------------------------------------------------
\* A step is one of this part, or leaves it alone.
LEMMA TimeoutsRuns == Spec => Timeouts!Spec
  <1>1. Init => Timeouts!Init
    BY DEF Init
  <1>2. ASSUME [Next]_vars
        PROVE  [Timeouts!Next]_(Timeouts!vars)
    <2>1. RunTimeouts \/ UNCHANGED varsTimeouts
      BY <1>2 DEF Next, vars, RunEmitter, RunRebind, RunTimeouts, RunIdentities, RunPdn, RunProbe,
         RunServing, RunData, RunClientIds, RunQrtr, RunDecoders, RunModemPool, RunWaits,
         RunProxy, RunSim, RunMuxes, RunSms
    <2>2. CASE RunTimeouts
      BY <2>2 DEF RunTimeouts
    <2>3. CASE UNCHANGED varsTimeouts
      BY <2>3 DEF varsTimeouts, Timeouts!vars
    <2> QED
      BY <2>1, <2>2, <2>3
  <1> QED
    BY <1>1, <1>2, PTL DEF Spec, Timeouts!Spec

\* What is counted is finite, one more counts one more, and one alone counts once.
LEMMA TimeoutsCount ==
    /\ \A S, x :
          IsFiniteSet(S) /\ x \notin S => Timeouts!Cardinality(S
              \cup {x}) = Timeouts!Cardinality(S) + 1
    /\ \A S, T :
          IsFiniteSet(T) /\ S \subseteq T => Timeouts!Cardinality(S) <= Timeouts!Cardinality(T)
    /\ \A x : Timeouts!Cardinality({x}) = 1
    /\ Timeouts!Cardinality({}) = 0
    /\ \A S : IsFiniteSet(S) => Timeouts!Cardinality(S) \in Nat
  BY FS_CardinalityType, FS_AddElement, FS_Subset, FS_EmptySet, FS_Singleton DEF Cardinality,
     Timeouts!Cardinality

\* The timeouts of an operation since the window began.
Since(o) == {i \in 1 .. Len(st_log[o]) : st_log[o][i] >= st_first[o]}
\* A log is of times up to now, it is empty without a window, and the window has ended
\* when a timeout comes after it.
LogsInWindow ==
    /\ st_log \in [st_Operations -> Seq(Nat)]
    /\ \A o \in st_Operations : \A i \in 1 .. Len(st_log[o]) : st_log[o][i] <= st_clock
    /\ \A o \in st_Operations : st_first[o] = Timeouts!Never => st_log[o] = <<>> /\ st_count[o] = 0
    /\ \A o \in st_Operations : st_first[o] # Timeouts!Never =>
          /\ st_first[o] <= st_clock
          /\ \A i \in 1 .. Len(st_log[o]) : st_log[o][i] <= st_first[o] + st_Window

TimeoutInv == Timeouts!TimeoutsTypeOK /\ LogsInWindow /\ Timeouts!TimeoutsAddUp
    /\ Timeouts!RetriedForReason

\* Indices of a sequence are finitely many.
LEMMA TimeoutIndices ==
    ASSUME LogsInWindow, NEW o \in st_Operations, NEW S \in SUBSET (1 .. Len(st_log[o]))
    PROVE  IsFiniteSet(S)
  <1>1. Len(st_log[o]) \in Nat
    BY DEF LogsInWindow
  <1>2. IsFiniteSet(1 .. Len(st_log[o]))
    BY <1>1, FS_Interval
  <1> QED
    BY <1>2, FS_Subset

\* A tick moves no timeout.
LEMMA TimeoutTickKeeps ==
    ASSUME Timeouts!TimeoutAssumption, TimeoutInv, Timeouts!Tick
    PROVE  TimeoutInv'
  <1> USE DEF TimeoutInv, Timeouts!Tick
  <1>1. st_clock \in 0 .. st_MaxTime /\ st_clock' = st_clock + 1 /\ st_clock + 1 \in 0 .. st_MaxTime
    BY DEF Timeouts!TimeoutsTypeOK, Timeouts!TimeoutAssumption
  <1>2. Timeouts!TimeoutsTypeOK'
    <2>1. 0 \in 0 .. st_MaxOutcomes
      BY DEF Timeouts!TimeoutAssumption
    <2> QED
      BY <1>1, <2>1 DEF Timeouts!TimeoutsTypeOK
  <1>3. LogsInWindow'
    <2>1. \A o \in st_Operations : \A i \in 1 .. Len(st_log[o]) : st_log[o][i] <= st_clock'
      <3> SUFFICES ASSUME NEW o \in st_Operations, NEW i \in 1 .. Len(st_log[o])
                   PROVE  st_log[o][i] <= st_clock'
        OBVIOUS
      <3>1. st_log[o][i] \in Nat /\ st_log[o][i] <= st_clock
        BY DEF LogsInWindow
      <3> QED
        BY <1>1, <3>1
    <2>2. \A o \in st_Operations : st_first[o] # Timeouts!Never => st_first[o] <= st_clock'
      BY <1>1 DEF LogsInWindow, Timeouts!TimeoutsTypeOK, Timeouts!Never
    <2> QED
      BY <2>1, <2>2 DEF LogsInWindow
  <1>4. Timeouts!TimeoutsAddUp' /\ Timeouts!RetriedForReason'
    BY DEF Timeouts!TimeoutsAddUp, Timeouts!RetriedForReason
  <1> QED
    BY <1>2, <1>3, <1>4

\* A success ends the window and empties the log.
LEMMA TimeoutSuccessKeeps ==
    ASSUME Timeouts!TimeoutAssumption, TimeoutInv, NEW o \in st_Operations, Timeouts!Success(o)
    PROVE  TimeoutInv'
  <1> USE DEF TimeoutInv, Timeouts!Success
  <1>1. Timeouts!TimeoutsTypeOK'
    <2>1. st_outcomes' \in 0 .. st_MaxOutcomes
      BY DEF Timeouts!TimeoutsTypeOK, Timeouts!TimeoutAssumption
    <2>2. st_first' \in [st_Operations -> {Timeouts!Never} \union 0 .. st_MaxTime]
          /\ st_count' \in [st_Operations -> Nat]
      BY DEF Timeouts!TimeoutsTypeOK
    <2> QED
      BY <2>1, <2>2 DEF Timeouts!TimeoutsTypeOK
  <1>2. LogsInWindow'
    BY DEF LogsInWindow, Timeouts!TimeoutsTypeOK
  <1>3. Timeouts!TimeoutsAddUp'
    BY DEF Timeouts!TimeoutsAddUp, Timeouts!TimeoutsTypeOK, LogsInWindow
  <1> QED
    BY <1>1, <1>2, <1>3 DEF Timeouts!RetriedForReason

\* A timeout is added to those of its window, or begins a window that no other is in.
LEMMA TimeoutCounts ==
    ASSUME Timeouts!TimeoutAssumption, TimeoutInv, NEW o \in st_Operations, Timeouts!Timeout(o)
    PROVE  /\ st_first' \in [st_Operations -> {Timeouts!Never} \cup 0 .. st_MaxTime]
           /\ st_count' \in [st_Operations -> Nat]
           /\ LogsInWindow' /\ Timeouts!TimeoutsAddUp'
           /\ st_first'[o] # Timeouts!Never /\ st_clock - st_first'[o] <= st_Window
  <1> USE DEF TimeoutInv
  <1> DEFINE n == Len(st_log[o])
  <1>0. /\ st_clock' = st_clock /\ st_clock \in Nat /\ st_clock \in 0 .. st_MaxTime
           /\ st_Window \in Nat
        /\ st_first[o] \in {Timeouts!Never} \cup 0 .. st_MaxTime /\ st_count[o] \in Nat
    BY DEF Timeouts!Timeout, Timeouts!TimeoutsTypeOK, Timeouts!TimeoutAssumption
  <1>1. /\ st_log[o] \in Seq(Nat) /\ n \in Nat
           /\ st_log' = [st_log EXCEPT ![o] = Append(st_log[o], st_clock)]
        /\ \A i \in 1 .. n : st_log[o][i] \in Nat /\ st_log[o][i] <= st_clock
    BY DEF Timeouts!Timeout, LogsInWindow
  <1>2. /\ st_log' \in [st_Operations -> Seq(Nat)] /\ \A p \in st_Operations : p # o
           => st_log'[p] = st_log[p]
        /\ Len(st_log'[o]) = n + 1 /\ \A i \in 1 .. n : st_log'[o][i] = st_log[o][i]
        /\ st_log'[o][n + 1] = st_clock
    BY <1>0, <1>1 DEF LogsInWindow
  <1>3. 1 .. (n + 1) = (1 .. n) \cup {n + 1} /\ n + 1 \notin 1 .. n
    BY <1>1
  <1>4. CASE st_first[o] = Timeouts!Never \/ st_clock - st_first[o] > st_Window
    <2>1. /\ \A p \in st_Operations : st_first'[p] = IF p = o THEN st_clock ELSE st_first[p]
          /\ \A p \in st_Operations : st_count'[p] = IF p = o THEN 1 ELSE st_count[p]
          /\ st_first' \in [st_Operations -> {Timeouts!Never} \cup 0 .. st_MaxTime]
          /\ st_count' \in [st_Operations -> Nat]
      <3>1. st_first' = [st_first EXCEPT ![o] = st_clock] /\ st_count' = [st_count EXCEPT ![o] = 1]
        BY <1>4 DEF Timeouts!Timeout, Timeouts!Count
      <3> QED
        BY <1>0, <3>1 DEF Timeouts!TimeoutsTypeOK
    <2>2. \A i \in 1 .. n : st_log[o][i] < st_clock
      <3>1. CASE st_first[o] = Timeouts!Never
        BY <1>1, <3>1 DEF LogsInWindow
      <3>2. CASE st_first[o] # Timeouts!Never
        <4>1. \A i \in 1 .. n : st_log[o][i] <= st_first[o] + st_Window
          BY <3>2 DEF LogsInWindow
        <4> QED
          BY <1>0, <1>1, <1>4, <3>2, <4>1 DEF Timeouts!Never
      <3> QED
        BY <3>1, <3>2
    <2>3. {i \in 1 .. Len(st_log'[o]) : st_log'[o][i] >= st_first'[o]} = {n + 1}
      <3>1. \A i \in 1 .. n : ~(st_log'[o][i] >= st_first'[o])
        BY <1>0, <1>1, <1>2, <2>1, <2>2
      <3>2. st_log'[o][n + 1] >= st_first'[o]
        BY <1>0, <1>2, <2>1
      <3> QED
        BY <1>2, <1>3, <3>1, <3>2
    <2>4. Timeouts!TimeoutsAddUp'
      <3>1. st_count'[o] =
             Timeouts!Cardinality({i \in 1 .. Len(st_log'[o]) : st_log'[o][i] >= st_first'[o]})
        BY <2>1, <2>3, TimeoutsCount
      <3> QED
        BY <1>2, <2>1, <3>1 DEF Timeouts!TimeoutsAddUp
    <2>5. LogsInWindow'
      <3>1. \A i \in 1 .. Len(st_log'[o]) : st_log'[o][i] <= st_clock'
            /\ st_log'[o][i] <= st_first'[o] + st_Window
        BY <1>0, <1>1, <1>2, <1>3, <2>1
      <3> QED
        <4>0. st_clock # Timeouts!Never /\ st_clock <= st_clock /\ st_first'[o] = st_clock
          BY <1>0, <2>1 DEF Timeouts!Never
        <4>1. ASSUME NEW p \in st_Operations, st_first'[p] = Timeouts!Never
              PROVE  st_log'[p] = <<>> /\ st_count'[p] = 0
          <5>1. p # o
            BY <4>0, <4>1
          <5>2. st_first[p] = Timeouts!Never /\ st_log'[p] = st_log[p] /\ st_count'[p] = st_count[p]
            BY <1>2, <2>1, <4>1, <5>1
          <5> QED
            BY <5>2 DEF LogsInWindow
        <4>2. ASSUME NEW p \in st_Operations, st_first'[p] # Timeouts!Never
              PROVE  st_first'[p] <= st_clock'
          <5>1. CASE p = o
            BY <1>0, <4>0, <5>1
          <5>2. CASE p # o
            BY <1>0, <2>1, <4>2, <5>2 DEF LogsInWindow
          <5> QED
            BY <5>1, <5>2
        <4> QED
          BY <1>0, <1>2, <2>1, <3>1, <4>1, <4>2 DEF LogsInWindow
    <2> QED
      BY <1>0, <2>1, <2>4, <2>5 DEF Timeouts!Never
  <1>5. CASE ~(st_first[o] = Timeouts!Never \/ st_clock - st_first[o] > st_Window)
    <2>1. /\ st_first' = st_first
          /\ \A p \in st_Operations : st_count'[p] = IF p = o THEN st_count[o] + 1 ELSE st_count[p]
          /\ st_count' \in [st_Operations -> Nat]
      BY <1>0, <1>5 DEF Timeouts!Timeout, Timeouts!Count, Timeouts!TimeoutsTypeOK
    <2>2. /\ st_first[o] \in Nat /\ st_first[o] <= st_clock /\ st_clock <= st_first[o] + st_Window
          /\ st_first[o] # Timeouts!Never
      BY <1>0, <1>5 DEF LogsInWindow, Timeouts!Never
    <2>3. {i \in 1 .. Len(st_log'[o]) : st_log'[o][i] >= st_first'[o]} = Since(o) \cup {n + 1}
      <3>1. \A i \in 1 .. n : st_log'[o][i] >= st_first'[o] <=> st_log[o][i] >= st_first[o]
        BY <1>2, <2>1
      <3>2. st_log'[o][n + 1] >= st_first'[o]
        BY <1>0, <1>2, <2>1, <2>2
      <3> QED
        BY <1>2, <1>3, <3>1, <3>2 DEF Since
    <2>4. Timeouts!TimeoutsAddUp'
      <3>1. IsFiniteSet(Since(o)) /\ n + 1 \notin Since(o)
        BY <1>3, TimeoutIndices DEF Since
      <3>2. st_count[o] = Timeouts!Cardinality(Since(o))
        BY <2>2 DEF Timeouts!TimeoutsAddUp, Since
      <3>3. st_count'[o] =
             Timeouts!Cardinality({i \in 1 .. Len(st_log'[o]) : st_log'[o][i] >= st_first'[o]})
        BY <2>1, <2>3, <3>1, <3>2, TimeoutsCount
      <3> QED
        BY <1>2, <2>1, <3>3 DEF Timeouts!TimeoutsAddUp
    <2>5. LogsInWindow'
      <3>1. \A i \in 1 .. n : st_log[o][i] <= st_first[o] + st_Window
        BY <2>2 DEF LogsInWindow
      <3>2. \A i \in 1 .. Len(st_log'[o]) : st_log'[o][i] <= st_clock'
            /\ st_log'[o][i] <= st_first'[o] + st_Window
        BY <1>0, <1>1, <1>2, <1>3, <2>1, <2>2, <3>1
      <3> QED
        BY <1>0, <1>2, <2>1, <2>2, <3>2 DEF LogsInWindow
    <2> QED
      BY <1>0, <2>1, <2>2, <2>4, <2>5 DEF Timeouts!TimeoutsTypeOK
  <1> QED
    BY <1>4, <1>5

\* A timeout that is one too many has that many in the window that ends now.
LEMMA TimeoutKeeps ==
    ASSUME Timeouts!TimeoutAssumption, TimeoutInv, NEW o \in st_Operations, Timeouts!Timeout(o)
    PROVE  TimeoutInv'
  <1> USE DEF TimeoutInv
  <1>1. /\ st_first' \in [st_Operations -> {Timeouts!Never} \cup 0 .. st_MaxTime]
           /\ st_count' \in [st_Operations -> Nat]
        /\ LogsInWindow' /\ Timeouts!TimeoutsAddUp'
        /\ st_first'[o] # Timeouts!Never /\ st_clock - st_first'[o] <= st_Window
    BY TimeoutCounts
  <1>2. /\ st_outcomes' \in 0 .. st_MaxOutcomes /\ st_clock' = st_clock /\ st_last' = o
        /\ st_reached' = (st_count'[o] >= st_Threshold) /\ st_clock \in 0 .. st_MaxTime
    BY DEF Timeouts!Timeout, Timeouts!TimeoutsTypeOK, Timeouts!TimeoutAssumption
  <1>3. /\ st_services' \in [Timeouts!Names -> {Timeouts!Never} \cup 0 .. st_MaxTime]
        /\ st_stormAt' \in {Timeouts!Never} \cup 0 .. st_MaxTime
    BY DEF Timeouts!Timeout, Timeouts!detectTimeoutStorm, Timeouts!TimedOut, Timeouts!TimeoutsTypeOK
  <1>4. Timeouts!TimeoutsTypeOK'
    BY <1>1, <1>2, <1>3 DEF Timeouts!TimeoutsTypeOK
  <1>5. Timeouts!RetriedForReason'
    <2>1. SUFFICES ASSUME st_reached'
                   PROVE  Timeouts!Cardinality(Timeouts!Recent(o)') >= st_Threshold
      BY <1>2 DEF Timeouts!RetriedForReason
    <2>2. Since(o)' \subseteq Timeouts!Recent(o)'
      <3>1. SUFFICES ASSUME NEW i \in 1 .. Len(st_log'[o]), st_log'[o][i] >= st_first'[o]
                     PROVE  st_clock' - st_log'[o][i] <= st_Window
        BY DEF Since, Timeouts!Recent
      <3>2. st_log'[o][i] \in Nat /\ st_first'[o] \in Nat /\ st_clock' \in Nat /\ st_Window \in Nat
        <4>1. st_log'[o] \in Seq(Nat) /\ st_first'[o] \in {Timeouts!Never} \cup 0 .. st_MaxTime
              /\ st_clock' \in Nat
          BY <1>1, <1>2 DEF LogsInWindow
        <4> QED
          BY <1>1, <3>1, <4>1 DEF Timeouts!TimeoutAssumption
      <3> QED
        BY <1>1, <1>2, <3>1, <3>2
    <2>3. IsFiniteSet(Timeouts!Recent(o)') /\ IsFiniteSet(Since(o)')
      <3>1. Len(st_log'[o]) \in Nat
        BY <1>1 DEF LogsInWindow
      <3>2. Timeouts!Recent(o)' \subseteq 1 .. Len(st_log'[o])
            /\ Since(o)' \subseteq 1 .. Len(st_log'[o])
        BY DEF Timeouts!Recent, Since
      <3>3. IsFiniteSet(1 .. Len(st_log'[o]))
        BY <3>1, FS_Interval
      <3> QED
        BY <3>2, <3>3, FS_Subset
    <2>4. st_count'[o] = Timeouts!Cardinality(Since(o)')
      BY <1>1 DEF Timeouts!TimeoutsAddUp, Since
    <2>5. Timeouts!Cardinality(Since(o)') <= Timeouts!Cardinality(Timeouts!Recent(o)')
      BY <2>2, <2>3, TimeoutsCount
    <2>6. Timeouts!Cardinality(Timeouts!Recent(o)') \in Nat
      BY <2>3, TimeoutsCount
    <2> QED
      <3>1. st_count'[o] >= st_Threshold /\ st_count'[o] \in Nat /\ st_Threshold \in Nat
        BY <1>1, <1>2, <2>1 DEF Timeouts!TimeoutAssumption
      <3> QED
        BY <2>4, <2>5, <2>6, <3>1
  <1> QED
    BY <1>1, <1>4, <1>5

\* Timeouts add up within their window, and to a recovery only there.
THEOREM TimeoutInvariant == Spec => []TimeoutInv
  <1>0. Timeouts!TimeoutAssumption
    BY PartsAssumption
  <1>1. ASSUME Timeouts!Init
        PROVE  TimeoutInv
    <2>1. st_last \in st_Operations
      BY <1>0, <1>1 DEF Timeouts!Init, Timeouts!TimeoutAssumption
    <2>2. Timeouts!TimeoutsTypeOK
      <3>1. 0 \in 0 .. st_MaxTime /\ 0 \in 0 .. st_MaxOutcomes
        BY <1>0 DEF Timeouts!TimeoutAssumption
      <3> QED
        BY <1>1, <2>1, <3>1 DEF Timeouts!Init, Timeouts!TimeoutsTypeOK
    <2> QED
      BY <1>1, <2>2 DEF Timeouts!Init, TimeoutInv, LogsInWindow, Timeouts!TimeoutsAddUp,
         Timeouts!RetriedForReason
  <1>2. ASSUME TimeoutInv, [Timeouts!Next]_(Timeouts!vars)
        PROVE  TimeoutInv'
    <2>1. CASE UNCHANGED Timeouts!vars
      BY <1>2, <2>1 DEF Timeouts!vars, TimeoutInv, Timeouts!TimeoutsTypeOK, LogsInWindow,
         Timeouts!TimeoutsAddUp,
         Timeouts!RetriedForReason, Timeouts!Recent
    <2> QED
      BY <1>0, <1>2, <2>1, TimeoutTickKeeps, TimeoutSuccessKeeps, TimeoutKeeps DEF Timeouts!Next
  <1> QED
    BY <1>1, <1>2, TimeoutsRuns, PTL DEF Timeouts!Spec

\* Two services have timed out when a storm is seen: the one that timed out last, and
\* another within the storm window.
LEMMA StormHasTwo ==
    ASSUME Timeouts!TimeoutAssumption, TimeoutInv, Timeouts!Next, st_stormAt' # st_stormAt
    PROVE  /\ st_stormAt = Timeouts!Never \/ st_clock - st_stormAt > st_StormCooldown
           /\ \E o, p \in st_Operations :
                /\ st_ServiceOf[o] # st_ServiceOf[p]
                /\ \A q \in {o, p} : st_services'[st_ServiceOf[q]] = Timeouts!Never
                /\ st_last' = o
                /\ st_services[st_ServiceOf[p]] # Timeouts!Never
                /\ st_clock - st_services[st_ServiceOf[p]] <= st_StormWindow
  <1>1. PICK o \in st_Operations : Timeouts!Timeout(o)
    BY DEF Timeouts!Next, Timeouts!Tick, Timeouts!Success
  <1> DEFINE s == st_ServiceOf[o]
             timedOut == {n \in Timeouts!Names : Timeouts!TimedOut(s)[n] # Timeouts!Never}
  <1>2. Timeouts!Storm(Timeouts!TimedOut(s))
        /\ st_services' = [n \in Timeouts!Names |-> Timeouts!Never] /\ st_last' = o
    BY <1>1 DEF Timeouts!Timeout, Timeouts!detectTimeoutStorm
  <1>3. PICK n \in timedOut : n # s
    <2>1. SUFFICES ASSUME \A n \in timedOut : n = s
                   PROVE  FALSE
      OBVIOUS
    <2>2. timedOut = {} \/ timedOut = {s}
      BY <2>1
    <2>3. Timeouts!Cardinality(timedOut) \in {0, 1}
      BY <2>2, TimeoutsCount
    <2>4. Timeouts!Cardinality(timedOut) >= 2
      BY <1>2 DEF Timeouts!Storm, Timeouts!stormMinSvcs
    <2> QED
      BY <2>3, <2>4
  <1>4. PICK p \in st_Operations : n = st_ServiceOf[p]
    BY <1>3 DEF Timeouts!Names
  <1>5. st_services[n] # Timeouts!Never /\ ~(st_clock - st_services[n] > st_StormWindow)
    BY <1>3, <1>4 DEF Timeouts!TimedOut, Timeouts!Names
  <1>6. st_clock - st_services[n] <= st_StormWindow
    BY <1>4, <1>5 DEF TimeoutInv, Timeouts!TimeoutsTypeOK, Timeouts!TimeoutAssumption,
       Timeouts!Names, Timeouts!Never
  <1>7. \A q \in {o, p} : st_services'[st_ServiceOf[q]] = Timeouts!Never
    BY <1>2 DEF Timeouts!Names
  <1>8. st_stormAt = Timeouts!Never \/ st_clock - st_stormAt > st_StormCooldown
    BY <1>2 DEF Timeouts!Storm
  <1> QED
    BY <1>2, <1>3, <1>4, <1>5, <1>6, <1>7, <1>8

\* A rebind, and a core recovery, come after the timeouts that are their reason, and no
\* timeout is overlooked.
THEOREM RecoveriesHaveReason == Spec => RecoveryForReason
  <1>1. TimeoutInv => Timeouts!TimeoutsTypeOK /\ Timeouts!RetriedForReason /\ Timeouts!TimeoutsAddUp
    BY DEF TimeoutInv
  <1>2. ASSUME TimeoutInv, [Timeouts!Next]_(Timeouts!vars)
        PROVE  [Timeouts!StormHasReason]_(Timeouts!vars)
    <2>1. Timeouts!TimeoutAssumption
      BY PartsAssumption
    <2>2. CASE Timeouts!Next
      <3>1. st_stormAt' # st_stormAt => Timeouts!StormHasReason
        BY <1>2, <2>1, <2>2, StormHasTwo DEF Timeouts!StormHasReason
      <3> QED
        BY <3>1 DEF Timeouts!StormHasReason
    <2> QED
      BY <1>2, <2>2
  <1> QED
    BY <1>1, <1>2, TimeoutInvariant, TimeoutsRuns, PTL
       DEF RecoveryForReason, Timeouts!RecoveryForReason, Timeouts!StormForReason, Timeouts!Spec

-----------------------------------------------------------------------------
\* A step is one of this part, or leaves it alone.
LEMMA DataRuns == Spec => Data!Spec
  <1>1. Init => Data!Init
    BY DEF Init
  <1>2. ASSUME [Next]_vars
        PROVE  [Data!Next]_(Data!vars)
    <2>1. RunData \/ UNCHANGED varsData
      BY <1>2 DEF Next, vars, RunEmitter, RunRebind, RunTimeouts, RunIdentities, RunPdn, RunProbe,
         RunServing, RunData, RunClientIds, RunQrtr, RunDecoders, RunModemPool, RunWaits,
         RunProxy, RunSim, RunMuxes, RunSms
    <2>2. CASE RunData
      BY <2>2 DEF RunData
    <2>3. CASE UNCHANGED varsData
      BY <2>3 DEF varsData, Data!vars
    <2> QED
      BY <2>1, <2>2, <2>3
  <1> QED
    BY <1>1, <1>2, PTL DEF Spec, Data!Spec

\* Where each of them can be, and where it goes on after doConnect and doDisconnect.
Dialing == {"check", "dial", "set", "configure", "failed"}
Stopping == {"stop", "zero", "down"}
DataPlaces ==
    /\ dc_pc["loop"] \in {"idle", "status"} \cup Dialing \cup Stopping
    /\ dc_pc["caller"] \in {"idle"} \cup Data!Rotating \cup Dialing \cup Stopping
    /\ dc_pc["config"] \in {"idle", "apply", "redialed", "restore", "restored"} \cup Dialing
       \cup Stopping
    /\ dc_then \in [Data!Goroutines -> {"idle", "apply", "redialed", "restored"}]
    /\ dc_then["loop"] = "idle" /\ dc_then["caller"] = "idle"
    /\ dc_pc["config"] \in Dialing => dc_then["config"] = "redialed"
    /\ dc_pc["config"] \in Stopping => dc_then["config"] \in {"apply", "restored"}
DataRecords ==
    /\ dc_saved \in [apn : dc_Apns, desired : BOOLEAN, active : BOOLEAN]
    /\ dc_seen \in [state : {"disconnected", "connecting", "connected"}, desired : BOOLEAN,
                up : BOOLEAN]
    /\ dc_apnOf \in [Data!Calls -> dc_Apns]

\* The old configuration is in force before the new one is applied, the new one while it
\* is dialled; only then is there a result.
ConfigInv ==
    /\ ~Data!Idle("config") => dc_result = "none"
    /\ Data!Idle("config") => /\ dc_result = "ok" => dc_apn = dc_wanted
                              /\ dc_result = "failed" => dc_apn = dc_saved.apn
    /\ \/ dc_pc["config"] = "apply"
       \/ dc_pc["config"] \in Stopping /\ dc_then["config"] = "apply"
       => dc_apn = dc_saved.apn
    /\ dc_pc["config"] \in Dialing \cup {"redialed"} => dc_apn = dc_wanted

\* The call that is up was started with the configuration in force.
Fresh == dc_up # Data!NoCall => dc_apnOf[dc_up] = dc_apn
At(places) == \E g \in Data!Goroutines : dc_pc[g] \in places

\* One at a time: its handle is known, was lost, or is about to be set.
OneAtATime == \A g, h \in Data!Goroutines : ~Data!Idle(g) /\ ~Data!Idle(h) => g = h
Answered == {"set", "rotated", "renewed"}
Held ==
    /\ dc_up # Data!NoCall => \/ dc_up = dc_handle \/ dc_up \in dc_orphans
                              \/ \E g \in Data!Goroutines : dc_pc[g] \in Answered
                                 /\ dc_up = dc_got[g]
    /\ \A g \in Data!Goroutines : dc_pc[g] \in Answered => dc_up \in {Data!NoCall, dc_got[g]}
    /\ \A g \in Data!Goroutines :
          dc_pc[g] \in {"zero", "rotate", "restart"} => dc_up \in {Data!NoCall} \cup dc_orphans
    /\ dc_pc["loop"] = "status" =>
          /\ dc_seen.state = "connected"
          /\ dc_seen.up \/ dc_up = Data!NoCall
StateInv ==
    /\ dc_state = "connected" \/ At({"set", "configure"}) => Fresh /\ dc_dials # 0
    /\ At({"status"}) => dc_dials # 0
    /\ dc_state = "connecting" => At({"dial", "set", "configure", "failed"})
    /\ dc_pc["config"] \in {"apply", "restored"} => dc_state = "disconnected"
    /\ dc_pc["caller"] \in Data!Rotating => dc_state = "connected"
DataAloneInv == ~dc_overlapped => OneAtATime /\ Held /\ StateInv

DataInv == Data!DataTypeOK /\ DataPlaces /\ DataRecords /\ ConfigInv /\ DataAloneInv

\* One of them goes to a place, and the others stay where they are.
LEMMA DataGoto ==
    ASSUME Data!DataTypeOK, NEW g \in Data!Goroutines, NEW place \in Data!Places,
           Data!Goto(g, place)
    PROVE  /\ dc_pc' \in [Data!Goroutines -> Data!Places] /\ dc_pc'[g] = place
           /\ \A h \in Data!Goroutines : h # g => dc_pc'[h] = dc_pc[h]
  BY DEF Data!Goto, Data!DataTypeOK

\* Who is at work alone leaves the others idle.
LEMMA OthersIdle ==
    ASSUME DataInv, ~dc_overlapped, NEW g \in Data!Goroutines, ~Data!Idle(g)
    PROVE  \A h \in Data!Goroutines : h # g => dc_pc[h] = "idle"
  BY DEF DataInv, DataAloneInv, OneAtATime, Data!Idle

\* The call that is next to start has a number.
LEMMA NextCall ==
    ASSUME Data!DataAssumption, Data!DataTypeOK, dc_dials < dc_MaxDials
    PROVE  /\ dc_dials + 1 \in Data!Calls /\ dc_dials + 1 \in 0 .. dc_MaxDials
           /\ dc_dials + 1 # Data!NoCall /\ dc_dials + 1 # 0
  BY DEF Data!DataAssumption, Data!DataTypeOK, Data!Calls, Data!NoCall

\* A stop, carried out or not, leaves no call up that had the handle, but as one without.
LEMMA StopsCall ==
    ASSUME Data!DataTypeOK, NEW call \in Data!Calls \cup {Data!NoCall}, Data!Stops(call)
    PROVE  /\ dc_up' \in {dc_up, Data!NoCall} /\ dc_orphans \subseteq dc_orphans'
              /\ dc_orphans' \subseteq Data!Calls
           /\ dc_up = call => dc_up' \in {Data!NoCall} \cup dc_orphans'
  BY DEF Data!Stops, Data!DataTypeOK

\* What a step does to the places of the goroutine that takes it is what it does to all.
LEMMA DataCheckKeeps ==
    ASSUME Data!DataAssumption, DataInv, NEW g \in Data!Goroutines, Data!Check(g)
    PROVE  DataInv'
  <1> USE DEF DataInv
  <1>1. dc_pc[g] = "check" /\ g \in {"loop", "caller", "config"}
    BY DEF Data!Check, Data!Goroutines
  <1>2. /\ dc_then[g] = IF g = "config" THEN "redialed" ELSE "idle"
        /\ Data!FailsTo(g) = IF g = "config" THEN "restore" ELSE "idle"
    BY <1>1 DEF DataPlaces, Dialing, Data!FailsTo
  <1>3. PICK place \in {dc_then[g], Data!FailsTo(g), "dial"} :
             /\ Data!Goto(g, place)
             /\ IF place = "dial" THEN dc_state' = "connecting" ELSE UNCHANGED dc_state
    BY <1>2 DEF Data!Check
  <1>4. place \in Data!Places
    BY <1>2, <1>3 DEF Data!Places, Data!Rotating
  <1>5. /\ dc_pc' \in [Data!Goroutines -> Data!Places] /\ dc_pc'[g] = place
        /\ \A h \in Data!Goroutines : h # g => dc_pc'[h] = dc_pc[h]
    BY <1>3, <1>4, DataGoto
  <1>6. UNCHANGED <<dc_desired, dc_handle, dc_apn, dc_starts, dc_then, dc_got, dc_saved,
        dc_wanted, dc_result, dc_up, dc_dials, dc_apnOf,
                    dc_orphans, dc_overlapped, dc_requests, dc_seen>>
    BY DEF Data!Check
  <1>7. Data!DataTypeOK'
    BY <1>3, <1>5, <1>6 DEF Data!DataTypeOK
  <1>8. DataPlaces' /\ DataRecords' /\ ConfigInv'
    BY <1>1, <1>2, <1>5, <1>6 DEF DataPlaces, DataRecords, ConfigInv, Dialing, Stopping,
       Data!Goroutines, Data!Idle
  <1>9. DataAloneInv'
    <2> SUFFICES ASSUME ~dc_overlapped
                 PROVE  (OneAtATime /\ Held /\ StateInv)'
      BY <1>6 DEF DataAloneInv
    <2>1. \A h \in Data!Goroutines : h # g => dc_pc[h] = "idle" /\ dc_pc'[h] = "idle"
      BY <1>1, <1>5, OthersIdle DEF Data!Idle
    <2>2. OneAtATime'
      BY <2>1 DEF OneAtATime, Data!Idle
    <2>3. Held'
      BY <1>1, <1>2, <1>5, <1>6, <2>1 DEF DataAloneInv, Held, Answered, Data!Goroutines
    <2>4. StateInv'
      BY <1>1, <1>2, <1>3, <1>5, <1>6, <2>1 DEF DataAloneInv, StateInv, Data!Rotating, Fresh, At,
         Data!Goroutines
    <2> QED
      BY <2>2, <2>3, <2>4
  <1> QED
    BY <1>7, <1>8, <1>9

\* A call that is started is the one that is up; its handle was answered, or is lost.
LEMMA DataDialKeeps ==
    ASSUME Data!DataAssumption, DataInv, NEW g \in Data!Goroutines, Data!Dial(g)
    PROVE  DataInv'
  <1> USE DEF DataInv
  <1>1. dc_pc[g] = "dial" /\ g \in {"loop", "caller", "config"}
    BY DEF Data!Dial, Data!Goroutines
  <1>2. PICK place \in {"set", "failed"} :
             /\ Data!Goto(g, place)
             /\ \/ /\ dc_dials < dc_MaxDials
                   /\ dc_up' = dc_dials + 1 /\ dc_dials' = dc_dials + 1
                   /\ dc_apnOf' = [dc_apnOf EXCEPT ![dc_dials + 1] = dc_apn]
                   /\ \/ /\ place = "set" /\ dc_got' = [dc_got EXCEPT ![g] = dc_dials + 1]
                         /\ UNCHANGED dc_orphans
                      \/ /\ place = "failed" /\ dc_orphans' = dc_orphans \union {dc_dials + 1}
                         /\ UNCHANGED dc_got
                \/ /\ place = "failed" /\ dc_up' \in {Data!NoCall, dc_up}
                   /\ UNCHANGED <<dc_got, dc_dials, dc_apnOf, dc_orphans>>
    BY DEF Data!Dial, Data!Starts
  <1>3. /\ dc_pc' \in [Data!Goroutines -> Data!Places] /\ dc_pc'[g] = place
        /\ \A h \in Data!Goroutines : h # g => dc_pc'[h] = dc_pc[h]
    BY <1>2, DataGoto DEF Data!Places, Data!Rotating
  <1>4. UNCHANGED <<dc_state, dc_desired, dc_handle, dc_apn, dc_starts, dc_then, dc_saved,
        dc_wanted, dc_result, dc_overlapped,
                    dc_requests, dc_seen>>
    BY DEF Data!Dial
  <1>5. /\ Data!DataTypeOK' /\ dc_apnOf' \in [Data!Calls -> dc_Apns]
        /\ \/ dc_apnOf'[dc_up'] = dc_apn
           \/ place = "failed" /\ (dc_up' = Data!NoCall \/ UNCHANGED <<dc_up, dc_apnOf>>)
        /\ dc_dials' # 0 \/ (place = "failed" /\ dc_dials' = dc_dials)
    BY <1>2, <1>3, <1>4, NextCall DEF Data!DataTypeOK, DataRecords
  <1>6. DataPlaces' /\ DataRecords' /\ ConfigInv'
    BY <1>1, <1>2, <1>3, <1>4, <1>5 DEF DataPlaces, DataRecords, ConfigInv, Dialing, Stopping,
       Data!Goroutines, Data!Idle
  <1>7. DataAloneInv'
    <2> SUFFICES ASSUME ~dc_overlapped
                 PROVE  (OneAtATime /\ Held /\ StateInv)'
      BY <1>4 DEF DataAloneInv
    <2>1. \A h \in Data!Goroutines : h # g => dc_pc[h] = "idle" /\ dc_pc'[h] = "idle"
      BY <1>1, <1>3, OthersIdle DEF Data!Idle
    <2>2. OneAtATime'
      BY <2>1 DEF OneAtATime, Data!Idle
    <2>3. /\ place = "set" => dc_up' = dc_got'[g]
          /\ place = "failed" => dc_up' \in {Data!NoCall, dc_handle} \cup dc_orphans'
      <3>1. dc_up \in {Data!NoCall, dc_handle} \cup dc_orphans
        BY <1>1, <2>1 DEF DataAloneInv, Held, Answered
      <3> QED
        BY <1>2, <1>3, <3>1 DEF Data!DataTypeOK
    <2>4. Held'
      BY <1>1, <1>2, <1>3, <1>4, <2>1, <2>3 DEF Held, Answered, Data!Goroutines
    <2>5. StateInv'
      BY <1>1, <1>2, <1>3, <1>4, <1>5, <2>1
         DEF DataAloneInv, StateInv, Data!Rotating, Fresh, At, Data!Goroutines
    <2> QED
      BY <2>2, <2>4, <2>5
  <1> QED
    BY <1>5, <1>6, <1>7

\* The handle that was answered is set.
LEMMA DataSetKeeps ==
    ASSUME Data!DataAssumption, DataInv, NEW g \in Data!Goroutines, Data!SetHandle(g)
    PROVE  DataInv'
  <1> USE DEF DataInv
  <1>1. dc_pc[g] = "set" /\ Data!Goto(g, "configure") /\ dc_handle' = dc_got[g]
        /\ dc_got' = [dc_got EXCEPT ![g] = Data!NoCall] /\ g \in {"loop", "caller", "config"}
    BY DEF Data!SetHandle, Data!Goroutines
  <1>2. /\ dc_pc' \in [Data!Goroutines -> Data!Places] /\ dc_pc'[g] = "configure"
        /\ \A h \in Data!Goroutines : h # g => dc_pc'[h] = dc_pc[h]
    BY <1>1, DataGoto DEF Data!Places, Data!Rotating
  <1>3. UNCHANGED <<dc_state, dc_desired, dc_apn, dc_starts, dc_then, dc_saved, dc_wanted,
        dc_result, dc_up, dc_dials, dc_apnOf,
                    dc_orphans, dc_overlapped, dc_requests, dc_seen>>
    BY DEF Data!SetHandle
  <1>4. Data!DataTypeOK'
    BY <1>1, <1>2, <1>3 DEF Data!DataTypeOK
  <1>5. DataPlaces' /\ DataRecords' /\ ConfigInv'
    BY <1>1, <1>2, <1>3 DEF DataPlaces, DataRecords, ConfigInv, Dialing, Stopping,
       Data!Goroutines, Data!Idle
  <1>6. DataAloneInv'
    <2> SUFFICES ASSUME ~dc_overlapped
                 PROVE  (OneAtATime /\ Held /\ StateInv)'
      BY <1>3 DEF DataAloneInv
    <2>1. \A h \in Data!Goroutines : h # g => dc_pc[h] = "idle" /\ dc_pc'[h] = "idle"
      BY <1>1, <1>2, OthersIdle DEF Data!Idle
    <2>2. OneAtATime'
      BY <2>1 DEF OneAtATime, Data!Idle
    <2>3. dc_up' \in {Data!NoCall, dc_handle'}
      BY <1>1, <1>3 DEF DataAloneInv, Held, Answered
    <2>4. Held'
      BY <1>1, <1>2, <1>3, <2>1, <2>3 DEF Held, Answered, Data!Goroutines
    <2>5. StateInv'
      BY <1>1, <1>2, <1>3, <2>1 DEF DataAloneInv, StateInv, Data!Rotating, Fresh, At,
         Data!Goroutines
    <2> QED
      BY <2>2, <2>4, <2>5
  <1> QED
    BY <1>4, <1>5, <1>6

\* The network is configured, or not: the dial has then failed.
LEMMA DataConfigureKeeps ==
    ASSUME Data!DataAssumption, DataInv, NEW g \in Data!Goroutines,
           Data!Configure(g) \/ Data!DialFails(g)
    PROVE  DataInv'
  <1> USE DEF DataInv
  <1>1. dc_pc[g] \in {"configure", "failed"} /\ g \in {"loop", "caller", "config"}
    BY DEF Data!Configure, Data!DialFails, Data!Goroutines
  <1>2. /\ dc_then[g] = IF g = "config" THEN "redialed" ELSE "idle"
        /\ Data!FailsTo(g) = IF g = "config" THEN "restore" ELSE "idle"
    BY <1>1 DEF DataPlaces, Dialing, Data!FailsTo
  <1>3. PICK place \in {dc_then[g], Data!FailsTo(g), "failed"} :
             /\ Data!Goto(g, place)
             /\ IF place = "failed" THEN dc_pc[g] = "configure" /\ UNCHANGED dc_state
                ELSE \/ place = dc_then[g] /\ dc_pc[g] = "configure" /\ dc_state' = "connected"
                     \/ place = Data!FailsTo(g) /\ dc_state' = "disconnected"
    BY <1>2 DEF Data!Configure, Data!DialFails
  <1>4. place \in Data!Places
    BY <1>2, <1>3 DEF Data!Places, Data!Rotating
  <1>5. /\ dc_pc' \in [Data!Goroutines -> Data!Places] /\ dc_pc'[g] = place
        /\ \A h \in Data!Goroutines : h # g => dc_pc'[h] = dc_pc[h]
    BY <1>3, <1>4, DataGoto
  <1>6. UNCHANGED <<dc_desired, dc_handle, dc_apn, dc_then, dc_got, dc_saved, dc_wanted,
        dc_result, dc_up, dc_dials, dc_apnOf,
                    dc_orphans, dc_overlapped, dc_requests, dc_seen>> /\ dc_starts' \in BOOLEAN
    BY DEF Data!Configure, Data!DialFails, Data!DataTypeOK
  <1>7. Data!DataTypeOK'
    BY <1>3, <1>5, <1>6 DEF Data!DataTypeOK
  <1>8. DataPlaces' /\ DataRecords' /\ ConfigInv'
    BY <1>1, <1>2, <1>3, <1>5, <1>6 DEF DataPlaces, DataRecords, ConfigInv, Dialing, Stopping,
       Data!Goroutines, Data!Idle
  <1>9. DataAloneInv'
    <2> SUFFICES ASSUME ~dc_overlapped
                 PROVE  (OneAtATime /\ Held /\ StateInv)'
      BY <1>6 DEF DataAloneInv
    <2>1. \A h \in Data!Goroutines : h # g => dc_pc[h] = "idle" /\ dc_pc'[h] = "idle"
      BY <1>1, <1>5, OthersIdle DEF Data!Idle
    <2>2. OneAtATime'
      BY <2>1 DEF OneAtATime, Data!Idle
    <2>3. Held'
      BY <1>1, <1>2, <1>3, <1>5, <1>6, <2>1 DEF DataAloneInv, Held, Answered, Data!Goroutines
    <2>4. StateInv'
      BY <1>1, <1>2, <1>3, <1>5, <1>6, <2>1 DEF DataAloneInv, StateInv, Data!Rotating, Fresh, At,
         Data!Goroutines
    <2> QED
      BY <2>2, <2>3, <2>4
  <1> QED
    BY <1>7, <1>8, <1>9

\* doDisconnect stops the call of the handle, and gives the handle up.
LEMMA DataStopKeeps ==
    ASSUME Data!DataAssumption, DataInv, NEW g \in Data!Goroutines,
           Data!StopHandle(g) \/ Data!ZeroHandle(g) \/ Data!Down(g)
    PROVE  DataInv'
  <1> USE DEF DataInv
  <1>1. dc_pc[g] \in {"stop", "zero", "down"} /\ g \in {"loop", "caller", "config"}
    BY DEF Data!StopHandle, Data!ZeroHandle, Data!Down, Data!Goroutines
  <1>2. dc_then[g] \in IF g = "config" THEN {"apply", "restored"} ELSE {"idle"}
    BY <1>1 DEF DataPlaces, Stopping
  <1>3. PICK place \in {"zero", "down", dc_then[g]} :
             /\ Data!Goto(g, place)
             /\ \/ /\ place \in {"zero", "down"} /\ dc_pc[g] = "stop"
                   /\ Data!Stops(dc_handle) /\ UNCHANGED <<dc_handle, dc_state>>
                   /\ place = "down" => dc_handle = Data!NoCall
                \/ /\ place = "down" /\ dc_pc[g] = "zero" /\ dc_handle' = Data!NoCall
                   /\ UNCHANGED <<dc_up, dc_orphans, dc_state>>
                \/ /\ place = dc_then[g] /\ dc_pc[g] = "down" /\ dc_state' = "disconnected"
                   /\ UNCHANGED <<dc_up, dc_orphans, dc_handle>>
    BY <1>2 DEF Data!StopHandle, Data!ZeroHandle, Data!Down
  <1>4. place \in Data!Places
    BY <1>2, <1>3 DEF Data!Places, Data!Rotating
  <1>5. /\ dc_pc' \in [Data!Goroutines -> Data!Places] /\ dc_pc'[g] = place
        /\ \A h \in Data!Goroutines : h # g => dc_pc'[h] = dc_pc[h]
    BY <1>3, <1>4, DataGoto
  <1>6. UNCHANGED <<dc_desired, dc_apn, dc_starts, dc_then, dc_got, dc_saved, dc_wanted,
        dc_result, dc_dials, dc_apnOf,
                    dc_overlapped, dc_requests, dc_seen>>
    BY DEF Data!StopHandle, Data!ZeroHandle, Data!Down
  <1>s. /\ dc_up' \in {dc_up, Data!NoCall} /\ dc_orphans \subseteq dc_orphans'
           /\ dc_orphans' \subseteq Data!Calls
        /\ place = "zero" /\ dc_up = dc_handle => dc_up' \in {Data!NoCall} \cup dc_orphans'
    <2>1. CASE Data!Stops(dc_handle)
      BY <2>1, StopsCall DEF Data!DataTypeOK
    <2>2. CASE dc_pc[g] # "stop" /\ UNCHANGED <<dc_up, dc_orphans>> /\ place # "zero"
      BY <2>2 DEF Data!DataTypeOK
    <2> QED
      BY <1>2, <1>3, <2>1, <2>2
  <1>7. Data!DataTypeOK'
    BY <1>3, <1>5, <1>6, <1>s DEF Data!DataTypeOK
  <1>8. DataPlaces' /\ DataRecords' /\ ConfigInv'
    BY <1>1, <1>2, <1>3, <1>5, <1>6 DEF DataPlaces, DataRecords, ConfigInv, Dialing, Stopping,
       Data!Goroutines, Data!Idle
  <1>9. DataAloneInv'
    <2> SUFFICES ASSUME ~dc_overlapped
                 PROVE  (OneAtATime /\ Held /\ StateInv)'
      BY <1>6 DEF DataAloneInv
    <2>1. \A h \in Data!Goroutines : h # g => dc_pc[h] = "idle" /\ dc_pc'[h] = "idle"
      BY <1>1, <1>5, OthersIdle DEF Data!Idle
    <2>2. OneAtATime'
      BY <2>1 DEF OneAtATime, Data!Idle
    <2>3. dc_up \in {Data!NoCall, dc_handle} \cup dc_orphans
          /\ (dc_pc[g] = "zero" => dc_up \in {Data!NoCall} \cup dc_orphans)
      BY <1>1, <2>1 DEF DataAloneInv, Held, Answered
    <2>4. /\ dc_up' \in {Data!NoCall, dc_handle'} \cup dc_orphans'
          /\ place = "zero" => dc_up' \in {Data!NoCall} \cup dc_orphans'
      BY <1>2, <1>3, <1>s, <2>3
    <2>5. Held'
      BY <1>1, <1>2, <1>3, <1>5, <1>6, <2>1, <2>4 DEF Held, Answered, Data!Goroutines
    <2>6. StateInv'
      BY <1>1, <1>2, <1>3, <1>5, <1>6, <1>s, <2>1 DEF DataAloneInv, StateInv, Data!Rotating,
         Fresh, At, Data!Goroutines
    <2> QED
      BY <2>2, <2>5, <2>6
  <1> QED
    BY <1>7, <1>8, <1>9

\* Whoever begins is alone, or it is noted that operations overlap.
LEMMA BeginsAlone ==
    ASSUME Data!DataTypeOK, Data!DataAssumption, NEW g \in Data!Goroutines,
           Data!Asks \/ UNCHANGED dc_requests, Data!Begins(g)
    PROVE  /\ dc_requests' \in 0 .. dc_MaxRequests /\ dc_overlapped' \in BOOLEAN
           /\ ~dc_overlapped' => ~dc_overlapped /\ \A h \in Data!Goroutines : dc_pc[h] = "idle"
  <1>1. dc_requests' \in 0 .. dc_MaxRequests
    BY DEF Data!Asks, Data!DataTypeOK, Data!DataAssumption
  <1>2. dc_overlapped' \in BOOLEAN
    BY DEF Data!Begins, Data!DataTypeOK
  <1>3. ~dc_overlapped' => ~dc_overlapped /\ \A h \in Data!Goroutines : dc_pc[h] = "idle"
    BY DEF Data!Begins, Data!Idle
  <1> QED
    BY <1>1, <1>2, <1>3

\* Connect, Disconnect and RotateIP begin.
LEMMA DataCallersKeep ==
    ASSUME Data!DataAssumption, DataInv, Data!Connect \/ Data!Disconnect \/ Data!RotateIP
    PROVE  DataInv'
  <1> USE DEF DataInv
  <1>1. PICK place \in {"idle", "check", "stop", "rotate"} :
             /\ dc_pc["caller"] = "idle" /\ dc_pc' = [dc_pc EXCEPT !["caller"] = place]
             /\ dc_then' = dc_then \/ dc_then' = [dc_then EXCEPT !["caller"] = "idle"]
             /\ \/ place # "rotate" /\ UNCHANGED <<dc_up, dc_handle, dc_orphans>>
                \/ /\ place = "rotate" /\ dc_state = "connected"
                   /\ Data!Stops(dc_handle) /\ dc_handle' = Data!NoCall
    <2>1. dc_pc = [dc_pc EXCEPT !["caller"] = dc_pc["caller"]]
      BY DEF Data!DataTypeOK
    <2> QED
      BY <2>1 DEF Data!Connect, Data!Disconnect, Data!RotateIP, Data!Begins, Data!Idle,
         Data!Call, Data!Goto
  <1>2. /\ dc_pc' \in [Data!Goroutines -> Data!Places] /\ dc_pc'["caller"] = place
           /\ "caller" \in Data!Goroutines
        /\ \A h \in Data!Goroutines : h # "caller" => dc_pc'[h] = dc_pc[h]
    BY <1>1, DataGoto DEF Data!Goto, Data!Places, Data!Rotating, Data!Goroutines
  <1>3. dc_then' = dc_then
    BY <1>1 DEF DataPlaces, Data!Goroutines
  <1>4. /\ UNCHANGED <<dc_state, dc_apn, dc_starts, dc_got, dc_saved, dc_wanted, dc_result,
           dc_dials, dc_apnOf, dc_seen>>
        /\ dc_desired' \in BOOLEAN /\ dc_requests' \in 0 .. dc_MaxRequests
           /\ dc_overlapped' \in BOOLEAN
        /\ ~dc_overlapped' => ~dc_overlapped /\ \A h \in Data!Goroutines : dc_pc[h] = "idle"
    <2>1. /\ UNCHANGED <<dc_state, dc_apn, dc_starts, dc_got, dc_saved, dc_wanted, dc_result,
             dc_dials, dc_apnOf, dc_seen>>
          /\ dc_desired' \in BOOLEAN
      BY DEF Data!Connect, Data!Disconnect, Data!RotateIP, Data!DataTypeOK
    <2>2. Data!Asks /\ Data!Begins("caller")
      BY DEF Data!Connect, Data!Disconnect, Data!RotateIP
    <2> QED
      BY <2>1, <2>2, BeginsAlone DEF Data!Goroutines
  <1>s. /\ dc_up' \in {dc_up, Data!NoCall} /\ dc_orphans \subseteq dc_orphans'
           /\ dc_orphans' \subseteq Data!Calls
        /\ place = "rotate" /\ dc_up = dc_handle => dc_up' \in {Data!NoCall} \cup dc_orphans'
    BY <1>1, StopsCall DEF Data!DataTypeOK
  <1>5. Data!DataTypeOK'
    BY <1>1, <1>2, <1>4, <1>s DEF Data!DataTypeOK
  <1>6. DataPlaces' /\ DataRecords' /\ ConfigInv'
    BY <1>1, <1>2, <1>3, <1>4 DEF DataPlaces, Data!Rotating, DataRecords, ConfigInv, Dialing,
       Stopping,
       Data!Goroutines, Data!Idle
  <1>7. DataAloneInv'
    <2> SUFFICES ASSUME ~dc_overlapped'
                 PROVE  (OneAtATime /\ Held /\ StateInv)'
      BY DEF DataAloneInv
    <2>1. \A h \in Data!Goroutines : h # "caller" => dc_pc'[h] = "idle"
      BY <1>2, <1>4
    <2>2. OneAtATime'
      BY <2>1 DEF OneAtATime, Data!Idle
    <2>3. dc_up \in {Data!NoCall, dc_handle} \cup dc_orphans
      BY <1>4 DEF DataAloneInv, Held, Answered
    <2>4. Held'
      BY <1>1, <1>2, <1>4, <1>s, <2>1, <2>3 DEF Held, Answered, Data!Goroutines
    <2>5. StateInv'
      BY <1>1, <1>2, <1>4, <1>s, <2>1 DEF DataAloneInv, StateInv, Data!Rotating, Fresh, At,
         Data!Goroutines
    <2> QED
      BY <2>2, <2>4, <2>5
  <1> QED
    BY <1>5, <1>6, <1>7

\* RotateIP starts a call where none is up, and has its handle, or gives it up again.
LEMMA DataRotateKeeps ==
    ASSUME Data!DataAssumption, DataInv, Data!RotateDials \/ Data!SameAddress \/ Data!Rotated
           \/ Data!ResetRadio
    PROVE  DataInv'
  <1> USE DEF DataInv
  <1>1. PICK place \in {"idle"} \cup Data!Rotating :
             /\ dc_pc["caller"] \in Data!Rotating /\ dc_pc' = [dc_pc EXCEPT !["caller"] = place]
             /\ \/ /\ dc_pc["caller"] \in {"rotate", "restart"} /\ dc_up = Data!NoCall
                      /\ dc_dials < dc_MaxDials
                   /\ dc_up' = dc_dials + 1 /\ dc_dials' = dc_dials + 1
                   /\ dc_apnOf' = [dc_apnOf EXCEPT ![dc_dials + 1] = dc_apn]
                   /\ \/ /\ place \in {"rotated", "renewed"}
                         /\ dc_got' = [dc_got EXCEPT !["caller"] = dc_dials + 1]
                            /\ UNCHANGED dc_orphans
                      \/ /\ place \in {"idle", "reset"}
                         /\ dc_orphans' = dc_orphans \union {dc_dials + 1} /\ UNCHANGED dc_got
                   /\ UNCHANGED <<dc_handle, dc_state>>
                \/ /\ dc_pc["caller"] \in {"rotate", "restart"} /\ place \in {"idle", "reset"}
                   /\ UNCHANGED <<dc_up, dc_dials, dc_apnOf, dc_got, dc_handle, dc_state,
                      dc_orphans>>
                \/ /\ dc_pc["caller"] = "rotated" /\ place = "reset" /\ Data!Stops(dc_got["caller"])
                   /\ dc_got' = [dc_got EXCEPT !["caller"] = Data!NoCall]
                   /\ UNCHANGED <<dc_dials, dc_apnOf, dc_handle, dc_state>>
                \/ /\ dc_pc["caller"] \in {"rotated", "renewed"} /\ place \in {"idle", "reset"}
                   /\ dc_handle' = dc_got["caller"]
                   /\ dc_got' = [dc_got EXCEPT !["caller"] = Data!NoCall]
                   /\ dc_state' = "connected" \/ (place = "idle" /\ dc_state' = dc_state)
                   /\ UNCHANGED <<dc_up, dc_dials, dc_apnOf, dc_orphans>>
                \/ /\ dc_pc["caller"] = "reset" /\ place \in {"idle", "restart"}
                      /\ Data!Stops(dc_handle)
                   /\ dc_handle' = Data!NoCall
                   /\ UNCHANGED <<dc_dials, dc_apnOf, dc_got, dc_state>>
    BY DEF Data!RotateDials, Data!Starts, Data!SameAddress, Data!Rotated, Data!ResetRadio,
       Data!Goto, Data!Rotating
  <1>2. /\ dc_pc' \in [Data!Goroutines -> Data!Places] /\ dc_pc'["caller"] = place
           /\ "caller" \in Data!Goroutines
        /\ \A h \in Data!Goroutines : h # "caller" => dc_pc'[h] = dc_pc[h]
    BY <1>1, DataGoto DEF Data!Goto, Data!Places, Data!Rotating, Data!Goroutines
  <1>3. UNCHANGED <<dc_desired, dc_apn, dc_starts, dc_then, dc_saved, dc_wanted, dc_result,
        dc_overlapped, dc_requests, dc_seen>>
    BY DEF Data!RotateDials, Data!SameAddress, Data!Rotated, Data!ResetRadio
  <1>s. ASSUME NEW call \in {dc_handle, dc_got["caller"]}, Data!Stops(call)
        PROVE  /\ dc_up' \in {dc_up, Data!NoCall} /\ dc_orphans \subseteq dc_orphans'
                  /\ dc_orphans' \subseteq Data!Calls
               /\ dc_up = call => dc_up' \in {Data!NoCall} \cup dc_orphans'
    BY <1>2, <1>s, StopsCall DEF Data!DataTypeOK
  <1>4. Data!DataTypeOK' /\ dc_apnOf' \in [Data!Calls -> dc_Apns]
    BY <1>1, <1>2, <1>3, <1>s, NextCall DEF Data!DataTypeOK, DataRecords
  <1>5. DataPlaces' /\ DataRecords' /\ ConfigInv'
    BY <1>1, <1>2, <1>3, <1>4 DEF DataPlaces, DataRecords, ConfigInv, Dialing, Stopping,
       Data!Goroutines, Data!Idle
  <1>6. DataAloneInv'
    <2> SUFFICES ASSUME ~dc_overlapped
                 PROVE  (OneAtATime /\ Held /\ StateInv)'
      BY <1>3 DEF DataAloneInv
    <2>1. \A h \in Data!Goroutines : h # "caller" => dc_pc[h] = "idle" /\ dc_pc'[h] = "idle"
      BY <1>1, <1>2, OthersIdle DEF Data!Idle, Data!Rotating
    <2>2. OneAtATime'
      BY <2>1 DEF OneAtATime, Data!Idle
    <2>3. /\ dc_pc["caller"] \in {"rotate", "restart"} => dc_up \in {Data!NoCall} \cup dc_orphans
          /\ dc_pc["caller"] \in {"rotated", "renewed"} => dc_up \in {Data!NoCall, dc_got["caller"]}
          /\ dc_pc["caller"] = "reset" => dc_up \in {Data!NoCall, dc_handle} \cup dc_orphans
      BY <1>2, <2>1 DEF DataAloneInv, Held, Answered
    <2>4. /\ place \in {"rotated", "renewed"} => dc_up' \in {Data!NoCall, dc_got'["caller"]}
          /\ place \in {"rotate", "restart"} => dc_up' \in {Data!NoCall} \cup dc_orphans'
          /\ place \in {"idle", "reset"} => dc_up' \in {Data!NoCall, dc_handle'} \cup dc_orphans'
      BY <1>1, <1>2, <1>s, <2>3 DEF Data!DataTypeOK
    <2>5. Held'
      BY <1>1, <1>2, <1>3, <2>1, <2>4 DEF Held, Answered, Data!Goroutines
    <2>6. StateInv'
      <3>1. dc_state = "connected" /\ (dc_up # Data!NoCall => dc_apnOf[dc_up] = dc_apn)
            /\ dc_dials # 0
        BY <1>1 DEF DataAloneInv, StateInv, Data!Rotating, Fresh
      <3>2. dc_state' = "connected" /\ (dc_up' # Data!NoCall => dc_apnOf'[dc_up'] = dc_apn')
            /\ dc_dials' # 0
        BY <1>1, <1>3, <1>s, <3>1, NextCall DEF DataRecords
      <3> QED
        BY <1>2, <2>1, <3>2 DEF StateInv, Data!Rotating, Fresh, At, Data!Goroutines
    <2> QED
      BY <2>2, <2>5, <2>6
  <1> QED
    BY <1>4, <1>5, <1>6

\* ReconfigureDataConfig begins, and takes down what is active.
LEMMA DataReconfigureKeeps ==
    ASSUME Data!DataAssumption, DataInv, NEW new \in dc_Apns, Data!Reconfigure(new)
    PROVE  DataInv'
  <1> USE DEF DataInv
  <1>1. /\ dc_pc["config"] = "idle" /\ dc_saved' = [apn |-> dc_apn, desired |-> dc_desired,
           active |-> Data!Active]
        /\ dc_wanted' = new /\ dc_result' = "none"
    BY DEF Data!Reconfigure, Data!Begins, Data!Idle
  <1>2. PICK place \in {"stop", "apply"} :
             /\ dc_pc' = [dc_pc EXCEPT !["config"] = place]
             /\ IF place = "stop" THEN dc_then' = [dc_then EXCEPT !["config"] = "apply"]
                ELSE ~Data!Active /\ UNCHANGED dc_then
    BY DEF Data!Reconfigure, Data!Call, Data!Goto
  <1>3. /\ dc_pc' \in [Data!Goroutines -> Data!Places] /\ dc_pc'["config"] = place
           /\ "config" \in Data!Goroutines
        /\ \A h \in Data!Goroutines : h # "config" => dc_pc'[h] = dc_pc[h]
    BY <1>2, DataGoto DEF Data!Goto, Data!Places, Data!Rotating, Data!Goroutines
  <1>4. /\ UNCHANGED <<dc_state, dc_handle, dc_apn, dc_starts, dc_got, dc_up, dc_dials, dc_apnOf,
           dc_orphans, dc_seen>>
        /\ dc_desired' \in BOOLEAN /\ dc_requests' \in 0 .. dc_MaxRequests
           /\ dc_overlapped' \in BOOLEAN
        /\ ~dc_overlapped' => ~dc_overlapped /\ \A h \in Data!Goroutines : dc_pc[h] = "idle"
    <2>1. /\ UNCHANGED <<dc_state, dc_handle, dc_apn, dc_starts, dc_got, dc_up, dc_dials,
             dc_apnOf, dc_orphans, dc_seen>>
          /\ dc_desired' \in BOOLEAN
      BY DEF Data!Reconfigure, Data!DataTypeOK
    <2> QED
      BY <2>1, BeginsAlone DEF Data!Reconfigure, Data!Goroutines
  <1>5. Data!DataTypeOK'
    BY <1>1, <1>3, <1>4 DEF Data!DataTypeOK
  <1>6. dc_saved' \in [apn : dc_Apns, desired : BOOLEAN, active : BOOLEAN] /\ dc_saved'.apn = dc_apn
    BY <1>1 DEF Data!DataTypeOK, Data!Active
  <1>7. DataPlaces' /\ DataRecords' /\ ConfigInv'
    BY <1>1, <1>2, <1>3, <1>4, <1>6 DEF DataPlaces, DataRecords, ConfigInv, Dialing, Stopping,
       Data!Goroutines, Data!Idle
  <1>8. DataAloneInv'
    <2> SUFFICES ASSUME ~dc_overlapped'
                 PROVE  (OneAtATime /\ Held /\ StateInv)'
      BY DEF DataAloneInv
    <2>1. \A h \in Data!Goroutines : h # "config" => dc_pc'[h] = "idle"
      BY <1>3, <1>4
    <2>2. OneAtATime'
      BY <2>1 DEF OneAtATime, Data!Idle
    <2>3. dc_up \in {Data!NoCall, dc_handle} \cup dc_orphans
      BY <1>4 DEF DataAloneInv, Held, Answered
    <2>4. Held'
      BY <1>3, <1>4, <2>1, <2>3 DEF Held, Answered, Data!Goroutines
    <2>5. place = "apply" => dc_state = "disconnected"
      BY <1>2 DEF Data!Active, Data!DataTypeOK
    <2>6. StateInv'
      BY <1>3, <1>4, <2>1, <2>5 DEF DataAloneInv, StateInv, Data!Rotating, Fresh, At,
         Data!Goroutines
    <2> QED
      BY <2>2, <2>4, <2>6
  <1> QED
    BY <1>5, <1>7, <1>8

\* The new configuration is applied and dialled, or the old one restored.
LEMMA DataApplyKeeps ==
    ASSUME Data!DataAssumption, DataInv, Data!Apply \/ Data!Redialed \/ Data!Restore
           \/ Data!Restored
    PROVE  DataInv'
  <1> USE DEF DataInv
  <1>1. PICK place \in {"idle", "check", "stop"} :
             /\ dc_pc["config"] \in {"apply", "redialed", "restore", "restored"}
             /\ dc_pc' = [dc_pc EXCEPT !["config"] = place]
             /\ \/ /\ dc_pc["config"] = "apply" /\ dc_apn' = dc_wanted
                   /\ \/ /\ place = "check" /\ dc_then' = [dc_then EXCEPT !["config"] = "redialed"]
                         /\ UNCHANGED dc_result
                      \/ place = "idle" /\ dc_result' = "ok" /\ UNCHANGED dc_then
                \/ /\ dc_pc["config"] = "apply" /\ UNCHANGED <<dc_apn, dc_then>>
                   /\ place = "idle" /\ dc_result' = "failed"
                \/ /\ dc_pc["config"] = "redialed" /\ UNCHANGED <<dc_apn, dc_then>>
                   /\ place = "idle" /\ dc_result' = "ok"
                \/ /\ dc_pc["config"] \in {"redialed", "restore"} /\ UNCHANGED <<dc_apn, dc_result>>
                   /\ place = "stop" /\ dc_then' = [dc_then EXCEPT !["config"] = "restored"]
                \/ /\ dc_pc["config"] = "restored" /\ dc_apn' = dc_saved.apn /\ UNCHANGED dc_then
                   /\ place = "idle" /\ dc_result' = "failed"
    BY DEF Data!Apply, Data!Redialed, Data!Restore, Data!Restored, Data!Call, Data!Goto
  <1>2. /\ dc_pc' \in [Data!Goroutines -> Data!Places] /\ dc_pc'["config"] = place
           /\ "config" \in Data!Goroutines
        /\ \A h \in Data!Goroutines : h # "config" => dc_pc'[h] = dc_pc[h]
    BY <1>1, DataGoto DEF Data!Goto, Data!Places, Data!Rotating, Data!Goroutines
  <1>3. /\ UNCHANGED <<dc_state, dc_handle, dc_starts, dc_got, dc_saved, dc_wanted, dc_up,
           dc_dials, dc_apnOf, dc_orphans,
                       dc_overlapped, dc_requests, dc_seen>>
        /\ dc_desired' \in BOOLEAN /\ dc_saved.apn \in dc_Apns
    BY DEF Data!Apply, Data!Redialed, Data!Restore, Data!Restored, Data!DataTypeOK, DataRecords
  <1>4. Data!DataTypeOK'
    BY <1>1, <1>2, <1>3 DEF Data!DataTypeOK
  <1>5. DataPlaces' /\ DataRecords' /\ ConfigInv'
    BY <1>1, <1>2, <1>3 DEF DataPlaces, DataRecords, ConfigInv, Dialing, Stopping,
       Data!Goroutines, Data!Idle
  <1>6. DataAloneInv'
    <2> SUFFICES ASSUME ~dc_overlapped
                 PROVE  (OneAtATime /\ Held /\ StateInv)'
      BY <1>3 DEF DataAloneInv
    <2>1. \A h \in Data!Goroutines : h # "config" => dc_pc[h] = "idle" /\ dc_pc'[h] = "idle"
      BY <1>1, <1>2, OthersIdle DEF Data!Idle
    <2>2. OneAtATime'
      BY <2>1 DEF OneAtATime, Data!Idle
    <2>3. Held'
      BY <1>1, <1>2, <1>3, <2>1 DEF DataAloneInv, Held, Answered, Data!Goroutines
    <2>4. StateInv'
      BY <1>1, <1>2, <1>3, <2>1 DEF DataAloneInv, StateInv, Data!Rotating, Fresh, At,
         Data!Goroutines
    <2> QED
      BY <2>2, <2>3, <2>4
  <1> QED
    BY <1>4, <1>5, <1>6

\* The loop handles a start, or begins a status check.
LEMMA DataLoopKeeps ==
    ASSUME Data!DataAssumption, DataInv, Data!EventStart \/ Data!AskStatus
    PROVE  DataInv'
  <1> USE DEF DataInv
  <1>1. PICK place \in {"check", "status"} :
             /\ dc_pc["loop"] = "idle" /\ dc_pc' = [dc_pc EXCEPT !["loop"] = place]
             /\ dc_then' = dc_then \/ dc_then' = [dc_then EXCEPT !["loop"] = "idle"]
             /\ IF place = "check" THEN UNCHANGED dc_seen
                ELSE dc_state # "disconnected" /\ dc_seen' = [state |-> dc_state,
                    desired |-> dc_desired,
                                                              up |-> dc_up # Data!NoCall]
    BY DEF Data!EventStart, Data!AskStatus, Data!Begins, Data!Idle, Data!Call, Data!Goto
  <1>2. /\ dc_pc' \in [Data!Goroutines -> Data!Places] /\ dc_pc'["loop"] = place
           /\ "loop" \in Data!Goroutines
        /\ \A h \in Data!Goroutines : h # "loop" => dc_pc'[h] = dc_pc[h]
    BY <1>1, DataGoto DEF Data!Goto, Data!Places, Data!Rotating, Data!Goroutines
  <1>3. dc_then' = dc_then
    BY <1>1 DEF DataPlaces, Data!Goroutines
  <1>4. /\ UNCHANGED <<dc_state, dc_desired, dc_handle, dc_apn, dc_got, dc_saved, dc_wanted,
           dc_result, dc_up, dc_dials, dc_apnOf,
                       dc_orphans, dc_requests>>
        /\ dc_starts' \in BOOLEAN /\ dc_overlapped' \in BOOLEAN
        /\ ~dc_overlapped' => ~dc_overlapped /\ \A h \in Data!Goroutines : dc_pc[h] = "idle"
    <2>1. /\ UNCHANGED <<dc_state, dc_desired, dc_handle, dc_apn, dc_got, dc_saved, dc_wanted,
             dc_result, dc_up, dc_dials, dc_apnOf,
                         dc_orphans, dc_requests>>
          /\ dc_starts' \in BOOLEAN
      BY DEF Data!EventStart, Data!AskStatus, Data!DataTypeOK
    <2>2. Data!Begins("loop")
      BY DEF Data!EventStart, Data!AskStatus
    <2> QED
      BY <2>1, <2>2, BeginsAlone DEF Data!Goroutines
  <1>5. Data!DataTypeOK'
    BY <1>2, <1>4 DEF Data!DataTypeOK
  <1>6. DataPlaces' /\ DataRecords' /\ ConfigInv'
    <2>1. dc_seen' \in [state : {"disconnected", "connecting", "connected"}, desired : BOOLEAN,
                      up : BOOLEAN]
      <3>1. PICK isUp \in BOOLEAN :
                   dc_seen' = IF place = "check" THEN dc_seen ELSE [state |-> dc_state,
                       desired |-> dc_desired, up |-> isUp]
        <4>1. (dc_up # Data!NoCall) \in BOOLEAN
          OBVIOUS
        <4>2. place = "status" => dc_seen' = [state |-> dc_state, desired |-> dc_desired,
              up |-> dc_up # Data!NoCall]
          BY <1>1
        <4>3. place = "check" => dc_seen' = dc_seen
          BY <1>1
        <4> QED
          BY <4>1, <4>2, <4>3, Zenon
      <3> QED
        BY <1>1, <3>1 DEF DataRecords, Data!DataTypeOK
    <2> QED
      BY <1>1, <1>2, <1>3, <1>4, <2>1 DEF DataPlaces, DataRecords, ConfigInv, Dialing, Stopping,
         Data!Goroutines, Data!Idle
  <1>7. DataAloneInv'
    <2> SUFFICES ASSUME ~dc_overlapped'
                 PROVE  (OneAtATime /\ Held /\ StateInv)'
      BY DEF DataAloneInv
    <2>1. \A h \in Data!Goroutines : h # "loop" => dc_pc'[h] = "idle"
      BY <1>2, <1>4
    <2>2. OneAtATime'
      BY <2>1 DEF OneAtATime, Data!Idle
    <2>3. dc_up \in {Data!NoCall, dc_handle} \cup dc_orphans /\ dc_state # "connecting"
      BY <1>4 DEF DataAloneInv, Held, Answered, StateInv, Data!Rotating, At
    <2>4. place = "status" => dc_seen'.state = "connected" /\ (dc_seen'.up \/ dc_up' = Data!NoCall)
      <3>1. place = "status" => dc_seen'.state = dc_state
            /\ (dc_seen'.up = (dc_up # Data!NoCall)) /\ dc_state # "disconnected"
        BY <1>1
      <3> QED
        BY <1>4, <2>3, <3>1 DEF Data!DataTypeOK
    <2>6. Held'
      BY <1>2, <1>4, <2>1, <2>3, <2>4 DEF Held, Answered, Data!Goroutines
    <2>5. StateInv'
      <3>1. place = "status" => dc_state = "connected" /\ dc_dials # 0
        BY <1>1, <1>4, <2>3 DEF Data!DataTypeOK, DataAloneInv, StateInv
      <3> QED
        BY <1>1, <1>2, <1>4, <2>1, <2>3, <3>1
           DEF DataAloneInv, StateInv, Data!Rotating, Fresh, At, Data!Goroutines
    <2> QED
      BY <2>2, <2>5, <2>6
  <1> QED
    BY <1>5, <1>6, <1>7

\* The status check acts on what it read before.
LEMMA DataStatusKeeps ==
    ASSUME Data!DataAssumption, DataInv, Data!ActOnStatus
    PROVE  DataInv'
  <1> USE DEF DataInv
  <1>1. PICK place \in {"idle", "stop"} :
             /\ dc_pc["loop"] = "status" /\ dc_pc' = [dc_pc EXCEPT !["loop"] = place]
             /\ dc_then' = dc_then \/ dc_then' = [dc_then EXCEPT !["loop"] = "idle"]
             /\ dc_seen' = Data!NothingSeen
             /\ \/ UNCHANGED <<dc_state, dc_handle>>
                \/ dc_seen.up /\ dc_state' = "connected" /\ dc_seen.state # "connected"
                   /\ UNCHANGED dc_handle
                \/ ~dc_seen.up /\ place = "idle" /\ dc_handle' = Data!NoCall
                   /\ dc_state' = "disconnected"
    BY DEF Data!ActOnStatus, Data!Call, Data!Goto
  <1>2. /\ dc_pc' \in [Data!Goroutines -> Data!Places] /\ dc_pc'["loop"] = place
           /\ "loop" \in Data!Goroutines
        /\ \A h \in Data!Goroutines : h # "loop" => dc_pc'[h] = dc_pc[h]
    BY <1>1, DataGoto DEF Data!Goto, Data!Places, Data!Rotating, Data!Goroutines
  <1>t. dc_then' = dc_then
    BY <1>1 DEF DataPlaces, Data!Goroutines
  <1>3. /\ UNCHANGED <<dc_desired, dc_apn, dc_got, dc_saved, dc_wanted, dc_result, dc_up,
           dc_dials, dc_apnOf, dc_orphans,
                       dc_overlapped, dc_requests>>
        /\ dc_starts' \in BOOLEAN
    <2>1. dc_seen.desired \in BOOLEAN
      BY DEF DataRecords
    <2> QED
      BY <2>1 DEF Data!ActOnStatus, Data!DataTypeOK
  <1>4. Data!DataTypeOK'
    BY <1>1, <1>2, <1>3 DEF Data!DataTypeOK
  <1>5. DataPlaces' /\ DataRecords' /\ ConfigInv'
    BY <1>1, <1>2, <1>t, <1>3 DEF DataPlaces, DataRecords, ConfigInv, Dialing, Stopping,
       Data!Goroutines, Data!Idle, Data!NothingSeen
  <1>6. DataAloneInv'
    <2> SUFFICES ASSUME ~dc_overlapped
                 PROVE  (OneAtATime /\ Held /\ StateInv)'
      BY <1>3 DEF DataAloneInv
    <2>1. \A h \in Data!Goroutines : h # "loop" => dc_pc[h] = "idle" /\ dc_pc'[h] = "idle"
      BY <1>1, <1>2, OthersIdle DEF Data!Idle
    <2>2. OneAtATime'
      BY <2>1 DEF OneAtATime, Data!Idle
    <2>3. /\ dc_seen.state = "connected" /\ (dc_seen.up \/ dc_up = Data!NoCall)
          /\ dc_up \in {Data!NoCall, dc_handle} \cup dc_orphans
      BY <1>1, <2>1 DEF DataAloneInv, Held, Answered, Data!Goroutines
    <2>4. Held'
      BY <1>1, <1>2, <1>3, <2>1, <2>3 DEF Held, Answered, Data!Goroutines
    <2>5. StateInv'
      BY <1>1, <1>2, <1>3, <2>1, <2>3 DEF DataAloneInv, StateInv, Data!Rotating, Fresh, At,
         Data!Goroutines
    <2> QED
      BY <2>2, <2>4, <2>5
  <1> QED
    BY <1>4, <1>5, <1>6

\* Who is at work on the data call, and what each of them has of it, with stops that fail
\* and calls that the manager did not start.
THEOREM DataInvariant == Spec => []DataInv
  <1>0. Data!DataAssumption
    BY PartsAssumption
  <1>1. ASSUME Data!Init
        PROVE  DataInv
    <2>1. dc_apn \in dc_Apns
      BY <1>0, <1>1 DEF Data!Init, Data!DataAssumption
    <2>2. 0 \in 0 .. dc_MaxDials /\ 0 \in 0 .. dc_MaxRequests
      BY <1>0 DEF Data!DataAssumption
    <2>3. Data!DataTypeOK
      BY <1>1, <2>1, <2>2 DEF Data!Init, Data!DataTypeOK, Data!Places, Data!Rotating,
         Data!NoCall, Data!NothingSeen
    <2>4. DataPlaces /\ DataRecords /\ ConfigInv
      BY <1>1, <2>1 DEF Data!Init, Data!NothingSeen, DataPlaces, DataRecords, ConfigInv, Dialing,
         Stopping, Data!Goroutines, Data!Idle
    <2>5. DataAloneInv
      BY <1>1, <2>2 DEF Data!Init, DataAloneInv, OneAtATime, Held, Answered, StateInv,
         Data!Rotating, At, Fresh, Data!Idle, Data!Goroutines
    <2> QED
      BY <2>3, <2>4, <2>5 DEF DataInv
  <1>2. ASSUME DataInv, [Data!Next]_(Data!vars)
        PROVE  DataInv'
    <2>1. CASE UNCHANGED Data!vars
      BY <1>2, <2>1 DEF Data!vars, DataInv, Data!DataTypeOK, DataPlaces, DataRecords, ConfigInv,
         DataAloneInv, OneAtATime, Held, Answered, StateInv, Data!Rotating, At, Fresh, Data!Idle
    <2>3. CASE \E a \in dc_Apns : Data!AutoConnects(a)
      <3>1. PICK a \in dc_Apns : Data!AutoConnects(a)
        BY <2>3
      <3> USE DEF DataInv
      <3>2. Data!DataTypeOK'
        BY <1>2, <3>1, NextCall, <1>0 DEF Data!AutoConnects, Data!DataTypeOK, Data!Calls,
           Data!DataAssumption
      <3>3. /\ dc_apnOf' \in [Data!Calls -> dc_Apns] /\ dc_up = Data!NoCall /\ dc_dials = 0
               /\ dc_orphans' = {dc_up'}
            /\ UNCHANGED <<dc_state, dc_desired, dc_handle, dc_apn, dc_starts, dc_pc, dc_then,
               dc_got, dc_saved, dc_wanted, dc_result,
                           dc_overlapped, dc_requests, dc_seen>>
        BY <1>2, <3>1 DEF Data!AutoConnects, DataRecords
      <3>4. DataPlaces' /\ DataRecords' /\ ConfigInv'
        BY <1>2, <3>3 DEF DataPlaces, DataRecords, ConfigInv, Data!Idle
      <3>5. ASSUME ~dc_overlapped
            PROVE  OneAtATime' /\ Held' /\ StateInv'
        <4>1. OneAtATime /\ Held /\ StateInv
          BY <1>2, <3>5 DEF DataAloneInv
        <4>2. /\ dc_state # "connected"
              /\ \A g \in Data!Goroutines : dc_pc[g] \notin Answered \cup {"configure", "status"}
          BY <1>2, <3>3, <4>1 DEF StateInv, At, Answered, Data!Rotating, DataPlaces,
             Data!Goroutines, Dialing, Stopping
        <4>3. OneAtATime'
          BY <3>3, <4>1 DEF OneAtATime, Data!Idle
        <4>4. Held'
          BY <3>3, <4>1, <4>2 DEF Held, Data!Goroutines
        <4>5. StateInv'
          BY <3>3, <4>1, <4>2 DEF StateInv, At, Fresh, Answered, Data!Goroutines
        <4> QED
          BY <4>3, <4>4, <4>5
      <3>6. DataAloneInv'
        BY <3>3, <3>5 DEF DataAloneInv
      <3> QED
        BY <3>2, <3>4, <3>6
    <2>2. CASE Data!Lost
      <3>1. Data!DataTypeOK'
        BY <1>2, <2>2 DEF Data!Lost, DataInv, Data!DataTypeOK
      <3>2. DataPlaces' /\ DataRecords' /\ ConfigInv'
        BY <1>2, <2>2 DEF Data!Lost, DataInv, DataPlaces, DataRecords, ConfigInv, Data!Idle
      <3>3. DataAloneInv'
        BY <1>2, <2>2 DEF Data!Lost, DataInv, DataAloneInv, OneAtATime, Held, Answered, StateInv,
           Data!Rotating, At, Fresh, Data!Idle
      <3> QED
        BY <3>1, <3>2, <3>3 DEF DataInv
    <2> QED
      BY <1>0, <1>2, <2>1, <2>2, <2>3, DataCheckKeeps, DataDialKeeps, DataSetKeeps,
         DataConfigureKeeps,
         DataStopKeeps, DataCallersKeep, DataRotateKeeps, DataReconfigureKeeps, DataApplyKeeps,
         DataLoopKeeps, DataStatusKeeps DEF Data!Next
  <1> QED
    BY <1>1, <1>2, DataRuns, PTL DEF Data!Spec

\* With nobody at work, the call that is up is the one of the handle.
LEMMA DataInvAccounts ==
    ASSUME DataInv
    PROVE  Data!CallsAccounted
  <1>1. Data!CallHasHandle
    BY DEF DataInv, DataAloneInv, Held, Answered, Data!CallHasHandle, Data!AllIdle, Data!Idle
  <1>2. Data!FreshDataConfigAlone
    BY DEF DataInv, DataAloneInv, StateInv, Data!Rotating, Fresh, Data!FreshDataConfigAlone
  <1>3. Data!ConfigAllOrNothing
    BY DEF DataInv, ConfigInv, Data!ConfigAllOrNothing
  <1> QED
    BY <1>1, <1>2, <1>3 DEF DataInv, Data!CallsAccounted

\* As long as goroutines do not overlap on it, the call that is up can be stopped, unless the
\* manager never had its handle or gave it up in a stop that failed, and a connected one has
\* the configuration in force; whatever overlaps, the configuration changes as a whole.
THEOREM CallsAreAccounted == Spec => []CallsAccounted
  <1>1. DataInv => CallsAccounted
    BY DataInvAccounts DEF CallsAccounted
  <1> QED
    BY <1>1, DataInvariant, PTL

-----------------------------------------------------------------------------
\* A step is one of this part, or leaves it alone.
LEMMA RebindRuns == Spec => Rebind!Spec
  <1>1. Init => Rebind!Init
    BY DEF Init
  <1>2. ASSUME [Next]_vars
        PROVE  [Rebind!Next]_(Rebind!vars)
    <2>1. RunRebind \/ UNCHANGED varsRebind
      BY <1>2 DEF Next, vars, RunEmitter, RunRebind, RunTimeouts, RunIdentities, RunPdn, RunProbe,
         RunServing, RunData, RunClientIds, RunQrtr, RunDecoders, RunModemPool, RunWaits,
         RunProxy, RunSim, RunMuxes, RunSms
    <2>2. CASE RunRebind
      BY <2>2 DEF RunRebind
    <2>3. CASE UNCHANGED varsRebind
      BY <2>3 DEF varsRebind, Rebind!vars, Rebind!coreVars, Rebind!callVars
    <2> QED
      BY <2>1, <2>2, <2>3
  <1> QED
    BY <1>1, <1>2, PTL DEF Spec, Rebind!Spec

\* Where a call is, and where it holds the lock of its service, and an id of its own.
RebindPlaces ==
    {"idle", "ensure", "ensureLock", "ensureAlloc", "ensureInstall", "op", "rebind", "rebindClose",
     "rebindAlloc", "rebindInstall", "replay", "retry", "trigger"}
Replacing == {"ensureAlloc", "ensureInstall", "rebindClose", "rebindAlloc", "rebindInstall"}
Installing == {"ensureInstall", "rebindInstall"}
Owning == {"ensureInstall", "rebindClose", "rebindInstall"}
RebindTypes ==
    /\ rb_opened \in 1 .. rb_MaxClients /\ rb_client \in {0, rb_opened}
       /\ rb_up \subseteq 1 .. rb_opened
    /\ rb_kind \in Seq(rb_Services) /\ Len(rb_kind) <= rb_MaxIds
    /\ rb_owner \in Seq(1 .. rb_MaxClients) /\ Len(rb_owner) = Len(rb_kind)
    /\ \A i \in 1 .. Len(rb_kind) : rb_owner[i] \in 1 .. rb_opened
    /\ rb_closed \subseteq 1 .. Len(rb_kind) /\ rb_taken \subseteq 1 .. Len(rb_kind)
    /\ rb_svc \in [rb_Services -> 0 .. Len(rb_kind)]
    /\ rb_core \in {"ready", "closing", "closed", "alloc", "failed"}
    /\ rb_todo \subseteq Rebind!CoreServices \union Rebind!AuxServices
       /\ rb_early \subseteq rb_Services /\ rb_asked \in BOOLEAN
    /\ rb_lock \in [rb_Services \union {"UIM"} -> rb_Callers \union {"free"}]
    /\ rb_pc \in [rb_Callers -> RebindPlaces] /\ rb_job \in [rb_Callers -> rb_Services]
    /\ rb_using \in [rb_Callers -> 0 .. Len(rb_kind)]
       /\ rb_outer \in [rb_Callers -> 0 .. Len(rb_kind)]
    /\ rb_seen \in [rb_Callers -> 0 .. rb_opened]

\* A call has the lock of its service while it replaces it, and while it replays for it.
LocksHeld ==
    \A c \in rb_Callers :
        /\ (rb_pc[c] \in Replacing \union {"replay"} \/ rb_outer[c] # 0) => rb_lock[rb_job[c]] = c
        /\ rb_pc[c] \in Replacing \union {"replay", "idle"} => rb_outer[c] = 0

\* What a call owns nobody else has; it is of the client the call saw.
OwnIds ==
    \A c \in rb_Callers :
        /\ rb_pc[c] \in Installing => /\ rb_using[c] \in (1 .. Len(rb_kind)) \ rb_closed
                                      /\ rb_owner[rb_using[c]] = rb_seen[c]
        /\ rb_pc[c] \in Owning /\ rb_using[c] # 0 =>
              rb_kind[rb_using[c]] = rb_job[c] /\ rb_using[c] # rb_svc[rb_job[c]]
                  /\ rb_using[c] \notin rb_taken
        /\ rb_pc[c] \in Replacing /\ rb_seen[c] = 0 => rb_pc[c] = "rebindClose"

\* What is installed is of its service and open; the client is there while it is set up
\* and used.
InstalledOpen ==
    /\ rb_core \in {"ready", "alloc", "failed"} <=> rb_client # 0
    /\ rb_core # "closing" => rb_taken = {}
    /\ \A s \in rb_Services : /\ rb_core = "closing" => rb_svc[s] = 0
                              /\ rb_svc[s] # 0 => rb_kind[rb_svc[s]] = s
                                 /\ rb_svc[s] \notin rb_closed

\* A service that is set up, or of a core that is ready, is of the client.
OfTheClient ==
    \A s \in rb_Services \ Rebind!AuxServices :
        rb_core = "ready" \/ (rb_core = "alloc" /\ s \in Rebind!CoreServices \ rb_todo)
            => rb_svc[s] = 0 \/ rb_owner[rb_svc[s]] = rb_client

\* Who replaces a service, or did so, before it was set up, did it early.
EarlyKnown ==
    /\ \A s \in rb_Services :
          rb_core = "alloc" /\ s \in rb_todo \union Rebind!LazyServices /\ rb_svc[s] # 0
              /\ rb_owner[rb_svc[s]] = rb_client
              => s \in rb_early
    /\ \A c \in rb_Callers :
          rb_pc[c] \in Replacing /\ rb_seen[c] = rb_client /\ rb_job[c] \notin rb_early =>
              /\ rb_core # "alloc"
              /\ rb_core = "ready" => rb_svc[rb_job[c]] = 0
                 \/ rb_owner[rb_svc[rb_job[c]]] # rb_client

\* An id of the client is installed or owned.
IdsKept ==
    rb_core \in {"ready", "alloc"} =>
        \A i \in 1 .. Len(rb_kind) :
            rb_owner[i] = rb_client /\ i \notin rb_closed /\ rb_kind[i] \notin rb_early
                => rb_svc[rb_kind[i]] = i \/ (\E c \in rb_Callers : rb_using[c] = i
                    /\ rb_pc[c] \in Owning)

RebindInv ==
    /\ RebindTypes /\ LocksHeld /\ OwnIds /\ InstalledOpen
    /\ OfTheClient /\ EarlyKnown /\ IdsKept

\* A step of one call changes nothing of another, and frees or takes at most its own lock.
OneCallMoves(c) ==
    /\ rb_pc' \in [rb_Callers -> RebindPlaces] /\ rb_job' \in [rb_Callers -> rb_Services]
    /\ rb_using' \in [rb_Callers -> 0 .. Len(rb_kind')]
       /\ rb_outer' \in [rb_Callers -> 0 .. Len(rb_kind')]
    /\ rb_seen' \in [rb_Callers -> 0 .. rb_opened]
    /\ \A q \in rb_Callers \ {c} : /\ rb_pc'[q] = rb_pc[q] /\ rb_job'[q] = rb_job[q]
       /\ rb_using'[q] = rb_using[q]
                                   /\ rb_seen'[q] = rb_seen[q] /\ rb_outer'[q] = rb_outer[q]
    /\ \/ rb_lock' = rb_lock
       \/ (rb_lock[rb_job[c]] = c /\ rb_lock' = [rb_lock EXCEPT ![rb_job[c]] = "free"])
       \/ (rb_lock[rb_job[c]] = "free" /\ rb_lock' = [rb_lock EXCEPT ![rb_job[c]] = c])
LEMMA RebindLocksOfOthers ==
    ASSUME Rebind!RebindAssumption, RebindTypes, LocksHeld, NEW c \in rb_Callers, OneCallMoves(c)
    PROVE  /\ rb_lock' \in [rb_Services \union {"UIM"} -> rb_Callers \union {"free"}]
           /\ \A q \in rb_Callers \ {c} :
                /\ (rb_pc'[q] \in Replacing \union {"replay"} \/ rb_outer'[q] # 0)
                   => rb_lock'[rb_job'[q]] = q
                /\ rb_pc'[q] \in Replacing \union {"replay", "idle"} => rb_outer'[q] = 0
  <1>1. rb_job[c] \in rb_Services \union {"UIM"} /\ "free" \notin rb_Callers
    BY DEF RebindTypes, Rebind!RebindAssumption
  <1>2. rb_lock' \in [rb_Services \union {"UIM"} -> rb_Callers \union {"free"}]
    <2>1. rb_lock \in [rb_Services \union {"UIM"} -> rb_Callers \union {"free"}]
      BY DEF RebindTypes
    <2>2. \/ rb_lock' = rb_lock
          \/ \E l \in rb_Callers \union {"free"} : rb_lock' = [rb_lock EXCEPT ![rb_job[c]] = l]
      BY DEF OneCallMoves
    <2> QED
      BY <1>1, <2>1, <2>2
  <1>3. ASSUME NEW q \in rb_Callers \ {c}
        PROVE  /\ (rb_pc'[q] \in Replacing \union {"replay"} \/ rb_outer'[q] # 0)
                  => rb_lock'[rb_job'[q]] = q
               /\ rb_pc'[q] \in Replacing \union {"replay", "idle"} => rb_outer'[q] = 0
    <2>1. /\ rb_pc'[q] = rb_pc[q] /\ rb_outer'[q] = rb_outer[q] /\ rb_job'[q] = rb_job[q]
          /\ rb_job[q] \in rb_Services \union {"UIM"} /\ q # "free"
      BY <1>1 DEF OneCallMoves, RebindTypes
    <2>2. rb_lock[rb_job[q]] = q => rb_lock'[rb_job[q]] = q
      BY <1>1, <2>1 DEF OneCallMoves, RebindTypes
    <2> QED
      BY <2>1, <2>2 DEF LocksHeld
  <1> QED
    BY <1>2, <1>3

\* Of two calls that hold a lock, each has that of another service.
LEMMA RebindAlone ==
    ASSUME RebindTypes, LocksHeld, NEW c \in rb_Callers, NEW q \in rb_Callers, q # c,
           rb_pc[c] \in Replacing, rb_pc[q] \in Replacing
    PROVE  rb_job[q] # rb_job[c]
  BY DEF LocksHeld

\* A call moves, and neither replaces its service nor owns an id then.
LEMMA RebindMovesKeep ==
    ASSUME Rebind!RebindAssumption, RebindInv, NEW c \in rb_Callers, OneCallMoves(c),
           UNCHANGED <<rb_client, rb_opened, rb_up, rb_kind, rb_owner, rb_closed, rb_svc,
               rb_core, rb_taken, rb_todo, rb_early>>,
           rb_asked' \in BOOLEAN, rb_pc[c] \notin Owning, rb_pc'[c] \notin Replacing,
           (rb_pc'[c] = "replay" \/ rb_outer'[c] # 0) => rb_lock'[rb_job'[c]] = c,
           rb_pc'[c] \in {"replay", "idle"} => rb_outer'[c] = 0
    PROVE  RebindInv'
  <1> USE DEF RebindInv
  <1>0. \A q \in rb_Callers : rb_pc'[q] \in Replacing => q # c
    OBVIOUS
  <1>1. RebindTypes'
    BY RebindLocksOfOthers DEF RebindTypes, OneCallMoves
  <1>2. LocksHeld'
    BY RebindLocksOfOthers DEF LocksHeld
  <1>a. \A q \in rb_Callers \ {c} : /\ rb_pc'[q] = rb_pc[q] /\ rb_job'[q] = rb_job[q]
        /\ rb_using'[q] = rb_using[q]
                                    /\ rb_seen'[q] = rb_seen[q]
    BY DEF OneCallMoves
  <1>b. Installing \subseteq Replacing /\ Owning \subseteq Replacing
    BY DEF Owning, Installing, Replacing
  <1>3. OwnIds'
    <2>1. ASSUME NEW q \in rb_Callers, rb_pc'[q] \in Replacing
          PROVE  /\ rb_pc'[q] = rb_pc[q] /\ rb_job'[q] = rb_job[q] /\ rb_using'[q] = rb_using[q]
                    /\ rb_seen'[q] = rb_seen[q]
      BY <1>0, <1>a, <2>1
    <2> QED
      BY <1>b, <2>1 DEF OwnIds
  <1>4. InstalledOpen' /\ OfTheClient'
    BY DEF InstalledOpen, OfTheClient
  <1>5. EarlyKnown'
    <2>1. ASSUME NEW q \in rb_Callers, rb_pc'[q] \in Replacing
          PROVE  rb_pc'[q] = rb_pc[q] /\ rb_job'[q] = rb_job[q] /\ rb_seen'[q] = rb_seen[q]
      BY <1>0, <1>a, <2>1
    <2> QED
      BY <2>1 DEF EarlyKnown
  <1>6. IdsKept'
    BY DEF IdsKept, OneCallMoves
  <1> QED
    BY <1>1, <1>2, <1>3, <1>4, <1>5, <1>6

\* The ways an operation ends, and what it leaves.
LEMMA RebindReturns ==
    ASSUME RebindTypes, LocksHeld, NEW c \in rb_Callers, Rebind!Returns(c)
    PROVE  /\ \E p \in {"retry", "idle"} : rb_pc' = [rb_pc EXCEPT ![c] = p]
           /\ rb_outer' = [rb_outer EXCEPT ![c] = 0]
           /\ \E u \in 0 .. Len(rb_kind) : rb_using' = [rb_using EXCEPT ![c] = u]
           /\ \/ rb_lock' = rb_lock
              \/ rb_lock[rb_job[c]] = c /\ rb_lock' = [rb_lock EXCEPT ![rb_job[c]] = "free"]
  <1>1. rb_outer[c] \in 0 .. Len(rb_kind) /\ 0 \in 0 .. Len(rb_kind)
    BY DEF RebindTypes
  <1>2. CASE rb_outer[c] # 0
    BY <1>1, <1>2 DEF Rebind!Returns, Rebind!Go, LocksHeld
  <1>3. CASE rb_outer[c] = 0
    <2>1. rb_outer = [rb_outer EXCEPT ![c] = 0]
      BY <1>3 DEF RebindTypes
    <2> QED
      BY <1>1, <1>3, <2>1 DEF Rebind!Returns, Rebind!Go
  <1> QED
    BY <1>2, <1>3
LEMMA RebindFails ==
    ASSUME RebindTypes, LocksHeld, NEW c \in rb_Callers, NEW phase, Rebind!Fails(c, phase)
    PROVE  /\ \/ rb_pc' = [rb_pc EXCEPT ![c] = "trigger"] /\ rb_outer' = rb_outer
                 /\ rb_lock' = rb_lock
              \/ /\ \E p \in {"retry", "idle"} : rb_pc' = [rb_pc EXCEPT ![c] = p]
                 /\ rb_outer' = [rb_outer EXCEPT ![c] = 0]
                 /\ \/ rb_lock' = rb_lock
                    \/ rb_lock[rb_job[c]] = c /\ rb_lock' = [rb_lock EXCEPT ![rb_job[c]] = "free"]
           /\ \E u \in 0 .. Len(rb_kind) : rb_using' = [rb_using EXCEPT ![c] = u]
  <1>1. CASE Rebind!Returns(c)
    BY <1>1, RebindReturns
  <1>2. CASE Rebind!Go(c, "trigger") /\ UNCHANGED <<rb_lock, rb_using, rb_outer>>
    <2>1. rb_using[c] \in 0 .. Len(rb_kind) /\ rb_using = [rb_using EXCEPT ![c] = rb_using[c]]
      BY DEF RebindTypes
    <2> QED
      BY <1>2, <2>1 DEF Rebind!Go
  <1> QED
    BY <1>1, <1>2 DEF Rebind!Fails
LEMMA RebindFailsUnlocked ==
    ASSUME RebindTypes, LocksHeld, NEW c \in rb_Callers, NEW phase, Rebind!FailsUnlocked(c, phase),
           rb_pc[c] \in Replacing
    PROVE  /\ \E p \in {"trigger", "idle"} : rb_pc' = [rb_pc EXCEPT ![c] = p]
           /\ rb_outer' = rb_outer /\ rb_outer[c] = 0
           /\ \E u \in 0 .. Len(rb_kind) : rb_using' = [rb_using EXCEPT ![c] = u]
           /\ rb_lock[rb_job[c]] = c /\ rb_lock' = [rb_lock EXCEPT ![rb_job[c]] = "free"]
  <1>1. rb_outer[c] = 0 /\ rb_lock[rb_job[c]] = c
    BY DEF LocksHeld
  <1>2. /\ rb_using[c] \in 0 .. Len(rb_kind) /\ rb_using = [rb_using EXCEPT ![c] = rb_using[c]]
        /\ 0 \in 0 .. Len(rb_kind)
    BY DEF RebindTypes
  <1> QED
    BY <1>1, <1>2 DEF Rebind!FailsUnlocked, Rebind!Go

\* The ways in which a call moves on without a service of its own.
LEMMA RebindGoesOnKeeps ==
    ASSUME Rebind!RebindAssumption, RebindInv, NEW c \in rb_Callers,
           UNCHANGED <<rb_client, rb_opened, rb_up, rb_kind, rb_owner, rb_closed, rb_svc,
               rb_core, rb_taken, rb_todo, rb_early>>,
           rb_asked' \in BOOLEAN, rb_pc[c] \notin Owning,
           NEW p \in RebindPlaces, p \notin Replacing \union {"replay"},
           rb_pc' = [rb_pc EXCEPT ![c] = p],
           NEW u \in 0 .. Len(rb_kind), rb_using' = [rb_using EXCEPT ![c] = u],
           rb_seen' = rb_seen \/ rb_seen' = [rb_seen EXCEPT ![c] = 0],
           \/ p # "idle" /\ rb_outer' = rb_outer /\ rb_lock' = rb_lock /\ rb_job' = rb_job
           \/ /\ (rb_outer' = rb_outer /\ rb_outer[c] = 0) \/ rb_outer' = [rb_outer EXCEPT ![c] = 0]
              /\ rb_lock' = rb_lock \/ (rb_lock[rb_job[c]] = c
                 /\ rb_lock' = [rb_lock EXCEPT ![rb_job[c]] = "free"])
              /\ rb_job' = rb_job
           \/ /\ rb_outer' = rb_outer /\ rb_outer[c] = 0 /\ rb_lock' = rb_lock
              /\ \E s \in rb_Services : rb_job' = [rb_job EXCEPT ![c] = s]
           \/ /\ rb_pc[c] = "replay" /\ p = "ensure" /\ rb_lock' = rb_lock /\ rb_job' = rb_job
              /\ rb_outer' = [rb_outer EXCEPT ![c] = u]
    PROVE  RebindInv'
  <1> USE DEF RebindInv
  <1>1. 0 \in 0 .. Len(rb_kind) /\ 0 \in 0 .. rb_opened
    BY DEF RebindTypes
  <1>2. /\ rb_pc' \in [rb_Callers -> RebindPlaces]
           /\ rb_using' \in [rb_Callers -> 0 .. Len(rb_kind')]
        /\ rb_seen' \in [rb_Callers -> 0 .. rb_opened]
        /\ \A q \in rb_Callers \ {c} : rb_pc'[q] = rb_pc[q] /\ rb_using'[q] = rb_using[q]
           /\ rb_seen'[q] = rb_seen[q]
    BY <1>1 DEF RebindTypes
  <1>3. /\ rb_job' \in [rb_Callers -> rb_Services]
           /\ rb_outer' \in [rb_Callers -> 0 .. Len(rb_kind')]
        /\ \A q \in rb_Callers \ {c} : rb_job'[q] = rb_job[q] /\ rb_outer'[q] = rb_outer[q]
    <2>1. rb_job' = rb_job \/ \E s \in rb_Services : rb_job' = [rb_job EXCEPT ![c] = s]
      OBVIOUS
    <2>2. rb_outer' = rb_outer
          \/ \E o \in 0 .. Len(rb_kind) : rb_outer' = [rb_outer EXCEPT ![c] = o]
      BY <1>1
    <2>3. rb_job \in [rb_Callers -> rb_Services]
          /\ rb_outer \in [rb_Callers -> 0 .. Len(rb_kind)] /\ rb_kind' = rb_kind
      BY DEF RebindTypes
    <2> QED
      BY <2>1, <2>2, <2>3
  <1>4. OneCallMoves(c)
    BY <1>2, <1>3 DEF OneCallMoves
  <1>5. rb_pc'[c] = p
    BY DEF RebindTypes
  <1>6. rb_outer'[c] # 0 => rb_lock'[rb_job'[c]] = c
    BY DEF RebindTypes, LocksHeld
  <1>7. p = "idle" => rb_outer'[c] = 0
    BY DEF RebindTypes
  <1> QED
    BY <1>4, <1>5, <1>6, <1>7, RebindMovesKeep
LEMMA RebindCallsKeep ==
    ASSUME Rebind!RebindAssumption, RebindInv, NEW c \in rb_Callers,
           \/ \E s \in rb_Services : Rebind!Call(c, s)
           \/ Rebind!EnsureFound(c) \/ Rebind!EnsureWaits(c) \/ Rebind!OperationFails(c)
              \/ Rebind!Replay(c)
    PROVE  RebindInv'
  <1> USE DEF RebindInv
  <1>1. /\ UNCHANGED <<rb_client, rb_opened, rb_up, rb_kind, rb_owner, rb_closed, rb_svc,
           rb_core, rb_taken, rb_todo, rb_early, rb_asked,
                       rb_lock, rb_seen>>
        /\ rb_asked \in BOOLEAN
    BY DEF Rebind!Call, Rebind!EnsureFound, Rebind!EnsureWaits, Rebind!OperationFails,
       Rebind!Replay, Rebind!coreVars, RebindTypes
  <1>2. \/ /\ rb_pc' = [rb_pc EXCEPT ![c] = "ensure"] /\ rb_pc[c] = "idle"
              /\ UNCHANGED <<rb_using, rb_outer>>
           /\ \E s \in rb_Services : rb_job' = [rb_job EXCEPT ![c] = s]
        \/ /\ rb_pc[c] = "ensure" /\ rb_pc' = [rb_pc EXCEPT ![c] = "op"]
              /\ UNCHANGED <<rb_outer, rb_job>>
           /\ rb_using' = [rb_using EXCEPT ![c] = rb_svc[rb_job[c]]]
        \/ rb_pc[c] = "ensure" /\ rb_pc' = [rb_pc EXCEPT ![c] = "ensureLock"]
           /\ UNCHANGED <<rb_outer, rb_job, rb_using>>
        \/ rb_pc[c] = "op" /\ rb_pc' = [rb_pc EXCEPT ![c] = "rebind"]
           /\ UNCHANGED <<rb_outer, rb_job, rb_using>>
        \/ /\ rb_pc[c] = "replay" /\ rb_pc' = [rb_pc EXCEPT ![c] = "ensure"]
              /\ UNCHANGED <<rb_job, rb_using>>
           /\ rb_outer' = [rb_outer EXCEPT ![c] = rb_using[c]]
    BY DEF Rebind!Call, Rebind!EnsureFound, Rebind!EnsureWaits, Rebind!OperationFails,
       Rebind!Replay, Rebind!Go
  <1>3. /\ rb_using[c] \in 0 .. Len(rb_kind) /\ rb_using = [rb_using EXCEPT ![c] = rb_using[c]]
        /\ rb_svc[rb_job[c]] \in 0 .. Len(rb_kind) /\ (rb_pc[c] = "idle" => rb_outer[c] = 0)
    BY DEF RebindTypes, LocksHeld
  <1>4. rb_pc[c] \notin Owning
    BY <1>2 DEF Owning
  <1>5. \A p \in {"ensure", "op", "ensureLock", "rebind"} :
            p \in RebindPlaces /\ p # "idle" /\ p \notin Replacing \union {"replay"}
    BY DEF RebindPlaces, Replacing
  <1>6. CASE /\ rb_pc' = [rb_pc EXCEPT ![c] = "ensure"] /\ rb_pc[c] = "idle"
        /\ UNCHANGED <<rb_using, rb_outer>>
             /\ \E s \in rb_Services : rb_job' = [rb_job EXCEPT ![c] = s]
    BY <1>1, <1>3, <1>4, <1>5, <1>6, RebindGoesOnKeeps
  <1>7. CASE /\ rb_pc[c] = "ensure" /\ rb_pc' = [rb_pc EXCEPT ![c] = "op"]
        /\ UNCHANGED <<rb_outer, rb_job>>
             /\ rb_using' = [rb_using EXCEPT ![c] = rb_svc[rb_job[c]]]
    BY <1>1, <1>3, <1>4, <1>5, <1>7, RebindGoesOnKeeps
  <1>8. ASSUME NEW p \in {"ensureLock", "rebind"},
               rb_pc' = [rb_pc EXCEPT ![c] = p], UNCHANGED <<rb_outer, rb_job, rb_using>>
        PROVE  RebindInv'
    <2>1. /\ p \in RebindPlaces /\ p # "idle" /\ p \notin Replacing \union {"replay"}
          /\ rb_outer' = rb_outer /\ rb_lock' = rb_lock /\ rb_job' = rb_job
          /\ rb_using' = [rb_using EXCEPT ![c] = rb_using[c]] /\ rb_seen' = rb_seen
      BY <1>1, <1>3, <1>5, <1>8
    <2> QED
      BY <1>1, <1>3, <1>4, <1>8, <2>1, RebindGoesOnKeeps
  <1>9. CASE /\ rb_pc[c] = "replay" /\ rb_pc' = [rb_pc EXCEPT ![c] = "ensure"]
        /\ UNCHANGED <<rb_job, rb_using>>
             /\ rb_outer' = [rb_outer EXCEPT ![c] = rb_using[c]]
    BY <1>1, <1>3, <1>4, <1>5, <1>9, RebindGoesOnKeeps
  <1> QED
    BY <1>2, <1>6, <1>7, <1>8, <1>9
LEMMA RebindEndsKeep ==
    ASSUME Rebind!RebindAssumption, RebindInv, NEW c \in rb_Callers,
           \/ Rebind!EnsureNoClient(c) \/ (Rebind!EnsureLocked(c) /\ rb_pc'[c] # "ensureAlloc")
              \/ Rebind!EnsureAllocFails(c)
           \/ Rebind!OperationEnds(c) \/ Rebind!RetryFails(c) \/ Rebind!RebindAllocFails(c)
              \/ Rebind!Trigger(c)
    PROVE  RebindInv'
  <1> USE DEF RebindInv
  <1>1. /\ UNCHANGED <<rb_client, rb_opened, rb_up, rb_kind, rb_owner, rb_closed, rb_svc,
           rb_core, rb_taken, rb_todo, rb_early, rb_job>>
        /\ rb_asked' \in BOOLEAN /\ rb_pc[c] \notin Owning
        /\ rb_seen' = rb_seen \/ rb_seen' = [rb_seen EXCEPT ![c] = 0]
    <2>1. CASE Rebind!EnsureLocked(c) /\ rb_pc'[c] # "ensureAlloc"
      <3>1. CASE rb_svc[rb_job[c]] # 0
        BY <2>1, <3>1 DEF Rebind!EnsureLocked, RebindTypes, Owning
      <3>2. CASE rb_svc[rb_job[c]] = 0 /\ rb_client = 0
        BY <2>1, <3>2 DEF Rebind!EnsureLocked, RebindTypes, Owning
      <3>3. CASE rb_svc[rb_job[c]] = 0 /\ rb_client # 0
        BY <2>1, <3>3 DEF Rebind!EnsureLocked, RebindTypes, Rebind!Go
      <3> QED
        BY <3>1, <3>2, <3>3
    <2>2. CASE ~(Rebind!EnsureLocked(c) /\ rb_pc'[c] # "ensureAlloc")
      BY <2>2 DEF Rebind!EnsureNoClient, Rebind!EnsureAllocFails, Rebind!OperationEnds,
         Rebind!RetryFails, Rebind!RebindAllocFails, Rebind!Trigger,
         Rebind!coreVars, RebindTypes, Owning
    <2> QED
      BY <2>1, <2>2
  <1>2. \A p \in {"op", "trigger", "retry", "idle"} :
            p \in RebindPlaces /\ p \notin Replacing \union {"replay"}
    BY DEF RebindPlaces, Replacing
  <1>3. \/ /\ rb_pc' = [rb_pc EXCEPT ![c] = "op"]
              /\ rb_using' = [rb_using EXCEPT ![c] = rb_svc[rb_job[c]]]
           /\ rb_outer' = rb_outer /\ rb_lock' = rb_lock
        \/ \E phase : Rebind!Fails(c, phase)
        \/ \E phase : Rebind!FailsUnlocked(c, phase) /\ rb_pc[c] \in Replacing
        \/ Rebind!Returns(c)
    <2>1. CASE Rebind!EnsureLocked(c) /\ rb_pc'[c] # "ensureAlloc"
      <3>1. CASE rb_svc[rb_job[c]] # 0
        BY <2>1, <3>1 DEF Rebind!EnsureLocked, Rebind!Go
      <3>2. CASE rb_svc[rb_job[c]] = 0 /\ rb_client = 0
        BY <2>1, <3>2 DEF Rebind!EnsureLocked
      <3>3. CASE rb_svc[rb_job[c]] = 0 /\ rb_client # 0
        BY <2>1, <3>3 DEF Rebind!EnsureLocked, RebindTypes, Rebind!Go
      <3> QED
        BY <3>1, <3>2, <3>3
    <2>2. CASE Rebind!EnsureAllocFails(c) \/ Rebind!RebindAllocFails(c)
      BY <2>2 DEF Rebind!EnsureAllocFails, Rebind!RebindAllocFails, Replacing
    <2>3. CASE Rebind!EnsureNoClient(c) \/ Rebind!RetryFails(c) \/ Rebind!OperationEnds(c)
          \/ Rebind!Trigger(c)
      BY <2>3 DEF Rebind!EnsureNoClient, Rebind!RetryFails, Rebind!OperationEnds, Rebind!Trigger
    <2> QED
      BY <2>1, <2>2, <2>3
  <1>4. CASE /\ rb_pc' = [rb_pc EXCEPT ![c] = "op"]
        /\ rb_using' = [rb_using EXCEPT ![c] = rb_svc[rb_job[c]]]
             /\ rb_outer' = rb_outer /\ rb_lock' = rb_lock
    <2>1. rb_svc[rb_job[c]] \in 0 .. Len(rb_kind)
      BY DEF RebindTypes
    <2> QED
      BY <1>1, <1>2, <1>4, <2>1, RebindGoesOnKeeps
  <1>5. ASSUME NEW p \in {"retry", "idle"}, rb_pc' = [rb_pc EXCEPT ![c] = p],
               rb_outer' = [rb_outer EXCEPT ![c] = 0],
               NEW u \in 0 .. Len(rb_kind), rb_using' = [rb_using EXCEPT ![c] = u],
               rb_lock' = rb_lock \/ (rb_lock[rb_job[c]] = c
                   /\ rb_lock' = [rb_lock EXCEPT ![rb_job[c]] = "free"])
        PROVE  RebindInv'
    <2>1. p \in RebindPlaces /\ p \notin Replacing \union {"replay"}
      BY <1>2, <1>5
    <2> QED
      BY <1>1, <1>5, <2>1, RebindGoesOnKeeps
  <1>6. ASSUME NEW u \in 0 .. Len(rb_kind), rb_using' = [rb_using EXCEPT ![c] = u],
               rb_pc' = [rb_pc EXCEPT ![c] = "trigger"], rb_outer' = rb_outer, rb_lock' = rb_lock
        PROVE  RebindInv'
    BY <1>1, <1>2, <1>6, RebindGoesOnKeeps
  <1>7. CASE \E phase : Rebind!Fails(c, phase)
    BY <1>5, <1>6, <1>7, RebindFails
  <1>8. CASE \E phase : Rebind!FailsUnlocked(c, phase) /\ rb_pc[c] \in Replacing
    <2>1. PICK p \in {"trigger", "idle"}, u \in 0 .. Len(rb_kind) :
            /\ rb_pc' = [rb_pc EXCEPT ![c] = p]
            /\ rb_outer' = rb_outer /\ rb_outer[c] = 0
            /\ rb_using' = [rb_using EXCEPT ![c] = u]
            /\ rb_lock[rb_job[c]] = c /\ rb_lock' = [rb_lock EXCEPT ![rb_job[c]] = "free"]
      BY <1>8, RebindFailsUnlocked
    <2>2. p \in RebindPlaces /\ p \notin Replacing \union {"replay"}
      BY <1>2, <2>1
    <2> QED
      BY <1>1, <2>1, <2>2, RebindGoesOnKeeps
  <1>9. CASE Rebind!Returns(c)
    BY <1>5, <1>9, RebindReturns
  <1> QED
    BY <1>3, <1>4, <1>7, <1>8, <1>9

\* A call takes the lock, and with it what is installed.
LEMMA RebindBeginsKeep ==
    ASSUME Rebind!RebindAssumption, RebindInv, NEW c \in rb_Callers,
           \/ Rebind!EnsureLocked(c) /\ rb_pc'[c] = "ensureAlloc"
           \/ Rebind!RebindTakes(c)
    PROVE  RebindInv'
  <1> USE DEF RebindInv
  <1> DEFINE s == rb_job[c]
  <1>0. s \in rb_Services /\ rb_svc[s] \in 0 .. Len(rb_kind) /\ 0 \in 0 .. Len(rb_kind)
        /\ rb_client \in 0 .. rb_opened
    BY DEF RebindTypes
  <1>1. /\ UNCHANGED <<rb_client, rb_opened, rb_up, rb_kind, rb_owner, rb_closed, rb_core,
           rb_taken, rb_todo, rb_asked, rb_job, rb_outer>>
        /\ rb_lock[s] = "free" /\ rb_lock' = [rb_lock EXCEPT ![s] = c]
           /\ rb_early' = Rebind!Early(s)
        /\ rb_seen' = [rb_seen EXCEPT ![c] = rb_client] /\ rb_svc' = [rb_svc EXCEPT ![s] = 0]
        /\ rb_pc[c] \in {"ensureLock", "rebind"}
        /\ \/ /\ rb_pc' = [rb_pc EXCEPT ![c] = "ensureAlloc"] /\ rb_client # 0 /\ rb_svc[s] = 0
              /\ rb_using' = rb_using
           \/ /\ rb_pc' = [rb_pc EXCEPT ![c] = "rebindClose"]
                 /\ rb_using' = [rb_using EXCEPT ![c] = rb_svc[s]]
    <2>1. CASE Rebind!EnsureLocked(c) /\ rb_pc'[c] = "ensureAlloc"
      <3>1. rb_svc[s] = 0 /\ rb_client # 0
        <4>1. CASE rb_svc[s] # 0
          BY <2>1, <4>1 DEF Rebind!EnsureLocked, Rebind!Go, RebindTypes
        <4>2. CASE rb_svc[s] = 0 /\ rb_client = 0
          <5>1. Rebind!Fails(c, "initial")
            BY <2>1, <4>2 DEF Rebind!EnsureLocked
          <5>2. \E p \in {"trigger", "retry", "idle"} : rb_pc' = [rb_pc EXCEPT ![c] = p]
            BY <5>1, RebindFails
          <5> QED
            BY <2>1, <5>2 DEF RebindTypes
        <4> QED
          BY <4>1, <4>2
      <3>2. rb_svc = [rb_svc EXCEPT ![s] = 0]
        BY <1>0, <3>1 DEF RebindTypes
      <3> QED
        BY <2>1, <3>1, <3>2 DEF Rebind!EnsureLocked, Rebind!Go
    <2>2. CASE Rebind!RebindTakes(c)
      BY <2>2 DEF Rebind!RebindTakes, Rebind!Go
    <2> QED
      BY <2>1, <2>2
  <1>2. /\ rb_pc'[c] \in {"ensureAlloc", "rebindClose"} /\ rb_pc' \in [rb_Callers -> RebindPlaces]
        /\ \A q \in rb_Callers \ {c} : rb_pc'[q] = rb_pc[q]
    BY <1>1 DEF RebindTypes, RebindPlaces
  <1>3. /\ rb_seen' \in [rb_Callers -> 0 .. rb_opened]
           /\ rb_using' \in [rb_Callers -> 0 .. Len(rb_kind)]
        /\ rb_seen'[c] = rb_client
        /\ \A q \in rb_Callers \ {c} : rb_seen'[q] = rb_seen[q] /\ rb_using'[q] = rb_using[q]
    BY <1>0, <1>1 DEF RebindTypes
  <1>4. OneCallMoves(c)
    BY <1>1, <1>2, <1>3 DEF OneCallMoves, RebindTypes
  <1>5. rb_svc' \in [rb_Services -> 0 .. Len(rb_kind)] /\ rb_svc'[s] = 0
        /\ \A r \in rb_Services \ {s} : rb_svc'[r] = rb_svc[r]
    BY <1>0, <1>1 DEF RebindTypes
  <1>6. rb_early \subseteq rb_early' /\ rb_early' \subseteq rb_Services
        /\ (rb_core # "ready" => s \in rb_early')
    BY <1>0, <1>1 DEF Rebind!Early, RebindTypes
  <1>7. rb_outer[c] = 0 /\ rb_lock'[s] = c
    BY <1>0, <1>1 DEF LocksHeld, RebindTypes, Rebind!RebindAssumption
  <1>8. RebindTypes'
    BY <1>1, <1>2, <1>3, <1>4, <1>5, <1>6, RebindLocksOfOthers DEF RebindTypes
  <1>9. LocksHeld'
    BY <1>1, <1>4, <1>7, RebindLocksOfOthers DEF LocksHeld
  <1>10. \/ rb_pc'[c] = "rebindClose" /\ rb_using'[c] = rb_svc[s]
         \/ rb_pc'[c] = "ensureAlloc" /\ rb_client # 0 /\ rb_svc[s] = 0
    <2>1. rb_pc \in [rb_Callers -> RebindPlaces] /\ rb_using \in [rb_Callers -> 0 .. Len(rb_kind)]
      BY DEF RebindTypes
    <2>2. CASE rb_pc' = [rb_pc EXCEPT ![c] = "rebindClose"]
          /\ rb_using' = [rb_using EXCEPT ![c] = rb_svc[s]]
      <3>1. rb_pc'[c] = "rebindClose"
        BY <2>1, <2>2
      <3>2. rb_using'[c] = rb_svc[s]
        BY <2>1, <2>2
      <3> QED
        BY <3>1, <3>2
    <2>3. CASE rb_pc' = [rb_pc EXCEPT ![c] = "ensureAlloc"] /\ rb_client # 0 /\ rb_svc[s] = 0
      BY <2>1, <2>3
    <2> QED
      BY <1>1, <2>2, <2>3
  <1>11. OwnIds'
    <2>1. ASSUME NEW q \in rb_Callers \ {c} PROVE OwnIds!(q)'
      BY <1>1, <1>2, <1>3, <1>5, <2>1 DEF OwnIds, RebindTypes
    <2>2. OwnIds!(c)'
      <3>1. CASE rb_pc'[c] = "ensureAlloc" /\ rb_client # 0
        BY <1>1, <1>3, <3>1 DEF Installing, Owning
      <3>2. CASE rb_pc'[c] = "rebindClose" /\ rb_using'[c] = rb_svc[s]
        <4>1. rb_svc[s] # 0 => rb_kind[rb_svc[s]] = s /\ rb_svc[s] \notin rb_taken
          BY <1>0 DEF InstalledOpen
        <4> QED
          BY <1>1, <1>5, <3>2, <4>1 DEF Installing
      <3> QED
        BY <1>10, <3>1, <3>2
    <2> QED
      BY <2>1, <2>2 DEF OwnIds
  <1>12. InstalledOpen' /\ OfTheClient'
    BY <1>1, <1>5 DEF InstalledOpen, OfTheClient
  <1>13. EarlyKnown'
    <2>1. ASSUME NEW q \in rb_Callers \ {c}, rb_pc'[q] \in Replacing, rb_seen'[q] = rb_client',
                 rb_job'[q] \notin rb_early'
          PROVE  rb_core' # "alloc" /\ (rb_core' = "ready"
                 => rb_svc'[rb_job'[q]] = 0 \/ rb_owner'[rb_svc'[rb_job'[q]]] # rb_client')
      <3>1. rb_job[q] \notin rb_early /\ rb_job[q] \in rb_Services
        BY <1>1, <1>6, <2>1 DEF RebindTypes
      <3> QED
        BY <1>1, <1>2, <1>3, <1>5, <2>1, <3>1 DEF EarlyKnown
    <2>2. rb_job'[c] \notin rb_early' => rb_core' = "ready" /\ rb_svc'[rb_job'[c]] = 0
      BY <1>1, <1>5, <1>6
    <2>3. \A r \in rb_Services :
            rb_core' = "alloc" /\ r \in rb_todo' \union Rebind!LazyServices /\ rb_svc'[r] # 0
                /\ rb_owner'[rb_svc'[r]] = rb_client'
                => r \in rb_early'
      BY <1>1, <1>5, <1>6 DEF EarlyKnown
    <2> QED
      BY <2>1, <2>2, <2>3 DEF EarlyKnown
  <1>14. IdsKept'
    <2>1. ASSUME rb_core \in {"ready", "alloc"}, NEW i \in 1 .. Len(rb_kind),
                 rb_owner[i] = rb_client, i \notin rb_closed, rb_kind[i] \notin rb_early'
          PROVE  rb_svc'[rb_kind[i]] = i \/ \E q \in rb_Callers : rb_using'[q] = i
                 /\ rb_pc'[q] \in Owning
      <3>1. rb_svc[rb_kind[i]] = i \/ \E q \in rb_Callers : rb_using[q] = i /\ rb_pc[q] \in Owning
        BY <1>6, <2>1 DEF IdsKept
      <3>2. CASE rb_svc[rb_kind[i]] = i
        <4>1. rb_kind[i] \in rb_Services
          BY DEF RebindTypes
        <4>2. CASE rb_kind[i] = s
          <5>1. rb_pc'[c] = "rebindClose" /\ rb_using'[c] = i
            BY <1>10, <3>2, <4>2
          <5> QED
            BY <5>1 DEF Owning
        <4> QED
          BY <1>5, <3>2, <4>1, <4>2
      <3>3. CASE \E q \in rb_Callers : rb_using[q] = i /\ rb_pc[q] \in Owning
        BY <1>1, <1>2, <1>3, <3>3 DEF Owning
      <3> QED
        BY <3>1, <3>2, <3>3
    <2> QED
      BY <1>1, <2>1 DEF IdsKept
  <1> QED
    BY <1>8, <1>9, <1>11, <1>12, <1>13, <1>14

\* The modem gives the call an id.
LEMMA RebindAllocatesKeep ==
    ASSUME Rebind!RebindAssumption, RebindInv, NEW c \in rb_Callers,
           Rebind!EnsureAllocates(c) \/ Rebind!RebindAllocates(c)
    PROVE  RebindInv'
  <1> USE DEF RebindInv
  <1> DEFINE s == rb_job[c]
  <1>0. s \in rb_Services /\ rb_seen[c] \in 1 .. rb_opened /\ rb_opened \in 1 .. rb_MaxClients
        /\ Len(rb_kind) < rb_MaxIds
    BY DEF Rebind!EnsureAllocates, Rebind!RebindAllocates, Rebind!AllocateForCall,
       Rebind!Allocate, RebindTypes
  <1>1. /\ UNCHANGED <<rb_client, rb_opened, rb_up, rb_closed, rb_svc, rb_core, rb_taken,
           rb_todo, rb_early, rb_asked, rb_lock, rb_job,
                       rb_seen, rb_outer>>
        /\ rb_kind' = Append(rb_kind, s) /\ rb_owner' = Append(rb_owner, rb_seen[c])
        /\ rb_using' = [rb_using EXCEPT ![c] = Rebind!Fresh]
        /\ rb_pc[c] \in {"ensureAlloc", "rebindAlloc"}
        /\ \E p \in Installing : rb_pc' = [rb_pc EXCEPT ![c] = p]
    BY DEF Rebind!EnsureAllocates, Rebind!RebindAllocates, Rebind!AllocateForCall,
       Rebind!Allocate, Rebind!Go, Installing
  <1>2. /\ rb_kind' \in Seq(rb_Services) /\ Len(rb_kind') = Len(rb_kind) + 1
           /\ Len(rb_kind') <= rb_MaxIds
        /\ rb_owner' \in Seq(1 .. rb_MaxClients) /\ Len(rb_owner') = Len(rb_kind')
        /\ \A i \in 1 .. Len(rb_kind) : rb_kind'[i] = rb_kind[i] /\ rb_owner'[i] = rb_owner[i]
        /\ rb_kind'[Rebind!Fresh] = s /\ rb_owner'[Rebind!Fresh] = rb_seen[c]
        /\ Rebind!Fresh \in 1 .. Len(rb_kind') /\ Rebind!Fresh = Len(rb_kind) + 1
           /\ Len(rb_kind) \in Nat
    <2>1. /\ rb_kind \in Seq(rb_Services) /\ rb_owner \in Seq(1 .. rb_MaxClients)
             /\ Len(rb_owner) = Len(rb_kind)
          /\ Len(rb_kind) \in Nat /\ rb_MaxIds \in Nat /\ rb_MaxClients \in Nat
      BY DEF RebindTypes, Rebind!RebindAssumption
    <2>2. rb_seen[c] \in 1 .. rb_MaxClients
      BY <1>0, <2>1
    <2>3. /\ rb_kind' \in Seq(rb_Services) /\ Len(rb_kind') = Len(rb_kind) + 1
          /\ \A i \in 1 .. Len(rb_kind) : rb_kind'[i] = rb_kind[i]
          /\ rb_kind'[Len(rb_kind) + 1] = s
      BY <1>0, <1>1, <2>1
    <2>4. /\ rb_owner' \in Seq(1 .. rb_MaxClients) /\ Len(rb_owner') = Len(rb_owner) + 1
          /\ \A i \in 1 .. Len(rb_owner) : rb_owner'[i] = rb_owner[i]
          /\ rb_owner'[Len(rb_owner) + 1] = rb_seen[c]
      BY <1>1, <2>1, <2>2
    <2> QED
      BY <1>0, <2>1, <2>3, <2>4 DEF Rebind!Fresh
  <1>3. /\ rb_pc'[c] \in Installing /\ rb_pc' \in [rb_Callers -> RebindPlaces]
        /\ \A q \in rb_Callers \ {c} : rb_pc'[q] = rb_pc[q]
    <2>1. rb_pc \in [rb_Callers -> RebindPlaces] /\ Installing \subseteq RebindPlaces
      BY DEF RebindTypes, RebindPlaces, Installing
    <2> QED
      BY <1>1, <2>1
  <1>4. /\ rb_using' \in [rb_Callers -> 0 .. Len(rb_kind')] /\ rb_using'[c] = Rebind!Fresh
        /\ \A q \in rb_Callers \ {c} : rb_using'[q] = rb_using[q]
    BY <1>1, <1>2 DEF RebindTypes
  <1>5. rb_outer' \in [rb_Callers -> 0 .. Len(rb_kind')]
    BY <1>1, <1>2 DEF RebindTypes
  <1>6. OneCallMoves(c)
    BY <1>1, <1>3, <1>4, <1>5 DEF OneCallMoves, RebindTypes
  <1>7. rb_outer[c] = 0 /\ rb_lock[s] = c
    BY <1>1 DEF LocksHeld, Replacing
  <1>8. RebindTypes'
    <2>1. \A i \in 1 .. Len(rb_kind') : rb_owner'[i] \in 1 .. rb_opened
      <3>1. \A i \in 1 .. Len(rb_kind) : rb_owner[i] \in 1 .. rb_opened
        BY DEF RebindTypes
      <3> QED
        BY <1>0, <1>2, <3>1
    <2>2. /\ rb_closed \subseteq 1 .. Len(rb_kind') /\ rb_taken \subseteq 1 .. Len(rb_kind')
          /\ rb_svc \in [rb_Services -> 0 .. Len(rb_kind')]
      BY <1>2 DEF RebindTypes
    <2> QED
      BY <1>1, <1>2, <1>3, <1>4, <1>5, <2>1, <2>2 DEF RebindTypes
  <1>9. LocksHeld'
    BY <1>1, <1>6, <1>7, RebindLocksOfOthers DEF LocksHeld
  <1>10. Rebind!Fresh \notin rb_closed /\ Rebind!Fresh \notin rb_taken
         /\ \A r \in rb_Services : rb_svc[r] \in 0 .. Len(rb_kind) /\ rb_svc[r] # Rebind!Fresh
    BY <1>2 DEF RebindTypes
  <1>11. OwnIds'
    <2>1. ASSUME NEW q \in rb_Callers \ {c} PROVE OwnIds!(q)'
      <3>1. rb_using[q] \in 0 .. Len(rb_kind)
        BY DEF RebindTypes
      <3> QED
        BY <1>1, <1>2, <1>3, <1>4, <2>1, <3>1 DEF OwnIds
    <2>2. OwnIds!(c)'
      BY <1>0, <1>1, <1>2, <1>3, <1>4, <1>10
    <2> QED
      BY <2>1, <2>2 DEF OwnIds
  <1>12. InstalledOpen' /\ OfTheClient'
    BY <1>1, <1>2, <1>10 DEF InstalledOpen, OfTheClient
  <1>13. EarlyKnown'
    <2>1. ASSUME NEW q \in rb_Callers, rb_pc'[q] \in Replacing, rb_seen[q] = rb_client,
                 rb_job[q] \notin rb_early
          PROVE  rb_core # "alloc" /\ (rb_core = "ready"
                 => rb_svc[rb_job[q]] = 0 \/ rb_owner'[rb_svc[rb_job[q]]] # rb_client)
      <3>1. rb_pc[q] \in Replacing
        BY <1>1, <1>3, <2>1 DEF Replacing
      <3>2. rb_job[q] \in rb_Services
        BY DEF RebindTypes
      <3> QED
        BY <1>2, <1>10, <2>1, <3>1, <3>2 DEF EarlyKnown
    <2>2. \A r \in rb_Services :
            rb_core = "alloc" /\ r \in rb_todo \union Rebind!LazyServices /\ rb_svc[r] # 0
                /\ rb_owner'[rb_svc[r]] = rb_client
                => r \in rb_early
      BY <1>2, <1>10 DEF EarlyKnown
    <2> QED
      BY <1>1, <2>1, <2>2 DEF EarlyKnown
  <1>14. IdsKept'
    <2>1. ASSUME rb_core \in {"ready", "alloc"}, NEW i \in 1 .. Len(rb_kind'),
                 rb_owner'[i] = rb_client, i \notin rb_closed, rb_kind'[i] \notin rb_early
          PROVE  rb_svc[rb_kind'[i]] = i \/ \E q \in rb_Callers : rb_using'[q] = i
                 /\ rb_pc'[q] \in Owning
      <3>1. CASE i = Rebind!Fresh
        BY <1>3, <1>4, <3>1 DEF Installing, Owning
      <3>2. CASE i \in 1 .. Len(rb_kind)
        <4>1. rb_svc[rb_kind[i]] = i \/ \E q \in rb_Callers : rb_using[q] = i /\ rb_pc[q] \in Owning
          BY <1>2, <2>1, <3>2 DEF IdsKept
        <4> QED
          BY <1>1, <1>2, <1>3, <1>4, <3>2, <4>1 DEF Owning
      <3> QED
        BY <1>2, <2>1, <3>1, <3>2
    <2> QED
      BY <1>1, <2>1 DEF IdsKept
  <1> QED
    BY <1>8, <1>9, <1>11, <1>12, <1>13, <1>14

\* A service replaced is closed, or what was allocated for a client that is gone.
LEMMA RebindLetsGo ==
    ASSUME Rebind!RebindAssumption, RebindInv, NEW c \in rb_Callers, OneCallMoves(c),
           UNCHANGED <<rb_client, rb_opened, rb_up, rb_kind, rb_owner, rb_svc, rb_core, rb_taken,
               rb_todo, rb_early, rb_asked>>,
           rb_pc[c] \in Owning, rb_closed' = rb_closed \union ({rb_using[c]} \ {0}),
               rb_job' = rb_job,
           \/ rb_pc'[c] \notin Replacing \union {"replay"}
           \/ rb_pc'[c] = "rebindAlloc" /\ rb_seen[c] # 0 /\ rb_seen'[c] = rb_seen[c]
              /\ rb_lock' = rb_lock,
           rb_outer'[c] = 0
    PROVE  RebindInv'
  <1> USE DEF RebindInv
  <1>0. rb_using[c] \in 0 .. Len(rb_kind) /\ rb_kind' = rb_kind /\ rb_job[c] \in rb_Services
    BY DEF RebindTypes
  <1>a. /\ rb_pc' \in [rb_Callers -> RebindPlaces]
        /\ \A q \in rb_Callers \ {c} : /\ rb_pc'[q] = rb_pc[q] /\ rb_job'[q] = rb_job[q]
           /\ rb_using'[q] = rb_using[q]
                                       /\ rb_seen'[q] = rb_seen[q]
    BY DEF OneCallMoves
  <1>b. Installing \subseteq Owning /\ Owning \subseteq Replacing /\ "rebindAlloc" \notin Owning
    BY DEF Owning, Installing, Replacing
  <1>c. rb_pc'[c] \notin Owning
    BY <1>b
  <1>1. RebindTypes'
    <2>1. rb_closed' \subseteq 1 .. Len(rb_kind')
      <3>1. rb_closed \subseteq 1 .. Len(rb_kind) /\ Len(rb_kind) \in Nat
        BY DEF RebindTypes
      <3>2. {rb_using[c]} \ {0} \subseteq 1 .. Len(rb_kind)
        BY <1>0, <3>1
      <3> QED
        BY <1>0, <3>1, <3>2
    <2>2. rb_lock' \in [rb_Services \union {"UIM"} -> rb_Callers \union {"free"}]
      BY RebindLocksOfOthers
    <2> QED
      BY <2>1, <2>2 DEF RebindTypes, OneCallMoves
  <1>2. LocksHeld'
    <2>1. rb_lock[rb_job[c]] = c
      BY <1>b DEF LocksHeld
    <2> QED
      BY <2>1, RebindLocksOfOthers DEF LocksHeld
  <1>3. rb_using[c] # 0 => rb_kind[rb_using[c]] = rb_job[c] /\ rb_using[c] # rb_svc[rb_job[c]]
    BY DEF OwnIds
  <1>4. OwnIds'
    <2>1. ASSUME NEW q \in rb_Callers \ {c} PROVE OwnIds!(q)'
      <3>1. rb_pc[q] \in Owning /\ rb_using[q] # 0 => rb_using[q] # rb_using[c]
        <4>1. ASSUME rb_pc[q] \in Owning, rb_using[q] # 0 PROVE rb_kind[rb_using[q]] = rb_job[q]
                     /\ rb_job[q] # rb_job[c]
          BY <1>b, <2>1, <4>1, RebindAlone DEF OwnIds
        <4> QED
          BY <1>3, <4>1
      <3> QED
        BY <1>a, <1>b, <2>1, <3>1 DEF OwnIds, RebindTypes
    <2>2. OwnIds!(c)'
      BY <1>b, <1>c DEF OwnIds
    <2> QED
      BY <2>1, <2>2 DEF OwnIds
  <1>5. InstalledOpen'
    <2>1. ASSUME NEW r \in rb_Services, rb_svc[r] # 0 PROVE rb_svc[r] \notin rb_closed'
      BY <1>3, <2>1 DEF InstalledOpen
    <2> QED
      BY <2>1 DEF InstalledOpen
  <1>6. OfTheClient'
    BY DEF OfTheClient
  <1>7. EarlyKnown'
    <2>1. ASSUME NEW q \in rb_Callers, rb_pc'[q] \in Replacing
          PROVE  rb_pc[q] \in Replacing /\ rb_job'[q] = rb_job[q] /\ rb_seen'[q] = rb_seen[q]
      BY <1>a, <1>b, <2>1
    <2> QED
      BY <2>1 DEF EarlyKnown
  <1>8. IdsKept'
    <2>1. ASSUME rb_core \in {"ready", "alloc"}, NEW i \in 1 .. Len(rb_kind),
                 rb_owner[i] = rb_client, i \notin rb_closed', rb_kind[i] \notin rb_early
          PROVE  rb_svc[rb_kind[i]] = i \/ \E q \in rb_Callers : rb_using'[q] = i
                 /\ rb_pc'[q] \in Owning
      <3>1. rb_svc[rb_kind[i]] = i \/ \E q \in rb_Callers : rb_using[q] = i /\ rb_pc[q] \in Owning
        BY <2>1 DEF IdsKept
      <3>2. i # rb_using[c]
        BY <2>1
      <3> QED
        BY <1>a, <3>1, <3>2
    <2> QED
      BY <2>1 DEF IdsKept
  <1> QED
    BY <1>1, <1>2, <1>4, <1>5, <1>6, <1>7, <1>8
LEMMA RebindClosesKeep ==
    ASSUME Rebind!RebindAssumption, RebindInv, NEW c \in rb_Callers,
           \/ Rebind!RebindCloses(c)
           \/ Rebind!EnsureInstalls(c) /\ rb_client # rb_seen[c]
           \/ Rebind!RebindInstalls(c) /\ rb_client # rb_seen[c]
    PROVE  RebindInv'
  <1> USE DEF RebindInv
  <1>1. /\ UNCHANGED <<rb_client, rb_opened, rb_up, rb_kind, rb_owner, rb_svc, rb_core, rb_taken,
           rb_todo, rb_early, rb_asked, rb_job>>
        /\ rb_pc[c] \in Owning /\ rb_closed' = rb_closed \union ({rb_using[c]} \ {0})
        /\ rb_seen' = rb_seen \/ rb_seen' = [rb_seen EXCEPT ![c] = 0]
        /\ \/ \E phase : Rebind!FailsUnlocked(c, phase)
           \/ /\ rb_pc' = [rb_pc EXCEPT ![c] = "rebindAlloc"]
                 /\ UNCHANGED <<rb_lock, rb_using, rb_outer, rb_seen>>
              /\ rb_seen[c] # 0
    <2>1. CASE Rebind!RebindCloses(c)
      BY <2>1 DEF Rebind!RebindCloses, Rebind!Go, Owning
    <2>2. CASE (Rebind!EnsureInstalls(c) \/ Rebind!RebindInstalls(c)) /\ rb_client # rb_seen[c]
      <3>1. rb_pc[c] \in Installing /\ rb_pc[c] \in Owning
        BY <2>2 DEF Rebind!EnsureInstalls, Rebind!RebindInstalls, Installing, Owning
      <3>2. {rb_using[c]} \ {0} = {rb_using[c]}
        BY <3>1 DEF OwnIds, RebindTypes
      <3> QED
        BY <2>2, <3>1, <3>2 DEF Rebind!EnsureInstalls, Rebind!RebindInstalls
    <2> QED
      BY <2>1, <2>2
  <1>2. /\ rb_pc \in [rb_Callers -> RebindPlaces] /\ rb_using \in [rb_Callers -> 0 .. Len(rb_kind)]
        /\ rb_outer \in [rb_Callers -> 0 .. Len(rb_kind)] /\ rb_job \in [rb_Callers -> rb_Services]
        /\ rb_seen \in [rb_Callers -> 0 .. rb_opened] /\ 0 \in 0 .. rb_opened
    BY DEF RebindTypes
  <1>3. rb_seen' \in [rb_Callers -> 0 .. rb_opened]
        /\ \A q \in rb_Callers \ {c} : rb_seen'[q] = rb_seen[q]
    BY <1>1, <1>2
  <1>4. rb_outer[c] = 0 /\ rb_pc[c] \in Replacing
    BY <1>1 DEF LocksHeld, Owning, Replacing
  <1>5. CASE \E phase : Rebind!FailsUnlocked(c, phase)
    <2>1. PICK p \in {"trigger", "idle"}, u \in 0 .. Len(rb_kind) :
            /\ rb_pc' = [rb_pc EXCEPT ![c] = p] /\ rb_outer' = rb_outer
            /\ rb_using' = [rb_using EXCEPT ![c] = u]
            /\ rb_lock[rb_job[c]] = c /\ rb_lock' = [rb_lock EXCEPT ![rb_job[c]] = "free"]
      BY <1>4, <1>5, RebindFailsUnlocked
    <2>2. p \in RebindPlaces /\ p \notin Replacing \union {"replay"}
      BY <2>1 DEF RebindPlaces, Replacing
    <2>3. OneCallMoves(c) /\ rb_pc'[c] = p /\ rb_outer'[c] = 0
      BY <1>1, <1>2, <1>3, <1>4, <2>1, <2>2 DEF OneCallMoves
    <2> QED
      BY <1>1, <2>2, <2>3, RebindLetsGo
  <1>6. CASE /\ rb_pc' = [rb_pc EXCEPT ![c] = "rebindAlloc"]
        /\ UNCHANGED <<rb_lock, rb_using, rb_outer, rb_seen>>
             /\ rb_seen[c] # 0
    <2>1. OneCallMoves(c) /\ rb_pc'[c] = "rebindAlloc" /\ rb_outer'[c] = 0
      BY <1>1, <1>2, <1>4, <1>6 DEF OneCallMoves, RebindPlaces
    <2> QED
      BY <1>1, <1>6, <2>1, RebindLetsGo
  <1> QED
    BY <1>1, <1>5, <1>6

\* What was allocated is installed: the client is still the one the call saw.
LEMMA RebindInstallsKeep ==
    ASSUME Rebind!RebindAssumption, RebindInv, NEW c \in rb_Callers,
           Rebind!EnsureInstalls(c) \/ Rebind!RebindInstalls(c), rb_client = rb_seen[c]
    PROVE  RebindInv'
  <1> USE DEF RebindInv
  <1> DEFINE s == rb_job[c]
  <1>1. /\ UNCHANGED <<rb_client, rb_opened, rb_up, rb_kind, rb_owner, rb_closed, rb_core,
           rb_taken, rb_todo, rb_early, rb_asked, rb_job,
                       rb_using, rb_outer>>
        /\ rb_pc[c] \in Installing /\ rb_svc' = [rb_svc EXCEPT ![s] = rb_using[c]]
        /\ rb_seen' = [rb_seen EXCEPT ![c] = 0]
        /\ \/ \E p \in {"op", "retry"} : rb_pc' = [rb_pc EXCEPT ![c] = p]
              /\ rb_lock' = [rb_lock EXCEPT ![s] = "free"]
           \/ rb_pc' = [rb_pc EXCEPT ![c] = "replay"] /\ rb_lock' = rb_lock
    BY DEF Rebind!EnsureInstalls, Rebind!RebindInstalls, Rebind!Go, Installing
  <1>2. /\ rb_pc \in [rb_Callers -> RebindPlaces] /\ rb_using \in [rb_Callers -> 0 .. Len(rb_kind)]
        /\ rb_outer \in [rb_Callers -> 0 .. Len(rb_kind)] /\ rb_job \in [rb_Callers -> rb_Services]
        /\ rb_seen \in [rb_Callers -> 0 .. rb_opened] /\ 0 \in 0 .. rb_opened
        /\ rb_svc \in [rb_Services -> 0 .. Len(rb_kind)] /\ rb_kind \in Seq(rb_Services)
    BY DEF RebindTypes
  <1>3. Installing \subseteq Owning /\ Owning \subseteq Replacing
    BY DEF Owning, Installing, Replacing
  <1>4. rb_outer[c] = 0 /\ rb_lock[s] = c
    BY <1>1, <1>3 DEF LocksHeld
  <1>5. PICK p \in {"op", "retry", "replay"} : rb_pc' = [rb_pc EXCEPT ![c] = p]
    BY <1>1
  <1>6. p \in RebindPlaces /\ p \notin Replacing
    BY <1>5 DEF RebindPlaces, Replacing
  <1>7. /\ rb_pc' \in [rb_Callers -> RebindPlaces] /\ rb_pc'[c] = p
        /\ \A q \in rb_Callers \ {c} : rb_pc'[q] = rb_pc[q]
    BY <1>2, <1>5, <1>6
  <1>8. rb_seen' \in [rb_Callers -> 0 .. rb_opened]
        /\ \A q \in rb_Callers \ {c} : rb_seen'[q] = rb_seen[q]
    BY <1>1, <1>2
  <1>9. OneCallMoves(c)
    BY <1>1, <1>2, <1>4, <1>7, <1>8 DEF OneCallMoves
  <1>10. /\ rb_using[c] \in 1 .. Len(rb_kind) /\ rb_using[c] \notin rb_closed
            /\ rb_owner[rb_using[c]] = rb_client
         /\ rb_kind[rb_using[c]] = s /\ rb_client # 0
    BY <1>1, <1>2, <1>3 DEF OwnIds, Installing
  <1>11. /\ s \in rb_Services /\ rb_svc' \in [rb_Services -> 0 .. Len(rb_kind)]
            /\ rb_svc'[s] = rb_using[c]
         /\ \A r \in rb_Services \ {s} : rb_svc'[r] = rb_svc[r]
    BY <1>1, <1>2
  <1>12. RebindTypes'
    BY <1>1, <1>7, <1>8, <1>9, <1>11, RebindLocksOfOthers DEF RebindTypes
  <1>13. LocksHeld'
    <2>1. rb_pc'[c] = "replay" => rb_lock'[s] = c
      BY <1>1, <1>2, <1>4
    <2>2. rb_pc'[c] # "idle" /\ rb_outer'[c] = 0
      BY <1>1, <1>4, <1>5, <1>7
    <2> QED
      BY <1>1, <1>6, <1>7, <1>9, <2>1, <2>2, RebindLocksOfOthers DEF LocksHeld
  <1>14. \A q \in rb_Callers : rb_pc'[q] \in Replacing =>
            /\ q # c /\ rb_pc[q] = rb_pc'[q] /\ rb_seen'[q] = rb_seen[q]
            /\ rb_job[q] \in rb_Services \ {s} /\ rb_svc'[rb_job[q]] = rb_svc[rb_job[q]]
    <2>1. ASSUME NEW q \in rb_Callers, rb_pc'[q] \in Replacing
          PROVE  /\ q # c /\ rb_pc[q] = rb_pc'[q] /\ rb_seen'[q] = rb_seen[q]
                    /\ rb_job[q] \in rb_Services \ {s}
      <3>1. q # c /\ rb_pc[q] = rb_pc'[q] /\ rb_seen'[q] = rb_seen[q]
        BY <1>6, <1>7, <1>8, <2>1
      <3>2. rb_job[q] # s
        BY <1>1, <1>3, <2>1, <3>1, RebindAlone
      <3> QED
        BY <1>2, <3>1, <3>2
    <2> QED
      BY <1>11, <2>1
  <1>15. OwnIds'
    BY <1>1, <1>3, <1>14 DEF OwnIds
  <1>16. InstalledOpen'
    <2>1. rb_core # "closing"
      BY <1>10 DEF InstalledOpen
    <2> QED
      BY <1>1, <1>10, <1>11, <2>1 DEF InstalledOpen
  <1>17. OfTheClient'
    BY <1>1, <1>10, <1>11 DEF OfTheClient
  <1>18. s \in rb_early \/ (rb_core # "alloc" /\ (rb_core = "ready"
         => rb_svc[s] = 0 \/ rb_owner[rb_svc[s]] # rb_client))
    BY <1>1, <1>3 DEF EarlyKnown
  <1>19. EarlyKnown'
    BY <1>1, <1>11, <1>14, <1>18 DEF EarlyKnown
  <1>20. IdsKept'
    <2>1. ASSUME rb_core \in {"ready", "alloc"}, NEW i \in 1 .. Len(rb_kind),
                 rb_owner[i] = rb_client, i \notin rb_closed, rb_kind[i] \notin rb_early
          PROVE  rb_svc'[rb_kind[i]] = i \/ \E q \in rb_Callers : rb_using[q] = i
                 /\ rb_pc'[q] \in Owning
      <3>1. rb_svc[rb_kind[i]] = i \/ \E q \in rb_Callers : rb_using[q] = i /\ rb_pc[q] \in Owning
        BY <2>1 DEF IdsKept
      <3>2. CASE rb_svc[rb_kind[i]] = i
        <4>1. rb_kind[i] \in rb_Services
          BY <1>2
        <4>2. rb_kind[i] # s
          BY <1>18, <2>1, <3>2
        <4> QED
          BY <1>11, <3>2, <4>1, <4>2
      <3>3. CASE \E q \in rb_Callers : rb_using[q] = i /\ rb_pc[q] \in Owning
        <4>1. CASE rb_using[c] = i
          BY <1>10, <1>11, <4>1
        <4> QED
          BY <1>7, <3>3, <4>1
      <3> QED
        BY <3>1, <3>2, <3>3
    <2> QED
      BY <1>1, <2>1 DEF IdsKept
  <1> QED
    BY <1>12, <1>13, <1>15, <1>16, <1>17, <1>19, <1>20
LEMMA RebindCallStepKeeps ==
    ASSUME Rebind!RebindAssumption, RebindInv, NEW c \in rb_Callers, Rebind!CallStep(c)
    PROVE  RebindInv'
  <1>1. CASE Rebind!EnsureLocked(c)
    BY <1>1, RebindEndsKeep, RebindBeginsKeep
  <1>2. CASE Rebind!EnsureInstalls(c) \/ Rebind!RebindInstalls(c)
    BY <1>2, RebindInstallsKeep, RebindClosesKeep
  <1>3. CASE Rebind!EnsureFound(c) \/ Rebind!EnsureWaits(c) \/ Rebind!OperationFails(c)
        \/ Rebind!Replay(c)
    BY <1>3, RebindCallsKeep
  <1>4. CASE \/ Rebind!EnsureNoClient(c) \/ Rebind!EnsureAllocFails(c) \/ Rebind!OperationEnds(c)
        \/ Rebind!RetryFails(c)
             \/ Rebind!RebindAllocFails(c) \/ Rebind!Trigger(c)
    BY <1>4, RebindEndsKeep
  <1>5. CASE Rebind!EnsureAllocates(c) \/ Rebind!RebindAllocates(c)
    BY <1>5, RebindAllocatesKeep
  <1>6. CASE Rebind!RebindTakes(c) \/ Rebind!RebindCloses(c)
    BY <1>6, RebindBeginsKeep, RebindClosesKeep
  <1> QED
    BY <1>1, <1>2, <1>3, <1>4, <1>5, <1>6 DEF Rebind!CallStep

\* What the core recovery does leaves the calls as they are.
LEMMA RebindCoreKeeps ==
    ASSUME Rebind!RebindAssumption, RebindInv, Rebind!ModemReset \/ Rebind!Cleanup
           \/ Rebind!CleanupCloses \/ Rebind!Open
    PROVE  RebindInv'
  <1> USE DEF RebindInv
  <1>0. UNCHANGED <<rb_kind, rb_owner, rb_lock, rb_pc, rb_job, rb_using, rb_seen, rb_outer>>
    BY DEF Rebind!ModemReset, Rebind!Cleanup, Rebind!CleanupCloses, Rebind!Open, Rebind!callVars
  <1>1. LocksHeld'
    BY <1>0 DEF LocksHeld
  <1>2. Installing \subseteq Owning /\ Owning \subseteq Replacing
    BY DEF Owning, Installing, Replacing
  <1>3. CASE Rebind!ModemReset
    <2>1. UNCHANGED <<rb_client, rb_opened, rb_up, rb_closed, rb_svc, rb_core, rb_taken, rb_todo,
          rb_early>> /\ rb_asked' \in BOOLEAN
      BY <1>3 DEF Rebind!ModemReset
    <2>2. RebindTypes'
      BY <1>0, <2>1 DEF RebindTypes
    <2>3. OwnIds' /\ InstalledOpen' /\ OfTheClient'
      BY <1>0, <2>1 DEF OwnIds, InstalledOpen, OfTheClient
    <2>4. EarlyKnown' /\ IdsKept'
      BY <1>0, <2>1 DEF EarlyKnown, IdsKept
    <2> QED
      BY <1>1, <2>2, <2>3, <2>4
  <1>4. CASE Rebind!Cleanup
    <2>1. /\ UNCHANGED <<rb_opened, rb_up, rb_closed, rb_todo, rb_early>> /\ rb_asked' = FALSE
             /\ rb_core = "ready"
          /\ rb_taken' = {rb_svc[r] : r \in rb_Services} \ {0}
             /\ rb_svc' = [r \in rb_Services |-> 0]
          /\ rb_client' = 0 /\ rb_core' = "closing"
      BY <1>4 DEF Rebind!Cleanup
    <2>2. RebindTypes'
      <3>1. rb_svc \in [rb_Services -> 0 .. Len(rb_kind)] /\ 0 \in 0 .. Len(rb_kind)
        BY DEF RebindTypes
      <3>2. rb_taken' \subseteq 1 .. Len(rb_kind) /\ rb_svc' \in [rb_Services -> 0 .. Len(rb_kind)]
        BY <2>1, <3>1
      <3> QED
        BY <1>0, <2>1, <3>2 DEF RebindTypes
    <2>3. OwnIds'
      <3>1. ASSUME NEW c \in rb_Callers PROVE OwnIds!(c)'
        <4>1. rb_job[c] \in rb_Services
          BY DEF RebindTypes
        <4>2. rb_pc[c] \in Owning /\ rb_using[c] # 0 => rb_using[c] \notin rb_taken'
          <5>1. SUFFICES ASSUME rb_pc[c] \in Owning, rb_using[c] # 0,
                                rb_using[c] \in rb_taken' PROVE FALSE
            OBVIOUS
          <5>2. PICK r \in rb_Services : rb_using[c] = rb_svc[r]
            BY <2>1, <5>1
          <5>3. rb_kind[rb_using[c]] = r
            BY <5>1, <5>2 DEF InstalledOpen
          <5>4. rb_kind[rb_using[c]] = rb_job[c] /\ rb_using[c] # rb_svc[rb_job[c]]
            BY <5>1 DEF OwnIds
          <5> QED
            BY <5>2, <5>3, <5>4
        <4>3. rb_svc'[rb_job[c]] = 0
          BY <2>1, <4>1
        <4> QED
          BY <1>0, <2>1, <4>2, <4>3 DEF OwnIds
      <3> QED
        BY <3>1 DEF OwnIds
    <2>4. InstalledOpen' /\ OfTheClient' /\ IdsKept'
      BY <1>0, <2>1 DEF InstalledOpen, OfTheClient, IdsKept
    <2>5. EarlyKnown'
      BY <1>0, <2>1 DEF EarlyKnown
    <2> QED
      BY <1>1, <2>2, <2>3, <2>4, <2>5
  <1>5. CASE Rebind!CleanupCloses
    <2>1. /\ UNCHANGED <<rb_client, rb_opened, rb_svc, rb_todo, rb_early, rb_asked>>
             /\ rb_core = "closing"
          /\ rb_closed' = rb_closed \union rb_taken /\ rb_taken' = {} /\ rb_up' = {}
             /\ rb_core' = "closed"
      BY <1>5 DEF Rebind!CleanupCloses
    <2>2. RebindTypes'
      BY <1>0, <2>1 DEF RebindTypes
    <2>3. OwnIds'
      <3>1. ASSUME NEW c \in rb_Callers PROVE OwnIds!(c)'
        <4>1. rb_pc[c] \in Installing => rb_using[c] \notin rb_taken
          BY <1>2 DEF OwnIds
        <4> QED
          BY <1>0, <2>1, <4>1 DEF OwnIds
      <3> QED
        BY <3>1 DEF OwnIds
    <2>4. InstalledOpen' /\ OfTheClient' /\ IdsKept' /\ EarlyKnown'
      BY <1>0, <2>1 DEF InstalledOpen, OfTheClient, IdsKept, EarlyKnown
    <2> QED
      BY <1>1, <2>2, <2>3, <2>4
  <1>6. CASE Rebind!Open
    <2>1. /\ UNCHANGED <<rb_closed, rb_svc, rb_taken, rb_asked>> /\ rb_core = "closed"
             /\ rb_opened < rb_MaxClients
          /\ rb_opened' = rb_opened + 1 /\ rb_client' = rb_opened + 1 /\ rb_up' = {rb_opened + 1}
          /\ rb_todo' = Rebind!CoreServices \union Rebind!AuxServices /\ rb_early' = {}
             /\ rb_core' = "alloc"
      BY <1>6 DEF Rebind!Open
    <2>2. rb_opened \in Nat \ {0} /\ rb_opened' \in 1 .. rb_MaxClients /\ rb_client' = rb_opened'
          /\ rb_client' # 0
      BY <2>1 DEF RebindTypes, Rebind!RebindAssumption
    <2>3. /\ \A i \in 1 .. Len(rb_kind) : rb_owner[i] \in 1 .. rb_opened'
             /\ rb_owner[i] # rb_client'
          /\ \A c \in rb_Callers : rb_seen[c] \in 0 .. rb_opened' /\ rb_seen[c] # rb_client'
          /\ rb_seen \in [rb_Callers -> 0 .. rb_opened']
      <3>1. ASSUME NEW i \in 1 .. Len(rb_kind)
            PROVE  rb_owner[i] \in 1 .. rb_opened' /\ rb_owner[i] # rb_client'
        <4>1. rb_owner[i] \in 1 .. rb_opened
          BY DEF RebindTypes
        <4> QED
          BY <2>1, <2>2, <4>1
      <3>2. ASSUME NEW c \in rb_Callers PROVE rb_seen[c] \in 0 .. rb_opened'
                   /\ rb_seen[c] # rb_client'
        <4>1. rb_seen[c] \in 0 .. rb_opened
          BY DEF RebindTypes
        <4> QED
          BY <2>1, <2>2, <4>1
      <3>3. rb_seen \in [rb_Callers -> 0 .. rb_opened]
        BY DEF RebindTypes
      <3> QED
        BY <3>1, <3>2, <3>3
    <2>4. RebindTypes'
      BY <1>0, <2>1, <2>2, <2>3 DEF RebindTypes
    <2>5. OwnIds' /\ InstalledOpen'
      BY <1>0, <2>1, <2>2 DEF OwnIds, InstalledOpen
    <2>6. OfTheClient' /\ IdsKept'
      BY <1>0, <2>1, <2>3 DEF OfTheClient, IdsKept
    <2>7. EarlyKnown'
      <3>1. \A r \in rb_Services : rb_svc[r] # 0 => rb_owner[rb_svc[r]] # rb_client'
        BY <2>3 DEF RebindTypes
      <3> QED
        BY <1>0, <2>1, <2>3, <3>1 DEF EarlyKnown
    <2> QED
      BY <1>1, <2>4, <2>5, <2>6, <2>7
  <1> QED
    BY <1>3, <1>4, <1>5, <1>6

\* allocateServices stores a service whatever an operation stored there meanwhile.
LEMMA RebindSetUpKeeps ==
    ASSUME Rebind!RebindAssumption, RebindInv, NEW s \in rb_Services, Rebind!AllocateService(s)
    PROVE  RebindInv'
  <1> USE DEF RebindInv
  <1>0. /\ UNCHANGED <<rb_client, rb_opened, rb_up, rb_closed, rb_core, rb_taken, rb_early,
           rb_asked,
                       rb_lock, rb_pc, rb_job, rb_using, rb_seen, rb_outer>>
        /\ rb_core = "alloc" /\ s \in rb_todo /\ rb_todo' = rb_todo \ {s}
        /\ s \notin Rebind!LazyServices
    BY DEF Rebind!AllocateService, Rebind!callVars, RebindTypes, Rebind!LazyServices,
       Rebind!CoreServices, Rebind!AuxServices
  <1>1. LocksHeld'
    BY <1>0 DEF LocksHeld
  <1>2. Installing \subseteq Owning /\ Owning \subseteq Replacing
    BY DEF Owning, Installing, Replacing
  <1>3. CASE s \in Rebind!AuxServices /\ UNCHANGED <<rb_kind, rb_owner, rb_svc>>
    <2>1. RebindTypes'
      BY <1>0, <1>3 DEF RebindTypes
    <2>2. OwnIds' /\ InstalledOpen'
      BY <1>0, <1>3 DEF OwnIds, InstalledOpen
    <2>3. OfTheClient' /\ EarlyKnown'
      BY <1>0, <1>3 DEF OfTheClient, EarlyKnown
    <2>4. IdsKept'
      BY <1>0, <1>3 DEF IdsKept
    <2> QED
      BY <1>1, <2>1, <2>2, <2>3, <2>4
  <1>4. CASE Rebind!Allocate(s, rb_client) /\ rb_svc' = [rb_svc EXCEPT ![s] = Rebind!Fresh]
    <2>0. /\ rb_client \in 1 .. rb_opened /\ rb_opened \in 1 .. rb_MaxClients
             /\ Len(rb_kind) < rb_MaxIds
          /\ rb_kind' = Append(rb_kind, s) /\ rb_owner' = Append(rb_owner, rb_client)
      BY <1>4 DEF Rebind!Allocate, RebindTypes
    <2>1. /\ rb_kind' \in Seq(rb_Services) /\ Len(rb_kind') = Len(rb_kind) + 1
             /\ Len(rb_kind') <= rb_MaxIds
          /\ rb_owner' \in Seq(1 .. rb_MaxClients) /\ Len(rb_owner') = Len(rb_kind')
          /\ \A i \in 1 .. Len(rb_kind) : rb_kind'[i] = rb_kind[i] /\ rb_owner'[i] = rb_owner[i]
          /\ rb_kind'[Rebind!Fresh] = s /\ rb_owner'[Rebind!Fresh] = rb_client
          /\ Rebind!Fresh \in 1 .. Len(rb_kind') /\ Rebind!Fresh = Len(rb_kind) + 1
             /\ Len(rb_kind) \in Nat
      <3>1. /\ rb_kind \in Seq(rb_Services) /\ rb_owner \in Seq(1 .. rb_MaxClients)
               /\ Len(rb_owner) = Len(rb_kind)
            /\ Len(rb_kind) \in Nat /\ rb_MaxIds \in Nat /\ rb_MaxClients \in Nat
        BY DEF RebindTypes, Rebind!RebindAssumption
      <3>2. rb_client \in 1 .. rb_MaxClients
        BY <2>0, <3>1
      <3>3. /\ rb_kind' \in Seq(rb_Services) /\ Len(rb_kind') = Len(rb_kind) + 1
            /\ \A i \in 1 .. Len(rb_kind) : rb_kind'[i] = rb_kind[i]
            /\ rb_kind'[Len(rb_kind) + 1] = s
        BY <2>0, <3>1
      <3>4. /\ rb_owner' \in Seq(1 .. rb_MaxClients) /\ Len(rb_owner') = Len(rb_owner) + 1
            /\ \A i \in 1 .. Len(rb_owner) : rb_owner'[i] = rb_owner[i]
            /\ rb_owner'[Len(rb_owner) + 1] = rb_client
        BY <2>0, <3>1, <3>2
      <3> QED
        BY <2>0, <3>1, <3>3, <3>4 DEF Rebind!Fresh
    <2>2. /\ rb_svc' \in [rb_Services -> 0 .. Len(rb_kind')] /\ rb_svc'[s] = Rebind!Fresh
          /\ \A r \in rb_Services \ {s} : rb_svc'[r] = rb_svc[r]
      BY <1>4, <2>1 DEF RebindTypes
    <2>3. RebindTypes'
      <3>1. \A i \in 1 .. Len(rb_kind') : rb_owner'[i] \in 1 .. rb_opened
        <4>1. \A i \in 1 .. Len(rb_kind) : rb_owner[i] \in 1 .. rb_opened
          BY DEF RebindTypes
        <4> QED
          BY <2>0, <2>1, <4>1
      <3>2. /\ rb_closed \subseteq 1 .. Len(rb_kind') /\ rb_taken \subseteq 1 .. Len(rb_kind')
            /\ rb_using \in [rb_Callers -> 0 .. Len(rb_kind')]
               /\ rb_outer \in [rb_Callers -> 0 .. Len(rb_kind')]
        BY <2>1 DEF RebindTypes
      <3> QED
        BY <1>0, <2>1, <2>2, <3>1, <3>2 DEF RebindTypes
    <2>4. /\ Rebind!Fresh \notin rb_closed /\ Rebind!Fresh # 0
          /\ \A r \in rb_Services : rb_svc[r] \in 0 .. Len(rb_kind)
          /\ \A c \in rb_Callers : rb_using[c] \in 0 .. Len(rb_kind)
             /\ rb_using[c] # Rebind!Fresh /\ rb_job[c] \in rb_Services
      BY <2>1 DEF RebindTypes
    <2>5. OwnIds'
      <3>1. ASSUME NEW c \in rb_Callers PROVE OwnIds!(c)'
        <4>1. rb_svc'[rb_job[c]] = rb_svc[rb_job[c]] \/ rb_svc'[rb_job[c]] = Rebind!Fresh
          BY <2>2, <2>4
        <4>2. /\ rb_using[c] \in 0 .. Len(rb_kind) /\ rb_using[c] # Rebind!Fresh
              /\ rb_using[c] # 0 => rb_kind'[rb_using[c]] = rb_kind[rb_using[c]]
                 /\ rb_owner'[rb_using[c]] = rb_owner[rb_using[c]]
          BY <2>1, <2>4
        <4>3. rb_pc[c] \in Installing => rb_using[c] \in 1 .. Len(rb_kind)
          BY DEF OwnIds
        <4> QED
          BY <1>0, <2>1, <4>1, <4>2, <4>3 DEF OwnIds
      <3> QED
        BY <3>1 DEF OwnIds
    <2>6. InstalledOpen'
      <3>1. ASSUME NEW r \in rb_Services, rb_svc'[r] # 0 PROVE rb_kind'[rb_svc'[r]] = r
                   /\ rb_svc'[r] \notin rb_closed
        BY <2>1, <2>2, <2>4, <3>1 DEF InstalledOpen
      <3> QED
        BY <1>0, <3>1 DEF InstalledOpen
    <2>7. OfTheClient'
      <3>1. ASSUME NEW r \in rb_Services \ Rebind!AuxServices, r \in Rebind!CoreServices \ rb_todo'
            PROVE  rb_svc'[r] = 0 \/ rb_owner'[rb_svc'[r]] = rb_client
        BY <1>0, <2>1, <2>2, <2>4, <3>1 DEF OfTheClient
      <3> QED
        BY <1>0, <3>1 DEF OfTheClient
    <2>8. EarlyKnown'
      <3>1. ASSUME NEW r \in rb_Services, r \in rb_todo' \union Rebind!LazyServices, rb_svc'[r] # 0,
                   rb_owner'[rb_svc'[r]] = rb_client
            PROVE  r \in rb_early
        BY <1>0, <2>1, <2>2, <2>4, <3>1 DEF EarlyKnown
      <3> QED
        BY <1>0, <3>1 DEF EarlyKnown
    <2>9. IdsKept'
      <3>1. ASSUME NEW i \in 1 .. Len(rb_kind'),
                   rb_owner'[i] = rb_client, i \notin rb_closed, rb_kind'[i] \notin rb_early
            PROVE  rb_svc'[rb_kind'[i]] = i \/ \E c \in rb_Callers : rb_using[c] = i
                   /\ rb_pc[c] \in Owning
        <4>1. CASE i = Rebind!Fresh
          BY <2>1, <2>2, <4>1
        <4>2. CASE i \in 1 .. Len(rb_kind)
          <5>1. rb_kind'[i] = rb_kind[i] /\ rb_owner'[i] = rb_owner[i] /\ rb_kind[i] \in rb_Services
            BY <2>1, <4>2 DEF RebindTypes
          <5>2. rb_svc[rb_kind[i]] = i \/ \E c \in rb_Callers : rb_using[c] = i
                /\ rb_pc[c] \in Owning
            BY <1>0, <3>1, <4>2, <5>1 DEF IdsKept
          <5>3. CASE rb_kind[i] = s /\ rb_svc[s] = i
            BY <1>0, <3>1, <4>2, <5>1, <5>3 DEF EarlyKnown
          <5> QED
            BY <2>2, <5>1, <5>2, <5>3
        <4> QED
          BY <2>1, <3>1, <4>1, <4>2
      <3> QED
        BY <1>0, <3>1 DEF IdsKept
    <2> QED
      BY <1>1, <2>3, <2>5, <2>6, <2>7, <2>8, <2>9
  <1> QED
    BY <1>3, <1>4 DEF Rebind!AllocateService
LEMMA RebindOpeningKeeps ==
    ASSUME Rebind!RebindAssumption, RebindInv, Rebind!AllocateFails \/ Rebind!ForgetClient
           \/ Rebind!CoreReady
    PROVE  RebindInv'
  <1> USE DEF RebindInv
  <1>0. UNCHANGED <<rb_opened, rb_kind, rb_owner, rb_closed, rb_taken, rb_todo, rb_early, rb_asked,
                    rb_lock, rb_pc, rb_job, rb_using, rb_seen, rb_outer>>
    BY DEF Rebind!AllocateFails, Rebind!ForgetClient, Rebind!CoreReady, Rebind!callVars
  <1>1. LocksHeld'
    BY <1>0 DEF LocksHeld
  <1>2. CASE Rebind!AllocateFails
    <2>1. UNCHANGED <<rb_client, rb_svc>> /\ rb_core = "alloc" /\ rb_up' = {} /\ rb_core' = "failed"
      BY <1>2 DEF Rebind!AllocateFails
    <2>2. RebindTypes'
      BY <1>0, <2>1 DEF RebindTypes
    <2>3. OwnIds' /\ InstalledOpen' /\ OfTheClient'
      BY <1>0, <2>1 DEF OwnIds, InstalledOpen, OfTheClient
    <2>4. EarlyKnown' /\ IdsKept'
      BY <1>0, <2>1 DEF EarlyKnown, IdsKept
    <2> QED
      BY <1>1, <2>2, <2>3, <2>4
  <1>3. CASE Rebind!ForgetClient
    <2>1. UNCHANGED <<rb_up, rb_svc>> /\ rb_core = "failed" /\ rb_client' = 0 /\ rb_core' = "closed"
      BY <1>3 DEF Rebind!ForgetClient
    <2>2. RebindTypes'
      BY <1>0, <2>1 DEF RebindTypes
    <2>3. OwnIds' /\ InstalledOpen' /\ OfTheClient'
      BY <1>0, <2>1 DEF OwnIds, InstalledOpen, OfTheClient
    <2>4. EarlyKnown' /\ IdsKept'
      BY <1>0, <2>1 DEF EarlyKnown, IdsKept
    <2> QED
      BY <1>1, <2>2, <2>3, <2>4
  <1>4. CASE Rebind!CoreReady
    <2>1. /\ UNCHANGED <<rb_client, rb_up>> /\ rb_core = "alloc" /\ rb_todo = {}
             /\ rb_core' = "ready"
          /\ rb_svc' = [r \in rb_Services |-> IF r \in Rebind!LazyServices THEN 0 ELSE rb_svc[r]]
      BY <1>4 DEF Rebind!CoreReady
    <2>2. /\ rb_svc' \in [rb_Services -> 0 .. Len(rb_kind)]
          /\ \A r \in rb_Services : rb_svc'[r] = 0 \/ rb_svc'[r] = rb_svc[r]
          /\ \A r \in rb_Services : r \in Rebind!LazyServices => rb_svc'[r] = 0
          /\ \A r \in rb_Services : r \notin Rebind!LazyServices => rb_svc'[r] = rb_svc[r]
      BY <2>1 DEF RebindTypes
    <2>3. /\ \A c \in rb_Callers : rb_job[c] \in rb_Services
          /\ \A i \in 1 .. Len(rb_kind) : rb_kind[i] \in rb_Services
      BY DEF RebindTypes
    <2>4. RebindTypes'
      BY <1>0, <2>1, <2>2 DEF RebindTypes
    <2>5. OwnIds'
      BY <1>0, <2>2, <2>3 DEF OwnIds
    <2>6. InstalledOpen'
      BY <1>0, <2>1, <2>2 DEF InstalledOpen
    <2>7. OfTheClient'
      <3>1. \A r \in rb_Services \ Rebind!AuxServices : r \in Rebind!LazyServices
            \/ r \in Rebind!CoreServices \ rb_todo
        BY <2>1 DEF Rebind!LazyServices, Rebind!AuxServices, Rebind!CoreServices,
           Rebind!RebindAssumption
      <3> QED
        BY <1>0, <2>1, <2>2, <3>1 DEF OfTheClient
    <2>8. EarlyKnown'
      BY <1>0, <2>1, <2>2, <2>3 DEF EarlyKnown
    <2>9. IdsKept'
      <3>1. ASSUME NEW i \in 1 .. Len(rb_kind),
                   rb_owner[i] = rb_client, i \notin rb_closed, rb_kind[i] \notin rb_early
            PROVE  rb_svc'[rb_kind[i]] = i \/ \E c \in rb_Callers : rb_using[c] = i
                   /\ rb_pc[c] \in Owning
        <4>1. rb_svc[rb_kind[i]] = i \/ \E c \in rb_Callers : rb_using[c] = i /\ rb_pc[c] \in Owning
          BY <2>1, <3>1 DEF IdsKept
        <4>2. CASE rb_svc[rb_kind[i]] = i /\ rb_kind[i] \in Rebind!LazyServices
          BY <2>1, <2>3, <3>1, <4>2 DEF EarlyKnown
        <4> QED
          BY <2>2, <2>3, <4>1, <4>2
      <3> QED
        BY <1>0, <2>1, <3>1 DEF IdsKept
    <2> QED
      BY <1>1, <2>4, <2>5, <2>6, <2>7, <2>8, <2>9
  <1> QED
    BY <1>2, <1>3, <1>4
LEMMA RebindInvStep ==
    ASSUME Rebind!RebindAssumption, RebindInv, [Rebind!Next]_(Rebind!vars)
    PROVE  RebindInv'
  <1>1. CASE \E c \in rb_Callers, s \in rb_Services : Rebind!Call(c, s)
    BY <1>1, RebindCallsKeep
  <1>2. CASE \E c \in rb_Callers : Rebind!CallStep(c)
    BY <1>2, RebindCallStepKeeps
  <1>3. CASE Rebind!ModemReset
    BY <1>3, RebindCoreKeeps
  <1>4. CASE Rebind!CoreStep
    <2>1. CASE \E s \in rb_Services : Rebind!AllocateService(s)
      BY <2>1, RebindSetUpKeeps
    <2> QED
      BY <1>4, <2>1, RebindCoreKeeps, RebindOpeningKeeps DEF Rebind!CoreStep
  <1>5. CASE UNCHANGED Rebind!vars
    <2>1. /\ UNCHANGED <<rb_client, rb_opened, rb_up, rb_kind, rb_owner, rb_closed, rb_svc,
             rb_core, rb_taken, rb_todo, rb_early, rb_asked>>
          /\ UNCHANGED <<rb_lock, rb_pc, rb_job, rb_using, rb_seen, rb_outer>>
      BY <1>5 DEF Rebind!vars, Rebind!coreVars, Rebind!callVars
    <2>2. RebindTypes' /\ LocksHeld'
      BY <2>1 DEF RebindInv, RebindTypes, LocksHeld
    <2>3. OwnIds' /\ InstalledOpen' /\ OfTheClient'
      BY <2>1 DEF RebindInv, OwnIds, InstalledOpen, OfTheClient
    <2>4. EarlyKnown' /\ IdsKept'
      BY <2>1 DEF RebindInv, EarlyKnown, IdsKept
    <2> QED
      BY <2>2, <2>3, <2>4 DEF RebindInv
  <1> QED
    BY <1>1, <1>2, <1>3, <1>4, <1>5 DEF Rebind!Next

LEMMA RebindInit ==
    ASSUME Rebind!RebindAssumption, Rebind!Init
    PROVE  RebindInv
  <1>1. (CHOOSE s \in rb_Services : TRUE) \in rb_Services
    BY DEF Rebind!RebindAssumption
  <1>2. rb_kind = <<>> /\ Len(rb_kind) = 0 /\ rb_owner = <<>> /\ Len(rb_owner) = 0
        /\ 1 .. Len(rb_kind) = {}
    BY DEF Rebind!Init
  <1>3. rb_kind \in Seq(rb_Services) /\ rb_owner \in Seq(1 .. rb_MaxClients)
    BY <1>2
  <1>4. RebindTypes
    <2>1. /\ rb_opened \in 1 .. rb_MaxClients /\ rb_client \in {0, rb_opened}
             /\ rb_up \subseteq 1 .. rb_opened
          /\ Len(rb_kind) <= rb_MaxIds /\ Len(rb_owner) = Len(rb_kind) /\ rb_asked \in BOOLEAN
          /\ rb_core \in {"ready", "closing", "closed", "alloc", "failed"}
      <3>1. rb_MaxClients \in Nat \ {0} /\ rb_MaxIds \in Nat
        BY DEF Rebind!RebindAssumption
      <3>2. rb_opened = 1 /\ rb_client = 1 /\ rb_up = {1} /\ rb_asked = FALSE /\ rb_core = "alloc"
        BY DEF Rebind!Init
      <3>3. rb_asked \in BOOLEAN /\ rb_core \in {"ready", "closing", "closed", "alloc", "failed"}
        BY <3>2
      <3>4. 1 \in 1 .. rb_MaxClients /\ {1} \subseteq 1 .. 1 /\ 0 <= rb_MaxIds
        BY <3>1
      <3> QED
        BY <1>2, <3>2, <3>3, <3>4
    <2>2. /\ rb_closed \subseteq 1 .. Len(rb_kind) /\ rb_taken \subseteq 1 .. Len(rb_kind)
          /\ rb_todo \subseteq Rebind!CoreServices \union Rebind!AuxServices
             /\ rb_early \subseteq rb_Services
          /\ rb_svc \in [rb_Services -> 0 .. Len(rb_kind)]
      BY <1>2 DEF Rebind!Init
    <2>3. /\ rb_lock \in [rb_Services \union {"UIM"} -> rb_Callers \union {"free"}]
          /\ rb_pc \in [rb_Callers -> RebindPlaces] /\ rb_job \in [rb_Callers -> rb_Services]
      BY <1>1 DEF Rebind!Init, RebindPlaces
    <2>4. /\ rb_using \in [rb_Callers -> 0 .. Len(rb_kind)]
             /\ rb_outer \in [rb_Callers -> 0 .. Len(rb_kind)]
          /\ rb_seen \in [rb_Callers -> 0 .. rb_opened]
      BY <1>2 DEF Rebind!Init
    <2> QED
      BY <1>2, <1>3, <2>1, <2>2, <2>3, <2>4 DEF RebindTypes
  <1>5. \A c \in rb_Callers : rb_pc[c] = "idle" /\ rb_outer[c] = 0 /\ rb_using[c] = 0
    BY DEF Rebind!Init
  <1>6. LocksHeld /\ OwnIds
    BY <1>5 DEF LocksHeld, OwnIds, Replacing, Installing, Owning
  <1>7. InstalledOpen /\ OfTheClient
    BY DEF Rebind!Init, InstalledOpen, OfTheClient
  <1>8. EarlyKnown /\ IdsKept
    BY <1>2, <1>5 DEF Rebind!Init, EarlyKnown, IdsKept, Replacing
  <1> QED
    BY <1>4, <1>6, <1>7, <1>8 DEF RebindInv

\* The ids installed are open and of the client in use, those that a call replaces are its
\* own, and those nobody has are of a service allocated while the client was set up.
THEOREM RebindInvariant == Spec => []RebindInv
  <1>0. Rebind!RebindAssumption
    BY PartsAssumption
  <1>1. Rebind!Init => RebindInv
    BY <1>0, RebindInit
  <1>2. RebindInv /\ [Rebind!Next]_(Rebind!vars) => RebindInv'
    BY <1>0, RebindInvStep
  <1> QED
    BY <1>1, <1>2, RebindRuns, PTL DEF Rebind!Spec
LEMMA RebindTracks ==
    ASSUME Rebind!RebindAssumption, RebindInv
    PROVE  Rebind!ServicesTracked
  <1> USE DEF RebindInv
  <1>1. Rebind!RebindTypeOK
    <2>1. /\ rb_opened \in 1 .. rb_MaxClients /\ rb_MaxClients \in Nat
          /\ rb_client \in 0 .. rb_opened /\ rb_up \subseteq 1 .. rb_opened
      BY DEF RebindTypes, Rebind!RebindAssumption
    <2>2. rb_client \in 0 .. rb_MaxClients /\ rb_up \subseteq 1 .. rb_MaxClients
      BY <2>1
    <2>3. 0 .. rb_opened \subseteq 0 .. rb_MaxClients
      BY <2>1
    <2>4. rb_seen \in [rb_Callers -> 0 .. rb_MaxClients]
      BY <2>3 DEF RebindTypes
    <2>5. rb_todo \subseteq rb_Services
      BY DEF RebindTypes, Rebind!CoreServices, Rebind!AuxServices
    <2> QED
      BY <2>2, <2>4, <2>5 DEF RebindTypes, Rebind!RebindTypeOK
  <1>2. Rebind!InstalledOfClient
    BY DEF Rebind!InstalledOfClient, OfTheClient, InstalledOpen
  <1>3. Rebind!ClosedNotInstalled
    BY DEF Rebind!ClosedNotInstalled, InstalledOpen, RebindTypes
  <1>4. Rebind!NoIdForgotten
    BY DEF Rebind!NoIdForgotten, IdsKept, Owning
  <1> QED
    BY <1>1, <1>2, <1>3, <1>4 DEF Rebind!ServicesTracked

\* The services installed are open and of the client in use, and no other id is left
\* behind in the modem.
THEOREM ServicesAreTracked == Spec => []ServicesTracked
  <1>1. Rebind!RebindAssumption
    BY PartsAssumption
  <1>2. RebindInv => ServicesTracked
    BY <1>1, RebindTracks DEF ServicesTracked
  <1> QED
    BY <1>2, RebindInvariant, PTL
=============================================================================
