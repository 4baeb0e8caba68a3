------------------------------ MODULE QmiClientIds ------------------------------
(***************************************************************************)
(* Client ids of one QMI service (pkg/qmi/client.go                        *)
(* AllocateClientIDWithContext, ReleaseClientIDWithContext,                *)
(* handleClientIDRevoke).                                                  *)
(*                                                                         *)
(* The modem allocates an id for every request it gets; the answer may     *)
(* come after the attempt has timed out, and another attempt is made.  The *)
(* answer is taken by the caller's goroutine, a revocation by readLoop.    *)
(***************************************************************************)
EXTENDS Integers, FiniteSets

CONSTANTS Callers,       \* goroutines that allocate and release an id
          MaxIds,        \* bound on the ids the modem allocates
          MaxRetries     \* attempts of one allocation

IdAssumption == MaxIds \in Nat /\ MaxRetries \in Nat \ {0}

None == 0
Ids == 1 .. MaxIds

VARIABLES allocated,     \* ids allocated in the modem
          lastId,
          pc,            \* where each caller is
          retry,         \* attempts of its allocation so far
          answer,        \* the id in the answer its attempt was given, not yet taken
          holds,         \* the id a caller, or its service object, has
          cached,        \* clientIDs of the service
          revocations,   \* revocations readLoop has yet to handle
          late,          \* ids in answers that came after their attempt
          unreleased,    \* ids whose release failed
          unanswered,    \* ids released in the modem, whose answer was lost
          raced          \* ids revoked while their answer waited to be taken

vars == <<allocated, lastId, pc, retry, answer, holds, cached, revocations, late, unreleased,
          unanswered, raced>>

Init ==
    /\ allocated = {} /\ lastId = None
    /\ pc = [c \in Callers |-> "idle"] /\ retry = [c \in Callers |-> 0]
    /\ answer = [c \in Callers |-> None] /\ holds = [c \in Callers |-> None]
    /\ cached = None /\ revocations = {} /\ late = {}
    /\ unreleased = {} /\ unanswered = {} /\ raced = {}

Allocate(c) ==
    /\ pc[c] = "idle" /\ holds[c] = None
    /\ pc' = [pc EXCEPT ![c] = "asked"]
    /\ retry' = [retry EXCEPT ![c] = 1]
    /\ UNCHANGED <<allocated, lastId, answer, holds, cached, revocations, late, unreleased,
                   unanswered, raced>>

\* The modem's answer arrives in time, or late.
Answer(c) ==
    /\ pc[c] = "asked" /\ lastId < MaxIds
    /\ lastId' = lastId + 1
    /\ allocated' = allocated \union {lastId + 1}
    /\ \/ /\ pc' = [pc EXCEPT ![c] = "answered"]
          /\ answer' = [answer EXCEPT ![c] = lastId + 1]
          /\ UNCHANGED late
       \/ /\ late' = late \union {lastId + 1}
          /\ pc' = [pc EXCEPT ![c] = "timedout"]
          /\ UNCHANGED answer
    /\ UNCHANGED <<retry, holds, cached, revocations, unreleased, unanswered, raced>>

\* The request, or its answer, is lost: or the caller's context ends.
TimesOut(c) ==
    /\ pc[c] = "asked"
    /\ pc' = [pc EXCEPT ![c] = "timedout"]
    /\ UNCHANGED <<allocated, lastId, retry, answer, holds, cached, revocations, late, unreleased,
                   unanswered, raced>>

Retry(c) ==
    /\ pc[c] = "timedout"
    /\ \/ /\ retry[c] < MaxRetries
          /\ pc' = [pc EXCEPT ![c] = "asked"]
          /\ retry' = [retry EXCEPT ![c] = @ + 1]
       \/ /\ pc' = [pc EXCEPT ![c] = "idle"]
          /\ retry' = [retry EXCEPT ![c] = 0]
    /\ UNCHANGED <<allocated, lastId, answer, holds, cached, revocations, late, unreleased,
                   unanswered, raced>>

\* Mutant: a caller takes the id that is cached, when there is one.
TakesFirst(c) ==
    /\ pc[c] = "answered"
    /\ pc' = [pc EXCEPT ![c] = "idle"] /\ retry' = [retry EXCEPT ![c] = 0]
    /\ answer' = [answer EXCEPT ![c] = None]
    /\ cached' = IF cached = None THEN answer[c] ELSE cached
    /\ holds' = [holds EXCEPT ![c] = cached']
    /\ UNCHANGED <<allocated, lastId, revocations, late, unreleased, unanswered, raced>>

Takes(c) ==
    /\ pc[c] = "answered"
    /\ pc' = [pc EXCEPT ![c] = "idle"] /\ retry' = [retry EXCEPT ![c] = 0]
    /\ answer' = [answer EXCEPT ![c] = None]
    /\ holds' = [holds EXCEPT ![c] = answer[c]]
    /\ cached' = answer[c]
    /\ UNCHANGED <<allocated, lastId, revocations, late, unreleased, unanswered, raced>>

(***************************************************************************)
(* Release: the id is given up by its holder whatever comes of it.  The    *)
(* request may fail in the modem, or be carried out and its answer lost:   *)
(* either way the id stays cached.                                         *)
(***************************************************************************)
\* Mutant: the id stays cached.
ReleasesUncached(c) ==
    /\ pc[c] = "idle" /\ holds[c] # None
    /\ holds' = [holds EXCEPT ![c] = None]
    /\ \/ /\ allocated' = allocated \ {holds[c]}
          /\ UNCHANGED unreleased
       \/ /\ unreleased' = unreleased \union {holds[c]}
          /\ UNCHANGED allocated
    /\ UNCHANGED unanswered
    /\ UNCHANGED <<lastId, pc, retry, answer, cached, revocations, late, raced>>

Releases(c) ==
    /\ pc[c] = "idle" /\ holds[c] # None
    /\ holds' = [holds EXCEPT ![c] = None]
    /\ \/ /\ allocated' = allocated \ {holds[c]}
          /\ cached' = None
          /\ UNCHANGED <<unreleased, unanswered>>
       \/ /\ unreleased' = unreleased \union {holds[c]}
          /\ UNCHANGED <<allocated, cached, unanswered>>
       \/ /\ allocated' = allocated \ {holds[c]}
          /\ unanswered' = unanswered \union {holds[c]}
          /\ UNCHANGED <<cached, unreleased>>
    /\ UNCHANGED <<lastId, pc, retry, answer, revocations, late, raced>>

(***************************************************************************)
(* Revocation.                                                             *)
(***************************************************************************)
Revokes(id) ==
    /\ id \in allocated
    /\ allocated' = allocated \ {id}
    /\ revocations' = revocations \union {id}
    /\ UNCHANGED <<lastId, pc, retry, answer, holds, cached, late, unreleased, unanswered, raced>>

handleClientIDRevoke(id) ==
    /\ id \in revocations
    /\ revocations' = revocations \ {id}
    /\ cached' = IF cached = id THEN None ELSE cached
    /\ raced' = raced \union {answer[c] : c \in {d \in Callers : answer[d] = id}}
    /\ UNCHANGED <<allocated, lastId, pc, retry, answer, holds, late, unreleased, unanswered>>

Next ==
    \/ \E c \in Callers : Allocate(c) \/ Answer(c) \/ TimesOut(c) \/ Retry(c) \/ Takes(c)
          \/ Releases(c)
    \/ \E id \in Ids : Revokes(id) \/ handleClientIDRevoke(id)

Spec == Init /\ [][Next]_vars

(***************************************************************************)
(* Properties.                                                             *)
(***************************************************************************)
IdsTypeOK ==
    /\ allocated \subseteq Ids /\ lastId \in 0 .. MaxIds
    /\ pc \in [Callers -> {"idle", "asked", "answered", "timedout"}]
    /\ retry \in [Callers -> 0 .. MaxRetries]
    /\ answer \in [Callers -> Ids \union {None}] /\ holds \in [Callers -> Ids \union {None}]
    /\ cached \in Ids \union {None} /\ revocations \subseteq Ids
    /\ late \subseteq Ids /\ unreleased \subseteq Ids /\ unanswered \subseteq Ids
    /\ raced \subseteq Ids

\* No id is left in the modem that nobody can release, except one whose answer came
\* after its attempt had timed out, or whose release failed; and no two have the same.
IdsAccounted ==
    /\ \A id \in allocated : \/ id \in late \union unreleased
                             \/ \E c \in Callers : id \in {answer[c], holds[c]}
    /\ \A c, d \in Callers : holds[c] = holds[d] /\ holds[c] # None => c = d

\* What GetClientID returns is an id that the modem has: or one whose revocation readLoop
\* has not got to, or got to before the answer that brought the id was taken; or one whose
\* release was carried out but not answered, for ReleaseClientIDWithContext then returns
\* before it deletes the id.
CachedIsLive ==
    cached # None => cached \in allocated \union revocations \union raced \union unanswered

\* The ids of the modem and those the client knows are the same, but for answers that came
\* late or never and releases that failed (AllocateClientID, ReleaseClientID).
IdsTracked == IdsTypeOK /\ IdsAccounted /\ CachedIsLive
=============================================================================
