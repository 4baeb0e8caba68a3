----------------------------- MODULE IndicationWaits -----------------------------
(***************************************************************************)
(* Operations of the PDC and LOC services whose payload comes as an        *)
(* indication after the answer (waitForIndication, pkg/qmi/pdc.go and      *)
(* loc.go): the caller registers a waiter under the token it has sent, and *)
(* a handler registered at the client hands it the indication with that    *)
(* token (client_indication_handler.go).                                   *)
(***************************************************************************)
EXTENDS Naturals, FiniteSets

CONSTANTS Callers,
          MaxTokens   \* bound on the requests of the service

WaitsAssumption == MaxTokens \in Nat

VARIABLES handler,    \* the service's handler at the client: none, registered, removed
          tokens,     \* tokenCounter
          pc,         \* of a caller: idle, sent, answered, waits, or how its operation ended
          token,
          waiters,    \* tokens with a waiter
          channel,    \* tokens whose waiter has an indication in its channel
          owed,       \* tokens whose indication the modem still sends
          missed      \* tokens whose indication came when nobody waited for it yet

vars == <<handler, tokens, pc, token, waiters, channel, owed, missed>>

Init ==
    /\ handler = "none" /\ tokens = 0
    /\ pc = [c \in Callers |-> "idle"]
    /\ token = [c \in Callers |-> 0]
    /\ waiters = {} /\ channel = {} /\ owed = {} /\ missed = {}

\* NewPDCServiceWithContext, NewLOCServiceWithContext; Close.
Open ==
    /\ handler = "none"
    /\ handler' = "registered"
    /\ UNCHANGED <<tokens, pc, token, waiters, channel, owed, missed>>

Close ==
    /\ handler = "registered"
    /\ handler' = "removed"
    /\ UNCHANGED <<tokens, pc, token, waiters, channel, owed, missed>>

\* A token is drawn and the request sent.
Sends(c) ==
    /\ handler = "registered" /\ tokens < MaxTokens
    /\ pc[c] \notin {"sent", "answered", "waits"}
    /\ tokens' = tokens + 1
    /\ token' = [token EXCEPT ![c] = tokens + 1]
    /\ pc' = [pc EXCEPT ![c] = "sent"]
    /\ UNCHANGED <<handler, waiters, channel, owed, missed>>

\* No answer, or a refusal.
Refused(c) ==
    /\ pc[c] = "sent"
    /\ pc' = [pc EXCEPT ![c] = "failed"]
    /\ UNCHANGED <<handler, tokens, token, waiters, channel, owed, missed>>

Granted(c) ==
    /\ pc[c] = "sent"
    /\ pc' = [pc EXCEPT ![c] = "answered"]
    /\ owed' = owed \cup {token[c]}
    /\ UNCHANGED <<handler, tokens, token, waiters, channel, missed>>

\* The waiter is registered after the answer only.
registerWaiter(c) ==
    /\ pc[c] = "answered"
    /\ pc' = [pc EXCEPT ![c] = "waits"]
    /\ waiters' = waiters \cup {token[c]}
    /\ UNCHANGED <<handler, tokens, token, channel, owed, missed>>

\* The handler gives an indication to the waiter of its token, if there is one.
handleIndication(t) == IF t \in waiters THEN channel \cup {t} ELSE channel

\* The client's reader gives an indication to the handler; what nobody waits for stays an
\* event of an unknown type.
IndicationArrives(t) ==
    /\ t \in owed
    /\ owed' = owed \ {t}
    /\ channel' = IF handler = "registered" THEN handleIndication(t) ELSE channel
    /\ missed' = IF \E c \in Callers : pc[c] = "answered" /\ token[c] = t THEN missed \cup {t} ELSE missed
    /\ UNCHANGED <<handler, tokens, pc, token, waiters>>

\* Mutant: the waiter of an operation that gives up is kept.
EndsLeaking(c, how) ==
    /\ pc' = [pc EXCEPT ![c] = how]
    /\ waiters' = IF how = "done" THEN waiters \ {token[c]} ELSE waiters
    /\ channel' = channel \ {token[c]}
    /\ UNCHANGED <<handler, tokens, token, owed, missed>>

Ends(c, how) ==
    /\ pc' = [pc EXCEPT ![c] = how]
    /\ waiters' = waiters \ {token[c]}
    /\ channel' = channel \ {token[c]}
    /\ UNCHANGED <<handler, tokens, token, owed, missed>>

TakesIndication(c) == pc[c] = "waits" /\ token[c] \in channel /\ Ends(c, "done")
TimesOut(c)        == pc[c] = "waits" /\ Ends(c, "timeout")

Next ==
    \/ Open \/ Close
    \/ \E c \in Callers : Sends(c) \/ Refused(c) \/ Granted(c) \/ registerWaiter(c)
                          \/ TakesIndication(c) \/ TimesOut(c)
    \/ \E t \in 1 .. MaxTokens : IndicationArrives(t)

Spec == Init /\ [][Next]_vars

(***************************************************************************)
(* Properties.                                                             *)
(***************************************************************************)
WaitsTypeOK ==
    /\ handler \in {"none", "registered", "removed"} /\ tokens \in 0 .. MaxTokens
    /\ pc \in [Callers -> {"idle", "sent", "answered", "waits", "failed", "done", "timeout"}]
    /\ token \in [Callers -> 0 .. MaxTokens]
    /\ waiters \subseteq 1 .. MaxTokens /\ channel \subseteq 1 .. MaxTokens
    /\ owed \subseteq 1 .. MaxTokens /\ missed \subseteq 1 .. MaxTokens

\* Nobody gets the indication of another: a waiter is that of one caller, who waits, and an
\* indication is in the channel of nobody else.
OwnIndication ==
    /\ \A t \in waiters : Cardinality({c \in Callers : pc[c] = "waits" /\ token[c] = t}) = 1
    /\ channel \subseteq waiters

\* An operation waits in vain only if its indication came between the answer and the
\* waiter's registration, or the service was closed (pdc.go:278 says that it blocks until
\* the indication arrives).
InVainIfMissed ==
    \A c \in Callers : pc[c] = "waits" /\ handler = "registered" => token[c] \in owed \cup channel \cup missed

IndicationsMatched == WaitsTypeOK /\ OwnIndication /\ InVainIfMissed
==================================================================================
