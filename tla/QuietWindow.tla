----------------------------- MODULE QuietWindow -----------------------------
(***************************************************************************)
(* What the card-access gate of pkg/manager promises its callers, without  *)
(* tickets, channels or a mutex.  Card operations share the card with each *)
(* other; a quiet window excludes all of them and every other window.      *)
(* Windows are granted in the order they were requested, and no card       *)
(* operation starts while a request for a window is outstanding.           *)
(***************************************************************************)
CONSTANTS Ops,        \* callers that run one card operation at a time
          Openers     \* callers that open quiet windows

VARIABLES inside,     \* the operations that are using the card
          holders,    \* the opener that owns the window, if there is one
          waiting,    \* the openers whose request is outstanding
          ahead       \* ahead[b]: the requests that must be settled before b's

windowVars == <<inside, holders, waiting, ahead>>

Init ==
    /\ inside = {}
    /\ holders = {}
    /\ waiting = {}
    /\ ahead = [b \in Openers |-> {}]

Enter(p) ==
    /\ p \notin inside
    /\ holders = {}
    /\ waiting = {}
    /\ inside' = inside \cup {p}
    /\ UNCHANGED <<holders, waiting, ahead>>

Leave(p) ==
    /\ p \in inside
    /\ inside' = inside \ {p}
    /\ UNCHANGED <<holders, waiting, ahead>>

Request(b) ==
    /\ b \notin waiting \cup holders
    /\ waiting' = waiting \cup {b}
    /\ ahead' = [ahead EXCEPT ![b] = waiting]
    /\ UNCHANGED <<inside, holders>>

\* A request that is granted at once.
Seize(b) ==
    /\ inside = {}
    /\ holders = {}
    /\ waiting = {}
    /\ holders' = {b}
    /\ UNCHANGED <<inside, waiting, ahead>>

\* b's request is settled: nobody waits for it any longer.
Settle(b) ==
    /\ waiting' = waiting \ {b}
    /\ ahead' = [c \in Openers |-> IF c = b THEN {} ELSE ahead[c] \ {b}]

Grant(b) ==
    /\ b \in waiting
    /\ ahead[b] = {}
    /\ inside = {}
    /\ holders = {}
    /\ holders' = {b}
    /\ Settle(b)
    /\ UNCHANGED inside

Abandon(b) ==
    /\ b \in waiting
    /\ Settle(b)
    /\ UNCHANGED <<inside, holders>>

End(b) ==
    /\ b \in holders
    /\ holders' = holders \ {b}
    /\ UNCHANGED <<inside, waiting, ahead>>

Next ==
    \/ \E p \in Ops : Enter(p) \/ Leave(p)
    \/ \E b \in Openers :
          Request(b) \/ Seize(b) \/ Grant(b) \/ Abandon(b) \/ End(b)

Spec == Init /\ [][Next]_windowVars
=============================================================================
