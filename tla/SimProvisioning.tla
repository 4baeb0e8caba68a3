----------------------------- MODULE SimProvisioning -----------------------------
(***************************************************************************)
(* Bringing a SIM into service: EnsureSIMProvisioned (pkg/manager/         *)
(* uim_provisioning.go), the readiness it polls (uim_readiness.go), the    *)
(* rebind and the power cycle it uses (device_query.go).                   *)
(*                                                                         *)
(* A rebind takes the provisioning session down and up again, a power      *)
(* cycle the SIM; both are two requests with a wait between them.  A       *)
(* request that fails may have been carried out all the same.              *)
(***************************************************************************)
EXTENDS Integers

CONSTANTS Callers,        \* goroutines in EnsureSIMProvisioned
          Reloaders,      \* those of them who come from UIMPostSwitchReload
          MaxAttempts, UnknownAppStateBackstop, MaxActivations,   \* the options
          MaxCards        \* bound on the cards put in

SimAssumption ==
    /\ Reloaders \subseteq Callers /\ MaxCards \in Nat
    /\ {MaxAttempts, UnknownAppStateBackstop, MaxActivations} \subseteq Nat \ {0}

VARIABLES card,           \* what the modem says of the card
          cards,          \* cards put in so far
          session,        \* the provisioning session is up
          power,          \* the SIM has power
          at,             \* where each caller is
          last,           \* the readiness a caller read last
          attempt, unknownStreak, activations,   \* its counters
          rebinds,        \* rebinds it asked the modem for
          cut,            \* callers whose rebind or power cycle ended half way
          takenDown       \* the caller who took down the session that is down, or "nobody"

vars == <<card, cards, session, power, at, last, attempt, unknownStreak, activations, rebinds, cut,
          takenDown>>
modem == <<card, cards, session, power, takenDown>>
counters == <<attempt, unknownStreak, activations, rebinds>>

\* Card and application: "blocked" is an error or a lock, "unknown" and "resetting" are
\* cards without a PIN state yet, with and without an application state.
Cards == {"absent", "blocked", "unknown", "resetting", "detected", "ready"}
Places == {"idle", "power off", "power wait", "power on", "read", "aid", "deactivate", "wait",
           "activate", "sleep", "return"}

Init ==
    /\ card = "unknown" /\ cards = 0 /\ session = FALSE /\ power = TRUE
    /\ at = [c \in Callers |-> "idle"] /\ last = [c \in Callers |-> "absent"]
    /\ attempt = [c \in Callers |-> 1] /\ unknownStreak = [c \in Callers |-> 0]
    /\ activations = [c \in Callers |-> 0] /\ rebinds = [c \in Callers |-> 0]
    /\ cut = {} /\ takenDown = "nobody"

Goto(c, place) == at' = [at EXCEPT ![c] = place]

\* The session goes up or down, or falls with its card.
SessionUp == session' = TRUE /\ takenDown' = "nobody"
NoSession == session' = FALSE /\ takenDown' = "nobody"

(***************************************************************************)
(* The card and the modem, without the callers.                            *)
(***************************************************************************)
CardComes ==
    /\ card = "absent" /\ power /\ cards < MaxCards
    /\ card' \in {"unknown", "blocked"} /\ cards' = cards + 1
    /\ UNCHANGED <<session, power, at, last, cut, takenDown>> /\ UNCHANGED counters

CardGoes ==
    /\ card # "absent" /\ cards < MaxCards
    /\ card' = "absent" /\ NoSession
    /\ UNCHANGED <<cards, power, at, last, cut>> /\ UNCHANGED counters

\* A card settles; the modem may provision it by itself.
CardSettles ==
    /\ \/ card = "unknown" /\ card' \in {"resetting", "detected"} /\ UNCHANGED <<session, takenDown>>
       \/ card = "resetting" /\ card' = "detected" /\ UNCHANGED <<session, takenDown>>
       \/ card = "detected" /\ card' = "ready" /\ SessionUp
    /\ UNCHANGED <<cards, power, at, last, cut>> /\ UNCHANGED counters

(***************************************************************************)
(* UIMPowerCycleSIM, before EnsureSIMProvisioned in UIMPostSwitchReload.   *)
(***************************************************************************)
Begin(c) ==
    /\ at[c] = "idle" /\ Goto(c, IF c \in Reloaders THEN "power off" ELSE "read")
    /\ UNCHANGED <<last, cut>> /\ UNCHANGED counters /\ UNCHANGED modem

UIMPowerOffSIM(c) ==
    /\ at[c] = "power off"
    /\ \/ power' = FALSE /\ card' = "absent" /\ NoSession
       \/ UNCHANGED <<power, card, session, takenDown>>
    /\ \/ Goto(c, "power wait") /\ UNCHANGED cut
       \/ Goto(c, "return") /\ cut' = cut \cup {c}
    /\ UNCHANGED <<cards, last>> /\ UNCHANGED counters

\* sleepWithContext, which fails when the context ends.
PowerWait(c) ==
    /\ at[c] = "power wait"
    /\ \/ Goto(c, "power on") /\ UNCHANGED cut
       \/ Goto(c, "return") /\ cut' = cut \cup {c}
    /\ UNCHANGED last /\ UNCHANGED counters /\ UNCHANGED modem

UIMPowerOnSIM(c) ==
    /\ at[c] = "power on"
    /\ \/ power' = TRUE /\ card' \in (IF power THEN {card} ELSE {"absent", "unknown"})
       \/ UNCHANGED <<power, card>>
    /\ \/ power' /\ Goto(c, "read") /\ UNCHANGED cut
       \/ Goto(c, "return") /\ cut' = cut \cup {c}
    /\ UNCHANGED <<cards, session, takenDown, last>> /\ UNCHANGED counters

(***************************************************************************)
(* ensureSIMProvisioned.                                                   *)
(***************************************************************************)
\* buildUIMReadiness: what each card is taken for.
Reason(state) ==
    CASE state = "absent"   -> "card_absent"
      [] state = "blocked"  -> "sim_blocked"
      [] state = "detected" -> "needs_provisioning"
      [] state \in {"unknown", "resetting"} -> "card_resetting"
      [] state = "ready"    -> "ready"

Streak(c) ==
    CASE card = "detected" -> 0 [] card = "unknown" -> unknownStreak[c] + 1
      [] OTHER -> unknownStreak[c]

WantsActivation(c) ==
    \/ Reason(card) = "needs_provisioning"
    \/ card = "unknown" /\ Streak(c) >= UnknownAppStateBackstop

\* One readiness query, which may fail, and what is made of it.
Readiness(c) ==
    /\ at[c] = "read"
    /\ \/ Goto(c, "return") /\ UNCHANGED <<last, unknownStreak>>
       \/ /\ last' = [last EXCEPT ![c] = card]
          /\ IF Reason(card) \in {"ready", "card_absent", "sim_blocked"}
             THEN Goto(c, "return") /\ UNCHANGED unknownStreak
             ELSE /\ unknownStreak' = [unknownStreak EXCEPT ![c] = Streak(c)]
                  /\ Goto(c, IF WantsActivation(c) /\ activations[c] < MaxActivations
                             THEN "aid" ELSE "sleep")
    /\ UNCHANGED <<attempt, activations, rebinds, cut>> /\ UNCHANGED modem

\* Mutant: only a rebind that succeeded counts.
ReadAIDUncounted(c) ==
    /\ at[c] = "aid" /\ (Goto(c, "sleep") \/ Goto(c, "deactivate"))
    /\ UNCHANGED <<last, cut>> /\ UNCHANGED counters /\ UNCHANGED modem

\* The AID; the rebind counts whether it succeeds or not.
ReadAID(c) ==
    /\ at[c] = "aid"
    /\ \/ Goto(c, "sleep") /\ UNCHANGED activations
       \/ /\ Goto(c, "deactivate")
          /\ activations' = [activations EXCEPT ![c] = @ + 1]
    /\ UNCHANGED <<last, cut, attempt, unknownStreak, rebinds>> /\ UNCHANGED modem

\* uimRebindPrimaryGWProvisioningWithSender: down, a wait, up.  After an error the
\* caller polls on, or returns when the modem does not support the request.
Deactivate(c) ==
    /\ at[c] = "deactivate"
    /\ \/ /\ session' = FALSE /\ takenDown' = c
          /\ card' = IF card = "ready" THEN "detected" ELSE card
       \/ UNCHANGED <<card, session, takenDown>>
    /\ \/ Goto(c, "wait") /\ cut' = cut \ {c}
       \/ (Goto(c, "sleep") \/ Goto(c, "return")) /\ cut' = cut \cup {c}
    /\ rebinds' = [rebinds EXCEPT ![c] = @ + 1]
    /\ UNCHANGED <<cards, power, last, attempt, unknownStreak, activations>>

\* Mutant: a wait that is cut short passes for a rebind.
RebindWaitIgnored(c) ==
    /\ at[c] = "wait" /\ (Goto(c, "activate") \/ Goto(c, "sleep"))
    /\ UNCHANGED <<last, cut>> /\ UNCHANGED counters /\ UNCHANGED modem

RebindWait(c) ==
    /\ at[c] = "wait"
    /\ \/ Goto(c, "activate") /\ UNCHANGED cut
       \/ Goto(c, "sleep") /\ cut' = cut \cup {c}
    /\ UNCHANGED last /\ UNCHANGED counters /\ UNCHANGED modem

Activate(c) ==
    /\ at[c] = "activate"
    /\ \/ card # "absent" /\ SessionUp
       \/ UNCHANGED <<session, takenDown>>
    /\ \/ /\ session' /\ Goto(c, "sleep") /\ UNCHANGED cut
          /\ unknownStreak' = [unknownStreak EXCEPT ![c] = 0]
       \/ /\ (Goto(c, "sleep") \/ Goto(c, "return")) /\ cut' = cut \cup {c}
          /\ UNCHANGED unknownStreak
    /\ UNCHANGED <<card, cards, power, last, attempt, activations, rebinds>>

\* The wait before the next attempt, if there is one.
Sleep(c) ==
    /\ at[c] = "sleep"
    /\ \/ Goto(c, "return") /\ UNCHANGED attempt
       \/ /\ attempt[c] < MaxAttempts
          /\ attempt' = [attempt EXCEPT ![c] = @ + 1] /\ Goto(c, "read")
    /\ UNCHANGED <<last, cut, unknownStreak, activations, rebinds>> /\ UNCHANGED modem

CallerStep(c) ==
    \/ Begin(c) \/ UIMPowerOffSIM(c) \/ PowerWait(c) \/ UIMPowerOnSIM(c)
    \/ Readiness(c) \/ ReadAID(c) \/ Deactivate(c) \/ RebindWait(c) \/ Activate(c) \/ Sleep(c)

Next == CardComes \/ CardGoes \/ CardSettles \/ \E c \in Callers : CallerStep(c)

Spec == Init /\ [][Next]_vars

(***************************************************************************)
(* Properties.                                                             *)
(***************************************************************************)
SimTypeOK ==
    /\ card \in Cards /\ cards \in 0 .. MaxCards /\ {session, power} \subseteq BOOLEAN
    /\ at \in [Callers -> Places] /\ last \in [Callers -> Cards]
    /\ attempt \in [Callers -> 1 .. MaxAttempts]
    /\ unknownStreak \in [Callers -> 0 .. MaxAttempts]
    /\ activations \in [Callers -> 0 .. MaxActivations] /\ rebinds \in [Callers -> Nat]
    /\ cut \subseteq Callers /\ takenDown \in Callers \cup {"nobody"}

\* A session that was taken down is up again, or is in the hands of the caller who took it
\* down, whose last rebind otherwise ended half way: by its context, a refusal or an
\* answer that was lost.  Other callers may rebind at the same time.
SessionRestored ==
    takenDown # "nobody" => at[takenDown] \in {"wait", "activate"} \/ takenDown \in cut

\* So is the power of the SIM.
PowerRestored ==
    ~power => \E r \in Reloaders : at[r] \in {"power wait", "power on"} \/ r \in cut

\* Whatever fails, a call rebinds no more often than MaxActivations
\* ("rebind thrash", uim_provisioning_test.go:82).
RebindsBounded == \A c \in Callers : rebinds[c] <= MaxActivations

\* What was taken down is up again, or its taker was cut short, and nobody takes it down
\* more often than he may.
SimKeptUsable == SimTypeOK /\ SessionRestored /\ PowerRestored /\ RebindsBounded
=================================================================================
