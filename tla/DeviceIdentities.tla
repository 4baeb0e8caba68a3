---------------------------- MODULE DeviceIdentities ----------------------------
(***************************************************************************)
(* The cached identities of the SIM (pkg/manager/snapshot.go,              *)
(* PreWarmIdentities of device_query.go): ICCID, IMSI and whether a card   *)
(* is there.  They are read by goroutines that ask the modem one thing     *)
(* after the other, while cards are changed, their change is reported, and *)
(* a core recovery resets the snapshot.  What belongs to the device (IMEI, *)
(* ...) never changes and is left out.                                     *)
(*                                                                         *)
(* A card is a number; 0 stands for the empty value of a field.            *)
(***************************************************************************)
EXTENDS Naturals, FiniteSets

CONSTANTS Warmers,    \* bound on the goroutines of PreWarmIdentities alive at once
          MaxCards    \* bound on the cards inserted

IdentitiesAssumption == MaxCards \in Nat \ {0} /\ IsFiniteSet(Warmers)

Fields == {"ICCID", "IMSI", "SimInserted"}
Empty == [f \in Fields |-> 0]

VARIABLES card,        \* the card in the device
          unreported,  \* its change is not yet handled: the indication is under way
          identities,  \* s.identities
          simReady,    \* s.identitiesSIMReady
          generation,  \* s.identitiesGeneration
          handler,     \* handleIndication: "idle" or "prewarm", ResetIdentities done
          warm,        \* each goroutine of PreWarmIdentities: the field it reads next
          gen,         \* the generation it was started in
          ids          \* what it has read

vars == <<card, unreported, identities, simReady, generation, handler, warm, gen, ids>>

Init ==
    /\ card = 1
    /\ unreported = FALSE
    /\ identities = Empty
    /\ simReady = FALSE
    /\ generation = 0
    /\ handler = "idle"
    /\ warm = [w \in Warmers |-> "idle"]
    /\ gen = [w \in Warmers |-> 0]
    /\ ids = [w \in Warmers |-> Empty]

(***************************************************************************)
(* The modem: another card, and the indication that tells.                 *)
(***************************************************************************)
ChangeCard ==
    /\ card < MaxCards
    /\ card' = card + 1
    /\ unreported' = TRUE
    /\ UNCHANGED <<identities, simReady, generation, handler, warm, gen, ids>>

(***************************************************************************)
(* EventSimStatusChanged, EventUIMRefresh: ResetIdentities(false), then    *)
(* PreWarmIdentities(false).  The modem may also tell of no change at all. *)
(***************************************************************************)
\* Mutant: the fields are cleared, the generation stays.
ResetIdentitiesOnly ==
    /\ identities' = Empty
    /\ simReady' = FALSE
    /\ UNCHANGED generation

ResetIdentities ==
    /\ identities' = Empty
    /\ simReady' = FALSE
    /\ generation' = generation + 1

HandleSimStatus ==
    /\ handler = "idle"
    /\ unreported
    /\ unreported' = FALSE
    /\ ResetIdentities
    /\ handler' = "prewarm"
    /\ UNCHANGED <<card, warm, gen, ids>>

\* The generation is read here, by the caller, and not by the goroutine.
Start(w) ==
    /\ warm[w] = "idle"
    /\ warm' = [warm EXCEPT ![w] = "ICCID"]
    /\ gen' = [gen EXCEPT ![w] = generation]
    /\ UNCHANGED <<card, unreported, identities, simReady, generation, ids>>

PreWarmIdentities ==
    /\ handler = "prewarm"
    /\ \E w \in Warmers : Start(w)
    /\ handler' = "idle"

\* StartCore does the same without a reset.
PreWarmAtStart ==
    /\ \A w \in Warmers : warm[w] = "idle"
    /\ identities = Empty
    /\ \E w \in Warmers : Start(w)
    /\ UNCHANGED handler

(***************************************************************************)
(* The goroutine: GetICCID, GetIMSI, GetSIMStatus; each may fail, and its  *)
(* field stays empty.                                                      *)
(***************************************************************************)
After == [ICCID |-> "IMSI", IMSI |-> "SimInserted", SimInserted |-> "write"]

Read(w) ==
    /\ warm[w] \in Fields
    /\ \E answer \in {card, 0} : ids' = [ids EXCEPT ![w][warm[w]] = answer]
    /\ warm' = [warm EXCEPT ![w] = After[@]]
    /\ UNCHANGED <<card, unreported, identities, simReady, generation, handler, gen>>

\* updateIdentitiesLocked: what was not read leaves what is there.
\* Mutant: every field is written.
MergedAll(new) == new

Merged(new) == [f \in Fields |-> IF new[f] # 0 THEN new[f] ELSE identities[f]]

\* UpdateIdentitiesIfGeneration
\* Mutant: whoever comes last.
WriteAlways(w) ==
    /\ warm[w] = "write"
    /\ identities' = Merged(ids[w])
    /\ simReady' = (Merged(ids[w]) # Empty)
    /\ warm' = [warm EXCEPT ![w] = "idle"]
    /\ ids' = [ids EXCEPT ![w] = Empty]
    /\ gen' = [gen EXCEPT ![w] = 0]
    /\ UNCHANGED <<card, unreported, generation, handler>>

Write(w) ==
    /\ warm[w] = "write"
    /\ IF gen[w] = generation
       THEN /\ identities' = Merged(ids[w])
            /\ simReady' = (Merged(ids[w]) # Empty)
       ELSE UNCHANGED <<identities, simReady>>
    /\ warm' = [warm EXCEPT ![w] = "idle"]
    /\ ids' = [ids EXCEPT ![w] = Empty]
    /\ gen' = [gen EXCEPT ![w] = 0]
    /\ UNCHANGED <<card, unreported, generation, handler>>

(***************************************************************************)
(* Reset, by a core recovery: as many as there are cards, by the bound.    *)
(* Nobody reads the identities anew then.                                  *)
(***************************************************************************)
Reset ==
    /\ generation < MaxCards
    /\ identities' = Empty
    /\ simReady' = FALSE
    /\ generation' = generation + 1
    /\ UNCHANGED <<card, unreported, handler, warm, gen, ids>>

Next ==
    \/ ChangeCard
    \/ HandleSimStatus
    \/ PreWarmIdentities
    \/ PreWarmAtStart
    \/ \E w \in Warmers : Read(w) \/ Write(w)
    \/ Reset

Spec == Init /\ [][Next]_vars

(***************************************************************************)
(* Properties.                                                             *)
(***************************************************************************)
IdentitiesTypeOK ==
    /\ card \in 1 .. MaxCards /\ unreported \in BOOLEAN
    /\ identities \in [Fields -> 0 .. MaxCards]
    /\ simReady \in BOOLEAN
    /\ generation \in Nat
    /\ handler \in {"idle", "prewarm"}
    /\ warm \in [Warmers -> Fields \union {"idle", "write"}]
    /\ gen \in [Warmers -> Nat]
    /\ ids \in [Warmers -> [Fields -> 0 .. MaxCards]]

\* Once the change of the card has been handled, no cached identity is of a card
\* before it, however long a reading of the old card takes to come back
\* (ResetIdentities, UpdateIdentitiesIfGeneration).  In particular ICCID and IMSI
\* are never of two cards.
OfPresentCard == ~unreported => \A f \in Fields : identities[f] \in {0, card}

\* What was read of the card is forgotten only when a card change or a recovery
\* says so: a reading that fails does not take away what an earlier one found.
KeepsKnown ==
    \A f \in Fields : identities[f] # 0 /\ generation' = generation => identities'[f] # 0

KnownIsKept == [][KeepsKnown]_vars

\* The cached identities are of the card that is in, and are not forgotten for a
\* reading that failed (UpdateIdentitiesIfGeneration, updateIdentitiesLocked).
IdentitiesTruthful == [](IdentitiesTypeOK /\ OfPresentCard) /\ KnownIsKept
=============================================================================
