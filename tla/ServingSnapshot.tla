----------------------------- MODULE ServingSnapshot -----------------------------
(***************************************************************************)
(* What the manager remembers of the serving network (pkg/manager/         *)
(* snapshot.go, and manager.go: the serving system case of                 *)
(* handleIndication, doStatusCheck, maybeSchedulePostRegRefresh and        *)
(* doPostRegistrationRefresh).                                             *)
(*                                                                         *)
(* The snapshot is written from indications, which carry the registration, *)
(* the network or both and may be lost, and from two queries, which write  *)
(* an answer given earlier or fail.  Cleanup stops the timers.             *)
(***************************************************************************)
EXTENDS Integers, Sequences

CONSTANTS Networks,        \* PLMNs
          MaxChanges,      \* bound on the changes of the network
          MaxQueued,       \* bound on the indications waiting for the handler
          MaxCleanups      \* bound on recoveries

None == "none"             \* no PLMN, MCC and MNC are zero
ServingAssumption ==
    /\ None \notin Networks /\ MaxChanges \in Nat /\ MaxQueued \in Nat /\ MaxCleanups \in Nat

Registrations == {"unknown", "searching", "registered"}
Unset == [reg |-> "unset", plmn |-> None]
Queries == {"poll", "refresh"}

VARIABLES network,      \* the registration and network the modem has
          changes,
          queue,        \* indications for the handler: has, reg and plmn
          handling,     \* what the handler has left to write: has, reg, plmn
          snapshot,     \* servingSystem, or Unset
          answer,       \* per query, what the modem answered and is not written yet
          scheduled,    \* postRegRefreshScheduled
          timer,        \* the timer of the refresh is pending
          owed,         \* the modem told the handler of a registration since the last refresh
          cleanups,
          resetting,    \* a recovery is between cleanup and Reset
          polls         \* a full status check asks: not rotating, nor stopping, nor disconnected

vars == <<network, changes, queue, handling, snapshot, answer, scheduled, timer, owed, cleanups,
          resetting, polls>>

Nothing == [has |-> {}, reg |-> "unset", plmn |-> None]

Init ==
    /\ network = [reg |-> "searching", plmn |-> None] /\ changes = 0
    /\ queue = <<>> /\ handling = Nothing /\ snapshot = Unset
    /\ answer = [q \in Queries |-> Unset]
    /\ scheduled = FALSE /\ timer = FALSE /\ owed = FALSE /\ cleanups = 0
    /\ resetting = FALSE /\ polls = FALSE

(***************************************************************************)
(* The modem: the network changes, and an indication says so, or is lost.  *)
(***************************************************************************)
NetworkChanges(reg, plmn) ==
    /\ changes < MaxChanges /\ network # [reg |-> reg, plmn |-> plmn]
    /\ (reg = "registered") <=> (plmn # None)
    /\ changes' = changes + 1
    /\ network' = [reg |-> reg, plmn |-> plmn]
    /\ \/ \E has \in {{"serving"}, {"plmn"}, {"serving", "plmn"}} :
            /\ Len(queue) < MaxQueued
            /\ queue' = Append(queue, [has |-> has, reg |-> reg, plmn |-> plmn])
       \/ UNCHANGED queue
    /\ UNCHANGED <<handling, snapshot, answer, scheduled, timer, owed, cleanups, resetting,
                   polls>>

(***************************************************************************)
(* The handler: the indication is merged with what is known, and what it   *)
(* carried is written, in two steps when it carried both.                  *)
(***************************************************************************)
\* maybeSchedulePostRegRefresh.  prev and curr are the registrations before and after;
\* it may also schedule one that no change calls for, when the last is long ago.
Schedules(prev, curr) ==
    IF curr = "registered" /\ ~scheduled /\ prev # "registered"
    THEN scheduled' = TRUE /\ timer' = TRUE
    ELSE UNCHANGED <<scheduled, timer>>

Handle ==
    /\ queue # <<>> /\ handling = Nothing
    /\ LET ind == Head(queue)
           reg == IF "serving" \in ind.has THEN ind.reg
                  ELSE IF snapshot = Unset THEN "unknown" ELSE snapshot.reg
       IN /\ handling' = [ind EXCEPT !.reg = reg]
          /\ Schedules(snapshot.reg, reg)
          /\ owed' = (owed \/ (reg = "registered" /\ snapshot.reg # "registered"))
    /\ queue' = Tail(queue)
    /\ UNCHANGED <<network, changes, snapshot, answer, cleanups, resetting, polls>>

updateServingRegistration ==
    /\ "serving" \in handling.has
    /\ snapshot' = [snapshot EXCEPT !.reg = handling.reg]
    /\ handling' = IF handling.has = {"serving"} THEN Nothing
                   ELSE [handling EXCEPT !.has = {"plmn"}]
    /\ UNCHANGED <<network, changes, queue, answer, scheduled, timer, owed, cleanups, resetting,
                   polls>>

\* Mutant: the registration the indication was merged with is written as well.
WriteMerged ==
    /\ handling.has = {"plmn"}
    /\ snapshot' = IF handling.plmn = None THEN snapshot
                   ELSE [reg |-> handling.reg, plmn |-> handling.plmn]
    /\ handling' = Nothing
    /\ UNCHANGED <<network, changes, queue, answer, scheduled, timer, owed, cleanups, resetting,
                   polls>>

updateServingPLMN ==
    /\ handling.has = {"plmn"}
    /\ snapshot' = IF handling.plmn = None THEN snapshot
                   ELSE [reg |-> IF snapshot.reg = "unset" THEN "unknown" ELSE snapshot.reg,
                         plmn |-> handling.plmn]
    /\ handling' = Nothing
    /\ UNCHANGED <<network, changes, queue, answer, scheduled, timer, owed, cleanups, resetting,
                   polls>>

(***************************************************************************)
(* The queries of doStatusCheck and doPostRegistrationRefresh.             *)
(***************************************************************************)
\* Mutant: an answer without a network clears the one that is known.
QueryReplaces(ss) == ss

\* Mutant: an answer only brings the network.
QueryBringsNetwork(ss) ==
    [reg |-> IF snapshot.reg = "unset" THEN ss.reg ELSE snapshot.reg,
     plmn |-> IF ss.plmn = None THEN snapshot.plmn ELSE ss.plmn]

updateServingFromQuery(ss) ==
    [reg |-> ss.reg, plmn |-> IF ss.plmn = None THEN snapshot.plmn ELSE ss.plmn]

\* The manager connects, disconnects, stops, or changes its address.
PollsChange ==
    /\ polls' = ~polls
    /\ UNCHANGED <<network, changes, queue, handling, snapshot, answer, scheduled, timer, owed,
                   cleanups, resetting>>

\* The event loop, which also runs the recovery, makes a full check.
AskPoll ==
    /\ polls /\ ~resetting /\ answer["poll"] = Unset
    /\ answer' = [answer EXCEPT !["poll"] = network]
    /\ UNCHANGED <<network, changes, queue, handling, snapshot, scheduled, timer, owed, cleanups,
                   resetting, polls>>

\* The timer fires.
AskRefresh ==
    /\ timer /\ answer["refresh"] = Unset
    /\ timer' = FALSE
    /\ scheduled' = FALSE
    /\ owed' = FALSE
    /\ answer' = [answer EXCEPT !["refresh"] = network]
    /\ UNCHANGED <<network, changes, queue, handling, snapshot, cleanups, resetting, polls>>

Answered(q) ==
    /\ answer[q] # Unset
    /\ snapshot' = updateServingFromQuery(answer[q])
    /\ answer' = [answer EXCEPT ![q] = Unset]
    /\ UNCHANGED <<network, changes, queue, handling, scheduled, timer, owed, cleanups,
                   resetting, polls>>

\* No answer, or the timer fired while the core was not ready or was stopping.
QueryFails(q) ==
    /\ answer[q] # Unset
    /\ answer' = [answer EXCEPT ![q] = Unset]
    /\ UNCHANGED <<network, changes, queue, handling, snapshot, scheduled, timer, owed, cleanups,
                   resetting, polls>>

(***************************************************************************)
(* A recovery, in the event loop between its checks: cleanup, which stops  *)
(* the timers, and then Reset.  A refresh may be under way.                *)
(***************************************************************************)
\* Mutant: the timers are stopped and the refresh still counts as scheduled.
StopsTimersOnly ==
    /\ cleanups < MaxCleanups /\ ~resetting /\ answer["poll"] = Unset
    /\ cleanups' = cleanups + 1
    /\ resetting' = TRUE
    /\ timer' = FALSE
    /\ owed' = FALSE
    /\ UNCHANGED <<answer, network, changes, queue, handling, snapshot, scheduled, polls>>

Cleanup ==
    /\ cleanups < MaxCleanups /\ ~resetting /\ answer["poll"] = Unset
    /\ cleanups' = cleanups + 1
    /\ resetting' = TRUE
    /\ timer' = FALSE /\ scheduled' = FALSE
    /\ owed' = FALSE
    /\ UNCHANGED <<answer, network, changes, queue, handling, snapshot, polls>>

Reset ==
    /\ resetting
    /\ resetting' = FALSE
    /\ snapshot' = Unset
    /\ UNCHANGED <<network, changes, queue, handling, answer, scheduled, timer, owed, cleanups,
                   polls>>

HandlerStep == Handle \/ updateServingRegistration \/ updateServingPLMN

Next ==
    \/ \E reg \in Registrations, plmn \in Networks \union {None} : NetworkChanges(reg, plmn)
    \/ HandlerStep \/ PollsChange \/ AskPoll \/ AskRefresh \/ Cleanup \/ Reset
    \/ \E q \in Queries : Answered(q) \/ QueryFails(q)

Spec == Init /\ [][Next]_vars

\* The handler runs, a timer fires, queries end.
FairSpec ==
    /\ Spec /\ WF_vars(HandlerStep) /\ WF_vars(AskRefresh)
    /\ \A q \in Queries : WF_vars(Answered(q) \/ QueryFails(q))

(***************************************************************************)
(* Properties.                                                             *)
(***************************************************************************)
ServingTypeOK ==
    /\ network \in [reg : Registrations, plmn : Networks \union {None}]
    /\ changes \in 0 .. MaxChanges /\ Len(queue) <= MaxQueued /\ cleanups \in 0 .. MaxCleanups
    /\ handling \in [has : SUBSET {"serving", "plmn"}, reg : Registrations \union {"unset"},
                     plmn : Networks \union {None}]
    /\ snapshot \in [reg : Registrations \union {"unset"}, plmn : Networks \union {None}]
    /\ scheduled \in BOOLEAN /\ timer \in BOOLEAN
    /\ owed \in BOOLEAN /\ resetting \in BOOLEAN /\ polls \in BOOLEAN

\* A network once known is not forgotten because a query finds the modem searching.
KeepsPlmn == snapshot.plmn # None /\ snapshot'.plmn = None => snapshot' = Unset

PlmnNotForgotten == [][KeepsPlmn]_vars

\* An indication of the network alone, merged before a query changed the registration,
\* does not put the old registration back.
KeepsRegistration ==
    handling # Nothing /\ "serving" \notin handling.has /\ handling' = Nothing
        => snapshot'.reg = snapshot.reg \/ snapshot.reg = "unset"

RegistrationFromReport == [][KeepsRegistration]_vars

\* When the network stops changing and full status checks get an answer again and
\* again, the snapshot ends up right, whatever was lost, failed or came late.
SnapshotConverges ==
    []<><<Answered("poll")>>_vars =>
        <>[](snapshot.reg = network.reg /\ (network.plmn # None => snapshot.plmn = network.plmn))

\* Once the handler has seen the device register, the refresh runs, unless a cleanup
\* comes in between.
RegisteredIsRefreshed == owed ~> ~owed

\* A network is forgotten by a recovery only, and an indication changes the parts of the
\* serving system it carries.  A query may write an answer older than an indication.
ServingTruthful == []ServingTypeOK /\ PlmnNotForgotten /\ RegistrationFromReport
=============================================================================
