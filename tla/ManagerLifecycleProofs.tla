------------------------ MODULE ManagerLifecycleProofs -------------------------
(***************************************************************************)
(* The safety of the manager's data connection for any users, any queue     *)
(* and any number of starts, calls and stimuli.  The invariant comes in     *)
(* three layers, each inductive on top of the ones before: where every      *)
(* goroutine may be and which phase of Start and Stop goes with which       *)
(* context; what holds of the connection while no user disturbs it; and     *)
(* what carries a desired connection that is not there.                     *)
(***************************************************************************)
EXTENDS ManagerLifecycle, QueueLemmas

USE LifecycleAssumption

Events == {"start", "stop", "check", "reset", "indication"}
AirLabels == {"dialing", "answered", "configuring", "dialed"}
DialLabels == {"connect", "dialFailed", "retry"} \cup AirLabels
HangUpLabels == {"hangup", "hungup"}
CheckLabels == {"check", "query", "verify", "restored", "mismatch", "lost", "recheck"}
RecoverLabels == {"reset", "cleanup", "reopening", "reopened", "recovered"}
LoopLabels == {"off", "idle", "tick", "postStart"} \cup DialLabels \cup HangUpLabels
              \cup CheckLabels \cup RecoverLabels
\* The phases of Start up to the wish for a connection, the ones in which the
\* loops run, and the ones in which a canceled manager is not yet clean.
Beginning == {"opening", "launching", "launched", "ready", "dial"}
Running == {"launched", "ready", "dial", "postStart", "cancel", "cancelQuietly"}
Unclean == {"postStop", "waiting"}
\* The phases of Start and Stop in which the state may still be Connecting.
Opening == {"opening", "launching", "launched", "ready", "stopped"}

PlacesInv ==
    /\ count \in [starts : Nat, calls : Nat, stimuli : Nat]
    /\ \A u \in Users : pc[u] \in {"idle"} \cup DialLabels \cup HangUpLabels
    /\ pc[Loop] \in LoopLabels
    /\ pc[Handler] \in {"off", "idle", "post"}
    /\ pc[Owner] \in {"idle", "opening", "launching", "stopped"} \cup Running \cup Unclean
    /\ after # "idle" => pc[Loop] \in HangUpLabels \cup {"recheck", "cleanup"}

\* The loops run while the context is live; a context that is not live and no
\* longer being cleaned up after has nothing left.
PhasesInv ==
    /\ pc[Owner] \in Running => ctx = "live"
    /\ pc[Owner] \in {"opening", "launching", "stopped"} => ctx # "live"
    /\ pc[Owner] \in Unclean => ctx = "canceled"
    /\ ctx = "live" => pc[Loop] # "off" /\ pc[Handler] # "off"
    /\ ctx # "live" /\ pc[Owner] \notin Unclean =>
          /\ pc[Loop] = "off" /\ pc[Handler] = "off" /\ ~coreReady
          /\ pc[Owner] # "launching" => ~client

\* What holds as long as no user has called Connect or Disconnect.
UsersAside == \A u \in Users : pc[u] = "idle"
DesiredWhenRunning == desired => ctx = "live" /\ pc[Owner] \in {"postStart", "idle"}
NothingLeft ==
    ctx # "live" /\ pc[Owner] \notin Unclean =>
        /\ ~handle /\ armed = 0
        /\ pc[Owner] = "idle" => state = "Disconnected"
NothingYet ==
    pc[Owner] \in Beginning =>
        /\ ~handle /\ ~want /\ (state = "Connected" => adopted)
        /\ pc[Loop] \notin AirLabels \cup {"dialFailed"}
WhoConnects ==
    state = "Connecting" =>
        pc[Owner] \in Opening \/ pc[Loop] \in AirLabels \cup {"dialFailed"}
LoopKnows ==
    /\ pc[Loop] \in {"configuring", "dialed"} => handle
    /\ pc[Loop] \in RecoverLabels \ {"reset"} => state # "Connected"
    /\ want => \/ pc[Loop] \in
                     {"query", "restored", "verify", "mismatch", "lost", "recheck"}
               \/ pc[Loop] \in RecoverLabels \ {"reset"}
               \/ pc[Loop] \in HangUpLabels /\ after # "idle"
    /\ pc[Loop] \in {"reopening", "reopened"} /\ want => ~coreReady
Calm ==
    UsersAside /\ DesiredWhenRunning /\ NothingLeft /\ NothingYet /\ WhoConnects /\ LoopKnows

CalmInv == Undisturbed => Calm

\* A connection that is reported and desired can be ended, if it was dialled.
Held == state = "Connected" /\ desired => handle \/ HangingUp(Loop) \/ adopted

\* A wish that waits in the queue, or in the owner's hands.
Requested == Queued("start") \/ pc[Owner] = "postStart"

\* While the loop is about to end the connection, or is putting one back, it
\* remembers the wish or the wish is requested again.
Rebuilding == HangUpLabels \cup {"recheck"} \cup (RecoverLabels \ {"reset"})
WishKept ==
    desired /\ pc[Loop] \in Rebuilding \cup {"verify", "mismatch", "lost"} => want \/ Requested

\* A stop left over from an earlier life comes before the start of this one.
StopFirst ==
    \A i \in DOMAIN eventCh : eventCh[i] = "stop" =>
        \E j \in DOMAIN eventCh : j > i /\ eventCh[j] = "start"
StopPrecedes == desired => pc[Owner] = "postStart" \/ StopFirst

\* The wish itself.
WishPursued == desired /\ coreReady /\ ctx = "live" /\ state = "Disconnected" => Pursued

Wish == Held /\ WishKept /\ StopPrecedes /\ WishPursued
WishInv == Undisturbed => Wish

LifecycleInv == TypeOK /\ PlacesInv /\ PhasesInv
ConnectionInv == CalmInv /\ WishInv

-----------------------------------------------------------------------------
\* The loop, the owner and the users are different goroutines.
LEMMA ProcsApart ==
    /\ Loop # Handler /\ Loop # Owner /\ Handler # Owner
    /\ Loop \notin Users /\ Handler \notin Users /\ Owner \notin Users
    /\ Loop \in Procs /\ Handler \in Procs /\ Owner \in Procs
    /\ \A u \in Users : u \in Procs /\ u # Loop /\ u # Handler /\ u # Owner
    /\ Procs = Users \cup {Loop, Handler, Owner}
  BY DEF Loop, Handler, Owner, Procs

\* TypeOK, variable by variable, and with the counters that it leaves out.
Counts == [starts : Nat, calls : Nat, stimuli : Nat]
QueueType == eventCh \in Seq(Events) /\ Len(eventCh) \in Nat /\ Len(eventCh) <= QueueCap
FlagsType ==
    /\ desired \in BOOLEAN /\ coreReady \in BOOLEAN /\ client \in BOOLEAN
    /\ handle \in BOOLEAN /\ call \in BOOLEAN /\ adopted \in BOOLEAN
    /\ checkDue \in BOOLEAN /\ retryDue \in BOOLEAN /\ want \in BOOLEAN
RestType ==
    /\ state \in {"Disconnected", "Connecting", "Connected", "Stopping"}
    /\ ctx \in {"none", "live", "canceled"}
    /\ armed \in Nat /\ sending \in Nat
    /\ pc \in [Procs -> Labels]
    /\ after \in {"idle", "recheck", "cleanup"}
Types == QueueType /\ FlagsType /\ RestType

\* Types is TypeOK, which leaves out the counters of the bounds.
LEMMA TypesSplit == (TypeOK <=> Types) /\ (TypeOK' <=> Types')
  <1>1. TypeOK => QueueType
    BY LenProperties DEF TypeOK, QueueType, Events
  <1>2. TypeOK' => QueueType'
    BY LenProperties DEF TypeOK, QueueType, Events
  <1>3. TypeOK <=> QueueType /\ FlagsType /\ RestType
    BY <1>1 DEF TypeOK, QueueType, FlagsType, RestType, Events
  <1>4. TypeOK' <=> QueueType' /\ FlagsType' /\ RestType'
    BY <1>2 DEF TypeOK, QueueType, FlagsType, RestType, Events
  <1> QED
    BY <1>3, <1>4 DEF Types

\* What sends to and receives from eventCh do to it.
LEMMA QueueSteps ==
    ASSUME QueueType
    PROVE  /\ \A e \in Events :
                 /\ Post(e) => QueueType' /\ ToSet(eventCh') = ToSet(eventCh) \cup {e}
                 /\ PostOrDrop(e) => QueueType' /\ ToSet(eventCh) \subseteq ToSet(eventCh')
           /\ UNCHANGED eventCh => QueueType'
           /\ eventCh # <<>> /\ eventCh' = Tail(eventCh) =>
                 QueueType' /\ Head(eventCh) \in Events
                 /\ ToSet(eventCh) = {Head(eventCh)} \cup ToSet(eventCh')
  <1>1. eventCh \in Seq(Events) /\ Len(eventCh) \in Nat /\ Len(eventCh) <= QueueCap
        /\ QueueCap \in Nat
    BY DEF QueueType
  <1>2. ASSUME NEW e \in Events
        PROVE  /\ Append(eventCh, e) \in Seq(Events)
               /\ Len(Append(eventCh, e)) = Len(eventCh) + 1
               /\ ToSet(Append(eventCh, e)) = ToSet(eventCh) \cup {e}
    BY <1>1, AppendPositions, AppendSet
  <1>3. ASSUME NEW e \in Events, Post(e)
        PROVE  QueueType' /\ ToSet(eventCh') = ToSet(eventCh) \cup {e}
    BY <1>1, <1>2, <1>3 DEF Post, Room, QueueType
  <1>4. UNCHANGED eventCh => QueueType' /\ ToSet(eventCh') = ToSet(eventCh)
    BY <1>1 DEF QueueType
  <1>5. ASSUME NEW e \in Events, PostOrDrop(e)
        PROVE  QueueType' /\ ToSet(eventCh) \subseteq ToSet(eventCh')
    <2>1. Post(e) \/ UNCHANGED eventCh
      BY <1>5 DEF PostOrDrop, Post
    <2> QED
      BY <2>1, <1>3, <1>4
  <1>6. ASSUME eventCh # <<>>, eventCh' = Tail(eventCh)
        PROVE  /\ QueueType' /\ Head(eventCh) \in Events
               /\ ToSet(eventCh) = {Head(eventCh)} \cup ToSet(eventCh')
    <2>1. /\ Tail(eventCh) \in Seq(Events) /\ Len(Tail(eventCh)) = Len(eventCh) - 1
          /\ Head(eventCh) \in Events /\ Len(eventCh) \in Nat \ {0}
          /\ ToSet(eventCh) = {Head(eventCh)} \cup ToSet(Tail(eventCh))
      BY <1>1, <1>6, TailPositions, HeadTailSet
    <2>2. Len(Tail(eventCh)) \in Nat /\ Len(Tail(eventCh)) <= QueueCap
      BY <1>1, <2>1
    <2> QED
      BY <1>6, <2>1, <2>2 DEF QueueType
  <1> QED
    BY <1>3, <1>4, <1>5, <1>6

\* A goroutine that moves leaves the others where they are.
LEMMA GotoFacts ==
    ASSUME RestType, NEW p \in Procs, NEW l, Goto(p, l)
    PROVE  /\ \A q \in Procs : pc'[q] = IF q = p THEN l ELSE pc[q]
           /\ l \in Labels => pc' \in [Procs -> Labels]
  BY DEF RestType, Goto

\* New establishes the first two layers.
LEMMA LifecycleInit == Init => LifecycleInv /\ ConnectionInv
  <1> SUFFICES ASSUME Init PROVE LifecycleInv /\ ConnectionInv
    OBVIOUS
  <1>1. Types
    <2>1. QueueType
      BY EmptySeq DEF Init, QueueType
    <2>2. FlagsType
      BY DEF Init, FlagsType
    <2>3. RestType
      BY DEF Init, RestType, Labels
    <2> QED
      BY <2>1, <2>2, <2>3 DEF Types
  <1>2. /\ pc[Loop] = "off" /\ pc[Handler] = "off" /\ pc[Owner] = "idle"
        /\ \A u \in Users : pc[u] = "idle"
    BY ProcsApart DEF Init
  <1>3. PlacesInv
    BY <1>2 DEF Init, PlacesInv, LoopLabels
  <1>4. PhasesInv
    BY <1>2 DEF Init, PhasesInv, Running, Unclean
  <1>5. CalmInv
    BY <1>2
       DEF Init, CalmInv, Calm, UsersAside, DesiredWhenRunning, NothingLeft, NothingYet,
           WhoConnects, LoopKnows, AirLabels
  <1>6. WishInv
    BY DEF Init, WishInv, Wish, Held, WishKept, StopPrecedes, WishPursued
  <1> QED
    BY <1>1, <1>3, <1>4, <1>5, <1>6, TypesSplit DEF LifecycleInv, ConnectionInv

\* The first layer survives dialling and hanging up.
LEMMA WorkLifecycle ==
    LifecycleInv /\ (\E p \in Users \cup {Loop} : DialStep(p) \/ HangUpStep(p)) => LifecycleInv'
  <1> SUFFICES ASSUME LifecycleInv, NEW p \in Users \cup {Loop}, DialStep(p) \/ HangUpStep(p)
               PROVE  LifecycleInv'
    OBVIOUS
  <1>1. /\ TypeOK /\ QueueType /\ FlagsType /\ RestType /\ PlacesInv /\ PhasesInv
        /\ p \in Procs /\ p # Owner /\ p # Handler
    BY TypesSplit, ProcsApart DEF LifecycleInv, Types
  <1>2. UNCHANGED <<desired, coreReady, client, eventCh, ctx, sending, checkDue, retryDue, after,
                    want, count>>
    BY DEF DialStep, DialBegin, Dial, Answered, Configure, DialSucceeds, DialFails,
           ScheduleReconnect, HangUpStep, HangUp, HungUp, connVars, timerVars
  <1>3. /\ handle' \in BOOLEAN /\ call' \in BOOLEAN /\ adopted' \in BOOLEAN /\ armed' \in Nat
        /\ state' \in {"Disconnected", "Connecting", "Connected", "Stopping"}
    <2> USE <1>1 DEF DialStep, DialBegin, Dial, Answered, Configure, DialSucceeds, DialFails,
                     ScheduleReconnect, HangUpStep, HangUp, HungUp, connVars, timerVars
    <2>1. handle' \in BOOLEAN
      BY DEF FlagsType
    <2>2. call' \in BOOLEAN
      <3>1. call' \in BOOLEAN \/ call' = call \/ call' \in {call, FALSE}
        OBVIOUS
      <3> QED
        BY <3>1 DEF FlagsType
    <2>3. armed' \in Nat
      <3>1. armed' = armed \/ armed' = armed + 1
        OBVIOUS
      <3> QED
        BY <3>1 DEF RestType
    <2>4. state' \in {"Disconnected", "Connecting", "Connected", "Stopping"}
      BY DEF RestType
    <2>5. adopted' \in BOOLEAN
      <3>1. adopted' = adopted \/ adopted' = FALSE
        OBVIOUS
      <3> QED
        BY <3>1 DEF FlagsType
    <2> QED
      BY <2>1, <2>2, <2>3, <2>4, <2>5
  <1>4. after \in {"idle", "recheck", "cleanup"}
    BY <1>1 DEF RestType
  <1>5. PICK l \in {"idle", after} \cup DialLabels \cup HangUpLabels :
              Goto(p, l) /\ (l = after => p = Loop \/ l = "idle")
                         /\ (after # "idle" /\ p = Loop => l = after \/ l = "hungup")
    <2>1. DialStep(p) /\ p = Loop => after = "idle"
      BY <1>1
         DEF PlacesInv, HangUpLabels, DialStep, DialBegin, Dial, Answered, Configure,
             DialSucceeds, DialFails, ScheduleReconnect, At
    <2>2. CASE DialBegin(p)
      BY <1>4, <2>1, <2>2 DEF DialBegin, DialStep, Return, DialLabels, AirLabels
    <2>3. CASE Dial(p)
      BY <1>4, <2>1, <2>3 DEF Dial, DialStep, DialLabels, AirLabels
    <2>4. CASE Answered(p) \/ Configure(p) \/ DialFails(p)
      BY <1>4, <2>1, <2>4 DEF Answered, Configure, DialFails, DialStep, DialLabels, AirLabels
    <2>5. CASE DialSucceeds(p) \/ ScheduleReconnect(p)
      BY <2>1, <2>5 DEF DialSucceeds, ScheduleReconnect, DialStep, Return
    <2>6. CASE HangUpStep(p)
      BY <1>4, <2>6 DEF HangUpStep, HangUp, HungUp, Return, HangUpLabels
    <2> QED
      BY <2>2, <2>3, <2>4, <2>5, <2>6 DEF DialStep
  <1>6. \A q \in Procs : pc'[q] = IF q = p THEN l ELSE pc[q]
    BY <1>1, <1>5 DEF RestType, Goto
  <1>7. l \in Labels /\ (p = Loop => l \in LoopLabels /\ l # "off")
        /\ (p \in Users => l \in {"idle"} \cup DialLabels \cup HangUpLabels)
    BY <1>1, <1>5, ProcsApart
       DEF RestType, Labels, LoopLabels, DialLabels, AirLabels, HangUpLabels, CheckLabels,
           RecoverLabels
  <1>8. pc[p] \in DialLabels \cup HangUpLabels /\ pc[p] # "off"
    BY DEF DialStep, DialBegin, Dial, Answered, Configure, DialSucceeds, DialFails,
           ScheduleReconnect, HangUpStep, HangUp, HungUp, At, DialLabels, AirLabels,
           HangUpLabels
  <1>9. Types'
    <2>1. pc' \in [Procs -> Labels]
      BY <1>1, <1>5, <1>7 DEF RestType, Goto
    <2>2. RestType'
      BY <1>1, <1>2, <1>3, <2>1 DEF RestType
    <2>3. QueueType' /\ FlagsType'
      BY <1>1, <1>2, <1>3, QueueSteps DEF FlagsType
    <2> QED
      BY <2>2, <2>3 DEF Types
  <1>10. PlacesInv'
    <2>1. after # "idle" => pc'[Loop] \in HangUpLabels \cup {"recheck", "cleanup"}
      BY <1>1, <1>5, <1>6, ProcsApart DEF PlacesInv, RestType, HangUpLabels
    <2>2. count' \in Counts
      BY <1>1, <1>2 DEF PlacesInv, Counts
    <2> QED
      BY <1>1, <1>2, <1>6, <1>7, <2>1, <2>2, ProcsApart DEF PlacesInv, Counts
  <1>11. PhasesInv'
    BY <1>1, <1>2, <1>6, <1>7, <1>8, ProcsApart DEF PhasesInv
  <1> QED
    BY <1>9, <1>10, <1>11, TypesSplit DEF LifecycleInv

\* The first layer survives a user's call of Connect or Disconnect.
LEMMA CallLifecycle ==
    LifecycleInv /\ (\E u \in Users : Connect(u) \/ Disconnect(u)) => LifecycleInv'
  <1> SUFFICES ASSUME LifecycleInv, NEW u \in Users, Connect(u) \/ Disconnect(u)
               PROVE  LifecycleInv'
    OBVIOUS
  <1>1. TypeOK /\ QueueType /\ FlagsType /\ RestType /\ PlacesInv /\ PhasesInv
    BY TypesSplit DEF LifecycleInv, Types
  <1>2. count \in Counts
    BY <1>1 DEF PlacesInv, Counts
  <1>3. QueueType'
    BY <1>1, QueueSteps DEF Connect, Disconnect
  <1>4. FlagsType'
    BY <1>1 DEF Connect, Disconnect, UserCall, connVars, timerVars, procVars, FlagsType
  <1>5. RestType'
    BY <1>1, ProcsApart DEF Connect, Disconnect, timerVars, RestType, Goto, Labels
  <1>6. count' \in Counts
    <2>1. count' = [count EXCEPT !.calls = @ + 1, !.stimuli = @ + 1]
      BY DEF Connect, Disconnect, UserCall
    <2> DEFINE called == [count EXCEPT !.calls = @ + 1]
    <2>2. called \in Counts
      BY <1>2 DEF Counts
    <2>3. count' = [called EXCEPT !.stimuli = @ + 1]
      BY <2>1
    <2> HIDE DEF called
    <2> QED
      BY <2>2, <2>3 DEF Counts
  <1>7. PlacesInv'
    BY <1>1, <1>6, ProcsApart
       DEF HangUpLabels, DialLabels, PlacesInv, Goto, RestType, Disconnect, Connect, Counts
  <1>8. PhasesInv'
    BY <1>1, ProcsApart DEF Connect, Disconnect, RestType, Goto, PhasesInv
  <1> QED
    BY <1>3, <1>4, <1>5, <1>7, <1>8, TypesSplit DEF LifecycleInv, Types

\* The first layer survives Start.
LEMMA StartLifecycle ==
    LifecycleInv /\ (StartBegin \/ StartStep) => LifecycleInv'
  <1> SUFFICES ASSUME LifecycleInv, StartBegin \/ StartStep
               PROVE  LifecycleInv'
    OBVIOUS
  <1>1. TypeOK /\ QueueType /\ FlagsType /\ RestType /\ PlacesInv /\ PhasesInv
    BY TypesSplit DEF LifecycleInv, Types
  <1>2. count \in Counts
    BY <1>1 DEF PlacesInv, Counts
  <1>3. QueueType'
    BY <1>1, QueueSteps
       DEF StartBegin, StartStep, StartOpens, StartFails, StartLaunches, StartReady, StartEnds,
           StartDials, PostStart, Events
  <1>4. FlagsType'
    BY <1>1, ZenonT(30)
       DEF StartBegin, StartStep, StartOpens, StartFails, StartLaunches, StartReady, StartEnds,
           StartDials, PostStart, Cleanup, StopTimers, connVars, timerVars, procVars, FlagsType
  <1>5. RestType'
    BY <1>1, ProcsApart
       DEF Labels, Goto, RestType, timerVars, connVars, StopTimers, Cleanup, PostStart,
           StartDials, StartEnds, StartReady, StartLaunches, StartFails, StartOpens, StartStep,
           StartBegin
  <1>6. count' \in Counts
    BY <1>2
       DEF StartBegin, StartStep, StartOpens, StartFails, StartLaunches, StartReady, StartEnds,
           StartDials, PostStart, Counts
  <1>7. ASSUME StartLaunches
        PROVE  PlacesInv'
    <2>1. /\ \A q \in Procs : pc'[q] = IF q = Owner THEN "launched"
                                      ELSE IF q \in {Loop, Handler} THEN "idle" ELSE pc[q]
          /\ UNCHANGED after /\ pc[Owner] = "launching"
      BY <1>1, <1>7, ProcsApart DEF StartLaunches, At, RestType
    <2>2. after = "idle"
      BY <1>1, <2>1 DEF PlacesInv, PhasesInv, HangUpLabels, Unclean
    <2> QED
      BY <1>1, <1>6, <2>1, <2>2, ProcsApart DEF PlacesInv, Counts, LoopLabels, Running
  <1>8. ASSUME ~StartLaunches
        PROVE  PlacesInv'
    <2>1. PICK l \in {"opening", "launching", "stopped", "ready", "idle", "dial", "postStart"} :
             Goto(Owner, l)
      BY <1>8
         DEF StartBegin, StartStep, StartOpens, StartFails, StartReady, StartEnds, StartDials,
             PostStart
    <2>2. \A q \in Procs : pc'[q] = IF q = Owner THEN l ELSE pc[q]
      BY <1>1, <2>1, GotoFacts, ProcsApart
    <2>3. UNCHANGED after
      BY <1>8
         DEF StartBegin, StartStep, StartOpens, StartFails, StartReady, StartEnds, StartDials,
             PostStart
    <2> QED
      BY <1>1, <1>6, <2>2, <2>3, ProcsApart DEF PlacesInv, Counts, Running
  <1>9. PlacesInv'
    BY <1>7, <1>8
  <1>10. PhasesInv'
    BY <1>1, ProcsApart
       DEF Unclean, Running, PhasesInv, At, Goto, RestType, Cleanup, PostStart, StartDials,
           StartEnds, StartReady, StartLaunches, StartFails, StartOpens, StartStep, StartBegin
  <1> QED
    BY <1>3, <1>4, <1>5, <1>9, <1>10, TypesSplit DEF LifecycleInv, Types

\* The first layer survives Stop.
LEMMA StopLifecycle ==
    LifecycleInv /\ (StopBegin \/ StopStep) => LifecycleInv'
  <1> SUFFICES ASSUME LifecycleInv, StopBegin \/ StopStep
               PROVE  LifecycleInv'
    OBVIOUS
  <1>1. TypeOK /\ QueueType /\ FlagsType /\ RestType /\ PlacesInv /\ PhasesInv
    BY TypesSplit DEF LifecycleInv, Types
  <1>2. QueueType'
    BY <1>1, QueueSteps
       DEF StopBegin, StopStep, StopCancels, StopPosts, StopCleans, Stopped, Events
  <1>3. FlagsType'
    BY <1>1
       DEF StopBegin, StopStep, StopCancels, StopPosts, StopCleans, Stopped, Cleanup,
           StopTimers, connVars, timerVars, procVars, FlagsType
  <1>4. RestType'
    BY <1>1, ProcsApart
       DEF StopBegin, StopStep, StopCancels, StopPosts, StopCleans, Stopped, Cleanup,
           StopTimers, connVars, timerVars, RestType, Goto, Labels
  <1>5. PlacesInv'
    BY <1>1, ProcsApart
       DEF Unclean, Running, PlacesInv, Goto, RestType, Stopped, StopCleans, StopPosts,
           StopCancels, StopStep, StopBegin
  <1>6. PhasesInv'
    BY <1>1, ProcsApart
       DEF Unclean, Running, PhasesInv, At, Goto, RestType, Cleanup, Stopped, StopCleans,
           StopPosts, StopCancels, StopStep, StopBegin
  <1> QED
    BY <1>2, <1>3, <1>4, <1>5, <1>6, TypesSplit DEF LifecycleInv, Types

\* The first layer survives the loop's taking of an event, and its posts.
LEMMA QueueLifecycle ==
    LifecycleInv /\ (TakeEvent \/ PostCheck \/ PostStart(Loop) \/ LoopExits(Loop) \/ Tick)
        => LifecycleInv'
  <1> SUFFICES ASSUME LifecycleInv,
                      TakeEvent \/ PostCheck \/ PostStart(Loop) \/ LoopExits(Loop) \/ Tick
               PROVE  LifecycleInv'
    OBVIOUS
  <1>1. TypeOK /\ QueueType /\ FlagsType /\ RestType /\ PlacesInv /\ PhasesInv
    BY TypesSplit DEF LifecycleInv, Types
  <1>2. count \in Counts
    BY <1>1 DEF PlacesInv, Counts
  <1>3. QueueType'
    BY <1>1, QueueSteps DEF TakeEvent, PostCheck, PostStart, LoopExits, Tick, Events
  <1>4. FlagsType'
    BY <1>1
       DEF TakeEvent, PostCheck, PostStart, LoopExits, Tick, Stimulus, HandlerOf, connVars,
           timerVars, procVars, FlagsType
  <1>5. PICK l \in {"idle", "off", "tick", "connect", "hangup", "check", "reset"} :
           Goto(Loop, l) /\ (l = "off" => ctx = "canceled")
    <2>1. ASSUME TakeEvent
          PROVE  HandlerOf(Head(eventCh)) \in {"idle", "connect", "hangup", "check", "reset"}
      BY <1>1, <2>1, QueueSteps DEF TakeEvent, HandlerOf, Events
    <2> QED
      BY <2>1 DEF TakeEvent, PostCheck, PostStart, LoopExits, Tick
  <1>6. /\ \A q \in Procs : pc'[q] = IF q = Loop THEN l ELSE pc[q]
        /\ pc' \in [Procs -> Labels]
        /\ pc[Loop] \in {"idle", "tick", "postStart"}
        /\ UNCHANGED <<state, ctx, armed, sending, after, coreReady, client>>
    BY <1>1, <1>5, GotoFacts, ProcsApart
       DEF TakeEvent, PostCheck, PostStart, LoopExits, Tick, At, Labels, connVars, timerVars
  <1>7. RestType'
    BY <1>1, <1>6 DEF RestType
  <1>8. count' \in Counts
    BY <1>2 DEF TakeEvent, PostCheck, PostStart, LoopExits, Tick, Stimulus, Counts
  <1>9. PlacesInv'
    BY <1>1, <1>8, <1>5, <1>6, ProcsApart
       DEF PlacesInv, Counts, LoopLabels, DialLabels, HangUpLabels, CheckLabels, RecoverLabels
  <1>10. PhasesInv'
    BY <1>1, <1>5, <1>6, ProcsApart DEF PhasesInv
  <1> QED
    BY <1>3, <1>4, <1>7, <1>9, <1>10, TypesSplit DEF LifecycleInv, Types

\* The first layer survives a status check.
LEMMA CheckLifecycle ==
    LifecycleInv /\ CheckStep => LifecycleInv'
  <1> SUFFICES ASSUME LifecycleInv, CheckStep
               PROVE  LifecycleInv'
    OBVIOUS
  <1>1. TypeOK /\ QueueType /\ FlagsType /\ RestType /\ PlacesInv /\ PhasesInv
    BY TypesSplit DEF LifecycleInv, Types
  <1>2. QueueType'
    BY <1>1, QueueSteps
       DEF CheckStep, CheckBegin, CheckQueries, CheckRestores, CheckRedials, CheckLoses,
           CheckReconnects
  <1>3. FlagsType'
    BY <1>1
       DEF CheckStep, CheckBegin, CheckQueries, CheckRestores, CheckRedials, CheckLoses,
           CheckReconnects, Done, connVars, timerVars, procVars, FlagsType
  <1>4. RestType'
    BY <1>1, ProcsApart
       DEF CheckStep, CheckBegin, CheckQueries, CheckRestores, CheckRedials, CheckLoses,
           CheckReconnects, Done, connVars, timerVars, RestType, Goto, Labels
  <1>5. PlacesInv'
    BY <1>1, ProcsApart
       DEF CheckLabels, HangUpLabels, LoopLabels, PlacesInv, At, Goto, RestType, Done,
           CheckReconnects, CheckLoses, CheckRedials, CheckRestores, CheckQueries, CheckBegin,
           CheckStep
  <1>6. PhasesInv'
    BY <1>1, ProcsApart
       DEF CheckStep, CheckBegin, CheckQueries, CheckRestores, CheckRedials, CheckLoses,
           CheckReconnects, Done, RestType, Goto, At, PhasesInv
  <1> QED
    BY <1>2, <1>3, <1>4, <1>5, <1>6, TypesSplit DEF LifecycleInv, Types

\* The first layer survives a recovery.
LEMMA RecoverLifecycle ==
    LifecycleInv /\ RecoverStep => LifecycleInv'
  <1> SUFFICES ASSUME LifecycleInv, RecoverStep
               PROVE  LifecycleInv'
    OBVIOUS
  <1>1. TypeOK /\ QueueType /\ FlagsType /\ RestType /\ PlacesInv /\ PhasesInv
    BY TypesSplit DEF LifecycleInv, Types
  <1>2. QueueType'
    BY <1>1, QueueSteps
       DEF RecoverStep, RecoverBegin, RecoverCleans, RecoverOpens, RecoverFails, RecoverUnquiet,
           RecoverReady, RecoverEnds
  <1>3. FlagsType'
    BY <1>1
       DEF RecoverStep, RecoverBegin, RecoverCleans, RecoverOpens, RecoverFails, RecoverUnquiet,
           RecoverReady, RecoverEnds, Done, Cleanup, StopTimers, connVars, timerVars, procVars,
           FlagsType
  <1>4. RestType'
    BY <1>1, ProcsApart
       DEF Labels, Goto, RestType, timerVars, connVars, StopTimers, Cleanup, Done, RecoverEnds,
           RecoverReady, RecoverUnquiet, RecoverFails, RecoverOpens, RecoverCleans,
           RecoverBegin, RecoverStep
  <1>5. PlacesInv'
    BY <1>1, ProcsApart
       DEF RecoverLabels, HangUpLabels, LoopLabels, PlacesInv, At, Goto, RestType, Done,
           RecoverEnds, RecoverReady, RecoverUnquiet, RecoverFails, RecoverOpens, RecoverCleans,
           RecoverBegin, RecoverStep
  <1>6. PhasesInv'
    BY <1>1, ProcsApart
       DEF PhasesInv, At, Goto, RestType, Done, RecoverEnds, RecoverReady, RecoverUnquiet,
           RecoverFails, RecoverOpens, RecoverCleans, RecoverBegin, RecoverStep
  <1> QED
    BY <1>2, <1>3, <1>4, <1>5, <1>6, TypesSplit DEF LifecycleInv, Types

\* The first layer survives the retry timers.
LEMMA TimerLifecycle ==
    LifecycleInv /\ TimerStep => LifecycleInv'
  <1> SUFFICES ASSUME LifecycleInv, TimerStep
               PROVE  LifecycleInv'
    OBVIOUS
  <1>1. TypeOK /\ QueueType /\ FlagsType /\ RestType /\ PlacesInv /\ PhasesInv
    BY TypesSplit DEF LifecycleInv, Types
  <1>2. QueueType'
    BY <1>1, QueueSteps
       DEF TimerStep, ReconnectFires, ReconnectSends, CheckFires, RetryFires, Events
  <1>3. FlagsType'
    BY <1>1
       DEF TimerStep, ReconnectFires, ReconnectSends, CheckFires, RetryFires, connVars,
           timerVars, procVars, FlagsType
  <1>4. RestType'
    BY <1>1, ProcsApart
       DEF TimerStep, ReconnectFires, ReconnectSends, CheckFires, RetryFires, connVars,
           procVars, RestType
  <1>5. PlacesInv'
    BY <1>1, ProcsApart
       DEF TimerStep, ReconnectFires, ReconnectSends, CheckFires, RetryFires, procVars,
           PlacesInv
  <1>6. PhasesInv'
    BY <1>1, ProcsApart
       DEF TimerStep, ReconnectFires, ReconnectSends, CheckFires, RetryFires, connVars,
           procVars, PhasesInv
  <1> QED
    BY <1>2, <1>3, <1>4, <1>5, <1>6, TypesSplit DEF LifecycleInv, Types

\* The first layer survives the indication handler.
LEMMA HandlerLifecycle ==
    LifecycleInv /\ (Indication \/ HandlerStep) => LifecycleInv'
  <1> SUFFICES ASSUME LifecycleInv, Indication \/ HandlerStep
               PROVE  LifecycleInv'
    OBVIOUS
  <1>1. TypeOK /\ QueueType /\ FlagsType /\ RestType /\ PlacesInv /\ PhasesInv
    BY TypesSplit DEF LifecycleInv, Types
  <1>2. count \in Counts
    BY <1>1 DEF PlacesInv, Counts
  <1>3. QueueType'
    BY <1>1, QueueSteps DEF Indication, HandlerStep, PostIndication, LoopExits, Events
  <1>4. FlagsType'
    BY <1>1
       DEF Indication, HandlerStep, PostIndication, LoopExits, connVars, timerVars, FlagsType
  <1>5. RestType'
    BY <1>1, ProcsApart
       DEF Indication, HandlerStep, PostIndication, LoopExits, connVars, timerVars, RestType,
           Goto, Labels
  <1>6. count' \in Counts
    BY <1>2 DEF Indication, HandlerStep, PostIndication, LoopExits, Stimulus, Counts
  <1>7. PlacesInv'
    BY <1>1, <1>6, ProcsApart
       DEF Indication, HandlerStep, PostIndication, LoopExits, Stimulus, RestType, Goto,
           PlacesInv
  <1>8. PhasesInv'
    BY <1>1, ProcsApart
       DEF Indication, HandlerStep, PostIndication, LoopExits, RestType, Goto, At, PhasesInv
  <1> QED
    BY <1>3, <1>4, <1>5, <1>7, <1>8, TypesSplit DEF LifecycleInv, Types

\* The first layer survives what the modem does and a step that changes nothing.
LEMMA ModemLifecycle ==
    LifecycleInv /\ (ResetReported \/ CallChanges \/ UNCHANGED vars) => LifecycleInv'
  <1> SUFFICES ASSUME LifecycleInv, ResetReported \/ CallChanges \/ UNCHANGED vars
               PROVE  LifecycleInv'
    OBVIOUS
  <1>1. TypeOK /\ QueueType /\ FlagsType /\ RestType /\ PlacesInv /\ PhasesInv
    BY TypesSplit DEF LifecycleInv, Types
  <1>2. count \in Counts
    BY <1>1 DEF PlacesInv, Counts
  <1>3. QueueType'
    BY <1>1, QueueSteps DEF ResetReported, CallChanges, vars, Events
  <1>4. FlagsType'
    BY <1>1
       DEF ResetReported, CallChanges, Stimulus, vars, connVars, timerVars, procVars, FlagsType
  <1>5. RestType'
    BY <1>1, ProcsApart
       DEF ResetReported, CallChanges, vars, connVars, timerVars, procVars, RestType
  <1>6. count' \in Counts
    BY <1>2 DEF ResetReported, CallChanges, Stimulus, vars, Counts
  <1>7. PlacesInv'
    BY <1>1, <1>6, ProcsApart DEF ResetReported, CallChanges, Stimulus, vars, procVars, PlacesInv
  <1>8. PhasesInv'
    BY <1>1, ProcsApart DEF ResetReported, CallChanges, vars, connVars, procVars, PhasesInv
  <1> QED
    BY <1>3, <1>4, <1>5, <1>7, <1>8, TypesSplit DEF LifecycleInv, Types

-----------------------------------------------------------------------------
\* Nobody becomes undisturbed again.
LEMMA UndisturbedBefore ==
    LifecycleInv /\ [Next]_vars /\ Undisturbed' =>
        Undisturbed /\ ~\E u \in Users : Connect(u) \/ Disconnect(u)
  <1> SUFFICES ASSUME LifecycleInv, [Next]_vars, Undisturbed'
               PROVE  Undisturbed /\ ~\E u \in Users : Connect(u) \/ Disconnect(u)
    OBVIOUS
  <1>1. count \in Counts
    BY DEF LifecycleInv, PlacesInv, Counts
  <1>2. ASSUME NEW u \in Users, Connect(u) \/ Disconnect(u)
        PROVE  FALSE
    <2>1. count' = [count EXCEPT !.calls = @ + 1, !.stimuli = @ + 1]
      BY <1>2 DEF Connect, Disconnect, UserCall
    <2>2. count'.calls = count.calls + 1 /\ count.calls \in Nat
      BY <1>1, <2>1 DEF Counts
    <2> QED
      BY <2>2 DEF Undisturbed
  <1>3. CASE UNCHANGED count
    BY <1>2, <1>3 DEF Undisturbed
  <1>4. CASE count' = [count EXCEPT !.starts = @ + 1] \/ count' = [count EXCEPT !.stimuli = @ + 1]
    <2>1. count'.calls = count.calls
      BY <1>1, <1>4 DEF Counts
    <2> QED
      BY <1>2, <2>1 DEF Undisturbed
  <1>5. UNCHANGED count \/ count' = [count EXCEPT !.starts = @ + 1]
        \/ count' = [count EXCEPT !.stimuli = @ + 1]
    <2>1. (StartStep \/ StopBegin \/ StopStep) => UNCHANGED count
      BY DEF StartStep, StartOpens, StartFails, StartLaunches, StartReady, StartEnds,
             StartDials, PostStart, StopBegin, StopStep, StopCancels, StopPosts, StopCleans,
             Stopped
    <2>2. StartBegin => count' = [count EXCEPT !.starts = @ + 1]
      BY DEF StartBegin
    <2>3. \A p \in Procs : DialStep(p) \/ HangUpStep(p) => UNCHANGED count
      BY DEF DialStep, DialBegin, Dial, Answered, Configure, DialSucceeds, DialFails,
             ScheduleReconnect, HangUpStep, HangUp, HungUp
    <2>4. LoopStep => UNCHANGED count
      BY <2>3, ProcsApart
         DEF RecoverEnds, RecoverReady, RecoverUnquiet, RecoverFails, RecoverOpens,
             RecoverCleans, RecoverBegin, RecoverStep, CheckReconnects, CheckLoses,
             CheckRedials, CheckRestores, CheckQueries, CheckBegin, CheckStep, LoopExits,
             PostStart, PostCheck, TakeEvent, LoopStep
    <2>5. (HandlerStep \/ TimerStep \/ CallChanges) => UNCHANGED count
      BY DEF HandlerStep, PostIndication, LoopExits, TimerStep, ReconnectFires, ReconnectSends,
             CheckFires, RetryFires, CallChanges
    <2>6. (Tick \/ Indication \/ ResetReported) => count' = [count EXCEPT !.stimuli = @ + 1]
      BY DEF Tick, Indication, ResetReported, Stimulus
    <2>7. UNCHANGED vars => UNCHANGED count
      BY DEF vars
    <2> QED
      BY <1>2, <2>1, <2>2, <2>3, <2>4, <2>5, <2>6, <2>7, ProcsApart DEF Next
  <1> QED
    BY <1>3, <1>4, <1>5

\* Without users it is the loop that dials and hangs up, and what belongs to others
\* stays as it is.
LEMMA WorkFrame ==
    ASSUME RestType, UsersAside, NEW p \in Users \cup {Loop}, DialStep(p) \/ HangUpStep(p)
    PROVE  /\ p = Loop /\ pc[Loop] \in DialLabels \cup HangUpLabels
           /\ \A q \in Procs : q # Loop => pc'[q] = pc[q]
           /\ UNCHANGED <<desired, coreReady, client, eventCh, ctx, sending, checkDue, retryDue,
                          after, want>>
  <1> USE DEF DialStep, DialBegin, Dial, Answered, Configure, DialSucceeds, DialFails,
              ScheduleReconnect, HangUpStep, HangUp, HungUp
  <1>1. p = Loop
    BY DEF UsersAside, At
  <1>2. pc[Loop] \in DialLabels \cup HangUpLabels
    BY <1>1 DEF At, DialLabels, AirLabels, HangUpLabels
  <1>3. \A q \in Procs : q # Loop => pc'[q] = pc[q]
    BY <1>1 DEF Goto, Return, RestType
  <1>4. UNCHANGED <<desired, coreReady, client, eventCh, ctx, sending, checkDue, retryDue, after,
                    want>>
    BY DEF connVars, timerVars
  <1> QED
    BY <1>1, <1>2, <1>3, <1>4

\* A manager without users stays calm through dialling and hanging up.
LEMMA WorkCalm ==
    LifecycleInv /\ LifecycleInv' /\ Calm
        /\ (\E p \in Users \cup {Loop} : DialStep(p) \/ HangUpStep(p)) => Calm'
  <1> SUFFICES ASSUME LifecycleInv, LifecycleInv', Calm, NEW p \in Users \cup {Loop},
                      DialStep(p) \/ HangUpStep(p)
               PROVE  Calm'
    OBVIOUS
  <1>1. QueueType /\ FlagsType /\ RestType /\ PlacesInv /\ PhasesInv
    BY TypesSplit DEF LifecycleInv, Types
  <1>2. UsersAside /\ DesiredWhenRunning /\ NothingLeft /\ NothingYet /\ WhoConnects /\ LoopKnows
    BY DEF Calm
  <1>3. /\ p = Loop /\ pc[Loop] \in DialLabels \cup HangUpLabels
        /\ UNCHANGED <<desired, ctx>>
    BY <1>1, <1>2, WorkFrame
  <1>4. \A q \in Procs : q # Loop => pc'[q] = pc[q]
    BY <1>1, <1>2, WorkFrame
  <1>5. UsersAside'
    BY <1>2, <1>4, ProcsApart DEF UsersAside
  <1>6. DesiredWhenRunning'
    BY <1>2, <1>3, <1>4, ProcsApart DEF DesiredWhenRunning
  <1>7. NothingLeft'
    <2>1. pc[Loop] # "off"
      BY <1>3 DEF DialLabels, AirLabels, HangUpLabels
    <2> QED
      BY <1>1, <1>3, <1>4, <2>1, ProcsApart DEF NothingLeft, PhasesInv
  <1>8. NothingYet'
    <2> SUFFICES ASSUME pc'[Owner] \in Beginning
                 PROVE  /\ ~handle' /\ ~want' /\ (state' = "Connected" => adopted')
                        /\ pc'[Loop] \notin AirLabels \cup {"dialFailed"}
      BY DEF NothingYet
    <2>1. pc[Owner] \in Beginning /\ ~desired
      BY <1>4, <1>2, ProcsApart DEF DesiredWhenRunning, Beginning
    <2>2. /\ ~handle /\ ~want /\ (state = "Connected" => adopted)
          /\ pc[Loop] \notin AirLabels \cup {"dialFailed"}
      BY <1>2, <2>1 DEF NothingYet
    <2>3. CASE DialBegin(p)
      <3>1. Goto(Loop, after) /\ UNCHANGED <<state, handle, adopted, want>>
        BY <1>3, <2>1, <2>3 DEF DialBegin, DialRefused, Return
      <3> QED
        BY <1>1, <2>2, <3>1, GotoFacts, ProcsApart DEF RestType, AirLabels
    <2>4. CASE ScheduleReconnect(p) \/ HungUp(p)
      <3>1. Goto(Loop, after) /\ UNCHANGED <<handle, adopted, want>>
            /\ (state' = "Connected" => state = "Connected")
        BY <1>3, <2>2, <2>4 DEF ScheduleReconnect, HungUp, Return, connVars
      <3> QED
        BY <1>1, <2>2, <3>1, GotoFacts, ProcsApart DEF RestType, AirLabels
    <2>5. CASE HangUp(p)
      <3>1. Goto(Loop, "hungup") /\ UNCHANGED <<state, adopted, want>> /\ ~handle'
        BY <1>3, <2>2, <2>5 DEF HangUp
      <3> QED
        BY <1>1, <2>2, <3>1, GotoFacts, ProcsApart DEF AirLabels
    <2> QED
      BY <1>3, <2>2, <2>3, <2>4, <2>5
         DEF DialStep, Dial, Answered, Configure, DialSucceeds, DialFails, HangUpStep, At,
             AirLabels
  <1>9. WhoConnects'
    BY <1>1, <1>2, ProcsApart
       DEF DialStep, DialBegin, Dial, Answered, Configure, DialSucceeds, DialFails,
           ScheduleReconnect, HangUpStep, HangUp, HungUp, Return, connVars, timerVars, procVars,
           RestType, FlagsType, Goto, At, PlacesInv, PhasesInv, UsersAside, DesiredWhenRunning,
           NothingLeft, NothingYet, WhoConnects, LoopKnows, Beginning, Opening, Running,
           Unclean, AirLabels, DialLabels, HangUpLabels, LoopLabels, RecoverLabels, CheckLabels
  <1>10. LoopKnows'
    <2>1. after \in {"idle", "recheck", "cleanup"} /\ (after = "cleanup" => pc[Loop] \in
              HangUpLabels \cup {"recheck", "cleanup"})
      BY <1>1 DEF RestType, PlacesInv
    <2>2. want => pc[Loop] \in HangUpLabels /\ after # "idle"
      BY <1>3, <1>2
         DEF LoopKnows, DialStep, DialBegin, Dial, Answered, Configure, DialSucceeds, DialFails,
             ScheduleReconnect, HangUpStep, HangUp, HungUp, At, RecoverLabels
    <2>3. UNCHANGED <<want, after>>
      BY DEF DialStep, DialBegin, Dial, Answered, Configure, DialSucceeds, DialFails,
             ScheduleReconnect, HangUpStep, HangUp, HungUp
    <2>4. PICK l \in {"idle", "recheck", "cleanup"} \cup DialLabels \cup HangUpLabels :
             /\ Goto(Loop, l)
             /\ l \in {"configuring", "dialed"} => handle'
             /\ l = "cleanup" => state' # "Connected"
             /\ want => l \in {"recheck", "cleanup"} \/ (l = "hungup" /\ after # "idle")
      <3>1. CASE DialBegin(p) \/ Dial(p) \/ DialFails(p) \/ ScheduleReconnect(p)
        BY <1>3, <2>1, <2>2, <3>1
           DEF DialBegin, Dial, DialFails, ScheduleReconnect, Return, At, DialLabels, AirLabels,
               HangUpLabels
      <3>2. CASE Answered(p) \/ Configure(p) \/ DialSucceeds(p)
        BY <1>2, <1>3, <2>1, <2>2, <3>2
           DEF Answered, Configure, DialSucceeds, Return, At, LoopKnows, DialLabels, AirLabels,
               HangUpLabels, connVars
      <3>3. CASE HangUp(p)
        BY <1>3, <2>2, <3>3 DEF HangUp, HangUpLabels
      <3>4. CASE HungUp(p)
        BY <1>3, <2>1, <2>2, <3>4 DEF HungUp, Return
      <3> QED
        BY <3>1, <3>2, <3>3, <3>4 DEF DialStep, HangUpStep
    <2>5. pc'[Loop] = l
      BY <1>1, <2>4, GotoFacts, ProcsApart
    <2> QED
      BY <2>3, <2>4, <2>5 DEF LoopKnows, RecoverLabels, DialLabels, AirLabels, HangUpLabels
  <1> QED
    BY <1>5, <1>6, <1>7, <1>8, <1>9, <1>10 DEF Calm

\* A manager without users stays calm through Start.
LEMMA StartCalm ==
    LifecycleInv /\ LifecycleInv' /\ Calm /\ (StartBegin \/ StartStep) => Calm'
  <1> SUFFICES ASSUME LifecycleInv, LifecycleInv', Calm, StartBegin \/ StartStep
               PROVE  Calm'
    OBVIOUS
  <1>1. QueueType /\ FlagsType /\ RestType /\ PlacesInv /\ PhasesInv
    BY TypesSplit DEF LifecycleInv, Types
  <1>2. UsersAside /\ DesiredWhenRunning /\ NothingLeft /\ NothingYet /\ WhoConnects /\ LoopKnows
    BY DEF Calm
  <1>3. UsersAside'
    BY <1>1, <1>2, ProcsApart
       DEF UsersAside, Goto, RestType, PostStart, StartDials, StartEnds, StartReady,
           StartLaunches, StartFails, StartOpens, StartStep, StartBegin
  <1>4. DesiredWhenRunning'
    BY <1>1, <1>2, ProcsApart
       DEF StartBegin, StartStep, StartOpens, StartFails, StartLaunches, StartReady, StartEnds,
           StartDials, PostStart, Cleanup, StopTimers, connVars, timerVars, procVars, RestType,
           FlagsType, Goto, At, PlacesInv, PhasesInv, UsersAside, DesiredWhenRunning,
           NothingLeft, NothingYet, WhoConnects, LoopKnows, Beginning, Opening, Running,
           Unclean, AirLabels, DialLabels, HangUpLabels, LoopLabels, RecoverLabels, CheckLabels
  <1>5. NothingLeft'
    BY <1>1, <1>2, ProcsApart
       DEF Unclean, NothingLeft, PhasesInv, PlacesInv, At, Goto, RestType, timerVars,
           StopTimers, Cleanup, PostStart, StartDials, StartEnds, StartReady, StartLaunches,
           StartFails, StartOpens, StartStep, StartBegin
  <1>6. NothingYet'
    BY <1>1, <1>2, ProcsApart
       DEF RecoverLabels, HangUpLabels, AirLabels, Unclean, Beginning, LoopKnows, NothingYet,
           NothingLeft, PhasesInv, At, Goto, RestType, connVars, PostStart, StartDials,
           StartEnds, StartReady, StartLaunches, StartFails, StartOpens, StartStep, StartBegin
  <1>7. WhoConnects'
    <2>1. CASE StartBegin \/ StartOpens \/ StartFails \/ StartReady \/ StartEnds
      <3>1. PICK l \in {"opening", "launching", "stopped", "ready", "idle", "dial"} :
               Goto(Owner, l) /\ (state' = "Connecting" => l \in Opening)
        BY <2>1 DEF StartBegin, StartOpens, StartFails, StartReady, StartEnds, Opening
      <3>2. pc'[Owner] = l
        BY <1>1, <3>1, GotoFacts, ProcsApart
      <3> QED
        BY <3>1, <3>2 DEF WhoConnects, Opening
    <2>2. CASE StartLaunches
      <3>1. pc'[Owner] = "launched"
        BY <1>1, <2>2, ProcsApart DEF StartLaunches, RestType
      <3> QED
        BY <3>1 DEF WhoConnects, Opening
    <2>3. CASE StartDials \/ PostStart(Owner)
      <3>1. PICK l \in {"postStart", "idle"} : Goto(Owner, l)
        BY <2>3 DEF StartDials, PostStart
      <3>2. UNCHANGED state /\ pc'[Loop] = pc[Loop] /\ pc[Owner] \in {"dial", "postStart"}
        BY <1>1, <2>3, <3>1, GotoFacts, ProcsApart DEF StartDials, PostStart, At, connVars
      <3> QED
        BY <1>2, <3>2 DEF WhoConnects, NothingYet, Beginning, Opening
    <2> QED
      BY <2>1, <2>2, <2>3 DEF StartStep
  <1>8. LoopKnows'
    <2>1. CASE StartLaunches
      <3>1. pc'[Loop] = "idle" /\ UNCHANGED want /\ ~want
        BY <1>1, <1>2, <2>1, ProcsApart
           DEF StartLaunches, RestType, NothingYet, Beginning, At
      <3> QED
        BY <3>1 DEF LoopKnows, RecoverLabels
    <2>2. CASE StartBegin \/ StartOpens \/ StartFails
      <3>1. pc'[Loop] = "off" /\ UNCHANGED want
        BY <1>1, <2>2, ProcsApart
           DEF StartBegin, StartOpens, StartFails, RestType, PhasesInv, Unclean, At, Goto
      <3>2. pc[Loop] = "off"
        BY <1>1, <2>2 DEF StartBegin, StartOpens, StartFails, PhasesInv, Unclean, At
      <3>3. ~want
        BY <1>2, <3>2 DEF LoopKnows, RecoverLabels, HangUpLabels
      <3> QED
        BY <3>1, <3>3 DEF LoopKnows, RecoverLabels
    <2>3. CASE StartReady \/ StartEnds \/ StartDials \/ PostStart(Owner)
      <3>1. UNCHANGED <<handle, want, pc[Loop], after>>
        BY <1>1, <2>3, ProcsApart
           DEF StartReady, StartEnds, StartDials, PostStart, RestType, Goto, connVars
      <3>2. state' = "Connected" => state = "Connected"
        BY <2>3 DEF StartReady, StartEnds, StartDials, PostStart, connVars
      <3>3. coreReady' = coreReady \/ ~want
        BY <1>2, <2>3
           DEF StartReady, StartEnds, StartDials, PostStart, connVars, NothingYet, Beginning, At
      <3> QED
        BY <1>2, <3>1, <3>2, <3>3 DEF LoopKnows
    <2> QED
      BY <2>1, <2>2, <2>3 DEF StartStep
  <1> QED
    BY <1>3, <1>4, <1>5, <1>6, <1>7, <1>8 DEF Calm

\* A manager without users stays calm through Stop.
LEMMA StopCalm ==
    LifecycleInv /\ LifecycleInv' /\ Calm /\ (StopBegin \/ StopStep) => Calm'
  <1> SUFFICES ASSUME LifecycleInv, LifecycleInv', Calm, StopBegin \/ StopStep
               PROVE  Calm'
    OBVIOUS
  <1>1. QueueType /\ FlagsType /\ RestType /\ PlacesInv /\ PhasesInv
    BY TypesSplit DEF LifecycleInv, Types
  <1>2. UsersAside /\ DesiredWhenRunning /\ NothingLeft /\ NothingYet /\ WhoConnects /\ LoopKnows
    BY DEF Calm
  <1>3. UsersAside'
    BY <1>1, <1>2, ProcsApart
       DEF StopBegin, StopStep, StopCancels, StopPosts, StopCleans, Stopped, RestType, Goto,
           UsersAside
  <1>4. DesiredWhenRunning'
    BY <1>1, <1>2, ProcsApart
       DEF StopBegin, StopStep, StopCancels, StopPosts, StopCleans, Stopped, Cleanup,
           StopTimers, connVars, timerVars, procVars, RestType, FlagsType, Goto, At, PlacesInv,
           PhasesInv, UsersAside, DesiredWhenRunning, NothingLeft, NothingYet, WhoConnects,
           LoopKnows, Beginning, Opening, Running, Unclean, AirLabels, DialLabels, HangUpLabels,
           LoopLabels, RecoverLabels, CheckLabels
  <1>5. NothingLeft'
    BY <1>1, <1>2, ProcsApart
       DEF Unclean, NothingLeft, At, Goto, RestType, timerVars, StopTimers, Cleanup, Stopped,
           StopCleans, StopPosts, StopCancels, StopStep, StopBegin
  <1>6. NothingYet'
    BY <1>1, <1>2, ProcsApart
       DEF Beginning, NothingYet, Goto, RestType, Stopped, StopCleans, StopPosts, StopCancels,
           StopStep, StopBegin
  <1>7. WhoConnects'
    BY <1>1, <1>2, ProcsApart
       DEF Opening, WhoConnects, At, Goto, RestType, connVars, Stopped, StopCleans, StopPosts,
           StopCancels, StopStep, StopBegin
  <1>8. LoopKnows'
    BY <1>1, <1>2, ProcsApart
       DEF StopBegin, StopStep, StopCancels, StopPosts, StopCleans, Stopped, connVars, RestType,
           Goto, At, LoopKnows
  <1> QED
    BY <1>3, <1>4, <1>5, <1>6, <1>7, <1>8 DEF Calm

\* A manager without users stays calm through the loop's taking of an event, and its posts.
LEMMA QueueCalm ==
    LifecycleInv /\ LifecycleInv' /\ Calm
        /\ (TakeEvent \/ PostCheck \/ PostStart(Loop) \/ LoopExits(Loop) \/ Tick) => Calm'
  <1> SUFFICES ASSUME LifecycleInv, LifecycleInv', Calm,
                      TakeEvent \/ PostCheck \/ PostStart(Loop) \/ LoopExits(Loop) \/ Tick
               PROVE  Calm'
    OBVIOUS
  <1>1. QueueType /\ FlagsType /\ RestType /\ PlacesInv /\ PhasesInv
    BY TypesSplit DEF LifecycleInv, Types
  <1>2. UsersAside /\ DesiredWhenRunning /\ NothingLeft /\ NothingYet /\ WhoConnects /\ LoopKnows
    BY DEF Calm
  <1>3. UsersAside'
    BY <1>1, <1>2, ProcsApart
       DEF TakeEvent, PostCheck, PostStart, LoopExits, Tick, RestType, Goto, UsersAside
  <1>4. DesiredWhenRunning'
    BY <1>1, <1>2, ProcsApart
       DEF TakeEvent, PostCheck, PostStart, LoopExits, Tick, Stimulus, HandlerOf, connVars,
           timerVars, procVars, RestType, FlagsType, Goto, At, PlacesInv, PhasesInv, UsersAside,
           DesiredWhenRunning, NothingLeft, NothingYet, WhoConnects, LoopKnows, Beginning,
           Opening, Running, Unclean, AirLabels, DialLabels, HangUpLabels, LoopLabels,
           RecoverLabels, CheckLabels
  <1>5. NothingLeft'
    BY <1>1, <1>2, ProcsApart
       DEF TakeEvent, PostCheck, PostStart, LoopExits, Tick, connVars, timerVars, RestType,
           Goto, NothingLeft
  <1>6. PICK l \in {"idle", "off", "tick", "connect", "hangup", "check", "reset"} :
           Goto(Loop, l) /\ (l = "off" => pc[Loop] = "idle")
    <2>1. ASSUME TakeEvent
          PROVE  HandlerOf(Head(eventCh)) \in {"idle", "connect", "hangup", "check", "reset"}
      BY <1>1, <2>1, QueueSteps DEF TakeEvent, HandlerOf, Events
    <2> QED
      BY <2>1 DEF TakeEvent, PostCheck, PostStart, LoopExits, Tick, At
  <1>7. /\ \A q \in Procs : pc'[q] = IF q = Loop THEN l ELSE pc[q]
        /\ UNCHANGED <<state, adopted, handle, want, coreReady>>
    BY <1>1, <1>6, GotoFacts, ProcsApart
       DEF TakeEvent, PostCheck, PostStart, LoopExits, Tick, connVars
  <1>8. NothingYet'
    BY <1>2, <1>6, <1>7, ProcsApart DEF NothingYet, AirLabels
  <1>9. WhoConnects'
    BY <1>1, <1>2, ProcsApart
       DEF AirLabels, WhoConnects, At, Goto, RestType, connVars, Tick, LoopExits, PostStart,
           PostCheck, TakeEvent
  <1>10. LoopKnows'
    <2>1. ~want
      <3>1. pc[Loop] \in {"idle", "tick", "postStart"}
        BY DEF TakeEvent, PostCheck, PostStart, LoopExits, Tick, At
      <3> QED
        BY <1>2, <3>1 DEF LoopKnows, RecoverLabels, HangUpLabels
    <2> QED
      BY <1>6, <1>7, <2>1, ProcsApart DEF LoopKnows, RecoverLabels
  <1> QED
    BY <1>3, <1>4, <1>5, <1>8, <1>9, <1>10 DEF Calm

\* A manager without users stays calm through a status check.
LEMMA CheckCalm ==
    LifecycleInv /\ LifecycleInv' /\ Calm /\ CheckStep => Calm'
  <1> SUFFICES ASSUME LifecycleInv, LifecycleInv', Calm, CheckStep
               PROVE  Calm'
    OBVIOUS
  <1>1. QueueType /\ FlagsType /\ RestType /\ PlacesInv /\ PhasesInv
    BY TypesSplit DEF LifecycleInv, Types
  <1>2. UsersAside /\ DesiredWhenRunning /\ NothingLeft /\ NothingYet /\ WhoConnects /\ LoopKnows
    BY DEF Calm
  <1>3. UsersAside'
    BY <1>1, <1>2, ProcsApart
       DEF CheckStep, CheckBegin, CheckQueries, CheckRestores, CheckRedials, CheckLoses,
           CheckReconnects, Done, RestType, Goto, UsersAside
  <1>4. DesiredWhenRunning'
    BY <1>1, <1>2, ProcsApart
       DEF CheckStep, CheckBegin, CheckQueries, CheckRestores, CheckRedials, CheckLoses,
           CheckReconnects, Done, connVars, timerVars, procVars, RestType, FlagsType, Goto, At,
           PlacesInv, PhasesInv, UsersAside, DesiredWhenRunning, NothingLeft, NothingYet,
           WhoConnects, LoopKnows, Beginning, Opening, Running, Unclean, AirLabels, DialLabels,
           HangUpLabels, LoopLabels, RecoverLabels, CheckLabels
  <1>5. NothingLeft'
    BY <1>1, <1>2, ProcsApart
       DEF NothingLeft, PhasesInv, At, Goto, RestType, Done, CheckReconnects, CheckLoses,
           CheckRedials, CheckRestores, CheckQueries, CheckBegin, CheckStep
  <1>6. NothingYet'
    BY <1>1, <1>2, ProcsApart
       DEF AirLabels, Beginning, LoopKnows, NothingYet, DesiredWhenRunning, At, Goto, RestType,
           connVars, Done, CheckReconnects, CheckLoses, CheckRedials, CheckRestores,
           CheckQueries, CheckBegin, CheckStep
  <1>7. WhoConnects'
    BY <1>1, <1>2, ProcsApart
       DEF AirLabels, WhoConnects, At, Goto, RestType, connVars, Done, CheckReconnects,
           CheckLoses, CheckRedials, CheckRestores, CheckQueries, CheckBegin, CheckStep
  <1>8. LoopKnows'
    <2>1. pc[Loop] \in CheckLabels \cup {"recheck"}
      BY DEF CheckStep, CheckBegin, CheckQueries, CheckRestores, CheckRedials, CheckLoses,
             CheckReconnects, At, CheckLabels
    <2>2. PICK l \in CheckLabels \cup {"idle", "hangup", "recheck", "postStart"} :
             /\ Goto(Loop, l)
             /\ \/ want' = FALSE
                \/ l \in {"query", "restored", "verify", "mismatch", "lost", "recheck"}
                \/ l = "hangup" /\ after' = "recheck"
      BY DEF CheckStep, CheckBegin, CheckQueries, CheckRestores, CheckRedials, CheckLoses,
             CheckReconnects, At, Done, CheckLabels
    <2>3. pc'[Loop] = l
      BY <1>1, <2>2, GotoFacts, ProcsApart
    <2>4. l \notin RecoverLabels \ {"reset"} /\ l \notin {"configuring", "dialed"}
      BY <2>2 DEF RecoverLabels, CheckLabels
    <2> QED
      BY <2>2, <2>3, <2>4 DEF LoopKnows, HangUpLabels, RecoverLabels
  <1> QED
    BY <1>3, <1>4, <1>5, <1>6, <1>7, <1>8 DEF Calm

\* A manager without users stays calm through a recovery.
LEMMA RecoverCalm ==
    LifecycleInv /\ LifecycleInv' /\ Calm /\ RecoverStep => Calm'
  <1> SUFFICES ASSUME LifecycleInv, LifecycleInv', Calm, RecoverStep
               PROVE  Calm'
    OBVIOUS
  <1>1. QueueType /\ FlagsType /\ RestType /\ PlacesInv /\ PhasesInv
    BY TypesSplit DEF LifecycleInv, Types
  <1>2. UsersAside /\ DesiredWhenRunning /\ NothingLeft /\ NothingYet /\ WhoConnects /\ LoopKnows
    BY DEF Calm
  <1>3. UsersAside'
    BY <1>1, <1>2, ProcsApart
       DEF UsersAside, Goto, RestType, Done, RecoverEnds, RecoverReady, RecoverUnquiet,
           RecoverFails, RecoverOpens, RecoverCleans, RecoverBegin, RecoverStep
  <1>4. DesiredWhenRunning'
    BY <1>1, <1>2, ProcsApart
       DEF RecoverStep, RecoverBegin, RecoverCleans, RecoverOpens, RecoverFails, RecoverUnquiet,
           RecoverReady, RecoverEnds, Done, Cleanup, StopTimers, connVars, timerVars, procVars,
           RestType, FlagsType, Goto, At, PlacesInv, PhasesInv, UsersAside, DesiredWhenRunning,
           NothingLeft, NothingYet, WhoConnects, LoopKnows, Beginning, Opening, Running,
           Unclean, AirLabels, DialLabels, HangUpLabels, LoopLabels, RecoverLabels, CheckLabels
  <1>5. NothingLeft'
    BY <1>1, <1>2, ProcsApart
       DEF NothingLeft, PhasesInv, At, Goto, RestType, Done, RecoverEnds, RecoverReady,
           RecoverUnquiet, RecoverFails, RecoverOpens, RecoverCleans, RecoverBegin, RecoverStep
  <1>6. NothingYet'
    BY <1>1, <1>2, ProcsApart
       DEF AirLabels, Beginning, NothingYet, DesiredWhenRunning, Goto, RestType, connVars,
           Cleanup, Done, RecoverEnds, RecoverReady, RecoverUnquiet, RecoverFails, RecoverOpens,
           RecoverCleans, RecoverBegin, RecoverStep
  <1>7. WhoConnects'
    BY <1>1, <1>2, ProcsApart
       DEF AirLabels, WhoConnects, At, Goto, RestType, connVars, Done, RecoverEnds,
           RecoverReady, RecoverUnquiet, RecoverFails, RecoverOpens, RecoverCleans,
           RecoverBegin, RecoverStep
  <1>8. LoopKnows'
    BY <1>1, <1>2, ProcsApart
       DEF RecoverLabels, HangUpLabels, LoopKnows, At, Goto, RestType, Cleanup, Done,
           RecoverEnds, RecoverReady, RecoverUnquiet, RecoverFails, RecoverOpens, RecoverCleans,
           RecoverBegin, RecoverStep
  <1> QED
    BY <1>3, <1>4, <1>5, <1>6, <1>7, <1>8 DEF Calm

\* A manager without users stays calm through the retry timers.
LEMMA TimerCalm ==
    LifecycleInv /\ LifecycleInv' /\ Calm /\ TimerStep => Calm'
  <1> SUFFICES ASSUME LifecycleInv, LifecycleInv', Calm, TimerStep
               PROVE  Calm'
    OBVIOUS
  <1>1. QueueType /\ FlagsType /\ RestType /\ PlacesInv /\ PhasesInv
    BY TypesSplit DEF LifecycleInv, Types
  <1>2. UsersAside /\ DesiredWhenRunning /\ NothingLeft /\ NothingYet /\ WhoConnects /\ LoopKnows
    BY DEF Calm
  <1>3. UsersAside'
    BY <1>1, <1>2, ProcsApart
       DEF TimerStep, ReconnectFires, ReconnectSends, CheckFires, RetryFires, procVars,
           UsersAside
  <1>4. DesiredWhenRunning'
    BY <1>1, <1>2, ProcsApart
       DEF TimerStep, ReconnectFires, ReconnectSends, CheckFires, RetryFires, connVars,
           timerVars, procVars, RestType, FlagsType, Goto, At, PlacesInv, PhasesInv, UsersAside,
           DesiredWhenRunning, NothingLeft, NothingYet, WhoConnects, LoopKnows, Beginning,
           Opening, Running, Unclean, AirLabels, DialLabels, HangUpLabels, LoopLabels,
           RecoverLabels, CheckLabels
  <1>5. NothingLeft'
    BY <1>1, <1>2, ProcsApart
       DEF TimerStep, ReconnectFires, ReconnectSends, CheckFires, RetryFires, connVars,
           procVars, NothingLeft
  <1>6. NothingYet'
    BY <1>1, <1>2, ProcsApart
       DEF TimerStep, ReconnectFires, ReconnectSends, CheckFires, RetryFires, connVars,
           procVars, NothingYet
  <1>7. WhoConnects'
    BY <1>1, <1>2, ProcsApart
       DEF TimerStep, ReconnectFires, ReconnectSends, CheckFires, RetryFires, connVars,
           procVars, WhoConnects
  <1>8. LoopKnows'
    BY <1>1, <1>2, ProcsApart
       DEF TimerStep, ReconnectFires, ReconnectSends, CheckFires, RetryFires, connVars,
           procVars, LoopKnows
  <1> QED
    BY <1>3, <1>4, <1>5, <1>6, <1>7, <1>8 DEF Calm

\* A manager without users stays calm through the indication handler.
LEMMA HandlerCalm ==
    LifecycleInv /\ LifecycleInv' /\ Calm /\ (Indication \/ HandlerStep) => Calm'
  <1> SUFFICES ASSUME LifecycleInv, LifecycleInv', Calm, Indication \/ HandlerStep
               PROVE  Calm'
    OBVIOUS
  <1>1. QueueType /\ FlagsType /\ RestType /\ PlacesInv /\ PhasesInv
    BY TypesSplit DEF LifecycleInv, Types
  <1>2. UsersAside /\ DesiredWhenRunning /\ NothingLeft /\ NothingYet /\ WhoConnects /\ LoopKnows
    BY DEF Calm
  <1>3. UsersAside'
    BY <1>1, <1>2, ProcsApart
       DEF Indication, HandlerStep, PostIndication, LoopExits, RestType, Goto, UsersAside
  <1>4. DesiredWhenRunning'
    BY <1>1, <1>2, ProcsApart
       DEF Indication, HandlerStep, PostIndication, LoopExits, Stimulus, connVars, timerVars,
           procVars, RestType, FlagsType, Goto, At, PlacesInv, PhasesInv, UsersAside,
           DesiredWhenRunning, NothingLeft, NothingYet, WhoConnects, LoopKnows, Beginning,
           Opening, Running, Unclean, AirLabels, DialLabels, HangUpLabels, LoopLabels,
           RecoverLabels, CheckLabels
  <1>5. NothingLeft'
    BY <1>1, <1>2, ProcsApart
       DEF Indication, HandlerStep, PostIndication, LoopExits, connVars, timerVars, RestType,
           Goto, NothingLeft
  <1>6. NothingYet'
    BY <1>1, <1>2, ProcsApart
       DEF Indication, HandlerStep, PostIndication, LoopExits, connVars, RestType, Goto,
           NothingYet
  <1>7. WhoConnects'
    BY <1>1, <1>2, ProcsApart
       DEF Indication, HandlerStep, PostIndication, LoopExits, connVars, RestType, Goto,
           WhoConnects
  <1>8. LoopKnows'
    BY <1>1, <1>2, ProcsApart
       DEF Indication, HandlerStep, PostIndication, LoopExits, connVars, RestType, Goto,
           LoopKnows
  <1> QED
    BY <1>3, <1>4, <1>5, <1>6, <1>7, <1>8 DEF Calm

\* A manager without users stays calm through what the modem does and a step that changes nothing.
LEMMA ModemCalm ==
    LifecycleInv /\ LifecycleInv' /\ Calm /\ (ResetReported \/ CallChanges \/ UNCHANGED vars)
        => Calm'
  <1> SUFFICES ASSUME LifecycleInv, LifecycleInv', Calm,
                      ResetReported \/ CallChanges \/ UNCHANGED vars
               PROVE  Calm'
    OBVIOUS
  <1>1. QueueType /\ FlagsType /\ RestType /\ PlacesInv /\ PhasesInv
    BY TypesSplit DEF LifecycleInv, Types
  <1>2. UsersAside /\ DesiredWhenRunning /\ NothingLeft /\ NothingYet /\ WhoConnects /\ LoopKnows
    BY DEF Calm
  <1>3. UsersAside'
    BY <1>1, <1>2, ProcsApart DEF ResetReported, CallChanges, vars, procVars, UsersAside
  <1>4. DesiredWhenRunning'
    BY <1>1, <1>2, ProcsApart
       DEF ResetReported, CallChanges, Stimulus, vars, connVars, timerVars, procVars, RestType,
           FlagsType, Goto, At, PlacesInv, PhasesInv, UsersAside, DesiredWhenRunning,
           NothingLeft, NothingYet, WhoConnects, LoopKnows, Beginning, Opening, Running,
           Unclean, AirLabels, DialLabels, HangUpLabels, LoopLabels, RecoverLabels, CheckLabels
  <1>5. NothingLeft'
    BY <1>1, <1>2, ProcsApart
       DEF ResetReported, CallChanges, vars, connVars, timerVars, procVars, NothingLeft
  <1>6. NothingYet'
    BY <1>1, <1>2, ProcsApart
       DEF ResetReported, CallChanges, vars, connVars, procVars, NothingYet
  <1>7. WhoConnects'
    BY <1>1, <1>2, ProcsApart
       DEF ResetReported, CallChanges, vars, connVars, procVars, WhoConnects
  <1>8. LoopKnows'
    BY <1>1, <1>2, ProcsApart DEF ResetReported, CallChanges, vars, connVars, procVars, LoopKnows
  <1> QED
    BY <1>3, <1>4, <1>5, <1>6, <1>7, <1>8 DEF Calm

\* The first two layers, and what they say of Stop.
LEMMA CalmStep ==
    LifecycleInv /\ CalmInv /\ [Next]_vars => LifecycleInv' /\ CalmInv'
  <1> SUFFICES ASSUME LifecycleInv, CalmInv, [Next]_vars PROVE LifecycleInv' /\ CalmInv'
    OBVIOUS
  <1>1. LifecycleInv'
    BY WorkLifecycle, CallLifecycle, StartLifecycle, StopLifecycle, QueueLifecycle,
       CheckLifecycle, RecoverLifecycle, TimerLifecycle, HandlerLifecycle, ModemLifecycle
       DEF Next, LoopStep, HandlerStep
  <1>2. ASSUME Undisturbed'
        PROVE  Calm'
    <2>1. Calm /\ ~\E u \in Users : Connect(u) \/ Disconnect(u)
      BY <1>2, UndisturbedBefore DEF CalmInv
    <2> QED
      BY <1>1, <2>1, WorkCalm, StartCalm, StopCalm, QueueCalm, CheckCalm, RecoverCalm,
         TimerCalm, HandlerCalm, ModemCalm
         DEF Next, LoopStep, HandlerStep
  <1> QED
    BY <1>1, <1>2 DEF CalmInv

\* Where the goroutines are is consistent with the context, and without users a
\* manager that is calm stays so.
THEOREM CalmInvariant == Spec => [](LifecycleInv /\ CalmInv)
  <1>1. Init => LifecycleInv /\ CalmInv
    BY LifecycleInit DEF ConnectionInv
  <1> QED
    BY <1>1, CalmStep, PTL DEF Spec

\* Every variable keeps its type; eventCh never holds more than it has room for.
THEOREM ManagerTypes == Spec => []TypeOK
  <1>1. LifecycleInv => TypeOK
    BY DEF LifecycleInv
  <1> QED
    BY CalmInvariant, <1>1, PTL

\* Once Stop has returned, nothing is left: the loops have ended and the client
\* is closed whatever users do meanwhile, and without them no handle is held and
\* no timer is there to make a new connection.
THEOREM StopIsClean == Spec => []StopLeavesNothing
  <1>1. LifecycleInv /\ CalmInv => StopLeavesNothing
    BY DEF LifecycleInv, PhasesInv, CalmInv, Calm, NothingLeft, StopLeavesNothing, At, Unclean
  <1> QED
    BY CalmInvariant, <1>1, PTL

-----------------------------------------------------------------------------
\* What a step does to the events that are queued.
LEMMA QueuedKept ==
    ASSUME QueueType
    PROVE  /\ \A e \in Events : Post(e) => Queued(e)' /\ (Queued("start") => Queued("start")')
           /\ \A e \in Events : PostOrDrop(e) => (Queued("start") => Queued("start")')
           /\ UNCHANGED eventCh => (Queued("start") => Queued("start")')
           /\ eventCh # <<>> /\ eventCh' = Tail(eventCh) /\ Head(eventCh) # "start" =>
                 (Queued("start") => Queued("start")')
  BY QueueSteps DEF Queued

\* A stop of an earlier life stays ahead of the wish of this one.
LEMMA StopFirstKept ==
    ASSUME QueueType
    PROVE  /\ Post("start") => StopFirst'
           /\ StopFirst /\ UNCHANGED eventCh => StopFirst'
           /\ \A e \in Events \ {"stop"} : StopFirst /\ (Post(e) \/ PostOrDrop(e)) => StopFirst'
           /\ StopFirst /\ eventCh # <<>> /\ eventCh' = Tail(eventCh) =>
                 StopFirst' /\ (Head(eventCh) = "stop" => Queued("start")')
  <1>1. eventCh \in Seq(Events) /\ Len(eventCh) \in Nat /\ DOMAIN eventCh = 1 .. Len(eventCh)
    BY LenProperties DEF QueueType
  <1>2. ASSUME Post("start")
        PROVE  StopFirst'
    <2>1. /\ DOMAIN eventCh' = 1 .. (Len(eventCh) + 1)
          /\ \A i \in DOMAIN eventCh : eventCh'[i] = eventCh[i]
          /\ eventCh'[Len(eventCh) + 1] = "start"
      BY <1>1, <1>2, AppendPositions DEF Post, Events
    <2> QED
      BY <1>1, <2>1 DEF StopFirst
  <1>3. ASSUME StopFirst, NEW e \in Events \ {"stop"}, eventCh' = Append(eventCh, e)
        PROVE  StopFirst'
    <2>1. /\ DOMAIN eventCh' = 1 .. (Len(eventCh) + 1)
          /\ \A i \in DOMAIN eventCh : eventCh'[i] = eventCh[i]
          /\ eventCh'[Len(eventCh) + 1] = e
      BY <1>1, <1>3, AppendPositions
    <2>2. ASSUME NEW i \in DOMAIN eventCh', eventCh'[i] = "stop"
          PROVE  \E j \in DOMAIN eventCh' : j > i /\ eventCh'[j] = "start"
      <3>1. i \in DOMAIN eventCh /\ eventCh[i] = "stop"
        BY <1>1, <2>1, <2>2
      <3>2. PICK j \in DOMAIN eventCh : j > i /\ eventCh[j] = "start"
        BY <1>3, <3>1 DEF StopFirst
      <3> QED
        BY <1>1, <2>1, <3>2
    <2> QED
      BY <2>2 DEF StopFirst
  <1>4. StopFirst /\ UNCHANGED eventCh => StopFirst'
    BY DEF StopFirst
  <1>5. ASSUME StopFirst, eventCh # <<>>, eventCh' = Tail(eventCh)
        PROVE  StopFirst' /\ (Head(eventCh) = "stop" => Queued("start")')
    <2>1. /\ Head(eventCh) = eventCh[1] /\ DOMAIN eventCh' = 1 .. (Len(eventCh) - 1)
          /\ Len(eventCh) \in Nat \ {0}
          /\ \A i \in DOMAIN eventCh' : eventCh'[i] = eventCh[i + 1] /\ i + 1 \in DOMAIN eventCh
      BY <1>1, <1>5, TailPositions
    <2>2. ASSUME NEW j \in DOMAIN eventCh, j > 1
          PROVE  j - 1 \in DOMAIN eventCh' /\ eventCh'[j - 1] = eventCh[j]
      <3>1. j - 1 \in DOMAIN eventCh' /\ (j - 1) + 1 = j
        BY <1>1, <2>1, <2>2
      <3> QED
        BY <2>1, <3>1
    <2>3. ASSUME NEW i \in DOMAIN eventCh', eventCh'[i] = "stop"
          PROVE  \E j \in DOMAIN eventCh' : j > i /\ eventCh'[j] = "start"
      <3>1. i + 1 \in DOMAIN eventCh /\ eventCh[i + 1] = "stop" /\ i \in Nat \ {0}
        BY <2>1, <2>3
      <3>2. PICK j \in DOMAIN eventCh : j > i + 1 /\ eventCh[j] = "start"
        BY <1>5, <3>1 DEF StopFirst
      <3>3. j > 1 /\ j - 1 > i
        BY <1>1, <3>1, <3>2
      <3> QED
        BY <2>2, <3>2, <3>3
    <2>4. ASSUME Head(eventCh) = "stop"
          PROVE  Queued("start")'
      <3>1. 1 \in DOMAIN eventCh /\ eventCh[1] = "stop"
        BY <1>1, <2>1, <2>4
      <3>2. PICK j \in DOMAIN eventCh : j > 1 /\ eventCh[j] = "start"
        BY <1>5, <3>1 DEF StopFirst
      <3>3. j - 1 \in DOMAIN eventCh' /\ eventCh'[j - 1] = "start"
        BY <2>2, <3>2
      <3> QED
        BY <3>3 DEF Queued, ToSet
    <2> QED
      BY <2>3, <2>4 DEF StopFirst
  <1> QED
    BY <1>2, <1>3, <1>4, <1>5 DEF Post, PostOrDrop

\* A wish that is kept through a hang-up or a recovery is pursued.
LEMMA KeptIsPursued ==
    /\ RestType /\ LoopKnows /\ WishKept /\ desired /\ pc[Loop] \in Rebuilding => Pursued
    /\ RestType' /\ LoopKnows' /\ WishKept' /\ desired' /\ pc'[Loop] \in Rebuilding => Pursued'
  <1>1. (Requested => Pursued) /\ (Requested' => Pursued')
    BY ProcsApart DEF Requested, Pursued, At
  <1>2. RestType /\ LoopKnows /\ pc[Loop] \in Rebuilding /\ want => Pursued
    BY DEF RestType, LoopKnows, Rebuilding, Pursued, Recovering, HangingUp, At, HangUpLabels,
           RecoverLabels
  <1>3. RestType' /\ LoopKnows' /\ pc'[Loop] \in Rebuilding /\ want' => Pursued'
    BY DEF RestType, LoopKnows, Rebuilding, Pursued, Recovering, HangingUp, At, HangUpLabels,
           RecoverLabels
  <1> QED
    BY <1>1, <1>2, <1>3 DEF WishKept

\* The wish is tracked through dialling and hanging up.
LEMMA WorkWish ==
    LifecycleInv /\ LifecycleInv' /\ Calm /\ Calm' /\ Wish
        /\ (\E p \in Users \cup {Loop} : DialStep(p) \/ HangUpStep(p))
       => Held' /\ WishKept' /\ StopPrecedes'
  <1> SUFFICES ASSUME LifecycleInv, LifecycleInv', Calm, Calm', Wish,
                      NEW p \in Users \cup {Loop}, DialStep(p) \/ HangUpStep(p)
               PROVE  Held' /\ WishKept' /\ StopPrecedes'
    OBVIOUS
  <1>1. QueueType /\ FlagsType /\ RestType /\ PlacesInv /\ PhasesInv
    BY TypesSplit DEF LifecycleInv, Types
  <1>2. UsersAside /\ DesiredWhenRunning /\ NothingLeft /\ NothingYet /\ WhoConnects /\ LoopKnows
        /\ Held /\ WishKept /\ StopPrecedes
    BY DEF Calm, Wish
  <1>3. Held'
    BY <1>1, <1>2, ProcsApart
       DEF DialStep, DialBegin, Dial, Answered, Configure, DialSucceeds, DialFails,
           ScheduleReconnect, HangUpStep, HangUp, HungUp, Return, connVars, timerVars, procVars,
           RestType, FlagsType, Goto, At, Held, HangingUp, UsersAside, DesiredWhenRunning,
           NothingLeft, NothingYet, WhoConnects, LoopKnows, Beginning, Running, Unclean,
           AirLabels, DialLabels, HangUpLabels, RecoverLabels
  <1>4. /\ p = Loop /\ pc[Loop] \in DialLabels \cup HangUpLabels
        /\ UNCHANGED <<desired, eventCh, after, want>>
    BY <1>1, <1>2, WorkFrame
  <1>5. pc'[Owner] = pc[Owner]
    BY <1>1, <1>2, WorkFrame, ProcsApart
  <1>6. WishKept'
    <2>1. Requested => Requested'
      BY <1>4, <1>5 DEF Requested, Queued
    <2>2. CASE pc[Loop] \in HangUpLabels
      BY <1>2, <1>4, <2>1, <2>2 DEF WishKept, Rebuilding
    <2>3. CASE pc[Loop] \in DialLabels
      <3>1. after = "idle"
        BY <1>1, <2>3 DEF PlacesInv, DialLabels, AirLabels, HangUpLabels
      <3>2. pc'[Loop] \in DialLabels \cup {"idle"}
        <4>1. CASE HangUpStep(p)
          BY <1>4, <2>3, <4>1 DEF HangUpStep, HangUp, HungUp, At, DialLabels, AirLabels
        <4>2. CASE DialStep(p)
          BY <1>1, <1>4, <3>1, <4>2, ProcsApart
             DEF DialStep, DialBegin, Dial, Answered, Configure, DialSucceeds, DialFails,
                 ScheduleReconnect, Return, Goto, RestType, DialLabels, AirLabels
        <4> QED
          BY <4>1, <4>2
      <3> QED
        BY <3>2 DEF WishKept, Rebuilding, DialLabels, AirLabels, HangUpLabels, RecoverLabels
    <2> QED
      BY <1>4, <2>2, <2>3
  <1>7. StopPrecedes'
    BY <1>2, <1>4, <1>5 DEF StopPrecedes, StopFirst
  <1> QED
    BY <1>3, <1>6, <1>7

\* The wish is tracked through Start.
LEMMA StartWish ==
    LifecycleInv /\ LifecycleInv' /\ Calm /\ Calm' /\ Wish /\ (StartBegin \/ StartStep)
       => Held' /\ WishKept' /\ StopPrecedes'
  <1> SUFFICES ASSUME LifecycleInv, LifecycleInv', Calm, Calm', Wish, StartBegin \/ StartStep
               PROVE  Held' /\ WishKept' /\ StopPrecedes'
    OBVIOUS
  <1>1. QueueType /\ FlagsType /\ RestType /\ PlacesInv /\ PhasesInv
    BY TypesSplit DEF LifecycleInv, Types
  <1>2. UsersAside /\ DesiredWhenRunning /\ NothingLeft /\ NothingYet /\ WhoConnects /\ LoopKnows
        /\ Held /\ WishKept /\ StopPrecedes
    BY DEF Calm, Wish
  <1>3. Held'
    BY <1>1, <1>2, ProcsApart
       DEF StartBegin, StartStep, StartOpens, StartFails, StartLaunches, StartReady, StartEnds,
           StartDials, PostStart, Cleanup, StopTimers, connVars, timerVars, procVars, RestType,
           FlagsType, Goto, At, Held, HangingUp, UsersAside, DesiredWhenRunning, NothingLeft,
           NothingYet, WhoConnects, LoopKnows, Beginning, Running, Unclean, AirLabels,
           DialLabels, HangUpLabels, RecoverLabels
  <1>4. WishKept'
    BY <1>1, <1>2, ProcsApart, QueuedKept
       DEF StartBegin, StartStep, StartOpens, StartFails, StartLaunches, StartReady, StartEnds,
           StartDials, PostStart, Cleanup, StopTimers, connVars, timerVars, procVars, RestType,
           Goto, At, WishKept, Requested, Rebuilding, DesiredWhenRunning, PlacesInv, Beginning,
           HangUpLabels, RecoverLabels, Events
  <1>5. StopPrecedes'
    BY <1>1, <1>2, ProcsApart, StopFirstKept
       DEF StartBegin, StartStep, StartOpens, StartFails, StartLaunches, StartReady, StartEnds,
           StartDials, PostStart, Cleanup, StopTimers, connVars, timerVars, procVars, RestType,
           Goto, At, StopPrecedes, DesiredWhenRunning, Beginning, Events
  <1> QED
    BY <1>3, <1>4, <1>5

\* The wish is tracked through Stop.
LEMMA StopWish ==
    LifecycleInv /\ LifecycleInv' /\ Calm /\ Calm' /\ Wish /\ (StopBegin \/ StopStep)
       => Held' /\ WishKept' /\ StopPrecedes'
  <1> SUFFICES ASSUME LifecycleInv, LifecycleInv', Calm, Calm', Wish, StopBegin \/ StopStep
               PROVE  Held' /\ WishKept' /\ StopPrecedes'
    OBVIOUS
  <1>1. QueueType /\ FlagsType /\ RestType /\ PlacesInv /\ PhasesInv
    BY TypesSplit DEF LifecycleInv, Types
  <1>2. UsersAside /\ DesiredWhenRunning /\ NothingLeft /\ NothingYet /\ WhoConnects /\ LoopKnows
        /\ Held /\ WishKept /\ StopPrecedes
    BY DEF Calm, Wish
  <1>3. Held'
    BY <1>1, <1>2, ProcsApart
       DEF StopBegin, StopStep, StopCancels, StopPosts, StopCleans, Stopped, Cleanup,
           StopTimers, connVars, timerVars, procVars, RestType, FlagsType, Goto, At, Held,
           HangingUp, UsersAside, DesiredWhenRunning, NothingLeft, NothingYet, WhoConnects,
           LoopKnows, Beginning, Running, Unclean, AirLabels, DialLabels, HangUpLabels,
           RecoverLabels
  <1>4. WishKept'
    BY <1>1, <1>2, ProcsApart, QueuedKept
       DEF StopBegin, StopStep, StopCancels, StopPosts, StopCleans, Stopped, Cleanup,
           StopTimers, connVars, timerVars, procVars, RestType, Goto, At, WishKept, Requested,
           Rebuilding, DesiredWhenRunning, PlacesInv, Beginning, HangUpLabels, RecoverLabels,
           Events
  <1>5. StopPrecedes'
    BY <1>1, <1>2, ProcsApart, StopFirstKept
       DEF StopBegin, StopStep, StopCancels, StopPosts, StopCleans, Stopped, Cleanup,
           StopTimers, connVars, timerVars, procVars, RestType, Goto, At, StopPrecedes,
           DesiredWhenRunning, Beginning, Events
  <1> QED
    BY <1>3, <1>4, <1>5

\* The wish is tracked through the loop's taking of an event, and its posts.
LEMMA QueueWish ==
    LifecycleInv /\ LifecycleInv' /\ Calm /\ Calm' /\ Wish
        /\ (TakeEvent \/ PostCheck \/ PostStart(Loop) \/ LoopExits(Loop) \/ Tick)
       => Held' /\ WishKept' /\ StopPrecedes'
  <1> SUFFICES ASSUME LifecycleInv, LifecycleInv', Calm, Calm', Wish,
                      TakeEvent \/ PostCheck \/ PostStart(Loop) \/ LoopExits(Loop) \/ Tick
               PROVE  Held' /\ WishKept' /\ StopPrecedes'
    OBVIOUS
  <1>1. QueueType /\ FlagsType /\ RestType /\ PlacesInv /\ PhasesInv
    BY TypesSplit DEF LifecycleInv, Types
  <1>2. UsersAside /\ DesiredWhenRunning /\ NothingLeft /\ NothingYet /\ WhoConnects /\ LoopKnows
        /\ Held /\ WishKept /\ StopPrecedes
    BY DEF Calm, Wish
  <1>3. Held'
    BY <1>1, <1>2, ProcsApart
       DEF TakeEvent, PostCheck, PostStart, LoopExits, Tick, Stimulus, HandlerOf, connVars,
           timerVars, procVars, RestType, FlagsType, Goto, At, Held, HangingUp, UsersAside,
           DesiredWhenRunning, NothingLeft, NothingYet, WhoConnects, LoopKnows, Beginning,
           Running, Unclean, AirLabels, DialLabels, HangUpLabels, RecoverLabels
  <1>4. WishKept'
    <2>1. PICK l \in {"idle", "off", "tick", "connect", "hangup", "check", "reset"} :
             Goto(Loop, l) /\ (l = "hangup" => TakeEvent /\ Head(eventCh) = "stop")
      <3>1. ASSUME TakeEvent
            PROVE  /\ HandlerOf(Head(eventCh)) \in {"idle", "connect", "hangup", "check", "reset"}
                   /\ HandlerOf(Head(eventCh)) = "hangup" => Head(eventCh) = "stop"
        BY <1>1, <3>1, QueueSteps DEF TakeEvent, HandlerOf, Events
      <3> QED
        BY <3>1 DEF TakeEvent, PostCheck, PostStart, LoopExits, Tick
    <2>2. pc'[Loop] = l /\ pc'[Owner] = pc[Owner] /\ UNCHANGED desired
      BY <1>1, <2>1, GotoFacts, ProcsApart
         DEF TakeEvent, PostCheck, PostStart, LoopExits, Tick, connVars
    <2>3. ASSUME l = "hangup", desired
          PROVE  Requested'
      <3>1. TakeEvent /\ Head(eventCh) = "stop" /\ (pc[Owner] = "postStart" \/ StopFirst)
        BY <1>2, <2>1, <2>3 DEF StopPrecedes
      <3>2. StopFirst => Queued("start")'
        BY <1>1, <3>1, StopFirstKept DEF TakeEvent
      <3> QED
        BY <2>2, <3>1, <3>2 DEF Requested
    <2> QED
      BY <2>2, <2>3 DEF WishKept, Rebuilding, HangUpLabels, RecoverLabels
  <1>5. StopPrecedes'
    BY <1>1, <1>2, ProcsApart, StopFirstKept
       DEF TakeEvent, PostCheck, PostStart, LoopExits, Tick, Stimulus, HandlerOf, connVars,
           timerVars, procVars, RestType, Goto, At, StopPrecedes, DesiredWhenRunning, Beginning,
           Events
  <1> QED
    BY <1>3, <1>4, <1>5

\* The wish is tracked through a status check.
LEMMA CheckWish ==
    LifecycleInv /\ LifecycleInv' /\ Calm /\ Calm' /\ Wish /\ CheckStep
       => Held' /\ WishKept' /\ StopPrecedes'
  <1> SUFFICES ASSUME LifecycleInv, LifecycleInv', Calm, Calm', Wish, CheckStep
               PROVE  Held' /\ WishKept' /\ StopPrecedes'
    OBVIOUS
  <1>1. QueueType /\ FlagsType /\ RestType /\ PlacesInv /\ PhasesInv
    BY TypesSplit DEF LifecycleInv, Types
  <1>2. UsersAside /\ DesiredWhenRunning /\ NothingLeft /\ NothingYet /\ WhoConnects /\ LoopKnows
        /\ Held /\ WishKept /\ StopPrecedes
    BY DEF Calm, Wish
  <1>3. Held'
    BY <1>1, <1>2, ProcsApart
       DEF CheckStep, CheckBegin, CheckQueries, CheckRestores, CheckRedials, CheckLoses,
           CheckReconnects, Done, connVars, timerVars, procVars, RestType, FlagsType, Goto, At,
           Held, HangingUp, UsersAside, DesiredWhenRunning, NothingLeft, NothingYet,
           WhoConnects, LoopKnows, Beginning, Running, Unclean, AirLabels, DialLabels,
           HangUpLabels, RecoverLabels
  <1>4. WishKept'
    BY <1>1, <1>2, ProcsApart, QueuedKept
       DEF CheckStep, CheckBegin, CheckQueries, CheckRestores, CheckRedials, CheckLoses,
           CheckReconnects, Done, connVars, timerVars, procVars, RestType, Goto, At, WishKept,
           Requested, Rebuilding, DesiredWhenRunning, PlacesInv, Beginning, HangUpLabels,
           RecoverLabels, Events
  <1>5. StopPrecedes'
    BY <1>1, <1>2, ProcsApart, StopFirstKept
       DEF CheckStep, CheckBegin, CheckQueries, CheckRestores, CheckRedials, CheckLoses,
           CheckReconnects, Done, connVars, timerVars, procVars, RestType, Goto, At,
           StopPrecedes, DesiredWhenRunning, Beginning, Events
  <1> QED
    BY <1>3, <1>4, <1>5

\* The wish is tracked through a recovery.
LEMMA RecoverWish ==
    LifecycleInv /\ LifecycleInv' /\ Calm /\ Calm' /\ Wish /\ RecoverStep
       => Held' /\ WishKept' /\ StopPrecedes'
  <1> SUFFICES ASSUME LifecycleInv, LifecycleInv', Calm, Calm', Wish, RecoverStep
               PROVE  Held' /\ WishKept' /\ StopPrecedes'
    OBVIOUS
  <1>1. QueueType /\ FlagsType /\ RestType /\ PlacesInv /\ PhasesInv
    BY TypesSplit DEF LifecycleInv, Types
  <1>2. UsersAside /\ DesiredWhenRunning /\ NothingLeft /\ NothingYet /\ WhoConnects /\ LoopKnows
        /\ Held /\ WishKept /\ StopPrecedes
    BY DEF Calm, Wish
  <1>3. Held'
    BY <1>1, <1>2, ProcsApart
       DEF RecoverStep, RecoverBegin, RecoverCleans, RecoverOpens, RecoverFails, RecoverUnquiet,
           RecoverReady, RecoverEnds, Done, Cleanup, StopTimers, connVars, timerVars, procVars,
           RestType, FlagsType, Goto, At, Held, HangingUp, UsersAside, DesiredWhenRunning,
           NothingLeft, NothingYet, WhoConnects, LoopKnows, Beginning, Running, Unclean,
           AirLabels, DialLabels, HangUpLabels, RecoverLabels
  <1>4. WishKept'
    BY <1>1, <1>2, ProcsApart, QueuedKept
       DEF RecoverStep, RecoverBegin, RecoverCleans, RecoverOpens, RecoverFails, RecoverUnquiet,
           RecoverReady, RecoverEnds, Done, Cleanup, StopTimers, connVars, timerVars, procVars,
           RestType, Goto, At, WishKept, Requested, Rebuilding, DesiredWhenRunning, PlacesInv,
           Beginning, HangUpLabels, RecoverLabels, Events
  <1>5. StopPrecedes'
    BY <1>1, <1>2, ProcsApart, StopFirstKept
       DEF RecoverStep, RecoverBegin, RecoverCleans, RecoverOpens, RecoverFails, RecoverUnquiet,
           RecoverReady, RecoverEnds, Done, Cleanup, StopTimers, connVars, timerVars, procVars,
           RestType, Goto, At, StopPrecedes, DesiredWhenRunning, Beginning, Events
  <1> QED
    BY <1>3, <1>4, <1>5

\* The wish is tracked through the retry timers.
LEMMA TimerWish ==
    LifecycleInv /\ LifecycleInv' /\ Calm /\ Calm' /\ Wish /\ TimerStep
       => Held' /\ WishKept' /\ StopPrecedes'
  <1> SUFFICES ASSUME LifecycleInv, LifecycleInv', Calm, Calm', Wish, TimerStep
               PROVE  Held' /\ WishKept' /\ StopPrecedes'
    OBVIOUS
  <1>1. QueueType /\ FlagsType /\ RestType /\ PlacesInv /\ PhasesInv
    BY TypesSplit DEF LifecycleInv, Types
  <1>2. UsersAside /\ DesiredWhenRunning /\ NothingLeft /\ NothingYet /\ WhoConnects /\ LoopKnows
        /\ Held /\ WishKept /\ StopPrecedes
    BY DEF Calm, Wish
  <1>3. Held'
    BY <1>1, <1>2, ProcsApart
       DEF TimerStep, ReconnectFires, ReconnectSends, CheckFires, RetryFires, connVars,
           timerVars, procVars, RestType, FlagsType, Goto, At, Held, HangingUp, UsersAside,
           DesiredWhenRunning, NothingLeft, NothingYet, WhoConnects, LoopKnows, Beginning,
           Running, Unclean, AirLabels, DialLabels, HangUpLabels, RecoverLabels
  <1>4. WishKept'
    BY <1>1, <1>2, ProcsApart, QueuedKept
       DEF TimerStep, ReconnectFires, ReconnectSends, CheckFires, RetryFires, connVars,
           timerVars, procVars, RestType, Goto, At, WishKept, Requested, Rebuilding,
           DesiredWhenRunning, PlacesInv, Beginning, HangUpLabels, RecoverLabels, Events
  <1>5. StopPrecedes'
    BY <1>1, <1>2, ProcsApart, StopFirstKept
       DEF TimerStep, ReconnectFires, ReconnectSends, CheckFires, RetryFires, connVars,
           timerVars, procVars, RestType, Goto, At, StopPrecedes, DesiredWhenRunning, Beginning,
           Events
  <1> QED
    BY <1>3, <1>4, <1>5

\* The wish is tracked through the indication handler.
LEMMA HandlerWish ==
    LifecycleInv /\ LifecycleInv' /\ Calm /\ Calm' /\ Wish /\ (Indication \/ HandlerStep)
       => Held' /\ WishKept' /\ StopPrecedes'
  <1> SUFFICES ASSUME LifecycleInv, LifecycleInv', Calm, Calm', Wish, Indication \/ HandlerStep
               PROVE  Held' /\ WishKept' /\ StopPrecedes'
    OBVIOUS
  <1>1. QueueType /\ FlagsType /\ RestType /\ PlacesInv /\ PhasesInv
    BY TypesSplit DEF LifecycleInv, Types
  <1>2. UsersAside /\ DesiredWhenRunning /\ NothingLeft /\ NothingYet /\ WhoConnects /\ LoopKnows
        /\ Held /\ WishKept /\ StopPrecedes
    BY DEF Calm, Wish
  <1>3. Held'
    BY <1>1, <1>2, ProcsApart
       DEF Indication, HandlerStep, PostIndication, LoopExits, Stimulus, connVars, timerVars,
           procVars, RestType, FlagsType, Goto, At, Held, HangingUp, UsersAside,
           DesiredWhenRunning, NothingLeft, NothingYet, WhoConnects, LoopKnows, Beginning,
           Running, Unclean, AirLabels, DialLabels, HangUpLabels, RecoverLabels
  <1>4. WishKept'
    BY <1>1, <1>2, ProcsApart, QueuedKept
       DEF Indication, HandlerStep, PostIndication, LoopExits, Stimulus, connVars, timerVars,
           procVars, RestType, Goto, At, WishKept, Requested, Rebuilding, DesiredWhenRunning,
           PlacesInv, Beginning, HangUpLabels, RecoverLabels, Events
  <1>5. StopPrecedes'
    BY <1>1, <1>2, ProcsApart, StopFirstKept
       DEF Indication, HandlerStep, PostIndication, LoopExits, Stimulus, connVars, timerVars,
           procVars, RestType, Goto, At, StopPrecedes, DesiredWhenRunning, Beginning, Events
  <1> QED
    BY <1>3, <1>4, <1>5

\* The wish is tracked through what the modem does and a step that changes nothing.
LEMMA ModemWish ==
    LifecycleInv /\ LifecycleInv' /\ Calm /\ Calm' /\ Wish
        /\ (ResetReported \/ CallChanges \/ UNCHANGED vars)
       => Held' /\ WishKept' /\ StopPrecedes'
  <1> SUFFICES ASSUME LifecycleInv, LifecycleInv', Calm, Calm', Wish,
                      ResetReported \/ CallChanges \/ UNCHANGED vars
               PROVE  Held' /\ WishKept' /\ StopPrecedes'
    OBVIOUS
  <1>1. QueueType /\ FlagsType /\ RestType /\ PlacesInv /\ PhasesInv
    BY TypesSplit DEF LifecycleInv, Types
  <1>2. UsersAside /\ DesiredWhenRunning /\ NothingLeft /\ NothingYet /\ WhoConnects /\ LoopKnows
        /\ Held /\ WishKept /\ StopPrecedes
    BY DEF Calm, Wish
  <1>3. Held'
    BY <1>1, <1>2, ProcsApart
       DEF ResetReported, CallChanges, Stimulus, vars, connVars, timerVars, procVars, RestType,
           FlagsType, Goto, At, Held, HangingUp, UsersAside, DesiredWhenRunning, NothingLeft,
           NothingYet, WhoConnects, LoopKnows, Beginning, Running, Unclean, AirLabels,
           DialLabels, HangUpLabels, RecoverLabels
  <1>4. WishKept'
    BY <1>1, <1>2, ProcsApart, QueuedKept
       DEF ResetReported, CallChanges, Stimulus, vars, connVars, timerVars, procVars, RestType,
           Goto, At, WishKept, Requested, Rebuilding, DesiredWhenRunning, PlacesInv, Beginning,
           HangUpLabels, RecoverLabels, Events
  <1>5. StopPrecedes'
    BY <1>1, <1>2, ProcsApart, StopFirstKept
       DEF ResetReported, CallChanges, Stimulus, vars, connVars, timerVars, procVars, RestType,
           Goto, At, StopPrecedes, DesiredWhenRunning, Beginning, Events
  <1> QED
    BY <1>3, <1>4, <1>5

\* A wish that needs nothing more of the loop than to go on taking events.
Awaited == Requested \/ armed > 0 \/ sending > 0

\* Each carrier of the wish, by name.
LEMMA WhoPursues ==
    /\ Awaited' => Pursued'
    /\ pc'[Loop] \in DialLabels \cup {"postStart"} => Pursued'
    /\ PlacesInv /\ UsersAside /\ LoopKnows /\ Pursued =>
          Awaited \/ pc[Loop] \in DialLabels \cup {"postStart"} \cup Rebuilding
  <1>1. Awaited' => Pursued'
    BY ProcsApart DEF Awaited, Requested, Pursued, At
  <1>2. pc'[Loop] \in DialLabels \cup {"postStart"} => Pursued'
    BY ProcsApart DEF Pursued, Dialing, OnTheAir, At, DialLabels, AirLabels
  <1>3. ASSUME PlacesInv, UsersAside, NEW p \in Procs, Dialing(p) \/ At(p, "postStart")
        PROVE  pc[Owner] = "postStart" \/ pc[Loop] \in DialLabels \cup {"postStart"}
    BY <1>3, ProcsApart
       DEF PlacesInv, UsersAside, Dialing, OnTheAir, At, DialLabels, AirLabels, Running, Unclean
  <1>4. At(Loop, "recheck") \/ Recovering \/ (HangingUp(Loop) /\ after = "recheck") =>
           pc[Loop] \in Rebuilding \cup {"reset"}
    BY DEF Recovering, HangingUp, At, Rebuilding, HangUpLabels, RecoverLabels
  <1>5. LoopKnows /\ want => pc[Loop] # "reset"
    BY DEF LoopKnows, RecoverLabels, HangUpLabels
  <1> QED
    BY <1>1, <1>2, <1>3, <1>4, <1>5 DEF Awaited, Requested, Pursued

\* A wish stays pursued while its carriers go on carrying.
LEMMA PursuedKept ==
    ASSUME PlacesInv, UsersAside, LoopKnows, RestType', LoopKnows', WishKept', desired',
           pc'[Loop] = pc[Loop], pc'[Owner] = pc[Owner], armed' = armed, sending' = sending,
           Queued("start") => Queued("start")', Pursued
    PROVE  Pursued'
  <1>1. Awaited => Awaited'
    BY DEF Awaited, Requested
  <1> QED
    BY <1>1, WhoPursues, KeptIsPursued

\* The wish stays pursued through dialling and hanging up.
LEMMA WorkPursued ==
    ASSUME LifecycleInv, Calm, Wish, LifecycleInv', LoopKnows', WishKept',
           NEW p \in Users \cup {Loop}, DialStep(p) \/ HangUpStep(p)
    PROVE  WishPursued'
  <1> SUFFICES ASSUME desired', state' = "Disconnected"
               PROVE  Pursued'
    BY DEF WishPursued
  <1>1. FlagsType /\ RestType /\ RestType' /\ PlacesInv
    BY TypesSplit DEF LifecycleInv, Types
  <1>2. p = Loop
    BY DEF Calm, UsersAside, DialStep, DialBegin, Dial, Answered, Configure, DialSucceeds,
           DialFails, ScheduleReconnect, HangUpStep, HangUp, HungUp, At
  <1>3. CASE DialBegin(p)
    BY <1>3 DEF DialBegin, DialRefused
  <1>4. CASE Dial(p) \/ Answered(p) \/ Configure(p) \/ DialFails(p)
    <2>1. PICK l \in DialLabels : Goto(Loop, l)
      BY <1>2, <1>4 DEF Dial, Answered, Configure, DialFails, DialLabels, AirLabels
    <2> QED
      BY <1>1, <2>1, GotoFacts, ProcsApart, WhoPursues
  <1>5. CASE ScheduleReconnect(p)
    <2>1. armed' > 0
      BY <1>1, <1>5 DEF ScheduleReconnect, connVars, RestType
    <2> QED
      BY <2>1, WhoPursues DEF Awaited
  <1>6. CASE HangUp(p)
    <2>1. pc'[Loop] = "hungup"
      BY <1>1, <1>2, <1>6, GotoFacts, ProcsApart DEF HangUp
    <2> QED
      BY <1>1, <2>1, KeptIsPursued DEF Rebuilding, HangUpLabels
  <1>7. CASE HungUp(p)
    <2>1. /\ pc[Loop] = "hungup" /\ pc'[Loop] = after /\ pc'[Owner] = pc[Owner]
          /\ after \in {"idle", "recheck", "cleanup"} /\ UNCHANGED <<desired, eventCh>>
      BY <1>1, <1>2, <1>7, GotoFacts, ProcsApart DEF HungUp, Return, At, RestType
    <2>2. CASE after = "idle"
      <3>1. ~want
        BY <2>1, <2>2 DEF Calm, LoopKnows, RecoverLabels
      <3>2. Requested
        BY <2>1, <3>1 DEF Wish, WishKept, Rebuilding, HangUpLabels
      <3> QED
        BY <2>1, <3>2, WhoPursues DEF Awaited, Requested, Queued
    <2>3. CASE after # "idle"
      BY <1>1, <2>1, <2>3, KeptIsPursued DEF Rebuilding, RecoverLabels
    <2> QED
      BY <2>2, <2>3
  <1>8. ~DialSucceeds(p)
    BY DEF DialSucceeds
  <1> QED
    BY <1>3, <1>4, <1>5, <1>6, <1>7, <1>8 DEF DialStep, HangUpStep

\* The wish stays pursued through Start and Stop.
LEMMA OwnerPursued ==
    ASSUME LifecycleInv, Calm, StartBegin \/ StartStep \/ StopBegin \/ StopStep
    PROVE  WishPursued'
  <1>1. QueueType /\ FlagsType /\ RestType
    BY TypesSplit DEF LifecycleInv, Types
  <1>2. CASE StartDials
    <2>1. pc'[Owner] = "postStart"
      BY <1>1, <1>2, GotoFacts, ProcsApart DEF StartDials
    <2> QED
      BY <2>1, WhoPursues DEF WishPursued, Awaited, Requested
  <1>3. CASE PostStart(Owner)
    <2>1. Queued("start")'
      BY <1>1, <1>3, QueuedKept DEF PostStart, Events
    <2> QED
      BY <2>1, WhoPursues DEF WishPursued, Awaited, Requested
  <1>4. ASSUME ~StartDials, ~PostStart(Owner)
        PROVE  ~desired'
    BY <1>1, <1>4
       DEF connVars, At, Stopped, StopCleans, StopPosts, StopCancels, StopStep, StopBegin,
           StartEnds, StartReady, StartLaunches, StartFails, StartOpens, StartStep, StartBegin,
           DesiredWhenRunning, Calm
  <1> QED
    BY <1>2, <1>3, <1>4 DEF WishPursued

\* The wish stays pursued through the loop's taking of an event, and its posts.
LEMMA QueuePursued ==
    ASSUME LifecycleInv, Calm, Wish, LifecycleInv', LoopKnows', WishKept',
           TakeEvent \/ PostCheck \/ PostStart(Loop) \/ LoopExits(Loop) \/ Tick
    PROVE  WishPursued'
  <1> SUFFICES ASSUME desired', coreReady', ctx' = "live", state' = "Disconnected"
               PROVE  Pursued'
    BY DEF WishPursued
  <1>1. QueueType /\ RestType /\ RestType' /\ PlacesInv /\ UsersAside /\ LoopKnows
    BY TypesSplit DEF LifecycleInv, Types, Calm
  <1>2. Pursued /\ UNCHANGED <<armed, sending>>
    BY DEF Wish, WishPursued, TakeEvent, PostCheck, PostStart, LoopExits, Tick, connVars,
           timerVars
  <1>3. CASE PostStart(Loop)
    BY <1>1, <1>3, QueuedKept, WhoPursues DEF PostStart, Events, Awaited, Requested
  <1>4. CASE TakeEvent /\ Head(eventCh) \in {"start", "stop"}
    <2>1. pc'[Loop] \in {"connect", "hangup"}
      BY <1>1, <1>4, GotoFacts, ProcsApart DEF TakeEvent, HandlerOf
    <2> QED
      BY <1>1, <2>1, WhoPursues, KeptIsPursued DEF DialLabels, Rebuilding, HangUpLabels
  <1>5. ASSUME (TakeEvent /\ Head(eventCh) \notin {"start", "stop"}) \/ PostCheck \/ Tick
        PROVE  Pursued'
    <2>1. pc[Loop] \in {"idle", "tick"}
      BY <1>5 DEF TakeEvent, PostCheck, Tick, At
    <2>2. Awaited
      BY <1>1, <1>2, <2>1, WhoPursues
         DEF DialLabels, AirLabels, Rebuilding, HangUpLabels, RecoverLabels
    <2>3. Queued("start") => Queued("start")'
      BY <1>1, <1>5, QueuedKept DEF TakeEvent, PostCheck, Tick, Events
    <2>4. PICK l : Goto(Loop, l)
      BY <1>5 DEF TakeEvent, PostCheck, Tick
    <2>5. pc'[Owner] = pc[Owner]
      BY <1>1, <2>4, GotoFacts, ProcsApart
    <2> QED
      BY <1>2, <2>2, <2>3, <2>5, WhoPursues DEF Awaited, Requested
  <1>6. ~LoopExits(Loop)
    BY DEF LoopExits
  <1> QED
    BY <1>3, <1>4, <1>5, <1>6

\* The wish stays pursued through a status check.
LEMMA CheckPursued ==
    ASSUME LifecycleInv, Calm, Wish, LifecycleInv', LoopKnows', WishKept', CheckStep
    PROVE  WishPursued'
  <1> SUFFICES ASSUME desired', coreReady', ctx' = "live", state' = "Disconnected"
               PROVE  Pursued'
    BY DEF WishPursued
  <1>1. RestType /\ RestType' /\ PlacesInv /\ UsersAside /\ LoopKnows
    BY TypesSplit DEF LifecycleInv, Types, Calm
  <1>2. /\ UNCHANGED <<desired, coreReady, ctx, eventCh, armed, sending>> /\ pc'[Owner] = pc[Owner]
    <2>1. PICK l : Goto(Loop, l)
      BY DEF CheckStep, CheckBegin, CheckQueries, CheckRestores, CheckRedials, CheckLoses,
             CheckReconnects, Done
    <2>2. pc'[Owner] = pc[Owner]
      BY <1>1, <2>1, GotoFacts, ProcsApart
    <2> QED
      BY <2>2
         DEF CheckStep, CheckBegin, CheckQueries, CheckRestores, CheckRedials, CheckLoses,
             CheckReconnects, connVars, timerVars
  <1>3. Awaited => Pursued'
    BY <1>2, WhoPursues DEF Awaited, Requested, Queued
  <1>4. CASE CheckBegin \/ CheckQueries \/ CheckRedials
    <2>1. Pursued
      BY <1>2, <1>4 DEF Wish, WishPursued, CheckBegin, CheckQueries, CheckRedials, connVars
    <2>2. pc[Loop] \in {"check", "query", "verify", "mismatch"}
      BY <1>4 DEF CheckBegin, CheckQueries, CheckRedials, At
    <2> QED
      BY <1>1, <1>3, <2>1, <2>2, WhoPursues
         DEF DialLabels, AirLabels, Rebuilding, HangUpLabels, RecoverLabels
  <1>5. CASE CheckLoses
    <2>1. pc'[Loop] = "recheck"
      BY <1>1, <1>5, GotoFacts, ProcsApart DEF CheckLoses
    <2> QED
      BY <1>1, <2>1, KeptIsPursued DEF Rebuilding
  <1>6. CASE CheckReconnects
    <2>1. want \/ Awaited
      BY <1>2, <1>6 DEF Wish, WishKept, CheckReconnects, At, Rebuilding, Awaited
    <2>2. ASSUME want
          PROVE  pc'[Loop] = "postStart"
      <3>1. Goto(Loop, "postStart")
        BY <1>6, <2>2 DEF CheckReconnects, connVars
      <3> QED
        BY <1>1, <3>1, GotoFacts, ProcsApart
    <2> QED
      BY <1>3, <2>1, <2>2, WhoPursues
  <1>7. ~CheckRestores
    BY DEF CheckRestores
  <1> QED
    BY <1>4, <1>5, <1>6, <1>7 DEF CheckStep

\* The wish stays pursued through a recovery.
LEMMA RecoverPursued ==
    ASSUME LifecycleInv, Calm, Wish, LifecycleInv', LoopKnows', WishKept', RecoverStep
    PROVE  WishPursued'
  <1> SUFFICES ASSUME desired', coreReady', ctx' = "live", state' = "Disconnected"
               PROVE  Pursued'
    BY DEF WishPursued
  <1>1. FlagsType /\ RestType /\ RestType' /\ PlacesInv /\ UsersAside /\ LoopKnows /\ WishKept
    BY TypesSplit DEF LifecycleInv, Types, Calm, Wish
  <1>2. UNCHANGED <<desired, ctx, eventCh, sending>> /\ pc'[Owner] = pc[Owner]
    <2>1. PICK l : Goto(Loop, l)
      BY DEF RecoverStep, RecoverBegin, RecoverCleans, RecoverOpens, RecoverFails,
             RecoverUnquiet, RecoverReady, RecoverEnds, Done
    <2>2. pc'[Owner] = pc[Owner]
      BY <1>1, <2>1, GotoFacts, ProcsApart
    <2> QED
      BY <2>2
         DEF RecoverStep, RecoverBegin, RecoverCleans, RecoverOpens, RecoverFails,
             RecoverUnquiet, RecoverReady, RecoverEnds, Cleanup, StopTimers, connVars, timerVars
  <1>3. Requested => Pursued'
    BY <1>2, WhoPursues DEF Awaited, Requested, Queued
  <1>4. CASE RecoverBegin
    <2>1. Pursued /\ pc[Loop] = "reset" /\ UNCHANGED <<armed, sending>>
      BY <1>4 DEF Wish, WishPursued, RecoverBegin, connVars, timerVars, At
    <2>2. Awaited
      BY <1>1, <2>1, WhoPursues
         DEF DialLabels, AirLabels, Rebuilding, HangUpLabels, RecoverLabels
    <2> QED
      BY <1>3, <2>1, <2>2, WhoPursues DEF Awaited
  <1>5. ~RecoverCleans
    BY DEF RecoverCleans, Cleanup
  <1>6. CASE RecoverOpens \/ RecoverReady
    <2>1. pc'[Loop] \in {"reopened", "recovered"}
      BY <1>1, <1>6, GotoFacts, ProcsApart DEF RecoverOpens, RecoverReady
    <2> QED
      BY <1>1, <2>1, KeptIsPursued DEF Rebuilding, RecoverLabels
  <1>7. CASE RecoverFails \/ RecoverUnquiet
    <2>1. pc[Loop] \in {"reopening", "reopened"} /\ UNCHANGED coreReady
      BY <1>7 DEF RecoverFails, RecoverUnquiet, connVars, At
    <2>2. ~want
      BY <1>1, <2>1 DEF LoopKnows
    <2> QED
      BY <1>1, <1>2, <1>3, <2>1, <2>2 DEF WishKept, Rebuilding, RecoverLabels
  <1>8. CASE RecoverEnds
    <2>1. pc[Loop] = "recovered" /\ (want => armed' = armed + 1)
      BY <1>8 DEF RecoverEnds, At
    <2>2. want => armed' > 0
      BY <1>1, <2>1 DEF RestType
    <2>3. want => Pursued'
      BY <2>2, WhoPursues DEF Awaited
    <2> QED
      BY <1>1, <1>2, <1>3, <2>1, <2>3 DEF WishKept, Rebuilding, RecoverLabels
  <1> QED
    BY <1>4, <1>5, <1>6, <1>7, <1>8 DEF RecoverStep

\* The wish stays pursued through the retry timers.
LEMMA TimerPursued ==
    ASSUME LifecycleInv, Calm, Wish, LifecycleInv', LoopKnows', WishKept', TimerStep
    PROVE  WishPursued'
  <1> SUFFICES ASSUME desired', coreReady', ctx' = "live", state' = "Disconnected"
               PROVE  Pursued'
    BY DEF WishPursued
  <1>1. QueueType /\ RestType /\ RestType' /\ PlacesInv /\ UsersAside /\ LoopKnows
    BY TypesSplit DEF LifecycleInv, Types, Calm
  <1>2. Pursued /\ UNCHANGED <<ctx, procVars>>
    BY DEF Wish, WishPursued, TimerStep, ReconnectFires, ReconnectSends, CheckFires, RetryFires,
           connVars
  <1>3. CASE ReconnectFires
    <2>1. sending' > 0
      BY <1>1, <1>2, <1>3 DEF ReconnectFires, RestType
    <2> QED
      BY <2>1, WhoPursues DEF Awaited
  <1>4. CASE ReconnectSends
    BY <1>1, <1>4, QueuedKept, WhoPursues DEF ReconnectSends, Events, Awaited, Requested
  <1>5. CASE CheckFires \/ RetryFires
    <2>1. Queued("start") => Queued("start")'
      BY <1>1, <1>5, QueuedKept DEF CheckFires, RetryFires, Events
    <2>2. UNCHANGED <<armed, sending, pc>>
      BY <1>5 DEF CheckFires, RetryFires, procVars
    <2> QED
      BY <1>1, <1>2, <2>1, <2>2, PursuedKept
  <1> QED
    BY <1>3, <1>4, <1>5 DEF TimerStep

\* The wish stays pursued through the indication handler and the modem.
LEMMA OthersPursued ==
    ASSUME LifecycleInv, Calm, Wish, LifecycleInv', LoopKnows', WishKept',
           Indication \/ HandlerStep \/ ResetReported \/ CallChanges \/ UNCHANGED vars
    PROVE  WishPursued'
  <1> SUFFICES ASSUME desired', coreReady', ctx' = "live", state' = "Disconnected"
               PROVE  Pursued'
    BY DEF WishPursued
  <1>1. QueueType /\ RestType /\ RestType' /\ PlacesInv /\ UsersAside /\ LoopKnows
    BY TypesSplit DEF LifecycleInv, Types, Calm
  <1>2. Pursued /\ UNCHANGED <<armed, sending>>
    BY DEF Wish, WishPursued, Indication, HandlerStep, PostIndication, LoopExits, ResetReported,
           CallChanges, vars, connVars, timerVars
  <1>3. Queued("start") => Queued("start")'
    BY <1>1, QueuedKept
       DEF Indication, HandlerStep, PostIndication, LoopExits, ResetReported, CallChanges, vars,
           Events
  <1>4. pc'[Loop] = pc[Loop] /\ pc'[Owner] = pc[Owner]
    <2>1. (\E l : Goto(Handler, l)) \/ UNCHANGED pc
      BY DEF Indication, HandlerStep, PostIndication, LoopExits, ResetReported, CallChanges,
             vars, procVars
    <2> QED
      BY <1>1, <2>1, GotoFacts, ProcsApart
  <1> QED
    BY <1>1, <1>2, <1>3, <1>4, PursuedKept

\* The wish survives every step.
LEMMA WishStep ==
    LifecycleInv /\ ConnectionInv /\ [Next]_vars => WishInv'
  <1> SUFFICES ASSUME LifecycleInv, ConnectionInv, [Next]_vars, Undisturbed' PROVE Wish'
    BY DEF WishInv
  <1>1. Undisturbed /\ ~\E u \in Users : Connect(u) \/ Disconnect(u)
    BY UndisturbedBefore DEF ConnectionInv, LifecycleInv
  <1>2. LifecycleInv' /\ Calm /\ Calm' /\ Wish
    BY <1>1, CalmStep DEF ConnectionInv, CalmInv, WishInv
  <1>3. Held' /\ WishKept' /\ StopPrecedes'
    BY <1>1, <1>2, WorkWish, StartWish, StopWish, QueueWish, CheckWish, RecoverWish, TimerWish,
       HandlerWish, ModemWish
       DEF Next, LoopStep, HandlerStep
  <1>4. LoopKnows'
    BY <1>2 DEF Calm
  <1>5. WishPursued'
    BY <1>1, <1>2, <1>3, <1>4, WorkPursued, OwnerPursued, QueuePursued, CheckPursued,
       RecoverPursued, TimerPursued, OthersPursued
       DEF Next, LoopStep, HandlerStep
  <1> QED
    BY <1>3, <1>5 DEF Wish

\* All three layers: where the goroutines are, what a connection without users
\* goes through, and what carries the wish for it.
THEOREM ConnectionInvariant == Spec => [](LifecycleInv /\ ConnectionInv)
  <1>1. LifecycleInv /\ ConnectionInv /\ [Next]_vars => LifecycleInv' /\ ConnectionInv'
    BY CalmStep, WishStep DEF ConnectionInv
  <1> QED
    BY <1>1, LifecycleInit, PTL DEF Spec

\* A desired connection that the manager reports, and that it dialled, has a
\* handle to end it by, but in the moment between the end of the call and setState.
THEOREM ConnectedIsHeld == Spec => []ConnectedHasHandle
  <1>1. ConnectionInv => ConnectedHasHandle
    BY DEF ConnectionInv, WishInv, Wish, Held, ConnectedHasHandle
  <1> QED
    BY ConnectionInvariant, <1>1, PTL

\* Until a user interferes, a desired connection is never forgotten: whatever
\* became of the dials, the checks and the recoveries before, something is on
\* its way that will dial.
THEOREM WishIsPursued == Spec => []DesiredIsPursued
  <1>1. ConnectionInv => DesiredIsPursued
    BY DEF ConnectionInv, WishInv, Wish, WishPursued, DesiredIsPursued
  <1> QED
    BY ConnectionInvariant, <1>1, PTL
=============================================================================
