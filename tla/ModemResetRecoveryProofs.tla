----------------------- MODULE ModemResetRecoveryProofs ------------------------
(***************************************************************************)
(* The safety of modem reset recovery for any number of reporters, any     *)
(* room for timers, any queue and any of the delays.  RecoveryInv is        *)
(* inductive by itself: types, the places of the goroutines and what a      *)
(* running recovery has cleared.  ReportInv is inductive on top of it and   *)
(* says what the debounce window stands for.                               *)
(***************************************************************************)
EXTENDS ModemResetRecovery, QueueLemmas

USE RecoveryAssumption

Recovery == {"teardown", "open", "quiet", "identity", "finish"}
Sending == {"check", "send", "full", "arm"}
Callback == {"deferred", "again", "resend", "stillFull"}

\* Only the loop recovers and only timers run callbacks; a timer is armed just
\* while it has a kind.
PlacesInv ==
    /\ pc[Loop] \in Recovery \cup Sending \cup {"idle"}
    /\ \A p \in Reporters : pc[p] \in Sending \cup {"idle"}
    /\ \A t \in Timers : /\ pc[t] \in Sending \cup Callback \cup {"idle", "armed"}
                         /\ pc[t] = "armed" <=> timer[t].kind # "none"

\* A recovery that reopens has cleared the retries and the two verdicts.
ReopeningInv ==
    /\ recovering <=> pc[Loop] \in Recovery
    /\ pc[Loop] \in {"open", "quiet", "identity"} =>
          Retrying = {} /\ ~coreReady /\ ~exhausted

RecoveryInv == TypeOK /\ PlacesInv /\ ReopeningInv /\ OneRetry

\* Nothing opens the debounce window during a recovery.  It is over by the time
\* the quiet one is, and before that if reopening takes as long as it lasts: only
\* a recovery that failed can end inside it.
WindowInv ==
    /\ pc[Loop] = "open" /\ OpenTime >= DedupWindow => dedupLeft <= phaseLeft
    /\ pc[Loop] = "quiet" => dedupLeft <= phaseLeft
    /\ pc[Loop] = "quiet" /\ OpenTime >= DedupWindow => dedupLeft = 0
    /\ pc[Loop] = "identity" => dedupLeft = 0
    /\ pc[Loop] = "finish" => dedupLeft = 0 \/ (OpenTime < DedupWindow /\ ~coreReady)

\* Inside the window a report may be dropped, because the event of the report
\* that opened the window is still carried by the queue, by a goroutine that
\* tries to send it, or by a deferred timer, or else because the recovery it
\* started has failed before the window was over.
Carries(p) ==
    \/ pc[p] \in (Sending \cup Callback) \ {"check"}
    \/ p \in Timers /\ timer[p].kind \in {"deferred", "again"}
Carried == InQueue("reset") \/ (\E p \in Procs : Carries(p)) \/ Stranded \/ FailedFast

ReportInv ==
    /\ WindowInv
    /\ ~recovering /\ dedupLeft > 0 => Carried
    /\ NoResetForgottenUnlessStranded

-----------------------------------------------------------------------------
\* The constants, one by one.
LEMMA Delays ==
    /\ QueueCap \in Nat \ {0} /\ DedupWindow \in Nat /\ QuietWindow \in Nat
    /\ DeferDelay \in Nat /\ DeferAgainDelay \in Nat
    /\ BackoffBase \in Nat /\ BackoffMax \in Nat /\ OpenTime \in Nat
    /\ BackoffJitter \in 0 .. 100 /\ BackoffFloor \in Nat /\ QuietWindow >= DedupWindow
    /\ MaxRecoverAttempts \in Nat /\ MaxReports \in Nat /\ MaxOthers \in Nat
  OBVIOUS

\* The event loop is neither a timer's goroutine nor a reporter.
LEMMA LoopApart == Loop \in Procs /\ Loop \notin Timers /\ Loop \notin Reporters
  BY DEF Loop, Procs

\* getRecoverDelay yields a delay for every number of failures, the base for
\* the first of them, and before the jitter never more than the maximum.
Doubled(d) == IF 2 * d > BackoffMax THEN BackoffMax ELSE 2 * d
BackoffOf(count) ==
    CHOOSE delay : delay = [n \in 1 .. count |-> IF n = 1 THEN BackoffBase
                                                 ELSE Doubled(delay[n - 1])]

\* The doubling of the delays defines a function.
LEMMA BackoffExists ==
    ASSUME NEW count \in Nat
    PROVE  \E delay : delay = [n \in 1 .. count |-> IF n = 1 THEN BackoffBase
                                                     ELSE Doubled(delay[n - 1])]
  <1> DEFINE Table(k) == \E delay : delay = [n \in 1 .. k |-> IF n = 1 THEN BackoffBase
                                                               ELSE Doubled(delay[n - 1])]
             Missing == {k \in Nat : ~Table(k)}
  <1>1. Table(0)
    <2> DEFINE f == [n \in 1 .. 0 |-> 0]
    <2>1. f = [n \in 1 .. 0 |-> IF n = 1 THEN BackoffBase ELSE Doubled(f[n - 1])]
      OBVIOUS
    <2> QED
      BY <2>1
  <1>2. ASSUME NEW k \in Nat, Table(k)
        PROVE  Table(k + 1)
    <2>1. PICK f : f = [n \in 1 .. k |-> IF n = 1 THEN BackoffBase ELSE Doubled(f[n - 1])]
      BY <1>2
    <2> DEFINE g == [n \in 1 .. (k + 1) |-> IF n = 1 THEN BackoffBase ELSE Doubled(f[n - 1])]
    <2>2. \A n \in 1 .. (k + 1) : n # 1 => n - 1 \in 1 .. k /\ n - 1 \in 1 .. (k + 1)
      OBVIOUS
    <2>3. \A m \in 1 .. k : m \in 1 .. (k + 1) /\ g[m] = f[m]
      <3>1. \A m \in 1 .. k : f[m] = IF m = 1 THEN BackoffBase ELSE Doubled(f[m - 1])
        <4> DEFINE e(n) == IF n = 1 THEN BackoffBase ELSE Doubled(f[n - 1])
        <4>1. f = [n \in 1 .. k |-> e(n)]
          BY <2>1
        <4> HIDE DEF e
        <4>2. \A m \in 1 .. k : f[m] = e(m)
          BY <4>1
        <4> QED
          BY <4>2 DEF e
      <3>2. \A m \in 1 .. k : m \in 1 .. (k + 1)
        OBVIOUS
      <3> QED
        BY <3>1, <3>2
    <2>4. \A n \in 1 .. (k + 1) : n # 1 => Doubled(g[n - 1]) = Doubled(f[n - 1])
      <3> HIDE DEF g
      <3> QED
        BY <2>2, <2>3
    <2>5. g = [n \in 1 .. (k + 1) |-> IF n = 1 THEN BackoffBase ELSE Doubled(g[n - 1])]
      BY <2>4
    <2> QED
      BY <2>5
  <1>3. Missing = {}
    <2> SUFFICES ASSUME Missing # {} PROVE FALSE
      OBVIOUS
    <2> HIDE DEF Table
    <2>1. PICK k \in Missing : \A m \in Missing : k <= m
      BY SmallestExists
    <2>2. k # 0
      BY <1>1
    <2>3. k - 1 \in Nat /\ k - 1 \notin Missing
      BY <2>1, <2>2
    <2>4. Table((k - 1) + 1)
      BY <2>3, <1>2
    <2>5. (k - 1) + 1 = k
      OBVIOUS
    <2> QED
      BY <2>4, <2>5
  <1>4. count \notin Missing
    BY <1>3
  <1> QED
    BY <1>4

\* The delays are the base, then each the double of the one before.
LEMMA BackoffSteps ==
    ASSUME NEW count \in Nat \ {0}
    PROVE  /\ Backoff(count) = BackoffOf(count)[count]
           /\ \A n \in 1 .. count :
                 BackoffOf(count)[n] = IF n = 1 THEN BackoffBase
                                       ELSE Doubled(BackoffOf(count)[n - 1])
  <1>1. Backoff(count) = BackoffOf(count)[count]
    BY DEF Backoff, BackoffOf, Doubled
  <1> DEFINE f == BackoffOf(count)
             e(n) == IF n = 1 THEN BackoffBase ELSE Doubled(f[n - 1])
  <1>2. f = [n \in 1 .. count |-> e(n)]
    BY BackoffExists DEF BackoffOf
  <1> HIDE DEF e
  <1>3. \A n \in 1 .. count : f[n] = e(n)
    <2> HIDE DEF f
    <2> QED
      BY <1>2
  <1> QED
    BY <1>1, <1>3 DEF e

\* Before the jitter a backoff is a delay between the base and the maximum.
LEMMA BackoffBounded ==
    ASSUME NEW count \in Nat \ {0}
    PROVE  /\ Backoff(count) \in Nat
           /\ BackoffBase <= BackoffMax =>
                 Backoff(count) \in BackoffBase .. BackoffMax
  <1> DEFINE f == BackoffOf(count)
             Good(n) == f[n] \in Nat /\ (BackoffBase <= BackoffMax =>
                                            f[n] \in BackoffBase .. BackoffMax)
             Bad == {n \in 1 .. count : ~Good(n)}
  <1>1. \A n \in 1 .. count : f[n] = IF n = 1 THEN BackoffBase ELSE Doubled(f[n - 1])
    BY BackoffSteps
  <1> HIDE DEF f
  <1>2. \A d \in Nat : /\ Doubled(d) \in Nat /\ Doubled(d) <= BackoffMax
                       /\ d >= BackoffBase /\ BackoffBase <= BackoffMax =>
                             Doubled(d) >= BackoffBase
    BY Delays DEF Doubled
  <1>3. Bad = {}
    <2> SUFFICES ASSUME Bad # {} PROVE FALSE
      OBVIOUS
    <2>1. PICK k \in Bad : \A m \in Bad : k <= m
      <3>1. Bad \subseteq Nat
        OBVIOUS
      <3> HIDE DEF Bad
      <3> QED
        BY <3>1, SmallestExists
    <2>2. CASE k = 1
      BY <2>2, <1>1, Delays
    <2>3. CASE k # 1
      <3>1. k - 1 \in 1 .. count /\ k - 1 \notin Bad
        BY <2>1, <2>3
      <3>2. f[k - 1] \in Nat /\ f[k] = Doubled(f[k - 1])
        BY <3>1, <2>3, <1>1
      <3>3. BackoffBase <= BackoffMax => f[k - 1] >= BackoffBase
        BY <3>1
      <3>4. Doubled(f[k - 1]) \in Nat /\ Doubled(f[k - 1]) <= BackoffMax
            /\ (BackoffBase <= BackoffMax => Doubled(f[k - 1]) >= BackoffBase)
        BY <3>2, <3>3, <1>2
      <3> QED
        BY <3>2, <3>4, Delays
    <2> QED
      BY <2>2, <2>3
  <1>4. Good(count)
    BY <1>3
  <1> QED
    BY <1>4, BackoffSteps DEF f

\* A share of a delay grows with it and is never more than the whole.
LEMMA JitterBounded ==
    ASSUME NEW d \in Nat, NEW e \in Nat, d <= e
    PROVE  /\ JitterRange(d) \in Nat /\ JitterRange(d) <= d
           /\ JitterRange(d) <= JitterRange(e)
           /\ d - JitterRange(d) <= e - JitterRange(e)
  <1> DEFINE q == (d * BackoffJitter) \div 100
             r == (e * BackoffJitter) \div 100
  <1>1. BackoffJitter \in Nat /\ BackoffJitter <= 100
    BY Delays
  <1>2. d * BackoffJitter \in Nat /\ e * BackoffJitter \in Nat
        /\ (e - d) * BackoffJitter \in Nat
    BY <1>1
  <1>3. e * BackoffJitter = d * BackoffJitter + (e - d) * BackoffJitter
    BY <1>1
  <1>4. (e - d) * BackoffJitter <= (e - d) * 100 /\ d * BackoffJitter <= d * 100
    BY <1>1
  <1>5. \A n \in Nat : n \div 100 \in Nat /\ 100 * (n \div 100) <= n
                      /\ n < 100 * (n \div 100) + 100
    OBVIOUS
  <1>6. /\ q \in Nat /\ 100 * q <= d * BackoffJitter /\ d * BackoffJitter < 100 * q + 100
        /\ r \in Nat /\ 100 * r <= e * BackoffJitter /\ e * BackoffJitter < 100 * r + 100
    BY <1>2, <1>5
  <1> DEFINE x == d * BackoffJitter
             y == e * BackoffJitter
             z == (e - d) * BackoffJitter
  <1>7. x \in Nat /\ y \in Nat /\ z \in Nat /\ y = x + z /\ z <= (e - d) * 100 /\ x <= d * 100
        /\ 100 * q <= x /\ x < 100 * q + 100 /\ 100 * r <= y /\ y < 100 * r + 100
        /\ q \in Nat /\ r \in Nat
    BY <1>2, <1>3, <1>4, <1>6
  <1> HIDE DEF q, r, x, y, z
  <1>8. q <= d /\ q <= r /\ d - q <= e - r
    BY <1>7
  <1> QED
    BY <1>7, <1>8 DEF q, r, JitterRange

\* The delays of getRecoverDelay: whatever the number of failures and the jitter
\* there is one, each is at least the floor, and beyond the floor it lies between
\* the base less its jitter and recoverBackoffMax with its jitter.
THEOREM RecoverDelayBounded ==
    ASSUME NEW count \in Nat \ {0}
    PROVE  /\ RecoverDelays(count) # {}
           /\ \A delay \in RecoverDelays(count) :
                 /\ delay \in Nat /\ delay >= BackoffFloor
                 /\ BackoffBase <= BackoffMax =>
                       /\ delay >= BackoffBase - JitterRange(BackoffBase)
                       /\ \/ delay = BackoffFloor
                          \/ delay <= BackoffMax + JitterRange(BackoffMax)
  <1> DEFINE b == Backoff(count)
             j == JitterRange(b)
             Floored(d) == IF d < BackoffFloor THEN BackoffFloor ELSE d
  <1>1. b \in Nat /\ (BackoffBase <= BackoffMax => BackoffBase <= b /\ b <= BackoffMax)
    BY BackoffBounded, Delays
  <1>2. j \in Nat /\ j <= b
    BY <1>1, JitterBounded
  <1>3. ASSUME BackoffBase <= BackoffMax
        PROVE  /\ BackoffBase - JitterRange(BackoffBase) <= b - j
               /\ j <= JitterRange(BackoffMax) /\ JitterRange(BackoffMax) \in Nat
               /\ JitterRange(BackoffBase) \in Nat
    BY <1>1, <1>3, Delays, JitterBounded
  <1>4. RecoverDelays(count) = {Floored(d) : d \in (b - j) .. (b + j)}
    BY DEF RecoverDelays
  <1> HIDE DEF b, j
  <1>5. b \in (b - j) .. (b + j)
    BY <1>1, <1>2
  <1>6. Floored(b) \in RecoverDelays(count)
    BY <1>4, <1>5
  <1>7. ASSUME NEW delay \in RecoverDelays(count)
        PROVE  /\ delay \in Nat /\ delay >= BackoffFloor
               /\ BackoffBase <= BackoffMax =>
                     /\ delay >= BackoffBase - JitterRange(BackoffBase)
                     /\ \/ delay = BackoffFloor
                        \/ delay <= BackoffMax + JitterRange(BackoffMax)
    <2>1. PICK d \in (b - j) .. (b + j) : delay = Floored(d)
      BY <1>4
    <2>2. d \in Int /\ b - j <= d /\ d <= b + j /\ BackoffFloor \in Nat /\ d \in Nat
      BY <1>1, <1>2, Delays
    <2>3. delay \in Nat /\ delay >= BackoffFloor /\ delay >= d
          /\ (delay = BackoffFloor \/ delay = d)
      BY <2>1, <2>2
    <2>4. ASSUME BackoffBase <= BackoffMax
          PROVE  /\ d >= BackoffBase - JitterRange(BackoffBase)
                 /\ d <= BackoffMax + JitterRange(BackoffMax)
      <3>1. BackoffBase \in Nat /\ BackoffMax \in Nat
        BY Delays
      <3> QED
        BY <1>1, <1>2, <1>3, <2>2, <2>4, <3>1
    <2>5. BackoffBase <= BackoffMax =>
             BackoffBase \in Nat /\ JitterRange(BackoffBase) \in Nat
      BY <1>3, Delays
    <2> QED
      BY <2>2, <2>3, <2>4, <2>5
  <1> QED
    BY <1>6, <1>7

-----------------------------------------------------------------------------
\* TypeOK, variable by variable.
Labels == Recovery \cup Sending \cup Callback \cup {"idle", "armed"}
TimerValues == [kind : {"none", "deferred", "again", "retry"}, left : Nat]
Types ==
    /\ queue \in Seq({"reset", "other"}) /\ Len(queue) \in Nat /\ Len(queue) <= QueueCap
    /\ recovering \in BOOLEAN /\ pending \in BOOLEAN /\ deferred \in BOOLEAN
    /\ coreReady \in BOOLEAN /\ dirty \in BOOLEAN /\ exhausted \in BOOLEAN
    /\ dedupLeft \in Nat /\ dedupLeft <= DedupWindow
    /\ recoverCount \in Nat /\ phaseLeft \in Nat /\ reports \in Nat /\ others \in Nat
    /\ timer \in [Timers -> TimerValues]
    /\ pc \in [Procs -> Labels]

\* Types is TypeOK with its sequences taken apart.
LEMMA TypesSplit == (TypeOK <=> Types) /\ (TypeOK' <=> Types')
  <1>1. TypeOK => Types
    <2>1. DedupWindow \in Nat
      BY Delays
    <2>2. queue \in Seq({"reset", "other"}) => Len(queue) \in Nat
      BY LenProperties
    <2> QED
      BY <2>1, <2>2, SMTT(30) DEF TypeOK, Types, TimerValues, Labels, Recovery, Sending, Callback
  <1>2. Types => TypeOK
    BY Delays DEF TypeOK, Types, TimerValues, Labels, Recovery, Sending, Callback
  <1>3. TypeOK' => Types'
    <2>1. DedupWindow \in Nat
      BY Delays
    <2>2. queue' \in Seq({"reset", "other"}) => Len(queue') \in Nat
      BY LenProperties
    <2> QED
      BY <2>1, <2>2, SMTT(30) DEF TypeOK, Types, TimerValues, Labels, Recovery, Sending, Callback
  <1>4. Types' => TypeOK'
    BY Delays DEF TypeOK, Types, TimerValues, Labels, Recovery, Sending, Callback
  <1> QED
    BY <1>1, <1>2, <1>3, <1>4

\* New establishes the invariant.
LEMMA RecoveryInit == Init => RecoveryInv
  <1> SUFFICES ASSUME Init PROVE RecoveryInv
    OBVIOUS
  <1>1. TypeOK
    <2>1. queue \in Seq({"reset", "other"}) /\ Len(queue) = 0
      BY EmptySeq DEF Init
    <2>2. timer \in [Timers -> TimerValues] /\ pc \in [Procs -> Labels]
      BY DEF Init, TimerValues, Labels, NoTimer
    <2>3. 0 <= QueueCap /\ 0 <= DedupWindow
      BY Delays
    <2>4. Types
      BY <2>1, <2>2, <2>3 DEF Init, Types
    <2> QED
      BY <2>4, TypesSplit
  <1>2. PlacesInv
    BY LoopApart DEF Init, PlacesInv, NoTimer, Procs
  <1>3. ReopeningInv /\ OneRetry
    BY LoopApart DEF Init, ReopeningInv, OneRetry, Retrying, Recovery, NoTimer, Procs
  <1> QED
    BY <1>1, <1>2, <1>3 DEF RecoveryInv

\* What sends to and receives from eventCh do to it.
LEMMA QueueSteps ==
    ASSUME TypeOK
    PROVE  /\ \A e \in {"reset", "other"} :
                 /\ Append(queue, e) \in Seq({"reset", "other"})
                 /\ Room => Len(Append(queue, e)) <= QueueCap
                 /\ ToSet(Append(queue, e)) = ToSet(queue) \cup {e}
           /\ queue # <<>> =>
                 /\ Tail(queue) \in Seq({"reset", "other"})
                 /\ Len(Tail(queue)) <= QueueCap
                 /\ ToSet(queue) = {Head(queue)} \cup ToSet(Tail(queue))
  <1> DEFINE Q == {"reset", "other"}
  <1>1. queue \in Seq(Q) /\ Len(queue) \in Nat /\ Len(queue) <= QueueCap /\ QueueCap \in Nat
    BY TypesSplit, Delays DEF Types
  <1>2. ASSUME NEW e \in Q
        PROVE  /\ Append(queue, e) \in Seq(Q) /\ Len(Append(queue, e)) = Len(queue) + 1
               /\ ToSet(Append(queue, e)) = ToSet(queue) \cup {e}
    BY <1>1, AppendPositions, AppendSet
  <1>3. ASSUME queue # <<>>
        PROVE  /\ Tail(queue) \in Seq(Q) /\ Len(Tail(queue)) = Len(queue) - 1
               /\ ToSet(queue) = {Head(queue)} \cup ToSet(Tail(queue))
    BY <1>1, <1>3, TailPositions, HeadTailSet
  <1> QED
    BY <1>1, <1>2, <1>3 DEF Room

-----------------------------------------------------------------------------
\* Types are kept, step by step.
LEMMA ReportTypes ==
    TypeOK /\ (\E p \in Reporters : Report(p)) => TypeOK'
  <1> SUFFICES ASSUME Types, NEW p \in Reporters, Report(p) PROVE Types'
    BY TypesSplit
  <1>1. pc' \in [Procs -> Labels]
    BY DEF Report, Goto, Types, Labels, Sending, Procs
  <1> QED
    BY <1>1 DEF Report, Types, resetVars

\* enqueueModemResetEvent keeps the types.
LEMMA EnqueueTypes ==
    TypeOK /\ (\E p \in Procs : Enqueue(p)) => TypeOK'
  <1> SUFFICES ASSUME TypeOK, Types, NEW p \in Procs, Enqueue(p) PROVE Types'
    BY TypesSplit
  <1>1. CASE Check(p)
    <2>1. pc' \in [Procs -> Labels]
      BY <1>1 DEF Check, Goto, Types, Labels, Sending
    <2>2. dedupLeft' \in Nat /\ dedupLeft' <= DedupWindow
      <3>1. dedupLeft' = dedupLeft \/ dedupLeft' = DedupWindow
        BY <1>1 DEF Check
      <3> QED
        BY <3>1, Delays DEF Types
    <2>3. pending' \in BOOLEAN
      <3>1. pending' = pending \/ pending' = TRUE
        BY <1>1 DEF Check
      <3> QED
        BY <3>1 DEF Types
    <2>4. UNCHANGED <<queue, recovering, deferred, recoverCount, coreReady, phaseLeft, timer,
                      dirty, exhausted, reports, others>>
      BY <1>1 DEF Check, countVars
    <2> QED
      BY <2>1, <2>2, <2>3, <2>4 DEF Types
  <1>2. CASE Send(p)
    <2>1. pc' \in [Procs -> Labels]
      BY <1>2 DEF Send, TrySend, Goto, Types, Labels, Sending
    <2>2. queue' \in Seq({"reset", "other"}) /\ Len(queue') \in Nat /\ Len(queue') <= QueueCap
      <3>1. queue' \in Seq({"reset", "other"}) /\ Len(queue') <= QueueCap
        BY <1>2, QueueSteps DEF Send, TrySend, Types
      <3> QED
        BY <3>1, LenProperties
    <2> QED
      BY <1>2, <2>1, <2>2 DEF Send, TrySend, Types, countVars, resetVars
  <1>3. CASE Full(p)
    <2>1. pc' \in [Procs -> Labels]
      BY <1>3 DEF Full, Goto, Types, Labels, Sending
    <2> QED
      BY <1>3, <2>1 DEF Full, Types, countVars
  <1>4. CASE Arm(p)
    <2>1. PICK t \in FreeTimers \cup ({p} \cap Timers) :
             /\ ArmAs(t, "deferred", DeferDelay)
             /\ pc' = [pc EXCEPT ![p] = "idle", ![t] = "armed"]
      BY <1>4 DEF Arm
    <2>2. pc' \in [Procs -> Labels]
      BY <2>1 DEF Types, Labels, FreeTimers, Procs
    <2>3. timer' \in [Timers -> TimerValues]
      BY <2>1, Delays DEF Types, TimerValues, ArmAs, FreeTimers
    <2> QED
      BY <1>4, <2>2, <2>3 DEF Arm, Types, countVars, resetVars
  <1> QED
    BY <1>1, <1>2, <1>3, <1>4 DEF Enqueue

\* The timers' callbacks keep the types.
LEMMA TimerTypes ==
    TypeOK /\ PlacesInv /\ (\E t \in Timers : TimerStep(t)) => TypeOK'
  <1> SUFFICES ASSUME TypeOK, Types, PlacesInv, NEW t \in Timers, TimerStep(t) PROVE Types'
    BY TypesSplit
  <1>1. t \in Procs /\ timer[t] \in TimerValues
    BY DEF Procs, Types
  <1>2. CASE Fire(t)
    <2>1. pc' \in [Procs -> Labels]
      <3>1. (IF timer[t].kind = "retry" THEN "check" ELSE timer[t].kind)
              \in {"check", "deferred", "again"}
        BY <1>1, <1>2 DEF TimerValues, PlacesInv, Fire
      <3>2. PICK l \in {"check", "deferred", "again"} : Goto(t, l)
        BY <1>2, <3>1 DEF Fire
      <3> QED
        BY <1>1, <3>2 DEF Goto, Types, Labels, Sending, Callback
    <2>2. timer' \in [Timers -> TimerValues]
      BY <1>2 DEF Fire, Types, TimerValues, NoTimer
    <2> QED
      BY <1>2, <2>1, <2>2 DEF Fire, Types, countVars, resetVars
  <1>3. CASE DeferredWake(t)
    <2>1. pc' \in [Procs -> Labels]
      BY <1>1, <1>3 DEF DeferredWake, Goto, Types, Labels, Callback
    <2>2. dedupLeft' \in Nat /\ dedupLeft' <= DedupWindow
      <3>1. dedupLeft' = dedupLeft \/ dedupLeft' = DedupWindow
        BY <1>3 DEF DeferredWake
      <3> QED
        BY <3>1, Delays DEF Types
    <2>3. pending' \in BOOLEAN /\ deferred' = FALSE
      <3>1. (pending' = pending \/ pending' = TRUE) /\ deferred' = FALSE
        BY <1>3 DEF DeferredWake
      <3> QED
        BY <3>1 DEF Types
    <2>4. UNCHANGED <<queue, recovering, recoverCount, coreReady, phaseLeft, timer, dirty,
                      exhausted, reports, others>>
      BY <1>3 DEF DeferredWake, countVars
    <2> QED
      BY <2>1, <2>2, <2>3, <2>4 DEF Types
  <1>4. CASE Resend(t)
    <2>1. pc' \in [Procs -> Labels]
      BY <1>1, <1>4 DEF Resend, TrySend, Goto, Types, Labels, Callback
    <2>2. queue' \in Seq({"reset", "other"}) /\ Len(queue') \in Nat /\ Len(queue') <= QueueCap
      <3>1. queue' \in Seq({"reset", "other"}) /\ Len(queue') <= QueueCap
        BY <1>4, QueueSteps DEF Resend, TrySend, Types
      <3> QED
        BY <3>1, LenProperties
    <2> QED
      BY <1>4, <2>1, <2>2 DEF Resend, TrySend, Types, countVars, resetVars
  <1>5. CASE StillFull(t)
    <2>1. pc' \in [Procs -> Labels]
      BY <1>1, <1>5 DEF StillFull, Goto, Types, Labels
    <2>2. timer' \in [Timers -> TimerValues]
      BY <1>5, Delays DEF StillFull, ArmAs, Types, TimerValues
    <2> QED
      BY <1>5, <2>1, <2>2 DEF StillFull, Types, countVars
  <1>6. CASE AgainWake(t)
    <2>1. pc' \in [Procs -> Labels]
      BY <1>1, <1>6 DEF AgainWake, Goto, Types, Labels, Sending
    <2>2. dedupLeft' \in Nat /\ dedupLeft' <= DedupWindow
      BY <1>6, Delays DEF AgainWake
    <2> QED
      BY <1>6, <2>1, <2>2 DEF AgainWake, Types, countVars
  <1> QED
    BY <1>2, <1>3, <1>4, <1>5, <1>6 DEF TimerStep

\* scheduleRecoverRetry gives up for good or arms one retry.
LEMMA RetryOrVerdict ==
    ASSUME TypeOK, ScheduleRecoverRetry
    PROVE  /\ recoverCount' \in Nat
           /\ \/ /\ exhausted' = TRUE /\ UNCHANGED timer
                 /\ pc' = [pc EXCEPT ![Loop] = "finish"]
              \/ /\ UNCHANGED exhausted
                 /\ \E t \in FreeTimers, delay \in Nat :
                       /\ timer' = [timer EXCEPT ![t] = [kind |-> "retry", left |-> delay]]
                       /\ pc' = [pc EXCEPT ![Loop] = "finish", ![t] = "armed"]
  <1>1. recoverCount \in Nat /\ recoverCount + 1 \in Nat \ {0}
    <2>1. recoverCount \in Nat
      BY TypesSplit, Zenon DEF Types
    <2> QED
      BY <2>1
  <1>2. RecoverDelays(recoverCount + 1) \subseteq Nat
    <2>1. \A n \in Nat \ {0} : RecoverDelays(n) \subseteq Nat
      BY RecoverDelayBounded
    <2> QED
      BY <1>1, <2>1, Zenon
  <1>3. recoverCount' \in Nat
    <2>1. recoverCount' = 0 \/ recoverCount' = recoverCount + 1
      BY DEF ScheduleRecoverRetry
    <2> QED
      BY <2>1, <1>1
  <1>4. CASE RecoveryExhausted(recoverCount + 1)
    BY <1>3, <1>4 DEF ScheduleRecoverRetry, Goto
  <1>5. CASE ~RecoveryExhausted(recoverCount + 1)
    <2>1. /\ UNCHANGED exhausted
          /\ \E t \in FreeTimers, delay \in RecoverDelays(recoverCount + 1) :
                /\ ArmAs(t, "retry", delay)
                /\ pc' = [pc EXCEPT ![Loop] = "finish", ![t] = "armed"]
      BY <1>5 DEF ScheduleRecoverRetry
    <2> QED
      BY <1>2, <1>3, <2>1 DEF ArmAs
  <1> QED
    BY <1>4, <1>5

\* scheduleRecoverRetry keeps the types of what it changes.
LEMMA RetryTypes ==
    ASSUME TypeOK, ScheduleRecoverRetry
    PROVE  /\ recoverCount' \in Nat /\ exhausted' \in BOOLEAN
           /\ timer' \in [Timers -> TimerValues] /\ pc' \in [Procs -> Labels]
  <1>1. Types
    BY TypesSplit
  <1>2. CASE exhausted' = TRUE /\ UNCHANGED timer /\ pc' = [pc EXCEPT ![Loop] = "finish"]
    <2>1. pc' \in [Procs -> Labels]
      BY <1>1, <1>2 DEF Types, Labels, Recovery
    <2> QED
      BY <1>1, <1>2, <2>1, RetryOrVerdict DEF Types
  <1>3. CASE /\ UNCHANGED exhausted
             /\ \E t \in FreeTimers, delay \in Nat :
                   /\ timer' = [timer EXCEPT ![t] = [kind |-> "retry", left |-> delay]]
                   /\ pc' = [pc EXCEPT ![Loop] = "finish", ![t] = "armed"]
    <2>1. pc' \in [Procs -> Labels]
      BY <1>1, <1>3 DEF Types, Labels, Recovery
    <2>2. timer' \in [Timers -> TimerValues]
      <3>1. PICK t \in FreeTimers, delay \in Nat :
               timer' = [timer EXCEPT ![t] = [kind |-> "retry", left |-> delay]]
        BY <1>3
      <3>2. [kind |-> "retry", left |-> delay] \in TimerValues
        BY DEF TimerValues
      <3> QED
        BY <1>1, <3>1, <3>2 DEF Types
    <2> QED
      BY <1>1, <1>3, <2>1, <2>2, RetryOrVerdict DEF Types
  <1> QED
    BY <1>2, <1>3, RetryOrVerdict

\* The event loop keeps the types.
LEMMA LoopTypes ==
    TypeOK /\ LoopStep => TypeOK'
  <1> SUFFICES ASSUME TypeOK, Types, LoopStep PROVE Types'
    BY TypesSplit
  <1>1. ASSUME NEW l \in Labels, Goto(Loop, l)
        PROVE  pc' \in [Procs -> Labels]
    BY <1>1 DEF Goto, Types
  <1>2. "open" \in Labels /\ "quiet" \in Labels /\ "identity" \in Labels /\ "finish" \in Labels
        /\ "teardown" \in Labels /\ "check" \in Labels /\ "idle" \in Labels
    BY DEF Labels, Recovery, Sending
  <1>3. ASSUME queue # <<>>, queue' = Tail(queue)
        PROVE  queue' \in Seq({"reset", "other"}) /\ Len(queue') \in Nat /\ Len(queue') <= QueueCap
    <2>1. queue' \in Seq({"reset", "other"}) /\ Len(queue') <= QueueCap
      BY <1>3, QueueSteps
    <2> QED
      BY <2>1, LenProperties
  <1>4. CASE TakeOther
    BY <1>3, <1>4 DEF TakeOther, Types, countVars, resetVars
  <1>5. CASE TakeReset
    <2>1. pc' \in [Procs -> Labels]
      BY <1>1, <1>2, <1>5 DEF TakeReset
    <2> QED
      BY <1>3, <1>5, <2>1 DEF TakeReset, Types, countVars
  <1>6. CASE Teardown
    <2>1. pc' \in [Procs -> Labels]
      BY <1>2, <1>6 DEF Teardown, Types
    <2>2. timer' \in [Timers -> TimerValues]
      BY <1>6 DEF Teardown, NoTimer, TimerValues
    <2>3. /\ UNCHANGED <<queue, recovering, pending, deferred, dedupLeft, recoverCount, reports,
                         others>>
          /\ coreReady' = FALSE /\ dirty' = FALSE /\ exhausted' = FALSE
          /\ phaseLeft' = OpenTime
      BY <1>6 DEF Teardown, countVars, resetVars
    <2> QED
      BY <2>1, <2>2, <2>3, Delays DEF Types
  <1>7. CASE OpenSucceeds
    <2>1. pc' \in [Procs -> Labels]
      BY <1>1, <1>2, <1>7 DEF OpenSucceeds
    <2> QED
      BY <1>7, <2>1, Delays DEF OpenSucceeds, Types, countVars, resetVars
  <1>8. CASE OpenFails
    BY <1>8, RetryTypes DEF OpenFails, Types, countVars, resetVars
  <1>9. CASE DeviceGone
    <2>1. pc' \in [Procs -> Labels]
      BY <1>1, <1>2, <1>9 DEF DeviceGone
    <2> QED
      BY <1>9, <2>1 DEF DeviceGone, Types, countVars, resetVars
  <1>10. CASE QuietBroken
    <2>1. pc' \in [Procs -> Labels]
      BY <1>1, <1>2, <1>10 DEF QuietBroken
    <2> QED
      BY <1>10, <2>1 DEF QuietBroken, Types, countVars, resetVars
  <1>11. CASE QuietHeld
    <2>1. pc' \in [Procs -> Labels]
      BY <1>1, <1>2, <1>11 DEF QuietHeld
    <2> QED
      BY <1>11, <2>1 DEF QuietHeld, Types, countVars, resetVars
  <1>12. CASE QuietOverrun
    BY <1>12, RetryTypes DEF QuietOverrun, Types, countVars, resetVars
  <1>13. CASE Converge
    <2>1. pc' \in [Procs -> Labels]
      BY <1>1, <1>2, <1>13 DEF Converge
    <2> QED
      BY <1>13, <2>1 DEF Converge, Types, countVars, resetVars
  <1>14. CASE Finish
    <2>1. pc' \in [Procs -> Labels]
      BY <1>1, <1>2, <1>14 DEF Finish
    <2> QED
      BY <1>14, <2>1 DEF Finish, Types, countVars
  <1> QED
    BY <1>4, <1>5, <1>6, <1>7, <1>8, <1>9, <1>10, <1>11, <1>12, <1>13, <1>14
       DEF LoopStep, OpenEnds, QuietEnds

\* Time and other senders keep the types.
LEMMA ClockTypes ==
    TypeOK /\ (PostOther \/ Tick \/ UNCHANGED vars) => TypeOK'
  <1> SUFFICES ASSUME TypeOK, Types, PostOther \/ Tick \/ UNCHANGED vars PROVE Types'
    BY TypesSplit
  <1>1. CASE PostOther
    <2>1. queue' \in Seq({"reset", "other"}) /\ Len(queue') <= QueueCap
      BY <1>1, QueueSteps DEF PostOther
    <2>2. Len(queue') \in Nat
      BY <2>1, LenProperties
    <2> QED
      BY <1>1, <2>1, <2>2 DEF PostOther, Types, resetVars
  <1>2. CASE Tick
    <2>1. \A n \in Nat : Less(n) \in Nat /\ Less(n) <= n
      BY DEF Less
    <2>2. timer' \in [Timers -> TimerValues]
      <3> HIDE DEF Types
      <3>1. \A t \in Timers : timer[t] \in TimerValues
        BY DEF Types
      <3>2. \A t \in Timers : [timer[t] EXCEPT !.left = Less(@)] \in TimerValues
        BY <3>1, <2>1 DEF TimerValues
      <3> QED
        BY <1>2, <3>2 DEF Tick
    <2>3. dedupLeft' \in Nat /\ dedupLeft' <= DedupWindow /\ phaseLeft' \in Nat
      <3>1. dedupLeft' = Less(dedupLeft) /\ phaseLeft' = Less(phaseLeft)
        BY <1>2 DEF Tick
      <3>2. dedupLeft \in Nat /\ phaseLeft \in Nat /\ dedupLeft <= DedupWindow
        BY DEF Types
      <3> QED
        BY <3>1, <3>2, <2>1, Delays
    <2> QED
      BY <1>2, <2>2, <2>3 DEF Tick, Types, countVars
  <1>3. CASE UNCHANGED vars
    BY <1>3 DEF vars, Types
  <1> QED
    BY <1>1, <1>2, <1>3

-----------------------------------------------------------------------------
\* A goroutine that goes on to another place, without touching a timer.
LEMMA GotoPlaces ==
    ASSUME TypeOK, PlacesInv, NEW p \in Procs, NEW l, Goto(p, l), timer' = timer,
           p \in Timers => pc[p] # "armed",
           \/ l \in Sending \cup {"idle"}
           \/ p = Loop /\ l \in Recovery
           \/ p \in Timers /\ l \in Callback
    PROVE  /\ PlacesInv'
           /\ pc'[Loop] = IF p = Loop THEN l ELSE pc[Loop]
  <1>1. pc \in [Procs -> Labels] /\ Procs = Reporters \cup Timers \cup {Loop}
    BY TypesSplit DEF Types, Procs
  <1>2. \A q \in Procs : pc'[q] = IF q = p THEN l ELSE pc[q]
    BY <1>1 DEF Goto
  <1>3. pc'[Loop] \in Recovery \cup Sending \cup {"idle"}
    BY <1>1, <1>2, LoopApart DEF PlacesInv
  <1>4. \A r \in Reporters : pc'[r] \in Sending \cup {"idle"}
    BY <1>1, <1>2, LoopApart DEF PlacesInv
  <1>5. ASSUME NEW t \in Timers
        PROVE  /\ pc'[t] \in Sending \cup Callback \cup {"idle", "armed"}
               /\ pc'[t] = "armed" <=> timer'[t].kind # "none"
    BY <1>1, <1>2, LoopApart DEF PlacesInv, Sending, Callback
  <1> QED
    BY <1>2, <1>3, <1>4, <1>5, LoopApart DEF PlacesInv

\* A goroutine p goes on to l and a timer t is armed: its own, or a free one.
ArmedBy(p, l, t, kind) ==
    /\ \A u \in Timers : timer'[u].kind = IF u = t THEN kind ELSE timer[u].kind
    /\ \A q \in Procs : pc'[q] = IF q = t THEN "armed" ELSE IF q = p THEN l ELSE pc[q]

\* Arming a timer leaves every goroutine where it may be.
LEMMA ArmedPlaces ==
    ASSUME TypeOK, PlacesInv, NEW p \in Procs, NEW t \in Timers,
           NEW l \in {"idle", "finish"}, NEW kind \in {"deferred", "again", "retry"},
           ArmedBy(p, l, t, kind),
           p \in Timers => pc[p] # "armed",
           l = "finish" => p = Loop
    PROVE  PlacesInv' /\ pc'[Loop] = IF p = Loop THEN l ELSE pc[Loop]
  <1>1. /\ Procs = Reporters \cup Timers \cup {Loop}
        /\ \A q \in Procs : pc'[q] = IF q = t THEN "armed" ELSE IF q = p THEN l ELSE pc[q]
        /\ \A u \in Timers : timer'[u].kind = IF u = t THEN kind ELSE timer[u].kind
    BY DEF Procs, ArmedBy
  <1>2. pc'[Loop] = IF p = Loop THEN l ELSE pc[Loop]
    BY <1>1, LoopApart
  <1>3. pc'[Loop] \in Recovery \cup Sending \cup {"idle"}
    BY <1>2 DEF PlacesInv, Recovery
  <1>4. \A r \in Reporters : pc'[r] \in Sending \cup {"idle"}
    BY <1>1, LoopApart DEF PlacesInv
  <1>5. ASSUME NEW u \in Timers
        PROVE  /\ pc'[u] \in Sending \cup Callback \cup {"idle", "armed"}
               /\ pc'[u] = "armed" <=> timer'[u].kind # "none"
    BY <1>1, LoopApart DEF PlacesInv, Sending, Callback
  <1> QED
    BY <1>2, <1>3, <1>4, <1>5 DEF PlacesInv

\* Retries are the timers of that kind, and only new ones can break OneRetry.
LEMMA RetryKinds ==
    /\ PlacesInv => Retrying = {t \in Timers : timer[t].kind = "retry"}
    /\ PlacesInv' => Retrying' = {t \in Timers : timer'[t].kind = "retry"}
  BY DEF PlacesInv, Retrying

\* A step that adds no retry and settles nothing keeps OneRetry.
LEMMA NoNewRetry ==
    ASSUME PlacesInv, PlacesInv', OneRetry,
           \A t \in Timers : timer'[t].kind = "retry" => timer[t].kind = "retry",
           coreReady' \/ exhausted' => coreReady \/ exhausted \/ Retrying = {}
    PROVE  OneRetry' /\ Retrying' \subseteq Retrying
  <1>1. Retrying' \subseteq Retrying
    BY RetryKinds
  <1> QED
    BY <1>1 DEF OneRetry

\* A step away from the recovery keeps what a recovery has cleared.
LEMMA AsideSteps ==
    ASSUME RecoveryInv, PlacesInv', UNCHANGED <<recovering, coreReady, exhausted>>,
           \A t \in Timers : timer'[t].kind = "retry" => timer[t].kind = "retry",
           \/ pc'[Loop] = pc[Loop]
           \/ pc[Loop] \notin Recovery /\ pc'[Loop] \notin Recovery
    PROVE  ReopeningInv' /\ OneRetry'
  <1>1. OneRetry' /\ Retrying' \subseteq Retrying
    <2>1. PlacesInv /\ OneRetry
      BY DEF RecoveryInv
    <2>2. coreReady' \/ exhausted' => coreReady \/ exhausted
      OBVIOUS
    <2> QED
      BY <2>1, <2>2, NoNewRetry
  <1>2. recovering' <=> pc'[Loop] \in Recovery
    <2>1. recovering <=> pc[Loop] \in Recovery
      BY DEF RecoveryInv, ReopeningInv
    <2> QED
      BY <2>1
  <1>3. ASSUME pc'[Loop] \in {"open", "quiet", "identity"}
        PROVE  Retrying' = {} /\ ~coreReady' /\ ~exhausted'
    <2>1. pc[Loop] \in {"open", "quiet", "identity"}
      BY <1>3 DEF Recovery
    <2>2. Retrying = {} /\ ~coreReady /\ ~exhausted
      BY <2>1 DEF RecoveryInv, ReopeningInv
    <2> QED
      BY <2>2, <1>1
  <1> QED
    BY <1>1, <1>2, <1>3 DEF ReopeningInv

-----------------------------------------------------------------------------
\* The invariant survives a report.
LEMMA ReportStep ==
    RecoveryInv /\ (\E p \in Reporters : Report(p)) => RecoveryInv'
  <1> SUFFICES ASSUME RecoveryInv, NEW p \in Reporters, Report(p) PROVE RecoveryInv'
    OBVIOUS
  <1>1. TypeOK'
    BY ReportTypes DEF RecoveryInv
  <1>2. /\ Goto(p, "check") /\ p \in Procs /\ p # Loop /\ p \notin Timers
        /\ UNCHANGED <<timer, recovering, coreReady, exhausted>>
    BY LoopApart DEF Report, Procs, resetVars
  <1>3. PlacesInv' /\ pc'[Loop] = pc[Loop]
    BY <1>2, GotoPlaces DEF RecoveryInv, Sending
  <1> QED
    BY <1>1, <1>2, <1>3, AsideSteps DEF RecoveryInv

\* The invariant survives every step of enqueueModemResetEvent.
LEMMA EnqueueStep ==
    RecoveryInv /\ (\E p \in Procs : Enqueue(p)) => RecoveryInv'
  <1> SUFFICES ASSUME RecoveryInv, NEW p \in Procs, Enqueue(p) PROVE RecoveryInv'
    OBVIOUS
  <1>1. TypeOK' /\ TypeOK /\ PlacesInv
    BY EnqueueTypes DEF RecoveryInv
  <1>2. ASSUME NEW l \in Sending \cup {"idle"}, Goto(p, l), pc[p] \in Sending,
               UNCHANGED <<timer, recovering, coreReady, exhausted>>
        PROVE  RecoveryInv'
    <2>1. pc[p] # "armed" /\ pc[p] \notin Recovery /\ l \notin Recovery
      BY <1>2 DEF Sending, Recovery
    <2>2. PlacesInv' /\ pc'[Loop] = IF p = Loop THEN l ELSE pc[Loop]
      BY <1>1, <1>2, <2>1, GotoPlaces
    <2>3. ReopeningInv' /\ OneRetry'
      BY <1>2, <2>1, <2>2, AsideSteps
    <2> QED
      BY <1>1, <2>2, <2>3 DEF RecoveryInv
  <1>3. CASE Check(p)
    <2>1. PICK l \in {"send", "idle"} : Goto(p, l)
      BY <1>3 DEF Check
    <2> QED
      BY <1>2, <1>3, <2>1 DEF Check, Sending
  <1>4. CASE Send(p)
    <2>1. PICK l \in {"full", "idle"} : Goto(p, l)
      BY <1>4 DEF Send, TrySend
    <2> QED
      BY <1>2, <1>4, <2>1 DEF Send, TrySend, Sending, resetVars
  <1>5. CASE Full(p)
    <2>1. PICK l \in {"arm", "idle"} : Goto(p, l)
      BY <1>5 DEF Full
    <2> QED
      BY <1>2, <1>5, <2>1 DEF Full, Sending
  <1>6. CASE Arm(p)
    <2>1. PICK t \in FreeTimers \cup ({p} \cap Timers) :
             /\ ArmAs(t, "deferred", DeferDelay)
             /\ pc' = [pc EXCEPT ![p] = "idle", ![t] = "armed"]
      BY <1>6 DEF Arm
    <2>2. /\ t \in Timers /\ pc[p] = "arm" /\ UNCHANGED <<recovering, coreReady, exhausted>>
          /\ timer \in [Timers -> TimerValues] /\ pc \in [Procs -> Labels]
      BY <1>1, <1>6, <2>1, TypesSplit DEF Arm, FreeTimers, Types, resetVars
    <2>3. /\ PlacesInv'
          /\ pc'[Loop] = IF p = Loop THEN "idle" ELSE pc[Loop]
          /\ \A u \in Timers : timer'[u].kind = IF u = t THEN "deferred" ELSE timer[u].kind
      <3>1. ArmedBy(p, "idle", t, "deferred")
        BY <2>1, <2>2 DEF ArmedBy, ArmAs
      <3>2. PlacesInv' /\ pc'[Loop] = IF p = Loop THEN "idle" ELSE pc[Loop]
        BY <1>1, <2>2, <3>1, ArmedPlaces
      <3> QED
        BY <3>1, <3>2 DEF ArmedBy
    <2>4. ReopeningInv' /\ OneRetry'
      BY <2>2, <2>3, AsideSteps DEF Recovery
    <2> QED
      BY <1>1, <2>3, <2>4 DEF RecoveryInv
  <1> QED
    BY <1>3, <1>4, <1>5, <1>6 DEF Enqueue

\* The invariant survives every step of a timer's callback.
LEMMA TimerStepStep ==
    RecoveryInv /\ (\E t \in Timers : TimerStep(t)) => RecoveryInv'
  <1> SUFFICES ASSUME RecoveryInv, NEW t \in Timers, TimerStep(t) PROVE RecoveryInv'
    OBVIOUS
  <1>1. TypeOK' /\ TypeOK /\ PlacesInv
    BY TimerTypes DEF RecoveryInv
  <1>2. t \in Procs /\ t # Loop /\ timer \in [Timers -> TimerValues] /\ pc \in [Procs -> Labels]
    BY <1>1, TypesSplit, LoopApart DEF Procs, Types
  <1>3. ASSUME NEW l \in Sending \cup Callback \cup {"idle"}, Goto(t, l), pc[t] # "armed",
               UNCHANGED <<timer, recovering, coreReady, exhausted>>
        PROVE  RecoveryInv'
    <2>1. PlacesInv' /\ pc'[Loop] = pc[Loop]
      BY <1>1, <1>2, <1>3, GotoPlaces
    <2>2. ReopeningInv' /\ OneRetry'
      BY <1>3, <2>1, AsideSteps
    <2> QED
      BY <1>1, <2>1, <2>2 DEF RecoveryInv
  <1>4. CASE Fire(t)
    <2>1. timer[t].kind \in {"deferred", "again", "retry"}
      BY <1>1, <1>2, <1>4 DEF Fire, PlacesInv, TimerValues
    <2>2. PICK l \in {"check", "deferred", "again"} : Goto(t, l)
      BY <1>4, <2>1 DEF Fire
    <2>3. \A q \in Procs : pc'[q] = IF q = t THEN l ELSE pc[q]
      BY <1>2, <2>2 DEF Goto
    <2>4. \A u \in Timers : timer'[u].kind = IF u = t THEN "none" ELSE timer[u].kind
      BY <1>2, <1>4 DEF Fire, NoTimer
    <2>5. PlacesInv'
      BY <1>1, <1>2, <2>3, <2>4, LoopApart DEF PlacesInv, Sending, Callback, Procs
    <2>6. ReopeningInv' /\ OneRetry'
      BY <1>2, <1>4, <2>3, <2>4, <2>5, AsideSteps, LoopApart DEF Fire, resetVars
    <2> QED
      BY <1>1, <2>5, <2>6 DEF RecoveryInv
  <1>5. CASE DeferredWake(t)
    <2>1. PICK l \in {"resend", "idle"} : Goto(t, l)
      BY <1>5 DEF DeferredWake
    <2> QED
      BY <1>3, <1>5, <2>1 DEF DeferredWake, Callback
  <1>6. CASE Resend(t)
    <2>1. PICK l \in {"stillFull", "idle"} : Goto(t, l)
      BY <1>6 DEF Resend, TrySend
    <2> QED
      BY <1>3, <1>6, <2>1 DEF Resend, TrySend, Callback, resetVars
  <1>7. CASE StillFull(t)
    <2>1. ArmedBy(t, "idle", t, "again") /\ UNCHANGED <<recovering, coreReady, exhausted>>
      BY <1>2, <1>7 DEF StillFull, ArmAs, Goto, ArmedBy
    <2>2. /\ PlacesInv' /\ pc'[Loop] = pc[Loop]
          /\ \A u \in Timers : timer'[u].kind = IF u = t THEN "again" ELSE timer[u].kind
      <3>1. PlacesInv' /\ pc'[Loop] = pc[Loop]
        BY <1>1, <1>2, <1>7, <2>1, ArmedPlaces DEF StillFull
      <3> QED
        BY <2>1, <3>1 DEF ArmedBy
    <2>3. ReopeningInv' /\ OneRetry'
      BY <2>1, <2>2, AsideSteps
    <2> QED
      BY <1>1, <2>2, <2>3 DEF RecoveryInv
  <1>8. CASE AgainWake(t)
    BY <1>3, <1>8 DEF AgainWake, Sending
  <1> QED
    BY <1>4, <1>5, <1>6, <1>7, <1>8 DEF TimerStep

\* The phases of a recovery that touch neither the timers nor the verdicts, or
\* that settle them.
LEMMA PhasePlaces ==
    ASSUME RecoveryInv, NEW l \in Recovery, Goto(Loop, l), UNCHANGED timer
    PROVE  PlacesInv' /\ pc'[Loop] = l /\ Retrying' = Retrying
  <1>1. TypeOK /\ PlacesInv
    BY DEF RecoveryInv
  <1>2. PlacesInv' /\ pc'[Loop] = l
    BY <1>1, GotoPlaces, LoopApart
  <1> QED
    BY <1>1, <1>2, RetryKinds

\* The invariant survives scheduleRecoverRetry, from either of its call sites.
LEMMA RetryStep ==
    ASSUME RecoveryInv, TypeOK', pc[Loop] \in {"open", "quiet"}, ScheduleRecoverRetry,
           UNCHANGED <<recovering, coreReady>>
    PROVE  RecoveryInv'
  <1>1. /\ TypeOK /\ PlacesInv /\ Retrying = {} /\ ~coreReady /\ ~exhausted
        /\ recovering
    BY DEF RecoveryInv, ReopeningInv, Recovery
  <1>2. pc \in [Procs -> Labels] /\ "finish" \in Recovery
    BY <1>1, TypesSplit DEF Types, Recovery
  <1>3. CASE exhausted' = TRUE /\ UNCHANGED timer /\ pc' = [pc EXCEPT ![Loop] = "finish"]
    <2>1. PlacesInv' /\ pc'[Loop] = "finish" /\ Retrying' = Retrying
      BY <1>2, <1>3, PhasePlaces DEF Goto
    <2> QED
      BY <1>1, <2>1 DEF RecoveryInv, ReopeningInv, OneRetry, Recovery
  <1>4. CASE /\ UNCHANGED exhausted
             /\ \E t \in FreeTimers, delay \in Nat :
                   /\ timer' = [timer EXCEPT ![t] = [kind |-> "retry", left |-> delay]]
                   /\ pc' = [pc EXCEPT ![Loop] = "finish", ![t] = "armed"]
    <2>1. PICK t \in FreeTimers, delay \in Nat :
             /\ timer' = [timer EXCEPT ![t] = [kind |-> "retry", left |-> delay]]
             /\ pc' = [pc EXCEPT ![Loop] = "finish", ![t] = "armed"]
      BY <1>4
    <2>2. ArmedBy(Loop, "finish", t, "retry") /\ t \in Timers
      <3>1. t \in Timers /\ timer \in [Timers -> TimerValues]
        BY <1>1, TypesSplit DEF FreeTimers, Types
      <3> QED
        BY <1>2, <2>1, <3>1 DEF ArmedBy
    <2>3. /\ PlacesInv' /\ pc'[Loop] = "finish"
          /\ \A u \in Timers : timer'[u].kind = IF u = t THEN "retry" ELSE timer[u].kind
      <3>1. PlacesInv' /\ pc'[Loop] = "finish"
        BY <1>1, <2>2, ArmedPlaces, LoopApart
      <3> QED
        BY <2>2, <3>1 DEF ArmedBy
    <2>4. Retrying' \subseteq {t}
      BY <1>1, <2>3, RetryKinds
    <2> QED
      BY <1>1, <1>4, <2>3, <2>4 DEF RecoveryInv, ReopeningInv, OneRetry, Recovery
  <1> QED
    BY <1>1, <1>3, <1>4, RetryOrVerdict

\* The invariant survives every step of the event loop.
LEMMA LoopStepStep ==
    RecoveryInv /\ LoopStep => RecoveryInv'
  <1> SUFFICES ASSUME RecoveryInv, LoopStep PROVE RecoveryInv'
    OBVIOUS
  <1>1. TypeOK' /\ TypeOK /\ PlacesInv
    BY LoopTypes DEF RecoveryInv
  <1>2. /\ recovering <=> pc[Loop] \in Recovery
        /\ pc[Loop] \in {"open", "quiet", "identity"} => Retrying = {} /\ ~coreReady /\ ~exhausted
        /\ OneRetry
    BY DEF RecoveryInv, ReopeningInv
  <1>3. ASSUME NEW l \in {"open", "quiet", "identity"}, Goto(Loop, l),
               pc[Loop] \in {"open", "quiet"},
               UNCHANGED <<timer, recovering, coreReady, exhausted>>
        PROVE  RecoveryInv'
    <2>1. PlacesInv' /\ pc'[Loop] = l /\ Retrying' = Retrying
      BY <1>3, PhasePlaces DEF Recovery
    <2> QED
      BY <1>1, <1>2, <1>3, <2>1 DEF RecoveryInv, ReopeningInv, OneRetry, Recovery
  <1>4. ASSUME Goto(Loop, "finish"), pc[Loop] \in {"open", "quiet", "identity"},
               UNCHANGED <<timer, recovering>>
        PROVE  RecoveryInv'
    <2>1. PlacesInv' /\ pc'[Loop] = "finish" /\ Retrying' = Retrying
      BY <1>4, PhasePlaces DEF Recovery
    <2>2. Retrying' = {}
      BY <1>2, <1>4, <2>1
    <2> QED
      BY <1>1, <1>2, <1>4, <2>1, <2>2 DEF RecoveryInv, ReopeningInv, OneRetry, Recovery
  <1>5. CASE TakeOther
    <2>1. UNCHANGED <<recovering, coreReady, exhausted, timer, pc>>
      BY <1>5 DEF TakeOther, resetVars
    <2>2. PlacesInv'
      BY <1>1, <2>1 DEF PlacesInv
    <2>3. ReopeningInv' /\ OneRetry'
      BY <2>1, <2>2, AsideSteps
    <2> QED
      BY <1>1, <2>2, <2>3 DEF RecoveryInv
  <1>6. CASE TakeReset
    <2>1. recovering' = TRUE /\ Goto(Loop, "teardown") /\ UNCHANGED <<timer, coreReady, exhausted>>
      BY <1>6 DEF TakeReset
    <2>2. PlacesInv' /\ pc'[Loop] = "teardown" /\ Retrying' = Retrying
      BY <2>1, PhasePlaces DEF Recovery
    <2> QED
      BY <1>1, <1>2, <2>1, <2>2 DEF RecoveryInv, ReopeningInv, OneRetry, Recovery
  <1>7. CASE Teardown
    <2>1. /\ ~coreReady' /\ ~exhausted' /\ recovering' = recovering
          /\ timer' = [t \in Timers |-> NoTimer] /\ pc[Loop] = "teardown"
          /\ \A q \in Procs : pc'[q] = IF q = Loop THEN "open"
                                       ELSE IF pc[q] = "armed" THEN "idle" ELSE pc[q]
      BY <1>7 DEF Teardown, resetVars
    <2>2. \A t \in Timers : timer'[t].kind = "none"
      BY <2>1 DEF NoTimer
    <2>3. PlacesInv'
      BY <1>1, <2>1, <2>2, LoopApart DEF PlacesInv, Sending, Callback, Recovery, Procs
    <2>4. Retrying' = {}
      BY <2>2, <2>3, RetryKinds
    <2> QED
      BY <1>1, <1>2, <2>1, <2>3, <2>4, LoopApart
         DEF RecoveryInv, ReopeningInv, OneRetry, Recovery
  <1>8. CASE OpenSucceeds
    BY <1>3, <1>8 DEF OpenSucceeds, resetVars
  <1>9. CASE OpenFails
    BY <1>1, <1>9, RetryStep DEF OpenFails, resetVars
  <1>10. CASE DeviceGone
    BY <1>4, <1>10 DEF DeviceGone, resetVars
  <1>11. CASE QuietBroken
    BY <1>4, <1>11 DEF QuietBroken, resetVars
  <1>12. CASE QuietHeld
    BY <1>3, <1>12 DEF QuietHeld, resetVars
  <1>13. CASE QuietOverrun
    BY <1>1, <1>13, RetryStep DEF QuietOverrun, resetVars
  <1>14. CASE Converge
    BY <1>4, <1>14 DEF Converge, resetVars
  <1>15. CASE Finish
    <2>1. /\ PlacesInv'
          /\ pc'[Loop] \in {"check", "idle"}
      <3>1. PICK l \in {"check", "idle"} : Goto(Loop, l)
        BY <1>15 DEF Finish
      <3> QED
        BY <1>1, <1>15, <3>1, GotoPlaces, LoopApart DEF Finish, Sending
    <2>2. recovering' = FALSE /\ UNCHANGED <<timer, coreReady, exhausted>>
      BY <1>15 DEF Finish
    <2>3. Retrying' = Retrying
      BY <1>1, <2>1, <2>2, RetryKinds
    <2> QED
      BY <1>1, <1>2, <2>1, <2>2, <2>3 DEF RecoveryInv, ReopeningInv, OneRetry, Recovery
  <1> QED
    BY <1>5, <1>6, <1>7, <1>8, <1>9, <1>10, <1>11, <1>12, <1>13, <1>14, <1>15
       DEF LoopStep, OpenEnds, QuietEnds

\* The invariant survives the passing of time and other events.
LEMMA ClockStep ==
    RecoveryInv /\ (PostOther \/ Tick \/ UNCHANGED vars) => RecoveryInv'
  <1> SUFFICES ASSUME RecoveryInv, PostOther \/ Tick \/ UNCHANGED vars PROVE RecoveryInv'
    OBVIOUS
  <1>1. TypeOK' /\ TypeOK /\ PlacesInv
    BY ClockTypes DEF RecoveryInv
  <1>2. UNCHANGED <<recovering, coreReady, exhausted, pc>>
    BY DEF PostOther, Tick, vars, resetVars
  <1>3. \A t \in Timers : timer'[t].kind = timer[t].kind
    <2>1. \A t \in Timers : timer[t] \in TimerValues
      BY <1>1, TypesSplit DEF Types
    <2>2. CASE Tick
      <3>1. timer' = [t \in Timers |-> [timer[t] EXCEPT !.left = Less(@)]]
        BY <2>2 DEF Tick
      <3> QED
        BY <2>1, <3>1 DEF TimerValues
    <2>3. CASE ~Tick
      BY <2>3 DEF PostOther, vars
    <2> QED
      BY <2>2, <2>3
  <1>4. PlacesInv'
    BY <1>1, <1>2, <1>3 DEF PlacesInv
  <1>5. ReopeningInv' /\ OneRetry'
    BY <1>2, <1>3, <1>4, AsideSteps
  <1> QED
    BY <1>1, <1>4, <1>5 DEF RecoveryInv

\* The inductive invariant of the recovery.
THEOREM RecoveryInvariant == Spec => []RecoveryInv
  <1>1. RecoveryInv /\ [Next]_vars => RecoveryInv'
    BY ReportStep, EnqueueStep, TimerStepStep, LoopStepStep, ClockStep DEF Next
  <1> QED
    BY RecoveryInit, <1>1, PTL DEF Spec

\* Every variable keeps its type: the queue stays within eventCh's capacity and
\* the window within its length.
THEOREM RecoveryTypes == Spec => []TypeOK
  BY RecoveryInvariant, PTL DEF RecoveryInv

\* At most one retry is scheduled, and none once the core is ready again or
\* the terminal event was emitted.
THEOREM RetriesDoNotPileUp == Spec => []OneRetry
  BY RecoveryInvariant, PTL DEF RecoveryInv

-----------------------------------------------------------------------------
\* What is carried is tracked.
LEMMA CarriedIsTracked ==
    /\ PlacesInv /\ Carried => Tracked \/ Stranded \/ FailedFast
    /\ PlacesInv' /\ Carried' => Tracked' \/ Stranded' \/ FailedFast'
  <1>1. \A t \in Timers : t \in Procs
    BY DEF Procs
  <1>2. ASSUME PlacesInv, NEW q \in Procs, Carries(q)
        PROVE  Tracked
    <2>1. CASE pc[q] \in Sending \ {"check"}
      BY <2>1 DEF Tracked, Enqueuing, Sending
    <2>2. CASE q \in Timers /\ pc[q] # "idle"
      BY <2>2 DEF Tracked
    <2>3. CASE q \notin Timers
      BY <1>2, <2>1, <2>3, LoopApart
         DEF Carries, PlacesInv, Sending, Callback, Recovery, Procs
    <2> QED
      BY <1>2, <2>1, <2>2, <2>3 DEF Carries, PlacesInv, Callback
  <1>3. ASSUME PlacesInv', NEW q \in Procs, Carries(q)'
        PROVE  Tracked'
    <2>1. CASE pc'[q] \in Sending \ {"check"}
      BY <2>1 DEF Tracked, Enqueuing, Sending
    <2>2. CASE q \in Timers /\ pc'[q] # "idle"
      BY <2>2 DEF Tracked
    <2>3. CASE q \notin Timers
      BY <1>3, <2>1, <2>3, LoopApart
         DEF Carries, PlacesInv, Sending, Callback, Recovery, Procs
    <2> QED
      BY <1>3, <2>1, <2>2, <2>3 DEF Carries, PlacesInv, Callback
  <1>4. (InQueue("reset") => Tracked) /\ (InQueue("reset")' => Tracked')
    BY DEF Tracked
  <1> QED
    BY <1>2, <1>3, <1>4 DEF Carried

\* Somebody who defers carries.
LEMMA DeferringCarries ==
    /\ \A q \in Procs : Deferring(q) => Carries(q)
    /\ \A q \in Procs : Deferring(q)' => Carries(q)'
  BY DEF Deferring, Carries, Sending, Callback

\* A stranded deferral stays so while nobody starts to defer.
LEMMA StillStranded ==
    ASSUME UNCHANGED deferred, \A q \in Procs : Deferring(q)' => Deferring(q)
    PROVE  Stranded => Stranded'
  BY DEF Stranded

\* An event stays carried while its carriers go on carrying.
LEMMA StillCarried ==
    ASSUME UNCHANGED <<deferred, recovering, coreReady>>,
           InQueue("reset") => InQueue("reset")',
           \A q \in Procs : Carries(q) => Carries(q)',
           \A q \in Procs : Deferring(q)' => Deferring(q)
    PROVE  /\ Carried => Carried'
           /\ Stranded \/ FailedFast => Stranded' \/ FailedFast'
  BY StillStranded DEF Carried, FailedFast

\* A step after which the event is carried needs nothing else.
LEMMA CarriedSuffices ==
    ASSUME PlacesInv', WindowInv', Carried'
    PROVE  ReportInv'
  BY CarriedIsTracked DEF ReportInv, NoResetForgottenUnlessStranded

\* The window's invariant away from the recovery's own steps.
LEMMA AsideWindow ==
    ASSUME WindowInv,
           \/ pc'[Loop] \notin Recovery
           \/ pc'[Loop] = pc[Loop] /\ UNCHANGED <<dedupLeft, phaseLeft, coreReady>>
    PROVE  WindowInv'
  BY DEF WindowInv, Recovery

\* Nothing is forgotten by a report.
LEMMA ReportKeeps ==
    RecoveryInv /\ RecoveryInv' /\ ReportInv /\ (\E p \in Reporters : Report(p)) => ReportInv'
  <1> SUFFICES ASSUME RecoveryInv, RecoveryInv', ReportInv, NEW p \in Reporters, Report(p)
               PROVE  ReportInv'
    OBVIOUS
  <1>1. /\ pc[p] = "idle" /\ p \in Procs /\ p # Loop /\ p \notin Timers
        /\ \A q \in Procs : pc'[q] = IF q = p THEN "check" ELSE pc[q]
        /\ UNCHANGED <<queue, recovering, coreReady, deferred, dedupLeft, phaseLeft, timer>>
    BY LoopApart, TypesSplit DEF Report, Goto, Types, RecoveryInv, Procs, resetVars
  <1>2. WindowInv'
    BY <1>1, AsideWindow, LoopApart DEF ReportInv
  <1>3. Carried => Carried'
    <2>1. InQueue("reset") => InQueue("reset")'
      BY <1>1 DEF InQueue
    <2>2. \A q \in Procs : Carries(q) => Carries(q)'
      BY <1>1 DEF Carries, Sending, Callback
    <2>3. \A q \in Procs : Deferring(q)' => Deferring(q)
      BY <1>1 DEF Deferring
    <2> QED
      BY <1>1, <2>1, <2>2, <2>3, StillCarried
  <1>4. Tracked'
    BY <1>1 DEF Tracked, Enqueuing
  <1> QED
    BY <1>1, <1>2, <1>3, <1>4 DEF ReportInv, NoResetForgottenUnlessStranded

\* The select sends the event, or its goroutine goes on with it.
LEMMA TrySendCarries ==
    ASSUME RecoveryInv, NEW p \in Procs, NEW l \in {"full", "stillFull"}, TrySend(p, l)
    PROVE  Carried'
  <1>1. CASE queue' = Append(queue, "reset")
    BY <1>1, QueueSteps DEF RecoveryInv, Carried, InQueue
  <1>2. CASE Goto(p, l)
    <2>1. pc'[p] = l
      BY <1>2, TypesSplit DEF Goto, Types, RecoveryInv
    <2>2. Carries(p)'
      BY <2>1 DEF Carries, Sending, Callback
    <2> QED
      BY <2>2 DEF Carried
  <1> QED
    BY <1>1, <1>2 DEF TrySend

\* Nothing is forgotten by enqueueModemResetEvent, the full queue included.
LEMMA EnqueueKeeps ==
    RecoveryInv /\ RecoveryInv' /\ ReportInv /\ (\E p \in Procs : Enqueue(p)) => ReportInv'
  <1> SUFFICES ASSUME RecoveryInv, RecoveryInv', ReportInv, NEW p \in Procs, Enqueue(p)
               PROVE  ReportInv'
    OBVIOUS
  <1>1. /\ PlacesInv /\ PlacesInv' /\ WindowInv /\ (recovering <=> pc[Loop] \in Recovery)
        /\ pc \in [Procs -> Labels] /\ timer \in [Timers -> TimerValues]
    BY TypesSplit DEF RecoveryInv, ReopeningInv, Types, ReportInv
  <1>2. pc[p] \in Sending /\ (p \in Timers => timer[p].kind = "none")
    BY <1>1 DEF Enqueue, Check, Send, Full, Arm, Sending, PlacesInv
  <1>3. ASSUME NEW l \in Sending \cup {"idle"}, Goto(p, l)
        PROVE  /\ \A q \in Procs : pc'[q] = IF q = p THEN l ELSE pc[q]
               /\ p = Loop => pc'[Loop] \notin Recovery
               /\ p # Loop => pc'[Loop] = pc[Loop]
    BY <1>1, <1>3, LoopApart DEF Goto, Sending, Recovery
  <1>4. CASE Check(p)
    <2>1. UNCHANGED <<queue, recovering, coreReady, deferred, phaseLeft, timer, dirty>>
      BY <1>4 DEF Check
    <2>2. CASE recovering /\ pending' = TRUE /\ Goto(p, "idle") /\ UNCHANGED dedupLeft
      <3>1. p # Loop
        BY <1>1, <1>2, <2>2 DEF Sending, Recovery
      <3>2. WindowInv'
        BY <1>1, <1>3, <2>1, <2>2, <3>1, AsideWindow
      <3>3. recovering' /\ Tracked'
        BY <2>1, <2>2 DEF Tracked
      <3> QED
        BY <3>2, <3>3 DEF ReportInv, NoResetForgottenUnlessStranded
    <2>3. CASE ~recovering /\ dedupLeft > 0 /\ Goto(p, "idle")
      <3>1. \A q \in Procs : pc'[q] = IF q = p THEN "idle" ELSE pc[q]
        BY <1>3, <2>3
      <3>2. pc[p] = "check"
        BY <1>4 DEF Check
      <3>3. \A q \in Procs : Carries(q) => Carries(q)'
        BY <1>2, <2>1, <3>1, <3>2 DEF Carries, Sending, Callback
      <3>4. \A q \in Procs : Deferring(q)' => Deferring(q)
        BY <2>1, <3>1 DEF Deferring
      <3>5. InQueue("reset") => InQueue("reset")'
        BY <2>1 DEF InQueue
      <3>6. Carried'
        BY <2>1, <2>3, <3>3, <3>4, <3>5, StillCarried DEF ReportInv
      <3>7. pc'[Loop] \notin Recovery
        BY <1>1, <1>3, <2>3
      <3> QED
        BY <1>1, <3>6, <3>7, AsideWindow, CarriedSuffices
    <2>4. CASE ~recovering /\ Goto(p, "send")
      <3>1. pc'[p] = "send" /\ pc'[Loop] \notin Recovery
        BY <1>1, <1>3, <2>4 DEF Sending
      <3>2. Carries(p)'
        BY <3>1 DEF Carries, Sending
      <3>3. Carried'
        BY <3>2 DEF Carried
      <3> QED
        BY <1>1, <3>1, <3>3, AsideWindow, CarriedSuffices
    <2> QED
      BY <1>4, <2>2, <2>3, <2>4 DEF Check
  <1>5. CASE Send(p)
    <2>1. PICK l \in {"full", "idle"} : Goto(p, l)
      BY <1>5 DEF Send, TrySend
    <2>2. UNCHANGED <<dedupLeft, phaseLeft, coreReady>>
      BY <1>5 DEF Send, TrySend, resetVars
    <2>3. WindowInv'
      BY <1>1, <1>3, <2>1, <2>2, AsideWindow DEF Sending
    <2>4. Carried'
      BY <1>5, TrySendCarries DEF Send
    <2> QED
      BY <1>1, <2>3, <2>4, CarriedSuffices
  <1>6. CASE Full(p)
    <2>1. PICK l \in {"arm", "idle"} : Goto(p, l)
      BY <1>6 DEF Full
    <2>2. pc[p] = "full" /\ UNCHANGED <<queue, dedupLeft, phaseLeft, coreReady, timer>>
      BY <1>6 DEF Full
    <2>3. WindowInv'
      BY <1>1, <1>3, <2>1, <2>2, AsideWindow DEF Sending
    <2>4. CASE deferred /\ Goto(p, "idle") /\ UNCHANGED deferred
      <3>1. \A q \in Procs : pc'[q] = IF q = p THEN "idle" ELSE pc[q]
        BY <1>3, <2>4
      <3>2. \A q \in Procs : Deferring(q) => Deferring(q)'
        BY <1>2, <2>2, <3>1 DEF Deferring
      <3>3. \A q \in Procs : Deferring(q)' => Deferring(q)
        BY <2>2, <3>1 DEF Deferring
      <3>4. (\E q \in Procs : Deferring(q)) => Carried'
        BY <3>2, DeferringCarries DEF Carried
      <3>5. (~\E q \in Procs : Deferring(q)) => Carried'
        BY <2>4, <3>3, StillStranded DEF Stranded, Carried
      <3>6. Carried'
        BY <3>4, <3>5
      <3> QED
        BY <1>1, <2>3, <3>6, CarriedSuffices
    <2>5. CASE Goto(p, "arm")
      <3>1. pc'[p] = "arm"
        BY <1>3, <2>5 DEF Sending
      <3>2. Carries(p)'
        BY <3>1 DEF Carries, Sending
      <3>3. Carried'
        BY <3>2 DEF Carried
      <3> QED
        BY <1>1, <2>3, <3>3, CarriedSuffices
    <2> QED
      BY <1>6, <2>4, <2>5 DEF Full
  <1>7. CASE Arm(p)
    <2>1. PICK t \in FreeTimers \cup ({p} \cap Timers) :
             /\ ArmAs(t, "deferred", DeferDelay)
             /\ pc' = [pc EXCEPT ![p] = "idle", ![t] = "armed"]
      BY <1>7 DEF Arm
    <2>2. t \in Timers /\ t \in Procs /\ t # Loop /\ UNCHANGED <<dedupLeft, phaseLeft, coreReady>>
      BY <1>7, <2>1, LoopApart DEF Arm, FreeTimers, Procs, resetVars
    <2>3. timer'[t].kind = "deferred" /\ pc'[Loop] = IF p = Loop THEN "idle" ELSE pc[Loop]
      BY <1>1, <2>1, <2>2, LoopApart DEF ArmAs
    <2>4. WindowInv'
      BY <1>1, <2>2, <2>3, AsideWindow DEF Recovery
    <2>5. Carried'
      BY <2>2, <2>3 DEF Carried, Carries
    <2> QED
      BY <1>1, <2>4, <2>5, CarriedSuffices
  <1> QED
    BY <1>4, <1>5, <1>6, <1>7 DEF Enqueue

\* Nothing is forgotten by a timer's callback.
LEMMA TimerKeeps ==
    RecoveryInv /\ RecoveryInv' /\ ReportInv /\ (\E t \in Timers : TimerStep(t)) => ReportInv'
  <1> SUFFICES ASSUME RecoveryInv, RecoveryInv', ReportInv, NEW t \in Timers, TimerStep(t)
               PROVE  ReportInv'
    OBVIOUS
  <1>1. /\ PlacesInv /\ PlacesInv' /\ WindowInv /\ (recovering <=> pc[Loop] \in Recovery)
        /\ pc \in [Procs -> Labels] /\ timer \in [Timers -> TimerValues]
        /\ t \in Procs /\ t # Loop
    BY TypesSplit, LoopApart DEF RecoveryInv, ReopeningInv, Types, ReportInv, Procs
  <1>2. ASSUME NEW l, Goto(t, l)
        PROVE  \A q \in Procs : pc'[q] = IF q = t THEN l ELSE pc[q]
    BY <1>1, <1>2 DEF Goto
  <1>3. pc'[Loop] = pc[Loop]
    BY <1>1, LoopApart
       DEF TimerStep, Fire, DeferredWake, Resend, TrySend, StillFull, AgainWake, Goto
  <1>4. UNCHANGED <<phaseLeft, coreReady>>
    BY DEF TimerStep, Fire, DeferredWake, Resend, TrySend, StillFull, AgainWake
  <1>5. WindowInv'
    <2>1. CASE dedupLeft' = dedupLeft \/ pc[Loop] \notin Recovery
      BY <1>1, <1>3, <1>4, <2>1, AsideWindow
    <2>2. CASE dedupLeft' = 0
      <3>1. phaseLeft \in Nat
        BY TypesSplit DEF Types, RecoveryInv
      <3> QED
        BY <1>1, <1>3, <1>4, <2>2, <3>1 DEF WindowInv
    <2>3. dedupLeft' = dedupLeft \/ pc[Loop] \notin Recovery \/ dedupLeft' = 0
      BY <1>1 DEF TimerStep, Fire, DeferredWake, Resend, TrySend, StillFull, AgainWake,
                  resetVars
    <2> QED
      BY <2>1, <2>2, <2>3
  <1>6. CASE Fire(t)
    <2>1. timer[t].kind \in {"deferred", "again", "retry"} /\ pc[t] = "armed"
      BY <1>1, <1>6 DEF Fire, PlacesInv, TimerValues
    <2>2. UNCHANGED <<queue, recovering, coreReady, deferred, dedupLeft, dirty>>
      BY <1>6 DEF Fire, resetVars
    <2>3. CASE timer[t].kind # "retry"
      <3>1. pc'[t] \in {"deferred", "again"}
        BY <1>2, <1>1, <1>6, <2>1, <2>3 DEF Fire
      <3>2. Carries(t)'
        BY <3>1 DEF Carries, Callback, Sending
      <3>3. Carried'
        BY <1>1, <3>2 DEF Carried
      <3> QED
        BY <1>1, <1>5, <3>3, CarriedSuffices
    <2>4. CASE timer[t].kind = "retry"
      <3>1. \A q \in Procs : pc'[q] = IF q = t THEN "check" ELSE pc[q]
        BY <1>2, <1>6, <2>4 DEF Fire
      <3>2. \A u \in Timers : timer'[u].kind = IF u = t THEN "none" ELSE timer[u].kind
        BY <1>1, <1>6 DEF Fire, NoTimer
      <3>3. \A q \in Procs : Carries(q) => Carries(q)'
        BY <2>1, <2>4, <3>1, <3>2 DEF Carries, Sending, Callback
      <3>4. \A q \in Procs : Deferring(q)' => Deferring(q)
        BY <3>1, <3>2 DEF Deferring
      <3>5. InQueue("reset") => InQueue("reset")'
        BY <2>2 DEF InQueue
      <3>6. Carried => Carried'
        BY <2>2, <3>3, <3>4, <3>5, StillCarried
      <3>7. Tracked'
        BY <1>1, <3>1 DEF Tracked, Enqueuing
      <3> QED
        BY <1>5, <2>2, <3>6, <3>7 DEF ReportInv, NoResetForgottenUnlessStranded
    <2> QED
      BY <2>3, <2>4
  <1>7. CASE DeferredWake(t)
    <2>1. CASE recovering /\ pending' = TRUE
      <3>1. recovering'
        BY <1>7, <2>1 DEF DeferredWake
      <3>2. Tracked'
        BY <2>1, <3>1 DEF Tracked
      <3> QED
        BY <1>5, <3>1, <3>2 DEF ReportInv, NoResetForgottenUnlessStranded
    <2>2. CASE Goto(t, "resend")
      <3>1. pc'[t] = "resend"
        BY <1>1, <1>2, <2>2
      <3>2. Carries(t)'
        BY <3>1 DEF Carries, Callback, Sending
      <3>3. Carried'
        BY <1>1, <3>2 DEF Carried
      <3> QED
        BY <1>1, <1>5, <3>3, CarriedSuffices
    <2> QED
      BY <1>7, <2>1, <2>2 DEF DeferredWake
  <1>8. CASE Resend(t)
    <2>1. Carried'
      BY <1>1, <1>8, TrySendCarries DEF Resend
    <2> QED
      BY <1>1, <1>5, <2>1, CarriedSuffices
  <1>9. CASE StillFull(t)
    <2>1. timer'[t].kind = "again"
      BY <1>1, <1>9 DEF StillFull, ArmAs
    <2>2. Carried'
      BY <1>1, <2>1 DEF Carried, Carries
    <2> QED
      BY <1>1, <1>5, <2>2, CarriedSuffices
  <1>10. CASE AgainWake(t)
    <2>1. pc'[t] = "check" /\ dedupLeft' = 0
      BY <1>1, <1>2, <1>10 DEF AgainWake
    <2>2. Tracked'
      BY <1>1, <2>1 DEF Tracked, Enqueuing
    <2> QED
      BY <1>5, <2>1, <2>2 DEF ReportInv, NoResetForgottenUnlessStranded
  <1> QED
    BY <1>6, <1>7, <1>8, <1>9, <1>10 DEF TimerStep

\* A step of the recovery itself, once the window is over, up to its end.
LEMMA PhaseKeeps ==
    ASSUME RecoveryInv, ReportInv, recovering, pc[Loop] # "teardown", WindowInv',
           UNCHANGED <<queue, recovering, pending, deferred, timer, dirty>>,
           NEW l \in Recovery, Goto(Loop, l)
    PROVE  ReportInv'
  <1>1. /\ \A q \in Procs : pc'[q] = IF q = Loop THEN l ELSE pc[q]
        /\ pc[Loop] \in Recovery /\ Loop \in Procs /\ Loop \notin Timers
        /\ \A t \in Timers : t \in Procs
    BY TypesSplit, LoopApart DEF RecoveryInv, ReopeningInv, Types, Goto, Procs
  <1>2. \A q \in Procs : Deferring(q)' => Deferring(q)
    BY <1>1 DEF Deferring, Recovery
  <1>3. Stranded => Stranded'
    BY <1>2, StillStranded
  <1>4. Tracked => Tracked'
    <2>1. (InQueue("reset") => Tracked') /\ (pending => Tracked')
      BY DEF InQueue, Tracked
    <2>2. ASSUME NEW q \in Procs, Enqueuing(q)
          PROVE  Tracked'
      <3>1. Enqueuing(q)'
        BY <1>1, <2>2 DEF Enqueuing, Recovery
      <3> QED
        BY <3>1 DEF Tracked
    <2>3. ASSUME NEW t \in Timers, pc[t] # "idle"
          PROVE  Tracked'
      <3>1. pc'[t] # "idle"
        BY <1>1, <2>3
      <3> QED
        BY <3>1 DEF Tracked
    <2> QED
      BY <2>1, <2>2, <2>3 DEF Tracked
  <1>5. ~FailedFast /\ recovering'
    BY DEF FailedFast
  <1> QED
    BY <1>3, <1>4, <1>5 DEF ReportInv, NoResetForgottenUnlessStranded

\* Nothing is forgotten by scheduleRecoverRetry.
LEMMA RetryKeeps ==
    ASSUME RecoveryInv, ReportInv, pc[Loop] \in {"open", "quiet"}, ScheduleRecoverRetry,
           WindowInv', UNCHANGED <<queue, recovering, pending, deferred, dirty>>
    PROVE  ReportInv'
  <1>1. TypeOK /\ recovering /\ pc \in [Procs -> Labels] /\ pc[Loop] # "teardown"
    BY TypesSplit DEF RecoveryInv, ReopeningInv, Recovery, Types
  <1>2. CASE UNCHANGED timer /\ pc' = [pc EXCEPT ![Loop] = "finish"]
    <2>1. Goto(Loop, "finish") /\ "finish" \in Recovery
      BY <1>2 DEF Goto, Recovery
    <2> QED
      BY <1>1, <1>2, <2>1, PhaseKeeps
  <1>3. CASE \E t \in FreeTimers : pc' = [pc EXCEPT ![Loop] = "finish", ![t] = "armed"]
    <2>1. PICK t \in FreeTimers : pc' = [pc EXCEPT ![Loop] = "finish", ![t] = "armed"]
      BY <1>3
    <2>2. t \in Timers /\ pc'[t] = "armed"
      BY <1>1, <2>1 DEF FreeTimers, Procs
    <2>3. Tracked'
      BY <2>2 DEF Tracked
    <2> QED
      BY <1>1, <2>3 DEF ReportInv, NoResetForgottenUnlessStranded
  <1> QED
    BY <1>1, <1>2, <1>3, RetryOrVerdict

\* Nothing is forgotten by a recovery.
LEMMA LoopKeeps ==
    RecoveryInv /\ RecoveryInv' /\ ReportInv /\ LoopStep => ReportInv'
  <1> SUFFICES ASSUME RecoveryInv, RecoveryInv', ReportInv, LoopStep
               PROVE  ReportInv'
    OBVIOUS
  <1>1. /\ TypeOK /\ PlacesInv /\ PlacesInv' /\ WindowInv
        /\ (recovering <=> pc[Loop] \in Recovery)
        /\ pc \in [Procs -> Labels] /\ Loop \in Procs /\ Loop \notin Timers
        /\ dedupLeft \in Nat /\ dedupLeft <= DedupWindow /\ phaseLeft \in Nat
        /\ (pc[Loop] \in {"open", "quiet", "identity"} => ~coreReady)
    BY TypesSplit, LoopApart DEF RecoveryInv, ReopeningInv, Types, ReportInv
  <1>2. ASSUME NEW l, Goto(Loop, l)
        PROVE  \A q \in Procs : pc'[q] = IF q = Loop THEN l ELSE pc[q]
    BY <1>1, <1>2 DEF Goto
  <1>3. ASSUME NEW l \in {"quiet", "identity", "finish"}, Goto(Loop, l),
               pc[Loop] \in {"open", "quiet", "identity"},
               UNCHANGED <<queue, recovering, pending, deferred, dedupLeft, timer, dirty>>,
               l = "quiet" => /\ dedupLeft <= phaseLeft'
                              /\ OpenTime >= DedupWindow => dedupLeft = 0,
               l = "identity" => dedupLeft = 0,
               l = "finish" => dedupLeft = 0 \/ (OpenTime < DedupWindow /\ ~coreReady')
        PROVE  ReportInv'
    <2>1. WindowInv'
      BY <1>1, <1>2, <1>3 DEF WindowInv
    <2>2. recovering /\ pc[Loop] # "teardown" /\ l \in Recovery
      BY <1>1, <1>3 DEF Recovery
    <2> QED
      BY <1>3, <2>1, <2>2, PhaseKeeps
  <1>4. CASE TakeOther
    <2>1. /\ UNCHANGED <<recovering, coreReady, pending, deferred, dedupLeft, phaseLeft, timer,
                         pc, dirty>>
          /\ queue # <<>> /\ Head(queue) = "other" /\ queue' = Tail(queue)
      BY <1>4 DEF TakeOther, resetVars
    <2>2. InQueue("reset") <=> InQueue("reset")'
      <3>1. ToSet(queue) = {"other"} \cup ToSet(queue')
        BY <1>1, <2>1, QueueSteps
      <3> QED
        BY <3>1 DEF InQueue
    <2>3. (Carried => Carried') /\ (Stranded \/ FailedFast => Stranded' \/ FailedFast')
      BY <2>1, <2>2, StillCarried DEF Carries, Deferring
    <2>4. Tracked => Tracked'
      BY <2>1, <2>2 DEF Tracked, Enqueuing
    <2>5. WindowInv'
      BY <1>1, <2>1, AsideWindow
    <2> QED
      BY <2>1, <2>3, <2>4, <2>5 DEF ReportInv, NoResetForgottenUnlessStranded
  <1>5. CASE TakeReset
    <2>1. pc'[Loop] = "teardown" /\ recovering' = TRUE
      BY <1>1, <1>2, <1>5 DEF TakeReset
    <2>2. WindowInv' /\ Tracked'
      BY <2>1 DEF WindowInv, Tracked
    <2> QED
      BY <2>1, <2>2 DEF ReportInv, NoResetForgottenUnlessStranded
  <1>6. CASE Teardown
    <2>1. /\ pc[Loop] = "teardown" /\ pc'[Loop] = "open" /\ phaseLeft' = OpenTime
          /\ dirty' = FALSE /\ UNCHANGED <<recovering, dedupLeft>>
      BY <1>1, <1>6 DEF Teardown, resetVars
    <2>2. WindowInv'
      BY <1>1, <2>1, Delays DEF WindowInv
    <2> QED
      BY <1>1, <2>1, <2>2 DEF ReportInv, NoResetForgottenUnlessStranded, Recovery
  <1>7. CASE OpenSucceeds \/ DeviceGone
    <2>1. /\ pc[Loop] = "open" /\ phaseLeft = 0 /\ UNCHANGED coreReady
          /\ UNCHANGED <<queue, recovering, pending, deferred, dedupLeft, timer, dirty>>
      BY <1>7 DEF OpenSucceeds, DeviceGone, resetVars
    <2>2. OpenTime >= DedupWindow => dedupLeft = 0
      BY <1>1, <2>1 DEF WindowInv
    <2>3. CASE OpenSucceeds
      <3>1. Goto(Loop, "quiet") /\ phaseLeft' = QuietWindow
        BY <2>3 DEF OpenSucceeds
      <3>2. dedupLeft <= phaseLeft'
        BY <1>1, <3>1, Delays
      <3> QED
        BY <1>3, <2>1, <2>2, <3>1, <3>2
    <2>4. CASE DeviceGone
      <3>1. Goto(Loop, "finish")
        BY <2>4 DEF DeviceGone
      <3>2. ~coreReady'
        BY <1>1, <2>1
      <3>3. dedupLeft = 0 \/ OpenTime < DedupWindow
        BY <2>2, Delays
      <3> QED
        BY <1>3, <2>1, <3>1, <3>2, <3>3
    <2> QED
      BY <1>7, <2>3, <2>4
  <1>8. CASE OpenFails \/ QuietOverrun
    <2>1. /\ pc[Loop] \in {"open", "quiet"} /\ ScheduleRecoverRetry /\ phaseLeft = 0
          /\ UNCHANGED <<queue, recovering, pending, deferred, dirty, dedupLeft, phaseLeft>>
      BY <1>8 DEF OpenFails, QuietOverrun, resetVars
    <2>2. (OpenTime >= DedupWindow \/ pc[Loop] = "quiet" => dedupLeft' = 0) /\ ~coreReady'
      <3>1. UNCHANGED coreReady
        BY <1>8 DEF OpenFails, QuietOverrun
      <3> QED
        BY <1>1, <2>1, <3>1 DEF WindowInv
    <2>3. pc'[Loop] = "finish"
      <3>1. \/ pc' = [pc EXCEPT ![Loop] = "finish"]
            \/ \E t \in FreeTimers : pc' = [pc EXCEPT ![Loop] = "finish", ![t] = "armed"]
        BY <1>1, <2>1, RetryOrVerdict
      <3> QED
        BY <1>1, <3>1 DEF FreeTimers
    <2>4. WindowInv'
      BY <2>2, <2>3, Delays DEF WindowInv
    <2> QED
      BY <2>1, <2>4, RetryKeeps
  <1>9. CASE QuietBroken \/ QuietHeld
    <2>1. /\ pc[Loop] = "quiet" /\ UNCHANGED coreReady
          /\ UNCHANGED <<queue, recovering, pending, deferred, dedupLeft, timer, dirty>>
      BY <1>9 DEF QuietBroken, QuietHeld, resetVars
    <2>2. /\ dedupLeft <= phaseLeft /\ ~coreReady'
          /\ dedupLeft = 0 \/ OpenTime < DedupWindow
      BY <1>1, <2>1, Delays DEF WindowInv
    <2>3. CASE QuietBroken
      <3>1. Goto(Loop, "finish")
        BY <2>3 DEF QuietBroken
      <3> QED
        BY <1>3, <2>1, <2>2, <3>1
    <2>4. CASE QuietHeld
      <3>1. Goto(Loop, "identity") /\ phaseLeft = 0
        BY <2>4 DEF QuietHeld
      <3>2. dedupLeft = 0
        BY <1>1, <2>2, <3>1
      <3> QED
        BY <1>3, <2>1, <3>1, <3>2
    <2> QED
      BY <1>9, <2>3, <2>4
  <1>11. CASE Converge
    <2>1. /\ pc[Loop] = "identity" /\ Goto(Loop, "finish")
          /\ UNCHANGED <<queue, recovering, pending, deferred, dedupLeft, timer, dirty>>
      BY <1>11 DEF Converge, resetVars
    <2>2. dedupLeft = 0
      BY <1>1, <2>1 DEF WindowInv
    <2> QED
      BY <1>3, <2>1, <2>2
  <1>10. CASE Finish
    <2>1. /\ pc[Loop] = "finish" /\ Goto(Loop, IF pending THEN "check" ELSE "idle")
          /\ UNCHANGED <<queue, deferred, dedupLeft, timer, dirty, coreReady>>
          /\ recovering' = FALSE
      BY <1>10 DEF Finish
    <2>2. dedupLeft' > 0 => FailedFast'
      BY <1>1, <2>1, Delays DEF WindowInv, FailedFast
    <2>3. \A q \in Procs : pc'[q] = IF q = Loop THEN (IF pending THEN "check" ELSE "idle")
                                    ELSE pc[q]
      BY <1>2, <2>1
    <2>4. WindowInv'
      BY <1>1, <2>3 DEF WindowInv
    <2>7. ~FailedFast
      <3>1. recovering
        BY <1>1, <2>1 DEF Recovery
      <3> QED
        BY <3>1 DEF FailedFast
    <2>5. Stranded => Stranded'
      <3>1. \A q \in Procs : Deferring(q)' => Deferring(q)
        BY <2>1, <2>3 DEF Deferring
      <3> QED
        BY <2>1, <3>1, StillStranded
    <2>6. Tracked => Tracked'
      <3>1. CASE pending
        <4>1. Enqueuing(Loop)'
          BY <1>1, <2>3, <3>1 DEF Enqueuing
        <4> QED
          BY <1>1, <4>1 DEF Tracked
      <3>2. CASE ~pending
        <4>1. \A q \in Procs : Enqueuing(q) => Enqueuing(q)'
          BY <2>1, <2>3 DEF Enqueuing
        <4>2. \A t \in Timers : pc'[t] = pc[t]
          BY <1>1, <2>3 DEF Procs
        <4>3. InQueue("reset") => InQueue("reset")'
          BY <2>1 DEF InQueue
        <4> QED
          BY <2>1, <3>2, <4>1, <4>2, <4>3 DEF Tracked
      <3> QED
        BY <3>1, <3>2
    <2> QED
      BY <2>1, <2>2, <2>4, <2>5, <2>6, <2>7 DEF ReportInv, NoResetForgottenUnlessStranded, Carried
  <1> QED
    BY <1>4, <1>5, <1>6, <1>7, <1>8, <1>9, <1>10, <1>11 DEF LoopStep, OpenEnds, QuietEnds

\* Nothing is forgotten as time goes by.
LEMMA ClockKeeps ==
    RecoveryInv /\ RecoveryInv' /\ ReportInv /\ (PostOther \/ Tick \/ UNCHANGED vars)
       => ReportInv'
  <1> SUFFICES ASSUME RecoveryInv, RecoveryInv', ReportInv, PostOther \/ Tick \/ UNCHANGED vars
               PROVE  ReportInv'
    OBVIOUS
  <1>1. UNCHANGED <<recovering, coreReady, pending, deferred, pc, dirty>>
    BY DEF PostOther, Tick, vars, resetVars
  <1>2. /\ dedupLeft \in Nat /\ phaseLeft \in Nat /\ timer \in [Timers -> TimerValues]
        /\ TypeOK /\ WindowInv
    BY TypesSplit DEF Types, RecoveryInv, ReportInv
  <1>3. InQueue("reset") => InQueue("reset")'
    <2>1. CASE PostOther
      <3>1. queue' = Append(queue, "other")
        BY <2>1 DEF PostOther
      <3> QED
        BY <1>2, <3>1, QueueSteps DEF InQueue
    <2>2. CASE ~PostOther
      BY <2>2 DEF Tick, vars, InQueue
    <2> QED
      BY <2>1, <2>2
  <1>4. \A t \in Timers : timer'[t].kind = timer[t].kind
    <2>1. CASE Tick
      BY <1>2, <2>1 DEF Tick, TimerValues
    <2>2. CASE ~Tick
      BY <2>2 DEF PostOther, vars
    <2> QED
      BY <2>1, <2>2
  <1>5. WindowInv' /\ (dedupLeft' > 0 => dedupLeft > 0)
    <2>1. CASE Tick
      BY <1>1, <1>2, <2>1 DEF Tick, Less, WindowInv
    <2>2. CASE ~Tick
      BY <1>1, <1>2, <2>2 DEF PostOther, vars, WindowInv, resetVars
    <2> QED
      BY <2>1, <2>2
  <1>6. (Carried => Carried') /\ (Stranded \/ FailedFast => Stranded' \/ FailedFast')
    BY <1>1, <1>3, <1>4, StillCarried DEF Carries, Deferring
  <1>7. Tracked => Tracked'
    BY <1>1, <1>3 DEF Tracked, Enqueuing
  <1> QED
    BY <1>1, <1>5, <1>6, <1>7 DEF ReportInv, NoResetForgottenUnlessStranded

\* No report is forgotten, but for a deferral whose timer a recovery stopped and
\* for what comes between a reopening that failed inside the debounce window and
\* the next recovery; there the core is not ready.
THEOREM ReportsAreNotForgotten == Spec => []NoResetForgottenUnlessStranded
  <1>1. Init => ReportInv
    <2>1. Init => WindowInv
      BY LoopApart DEF Init, WindowInv
    <2>2. Init => ~(dedupLeft > 0) /\ ~dirty
      BY DEF Init
    <2> QED
      BY <2>1, <2>2 DEF ReportInv, NoResetForgottenUnlessStranded
  <1>2. RecoveryInv /\ RecoveryInv' /\ ReportInv /\ [Next]_vars => ReportInv'
    BY ReportKeeps, EnqueueKeeps, TimerKeeps, LoopKeeps, ClockKeeps DEF Next
  <1>3. ReportInv => NoResetForgottenUnlessStranded
    BY DEF ReportInv
  <1> QED
    BY RecoveryInvariant, <1>1, <1>2, <1>3, PTL DEF Spec
=============================================================================
