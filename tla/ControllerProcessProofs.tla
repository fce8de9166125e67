----------------------- MODULE ControllerProcessProofs -----------------------
(***************************************************************************)
(* Theorems about ControllerProcess, for every set of environments, width  *)
(* of a Duration, pool, partition and cluster.                             *)
(***************************************************************************)
EXTENDS ControllerProcess, RequestConsumerProofs

-----------------------------------------------------------------------------
(***************************************************************************)
(* The arithmetic of the cleanup policy.                                   *)
(***************************************************************************)

\* A remainder lies below its divisor, and is the number itself if that does.
LEMMA Remainder ==
  ASSUME NEW a \in Int, NEW d \in Nat \ {0}
  PROVE  /\ a % d \in 0 .. d - 1
         /\ a \in 0 .. d - 1 => a % d = a
  OBVIOUS

\* A product of Durations is a Duration, and is not less than the true product
\* unless that is too large.
LEMMA WrappedBounds ==
  ASSUME NEW n \in Int
  PROVE  /\ Wrapped(n) \in Word
         /\ n < Half => Wrapped(n) >= n
<1>1. /\ Half \in Nat /\ Half > 0
      /\ n + Half \in Int /\ 2 * Half \in Nat \ {0}
  BY DurationAssumption
<1> DEFINE r == (n + Half) % (2 * Half)
<1>2. r \in 0 .. 2 * Half - 1
  BY <1>1, Remainder
<1>3. n + Half \in 0 .. 2 * Half - 1 => r = n + Half
  BY <1>1, Remainder
<1>4. Wrapped(n) = r - Half
  BY DEF Wrapped
<1> HIDE DEF r
<1> QED
  BY <1>1, <1>2, <1>3, <1>4 DEF Word

\* Every setting of the cleanup is read as a number of some kind.
LEMMA SettingsAreNumbers ==
  ASSUME environment \in Environments
  PROVE  LET config == Load(environment) IN
         {config.completed.n, config.failed.n, config.check.n} \subseteq Int
<1>1. \A t \in Settings : environment[t] \in Text
  BY EnvironmentsAssumption
<1>2. \A t \in Text : t.n \in Int
  BY DurationAssumption DEF Text, Word
<1>3. \A t \in Text, d \in Nat : readEnv(t, d).n \in Int
  BY <1>2 DEF readEnv, Number
<1> QED
  BY <1>1, <1>3, DefaultsAssumption DEF Load, Settings

\* The policy is made of Durations.
LEMMA PolicyTypes ==
  ASSUME environment \in Environments
  PROVE  /\ {Policy.completed, Policy.failed, Policy.interval} \subseteq Word
         /\ LET asked == Asked(Load(environment)) IN
            /\ asked["completed"] \in Int /\ asked["failed"] \in Int
            /\ asked["completed"] < Half => Policy.completed >= asked["completed"]
            /\ asked["failed"] < Half => Policy.failed >= asked["failed"]
<1> DEFINE config == Load(environment)
<1>1. /\ config.completed.n \in Int /\ config.failed.n \in Int /\ config.check.n \in Int
  BY SettingsAreNumbers
<1>2. Minute \in Int /\ Day \in Int
  BY DurationAssumption
<1> HIDE DEF config
<1>3. /\ config.completed.n * Minute \in Int
      /\ config.failed.n * Day \in Int
      /\ config.check.n * Minute \in Int
  BY <1>1, <1>2
<1>4. /\ Wrapped(config.completed.n * Minute) \in Word
      /\ Wrapped(config.failed.n * Day) \in Word
      /\ Wrapped(config.check.n * Minute) \in Word
      /\ config.completed.n * Minute < Half
           => Wrapped(config.completed.n * Minute) >= config.completed.n * Minute
      /\ config.failed.n * Day < Half
           => Wrapped(config.failed.n * Day) >= config.failed.n * Day
  BY <1>3, WrappedBounds
<1>5. /\ Policy.completed = Wrapped(config.completed.n * Minute)
      /\ Policy.failed = Wrapped(config.failed.n * Day)
      /\ Policy.interval = Wrapped(config.check.n * Minute)
  BY DEF Policy, CleanupPolicy, config
<1>6. /\ Asked(config)["completed"] = config.completed.n * Minute
      /\ Asked(config)["failed"] = config.failed.n * Day
  BY DEF Asked
<1> QED
  BY <1>3, <1>4, <1>5, <1>6 DEF config

-----------------------------------------------------------------------------
(***************************************************************************)
(* The process implements the consumer.  A goroutine reports ctx's error   *)
(* only once ctx is done, so that main takes no such report of a process   *)
(* nobody told to stop.                                                    *)
(***************************************************************************)
Told ==
    /\ closed => cancelled
    /\ \A i \in 1 .. Len(errCh) : errCh[i].err = "canceled" => cancelled

Report == [from : {"consumer", "observation", "cleanup"}, err : {"canceled", "failure"}]

ReportsTyped == errCh \in Seq(Report)

\* What a report adds to errCh.
LEMMA SentReport ==
  ASSUME ReportsTyped, NEW f \in {"consumer", "observation", "cleanup"},
         NEW e \in {"canceled", "failure"}, errCh' = Sent(f, e)
  PROVE  /\ ReportsTyped'
         /\ Len(errCh) \in Nat
         /\ Len(errCh') = Len(errCh) + 1
         /\ \A i \in 1 .. Len(errCh) : errCh'[i] = errCh[i]
         /\ errCh'[Len(errCh) + 1] = [from |-> f, err |-> e]
<1>1. [from |-> f, err |-> e] \in Report
  BY DEF Report
<1> QED
  BY <1>1, AppendProperties, LenProperties DEF ReportsTyped, Sent

\* A report of ctx's error, made when ctx is done, or of another error keeps Told.
LEMMA SentIsTold ==
  ASSUME Told, ReportsTyped, NEW f \in {"consumer", "observation", "cleanup"},
         NEW e \in {"canceled", "failure"}, errCh' = Sent(f, e),
         e = "canceled" => cancelled, UNCHANGED vars
  PROVE  Told' /\ ReportsTyped'
<1>1. closed' = closed /\ cancelled' = cancelled
  BY DEF vars
<1>2. \A i \in 1 .. Len(errCh) + 1 : i \in 1 .. Len(errCh) \/ i = Len(errCh) + 1
  BY SentReport
<1> QED
  BY <1>1, <1>2, SentReport DEF Told

\* A process that has just been started was told nothing.
LEMMA FreshIsTold ==
  ASSUME Reboot, errCh' = <<>>
  PROVE  Told' /\ ReportsTyped'
  BY EmptySeq DEF Reboot, Told, ReportsTyped

\* Initially nothing was reported.
LEMMA ToldInit == ProcessInit => Told /\ ReportsTyped
  BY EmptySeq DEF ProcessInit, Init, Told, ReportsTyped

\* What the steps that neither end the process nor report do to errCh and ctx.
LEMMA ToldKept ==
  ASSUME Told, ReportsTyped, errCh' = errCh,
         cancelled => cancelled', closed' => closed \/ cancelled
  PROVE  Told' /\ ReportsTyped'
  BY DEF Told, ReportsTyped

\* Every step keeps that.
LEMMA ToldStep == Told /\ ReportsTyped /\ [ProcessNext]_everything => Told' /\ ReportsTyped'
<1> SUFFICES ASSUME Told, ReportsTyped, [ProcessNext]_everything
             PROVE  Told' /\ ReportsTyped'
  OBVIOUS
<1>1. CASE UNCHANGED <<vars, errCh>>
  BY <1>1, ToldKept DEF vars
<1>2. ASSUME ProcessEnds, Reboot PROVE Told' /\ ReportsTyped'
  BY <1>2, FreshIsTold DEF ProcessEnds
<1>3. CASE Consume
  <2>1. errCh' = errCh
    BY <1>3 DEF Consume, process
  <2>2. cancelled' = cancelled /\ (closed' => closed \/ cancelled)
    BY <1>3 DEF Consume, Poll, FetchMessage, FetchCancelled, Enqueue, EnqueueCancelled,
       Rebalance, Work, Take, WorkerStops, HandleRequest, HandleInterrupted, Commit,
       CommitLost
  <2> QED
    BY <2>1, <2>2, ToldKept
<1>4. CASE Signal
  BY <1>4, ToldKept DEF Signal, Cancel, process
<1>5. CASE Killed
  BY <1>2, <1>5 DEF Killed, Crash
<1>6. CASE ConsumerReturns
  BY <1>6, SentIsTold DEF ConsumerReturns, Told
<1>7. CASE ObservationReturns
  BY <1>7, SentIsTold DEF ObservationReturns
<1>8. CASE Schedule
  <2>1. CASE NewTicker \/ TakeTick \/ DeleteStale
    BY <1>1, <2>1 DEF NewTicker, TakeTick, DeleteStale
  <2>2. CASE TickerPanics
    BY <1>1, <1>2, <2>2 DEF TickerPanics, MainReturns, Crash
  <2>3. CASE SchedulerStops
    BY <2>3, SentIsTold DEF SchedulerStops, SchedulerReturns
  <2>4. CASE DeleteFails
    <3>1. \E e \in {"canceled", "failure"} :
             (e = "canceled" => cancelled) /\ errCh' = Sent("cleanup", e)
      BY <2>4 DEF DeleteFails, SchedulerReturns
    <3>2. UNCHANGED vars
      BY <2>4 DEF DeleteFails
    <3> QED
      BY <3>1, <3>2, SentIsTold
  <2> QED
    BY <1>8, <2>1, <2>2, <2>3, <2>4 DEF Schedule
<1>9. CASE MainEnds
  BY <1>2, <1>9 DEF MainEnds, MainReceives, MainStops, MainReturns, Crash
<1>10. CASE Boot \/ BootPanics \/ (\E s \in Scans : Finish(s)) \/ Clock
  BY <1>1, <1>10 DEF Boot, BootPanics, Finish, Clock, process
<1>11. CASE UNCHANGED everything
  BY <1>1, <1>11 DEF everything, process
<1> QED
  BY <1>3, <1>4, <1>5, <1>6, <1>7, <1>8, <1>9, <1>10, <1>11 DEF ProcessNext

\* Every step of the process is one of the consumer, or leaves it alone.
LEMMA ConsumerStep ==
  Told /\ ReportsTyped /\ [ProcessNext]_everything => [Next]_vars
<1> SUFFICES ASSUME Told, ReportsTyped, [ProcessNext]_everything PROVE [Next]_vars
  OBVIOUS
<1>1. CASE Consume
  BY <1>1 DEF Consume, Next
<1>2. CASE Signal \/ Killed \/ MainStops
  BY <1>2 DEF Signal, Killed, MainStops, Next
<1>3. CASE MainReceives
  <2>1. CASE Head(errCh).err = "canceled"
    <3>1. Len(errCh) \in Nat /\ Len(errCh) >= 1 /\ Head(errCh) = errCh[1]
      BY <1>3, HeadTailProperties, LenProperties, EmptySeq DEF MainReceives, ReportsTyped
    <3>2. cancelled
      BY <2>1, <3>1 DEF Told
    <3> QED
      BY <1>3, <2>1, <3>2 DEF MainReceives, MainReturns, Next
  <2>2. CASE Head(errCh).err # "canceled"
    BY <1>3, <2>2 DEF MainReceives, Next
  <2> QED
    BY <2>1, <2>2
<1>4. CASE TickerPanics
  BY <1>4 DEF TickerPanics, Next
<1>5. CASE NewTicker \/ SchedulerStops \/ TakeTick \/ DeleteStale \/ DeleteFails
  BY <1>5 DEF NewTicker, SchedulerStops, TakeTick, DeleteStale, DeleteFails
<1>6. CASE \/ Boot \/ BootPanics \/ ConsumerReturns \/ ObservationReturns
           \/ (\E s \in Scans : Finish(s)) \/ Clock
  BY <1>6 DEF Boot, BootPanics, ConsumerReturns, ObservationReturns, Finish, Clock
<1>7. CASE UNCHANGED everything
  BY <1>7 DEF everything
<1> QED
  BY <1>1, <1>2, <1>3, <1>4, <1>5, <1>6, <1>7 DEF ProcessNext, Schedule, MainEnds

\* To the partition, the process with all its components is the request consumer
\* alone, whatever its configuration is and whichever of them fails.
THEOREM ProcessImplementsConsumer == ProcessSpec => ImplementsConsumer
<1>1. ProcessInit => Init
  BY DEF ProcessInit
<1> QED
  BY <1>1, ToldInit, ToldStep, ConsumerStep, PTL DEF ProcessSpec, ImplementsConsumer, Spec

\* What is proved of the consumer holds of the process: a cleanup that fails or a
\* ticker that panics loses fewer requests than the pool has workers.
COROLLARY ProcessLossBounded == ProcessSpec => []LossWindow
  BY ProcessImplementsConsumer, CrashLossBounded, PTL DEF ImplementsConsumer

\* Nor do all the ends of the process together: what no worker will ever handle is
\* lost to a stop on request, or to a crash that took fewer than Workers of them,
\* whichever component the process died of.
COROLLARY ProcessLossesBounded == ProcessSpec => []LossBudget
  BY ProcessImplementsConsumer, CrashLossesBounded, PTL DEF ImplementsConsumer

-----------------------------------------------------------------------------
(***************************************************************************)
(* Type correctness.  Each component reports at most once, which is why    *)
(* errCh never blocks one of them.                                         *)
(***************************************************************************)
Ticking == scheduler \in {"waiting", "completed", "failed"}

Reports ==
    /\ \A i, j \in 1 .. Len(errCh) : i # j => errCh[i].from # errCh[j].from
    /\ HasReturned("cleanup") => scheduler = "returned"
    /\ Ticking => Policy.interval > 0
    /\ phase = "starting" => errCh = <<>> /\ scheduler = "none"

ProcessInv == ProcessTypeOK /\ Reports

\* One report of each component at most makes three of them at most.
LEMMA ThreeReports ==
  ASSUME NEW q \in Seq(Report), \A i, j \in 1 .. Len(q) : i # j => q[i].from # q[j].from
  PROVE  Len(q) <= 3
<1>1. Len(q) \in Nat /\ \A i \in 1 .. Len(q) : q[i] \in Report
  BY LenProperties, ElementOfSeq
<1>2. \A r \in Report : r.from \in {"consumer", "observation", "cleanup"}
  BY DEF Report
<1>3. CASE Len(q) >= 4
  <2>1. {1, 2, 3, 4} \subseteq 1 .. Len(q)
    BY <1>1, <1>3
  <2> QED
    BY <1>1, <1>2, <2>1
<1> QED
  BY <1>1, <1>3

\* A component that has not reported before adds a report of its own.
LEMMA FirstReport ==
  ASSUME ProcessInv, NEW f \in {"consumer", "observation", "cleanup"},
         NEW e \in {"canceled", "failure"}, ~HasReturned(f), errCh' = Sent(f, e)
  PROVE  /\ ReportsTyped' /\ Len(errCh') <= 3
         /\ \A i, j \in 1 .. Len(errCh') : i # j => errCh'[i].from # errCh'[j].from
         /\ HasReturned("cleanup")' => HasReturned("cleanup") \/ f = "cleanup"
<1>1. ReportsTyped
  BY DEF ProcessInv, ProcessTypeOK, ReportsTyped, Report
<1>2. \A i \in 1 .. Len(errCh) + 1 : i \in 1 .. Len(errCh) \/ i = Len(errCh) + 1
  BY <1>1, SentReport
<1>3. \A i, j \in 1 .. Len(errCh') : i # j => errCh'[i].from # errCh'[j].from
  BY <1>1, <1>2, SentReport DEF ProcessInv, Reports, HasReturned
<1>4. ReportsTyped'
  BY <1>1, SentReport
<1>5. Len(errCh') <= 3
  BY <1>3, <1>4, ThreeReports DEF ReportsTyped
<1>6. HasReturned("cleanup")' => HasReturned("cleanup") \/ f = "cleanup"
  BY <1>1, <1>2, SentReport DEF HasReturned
<1> QED
  BY <1>3, <1>4, <1>5, <1>6

\* The state of a process before its first step.
LEMMA FreshProcess ==
  ASSUME ProcessInv, ProcessEnds
  PROVE  ProcessInv'
<1>1. 0 \in 0 .. Half
  BY DurationAssumption
<1>2. Len(errCh') = 0 /\ errCh' = <<>>
  BY EmptySeq DEF ProcessEnds
<1>3. errCh' \in Seq(Report) /\ Len(errCh') <= 3
  BY <1>2, EmptySeq
<1>4. environment' = environment /\ scan' = scan /\ age' = age
  BY DEF ProcessEnds, cluster
<1>5. phase' = "starting" /\ scheduler' = "none" /\ due' = 0 /\ tick' = FALSE
  BY DEF ProcessEnds
<1>6. ProcessTypeOK'
  BY <1>1, <1>4, <1>3, <1>5 DEF ProcessInv, ProcessTypeOK, Report
<1>7. Reports'
  BY <1>2 DEF Reports, HasReturned, Ticking, ProcessEnds
<1> QED
  BY <1>6, <1>7 DEF ProcessInv

\* The types and the reports of the initial state.
LEMMA ProcessInvInit == ProcessInit => ProcessInv
<1> SUFFICES ASSUME ProcessInit PROVE ProcessInv
  OBVIOUS
<1>1. 0 \in 0 .. Half
  BY DurationAssumption
<1>2. Len(errCh) = 0 /\ errCh = <<>>
  BY EmptySeq DEF ProcessInit
<1>3. errCh \in Seq(Report) /\ Len(errCh) <= 3
  BY <1>2, EmptySeq
<1>4. /\ environment \in Environments /\ phase = "starting" /\ scheduler = "none"
      /\ due = 0 /\ tick = FALSE
      /\ scan = [s \in Scans |-> "running"] /\ age = [s \in Scans |-> 0]
  BY DEF ProcessInit
<1>5. ProcessTypeOK
  BY <1>1, <1>3, <1>4 DEF ProcessTypeOK, Report
<1>6. Reports
  BY <1>2 DEF ProcessInit, Reports, HasReturned, Ticking
<1> QED
  BY <1>5, <1>6 DEF ProcessInv

\* A deletion leaves every scan in one of its states.
LEMMA DeleteTypes ==
  ASSUME ProcessTypeOK, NEW gone, Delete(gone)
  PROVE  scan' \in [Scans -> {"running", "completed", "failed", "deleted"}]
  BY DEF ProcessTypeOK, Delete

\* Every step keeps the types and the reports.
LEMMA ProcessInvStep == ProcessInv /\ [ProcessNext]_everything => ProcessInv'
<1> SUFFICES ASSUME ProcessInv, [ProcessNext]_everything PROVE ProcessInv'
  OBVIOUS
<1>0. /\ Policy.interval \in Int /\ Policy.interval < Half
      /\ Half \in Nat /\ Half > 0
  BY PolicyTypes, DurationAssumption DEF ProcessInv, ProcessTypeOK, Word
<1>1. ASSUME UNCHANGED <<environment, process, cluster>> PROVE ProcessInv'
  BY <1>1 DEF ProcessInv, ProcessTypeOK, Reports, HasReturned, Ticking, Policy, process, cluster
<1>2. CASE Consume \/ Signal \/ UNCHANGED everything
  BY <1>1, <1>2 DEF Consume, Signal, everything
<1>3. CASE Killed \/ MainEnds
  BY <1>3, FreshProcess DEF Killed, MainEnds, MainReceives, MainStops
<1>4. CASE Boot \/ BootPanics
  <2>1. errCh' = errCh /\ errCh = <<>> /\ Len(errCh) = 0
    BY <1>4, EmptySeq DEF Boot, BootPanics, ProcessInv, Reports
  <2>2. ProcessTypeOK'
    BY <1>4 DEF Boot, BootPanics, ProcessInv, ProcessTypeOK, cluster
  <2>3. Reports'
    BY <1>4, <2>1 DEF Boot, BootPanics, ProcessInv, Reports, HasReturned, Ticking
  <2> QED
    BY <2>2, <2>3 DEF ProcessInv
<1>5. ASSUME NEW f \in {"consumer", "observation", "cleanup"}, NEW e \in {"canceled", "failure"},
             ~HasReturned(f), errCh' = Sent(f, e), phase # "starting",
             UNCHANGED <<environment, phase, due, tick, age>>,
             scan' \in [Scans -> {"running", "completed", "failed", "deleted"}],
             scheduler' = IF f = "cleanup" THEN "returned" ELSE scheduler
      PROVE  ProcessInv'
  <2>1. ReportsTyped' /\ Len(errCh') <= 3
    BY <1>5, FirstReport
  <2>2. ProcessTypeOK'
    BY <1>5, <2>1 DEF ProcessInv, ProcessTypeOK, ReportsTyped, Report
  <2>3. HasReturned("cleanup")' => scheduler' = "returned"
    BY <1>5, FirstReport DEF ProcessInv, Reports
  <2>4. Ticking' => Policy'.interval > 0
    BY <1>5 DEF ProcessInv, Reports, Ticking, Policy
  <2> QED
    BY <1>5, <2>2, <2>3, <2>4, FirstReport DEF ProcessInv, Reports
<1>6. CASE ConsumerReturns \/ ObservationReturns
  BY <1>5, <1>6 DEF ConsumerReturns, ObservationReturns, cluster, ProcessInv, ProcessTypeOK
<1>7. CASE NewTicker
  BY <1>0, <1>7 DEF NewTicker, ProcessInv, ProcessTypeOK, Reports, HasReturned, Ticking,
     Policy, cluster
<1>8. CASE TickerPanics
  <2>1. CASE ProcessEnds
    BY <2>1, FreshProcess
  <2>2. CASE phase' = "down" /\ UNCHANGED <<vars, environment, errCh, scheduler, due, tick, cluster>>
    BY <2>2 DEF ProcessInv, ProcessTypeOK, Reports, HasReturned, Ticking, Policy, cluster
  <2> QED
    BY <1>8, <2>1, <2>2 DEF TickerPanics
<1>9. CASE SchedulerStops
  BY <1>5, <1>9 DEF SchedulerStops, SchedulerReturns, cluster, ProcessInv, ProcessTypeOK,
     Reports
<1>10. CASE TakeTick
  BY <1>10 DEF TakeTick, ProcessInv, ProcessTypeOK, Reports, HasReturned, Ticking, Policy, cluster
<1>11. CASE DeleteStale
  <2>1. scan' \in [Scans -> {"running", "completed", "failed", "deleted"}]
    BY <1>11, DeleteTypes DEF DeleteStale, ProcessInv
  <2> QED
    BY <1>11, <2>1 DEF DeleteStale, ProcessInv, ProcessTypeOK, Reports, HasReturned, Ticking, Policy
<1>12. CASE DeleteFails
  <2>1. scan' \in [Scans -> {"running", "completed", "failed", "deleted"}]
    BY <1>12, DeleteTypes DEF DeleteFails, ProcessInv
  <2>2. \E e \in {"canceled", "failure"} : errCh' = Sent("cleanup", e)
    BY <1>12 DEF DeleteFails, SchedulerReturns
  <2>3. ~HasReturned("cleanup") /\ scheduler' = "returned" /\ phase # "starting"
    BY <1>12 DEF DeleteFails, SchedulerReturns, ProcessInv, Reports
  <2> QED
    BY <1>5, <1>12, <2>1, <2>2, <2>3 DEF DeleteFails
<1>13. CASE \E s \in Scans : Finish(s)
  <2>1. scan' \in [Scans -> {"running", "completed", "failed", "deleted"}]
    BY <1>13 DEF Finish, ProcessInv, ProcessTypeOK
  <2>2. UNCHANGED <<environment, phase, errCh, scheduler, due, tick, age>>
    BY <1>13 DEF Finish, process
  <2> QED
    BY <2>1, <2>2 DEF ProcessInv, ProcessTypeOK, Reports, HasReturned, Ticking, Policy
<1>14. CASE Clock
  <2>1. age' \in [Scans -> 0 .. Half]
    BY <1>0, <1>14 DEF Clock, ProcessInv, ProcessTypeOK
  <2>2. due' \in 0 .. Half /\ tick' \in BOOLEAN
    <3>1. due \in 0 .. Half /\ tick \in BOOLEAN /\ (Ticking => Policy.interval > 0)
      BY DEF ProcessInv, ProcessTypeOK, Reports
    <3>2. CASE due > 1 /\ due' = due - 1 /\ tick' = tick
      BY <1>0, <3>1, <3>2
    <3>3. CASE Ticking /\ due' = Policy.interval /\ tick' = TRUE
      BY <1>0, <3>1, <3>3
    <3>4. CASE UNCHANGED <<due, tick>>
      BY <3>1, <3>4
    <3> QED
      BY <1>14, <3>2, <3>3, <3>4 DEF Clock, Ticking
  <2>3. UNCHANGED <<environment, phase, errCh, scheduler, scan>>
    BY <1>14 DEF Clock
  <2> QED
    BY <2>1, <2>2, <2>3 DEF ProcessInv, ProcessTypeOK, Reports, HasReturned, Ticking, Policy
<1> QED
  BY <1>2, <1>3, <1>4, <1>6, <1>7, <1>8, <1>9, <1>10, <1>11, <1>12, <1>13, <1>14
     DEF ProcessNext, Schedule

\* The types and the reports always hold.
LEMMA ProcessInvariant == ProcessSpec => []ProcessInv
  BY ProcessInvInit, ProcessInvStep, PTL DEF ProcessSpec

\* The state of the process keeps its types, and errCh always has room for the
\* report of a component that returns.
THEOREM ProcessTypeCorrect == ProcessSpec => []ProcessTypeOK
<1>1. ProcessInv => ProcessTypeOK
  BY DEF ProcessInv
<1> QED
  BY <1>1, ProcessInvariant, PTL

-----------------------------------------------------------------------------
\* What a deletion takes is older than its setting asks for.
LEMMA StaleIsOld ==
  ASSUME ProcessTypeOK, NEW outcome \in {"completed", "failed"}, NEW s \in Stale(outcome),
         Asked(Load(environment))[outcome] < Half
  PROVE  age[s] > Asked(Load(environment))[outcome]
<1> DEFINE asked == Asked(Load(environment))
<1>1. /\ {Policy.completed, Policy.failed} \subseteq Int
      /\ asked["completed"] \in Int /\ asked["failed"] \in Int
      /\ asked["completed"] < Half => Policy.completed >= asked["completed"]
      /\ asked["failed"] < Half => Policy.failed >= asked["failed"]
  BY PolicyTypes, DurationAssumption DEF ProcessTypeOK, Word
<1>2. age[s] \in Int /\ age[s] > Retention(outcome)
  BY DurationAssumption DEF Stale, ProcessTypeOK
<1> HIDE DEF asked
<1>3. age[s] > asked[outcome]
  <2>1. CASE outcome = "completed"
    BY <1>1, <1>2, <2>1 DEF Retention, asked
  <2>2. CASE outcome = "failed"
    BY <1>1, <1>2, <2>2 DEF Retention, asked
  <2> QED
    BY <2>1, <2>2
<1> QED
  BY <1>3 DEF asked

\* A deletion takes stale scans only.
LEMMA DeleteTakesStale ==
  ASSUME ProcessTypeOK, NEW gone \in SUBSET Stale(scheduler), Delete(gone),
         scheduler \in {"completed", "failed"},
         NEW s \in Scans, scan'[s] = "deleted", scan[s] # "deleted"
  PROVE  s \in Stale(scheduler) /\ scan[s] = scheduler
  BY DEF Delete, Stale

\* No scan is deleted before the age its setting asks for, whatever the settings
\* are, as long as that age is a Duration at all.
THEOREM ScansAreKept == ProcessSpec => KeptAsLongAsAsked
<1> DEFINE Kept(s) ==
      LET asked == Asked(Load(environment))[scan[s]]
      IN  scan'[s] = "deleted" /\ scan[s] # "deleted" /\ asked < Half => age[s] > asked
<1>1. ProcessTypeOK /\ [ProcessNext]_everything => [\A s \in Scans : Kept(s)]_everything
  <2> SUFFICES ASSUME ProcessTypeOK, ProcessNext, NEW s \in Scans,
                      scan'[s] = "deleted", scan[s] # "deleted",
                      Asked(Load(environment))[scan[s]] < Half
               PROVE  age[s] > Asked(Load(environment))[scan[s]]
    OBVIOUS
  <2>1. DeleteStale \/ DeleteFails
    <3>1. CASE UNCHANGED scan
      BY <3>1
    <3>2. ~Finish(s)
      BY DEF Finish, ProcessTypeOK
    <3>3. \A r \in Scans : Finish(r) => r = s \/ scan'[s] = scan[s]
      BY DEF Finish, ProcessTypeOK
    <3>4. \/ DeleteStale \/ DeleteFails \/ (\E r \in Scans : Finish(r))
          \/ UNCHANGED scan
      BY DEF ProcessNext, Boot, BootPanics, Consume, Signal, Killed, ProcessEnds,
         ConsumerReturns, ObservationReturns, Schedule, NewTicker, TickerPanics,
         SchedulerStops, TakeTick, MainEnds, MainReceives, MainStops, Clock, cluster
    <3> QED
      BY <3>1, <3>2, <3>3, <3>4
  <2>2. /\ scheduler \in {"completed", "failed"}
        /\ \E gone \in SUBSET Stale(scheduler) : Delete(gone)
    BY <2>1 DEF DeleteStale, DeleteFails
  <2>3. s \in Stale(scheduler) /\ scan[s] = scheduler
    BY <2>2, DeleteTakesStale
  <2> QED
    BY <2>2, <2>3, StaleIsOld
<1> QED
  BY <1>1, ProcessTypeCorrect, PTL DEF ProcessSpec, KeptAsLongAsAsked

=============================================================================
