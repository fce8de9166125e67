-------------------------- MODULE ControllerProcess --------------------------
(***************************************************************************)
(* main (cmd/controller/main.go): the process that runs the request        *)
(* consumer, the observation handler and the cleanup scheduler side by     *)
(* side.  Each of the three reports on one channel when it returns; the    *)
(* first report, or the signal to stop, ends the process and all three     *)
(* with it.  The cleanup scheduler (internal/infrastructure/scheduler) and *)
(* the use case it drives (CleanupScansService) are modelled here, because *)
(* an error of one cleanup ends the consumer too, and the process that is  *)
(* started next resumes both.  The Scan resources, like the partition,     *)
(* outlive the process.                                                    *)
(***************************************************************************)
EXTENDS RequestConsumer, Configuration

CONSTANTS
    Environments,   \* the environments the process may be deployed with
    Scans           \* Scan resources in the cluster

ASSUME EnvironmentsAssumption ==
    /\ Environments \subseteq [Settings -> Text]
    /\ \A env \in Environments : PoolSize(Load(env)) = Cardinality(Workers)

VARIABLES
    environment,  \* what the process reads its configuration from
    phase,        \* "starting" | "running" | "down": it never gets past its start
    errCh,        \* what the three goroutines returned, in the order they did
    scheduler,    \* where CleanupScheduler.Start is
    due,          \* time until the ticker fires next
    tick,         \* the ticker's channel holds a tick
    scan,         \* scan[s]: "running" | "completed" | "failed" | "deleted"
    age           \* age[s]: how long scan s has been finished, at most Half

process == <<phase, errCh, scheduler, due, tick>>
cluster == <<scan, age>>
everything == <<vars, environment, process, cluster>>

Policy == CleanupPolicy(Load(environment))

\* main gets past its own start, and the scheduler past NewTicker.
Usable == Parsed(Load(environment)) /\ Ticks(Load(environment))

-----------------------------------------------------------------------------
ProcessInit ==
    /\ Init
    /\ environment \in Environments
    /\ phase = "starting"
    /\ errCh = <<>>
    /\ scheduler = "none"
    /\ due = 0
    /\ tick = FALSE
    /\ scan = [s \in Scans |-> "running"]
    /\ age = [s \in Scans |-> 0]

\* main runs to its select; the goroutines start.
Boot ==
    /\ phase = "starting"
    /\ Parsed(Load(environment))
    /\ phase' = "running"
    /\ scheduler' = "starting"
    /\ UNCHANGED <<vars, environment, errCh, due, tick, cluster>>

\* main panics before it starts anything, every time it is started.
BootPanics ==
    /\ phase = "starting"
    /\ ~Parsed(Load(environment))
    /\ phase' = "down"
    /\ UNCHANGED <<vars, environment, errCh, scheduler, due, tick, cluster>>

\* The steps of the request consumer.
Consume ==
    /\ phase = "running"
    /\ Poll \/ (\E w \in Workers : Work(w)) \/ Rebalance
    /\ UNCHANGED <<environment, process, cluster>>

\* SIGINT or SIGTERM: NotifyContext makes ctx done.
Signal ==
    /\ phase = "running"
    /\ Cancel
    /\ UNCHANGED <<environment, process, cluster>>

\* All goroutines are gone; the container is started again.
ProcessEnds ==
    /\ phase' = "starting"
    /\ errCh' = <<>>
    /\ scheduler' = "none"
    /\ due' = 0
    /\ tick' = FALSE
    /\ UNCHANGED <<environment, cluster>>

\* The process dies of something outside main.
Killed == phase = "running" /\ Crash /\ ProcessEnds

Sent(from, err) == Append(errCh, [from |-> from, err |-> err])

HasReturned(component) == \E i \in 1 .. Len(errCh) : errCh[i].from = component

\* Consumer.Start has returned ctx's error.
ConsumerReturns ==
    /\ phase = "running"
    /\ closed
    /\ ~HasReturned("consumer")
    /\ errCh' = Sent("consumer", "canceled")
    /\ UNCHANGED <<vars, environment, phase, scheduler, due, tick, cluster>>

\* HandleK8sObservationService.Start ignores what its sources return and waits
\* for ctx.
ObservationReturns ==
    /\ phase = "running"
    /\ cancelled
    /\ ~HasReturned("observation")
    /\ errCh' = Sent("observation", "canceled")
    /\ UNCHANGED <<vars, environment, phase, scheduler, due, tick, cluster>>

-----------------------------------------------------------------------------
(***************************************************************************)
(* CleanupScheduler.Start and CleanupScansService.Execute.                 *)
(***************************************************************************)
NewTicker ==
    /\ scheduler = "starting"
    /\ Policy.interval > 0
    /\ scheduler' = "waiting"
    /\ due' = Policy.interval
    /\ UNCHANGED <<vars, environment, phase, errCh, tick, cluster>>

\* NewTicker panics, and with it the whole process, requests in progress and all.
\* The process tries that again until the bound on crashes is spent.
TickerPanics ==
    /\ scheduler = "starting"
    /\ Policy.interval <= 0
    /\ \/ (MainReturns \/ Crash) /\ ProcessEnds
       \/ /\ ~cancelled /\ crashes = MaxCrashes
          /\ phase' = "down"
          /\ UNCHANGED <<vars, environment, errCh, scheduler, due, tick, cluster>>

\* SchedulerReturns that goes on with its loop.
SchedulerReports(err) ==
    /\ scheduler' = "waiting"
    /\ errCh' = Sent("cleanup", err)

SchedulerReturns(err) ==
    /\ scheduler' = "returned"
    /\ errCh' = Sent("cleanup", err)

\* The select of the loop takes either case when ctx is done and a tick is there.
SchedulerStops ==
    /\ scheduler = "waiting"
    /\ cancelled
    /\ SchedulerReturns("canceled")
    /\ UNCHANGED <<vars, environment, phase, due, tick, cluster>>

TakeTick ==
    /\ scheduler = "waiting"
    /\ tick
    /\ tick' = FALSE
    /\ scheduler' = "completed"
    /\ UNCHANGED <<vars, environment, phase, errCh, due, cluster>>

\* The retentions Execute passes for the wrong outcome.
RetentionSwapped(outcome) ==
    IF outcome = "completed" THEN Policy.failed ELSE Policy.completed

\* The retention Execute passes for an outcome.
Retention(outcome) ==
    IF outcome = "completed" THEN Policy.completed ELSE Policy.failed

\* The scans that the port gives a repository leave to delete: those of an outcome
\* that are "olderThan" the retention.
Stale(outcome) == {s \in Scans : scan[s] = outcome /\ age[s] > Retention(outcome)}

\* A call of the port that deletes these scans.
Delete(gone) == scan' = [s \in Scans |-> IF s \in gone THEN "deleted" ELSE scan[s]]

\* Execute asks for the completed scans first and then for the failed ones.  Which of
\* the stale ones a repository deletes is left open: the wired placeholder returns
\* without an error and deletes none (cleanup_repository.go:14-22).
DeleteStale ==
    /\ scheduler \in {"completed", "failed"}
    /\ \E gone \in SUBSET Stale(scheduler) : Delete(gone)
    /\ scheduler' = IF scheduler = "completed" THEN "failed" ELSE "waiting"
    /\ UNCHANGED <<vars, environment, phase, errCh, due, tick, age>>

\* The repository fails after some of the work, with ctx's error or another:
\* Execute returns at once, and so does the scheduler.
DeleteFails ==
    /\ scheduler \in {"completed", "failed"}
    /\ cancelled \/ crashes < MaxCrashes
    /\ \E gone \in SUBSET Stale(scheduler) : Delete(gone)
    /\ \/ cancelled /\ SchedulerReturns("canceled")
       \/ SchedulerReturns("failure")
    /\ UNCHANGED <<vars, environment, phase, due, tick, age>>

Schedule ==
    \/ NewTicker
    \/ TickerPanics
    \/ SchedulerStops
    \/ TakeTick
    \/ DeleteStale
    \/ DeleteFails

-----------------------------------------------------------------------------
(***************************************************************************)
(* The end of main.                                                        *)
(***************************************************************************)
\* MainReceives that takes any error for the end it asked for.
MainReceivesAny ==
    /\ phase = "running"
    /\ errCh # <<>>
    /\ Reboot /\ UNCHANGED stops
    /\ ProcessEnds

\* MainReceives that does not end the process for an error.
MainReceivesCanceled ==
    /\ phase = "running"
    /\ errCh # <<>>
    /\ Head(errCh).err = "canceled"
    /\ MainReturns
    /\ ProcessEnds

\* The first report ends the process: os.Exit(1) unless it is ctx's error.
MainReceives ==
    /\ phase = "running"
    /\ errCh # <<>>
    /\ IF Head(errCh).err = "canceled"
       THEN Reboot /\ UNCHANGED stops
       ELSE MainReturns \/ Crash
    /\ ProcessEnds

\* ctx is done.
MainStops == phase = "running" /\ MainReturns /\ ProcessEnds

\* MainEnds that waits for an error.
MainEndsOnFailure ==
    /\ phase = "running"
    /\ \E i \in 1 .. Len(errCh) : errCh[i].err = "failure"
    /\ MainReturns \/ Crash
    /\ ProcessEnds

\* select takes either when there is a report and ctx is done.
MainEnds == MainReceives \/ MainStops

-----------------------------------------------------------------------------
\* The operator finishes a scan.
Finish(s) ==
    /\ scan[s] = "running"
    /\ \E outcome \in {"completed", "failed"} : scan' = [scan EXCEPT ![s] = outcome]
    /\ UNCHANGED <<vars, environment, process, age>>

\* Time passes.  The ticker drops a tick its channel has no room for.
Clock ==
    /\ age' = [s \in Scans |->
                 IF scan[s] \in {"completed", "failed"} /\ age[s] < Half
                 THEN age[s] + 1 ELSE age[s]]
    /\ IF scheduler \in {"waiting", "completed", "failed"}
       THEN IF due > 1
            THEN due' = due - 1 /\ tick' = tick
            ELSE due' = Policy.interval /\ tick' = TRUE
       ELSE UNCHANGED <<due, tick>>
    /\ UNCHANGED <<vars, environment, phase, errCh, scheduler, scan>>

ProcessNext ==
    \/ Boot
    \/ BootPanics
    \/ Consume
    \/ Signal
    \/ Killed
    \/ ConsumerReturns
    \/ ObservationReturns
    \/ Schedule
    \/ MainEnds
    \/ \E s \in Scans : Finish(s)
    \/ Clock

ProcessSpec == ProcessInit /\ [][ProcessNext]_everything

\* The runtime runs every goroutine that can move, the container is started
\* again, the repository answers, and time passes.
FairProcessSpec ==
    /\ ProcessSpec
    /\ WF_everything(Boot)
    /\ WF_everything(Consume /\ Poll)
    /\ \A w \in Workers : WF_everything(Consume /\ Work(w))
    /\ WF_everything(Schedule)
    /\ WF_everything(MainEnds)
    /\ WF_everything(Clock)

-----------------------------------------------------------------------------
(***************************************************************************)
(* Properties.                                                             *)
(***************************************************************************)
\* The state of the process keeps its types, and errCh has room for every report.
ProcessTypeOK ==
    /\ environment \in Environments
    /\ phase \in {"starting", "running", "down"}
    /\ errCh \in Seq([from : {"consumer", "observation", "cleanup"},
                      err  : {"canceled", "failure"}])
    /\ Len(errCh) <= 3
    /\ scheduler \in {"none", "starting", "waiting", "completed", "failed", "returned"}
    /\ due \in 0 .. Half
    /\ tick \in BOOLEAN
    /\ scan \in [Scans -> {"running", "completed", "failed", "deleted"}]
    /\ age \in [Scans -> 0 .. Half]

\* The composed process does to the partition what the consumer alone does: it
\* ends without a crash only when it was told to stop, and whatever else ends it
\* (a cleanup error, a ticker that panics) is a crash to the requests it held.
ImplementsConsumer == Spec

\* A scan is deleted only when it is older than the setting for its outcome asks
\* for, unless that age does not fit a Duration (cleanup_scans.go:21-25).
KeptAsLongAsAsked ==
    [][\A s \in Scans :
          LET asked == Asked(Load(environment))[scan[s]]
          IN  scan'[s] = "deleted" /\ scan[s] # "deleted" /\ asked < Half
              => age[s] > asked]_everything

\* A process that is told to stop ends, whatever its goroutines are doing.
EndsWhenTold == cancelled ~> ~cancelled

\* The call that may delete s comes when s has outlived its retention.
AskedFor(s) == s \in Stale(scheduler)

\* Every finished scan is put to the repository past its retention, and again and
\* again while the repository keeps it: an error of one cleanup does not end the
\* cleanups for good, because it ends the process (cleanup_scheduler.go:31).  That
\* a repository then deletes it is not said: the wired one does not.
CleanupGoesOn ==
    \A s \in Scans :
        Usable /\ scan[s] \in {"completed", "failed"} ~> scan[s] = "deleted" \/ AskedFor(s)

\* The requests of the partition get through although cleanups fail.
UsableHandlesAll ==
    Usable => \A o \in Requests : <>(o \in Handled \/ o \in Lost)
=============================================================================
