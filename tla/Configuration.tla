---------------------------- MODULE Configuration ----------------------------
(***************************************************************************)
(* What the process makes of its environment: config.Load and its readers  *)
(* (internal/infrastructure/config), buildCleanupPolicy of main, and the   *)
(* pool size NewConsumer settles on.  A variable is unset, holds text that *)
(* is no number, or holds a number.  A number a reader refuses is replaced *)
(* by a default in one place and ends the process in another, and the      *)
(* durations are products in a signed machine word.                        *)
(***************************************************************************)
EXTENDS Integers

CONSTANTS
    Half,              \* a time.Duration lies in -Half .. Half - 1
    Minute, Day,       \* time.Minute and 24 * time.Hour
    CompletedDefault,  \* "60", the default of MINUTES
    FailedDefault,     \* "7", the default of ERROR_SCAN_RETENTION_DAYS
    CheckDefault,      \* "5", the default of ERROR_SCAN_CHECK_MINUTES
    PoolDefault        \* 10, the default of FINDING_PROCESS_MAX_THREAD

ASSUME DurationAssumption ==
    /\ Half \in Nat \ {0}
    /\ Minute \in Nat \ {0} /\ Day \in Nat \ {0}

ASSUME DefaultsAssumption ==
    /\ {CompletedDefault, FailedDefault, CheckDefault} \subseteq Nat \ {0}
    /\ PoolDefault \in Nat \ {0}

Word == -Half .. Half - 1

\* os.Getenv: nothing, what strconv.Atoi refuses, or a number it accepts.
Text == [kind : {"unset", "text"}, n : {0}] \cup [kind : {"number"}, n : Word]

Unset == [kind |-> "unset", n |-> 0]
Number(n) == [kind |-> "number", n |-> n]

Settings == {"completed", "failed", "check", "workers"}

\* readEnv and readEnvInt: only the second replaces what is not a number.
readEnv(text, fallback) == IF text.kind = "unset" THEN Number(fallback) ELSE text
readEnvInt(text, fallback) == IF text.kind = "number" THEN text.n ELSE fallback

\* Load never refuses an environment.
Load(env) ==
    [completed |-> readEnv(env["completed"], CompletedDefault),
     failed    |-> readEnv(env["failed"], FailedDefault),
     check     |-> readEnv(env["check"], CheckDefault),
     workers   |-> readEnvInt(env["workers"], PoolDefault)]

\* NewConsumer: the goroutines of the pool.
PoolSize(config) == IF config.workers <= 0 THEN PoolDefault ELSE config.workers

\* buildCleanupPolicy returns no error, and main does not panic.
Parsed(config) ==
    \A text \in {config.completed, config.failed, config.check} : text.kind = "number"

\* Multiplication of Durations.
Wrapped(n) == ((n + Half) % (2 * Half)) - Half

\* buildCleanupPolicy of a configuration that parses.
CleanupPolicy(config) ==
    [completed |-> Wrapped(config.completed.n * Minute),
     failed    |-> Wrapped(config.failed.n * Day),
     interval  |-> Wrapped(config.check.n * Minute)]

\* The ages, in units of a Duration, that the operator asked scans to be kept for.
Asked(config) ==
    [completed |-> config.completed.n * Minute, failed |-> config.failed.n * Day]

\* time.NewTicker accepts the interval.
Ticks(config) == CleanupPolicy(config).interval > 0
=============================================================================
