--------------------------- MODULE ServiceStartup ---------------------------
(***************************************************************************)
(* How the four processes come up.  auth and tasks wait for PostgreSQL     *)
(* with waitForDatabase before they create their application; the          *)
(* notifications service creates its application first and retries the     *)
(* whole bootstrap while RabbitMQ refuses connections; the gateway listens *)
(* for HTTP once its microservices have started.  Nothing restarts a       *)
(* process that exits (docker-compose.yml), an operator may.               *)
(*                                                                         *)
(* Times are counted in units of 500 ms.                                   *)
(***************************************************************************)
EXTENDS Integers

CONSTANTS
    Environments,    \* the environments the services may be configured with
    Together,        \* the sets of services an operator may start together
    MaxRetries,      \* bound on the bootstrap attempts of notifications
    MaxRestarts,     \* bound on restarts by an operator
    MaxFaults        \* bound on failed calls and crashes

Service == {"auth", "tasks", "notifications", "gateway"}

(* A raw variable: a number, unset, or text that spells no number.  Zero   *)
(* stands for anything below one.                                          *)
Unset == -1
NotANumber == -2

Raw == Nat \cup {Unset, NotANumber}

Prefix == {"", "TASKS_"}
Setting == {"initialDelay", "maxDelay", "maxAttempts", "retryDelay", "retryMaxDelay"}

ASSUME EnvironmentsAssumption ==
    Environments # {} /\ Environments \subseteq [Prefix -> [Setting -> Raw]]
ASSUME TogetherAssumption == Together \subseteq SUBSET Service
ASSUME StartupBoundsAssumption ==
    /\ MaxRetries \in Nat \ {0}
    /\ MaxRestarts \in Nat
    /\ MaxFaults \in Nat

VARIABLES
    environment,     \* what the processes were started with
    database,        \* whether PostgreSQL accepts connections
    broker,          \* whether RabbitMQ accepts connections
    startup,         \* startup[s]: how far the process of s has come
    restarts,        \* restarts so far
    faults           \* failures so far

startupVars == <<environment, database, broker, startup, restarts, faults>>

-----------------------------------------------------------------------------
(* Configuration.                                                          *)

PowerOfTwo[n \in Nat] == IF n = 0 THEN 1 ELSE 2 * PowerOfTwo[n - 1]

Smaller(a, b) == IF a <= b THEN a ELSE b
Greater(a, b) == IF a <= b THEN b ELSE a

ParsePositiveInt(raw, fallback) == IF raw > 0 THEN raw ELSE fallback

\* A prefixed value wins whenever it is set, a useless one included.
GetBootstrapEnvValue(suffix, prefix) ==
    IF environment[prefix][suffix] # Unset
    THEN environment[prefix][suffix] ELSE environment[""][suffix]

Default ==
    [initialDelay |-> 1, maxDelay |-> 10, maxAttempts |-> 10,
     retryDelay |-> 6, retryMaxDelay |-> 60]

ResolveWaitForDatabaseOptions(prefix) ==
    [setting \in {"initialDelay", "maxDelay", "maxAttempts"} |->
        ParsePositiveInt(GetBootstrapEnvValue(setting, prefix), Default[setting])]

AuthOptions == ResolveWaitForDatabaseOptions("")
TasksOptions == ResolveWaitForDatabaseOptions("TASKS_")
Options(s) == IF s = "auth" THEN AuthOptions ELSE TasksOptions

ParseNumberEnv(raw, fallback) == IF raw \in {Unset, NotANumber} THEN fallback ELSE raw

RetryDelay == ParseNumberEnv(environment[""].retryDelay, Default.retryDelay)
RetryDelayMax ==
    Greater(RetryDelay, ParseNumberEnv(environment[""].retryMaxDelay, Default.retryMaxDelay))

-----------------------------------------------------------------------------
(* phase: connecting and waiting belong to waitForDatabase, creating is    *)
(* NestFactory.create with its TypeORM connection, starting is listen or   *)
(* startAllMicroservices, retrying the pause between two bootstraps.       *)
Phase == {"connecting", "waiting", "creating", "starting", "retrying", "listening", "exited"}

Waits(s) == s \in {"auth", "tasks"}

At(phase, attempt, delay) == [phase |-> phase, attempt |-> attempt, delay |-> delay]

\* The process is started.
Started(s) ==
    IF Waits(s) THEN At("connecting", 1, Options(s).initialDelay) ELSE At("creating", 1, 0)

Listening(s) == startup[s].phase = "listening"
Exited == At("exited", 0, 0)

StartupTypeOK ==
    /\ environment \in Environments
    /\ database \in {"down", "up"}
    /\ broker \in {"down", "up"}
    /\ \A s \in Service :
           /\ startup[s].phase \in Phase
           /\ startup[s].attempt \in Nat
           /\ startup[s].delay \in Nat
    /\ restarts \in 0..MaxRestarts
    /\ faults \in 0..MaxFaults

\* Everything is up, or some services have just been started.
StartupInit ==
    /\ \/ /\ environment = CHOOSE env \in Environments : TRUE
          /\ database = "up" /\ broker = "up"
          /\ startup = [s \in Service |-> At("listening", 0, 0)]
       \/ /\ environment \in Environments
          /\ database \in {"down", "up"} /\ broker \in {"down", "up"}
          /\ \E S \in Together :
                 startup = [s \in Service |-> IF s \in S THEN Started(s) ELSE Exited]
    /\ restarts = 0
    /\ faults = 0

Fault == faults < MaxFaults /\ faults' = faults + 1

\* PostgreSQL refuses, or the connection fails for once.
DatabaseFails ==
    \/ database = "down" /\ UNCHANGED faults
    \/ Fault

Move(s, to) ==
    /\ startup' = [startup EXCEPT ![s] = to]
    /\ UNCHANGED <<environment, database, broker, restarts>>

-----------------------------------------------------------------------------
(* waitForDatabase.                                                        *)

\* client.connect and client.end succeed.
Connects(s) ==
    /\ startup[s].phase = "connecting" /\ database = "up"
    /\ Move(s, At("creating", 1, 0))
    /\ UNCHANGED faults

\* Mutant: the attempts are counted one too far.
ConnectFailsLate(s) ==
    /\ startup[s].phase = "connecting"
    /\ IF startup[s].attempt > Options(s).maxAttempts
       THEN Move(s, Exited)
       ELSE Move(s, [startup[s] EXCEPT !.phase = "waiting"])
    /\ DatabaseFails

\* The last failure ends the process, any other one is slept upon.
ConnectFails(s) ==
    /\ startup[s].phase = "connecting"
    /\ IF startup[s].attempt >= Options(s).maxAttempts
       THEN Move(s, Exited)
       ELSE Move(s, [startup[s] EXCEPT !.phase = "waiting"])
    /\ DatabaseFails

\* Mutant: the delay is not capped.
WaitedUncapped(s) ==
    /\ startup[s].phase = "waiting"
    /\ Move(s, IF startup[s].attempt < Options(s).maxAttempts
               THEN At("connecting", startup[s].attempt + 1, 2 * startup[s].delay)
               ELSE At("creating", 1, 0))
    /\ UNCHANGED faults

\* delay, then the condition of the while loop, which has no way out but return.
Waited(s) ==
    LET next == Smaller(2 * startup[s].delay, Options(s).maxDelay)
    IN  /\ startup[s].phase = "waiting"
        /\ Move(s, IF startup[s].attempt < Options(s).maxAttempts
                   THEN At("connecting", startup[s].attempt + 1, next)
                   ELSE At("creating", 1, 0))
        /\ UNCHANGED faults

-----------------------------------------------------------------------------
(* The application.                                                        *)

\* The gateway has no database.
Created(s) ==
    /\ startup[s].phase = "creating"
    /\ s = "gateway" \/ database = "up"
    /\ Move(s, [startup[s] EXCEPT !.phase = "starting"])
    /\ UNCHANGED faults

\* TypeOrmModule gives up; NestFactory.create is outside the try of notifications.
CreateFails(s) ==
    /\ startup[s].phase = "creating" /\ s # "gateway"
    /\ Move(s, Exited)
    /\ DatabaseFails

Listens(s) ==
    /\ startup[s].phase = "starting"
    /\ s = "auth" \/ broker = "up"
    /\ Move(s, At("listening", 0, 0))
    /\ UNCHANGED faults

\* ECONNREFUSED: the transport may report it or keep trying by itself.
BrokerRefuses(s) ==
    LET delay == Smaller(RetryDelayMax, RetryDelay * PowerOfTwo[startup[s].attempt - 1])
    IN  /\ startup[s].phase = "starting" /\ s # "auth" /\ broker = "down"
        /\ IF s = "notifications"
           THEN /\ startup[s].attempt < MaxRetries
                /\ Move(s, [startup[s] EXCEPT !.phase = "retrying", !.delay = delay])
           ELSE Move(s, Exited)
        /\ UNCHANGED faults

\* Any other error of listen: an occupied port, refused credentials.
ListenFails(s) ==
    /\ startup[s].phase = "starting"
    /\ Move(s, Exited)
    /\ Fault

\* Mutant: the second failure is not retried.
RetriesOnce(s) ==
    /\ startup[s].phase = "retrying" /\ startup[s].attempt = 1
    /\ Move(s, At("creating", startup[s].attempt + 1, 0))
    /\ UNCHANGED faults

\* notifications closes everything, sleeps and bootstraps again.
Retries(s) ==
    /\ startup[s].phase = "retrying"
    /\ Move(s, At("creating", startup[s].attempt + 1, 0))
    /\ UNCHANGED faults

Crash(s) ==
    /\ Listening(s)
    /\ Move(s, Exited)
    /\ Fault

Restart(s) ==
    /\ startup[s].phase = "exited" /\ restarts < MaxRestarts
    /\ startup' = [startup EXCEPT ![s] = Started(s)]
    /\ restarts' = restarts + 1
    /\ UNCHANGED <<environment, database, broker, faults>>

DatabaseUp ==
    /\ database = "down" /\ database' = "up"
    /\ UNCHANGED <<environment, broker, startup, restarts, faults>>

BrokerUp ==
    /\ broker = "down" /\ broker' = "up"
    /\ UNCHANGED <<environment, database, startup, restarts, faults>>

StartupStep(s) ==
    \/ Connects(s)
    \/ ConnectFails(s)
    \/ Waited(s)
    \/ Created(s)
    \/ CreateFails(s)
    \/ Listens(s)
    \/ BrokerRefuses(s)
    \/ ListenFails(s)
    \/ Retries(s)

StartupNext ==
    \/ \E s \in Service : StartupStep(s)
    \/ \E s \in Service : Restart(s)
    \/ DatabaseUp
    \/ BrokerUp

-----------------------------------------------------------------------------
(* The delay of the n-th pause, by the definition the loop computes step   *)
(* by step: the initial delay doubled each time, and never above the       *)
(* maximum after the first (database.ts:106).                              *)
BackoffAsDefined ==
    /\ \A s \in Service : startup[s].phase = "waiting" =>
           LET n == startup[s].attempt
               o == Options(s)
           IN  /\ n < o.maxAttempts
               /\ startup[s].delay =
                      IF n = 1 THEN o.initialDelay
                      ELSE Smaller(o.initialDelay * PowerOfTwo[n - 1], o.maxDelay)
    /\ startup["notifications"].phase = "retrying" =>
           startup["notifications"].delay \in RetryDelay .. RetryDelayMax

(* A process goes past waitForDatabase only over a connection, and gives   *)
(* the database up only after all the attempts it is configured for        *)
(* (database.ts:66).                                                       *)
WaitsForDatabase ==
    \A s \in {"auth", "tasks"} :
        LET now == startup[s].phase
            next == startup'[s].phase
        IN  /\ now \in {"connecting", "waiting"} /\ next = "creating" => database = "up"
            /\ now \in {"connecting", "waiting"} /\ next = "exited" =>
                   startup[s].attempt = Options(s).maxAttempts
=============================================================================
