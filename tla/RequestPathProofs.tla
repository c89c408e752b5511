-------------------------- MODULE RequestPathProofs --------------------------
(***************************************************************************)
(* TLAPS proofs about RequestPath: how the services start, what becomes of *)
(* a request, and what a client that reads a list page by page has seen.   *)
(***************************************************************************)
EXTENDS RequestPath, TLAPS, FiniteSetTheorems

-----------------------------------------------------------------------------
(* Natural numbers.                                                        *)

LEMMA Least ==
    ASSUME NEW T, T \subseteq Nat, T # {}
    PROVE  \E n \in T : \A m \in T : n <= m
<1>1. IsWellFoundedOn(OpToRel(<, Nat), Nat)
    BY NatLessThanWellFounded
<1>2. PICK n \in T : \A m \in T : ~ (<<m, n>> \in OpToRel(<, Nat))
    BY <1>1, WFMin
<1>3. \A m \in T : m \in Nat /\ n \in Nat
    OBVIOUS
<1>4. \A m \in T : ~(m < n)
    BY <1>2, <1>3, Zenon DEF OpToRel
<1>5. \A m \in T : n <= m
    BY <1>3, <1>4
<1>6. QED BY <1>5

(* The first powers of two, as a function.                                 *)
Powers(n) ==
    {f \in [0..n -> Nat \ {0}] : f[0] = 1 /\ \A k \in 1..n : f[k] = 2 * f[k - 1]}

LEMMA PowersExtend ==
    ASSUME NEW n \in Nat, NEW f \in Powers(n)
    PROVE  [k \in 0..(n + 1) |-> IF k = n + 1 THEN 2 * f[n] ELSE f[k]] \in Powers(n + 1)
<1> DEFINE g == [k \in 0..(n + 1) |-> IF k = n + 1 THEN 2 * f[n] ELSE f[k]]
<1>1. f \in [0..n -> Nat \ {0}] /\ f[0] = 1 /\ \A k \in 1..n : f[k] = 2 * f[k - 1]
    BY DEF Powers
<1>2. g \in [0..(n + 1) -> Nat \ {0}]
    BY <1>1
<1>3. g[0] = 1 /\ g[n + 1] = 2 * g[n]
    BY <1>1
<1>4. ASSUME NEW k \in 1..(n + 1), k # n + 1 PROVE g[k] = 2 * g[k - 1]
  <2>1. k \in 1..n /\ k - 1 \in 0..(n + 1) /\ k - 1 # n + 1 /\ k \in 0..(n + 1)
      BY <1>4
  <2>2. QED BY <1>1, <1>4, <2>1
<1> HIDE DEF g
<1>5. \A k \in 1..(n + 1) : g[k] = 2 * g[k - 1]
  <2>1. (n + 1) - 1 = n
      OBVIOUS
  <2>2. QED BY <1>3, <1>4, <2>1
<1>6. g \in Powers(n + 1)
    BY <1>2, <1>3, <1>5 DEF Powers
<1>7. QED BY <1>6 DEF g

LEMMA PowersExist == \A n \in Nat : Powers(n) # {}
<1> DEFINE Bad == {n \in Nat : Powers(n) = {}}
<1> SUFFICES ASSUME Bad # {} PROVE FALSE
    OBVIOUS
<1>1. PICK n \in Bad : \A m \in Bad : n <= m
    BY Least
<1>2. n # 0
  <2> DEFINE f == [k \in 0..0 |-> 1]
  <2>1. f \in [0..0 -> Nat \ {0}] /\ f[0] = 1 /\ 1..0 = {}
      OBVIOUS
  <2>2. f \in Powers(0)
      BY <2>1 DEF Powers
  <2>3. QED BY <2>2
<1>3. n - 1 \in Nat /\ n - 1 \notin Bad
    BY <1>1, <1>2
<1>4. PICK f : f \in Powers(n - 1)
    BY <1>3
<1>5. Powers((n - 1) + 1) # {}
    BY <1>3, <1>4, PowersExtend
<1>6. QED BY <1>2, <1>5

LEMMA PowersAgree ==
    ASSUME NEW n \in Nat, NEW m \in Nat, n <= m, NEW f \in Powers(n), NEW g \in Powers(m)
    PROVE  \A k \in 0..n : f[k] = g[k]
<1> DEFINE Apart == {k \in 0..n : f[k] # g[k]}
<1> SUFFICES ASSUME Apart # {} PROVE FALSE
    OBVIOUS
<1>1. Apart \subseteq Nat
    OBVIOUS
<1>2. PICK k \in Apart : \A j \in Apart : k <= j
    BY <1>1, Least
<1>3. k # 0
    BY DEF Powers
<1>4. k - 1 \in 0..n /\ k - 1 \notin Apart /\ k \in 1..n /\ k \in 1..m
    BY <1>2, <1>3
<1>5. f[k] = 2 * f[k - 1] /\ g[k] = 2 * g[k - 1]
    BY <1>4 DEF Powers
<1>6. QED BY <1>4, <1>5

(* The recursive function is what its definition says.                     *)
LEMMA PowersOfTwo ==
    /\ PowerOfTwo \in [Nat -> Nat \ {0}]
    /\ PowerOfTwo[0] = 1
    /\ \A n \in Nat : PowerOfTwo[n + 1] = 2 * PowerOfTwo[n]
<1> DEFINE up(n) == CHOOSE f : f \in Powers(n)
           P == [n \in Nat |-> up(n)[n]]
<1>1. \A n \in Nat : up(n) \in Powers(n)
    BY PowersExist
<1>2. P[0] = 1
    BY <1>1 DEF Powers
<1>3. ASSUME NEW n \in Nat, n # 0 PROVE P[n] = 2 * P[n - 1]
  <2>1. n - 1 \in Nat /\ up(n - 1) \in Powers(n - 1) /\ up(n) \in Powers(n)
      BY <1>1, <1>3
  <2> HIDE DEF up
  <2>2. up(n - 1)[n - 1] = up(n)[n - 1]
      BY <2>1, PowersAgree
  <2>3. up(n)[n] = 2 * up(n)[n - 1]
      BY <2>1, <1>3 DEF Powers
  <2>4. QED BY <2>1, <2>2, <2>3
<1>4. P = [n \in Nat |-> P[n]]
    OBVIOUS
<1> HIDE DEF P
<1>5. P = [n \in Nat |-> IF n = 0 THEN 1 ELSE 2 * P[n - 1]]
    BY <1>2, <1>3, <1>4
<1>6. PowerOfTwo = [n \in Nat |-> IF n = 0 THEN 1 ELSE 2 * PowerOfTwo[n - 1]]
    BY <1>5 DEF PowerOfTwo
<1>7. PowerOfTwo[0] = 1
    BY <1>6
<1>8. ASSUME NEW n \in Nat PROVE PowerOfTwo[n + 1] = 2 * PowerOfTwo[n]
    BY <1>6
<1>9. \A n \in Nat : PowerOfTwo[n] \in Nat \ {0}
  <2> DEFINE Off == {n \in Nat : PowerOfTwo[n] \notin Nat \ {0}}
  <2> SUFFICES ASSUME Off # {} PROVE FALSE
      OBVIOUS
  <2>1. PICK n \in Off : \A m \in Off : n <= m
      BY Least
  <2>2. n # 0 /\ n - 1 \in Nat /\ n - 1 \notin Off
      BY <2>1, <1>7
  <2>3. PowerOfTwo[n] = 2 * PowerOfTwo[n - 1]
      BY <2>2, <1>6
  <2>4. QED BY <2>2, <2>3
<1>10. PowerOfTwo \in [Nat -> Nat \ {0}]
    BY <1>6, <1>9
<1>11. QED BY <1>7, <1>8, <1>10

-----------------------------------------------------------------------------
(* Start-up.                                                               *)

(* What Waited has computed by the n-th attempt.                           *)
Backoff(s, n) ==
    IF n = 1 THEN Options(s).initialDelay
    ELSE Smaller(Options(s).initialDelay * PowerOfTwo[n - 1], Options(s).maxDelay)

Waiters == {"auth", "tasks"}

(* A process that waits for the database is within its attempts, and only  *)
(* notifications pauses, for its delay.                                    *)
Sound(s, at) ==
    /\ at \in [phase : Phase, attempt : Nat, delay : Nat]
    /\ at.phase \in {"connecting", "waiting"} =>
          /\ s \in Waiters
          /\ at.attempt \in 1..Options(s).maxAttempts
          /\ at.delay = Backoff(s, at.attempt)
          /\ at.phase = "waiting" => at.attempt < Options(s).maxAttempts
    /\ at.phase \in {"creating", "starting", "retrying"} => at.attempt >= 1
    /\ at.phase = "retrying" => s = "notifications" /\ at.delay \in RetryDelay .. RetryDelayMax

StartupInv ==
    /\ StartupTypeOK
    /\ DOMAIN startup = Service /\ startup = [s \in Service |-> startup[s]]
    /\ \A s \in Service : Sound(s, startup[s])

LEMMA SettingsOK ==
    ASSUME environment \in Environments
    PROVE  /\ \A s \in Service : Options(s) \in [initialDelay : Nat \ {0}, maxDelay : Nat \ {0},
                                                maxAttempts : Nat \ {0}]
           /\ RetryDelay \in Nat /\ RetryDelayMax \in Nat /\ RetryDelay <= RetryDelayMax
<1>1. environment \in [Prefix -> [Setting -> Raw]]
    BY EnvironmentsAssumption
<1>2. \A prefix \in Prefix, setting \in Setting : environment[prefix][setting] \in Raw
    BY <1>1
<1>3. \A prefix \in Prefix, setting \in Setting : GetBootstrapEnvValue(setting, prefix) \in Raw
    BY <1>2 DEF GetBootstrapEnvValue, Prefix
<1>4. \A raw \in Raw, n \in Nat \ {0} : ParsePositiveInt(raw, n) \in Nat \ {0}
    BY DEF Raw, Unset, NotANumber, ParsePositiveInt
<1>5. \A prefix \in Prefix :
        ResolveWaitForDatabaseOptions(prefix) \in
            [initialDelay : Nat \ {0}, maxDelay : Nat \ {0}, maxAttempts : Nat \ {0}]
  <2> TAKE prefix \in Prefix
  <2>1. \A setting \in {"initialDelay", "maxDelay", "maxAttempts"} :
          /\ Default[setting] \in Nat \ {0}
          /\ setting \in Setting
      BY DEF Default, Setting
  <2>2. \A setting \in {"initialDelay", "maxDelay", "maxAttempts"} :
          ParsePositiveInt(GetBootstrapEnvValue(setting, prefix), Default[setting]) \in Nat \ {0}
      BY <1>3, <1>4, <2>1
  <2>3. QED BY <2>2 DEF ResolveWaitForDatabaseOptions
<1>6. \A s \in Service : Options(s) \in [initialDelay : Nat \ {0}, maxDelay : Nat \ {0},
                                        maxAttempts : Nat \ {0}]
    BY <1>5 DEF Options, AuthOptions, TasksOptions, Prefix
<1>7. \A raw \in Raw, n \in Nat : ParseNumberEnv(raw, n) \in Nat
    BY DEF Raw, Unset, NotANumber, ParseNumberEnv
<1>8. environment[""]["retryDelay"] \in Raw /\ environment[""]["retryMaxDelay"] \in Raw
    BY <1>2 DEF Prefix, Setting
<1>9. RetryDelay \in Nat /\ ParseNumberEnv(environment[""].retryMaxDelay, Default.retryMaxDelay) \in Nat
    BY <1>7, <1>8 DEF RetryDelay, Default
<1>10. RetryDelayMax \in Nat /\ RetryDelay <= RetryDelayMax
  <2>1. \A a, b \in Nat : Greater(a, b) \in Nat /\ a <= Greater(a, b)
      BY DEF Greater
  <2>2. QED BY <1>9, <2>1 DEF RetryDelayMax
<1>11. QED BY <1>6, <1>9, <1>10

LEMMA StartedSound ==
    ASSUME environment \in Environments, NEW s \in Service
    PROVE  Sound(s, Started(s)) /\ Sound(s, Exited) /\ Sound(s, At("listening", 0, 0))
<1>1. Options(s).initialDelay \in Nat /\ Options(s).maxAttempts \in Nat \ {0}
    BY SettingsOK
<1>2. QED BY <1>1 DEF Sound, Started, Exited, At, Waits, Waiters, Phase, Backoff

LEMMA StartupInitInv == StartupInit => StartupInv
<1> SUFFICES ASSUME StartupInit PROVE StartupInv
    OBVIOUS
<1>1. environment \in Environments
    BY EnvironmentsAssumption DEF StartupInit
<1>2. /\ DOMAIN startup = Service /\ startup = [s \in Service |-> startup[s]]
      /\ \A s \in Service : startup[s] \in {At("listening", 0, 0), Started(s), Exited}
    BY DEF StartupInit
<1>3. \A s \in Service : Sound(s, startup[s])
    BY <1>1, <1>2, StartedSound
<1>4. StartupTypeOK
    BY <1>1, <1>3, StartupBoundsAssumption DEF StartupTypeOK, StartupInit, Sound
<1>5. QED BY <1>2, <1>3, <1>4 DEF StartupInv

(* A step that moves one process.                                          *)
LEMMA MoveInv ==
    ASSUME StartupInv, NEW s \in Service, NEW to, Sound(s, to),
           startup' = [startup EXCEPT ![s] = to], UNCHANGED environment,
           database' \in {"down", "up"}, broker' \in {"down", "up"},
           faults' \in 0..MaxFaults, restarts' \in 0..MaxRestarts
    PROVE  StartupInv'
<1>1. \A t \in Service : startup'[t] = IF t = s THEN to ELSE startup[t]
    BY DEF StartupInv
<1>2. /\ \A t \in Service : Options(t)' = Options(t)
      /\ RetryDelay' = RetryDelay /\ RetryDelayMax' = RetryDelayMax
    BY DEF Options, AuthOptions, TasksOptions, ResolveWaitForDatabaseOptions,
           GetBootstrapEnvValue, RetryDelay, RetryDelayMax
<1>3. \A t \in Service : Sound(t, startup'[t])
    BY <1>1 DEF StartupInv
<1>4. ASSUME NEW t \in Service PROVE Sound(t, startup[t])'
  <2>1. Sound(t, startup'[t])
      BY <1>3
  <2>2. Backoff(t, startup[t].attempt)' = Backoff(t, startup'[t].attempt)
      BY <1>2 DEF Backoff
  <2>3. QED BY <1>2, <2>1, <2>2 DEF Sound
<1>5. StartupTypeOK'
    BY <1>3 DEF StartupInv, StartupTypeOK, Sound
<1>6. DOMAIN startup' = Service /\ startup' = [t \in Service |-> startup'[t]]
    BY DEF StartupInv
<1>7. QED BY <1>4, <1>5, <1>6 DEF StartupInv

LEMMA BackoffDoubles ==
    ASSUME environment \in Environments, NEW s \in Service, NEW n \in Nat \ {0}
    PROVE  /\ Backoff(s, n) \in Nat
           /\ Backoff(s, n + 1) = Smaller(2 * Backoff(s, n), Options(s).maxDelay)
<1> DEFINE d == Options(s).initialDelay
           m == Options(s).maxDelay
           p == PowerOfTwo[n - 1]
<1>1. d \in Nat /\ m \in Nat
    BY SettingsOK
<1>2. p \in Nat /\ p >= 1 /\ PowerOfTwo[n] = 2 * p /\ (n = 1 => p = 1)
  <2>1. n - 1 \in Nat /\ (n - 1) + 1 = n
      OBVIOUS
  <2>2. QED BY <2>1, PowersOfTwo
<1>3. Backoff(s, n + 1) = Smaller(d * PowerOfTwo[n], m)
  <2>1. n + 1 # 1 /\ (n + 1) - 1 = n
      OBVIOUS
  <2>2. QED BY <2>1 DEF Backoff
<1>4. Backoff(s, n) = IF n = 1 THEN d ELSE Smaller(d * p, m)
    BY DEF Backoff
<1> HIDE DEF d, m, p
<1>5. d * (2 * p) = 2 * (d * p) /\ d * p \in Nat
    BY <1>1, <1>2
<1>6. n = 1 => d * p = d
    BY <1>1, <1>2
<1> DEFINE k == d * p
<1> HIDE DEF k
<1>7. k \in Nat /\ d * PowerOfTwo[n] = 2 * k /\ (n = 1 => k = d) /\ d * p = k
    BY <1>2, <1>5, <1>6 DEF k
<1>8. QED BY <1>1, <1>3, <1>4, <1>7 DEF Smaller, m

(* One lemma for each step of a process: it keeps StartupInv, and it goes  *)
(* past the database, or gives it up, as it should.                        *)
Lawful(s) ==
    startup[s].phase \in {"connecting", "waiting"} =>
        /\ startup'[s].phase = "creating" => database = "up"
        /\ startup'[s].phase = "exited" => startup[s].attempt = Options(s).maxAttempts

LEMMA MoveLawful ==
    ASSUME StartupInv, NEW s \in Service, NEW to, Sound(s, to), Move(s, to),
           faults' \in 0..MaxFaults
    PROVE  StartupInv' /\ startup'[s] = to /\ \A t \in Service \ {s} : startup'[t] = startup[t]
<1>1. database' \in {"down", "up"} /\ broker' \in {"down", "up"} /\ restarts' \in 0..MaxRestarts
    BY DEF Move, StartupInv, StartupTypeOK
<1>2. QED BY <1>1, MoveInv DEF Move, StartupInv

LEMMA StepKeeps ==
    ASSUME StartupInv, NEW s \in Service, StartupStep(s)
    PROVE  /\ StartupInv' /\ Lawful(s) /\ \A t \in Service \ {s} : startup'[t] = startup[t]
           /\ environment' = environment
<1>1. /\ environment \in Environments /\ Sound(s, startup[s])
      /\ startup[s] \in [phase : Phase, attempt : Nat, delay : Nat]
    BY DEF StartupInv, StartupTypeOK, Sound
<1>2. /\ Options(s) \in [initialDelay : Nat \ {0}, maxDelay : Nat \ {0}, maxAttempts : Nat \ {0}]
      /\ RetryDelay \in Nat /\ RetryDelayMax \in Nat /\ RetryDelay <= RetryDelayMax
    BY <1>1, SettingsOK
<1>3. faults' \in 0..MaxFaults /\ environment' = environment
    BY StartupBoundsAssumption
       DEF StartupInv, StartupTypeOK, StartupStep, Connects, ConnectFails, Waited, Created,
           CreateFails, Listens, BrokerRefuses, ListenFails, Retries, DatabaseFails, Fault, Move
<1>4. Sound(s, Exited) /\ Sound(s, At("listening", 0, 0))
    BY <1>1, StartedSound
<1>5. CASE Connects(s)
  <2>1. Sound(s, At("creating", 1, 0))
      BY DEF Sound, At, Phase
  <2>2. QED BY <1>3, <1>5, <2>1, MoveLawful DEF Connects, Lawful, At
<1>6. CASE ConnectFails(s)
  <2>1. CASE startup[s].attempt >= Options(s).maxAttempts
      BY <1>1, <1>2, <1>3, <1>4, <1>6, <2>1, MoveLawful DEF ConnectFails, Lawful, Exited, At, Sound
  <2>2. CASE ~(startup[s].attempt >= Options(s).maxAttempts)
    <3>1. Sound(s, [startup[s] EXCEPT !.phase = "waiting"])
        BY <1>1, <1>2, <1>6, <2>2 DEF ConnectFails, Sound, Phase
    <3>2. QED BY <1>1, <1>3, <1>6, <2>2, <3>1, MoveLawful DEF ConnectFails, Lawful
  <2>3. QED BY <2>1, <2>2
<1>7. CASE Waited(s)
  <2> DEFINE n == startup[s].attempt
             next == Smaller(2 * startup[s].delay, Options(s).maxDelay)
  <2>1. n \in Nat \ {0} /\ n < Options(s).maxAttempts /\ s \in Waiters
        /\ startup[s].delay = Backoff(s, n)
      BY <1>1, <1>7 DEF Waited, Sound
  <2>2. next = Backoff(s, n + 1) /\ next \in Nat
      BY <1>1, <2>1, BackoffDoubles
  <2>3. Sound(s, At("connecting", n + 1, next))
      BY <1>2, <2>1, <2>2 DEF Sound, At, Phase
  <2>4. Move(s, At("connecting", n + 1, next))
      BY <1>7, <2>1 DEF Waited
  <2>5. startup'[s].phase = "connecting"
      BY <1>3, <2>3, <2>4, MoveLawful DEF At
  <2>6. QED BY <1>3, <2>3, <2>4, <2>5, MoveLawful DEF Lawful
<1>8. CASE Created(s)
  <2>1. Sound(s, [startup[s] EXCEPT !.phase = "starting"])
      BY <1>1, <1>8 DEF Created, Sound, Phase
  <2>2. QED BY <1>3, <1>8, <2>1, MoveLawful DEF Created, Lawful
<1>9. CASE CreateFails(s)
    BY <1>3, <1>4, <1>9, MoveLawful DEF CreateFails, Lawful
<1>10. CASE Listens(s)
    BY <1>3, <1>4, <1>10, MoveLawful DEF Listens, Lawful
<1>11. CASE BrokerRefuses(s)
  <2> DEFINE n == startup[s].attempt
             delay == Smaller(RetryDelayMax, RetryDelay * PowerOfTwo[n - 1])
  <2>1. CASE s = "notifications"
    <3>1. n \in Nat \ {0}
        BY <1>1, <1>11 DEF BrokerRefuses, Sound
    <3>2. PowerOfTwo[n - 1] \in Nat \ {0}
        BY <3>1, PowersOfTwo
    <3>3. RetryDelay * PowerOfTwo[n - 1] \in Nat /\ RetryDelay * PowerOfTwo[n - 1] >= RetryDelay
      <4>1. \A a \in Nat, b \in Nat \ {0} : a * b \in Nat /\ a * b >= a
          OBVIOUS
      <4>2. QED BY <1>2, <3>2, <4>1
    <3>4. delay \in RetryDelay .. RetryDelayMax /\ delay \in Nat
        BY <1>2, <3>3 DEF Smaller
    <3>5. Sound(s, [startup[s] EXCEPT !.phase = "retrying", !.delay = delay])
      <4> HIDE DEF delay
      <4> DEFINE at == [startup[s] EXCEPT !.phase = "retrying", !.delay = delay]
      <4>1. at.phase = "retrying" /\ at.attempt = n /\ at.delay = delay
          BY <1>1
      <4>2. at \in [phase : Phase, attempt : Nat, delay : Nat]
          BY <1>1, <3>4 DEF Phase
      <4>3. QED BY <2>1, <3>1, <3>4, <4>1, <4>2 DEF Sound
    <3>6. Move(s, [startup[s] EXCEPT !.phase = "retrying", !.delay = delay])
        BY <1>11, <2>1 DEF BrokerRefuses
    <3>7. QED BY <1>3, <1>11, <3>5, <3>6, MoveLawful DEF BrokerRefuses, Lawful
  <2>2. CASE s # "notifications"
      BY <1>3, <1>4, <1>11, <2>2, MoveLawful DEF BrokerRefuses, Lawful
  <2>3. QED BY <2>1, <2>2
<1>12. CASE ListenFails(s)
    BY <1>3, <1>4, <1>12, MoveLawful DEF ListenFails, Lawful
<1>13. CASE Retries(s)
  <2>1. Sound(s, At("creating", startup[s].attempt + 1, 0))
      BY <1>1 DEF Sound, At, Phase
  <2>2. QED BY <1>3, <1>13, <2>1, MoveLawful DEF Retries, Lawful
<1>14. QED BY <1>3, <1>5, <1>6, <1>7, <1>8, <1>9, <1>10, <1>11, <1>12, <1>13 DEF StartupStep

LEMMA CrashKeeps ==
    ASSUME StartupInv, NEW s \in Service, Crash(s)
    PROVE  StartupInv' /\ Lawful(s) /\ \A t \in Service \ {s} : startup'[t] = startup[t]
<1>1. Sound(s, Exited)
    BY StartedSound DEF StartupInv, StartupTypeOK
<1>2. faults' \in 0..MaxFaults
    BY StartupBoundsAssumption DEF Crash, Fault, StartupInv, StartupTypeOK
<1>3. startup[s].phase = "listening"
    BY DEF Crash, Listening
<1>4. QED BY <1>1, <1>2, <1>3, MoveLawful DEF Crash, Lawful

LEMMA RestartKeeps ==
    ASSUME StartupInv, NEW s \in Service, Restart(s)
    PROVE  StartupInv' /\ Lawful(s) /\ \A t \in Service \ {s} : startup'[t] = startup[t]
<1>1. Sound(s, Started(s))
    BY StartedSound DEF StartupInv, StartupTypeOK
<1>2. /\ database' \in {"down", "up"} /\ broker' \in {"down", "up"}
      /\ restarts' \in 0..MaxRestarts /\ faults' \in 0..MaxFaults
    BY StartupBoundsAssumption DEF Restart, StartupInv, StartupTypeOK
<1>3. StartupInv'
    BY <1>1, <1>2, MoveInv DEF Restart
<1>4. QED BY <1>3 DEF Restart, Lawful, StartupInv

LEMMA StillKeeps ==
    ASSUME StartupInv, UNCHANGED <<environment, startup, restarts, faults>>,
           database' \in {"down", "up"}, broker' \in {"down", "up"}
    PROVE  StartupInv' /\ \A s \in Service : startup'[s] = startup[s]
<1>1. /\ \A t \in Service : Options(t)' = Options(t)
      /\ RetryDelay' = RetryDelay /\ RetryDelayMax' = RetryDelayMax
    BY DEF Options, AuthOptions, TasksOptions, ResolveWaitForDatabaseOptions,
           GetBootstrapEnvValue, RetryDelay, RetryDelayMax
<1>2. ASSUME NEW t \in Service PROVE Sound(t, startup[t])'
    BY <1>1 DEF StartupInv, Sound, Backoff
<1>3. QED BY <1>2 DEF StartupInv, StartupTypeOK

(* Every step of the whole system is one of these, as far as the processes *)
(* are concerned.                                                          *)
LEMMA NextStartup ==
    ASSUME StartupInv, [Next]_vars
    PROVE  StartupInv' /\ WaitsForDatabase
<1>1. \/ \E s \in Service : StartupStep(s)
      \/ \E s \in Service : Restart(s)
      \/ \E s \in Service : Crash(s)
      \/ /\ UNCHANGED <<environment, startup, restarts, faults>>
         /\ database' \in {"down", "up"} /\ broker' \in {"down", "up"}
  <2>1. CASE UNCHANGED startupVars
      BY <2>1 DEF startupVars, StartupInv, StartupTypeOK
  <2>2. CASE StartupNext
      BY <2>2 DEF StartupNext, DatabaseUp, BrokerUp, StartupInv, StartupTypeOK
  <2>3. CASE \E s \in Service : ServiceCrash(s)
      BY <2>3 DEF ServiceCrash
  <2>4. QED
      BY <2>1, <2>2, <2>3
         DEF Next, vars, Submit, SubmitUnauthorized, RequestStep, Deliver, Throw, Work, ReadPage,
             CountRows, Answer, NextPage, Forget, StartWalk, NotificationStored
<1>2. StartupInv' /\ \A t \in Service : Lawful(t)
  <2>1. \A t \in Service : startup'[t] = startup[t] => Lawful(t)
      BY DEF Lawful
  <2>2. QED BY <1>1, <2>1, StepKeeps, CrashKeeps, RestartKeeps, StillKeeps
<1>3. QED BY <1>2 DEF WaitsForDatabase, Lawful, Service

LEMMA StartupInvariant == Spec => []StartupInv
<1>1. Init => StartupInv
    BY StartupInitInv DEF Init
<1>2. QED BY <1>1, NextStartup, PTL DEF Spec

(* Whatever the settings, the pauses of waitForDatabase are the initial    *)
(* delay doubled each time up to the maximum, there is none after the last *)
(* attempt, and those of notifications-service stay within its two         *)
(* settings (database.ts:106, main.ts:190).                                *)
THEOREM PausesAsDefined == Spec => []BackoffAsDefined
<1>1. StartupInv => BackoffAsDefined
    BY DEF StartupInv, Sound, BackoffAsDefined, Backoff, Service
<1>2. QED BY <1>1, StartupInvariant, PTL

(* No failure, restart or setting takes auth or tasks past waitForDatabase *)
(* without a connection, or makes it give up before its last attempt.      *)
THEOREM StartsAfterDatabase == Spec => StartsInOrder
<1>1. StartupInv /\ [Next]_vars => WaitsForDatabase
    BY NextStartup
<1>2. QED BY <1>1, StartupInvariant, PTL DEF Spec, StartsInOrder

-----------------------------------------------------------------------------
(* The contracts on both sides of a call.                                  *)

LEMMA AcceptsJoined ==
    ASSUME NEW c, NEW d, NEW f, NEW g, Accepts(c, f), Accepts(d, g),
           DOMAIN c \cap DOMAIN d = {}
    PROVE  Accepts(Joined(c, d), Joined(f, g))
    BY DEF Accepts, Joined, ClassOf

(* Fields that may be missing change nothing.                              *)
LEMMA AcceptsWithout ==
    ASSUME NEW c, NEW d, NEW f, Accepts(c, f), DOMAIN c \cap DOMAIN d = {},
           \A name \in DOMAIN d : Absent \in d[name]
    PROVE  Accepts(Joined(c, d), f)
    BY DEF Accepts, Joined, ClassOf

LEMMA AcceptsCorrelated ==
    ASSUME NEW c, NEW f, Accepts(c, f), "requestId" \notin DOMAIN c
    PROVE  Accepts(Correlated(c), f)
    BY AcceptsWithout DEF Correlated, Optional

LEMMA AcceptsPaged ==
    ASSUME NEW c, NEW f, Accepts(c, f), DOMAIN c \cap {"page", "limit"} = {}
    PROVE  Accepts(Paged(c), WithPage(f))
<1> DEFINE d == [page |-> Optional(Exact), limit |-> Optional(Exact)]
           g == [page |-> "ok", limit |-> "ok"]
<1>1. Accepts(d, g)
    BY DEF Accepts, ClassOf, Optional, Exact
<1>2. DOMAIN d = {"page", "limit"} /\ DOMAIN g = {"page", "limit"}
    OBVIOUS
<1> HIDE DEF d, g
<1>3. Accepts(Joined(c, d), Joined(g, f))
    BY <1>1, <1>2 DEF Accepts, Joined, ClassOf
<1>4. QED BY <1>3 DEF Paged, WithPage, d, g

LEMMA AcceptsActor ==
    ASSUME NEW user, user.name \in Optional(AnyText), user.email \in Optional(Exact)
    PROVE  Accepts(TaskActorDto, ActorFields(user))
<1> DEFINE name == ActorName(user)
           email == ActorEmail(user)
<1>1. /\ DOMAIN name \subseteq {"actorName"} /\ ClassOf(name, "actorName") \in Optional(AnyText)
      /\ DOMAIN email \subseteq {"actorEmail"} /\ ClassOf(email, "actorEmail") \in Optional(Exact)
    BY DEF ActorName, ActorEmail, ClassOf, Nothing, Optional, Absent
<1> HIDE DEF name, email
<1>2. Accepts([actorName |-> Optional(AnyText)], name)
    BY <1>1 DEF Accepts
<1>3. Accepts([actorEmail |-> Optional(Exact)], email)
    BY <1>1 DEF Accepts
<1>4. Accepts([actorId |-> Exact], [actorId |-> "ok"])
    BY DEF Accepts, ClassOf, Exact
<1> DEFINE dto == Joined([actorName |-> Optional(AnyText)], [actorEmail |-> Optional(Exact)])
<1>5. Accepts(dto, Joined(name, email)) /\ DOMAIN dto = {"actorName", "actorEmail"}
    BY <1>2, <1>3, AcceptsJoined DEF Joined
<1> HIDE DEF dto
<1>6. Accepts(Joined([actorId |-> Exact], dto), Joined([actorId |-> "ok"], Joined(name, email)))
    BY <1>4, <1>5, AcceptsJoined
<1>7. Joined([actorId |-> Exact], dto) = TaskActorDto
    BY <1>5 DEF dto, Joined, TaskActorDto
<1>8. QED BY <1>6, <1>7 DEF ActorFields, name, email

LEMMA AcceptsRestricted ==
    ASSUME NEW c, NEW d, NEW f, NEW N, Accepts(Joined(c, d), f), DOMAIN c = N,
           DOMAIN c \cap DOMAIN d = {}
    PROVE  Accepts(d, Restrict(f, DOMAIN f \ N))
    BY DEF Accepts, Joined, ClassOf, Restrict

(* What the gateway's pipe accepts, the tasks service accepts, with two    *)
(* exceptions.                                                             *)
LEMMA TasksAgree ==
    ASSUME NEW q, Known(q), GatewayAccepts(q.route, q.id, q.fields), ServiceOf(q.route) = "tasks",
           ~TasksAccept(q.route, TasksRpcFields(q.route, q.fields, q.user))
    PROVE  \/ q.route = "update" /\ ~UpdatesSomething(q.fields)
           \/ q.route = "createComment" /\ q.user.name = "long"
<1> DEFINE f == q.fields
           actor == ActorFields(q.user)
           author == AuthorFields(q.user)
           id == [id |-> "ok"]
           task == [taskId |-> "ok"]
<1>1. Accepts(InputDto[q.route], f) /\ q.route \in Routes
    BY DEF GatewayAccepts, Known
<1>2. Accepts([id |-> Exact], id) /\ DOMAIN [id |-> Exact] = {"id"}
      /\ Accepts([taskId |-> Exact], task) /\ DOMAIN [taskId |-> Exact] = {"taskId"}
    BY DEF Accepts, ClassOf, Exact
<1>3. Accepts(TaskActorDto, actor) /\ DOMAIN TaskActorDto = {"actorId", "actorName", "actorEmail"}
    BY AcceptsActor DEF Known, TaskActorDto
<1>4. Accepts(TaskIdDto, id) /\ DOMAIN TaskIdDto = {"id", "requestId"}
    BY <1>2, AcceptsCorrelated DEF TaskIdDto, Correlated, Joined
<1>5. Accepts(Correlated(Paged([taskId |-> Exact])), WithPage(task))
  <2>1. Accepts(Paged([taskId |-> Exact]), WithPage(task))
      BY <1>2, AcceptsPaged
  <2>2. "requestId" \notin DOMAIN Paged([taskId |-> Exact])
      BY DEF Paged, Joined
  <2>3. QED BY <2>1, <2>2, AcceptsCorrelated
<1>6. q.route # "findAll"
  <2> SUFFICES ASSUME q.route = "findAll" PROVE FALSE
      OBVIOUS
  <2>1. Accepts(ListTasksQueryDto, f)
      BY <1>1 DEF InputDto
  <2> DEFINE g == Restrict(f, DOMAIN f \ {"page", "size"})
             c == [page |-> Optional(Exact), size |-> Optional(Exact)]
  <2>2. DOMAIN c = {"page", "size"}
        /\ DOMAIN TaskFilters = {"status", "priority", "search", "assigneeId", "dueDate"}
      BY DEF TaskFilters
  <2>3. Accepts(TaskFilters, g)
      BY <2>1, <2>2, AcceptsRestricted DEF ListTasksQueryDto
  <2>4. Accepts(Paged(TaskFilters), WithPage(g))
      BY <2>2, <2>3, AcceptsPaged
  <2>5. "requestId" \notin DOMAIN Paged(TaskFilters)
      BY <2>2 DEF Paged, Joined
  <2>6. Accepts(ListTasksDto, WithPage(g))
      BY <2>4, <2>5, AcceptsCorrelated DEF ListTasksDto
  <2>7. QED BY <2>6 DEF TasksAccept, TasksRpcFields
<1>7. q.route # "findById"
    BY <1>4 DEF TasksAccept, TasksRpcFields
<1>8. q.route # "create"
  <2> SUFFICES ASSUME q.route = "create" PROVE FALSE
      OBVIOUS
  <2>1. Accepts(CreateTaskDto, f)
      BY <1>1 DEF InputDto
  <2>2. DOMAIN CreateTaskDto = {"title", "description", "status", "priority", "dueDate", "assignees"}
      BY DEF CreateTaskDto
  <2>3. Accepts(Joined(CreateTaskDto, TaskActorDto), Joined(f, actor))
      BY <1>3, <2>1, <2>2, AcceptsJoined
  <2>4. "requestId" \notin DOMAIN Joined(CreateTaskDto, TaskActorDto)
      BY <1>3, <2>2 DEF Joined
  <2>5. Accepts(CreateTaskPayloadDto, Joined(f, actor))
      BY <2>3, <2>4, AcceptsCorrelated DEF CreateTaskPayloadDto
  <2>6. QED BY <2>5 DEF TasksAccept, TasksRpcFields
<1>9. q.route = "update" => ~UpdatesSomething(q.fields)
  <2> SUFFICES ASSUME q.route = "update", UpdatesSomething(f) PROVE FALSE
      OBVIOUS
  <2> DEFINE g == Joined(id, Joined(f, actor))
  <2>1. Accepts(UpdateTaskDto, f)
      BY <1>1 DEF InputDto
  <2>2. DOMAIN UpdateTaskDto = {"title", "description", "status", "priority", "dueDate", "assignees"}
      BY DEF UpdateTaskDto
  <2>3. Accepts(Joined(UpdateTaskDto, TaskActorDto), Joined(f, actor))
        /\ DOMAIN Joined(UpdateTaskDto, TaskActorDto) = DOMAIN UpdateTaskDto \cup DOMAIN TaskActorDto
      BY <1>3, <2>1, <2>2, AcceptsJoined DEF Joined
  <2> DEFINE dto == Joined(UpdateTaskDto, TaskActorDto)
             fields == Joined(f, actor)
             one == [id |-> Exact]
  <2>4. /\ Accepts(dto, fields) /\ Accepts(one, id)
        /\ DOMAIN dto \cap {"id", "requestId"} = {} /\ DOMAIN one = {"id"}
      BY <1>2, <1>3, <2>2, <2>3
  <2> HIDE DEF dto, fields, one
  <2>5. Accepts(UpdateTaskPayloadDto, g)
    <3>1. Accepts(Joined(one, dto), Joined(id, fields))
        BY <2>4, AcceptsJoined
    <3>2. "requestId" \notin DOMAIN Joined(one, dto)
        BY <2>4 DEF Joined
    <3>3. Accepts(Correlated(Joined(one, dto)), Joined(id, fields))
        BY <3>1, <3>2, AcceptsCorrelated
    <3>4. QED BY <3>3 DEF UpdateTaskPayloadDto, dto, fields, one
  <2>6. \A name \in DOMAIN UpdateTaskDto : ClassOf(g, name) = ClassOf(f, name)
      BY <1>3, <2>2 DEF ClassOf, Joined, Accepts
  <2>7. UpdatesSomething(g)
      BY <2>6 DEF UpdatesSomething
  <2>8. QED BY <2>5, <2>7 DEF TasksAccept, TasksRpcFields
<1>10. q.route # "remove"
  <2>1. Accepts(RemoveTaskPayloadDto, Joined(id, actor))
      BY <1>3, <1>4, AcceptsJoined DEF RemoveTaskPayloadDto
  <2>2. QED BY <2>1 DEF TasksAccept, TasksRpcFields
<1>11. q.route \notin {"listComments", "listAuditLogs"}
    BY <1>5 DEF TasksAccept, TasksRpcFields, ListTaskCommentsDto, ListTaskAuditLogsDto
<1>12. q.route = "createComment" => q.user.name = "long"
  <2> SUFFICES ASSUME q.route = "createComment", q.user.name # "long" PROVE FALSE
      OBVIOUS
  <2> DEFINE m == [taskId |-> "ok", message |-> f.message]
  <2>1. ClassOf(f, "message") \in Short /\ f.message = "ok"
      BY <1>1 DEF InputDto, CreateCommentBodyDto, Accepts, ClassOf, Short, Absent
  <2> DEFINE c == [authorName |-> Optional(Short)]
             named == IF q.user.name \in {Absent, "blank", "null"} THEN Nothing
                      ELSE [authorName |-> q.user.name]
  <2>2. Accepts(c, named)
      BY DEF Known, Optional, AnyText, Short, Accepts, ClassOf, Nothing, Absent
  <2>3. Accepts([authorId |-> Exact], [authorId |-> "ok"])
      BY DEF Accepts, ClassOf, Exact
  <2>4. DOMAIN c = {"authorName"} /\ DOMAIN [authorId |-> Exact] = {"authorId"}
      OBVIOUS
  <2> HIDE DEF c, named
  <2>5. Accepts(Joined([authorId |-> Exact], c), author)
      BY <2>2, <2>3, <2>4, AcceptsJoined DEF AuthorFields, named
  <2>6. Accepts([taskId |-> Exact, message |-> Short], m)
      BY <2>1 DEF Accepts, ClassOf, Exact, Short
  <2> DEFINE d == Joined([taskId |-> Exact, message |-> Short], Joined([authorId |-> Exact], c))
  <2>7. Accepts(d, Joined(m, author))
      BY <2>4, <2>5, <2>6, AcceptsJoined DEF Joined
  <2>8. d = [taskId |-> Exact, authorId |-> Exact, authorName |-> Optional(Short),
             message |-> Short]
      BY <2>4 DEF Joined, c
  <2>9. Accepts(CreateCommentDto, Joined(m, author))
      BY <2>7, <2>8, AcceptsCorrelated DEF CreateCommentDto
  <2>10. QED BY <2>9 DEF TasksAccept, TasksRpcFields
<1>13. QED
    BY <1>1, <1>6, <1>7, <1>8, <1>9, <1>10, <1>11, <1>12 DEF Routes, TaskRoutes, ServiceOf

LEMMA NotificationsAgree ==
    ASSUME NEW q, Known(q), GatewayAccepts(q.route, q.id, q.fields),
           ServiceOf(q.route) = "notifications"
    PROVE  NotificationsAccept(NotificationsRpcFields(q.route, q.fields))
<1> DEFINE f == q.fields
           filters == [status |-> Optional(Exact), channel |-> Optional(Exact),
                       search |-> Optional(AnyText), from |-> Optional(Date),
                       to |-> Optional(Date), taskId |-> Optional(Exact)]
           paging == [page |-> Optional(Exact), limit |-> Optional(Exact)]
           g == IF q.route = "listTaskNotifications" THEN [taskId |-> "ok"]
                ELSE Restrict(f, DOMAIN f \ {"page", "limit"})
           dto == Joined(NotificationListFiltersDto, [recipientId |-> Exact])
           recipient == [recipientId |-> "ok"]
<1>1. DOMAIN filters = {"status", "channel", "search", "from", "to", "taskId"}
      /\ DOMAIN paging = {"page", "limit"}
    OBVIOUS
<1>2. q.route \in {"listTaskNotifications", "findNotifications"}
    BY DEF ServiceOf, Known, Routes, TaskRoutes
<1>3. Accepts(filters, g)
  <2>1. CASE q.route = "listTaskNotifications"
      BY <2>1 DEF Accepts, ClassOf, Optional, Exact
  <2>2. CASE q.route = "findNotifications"
    <3>1. Accepts(Joined(filters, paging), f)
        BY <2>2 DEF GatewayAccepts, InputDto, NotificationListFiltersDto, Paged
    <3> HIDE DEF filters, paging
    <3>2. Accepts(filters, Restrict(f, DOMAIN f \ {"page", "limit"}))
        BY <1>1, <3>1 DEF Accepts, Joined, ClassOf, Restrict
    <3>3. QED BY <2>2, <3>2
  <2>3. QED BY <1>2, <2>1, <2>2
<1>4. Accepts([recipientId |-> Exact], recipient)
    BY DEF Accepts, ClassOf, Exact
<1> HIDE DEF filters, paging, g, recipient
<1>5. Accepts(Joined(filters, [recipientId |-> Exact]), Joined(recipient, g))
    BY <1>1, <1>3, <1>4 DEF Accepts, Joined, ClassOf
<1> DEFINE e == [page |-> "ok", limit |-> "ok"]
<1>6. Accepts(paging, e) /\ DOMAIN e = {"page", "limit"}
    BY DEF Accepts, ClassOf, Optional, Exact, paging
<1> HIDE DEF e
<1>7. Accepts(dto, Joined(e, Joined(recipient, g)))
  <2>1. DOMAIN [recipientId |-> Exact] = {"recipientId"}
      OBVIOUS
  <2>2. NotificationListFiltersDto = Joined(filters, paging)
      BY DEF NotificationListFiltersDto, Paged, filters, paging
  <2>3. QED BY <1>1, <1>5, <1>6, <2>1, <2>2 DEF Accepts, Joined, ClassOf
<1>8. "requestId" \notin DOMAIN dto
    BY <1>1 DEF NotificationListFiltersDto, Paged, Joined
<1>9. Accepts(ListNotificationsPayloadDto, Joined(e, Joined(recipient, g)))
    BY <1>7, <1>8, AcceptsCorrelated DEF ListNotificationsPayloadDto
<1>10. NotificationsRpcFields(q.route, q.fields) = WithPage(Joined(recipient, g))
  <2>1. CASE q.route = "listTaskNotifications"
    <3>1. Joined(recipient, g) = [recipientId |-> "ok", taskId |-> "ok"]
        BY <2>1 DEF Joined, recipient, g
    <3>2. QED BY <2>1, <3>1 DEF NotificationsRpcFields
  <2>2. CASE q.route = "findNotifications"
      BY <2>2 DEF NotificationsRpcFields, recipient, g
  <2>3. QED BY <1>2, <2>1, <2>2
<1>11. QED BY <1>9, <1>10 DEF NotificationsAccept, WithPage, e

-----------------------------------------------------------------------------
(* The answers to errors, and the trail of ids.                            *)

LEMMA EmptyShape ==
    /\ DOMAIN EmptyBody = {"statusCode", "status", "message", "error", "code"}
    /\ EmptyBody.statusCode = Missing /\ EmptyBody.status = Missing
    /\ EmptyBody.message = "none" /\ EmptyBody.error = "none" /\ EmptyBody.code = FALSE
    BY DEF EmptyBody

LEMMA StatusTasks ==
    ASSUME NEW code \in {400, 404}, NEW message, NEW e, e = HttpException(code, message)
    PROVE  /\ Filtered(ToHttp("tasks", Wire(ToRpc("tasks", e)))).statusCode = code
           /\ Filtered(ToHttp("notifications", Wire(ToRpc("notifications", e)))).statusCode = code
           /\ Filtered(ToHttp("auth", Wire(ToRpc("auth", e)))).statusCode = 500
<1> DEFINE rpc == [type |-> "rpc", status |-> Missing, body |-> e.body]
           wire == [type |-> "wire", status |-> Missing, body |-> e.body]
<1>1. e.type = "http" /\ e.status = code /\ e.body.statusCode = code /\ e.body.message = message
      /\ e.body.code = FALSE /\ e.body # EmptyBody
      /\ DOMAIN e.body = {"statusCode", "status", "message", "error", "code"}
  <2> DEFINE own == [EmptyBody EXCEPT !.statusCode = code, !.message = message, !.error = "own"]
  <2>1. own.statusCode = code /\ own.message = message /\ own.error = "own" /\ own.code = FALSE
      BY EmptyShape
  <2>2. DOMAIN own = {"statusCode", "status", "message", "error", "code"}
      BY EmptyShape
  <2>3. own # EmptyBody
      BY <2>1, EmptyShape
  <2>4. e.type = "http" /\ e.status = code /\ e.body = own
      BY DEF HttpException, Thrown
  <2> QED BY <2>1, <2>2, <2>3, <2>4
<1> DEFINE b == e.body
<1>2. WithStatus(b, code) = b
    BY <1>1 DEF WithStatus, Missing
<1>3. ToRpc("tasks", e) = rpc /\ ToRpc("notifications", e) = rpc
    BY <1>1, <1>2 DEF ToRpc, TasksToRpc, NotificationsToRpc, Thrown
<1>4. Wire(rpc) = wire
    BY DEF Wire, OnTheWire
<1>5. NormalizeBody(b).statusCode = code
    BY <1>1 DEF NormalizeBody, ExtractStatusCode, FirstOf, Missing
<1>6. Filtered(ToHttp("tasks", wire)).statusCode = code
    BY <1>1, <1>5 DEF ToHttp, TasksToHttp, IsRpc, IsErrorObject, LooksLikeError, Exception, Filtered, ExtractStatusCode
<1>7. Filtered(ToHttp("notifications", wire)).statusCode = code
    BY <1>1, <1>5 DEF ToHttp, NotificationsToHttp, IsRpc, IsErrorObject, LooksLikeError, Exception, Filtered
<1>8. Filtered(ToHttp("auth", Wire(ToRpc("auth", e)))).statusCode = 500
  <2> DEFINE w == [EmptyBody EXCEPT !.status = Word, !.message = "fallback"]
  <2>1. Wire(ToRpc("auth", e)) = [type |-> "wire", status |-> Missing, body |-> w]
     BY <1>1 DEF Wire, ToRpc, AuthToRpc, OnTheWire
  <2>2. w.statusCode = Missing /\ w.status = Word /\ w # EmptyBody /\ w.message = "fallback"
        /\ DOMAIN w = {"statusCode", "status", "message", "error", "code"}
     BY DEF EmptyBody
  <2> HIDE DEF w
  <2>3. NormalizeBody(w).statusCode = 500
    BY <2>2 DEF NormalizeBody, ExtractStatusCode, FirstOf, Missing, Word
  <2>4. QED BY <2>1, <2>2, <2>3 DEF ToHttp, AuthToHttp, IsRpc, IsErrorObject, LooksLikeError, Exception, Filtered, ExtractStatusCode
<1>9. QED BY <1>3, <1>4, <1>6, <1>7, <1>8

LEMMA StatusError ==
    /\ Filtered(ToHttp("tasks", Wire(ToRpc("tasks", JsError)))).statusCode = 500
    /\ Filtered(ToHttp("notifications", Wire(ToRpc("notifications", JsError)))).statusCode = 500
    /\ Filtered(ToHttp("auth", Wire(ToRpc("auth", JsError)))).statusCode = 500
<1> DEFINE b == [EmptyBody EXCEPT !.message = "own"]
           w == [EmptyBody EXCEPT !.status = Word, !.message = "fallback"]
           rpc == [type |-> "rpc", status |-> Missing, body |-> b]
<1>1. /\ b.statusCode = Missing /\ b.status = Missing /\ b.message = "own" /\ b # EmptyBody
      /\ b.code = FALSE /\ DOMAIN b = {"statusCode", "status", "message", "error", "code"}
    BY EmptyShape
<1>2. /\ w.statusCode = Missing /\ w.status = Word /\ w # EmptyBody /\ w.message = "fallback"
      /\ w.code = FALSE /\ DOMAIN w = {"statusCode", "status", "message", "error", "code"}
    BY EmptyShape
<1>3. ToRpc("tasks", JsError) = rpc /\ ToRpc("notifications", JsError) = rpc
    BY DEF ToRpc, TasksToRpc, NotificationsToRpc, Thrown, JsError
<1>4. /\ Wire(rpc) = [type |-> "wire", status |-> Missing, body |-> b]
      /\ Wire(ToRpc("auth", JsError)) = [type |-> "wire", status |-> Missing, body |-> w]
    BY DEF Wire, OnTheWire, ToRpc, AuthToRpc, JsError, Thrown
<1> HIDE DEF b, w
<1>5. NormalizeBody(b).statusCode = 500 /\ NormalizeBody(w).statusCode = 500
    BY <1>1, <1>2 DEF NormalizeBody, ExtractStatusCode, FirstOf, Missing, Word
<1>6. Filtered(ToHttp("tasks", [type |-> "wire", status |-> Missing, body |-> b])).statusCode = 500
    BY <1>1, <1>5 DEF ToHttp, TasksToHttp, IsRpc, IsErrorObject, LooksLikeError, Exception, Filtered,
                      ExtractStatusCode
<1>7. Filtered(ToHttp("notifications", [type |-> "wire", status |-> Missing, body |-> b])).statusCode
          = 500
    BY <1>1, <1>5 DEF ToHttp, NotificationsToHttp, IsRpc, IsErrorObject, LooksLikeError, Exception,
                      Filtered, KnownStatus, FirstOf, Missing, HttpStatuses
<1>8. Filtered(ToHttp("auth", [type |-> "wire", status |-> Missing, body |-> w])).statusCode = 500
    BY <1>2, <1>5 DEF ToHttp, AuthToHttp, IsRpc, IsErrorObject, LooksLikeError, Exception, Filtered,
                      ExtractStatusCode
<1>9. QED BY <1>3, <1>4, <1>6, <1>7, <1>8

(* The answer to every error of a service: its status, or 500 behind auth. *)
LEMMA Statuses ==
    ASSUME NEW s \in {"auth", "tasks", "notifications"}, NEW e \in ServiceErrors
    PROVE  /\ AnswerStatus[s][e] = IF s = "auth" THEN 500 ELSE StatusOf(e)
           /\ e.type = "http" => e.status \in {400, 404}
           /\ StatusOf(e) \in {400, 404, 500}
           /\ StatusOf(e) = 400 => e = PayloadException
           /\ StatusOf(e) = 500 => e = JsError
<1>1. AnswerStatus[s][e] = Filtered(ToHttp(s, Wire(ToRpc(s, e)))).statusCode
    BY DEF AnswerStatus, Service
<1>2. CASE e = PayloadException
  <2>1. e = HttpException(400, "objects")
      BY <1>2 DEF PayloadException
  <2>2. StatusOf(e) = 400 /\ e.type = "http" /\ e.status = 400
      BY <2>1, EmptyShape DEF StatusOf, HttpException, Thrown
  <2>3. QED BY <1>1, <1>2, <2>1, <2>2, StatusTasks
<1>3. CASE e = HttpException(404, "own")
  <2>1. StatusOf(e) = 404 /\ e.type = "http" /\ e.status = 404
      BY <1>3, EmptyShape DEF StatusOf, HttpException, Thrown
  <2>2. QED BY <1>1, <1>3, <2>1, StatusTasks
<1>4. CASE e = JsError
  <2>1. StatusOf(e) = 500 /\ e.type # "http"
      BY <1>4 DEF StatusOf, JsError, Thrown
  <2>2. QED BY <1>1, <1>4, <2>1, StatusError
<1>5. QED BY <1>2, <1>3, <1>4 DEF ServiceErrors

LEMMA OwnStatuses ==
    /\ Refused = 400 /\ Unauthorized = 401 /\ Unreachable = 500
<1>1. Refused = 400
    BY EmptyShape DEF Refused, Filtered, OwnException, ValidationException, Thrown, Exception
<1>2. Unauthorized = 401
    BY EmptyShape DEF Unauthorized, Filtered, OwnException, Exception, HttpException, Thrown
<1>3. Unreachable = 500
    BY DEF Unreachable, Filtered, AuthToHttp, JsError, Thrown, IsRpc, IsErrorObject, Unexpected, Exception,
           EmptyBody
<1>4. QED BY <1>1, <1>2, <1>3

LEMMA Trails ==
    ASSUME NEW route \in Routes, NEW header \in Id, ServiceOf(route) = "tasks"
    PROVE  \A hop \in DOMAIN TrailOf[route][header] :
               TrailOf[route][header][hop] = RequestContextMiddleware(header)
<1> DEFINE id == RequestContextMiddleware(header)
           message == CreateRecord(WithId(id))
           sent == CorrelatedMessage(NoId, id)
<1>1. TrailOf[route][header] = Trail(route, message)
    BY DEF TrailOf
<1>2. Usable(id) /\ id # NoId
    BY DEF RequestContextMiddleware, Usable, NoId, Id
<1> HIDE DEF id
<1>3. message.payload = id /\ message.header = id
    BY <1>2 DEF CreateRecord, WithId
<1> HIDE DEF message
<1>4. /\ TasksHandlerContext(message).requestId = id
      /\ CommentsHandlerContext(message).requestId = id
    BY <1>2, <1>3 DEF TasksHandlerContext, CommentsHandlerContext, RunWith, TasksRequestId,
                      CommentsRequestId, FirstUsable, WithId
<1>5. sent.payload = id /\ sent.header = id
    BY <1>2 DEF CorrelatedMessage, Usable
<1> HIDE DEF sent
<1>6. NotificationsHandlerContext(sent).requestId = id /\ NotificationsRequestId(sent) = id
    BY <1>2, <1>5 DEF NotificationsHandlerContext, RunWith, NotificationsRequestId, FirstUsable, WithId
<1>7. GatewayRecord(sent).payload = id /\ GatewayRecord(sent).header = id
    BY <1>2, <1>5, <1>6 DEF GatewayRecord, CorrelatedMessage
<1>8. BroadcastContext(GatewayRecord(sent)).requestId = id
    BY <1>2, <1>7 DEF BroadcastContext, RunWith, GatewayRequestId, FirstUsable, WithId
<1>9. Trail(route, message) = [handler |-> id, notifications |-> id, broadcast |-> id]
    BY <1>4, <1>6, <1>8 DEF Trail, TaskEventRecord, CommentEventRecord, sent
<1>10. QED BY <1>1, <1>9 DEF id

-----------------------------------------------------------------------------
(* What holds of every request, wherever it is.                            *)

Stages == {"free", "sent", "handling", "read", "replied", "answered", "lost"}

Explained(q) ==
    GatewayAccepts(q.route, q.id, q.fields) =>
        /\ q.status = 400 =>
               \/ q.route = "update" /\ ~UpdatesSomething(q.fields)
               \/ q.route = "createComment" /\ q.user.name = "long"
        /\ q.status = 500 => Unstorable(q) \/ Unaudited(q) \/ ServiceOf(q.route) = "auth"
        /\ q.status < 400 => ~Unstorable(q) /\ ~Unaudited(q)

Regular(q) ==
    /\ DOMAIN q = DOMAIN Idle
    /\ q.stage \in Stages /\ q.status \in HttpStatuses \cup {0}
    /\ q.stage # "free" => q.route \in Routes /\ q.header \in Id
    /\ q.stage = "free" => ~q.walker /\ q.thrown = 0
    /\ q.stage \in {"sent", "handling", "read"} => q.thrown = 0 /\ q.status = 0
    /\ q.stage = "read" => ~Unstorable(q) /\ q.route \in Listed
    /\ q.stage \in {"replied", "answered"} => Explained(q)
    /\ q.thrown # 0 /\ ServiceOf(q.route) # "auth" => q.status = q.thrown
    /\ q.stage \in {"handling", "read", "replied"} => q.trail = TrailOf[q.route][q.header]

RowsInv ==
    /\ list \in Listed \cup {"none"} /\ created \in 0..MaxRows /\ rows \subseteq 1..created
    /\ column \in [Row -> Column \cup {"none"}]
    /\ list = "none" => created = 0

RequestInv ==
    /\ DOMAIN request = Slot
    /\ \A r \in Slot : Regular(request[r]) /\ request[r].data \subseteq 1..created


(* The walker asks for one page at a time, and for nothing else.           *)
Asking(q, w, l) ==
    /\ q.stage \in {"sent", "handling", "read", "replied", "answered"}
    /\ w.on /\ q.route = l
    /\ q.page = w.page /\ q.size = w.size /\ q.filter = w.filter

LEMMA RefusedWith ==
    ASSUME NEW q, ServiceRefuses(q), GatewayAccepts(q.route, q.id, q.fields)
    PROVE  \/ q.route = "update" /\ ~UpdatesSomething(q.fields)
           \/ q.route = "createComment" /\ q.user.name = "long"
<1>1. PICK i \in Plain \cup Odd :
          /\ ~ServiceAccepts(i)
          /\ i = [route |-> q.route, id |-> q.id, fields |-> q.fields, user |-> q.user,
                  header |-> q.header]
    BY DEF ServiceRefuses, RefusedInputs
<1>2. Known(i) /\ i.route = q.route /\ i.id = q.id /\ i.fields = q.fields /\ i.user = q.user
    BY <1>1, InputsAssumption
<1>3. CASE ServiceOf(q.route) = "tasks"
    BY <1>1, <1>2, <1>3, TasksAgree DEF ServiceAccepts
<1>4. CASE ServiceOf(q.route) = "notifications"
    BY <1>1, <1>2, <1>4, NotificationsAgree DEF ServiceAccepts
<1>5. CASE ServiceOf(q.route) \notin {"tasks", "notifications"}
    BY <1>1, <1>2, <1>5 DEF ServiceAccepts
<1>6. QED BY <1>3, <1>4, <1>5

LEMMA ServicesOfRoutes ==
    ASSUME NEW route
    PROVE  ServiceOf(route) \in {"auth", "tasks", "notifications"}
    BY DEF ServiceOf

LEMMA IdleRegular == Regular(Idle) /\ Idle.data = {} /\ ~Idle.walker
    BY DEF Regular, Idle, Stages

LEMMA RepliedRegular ==
    ASSUME NEW q, Regular(q), q.stage = "handling", NEW e \in ServiceErrors,
           e = PayloadException => ServiceRefuses(q),
           e = JsError => Unstorable(q) \/ Unaudited(q)
    PROVE  Regular(Replied(q, e))
<1> DEFINE s == ServiceOf(q.route)
           p == Replied(q, e)
<1>1. /\ AnswerStatus[s][e] = IF s = "auth" THEN 500 ELSE StatusOf(e)
      /\ StatusOf(e) \in {400, 404, 500}
      /\ StatusOf(e) = 400 => e = PayloadException
      /\ StatusOf(e) = 500 => e = JsError
    BY Statuses, ServicesOfRoutes
<1>2. /\ DOMAIN p = DOMAIN q /\ p.stage = "replied" /\ p.thrown = StatusOf(e)
      /\ p.status = AnswerStatus[s][e]
      /\ p.route = q.route /\ p.id = q.id /\ p.fields = q.fields /\ p.user = q.user
      /\ p.header = q.header /\ p.trail = q.trail
    BY DEF Replied, Regular, Idle
<1>3. Explained(p)
  <2> SUFFICES ASSUME GatewayAccepts(q.route, q.id, q.fields) PROVE Explained(p)
      BY <1>2 DEF Explained
  <2>1. p.status = 400 => \/ q.route = "update" /\ ~UpdatesSomething(q.fields)
                          \/ q.route = "createComment" /\ q.user.name = "long"
      BY <1>1, <1>2, RefusedWith
  <2>2. p.status = 500 => Unstorable(p) \/ Unaudited(p) \/ ServiceOf(p.route) = "auth"
      BY <1>1, <1>2 DEF Unstorable, Unaudited
  <2>3. ~(p.status < 400)
      BY <1>1, <1>2
  <2>4. QED BY <1>2, <2>1, <2>2, <2>3 DEF Explained
<1>4. p.status \in HttpStatuses
    BY <1>1, <1>2 DEF HttpStatuses
<1> HIDE DEF p, s
<1>5. QED BY <1>1, <1>2, <1>3, <1>4 DEF Regular, Stages, s, p

LEMMA ErrorOf ==
    ASSUME NEW q, Fails(q)
    PROVE  /\ Error(q) \in ServiceErrors
           /\ Error(q) = PayloadException => ServiceRefuses(q)
           /\ Error(q) = JsError => Unstorable(q) \/ Unaudited(q)
<1>1. PayloadException # JsError /\ HttpException(404, "own") # JsError
      /\ PayloadException # HttpException(404, "own")
    BY DEF PayloadException, HttpException, JsError, Thrown
<1>2. QED BY <1>1 DEF Error, Fails, ServiceErrors

-----------------------------------------------------------------------------
(* Steps.                                                                  *)

LEMMA SlotsFree == \A r \in NextSlot : r \in Slot /\ request[r].stage = "free"
<1>1. Free # {} => (CHOOSE r \in Free : TRUE) \in Free
    OBVIOUS
<1>2. QED BY <1>1 DEF NextSlot, Free

LEMMA OfferedKnown == \A i \in Offered : Known(i)
<1>1. Offered \subseteq Plain \cup Odd
    BY InputsAssumption DEF Offered
<1>2. QED BY <1>1, InputsAssumption

(* The rows and their columns are what they should be.                     *)
LEMMA EffectOnRows ==
    ASSUME RowsInv, NEW q, Effect(q)
    PROVE  /\ created' \in created..MaxRows /\ rows' \subseteq 1..created'
           /\ column' \in [Row -> Column \cup {"none"}]
           /\ list = "none" => created' = created
<1>1. /\ created \in 0..MaxRows /\ rows \subseteq 1..created /\ MaxRows \in Nat
      /\ column \in [Row -> Column \cup {"none"}]
    BY RowsAssumption DEF RowsInv
<1>2. ASSUME NEW i, NEW c \in Columns(walk.filter), column' = [column EXCEPT ![i] = c]
      PROVE  column' \in [Row -> Column \cup {"none"}]
    BY <1>1, <1>2 DEF Columns
<1>3. CASE AddRow /\ list # "none"
  <2>1. column' \in [Row -> Column \cup {"none"}]
      BY <1>2, <1>3 DEF AddRow
  <2>2. created' = created + 1 /\ created < MaxRows /\ rows' = rows \cup {created + 1}
      BY <1>3 DEF AddRow
  <2>3. created' \in created..MaxRows /\ rows' \subseteq 1..created'
      BY <1>1, <2>2
  <2>4. QED BY <1>3, <2>1, <2>3
<1>4. CASE created' = created /\ rows' \subseteq rows /\ column' = column
    BY <1>1, <1>4
<1>5. CASE /\ \E c \in Columns(walk.filter) : column' = [column EXCEPT ![q.row] = c]
           /\ UNCHANGED <<rows, created>>
  <2>1. column' \in [Row -> Column \cup {"none"}]
      BY <1>2, <1>5
  <2>2. created' \in created..MaxRows /\ rows' \subseteq 1..created'
      BY <1>1, <1>5
  <2>3. QED BY <1>5, <2>1, <2>2
<1>6. QED BY <1>3, <1>4, <1>5 DEF Effect

LEMMA OneRequest ==
    ASSUME RowsInv, RequestInv, NEW r \in Slot, NEW p, request' = [request EXCEPT ![r] = p],
           Regular(p), p.data \subseteq 1..created', created' \in Nat, created <= created'
    PROVE  RequestInv'
<1>1. 1..created \subseteq 1..created'
    BY DEF RowsInv
<1>2. request'[r] = p /\ DOMAIN request' = Slot
      /\ \A t \in Slot \ {r} : request'[t] = request[t]
    BY DEF RequestInv
<1>3. QED BY <1>1, <1>2 DEF RequestInv

LEMMA OneRequestOnly ==
    ASSUME RowsInv, RequestInv, NEW r \in Slot, NEW p, request' = [request EXCEPT ![r] = p],
           UNCHANGED dataVars, Regular(p), p.data \subseteq 1..created
    PROVE  RowsInv' /\ RequestInv'
<1>1. /\ created' \in Nat /\ created <= created'
      /\ p.data \subseteq 1..created'
    BY RowsAssumption DEF dataVars, RowsInv
<1>2. RequestInv'
    BY <1>1, OneRequest
<1>3. QED BY <1>2 DEF dataVars, RowsInv

LEMMA RequestStepKeeps ==
    ASSUME RowsInv, RequestInv, NEW r \in Slot, RequestStep(r),
           request[r].walker => Asking(request[r], walk, list)
    PROVE  RowsInv' /\ RequestInv'
<1> DEFINE q == request[r]
<1>1. Regular(q) /\ q.data \subseteq 1..created /\ created \in Nat
    BY RowsAssumption DEF RequestInv, RowsInv
<1>2. CASE Deliver(r)
  <2> DEFINE p == [q EXCEPT !.stage = "handling", !.trail = TrailOf[q.route][q.header]]
  <2>1. request' = [request EXCEPT ![r] = p] /\ UNCHANGED dataVars /\ q.stage = "sent"
      BY <1>2 DEF Deliver
  <2>2. Regular(p) /\ p.data = q.data
      BY <1>1, <2>1 DEF Regular, Idle, Stages
  <2> HIDE DEF p
  <2>3. QED BY <1>1, <2>1, <2>2, OneRequestOnly
<1>3. CASE Throw(r)
  <2>1. /\ request' = [request EXCEPT ![r] = Replied(q, Error(q))] /\ UNCHANGED dataVars
        /\ q.stage = "handling" /\ Fails(q)
      BY <1>3 DEF Throw
  <2>2. Regular(Replied(q, Error(q)))
      BY <1>1, <2>1, ErrorOf, RepliedRegular
  <2>3. Replied(q, Error(q)).data = q.data
      BY <1>1 DEF Replied, Regular, Idle
  <2>4. QED BY <1>1, <2>1, <2>2, <2>3, OneRequestOnly
<1>4. CASE Work(r)
  <2> DEFINE p == IF Unaudited(q) THEN Replied(q, JsError)
                  ELSE [q EXCEPT !.stage = "replied", !.status = Succeeds(q.route)]
  <2>1. /\ request' = [request EXCEPT ![r] = p] /\ q.stage = "handling" /\ ~Fails(q)
        /\ Effect(q) /\ UNCHANGED list
      BY <1>4 DEF Work
  <2>2. Regular(p) /\ p.data = q.data
    <3>1. CASE Unaudited(q)
      <4>1. PayloadException # JsError /\ JsError \in ServiceErrors
          BY DEF PayloadException, HttpException, JsError, Thrown, ServiceErrors
      <4>2. Regular(Replied(q, JsError))
          BY <1>1, <2>1, <3>1, <4>1, RepliedRegular
      <4>3. Replied(q, JsError).data = q.data
          BY <1>1 DEF Replied, Regular, Idle
      <4>4. QED BY <3>1, <4>2, <4>3
    <3>2. CASE ~Unaudited(q)
      <4> DEFINE w == [q EXCEPT !.stage = "replied", !.status = Succeeds(q.route)]
      <4>1. /\ DOMAIN w = DOMAIN q /\ w.stage = "replied" /\ w.thrown = q.thrown
            /\ w.status \in {200, 201} /\ w.data = q.data
            /\ w.route = q.route /\ w.id = q.id /\ w.fields = q.fields /\ w.user = q.user
            /\ w.header = q.header /\ w.trail = q.trail
          BY <1>1 DEF Regular, Idle, Succeeds
      <4>2. ~Unstorable(w) /\ ~Unaudited(w)
          BY <2>1, <3>2, <4>1 DEF Fails, Unstorable, Unaudited
      <4>3. w.status \in HttpStatuses
          BY <4>1 DEF HttpStatuses
      <4> HIDE DEF w
      <4>4. Regular(w)
          BY <1>1, <2>1, <4>1, <4>2, <4>3 DEF Regular, Explained, Stages
      <4>5. QED BY <3>2, <4>1, <4>4 DEF w
    <3>3. QED BY <3>1, <3>2
  <2> HIDE DEF p
  <2>3. /\ created' \in created..MaxRows /\ rows' \subseteq 1..created'
        /\ column' \in [Row -> Column \cup {"none"}]
        /\ list = "none" => created' = created
      BY <2>1, EffectOnRows
  <2>4. 1..created \subseteq 1..created' /\ created' \in 0..MaxRows /\ MaxRows \in Nat
      BY <1>1, <2>3, RowsAssumption
  <2>5. RequestInv'
    <3>1. p.data \subseteq 1..created' /\ created' \in Nat /\ created <= created'
        BY <1>1, <2>2, <2>3, <2>4
    <3>2. QED BY <2>1, <2>2, <3>1, OneRequest
  <2>6. QED BY <2>1, <2>3, <2>4, <2>5 DEF RowsInv
<1>5. CASE ReadPage(r)
  <2> DEFINE p == [q EXCEPT !.stage = "read", !.data = Page(q.page, q.size, Matching(q))]
  <2>1. request' = [request EXCEPT ![r] = p] /\ UNCHANGED dataVars /\ q.stage = "handling"
        /\ q.route = list /\ ~Fails(q)
      BY <1>5 DEF ReadPage
  <2>2. Page(q.page, q.size, Matching(q)) \subseteq 1..created
      BY DEF Page, Matching, Chosen, RowsInv
  <2>3. /\ DOMAIN p = DOMAIN q /\ p.stage = "read" /\ p.thrown = q.thrown
        /\ p.status = q.status /\ p.data \subseteq 1..created
        /\ p.route = q.route /\ p.id = q.id /\ p.fields = q.fields /\ p.user = q.user
        /\ p.header = q.header /\ p.trail = q.trail
      BY <1>1, <2>2 DEF Regular, Idle
  <2>4. q.route \in Listed /\ ~Unstorable(p)
      BY <1>1, <2>1, <2>3 DEF Fails, Unstorable, RowsInv, Regular, Routes, TaskRoutes
  <2> HIDE DEF p
  <2>5. Regular(p)
      BY <1>1, <2>1, <2>3, <2>4 DEF Regular, Stages
  <2>6. QED BY <1>1, <2>1, <2>3, <2>5, OneRequestOnly
<1>6. CASE CountRows(r)
  <2> DEFINE p == [q EXCEPT !.stage = "replied", !.status = 200, !.total = Cardinality(Matching(q))]
  <2>1. request' = [request EXCEPT ![r] = p] /\ UNCHANGED dataVars /\ q.stage = "read"
      BY <1>6 DEF CountRows
  <2>2. /\ DOMAIN p = DOMAIN q /\ p.stage = "replied" /\ p.thrown = q.thrown
        /\ p.status = 200 /\ p.data = q.data
        /\ p.route = q.route /\ p.id = q.id /\ p.fields = q.fields /\ p.user = q.user
        /\ p.header = q.header /\ p.trail = q.trail
      BY <1>1 DEF Regular, Idle
  <2>3. ~Unstorable(p) /\ ~Unaudited(p) /\ p.status \in HttpStatuses
      BY <1>1, <2>1, <2>2 DEF Regular, Unstorable, Unaudited, Listed, HttpStatuses
  <2> HIDE DEF p
  <2>4. Regular(p)
      BY <1>1, <2>1, <2>2, <2>3 DEF Regular, Explained, Stages
  <2>5. QED BY <1>1, <2>1, <2>2, <2>4, OneRequestOnly
<1>7. CASE Answer(r)
  <2> DEFINE p == [q EXCEPT !.stage = "answered"]
  <2>1. request' = [request EXCEPT ![r] = p] /\ UNCHANGED dataVars /\ q.stage = "replied"
      BY <1>7 DEF Answer
  <2>2. /\ DOMAIN p = DOMAIN q /\ p.stage = "answered" /\ p.thrown = q.thrown
        /\ p.status = q.status /\ p.data = q.data
        /\ p.route = q.route /\ p.id = q.id /\ p.fields = q.fields /\ p.user = q.user
        /\ p.header = q.header /\ p.trail = q.trail
      BY <1>1 DEF Regular, Idle
  <2> HIDE DEF p
  <2>3. Regular(p)
      BY <1>1, <2>1, <2>2 DEF Regular, Explained, Unstorable, Unaudited, Stages
  <2>4. QED BY <1>1, <2>1, <2>2, <2>3, OneRequestOnly
<1>8. CASE NextPage(r)
  <2> DEFINE p == [Idle EXCEPT !.stage = "sent", !.route = list, !.header = NoId,
                               !.page = walk.page + 1, !.size = walk.size, !.filter = walk.filter,
                               !.walker = TRUE]
  <2>1. UNCHANGED dataVars /\ q.stage = "answered" /\ q.walker
      BY <1>8 DEF NextPage
  <2>2. list \in Routes
      BY <1>1, <2>1 DEF Asking, Regular
  <2>3. CASE request' = [request EXCEPT ![r] = p]
    <3>1. /\ DOMAIN p = DOMAIN Idle /\ p.stage = "sent" /\ p.thrown = 0 /\ p.status = 0
          /\ p.data = {} /\ p.route = list /\ p.header = NoId /\ p.walker
        BY DEF Idle
    <3> HIDE DEF p
    <3>2. Regular(p)
        BY <2>2, <3>1 DEF Regular, Stages, Id, HttpStatuses
    <3>3. QED BY <2>1, <2>3, <3>1, <3>2, OneRequestOnly
  <2>4. CASE request' = [request EXCEPT ![r] = Idle]
      BY <1>1, <2>1, <2>4, IdleRegular, OneRequestOnly
  <2>5. QED BY <1>8, <2>3, <2>4 DEF NextPage, Ask
<1>9. QED BY <1>2, <1>3, <1>4, <1>5, <1>6, <1>7, <1>8 DEF RequestStep

LEMMA SubmitKeeps ==
    ASSUME RowsInv, RequestInv, NEW r \in NextSlot, NEW i \in Offered, Submit(r, i)
    PROVE  RowsInv' /\ RequestInv'
<1>1. Known(i) /\ r \in Slot
    BY OfferedKnown, SlotsFree
<1>2. UNCHANGED dataVars
    BY DEF Submit
<1>3. PICK row : request' = [request EXCEPT ![r] =
               Dispatch([Idle EXCEPT !.route = i.route, !.id = i.id, !.fields = i.fields,
                                     !.user = i.user, !.header = i.header, !.row = row])]
    BY DEF Submit
<1> DEFINE q == [Idle EXCEPT !.route = i.route, !.id = i.id, !.fields = i.fields,
                             !.user = i.user, !.header = i.header, !.row = row]
<1>4. /\ DOMAIN q = DOMAIN Idle /\ q.thrown = 0 /\ q.status = 0 /\ q.data = {}
      /\ q.route = i.route /\ q.header = i.header /\ q.id = i.id /\ q.fields = i.fields
    BY DEF Idle
<1> HIDE DEF q
<1>5. q.route \in Routes /\ q.header \in Id
    BY <1>1, <1>4 DEF Known
<1>6. DOMAIN q = {"stage", "route", "id", "fields", "user", "filter", "row", "page", "size",
                  "header", "trail", "walker", "data", "total", "thrown", "status"}
    BY <1>4 DEF Idle
<1>7. CASE ~GatewayAccepts(q.route, q.id, q.fields)
  <2> DEFINE p == Answered(q, Refused)
  <2>1. /\ DOMAIN p = DOMAIN q /\ p.stage = "answered" /\ p.status = 400 /\ p.thrown = 0
        /\ p.data = {} /\ p.route = q.route /\ p.header = q.header /\ p.id = q.id
        /\ p.fields = q.fields
      BY <1>4, <1>6, OwnStatuses DEF Answered
  <2> HIDE DEF p
  <2>2. Regular(p)
      BY <1>4, <1>5, <1>7, <2>1 DEF Regular, Explained, Stages, HttpStatuses
  <2>3. request' = [request EXCEPT ![r] = p]
      BY <1>3, <1>7 DEF Dispatch, p, q
  <2>4. QED BY <1>1, <1>2, <2>1, <2>2, <2>3, OneRequestOnly
<1>8. CASE GatewayAccepts(q.route, q.id, q.fields) /\ ServiceOf(q.route) = "auth"
               /\ ~Listening("auth")
  <2> DEFINE p == Answered(q, Unreachable)
  <2>1. /\ DOMAIN p = DOMAIN q /\ p.stage = "answered" /\ p.status = 500 /\ p.thrown = 0
        /\ p.data = {} /\ p.route = q.route /\ p.header = q.header
      BY <1>4, <1>6, OwnStatuses DEF Answered
  <2> HIDE DEF p
  <2>2. Regular(p)
      BY <1>4, <1>5, <1>8, <2>1 DEF Regular, Explained, Stages, HttpStatuses
  <2>3. request' = [request EXCEPT ![r] = p]
      BY <1>3, <1>8 DEF Dispatch, p, q
  <2>4. QED BY <1>1, <1>2, <2>1, <2>2, <2>3, OneRequestOnly
<1>9. CASE GatewayAccepts(q.route, q.id, q.fields)
               /\ ~(ServiceOf(q.route) = "auth" /\ ~Listening("auth"))
  <2> DEFINE p == [q EXCEPT !.stage = "sent"]
  <2>1. /\ DOMAIN p = DOMAIN q /\ p.stage = "sent" /\ p.status = 0 /\ p.thrown = 0
        /\ p.data = {} /\ p.route = q.route /\ p.header = q.header
      BY <1>4, <1>6
  <2> HIDE DEF p
  <2>2. Regular(p)
      BY <1>4, <1>5, <2>1 DEF Regular, Stages
  <2>3. request' = [request EXCEPT ![r] = p]
      BY <1>3, <1>9 DEF Dispatch, p, q
  <2>4. QED BY <1>1, <1>2, <2>1, <2>2, <2>3, OneRequestOnly
<1>10. QED BY <1>7, <1>8, <1>9

LEMMA UnauthorizedKeeps ==
    ASSUME RowsInv, RequestInv, NEW r \in NextSlot, SubmitUnauthorized(r)
    PROVE  RowsInv' /\ RequestInv'
<1>1. PICK route \in Routes : request' = [request EXCEPT ![r] =
                                              Answered([Idle EXCEPT !.route = route], Unauthorized)]
    BY DEF SubmitUnauthorized
<1> DEFINE p == Answered([Idle EXCEPT !.route = route], Unauthorized)
<1>2. /\ DOMAIN p = DOMAIN Idle /\ p.stage = "answered" /\ p.status = 401 /\ p.thrown = 0
      /\ p.data = {} /\ p.route = route /\ p.header = NoId
    BY OwnStatuses DEF Answered, Idle
<1> HIDE DEF p
<1>3. Regular(p)
    BY <1>2 DEF Regular, Explained, Stages, HttpStatuses, Id
<1>4. UNCHANGED dataVars /\ request' = [request EXCEPT ![r] = p] /\ r \in Slot
    BY <1>1, SlotsFree DEF SubmitUnauthorized, p
<1>5. QED BY <1>2, <1>3, <1>4, OneRequestOnly

LEMMA ServiceCrashKeeps ==
    ASSUME RowsInv, RequestInv, NEW s \in Service, ServiceCrash(s)
    PROVE  RowsInv' /\ RequestInv'
<1>1. ASSUME NEW r \in Slot PROVE Regular(request[r])' /\ request'[r].data = request[r].data
  <2> DEFINE q == request[r]
  <2>1. Regular(q)
      BY DEF RequestInv
  <2>2. DOMAIN q = {"stage", "route", "id", "fields", "user", "filter", "row", "page", "size",
                    "header", "trail", "walker", "data", "total", "thrown", "status"}
      BY <2>1 DEF Regular, Idle
  <2>3. \/ /\ request'[r] = Answered(q, Unreachable)
           /\ q.stage \in {"sent", "handling"} /\ ServiceOf(q.route) = "auth"
        \/ request'[r] = [q EXCEPT !.stage = "lost"] /\ q.stage \in {"handling", "read"}
        \/ request'[r] = q
      BY DEF ServiceCrash, Serving
  <2> HIDE DEF q
  <2>4. CASE /\ request'[r] = Answered(q, Unreachable)
             /\ q.stage \in {"sent", "handling"} /\ ServiceOf(q.route) = "auth"
    <3> DEFINE p == Answered(q, Unreachable)
    <3>1. /\ DOMAIN p = DOMAIN q /\ p.stage = "answered" /\ p.status = 500
          /\ p.thrown = q.thrown /\ p.data = q.data /\ p.route = q.route /\ p.header = q.header
        BY <2>2, OwnStatuses DEF Answered
    <3> HIDE DEF p
    <3>2. Regular(p)
        BY <2>1, <2>4, <3>1 DEF Regular, Explained, Stages, HttpStatuses
    <3>3. QED BY <2>4, <3>1, <3>2 DEF p, q
  <2>5. CASE request'[r] = [q EXCEPT !.stage = "lost"] /\ q.stage \in {"handling", "read"}
    <3> DEFINE p == [q EXCEPT !.stage = "lost"]
    <3>1. /\ DOMAIN p = DOMAIN q /\ p.stage = "lost" /\ p.status = q.status
          /\ p.thrown = q.thrown /\ p.data = q.data /\ p.route = q.route /\ p.header = q.header
        BY <2>2
    <3> HIDE DEF p
    <3>2. Regular(p)
        BY <2>1, <2>5, <3>1 DEF Regular, Stages
    <3>3. QED BY <2>5, <3>1, <3>2 DEF p, q
  <2>6. CASE request'[r] = q
      BY <2>1, <2>6 DEF q
  <2>7. QED BY <2>3, <2>4, <2>5, <2>6
<1>2. UNCHANGED dataVars /\ DOMAIN request' = Slot
    BY DEF ServiceCrash
<1>3. QED BY <1>1, <1>2 DEF RowsInv, RequestInv, dataVars

LEMMA RequestNext ==
    ASSUME RowsInv, RequestInv, \A t \in Slot : request[t].walker => Asking(request[t], walk, list),
           [Next]_vars
    PROVE  RowsInv' /\ RequestInv'
<1>1. CASE UNCHANGED <<request, dataVars>>
    BY <1>1 DEF RowsInv, RequestInv, dataVars
<1>2. CASE \E s \in Service : ServiceCrash(s)
    BY <1>2, ServiceCrashKeeps
<1>3. CASE \E r \in NextSlot : \E i \in Offered : Submit(r, i)
    BY <1>3, SubmitKeeps
<1>4. CASE \E r \in NextSlot : SubmitUnauthorized(r)
    BY <1>4, UnauthorizedKeeps
<1>5. CASE \E r \in Slot : RequestStep(r)
    BY <1>5, RequestStepKeeps
<1>6. CASE \E r \in Slot : Forget(r)
    BY <1>6, IdleRegular, OneRequestOnly DEF Forget
<1>7. ASSUME NEW r \in NextSlot, NEW l \in Listed, NEW n \in 0..MaxRows, NEW size \in Size,
             StartWalk(r, l, n, size)
      PROVE  RowsInv' /\ RequestInv'
  <2>0. PICK filter \in Filters(l) :
            /\ request' = Ask(r, l, 1, size, filter)
            /\ \E C \in [1..n -> Columns(filter)] :
                   column' = [i \in Row |-> IF i \in 1..n THEN C[i] ELSE "none"]
      BY <1>7 DEF StartWalk
  <2> DEFINE p == [Idle EXCEPT !.stage = "sent", !.route = l, !.header = NoId, !.page = 1,
                               !.size = size, !.filter = filter, !.walker = TRUE]
  <2>1. /\ DOMAIN p = DOMAIN Idle /\ p.stage = "sent" /\ p.thrown = 0 /\ p.status = 0
        /\ p.data = {} /\ p.route = l /\ p.header = NoId /\ p.walker
      BY DEF Idle
  <2> HIDE DEF p
  <2>2. l \in Routes /\ l # "none"
      BY DEF Listed, Routes, TaskRoutes
  <2>3. Regular(p)
      BY <2>1, <2>2 DEF Regular, Stages, Id, HttpStatuses
  <2>4. /\ request' = [request EXCEPT ![r] = p] /\ r \in Slot
        /\ list' = l /\ created' = n /\ rows' = 1..n /\ created = 0
      BY <1>7, <2>0, SlotsFree DEF StartWalk, Ask, p, RowsInv
  <2>5. RequestInv'
    <3>1. p.data \subseteq 1..created' /\ created' \in Nat /\ created <= created'
        BY <2>1, <2>4, RowsAssumption
    <3>2. QED BY <2>3, <2>4, <3>1, OneRequest
  <2>6. column' \in [Row -> Column \cup {"none"}]
    <3>1. PICK C \in [1..n -> Columns(filter)] :
              column' = [i \in Row |-> IF i \in 1..n THEN C[i] ELSE "none"]
        BY <2>0
    <3>2. \A i \in 1..n : C[i] \in Column \cup {"none"}
        BY DEF Columns
    <3>3. QED BY <3>1, <3>2
  <2>7. QED BY <2>2, <2>4, <2>5, <2>6 DEF RowsInv
<1>8. CASE NotificationStored
  <2>0. column' \in [Row -> Column \cup {"none"}]
      BY <1>8 DEF NotificationStored, AddRow, Columns, RowsInv
  <2>1. /\ request' = request /\ list' = list /\ list = "findNotifications" /\ created < MaxRows
        /\ created' = created + 1 /\ rows' = rows \cup {created + 1}
      BY <1>8 DEF NotificationStored, AddRow
  <2>2. created \in 0..MaxRows /\ MaxRows \in Nat
      BY RowsAssumption DEF RowsInv
  <2>3. 1..created \subseteq 1..created' /\ created' \in 1..created' /\ created' \in 0..MaxRows
      BY <2>1, <2>2
  <2>4. QED BY <2>0, <2>1, <2>3 DEF RowsInv, RequestInv
<1>9. QED
    BY <1>1, <1>2, <1>3, <1>4, <1>5, <1>6, <1>7, <1>8 DEF Next, vars

-----------------------------------------------------------------------------
(* Reading page by page.                                                   *)

Rank(M, i) == Cardinality({j \in M : j > i})

\* The rows the client waits for that are among the k newest of M are in S.
Reached(k, S, w, M) == \A i \in w.since : Rank(M, i) < k => i \in S

Covered(q, w, M) ==
    /\ q.stage = "read" \/ (q.stage \in {"replied", "answered"} /\ q.status = 200) =>
           Reached(q.page * q.size, w.seen \cup q.data, w, M)
    /\ q.stage \in {"replied", "answered"} /\ q.status = 200 =>
           /\ q.total \in Nat
           /\ q.total <= q.page * q.size => w.since \subseteq w.seen \cup q.data

WalkShape ==
    /\ DOMAIN walk = DOMAIN NoWalk
    /\ walk.since \subseteq 1..created /\ walk.seen \subseteq 1..created
    /\ list = "none" => ~walk.on
    /\ walk.on \in BOOLEAN /\ walk.disturbed \in BOOLEAN
    /\ walk.on => walk.page \in Nat \ {0} /\ walk.size \in Nat \ {0}
    /\ \A r \in Slot : request[r].walker => Asking(request[r], walk, list)
    /\ \A r, t \in Slot : request[r].walker /\ request[t].walker => r = t

(* Until a row leaves them, the matching rows only become more, and a row  *)
(* among them only moves away from the newest.                             *)
WalkInv ==
    /\ WalkShape
    /\ walk.on /\ ~walk.disturbed =>
           /\ walk.since \subseteq Matching(walk)
           /\ Reached((walk.page - 1) * walk.size, walk.seen, walk, Matching(walk))
    /\ ~walk.disturbed =>
           \A r \in Slot : request[r].walker => Covered(request[r], walk, Matching(walk))
    /\ ~walk.on /\ walk.page > 0 /\ ~walk.disturbed => walk.since \subseteq walk.seen

LEMMA RankGrows ==
    ASSUME NEW M, NEW N, M \subseteq N, IsFiniteSet(N), NEW i
    PROVE  Rank(M, i) \in Nat /\ Rank(N, i) \in Nat /\ Rank(M, i) <= Rank(N, i)
<1>1. IsFiniteSet({j \in N : j > i})
    BY FS_Subset
<1>2. {j \in M : j > i} \subseteq {j \in N : j > i}
    OBVIOUS
<1>3. QED BY <1>1, <1>2, FS_Subset, FS_CardinalityType DEF Rank

LEMMA MatchingFinite ==
    ASSUME RowsInv, NEW w
    PROVE  IsFiniteSet(Matching(w)) /\ Matching(w) \subseteq Nat
<1>1. created \in Nat /\ rows \subseteq 1..created
    BY RowsAssumption DEF RowsInv
<1>2. IsFiniteSet(1..created) /\ 1..created \subseteq Nat
    BY <1>1, FS_Interval
<1>3. Matching(w) \subseteq 1..created
    BY <1>1 DEF Matching, Chosen
<1>4. QED BY <1>2, <1>3, FS_Subset

LEMMA ReachedStays ==
    ASSUME NEW M, NEW N, M \subseteq N, IsFiniteSet(N), NEW w, NEW v, v.since = w.since,
           NEW k \in Nat, NEW S, Reached(k, S, w, M)
    PROVE  Reached(k, S, v, N)
<1> SUFFICES ASSUME NEW i \in v.since, Rank(N, i) < k PROVE i \in S
    BY DEF Reached
<1>1. Rank(M, i) \in Nat /\ Rank(N, i) \in Nat /\ Rank(M, i) <= Rank(N, i)
    BY RankGrows
<1>2. QED BY <1>1 DEF Reached

(* Steps in which the walk goes on as it was: others write, or the answer  *)
(* makes its way.                                                          *)
Onward ==
    /\ created <= created'
    /\ DOMAIN walk' = DOMAIN walk
    /\ walk'.on = walk.on /\ walk'.page = walk.page /\ walk'.size = walk.size
    /\ walk'.filter = walk.filter /\ walk'.since = walk.since /\ walk'.seen = walk.seen
    /\ walk'.disturbed \in BOOLEAN /\ (walk.disturbed => walk'.disturbed)
    /\ Matching(walk) \subseteq Chosen(rows', column', walk.filter) \/ walk'.disturbed \/ ~walk.on
    /\ ~walk.on => walk'.disturbed = walk.disturbed

LEMMA WalkKept ==
    ASSUME RowsInv, RowsInv', WalkInv, list' = list, Onward,
           \A t \in Slot : \A p :
               request'[t] = p /\ p.walker =>
                   /\ request[t].walker
                   /\ \/ p = request[t]
                      \/ /\ Asking(p, walk, list)
                         /\ UNCHANGED <<walk, rows, column>>
                         /\ ~walk.disturbed => Covered(p, walk, Matching(walk))
    PROVE  WalkInv'
<1> DEFINE M == Matching(walk)
           N == Chosen(rows', column', walk.filter)
<1>1. /\ DOMAIN walk = DOMAIN NoWalk /\ DOMAIN walk' = DOMAIN NoWalk
      /\ walk'.since = walk.since /\ walk'.filter = walk.filter /\ walk'.on = walk.on
      /\ walk'.page = walk.page /\ walk'.size = walk.size /\ walk'.seen = walk.seen
    BY DEF Onward, WalkInv, WalkShape, NoWalk
<1>2. /\ created \in Nat /\ created' \in Nat /\ 1..created \subseteq 1..created'
      /\ IsFiniteSet(N) /\ Matching(walk)' = N
  <2>1. created \in Nat /\ created' \in Nat /\ rows' \subseteq 1..created'
      BY RowsAssumption DEF RowsInv
  <2>2. IsFiniteSet(1..created')
      BY <2>1, FS_Interval
  <2>3. 1..created \subseteq 1..created'
      BY <2>1 DEF Onward
  <2>4. N \subseteq 1..created'
      BY <2>1 DEF Chosen
  <2>5. Matching(walk)' = N
      BY <1>1 DEF Matching
  <2> HIDE DEF N
  <2>6. QED BY <2>1, <2>2, <2>3, <2>4, <2>5, FS_Subset
<1>3. M \subseteq N \/ walk'.disturbed \/ ~walk.on
    BY DEF Onward
<1> HIDE DEF M, N
<1>4. ASSUME NEW k \in Nat, NEW S, Reached(k, S, walk, M), M \subseteq N
      PROVE  Reached(k, S, walk', N)
    BY <1>1, <1>2, <1>4, ReachedStays
<1>5. ASSUME NEW t \in Slot, request'[t].walker
      PROVE  /\ request[t].walker /\ Asking(request'[t], walk', list')
             /\ ~walk'.disturbed => Covered(request'[t], walk', N)
  <2> DEFINE p == request'[t]
             q == request[t]
  <2>1. /\ q.walker
        /\ \/ p = q
           \/ /\ Asking(p, walk, list) /\ UNCHANGED <<walk, rows, column>>
              /\ ~walk.disturbed => Covered(p, walk, M)
      BY <1>5 DEF M
  <2>2. Asking(q, walk, list) /\ (~walk.disturbed => Covered(q, walk, M))
      BY <2>1 DEF WalkInv, WalkShape, M
  <2>3. CASE p = q
    <3>1. Asking(p, walk', list')
        BY <1>1, <2>2, <2>3 DEF Asking
    <3>2. ASSUME ~walk'.disturbed PROVE Covered(p, walk', N)
      <4>1. walk.on /\ M \subseteq N /\ Covered(q, walk, M)
          BY <1>3, <2>2, <3>2 DEF Onward, Asking, WalkInv, WalkShape
      <4>2. q.page * q.size \in Nat
        <5>1. q.page \in Nat /\ q.size \in Nat
            BY <2>2, <4>1 DEF Asking, WalkInv, WalkShape
        <5>2. QED BY <5>1
      <4>3. Reached(q.page * q.size, walk.seen \cup q.data, walk, M) =>
                Reached(q.page * q.size, walk.seen \cup q.data, walk', N)
          BY <1>4, <4>1, <4>2
      <4>4. QED BY <1>1, <2>3, <4>1, <4>3 DEF Covered
    <3>3. QED BY <2>1, <3>1, <3>2
  <2>4. CASE UNCHANGED <<walk, rows, column>>
    <3>1. M = N
        BY <2>4 DEF M, N, Matching
    <3>2. QED BY <2>1, <2>3, <2>4, <3>1
  <2>5. QED BY <2>1, <2>3, <2>4
<1>6. WalkShape'
  <2>1. list' = "none" => ~walk'.on
      BY DEF WalkInv, WalkShape, Onward
  <2>2. /\ walk'.since \subseteq 1..created' /\ walk'.seen \subseteq 1..created'
        /\ walk'.on \in BOOLEAN /\ walk'.disturbed \in BOOLEAN
        /\ walk'.on => walk'.page \in Nat \ {0} /\ walk'.size \in Nat \ {0}
      BY <1>1, <1>2 DEF WalkInv, WalkShape, Onward
  <2>3. \A r, t \in Slot : request'[r].walker /\ request'[t].walker => r = t
      BY <1>5 DEF WalkInv, WalkShape
  <2>4. QED BY <1>1, <1>5, <2>1, <2>2, <2>3 DEF WalkShape
<1>7. ASSUME walk'.on, ~walk'.disturbed
      PROVE  /\ walk'.since \subseteq N
             /\ Reached((walk'.page - 1) * walk'.size, walk'.seen, walk', N)
  <2>1. /\ walk.on /\ ~walk.disturbed /\ M \subseteq N
        /\ walk.page \in Nat \ {0} /\ walk.size \in Nat \ {0}
      BY <1>1, <1>3, <1>7 DEF Onward, WalkInv, WalkShape
  <2>2. (walk.page - 1) * walk.size \in Nat
    <3>1. walk.page - 1 \in Nat /\ walk.size \in Nat
        BY <2>1
    <3>2. QED BY <3>1
  <2>3. walk.since \subseteq M /\ Reached((walk.page - 1) * walk.size, walk.seen, walk, M)
      BY <2>1 DEF WalkInv, M
  <2>4. QED BY <1>1, <1>4, <2>1, <2>2, <2>3
<1>8. ASSUME ~walk'.on, walk'.page > 0, ~walk'.disturbed
      PROVE  walk'.since \subseteq walk'.seen
    BY <1>1, <1>8 DEF WalkInv, WalkShape, Onward
<1>9. QED BY <1>2, <1>5, <1>6, <1>7, <1>8 DEF WalkInv

LEMMA OnwardStill ==
    ASSUME RowsInv, WalkInv, UNCHANGED <<rows, column, created, walk>>
    PROVE  Onward
<1>1. created \in Nat
    BY RowsAssumption DEF RowsInv
<1>2. QED BY <1>1 DEF Onward, WalkInv, WalkShape, Matching

\* The request in slot r makes a step that nothing else takes note of.
LEMMA WalkerSteps ==
    ASSUME RowsInv, RequestInv, WalkInv, UNCHANGED <<dataVars, walk>>, NEW r \in Slot, NEW p,
           request' = [request EXCEPT ![r] = p],
           p.walker => /\ request[r].walker /\ Asking(p, walk, list)
                       /\ ~walk.disturbed => Covered(p, walk, Matching(walk))
    PROVE  WalkInv'
<1>1. Onward /\ RowsInv' /\ UNCHANGED <<rows, column, walk>> /\ list' = list
    BY OnwardStill DEF dataVars, RowsInv
<1>2. request'[r] = p /\ \A t \in Slot \ {r} : request'[t] = request[t]
    BY DEF RequestInv
<1>3. QED BY <1>1, <1>2, WalkKept

LEMMA RankBelow ==
    ASSUME NEW M, IsFiniteSet(M), NEW i \in M, M \subseteq Nat
    PROVE  Rank(M, i) < Cardinality(M)
<1>1. {j \in M : j > i} \subseteq M \ {i}
    OBVIOUS
<1>2. IsFiniteSet(M \ {i}) /\ Cardinality(M \ {i}) = Cardinality(M) - 1
    BY FS_RemoveElement
<1>3. Rank(M, i) <= Cardinality(M \ {i})
    BY <1>1, <1>2, FS_Subset DEF Rank
<1>4. Cardinality(M) \in Nat /\ Cardinality(M \ {i}) \in Nat /\ Rank(M, i) \in Nat
    BY <1>1, <1>2, FS_Subset, FS_CardinalityType DEF Rank
<1>5. QED BY <1>2, <1>3, <1>4

LEMMA ReadPageWalk ==
    ASSUME RowsInv, RequestInv, WalkInv, NEW r \in Slot, ReadPage(r)
    PROVE  WalkInv'
<1> DEFINE q == request[r]
           data == Page(q.page, q.size, Matching(q))
           p == [q EXCEPT !.stage = "read", !.data = data]
<1>1. Regular(q) /\ request' = [request EXCEPT ![r] = p] /\ UNCHANGED <<dataVars, walk>>
    BY DEF ReadPage, RequestInv
<1>2. /\ p.stage = "read" /\ p.data = data /\ p.walker = q.walker
      /\ p.route = q.route /\ p.page = q.page /\ p.size = q.size /\ p.filter = q.filter
    BY <1>1 DEF Regular, Idle
<1>3. ASSUME q.walker
      PROVE  Asking(p, walk, list) /\ (~walk.disturbed => Covered(p, walk, Matching(walk)))
  <2>1. Asking(q, walk, list)
      BY <1>3 DEF WalkInv, WalkShape
  <2>2. Asking(p, walk, list)
      BY <1>2, <2>1 DEF Asking
  <2>3. ASSUME ~walk.disturbed, NEW i \in walk.since,
               Rank(Matching(walk), i) < q.page * q.size
        PROVE  i \in walk.seen \cup data
    <3> DEFINE M == Matching(walk)
    <3>1. Matching(q) = M /\ i \in M
        BY <2>1, <2>3 DEF Matching, Asking, WalkInv
    <3>2. Reached((q.page - 1) * q.size, walk.seen, walk, M)
        BY <2>1, <2>3 DEF WalkInv, Asking
    <3>3. CASE Rank(M, i) < (q.page - 1) * q.size
        BY <3>2, <3>3 DEF Reached
    <3>4. CASE ~(Rank(M, i) < (q.page - 1) * q.size)
      <4>1. Rank(M, i) \in Nat
        <5>1. IsFiniteSet(M)
            BY MatchingFinite
        <5>2. QED BY <5>1, RankGrows
      <4>2. (q.page - 1) * q.size \in Nat /\ q.page * q.size \in Nat
        <5>1. q.page \in Nat \ {0} /\ q.size \in Nat
            BY <2>1 DEF Asking, WalkInv, WalkShape
        <5>2. q.page - 1 \in Nat
            BY <5>1
        <5>3. \A a, b \in Nat : a * b \in Nat
            OBVIOUS
        <5>4. QED BY <5>1, <5>2, <5>3
      <4>3. Rank(M, i) \in ((q.page - 1) * q.size) .. (q.page * q.size - 1)
          BY <2>3, <3>4, <4>1, <4>2
      <4>4. i \in data
          BY <3>1, <4>3 DEF Page, Rank
      <4>5. QED BY <4>4
    <3>5. QED BY <3>3, <3>4
  <2>4. QED BY <1>2, <2>2, <2>3 DEF Covered, Reached
<1>4. p.walker => q.walker /\ Asking(p, walk, list) /\ (~walk.disturbed => Covered(p, walk, Matching(walk)))
    BY <1>2, <1>3
<1> HIDE DEF p
<1>5. QED BY <1>1, <1>4, WalkerSteps

LEMMA CountRowsWalk ==
    ASSUME RowsInv, RequestInv, WalkInv, NEW r \in Slot, CountRows(r)
    PROVE  WalkInv'
<1> DEFINE q == request[r]
           total == Cardinality(Matching(q))
           p == [q EXCEPT !.stage = "replied", !.status = 200, !.total = total]
<1>1. /\ Regular(q) /\ request' = [request EXCEPT ![r] = p] /\ UNCHANGED <<dataVars, walk>>
      /\ q.stage = "read"
    BY DEF CountRows, RequestInv
<1>2. /\ p.stage = "replied" /\ p.status = 200 /\ p.total = total /\ p.walker = q.walker
      /\ p.data = q.data
      /\ p.route = q.route /\ p.page = q.page /\ p.size = q.size /\ p.filter = q.filter
    BY <1>1 DEF Regular, Idle
<1>3. ASSUME q.walker
      PROVE  Asking(p, walk, list) /\ (~walk.disturbed => Covered(p, walk, Matching(walk)))
  <2>1. Asking(q, walk, list)
      BY <1>3 DEF WalkInv, WalkShape
  <2>2. Asking(p, walk, list)
      BY <1>2, <2>1 DEF Asking
  <2> DEFINE M == Matching(walk)
  <2>3. Matching(q) = M /\ IsFiniteSet(M) /\ M \subseteq Nat /\ total \in Nat
    <3>1. Matching(q) = M
        BY <2>1 DEF Matching, Asking
    <3>2. IsFiniteSet(M) /\ M \subseteq Nat
        BY MatchingFinite
    <3>3. QED BY <3>1, <3>2, FS_CardinalityType
  <2>4. ASSUME ~walk.disturbed PROVE Reached(q.page * q.size, walk.seen \cup q.data, walk, M)
      BY <1>1, <1>3, <2>4 DEF WalkInv, Covered
  <2>5. ASSUME ~walk.disturbed, total <= q.page * q.size, NEW i \in walk.since
        PROVE  i \in walk.seen \cup q.data
    <3>1. i \in M /\ Rank(M, i) \in Nat /\ Rank(M, i) < total
      <4>1. i \in M
          BY <2>1, <2>5 DEF WalkInv, Asking
      <4>2. QED BY <2>3, <4>1, RankBelow, RankGrows
    <3>2. q.page * q.size \in Nat
      <4>1. q.page \in Nat /\ q.size \in Nat
          BY <2>1 DEF Asking, WalkInv, WalkShape
      <4>2. QED BY <4>1
    <3>3. Rank(M, i) < q.page * q.size
        BY <2>3, <2>5, <3>1, <3>2
    <3>4. QED BY <2>4, <2>5, <3>3 DEF Reached
  <2>6. QED BY <1>2, <2>2, <2>3, <2>4, <2>5 DEF Covered
<1>4. p.walker => q.walker /\ Asking(p, walk, list) /\ (~walk.disturbed => Covered(p, walk, Matching(walk)))
    BY <1>2, <1>3
<1> HIDE DEF p
<1>5. QED BY <1>1, <1>4, WalkerSteps

LEMMA WorkWalk ==
    ASSUME RowsInv, RowsInv', RequestInv, WalkInv, NEW r \in Slot, Work(r)
    PROVE  WalkInv'
<1> DEFINE q == request[r]
           p == IF Unaudited(q) THEN Replied(q, JsError)
                ELSE [q EXCEPT !.stage = "replied", !.status = Succeeds(q.route)]
<1>1. /\ Regular(q) /\ request' = [request EXCEPT ![r] = p] /\ list' = list
      /\ Effect(q) /\ Disturb /\ (q.route # list \/ q.route \notin Listed)
    BY DEF Work, RequestInv
<1>2. p.walker = q.walker
    BY <1>1 DEF Regular, Idle, Replied
<1>3. ~q.walker
    BY <1>1 DEF WalkInv, WalkShape, Asking, RowsInv, NoWalk
<1>4. Onward
  <2> DEFINE left == ~(Matching(walk) \subseteq Chosen(rows', column', walk.filter))
  <2>1. created \in Nat /\ created' \in created..MaxRows
      BY <1>1, EffectOnRows, RowsAssumption DEF RowsInv
  <2>2. created <= created'
      BY <2>1, RowsAssumption
  <2>3. /\ DOMAIN walk = DOMAIN NoWalk /\ walk.on \in BOOLEAN /\ walk.disturbed \in BOOLEAN
        /\ walk' = [walk EXCEPT !.disturbed = walk.disturbed \/ (walk.on /\ left)]
      BY <1>1 DEF WalkInv, WalkShape, Disturb
  <2>4. left \in BOOLEAN
      OBVIOUS
  <2>5. left \/ Matching(walk) \subseteq Chosen(rows', column', walk.filter)
      OBVIOUS
  <2> HIDE DEF left
  <2>6. /\ walk'.disturbed = (walk.disturbed \/ (walk.on /\ left))
        /\ DOMAIN walk' = DOMAIN walk
        /\ walk'.on = walk.on /\ walk'.page = walk.page /\ walk'.size = walk.size
        /\ walk'.filter = walk.filter /\ walk'.since = walk.since /\ walk'.seen = walk.seen
      BY <2>3 DEF NoWalk
  <2>7. QED BY <2>2, <2>3, <2>4, <2>5, <2>6 DEF Onward
<1>5. request'[r] = p /\ \A t \in Slot \ {r} : request'[t] = request[t]
  <2> HIDE DEF p
  <2>1. QED BY <1>1 DEF RequestInv
<1> HIDE DEF p
<1>6. QED BY <1>1, <1>2, <1>3, <1>4, <1>5, WalkKept

LEMMA NextPageWalk ==
    ASSUME RowsInv, RequestInv, WalkInv, NEW r \in Slot, NextPage(r)
    PROVE  WalkInv'
<1> DEFINE q == request[r]
           p == [Idle EXCEPT !.stage = "sent", !.route = list, !.header = NoId,
                             !.page = walk.page + 1, !.size = walk.size, !.filter = walk.filter,
                             !.walker = TRUE]
<1>1. /\ q.stage = "answered" /\ q.walker /\ UNCHANGED dataVars /\ Asking(q, walk, list)
      /\ \A t \in Slot \ {r} : ~request[t].walker
      /\ q.data \subseteq 1..created
      /\ ~walk.disturbed => Covered(q, walk, Matching(walk))
    BY DEF NextPage, WalkInv, WalkShape, RequestInv
<1>2. /\ DOMAIN walk = DOMAIN NoWalk /\ walk.on /\ walk.page \in Nat \ {0}
      /\ walk.size \in Nat \ {0} /\ walk.disturbed \in BOOLEAN /\ list # "none"
      /\ q.page = walk.page /\ q.size = walk.size
    BY <1>1 DEF WalkInv, WalkShape, Asking, NoWalk
<1>3. CASE q.status = 200 /\ walk.page < TotalPages(q.total, q.size)
  <2>1. /\ request' = [request EXCEPT ![r] = p]
        /\ walk' = [walk EXCEPT !.page = walk.page + 1, !.seen = walk.seen \cup q.data]
      BY <1>3 DEF NextPage, Ask
  <2>2. /\ p.stage = "sent" /\ p.walker /\ p.route = list /\ p.page = walk.page + 1
        /\ p.size = walk.size /\ p.filter = walk.filter
      BY DEF Idle
  <2>3. /\ DOMAIN walk' = DOMAIN NoWalk /\ walk'.on /\ walk'.page = walk.page + 1
        /\ walk'.size = walk.size /\ walk'.filter = walk.filter /\ walk'.since = walk.since
        /\ walk'.seen = walk.seen \cup q.data /\ walk'.disturbed = walk.disturbed
      BY <1>2, <2>1 DEF NoWalk
  <2> HIDE DEF p
  <2>4. request'[r] = p /\ \A t \in Slot \ {r} : request'[t] = request[t]
      BY <2>1 DEF RequestInv
  <2>5. Asking(p, walk', list') /\ Covered(p, walk', Matching(walk)')
      BY <1>1, <2>2, <2>3 DEF Asking, Covered, dataVars
  <2>6. WalkShape'
      BY <1>1, <1>2, <2>3, <2>4, <2>5 DEF WalkInv, WalkShape, dataVars
  <2>7. ASSUME ~walk.disturbed
        PROVE  /\ walk'.since \subseteq Matching(walk)'
               /\ Reached((walk'.page - 1) * walk'.size, walk'.seen, walk', Matching(walk)')
    <3>1. /\ walk.since \subseteq Matching(walk)
          /\ Reached(walk.page * walk.size, walk.seen \cup q.data, walk, Matching(walk))
        BY <1>1, <1>2, <1>3, <2>7 DEF Covered, WalkInv
    <3>2. walk'.page - 1 = walk.page
        BY <1>2, <2>3
    <3>3. Matching(walk)' = Matching(walk)
        BY <1>1, <2>3 DEF Matching, dataVars
    <3>4. QED BY <2>3, <3>1, <3>2, <3>3 DEF Reached
  <2>8. QED BY <1>1, <2>3, <2>4, <2>5, <2>6, <2>7 DEF WalkInv
<1>4. CASE ~(q.status = 200 /\ walk.page < TotalPages(q.total, q.size))
  <2>1. /\ request' = [request EXCEPT ![r] = Idle]
        /\ walk' = [walk EXCEPT !.on = FALSE, !.seen = walk.seen \cup q.data,
                                !.disturbed = walk.disturbed \/ q.status # 200]
      BY <1>4 DEF NextPage
  <2>2. /\ DOMAIN walk' = DOMAIN NoWalk /\ ~walk'.on /\ walk'.on \in BOOLEAN
        /\ walk'.disturbed \in BOOLEAN
        /\ walk'.filter = walk.filter /\ walk'.since = walk.since
        /\ walk'.seen = walk.seen \cup q.data
        /\ walk'.disturbed = (walk.disturbed \/ q.status # 200)
      BY <1>2, <2>1 DEF NoWalk
  <2>3. \A t \in Slot : ~request'[t].walker
      BY <1>1, <2>1, IdleRegular DEF RequestInv
  <2>4. WalkShape'
      BY <1>1, <1>2, <2>2, <2>3 DEF WalkInv, WalkShape, dataVars
  <2>5. ASSUME ~walk'.disturbed PROVE walk'.since \subseteq walk'.seen
    <3>1. Covered(q, walk, Matching(walk)) /\ q.status = 200 /\ q.total \in Nat
        BY <1>1, <2>2, <2>5 DEF Covered
    <3>2. walk.page >= (q.total + walk.size - 1) \div walk.size
      <4>1. ~(walk.page < TotalPages(q.total, q.size))
          BY <1>4, <3>1
      <4>2. \A t \in Nat, s \in Nat \ {0} : (t + s - 1) \div s \in Int
          OBVIOUS
      <4>3. QED BY <1>2, <3>1, <4>1, <4>2 DEF TotalPages
    <3>3. q.total <= walk.page * walk.size
      <4>1. \A t, k \in Nat, s \in Nat \ {0} : k >= (t + s - 1) \div s => t <= k * s
        <5> SUFFICES ASSUME NEW t \in Nat, NEW k \in Nat, NEW s \in Nat \ {0},
                            k >= (t + s - 1) \div s
                     PROVE  t <= k * s
            OBVIOUS
        <5> DEFINE d == (t + s - 1) \div s
        <5>1. d \in Nat /\ t + s - 1 < d * s + s
            OBVIOUS
        <5> HIDE DEF d
        <5>2. t <= d * s
            BY <5>1
        <5>3. d * s <= k * s
            BY <5>1 DEF d
        <5>4. QED BY <5>1, <5>2, <5>3
      <4>2. QED BY <1>2, <3>1, <3>2, <4>1
    <3>4. QED BY <1>1, <1>2, <2>2, <3>1, <3>3 DEF Covered
  <2>6. QED BY <2>2, <2>3, <2>4, <2>5 DEF WalkInv
<1>5. QED BY <1>3, <1>4

LEMMA StartWalkWalk ==
    ASSUME RowsInv, RequestInv, WalkInv, NEW r \in NextSlot, NEW l \in Listed, NEW n \in 0..MaxRows,
           NEW size \in Size, StartWalk(r, l, n, size)
    PROVE  WalkInv'
<1>0. PICK filter \in Filters(l) :
          /\ request' = Ask(r, l, 1, size, filter)
          /\ walk' = [NoWalk EXCEPT !.on = TRUE, !.page = 1, !.size = size, !.filter = filter,
                                    !.since = Chosen(1..n, column', filter)]
    BY DEF StartWalk
<1> DEFINE p == [Idle EXCEPT !.stage = "sent", !.route = l, !.header = NoId, !.page = 1,
                             !.size = size, !.filter = filter, !.walker = TRUE]
           since == Chosen(1..n, column', filter)
<1>1. /\ request' = [request EXCEPT ![r] = p] /\ list' = l /\ created' = n /\ rows' = 1..n
      /\ walk' = [NoWalk EXCEPT !.on = TRUE, !.page = 1, !.size = size, !.filter = filter,
                                !.since = since]
      /\ Alone /\ r \in Slot /\ since \subseteq 1..n /\ IsFiniteSet(since)
  <2>1. since \subseteq 1..n
      BY DEF Chosen
  <2>2. IsFiniteSet(since)
      BY <2>1, FS_Interval, FS_Subset, RowsAssumption
  <2>3. QED BY <1>0, <2>1, <2>2, SlotsFree DEF StartWalk, Ask
<1> HIDE DEF since
<1>2. /\ p.stage = "sent" /\ p.walker /\ p.route = l /\ p.page = 1 /\ p.size = size
      /\ p.filter = filter
    BY DEF Idle
<1>3. /\ DOMAIN walk' = DOMAIN NoWalk /\ walk'.on = TRUE /\ walk'.page = 1 /\ walk'.size = size
      /\ walk'.filter = filter /\ walk'.since = since /\ walk'.seen = {} /\ walk'.disturbed = FALSE
    BY <1>1 DEF NoWalk
<1> HIDE DEF p
<1>4. request'[r] = p /\ \A t \in Slot \ {r} : ~request'[t].walker
    BY <1>1 DEF RequestInv, Regular, Alone
<1>5. Asking(p, walk', list') /\ Covered(p, walk', since)
    BY <1>1, <1>2, <1>3 DEF Asking, Covered
<1>6. size \in Nat \ {0} /\ l # "none"
    BY RowsAssumption DEF Listed
<1>7. WalkShape'
  <2>1. /\ \A t \in Slot : request'[t].walker => t = r
        /\ \A t \in Slot : request'[t].walker => Asking(request'[t], walk', list')
      BY <1>4, <1>5
  <2>2. walk'.page \in Nat \ {0} /\ walk'.size \in Nat \ {0} /\ walk'.since \subseteq 1..created'
      BY <1>1, <1>3, <1>6
  <2>3. QED BY <1>1, <1>3, <1>6, <2>1, <2>2 DEF WalkShape
<1>8. Matching(walk)' = since
    BY <1>1, <1>3 DEF Matching, since
<1>9. Reached((walk'.page - 1) * walk'.size, walk'.seen, walk', since)
  <2>1. (walk'.page - 1) * walk'.size = 0
      BY <1>3, <1>6
  <2>2. \A i : Rank(since, i) \in Nat
      BY <1>1, RankGrows
  <2>3. QED BY <2>1, <2>2 DEF Reached
<1>10. QED BY <1>3, <1>4, <1>5, <1>7, <1>8, <1>9 DEF WalkInv

LEMMA RequestStepWalk ==
    ASSUME RowsInv, RowsInv', RequestInv, WalkInv, NEW r \in Slot, RequestStep(r)
    PROVE  WalkInv'
<1> DEFINE q == request[r]
<1>1. /\ Regular(q)
      /\ q.walker => Asking(q, walk, list) /\ (~walk.disturbed => Covered(q, walk, Matching(walk)))
    BY DEF RequestInv, WalkInv, WalkShape
<1>2. CASE Deliver(r)
  <2> DEFINE p == [q EXCEPT !.stage = "handling", !.trail = TrailOf[q.route][q.header]]
  <2>1. request' = [request EXCEPT ![r] = p] /\ UNCHANGED <<dataVars, walk>>
      BY <1>2 DEF Deliver
  <2>2. /\ p.stage = "handling" /\ p.walker = q.walker /\ p.route = q.route /\ p.page = q.page
        /\ p.size = q.size /\ p.filter = q.filter
      BY <1>1 DEF Regular, Idle
  <2> HIDE DEF p
  <2>3. p.walker => q.walker /\ Asking(p, walk, list) /\ Covered(p, walk, Matching(walk))
      BY <1>1, <2>2 DEF Asking, Covered
  <2>4. QED BY <2>1, <2>3, WalkerSteps
<1>3. CASE Throw(r)
  <2> DEFINE p == Replied(q, Error(q))
  <2>1. request' = [request EXCEPT ![r] = p] /\ UNCHANGED <<dataVars, walk>> /\ Fails(q)
      BY <1>3 DEF Throw
  <2>2. p.status # 200
    <3>1. Error(q) \in ServiceErrors /\ ServiceOf(q.route) \in {"auth", "tasks", "notifications"}
        BY <2>1, ErrorOf, ServicesOfRoutes
    <3>2. AnswerStatus[ServiceOf(q.route)][Error(q)] # 200
        BY <3>1, Statuses
    <3>3. p.status = AnswerStatus[ServiceOf(q.route)][Error(q)]
        BY <1>1 DEF Replied, Regular, Idle
    <3>4. QED BY <3>2, <3>3
  <2>3. /\ p.stage = "replied" /\ p.walker = q.walker /\ p.route = q.route /\ p.page = q.page
        /\ p.size = q.size /\ p.filter = q.filter
      BY <1>1 DEF Replied, Regular, Idle
  <2> HIDE DEF p
  <2>4. p.walker => q.walker /\ Asking(p, walk, list) /\ Covered(p, walk, Matching(walk))
      BY <1>1, <2>2, <2>3 DEF Asking, Covered
  <2>5. QED BY <2>1, <2>4, WalkerSteps
<1>4. CASE Work(r)
    BY <1>4, WorkWalk
<1>5. CASE ReadPage(r)
    BY <1>5, ReadPageWalk
<1>6. CASE CountRows(r)
    BY <1>6, CountRowsWalk
<1>7. CASE Answer(r)
  <2> DEFINE p == [q EXCEPT !.stage = "answered"]
  <2>1. request' = [request EXCEPT ![r] = p] /\ UNCHANGED <<dataVars, walk>> /\ q.stage = "replied"
      BY <1>7 DEF Answer
  <2>2. /\ p.stage = "answered" /\ p.walker = q.walker /\ p.route = q.route /\ p.page = q.page
        /\ p.size = q.size /\ p.filter = q.filter /\ p.status = q.status /\ p.total = q.total
        /\ p.data = q.data
      BY <1>1 DEF Regular, Idle
  <2> HIDE DEF p
  <2>3. p.walker => q.walker /\ Asking(p, walk, list)
                    /\ (~walk.disturbed => Covered(p, walk, Matching(walk)))
      BY <1>1, <2>1, <2>2 DEF Asking, Covered
  <2>4. QED BY <2>1, <2>3, WalkerSteps
<1>8. CASE NextPage(r)
    BY <1>8, NextPageWalk
<1>9. QED BY <1>2, <1>3, <1>4, <1>5, <1>6, <1>7, <1>8 DEF RequestStep

LEMMA WalkNext ==
    ASSUME RowsInv, RowsInv', RequestInv, WalkInv, [Next]_vars
    PROVE  WalkInv'
<1>1. CASE UNCHANGED <<request, dataVars, walk>>
    BY <1>1, OnwardStill, WalkKept DEF dataVars
<1>2. ASSUME NEW s \in Service, ServiceCrash(s) PROVE WalkInv'
  <2>1. UNCHANGED <<dataVars, walk>> /\ list = "none"
      BY <1>2 DEF ServiceCrash
  <2>2. \A t \in Slot : ~request[t].walker
      BY <2>1 DEF WalkInv, WalkShape, Asking
  <2>3. ASSUME NEW t \in Slot PROVE request'[t].walker = request[t].walker
    <3>1. DOMAIN request[t] = DOMAIN Idle
        BY DEF RequestInv, Regular
    <3>2. \/ request'[t] = Answered(request[t], Unreachable)
          \/ request'[t] = [request[t] EXCEPT !.stage = "lost"]
          \/ request'[t] = request[t]
        BY <1>2 DEF ServiceCrash
    <3>3. QED BY <3>1, <3>2 DEF Answered, Idle
  <2>4. QED BY <2>1, <2>2, <2>3, OnwardStill, WalkKept DEF dataVars
<1>3. ASSUME NEW r \in NextSlot, NEW i \in Offered, Submit(r, i) PROVE WalkInv'
  <2>1. PICK row : request' = [request EXCEPT ![r] =
                 Dispatch([Idle EXCEPT !.route = i.route, !.id = i.id, !.fields = i.fields,
                                       !.user = i.user, !.header = i.header, !.row = row])]
      BY <1>3 DEF Submit
  <2> DEFINE q == [Idle EXCEPT !.route = i.route, !.id = i.id, !.fields = i.fields,
                               !.user = i.user, !.header = i.header, !.row = row]
             p == Dispatch(q)
  <2>2. ~p.walker
    <3>1. DOMAIN q = DOMAIN Idle /\ ~q.walker
        BY DEF Idle
    <3> HIDE DEF q
    <3>2. p = Answered(q, Refused) \/ p = Answered(q, Unreachable) \/ p = [q EXCEPT !.stage = "sent"]
        BY DEF Dispatch
    <3> HIDE DEF p
    <3>3. QED BY <3>1, <3>2 DEF Answered, Idle
  <2>3. request' = [request EXCEPT ![r] = p] /\ UNCHANGED <<dataVars, walk>> /\ r \in Slot
      BY <1>3, <2>1, SlotsFree DEF Submit
  <2> HIDE DEF p
  <2>4. QED BY <2>2, <2>3, WalkerSteps
<1>4. ASSUME NEW r \in NextSlot, SubmitUnauthorized(r) PROVE WalkInv'
  <2>1. PICK route \in Routes : request' = [request EXCEPT ![r] =
                                              Answered([Idle EXCEPT !.route = route], Unauthorized)]
      BY <1>4 DEF SubmitUnauthorized
  <2> DEFINE p == Answered([Idle EXCEPT !.route = route], Unauthorized)
  <2>2. ~p.walker
      BY DEF Answered, Idle
  <2>3. request' = [request EXCEPT ![r] = p] /\ UNCHANGED <<dataVars, walk>> /\ r \in Slot
      BY <1>4, <2>1, SlotsFree DEF SubmitUnauthorized
  <2> HIDE DEF p
  <2>4. QED BY <2>2, <2>3, WalkerSteps
<1>5. ASSUME NEW r \in Slot, RequestStep(r) PROVE WalkInv'
    BY <1>5, RequestStepWalk
<1>6. ASSUME NEW r \in Slot, Forget(r) PROVE WalkInv'
    BY <1>6, IdleRegular, WalkerSteps DEF Forget
<1>7. ASSUME NEW r \in NextSlot, NEW l \in Listed, NEW n \in 0..MaxRows, NEW size \in Size,
             StartWalk(r, l, n, size)
      PROVE  WalkInv'
    BY <1>7, StartWalkWalk
<1>8. CASE NotificationStored
  <2>1. created \in Nat /\ rows \subseteq 1..created /\ column \in [Row -> Column \cup {"none"}]
      BY RowsAssumption DEF RowsInv
  <2>2. /\ created' = created + 1 /\ rows' = rows \cup {created + 1} /\ UNCHANGED <<request, list, walk>>
        /\ \A i \in rows : column'[i] = column[i]
      BY <1>8, <2>1 DEF NotificationStored, AddRow
  <2>3. Matching(walk) \subseteq Chosen(rows', column', walk.filter)
      BY <2>2 DEF Matching, Chosen
  <2>4. Onward
    <3>1. walk' = walk /\ created <= created' /\ walk.disturbed \in BOOLEAN
        BY <2>1, <2>2 DEF WalkInv, WalkShape
    <3>2. QED BY <2>3, <3>1 DEF Onward
  <2>5. QED BY <2>2, <2>4, WalkKept
<1>9. QED
    BY <1>1, <1>2, <1>3, <1>4, <1>5, <1>6, <1>7, <1>8 DEF Next, vars

-----------------------------------------------------------------------------
(* The theorems.                                                           *)

RequestPathInv == StartupInv /\ RowsInv /\ RequestInv /\ WalkInv

LEMMA InitRequests == Init => RowsInv /\ RequestInv /\ WalkInv
<1> SUFFICES ASSUME Init PROVE RowsInv /\ RequestInv /\ WalkInv
    OBVIOUS
<1>1. RowsInv
    BY RowsAssumption DEF Init, RowsInv
<1>2. RequestInv
    BY IdleRegular DEF Init, RequestInv
<1>3. WalkShape
    BY IdleRegular DEF Init, WalkShape, NoWalk
<1>4. WalkInv
    BY <1>3, IdleRegular DEF Init, WalkInv, NoWalk
<1>5. QED BY <1>1, <1>2, <1>4

LEMMA RequestPathInvariant == Spec => []RequestPathInv
<1>1. Init => RequestPathInv
    BY StartupInitInv, InitRequests DEF Init, RequestPathInv
<1>2. RequestPathInv /\ [Next]_vars => RequestPathInv'
  <2> SUFFICES ASSUME RequestPathInv, [Next]_vars PROVE RequestPathInv'
      OBVIOUS
  <2>1. StartupInv'
      BY NextStartup DEF RequestPathInv
  <2>2. RowsInv' /\ RequestInv'
      BY RequestNext DEF RequestPathInv, WalkInv, WalkShape
  <2>3. WalkInv'
      BY <2>2, WalkNext DEF RequestPathInv
  <2>4. QED BY <2>1, <2>2, <2>3 DEF RequestPathInv
<1>3. QED BY <1>1, <1>2, PTL DEF Spec

(* Every variable of the request path has its type: no start-up, crash or  *)
(* handler leaves the stages of a request, the rows or the statuses that   *)
(* HTTP knows.                                                             *)
THEOREM RequestTypes == Spec => []TypeOK
<1>1. RequestPathInv => TypeOK
  <2> SUFFICES ASSUME RequestPathInv PROVE TypeOK
      OBVIOUS
  <2>1. 1..created \subseteq Row /\ created \in 0..MaxRows
      BY RowsAssumption DEF RequestPathInv, RowsInv, Row
  <2>2. QED
      BY <2>1 DEF RequestPathInv, StartupInv, RowsInv, RequestInv, Regular, Stages, WalkInv, WalkShape,
                  TypeOK
<1>2. QED BY <1>1, RequestPathInvariant, PTL

(* Whatever a client sends, the services refuse what the gateway's pipe    *)
(* accepted in two cases only, the database in those that the columns      *)
(* explain, and never after the client was told of a success: every DTO of *)
(* the gateway against its copy in packages/types.                         *)
THEOREM ContractsAgree == Spec => []ServiceAgreesWithPipe
<1>1. RequestPathInv => ServiceAgreesWithPipe
    BY DEF RequestPathInv, RequestInv, Regular, Explained, ServiceAgreesWithPipe, Serving
<1>2. QED BY <1>1, RequestPathInvariant, PTL

(* The status that tasks and notifications throw is the status of the      *)
(* answer, for every error and in every order of requests and crashes.     *)
THEOREM StatusesKept == Spec => []StatusKept
<1>1. RequestPathInv => StatusKept
    BY DEF RequestPathInv, RequestInv, Regular, StatusKept, Serving
<1>2. QED BY <1>1, RequestPathInvariant, PTL

(* From the gateway's header to the broadcast, one id: no context on the   *)
(* way replaces or forgets it, whatever the client put into the header.    *)
THEOREM OneTrail == Spec => []TrailUnbroken
<1>1. RequestPathInv => TrailUnbroken
  <2> SUFFICES ASSUME RequestPathInv, NEW r \in Slot, InFlight(r), request[r].stage # "sent",
                      Serving(r) = "tasks", NEW hop \in DOMAIN request[r].trail
               PROVE  request[r].trail[hop] = RequestContextMiddleware(request[r].header)
      BY DEF TrailUnbroken
  <2>1. /\ request[r].trail = TrailOf[request[r].route][request[r].header]
        /\ request[r].route \in Routes /\ request[r].header \in Id
      BY DEF RequestPathInv, RequestInv, Regular, InFlight
  <2>2. QED BY <2>1, Trails DEF Serving
<1>2. QED BY <1>1, RequestPathInvariant, PTL

(* However many rows there are and whatever the page size, a client that   *)
(* reads page after page, filtered or not, misses no row that was there    *)
(* before, while others add and change rows, until one of the rows leaves  *)
(* the list: deleted, or changed so that the filter refuses it.            *)
THEOREM WalksComplete == Spec => []WalkComplete
<1>1. RequestPathInv => WalkComplete
    BY DEF RequestPathInv, WalkInv, WalkComplete
<1>2. QED BY <1>1, RequestPathInvariant, PTL
=============================================================================
