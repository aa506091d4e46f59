------------------------------ MODULE SelfHeal ------------------------------
(***************************************************************************)
(* shared/self_heal.py: a cycle of checks that restarts dead tasks, asks   *)
(* for a probe of the bridges and adds what it found up to a pressure      *)
(* score with a panic mode.  Cycles are started by the 30-second loop and  *)
(* by POST /api/self-heal/check, so two may run at once; every check is an *)
(* await.  Pressure is in thousandths; a sum that meets a threshold        *)
(* exactly compares either way, because it is a sum of floats.             *)
(***************************************************************************)
EXTENDS Bridges

CONSTANT
  Cycles        \* who runs _run_all_checks: the loop and the endpoint

VARIABLES
  taskUp,      \* the supervised tasks: the outbound worker, the realtime heartbeat
  deaths,      \* deaths and failed restarts so far
  check,       \* each cycle: its position and what it found so far
  panic        \* _panic_mode (and _throttled)

healVars == <<taskUp, deaths, check, panic>>

PANIC_THRESHOLD == 850
PANIC_CLEAR == 600

Weight == [dead_worker |-> 250, ws_failure |-> 100, bridge_outage |-> 300,
           queue_stall |-> 200, stale_locks |-> 50, retry_storm |-> 100]

\* The order in which _run_all_checks runs the checks.
CheckOrder == <<"dead_worker", "ws_failure", "bridge_outage", "queue_stall", "stale_locks", "retry_storm">>

\* The tasks the healer restarts, by the signal of their death.
Supervised == {"dead_worker", "ws_failure"}

NoCycle == [at |-> 0, score |-> 0, foundDead |-> FALSE]

HealInit ==
  /\ taskUp = [s \in Supervised |-> TRUE]
  /\ deaths = 0
  /\ check = [k \in Cycles |-> NoCycle]
  /\ panic = FALSE

StartCycle(k) ==
  /\ check[k].at = 0
  /\ check' = [check EXCEPT ![k].at = 1]
  /\ UNCHANGED <<taskUp, deaths, panic>>

\* A check is done: percent is its signal.  _compute_pressure adds the weighted
\* signals up, in thousandths; foundDead remembers the worker's (history).
Record(k, percent) ==
  LET s == CheckOrder[check[k].at]
  IN check' = [check EXCEPT ![k] =
       [at |-> @.at + 1,
        score |-> @.score + (Weight[s] * percent) \div 100,
        foundDead |-> @.foundDead \/ (s = "dead_worker" /\ percent > 0)]]

At(k, s) == check[k].at \in DOMAIN CheckOrder /\ CheckOrder[check[k].at] = s

\* Deviation (mutation runs): the dead task is reported and not restarted.
Mut_ReportsOnly(k, s) ==
  /\ s \in Supervised
  /\ At(k, s)
  /\ Record(k, IF taskUp[s] THEN 0 ELSE 100)
  /\ UNCHANGED <<taskUp, deaths, panic>>

\* _check_worker_health and _check_websocket: full pressure for a dead task,
\* which is running again when the check returns, ...
CheckTask(k, s) ==
  /\ s \in Supervised
  /\ At(k, s)
  /\ Record(k, IF taskUp[s] THEN 0 ELSE 100)
  /\ taskUp' = [taskUp EXCEPT ![s] = TRUE]
  /\ UNCHANGED <<deaths, panic>>

\* ... unless its restart raised, which is logged.
RestartFails(k, s) ==
  /\ s \in Supervised /\ ~taskUp[s]
  /\ At(k, s)
  /\ Record(k, 100)
  /\ deaths' = deaths + 1
  /\ UNCHANGED <<taskUp, panic>>

Count(state) == Cardinality({b \in Bridge : health[b] = state})

\* _check_bridge_health: the state before the probe it asks for.
BridgeSignal == IF Count("outage") > 0 THEN 100 ELSE 15 * Count("degraded")

CheckBridges(k) ==
  /\ At(k, "bridge_outage")
  /\ Record(k, BridgeSignal)
  /\ UNCHANGED <<taskUp, deaths, panic>>

\* _check_queue_stall, _check_stale_locks and _check_retry_storm: nothing below
\* the threshold or on a database error, then linear up to 100 percent of what
\* the backlog, the expired locks and the dead letters are at that moment.
CheckLoad(k, s, percent) ==
  /\ s \in {"queue_stall", "stale_locks", "retry_storm"}
  /\ At(k, s)
  /\ Record(k, percent)
  /\ UNCHANGED <<taskUp, deaths, panic>>

\* _maybe_enter_panic, then _maybe_exit_panic.
PanicAfter(p, tie) ==
  IF p > PANIC_THRESHOLD \/ (p = PANIC_THRESHOLD /\ tie) THEN TRUE
  ELSE IF p < PANIC_CLEAR \/ (p = PANIC_CLEAR /\ tie) THEN FALSE
  ELSE panic

\* The end of the cycle; nothing in it suspends the task.
FinishCycle(k, tie) ==
  /\ check[k].at = Len(CheckOrder) + 1
  /\ panic' = PanicAfter(check[k].score, tie)
  /\ check' = [check EXCEPT ![k] = NoCycle]
  /\ UNCHANGED <<taskUp, deaths>>

\* The outbound worker or the realtime heartbeat ends with an exception.
TaskDies(s) ==
  /\ taskUp[s]
  /\ taskUp' = [taskUp EXCEPT ![s] = FALSE]
  /\ deaths' = deaths + 1
  /\ UNCHANGED <<check, panic>>

\* A cycle step, with the probe it may start: the cycle waits for its probe.
CycleStep(k) ==
  \/ CheckBridges(k) /\ IF Count("outage") > 0 THEN ProbeAll(k) ELSE UNCHANGED bridgeVars
  \/ /\ \A b \in Bridge : probe[k, b] = Idle
     /\ \/ \E s \in Supervised : CheckTask(k, s)
        \/ \E s \in DOMAIN Weight, percent \in {0, 100} : CheckLoad(k, s, percent)
        \/ \E tie \in BOOLEAN : FinishCycle(k, tie)
     /\ UNCHANGED bridgeVars

\* At most maxDeaths deaths and failed restarts in a behaviour: a bound.
HealNext(cycles, maxDeaths) ==
  \/ \E k \in cycles : CycleStep(k) \/ (StartCycle(k) /\ UNCHANGED bridgeVars)
  \/ /\ deaths < maxDeaths
     /\ \E s \in Supervised : TaskDies(s) \/ \E k \in cycles : RestartFails(k, s)
     /\ UNCHANGED bridgeVars

-----------------------------------------------------------------------------

\* A supervised task that dies is running again later, also when checks of
\* overlapping cycles interleave, a restart fails and a probe of a dead bridge hangs
\* in between.
\* And panic mode ("When pressure >= PANIC_THRESHOLD") starts only in a cycle that
\* found the outbound worker dead and tried to restart it: an outage of both
\* bridges, a backlog, a dead WebSocket, a retry storm and stale locks at once do
\* not reach the threshold.
DeadTaskRestarted ==
  /\ \A s \in Supervised : ~taskUp[s] ~> taskUp[s]
  /\ [][~panic /\ panic' =>
         \E k \in Cycles : /\ check[k].at = Len(CheckOrder) + 1 /\ check'[k].at = 0
                          /\ check[k].foundDead]_healVars

=============================================================================
