------------------------------ MODULE Runtime ------------------------------
(***************************************************************************)
(* The shared runtime layer of one deployment: the routed write with the   *)
(* dashboards that follow it, the bridges with the self-healer that probes *)
(* them, and the node registry.  The parts share no other variable, so a   *)
(* behaviour exercises the part that its configuration config names.       *)
(***************************************************************************)
EXTENDS FrontendSync, SelfHeal, Nodes

CONSTANT Configurations   \* configurations: the part, who writes, sends and probes in it, what fails

ASSUME TasksAssumption == \A c \in Configurations : c.tasks \subseteq Tasks

VARIABLE config

runtimeVars == <<config, routerVars, syncVars, bridgeVars, healVars, nodeVars>>

Part(p) == config.part = p

RuntimeInit ==
  /\ config \in Configurations
  /\ RouterInit /\ SyncInit /\ BridgesInit /\ HealInit /\ NodesInit
  /\ overrun => Part("writes")
  /\ redisUp = config.redis

\* routed_write: its last step before the release tells the dashboards.
WriteStep(t) ==
  \/ /\ commits < config.writes /\ RoutedWrite(t)
     /\ UNCHANGED syncVars
  \/ TtlElapses(t) /\ UNCHANGED syncVars
  \/ /\ TaskStep(t)
     /\ IF place[t] = "publish" /\ Part("tabs") THEN Announce(t) ELSE UNCHANGED syncVars

WritesNext ==
  /\ \/ \E t \in config.tasks : WriteStep(t)
     \/ CleanupExpiredLocks /\ UNCHANGED syncVars
     \/ Part("writes") /\ (\E p \in Procs : ProcessDies(p)) /\ UNCHANGED syncVars
  /\ UNCHANGED overrun

DashboardNext == TabsNext \/ IF config.monitor THEN MonitorNext ELSE RedisSwitches

\* Sends and probes, or the messages that both bridges deliver.
BridgesNext ==
  IF config.notices = {} THEN InboundNext
  ELSE \/ SendsNext(config.notices, config.preferred)
       \/ ProbesNext(config.probers, config.faulty)
       \/ \E p \in config.probers : ProbeAll(p) \/ \E b \in config.faulty : DrainStep(p, b)

\* The self-healer and the probes it waits for, on bridges that come and go.
HealingNext ==
  \/ HealNext(config.probers \cap Cycles, config.deaths)
  \/ (\E p \in config.probers \ Cycles : ProbeAll(p)) /\ UNCHANGED healVars
  \/ ProbesNext(config.probers, config.faulty) /\ UNCHANGED healVars

RuntimeNext ==
  /\ UNCHANGED config
  /\ \/ /\ config.tasks # {}
        /\ WritesNext \/ (Part("tabs") /\ DashboardNext /\ UNCHANGED routerVars)
        /\ UNCHANGED <<bridgeVars, healVars, nodeVars>>
     \/ Part("bridges") /\ BridgesNext /\ UNCHANGED <<routerVars, syncVars, healVars, nodeVars>>
     \/ Part("healing") /\ HealingNext /\ UNCHANGED <<routerVars, syncVars, nodeVars>>
     \/ Part("nodes") /\ NodesNext /\ UNCHANGED <<routerVars, syncVars, bridgeVars, healVars>>

(* Besides the fairness of its parts: a tab's 30-second heartbeat fires and an *)
(* event on an open WebSocket arrives; the self-healer's loop starts cycles,   *)
(* its checks return, and a probe's HTTP call answers or times out.            *)
RuntimeFairness ==
  /\ RouterFairness /\ BridgesFairness /\ NodesFairness
  /\ \A c \in Clients :
       /\ WF_syncVars(Part("tabs") /\ Heartbeat30(c))
       /\ WF_syncVars(ReceiveEvent(c))
  /\ \A k \in Cycles :
       /\ WF_healVars(Part("healing") /\ k \in config.probers /\ StartCycle(k))
       /\ WF_healVars(Part("healing") /\ CycleStep(k))
       /\ \A b \in Bridge : WF_bridgeVars(StatusStep(k, b))

RuntimeSpec == RuntimeInit /\ [][RuntimeNext]_runtimeVars /\ RuntimeFairness

=============================================================================
