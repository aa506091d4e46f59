------------------------------- MODULE Nodes -------------------------------
(***************************************************************************)
(* shared/runtime_gateway.py: the processes of the system in               *)
(* fazle_runtime_nodes, their heartbeats, the sweep that marks silent      *)
(* nodes offline and gives their queue items back.                         *)
(*                                                                         *)
(* The sweep is an UPDATE ... RETURNING followed, for each node it         *)
(* returned, by a separate UPDATE of the message queue: a crash or a       *)
(* database error between them leaves a node offline with its items still  *)
(* claimed, and no later sweep selects an offline node.  Workers claim     *)
(* with their node id as processor_id, which is what the release looks     *)
(* for; the rows are those of shared/queue.py.                             *)
(***************************************************************************)
EXTENDS Naturals, FiniteSets

CONSTANTS
  NodeIds,            \* the processes: make_node_id holds the pid, so a restart is a new node
  Rows,               \* rows of fazle_message_queue
  NoNode,             \* processor_id is NULL
  SweepEvery,         \* _STALE_SWEEP_EVERY
  MAX_ATTEMPTS,       \* dequeue_batch takes rows with fewer attempts
  MaxDbErrors         \* bound: statements of this module that fail

VARIABLES
  node,      \* fazle_runtime_nodes.status, "none" before there is a row
  silent,    \* nodes whose last_seen is older than STALE_THRESHOLD_S
  running,   \* processes: "new", "up", "down"
  cycle,     \* the heartbeat loop's cycle, modulo _STALE_SWEEP_EVERY; 0 = sweep now
  sweep,     \* the nodes a running sweep has marked and not released yet
  row,       \* fazle_message_queue: status, processor_id, attempts
  busy,      \* rows a node has dequeued and not acknowledged yet
  dbErrors,  \* how many statements failed
  torn       \* nodes whose release was lost between the two statements (history)

nodeVars == <<node, silent, running, cycle, sweep, row, busy, dbErrors, torn>>

\* The rows are one attempt short of the limit, where the cap of a release counts.
NodesInit ==
  /\ node = [n \in NodeIds |-> "none"]
  /\ silent = {}
  /\ running = [n \in NodeIds |-> "new"]
  /\ cycle = [n \in NodeIds |-> 1]
  /\ sweep = [n \in NodeIds |-> {}]
  /\ row = [r \in Rows |-> [status |-> "pending", by |-> NoNode, attempts |-> MAX_ATTEMPTS - 1]]
  /\ busy = [n \in NodeIds |-> {}]
  /\ dbErrors = 0
  /\ torn = {}

DbFails == dbErrors < MaxDbErrors /\ dbErrors' = dbErrors + 1

\* start_gateway: register_node's UPSERT and the heartbeat task.
StartGateway(n) ==
  /\ running[n] = "new"
  /\ running' = [running EXCEPT ![n] = "up"]
  /\ node' = [node EXCEPT ![n] = "online"]
  /\ UNCHANGED <<silent, cycle, sweep, row, busy, dbErrors, torn>>

\* register_node failed; the node runs on and the loop starts all the same.
StartUnregistered(n) ==
  /\ running[n] = "new"
  /\ DbFails
  /\ running' = [running EXCEPT ![n] = "up"]
  /\ UNCHANGED <<node, silent, cycle, sweep, row, busy, torn>>

\* heartbeat: last_seen and status 'online' of this node's row, if it has one.
Touch(n) ==
  /\ node' = [node EXCEPT ![n] = IF @ = "none" THEN @ ELSE "online"]
  /\ silent' = silent \ {n}

Beat(n) ==
  /\ running[n] = "up" /\ cycle[n] # 0 /\ sweep[n] = {}
  /\ cycle' = [cycle EXCEPT ![n] = (@ + 1) % SweepEvery]

\* One turn of heartbeat_loop that reached the database.
Heartbeat(n) ==
  /\ Beat(n)
  /\ Touch(n)
  /\ UNCHANGED <<running, sweep, row, busy, dbErrors, torn>>

\* The UPDATE failed: False, and after the third time RECONNECTING is emitted.
HeartbeatFails(n) ==
  /\ Beat(n)
  /\ DbFails
  /\ UNCHANGED <<node, silent, running, sweep, row, busy, torn>>

StaleNodes == {m \in NodeIds : node[m] = "online" /\ m \in silent}

\* Every _STALE_SWEEP_EVERY turns, mark_stale_nodes: one UPDATE ... RETURNING.
MarkStaleNodes(n) ==
  /\ running[n] = "up" /\ cycle[n] = 0
  /\ node' = [m \in NodeIds |-> IF m \in StaleNodes THEN "offline" ELSE node[m]]
  /\ sweep' = [sweep EXCEPT ![n] = StaleNodes]
  /\ cycle' = [cycle EXCEPT ![n] = 1]
  /\ UNCHANGED <<silent, running, row, busy, dbErrors, torn>>

\* Deviation (mutation runs): only rows back in 'pending' are released.
Mut_ReleasesPendingOnly(m) ==
  [r \in Rows |->
     IF row[r].by = m /\ row[r].status = "pending"
     THEN [status |-> "pending", by |-> NoNode, attempts |-> row[r].attempts]
     ELSE row[r]]

\* _release_claimed_queue_items: pending, unclaimed, at most two attempts.
Released(m) ==
  [r \in Rows |->
     IF row[r].by = m /\ row[r].status \in {"processing", "pending"}
     THEN [status |-> "pending", by |-> NoNode,
           attempts |-> IF row[r].attempts > 2 THEN 2 ELSE row[r].attempts]
     ELSE row[r]]

ReleaseClaimedQueueItems(n, m) ==
  /\ m \in sweep[n]
  /\ row' = Released(m)
  /\ sweep' = [sweep EXCEPT ![n] = @ \ {m}]
  /\ UNCHANGED <<node, silent, running, cycle, busy, dbErrors, torn>>

\* The release raised and was logged; the node is offline all the same.
ReleaseLost(n, m) ==
  /\ m \in sweep[n]
  /\ DbFails
  /\ sweep' = [sweep EXCEPT ![n] = @ \ {m}]
  /\ torn' = torn \cup {m}
  /\ UNCHANGED <<node, silent, running, cycle, row, busy>>

\* stop_gateway: the task is cancelled and the row goes offline.
StopGateway(n) ==
  /\ running[n] = "up" /\ busy[n] = {} /\ sweep[n] = {}
  /\ running' = [running EXCEPT ![n] = "down"]
  /\ node' = [node EXCEPT ![n] = IF @ = "none" THEN @ ELSE "offline"]
  /\ UNCHANGED <<silent, cycle, sweep, row, busy, dbErrors, torn>>

\* The process dies, with what its sweep had still to release.
NodeDies(n) ==
  /\ running[n] = "up"
  /\ running' = [running EXCEPT ![n] = "down"]
  /\ torn' = torn \cup sweep[n]
  /\ sweep' = [sweep EXCEPT ![n] = {}]
  /\ busy' = [busy EXCEPT ![n] = {}]
  /\ UNCHANGED <<node, silent, cycle, row, dbErrors>>

\* STALE_THRESHOLD_S without a heartbeat: also of a node that is only slow.
FallsSilent(n) ==
  /\ n \notin silent /\ node[n] = "online"
  /\ silent' = silent \cup {n}
  /\ UNCHANGED <<node, running, cycle, sweep, row, busy, dbErrors, torn>>

\* dequeue_batch and ack_message of a worker in process n.
Dequeue(n, r) ==
  /\ running[n] = "up"
  /\ row[r].status = "pending" /\ row[r].attempts < MAX_ATTEMPTS
  /\ row' = [row EXCEPT ![r] = [status |-> "processing", by |-> n, attempts |-> @.attempts + 1]]
  /\ busy' = [busy EXCEPT ![n] = @ \cup {r}]
  /\ UNCHANGED <<node, silent, running, cycle, sweep, dbErrors, torn>>

Ack(n, r) ==
  /\ r \in busy[n]
  /\ row' = [row EXCEPT ![r].status = "done"]
  /\ busy' = [busy EXCEPT ![n] = @ \ {r}]
  /\ UNCHANGED <<node, silent, running, cycle, sweep, dbErrors, torn>>

SweepStep(n) ==
  \/ MarkStaleNodes(n)
  \/ \E m \in NodeIds : ReleaseClaimedQueueItems(n, m) \/ ReleaseLost(n, m)

NodesNext ==
  \E n \in NodeIds :
    \/ StartGateway(n) \/ StartUnregistered(n) \/ Heartbeat(n) \/ HeartbeatFails(n)
    \/ SweepStep(n) \/ StopGateway(n) \/ NodeDies(n) \/ FallsSilent(n)
    \/ \E r \in Rows : Dequeue(n, r) \/ Ack(n, r)

(* The loop's sleep ends, its statements answer and silence is noticed. *)
NodesFairness ==
  \A n \in NodeIds :
    /\ WF_nodeVars(Heartbeat(n)) /\ WF_nodeVars(SweepStep(n))
    /\ WF_nodeVars(running[n] = "down" /\ FallsSilent(n))

-----------------------------------------------------------------------------

\* What a dead node had claimed does not stay claimed while another node runs:
\* a sweep gives it back, unless the sweeping node failed between marking the
\* dead node and releasing its rows.  (A node that a sweep had already marked
\* when it claimed and died is not swept again; see the README.)
DeadNodeReleases ==
  \A n \in NodeIds, r \in Rows :
    row[r].status = "processing" /\ row[r].by = n /\ running[n] = "down" /\ node[n] = "online"
      ~> \/ row[r].status # "processing" \/ row[r].by # n
         \/ n \in torn
         \/ \A m \in NodeIds : running[m] # "up"

=============================================================================
