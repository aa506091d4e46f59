---------------------------- MODULE FrontendSync ----------------------------
(***************************************************************************)
(* How a dashboard learns of a routed write: the state version             *)
(* (shared/state_version.py), the event bus (shared/events.py), the        *)
(* WebSocket broadcasts (shared/realtime.py) and the client registry, the  *)
(* response header and the documented client of shared/frontend_sync.py,   *)
(* composed with the write path of WriteRouter.                            *)
(*                                                                         *)
(* The version is a Redis counter, or a PostgreSQL one that knows nothing  *)
(* of it when Redis does not answer.  Events stay in the process that      *)
(* emitted them, so only writes of the process that serves the WebSocket   *)
(* reach its clients; the version reaches every client that asks.          *)
(***************************************************************************)
EXTENDS WriteRouter

CONSTANTS
  Clients,        \* dashboard tabs
  CoreProc,       \* the process that serves /ws/realtime
  MaxDrops        \* bound: lost WebSocket connections

VARIABLES
  redisUp,   \* does Redis answer?
  counter,   \* the two version counters: "redis" and "pg"
  link,      \* the tab's WebSocket: "down", "joining" (accepted, no hello yet), "up"
  inbox,     \* refresh events on their way to the tab
  lastVer,   \* the tab's _lastVersion
  shown,     \* how many committed writes the tab's data contains
  reg,       \* _clients: the version last reported, the stale flag, silence
  news,      \* how many committed writes were announced (history)
  adopted,   \* tabs that took a version over without refreshing (history)
  switched,  \* has the version's source changed? (history)
  unheard,   \* did the bump after the last write miss the version? (history)
  drops      \* lost connections so far

syncVars == <<redisUp, counter, link, inbox, lastVer, shown, reg, news, adopted, switched, unheard, drops>>

NoRecord == [known |-> FALSE, ver |-> 0, stale |-> FALSE, silent |-> FALSE]

SyncInit ==
  /\ redisUp \in BOOLEAN
  /\ counter = [s \in {"redis", "pg"} |-> 0]
  /\ link = [c \in Clients |-> "down"]
  /\ inbox = [c \in Clients |-> 0]
  /\ lastVer = [c \in Clients |-> 0]
  /\ shown = [c \in Clients |-> 0]
  /\ reg = [c \in Clients |-> NoRecord]
  /\ news = 0
  /\ adopted = {}
  /\ switched = FALSE
  /\ unheard = FALSE
  /\ drops = 0

Source == IF redisUp THEN "redis" ELSE "pg"

\* get_state_version.
StateVersion == counter[Source]

\* The tabs a broadcast is sent to: ConnectionManager._connections.
Connected == {c \in Clients : link[c] # "down"}

\* emit schedules _forward_event, which broadcasts in this process.
Emit(t) ==
  inbox' = [c \in Clients |-> IF ProcOf[t] = CoreProc /\ c \in Connected THEN 1 ELSE inbox[c]]

\* bump_state_version: Redis, where that fails PostgreSQL, and where that fails
\* too a 0 that nobody looks at.
Bumped(s) == counter' = [counter EXCEPT ![s] = @ + 1]
BumpStateVersion ==
  \/ Bumped(Source) /\ unheard' = FALSE
  \/ redisUp /\ Bumped("pg") /\ unheard' = TRUE
  \/ UNCHANGED counter /\ unheard' = TRUE

\* Deviation (mutation runs): the version is bumped only when an event was emitted
\* in the serving process.
Mut_BumpOnlyInCore(t) ==
  /\ Emit(t) \/ UNCHANGED inbox
  /\ IF ProcOf[t] = CoreProc THEN BumpStateVersion ELSE UNCHANGED counter /\ unheard' = FALSE
  /\ news' = commits
  /\ UNCHANGED <<redisUp, link, lastVer, shown, reg, adopted, switched, drops>>

\* Steps 4 and 5 of routed_write: both may fail, and the write goes on.
Announce(t) ==
  /\ Emit(t) \/ UNCHANGED inbox
  /\ BumpStateVersion
  /\ news' = commits
  /\ UNCHANGED <<redisUp, link, lastVer, shown, reg, adopted, switched, drops>>

\* refreshCurrentTab reads everything again.
Refresh(c) == shown' = [shown EXCEPT ![c] = commits]

\* A version that came with an answer: the header observer, the polling
\* fallback and the heartbeat answer treat it alike.
Observe(c) ==
  IF StateVersion > lastVer[c]
  THEN lastVer' = [lastVer EXCEPT ![c] = StateVersion] /\ Refresh(c)
  ELSE UNCHANGED <<lastVer, shown>>

\* ws.onmessage with one of REFRESH_EVENTS: the version stays as it was.
ReceiveEvent(c) ==
  /\ inbox[c] > 0
  /\ inbox' = [inbox EXCEPT ![c] = 0]
  /\ Refresh(c)
  /\ UNCHANGED <<redisUp, counter, link, lastVer, reg, news, adopted, switched, unheard, drops>>

\* websocket_endpoint: connect() first, the hello with the version after an await.
WsConnect(c) ==
  /\ link[c] = "down"
  /\ link' = [link EXCEPT ![c] = "joining"]
  /\ UNCHANGED <<redisUp, counter, inbox, lastVer, shown, reg, news, adopted, switched, unheard, drops>>

\* The client takes the version of the hello over and does not refresh.
WsHello(c) ==
  /\ link[c] = "joining"
  /\ link' = [link EXCEPT ![c] = "up"]
  /\ lastVer' = [lastVer EXCEPT ![c] = StateVersion]
  /\ adopted' = IF StateVersion # lastVer[c] THEN adopted \cup {c} ELSE adopted
  /\ UNCHANGED <<redisUp, counter, inbox, shown, reg, news, switched, unheard, drops>>

\* disconnect, or a broadcast that finds the connection dead.
WsDrop(c) ==
  /\ link[c] # "down" /\ drops < MaxDrops
  /\ drops' = drops + 1
  /\ link' = [link EXCEPT ![c] = "down"]
  /\ inbox' = [inbox EXCEPT ![c] = 0]
  /\ UNCHANGED <<redisUp, counter, lastVer, shown, reg, news, adopted, switched, unheard>>

\* The polling fallback while the WebSocket is down.
Poll(c) ==
  /\ link[c] = "down"
  /\ Observe(c)
  /\ UNCHANGED <<redisUp, counter, link, inbox, reg, news, adopted, switched, unheard, drops>>

\* POST /api/frontend/heartbeat, every 30 s: register_heartbeat records the tab
\* (VERSION_LAG_THRESHOLD), and the answer carries X-State-Version.
Heartbeat30(c) ==
  /\ reg' = [reg EXCEPT ![c] = [known |-> TRUE, ver |-> lastVer[c],
                                stale |-> StateVersion > lastVer[c] + 2, silent |-> FALSE]]
  /\ Observe(c)
  /\ UNCHANGED <<redisUp, counter, link, inbox, news, adopted, switched, unheard, drops>>

\* STALE_THRESHOLD_S without a heartbeat.
TabSilent(c) ==
  /\ reg[c].known /\ ~reg[c].silent
  /\ reg' = [reg EXCEPT ![c].silent = TRUE]
  /\ UNCHANGED <<redisUp, counter, link, inbox, lastVer, shown, news, adopted, switched, unheard, drops>>

\* The monitor's turn: detect_stale_clients flags and clears.
DetectStaleClients ==
  /\ reg' = [c \in Clients |-> [reg[c] EXCEPT !.stale =
               reg[c].known /\ (reg[c].silent \/ StateVersion > reg[c].ver + 2)]]
  /\ UNCHANGED <<redisUp, counter, link, inbox, lastVer, shown, news, adopted, switched, unheard, drops>>

\* purge_inactive_clients: four times the threshold without a heartbeat.
PurgeInactiveClients(c) ==
  /\ reg[c].silent
  /\ reg' = [reg EXCEPT ![c] = NoRecord]
  /\ UNCHANGED <<redisUp, counter, link, inbox, lastVer, shown, news, adopted, switched, unheard, drops>>

\* Redis stops or starts answering: the other counter is the version now.
RedisSwitches ==
  /\ ~switched
  /\ redisUp' = ~redisUp
  /\ switched' = TRUE
  /\ UNCHANGED <<counter, link, inbox, lastVer, shown, reg, news, adopted, unheard, drops>>

TabsNext ==
  \/ \E c \in Clients :
       \/ ReceiveEvent(c) \/ WsConnect(c) \/ WsHello(c) \/ WsDrop(c)
       \/ Poll(c) \/ Heartbeat30(c)

MonitorNext ==
  \/ \E c \in Clients : TabSilent(c) \/ PurgeInactiveClients(c)
  \/ DetectStaleClients

-----------------------------------------------------------------------------

\* "guaranteeing the frontend never shows stale data after a write": a tab that
\* misses an announced write catches up, also with a write of another process,
\* with a lost event and with a broken WebSocket.  The three ways in which it may
\* not: the hello of a new WebSocket overwrites its version without a refresh, the
\* version's source switches to a counter that is behind, or the bump failed,
\* which nobody is told; the next write whose bump succeeds makes up for that.
TabCatchesUp ==
  \A c \in Clients : shown[c] < news ~> (shown[c] >= news \/ c \in adopted \/ switched \/ unheard)

=============================================================================
