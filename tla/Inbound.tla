------------------------------- MODULE Inbound -------------------------------
(***************************************************************************)
(* How messages of the two WhatsApp bridges get in: a poller per bridge    *)
(* (modules/bridge_poller) reads the bridge's SQLite store behind a cursor *)
(* of timestamps, and the bridge may also call a webhook of the            *)
(* application (app.main._handle_bridge_event) for the same message.  Both *)
(* share the table processed_bridge_messages.  The poller of one bridge    *)
(* also reads what the admin sent from it, behind a cursor of its own.     *)
(*                                                                         *)
(* Routing a message is one step: the workflows it starts are modules of   *)
(* their own, and here it counts how often they are started.  Which reply  *)
(* is drafted and which is sent depends on words, roles, settings and two  *)
(* counters of recent replies and words: the model leaves it open.  The    *)
(* OCR, voice and document branches of the poller are not reached: every   *)
(* message that is fetched has a text, if only a placeholder.              *)
(***************************************************************************)
EXTENDS Naturals, FiniteSets

CONSTANTS
  Bridges, OutBridge,  \* the bridges, and the one whose sent messages are read
  InMsgs, OutMsgs,     \* messages to the bridge, messages the admin sends from it
  BridgeOf, PhoneOf,   \* where a message is stored and who wrote it
  Hooks,               \* webhook requests being served
  Limit,               \* rows of one query (50, and 100 of sent ones)
  MaxTime, MaxCalls,   \* bounds: the timestamps, in seconds, and the webhook requests
  Environments,        \* what may go wrong and how the application is set up
  NoMsg

Msgs == InMsgs \cup OutMsgs
Actors == Bridges \cup Hooks
Phones == {PhoneOf[m] : m \in InMsgs}

ASSUME ConstantsAssumption ==
  /\ OutBridge \in Bridges /\ Bridges \cap Hooks = {}
  /\ InMsgs \cap OutMsgs = {} /\ NoMsg \notin Msgs
  /\ BridgeOf \in [Msgs -> Bridges] /\ \A m \in OutMsgs : BridgeOf[m] = OutBridge
  /\ Limit \in Nat \ {0} /\ MaxTime \in Nat /\ MaxCalls \in Nat
  /\ Environments \subseteq
       [failures : BOOLEAN,  \* statements, routing and sends may raise
        crashes : BOOLEAN,   \* the process may die
        ordered : BOOLEAN,   \* the store gets messages with rising timestamps
        single : BOOLEAN,    \* SOCIAL_AUTO_REPLY_SINGLE_ENGINE
        polling : SUBSET Bridges, hooks : SUBSET Hooks,
        time : [Msgs -> 1..MaxTime],
        kind : [Msgs -> {"dm", "blank", "unresolved"}]]

VARIABLES
  store,        \* the messages in the SQLite stores
  processed,    \* processed_bridge_messages and processed_outgoing_escort_messages
  saved,        \* inbound rows of a message in wbom_whatsapp_messages
  ingested,     \* messages given to the social auto reply
  cursorDB, outCursor, \* bridge_poller_cursor: of a bridge, of its sent messages
  cursor,       \* the poller's own copy
  phase, batch, newCursor, \* of a poller: which cursor it follows, the rows at hand
  pc, cur,      \* of an actor: its step and its message
  cooling,      \* phones replied to within REPLY_COOLDOWN
  handled, replied, \* history: workflows started, replies sent for a message
  calls,        \* history: webhook requests
  env           \* fixed by the initial state

tables == <<store, processed, saved, ingested>>
cursors == <<cursorDB, outCursor, cursor>>
fetchVars == <<phase, batch, newCursor>>
histVars == <<handled, replied, calls>>
state == <<tables, cursors, fetchVars, pc, cur, cooling, histVars>>
vars == <<state, env>>

Goto(a, l) == pc' = [pc EXCEPT ![a] = l]
Take(a, m) == cur' = [cur EXCEPT ![a] = m]
Inc(f, m) == [f EXCEPT ![m] = @ + 1]

\* On the first start the cursor lies five minutes back.
Init ==
  /\ store = {} /\ processed = {} /\ ingested = {}
  /\ saved = [m \in InMsgs |-> 0]
  /\ cursorDB = [b \in Bridges |-> 0] /\ outCursor = 0
  /\ cursor = [b \in Bridges |-> 0]
  /\ phase = [b \in Bridges |-> "in"]
  /\ batch = [b \in Bridges |-> {}]
  /\ newCursor = [b \in Bridges |-> 0]
  /\ pc = [a \in Actors |-> IF a \in Bridges THEN "start" ELSE "idle"]
  /\ cur = [a \in Actors |-> NoMsg]
  /\ cooling = {}
  /\ handled = [m \in Msgs |-> 0] /\ replied = [m \in Msgs |-> 0]
  /\ calls = 0
  /\ env \in Environments

-----------------------------------------------------------------------------
(* The bridge writes to its store.  Messages of one second, or messages that *)
(* come late after an interruption, are not ordered by their timestamps.     *)

SameStream(m, n) == BridgeOf[m] = BridgeOf[n] /\ (m \in InMsgs <=> n \in InMsgs)

Arrive(m) ==
  /\ m \notin store /\ BridgeOf[m] \in env.polling
  /\ env.ordered => \A n \in store : SameStream(m, n) => env.time[n] < env.time[m]
  /\ store' = store \cup {m}
  /\ UNCHANGED <<processed, saved, ingested, cursors, fetchVars, pc, cur, cooling, histVars>>

-----------------------------------------------------------------------------
(* _poll_bridge *)

StartPoller(b) ==
  /\ pc[b] = "start" /\ b \in env.polling
  /\ cursor' = [cursor EXCEPT ![b] = cursorDB[b]]
  /\ Goto(b, "poll")
  /\ UNCHANGED <<tables, cursorDB, outCursor, fetchVars, cur, cooling, histVars>>

\* _get_cursor is called outside the loop's try: the task ends.
StartFails(b) ==
  /\ env.failures
  /\ pc[b] = "start" /\ b \in env.polling
  /\ Goto(b, "dead")
  /\ UNCHANGED <<tables, cursors, fetchVars, cur, cooling, histVars>>

Since(b) == IF phase[b] = "in" THEN cursor[b] ELSE outCursor

\* The rows of the query before ORDER BY and LIMIT.
Candidates(b) ==
  {m \in store : /\ BridgeOf[m] = b /\ (m \in InMsgs <=> phase[b] = "in")
                 /\ env.time[m] > Since(b)}

\* ORDER BY the timestamp, LIMIT; rows of one second come in any order.
Fetched(b) ==
  {R \in SUBSET Candidates(b) :
     /\ Cardinality(R) = IF Cardinality(Candidates(b)) < Limit THEN Cardinality(Candidates(b)) ELSE Limit
     /\ \A m \in R, n \in Candidates(b) \ R : env.time[m] <= env.time[n]}

\* The latest of the timestamps of S and of since, as a set of one.
Latest(S, since) ==
  {t \in {env.time[m] : m \in S} \cup {since} : t >= since /\ \A m \in S : env.time[m] <= t}

\* Deviation (mutation runs): the new cursor is the newest timestamp of the store.
Mut_FetchToNewest(b) ==
  /\ pc[b] = "poll"
  /\ \E R \in Fetched(b), t \in Latest(Candidates(b), Since(b)) :
       /\ batch' = [batch EXCEPT ![b] = {m \in R : env.kind[m] # "blank"}]
       /\ newCursor' = [newCursor EXCEPT ![b] = t]
  /\ Goto(b, "next")
  /\ UNCHANGED <<tables, cursors, phase, cur, cooling, histVars>>

\* _fetch_new_messages and _fetch_outgoing_escort_completions: rows without a text
\* are dropped and do not move the cursor.
Fetch(b) ==
  /\ pc[b] = "poll"
  /\ \E R \in Fetched(b) : LET S == {m \in R : env.kind[m] # "blank"} IN
       \E t \in Latest(S, Since(b)) :
         /\ batch' = [batch EXCEPT ![b] = S]
         /\ newCursor' = [newCursor EXCEPT ![b] = t]
  /\ Goto(b, "next")
  /\ UNCHANGED <<tables, cursors, phase, cur, cooling, histVars>>

\* An error of SQLite is logged and yields no rows.
FetchFails(b) ==
  /\ env.failures
  /\ pc[b] = "poll"
  /\ newCursor' = [newCursor EXCEPT ![b] = Since(b)]
  /\ Goto(b, "next")
  /\ UNCHANGED <<tables, cursors, phase, batch, cur, cooling, histVars>>

\* _is_processed, _is_outgoing_processed.
CheckProcessed(b) ==
  /\ pc[b] = "next"
  /\ \E m \in batch[b] :
       /\ \A n \in batch[b] : env.time[m] <= env.time[n]
       /\ batch' = [batch EXCEPT ![b] = @ \ {m}]
       /\ IF m \in processed THEN UNCHANGED <<pc, cur>> ELSE Goto(b, "mark") /\ Take(b, m)
  /\ UNCHANGED <<tables, cursors, phase, newCursor, cooling, histVars>>

\* Deviation (mutation runs): the mark is left for later.
Mut_MarkNothing(b) ==
  /\ pc[b] = "mark"
  /\ Goto(b, IF phase[b] = "in" THEN "save" ELSE "route")
  /\ UNCHANGED <<tables, cursors, fetchVars, cur, cooling, histVars>>

\* INSERT ... ON CONFLICT DO NOTHING; whether it inserted is not looked at.
MarkProcessed(b) ==
  /\ pc[b] = "mark"
  /\ processed' = processed \cup {cur[b]}
  /\ Goto(b, IF phase[b] = "in" THEN "save" ELSE "route")
  /\ UNCHANGED <<store, saved, ingested, cursors, fetchVars, cur, cooling, histVars>>

AfterSave(b) ==
  CASE env.kind[cur[b]] = "unresolved" -> "next"
    [] env.kind[cur[b]] # "unresolved" /\ env.single -> "ingest"
    [] env.kind[cur[b]] # "unresolved" /\ ~env.single -> "gate"

\* _save_message catches its exceptions.
SaveMessage(b) ==
  /\ pc[b] = "save"
  /\ saved' = Inc(saved, cur[b]) \/ (env.failures /\ UNCHANGED saved)
  /\ Goto(b, AfterSave(b))
  /\ UNCHANGED <<store, processed, ingested, cursors, fetchVars, cur, cooling, histVars>>

IngestSocial(b) ==
  /\ pc[b] = "ingest"
  /\ ingested' = ingested \cup {cur[b]} \/ (env.failures /\ UNCHANGED ingested)
  /\ Goto(b, "next")
  /\ UNCHANGED <<store, processed, saved, cursors, fetchVars, cur, cooling, histVars>>

\* _can_reply; then a flood of words, or words that are quarantined as a draft.
CheckCooldown(b) ==
  /\ pc[b] = "gate"
  /\ Goto(b, "next") \/ (PhoneOf[cur[b]] \notin cooling /\ Goto(b, "route"))
  /\ UNCHANGED <<tables, cursors, fetchVars, cur, cooling, histVars>>

\* process_message; for a sent message the release confirmation or the escort
\* completion, whose exceptions are caught.
ProcessMessage(b) ==
  /\ pc[b] = "route"
  /\ handled' = Inc(handled, cur[b])
  /\ Goto(b, "next") \/ (phase[b] = "in" /\ Goto(b, "reply"))
  /\ UNCHANGED <<tables, cursors, fetchVars, cur, cooling, replied, calls>>

\* bridge.send, then _record_reply.
SendReply(b) ==
  /\ pc[b] = "reply"
  /\ replied' = Inc(replied, cur[b])
  /\ cooling' = cooling \cup {PhoneOf[cur[b]]}
  /\ Goto(b, "next")
  /\ UNCHANGED <<tables, cursors, fetchVars, cur, handled, calls>>

\* One of the gates makes it a draft, or the send fails: then there is neither a
\* reply nor a draft.
KeepReply(b) ==
  /\ pc[b] = "reply"
  /\ Goto(b, "next")
  /\ UNCHANGED <<tables, cursors, fetchVars, cur, cooling, histVars>>

NextPhase(b) == [phase EXCEPT ![b] = IF @ = "in" /\ b = OutBridge THEN "out" ELSE "in"]

\* The batch is done; a newer cursor is first taken over by the poller itself.
AdvanceCursor(b) ==
  /\ pc[b] = "next" /\ batch[b] = {}
  /\ Take(b, NoMsg)
  /\ IF newCursor[b] > Since(b)
     THEN /\ cursor' = IF phase[b] = "in" THEN [cursor EXCEPT ![b] = newCursor[b]] ELSE cursor
          /\ Goto(b, "advance") /\ UNCHANGED phase
     ELSE phase' = NextPhase(b) /\ Goto(b, "poll") /\ UNCHANGED cursor
  /\ UNCHANGED <<tables, cursorDB, outCursor, batch, newCursor, cooling, histVars>>

SetCursor(b) ==
  /\ pc[b] = "advance"
  /\ IF phase[b] = "in"
     THEN cursorDB' = [cursorDB EXCEPT ![b] = newCursor[b]] /\ UNCHANGED outCursor
     ELSE outCursor' = newCursor[b] /\ UNCHANGED cursorDB
  /\ phase' = NextPhase(b) /\ Goto(b, "poll")
  /\ UNCHANGED <<tables, cursor, batch, newCursor, cur, cooling, histVars>>

\* Deviation (mutation runs): the cursor moves although the rest was not looked at.
Mut_RaiseAdvances(b) ==
  /\ env.failures
  /\ pc[b] \in {"next", "mark", "save", "gate", "route", "reply", "advance"}
  /\ cursor' = IF phase[b] = "in" THEN [cursor EXCEPT ![b] = newCursor[b]] ELSE cursor
  /\ batch' = [batch EXCEPT ![b] = {}] /\ Take(b, NoMsg)
  /\ phase' = [phase EXCEPT ![b] = "in"]
  /\ Goto(b, "poll")
  /\ UNCHANGED <<tables, cursorDB, outCursor, newCursor, cooling, histVars>>

\* An exception ends this round: the rest of the batch is fetched again.  Before the
\* message is saved it may be one of detect_identity.
PollRaises(b) ==
  /\ env.failures
  /\ pc[b] \in {"next", "mark", "save", "gate", "route", "reply", "advance"}
  /\ batch' = [batch EXCEPT ![b] = {}] /\ Take(b, NoMsg)
  /\ phase' = [phase EXCEPT ![b] = "in"]
  /\ Goto(b, "poll")
  /\ UNCHANGED <<tables, cursors, newCursor, cooling, histVars>>

-----------------------------------------------------------------------------
(* _handle_bridge_event *)

HookStart(h, m) ==
  /\ pc[h] = "idle" /\ h \in env.hooks /\ calls < MaxCalls
  /\ m \in InMsgs /\ env.kind[m] # "blank" /\ BridgeOf[m] \in env.polling
  /\ calls' = calls + 1
  /\ Take(h, m) /\ Goto(h, "hook_check")
  /\ UNCHANGED <<tables, cursors, fetchVars, cooling, handled, replied>>

HookDone(h) == Take(h, NoMsg) /\ Goto(h, "idle")

HookCheck(h) ==
  /\ pc[h] = "hook_check"
  /\ IF cur[h] \in processed THEN HookDone(h) ELSE Goto(h, "hook_mark") /\ UNCHANGED cur
  /\ UNCHANGED <<tables, cursors, fetchVars, cooling, histVars>>

HookMark(h) ==
  /\ pc[h] = "hook_mark"
  /\ processed' = processed \cup {cur[h]}
  /\ Goto(h, "hook_save")
  /\ UNCHANGED <<store, saved, ingested, cursors, fetchVars, cur, cooling, histVars>>

\* "dedup check unavailable": the message is handled without it.
HookUnmarked(h) ==
  /\ env.failures
  /\ pc[h] \in {"hook_check", "hook_mark"}
  /\ Goto(h, "hook_save")
  /\ UNCHANGED <<tables, cursors, fetchVars, cur, cooling, histVars>>

\* _save_message catches its exceptions, so that the branch that takes the mark
\* back is never entered.
HookSave(h) ==
  /\ pc[h] = "hook_save"
  /\ saved' = Inc(saved, cur[h]) \/ (env.failures /\ UNCHANGED saved)
  /\ Goto(h, "hook_ingest")
  /\ UNCHANGED <<store, processed, ingested, cursors, fetchVars, cur, cooling, histVars>>

\* The social auto reply gets the message whichever engine replies; a bridge that
\* is no reply source goes no further.
HookIngest(h) ==
  /\ pc[h] = "hook_ingest"
  /\ ingested' = ingested \cup {cur[h]} \/ (env.failures /\ UNCHANGED ingested)
  /\ HookDone(h) \/ (~env.single /\ Goto(h, "hook_route") /\ UNCHANGED cur)
  /\ UNCHANGED <<store, processed, saved, cursors, fetchVars, cooling, histVars>>

\* No cooldown here.
HookProcess(h) ==
  /\ pc[h] = "hook_route"
  /\ handled' = Inc(handled, cur[h])
  /\ HookDone(h) \/ (Goto(h, "hook_reply") /\ UNCHANGED cur)
  /\ UNCHANGED <<tables, cursors, fetchVars, cooling, replied, calls>>

\* Sent, or drafted or lost; the cooldown is not told.
HookReply(h) ==
  /\ pc[h] = "hook_reply"
  /\ replied' = Inc(replied, cur[h]) \/ UNCHANGED replied
  /\ HookDone(h)
  /\ UNCHANGED <<tables, cursors, fetchVars, cooling, handled, calls>>

\* Routing raises and the request fails.
HookRaises(h) ==
  /\ env.failures
  /\ pc[h] \in {"hook_route", "hook_reply"}
  /\ HookDone(h)
  /\ UNCHANGED <<tables, cursors, fetchVars, cooling, histVars>>

-----------------------------------------------------------------------------
(* time and restarts *)

CooldownElapses(p) ==
  /\ p \in cooling
  /\ cooling' = cooling \ {p}
  /\ UNCHANGED <<tables, cursors, fetchVars, pc, cur, handled, replied, calls>>

\* The process dies and starts again: what it kept in memory is gone.
Crash ==
  /\ env.crashes
  /\ pc' = [a \in Actors |-> IF a \in Bridges THEN "start" ELSE "idle"]
  /\ cur' = [a \in Actors |-> NoMsg]
  /\ batch' = [b \in Bridges |-> {}] /\ phase' = [b \in Bridges |-> "in"]
  /\ cooling' = {}
  /\ UNCHANGED <<tables, cursors, newCursor, histVars>>

PollStep(b) ==
  \/ StartPoller(b) \/ StartFails(b) \/ Fetch(b) \/ FetchFails(b)
  \/ CheckProcessed(b) \/ MarkProcessed(b) \/ SaveMessage(b) \/ IngestSocial(b)
  \/ CheckCooldown(b) \/ ProcessMessage(b) \/ SendReply(b) \/ KeepReply(b)
  \/ AdvanceCursor(b) \/ SetCursor(b) \/ PollRaises(b)

HookStep(h) ==
  \/ HookCheck(h) \/ HookMark(h) \/ HookUnmarked(h) \/ HookSave(h) \/ HookIngest(h)
  \/ HookProcess(h) \/ HookReply(h) \/ HookRaises(h)

Step ==
  \/ \E m \in Msgs : Arrive(m)
  \/ \E b \in Bridges : PollStep(b)
  \/ \E h \in Hooks : HookStep(h) \/ \E m \in InMsgs : HookStart(h, m)
  \/ \E p \in Phones : CooldownElapses(p)
  \/ Crash

Next == Step /\ UNCHANGED env

\* The pollers' loops and the requests go on and what they await returns.
Fairness ==
  /\ \A b \in Bridges : WF_state(PollStep(b))
  /\ \A h \in Hooks : WF_state(HookStep(h))

Spec == Init /\ [][Next]_vars
FairSpec == Spec /\ Fairness

-----------------------------------------------------------------------------
(* Properties *)

TypeOK ==
  /\ store \in SUBSET Msgs /\ processed \in SUBSET Msgs /\ ingested \in SUBSET InMsgs
  /\ saved \in [InMsgs -> Nat]
  /\ cursorDB \in [Bridges -> 0..MaxTime] /\ outCursor \in 0..MaxTime
  /\ cursor \in [Bridges -> 0..MaxTime]
  /\ phase \in [Bridges -> {"in", "out"}]
  /\ batch \in [Bridges -> SUBSET Msgs] /\ newCursor \in [Bridges -> 0..MaxTime]
  /\ pc \in [Actors -> {"start", "dead", "poll", "next", "mark", "save", "ingest", "gate",
                        "route", "reply", "advance", "idle", "hook_check", "hook_mark",
                        "hook_save", "hook_ingest", "hook_route", "hook_reply"}]
  /\ cur \in [Actors -> Msgs \cup {NoMsg}]
  /\ \A b \in Bridges : phase[b] = "out" => b = OutBridge
  /\ cooling \in SUBSET Phones
  /\ handled \in [Msgs -> Nat] /\ replied \in [Msgs -> Nat]
  /\ calls \in 0..MaxCalls
  /\ env \in Environments

\* Without webhooks a message starts its workflow once at most and gets one reply
\* at most, although a restart or an exception makes the poller read it again.
PolledOnce == env.hooks = {} => \A m \in Msgs : handled[m] <= 1 /\ replied[m] <= 1

Stream(b, m) == BridgeOf[m] = b /\ env.kind[m] # "blank" /\ m \in store

\* While the stores fill in the order of the timestamps, no message lies behind a
\* cursor unread: neither a restart nor an exception in the middle of a batch, nor a
\* webhook, nor the limit of the query leaves a gap.
NoGap ==
  env.ordered =>
    \A b \in Bridges, m \in Msgs :
      Stream(b, m) /\ (IF m \in InMsgs THEN env.time[m] <= cursorDB[b] \/ env.time[m] <= cursor[b]
                                       ELSE env.time[m] <= outCursor)
        => m \in processed

\* While nothing fails and the stores fill in order, every message that was sent to a
\* bridge is saved, and every one the admin sent from it is looked at.
StoredIsTakenUp ==
  \A m \in Msgs :
    (env.ordered /\ ~env.failures /\ ~env.crashes /\ m \in store /\ env.kind[m] # "blank")
      ~> (IF m \in InMsgs THEN saved[m] > 0 ELSE handled[m] > 0)
=============================================================================
