------------------------------ MODULE Bridges ------------------------------
(***************************************************************************)
(* shared/bridge_orchestrator.py: the health of the two WhatsApp bridges,  *)
(* sending with failover, the in-memory retry queue and the content-based  *)
(* deduplication of messages that both bridges deliver.                    *)
(*                                                                         *)
(* The queue is one list that three kinds of task change while they await  *)
(* the bridge: the retry loop, and the drain at the end of every probe     *)
(* that saw outage -> healthy.  Each iterates over a snapshot of its own.  *)
(* list.remove of an item that is gone raises ValueError: it ends a drain  *)
(* (probe_all's caller logs it), and it ends the retry task, whose loop    *)
(* catches only BridgeSendError.                                           *)
(*                                                                         *)
(* Clock values are abstract: that a back-off, OUTAGE_THRESHOLD_S or       *)
(* DEDUP_TTL_S has passed is a step of its own.                            *)
(***************************************************************************)
EXTENDS Naturals, Sequences, FiniteSets, FiniteSetsExt, SequencesExt

CONSTANTS
  Notices,             \* the messages given to send_with_failover
  Copies,              \* inbound messages, each delivered by both bridges
  Probers,             \* who calls probe_all: the health loop, the healer or an admin
  RETRY_MAX_ATTEMPTS   \* failed sends after which a queued item is dropped

VARIABLES
  health,     \* _health[b].state
  lapsed,     \* bridges without a healthy probe for OUTAGE_THRESHOLD_S
  probe,      \* each prober's probe of each bridge: its position and its drain's snapshot
  sending,    \* per notice: the bridges send_with_failover still has to try
  retryQueue, \* _retry_queue: notices, oldest first
  target,     \* the item's bridge_name
  attempt,    \* the item's attempt counter
  due,        \* items whose next_retry_at has passed
  retry,      \* the retry loop: its position and its snapshot of due items
  delivered,  \* how often a bridge accepted the notice (history)
  dedup,      \* live entries of _dedup_local
  passed      \* inbound copies that were not skipped (history)

queueVars == <<retryQueue, target, attempt, due, delivered>>
dedupVars == <<dedup, passed>>
bridgeVars == <<health, lapsed, probe, sending, queueVars, retry, dedupVars>>

Bridge == {"bridge1", "bridge2"}
Other(b) == CHOOSE c \in Bridge : c # b
Idle == [pc |-> "idle", prev |-> "healthy", left |-> <<>>]

BridgesInit ==
  /\ health = [b \in Bridge |-> "healthy"]
  /\ lapsed = {}
  /\ probe = [p \in Probers, b \in Bridge |-> Idle]
  /\ sending = [n \in Notices |-> <<>>]
  /\ retryQueue = <<>>
  /\ target = [n \in Notices |-> "bridge2"]
  /\ attempt = [n \in Notices |-> 0]
  /\ due = {}
  /\ retry = [pc |-> "sleep", left |-> <<>>]
  /\ delivered = [n \in Notices |-> 0]
  /\ dedup = {}
  /\ passed = <<>>

Queued == ToSet(retryQueue)
Without(n) == SelectSeq(retryQueue, LAMBDA m : m # n)

-----------------------------------------------------------------------------
(* register_message *)

\* _dedup_key: the sender, the text and the five-minute bucket of the message's
\* own timestamp, not the bridge nor its message id.
DedupKey(m, bucket) == <<m, bucket>>

\* The message of bridge b is processed unless its key is live.
RegisterMessage(b, m, bucket) ==
  /\ ~\E i \in DOMAIN passed : passed[i].bridge = b /\ passed[i].msg = m
  /\ DedupKey(m, bucket) \notin dedup
  /\ dedup' = dedup \cup {DedupKey(m, bucket)}
  /\ passed' = Append(passed, [bridge |-> b, msg |-> m])
  /\ UNCHANGED <<health, lapsed, probe, sending, queueVars, retry>>

\* _is_duplicate_local and _dedup_sweep: an expired entry counts as none.
DedupExpires(k) ==
  /\ k \in dedup
  /\ dedup' = dedup \ {k}
  /\ UNCHANGED <<health, lapsed, probe, sending, queueVars, retry, passed>>

-----------------------------------------------------------------------------
(* send_with_failover *)

\* The loop skips bridges in outage; what is left starts with the one it awaits.
SkipOutage(order) ==
  LET usable == {i \in DOMAIN order : health[order[i]] # "outage"}
  IN IF usable = {} THEN <<>> ELSE SubSeq(order, Min(usable), Len(order))

\* _enqueue_retry for the preferred bridge, when every bridge failed or was skipped.
Enqueue(n, b) ==
  /\ retryQueue' = Append(retryQueue, n)
  /\ target' = [target EXCEPT ![n] = b]
  /\ attempt' = [attempt EXCEPT ![n] = 0]
  /\ due' = due \ {n}
  /\ UNCHANGED delivered

TryNext(n, b, order) ==
  /\ sending' = [sending EXCEPT ![n] = SkipOutage(order)]
  /\ IF SkipOutage(order) = <<>> THEN Enqueue(n, b) ELSE UNCHANGED queueVars

\* The preferred bridge first, then the other one (send_to_admin: bridge2 first).
SendWithFailover(n, b) ==
  /\ sending[n] = <<>> /\ n \notin Queued /\ delivered[n] = 0 /\ attempt[n] = 0
  /\ TryNext(n, b, <<b, Other(b)>>)
  /\ UNCHANGED <<health, lapsed, probe, retry, dedupVars>>

SendAccepted(n) ==
  /\ sending[n] # <<>>
  /\ delivered' = [delivered EXCEPT ![n] = @ + 1]
  /\ sending' = [sending EXCEPT ![n] = <<>>]
  /\ UNCHANGED <<health, lapsed, probe, retryQueue, target, attempt, due, retry, dedupVars>>

\* BridgeSendError: the next bridge, or the retry queue.
SendRefused(n) ==
  /\ sending[n] # <<>>
  /\ TryNext(n, IF Len(sending[n]) = 2 THEN Head(sending[n]) ELSE Other(Head(sending[n])),
             Tail(sending[n]))
  /\ UNCHANGED <<health, lapsed, probe, retry, dedupVars>>

-----------------------------------------------------------------------------
(* _retry_loop *)

\* The pass up to its next await: items at the limit are removed without a send.
\* Removing one that a drain has already removed raises.
Resume(left, q) ==
  LET sendable == {i \in DOMAIN left : attempt'[left[i]] < RETRY_MAX_ATTEMPTS}
      stop == IF sendable = {} THEN Len(left) + 1 ELSE Min(sendable)
      missing == {i \in 1..(stop - 1) : left[i] \notin ToSet(q)}
      removed == {left[i] : i \in {j \in 1..(stop - 1) : \A k \in missing : j < k}}
  IN /\ retryQueue' = SelectSeq(q, LAMBDA m : m \notin removed)
     /\ retry' = IF missing # {} THEN [pc |-> "dead", left |-> <<>>]
                 ELSE [pc |-> IF sendable = {} THEN "sleep" ELSE "send",
                       left |-> SubSeq(left, stop, Len(left))]

\* A pass over the items that are due now.
RetryPass ==
  /\ retry.pc = "sleep"
  /\ SelectSeq(retryQueue, LAMBDA n : n \in due) # <<>>
  /\ UNCHANGED <<attempt, target, due, delivered>>
  /\ Resume(SelectSeq(retryQueue, LAMBDA n : n \in due), retryQueue)
  /\ UNCHANGED <<health, lapsed, probe, sending, dedupVars>>

RetryAccepted ==
  /\ retry.pc = "send"
  /\ LET n == Head(retry.left) IN
       /\ delivered' = [delivered EXCEPT ![n] = @ + 1]
       /\ UNCHANGED <<attempt, target, due>>
       /\ IF n \in Queued
          THEN Resume(Tail(retry.left), Without(n))
          ELSE retry' = [pc |-> "dead", left |-> <<>>] /\ UNCHANGED retryQueue
  /\ UNCHANGED <<health, lapsed, probe, sending, dedupVars>>

\* BridgeSendError: one more attempt, after RETRY_BACKOFF_S.
RetryRefused ==
  /\ retry.pc = "send"
  /\ LET n == Head(retry.left) IN
       /\ attempt' = [attempt EXCEPT ![n] = @ + 1]
       /\ due' = due \ {n}
       /\ UNCHANGED <<target, delivered>>
       /\ Resume(Tail(retry.left), retryQueue)
  /\ UNCHANGED <<health, lapsed, probe, sending, dedupVars>>

\* Deviation (mutation runs): the back-off of a refused item never ends.
Mut_BackoffForEver(n) == FALSE /\ n \in Queued /\ UNCHANGED bridgeVars

BackoffElapses(n) ==
  /\ n \in Queued \ due
  /\ due' = due \cup {n}
  /\ UNCHANGED <<health, lapsed, probe, sending, retryQueue, target, attempt, delivered, retry, dedupVars>>

-----------------------------------------------------------------------------
(* _probe_bridge and the drain *)

\* probe_all starts both probes; each reads the state before it awaits status().
ProbeAll(p) ==
  /\ \A b \in Bridge : probe[p, b] = Idle
  /\ probe' = [q \in Probers, b \in Bridge |->
                 IF q = p THEN [Idle EXCEPT !.pc = "status", !.prev = health[b]] ELSE probe[q, b]]
  /\ UNCHANGED <<health, lapsed, sending, queueVars, retry, dedupVars>>

\* _record_probe_result of an answer, which may be slow (LAG_DEGRADED_MS); then
\* _drain_retry_for_bridge when this probe saw the bridge leave outage.
ProbeAnswered(p, b, slow) ==
  /\ probe[p, b].pc = "status"
  /\ health' = [health EXCEPT ![b] = IF slow THEN "degraded" ELSE "healthy"]
  /\ lapsed' = lapsed \ {b}
  /\ LET mine == SelectSeq(retryQueue, LAMBDA n : target[n] = b)
         drains == probe[p, b].prev = "outage" /\ ~slow /\ mine # <<>>
     IN probe' = [probe EXCEPT ![<<p, b>>] =
                    IF drains THEN [Idle EXCEPT !.pc = "drain", !.left = mine] ELSE Idle]
  /\ UNCHANGED <<sending, queueVars, retry, dedupVars>>

\* _record_probe_result of an error.
ProbeFailed(p, b) ==
  /\ probe[p, b].pc = "status"
  /\ health' = [health EXCEPT ![b] = IF b \in lapsed THEN "outage" ELSE "degraded"]
  /\ probe' = [probe EXCEPT ![<<p, b>>] = Idle]
  /\ UNCHANGED <<lapsed, sending, queueVars, retry, dedupVars>>

OutageThresholdPasses(b) ==
  /\ b \notin lapsed
  /\ lapsed' = lapsed \cup {b}
  /\ UNCHANGED <<health, probe, sending, queueVars, retry, dedupVars>>

DrainNext(p, b) ==
  LET left == Tail(probe[p, b].left)
  IN probe' = [probe EXCEPT ![<<p, b>>] = IF left = <<>> THEN Idle ELSE [@ EXCEPT !.left = left]]

\* remove raises when another task has removed the item: the drain is over.
DrainAccepted(p, b) ==
  /\ probe[p, b].pc = "drain"
  /\ LET n == Head(probe[p, b].left) IN
       /\ delivered' = [delivered EXCEPT ![n] = @ + 1]
       /\ retryQueue' = Without(n)
       /\ IF n \in Queued THEN DrainNext(p, b) ELSE probe' = [probe EXCEPT ![<<p, b>>] = Idle]
  /\ UNCHANGED <<health, lapsed, sending, target, attempt, due, retry, dedupVars>>

\* A refused send counts; the last attempt removes the item.
DrainRefused(p, b) ==
  /\ probe[p, b].pc = "drain"
  /\ LET n == Head(probe[p, b].left)
         spent == attempt[n] + 1 >= RETRY_MAX_ATTEMPTS
     IN /\ attempt' = [attempt EXCEPT ![n] = @ + 1]
        /\ retryQueue' = IF spent THEN Without(n) ELSE retryQueue
        /\ IF spent /\ n \notin Queued
           THEN probe' = [probe EXCEPT ![<<p, b>>] = Idle]
           ELSE DrainNext(p, b)
  /\ UNCHANGED <<health, lapsed, sending, target, due, delivered, retry, dedupVars>>

RetryStep == RetryPass \/ RetryAccepted \/ RetryRefused

StatusStep(p, b) == ProbeFailed(p, b) \/ \E slow \in BOOLEAN : ProbeAnswered(p, b, slow)

DrainStep(p, b) == DrainAccepted(p, b) \/ DrainRefused(p, b)

\* The bridges in faulty may fail; the others answer every probe at once.
ProbesNext(probers, faulty) ==
  \/ \E p \in probers, b \in Bridge :
       IF b \in faulty THEN StatusStep(p, b) ELSE ProbeAnswered(p, b, FALSE)
  \/ \E b \in faulty : OutageThresholdPasses(b)

SendsNext(notices, preferred) ==
  \/ \E n \in notices :
       \/ \E b \in preferred : SendWithFailover(n, b)
       \/ SendAccepted(n) \/ SendRefused(n) \/ BackoffElapses(n)
  \/ RetryStep

InboundNext ==
  \/ \E b \in Bridge, m \in Copies, k \in 0..1 : RegisterMessage(b, m, k)
  \/ \E k \in dedup : DedupExpires(k)

(* A bridge answers or its HTTP call times out, and the timers of the loop fire. *)
BridgesFairness ==
  /\ WF_bridgeVars(RetryStep)
  /\ \A n \in Notices : WF_bridgeVars(BackoffElapses(n))

-----------------------------------------------------------------------------

\* "queued messages are drained": every queued notice leaves the queue, and only
\* because a bridge took it or because RETRY_MAX_ATTEMPTS sends failed, whatever
\* the order in which the retry loop and the drains of overlapping probes remove
\* and count it, unless a drain and the retry loop sent the same item and the
\* loop's second remove ended the retry task.
RetrySettles ==
  /\ [][\A n \in Notices : n \in Queued /\ n \notin ToSet(retryQueue') =>
         delivered'[n] > 0 \/ attempt'[n] >= RETRY_MAX_ATTEMPTS]_bridgeVars
  /\ \A n \in Notices : n \in Queued ~> (n \notin Queued \/ retry.pc = "dead")

=============================================================================
