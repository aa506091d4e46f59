----------------------------- MODULE SocialReply -----------------------------
(***************************************************************************)
(* The social auto reply (modules/social_auto_reply): inbound messages of  *)
(* all channels become rows of social_inbox_events; a daemon groups the    *)
(* pending rows of a conversation, plans one reply for them and puts it    *)
(* into social_reply_queue; a sweep sends the queue.  The daemon runs in   *)
(* the main application and in a service of its own, so that there may be  *)
(* two, and POST /api/social/retry sweeps too.                             *)
(*                                                                         *)
(* A row of the queue is named after the event its idempotency key holds.  *)
(* Not modelled: the wording of the replies (a reply is found or not), the *)
(* column classification, which the planner recomputes, social_sent_log    *)
(* and social_retry_queue, which decide nothing, and social_flagged_items, *)
(* which nothing writes.  The LIMIT of the planner exceeds Threads.        *)
(***************************************************************************)
EXTENDS Naturals, FiniteSets

CONSTANTS
  Events,          \* messages that may arrive
  Threads,         \* conversations: a platform and a target, which is the comment
                   \* for a Facebook comment and the sender elsewhere
  ThreadOf,        \* the conversation of an event
  TargetOf,        \* the target of a conversation; a sender may be one on two platforms
  IntentOf,        \* what classify_message finds in an event
  Unlisted,        \* intents that _INTENT_PRIORITY does not list
  Daemons, Apis,   \* planner processes, retry requests
  MaxAttempts,     \* social_reply_queue.max_attempts
  MaxRetries,      \* bound: retries asked for through the API
  Environments,    \* what may go wrong, who runs, which messages arrive and what they are
  NoRow

Sweepers == Daemons \cup Apis
KindSet == {"recruiting", "escalation", "other"}

ASSUME ConstantsAssumption ==
  /\ ThreadOf \in [Events -> Threads]
  /\ Daemons \cap Apis = {} /\ IsFiniteSet(Daemons)
  /\ MaxAttempts \in Nat \ {0} /\ MaxRetries \in Nat
  /\ Environments \subseteq [failures : BOOLEAN, crashes : BOOLEAN,
                             running : SUBSET (Daemons \cup Apis),
                             arrives : SUBSET Events, kind : [Events -> KindSet]]
  /\ NoRow \notin Events

VARIABLES
  inbox,      \* reply_status of an event
  stored,     \* events ingest_social_event has taken out of the planner's hands
  answered,   \* social_thread_state.answered_intents
  qstat, qatt, qevs,    \* a queue row: status, attempts, combined_event_ids,
  qorder, fresh,        \*   order of the unlisted intents, created within the cooldown
  pc, todo, claimed,    \* of a daemon: threads still to plan, events being planned,
  order,                \*   order of the unlisted intents in its plan
  row, attempt,         \* of a sweep: the row at hand and its attempt number
  cooling, paused,      \* next_allowed_at lies ahead; the daemon is paused
  delivered, retries,   \* history: deliveries of a row, retries asked for
  env                   \* fixed by the initial state

inboxVars == <<inbox, stored, answered>>
queueVars == <<qstat, qatt, qevs, qorder, fresh>>
planVars == <<todo, claimed, order>>
sendVars == <<row, attempt>>
flagVars == <<cooling, paused>>
histVars == <<delivered, retries>>
state == <<inboxVars, queueVars, pc, planVars, sendVars, flagVars, histVars>>
vars == <<state, env>>

Calm == ~env.failures /\ ~env.crashes
Goto(s, l) == pc' = [pc EXCEPT ![s] = l]
SetStatus(S, st) == inbox' = [e \in Events |-> IF e \in S THEN st ELSE inbox[e]]
Intents(S) == {IntentOf[e] : e \in S}
Target(e) == TargetOf[ThreadOf[e]]

\* plan.intent joins the intents: the listed ones by priority, then the others in the
\* order of their events.  The set of the intents and an order of the unlisted ones
\* therefore stand for it.
Orders(U) ==
  {R \in SUBSET (U \X U) :
     /\ \A i \in U : <<i, i>> \notin R
     /\ \A i, j \in U : i # j => (<<i, j>> \in R <=> <<j, i>> \notin R)
     /\ \A i, j, k \in U : <<i, j>> \in R /\ <<j, k>> \in R => <<i, k>> \in R}

Init ==
  /\ inbox = [e \in Events |-> "absent"]
  /\ stored = {}
  /\ answered = [t \in Threads |-> {}]
  /\ qstat = [r \in Events |-> "absent"]
  /\ qatt = [r \in Events |-> 0]
  /\ qevs = [r \in Events |-> {}]
  /\ qorder = [r \in Events |-> {}]
  /\ fresh = [r \in Events |-> FALSE]
  /\ pc = [s \in Sweepers |-> "idle"]
  /\ todo = [s \in Sweepers |-> {}]
  /\ claimed = [s \in Sweepers |-> {}]
  /\ order = [s \in Sweepers |-> {}]
  /\ row = [s \in Sweepers |-> NoRow]
  /\ attempt = [s \in Sweepers |-> 0]
  /\ cooling = FALSE /\ paused = FALSE
  /\ delivered = [r \in Events |-> 0]
  /\ retries = 0
  /\ env \in Environments

-----------------------------------------------------------------------------
(* ingest_social_event: a webhook, a poller or the backlog scan *)

\* INSERT ... ON CONFLICT (event_key) DO NOTHING: a message delivered again
\* finds its row and changes nothing.
Ingest(e) ==
  /\ e \in env.arrives /\ inbox[e] = "absent"
  /\ inbox' = [inbox EXCEPT ![e] = "pending"]
  /\ UNCHANGED <<stored, answered, queueVars, pc, planVars, sendVars, flagVars, histVars>>

\* The UPDATE that follows, whatever the planner has made of the row meanwhile.
\* Of a recruiting message it sets the classification only.
Classify(e) ==
  /\ inbox[e] # "absent" /\ e \notin stored
  /\ env.kind[e] # "recruiting"
  /\ stored' = stored \cup {e}
  /\ inbox' = [inbox EXCEPT ![e] = IF env.kind[e] = "escalation" THEN "needs_admin" ELSE "ignored"]
  /\ UNCHANGED <<answered, queueVars, pc, planVars, sendVars, flagVars, histVars>>

-----------------------------------------------------------------------------
(* process_due_threads *)

\* pending_threads, read once per pass; a paused daemon does not start one.  A
\* conversation counts once its first message is SOCIAL_REPLY_COMPRESSION_S old.
ReadThreads(d) ==
  /\ pc[d] = "idle" /\ d \in env.running /\ ~paused
  /\ \E S \in SUBSET {ThreadOf[e] : e \in {x \in Events : inbox[x] = "pending"}} :
       todo' = [todo EXCEPT ![d] = S]
  /\ Goto(d, "threads")
  /\ UNCHANGED <<inboxVars, queueVars, claimed, order, sendVars, flagVars, histVars>>

\* Deviation (mutation runs): events another daemon is planning are claimed too.
Mut_ClaimableAnyPlanned(t) == {e \in Events : ThreadOf[e] = t /\ inbox[e] \in {"pending", "planning"}}

\* pending_events claims everything that is pending in the conversation, also
\* what arrived a moment ago.
Claimable(t) == {e \in Events : ThreadOf[e] = t /\ inbox[e] = "pending"}

\* Deviation (mutation runs): one recruiting message is enough.
Mut_SomeRecruiting(S) == \E e \in S : env.kind[e] = "recruiting"

AllRecruiting(S) == \A e \in S : env.kind[e] = "recruiting"

\* The claim, and the gate: the planner classifies the messages itself.
ClaimThread(d, t) ==
  /\ pc[d] = "threads" /\ t \in todo[d]
  /\ todo' = [todo EXCEPT ![d] = @ \ {t}]
  /\ LET S == Claimable(t) IN
       /\ claimed' = [claimed EXCEPT ![d] = S]
       /\ SetStatus(S, "planning")
       /\ Goto(d, CASE S = {} -> "threads"
                    [] S # {} /\ AllRecruiting(S) -> "plan"
                    [] S # {} /\ ~AllRecruiting(S) -> "ignore")
  /\ UNCHANGED <<stored, answered, order, queueVars, sendVars, flagVars, histVars>>

\* plan_reply found a reply; the intents count as answered from now on.  Its events
\* come in any order, for UPDATE ... RETURNING promises none.
PlanReply(d) ==
  /\ pc[d] = "plan"
  /\ \E t \in Threads :
       /\ \A e \in claimed[d] : ThreadOf[e] = t
       /\ answered' = [answered EXCEPT ![t] = @ \cup Intents(claimed[d])]
  /\ \E R \in Orders(Intents(claimed[d]) \cap Unlisted) : order' = [order EXCEPT ![d] = R]
  /\ Goto(d, "cooldown")
  /\ UNCHANGED <<inbox, stored, queueVars, todo, claimed, sendVars, flagVars, histVars>>

\* There is a risk in the conversation, or no safe reply.
PlanNothing(d) ==
  /\ pc[d] = "plan"
  /\ Goto(d, "ignore")
  /\ UNCHANGED <<inboxVars, queueVars, planVars, sendVars, flagVars, histVars>>

Drop(d) == claimed' = [claimed EXCEPT ![d] = {}] /\ order' = [order EXCEPT ![d] = {}]

\* plan_reply raised: the events are given back and the exception ends the pass.
PlanRaises(d) ==
  /\ env.failures
  /\ pc[d] = "plan"
  /\ SetStatus(claimed[d], "pending")
  /\ Drop(d) /\ todo' = [todo EXCEPT ![d] = {}]
  /\ Goto(d, "idle")
  /\ UNCHANGED <<stored, answered, queueVars, sendVars, flagVars, histVars>>

\* Deviation (mutation runs): the status is not written.
Mut_MarkNothing(d) ==
  /\ pc[d] = "ignore"
  /\ Drop(d) /\ Goto(d, "threads")
  /\ UNCHANGED <<inboxVars, todo, queueVars, sendVars, flagVars, histVars>>

MarkIgnored(d) ==
  /\ pc[d] = "ignore"
  /\ SetStatus(claimed[d], "ignored")
  /\ Drop(d) /\ Goto(d, "threads")
  /\ UNCHANGED <<stored, answered, todo, queueVars, sendVars, flagVars, histVars>>

SameIntent(r, d) == Intents(qevs[r]) = Intents(claimed[d]) /\ qorder[r] = order[d]

\* Deviation (mutation runs): the same sender on another platform does not count.
Mut_RecentDupePerThread(d) ==
  \E r \in Events, e \in claimed[d] : fresh[r] /\ ThreadOf[r] = ThreadOf[e] /\ SameIntent(r, d)

\* A reply with the same text of intents was queued for the target in the last minutes.
RecentDupe(d) ==
  \E r \in Events, e \in claimed[d] : fresh[r] /\ Target(r) = Target(e) /\ SameIntent(r, d)

CooldownCheck(d) ==
  /\ pc[d] = "cooldown"
  /\ Goto(d, IF RecentDupe(d) THEN "ignore" ELSE "enqueue")
  /\ UNCHANGED <<inboxVars, queueVars, planVars, sendVars, flagVars, histVars>>

\* enqueue_reply, under the last event of the plan, which is any.  On a conflict the
\* events stay as they are.
EnqueueReply(d) ==
  /\ pc[d] = "enqueue"
  /\ \E r \in claimed[d] :
       IF qstat[r] = "absent"
       THEN /\ qstat' = [qstat EXCEPT ![r] = "pending"]
            /\ qevs' = [qevs EXCEPT ![r] = claimed[d]]
            /\ qorder' = [qorder EXCEPT ![r] = order[d]]
            /\ fresh' = [fresh EXCEPT ![r] = TRUE]
            /\ Goto(d, "mark_queued")
            /\ UNCHANGED <<claimed, order>>
       ELSE Drop(d) /\ Goto(d, "threads") /\ UNCHANGED <<qstat, qevs, qorder, fresh>>
  /\ UNCHANGED <<inboxVars, qatt, todo, sendVars, flagVars, histVars>>

\* Two UPDATEs, of the last event and of all, which include it.
MarkQueued(d) ==
  /\ pc[d] = "mark_queued"
  /\ SetStatus(claimed[d], "queued")
  /\ Drop(d) /\ Goto(d, "threads")
  /\ UNCHANGED <<stored, answered, todo, queueVars, sendVars, flagVars, histVars>>

\* All threads are planned; rate_limiter.can_send decides on a sweep.
CheckRate(d) ==
  /\ pc[d] = "threads" /\ todo[d] = {}
  /\ Goto(d, IF cooling THEN "idle" ELSE "sweep")
  /\ UNCHANGED <<inboxVars, queueVars, planVars, sendVars, flagVars, histVars>>

-----------------------------------------------------------------------------
(* sweep_once, for a daemon or a retry request *)

\* A failed row is due when its backoff is over.
DueRows == {r \in Events : qstat[r] \in {"pending", "failed"}}

PickRow(s) ==
  /\ pc[s] = "sweep"
  /\ \E r \in DueRows :
       /\ qstat' = [qstat EXCEPT ![r] = "sending"]
       /\ row' = [row EXCEPT ![s] = r]
       /\ attempt' = [attempt EXCEPT ![s] = qatt[r] + 1]
  /\ Goto(s, "send")
  /\ UNCHANGED <<inboxVars, qatt, qevs, qorder, fresh, planVars, flagVars, histVars>>

NothingDue(s) ==
  /\ pc[s] = "sweep" /\ \A r \in Events : qstat[r] # "pending"
  /\ Goto(s, "idle")
  /\ UNCHANGED <<inboxVars, queueVars, planVars, sendVars, flagVars, histVars>>

Sent(s, l) ==
  /\ pc[s] = "send" /\ Goto(s, l)
  /\ UNCHANGED <<inboxVars, queueVars, planVars, sendVars, flagVars, retries>>
Deliver(s) == delivered' = [delivered EXCEPT ![row[s]] = @ + 1]

SendSucceeds(s) == Sent(s, "mark_sent") /\ Deliver(s)

\* PermissionError: the credentials are missing or lack the right.
SendDenied(s) == Sent(s, "mark_blocked") /\ UNCHANGED delivered

\* Any other exception; with a lost answer the message was delivered.
SendFails(s) == Sent(s, "mark_failed") /\ (UNCHANGED delivered \/ (env.failures /\ Deliver(s)))

Write(s, st) ==
  /\ qstat' = [qstat EXCEPT ![row[s]] = st]
  /\ qatt' = [qatt EXCEPT ![row[s]] = attempt[s]]
SweepDone(s) == row' = [row EXCEPT ![s] = NoRow] /\ attempt' = [attempt EXCEPT ![s] = 0]

MarkSent(s) ==
  /\ pc[s] = "mark_sent"
  /\ Write(s, "sent")
  /\ Goto(s, "mark_events")
  /\ UNCHANGED <<inboxVars, qevs, qorder, fresh, planVars, sendVars, flagVars, histVars>>

\* The sent log and the events; a daemon goes on to the rate limiter.
MarkEvents(s) ==
  /\ pc[s] = "mark_events"
  /\ SetStatus(qevs[row[s]], "sent")
  /\ SweepDone(s)
  /\ Goto(s, IF s \in Daemons THEN "rate" ELSE "idle")
  /\ UNCHANGED <<stored, answered, queueVars, planVars, flagVars, histVars>>

\* One of these statements raised: the except branch takes the message for unsent.
MarkRaises(s) ==
  /\ env.failures
  /\ pc[s] \in {"mark_sent", "mark_events"}
  /\ Goto(s, "mark_failed")
  /\ UNCHANGED <<inboxVars, queueVars, planVars, sendVars, flagVars, histVars>>

MarkBlocked(s) ==
  /\ pc[s] = "mark_blocked"
  /\ Write(s, "blocked")
  /\ Goto(s, "block_events")
  /\ UNCHANGED <<inboxVars, qevs, qorder, fresh, planVars, sendVars, flagVars, histVars>>

BlockEvents(s) ==
  /\ pc[s] = "block_events"
  /\ SetStatus(qevs[row[s]], "blocked")
  /\ SweepDone(s) /\ Goto(s, "idle")
  /\ UNCHANGED <<stored, answered, queueVars, planVars, flagVars, histVars>>

MarkFailed(s) ==
  /\ pc[s] = "mark_failed"
  /\ Write(s, IF attempt[s] >= MaxAttempts THEN "dlq" ELSE "failed")
  /\ SweepDone(s) /\ Goto(s, "idle")
  /\ UNCHANGED <<inboxVars, qevs, qorder, fresh, planVars, flagVars, histVars>>

\* rate_limiter.mark_sent, then the daemon sleeps as long.
MarkRate(d) ==
  /\ pc[d] = "rate"
  /\ cooling' = TRUE
  /\ Goto(d, "idle")
  /\ UNCHANGED <<inboxVars, queueVars, planVars, sendVars, paused, histVars>>

-----------------------------------------------------------------------------
(* the admin API *)

\* /retry: attempts are not reset; a row that is pending, sending or sent stays.
RetryRow(a, r) ==
  /\ pc[a] = "idle" /\ a \in env.running /\ retries < MaxRetries
  /\ retries' = retries + 1
  /\ qstat' = [qstat EXCEPT ![r] = IF @ \in {"failed", "blocked", "dlq"} THEN "pending" ELSE @]
       /\ Goto(a, "sweep")
  /\ UNCHANGED <<inboxVars, qatt, qevs, qorder, fresh, planVars, sendVars, flagVars, delivered>>

\* /pause and /resume.
SetPaused ==
  /\ Apis \cap env.running # {}
  /\ paused' = ~paused
  /\ UNCHANGED <<inboxVars, queueVars, pc, planVars, sendVars, cooling, histVars>>

-----------------------------------------------------------------------------
(* time, and what may go wrong *)

CooldownElapses(r) ==
  /\ fresh[r]
  /\ fresh' = [fresh EXCEPT ![r] = FALSE]
  /\ UNCHANGED <<inboxVars, qstat, qatt, qevs, qorder, pc, planVars, sendVars, flagVars, histVars>>

RateElapses ==
  /\ cooling
  /\ cooling' = FALSE
  /\ UNCHANGED <<inboxVars, queueVars, pc, planVars, sendVars, paused, histVars>>

\* The process dies, or a statement raises where nothing but the daemon's loop
\* catches it; the tables stay as they are.
Abort(s) ==
  /\ env.crashes
  /\ pc[s] # "idle"
  /\ Goto(s, "idle")
  /\ Drop(s) /\ todo' = [todo EXCEPT ![s] = {}]
  /\ SweepDone(s)
  /\ UNCHANGED <<inboxVars, queueVars, flagVars, histVars>>

PlanStep(d) ==
  \/ ReadThreads(d) \/ (\E t \in Threads : ClaimThread(d, t))
  \/ PlanReply(d) \/ PlanNothing(d) \/ PlanRaises(d) \/ MarkIgnored(d)
  \/ CooldownCheck(d) \/ EnqueueReply(d) \/ MarkQueued(d) \/ CheckRate(d) \/ MarkRate(d)

SweepStep(s) ==
  \/ PickRow(s) \/ NothingDue(s) \/ SendSucceeds(s) \/ SendDenied(s) \/ SendFails(s)
  \/ MarkSent(s) \/ MarkEvents(s) \/ MarkRaises(s)
  \/ MarkBlocked(s) \/ BlockEvents(s) \/ MarkFailed(s)

Step ==
  \/ \E e \in Events : Ingest(e) \/ Classify(e) \/ CooldownElapses(e)
  \/ \E d \in Daemons : PlanStep(d)
  \/ \E s \in Sweepers : SweepStep(s) \/ Abort(s)
  \/ \E a \in Apis, r \in Events : RetryRow(a, r)
  \/ SetPaused \/ RateElapses

Next == Step /\ UNCHANGED env

Spec == Init /\ [][Next]_vars

(* The daemon's loop goes on, awaited calls return, and time passes: a message  *)
(* that stays pending is old enough, and a row that stays failed is due, in one *)
(* of the passes.                                                               *)
Fairness ==
  /\ \A d \in Daemons : WF_state(PlanStep(d)) /\ SF_state(ReadThreads(d) /\ todo'[d] # {})
  /\ \A s \in Sweepers : WF_state(SweepStep(s)) /\ SF_state(PickRow(s))
  /\ \A e \in Events : WF_state(Classify(e))
  /\ WF_state(RateElapses)

FairSpec == Spec /\ Fairness

-----------------------------------------------------------------------------
(* Properties *)

\* A message is answered once: by one reply at most, however many daemons plan,
\* crash and start again (pending_events claims with SKIP LOCKED); the reply is
\* delivered at most once where every answer arrives and every statement succeeds,
\* whatever is retried through the API; and what the thread state calls answered,
\* which later replies of the conversation leave out, has a reply in the queue or is
\* about to (plan_reply, enqueue_reply).
AnsweredOnce ==
  /\ \A r, q \in Events : r # q => qevs[r] \cap qevs[q] = {}
  /\ ~env.failures => \A r \in Events : delivered[r] <= 1
  /\ ~env.crashes =>
       \A t \in Threads : \A i \in answered[t] :
         \/ \E r \in Events : TargetOf[t] = Target(r) /\ i \in Intents(qevs[r])
         \/ \E d \in Daemons : /\ pc[d] \in {"cooldown", "enqueue"}
                               /\ \E e \in claimed[d] : ThreadOf[e] = t /\ IntentOf[e] = i

\* Only recruiting messages get an automatic reply, although the planner may claim
\* a message before ingest_social_event has written what it is.
OnlyRecruitingAnswered == \A r \in Events : \A e \in qevs[r] : env.kind[e] = "recruiting"

\* With one daemon two replies to a target within the cooldown, even on two platforms,
\* do not have the same intents, but for two or more unlisted ones whose messages came
\* in another order: the query compares the joined text.  Two comments of one sender
\* are two targets, and each may get the reply.
CooldownHolds ==
  Cardinality(env.running \cap Daemons) <= 1 =>
    \A r, q \in Events :
      r # q /\ fresh[r] /\ fresh[q] /\ Target(r) = Target(q) =>
        \/ Intents(qevs[r]) # Intents(qevs[q])
        \/ /\ qorder[r] # qorder[q]
           /\ \E i, j \in Intents(qevs[r]) \cap Unlisted : i # j

\* While nothing fails and the daemon is not paused, every message is decided on
\* and every reply is sent, blocked or ends in the DLQ: one loop plans, waits for the
\* rate limiter and sends, and starves nobody.
Settles ==
  \A e \in Events :
    /\ (Calm /\ env.running \cap Daemons # {} /\ inbox[e] = "pending")
         ~> (inbox[e] \notin {"pending", "planning"} \/ paused)
    /\ (Calm /\ env.running \cap Daemons # {} /\ qstat[e] = "pending")
         ~> (qstat[e] \in {"sent", "blocked", "dlq"} \/ paused)
=============================================================================
