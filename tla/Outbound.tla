------------------------------ MODULE Outbound ------------------------------
(***************************************************************************)
(* The persistent outbound queue (modules/outbound, fazle_outbound_queue)  *)
(* and the circuit breaker of the bridge clients (app/bridge.py).          *)
(*                                                                         *)
(* Each process runs one worker: sweep_once claims the due rows in one     *)
(* transaction, then handles them one by one, each result its own UPDATE   *)
(* on the connection the claim used.  Breakers live in the process and are *)
(* lost with it.                                                           *)
(*                                                                         *)
(* Time is abstract: a failed row becomes due, an open breaker cools down, *)
(* and a failure leaves the breaker's window, at any later moment.         *)
(***************************************************************************)
EXTENDS Naturals, FiniteSets

CONSTANTS
  Rows,         \* queue rows, by idempotency key
  Bridges,
  Via,          \* source_bridge of a row
  AlertOf,      \* the circuit alert row of a bridge for the current minute
  Procs,        \* application processes
  Stubbed,      \* processes with OUTBOUND_ENABLED off
  MaxAttempts,  \* max_attempts of a row
  Threshold,    \* failure_threshold of a breaker
  NoRow,
  Environments  \* bound: the environments a run looks at

\* failures: database calls raise and bridge answers get lost; raises: the client
\* raises something else than BridgeSendError; crashes: processes die; running: the
\* processes that sweep; arrives: the messages.
Environment == [failures : BOOLEAN, raises : BOOLEAN, crashes : BOOLEAN,
                running : SUBSET Procs, arrives : SUBSET Rows]

ASSUME SetsAssumption ==
  /\ NoRow \notin Rows /\ Stubbed \subseteq Procs
  /\ Via \in [Rows -> Bridges] /\ AlertOf \in [Bridges -> Rows]
ASSUME LimitsAssumption ==
  /\ MaxAttempts \in Nat \ {0} /\ Threshold \in Nat \ {0}
  /\ Environments \subseteq Environment

VARIABLES
  stat, att, due,   \* a row: status, attempts, next_retry_at <= NOW()
  pc, batch, row,   \* a worker: position, claimed rows left, row at hand
  circuit, fails, probing,
                    \* a breaker of a process: _opened_at and its age, number of
                    \* _failures in the window, _half_open_in_flight
  delivered,        \* history: deliveries of a row
  env               \* what may happen in this behaviour, see Environment

table == <<stat, att, due>>
worker == <<pc, batch, row>>
breaker == <<circuit, fails, probing>>
state == <<table, worker, breaker, delivered>>
vars == <<state, env>>

Status == {"absent", "pending", "sending", "sent", "failed", "dlq"}
PCs == {"idle", "loop", "post", "alert", "mark_sent", "mark_failed"}

Calm == ~env.failures /\ ~env.crashes

\* Alerts are ordinary rows, but only a breaker enqueues them.
Alerts == {AlertOf[b] : b \in Bridges}

Goto(p, l) == pc' = [pc EXCEPT ![p] = l]
BridgeOf(p) == Via[row[p]]
\* The history stops counting one above the largest value a property allows.
Counted(n) == IF n > MaxAttempts THEN n ELSE n + 1

Init ==
  /\ stat = [r \in Rows |-> "absent"]
  /\ att = [r \in Rows |-> 0]
  /\ due = [r \in Rows |-> TRUE]
  /\ pc = [p \in Procs |-> "idle"]
  /\ batch = [p \in Procs |-> {}]
  /\ row = [p \in Procs |-> NoRow]
  /\ circuit = [p \in Procs |-> [b \in Bridges |-> "closed"]]
  /\ fails = [p \in Procs |-> [b \in Bridges |-> 0]]
  /\ probing = [p \in Procs |-> [b \in Bridges |-> FALSE]]
  /\ delivered = [r \in Rows |-> 0]
  /\ env \in Environments

-----------------------------------------------------------------------------
(* the table *)

\* enqueue: INSERT ... ON CONFLICT (idempotency_key) DO NOTHING.
InsertRow(r) == stat' = IF stat[r] = "absent" THEN [stat EXCEPT ![r] = "pending"] ELSE stat

Enqueue(r) ==
  /\ r \in env.arrives \ Alerts
  /\ stat[r] = "absent"
  /\ InsertRow(r)
  /\ UNCHANGED <<att, due, worker, breaker, delivered>>

\* Deviation (mutation runs): rows already being sent are claimed again.
Mut_DueAlsoSending == {r \in Rows : stat[r] \in {"pending", "failed", "sending"} /\ due[r]}

\* Deviation (mutation runs): sent rows are picked up again.
Mut_DueAlsoSent == {r \in Rows : stat[r] \in {"pending", "failed", "sent"} /\ due[r]}

Due == {r \in Rows : stat[r] \in {"pending", "failed"} /\ due[r]}

\* sweep_once, the claiming transaction.  Rows another sweep has locked are
\* skipped, so any of the due rows may be the ones it gets.
Claim(p) ==
  /\ p \in env.running /\ pc[p] = "idle"
  /\ \E S \in SUBSET Due :
       /\ S # {}
       /\ stat' = [r \in Rows |-> IF r \in S THEN "sending" ELSE stat[r]]
       /\ batch' = [batch EXCEPT ![p] = S]
  /\ Goto(p, "loop")
  /\ UNCHANGED <<att, due, row, breaker, delivered>>

\* The for loop is through.
SweepEnds(p) ==
  /\ pc[p] = "loop" /\ batch[p] = {}
  /\ Goto(p, "idle")
  /\ UNCHANGED <<table, batch, row, breaker, delivered>>

-----------------------------------------------------------------------------
(* CircuitBreaker, for the breaker of bridge b in process p *)

Allowed(p, b) == circuit[p][b] = "closed" \/ (circuit[p][b] = "half_open" /\ ~probing[p][b])

RecordSuccess(p, b) ==
  /\ circuit' = [circuit EXCEPT ![p][b] = "closed"]
  /\ fails' = [fails EXCEPT ![p][b] = 0]
  /\ probing' = [probing EXCEPT ![p][b] = FALSE]

\* Does record_failure open the breaker now?
JustOpens(p, b) == circuit[p][b] = "closed" /\ fails[p][b] + 1 >= Threshold

\* A failure when not closed re-arms the breaker and leaves _failures alone.
RecordFailure(p, b) ==
  IF circuit[p][b] # "closed"
  THEN /\ circuit' = [circuit EXCEPT ![p][b] = "open"]
       /\ probing' = [probing EXCEPT ![p][b] = FALSE]
       /\ UNCHANGED fails
  ELSE /\ fails' = [fails EXCEPT ![p][b] = @ + 1]
       /\ circuit' = IF JustOpens(p, b) THEN [circuit EXCEPT ![p][b] = "open"] ELSE circuit
       /\ UNCHANGED probing

-----------------------------------------------------------------------------
(* one row of a sweep: _send_with_bridge and the UPDATE of its result *)

\* The next row of the batch; ORDER BY next_retry_at, so any.
TakeRow(p, r) ==
  /\ pc[p] = "loop" /\ r \in batch[p]
  /\ batch' = [batch EXCEPT ![p] = @ \ {r}]
  /\ row' = [row EXCEPT ![p] = r]

\* Its breaker lets it through; a half-open one lets one probe through.
StartSend(p) ==
  \E r \in Rows :
    /\ TakeRow(p, r)
    /\ Allowed(p, Via[r])
    /\ Goto(p, "post")
    /\ probing' = IF circuit[p][Via[r]] = "half_open"
                  THEN [probing EXCEPT ![p][Via[r]] = TRUE] ELSE probing
    /\ UNCHANGED <<table, circuit, fails, delivered>>

\* Its breaker does not: BridgeSendError circuit_open.
SendRefused(p) ==
  \E r \in Rows :
    /\ TakeRow(p, r)
    /\ ~Allowed(p, Via[r])
    /\ Goto(p, "mark_failed")
    /\ UNCHANGED <<table, breaker, delivered>>

\* OUTBOUND_ENABLED is off: counted as sent, the network is not touched.
PostStubbed(p) ==
  /\ pc[p] = "post" /\ p \in Stubbed
  /\ RecordSuccess(p, BridgeOf(p))
  /\ Goto(p, "mark_sent")
  /\ UNCHANGED <<table, batch, row, delivered>>

Posting(p) == pc[p] = "post" /\ p \notin Stubbed
Deliver(p) == delivered' = [delivered EXCEPT ![row[p]] = Counted(@)]

PostSucceeds(p) ==
  /\ Posting(p) /\ Deliver(p)
  /\ RecordSuccess(p, BridgeOf(p))
  /\ Goto(p, "mark_sent")
  /\ UNCHANGED <<table, batch, row>>

\* Not 200, or a transport error; with a lost answer the message was delivered.
PostFails(p) ==
  /\ Posting(p)
  /\ UNCHANGED delivered \/ (env.failures /\ Deliver(p))
  /\ RecordFailure(p, BridgeOf(p))
  /\ Goto(p, IF JustOpens(p, BridgeOf(p)) THEN "alert" ELSE "mark_failed")
  /\ UNCHANGED <<table, batch, row>>

\* Any other exception: no record_success, no record_failure.
PostRaises(p) ==
  /\ env.raises
  /\ Posting(p)
  /\ Goto(p, "mark_failed")
  /\ UNCHANGED <<table, batch, row, breaker, delivered>>

\* _alert_circuit_open, through the other bridge; a failure to enqueue is logged.
AlertCircuitOpen(p) ==
  /\ pc[p] = "alert"
  /\ InsertRow(AlertOf[BridgeOf(p)]) \/ (env.failures /\ UNCHANGED stat)
  /\ Goto(p, "mark_failed")
  /\ UNCHANGED <<att, due, batch, row, breaker, delivered>>

NextRow(p) == Goto(p, "loop") /\ row' = [row EXCEPT ![p] = NoRow] /\ UNCHANGED batch

MarkSent(p) ==
  /\ pc[p] = "mark_sent"
  /\ stat' = [stat EXCEPT ![row[p]] = "sent"]
  /\ att' = [att EXCEPT ![row[p]] = @ + 1]
  /\ NextRow(p)
  /\ UNCHANGED <<due, breaker, delivered>>

\* The UPDATE raised, so the except branch takes the message for unsent.
MarkSentRaises(p) ==
  /\ env.failures
  /\ pc[p] = "mark_sent"
  /\ Goto(p, "mark_failed")
  /\ UNCHANGED <<table, batch, row, breaker, delivered>>

\* Deviation (mutation runs): the attempt that failed is not counted.
Mut_MarkFailedUncounted(p) ==
  /\ pc[p] = "mark_failed"
  /\ LET r == row[p] IN
       /\ stat' = [stat EXCEPT ![r] = IF att[r] + 1 >= MaxAttempts THEN "dlq" ELSE "failed"]
       /\ due' = [due EXCEPT ![r] = IF att[r] + 1 >= MaxAttempts THEN @ ELSE FALSE]
  /\ NextRow(p)
  /\ UNCHANGED <<att, breaker, delivered>>

\* dlq at max_attempts, else failed with next_retry_at in the future.
MarkFailed(p) ==
  /\ pc[p] = "mark_failed"
  /\ LET r == row[p]  last == att[r] + 1 >= MaxAttempts IN
       /\ att' = [att EXCEPT ![r] = @ + 1]
       /\ stat' = [stat EXCEPT ![r] = IF last THEN "dlq" ELSE "failed"]
       /\ due' = [due EXCEPT ![r] = IF last THEN @ ELSE FALSE]
  /\ NextRow(p)
  /\ UNCHANGED <<breaker, delivered>>

\* An UPDATE in the except branch raised: the exception leaves sweep_once and
\* the rows of the batch stay as they are.
SweepAborts(p) ==
  /\ env.failures
  /\ pc[p] = "mark_failed"
  /\ Goto(p, "idle")
  /\ row' = [row EXCEPT ![p] = NoRow]
  /\ batch' = [batch EXCEPT ![p] = {}]
  /\ UNCHANGED <<table, breaker, delivered>>

-----------------------------------------------------------------------------
(* time and crashes *)

BackoffElapses(r) ==
  /\ ~due[r]
  /\ due' = [due EXCEPT ![r] = TRUE]
  /\ UNCHANGED <<stat, att, worker, breaker, delivered>>

\* open_seconds have passed: state() says half_open.
BreakerCools(p, b) ==
  /\ circuit[p][b] = "open"
  /\ circuit' = [circuit EXCEPT ![p][b] = "half_open"]
  /\ UNCHANGED <<table, worker, fails, probing, delivered>>

\* The oldest failure leaves the window of a closed breaker.
WindowSlides(p, b) ==
  /\ circuit[p][b] = "closed" /\ fails[p][b] > 0
  /\ fails' = [fails EXCEPT ![p][b] = @ - 1]
  /\ UNCHANGED <<table, worker, circuit, probing, delivered>>

\* The process dies, or its worker is cancelled at shutdown; it starts anew.
Crash(p) ==
  /\ env.crashes
  /\ pc[p] # "idle"
  /\ Goto(p, "idle")
  /\ batch' = [batch EXCEPT ![p] = {}]
  /\ row' = [row EXCEPT ![p] = NoRow]
  /\ circuit' = [circuit EXCEPT ![p] = [b \in Bridges |-> "closed"]]
  /\ fails' = [fails EXCEPT ![p] = [b \in Bridges |-> 0]]
  /\ probing' = [probing EXCEPT ![p] = [b \in Bridges |-> FALSE]]
  /\ UNCHANGED <<table, delivered>>

SweepStep(p) ==
  \/ SweepEnds(p) \/ StartSend(p) \/ SendRefused(p) \/ PostStubbed(p) \/ PostSucceeds(p)
  \/ PostFails(p) \/ PostRaises(p) \/ AlertCircuitOpen(p)
  \/ MarkSent(p) \/ MarkSentRaises(p) \/ MarkFailed(p) \/ SweepAborts(p)

Step ==
  \/ \E r \in Rows : Enqueue(r) \/ BackoffElapses(r)
  \/ \E p \in Procs :
       \/ Claim(p) \/ SweepStep(p) \/ Crash(p)
       \/ \E b \in Bridges : BreakerCools(p, b) \/ WindowSlides(p, b)

Next == Step /\ UNCHANGED env

Spec == Init /\ [][Next]_vars

(* The worker loop sweeps every few seconds, an awaited call comes back or     *)
(* times out, and time passes.  Nothing makes a bridge recover.                *)
Fairness ==
  /\ \A p \in Procs :
       /\ WF_state(Claim(p)) /\ WF_state(SweepStep(p))
       /\ \A b \in Bridges : WF_state(BreakerCools(p, b))
  /\ \A r \in Rows : WF_state(BackoffElapses(r))

FairSpec == Spec /\ Fairness

-----------------------------------------------------------------------------
(* Properties *)

TypeOK ==
  /\ stat \in [Rows -> Status] /\ att \in [Rows -> 0..MaxAttempts] /\ due \in [Rows -> BOOLEAN]
  /\ pc \in [Procs -> PCs] /\ batch \in [Procs -> SUBSET Rows]
  /\ row \in [Procs -> Rows \cup {NoRow}]
  /\ circuit \in [Procs -> [Bridges -> {"closed", "open", "half_open"}]]
  /\ fails \in [Procs -> [Bridges -> 0..Threshold]]
  /\ probing \in [Procs -> [Bridges -> BOOLEAN]]
  /\ delivered \in [Rows -> 0..(MaxAttempts + 1)]
  /\ env \in Environments

\* p has claimed r and not finished with it.
Holds(p, r) == r \in batch[p] \/ row[p] = r

\* The claim is exclusive: no two processes hold one row, and a held row is
\* 'sending' for everyone else to see.
ClaimsExclusive ==
  \A p \in Procs, r \in Rows : Holds(p, r) =>
    stat[r] = "sending" /\ \A q \in Procs : Holds(q, r) => q = p

\* The table is a queue in the sense of ClaimQueue: a failed row waits for its
\* retry, a row that a worker will come to has this worker as its owner, and after a
\* crash or an aborted sweep a row is 'sending' and nobody's.
QueueStatus == [r \in Rows |-> CASE stat[r] = "absent" -> "new"
                                [] stat[r] \in {"pending", "failed"} -> "waiting"
                                [] stat[r] = "sending" -> "claimed"
                                [] OTHER -> "finished"]

QueueOwner == [r \in Rows |-> IF \E p \in Procs : Holds(p, r)
                              THEN CHOOSE p \in Procs : Holds(p, r) ELSE NoRow]

Queue == INSTANCE ClaimQueue WITH
  Items <- Rows, Workers <- Procs, Nobody <- NoRow,
  status <- QueueStatus, owner <- QueueOwner

\* sweep_once with any number of processes, crashes and lost answers implements the
\* claim queue: a row never changes hands while a worker has it, is given back or
\* finished by its owner only, and neither 'sent' nor 'dlq' is ever left.
ImplementsClaimQueue == Queue!Spec

\* Lost answers and failing UPDATEs resend a message, but never more often than
\* max_attempts.
DeliveriesBounded == \A r \in Rows : delivered[r] <= MaxAttempts

\* A row that is sent or in the DLQ is left alone: its status stays and nothing
\* more is delivered for it.
ResultIsFinal ==
  [][\A r \in Rows : stat[r] \in {"sent", "dlq"} =>
        stat'[r] = stat[r] /\ delivered'[r] = delivered[r]]_vars

\* When every answer arrives a message is delivered at most once, even when a
\* process dies in the middle of a sweep.
DeliveredOnce == ~env.failures => \A r \in Rows : delivered[r] <= 1

\* While nothing is lost and no process dies, every message is sent or ends in the
\* DLQ, whatever the bridges answer.
RowSettles == \A r \in Rows : Calm /\ stat[r] = "pending" ~> stat[r] \in {"sent", "dlq"}

\* As long as the client raises nothing but BridgeSendError, the in-flight flag
\* never outlives its probe: a breaker that has cooled down lets the next message
\* through.
ProbeIsFree ==
  ~env.raises => \A p \in Procs, b \in Bridges :
    probing[p][b] => pc[p] = "post" /\ Via[row[p]] = b

\* A worker has a row at hand exactly while it sends or records one, and none when
\* it is between two sweeps.
RowAtHand ==
  \A p \in Procs :
    /\ pc[p] \in {"post", "alert", "mark_sent", "mark_failed"} <=> row[p] # NoRow
    /\ row[p] \notin batch[p]
    /\ pc[p] = "idle" => batch[p] = {}

\* An attempt delivers at most once, before it is counted.
CountsInv ==
  \A r \in Rows :
    /\ stat[r] \in {"absent", "pending", "failed", "sending"} => att[r] < MaxAttempts
    /\ delivered[r] <= att[r] + 1
    /\ delivered[r] <= att[r] \/
         (stat[r] = "sending" /\
            \A p \in Procs : ~(r \in batch[p] \/ (row[p] = r /\ pc[p] = "post")))

\* A closed breaker has room for one more failure.
BreakerInv ==
  \A p \in Procs, b \in Bridges : circuit[p][b] = "closed" => fails[p][b] < Threshold
=============================================================================
