---------------------------- MODULE QueueArbiter ----------------------------
(***************************************************************************)
(* The ingestion queue (shared/queue.py, table fazle_message_queue), the   *)
(* lease layer over it (shared/queue_arbiter.py, table fazle_queue_leases) *)
(* and the part of shared/runtime_gateway.py that gives a dead node's      *)
(* messages back.  One intent, so one lease row per message.               *)
(*                                                                         *)
(* Every SQL statement is a step.  acquire_lease is two of them: a SELECT  *)
(* whose answer is kept in `snap`, then an INSERT or an UPDATE that does   *)
(* not look at the row's status again.                                     *)
(*                                                                         *)
(* A worker dequeues with limit = 1 (arbitrated_dequeue then claims up to  *)
(* two rows), runs its handler, and closes the lease and the queue row in  *)
(* the order the two modules document.  A worker in env.direct calls       *)
(* arbitrated_process on a message id instead and never touches the queue  *)
(* row.                                                                    *)
(***************************************************************************)
EXTENDS Naturals, FiniteSets

CONSTANTS
  Msgs,        \* idempotency keys of messages
  Workers,     \* worker ids, also the node ids of their processes
  NoMsg,       \* a worker has no message at hand
  NoWorker,    \* a queue row has no processor_id
  QMax,        \* MAX_ATTEMPTS of shared/queue.py
  LeaseMax,    \* MAX_ATTEMPTS of shared/queue_arbiter.py
  ReleaseCap,  \* LEAST(attempts, 2) of _release_claimed_queue_items
  Environments \* the worlds a behaviour may be in

ASSUME SetsAssumption ==
  NoMsg \notin Msgs /\ NoWorker \notin Workers
ASSUME LimitsAssumption ==
  QMax \in Nat /\ LeaseMax \in Nat \ {0} /\ ReleaseCap \in Nat

VARIABLES
  qstat, qatt, qproc,          \* fazle_message_queue: status, attempts, processor_id
  lstat, latt, lage,           \* fazle_queue_leases: status, attempts, how far past
                               \* expires_at
  pc, cand, cur, snap,         \* a worker: position, claimed rows not yet leased,
                               \* message at hand, answer of its last SELECT
  runs, finished,              \* history: leases granted; handlers that succeeded
  env                          \* the world: polling, the workers that call
                               \* arbitrated_dequeue; direct, those that call
                               \* arbitrated_process; stalling, the nodes that may
                               \* miss heartbeats while their workers run; crashing,
                               \* the workers that may die; failures, do statements
                               \* fail; arrives, the messages

queue == <<qstat, qatt, qproc>>
lease == <<lstat, latt, lage>>
worker == <<pc, cand, cur, snap>>
hist == <<runs, finished>>
vars == <<queue, lease, worker, hist, env>>

NoSnap == [status |-> "none", attempts |-> 0, active |-> FALSE]

QStatus == {"absent", "pending", "processing", "done", "failed"}
LStatus == {"none", "leased", "completed", "failed", "dead_letter"}
Snaps == [status : LStatus, attempts : 0..LeaseMax, active : BOOLEAN]

\* Positions at which a worker holds a lease for cur.
Working == {"work", "complete", "fail", "fail_update", "bury"}
\* Positions at which the queue row of cur is still claimed by the worker.
Claiming == Working \cup {"select", "conflict", "ack", "fail_msg", "dead_msg"}
PCs == Claiming \cup {"idle", "leasing", "dead"}

Goto(w, l) == pc' = [pc EXCEPT ![w] = l]
LesserOf(a, b) == IF a <= b THEN a ELSE b
\* The histories stop counting one above the largest value a property allows.
Counted(n) == LesserOf(n + 1, LeaseMax + 1)

Init ==
  /\ qstat = [m \in Msgs |-> "absent"]
  /\ qatt = [m \in Msgs |-> 0]
  /\ qproc = [m \in Msgs |-> NoWorker]
  /\ lstat = [m \in Msgs |-> "none"]
  /\ latt = [m \in Msgs |-> 0]
  /\ lage = [m \in Msgs |-> "live"]
  /\ pc = [w \in Workers |-> "idle"]
  /\ cand = [w \in Workers |-> {}]
  /\ cur = [w \in Workers |-> NoMsg]
  /\ snap = [w \in Workers |-> NoSnap]
  /\ runs = [m \in Msgs |-> 0]
  /\ finished = [m \in Msgs |-> 0]
  /\ env \in Environments

-----------------------------------------------------------------------------
(* shared/queue.py *)

\* enqueue_message; the same key again is ON CONFLICT DO NOTHING.
EnqueueMessage(m) ==
  /\ m \in env.arrives /\ qstat[m] = "absent"
  /\ qstat' = [qstat EXCEPT ![m] = "pending"]
  /\ UNCHANGED <<qatt, qproc, lease, worker, hist>>

\* Deviation (mutation runs): the claim does not filter on 'pending'.
Mut_EligibleClaimed == {m \in Msgs : qstat[m] \in {"pending", "processing"} /\ qatt[m] < QMax}

Eligible == {m \in Msgs : qstat[m] = "pending" /\ qatt[m] < QMax}

\* dequeue_batch(limit * 2) with limit = 1, as arbitrated_dequeue calls it: one
\* statement claims the rows (FOR UPDATE SKIP LOCKED).
DequeueBatch(w) ==
  /\ w \in env.polling \ env.direct
  /\ pc[w] = "idle"
  /\ \E S \in SUBSET Eligible :
       /\ Cardinality(S) = LesserOf(2, Cardinality(Eligible)) /\ S # {}
       /\ qstat' = [m \in Msgs |-> IF m \in S THEN "processing" ELSE qstat[m]]
       /\ qatt' = [m \in Msgs |-> IF m \in S THEN qatt[m] + 1 ELSE qatt[m]]
       /\ qproc' = [m \in Msgs |-> IF m \in S THEN w ELSE qproc[m]]
       /\ cand' = [cand EXCEPT ![w] = S]
  /\ Goto(w, "leasing")
  /\ UNCHANGED <<lease, cur, snap, hist>>

\* The worker is done with its call.
Finish(w) ==
  /\ Goto(w, "idle")
  /\ cur' = [cur EXCEPT ![w] = NoMsg]
  /\ snap' = [snap EXCEPT ![w] = NoSnap]
  /\ UNCHANGED cand

SetQueueStatus(m, s) == qstat' = [qstat EXCEPT ![m] = s] /\ UNCHANGED <<qatt, qproc>>

AckMessage(w) ==
  /\ pc[w] = "ack"
  /\ SetQueueStatus(cur[w], "done")
  /\ Finish(w)
  /\ UNCHANGED <<lease, hist>>

\* fail_message after a failed handler: back to 'pending', attempts as they are.
FailMessage(w) ==
  /\ pc[w] = "fail_msg"
  /\ SetQueueStatus(cur[w], "pending")
  /\ Finish(w)
  /\ UNCHANGED <<lease, hist>>

\* dead_letter of shared/queue.py
DeadLetter(w) ==
  /\ pc[w] = "dead_msg"
  /\ SetQueueStatus(cur[w], "failed")
  /\ Finish(w)
  /\ UNCHANGED <<lease, hist>>

\* Any of the three raised: it logs, returns False, and the row stays claimed.
QueueCallFails(w) ==
  /\ env.failures /\ pc[w] \in {"ack", "fail_msg", "dead_msg"}
  /\ Finish(w)
  /\ UNCHANGED <<queue, lease, hist>>

-----------------------------------------------------------------------------
(* acquire_lease *)

LeaseActive(m) == lstat[m] = "leased" /\ lage[m] = "live"

\* The SELECT, for the next candidate (arbitrated_dequeue) or for a message id
\* (arbitrated_process).
AcquireSelect(w) ==
  /\ \E m \in Msgs :
       /\ \/ w \notin env.direct /\ pc[w] = "leasing" /\ m \in cand[w]
          \/ w \in env.direct /\ pc[w] = "idle" /\ qstat[m] # "absent"
       /\ cur' = [cur EXCEPT ![w] = m]
       /\ snap' = [snap EXCEPT ![w] =
            [status |-> lstat[m], attempts |-> latt[m], active |-> LeaseActive(m)]]
  /\ Goto(w, "select")
  /\ UNCHANGED <<queue, lease, cand, hist>>

\* The lease is the worker's; arbitrated_dequeue has its one result and breaks
\* out of its loop, whatever candidates are left.
Granted(w) ==
  /\ Goto(w, "work")
  /\ cand' = [cand EXCEPT ![w] = {}]
  /\ runs' = [runs EXCEPT ![cur[w]] = Counted(@)]
  /\ UNCHANGED <<cur, snap, queue, finished>>

\* acquire_lease returned None.
Refused(w) ==
  /\ IF w \in env.direct THEN Finish(w) ELSE Goto(w, "conflict") /\ UNCHANGED <<cand, cur, snap>>
  /\ UNCHANGED <<queue, hist>>

\* What the INSERT and the reclaiming UPDATE write: attempt n, a fresh expiry.
WriteLease(m, n) ==
  /\ lstat' = [lstat EXCEPT ![m] = "leased"]
  /\ latt' = [latt EXCEPT ![m] = n]
  /\ lage' = [lage EXCEPT ![m] = "live"]

\* No row in the SELECT: INSERT ... ON CONFLICT DO NOTHING RETURNING.
AcquireInsert(w) ==
  /\ pc[w] = "select" /\ snap[w].status = "none"
  /\ IF lstat[cur[w]] = "none"
     THEN WriteLease(cur[w], 1) /\ Granted(w)
     ELSE Refused(w) /\ UNCHANGED lease

\* Completed, dead-lettered, or leased and not expired: None.
AcquireRefused(w) ==
  /\ pc[w] = "select"
  /\ snap[w].status \in {"completed", "dead_letter"} \/ snap[w].active
  /\ Refused(w)
  /\ UNCHANGED lease

\* Deviation (mutation runs): a completed or buried lease can be reclaimed.
Mut_AnyReclaimable(w) ==
  /\ pc[w] = "select"
  /\ snap[w].status # "none" /\ ~snap[w].active

\* The SELECT saw a failed or an expired lease.
Reclaimable(w) ==
  /\ pc[w] = "select"
  /\ snap[w].status \in {"leased", "failed"} /\ ~snap[w].active

\* UPDATE ... WHERE message_id AND intent: the status is not tested again.
AcquireReclaim(w) ==
  /\ Reclaimable(w)
  /\ snap[w].attempts + 1 <= LeaseMax
  /\ WriteLease(cur[w], snap[w].attempts + 1)
  /\ Granted(w)

\* Too many attempts: the row is dead-lettered and acquire_lease returns None.
AcquireDeadLetters(w) ==
  /\ Reclaimable(w)
  /\ snap[w].attempts + 1 > LeaseMax
  /\ lstat' = [lstat EXCEPT ![cur[w]] = "dead_letter"]
  /\ UNCHANGED <<latt, lage>>
  /\ Refused(w)

\* The statement raised, before or after it committed: acquire_lease returns None.
AcquireFails(w) ==
  /\ env.failures /\ pc[w] = "select"
  /\ Refused(w)
  /\ UNCHANGED lease

AcquireAnswerLost(w) ==
  /\ env.failures
  /\ \/ /\ pc[w] = "select" /\ snap[w].status = "none" /\ lstat[cur[w]] = "none"
        /\ WriteLease(cur[w], 1)
     \/ /\ Reclaimable(w) /\ snap[w].attempts + 1 <= LeaseMax
        /\ WriteLease(cur[w], snap[w].attempts + 1)
  /\ Refused(w)

\* arbitrated_dequeue gives a refused candidate back with fail_message.
ReturnCandidate(w) ==
  /\ pc[w] = "conflict"
  /\ LET m == cur[w]  rest == cand[w] \ {m} IN
       /\ SetQueueStatus(m, "pending")
       /\ cand' = [cand EXCEPT ![w] = rest]
       /\ Goto(w, IF rest = {} THEN "idle" ELSE "leasing")
  /\ cur' = [cur EXCEPT ![w] = NoMsg]
  /\ snap' = [snap EXCEPT ![w] = NoSnap]
  /\ UNCHANGED <<lease, hist>>

-----------------------------------------------------------------------------
(* the handler, and closing the lease *)

HandlerSucceeds(w) ==
  /\ pc[w] = "work"
  /\ finished' = [finished EXCEPT ![cur[w]] = Counted(@)]
  /\ Goto(w, "complete")
  /\ UNCHANGED <<queue, lease, cand, cur, snap, runs>>

\* The handler raises, or the caller finds the message unrecoverable
\* (arbitrated_process knows only the first).
HandlerFails(w) ==
  /\ pc[w] = "work"
  /\ \E l \in IF w \in env.direct THEN {"fail"} ELSE {"fail", "bury"} : Goto(w, l)
  /\ UNCHANGED <<queue, lease, cand, cur, snap, hist>>

\* What follows the lease call: the queue row, or nothing for arbitrated_process.
ThenClose(w, l) ==
  /\ IF w \in env.direct THEN Finish(w) ELSE Goto(w, l) /\ UNCHANGED <<cand, cur, snap>>

\* complete_lease: by lease_id alone.
CompleteLease(w) ==
  /\ pc[w] = "complete"
  /\ lstat' = [lstat EXCEPT ![cur[w]] = "completed"]
  /\ UNCHANGED <<latt, lage>>
  /\ ThenClose(w, "ack")
  /\ UNCHANGED <<queue, hist>>

\* fail_lease, SELECT attempts ...
FailLeaseSelect(w) ==
  /\ pc[w] = "fail"
  /\ snap' = [snap EXCEPT ![w].attempts = latt[cur[w]]]
  /\ Goto(w, "fail_update")
  /\ UNCHANGED <<queue, lease, cand, cur, hist>>

\* ... then UPDATE by lease_id: failed, or dead_letter at the last attempt.  The
\* retry_after it also writes is read by no query and left out.
FailLeaseUpdate(w) ==
  /\ pc[w] = "fail_update"
  /\ lstat' = [lstat EXCEPT ![cur[w]] =
        IF snap[w].attempts >= LeaseMax THEN "dead_letter" ELSE "failed"]
  /\ UNCHANGED <<latt, lage>>
  /\ ThenClose(w, "fail_msg")
  /\ UNCHANGED <<queue, hist>>

\* dead_letter_lease
DeadLetterLease(w) ==
  /\ pc[w] = "bury"
  /\ lstat' = [lstat EXCEPT ![cur[w]] = "dead_letter"]
  /\ UNCHANGED <<latt, lage>>
  /\ ThenClose(w, "dead_msg")
  /\ UNCHANGED <<queue, hist>>

\* complete_lease, fail_lease or dead_letter_lease raised inside: each logs and
\* returns False, and the caller goes on.
LeaseCallFails(w) ==
  /\ env.failures /\ pc[w] \in {"complete", "fail", "fail_update", "bury"}
  /\ ThenClose(w, CASE pc[w] = "complete" -> "ack"
                    [] pc[w] = "bury" -> "dead_msg"
                    [] OTHER -> "fail_msg")
  /\ UNCHANGED <<queue, lease, hist>>

-----------------------------------------------------------------------------
(* time, the recovery loop, crashes and the gateway's stale sweep *)

\* A lease passes its expires_at, and later expires_at + stale_after_s.
LeaseAges(m) ==
  /\ lstat[m] = "leased" /\ lage[m] # "stale"
  /\ lage' = [lage EXCEPT ![m] = IF @ = "live" THEN "expired" ELSE "stale"]
  /\ UNCHANGED <<queue, lstat, latt, worker, hist>>

\* Deviation (mutation runs): the sweep misses rows.
Mut_RecoverNothing == FALSE /\ UNCHANGED <<queue, lease, worker, hist>>

\* recover_stale_leases: every leased row past expires_at + stale_after_s.
RecoverStaleLeases ==
  /\ \E m \in Msgs : lstat[m] = "leased" /\ lage[m] = "stale"
  /\ lstat' = [m \in Msgs |->
        IF lstat[m] = "leased" /\ lage[m] = "stale" THEN "failed" ELSE lstat[m]]
  /\ UNCHANGED <<queue, latt, lage, worker, hist>>

\* A worker's process dies; its rows and its lease stay as they are.
Crash(w) ==
  /\ w \in env.crashing /\ pc[w] \notin {"idle", "dead"}
  /\ Goto(w, "dead")
  /\ cand' = [cand EXCEPT ![w] = {}]
  /\ cur' = [cur EXCEPT ![w] = NoMsg]
  /\ snap' = [snap EXCEPT ![w] = NoSnap]
  /\ UNCHANGED <<queue, lease, hist>>

\* mark_stale_nodes found w's node and _release_claimed_queue_items returns its
\* rows.  A dead worker is then replaced by a new process.
SweepNode(w) ==
  /\ pc[w] = "dead" \/ w \in env.stalling
  /\ LET mine == {m \in Msgs : qproc[m] = w /\ qstat[m] \in {"processing", "pending"}} IN
       /\ pc[w] = "dead" \/ mine # {}
       /\ qstat' = [m \in Msgs |-> IF m \in mine THEN "pending" ELSE qstat[m]]
       /\ qatt' = [m \in Msgs |-> IF m \in mine THEN LesserOf(qatt[m], ReleaseCap) ELSE qatt[m]]
       /\ qproc' = [m \in Msgs |-> IF m \in mine THEN NoWorker ELSE qproc[m]]
  /\ pc' = [pc EXCEPT ![w] = IF @ = "dead" THEN "idle" ELSE @]
  /\ UNCHANGED <<lease, cand, cur, snap, hist>>

WorkerStep(w) ==
  \/ AckMessage(w) \/ FailMessage(w) \/ DeadLetter(w)
  \/ (w \notin env.direct /\ AcquireSelect(w)) \/ AcquireInsert(w)
  \/ AcquireRefused(w) \/ AcquireReclaim(w) \/ AcquireDeadLetters(w)
  \/ ReturnCandidate(w) \/ HandlerSucceeds(w) \/ HandlerFails(w)
  \/ CompleteLease(w) \/ FailLeaseSelect(w) \/ FailLeaseUpdate(w)
  \/ DeadLetterLease(w)

Step ==
  \/ \E m \in Msgs : EnqueueMessage(m) \/ LeaseAges(m)
  \/ \E w \in Workers :
       \/ DequeueBatch(w) \/ AcquireSelect(w) \/ WorkerStep(w)
       \/ QueueCallFails(w) \/ LeaseCallFails(w) \/ AcquireFails(w)
       \/ AcquireAnswerLost(w) \/ Crash(w) \/ SweepNode(w)
  \/ RecoverStaleLeases

Next == Step /\ UNCHANGED env

Spec == Init /\ [][Next]_vars

(* A running worker's awaits come back, TTLs run out, the recovery loop runs   *)
(* every minute and the heartbeat loops sweep dead nodes.  Workers poll, so a  *)
(* pending row is dequeued.  Crashes, arrivals and false alarms are not fair.  *)
state == <<queue, lease, worker, hist>>

Fairness ==
  /\ \A w \in Workers :
       /\ WF_state(WorkerStep(w))
       /\ WF_state(DequeueBatch(w))
       /\ WF_state(pc[w] = "dead" /\ SweepNode(w))
  /\ \A m \in Msgs : WF_state(LeaseAges(m))
  /\ WF_state(RecoverStaleLeases)

FairSpec == Spec /\ Fairness

-----------------------------------------------------------------------------
(* Properties *)

TypeOK ==
  /\ qstat \in [Msgs -> QStatus] /\ qatt \in [Msgs -> Nat]
  /\ qproc \in [Msgs -> Workers \cup {NoWorker}]
  /\ lstat \in [Msgs -> LStatus] /\ latt \in [Msgs -> 0..LeaseMax]
  /\ lage \in [Msgs -> {"live", "expired", "stale"}]
  /\ pc \in [Workers -> PCs] /\ cand \in [Workers -> SUBSET Msgs]
  /\ cur \in [Workers -> Msgs \cup {NoMsg}] /\ snap \in [Workers -> Snaps]
  /\ runs \in [Msgs -> Nat] /\ finished \in [Msgs -> Nat]

\* Workers use only arbitrated_dequeue and only dead nodes are swept.
Dequeuing == env.direct = {} /\ env.stalling = {}

\* At most one worker at a time works on a message, even when its lease has
\* expired under it: through arbitrated_dequeue the queue's claim keeps every
\* other worker away, as long as only dead nodes are swept.
OneWorkerPerMessage ==
  Dequeuing =>
    \A w, u \in Workers :
      pc[w] \in Working /\ pc[u] \in Working /\ cur[w] = cur[u] => w = u

\* A completed lease is a permanent dedup guard: no step re-opens it, and no
\* handler succeeds for its message again.
CompletedIsFinal ==
  [][Dequeuing => \A m \in Msgs : lstat[m] = "completed" =>
        lstat'[m] = "completed" /\ finished'[m] = finished[m]]_vars

\* A dead-lettered message stays dead-lettered (the inspection endpoint is the
\* only way to it).
DeadLetterIsFinal ==
  [][Dequeuing => \A m \in Msgs : lstat[m] = "dead_letter" => lstat'[m] = "dead_letter"]_vars

\* No message is handed to handlers more than MAX_ATTEMPTS times, counting
\* expired leases, crashes and sweeps that give queue attempts back.
RunsBounded == Dequeuing => \A m \in Msgs : runs[m] <= LeaseMax

\* A lease at its last attempt that failed is dead-lettered: 'failed' always
\* means that another attempt is left, unless the recovery loop wrote it.
FailedHasAttemptLeft ==
  \A m \in Msgs : lstat[m] = "failed" /\ lage[m] = "live" => latt[m] < LeaseMax

\* A lease never stays 'leased' for ever: its worker closes it, or it expires
\* and the recovery loop fails it.
LeaseResolved == \A m \in Msgs : lstat[m] = "leased" ~> lstat[m] # "leased"

\* w's claim on the queue row of m is in force.
Owns(w, m) == qstat[m] = "processing" /\ qproc[m] = w

\* A worker that handles a message, or has it as a candidate, owns its row.
ClaimInv ==
  \A w \in Workers :
    /\ pc[w] \in Claiming => cur[w] \in Msgs /\ Owns(w, cur[w])
    /\ \A m \in cand[w] : Owns(w, m)
    /\ pc[w] \notin {"leasing", "select", "conflict"} => cand[w] = {}

\* What an owner knows of the lease row: between its statements only the
\* recovery loop has touched it.
LeaseInv ==
  /\ \A m \in Msgs : runs[m] <= latt[m] /\ (lstat[m] = "none" => latt[m] = 0)
  /\ \A w \in Workers :
       /\ pc[w] = "select" =>
            /\ snap[w].attempts = latt[cur[w]]
            /\ \/ snap[w].status = lstat[cur[w]]
               \/ snap[w].status = "leased" /\ lstat[cur[w]] = "failed"
       /\ pc[w] \in Working => lstat[cur[w]] \in {"leased", "failed"}
       /\ pc[w] = "fail_update" => snap[w].attempts = latt[cur[w]]
=============================================================================
