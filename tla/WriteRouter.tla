---------------------------- MODULE WriteRouter ----------------------------
(***************************************************************************)
(* The coordinated write path: shared/write_router.py over the TTL lock    *)
(* table of shared/locks.py, for one lock key (no operation of either      *)
(* module reads or writes two keys, so keys are independent).              *)
(*                                                                         *)
(* A task calls routed_write.  It takes the per-process asyncio.Lock, then *)
(* the database lock (a DELETE of an expired row and an INSERT ... ON      *)
(* CONFLICT DO NOTHING: two statements, on two connections), runs the      *)
(* caller's callback in a transaction, publishes, and deletes the lock     *)
(* row.  The callback is modelled as the case the lock is there for: it    *)
(* reads the record and writes back what it computed from it.              *)
(*                                                                         *)
(* The lock row carries no fencing token: release_lock deletes whatever    *)
(* row the key has.  Time is abstract: the TTL that a task's INSERT        *)
(* started elapses in a step of its own.                                   *)
(***************************************************************************)
EXTENDS Naturals, FiniteSets

CONSTANTS
  Tasks,        \* concurrent callers of routed_write on this key
  Procs,        \* application processes (fazle-core, payroll-engine, ...)
  ProcOf,       \* the process each task runs in
  NoTask,       \* the lock key has no row / the asyncio.Lock is free
  MaxWrites     \* bound: committed writes after which no task starts another

ASSUME ProcOfAssumption == ProcOf \in [Tasks -> Procs]
ASSUME NoTaskAssumption == NoTask \notin Tasks
ASSUME BoundAssumption == MaxWrites \in Nat

VARIABLES
  place,       \* where each task is in routed_write
  local,    \* _local_locks[key] of each process: its owner
  holder,   \* the row of fazle_processing_locks: the task that inserted it
  fresh,    \* tasks whose last acquired TTL has not elapsed yet
  data,     \* the record the writes are about, as a count of applied updates
  seen,     \* what a task's callback read from the record
  commits,  \* how many callbacks committed (history)
  overrun   \* may a write of this behaviour take longer than its ttl_s?

routerState == <<place, local, holder, fresh, data, seen, commits>>
routerVars == <<routerState, overrun>>

\* Between a successful acquire_lock and the end of the callback's transaction.
Critical == {"read", "commit"}

\* From a successful acquire_lock to the end of release_lock.
Holding == Critical \cup {"publish", "release"}

\* Positions at which the task owns its process's asyncio.Lock.
Inside == Holding \cup {"purge", "insert"}

Places == Inside \cup {"idle", "wait_local"}

InCritical(t) == place[t] \in Critical

Moves(t, l) == place' = [place EXCEPT ![t] = l]

\* Deviation (mutation runs): expired rows are never recognised.
Mut_NeverExpired == FALSE

\* The expiry test of the lock table: the row's expires_at is in the past.
RowExpired == holder # NoTask /\ holder \notin fresh

RouterInit ==
  /\ place = [t \in Tasks |-> "idle"]
  /\ local = [p \in Procs |-> NoTask]
  /\ holder = NoTask
  /\ fresh = {}
  /\ data = 0
  /\ seen = [t \in Tasks |-> 0]
  /\ commits = 0
  /\ overrun \in BOOLEAN

-----------------------------------------------------------------------------
(* routed_write *)

RoutedWrite(t) ==
  /\ place[t] = "idle"
  /\ commits < MaxWrites
  /\ Moves(t, "wait_local")
  /\ UNCHANGED <<local, holder, fresh, data, seen, commits>>

\* Step 1: `async with local_lock`.
TakeLocalLock(t) ==
  /\ place[t] = "wait_local"
  /\ local[ProcOf[t]] = NoTask
  /\ local' = [local EXCEPT ![ProcOf[t]] = t]
  /\ Moves(t, "purge")
  /\ UNCHANGED <<holder, fresh, data, seen, commits>>

\* routed_write returns: the `async with` frees the asyncio.Lock.
Return(t) ==
  /\ Moves(t, "idle")
  /\ local' = [local EXCEPT ![ProcOf[t]] = NoTask]

\* acquire_lock, first statement: delete an expired row of this key.
PurgeExpired(t) ==
  /\ place[t] = "purge"
  /\ holder' = IF RowExpired THEN NoTask ELSE holder
  /\ Moves(t, "insert")
  /\ UNCHANGED <<local, fresh, data, seen, commits>>

\* Deviation (mutation runs): ON CONFLICT DO UPDATE instead of DO NOTHING.
Mut_InsertUpserts(t) ==
  /\ place[t] = "insert"
  /\ holder' = t
  /\ fresh' = fresh \cup {t}
  /\ Moves(t, "read")
  /\ UNCHANGED <<local, data, seen, commits>>

\* acquire_lock, second statement: the INSERT found no row.
InsertLock(t) ==
  /\ place[t] = "insert"
  /\ holder = NoTask
  /\ holder' = t
  /\ fresh' = fresh \cup {t}
  /\ Moves(t, "read")
  /\ UNCHANGED <<local, data, seen, commits>>

\* acquire_lock returns False, because a row is there or because a statement
\* raised: routed_write reports lock_contention and does not release.
Contention(t) ==
  /\ place[t] \in {"purge", "insert"}
  /\ Return(t)
  /\ UNCHANGED <<holder, fresh, data, seen, commits>>

\* The INSERT committed but its answer was lost (command timeout): the row is
\* there and acquire_lock reports False.
InsertAnswerLost(t) ==
  /\ place[t] = "insert"
  /\ holder = NoTask
  /\ holder' = t
  /\ fresh' = fresh \cup {t}
  /\ Return(t)
  /\ UNCHANGED <<data, seen, commits>>

\* Step 3: the callback reads the record inside its transaction ...
WriterReads(t) ==
  /\ place[t] = "read"
  /\ seen' = [seen EXCEPT ![t] = data]
  /\ Moves(t, "commit")
  /\ UNCHANGED <<local, holder, fresh, data, commits>>

\* ... and its transaction commits what it derived from that read.
WriterCommits(t) ==
  /\ place[t] = "commit"
  /\ data' = seen[t] + 1
  /\ commits' = commits + 1
  /\ Moves(t, "publish")
  /\ UNCHANGED <<local, holder, fresh, seen>>

\* The callback raised: the transaction rolls back, `finally` releases.
WriterRaises(t) ==
  /\ place[t] \in Critical
  /\ Moves(t, "release")
  /\ UNCHANGED <<local, holder, fresh, data, seen, commits>>

\* Steps 4 and 5: emit the event and bump the version; neither may fail the write.
Publish(t) ==
  /\ place[t] = "publish"
  /\ Moves(t, "release")
  /\ UNCHANGED <<local, holder, fresh, data, seen, commits>>

\* release_lock: DELETE ... WHERE lock_key = $1, whoever inserted the row.
ReleaseLock(t) ==
  /\ place[t] = "release"
  /\ holder' = NoTask
  /\ Return(t)
  /\ UNCHANGED <<fresh, data, seen, commits>>

\* release_lock swallows a database error: the row stays until its TTL.
ReleaseFails(t) ==
  /\ place[t] = "release"
  /\ Return(t)
  /\ UNCHANGED <<holder, fresh, data, seen, commits>>

-----------------------------------------------------------------------------
(* the scheduler, time and crashes *)

\* cleanup_expired_locks, from the scheduler and the self-healer.
CleanupExpiredLocks ==
  /\ RowExpired
  /\ holder' = NoTask
  /\ UNCHANGED <<place, local, fresh, data, seen, commits>>

\* The TTL of t's last acquisition runs out.  Unless writes may overrun it,
\* this happens only when t has left routed_write or died.
TtlElapses(t) ==
  /\ t \in fresh
  /\ overrun \/ place[t] \notin Holding
  /\ fresh' = fresh \ {t}
  /\ UNCHANGED <<place, local, holder, data, seen, commits>>

\* A process dies: its tasks and asyncio locks are gone, the row is not.
ProcessDies(p) ==
  /\ \E t \in Tasks : ProcOf[t] = p /\ place[t] # "idle"
  /\ place' = [t \in Tasks |-> IF ProcOf[t] = p THEN "idle" ELSE place[t]]
  /\ local' = [local EXCEPT ![p] = NoTask]
  /\ UNCHANGED <<holder, fresh, data, seen, commits>>

TaskStep(t) ==
  \/ TakeLocalLock(t) \/ PurgeExpired(t) \/ InsertLock(t) \/ Contention(t)
  \/ InsertAnswerLost(t) \/ WriterReads(t) \/ WriterCommits(t)
  \/ WriterRaises(t) \/ Publish(t) \/ ReleaseLock(t) \/ ReleaseFails(t)

RouterStep ==
  \/ \E t \in Tasks : RoutedWrite(t) \/ TaskStep(t) \/ TtlElapses(t)
  \/ CleanupExpiredLocks
  \/ \E p \in Procs : ProcessDies(p)

RouterNext == RouterStep /\ UNCHANGED overrun

RouterSpec == RouterInit /\ [][RouterNext]_routerVars

(* asyncio.Lock wakes its waiters in order, so a waiter is not overtaken for *)
(* ever (SF); every other step is a database answer, a timeout or a timer    *)
(* that comes (WF).  Crashes, failures and new calls are not fair.           *)
RouterFairness ==
  /\ \A t \in Tasks :
       /\ SF_routerState(TakeLocalLock(t))
       /\ WF_routerState(TaskStep(t))
       /\ WF_routerState(TtlElapses(t))
  /\ WF_routerState(CleanupExpiredLocks)

RouterFairSpec == RouterSpec /\ RouterFairness

-----------------------------------------------------------------------------
(* Properties *)

RouterTypeOK ==
  /\ place \in [Tasks -> Places]
  /\ local \in [Procs -> Tasks \cup {NoTask}]
  /\ holder \in Tasks \cup {NoTask}
  /\ fresh \in SUBSET Tasks
  /\ data \in Nat
  /\ seen \in [Tasks -> Nat]
  /\ commits \in Nat
  /\ overrun \in BOOLEAN

\* When no write outlives its TTL no committed write is lost: a callback never
\* overwrites the result of another with a value derived from a read made before
\* it, which is what routed_write means by "ALL writes are serialized".  It takes
\* two tasks reading before either commits to break it.
NoLostUpdate == ~overrun => data = commits

\* Two tasks of one process never run their callbacks at the same time, even
\* when writes overrun the TTL and the database lock is lost: the asyncio.Lock
\* is held from before acquire_lock until after release_lock.
SameProcessSerialized ==
  \A t, u \in Tasks :
    InCritical(t) /\ InCritical(u) /\ t # u => ProcOf[t] # ProcOf[u]

\* A task that lost the race for the lock never takes away the winner's row:
\* as long as no TTL runs out mid-write, the row of a task in its transaction
\* stays there until that task leaves.
WriterKeepsItsRow ==
  [][\A t \in Tasks : ~overrun /\ InCritical(t) /\ holder = t /\ place'[t] \in Critical
        => holder' = t]_routerVars

\* "crashes never leave locks permanently stuck": whoever inserted the row and
\* whatever became of it, the key becomes free again.
LockEventuallyFree == holder # NoTask ~> holder = NoTask

=============================================================================
