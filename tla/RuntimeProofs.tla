---------------------------- MODULE RuntimeProofs ----------------------------
(***************************************************************************)
(* What the shared layer under the modules guarantees for every set of     *)
(* tasks, processes, messages and workers.                                 *)
(*                                                                         *)
(* Three parts.  WriteRouter: the asyncio.Lock serializes the tasks of a   *)
(* process whatever happens to the database lock; the database lock        *)
(* serializes the processes, and no update is lost, as long as no write    *)
(* outlives its TTL.  Runtime: the composed layer implements the routed    *)
(* write, so the same holds while dashboards, probes, the self-healer and  *)
(* the node registry run beside it.  QueueArbiter: types hold always, and  *)
(* the rest is about workers that go through arbitrated_dequeue when only  *)
(* dead nodes are swept (Dequeuing): then the claim on the queue row, not  *)
(* the lease, is what keeps workers apart, and the owner of the row is the *)
(* only worker to write the lease row.                                     *)
(***************************************************************************)
EXTENDS QueueArbiter, Runtime, TLAPS

-----------------------------------------------------------------------------
(* Type correctness *)

\* Every variable keeps its type, with no assumption on the TTL.
THEOREM RouterTypeCorrect == RouterSpec => []RouterTypeOK
<1> USE ProcOfAssumption, NoTaskAssumption, BoundAssumption
<1> USE DEF RouterTypeOK, Places, Inside, Holding, Critical
<1>1. RouterInit => RouterTypeOK
  BY DEF RouterInit
<1>2. RouterTypeOK /\ [RouterNext]_routerVars => RouterTypeOK'
  <2> SUFFICES ASSUME RouterTypeOK, [RouterNext]_routerVars PROVE RouterTypeOK'
    OBVIOUS
  <2>0. overrun' = overrun
    BY DEF RouterNext, routerVars
  <2> USE <2>0
  <2>1. ASSUME NEW t \in Tasks, RoutedWrite(t) PROVE RouterTypeOK'
    BY <2>1 DEF RoutedWrite, Moves
  <2>2. ASSUME NEW t \in Tasks, TakeLocalLock(t) PROVE RouterTypeOK'
    BY <2>2 DEF TakeLocalLock, Moves
  <2>3. ASSUME NEW t \in Tasks, PurgeExpired(t) PROVE RouterTypeOK'
    BY <2>3 DEF PurgeExpired, Moves
  <2>4. ASSUME NEW t \in Tasks, InsertLock(t) PROVE RouterTypeOK'
    BY <2>4 DEF InsertLock, Moves
  <2>5. ASSUME NEW t \in Tasks, Contention(t) PROVE RouterTypeOK'
    BY <2>5 DEF Contention, Return, Moves
  <2>6. ASSUME NEW t \in Tasks, InsertAnswerLost(t) PROVE RouterTypeOK'
    BY <2>6 DEF InsertAnswerLost, Return, Moves
  <2>7. ASSUME NEW t \in Tasks, WriterReads(t) PROVE RouterTypeOK'
    BY <2>7 DEF WriterReads, Moves
  <2>8. ASSUME NEW t \in Tasks, WriterCommits(t) PROVE RouterTypeOK'
    BY <2>8 DEF WriterCommits, Moves
  <2>9. ASSUME NEW t \in Tasks, WriterRaises(t) PROVE RouterTypeOK'
    BY <2>9 DEF WriterRaises, Moves
  <2>10. ASSUME NEW t \in Tasks, Publish(t) PROVE RouterTypeOK'
    BY <2>10 DEF Publish, Moves
  <2>11. ASSUME NEW t \in Tasks, ReleaseLock(t) PROVE RouterTypeOK'
    BY <2>11 DEF ReleaseLock, Return, Moves
  <2>12. ASSUME NEW t \in Tasks, ReleaseFails(t) PROVE RouterTypeOK'
    BY <2>12 DEF ReleaseFails, Return, Moves
  <2>13. ASSUME NEW t \in Tasks, TtlElapses(t) PROVE RouterTypeOK'
    BY <2>13 DEF TtlElapses
  <2>14. CASE CleanupExpiredLocks
    BY <2>14 DEF CleanupExpiredLocks
  <2>15. ASSUME NEW p \in Procs, ProcessDies(p) PROVE RouterTypeOK'
    BY <2>15 DEF ProcessDies
  <2>16. CASE UNCHANGED routerVars
    BY <2>16 DEF routerVars, routerState
  <2> QED
    BY <2>1, <2>2, <2>3, <2>4, <2>5, <2>6, <2>7, <2>8, <2>9, <2>10, <2>11,
       <2>12, <2>13, <2>14, <2>15, <2>16 DEF RouterNext, RouterStep, TaskStep
<1> QED
  BY <1>1, <1>2, PTL DEF RouterSpec

-----------------------------------------------------------------------------
(* The asyncio.Lock *)

\* Whoever is inside routed_write past step 1 owns its process's asyncio.Lock.
LocalOwner ==
  \A t \in Tasks : place[t] \in Inside => local[ProcOf[t]] = t

\* LocalOwner is inductive on top of the types.
LEMMA LocalOwnerStep == RouterTypeOK /\ LocalOwner /\ [RouterNext]_routerVars => LocalOwner'
<1> USE ProcOfAssumption, NoTaskAssumption
<1> USE DEF RouterTypeOK, LocalOwner, Places, Inside, Holding, Critical
<1> SUFFICES ASSUME RouterTypeOK, LocalOwner, [RouterNext]_routerVars PROVE LocalOwner'
  OBVIOUS
<1>1. ASSUME NEW t \in Tasks, RoutedWrite(t) PROVE LocalOwner'
  BY <1>1 DEF RoutedWrite, Moves
<1>2. ASSUME NEW t \in Tasks, TakeLocalLock(t) PROVE LocalOwner'
  BY <1>2 DEF TakeLocalLock, Moves
<1>3. ASSUME NEW t \in Tasks,
             \/ PurgeExpired(t) \/ InsertLock(t) \/ WriterReads(t)
             \/ WriterCommits(t) \/ WriterRaises(t) \/ Publish(t)
      PROVE  LocalOwner'
  BY <1>3 DEF PurgeExpired, InsertLock, WriterReads, WriterCommits,
              WriterRaises, Publish, Moves
<1>4. ASSUME NEW t \in Tasks, place[t] \in Inside, Return(t) PROVE LocalOwner'
  \* t owned the lock of its process, so no other task of it was inside
  <2> SUFFICES ASSUME NEW u \in Tasks, place'[u] \in Inside
               PROVE  local'[ProcOf[u]] = u
    OBVIOUS
  <2>1. u # t /\ place[u] \in Inside
    BY <1>4 DEF Return, Moves
  <2>2. ProcOf[u] # ProcOf[t]
    BY <2>1, <1>4
  <2> QED
    BY <2>1, <2>2, <1>4 DEF Return
<1>5. ASSUME NEW t \in Tasks,
             \/ Contention(t) \/ InsertAnswerLost(t)
             \/ ReleaseLock(t) \/ ReleaseFails(t)
      PROVE  LocalOwner'
  BY <1>4, <1>5 DEF Contention, InsertAnswerLost, ReleaseLock, ReleaseFails
<1>6. ASSUME NEW t \in Tasks, TtlElapses(t) PROVE LocalOwner'
  BY <1>6 DEF TtlElapses
<1>7. CASE CleanupExpiredLocks
  BY <1>7 DEF CleanupExpiredLocks
<1>8. ASSUME NEW p \in Procs, ProcessDies(p) PROVE LocalOwner'
  BY <1>8 DEF ProcessDies
<1>9. CASE UNCHANGED routerVars
  BY <1>9 DEF routerVars, routerState
<1> QED
  BY <1>1, <1>2, <1>3, <1>5, <1>6, <1>7, <1>8, <1>9 DEF RouterNext, RouterStep, TaskStep

\* Two callbacks of one process never overlap, TTL overrun or not.
THEOREM LocalSerialization == RouterSpec => []SameProcessSerialized
<1>1. RouterInit => LocalOwner
  BY DEF RouterInit, LocalOwner, Inside, Holding, Critical
<1>2. LocalOwner => SameProcessSerialized
  BY DEF LocalOwner, SameProcessSerialized, InCritical, Inside, Holding
<1> QED
  BY <1>1, <1>2, LocalOwnerStep, RouterTypeCorrect, PTL DEF RouterSpec

-----------------------------------------------------------------------------
(* The database lock, when no write outlives its TTL *)

\* A task that holds the lock is the one that inserted the row, and the row is
\* not expired, so neither a purge nor the clean-up can remove it.
HolderOwnsRow ==
  ~overrun => \A t \in Tasks : place[t] \in Holding => holder = t /\ t \in fresh

\* What a callback read is still the record's value when it commits.
ReadIsCurrent ==
  ~overrun => \A t \in Tasks : place[t] = "commit" => seen[t] = data

LockInv == RouterTypeOK /\ HolderOwnsRow /\ ReadIsCurrent /\ NoLostUpdate

\* LockInv holds initially.
LEMMA LockInvInit == RouterInit => LockInv
BY ProcOfAssumption, NoTaskAssumption
   DEF RouterInit, LockInv, RouterTypeOK, HolderOwnsRow, ReadIsCurrent, NoLostUpdate,
       Places, Inside, Holding, Critical

\* Every step preserves LockInv when TTLs are not overrun.
LEMMA LockInvStep ==
  ASSUME LockInv, [RouterNext]_routerVars, RouterTypeOK'
  PROVE  LockInv'
<1>0. overrun' = overrun
  BY DEF RouterNext, routerVars
<1> USE ProcOfAssumption, NoTaskAssumption, <1>0
<1> USE DEF LockInv, HolderOwnsRow, ReadIsCurrent, NoLostUpdate, Holding, Critical
<1>1. ASSUME NEW t \in Tasks, RoutedWrite(t) \/ TakeLocalLock(t) PROVE LockInv'
  BY <1>1 DEF RoutedWrite, TakeLocalLock, Moves, RouterTypeOK
<1>2. ASSUME NEW t \in Tasks, PurgeExpired(t) PROVE LockInv'
  BY <1>2 DEF PurgeExpired, RowExpired, Moves, RouterTypeOK
<1>3. ASSUME NEW t \in Tasks, InsertLock(t) PROVE LockInv'
  BY <1>3 DEF InsertLock, Moves, RouterTypeOK
<1>4. ASSUME NEW t \in Tasks, Contention(t) PROVE LockInv'
  BY <1>4 DEF Contention, Return, Moves, RouterTypeOK
<1>5. ASSUME NEW t \in Tasks, InsertAnswerLost(t) PROVE LockInv'
  BY <1>5 DEF InsertAnswerLost, Return, Moves, RouterTypeOK
<1>6. ASSUME NEW t \in Tasks, WriterReads(t) PROVE LockInv'
  BY <1>6 DEF WriterReads, Moves, RouterTypeOK
<1>7. ASSUME NEW t \in Tasks, WriterCommits(t) PROVE LockInv'
  BY <1>7 DEF WriterCommits, Moves, RouterTypeOK
<1>8. ASSUME NEW t \in Tasks, WriterRaises(t) \/ Publish(t) PROVE LockInv'
  BY <1>8 DEF WriterRaises, Publish, Moves, RouterTypeOK
<1>9. ASSUME NEW t \in Tasks, ReleaseLock(t) \/ ReleaseFails(t) PROVE LockInv'
  BY <1>9 DEF ReleaseLock, ReleaseFails, Return, Moves, RouterTypeOK
<1>10. ASSUME NEW t \in Tasks, TtlElapses(t) PROVE LockInv'
  BY <1>10 DEF TtlElapses, RouterTypeOK
<1>11. CASE CleanupExpiredLocks
  BY <1>11 DEF CleanupExpiredLocks, RowExpired, RouterTypeOK
<1>12. ASSUME NEW p \in Procs, ProcessDies(p) PROVE LockInv'
  BY <1>12 DEF ProcessDies, RouterTypeOK
<1>13. CASE UNCHANGED routerVars
  BY <1>13 DEF routerVars, routerState, RouterTypeOK
<1> QED
  BY <1>1, <1>2, <1>3, <1>4, <1>5, <1>6, <1>7, <1>8, <1>9, <1>10, <1>11,
     <1>12, <1>13 DEF RouterNext, RouterStep, TaskStep

\* With writes that finish within their TTL, the lock table serializes the
\* callbacks of all processes: no committed update is ever lost.
THEOREM Serialization == RouterSpec => []NoLostUpdate
<1>1. LockInv /\ [RouterNext]_routerVars /\ RouterTypeOK' => LockInv'
  BY LockInvStep
<1>2. LockInv => NoLostUpdate
  BY DEF LockInv
<1> QED
  BY <1>1, <1>2, LockInvInit, RouterTypeCorrect, PTL DEF RouterSpec

\* ... and no step takes the lock row away from a task that is still in its
\* transaction.
THEOREM RowIsKept == RouterSpec => WriterKeepsItsRow
<1> DEFINE Keeps == \A t \in Tasks :
      ~overrun /\ InCritical(t) /\ holder = t /\ place'[t] \in Critical => holder' = t
<1>1. LockInv /\ [RouterNext]_routerVars /\ RouterTypeOK' => LockInv'
  BY LockInvStep
<1>2. LockInv /\ LockInv' /\ [RouterNext]_routerVars => [Keeps]_routerVars
  BY DEF LockInv, HolderOwnsRow, InCritical, Holding, RouterNext
<1>3. RouterSpec => [][Keeps]_routerVars
  BY <1>1, <1>2, LockInvInit, RouterTypeCorrect, PTL DEF RouterSpec
<1> QED
  BY <1>3 DEF WriterKeepsItsRow

-----------------------------------------------------------------------------
(* The composed runtime layer *)

\* The configuration of a behaviour is one of Configurations and stays.
ConfigKept == config \in Configurations

\* A step of the composed layer is a step of the routed write or leaves its
\* variables alone: dashboards, probes, the healer and the nodes do not touch it.
LEMMA RuntimeStepIsRouterStep ==
  ASSUME ConfigKept, [RuntimeNext]_runtimeVars
  PROVE  [RouterNext]_routerVars /\ ConfigKept'
<1>0. ConfigKept'
  BY DEF ConfigKept, RuntimeNext, runtimeVars
<1>1. CASE config.tasks # {} /\ WritesNext
  <2>1. overrun' = overrun
    BY <1>1 DEF WritesNext
  <2>2. ASSUME NEW t \in config.tasks, WriteStep(t) PROVE RouterStep
    <3>1. t \in Tasks
      BY TasksAssumption DEF ConfigKept
    <3> QED
      BY <2>2, <3>1 DEF WriteStep, RouterStep
  <2>3. ASSUME NEW p \in Procs, ProcessDies(p) PROVE RouterStep
    BY <2>3 DEF RouterStep
  <2>4. CleanupExpiredLocks => RouterStep
    BY DEF RouterStep
  <2>5. RouterStep
    BY <1>1, <2>2, <2>3, <2>4 DEF WritesNext
  <2> QED
    BY <1>0, <2>1, <2>5 DEF RouterNext
<1>2. CASE UNCHANGED routerVars
  BY <1>0, <1>2
<1> QED
  BY <1>1, <1>2 DEF RuntimeNext, runtimeVars

\* The composed runtime layer implements the routed write, whatever the other
\* parts of a deployment do.
THEOREM RuntimeRefinesRouter == RuntimeSpec => RouterSpec
<1>1. RuntimeInit => RouterInit /\ ConfigKept
  BY DEF RuntimeInit, ConfigKept
<1>2. ConfigKept /\ [RuntimeNext]_runtimeVars => [RouterNext]_routerVars /\ ConfigKept'
  BY RuntimeStepIsRouterStep
<1> QED
  BY <1>1, <1>2, PTL DEF RuntimeSpec, RouterSpec

\* No committed update is lost in the composed layer when writes finish within
\* their TTL.
THEOREM RuntimeLosesNoUpdate == RuntimeSpec => []NoLostUpdate
BY RuntimeRefinesRouter, Serialization, PTL

\* Nor do two callbacks of one process overlap in it, TTL overrun or not.
THEOREM RuntimeSerializesProcesses == RuntimeSpec => []SameProcessSerialized
BY RuntimeRefinesRouter, LocalSerialization, PTL

-----------------------------------------------------------------------------
(* The ingestion queue and its leases *)

\* The message a worker is busy with is a message.
CurKnown == \A w \in Workers : pc[w] \in Claiming => cur[w] \in Msgs

Typed == TypeOK /\ CurKnown

-----------------------------------------------------------------------------
\* Every step keeps the types, with any mix of workers and any sweeps.
LEMMA TypedStep ==
  ASSUME Typed, [Next]_vars
  PROVE  Typed'
<1> USE SetsAssumption, LimitsAssumption
<1> USE DEF Typed, TypeOK, CurKnown, PCs, Claiming, Working, QStatus, LStatus, queue, lease, worker, hist
<1>0. NoSnap \in Snaps
  BY DEF Snaps, NoSnap
<1> USE <1>0
<1>1. ASSUME NEW w \in Workers, AckMessage(w) PROVE Typed'
  BY <1>1 DEF AckMessage, Goto, Finish, SetQueueStatus
<1>2. ASSUME NEW w \in Workers, FailMessage(w) PROVE Typed'
  BY <1>2 DEF FailMessage, Goto, Finish, SetQueueStatus
<1>3. ASSUME NEW w \in Workers, DeadLetter(w) PROVE Typed'
  BY <1>3 DEF DeadLetter, Goto, Finish, SetQueueStatus
<1>4. ASSUME NEW w \in Workers, QueueCallFails(w) PROVE Typed'
  BY <1>4 DEF QueueCallFails, Goto, Finish
<1>5. ASSUME NEW w \in Workers, AcquireSelect(w) PROVE Typed'
  <2>1. PICK m \in Msgs :
          /\ cur' = [cur EXCEPT ![w] = m]
          /\ snap' = [snap EXCEPT ![w] =
               [status |-> lstat[m], attempts |-> latt[m], active |-> LeaseActive(m)]]
    BY <1>5 DEF AcquireSelect
  <2>2. [status |-> lstat[m], attempts |-> latt[m], active |-> LeaseActive(m)] \in Snaps
    BY DEF Snaps, LeaseActive
  <2> QED
    BY <1>5, <2>1, <2>2 DEF AcquireSelect, Goto
<1>6. ASSUME NEW w \in Workers, AcquireInsert(w) PROVE Typed'
  <2>1. CASE lstat[cur[w]] = "none"
    BY <1>6, <2>1, SMTT(30) DEF AcquireInsert, Goto, Granted, WriteLease, Counted, LesserOf
  <2>2. CASE lstat[cur[w]] # "none" /\ w \in env.direct
    BY <1>6, <2>2 DEF AcquireInsert, Goto, Refused, Finish
  <2>3. CASE lstat[cur[w]] # "none" /\ w \notin env.direct
    BY <1>6, <2>3 DEF AcquireInsert, Goto, Refused
  <2> QED
    BY <2>1, <2>2, <2>3
<1>7. ASSUME NEW w \in Workers, AcquireRefused(w) PROVE Typed'
  <2>1. CASE w \in env.direct
    BY <1>7, <2>1 DEF AcquireRefused, Goto, Refused, Finish
  <2>2. CASE w \notin env.direct
    BY <1>7, <2>2 DEF AcquireRefused, Goto, Refused, Finish
  <2> QED
    BY <2>1, <2>2
<1>8. ASSUME NEW w \in Workers, AcquireReclaim(w) PROVE Typed'
  BY <1>8 DEF AcquireReclaim, Goto, Reclaimable, Granted, WriteLease, Counted, LesserOf, Snaps
<1>9. ASSUME NEW w \in Workers, AcquireDeadLetters(w) PROVE Typed'
  <2>1. CASE w \in env.direct
    BY <1>9, <2>1 DEF AcquireDeadLetters, Goto, Reclaimable, Refused, Finish
  <2>2. CASE w \notin env.direct
    BY <1>9, <2>2 DEF AcquireDeadLetters, Goto, Reclaimable, Refused, Finish
  <2> QED
    BY <2>1, <2>2
<1>10. ASSUME NEW w \in Workers, AcquireFails(w) PROVE Typed'
  <2>1. CASE w \in env.direct
    BY <1>10, <2>1 DEF AcquireFails, Goto, Refused, Finish
  <2>2. CASE w \notin env.direct
    BY <1>10, <2>2 DEF AcquireFails, Goto, Refused, Finish
  <2> QED
    BY <2>1, <2>2
<1>11. ASSUME NEW w \in Workers, AcquireAnswerLost(w) PROVE Typed'
  <2>1. PICK n \in 0..LeaseMax : WriteLease(cur[w], n)
    BY <1>11 DEF AcquireAnswerLost, Reclaimable, Snaps
  <2>2. Refused(w) /\ pc[w] = "select"
    BY <1>11 DEF AcquireAnswerLost, Reclaimable
  <2>3. CASE w \in env.direct
    BY <2>1, <2>2, <2>3, SMTT(30) DEF WriteLease, Refused, Finish, Goto
  <2>4. CASE w \notin env.direct
    BY <2>1, <2>2, <2>4 DEF WriteLease, Refused, Goto
  <2> QED
    BY <2>3, <2>4
<1>12. ASSUME NEW w \in Workers, ReturnCandidate(w) PROVE Typed'
  BY <1>12 DEF ReturnCandidate, Goto, SetQueueStatus
<1>13. ASSUME NEW w \in Workers, HandlerSucceeds(w) PROVE Typed'
  BY <1>13 DEF HandlerSucceeds, Goto, Counted, LesserOf
<1>14. ASSUME NEW w \in Workers, HandlerFails(w) PROVE Typed'
  BY <1>14 DEF HandlerFails, Goto
<1>15. ASSUME NEW w \in Workers, CompleteLease(w) PROVE Typed'
  <2>1. CASE w \in env.direct
    BY <1>15, <2>1 DEF CompleteLease, Goto, ThenClose, Finish
  <2>2. CASE w \notin env.direct
    BY <1>15, <2>2 DEF CompleteLease, Goto, ThenClose, Finish
  <2> QED
    BY <2>1, <2>2
<1>16. ASSUME NEW w \in Workers, FailLeaseSelect(w) PROVE Typed'
  BY <1>16, SMTT(30) DEF FailLeaseSelect, Goto, Snaps
<1>17. ASSUME NEW w \in Workers, FailLeaseUpdate(w) PROVE Typed'
  <2>1. CASE w \in env.direct
    BY <1>17, <2>1, SMTT(30) DEF FailLeaseUpdate, Goto, ThenClose, Finish
  <2>2. CASE w \notin env.direct
    BY <1>17, <2>2 DEF FailLeaseUpdate, Goto, ThenClose, Finish
  <2> QED
    BY <2>1, <2>2
<1>18. ASSUME NEW w \in Workers, DeadLetterLease(w) PROVE Typed'
  <2>1. CASE w \in env.direct
    BY <1>18, <2>1 DEF DeadLetterLease, Goto, ThenClose, Finish
  <2>2. CASE w \notin env.direct
    BY <1>18, <2>2 DEF DeadLetterLease, Goto, ThenClose, Finish
  <2> QED
    BY <2>1, <2>2
<1>19. ASSUME NEW w \in Workers, LeaseCallFails(w) PROVE Typed'
  <2>1. CASE w \in env.direct
    BY <1>19, <2>1 DEF LeaseCallFails, Goto, ThenClose, Finish
  <2>2. CASE w \notin env.direct
    BY <1>19, <2>2 DEF LeaseCallFails, Goto, ThenClose, Finish
  <2> QED
    BY <2>1, <2>2
<1>20. ASSUME NEW w \in Workers, DequeueBatch(w) PROVE Typed'
  BY <1>20 DEF DequeueBatch, Goto, Eligible, LesserOf
<1>21. ASSUME NEW w \in Workers, Crash(w) PROVE Typed'
  BY <1>21 DEF Crash, Goto
<1>22. ASSUME NEW w \in Workers, SweepNode(w) PROVE Typed'
  BY <1>22 DEF SweepNode, Goto, LesserOf
<1>23. ASSUME NEW m \in Msgs, EnqueueMessage(m) PROVE Typed'
  BY <1>23 DEF EnqueueMessage
<1>24. ASSUME NEW m \in Msgs, LeaseAges(m) PROVE Typed'
  BY <1>24 DEF LeaseAges
<1>25. CASE RecoverStaleLeases
  BY <1>25 DEF RecoverStaleLeases
<1>26. CASE UNCHANGED vars
  BY <1>26 DEF vars
<1> QED
  BY <1>1, <1>2, <1>3, <1>4, <1>5, <1>6, <1>7, <1>8, <1>9, <1>10, <1>11, <1>12, <1>13, <1>14, <1>15, <1>16, <1>17, <1>18, <1>19, <1>20, <1>21, <1>22, <1>23, <1>24, <1>25, <1>26
  DEF Next, Step, WorkerStep

\* Every variable of the queue and the lease table keeps its type; in
\* particular no lease row ever counts more than MAX_ATTEMPTS attempts.
THEOREM TypeCorrect == Spec => []TypeOK
<1>1. Init => Typed
  BY SetsAssumption, LimitsAssumption
  DEF Init, Typed, TypeOK, CurKnown, PCs, Claiming, Working, Snaps, NoSnap, QStatus, LStatus, queue, lease, worker, hist
<1>2. Typed /\ [Next]_vars => Typed'
  BY TypedStep
<1> QED
  BY <1>1, <1>2, PTL DEF Spec, Typed

-----------------------------------------------------------------------------
(* Workers that dequeue *)

\* The claim on the queue row is kept by every step.
LEMMA ClaimStep ==
  ASSUME Dequeuing, Typed, ClaimInv, [Next]_vars
  PROVE  ClaimInv'
<1> USE SetsAssumption
<1> USE DEF Dequeuing, Typed, ClaimInv, Owns, TypeOK, CurKnown, PCs, Claiming, Working, Snaps, NoSnap, QStatus, LStatus, queue, lease, worker, hist
<1>1. ASSUME NEW w \in Workers, AckMessage(w) PROVE ClaimInv'
  BY <1>1 DEF AckMessage, Goto, Finish, SetQueueStatus
<1>2. ASSUME NEW w \in Workers, FailMessage(w) PROVE ClaimInv'
  BY <1>2 DEF FailMessage, Goto, Finish, SetQueueStatus
<1>3. ASSUME NEW w \in Workers, DeadLetter(w) PROVE ClaimInv'
  BY <1>3 DEF DeadLetter, Goto, Finish, SetQueueStatus
<1>4. ASSUME NEW w \in Workers, QueueCallFails(w) PROVE ClaimInv'
  BY <1>4 DEF QueueCallFails, Goto, Finish
<1>5. ASSUME NEW w \in Workers, AcquireSelect(w) PROVE ClaimInv'
  BY <1>5 DEF AcquireSelect, Goto
<1>6. ASSUME NEW w \in Workers, AcquireInsert(w) PROVE ClaimInv'
  <2>1. CASE lstat[cur[w]] = "none"
    BY <1>6, <2>1 DEF AcquireInsert, Goto, Granted, Refused, WriteLease, Finish, Counted, LesserOf
  <2>2. CASE lstat[cur[w]] # "none"
    BY <1>6, <2>2 DEF AcquireInsert, Goto, Granted, Refused, WriteLease, Finish, Counted, LesserOf
  <2> QED
    BY <2>1, <2>2
<1>7. ASSUME NEW w \in Workers, AcquireRefused(w) PROVE ClaimInv'
  BY <1>7 DEF AcquireRefused, Goto, Refused, Finish
<1>8. ASSUME NEW w \in Workers, AcquireReclaim(w) PROVE ClaimInv'
  BY <1>8 DEF AcquireReclaim, Goto, Reclaimable, Granted, WriteLease, Counted, LesserOf
<1>9. ASSUME NEW w \in Workers, AcquireDeadLetters(w) PROVE ClaimInv'
  BY <1>9 DEF AcquireDeadLetters, Goto, Reclaimable, Refused, Finish
<1>10. ASSUME NEW w \in Workers, AcquireFails(w) PROVE ClaimInv'
  BY <1>10 DEF AcquireFails, Goto, Refused, Finish
<1>11. ASSUME NEW w \in Workers, AcquireAnswerLost(w) PROVE ClaimInv'
  BY <1>11, SMTT(30) DEF AcquireAnswerLost, Goto, Reclaimable, Refused, WriteLease, Finish
<1>12. ASSUME NEW w \in Workers, ReturnCandidate(w) PROVE ClaimInv'
  BY <1>12 DEF ReturnCandidate, Goto, SetQueueStatus
<1>13. ASSUME NEW w \in Workers, HandlerSucceeds(w) PROVE ClaimInv'
  BY <1>13 DEF HandlerSucceeds, Goto, Counted, LesserOf
<1>14. ASSUME NEW w \in Workers, HandlerFails(w) PROVE ClaimInv'
  BY <1>14 DEF HandlerFails, Goto
<1>15. ASSUME NEW w \in Workers, CompleteLease(w) PROVE ClaimInv'
  <2>1. pc[w] = "complete" /\ Goto(w, "ack") /\ UNCHANGED <<qstat, qproc, cand, cur>>
    BY <1>15 DEF CompleteLease, ThenClose
  <2> QED
    BY <2>1 DEF Goto
<1>16. ASSUME NEW w \in Workers, FailLeaseSelect(w) PROVE ClaimInv'
  BY <1>16 DEF FailLeaseSelect, Goto
<1>17. ASSUME NEW w \in Workers, FailLeaseUpdate(w) PROVE ClaimInv'
  BY <1>17 DEF FailLeaseUpdate, Goto, ThenClose, Finish
<1>18. ASSUME NEW w \in Workers, DeadLetterLease(w) PROVE ClaimInv'
  BY <1>18 DEF DeadLetterLease, Goto, ThenClose, Finish
<1>19. ASSUME NEW w \in Workers, LeaseCallFails(w) PROVE ClaimInv'
  BY <1>19 DEF LeaseCallFails, Goto, ThenClose, Finish
<1>20. ASSUME NEW w \in Workers, DequeueBatch(w) PROVE ClaimInv'
  BY <1>20 DEF DequeueBatch, Goto, Eligible, LesserOf
<1>21. ASSUME NEW w \in Workers, Crash(w) PROVE ClaimInv'
  BY <1>21 DEF Crash, Goto
<1>22. ASSUME NEW w \in Workers, SweepNode(w) PROVE ClaimInv'
  BY <1>22 DEF SweepNode, Goto, LesserOf
<1>23. ASSUME NEW m \in Msgs, EnqueueMessage(m) PROVE ClaimInv'
  BY <1>23 DEF EnqueueMessage
<1>24. ASSUME NEW m \in Msgs, LeaseAges(m) PROVE ClaimInv'
  BY <1>24 DEF LeaseAges
<1>25. CASE RecoverStaleLeases
  BY <1>25 DEF RecoverStaleLeases
<1>26. CASE UNCHANGED vars
  BY <1>26 DEF vars
<1> QED
  BY <1>1, <1>2, <1>3, <1>4, <1>5, <1>6, <1>7, <1>8, <1>9, <1>10, <1>11, <1>12, <1>13, <1>14, <1>15, <1>16, <1>17, <1>18, <1>19, <1>20, <1>21, <1>22, <1>23, <1>24, <1>25, <1>26
  DEF Next, Step, WorkerStep

\* Only the owner of the queue row writes the lease row, but for the recovery loop.
LEMMA LeaseStep ==
  ASSUME Dequeuing, Typed, ClaimInv, LeaseInv, [Next]_vars
  PROVE  LeaseInv'
<1> USE SetsAssumption, LimitsAssumption
<1> USE DEF Dequeuing, Typed, ClaimInv, LeaseInv, Owns, TypeOK, CurKnown, PCs, Claiming, Working, Snaps, NoSnap, QStatus, LStatus, queue, lease, worker, hist
<1>1. ASSUME NEW w \in Workers, AckMessage(w) PROVE LeaseInv'
  BY <1>1 DEF AckMessage, Goto, Finish, SetQueueStatus
<1>2. ASSUME NEW w \in Workers, FailMessage(w) PROVE LeaseInv'
  BY <1>2 DEF FailMessage, Goto, Finish, SetQueueStatus
<1>3. ASSUME NEW w \in Workers, DeadLetter(w) PROVE LeaseInv'
  BY <1>3 DEF DeadLetter, Goto, Finish, SetQueueStatus
<1>4. ASSUME NEW w \in Workers, QueueCallFails(w) PROVE LeaseInv'
  BY <1>4 DEF QueueCallFails, Goto, Finish
<1>5. ASSUME NEW w \in Workers, AcquireSelect(w) PROVE LeaseInv'
  BY <1>5 DEF AcquireSelect, Goto
<1>6. ASSUME NEW w \in Workers, AcquireInsert(w) PROVE LeaseInv'
  <2>1. /\ pc[w] = "select" /\ cur[w] \in Msgs
        /\ \A u \in Workers : u # w /\ pc[u] \in Claiming => cur[u] # cur[w]
    BY <1>6 DEF AcquireInsert
  <2>2. CASE lstat[cur[w]] = "none"
    <3>1. WriteLease(cur[w], 1) /\ Granted(w) /\ runs[cur[w]] = 0
      BY <1>6, <2>1, <2>2 DEF AcquireInsert
    <3>2. \A m \in Msgs : runs'[m] <= latt'[m] /\ (lstat'[m] = "none" => latt'[m] = 0)
      BY <2>1, <3>1 DEF WriteLease, Granted, Counted, LesserOf
    <3>3. ASSUME NEW u \in Workers, u # w, pc'[u] \in Claiming
          PROVE  /\ pc[u] = pc'[u] /\ cur'[u] = cur[u] /\ snap'[u] = snap[u]
                 /\ lstat'[cur[u]] = lstat[cur[u]] /\ latt'[cur[u]] = latt[cur[u]]
      BY <2>1, <3>1, <3>3 DEF WriteLease, Granted, Goto
    <3>4. pc'[w] = "work" /\ lstat'[cur'[w]] = "leased"
      BY <2>1, <3>1 DEF WriteLease, Granted, Goto
    <3> QED
      BY <3>2, <3>3, <3>4
  <2>3. CASE lstat[cur[w]] # "none"
    BY <1>6, <2>1, <2>3 DEF AcquireInsert, Refused, Goto
  <2> QED
    BY <2>2, <2>3
<1>7. ASSUME NEW w \in Workers, AcquireRefused(w) PROVE LeaseInv'
  BY <1>7 DEF AcquireRefused, Goto, Refused, Finish
<1>8. ASSUME NEW w \in Workers, AcquireReclaim(w) PROVE LeaseInv'
  BY <1>8 DEF AcquireReclaim, Goto, Reclaimable, Granted, WriteLease, Counted, LesserOf
<1>9. ASSUME NEW w \in Workers, AcquireDeadLetters(w) PROVE LeaseInv'
  BY <1>9 DEF AcquireDeadLetters, Goto, Reclaimable, Refused, Finish
<1>10. ASSUME NEW w \in Workers, AcquireFails(w) PROVE LeaseInv'
  BY <1>10 DEF AcquireFails, Goto, Refused, Finish
<1>11. ASSUME NEW w \in Workers, AcquireAnswerLost(w) PROVE LeaseInv'
  <2>1. /\ pc[w] = "select" /\ cur[w] \in Msgs
        /\ \A u \in Workers : u # w /\ pc[u] \in Claiming => cur[u] # cur[w]
    BY <1>11 DEF AcquireAnswerLost, Reclaimable
  <2>2. PICK n \in 0..LeaseMax : WriteLease(cur[w], n) /\ runs[cur[w]] <= n
    BY <1>11, <2>1, SMTT(30) DEF AcquireAnswerLost, Reclaimable
  <2>3. Refused(w)
    BY <1>11 DEF AcquireAnswerLost
  <2>4. \A m \in Msgs : runs'[m] <= latt'[m] /\ (lstat'[m] = "none" => latt'[m] = 0)
    BY <2>1, <2>2, <2>3 DEF WriteLease, Refused
  <2>5. ASSUME NEW u \in Workers, u # w, pc'[u] \in Claiming
        PROVE  /\ pc[u] = pc'[u] /\ cur'[u] = cur[u] /\ snap'[u] = snap[u]
               /\ lstat'[cur[u]] = lstat[cur[u]] /\ latt'[cur[u]] = latt[cur[u]]
    BY <2>1, <2>2, <2>3, <2>5 DEF WriteLease, Refused, Goto
  <2>6. pc'[w] = "conflict"
    BY <2>1, <2>3 DEF Refused, Goto
  <2> QED
    BY <2>4, <2>5, <2>6
<1>12. ASSUME NEW w \in Workers, ReturnCandidate(w) PROVE LeaseInv'
  BY <1>12 DEF ReturnCandidate, Goto, SetQueueStatus
<1>13. ASSUME NEW w \in Workers, HandlerSucceeds(w) PROVE LeaseInv'
  BY <1>13 DEF HandlerSucceeds, Goto, Counted, LesserOf
<1>14. ASSUME NEW w \in Workers, HandlerFails(w) PROVE LeaseInv'
  BY <1>14 DEF HandlerFails, Goto
<1>15. ASSUME NEW w \in Workers, CompleteLease(w) PROVE LeaseInv'
  <2>1. pc[w] = "complete" /\ cur[w] \in Msgs /\ Goto(w, "ack") /\ UNCHANGED <<latt, cur, snap, runs>>
    BY <1>15 DEF CompleteLease, ThenClose
  <2>2. \A m \in Msgs : m # cur[w] => lstat'[m] = lstat[m]
    BY <1>15, <2>1 DEF CompleteLease
  <2>3. lstat'[cur[w]] = "completed"
    BY <1>15, <2>1 DEF CompleteLease
  <2>4. \A u \in Workers : u # w /\ pc[u] \in Claiming => cur[u] # cur[w] /\ cur[u] \in Msgs
    BY <2>1
  <2>5. \A u \in Workers : u # w => pc'[u] = pc[u]
    BY <2>1 DEF Goto
  <2>6. pc'[w] = "ack"
    BY <2>1 DEF Goto
  <2> QED
    BY <2>1, <2>2, <2>3, <2>4, <2>5, <2>6
<1>16. ASSUME NEW w \in Workers, FailLeaseSelect(w) PROVE LeaseInv'
  BY <1>16 DEF FailLeaseSelect, Goto
<1>17. ASSUME NEW w \in Workers, FailLeaseUpdate(w) PROVE LeaseInv'
  BY <1>17 DEF FailLeaseUpdate, Goto, ThenClose, Finish
<1>18. ASSUME NEW w \in Workers, DeadLetterLease(w) PROVE LeaseInv'
  <2>1. pc[w] = "bury" /\ cur[w] \in Msgs /\ Goto(w, "dead_msg") /\ UNCHANGED <<latt, cur, snap, runs>>
    BY <1>18 DEF DeadLetterLease, ThenClose
  <2>2. \A m \in Msgs : m # cur[w] => lstat'[m] = lstat[m]
    BY <1>18, <2>1 DEF DeadLetterLease
  <2>3. lstat'[cur[w]] = "dead_letter"
    BY <1>18, <2>1 DEF DeadLetterLease
  <2>4. \A u \in Workers : u # w /\ pc[u] \in Claiming => cur[u] # cur[w] /\ cur[u] \in Msgs
    BY <2>1
  <2>5. \A u \in Workers : u # w => pc'[u] = pc[u]
    BY <2>1 DEF Goto
  <2>6. pc'[w] = "dead_msg"
    BY <2>1 DEF Goto
  <2> QED
    BY <2>1, <2>2, <2>3, <2>4, <2>5, <2>6
<1>19. ASSUME NEW w \in Workers, LeaseCallFails(w) PROVE LeaseInv'
  BY <1>19 DEF LeaseCallFails, Goto, ThenClose, Finish
<1>20. ASSUME NEW w \in Workers, DequeueBatch(w) PROVE LeaseInv'
  BY <1>20 DEF DequeueBatch, Goto, Eligible, LesserOf
<1>21. ASSUME NEW w \in Workers, Crash(w) PROVE LeaseInv'
  BY <1>21 DEF Crash, Goto
<1>22. ASSUME NEW w \in Workers, SweepNode(w) PROVE LeaseInv'
  BY <1>22 DEF SweepNode, Goto, LesserOf
<1>23. ASSUME NEW m \in Msgs, EnqueueMessage(m) PROVE LeaseInv'
  BY <1>23 DEF EnqueueMessage
<1>24. ASSUME NEW m \in Msgs, LeaseAges(m) PROVE LeaseInv'
  BY <1>24 DEF LeaseAges
<1>25. CASE RecoverStaleLeases
  BY <1>25 DEF RecoverStaleLeases
<1>26. CASE UNCHANGED vars
  BY <1>26 DEF vars
<1> QED
  BY <1>1, <1>2, <1>3, <1>4, <1>5, <1>6, <1>7, <1>8, <1>9, <1>10, <1>11, <1>12, <1>13, <1>14, <1>15, <1>16, <1>17, <1>18, <1>19, <1>20, <1>21, <1>22, <1>23, <1>24, <1>25, <1>26
  DEF Next, Step, WorkerStep

\* fail_lease compares the attempts of the row it then marks failed.
LEMMA FailedStep ==
  ASSUME Dequeuing, Typed, ClaimInv, LeaseInv, FailedHasAttemptLeft, [Next]_vars
  PROVE  FailedHasAttemptLeft'
<1> USE SetsAssumption, LimitsAssumption
<1> USE DEF Dequeuing, Typed, ClaimInv, LeaseInv, FailedHasAttemptLeft, TypeOK, CurKnown, PCs, Claiming, Working, Snaps, NoSnap, QStatus, LStatus, queue, lease, worker, hist
<1>1. ASSUME NEW w \in Workers, AckMessage(w) PROVE FailedHasAttemptLeft'
  BY <1>1 DEF AckMessage, Goto, Finish, SetQueueStatus
<1>2. ASSUME NEW w \in Workers, FailMessage(w) PROVE FailedHasAttemptLeft'
  BY <1>2 DEF FailMessage, Goto, Finish, SetQueueStatus
<1>3. ASSUME NEW w \in Workers, DeadLetter(w) PROVE FailedHasAttemptLeft'
  BY <1>3 DEF DeadLetter, Goto, Finish, SetQueueStatus
<1>4. ASSUME NEW w \in Workers, QueueCallFails(w) PROVE FailedHasAttemptLeft'
  BY <1>4 DEF QueueCallFails, Goto, Finish
<1>5. ASSUME NEW w \in Workers, AcquireSelect(w) PROVE FailedHasAttemptLeft'
  BY <1>5 DEF AcquireSelect, Goto
<1>6. ASSUME NEW w \in Workers, AcquireInsert(w) PROVE FailedHasAttemptLeft'
  BY <1>6 DEF AcquireInsert, Goto, Granted, Refused, WriteLease, Finish, Counted, LesserOf
<1>7. ASSUME NEW w \in Workers, AcquireRefused(w) PROVE FailedHasAttemptLeft'
  BY <1>7 DEF AcquireRefused, Goto, Refused, Finish
<1>8. ASSUME NEW w \in Workers, AcquireReclaim(w) PROVE FailedHasAttemptLeft'
  BY <1>8 DEF AcquireReclaim, Goto, Reclaimable, Granted, WriteLease, Counted, LesserOf
<1>9. ASSUME NEW w \in Workers, AcquireDeadLetters(w) PROVE FailedHasAttemptLeft'
  BY <1>9 DEF AcquireDeadLetters, Goto, Reclaimable, Refused, Finish
<1>10. ASSUME NEW w \in Workers, AcquireFails(w) PROVE FailedHasAttemptLeft'
  BY <1>10 DEF AcquireFails, Goto, Refused, Finish
<1>11. ASSUME NEW w \in Workers, AcquireAnswerLost(w) PROVE FailedHasAttemptLeft'
  BY <1>11 DEF AcquireAnswerLost, Goto, Reclaimable, Refused, WriteLease, Finish
<1>12. ASSUME NEW w \in Workers, ReturnCandidate(w) PROVE FailedHasAttemptLeft'
  BY <1>12 DEF ReturnCandidate, Goto, SetQueueStatus
<1>13. ASSUME NEW w \in Workers, HandlerSucceeds(w) PROVE FailedHasAttemptLeft'
  BY <1>13 DEF HandlerSucceeds, Goto, Counted, LesserOf
<1>14. ASSUME NEW w \in Workers, HandlerFails(w) PROVE FailedHasAttemptLeft'
  BY <1>14 DEF HandlerFails, Goto
<1>15. ASSUME NEW w \in Workers, CompleteLease(w) PROVE FailedHasAttemptLeft'
  BY <1>15 DEF CompleteLease, Goto, ThenClose, Finish
<1>16. ASSUME NEW w \in Workers, FailLeaseSelect(w) PROVE FailedHasAttemptLeft'
  BY <1>16 DEF FailLeaseSelect, Goto
<1>17. ASSUME NEW w \in Workers, FailLeaseUpdate(w) PROVE FailedHasAttemptLeft'
  BY <1>17 DEF FailLeaseUpdate, Goto, ThenClose, Finish
<1>18. ASSUME NEW w \in Workers, DeadLetterLease(w) PROVE FailedHasAttemptLeft'
  BY <1>18 DEF DeadLetterLease, Goto, ThenClose, Finish
<1>19. ASSUME NEW w \in Workers, LeaseCallFails(w) PROVE FailedHasAttemptLeft'
  BY <1>19 DEF LeaseCallFails, Goto, ThenClose, Finish
<1>20. ASSUME NEW w \in Workers, DequeueBatch(w) PROVE FailedHasAttemptLeft'
  BY <1>20 DEF DequeueBatch, Goto, Eligible, LesserOf
<1>21. ASSUME NEW w \in Workers, Crash(w) PROVE FailedHasAttemptLeft'
  BY <1>21 DEF Crash, Goto
<1>22. ASSUME NEW w \in Workers, SweepNode(w) PROVE FailedHasAttemptLeft'
  BY <1>22 DEF SweepNode, Goto, LesserOf
<1>23. ASSUME NEW m \in Msgs, EnqueueMessage(m) PROVE FailedHasAttemptLeft'
  BY <1>23 DEF EnqueueMessage
<1>24. ASSUME NEW m \in Msgs, LeaseAges(m) PROVE FailedHasAttemptLeft'
  BY <1>24 DEF LeaseAges
<1>25. CASE RecoverStaleLeases
  BY <1>25 DEF RecoverStaleLeases
<1>26. CASE UNCHANGED vars
  BY <1>26 DEF vars
<1> QED
  BY <1>1, <1>2, <1>3, <1>4, <1>5, <1>6, <1>7, <1>8, <1>9, <1>10, <1>11, <1>12, <1>13, <1>14, <1>15, <1>16, <1>17, <1>18, <1>19, <1>20, <1>21, <1>22, <1>23, <1>24, <1>25, <1>26
  DEF Next, Step, WorkerStep

\* The inductive invariant of the dequeuing workers.
DequeueInv == Typed /\ (Dequeuing => ClaimInv /\ LeaseInv /\ FailedHasAttemptLeft)

\* The inductive invariant holds of every reachable state.
THEOREM DequeueInvariant == Spec => []DequeueInv
<1>1. Init => DequeueInv
  BY SetsAssumption, LimitsAssumption
  DEF Init, DequeueInv, Typed, ClaimInv, LeaseInv, FailedHasAttemptLeft, TypeOK, CurKnown,
      PCs, Claiming, Working, Snaps, NoSnap, QStatus, LStatus
<1>2. DequeueInv /\ [Next]_vars => DequeueInv'
  <2> SUFFICES ASSUME DequeueInv, [Next]_vars PROVE DequeueInv'
    OBVIOUS
  <2>1. Typed'
    BY TypedStep DEF DequeueInv
  <2>2. Dequeuing' => Dequeuing
    BY DEF Dequeuing, Next, vars
  <2>3. Dequeuing => ClaimInv' /\ LeaseInv' /\ FailedHasAttemptLeft'
    BY ClaimStep, LeaseStep, FailedStep DEF DequeueInv
  <2> QED
    BY <2>1, <2>2, <2>3 DEF DequeueInv
<1> QED
  BY <1>1, <1>2, PTL DEF Spec

\* At most one worker at a time works on a message, also when its lease expired
\* under it or a database call failed on the way.
THEOREM Exclusion == Spec => []OneWorkerPerMessage
<1>1. DequeueInv => OneWorkerPerMessage
  BY DEF DequeueInv, ClaimInv, Owns, OneWorkerPerMessage, Claiming
<1> QED
  BY <1>1, DequeueInvariant, PTL

\* No message is handed out more than MAX_ATTEMPTS times, whatever attempts the
\* sweep of dead nodes gives back on the queue row.
THEOREM AttemptsBounded == Spec => []RunsBounded
<1>1. DequeueInv => RunsBounded
  BY LimitsAssumption DEF DequeueInv, Typed, TypeOK, LeaseInv, RunsBounded
<1> QED
  BY <1>1, DequeueInvariant, PTL

\* A lease that fail_lease marked failed has an attempt left.
THEOREM FailedIsRetryable == Spec => [](Dequeuing => FailedHasAttemptLeft)
<1>1. DequeueInv => (Dequeuing => FailedHasAttemptLeft)
  BY DEF DequeueInv
<1> QED
  BY <1>1, DequeueInvariant, PTL

\* A step leaves completed and dead-lettered rows alone.
ClosedStay ==
  \A m \in Msgs : lstat[m] \in {"completed", "dead_letter"} =>
    lstat'[m] = lstat[m] /\ finished'[m] = finished[m]

\* No worker that could write a closed lease row has it at hand.
LEMMA ClosedStep ==
  ASSUME Dequeuing, DequeueInv, [Next]_vars
  PROVE  ClosedStay
<1> USE SetsAssumption, LimitsAssumption
<1> USE DEF Dequeuing, DequeueInv, Typed, ClaimInv, LeaseInv, ClosedStay, TypeOK, CurKnown, PCs, Claiming, Working, Snaps, NoSnap, QStatus, LStatus, queue, lease, worker, hist
<1>1. ASSUME NEW w \in Workers, AckMessage(w) PROVE ClosedStay
  BY <1>1 DEF AckMessage, Goto, Finish, SetQueueStatus
<1>2. ASSUME NEW w \in Workers, FailMessage(w) PROVE ClosedStay
  BY <1>2 DEF FailMessage, Goto, Finish, SetQueueStatus
<1>3. ASSUME NEW w \in Workers, DeadLetter(w) PROVE ClosedStay
  BY <1>3 DEF DeadLetter, Goto, Finish, SetQueueStatus
<1>4. ASSUME NEW w \in Workers, QueueCallFails(w) PROVE ClosedStay
  BY <1>4 DEF QueueCallFails, Goto, Finish
<1>5. ASSUME NEW w \in Workers, AcquireSelect(w) PROVE ClosedStay
  BY <1>5 DEF AcquireSelect, Goto
<1>6. ASSUME NEW w \in Workers, AcquireInsert(w) PROVE ClosedStay
  BY <1>6 DEF AcquireInsert, Goto, Granted, Refused, WriteLease, Finish, Counted, LesserOf
<1>7. ASSUME NEW w \in Workers, AcquireRefused(w) PROVE ClosedStay
  BY <1>7 DEF AcquireRefused, Goto, Refused, Finish
<1>8. ASSUME NEW w \in Workers, AcquireReclaim(w) PROVE ClosedStay
  BY <1>8 DEF AcquireReclaim, Goto, Reclaimable, Granted, WriteLease, Counted, LesserOf
<1>9. ASSUME NEW w \in Workers, AcquireDeadLetters(w) PROVE ClosedStay
  BY <1>9 DEF AcquireDeadLetters, Goto, Reclaimable, Refused, Finish
<1>10. ASSUME NEW w \in Workers, AcquireFails(w) PROVE ClosedStay
  BY <1>10 DEF AcquireFails, Goto, Refused, Finish
<1>11. ASSUME NEW w \in Workers, AcquireAnswerLost(w) PROVE ClosedStay
  BY <1>11 DEF AcquireAnswerLost, Goto, Reclaimable, Refused, WriteLease, Finish
<1>12. ASSUME NEW w \in Workers, ReturnCandidate(w) PROVE ClosedStay
  BY <1>12 DEF ReturnCandidate, Goto, SetQueueStatus
<1>13. ASSUME NEW w \in Workers, HandlerSucceeds(w) PROVE ClosedStay
  BY <1>13 DEF HandlerSucceeds, Goto, Counted, LesserOf
<1>14. ASSUME NEW w \in Workers, HandlerFails(w) PROVE ClosedStay
  BY <1>14 DEF HandlerFails, Goto
<1>15. ASSUME NEW w \in Workers, CompleteLease(w) PROVE ClosedStay
  BY <1>15 DEF CompleteLease, Goto, ThenClose, Finish
<1>16. ASSUME NEW w \in Workers, FailLeaseSelect(w) PROVE ClosedStay
  BY <1>16 DEF FailLeaseSelect, Goto
<1>17. ASSUME NEW w \in Workers, FailLeaseUpdate(w) PROVE ClosedStay
  BY <1>17 DEF FailLeaseUpdate, Goto, ThenClose, Finish
<1>18. ASSUME NEW w \in Workers, DeadLetterLease(w) PROVE ClosedStay
  BY <1>18 DEF DeadLetterLease, Goto, ThenClose, Finish
<1>19. ASSUME NEW w \in Workers, LeaseCallFails(w) PROVE ClosedStay
  BY <1>19 DEF LeaseCallFails, Goto, ThenClose, Finish
<1>20. ASSUME NEW w \in Workers, DequeueBatch(w) PROVE ClosedStay
  BY <1>20 DEF DequeueBatch, Goto, Eligible, LesserOf
<1>21. ASSUME NEW w \in Workers, Crash(w) PROVE ClosedStay
  BY <1>21 DEF Crash, Goto
<1>22. ASSUME NEW w \in Workers, SweepNode(w) PROVE ClosedStay
  BY <1>22 DEF SweepNode, Goto, LesserOf
<1>23. ASSUME NEW m \in Msgs, EnqueueMessage(m) PROVE ClosedStay
  BY <1>23 DEF EnqueueMessage
<1>24. ASSUME NEW m \in Msgs, LeaseAges(m) PROVE ClosedStay
  BY <1>24 DEF LeaseAges
<1>25. CASE RecoverStaleLeases
  BY <1>25 DEF RecoverStaleLeases
<1>26. CASE UNCHANGED vars
  BY <1>26 DEF vars
<1> QED
  BY <1>1, <1>2, <1>3, <1>4, <1>5, <1>6, <1>7, <1>8, <1>9, <1>10, <1>11, <1>12, <1>13, <1>14, <1>15, <1>16, <1>17, <1>18, <1>19, <1>20, <1>21, <1>22, <1>23, <1>24, <1>25, <1>26
  DEF Next, Step, WorkerStep

\* A completed lease is never re-opened and its message never handled again.
THEOREM CompletedStays == Spec => CompletedIsFinal
<1>1. DequeueInv /\ [Next]_vars =>
        [Dequeuing => \A m \in Msgs : lstat[m] = "completed" =>
           lstat'[m] = "completed" /\ finished'[m] = finished[m]]_vars
  BY ClosedStep DEF ClosedStay
<1> QED
  BY <1>1, DequeueInvariant, PTL DEF Spec, CompletedIsFinal

\* A dead-lettered lease stays dead-lettered.
THEOREM DeadLetterStays == Spec => DeadLetterIsFinal
<1>1. DequeueInv /\ [Next]_vars =>
        [Dequeuing => \A m \in Msgs : lstat[m] = "dead_letter" => lstat'[m] = "dead_letter"]_vars
  BY ClosedStep DEF ClosedStay
<1> QED
  BY <1>1, DequeueInvariant, PTL DEF Spec, DeadLetterIsFinal
-----------------------------------------------------------------------------
(* The refinement of ClaimQueue.  A row is claimed while it is 'processing', by *)
(* the worker that processor_id names, also when that worker has died or has    *)
(* dropped the candidate: such a row waits for the sweep of its node.           *)

QueueStatus ==
  [m \in Msgs |-> CASE qstat[m] = "absent" -> "new" [] qstat[m] = "pending" -> "waiting"
                    [] qstat[m] = "processing" -> "claimed" [] OTHER -> "finished"]
QueueOwner == [m \in Msgs |-> IF qstat[m] = "processing" THEN qproc[m] ELSE NoWorker]

Queue == INSTANCE ClaimQueue WITH Items <- Msgs, Nobody <- NoWorker, status <- QueueStatus, owner <- QueueOwner

\* A worker that owns the row of m and writes its status lets go of it.
LEMMA WriteIsLetGo ==
  ASSUME TypeOK, NEW w \in Workers, NEW m \in Msgs, Owns(w, m),
         NEW s \in {"pending", "done", "failed"}, SetQueueStatus(m, s)
  PROVE  Queue!Next
<1> DEFINE a == IF s = "pending" THEN "waiting" ELSE "finished"
<1>1. QueueStatus[m] = "claimed" /\ QueueOwner[m] = w
  BY DEF Owns, QueueStatus, QueueOwner
<1>2. qstat' = [qstat EXCEPT ![m] = s] /\ qproc' = qproc /\ DOMAIN qstat = Msgs
  BY DEF SetQueueStatus, TypeOK
<1>3. QueueStatus' = [QueueStatus EXCEPT ![m] = a]
  BY <1>2 DEF QueueStatus
<1>4. QueueOwner' = [QueueOwner EXCEPT ![m] = NoWorker]
  BY <1>2 DEF QueueOwner
<1>5. Queue!LetGo(w, m, a)
  BY <1>1, <1>3, <1>4 DEF Queue!LetGo
<1>6. a \in {"waiting", "finished"}
  OBVIOUS
<1> HIDE DEF a
<1> QED
  BY <1>5, <1>6 DEF Queue!Next

\* dequeue_batch claims rows that wait.
LEMMA DequeueIsClaim ==
  ASSUME TypeOK, NEW w \in Workers, DequeueBatch(w)
  PROVE  Queue!Next
<1>1. PICK S \in SUBSET Eligible :
        /\ qstat' = [m \in Msgs |-> IF m \in S THEN "processing" ELSE qstat[m]]
        /\ qproc' = [m \in Msgs |-> IF m \in S THEN w ELSE qproc[m]]
  BY DEF DequeueBatch
<1>2. S \in SUBSET Msgs /\ \A m \in S : qstat[m] = "pending"
  BY DEF Eligible
<1>3. /\ \A m \in S : QueueStatus[m] = "waiting"
      /\ QueueStatus' = [m \in Msgs |-> IF m \in S THEN "claimed" ELSE QueueStatus[m]]
  BY <1>1, <1>2 DEF QueueStatus
<1>4. QueueOwner' = [m \in Msgs |-> IF m \in S THEN w ELSE QueueOwner[m]]
  BY <1>1, <1>2 DEF QueueOwner
<1>5. Queue!ClaimSome(w, S)
  BY <1>3, <1>4 DEF Queue!ClaimSome
<1> QED
  BY <1>2, <1>5 DEF Queue!Next

\* _release_claimed_queue_items gives back all rows of the dead node.
LEMMA SweepIsGiveBack ==
  ASSUME TypeOK, NEW w \in Workers, SweepNode(w)
  PROVE  Queue!Next
<1> DEFINE mine == {m \in Msgs : qproc[m] = w /\ qstat[m] \in {"processing", "pending"}}
<1>1. /\ qstat' = [m \in Msgs |-> IF m \in mine THEN "pending" ELSE qstat[m]]
      /\ qproc' = [m \in Msgs |-> IF m \in mine THEN NoWorker ELSE qproc[m]]
  BY DEF SweepNode
<1>2. w # NoWorker
  BY SetsAssumption
<1>3. QueueStatus' = [m \in Msgs |-> IF QueueStatus[m] = "claimed" /\ QueueOwner[m] = w THEN "waiting" ELSE QueueStatus[m]]
  BY <1>1 DEF QueueStatus, QueueOwner, TypeOK, QStatus
<1>4. QueueOwner' = [m \in Msgs |-> IF QueueOwner[m] = w THEN NoWorker ELSE QueueOwner[m]]
  BY <1>1, <1>2 DEF QueueOwner, TypeOK, QStatus
<1>5. Queue!GiveBack(w)
  BY <1>3, <1>4 DEF Queue!GiveBack
<1> QED
  BY <1>5 DEF Queue!Next

\* A new row waits.
LEMMA EnqueueIsPut ==
  ASSUME TypeOK, NEW m \in Msgs, EnqueueMessage(m)
  PROVE  Queue!Next
<1>1. qstat[m] = "absent" /\ qstat' = [qstat EXCEPT ![m] = "pending"] /\ qproc' = qproc /\ DOMAIN qstat = Msgs
  BY DEF EnqueueMessage, TypeOK
<1>2. QueueStatus[m] = "new" /\ QueueStatus' = [QueueStatus EXCEPT ![m] = "waiting"]
  BY <1>1 DEF QueueStatus
<1>3. QueueOwner' = QueueOwner
  BY <1>1 DEF QueueOwner
<1>4. Queue!Put(m)
  BY <1>2, <1>3 DEF Queue!Put
<1> QED
  BY <1>4 DEF Queue!Next

\* While every worker dequeues and only dead nodes are swept, every step is one of
\* ClaimQueue or none.
LEMMA QueueStep ==
  ASSUME Dequeuing, DequeueInv, [Next]_vars
  PROVE  [Queue!Next]_(Queue!queue)
<1>0. TypeOK /\ ClaimInv
  BY DEF DequeueInv, Typed
<1> USE <1>0 DEF lease, worker, hist, queue
<1>a. ASSUME UNCHANGED <<qstat, qproc>> PROVE UNCHANGED Queue!queue
  BY <1>a DEF Queue!queue, QueueStatus, QueueOwner
<1>1. ASSUME NEW w \in Workers, AckMessage(w) PROVE Queue!Next
  <2>1. Owns(w, cur[w]) /\ cur[w] \in Msgs /\ SetQueueStatus(cur[w], "done")
    BY <1>1 DEF AckMessage, ClaimInv, Claiming
  <2> QED
    BY <2>1, WriteIsLetGo
<1>2. ASSUME NEW w \in Workers, FailMessage(w) PROVE Queue!Next
  <2>1. Owns(w, cur[w]) /\ cur[w] \in Msgs /\ SetQueueStatus(cur[w], "pending")
    BY <1>2 DEF FailMessage, ClaimInv, Claiming
  <2> QED
    BY <2>1, WriteIsLetGo
<1>3. ASSUME NEW w \in Workers, DeadLetter(w) PROVE Queue!Next
  <2>1. Owns(w, cur[w]) /\ cur[w] \in Msgs /\ SetQueueStatus(cur[w], "failed")
    BY <1>3 DEF DeadLetter, ClaimInv, Claiming
  <2> QED
    BY <2>1, WriteIsLetGo
<1>4. ASSUME NEW w \in Workers, QueueCallFails(w) PROVE UNCHANGED Queue!queue
  BY <1>4, <1>a DEF QueueCallFails, Goto, Finish
<1>5. ASSUME NEW w \in Workers, AcquireSelect(w) PROVE UNCHANGED Queue!queue
  BY <1>5, <1>a DEF AcquireSelect, Goto
<1>6. ASSUME NEW w \in Workers, AcquireInsert(w) PROVE UNCHANGED Queue!queue
  BY <1>6, <1>a DEF AcquireInsert, Goto, Granted, Refused, WriteLease, Finish, Counted, LesserOf
<1>7. ASSUME NEW w \in Workers, AcquireRefused(w) PROVE UNCHANGED Queue!queue
  BY <1>7, <1>a DEF AcquireRefused, Goto, Refused, Finish
<1>8. ASSUME NEW w \in Workers, AcquireReclaim(w) PROVE UNCHANGED Queue!queue
  BY <1>8, <1>a DEF AcquireReclaim, Goto, Reclaimable, Granted, WriteLease, Counted, LesserOf
<1>9. ASSUME NEW w \in Workers, AcquireDeadLetters(w) PROVE UNCHANGED Queue!queue
  BY <1>9, <1>a DEF AcquireDeadLetters, Goto, Reclaimable, Refused, Finish
<1>10. ASSUME NEW w \in Workers, AcquireFails(w) PROVE UNCHANGED Queue!queue
  BY <1>10, <1>a DEF AcquireFails, Goto, Refused, Finish
<1>11. ASSUME NEW w \in Workers, AcquireAnswerLost(w) PROVE UNCHANGED Queue!queue
  BY <1>11, <1>a DEF AcquireAnswerLost, Goto, Reclaimable, Refused, WriteLease, Finish
<1>12. ASSUME NEW w \in Workers, ReturnCandidate(w) PROVE Queue!Next
  <2>1. Owns(w, cur[w]) /\ cur[w] \in Msgs /\ SetQueueStatus(cur[w], "pending")
    BY <1>12 DEF ReturnCandidate, ClaimInv, Claiming
  <2> QED
    BY <2>1, WriteIsLetGo
<1>13. ASSUME NEW w \in Workers, HandlerSucceeds(w) PROVE UNCHANGED Queue!queue
  BY <1>13, <1>a DEF HandlerSucceeds, Goto, Counted, LesserOf
<1>14. ASSUME NEW w \in Workers, HandlerFails(w) PROVE UNCHANGED Queue!queue
  BY <1>14, <1>a DEF HandlerFails, Goto
<1>15. ASSUME NEW w \in Workers, CompleteLease(w) PROVE UNCHANGED Queue!queue
  BY <1>15, <1>a DEF CompleteLease, Goto, ThenClose, Finish
<1>16. ASSUME NEW w \in Workers, FailLeaseSelect(w) PROVE UNCHANGED Queue!queue
  BY <1>16, <1>a DEF FailLeaseSelect, Goto
<1>17. ASSUME NEW w \in Workers, FailLeaseUpdate(w) PROVE UNCHANGED Queue!queue
  BY <1>17, <1>a DEF FailLeaseUpdate, Goto, ThenClose, Finish
<1>18. ASSUME NEW w \in Workers, DeadLetterLease(w) PROVE UNCHANGED Queue!queue
  BY <1>18, <1>a DEF DeadLetterLease, Goto, ThenClose, Finish
<1>19. ASSUME NEW w \in Workers, LeaseCallFails(w) PROVE UNCHANGED Queue!queue
  BY <1>19, <1>a DEF LeaseCallFails, Goto, ThenClose, Finish
<1>20. ASSUME NEW w \in Workers, DequeueBatch(w) PROVE Queue!Next
  BY <1>20, DequeueIsClaim
<1>21. ASSUME NEW w \in Workers, Crash(w) PROVE UNCHANGED Queue!queue
  BY <1>21, <1>a DEF Crash, Goto
<1>22. ASSUME NEW w \in Workers, SweepNode(w) PROVE Queue!Next
  BY <1>22, SweepIsGiveBack
<1>23. ASSUME NEW m \in Msgs, EnqueueMessage(m) PROVE Queue!Next
  BY <1>23, EnqueueIsPut
<1>24. ASSUME NEW m \in Msgs, LeaseAges(m) PROVE UNCHANGED Queue!queue
  BY <1>24, <1>a DEF LeaseAges
<1>25. CASE RecoverStaleLeases
  BY <1>25, <1>a DEF RecoverStaleLeases
<1>26. CASE UNCHANGED vars
  BY <1>26, <1>a DEF vars
<1> QED
  BY <1>1, <1>2, <1>3, <1>4, <1>5, <1>6, <1>7, <1>8, <1>9, <1>10, <1>11, <1>12, <1>13, <1>14, <1>15, <1>16, <1>17, <1>18, <1>19, <1>20, <1>21, <1>22, <1>23, <1>24, <1>25, <1>26
  DEF Next, Step, WorkerStep

\* Where every worker goes through arbitrated_dequeue and only dead nodes are swept,
\* the ingestion queue implements the claim queue, whatever leases expire, statements
\* fail and workers die: a claimed row is written by its owner or given back in the
\* name of a dead one, and what is done or failed stays so.
THEOREM QueueRefinesClaimQueue == Spec => (Dequeuing => Queue!Spec)
<1>1. Init => Queue!Init
  BY DEF Init, Queue!Init, QueueStatus, QueueOwner
<1>2. Dequeuing /\ [Next]_vars => Dequeuing'
  BY DEF Next, vars, Dequeuing
<1>3. Dequeuing /\ DequeueInv /\ [Next]_vars => [Queue!Next]_(Queue!queue)
  BY QueueStep
<1> QED
  BY <1>1, <1>2, <1>3, DequeueInvariant, PTL DEF Spec, Queue!Spec
=============================================================================
