----------------------------- MODULE DeskTasks -----------------------------
(***************************************************************************)
(* What the admin's desk and the month end share: the tasks of the server  *)
(* process, each with the handler it runs.  Every handler is split at its  *)
(* awaits; a task keeps in its job what it read before an await.           *)
(***************************************************************************)
EXTENDS Integers, Sequences, FiniteSets

CONSTANTS
  Tasks,         \* requests, webhooks and jobs handled at a time
  Environments   \* the worlds the model starts in

VARIABLES
  pc, job,   \* a task: its position and its locals
  env,       \* the world: what arrives, what fails
  taken      \* requests taken so far

taskVars == <<pc, job, taken>>

NoJob == [op |-> "none"]

TasksInit ==
  /\ env \in Environments
  /\ pc = [t \in Tasks |-> "idle"] /\ job = [t \in Tasks |-> NoJob] /\ taken = 0

Calm == env.atOnce = 1
Failure == IF env.failures THEN BOOLEAN ELSE {FALSE}

Takes(t) ==
  /\ pc[t] = "idle" /\ taken < env.requests
  /\ Cardinality({u \in Tasks : pc[u] # "idle"}) < env.atOnce
At(t, label) == pc[t] = label

Begin(t, label, j) ==
  /\ Takes(t)
  /\ pc' = [pc EXCEPT ![t] = label] /\ job' = [job EXCEPT ![t] = j]
  /\ taken' = taken + 1

Goto(t, label) == pc' = [pc EXCEPT ![t] = label] /\ UNCHANGED <<job, taken>>

Continue(t, label, j) ==
  /\ pc' = [pc EXCEPT ![t] = label] /\ job' = [job EXCEPT ![t] = j]
  /\ UNCHANGED taken

Finish(t) == Continue(t, "idle", NoJob)

\* The commands on several rows, and the monthly compute, go through a list.
FinishItem(t, first) ==
  IF Len(job[t].todo) > 1 THEN Continue(t, first, [job[t] EXCEPT !.todo = Tail(@)])
  ELSE Finish(t)

Item(t) == Head(job[t].todo)
=============================================================================
