------------------------------- MODULE Payday -------------------------------
(***************************************************************************)
(* The monthly payroll runs (modules/payroll) of one month and the import  *)
(* of payment messages (modules/payment_ingest), as the admin's commands,  *)
(* the HTTP routes and the daily job use them.                             *)
(***************************************************************************)
EXTENDS DeskTasks

CONSTANTS
  Roster,    \* the active employees, by employee_id
  Payments,  \* payments that really happened, each with its message
  MaxRuns,   \* bound: payroll runs
  MaxDay     \* bound: days

VARIABLES
  runs,     \* wbom_payroll_runs of the month
  paidLog,  \* history: the run of every payout, in order
  staging,  \* wbom_staging_payments, by idempotency key
  booked,   \* history: cash transactions written for a payment on a day
  day       \* date.today()

runVars == <<runs, paidLog>>
ingestVars == <<staging, booked, day>>
paydayVars == <<runs, paidLog, staging, booked, day>>

Employees == {Roster[i] : i \in DOMAIN Roster}
NoRef == "none"

PaydayInit ==
  /\ runs = env.month /\ paidLog = << >> /\ staging = << >> /\ day = 1
  /\ booked = [k \in Payments \X (1..MaxDay) |-> 0]

-----------------------------------------------------------------------------
(* Payroll runs *)

Allowed(s) ==
  CASE s = "draft" -> {"reviewed", "cancelled"}
    [] s = "reviewed" -> {"approved", "draft", "cancelled"}
    [] s = "approved" -> {"locked", "reviewed", "cancelled"}
    [] s = "locked" -> {"paid", "approved", "cancelled"}
    [] OTHER -> {}

ActiveRun(e) == \E i \in DOMAIN runs : runs[i].emp = e /\ runs[i].status # "cancelled"

StartCompute(t, S) ==
  /\ "compute" \in env.routes
  /\ Begin(t, "compute", [op |-> "compute", todo |-> S])
  /\ UNCHANGED paydayVars

\* job_daily_payroll, at its hour or by trigger_job: all employees; an error ends in
\* the job's record.
DailyPayroll(t) ==
  /\ "daily" \in env.routes
  /\ Begin(t, "compute", [op |-> "compute", todo |-> Roster])
  /\ UNCHANGED paydayVars

\* compute_run returns the run that exists, or reads the month and goes on.
ComputeRead(t) ==
  /\ At(t, "compute")
  /\ IF ActiveRun(Item(t)) THEN FinishItem(t, "compute") ELSE Goto(t, "compute_insert")
  /\ UNCHANGED paydayVars

\* The unique index lets one active run in; the error of a second ends the task,
\* the rest of compute_all_for_period with it.
ComputeInsert(t) ==
  /\ At(t, "compute_insert") /\ Len(runs) < MaxRuns
  /\ IF ActiveRun(Item(t)) THEN UNCHANGED runs /\ Finish(t)
     ELSE /\ runs' = Append(runs, [emp |-> Item(t), status |-> "draft", key |-> << >>])
          /\ FinishItem(t, "compute")
  /\ UNCHANGED <<paidLog, ingestVars>>

StartTransition(t, i, to, ref) ==
  /\ to \in env.routes
  /\ Begin(t, "transition", [op |-> "transition", run |-> i, to |-> to, ref |-> ref])
  /\ UNCHANGED paydayVars

TransitionRead(t) ==
  /\ At(t, "transition")
  /\ IF job[t].run \in DOMAIN runs /\ job[t].to \in Allowed(runs[job[t].run].status)
     THEN Goto(t, "transition_write") ELSE Finish(t)
  /\ UNCHANGED paydayVars

\* The payout key has the reference in it, when there is one.
PayoutKey(i, ref) == <<runs[i].emp, ref>>
KeyTaken(i, ref) == \E j \in DOMAIN runs \ {i} : runs[j].key = PayoutKey(i, ref)

\* The UPDATE tests the id only; a payout key of another run makes it fail.  The
\* log row that follows changes nothing here.
TransitionWrite(t) ==
  /\ At(t, "transition_write")
  /\ LET i == job[t].run
     IN  IF job[t].to # "paid"
         THEN runs' = [runs EXCEPT ![i].status = job[t].to] /\ UNCHANGED paidLog
         ELSE IF KeyTaken(i, job[t].ref) THEN UNCHANGED runVars
         ELSE /\ runs' = [runs EXCEPT ![i] = [@ EXCEPT !.status = "paid", !.key = PayoutKey(i, job[t].ref)]]
              /\ paidLog' = Append(paidLog, i)
  /\ Finish(t)
  /\ UNCHANGED ingestVars

-----------------------------------------------------------------------------
(* Payment messages *)

\* The key is a digest of method, transaction id, amount, mobile and the date of
\* the import.
Key(p) == <<p, day>>
Staged(k) == \E i \in DOMAIN staging : staging[i].key = k

StartImport(t, p) ==
  /\ "import" \in env.routes
  /\ Begin(t, "import", [op |-> "import", pay |-> p])
  /\ UNCHANGED paydayVars

\* match_employee answers exactly, with confidence, with doubt or not at all;
\* the amount may lie outside the limits of the automatic booking.
IngestMatch(t) ==
  /\ At(t, "import")
  /\ \E match \in {"high", "low", "none"}, inLimits \in BOOLEAN :
       Continue(t, "import_read", [key |-> Key(job[t].pay),
          status |-> CASE match = "high" /\ inLimits -> "auto_approved"
                       [] match = "none" -> "unmatched" [] OTHER -> "pending"])
  /\ UNCHANGED paydayVars

IngestRead(t) ==
  /\ At(t, "import_read")
  /\ IF Staged(job[t].key) THEN Finish(t) ELSE Goto(t, "import_insert")
  /\ UNCHANGED paydayVars

\* Deviation (mutation runs): nothing makes the key unique.
Mut_NotUnique(k) == FALSE

Refused(k) == Staged(k)

IngestInsert(t) ==
  /\ At(t, "import_insert")
  /\ IF Refused(job[t].key) THEN UNCHANGED staging /\ Finish(t)
     ELSE /\ staging' = Append(staging, [key |-> job[t].key, status |-> job[t].status])
          /\ IF job[t].status = "auto_approved" THEN Goto(t, "book") ELSE Finish(t)
  /\ UNCHANGED <<runVars, booked, day>>

\* _bridge_to_finalize: draft, ledger row, link.  When it fails the staging row
\* stays, and a new import of the message is a duplicate.
BridgeToFinalize(t) ==
  /\ At(t, "book")
  /\ \E fails \in Failure : booked' = IF fails THEN booked ELSE [booked EXCEPT ![job[t].key] = @ + 1]
  /\ Finish(t)
  /\ UNCHANGED <<runVars, staging, day>>

NextDay ==
  /\ "import" \in env.routes /\ day < MaxDay
  /\ day' = day + 1
  /\ UNCHANGED <<runVars, staging, booked>>

PaydayStep(t) ==
  \/ ComputeRead(t) \/ ComputeInsert(t) \/ TransitionRead(t) \/ TransitionWrite(t)
  \/ IngestMatch(t) \/ IngestRead(t) \/ IngestInsert(t) \/ BridgeToFinalize(t)
=============================================================================
