-------------------------------- MODULE Desk --------------------------------
(***************************************************************************)
(* The admin's desk as a whole: the texts an admin sends                   *)
(* (process_admin_command, with its memory of recent texts and its role    *)
(* check), the HTTP routes and the daily job that start the same handlers, *)
(* the messages of the employees, and a restart of the process.            *)
(***************************************************************************)
EXTENDS Verification, Payday, Roles, BackOffice

(* What the worlds may hold: the texts admins send, by command, and the runs   *)
(* of the month, of which the unique index lets one per employee be active.    *)
RoleNames == {Levels[i] : i \in DOMAIN Levels}
Refs == {NoRef} \cup UNION {e.refs : e \in Environments}
RunStatus == {"draft", "reviewed", "approved", "locked", "paid", "cancelled"}
Run == [emp : Employees, status : RunStatus, key : {<< >>} \cup (Employees \X Refs)]
OneActive(r) ==
  \A i, j \in DOMAIN r : /\ r[i].emp = r[j].emp
                         /\ r[i].status # "cancelled" /\ r[j].status # "cancelled"
                         => i = j
CommandTexts ==
  [op : {"approve", "reject", "edit"}, todo : Seq(Nat) \ {<< >>}, text : Nat]
  \cup [op : {"user_add", "user_role"}, phone : Phones, role : RoleNames]
  \cup [op : {"user_remove"}, phone : Phones, role : {"none"}]
  \cup [op : {"payroll_compute", "schedule_run"}, todo : Seq(Employees) \ {<< >>}]
  \cup [op : {"payroll_trans", "payroll_paid", "payroll_cancel"}, run : Nat, to : RunStatus, ref : Refs]
  \cup [op : {"payimport"}, pay : Payments]

ASSUME DeskAssumption ==
  /\ IsFiniteSet(Tasks) /\ Roster \in Seq(Employees) \ {<< >>}
  /\ MaxRows \in Nat /\ MaxRuns \in Nat /\ MaxDay \in Nat \ {0}
  /\ \A e \in Environments :
       /\ e.atOnce \in Nat /\ e.failures \in BOOLEAN
       /\ e.writers \subseteq People /\ e.admins \subseteq Phones /\ e.texts \subseteq CommandTexts
       /\ \A p \in DOMAIN e.users : e.users[p] \in RoleNames
       /\ e.month \in Seq(Run) /\ OneActive(e.month)

VARIABLES
  recent,    \* _dedup_cache: <<phone, text>>, the oldest first
  restarts   \* restarts so far

vars == <<taskVars, env, deskVars, sessionVars, paydayVars, users, officeVars, recent, restarts>>

Init ==
  /\ TasksInit /\ DeskInit /\ SessionsInit /\ PaydayInit /\ RolesInit /\ OfficeInit
  /\ recent = << >> /\ restarts = 0

-----------------------------------------------------------------------------
(* Texts of admins *)

\* What the handler of a text keeps: the text, who sent it and what it reads.
Command(p, text) ==
  [f \in {"by", "seen", "found"} \cup DOMAIN text |->
     CASE f = "by" -> p [] f = "seen" -> NoJob [] f = "found" -> 0 [] OTHER -> text[f]]

\* A text of the last thirty seconds is dropped in silence.
ReceiveCommand(t, p, text) ==
  /\ \A i \in DOMAIN recent : recent[i] # <<p, text>>
  /\ recent' = Append(recent, <<p, text>>)
  /\ Begin(t, "check", Command(p, text))
  /\ UNCHANGED <<deskVars, sessionVars, paydayVars, users, officeVars, restarts>>

DedupExpires ==
  /\ recent # << >>
  /\ recent' = Tail(recent)
  /\ UNCHANGED <<taskVars, deskVars, sessionVars, paydayVars, users, officeVars, restarts>>

\* Where each command goes.
Entry(op) ==
  CASE op \in {"payroll_compute", "schedule_run"} -> "compute"
    [] op \in {"payroll_trans", "payroll_paid", "payroll_cancel"} -> "transition"
    [] op = "payimport" -> "import"
    [] OTHER -> op

\* ... what it may do; then the command runs.  The check and its audit row are
\* not part of what the command does.
CheckLevel(t) ==
  /\ At(t, "check_level")
  /\ IF Permitted(t) THEN Goto(t, Entry(job[t].op)) ELSE Finish(t)
  /\ UNCHANGED users

\* An error of the role check lets the command through.
CheckFails(t) ==
  /\ env.failures /\ pc[t] \in {"check", "check_level"}
  /\ Goto(t, Entry(job[t].op))
  /\ UNCHANGED users

-----------------------------------------------------------------------------
\* A restart ends every task where it stands and forgets the recent texts; the
\* owners are bootstrapped before anything arrives.
Restart ==
  /\ restarts < env.restarts
  /\ pc' = [t \in Tasks |-> "idle"] /\ job' = [t \in Tasks |-> NoJob]
  /\ recent' = << >> /\ restarts' = restarts + 1
  /\ users' = Bootstrapped(users)
  /\ UNCHANGED <<taken, deskVars, sessionVars, paydayVars, officeVars>>

Arrive ==
  \E w \in env.writers : \/ KeepDraft(w) \/ Complaint(w) \/ SlipDraft(w)
                        \/ AttendanceDraft(w) \/ HandleAttendanceMessage(w)

Request(t) ==
  \/ \E e \in Employees : StartCompute(t, <<e>>)
  \/ StartCompute(t, Roster)
  \/ DailyPayroll(t)
  \/ \E i \in 1..MaxRuns, to \in {"reviewed", "approved", "locked", "cancelled"} : StartTransition(t, i, to, NoRef)
  \/ \E i \in 1..MaxRuns, ref \in env.refs : StartTransition(t, i, "paid", ref)
  \/ \E p \in Payments : StartImport(t, p)

Next ==
  /\ UNCHANGED env
  /\ \/ /\ UNCHANGED <<officeVars, recent, restarts>>
        /\ \/ Arrive /\ UNCHANGED <<taskVars, sessionVars, paydayVars, users>>
           \/ \E t \in Tasks, w \in env.writers, m \in Messages :
                RouteEmployee(t, w, m) /\ UNCHANGED <<paydayVars, users>>
           \/ \E t \in Tasks : DeskStep(t) /\ UNCHANGED <<sessionVars, paydayVars, users>>
           \/ \E t \in Tasks : SessionStep(t) /\ UNCHANGED <<paydayVars, users>>
           \/ \E t \in Tasks : Request(t) /\ UNCHANGED <<deskVars, sessionVars, users>>
           \/ \E t \in Tasks : PaydayStep(t) /\ UNCHANGED <<deskVars, sessionVars, users>>
           \/ \E t \in Tasks, op \in UserRoutes, p \in Phones, role \in {"operator", "superadmin"} :
                UserRoute(t, op, p, role) /\ UNCHANGED <<deskVars, sessionVars, paydayVars>>
           \/ NextDay /\ UNCHANGED <<taskVars, deskVars, sessionVars, users>>
           \/ \E t \in Tasks : (CheckActor(t) \/ CheckLevel(t) \/ CheckFails(t) \/ RolesStep(t))
                                 /\ UNCHANGED <<deskVars, sessionVars, paydayVars>>
     \/ \E t \in Tasks : OfficeStep(t) /\ UNCHANGED <<deskVars, sessionVars, paydayVars, users, recent, restarts>>
     \/ \E t \in Tasks : \E p \in env.admins, text \in env.texts : ReceiveCommand(t, p, text)
     \/ DedupExpires
     \/ Restart

Spec == Init /\ [][Next]_vars

-----------------------------------------------------------------------------
(* Properties *)

\* APPROVE (_cmd_approve): a row marked sent was delivered, and if it is an
\* attendance draft that names somebody it has its row in wbom_attendance, by an
\* employee record that may have been made on the way, unless writing it failed
\* (_save_attendance_from_draft).  Since its last edit a row is delivered at most
\* once by each of the approvals that overlap, and not at all while it waits for
\* one, whatever fails or restarts.  While the commands do not overlap, a row that
\* is neither approved nor sent was not delivered since its last edit, except by an
\* approval that a restart cut short, whose bridge did not confirm the delivery or
\* whose UPDATE to 'sent' failed.
SentAsApproved ==
  \A d \in DOMAIN rows :
    /\ rows[d].status = "sent" => delivered[d] > 0
    /\ rows[d].kind = "attendance" /\ rows[d].named /\ rows[d].status = "sent" /\ d \notin unsaved
         => attendance[rows[d].who] # 0 /\ staff[rows[d].who] > 0
    /\ delivered[d] <= env.atOnce * (edits[d] + 1)
    /\ rows[d].status \in {"pending", "edited"} => delivered[d] <= env.atOnce * edits[d]
    /\ Calm /\ restarts = 0 /\ d \notin unheard /\ rows[d].status \notin {"approved", "sent"}
         => delivered[d] <= edits[d]

\* The ledger of an employee's month is the sum of the transactions that are not
\* deleted (edit_admin_transaction, soft_delete_transaction), however requests on
\* different rows interleave, as long as no statement fails and no two requests
\* work on one row at once.
LedgerFollowsRows ==
  ~clashed /\ restarts = 0 /\ (\A t \in Tasks : pc[t] # "adjust")
    => \A a \in DOMAIN accounts, m \in Months : ledger[a][m].total_paid + ledger[a][m].total_advance = Total(a, m)

\* advance_verification: no payment draft is made from a session before the
\* employee showed what the request needs (a selfie and a slip for an advance, a
\* slip for a release), however messages and the admin's commands overlap.
EvidenceBeforeDraft ==
  \A d \in DOMAIN rows : asked[d] > 0 => shown[d] >= (IF rows[d].asks = "advance" THEN 2 ELSE 1)

\* Nobody is paid twice: an employee's payroll run that was paid is not cancelled
\* and computed again (_transition, compute_run), as long as transitions of one
\* run do not overlap; and a payment message imported several times on a day, also
\* at once, is booked at most once (_ingest_parsed).
PaidOnce ==
  /\ Calm => \A i, j \in DOMAIN paidLog : i # j => runs[paidLog[i]].emp # runs[paidLog[j]].emp
  /\ \A k \in DOMAIN booked : booked[k] <= 1

\* Roles grow only by the user routes, which the application's key opens, by the
\* bootstrap of an owner, or by a command of somebody who holds superadmin when
\* the role is granted, unless the route took that role away while the command ran
\* (check_permission, set_role, add_admin, revoke_role).
RolesFromSuperadmin ==
  [][\A p \in Phones :
       \/ users'[p].roles \subseteq users[p].roles
       \/ restarts' # restarts \/ env.failures
       \/ ~Calm /\ "user_revoke" \in env.routes
       \/ \E t \in Tasks : /\ At(t, "grant")
                           /\ job[t].by = "http" \/ "superadmin" \in users[job[t].by].roles]_vars
=============================================================================
