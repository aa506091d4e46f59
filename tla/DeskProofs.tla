---------------------------- MODULE DeskProofs ----------------------------
(***************************************************************************)
(* What the admin's desk guarantees for any people, phones, rosters,       *)
(* texts and tasks, in any of the worlds it starts in.                     *)
(*                                                                         *)
(* Every step is that of one task in one lane: the rows of the desk, the   *)
(* sessions, the month end, the users, the back office.  Moves says which *)
(* variables each lane leaves alone; the invariants of a lane are then     *)
(* kept by the steps of the other lanes without a look at them.            *)
(*                                                                         *)
(* The back office has an invariant of its own: what the ledger lacks is   *)
(* what the requests at work still owe to it.                              *)
(***************************************************************************)
EXTENDS Desk, SequenceTheorems, FiniteSetTheorems, NaturalsInduction, WellFoundedInduction, TLAPS

RowPCs == {"approve", "approve_mark", "att_find", "att_create", "att_save", "send", "mark_sent",
           "reject", "reject_mark", "edit", "edit_mark", "remember", "remember_write"}
SessionPCs == {"verify", "close_stale", "create", "verify_write", "build_draft"}
PaydayPCs == {"compute", "compute_insert", "transition", "transition_write",
              "import", "import_read", "import_insert", "book"}
RolePCs == {"user_add", "user_role", "grant", "user_remove", "user_revoke"}
OfficePCs == {"resolve", "create_account", "add_insert", "adjust", "change", "remove"}
CheckPCs == {"check", "check_level"}
Labels == {"idle"} \cup RowPCs \cup SessionPCs \cup PaydayPCs \cup RolePCs \cup OfficePCs \cup CheckPCs

Keys == Payments \X (1..MaxDay)
Matches == {"auto_approved", "unmatched", "pending"}

TasksOK == DOMAIN pc = Tasks /\ DOMAIN job = Tasks /\ \A t \in Tasks : pc[t] \in Labels

-----------------------------------------------------------------------------
(* What a task keeps, by the command it handles and by its position *)

RowJob(j) == /\ {"todo", "seen", "found", "text"} \subseteq DOMAIN j
             /\ j.todo \in Seq(Nat) /\ j.todo # << >> /\ j.text \in Nat
ComputeJob(j) == "todo" \in DOMAIN j /\ j.todo \in Seq(Employees) /\ j.todo # << >>
TransitionJob(j) == j.run \in Nat /\ j.to \in RunStatus /\ j.ref \in Refs
UserJob(j) == j.phone \in Phones
GrantJob(j) == UserJob(j) /\ j.role \in RoleNames

\* A text on its way through the role check.
TextJob(j) ==
  /\ j.by \in Phones
  /\ j.op \in {"approve", "reject", "edit", "user_add", "user_role", "user_remove", "payroll_compute",
               "schedule_run", "payroll_trans", "payroll_paid", "payroll_cancel", "payimport"}
  /\ j.op \in {"approve", "reject", "edit"} => RowJob(j)
  /\ j.op \in {"user_add", "user_role"} => GrantJob(j)
  /\ j.op = "user_remove" => UserJob(j)
  /\ j.op \in {"payroll_compute", "schedule_run"} => ComputeJob(j)
  /\ j.op \in {"payroll_trans", "payroll_paid", "payroll_cancel"} => TransitionJob(j)
  /\ j.op = "payimport" => j.pay \in Payments

JobOK(l, j) ==
  /\ l \in RowPCs => RowJob(j)
  /\ l \in {"verify", "close_stale", "create"} => j.op \in Messages /\ j.who \in People
  /\ l \in {"close_stale", "create"} => Asks(j.op)
  /\ l \in {"compute", "compute_insert"} => ComputeJob(j)
  /\ l \in {"transition", "transition_write"} => TransitionJob(j)
  /\ l = "import" => j.pay \in Payments
  /\ l \in {"import_read", "import_insert", "book"} => j.key \in Keys
  /\ l \in {"import_read", "import_insert"} => j.status \in Matches
  /\ l = "verify_write" => j.to \in Steps \cup {"verified"}
  /\ l \in {"user_add", "user_role", "grant", "user_revoke"} => GrantJob(j)
  /\ l = "user_remove" => UserJob(j)
  /\ l \in CheckPCs => TextJob(j)

JobsOK == \A t \in Tasks : JobOK(pc[t], job[t])

-----------------------------------------------------------------------------
(* The tables *)

Statuses == Steps \cup {"pending", "rejected_quality", "approved", "sent", "rejected", "edited", "verified"}
DraftRows ==
  [kind : {"reply", "complaint", "release_slip", "attendance", "report", "session"}, who : People,
   status : Statuses, text : Nat, asks : Messages \cup {"none"}, named : BOOLEAN, known : BOOLEAN]
DeskOK ==
  /\ rows \in Seq(DraftRows) /\ Len(rows) <= MaxRows
  /\ staff \in [People -> Nat] /\ attendance \in [People -> Nat]
  /\ delivered \in [1..MaxRows -> Nat] /\ edits \in [1..MaxRows -> Nat]
SessionOK == shown \in [1..MaxRows -> Nat] /\ asked \in [1..MaxRows -> Nat]
StagedRows == [key : Keys, status : Matches]
PaydayOK ==
  /\ runs \in Seq(Run) /\ paidLog \in Seq(Nat)
  /\ staging \in Seq(StagedRows) /\ booked \in [Keys -> Nat] /\ day \in 1..MaxDay
UserRows == [status : {"none", "active", "disabled"}, roles : SUBSET RoleNames]
UsersOK == users \in [Phones -> UserRows]
WorldOK == env \in Environments /\ restarts \in Nat

TypeOK == TasksOK /\ JobsOK /\ DeskOK /\ SessionOK /\ PaydayOK /\ UsersOK /\ WorldOK

\* The rows of f are in g, with everything that APPROVE, EDIT and the sessions
\* leave alone.
RowsKept(f, g) ==
  \A d \in DOMAIN f :
    /\ d \in DOMAIN g /\ g[d].kind = f[d].kind /\ g[d].who = f[d].who /\ g[d].asks = f[d].asks
    /\ g[d].named = f[d].named /\ g[d].known = f[d].known

-----------------------------------------------------------------------------
(* The lanes *)

Others(t) == \A u \in Tasks \ {t} : pc'[u] = pc[u] /\ job'[u] = job[u]
Lane(t, S) == pc[t] \in S /\ pc'[t] \in S \cup {"idle"} /\ Others(t)

\* A task that takes a request, is checked or works in the back office: it enters
\* another lane at its first position, by a route or past the check.
FirstPCs == {"approve", "reject", "edit", "verify", "close_stale", "compute", "transition", "import",
             "user_add", "user_role", "user_remove", "user_revoke"}
Enters(t) ==
  /\ Others(t) /\ pc[t] \in {"idle"} \cup CheckPCs \cup OfficePCs
  /\ pc'[t] \in {"idle"} \cup CheckPCs \cup OfficePCs \cup FirstPCs
  /\ pc[t] = "idle" => pc'[t] = "idle" \/ Takes(t)
  /\ pc[t] \in CheckPCs /\ pc'[t] # "idle" => job'[t] = job[t]
  /\ pc'[t] \in RolePCs =>
       \/ pc[t] = "idle" /\ job'[t].by = "http" /\ pc'[t] \in env.routes
       \/ pc[t] \in CheckPCs /\ (env.failures \/ (pc[t] = "check_level" /\ Permitted(t)))
                             /\ pc'[t] # "user_revoke" /\ pc'[t] = job[t].op
  /\ pc'[t] = "close_stale" => OpenSessions(job'[t].who) = {}

Arrival == Arrive /\ UNCHANGED <<pc, job>>

\* One step of the desk as a whole.
Moves ==
  \/ Arrival /\ UNCHANGED <<sessionVars, paydayVars, users, restarts>>
  \/ \E t \in Tasks : DeskStep(t) /\ Lane(t, RowPCs) /\ UNCHANGED <<sessionVars, paydayVars, users, restarts>>
  \/ \E t \in Tasks : SessionStep(t) /\ Lane(t, SessionPCs) /\ UNCHANGED <<paydayVars, users, restarts>>
  \/ \E t \in Tasks : PaydayStep(t) /\ Lane(t, PaydayPCs) /\ UNCHANGED <<deskVars, sessionVars, users, restarts>>
  \/ \E t \in Tasks : RolesStep(t) /\ Lane(t, RolePCs) /\ UNCHANGED <<deskVars, sessionVars, paydayVars, restarts>>
  \/ NextDay /\ UNCHANGED <<pc, job, deskVars, sessionVars, users, restarts>>
  \/ \E t \in Tasks : Enters(t) /\ UNCHANGED <<deskVars, sessionVars, paydayVars, users, restarts>>
  \/ Restart
  \/ UNCHANGED <<pc, job, deskVars, sessionVars, paydayVars, users, restarts>>

-----------------------------------------------------------------------------
\* APPROVE, REJECT and EDIT stay in the lane of the rows.
LEMMA RowLane ==
  ASSUME TasksOK, NEW t \in Tasks, DeskStep(t)
  PROVE  Lane(t, RowPCs)
<1> USE DEF TasksOK, Lane, Others, RowPCs, At, Goto, Continue, Finish, FinishItem, Begin
<1>1. CASE ApproveRead(t)
  BY <1>1 DEF ApproveRead
<1>2. CASE ApproveMark(t)
  BY <1>2 DEF ApproveMark
<1>3. CASE AttendanceFind(t)
  BY <1>3 DEF AttendanceFind
<1>4. CASE AutoCreateEmployee(t)
  BY <1>4 DEF AutoCreateEmployee
<1>5. CASE SaveAttendance(t)
  BY <1>5 DEF SaveAttendance
<1>6. CASE Send(t)
  BY <1>6 DEF Send
<1>7. CASE MarkSent(t)
  BY <1>7 DEF MarkSent
<1>8. CASE RejectRead(t)
  BY <1>8 DEF RejectRead
<1>9. CASE RejectMark(t)
  BY <1>9 DEF RejectMark
<1>10. CASE EditRead(t)
  BY <1>10 DEF EditRead
<1>11. CASE EditMark(t)
  BY <1>11 DEF EditMark
<1>12. CASE RememberRead(t)
  BY <1>12 DEF RememberRead
<1>13. CASE RememberWrite(t)
  BY <1>13 DEF RememberWrite
<1> QED
  BY <1>1, <1>2, <1>3, <1>4, <1>5, <1>6, <1>7, <1>8, <1>9, <1>10, <1>11, <1>12, <1>13 DEF DeskStep

\* advance_verification and _create_session stay in theirs.
LEMMA SessionLane ==
  ASSUME TasksOK, NEW t \in Tasks, SessionStep(t)
  PROVE  Lane(t, SessionPCs)
<1> USE DEF TasksOK, Lane, Others, SessionPCs, At, Goto, Continue, Finish, FinishItem, Begin
<1>1. CASE CloseStale(t)
  BY <1>1 DEF CloseStale
<1>2. CASE CreateSession(t)
  BY <1>2 DEF CreateSession
<1>3. CASE VerifyRead(t)
  BY <1>3 DEF VerifyRead
<1>4. CASE VerifyWrite(t)
  BY <1>4 DEF VerifyWrite
<1>5. CASE BuildDraft(t)
  BY <1>5 DEF BuildDraft
<1> QED
  BY <1>1, <1>2, <1>3, <1>4, <1>5 DEF SessionStep

\* Payroll and imports stay in theirs.
LEMMA PaydayLane ==
  ASSUME TasksOK, NEW t \in Tasks, PaydayStep(t)
  PROVE  Lane(t, PaydayPCs)
<1> USE DEF TasksOK, Lane, Others, PaydayPCs, At, Goto, Continue, Finish, FinishItem, Begin
<1>1. CASE ComputeRead(t)
  BY <1>1 DEF ComputeRead
<1>2. CASE ComputeInsert(t)
  BY <1>2 DEF ComputeInsert
<1>3. CASE TransitionRead(t)
  BY <1>3 DEF TransitionRead
<1>4. CASE TransitionWrite(t)
  BY <1>4 DEF TransitionWrite
<1>5. CASE IngestMatch(t)
  BY <1>5 DEF IngestMatch
<1>6. CASE IngestRead(t)
  BY <1>6 DEF IngestRead
<1>7. CASE IngestInsert(t)
  BY <1>7 DEF IngestInsert
<1>8. CASE BridgeToFinalize(t)
  BY <1>8 DEF BridgeToFinalize
<1> QED
  BY <1>1, <1>2, <1>3, <1>4, <1>5, <1>6, <1>7, <1>8 DEF PaydayStep

\* The commands on users stay in theirs.
LEMMA RoleLane ==
  ASSUME TasksOK, NEW t \in Tasks, RolesStep(t)
  PROVE  Lane(t, RolePCs)
<1> USE DEF TasksOK, Lane, Others, RolePCs, At, Goto, Continue, Finish, FinishItem, Begin
<1>1. CASE AddUser(t)
  BY <1>1 DEF AddUser
<1>2. CASE SetRole(t)
  BY <1>2 DEF SetRole
<1>3. CASE Grant(t)
  BY <1>3 DEF Grant
<1>4. CASE DisableUser(t)
  BY <1>4 DEF DisableUser
<1>5. CASE RevokeRole(t)
  BY <1>5 DEF RevokeRole
<1> QED
  BY <1>1, <1>2, <1>3, <1>4, <1>5 DEF RolesStep

\* Requests of the back office stay in its positions.
LEMMA OfficeEnters ==
  ASSUME TasksOK, NEW t \in Tasks, OfficeStep(t)
  PROVE  Enters(t)
<1> USE DEF TasksOK, Enters, Others, OfficePCs, CheckPCs, RolePCs, FirstPCs, At, Goto, Continue, Finish, FinishItem, Begin
<1>1. ASSUME NEW who \in Payees, NEW body \in Bodies, StartAdd(t, who, body) PROVE Enters(t)
  BY <1>1 DEF StartAdd, Takes
<1>2. ASSUME NEW i \in 1..MaxEntries, NEW l \in {"change", "remove"}, NEW body, StartChange(t, i, l, body) PROVE Enters(t)
  BY <1>2 DEF StartChange, Takes
<1>3. CASE Resolve(t)
  BY <1>3 DEF Resolve
<1>4. CASE CreateAccount(t)
  BY <1>4 DEF CreateAccount
<1>5. CASE AddInsert(t)
  BY <1>5 DEF AddInsert
<1>6. CASE AdjustLedger(t)
  BY <1>6 DEF AdjustLedger
<1>7. CASE ChangeWrite(t)
  BY <1>7 DEF ChangeWrite
<1>8. CASE RemoveWrite(t)
  BY <1>8 DEF RemoveWrite
<1> QED
  BY <1>1, <1>2, <1>3, <1>4, <1>5, <1>6, <1>7, <1>8 DEF OfficeStep

\* The role check leads a text to the first position of its command.
LEMMA CheckEnters ==
  ASSUME TasksOK, JobsOK, NEW t \in Tasks, CheckActor(t) \/ CheckLevel(t) \/ CheckFails(t)
  PROVE  Enters(t)
<1> USE DEF TasksOK, Enters, Others, OfficePCs, CheckPCs, RolePCs, FirstPCs, At, Goto, Continue, Finish
<1>0. pc[t] \in CheckPCs => TextJob(job[t])
  BY DEF JobsOK, JobOK
<1>1. CASE CheckActor(t)
  BY <1>1 DEF CheckActor
<1>2. pc[t] \in CheckPCs => /\ Entry(job[t].op) \in FirstPCs \ {"verify", "close_stale", "user_revoke"}
                            /\ Entry(job[t].op) \in RolePCs => Entry(job[t].op) = job[t].op
  BY <1>0 DEF TextJob, Entry
<1>3. CASE CheckLevel(t)
  BY <1>2, <1>3 DEF CheckLevel
<1>4. CASE CheckFails(t)
  BY <1>2, <1>4 DEF CheckFails
<1> QED
  BY <1>1, <1>3, <1>4

\* A request starts in an idle task, while others may be under way.
LEMMA RequestEnters ==
  ASSUME TasksOK, NEW t \in Tasks
  PROVE  /\ Request(t) => Enters(t)
         /\ \A w \in env.writers, m \in Messages : RouteEmployee(t, w, m) => Enters(t)
         /\ \A op \in UserRoutes, p \in Phones, role \in {"operator", "superadmin"} :
              UserRoute(t, op, p, role) => Enters(t)
         /\ \A p \in env.admins, text \in env.texts : ReceiveCommand(t, p, text) => Enters(t)
<1> USE DEF TasksOK, Enters, Others, OfficePCs, CheckPCs, RolePCs, FirstPCs, Begin
<1>1. ASSUME NEW S, StartCompute(t, S) PROVE Enters(t)
  BY <1>1 DEF StartCompute, Takes
<1>2. ASSUME DailyPayroll(t) PROVE Enters(t)
  BY <1>2 DEF DailyPayroll, Takes
<1>3. ASSUME NEW i, NEW to, NEW ref, StartTransition(t, i, to, ref) PROVE Enters(t)
  BY <1>3 DEF StartTransition, Takes
<1>4. ASSUME NEW p, StartImport(t, p) PROVE Enters(t)
  BY <1>4 DEF StartImport, Takes
<1>5. Request(t) => Enters(t)
  BY <1>1, <1>2, <1>3, <1>4 DEF Request
<1>6. ASSUME NEW w \in env.writers, NEW m \in Messages, RouteEmployee(t, w, m) PROVE Enters(t)
  <2>1. pc[t] = "idle" /\ Takes(t) /\ Others(t)
    BY <1>6 DEF RouteEmployee, Takes
  <2>2. pc'[t] \in {"verify", "close_stale"}
    BY <1>6 DEF RouteEmployee
  <2>3. pc'[t] = "close_stale" => OpenSessions(job'[t].who) = {}
    BY <1>6 DEF RouteEmployee
  <2> QED
    BY <2>1, <2>2, <2>3
<1>7. ASSUME NEW op \in UserRoutes, NEW p, NEW role, UserRoute(t, op, p, role) PROVE Enters(t)
  BY <1>7 DEF UserRoute, UserRoutes, Takes
<1>8. ASSUME NEW p, NEW text, ReceiveCommand(t, p, text) PROVE Enters(t)
  BY <1>8 DEF ReceiveCommand, Takes
<1> QED
  BY <1>5, <1>6, <1>7, <1>8

\* Every step is one of these.
LEMMA StepKinds ==
  ASSUME TasksOK, JobsOK, [Next]_vars
  PROVE  Moves /\ env' = env
<1>0. env' = env
  BY DEF Next, vars
<1>1. CASE Arrive /\ UNCHANGED <<taskVars, sessionVars, paydayVars, users>> /\ UNCHANGED <<officeVars, recent, restarts>>
  BY <1>0, <1>1 DEF Moves, Arrival, taskVars
<1>2. ASSUME NEW t \in Tasks, DeskStep(t), UNCHANGED <<sessionVars, paydayVars, users>>, restarts' = restarts PROVE Moves
  BY <1>2, RowLane DEF Moves
<1>3. ASSUME NEW t \in Tasks, SessionStep(t), UNCHANGED <<paydayVars, users>>, restarts' = restarts PROVE Moves
  BY <1>3, SessionLane DEF Moves
<1>4. ASSUME NEW t \in Tasks, PaydayStep(t), UNCHANGED <<deskVars, sessionVars, users>>, restarts' = restarts PROVE Moves
  BY <1>4, PaydayLane DEF Moves
<1>5. ASSUME NEW t \in Tasks, RolesStep(t), UNCHANGED <<deskVars, sessionVars, paydayVars>>, restarts' = restarts PROVE Moves
  BY <1>5, RoleLane DEF Moves
<1>6. ASSUME NEW t \in Tasks, Enters(t), UNCHANGED <<deskVars, sessionVars, paydayVars, users>>, restarts' = restarts PROVE Moves
  BY <1>6 DEF Moves
<1>7. ASSUME NEW t \in Tasks, Request(t), UNCHANGED <<deskVars, sessionVars, users>>, restarts' = restarts PROVE Moves
  <2>1. UNCHANGED paydayVars
    BY <1>7 DEF Request, StartCompute, DailyPayroll, StartTransition, StartImport
  <2> QED
    BY <1>6, <1>7, <2>1, RequestEnters
<1>8. ASSUME NEW t \in Tasks, NEW w \in env.writers, NEW m \in Messages, RouteEmployee(t, w, m),
             UNCHANGED <<paydayVars, users>>, restarts' = restarts
      PROVE  Moves
  <2>1. UNCHANGED <<deskVars, sessionVars>>
    BY <1>8 DEF RouteEmployee
  <2> QED
    BY <1>6, <1>8, <2>1, RequestEnters
<1>9. ASSUME NEW t \in Tasks, NEW op \in UserRoutes, NEW p \in Phones, NEW role \in {"operator", "superadmin"},
             UserRoute(t, op, p, role), UNCHANGED <<deskVars, sessionVars, paydayVars>>, restarts' = restarts
      PROVE  Moves
  <2>1. UNCHANGED users
    BY <1>9 DEF UserRoute
  <2> QED
    BY <1>6, <1>9, <2>1, RequestEnters
<1>10. ASSUME NEW t \in Tasks, CheckActor(t) \/ CheckLevel(t) \/ CheckFails(t),
              UNCHANGED <<deskVars, sessionVars, paydayVars>>, restarts' = restarts
       PROVE  Moves
  <2>1. UNCHANGED users
    BY <1>10 DEF CheckActor, CheckLevel, CheckFails
  <2> QED
    BY <1>6, <1>10, <2>1, CheckEnters
<1>11. ASSUME NEW t \in Tasks, OfficeStep(t), UNCHANGED <<deskVars, sessionVars, paydayVars, users, recent, restarts>>
       PROVE  Moves
  BY <1>6, <1>11, OfficeEnters
<1>12. ASSUME NEW t \in Tasks, NEW p \in env.admins, NEW text \in env.texts, ReceiveCommand(t, p, text)
       PROVE  Moves
  <2>1. UNCHANGED <<deskVars, sessionVars, paydayVars, users, restarts>>
    BY <1>12 DEF ReceiveCommand
  <2> QED
    BY <1>6, <1>12, <2>1, RequestEnters
<1>13. CASE NextDay /\ UNCHANGED <<taskVars, deskVars, sessionVars, users>> /\ UNCHANGED <<officeVars, recent, restarts>>
  BY <1>0, <1>13 DEF Moves, taskVars
<1>14. CASE DedupExpires
  BY <1>0, <1>14 DEF Moves, DedupExpires, taskVars
<1>15. CASE Restart
  BY <1>0, <1>15 DEF Moves
<1>16. CASE UNCHANGED vars
  BY <1>0, <1>16 DEF Moves, vars, taskVars
<1> QED
  BY <1>0, <1>1, <1>2, <1>3, <1>4, <1>5, <1>7, <1>8, <1>9, <1>10, <1>11, <1>12, <1>13, <1>14, <1>15, <1>16 DEF Next

-----------------------------------------------------------------------------
(* Jobs *)

\* A list of more than one item has a rest.
LEMMA TailKept ==
  ASSUME NEW S, NEW s \in Seq(S), Len(s) > 1
  PROVE  Tail(s) \in Seq(S) /\ Tail(s) # << >>
<1>1. Len(s) \in Nat /\ Tail(s) \in Seq(S) /\ Len(Tail(s)) = Len(s) - 1
  BY HeadTailProperties, LenProperties
<1>2. Len(Tail(s)) # Len(<< >>)
  BY <1>1
<1> QED
  BY <1>1, <1>2

\* What a handler reads is kept beside the text.
LEMMA RowJobKept ==
  ASSUME NEW j, RowJob(j)
  PROVE  /\ \A r : /\ RowJob([j EXCEPT !.seen = r]) /\ [j EXCEPT !.seen = r].seen = r
                   /\ [j EXCEPT !.seen = r].todo = j.todo
         /\ \A n : /\ RowJob([j EXCEPT !.found = n]) /\ [j EXCEPT !.found = n].seen = j.seen
                   /\ [j EXCEPT !.found = n].todo = j.todo
         /\ Len(j.todo) > 1 => RowJob([j EXCEPT !.todo = Tail(j.todo)])
<1> USE DEF RowJob
<1>1. ASSUME NEW r
      PROVE  /\ RowJob([j EXCEPT !.seen = r]) /\ [j EXCEPT !.seen = r].seen = r
             /\ [j EXCEPT !.seen = r].todo = j.todo
  OBVIOUS
<1>2. ASSUME NEW n
      PROVE  /\ RowJob([j EXCEPT !.found = n]) /\ [j EXCEPT !.found = n].seen = j.seen
             /\ [j EXCEPT !.found = n].todo = j.todo
  OBVIOUS
<1>3. ASSUME Len(j.todo) > 1 PROVE RowJob([j EXCEPT !.todo = Tail(j.todo)])
  <2>1. Tail(j.todo) \in Seq(Nat) /\ Tail(j.todo) # << >>
    BY <1>3, TailKept
  <2>2. [j EXCEPT !.todo = Tail(j.todo)].todo = Tail(j.todo)
    OBVIOUS
  <2>3. DOMAIN [j EXCEPT !.todo = Tail(j.todo)] = DOMAIN j
    OBVIOUS
  <2>4. [j EXCEPT !.todo = Tail(j.todo)].text = j.text
    OBVIOUS
  <2> QED
    BY <2>1, <2>2, <2>3, <2>4
<1> QED
  BY <1>1, <1>2, <1>3

\* compute_all_for_period goes through its list.
LEMMA ComputeJobKept ==
  ASSUME NEW j, ComputeJob(j), Len(j.todo) > 1
  PROVE  ComputeJob([j EXCEPT !.todo = Tail(j.todo)])
<1> USE DEF ComputeJob
<1>1. Tail(j.todo) \in Seq(Employees) /\ Tail(j.todo) # << >>
  BY TailKept
<1>2. [j EXCEPT !.todo = Tail(j.todo)].todo = Tail(j.todo)
  OBVIOUS
<1>3. DOMAIN [j EXCEPT !.todo = Tail(j.todo)] = DOMAIN j
  OBVIOUS
<1> QED
  BY <1>1, <1>2, <1>3

\* The job of a text has the fields of the text.
LEMMA CommandJob ==
  ASSUME NEW p \in Phones, NEW x \in CommandTexts
  PROVE  TextJob(Command(p, x))
<1> DEFINE j == Command(p, x)
<1>0. j.by = p
  BY DEF Command
<1>1. CASE x \in [op : {"approve", "reject", "edit"}, todo : Seq(Nat) \ {<< >>}, text : Nat]
  <2>1. {"op", "todo", "text"} \subseteq DOMAIN x
    BY <1>1
  <2>2. j.op = x.op /\ j.todo = x.todo /\ j.text = x.text /\ {"todo", "seen", "found", "text"} \subseteq DOMAIN j
    BY <2>1 DEF Command
  <2> QED
    BY <1>0, <1>1, <2>2 DEF TextJob, RowJob
<1>2. CASE x \in [op : {"user_add", "user_role"}, phone : Phones, role : RoleNames]
  <2>1. {"op", "phone", "role"} \subseteq DOMAIN x
    BY <1>2
  <2>2. j.op = x.op /\ j.phone = x.phone /\ j.role = x.role
    BY <2>1 DEF Command
  <2> QED
    BY <1>0, <1>2, <2>2 DEF TextJob, GrantJob, UserJob
<1>3. CASE x \in [op : {"user_remove"}, phone : Phones, role : {"none"}]
  <2>1. {"op", "phone"} \subseteq DOMAIN x
    BY <1>3
  <2>2. j.op = x.op /\ j.phone = x.phone
    BY <2>1 DEF Command
  <2> QED
    BY <1>0, <1>3, <2>2 DEF TextJob, UserJob
<1>4. CASE x \in [op : {"payroll_compute", "schedule_run"}, todo : Seq(Employees) \ {<< >>}]
  <2>1. {"op", "todo"} \subseteq DOMAIN x
    BY <1>4
  <2>2. j.op = x.op /\ j.todo = x.todo /\ "todo" \in DOMAIN j
    BY <2>1 DEF Command
  <2> QED
    BY <1>0, <1>4, <2>2 DEF TextJob, ComputeJob
<1>5. CASE x \in [op : {"payroll_trans", "payroll_paid", "payroll_cancel"}, run : Nat, to : RunStatus, ref : Refs]
  <2>1. {"op", "run", "to", "ref"} \subseteq DOMAIN x
    BY <1>5
  <2>2. j.op = x.op /\ j.run = x.run /\ j.to = x.to /\ j.ref = x.ref
    BY <2>1 DEF Command
  <2> QED
    BY <1>0, <1>5, <2>2 DEF TextJob, TransitionJob
<1>6. CASE x \in [op : {"payimport"}, pay : Payments]
  <2>1. {"op", "pay"} \subseteq DOMAIN x
    BY <1>6
  <2>2. j.op = x.op /\ j.pay = x.pay
    BY <2>1 DEF Command
  <2> QED
    BY <1>0, <1>6, <2>2 DEF TextJob
<1> QED
  BY <1>1, <1>2, <1>3, <1>4, <1>5, <1>6 DEF CommandTexts

\* The positions are all different.
LEMMA Moved ==
  ASSUME TasksOK, JobsOK, NEW t \in Tasks, Others(t), DOMAIN pc' = Tasks, DOMAIN job' = Tasks,
         pc'[t] \in Labels, JobOK(pc'[t], job'[t])
  PROVE  TasksOK' /\ JobsOK'
  BY DEF TasksOK, JobsOK, Others, JobOK

\* The jobs of APPROVE, REJECT and EDIT.
LEMMA RowJobs ==
  ASSUME TasksOK, JobsOK, NEW t \in Tasks, DeskStep(t)
  PROVE  JobOK(pc'[t], job'[t]) /\ DOMAIN pc' = Tasks /\ DOMAIN job' = Tasks
<1>0. JobOK(pc[t], job[t]) /\ DOMAIN pc = Tasks /\ DOMAIN job = Tasks
  BY DEF TasksOK, JobsOK
<1> USE <1>0 DEF JobOK, RowPCs, CheckPCs, At, Goto, Continue, Finish, FinishItem, Begin
<1>1. CASE ApproveRead(t)
  <2>1. RowJob(job[t])
    BY <1>1 DEF ApproveRead
  <2>2. CASE Approvable(Item(t))
    <3>1. RowJob([job[t] EXCEPT !.seen = rows[Item(t)]])
      BY <2>1, RowJobKept
    <3>2. job'[t] = [job[t] EXCEPT !.seen = rows[Item(t)]] /\ pc'[t] = "approve_mark"
          /\ DOMAIN pc' = Tasks /\ DOMAIN job' = Tasks
      BY <1>1, <2>2 DEF ApproveRead
    <3> QED
      BY <3>1, <3>2
  <2>3. CASE ~Approvable(Item(t))
    BY <1>1, <2>1, <2>3, RowJobKept DEF ApproveRead
  <2> QED
    BY <2>2, <2>3
<1>2. CASE ApproveMark(t)
  BY <1>2 DEF ApproveMark
<1>3. CASE AttendanceFind(t)
  BY <1>3 DEF AttendanceFind
<1>4. CASE AutoCreateEmployee(t)
  BY <1>4 DEF AutoCreateEmployee
<1>5. CASE SaveAttendance(t)
  BY <1>5 DEF SaveAttendance
<1>6. CASE Send(t)
  BY <1>6, RowJobKept DEF Send
<1>7. CASE MarkSent(t)
  BY <1>7, RowJobKept DEF MarkSent
<1>8. CASE RejectRead(t)
  BY <1>8, RowJobKept DEF RejectRead
<1>9. CASE RejectMark(t)
  BY <1>9, RowJobKept DEF RejectMark
<1>10. CASE EditRead(t)
  <2>1. RowJob(job[t])
    BY <1>10 DEF EditRead
  <2>2. CASE Exists(Item(t))
    <3>1. RowJob([job[t] EXCEPT !.seen = rows[Item(t)]])
      BY <2>1, RowJobKept
    <3>2. job'[t] = [job[t] EXCEPT !.seen = rows[Item(t)]] /\ pc'[t] = "edit_mark"
          /\ DOMAIN pc' = Tasks /\ DOMAIN job' = Tasks
      BY <1>10, <2>2 DEF EditRead
    <3> QED
      BY <3>1, <3>2
  <2>3. CASE ~Exists(Item(t))
    BY <1>10, <2>3 DEF EditRead
  <2> QED
    BY <2>2, <2>3
<1>11. CASE EditMark(t)
  BY <1>11 DEF EditMark
<1>12. CASE RememberRead(t)
  <2>1. RowJob(job[t])
    BY <1>12 DEF RememberRead
  <2>2. CASE Eligible(job[t].seen)
    <3> DEFINE n == Len(memory[job[t].seen.who])
    <3>1. RowJob([job[t] EXCEPT !.found = n])
      BY <2>1, RowJobKept
    <3>2. job'[t] = [job[t] EXCEPT !.found = n] /\ pc'[t] = "remember_write"
          /\ DOMAIN pc' = Tasks /\ DOMAIN job' = Tasks
      BY <1>12, <2>2 DEF RememberRead
    <3> QED
      BY <3>1, <3>2
  <2>3. CASE ~Eligible(job[t].seen)
    BY <1>12, <2>3 DEF RememberRead
  <2> QED
    BY <2>2, <2>3
<1>13. CASE RememberWrite(t)
  BY <1>13 DEF RememberWrite
<1> QED
  BY <1>1, <1>2, <1>3, <1>4, <1>5, <1>6, <1>7, <1>8, <1>9, <1>10, <1>11, <1>12, <1>13 DEF DeskStep

\* Those of the sessions.
LEMMA SessionJobs ==
  ASSUME TasksOK, JobsOK, NEW t \in Tasks, SessionStep(t)
  PROVE  JobOK(pc'[t], job'[t]) /\ DOMAIN pc' = Tasks /\ DOMAIN job' = Tasks
<1>0. JobOK(pc[t], job[t]) /\ DOMAIN pc = Tasks /\ DOMAIN job = Tasks
  BY DEF TasksOK, JobsOK
<1> USE <1>0 DEF JobOK, RowPCs, CheckPCs, At, Goto, Continue, Finish, FinishItem, Begin
<1>1. CASE CloseStale(t)
  BY <1>1 DEF CloseStale
<1>2. CASE CreateSession(t)
  BY <1>2 DEF CreateSession
<1>3. CASE VerifyRead(t)
  BY <1>3 DEF VerifyRead, NextStep, Steps
<1>4. CASE VerifyWrite(t)
  BY <1>4 DEF VerifyWrite
<1>5. CASE BuildDraft(t)
  BY <1>5 DEF BuildDraft
<1> QED
  BY <1>1, <1>2, <1>3, <1>4, <1>5 DEF SessionStep

\* Those of the month end.
LEMMA PaydayJobs ==
  ASSUME TasksOK, JobsOK, PaydayOK, NEW t \in Tasks, PaydayStep(t)
  PROVE  JobOK(pc'[t], job'[t]) /\ DOMAIN pc' = Tasks /\ DOMAIN job' = Tasks
<1>0. JobOK(pc[t], job[t]) /\ DOMAIN pc = Tasks /\ DOMAIN job = Tasks
  BY DEF TasksOK, JobsOK
<1> USE <1>0 DEF JobOK, RowPCs, CheckPCs, At, Goto, Continue, Finish, FinishItem, Begin
<1>1. CASE ComputeRead(t)
  BY <1>1, ComputeJobKept DEF ComputeRead
<1>2. CASE ComputeInsert(t)
  BY <1>2, ComputeJobKept DEF ComputeInsert
<1>3. CASE TransitionRead(t)
  BY <1>3 DEF TransitionRead
<1>4. CASE TransitionWrite(t)
  BY <1>4 DEF TransitionWrite
<1>5. CASE IngestMatch(t)
  BY <1>5 DEF IngestMatch, Key, Keys, Matches, PaydayOK
<1>6. CASE IngestRead(t)
  BY <1>6 DEF IngestRead
<1>7. CASE IngestInsert(t)
  BY <1>7 DEF IngestInsert
<1>8. CASE BridgeToFinalize(t)
  BY <1>8 DEF BridgeToFinalize
<1> QED
  BY <1>1, <1>2, <1>3, <1>4, <1>5, <1>6, <1>7, <1>8 DEF PaydayStep

\* Those of the commands on users.
LEMMA RoleJobs ==
  ASSUME TasksOK, JobsOK, NEW t \in Tasks, RolesStep(t)
  PROVE  JobOK(pc'[t], job'[t]) /\ DOMAIN pc' = Tasks /\ DOMAIN job' = Tasks
<1>0. JobOK(pc[t], job[t]) /\ DOMAIN pc = Tasks /\ DOMAIN job = Tasks
  BY DEF TasksOK, JobsOK
<1> USE <1>0 DEF JobOK, RowPCs, CheckPCs, At, Goto, Continue, Finish, FinishItem, Begin
<1>1. CASE AddUser(t)
  BY <1>1 DEF AddUser
<1>2. CASE SetRole(t)
  BY <1>2 DEF SetRole
<1>3. CASE Grant(t)
  BY <1>3 DEF Grant
<1>4. CASE DisableUser(t)
  BY <1>4 DEF DisableUser
<1>5. CASE RevokeRole(t)
  BY <1>5 DEF RevokeRole
<1> QED
  BY <1>1, <1>2, <1>3, <1>4, <1>5 DEF RolesStep

\* Those of the back office and of the requests.
LEMMA EnterJobs ==
  ASSUME TasksOK, JobsOK, WorldOK, NEW t \in Tasks,
         \/ OfficeStep(t)
         \/ CheckActor(t) \/ CheckLevel(t) \/ CheckFails(t)
         \/ Request(t)
         \/ \E w \in env.writers, m \in Messages : RouteEmployee(t, w, m)
         \/ \E op \in UserRoutes, p \in Phones, role \in {"operator", "superadmin"} : UserRoute(t, op, p, role)
         \/ \E p \in env.admins, text \in env.texts : ReceiveCommand(t, p, text)
  PROVE  JobOK(pc'[t], job'[t]) /\ DOMAIN pc' = Tasks /\ DOMAIN job' = Tasks
<1>0. JobOK(pc[t], job[t]) /\ DOMAIN pc = Tasks /\ DOMAIN job = Tasks
  BY DEF TasksOK, JobsOK
<1>e. /\ env.writers \subseteq People /\ env.admins \subseteq Phones /\ env.texts \subseteq CommandTexts
      /\ env.refs \subseteq Refs
  BY DeskAssumption DEF WorldOK, Refs
<1> DEFINE G == JobOK(pc'[t], job'[t]) /\ DOMAIN pc' = Tasks /\ DOMAIN job' = Tasks
<1> USE <1>0 DEF JobOK, RowPCs, CheckPCs, At, Goto, Continue, Finish, FinishItem, Begin
<1>1. ASSUME NEW who \in Payees, NEW body \in Bodies, StartAdd(t, who, body) PROVE G
  BY <1>1 DEF StartAdd
<1>2. ASSUME NEW i \in 1..MaxEntries, NEW l \in {"change", "remove"}, NEW body, StartChange(t, i, l, body) PROVE G
  BY <1>2 DEF StartChange
<1>3. CASE Resolve(t)
  BY <1>3 DEF Resolve
<1>4. CASE CreateAccount(t)
  BY <1>4 DEF CreateAccount
<1>5. CASE AddInsert(t)
  BY <1>5 DEF AddInsert
<1>6. CASE AdjustLedger(t)
  BY <1>6 DEF AdjustLedger
<1>7. CASE ChangeWrite(t)
  BY <1>7 DEF ChangeWrite
<1>8. CASE RemoveWrite(t)
  BY <1>8 DEF RemoveWrite
<1>9. CASE CheckActor(t)
  BY <1>9 DEF CheckActor
<1>10. CASE CheckLevel(t)
  BY <1>10 DEF CheckLevel, Entry, TextJob
<1>11. CASE CheckFails(t)
  BY <1>11 DEF CheckFails, Entry, TextJob
<1>12. ASSUME NEW e \in Employees, StartCompute(t, <<e>>) PROVE G
  BY <1>12 DEF StartCompute, ComputeJob
<1>13. ASSUME StartCompute(t, Roster) \/ DailyPayroll(t) PROVE G
  BY <1>13, DeskAssumption DEF StartCompute, DailyPayroll, ComputeJob
<1>14. ASSUME NEW i \in 1..MaxRuns, NEW to \in RunStatus, NEW ref \in Refs, StartTransition(t, i, to, ref) PROVE G
  BY <1>14 DEF StartTransition, TransitionJob
<1>15. ASSUME NEW p \in Payments, StartImport(t, p) PROVE G
  BY <1>15 DEF StartImport
<1>16. ASSUME NEW w \in People, NEW m \in Messages, RouteEmployee(t, w, m) PROVE G
  <2>1. pc'[t] \in {"verify", "close_stale"} /\ job'[t] = [op |-> m, who |-> w]
    BY <1>16 DEF RouteEmployee
  <2>2. pc'[t] = "close_stale" => Asks(m)
    BY <1>16 DEF RouteEmployee
  <2>3. job'[t].op = m /\ job'[t].who = w
    BY <2>1
  <2>4. DOMAIN pc' = Tasks /\ DOMAIN job' = Tasks
    BY <1>16 DEF RouteEmployee
  <2> QED
    BY <1>16, <2>1, <2>2, <2>3, <2>4
<1>17. ASSUME NEW op \in UserRoutes, NEW p \in Phones, NEW role \in {"operator", "superadmin"}, UserRoute(t, op, p, role) PROVE G
  <2>1. {"operator", "superadmin"} \subseteq RoleNames
    BY DEF RoleNames, Levels
  <2> QED
    BY <1>17, <2>1 DEF UserRoute, UserRoutes, GrantJob, UserJob
<1>18. ASSUME NEW p \in Phones, NEW text \in CommandTexts, ReceiveCommand(t, p, text) PROVE G
  BY <1>18, CommandJob DEF ReceiveCommand
<1>19. NoRef \in Refs /\ {"reviewed", "approved", "locked", "cancelled", "paid"} \subseteq RunStatus
  BY DEF Refs, RunStatus
<1>20. OfficeStep(t) => G
  BY <1>1, <1>2, <1>3, <1>4, <1>5, <1>6, <1>7, <1>8 DEF OfficeStep
<1>21. Request(t) => G
  <2> SUFFICES ASSUME Request(t) PROVE G
    OBVIOUS
  <2> USE DEF Request
  <2> HIDE DEF G
  <2> QED
    BY <1>e, <1>12, <1>13, <1>14, <1>15, <1>19
<1> QED
  BY <1>e, <1>9, <1>10, <1>11, <1>16, <1>17, <1>18, <1>20, <1>21

\* Every step leaves every task with a job that fits its position.
LEMMA JobsStep ==
  ASSUME TypeOK, [Next]_vars
  PROVE  TasksOK' /\ JobsOK'
<1>0. TasksOK /\ JobsOK /\ PaydayOK /\ WorldOK
  BY DEF TypeOK
<1>1. ASSUME NEW t \in Tasks, NEW S \in {RowPCs, SessionPCs, PaydayPCs, RolePCs}, Lane(t, S)
      PROVE  Others(t) /\ pc'[t] \in Labels
  BY <1>1 DEF Lane, Labels
<1>2. ASSUME NEW t \in Tasks, DeskStep(t) PROVE TasksOK' /\ JobsOK'
  BY <1>0, <1>1, <1>2, RowLane, RowJobs, Moved
<1>3. ASSUME NEW t \in Tasks, SessionStep(t) PROVE TasksOK' /\ JobsOK'
  BY <1>0, <1>1, <1>3, SessionLane, SessionJobs, Moved
<1>4. ASSUME NEW t \in Tasks, PaydayStep(t) PROVE TasksOK' /\ JobsOK'
  BY <1>0, <1>1, <1>4, PaydayLane, PaydayJobs, Moved
<1>5. ASSUME NEW t \in Tasks, RolesStep(t) PROVE TasksOK' /\ JobsOK'
  BY <1>0, <1>1, <1>5, RoleLane, RoleJobs, Moved
<1>6. ASSUME NEW t \in Tasks, Enters(t), JobOK(pc'[t], job'[t]), DOMAIN pc' = Tasks, DOMAIN job' = Tasks
      PROVE  TasksOK' /\ JobsOK'
  <2>1. Others(t) /\ pc'[t] \in Labels
    BY <1>6 DEF Enters, Labels, FirstPCs, RowPCs, SessionPCs, PaydayPCs, RolePCs
  <2> QED
    BY <1>0, <1>6, <2>1, Moved
<1>7. ASSUME NEW t \in Tasks, OfficeStep(t) PROVE TasksOK' /\ JobsOK'
  BY <1>0, <1>6, <1>7, OfficeEnters, EnterJobs
<1>8. ASSUME NEW t \in Tasks, CheckActor(t) \/ CheckLevel(t) \/ CheckFails(t) PROVE TasksOK' /\ JobsOK'
  BY <1>0, <1>6, <1>8, CheckEnters, EnterJobs
<1>9. ASSUME NEW t \in Tasks,
             \/ Request(t)
             \/ \E w \in env.writers, m \in Messages : RouteEmployee(t, w, m)
             \/ \E op \in UserRoutes, p \in Phones, role \in {"operator", "superadmin"} : UserRoute(t, op, p, role)
             \/ \E p \in env.admins, text \in env.texts : ReceiveCommand(t, p, text)
      PROVE  TasksOK' /\ JobsOK'
  <2>1. Enters(t)
    BY <1>0, <1>9, RequestEnters
  <2>2. JobOK(pc'[t], job'[t]) /\ DOMAIN pc' = Tasks /\ DOMAIN job' = Tasks
    BY <1>0, <1>9, EnterJobs
  <2> QED
    BY <1>6, <2>1, <2>2
<1>10. CASE UNCHANGED <<pc, job>>
  BY <1>0, <1>10 DEF TasksOK, JobsOK, JobOK
<1>11. CASE Restart
  BY <1>0, <1>11 DEF Restart, TasksOK, JobsOK, JobOK, Labels, RowPCs, CheckPCs
<1> QED
  BY <1>2, <1>3, <1>4, <1>5, <1>7, <1>8, <1>9, <1>10, <1>11
  DEF Next, vars, taskVars, DedupExpires

-----------------------------------------------------------------------------
(* Tables *)

\* UPDATE ... SET status by id: one field of one row, or of none.
LEMMA RowStatus ==
  ASSUME NEW f \in Seq(DraftRows), NEW d, NEW s \in Statuses
  PROVE  LET g == [f EXCEPT ![d].status = s] IN
         /\ g \in Seq(DraftRows) /\ Len(g) = Len(f) /\ RowsKept(f, g)
         /\ DOMAIN g = DOMAIN f /\ \A x \in DOMAIN f : g[x].status = IF x = d THEN s ELSE f[x].status
<1> DEFINE g == [f EXCEPT ![d].status = s]
<1>1. f \in [1..Len(f) -> DraftRows] /\ DOMAIN f = 1..Len(f) /\ Len(f) \in Nat
  BY LenProperties
<1>2. CASE d \in DOMAIN f
  <2> DEFINE r == [f[d] EXCEPT !.status = s]
             h == [f EXCEPT ![d] = r]
  <2>1. f[d] \in DraftRows
    BY <1>1, <1>2
  <2>2. r \in DraftRows
    BY <2>1 DEF DraftRows
  <2>3. /\ r.status = s /\ r.kind = f[d].kind /\ r.who = f[d].who /\ r.asks = f[d].asks
        /\ r.named = f[d].named /\ r.known = f[d].known
    BY <2>1 DEF DraftRows
  <2>4. h \in Seq(DraftRows) /\ Len(h) = Len(f) /\ \A i \in 1..Len(f) : h[i] = IF i = d THEN r ELSE f[i]
    BY <1>1, <1>2, <2>2, ExceptSeq
  <2>5. g = h /\ DOMAIN h = 1..Len(f)
    BY <1>1, <1>2
  <2> HIDE DEF g, h, r
  <2>6. RowsKept(f, h)
    BY <1>1, <2>3, <2>4, <2>5 DEF RowsKept
  <2>7. DOMAIN h = DOMAIN f /\ \A x \in DOMAIN f : h[x].status = IF x = d THEN s ELSE f[x].status
    BY <1>1, <2>3, <2>4, <2>5
  <2>8. /\ g \in Seq(DraftRows) /\ Len(g) = Len(f) /\ RowsKept(f, g)
        /\ DOMAIN g = DOMAIN f /\ \A x \in DOMAIN f : g[x].status = IF x = d THEN s ELSE f[x].status
    BY <2>4, <2>5, <2>6, <2>7
  <2> QED
    BY <2>8 DEF g
<1>3. CASE d \notin DOMAIN f
  <2>1. g = f
    BY <1>1, <1>3
  <2>2. RowsKept(f, f)
    BY DEF RowsKept
  <2> HIDE DEF g
  <2> QED
    BY <1>1, <1>3, <2>1, <2>2 DEF g
<1> QED
  BY <1>2, <1>3

\* EDIT: the status and the text of one row.
LEMMA RowEdited ==
  ASSUME NEW f \in Seq(DraftRows), NEW d, NEW n \in Nat
  PROVE  LET g == [f EXCEPT ![d] = [f[d] EXCEPT !.status = "edited", !.text = n]] IN
         /\ g \in Seq(DraftRows) /\ Len(g) = Len(f) /\ RowsKept(f, g)
         /\ DOMAIN g = DOMAIN f /\ \A x \in DOMAIN f : g[x].status = IF x = d THEN "edited" ELSE f[x].status
<1> DEFINE r == [f[d] EXCEPT !.status = "edited", !.text = n]
           g == [f EXCEPT ![d] = r]
<1>1. f \in [1..Len(f) -> DraftRows] /\ DOMAIN f = 1..Len(f) /\ Len(f) \in Nat
  BY LenProperties
<1>2. CASE d \in DOMAIN f
  <2>1. f[d] \in DraftRows
    BY <1>1, <1>2
  <2>2. r \in DraftRows
    BY <2>1 DEF DraftRows, Statuses
  <2>3. /\ r.status = "edited" /\ r.kind = f[d].kind /\ r.who = f[d].who /\ r.asks = f[d].asks
        /\ r.named = f[d].named /\ r.known = f[d].known
    BY <2>1 DEF DraftRows
  <2> HIDE DEF r
  <2>4. g \in Seq(DraftRows) /\ Len(g) = Len(f) /\ \A i \in 1..Len(f) : g[i] = IF i = d THEN r ELSE f[i]
    BY <1>1, <1>2, <2>2, ExceptSeq
  <2>5. DOMAIN g = 1..Len(f)
    BY <1>1
  <2> HIDE DEF g
  <2>6. RowsKept(f, g)
    BY <1>1, <2>3, <2>4, <2>5 DEF RowsKept
  <2> QED
    BY <1>1, <2>3, <2>4, <2>5, <2>6 DEF g, r
<1>3. CASE d \notin DOMAIN f
  <2>1. g = f
    BY <1>1, <1>3
  <2>2. RowsKept(f, f)
    BY DEF RowsKept
  <2> HIDE DEF g
  <2> QED
    BY <1>1, <1>3, <2>1, <2>2 DEF g, r
<1> QED
  BY <1>2, <1>3

\* INSERT: a new last row.
LEMMA RowAdded ==
  ASSUME NEW f \in Seq(DraftRows), NEW r \in DraftRows
  PROVE  LET g == Append(f, r) IN
         /\ g \in Seq(DraftRows) /\ Len(g) = Len(f) + 1 /\ RowsKept(f, g)
         /\ DOMAIN g = DOMAIN f \cup {Len(f) + 1} /\ Len(f) + 1 \notin DOMAIN f
         /\ g[Len(f) + 1] = r /\ \A x \in DOMAIN f : g[x] = f[x]
<1> DEFINE g == Append(f, r)
<1>1. /\ g \in Seq(DraftRows) /\ Len(g) = Len(f) + 1 /\ Len(f) \in Nat
      /\ DOMAIN f = 1..Len(f) /\ DOMAIN g = 1..(Len(f) + 1)
      /\ g[Len(f) + 1] = r /\ \A x \in 1..Len(f) : g[x] = f[x]
  OBVIOUS
<1> HIDE DEF g
<1>2. RowsKept(f, g)
  BY <1>1 DEF RowsKept
<1> QED
  BY <1>1, <1>2 DEF g

\* _create_session: the status of every row in a set.
LEMMA RowsClosed ==
  ASSUME NEW f \in Seq(DraftRows), NEW S, NEW g,
         g = [d \in DOMAIN f |-> IF d \in S THEN [f[d] EXCEPT !.status = "rejected"] ELSE f[d]]
  PROVE  /\ g \in Seq(DraftRows) /\ Len(g) = Len(f) /\ RowsKept(f, g) /\ DOMAIN g = DOMAIN f
         /\ \A x \in DOMAIN f : g[x].status = IF x \in S THEN "rejected" ELSE f[x].status
<1>1. f \in [1..Len(f) -> DraftRows] /\ DOMAIN f = 1..Len(f) /\ Len(f) \in Nat
  BY LenProperties
<1>2. ASSUME NEW d \in DOMAIN f
      PROVE  /\ g[d] \in DraftRows /\ g[d].kind = f[d].kind /\ g[d].who = f[d].who /\ g[d].asks = f[d].asks
             /\ g[d].named = f[d].named /\ g[d].known = f[d].known
             /\ g[d].status = IF d \in S THEN "rejected" ELSE f[d].status
  <2>1. f[d] \in DraftRows
    BY <1>1
  <2>2. CASE d \in S
    BY <2>1, <2>2 DEF DraftRows, Statuses
  <2>3. CASE d \notin S
    BY <2>1, <2>3
  <2> QED
    BY <2>2, <2>3
<1>3. DOMAIN g = 1..Len(f) /\ g = [i \in 1..Len(f) |-> g[i]]
  BY <1>1
<1>4. g \in [1..Len(f) -> DraftRows]
  BY <1>1, <1>2, <1>3
<1>5. g \in Seq(DraftRows) /\ Len(g) = Len(f)
  BY <1>1, <1>3, <1>4
<1>6. RowsKept(f, g)
  BY <1>1, <1>2, <1>3 DEF RowsKept
<1> QED
  BY <1>1, <1>2, <1>3, <1>5, <1>6

\* A new row keeps the others, and rows that are not touched are kept.
LEMMA NewRowKept ==
  ASSUME DeskOK, NEW r \in DraftRows, NewRow(r), MaxRows \in Nat
  PROVE  rows' \in Seq(DraftRows) /\ Len(rows') <= MaxRows /\ RowsKept(rows, rows')
<1>1. Len(rows) < MaxRows /\ rows' = Append(rows, r) /\ rows \in Seq(DraftRows) /\ Len(rows) \in Nat
  BY LenProperties DEF NewRow, DeskOK
<1>2. rows' \in Seq(DraftRows) /\ Len(rows') = Len(rows) + 1 /\ RowsKept(rows, rows')
  BY <1>1, RowAdded
<1> QED
  BY <1>1, <1>2

\* A counter by key stays one, whatever the key.
LEMMA Bumped ==
  ASSUME NEW S, NEW f \in [S -> Nat], NEW x
  PROVE  [f EXCEPT ![x] = @ + 1] \in [S -> Nat]
<1>1. CASE x \in S
  BY <1>1
<1>2. CASE x \notin S
  BY <1>2
<1> QED
  BY <1>1, <1>2

\* Rows that no step touched are kept.
LEMMA KeptSame == rows' = rows => RowsKept(rows, rows')
  BY DEF RowsKept

\* The tables of the desk keep their types, and a row its kind and its owner.
LEMMA DeskTables ==
  ASSUME TypeOK, Moves
  PROVE  DeskOK' /\ RowsKept(rows, rows')
<1>a. DeskOK /\ MaxRows \in Nat /\ env.writers \subseteq People
  BY DeskAssumption DEF TypeOK, WorldOK
<1> USE <1>a DEF DeskOK
<1>1. ASSUME NEW w \in People, KeepDraft(w) PROVE DeskOK' /\ RowsKept(rows, rows')
  <2>1. PICK s \in {"pending", "rejected_quality"} : NewRow(Row("reply", w, s))
    BY <1>1 DEF KeepDraft
  <2> DEFINE r == Row("reply", w, s)
  <2>2. r \in DraftRows
    BY DEF Row, DraftRows, Statuses
  <2>3. NewRow(r)
    BY <2>1
  <2> HIDE DEF r
  <2>4. rows' \in Seq(DraftRows) /\ Len(rows') <= MaxRows /\ RowsKept(rows, rows')
    BY <2>2, <2>3, NewRowKept
  <2> QED
    BY <1>1, <2>4 DEF KeepDraft
<1>2. ASSUME NEW w \in People, Complaint(w) PROVE DeskOK' /\ RowsKept(rows, rows')
  <2> DEFINE r == Row("complaint", w, "pending")
  <2>1. NewRow(r)
    BY <1>2 DEF Complaint
  <2>2. r \in DraftRows
    BY DEF Row, DraftRows, Statuses
  <2>3. NewRow(r)
    BY <2>1
  <2> HIDE DEF r
  <2>4. rows' \in Seq(DraftRows) /\ Len(rows') <= MaxRows /\ RowsKept(rows, rows')
    BY <2>2, <2>3, NewRowKept
  <2> QED
    BY <1>2, <2>4 DEF Complaint
<1>3. ASSUME NEW w \in People, SlipDraft(w) PROVE DeskOK' /\ RowsKept(rows, rows')
  <2> DEFINE r == Row("release_slip", w, "pending")
  <2>1. NewRow(r)
    BY <1>3 DEF SlipDraft
  <2>2. r \in DraftRows
    BY DEF Row, DraftRows, Statuses
  <2>3. NewRow(r)
    BY <2>1
  <2> HIDE DEF r
  <2>4. rows' \in Seq(DraftRows) /\ Len(rows') <= MaxRows /\ RowsKept(rows, rows')
    BY <2>2, <2>3, NewRowKept
  <2> QED
    BY <1>3, <2>4 DEF SlipDraft
<1>4. ASSUME NEW w \in People, AttendanceDraft(w) PROVE DeskOK' /\ RowsKept(rows, rows')
  <2>1. PICK n \in BOOLEAN : NewRow([Row("attendance", w, "pending") EXCEPT !.named = n, !.known = n /\ staff[w] > 0])
    BY <1>4 DEF AttendanceDraft
  <2> DEFINE r == [Row("attendance", w, "pending") EXCEPT !.named = n, !.known = n /\ staff[w] > 0]
  <2>2. r \in DraftRows
    <3>1. (n /\ staff[w] > 0) \in BOOLEAN
      OBVIOUS
    <3> QED
      BY <3>1 DEF Row, DraftRows, Statuses
  <2>3. NewRow(r)
    BY <2>1
  <2> HIDE DEF r
  <2>4. rows' \in Seq(DraftRows) /\ Len(rows') <= MaxRows /\ RowsKept(rows, rows')
    BY <2>2, <2>3, NewRowKept
  <2> QED
    BY <1>4, <2>4 DEF AttendanceDraft
<1>5. ASSUME NEW w \in People, HandleAttendanceMessage(w) PROVE DeskOK' /\ RowsKept(rows, rows')
  <2> DEFINE r == Row("report", w, "pending")
  <2>1. NewRow(r)
    BY <1>5 DEF HandleAttendanceMessage
  <2>2. r \in DraftRows
    BY DEF Row, DraftRows, Statuses
  <2>3. NewRow(r)
    BY <2>1
  <2> HIDE DEF r
  <2>4. rows' \in Seq(DraftRows) /\ Len(rows') <= MaxRows /\ RowsKept(rows, rows')
    BY <2>2, <2>3, NewRowKept
  <2> QED
    BY <1>5, <2>4 DEF HandleAttendanceMessage
<1>6. ASSUME NEW t \in Tasks, ApproveRead(t) PROVE DeskOK' /\ RowsKept(rows, rows')
  BY <1>6, KeptSame DEF ApproveRead, deskVars
<1>7. ASSUME NEW t \in Tasks, ApproveMark(t) PROVE DeskOK' /\ RowsKept(rows, rows')
  <2>1. "approved" \in Statuses /\ rows' = [rows EXCEPT ![Item(t)].status = "approved"]
    BY <1>7 DEF ApproveMark, SetStatus, Statuses
  <2>2. rows' \in Seq(DraftRows) /\ Len(rows') <= MaxRows /\ RowsKept(rows, rows')
    BY <2>1, RowStatus, ZenonT(30)
  <2> QED
    BY <1>7, <2>2 DEF ApproveMark
<1>8. ASSUME NEW t \in Tasks, AttendanceFind(t) PROVE DeskOK' /\ RowsKept(rows, rows')
  BY <1>8, KeptSame DEF AttendanceFind, deskVars
<1>9. ASSUME NEW t \in Tasks, AutoCreateEmployee(t) PROVE DeskOK' /\ RowsKept(rows, rows')
  <2>a. staff' = staff \/ staff' = [staff EXCEPT ![job[t].seen.who] = @ + 1]
    BY <1>9 DEF AutoCreateEmployee
  <2>1. staff' \in [People -> Nat]
    BY <2>a, Bumped
  <2> QED
    BY <1>9, <2>1, KeptSame DEF AutoCreateEmployee
<1>10. ASSUME NEW t \in Tasks, SaveAttendance(t) PROVE DeskOK' /\ RowsKept(rows, rows')
  <2>1. Item(t) \in Nat
    BY <1>10, HeadTailProperties DEF SaveAttendance, At, TypeOK, JobsOK, JobOK, RowJob, RowPCs, Item
  <2>2. attendance' \in [People -> Nat]
    BY <1>10, <2>1 DEF SaveAttendance
  <2> QED
    BY <1>10, <2>2, KeptSame DEF SaveAttendance
<1>11. ASSUME NEW t \in Tasks, Send(t) PROVE DeskOK' /\ RowsKept(rows, rows')
  <2>a. delivered' = delivered \/ delivered' = [delivered EXCEPT ![Item(t)] = @ + 1]
    BY <1>11 DEF Send, Deliver
  <2>1. delivered' \in [1..MaxRows -> Nat]
    <3>1. delivered \in [1..MaxRows -> Nat]
      BY DEF DeskOK
    <3> HIDE DEF Item
    <3>2. [delivered EXCEPT ![Item(t)] = @ + 1] \in [1..MaxRows -> Nat]
      BY <3>1, Bumped
    <3> QED
      BY <2>a, <3>1, <3>2
  <2> QED
    BY <1>11, <2>1, KeptSame DEF Send
<1>12. ASSUME NEW t \in Tasks, MarkSent(t) PROVE DeskOK' /\ RowsKept(rows, rows')
  <2>1. CASE SetStatus(Item(t), "sent")
    <3>1. "sent" \in Statuses /\ rows' = [rows EXCEPT ![Item(t)].status = "sent"]
      BY <2>1 DEF SetStatus, Statuses
    <3>2. rows' \in Seq(DraftRows) /\ Len(rows') <= MaxRows /\ RowsKept(rows, rows')
      BY <3>1, RowStatus, ZenonT(30)
    <3> QED
      BY <1>12, <3>2 DEF MarkSent
  <2>2. CASE UNCHANGED rows
    BY <1>12, <2>2, KeptSame DEF MarkSent
  <2> QED
    BY <1>12, <2>1, <2>2 DEF MarkSent
<1>13. ASSUME NEW t \in Tasks, RejectRead(t) PROVE DeskOK' /\ RowsKept(rows, rows')
  BY <1>13, KeptSame DEF RejectRead, deskVars
<1>14. ASSUME NEW t \in Tasks, RejectMark(t) PROVE DeskOK' /\ RowsKept(rows, rows')
  <2>1. "rejected" \in Statuses /\ rows' = [rows EXCEPT ![Item(t)].status = "rejected"]
    BY <1>14 DEF RejectMark, SetStatus, Statuses
  <2>2. rows' \in Seq(DraftRows) /\ Len(rows') <= MaxRows /\ RowsKept(rows, rows')
    BY <2>1, RowStatus, ZenonT(30)
  <2> QED
    BY <1>14, <2>2 DEF RejectMark
<1>15. ASSUME NEW t \in Tasks, EditRead(t) PROVE DeskOK' /\ RowsKept(rows, rows')
  BY <1>15, KeptSame DEF EditRead, deskVars
<1>16. ASSUME NEW t \in Tasks, EditMark(t) PROVE DeskOK' /\ RowsKept(rows, rows')
  <2>1. job[t].text \in Nat
    BY <1>16 DEF EditMark, At, TypeOK, JobsOK, JobOK, RowJob, RowPCs
  <2>2. rows' = [rows EXCEPT ![Item(t)] = [rows[Item(t)] EXCEPT !.status = "edited", !.text = job[t].text]]
    BY <1>16 DEF EditMark
  <2>3. rows' \in Seq(DraftRows) /\ Len(rows') <= MaxRows /\ RowsKept(rows, rows')
    BY <2>1, <2>2, RowEdited
  <2> QED
    BY <1>16, <2>3 DEF EditMark
<1>17. ASSUME NEW t \in Tasks, RememberRead(t) PROVE DeskOK' /\ RowsKept(rows, rows')
  BY <1>17, KeptSame DEF RememberRead, deskVars
<1>18. ASSUME NEW t \in Tasks, RememberWrite(t) PROVE DeskOK' /\ RowsKept(rows, rows')
  BY <1>18, KeptSame DEF RememberWrite, deskVars
<1>19. ASSUME NEW t \in Tasks, CloseStale(t) PROVE DeskOK' /\ RowsKept(rows, rows')
  <2> DEFINE S == OpenSessions(job[t].who)
  <2>1. rows' = [d \in DOMAIN rows |-> IF d \in S THEN [rows[d] EXCEPT !.status = "rejected"] ELSE rows[d]]
    BY <1>19 DEF CloseStale
  <2> HIDE DEF S
  <2>2. rows' \in Seq(DraftRows) /\ Len(rows') <= MaxRows /\ RowsKept(rows, rows')
    <3>1. rows \in Seq(DraftRows)
      OBVIOUS
    <3>2. rows' \in Seq(DraftRows) /\ Len(rows') = Len(rows) /\ RowsKept(rows, rows')
      BY ONLY <2>1, <3>1, RowsClosed, SMTT(30)
    <3> QED
      BY <3>2
  <2> QED
    BY <1>19, <2>2 DEF CloseStale
<1>20. ASSUME NEW t \in Tasks, CreateSession(t) PROVE DeskOK' /\ RowsKept(rows, rows')
  <2> DEFINE r == [Row("session", job[t].who, FirstStep(job[t].op)) EXCEPT !.asks = job[t].op]
  <2>1. job[t].who \in People /\ job[t].op \in Messages
    BY <1>20 DEF CreateSession, At, TypeOK, JobsOK, JobOK
  <2>2. FirstStep(job[t].op) \in Statuses
    BY <2>1 DEF FirstStep, Statuses, Steps
  <2>3. r \in DraftRows
    BY <2>1, <2>2 DEF Row, DraftRows
  <2>4. NewRow(r)
    BY <1>20 DEF CreateSession
  <2> HIDE DEF r
  <2>5. rows' \in Seq(DraftRows) /\ Len(rows') <= MaxRows /\ RowsKept(rows, rows')
    BY <2>3, <2>4, NewRowKept
  <2> QED
    BY <1>20, <2>5 DEF CreateSession
<1>21. ASSUME NEW t \in Tasks, VerifyRead(t) PROVE DeskOK' /\ RowsKept(rows, rows')
  BY <1>21, KeptSame DEF VerifyRead, deskVars
<1>22. ASSUME NEW t \in Tasks, VerifyWrite(t) PROVE DeskOK' /\ RowsKept(rows, rows')
  <2> DEFINE n == job[t].row
             s == job[t].to
  <2>1. s \in Statuses /\ rows' = [rows EXCEPT ![n].status = s]
    BY <1>22 DEF VerifyWrite, SetStatus, At, TypeOK, JobsOK, JobOK, Statuses
  <2> HIDE DEF n, s
  <2>2. rows' \in Seq(DraftRows) /\ Len(rows') <= MaxRows /\ RowsKept(rows, rows')
    BY <2>1, RowStatus, ZenonT(30)
  <2> QED
    BY <1>22, <2>2 DEF VerifyWrite
<1>23. ASSUME NEW t \in Tasks, BuildDraft(t) PROVE DeskOK' /\ RowsKept(rows, rows')
  BY <1>23, KeptSame DEF BuildDraft, deskVars
<1>24. ASSUME UNCHANGED deskVars PROVE DeskOK' /\ RowsKept(rows, rows')
  BY <1>24, KeptSame DEF deskVars
<1> QED
  BY <1>1, <1>2, <1>3, <1>4, <1>5, <1>6, <1>7, <1>8, <1>9, <1>10, <1>11, <1>12, <1>13, <1>14, <1>15, <1>16, <1>17, <1>18, <1>19, <1>20, <1>21, <1>22, <1>23, <1>24
  DEF Moves, Arrival, Arrive, DeskStep, SessionStep, Restart

\* A table that got a row at its end, or none.
LEMMA Appended ==
  ASSUME NEW S, NEW s \in Seq(S), NEW r \in S, NEW n, n = s \/ n = Append(s, r)
  PROVE  n \in Seq(S)
<1>1. Append(s, r) \in Seq(S)
  BY AppendProperties
<1> QED
  BY <1>1

\* A sequence with one element replaced, or none.
LEMMA SeqSet ==
  ASSUME NEW S, NEW f \in Seq(S), NEW i, NEW r, i \in DOMAIN f => r \in S
  PROVE  LET g == [f EXCEPT ![i] = r] IN
         /\ g \in Seq(S) /\ Len(g) = Len(f) /\ DOMAIN g = DOMAIN f
         /\ \A x \in DOMAIN f : g[x] = IF x = i THEN r ELSE f[x]
<1> DEFINE g == [f EXCEPT ![i] = r]
<1>1. f \in [1..Len(f) -> S] /\ DOMAIN f = 1..Len(f) /\ Len(f) \in Nat
  BY LenProperties
<1>2. CASE i \in DOMAIN f
  BY <1>1, <1>2, ExceptSeq
<1>3. CASE i \notin DOMAIN f
  <2>1. g = f
    BY <1>1, <1>3
  <2> HIDE DEF g
  <2> QED
    BY <1>1, <1>3, <2>1 DEF g
<1> QED
  BY <1>2, <1>3

\* The histories of the sessions keep their types.
LEMMA SessionTables ==
  ASSUME TypeOK, Moves
  PROVE  SessionOK'
<1>a. SessionOK
  BY DEF TypeOK
<1> USE <1>a DEF SessionOK
<1>1. ASSUME NEW t \in Tasks, CloseStale(t) \/ VerifyWrite(t) PROVE SessionOK'
  BY <1>1 DEF CloseStale, VerifyWrite, sessionVars
<1>2. ASSUME NEW t \in Tasks, CreateSession(t) PROVE SessionOK'
  <2>1. shown' = shown \/ shown' = [shown EXCEPT ![Len(rows) + 1] = 1]
    BY <1>2 DEF CreateSession
  <2> QED
    BY <1>2, <2>1 DEF CreateSession
<1>3. ASSUME NEW t \in Tasks, VerifyRead(t) PROVE SessionOK'
  <2> DEFINE d == Newest(OpenSessions(job[t].who))
  <2>1. shown' = shown \/ shown' = [shown EXCEPT ![d] = @ + 1]
    BY <1>3 DEF VerifyRead
  <2> HIDE DEF d
  <2>2. shown' \in [1..MaxRows -> Nat]
    BY <2>1, Bumped
  <2> QED
    BY <1>3, <2>2 DEF VerifyRead
<1>4. ASSUME NEW t \in Tasks, BuildDraft(t) PROVE SessionOK'
  <2>1. asked' = asked \/ asked' = [asked EXCEPT ![job[t].row] = @ + 1]
    BY <1>4 DEF BuildDraft
  <2>2. asked' \in [1..MaxRows -> Nat]
    BY <2>1, Bumped
  <2> QED
    BY <1>4, <2>2 DEF BuildDraft
<1>5. ASSUME UNCHANGED sessionVars PROVE SessionOK'
  BY <1>5 DEF sessionVars
<1> QED
  BY <1>1, <1>2, <1>3, <1>4, <1>5
  DEF Moves, SessionStep, Restart

\* _transition: one run gets the status, a paid one its key as well.
LEMMA TransitionRuns ==
  ASSUME TasksOK, JobsOK, PaydayOK, NEW t \in Tasks, TransitionWrite(t)
  PROVE  /\ runs' \in Seq(Run) /\ DOMAIN runs' = DOMAIN runs
         /\ \A x \in DOMAIN runs : runs'[x].emp = runs[x].emp
         /\ \/ runs' = runs /\ paidLog' = paidLog
            \/ /\ \A x \in DOMAIN runs : runs'[x].status = IF x = job[t].run THEN job[t].to ELSE runs[x].status
               /\ paidLog' = IF job[t].to = "paid" THEN Append(paidLog, job[t].run) ELSE paidLog
<1> DEFINE i == job[t].run
           to == job[t].to
           k == PayoutKey(i, job[t].ref)
<1>1. i \in Nat /\ to \in RunStatus /\ job[t].ref \in Refs
  BY DEF TransitionWrite, At, JobsOK, JobOK, TransitionJob
<1>2. runs \in Seq(Run)
  BY DEF PaydayOK
<1>3. i \in DOMAIN runs => runs[i] \in Run
  BY <1>2, LenProperties
<1>4. CASE to # "paid"
  <2> DEFINE r == [runs[i] EXCEPT !.status = to]
             g == [runs EXCEPT ![i] = r]
  <2>1. runs' = g /\ paidLog' = paidLog
    <3>1. runs' = [runs EXCEPT ![i].status = to] /\ paidLog' = paidLog
      BY <1>4 DEF TransitionWrite
    <3> QED
      BY <3>1
  <2>2. i \in DOMAIN runs => r \in Run /\ r.emp = runs[i].emp /\ r.status = to
    BY <1>1, <1>3 DEF Run
  <2> HIDE DEF r, i, to
  <2>3. /\ g \in Seq(Run) /\ DOMAIN g = DOMAIN runs
        /\ \A x \in DOMAIN runs : g[x] = IF x = i THEN r ELSE runs[x]
    BY <1>2, <2>2, SeqSet
  <2> HIDE DEF g
  <2> QED
    BY <1>4, <2>1, <2>2, <2>3 DEF i, to
<1>5. CASE to = "paid" /\ ~KeyTaken(i, job[t].ref)
  <2> DEFINE r == [runs[i] EXCEPT !.status = "paid", !.key = k]
             g == [runs EXCEPT ![i] = r]
  <2>1. runs' = g /\ paidLog' = Append(paidLog, i)
    BY <1>5 DEF TransitionWrite
  <2>2. i \in DOMAIN runs => k \in Employees \X Refs
    BY <1>1, <1>3 DEF PayoutKey, Run
  <2> HIDE DEF k
  <2>3. i \in DOMAIN runs => r \in Run /\ r.emp = runs[i].emp /\ r.status = "paid"
    BY <1>3, <2>2 DEF Run, RunStatus
  <2> HIDE DEF r, i, to
  <2>4. /\ g \in Seq(Run) /\ DOMAIN g = DOMAIN runs
        /\ \A x \in DOMAIN runs : g[x] = IF x = i THEN r ELSE runs[x]
    BY <1>2, <2>3, SeqSet
  <2> HIDE DEF g
  <2> QED
    BY <1>5, <2>1, <2>3, <2>4 DEF i, to
<1>6. CASE to = "paid" /\ KeyTaken(i, job[t].ref)
  BY <1>2, <1>6 DEF TransitionWrite, runVars
<1> QED
  BY <1>4, <1>5, <1>6

\* The tables of the month end keep their types.
LEMMA PaydayTables ==
  ASSUME TypeOK, Moves
  PROVE  PaydayOK'
<1>b. TasksOK /\ JobsOK /\ PaydayOK
  BY DEF TypeOK
<1> USE <1>b DEF PaydayOK
<1>1. ASSUME NEW t \in Tasks, ComputeRead(t) \/ TransitionRead(t) \/ IngestMatch(t) \/ IngestRead(t) PROVE PaydayOK'
  BY <1>1 DEF ComputeRead, TransitionRead, IngestMatch, IngestRead, paydayVars
<1>2. ASSUME NEW t \in Tasks, ComputeInsert(t) PROVE PaydayOK'
  <2> DEFINE r == [emp |-> Item(t), status |-> "draft", key |-> << >>]
  <2>1. Item(t) \in Employees
    BY <1>2, <1>b, HeadTailProperties DEF ComputeInsert, At, JobsOK, JobOK, ComputeJob, Item
  <2>2. r \in Run
    BY <2>1 DEF Run, RunStatus
  <2>3. runs' = runs \/ runs' = Append(runs, r)
    BY <1>2 DEF ComputeInsert
  <2> HIDE DEF r
  <2>4. runs' \in Seq(Run)
    <3>1. runs \in Seq(Run)
      OBVIOUS
    <3> QED
      BY ONLY <2>2, <2>3, <3>1, Appended
  <2> QED
    BY <1>2, <2>4 DEF ComputeInsert, ingestVars
<1>3. ASSUME NEW t \in Tasks, TransitionWrite(t) PROVE PaydayOK'
  <2>1. runs' \in Seq(Run) /\ (paidLog' = paidLog \/ paidLog' = Append(paidLog, job[t].run))
    BY <1>3, <1>b, TransitionRuns
  <2>2. job[t].run \in Nat
    BY <1>3, <1>b DEF TransitionWrite, At, JobsOK, JobOK, TransitionJob
  <2>3. paidLog' \in Seq(Nat)
    <3>1. paidLog \in Seq(Nat)
      OBVIOUS
    <3> QED
      BY ONLY <2>1, <2>2, <3>1, Appended
  <2> QED
    BY <1>3, <2>1, <2>3 DEF TransitionWrite, ingestVars
<1>4. ASSUME NEW t \in Tasks, IngestInsert(t) PROVE PaydayOK'
  <2> DEFINE r == [key |-> job[t].key, status |-> job[t].status]
  <2>1. job[t].key \in Keys /\ job[t].status \in Matches
    BY <1>4, <1>b DEF IngestInsert, At, JobsOK, JobOK
  <2>2. r \in StagedRows
    BY <2>1 DEF StagedRows
  <2>3. staging' = staging \/ staging' = Append(staging, r)
    BY <1>4 DEF IngestInsert
  <2> HIDE DEF r
  <2>4. staging' \in Seq(StagedRows)
    <3>1. staging \in Seq(StagedRows)
      OBVIOUS
    <3> QED
      BY ONLY <2>2, <2>3, <3>1, Appended
  <2> QED
    BY <1>4, <2>4 DEF IngestInsert, runVars
<1>5. ASSUME NEW t \in Tasks, BridgeToFinalize(t) PROVE PaydayOK'
  <2>1. booked' = booked \/ booked' = [booked EXCEPT ![job[t].key] = @ + 1]
    BY <1>5 DEF BridgeToFinalize
  <2>2. booked' \in [Keys -> Nat]
    BY <2>1, Bumped
  <2> QED
    BY <1>5, <2>2 DEF BridgeToFinalize, runVars
<1>6. ASSUME NextDay PROVE PaydayOK'
  BY <1>6, DeskAssumption DEF NextDay, runVars
<1>7. ASSUME UNCHANGED paydayVars PROVE PaydayOK'
  BY <1>7 DEF paydayVars
<1> QED
  BY <1>1, <1>2, <1>3, <1>4, <1>5, <1>6, <1>7
  DEF Moves, PaydayStep, Restart

\* ensure_bootstrap_admins keeps the table's type, and every role.
LEMMA BootstrapTyped ==
  ASSUME NEW u \in [Phones -> UserRows]
  PROVE  Bootstrapped(u) \in [Phones -> UserRows]
<1>1. "superadmin" \in RoleNames
  BY DEF RoleNames, Levels
<1>2. ASSUME NEW p \in Phones PROVE Bootstrapped(u)[p] \in UserRows
  <2>1. u[p] \in UserRows
    OBVIOUS
  <2>2. User({"superadmin"}) \in UserRows
    BY <1>1 DEF User, UserRows
  <2>3. [u[p] EXCEPT !.roles = u[p].roles \cup {"superadmin"}] \in UserRows
    BY <1>1, <2>1 DEF UserRows
  <2> QED
    BY <2>1, <2>2, <2>3 DEF Bootstrapped
<1> QED
  BY <1>2 DEF Bootstrapped

\* The admin users keep their types.
LEMMA UserTables ==
  ASSUME TypeOK, Moves
  PROVE  UsersOK'
<1>b. TasksOK /\ JobsOK /\ UsersOK
  BY DEF TypeOK
<1> USE <1>b DEF UsersOK
<1>1. ASSUME NEW t \in Tasks, AddUser(t) PROVE UsersOK'
  <2>1. User({}) \in UserRows
    BY DEF User, UserRows
  <2> QED
    BY <1>1, <2>1 DEF AddUser
<1>2. ASSUME NEW t \in Tasks, SetRole(t) PROVE UsersOK'
  BY <1>2 DEF SetRole
<1>3. ASSUME NEW t \in Tasks, Grant(t) PROVE UsersOK'
  <2> DEFINE p == job[t].phone
  <2>1. p \in Phones /\ job[t].role \in RoleNames
    BY <1>3, <1>b DEF Grant, At, JobsOK, JobOK, GrantJob, UserJob
  <2>2. users[p] \in UserRows
    BY <2>1
  <2>3. [users[p] EXCEPT !.roles = users[p].roles \cup {job[t].role}] \in UserRows
    BY <2>1, <2>2 DEF UserRows
  <2> QED
    BY <1>3, <2>1, <2>3 DEF Grant
<1>4. ASSUME NEW t \in Tasks, DisableUser(t) PROVE UsersOK'
  <2> DEFINE p == job[t].phone
  <2>1. p \in Phones
    BY <1>4, <1>b DEF DisableUser, At, JobsOK, JobOK, UserJob
  <2>2. users[p] \in UserRows
    BY <2>1
  <2>3. [users[p] EXCEPT !.status = "disabled"] \in UserRows
    BY <2>2 DEF UserRows
  <2> QED
    BY <1>4, <2>1, <2>3 DEF DisableUser
<1>5. ASSUME NEW t \in Tasks, RevokeRole(t) PROVE UsersOK'
  <2> DEFINE p == job[t].phone
  <2>1. p \in Phones
    BY <1>5, <1>b DEF RevokeRole, At, JobsOK, JobOK, GrantJob, UserJob
  <2>2. users[p] \in UserRows
    BY <2>1
  <2>3. [users[p] EXCEPT !.roles = users[p].roles \ {job[t].role}] \in UserRows
    BY <2>2 DEF UserRows
  <2> QED
    BY <1>5, <2>1, <2>3 DEF RevokeRole
<1>6. ASSUME Restart PROVE UsersOK'
  BY <1>6, BootstrapTyped DEF Restart
<1>7. ASSUME UNCHANGED users PROVE UsersOK'
  BY <1>7
<1> QED
  BY <1>1, <1>2, <1>3, <1>4, <1>5, <1>6, <1>7
  DEF Moves, RolesStep

\* Every step keeps the types.
LEMMA TypeStep ==
  ASSUME TypeOK, [Next]_vars
  PROVE  TypeOK' /\ Moves /\ env' = env /\ RowsKept(rows, rows')
<1>1. Moves /\ env' = env
  BY StepKinds DEF TypeOK
<1>2. TasksOK' /\ JobsOK'
  BY JobsStep
<1>3. DeskOK' /\ RowsKept(rows, rows') /\ SessionOK' /\ PaydayOK' /\ UsersOK'
  BY <1>1, DeskTables, SessionTables, PaydayTables, UserTables
<1>4. WorldOK'
  BY <1>1 DEF WorldOK, TypeOK, Moves, Restart
<1> QED
  BY <1>1, <1>2, <1>3, <1>4 DEF TypeOK

\* The tables at the start.
LEMMA TypeInit == Init => TypeOK
<1> SUFFICES ASSUME Init PROVE TypeOK
  OBVIOUS
<1>1. env \in Environments /\ restarts = 0
  BY DEF Init, TasksInit
<1>2. TasksOK /\ JobsOK
  BY DEF Init, TasksInit, TasksOK, JobsOK, JobOK, Labels, RowPCs, CheckPCs
<1>3. DeskOK
  <2>1. rows = << >> /\ staff \in [People -> Nat] /\ attendance \in [People -> Nat]
    BY DEF Init, DeskInit
  <2>2. delivered \in [1..MaxRows -> Nat] /\ edits \in [1..MaxRows -> Nat]
    BY DEF Init, DeskInit
  <2> QED
    BY <2>1, <2>2, DeskAssumption DEF DeskOK
<1>4. SessionOK
  BY DEF Init, SessionsInit, SessionOK
<1>5. PaydayOK
  <2>1. env.month \in Seq(Run) /\ MaxDay \in Nat \ {0}
    BY <1>1, DeskAssumption
  <2> QED
    BY <2>1 DEF Init, PaydayInit, PaydayOK, Keys
<1>6. UsersOK
  <2> DEFINE u == [p \in Phones |-> IF p \in DOMAIN env.users THEN User({env.users[p]}) ELSE NoUser]
  <2>1. \A p \in DOMAIN env.users : env.users[p] \in RoleNames
    BY <1>1, DeskAssumption
  <2>2. u \in [Phones -> UserRows]
    BY <2>1 DEF User, NoUser, UserRows
  <2>3. users = Bootstrapped(u)
    BY DEF Init, RolesInit
  <2> HIDE DEF u
  <2> QED
    BY <2>2, <2>3, BootstrapTyped DEF UsersOK
<1> QED
  BY <1>1, <1>2, <1>3, <1>4, <1>5, <1>6 DEF TypeOK, WorldOK

\* Every task keeps a job that fits its position, every table its type.
THEOREM TypeCorrect == Spec => []TypeOK
<1>1. TypeOK /\ [Next]_vars => TypeOK'
  BY TypeStep
<1> QED
  BY <1>1, TypeInit, PTL DEF Spec

-----------------------------------------------------------------------------
(* One at a time *)

\* While requests do not overlap, one task at most is under way.
AloneInv == Calm => \A t, u \in Tasks : pc[t] # "idle" /\ pc[u] # "idle" => t = u

-----------------------------------------------------------------------------
(* The month end *)

\* A payment that is about to be booked has its staging row, is with one task and
\* was not booked; a booked one has its row.
BookInv ==
  /\ \A t \in Tasks : pc[t] = "book" => booked[job[t].key] = 0 /\ Staged(job[t].key)
  /\ \A t, u \in Tasks : pc[t] = "book" /\ pc[u] = "book" /\ job[t].key = job[u].key => t = u
  /\ \A k \in Keys : booked[k] > 0 => booked[k] = 1 /\ Staged(k)

\* One active run per employee; the transition that was read is still allowed when
\* it is written; a payout leaves its run paid for good and happens once.
RunInv ==
  Calm =>
    /\ OneActive(runs)
    /\ \A t \in Tasks : pc[t] = "transition_write" =>
         job[t].run \in DOMAIN runs /\ job[t].to \in Allowed(runs[job[t].run].status)
    /\ \A i \in DOMAIN paidLog : paidLog[i] \in DOMAIN runs /\ runs[paidLog[i]].status = "paid"
    /\ \A i, j \in DOMAIN paidLog : paidLog[i] = paidLog[j] => i = j

-----------------------------------------------------------------------------
(* The sessions *)

\* The pictures a request needs before its draft, and at each step of the session.
Needed(asks) == IF asks = "advance" THEN 2 ELSE 1
Evidence(asks, s) ==
  CASE s \in {"pending_payment_method", "verified"} -> Needed(asks)
    [] s = "pending_slip" -> Needed(asks) - 1
    [] OTHER -> 0

EvidenceInv ==
  /\ \A d \in DOMAIN rows : shown[d] >= Evidence(rows[d].asks, rows[d].status)
  /\ \A d \in 1..MaxRows : asked[d] > 0 => d \in DOMAIN rows /\ shown[d] >= Needed(rows[d].asks)
  /\ \A t \in Tasks : pc[t] \in {"verify_write", "build_draft"} =>
       /\ job[t].row \in DOMAIN rows
       /\ shown[job[t].row] >= IF pc[t] = "build_draft" THEN Needed(rows[job[t].row].asks)
                               ELSE Evidence(rows[job[t].row].asks, job[t].to)

-----------------------------------------------------------------------------
(* The users *)

\* The worlds in which a command may outlive the right to it: the role check
\* fails, or the route takes a role away while the command runs.
Excused == env.failures \/ (~Calm /\ "user_revoke" \in env.routes)

\* On the way to a grant: a user that exists, and somebody who may grant.
GrantPCs == {"user_add", "user_role", "grant"}
RolesInv ==
  /\ \A p \in Phones : users[p].status = "none" => users[p].roles = {}
  /\ \A t \in Tasks :
       /\ pc[t] = "user_revoke" => "user_revoke" \in env.routes
       /\ pc[t] = "grant" => users[job[t].phone].status # "none"
       /\ pc[t] \in GrantPCs /\ ~Excused =>
            job[t].by = "http" \/ (job[t].by \in Phones /\ "superadmin" \in users[job[t].by].roles)

-----------------------------------------------------------------------------
(* The rows an approval sends *)

ApprovePCs == {"approve_mark", "att_find", "att_create", "att_save", "send", "mark_sent"}

\* The attendance of row d is written, or the attempt failed.
Recorded(d) == d \in unsaved \/ (attendance[rows[d].who] # 0 /\ staff[rows[d].who] > 0)
Attends(r) == r.kind = "attendance" /\ r.named

SentInv ==
  /\ \A d \in 1..MaxRows : d \notin DOMAIN rows => delivered[d] = 0
  /\ \A d \in DOMAIN rows :
       /\ rows[d].status = "sent" => delivered[d] > 0
       /\ rows[d].known => staff[rows[d].who] > 0
       /\ Attends(rows[d]) /\ rows[d].status = "sent" => Recorded(d)

ApproveTask(t) ==
  LET d == Item(t)
  IN  /\ pc[t] \in ApprovePCs \cup {"reject_mark", "edit_mark"} => d \in DOMAIN rows
      /\ pc[t] \in ApprovePCs =>
           /\ job[t].seen.kind = rows[d].kind /\ job[t].seen.who = rows[d].who
           /\ job[t].seen.named = rows[d].named /\ job[t].seen.known = rows[d].known
      /\ pc[t] = "att_save" => staff[rows[d].who] > 0
      /\ pc[t] \in {"send", "mark_sent"} /\ Attends(rows[d]) => Recorded(d)
      /\ pc[t] = "mark_sent" => delivered[d] > 0
ApproveInv == \A t \in Tasks : ApproveTask(t)

\* A row that was not delivered since its last edit, and one of whose deliveries
\* the desk hears.
Fresh(d) == delivered[d] <= edits[d]
Told(d) == restarts = 0 /\ d \notin unheard

\* While requests do not overlap: what is under way, and what a restart may leave.
FreshTask(t) ==
  /\ pc[t] \in ApprovePCs \ {"mark_sent"} => Fresh(Item(t))
  /\ pc[t] \in ApprovePCs \ {"approve_mark"} => rows[Item(t)].status = "approved"
  /\ pc[t] = "reject_mark" /\ Told(Item(t)) => Fresh(Item(t))
  /\ pc[t] = "verify_write" => job[t].row \in DOMAIN rows /\ Fresh(job[t].row)
  /\ pc[t] = "close_stale" => OpenSessions(job[t].who) = {}
FreshRow(d) ==
  /\ delivered[d] <= edits[d] + 1
  /\ rows[d].status \notin {"approved", "sent", "rejected"} => Fresh(d)
  /\ Told(d) /\ rows[d].status = "rejected" => Fresh(d)
  /\ Told(d) /\ rows[d].status = "approved" =>
       Fresh(d) \/ \E t \in Tasks : pc[t] = "mark_sent" /\ Item(t) = d
FreshInv == Calm => (\A t \in Tasks : FreshTask(t)) /\ \A d \in DOMAIN rows : FreshRow(d)

\* However many overlap: the tasks at work, those that found a row open and did not
\* mark it yet, and those that marked it and did not deliver it yet.  Every edit
\* opens a row for as many approvals as may overlap.
Busy == {u \in Tasks : pc[u] # "idle"}
PreSend == {"att_find", "att_create", "att_save", "send"}
Marking(d) == {u \in Tasks : pc[u] = "approve_mark" /\ Item(u) = d}
Sending(d) == {u \in Tasks : pc[u] \in PreSend /\ Item(u) = d}
Open(d) == rows[d].status \in {"pending", "edited"}
Bounded(d) ==
  /\ Open(d) => delivered[d] + Cardinality(Sending(d)) <= env.atOnce * edits[d]
  /\ delivered[d] + Cardinality(Sending(d)) + Cardinality(Marking(d)) <= env.atOnce * (edits[d] + 1)
BusyInv == Cardinality(Busy) <= env.atOnce
OverlapInv == BusyInv /\ \A d \in DOMAIN rows : Bounded(d)

-----------------------------------------------------------------------------
(* What the other lanes leave alone *)

\* No task comes to a position of S, and those that are there keep what they have.
Stays(S) == \A u \in Tasks : pc'[u] \in S => pc'[u] = pc[u] /\ job'[u] = job[u]

KeyIn(s, k) == \E i \in DOMAIN s : s[i].key = k

\* A step of the month end, or one that does not concern it.
LEMMA PaydayOrNot ==
  ASSUME TypeOK, Moves
  PROVE  \/ \E t \in Tasks : PaydayStep(t) /\ Others(t)
         \/ UNCHANGED <<runs, paidLog, staging, booked>> /\ Stays({"book", "transition_write"})
<1> USE DEF Stays, Lane, Others, paydayVars
<1>1. ASSUME UNCHANGED <<pc, job, paydayVars>> PROVE UNCHANGED <<runs, paidLog, staging, booked>> /\ Stays({"book", "transition_write"})
  BY <1>1
<1>2. CASE NextDay /\ UNCHANGED <<pc, job, deskVars, sessionVars, users, restarts>>
  BY <1>2 DEF NextDay, runVars
<1>3. ASSUME NEW t \in Tasks, NEW S, S \in {RowPCs, SessionPCs, RolePCs}, Lane(t, S), UNCHANGED paydayVars
      PROVE  UNCHANGED <<runs, paidLog, staging, booked>> /\ Stays({"book", "transition_write"})
  BY <1>3 DEF RowPCs, SessionPCs, RolePCs
<1>4. ASSUME NEW t \in Tasks, Enters(t), UNCHANGED paydayVars
      PROVE  UNCHANGED <<runs, paidLog, staging, booked>> /\ Stays({"book", "transition_write"})
  BY <1>4 DEF Enters, CheckPCs, OfficePCs, FirstPCs
<1>5. CASE Restart
  BY <1>5 DEF Restart
<1> QED
  BY <1>1, <1>2, <1>3, <1>4, <1>5 DEF Moves, Arrival

\* A request starts alone while requests do not overlap.
LEMMA AloneStep ==
  ASSUME TypeOK, TypeOK', Moves, env' = env, AloneInv
  PROVE  AloneInv'
<1> SUFFICES ASSUME Calm, NEW t \in Tasks, NEW u \in Tasks, pc'[t] # "idle", pc'[u] # "idle"
             PROVE  t = u
  BY DEF AloneInv, Calm
<1>0. \A x, y \in Tasks : pc[x] # "idle" /\ pc[y] # "idle" => x = y
  BY DEF AloneInv
<1>1. CASE UNCHANGED pc
  BY <1>0, <1>1
<1>2. ASSUME NEW x \in Tasks, pc[x] # "idle", Others(x) PROVE t = u
  BY <1>0, <1>2 DEF Others
<1>3. ASSUME NEW x \in Tasks, Takes(x), Others(x) PROVE t = u
  <2> DEFINE B == {y \in Tasks : pc[y] # "idle"}
  <2>1. IsFiniteSet(B) /\ Cardinality(B) \in Nat
    <3>1. IsFiniteSet(Tasks) /\ B \subseteq Tasks
      BY DeskAssumption
    <3> HIDE DEF B
    <3> QED
      BY <3>1, FS_Subset, FS_CardinalityType
  <2>2. Cardinality(B) < 1
    BY <1>3 DEF Takes, Calm
  <2>3. B = {}
    <3> HIDE DEF B
    <3> QED
      BY <2>1, <2>2, FS_EmptySet
  <2> QED
    BY <1>3, <2>3 DEF Others
<1>4. ASSUME NEW x \in Tasks, Enters(x) PROVE t = u
  <2>1. CASE pc[x] = "idle" /\ pc'[x] = "idle"
    BY <1>0, <1>4, <2>1 DEF Enters, Others
  <2> QED
    BY <1>2, <1>3, <1>4, <2>1 DEF Enters
<1>5. ASSUME NEW x \in Tasks, NEW S \in {RowPCs, SessionPCs, PaydayPCs, RolePCs}, Lane(x, S) PROVE t = u
  BY <1>2, <1>5 DEF Lane, RowPCs, SessionPCs, PaydayPCs, RolePCs
<1>6. CASE Restart
  BY <1>6 DEF Restart
<1> QED
  BY <1>1, <1>4, <1>5, <1>6 DEF Moves, Arrival

\* _ingest_parsed and _bridge_to_finalize: one task books a key, once.
LEMMA BookStep ==
  ASSUME TypeOK, TypeOK', Moves, BookInv
  PROVE  BookInv'
<1>0. /\ DOMAIN pc = Tasks /\ DOMAIN job = Tasks /\ staging \in Seq(StagedRows) /\ booked \in [Keys -> Nat]
      /\ \A t \in Tasks : pc[t] \in {"import_insert", "book"} => job[t].key \in Keys
  BY DEF TypeOK, TasksOK, PaydayOK, JobsOK, JobOK
<1>1. CASE UNCHANGED <<runs, paidLog, staging, booked>> /\ Stays({"book", "transition_write"})
  BY <1>1 DEF BookInv, Stays, Staged
<1>2. ASSUME NEW t \in Tasks, Others(t), UNCHANGED <<staging, booked>>, pc'[t] # "book" PROVE BookInv'
  BY <1>2 DEF BookInv, Others, Staged
<1>3. ASSUME NEW t \in Tasks, Others(t), ComputeRead(t) \/ TransitionRead(t) \/ IngestMatch(t) \/ IngestRead(t) PROVE BookInv'
  <2>1. UNCHANGED paydayVars /\ pc'[t] # "book"
    BY <1>0, <1>3 DEF ComputeRead, TransitionRead, IngestMatch, IngestRead, Goto, Continue, Finish, FinishItem
  <2> QED
    BY <1>2, <1>3, <2>1 DEF paydayVars
<1>4. ASSUME NEW t \in Tasks, Others(t), ComputeInsert(t) \/ TransitionWrite(t) PROVE BookInv'
  <2>1. UNCHANGED ingestVars /\ pc'[t] # "book"
    BY <1>0, <1>4 DEF ComputeInsert, TransitionWrite, Continue, Finish, FinishItem
  <2> QED
    BY <1>2, <1>4, <2>1 DEF ingestVars
<1>5. ASSUME NEW t \in Tasks, Others(t), IngestInsert(t) PROVE BookInv'
  <2> DEFINE k == job[t].key
             r == [key |-> k, status |-> job[t].status]
  <2>1. booked' = booked /\ k \in Keys
    BY <1>0, <1>5 DEF IngestInsert, At
  <2>2. CASE Staged(k)
    <3>1. staging' = staging /\ pc'[t] = "idle"
      BY <1>0, <1>5, <2>2 DEF IngestInsert, Refused, Finish, Continue
    <3> QED
      BY <1>2, <1>5, <2>1, <3>1
  <2>3. CASE ~Staged(k)
    <3>1. staging' = Append(staging, r) /\ pc'[t] \in {"book", "idle"} /\ (pc'[t] = "book" => job'[t] = job[t])
      BY <1>0, <1>5, <2>3 DEF IngestInsert, Refused, Finish, Continue, Goto
    <3>2. staging' \in Seq(StagedRows) /\ staging \in Seq(StagedRows)
      BY <1>0 DEF TypeOK, PaydayOK
    <3> HIDE DEF r
    <3>3. /\ DOMAIN staging' = 1..(Len(staging) + 1) /\ DOMAIN staging = 1..Len(staging) /\ Len(staging) \in Nat
          /\ staging'[Len(staging) + 1] = r /\ \A i \in 1..Len(staging) : staging'[i] = staging[i]
      BY <3>1, <3>2, LenProperties, AppendProperties
    <3>4. \A x : KeyIn(staging, x) => KeyIn(staging', x)
      BY <3>3 DEF KeyIn
    <3>5. KeyIn(staging', k)
      BY <3>3 DEF KeyIn, r
    <3>6. booked[k] = 0 /\ \A u \in Tasks : pc[u] = "book" => job[u].key # k
      BY <1>0, <2>1, <2>3 DEF BookInv
    <3>7. ASSUME NEW u \in Tasks, pc'[u] = "book"
          PROVE  IF u = t THEN job'[u].key = k ELSE pc[u] = "book" /\ job'[u] = job[u]
      BY <1>5, <3>1, <3>7 DEF Others
    <3> HIDE DEF k
    <3>8. ASSUME NEW u \in Tasks, pc'[u] = "book"
          PROVE  booked'[job'[u].key] = 0 /\ KeyIn(staging', job'[u].key)
      <4>1. CASE u = t
        BY <2>1, <3>5, <3>6, <3>7, <3>8, <4>1
      <4>2. CASE u # t
        <5>1. pc[u] = "book" /\ job'[u] = job[u]
          BY <3>7, <3>8, <4>2
        <5>2. booked[job[u].key] = 0 /\ KeyIn(staging, job[u].key)
          BY <5>1 DEF BookInv, Staged, KeyIn
        <5> QED
          BY <2>1, <3>4, <5>1, <5>2
      <4> QED
        BY <4>1, <4>2
    <3>9. \A u, v \in Tasks : pc'[u] = "book" /\ pc'[v] = "book" /\ job'[u].key = job'[v].key => u = v
      BY <3>6, <3>7 DEF BookInv
    <3>10. \A x \in Keys : booked'[x] > 0 => booked'[x] = 1 /\ KeyIn(staging', x)
      BY <2>1, <3>4 DEF BookInv, Staged, KeyIn
    <3> QED
      BY <3>8, <3>9, <3>10 DEF BookInv, Staged, KeyIn
  <2> QED
    BY <2>2, <2>3
<1>6. ASSUME NEW t \in Tasks, Others(t), BridgeToFinalize(t) PROVE BookInv'
  <2> DEFINE k == job[t].key
  <2>1. k \in Keys /\ booked[k] = 0 /\ Staged(k) /\ pc[t] = "book"
    BY <1>0, <1>6 DEF BridgeToFinalize, At, BookInv
  <2>2. pc'[t] = "idle" /\ staging' = staging /\ (booked' = booked \/ booked' = [booked EXCEPT ![k] = @ + 1])
    BY <1>0, <1>6 DEF BridgeToFinalize, Finish, Continue
  <2>3. ASSUME NEW u \in Tasks, pc'[u] = "book"
        PROVE  pc[u] = "book" /\ job'[u] = job[u] /\ job[u].key # k /\ job[u].key \in Keys
    BY <1>0, <1>6, <2>1, <2>2, <2>3 DEF Others, BookInv
  <2> HIDE DEF k
  <2>4. \A x \in Keys : booked'[x] = booked[x] \/ (x = k /\ booked'[x] = 1)
    BY <1>0, <2>1, <2>2
  <2>5. \A x : KeyIn(staging', x) <=> Staged(x)
    BY <2>2 DEF Staged, KeyIn
  <2>6. \A u \in Tasks : pc'[u] = "book" => booked'[job'[u].key] = 0 /\ KeyIn(staging', job'[u].key)
    BY <2>3, <2>4, <2>5 DEF BookInv
  <2>7. \A u, v \in Tasks : pc'[u] = "book" /\ pc'[v] = "book" /\ job'[u].key = job'[v].key => u = v
    BY <2>3 DEF BookInv
  <2>8. \A x \in Keys : booked'[x] > 0 => booked'[x] = 1 /\ KeyIn(staging', x)
    BY <2>1, <2>4, <2>5 DEF BookInv
  <2> QED
    BY <2>6, <2>7, <2>8 DEF BookInv, Staged, KeyIn
<1> QED
  BY <1>1, <1>3, <1>4, <1>5, <1>6, PaydayOrNot DEF PaydayStep

\* compute_run and _transition, one after another: a run that was paid stays paid
\* and is the only one of its employee.
LEMMA RunStep ==
  ASSUME TypeOK, TypeOK', Moves, env' = env, AloneInv, RunInv
  PROVE  RunInv'
<1> SUFFICES ASSUME Calm PROVE RunInv'
  BY DEF RunInv, Calm
<1> DEFINE Steady == \A t \in Tasks : pc'[t] = "transition_write" =>
                       job'[t].run \in DOMAIN runs' /\ job'[t].to \in Allowed(runs'[job'[t].run].status)
           Paid == \A i \in DOMAIN paidLog' : paidLog'[i] \in DOMAIN runs' /\ runs'[paidLog'[i]].status = "paid"
           Once == \A i, j \in DOMAIN paidLog' : paidLog'[i] = paidLog'[j] => i = j
<1>0. /\ DOMAIN pc = Tasks /\ DOMAIN job = Tasks
      /\ runs \in Seq(Run) /\ paidLog \in Seq(Nat) /\ runs' \in Seq(Run) /\ paidLog' \in Seq(Nat)
  BY DEF TypeOK, TasksOK, PaydayOK
<1>a. /\ OneActive(runs)
      /\ \A t \in Tasks : pc[t] = "transition_write" =>
           job[t].run \in DOMAIN runs /\ job[t].to \in Allowed(runs[job[t].run].status)
      /\ \A i \in DOMAIN paidLog : paidLog[i] \in DOMAIN runs /\ runs[paidLog[i]].status = "paid"
      /\ \A i, j \in DOMAIN paidLog : paidLog[i] = paidLog[j] => i = j
  BY DEF RunInv
<1>b. SUFFICES OneActive(runs') /\ Steady /\ Paid /\ Once
  BY DEF RunInv, OneActive
<1>1. CASE UNCHANGED <<runs, paidLog, staging, booked>> /\ Stays({"book", "transition_write"})
  BY <1>1, <1>a DEF Stays, OneActive
<1>2. ASSUME NEW t \in Tasks, Others(t), UNCHANGED <<runs, paidLog>>, pc'[t] # "transition_write"
      PROVE  OneActive(runs') /\ Steady /\ Paid /\ Once
  BY <1>2, <1>a DEF Others, OneActive
<1>3. ASSUME NEW t \in Tasks, Others(t), ComputeRead(t) \/ IngestMatch(t) \/ IngestRead(t) \/ IngestInsert(t) \/ BridgeToFinalize(t)
      PROVE  OneActive(runs') /\ Steady /\ Paid /\ Once
  <2>1. UNCHANGED <<runs, paidLog>> /\ pc'[t] # "transition_write"
    BY <1>0, <1>3 DEF ComputeRead, IngestMatch, IngestRead, IngestInsert, BridgeToFinalize, Goto, Continue, Finish, FinishItem, paydayVars, runVars
  <2> QED
    BY <1>2, <1>3, <2>1
<1>4. ASSUME NEW t \in Tasks, Others(t), TransitionRead(t)
      PROVE  OneActive(runs') /\ Steady /\ Paid /\ Once
  <2>1. UNCHANGED <<runs, paidLog>> /\ (pc'[t] = "transition_write" => /\ job'[t] = job[t] /\ job[t].run \in DOMAIN runs
                                           /\ job[t].to \in Allowed(runs[job[t].run].status))
    BY <1>0, <1>4 DEF TransitionRead, Goto, Continue, Finish, paydayVars
  <2> QED
    BY <1>4, <1>a, <2>1 DEF Others, OneActive
<1>5. ASSUME NEW t \in Tasks, Others(t), ComputeInsert(t)
      PROVE  OneActive(runs') /\ Steady /\ Paid /\ Once
  <2>1. CASE ActiveRun(Item(t))
    <3>1. UNCHANGED <<runs, paidLog>> /\ pc'[t] # "transition_write"
      BY <1>0, <1>5, <2>1 DEF ComputeInsert, Finish, Continue
    <3> QED
      BY <1>2, <1>5, <3>1
  <2>2. CASE ~ActiveRun(Item(t))
    <3> DEFINE r == [emp |-> Item(t), status |-> "draft", key |-> << >>]
               n == Len(runs) + 1
    <3>1. runs' = Append(runs, r) /\ paidLog' = paidLog /\ pc'[t] # "transition_write"
      BY <1>0, <1>5, <2>2 DEF ComputeInsert, Finish, FinishItem, Continue
    <3>2. r.emp = Item(t) /\ \A i \in DOMAIN runs : runs[i].emp = Item(t) => runs[i].status = "cancelled"
      BY <2>2 DEF ActiveRun
    <3> HIDE DEF r
    <3>3. /\ DOMAIN runs' = DOMAIN runs \cup {n} /\ n \notin DOMAIN runs
          /\ runs'[n] = r /\ \A i \in DOMAIN runs : runs'[i] = runs[i]
      BY <1>0, <3>1, LenProperties, AppendProperties
    <3> HIDE DEF n
    <3>4. OneActive(runs')
      BY <1>a, <3>2, <3>3 DEF OneActive
    <3> QED
      BY <1>5, <1>a, <3>1, <3>3, <3>4 DEF Others
  <2> QED
    BY <2>1, <2>2
<1>6. ASSUME NEW t \in Tasks, Others(t), TransitionWrite(t)
      PROVE  OneActive(runs') /\ Steady /\ Paid /\ Once
  <2> DEFINE x == job[t].run
             to == job[t].to
  <2>1. pc[t] = "transition_write" /\ pc'[t] = "idle" /\ x \in DOMAIN runs /\ to \in Allowed(runs[x].status)
    BY <1>0, <1>6, <1>a DEF TransitionWrite, At, Finish, Continue
  <2>2. runs[x].status \notin {"paid", "cancelled"}
    BY <2>1 DEF Allowed
  <2>3. Steady
    <3>1. \A u \in Tasks : pc'[u] # "transition_write"
      BY <1>6, <2>1 DEF AloneInv, Others
    <3> QED
      BY <3>1
  <2>4. /\ DOMAIN runs' = DOMAIN runs /\ \A y \in DOMAIN runs : runs'[y].emp = runs[y].emp
        /\ \/ runs' = runs /\ paidLog' = paidLog
           \/ /\ \A y \in DOMAIN runs : runs'[y].status = IF y = x THEN to ELSE runs[y].status
              /\ paidLog' = IF to = "paid" THEN Append(paidLog, x) ELSE paidLog
    BY <1>6, TransitionRuns DEF TypeOK
  <2>5. CASE runs' = runs /\ paidLog' = paidLog
    BY <1>a, <2>3, <2>5 DEF OneActive
  <2>6. CASE /\ \A y \in DOMAIN runs : runs'[y].status = IF y = x THEN to ELSE runs[y].status
             /\ paidLog' = IF to = "paid" THEN Append(paidLog, x) ELSE paidLog
    <3> HIDE DEF x, to, Steady
    <3>1. OneActive(runs')
      BY <1>a, <2>2, <2>4, <2>6 DEF OneActive
    <3>2. \A i \in DOMAIN paidLog : paidLog[i] # x /\ paidLog[i] \in DOMAIN runs' /\ runs'[paidLog[i]].status = "paid"
      BY <1>a, <2>2, <2>4, <2>6
    <3>3. CASE to # "paid"
      BY <1>a, <2>3, <2>6, <3>1, <3>2, <3>3
    <3>4. CASE to = "paid"
      <4> DEFINE n == Len(paidLog) + 1
      <4>1. x \in Nat
        BY <1>0, <2>1, LenProperties
      <4>2. /\ DOMAIN paidLog' = DOMAIN paidLog \cup {n} /\ n \notin DOMAIN paidLog
            /\ paidLog'[n] = x /\ \A i \in DOMAIN paidLog : paidLog'[i] = paidLog[i]
        BY <1>0, <2>6, <3>4, <4>1, LenProperties, AppendProperties
      <4> HIDE DEF n
      <4>3. Paid
        BY <2>1, <2>4, <2>6, <3>2, <3>4, <4>2
      <4>4. Once
        BY <1>a, <3>2, <4>2
      <4> QED
        BY <2>3, <3>1, <4>3, <4>4
    <3> QED
      BY <3>3, <3>4
  <2> QED
    BY <2>4, <2>5, <2>6
<1> QED
  BY <1>1, <1>3, <1>4, <1>5, <1>6, PaydayOrNot DEF PaydayStep

\* The invariants of the month end give the property.
LEMMA PaidOnceFollows == TypeOK /\ BookInv /\ RunInv => PaidOnce
<1> SUFFICES ASSUME TypeOK, BookInv, RunInv PROVE PaidOnce
  OBVIOUS
<1>1. booked \in [Keys -> Nat]
  BY DEF TypeOK, PaydayOK
<1>2. \A k \in DOMAIN booked : booked[k] <= 1
  BY <1>1 DEF BookInv
<1>3. ASSUME Calm, NEW i \in DOMAIN paidLog, NEW j \in DOMAIN paidLog, i # j
      PROVE  runs[paidLog[i]].emp # runs[paidLog[j]].emp
  <2>1. /\ paidLog[i] \in DOMAIN runs /\ paidLog[j] \in DOMAIN runs /\ paidLog[i] # paidLog[j]
        /\ runs[paidLog[i]].status # "cancelled" /\ runs[paidLog[j]].status # "cancelled"
    BY <1>3 DEF RunInv
  <2> QED
    BY <1>3, <2>1 DEF RunInv, OneActive
<1> QED
  BY <1>2, <1>3 DEF PaidOnce

-----------------------------------------------------------------------------
(* The rows, step by step *)

\* A nonempty set of naturals below a bound has a largest member.
LEMMA Largest ==
  ASSUME NEW n \in Nat, NEW S, S \subseteq 0..n, S # {}
  PROVE  \E d \in S : \A x \in S : x <= d
<1> DEFINE T == {m \in Nat : n - m \in S}
<1>1. T \subseteq Nat /\ T # {}
  <2>1. PICK d \in S : TRUE
    OBVIOUS
  <2>2. d \in 0..n /\ n - d \in Nat /\ n - (n - d) = d
    OBVIOUS
  <2>3. n - d \in T
    BY <2>1, <2>2
  <2> QED
    BY <2>3
<1>2. PICK m \in T : \A y \in T : ~(<<y, m>> \in {ss \in Nat \X Nat : ss[1] < ss[2]})
  <2> DEFINE R == {ss \in Nat \X Nat : ss[1] < ss[2]}
  <2>1. IsWellFoundedOn(R, Nat)
    BY NatLessThanWellFounded DEF OpToRel
  <2> HIDE DEF R, T
  <2>2. \E x \in T : \A y \in T : ~(<<y, x>> \in R)
    BY <1>1, <2>1, WFMin
  <2> QED
    BY <2>2 DEF R
<1>3. \A y \in T : ~(y < m)
  BY <1>1, <1>2
<1>4. ASSUME NEW x \in S PROVE x <= n - m
  <2>1. x \in 0..n /\ n - x \in Nat /\ n - (n - x) = x
    OBVIOUS
  <2>2. ~(n - x < m)
    BY <1>3, <2>1
  <2> QED
    BY <2>1, <2>2
<1> QED
  BY <1>4

\* The rows have ids below the bound.
LEMMA RowIds ==
  ASSUME DeskOK
  PROVE  /\ rows \in Seq(DraftRows) /\ Len(rows) \in Nat /\ DOMAIN rows = 1..Len(rows)
         /\ DOMAIN rows \subseteq 1..MaxRows /\ \A d \in DOMAIN rows : rows[d] \in DraftRows
<1>1. rows \in Seq(DraftRows) /\ Len(rows) \in Nat /\ DOMAIN rows = 1..Len(rows) /\ Len(rows) <= MaxRows
  BY LenProperties DEF DeskOK
<1>2. MaxRows \in Nat
  BY DeskAssumption
<1> QED
  BY <1>1, <1>2, ElementOfSeq

\* The newest open session is an open session.
LEMMA NewestOpen ==
  ASSUME DeskOK, NEW w, OpenSessions(w) # {}
  PROVE  Newest(OpenSessions(w)) \in OpenSessions(w)
<1> DEFINE S == OpenSessions(w)
<1>1. S \subseteq 0..MaxRows /\ MaxRows \in Nat
  BY RowIds, DeskAssumption DEF OpenSessions
<1> HIDE DEF S
<1>2. S # {}
  BY DEF S
<1>3. \E d \in S : \A x \in S : x <= d
  BY <1>1, <1>2, Largest
<1>4. Newest(S) \in S
  BY <1>3 DEF Newest
<1> QED
  BY <1>4 DEF S

\* APPROVE, REJECT and EDIT change the status of the row they work on.
LEMMA DeskRows ==
  ASSUME TypeOK, NEW t \in Tasks, DeskStep(t)
  PROVE  /\ DOMAIN rows' = DOMAIN rows
         /\ \A d \in DOMAIN rows : \/ rows'[d].status = rows[d].status
                                   \/ d = Item(t) /\ rows'[d].status \in {"approved", "sent", "rejected", "edited"}
<1>0. rows \in Seq(DraftRows)
  BY DEF TypeOK, DeskOK
<1> DEFINE Goal == /\ DOMAIN rows' = DOMAIN rows
                   /\ \A d \in DOMAIN rows : \/ rows'[d].status = rows[d].status
                                             \/ d = Item(t) /\ rows'[d].status \in {"approved", "sent", "rejected", "edited"}
<1>1. ASSUME NEW s \in {"approved", "sent", "rejected"}, SetStatus(Item(t), s) PROVE Goal
  <2> DEFINE g == [rows EXCEPT ![Item(t)].status = s]
  <2>1. s \in Statuses
    BY DEF Statuses
  <2>2. DOMAIN g = DOMAIN rows /\ \A x \in DOMAIN rows : g[x].status = IF x = Item(t) THEN s ELSE rows[x].status
    BY <1>0, <2>1, RowStatus
  <2>3. rows' = g
    BY <1>1 DEF SetStatus
  <2> HIDE DEF g
  <2> QED
    BY <2>2, <2>3
<1>2. ASSUME EditMark(t) PROVE Goal
  <2> DEFINE n == job[t].text
             g == [rows EXCEPT ![Item(t)] = [rows[Item(t)] EXCEPT !.status = "edited", !.text = n]]
  <2>1. n \in Nat
    BY <1>2 DEF TypeOK, JobsOK, JobOK, RowJob, EditMark, At, RowPCs
  <2>2. rows' = g
    BY <1>2 DEF EditMark
  <2> HIDE DEF n
  <2>3. DOMAIN g = DOMAIN rows /\ \A x \in DOMAIN rows : g[x].status = IF x = Item(t) THEN "edited" ELSE rows[x].status
    BY <1>0, <2>1, RowEdited
  <2> HIDE DEF g
  <2> QED
    BY <2>2, <2>3
<1>3. ASSUME rows' = rows PROVE Goal
  BY <1>3
<1> HIDE DEF Goal
<1>4. ApproveMark(t) \/ MarkSent(t) \/ RejectMark(t) => Goal
  BY <1>1, <1>3 DEF ApproveMark, MarkSent, RejectMark
<1>5. ApproveRead(t) \/ AttendanceFind(t) \/ AutoCreateEmployee(t) \/ SaveAttendance(t) \/ Send(t) => Goal
  BY <1>3 DEF ApproveRead, AttendanceFind, AutoCreateEmployee, SaveAttendance, Send, deskVars
<1>6. RejectRead(t) \/ EditRead(t) \/ RememberRead(t) \/ RememberWrite(t) => Goal
  BY <1>3 DEF RejectRead, EditRead, RememberRead, RememberWrite, deskVars
<1>7. Goal
  BY <1>2, <1>4, <1>5, <1>6 DEF DeskStep
<1> QED
  BY <1>7 DEF Goal

\* A row that a message adds: no session, and with the id of an employee only if
\* there is one.
ArrivedRow(r) ==
  /\ r \in DraftRows /\ r.status \in {"pending", "rejected_quality"} /\ r.kind # "session" /\ r.asks = "none"
  /\ r.known => staff[r.who] > 0

\* A message adds a row and nothing else.
LEMMA ArrivalRow ==
  ASSUME TypeOK, Arrive
  PROVE  /\ UNCHANGED <<staff, attendance, unsaved, memory, delivered, unheard, edits>> /\ Len(rows) < MaxRows
         /\ \E r : ArrivedRow(r) /\ rows' = Append(rows, r)
<1> USE DEF ArrivedRow, Row, DraftRows, Statuses, NewRow
<1>0. PICK w \in env.writers : KeepDraft(w) \/ Complaint(w) \/ SlipDraft(w) \/ AttendanceDraft(w) \/ HandleAttendanceMessage(w)
  BY DEF Arrive
<1>a. w \in People
  BY DeskAssumption DEF TypeOK, WorldOK
<1>1. CASE KeepDraft(w)
  <2>1. PICK s \in {"pending", "rejected_quality"} : NewRow(Row("reply", w, s))
    BY <1>1 DEF KeepDraft
  <2>2. ArrivedRow(Row("reply", w, s))
    BY <1>a, <2>1
  <2> QED
    BY <1>1, <2>1, <2>2 DEF KeepDraft
<1>2. CASE Complaint(w)
  <2>1. ArrivedRow(Row("complaint", w, "pending"))
    BY <1>a
  <2> QED
    BY <1>2, <2>1 DEF Complaint
<1>3. CASE SlipDraft(w)
  <2>1. ArrivedRow(Row("release_slip", w, "pending"))
    BY <1>a
  <2> QED
    BY <1>3, <2>1 DEF SlipDraft
<1>4. CASE AttendanceDraft(w)
  <2>1. PICK n \in BOOLEAN : NewRow([Row("attendance", w, "pending") EXCEPT !.named = n, !.known = n /\ staff[w] > 0])
    BY <1>4 DEF AttendanceDraft
  <2>2. ArrivedRow([Row("attendance", w, "pending") EXCEPT !.named = n, !.known = n /\ staff[w] > 0])
    BY <1>a
  <2> QED
    BY <1>4, <2>1, <2>2, ZenonT(30) DEF AttendanceDraft
<1>5. CASE HandleAttendanceMessage(w)
  <2>1. ArrivedRow(Row("report", w, "pending"))
    BY <1>a
  <2> QED
    BY <1>5, <2>1 DEF HandleAttendanceMessage
<1> QED
  BY <1>0, <1>1, <1>2, <1>3, <1>4, <1>5

\* _create_session closes what is open.
LEMMA ClosedRows ==
  ASSUME TypeOK, NEW t \in Tasks, CloseStale(t)
  PROVE  /\ DOMAIN rows' = DOMAIN rows
         /\ \A d \in DOMAIN rows : rows'[d].status = IF d \in OpenSessions(job[t].who) THEN "rejected" ELSE rows[d].status
<1> DEFINE S == OpenSessions(job[t].who)
<1>1. rows' = [d \in DOMAIN rows |-> IF d \in S THEN [rows[d] EXCEPT !.status = "rejected"] ELSE rows[d]]
  BY DEF CloseStale
<1>2. rows \in Seq(DraftRows)
  BY DEF TypeOK, DeskOK
<1> HIDE DEF S
<1>3. DOMAIN rows' = DOMAIN rows /\ \A d \in DOMAIN rows : rows'[d].status = IF d \in S THEN "rejected" ELSE rows[d].status
  BY ONLY <1>1, <1>2, RowsClosed, ZenonT(30)
<1> QED
  BY <1>3 DEF S

\* The row of a new session.
CreatedRow(t) == [Row("session", job[t].who, FirstStep(job[t].op)) EXCEPT !.asks = job[t].op]

\* _create_session then adds the session.
LEMMA CreatedRows ==
  ASSUME TypeOK, NEW t \in Tasks, CreateSession(t)
  PROVE  /\ Len(rows) < MaxRows /\ rows' = Append(rows, CreatedRow(t)) /\ CreatedRow(t) \in DraftRows
         /\ CreatedRow(t).kind = "session" /\ CreatedRow(t).asks = job[t].op /\ CreatedRow(t).status = FirstStep(job[t].op)
         /\ CreatedRow(t).known = FALSE /\ CreatedRow(t).named = FALSE /\ job[t].op \in {"advance", "slip", "slip_image"}
<1>1. job[t].op \in {"advance", "slip", "slip_image"} /\ job[t].who \in People
  BY DEF CreateSession, At, TypeOK, JobsOK, JobOK, Asks
<1>2. FirstStep(job[t].op) \in Statuses
  BY <1>1 DEF FirstStep, Statuses, Steps
<1>3. /\ CreatedRow(t) \in DraftRows /\ CreatedRow(t).kind = "session" /\ CreatedRow(t).asks = job[t].op
      /\ CreatedRow(t).status = FirstStep(job[t].op) /\ CreatedRow(t).known = FALSE /\ CreatedRow(t).named = FALSE
  BY <1>1, <1>2 DEF CreatedRow, Row, DraftRows, Messages
<1> QED
  BY <1>1, <1>3 DEF CreateSession, NewRow, CreatedRow

\* What an appended row changes.
LEMMA OneMoreRow ==
  ASSUME DeskOK, NEW r \in DraftRows, rows' = Append(rows, r), Len(rows) < MaxRows
  PROVE  /\ DOMAIN rows' = DOMAIN rows \cup {Len(rows) + 1} /\ Len(rows) + 1 \notin DOMAIN rows
         /\ Len(rows) + 1 \in 1..MaxRows
         /\ rows'[Len(rows) + 1] = r /\ \A x \in DOMAIN rows : rows'[x] = rows[x]
<1>1. rows \in Seq(DraftRows) /\ Len(rows) \in Nat /\ MaxRows \in Nat
  BY RowIds, DeskAssumption
<1>2. Len(rows) + 1 \in 1..MaxRows
  BY <1>1
<1> QED
  BY <1>1, <1>2, RowAdded

\* _advance_session and _close_session set the status of one row.
LEMMA VerifiedRows ==
  ASSUME TypeOK, NEW t \in Tasks, VerifyWrite(t)
  PROVE  /\ DOMAIN rows' = DOMAIN rows /\ job[t].to \in Steps \cup {"verified"}
         /\ \A d \in DOMAIN rows : rows'[d].status = IF d = job[t].row THEN job[t].to ELSE rows[d].status
<1> DEFINE s == job[t].to
           g == [rows EXCEPT ![job[t].row].status = s]
<1>1. s \in Steps \cup {"verified"} /\ rows \in Seq(DraftRows)
  BY DEF VerifyWrite, At, TypeOK, JobsOK, JobOK, DeskOK
<1>2. rows' = g
  BY DEF VerifyWrite, SetStatus
<1> HIDE DEF s
<1>3. s \in Statuses
  BY <1>1 DEF Statuses
<1>4. DOMAIN g = DOMAIN rows /\ \A x \in DOMAIN rows : g[x].status = IF x = job[t].row THEN s ELSE rows[x].status
  BY <1>1, <1>3, RowStatus
<1> HIDE DEF g
<1> QED
  BY <1>1, <1>2, <1>4 DEF s

-----------------------------------------------------------------------------
(* The evidence *)

\* What a request needs is one or two pictures.
LEMMA EvidenceBounds ==
  ASSUME NEW a, NEW s
  PROVE  /\ Needed(a) \in 1..2 /\ Evidence(a, s) \in 0..2
         /\ s \in {"pending", "rejected_quality", "approved", "sent", "rejected", "edited"} => Evidence(a, s) = 0
         /\ Evidence(a, "verified") = Needed(a)
  BY DEF Evidence, Needed

\* A message moves a session by one picture at most, and only if it is one.
LEMMA StepEvidence ==
  ASSUME NEW a, NEW s, NEW m
  PROVE  Evidence(a, NextStep(s, m)) <= Evidence(a, s) + (IF IsImage(m) THEN 1 ELSE 0)
<1>1. Needed(a) \in 1..2
  BY DEF Needed
<1>2. CASE s = "pending_selfie"
  BY <1>1, <1>2 DEF Evidence, NextStep, Needed
<1>3. CASE s = "pending_slip"
  BY <1>1, <1>3 DEF Evidence, NextStep
<1>4. CASE s = "pending_payment_method"
  BY <1>1, <1>4 DEF Evidence, NextStep
<1>5. CASE s \notin {"pending_selfie", "pending_slip", "pending_payment_method"}
  <2>1. NextStep(s, m) = s /\ Evidence(a, s) \in 0..2
    BY <1>5, EvidenceBounds DEF NextStep
  <2> QED
    BY <2>1
<1> QED
  BY <1>2, <1>3, <1>4, <1>5

\* What a step has to keep for the evidence to stay complete.
LEMMA EvidenceKept ==
  ASSUME TypeOK, TypeOK', EvidenceInv, RowsKept(rows, rows'),
         \A d \in DOMAIN rows : shown'[d] >= shown[d],
         \A d \in DOMAIN rows' : shown'[d] >= Evidence(rows'[d].asks, rows'[d].status),
         \A d \in 1..MaxRows : asked'[d] > 0 => asked[d] > 0 \/ (d \in DOMAIN rows /\ shown[d] >= Needed(rows[d].asks)),
         \A u \in Tasks : pc'[u] \in {"verify_write", "build_draft"} =>
           \/ pc[u] = pc'[u] /\ job'[u] = job[u]
           \/ /\ job'[u].row \in DOMAIN rows
              /\ shown'[job'[u].row] >= IF pc'[u] = "build_draft" THEN Needed(rows[job'[u].row].asks)
                                        ELSE Evidence(rows[job'[u].row].asks, job'[u].to)
  PROVE  EvidenceInv'
<1>1. /\ \A d \in DOMAIN rows : d \in 1..MaxRows /\ d \in DOMAIN rows' /\ rows'[d].asks = rows[d].asks
      /\ shown \in [1..MaxRows -> Nat] /\ shown' \in [1..MaxRows -> Nat]
  BY RowIds DEF RowsKept, TypeOK, SessionOK
<1>2. \A a, s : Needed(a) \in Nat /\ Evidence(a, s) \in Nat
  BY EvidenceBounds
<1>3. ASSUME NEW d \in 1..MaxRows, asked'[d] > 0 PROVE d \in DOMAIN rows' /\ shown'[d] >= Needed(rows'[d].asks)
  <2>1. d \in DOMAIN rows /\ shown[d] >= Needed(rows[d].asks)
    BY <1>3 DEF EvidenceInv
  <2>2. shown'[d] >= shown[d] /\ shown[d] \in Nat /\ shown'[d] \in Nat /\ Needed(rows[d].asks) \in Nat /\ rows'[d].asks = rows[d].asks
    BY <1>1, <1>2, <2>1
  <2>3. shown'[d] >= Needed(rows[d].asks)
    BY <2>1, <2>2
  <2> QED
    BY <1>1, <2>1, <2>2, <2>3
<1>4. ASSUME NEW u \in Tasks, pc'[u] \in {"verify_write", "build_draft"}
      PROVE  /\ job'[u].row \in DOMAIN rows'
             /\ shown'[job'[u].row] >= IF pc'[u] = "build_draft" THEN Needed(rows'[job'[u].row].asks)
                                       ELSE Evidence(rows'[job'[u].row].asks, job'[u].to)
  <2> DEFINE d == job'[u].row
             e == IF pc'[u] = "build_draft" THEN Needed(rows[d].asks) ELSE Evidence(rows[d].asks, job'[u].to)
  <2>1. CASE pc[u] = pc'[u] /\ job'[u] = job[u]
    <3>1. d \in DOMAIN rows /\ shown[d] >= e
      BY <1>4, <2>1 DEF EvidenceInv
    <3>2. e \in Nat
      BY <1>2
    <3> HIDE DEF e
    <3>3. shown'[d] >= e
      BY <1>1, <3>1, <3>2
    <3> QED
      BY <1>1, <3>1, <3>3 DEF e
  <2>2. CASE d \in DOMAIN rows /\ shown'[d] >= e
    BY <1>1, <2>2
  <2> QED
    BY <1>4, <2>1, <2>2
<1> QED
  BY <1>3, <1>4 DEF EvidenceInv

\* advance_verification and what the desk does to the rows keep the evidence
\* complete.
LEMMA EvidenceStep ==
  ASSUME TypeOK, TypeOK', Moves, RowsKept(rows, rows'), EvidenceInv
  PROVE  EvidenceInv'
<1>0. /\ DOMAIN pc = Tasks /\ DOMAIN job = Tasks /\ DeskOK
      /\ shown \in [1..MaxRows -> Nat] /\ asked \in [1..MaxRows -> Nat]
      /\ DOMAIN rows \subseteq 1..MaxRows
      /\ \A d \in DOMAIN rows : rows'[d].asks = rows[d].asks
  BY RowIds DEF TypeOK, TasksOK, SessionOK, RowsKept
<1>a. \A d \in DOMAIN rows : shown[d] \in Nat /\ shown[d] >= Evidence(rows[d].asks, rows[d].status)
  BY <1>0 DEF EvidenceInv
<1>b. \A d \in DOMAIN rows : shown[d] >= shown[d]
  BY <1>a
<1> DEFINE Quiet == UNCHANGED sessionVars /\ Stays({"verify_write", "build_draft"})
<1>1. ASSUME Quiet, \A d \in DOMAIN rows' : shown[d] >= Evidence(rows'[d].asks, rows'[d].status) PROVE EvidenceInv'
  BY <1>1, <1>b, EvidenceKept DEF Stays, sessionVars
<1>2. ASSUME Quiet, DOMAIN rows' = DOMAIN rows,
             \A d \in DOMAIN rows : \/ rows'[d].status = rows[d].status
                                    \/ rows'[d].status \in {"approved", "sent", "rejected", "edited"}
      PROVE  EvidenceInv'
  <2>1. ASSUME NEW d \in DOMAIN rows' PROVE shown[d] >= Evidence(rows'[d].asks, rows'[d].status)
    <3>1. CASE rows'[d].status = rows[d].status
      BY <1>0, <1>2, <1>a, <3>1
    <3>2. CASE rows'[d].status \in {"approved", "sent", "rejected", "edited"}
      <4>1. Evidence(rows'[d].asks, rows'[d].status) = 0 /\ shown[d] \in Nat
        BY <1>2, <1>a, <3>2, EvidenceBounds
      <4> QED
        BY <4>1
    <3> QED
      BY <1>2, <3>1, <3>2
  <2> QED
    BY <1>1, <1>2, <2>1
<1>3. ASSUME NEW r, rows' = Append(rows, r), Quiet, Len(rows) < MaxRows, ArrivedRow(r) PROVE EvidenceInv'
  <2>1. r \in DraftRows /\ Evidence(r.asks, r.status) = 0
    BY <1>3, EvidenceBounds DEF ArrivedRow
  <2>2. /\ DOMAIN rows' = DOMAIN rows \cup {Len(rows) + 1} /\ Len(rows) + 1 \in 1..MaxRows
        /\ rows'[Len(rows) + 1] = r /\ \A x \in DOMAIN rows : rows'[x] = rows[x]
    BY <1>0, <1>3, <2>1, OneMoreRow
  <2>3. shown[Len(rows) + 1] >= 0
    BY <1>0, <2>2
  <2>4. \A d \in DOMAIN rows' : shown[d] >= Evidence(rows'[d].asks, rows'[d].status)
    BY <1>a, <2>1, <2>2, <2>3
  <2> QED
    BY <1>1, <1>3, <2>4
<1>4. ASSUME NEW t \in Tasks, SessionStep(t), Others(t) PROVE EvidenceInv'
  <2>1. CASE CloseStale(t)
    <3>1. Quiet
      BY <1>0, <1>4, <2>1 DEF CloseStale, Goto, Others, Stays, sessionVars
    <3> QED
      BY <1>2, <2>1, <3>1, ClosedRows
  <2>2. CASE CreateSession(t)
    <3> DEFINE n == Len(rows) + 1
               m == job[t].op
               r == CreatedRow(t)
    <3>1. /\ rows' = Append(rows, r) /\ r \in DraftRows /\ Len(rows) < MaxRows
          /\ r.asks = m /\ r.status = FirstStep(m) /\ m \in {"advance", "slip", "slip_image"}
      BY <2>2, CreatedRows
    <3>2. /\ pc'[t] = "idle" /\ asked' = asked
          /\ shown' = IF IsImage(m) THEN [shown EXCEPT ![n] = 1] ELSE shown
      BY <1>0, <2>2 DEF CreateSession, Finish, Continue
    <3> HIDE DEF r
    <3>3. /\ DOMAIN rows' = DOMAIN rows \cup {n} /\ n \notin DOMAIN rows /\ n \in 1..MaxRows
          /\ rows'[n] = r /\ \A x \in DOMAIN rows : rows'[x] = rows[x]
      BY <1>0, <3>1, OneMoreRow
    <3> HIDE DEF n, m
    <3>4. \A d \in DOMAIN rows : shown'[d] = shown[d]
      BY <1>0, <3>2, <3>3
    <3>5. shown'[n] >= Evidence(r.asks, r.status)
      <4>1. CASE m = "slip_image"
        BY <1>0, <3>1, <3>2, <3>3, <4>1 DEF IsImage, Evidence, Needed, FirstStep
      <4>2. CASE m # "slip_image"
        <5>1. Evidence(r.asks, r.status) = 0
          BY <3>1, <4>2 DEF Evidence, Needed, FirstStep
        <5>2. shown'[n] \in Nat
          BY <3>3 DEF TypeOK, SessionOK
        <5> QED
          BY <5>1, <5>2
      <4> QED
        BY <4>1, <4>2
    <3>6. \A d \in DOMAIN rows' : shown'[d] >= Evidence(rows'[d].asks, rows'[d].status)
      BY <1>a, <3>3, <3>4, <3>5
    <3>7. \A d \in DOMAIN rows : shown'[d] >= shown[d]
      BY <1>a, <3>4
    <3>8. Stays({"verify_write", "build_draft"})
      BY <1>4, <3>2 DEF Others, Stays
    <3> QED
      BY <3>2, <3>6, <3>7, <3>8, EvidenceKept DEF Stays
  <2>3. CASE VerifyRead(t)
    <3> DEFINE S == OpenSessions(job[t].who)
               m == job[t].op
               d == Newest(S)
               to == NextStep(rows[d].status, m)
    <3>1. /\ rows' = rows /\ asked' = asked
          /\ shown' = IF S # {} /\ IsImage(m) THEN [shown EXCEPT ![d] = @ + 1] ELSE shown
          /\ \/ pc'[t] = "idle"
             \/ pc'[t] = "verify_write" /\ job'[t] = [row |-> d, to |-> to] /\ S # {}
      BY <1>0, <2>3 DEF VerifyRead, Finish, Continue, deskVars
    <3>2. S # {} => d \in DOMAIN rows
      <4>1. S # {} => d \in S
        BY <1>0, NewestOpen
      <4> QED
        BY <4>1 DEF OpenSessions
    <3>3. to = NextStep(rows[d].status, m)
      OBVIOUS
    <3> HIDE DEF S, d, m, to
    <3>4. \A x \in DOMAIN rows : shown'[x] = shown[x] + (IF S # {} /\ x = d /\ IsImage(m) THEN 1 ELSE 0)
      BY <1>0, <3>1, <3>2
    <3>5. \A x \in DOMAIN rows : shown'[x] >= shown[x] /\ shown'[x] \in Nat
      BY <1>a, <3>4
    <3>6. \A x \in DOMAIN rows' : shown'[x] >= Evidence(rows'[x].asks, rows'[x].status)
      <4>1. \A x \in DOMAIN rows : Evidence(rows[x].asks, rows[x].status) \in 0..2
        BY EvidenceBounds
      <4> QED
        BY <1>a, <3>1, <3>5, <4>1
    <3>7. S # {} => shown'[d] >= Evidence(rows[d].asks, to)
      <4> DEFINE e == Evidence(rows[d].asks, to)
                 f == Evidence(rows[d].asks, rows[d].status)
                 i == IF IsImage(m) THEN 1 ELSE 0
      <4>1. e <= f + i /\ e \in Nat /\ f \in Nat /\ i \in Nat
        <5>1. e <= f + i
          BY <3>3, StepEvidence
        <5>2. e \in Nat /\ f \in Nat
          BY EvidenceBounds
        <5> QED
          BY <5>1, <5>2
      <4>2. S # {} => shown'[d] = shown[d] + i /\ shown[d] >= f /\ shown[d] \in Nat
        BY <1>a, <3>2, <3>4
      <4> HIDE DEF e, f, i
      <4>3. S # {} => shown'[d] >= e
        BY <4>1, <4>2
      <4> QED
        BY <4>3 DEF e
    <3>8. ASSUME NEW u \in Tasks, pc'[u] \in {"verify_write", "build_draft"}
          PROVE  \/ pc[u] = pc'[u] /\ job'[u] = job[u]
                 \/ /\ job'[u].row \in DOMAIN rows
                    /\ shown'[job'[u].row] >= IF pc'[u] = "build_draft" THEN Needed(rows[job'[u].row].asks)
                                              ELSE Evidence(rows[job'[u].row].asks, job'[u].to)
      <4>1. CASE u = t
        <5>1. pc'[u] = "verify_write" /\ job'[u].row = d /\ job'[u].to = to /\ S # {}
          BY <3>1, <3>8, <4>1
        <5> QED
          BY <3>2, <3>7, <5>1
      <4>2. CASE u # t
        BY <1>4, <4>2 DEF Others
      <4> QED
        BY <4>1, <4>2
    <3> QED
      BY <3>1, <3>5, <3>6, <3>8, EvidenceKept
  <2>4. CASE VerifyWrite(t)
    <3> DEFINE d == job[t].row
    <3>1. /\ UNCHANGED sessionVars /\ pc[t] = "verify_write"
          /\ \/ pc'[t] = "idle"
             \/ pc'[t] = "build_draft" /\ job'[t] = job[t] /\ job[t].to = "verified"
      BY <1>0, <2>4 DEF VerifyWrite, At, Goto, Finish, Continue
    <3>2. /\ DOMAIN rows' = DOMAIN rows
          /\ \A x \in DOMAIN rows : rows'[x].status = IF x = d THEN job[t].to ELSE rows[x].status
      BY <2>4, VerifiedRows
    <3>3. d \in DOMAIN rows /\ shown[d] >= Evidence(rows[d].asks, job[t].to)
      BY <3>1 DEF EvidenceInv
    <3>4. \A x \in DOMAIN rows' : shown'[x] >= Evidence(rows'[x].asks, rows'[x].status)
      BY <1>0, <1>a, <3>1, <3>2, <3>3 DEF sessionVars
    <3>5. ASSUME NEW u \in Tasks, pc'[u] \in {"verify_write", "build_draft"}
          PROVE  \/ pc[u] = pc'[u] /\ job'[u] = job[u]
                 \/ /\ job'[u].row \in DOMAIN rows
                    /\ shown'[job'[u].row] >= IF pc'[u] = "build_draft" THEN Needed(rows[job'[u].row].asks)
                                              ELSE Evidence(rows[job'[u].row].asks, job'[u].to)
      <4>1. CASE u = t
        <5>1. pc'[u] = "build_draft" /\ job'[u].row = d /\ shown' = shown /\ job[t].to = "verified"
          BY <3>1, <3>5, <4>1 DEF sessionVars
        <5>2. shown[d] >= Needed(rows[d].asks)
          BY <3>3, <5>1, EvidenceBounds
        <5> QED
          BY <3>3, <5>1, <5>2
      <4>2. CASE u # t
        BY <1>4, <4>2 DEF Others
      <4> QED
        BY <4>1, <4>2
    <3>6. shown' = shown /\ asked' = asked
      BY <3>1 DEF sessionVars
    <3> QED
      BY <1>b, <3>4, <3>5, <3>6, EvidenceKept
  <2>5. CASE BuildDraft(t)
    <3> DEFINE d == job[t].row
    <3>1. /\ rows' = rows /\ shown' = shown /\ pc[t] = "build_draft" /\ pc'[t] = "idle"
          /\ asked' = asked \/ asked' = [asked EXCEPT ![d] = @ + 1]
      BY <1>0, <2>5 DEF BuildDraft, At, Finish, Continue, deskVars
    <3>2. d \in DOMAIN rows /\ shown[d] >= Needed(rows[d].asks)
      BY <3>1 DEF EvidenceInv
    <3> HIDE DEF d
    <3>3. \A x \in 1..MaxRows : asked'[x] > 0 => asked[x] > 0 \/ (x \in DOMAIN rows /\ shown[x] >= Needed(rows[x].asks))
      BY <1>0, <3>1, <3>2
    <3>4. Stays({"verify_write", "build_draft"})
      BY <1>4, <3>1 DEF Others, Stays
    <3>5. \A x \in DOMAIN rows' : shown'[x] >= Evidence(rows'[x].asks, rows'[x].status)
      BY <1>a, <3>1
    <3> QED
      BY <1>b, <3>1, <3>3, <3>4, <3>5, EvidenceKept DEF Stays
  <2> QED
    BY <1>4, <2>1, <2>2, <2>3, <2>4, <2>5 DEF SessionStep
<1>5. ASSUME NEW t \in Tasks, NEW S \in {RowPCs, PaydayPCs, RolePCs}, Lane(t, S) PROVE Stays({"verify_write", "build_draft"})
  BY <1>5 DEF Stays, Lane, Others, RowPCs, PaydayPCs, RolePCs
<1>6. ASSUME NEW t \in Tasks, Enters(t) PROVE Stays({"verify_write", "build_draft"})
  BY <1>6 DEF Stays, Enters, Others, CheckPCs, OfficePCs, FirstPCs
<1>7. ASSUME UNCHANGED <<pc, job>> PROVE Stays({"verify_write", "build_draft"})
  BY <1>7 DEF Stays
<1>8. ASSUME Restart PROVE Stays({"verify_write", "build_draft"}) /\ UNCHANGED sessionVars /\ UNCHANGED deskVars
  BY <1>8 DEF Stays, Restart
<1>9. ASSUME UNCHANGED deskVars, Quiet PROVE EvidenceInv'
  BY <1>2, <1>9 DEF deskVars
<1>10. ASSUME Arrive, Quiet PROVE EvidenceInv'
  BY <1>3, <1>10, ArrivalRow
<1>11. ASSUME NEW t \in Tasks, DeskStep(t), Quiet PROVE EvidenceInv'
  BY <1>2, <1>11, DeskRows
<1> HIDE DEF Quiet
<1>12. CASE Arrival /\ UNCHANGED <<sessionVars, paydayVars, users, restarts>>
  BY <1>7, <1>10, <1>12 DEF Quiet, Arrival
<1>13. CASE \E t \in Tasks : DeskStep(t) /\ Lane(t, RowPCs) /\ UNCHANGED <<sessionVars, paydayVars, users, restarts>>
  BY <1>5, <1>11, <1>13 DEF Quiet
<1>14. CASE \E t \in Tasks : SessionStep(t) /\ Lane(t, SessionPCs) /\ UNCHANGED <<paydayVars, users, restarts>>
  BY <1>4, <1>14 DEF Lane
<1> QED
  BY <1>5, <1>6, <1>7, <1>8, <1>9, <1>12, <1>13, <1>14 DEF Moves, Quiet

-----------------------------------------------------------------------------
(* The roles *)

\* The roles in their order, superadmin the highest.
LEMMA LevelRanks ==
  /\ Level("superadmin") = 5
  /\ \A r \in RoleNames : Level(r) \in 1..5 /\ (Level(r) = 5 => r = "superadmin")
<1>1. /\ DOMAIN Levels = 1..5 /\ Levels[1] = "viewer" /\ Levels[2] = "operator" /\ Levels[3] = "accountant"
      /\ Levels[4] = "admin" /\ Levels[5] = "superadmin"
  BY DEF Levels
<1>2. ASSUME NEW r \in RoleNames PROVE Level(r) \in 1..5 /\ Levels[Level(r)] = r
  <2>1. \E i \in DOMAIN Levels : Levels[i] = r
    BY DEF RoleNames
  <2>2. Level(r) \in DOMAIN Levels /\ Levels[Level(r)] = r
    BY <2>1 DEF Level
  <2> QED
    BY <1>1, <2>2
<1>3. "superadmin" \in RoleNames
  BY <1>1 DEF RoleNames
<1>4. Level("superadmin") = 5
  <2>1. Level("superadmin") \in 1..5 /\ Levels[Level("superadmin")] = "superadmin"
    BY <1>2, <1>3
  <2> QED
    BY <1>1, <2>1
<1> QED
  BY <1>1, <1>2, <1>4

\* check_permission: whoever may use a command of superadmins is one.
LEMMA PermittedIsSuperadmin ==
  ASSUME TypeOK, NEW t \in Tasks, job[t].by \in Phones, job[t].op \in {"user_add", "user_role"}, Permitted(t)
  PROVE  "superadmin" \in users[job[t].by].roles
<1> DEFINE p == job[t].by
           S == {Level(r) : r \in users[p].roles}
<1>1. MaxLevel(p) >= 5
  BY LevelRanks DEF Permitted, RequiredRole
<1>2. users[p].roles \subseteq RoleNames
  BY DEF TypeOK, UsersOK, UserRows
<1>3. users[p].roles # {}
  BY <1>1 DEF MaxLevel
<1>4. S \subseteq 0..5 /\ S # {}
  BY <1>2, <1>3, LevelRanks
<1>5. \E n \in S : \A x \in S : x <= n
  <2> HIDE DEF S
  <2> QED
    BY <1>4, Largest
<1>6. \E n \in S : \A r \in users[p].roles : Level(r) <= n
  BY <1>5
<1>7. MaxLevel(p) \in S
  BY <1>3, <1>6 DEF MaxLevel
<1>8. PICK r \in users[p].roles : MaxLevel(p) = Level(r)
  BY <1>7
<1>9. Level(r) \in 1..5 /\ Level(r) >= 5
  BY <1>1, <1>2, <1>8, LevelRanks
<1>10. Level(r) = 5
  BY <1>9
<1> QED
  BY <1>2, <1>8, <1>10, LevelRanks

\* What a step has to keep for the grants to stay covered.
LEMMA RolesKept ==
  ASSUME TypeOK, RolesInv, env' = env, NEW t \in Tasks, Others(t),
         \A p \in Phones : users'[p].status = "none" => users[p].status = "none" /\ users'[p].roles = {},
         \A u \in Tasks : pc'[u] \in GrantPCs => Excused \/ \A p \in Phones : users[p].roles \subseteq users'[p].roles,
         pc'[t] \in GrantPCs => pc[t] \in GrantPCs /\ job'[t] = job[t],
         pc'[t] = "grant" => users'[job[t].phone].status # "none",
         pc'[t] # "user_revoke"
  PROVE  RolesInv'
<1>1. ASSUME NEW u \in Tasks, pc'[u] = "user_revoke" PROVE "user_revoke" \in env'.routes
  BY <1>1 DEF Others, RolesInv
<1>2. ASSUME NEW u \in Tasks, pc'[u] = "grant" PROVE users'[job'[u].phone].status # "none"
  <2>1. CASE u = t
    BY <1>2, <2>1 DEF GrantPCs
  <2>2. CASE u # t
    <3>1. pc[u] = "grant" /\ job'[u] = job[u]
      BY <1>2, <2>2 DEF Others
    <3>2. job[u].phone \in Phones /\ users[job[u].phone].status # "none"
      BY <3>1 DEF RolesInv, TypeOK, JobsOK, JobOK, GrantJob, UserJob
    <3> QED
      BY <3>1, <3>2
  <2> QED
    BY <2>1, <2>2
<1>3. ASSUME NEW u \in Tasks, pc'[u] \in GrantPCs, ~Excused
      PROVE  job'[u].by = "http" \/ (job'[u].by \in Phones /\ "superadmin" \in users'[job'[u].by].roles)
  <2>1. pc[u] \in GrantPCs /\ job'[u] = job[u]
    BY <1>3 DEF Others
  <2>2. job[u].by = "http" \/ (job[u].by \in Phones /\ "superadmin" \in users[job[u].by].roles)
    BY <1>3, <2>1 DEF RolesInv
  <2> QED
    BY <1>3, <2>1, <2>2
<1> QED
  BY <1>1, <1>2, <1>3 DEF RolesInv, Excused, Calm

\* The commands and routes on users, one by one.
LEMMA RolesStepKeeps ==
  ASSUME TypeOK, AloneInv, RolesInv, env' = env, NEW t \in Tasks, Others(t), RolesStep(t)
  PROVE  /\ RolesInv'
         /\ \A p \in Phones : users'[p].roles \subseteq users[p].roles \/ At(t, "grant")
<1> DEFINE p == job[t].phone
<1>0. /\ DOMAIN pc = Tasks /\ DOMAIN job = Tasks /\ users \in [Phones -> UserRows]
      /\ \A x \in Phones : users[x].status = "none" => users[x].roles = {}
      /\ pc[t] \in RolePCs => p \in Phones
  BY DEF TypeOK, TasksOK, UsersOK, RolesInv, JobsOK, JobOK, GrantJob, UserJob, RolePCs
<1>1. CASE AddUser(t)
  <2>1. pc[t] = "user_add" /\ p \in Phones
    BY <1>0, <1>1 DEF AddUser, At, RolePCs
  <2>2. CASE users[p].status # "none"
    <3>1. users' = users /\ pc'[t] = "idle"
      BY <1>0, <1>1, <2>2 DEF AddUser, Finish, Continue
    <3> QED
      BY <1>0, <3>1, RolesKept DEF GrantPCs
  <2>3. CASE users[p].status = "none"
    <3>1. users' = [users EXCEPT ![p] = User({})] /\ pc'[t] = "grant" /\ job'[t] = job[t]
      BY <1>0, <1>1, <2>3 DEF AddUser, Goto
    <3>2. User({}).status = "active" /\ User({}).roles = {} /\ users[p].roles = {}
      BY <1>0, <2>1, <2>3 DEF User
    <3> HIDE DEF p
    <3>3. users'[p].status = "active" /\ \A x \in Phones : users'[x].roles = users[x].roles /\ (x # p => users'[x] = users[x])
      BY <1>0, <2>1, <3>1, <3>2
    <3>4. \A x \in Phones : users'[x].status = "none" => users[x].status = "none" /\ users'[x].roles = {}
      BY <1>0, <3>3
    <3> QED
      BY <1>0, <2>1, <3>1, <3>3, <3>4, RolesKept DEF GrantPCs, p
  <2> QED
    BY <2>2, <2>3
<1>2. CASE SetRole(t)
  <2>1. users' = users /\ pc[t] = "user_role" /\ (pc'[t] = "idle" \/ (pc'[t] = "grant" /\ job'[t] = job[t] /\ users[p].status # "none"))
    BY <1>0, <1>2 DEF SetRole, At, Goto, Finish, Continue
  <2> QED
    BY <1>0, <2>1, RolesKept DEF GrantPCs
<1>3. CASE Grant(t)
  <2>1. users' = [users EXCEPT ![p].roles = @ \cup {job[t].role}] /\ pc[t] = "grant" /\ pc'[t] = "idle"
    BY <1>0, <1>3 DEF Grant, At, Finish, Continue
  <2>2. p \in Phones /\ users[p].status # "none" /\ users[p] \in UserRows
    BY <1>0, <2>1 DEF RolesInv, RolePCs
  <2> HIDE DEF p
  <2>3. /\ users'[p].status = users[p].status /\ users[p].roles \subseteq users'[p].roles
        /\ \A x \in Phones \ {p} : users'[x] = users[x]
    BY <1>0, <2>1, <2>2 DEF UserRows
  <2>4. \A x \in Phones : users'[x].status = "none" => users[x].status = "none" /\ users'[x].roles = {}
    BY <1>0, <2>2, <2>3
  <2>5. \A x \in Phones : users[x].roles \subseteq users'[x].roles
    BY <2>3
  <2> QED
    BY <1>3, <2>1, <2>4, <2>5, RolesKept DEF GrantPCs, Grant
<1>4. CASE DisableUser(t)
  <2>1. /\ pc[t] = "user_remove" /\ pc'[t] = "idle"
        /\ users' = IF users[p].status = "none" THEN users ELSE [users EXCEPT ![p].status = "disabled"]
    BY <1>0, <1>4 DEF DisableUser, At, Finish, Continue
  <2>2. p \in Phones /\ users[p] \in UserRows
    BY <1>0, <2>1 DEF RolePCs
  <2> HIDE DEF p
  <2>3. \A x \in Phones : users'[x].roles = users[x].roles /\ (users'[x].status = "none" => users[x].status = "none")
    BY <1>0, <2>1, <2>2 DEF UserRows
  <2>4. \A x \in Phones : users'[x].status = "none" => users[x].status = "none" /\ users'[x].roles = {}
    BY <1>0, <2>3
  <2> QED
    BY <2>1, <2>3, <2>4, RolesKept DEF GrantPCs
<1>5. CASE RevokeRole(t)
  <2>1. pc[t] = "user_revoke" /\ pc'[t] = "idle" /\ users' = [users EXCEPT ![p].roles = @ \ {job[t].role}]
    BY <1>0, <1>5 DEF RevokeRole, At, Finish, Continue
  <2>2. p \in Phones /\ users[p] \in UserRows /\ "user_revoke" \in env.routes
    BY <1>0, <2>1 DEF RolesInv, RolePCs
  <2> HIDE DEF p
  <2>3. \A x \in Phones : users'[x].roles \subseteq users[x].roles /\ users'[x].status = users[x].status
    BY <1>0, <2>1, <2>2 DEF UserRows
  <2>4. \A x \in Phones : users'[x].status = "none" => users[x].status = "none" /\ users'[x].roles = {}
    BY <1>0, <2>3
  <2>5. \A u \in Tasks : pc'[u] \in GrantPCs => Excused
    <3>1. ASSUME Calm, NEW u \in Tasks PROVE pc'[u] = "idle"
      BY <2>1, <3>1 DEF AloneInv, Others
    <3> QED
      BY <2>2, <3>1 DEF Excused, GrantPCs
  <2> QED
    BY <2>1, <2>3, <2>4, <2>5, RolesKept DEF GrantPCs
<1> QED
  BY <1>1, <1>2, <1>3, <1>4, <1>5 DEF RolesStep

\* Every step keeps the grants covered.
LEMMA RolesInvStep ==
  ASSUME TypeOK, Moves, env' = env, AloneInv, RolesInv
  PROVE  RolesInv'
<1>1. ASSUME users' = users, Stays(RolePCs) PROVE RolesInv'
  BY <1>1 DEF RolesInv, Stays, RolePCs, GrantPCs, Excused, Calm
<1>2. ASSUME NEW t \in Tasks, NEW S \in {RowPCs, SessionPCs, PaydayPCs}, Lane(t, S) PROVE Stays(RolePCs)
  BY <1>2 DEF Stays, Lane, Others, RowPCs, SessionPCs, PaydayPCs, RolePCs
<1>3. ASSUME UNCHANGED <<pc, job>> PROVE Stays(RolePCs)
  BY <1>3 DEF Stays
<1>4. ASSUME NEW t \in Tasks, Enters(t), users' = users PROVE RolesInv'
  <2>1. \A p \in Phones : users'[p].status = "none" => users'[p].roles = {}
    BY <1>4 DEF RolesInv
  <2>2. ASSUME NEW u \in Tasks, u # t
        PROVE  /\ pc'[u] = "user_revoke" => "user_revoke" \in env.routes
               /\ pc'[u] = "grant" => users'[job'[u].phone].status # "none"
               /\ pc'[u] \in GrantPCs /\ ~Excused =>
                    job'[u].by = "http" \/ (job'[u].by \in Phones /\ "superadmin" \in users'[job'[u].by].roles)
    BY <1>4, <2>2 DEF Enters, Others, RolesInv
  <2>3. pc'[t] = "user_revoke" => "user_revoke" \in env.routes
    BY <1>4 DEF Enters, RolePCs
  <2>4. pc'[t] # "grant"
    BY <1>4 DEF Enters, FirstPCs, CheckPCs, OfficePCs
  <2>5. ASSUME pc'[t] \in GrantPCs, ~Excused
        PROVE  job'[t].by = "http" \/ (job'[t].by \in Phones /\ "superadmin" \in users'[job'[t].by].roles)
    <3>1. \/ job'[t].by = "http"
          \/ pc[t] \in CheckPCs /\ Permitted(t) /\ pc'[t] = job[t].op /\ job'[t] = job[t]
      BY <1>4, <2>5 DEF Enters, GrantPCs, RolePCs, Excused
    <3>2. ASSUME pc[t] \in CheckPCs, Permitted(t), pc'[t] = job[t].op, job'[t] = job[t]
          PROVE  job'[t].by \in Phones /\ "superadmin" \in users'[job'[t].by].roles
      <4>1. job[t].by \in Phones
        BY <3>2 DEF TypeOK, JobsOK, JobOK, TextJob
      <4>2. job[t].op \in {"user_add", "user_role"}
        BY <2>4, <2>5, <3>2 DEF GrantPCs
      <4> QED
        BY <1>4, <3>2, <4>1, <4>2, PermittedIsSuperadmin
    <3> QED
      BY <3>1, <3>2
  <2>6. \A u \in Tasks : /\ pc'[u] = "user_revoke" => "user_revoke" \in env.routes
                         /\ pc'[u] = "grant" => users'[job'[u].phone].status # "none"
                         /\ pc'[u] \in GrantPCs /\ ~Excused =>
                              job'[u].by = "http" \/ (job'[u].by \in Phones /\ "superadmin" \in users'[job'[u].by].roles)
    BY <2>2, <2>3, <2>4, <2>5
  <2> QED
    BY <2>1, <2>6 DEF RolesInv, Excused, Calm
<1>5. CASE Restart
  <2>1. users' = Bootstrapped(users) /\ \A t \in Tasks : pc'[t] = "idle"
    BY <1>5 DEF Restart
  <2>2. users \in [Phones -> UserRows]
    BY DEF TypeOK, UsersOK
  <2>3. ASSUME NEW p \in Phones, users'[p].status = "none" PROVE users'[p].roles = {}
    <3>1. users'[p] = IF p \notin Owners THEN users[p]
                      ELSE IF users[p].status = "none" THEN User({"superadmin"})
                      ELSE [users[p] EXCEPT !.roles = @ \cup {"superadmin"}]
      BY <2>1 DEF Bootstrapped
    <3>2. users[p] \in UserRows /\ User({"superadmin"}).status = "active"
      BY <2>2 DEF User
    <3>3. p \notin Owners
      BY <2>3, <3>1, <3>2 DEF UserRows
    <3> QED
      BY <2>3, <3>1, <3>3 DEF RolesInv
  <2> QED
    BY <2>1, <2>3 DEF RolesInv, GrantPCs
<1>6. ASSUME NEW t \in Tasks, RolesStep(t), Lane(t, RolePCs) PROVE RolesInv'
  BY <1>6, RolesStepKeeps DEF Lane
<1> QED
  BY <1>1, <1>2, <1>3, <1>4, <1>5, <1>6 DEF Moves, Arrival

\* What a step does to the roles of a user.
RolesGranted ==
  \A p \in Phones :
    \/ users'[p].roles \subseteq users[p].roles
    \/ restarts' # restarts \/ env.failures
    \/ ~Calm /\ "user_revoke" \in env.routes
    \/ \E t \in Tasks : At(t, "grant") /\ (job[t].by = "http" \/ "superadmin" \in users[job[t].by].roles)

\* Only a grant of the routes or of a superadmin adds a role.
LEMMA RolesGrantedStep ==
  ASSUME TypeOK, Moves, env' = env, AloneInv, RolesInv
  PROVE  RolesGranted
<1>1. CASE users' = users
  BY <1>1 DEF RolesGranted
<1>2. CASE Restart
  <2>1. restarts' # restarts
    BY <1>2 DEF Restart, TypeOK, WorldOK
  <2> QED
    BY <2>1 DEF RolesGranted
<1>3. ASSUME NEW t \in Tasks, RolesStep(t), Others(t) PROVE RolesGranted
  <2>1. \A p \in Phones : users'[p].roles \subseteq users[p].roles \/ At(t, "grant")
    BY <1>3, RolesStepKeeps
  <2>2. At(t, "grant") /\ ~Excused => job[t].by = "http" \/ "superadmin" \in users[job[t].by].roles
    BY DEF RolesInv, At, GrantPCs
  <2> QED
    BY <2>1, <2>2 DEF RolesGranted, Excused
<1> QED
  BY <1>1, <1>2, <1>3 DEF Moves, Lane

-----------------------------------------------------------------------------
(* What an approval sends *)

\* Deliveries, employees, attendance and failures only grow.
Grow ==
  /\ \A d \in 1..MaxRows : delivered'[d] >= delivered[d]
  /\ \A w \in People : staff'[w] >= staff[w] /\ (attendance[w] # 0 => attendance'[w] # 0)
  /\ unsaved \subseteq unsaved'

\* A counter that is raised at one key does not fall at any.
LEMMA BumpedGrows ==
  ASSUME NEW S, NEW f \in [S -> Nat], NEW x, NEW g, g = f \/ g = [f EXCEPT ![x] = @ + 1]
  PROVE  \A d \in S : g[d] >= f[d]
  OBVIOUS

\* No step takes any of them back.
LEMMA Grows ==
  ASSUME TypeOK, Moves, ApproveInv
  PROVE  Grow
<1>0. /\ delivered \in [1..MaxRows -> Nat] /\ staff \in [People -> Nat] /\ attendance \in [People -> Nat]
  BY DEF TypeOK, DeskOK
<1>a. /\ \A d \in 1..MaxRows : delivered[d] >= delivered[d]
      /\ \A w \in People : staff[w] >= staff[w]
  BY <1>0
<1>1. ASSUME UNCHANGED <<staff, attendance, unsaved, delivered>> PROVE Grow
  BY <1>1, <1>a DEF Grow
<1>2. ASSUME NEW t \in Tasks, AutoCreateEmployee(t) PROVE Grow
  <2> DEFINE w == job[t].seen.who
  <2>1. /\ unsaved \subseteq unsaved' /\ UNCHANGED <<attendance, delivered>>
        /\ staff' = staff \/ staff' = [staff EXCEPT ![w] = @ + 1]
    BY <1>2 DEF AutoCreateEmployee
  <2> HIDE DEF w
  <2>2. \A x \in People : staff'[x] >= staff[x]
    BY <1>0, <2>1
  <2> QED
    BY <1>a, <2>1, <2>2 DEF Grow
<1>3. ASSUME NEW t \in Tasks, SaveAttendance(t) PROVE Grow
  <2> DEFINE w == job[t].seen.who
  <2>1. /\ unsaved \subseteq unsaved' /\ UNCHANGED <<staff, delivered>>
        /\ attendance' = attendance \/ attendance' = [attendance EXCEPT ![w] = Item(t)]
    BY <1>3 DEF SaveAttendance
  <2>2. Item(t) \in DOMAIN rows
    BY <1>3 DEF ApproveInv, ApproveTask, SaveAttendance, At, ApprovePCs
  <2>3. Item(t) # 0
    BY <2>2, RowIds DEF TypeOK
  <2> HIDE DEF w
  <2>4. \A x \in People : attendance[x] # 0 => attendance'[x] # 0
    BY <1>0, <2>1, <2>3
  <2> QED
    BY <1>a, <2>1, <2>4 DEF Grow
<1>4. ASSUME NEW t \in Tasks, Send(t) PROVE Grow
  <2> DEFINE d0 == Item(t)
  <2>1. /\ UNCHANGED <<staff, attendance, unsaved>>
        /\ delivered' = delivered \/ delivered' = [delivered EXCEPT ![d0] = @ + 1]
    BY <1>4 DEF Send, Deliver
  <2> HIDE DEF d0
  <2>2. \A d \in 1..MaxRows : delivered'[d] >= delivered[d]
    BY ONLY <1>0, <2>1, BumpedGrows
  <2> QED
    BY <1>a, <2>1, <2>2 DEF Grow
<1>5. ASSUME NEW t \in Tasks, DeskStep(t) PROVE Grow
  <2>1. CASE ApproveRead(t) \/ AttendanceFind(t) \/ RejectRead(t) \/ EditRead(t) \/ RememberRead(t)
    BY <1>1, <2>1 DEF ApproveRead, AttendanceFind, RejectRead, EditRead, RememberRead, deskVars
  <2>2. CASE ApproveMark(t) \/ MarkSent(t) \/ RejectMark(t) \/ EditMark(t) \/ RememberWrite(t)
    BY <1>1, <2>2 DEF ApproveMark, MarkSent, RejectMark, EditMark, RememberWrite
  <2> QED
    BY <1>2, <1>3, <1>4, <1>5, <2>1, <2>2 DEF DeskStep
<1>6. ASSUME NEW t \in Tasks, SessionStep(t) PROVE Grow
  BY <1>1, <1>6 DEF SessionStep, CloseStale, CreateSession, VerifyRead, VerifyWrite, BuildDraft, deskVars
<1>7. ASSUME Arrive PROVE Grow
  BY <1>1, <1>7, ArrivalRow
<1>8. ASSUME UNCHANGED deskVars PROVE Grow
  BY <1>1, <1>8 DEF deskVars
<1> QED
  BY <1>5, <1>6, <1>7, <1>8 DEF Moves, Arrival, Restart

\* What is recorded stays so.
LEMMA RecordedKept ==
  ASSUME TypeOK, TypeOK', Grow, RowsKept(rows, rows'), NEW d \in DOMAIN rows, Recorded(d)
  PROVE  Recorded(d)'
<1> DEFINE w == rows[d].who
<1>1. rows'[d].who = w /\ w \in People
  BY RowIds DEF RowsKept, TypeOK, DraftRows
<1>2. staff[w] \in Nat /\ staff'[w] \in Nat /\ staff'[w] >= staff[w]
  BY <1>1 DEF Grow, TypeOK, DeskOK
<1>3. staff[w] > 0 => staff'[w] > 0
  BY <1>2
<1> QED
  BY <1>1, <1>3 DEF Recorded, Grow

\* A task that the step leaves alone keeps what its approval rests on.
LEMMA TaskKept ==
  ASSUME TypeOK, TypeOK', Grow, RowsKept(rows, rows'), NEW u \in Tasks, ApproveTask(u),
         pc'[u] = pc[u], job'[u] = job[u]
  PROVE  ApproveTask(u)'
<1> DEFINE d == Item(u)
<1>1. Item(u)' = d
  BY DEF Item
<1>2. d \in DOMAIN rows =>
        /\ d \in DOMAIN rows' /\ rows'[d].kind = rows[d].kind /\ rows'[d].who = rows[d].who
        /\ rows'[d].named = rows[d].named /\ rows'[d].known = rows[d].known
        /\ (Recorded(d) => Recorded(Item(u))')
        /\ (staff[rows[d].who] > 0 => staff'[rows[d].who] > 0) /\ (delivered[d] > 0 => delivered'[d] > 0)
  <2> SUFFICES ASSUME d \in DOMAIN rows
               PROVE  /\ d \in DOMAIN rows' /\ rows'[d].kind = rows[d].kind /\ rows'[d].who = rows[d].who
                      /\ rows'[d].named = rows[d].named /\ rows'[d].known = rows[d].known
                      /\ (Recorded(d) => Recorded(Item(u))')
                      /\ (staff[rows[d].who] > 0 => staff'[rows[d].who] > 0) /\ (delivered[d] > 0 => delivered'[d] > 0)
    OBVIOUS
  <2>1. /\ d \in DOMAIN rows' /\ rows'[d].kind = rows[d].kind /\ rows'[d].who = rows[d].who
        /\ rows'[d].named = rows[d].named /\ rows'[d].known = rows[d].known
    BY DEF RowsKept
  <2>2. rows[d].who \in People /\ d \in 1..MaxRows
    BY RowIds DEF TypeOK, DraftRows
  <2>3. staff[rows[d].who] \in Nat /\ staff'[rows[d].who] \in Nat /\ staff'[rows[d].who] >= staff[rows[d].who]
    BY <2>2 DEF TypeOK, DeskOK, Grow
  <2>4. delivered[d] \in Nat /\ delivered'[d] \in Nat /\ delivered'[d] >= delivered[d]
    BY <2>2 DEF TypeOK, DeskOK, Grow
  <2>5. (staff[rows[d].who] > 0 => staff'[rows[d].who] > 0) /\ (delivered[d] > 0 => delivered'[d] > 0)
    BY <2>3, <2>4
  <2>6. Recorded(d) => Recorded(Item(u))'
    <3>1. \A x \in DOMAIN rows : Recorded(x) => (x \in unsaved' \/ (attendance'[rows'[x].who] # 0 /\ staff'[rows'[x].who] > 0))
      BY RecordedKept DEF Recorded
    <3> QED
      BY <1>1, <3>1 DEF Recorded
  <2> QED
    BY <2>1, <2>5, <2>6
<1> QED
  BY <1>1, <1>2 DEF ApproveTask, Attends, ApprovePCs

\* A task between approvals rests on nothing.
LEMMA TaskFree ==
  ASSUME NEW u \in Tasks, pc'[u] \notin ApprovePCs \cup {"reject_mark", "edit_mark"}
  PROVE  ApproveTask(u)'
  BY DEF ApproveTask, ApprovePCs

\* What an approval read goes into its job.
LEMMA SeenJob ==
  ASSUME NEW j, RowJob(j), NEW x
  PROVE  [j EXCEPT !.seen = x].todo = j.todo /\ [j EXCEPT !.seen = x].seen = x
  BY DEF RowJob

\* The step of the approval itself, by its new position.
LEMMA ApproveTaskStep ==
  ASSUME TypeOK, TypeOK', Grow, RowsKept(rows, rows'), SentInv, NEW t \in Tasks, ApproveTask(t), DeskStep(t)
  PROVE  ApproveTask(t)'
<1> DEFINE d == Item(t)
           j == job[t]
           w == rows[d].who
<1>0. /\ DOMAIN pc = Tasks /\ DOMAIN job = Tasks /\ (pc[t] \in RowPCs => RowJob(j))
      /\ delivered \in [1..MaxRows -> Nat] /\ staff \in [People -> Nat] /\ attendance \in [People -> Nat]
      /\ DOMAIN rows \subseteq 1..MaxRows /\ DOMAIN rows \subseteq DOMAIN rows'
      /\ \A x \in DOMAIN rows : rows[x].who \in People
  BY RowIds DEF TypeOK, TasksOK, JobsOK, JobOK, DeskOK, RowsKept, DraftRows
<1>a. d \in DOMAIN rows =>
        /\ rows'[d].kind = rows[d].kind /\ rows'[d].who = w
        /\ rows'[d].named = rows[d].named /\ rows'[d].known = rows[d].known
  BY DEF RowsKept
<1>b. ASSUME pc[t] \in ApprovePCs
      PROVE  /\ d \in DOMAIN rows /\ w \in People
             /\ j.seen.kind = rows[d].kind /\ j.seen.who = w
             /\ j.seen.named = rows[d].named /\ j.seen.known = rows[d].known
  BY <1>0, <1>b DEF ApproveTask
<1>1. ASSUME pc[t] \in ApprovePCs, pc'[t] \in ApprovePCs, job'[t] = j,
             pc'[t] = "att_save" => staff'[w] > 0,
             pc'[t] \in {"send", "mark_sent"} /\ Attends(rows[d]) => d \in unsaved' \/ (attendance'[w] # 0 /\ staff'[w] > 0),
             pc'[t] = "mark_sent" => delivered'[d] > 0
      PROVE  ApproveTask(t)'
  <2>1. Item(t)' = d
    BY <1>1 DEF Item
  <2>2. /\ d \in DOMAIN rows' /\ j.seen.kind = rows'[d].kind /\ j.seen.who = rows'[d].who
        /\ j.seen.named = rows'[d].named /\ j.seen.known = rows'[d].known
    BY <1>0, <1>1, <1>a, <1>b
  <2>3. (Attends(rows'[d]) <=> Attends(rows[d])) /\ rows'[d].who = w
    BY <1>1, <1>a, <1>b DEF Attends
  <2> HIDE DEF d
  <2>4. ApproveTask(t)' <=>
          /\ d \in DOMAIN rows'
          /\ job'[t].seen.kind = rows'[d].kind /\ job'[t].seen.who = rows'[d].who
          /\ job'[t].seen.named = rows'[d].named /\ job'[t].seen.known = rows'[d].known
          /\ pc'[t] = "att_save" => staff'[rows'[d].who] > 0
          /\ pc'[t] \in {"send", "mark_sent"} /\ Attends(rows'[d]) =>
               d \in unsaved' \/ (attendance'[rows'[d].who] # 0 /\ staff'[rows'[d].who] > 0)
          /\ pc'[t] = "mark_sent" => delivered'[d] > 0
    BY <1>1, <2>1 DEF ApproveTask, Recorded, ApprovePCs
  <2> HIDE DEF w
  <2> QED
    BY <1>1, <2>2, <2>3, <2>4
<1>2. CASE ApproveRead(t)
  <2>1. CASE Approvable(d)
    <3> DEFINE k == [j EXCEPT !.seen = rows[d]]
    <3>1. pc[t] = "approve" /\ pc'[t] = "approve_mark" /\ job'[t] = k /\ d \in DOMAIN rows
      BY <1>0, <1>2, <2>1 DEF ApproveRead, At, Continue, Approvable, Exists
    <3>2. RowJob(j)
      BY <1>0, <3>1 DEF RowPCs
    <3>3. k.todo = j.todo /\ k.seen = rows[d]
      <4> HIDE DEF j, d
      <4> QED
        BY <3>2, SeenJob
    <3>4. Item(t)' = d
      BY <3>1, <3>3 DEF Item
    <3>5. /\ d \in DOMAIN rows' /\ job'[t].seen.kind = rows'[d].kind /\ job'[t].seen.who = rows'[d].who
          /\ job'[t].seen.named = rows'[d].named /\ job'[t].seen.known = rows'[d].known
      BY <1>0, <1>a, <3>1, <3>3
    <3> HIDE DEF d
    <3> QED
      BY <3>1, <3>4, <3>5 DEF ApproveTask
  <2>2. CASE ~Approvable(d)
    <3>1. pc'[t] \in {"approve", "idle"}
      BY <1>0, <1>2, <2>2 DEF ApproveRead, Continue, Finish, FinishItem
    <3> QED
      BY <3>1, TaskFree DEF ApprovePCs
  <2> QED
    BY <2>1, <2>2
<1>3. CASE ApproveMark(t)
  <2>1. /\ pc[t] = "approve_mark" /\ job'[t] = j
        /\ pc'[t] = IF j.seen.kind \in {"attendance", "report"} THEN "att_find" ELSE "send"
    BY <1>0, <1>3 DEF ApproveMark, At, Goto
  <2>2. pc'[t] = "send" => ~Attends(rows[d])
    BY <1>b, <2>1 DEF ApprovePCs, Attends
  <2> QED
    BY <1>1, <2>1, <2>2 DEF ApprovePCs
<1>4. CASE AttendanceFind(t)
  <2>1. /\ pc[t] = "att_find" /\ job'[t] = j /\ UNCHANGED deskVars
        /\ pc'[t] = IF j.seen.known \/ (j.seen.named /\ staff[j.seen.who] > 0) THEN "att_save"
                    ELSE IF j.seen.named THEN "att_create" ELSE "send"
    BY <1>0, <1>4 DEF AttendanceFind, At, Goto
  <2>2. d \in DOMAIN rows /\ j.seen.who = w /\ j.seen.named = rows[d].named /\ j.seen.known = rows[d].known
    BY <1>b, <2>1 DEF ApprovePCs
  <2>3. pc'[t] = "att_save" => staff'[w] > 0
    BY <2>1, <2>2 DEF SentInv, deskVars
  <2>4. pc'[t] = "send" => ~Attends(rows[d])
    BY <2>1, <2>2 DEF Attends
  <2>5. pc'[t] \in {"att_save", "att_create", "send"}
    BY <2>1
  <2> QED
    BY <1>1, <2>1, <2>3, <2>4, <2>5 DEF ApprovePCs
<1>5. CASE AutoCreateEmployee(t)
  <2>0. pc[t] = "att_create"
    BY <1>5 DEF AutoCreateEmployee, At
  <2>1. d \in DOMAIN rows /\ w \in People /\ j.seen.who = w
    BY <1>b, <2>0 DEF ApprovePCs
  <2>2. PICK fails \in Failure :
          /\ staff' = IF fails THEN staff ELSE [staff EXCEPT ![j.seen.who] = @ + 1]
          /\ unsaved' = IF fails THEN unsaved \cup {d} ELSE unsaved
          /\ Goto(t, IF fails THEN "send" ELSE "att_save")
    BY <1>5 DEF AutoCreateEmployee
  <2>3. job'[t] = j /\ pc'[t] = IF fails THEN "send" ELSE "att_save"
    BY <1>0, <2>2 DEF Goto
  <2>4. ~fails => staff'[w] = staff[w] + 1
    <3> HIDE DEF w
    <3> QED
      BY <1>0, <2>1, <2>2
  <2>5. ~fails => staff'[w] > 0
    BY <1>0, <2>1, <2>4
  <2> QED
    BY <1>1, <2>0, <2>2, <2>3, <2>5 DEF ApprovePCs
<1>6. CASE SaveAttendance(t)
  <2>0. pc[t] = "att_save" /\ job'[t] = j /\ pc'[t] = "send" /\ staff' = staff
    BY <1>0, <1>6 DEF SaveAttendance, At, Goto
  <2>1. d \in DOMAIN rows /\ w \in People /\ j.seen.who = w /\ staff[w] > 0
    BY <1>b, <2>0 DEF ApprovePCs, ApproveTask
  <2>2. d # 0
    BY <1>0, <2>1
  <2>3. PICK fails \in Failure :
          /\ attendance' = IF fails THEN attendance ELSE [attendance EXCEPT ![j.seen.who] = d]
          /\ unsaved' = IF fails THEN unsaved \cup {d} ELSE unsaved
    BY <1>6 DEF SaveAttendance
  <2>4. ~fails => attendance'[w] # 0
    <3> HIDE DEF w, d
    <3> QED
      BY <1>0, <2>1, <2>2, <2>3
  <2> QED
    BY <1>1, <2>0, <2>1, <2>3, <2>4 DEF ApprovePCs
<1>7. CASE Send(t)
  <2>1. pc[t] = "send" /\ UNCHANGED <<staff, attendance, unsaved>>
    BY <1>7 DEF Send, At
  <2>2. d \in DOMAIN rows /\ (Attends(rows[d]) => Recorded(d))
    BY <2>1 DEF ApprovePCs, ApproveTask
  <2>3. CASE pc'[t] = "mark_sent"
    <3>1. job'[t] = j /\ delivered' = [delivered EXCEPT ![d] = @ + 1]
      BY <1>0, <1>7, <2>3 DEF Send, Deliver, Goto, FinishItem, Continue, Finish
    <3>2. delivered'[d] > 0
      <4> HIDE DEF d
      <4> QED
        BY <1>0, <2>2, <3>1
    <3> QED
      BY <1>1, <2>1, <2>2, <2>3, <3>1, <3>2 DEF ApprovePCs, Recorded
  <2>4. CASE pc'[t] # "mark_sent"
    <3>1. pc'[t] \in {"approve", "idle"}
      BY <1>0, <1>7, <2>4 DEF Send, Goto, FinishItem, Continue, Finish
    <3> QED
      BY <3>1, TaskFree DEF ApprovePCs
  <2> QED
    BY <2>3, <2>4
<1>8. CASE MarkSent(t) \/ RejectMark(t)
  <2>1. pc'[t] \in {"approve", "reject", "idle"}
    BY <1>0, <1>8 DEF MarkSent, RejectMark, FinishItem, Continue, Finish
  <2> QED
    BY <2>1, TaskFree DEF ApprovePCs
<1>9. CASE RejectRead(t)
  <2>1. CASE pc'[t] = "reject_mark"
    <3>1. d \in DOMAIN rows /\ job'[t] = j
      BY <1>0, <1>9, <2>1 DEF RejectRead, Exists, Goto, FinishItem, Continue, Finish
    <3>2. Item(t)' = d
      BY <3>1 DEF Item
    <3> QED
      BY <1>0, <2>1, <3>1, <3>2 DEF ApproveTask, ApprovePCs
  <2>2. CASE pc'[t] # "reject_mark"
    <3>1. pc'[t] \in {"reject", "idle"}
      BY <1>0, <1>9, <2>2 DEF RejectRead, Goto, FinishItem, Continue, Finish
    <3> QED
      BY <3>1, TaskFree DEF ApprovePCs
  <2> QED
    BY <2>1, <2>2
<1>10. CASE EditRead(t)
  <2>1. CASE Exists(d)
    <3> DEFINE k == [j EXCEPT !.seen = rows[d]]
    <3>1. pc[t] = "edit" /\ pc'[t] = "edit_mark" /\ job'[t] = k
      BY <1>0, <1>10, <2>1 DEF EditRead, At, Continue
    <3>2. RowJob(j)
      BY <1>0, <3>1 DEF RowPCs
    <3>3. k.todo = j.todo
      <4> HIDE DEF j, d
      <4> QED
        BY <3>2, SeenJob
    <3>4. Item(t)' = d
      BY <3>1, <3>3 DEF Item
    <3> QED
      BY <1>0, <2>1, <3>1, <3>4 DEF ApproveTask, ApprovePCs, Exists
  <2>2. CASE ~Exists(d)
    <3>1. pc'[t] = "idle"
      BY <1>0, <1>10, <2>2 DEF EditRead, Continue, Finish
    <3> QED
      BY <3>1, TaskFree DEF ApprovePCs
  <2> QED
    BY <2>1, <2>2
<1>11. CASE EditMark(t) \/ RememberRead(t) \/ RememberWrite(t)
  <2>1. pc'[t] \in {"remember", "remember_write", "idle"}
    BY <1>0, <1>11 DEF EditMark, RememberRead, RememberWrite, Goto, Continue, Finish
  <2> QED
    BY <2>1, TaskFree DEF ApprovePCs
<1> QED
  BY <1>2, <1>3, <1>4, <1>5, <1>6, <1>7, <1>8, <1>9, <1>10, <1>11 DEF DeskStep

\* Every step keeps what the approvals rest on.
LEMMA ApproveInvStep ==
  ASSUME TypeOK, TypeOK', Moves, RowsKept(rows, rows'), SentInv, ApproveInv
  PROVE  ApproveInv'
<1>0. Grow
  BY Grows
<1>1. ASSUME NEW u \in Tasks, pc'[u] = pc[u], job'[u] = job[u] PROVE ApproveTask(u)'
  BY <1>0, <1>1, TaskKept DEF ApproveInv
<1>2. ASSUME NEW t \in Tasks, Others(t), ApproveTask(t)' PROVE ApproveInv'
  BY <1>1, <1>2 DEF ApproveInv, Others
<1>3. ASSUME NEW t \in Tasks, NEW S \in {SessionPCs, PaydayPCs, RolePCs}, Lane(t, S) PROVE ApproveInv'
  <2>1. pc'[t] \notin ApprovePCs \cup {"reject_mark", "edit_mark"}
    BY <1>3 DEF Lane, SessionPCs, PaydayPCs, RolePCs, ApprovePCs
  <2> QED
    BY <1>2, <1>3, <2>1, TaskFree DEF Lane
<1>4. ASSUME NEW t \in Tasks, Enters(t) PROVE ApproveInv'
  <2>1. pc'[t] \notin ApprovePCs \cup {"reject_mark", "edit_mark"}
    BY <1>4 DEF Enters, CheckPCs, OfficePCs, FirstPCs, ApprovePCs
  <2> QED
    BY <1>2, <1>4, <2>1, TaskFree DEF Enters
<1>5. ASSUME NEW t \in Tasks, DeskStep(t), Lane(t, RowPCs) PROVE ApproveInv'
  <2>1. ApproveTask(t)'
    BY <1>0, <1>5, ApproveTaskStep DEF ApproveInv
  <2> QED
    BY <1>2, <1>5, <2>1 DEF Lane
<1>6. ASSUME UNCHANGED <<pc, job>> PROVE ApproveInv'
  BY <1>1, <1>6 DEF ApproveInv
<1>7. CASE Restart
  BY <1>7, TaskFree DEF Restart, ApproveInv, ApprovePCs
<1> QED
  BY <1>3, <1>4, <1>5, <1>6, <1>7 DEF Moves, Arrival

\* What a step has to keep for the rows that were sent.
LEMMA SentKept ==
  ASSUME TypeOK, TypeOK', Grow, RowsKept(rows, rows'), SentInv,
         \A d \in 1..MaxRows : d \notin DOMAIN rows' => delivered'[d] = delivered[d],
         \A d \in DOMAIN rows : rows'[d].status = "sent" =>
            rows[d].status = "sent" \/ (delivered[d] > 0 /\ (Attends(rows[d]) => Recorded(d))),
         \A d \in DOMAIN rows' \ DOMAIN rows : /\ rows'[d].status # "sent"
                                               /\ rows'[d].known => staff[rows'[d].who] > 0
  PROVE  SentInv'
<1>0. \A x \in DOMAIN rows : /\ x \in DOMAIN rows' /\ rows'[x].kind = rows[x].kind /\ rows'[x].who = rows[x].who
                             /\ rows'[x].named = rows[x].named /\ rows'[x].known = rows[x].known
  BY DEF RowsKept
<1>1. ASSUME NEW d \in 1..MaxRows, d \notin DOMAIN rows' PROVE delivered'[d] = 0
  BY <1>0, <1>1 DEF SentInv
<1>2. ASSUME NEW w \in People, staff[w] > 0 PROVE staff'[w] > 0
  <2>1. staff[w] \in Nat /\ staff'[w] \in Nat /\ staff'[w] >= staff[w]
    BY DEF TypeOK, DeskOK, Grow
  <2> QED
    BY <1>2, <2>1
<1>3. ASSUME NEW d \in DOMAIN rows'
      PROVE  /\ rows'[d].status = "sent" => delivered'[d] > 0
             /\ rows'[d].known => staff'[rows'[d].who] > 0
             /\ Attends(rows'[d]) /\ rows'[d].status = "sent" => Recorded(d)'
  <2>0. rows'[d] \in DraftRows /\ rows'[d].who \in People
    <3>1. rows' \in Seq(DraftRows)
      BY DEF TypeOK, DeskOK
    <3>2. rows'[d] \in DraftRows
      BY <3>1, LenProperties, ElementOfSeq
    <3> QED
      BY <3>2 DEF DraftRows
  <2>1. CASE d \notin DOMAIN rows
    BY <1>2, <1>3, <2>0, <2>1
  <2>2. CASE d \in DOMAIN rows
    <3>1. rows'[d].status = "sent" => delivered[d] > 0 /\ (Attends(rows[d]) => Recorded(d))
      BY <2>2 DEF SentInv
    <3>2. delivered[d] > 0 => delivered'[d] > 0
      <4>1. d \in 1..MaxRows
        BY <2>2, RowIds DEF TypeOK
      <4>2. delivered[d] \in Nat /\ delivered'[d] \in Nat /\ delivered'[d] >= delivered[d]
        BY <4>1 DEF TypeOK, DeskOK, Grow
      <4> QED
        BY <4>2
    <3>3. rows'[d].known => staff'[rows'[d].who] > 0
      BY <1>0, <1>2, <2>0, <2>2 DEF SentInv
    <3>4. Recorded(d) => Recorded(d)'
      BY <2>2, RecordedKept
    <3>5. Attends(rows'[d]) <=> Attends(rows[d])
      BY <1>0, <2>2 DEF Attends
    <3> QED
      BY <3>1, <3>2, <3>3, <3>4, <3>5
  <2> QED
    BY <2>1, <2>2
<1> QED
  BY <1>1, <1>3 DEF SentInv

\* Every step keeps what is known of the rows that were sent.
LEMMA SentInvStep ==
  ASSUME TypeOK, TypeOK', Moves, RowsKept(rows, rows'), SentInv, ApproveInv
  PROVE  SentInv'
<1>0. Grow
  BY Grows
<1>a. DeskOK /\ delivered \in [1..MaxRows -> Nat]
  BY DEF TypeOK, DeskOK
<1>1. ASSUME DOMAIN rows' = DOMAIN rows, delivered' = delivered,
             \A d \in DOMAIN rows : rows'[d].status = rows[d].status \/ rows'[d].status # "sent"
      PROVE  SentInv'
  BY <1>0, <1>1, SentKept
<1>2. ASSUME NEW r \in DraftRows, rows' = Append(rows, r), Len(rows) < MaxRows, delivered' = delivered,
             r.status # "sent", r.known => staff[r.who] > 0
      PROVE  SentInv'
  <2>1. /\ DOMAIN rows' = DOMAIN rows \cup {Len(rows) + 1} /\ Len(rows) + 1 \notin DOMAIN rows
        /\ rows'[Len(rows) + 1] = r /\ \A x \in DOMAIN rows : rows'[x] = rows[x]
    BY <1>2, <1>a, OneMoreRow
  <2>2. \A d \in DOMAIN rows : rows'[d].status = "sent" => rows[d].status = "sent"
    BY <2>1
  <2>3. \A d \in DOMAIN rows' \ DOMAIN rows : rows'[d].status # "sent" /\ (rows'[d].known => staff[rows'[d].who] > 0)
    BY <1>2, <2>1
  <2> QED
    BY <1>0, <1>2, <2>2, <2>3, SentKept
<1>3. ASSUME NEW t \in Tasks, DeskStep(t) PROVE SentInv'
  <2> DEFINE d == Item(t)
  <2>0. DOMAIN rows' = DOMAIN rows
    BY <1>3, DeskRows
  <2>1. CASE MarkSent(t)
    <3>1. d \in DOMAIN rows /\ delivered[d] > 0 /\ (Attends(rows[d]) => Recorded(d)) /\ delivered' = delivered
      BY <2>1 DEF MarkSent, At, ApproveInv, ApproveTask, ApprovePCs
    <3>2. \A x \in DOMAIN rows : rows'[x].status = rows[x].status \/ x = d
      BY <1>3, DeskRows
    <3> QED
      BY <1>0, <2>0, <3>1, <3>2, SentKept
  <2>2. CASE Send(t)
    <3>1. d \in DOMAIN rows /\ rows' = rows /\ (delivered' = delivered \/ delivered' = [delivered EXCEPT ![d] = @ + 1])
      BY <2>2 DEF Send, Deliver, At, ApproveInv, ApproveTask, ApprovePCs
    <3> HIDE DEF d
    <3>2. \A x \in 1..MaxRows : x \notin DOMAIN rows' => delivered'[x] = delivered[x]
      BY <1>a, <3>1
    <3> QED
      BY <1>0, <3>1, <3>2, SentKept
  <2>3. CASE ApproveRead(t) \/ AttendanceFind(t) \/ RejectRead(t) \/ EditRead(t) \/ RememberRead(t)
    BY <1>1, <2>3 DEF ApproveRead, AttendanceFind, RejectRead, EditRead, RememberRead, deskVars
  <2>4. CASE AutoCreateEmployee(t) \/ SaveAttendance(t) \/ RememberWrite(t)
    BY <1>1, <2>4 DEF AutoCreateEmployee, SaveAttendance, RememberWrite
  <2>5. ASSUME NEW s \in {"approved", "rejected"}, SetStatus(d, s), delivered' = delivered PROVE SentInv'
    <3> DEFINE g == [rows EXCEPT ![d].status = s]
    <3>1. s \in Statuses /\ rows \in Seq(DraftRows)
      BY <1>a DEF Statuses, DeskOK
    <3>2. DOMAIN g = DOMAIN rows /\ \A x \in DOMAIN rows : g[x].status = IF x = d THEN s ELSE rows[x].status
      <4> HIDE DEF d
      <4> QED
        BY <3>1, RowStatus
    <3>3. rows' = g
      BY <2>5 DEF SetStatus
    <3> HIDE DEF g
    <3>4. \A x \in DOMAIN rows : rows'[x].status = rows[x].status \/ rows'[x].status # "sent"
      BY <3>2, <3>3
    <3> QED
      BY <1>1, <2>0, <2>5, <3>4
  <2>6. CASE ApproveMark(t) \/ RejectMark(t)
    BY <2>5, <2>6 DEF ApproveMark, RejectMark
  <2>7. CASE EditMark(t)
    <3> DEFINE n == job[t].text
               g == [rows EXCEPT ![d] = [rows[d] EXCEPT !.status = "edited", !.text = n]]
    <3>1. n \in Nat /\ rows \in Seq(DraftRows)
      BY <1>a, <2>7 DEF TypeOK, JobsOK, JobOK, RowJob, EditMark, At, RowPCs, DeskOK
    <3>2. rows' = g /\ delivered' = delivered
      BY <2>7 DEF EditMark
    <3> HIDE DEF n, d
    <3>3. \A x \in DOMAIN rows : g[x].status = IF x = d THEN "edited" ELSE rows[x].status
      BY <3>1, RowEdited
    <3> HIDE DEF g
    <3>4. \A x \in DOMAIN rows : rows'[x].status = rows[x].status \/ rows'[x].status # "sent"
      BY <3>2, <3>3
    <3> QED
      BY <1>1, <2>0, <3>2, <3>4
  <2> QED
    BY <1>3, <2>1, <2>2, <2>3, <2>4, <2>6, <2>7 DEF DeskStep
<1>4. ASSUME NEW t \in Tasks, SessionStep(t) PROVE SentInv'
  <2>1. CASE CloseStale(t)
    <3>1. delivered' = delivered
      BY <2>1 DEF CloseStale
    <3> QED
      BY <1>1, <2>1, <3>1, ClosedRows
  <2>2. CASE CreateSession(t)
    <3>1. delivered' = delivered
      BY <2>2 DEF CreateSession
    <3>2. FirstStep(job[t].op) # "sent"
      BY DEF FirstStep
    <3> QED
      BY <1>2, <2>2, <3>1, <3>2, CreatedRows
  <2>3. CASE VerifyRead(t) \/ BuildDraft(t)
    BY <1>1, <2>3 DEF VerifyRead, BuildDraft, deskVars
  <2>4. CASE VerifyWrite(t)
    <3>1. delivered' = delivered
      BY <2>4 DEF VerifyWrite
    <3>2. job[t].to # "sent"
      BY <2>4, VerifiedRows DEF Steps
    <3> QED
      BY <1>1, <2>4, <3>1, <3>2, VerifiedRows
  <2> QED
    BY <1>4, <2>1, <2>2, <2>3, <2>4 DEF SessionStep
<1>5. ASSUME Arrive PROVE SentInv'
  <2>1. delivered' = delivered /\ Len(rows) < MaxRows
    BY <1>5, ArrivalRow
  <2>2. PICK r : ArrivedRow(r) /\ rows' = Append(rows, r)
    BY <1>5, ArrivalRow
  <2> QED
    BY <1>2, <2>1, <2>2 DEF ArrivedRow
<1>6. ASSUME UNCHANGED deskVars PROVE SentInv'
  BY <1>1, <1>6 DEF deskVars
<1> QED
  BY <1>3, <1>4, <1>5, <1>6 DEF Moves, Arrival, Restart

-----------------------------------------------------------------------------
(* Delivered once per edit *)

\* A task that is not under way with a row, or a session.
LEMMA FreshFree ==
  ASSUME NEW u \in Tasks, pc'[u] \notin ApprovePCs \cup {"reject_mark", "verify_write", "close_stale"}
  PROVE  FreshTask(u)'
  BY DEF FreshTask, ApprovePCs

\* A row that the step of the only task leaves alone.
LEMMA FreshRowKept ==
  ASSUME NEW t \in Tasks, NEW d \in DOMAIN rows, FreshRow(d), Others(t),
         \A u \in Tasks : u # t => pc[u] = "idle",
         pc[t] = "mark_sent" => Item(t) # d,
         rows'[d].status = rows[d].status, delivered'[d] = delivered[d], edits'[d] = edits[d], Told(d)' => Told(d)
  PROVE  FreshRow(d)'
<1>1. Fresh(d)' <=> Fresh(d)
  BY DEF Fresh
<1>2. ~\E u \in Tasks : pc[u] = "mark_sent" /\ Item(u) = d
  OBVIOUS
<1>3. Told(d) /\ rows[d].status = "approved" => Fresh(d)
  BY <1>2 DEF FreshRow
<1> QED
  BY <1>1, <1>3 DEF FreshRow

\* A row that is new was not delivered.
LEMMA FreshNew ==
  ASSUME TypeOK', SentInv, NEW d \in 1..MaxRows, d \notin DOMAIN rows, delivered' = delivered
  PROVE  FreshRow(d)'
<1>1. delivered'[d] = 0 /\ edits'[d] \in Nat
  BY DEF SentInv, TypeOK, DeskOK
<1>2. delivered'[d] <= edits'[d] + 1 /\ delivered'[d] <= edits'[d]
  BY <1>1
<1> QED
  BY <1>2 DEF FreshRow, Fresh

\* APPROVE, REJECT and EDIT by the only task under way.
LEMMA FreshDesk ==
  ASSUME TypeOK, TypeOK', SentInv, ApproveInv, NEW t \in Tasks, Others(t), DeskStep(t),
         \A u \in Tasks : u # t => pc[u] = "idle", restarts' = restarts,
         \A u \in Tasks : FreshTask(u), \A x \in DOMAIN rows : FreshRow(x)
  PROVE  FreshTask(t)' /\ \A x \in DOMAIN rows' : FreshRow(x)'
<1> DEFINE d == Item(t)
<1>0. /\ DOMAIN pc = Tasks /\ DOMAIN job = Tasks /\ (pc[t] \in RowPCs => RowJob(job[t]))
      /\ delivered \in [1..MaxRows -> Nat] /\ edits \in [1..MaxRows -> Nat]
      /\ DOMAIN rows \subseteq 1..MaxRows /\ DOMAIN rows' = DOMAIN rows /\ rows \in Seq(DraftRows)
  BY RowIds, DeskRows DEF TypeOK, TasksOK, JobsOK, JobOK, DeskOK
<1>1. ASSUME NEW i, DOMAIN rows' = DOMAIN rows, pc[t] = "mark_sent" => Item(t) = i,
             \A x \in DOMAIN rows \ {i} : rows'[x].status = rows[x].status /\ delivered'[x] = delivered[x] /\ edits'[x] = edits[x] /\ (Told(x)' => Told(x)),
             i \in DOMAIN rows => FreshRow(i)'
      PROVE  \A x \in DOMAIN rows' : FreshRow(x)'
  <2> SUFFICES ASSUME NEW x \in DOMAIN rows PROVE FreshRow(x)'
    BY <1>1
  <2>1. CASE x = i
    BY <1>1, <2>1
  <2>2. CASE x # i
    BY <1>1, <2>2, FreshRowKept
  <2> QED
    BY <2>1, <2>2
<1>2. ASSUME UNCHANGED <<rows, delivered, unheard, edits>>, pc[t] # "mark_sent"
      PROVE  \A x \in DOMAIN rows' : FreshRow(x)'
  BY <1>2, FreshRowKept DEF Told
<1>a. pc[t] \in ApprovePCs \cup {"reject_mark", "edit_mark"} => d \in DOMAIN rows
  BY DEF ApproveInv, ApproveTask
<1>b. job'[t].todo = job[t].todo => Item(t)' = d
  BY DEF Item
<1>c. \A x \in DOMAIN rows : delivered[x] \in Nat /\ edits[x] \in Nat
  BY <1>0
<1>d. ASSUME NEW s \in {"approved", "sent", "rejected"}, SetStatus(d, s), UNCHANGED <<delivered, unheard, edits>>, d \in DOMAIN rows,
             s # "sent" => (Told(d) \/ s = "approved" => Fresh(d))
      PROVE  rows'[d].status = s /\ \A x \in DOMAIN rows' : FreshRow(x)'
  <2>1. \A x \in DOMAIN rows : rows'[x].status = IF x = d THEN s ELSE rows[x].status
    <3> DEFINE g == [rows EXCEPT ![d].status = s]
    <3>1. s \in Statuses
      BY <1>d DEF Statuses
    <3>2. rows' = g
      BY <1>d DEF SetStatus
    <3>3. \A x \in DOMAIN rows : g[x].status = IF x = d THEN s ELSE rows[x].status
      <4> HIDE DEF d
      <4> QED
        BY <1>0, <3>1, RowStatus
    <3> HIDE DEF g
    <3> QED
      BY <3>2, <3>3
  <2>2. ASSUME NEW x \in DOMAIN rows, x = d PROVE FreshRow(x)'
    <3>1. rows'[x].status = s /\ delivered'[x] = delivered[x] /\ edits'[x] = edits[x]
      BY <1>d, <2>1, <2>2
    <3>2. delivered[x] <= edits[x] + 1
      BY DEF FreshRow
    <3>3. s # "sent" => (Told(x)' \/ s = "approved" => delivered[x] <= edits[x])
      BY <1>d, <2>2 DEF Fresh, Told
    <3> QED
      BY <3>1, <3>2, <3>3 DEF FreshRow, Fresh
  <2> HIDE DEF d
  <2>3. ASSUME NEW i, i = d PROVE \A x \in DOMAIN rows' : FreshRow(x)'
    <3>1. \A x \in DOMAIN rows \ {i} : rows'[x].status = rows[x].status /\ delivered'[x] = delivered[x] /\ edits'[x] = edits[x] /\ (Told(x)' => Told(x))
      BY <1>d, <2>1, <2>3 DEF Told
    <3>2. i \in DOMAIN rows => FreshRow(i)'
      BY <2>2, <2>3
    <3>3. pc[t] = "mark_sent" => Item(t) = i
      BY <2>3 DEF d
    <3> QED
      BY <1>0, <1>1, <3>1, <3>2, <3>3
  <2> QED
    BY <1>d, <2>1, <2>3
<1>3. CASE ApproveRead(t)
  <2>1. UNCHANGED deskVars /\ pc[t] = "approve" /\ pc'[t] \in {"approve_mark", "approve", "idle"}
    BY <1>0, <1>3 DEF ApproveRead, At, Continue, Finish, FinishItem
  <2>2. CASE pc'[t] = "approve_mark"
    <3>1. Approvable(d) /\ job'[t] = [job[t] EXCEPT !.seen = rows[d]]
      BY <1>0, <1>3, <2>2 DEF ApproveRead, At, Continue, Finish, FinishItem
    <3>2. job'[t].todo = job[t].todo
      BY <1>0, <2>1, <3>1, SeenJob DEF RowPCs
    <3>3. Fresh(d)
      BY <3>1 DEF Approvable, Exists, FreshRow
    <3>4. Item(t)' = d
      BY <1>b, <3>2
    <3>5. Fresh(Item(t))'
      BY <2>1, <3>3, <3>4 DEF Fresh, deskVars
    <3>6. FreshTask(t)'
      BY <2>2, <3>5 DEF FreshTask
    <3> QED
      BY <1>2, <2>1, <3>6 DEF deskVars
  <2>3. CASE pc'[t] # "approve_mark"
    BY <1>2, <2>1, <2>3, FreshFree DEF deskVars, ApprovePCs
  <2> QED
    BY <2>2, <2>3
<1>4. CASE ApproveMark(t)
  <2>1. /\ pc[t] = "approve_mark" /\ job'[t] = job[t] /\ pc'[t] \in {"att_find", "send"}
        /\ SetStatus(d, "approved") /\ UNCHANGED <<delivered, unheard, edits>>
    BY <1>0, <1>4 DEF ApproveMark, At, Goto
  <2>2. d \in DOMAIN rows /\ Fresh(d)
    BY <1>a, <2>1 DEF FreshTask, ApprovePCs
  <2>3. rows'[d].status = "approved" /\ \A x \in DOMAIN rows' : FreshRow(x)'
    BY <1>d, <2>1, <2>2
  <2>4. Item(t)' = d
    BY <1>b, <2>1
  <2>5. Fresh(Item(t))' /\ (rows[Item(t)].status = "approved")'
    BY <2>1, <2>2, <2>3, <2>4 DEF Fresh
  <2>6. FreshTask(t)'
    BY <2>1, <2>5 DEF FreshTask
  <2> QED
    BY <2>3, <2>6
<1>5. CASE AttendanceFind(t) \/ AutoCreateEmployee(t) \/ SaveAttendance(t)
  <2>1. /\ pc[t] \in {"att_find", "att_create", "att_save"} /\ pc'[t] \in {"att_create", "att_save", "send"}
        /\ job'[t] = job[t] /\ UNCHANGED <<rows, delivered, unheard, edits>>
    BY <1>0, <1>5 DEF AttendanceFind, AutoCreateEmployee, SaveAttendance, At, Goto, deskVars
  <2>2. Fresh(d) /\ rows[d].status = "approved"
    BY <2>1 DEF FreshTask, ApprovePCs
  <2>3. Item(t)' = d
    BY <1>b, <2>1
  <2>4. Fresh(Item(t))' /\ (rows[Item(t)].status = "approved")'
    BY <2>1, <2>2, <2>3 DEF Fresh
  <2>5. FreshTask(t)'
    BY <2>1, <2>4 DEF FreshTask
  <2> QED
    BY <1>2, <2>1, <2>5
<1>6. CASE Send(t)
  <2>0. pc[t] = "send" /\ UNCHANGED <<rows, edits>> /\ pc'[t] \in {"mark_sent", "approve", "idle"}
    BY <1>0, <1>6 DEF Send, At, Goto, Continue, Finish, FinishItem
  <2>1. d \in DOMAIN rows /\ Fresh(d) /\ rows[d].status = "approved"
    BY <1>a, <2>0 DEF FreshTask, ApprovePCs
  <2>2. \/ Deliver(d) /\ UNCHANGED unheard /\ pc'[t] = "mark_sent" /\ job'[t] = job[t]
        \/ Deliver(d) /\ unheard' = unheard \cup {d} /\ pc'[t] # "mark_sent"
        \/ UNCHANGED <<delivered, unheard>> /\ pc'[t] # "mark_sent"
    BY <1>0, <1>6 DEF Send, Goto, Continue, Finish, FinishItem
  <2>3. \A x : Told(x)' => Told(x)
    BY <2>2 DEF Told
  <2>4. CASE Deliver(d)
    <3>1. \A x \in DOMAIN rows : delivered'[x] = IF x = d THEN delivered[x] + 1 ELSE delivered[x]
      <4>1. delivered' = [delivered EXCEPT ![d] = @ + 1]
        BY <2>4 DEF Deliver
      <4> HIDE DEF d
      <4> QED
        BY <1>0, <4>1
    <3>2. pc'[t] = "mark_sent" => Item(t)' = d
      BY <1>b, <2>2
    <3>3. FreshTask(t)'
      BY <2>0, <2>1, <3>2 DEF FreshTask, ApprovePCs
    <3>4. d \in unheard' \/ (pc'[t] = "mark_sent" /\ Item(t)' = d) \/ delivered' = delivered
      BY <2>2, <3>2
    <3>5. ASSUME NEW x \in DOMAIN rows, x = d PROVE FreshRow(x)'
      <4>1. delivered'[x] <= edits'[x] + 1
        BY <1>c, <2>0, <2>1, <3>1, <3>5 DEF Fresh
      <4>2. rows'[x].status = "approved"
        BY <2>0, <2>1, <3>5
      <4>3. ~Told(x)' \/ (pc'[t] = "mark_sent" /\ Item(t)' = x) \/ delivered'[x] <= edits'[x]
        BY <2>0, <2>1, <3>4, <3>5 DEF Fresh, Told
      <4> HIDE DEF d
      <4> QED
        BY <4>1, <4>2, <4>3 DEF FreshRow, Fresh
    <3> HIDE DEF d
    <3>6. ASSUME NEW i, i = d PROVE \A x \in DOMAIN rows' : FreshRow(x)'
      <4>1. \A x \in DOMAIN rows \ {i} : rows'[x].status = rows[x].status /\ delivered'[x] = delivered[x] /\ edits'[x] = edits[x] /\ (Told(x)' => Told(x))
        BY <2>0, <2>3, <3>1, <3>6
      <4>2. i \in DOMAIN rows => FreshRow(i)'
        BY <3>5, <3>6
      <4> QED
        BY <1>0, <1>1, <2>0, <4>1, <4>2
    <3> QED
      BY <3>3, <3>6
  <2>5. CASE UNCHANGED <<delivered, unheard>> /\ pc'[t] # "mark_sent"
    BY <1>2, <2>0, <2>5, FreshFree DEF ApprovePCs
  <2> QED
    BY <2>2, <2>4, <2>5
<1>7. CASE MarkSent(t)
  <2>1. pc[t] = "mark_sent" /\ UNCHANGED <<delivered, edits>> /\ pc'[t] \in {"approve", "idle"}
    BY <1>0, <1>7 DEF MarkSent, At, Continue, Finish, FinishItem
  <2>2. CASE SetStatus(d, "sent") /\ UNCHANGED unheard
    <3>1. \A x \in DOMAIN rows' : FreshRow(x)'
      BY <1>a, <1>d, <2>1, <2>2 DEF ApprovePCs
    <3> QED
      BY <2>1, <3>1, FreshFree DEF ApprovePCs
  <2>3. CASE unheard' = unheard \cup {d} /\ UNCHANGED rows
    <3>1. d \in DOMAIN rows /\ rows[d].status = "approved" /\ delivered[d] <= edits[d] + 1
      BY <1>a, <2>1 DEF FreshTask, FreshRow, ApprovePCs
    <3>2. ASSUME NEW x \in DOMAIN rows, x = d PROVE FreshRow(x)'
      BY <2>1, <2>3, <3>1, <3>2 DEF FreshRow, Told
    <3>3. \A x \in DOMAIN rows \ {d} : rows'[x].status = rows[x].status /\ delivered'[x] = delivered[x] /\ edits'[x] = edits[x] /\ (Told(x)' => Told(x))
      BY <2>1, <2>3 DEF Told
    <3> HIDE DEF d
    <3>4. ASSUME NEW i, i = d PROVE \A x \in DOMAIN rows' : FreshRow(x)'
      <4>1. pc[t] = "mark_sent" => Item(t) = i
        BY <3>4 DEF d
      <4>2. i \in DOMAIN rows => FreshRow(i)'
        BY <3>2, <3>4
      <4>3. \A x \in DOMAIN rows \ {i} : rows'[x].status = rows[x].status /\ delivered'[x] = delivered[x] /\ edits'[x] = edits[x] /\ (Told(x)' => Told(x))
        BY <3>3, <3>4
      <4> QED
        BY <1>0, <1>1, <4>1, <4>2, <4>3
    <3> QED
      BY <2>1, <3>4, FreshFree DEF ApprovePCs
  <2> QED
    BY <1>7, <2>2, <2>3 DEF MarkSent
<1>8. CASE RejectRead(t)
  <2>1. pc[t] = "reject" /\ UNCHANGED deskVars /\ pc'[t] \in {"reject_mark", "reject", "idle"}
    BY <1>0, <1>8 DEF RejectRead, At, Goto, Continue, Finish, FinishItem
  <2>2. CASE pc'[t] = "reject_mark"
    <3>1. d \in DOMAIN rows /\ rows[d].status \notin {"sent", "rejected"} /\ job'[t] = job[t]
      BY <1>0, <1>8, <2>2 DEF RejectRead, Exists, Goto, Continue, Finish, FinishItem
    <3>2. Told(d) => Fresh(d)
      BY <2>1, <3>1 DEF FreshRow, Told
    <3>3. Item(t)' = d
      BY <1>b, <3>1
    <3>4. Told(Item(t))' => Fresh(Item(t))'
      BY <2>1, <3>2, <3>3 DEF Fresh, Told, deskVars
    <3>5. FreshTask(t)'
      BY <2>2, <3>4 DEF FreshTask, ApprovePCs
    <3> QED
      BY <1>2, <2>1, <3>5 DEF deskVars
  <2>3. CASE pc'[t] # "reject_mark"
    BY <1>2, <2>1, <2>3, FreshFree DEF deskVars, ApprovePCs
  <2> QED
    BY <2>2, <2>3
<1>9. CASE RejectMark(t)
  <2>1. pc[t] = "reject_mark" /\ SetStatus(d, "rejected") /\ UNCHANGED <<delivered, unheard, edits>> /\ pc'[t] \in {"reject", "idle"}
    BY <1>0, <1>9 DEF RejectMark, At, Continue, Finish, FinishItem
  <2>2. Told(d) => Fresh(d)
    BY <2>1 DEF FreshTask
  <2>3. \A x \in DOMAIN rows' : FreshRow(x)'
    BY <1>a, <1>d, <2>1, <2>2
  <2> QED
    BY <2>1, <2>3, FreshFree DEF ApprovePCs
<1>10. CASE EditMark(t)
  <2> DEFINE n == job[t].text
             g == [rows EXCEPT ![d] = [rows[d] EXCEPT !.status = "edited", !.text = n]]
  <2>1. /\ pc[t] = "edit_mark" /\ pc'[t] = "remember" /\ rows' = g /\ delivered' = delivered
        /\ edits' = [edits EXCEPT ![d] = @ + 1] /\ unheard' = unheard \ {d} /\ d \in DOMAIN rows
    BY <1>0, <1>10, <1>a DEF EditMark, At, Goto
  <2>2. n \in Nat /\ rows \in Seq(DraftRows)
    BY <1>0, <2>1 DEF RowJob, RowPCs
  <2> HIDE DEF n, d
  <2>3. \A x \in DOMAIN rows : g[x].status = IF x = d THEN "edited" ELSE rows[x].status
    BY <2>2, RowEdited
  <2> HIDE DEF g
  <2>4. \A x \in DOMAIN rows : edits'[x] = IF x = d THEN edits[x] + 1 ELSE edits[x]
    BY <1>0, <2>1
  <2>5. ASSUME NEW x \in DOMAIN rows, x = d PROVE FreshRow(x)'
    <3>1. delivered[x] <= edits[x] + 1 /\ delivered[x] \in Nat /\ edits[x] \in Nat
      BY <1>c DEF FreshRow
    <3>2. delivered'[x] = delivered[x] /\ edits'[x] = edits[x] + 1
      BY <2>1, <2>4, <2>5
    <3>3. delivered'[x] <= edits'[x] /\ delivered'[x] <= edits'[x] + 1
      BY <3>1, <3>2
    <3> QED
      BY <3>3 DEF FreshRow, Fresh
  <2>6. ASSUME NEW i, i = d PROVE \A x \in DOMAIN rows' : FreshRow(x)'
    <3>1. \A x \in DOMAIN rows \ {i} : rows'[x].status = rows[x].status /\ delivered'[x] = delivered[x] /\ edits'[x] = edits[x] /\ (Told(x)' => Told(x))
      BY <2>1, <2>3, <2>4, <2>6 DEF Told
    <3>2. i \in DOMAIN rows => FreshRow(i)'
      BY <2>5, <2>6
    <3> QED
      BY <1>0, <1>1, <2>1, <3>1, <3>2
  <2> QED
    BY <2>1, <2>6, FreshFree DEF ApprovePCs
<1>11. CASE EditRead(t) \/ RememberRead(t) \/ RememberWrite(t)
  <2>1. /\ pc[t] # "mark_sent" /\ UNCHANGED <<rows, delivered, unheard, edits>>
        /\ pc'[t] \in {"edit_mark", "remember_write", "idle"}
    BY <1>0, <1>11 DEF EditRead, RememberRead, RememberWrite, At, Continue, Finish, deskVars
  <2> QED
    BY <1>2, <2>1, FreshFree DEF ApprovePCs
<1> QED
  BY <1>3, <1>4, <1>5, <1>6, <1>7, <1>8, <1>9, <1>10, <1>11 DEF DeskStep

\* The sessions, by the only task under way: a request that starts a session found
\* none open.
LEMMA FreshSession ==
  ASSUME TypeOK, TypeOK', SentInv, ApproveInv, NEW t \in Tasks, Others(t), SessionStep(t),
         \A u \in Tasks : u # t => pc[u] = "idle", restarts' = restarts,
         \A u \in Tasks : FreshTask(u), \A x \in DOMAIN rows : FreshRow(x)
  PROVE  FreshTask(t)' /\ \A x \in DOMAIN rows' : FreshRow(x)'
<1>0. /\ DOMAIN pc = Tasks /\ DOMAIN job = Tasks /\ DeskOK
      /\ DOMAIN rows \subseteq 1..MaxRows
  BY RowIds DEF TypeOK, TasksOK
<1>1. ASSUME NEW i, DOMAIN rows' = DOMAIN rows, pc[t] = "mark_sent" => Item(t) = i,
             \A x \in DOMAIN rows \ {i} : rows'[x].status = rows[x].status /\ delivered'[x] = delivered[x] /\ edits'[x] = edits[x] /\ (Told(x)' => Told(x)),
             i \in DOMAIN rows => FreshRow(i)'
      PROVE  \A x \in DOMAIN rows' : FreshRow(x)'
  <2> SUFFICES ASSUME NEW x \in DOMAIN rows PROVE FreshRow(x)'
    BY <1>1
  <2>1. CASE x = i
    BY <1>1, <2>1
  <2>2. CASE x # i
    BY <1>1, <2>2, FreshRowKept
  <2> QED
    BY <2>1, <2>2
<1>2. ASSUME UNCHANGED <<rows, delivered, unheard, edits>>, pc[t] # "mark_sent"
      PROVE  \A x \in DOMAIN rows' : FreshRow(x)'
  BY <1>2, FreshRowKept DEF Told
<1>3. CASE CloseStale(t)
  <2>1. pc[t] = "close_stale" /\ pc'[t] = "create" /\ UNCHANGED <<delivered, unheard, edits>>
    BY <1>0, <1>3 DEF CloseStale, At, Goto
  <2>2. OpenSessions(job[t].who) = {}
    BY <2>1 DEF FreshTask
  <2>3. DOMAIN rows' = DOMAIN rows /\ \A x \in DOMAIN rows : rows'[x].status = rows[x].status
    BY <1>3, <2>2, ClosedRows
  <2>4. \A x \in DOMAIN rows' : FreshRow(x)'
    BY <2>1, <2>3, FreshRowKept DEF Told
  <2> QED
    BY <2>1, <2>4, FreshFree DEF ApprovePCs
<1>4. CASE CreateSession(t)
  <2>1. pc[t] = "create" /\ pc'[t] = "idle" /\ UNCHANGED <<delivered, unheard, edits>>
    BY <1>0, <1>4 DEF CreateSession, At, Finish, Continue
  <2>2. /\ DOMAIN rows' = DOMAIN rows \cup {Len(rows) + 1} /\ Len(rows) + 1 \notin DOMAIN rows
        /\ Len(rows) + 1 \in 1..MaxRows /\ \A x \in DOMAIN rows : rows'[x] = rows[x]
    BY <1>0, <1>4, CreatedRows, OneMoreRow
  <2>3. \A x \in DOMAIN rows : FreshRow(x)'
    BY <2>1, <2>2, FreshRowKept DEF Told
  <2>4. ASSUME NEW i, i = Len(rows) + 1 PROVE FreshRow(i)'
    BY <2>1, <2>2, <2>4, FreshNew
  <2>5. \A x \in DOMAIN rows' : FreshRow(x)'
    BY <2>2, <2>3, <2>4
  <2> QED
    BY <2>1, <2>5, FreshFree DEF ApprovePCs
<1>5. CASE VerifyRead(t)
  <2> DEFINE S == OpenSessions(job[t].who)
             d == Newest(S)
             to == NextStep(rows[d].status, job[t].op)
  <2>1. /\ pc[t] = "verify" /\ UNCHANGED deskVars
        /\ \/ pc'[t] = "idle"
           \/ pc'[t] = "verify_write" /\ job'[t] = [row |-> d, to |-> to] /\ S # {} /\ to # rows[d].status
    BY <1>0, <1>5 DEF VerifyRead, At, Finish, Continue
  <2>2. CASE pc'[t] = "verify_write"
    <3>1. d \in DOMAIN rows
      <4>1. d \in S
        BY <1>0, <2>1, <2>2, NewestOpen
      <4> QED
        BY <4>1 DEF OpenSessions
    <3>2. rows[d].status \in Steps
      BY <2>1, <2>2 DEF NextStep, Steps
    <3>3. job'[t].row = d
      BY <2>1, <2>2
    <3> HIDE DEF d
    <3>4. Fresh(d)
      BY <3>1, <3>2 DEF FreshRow, Steps
    <3>5. job'[t].row \in DOMAIN rows' /\ Fresh(job[t].row)'
      BY <2>1, <3>1, <3>3, <3>4 DEF Fresh, deskVars
    <3>6. FreshTask(t)'
      BY <2>2, <3>5 DEF FreshTask, ApprovePCs
    <3> QED
      BY <1>2, <2>1, <3>6 DEF deskVars
  <2>3. CASE pc'[t] = "idle"
    BY <1>2, <2>1, <2>3, FreshFree DEF deskVars, ApprovePCs
  <2> QED
    BY <2>1, <2>2, <2>3
<1>6. CASE VerifyWrite(t)
  <2>1. pc[t] = "verify_write" /\ pc'[t] \in {"build_draft", "idle"} /\ UNCHANGED <<delivered, unheard, edits>>
    BY <1>0, <1>6 DEF VerifyWrite, At, Goto, Finish, Continue
  <2>2. job[t].row \in DOMAIN rows /\ Fresh(job[t].row)
    BY <2>1 DEF FreshTask
  <2>3. /\ DOMAIN rows' = DOMAIN rows /\ job[t].to \in Steps \cup {"verified"}
        /\ \A x \in DOMAIN rows : rows'[x].status = IF x = job[t].row THEN job[t].to ELSE rows[x].status
    BY <1>6, VerifiedRows
  <2>4. ASSUME NEW i \in DOMAIN rows, i = job[t].row PROVE FreshRow(i)'
    <3>1. delivered'[i] <= edits'[i] + 1 /\ delivered'[i] <= edits'[i]
      BY <2>1, <2>2, <2>4 DEF Fresh, FreshRow
    <3>2. rows'[i].status # "approved"
      BY <2>3, <2>4 DEF Steps
    <3> QED
      BY <3>1, <3>2 DEF FreshRow, Fresh
  <2>5. ASSUME NEW i, i = job[t].row PROVE \A x \in DOMAIN rows' : FreshRow(x)'
    <3>1. i \in DOMAIN rows => FreshRow(i)'
      BY <2>4, <2>5
    <3>2. \A x \in DOMAIN rows \ {i} : rows'[x].status = rows[x].status /\ delivered'[x] = delivered[x] /\ edits'[x] = edits[x] /\ (Told(x)' => Told(x))
      BY <2>1, <2>3, <2>5 DEF Told
    <3> QED
      BY <1>1, <2>1, <2>3, <3>1, <3>2
  <2> QED
    BY <2>1, <2>5, FreshFree DEF ApprovePCs
<1>7. CASE BuildDraft(t)
  <2>1. pc[t] = "build_draft" /\ pc'[t] = "idle" /\ UNCHANGED deskVars
    BY <1>0, <1>7 DEF BuildDraft, At, Finish, Continue
  <2> QED
    BY <1>2, <2>1, FreshFree DEF deskVars, ApprovePCs
<1> QED
  BY <1>3, <1>4, <1>5, <1>6, <1>7 DEF SessionStep

\* Every step keeps the deliveries in step with the edits while requests do not
\* overlap.
LEMMA FreshInvStep ==
  ASSUME TypeOK, TypeOK', Moves, env' = env, RowsKept(rows, rows'), AloneInv, SentInv, ApproveInv, FreshInv
  PROVE  FreshInv'
<1> SUFFICES ASSUME Calm PROVE (\A u \in Tasks : FreshTask(u)') /\ \A x \in DOMAIN rows' : FreshRow(x)'
  BY DEF FreshInv, Calm
<1>0. /\ \A u \in Tasks : FreshTask(u)
      /\ \A x \in DOMAIN rows : FreshRow(x)
      /\ \A t, u \in Tasks : pc[t] # "idle" /\ pc[u] # "idle" => t = u
      /\ DeskOK /\ DOMAIN rows \subseteq 1..MaxRows
  BY RowIds DEF FreshInv, AloneInv, TypeOK
<1> DEFINE Goal == (\A u \in Tasks : FreshTask(u)') /\ \A x \in DOMAIN rows' : FreshRow(x)'
<1>1. ASSUME NEW t \in Tasks, pc[t] # "idle", Others(t), FreshTask(t)', \A x \in DOMAIN rows' : FreshRow(x)' PROVE Goal
  <2>1. \A u \in Tasks : u # t => pc'[u] = "idle"
    BY <1>0, <1>1 DEF Others
  <2>2. \A u \in Tasks : u # t => FreshTask(u)'
    BY <2>1, FreshFree DEF ApprovePCs
  <2> QED
    BY <1>1, <2>2
<1>2. ASSUME NEW t \in Tasks, DeskStep(t), Lane(t, RowPCs), restarts' = restarts PROVE Goal
  <2>1. pc[t] # "idle" /\ Others(t)
    BY <1>2 DEF Lane, RowPCs
  <2>2. \A u \in Tasks : u # t => pc[u] = "idle"
    BY <1>0, <2>1
  <2>3. FreshTask(t)' /\ \A x \in DOMAIN rows' : FreshRow(x)'
    BY <1>0, <1>2, <2>1, <2>2, FreshDesk
  <2> QED
    BY <1>1, <2>1, <2>3
<1>3. ASSUME NEW t \in Tasks, SessionStep(t), Lane(t, SessionPCs), restarts' = restarts PROVE Goal
  <2>1. pc[t] # "idle" /\ Others(t)
    BY <1>3 DEF Lane, SessionPCs
  <2>2. \A u \in Tasks : u # t => pc[u] = "idle"
    BY <1>0, <2>1
  <2>3. FreshTask(t)' /\ \A x \in DOMAIN rows' : FreshRow(x)'
    BY <1>0, <1>3, <2>1, <2>2, FreshSession
  <2> QED
    BY <1>1, <2>1, <2>3
<1>4. ASSUME NEW t \in Tasks, NEW S \in {PaydayPCs, RolePCs}, Lane(t, S), UNCHANGED <<deskVars, restarts>> PROVE Goal
  <2>1. pc[t] # "idle" /\ Others(t) /\ pc[t] # "mark_sent" /\ pc'[t] \notin ApprovePCs \cup {"reject_mark", "verify_write", "close_stale"}
    BY <1>4 DEF Lane, PaydayPCs, RolePCs, ApprovePCs
  <2>2. \A u \in Tasks : u # t => pc[u] = "idle"
    BY <1>0, <2>1
  <2>3. \A x \in DOMAIN rows' : FreshRow(x)'
    BY <1>0, <1>4, <2>1, <2>2, FreshRowKept DEF Told, deskVars
  <2> QED
    BY <1>1, <2>1, <2>3, FreshFree
<1>5. ASSUME NEW t \in Tasks, Enters(t), UNCHANGED <<deskVars, restarts>> PROVE Goal
  <2>1. /\ Others(t) /\ pc[t] # "mark_sent"
        /\ pc'[t] \notin ApprovePCs \cup {"reject_mark", "verify_write"}
        /\ pc'[t] = "close_stale" => OpenSessions(job'[t].who) = {}
    BY <1>5 DEF Enters, CheckPCs, OfficePCs, FirstPCs, ApprovePCs
  <2>2. FreshTask(t)'
    <3>1. pc'[t] = "close_stale" => OpenSessions(job[t].who)' = {}
      BY <1>5, <2>1 DEF OpenSessions, deskVars
    <3> QED
      BY <2>1, <3>1 DEF FreshTask, ApprovePCs
  <2>3. ASSUME NEW u \in Tasks, u # t PROVE FreshTask(u)'
    <3>1. pc'[u] = pc[u] /\ job'[u] = job[u] /\ FreshTask(u)
      BY <1>0, <2>1, <2>3 DEF Others
    <3> QED
      BY <1>5, <3>1 DEF FreshTask, Fresh, Told, Item, OpenSessions, deskVars
  <2>4. ASSUME NEW x \in DOMAIN rows' PROVE FreshRow(x)'
    <3>1. UNCHANGED <<rows, delivered, unheard, edits, restarts>> /\ FreshRow(x)
      BY <1>0, <1>5, <2>4 DEF deskVars
    <3>2. ASSUME NEW u \in Tasks, pc[u] = "mark_sent", Item(u) = x PROVE pc'[u] = "mark_sent" /\ Item(u)' = x
      BY <2>1, <3>2 DEF Others, Item
    <3> QED
      BY <3>1, <3>2 DEF FreshRow, Fresh, Told
  <2> QED
    BY <2>2, <2>3, <2>4
<1>6. ASSUME UNCHANGED <<pc, job, deskVars, restarts>> PROVE Goal
  <2>1. ASSUME NEW u \in Tasks PROVE FreshTask(u)'
    <3>1. FreshTask(u)
      BY <1>0
    <3> QED
      BY <1>6, <3>1 DEF FreshTask, Fresh, Told, Item, OpenSessions, deskVars
  <2>2. ASSUME NEW x \in DOMAIN rows' PROVE FreshRow(x)'
    <3>1. FreshRow(x)
      BY <1>0, <1>6 DEF deskVars
    <3> QED
      BY <1>6, <3>1 DEF FreshRow, Fresh, Told, Item, deskVars
  <2> QED
    BY <2>1, <2>2
<1>7. ASSUME Arrive, UNCHANGED <<pc, job, restarts>> PROVE Goal
  <2>1. UNCHANGED <<delivered, unheard, edits>> /\ Len(rows) < MaxRows
    BY <1>7, ArrivalRow
  <2>2. PICK r : ArrivedRow(r) /\ rows' = Append(rows, r)
    BY <1>7, ArrivalRow
  <2>3. /\ DOMAIN rows' = DOMAIN rows \cup {Len(rows) + 1} /\ Len(rows) + 1 \notin DOMAIN rows
        /\ Len(rows) + 1 \in 1..MaxRows
        /\ rows'[Len(rows) + 1] = r /\ \A x \in DOMAIN rows : rows'[x] = rows[x]
    BY <1>0, <2>1, <2>2, OneMoreRow DEF ArrivedRow
  <2>4. \A w : OpenSessions(w) = {} => {x \in DOMAIN rows' : /\ rows'[x].kind = "session" /\ rows'[x].who = w
                                                             /\ rows'[x].status \notin {"verified", "rejected"}} = {}
    BY <2>2, <2>3 DEF OpenSessions, ArrivedRow
  <2>5. ASSUME NEW u \in Tasks PROVE FreshTask(u)'
    <3>1. FreshTask(u) /\ Item(u)' = Item(u)
      BY <1>0, <1>7 DEF Item
    <3>2. pc[u] \in ApprovePCs => Item(u) \in DOMAIN rows
      BY DEF ApproveInv, ApproveTask
    <3>3. (Fresh(Item(u))' <=> Fresh(Item(u))) /\ (Told(Item(u))' <=> Told(Item(u)))
      BY <1>7, <2>1, <3>1 DEF Fresh, Told
    <3>4. pc'[u] \in ApprovePCs \ {"approve_mark"} => (rows[Item(u)].status = "approved")'
      BY <1>7, <2>3, <3>1, <3>2 DEF FreshTask
    <3>5. pc'[u] = "verify_write" => (job[u].row \in DOMAIN rows /\ Fresh(job[u].row))'
      BY <1>7, <2>1, <2>3, <3>1 DEF FreshTask, Fresh
    <3>6. pc'[u] = "close_stale" => (OpenSessions(job[u].who) = {})'
      <4>1. pc'[u] = "close_stale" => OpenSessions(job[u].who) = {} /\ job'[u] = job[u]
        BY <1>7, <3>1 DEF FreshTask
      <4> QED
        BY <2>4, <4>1 DEF OpenSessions
    <3> QED
      BY <1>7, <3>1, <3>3, <3>4, <3>5, <3>6 DEF FreshTask
  <2>6. ASSUME NEW x \in DOMAIN rows PROVE FreshRow(x)'
    <3>1. FreshRow(x) /\ rows'[x] = rows[x]
      BY <1>0, <2>3
    <3> QED
      BY <1>7, <2>1, <3>1 DEF FreshRow, Fresh, Told, Item
  <2>7. ASSUME NEW i, i = Len(rows) + 1 PROVE FreshRow(i)'
    BY <2>1, <2>3, <2>7, FreshNew
  <2>8. \A x \in DOMAIN rows' : FreshRow(x)'
    BY <2>3, <2>6, <2>7
  <2> QED
    BY <2>5, <2>8
<1>8. ASSUME Restart PROVE Goal
  <2>1. /\ \A u \in Tasks : pc'[u] = "idle"
        /\ rows' = rows /\ delivered' = delivered /\ edits' = edits /\ restarts' # 0
    BY <1>8 DEF Restart, deskVars, TypeOK, WorldOK
  <2>2. ASSUME NEW x \in DOMAIN rows' PROVE FreshRow(x)'
    BY <1>0, <2>1 DEF FreshRow, Fresh, Told
  <2> QED
    BY <2>1, <2>2, FreshFree DEF ApprovePCs
<1>9. Goal
  <2> HIDE DEF Goal
  <2>1. CASE Arrival /\ UNCHANGED <<sessionVars, paydayVars, users, restarts>>
    BY <1>7, <2>1 DEF Arrival
  <2>2. CASE \E t \in Tasks : DeskStep(t) /\ Lane(t, RowPCs) /\ UNCHANGED <<sessionVars, paydayVars, users, restarts>>
    BY <1>2, <2>2
  <2>3. CASE \E t \in Tasks : SessionStep(t) /\ Lane(t, SessionPCs) /\ UNCHANGED <<paydayVars, users, restarts>>
    BY <1>3, <2>3
  <2>4. CASE \E t \in Tasks : PaydayStep(t) /\ Lane(t, PaydayPCs) /\ UNCHANGED <<deskVars, sessionVars, users, restarts>>
    BY <1>4, <2>4
  <2>5. CASE \E t \in Tasks : RolesStep(t) /\ Lane(t, RolePCs) /\ UNCHANGED <<deskVars, sessionVars, paydayVars, restarts>>
    BY <1>4, <2>5
  <2>6. CASE NextDay /\ UNCHANGED <<pc, job, deskVars, sessionVars, users, restarts>>
    BY <1>6, <2>6
  <2>7. CASE \E t \in Tasks : Enters(t) /\ UNCHANGED <<deskVars, sessionVars, paydayVars, users, restarts>>
    BY <1>5, <2>7
  <2>8. CASE UNCHANGED <<pc, job, deskVars, sessionVars, paydayVars, users, restarts>>
    BY <1>6, <2>8
  <2> QED
    BY <1>8, <2>1, <2>2, <2>3, <2>4, <2>5, <2>6, <2>7, <2>8 DEF Moves
<1> QED
  BY <1>9

-----------------------------------------------------------------------------
(* Delivered at most once by each of the approvals that overlap *)

\* The sets of tasks are finite and the bounds are numbers.
LEMMA OverlapTyped ==
  ASSUME TypeOK, NEW d \in 1..MaxRows
  PROVE  /\ IsFiniteSet(Sending(d)) /\ IsFiniteSet(Marking(d)) /\ IsFiniteSet(Busy)
         /\ Cardinality(Sending(d)) \in Nat /\ Cardinality(Marking(d)) \in Nat /\ Cardinality(Busy) \in Nat
         /\ delivered[d] \in Nat /\ edits[d] \in Nat /\ env.atOnce \in Nat
         /\ env.atOnce * edits[d] \in Nat /\ env.atOnce * (edits[d] + 1) \in Nat
         /\ env.atOnce * (edits[d] + 1) = env.atOnce * edits[d] + env.atOnce
<1>1. IsFiniteSet(Tasks) /\ env.atOnce \in Nat
  BY DeskAssumption DEF TypeOK, WorldOK
<1>2. Sending(d) \subseteq Tasks /\ Marking(d) \subseteq Tasks /\ Busy \subseteq Tasks
  BY DEF Sending, Marking, Busy
<1>3. IsFiniteSet(Sending(d)) /\ IsFiniteSet(Marking(d)) /\ IsFiniteSet(Busy)
  BY <1>1, <1>2, FS_Subset
<1>4. delivered[d] \in Nat /\ edits[d] \in Nat
  BY DEF TypeOK, DeskOK
<1>5. \A a, e \in Nat : a * e \in Nat /\ a * (e + 1) \in Nat /\ a * (e + 1) = a * e + a
  OBVIOUS
<1> QED
  BY <1>1, <1>3, <1>4, <1>5, FS_CardinalityType

\* The same after a step.
LEMMA OverlapTypedNext ==
  ASSUME TypeOK', NEW d \in 1..MaxRows
  PROVE  /\ IsFiniteSet(Busy') /\ Cardinality(Busy') \in Nat
         /\ Cardinality(Sending(d)') \in Nat /\ Cardinality(Marking(d)') \in Nat
         /\ delivered'[d] \in Nat /\ edits'[d] \in Nat /\ env'.atOnce \in Nat
         /\ env'.atOnce * edits'[d] \in Nat /\ env'.atOnce * (edits'[d] + 1) \in Nat
         /\ env'.atOnce * (edits'[d] + 1) = env'.atOnce * edits'[d] + env'.atOnce
<1>1. IsFiniteSet(Tasks) /\ env'.atOnce \in Nat
  BY DeskAssumption DEF TypeOK, WorldOK
<1>2. Sending(d)' \subseteq Tasks /\ Marking(d)' \subseteq Tasks /\ Busy' \subseteq Tasks
  BY DEF Sending, Marking, Busy
<1>3. IsFiniteSet(Sending(d)') /\ IsFiniteSet(Marking(d)') /\ IsFiniteSet(Busy')
  BY <1>1, <1>2, FS_Subset
<1>4. delivered'[d] \in Nat /\ edits'[d] \in Nat
  BY DEF TypeOK, DeskOK
<1>5. \A a, e \in Nat : a * e \in Nat /\ a * (e + 1) \in Nat /\ a * (e + 1) = a * e + a
  OBVIOUS
<1> QED
  BY <1>1, <1>3, <1>4, <1>5, FS_CardinalityType

\* A step of a task that is neither marking nor sending changes neither set.
LEMMA SetsFree ==
  ASSUME NEW t \in Tasks, Others(t), pc[t] \notin PreSend \cup {"approve_mark"}, pc'[t] \notin PreSend \cup {"approve_mark"},
         NEW d
  PROVE  Sending(d)' = Sending(d) /\ Marking(d)' = Marking(d)
<1>1. ASSUME NEW u \in Tasks PROVE (u \in Sending(d)' <=> u \in Sending(d)) /\ (u \in Marking(d)' <=> u \in Marking(d))
  <2>1. CASE u = t
    BY <2>1 DEF Sending, Marking
  <2>2. CASE u # t
    BY <2>2 DEF Sending, Marking, Others, Item
  <2> QED
    BY <2>1, <2>2
<1>2. Sending(d)' \subseteq Tasks /\ Sending(d) \subseteq Tasks /\ Marking(d)' \subseteq Tasks /\ Marking(d) \subseteq Tasks
  BY DEF Sending, Marking
<1> QED
  BY <1>1, <1>2

\* A row whose deliveries, edits and approvals the step leaves alone, and which it
\* does not open.
LEMMA BoundedKept ==
  ASSUME NEW d, Bounded(d), Sending(d)' = Sending(d), Marking(d)' = Marking(d), env' = env,
         delivered'[d] = delivered[d], edits'[d] = edits[d], Open(d)' => Open(d)
  PROVE  Bounded(d)'
BY DEF Bounded

\* A row that is new.
LEMMA BoundedNew ==
  ASSUME TypeOK, TypeOK', SentInv, ApproveInv, NEW d \in 1..MaxRows, d \notin DOMAIN rows, env' = env,
         UNCHANGED <<delivered, edits>>, Sending(d)' = Sending(d), Marking(d)' = Marking(d)
  PROVE  Bounded(d)'
<1>1. Sending(d) = {} /\ Marking(d) = {}
  BY DEF Sending, Marking, PreSend, ApproveInv, ApproveTask, ApprovePCs
<1>2. Cardinality(Sending(d)') = 0 /\ Cardinality(Marking(d)') = 0
  BY <1>1, FS_EmptySet
<1>3. delivered'[d] = 0
  BY DEF SentInv
<1>4. env'.atOnce * edits'[d] \in Nat /\ env'.atOnce * (edits'[d] + 1) \in Nat
  BY OverlapTypedNext
<1> DEFINE low == env'.atOnce * edits'[d]
           high == env'.atOnce * (edits'[d] + 1)
<1>5. low \in Nat /\ high \in Nat
  BY <1>4
<1> HIDE DEF low, high
<1>6. 0 + 0 <= low /\ 0 + 0 + 0 <= high
  BY <1>5
<1> QED
  BY <1>2, <1>3, <1>6 DEF Bounded, low, high

\* What the step of a task changes in the sets: nothing of the rows it does not work
\* on, and at most its own place among those that work on its row.
LEMMA SetsMoved ==
  ASSUME NEW t \in Tasks, Others(t), NEW d, d = Item(t),
         pc'[t] \in PreSend \cup {"approve_mark"} => Item(t)' = d
  PROVE  /\ \A x : x # d => Sending(x)' = Sending(x) /\ Marking(x)' = Marking(x)
         /\ Sending(d)' = IF pc'[t] \in PreSend THEN Sending(d) \cup {t} ELSE Sending(d) \ {t}
         /\ Marking(d)' = IF pc'[t] = "approve_mark" THEN Marking(d) \cup {t} ELSE Marking(d) \ {t}
         /\ (t \in Sending(d) <=> pc[t] \in PreSend) /\ (t \in Marking(d) <=> pc[t] = "approve_mark")
<1>1. ASSUME NEW u \in Tasks, u # t, NEW x PROVE (u \in Sending(x)' <=> u \in Sending(x)) /\ (u \in Marking(x)' <=> u \in Marking(x))
  BY <1>1 DEF Sending, Marking, Others, Item
<1>2. ASSUME NEW x PROVE /\ Sending(x)' \subseteq Tasks /\ Sending(x) \subseteq Tasks
                         /\ Marking(x)' \subseteq Tasks /\ Marking(x) \subseteq Tasks
  BY DEF Sending, Marking
<1>3. ASSUME NEW x, x # d PROVE t \notin Sending(x) /\ t \notin Marking(x) /\ t \notin Sending(x)' /\ t \notin Marking(x)'
  BY <1>3 DEF Sending, Marking
<1>4. (t \in Sending(d) <=> pc[t] \in PreSend) /\ (t \in Marking(d) <=> pc[t] = "approve_mark")
  BY DEF Sending, Marking
<1>5. (t \in Sending(d)' <=> pc'[t] \in PreSend) /\ (t \in Marking(d)' <=> pc'[t] = "approve_mark")
  BY DEF Sending, Marking
<1>6. ASSUME NEW x, x # d PROVE Sending(x)' = Sending(x) /\ Marking(x)' = Marking(x)
  BY <1>1, <1>2, <1>3, <1>6
<1>7. Sending(d)' = IF pc'[t] \in PreSend THEN Sending(d) \cup {t} ELSE Sending(d) \ {t}
  BY <1>1, <1>2, <1>5
<1>8. Marking(d)' = IF pc'[t] = "approve_mark" THEN Marking(d) \cup {t} ELSE Marking(d) \ {t}
  BY <1>1, <1>2, <1>5
<1> QED
  BY <1>4, <1>6, <1>7, <1>8

\* Deliveries and approvals that only change places.
LEMMA BoundedShift ==
  ASSUME TypeOK, TypeOK', NEW d \in 1..MaxRows, Bounded(d), env' = env, edits'[d] = edits[d],
         Open(d)' => Open(d) /\ delivered'[d] + Cardinality(Sending(d)') <= delivered[d] + Cardinality(Sending(d)),
         delivered'[d] + Cardinality(Sending(d)') + Cardinality(Marking(d)')
           <= delivered[d] + Cardinality(Sending(d)) + Cardinality(Marking(d))
  PROVE  Bounded(d)'
<1>1. /\ delivered[d] \in Nat /\ Cardinality(Sending(d)) \in Nat /\ Cardinality(Marking(d)) \in Nat
      /\ env.atOnce * edits[d] \in Nat /\ env.atOnce * (edits[d] + 1) \in Nat
  BY OverlapTyped
<1>2. delivered'[d] \in Nat /\ Cardinality(Sending(d)') \in Nat /\ Cardinality(Marking(d)') \in Nat
  BY OverlapTypedNext
<1> DEFINE n == Cardinality(Sending(d))
           k == Cardinality(Marking(d))
           nn == Cardinality(Sending(d)')
           kk == Cardinality(Marking(d)')
           low == env.atOnce * edits[d]
           high == env.atOnce * (edits[d] + 1)
<1>3. (Open(d) => delivered[d] + n <= low) /\ delivered[d] + n + k <= high
  BY DEF Bounded
<1>4. (Open(d)' => Open(d) /\ delivered'[d] + nn <= delivered[d] + n) /\ delivered'[d] + nn + kk <= delivered[d] + n + k
  OBVIOUS
<1>5. n \in Nat /\ k \in Nat /\ nn \in Nat /\ kk \in Nat /\ low \in Nat /\ high \in Nat
  BY <1>1, <1>2
<1>6. env'.atOnce * edits'[d] = low /\ env'.atOnce * (edits'[d] + 1) = high
  OBVIOUS
<1> HIDE DEF n, k, nn, kk, low, high
<1>7. (Open(d)' => delivered'[d] + nn <= low) /\ delivered'[d] + nn + kk <= high
  BY <1>1, <1>2, <1>3, <1>4, <1>5
<1> QED
  BY <1>6, <1>7 DEF Bounded, nn, kk

\* An approval that found the row open: those that mark it are no more than overlap.
LEMMA BoundedRead ==
  ASSUME TypeOK, TypeOK', BusyInv', NEW d \in 1..MaxRows, Bounded(d), Open(d), env' = env,
         edits'[d] = edits[d], delivered'[d] = delivered[d], Sending(d)' = Sending(d)
  PROVE  Bounded(d)'
<1>1. /\ delivered[d] \in Nat /\ Cardinality(Sending(d)) \in Nat /\ env.atOnce \in Nat
      /\ env.atOnce * edits[d] \in Nat /\ env.atOnce * (edits[d] + 1) = env.atOnce * edits[d] + env.atOnce
  BY OverlapTyped
<1>2. Cardinality(Marking(d)') \in Nat /\ Cardinality(Busy') \in Nat /\ IsFiniteSet(Busy')
  BY OverlapTypedNext
<1>3. Cardinality(Marking(d)') <= env.atOnce
  <2>1. Marking(d)' \subseteq Busy'
    BY DEF Marking, Busy
  <2>2. Cardinality(Marking(d)') <= Cardinality(Busy')
    BY <1>2, <2>1, FS_Subset
  <2>3. Cardinality(Busy') <= env.atOnce
    BY DEF BusyInv
  <2> QED
    BY <1>1, <1>2, <2>2, <2>3
<1> DEFINE n == Cardinality(Sending(d))
           kk == Cardinality(Marking(d)')
           a == env.atOnce
           low == env.atOnce * edits[d]
           high == env.atOnce * (edits[d] + 1)
<1>4. delivered[d] + n <= low /\ kk <= a /\ high = low + a
  BY <1>1, <1>3 DEF Bounded
<1>5. n \in Nat /\ kk \in Nat /\ a \in Nat /\ low \in Nat
  BY <1>1, <1>2
<1> DEFINE nn == Cardinality(Sending(d)')
           lower == env'.atOnce * edits'[d]
           higher == env'.atOnce * (edits'[d] + 1)
<1>6. lower = low /\ higher = high /\ nn = n
  OBVIOUS
<1> HIDE DEF n, kk, nn, a, low, high, lower, higher
<1>7. delivered'[d] + nn <= lower /\ delivered'[d] + nn + kk <= higher
  BY <1>1, <1>4, <1>5, <1>6
<1> QED
  BY <1>7 DEF Bounded, nn, kk, lower, higher

\* An edit opens the row for as many approvals as may overlap.
LEMMA BoundedEdit ==
  ASSUME TypeOK, TypeOK', NEW d \in 1..MaxRows, Bounded(d), env' = env, edits'[d] = edits[d] + 1,
         delivered'[d] = delivered[d], Sending(d)' = Sending(d), Marking(d)' = Marking(d)
  PROVE  Bounded(d)'
<1>1. /\ delivered[d] \in Nat /\ Cardinality(Sending(d)) \in Nat /\ Cardinality(Marking(d)) \in Nat /\ env.atOnce \in Nat
      /\ edits[d] \in Nat /\ env.atOnce * (edits[d] + 1) \in Nat
  BY OverlapTyped
<1> DEFINE n == Cardinality(Sending(d))
           k == Cardinality(Marking(d))
           a == env.atOnce
           high == env.atOnce * (edits[d] + 1)
           higher == env'.atOnce * (edits'[d] + 1)
<1>2. higher = high + a
  <2>1. env'.atOnce * (edits'[d] + 1) = env'.atOnce * edits'[d] + env'.atOnce
    BY OverlapTypedNext
  <2> QED
    BY <2>1
<1>3. delivered[d] + n + k <= high
  BY DEF Bounded
<1>4. n \in Nat /\ k \in Nat /\ a \in Nat /\ high \in Nat
  BY <1>1
<1> DEFINE nn == Cardinality(Sending(d)')
           kk == Cardinality(Marking(d)')
           lower == env'.atOnce * edits'[d]
<1>5. lower = high /\ nn = n /\ kk = k
  OBVIOUS
<1> HIDE DEF n, k, nn, kk, a, high, lower, higher
<1>6. delivered'[d] + nn <= lower /\ delivered'[d] + nn + kk <= higher
  BY <1>1, <1>2, <1>3, <1>4, <1>5
<1> QED
  BY <1>6 DEF Bounded, nn, kk, lower, higher

\* A task that begins finds fewer at work than may overlap.
LEMMA BusyStep ==
  ASSUME TypeOK, TypeOK', Moves, env' = env, BusyInv
  PROVE  BusyInv'
<1>0. /\ IsFiniteSet(Tasks) /\ IsFiniteSet(Busy) /\ Cardinality(Busy) \in Nat /\ env.atOnce \in Nat
      /\ Cardinality(Busy) <= env.atOnce
  <2>1. IsFiniteSet(Tasks) /\ env.atOnce \in Nat /\ Busy \subseteq Tasks
    BY DeskAssumption DEF TypeOK, WorldOK, Busy
  <2> QED
    BY <2>1, FS_Subset, FS_CardinalityType DEF BusyInv
<1>1. ASSUME Busy' \subseteq Busy PROVE BusyInv'
  <2>1. Cardinality(Busy') <= Cardinality(Busy) /\ Cardinality(Busy') \in Nat
    BY <1>0, <1>1, FS_Subset, FS_CardinalityType
  <2> QED
    BY <1>0, <2>1 DEF BusyInv
<1>2. ASSUME NEW x \in Tasks, pc[x] # "idle", Others(x) PROVE BusyInv'
  BY <1>1, <1>2 DEF Others, Busy
<1>3. ASSUME NEW x \in Tasks, Takes(x), Others(x) PROVE BusyInv'
  <2>1. Cardinality(Busy) < env.atOnce
    BY <1>3 DEF Takes, Busy
  <2>2. Busy' \subseteq Busy \cup {x}
    BY <1>3 DEF Others, Busy
  <2>3. /\ IsFiniteSet(Busy \cup {x}) /\ Cardinality(Busy \cup {x}) \in Nat
        /\ Cardinality(Busy \cup {x}) <= Cardinality(Busy) + 1
    <3> DEFINE c == Cardinality(Busy)
               more == Cardinality(Busy \cup {x})
    <3>1. IsFiniteSet(Busy \cup {x}) /\ more = IF x \in Busy THEN c ELSE c + 1
      BY <1>0, FS_AddElement
    <3>2. more \in Nat /\ c \in Nat
      BY <1>0, <3>1, FS_CardinalityType
    <3> HIDE DEF c, more
    <3>3. more <= c + 1
      BY <3>1, <3>2
    <3> QED
      BY <3>1, <3>2, <3>3 DEF c, more
  <2>4. Cardinality(Busy') <= Cardinality(Busy \cup {x}) /\ Cardinality(Busy') \in Nat
    BY <2>2, <2>3, FS_Subset, FS_CardinalityType
  <2>5. Cardinality(Busy') <= env.atOnce
    BY <1>0, <2>1, <2>3, <2>4
  <2> QED
    BY <2>5 DEF BusyInv
<1>4. ASSUME NEW x \in Tasks, Enters(x) PROVE BusyInv'
  <2>1. CASE pc[x] = "idle" /\ pc'[x] = "idle"
    BY <1>1, <1>4, <2>1 DEF Enters, Others, Busy
  <2> QED
    BY <1>2, <1>3, <1>4, <2>1 DEF Enters
<1>5. ASSUME NEW x \in Tasks, NEW S \in {RowPCs, SessionPCs, PaydayPCs, RolePCs}, Lane(x, S) PROVE BusyInv'
  BY <1>2, <1>5 DEF Lane, RowPCs, SessionPCs, PaydayPCs, RolePCs
<1>6. ASSUME pc' = pc PROVE BusyInv'
  BY <1>1, <1>6 DEF Busy
<1>7. CASE Restart
  BY <1>1, <1>7 DEF Restart, Busy
<1> QED
  BY <1>4, <1>5, <1>6, <1>7 DEF Moves, Arrival

\* The number of tasks that mark and send a row, after the step of one of them.
LEMMA SetsCounted ==
  ASSUME TypeOK, NEW t \in Tasks, Others(t), NEW d \in 1..MaxRows, d = Item(t),
         pc'[t] \in PreSend \cup {"approve_mark"} => Item(t)' = d
  PROVE  /\ pc[t] \in PreSend /\ pc'[t] \in PreSend =>
              Cardinality(Sending(d)') = Cardinality(Sending(d)) /\ Cardinality(Marking(d)') = Cardinality(Marking(d))
         /\ pc[t] \in PreSend /\ pc'[t] \notin PreSend \cup {"approve_mark"} =>
              Cardinality(Sending(d)') = Cardinality(Sending(d)) - 1 /\ Cardinality(Marking(d)') = Cardinality(Marking(d))
         /\ pc[t] = "approve_mark" /\ pc'[t] \in PreSend =>
              /\ Cardinality(Sending(d)') = Cardinality(Sending(d)) + 1
              /\ Cardinality(Marking(d)') = Cardinality(Marking(d)) - 1
<1> DEFINE S == Sending(d)
           M == Marking(d)
<1>1. /\ Sending(d)' = IF pc'[t] \in PreSend THEN S \cup {t} ELSE S \ {t}
      /\ Marking(d)' = IF pc'[t] = "approve_mark" THEN M \cup {t} ELSE M \ {t}
      /\ (t \in S <=> pc[t] \in PreSend) /\ (t \in M <=> pc[t] = "approve_mark")
  BY SetsMoved
<1>2. IsFiniteSet(S) /\ IsFiniteSet(M)
  BY OverlapTyped
<1> HIDE DEF S, M
<1>3. /\ Cardinality(S \cup {t}) = IF t \in S THEN Cardinality(S) ELSE Cardinality(S) + 1
      /\ Cardinality(S \ {t}) = IF t \in S THEN Cardinality(S) - 1 ELSE Cardinality(S)
      /\ Cardinality(M \ {t}) = IF t \in M THEN Cardinality(M) - 1 ELSE Cardinality(M)
  BY <1>2, FS_AddElement, FS_RemoveElement
<1>4. pc'[t] \in PreSend => pc'[t] # "approve_mark"
  BY DEF PreSend
<1>5. pc[t] \in PreSend => pc[t] # "approve_mark"
  BY DEF PreSend
<1> QED
  BY <1>1, <1>3, <1>4, <1>5 DEF S, M

\* APPROVE, REJECT and EDIT by one of the tasks.
LEMMA OverlapDesk ==
  ASSUME TypeOK, TypeOK', ApproveInv, NEW t \in Tasks, Others(t), DeskStep(t), env' = env, OverlapInv, BusyInv'
  PROVE  \A x \in DOMAIN rows' : Bounded(x)'
<1> DEFINE d == Item(t)
<1>0. /\ DOMAIN pc = Tasks /\ DOMAIN job = Tasks /\ (pc[t] \in RowPCs => RowJob(job[t]))
      /\ delivered \in [1..MaxRows -> Nat] /\ edits \in [1..MaxRows -> Nat]
      /\ DOMAIN rows \subseteq 1..MaxRows /\ DOMAIN rows' = DOMAIN rows /\ rows \in Seq(DraftRows)
      /\ \A x \in DOMAIN rows : Bounded(x)
  BY RowIds, DeskRows DEF TypeOK, TasksOK, JobsOK, JobOK, DeskOK, OverlapInv
<1>a. pc[t] \in ApprovePCs \cup {"reject_mark", "edit_mark"} => d \in DOMAIN rows
  BY DEF ApproveInv, ApproveTask
<1>b. job'[t].todo = job[t].todo => Item(t)' = d
  BY DEF Item
<1>c. \A x \in DOMAIN rows : x # d => rows'[x].status = rows[x].status
  BY DeskRows
\* The rows on which the task does not work.
<1>1. ASSUME pc'[t] \in PreSend \cup {"approve_mark"} => Item(t)' = d,
             \A x \in DOMAIN rows : x # d => delivered'[x] = delivered[x] /\ edits'[x] = edits[x],
             NEW x \in DOMAIN rows, x # d
      PROVE  Bounded(x)'
  <2>1. \A y : y # d => Sending(y)' = Sending(y) /\ Marking(y)' = Marking(y)
    <3>1. ASSUME NEW e, e = d PROVE \A y : y # e => Sending(y)' = Sending(y) /\ Marking(y)' = Marking(y)
      <4>1. pc'[t] \in PreSend \cup {"approve_mark"} => Item(t)' = e
        BY <1>1, <3>1
      <4>2. e = Item(t)
        BY <3>1
      <4> HIDE DEF d
      <4> QED
        BY <4>1, <4>2, SetsMoved
    <3> HIDE DEF d
    <3> QED
      BY <3>1
  <2>2. Open(x)' => Open(x)
    BY <1>1, <1>c DEF Open
  <2> HIDE DEF d
  <2> QED
    BY <1>0, <1>1, <2>1, <2>2, BoundedKept
<1>2. ASSUME pc'[t] \in PreSend \cup {"approve_mark"} => Item(t)' = d,
             \A x \in DOMAIN rows : x # d => delivered'[x] = delivered[x] /\ edits'[x] = edits[x],
             \A x \in DOMAIN rows : x = d => Bounded(x)'
      PROVE  \A x \in DOMAIN rows' : Bounded(x)'
  BY <1>0, <1>1, <1>2
<1>3. ASSUME pc[t] \notin PreSend \cup {"approve_mark"}, pc'[t] \notin PreSend \cup {"approve_mark"}, UNCHANGED <<delivered, edits>>,
             \A x \in DOMAIN rows : Open(x)' => Open(x)
      PROVE  \A x \in DOMAIN rows' : Bounded(x)'
  BY <1>0, <1>3, SetsFree, BoundedKept
<1>4. ASSUME NEW s \in {"approved", "sent", "rejected"}, SetStatus(d, s)
      PROVE  \A x \in DOMAIN rows : (x = d => ~Open(x)') /\ (Open(x)' => Open(x))
  <2>1. s \in Statuses
    BY DEF Statuses
  <2> DEFINE g == [rows EXCEPT ![d].status = s]
  <2>2. rows' = g
    BY <1>4 DEF SetStatus
  <2>3. \A x \in DOMAIN rows : g[x].status = IF x = d THEN s ELSE rows[x].status
    <3> HIDE DEF d
    <3> QED
      BY <1>0, <2>1, RowStatus
  <2> HIDE DEF g, d
  <2> QED
    BY <2>2, <2>3 DEF Open
<1>5. CASE ApproveRead(t)
  <2>1. UNCHANGED deskVars /\ pc[t] = "approve" /\ pc'[t] \in {"approve_mark", "approve", "idle"}
    BY <1>0, <1>5 DEF ApproveRead, At, Continue, Finish, FinishItem
  <2>2. CASE pc'[t] = "approve_mark"
    <3>1. Approvable(d) /\ job'[t] = [job[t] EXCEPT !.seen = rows[d]]
      BY <1>0, <1>5, <2>2 DEF ApproveRead, At, Continue, Finish, FinishItem
    <3>2. job'[t].todo = job[t].todo
      BY <1>0, <2>1, <3>1, SeenJob DEF RowPCs
    <3>3. Item(t)' = d
      BY <1>b, <3>2
    <3>4. ASSUME NEW x \in DOMAIN rows, x = d PROVE Bounded(x)'
      <4>1. Open(x)
        BY <3>1, <3>4 DEF Approvable, Open
      <4>2. x = Item(t) /\ (pc'[t] \in PreSend \cup {"approve_mark"} => Item(t)' = x)
        BY <3>3, <3>4
      <4> HIDE DEF d
      <4>3. Sending(x)' = IF pc'[t] \in PreSend THEN Sending(x) \cup {t} ELSE Sending(x) \ {t}
        BY <4>2, SetsMoved
      <4>4. t \in Sending(x) <=> pc[t] \in PreSend
        BY <4>2, SetsMoved
      <4>5. Sending(x)' = Sending(x)
        BY <2>1, <2>2, <4>3, <4>4 DEF PreSend
      <4> QED
        BY <1>0, <2>1, <4>1, <4>5, BoundedRead DEF deskVars
    <3> QED
      BY <1>2, <2>1, <3>3, <3>4 DEF deskVars
  <2>3. CASE pc'[t] # "approve_mark"
    BY <1>3, <2>1, <2>3 DEF deskVars, PreSend, Open
  <2> QED
    BY <2>2, <2>3
<1>6. CASE ApproveMark(t)
  <2>1. /\ pc[t] = "approve_mark" /\ job'[t] = job[t] /\ pc'[t] \in PreSend
        /\ SetStatus(d, "approved") /\ UNCHANGED <<delivered, edits>>
    BY <1>0, <1>6 DEF ApproveMark, At, Goto, PreSend
  <2>2. Item(t)' = d
    BY <1>b, <2>1
  <2>3. ASSUME NEW x \in DOMAIN rows, x = d PROVE Bounded(x)'
    <3>1. ~Open(x)'
      BY <1>4, <2>1, <2>3
    <3>2. x = Item(t) /\ (pc'[t] \in PreSend \cup {"approve_mark"} => Item(t)' = x)
      BY <2>2, <2>3
    <3> HIDE DEF d
    <3>3. x \in 1..MaxRows
      BY <1>0
    <3>4. /\ Cardinality(Sending(x)') = Cardinality(Sending(x)) + 1
          /\ Cardinality(Marking(x)') = Cardinality(Marking(x)) - 1
      BY <2>1, <3>2, <3>3, SetsCounted
    <3>5. delivered[x] \in Nat /\ Cardinality(Sending(x)) \in Nat /\ Cardinality(Marking(x)) \in Nat
      BY <3>3, OverlapTyped
    <3>6. delivered'[x] + Cardinality(Sending(x)') + Cardinality(Marking(x)')
            <= delivered[x] + Cardinality(Sending(x)) + Cardinality(Marking(x))
      <4> DEFINE n == Cardinality(Sending(x))
                 k == Cardinality(Marking(x))
      <4>1. delivered[x] + (n + 1) + (k - 1) <= delivered[x] + n + k
        <5>1. n \in Nat /\ k \in Nat /\ delivered[x] \in Nat
          BY <3>5
        <5> HIDE DEF n, k
        <5> QED
          BY <5>1
      <4> QED
        BY <2>1, <3>4, <4>1
    <3> QED
      BY <1>0, <2>1, <3>1, <3>3, <3>6, BoundedShift
  <2> QED
    BY <1>2, <2>1, <2>2, <2>3
<1>7. CASE AttendanceFind(t) \/ AutoCreateEmployee(t) \/ SaveAttendance(t)
  <2>1. /\ pc[t] \in PreSend /\ pc'[t] \in PreSend
        /\ job'[t] = job[t] /\ UNCHANGED <<rows, delivered, edits>>
    BY <1>0, <1>7 DEF AttendanceFind, AutoCreateEmployee, SaveAttendance, At, Goto, deskVars, PreSend
  <2>2. Item(t)' = d
    BY <1>b, <2>1
  <2>3. ASSUME NEW x \in DOMAIN rows, x = d PROVE Bounded(x)'
    <3>1. x = Item(t) /\ (pc'[t] \in PreSend \cup {"approve_mark"} => Item(t)' = x)
      BY <2>2, <2>3
    <3> HIDE DEF d
    <3>2. x \in 1..MaxRows
      BY <1>0
    <3>3. Cardinality(Sending(x)') = Cardinality(Sending(x)) /\ Cardinality(Marking(x)') = Cardinality(Marking(x))
      BY <2>1, <3>1, <3>2, SetsCounted
    <3>4. delivered[x] \in Nat /\ Cardinality(Sending(x)) \in Nat /\ Cardinality(Marking(x)) \in Nat
      BY <3>2, OverlapTyped
    <3>5. Open(x)' => Open(x)
      BY <2>1 DEF Open
    <3> QED
      BY <1>0, <2>1, <3>2, <3>3, <3>4, <3>5, BoundedShift
  <2> QED
    BY <1>2, <2>1, <2>2, <2>3
<1>8. CASE Send(t)
  <2>1. pc[t] \in PreSend /\ UNCHANGED <<rows, edits>> /\ pc'[t] \notin PreSend \cup {"approve_mark"}
    BY <1>0, <1>8 DEF Send, At, Goto, Continue, Finish, FinishItem, PreSend
  <2>2. delivered' = delivered \/ delivered' = [delivered EXCEPT ![d] = @ + 1]
    BY <1>8 DEF Send, Deliver
  <2>3. \A x \in DOMAIN rows : delivered'[x] = delivered[x] \/ (x = d /\ delivered'[x] = delivered[x] + 1)
    <3> HIDE DEF d
    <3> QED
      BY <1>0, <2>2
  <2>4. ASSUME NEW x \in DOMAIN rows, x = d PROVE Bounded(x)'
    <3>1. x = Item(t)
      BY <2>4
    <3>a. delivered'[x] = delivered[x] \/ delivered'[x] = delivered[x] + 1
      BY <2>3
    <3> HIDE DEF d
    <3>2. x \in 1..MaxRows
      BY <1>0
    <3>3. Cardinality(Sending(x)') = Cardinality(Sending(x)) - 1 /\ Cardinality(Marking(x)') = Cardinality(Marking(x))
      BY <2>1, <3>1, <3>2, SetsCounted
    <3>4. delivered[x] \in Nat /\ Cardinality(Sending(x)) \in Nat /\ Cardinality(Marking(x)) \in Nat
      BY <3>2, OverlapTyped
    <3>5. Open(x)' => Open(x)
      BY <2>1 DEF Open
    <3> DEFINE n == Cardinality(Sending(x))
               k == Cardinality(Marking(x))
    <3>6. delivered'[x] + (n - 1) <= delivered[x] + n /\ delivered'[x] + (n - 1) + k <= delivered[x] + n + k
      <4>1. n \in Nat /\ k \in Nat
        BY <3>4
      <4> HIDE DEF n, k
      <4> QED
        BY <3>a, <3>4, <4>1
    <3>7. /\ delivered'[x] + Cardinality(Sending(x)') <= delivered[x] + Cardinality(Sending(x))
          /\ delivered'[x] + Cardinality(Sending(x)') + Cardinality(Marking(x)')
               <= delivered[x] + Cardinality(Sending(x)) + Cardinality(Marking(x))
      BY <3>3, <3>6
    <3> QED
      BY <1>0, <2>1, <3>2, <3>5, <3>7, BoundedShift
  <2> QED
    BY <1>2, <2>1, <2>3, <2>4
<1>9. CASE MarkSent(t) \/ RejectMark(t)
  <2>1. /\ pc[t] \in {"mark_sent", "reject_mark"} /\ UNCHANGED <<delivered, edits>> /\ pc'[t] \in {"approve", "reject", "idle"}
        /\ SetStatus(d, "sent") \/ SetStatus(d, "rejected") \/ UNCHANGED rows
    BY <1>0, <1>9 DEF MarkSent, RejectMark, At, Continue, Finish, FinishItem
  <2>2. \A x \in DOMAIN rows : Open(x)' => Open(x)
    BY <1>4, <2>1 DEF Open
  <2> QED
    BY <1>3, <2>1, <2>2 DEF PreSend
<1>10. CASE EditMark(t)
  <2>1. /\ pc[t] = "edit_mark" /\ pc'[t] = "remember" /\ delivered' = delivered
        /\ edits' = [edits EXCEPT ![d] = @ + 1] /\ d \in DOMAIN rows
    BY <1>0, <1>10, <1>a DEF EditMark, At, Goto
  <2>2. \A x \in DOMAIN rows : edits'[x] = IF x = d THEN edits[x] + 1 ELSE edits[x]
    <3> HIDE DEF d
    <3> QED
      BY <1>0, <2>1
  <2>3. ASSUME NEW x \in DOMAIN rows, x = d PROVE Bounded(x)'
    <3>1. Sending(x)' = Sending(x) /\ Marking(x)' = Marking(x)
      BY <2>1, SetsFree DEF PreSend
    <3>2. edits'[x] = edits[x] + 1
      BY <2>2, <2>3
    <3> HIDE DEF d
    <3> QED
      BY <1>0, <2>1, <3>1, <3>2, BoundedEdit
  <2> QED
    BY <1>2, <2>1, <2>2, <2>3 DEF PreSend
<1>11. CASE RejectRead(t) \/ EditRead(t) \/ RememberRead(t) \/ RememberWrite(t)
  <2>1. /\ pc[t] \in {"reject", "edit", "remember", "remember_write"} /\ UNCHANGED <<rows, delivered, edits>>
        /\ pc'[t] \in {"reject", "reject_mark", "edit_mark", "remember_write", "idle"}
    BY <1>0, <1>11 DEF RejectRead, EditRead, RememberRead, RememberWrite, At, Goto, Continue, Finish, FinishItem, deskVars
  <2> QED
    BY <1>3, <2>1 DEF PreSend, Open
<1> QED
  BY <1>5, <1>6, <1>7, <1>8, <1>9, <1>10, <1>11 DEF DeskStep

\* The sessions open no row for an approval.
LEMMA OverlapSession ==
  ASSUME TypeOK, TypeOK', SentInv, ApproveInv, NEW t \in Tasks, Others(t), SessionStep(t), env' = env, OverlapInv
  PROVE  \A x \in DOMAIN rows' : Bounded(x)'
<1>0. /\ DOMAIN pc = Tasks /\ DOMAIN job = Tasks /\ DeskOK /\ DOMAIN rows \subseteq 1..MaxRows
      /\ \A x \in DOMAIN rows : Bounded(x)
  BY RowIds DEF TypeOK, TasksOK, OverlapInv
<1>1. pc[t] \notin PreSend \cup {"approve_mark"} /\ pc'[t] \notin PreSend \cup {"approve_mark"} /\ UNCHANGED <<delivered, edits>>
  BY <1>0 DEF SessionStep, CloseStale, CreateSession, VerifyRead, VerifyWrite, BuildDraft,
              At, Goto, Finish, Continue, PreSend, deskVars
<1>2. \A x : Sending(x)' = Sending(x) /\ Marking(x)' = Marking(x)
  BY <1>1, SetsFree
<1>3. ASSUME DOMAIN rows' = DOMAIN rows, \A x \in DOMAIN rows : Open(x)' => Open(x)
      PROVE  \A x \in DOMAIN rows' : Bounded(x)'
  BY <1>0, <1>1, <1>2, <1>3, BoundedKept
<1>4. CASE CloseStale(t)
  BY <1>3, <1>4, ClosedRows DEF Open
<1>5. CASE CreateSession(t)
  <2>1. /\ DOMAIN rows' = DOMAIN rows \cup {Len(rows) + 1} /\ Len(rows) + 1 \notin DOMAIN rows
        /\ Len(rows) + 1 \in 1..MaxRows /\ \A x \in DOMAIN rows : rows'[x] = rows[x]
    BY <1>0, <1>5, CreatedRows, OneMoreRow
  <2>2. ASSUME NEW x \in DOMAIN rows PROVE Bounded(x)'
    <3>1. Open(x)' => Open(x)
      BY <2>1, <2>2 DEF Open
    <3> QED
      BY <1>0, <1>1, <1>2, <3>1, BoundedKept
  <2>3. ASSUME NEW i, i = Len(rows) + 1 PROVE Bounded(i)'
    BY <1>1, <1>2, <2>1, <2>3, BoundedNew
  <2> QED
    BY <2>1, <2>2, <2>3
<1>6. CASE VerifyWrite(t)
  BY <1>3, <1>6, VerifiedRows DEF Open, Steps
<1>7. CASE VerifyRead(t) \/ BuildDraft(t)
  BY <1>3, <1>7 DEF VerifyRead, BuildDraft, deskVars, Open
<1> QED
  BY <1>4, <1>5, <1>6, <1>7 DEF SessionStep

\* Every step keeps the deliveries below what the edits and the overlap allow.
LEMMA OverlapInvStep ==
  ASSUME TypeOK, TypeOK', Moves, env' = env, SentInv, ApproveInv, OverlapInv
  PROVE  OverlapInv'
<1>0. /\ BusyInv /\ BusyInv' /\ DeskOK /\ DOMAIN rows \subseteq 1..MaxRows
      /\ \A x \in DOMAIN rows : Bounded(x)
  BY BusyStep, RowIds DEF OverlapInv, TypeOK
<1> SUFFICES \A x \in DOMAIN rows' : Bounded(x)'
  BY <1>0 DEF OverlapInv
<1> DEFINE Goal == \A x \in DOMAIN rows' : Bounded(x)'
<1>1. ASSUME UNCHANGED deskVars, \A x : Sending(x)' = Sending(x) /\ Marking(x)' = Marking(x) PROVE Goal
  BY <1>0, <1>1, BoundedKept DEF Open, deskVars
<1>2. ASSUME NEW t \in Tasks, NEW S \in {PaydayPCs, RolePCs}, Lane(t, S), UNCHANGED deskVars PROVE Goal
  <2>1. Others(t) /\ pc[t] \notin PreSend \cup {"approve_mark"} /\ pc'[t] \notin PreSend \cup {"approve_mark"}
    BY <1>2 DEF Lane, PaydayPCs, RolePCs, PreSend
  <2> QED
    BY <1>1, <1>2, <2>1, SetsFree
<1>3. ASSUME NEW t \in Tasks, Enters(t), UNCHANGED deskVars PROVE Goal
  <2>1. Others(t) /\ pc[t] \notin PreSend \cup {"approve_mark"} /\ pc'[t] \notin PreSend \cup {"approve_mark"}
    BY <1>3 DEF Enters, CheckPCs, OfficePCs, FirstPCs, PreSend
  <2> QED
    BY <1>1, <1>3, <2>1, SetsFree
<1>4. ASSUME UNCHANGED <<pc, job>> PROVE \A x : Sending(x)' = Sending(x) /\ Marking(x)' = Marking(x)
  BY <1>4 DEF Sending, Marking, Item
<1>5. ASSUME Arrive, UNCHANGED <<pc, job>> PROVE Goal
  <2>1. UNCHANGED <<delivered, edits>> /\ Len(rows) < MaxRows
    BY <1>5, ArrivalRow
  <2>2. PICK r : ArrivedRow(r) /\ rows' = Append(rows, r)
    BY <1>5, ArrivalRow
  <2>3. /\ DOMAIN rows' = DOMAIN rows \cup {Len(rows) + 1} /\ Len(rows) + 1 \notin DOMAIN rows
        /\ Len(rows) + 1 \in 1..MaxRows /\ \A x \in DOMAIN rows : rows'[x] = rows[x]
    BY <1>0, <2>1, <2>2, OneMoreRow DEF ArrivedRow
  <2>4. ASSUME NEW x \in DOMAIN rows PROVE Bounded(x)'
    <3>1. Open(x)' => Open(x)
      BY <2>3, <2>4 DEF Open
    <3> QED
      BY <1>0, <1>4, <1>5, <2>1, <3>1, BoundedKept
  <2>5. ASSUME NEW i, i = Len(rows) + 1 PROVE Bounded(i)'
    BY <1>4, <1>5, <2>1, <2>3, <2>5, BoundedNew
  <2> QED
    BY <2>3, <2>4, <2>5
<1>6. ASSUME Restart PROVE Goal
  <2>1. UNCHANGED deskVars /\ \A u \in Tasks : pc'[u] = "idle"
    BY <1>6 DEF Restart
  <2>2. ASSUME NEW x \in DOMAIN rows PROVE Bounded(x)'
    <3>1. Sending(x)' = {} /\ Marking(x)' = {}
      BY <2>1 DEF Sending, Marking, PreSend
    <3>2. Cardinality(Sending(x)') = 0 /\ Cardinality(Marking(x)') = 0
      BY <3>1, FS_EmptySet
    <3>3. /\ delivered[x] \in Nat /\ Cardinality(Sending(x)) \in Nat /\ Cardinality(Marking(x)) \in Nat
          /\ x \in 1..MaxRows
      BY <1>0, OverlapTyped
    <3> DEFINE n == Cardinality(Sending(x))
               k == Cardinality(Marking(x))
    <3>4. delivered[x] + 0 <= delivered[x] + n /\ delivered[x] + 0 + 0 <= delivered[x] + n + k
      <4>1. n \in Nat /\ k \in Nat
        BY <3>3
      <4> HIDE DEF n, k
      <4> QED
        BY <3>3, <4>1
    <3>5. Open(x)' => Open(x)
      BY <2>1 DEF Open, deskVars
    <3>6. delivered'[x] = delivered[x] /\ edits'[x] = edits[x] /\ Bounded(x)
      BY <1>0, <2>1 DEF deskVars
    <3>7. /\ delivered'[x] + Cardinality(Sending(x)') <= delivered[x] + Cardinality(Sending(x))
          /\ delivered'[x] + Cardinality(Sending(x)') + Cardinality(Marking(x)')
               <= delivered[x] + Cardinality(Sending(x)) + Cardinality(Marking(x))
      BY <3>2, <3>4, <3>6
    <3> QED
      BY <3>3, <3>5, <3>6, <3>7, BoundedShift
  <2> QED
    BY <2>1, <2>2 DEF deskVars
<1>7. ASSUME NEW t \in Tasks, DeskStep(t), Lane(t, RowPCs) PROVE Goal
  BY <1>0, <1>7, OverlapDesk DEF Lane
<1>8. ASSUME NEW t \in Tasks, SessionStep(t), Lane(t, SessionPCs) PROVE Goal
  BY <1>0, <1>8, OverlapSession DEF Lane
<1>9. ASSUME UNCHANGED <<pc, job, deskVars>> PROVE Goal
  BY <1>1, <1>4, <1>9
<1>10. Goal
  <2> HIDE DEF Goal
  <2> QED
    BY <1>2, <1>3, <1>5, <1>6, <1>7, <1>8, <1>9 DEF Moves, Arrival
<1> QED
  BY <1>10

\* The invariants of the desk give the property.
LEMMA SentFollows == TypeOK /\ SentInv /\ FreshInv /\ OverlapInv => SentAsApproved
<1> SUFFICES ASSUME TypeOK, SentInv, FreshInv, OverlapInv, NEW d \in DOMAIN rows
             PROVE  /\ rows[d].status = "sent" => delivered[d] > 0
                    /\ rows[d].kind = "attendance" /\ rows[d].named /\ rows[d].status = "sent" /\ d \notin unsaved
                         => attendance[rows[d].who] # 0 /\ staff[rows[d].who] > 0
                    /\ delivered[d] <= env.atOnce * (edits[d] + 1)
                    /\ rows[d].status \in {"pending", "edited"} => delivered[d] <= env.atOnce * edits[d]
                    /\ Calm /\ restarts = 0 /\ d \notin unheard /\ rows[d].status \notin {"approved", "sent"}
                         => delivered[d] <= edits[d]
  BY DEF SentAsApproved
<1>1. rows[d].status = "sent" => delivered[d] > 0
  BY DEF SentInv
<1>2. rows[d].kind = "attendance" /\ rows[d].named /\ rows[d].status = "sent" /\ d \notin unsaved
        => attendance[rows[d].who] # 0 /\ staff[rows[d].who] > 0
  BY DEF SentInv, Attends, Recorded
<1>3. Calm => FreshRow(d)
  BY DEF FreshInv
<1>4. Calm /\ restarts = 0 /\ d \notin unheard /\ rows[d].status \notin {"approved", "sent"} => delivered[d] <= edits[d]
  BY <1>3 DEF FreshRow, Fresh, Told
<1>5. /\ delivered[d] <= env.atOnce * (edits[d] + 1)
      /\ Open(d) => delivered[d] <= env.atOnce * edits[d]
  <2>1. Bounded(d) /\ d \in 1..MaxRows
    BY RowIds DEF OverlapInv, TypeOK
  <2>2. /\ Cardinality(Sending(d)) \in Nat /\ Cardinality(Marking(d)) \in Nat
        /\ delivered[d] \in Nat /\ edits[d] \in Nat /\ env.atOnce \in Nat
        /\ env.atOnce * edits[d] \in Nat /\ env.atOnce * (edits[d] + 1) \in Nat
    BY <2>1, OverlapTyped
  <2> DEFINE n == Cardinality(Sending(d))
             k == Cardinality(Marking(d))
             low == env.atOnce * edits[d]
             high == env.atOnce * (edits[d] + 1)
  <2>3. (Open(d) => delivered[d] + n <= low) /\ delivered[d] + n + k <= high
    BY <2>1 DEF Bounded
  <2>4. n \in Nat /\ k \in Nat /\ low \in Nat /\ high \in Nat
    BY <2>2
  <2> HIDE DEF n, k, low, high
  <2>5. delivered[d] <= high /\ (Open(d) => delivered[d] <= low)
    BY <2>2, <2>3, <2>4
  <2> QED
    BY <2>5 DEF low, high
<1> QED
  BY <1>1, <1>2, <1>4, <1>5 DEF Open

-----------------------------------------------------------------------------
(* Sums over finite sets, as the library defines them *)

\* SumFunctionOnSet takes the elements out in the order One gives them.
One(s) == CHOOSE x \in s : TRUE
Unfolds(g, f, F) ==
  g = [s \in F |-> IF s = {} THEN 0 ELSE f[One(s)] + g[s \ {One(s)}]]

\* The library's sum is the unfolding of its definition.
LEMMA SumDef ==
  ASSUME NEW f, NEW S
  PROVE  SumFunctionOnSet(f, S) = (CHOOSE g : Unfolds(g, f, SUBSET S))[S]
BY DEF SumFunctionOnSet, FoldFunctionOnSet, MapThenFoldSet, Unfolds, One

\* The chosen element is one.
LEMMA OneIn ==
  ASSUME NEW s, s # {}
  PROVE  One(s) \in s
BY DEF One

\* A nonempty collection of finite sets has one none of whose proper subsets is in it.
LEMMA SmallestSet ==
  ASSUME NEW P, P # {}, \A s \in P : IsFiniteSet(s)
  PROVE  \E s \in P : \A t \in SUBSET s : t # s => t \notin P
<1> DEFINE sizes == {Cardinality(s) : s \in P}
           less == OpToRel(<, Nat)
<1>1. sizes \subseteq Nat /\ sizes # {}
  BY FS_CardinalityType
<1>2. IsWellFoundedOn(less, Nat)
  BY NatLessThanWellFounded, Zenon
<1> HIDE DEF less
<1>5. \E n \in sizes : \A k \in sizes : ~(<<k, n>> \in less)
  <2> HIDE DEF sizes
  <2> QED
    BY <1>1, <1>2, WFMin, Zenon
<1>6. PICK n \in sizes : \A k \in sizes : ~(<<k, n>> \in less)
  BY <1>5
<1>3. PICK s \in P : n = Cardinality(s)
  OBVIOUS
<1>4. \A t \in P : ~(Cardinality(t) < Cardinality(s))
  BY <1>1, <1>6, <1>3 DEF less, OpToRel
<1>7. ASSUME NEW t \in SUBSET s, t # s, t \in P
      PROVE  FALSE
  <2>1. IsFiniteSet(s) /\ IsFiniteSet(t)
    BY <1>7
  <2>2. Cardinality(t) < Cardinality(s)
    BY <2>1, <1>7, FS_Subset, FS_CardinalityType
  <2> QED
    BY <2>2, <1>4, <1>7
<1> QED
  BY <1>7

\* Two unfoldings agree on the finite sets both cover.
LEMMA UnfoldsOnce ==
  ASSUME NEW f, NEW S, NEW T, NEW g, NEW h,
         Unfolds(g, f, SUBSET S), Unfolds(h, f, SUBSET T),
         NEW s, s \subseteq S, s \subseteq T, IsFiniteSet(s)
  PROVE  g[s] = h[s]
<1> DEFINE P == {t \in SUBSET s : g[t] # h[t]}
<1> SUFFICES ASSUME P # {} PROVE FALSE
  OBVIOUS
<1>1. \A t \in P : IsFiniteSet(t)
  BY FS_Subset
<1>2. PICK t \in P : \A u \in SUBSET t : u # t => u \notin P
  <2> HIDE DEF P
  <2> QED
    BY <1>1, SmallestSet
<1>3. /\ g[t] = IF t = {} THEN 0 ELSE f[One(t)] + g[t \ {One(t)}]
      /\ h[t] = IF t = {} THEN 0 ELSE f[One(t)] + h[t \ {One(t)}]
  <2>1. t \in SUBSET S /\ t \in SUBSET T
    OBVIOUS
  <2> QED
    BY <2>1 DEF Unfolds
<1>4. t # {} => g[t \ {One(t)}] = h[t \ {One(t)}]
  BY <1>2, OneIn
<1> QED
  BY <1>3, <1>4

\* The sum over a finite set unfolds.
LEMMA SumUnfolds ==
  ASSUME NEW f, NEW S, IsFiniteSet(S)
  PROVE  \E g : Unfolds(g, f, SUBSET S)
<1> DEFINE P == {t \in SUBSET S : ~\E g : Unfolds(g, f, SUBSET t)}
<1> SUFFICES ASSUME P # {} PROVE FALSE
  OBVIOUS
<1>1. \A t \in P : IsFiniteSet(t)
  BY FS_Subset
<1>2. PICK t \in P : \A u \in SUBSET t : u # t => u \notin P
  <2> HIDE DEF P
  <2> QED
    BY <1>1, SmallestSet
<1> DEFINE G(u) == CHOOSE g : Unfolds(g, f, SUBSET u)
           h == [u \in SUBSET t |-> IF u = {} THEN 0 ELSE f[One(u)] + G(u \ {One(u)})[u \ {One(u)}]]
<1>3. ASSUME NEW u \in SUBSET t, u # t
      PROVE  Unfolds(G(u), f, SUBSET u)
  <2>1. \E g : Unfolds(g, f, SUBSET u)
    BY <1>2, <1>3
  <2> QED
    BY <2>1
<1>4. ASSUME NEW u \in SUBSET t, u # t
      PROVE  h[u] = G(u)[u]
  <2>1. G(u)[u] = IF u = {} THEN 0 ELSE f[One(u)] + G(u)[u \ {One(u)}]
    <3>1. Unfolds(G(u), f, SUBSET u)
      BY <1>3, <1>4
    <3> HIDE DEF G
    <3> QED
      BY <3>1 DEF Unfolds
  <2>2. u # {} => G(u)[u \ {One(u)}] = G(u \ {One(u)})[u \ {One(u)}]
    <3> SUFFICES ASSUME u # {} PROVE G(u)[u \ {One(u)}] = G(u \ {One(u)})[u \ {One(u)}]
      OBVIOUS
    <3> DEFINE v == u \ {One(u)}
    <3>1. v \in SUBSET u /\ v \in SUBSET t /\ v # t /\ IsFiniteSet(v)
      <4>1. IsFiniteSet(t)
        BY <1>1
      <4> QED
        BY <4>1, OneIn, FS_Subset, <1>4
    <3>2. Unfolds(G(u), f, SUBSET u) /\ Unfolds(G(v), f, SUBSET v)
      BY <1>3, <1>4, <3>1
    <3> HIDE DEF G, v
    <3>3. G(u)[v] = G(v)[v]
      BY <3>1, <3>2, UnfoldsOnce
    <3> QED
      BY <3>3 DEF v
  <2> HIDE DEF G
  <2> QED
    BY <2>1, <2>2
<1>5. Unfolds(h, f, SUBSET t)
  <2> SUFFICES ASSUME NEW u \in SUBSET t
               PROVE  (IF u = {} THEN 0 ELSE f[One(u)] + G(u \ {One(u)})[u \ {One(u)}])
                        = IF u = {} THEN 0 ELSE f[One(u)] + h[u \ {One(u)}]
    <3> HIDE DEF G
    <3> QED
      BY DEF Unfolds
  <2>1. u # {} => h[u \ {One(u)}] = G(u \ {One(u)})[u \ {One(u)}]
    <3> SUFFICES ASSUME u # {} PROVE h[u \ {One(u)}] = G(u \ {One(u)})[u \ {One(u)}]
      OBVIOUS
    <3>1. u \ {One(u)} \in SUBSET t /\ u \ {One(u)} # t
      BY OneIn
    <3> HIDE DEF h, G
    <3> QED
      BY <3>1, <1>4
  <2> HIDE DEF h, G
  <2> QED
    BY <2>1
<1> HIDE DEF h
<1> QED
  BY <1>5

\* Nothing sums up to 0.
LEMMA SumOfNone ==
  ASSUME NEW f
  PROVE  SumFunctionOnSet(f, {}) = 0
<1> DEFINE g == CHOOSE g : Unfolds(g, f, SUBSET {})
<1>1. Unfolds(g, f, SUBSET {})
  BY SumUnfolds, FS_EmptySet
<1>2. SumFunctionOnSet(f, {}) = g[{}]
  BY SumDef
<1> HIDE DEF g
<1> QED
  BY <1>1, <1>2 DEF Unfolds

\* A sum is the value of the chosen element and the sum of the others.
LEMMA SumOfSome ==
  ASSUME NEW f, NEW S, IsFiniteSet(S), S # {}
  PROVE  SumFunctionOnSet(f, S) = f[One(S)] + SumFunctionOnSet(f, S \ {One(S)})
<1> DEFINE G(u) == CHOOSE g : Unfolds(g, f, SUBSET u)
           v == S \ {One(S)}
<1>1. v \in SUBSET S /\ IsFiniteSet(v)
  BY FS_Subset
<1>2. Unfolds(G(S), f, SUBSET S) /\ Unfolds(G(v), f, SUBSET v)
  BY SumUnfolds, <1>1
<1>3. SumFunctionOnSet(f, S) = G(S)[S] /\ SumFunctionOnSet(f, v) = G(v)[v]
  BY SumDef
<1> HIDE DEF G
<1>4. G(S)[S] = f[One(S)] + G(S)[v]
  BY <1>2 DEF Unfolds
<1> HIDE DEF v
<1>5. G(S)[v] = G(v)[v]
  BY <1>1, <1>2, UnfoldsOnce
<1> QED
  BY <1>3, <1>4, <1>5 DEF v

\* A sum of integers is an integer, and any one element can be taken out.
LEMMA SumWithout ==
  ASSUME NEW f, NEW S, IsFiniteSet(S), \A x \in S : f[x] \in Int
  PROVE  /\ SumFunctionOnSet(f, S) \in Int
         /\ \A x \in S : SumFunctionOnSet(f, S) = f[x] + SumFunctionOnSet(f, S \ {x})
<1> DEFINE Sum(u) == SumFunctionOnSet(f, u)
           Splits(u) == Sum(u) \in Int /\ \A x \in u : Sum(u) = f[x] + Sum(u \ {x})
           P == {t \in SUBSET S : ~Splits(t)}
<1> SUFFICES ASSUME P # {} PROVE FALSE
  OBVIOUS
<1>1. \A t \in P : IsFiniteSet(t)
  BY FS_Subset
<1>2. PICK t \in P : \A u \in SUBSET t : u # t => u \notin P
  <2> HIDE DEF P
  <2> QED
    BY <1>1, SmallestSet
<1>3. t # {}
  <2> SUFFICES ASSUME t = {} PROVE FALSE
    OBVIOUS
  <2>1. Sum({}) = 0
    BY SumOfNone
  <2>2. ~Splits({})
    <3> HIDE DEF Splits
    <3> QED OBVIOUS
  <2> HIDE DEF Sum
  <2> QED
    BY <2>1, <2>2
<1> DEFINE o == One(t)
<1>4. o \in t
  BY <1>3, OneIn
<1>5. Sum(t) = f[o] + Sum(t \ {o})
  BY <1>1, <1>3, SumOfSome
<1>6. \A u \in SUBSET t : u # t => Splits(u)
  <2> HIDE DEF Splits
  <2> QED
    BY <1>2
<1> HIDE DEF Sum, o
<1>7. Splits(t \ {o})
  <2> HIDE DEF Splits
  <2> QED
    BY <1>4, <1>6
<1>8. ASSUME NEW x \in t, x # o
      PROVE  Sum(t) = f[x] + Sum(t \ {x})
  <2>1. Splits(t \ {x})
    <3> HIDE DEF Splits
    <3> QED
      BY <1>6
  <2>2. Sum(t \ {o}) = f[x] + Sum((t \ {o}) \ {x})
    BY <1>7, <1>8
  <2>3. Sum(t \ {x}) = f[o] + Sum((t \ {x}) \ {o})
    BY <2>1, <1>4, <1>8
  <2>4. (t \ {o}) \ {x} = (t \ {x}) \ {o}
    OBVIOUS
  <2>5. Sum((t \ {o}) \ {x}) \in Int
    <3>1. (t \ {o}) \ {x} \in SUBSET t /\ (t \ {o}) \ {x} # t
      BY <1>4
    <3>2. Splits((t \ {o}) \ {x})
      <4> HIDE DEF Splits
      <4> QED
        BY <3>1, <1>6
    <3> QED
      BY <3>2
  <2>6. f[o] \in Int /\ f[x] \in Int
    BY <1>4
  <2> DEFINE rest == Sum((t \ {o}) \ {x})
  <2>7. /\ Sum(t \ {o}) = f[x] + rest
        /\ Sum(t \ {x}) = f[o] + rest
        /\ rest \in Int
    BY <2>2, <2>3, <2>4, <2>5, Zenon
  <2> HIDE DEF Splits, rest, P
  <2> QED
    BY <1>5, <2>6, <2>7
<1>9. Splits(t)
  <2>1. f[o] \in Int
    BY <1>4
  <2> QED
    BY <1>5, <1>7, <1>8, <2>1
<1> HIDE DEF Splits
<1> QED
  BY <1>9

\* A sum depends on the values of its own elements only.
LEMMA SumOfEquals ==
  ASSUME NEW f, NEW g, NEW S, IsFiniteSet(S), \A x \in S : f[x] = g[x]
  PROVE  SumFunctionOnSet(f, S) = SumFunctionOnSet(g, S)
<1> DEFINE P == {t \in SUBSET S : SumFunctionOnSet(f, t) # SumFunctionOnSet(g, t)}
<1> SUFFICES ASSUME P # {} PROVE FALSE
  OBVIOUS
<1>1. \A t \in P : IsFiniteSet(t)
  BY FS_Subset
<1>2. PICK t \in P : \A u \in SUBSET t : u # t => u \notin P
  <2> HIDE DEF P
  <2> QED
    BY <1>1, SmallestSet
<1>3. CASE t = {}
  BY <1>3, SumOfNone
<1>4. CASE t # {}
  <2>1. One(t) \in t
    BY <1>4, OneIn
  <2>2. SumFunctionOnSet(f, t \ {One(t)}) = SumFunctionOnSet(g, t \ {One(t)})
    BY <1>2, <2>1
  <2>3. f[One(t)] = g[One(t)]
    BY <2>1
  <2> QED
    BY <1>1, <1>4, <2>2, <2>3, SumOfSome
<1> QED
  BY <1>3, <1>4

\* Zeros sum up to 0.
LEMMA SumOfZeros ==
  ASSUME NEW f, NEW S, IsFiniteSet(S), \A x \in S : f[x] = 0
  PROVE  SumFunctionOnSet(f, S) = 0
<1> DEFINE P == {t \in SUBSET S : SumFunctionOnSet(f, t) # 0}
<1> SUFFICES ASSUME P # {} PROVE FALSE
  OBVIOUS
<1>1. \A t \in P : IsFiniteSet(t)
  BY FS_Subset
<1>2. PICK t \in P : \A u \in SUBSET t : u # t => u \notin P
  <2> HIDE DEF P
  <2> QED
    BY <1>1, SmallestSet
<1>3. t # {}
  BY SumOfNone
<1>4. One(t) \in t
  BY <1>3, OneIn
<1>5. SumFunctionOnSet(f, t \ {One(t)}) = 0
  BY <1>2, <1>4
<1>6. f[One(t)] = 0
  BY <1>4
<1> QED
  BY <1>1, <1>3, <1>5, <1>6, SumOfSome

-----------------------------------------------------------------------------
(* The back office *)

Entries == [account : 1..MaxEntries, now : Bodies, deleted : BOOLEAN]
LedgerItems == [account : 1..MaxEntries, month : Months, category : {"salary", "advance"}, by : Int]
AddJobs == [op : {"add"}, payee : Payees, body : Bodies, account : 0..MaxEntries]
ChangeJobs == [entry : Nat, seen : Entries, body : Bodies]
AdjustJobs == [entry : Nat, todo : Seq(LedgerItems)]

OfficeJob(l, j) ==
  /\ l \in {"resolve", "create_account", "add_insert"} => j \in AddJobs
  /\ l = "add_insert" => j.account \in 1..MaxEntries
  /\ l \in {"change", "remove"} => j \in ChangeJobs
  /\ l = "adjust" => j \in AdjustJobs /\ Len(j.todo) \in {1, 2}
  /\ l \in {"change", "remove", "adjust"} => j.entry \in DOMAIN entries

OfficeOK ==
  /\ accounts \in Seq(Payees) /\ Len(accounts) <= MaxEntries
  /\ entries \in Seq(Entries) /\ Len(entries) <= MaxEntries
  /\ ledger \in [1..MaxEntries -> [Months -> [Buckets -> Int]]]
  /\ \A t \in Tasks : OfficeJob(pc[t], job[t])

\* What a statement, the rest of a request and all requests have yet to do to a
\* month of the ledger; and what the transactions come to.
ItemFor(x, a, m) == IF x.account = a /\ x.month = m THEN x.by ELSE 0
ListFor(s, a, m) == ItemFor(s[1], a, m) + (IF Len(s) = 2 THEN ItemFor(s[2], a, m) ELSE 0)
Owed(t, a, m) == IF pc[t] = "adjust" THEN ListFor(job[t].todo, a, m) ELSE 0
OwedTo(a, m) == [t \in Tasks |-> Owed(t, a, m)]
EntryFor(e, a, m) == IF e.account = a /\ e.now.month = m /\ ~e.deleted THEN e.now.amount ELSE 0
EntriesFor(a, m) == [i \in DOMAIN entries |-> EntryFor(entries[i], a, m)]
PaidUp(a, m) ==
  ledger[a][m].total_paid + ledger[a][m].total_advance + SumFunction(OwedTo(a, m))
    = SumFunction(EntriesFor(a, m))

ChangeKnows(t) ==
  pc[t] \in {"change", "remove"} => job[t].seen = entries[job[t].entry] /\ ~job[t].seen.deleted
OneToARow(t, u) == Working(t, job[t].entry) /\ Working(u, job[t].entry) => t = u

\* Who works on a row knows it, and works on it alone.
RowsKnown == (\A t \in Tasks : ChangeKnows(t)) /\ \A t, u \in Tasks : OneToARow(t, u)

OfficeInv ==
  /\ OfficeOK
  /\ ~clashed /\ restarts = 0 => RowsKnown /\ \A a \in 1..MaxEntries, m \in Months : PaidUp(a, m)

-----------------------------------------------------------------------------
(* Steps of the back office, and the others *)

\* A step that does not concern the back office: its tables stay, no task enters
\* or leaves its positions, or all were ended by a restart.
OfficeRests ==
  /\ UNCHANGED officeVars
  /\ \/ /\ restarts' = restarts
        /\ \A u \in Tasks : \/ pc'[u] = pc[u] /\ job'[u] = job[u]
                            \/ pc[u] \notin OfficePCs /\ pc'[u] \notin OfficePCs
     \/ restarts' # 0 /\ \A u \in Tasks : pc'[u] = "idle"

\* Every step is a step of the back office or leaves it alone.
LEMMA OfficeOrNot ==
  ASSUME TypeOK, [Next]_vars
  PROVE  (\E t \in Tasks : OfficeStep(t) /\ Others(t) /\ restarts' = restarts) \/ OfficeRests
<1>0. TasksOK /\ JobsOK /\ restarts \in Nat
  BY DEF TypeOK, WorldOK
<1>1. ASSUME UNCHANGED <<pc, job, restarts>>, UNCHANGED officeVars PROVE OfficeRests
  BY <1>1 DEF OfficeRests
<1>2. ASSUME NEW t \in Tasks, Others(t), pc[t] \notin OfficePCs, pc'[t] \notin OfficePCs,
             UNCHANGED officeVars, restarts' = restarts
      PROVE  OfficeRests
  BY <1>2 DEF OfficeRests, Others
<1>3. ASSUME NEW t \in Tasks, NEW S \in {RowPCs, SessionPCs, PaydayPCs, RolePCs}, Lane(t, S)
      PROVE  Others(t) /\ pc[t] \notin OfficePCs /\ pc'[t] \notin OfficePCs
  BY <1>3 DEF Lane, OfficePCs, RowPCs, SessionPCs, PaydayPCs, RolePCs
<1>4. ASSUME NEW t \in Tasks, DeskStep(t) \/ SessionStep(t) \/ PaydayStep(t) \/ RolesStep(t),
             UNCHANGED officeVars, restarts' = restarts
      PROVE  OfficeRests
  <2>1. \E S \in {RowPCs, SessionPCs, PaydayPCs, RolePCs} : Lane(t, S)
    BY <1>0, <1>4, RowLane, SessionLane, PaydayLane, RoleLane
  <2> QED
    BY <1>2, <1>3, <1>4, <2>1
<1>5. ASSUME NEW t \in Tasks, CheckActor(t) \/ CheckLevel(t) \/ CheckFails(t)
      PROVE  Others(t) /\ pc[t] \notin OfficePCs /\ pc'[t] \notin OfficePCs
  <2>1. Others(t)
    BY <1>0, <1>5, CheckEnters DEF Enters
  <2>2. pc[t] \in CheckPCs => Entry(job[t].op) \notin OfficePCs
    BY <1>0 DEF JobsOK, JobOK, TextJob, Entry, OfficePCs
  <2>3. pc[t] \in CheckPCs
    BY <1>5 DEF CheckActor, CheckLevel, CheckFails, At, CheckPCs
  <2>4. pc'[t] \in {"idle", "check_level", Entry(job[t].op)}
    BY <1>0, <1>5 DEF CheckActor, CheckLevel, CheckFails, Goto, Finish, Continue, TasksOK
  <2> QED
    BY <2>1, <2>2, <2>3, <2>4 DEF OfficePCs, CheckPCs
<1>6. ASSUME NEW t \in Tasks,
             \/ Request(t)
             \/ \E w \in env.writers, m \in Messages : RouteEmployee(t, w, m)
             \/ \E op \in UserRoutes, p \in Phones, role \in {"operator", "superadmin"} : UserRoute(t, op, p, role)
             \/ \E p \in env.admins, text \in env.texts : ReceiveCommand(t, p, text)
      PROVE  Others(t) /\ pc[t] \notin OfficePCs /\ pc'[t] \notin OfficePCs
  <2>1. Others(t)
    BY <1>0, <1>6, RequestEnters DEF Enters
  <2> USE DEF OfficePCs, Begin, Takes, TasksOK
  <2>2. ASSUME NEW S, StartCompute(t, S) PROVE pc[t] = "idle" /\ pc'[t] \notin OfficePCs
    BY <1>0, <2>2 DEF StartCompute
  <2>3. ASSUME DailyPayroll(t) PROVE pc[t] = "idle" /\ pc'[t] \notin OfficePCs
    BY <1>0, <2>3 DEF DailyPayroll
  <2>4. ASSUME NEW i, NEW to, NEW ref, StartTransition(t, i, to, ref) PROVE pc[t] = "idle" /\ pc'[t] \notin OfficePCs
    BY <1>0, <2>4 DEF StartTransition
  <2>5. ASSUME NEW p, StartImport(t, p) PROVE pc[t] = "idle" /\ pc'[t] \notin OfficePCs
    BY <1>0, <2>5 DEF StartImport
  <2>6. Request(t) => pc[t] = "idle" /\ pc'[t] \notin OfficePCs
    BY <2>2, <2>3, <2>4, <2>5 DEF Request
  <2>7. ASSUME NEW w, NEW m, RouteEmployee(t, w, m) PROVE pc[t] = "idle" /\ pc'[t] \notin OfficePCs
    BY <1>0, <2>7 DEF RouteEmployee
  <2>8. ASSUME NEW op \in UserRoutes, NEW p, NEW role, UserRoute(t, op, p, role) PROVE pc[t] = "idle" /\ pc'[t] \notin OfficePCs
    BY <1>0, <2>8 DEF UserRoute, UserRoutes
  <2>9. ASSUME NEW p, NEW text, ReceiveCommand(t, p, text) PROVE pc[t] = "idle" /\ pc'[t] \notin OfficePCs
    BY <1>0, <2>9 DEF ReceiveCommand
  <2> QED
    BY <1>6, <2>1, <2>6, <2>7, <2>8, <2>9
<1>7. ASSUME NEW t \in Tasks, OfficeStep(t), UNCHANGED <<deskVars, sessionVars, paydayVars, users, recent, restarts>>
      PROVE  OfficeStep(t) /\ Others(t) /\ restarts' = restarts
  BY <1>0, <1>7, OfficeEnters DEF Enters
<1>8. CASE Restart
  BY <1>0, <1>8 DEF Restart, OfficeRests
<1>9. CASE UNCHANGED vars \/ DedupExpires
  BY <1>1, <1>9 DEF vars, DedupExpires, taskVars
<1>10. ASSUME NEW t \in Tasks, NEW p \in env.admins, NEW text \in env.texts, ReceiveCommand(t, p, text)
       PROVE  OfficeRests
  <2>1. UNCHANGED officeVars /\ restarts' = restarts
    BY <1>10 DEF ReceiveCommand
  <2> QED
    BY <1>2, <1>6, <1>10, <2>1
<1>11. ASSUME UNCHANGED <<officeVars, recent, restarts>>,
              \/ Arrive /\ UNCHANGED <<taskVars, sessionVars, paydayVars, users>>
              \/ NextDay /\ UNCHANGED <<taskVars, deskVars, sessionVars, users>>
       PROVE  OfficeRests
  BY <1>1, <1>11 DEF taskVars
<1>12. ASSUME NEW t \in Tasks, UNCHANGED <<officeVars, recent, restarts>>,
              \/ \E w \in env.writers, m \in Messages : RouteEmployee(t, w, m)
              \/ Request(t)
              \/ \E op \in UserRoutes, p \in Phones, role \in {"operator", "superadmin"} : UserRoute(t, op, p, role)
              \/ CheckActor(t) \/ CheckLevel(t) \/ CheckFails(t)
       PROVE  OfficeRests
  <2>1. UNCHANGED officeVars /\ restarts' = restarts
    BY <1>12
  <2>2. Others(t) /\ pc[t] \notin OfficePCs /\ pc'[t] \notin OfficePCs
    BY <1>5, <1>6, <1>12
  <2> QED
    BY <1>2, <2>1, <2>2
<1>13. ASSUME NEW t \in Tasks, UNCHANGED <<officeVars, recent, restarts>>,
              DeskStep(t) \/ SessionStep(t) \/ PaydayStep(t) \/ RolesStep(t)
       PROVE  OfficeRests
  BY <1>4, <1>13
<1> QED
  BY <1>7, <1>8, <1>9, <1>10, <1>11, <1>12, <1>13 DEF Next

-----------------------------------------------------------------------------
(* Types of the back office *)

\* What a request does to the ledger is one statement per item.
LEMMA MoveTyped ==
  ASSUME NEW account \in 1..MaxEntries, NEW e \in Bodies, NEW sign \in {-1, 1}
  PROVE  Move(account, e, sign) \in LedgerItems /\ e.amount \in Int /\ e.month \in Months
BY DEF Move, LedgerItems, Bodies

\* The rows of the tables, by their ids.
LEMMA OfficeRows ==
  ASSUME OfficeOK
  PROVE  /\ \A i \in DOMAIN entries : i \in 1..MaxEntries /\ i \in Nat /\ entries[i] \in Entries
                                      /\ entries[i].now \in Bodies /\ entries[i].account \in 1..MaxEntries
         /\ \A i \in DOMAIN accounts : i \in 1..MaxEntries
<1>1. /\ entries \in Seq(Entries) /\ DOMAIN entries = 1..Len(entries) /\ Len(entries) \in Nat
      /\ DOMAIN accounts = 1..Len(accounts) /\ Len(accounts) \in Nat
      /\ Len(entries) <= MaxEntries /\ Len(accounts) <= MaxEntries
  BY DEF OfficeOK
<1>2. (\A i \in DOMAIN entries : i \in 1..MaxEntries /\ i \in Nat) /\ \A i \in DOMAIN accounts : i \in 1..MaxEntries
  BY <1>1, OfficeAssumption
<1>3. \A i \in DOMAIN entries : entries[i] \in Entries
  BY <1>1
<1>4. \A e \in Entries : e.now \in Bodies /\ e.account \in 1..MaxEntries
  BY DEF Entries
<1> QED
  BY <1>2, <1>3, <1>4

\* A task that the step leaves alone keeps its job, and so does one elsewhere.
LEMMA OfficeJobsKept ==
  ASSUME OfficeOK, NEW t \in Tasks, Others(t), DOMAIN entries \subseteq DOMAIN entries',
         OfficeJob(pc[t], job[t])'
  PROVE  \A u \in Tasks : OfficeJob(pc[u], job[u])'
<1> SUFFICES ASSUME NEW u \in Tasks, u # t PROVE OfficeJob(pc[u], job[u])'
  OBVIOUS
<1>1. OfficeJob(pc[u], job[u]) /\ pc'[u] = pc[u] /\ job'[u] = job[u]
  BY DEF OfficeOK, Others
<1> QED
  BY <1>1 DEF OfficeJob

\* A list of at most two items goes through both.
LEMMA TwoItems ==
  ASSUME NEW S, NEW s \in Seq(S), Len(s) \in {1, 2}
  PROVE  /\ s[1] \in S /\ Head(s) = s[1]
         /\ Len(s) > 1 => /\ Len(s) = 2 /\ s[2] \in S
                          /\ Tail(s) \in Seq(S) /\ Len(Tail(s)) = 1 /\ Tail(s)[1] = s[2]
<1>1. s[1] \in S /\ Head(s) = s[1]
  OBVIOUS
<1>2. ASSUME Len(s) = 2
      PROVE  s[2] \in S /\ Tail(s) \in Seq(S) /\ Len(Tail(s)) = 1 /\ Tail(s)[1] = s[2]
  <2>1. s # << >> /\ s[2] \in S
    BY <1>2
  <2>2. Tail(s) \in Seq(S) /\ Len(Tail(s)) = Len(s) - 1 /\ \A k \in 1..Len(Tail(s)) : Tail(s)[k] = s[k + 1]
    BY <2>1, HeadTailProperties
  <2>3. Len(Tail(s)) = 1
    BY <1>2, <2>2
  <2>4. Tail(s)[1] = s[1 + 1]
    <3>1. 1 \in 1..Len(Tail(s))
      BY <2>3
    <3> QED
      BY <2>2, <3>1, Zenon
  <2>5. 1 + 1 = 2
    OBVIOUS
  <2> QED
    BY <2>1, <2>2, <2>3, <2>4, <2>5, Zenon
<1>3. Len(s) > 1 => Len(s) = 2
  <2>1. CASE Len(s) = 1
    BY <2>1
  <2>2. CASE Len(s) = 2
    BY <2>2
  <2> QED
    BY <2>1, <2>2, Zenon
<1> QED
  BY <1>1, <1>2, <1>3

\* The requests keep the types of the tables and of their jobs.
LEMMA OfficeTyped ==
  ASSUME TasksOK, OfficeOK, NEW t \in Tasks, OfficeStep(t), Others(t)
  PROVE  OfficeOK'
<1> DEFINE j == job[t]
           Tables == /\ (accounts \in Seq(Payees) /\ Len(accounts) <= MaxEntries)'
                     /\ (entries \in Seq(Entries) /\ Len(entries) <= MaxEntries)'
                     /\ (ledger \in [1..MaxEntries -> [Months -> [Buckets -> Int]]])'
                     /\ DOMAIN entries \subseteq DOMAIN entries'
                     /\ OfficeJob(pc[t], job[t])'
<1> SUFFICES Tables
  BY OfficeJobsKept DEF OfficeOK
<1>0. /\ accounts \in Seq(Payees) /\ Len(accounts) <= MaxEntries
      /\ entries \in Seq(Entries) /\ Len(entries) <= MaxEntries
      /\ ledger \in [1..MaxEntries -> [Months -> [Buckets -> Int]]]
      /\ DOMAIN pc = Tasks /\ DOMAIN job = Tasks /\ OfficeJob(pc[t], j)
      /\ DOMAIN entries = 1..Len(entries) /\ Len(entries) \in Nat /\ Len(accounts) \in Nat
  BY DEF OfficeOK, TasksOK
<1>1. ASSUME NEW who \in Payees, NEW body \in Bodies, StartAdd(t, who, body) PROVE Tables
  <2>1. UNCHANGED officeVars /\ pc'[t] = "resolve"
        /\ job'[t] = [op |-> "add", payee |-> who, body |-> body, account |-> 0]
    BY <1>0, <1>1 DEF StartAdd, Begin
  <2>2. job'[t] \in AddJobs
    BY <2>1, OfficeAssumption DEF AddJobs
  <2> QED
    BY <1>0, <2>1, <2>2 DEF OfficeJob, officeVars
<1>2. ASSUME NEW i \in 1..MaxEntries, NEW l \in {"change", "remove"}, NEW body, StartChange(t, i, l, body),
             l = "remove" => body = entries[i].now, l = "change" => body \in Bodies
      PROVE  Tables
  <2>1. UNCHANGED <<accounts, entries, ledger>> /\ pc'[t] = l /\ i \in DOMAIN entries
        /\ job'[t] = [entry |-> i, seen |-> entries[i], body |-> body]
    BY <1>0, <1>2 DEF StartChange, Begin
  <2>2. job'[t] \in ChangeJobs /\ job'[t].entry = i
    BY <1>2, <2>1, OfficeRows DEF ChangeJobs
  <2> QED
    BY <1>0, <1>2, <2>1, <2>2 DEF OfficeJob
<1>3. CASE Resolve(t)
  <2>1. UNCHANGED officeVars /\ pc[t] = "resolve" /\ j \in AddJobs
    BY <1>0, <1>3 DEF Resolve, At, OfficeJob
  <2>2. CASE pc'[t] = "create_account" /\ job'[t] = j
    BY <1>0, <2>1, <2>2 DEF OfficeJob, officeVars
  <2>3. ASSUME NEW a \in DOMAIN accounts, pc'[t] = "add_insert", job'[t] = [j EXCEPT !.account = a]
        PROVE  Tables
    <3>1. a \in 1..MaxEntries
      BY OfficeRows
    <3>2. job'[t] \in AddJobs /\ job'[t].account = a
      BY <2>1, <2>3, <3>1 DEF AddJobs
    <3> QED
      BY <1>0, <2>1, <2>3, <3>1, <3>2 DEF OfficeJob, officeVars
  <2> QED
    BY <1>0, <1>3, <2>2, <2>3 DEF Resolve, Goto, Continue
<1>4. CASE CreateAccount(t)
  <2>1. /\ UNCHANGED <<entries, ledger>> /\ pc[t] = "create_account" /\ j \in AddJobs
        /\ Len(accounts) < MaxEntries /\ accounts' = Append(accounts, j.payee)
        /\ pc'[t] = "add_insert" /\ job'[t] = [j EXCEPT !.account = Len(accounts) + 1]
    BY <1>0, <1>4 DEF CreateAccount, At, OfficeJob, Continue
  <2>2. Len(accounts) + 1 \in 1..MaxEntries /\ j.payee \in Payees
    BY <1>0, <2>1, OfficeAssumption DEF AddJobs
  <2>3. accounts' \in Seq(Payees) /\ Len(accounts') = Len(accounts) + 1
    BY <1>0, <2>1, <2>2, AppendProperties
  <2>4. job'[t] \in AddJobs /\ job'[t].account = Len(accounts) + 1
    BY <2>1, <2>2 DEF AddJobs
  <2> QED
    BY <1>0, <2>1, <2>2, <2>3, <2>4 DEF OfficeJob
<1>5. CASE AddInsert(t)
  <2> DEFINE e == [account |-> j.account, now |-> j.body, deleted |-> FALSE]
             x == Move(j.account, j.body, 1)
  <2>1. /\ UNCHANGED <<accounts, ledger>> /\ pc[t] = "add_insert" /\ j \in AddJobs /\ j.account \in 1..MaxEntries
        /\ Len(entries) < MaxEntries /\ entries' = Append(entries, e)
        /\ pc'[t] = "adjust" /\ job'[t] = [entry |-> Len(entries) + 1, todo |-> <<x>>]
    BY <1>0, <1>5 DEF AddInsert, At, OfficeJob, Continue
  <2>2. e \in Entries /\ x \in LedgerItems
    BY <2>1, MoveTyped DEF Entries, AddJobs
  <2> HIDE DEF e, x
  <2>3. entries' \in Seq(Entries) /\ Len(entries') = Len(entries) + 1
    BY <1>0, <2>1, <2>2, AppendProperties
  <2>4. Len(entries') <= MaxEntries /\ DOMAIN entries' = 1..(Len(entries) + 1)
    BY <1>0, <2>1, <2>3, OfficeAssumption
  <2>5. job'[t] \in AdjustJobs /\ Len(job'[t].todo) = 1 /\ job'[t].entry = Len(entries) + 1
    BY <1>0, <2>1, <2>2 DEF AdjustJobs
  <2> QED
    BY <1>0, <2>1, <2>3, <2>4, <2>5 DEF OfficeJob
<1>6. CASE AdjustLedger(t)
  <2> DEFINE x == Head(j.todo)
  <2>1. /\ UNCHANGED <<accounts, entries>> /\ pc[t] = "adjust"
        /\ \/ /\ ledger' = [ledger EXCEPT ![x.account][x.month][Bucket(x.category)] = @ + x.by]
              /\ FinishItem(t, "adjust")
           \/ ledger' = ledger /\ Finish(t)
    BY <1>6 DEF AdjustLedger, At, Item
  <2>2. j \in AdjustJobs /\ Len(j.todo) \in {1, 2} /\ j.entry \in DOMAIN entries /\ j.todo \in Seq(LedgerItems)
    BY <1>0, <2>1 DEF OfficeJob, AdjustJobs
  <2>3. x \in LedgerItems
    BY <2>2
  <2>4. Bucket(x.category) \in Buckets
    BY DEF Bucket, Buckets
  <2>5. (ledger \in [1..MaxEntries -> [Months -> [Buckets -> Int]]])'
    <3> DEFINE a == x.account  m == x.month  b == Bucket(x.category)
    <3>1. a \in 1..MaxEntries /\ m \in Months /\ x.by \in Int /\ b \in Buckets
      BY <2>3, <2>4 DEF LedgerItems
    <3>2. ledger' = ledger \/ ledger' = [ledger EXCEPT ![a][m][b] = @ + x.by]
      BY <2>1
    <3> HIDE DEF x, a, m, b
    <3>3. ledger[a] \in [Months -> [Buckets -> Int]] /\ ledger[a][m] \in [Buckets -> Int] /\ ledger[a][m][b] \in Int
      BY <1>0, <3>1
    <3>4. [ledger[a][m] EXCEPT ![b] = @ + x.by] \in [Buckets -> Int]
      BY <3>1, <3>3
    <3>5. [ledger[a] EXCEPT ![m] = [ledger[a][m] EXCEPT ![b] = @ + x.by]] \in [Months -> [Buckets -> Int]]
      BY <3>1, <3>3, <3>4
    <3>6. [ledger EXCEPT ![a][m][b] = @ + x.by]
            = [ledger EXCEPT ![a] = [ledger[a] EXCEPT ![m] = [ledger[a][m] EXCEPT ![b] = @ + x.by]]]
      OBVIOUS
    <3> QED
      BY <1>0, <3>2, <3>5, <3>6
  <2>6. CASE pc'[t] = "idle"
    BY <1>0, <2>1, <2>5, <2>6 DEF OfficeJob
  <2>7. CASE pc'[t] = "adjust" /\ Len(j.todo) > 1 /\ job'[t] = [j EXCEPT !.todo = Tail(j.todo)]
    <3>1. Tail(j.todo) \in Seq(LedgerItems) /\ Len(Tail(j.todo)) = 1
      BY <2>2, <2>7, TwoItems
    <3>2. job'[t] \in AdjustJobs /\ job'[t].todo = Tail(j.todo) /\ job'[t].entry = j.entry
      BY <2>2, <2>7, <3>1 DEF AdjustJobs
    <3> QED
      BY <1>0, <2>1, <2>2, <2>5, <2>7, <3>1, <3>2 DEF OfficeJob
  <2> QED
    BY <1>0, <2>1, <2>6, <2>7 DEF FinishItem, Finish, Continue
<1>7. CASE ChangeWrite(t)
  <2> DEFINE i == j.entry
             moves == EditMoves(j.seen, j.body)
  <2>1. /\ UNCHANGED <<accounts, ledger>> /\ pc[t] = "change" /\ j \in ChangeJobs /\ i \in DOMAIN entries
        /\ entries' = [entries EXCEPT ![i].now = j.body]
        /\ \/ Finish(t)
           \/ moves # << >> /\ Continue(t, "adjust", [entry |-> i, todo |-> moves])
    BY <1>0, <1>7 DEF ChangeWrite, At, OfficeJob
  <2>2. entries[i] \in Entries /\ j.body \in Bodies /\ j.seen \in Entries
    BY <2>1, OfficeRows DEF ChangeJobs
  <2>3. entries' \in Seq(Entries) /\ Len(entries') = Len(entries) /\ DOMAIN entries' = DOMAIN entries
    <3>1. [entries[i] EXCEPT !.now = j.body] \in Entries
      BY <2>2 DEF Entries
    <3>2. entries' = [entries EXCEPT ![i] = [entries[i] EXCEPT !.now = j.body]]
      BY <2>1
    <3> QED
      BY <1>0, <2>1, <3>1, <3>2, ExceptSeq
  <2>4. CASE Finish(t)
    BY <1>0, <2>1, <2>3, <2>4 DEF OfficeJob, Finish, Continue
  <2>5. CASE moves # << >> /\ Continue(t, "adjust", [entry |-> i, todo |-> moves])
    <3>1. moves = <<Move(j.seen.account, j.seen.now, -1), Move(j.seen.account, j.body, 1)>>
      BY <2>5 DEF EditMoves
    <3>2. Move(j.seen.account, j.seen.now, -1) \in LedgerItems /\ Move(j.seen.account, j.body, 1) \in LedgerItems
      BY <2>2, MoveTyped DEF Entries
    <3>3. moves \in Seq(LedgerItems) /\ Len(moves) = 2
      BY <3>1, <3>2
    <3> HIDE DEF moves
    <3>4. job'[t] \in AdjustJobs /\ job'[t].todo = moves /\ job'[t].entry = i /\ pc'[t] = "adjust"
      BY <1>0, <2>1, <2>5, <3>3 DEF AdjustJobs, Continue
    <3> QED
      BY <1>0, <2>1, <2>3, <3>3, <3>4 DEF OfficeJob
  <2> QED
    BY <2>1, <2>4, <2>5
<1>8. CASE RemoveWrite(t)
  <2> DEFINE i == j.entry
             x == Move(j.seen.account, j.seen.now, -1)
  <2>1. /\ UNCHANGED <<accounts, ledger>> /\ pc[t] = "remove" /\ j \in ChangeJobs /\ i \in DOMAIN entries
        /\ entries' = [entries EXCEPT ![i].deleted = TRUE]
        /\ pc'[t] = "adjust" /\ job'[t] = [entry |-> i, todo |-> <<x>>]
    BY <1>0, <1>8 DEF RemoveWrite, At, OfficeJob, Continue
  <2>2. entries[i] \in Entries /\ j.seen \in Entries
    BY <2>1, OfficeRows DEF ChangeJobs
  <2>3. entries' \in Seq(Entries) /\ Len(entries') = Len(entries) /\ DOMAIN entries' = DOMAIN entries
    <3>1. [entries[i] EXCEPT !.deleted = TRUE] \in Entries
      BY <2>2 DEF Entries
    <3>2. entries' = [entries EXCEPT ![i] = [entries[i] EXCEPT !.deleted = TRUE]]
      BY <2>1
    <3> QED
      BY <1>0, <2>1, <3>1, <3>2, ExceptSeq
  <2>4. x \in LedgerItems
    BY <2>2, MoveTyped DEF Entries
  <2> HIDE DEF x
  <2>5. job'[t] \in AdjustJobs /\ Len(job'[t].todo) = 1 /\ job'[t].entry = i
    BY <1>0, <2>1, <2>4 DEF AdjustJobs
  <2> QED
    BY <1>0, <2>1, <2>3, <2>5 DEF OfficeJob
<1>9. \A i \in 1..MaxEntries, body \in Bodies : StartChange(t, i, "change", body) => Tables
  <2> SUFFICES ASSUME NEW i \in 1..MaxEntries, NEW body \in Bodies, StartChange(t, i, "change", body) PROVE Tables
    OBVIOUS
  <2> HIDE DEF Tables
  <2> QED
    BY <1>2
<1>10. \A i \in 1..MaxEntries : StartChange(t, i, "remove", entries[i].now) => Tables
  <2> SUFFICES ASSUME NEW i \in 1..MaxEntries, StartChange(t, i, "remove", entries[i].now) PROVE Tables
    OBVIOUS
  <2> HIDE DEF Tables
  <2> QED
    BY <1>2
<1> HIDE DEF Tables
<1> QED
  BY <1>1, <1>3, <1>4, <1>5, <1>6, <1>7, <1>8, <1>9, <1>10 DEF OfficeStep


-----------------------------------------------------------------------------
(* The ledger follows the rows *)

\* One value moves a sum by as much as it moves itself.
LEMMA SumMoves ==
  ASSUME NEW f, NEW g, NEW S, IsFiniteSet(S), NEW i \in S,
         \A x \in S : f[x] \in Int, \A x \in S \ {i} : g[x] = f[x], g[i] \in Int
  PROVE  /\ SumFunctionOnSet(f, S) \in Int
         /\ SumFunctionOnSet(g, S) = SumFunctionOnSet(f, S) + (g[i] - f[i])
<1> DEFINE rest == S \ {i}
<1>1. IsFiniteSet(rest) /\ \A x \in S : g[x] \in Int
  BY FS_Subset
<1> HIDE DEF rest
<1>2. /\ SumFunctionOnSet(f, S) \in Int
      /\ SumFunctionOnSet(f, S) = f[i] + SumFunctionOnSet(f, rest)
      /\ SumFunctionOnSet(g, S) = g[i] + SumFunctionOnSet(g, rest)
  BY <1>1, SumWithout DEF rest
<1>3. SumFunctionOnSet(f, rest) \in Int
  BY <1>1, SumWithout DEF rest
<1>4. SumFunctionOnSet(g, rest) = SumFunctionOnSet(f, rest)
  BY <1>1, SumOfEquals DEF rest
<1> QED
  BY <1>2, <1>3, <1>4

\* A statement's share of a month of the ledger.
LEMMA ItemShare ==
  ASSUME NEW a, NEW m
  PROVE  /\ \A x \in LedgerItems : ItemFor(x, a, m) \in Int
         /\ \A e \in Entries : EntryFor(e, a, m) \in Int
         /\ \A e \in Entries : ~e.deleted =>
              /\ ItemFor(Move(e.account, e.now, 1), a, m) = EntryFor(e, a, m)
              /\ ItemFor(Move(e.account, e.now, -1), a, m) = 0 - EntryFor(e, a, m)
<1>1. ASSUME NEW x \in LedgerItems PROVE ItemFor(x, a, m) \in Int
  BY DEF LedgerItems, ItemFor
<1>2. ASSUME NEW e \in Entries PROVE e.now.amount \in Int /\ EntryFor(e, a, m) \in Int
  BY DEF Entries, Bodies, EntryFor
<1>3. ASSUME NEW e \in Entries, ~e.deleted
      PROVE  /\ ItemFor(Move(e.account, e.now, 1), a, m) = EntryFor(e, a, m)
             /\ ItemFor(Move(e.account, e.now, -1), a, m) = 0 - EntryFor(e, a, m)
  BY <1>2, <1>3 DEF ItemFor, Move, EntryFor
<1> QED
  BY <1>1, <1>2, <1>3

\* What a request still owes to the ledger.
LEMMA OwedTyped ==
  ASSUME OfficeOK, NEW t \in Tasks, NEW a, NEW m
  PROVE  Owed(t, a, m) \in Int
<1>1. CASE pc[t] = "adjust"
  <2>1. PICK s : s = job[t].todo
    OBVIOUS
  <2>2. s \in Seq(LedgerItems) /\ Len(s) \in {1, 2}
    BY <1>1, <2>1 DEF OfficeOK, OfficeJob, AdjustJobs
  <2>3. s[1] \in LedgerItems /\ (Len(s) = 2 => s[2] \in LedgerItems)
    BY <2>2, TwoItems
  <2>4. ItemFor(s[1], a, m) \in Int /\ (Len(s) = 2 => ItemFor(s[2], a, m) \in Int)
    BY <2>3, ItemShare
  <2>5. ListFor(s, a, m) \in Int
    BY <2>4 DEF ListFor
  <2> QED
    BY <1>1, <2>1, <2>5 DEF Owed
<1> QED
  BY <1>1 DEF Owed

\* Only t's share of what is owed changes.
LEMMA OwedChanges ==
  ASSUME OfficeOK, NEW a, NEW m, NEW t \in Tasks, NEW d \in Int,
         Owed(t, a, m)' = Owed(t, a, m) + d,
         \A u \in Tasks \ {t} : Owed(u, a, m)' = Owed(u, a, m)
  PROVE  /\ SumFunction(OwedTo(a, m)) \in Int
         /\ SumFunction(OwedTo(a, m))' = SumFunction(OwedTo(a, m)) + d
<1> DEFINE f == [u \in Tasks |-> Owed(u, a, m)]
           g == [u \in Tasks |-> Owed(u, a, m)']
<1>1. \A u \in Tasks : f[u] \in Int
  BY OwedTyped
<1>2. f[t] \in Int /\ g[t] = f[t] + d /\ \A u \in Tasks \ {t} : g[u] = f[u]
  BY <1>1
<1>3. SumFunction(OwedTo(a, m)) = SumFunctionOnSet(f, Tasks)
      /\ SumFunction(OwedTo(a, m))' = SumFunctionOnSet(g, Tasks)
  <2>1. OwedTo(a, m) = f /\ OwedTo(a, m)' = g /\ DOMAIN f = Tasks /\ DOMAIN g = Tasks
    BY DEF OwedTo
  <2> HIDE DEF f, g
  <2> QED
    BY <2>1 DEF SumFunction
<1> HIDE DEF f, g
<1>4. g[t] \in Int
  BY <1>2
<1>5. /\ SumFunctionOnSet(f, Tasks) \in Int
      /\ SumFunctionOnSet(g, Tasks) = SumFunctionOnSet(f, Tasks) + (g[t] - f[t])
  BY <1>1, <1>2, <1>4, DeskAssumption, SumMoves
<1> QED
  BY <1>2, <1>3, <1>5

\* The transactions come to an integer.
LEMMA EntriesTyped ==
  ASSUME OfficeOK, NEW a, NEW m
  PROVE  SumFunction(EntriesFor(a, m)) \in Int
<1>1. DOMAIN EntriesFor(a, m) = DOMAIN entries /\ IsFiniteSet(DOMAIN entries)
  BY FS_Interval DEF EntriesFor, OfficeOK
<1>2. \A k \in DOMAIN entries : EntriesFor(a, m)[k] \in Int
  BY OfficeRows, ItemShare DEF EntriesFor
<1> QED
  BY <1>1, <1>2, SumWithout DEF SumFunction

\* A row that is written counts for what it says now.
LEMMA EntryChanges ==
  ASSUME OfficeOK, OfficeOK', NEW a, NEW m, NEW i \in DOMAIN entries, DOMAIN entries' = DOMAIN entries,
         \A k \in DOMAIN entries \ {i} : entries'[k] = entries[k]
  PROVE  /\ SumFunction(EntriesFor(a, m)) \in Int
         /\ SumFunction(EntriesFor(a, m))'
              = SumFunction(EntriesFor(a, m)) + (EntryFor(entries'[i], a, m) - EntryFor(entries[i], a, m))
<1> DEFINE S == DOMAIN entries
           f == [k \in S |-> EntryFor(entries[k], a, m)]
           g == [k \in S |-> EntryFor(entries'[k], a, m)]
<1>1. /\ \A k \in S : f[k] \in Int
      /\ g[i] = EntryFor(entries'[i], a, m) /\ g[i] \in Int /\ f[i] = EntryFor(entries[i], a, m)
  <2>1. \A k \in S : entries[k] \in Entries /\ entries'[k] \in Entries
    BY DEF OfficeOK
  <2> QED
    BY <2>1, ItemShare
<1>2. IsFiniteSet(S) /\ \A k \in S \ {i} : g[k] = f[k]
  BY FS_Interval DEF OfficeOK
<1>3. SumFunction(EntriesFor(a, m)) = SumFunctionOnSet(f, S)
      /\ SumFunction(EntriesFor(a, m))' = SumFunctionOnSet(g, S)
  <2>1. EntriesFor(a, m) = f /\ EntriesFor(a, m)' = g /\ DOMAIN f = S /\ DOMAIN g = S
    BY DEF EntriesFor, EntryFor
  <2> HIDE DEF f, g, S
  <2> QED
    BY <2>1 DEF SumFunction
<1> HIDE DEF f, g
<1> QED
  BY <1>1, <1>2, <1>3, SumMoves

\* A new row counts for what it says.
LEMMA EntryAdded ==
  ASSUME OfficeOK, OfficeOK', NEW a, NEW m, NEW e, entries' = Append(entries, e)
  PROVE  /\ SumFunction(EntriesFor(a, m)) \in Int
         /\ SumFunction(EntriesFor(a, m))' = SumFunction(EntriesFor(a, m)) + EntryFor(e, a, m)
<1> DEFINE S == DOMAIN entries
           T == DOMAIN entries'
           n == Len(entries) + 1
           f == [k \in S |-> EntryFor(entries[k], a, m)]
           g == [k \in T |-> EntryFor(entries'[k], a, m)]
<1>0. entries \in Seq(Entries) /\ Len(entries) \in Nat /\ S = 1..Len(entries) /\ entries' \in Seq(Entries)
  BY DEF OfficeOK
<1>1. /\ T = 1..n /\ n \in T /\ T \ {n} = S /\ entries'[n] = e
      /\ \A k \in S : k \in T /\ entries'[k] = entries[k]
  BY <1>0
<1>2. \A k \in T : entries'[k] \in Entries
  BY <1>0
<1>3. \A k \in S : f[k] \in Int /\ g[k] = f[k]
  <2>1. \A k \in S : entries[k] \in Entries
    BY <1>0
  <2> QED
    BY <1>1, <2>1, ItemShare
<1>4. (\A k \in T : g[k] \in Int) /\ g[n] = EntryFor(e, a, m)
  BY <1>1, <1>2, ItemShare
<1>5. IsFiniteSet(S) /\ IsFiniteSet(T)
  BY <1>0, <1>1, FS_Interval
<1>6. SumFunction(EntriesFor(a, m)) = SumFunctionOnSet(f, S)
      /\ SumFunction(EntriesFor(a, m))' = SumFunctionOnSet(g, T)
  <2>1. EntriesFor(a, m) = f /\ EntriesFor(a, m)' = g /\ DOMAIN f = S /\ DOMAIN g = T
    BY DEF EntriesFor, EntryFor
  <2> HIDE DEF f, g, S, T
  <2> QED
    BY <2>1 DEF SumFunction
<1> HIDE DEF f, g, S, T, n
<1>7. SumFunctionOnSet(g, T) = g[n] + SumFunctionOnSet(g, S)
  <2>1. SumFunctionOnSet(g, T) = g[n] + SumFunctionOnSet(g, T \ {n})
    <3>1. IsFiniteSet(T) /\ (\A k \in T : g[k] \in Int) /\ n \in T
      BY <1>1, <1>4, <1>5, Zenon
    <3> QED
      BY <3>1, SumWithout
  <2> QED
    BY <1>1, <2>1, Zenon
<1>8. SumFunctionOnSet(g, S) = SumFunctionOnSet(f, S) /\ SumFunctionOnSet(f, S) \in Int
  BY <1>3, <1>5, SumOfEquals, SumWithout
<1>9. g[n] \in Int
  BY <1>1, <1>4
<1> QED
  BY <1>4, <1>6, <1>7, <1>8, <1>9

\* The sums on both sides move alike.
LEMMA PaidUpKept ==
  ASSUME OfficeOK, OfficeOK', NEW t \in Tasks, NEW a \in 1..MaxEntries, NEW m \in Months,
         NEW c \in Int, NEW d \in Int, PaidUp(a, m),
         Owed(t, a, m)' = Owed(t, a, m) + d,
         \A u \in Tasks \ {t} : Owed(u, a, m)' = Owed(u, a, m),
         ledger'[a][m].total_paid + ledger'[a][m].total_advance
           = ledger[a][m].total_paid + ledger[a][m].total_advance + c,
         SumFunction(EntriesFor(a, m))' = SumFunction(EntriesFor(a, m)) + (c + d)
  PROVE  PaidUp(a, m)'
<1>1. /\ SumFunction(OwedTo(a, m)) \in Int
      /\ SumFunction(OwedTo(a, m))' = SumFunction(OwedTo(a, m)) + d
  BY OwedChanges
<1>2. ledger[a][m].total_paid \in Int /\ ledger[a][m].total_advance \in Int
  <2>1. ledger[a][m] \in [Buckets -> Int]
    BY DEF OfficeOK
  <2> QED
    BY <2>1 DEF Buckets
<1> QED
  BY <1>1, <1>2 DEF PaidUp

\* They still do when t moves, if it comes to no row of another and writes only its own.
LEMMA RowsKnownKept ==
  ASSUME RowsKnown, NEW t \in Tasks, Others(t), ChangeKnows(t)',
         \A u \in Tasks \ {t} : pc[u] \in {"change", "remove"} => entries'[job[u].entry] = entries[job[u].entry],
         \A u \in Tasks \ {t} : \A i : Working(u, i) => ~Working(t, i)'
  PROVE  RowsKnown'
<1>1. \A u \in Tasks \ {t} : pc'[u] = pc[u] /\ job'[u] = job[u]
  BY DEF Others
<1>2. \A u \in Tasks \ {t} : \A i : Working(u, i)' <=> Working(u, i)
  BY <1>1 DEF Working
<1>3. ASSUME NEW u \in Tasks, u # t PROVE ChangeKnows(u)'
  BY <1>1, <1>3 DEF RowsKnown, ChangeKnows
<1>4. ASSUME NEW u \in Tasks, NEW v \in Tasks PROVE OneToARow(u, v)'
  <2>1. CASE u # t /\ v # t
    BY <1>1, <2>1 DEF RowsKnown, OneToARow, Working
  <2>2. CASE u = t /\ v # t
    BY <1>1, <1>2, <2>2 DEF OneToARow
  <2>3. CASE u # t /\ v = t
    BY <1>1, <1>2, <2>3 DEF OneToARow
  <2>4. CASE u = v
    BY <2>4 DEF OneToARow
  <2> QED
    BY <2>1, <2>2, <2>3, <2>4
<1> QED
  BY <1>3, <1>4 DEF RowsKnown

\* A request that starts on a row another works on is a clash; and a new row is nobody's.
LEMMA RowsKnownStep ==
  ASSUME TasksOK, OfficeOK, RowsKnown, NEW t \in Tasks, OfficeStep(t), Others(t), ~clashed'
  PROVE  RowsKnown'
<1> DEFINE j == job[t]
           Apart == /\ ChangeKnows(t)'
                    /\ \A u \in Tasks \ {t} :
                         /\ pc[u] \in {"change", "remove"} => entries'[job[u].entry] = entries[job[u].entry]
                         /\ \A i : Working(u, i) => ~Working(t, i)'
<1> SUFFICES Apart
  BY RowsKnownKept
<1>0. /\ DOMAIN pc = Tasks /\ DOMAIN job = Tasks /\ OfficeJob(pc[t], j)
      /\ entries \in Seq(Entries) /\ DOMAIN entries = 1..Len(entries) /\ Len(entries) \in Nat
      /\ \A u \in Tasks : pc[u] \in {"change", "remove", "adjust"} => job[u].entry \in DOMAIN entries
  BY DEF OfficeOK, TasksOK, OfficeJob
<1>00. \A u \in Tasks \ {t} : \A i : Working(t, i) => ~Working(u, i)
  BY DEF RowsKnown, OneToARow, Working
<1>1. CASE entries' = entries /\ pc'[t] \notin {"change", "remove", "adjust"}
  BY <1>1 DEF Working, ChangeKnows
<1>2. ASSUME NEW who \in Payees, NEW body \in Bodies, StartAdd(t, who, body) PROVE Apart
  <2>1. entries' = entries /\ pc'[t] = "resolve"
    BY <1>0, <1>2 DEF StartAdd, Begin, officeVars
  <2> QED
    BY <1>1, <2>1
<1>3. ASSUME NEW i, NEW l \in {"change", "remove"}, NEW body, StartChange(t, i, l, body) PROVE Apart
  <2>1. /\ entries' = entries /\ pc'[t] = l /\ ~entries[i].deleted
        /\ job'[t] = [entry |-> i, seen |-> entries[i], body |-> body]
        /\ \A u \in Tasks : ~Working(u, i)
    BY <1>0, <1>3 DEF StartChange, Begin
  <2>2. job'[t].entry = i /\ job'[t].seen = entries[i]
    BY <2>1
  <2> QED
    BY <2>1, <2>2 DEF ChangeKnows, Working
<1>4. CASE Resolve(t)
  <2>1. entries' = entries /\ pc'[t] \in {"create_account", "add_insert"}
    BY <1>0, <1>4 DEF Resolve, Goto, Continue, officeVars
  <2> QED
    BY <1>1, <2>1
<1>5. CASE CreateAccount(t)
  <2>1. entries' = entries /\ pc'[t] = "add_insert"
    BY <1>0, <1>5 DEF CreateAccount, Continue
  <2> QED
    BY <1>1, <2>1
<1>6. CASE AddInsert(t)
  <2>1. /\ pc'[t] = "adjust" /\ job'[t].entry = Len(entries) + 1
        /\ \E e : entries' = Append(entries, e)
    BY <1>0, <1>6 DEF AddInsert, Continue
  <2>2. \A k \in DOMAIN entries : entries'[k] = entries[k] /\ k # Len(entries) + 1
    BY <1>0, <2>1
  <2> QED
    BY <1>0, <2>1, <2>2 DEF ChangeKnows, Working
<1>7. CASE AdjustLedger(t)
  <2>1. /\ entries' = entries /\ pc[t] = "adjust"
        /\ \/ pc'[t] = "idle"
           \/ pc'[t] = "adjust" /\ job'[t] = [j EXCEPT !.todo = Tail(@)]
    BY <1>0, <1>7 DEF AdjustLedger, At, FinishItem, Finish, Continue
  <2>2. CASE pc'[t] = "adjust" /\ job'[t] = [j EXCEPT !.todo = Tail(@)]
    <3>1. job'[t].entry = j.entry
      BY <1>0, <2>1, <2>2 DEF OfficeJob, AdjustJobs
    <3> QED
      BY <1>00, <2>1, <2>2, <3>1 DEF ChangeKnows, Working
  <2> QED
    BY <1>1, <2>1, <2>2
<1>8. CASE ChangeWrite(t) \/ RemoveWrite(t)
  <2>1. /\ pc[t] \in {"change", "remove"} /\ pc'[t] \in {"idle", "adjust"}
        /\ pc'[t] = "adjust" => job'[t].entry = j.entry
        /\ \A k \in DOMAIN entries \ {j.entry} : entries'[k] = entries[k]
    BY <1>0, <1>8 DEF ChangeWrite, RemoveWrite, At, Finish, Continue
  <2>2. \A u \in Tasks \ {t} : pc[u] \in {"change", "remove", "adjust"} => job[u].entry # j.entry
    BY <1>00, <2>1 DEF Working
  <2> QED
    BY <1>0, <2>1, <2>2 DEF ChangeKnows, Working
<1>9. \A i \in 1..MaxEntries, body \in Bodies : StartChange(t, i, "change", body) => Apart
  <2> HIDE DEF Apart
  <2> QED
    BY <1>3
<1>10. \A i \in 1..MaxEntries : StartChange(t, i, "remove", entries[i].now) => Apart
  <2> HIDE DEF Apart
  <2> QED
    BY <1>3
<1> HIDE DEF Apart
<1> QED
  BY <1>2, <1>4, <1>5, <1>6, <1>7, <1>8, <1>9, <1>10 DEF OfficeStep

\* A statement on a row falls due, and a statement on the ledger pays it.
LEMMA PaidUpStep ==
  ASSUME TasksOK, OfficeOK, OfficeOK', RowsKnown, NEW t \in Tasks, OfficeStep(t), Others(t), ~clashed',
         NEW a \in 1..MaxEntries, NEW m \in Months, PaidUp(a, m)
  PROVE  PaidUp(a, m)'
<1> DEFINE j == job[t]
           paid == ledger[a][m].total_paid + ledger[a][m].total_advance
           sum == SumFunction(EntriesFor(a, m))
<1>0. /\ DOMAIN pc = Tasks /\ DOMAIN job = Tasks /\ OfficeJob(pc[t], j) /\ ChangeKnows(t)
      /\ ledger[a][m].total_paid \in Int /\ ledger[a][m].total_advance \in Int
  <2>1. ledger[a][m] \in [Buckets -> Int]
    BY DEF OfficeOK
  <2> QED
    BY <2>1 DEF OfficeOK, TasksOK, RowsKnown, Buckets
<1>00. \A u \in Tasks \ {t} : Owed(u, a, m)' = Owed(u, a, m)
  BY DEF Others, Owed
<1>01. Owed(t, a, m) \in Int /\ paid \in Int
  BY <1>0, OwedTyped
<1>1. ASSUME NEW c \in Int, NEW d \in Int, Owed(t, a, m)' = Owed(t, a, m) + d,
             paid' = paid + c, sum' = sum + (c + d)
      PROVE  PaidUp(a, m)'
  BY <1>00, <1>1, PaidUpKept
<1>2. CASE /\ UNCHANGED <<entries, ledger>>
           /\ pc[t] # "adjust" /\ pc'[t] # "adjust"
  <2>1. Owed(t, a, m)' = Owed(t, a, m)
    BY <1>2 DEF Owed
  <2>2. EntriesFor(a, m)' = EntriesFor(a, m)
    BY <1>2 DEF EntriesFor, EntryFor
  <2>3. OwedTo(a, m)' = OwedTo(a, m)
    BY <1>00, <2>1 DEF OwedTo
  <2> QED
    BY <1>2, <2>2, <2>3 DEF PaidUp
<1>3. ASSUME NEW who \in Payees, NEW body \in Bodies, StartAdd(t, who, body) PROVE PaidUp(a, m)'
  <2>1. UNCHANGED <<entries, ledger>> /\ pc[t] = "idle" /\ pc'[t] = "resolve"
    BY <1>0, <1>3 DEF StartAdd, Begin, Takes, officeVars
  <2> QED
    BY <1>2, <2>1
<1>4. ASSUME NEW i, NEW l \in {"change", "remove"}, NEW body, StartChange(t, i, l, body) PROVE PaidUp(a, m)'
  <2>1. UNCHANGED <<entries, ledger>> /\ pc[t] = "idle" /\ pc'[t] = l
    BY <1>0, <1>4 DEF StartChange, Begin, Takes
  <2> QED
    BY <1>2, <2>1
<1>5. CASE Resolve(t) \/ CreateAccount(t)
  <2>1. UNCHANGED <<entries, ledger>> /\ pc[t] \in {"resolve", "create_account"}
        /\ pc'[t] \in {"create_account", "add_insert"}
    BY <1>0, <1>5 DEF Resolve, CreateAccount, At, Goto, Continue, officeVars
  <2> QED
    BY <1>2, <2>1
<1>6. CASE AddInsert(t)
  <2>1. PICK e : e = [account |-> j.account, now |-> j.body, deleted |-> FALSE]
    OBVIOUS
  <2>2. PICK x : x = Move(j.account, j.body, 1)
    OBVIOUS
  <2>3. /\ ledger' = ledger /\ pc[t] = "add_insert" /\ entries' = Append(entries, e)
        /\ pc'[t] = "adjust" /\ job'[t].todo = <<x>>
    BY <1>0, <1>6, <2>1, <2>2 DEF AddInsert, At, Continue
  <2>4. e \in Entries /\ ~e.deleted /\ x = Move(e.account, e.now, 1)
    <3>1. j \in AddJobs /\ j.account \in 1..MaxEntries
      BY <1>0, <2>3 DEF OfficeJob
    <3> QED
      BY <2>1, <2>2, <3>1 DEF AddJobs, Entries
  <2> DEFINE d == EntryFor(e, a, m)
  <2>5. d \in Int /\ ItemFor(x, a, m) = d
    BY <2>4, ItemShare
  <2>6. sum \in Int /\ sum' = sum + d
    BY <2>3, EntryAdded
  <2> HIDE DEF d
  <2>7. Owed(t, a, m)' = d /\ Owed(t, a, m) = 0
    <3>1. ListFor(<<x>>, a, m) = d
      BY <2>5 DEF ListFor
    <3> QED
      BY <2>3, <3>1 DEF Owed, ListFor, ItemFor
  <2>8. paid' = paid + 0
    BY <1>0, <2>3
  <2>9. sum' = sum + (0 + d) /\ Owed(t, a, m)' = Owed(t, a, m) + d
    BY <2>5, <2>6, <2>7
  <2> HIDE DEF paid, sum
  <2> QED
    BY <1>1, <2>5, <2>8, <2>9
<1>7. CASE AdjustLedger(t)
  <2>1. PICK s : s = j.todo
    OBVIOUS
  <2>2. PICK x : x = Head(s)
    OBVIOUS
  <2>3. /\ entries' = entries /\ pc[t] = "adjust"
        /\ ledger' = [ledger EXCEPT ![x.account][x.month][Bucket(x.category)] = @ + x.by]
        /\ FinishItem(t, "adjust")
    BY <1>7, <2>1, <2>2 DEF AdjustLedger, At, Item
  <2>4. s \in Seq(LedgerItems) /\ Len(s) \in {1, 2} /\ j \in AdjustJobs
    BY <1>0, <2>1, <2>3 DEF OfficeJob, AdjustJobs
  <2>5. x = s[1] /\ x \in LedgerItems /\ ItemFor(x, a, m) \in Int
    BY <2>2, <2>4, TwoItems, ItemShare
  <2> DEFINE c == ItemFor(x, a, m)
  <2>6. paid' = paid + c
    <3>1. /\ x.account \in 1..MaxEntries /\ x.month \in Months /\ x.by \in Int
          /\ Bucket(x.category) \in Buckets
      BY <2>5 DEF LedgerItems, Bucket, Buckets
    <3>2. PICK b \in Buckets : b = Bucket(x.category)
      BY <3>1
    <3>3. /\ ledger[x.account] \in [Months -> [Buckets -> Int]]
          /\ ledger[x.account][x.month] \in [Buckets -> Int]
          /\ ledger \in [1..MaxEntries -> [Months -> [Buckets -> Int]]]
      BY <3>1 DEF OfficeOK
    <3>4. CASE x.account = a /\ x.month = m
      <4>1. ledger'[a][m] = [ledger[a][m] EXCEPT ![b] = @ + x.by]
        BY <2>3, <3>2, <3>3, <3>4
      <4>2. /\ ledger[a][m] \in [Buckets -> Int] /\ c = x.by
            /\ "total_paid" \in Buckets /\ "total_advance" \in Buckets
        BY <3>3, <3>4 DEF ItemFor, Buckets
      <4>3. CASE b = "total_paid"
        BY <1>0, <3>1, <4>1, <4>2, <4>3
      <4>4. CASE b = "total_advance"
        BY <1>0, <3>1, <4>1, <4>2, <4>4
      <4> QED
        BY <4>3, <4>4 DEF Buckets
    <3>5. CASE ~(x.account = a /\ x.month = m)
      <4>1. ledger'[a][m] = ledger[a][m]
        BY <2>3, <3>3, <3>5
      <4> QED
        BY <1>0, <3>5, <4>1 DEF ItemFor
    <3> QED
      BY <3>4, <3>5
  <2>7. c \in Int /\ 0 - c \in Int /\ Owed(t, a, m)' = Owed(t, a, m) + (0 - c)
    <3>1. Owed(t, a, m) = ListFor(s, a, m)
      BY <2>1, <2>3 DEF Owed
    <3>2. CASE Len(s) > 1
      <4>1. pc'[t] = "adjust" /\ job'[t] = [j EXCEPT !.todo = Tail(s)]
        BY <1>0, <2>1, <2>3, <3>2 DEF FinishItem, Continue
      <4>2. job'[t].todo = Tail(s)
        BY <2>4, <4>1 DEF AdjustJobs
      <4>3. Len(s) = 2 /\ s[2] \in LedgerItems /\ Len(Tail(s)) = 1 /\ Tail(s)[1] = s[2]
        BY <2>4, <3>2, TwoItems
      <4>4. ItemFor(s[2], a, m) \in Int
        BY <4>3, ItemShare
      <4>5. ListFor(s, a, m) = c + ItemFor(s[2], a, m)
        BY <2>5, <4>3 DEF ListFor
      <4>6. ListFor(Tail(s), a, m) = ItemFor(s[2], a, m) + 0
        <5>1. PICK r : r = Tail(s)
          OBVIOUS
        <5>2. Len(r) = 1 /\ r[1] = s[2]
          BY <4>3, <5>1, Zenon
        <5>3. ListFor(r, a, m) = ItemFor(r[1], a, m) + 0
          BY <5>2 DEF ListFor
        <5> QED
          BY <5>1, <5>2, <5>3, Zenon
      <4>7. Owed(t, a, m)' = ListFor(Tail(s), a, m)
        BY <4>1, <4>2 DEF Owed, ListFor, ItemFor
      <4> HIDE DEF c
      <4> QED
        BY <2>5, <3>1, <4>4, <4>5, <4>6, <4>7 DEF c
    <3>3. CASE ~(Len(s) > 1)
      <4>1. pc'[t] = "idle"
        BY <1>0, <2>1, <2>3, <3>3 DEF FinishItem, Finish, Continue
      <4>2. Owed(t, a, m)' = 0
        BY <4>1 DEF Owed
      <4>3. ListFor(s, a, m) = c + 0
        BY <2>4, <2>5, <3>3 DEF ListFor
      <4> QED
        BY <2>5, <3>1, <4>2, <4>3
    <3> QED
      BY <2>5, <3>2, <3>3
  <2> HIDE DEF c
  <2>8. sum' = sum + (c + (0 - c))
    <3>1. EntriesFor(a, m)' = EntriesFor(a, m)
      BY <2>3 DEF EntriesFor, EntryFor
    <3>2. sum \in Int
      BY EntriesTyped
    <3> QED
      BY <2>7, <3>1, <3>2
  <2> HIDE DEF paid, sum
  <2> QED
    BY <1>1, <2>6, <2>7, <2>8
<1>8. CASE ChangeWrite(t) \/ RemoveWrite(t)
  <2>1. PICK i : i = j.entry
    OBVIOUS
  <2>2. PICK old : old = entries[i]
    OBVIOUS
  <2>3. PICK new : new = entries'[i]
    OBVIOUS
  <2>4. /\ ledger' = ledger /\ pc[t] \in {"change", "remove"} /\ j \in ChangeJobs /\ i \in DOMAIN entries
        /\ \/ ChangeWrite(t) /\ pc[t] = "change" /\ entries' = [entries EXCEPT ![i] = [old EXCEPT !.now = j.body]]
           \/ RemoveWrite(t) /\ pc[t] = "remove" /\ entries' = [entries EXCEPT ![i] = [old EXCEPT !.deleted = TRUE]]
    BY <1>0, <1>8, <2>1, <2>2 DEF ChangeWrite, RemoveWrite, At, OfficeJob
  <2>5. DOMAIN entries' = DOMAIN entries /\ \A k \in DOMAIN entries \ {i} : entries'[k] = entries[k]
    BY <2>4
  <2>6. old \in Entries /\ new \in Entries /\ ~old.deleted /\ j.seen = old
    <3>1. entries[i] \in Entries
      BY <2>4, OfficeRows
    <3>2. entries'[i] \in Entries
      BY <2>4, <2>5 DEF OfficeOK
    <3> QED
      BY <1>0, <2>1, <2>2, <2>3, <2>4, <3>1, <3>2 DEF ChangeKnows
  <2> DEFINE was == EntryFor(old, a, m)
             is == EntryFor(new, a, m)
  <2>7. was \in Int /\ is \in Int /\ is - was \in Int
    BY <2>6, ItemShare
  <2>8. sum \in Int /\ sum' = sum + (is - was)
    BY <2>2, <2>3, <2>4, <2>5, EntryChanges
  <2>9. Owed(t, a, m) = 0
    BY <2>4 DEF Owed
  <2>10. Owed(t, a, m)' = is - was
    <3>1. CASE ChangeWrite(t) /\ EditMoves(old, j.body) = << >>
      <4>1. pc'[t] = "idle"
        BY <1>0, <2>6, <3>1 DEF ChangeWrite, Finish, Continue
      <4>2. entries' = [entries EXCEPT ![i] = [old EXCEPT !.now = j.body]]
        BY <1>0, <2>1, <2>2, <3>1 DEF ChangeWrite
      <4>3. new = [old EXCEPT !.now = j.body]
        BY <2>3, <2>4, <4>2
      <4>4. new.now = j.body /\ new.account = old.account /\ ~new.deleted
        BY <2>6, <4>3 DEF Entries
      <4>5. old.now.amount = j.body.amount /\ old.now.month = j.body.month
        BY <3>1 DEF EditMoves
      <4>6. is = was
        BY <2>6, <4>4, <4>5 DEF EntryFor
      <4> QED
        BY <2>7, <4>1, <4>6 DEF Owed
    <3>2. CASE ChangeWrite(t) /\ EditMoves(old, j.body) # << >>
      <4>1. PICK x : x = Move(old.account, old.now, -1)
        OBVIOUS
      <4>2. PICK y : y = Move(old.account, j.body, 1)
        OBVIOUS
      <4>3. EditMoves(old, j.body) = <<x, y>>
        BY <3>2, <4>1, <4>2 DEF EditMoves
      <4>4. pc'[t] = "adjust" /\ job'[t].todo = <<x, y>>
        BY <1>0, <2>6, <3>2, <4>3 DEF ChangeWrite, Continue
      <4>5. entries' = [entries EXCEPT ![i] = [old EXCEPT !.now = j.body]]
        BY <1>0, <2>1, <2>2, <3>2 DEF ChangeWrite
      <4>6. new = [old EXCEPT !.now = j.body]
        BY <2>3, <2>4, <4>5
      <4>7. new.now = j.body /\ new.account = old.account /\ ~new.deleted
        BY <2>6, <4>6 DEF Entries
      <4>8. ItemFor(x, a, m) = 0 - was /\ ItemFor(y, a, m) = is
        BY <2>6, <4>1, <4>2, <4>7, ItemShare
      <4>9. ListFor(<<x, y>>, a, m) = (0 - was) + is
        BY <4>8 DEF ListFor
      <4>10. Owed(t, a, m)' = ListFor(<<x, y>>, a, m)
        BY <4>4 DEF Owed, ListFor, ItemFor
      <4> HIDE DEF was, is
      <4> QED
        BY <2>7, <4>9, <4>10
    <3>3. CASE RemoveWrite(t)
      <4>1. PICK x : x = Move(old.account, old.now, -1)
        OBVIOUS
      <4>2. pc'[t] = "adjust" /\ job'[t].todo = <<x>>
        BY <1>0, <2>6, <3>3, <4>1 DEF RemoveWrite, Continue
      <4>3. entries' = [entries EXCEPT ![i] = [old EXCEPT !.deleted = TRUE]]
        BY <1>0, <2>1, <2>2, <3>3 DEF RemoveWrite
      <4>4. new = [old EXCEPT !.deleted = TRUE]
        BY <2>3, <2>4, <4>3
      <4>5. new.deleted
        BY <2>6, <4>4 DEF Entries
      <4>6. is = 0
        BY <4>5 DEF EntryFor
      <4>7. ItemFor(x, a, m) = 0 - was
        BY <2>6, <4>1, ItemShare
      <4>8. ListFor(<<x>>, a, m) = (0 - was) + 0
        BY <4>7 DEF ListFor
      <4>9. Owed(t, a, m)' = ListFor(<<x>>, a, m)
        BY <4>2 DEF Owed, ListFor, ItemFor
      <4> HIDE DEF was, is
      <4> QED
        BY <2>7, <4>6, <4>8, <4>9
    <3> QED
      BY <2>4, <3>1, <3>2, <3>3
  <2>11. paid' = paid + 0
    BY <1>0, <2>4
  <2> HIDE DEF was, is
  <2>12. sum' = sum + (0 + (is - was)) /\ Owed(t, a, m)' = Owed(t, a, m) + (is - was)
    BY <2>7, <2>8, <2>9, <2>10
  <2> HIDE DEF paid, sum
  <2> QED
    BY <1>1, <2>7, <2>11, <2>12
<1>9. \A i \in 1..MaxEntries, body \in Bodies : StartChange(t, i, "change", body) => PaidUp(a, m)'
  BY <1>4
<1>10. \A i \in 1..MaxEntries : StartChange(t, i, "remove", entries[i].now) => PaidUp(a, m)'
  BY <1>4
<1> QED
  BY <1>3, <1>5, <1>6, <1>7, <1>8, <1>9, <1>10 DEF OfficeStep

\* Every step keeps the invariant of the back office.
LEMMA OfficeInvStep ==
  ASSUME TypeOK, OfficeInv, [Next]_vars
  PROVE  OfficeInv'
<1>0. TasksOK /\ OfficeOK /\ restarts \in Nat
  BY DEF TypeOK, WorldOK, OfficeInv
<1>1. ASSUME NEW t \in Tasks, OfficeStep(t), Others(t), restarts' = restarts
      PROVE  OfficeInv'
  <2>1. OfficeOK'
    BY <1>0, <1>1, OfficeTyped
  <2>2. clashed => clashed'
    BY <1>1 DEF OfficeStep, StartAdd, StartChange, Resolve, CreateAccount, AddInsert, AdjustLedger,
                ChangeWrite, RemoveWrite, officeVars
  <2>3. ASSUME ~clashed', restarts = 0
        PROVE  RowsKnown' /\ \A a \in 1..MaxEntries, m \in Months : PaidUp(a, m)'
    <3>1. RowsKnown /\ \A a \in 1..MaxEntries, m \in Months : PaidUp(a, m)
      BY <2>2, <2>3 DEF OfficeInv
    <3>2. RowsKnown'
      BY <1>0, <1>1, <2>3, <3>1, RowsKnownStep
    <3> QED
      BY <1>0, <1>1, <2>1, <2>3, <3>1, <3>2, PaidUpStep
  <2> QED
    BY <1>1, <2>1, <2>3 DEF OfficeInv
<1>2. CASE OfficeRests
  <2>1. accounts' = accounts /\ entries' = entries /\ ledger' = ledger /\ clashed' = clashed
    BY <1>2 DEF OfficeRests, officeVars
  <2>2. CASE restarts' = restarts
    <3>1. \A u \in Tasks : \/ pc'[u] = pc[u] /\ job'[u] = job[u]
                           \/ pc[u] \notin OfficePCs /\ pc'[u] \notin OfficePCs
                           \/ restarts # 0 /\ pc'[u] = "idle"
      BY <1>2, <2>2 DEF OfficeRests
    <3>2. OfficeOK'
      BY <1>0, <2>1, <3>1 DEF OfficeOK, OfficeJob, OfficePCs
    <3>3. ASSUME ~clashed', restarts = 0
          PROVE  RowsKnown' /\ \A a \in 1..MaxEntries, m \in Months : PaidUp(a, m)'
      <4>1. RowsKnown /\ \A a \in 1..MaxEntries, m \in Months : PaidUp(a, m)
        BY <2>1, <3>3 DEF OfficeInv
      <4>2. \A u \in Tasks : \/ pc'[u] = pc[u] /\ job'[u] = job[u]
                             \/ pc[u] \notin OfficePCs /\ pc'[u] \notin OfficePCs
        BY <3>1, <3>3
      <4>3. RowsKnown'
        <5>1. \A u \in Tasks : ChangeKnows(u)'
          BY <2>1, <4>1, <4>2 DEF RowsKnown, ChangeKnows, OfficePCs
        <5>2. \A u, v \in Tasks : OneToARow(u, v)'
          BY <2>1, <4>1, <4>2 DEF RowsKnown, OneToARow, Working, OfficePCs
        <5> QED
          BY <5>1, <5>2 DEF RowsKnown
      <4>4. ASSUME NEW a \in 1..MaxEntries, NEW m \in Months PROVE PaidUp(a, m)'
        <5>1. \A u \in Tasks : Owed(u, a, m)' = Owed(u, a, m)
          BY <4>2 DEF Owed, OfficePCs
        <5>2. OwedTo(a, m)' = OwedTo(a, m)
          BY <5>1 DEF OwedTo
        <5>3. EntriesFor(a, m)' = EntriesFor(a, m)
          BY <2>1 DEF EntriesFor, EntryFor
        <5> QED
          BY <2>1, <4>1, <5>2, <5>3 DEF PaidUp
      <4> QED
        BY <4>3, <4>4
    <3> QED
      BY <2>2, <3>2, <3>3 DEF OfficeInv
  <2>3. CASE restarts' # 0 /\ \A u \in Tasks : pc'[u] = "idle"
    <3>1. OfficeOK'
      BY <1>0, <2>1, <2>3 DEF OfficeOK, OfficeJob
    <3> QED
      BY <2>3, <3>1 DEF OfficeInv
  <2> QED
    BY <1>2, <2>2, <2>3 DEF OfficeRests
<1> QED
  BY <1>1, <1>2, OfficeOrNot

\* The invariant of the back office at the start.
LEMMA OfficeInvInit == Init => OfficeInv
<1> SUFFICES ASSUME Init PROVE OfficeInv
  OBVIOUS
<1>1. /\ \A t \in Tasks : pc[t] = "idle"
      /\ accounts = << >> /\ entries = << >>
      /\ ledger = [a \in 1..MaxEntries |-> [m \in Months |-> [b \in Buckets |-> 0]]]
  BY DEF Init, TasksInit, OfficeInit
<1>2. OfficeOK
  BY <1>1, OfficeAssumption DEF OfficeOK, OfficeJob
<1>3. ASSUME NEW a \in 1..MaxEntries, NEW m \in Months PROVE PaidUp(a, m)
  <2>1. ledger[a][m].total_paid = 0 /\ ledger[a][m].total_advance = 0
    BY <1>1 DEF Buckets
  <2>2. SumFunction(OwedTo(a, m)) = 0
    <3>1. DOMAIN OwedTo(a, m) = Tasks /\ \A t \in Tasks : OwedTo(a, m)[t] = 0
      BY <1>1 DEF OwedTo, Owed
    <3> QED
      BY <3>1, SumOfZeros, DeskAssumption DEF SumFunction
  <2>3. SumFunction(EntriesFor(a, m)) = 0
    <3>1. DOMAIN EntriesFor(a, m) = {}
      BY <1>1 DEF EntriesFor
    <3> QED
      BY <3>1, SumOfNone DEF SumFunction
  <2> QED
    BY <2>1, <2>2, <2>3 DEF PaidUp
<1>4. \A t, u \in Tasks : ChangeKnows(t) /\ OneToARow(t, u)
  BY <1>1 DEF ChangeKnows, OneToARow, Working
<1> QED
  BY <1>2, <1>3, <1>4 DEF OfficeInv, RowsKnown

\* When nobody has a statement on the ledger left, it is the sum of the rows.
LEMMA LedgerFollows == OfficeInv => LedgerFollowsRows
<1> SUFFICES ASSUME OfficeInv, ~clashed, restarts = 0, \A t \in Tasks : pc[t] # "adjust",
                    NEW a \in DOMAIN accounts, NEW m \in Months
             PROVE  ledger[a][m].total_paid + ledger[a][m].total_advance = Total(a, m)
  BY DEF LedgerFollowsRows
<1>1. a \in 1..MaxEntries /\ OfficeOK /\ PaidUp(a, m)
  <2>1. OfficeOK
    BY DEF OfficeInv
  <2> QED
    BY <2>1, OfficeRows DEF OfficeInv
<1>2. SumFunction(OwedTo(a, m)) = 0
  <2>1. DOMAIN OwedTo(a, m) = Tasks /\ \A t \in Tasks : OwedTo(a, m)[t] = 0
    BY DEF OwedTo, Owed
  <2> QED
    BY <2>1, SumOfZeros, DeskAssumption DEF SumFunction
<1>3. Total(a, m) = SumFunction(EntriesFor(a, m))
  <2>1. [i \in DOMAIN entries |-> IF i \in Live(a, m) THEN entries[i].now.amount ELSE 0] = EntriesFor(a, m)
    BY DEF Live, EntriesFor, EntryFor
  <2> QED
    BY <2>1 DEF Total
<1>4. ledger[a][m].total_paid \in Int /\ ledger[a][m].total_advance \in Int
  <2>1. ledger[a][m] \in [Buckets -> Int]
    BY <1>1 DEF OfficeOK
  <2> QED
    BY <2>1 DEF Buckets
<1> QED
  BY <1>1, <1>2, <1>3, <1>4 DEF PaidUp

-----------------------------------------------------------------------------
(* The theorems *)

DeskInv ==
  /\ TypeOK /\ AloneInv /\ BookInv /\ RunInv /\ EvidenceInv /\ RolesInv
  /\ SentInv /\ ApproveInv /\ FreshInv /\ OverlapInv

\* The invariant holds at the start.
LEMMA DeskInvInit == Init => DeskInv
<1> SUFFICES ASSUME Init PROVE DeskInv
  OBVIOUS
<1>1. TypeOK
  BY TypeInit
<1>2. /\ \A t \in Tasks : pc[t] = "idle"
      /\ env \in Environments /\ rows = << >> /\ DOMAIN rows = {}
      /\ runs = env.month /\ paidLog = << >> /\ DOMAIN paidLog = {}
  BY DEF Init, TasksInit, DeskInit, PaydayInit
<1>3. /\ booked = [k \in Keys |-> 0] /\ delivered = [d \in 1..MaxRows |-> 0]
      /\ asked = [d \in 1..MaxRows |-> 0]
  BY DEF Init, PaydayInit, DeskInit, SessionsInit, Keys
<1>4. AloneInv
  BY <1>2 DEF AloneInv
<1>5. BookInv
  BY <1>2, <1>3 DEF BookInv
<1>6. RunInv
  <2>1. env \in Environments /\ runs = env.month
    BY DEF Init, TasksInit, PaydayInit
  <2>2. OneActive(runs)
    BY <2>1, DeskAssumption
  <2> QED
    BY <1>2, <2>2 DEF RunInv
<1>7. EvidenceInv
  BY <1>2, <1>3 DEF EvidenceInv
<1>8. RolesInv
  <2> DEFINE u == [p \in Phones |-> IF p \in DOMAIN env.users THEN User({env.users[p]}) ELSE NoUser]
  <2>1. users = Bootstrapped(u)
    BY DEF Init, RolesInit
  <2>2. ASSUME NEW p \in Phones, users[p].status = "none" PROVE users[p].roles = {}
    <3>1. u[p] = IF p \in DOMAIN env.users THEN User({env.users[p]}) ELSE NoUser
      OBVIOUS
    <3> HIDE DEF u
    <3>2. users[p] = IF p \notin Owners THEN u[p]
                     ELSE IF u[p].status = "none" THEN User({"superadmin"})
                     ELSE [u[p] EXCEPT !.roles = @ \cup {"superadmin"}]
      BY <2>1 DEF Bootstrapped
    <3> QED
      BY <2>2, <3>1, <3>2 DEF User, NoUser
  <2> QED
    BY <1>2, <2>2 DEF RolesInv, GrantPCs
<1>9. SentInv
  BY <1>2, <1>3 DEF SentInv
<1>10. ApproveInv
  BY <1>2 DEF ApproveInv, ApproveTask, ApprovePCs
<1>11. FreshInv
  BY <1>2 DEF FreshInv, FreshTask, ApprovePCs
<1>12. OverlapInv
  <2>1. Busy = {} /\ env.atOnce \in Nat
    BY <1>2, DeskAssumption DEF Busy
  <2>2. Cardinality(Busy) = 0
    BY <2>1, FS_EmptySet
  <2> QED
    BY <1>2, <2>1, <2>2 DEF OverlapInv, BusyInv
<1> QED
  BY <1>1, <1>4, <1>5, <1>6, <1>7, <1>8, <1>9, <1>10, <1>11, <1>12 DEF DeskInv

\* Every step keeps it.
LEMMA DeskInvStep == DeskInv /\ [Next]_vars => DeskInv' /\ RolesGranted
<1> SUFFICES ASSUME DeskInv, [Next]_vars PROVE DeskInv' /\ RolesGranted
  OBVIOUS
<1>0. /\ TypeOK /\ AloneInv /\ BookInv /\ RunInv /\ EvidenceInv /\ RolesInv
      /\ SentInv /\ ApproveInv /\ FreshInv /\ OverlapInv
  BY DEF DeskInv
<1>1. TypeOK' /\ Moves /\ env' = env /\ RowsKept(rows, rows')
  BY <1>0, TypeStep
<1>2. AloneInv' /\ BookInv' /\ RunInv'
  BY <1>0, <1>1, AloneStep, BookStep, RunStep
<1>3. EvidenceInv' /\ RolesInv' /\ RolesGranted
  BY <1>0, <1>1, EvidenceStep, RolesInvStep, RolesGrantedStep
<1>4. SentInv' /\ ApproveInv' /\ FreshInv' /\ OverlapInv'
  BY <1>0, <1>1, SentInvStep, ApproveInvStep, FreshInvStep, OverlapInvStep
<1> QED
  BY <1>1, <1>2, <1>3, <1>4 DEF DeskInv

\* The desk's invariant holds in every world.
THEOREM DeskInvariant == Spec => []DeskInv
<1>1. DeskInv /\ [Next]_vars => DeskInv'
  BY DeskInvStep
<1> QED
  BY <1>1, DeskInvInit, PTL DEF Spec

\* APPROVE (_cmd_approve): what is marked sent was delivered, with its attendance
\* written; for each edit a row is delivered at most once by each of the approvals
\* that overlap, and a row that waits was not delivered since its last edit while
\* they do not.
THEOREM SentAsApprovedHolds == Spec => []SentAsApproved
<1>1. DeskInv => SentAsApproved
  BY SentFollows DEF DeskInv
<1> QED
  BY <1>1, DeskInvariant, PTL

\* advance_verification: no payment draft without the pictures it needs, however
\* messages and commands overlap.
THEOREM EvidenceFirst == Spec => []EvidenceBeforeDraft
<1>1. DeskInv => EvidenceBeforeDraft
  <2> SUFFICES ASSUME DeskInv, NEW d \in DOMAIN rows, asked[d] > 0
               PROVE  shown[d] >= (IF rows[d].asks = "advance" THEN 2 ELSE 1)
    BY DEF EvidenceBeforeDraft
  <2>1. d \in 1..MaxRows
    BY RowIds DEF DeskInv, TypeOK
  <2>2. shown[d] >= Needed(rows[d].asks)
    BY <2>1 DEF DeskInv, EvidenceInv
  <2> QED
    BY <2>2 DEF Needed
<1> QED
  BY <1>1, DeskInvariant, PTL

\* Nobody is paid twice by payroll runs whose transitions do not overlap, and no
\* payment message is booked twice on a day (_transition, _ingest_parsed).
THEOREM PaidOnceHolds == Spec => []PaidOnce
<1>1. DeskInv => PaidOnce
  BY PaidOnceFollows DEF DeskInv
<1> QED
  BY <1>1, DeskInvariant, PTL

\* Only the routes, the bootstrap of an owner or a superadmin add a role
\* (check_permission, set_role, add_admin).
THEOREM OnlySuperadminsGrant == Spec => RolesFromSuperadmin
<1>1. DeskInv /\ [Next]_vars =>
        [\A p \in Phones :
           \/ users'[p].roles \subseteq users[p].roles
           \/ restarts' # restarts \/ env.failures
           \/ ~Calm /\ "user_revoke" \in env.routes
           \/ \E t \in Tasks : /\ At(t, "grant")
                               /\ job[t].by = "http" \/ "superadmin" \in users[job[t].by].roles]_vars
  BY DeskInvStep DEF RolesGranted
<1> QED
  BY <1>1, DeskInvariant, PTL DEF Spec, RolesFromSuperadmin

\* However requests on different rows interleave, the ledger of an employee's month
\* is the sum of the transactions that are not deleted: every statement on a row
\* leaves its request what the ledger lacks (edit_admin_transaction,
\* soft_delete_transaction, _adjust_ledger).
THEOREM LedgerFollowsRowsHolds == Spec => []LedgerFollowsRows
<1>1. TypeOK /\ OfficeInv /\ [Next]_vars => OfficeInv'
  BY OfficeInvStep
<1> QED
  BY <1>1, OfficeInvInit, LedgerFollows, TypeCorrect, PTL DEF Spec
=============================================================================
