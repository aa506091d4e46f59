--------------------------- MODULE EscortRelease ---------------------------
(***************************************************************************)
(* The end of an escort duty (modules/escort_lifecycle): a release message *)
(* or slip of an employee, or the admin's RELEASE command, closes the      *)
(* program (wbom_escort_programs), fills in the attendance of its days     *)
(* (wbom_attendance) and makes a payment draft (fazle_payment_drafts).     *)
(* Two paths write the status 'confirmed': the admin's completed order     *)
(* (modules/escort) and ESCORTCONFIRM (modules/admin_commands).            *)
(*                                                                         *)
(* Handlers are split at their awaits; no statement shares a transaction   *)
(* with another.  escort_employee_id and the cancellation of a program are *)
(* written by another system.  Dates are numbers; the release happens on   *)
(* day ReleaseDay.                                                         *)
(***************************************************************************)
EXTENDS Integers, Sequences, FiniteSets, FiniteSetsExt

CONSTANTS
  Programs,     \* program_id
  Employees,
  NoEmp,        \* escort_employee_id is NULL
  LastDutyDay,  \* bound: the days of a behaviour are 1 .. LastDutyDay
  ReleaseDay,   \* date.today() of the release
  Slips,        \* release messages and slips, each about one duty of its sender
  NoSlip,       \* a RELEASE command
  Handlers,     \* tasks that serve a request at a time
  MaxReleases   \* bound: releases and confirmations served in a behaviour

ASSUME ReleaseAssumption ==
  /\ Programs \subseteq Nat /\ Programs # {} /\ Employees # {} /\ NoEmp \notin Employees
  /\ LastDutyDay \in Nat /\ ReleaseDay \in 1..LastDutyDay /\ NoSlip \notin Slips
  /\ MaxReleases \in Nat

VARIABLES
  duties,      \* wbom_escort_programs
  attendance,  \* wbom_attendance: pairs of employee and date
  drafts,      \* the escort payment drafts
  pc, req,     \* a handler: its position and the release at hand
  requests,    \* requests served so far
  setting      \* what may happen: requests that overlap, statements that fail

releaseVars == <<duties, attendance, drafts, pc, req, requests, setting>>

DutyDays == 1..LastDutyDay
Open == {"draft", "confirmed"}
\* end and days are 0 until a program is closed.
Duty == [status : Open \cup {"Completed", "Cancelled"}, emp : Employees \cup {NoEmp},
         start : DutyDays, end : DutyDays \cup {0}, days : 0..LastDutyDay]
PaymentDraft == [program : Programs, emp : Employees, days : 0..LastDutyDay, slip : Slips \cup {NoSlip}]
NoDays == -1
\* What a handler keeps between awaits.  days: NoDays until close_program computes
\* them, when none were given.  already: the program
\* was found Completed.  day, last: the rest of the attendance loop.
ReleaseJob == [program : Programs, emp : Employees \cup {NoEmp}, slip : Slips \cup {NoSlip},
               end : DutyDays, days : NoDays..LastDutyDay, already : BOOLEAN, day : Nat, last : Nat]
PCs == {"idle", "close_read", "close_update", "backfill_read", "backfill", "draft", "confirm"}

Goto(h, l) == pc' = [pc EXCEPT ![h] = l]
\* Handler h may take a request.
Free(h) == /\ pc[h] = "idle" /\ requests < MaxReleases
           /\ setting.overlap \/ \A g \in Handlers : pc[g] = "idle"
DraftsOf(p) == {i \in DOMAIN drafts : drafts[i].program = p}

ReleaseInit ==
  /\ duties \in [Programs -> {r \in Duty : r.status \in Open /\ r.end = 0 /\ r.days = 0}]
  /\ attendance = {} /\ drafts = << >>
  /\ pc = [h \in Handlers |-> "idle"]
  /\ req = [h \in Handlers |->
              [program |-> CHOOSE p \in Programs : TRUE, emp |-> NoEmp,
               slip |-> NoSlip, end |-> ReleaseDay, days |-> NoDays,
               already |-> FALSE, day |-> 0, last |-> 0]]
  /\ requests = 0
  /\ setting \in [overlap : BOOLEAN, failures : BOOLEAN]

-----------------------------------------------------------------------------
(* The other system *)

AssignEscort(p, e) ==
  /\ duties[p].emp = NoEmp /\ duties[p].status \in Open
  /\ duties' = [duties EXCEPT ![p].emp = e]
  /\ UNCHANGED <<attendance, drafts, pc, req, requests, setting>>

CancelDuty(p) ==
  /\ duties[p].status \in Open
  /\ duties' = [duties EXCEPT ![p].status = "Cancelled"]
  /\ UNCHANGED <<attendance, drafts, pc, req, requests, setting>>

-----------------------------------------------------------------------------
(* Confirmations *)

\* handle_admin_escort_completion looks for a 'draft' program of the vessel ...
CompletionFind(h, p) ==
  /\ Free(h) /\ duties[p].status = "draft"
  /\ req' = [req EXCEPT ![h].program = p]
  /\ Goto(h, "confirm")
  /\ requests' = requests + 1
  /\ UNCHANGED <<duties, attendance, drafts, setting>>

\* ... and updates it by its id, without looking at the status again.  The
\* message may carry a date.
ConfirmProgram(h) ==
  LET p == req[h].program IN
  /\ pc[h] = "confirm"
  /\ \E d \in DutyDays : duties' = [duties EXCEPT ![p].status = "confirmed", ![p].start = d]
  /\ Goto(h, "idle")
  /\ UNCHANGED <<attendance, drafts, req, requests, setting>>

\* Mutant: the text in the remarks does not stop the command.
Mut_CmdEscortConfirm(p) ==
  /\ duties' = [duties EXCEPT ![p].status = "confirmed"]
  /\ UNCHANGED <<attendance, drafts, pc, req, requests, setting>>

\* ESCORTCONFIRM takes a program of any status, a cancelled one too, but it
\* casts the remarks to jsonb: close_program has appended plain text to those of
\* a closed program, and the command fails.
CmdEscortConfirm(p) ==
  /\ duties[p].end = 0
  /\ duties' = [duties EXCEPT ![p].status = "confirmed"]
  /\ UNCHANGED <<attendance, drafts, pc, req, requests, setting>>

-----------------------------------------------------------------------------
(* Releases *)

\* The open programs of an employee that have started.
ActivePrograms(e) == {p \in Programs : /\ duties[p].emp = e
                                       /\ duties[p].status \in Open
                                       /\ duties[p].start <= ReleaseDay}
\* ORDER BY program_date DESC, program_id DESC
Later(p, q) == \/ duties[p].start > duties[q].start
               \/ duties[p].start = duties[q].start /\ p >= q

Release(h, p, e, s, end, days) ==
  /\ Free(h)
  /\ req' = [req EXCEPT ![h] = [program |-> p, emp |-> e, slip |-> s, end |-> end, days |-> days,
                                already |-> FALSE, day |-> 0, last |-> 0]]
  /\ Goto(h, "close_read")
  /\ requests' = requests + 1
  /\ UNCHANGED <<duties, attendance, drafts, setting>>

\* handle_release_event: the latest active program of the employee.  The slip may
\* name an end date (any) and a number of days; without them today and what the
\* dates give.  Without an active program nothing happens.
HandleReleaseEvent(h, e, s) ==
  \E p \in ActivePrograms(e), end \in DutyDays, days \in NoDays..LastDutyDay :
    /\ \A q \in ActivePrograms(e) : Later(p, q)
    /\ Release(h, p, e, s, end, days)

\* handle_admin_release_confirmation: the admin's own message to the employee, read
\* back from the bridge and marked as seen before it is handled.
HandleAdminReleaseConfirmation(h, e) == HandleReleaseEvent(h, e, NoSlip)

\* RELEASE names the program; it asks only that an employee is set.
CmdRelease(h, p) ==
  \E end \in DutyDays, days \in NoDays..LastDutyDay :
    /\ duties[p].emp # NoEmp
    /\ Release(h, p, duties[p].emp, NoSlip, end, days)

\* close_program reads the status.  A number of days computed from the dates is at
\* least 1; a given one is taken as it is, 0 too.
CloseRead(h) ==
  LET p == req[h].program IN
  /\ pc[h] = "close_read"
  /\ \/ /\ duties[p].status = "Completed"
        /\ req' = [req EXCEPT ![h].already = TRUE, ![h].days = duties[p].days]
        /\ Goto(h, "backfill_read")
     \/ /\ duties[p].status # "Completed"
        /\ req' = [req EXCEPT ![h].days =
                     IF @ = NoDays THEN Max({req[h].end - duties[p].start + 1, 1}) ELSE @]
        /\ Goto(h, "close_update")
  /\ UNCHANGED <<duties, attendance, drafts, requests, setting>>

\* The UPDATE has no condition on the status.
CloseUpdate(h) ==
  /\ pc[h] = "close_update"
  /\ duties' = [duties EXCEPT ![req[h].program].status = "Completed",
                                  ![req[h].program].end = req[h].end,
                                  ![req[h].program].days = req[h].days]
  /\ Goto(h, "backfill_read")
  /\ UNCHANGED <<attendance, drafts, req, requests, setting>>

\* Mutant: the status is looked at after the update.
Mut_AfterBackfill(h) == IF duties[req[h].program].status = "Completed" THEN "idle" ELSE "draft"

\* After the attendance: a program closed before gets no other draft.
AfterBackfill(h) == IF req[h].already THEN "idle" ELSE "draft"

\* Mutant: the days are those the slip gives, from the start of the program.
Mut_BackfillRead(h) ==
  LET p == duties[req[h].program] IN
  /\ pc[h] = "backfill_read"
  /\ req' = [req EXCEPT ![h].day = p.start, ![h].last = p.start + req[h].days - 1]
  /\ Goto(h, "backfill")
  /\ UNCHANGED <<duties, attendance, drafts, requests, setting>>

\* From program_date to end_date as the table has them now; an end before the
\* start counts as the start.
BackfillRead(h) ==
  LET p == duties[req[h].program] IN
  /\ pc[h] = "backfill_read"
  /\ req' = [req EXCEPT ![h].day = p.start, ![h].last = Max({p.start, p.end})]
  /\ Goto(h, "backfill")
  /\ UNCHANGED <<duties, attendance, drafts, requests, setting>>

\* One INSERT ... ON CONFLICT DO NOTHING per day.
BackfillDay(h) ==
  /\ pc[h] = "backfill"
  /\ attendance' = attendance \cup {<<req[h].emp, req[h].day>>}
  /\ req' = [req EXCEPT ![h].day = @ + 1]
  /\ Goto(h, IF req[h].day >= req[h].last THEN AfterBackfill(h) ELSE "backfill")
  /\ UNCHANGED <<duties, drafts, requests, setting>>

\* create_escort_payment_draft does not look for an earlier draft.
CreateDraft(h) ==
  /\ pc[h] = "draft"
  /\ drafts' = Append(drafts, [program |-> req[h].program, emp |-> req[h].emp,
                               days |-> req[h].days, slip |-> req[h].slip])
  /\ Goto(h, "idle")
  /\ UNCHANGED <<duties, attendance, req, requests, setting>>

\* A statement raises, the employee is not found, or the process restarts:
\* nothing resumes the release.
Fail(h) ==
  /\ setting.failures /\ pc[h] # "idle"
  /\ Goto(h, "idle")
  /\ UNCHANGED <<duties, attendance, drafts, req, requests, setting>>

HandlerStep(h) == \/ ConfirmProgram(h) \/ CloseRead(h) \/ CloseUpdate(h)
                  \/ BackfillRead(h) \/ BackfillDay(h) \/ CreateDraft(h)

ReleaseNext ==
  \/ \E p \in Programs, e \in Employees : AssignEscort(p, e)
  \/ \E p \in Programs : CancelDuty(p)
  \/ \E p \in Programs : CmdEscortConfirm(p)
  \/ \E h \in Handlers, p \in Programs : CompletionFind(h, p)
  \/ \E h \in Handlers, e \in Employees, s \in Slips : HandleReleaseEvent(h, e, s)
  \/ \E h \in Handlers, e \in Employees : HandleAdminReleaseConfirmation(h, e)
  \/ \E h \in Handlers, p \in Programs : CmdRelease(h, p)
  \/ \E h \in Handlers : HandlerStep(h)
  \/ \E h \in Handlers : Fail(h)

ReleaseSpec == ReleaseInit /\ [][ReleaseNext]_releaseVars

\* A handler that has begun goes on.
ReleaseFairSpec == ReleaseSpec /\ \A h \in Handlers : WF_releaseVars(HandlerStep(h))

-----------------------------------------------------------------------------
(* Properties *)

\* Without overlapping requests a program has a draft only while it is Completed,
\* and never two: a release that failed half way, or is repeated, does not pay twice
\* (close_program answers already_closed, and ESCORTCONFIRM cannot reopen a closed
\* program); and the duty that is paid has attendance for each of its days
\* (backfill_attendance_for_program comes before the draft).
DraftsFollowClosures ==
  ~setting.overlap =>
    /\ \A p \in Programs :
         Cardinality(DraftsOf(p)) <= IF duties[p].status = "Completed" THEN 1 ELSE 0
    /\ \A i \in DOMAIN drafts :
         LET p == duties[drafts[i].program] IN
         \A d \in p.start .. p.end : <<drafts[i].emp, d>> \in attendance

\* Without overlapping requests a Completed program stays as it is: no confirmation
\* reopens it and no second release changes its dates (close_program: "UPDATE only
\* when status<>'Completed'").
CompletedStays ==
  [][~setting.overlap =>
       \A p \in Programs : duties[p].status = "Completed" => duties'[p] = duties[p]]_releaseVars

\* Without failures a program that is Completed gets its payment draft, also when
\* requests overlap (handle_release_event: close, backfill, draft).
CompletedIsDrafted ==
  \A p \in Programs : ~setting.failures /\ duties[p].status = "Completed" ~> DraftsOf(p) # {}

\* At most one draft per release event, however often it is delivered
\* (CHAOS_TEST_PLAN.md, C5).
OneDraftPerSlip ==
  \A i, j \in DOMAIN drafts :
    /\ drafts[i].slip # NoSlip
    /\ drafts[i].slip = drafts[j].slip /\ drafts[i].emp = drafts[j].emp
    => i = j
=============================================================================
