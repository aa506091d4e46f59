---------------------------- MODULE EscortProofs ----------------------------
(***************************************************************************)
(* Escort duties, from the order to the release, for any programs,         *)
(* employees, vessels, texts and handlers, although no statement shares a  *)
(* transaction with another.                                               *)
(*                                                                         *)
(* The end of a duty (EscortRelease): the properties speak of requests     *)
(* that do not overlap.  They are not inductive: the program is closed     *)
(* several awaits before the draft, and the attendance is written a day at *)
(* a time.  AtHandInv says what the one handler at work may rely on at     *)
(* each of its awaits.                                                     *)
(*                                                                         *)
(* Orders and the roster (EscortOrders): an edit writes the dates of an    *)
(* entry and its pay in two statements.  PayInv says which entries may     *)
(* have another's pay, and that what a sync or an edit has computed and    *)
(* not written yet fits its dates.                                         *)
(***************************************************************************)
EXTENDS EscortRelease, EscortOrders, FiniteSetTheorems, SequenceTheorems, NaturalsInduction,
        WellFoundedInduction, TLAPS

-----------------------------------------------------------------------------
(* The end of a duty *)

\* The type invariant.
TypeOK ==
  /\ duties \in [Programs -> Duty]
  /\ attendance \subseteq (Employees \cup {NoEmp}) \X Nat
  /\ drafts \in Seq(PaymentDraft)
  /\ pc \in [Handlers -> PCs] /\ req \in [Handlers -> ReleaseJob]
  /\ \A h \in Handlers : /\ pc[h] \in {"close_update", "backfill_read", "backfill", "draft"} => req[h].days # NoDays
                         /\ pc[h] \notin {"idle", "confirm"} => req[h].emp # NoEmp
  /\ requests \in Nat /\ setting \in [overlap : BOOLEAN, failures : BOOLEAN]

\* One handler is at work at a time.
AloneInv == \A g, h \in Handlers : pc[g] # "idle" /\ pc[h] # "idle" => g = h

\* Every day of a duty before day n has its attendance.
AttendedBefore(duty, at, e, n) == \A d \in DutyDays : duty.start <= d /\ d <= duty.end /\ d < n => <<e, d>> \in at

\* A program has an end date exactly when it is Completed, and only then a draft, one,
\* made after the attendance of its last day.
ProgramInv ==
  /\ \A p \in Programs : duties[p].status = "Completed" <=> duties[p].end # 0
  /\ \A i \in DOMAIN drafts : /\ duties[drafts[i].program].status = "Completed"
                              /\ AttendedBefore(duties[drafts[i].program], attendance, drafts[i].emp, LastDutyDay + 1)
  /\ \A i, j \in DOMAIN drafts : drafts[i].program = drafts[j].program => i = j

\* What the handler at work finds at its next statement.
AtHand(h) ==
  LET p == req[h].program IN
  /\ pc[h] \in {"confirm", "close_update"} => duties[p].end = 0
  /\ pc[h] \in {"backfill_read", "backfill", "draft"} =>
       duties[p].end # 0 /\ (req[h].already \/ DraftsOf(p) = {})
  /\ pc[h] = "backfill" => /\ AttendedBefore(duties[p], attendance, req[h].emp, req[h].day)
                           /\ req[h].last >= duties[p].end
  /\ pc[h] = "draft" => ~req[h].already /\ AttendedBefore(duties[p], attendance, req[h].emp, LastDutyDay + 1)
AtHandInv == \A h \in Handlers : AtHand(h)

ReleaseInv == TypeOK /\ (~setting.overlap => AloneInv /\ ProgramInv /\ AtHandInv)

\* A Completed program is not changed by the step.
CompletedKept == \A p \in Programs : duties[p].status = "Completed" => duties'[p] = duties[p]
-----------------------------------------------------------------------------
\* Max of two numbers.
LEMMA MaxOfTwo ==
  ASSUME NEW a \in Int, NEW b \in Int
  PROVE  Max({a, b}) = IF a >= b THEN a ELSE b
  BY DEF Max

\* What may happen is fixed by the initial state.
LEMMA EnvFixed ==
  ASSUME [ReleaseNext]_releaseVars
  PROVE  setting' = setting
  BY DEF ReleaseNext, HandlerStep, AssignEscort, CancelDuty, CmdEscortConfirm, CompletionFind, HandleReleaseEvent, HandleAdminReleaseConfirmation,
         CmdRelease, Release, ConfirmProgram, CloseRead, CloseUpdate, BackfillRead, BackfillDay, CreateDraft, Fail, releaseVars

\* All three kinds of request start the same release.
LEMMA ReleaseForm ==
  ASSUME NEW h \in Handlers, NEW e \in Employees, NEW s \in Slips \cup {NoSlip}, HandleReleaseEvent(h, e, s)
  PROVE  \E p \in Programs, end \in DutyDays, days \in NoDays..LastDutyDay : Release(h, p, e, s, end, days)
  BY DEF HandleReleaseEvent, ActivePrograms

\* The command of an admin starts the release of the employee its program names.
LEMMA CmdReleaseForm ==
  ASSUME ReleaseInv, NEW h \in Handlers, NEW p \in Programs, CmdRelease(h, p)
  PROVE  \E e \in Employees, end \in DutyDays, days \in NoDays..LastDutyDay : Release(h, p, e, NoSlip, end, days)
<1>1. duties[p].emp \in Employees
  BY DEF CmdRelease, ReleaseInv, TypeOK, Duty
<1> QED
  BY <1>1 DEF CmdRelease

\* A field of a program, and of the request at hand.
LEMMA ProgramFields ==
  ASSUME NEW f \in [Programs -> Duty], NEW p \in Programs
  PROVE  /\ \A s \in Open \cup {"Completed", "Cancelled"} : [f EXCEPT ![p].status = s] \in [Programs -> Duty]
         /\ \A e \in Employees : [f EXCEPT ![p].emp = e] \in [Programs -> Duty]
         /\ \A d \in DutyDays : [f EXCEPT ![p].start = d] \in [Programs -> Duty]
         /\ \A d \in DutyDays : [f EXCEPT ![p].end = d] \in [Programs -> Duty]
         /\ \A n \in 0..LastDutyDay : [f EXCEPT ![p].days = n] \in [Programs -> Duty]
<1>1. ASSUME NEW s \in Open \cup {"Completed", "Cancelled"} PROVE [f EXCEPT ![p].status = s] \in [Programs -> Duty]
  <2>1. [f[p] EXCEPT !.status = s] \in Duty
    BY DEF Duty
  <2> QED
    BY <2>1
<1>2. ASSUME NEW e \in Employees PROVE [f EXCEPT ![p].emp = e] \in [Programs -> Duty]
  <2>1. [f[p] EXCEPT !.emp = e] \in Duty
    BY DEF Duty
  <2> QED
    BY <2>1
<1>3. ASSUME NEW d \in DutyDays PROVE [f EXCEPT ![p].start = d] \in [Programs -> Duty]
  <2>1. [f[p] EXCEPT !.start = d] \in Duty
    BY DEF Duty
  <2> QED
    BY <2>1
<1>4. ASSUME NEW d \in DutyDays PROVE [f EXCEPT ![p].end = d] \in [Programs -> Duty]
  <2>1. [f[p] EXCEPT !.end = d] \in Duty
    BY DEF Duty
  <2> QED
    BY <2>1
<1>5. ASSUME NEW n \in 0..LastDutyDay PROVE [f EXCEPT ![p].days = n] \in [Programs -> Duty]
  <2>1. [f[p] EXCEPT !.days = n] \in Duty
    BY DEF Duty
  <2> QED
    BY <2>1
<1> QED
  BY <1>1, <1>2, <1>3, <1>4, <1>5

\* The number of days between two dates.
LEMMA DaysBetween ==
  ASSUME NEW a \in DutyDays, NEW b \in DutyDays
  PROVE  Max({b - a + 1, 1}) \in 0..LastDutyDay
  BY MaxOfTwo, ReleaseAssumption DEF DutyDays

\* What a handler keeps has the fields of a request, also after a field was written.
LEMMA RequestFields ==
  ASSUME NEW r \in ReleaseJob
  PROVE  /\ r.program \in Programs /\ r.emp \in Employees \cup {NoEmp} /\ r.slip \in Slips \cup {NoSlip}
         /\ r.end \in DutyDays /\ r.days \in NoDays..LastDutyDay /\ r.already \in BOOLEAN /\ r.day \in Nat /\ r.last \in Nat
         /\ \A p \in Programs : [r EXCEPT !.program = p] \in ReleaseJob
         /\ \A n \in NoDays..LastDutyDay : [r EXCEPT !.days = n] \in ReleaseJob /\ [r EXCEPT !.already = TRUE, !.days = n] \in ReleaseJob
         /\ \A n, m \in Nat : [r EXCEPT !.day = n] \in ReleaseJob /\ [r EXCEPT !.day = n, !.last = m] \in ReleaseJob
<1>1. /\ r.program \in Programs /\ r.emp \in Employees \cup {NoEmp} /\ r.slip \in Slips \cup {NoSlip}
      /\ r.end \in DutyDays /\ r.days \in NoDays..LastDutyDay /\ r.already \in BOOLEAN /\ r.day \in Nat /\ r.last \in Nat
  BY DEF ReleaseJob
<1>2. ASSUME NEW p \in Programs PROVE [r EXCEPT !.program = p] \in ReleaseJob
  BY DEF ReleaseJob
<1>3. ASSUME NEW n \in NoDays..LastDutyDay PROVE [r EXCEPT !.days = n] \in ReleaseJob
  BY DEF ReleaseJob
<1>4. ASSUME NEW n \in NoDays..LastDutyDay PROVE [r EXCEPT !.already = TRUE, !.days = n] \in ReleaseJob
  BY DEF ReleaseJob
<1>5. ASSUME NEW n \in Nat PROVE [r EXCEPT !.day = n] \in ReleaseJob
  BY DEF ReleaseJob
<1>6. ASSUME NEW n \in Nat, NEW m \in Nat PROVE [r EXCEPT !.day = n, !.last = m] \in ReleaseJob
  BY DEF ReleaseJob
<1> QED
  BY <1>1, <1>2, <1>3, <1>4, <1>5, <1>6

\* Every step keeps the types.
LEMMA TypeStep ==
  ASSUME ReleaseInv, [ReleaseNext]_releaseVars
  PROVE  TypeOK'
<1>0. setting' = setting
  BY EnvFixed
<1> USE ReleaseAssumption, <1>0 DEF ReleaseInv, TypeOK, PCs
<1>1. ASSUME NEW p \in Programs, NEW e \in Employees, AssignEscort(p, e)
      PROVE  TypeOK'
  BY <1>1, ProgramFields DEF AssignEscort
<1>2. ASSUME NEW p \in Programs, CancelDuty(p)
      PROVE  TypeOK'
  BY <1>2, ProgramFields DEF CancelDuty
<1>3. ASSUME NEW p \in Programs, CmdEscortConfirm(p)
      PROVE  TypeOK'
  BY <1>3, ProgramFields DEF CmdEscortConfirm, Open
<1>4. ASSUME NEW h \in Handlers, NEW p \in Programs, CompletionFind(h, p)
      PROVE  TypeOK'
  <2>1. [req[h] EXCEPT !.program = p] \in ReleaseJob
    <3>1. req[h] \in ReleaseJob
      OBVIOUS
    <3> QED
      BY <3>1, RequestFields
  <2> QED
    BY <1>4, <2>1 DEF CompletionFind, Goto
<1>5. ASSUME NEW h \in Handlers, NEW p \in Programs, NEW e \in Employees, NEW s \in Slips \cup {NoSlip},
             NEW end \in DutyDays, NEW days \in NoDays..LastDutyDay, Release(h, p, e, s, end, days)
      PROVE  TypeOK'
  <2>1. [program |-> p, emp |-> e, slip |-> s, end |-> end, days |-> days, already |-> FALSE, day |-> 0, last |-> 0] \in ReleaseJob
    BY DEF ReleaseJob
  <2> QED
    BY <1>5, <2>1 DEF Release, Goto
<1>6. ASSUME NEW h \in Handlers, ConfirmProgram(h)
      PROVE  TypeOK'
  <2> DEFINE p == req[h].program
             f == [duties EXCEPT ![p].status = "confirmed"]
  <2>1. p \in Programs
    BY DEF ReleaseJob
  <2>2. f \in [Programs -> Duty]
    BY <2>1, ProgramFields DEF Open
  <2>3. PICK d \in DutyDays : duties' = [f EXCEPT ![p].start = d]
    BY <1>6 DEF ConfirmProgram
  <2>4. duties' \in [Programs -> Duty]
    BY <2>1, <2>2, <2>3, ProgramFields
  <2> QED
    BY <1>6, <2>4 DEF ConfirmProgram, Goto
<1>7. ASSUME NEW h \in Handlers, CloseRead(h)
      PROVE  TypeOK'
  <2> DEFINE p == req[h].program
             m == Max({req[h].end - duties[p].start + 1, 1})
             n == IF req[h].days = NoDays THEN m ELSE req[h].days
  <2>1. /\ p \in Programs /\ req[h].end \in DutyDays /\ req[h].days \in NoDays..LastDutyDay /\ req[h] \in ReleaseJob
        /\ duties[p].start \in DutyDays /\ duties[p].days \in 0..LastDutyDay /\ pc[h] = "close_read"
    <3>1. req[h] \in ReleaseJob /\ pc[h] = "close_read"
      BY <1>7 DEF CloseRead
    <3>2. duties[p] \in Duty
      BY <3>1, RequestFields
    <3> QED
      BY <3>1, <3>2, RequestFields DEF Duty
  <2>2. m \in 0..LastDutyDay
    BY <2>1, DaysBetween
  <2>3. n \in 0..LastDutyDay
    BY <2>1, <2>2 DEF NoDays
  <2>4. CASE /\ req' = [req EXCEPT ![h].already = TRUE, ![h].days = duties[p].days]
             /\ Goto(h, "backfill_read")
    <3>1. [req[h] EXCEPT !.already = TRUE, !.days = duties[p].days] \in ReleaseJob
      <4>1. duties[p].days \in NoDays..LastDutyDay
        BY <2>1 DEF NoDays
      <4> QED
        BY <2>1, <4>1, RequestFields
    <3>2. req'[h] = [req[h] EXCEPT !.already = TRUE, !.days = duties[p].days] /\ req' \in [Handlers -> ReleaseJob]
      BY <2>4, <3>1
    <3>3. req'[h].days # NoDays /\ req'[h].emp = req[h].emp /\ \A g \in Handlers \ {h} : req'[g] = req[g]
      BY <2>1, <2>4, <3>2, SMTT(30) DEF ReleaseJob, NoDays
    <3> QED
      BY <1>7, <2>1, <2>4, <3>2, <3>3 DEF CloseRead, Goto
  <2>5. CASE req' = [req EXCEPT ![h].days = n] /\ Goto(h, "close_update")
    <3>1. [req[h] EXCEPT !.days = n] \in ReleaseJob
      <4>1. n \in NoDays..LastDutyDay
        BY <2>3 DEF NoDays
      <4> QED
        BY <2>1, <4>1, RequestFields
    <3>2. req'[h] = [req[h] EXCEPT !.days = n] /\ req' \in [Handlers -> ReleaseJob]
      BY <2>5, <3>1
    <3>3. req'[h].days # NoDays /\ req'[h].emp = req[h].emp /\ \A g \in Handlers \ {h} : req'[g] = req[g]
      BY <2>1, <2>3, <2>5, <3>2 DEF ReleaseJob, NoDays
    <3> QED
      BY <1>7, <2>1, <2>5, <3>2, <3>3 DEF CloseRead, Goto
  <2> QED
    BY <1>7, <2>4, <2>5 DEF CloseRead
<1>8. ASSUME NEW h \in Handlers, CloseUpdate(h)
      PROVE  TypeOK'
  <2> DEFINE p == req[h].program
             f == [duties EXCEPT ![p].status = "Completed"]
             g == [f EXCEPT ![p].end = req[h].end]
  <2>1. p \in Programs /\ req[h].end \in DutyDays /\ req[h].days \in 0..LastDutyDay
    BY <1>8 DEF CloseUpdate, ReleaseJob, NoDays
  <2>2. f \in [Programs -> Duty]
    BY <2>1, ProgramFields
  <2>3. g \in [Programs -> Duty]
    BY <2>1, <2>2, ProgramFields
  <2>4. duties' = [g EXCEPT ![p].days = req[h].days]
    BY <1>8 DEF CloseUpdate
  <2>5. duties' \in [Programs -> Duty]
    BY <2>1, <2>3, <2>4, ProgramFields
  <2> QED
    BY <1>8, <2>5 DEF CloseUpdate, Goto
<1>9. ASSUME NEW h \in Handlers, BackfillRead(h)
      PROVE  TypeOK'
  <2> DEFINE p == req[h].program
             m == Max({duties[p].start, duties[p].end})
  <2>1. /\ p \in Programs /\ req[h] \in ReleaseJob /\ duties[p].start \in Nat /\ duties[p].end \in Nat
    <3>1. req[h] \in ReleaseJob
      OBVIOUS
    <3>2. duties[p] \in Duty
      BY <3>1, RequestFields
    <3>3. duties[p].start \in Nat /\ duties[p].end \in Nat
      BY <3>2 DEF Duty, DutyDays
    <3> QED
      BY <3>1, <3>3, RequestFields
  <2>2. m \in Nat
    BY <2>1, MaxOfTwo
  <2>3. [req[h] EXCEPT !.day = duties[p].start, !.last = m] \in ReleaseJob
    BY <2>1, <2>2, RequestFields
  <2>4. req' = [req EXCEPT ![h] = [req[h] EXCEPT !.day = duties[p].start, !.last = m]]
    BY <1>9 DEF BackfillRead
  <2>5. req'[h].days = req[h].days /\ req'[h].emp = req[h].emp /\ \A g \in Handlers \ {h} : req'[g] = req[g]
    BY <2>1, <2>4 DEF ReleaseJob
  <2> QED
    BY <1>9, <2>3, <2>4, <2>5, SMTT(30) DEF BackfillRead, Goto
<1>10. ASSUME NEW h \in Handlers, BackfillDay(h)
      PROVE  TypeOK'
  <2>1. req[h] \in ReleaseJob /\ req[h].day \in Nat /\ req[h].emp \in Employees \cup {NoEmp}
    <3>1. req[h] \in ReleaseJob
      OBVIOUS
    <3> QED
      BY <3>1, RequestFields
  <2>2. [req[h] EXCEPT !.day = req[h].day + 1] \in ReleaseJob
    <3>1. req[h].day + 1 \in Nat
      BY <2>1
    <3> QED
      BY <2>1, <3>1, RequestFields
  <2>4. req' = [req EXCEPT ![h] = [req[h] EXCEPT !.day = req[h].day + 1]]
    BY <1>10 DEF BackfillDay
  <2>5. req'[h].days = req[h].days /\ req'[h].emp = req[h].emp /\ \A g \in Handlers \ {h} : req'[g] = req[g]
    BY <2>1, <2>4 DEF ReleaseJob
  <2>6. attendance' \subseteq (Employees \cup {NoEmp}) \X Nat
    BY <1>10, <2>1 DEF BackfillDay
  <2>7. pc' \in [Handlers -> PCs] /\ pc'[h] \in {"backfill", "idle", "draft"} /\ \A g \in Handlers \ {h} : pc'[g] = pc[g]
    BY <1>10 DEF BackfillDay, Goto, AfterBackfill
  <2>8. pc[h] = "backfill" /\ UNCHANGED <<duties, drafts, requests>>
    BY <1>10 DEF BackfillDay
  <2> QED
    BY <2>2, <2>4, <2>5, <2>6, <2>7, <2>8
<1>11. ASSUME NEW h \in Handlers, CreateDraft(h)
      PROVE  TypeOK'
  <2>1. /\ req[h].program \in Programs /\ req[h].emp \in Employees /\ req[h].days \in 0..LastDutyDay
        /\ req[h].slip \in Slips \cup {NoSlip}
    <3>1. req[h] \in ReleaseJob /\ pc[h] = "draft"
      BY <1>11 DEF CreateDraft
    <3>2. req[h].emp # NoEmp /\ req[h].days # NoDays
      BY <3>1
    <3>3. req[h].days \in NoDays..LastDutyDay
      BY <3>1, RequestFields
    <3>4. req[h].days \in 0..LastDutyDay
      BY <3>2, <3>3 DEF NoDays
    <3> QED
      BY <3>1, <3>2, <3>4, RequestFields
  <2>2. [program |-> req[h].program, emp |-> req[h].emp, days |-> req[h].days, slip |-> req[h].slip] \in PaymentDraft
    BY <2>1 DEF PaymentDraft
  <2> QED
    BY <1>11, <2>2 DEF CreateDraft, Goto
<1>12. ASSUME NEW h \in Handlers, Fail(h)
      PROVE  TypeOK'
  BY <1>12 DEF Fail, Goto
<1>13. CASE UNCHANGED releaseVars
  BY <1>13 DEF releaseVars
<1> QED
  BY <1>1, <1>2, <1>3, <1>4, <1>5, <1>6, <1>7, <1>8, <1>9, <1>10, <1>11, <1>12, <1>13, ReleaseForm, CmdReleaseForm
  DEF ReleaseNext, HandlerStep, HandleAdminReleaseConfirmation

\* A request that does not overlap starts when no other is served.
LEMMA AloneStep ==
  ASSUME ReleaseInv, ~setting.overlap, TypeOK', [ReleaseNext]_releaseVars
  PROVE  AloneInv'
<1>0. setting' = setting
  BY EnvFixed
<1> USE ReleaseAssumption, <1>0 DEF ReleaseInv, TypeOK, PCs, AloneInv
<1>1. ASSUME NEW p \in Programs, NEW e \in Employees, AssignEscort(p, e)
      PROVE  AloneInv'
  BY <1>1 DEF AssignEscort
<1>2. ASSUME NEW p \in Programs, CancelDuty(p)
      PROVE  AloneInv'
  BY <1>2 DEF CancelDuty
<1>3. ASSUME NEW p \in Programs, CmdEscortConfirm(p)
      PROVE  AloneInv'
  BY <1>3 DEF CmdEscortConfirm
<1>4. ASSUME NEW h \in Handlers, NEW p \in Programs, CompletionFind(h, p)
      PROVE  AloneInv'
  BY <1>4 DEF CompletionFind, Free, Goto
<1>5. ASSUME NEW h \in Handlers, NEW p \in Programs, NEW e \in Employees, NEW s \in Slips \cup {NoSlip},
             NEW end \in DutyDays, NEW days \in NoDays..LastDutyDay, Release(h, p, e, s, end, days)
      PROVE  AloneInv'
  BY <1>5 DEF Release, Free, Goto
<1>6. ASSUME NEW h \in Handlers, ConfirmProgram(h)
      PROVE  AloneInv'
  BY <1>6 DEF ConfirmProgram, Goto
<1>7. ASSUME NEW h \in Handlers, CloseRead(h)
      PROVE  AloneInv'
  BY <1>7 DEF CloseRead, Goto
<1>8. ASSUME NEW h \in Handlers, CloseUpdate(h)
      PROVE  AloneInv'
  BY <1>8 DEF CloseUpdate, Goto
<1>9. ASSUME NEW h \in Handlers, BackfillRead(h)
      PROVE  AloneInv'
  BY <1>9 DEF BackfillRead, Goto
<1>10. ASSUME NEW h \in Handlers, BackfillDay(h)
      PROVE  AloneInv'
  BY <1>10 DEF BackfillDay, Goto, AfterBackfill
<1>11. ASSUME NEW h \in Handlers, CreateDraft(h)
      PROVE  AloneInv'
  BY <1>11 DEF CreateDraft, Goto
<1>12. ASSUME NEW h \in Handlers, Fail(h)
      PROVE  AloneInv'
  BY <1>12 DEF Fail, Goto
<1>13. CASE UNCHANGED releaseVars
  BY <1>13 DEF releaseVars
<1> QED
  BY <1>1, <1>2, <1>3, <1>4, <1>5, <1>6, <1>7, <1>8, <1>9, <1>10, <1>11, <1>12, <1>13, ReleaseForm, CmdReleaseForm
  DEF ReleaseNext, HandlerStep, HandleAdminReleaseConfirmation

\* The fields of a program, and the program of a request.
LEMMA ProgramTypes ==
  ASSUME TypeOK
  PROVE  /\ \A p \in Programs : /\ duties[p].start \in DutyDays /\ duties[p].end \in DutyDays \cup {0}
                                /\ duties[p].status \in Open \cup {"Completed", "Cancelled"}
         /\ \A h \in Handlers : req[h].program \in Programs /\ req[h].end \in DutyDays
<1>1. \A p \in Programs : duties[p] \in Duty
  BY DEF TypeOK
<1>2. \A h \in Handlers : req[h] \in ReleaseJob
  BY DEF TypeOK
<1> QED
  BY <1>1, <1>2, RequestFields DEF Duty

\* No step changes a Completed program.
LEMMA StayStep ==
  ASSUME ReleaseInv, ~setting.overlap, [ReleaseNext]_releaseVars
  PROVE  CompletedKept
<1>0. setting' = setting
  BY EnvFixed
<1> USE ReleaseAssumption, <1>0 DEF CompletedKept, Open
<1>a. TypeOK /\ AloneInv /\ ProgramInv /\ AtHandInv
  BY DEF ReleaseInv
<1>1. ASSUME NEW p \in Programs, NEW e \in Employees, AssignEscort(p, e)
      PROVE  CompletedKept
  BY <1>1, <1>a DEF AssignEscort
<1>2. ASSUME NEW p \in Programs, CancelDuty(p)
      PROVE  CompletedKept
  BY <1>2, <1>a DEF CancelDuty
<1>3. ASSUME NEW p \in Programs, CmdEscortConfirm(p)
      PROVE  CompletedKept
  <2>1. duties[p].status # "Completed"
    BY <1>3, <1>a DEF CmdEscortConfirm, ProgramInv
  <2> QED
    BY <1>3, <1>a, <2>1, ProgramTypes DEF CmdEscortConfirm, TypeOK
<1>4. ASSUME NEW h \in Handlers, NEW p \in Programs, CompletionFind(h, p)
      PROVE  CompletedKept
  BY <1>4, <1>a DEF CompletionFind, Free, Goto
<1>5. ASSUME NEW h \in Handlers, NEW p \in Programs, NEW e \in Employees, NEW s \in Slips \cup {NoSlip},
             NEW end \in DutyDays, NEW days \in NoDays..LastDutyDay, Release(h, p, e, s, end, days)
      PROVE  CompletedKept
  BY <1>5, <1>a DEF Release, Free, Goto
<1>6. ASSUME NEW h \in Handlers, ConfirmProgram(h)
      PROVE  CompletedKept
  <2>1. duties[req[h].program].status # "Completed"
    BY <1>6, <1>a, ProgramTypes DEF ConfirmProgram, ProgramInv, AtHandInv, AtHand
  <2> QED
    BY <1>6, <1>a, <2>1 DEF ConfirmProgram, TypeOK
<1>7. ASSUME NEW h \in Handlers, CloseRead(h)
      PROVE  CompletedKept
  BY <1>7, <1>a DEF CloseRead, Goto
<1>8. ASSUME NEW h \in Handlers, CloseUpdate(h)
      PROVE  CompletedKept
  <2>1. duties[req[h].program].status # "Completed"
    BY <1>8, <1>a, ProgramTypes DEF CloseUpdate, ProgramInv, AtHandInv, AtHand
  <2> QED
    BY <1>8, <1>a, <2>1 DEF CloseUpdate, TypeOK
<1>9. ASSUME NEW h \in Handlers, BackfillRead(h)
      PROVE  CompletedKept
  BY <1>9, <1>a DEF BackfillRead, Goto
<1>10. ASSUME NEW h \in Handlers, BackfillDay(h)
      PROVE  CompletedKept
  BY <1>10, <1>a DEF BackfillDay, Goto, AfterBackfill
<1>11. ASSUME NEW h \in Handlers, CreateDraft(h)
      PROVE  CompletedKept
  BY <1>11, <1>a DEF CreateDraft, Goto
<1>12. ASSUME NEW h \in Handlers, Fail(h)
      PROVE  CompletedKept
  BY <1>12, <1>a DEF Fail, Goto
<1>13. CASE UNCHANGED releaseVars
  BY <1>13, <1>a DEF releaseVars
<1> QED
  BY <1>1, <1>2, <1>3, <1>4, <1>5, <1>6, <1>7, <1>8, <1>9, <1>10, <1>11, <1>12, <1>13, ReleaseForm, CmdReleaseForm
  DEF ReleaseNext, HandlerStep, HandleAdminReleaseConfirmation

\* Completed programs that stay as they are keep their drafts in order.
LEMMA ProgramKept ==
  ASSUME TypeOK, ProgramInv, CompletedKept, drafts' = drafts, attendance \subseteq attendance',
         \A p \in Programs : duties'[p].status = "Completed" <=> duties'[p].end # 0
  PROVE  ProgramInv'
<1>1. ASSUME NEW i \in DOMAIN drafts PROVE drafts[i].program \in Programs
  <2>1. drafts[i] \in PaymentDraft
    BY DEF TypeOK
  <2> QED
    BY <2>1 DEF PaymentDraft
<1>2. ASSUME NEW i \in DOMAIN drafts
      PROVE  /\ duties'[drafts[i].program].status = "Completed"
             /\ AttendedBefore(duties'[drafts[i].program], attendance', drafts[i].emp, LastDutyDay + 1)
  <2>1. duties'[drafts[i].program] = duties[drafts[i].program]
    BY <1>1 DEF ProgramInv, CompletedKept
  <2> QED
    BY <2>1 DEF ProgramInv, AttendedBefore
<1> QED
  BY <1>2 DEF ProgramInv

\* Every step keeps programs, drafts and attendance together.
LEMMA ProgramStep ==
  ASSUME ReleaseInv, ~setting.overlap, CompletedKept, [ReleaseNext]_releaseVars
  PROVE  ProgramInv'
<1>0. setting' = setting
  BY EnvFixed
<1> USE ReleaseAssumption, <1>0
<1>a. TypeOK /\ AloneInv /\ ProgramInv /\ AtHandInv
  BY DEF ReleaseInv
<1>1. ASSUME NEW p \in Programs, NEW e \in Employees, AssignEscort(p, e)
      PROVE  ProgramInv'
  <2>1. \A q \in Programs : duties'[q].status = "Completed" <=> duties'[q].end # 0
    BY <1>1, <1>a, ProgramTypes DEF AssignEscort, ProgramInv, TypeOK, Open
  <2> QED
    BY <1>1, <1>a, <2>1, ProgramKept DEF AssignEscort
<1>2. ASSUME NEW p \in Programs, CancelDuty(p)
      PROVE  ProgramInv'
  <2>1. \A q \in Programs : duties'[q].status = "Completed" <=> duties'[q].end # 0
    BY <1>2, <1>a, ProgramTypes DEF CancelDuty, ProgramInv, TypeOK, Open
  <2> QED
    BY <1>2, <1>a, <2>1, ProgramKept DEF CancelDuty
<1>3. ASSUME NEW p \in Programs, CmdEscortConfirm(p)
      PROVE  ProgramInv'
  <2>1. \A q \in Programs : duties'[q].status = "Completed" <=> duties'[q].end # 0
    BY <1>3, <1>a, ProgramTypes DEF CmdEscortConfirm, ProgramInv, TypeOK, Open
  <2> QED
    BY <1>3, <1>a, <2>1, ProgramKept DEF CmdEscortConfirm
<1>4. ASSUME NEW h \in Handlers, NEW p \in Programs, CompletionFind(h, p)
      PROVE  ProgramInv'
  <2>1. duties' = duties /\ drafts' = drafts /\ attendance \subseteq attendance'
    BY <1>4 DEF CompletionFind
  <2> QED
    BY <1>a, <2>1, ProgramKept DEF ProgramInv
<1>5. ASSUME NEW h \in Handlers, NEW p \in Programs, NEW e \in Employees, NEW s \in Slips \cup {NoSlip},
             NEW end \in DutyDays, NEW days \in NoDays..LastDutyDay, Release(h, p, e, s, end, days)
      PROVE  ProgramInv'
  <2>1. duties' = duties /\ drafts' = drafts /\ attendance \subseteq attendance'
    BY <1>5 DEF Release
  <2> QED
    BY <1>a, <2>1, ProgramKept DEF ProgramInv
<1>6. ASSUME NEW h \in Handlers, ConfirmProgram(h)
      PROVE  ProgramInv'
  <2>1. \A q \in Programs : duties'[q].status = "Completed" <=> duties'[q].end # 0
    BY <1>6, <1>a, ProgramTypes DEF ConfirmProgram, AtHandInv, AtHand, ProgramInv, TypeOK, Open
  <2> QED
    BY <1>6, <1>a, <2>1, ProgramKept DEF ConfirmProgram, AtHandInv, AtHand
<1>7. ASSUME NEW h \in Handlers, CloseRead(h)
      PROVE  ProgramInv'
  <2>1. duties' = duties /\ drafts' = drafts /\ attendance \subseteq attendance'
    BY <1>7 DEF CloseRead
  <2> QED
    BY <1>a, <2>1, ProgramKept DEF ProgramInv
<1>8. ASSUME NEW h \in Handlers, CloseUpdate(h)
      PROVE  ProgramInv'
  <2>1. \A q \in Programs : duties'[q].status = "Completed" <=> duties'[q].end # 0
    BY <1>8, <1>a, ProgramTypes DEF CloseUpdate, DutyDays, ProgramInv, TypeOK, Open
  <2> QED
    BY <1>8, <1>a, <2>1, ProgramKept DEF CloseUpdate, DutyDays
<1>9. ASSUME NEW h \in Handlers, BackfillRead(h)
      PROVE  ProgramInv'
  <2>1. duties' = duties /\ drafts' = drafts /\ attendance \subseteq attendance'
    BY <1>9 DEF BackfillRead
  <2> QED
    BY <1>a, <2>1, ProgramKept DEF ProgramInv
<1>10. ASSUME NEW h \in Handlers, BackfillDay(h)
      PROVE  ProgramInv'
  <2>1. duties' = duties /\ drafts' = drafts /\ attendance \subseteq attendance'
    BY <1>10 DEF BackfillDay
  <2> QED
    BY <1>a, <2>1, ProgramKept DEF ProgramInv
<1>11. ASSUME NEW h \in Handlers, CreateDraft(h)
      PROVE  ProgramInv'
  <2> DEFINE new == [program |-> req[h].program, emp |-> req[h].emp, days |-> req[h].days, slip |-> req[h].slip]
             n == Len(drafts) + 1
  <2>1. /\ drafts' = Append(drafts, new) /\ pc[h] = "draft" /\ UNCHANGED <<duties, attendance>> /\ Len(drafts) \in Nat
        /\ DOMAIN drafts = 1..Len(drafts) /\ DOMAIN drafts' = 1..n
        /\ drafts'[n] = new /\ \A i \in DOMAIN drafts : drafts'[i] = drafts[i]
    BY <1>11, <1>a DEF CreateDraft, TypeOK
  <2>2. /\ duties[new.program].end # 0 /\ DraftsOf(new.program) = {} /\ new.program \in Programs
        /\ AttendedBefore(duties[new.program], attendance, new.emp, LastDutyDay + 1)
    BY <1>a, <2>1, ProgramTypes DEF AtHandInv, AtHand
  <2>3. \A i \in DOMAIN drafts : drafts[i].program # new.program
    BY <2>2 DEF DraftsOf
  <2>4. ASSUME NEW i \in DOMAIN drafts'
        PROVE  /\ duties'[drafts'[i].program].status = "Completed"
               /\ AttendedBefore(duties'[drafts'[i].program], attendance', drafts'[i].emp, LastDutyDay + 1)
    <3>1. CASE i = n
      BY <1>a, <2>1, <2>2, <3>1 DEF ProgramInv, AttendedBefore
    <3>2. CASE i \in DOMAIN drafts
      BY <1>a, <2>1, <3>2 DEF ProgramInv, AttendedBefore
    <3> QED
      BY <2>1, <3>1, <3>2
  <2>5. ASSUME NEW i \in DOMAIN drafts', NEW j \in DOMAIN drafts', drafts'[i].program = drafts'[j].program
        PROVE  i = j
    <3>1. CASE i \in DOMAIN drafts /\ j \in DOMAIN drafts
      BY <1>a, <2>1, <2>5, <3>1 DEF ProgramInv
    <3>2. CASE i = n \/ j = n
      BY <2>1, <2>3, <2>5, <3>2
    <3> QED
      BY <2>1, <3>1, <3>2
  <2>6. \A p \in Programs : duties'[p].status = "Completed" <=> duties'[p].end # 0
    BY <1>a, <2>1 DEF ProgramInv
  <2> QED
    BY <2>4, <2>5, <2>6 DEF ProgramInv
<1>12. ASSUME NEW h \in Handlers, Fail(h)
      PROVE  ProgramInv'
  <2>1. duties' = duties /\ drafts' = drafts /\ attendance \subseteq attendance'
    BY <1>12 DEF Fail
  <2> QED
    BY <1>a, <2>1, ProgramKept DEF ProgramInv
<1>13. CASE UNCHANGED releaseVars
  <2>1. duties' = duties /\ drafts' = drafts /\ attendance \subseteq attendance'
    BY <1>13 DEF releaseVars
  <2> QED
    BY <1>a, <2>1, ProgramKept DEF ProgramInv
<1> QED
  BY <1>1, <1>2, <1>3, <1>4, <1>5, <1>6, <1>7, <1>8, <1>9, <1>10, <1>11, <1>12, <1>13, ReleaseForm, CmdReleaseForm
  DEF ReleaseNext, HandlerStep, HandleAdminReleaseConfirmation

\* What a handler relies on stays while it, its program's dates and the drafts do.
LEMMA AtHandKept ==
  ASSUME NEW h \in Handlers, AtHand(h), pc'[h] = pc[h], req'[h] = req[h], drafts' = drafts,
         attendance' = attendance, duties'[req[h].program].start = duties[req[h].program].start,
         duties'[req[h].program].end = duties[req[h].program].end
  PROVE  AtHand(h)'
  BY DEF AtHand, AttendedBefore, DraftsOf

\* The other handlers are idle.
LEMMA OthersIdle ==
  ASSUME TypeOK, AloneInv, NEW h \in Handlers, pc[h] # "idle", NEW l, pc' = [pc EXCEPT ![h] = l],
         NEW g \in Handlers, g # h
  PROVE  AtHand(g)'
<1>1. pc'[g] = "idle"
  BY DEF TypeOK, AloneInv
<1> QED
  BY <1>1 DEF AtHand

\* Every step leaves the handler at work what it relies on.
LEMMA AtHandStep ==
  ASSUME ReleaseInv, ~setting.overlap, [ReleaseNext]_releaseVars
  PROVE  AtHandInv'
<1>0. setting' = setting
  BY EnvFixed
<1> USE ReleaseAssumption, <1>0
<1>a. TypeOK /\ AloneInv /\ ProgramInv /\ AtHandInv
  BY DEF ReleaseInv
<1>1. ASSUME NEW p \in Programs, NEW e \in Employees, AssignEscort(p, e)
      PROVE  AtHandInv'
  <2>1. \A q \in Programs : duties'[q].start = duties[q].start /\ duties'[q].end = duties[q].end
    BY <1>1, <1>a DEF AssignEscort, TypeOK, Duty
  <2>2. ASSUME NEW h \in Handlers PROVE AtHand(h)'
    BY <1>1, <1>a, <2>1, ProgramTypes, AtHandKept DEF AssignEscort, AtHandInv
  <2> QED
    BY <2>2 DEF AtHandInv
<1>2. ASSUME NEW p \in Programs, CancelDuty(p)
      PROVE  AtHandInv'
  <2>1. \A q \in Programs : duties'[q].start = duties[q].start /\ duties'[q].end = duties[q].end
    BY <1>2, <1>a DEF CancelDuty, TypeOK, Duty
  <2>2. ASSUME NEW h \in Handlers PROVE AtHand(h)'
    BY <1>2, <1>a, <2>1, ProgramTypes, AtHandKept DEF CancelDuty, AtHandInv
  <2> QED
    BY <2>2 DEF AtHandInv
<1>3. ASSUME NEW p \in Programs, CmdEscortConfirm(p)
      PROVE  AtHandInv'
  <2>1. \A q \in Programs : duties'[q].start = duties[q].start /\ duties'[q].end = duties[q].end
    BY <1>3, <1>a DEF CmdEscortConfirm, TypeOK, Duty
  <2>2. ASSUME NEW h \in Handlers PROVE AtHand(h)'
    BY <1>3, <1>a, <2>1, ProgramTypes, AtHandKept DEF CmdEscortConfirm, AtHandInv
  <2> QED
    BY <2>2 DEF AtHandInv
<1>4. ASSUME NEW h \in Handlers, NEW p \in Programs, CompletionFind(h, p)
      PROVE  AtHandInv'
  <2>1. pc[h] = "idle" /\ \A g \in Handlers : pc[g] = "idle"
    BY <1>4 DEF CompletionFind, Free
  <2>2. pc'[h] = "confirm" /\ \A g \in Handlers \ {h} : pc'[g] = "idle"
    BY <1>4, <1>a, <2>1 DEF CompletionFind, Goto, TypeOK
  <2>3. req'[h].program = p /\ duties'[p].end = 0
    BY <1>4, <1>a DEF CompletionFind, TypeOK, ReleaseJob, ProgramInv
  <2> QED
    BY <2>2, <2>3 DEF AtHandInv, AtHand
<1>5. ASSUME NEW h \in Handlers, NEW p \in Programs, NEW e \in Employees, NEW s \in Slips \cup {NoSlip},
             NEW end \in DutyDays, NEW days \in NoDays..LastDutyDay, Release(h, p, e, s, end, days)
      PROVE  AtHandInv'
  <2>1. pc[h] = "idle" /\ \A g \in Handlers : pc[g] = "idle"
    BY <1>5 DEF Release, Free
  <2>2. pc'[h] = "close_read" /\ \A g \in Handlers \ {h} : pc'[g] = "idle"
    BY <1>5, <1>a, <2>1 DEF Release, Goto, TypeOK
  <2> QED
    BY <2>2 DEF AtHandInv, AtHand
<1>6. ASSUME NEW h \in Handlers, ConfirmProgram(h)
      PROVE  AtHandInv'
  <2>1. pc[h] # "idle" /\ \E l : pc' = [pc EXCEPT ![h] = l]
    BY <1>6 DEF ConfirmProgram, Goto
  <2>2. AtHand(h)'
    <3>1. pc'[h] = "idle"
      BY <1>6, <1>a DEF ConfirmProgram, Goto, TypeOK
    <3> QED
      BY <3>1 DEF AtHand
  <2> QED
    BY <1>a, <2>1, <2>2, OthersIdle DEF AtHandInv
<1>7. ASSUME NEW h \in Handlers, CloseRead(h)
      PROVE  AtHandInv'
  <2>1. pc[h] # "idle" /\ \E l : pc' = [pc EXCEPT ![h] = l]
    BY <1>7 DEF CloseRead, Goto
  <2>2. AtHand(h)'
    <3> DEFINE p == req[h].program
    <3>1. /\ p \in Programs /\ req[h] \in ReleaseJob /\ UNCHANGED <<duties, attendance, drafts>>
          /\ req'[h].program = p
      BY <1>7, <1>a, ProgramTypes DEF CloseRead, TypeOK, ReleaseJob
    <3>2. CASE duties[p].status = "Completed"
      <4>1. pc'[h] = "backfill_read" /\ req'[h].already
        BY <1>7, <1>a, <3>1, <3>2 DEF CloseRead, Goto, TypeOK, ReleaseJob
      <4>2. duties[p].end # 0
        BY <1>a, <3>1, <3>2 DEF ProgramInv
      <4> QED
        BY <3>1, <4>1, <4>2 DEF AtHand
    <3>3. CASE duties[p].status # "Completed"
      <4>1. pc'[h] = "close_update"
        BY <1>7, <1>a, <3>3 DEF CloseRead, Goto, TypeOK
      <4>2. duties[p].end = 0
        BY <1>a, <3>1, <3>3 DEF ProgramInv
      <4> QED
        BY <3>1, <4>1, <4>2 DEF AtHand
    <3> QED
      BY <3>2, <3>3
  <2> QED
    BY <1>a, <2>1, <2>2, OthersIdle DEF AtHandInv
<1>8. ASSUME NEW h \in Handlers, CloseUpdate(h)
      PROVE  AtHandInv'
  <2>1. pc[h] # "idle" /\ \E l : pc' = [pc EXCEPT ![h] = l]
    BY <1>8 DEF CloseUpdate, Goto
  <2>2. AtHand(h)'
    <3> DEFINE p == req[h].program
    <3>1. /\ p \in Programs /\ req[h].end \in DutyDays /\ UNCHANGED <<attendance, drafts, req>>
          /\ pc[h] = "close_update" /\ pc'[h] = "backfill_read"
      BY <1>8, <1>a, ProgramTypes DEF CloseUpdate, TypeOK, Goto
    <3>2. duties'[p].end = req[h].end
      BY <1>8, <1>a, <3>1 DEF CloseUpdate, TypeOK, Duty
    <3>3. duties'[p].end # 0
      BY <3>1, <3>2 DEF DutyDays
    <3>4. duties[p].status # "Completed"
      BY <1>a, <3>1 DEF AtHandInv, AtHand, ProgramInv
    <3>5. DraftsOf(p) = {}
      BY <1>a, <3>4 DEF ProgramInv, DraftsOf
    <3>6. DraftsOf(p)' = {}
      BY <3>1, <3>5 DEF DraftsOf
    <3> QED
      BY <3>1, <3>3, <3>6 DEF AtHand
  <2> QED
    BY <1>a, <2>1, <2>2, OthersIdle DEF AtHandInv
<1>9. ASSUME NEW h \in Handlers, BackfillRead(h)
      PROVE  AtHandInv'
  <2>1. pc[h] # "idle" /\ \E l : pc' = [pc EXCEPT ![h] = l]
    BY <1>9 DEF BackfillRead, Goto
  <2>2. AtHand(h)'
    <3> DEFINE p == req[h].program
               m == Max({duties[p].start, duties[p].end})
    <3>0. p \in Programs /\ duties[p].start \in Nat /\ duties[p].end \in Nat
      <4>1. p \in Programs /\ duties[p].start \in DutyDays /\ duties[p].end \in DutyDays \cup {0}
        BY <1>a, ProgramTypes
      <4> QED
        BY <4>1 DEF DutyDays
    <3>1. /\ UNCHANGED <<duties, attendance, drafts>>
          /\ pc[h] = "backfill_read" /\ pc'[h] = "backfill" /\ req[h] \in ReleaseJob
      BY <1>9, <1>a DEF BackfillRead, TypeOK, Goto
    <3>2. req'[h] = [req[h] EXCEPT !.day = duties[p].start, !.last = m]
      BY <1>9, <1>a DEF BackfillRead, TypeOK
    <3>3. /\ req'[h].program = p /\ req'[h].day = duties[p].start /\ req'[h].last = m
          /\ req'[h].already = req[h].already
      BY <3>1, <3>2 DEF ReleaseJob
    <3>4. m >= duties[p].end
      BY <3>0, MaxOfTwo
    <3>5. duties[p].end # 0 /\ (req[h].already \/ DraftsOf(p) = {})
      BY <1>a, <3>1 DEF AtHandInv, AtHand
    <3>6. AttendedBefore(duties'[p], attendance', req'[h].emp, duties[p].start)
      BY <3>0, <3>1 DEF AttendedBefore, DutyDays
    <3> QED
      BY <3>1, <3>3, <3>4, <3>5, <3>6 DEF AtHand, DraftsOf
  <2> QED
    BY <1>a, <2>1, <2>2, OthersIdle DEF AtHandInv
<1>10. ASSUME NEW h \in Handlers, BackfillDay(h)
      PROVE  AtHandInv'
  <2>1. pc[h] # "idle" /\ \E l : pc' = [pc EXCEPT ![h] = l]
    BY <1>10 DEF BackfillDay, Goto
  <2>2. AtHand(h)'
    <3> DEFINE p == req[h].program
               e == req[h].emp
               n == req[h].day
    <3>1. /\ p \in Programs /\ duties[p].end \in DutyDays \cup {0} /\ n \in Nat /\ req[h].last \in Nat /\ req[h] \in ReleaseJob
          /\ UNCHANGED <<duties, drafts>> /\ attendance' = attendance \cup {<<e, n>>} /\ pc[h] = "backfill"
      BY <1>10, <1>a, ProgramTypes, RequestFields DEF BackfillDay, TypeOK
    <3>2. /\ AttendedBefore(duties[p], attendance, e, n) /\ req[h].last >= duties[p].end
          /\ duties[p].end # 0 /\ (req[h].already \/ DraftsOf(p) = {})
      BY <1>a, <3>1 DEF AtHandInv, AtHand
    <3>3. req'[h] = [req[h] EXCEPT !.day = n + 1]
      BY <1>10, <1>a DEF BackfillDay, TypeOK
    <3>4. /\ req'[h].program = p /\ req'[h].emp = e /\ req'[h].day = n + 1 /\ req'[h].last = req[h].last
          /\ req'[h].already = req[h].already
      BY <3>1, <3>3 DEF ReleaseJob
    <3>5. pc'[h] = IF n >= req[h].last THEN AfterBackfill(h) ELSE "backfill"
      BY <1>10, <1>a DEF BackfillDay, Goto, TypeOK
    <3>6. AttendedBefore(duties'[p], attendance', e, n + 1)
      BY <3>1, <3>2 DEF AttendedBefore, DutyDays
    <3>7. CASE n >= req[h].last
      <4>1. AttendedBefore(duties'[p], attendance', e, LastDutyDay + 1)
        BY <3>1, <3>2, <3>6, <3>7 DEF AttendedBefore, DutyDays
      <4>2. pc'[h] = IF req[h].already THEN "idle" ELSE "draft"
        BY <3>5, <3>7 DEF AfterBackfill
      <4> QED
        BY <3>1, <3>2, <3>4, <4>1, <4>2 DEF AtHand, DraftsOf
    <3>8. CASE n < req[h].last
      <4>1. pc'[h] = "backfill"
        BY <3>1, <3>5, <3>8
      <4> QED
        BY <3>1, <3>2, <3>4, <3>6, <4>1 DEF AtHand, DraftsOf
    <3> QED
      BY <3>1, <3>7, <3>8
  <2> QED
    BY <1>a, <2>1, <2>2, OthersIdle DEF AtHandInv
<1>11. ASSUME NEW h \in Handlers, CreateDraft(h)
      PROVE  AtHandInv'
  <2>1. pc[h] # "idle" /\ \E l : pc' = [pc EXCEPT ![h] = l]
    BY <1>11 DEF CreateDraft, Goto
  <2>2. AtHand(h)'
    <3>1. pc'[h] = "idle"
      BY <1>11, <1>a DEF CreateDraft, Goto, TypeOK
    <3> QED
      BY <3>1 DEF AtHand
  <2> QED
    BY <1>a, <2>1, <2>2, OthersIdle DEF AtHandInv
<1>12. ASSUME NEW h \in Handlers, Fail(h)
      PROVE  AtHandInv'
  <2>1. pc[h] # "idle" /\ \E l : pc' = [pc EXCEPT ![h] = l]
    BY <1>12 DEF Fail, Goto
  <2>2. AtHand(h)'
    <3>1. pc'[h] = "idle"
      BY <1>12, <1>a DEF Fail, Goto, TypeOK
    <3> QED
      BY <3>1 DEF AtHand
  <2> QED
    BY <1>a, <2>1, <2>2, OthersIdle DEF AtHandInv
<1>13. CASE UNCHANGED releaseVars
  <2>1. ASSUME NEW h \in Handlers PROVE AtHand(h)'
    BY <1>13, <1>a, AtHandKept DEF releaseVars, AtHandInv
  <2> QED
    BY <2>1 DEF AtHandInv
<1> QED
  BY <1>1, <1>2, <1>3, <1>4, <1>5, <1>6, <1>7, <1>8, <1>9, <1>10, <1>11, <1>12, <1>13, ReleaseForm, CmdReleaseForm
  DEF ReleaseNext, HandlerStep, HandleAdminReleaseConfirmation

-----------------------------------------------------------------------------
\* The inductive invariant holds in every state.
THEOREM ReleaseInvariant == ReleaseSpec => []ReleaseInv
<1>1. ReleaseInit => ReleaseInv
  <2> SUFFICES ASSUME ReleaseInit PROVE ReleaseInv
    OBVIOUS
  <2> USE ReleaseAssumption DEF ReleaseInit
  <2>1. TypeOK
    <3>1. [program |-> CHOOSE p \in Programs : TRUE, emp |-> NoEmp, slip |-> NoSlip, end |-> ReleaseDay, days |-> NoDays,
           already |-> FALSE, day |-> 0, last |-> 0] \in ReleaseJob
      BY DEF ReleaseJob, DutyDays, NoDays
    <3>2. duties \in [Programs -> Duty] /\ attendance \subseteq (Employees \cup {NoEmp}) \X Nat /\ drafts \in Seq(PaymentDraft)
      OBVIOUS
    <3> QED
      BY <3>1, <3>2 DEF TypeOK, PCs
  <2>2. AloneInv /\ AtHandInv
    BY DEF AloneInv, AtHandInv, AtHand
  <2>3. ProgramInv
    BY DEF ProgramInv, Open
  <2> QED
    BY <2>1, <2>2, <2>3 DEF ReleaseInv
<1>2. ReleaseInv /\ [ReleaseNext]_releaseVars => ReleaseInv'
  <2> SUFFICES ASSUME ReleaseInv, [ReleaseNext]_releaseVars PROVE ReleaseInv'
    OBVIOUS
  <2>1. TypeOK'
    BY TypeStep
  <2>2. ASSUME ~setting.overlap PROVE AloneInv' /\ ProgramInv' /\ AtHandInv'
    BY <2>1, <2>2, AloneStep, StayStep, ProgramStep, AtHandStep
  <2>3. setting' = setting
    BY EnvFixed
  <2> QED
    BY <2>1, <2>2, <2>3 DEF ReleaseInv
<1> QED
  BY <1>1, <1>2, PTL DEF ReleaseSpec

\* Programs, attendance, drafts and handlers keep their types.
THEOREM TypeCorrect == ReleaseSpec => []TypeOK
<1>1. ReleaseInv => TypeOK
  BY DEF ReleaseInv
<1> QED
  BY <1>1, ReleaseInvariant, PTL

\* Requests that do not overlap make one draft per program at most, after it was closed
\* and its days were attended, whichever statement of which release fails
\* (close_program, backfill_attendance_for_program, create_escort_payment_draft).
THEOREM OneDraftPerClosure == ReleaseSpec => []DraftsFollowClosures
<1>1. ReleaseInv => DraftsFollowClosures
  <2> SUFFICES ASSUME ReleaseInv, ~setting.overlap
               PROVE  /\ \A p \in Programs : Cardinality(DraftsOf(p)) <= IF duties[p].status = "Completed" THEN 1 ELSE 0
                      /\ \A i \in DOMAIN drafts : \A d \in duties[drafts[i].program].start .. duties[drafts[i].program].end :
                           <<drafts[i].emp, d>> \in attendance
    BY DEF DraftsFollowClosures
  <2>0. TypeOK /\ ProgramInv
    BY DEF ReleaseInv
  <2>1. ASSUME NEW p \in Programs
        PROVE  Cardinality(DraftsOf(p)) <= IF duties[p].status = "Completed" THEN 1 ELSE 0
    <3>1. CASE DraftsOf(p) = {}
      BY <3>1, FS_EmptySet
    <3>2. CASE DraftsOf(p) # {}
      <4>1. PICK i \in DOMAIN drafts : drafts[i].program = p
        BY <3>2 DEF DraftsOf
      <4>2. DraftsOf(p) = {i} /\ duties[p].status = "Completed"
        BY <2>0, <4>1 DEF DraftsOf, ProgramInv
      <4>3. Cardinality({i}) = 1
        BY FS_Singleton
      <4> QED
        BY <4>2, <4>3
    <3> QED
      BY <3>1, <3>2
  <2>2. ASSUME NEW i \in DOMAIN drafts, NEW d \in duties[drafts[i].program].start .. duties[drafts[i].program].end
        PROVE  <<drafts[i].emp, d>> \in attendance
    <3> DEFINE p == drafts[i].program
    <3>1. p \in Programs
      <4>1. drafts[i] \in PaymentDraft
        BY <2>0 DEF TypeOK
      <4> QED
        BY <4>1 DEF PaymentDraft
    <3>2. duties[p].start \in DutyDays /\ duties[p].end \in DutyDays \cup {0} /\ duties[p].start <= d /\ d <= duties[p].end /\ d \in Int
      BY <2>0, <2>2, <3>1, ProgramTypes DEF DutyDays
    <3>3. d \in DutyDays /\ d < LastDutyDay + 1
      BY <3>2, ReleaseAssumption DEF DutyDays
    <3> QED
      BY <2>0, <3>2, <3>3 DEF ProgramInv, AttendedBefore
  <2> QED
    BY <2>1, <2>2
<1> QED
  BY <1>1, ReleaseInvariant, PTL

\* Without overlapping requests nothing changes a program that is Completed: no release,
\* no confirmation, no cancellation.
THEOREM CompletedStaysHolds == ReleaseSpec => CompletedStays
<1>1. ReleaseInv /\ [ReleaseNext]_releaseVars =>
        [~setting.overlap => \A p \in Programs : duties[p].status = "Completed" => duties'[p] = duties[p]]_releaseVars
  BY StayStep DEF CompletedKept
<1> QED
  BY <1>1, ReleaseInvariant, PTL DEF ReleaseSpec, CompletedStays

-----------------------------------------------------------------------------
(* Orders and the roster: types *)

\* The pay of an entry is that of its dates.
Dated(e) == e.start # 0 /\ e.end # 0
Fits(e) == Dated(e) => e.total = RefShifts(e) * Rate + e.conv
Unpaid(e, due) == ~Dated(e) => e.total = due

\* What a request goes on with after a sync or a deletion.
Rest(j) == /\ j.pc \in {"idle", "slip", "rec_next", "backfill", "history", "unmatched"}
           /\ j.pc = "backfill" => DOMAIN j = {"pc", "recs"} /\ j.recs \in Seq(Record) /\ j.recs # <<>>
AfterSync(j) == Rest(j) \/ (j.pc = "sync_all" /\ Rest(j.then))

\* What a worker keeps between awaits.
JobOK(j) ==
  /\ j.pc \in {"save", "save_insert"} => /\ DOMAIN j = {"pc", "o", "c"} /\ j.o \in Order /\ j.c \in Clients
                                         /\ j.o.lighters # <<>>
  /\ j.pc \in {"confirm", "existing", "create"} => j.d \in Completion
  /\ j.pc \in {"backfill", "backfill_insert"} =>
       DOMAIN j = {"pc", "recs"} /\ j.recs \in Seq(Record) /\ j.recs # <<>>
  /\ j.pc \in {"reconcile", "sync_all"} => Rest(j.then)
  /\ j.pc \in {"drop_entries", "drop_programs"} => DOMAIN j = {"pc", "ids", "then"} /\ Rest(j.then)
  /\ j.pc \in {"sync_read", "sync_write"} => AfterSync(j.then)
  /\ j.pc = "sync_write" => j.e \in Entry /\ j.old \in Nat /\ Fits(j.e)
  /\ j.pc = "create_entry" => j.u \in Edit
  /\ j.pc \in {"edit_write", "edit_read"} => DOMAIN j = {"pc", "p", "u"} /\ j.u \in Edit
  /\ j.pc = "edit_pay" => j.e \in Entry

\* The type invariant.
OrdersTypeOK ==
  /\ env \in Environments
  /\ \A p \in DOMAIN programs : programs[p] \in Program
  /\ \A p \in DOMAIN roster : roster[p] \in Entry
  /\ DOMAIN job = Workers /\ DOMAIN kind = Workers
  /\ \A w \in Workers : JobOK(job[w])

\* Worker w is to compute the pay of entry p.
Recomputes(w, p) == job[w].pc \in {"edit_read", "edit_pay"} /\ job[w].p = p
Editing(w) == job[w].pc \in {"edit_write", "edit_read", "edit_pay"}
SameDates(e, f) == e.start = f.start /\ e.ss = f.ss /\ e.end = f.end /\ e.es = f.es

\* What a worker goes on with writes no pay but that of an entry's dates, or of its program.
Harmless(j) == /\ j.pc \notin {"edit_write", "edit_read", "edit_pay"}
               /\ j.pc = "sync_write" => Unpaid(j.e, UndatedTotal(j.p))
               /\ j.pc = "create_entry" => j.p > MaxPrograms

\* No code writes a legacy payment, and ids are not given twice.
LegacyKept == /\ lastId \in Nat /\ \A p \in DOMAIN env.programs : p <= lastId
              /\ \A p \in DOMAIN programs : programs[p].legacy = Legacy(p)

\* An edit is alone at work and gives a date or a shift; until it has written the pay, the
\* entry may have another's.  What a sync or an edit is to write fits its dates.
PayInv ==
  /\ \A w \in Workers : Editing(w) => /\ "edit" \in env.ops /\ kind[w] = "edit"
                                      /\ \A v \in Workers : v # w => job[v] = Idle
  /\ \A w \in Workers : job[w].pc = "edit_write" => job[w].u \in env.edits
  /\ \A w \in Workers : job[w].pc = "edit_pay" /\ job[w].p \in DOMAIN roster =>
       /\ Fits(job[w].e) /\ Dated(job[w].e) /\ SameDates(job[w].e, roster[job[w].p])
  /\ \A w \in Workers : Editing(w) \/ Harmless(job[w])
  /\ \A p \in DOMAIN roster : Unpaid(roster[p], UndatedTotal(p))
  /\ \A p \in DOMAIN roster : Fits(roster[p]) \/ \E w \in Workers : Recomputes(w, p)

OrdersInv == OrdersTypeOK /\ LegacyKept /\ (EditsRecompute => PayInv)
-----------------------------------------------------------------------------
(* The shifts of an entry *)

\* A nonempty set of numbers has a smallest one.
LEMMA SmallestNumber ==
  ASSUME NEW P \in SUBSET Nat, P # {}
  PROVE  \E n \in P : \A k \in P : ~(k < n)
<1> DEFINE less == OpToRel(<, Nat)
<1>1. IsWellFoundedOn(less, Nat)
  BY NatLessThanWellFounded, Zenon
<1>2. \A k, n \in Nat : k < n => <<k, n>> \in less
  BY DEF OpToRel
<1> HIDE DEF less
<1>3. \E n \in P : \A k \in P : ~(<<k, n>> \in less)
  BY <1>1, WFMin, Zenon
<1> QED
  BY <1>2, <1>3

\* The loop of count_shifts from day d on, two for each day before the last.
LoopSum(d, end) == IF d < end THEN 2 * (end - d) ELSE 0
IsLoop(f, end) == f = [d \in 0..LastDay + 1 |-> IF d < end THEN 2 + f[d + 1] ELSE 0]

LEMMA LoopValue ==
  ASSUME NEW end \in 0..LastDay, NEW f, IsLoop(f, end)
  PROVE  \A d \in 0..LastDay + 1 : f[d] = LoopSum(d, end)
<1>0. LastDay \in Nat
  BY RosterAssumption
<1> SUFFICES ASSUME NEW c \in 0..LastDay + 1, f[c] # LoopSum(c, end)
             PROVE  FALSE
  OBVIOUS
<1> DEFINE P == {n \in 0..LastDay + 1 : f[LastDay + 1 - n] # LoopSum(LastDay + 1 - n, end)}
<1>1. P \in SUBSET Nat /\ LastDay + 1 - c \in P
  BY <1>0
<1>2. PICK n \in P : \A k \in P : ~(k < n)
  BY <1>1, SmallestNumber
<1>3. PICK d \in 0..LastDay + 1 : d = LastDay + 1 - n
  BY <1>0
<1>4. f[d] # LoopSum(d, end)
  BY <1>2, <1>3
<1>5. f[d] = IF d < end THEN 2 + f[d + 1] ELSE 0
  BY DEF IsLoop
<1>6. CASE d < end
  <2>1. d + 1 \in 0..LastDay + 1 /\ n - 1 \in 0..LastDay + 1 /\ LastDay + 1 - (n - 1) = d + 1 /\ n - 1 < n
    BY <1>0, <1>3, <1>6
  <2>2. f[d + 1] = LoopSum(d + 1, end)
    <3>1. n - 1 \notin P
      BY <1>2, <2>1
    <3> QED
      BY <2>1, <3>1
  <2>3. LoopSum(d, end) = 2 + LoopSum(d + 1, end)
    BY <1>0, <1>6 DEF LoopSum
  <2> QED
    BY <1>4, <1>5, <1>6, <2>2, <2>3
<1>7. CASE ~(d < end)
  BY <1>4, <1>5, <1>7 DEF LoopSum
<1> QED
  BY <1>6, <1>7

LEMMA LoopExists ==
  ASSUME NEW end \in 0..LastDay
  PROVE  IsLoop([d \in 0..LastDay + 1 |-> LoopSum(d, end)], end)
<1>0. LastDay \in Nat
  BY RosterAssumption
<1> DEFINE f == [d \in 0..LastDay + 1 |-> LoopSum(d, end)]
<1>1. ASSUME NEW d \in 0..LastDay + 1
      PROVE  f[d] = IF d < end THEN 2 + f[d + 1] ELSE 0
  <2>1. CASE d < end
    <3>1. d + 1 \in 0..LastDay + 1
      BY <1>0, <2>1
    <3>2. f[d] = LoopSum(d, end) /\ f[d + 1] = LoopSum(d + 1, end)
      BY <3>1
    <3>3. LoopSum(d, end) = 2 + LoopSum(d + 1, end)
      BY <1>0, <2>1 DEF LoopSum
    <3> QED
      BY <2>1, <3>2, <3>3
  <2>2. CASE ~(d < end)
    BY <2>2 DEF LoopSum
  <2> QED
    BY <2>1, <2>2
<1> QED
  BY <1>1 DEF IsLoop

\* count_shifts is the number of shifts from start to end.
LEMMA CountShiftsCounts ==
  ASSUME NEW start \in Days, NEW end \in Days, NEW ss \in {"D", "N"}, NEW es \in {"D", "N"},
         NEW e, e.start = start, e.end = end, e.ss = ss, e.es = es
  PROVE  CountShifts(start, ss, end, es) = RefShifts(e) /\ RefShifts(e) \in Nat
<1>0. LastDay \in Nat /\ start \in 1..LastDay /\ end \in 1..LastDay
  BY RosterAssumption DEF Days
<1> DEFINE f == CHOOSE g : IsLoop(g, end)
<1>1. IsLoop(f, end)
  <2>1. end \in 0..LastDay
    BY <1>0
  <2>2. \E g : IsLoop(g, end)
    BY <2>1, LoopExists
  <2> QED
    BY <2>2, Zenon
<1>2. \A d \in 0..LastDay + 1 : f[d] = LoopSum(d, end)
  <2> HIDE DEF f
  <2> QED
    BY <1>0, <1>1, LoopValue
<1>3. CountShifts(start, ss, end, es) =
        IF end < start THEN 0
        ELSE IF start = end THEN IF ShiftIndex(es) < ShiftIndex(ss) THEN 0
                                 ELSE ShiftIndex(es) - ShiftIndex(ss) + 1
        ELSE (2 - ShiftIndex(ss)) + f[start + 1] + (ShiftIndex(es) + 1)
  BY DEF CountShifts, IsLoop
<1> HIDE DEF f
<1>4. start + 1 \in 0..LastDay + 1
  BY <1>0
<1>5. f[start + 1] = LoopSum(start + 1, end)
  BY <1>2, <1>4
<1> QED
  BY <1>0, <1>3, <1>5 DEF LoopSum, RefShifts, ShiftIndex

-----------------------------------------------------------------------------
(* Values keep their types *)

LEMMA WorldTypes ==
  ASSUME env \in Environments
  PROVE  /\ \A t \in env.orders : ParseEscortMessage(t) \in Order
         /\ \A t \in env.completions : ParseCompletedDraft(t, Today) \in Completion
         /\ RecordsOf(env.sent) \in Seq(Record) /\ env.edits \subseteq Edit /\ env.entries \subseteq Edit
         /\ DOMAIN env.programs \subseteq 1..MaxPrograms
         /\ \A p \in DOMAIN env.programs : env.programs[p] \in Program
         /\ env.listed \subseteq DOMAIN env.programs
  BY EnvironmentsAssumption

LEMMA RowType ==
  ASSUME NEW mv \in Names, NEW lv \in Names, NEW st \in Statuses
  PROVE  Row(mv, lv, st) \in Program
<1>1. Today \in Days /\ 0 \in 0..LastDay
  BY RosterAssumption DEF Days
<1> QED
  BY <1>1 DEF Row, Program, Statuses, Names

LEMMA ConfirmedType ==
  ASSUME NEW r \in Program, NEW d \in Completion
  PROVE  Confirmed(r, d) \in Program
  BY DEF Confirmed, Program, Completion, Statuses

LEMMA DateType ==
  ASSUME NEW r \in Record
  PROVE  DateOf(r) \in Days
  BY RosterAssumption DEF DateOf, Days, Record

\* The fields that a PATCH gives.
LEMMA EditType ==
  ASSUME NEW u \in Edit
  PROVE  /\ u.start \in 0..LastDay /\ u.end \in 0..LastDay
         /\ u.ss # "" => u.ss \in {"D", "N"}
         /\ u.es # "" => u.es \in {"D", "N"}
         /\ u.conv >= 0 => u.conv \in Nat
         /\ (IF u.conv >= 0 THEN u.conv ELSE 0) \in Nat
<1>1. /\ u.start \in 0..LastDay /\ u.end \in 0..LastDay /\ u.ss \in {"D", "N", ""} /\ u.es \in {"D", "N", ""}
      /\ u.conv \in Conveyances \cup {-1}
  BY DEF Edit
<1>2. LastDay \in Nat /\ Conveyances \subseteq Nat
  BY RosterAssumption
<1>3. u.conv = -1 \/ u.conv \in Nat
  BY <1>1, <1>2
<1>5. ~(-1 >= 0)
  OBVIOUS
<1>6. (u.conv >= 0 => u.conv \in Nat) /\ (IF u.conv >= 0 THEN u.conv ELSE 0) \in Nat
  BY <1>3, <1>5
<1> QED
  BY <1>1, <1>6

\* An edit keeps the type of an entry.
LEMMA PatchedType ==
  ASSUME NEW u \in Edit, NEW x \in Entry
  PROVE  Patched(x, u) \in Entry
<1> DEFINE a == IF u.start > 0 THEN u.start ELSE x.start
           b == IF u.end > 0 THEN u.end ELSE x.end
           c == IF u.ss # "" THEN u.ss ELSE x.ss
           d == IF u.conv >= 0 THEN u.conv ELSE x.conv
           f == IF u.es # "" THEN u.es ELSE x.es
<1>1. a \in 0..LastDay /\ b \in 0..LastDay /\ c \in {"D", "N"} /\ f \in {"D", "N"} /\ d \in Nat
  BY EditType DEF Entry
<1>2. Patched(x, u) = [x EXCEPT !.start = a, !.end = b, !.ss = c, !.es = f, !.conv = d]
  BY DEF Patched, Entry
<1> HIDE DEF a, b, c, d, f
<1>3. [x EXCEPT !.start = a, !.end = b, !.ss = c, !.es = f, !.conv = d] \in Entry
  BY <1>1 DEF Entry
<1> QED
  BY <1>2, <1>3

\* calculate_pay changes the pay alone, and fits the dates.
LEMMA PaidFits ==
  ASSUME NEW e \in Entry, Dated(e), NEW conv \in Nat
  PROVE  /\ Paid(e, conv) \in Entry /\ Fits(Paid(e, conv)) /\ SameDates(Paid(e, conv), e)
<1> DEFINE n == CountShifts(e.start, e.ss, e.end, e.es)
           x == Paid(e, conv)
<1>1. e.start \in Days /\ e.end \in Days /\ e.ss \in {"D", "N"} /\ e.es \in {"D", "N"}
  BY RosterAssumption DEF Entry, Days, Dated
<1>2. n = RefShifts(e) /\ n \in Nat
  BY <1>1, CountShiftsCounts
<1> HIDE DEF n
<1>3. x = [e EXCEPT !.shifts = n, !.conv = conv, !.total = n * Rate + conv]
  BY DEF Paid, n
<1>4. n * Rate + conv \in Int
  BY <1>2, RosterAssumption
<1>5. /\ x \in Entry /\ x.total = n * Rate + conv /\ x.conv = conv
      /\ x.start = e.start /\ x.ss = e.ss /\ x.end = e.end /\ x.es = e.es
  BY <1>2, <1>3, <1>4 DEF Entry
<1>6. RefShifts(x) = RefShifts(e)
  BY <1>5 DEF RefShifts
<1> QED
  BY <1>2, <1>5, <1>6 DEF Fits, SameDates

\* An entry made by hand is paid when it has both dates.
LEMMA HandMadeFits ==
  ASSUME NEW u \in Edit
  PROVE  /\ HandMade(u) \in Entry /\ Fits(HandMade(u))
         /\ ~Dated(HandMade(u)) => HandMade(u).total = -1
<1> DEFINE conv == IF u.conv >= 0 THEN u.conv ELSE 0
           ss == IF u.ss = "" THEN "D" ELSE u.ss
           es == IF u.es = "" THEN "N" ELSE u.es
           e == [lv |-> None, status |-> "draft", start |-> u.start, ss |-> ss, end |-> u.end, es |-> es,
                 shifts |-> 0, conv |-> conv, total |-> -1, version |-> 1]
<1>1. conv \in Nat /\ u.start \in 0..LastDay /\ u.end \in 0..LastDay
      /\ ss \in {"D", "N"} /\ es \in {"D", "N"} /\ LastDay \in Nat
  BY EditType, RosterAssumption
<1> HIDE DEF conv, ss, es
<1>2. e \in Entry /\ e.total = -1 /\ e.start = u.start /\ e.end = u.end
  BY <1>1 DEF Entry, Names
<1>3. HandMade(u) = IF u.start # 0 /\ u.end # 0 THEN Paid(e, conv) ELSE e
  BY DEF HandMade, conv, ss, es
<1> HIDE DEF e
<1>4. CASE Dated(e)
  <2>1. HandMade(u) = Paid(e, conv)
    BY <1>2, <1>3, <1>4 DEF Dated
  <2>2. Fits(Paid(e, conv)) /\ Paid(e, conv) \in Entry /\ SameDates(Paid(e, conv), e)
    BY <1>1, <1>2, <1>4, PaidFits
  <2>3. Dated(Paid(e, conv))
    BY <1>4, <2>2 DEF Dated, SameDates
  <2> QED
    BY <2>1, <2>2, <2>3
<1>5. CASE ~Dated(e)
  <2>1. HandMade(u) = e
    BY <1>2, <1>3, <1>5 DEF Dated
  <2> QED
    BY <1>2, <1>5, <2>1 DEF Fits
<1> QED
  BY <1>4, <1>5

LEMMA EntryOfFits ==
  ASSUME NEW r \in Program
  PROVE  /\ EntryOf(r) \in Entry /\ Fits(EntryOf(r))
         /\ ~Dated(EntryOf(r)) => EntryOf(r).total = IF r.legacy > 0 THEN r.legacy ELSE -1
<1> DEFINE es == IF r.es = "" THEN "N" ELSE r.es
           st == RosterStatus(r.status)
           e == [lv |-> r.lv, status |-> st, start |-> r.date, ss |-> r.shift, end |-> r.end, es |-> es,
                 shifts |-> 0, conv |-> 0, total |-> -1, version |-> 1]
           n == r.legacy
           x == [e EXCEPT !.total = n]
<1>1. st \in {"draft", "active", "completed", "cancelled"}
  BY DEF RosterStatus
<1>2. /\ r.date \in Days /\ r.shift \in {"D", "N"} /\ r.end \in 0..LastDay /\ r.es \in {"D", "N", ""}
      /\ r.legacy \in Nat /\ r.lv \in Names
  BY DEF Program
<1>3. r.date \in 0..LastDay /\ r.date # 0
  <2>1. PICK k \in Days : k = r.date
    BY <1>2
  <2>2. k \in 0..LastDay /\ k # 0
    BY RosterAssumption DEF Days
  <2> QED
    BY <2>1, <2>2
<1>9. es \in {"D", "N"}
  BY <1>2
<1> HIDE DEF es, st
<1>4. e \in Entry /\ e.end = r.end /\ e.start = r.date /\ e.total = -1
  <2>1. e.end = r.end /\ e.start = r.date /\ e.total = -1
    OBVIOUS
  <2>2. ASSUME NEW lv \in Names, NEW a \in 0..LastDay, NEW ss \in {"D", "N"}, NEW b \in 0..LastDay,
               lv = r.lv, a = r.date, ss = r.shift, b = r.end
        PROVE  e \in Entry
    <3>1. [lv |-> lv, status |-> st, start |-> a, ss |-> ss, end |-> b, es |-> es,
           shifts |-> 0, conv |-> 0, total |-> -1, version |-> 1] \in Entry
      BY <1>1, <1>9 DEF Entry
    <3> QED
      BY <2>2, <3>1, Zenon
  <2>3. e \in Entry
    BY <1>2, <1>3, <2>2
  <2> QED
    BY <2>1, <2>3
<1>5. EntryOf(r) = IF r.end # 0 THEN Paid(e, 0) ELSE IF r.legacy > 0 THEN x ELSE e
  BY DEF EntryOf, es, st
<1> HIDE DEF e
<1>10. n \in Int
  <2>1. PICK m \in Nat : m = r.legacy
    BY <1>2
  <2> QED
    BY <2>1
<1> HIDE DEF n
<1>11. x \in Entry /\ x.end = e.end /\ x.total = n
  BY <1>4, <1>10 DEF Entry
<1> HIDE DEF x
<1>6. x \in Entry /\ x.end = r.end /\ x.total = r.legacy
  BY <1>4, <1>11 DEF n
<1>7. CASE r.end # 0
  <2>1. Dated(e)
    BY <1>3, <1>4, <1>7 DEF Dated
  <2>2. /\ Paid(e, 0) \in Entry /\ Fits(Paid(e, 0)) /\ SameDates(Paid(e, 0), e)
    BY <1>4, <2>1, PaidFits
  <2>3. Dated(Paid(e, 0))
    BY <2>1, <2>2 DEF Dated, SameDates
  <2> QED
    BY <1>5, <1>7, <2>2, <2>3
<1>8. CASE r.end = 0
  <2>1. ~Dated(x) /\ ~Dated(e)
    BY <1>4, <1>6, <1>8 DEF Dated
  <2> QED
    BY <1>4, <1>5, <1>6, <1>8, <2>1 DEF Fits
<1> QED
  BY <1>7, <1>8

\* The jobs after a step of a worker.
LEMMA JobsGo ==
  ASSUME OrdersTypeOK, NEW w \in Workers, NEW j, JobOK(j), Goes(w, j)
  PROVE  DOMAIN job' = Workers /\ DOMAIN kind' = Workers /\ \A v \in Workers : JobOK(job'[v])
  BY DEF OrdersTypeOK, Goes

LEMMA JobsTaken ==
  ASSUME OrdersTypeOK, NEW w \in Workers, NEW j, NEW o, JobOK(j), Takes(w, o, j)
  PROVE  DOMAIN job' = Workers /\ DOMAIN kind' = Workers /\ \A v \in Workers : JobOK(job'[v])
  BY DEF OrdersTypeOK, Takes

LEMMA JobTypes ==
  /\ JobOK(Idle) /\ Rest(Idle)
  /\ \A j : Rest(j) => JobOK(j)
  /\ \A s : Rest(ReconcileAll(s)) /\ Rest(History(s)) /\ JobOK(Rematch(s))
  /\ \A s \in Seq(Record) : Rest(Backfill(s))
  /\ \A ids, j : Rest(j) => JobOK(Drop(ids, j))
  /\ \A p, j : AfterSync(j) => JobOK(Sync(p, j))
  /\ \A s, j : Rest(j) => JobOK(SyncAll(s, j)) /\ AfterSync(SyncAll(s, j))
  /\ \A lv, mv, j : Rest(j) => JobOK(Reconcile(lv, mv, j))
<1>1. JobOK(Idle) /\ Rest(Idle)
  BY DEF JobOK, Rest, Idle
<1>2. \A j : Rest(j) => JobOK(j)
  BY DEF JobOK, Rest
<1>3. \A s : Rest(ReconcileAll(s)) /\ Rest(History(s)) /\ JobOK(Rematch(s))
  BY <1>1 DEF JobOK, Rest, ReconcileAll, History, Rematch
<1>4. \A s \in Seq(Record) : Rest(Backfill(s))
  BY <1>1 DEF Rest, Backfill
<1>5. \A ids, j : Rest(j) => JobOK(Drop(ids, j))
  BY <1>2 DEF JobOK, Drop
<1>6. \A p, j : AfterSync(j) => JobOK(Sync(p, j))
  BY DEF JobOK, Sync
<1>7. \A s, j : Rest(j) => JobOK(SyncAll(s, j)) /\ AfterSync(SyncAll(s, j))
  BY DEF JobOK, SyncAll, AfterSync
<1>8. \A lv, mv, j : Rest(j) => JobOK(Reconcile(lv, mv, j))
  BY <1>2 DEF JobOK, Reconcile
<1> QED
  BY <1>1, <1>2, <1>3, <1>4, <1>5, <1>6, <1>7, <1>8

LEMMA SaveType ==
  ASSUME NEW o \in Order, NEW c \in Clients
  PROVE  JobOK(Save(o, c))
  BY JobTypes DEF Save, JobOK

\* A sync or a deletion hands on a job of its own kind.
LEMMA AfterSyncType ==
  ASSUME NEW j, AfterSync(j)
  PROVE  JobOK(j)
  BY JobTypes DEF AfterSync, JobOK

-----------------------------------------------------------------------------
(* Every step keeps the types *)

RowsTyped == /\ \A p \in DOMAIN programs : programs[p] \in Program
             /\ \A p \in DOMAIN roster : roster[p] \in Entry
JobsTyped == /\ DOMAIN job = Workers /\ DOMAIN kind = Workers
             /\ \A w \in Workers : JobOK(job[w])

LEMMA TypeKept ==
  ASSUME OrdersTypeOK, UNCHANGED env, RowsTyped', JobsTyped'
  PROVE  OrdersTypeOK'
  BY DEF OrdersTypeOK, RowsTyped, JobsTyped

LEMMA RowsKept ==
  ASSUME OrdersTypeOK, UNCHANGED <<programs, roster>>
  PROVE  RowsTyped'
  BY DEF OrdersTypeOK, RowsTyped

\* Rows are deleted.
LEMMA RowsRestricted ==
  ASSUME OrdersTypeOK, NEW S \in SUBSET DOMAIN programs, NEW T \in SUBSET DOMAIN roster,
         programs' = Restrict(programs, S) \/ UNCHANGED programs,
         roster' = Restrict(roster, T) \/ UNCHANGED roster
  PROVE  RowsTyped'
  BY DEF OrdersTypeOK, RowsTyped, Restrict

LEMMA InsertType ==
  ASSUME OrdersTypeOK, NEW r \in Program, Insert(r), UNCHANGED roster
  PROVE  RowsTyped'
  BY DEF OrdersTypeOK, RowsTyped, Insert

\* A job taken, or gone on with, is of its type.
LEMMA JobsGoTyped ==
  ASSUME OrdersTypeOK, NEW w \in Workers, NEW j, JobOK(j), Goes(w, j)
  PROVE  JobsTyped'
  BY JobsGo DEF JobsTyped

LEMMA JobsTakenTyped ==
  ASSUME OrdersTypeOK, NEW w \in Workers, NEW j, NEW o, JobOK(j), Takes(w, o, j)
  PROVE  JobsTyped'
  BY JobsTaken DEF JobsTyped

LEMMA RequestType ==
  ASSUME OrdersTypeOK, NEW w \in Workers, Request(w)
  PROVE  OrdersTypeOK'
<1>0. /\ \A t \in env.orders : ParseEscortMessage(t) \in Order
      /\ \A t \in env.completions : ParseCompletedDraft(t, Today) \in Completion
      /\ RecordsOf(env.sent) \in Seq(Record) /\ env.edits \subseteq Edit /\ env.entries \subseteq Edit
  BY WorldTypes DEF OrdersTypeOK
<1>1. ASSUME NEW c \in Clients, HandleEscortClientMessage(w, c)
      PROVE  OrdersTypeOK'
  <2>1. PICK t \in env.orders :
          LET o == ParseEscortMessage(t) IN
          Takes(w, "order", Save(IF o.lighters = <<>> THEN [o EXCEPT !.lighters = <<Lighter(None, None)>>] ELSE o, c))
    BY <1>1, Zenon DEF HandleEscortClientMessage
  <2> DEFINE o == ParseEscortMessage(t)
             o2 == IF o.lighters = <<>> THEN [o EXCEPT !.lighters = <<Lighter(None, None)>>] ELSE o
  <2>2. o \in Order
    BY <1>0, <2>1
  <2>3. <<Lighter(None, None)>> \in Seq([lv : Names, master : Phones \cup {None}])
    BY DEF Lighter, Names
  <2>4. o2 \in Order
    <3> HIDE DEF o
    <3> QED
      BY <2>2, <2>3 DEF Order
  <2>5. Takes(w, "order", Save(o2, c))
    BY <2>1
  <2>6. UNCHANGED <<programs, roster, env>>
    BY <1>1 DEF HandleEscortClientMessage
  <2> HIDE DEF o2
  <2> QED
    BY <2>4, <2>5, <2>6, SaveType, JobsTakenTyped, RowsKept, TypeKept
<1>2. ASSUME HandleAdminEscortCompletion(w)
      PROVE  OrdersTypeOK'
  <2>1. PICK j : Takes(w, "complete", j) /\ j.pc \in {"confirm", "existing"} /\ j.d \in Completion
    <3>1. PICK t \in env.completions :
            \/ \E p \in FindPendingProgram(ParseCompletedDraft(t, Today).mv, ParseCompletedDraft(t, Today).lv) :
                 Takes(w, "complete", [pc |-> "confirm", p |-> p, d |-> ParseCompletedDraft(t, Today),
                                       slip |-> [client |-> programs[p].client, mv |-> ParseCompletedDraft(t, Today).mv,
                                                 lv |-> ParseCompletedDraft(t, Today).lv]])
            \/ Takes(w, "complete", [pc |-> "existing", d |-> ParseCompletedDraft(t, Today)])
      BY <1>2, Zenon DEF HandleAdminEscortCompletion
    <3> DEFINE d == ParseCompletedDraft(t, Today)
    <3>2. d \in Completion
      BY <1>0
    <3> HIDE DEF d
    <3>3. \/ \E x, y : Takes(w, "complete", [pc |-> "confirm", p |-> x, d |-> d, slip |-> y])
          \/ Takes(w, "complete", [pc |-> "existing", d |-> d])
      BY <3>1, Zenon DEF d
    <3>4. \A x, y : LET j == [pc |-> "confirm", p |-> x, d |-> d, slip |-> y] IN j.pc = "confirm" /\ j.d = d
      OBVIOUS
    <3>5. LET j == [pc |-> "existing", d |-> d] IN j.pc = "existing" /\ j.d = d
      OBVIOUS
    <3> QED
      BY <3>2, <3>3, <3>4, <3>5, Zenon
  <2>2. UNCHANGED <<programs, roster, env>>
    BY <1>2 DEF HandleAdminEscortCompletion
  <2>3. JobOK(j)
    BY <2>1 DEF JobOK
  <2> QED
    BY <2>1, <2>2, <2>3, JobsTakenTyped, RowsKept, TypeKept
<1>3. ASSUME ApiReconcileDrafts(w)
      PROVE  OrdersTypeOK'
  <2>1. PICK s : Takes(w, "reconcile", ReconcileAll(s))
    BY <1>3, Zenon DEF ApiReconcileDrafts
  <2>2. UNCHANGED <<programs, roster, env>>
    BY <1>3 DEF ApiReconcileDrafts
  <2> QED
    BY <2>1, <2>2, JobTypes, JobsTakenTyped, RowsKept, TypeKept
<1>4. ASSUME SyncFromBridgeSqlite(w)
      PROVE  OrdersTypeOK'
  BY <1>0, <1>4, JobTypes, JobsTakenTyped, RowsKept, TypeKept DEF SyncFromBridgeSqlite
<1>5. ASSUME SyncConversationHistory(w)
      PROVE  OrdersTypeOK'
  BY <1>5, JobTypes, JobsTakenTyped, RowsKept, TypeKept DEF SyncConversationHistory
<1>6. ASSUME RebuildRosterFromHistory(w)
      PROVE  OrdersTypeOK'
  <2>1. PICK s : Takes(w, "rebuild", SyncAll(s, [pc |-> "unmatched"]))
    BY <1>6, Zenon DEF RebuildRosterFromHistory
  <2>2. UNCHANGED <<programs, roster, env>>
    BY <1>6 DEF RebuildRosterFromHistory
  <2>3. Rest([pc |-> "unmatched"])
    BY DEF Rest
  <2>4. JobOK(SyncAll(s, [pc |-> "unmatched"]))
    BY <2>3, JobTypes
  <2> QED
    BY <2>1, <2>2, <2>4, JobsTakenTyped, RowsKept, TypeKept
<1>7. ASSUME SyncAllPrograms(w)
      PROVE  OrdersTypeOK'
  <2>1. PICK s : Takes(w, "syncall", SyncAll(s, Idle))
    BY <1>7, Zenon DEF SyncAllPrograms
  <2>2. UNCHANGED <<programs, roster, env>>
    BY <1>7 DEF SyncAllPrograms
  <2> QED
    BY <2>1, <2>2, JobTypes, JobsTakenTyped, RowsKept, TypeKept
<1>8. ASSUME CreateRosterEntry(w)
      PROVE  OrdersTypeOK'
  <2>1. PICK p \in MaxPrograms + 1..MaxEntries, u \in env.entries : Takes(w, "create", [pc |-> "create_entry", p |-> p, u |-> u])
    BY <1>8, Zenon DEF CreateRosterEntry
  <2>2. JobOK([pc |-> "create_entry", p |-> p, u |-> u])
    BY <1>0 DEF JobOK
  <2>3. UNCHANGED <<programs, roster, env>>
    BY <1>8 DEF CreateRosterEntry
  <2> QED
    BY <2>1, <2>2, <2>3, JobsTakenTyped, RowsKept, TypeKept
<1>9. ASSUME NEW ids, NEW o, Takes(w, o, Idle), DeleteDraftEntries(ids)
      PROVE  OrdersTypeOK'
  BY <1>9, JobTypes, JobsTakenTyped, RowsRestricted, TypeKept DEF DeleteDraftEntries
<1>10. ASSUME NEW ids, NEW o, Takes(w, o, Drop(ids, Idle)), UNCHANGED <<programs, roster, env>>
       PROVE  OrdersTypeOK'
  BY <1>10, JobTypes, JobsTakenTyped, RowsKept, TypeKept
<1>11. ASSUME NEW p, SyncOne(w, p)
       PROVE  OrdersTypeOK'
  <2>1. JobOK(Sync(p, Idle))
    BY JobTypes DEF AfterSync
  <2> QED
    BY <1>11, <2>1, JobsTakenTyped, RowsKept, TypeKept DEF SyncOne
<1>12. ASSUME NEW p \in DOMAIN roster, UpdateRosterEntry(w, p)
       PROVE  OrdersTypeOK'
  <2>1. PICK u \in env.edits : Takes(w, "edit", [pc |-> "edit_write", p |-> p, u |-> u])
    BY <1>12 DEF UpdateRosterEntry
  <2>2. JobOK([pc |-> "edit_write", p |-> p, u |-> u])
    BY <1>0 DEF JobOK
  <2>3. UNCHANGED <<programs, roster, env>>
    BY <1>12 DEF UpdateRosterEntry
  <2> QED
    BY <2>1, <2>2, <2>3, JobsTakenTyped, RowsKept, TypeKept
<1> QED
  BY <1>1, <1>2, <1>3, <1>4, <1>5, <1>6, <1>7, <1>8, <1>9, <1>10, <1>11, <1>12
     DEF Request, CleanupDraftEntries, ExpireStaleDrafts, CleanupEmptyDrafts, CleanupJunkDrafts, DeleteDraftProgram

\* The steps that leave the rows of both tables alone.
LEMMA QuietStepType ==
  ASSUME OrdersTypeOK, NEW w \in Workers,
         \/ SaveLook(w) \/ Fails(w) \/ FindExisting(w) \/ SendSlip(w) \/ ReconcileRead(w) \/ ReconcileNext(w)
         \/ BackfillLook(w) \/ HistoryMatch(w) \/ HistoryInsert(w) \/ ReadUnmatched(w) \/ RematchOne(w)
         \/ SyncRead(w) \/ SyncNext(w) \/ EditRead(w)
  PROVE  OrdersTypeOK'
<1> DEFINE k == job[w]
<1>0. JobOK(k)
  BY DEF OrdersTypeOK
<1>00. UNCHANGED <<programs, roster, env>>
  BY DEF SaveLook, Fails, FindExisting, SendSlip, ReconcileRead, ReconcileNext, BackfillLook, HistoryMatch,
         HistoryInsert, ReadUnmatched, RematchOne, SyncRead, SyncNext, EditRead
<1> SUFFICES \E j : JobOK(j) /\ Goes(w, j)
  BY <1>00, JobsGoTyped, RowsKept, TypeKept
<1>1. ASSUME k.pc \in {"save", "save_insert"}
      PROVE  (\E j : JobOK(j) /\ Goes(w, j)) \/ ~(SaveLook(w) \/ Saved(w))
  <2> DEFINE o == [k.o EXCEPT !.lighters = Tail(@)]
  <2>1. o \in Order /\ k.c \in Clients
    BY <1>0, <1>1 DEF JobOK, Order
  <2>2. JobOK(Save(o, k.c))
    BY <2>1, SaveType
  <2>3. JobOK([k EXCEPT !.pc = "save_insert"])
    BY <1>0, <1>1 DEF JobOK
  <2> QED
    BY <2>2, <2>3, Zenon DEF SaveLook, Saved
<1>13. ASSUME SaveLook(w)
       PROVE  \E j : JobOK(j) /\ Goes(w, j)
  <2>1. k.pc \in {"save", "save_insert"}
    BY <1>13 DEF SaveLook, At
  <2> QED
    BY <1>1, <1>13, <2>1
<1>14. ASSUME Fails(w)
       PROVE  \E j : JobOK(j) /\ Goes(w, j)
  <2>1. \/ k.pc \in {"save", "save_insert"} /\ Saved(w)
        \/ k.pc \in {"reconcile", "drop_entries", "drop_programs"} /\ Goes(w, k.then)
        \/ k.pc \in {"sync_read", "sync_write"} /\ Goes(w, k.then)
        \/ Goes(w, Idle)
    BY <1>14 DEF Fails, At, Done
  <2>2. k.pc \in {"reconcile", "drop_entries", "drop_programs"} => JobOK(k.then)
    BY <1>0, JobTypes DEF JobOK
  <2>3. k.pc \in {"sync_read", "sync_write"} => JobOK(k.then)
    BY <1>0, AfterSyncType DEF JobOK
  <2> QED
    BY <1>1, <2>1, <2>2, <2>3, JobTypes, Zenon
<1>2. ASSUME FindExisting(w)
      PROVE  \E j : JobOK(j) /\ Goes(w, j)
  <2>1. k.d \in Completion
    BY <1>0, <1>2 DEF JobOK, FindExisting, At
  <2>2. JobOK([pc |-> "create", d |-> k.d]) /\ \A x, y : JobOK([pc |-> "confirm", p |-> x, d |-> k.d, slip |-> y])
    BY <2>1 DEF JobOK
  <2>3. (\E x, y : Goes(w, [pc |-> "confirm", p |-> x, d |-> k.d, slip |-> y])) \/ Goes(w, [pc |-> "create", d |-> k.d])
    BY <1>2, Zenon DEF FindExisting
  <2> QED
    BY <2>2, <2>3, Zenon
<1>3. ASSUME SendSlip(w)
      PROVE  \E j : JobOK(j) /\ Goes(w, j)
  BY <1>3, JobTypes, Zenon DEF SendSlip, Done
<1>4. ASSUME ReconcileRead(w)
      PROVE  \E j : JobOK(j) /\ Goes(w, j)
  <2>1. Rest(k.then) /\ Goes(w, Drop(Superseded(k.lv, k.mv), k.then))
    BY <1>0, <1>4 DEF JobOK, ReconcileRead, At
  <2> QED
    BY <2>1, JobTypes, Zenon
<1>5. ASSUME ReconcileNext(w)
      PROVE  \E j : JobOK(j) /\ Goes(w, j)
  <2>1. PICK x, y, s : Goes(w, Reconcile(x, y, ReconcileAll(s)))
    BY <1>5, Zenon DEF ReconcileNext
  <2> QED
    BY <2>1, JobTypes, Zenon
<1>6. ASSUME BackfillLook(w)
      PROVE  \E j : JobOK(j) /\ Goes(w, j)
  <2>1. k.pc = "backfill" /\ DOMAIN k = {"pc", "recs"} /\ k.recs \in Seq(Record) /\ k.recs # <<>>
    BY <1>0, <1>6 DEF JobOK, BackfillLook, At
  <2>2. Tail(k.recs) \in Seq(Record)
    BY <2>1
  <2>3. JobOK(Backfill(Tail(k.recs)))
    BY <2>2, JobTypes
  <2>4. JobOK([k EXCEPT !.pc = "backfill_insert"])
    BY <2>1 DEF JobOK
  <2> QED
    BY <1>6, <2>3, <2>4, Zenon DEF BackfillLook
<1>7. ASSUME HistoryMatch(w)
      PROVE  \E j : JobOK(j) /\ Goes(w, j)
  <2>1. \A x, y : JobOK([pc |-> "history_insert", m |-> x, recs |-> y])
    BY DEF JobOK
  <2> QED
    BY <1>7, <2>1, Zenon DEF HistoryMatch
<1>8. ASSUME HistoryInsert(w)
      PROVE  \E j : JobOK(j) /\ Goes(w, j)
  <2>1. \A s : JobOK(History(s)) /\ AfterSync(History(s))
    BY JobTypes DEF AfterSync
  <2>2. \A p, s : JobOK(Sync(p, History(s)))
    BY <2>1, JobTypes, Zenon
  <2> QED
    BY <1>8, <2>1, <2>2, Zenon DEF HistoryInsert
<1>9. ASSUME ReadUnmatched(w) \/ RematchOne(w)
      PROVE  \E j : JobOK(j) /\ Goes(w, j)
  BY <1>9, JobTypes, Zenon DEF ReadUnmatched, RematchOne
<1>10. ASSUME SyncRead(w)
       PROVE  \E j : JobOK(j) /\ Goes(w, j)
  <2>1. AfterSync(k.then)
    BY <1>0, <1>10 DEF JobOK, SyncRead, At
  <2> DEFINE old == IF k.p \in DOMAIN roster THEN roster[k.p].version ELSE 0
             e == EntryOf(programs[k.p])
  <2>2. old \in Nat
    BY DEF OrdersTypeOK, Entry
  <2>3. k.p \in DOMAIN programs => e \in Entry /\ Fits(e)
    BY EntryOfFits DEF OrdersTypeOK
  <2>4. IF k.p \in DOMAIN programs
        THEN Goes(w, [pc |-> "sync_write", p |-> k.p, e |-> e, old |-> old, then |-> k.then])
        ELSE Goes(w, k.then)
    BY <1>10 DEF SyncRead
  <2> HIDE DEF old, e
  <2>5. k.p \in DOMAIN programs => JobOK([pc |-> "sync_write", p |-> k.p, e |-> e, old |-> old, then |-> k.then])
    BY <2>1, <2>2, <2>3 DEF JobOK
  <2> QED
    BY <2>1, <2>4, <2>5, AfterSyncType, Zenon
<1>11. ASSUME SyncNext(w)
       PROVE  \E j : JobOK(j) /\ Goes(w, j)
  <2>1. Rest(k.then)
    BY <1>0, <1>11 DEF JobOK, SyncNext, At
  <2>2. JobOK(k.then) /\ \A p, s : JobOK(Sync(p, SyncAll(s, k.then)))
    BY <2>1, JobTypes
  <2> QED
    BY <1>11, <2>2, Zenon DEF SyncNext
<1>12. ASSUME EditRead(w)
       PROVE  \E j : JobOK(j) /\ Goes(w, j)
  <2> DEFINE conv == IF k.u.conv >= 0 THEN k.u.conv ELSE 0
             e == Paid(roster[k.p], conv)
  <2>0. k.u \in Edit
    BY <1>0, <1>12 DEF JobOK, EditRead, At
  <2>1. conv \in Nat
    BY <2>0, EditType
  <2>2. k.p \in DOMAIN roster /\ Dated(roster[k.p]) => e \in Entry
    BY <2>1, PaidFits DEF OrdersTypeOK
  <2>3. IF k.p \in DOMAIN roster /\ Dated(roster[k.p]) THEN Goes(w, [pc |-> "edit_pay", p |-> k.p, e |-> e])
        ELSE Goes(w, Idle)
    BY <1>12 DEF EditRead, Done, Dated
  <2> HIDE DEF e
  <2>4. k.p \in DOMAIN roster /\ Dated(roster[k.p]) => JobOK([pc |-> "edit_pay", p |-> k.p, e |-> e])
    BY <2>2 DEF JobOK
  <2> QED
    BY <2>3, <2>4, JobTypes, Zenon
<1> QED
  BY <1>2, <1>3, <1>4, <1>5, <1>6, <1>7, <1>8, <1>9, <1>10, <1>11, <1>12, <1>13, <1>14

\* The steps that write a row.
LEMMA WriteStepType ==
  ASSUME OrdersTypeOK, NEW w \in Workers,
         \/ SaveInsert(w) \/ UpdateProgramConfirmed(w) \/ CreateConfirmed(w) \/ BackfillInsert(w)
         \/ DropEntries(w) \/ DropPrograms(w) \/ SyncWrite(w) \/ EditWrite(w) \/ EditPay(w) \/ CreateEntry(w)
  PROVE  OrdersTypeOK'
<1> DEFINE k == job[w]
<1>0. JobOK(k)
  BY DEF OrdersTypeOK
<1>1. ASSUME SaveInsert(w)
      PROVE  OrdersTypeOK'
  <2> DEFINE l == Head(k.o.lighters)
             o == [k.o EXCEPT !.lighters = Tail(@)]
             x == Row(k.o.mv, l.lv, "draft")
             r == [x EXCEPT !.master = l.master, !.client = k.c]
  <2>1. k.o \in Order /\ k.c \in Clients /\ k.o.lighters # <<>>
    BY <1>0, <1>1 DEF JobOK, SaveInsert, At
  <2>2. l \in [lv : Names, master : Phones \cup {None}] /\ o \in Order
    <3>1. k.o.lighters \in Seq([lv : Names, master : Phones \cup {None}])
      BY <2>1 DEF Order
    <3>2. Tail(k.o.lighters) \in Seq([lv : Names, master : Phones \cup {None}])
      BY <2>1, <3>1
    <3>3. o \in Order
      BY <2>1, <3>2 DEF Order
    <3>4. l \in [lv : Names, master : Phones \cup {None}]
      BY <2>1, <3>1, HeadTailProperties
    <3> QED
      BY <3>3, <3>4
  <2>3. x \in Program
    <3>1. k.o.mv \in Names /\ l.lv \in Names /\ "draft" \in Statuses
      BY <2>1, <2>2 DEF Order, Statuses
    <3> HIDE DEF l
    <3> QED
      BY <3>1, RowType
  <2>4. r \in Program
    <3> HIDE DEF x, l
    <3> QED
      BY <2>1, <2>2, <2>3 DEF Program
  <2>5. Insert(r) /\ Goes(w, Save(o, k.c)) /\ UNCHANGED <<roster, env>>
    BY <1>1 DEF SaveInsert, Saved
  <2> HIDE DEF r, o
  <2> QED
    BY <2>1, <2>2, <2>4, <2>5, SaveType, JobsGoTyped, InsertType, TypeKept
<1>2. ASSUME UpdateProgramConfirmed(w)
      PROVE  OrdersTypeOK'
  <2> DEFINE d == k.d
             next == IF k.slip.client = None THEN Idle ELSE [pc |-> "slip", slip |-> k.slip]
  <2>1. d \in Completion
    BY <1>0, <1>2 DEF JobOK, UpdateProgramConfirmed, At
  <2>2. Rest(next)
    BY JobTypes DEF Rest
  <2>3. /\ \/ programs' = IF k.p \in DOMAIN programs THEN [programs EXCEPT ![k.p] = Confirmed(@, d)] ELSE programs
           \/ programs' = programs
        /\ Goes(w, Reconcile(d.lv, d.mv, next)) /\ UNCHANGED <<roster, env>>
    BY <1>2 DEF UpdateProgramConfirmed
  <2> HIDE DEF d, next
  <2>4. RowsTyped'
    BY <2>1, <2>3, ConfirmedType DEF OrdersTypeOK, RowsTyped
  <2>5. JobOK(Reconcile(d.lv, d.mv, next))
    BY <2>2, JobTypes
  <2> QED
    BY <2>3, <2>4, <2>5, JobsGoTyped, TypeKept
<1>3. ASSUME CreateConfirmed(w)
      PROVE  OrdersTypeOK'
  <2> DEFINE d == k.d
             x == Confirmed(Row(d.mv, d.lv, "confirmed"), d)
             r == [x EXCEPT !.master = d.master, !.shift = IF d.shift = "" THEN "D" ELSE d.shift]
  <2>1. d \in Completion
    BY <1>0, <1>3 DEF JobOK, CreateConfirmed, At
  <2>2. x \in Program
    <3>1. d.mv \in Names /\ d.lv \in Names /\ "confirmed" \in Statuses
      BY <2>1 DEF Completion, Statuses
    <3> QED
      BY <2>1, <3>1, RowType, ConfirmedType
  <2>3. r \in Program
    <3> HIDE DEF x, d
    <3> QED
      BY <2>1, <2>2 DEF Program, Completion
  <2>4. Insert(r) /\ Goes(w, Reconcile(d.lv, d.mv, Idle)) /\ UNCHANGED <<roster, env>>
    BY <1>3 DEF CreateConfirmed
  <2> HIDE DEF r, d
  <2>5. JobOK(Reconcile(d.lv, d.mv, Idle))
    BY JobTypes
  <2> QED
    BY <2>3, <2>4, <2>5, JobsGoTyped, InsertType, TypeKept
<1>4. ASSUME BackfillInsert(w)
      PROVE  OrdersTypeOK'
  <2> DEFINE m == Head(k.recs)
             x == Row(m.mv, m.lv, "confirmed")
             r == [x EXCEPT !.master = m.master, !.escort = m.escort, !.mobile = m.mobile,
                            !.shift = m.shift, !.date = DateOf(m), !.hist = TRUE]
             j == Sync(lastId + 1, Backfill(Tail(k.recs)))
  <2>1. k.recs \in Seq(Record) /\ k.recs # <<>>
    BY <1>0, <1>4 DEF JobOK, BackfillInsert, At
  <2>2. m \in Record /\ Tail(k.recs) \in Seq(Record)
    BY <2>1
  <2>3. JobOK(j)
    BY <2>2, JobTypes DEF AfterSync
  <2>4. Insert(r) /\ Goes(w, j) /\ UNCHANGED <<roster, env>>
    BY <1>4 DEF BackfillInsert
  <2> HIDE DEF m, j
  <2>5. DateOf(m) \in Days
    BY <2>2, DateType
  <2>6. x \in Program
    <3>1. m.mv \in Names /\ m.lv \in Names /\ "confirmed" \in Statuses
      BY <2>2 DEF Record, Statuses
    <3> QED
      BY <3>1, RowType
  <2>7. r \in Program
    <3> DEFINE a == DateOf(m)
    <3>1. a \in Days
      BY <2>5
    <3> HIDE DEF x, a
    <3>2. [x EXCEPT !.master = m.master, !.escort = m.escort, !.mobile = m.mobile,
                    !.shift = m.shift, !.date = a, !.hist = TRUE] \in Program
      BY <2>2, <2>6, <3>1 DEF Program, Record
    <3> QED
      BY <3>2 DEF a
  <2> HIDE DEF r
  <2> QED
    BY <2>3, <2>4, <2>7, JobsGoTyped, InsertType, TypeKept
<1>5. ASSUME DropEntries(w)
      PROVE  OrdersTypeOK'
  <2>1. JobOK([k EXCEPT !.pc = "drop_programs"])
    BY <1>0, <1>5 DEF JobOK, DropEntries, At
  <2>2. Goes(w, [k EXCEPT !.pc = "drop_programs"]) /\ UNCHANGED <<programs, env>>
        /\ roster' = Restrict(roster, DOMAIN roster \ k.ids)
    BY <1>5 DEF DropEntries
  <2> QED
    BY <2>1, <2>2, JobsGoTyped, RowsRestricted, TypeKept
<1>6. ASSUME DropPrograms(w)
      PROVE  OrdersTypeOK'
  <2>1. JobOK(k.then)
    BY <1>0, <1>6, JobTypes DEF JobOK, DropPrograms, At
  <2>2. Goes(w, k.then) /\ UNCHANGED <<roster, env>>
        /\ programs' = Restrict(programs, {p \in DOMAIN programs : p \in k.ids => programs[p].status # "draft"})
    BY <1>6 DEF DropPrograms
  <2> QED
    BY <2>1, <2>2, JobsGoTyped, RowsRestricted, TypeKept
<1>7. ASSUME SyncWrite(w)
      PROVE  OrdersTypeOK'
  <2>1. AfterSync(k.then) /\ k.e \in Entry /\ k.old \in Nat
    BY <1>0, <1>7 DEF JobOK, SyncWrite, At
  <2>2. Goes(w, k.then) /\ UNCHANGED <<programs, env>>
    BY <1>7 DEF SyncWrite
  <2>3. [k.e EXCEPT !.version = k.old + 1] \in Entry
    BY <2>1 DEF Entry
  <2>4. RowsTyped'
    BY <1>7, <2>1, <2>2, <2>3 DEF SyncWrite, OrdersTypeOK, RowsTyped
  <2> QED
    BY <2>1, <2>2, <2>4, AfterSyncType, JobsGoTyped, TypeKept
<1>8. ASSUME EditWrite(w)
      PROVE  OrdersTypeOK'
  <2> DEFINE u == k.u
  <2>1. DOMAIN k = {"pc", "p", "u"} /\ u \in Edit
    BY <1>0, <1>8 DEF JobOK, EditWrite, At
  <2>2. JobOK([k EXCEPT !.pc = "edit_read"])
    BY <2>1 DEF JobOK
  <2>3. Goes(w, [k EXCEPT !.pc = "edit_read"]) \/ Goes(w, Idle)
    BY <1>8 DEF EditWrite, Done
  <2>4. UNCHANGED <<programs, env>>
    BY <1>8 DEF EditWrite
  <2>5. k.p \in DOMAIN roster => roster' = [roster EXCEPT ![k.p] = Patched(@, u)]
    BY <1>8 DEF EditWrite
  <2>6. k.p \notin DOMAIN roster => UNCHANGED roster
    BY <1>8 DEF EditWrite
  <2>7. \A x \in Entry : Patched(x, u) \in Entry
    BY <2>1, PatchedType
  <2> HIDE DEF u
  <2>8. RowsTyped'
    BY <2>4, <2>5, <2>6, <2>7 DEF OrdersTypeOK, RowsTyped
  <2> QED
    BY <2>2, <2>3, <2>4, <2>8, JobTypes, JobsGoTyped, TypeKept
<1>9. ASSUME EditPay(w)
      PROVE  OrdersTypeOK'
  <2> DEFINE e == k.e
  <2>1. e \in Entry
    BY <1>0, <1>9 DEF JobOK, EditPay, At
  <2>2. Goes(w, Idle) /\ UNCHANGED <<programs, env>>
    BY <1>9 DEF EditPay, Done
  <2>3. roster' = IF k.p \notin DOMAIN roster THEN roster
                  ELSE [roster EXCEPT ![k.p] = [@ EXCEPT !.shifts = e.shifts, !.conv = e.conv, !.total = e.total]]
    BY <1>9 DEF EditPay
  <2>4. \A x \in Entry : [x EXCEPT !.shifts = e.shifts, !.conv = e.conv, !.total = e.total] \in Entry
    BY <2>1 DEF Entry
  <2>5. RowsTyped'
    BY <2>2, <2>3, <2>4 DEF OrdersTypeOK, RowsTyped
  <2> QED
    BY <2>2, <2>5, JobTypes, JobsGoTyped, TypeKept
<1>10. ASSUME CreateEntry(w)
       PROVE  OrdersTypeOK'
  <2> DEFINE x == HandMade(k.u)
  <2>1. x \in Entry
    BY <1>0, <1>10, HandMadeFits DEF CreateEntry, At, JobOK
  <2>2. Goes(w, Idle) /\ UNCHANGED <<programs, env>>
    BY <1>10 DEF CreateEntry, Done
  <2>3. roster' = IF k.p \in DOMAIN roster THEN roster
                  ELSE [q \in DOMAIN roster \cup {k.p} |-> IF q = k.p THEN x ELSE roster[q]]
    BY <1>10 DEF CreateEntry
  <2> HIDE DEF x
  <2>4. RowsTyped'
    BY <2>1, <2>2, <2>3 DEF OrdersTypeOK, RowsTyped
  <2> QED
    BY <2>2, <2>4, JobTypes, JobsGoTyped, TypeKept
<1> QED
  BY <1>1, <1>2, <1>3, <1>4, <1>5, <1>6, <1>7, <1>8, <1>9, <1>10

\* The other writers change the status, and a closure the end.
LEMMA OtherWriters ==
  ASSUME OrdersTypeOK, NEW p \in DOMAIN programs, EscortConfirm(p) \/ Assign(p) \/ Cancel(p) \/ CloseProgram(p)
  PROVE  \E r \in Program : Rewrite(p, r) /\ r.legacy = programs[p].legacy
<1>0. programs[p] \in Program
  BY DEF OrdersTypeOK
<1>1. ASSUME NEW st \in Statuses, SetStatus(p, st)
      PROVE  \E r \in Program : Rewrite(p, r) /\ r.legacy = programs[p].legacy
  <2> DEFINE x == programs[p]
             r == [x EXCEPT !.status = st]
  <2>1. x \in Program
    BY <1>0
  <2>2. Rewrite(p, r)
    BY <1>1 DEF SetStatus
  <2> HIDE DEF x
  <2>3. r \in Program /\ r.legacy = x.legacy
    BY <2>1 DEF Program
  <2> HIDE DEF r
  <2> QED
    BY <2>2, <2>3 DEF x
<1>2. ASSUME NEW d \in Days, NEW es \in {"D", "N"},
             Rewrite(p, [programs[p] EXCEPT !.status = "Completed", !.end = d, !.es = es])
      PROVE  \E r \in Program : Rewrite(p, r) /\ r.legacy = programs[p].legacy
  <2> DEFINE x == programs[p]
             r == [x EXCEPT !.status = "Completed", !.end = d, !.es = es]
  <2>1. x \in Program /\ d \in 0..LastDay
    BY <1>0, RosterAssumption DEF Days
  <2>2. Rewrite(p, r)
    BY <1>2
  <2> HIDE DEF x
  <2>3. r \in Program /\ r.legacy = x.legacy
    BY <2>1 DEF Program, Statuses
  <2> HIDE DEF r
  <2> QED
    BY <2>2, <2>3 DEF x
<1>3. \/ \E st \in Statuses : SetStatus(p, st)
      \/ \E d \in Days, es \in {"D", "N"} :
           Rewrite(p, [programs[p] EXCEPT !.status = "Completed", !.end = d, !.es = es])
  BY DEF EscortConfirm, Assign, Cancel, CloseProgram, Statuses
<1> QED
  BY <1>1, <1>2, <1>3

LEMMA OtherWriterType ==
  ASSUME OrdersTypeOK, NEW p \in DOMAIN programs, EscortConfirm(p) \/ Assign(p) \/ Cancel(p) \/ CloseProgram(p)
  PROVE  OrdersTypeOK'
<1>1. PICK r \in Program : Rewrite(p, r)
  BY OtherWriters
<1> QED
  BY <1>1 DEF Rewrite, OrdersTypeOK

LEMMA OrdersTypeStep ==
  ASSUME OrdersTypeOK, [Next]_vars
  PROVE  OrdersTypeOK'
<1>1. ASSUME NEW w \in Workers, Step(w)
      PROVE  OrdersTypeOK'
  BY <1>1, QuietStepType, WriteStepType DEF Step
<1>2. CASE UNCHANGED vars
  BY <1>2 DEF vars, OrdersTypeOK
<1> QED
  BY <1>1, <1>2, RequestType, OtherWriterType DEF Next

LEMMA OrdersTypeInit ==
  ASSUME Init
  PROVE  OrdersTypeOK
<1>1. /\ \A p \in DOMAIN env.programs : env.programs[p] \in Program
      /\ env.listed \subseteq DOMAIN env.programs
  BY WorldTypes DEF Init
<1>2. \A p \in DOMAIN roster : roster[p] \in Entry
  BY <1>1, EntryOfFits DEF Init
<1> QED
  BY <1>1, <1>2, JobTypes DEF Init, OrdersTypeOK

-----------------------------------------------------------------------------
(* What the orders and the roster guarantee *)

\* Programs, entries and what a worker keeps between awaits are of their types, for any
\* vessels, texts, workers and worlds.
THEOREM OrdersTypeCorrect == Spec => []OrdersTypeOK
<1>1. Init => OrdersTypeOK
  BY OrdersTypeInit
<1>2. OrdersTypeOK /\ [Next]_vars => OrdersTypeOK'
  BY OrdersTypeStep
<1> QED
  BY <1>1, <1>2, PTL DEF Spec

\* No step deletes a program beyond 'draft', for any vessels, texts, workers and worlds.
THEOREM ConfirmedStays == Spec => ConfirmedIsKept
<1> DEFINE Kept == \A p \in DOMAIN programs : programs[p].status # "draft" => p \in DOMAIN programs'
<1>1. ASSUME NEW w \in Workers, Request(w)
      PROVE  Kept
  <2>1. UNCHANGED programs
    BY <1>1 DEF Request, HandleEscortClientMessage, HandleAdminEscortCompletion, ApiReconcileDrafts,
         SyncFromBridgeSqlite, SyncConversationHistory, RebuildRosterFromHistory, SyncAllPrograms,
         CreateRosterEntry, CleanupDraftEntries, ExpireStaleDrafts, DeleteDraftEntries, CleanupEmptyDrafts,
         CleanupJunkDrafts, SyncOne, DeleteDraftProgram, UpdateRosterEntry
  <2> QED
    BY <2>1
<1>2. ASSUME NEW w \in Workers, Step(w)
      PROVE  Kept
  <2>1. CASE UNCHANGED programs
    BY <2>1
  <2>2. ASSUME NEW r, Insert(r)
        PROVE  Kept
    BY <2>2 DEF Insert
  <2>3. CASE UpdateProgramConfirmed(w)
    BY <2>3 DEF UpdateProgramConfirmed
  <2>4. CASE DropPrograms(w)
    BY <2>4 DEF DropPrograms, Restrict
  <2>5. UNCHANGED programs \/ (\E r : Insert(r)) \/ UpdateProgramConfirmed(w) \/ DropPrograms(w)
    BY <1>2 DEF Step, SaveLook, SaveInsert, Fails, FindExisting, CreateConfirmed, SendSlip, ReconcileRead,
         ReconcileNext, DropEntries, BackfillLook, BackfillInsert, HistoryMatch, HistoryInsert, ReadUnmatched,
         RematchOne, SyncRead, SyncWrite, SyncNext, EditWrite, EditRead, EditPay, CreateEntry
  <2> QED
    BY <2>1, <2>2, <2>3, <2>4, <2>5, Zenon
<1>3. ASSUME NEW p \in DOMAIN programs, EscortConfirm(p) \/ Assign(p) \/ Cancel(p) \/ CloseProgram(p)
      PROVE  Kept
  <2>1. \E r : Rewrite(p, r)
    BY <1>3 DEF EscortConfirm, Assign, Cancel, CloseProgram, SetStatus
  <2> QED
    BY <2>1 DEF Rewrite
<1>4. ASSUME UNCHANGED vars
      PROVE  Kept
  BY <1>4 DEF vars
<1>5. [Next]_vars => Kept
  <2> HIDE DEF Kept
  <2> QED
    BY <1>1, <1>2, <1>3, <1>4, Zenon DEF Next
<1>6. [Next]_vars => [Kept]_vars
  BY <1>5
<1> QED
  BY <1>6, PTL DEF Spec, ConfirmedIsKept

-----------------------------------------------------------------------------
(* The pay of an entry *)

Plain(j) == j.pc \notin {"edit_write", "edit_read", "edit_pay", "sync_write", "create_entry"}
PaidFor == \A p \in DOMAIN roster : Fits(roster[p]) /\ Unpaid(roster[p], UndatedTotal(p))

LEMMA PlainJobs ==
  /\ Plain(Idle)
  /\ \A j : Rest(j) => Plain(j)
  /\ \A j : AfterSync(j) => Plain(j)
  /\ \A o, c : Plain(Save(o, c))
  /\ \A s : Plain(ReconcileAll(s)) /\ Plain(History(s)) /\ Plain(Rematch(s)) /\ Plain(Backfill(s))
  /\ \A ids, j : Plain(j) => Plain(Drop(ids, j))
  /\ \A p, j : Plain(Sync(p, j))
  /\ \A s, j : Plain(SyncAll(s, j))
  /\ \A lv, mv, j : Plain(j) => Plain(Reconcile(lv, mv, j))
<1>1. Plain(Idle)
  BY DEF Plain, Idle
<1>2. \A j : Rest(j) => Plain(j)
  BY DEF Rest, Plain
<1>3. \A j : AfterSync(j) => Plain(j)
  BY <1>2 DEF AfterSync, Plain
<1>4. \A o, c : Plain(Save(o, c))
  BY <1>1 DEF Plain, Save
<1>5. \A s : Plain(ReconcileAll(s)) /\ Plain(History(s)) /\ Plain(Rematch(s)) /\ Plain(Backfill(s))
  BY <1>1 DEF Plain, ReconcileAll, History, Rematch, Backfill
<1>6. \A ids, j : Plain(j) => Plain(Drop(ids, j))
  BY DEF Plain, Drop
<1>7. (\A p, j : Plain(Sync(p, j))) /\ (\A s, j : Plain(SyncAll(s, j)))
  BY DEF Plain, Sync, SyncAll
<1>8. \A lv, mv, j : Plain(j) => Plain(Reconcile(lv, mv, j))
  BY DEF Plain, Reconcile
<1> QED
  BY <1>1, <1>2, <1>3, <1>4, <1>5, <1>6, <1>7, <1>8

\* A request that is taken finds no edit at work, and an edit nothing at work.
LEMMA NobodyEdits ==
  ASSUME OrdersTypeOK, PayInv, EditsRecompute, NEW w \in Workers, NEW j, NEW o, Takes(w, o, j)
  PROVE  /\ \A v \in Workers : ~Editing(v)
         /\ o = "edit" => \A v \in Workers : job[v] = Idle
<1>1. ASSUME NEW v \in Workers, job[v] # Idle, "edit" \in env.ops, "edit" \in {o, kind[v]}
      PROVE  FALSE
  BY <1>1 DEF Takes, EditsRecompute
<1>2. ASSUME NEW v \in Workers, Editing(v)
      PROVE  FALSE
  <2>1. job[v] # Idle
    BY <1>2 DEF Editing, Idle
  <2> QED
    BY <1>1, <1>2, <2>1 DEF PayInv
<1>3. o = "edit" => "edit" \in env.ops
  BY DEF Takes
<1> QED
  BY <1>1, <1>2, <1>3

\* A worker at work that is not editing finds no edit at work.
LEMMA BusyAlone ==
  ASSUME PayInv, NEW w \in Workers, job[w] # Idle, ~Editing(w)
  PROVE  \A v \in Workers : ~Editing(v)
  BY DEF PayInv

LEMMA AllPaidFor ==
  ASSUME PayInv, \A v \in Workers : ~Editing(v)
  PROVE  PaidFor
  BY DEF PayInv, PaidFor, Recomputes, Editing

LEMMA DueStays ==
  ASSUME UNCHANGED env
  PROVE  \A p : UndatedTotal(p)' = UndatedTotal(p)
BY DEF UndatedTotal, Legacy

LEMMA PlainIsHarmless ==
  ASSUME NEW j, Plain(j)
  PROVE  Harmless(j)
BY DEF Plain, Harmless

\* Without an edit the entries fit, and the step leaves none at work.
LEMMA PlainKeepsPay ==
  ASSUME OrdersTypeOK, PayInv, \A v \in Workers : ~Editing(v), NEW w \in Workers, NEW j, Harmless(j),
         job' = [job EXCEPT ![w] = j], UNCHANGED env, PaidFor'
  PROVE  PayInv'
<1>1. \A v \in Workers : Harmless(job'[v])
  BY DEF OrdersTypeOK, PayInv
<1>2. \A v \in Workers : job'[v].pc \notin {"edit_write", "edit_read", "edit_pay"}
  BY <1>1 DEF Harmless
<1>3. (\A v \in Workers : Harmless(job[v]))'
  BY <1>1, DueStays DEF Harmless
<1> QED
  BY <1>2, <1>3 DEF PayInv, PaidFor, Editing, Recomputes

LEMMA RestrictedPaid ==
  ASSUME PaidFor, UNCHANGED env, NEW T \in SUBSET DOMAIN roster, roster' = Restrict(roster, T) \/ UNCHANGED roster
  PROVE  PaidFor'
<1>1. \A p : UndatedTotal(p)' = UndatedTotal(p)
  BY DueStays
<1>2. DOMAIN roster' \subseteq DOMAIN roster /\ \A p \in DOMAIN roster' : roster'[p] = roster[p]
  BY DEF Restrict
<1> QED
  BY <1>1, <1>2 DEF PaidFor

\* A request other than an edit.
LEMMA PlainRequestPay ==
  ASSUME OrdersTypeOK, PayInv, EditsRecompute, NEW w \in Workers, NEW j, NEW o, Takes(w, o, j), Plain(j),
         UNCHANGED env, NEW T \in SUBSET DOMAIN roster, roster' = Restrict(roster, T) \/ UNCHANGED roster
  PROVE  PayInv'
<1>0. Harmless(j)
  BY PlainIsHarmless
<1>1. job' = [job EXCEPT ![w] = j]
  BY DEF Takes
<1>2. (\A v \in Workers : ~Editing(v)) /\ PaidFor
  BY NobodyEdits, AllPaidFor
<1>3. PaidFor'
  BY <1>2, RestrictedPaid
<1> QED
  BY <1>0, <1>1, <1>2, <1>3, PlainKeepsPay

LEMMA RequestPay ==
  ASSUME OrdersTypeOK, PayInv, EditsRecompute, NEW w \in Workers, Request(w)
  PROVE  PayInv'
<1>1. ASSUME NEW p \in DOMAIN roster, UpdateRosterEntry(w, p)
      PROVE  PayInv'
  <2>1. PICK u \in env.edits : Takes(w, "edit", [pc |-> "edit_write", p |-> p, u |-> u])
    BY <1>1 DEF UpdateRosterEntry
  <2>2. UNCHANGED <<roster, env>>
    BY <1>1 DEF UpdateRosterEntry
  <2> DEFINE j == [pc |-> "edit_write", p |-> p, u |-> u]
  <2>3. /\ \A v \in Workers : ~Editing(v) /\ job[v] = Idle
        /\ PaidFor
    BY <2>1, NobodyEdits, AllPaidFor
  <2>4. j.pc = "edit_write" /\ j.u = u /\ j # Idle
    BY DEF Idle
  <2>5. Takes(w, "edit", j)
    BY <2>1
  <2> HIDE DEF j
  <2>6. job'[w] = j /\ kind'[w] = "edit" /\ "edit" \in env.ops /\ \A v \in Workers : v # w => job'[v] = Idle
    BY <2>3, <2>4, <2>5 DEF Takes, OrdersTypeOK
  <2>7. \A v \in Workers : v # w => job'[v].pc = "idle"
    BY <2>6 DEF Idle
  <2>8. \A q : UndatedTotal(q)' = UndatedTotal(q)
    BY <2>2, DueStays
  <2> QED
    BY <2>1, <2>2, <2>3, <2>4, <2>6, <2>7, <2>8 DEF PayInv, PaidFor, Editing, Recomputes, Harmless
<1>2. ASSUME NEW o, NEW j, Takes(w, o, j), Plain(j), UNCHANGED <<roster, env>>
      PROVE  PayInv'
  BY <1>2, PlainRequestPay
<1>3. ASSUME NEW o, NEW ids, Takes(w, o, Idle), DeleteDraftEntries(ids)
      PROVE  PayInv'
  BY <1>3, PlainRequestPay, PlainJobs DEF DeleteDraftEntries
<1>4. ASSUME NEW c \in Clients, HandleEscortClientMessage(w, c)
      PROVE  PayInv'
  <2>1. UNCHANGED <<roster, env>> /\ \E o : Takes(w, "order", Save(o, c))
    BY <1>4, Zenon DEF HandleEscortClientMessage
  <2> QED
    BY <1>2, <2>1, PlainJobs, Zenon
<1>5. ASSUME HandleAdminEscortCompletion(w)
      PROVE  PayInv'
  <2>1. UNCHANGED <<roster, env>>
    BY <1>5 DEF HandleAdminEscortCompletion
  <2>2. \/ \E x, y, z : Takes(w, "complete", [pc |-> "confirm", p |-> x, d |-> y, slip |-> z])
        \/ \E y : Takes(w, "complete", [pc |-> "existing", d |-> y])
    BY <1>5, Zenon DEF HandleAdminEscortCompletion
  <2>3. /\ \A x, y, z : Plain([pc |-> "confirm", p |-> x, d |-> y, slip |-> z])
        /\ \A y : Plain([pc |-> "existing", d |-> y])
    BY DEF Plain
  <2> QED
    BY <1>2, <2>1, <2>2, <2>3, Zenon
<1>6. ASSUME ApiReconcileDrafts(w)
      PROVE  PayInv'
  <2>1. UNCHANGED <<roster, env>> /\ \E s : Takes(w, "reconcile", ReconcileAll(s))
    BY <1>6, Zenon DEF ApiReconcileDrafts
  <2> QED
    BY <1>2, <2>1, PlainJobs, Zenon
<1>7. ASSUME SyncFromBridgeSqlite(w) \/ SyncConversationHistory(w)
      PROVE  PayInv'
  BY <1>2, <1>7, PlainJobs DEF SyncFromBridgeSqlite, SyncConversationHistory
<1>8. ASSUME RebuildRosterFromHistory(w) \/ SyncAllPrograms(w)
      PROVE  PayInv'
  <2>1. UNCHANGED <<roster, env>> /\ \E o, s, j : Takes(w, o, SyncAll(s, j))
    BY <1>8, Zenon DEF RebuildRosterFromHistory, SyncAllPrograms
  <2> QED
    BY <1>2, <2>1, PlainJobs, Zenon
<1>9. ASSUME CreateRosterEntry(w)
      PROVE  PayInv'
  <2>0. PICK p \in MaxPrograms + 1..MaxEntries : \E u : Takes(w, "create", [pc |-> "create_entry", p |-> p, u |-> u])
    BY <1>9, Zenon DEF CreateRosterEntry
  <2>1. PICK u : Takes(w, "create", [pc |-> "create_entry", p |-> p, u |-> u])
    BY <2>0
  <2>2. UNCHANGED <<roster, env>>
    BY <1>9 DEF CreateRosterEntry
  <2> DEFINE j == [pc |-> "create_entry", p |-> p, u |-> u]
  <2>3. p > MaxPrograms
    BY RosterAssumption
  <2>4. Harmless(j)
    BY <2>3 DEF Harmless
  <2> HIDE DEF j
  <2>5. job' = [job EXCEPT ![w] = j] /\ (\A v \in Workers : ~Editing(v)) /\ PaidFor
    BY <2>1, NobodyEdits, AllPaidFor DEF j, Takes
  <2>6. PaidFor'
    BY <2>2, <2>5, RestrictedPaid
  <2> QED
    BY <2>2, <2>4, <2>5, <2>6, PlainKeepsPay
<1>10. ASSUME NEW p, SyncOne(w, p)
       PROVE  PayInv'
  BY <1>2, <1>10, PlainJobs DEF SyncOne
<1>11. ASSUME NEW ids, NEW o, Takes(w, o, Drop(ids, Idle)), UNCHANGED <<roster, env>>
       PROVE  PayInv'
  BY <1>2, <1>11, PlainJobs
<1> QED
  BY <1>1, <1>3, <1>4, <1>5, <1>6, <1>7, <1>8, <1>9, <1>10, <1>11
     DEF Request, CleanupDraftEntries, ExpireStaleDrafts, CleanupEmptyDrafts, CleanupJunkDrafts, DeleteDraftProgram

\* A step that is not one of an edit goes on with a job that is not one.
LEMMA PlainSteps ==
  ASSUME OrdersTypeOK, LegacyKept, NEW w \in Workers, Step(w), ~Editing(w)
  PROVE  /\ job[w] # Idle /\ UNCHANGED env
         /\ \E j : Goes(w, j) /\ Harmless(j)
<1> DEFINE k == job[w]
<1>0. JobOK(k)
  BY DEF OrdersTypeOK
<1>1. ~EditWrite(w) /\ ~EditRead(w) /\ ~EditPay(w)
  BY DEF Editing, EditWrite, EditRead, EditPay, At
<1>2. k # Idle /\ UNCHANGED env
  BY <1>1 DEF Step, SaveLook, SaveInsert, Fails, UpdateProgramConfirmed, FindExisting, CreateConfirmed,
       SendSlip, ReconcileRead, ReconcileNext, DropEntries, DropPrograms, BackfillLook, BackfillInsert,
       HistoryMatch, HistoryInsert, ReadUnmatched, RematchOne, SyncRead, SyncWrite, SyncNext, CreateEntry, At
<1>3. ASSUME SaveLook(w) \/ SaveInsert(w)
      PROVE  \E j : Goes(w, j) /\ Plain(j)
  <2>1. Plain([k EXCEPT !.pc = "save_insert"])
    <3>1. "pc" \in DOMAIN k
      BY <1>0, <1>3 DEF JobOK, SaveLook, SaveInsert, At
    <3> QED
      BY <3>1 DEF Plain
  <2> QED
    BY <1>3, <2>1, PlainJobs, Zenon DEF SaveLook, SaveInsert, Saved
<1>4. ASSUME UpdateProgramConfirmed(w)
      PROVE  \E j : Goes(w, j) /\ Plain(j)
  <2>1. Plain(IF k.slip.client = None THEN Idle ELSE [pc |-> "slip", slip |-> k.slip])
    BY PlainJobs DEF Plain
  <2> QED
    BY <1>4, <2>1, PlainJobs, Zenon DEF UpdateProgramConfirmed
<1>5. ASSUME FindExisting(w)
      PROVE  \E j : Goes(w, j) /\ Plain(j)
  <2>1. \/ \E x, y, z : Goes(w, [pc |-> "confirm", p |-> x, d |-> y, slip |-> z])
        \/ \E y : Goes(w, [pc |-> "create", d |-> y])
    BY <1>5, Zenon DEF FindExisting
  <2>2. /\ \A x, y, z : Plain([pc |-> "confirm", p |-> x, d |-> y, slip |-> z])
        /\ \A y : Plain([pc |-> "create", d |-> y])
    BY DEF Plain
  <2> QED
    BY <2>1, <2>2, Zenon
<1>6. ASSUME CreateConfirmed(w) \/ SendSlip(w)
      PROVE  \E j : Goes(w, j) /\ Plain(j)
  BY <1>6, PlainJobs, Zenon DEF CreateConfirmed, SendSlip, Done
<1>7. ASSUME ReconcileRead(w) \/ DropPrograms(w)
      PROVE  \E j : Goes(w, j) /\ Plain(j)
  <2>1. Rest(k.then)
    BY <1>0, <1>7 DEF JobOK, ReconcileRead, DropPrograms, At
  <2> QED
    BY <1>7, <2>1, PlainJobs, Zenon DEF ReconcileRead, DropPrograms
<1>8. ASSUME ReconcileNext(w)
      PROVE  \E j : Goes(w, j) /\ Plain(j)
  BY <1>8, PlainJobs, Zenon DEF ReconcileNext
<1>9. ASSUME DropEntries(w)
      PROVE  \E j : Goes(w, j) /\ Plain(j)
  <2>1. "pc" \in DOMAIN k
    BY <1>0, <1>9 DEF JobOK, DropEntries, At
  <2>2. Plain([k EXCEPT !.pc = "drop_programs"])
    BY <2>1 DEF Plain
  <2> QED
    BY <1>9, <2>2, Zenon DEF DropEntries
<1>10. ASSUME BackfillLook(w) \/ BackfillInsert(w)
       PROVE  \E j : Goes(w, j) /\ Plain(j)
  <2>1. "pc" \in DOMAIN k
    BY <1>0, <1>10 DEF JobOK, BackfillLook, BackfillInsert, At
  <2>2. Plain([k EXCEPT !.pc = "backfill_insert"])
    BY <2>1 DEF Plain
  <2> QED
    BY <1>10, <2>2, PlainJobs, Zenon DEF BackfillLook, BackfillInsert
<1>11. ASSUME HistoryMatch(w)
       PROVE  \E j : Goes(w, j) /\ Plain(j)
  <2>1. \A x, y : Plain([pc |-> "history_insert", m |-> x, recs |-> y])
    BY DEF Plain
  <2> QED
    BY <1>11, <2>1, Zenon DEF HistoryMatch
<1>12. ASSUME HistoryInsert(w) \/ ReadUnmatched(w) \/ RematchOne(w)
       PROVE  \E j : Goes(w, j) /\ Plain(j)
  BY <1>12, PlainJobs, Zenon DEF HistoryInsert, ReadUnmatched, RematchOne
<1>13. ASSUME SyncWrite(w) \/ SyncNext(w)
       PROVE  \E j : Goes(w, j) /\ Plain(j)
  <2>1. Plain(k.then)
    BY <1>0, <1>13, PlainJobs DEF JobOK, SyncWrite, SyncNext, At
  <2> QED
    BY <1>13, <2>1, PlainJobs, Zenon DEF SyncWrite, SyncNext
<1>16. ASSUME SyncRead(w)
       PROVE  \E j : Goes(w, j) /\ Harmless(j)
  <2>1. Harmless(k.then)
    BY <1>0, <1>16, PlainJobs, PlainIsHarmless DEF JobOK, SyncRead, At
  <2> DEFINE old == IF k.p \in DOMAIN roster THEN roster[k.p].version ELSE 0
             e == EntryOf(programs[k.p])
             j == [pc |-> "sync_write", p |-> k.p, e |-> e, old |-> old, then |-> k.then]
  <2>2. IF k.p \in DOMAIN programs THEN Goes(w, j) ELSE Goes(w, k.then)
    BY <1>16 DEF SyncRead
  <2>3. ASSUME k.p \in DOMAIN programs
        PROVE  Unpaid(e, UndatedTotal(k.p))
    <3>1. programs[k.p] \in Program /\ programs[k.p].legacy = Legacy(k.p)
      BY <2>3 DEF OrdersTypeOK, LegacyKept
    <3> QED
      BY <3>1, EntryOfFits DEF Unpaid, UndatedTotal
  <2>4. j.pc = "sync_write" /\ j.e = e /\ j.p = k.p
    OBVIOUS
  <2> HIDE DEF j, e
  <2>5. k.p \in DOMAIN programs => Harmless(j)
    BY <2>3, <2>4 DEF Harmless
  <2> QED
    BY <2>1, <2>2, <2>5
<1>17. ASSUME Fails(w)
       PROVE  \E j : Goes(w, j) /\ Plain(j)
  <2>1. \/ k.pc \in {"save", "save_insert"} /\ Saved(w)
        \/ k.pc \in {"reconcile", "drop_entries", "drop_programs"} /\ Goes(w, k.then)
        \/ k.pc \in {"sync_read", "sync_write"} /\ Goes(w, k.then)
        \/ Goes(w, Idle)
    BY <1>17 DEF Fails, At, Done
  <2>2. k.pc \in {"reconcile", "drop_entries", "drop_programs"} => Plain(k.then)
    BY <1>0, PlainJobs DEF JobOK
  <2>3. k.pc \in {"sync_read", "sync_write"} => Plain(k.then)
    BY <1>0, PlainJobs DEF JobOK
  <2> QED
    BY <2>1, <2>2, <2>3, PlainJobs, Zenon DEF Saved
<1>14. ASSUME CreateEntry(w)
       PROVE  \E j : Goes(w, j) /\ Plain(j)
  BY <1>14, PlainJobs, Zenon DEF CreateEntry, Done
<1>15. \/ SaveLook(w) \/ SaveInsert(w) \/ Fails(w) \/ UpdateProgramConfirmed(w) \/ FindExisting(w)
       \/ CreateConfirmed(w) \/ SendSlip(w) \/ ReconcileRead(w) \/ ReconcileNext(w) \/ DropEntries(w)
       \/ DropPrograms(w) \/ BackfillLook(w) \/ BackfillInsert(w) \/ HistoryMatch(w) \/ HistoryInsert(w)
       \/ ReadUnmatched(w) \/ RematchOne(w) \/ SyncRead(w) \/ SyncWrite(w) \/ SyncNext(w) \/ CreateEntry(w)
  BY <1>1 DEF Step
<1>18. (\E j : Goes(w, j) /\ Plain(j)) => \E j : Goes(w, j) /\ Harmless(j)
  BY PlainIsHarmless, Zenon
<1> QED
  BY <1>2, <1>3, <1>4, <1>5, <1>6, <1>7, <1>8, <1>9, <1>10, <1>11, <1>12, <1>13, <1>14, <1>15, <1>16, <1>17, <1>18,
     Zenon

\* A step that is not one of an edit writes entries that fit.
LEMMA PlainStepRows ==
  ASSUME OrdersTypeOK, PaidFor, NEW w \in Workers, Step(w), ~Editing(w), Harmless(job[w]), UNCHANGED env
  PROVE  PaidFor'
<1> DEFINE k == job[w]
<1>0. \A q : UndatedTotal(q)' = UndatedTotal(q)
  BY DueStays
<1>1. ~EditWrite(w) /\ ~EditRead(w) /\ ~EditPay(w)
  BY DEF Editing, EditWrite, EditRead, EditPay, At
<1>2. ASSUME SyncWrite(w)
      PROVE  PaidFor'
  <2> DEFINE e == k.e
             x == [e EXCEPT !.version = k.old + 1]
  <2>1. e \in Entry /\ Fits(e) /\ Unpaid(e, UndatedTotal(k.p))
    BY <1>2 DEF OrdersTypeOK, JobOK, SyncWrite, At, Harmless
  <2>2. Fits(x) /\ Unpaid(x, UndatedTotal(k.p))
    BY <2>1 DEF Fits, Unpaid, RefShifts, Entry, Dated
  <2>3. roster' = IF k.old > 0 /\ k.p \in DOMAIN roster THEN [roster EXCEPT ![k.p] = x]
                  ELSE IF k.old = 0 /\ k.p \notin DOMAIN roster
                  THEN [q \in DOMAIN roster \cup {k.p} |-> IF q = k.p THEN e ELSE roster[q]]
                  ELSE roster
    BY <1>2 DEF SyncWrite
  <2> HIDE DEF e, x
  <2> QED
    BY <1>0, <2>1, <2>2, <2>3 DEF PaidFor
<1>3. ASSUME CreateEntry(w)
      PROVE  PaidFor'
  <2> DEFINE x == HandMade(k.u)
  <2>1. k.u \in Edit /\ k.p > MaxPrograms
    BY <1>3 DEF OrdersTypeOK, JobOK, CreateEntry, At, Harmless
  <2>2. DOMAIN env.programs \subseteq 1..MaxPrograms
    BY WorldTypes DEF OrdersTypeOK
  <2>3. k.p \notin DOMAIN env.programs
    BY <2>1, <2>2, RosterAssumption
  <2>4. UndatedTotal(k.p) = -1
    BY <2>3 DEF UndatedTotal, Legacy
  <2>5. Fits(x) /\ Unpaid(x, UndatedTotal(k.p))
    BY <2>1, <2>4, HandMadeFits DEF Unpaid
  <2>6. roster' = IF k.p \in DOMAIN roster THEN roster
                  ELSE [q \in DOMAIN roster \cup {k.p} |-> IF q = k.p THEN x ELSE roster[q]]
    BY <1>3 DEF CreateEntry
  <2> HIDE DEF x
  <2> QED
    BY <1>0, <2>5, <2>6 DEF PaidFor
<1>4. CASE DropEntries(w)
  BY <1>4, RestrictedPaid DEF DropEntries
<1>5. SyncWrite(w) \/ CreateEntry(w) \/ DropEntries(w) \/ UNCHANGED roster
  BY <1>1 DEF Step, SaveLook, SaveInsert, Fails, UpdateProgramConfirmed, FindExisting, CreateConfirmed,
       SendSlip, ReconcileRead, ReconcileNext, DropPrograms, BackfillLook, BackfillInsert,
       HistoryMatch, HistoryInsert, ReadUnmatched, RematchOne, SyncRead, SyncNext
<1> QED
  BY <1>2, <1>3, <1>4, <1>5, RestrictedPaid

\* The three steps of an edit.
LEMMA EditPaySteps ==
  ASSUME OrdersTypeOK, PayInv, EditsRecompute, NEW w \in Workers, EditWrite(w) \/ EditRead(w) \/ EditPay(w)
  PROVE  PayInv'
<1> DEFINE k == job[w]
           p == k.p
<1>0. /\ "edit" \in env.ops /\ kind[w] = "edit" /\ \A v \in Workers : v # w => job[v] = Idle
      /\ UNCHANGED env
  BY DEF EditWrite, EditRead, EditPay, At, PayInv, Editing
<1>00. JobOK(k) /\ DOMAIN job = Workers /\ DOMAIN kind = Workers
  BY DEF OrdersTypeOK
<1>01. \A q : UndatedTotal(q)' = UndatedTotal(q)
  BY <1>0, DueStays
<1>000. \A v \in Workers : v # w => ~Editing(v) /\ \A q : ~Recomputes(v, q)
  BY <1>0 DEF Editing, Recomputes, Idle
<1>1. ASSUME NEW j, Goes(w, j)
      PROVE  /\ job'[w] = j /\ (j # Idle => kind'[w] = "edit")
             /\ \A v \in Workers : v # w => job'[v] = Idle /\ job'[v].pc = "idle"
  BY <1>0, <1>00, <1>1 DEF Goes, Idle
<1>2. ASSUME Goes(w, Idle), PaidFor'
      PROVE  PayInv'
  <2>1. \A v \in Workers : job'[v].pc = "idle"
    BY <1>1, <1>2 DEF Idle
  <2> QED
    BY <1>2, <2>1 DEF PayInv, PaidFor, Editing, Harmless
<1>3. ASSUME EditWrite(w)
      PROVE  PayInv'
  <2> DEFINE u == k.u
             j == [k EXCEPT !.pc = "edit_read"]
  <2>1. k.pc = "edit_write" /\ DOMAIN k = {"pc", "p", "u"} /\ u \in Edit /\ u \in env.edits
    BY <1>3, <1>00 DEF EditWrite, At, JobOK, PayInv
  <2>2. u.start > 0 \/ u.end > 0 \/ u.ss # "" \/ u.es # ""
    BY <1>0, <2>1 DEF EditsRecompute
  <2>3. Goes(w, j) /\ roster' = IF p \notin DOMAIN roster THEN roster ELSE [roster EXCEPT ![p] = Patched(@, u)]
    BY <1>3, <2>2 DEF EditWrite
  <2>4. j.pc = "edit_read" /\ j.p = p /\ j # Idle
    BY <2>1 DEF Idle
  <2>5. \A q \in DOMAIN roster : Unpaid(roster[q], UndatedTotal(q)) /\ (q # p => Fits(roster[q]))
    BY <1>000, <2>1 DEF PayInv, Recomputes
  <2>6. ASSUME p \in DOMAIN roster
        PROVE  Unpaid(Patched(roster[p], u), UndatedTotal(p))
    <3> DEFINE x == roster[p]
    <3>1. x \in Entry /\ Unpaid(x, UndatedTotal(p))
      BY <2>5, <2>6 DEF OrdersTypeOK
    <3>2. u.end \in 0..LastDay /\ u.start \in 0..LastDay /\ LastDay \in Nat
      BY <2>1, EditType, RosterAssumption
    <3> HIDE DEF u, x
    <3>3. /\ Patched(x, u).total = x.total /\ Patched(x, u).end = IF u.end > 0 THEN u.end ELSE x.end
          /\ Patched(x, u).start = IF u.start > 0 THEN u.start ELSE x.start
      BY <3>1 DEF Patched, Entry
    <3>4. (u.end > 0 => u.end # 0) /\ (u.start > 0 => u.start # 0)
      BY <3>2
    <3>5. Unpaid(Patched(x, u), UndatedTotal(p))
      BY <3>1, <3>3, <3>4 DEF Unpaid, Dated
    <3> QED
      BY <3>5 DEF x
  <2> HIDE DEF j, u
  <2>7. \A q \in DOMAIN roster' : Unpaid(roster'[q], UndatedTotal(q)') /\ (q # p => Fits(roster'[q]))
    BY <1>01, <2>3, <2>5, <2>6
  <2>8. job'[w] = j /\ kind'[w] = "edit" /\ \A v \in Workers : v # w => job'[v] = Idle /\ job'[v].pc = "idle"
    BY <1>1, <2>3, <2>4
  <2> QED
    BY <1>0, <2>4, <2>7, <2>8 DEF PayInv, Editing, Recomputes, Harmless
<1>4. ASSUME EditRead(w)
      PROVE  PayInv'
  <2> DEFINE u == k.u
             conv == IF u.conv >= 0 THEN u.conv ELSE 0
             e == Paid(roster[p], conv)
             j == [pc |-> "edit_pay", p |-> p, e |-> e]
  <2>1. k.pc = "edit_read" /\ u \in Edit
    BY <1>4, <1>00 DEF EditRead, At, JobOK
  <2>2. conv \in Nat
    BY <2>1, EditType
  <2>3. UNCHANGED roster /\ IF p \in DOMAIN roster /\ Dated(roster[p]) THEN Goes(w, j) ELSE Goes(w, Idle)
    BY <1>4 DEF EditRead, Done, Dated
  <2>4. \A q \in DOMAIN roster : Unpaid(roster[q], UndatedTotal(q)) /\ (q # p => Fits(roster[q]))
    BY <1>000, <2>1 DEF PayInv, Recomputes
  <2> HIDE DEF conv, u
  <2>5. CASE p \in DOMAIN roster /\ Dated(roster[p])
    <3>1. roster[p] \in Entry
      BY <2>5 DEF OrdersTypeOK
    <3>2. Fits(e) /\ SameDates(e, roster[p]) /\ Dated(e)
      BY <2>2, <2>5, <3>1, PaidFits DEF SameDates, Dated
    <3> HIDE DEF e
    <3>3. j.pc = "edit_pay" /\ j.p = p /\ j.e = e /\ j # Idle /\ Goes(w, j)
      BY <2>3, <2>5 DEF Idle
    <3> HIDE DEF j
    <3>4. job'[w] = j /\ kind'[w] = "edit" /\ \A v \in Workers : v # w => job'[v] = Idle /\ job'[v].pc = "idle"
      BY <1>1, <3>3
    <3> QED
      BY <1>0, <1>01, <2>3, <2>4, <3>2, <3>3, <3>4 DEF PayInv, Editing, Recomputes, Harmless
  <2>6. CASE ~(p \in DOMAIN roster /\ Dated(roster[p]))
    <3>1. Goes(w, Idle)
      BY <2>3, <2>6
    <3>2. PaidFor'
      BY <1>01, <2>3, <2>4, <2>6 DEF PaidFor, Fits
    <3> QED
      BY <1>2, <3>1, <3>2
  <2> QED
    BY <2>5, <2>6
<1>5. ASSUME EditPay(w)
      PROVE  PayInv'
  <2> DEFINE e == k.e
  <2>1. k.pc = "edit_pay" /\ e \in Entry
    BY <1>5, <1>00 DEF EditPay, At, JobOK
  <2>2. Goes(w, Idle) /\ roster' = IF p \notin DOMAIN roster THEN roster
          ELSE [roster EXCEPT ![p] = [@ EXCEPT !.shifts = e.shifts, !.conv = e.conv, !.total = e.total]]
    BY <1>5 DEF EditPay, Done
  <2>3. \A q \in DOMAIN roster : Unpaid(roster[q], UndatedTotal(q)) /\ (q # p => Fits(roster[q]))
    BY <1>000, <2>1 DEF PayInv, Recomputes
  <2>4. p \in DOMAIN roster => Fits(e) /\ Dated(e) /\ SameDates(e, roster[p]) /\ roster[p] \in Entry
    BY <2>1 DEF PayInv, OrdersTypeOK
  <2> HIDE DEF e
  <2>5. ASSUME p \in DOMAIN roster
        PROVE  Fits(roster'[p]) /\ Dated(roster'[p])
    <3> DEFINE x == roster[p]
               y == [x EXCEPT !.shifts = e.shifts, !.conv = e.conv, !.total = e.total]
    <3>1. x \in Entry /\ Fits(e) /\ Dated(e) /\ SameDates(e, x)
      BY <2>4, <2>5
    <3>2. roster'[p] = y
      BY <2>2, <2>5
    <3> HIDE DEF x
    <3>3. y.end = x.end /\ y.start = x.start /\ y.ss = x.ss /\ y.es = x.es /\ y.conv = e.conv /\ y.total = e.total
      BY <3>1 DEF Entry
    <3> HIDE DEF y
    <3>4. Fits(y) /\ Dated(y)
      BY <3>1, <3>3 DEF Fits, Dated, SameDates, RefShifts
    <3> QED
      BY <3>2, <3>4
  <2>6. PaidFor'
    <3>1. DOMAIN roster' = DOMAIN roster /\ \A q \in DOMAIN roster : q # p => roster'[q] = roster[q]
      BY <2>2
    <3> QED
      BY <1>01, <2>3, <2>5, <3>1 DEF PaidFor, Unpaid
  <2> QED
    BY <1>2, <2>2, <2>6
<1> QED
  BY <1>3, <1>4, <1>5

LEMMA StepPay ==
  ASSUME OrdersTypeOK, LegacyKept, PayInv, EditsRecompute, NEW w \in Workers, Step(w)
  PROVE  PayInv'
<1>1. CASE Editing(w)
  <2>0. ~env.failures
    BY <1>1 DEF PayInv, EditsRecompute
  <2>1. ~SaveLook(w) /\ ~SaveInsert(w) /\ ~Fails(w) /\ ~UpdateProgramConfirmed(w) /\ ~FindExisting(w)
        /\ ~CreateConfirmed(w) /\ ~SendSlip(w) /\ ~ReconcileRead(w) /\ ~ReconcileNext(w) /\ ~DropEntries(w)
        /\ ~DropPrograms(w) /\ ~BackfillLook(w) /\ ~BackfillInsert(w) /\ ~HistoryMatch(w) /\ ~HistoryInsert(w)
        /\ ~ReadUnmatched(w) /\ ~RematchOne(w) /\ ~SyncRead(w) /\ ~SyncWrite(w) /\ ~SyncNext(w) /\ ~CreateEntry(w)
    BY <1>1, <2>0 DEF Editing, At, SaveLook, SaveInsert, Fails, UpdateProgramConfirmed, FindExisting, CreateConfirmed,
         SendSlip, ReconcileRead, ReconcileNext, DropEntries, DropPrograms, BackfillLook, BackfillInsert,
         HistoryMatch, HistoryInsert, ReadUnmatched, RematchOne, SyncRead, SyncWrite, SyncNext, CreateEntry
  <2> QED
    BY <2>1, EditPaySteps DEF Step
<1>2. CASE ~Editing(w)
  <2>1. PICK j : Goes(w, j) /\ Harmless(j)
    BY <1>2, PlainSteps
  <2>2. job[w] # Idle /\ UNCHANGED env
    BY <1>2, PlainSteps
  <2>3. (\A v \in Workers : ~Editing(v)) /\ PaidFor
    BY <1>2, <2>2, BusyAlone, AllPaidFor
  <2>6. Harmless(job[w])
    BY <1>2 DEF PayInv
  <2>4. PaidFor'
    BY <1>2, <2>2, <2>3, <2>6, PlainStepRows
  <2>5. job' = [job EXCEPT ![w] = j]
    BY <2>1 DEF Goes
  <2> QED
    BY <2>1, <2>2, <2>3, <2>4, <2>5, PlainKeepsPay
<1> QED
  BY <1>1, <1>2

LEMMA PayKept ==
  ASSUME PayInv, UNCHANGED <<roster, job, kind, env>>
  PROVE  PayInv'
<1>1. \A q : UndatedTotal(q)' = UndatedTotal(q)
  BY DueStays
<1> QED
  BY <1>1 DEF PayInv, Editing, Recomputes, Harmless

LEMMA EnvStays ==
  ASSUME [Next]_vars
  PROVE  UNCHANGED env
<1>1. ASSUME NEW w \in Workers, Request(w)
      PROVE  UNCHANGED env
  BY <1>1 DEF Request, HandleEscortClientMessage, HandleAdminEscortCompletion, ApiReconcileDrafts,
       SyncFromBridgeSqlite, SyncConversationHistory, RebuildRosterFromHistory, SyncAllPrograms,
       CreateRosterEntry, CleanupDraftEntries, ExpireStaleDrafts, DeleteDraftEntries, CleanupEmptyDrafts,
       CleanupJunkDrafts, SyncOne, DeleteDraftProgram, UpdateRosterEntry
<1>2. ASSUME NEW w \in Workers, Step(w)
      PROVE  UNCHANGED env
  BY <1>2 DEF Step, SaveLook, SaveInsert, Fails, UpdateProgramConfirmed, FindExisting, CreateConfirmed,
       SendSlip, ReconcileRead, ReconcileNext, DropEntries, DropPrograms, BackfillLook, BackfillInsert,
       HistoryMatch, HistoryInsert, ReadUnmatched, RematchOne, SyncRead, SyncWrite, SyncNext, EditWrite, EditRead,
       EditPay, CreateEntry
<1>3. ASSUME NEW p, EscortConfirm(p) \/ Assign(p) \/ Cancel(p) \/ CloseProgram(p)
      PROVE  UNCHANGED env
  BY <1>3 DEF EscortConfirm, Assign, Cancel, CloseProgram, SetStatus, Rewrite
<1>4. ASSUME UNCHANGED vars
      PROVE  UNCHANGED env
  BY <1>4 DEF vars
<1> QED
  BY <1>1, <1>2, <1>3, <1>4, Zenon DEF Next

LEMMA PayStep ==
  ASSUME OrdersTypeOK, LegacyKept, PayInv, EditsRecompute, [Next]_vars
  PROVE  PayInv'
<1>1. ASSUME NEW p, EscortConfirm(p) \/ Assign(p) \/ Cancel(p) \/ CloseProgram(p)
      PROVE  PayInv'
  <2>1. UNCHANGED <<roster, job, kind, env>>
    BY <1>1 DEF EscortConfirm, Assign, Cancel, CloseProgram, SetStatus, Rewrite
  <2> QED
    BY <2>1, PayKept
<1>2. ASSUME UNCHANGED vars
      PROVE  PayInv'
  BY <1>2, PayKept DEF vars
<1>3. (\E w \in Workers : Request(w) \/ Step(w))
      \/ (\E p : EscortConfirm(p) \/ Assign(p) \/ Cancel(p) \/ CloseProgram(p)) \/ UNCHANGED vars
  BY Zenon DEF Next
<1> QED
  BY <1>1, <1>2, <1>3, RequestPay, StepPay

\* A step inserts programs without a legacy payment, under new ids, and keeps that of others.
LEMMA LegacyStep ==
  ASSUME OrdersTypeOK, LegacyKept, [Next]_vars
  PROVE  LegacyKept'
<1>0. UNCHANGED env
  BY EnvStays
<1>00. \A p : Legacy(p)' = Legacy(p)
  BY <1>0 DEF Legacy
<1>1. ASSUME UNCHANGED lastId, DOMAIN programs' \subseteq DOMAIN programs,
             \A p \in DOMAIN programs' : programs'[p].legacy = programs[p].legacy
      PROVE  LegacyKept'
  BY <1>0, <1>00, <1>1 DEF LegacyKept
<1>2. ASSUME NEW r, Insert(r), r.legacy = 0
      PROVE  LegacyKept'
  <2>1. lastId + 1 \in Nat /\ lastId' = lastId + 1 /\ \A p \in DOMAIN env.programs : p <= lastId
    BY <1>2 DEF Insert, LegacyKept
  <2>2. DOMAIN env.programs \subseteq 1..MaxPrograms
    BY WorldTypes DEF OrdersTypeOK
  <2>3. lastId + 1 \notin DOMAIN env.programs /\ \A p \in DOMAIN env.programs : p <= lastId + 1
    BY <2>1, <2>2 DEF LegacyKept
  <2>4. Legacy(lastId + 1) = 0
    BY <2>3 DEF Legacy
  <2>5. programs' = [q \in DOMAIN programs \cup {lastId + 1} |-> IF q = lastId + 1 THEN r ELSE programs[q]]
    BY <1>2 DEF Insert
  <2>6. \A p \in DOMAIN programs' : programs'[p].legacy = Legacy(p)
    BY <1>2, <2>4, <2>5 DEF LegacyKept
  <2> QED
    BY <1>0, <1>00, <2>1, <2>3, <2>6 DEF LegacyKept
<1>3. ASSUME NEW w \in Workers, SaveInsert(w)
      PROVE  LegacyKept'
  <2> DEFINE l == Head(job[w].o.lighters)
             r == [Row(job[w].o.mv, l.lv, "draft") EXCEPT !.master = l.master, !.client = job[w].c]
  <2>1. Insert(r)
    BY <1>3 DEF SaveInsert
  <2>2. r.legacy = 0
    BY DEF Row
  <2> HIDE DEF r
  <2> QED
    BY <1>2, <2>1, <2>2
<1>4. ASSUME NEW w \in Workers, CreateConfirmed(w)
      PROVE  LegacyKept'
  <2> DEFINE d == job[w].d
             r == [Confirmed(Row(d.mv, d.lv, "confirmed"), d) EXCEPT !.master = d.master,
                     !.shift = IF d.shift = "" THEN "D" ELSE d.shift]
  <2>1. Insert(r)
    BY <1>4 DEF CreateConfirmed
  <2>2. r.legacy = 0
    BY DEF Row, Confirmed
  <2> HIDE DEF r
  <2> QED
    BY <1>2, <2>1, <2>2
<1>5. ASSUME NEW w \in Workers, BackfillInsert(w)
      PROVE  LegacyKept'
  <2> DEFINE m == Head(job[w].recs)
             r == [Row(m.mv, m.lv, "confirmed") EXCEPT !.master = m.master, !.escort = m.escort, !.mobile = m.mobile,
                     !.shift = m.shift, !.date = DateOf(m), !.hist = TRUE]
  <2>1. Insert(r)
    BY <1>5 DEF BackfillInsert
  <2>2. r.legacy = 0
    BY DEF Row
  <2> HIDE DEF r
  <2> QED
    BY <1>2, <2>1, <2>2
<1>6. ASSUME NEW w \in Workers, UpdateProgramConfirmed(w)
      PROVE  LegacyKept'
  <2>1. \A r \in Program : \A d : Confirmed(r, d).legacy = r.legacy
    BY DEF Confirmed, Program
  <2> DEFINE p == job[w].p
             d == job[w].d
  <2>2. /\ UNCHANGED lastId
        /\ \/ programs' = IF p \in DOMAIN programs THEN [programs EXCEPT ![p] = Confirmed(@, d)] ELSE programs
           \/ programs' = programs
    BY <1>6 DEF UpdateProgramConfirmed
  <2> HIDE DEF p, d
  <2>3. p \in DOMAIN programs => Confirmed(programs[p], d).legacy = programs[p].legacy
    BY <2>1 DEF OrdersTypeOK
  <2>4. DOMAIN programs' = DOMAIN programs /\ \A q \in DOMAIN programs' : programs'[q].legacy = programs[q].legacy
    BY <2>2, <2>3
  <2>5. UNCHANGED lastId /\ DOMAIN programs' \subseteq DOMAIN programs
    BY <2>2, <2>4
  <2> QED
    BY <1>1, <2>4, <2>5
<1>7. ASSUME NEW w \in Workers, DropPrograms(w)
      PROVE  LegacyKept'
  <2>1. UNCHANGED lastId /\ DOMAIN programs' \subseteq DOMAIN programs
        /\ \A p \in DOMAIN programs' : programs'[p] = programs[p]
    BY <1>7 DEF DropPrograms, Restrict
  <2> QED
    BY <1>1, <2>1
<1>8. ASSUME NEW p \in DOMAIN programs, EscortConfirm(p) \/ Assign(p) \/ Cancel(p) \/ CloseProgram(p)
      PROVE  LegacyKept'
  <2>1. PICK r : Rewrite(p, r) /\ r.legacy = programs[p].legacy
    BY <1>8, OtherWriters
  <2> QED
    BY <1>1, <2>1 DEF Rewrite
<1>9. CASE UNCHANGED <<programs, lastId>>
  BY <1>1, <1>9
<1>10. ASSUME NEW w \in Workers, Request(w)
       PROVE  UNCHANGED <<programs, lastId>>
  BY <1>10 DEF Request, HandleEscortClientMessage, HandleAdminEscortCompletion, ApiReconcileDrafts,
       SyncFromBridgeSqlite, SyncConversationHistory, RebuildRosterFromHistory, SyncAllPrograms,
       CreateRosterEntry, CleanupDraftEntries, ExpireStaleDrafts, DeleteDraftEntries, CleanupEmptyDrafts,
       CleanupJunkDrafts, SyncOne, DeleteDraftProgram, UpdateRosterEntry
<1>11. ASSUME NEW w \in Workers, Step(w)
       PROVE  \/ SaveInsert(w) \/ CreateConfirmed(w) \/ BackfillInsert(w) \/ UpdateProgramConfirmed(w)
              \/ DropPrograms(w) \/ UNCHANGED <<programs, lastId>>
  BY <1>11 DEF Step, SaveLook, Fails, FindExisting, SendSlip, ReconcileRead, ReconcileNext, DropEntries,
       BackfillLook, HistoryMatch, HistoryInsert, ReadUnmatched, RematchOne, SyncRead, SyncWrite, SyncNext,
       EditWrite, EditRead, EditPay, CreateEntry
<1>12. UNCHANGED vars => UNCHANGED <<programs, lastId>>
  BY DEF vars
<1> QED
  BY <1>3, <1>4, <1>5, <1>6, <1>7, <1>8, <1>9, <1>10, <1>11, <1>12 DEF Next

LEMMA PayInit ==
  ASSUME Init
  PROVE  LegacyKept /\ PayInv
<1>1. /\ \A p \in DOMAIN env.programs : env.programs[p] \in Program
      /\ env.listed \subseteq DOMAIN env.programs /\ DOMAIN env.programs \subseteq 1..MaxPrograms
  BY WorldTypes DEF Init
<1>2. LegacyKept
  BY <1>1, RosterAssumption DEF Init, LegacyKept, Legacy
<1>3. PaidFor
  <2>1. ASSUME NEW p \in DOMAIN roster
        PROVE  Fits(roster[p]) /\ Unpaid(roster[p], UndatedTotal(p))
    <3>1. p \in DOMAIN programs /\ programs[p] \in Program /\ roster[p] = EntryOf(programs[p])
      BY <1>1, <2>1 DEF Init
    <3>2. programs[p].legacy = Legacy(p)
      BY <1>2, <3>1 DEF LegacyKept
    <3> QED
      BY <3>1, <3>2, EntryOfFits DEF Unpaid, UndatedTotal
  <2> QED
    BY <2>1 DEF PaidFor
<1>4. \A w \in Workers : job[w].pc = "idle"
  BY DEF Init, Idle
<1> QED
  BY <1>2, <1>3, <1>4 DEF PayInv, PaidFor, Editing, Harmless

\* Where edits run alone, do not fail and give a date or a shift, the pay of every entry is
\* that of its dates and shifts, and without two dates the legacy payment of its program,
\* for any vessels, texts, workers and worlds.
THEOREM PayIsThatOfTheDates == Spec => []PayFollowsDates
<1>1. Init => OrdersInv
  BY OrdersTypeInit, PayInit DEF OrdersInv
<1>2. OrdersInv /\ [Next]_vars => OrdersInv'
  <2>1. ASSUME OrdersInv, [Next]_vars
        PROVE  OrdersInv'
    <3>1. EditsRecompute' => EditsRecompute
      BY <2>1, EnvStays DEF EditsRecompute
    <3> QED
      BY <2>1, <3>1, OrdersTypeStep, LegacyStep, PayStep DEF OrdersInv
  <2> QED
    BY <2>1
<1>3. OrdersInv => PayFollowsDates
  <2>1. ASSUME PayInv, AtRest, NEW p \in DOMAIN roster
        PROVE  Fits(roster[p])
    BY <2>1 DEF PayInv, AtRest, Recomputes, Idle
  <2>2. ASSUME PayInv, NEW p \in DOMAIN roster
        PROVE  Unpaid(roster[p], UndatedTotal(p))
    BY <2>2 DEF PayInv
  <2> QED
    BY <2>1, <2>2 DEF OrdersInv, PayFollowsDates, Fits, Unpaid, Dated
<1> QED
  BY <1>1, <1>2, <1>3, PTL DEF Spec
=============================================================================
