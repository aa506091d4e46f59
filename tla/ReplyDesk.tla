----------------------------- MODULE ReplyDesk -----------------------------
(***************************************************************************)
(* The rows of fazle_draft_replies and the commands on them: APPROVE,      *)
(* REJECT and EDIT (modules/admin_commands), the attendance an approval    *)
(* writes (modules/attendance, modules/attendance_parser) and the replies  *)
(* an edit leaves for later (modules/reviewed_reply_memory).               *)
(*                                                                         *)
(* The table has no row lock and no statement that tests the status it     *)
(* overwrites.                                                             *)
(***************************************************************************)
EXTENDS DeskTasks

CONSTANTS
  People,   \* who writes to the office
  MaxRows   \* bound: rows of the table

VARIABLES
  rows,        \* fazle_draft_replies, by id
  staff,       \* records of wbom_employees, by person
  attendance,  \* wbom_attendance of the day: the draft that its remarks name, 0 without a row
  unsaved,     \* drafts whose save_attendance or auto-create failed
  memory,      \* fazle_reviewed_replies: active replies, by recipient
  delivered,   \* history: deliveries to the recipient, by row
  unheard,     \* history: rows delivered since their last edit while the table kept no word of it
  edits        \* history: edits, by row

deskVars == <<rows, staff, attendance, unsaved, memory, delivered, unheard, edits>>

Steps == {"pending_selfie", "pending_slip", "pending_payment_method"}

\* asks: what a session was opened for.  named: the meta of an attendance draft
\* leads to an employee; known: it has the employee's id.
Row(kind, who, status) ==
  [kind |-> kind, who |-> who, status |-> status, text |-> 0, asks |-> "none",
   named |-> FALSE, known |-> FALSE]

DeskInit ==
  /\ rows = << >> /\ memory = [w \in People |-> << >>]
  /\ staff \in [People -> {0, 1}] /\ \A w \in People : staff[w] = 1 <=> w \in env.staff
  /\ attendance = [w \in People |-> 0] /\ unsaved = {}
  /\ delivered = [d \in 1..MaxRows |-> 0] /\ unheard = {} /\ edits = [d \in 1..MaxRows |-> 0]

Exists(d) == d \in DOMAIN rows
SetStatus(d, s) == rows' = [rows EXCEPT ![d].status = s]
Deliver(d) == delivered' = [delivered EXCEPT ![d] = @ + 1]
NewRow(r) == /\ Len(rows) < MaxRows /\ rows' = Append(rows, r)

-----------------------------------------------------------------------------
(* Where the rows come from *)

\* _save_draft: a reply that is not sent is kept; one that the quality gate
\* refuses too, with a status that APPROVE refuses.
KeepDraft(w) ==
  /\ "reply" \in env.incoming
  /\ \E status \in {"pending"} \cup (IF env.failures THEN {"rejected_quality"} ELSE {}) :
       NewRow(Row("reply", w, status))
  /\ UNCHANGED <<staff, attendance, unsaved, memory, delivered, unheard, edits>>

\* A complaint of an employee, about pay or with the law.
Complaint(w) ==
  /\ "complaint" \in env.incoming /\ staff[w] > 0
  /\ NewRow(Row("complaint", w, "pending"))
  /\ UNCHANGED <<staff, attendance, unsaved, memory, delivered, unheard, edits>>

\* handle_ocr_release_slip: a picture read as a release slip waits for the admin;
\* the program is not closed.
SlipDraft(w) ==
  /\ "slip" \in env.incoming /\ NewRow(Row("release_slip", w, "pending"))
  /\ UNCHANGED <<staff, attendance, unsaved, memory, delivered, unheard, edits>>

\* create_attendance_draft: the meta has the employee's id when the name or the
\* mobile is known, else the name, and neither when the text has none.  The
\* status it will save is always Present.
AttendanceDraft(w) ==
  /\ "attendance" \in env.incoming
  /\ \E named \in BOOLEAN :
       NewRow([Row("attendance", w, "pending") EXCEPT
                 !.named = named, !.known = named /\ staff[w] > 0])
  /\ UNCHANGED <<staff, attendance, unsaved, memory, delivered, unheard, edits>>

\* handle_attendance_message: only employees, and a row with neither meta nor a
\* draft_type.
HandleAttendanceMessage(w) ==
  /\ "report" \in env.incoming /\ staff[w] > 0
  /\ NewRow(Row("report", w, "pending"))
  /\ UNCHANGED <<staff, attendance, unsaved, memory, delivered, unheard, edits>>

-----------------------------------------------------------------------------
(* APPROVE *)

\* Deviation (mutation runs): the status is not looked at.
Mut_AnyStatus(d) == Exists(d)

Approvable(d) == Exists(d) /\ rows[d].status \in {"pending", "edited"}

ApproveRead(t) ==
  /\ At(t, "approve")
  /\ IF Approvable(Item(t))
     THEN Continue(t, "approve_mark", [job[t] EXCEPT !.seen = rows[Item(t)]])
     ELSE FinishItem(t, "approve")
  /\ UNCHANGED deskVars

ApproveMark(t) ==
  /\ At(t, "approve_mark")
  /\ SetStatus(Item(t), "approved")
  /\ Goto(t, IF job[t].seen.kind \in {"attendance", "report"} THEN "att_find" ELSE "send")
  /\ UNCHANGED <<staff, attendance, unsaved, memory, delivered, unheard, edits>>

\* _save_attendance_from_draft: the id of the meta, else another look for the
\* mobile or the name, else a new employee; without both nothing is saved.
AttendanceFind(t) ==
  /\ At(t, "att_find")
  /\ LET r == job[t].seen
     IN  Goto(t, IF r.known \/ (r.named /\ staff[r.who] > 0) THEN "att_save"
                 ELSE IF r.named THEN "att_create" ELSE "send")
  /\ UNCHANGED deskVars

AutoCreateEmployee(t) ==
  /\ At(t, "att_create")
  /\ \E fails \in Failure :
       /\ staff' = IF fails THEN staff ELSE [staff EXCEPT ![job[t].seen.who] = @ + 1]
       /\ unsaved' = IF fails THEN unsaved \cup {Item(t)} ELSE unsaved
       /\ Goto(t, IF fails THEN "send" ELSE "att_save")
  /\ UNCHANGED <<rows, attendance, memory, delivered, unheard, edits>>

\* save_attendance upserts and the confirmation goes to the sender, whether the
\* row was saved or not.
SaveAttendance(t) ==
  /\ At(t, "att_save")
  /\ \E fails \in Failure :
       /\ attendance' = IF fails THEN attendance ELSE [attendance EXCEPT ![job[t].seen.who] = Item(t)]
       /\ unsaved' = IF fails THEN unsaved \cup {Item(t)} ELSE unsaved
  /\ Goto(t, "send")
  /\ UNCHANGED <<rows, staff, memory, delivered, unheard, edits>>

\* bridge.send answers false, or raises, for a message that did not go out, and
\* also for one that did: the bridge's answer timed out or was not 200.  Then only
\* error_text is written and the row stays 'approved'.
Send(t) ==
  /\ At(t, "send")
  /\ \/ /\ Deliver(Item(t)) /\ UNCHANGED unheard
        /\ Goto(t, "mark_sent")
     \/ /\ env.failures /\ Deliver(Item(t)) /\ unheard' = unheard \cup {Item(t)}
        /\ FinishItem(t, "approve")
     \/ /\ env.failures /\ UNCHANGED <<delivered, unheard>>
        /\ FinishItem(t, "approve")
  /\ UNCHANGED <<rows, staff, attendance, unsaved, memory, edits>>

\* When the UPDATE fails the handler writes error_text instead.
MarkSent(t) ==
  /\ At(t, "mark_sent") /\ FinishItem(t, "approve")
  /\ \/ SetStatus(Item(t), "sent") /\ UNCHANGED unheard
     \/ env.failures /\ unheard' = unheard \cup {Item(t)} /\ UNCHANGED rows
  /\ UNCHANGED <<staff, attendance, unsaved, memory, delivered, edits>>

-----------------------------------------------------------------------------
(* REJECT and EDIT *)

RejectRead(t) ==
  /\ At(t, "reject")
  /\ IF Exists(Item(t)) /\ rows[Item(t)].status \notin {"sent", "rejected"}
     THEN Goto(t, "reject_mark") ELSE FinishItem(t, "reject")
  /\ UNCHANGED deskVars

RejectMark(t) ==
  /\ At(t, "reject_mark")
  /\ SetStatus(Item(t), "rejected") /\ FinishItem(t, "reject")
  /\ UNCHANGED <<staff, attendance, unsaved, memory, delivered, unheard, edits>>

\* EDIT takes a row of any status, also one that was sent.
EditRead(t) ==
  /\ At(t, "edit")
  /\ IF Exists(Item(t)) THEN Continue(t, "edit_mark", [job[t] EXCEPT !.seen = rows[Item(t)]])
     ELSE Finish(t)
  /\ UNCHANGED deskVars

\* Drafts of draft_type 'attendance' are not remembered; a text that looks unsafe
\* is not an edit here.
Eligible(r) == r.kind # "attendance"

EditMark(t) ==
  /\ At(t, "edit_mark")
  /\ rows' = [rows EXCEPT ![Item(t)] = [@ EXCEPT !.status = "edited", !.text = job[t].text]]
  /\ edits' = [edits EXCEPT ![Item(t)] = @ + 1] /\ unheard' = unheard \ {Item(t)}
  /\ Goto(t, "remember")
  /\ UNCHANGED <<staff, attendance, unsaved, memory, delivered>>

\* create_or_update_from_edit looks for an active reply of the same scope ...
RememberRead(t) ==
  /\ At(t, "remember")
  /\ LET w == job[t].seen.who
     IN  IF Eligible(job[t].seen)
         THEN Continue(t, "remember_write", [job[t] EXCEPT !.found = Len(memory[w])])
         ELSE Finish(t)
  /\ UNCHANGED deskVars

Remembered(m, found, text) == IF found = 0 THEN Append(m, text) ELSE [m EXCEPT ![found] = text]

\* ... and updates it, or inserts one.  A failure is swallowed.
RememberWrite(t) ==
  /\ At(t, "remember_write")
  /\ \E fails \in Failure :
       memory' = IF fails THEN memory
                 ELSE [memory EXCEPT ![job[t].seen.who] = Remembered(@, job[t].found, job[t].text)]
  /\ Finish(t)
  /\ UNCHANGED <<rows, staff, attendance, unsaved, delivered, unheard, edits>>

DeskStep(t) ==
  \/ ApproveRead(t) \/ ApproveMark(t) \/ AttendanceFind(t) \/ AutoCreateEmployee(t)
  \/ SaveAttendance(t) \/ Send(t) \/ MarkSent(t)
  \/ RejectRead(t) \/ RejectMark(t)
  \/ EditRead(t) \/ EditMark(t) \/ RememberRead(t) \/ RememberWrite(t)
=============================================================================
