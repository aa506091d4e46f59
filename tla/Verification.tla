---------------------------- MODULE Verification ----------------------------
(***************************************************************************)
(* The verification an employee goes through before a request for money    *)
(* becomes a payment draft (modules/employee_verification), with the part  *)
(* of modules/message_router that leads to it.  A session is a row of      *)
(* fazle_draft_replies whose status is its step, so the admin's EDIT and   *)
(* REJECT reach it as well; no session expires.                            *)
(***************************************************************************)
EXTENDS ReplyDesk

VARIABLES
  shown,  \* history: images an employee sent while the session was open, by row
  asked   \* history: payment drafts made from a session, by row

sessionVars == <<shown, asked>>

\* What a message is to the router: a request, a picture, a payment method.
Messages == {"advance", "slip", "slip_image", "image", "method", "other"}
IsImage(m) == m \in {"slip_image", "image"}
Asks(m) == m \in {"advance", "slip", "slip_image"}

SessionsInit == shown = [d \in 1..MaxRows |-> 0] /\ asked = [d \in 1..MaxRows |-> 0]

OpenSessions(w) ==
  {d \in DOMAIN rows : /\ rows[d].kind = "session" /\ rows[d].who = w
                       /\ rows[d].status \notin {"verified", "rejected"}}
Newest(S) == CHOOSE d \in S : \A x \in S : x <= d

\* An employee's message goes to the open session, whatever its step is called;
\* without one a request starts a verification.
RouteEmployee(t, w, m) ==
  /\ "session" \in env.incoming /\ Takes(t)
  /\ OpenSessions(w) # {} \/ Asks(m)
  /\ Begin(t, IF OpenSessions(w) # {} THEN "verify" ELSE "close_stale", [op |-> m, who |-> w])
  /\ UNCHANGED <<deskVars, sessionVars>>

\* Deviation (mutation runs): a slip announced in words counts as shown.
Mut_SlipSkipsPicture(m) == CASE m = "advance" -> "pending_selfie"
                             [] OTHER -> "pending_payment_method"

FirstStep(m) == CASE m = "advance" -> "pending_selfie"
                  [] m = "slip_image" -> "pending_payment_method"
                  [] OTHER -> "pending_slip"

\* _create_session closes what is open ...
CloseStale(t) ==
  /\ At(t, "close_stale")
  /\ rows' = [d \in DOMAIN rows |-> IF d \in OpenSessions(job[t].who)
                                    THEN [rows[d] EXCEPT !.status = "rejected"] ELSE rows[d]]
  /\ Goto(t, "create")
  /\ UNCHANGED <<staff, attendance, unsaved, memory, delivered, unheard, edits, sessionVars>>

\* ... and inserts the session.
CreateSession(t) ==
  /\ At(t, "create")
  /\ NewRow([Row("session", job[t].who, FirstStep(job[t].op)) EXCEPT !.asks = job[t].op])
  /\ shown' = IF IsImage(job[t].op) THEN [shown EXCEPT ![Len(rows) + 1] = 1] ELSE shown
  /\ Finish(t)
  /\ UNCHANGED <<staff, attendance, unsaved, memory, delivered, unheard, edits, asked>>

\* The step a message leads to: an image moves the first two steps, a method or a
\* number the last.
NextStep(step, m) ==
  CASE step = "pending_selfie" /\ IsImage(m) -> "pending_slip"
    [] step = "pending_slip" /\ IsImage(m) -> "pending_payment_method"
    [] step = "pending_payment_method" /\ m = "method" -> "verified"
    [] OTHER -> step

\* advance_verification reads the session again.  Other steps ('edited', 'sent')
\* and other messages change nothing.
VerifyRead(t) ==
  /\ At(t, "verify")
  /\ LET S == OpenSessions(job[t].who)
         d == Newest(S)
     IN  /\ IF S # {} /\ NextStep(rows[d].status, job[t].op) # rows[d].status
            THEN Continue(t, "verify_write", [row |-> d, to |-> NextStep(rows[d].status, job[t].op)])
            ELSE Finish(t)
         /\ shown' = IF S # {} /\ IsImage(job[t].op) THEN [shown EXCEPT ![d] = @ + 1] ELSE shown
  /\ UNCHANGED <<deskVars, asked>>

\* _advance_session and _close_session write by id.
VerifyWrite(t) ==
  /\ At(t, "verify_write")
  /\ SetStatus(job[t].row, job[t].to)
  /\ IF job[t].to = "verified" THEN Goto(t, "build_draft") ELSE Finish(t)
  /\ UNCHANGED <<staff, attendance, unsaved, memory, delivered, unheard, edits, sessionVars>>

\* _build_and_send_draft: a failure leaves the session closed without a draft.
BuildDraft(t) ==
  /\ At(t, "build_draft")
  /\ \E fails \in Failure :
       asked' = IF fails THEN asked ELSE [asked EXCEPT ![job[t].row] = @ + 1]
  /\ Finish(t)
  /\ UNCHANGED <<deskVars, shown>>

SessionStep(t) ==
  \/ CloseStale(t) \/ CreateSession(t) \/ VerifyRead(t) \/ VerifyWrite(t) \/ BuildDraft(t)
=============================================================================
