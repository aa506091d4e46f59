--------------------------- MODULE PaymentLedger ---------------------------
(***************************************************************************)
(* Payment drafts (fazle_payment_drafts) and the cash ledger               *)
(* (wbom_cash_transactions): creation of drafts, the admin's PAID/ADVANCE  *)
(* command with its duplicate suppression (modules/admin_commands,         *)
(* modules/payment_workflow), reversal and adjustment of payments          *)
(* (modules/payment_correction), and the two jobs that clear stale drafts  *)
(* (shared/draft, modules/scheduler).                                      *)
(*                                                                         *)
(* Every handler is split at its awaits: each statement commits by itself, *)
(* no handler holds a transaction or a row lock.  The ledger is kept in    *)
(* the order of transaction_time.                                          *)
(***************************************************************************)
EXTENDS Integers, Sequences, FiniteSets

CONSTANTS
  Drafts,       \* ids of payment drafts
  Escorts,      \* drafts made for the duty of an escort ...
  Advances,     \* ... and for an advance; the others are adjustments
  Employees,
  Amounts,
  Admins,       \* the phones PAID arrives from
  Handlers,     \* tasks that handle a request at a time
  DedupMax,     \* _DEDUP_MAX
  MaxCommands,  \* bound: commands and correction calls in a behaviour
  NoDraft

ASSUME LedgerAssumption ==
  /\ Drafts # {} /\ Employees # {} /\ Amounts # {}
  /\ Escorts \cup Advances \subseteq Drafts /\ Escorts \cap Advances = {} /\ NoDraft \notin Drafts
  /\ Amounts \subseteq Nat /\ DedupMax \in Nat \ {0} /\ MaxCommands \in Nat
  /\ IsFiniteSet(Handlers)

VARIABLES
  drafts,    \* fazle_payment_drafts
  ledger,    \* wbom_cash_transactions
  audit,     \* fazle_payment_correction_log
  recent,    \* _dedup_cache, oldest entry first
  pc, cmd,   \* a handler: its position and the command at hand
  told,      \* history: payment instructions sent to the accountant, by draft
  served,    \* commands taken so far
  env        \* what may happen: commands that overlap, statements that fail

vars == <<drafts, ledger, audit, recent, pc, cmd, told, served, env>>

DraftStatus == {"none", "pending", "sent", "approved", "expired", "reversed", "deleted"}
Draft == [status : DraftStatus, kind : {"escort", "advance"}, emp : Employees,
          expected : Amounts \cup {0}, approved : Amounts \cup {0},
          corr : {"null", "reversal", "adjustment"}, of : Drafts \cup {NoDraft}]
Row == [kind : {"escort", "advance", "reversal"}, emp : Employees, amount : Int,
        draft : Drafts, of : Nat, reversed : BOOLEAN]
Text == [admin : Admins, draft : Drafts, amount : Amounts]
PaidPCs == {"paid", "finalize", "insert", "mark_sent", "approve", "tell"}
ReversePCs == {"rev_find", "rev_mark", "rev_insert", "rev_draft", "rev_log"}
AdjustPCs == {"adj_check", "adj_insert", "adj_mark", "adj_log"}
PCs == {"idle"} \cup PaidPCs \cup ReversePCs \cup AdjustPCs
\* What a handler keeps between awaits: the draft, the amount, the ledger row it
\* found (0: none).
Command == [draft : Drafts, amount : Amounts \cup {0}, row : Nat]

Environment == [overlap : BOOLEAN, failures : BOOLEAN]

Exists(d) == drafts[d].status \notin {"none", "deleted"}
Goto(h, l) == pc' = [pc EXCEPT ![h] = l]
MayStart == env.overlap \/ \A h \in Handlers : pc[h] = "idle"
\* draft["approved_amount"] or draft["expected_amount"]: zero counts as missing.
AmountOf(d) == IF drafts[d].approved # 0 THEN drafts[d].approved ELSE drafts[d].expected
SetStatus(d, s) == IF Exists(d) THEN [drafts EXCEPT ![d].status = s] ELSE drafts

Payment(d, a) == [kind |-> drafts[d].kind, emp |-> drafts[d].emp, amount |-> a,
                  draft |-> d, of |-> 0, reversed |-> FALSE]
Counter(d, i) == [kind |-> "reversal", emp |-> drafts[d].emp, amount |-> -ledger[i].amount,
                  draft |-> d, of |-> i, reversed |-> FALSE]

\* The rows REVERSE considers: same employee and amount, not yet reversed.
Matching(d, a) == {i \in DOMAIN ledger : /\ ledger[i].kind # "reversal"
                                         /\ ledger[i].emp = drafts[d].emp
                                         /\ ledger[i].amount = a
                                         /\ ~ledger[i].reversed}

NewDraft == [status |-> "none", kind |-> "escort", emp |-> CHOOSE e \in Employees : TRUE,
             expected |-> CHOOSE a \in Amounts : TRUE, approved |-> 0,
             corr |-> "null", of |-> NoDraft]

Init ==
  /\ drafts = [d \in Drafts |-> NewDraft]
  /\ ledger = << >> /\ audit = {} /\ recent = << >>
  /\ pc = [h \in Handlers |-> "idle"]
  /\ cmd = [h \in Handlers |-> [draft |-> CHOOSE d \in Drafts : TRUE, amount |-> 0, row |-> 0]]
  /\ told = [d \in Drafts |-> 0] /\ served = 0
  /\ env \in Environment

-----------------------------------------------------------------------------
(* Drafts *)

\* A request makes a draft; nothing looks for an earlier draft of the same duty.
\* The amount of an escort draft is what the advances of sixty days leave of the
\* pay; that of an advance is what the employee asked for.  Either may be zero.
CreateEscortDraft(d) ==
  /\ d \in Escorts /\ drafts[d].status = "none"
  /\ \E e \in Employees, net \in Amounts :
       drafts' = [drafts EXCEPT ![d] =
         [NewDraft EXCEPT !.status = "pending", !.emp = e, !.expected = net]]
  /\ UNCHANGED <<ledger, audit, recent, pc, cmd, told, served>>

CreateAdvanceDraft(d) ==
  /\ d \in Advances /\ drafts[d].status = "none"
  /\ \E e \in Employees, a \in Amounts :
       drafts' = [drafts EXCEPT ![d] =
         [NewDraft EXCEPT !.status = "pending", !.emp = e, !.expected = a, !.kind = "advance"]]
  /\ UNCHANGED <<ledger, audit, recent, pc, cmd, told, served>>

\* Whoever comes first after the TTL: draft_ttl_cleanup keeps the row as
\* 'expired' ...
ExpireStaleDraft(d) ==
  /\ drafts[d].status = "pending"
  /\ drafts' = [drafts EXCEPT ![d].status = "expired"]
  /\ UNCHANGED <<ledger, audit, recent, pc, cmd, told, served>>

\* ... and combined_draft_cleanup deletes it.
DeleteStaleDraft(d) ==
  /\ drafts[d].status = "pending"
  /\ drafts' = [drafts EXCEPT ![d].status = "deleted"]
  /\ UNCHANGED <<ledger, audit, recent, pc, cmd, told, served>>

-----------------------------------------------------------------------------
(* PAID and ADVANCE *)

\* _dedup_seen at its limit drops the oldest entry.
Remember(x) == IF Len(recent) < DedupMax THEN Append(recent, x)
               ELSE Append(Tail(recent), x)

\* The oldest entry of the cache passes its TTL.
DedupExpires ==
  /\ recent # << >>
  /\ recent' = Tail(recent)
  /\ UNCHANGED <<drafts, ledger, audit, pc, cmd, told, served>>

\* A text that is in the cache is dropped in silence.  A text the role check
\* refuses is remembered all the same.
ReceivePaid(h, x) ==
  /\ pc[h] = "idle" /\ served < MaxCommands /\ MayStart
  /\ \A i \in DOMAIN recent : recent[i] # x
  /\ recent' = Remember(x)
  /\ \E allowed \in BOOLEAN : Goto(h, IF allowed THEN "paid" ELSE "idle")
  /\ cmd' = [cmd EXCEPT ![h] = [draft |-> x.draft, amount |-> x.amount, row |-> 0]]
  /\ served' = served + 1
  /\ UNCHANGED <<drafts, ledger, audit, told>>

\* _cmd_paid asks only that the draft exists; its status is not looked at.
PaidRead(h) ==
  /\ pc[h] = "paid"
  /\ Goto(h, IF Exists(cmd[h].draft) THEN "finalize" ELSE "idle")
  /\ UNCHANGED <<drafts, ledger, audit, recent, cmd, told, served>>

\* Mutant: the draft is marked sent before the row is inserted.
Mut_FinalizeReadMarks(h) ==
  /\ pc[h] = "finalize"
  /\ drafts' = SetStatus(cmd[h].draft, "sent")
  /\ Goto(h, IF Exists(cmd[h].draft) THEN "insert" ELSE "approve")
  /\ UNCHANGED <<ledger, audit, recent, cmd, told, served>>

\* finalize_payment reads the draft again; when it is gone it returns an error,
\* and _cmd_paid goes on.
FinalizeRead(h) ==
  /\ pc[h] = "finalize"
  /\ Goto(h, IF Exists(cmd[h].draft) THEN "insert" ELSE "approve")
  /\ UNCHANGED <<drafts, ledger, audit, recent, cmd, told, served>>

\* Mutant: a draft that has a row is not given another, and the command goes on.
Mut_InsertUnlessPaid(h) ==
  /\ pc[h] = "insert"
  /\ ledger' = IF \E i \in DOMAIN ledger : ledger[i].draft = cmd[h].draft THEN ledger
               ELSE Append(ledger, Payment(cmd[h].draft, cmd[h].amount))
  /\ Goto(h, "mark_sent")
  /\ UNCHANGED <<drafts, audit, recent, cmd, told, served>>

FinalizeInsert(h) ==
  /\ pc[h] = "insert"
  /\ ledger' = Append(ledger, Payment(cmd[h].draft, cmd[h].amount))
  /\ Goto(h, "mark_sent")
  /\ UNCHANGED <<drafts, audit, recent, cmd, told, served>>

FinalizeMarkSent(h) ==
  /\ pc[h] = "mark_sent"
  /\ drafts' = SetStatus(cmd[h].draft, "sent")
  /\ Goto(h, "approve")
  /\ UNCHANGED <<ledger, audit, recent, cmd, told, served>>

\* An exception in finalize_payment becomes {"error": ...}, which _cmd_paid logs
\* before it continues.
FinalizeFails(h) ==
  /\ env.failures /\ pc[h] \in {"finalize", "insert", "mark_sent"}
  /\ Goto(h, "approve")
  /\ UNCHANGED <<drafts, ledger, audit, recent, cmd, told, served>>

PaidMarkApproved(h) ==
  LET d == cmd[h].draft IN
  /\ pc[h] = "approve"
  /\ drafts' = [SetStatus(d, "approved") EXCEPT
                  ![d].approved = IF Exists(d) THEN cmd[h].amount ELSE @]
  /\ Goto(h, "tell")
  /\ UNCHANGED <<ledger, audit, recent, cmd, told, served>>

\* An exception outside finalize_payment ends the command with an error text.
PaidFails(h) ==
  /\ env.failures /\ pc[h] \in {"paid", "approve"}
  /\ Goto(h, "idle")
  /\ UNCHANGED <<drafts, ledger, audit, recent, cmd, told, served>>

\* The reply says "approved and recorded in the ledger", and the router forwards
\* the payment instruction to the accountant.
TellAccountant(h) ==
  /\ pc[h] = "tell"
  /\ told' = [told EXCEPT ![cmd[h].draft] = @ + 1]
  /\ Goto(h, "idle")
  /\ UNCHANGED <<drafts, ledger, audit, recent, cmd, served>>

-----------------------------------------------------------------------------
(* Corrections *)

ReversePayment(h, d) ==
  /\ pc[h] = "idle" /\ served < MaxCommands /\ MayStart
  /\ drafts[d].status \in {"approved", "sent"} /\ drafts[d].corr # "reversal"
  /\ cmd' = [cmd EXCEPT ![h] = [draft |-> d, amount |-> AmountOf(d), row |-> 0]]
  /\ Goto(h, "rev_find")
  /\ served' = served + 1
  /\ UNCHANGED <<drafts, ledger, audit, recent, told>>

\* Mutant: the counter-row is written before the original is marked.
Mut_ReverseFindSkipsMark(h) ==
  LET found == Matching(cmd[h].draft, cmd[h].amount) IN
  /\ pc[h] = "rev_find"
  /\ \/ found = {} /\ Goto(h, "rev_draft") /\ UNCHANGED cmd
     \/ \E i \in found : cmd' = [cmd EXCEPT ![h].row = i] /\ Goto(h, "rev_insert")
  /\ UNCHANGED <<drafts, ledger, audit, recent, told, served>>

\* The latest matching row; without one only the draft is reversed.
ReverseFind(h) ==
  LET found == Matching(cmd[h].draft, cmd[h].amount) IN
  /\ pc[h] = "rev_find"
  /\ \/ found = {} /\ Goto(h, "rev_draft") /\ UNCHANGED cmd
     \/ \E i \in found :
          /\ \A j \in found : j <= i
          /\ cmd' = [cmd EXCEPT ![h].row = i]
          /\ Goto(h, "rev_mark")
  /\ UNCHANGED <<drafts, ledger, audit, recent, told, served>>

ReverseMark(h) ==
  /\ pc[h] = "rev_mark"
  /\ ledger' = [ledger EXCEPT ![cmd[h].row].reversed = TRUE]
  /\ Goto(h, "rev_insert")
  /\ UNCHANGED <<drafts, audit, recent, cmd, told, served>>

ReverseInsert(h) ==
  /\ pc[h] = "rev_insert"
  /\ ledger' = Append(ledger, Counter(cmd[h].draft, cmd[h].row))
  /\ Goto(h, "rev_draft")
  /\ UNCHANGED <<drafts, audit, recent, cmd, told, served>>

ReverseDraft(h) ==
  /\ pc[h] = "rev_draft"
  /\ drafts' = [drafts EXCEPT ![cmd[h].draft].status = "reversed",
                              ![cmd[h].draft].corr = "reversal"]
  /\ Goto(h, "rev_log")
  /\ UNCHANGED <<ledger, audit, recent, cmd, told, served>>

\* The last statement of both corrections.
LogCorrection(h) ==
  /\ pc[h] \in {"rev_log", "adj_log"}
  /\ audit' = audit \cup {<<pc[h], cmd[h].draft, cmd[h].row>>}
  /\ Goto(h, "idle")
  /\ UNCHANGED <<drafts, ledger, recent, cmd, told, served>>

AdjustPayment(h, d, a) ==
  /\ pc[h] = "idle" /\ served < MaxCommands /\ MayStart
  /\ a > 0 /\ drafts[d].status \in {"approved", "sent"}
  /\ cmd' = [cmd EXCEPT ![h] = [draft |-> d, amount |-> a, row |-> 0]]
  /\ Goto(h, "adj_check")
  /\ served' = served + 1
  /\ UNCHANGED <<drafts, ledger, audit, recent, told>>

\* The live adjustments of a draft.
AdjustmentsOf(d) == {x \in Drafts : /\ Exists(x) /\ drafts[x].of = d
                                    /\ drafts[x].corr = "adjustment"}

AdjustCheck(h) ==
  /\ pc[h] = "adj_check"
  /\ Goto(h, IF AdjustmentsOf(cmd[h].draft) = {} THEN "adj_insert" ELSE "idle")
  /\ UNCHANGED <<drafts, ledger, audit, recent, cmd, told, served>>

\* The new draft is for the full new amount and is approved with PAID.
AdjustInsert(h) ==
  /\ pc[h] = "adj_insert"
  /\ \E x \in Drafts \ (Escorts \cup Advances) :
       /\ drafts[x].status = "none"
       /\ drafts' = [drafts EXCEPT ![x] =
            [status |-> "pending", kind |-> drafts[cmd[h].draft].kind,
             emp |-> drafts[cmd[h].draft].emp, expected |-> cmd[h].amount,
             approved |-> 0, corr |-> "adjustment", of |-> cmd[h].draft]]
  /\ Goto(h, "adj_mark")
  /\ UNCHANGED <<ledger, audit, recent, cmd, told, served>>

AdjustMark(h) ==
  /\ pc[h] = "adj_mark"
  /\ drafts' = [drafts EXCEPT ![cmd[h].draft].corr = "adjustment"]
  /\ Goto(h, "adj_log")
  /\ UNCHANGED <<ledger, audit, recent, cmd, told, served>>

\* An exception in a correction goes up to its caller.
CorrectionFails(h) ==
  /\ env.failures /\ pc[h] \in ReversePCs \cup AdjustPCs
  /\ Goto(h, "idle")
  /\ UNCHANGED <<drafts, ledger, audit, recent, cmd, told, served>>

-----------------------------------------------------------------------------

\* The process restarts: tasks and the duplicate cache are gone.
Restart ==
  /\ env.failures
  /\ pc' = [h \in Handlers |-> "idle"] /\ recent' = << >>
  /\ UNCHANGED <<drafts, ledger, audit, cmd, told, served>>

HandlerStep(h) ==
  \/ PaidRead(h) \/ FinalizeRead(h) \/ FinalizeInsert(h) \/ FinalizeMarkSent(h)
  \/ FinalizeFails(h) \/ PaidMarkApproved(h) \/ PaidFails(h) \/ TellAccountant(h)
  \/ ReverseFind(h) \/ ReverseMark(h) \/ ReverseInsert(h) \/ ReverseDraft(h)
  \/ AdjustCheck(h) \/ AdjustInsert(h) \/ AdjustMark(h)
  \/ LogCorrection(h) \/ CorrectionFails(h)

Step ==
  \/ \E d \in Drafts : \/ CreateEscortDraft(d) \/ CreateAdvanceDraft(d)
                       \/ ExpireStaleDraft(d) \/ DeleteStaleDraft(d)
  \/ DedupExpires \/ Restart
  \/ \E h \in Handlers :
       \/ HandlerStep(h)
       \/ \E x \in Text : ReceivePaid(h, x)
       \/ \E d \in Drafts : ReversePayment(h, d)
       \/ \E d \in Drafts, a \in Amounts : AdjustPayment(h, d, a)

Next == Step /\ UNCHANGED env

Spec == Init /\ [][Next]_vars

-----------------------------------------------------------------------------
(* Properties *)

PaymentsOf(d) == {i \in DOMAIN ledger : ledger[i].kind # "reversal" /\ ledger[i].draft = d}
CountersOf(i) == {j \in DOMAIN ledger : ledger[j].kind = "reversal" /\ ledger[j].of = i}

TypeOK ==
  /\ drafts \in [Drafts -> Draft] /\ ledger \in Seq(Row)
  /\ audit \in SUBSET ({"rev_log", "adj_log"} \X Drafts \X Nat)
  /\ recent \in Seq(Text) /\ Len(recent) <= DedupMax
  /\ pc \in [Handlers -> PCs] /\ cmd \in [Handlers -> Command]
  /\ told \in [Drafts -> Nat] /\ served \in 0..MaxCommands /\ env \in Environment

\* "Drafts marked 'sent' but no corresponding cash transaction" do not exist,
\* however PAID, corrections, cleanups and failures interleave.
SentIsRecorded == \A d \in Drafts : drafts[d].status = "sent" => PaymentsOf(d) # {}

\* Every counter-row points at an earlier payment that is marked reversed, and
\* takes back exactly its amount from the same employee.
CountersBalance ==
  \A j \in DOMAIN ledger : ledger[j].kind = "reversal" =>
    LET i == ledger[j].of IN
    /\ i \in 1..(j - 1) /\ ledger[i].kind # "reversal" /\ ledger[i].reversed
    /\ ledger[j].emp = ledger[i].emp /\ ledger[j].amount = -ledger[i].amount

\* "never delete/modify original transactions": rows are only appended, and of an
\* existing row only is_reversed may be set.
LedgerImmutable ==
  [][/\ Len(ledger) <= Len(ledger')
     /\ \A i \in DOMAIN ledger :
          /\ ledger'[i].kind = ledger[i].kind /\ ledger'[i].emp = ledger[i].emp
          /\ ledger'[i].amount = ledger[i].amount /\ ledger'[i].draft = ledger[i].draft
          /\ ledger'[i].of = ledger[i].of
          /\ ledger[i].reversed => ledger'[i].reversed]_vars

\* Without failures every instruction to the accountant has its row in the
\* ledger, and every row its instruction once no command is under way; only a
\* draft that was deleted in the middle of a command is excepted.  And "cannot
\* double-reverse": when commands do not overlap a payment is taken back at most
\* once, also after a reversal that failed half way.
BooksAgree ==
  /\ ~env.failures => \A d \in Drafts : drafts[d].status # "deleted" =>
       /\ told[d] <= Cardinality(PaymentsOf(d))
       /\ (\A h \in Handlers : pc[h] = "idle") => told[d] = Cardinality(PaymentsOf(d))
  /\ ~env.overlap => \A i \in DOMAIN ledger : Cardinality(CountersOf(i)) <= 1

\* "application-level guard exists in admin_commands": a draft has at most one
\* payment that is not reversed.
NoDoubleFinalize ==
  \A d \in Drafts : Cardinality({i \in PaymentsOf(d) : ~ledger[i].reversed}) <= 1
=============================================================================
