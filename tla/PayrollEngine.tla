---------------------------- MODULE PayrollEngine ----------------------------
(***************************************************************************)
(* The payroll engine (modules/fazle_payroll_engine): archived messages    *)
(* are parsed by one worker and booked by another; what cannot be booked   *)
(* waits in a review queue, from which reviewers promote it to the ledger. *)
(* PayrollArchive feeds it, PayrollPeople tells it whom to book on and     *)
(* PayrollRules what a text says.  Every await of a statement is a step of *)
(* its own; statements autocommit.                                         *)
(*                                                                         *)
(* Not modelled: the audit tables, gauges and diagnostics, which nothing   *)
(* reads back, the wording of replies, and the reports.  An audit row that *)
(* cannot be written fails as the statement before the ledger does.        *)
(***************************************************************************)
EXTENDS PayrollArchive, PayrollPeople, Functions

CONSTANTS
  TextOf,      \* what the patterns find in a message
  FromMe,      \* messages the owner sent
  Trusted,     \* messages whose sender may give commands
  Answers,     \* what the model may answer when it is asked
  Reviewers,   \* requests of reviewers that may be open at once
  Clerks,      \* manual payments and reversals that may be open at once
  Amounts,     \* amounts a person may type
  MaxAttempts, \* MAX_ATTEMPTS
  MaxRequeues, \* bound: requeue requests
  Environments \* what goes wrong, and which requests are made

ASSUME EngineAssumption ==
  /\ MaxAttempts \in Nat \ {0} /\ MaxRequeues \in Nat
  /\ FromMe \subseteq Rows /\ Trusted \subseteq Rows
ASSUME ActorsAssumption ==
  /\ IsFiniteSet(Reviewers) /\ IsFiniteSet(Clerks) /\ Reviewers \cap Clerks = {}
  /\ {"parser", "booker"} \cap (Reviewers \cup Clerks) = {}
ASSUME TextsAssumption ==
  /\ \A m \in Rows : /\ TextOf[m].command \in {"none", "cash_command", "income_command"}
                      /\ TextOf[m].amount \in Int
  /\ \A a \in Answers : a.amount \in Int
  /\ Amounts \subseteq Int
\* A world begins with nobody merged.
Registered == [present : {TRUE}, active : BOOLEAN, primary : MaybePhone, id : MaybePhone,
               name : MaybeName, canon : {NoEmp}]
ASSUME EnvironmentsAssumption ==
  \A e \in Environments :
    /\ e.faults \in Nat
    /\ DOMAIN e.people \subseteq Emps /\ \A p \in DOMAIN e.people : e.people[p] \in Registered

VARIABLES
  attempts,           \* of the processing state
  results,            \* fpe_parser_results of a message
  review,             \* fpe_unmatched_messages
  txns, incomes,      \* fpe_cash_transactions, fpe_income_transactions
  ledger,             \* total_paid and total_advance of an employee in a period
  drafts,             \* payment drafts of a duty list
  pc, batch, cur,     \* of a worker or request: place, rows to do, row at hand,
  txn, slip, nxt,     \* transaction and review row to write, status to set
  month,              \* the accounting period of today
  requeues, faults,   \* history: requeue requests, failed statements
  env                 \* fixed by the initial state

bookVars == <<attempts, results, review, txns, incomes, ledger, drafts>>
taskVars == <<pc, batch, cur, txn, slip, nxt>>
histVars == <<month, requeues, faults, env>>
vars == <<archiveVars, peopleVars, bookVars, taskVars, histVars>>

Actors == {"parser", "booker"} \cup Reviewers \cup Clerks
Periods == 1..2
\* TxnCategory; those left out go into the column of a salary.
Categories == {"salary", "advance"}
Columns == {"total_paid", "total_advance"}
Accounts == Periods \X Columns
NoMsg == NoRow
NoSlip == [amount |-> 0, method |-> "unknown", dated |-> FALSE]
NoTxn == [msg |-> NoMsg, emp |-> NoEmp, amount |-> 0, method |-> "unknown", period |-> 1,
          category |-> "salary", reversal |-> FALSE]

Init ==
  /\ env \in Environments
  /\ ArchiveInit
  /\ emp = [e \in Emps |-> IF e \in DOMAIN env.people THEN env.people[e] ELSE Absent]
  /\ alias = [p \in Phones |-> NoEmp]
  /\ doubts = {}
  /\ apc = [a \in Admins |-> "idle"] /\ ask = [a \in Admins |-> NoRequest]
  /\ attempts = [m \in Rows |-> 0]
  /\ results = [m \in Rows |-> <<>>]
  /\ review = <<>>
  /\ txns = {} /\ incomes = {}
  /\ ledger = [e \in Emps |-> [k \in Accounts |-> 0]]
  /\ drafts = [m \in Rows |-> 0]
  /\ pc = [a \in Actors |-> "idle"]
  /\ batch = [a \in Actors |-> {}]
  /\ cur = [a \in Actors |-> <<NoRow, 0>>]
  /\ txn = [a \in Actors |-> NoTxn]
  /\ slip = [a \in Actors |-> NoSlip]
  /\ nxt = [a \in Actors |-> "none"]
  /\ month = 1
  /\ requeues = 0 /\ faults = 0

Jump(a, l) == pc' = [pc EXCEPT ![a] = l]
Msg(a) == cur[a][1]
Parsed(a) == results[cur[a][1]][cur[a][2]]
WriteSlip(a, s, st) == slip' = [slip EXCEPT ![a] = s] /\ nxt' = [nxt EXCEPT ![a] = st]

\* mark_processing_status: every change of status counts as an attempt.
MarkStatus(m, st) ==
  /\ status' = [status EXCEPT ![m] = st]
  /\ attempts' = [attempts EXCEPT ![m] = @ + 1]
  /\ UNCHANGED <<sqlite, archive, checkpoint, fpc, feed, since, last>>

-----------------------------------------------------------------------------
(* message_processor_worker: _process_pending_batch *)

\* The rows are read once; what happens to them meanwhile is not looked at.
PollPending ==
  /\ pc["parser"] = "idle"
  /\ batch' = [batch EXCEPT !["parser"] =
                 {<<m, 0>> : m \in {x \in Rows : status[x] = "pending" /\ attempts[x] < MaxAttempts}}]
  /\ batch'["parser"] # {}
  /\ Jump("parser", "take")
  /\ UNCHANGED <<archiveVars, peopleVars, bookVars, cur, txn, slip, nxt, histVars>>

\* The next row of the batch is marked parsing, or accounting.
Take(a, r) ==
  /\ pc[a] = "take" /\ r \in batch[a]
  /\ batch' = [batch EXCEPT ![a] = @ \ {r}]
  /\ cur' = [cur EXCEPT ![a] = r]
  /\ MarkStatus(r[1], IF a = "parser" THEN "parsing" ELSE "accounting")
  /\ Jump(a, IF a = "parser" THEN "read" ELSE "validate")
  /\ UNCHANGED <<peopleVars, results, review, txns, incomes, ledger, drafts, txn, slip, nxt, histVars>>

BatchDone(a) ==
  /\ pc[a] = "take" /\ batch[a] = {}
  /\ cur' = [cur EXCEPT ![a] = <<NoRow, 0>>]
  /\ Jump(a, "idle")
  /\ UNCHANGED <<archiveVars, peopleVars, bookVars, batch, txn, slip, nxt, histVars>>

\* Where a reading leads: a stranger's chatter is not even stored as a result.
Chatter(m, r) == m \notin FromMe /\ r.type = "other"
Bookable(m, r) ==
  \/ r.type \in {"payment", "escort_payment"}
  \/ r.type \in {"cash_command", "income_command"} /\ m \in Trusted
Refused(m, r) == r.type \in {"cash_command", "income_command"} /\ m \notin Trusted

\* A result is added to those of earlier passes.
StoreParserResult(m, r) == results' = [results EXCEPT ![m] = Append(@, r)]

\* parse_message, the model where it is asked, and store_parser_result.  A
\* command of a sender without the right to it ends here.
ReadText ==
  /\ pc["parser"] = "read"
  /\ LET m == Msg("parser") IN
     \E r \in Readings(TextOf[m], Answers) :
       /\ IF Chatter(m, r) THEN UNCHANGED results ELSE StoreParserResult(m, r)
       /\ WriteSlip("parser", NoSlip, IF Bookable(m, r) THEN "parsed" ELSE "skipped")
       /\ Jump("parser", IF Bookable(m, r) \/ Refused(m, r) THEN "mark" ELSE "unmatched")
  /\ UNCHANGED <<archiveVars, peopleVars, attempts, review, txns, incomes, ledger, drafts,
                 batch, cur, txn, histVars>>

\* store_unmatched; nothing makes its row unique.
ReviewRow(m, s) == [msg |-> m, amount |-> s.amount, method |-> s.method, dated |-> s.dated,
                    state |-> "pending", booked |-> FALSE]
StoreUnmatched(a) ==
  /\ pc[a] = "unmatched"
  /\ review' = Append(review, ReviewRow(Msg(a), slip[a]))
  /\ Jump(a, "mark")
  /\ UNCHANGED <<archiveVars, peopleVars, attempts, results, txns, incomes, ledger, drafts,
                 batch, cur, txn, slip, nxt, histVars>>

\* The last statement of a row.
MarkNext(a) ==
  /\ pc[a] = "mark"
  /\ MarkStatus(Msg(a), nxt[a])
  /\ WriteSlip(a, NoSlip, "none")
  /\ Jump(a, "take")
  /\ UNCHANGED <<peopleVars, results, review, txns, incomes, ledger, drafts, batch, cur, txn, histVars>>

-----------------------------------------------------------------------------
(* accounting_worker: _process_parsed_batch *)

\* A row for every result of a message, the results of an earlier pass included.
PollParsed ==
  /\ pc["booker"] = "idle"
  /\ batch' = [batch EXCEPT !["booker"] =
       {r \in UNION {{<<m, k>> : k \in DOMAIN results[m]} :
                       m \in {x \in Rows : status[x] = "parsed" /\ attempts[x] < MaxAttempts}} :
          results[r[1]][r[2]].type \in AccountingTypes}]
  /\ batch'["booker"] # {}
  /\ Jump("booker", "take")
  /\ UNCHANGED <<archiveVars, peopleVars, bookVars, cur, txn, slip, nxt, histVars>>

\* _handle_escort_payment: a draft for every line, inserted one after the other,
\* here at once.
DraftEntries(m, r) == drafts' = [drafts EXCEPT ![m] = @ + Len(r.entries)]

\* validate_for_accounting, and the handler of the type.
Dispatch ==
  /\ pc["booker"] = "validate"
  /\ LET r == Parsed("booker")
         m == Msg("booker")
         ok == ValidForAccounting(r)
         foreign == r.type = "payment" /\ m \notin FromMe
     IN  /\ IF ok /\ r.type = "escort_payment" THEN DraftEntries(m, r) ELSE UNCHANGED drafts
         /\ WriteSlip("booker", [NoSlip EXCEPT !.method = IF ok THEN @ ELSE r.method],
              IF ok /\ r.type = "escort_payment" THEN "done"
              ELSE IF ~ok \/ foreign THEN "skipped" ELSE "none")
         /\ Jump("booker", CASE ~ok -> "unmatched"
                             [] ok /\ (r.type = "escort_payment" \/ foreign) -> "mark"
                             [] ok /\ r.type = "cash_command" -> "lookup"
                             [] ok /\ r.type # "escort_payment" /\ ~foreign /\ r.type # "cash_command" -> "match")
  /\ UNCHANGED <<archiveVars, peopleVars, attempts, results, review, txns, incomes, ledger,
                 batch, cur, txn, histVars>>

\* The transaction of a message: its period is the message's.
Payment(m, r, e) == [msg |-> m, emp |-> e, amount |-> r.amount, method |-> r.method,
                     period |-> 1, category |-> "salary", reversal |-> FALSE]

\* A cash command is for an employee on record, duplicate and inactive rows
\* included; otherwise the sender gets a reply and the command waits.
CashLookup ==
  /\ pc["booker"] = "lookup"
  /\ LET r == Parsed("booker")
         known == {e \in Emps : Present(e) /\ (emp[e].primary = r.pay \/ emp[e].id = r.pay)}
     IN  \/ \E e \in known :
              /\ txn' = [txn EXCEPT !["booker"] = Payment(Msg("booker"), r, e)]
              /\ Jump("booker", "check")
              /\ UNCHANGED <<slip, nxt>>
         \/ /\ known = {}
            /\ WriteSlip("booker", [NoSlip EXCEPT !.amount = r.amount], "skipped")
            /\ Jump("booker", "unmatched")
            /\ UNCHANGED txn
  /\ UNCHANGED <<archiveVars, peopleVars, bookVars, batch, cur, histVars>>

\* Deviation (mutation runs): the review row does not keep the amount.
Mut_MatchForgetsAmount ==
  /\ pc["booker"] = "match"
  /\ LET r == Parsed("booker")
         m == Msg("booker")
     IN  \/ \E e \in Emps :
              /\ Match(r, e) \/ AutoCreate(r, e)
              /\ txn' = [txn EXCEPT !["booker"] = Payment(m, r, e)]
              /\ Jump("booker", IF r.type = "payment" THEN "check" ELSE "income")
              /\ UNCHANGED <<slip, nxt>>
         \/ /\ Found(r) = {} /\ ~Creatable(r)
            /\ WriteSlip("booker", NoSlip, "failed")
            /\ Jump("booker", "unmatched")
            /\ UNCHANGED <<txn, emp, alias, doubts>>
  /\ UNCHANGED <<archiveVars, apc, ask, bookVars, batch, cur, histVars>>

\* match_or_create_employee for a payment or an income command; the latter
\* always has a phone.
MatchEmployee ==
  /\ pc["booker"] = "match"
  /\ LET r == Parsed("booker")
         m == Msg("booker")
     IN  \/ \E e \in Emps :
              /\ Match(r, e) \/ AutoCreate(r, e)
              /\ txn' = [txn EXCEPT !["booker"] = Payment(m, r, e)]
              /\ Jump("booker", IF r.type = "payment" THEN "check" ELSE "income")
              /\ UNCHANGED <<slip, nxt>>
         \/ /\ Found(r) = {} /\ ~Creatable(r)
            /\ WriteSlip("booker", [amount |-> r.amount, method |-> r.method, dated |-> TRUE], "failed")
            /\ Jump("booker", "unmatched")
            /\ UNCHANGED <<txn, emp, alias, doubts>>
  /\ UNCHANGED <<archiveVars, apc, ask, bookVars, batch, cur, histVars>>

\* create_income_transaction: its txn_ref is unique, and no ledger is kept.
BookIncome ==
  /\ pc["booker"] = "income"
  /\ incomes' = incomes \cup {txn["booker"]}
  /\ WriteSlip("booker", NoSlip, "done")
  /\ Jump("booker", "mark")
  /\ UNCHANGED <<archiveVars, peopleVars, attempts, results, review, txns, ledger, drafts,
                 batch, cur, txn, histVars>>

-----------------------------------------------------------------------------
(* create_transaction, for the worker, a reviewer and a clerk; and the same *)
(* three statements of reverse_transaction                                 *)

Workers == {"parser", "booker"}
Raised(a) == IF a \in Workers THEN "except" ELSE "idle"

\* txn_ref: all of a transaction but its category.
Ref(t) == <<t.msg, t.emp, t.amount, t.method, t.period, t.reversal>>
Taken(t) == \E u \in txns : Ref(u) = Ref(t)

\* The look before the INSERT: what has a row already is answered with that row.
TxnCheck(a) ==
  /\ pc[a] = "check"
  /\ Jump(a, IF ~Taken(txn[a]) THEN "insert"
             ELSE IF txn[a].reversal THEN "idle" ELSE "booked")
  /\ UNCHANGED <<archiveVars, peopleVars, bookVars, batch, cur, txn, slip, nxt, histVars>>

\* Deviation (mutation runs): without the UNIQUE constraint the ledger moves on.
Mut_TxnInsertAgain(a) ==
  /\ pc[a] = "insert"
  /\ txns' = txns \cup {txn[a]}
  /\ Jump(a, "ledger")
  /\ UNCHANGED <<archiveVars, peopleVars, attempts, results, review, incomes, ledger, drafts,
                 batch, cur, txn, slip, nxt, histVars>>

\* txn_ref is UNIQUE: the second INSERT of a race raises.
TxnInsert(a) ==
  /\ pc[a] = "insert"
  /\ txns' = IF Taken(txn[a]) THEN txns ELSE txns \cup {txn[a]}
  /\ Jump(a, IF Taken(txn[a]) THEN Raised(a) ELSE "ledger")
  /\ UNCHANGED <<archiveVars, peopleVars, attempts, results, review, incomes, ledger, drafts,
                 batch, cur, txn, slip, nxt, histVars>>

\* _upsert_ledger: one statement, which adds to the column of the category.
Column(category) == IF category = "advance" THEN "total_advance" ELSE "total_paid"
Account(t) == <<t.period, Column(t.category)>>
Signed(t) == IF t.reversal THEN 0 - t.amount ELSE t.amount
UpsertLedger(a) ==
  /\ pc[a] = "ledger"
  /\ ledger' = [ledger EXCEPT ![txn[a].emp][Account(txn[a])] = @ + Signed(txn[a])]
  /\ Jump(a, "booked")
  /\ UNCHANGED <<archiveVars, peopleVars, attempts, results, review, txns, incomes, drafts,
                 batch, cur, txn, slip, nxt, histVars>>

\* The worker goes on to mark the message done; a clerk has his answer.
Booked(a) ==
  /\ pc[a] = "booked" /\ a \notin Reviewers
  /\ IF a = "booker" THEN WriteSlip(a, NoSlip, "done") /\ Jump(a, "mark")
     ELSE Jump(a, "idle") /\ UNCHANGED <<slip, nxt>>
  /\ txn' = [txn EXCEPT ![a] = NoTxn]
  /\ UNCHANGED <<archiveVars, peopleVars, bookVars, batch, cur, histVars>>

-----------------------------------------------------------------------------
(* Statements that fail *)

Detected(a) == IF a = "booker"
               THEN [NoSlip EXCEPT !.amount = Parsed(a).amount, !.method = Parsed(a).method]
               ELSE NoSlip

\* A statement of the try block raises; that of a request ends the request.
StatementFails(a) ==
  /\ faults < env.faults /\ faults' = faults + 1
  /\ pc[a] \in {"read", "unmatched", "mark", "validate", "lookup", "match", "income",
                "check", "insert", "ledger", "booked"}
  /\ Jump(a, Raised(a))
  /\ UNCHANGED <<archiveVars, peopleVars, bookVars, batch, cur, txn, slip, nxt, month, requeues, env>>

\* Deviation (mutation runs): the handler keeps no row for the reviewers.
Mut_StoreFailedNowhere(a) ==
  /\ pc[a] = "except"
  /\ Jump(a, "exmark")
  /\ UNCHANGED <<archiveVars, peopleVars, bookVars, batch, cur, txn, slip, nxt, histVars>>

\* The handler: a review row with what was detected, whose own failure is only
\* logged, ...
StoreFailed(a) ==
  /\ pc[a] = "except"
  /\ \/ review' = Append(review, ReviewRow(Msg(a), Detected(a))) /\ UNCHANGED faults
     \/ faults < env.faults /\ faults' = faults + 1 /\ UNCHANGED review
  /\ Jump(a, "exmark")
  /\ UNCHANGED <<archiveVars, peopleVars, attempts, results, txns, incomes, ledger, drafts,
                 batch, cur, txn, slip, nxt, month, requeues, env>>

\* ... and the status failed, after which nothing takes the message up again.
MarkFailed(a) ==
  /\ pc[a] = "exmark"
  /\ MarkStatus(Msg(a), "failed")
  /\ WriteSlip(a, NoSlip, "none")
  /\ txn' = [txn EXCEPT ![a] = NoTxn]
  /\ Jump(a, "take")
  /\ UNCHANGED <<peopleVars, results, review, txns, incomes, ledger, drafts, batch, cur, histVars>>

\* When that fails too the rest of the batch is given up.
BatchFails(a) ==
  /\ pc[a] = "exmark" /\ faults < env.faults /\ faults' = faults + 1
  /\ batch' = [batch EXCEPT ![a] = {}]
  /\ cur' = [cur EXCEPT ![a] = <<NoRow, 0>>]
  /\ txn' = [txn EXCEPT ![a] = NoTxn]
  /\ WriteSlip(a, NoSlip, "none")
  /\ Jump(a, "idle")
  /\ UNCHANGED <<archiveVars, peopleVars, bookVars, month, requeues, env>>

-----------------------------------------------------------------------------
(* Reviewers and clerks *)

\* Deviation (mutation runs): a promoted row may be promoted again.
Mut_PromotableAgain(i) == review[i].state # "dismissed"

\* admin_needs_review_promote: the row is read, and a promoted one refused.
\* Its date is the message's where that was kept, otherwise today.
Promotable(i) == ~review[i].booked /\ review[i].state # "promoted"
PromoteRead(a, i, e, override, category) ==
  /\ pc[a] = "idle" /\ i \in DOMAIN review /\ Promotable(i) /\ Present(e)
  /\ LET u == review[i]
         amount == IF override > 0 THEN override ELSE u.amount
     IN  /\ amount > 0
         /\ txn' = [txn EXCEPT ![a] =
              [msg |-> u.msg, emp |-> e, amount |-> amount, method |-> u.method,
               period |-> IF u.dated THEN 1 ELSE month, category |-> category, reversal |-> FALSE]]
  /\ cur' = [cur EXCEPT ![a] = <<NoRow, i>>]
  /\ Jump(a, "check")
  /\ UNCHANGED <<archiveVars, peopleVars, bookVars, batch, slip, nxt, histVars>>

PromoteWrite(a) ==
  /\ pc[a] = "booked" /\ a \in Reviewers
  /\ review' = [review EXCEPT ![cur[a][2]].state = "promoted", ![cur[a][2]].booked = TRUE]
  /\ txn' = [txn EXCEPT ![a] = NoTxn]
  /\ cur' = [cur EXCEPT ![a] = <<NoRow, 0>>]
  /\ Jump(a, "idle")
  /\ UNCHANGED <<archiveVars, peopleVars, attempts, results, txns, incomes, ledger, drafts,
                 batch, slip, nxt, histVars>>

\* admin_needs_review_dismiss: the status is read, then written without a look.
DismissRead(a, i) ==
  /\ pc[a] = "idle" /\ i \in DOMAIN review /\ review[i].state # "promoted"
  /\ cur' = [cur EXCEPT ![a] = <<NoRow, i>>]
  /\ Jump(a, "dismiss")
  /\ UNCHANGED <<archiveVars, peopleVars, bookVars, batch, txn, slip, nxt, histVars>>

DismissWrite(a) ==
  /\ pc[a] = "dismiss"
  /\ review' = [review EXCEPT ![cur[a][2]].state = "dismissed"]
  /\ cur' = [cur EXCEPT ![a] = <<NoRow, 0>>]
  /\ Jump(a, "idle")
  /\ UNCHANGED <<archiveVars, peopleVars, attempts, results, txns, incomes, ledger, drafts,
                 batch, txn, slip, nxt, histVars>>

\* admin_dlq_requeue takes any message with a state row, whatever its status.
Requeue(m, reset) ==
  /\ requeues < MaxRequeues /\ requeues' = requeues + 1
  /\ status[m] # "none"
  /\ status' = [status EXCEPT ![m] = "pending"]
  /\ attempts' = IF reset THEN [attempts EXCEPT ![m] = 0] ELSE attempts
  /\ UNCHANGED <<sqlite, archive, checkpoint, fpc, feed, since, last, peopleVars, results, review,
                 txns, incomes, ledger, drafts, taskVars, month, faults, env>>

\* create_manual_txn: the reference has no message in it.
ManualPayment(a, e, amount, category) ==
  /\ pc[a] = "idle" /\ Present(e)
  /\ txn' = [txn EXCEPT ![a] = [NoTxn EXCEPT !.emp = e, !.amount = amount, !.method = "cash",
                                             !.period = month, !.category = category]]
  /\ Jump(a, "check")
  /\ UNCHANGED <<archiveVars, peopleVars, bookVars, batch, cur, slip, nxt, histVars>>

\* reverse_transaction: the original is left alone, its reversal is booked.
ReverseTransaction(a, t) ==
  /\ pc[a] = "idle" /\ t \in txns /\ ~t.reversal
  /\ txn' = [txn EXCEPT ![a] = [t EXCEPT !.reversal = TRUE]]
  /\ Jump(a, "check")
  /\ UNCHANGED <<archiveVars, peopleVars, bookVars, batch, cur, slip, nxt, histVars>>

NewMonth ==
  /\ month = 1 /\ month' = 2
  /\ UNCHANGED <<archiveVars, peopleVars, bookVars, taskVars, requeues, faults, env>>

\* start_workers after the process died: nothing is taken up where it was left.
Crash ==
  /\ pc' = [a \in Actors |-> "idle"] /\ batch' = [a \in Actors |-> {}]
  /\ cur' = [a \in Actors |-> <<NoRow, 0>>] /\ txn' = [a \in Actors |-> NoTxn]
  /\ slip' = [a \in Actors |-> NoSlip] /\ nxt' = [a \in Actors |-> "none"]
  /\ fpc' = [f \in Feeders |-> "idle"] /\ feed' = [f \in Feeders |-> <<>>]
  /\ since' = [f \in Feeders |-> NoTs] /\ last' = [f \in Feeders |-> NoTs]
  /\ apc' = [a \in Admins |-> "idle"] /\ ask' = [a \in Admins |-> NoRequest]
  /\ faults < env.faults /\ faults' = faults + 1
  /\ UNCHANGED <<sqlite, archive, status, checkpoint, emp, alias, doubts, bookVars, month, requeues, env>>

-----------------------------------------------------------------------------
Allowed(op) == op \in env.ops
\* What a request may say it is for.
Kinds == IF Allowed("advance") THEN Categories ELSE {"salary"}
Archived == UNCHANGED <<peopleVars, bookVars, taskVars, month, requeues, env>>
Peopled == UNCHANGED <<archiveVars, bookVars, taskVars, histVars>>

ParserStep == PollPending \/ (\E r \in batch["parser"] : Take("parser", r)) \/ BatchDone("parser")
              \/ ReadText \/ StoreUnmatched("parser") \/ MarkNext("parser")
              \/ StoreFailed("parser") \/ MarkFailed("parser")
TxnStep(a) == TxnCheck(a) \/ TxnInsert(a) \/ UpsertLedger(a) \/ Booked(a)
BookerStep == PollParsed \/ (\E r \in batch["booker"] : Take("booker", r)) \/ BatchDone("booker")
              \/ Dispatch \/ CashLookup \/ MatchEmployee \/ BookIncome \/ TxnStep("booker")
              \/ StoreUnmatched("booker") \/ MarkNext("booker")
              \/ StoreFailed("booker") \/ MarkFailed("booker")

\* Identity requests overlap only where the environment lets them.
MayAsk(a) == env.overlap \/ \A b \in Admins \ {a} : Idle(b)

Next ==
  \/ \E m \in env.arrives : BridgeStores(m) /\ Archived /\ UNCHANGED faults
  \/ \E f \in Feeders \cap env.feeders : FeedStep(f) /\ Archived /\ UNCHANGED faults
  \/ \E f \in Feeders : FeedFails(f) /\ Archived /\ faults < env.faults /\ faults' = faults + 1
  \/ ParserStep \/ BookerStep
  \/ \E a \in Workers : StatementFails(a) \/ BatchFails(a)
  \/ \E a \in Reviewers \cap env.desk, i \in DOMAIN review :
       \/ Allowed("promote") /\ \E e \in Emps, o \in Amounts \cup {0}, c \in Kinds : PromoteRead(a, i, e, o, c)
       \/ Allowed("dismiss") /\ DismissRead(a, i)
  \/ \E a \in Reviewers : TxnStep(a) \/ PromoteWrite(a) \/ DismissWrite(a) \/ StatementFails(a)
  \/ \E a \in Clerks \cap env.desk :
       \/ Allowed("manual") /\ \E e \in Emps, n \in Amounts, c \in Kinds : ManualPayment(a, e, n, c)
       \/ Allowed("reverse") /\ \E t \in txns : ReverseTransaction(a, t)
       \/ TxnStep(a) \/ StatementFails(a)
  \/ Allowed("requeue") /\ \E m \in Rows, reset \in BOOLEAN : Requeue(m, reset)
  \/ Allowed("month") /\ NewMonth
  \/ Allowed("crash") /\ Crash
  \/ Allowed("people") /\ \E a \in Admins : MayAsk(a) /\ AdminStep(a) /\ Peopled
  \/ Allowed("alias") /\ \E e \in Emps : MarkInactive(e) /\ Peopled
  \/ Allowed("alias") /\ \E e \in Emps, p \in Phones : AddAlias(e, p) /\ Peopled

\* Both workers and the two loops are tasks of the process that poll for ever;
\* a pass that was triggered runs to its end.
Fairness ==
  /\ WF_vars(ParserStep) /\ WF_vars(BookerStep)
  /\ \A f \in Loops \cup Scans :
       WF_vars(/\ f \in env.feeders
               /\ (f \in env.loops \/ fpc[f] # "idle")
               /\ FeedStep(f) /\ Archived /\ UNCHANGED faults)

Spec == Init /\ [][Next]_vars /\ Fairness

-----------------------------------------------------------------------------
Settled(m) == status[m] \in {"done", "skipped", "failed"}

\* A message is booked once, by the worker or by a reviewer, as long as nobody
\* requeues it and no two reviewers have the same row open.
BookedOnce ==
  (env.faults = 0 /\ ~Allowed("requeue") /\ Cardinality(Reviewers \cap env.desk) <= 1) =>
    \A m \in Rows : Cardinality({t \in txns : t.msg = m /\ ~t.reversal}) <= 1

\* total_paid and total_advance are the sums of the employee's transactions that
\* belong there, but for the ones whose task has yet to reach the ledger: racing
\* workers, reviewers and reversals neither lose nor repeat an amount, nor enter
\* an advance twice because it was first entered as a salary.
Due(a, e, k) == IF pc[a] = "ledger" /\ txn[a].emp = e /\ Account(txn[a]) = k THEN Signed(txn[a]) ELSE 0
LedgerAgrees ==
  env.faults = 0 =>
    \A e \in Emps, k \in Accounts :
      LET due == [a \in Actors |-> Due(a, e, k)]
          booked == [t \in {u \in txns : u.emp = e /\ Account(u) = k} |-> Signed(t)]
      IN  ledger[e][k] + SumFunction(due) = SumFunction(booked)

\* What the owner paid stays in sight: when a message with an amount of his is
\* through, the amount is in the ledger or in the review queue, also when one
\* statement or the process failed on the way.
Money(m) == m \in FromMe /\ \E k \in DOMAIN results[m] : ValidForAccounting(results[m][k])
                                                          /\ results[m][k].type \in AmountTypes
MoneyVisible ==
  env.faults <= 1 =>
    \A m \in Rows : Settled(m) /\ Money(m) /\ m \in Trusted =>
      \/ \E t \in txns \cup incomes : t.msg = m
      \/ \E i \in DOMAIN review : review[i].msg = m

\* Whatever the bridge stores, late and out of order too, is archived and gets
\* through the pipeline while nothing fails and the chat has no more rows than
\* the gap scan compares.
Calm == env.faults = 0 /\ ~Allowed("requeue") /\ Cardinality(env.arrives) <= GapLimit
          /\ Loops \cap env.loops # {} /\ Scans \cap env.loops # {}
StoredIsSettled ==
  (Calm /\ sqlite = env.arrives) ~> (\A m \in sqlite : Usable(m) => Settled(m))

=============================================================================
