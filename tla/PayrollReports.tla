--------------------------- MODULE PayrollReports ---------------------------
(***************************************************************************)
(* What the payroll engine shows of its books (routes: GET /employees,     *)
(* /employees/{id}, /employees/{id}/transactions; reconcile.py).           *)
(* Duplicates have no row of their own: their payments are counted on the  *)
(* row of the employee they point to.                                      *)
(***************************************************************************)
EXTENDS PayrollEngine

\* SELECT id ... WHERE id = c OR canonical_employee_id = c: one pointer only.
Members(c) == {m \in Emps : Present(m) /\ (m = c \/ emp[m].canon = c)}

\* The rows of list_employees, whatever the status asked for.
ListedRows == {c \in Emps : Present(c) /\ emp[c].canon = NoEmp}

\* total_paid of a row, of get_employee and of the history: payments of the
\* members that are not reversals.
Shown(c) == {t \in txns : ~t.reversal /\ t.emp \in Members(c)}
TotalPaid(c) == SumFunction([t \in Shown(c) |-> t.amount])

\* employee_transaction_history of whoever e resolves to.
HistoryOf(e) == Shown(Resolve(Pointers, e))

-----------------------------------------------------------------------------
(* compute_reconciliation, without a filter *)

ParserSum ==
  LET payments == UNION {{<<m, k>> : k \in {j \in DOMAIN results[m] : results[m][j].type = "payment"}} : m \in FromMe}
  IN  SumFunction([q \in payments |-> results[q[1]][q[2]].amount])
LedgerSum == SumFunction([t \in {u \in txns : ~u.reversal} |-> t.amount])
UnmatchedSum ==
  SumFunction([i \in {j \in DOMAIN review : review[j].state = "pending"} |-> review[i].amount])

-----------------------------------------------------------------------------
(* Properties *)

\* GET /employees ("canonical + every member that resolves to it") counts every
\* payment on exactly one row, and the history of its employee shows it, also after
\* the employee was merged into another, unless that one was merged again: the
\* query follows one pointer.  While identity requests come one at a time, everybody
\* leads to an employee who is nobody's duplicate (link_duplicate, update_employee),
\* as far as _resolve_canonical follows: past nine in a row it does not.
MergedTwice(e) == emp[e].canon # NoEmp /\ emp[emp[e].canon].canon # NoEmp
PaidIsListed ==
  /\ (\A e \in Emps : ~MergedTwice(e)) => SumFunction([c \in ListedRows |-> TotalPaid(c)]) = LedgerSum
  /\ \A t \in txns : ~t.reversal /\ ~MergedTwice(t.emp) => t \in HistoryOf(t.emp)
  /\ ~env.overlap => LinksLeadHome

\* reconcile.py: with every task at rest, what the parser read in the owner's
\* payments is in the ledger or waits for review.  Stated where the messages
\* are payments of positive amounts, nothing failed, nobody requeues or dismisses,
\* and people booked what was read: the sums do not know of other amounts.
OnlyPayments == \A m \in Rows : \A k \in DOMAIN results[m] :
                  /\ results[m][k].type \notin {"cash_command", "income_command"}
                  /\ results[m][k].type = "payment" => m \in FromMe /\ results[m][k].amount > 0
AtRest == \A a \in Actors : pc[a] = "idle"
BookedAsRead == \A i \in DOMAIN review : review[i].booked =>
                  \E t \in txns : ~t.reversal /\ t.msg = review[i].msg /\ t.amount = review[i].amount
Reconciles ==
  (/\ env.faults = 0 /\ env.ops \subseteq {"promote", "advance", "month", "people", "alias"}
   /\ Cardinality(Reviewers \cap env.desk) <= 1
   /\ OnlyPayments /\ BookedAsRead
   /\ AtRest /\ \A m \in Rows : status[m] \in {"none", "done", "skipped", "failed"})
    => ParserSum = LedgerSum + UnmatchedSum
=============================================================================
