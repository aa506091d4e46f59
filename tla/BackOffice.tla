----------------------------- MODULE BackOffice -----------------------------
(***************************************************************************)
(* Transactions that an admin adds, edits and deletes by hand              *)
(* (modules/admin_transactions): a row of fpe_cash_transactions and,       *)
(* statement by statement after it, the employee's ledger of the month.    *)
(* No transaction spans the row and the ledger.  The check of updated_at   *)
(* in front of an edit finds nothing: no statement writes that column.     *)
(***************************************************************************)
EXTENDS DeskTasks, Functions

CONSTANTS
  Payees,       \* who is paid: an id phone, or a name without phones
  MaxEntries    \* bound: rows of fpe_cash_transactions

ASSUME OfficeAssumption == MaxEntries \in Nat

VARIABLES
  accounts,  \* fpe_employees: the payee of each row
  entries,   \* fpe_cash_transactions
  ledger,    \* fpe_employee_ledger: total_paid and total_advance, by account and month
  clashed    \* history: two requests worked on one row at once, or a statement failed

officeVars == <<accounts, entries, ledger, clashed>>

Months == 1..2
Bucket(category) == IF category = "advance" THEN "total_advance" ELSE "total_paid"
Buckets == {"total_paid", "total_advance"}
Bodies == [amount : 1..2, month : Months, category : {"salary", "advance"}]

OfficeInit ==
  /\ accounts = << >> /\ entries = << >> /\ clashed = FALSE
  /\ ledger = [a \in 1..MaxEntries |-> [m \in Months |-> [b \in Buckets |-> 0]]]

\* What a request has to do to the ledger: one statement per item.
Move(account, e, sign) == [account |-> account, month |-> e.month, category |-> e.category, by |-> sign * e.amount]

-----------------------------------------------------------------------------
StartAdd(t, who, body) ==
  /\ "add" \in env.routes /\ Len(entries) < MaxEntries
  /\ Begin(t, "resolve", [op |-> "add", payee |-> who, body |-> body, account |-> 0])
  /\ UNCHANGED officeVars

\* resolve_or_create_employee: the phone, or the name when there is none ...
Resolve(t) ==
  /\ At(t, "resolve")
  /\ LET known == {a \in DOMAIN accounts : accounts[a] = job[t].payee}
     IN  IF known = {} THEN Goto(t, "create_account")
         ELSE \E a \in known : Continue(t, "add_insert", [job[t] EXCEPT !.account = a])
  /\ UNCHANGED officeVars

\* ... or a new employee; nothing makes the phone unique.
CreateAccount(t) ==
  /\ At(t, "create_account")
  /\ Len(accounts) < MaxEntries /\ accounts' = Append(accounts, job[t].payee)
  /\ Continue(t, "add_insert", [job[t] EXCEPT !.account = Len(accounts) + 1])
  /\ UNCHANGED <<entries, ledger, clashed>>

AddInsert(t) ==
  /\ At(t, "add_insert") /\ Len(entries) < MaxEntries
  /\ entries' = Append(entries, [account |-> job[t].account, now |-> job[t].body, deleted |-> FALSE])
  /\ Continue(t, "adjust", [entry |-> Len(entries) + 1, todo |-> <<Move(job[t].account, job[t].body, 1)>>])
  /\ UNCHANGED <<accounts, ledger, clashed>>

\* _adjust_ledger with _upsert_ledger: one statement, which may fail and end the request.
AdjustLedger(t) ==
  /\ At(t, "adjust")
  /\ LET m == Item(t)
     IN  \/ /\ ledger' = [ledger EXCEPT ![m.account][m.month][Bucket(m.category)] = @ + m.by]
            /\ FinishItem(t, "adjust")
            /\ UNCHANGED clashed
         \/ /\ env.failures /\ clashed' = TRUE
            /\ Finish(t) /\ UNCHANGED ledger
  /\ UNCHANGED <<accounts, entries>>

-----------------------------------------------------------------------------
Working(u, i) == pc[u] \in {"change", "remove", "adjust"} /\ job[u].entry = i

\* edit_admin_transaction and soft_delete_transaction read the row ...
StartChange(t, i, label, body) ==
  /\ label \in env.routes /\ i \in DOMAIN entries /\ ~entries[i].deleted
  /\ Begin(t, label, [entry |-> i, seen |-> entries[i], body |-> body])
  /\ clashed' = (clashed \/ \E u \in Tasks : Working(u, i))
  /\ UNCHANGED <<accounts, entries, ledger>>

\* Deviation (mutation runs): an edit books the new amount and keeps the old.
Mut_OldStays(e, body) ==
  IF e.now.amount = body.amount /\ e.now.month = body.month THEN << >>
  ELSE <<Move(e.account, body, 1)>>

\* An edit of the category alone leaves the ledger as it is.
EditMoves(e, body) ==
  IF e.now.amount = body.amount /\ e.now.month = body.month THEN << >>
  ELSE <<Move(e.account, e.now, -1), Move(e.account, body, 1)>>

\* ... overwrite it by id and then correct the ledger by what they read.
ChangeWrite(t) ==
  /\ At(t, "change")
  /\ entries' = [entries EXCEPT ![job[t].entry].now = job[t].body]
  /\ LET moves == EditMoves(job[t].seen, job[t].body)
     IN  IF moves = << >> THEN Finish(t)
         ELSE Continue(t, "adjust", [entry |-> job[t].entry, todo |-> moves])
  /\ UNCHANGED <<accounts, ledger, clashed>>

RemoveWrite(t) ==
  /\ At(t, "remove")
  /\ entries' = [entries EXCEPT ![job[t].entry].deleted = TRUE]
  /\ Continue(t, "adjust", [entry |-> job[t].entry,
                            todo |-> <<Move(job[t].seen.account, job[t].seen.now, -1)>>])
  /\ UNCHANGED <<accounts, ledger, clashed>>

OfficeStep(t) ==
  \/ \E who \in Payees, body \in Bodies : StartAdd(t, who, body)
  \/ \E i \in 1..MaxEntries, body \in Bodies : StartChange(t, i, "change", body)
  \/ \E i \in 1..MaxEntries : StartChange(t, i, "remove", entries[i].now)
  \/ Resolve(t) \/ CreateAccount(t) \/ AddInsert(t) \/ AdjustLedger(t)
  \/ ChangeWrite(t) \/ RemoveWrite(t)

Live(a, m) == {i \in DOMAIN entries : entries[i].account = a /\ entries[i].now.month = m /\ ~entries[i].deleted}
Total(a, m) ==
  SumFunction([i \in DOMAIN entries |-> IF i \in Live(a, m) THEN entries[i].now.amount ELSE 0])
=============================================================================
