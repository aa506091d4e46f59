------------------------------- MODULE MCDesk -------------------------------
(* An instance of Desk: two tasks, two people who write, an owner, an         *)
(* accountant who is not one, two employees on the roster and two payments.   *)
EXTENDS Desk, TLC

CONSTANTS t1, t2, w1, w2, owner, clerk, e1, e2, p1, p2

MCRoster == <<e1, e2>>

Texts(S) == {[op |-> x[1], todo |-> x[2], text |-> x[3]] : x \in S}
Transit(op, i, to, ref) == [op |-> op, run |-> i, to |-> to, ref |-> ref]
Users(S) == {[op |-> x[1], phone |-> x[2], role |-> x[3]] : x \in S}

TaskSymmetry == Permutations(Tasks)

\* A world names what differs from this one.
Quiet == [atOnce |-> 1, requests |-> 3, failures |-> FALSE, restarts |-> 0, incoming |-> {}, writers |-> {w1, w2}, routes |-> {},
          month |-> << >>, refs |-> {NoRef}, admins |-> {owner}, texts |-> {}, staff |-> {}, users |-> (clerk :> "accountant")]

World(changes) == changes @@ Quiet

MCEnvironments == {
  \* one admin at a time with bridges and statements that fail and a restart
  World([requests |-> 4, failures |-> TRUE, restarts |-> 1, incoming |-> {"reply"}, writers |-> {w1},
         texts |-> Texts({<<"approve", <<1>>, 0>>, <<"approve", <<1, 2>>, 0>>, <<"reject", <<1, 2>>, 0>>, <<"edit", <<1>>, 1>>})]),
  \* edits of several rows
  World([requests |-> 4, incoming |-> {"reply", "complaint", "slip"}, staff |-> {w2},
         texts |-> Texts({<<"approve", <<1>>, 0>>, <<"edit", <<1>>, 1>>, <<"edit", <<2>>, 2>>})]),
  \* two admins at once
  World([atOnce |-> 2, admins |-> {owner, clerk}, incoming |-> {"reply"}, writers |-> {w1},
         texts |-> Texts({<<"approve", <<1>>, 0>>, <<"reject", <<1>>, 0>>, <<"edit", <<1>>, 1>>})]),
  \* attendance of people who are and are not employees
  World([atOnce |-> 2, requests |-> 2, incoming |-> {"attendance", "report"}, staff |-> {w1}, failures |-> TRUE,
         texts |-> Texts({<<"approve", <<1>>, 0>>, <<"approve", <<2>>, 0>>, <<"edit", <<1>>, 1>>})]),
  \* verification sessions with overlapping messages
  World([atOnce |-> 2, requests |-> 5, incoming |-> {"session"}, failures |-> TRUE]),
  \* ... and with an admin
  World([requests |-> 5, incoming |-> {"session"},
         texts |-> Texts({<<"approve", <<1>>, 0>>, <<"reject", <<1>>, 0>>, <<"edit", <<1>>, 1>>})]),
  \* a month of payroll transitions one after another
  World([requests |-> 11, refs |-> {NoRef, "r1"},
         routes |-> {"compute", "reviewed", "approved", "locked", "paid", "cancelled"}]),
  \* overlapping computes and transitions from a run that is ready to be paid
  World([atOnce |-> 2, requests |-> 7, month |-> <<[emp |-> e1, status |-> "locked", key |-> << >>]>>,
         routes |-> {"compute", "reviewed", "approved", "locked", "paid", "cancelled"}]),
  \* imports of a message at once and on two days
  World([atOnce |-> 2, failures |-> TRUE, routes |-> {"import"}]),
  \* transactions by hand
  World([atOnce |-> 2, routes |-> {"add", "change", "remove"}]),
  \* ... with statements that fail
  World([requests |-> 3, failures |-> TRUE, routes |-> {"add", "change", "remove"}]),
  \* the owner and the accountant change users
  World([atOnce |-> 2, restarts |-> 1, admins |-> {owner, clerk},
         texts |-> Users({<<"user_add", w1, "viewer">>, <<"user_role", w1, "operator">>, <<"user_role", clerk, "admin">>,
                          <<"user_remove", clerk, "none">>, <<"user_remove", owner, "none">>})]),
  \* ... and the user routes give and take the roles on which the commands rest
  World([restarts |-> 1, admins |-> {owner, clerk}, routes |-> {"user_add", "user_role", "user_revoke", "user_remove"},
         texts |-> Users({<<"user_role", w1, "operator">>, <<"user_role", clerk, "admin">>})]),
  \* the month end by text
  World([admins |-> {owner, clerk},
         routes |-> {"daily"},
         texts |-> {[op |-> "payroll_compute", todo |-> <<e1>>], [op |-> "schedule_run", todo |-> MCRoster],
                    Transit("payroll_trans", 1, "reviewed", NoRef), Transit("payroll_cancel", 1, "cancelled", NoRef),
                    Transit("payroll_paid", 1, "paid", "r1"), [op |-> "payimport", pay |-> p1]}])
}
=============================================================================
