--------------------------- MODULE MCPayrollEngine ---------------------------
(* A chat of chatter (c1 to c3) and of one message of each kind, three       *)
(* employee rows, and the environments that put them together.               *)
EXTENDS PayrollReports, TLC

CONSTANTS c1, c2, c3, p1, k1, i1, x1, r1, e1, e2, e3, f1, f2, n1, n2, sync, trigger, scan, post, v1, v2, w1, w2, a1, a2

MCRows == {c1, c2, c3, p1, k1, i1, x1, r1}
MCTsOf == (c1 :> 1) @@ (c2 :> 2) @@ (c3 :> NoTs) @@ [m \in {p1, k1, i1, x1, r1} |-> 1]
MCEmps == {e1, e2, e3}
MCLikeness == [q \in {n1, n2} \X {n1, n2} |-> IF q[1] = q[2] THEN 100 ELSE 80]

Text == [blank |-> FALSE, command |-> "none", words |-> 3, phones |-> <<>>, amount |-> NoAmount,
         name |-> NoName, lines |-> <<>>, summary |-> FALSE, id |-> NoPhone, method |-> "unknown"]
Line(l, n) == [label |-> l, amount |-> n]
MCTextOf ==
  (p1 :> [Text EXCEPT !.phones = <<f1>>, !.amount = 3, !.name = n1, !.method = "bkash"])
  @@ (k1 :> [Text EXCEPT !.command = "cash_command", !.phones = <<f1>>, !.amount = 2, !.name = n1])
  @@ (i1 :> [Text EXCEPT !.command = "income_command", !.phones = <<f2>>, !.amount = 2, !.name = n2])
  @@ (x1 :> [Text EXCEPT !.lines = <<Line("name", 1), Line("totalish", 2), Line("name", 0)>>])
  @@ (r1 :> [Text EXCEPT !.amount = 3])
  @@ [m \in {c1, c2, c3} |-> Text]
MCAnswers == {[amount |-> 0, conf |-> 0, pay |-> NoPhone, name |-> NoName, method |-> "unknown"],
              [amount |-> 3, conf |-> 90, pay |-> f1, name |-> n2, method |-> "cash"]}
MCBodies == {[id |-> f2, primary |-> NoPhone, name |-> NoName],
             [id |-> NoPhone, primary |-> f1, name |-> n1]}

Known == e1 :> Person(f1, f1, n1)
Second == e2 :> Person(f2, f2, n2)
Both == Known @@ Second
World == [people |-> Known, arrives |-> {}, feeders |-> {}, loops |-> {sync, scan}, ops |-> {}, desk |-> {},
          faults |-> 0, overlap |-> FALSE]

MCEnvironments == {
  \* messages late and out of order; both loops and a triggered pass
  [World EXCEPT !.arrives = {c1, c2}, !.feeders = {sync, trigger, scan}],
  [World EXCEPT !.arrives = {c3, p1}, !.feeders = {sync, scan}],
  \* the replay brings what the bridge has under another id
  [World EXCEPT !.arrives = {p1}, !.feeders = {sync, post}, !.loops = {sync}],
  \* one message of a kind and the people who correct the books
  [World EXCEPT !.arrives = {p1}, !.feeders = {sync}, !.loops = {sync}, !.ops = {"manual", "reverse"}, !.desk = {w1, w2}],
  [World EXCEPT !.ops = {"manual", "advance", "reverse"}, !.desk = {w1, w2}],
  [World EXCEPT !.people = Both, !.arrives = {k1, r1}, !.feeders = {post}, !.loops = {},
                !.ops = {"promote", "month"}, !.desk = {v1}],
  [World EXCEPT !.arrives = {i1, x1}, !.feeders = {sync, scan}],
  [World EXCEPT !.people = Both, !.arrives = {r1}, !.feeders = {post}, !.loops = {},
                !.ops = {"promote", "dismiss"}, !.desk = {v1, v2}],
  [World EXCEPT !.arrives = {r1}, !.feeders = {post}, !.loops = {},
                !.ops = {"promote", "advance"}, !.desk = {v1, v2}],
  [World EXCEPT !.people = Second, !.arrives = {k1}, !.feeders = {sync}, !.loops = {sync},
                !.ops = {"promote", "month"}, !.desk = {v1}],
  \* a failed statement or a crash anywhere and the requeue that follows
  [World EXCEPT !.arrives = {p1}, !.feeders = {sync}, !.loops = {sync}, !.ops = {"crash"}, !.faults = 2],
  [World EXCEPT !.arrives = {k1}, !.feeders = {sync}, !.loops = {sync},
                !.ops = {"requeue", "promote"}, !.desk = {v1}, !.faults = 1],
  [World EXCEPT !.arrives = {r1}, !.feeders = {post}, !.loops = {},
                !.ops = {"promote", "manual", "dismiss"}, !.desk = {v1, w1}, !.faults = 1],
  \* identities: requests alone, and after an income has made a new employee
  [World EXCEPT !.people = Both, !.ops = {"people", "alias"}],
  [World EXCEPT !.arrives = {i1}, !.feeders = {sync}, !.loops = {sync}, !.ops = {"people"}],
  \* a payment, and one identity request after the other
  [World EXCEPT !.people = Both @@ e3 :> Person(NoPhone, NoPhone, n1), !.ops = {"people", "manual"}, !.desk = {w1}] }
=============================================================================
