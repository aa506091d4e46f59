----------------------------- MODULE MCOutbound -----------------------------
(* Instances of Outbound: two processes, two messages through bridge2 and    *)
(* the circuit alerts.                                                       *)
EXTENDS Outbound, TLC

CONSTANTS p1, p2, r1, r2, alert1, alert2, bridge1, bridge2

\* A circuit alert goes through the other bridge.
ViaDef == [r \in Rows |-> IF r = alert2 THEN bridge1 ELSE bridge2]
AlertDef == (bridge1 :> alert1) @@ (bridge2 :> alert2)

World(f, x, c, P, R) == [failures |-> f, raises |-> x, crashes |-> c, running |-> P, arrives |-> R]

MCEnvironments == {
  \* the database and the answers fail, the process dies
  World(TRUE, FALSE, TRUE, {p1}, {r1}), World(TRUE, TRUE, TRUE, {p1}, {r1}),
  \* two processes that die, one of them with sending switched off
  World(FALSE, FALSE, TRUE, {p1, p2}, {r1, r2}), World(FALSE, TRUE, TRUE, {p1, p2}, {r1}),
  \* bridges go down, but what they answer arrives
  World(FALSE, FALSE, FALSE, {p1}, {r1, r2}), World(FALSE, TRUE, FALSE, {p1}, {r1, r2})
}
=============================================================================
