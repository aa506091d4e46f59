----------------------------- MODULE MCRuntime -----------------------------
(* An instance of Runtime: tasks a1, a2 in one process and b1 in another, one *)
(* dashboard tab, two notices, two nodes and two overlapping check cycles.    *)
EXTENDS Runtime, TLC

CONSTANTS a1, a2, b1, pa, pb, n1, n2, m1, x1, x2, r1, c1, loop, endpoint, health_loop

TwoProcs == (a1 :> pa) @@ (a2 :> pa) @@ (b1 :> pb)

\* A configuration names what differs from this one.
Quiet == [part |-> "nodes", tasks |-> {}, writes |-> 2, redis |-> TRUE, monitor |-> FALSE,
          notices |-> {}, preferred |-> {"bridge2"}, probers |-> {}, faulty |-> {}, deaths |-> 1]

Config(changes) == changes @@ Quiet

MCConfigurations == {
  \* two writers of two processes
  Config([part |-> "writes", tasks |-> {a1, b1}]),
  \* two writers of one process
  Config([part |-> "writes", tasks |-> {a1, a2}]),
  \* a tab that follows a write of its own process and the monitor
  Config([part |-> "tabs", tasks |-> {a1}, writes |-> 1, monitor |-> TRUE]),
  \* a tab that follows two writes: the bump of one may fail
  Config([part |-> "tabs", tasks |-> {a1}]),
  \* a tab that follows a write of another process with Redis down at first
  Config([part |-> "tabs", tasks |-> {b1}, writes |-> 1, redis |-> FALSE]),
  \* one notice in the retry queue and two probes that may both drain it
  Config([part |-> "bridges", notices |-> {n1}, probers |-> {health_loop, endpoint}, faulty |-> {"bridge2"}]),
  \* two notices in the retry queue
  Config([part |-> "bridges", notices |-> {n1, n2}]),
  \* both bridges fail
  Config([part |-> "bridges", notices |-> {n1}, preferred |-> Bridge, probers |-> {health_loop}, faulty |-> Bridge]),
  \* messages that both bridges deliver
  Config([part |-> "bridges"]),
  \* overlapping check cycles
  Config([part |-> "healing", probers |-> {loop, endpoint}, deaths |-> 2]),
  \* the loop and the health probes of a failing bridge
  Config([part |-> "healing", probers |-> {loop, health_loop}, faulty |-> {"bridge2"}]),
  \* the node registry and the rows its nodes claim
  Quiet
}
=============================================================================
