--------------------------- MODULE MCQueueArbiter ---------------------------
(* An instance of QueueArbiter: two workers, one or two messages. *)
EXTENDS QueueArbiter, TLC

CONSTANTS w1, w2, m1, m2

World(p, d, s, c, f, A) ==
  [polling |-> p, direct |-> d, stalling |-> s, crashing |-> c, failures |-> f, arrives |-> A]

MCEnvironments == {
  \* two messages for one worker that may die
  World({w1}, {}, {}, {w1}, FALSE, {m1, m2}),
  \* two messages for two workers
  World(Workers, {}, {}, {}, FALSE, {m1, m2}),
  \* two workers that may die
  World(Workers, {}, {}, Workers, TRUE, {m1}),
  \* a worker that calls arbitrated_process, and nodes swept by mistake
  World({w2}, {w1}, Workers, Workers, TRUE, {m1})
}
=============================================================================
