---------------------------- MODULE MCSocialReply ----------------------------
EXTENDS SocialReply, TLC

CONSTANTS e1, e2, e3, e4, t1, t2, x, d1, d2, a1

\* One sender on two platforms, with the same question on each and a third message
\* whose intent has no place in the priorities either.
MCThreadOf == e1 :> t1 @@ e2 :> t1 @@ e3 :> t2 @@ e4 :> t1
MCTargetOf == t1 :> x @@ t2 :> x
MCIntentOf ==
  e1 :> "join_process" @@ e2 :> "salary" @@ e3 :> "join_process" @@ e4 :> "recruitment_follow_up"
MCUnlisted == {"join_process", "recruitment_follow_up"}

AllRecruit == [e \in Events |-> "recruiting"]
NotAll == [AllRecruit EXCEPT ![e2] = "escalation"]

World(f, d, R, A, k) == [failures |-> f, crashes |-> d, running |-> R, arrives |-> A, kind |-> k]

MCEnvironments == {
  \* statements and answers get lost, with one sender on two platforms ...
  World(TRUE, FALSE, {d1}, {e1, e3}, AllRecruit),
  \* ... with a message that is not for the planner ...
  World(TRUE, FALSE, {d1}, {e1, e2}, NotAll),
  \* ... and with pauses and retries through the API
  World(TRUE, FALSE, {d1, a1}, {e1}, AllRecruit),
  \* daemons that may die
  World(FALSE, TRUE, {d1, d2}, {e1}, AllRecruit),
  World(FALSE, TRUE, {d1}, {e1, e2}, AllRecruit),
  \* nothing goes wrong, with one daemon ...
  World(FALSE, FALSE, {d1}, {e1, e2, e3}, NotAll),
  World(FALSE, FALSE, {d1}, {e1, e4}, AllRecruit),
  \* ... and with two
  World(FALSE, FALSE, {d1, d2}, {e1, e2}, AllRecruit)
}
=============================================================================
