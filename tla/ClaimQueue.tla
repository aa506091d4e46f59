----------------------------- MODULE ClaimQueue -----------------------------
(***************************************************************************)
(* What a table that serves as a queue promises, whoever polls it: an item *)
(* is put in once, an item that is claimed has one owner, and only the     *)
(* owner gives it back or finishes it; what is finished stays finished.    *)
(* A worker that dies or gives up loses what it has claimed, and such an   *)
(* item has no owner any more, or all of it is given back in its name.     *)
(***************************************************************************)
CONSTANTS Items, Workers, Nobody

VARIABLES
  status,  \* of an item: "new", "waiting", "claimed" or "finished"
  owner    \* of a claimed item

queue == <<status, owner>>

Init ==
  /\ status = [i \in Items |-> "new"]
  /\ owner = [i \in Items |-> Nobody]

Put(i) ==
  /\ status[i] = "new"
  /\ status' = [status EXCEPT ![i] = "waiting"]
  /\ UNCHANGED owner

ClaimSome(w, S) ==
  /\ \A i \in S : status[i] = "waiting"
  /\ status' = [i \in Items |-> IF i \in S THEN "claimed" ELSE status[i]]
  /\ owner' = [i \in Items |-> IF i \in S THEN w ELSE owner[i]]

\* The owner is done with an item: for now, or for good.
LetGo(w, i, s) ==
  /\ status[i] = "claimed" /\ owner[i] = w
  /\ status' = [status EXCEPT ![i] = s]
  /\ owner' = [owner EXCEPT ![i] = Nobody]

Lose(w) ==
  /\ owner' = [i \in Items |-> IF owner[i] = w THEN Nobody ELSE owner[i]]
  /\ UNCHANGED status

\* All that a worker has claimed waits again.
GiveBack(w) ==
  /\ status' = [i \in Items |-> IF status[i] = "claimed" /\ owner[i] = w THEN "waiting" ELSE status[i]]
  /\ owner' = [i \in Items |-> IF owner[i] = w THEN Nobody ELSE owner[i]]

Next ==
  \/ \E i \in Items : Put(i)
  \/ \E w \in Workers : \/ \E S \in SUBSET Items : ClaimSome(w, S)
                        \/ \E i \in Items, s \in {"waiting", "finished"} : LetGo(w, i, s)
                        \/ Lose(w) \/ GiveBack(w)

Spec == Init /\ [][Next]_queue
=============================================================================
