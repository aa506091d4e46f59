--------------------------- MODULE MCEscortOrders ---------------------------
(* Two mother vessels, three lighters (l1 and l2 alike to 80 percent), the   *)
(* formats of an order and of the admin's messages, and the environments.    *)
EXTENDS EscortOrders, TLC

CONSTANTS m1, m2, l1, l2, l3, e1, e2, f1, f2, g1, g2, c1, w1, w2

MCLikeness == [q \in {{a, b} : a, b \in {m1, m2, l1, l2, l3, Heading, Signature}} |-> IF q = {l1, l2} THEN 80 ELSE 10]

L(label, name) == [label |-> label, name |-> name, phone |-> None, day |-> 0, shift |-> ""]
P(label, name, phone) == [L(label, name) EXCEPT !.phone = phone]
D(day, shift) == [L("date", None) EXCEPT !.day = day, !.shift = shift]

Labelled == <<L("mv", m1), L("lighter", l1), P("master", None, f1)>>
Numbered == <<L("mv", m1), P("num", l1, f1), P("num", l2, f2)>>
Phoned == <<L("mother", m1), P("numphone", l1, f1)>>
Bare == <<L("mv", m1), L("oa", m2), P("plain", l1, f1), P("master", None, f2)>>
NoLighter == <<L("mv", m1)>>
NoMother == <<P("plain", l1, f1)>>
Nothing == <<L("date", None)>>
Junk == <<L("mv", m1), P("plain", Heading, f1)>>

Completed(m, l, e, g, d) == <<L("mother", m), L("lvessel", l), P("master", None, f1), L("escort", e),
                              P("escortmob", None, g), D(d, "N"), L("sign", None)>>
Unsigned == <<L("mother", m1), L("escort", e1)>>
\* What the admin sent: one lighter, several under one "MV" line, several "MV" lines.
One(m, l, d) == <<L("mv", m), P("plain", l, f1), L("escort", e1), P("escortmob", None, g1), D(d, "")>>
Several == <<L("mv", m1), L("lighter", l1), L("escort", e1), D(1, "N"), L("mv", m2), L("lighter", l3), L("escort", e2)>>
Pairs == <<L("mv", m1), L("mv", l1), L("escort", e1), L("mv", m2), L("escort", e2), L("sign", None)>>

Draft(m, l) == [Row(m, l, "draft") EXCEPT !.client = c1]
World == [ops |-> {}, overlap |-> FALSE, apart |-> {}, failures |-> FALSE, orders |-> {},
          completions |-> {}, sent |-> <<>>, edits |-> {}, entries |-> {}, programs |-> <<>>, listed |-> {}]
PatchOf(start, end, ss, es, conv) == [start |-> start, end |-> end, ss |-> ss, es |-> es, conv |-> conv]

MCEnvironments == {
  \* orders that race each other and the answers of the admin
  [World EXCEPT !.ops = {"order", "complete"}, !.overlap = TRUE, !.apart = {"complete", "delete"}, !.failures = TRUE,
     !.orders = {Labelled, Numbered, Phoned, Bare}, !.completions = {Completed(m1, l1, e1, g1, 2)}],
  [World EXCEPT !.ops = {"order", "complete", "junk", "empty"}, !.apart = {"complete", "delete"},
     !.orders = {NoLighter, NoMother, Nothing, Junk, Labelled},
     !.completions = {Completed(m1, l2, e1, g1, 2), Completed(m2, l1, e1, g1, 1), Unsigned}],
  \* what leaves draft while a deletion is at hand
  [World EXCEPT !.ops = {"complete", "reconcile", "confirm", "assign", "delete"}, !.overlap = TRUE,
     !.completions = {Completed(m1, l1, e1, g1, 2)},
     !.programs = <<Draft(m1, l1), Draft(m1, l2)>>, !.listed = {1, 2}],
  [World EXCEPT !.ops = {"junk", "empty", "assign", "cancel", "order"}, !.overlap = TRUE, !.orders = {Labelled},
     !.programs = <<Draft(m1, Heading), Draft(None, None)>>, !.listed = {1, 2}],
  \* backfills run again
  [World EXCEPT !.ops = {"backfill", "cancel", "cleanup", "syncall"}, !.apart = {"backfill"},
     !.sent = <<One(m1, l1, 2), Several>>],
  [World EXCEPT !.ops = {"backfill", "complete", "delete"}, !.overlap = TRUE, !.apart = {"backfill"},
     !.sent = <<Pairs, One(m1, l1, 4)>>, !.completions = {Completed(m1, l1, e1, g1, 4)},
     !.programs = <<Draft(m1, l1)>>, !.listed = {1}],
  [World EXCEPT !.ops = {"history", "order", "rebuild"}, !.orders = {Labelled},
     !.sent = <<One(m1, l2, 2), <<L("mv", m1), L("escort", e2), D(1, "")>> >>],
  \* the pay of an entry: edits of a duty that ends by day, legacy payments, entries made by hand
  [World EXCEPT !.ops = {"sync", "close", "edit", "expire"}, !.overlap = TRUE, !.apart = {"edit"},
     !.edits = {PatchOf(0, 1, "", "", -1), PatchOf(2, 4, "N", "D", 3), PatchOf(0, 0, "N", "", -1), PatchOf(0, 0, "", "D", 3)},
     !.programs = <<[Draft(m1, l1) EXCEPT !.status = "Assigned"]>>, !.listed = {1}],
  [World EXCEPT !.ops = {"sync", "close", "edit"}, !.overlap = TRUE, !.apart = {"edit"},
     !.edits = {PatchOf(1, 0, "", "", -1), PatchOf(0, 3, "", "D", -1)},
     !.programs = <<[Draft(m1, l1) EXCEPT !.legacy = 7]>>, !.listed = {1}],
  [World EXCEPT !.ops = {"create", "edit", "syncall"}, !.overlap = TRUE, !.apart = {"edit"},
     !.entries = {PatchOf(0, 3, "", "D", -1), PatchOf(2, 2, "N", "", 3)},
     !.edits = {PatchOf(3, 0, "N", "", -1), PatchOf(0, 0, "D", "D", -1)},
     !.programs = <<[Draft(m1, l1) EXCEPT !.status = "Completed", !.end = 3, !.es = "D", !.legacy = 7]>>],
  [World EXCEPT !.ops = {"sync", "syncall", "close", "create", "expire"}, !.overlap = TRUE, !.failures = TRUE,
     !.entries = {PatchOf(1, 2, "N", "D", -1)},
     !.programs = <<[Draft(m1, l1) EXCEPT !.status = "confirmed", !.shift = "N", !.legacy = 7]>>],
  \* an entry whose program goes
  [World EXCEPT !.ops = {"sync", "edit", "delete"}, !.overlap = TRUE, !.failures = TRUE,
     !.edits = {PatchOf(0, 0, "", "", 3), PatchOf(0, 4, "", "D", -1)}, !.programs = <<Draft(m1, l1)>>, !.listed = {1}] }
=============================================================================
