------------------------------ MODULE EscortText ------------------------------
(***************************************************************************)
(* What the escort parsers take from a message: the client's order and the *)
(* admin's completed draft (modules/escort), and the admin's old messages  *)
(* (escort_roster/history_sync).  A text is a sequence of lines; a line is *)
(* the label the patterns look for and the values behind it.  A name is a  *)
(* vessel's or an escort's; a phone is kept only where a step asks for it. *)
(***************************************************************************)
EXTENDS Integers, Sequences, SequencesExt

CONSTANTS
  Vessels,     \* names of mother vessels and lighters
  Escorts,     \* names of escorts
  Phones,
  None,        \* no value, or an empty one
  Signature,   \* the company's name below a slip
  Heading,     \* a whole labelled line taken for a name
  LastDay      \* bound: the days are 1 .. LastDay

\* "MV x", "Mother Vessel: x", "At-O/A x", "Lighter: x", "Lighter Vessel: x",
\* "1. x, PHONE: n", "1. x - n", "x n", and the labelled fields of a slip.
Labels == {"mv", "mother", "oa", "lighter", "lvessel", "numphone", "num", "plain",
           "master", "escort", "escortmob", "date", "sign"}
Line == [label : Labels, name : Vessels \cup Escorts \cup {None, Heading}, phone : Phones \cup {None},
         day : 0..LastDay, shift : {"D", "N", ""}]

With(t, ls) == SelectSeq(t, LAMBDA l : l.label \in ls)
NameIn(s) == IF s = <<>> THEN None ELSE Head(s).name
PhoneIn(s) == LET has == SelectSeq(s, LAMBDA l : l.phone # None)
              IN  IF has = <<>> THEN None ELSE Head(has).phone

\* The lines from each one that starts a block up to the next.
Blocks(t, starts) ==
  LET at == SelectSeq([i \in DOMAIN t |-> i], LAMBDA i : t[i].label \in starts)
  IN  [k \in DOMAIN at |-> SubSeq(t, at[k], IF k < Len(at) THEN at[k + 1] - 1 ELSE Len(t))]

-----------------------------------------------------------------------------
(* The client's order *)

MotherVessel(t) ==
  IF With(t, {"oa"}) # <<>> THEN NameIn(With(t, {"oa"})) ELSE NameIn(With(t, {"mv", "mother"}))

Lighter(n, f) == [lv |-> n, master |-> f]

LabeledLighters(t) ==
  LET named == SelectSeq(Blocks(t, {"lighter", "lvessel"}), LAMBDA b : Head(b).name # None)
  IN  [k \in DOMAIN named |-> Lighter(Head(named[k]).name, PhoneIn(Tail(named[k])))]

LightersOn(s) == [k \in DOMAIN s |-> Lighter(s[k].name, s[k].phone)]
\* The numbered lines with a PHONE label, else the numbered lines, else every
\* line where something other than a label stands before a number.
InlineLighters(t) ==
  LET numphone == SelectSeq(With(t, {"numphone"}), LAMBDA l : l.phone # None)
      num == SelectSeq(With(t, {"num"}), LAMBDA l : l.phone # None)
      any == SelectSeq(t, LAMBDA l : /\ l.label \notin {"master", "escort", "escortmob"}
                                     /\ l.name # None /\ l.phone # None)
  IN  LightersOn(IF numphone # <<>> THEN numphone ELSE IF num # <<>> THEN num ELSE any)

ParseEscortMessage(t) ==
  [mv |-> MotherVessel(t),
   lighters |-> IF LabeledLighters(t) # <<>> THEN LabeledLighters(t) ELSE InlineLighters(t)]

-----------------------------------------------------------------------------
(* The admin's completed draft *)

IsCompletedEscortDraft(t) == /\ NameIn(With(t, {"escort"})) # None
                             /\ PhoneIn(With(t, {"escortmob"})) # None
                             /\ With(t, {"sign"}) # <<>>

DayIn(t, default) == IF With(t, {"date"}) = <<>> THEN default ELSE Head(With(t, {"date"})).day
ShiftIn(t) == IF With(t, {"date"}) = <<>> THEN "" ELSE Head(With(t, {"date"})).shift

ParseCompletedDraft(t, today) ==
  [mv |-> NameIn(With(t, {"mv", "mother"})), lv |-> NameIn(With(t, {"lighter", "lvessel"})),
   master |-> PhoneIn(With(t, {"master"})),
   escort |-> NameIn(With(t, {"escort"})), mobile |-> PhoneIn(With(t, {"escortmob"})),
   date |-> DayIn(t, today), shift |-> ShiftIn(t)]

-----------------------------------------------------------------------------
(* The admin's old messages *)

DetectEscortMessage(t) ==
  \/ With(t, {"escort", "escortmob"}) # <<>>
  \/ With(t, {"mv"}) # <<>> /\ PhoneIn(t) # None

\* The lighter of a block: behind its label, else on a numbered line, else the
\* first line that is none of the known fields.  These patterns do not know the
\* labels "Mother Vessel", "Lighter Vessel" and "PHONE", nor the signature's full form.
BlockLighter(b) ==
  LET num == SelectSeq(With(b, {"num", "numphone"}), LAMBDA l : l.name # None)
      rest == SelectSeq(With(b, {"plain", "oa", "mother", "lvessel", "sign"}),
                        LAMBDA l : l.label # "plain" \/ l.name # None)
  IN  IF NameIn(With(b, {"lighter"})) # None THEN NameIn(With(b, {"lighter"}))
      ELSE IF num # <<>> THEN IF Head(num).label = "num" THEN Head(num).name ELSE Heading
      ELSE IF rest = <<>> THEN None
      ELSE CASE Head(rest).label = "plain" -> Head(rest).name
             [] Head(rest).label = "sign" -> Signature
             [] OTHER -> Heading

\* The master's number: behind its label, else the first number of the block
\* that is not the escort's.
BlockMaster(b) ==
  LET escort == PhoneIn(With(b, {"escortmob"}))
  IN  IF PhoneIn(With(b, {"master"})) # None THEN PhoneIn(With(b, {"master"}))
      ELSE PhoneIn(SelectSeq(b, LAMBDA l : l.phone # escort))

ParseBlock(b, mv) ==
  [mv |-> mv, lv |-> BlockLighter(b), master |-> BlockMaster(b),
   escort |-> NameIn(With(b, {"escort"})), mobile |-> PhoneIn(With(b, {"escortmob"})),
   date |-> DayIn(b, 0), shift |-> IF ShiftIn(b) = "" THEN "D" ELSE ShiftIn(b)]

Useful(recs) == SelectSeq(recs, LAMBDA r : r.lv # None \/ r.escort # None)

\* One record for each "Lighter:" block, under the mother vessel of the last
\* block so far that names one.
ByLighter(t) ==
  LET bs == Blocks(t, {"lighter"})
      Naming(k) == SelectSeq(SubSeq(bs, 1, k), LAMBDA b : With(b, {"mv"}) # <<>>)
      MvOf(k) == NameIn(With(IF Naming(k) # <<>> THEN Last(Naming(k)) ELSE t, {"mv"}))
  IN  Useful([k \in DOMAIN bs |-> ParseBlock(bs[k], MvOf(k))])

\* Several "MV" lines: one without escort data names the mother vessel of the
\* next block, whose own "MV" line is then the lighter.
ByMother(t) ==
  LET bs == Blocks(t, {"mv"})
      Escorted(b) == With(b, {"escort", "escortmob"}) # <<>>
      Pending(k) == k > 1 /\ ~Escorted(bs[k - 1])
      Rec(k) == LET r == ParseBlock(bs[k], IF Pending(k) THEN Head(bs[k - 1]).name ELSE Head(bs[k]).name)
                IN  IF Pending(k) /\ r.lv = None THEN [r EXCEPT !.lv = Head(bs[k]).name] ELSE r
      used == SelectSeq([k \in DOMAIN bs |-> k], LAMBDA k : Escorted(bs[k]))
  IN  Useful([j \in DOMAIN used |-> Rec(used[j])])

ParseMessageToLighters(t) ==
  LET whole == ParseBlock(t, NameIn(With(t, {"mv"})))
      Or(recs) == IF recs # <<>> THEN recs ELSE <<whole>>
  IN  IF ~DetectEscortMessage(t) THEN <<>>
      ELSE IF With(t, {"lighter"}) # <<>> THEN Or(ByLighter(t))
      ELSE IF Len(With(t, {"mv"})) > 1 THEN Or(ByMother(t))
      ELSE Useful(<<whole>>)
=============================================================================
