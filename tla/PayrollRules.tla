---------------------------- MODULE PayrollRules ----------------------------
(***************************************************************************)
(* What the payroll engine makes of one text (fazle_payroll_engine:        *)
(* parser, validation, ai_enhancer and the AI helper of workers).  A text  *)
(* is the record of what the parser's patterns find in it; a confidence is *)
(* in percent.                                                             *)
(***************************************************************************)
EXTENDS Integers, Sequences

CONSTANTS NoPhone, NoName

\* What the patterns find in a text.  amount is NoAmount without digits before
\* "/-" (in a command: without a number in the last word).
NoAmount == -1

Result(type, conf) ==
  [type |-> type, conf |-> conf, amount |-> 0, pay |-> NoPhone, id |-> NoPhone,
   name |-> NoName, method |-> "unknown", entries |-> <<>>]
Other == Result("other", 100)

\* Cash / Income <phone> <name> <amount>: the phone is also the employee id.
ParseCommand(t) ==
  IF t.words < 3 \/ t.phones = <<>> \/ t.amount <= 0 THEN Other
  ELSE [Result(t.command, 100) EXCEPT !.amount = t.amount, !.pay = t.phones[1],
          !.id = t.phones[1], !.name = t.name, !.method = "cash"]

\* A "total due / collected" text is a summary when it has an amount.
IsBalanceSummary(t) == t.summary /\ t.amount # NoAmount

\* Lines NAME=AMOUNT/: two that are not "total=" make a duty list; the lines
\* kept are those whose name does not begin with "total" and whose amount is
\* positive.
IsEscortPayment(t) == Len(SelectSeq(t.lines, LAMBDA l : l.label # "total")) >= 2
EscortEntries(t) == SelectSeq(t.lines, LAMBDA l : l.label = "name" /\ l.amount > 0)
ParseEscortPayment(t) ==
  IF EscortEntries(t) = <<>> THEN Other
  ELSE [Result("escort_payment", 95) EXCEPT !.entries = EscortEntries(t)]

\* The payout phone is the last phone of the text, and the employee id too when
\* there is no ID: prefix.
PayoutPhone(t) == IF t.phones = <<>> THEN NoPhone ELSE t.phones[Len(t.phones)]

Confidence(t) ==
  LET phone == t.phones # <<>>
      method == t.method # "unknown"
  IN  CASE t.name # NoName /\ phone /\ method -> 100
        [] t.name = NoName /\ phone /\ method -> 90
        [] t.name # NoName /\ phone /\ ~method -> 85
        [] OTHER -> IF phone \/ method \/ t.name # NoName THEN 75 ELSE 60

ParsePayment(t) ==
  IF t.amount <= 0 THEN Other
  ELSE [Result("payment", Confidence(t)) EXCEPT !.amount = t.amount,
          !.pay = PayoutPhone(t), !.id = IF t.id # NoPhone THEN t.id ELSE PayoutPhone(t),
          !.name = t.name, !.method = t.method]

\* parse_message
ParseMessage(t) ==
  CASE t.blank -> Other
    [] ~t.blank /\ t.command # "none" -> ParseCommand(t)
    [] ~t.blank /\ t.command = "none" ->
         IF IsBalanceSummary(t) THEN Result("balance_summary", 100)
         ELSE IF IsEscortPayment(t) THEN ParseEscortPayment(t)
         ELSE ParsePayment(t)

-----------------------------------------------------------------------------
\* The model is asked below this confidence, and its answer, when it sees a
\* payment, replaces what the parser found (_ai_data_to_parse_result): no
\* employee id, and whatever amount it names.
AiThreshold == 70
AsksAi(t) == ~t.blank /\ ParseMessage(t).conf < AiThreshold
AiResult(a) ==
  IF a.amount = 0 THEN Result("other", a.conf)
  ELSE [Result("payment", a.conf) EXCEPT !.amount = a.amount, !.pay = a.pay,
          !.name = a.name, !.method = a.method]

\* What _process_pending_batch may take a text for: the parser's word, or one
\* of the model's answers.
Readings(t, answers) ==
  {ParseMessage(t)} \cup (IF AsksAi(t) THEN {AiResult(a) : a \in answers} ELSE {})

-----------------------------------------------------------------------------
\* validate_for_accounting: MESSAGE_RULES, with entries or an amount required.
AmountTypes == {"payment", "cash_command", "income_command"}
AccountingTypes == AmountTypes \cup {"escort_payment"}

ValidForAccounting(r) ==
  /\ r.type = "escort_payment" => r.entries # <<>>
  /\ r.type \in AmountTypes => r.amount > 0
=============================================================================
