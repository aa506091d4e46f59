-------------------------- MODULE PayrollEngineProofs --------------------------
(***************************************************************************)
(* What the payroll engine guarantees for every set of messages, employees,*)
(* reviewers and clerks.                                                   *)
(*                                                                         *)
(* Types and the bearings of every task hold always (TypeOK, AtHand).  Four*)
(* independent arguments stand on them.  MoneyVisible: a row becomes final *)
(* only in a statement that comes after its transaction or its review row, *)
(* or after the one failure that env.faults allows was used up; failures,  *)
(* crashes and requeues are in it.  BookedOnce: without failures and       *)
(* requeues a row goes through the pipeline once, so it is either booked   *)
(* or put before the reviewers, and the one reviewer who has a row open    *)
(* keeps it from being booked twice.  A third is LedgerAgrees: transactions*)
(* fall due as they enter and are paid up as they reach the ledger.        *)
(*                                                                         *)
(* PaidIsListed stands on the employees: pointers lead to rows on record   *)
(* (PeopleInv), payments are of such rows (PayeesInv), and while identity  *)
(* requests come one at a time the pointers go down a rank (HomeInv).      *)
(*                                                                         *)
(* Reconciles stands on BookedOnce: a message that is through was booked   *)
(* once, or put up once, and with the amount the parser read (ReadInv); so *)
(* the sums agree message by message.                                      *)
(***************************************************************************)
EXTENDS PayrollReports, SequenceTheorems, FiniteSetTheorems, NaturalsInduction, WellFoundedInduction, TLAPS

-----------------------------------------------------------------------------
(* Types *)

Statuses == {"none", "pending", "parsing", "parsed", "accounting", "done", "skipped", "failed"}
ReadingsOf(m) == Readings(TextOf[m], Answers)
AllReadings == UNION {ReadingsOf(m) : m \in Rows}
Methods == {"unknown", "cash"} \cup {TextOf[m].method : m \in Rows} \cup {a.method : a \in Answers}
Transactions ==
  [msg : Rows \cup {NoMsg}, emp : Emps \cup {NoEmp}, amount : Int, method : Methods,
   period : Periods, category : Categories, reversal : BOOLEAN]
Slips == [amount : Int, method : Methods, dated : BOOLEAN]
ReviewRows ==
  [msg : Rows, amount : Int, method : Methods, dated : BOOLEAN,
   state : {"pending", "promoted", "dismissed"}, booked : BOOLEAN]

\* Where a task may be.
Booking == {"check", "insert", "ledger", "booked"}
ParserPlaces == {"idle", "take", "read", "unmatched", "mark", "except", "exmark"}
BookerPlaces ==
  Booking \cup {"idle", "take", "validate", "lookup", "match", "income", "unmatched", "mark",
                "except", "exmark"}
ReviewerPlaces == Booking \cup {"idle", "dismiss"}
ClerkPlaces == Booking \cup {"idle"}
Places == ParserPlaces \cup BookerPlaces \cup ReviewerPlaces
PlacesOf(a) ==
  IF a = "parser" THEN ParserPlaces ELSE IF a = "booker" THEN BookerPlaces
  ELSE IF a \in Reviewers THEN ReviewerPlaces ELSE ClerkPlaces

TypeOK ==
  /\ status \in [Rows -> Statuses] /\ attempts \in [Rows -> Nat]
  /\ results \in [Rows -> Seq(AllReadings)]
  /\ review \in Seq(ReviewRows)
  /\ txns \subseteq Transactions /\ incomes \subseteq Transactions
  /\ ledger \in [Emps -> [Accounts -> Int]]
  /\ batch \in [Actors -> SUBSET (Rows \X Nat)]
  /\ cur \in [Actors -> (Rows \cup {NoRow}) \X Nat]
  /\ txn \in [Actors -> Transactions] /\ slip \in [Actors -> Slips]
  /\ nxt \in [Actors -> Statuses]
  /\ pc \in [Actors -> Places]
  /\ month \in Periods /\ requeues \in Nat /\ faults \in Nat /\ env \in Environments

\* A stored result is a reading of its message's text.
ResultsRead == \A m \in Rows : \A k \in DOMAIN results[m] : results[m][k] \in ReadingsOf(m)

\* r names a result that the booker takes.
Takeable(r) == r[2] \in DOMAIN results[r[1]] /\ results[r[1]][r[2]].type \in AccountingTypes

\* A worker past "take" has a message, and the booker a result of it; who books
\* has an employee.  The booker's transaction is for its message, a reviewer's
\* for the message of the row that is open; a clerk's names no message or is a
\* reversal.
AtHandOf(a) ==
  /\ pc[a] \in PlacesOf(a)
  /\ a \in Workers /\ pc[a] \notin {"idle", "take"} => Msg(a) \in Rows
  /\ pc[a] \in Booking \cup {"income"} => txn[a].emp \in Emps
  /\ a = "booker" =>
       /\ \A r \in batch[a] : Takeable(r)
       /\ pc[a] \notin {"idle", "take"} => Takeable(cur[a])
       /\ pc[a] \in Booking \cup {"income"} => txn[a].msg = Msg(a) /\ ~txn[a].reversal
  /\ a \in Reviewers =>
       /\ pc[a] \in Booking \cup {"dismiss"} => cur[a][2] \in DOMAIN review
       /\ pc[a] \in Booking => txn[a].msg = review[cur[a][2]].msg /\ ~txn[a].reversal
  /\ a \in Clerks => (pc[a] \in Booking => txn[a].msg = NoMsg \/ txn[a].reversal)

AtHand ==
  /\ ResultsRead
  /\ \A t \in txns : t.emp \in Emps
  /\ \A a \in Actors : AtHandOf(a)

-----------------------------------------------------------------------------
(* Money in sight *)

\* A message of the owner that some reading finds a bookable amount in.
Counts(m) ==
  /\ m \in FromMe /\ m \in Trusted
  /\ \E r \in ReadingsOf(m) : ValidForAccounting(r) /\ r.type \in AmountTypes

InSight(m) ==
  \/ \E t \in txns \cup incomes : t.msg = m
  \/ \E i \in DOMAIN review : review[i].msg = m

\* What is in sight when a worker is about to make a row final; a statement that
\* failed has used up the one failure.
SightOf(a) ==
  /\ pc[a] = "mark" /\ nxt[a] \in {"done", "skipped", "failed"} /\ Counts(Msg(a)) => InSight(Msg(a))
  /\ pc[a] \in {"ledger", "booked", "exmark"} /\ Counts(Msg(a)) => InSight(Msg(a))
  /\ pc[a] = "except" /\ Counts(Msg(a)) => InSight(Msg(a)) \/ faults >= env.faults

SettledInSight == \A m \in Rows : Settled(m) /\ Counts(m) => InSight(m)
SightInv == env.faults <= 1 => SettledInSight /\ \A a \in Workers : SightOf(a)

-----------------------------------------------------------------------------
(* Booked once *)

\* Nothing fails, nobody requeues, and one reviewer at most is at the desk.
Quiet == env.faults = 0 /\ ~Allowed("requeue") /\ Cardinality(Reviewers \cap env.desk) <= 1

PaidFor(m) == {t \in txns : t.msg = m /\ ~t.reversal}
RowsOf(m) == {i \in DOMAIN review : review[i].msg = m}
Untouched(m) == PaidFor(m) = {} /\ RowsOf(m) = {}

\* A row is read once and untouched until it is booked.
RowsInv ==
  \A m \in Rows :
    /\ status[m] \in {"none", "pending"} => Untouched(m) /\ results[m] = <<>>
    /\ status[m] = "parsed" => Untouched(m)
    /\ Len(results[m]) <= 1

\* The parser holds the row it marked, and the ones of its batch still wait.
ParserInv ==
  /\ pc["parser"] \notin {"except", "exmark"}
  /\ \A r \in batch["parser"] : r[2] = 0 /\ status[r[1]] = "pending"
  /\ pc["parser"] \in {"read", "unmatched", "mark"} => status[Msg("parser")] = "parsing"
  /\ pc["parser"] = "read" => results[Msg("parser")] = <<>>
  /\ pc["parser"] \in {"read", "unmatched"} => Untouched(Msg("parser"))
  /\ pc["parser"] = "unmatched" => nxt["parser"] = "skipped"
  /\ pc["parser"] = "mark" => \/ nxt["parser"] = "skipped"
                              \/ nxt["parser"] = "parsed" /\ Untouched(Msg("parser"))

\* So does the booker, which neither books nor puts up a row twice.
BookerInv ==
  /\ pc["booker"] \notin {"except", "exmark"}
  /\ \A r \in batch["booker"] : r[2] = 1 /\ status[r[1]] = "parsed"
  /\ pc["booker"] \notin {"idle", "take"} => status[Msg("booker")] = "accounting"
  /\ pc["booker"] \in {"unmatched", "mark"} => nxt["booker"] \in {"done", "skipped", "failed"}
  /\ pc["booker"] \in {"validate", "lookup", "match", "income", "unmatched", "check", "insert"} =>
       Untouched(Msg("booker"))

PipelineInv == faults = 0 /\ RowsInv /\ ParserInv /\ BookerInv

AtTheDesk == \A a \in Reviewers : pc[a] # "idle" => a \in env.desk
PaidOnce == \A m \in Rows : \A t, u \in PaidFor(m) : t = u
OneRowEach == \A i, j \in DOMAIN review : review[i].msg = review[j].msg => i = j

\* A row whose message is paid says so, or is about to.
PaidShows ==
  \A i \in DOMAIN review :
    PaidFor(review[i].msg) # {} =>
      \/ review[i].booked
      \/ \E a \in Reviewers : pc[a] \in {"ledger", "booked"} /\ cur[a][2] = i

\* Nobody has paid what a reviewer is about to book.
PromotionIsFirst ==
  \A a \in Reviewers : pc[a] \in {"check", "insert"} =>
    ~review[cur[a][2]].booked /\ PaidFor(review[cur[a][2]].msg) = {}

DeskInv == AtTheDesk /\ PaidOnce /\ OneRowEach /\ PaidShows /\ PromotionIsFirst
OnceInv == Quiet => PipelineInv /\ DeskInv

-----------------------------------------------------------------------------
(* The ledger agrees *)

\* What the ledger is owed, and what the transactions come to.
DueTo(e, p) == [a \in Actors |-> Due(a, e, p)]
TxnsOf(e, p) == {t \in txns : t.emp = e /\ Account(t) = p}
BookedFor(e, p) == [t \in TxnsOf(e, p) |-> Signed(t)]
AgreesAt(e, p) == ledger[e][p] + SumFunction(DueTo(e, p)) = SumFunction(BookedFor(e, p))
AgreeInv ==
  /\ IsFiniteSet(txns)
  /\ env.faults = 0 => faults = 0 /\ \A e \in Emps, p \in Accounts : AgreesAt(e, p)

-----------------------------------------------------------------------------
(* The steps of the engine *)

\* A feeder, an identity request or the turn of the month: of the engine's own
\* variables only the status of a row that had none changes.
Elsewhere ==
  /\ UNCHANGED <<bookVars, taskVars, requeues, env>>
  /\ month' \in {month, 2}
  /\ \/ status' = status
     \/ \E m \in Rows : status[m] = "none" /\ status' = [status EXCEPT ![m] = "pending"]
  /\ faults' = faults \/ (faults < env.faults /\ faults' = faults + 1)

\* A step of a worker, but for what follows a failure.
WorkerStep(a) ==
  \/ \E r \in batch[a] : Take(a, r)
  \/ BatchDone(a) \/ StoreUnmatched(a) \/ MarkNext(a) \/ StoreFailed(a) \/ MarkFailed(a)
  \/ BatchFails(a)

\* A step of a reviewer that is not one of create_transaction.
ReviewStep(a) ==
  \/ \E i \in DOMAIN review, e \in Emps, o \in Amounts \cup {0}, c \in Kinds : PromoteRead(a, i, e, o, c)
  \/ Allowed("dismiss") /\ \E i \in DOMAIN review : DismissRead(a, i)
  \/ PromoteWrite(a) \/ DismissWrite(a)

ActorStep(a) ==
  \/ a = "parser" /\ (PollPending \/ ReadText)
  \/ a = "booker" /\ (PollParsed \/ Dispatch \/ CashLookup \/ MatchEmployee \/ BookIncome)
  \/ a \in Workers /\ WorkerStep(a)
  \/ a # "parser" /\ TxnStep(a)
  \/ StatementFails(a)
  \/ a \in Reviewers /\ ReviewStep(a) /\ (pc[a] = "idle" => a \in env.desk)
  \/ a \in Clerks /\ \/ Allowed("manual") /\ \E e \in Emps, n \in Amounts, c \in Kinds : ManualPayment(a, e, n, c)
                     \/ Allowed("reverse") /\ \E t \in txns : ReverseTransaction(a, t)

Requeued == Allowed("requeue") /\ \E m \in Rows, reset \in BOOLEAN : Requeue(m, reset)

EngineStep == Elsewhere \/ (\E a \in Actors : ActorStep(a)) \/ Requeued \/ Crash

\* A feeder changes a status only from none to pending.
LEMMA FeedsPend ==
  ASSUME NEW f, FeedStep(f), status \in [Rows -> Statuses]
  PROVE  \/ status' = status
         \/ \E m \in Rows : status[m] = "none" /\ status' = [status EXCEPT ![m] = "pending"]
<1>1. CASE InsertState(f)
  <2> DEFINE h == Head(feed[f])
  <2>1. CASE h \in Rows
    BY <1>1, <2>1 DEF InsertState
  <2>2. CASE h \notin Rows
    BY <1>1, <2>2 DEF InsertState
  <2> QED
    BY <2>1, <2>2
<1>2. ASSUME NEW m \in Rows, Post(f, m) PROVE status' = status
  BY <1>2 DEF Post
<1>3. CASE ~InsertState(f)
  BY <1>2, <1>3 DEF FeedStep, StartSync, FetchRows, MoveCheckpoint, StartScan, RecordRun,
                    PostDone, InsertMessage
<1> QED
  BY <1>1, <1>3

\* Every step of the specification is one of EngineStep.
LEMMA StepsCovered ==
  ASSUME [Next]_vars, TypeOK
  PROVE  EngineStep
<1> USE DEF Archived, Peopled, peopleVars, bookVars, taskVars, histVars
<1>0. Elsewhere => EngineStep
  BY DEF EngineStep
<1>00. \A a \in Actors : ActorStep(a) => EngineStep
  BY DEF EngineStep
<1>1. ASSUME NEW m \in env.arrives, BridgeStores(m), Archived, UNCHANGED faults PROVE Elsewhere
  BY <1>1 DEF BridgeStores, Elsewhere
<1>2. ASSUME NEW f \in Feeders, FeedStep(f), Archived, UNCHANGED faults PROVE Elsewhere
  BY <1>2, FeedsPend DEF Elsewhere, TypeOK
<1>3. ASSUME NEW f \in Feeders, FeedFails(f), Archived, faults < env.faults, faults' = faults + 1
      PROVE  Elsewhere
  BY <1>3 DEF FeedFails, Elsewhere
<1>4. ASSUME UNCHANGED archiveVars, UNCHANGED <<bookVars, taskVars, histVars>> PROVE Elsewhere
  BY <1>4 DEF Elsewhere, archiveVars
<1>5. CASE NewMonth
  BY <1>5, <1>0, SMT DEF NewMonth, Elsewhere, archiveVars
<1>6. CASE UNCHANGED vars
  <2>1. UNCHANGED archiveVars /\ UNCHANGED <<bookVars, taskVars, histVars>>
    BY <1>6, SMT DEF vars
  <2> QED
    BY <2>1, <1>4, <1>0
<1>7. CASE ParserStep
  BY <1>7, <1>00 DEF ParserStep, ActorStep, WorkerStep, Workers, Actors
<1>8. CASE BookerStep
  BY <1>8, <1>00 DEF BookerStep, ActorStep, WorkerStep, Workers, Actors
<1>9. ASSUME NEW a \in Workers, StatementFails(a) \/ BatchFails(a) PROVE EngineStep
  BY <1>9, <1>00 DEF ActorStep, WorkerStep, Actors, Workers
<1>10. ASSUME NEW a \in Reviewers \cap env.desk, NEW i \in DOMAIN review,
             \/ \E e \in Emps, o \in Amounts \cup {0}, c \in Kinds : PromoteRead(a, i, e, o, c)
             \/ Allowed("dismiss") /\ DismissRead(a, i)
      PROVE  EngineStep
  BY <1>10, <1>00 DEF ActorStep, ReviewStep, Actors
<1>11. ASSUME NEW a \in Reviewers, TxnStep(a) \/ PromoteWrite(a) \/ DismissWrite(a) \/ StatementFails(a)
       PROVE  EngineStep
  <2>1. PromoteWrite(a) \/ DismissWrite(a) => pc[a] # "idle"
    BY DEF PromoteWrite, DismissWrite
  <2> QED
    BY <1>11, <2>1, <1>00, ActorsAssumption DEF ActorStep, ReviewStep, Actors
<1>12. ASSUME NEW a \in Clerks,
              \/ Allowed("manual") /\ \E e \in Emps, n \in Amounts, c \in Kinds : ManualPayment(a, e, n, c)
              \/ Allowed("reverse") /\ \E t \in txns : ReverseTransaction(a, t)
              \/ TxnStep(a) \/ StatementFails(a)
       PROVE  EngineStep
  BY <1>12, <1>00, ActorsAssumption DEF ActorStep, Actors
<1>13. CASE Requeued \/ Crash
  BY <1>13 DEF EngineStep
<1>14. CASE Next
  BY <1>14, <1>1, <1>2, <1>3, <1>4, <1>5, <1>7, <1>8, <1>9, <1>10, <1>11, <1>12, <1>13, <1>0
     DEF Next, Requeued
<1> QED
  BY <1>6, <1>14

-----------------------------------------------------------------------------
(* What a text may be read as *)

\* Every reading is of a known type, with a number and a method.
LEMMA ReadingTypes ==
  ASSUME NEW m \in Rows, NEW r \in ReadingsOf(m)
  PROVE  /\ r.amount \in Int /\ r.method \in Methods
         /\ r.type \in AccountingTypes \cup {"other", "balance_summary"}
<1> DEFINE t == TextOf[m]
<1> USE TextsAssumption
<1> USE DEF AccountingTypes, AmountTypes, Other, Result, Methods
<1>1. t.command # "none" => t.command \in {"cash_command", "income_command"}
  OBVIOUS
<1>2. t.command # "none" =>
        /\ ParseCommand(t).amount \in Int /\ ParseCommand(t).method \in Methods
        /\ ParseCommand(t).type \in AccountingTypes \cup {"other", "balance_summary"}
  BY <1>1 DEF ParseCommand
<1>3. /\ ParseEscortPayment(t).amount \in Int /\ ParseEscortPayment(t).method \in Methods
      /\ ParseEscortPayment(t).type \in AccountingTypes \cup {"other", "balance_summary"}
  BY DEF ParseEscortPayment
<1>4. /\ ParsePayment(t).amount \in Int /\ ParsePayment(t).method \in Methods
      /\ ParsePayment(t).type \in AccountingTypes \cup {"other", "balance_summary"}
  BY DEF ParsePayment
<1>5. \A a \in Answers :
        /\ AiResult(a).amount \in Int /\ AiResult(a).method \in Methods
        /\ AiResult(a).type \in AccountingTypes \cup {"other", "balance_summary"}
  BY DEF AiResult
<1>6. /\ ParseMessage(t).amount \in Int /\ ParseMessage(t).method \in Methods
      /\ ParseMessage(t).type \in AccountingTypes \cup {"other", "balance_summary"}
  BY <1>2, <1>3, <1>4 DEF ParseMessage
<1> QED
  BY <1>5, <1>6 DEF ReadingsOf, Readings

\* A text that is a duty list is nothing else: the model is not asked.
LEMMA DutyListIsNoAmount ==
  ASSUME NEW m \in Rows, NEW r \in ReadingsOf(m), r.type = "escort_payment"
  PROVE  ~Counts(m)
<1> DEFINE t == TextOf[m]
<1> USE TextsAssumption
<1> USE DEF Other, Result
<1>1. \A a \in Answers : AiResult(a).type # "escort_payment"
  BY DEF AiResult
<1>2. ParsePayment(t).type # "escort_payment" /\ (t.command # "none" => ParseCommand(t).type # "escort_payment")
  BY DEF ParsePayment, ParseCommand
<1>3. r = ParseMessage(t) /\ r.type = "escort_payment"
  BY <1>1 DEF ReadingsOf, Readings
<1>4. r = ParseEscortPayment(t)
  BY <1>2, <1>3 DEF ParseMessage
<1>5. r.conf = 95
  BY <1>4, <1>3 DEF ParseEscortPayment
<1>6. ~AsksAi(t)
  BY <1>3, <1>5 DEF AsksAi, AiThreshold
<1>7. \A q \in ReadingsOf(m) : q = r
  BY <1>3, <1>6 DEF ReadingsOf, Readings
<1> QED
  BY <1>3, <1>7 DEF Counts, AmountTypes

-----------------------------------------------------------------------------
(* Type correctness *)

\* The actors are told apart.
LEMMA ActorFacts ==
  /\ "parser" \in Actors /\ "booker" \in Actors /\ Workers \subseteq Actors
  /\ Reviewers \subseteq Actors /\ Clerks \subseteq Actors
  /\ "parser" # "booker" /\ "parser" \notin Reviewers \cup Clerks /\ "booker" \notin Reviewers \cup Clerks
  /\ \A a \in Reviewers : a \notin Clerks
  /\ \A a \in Actors : a = "parser" \/ a = "booker" \/ a \in Reviewers \/ a \in Clerks
BY ActorsAssumption DEF Actors, Workers

Typed == TypeOK /\ AtHand

\* What the booker has parsed is a reading of its message.
LEMMA ParsedFacts ==
  ASSUME Typed, pc["booker"] \notin {"idle", "take"}
  PROVE  /\ Msg("booker") \in Rows /\ Parsed("booker") \in ReadingsOf(Msg("booker"))
         /\ Parsed("booker").type \in AccountingTypes
         /\ Parsed("booker").amount \in Int /\ Parsed("booker").method \in Methods
<1>1. Msg("booker") \in Rows /\ Parsed("booker") \in ReadingsOf(Msg("booker"))
      /\ Parsed("booker").type \in AccountingTypes
  BY DEF Typed, AtHand, AtHandOf, ResultsRead, Takeable, Workers, Actors, Parsed, Msg
<1> QED
  BY <1>1, ReadingTypes

\* The transaction of the message at hand is one.
LEMMA PaymentTyped ==
  ASSUME Typed, pc["booker"] \notin {"idle", "take"}, NEW e \in Emps
  PROVE  Payment(Msg("booker"), Parsed("booker"), e) \in Transactions
BY ParsedFacts DEF Payment, Transactions, Periods, Categories

\* What a worker puts before the reviewers is a row of theirs.
LEMMA RowAtHandTyped ==
  ASSUME Typed, NEW a \in Workers, pc[a] \notin {"idle", "take"}
  PROVE  /\ ReviewRow(Msg(a), slip[a]) \in ReviewRows
         /\ ReviewRow(Msg(a), Detected(a)) \in ReviewRows
<1>1. Msg(a) \in Rows /\ slip[a] \in Slips
  BY ActorFacts DEF Typed, AtHand, AtHandOf, TypeOK
<1>2. a = "booker" => Parsed(a).amount \in Int /\ Parsed(a).method \in Methods
  BY ParsedFacts
<1>3. Detected(a) \in Slips
  <2>1. NoSlip \in Slips
    BY DEF NoSlip, Slips, Methods
  <2>2. a = "booker" => [NoSlip EXCEPT !.amount = Parsed(a).amount, !.method = Parsed(a).method] \in Slips
    BY <1>2 DEF NoSlip, Slips
  <2> QED
    BY <2>1, <2>2 DEF Detected
<1> QED
  BY <1>1, <1>3 DEF ReviewRow, ReviewRows, Slips

\* A row stays one when it is dismissed or promoted.
LEMMA ReviewRowKept ==
  ASSUME NEW u \in ReviewRows
  PROVE  /\ [u EXCEPT !.state = "dismissed"] \in ReviewRows
         /\ [u EXCEPT !.state = "promoted", !.booked = TRUE] \in ReviewRows
BY DEF ReviewRows

\* A reference that is taken is that of a transaction for the same message.
LEMMA TakenFacts ==
  ASSUME NEW t, Taken(t)
  PROVE  \E u \in txns : u.msg = t.msg /\ u.emp = t.emp /\ u.amount = t.amount /\ u.reversal = t.reversal
BY DEF Taken, Ref

LEMMA UntakenIsNew ==
  ASSUME NEW t, ~Taken(t)
  PROVE  t \notin txns
BY DEF Taken

\* A transaction stays one when it is reversed.
LEMMA ReversalTyped ==
  ASSUME NEW t \in Transactions
  PROVE  [t EXCEPT !.reversal = TRUE] \in Transactions
BY DEF Transactions

\* What a transaction adds to the ledger.
LEMMA SignedTyped ==
  ASSUME NEW t \in Transactions
  PROVE  Signed(t) \in Int /\ Account(t) \in Accounts
<1>1. t.amount \in Int /\ t.period \in Periods
  BY DEF Transactions
<1> QED
  BY <1>1 DEF Signed, Account, Accounts, Column, Columns

\* Every step keeps the types.
LEMMA TypeStep ==
  ASSUME Typed, EngineStep
  PROVE  TypeOK'
<1> USE ActorFacts
<1> USE DEF TypeOK, Jump
<1>0. TypeOK /\ \A a \in Actors : AtHandOf(a)
  BY DEF Typed, AtHand
<1>p. /\ "idle" \in Places /\ "take" \in Places /\ "read" \in Places /\ "unmatched" \in Places
      /\ "mark" \in Places /\ "except" \in Places /\ "exmark" \in Places /\ "validate" \in Places
      /\ "lookup" \in Places /\ "match" \in Places /\ "income" \in Places /\ "check" \in Places
      /\ "insert" \in Places /\ "ledger" \in Places /\ "booked" \in Places /\ "dismiss" \in Places
  BY DEF Places, ParserPlaces, BookerPlaces, ReviewerPlaces, Booking
<1>s. /\ "none" \in Statuses /\ "pending" \in Statuses /\ "parsing" \in Statuses
      /\ "parsed" \in Statuses /\ "accounting" \in Statuses /\ "done" \in Statuses
      /\ "skipped" \in Statuses /\ "failed" \in Statuses
  BY DEF Statuses
<1>00. NoSlip \in Slips /\ NoTxn \in Transactions /\ <<NoRow, 0>> \in (Rows \cup {NoRow}) \X Nat
  BY DEF NoSlip, NoTxn, Slips, Transactions, NoMsg, Methods, Periods, Categories
<1> USE <1>0, <1>00, <1>p, <1>s
<1>1. CASE Elsewhere
  <2>1. month' \in Periods
    BY <1>1 DEF Elsewhere, Periods
  <2>2. status' \in [Rows -> Statuses]
    BY <1>1 DEF Elsewhere
  <2>3. faults' \in Nat
    BY <1>1 DEF Elsewhere
  <2> QED
    BY <1>1, <2>1, <2>2, <2>3 DEF Elsewhere, bookVars, taskVars
<1>2. CASE PollPending
  BY <1>2 DEF PollPending, archiveVars, bookVars, histVars
<1>3. CASE ReadText
  <2> DEFINE m == Msg("parser")
  <2>1. m \in Rows
    BY <1>3 DEF ReadText, AtHandOf, Workers
  <2>2. PICK r \in ReadingsOf(m) :
          /\ IF Chatter(m, r) THEN UNCHANGED results ELSE StoreParserResult(m, r)
          /\ WriteSlip("parser", NoSlip, IF Bookable(m, r) THEN "parsed" ELSE "skipped")
          /\ Jump("parser", IF Bookable(m, r) \/ Refused(m, r) THEN "mark" ELSE "unmatched")
    BY <1>3 DEF ReadText, ReadingsOf
  <2>3. results' \in [Rows -> Seq(AllReadings)]
    <3>1. Append(results[m], r) \in Seq(AllReadings)
      <4>1. r \in AllReadings
        BY <2>1 DEF AllReadings
      <4> QED
        BY <2>1, <4>1, AppendProperties
    <3> QED
      BY <2>2, <3>1 DEF StoreParserResult
  <2> QED
    BY <1>3, <2>2, <2>3 DEF ReadText, WriteSlip, archiveVars, histVars
<1>4. CASE PollParsed
  <2>1. batch'["booker"] \subseteq Rows \X Nat
    <3>1. \A m \in Rows : DOMAIN results[m] \subseteq Nat
      OBVIOUS
    <3>2. batch'["booker"] \subseteq UNION {{<<m, k>> : k \in DOMAIN results[m]} : m \in Rows}
      BY <1>4 DEF PollParsed
    <3> QED
      BY <3>1, <3>2
  <2>2. batch' \in [Actors -> SUBSET (Rows \X Nat)]
    BY <1>4, <2>1 DEF PollParsed
  <2> QED
    BY <1>4, <2>2 DEF PollParsed, archiveVars, bookVars, histVars
<1>5. CASE Dispatch
  <2>1. Parsed("booker").method \in Methods
    BY <1>5, ParsedFacts DEF Dispatch, Typed
  <2>2. slip' \in [Actors -> Slips] /\ nxt' \in [Actors -> Statuses]
    BY <1>5, <2>1 DEF Dispatch, WriteSlip, Slips
  <2>3. pc' \in [Actors -> Places]
    BY <1>5, ParsedFacts DEF Dispatch, Typed, AccountingTypes, AmountTypes
  <2> QED
    BY <1>5, <2>2, <2>3 DEF Dispatch, archiveVars, histVars
<1>6. CASE CashLookup
  <2>1. /\ Parsed("booker").amount \in Int
        /\ \A e \in Emps : Payment(Msg("booker"), Parsed("booker"), e) \in Transactions
    BY <1>6, ParsedFacts, PaymentTyped DEF CashLookup, Typed
  <2>2. [NoSlip EXCEPT !.amount = Parsed("booker").amount] \in Slips
    BY <2>1 DEF NoSlip, Slips, Methods
  <2>3. /\ txn' \in [Actors -> Transactions] /\ slip' \in [Actors -> Slips]
        /\ nxt' \in [Actors -> Statuses] /\ pc' \in [Actors -> Places]
    <3>1. CASE \E e \in Emps :
              /\ txn' = [txn EXCEPT !["booker"] = Payment(Msg("booker"), Parsed("booker"), e)]
              /\ Jump("booker", "check") /\ UNCHANGED <<slip, nxt>>
      BY <2>1, <3>1
    <3>2. CASE /\ WriteSlip("booker", [NoSlip EXCEPT !.amount = Parsed("booker").amount], "skipped")
               /\ Jump("booker", "unmatched") /\ UNCHANGED txn
      BY <2>2, <3>2 DEF WriteSlip
    <3> QED
      BY <1>6, <3>1, <3>2 DEF CashLookup
  <2> QED
    BY <1>6, <2>3 DEF CashLookup, archiveVars, bookVars, histVars
<1>7. CASE MatchEmployee
  <2>1. /\ Parsed("booker").amount \in Int /\ Parsed("booker").method \in Methods
        /\ \A e \in Emps : Payment(Msg("booker"), Parsed("booker"), e) \in Transactions
    BY <1>7, ParsedFacts, PaymentTyped DEF MatchEmployee, Typed
  <2>2. [amount |-> Parsed("booker").amount, method |-> Parsed("booker").method, dated |-> TRUE] \in Slips
    BY <2>1 DEF Slips
  <2>3. /\ txn' \in [Actors -> Transactions] /\ slip' \in [Actors -> Slips]
        /\ nxt' \in [Actors -> Statuses] /\ pc' \in [Actors -> Places]
    <3>1. CASE \E e \in Emps :
              /\ txn' = [txn EXCEPT !["booker"] = Payment(Msg("booker"), Parsed("booker"), e)]
              /\ Jump("booker", IF Parsed("booker").type = "payment" THEN "check" ELSE "income")
              /\ UNCHANGED <<slip, nxt>>
      BY <2>1, <3>1
    <3>2. CASE /\ WriteSlip("booker", [amount |-> Parsed("booker").amount,
                                       method |-> Parsed("booker").method, dated |-> TRUE], "failed")
               /\ Jump("booker", "unmatched") /\ UNCHANGED txn
      BY <2>2, <3>2 DEF WriteSlip
    <3> QED
      BY <1>7, <3>1, <3>2 DEF MatchEmployee
  <2> QED
    BY <1>7, <2>3 DEF MatchEmployee, archiveVars, bookVars, histVars
<1>8. CASE BookIncome
  BY <1>8 DEF BookIncome, WriteSlip, archiveVars, histVars
<1>9. ASSUME NEW a \in Workers, WorkerStep(a) PROVE TypeOK'
  <2>1. ASSUME NEW r \in batch[a], Take(a, r) PROVE TypeOK'
    <3>1. r \in Rows \X Nat
      BY <1>9, <2>1
    <3>2. status' \in [Rows -> Statuses] /\ attempts' \in [Rows -> Nat]
      BY <2>1, <3>1 DEF Take, MarkStatus
    <3>3. batch' \in [Actors -> SUBSET (Rows \X Nat)] /\ cur' \in [Actors -> (Rows \cup {NoRow}) \X Nat]
          /\ pc' \in [Actors -> Places]
      BY <1>9, <2>1, <3>1 DEF Take
    <3> QED
      BY <2>1, <3>2, <3>3 DEF Take, histVars
  <2>2. CASE BatchDone(a)
    BY <2>2 DEF BatchDone, archiveVars, bookVars, histVars
  <2>3. CASE StoreUnmatched(a)
    <3>1. ReviewRow(Msg(a), slip[a]) \in ReviewRows
      BY <2>3, <1>9, RowAtHandTyped DEF StoreUnmatched
    <3>2. review' \in Seq(ReviewRows)
      BY <2>3, <3>1, AppendProperties DEF StoreUnmatched
    <3> QED
      BY <2>3, <3>2 DEF StoreUnmatched, archiveVars, histVars
  <2>4. CASE MarkNext(a)
    <3>1. Msg(a) \in Rows
      BY <1>9, <2>4 DEF MarkNext, AtHandOf
    <3>2. status' \in [Rows -> Statuses] /\ attempts' \in [Rows -> Nat]
      BY <1>9, <2>4, <3>1 DEF MarkNext, MarkStatus
    <3>3. slip' \in [Actors -> Slips] /\ nxt' \in [Actors -> Statuses] /\ pc' \in [Actors -> Places]
          /\ txn' \in [Actors -> Transactions]
      BY <2>4 DEF MarkNext, WriteSlip
    <3> QED
      BY <2>4, <3>2, <3>3 DEF MarkNext, histVars
  <2>5. CASE StoreFailed(a)
    <3>3. ReviewRow(Msg(a), Detected(a)) \in ReviewRows
      BY <2>5, <1>9, RowAtHandTyped DEF StoreFailed
    <3>4. review' \in Seq(ReviewRows) /\ faults' \in Nat
      <4>1. Append(review, ReviewRow(Msg(a), Detected(a))) \in Seq(ReviewRows)
        BY <3>3, AppendProperties
      <4>2. CASE faults' = faults + 1 /\ review' = review
        BY <4>2
      <4>3. CASE faults' = faults /\ review' = Append(review, ReviewRow(Msg(a), Detected(a)))
        BY <4>1, <4>3
      <4> QED
        BY <2>5, <4>2, <4>3 DEF StoreFailed
    <3> QED
      BY <2>5, <3>4 DEF StoreFailed, archiveVars
  <2>6. CASE MarkFailed(a)
    <3>1. Msg(a) \in Rows
      BY <1>9, <2>6 DEF MarkFailed, AtHandOf
    <3>2. status' \in [Rows -> Statuses] /\ attempts' \in [Rows -> Nat]
      BY <1>9, <2>6, <3>1 DEF MarkFailed, MarkStatus
    <3>3. slip' \in [Actors -> Slips] /\ nxt' \in [Actors -> Statuses] /\ pc' \in [Actors -> Places]
          /\ txn' \in [Actors -> Transactions]
      BY <2>6 DEF MarkFailed, WriteSlip
    <3> QED
      BY <2>6, <3>2, <3>3 DEF MarkFailed, histVars
  <2>7. CASE BatchFails(a)
    BY <2>7, <1>9 DEF BatchFails, WriteSlip, archiveVars, bookVars
  <2> QED
    BY <1>9, <2>1, <2>2, <2>3, <2>4, <2>5, <2>6, <2>7 DEF WorkerStep
<1>10. ASSUME NEW a \in Actors, TxnStep(a) PROVE TypeOK'
  <2>1. CASE TxnCheck(a)
    BY <2>1 DEF TxnCheck, archiveVars, bookVars, histVars
  <2>2. CASE TxnInsert(a)
    BY <2>2 DEF TxnInsert, Raised, archiveVars, histVars
  <2>3. CASE UpsertLedger(a)
    <3>1. txn[a].emp \in Emps /\ txn[a] \in Transactions
      BY <2>3 DEF UpsertLedger, AtHandOf, Booking
    <3>2. Signed(txn[a]) \in Int /\ Account(txn[a]) \in Accounts
      BY <3>1, SignedTyped
    <3>3. ledger' \in [Emps -> [Accounts -> Int]]
      BY <2>3, <3>1, <3>2 DEF UpsertLedger
    <3> QED
      BY <2>3, <3>3 DEF UpsertLedger, archiveVars, histVars
  <2>4. CASE Booked(a)
    <3>1. /\ txn' \in [Actors -> Transactions] /\ slip' \in [Actors -> Slips]
          /\ nxt' \in [Actors -> Statuses] /\ pc' \in [Actors -> Places]
      <4>1. txn' \in [Actors -> Transactions]
        BY <2>4 DEF Booked
      <4>2. \/ slip' = [slip EXCEPT ![a] = NoSlip] /\ nxt' = [nxt EXCEPT ![a] = "done"]
               /\ pc' = [pc EXCEPT ![a] = "mark"]
            \/ slip' = slip /\ nxt' = nxt /\ pc' = [pc EXCEPT ![a] = "idle"]
        BY <2>4, Zenon DEF Booked, WriteSlip, Jump
      <4>3. CASE slip' = slip /\ nxt' = nxt /\ pc' = [pc EXCEPT ![a] = "idle"]
        BY <4>1, <4>3
      <4>4. CASE slip' = [slip EXCEPT ![a] = NoSlip]
        <5>1. slip' \in [Actors -> Slips]
          BY <4>4
        <5>2. nxt' \in [Actors -> Statuses]
          <6>1. CASE nxt' = nxt
            BY <6>1
          <6>2. CASE nxt' = [nxt EXCEPT ![a] = "done"]
            BY <6>2
          <6> QED
            BY <4>2, <6>1, <6>2, Zenon
        <5>3. pc' \in [Actors -> Places]
          <6>1. CASE pc' = [pc EXCEPT ![a] = "idle"]
            BY <6>1
          <6>2. CASE pc' = [pc EXCEPT ![a] = "mark"]
            BY <6>2
          <6> QED
            BY <4>2, <6>1, <6>2, Zenon
        <5> QED
          BY <4>1, <5>1, <5>2, <5>3
      <4> QED
        BY <4>2, <4>3, <4>4
    <3> QED
      BY <2>4, <3>1 DEF Booked, archiveVars, bookVars, histVars
  <2> QED
    BY <1>10, <2>1, <2>2, <2>3, <2>4 DEF TxnStep
<1>11. ASSUME NEW a \in Actors, StatementFails(a) PROVE TypeOK'
  BY <1>11 DEF StatementFails, Raised, archiveVars, bookVars
<1>12. ASSUME NEW a \in Reviewers, ReviewStep(a) PROVE TypeOK'
  <2>1. ASSUME NEW i \in DOMAIN review, NEW e \in Emps, NEW o \in Amounts \cup {0}, NEW c \in Kinds, PromoteRead(a, i, e, o, c)
        PROVE  TypeOK'
    <3>1. review[i] \in ReviewRows /\ i \in Nat
      OBVIOUS
    <3>2. /\ review[i].msg \in Rows /\ review[i].amount \in Int /\ review[i].method \in Methods
          /\ o \in Int /\ 1 \in Periods
      BY <3>1, TextsAssumption DEF ReviewRows, Periods
    <3>3. [msg |-> review[i].msg, emp |-> e, amount |-> IF o > 0 THEN o ELSE review[i].amount,
           method |-> review[i].method, period |-> IF review[i].dated THEN 1 ELSE month,
           category |-> c, reversal |-> FALSE] \in Transactions
      BY <3>2 DEF Transactions, Kinds, Categories
    <3>4. txn' \in [Actors -> Transactions]
      BY <2>1, <3>3 DEF PromoteRead
    <3> QED
      BY <2>1, <3>1, <3>4 DEF PromoteRead, archiveVars, bookVars, histVars
  <2>2. ASSUME NEW i \in DOMAIN review, DismissRead(a, i) PROVE TypeOK'
    <3>1. i \in Nat
      OBVIOUS
    <3> QED
      BY <2>2, <3>1 DEF DismissRead, archiveVars, bookVars, histVars
  <2>3. CASE PromoteWrite(a)
    <3>1. cur[a][2] \in DOMAIN review
      BY <2>3, <1>12 DEF PromoteWrite, AtHandOf, Booking
    <3>2. review' \in Seq(ReviewRows)
      <4>0. review[cur[a][2]] \in ReviewRows
        BY <3>1
      <4>1. [review[cur[a][2]] EXCEPT !.state = "promoted", !.booked = TRUE] \in ReviewRows
        BY <4>0, ReviewRowKept
      <4>2. review' = [review EXCEPT ![cur[a][2]] =
                         [review[cur[a][2]] EXCEPT !.state = "promoted", !.booked = TRUE]]
        BY <2>3, <3>1, <4>1 DEF PromoteWrite, ReviewRows
      <4> QED
        BY <3>1, <4>1, <4>2, ExceptSeq
    <3> QED
      BY <2>3, <3>2 DEF PromoteWrite, archiveVars, histVars
  <2>4. CASE DismissWrite(a)
    <3>1. cur[a][2] \in DOMAIN review
      BY <2>4, <1>12 DEF DismissWrite, AtHandOf
    <3>2. review' \in Seq(ReviewRows)
      <4>0. review[cur[a][2]] \in ReviewRows
        BY <3>1
      <4>1. [review[cur[a][2]] EXCEPT !.state = "dismissed"] \in ReviewRows
        BY <4>0, ReviewRowKept
      <4> QED
        BY <2>4, <3>1, <4>1, ExceptSeq DEF DismissWrite
    <3> QED
      BY <2>4, <3>2 DEF DismissWrite, archiveVars, histVars
  <2> QED
    BY <1>12, <2>1, <2>2, <2>3, <2>4 DEF ReviewStep
<1>13. ASSUME NEW a \in Clerks, NEW e \in Emps, NEW n \in Amounts, NEW c \in Kinds, ManualPayment(a, e, n, c) PROVE TypeOK'
  <2>1. txn' \in [Actors -> Transactions]
    BY <1>13, TextsAssumption DEF ManualPayment, NoTxn, Transactions, Methods, Kinds, Categories
  <2> QED
    BY <1>13, <2>1 DEF ManualPayment, archiveVars, bookVars, histVars
<1>14. ASSUME NEW a \in Clerks, NEW t \in txns, ReverseTransaction(a, t) PROVE TypeOK'
  <2>1. txn' \in [Actors -> Transactions]
    BY <1>14, ReversalTyped DEF ReverseTransaction
  <2> QED
    BY <1>14, <2>1 DEF ReverseTransaction, archiveVars, bookVars, histVars
<1>15. ASSUME NEW m \in Rows, NEW reset \in BOOLEAN, Requeue(m, reset) PROVE TypeOK'
  BY <1>15 DEF Requeue, taskVars
<1>16. CASE Crash
  BY <1>16 DEF Crash, bookVars
<1>17. ASSUME NEW a \in Actors, ActorStep(a) PROVE TypeOK'
  BY <1>17, <1>2, <1>3, <1>4, <1>5, <1>6, <1>7, <1>8, <1>9, <1>10, <1>11, <1>12, <1>13, <1>14
     DEF ActorStep
<1> QED
  BY <1>1, <1>15, <1>16, <1>17 DEF EngineStep, Requeued

-----------------------------------------------------------------------------
(* What a step leaves alone *)

\* A step of one actor does not move another one.
LEMMA OthersRest ==
  ASSUME TypeOK, NEW a \in Actors, ActorStep(a), NEW b \in Actors, b # a
  PROVE  /\ pc'[b] = pc[b] /\ cur'[b] = cur[b] /\ txn'[b] = txn[b]
         /\ batch'[b] = batch[b] /\ nxt'[b] = nxt[b] /\ slip'[b] = slip[b]
<1> USE DEF TypeOK, Jump, WriteSlip
<1>1. CASE a = "parser" /\ (PollPending \/ ReadText)
  BY <1>1 DEF PollPending, ReadText
<1>2. CASE a = "booker" /\ (PollParsed \/ Dispatch \/ BookIncome)
  BY <1>2 DEF PollParsed, Dispatch, BookIncome
<1>3. CASE a = "booker" /\ (CashLookup \/ MatchEmployee)
  BY <1>3 DEF CashLookup, MatchEmployee
<1>4. CASE WorkerStep(a)
  BY <1>4 DEF WorkerStep, Take, BatchDone, StoreUnmatched, MarkNext, StoreFailed, MarkFailed, BatchFails
<1>5. CASE TxnStep(a)
  BY <1>5 DEF TxnStep, TxnCheck, TxnInsert, UpsertLedger, Booked
<1>6. CASE StatementFails(a)
  BY <1>6 DEF StatementFails
<1>7. CASE ReviewStep(a)
  BY <1>7 DEF ReviewStep, PromoteRead, DismissRead, PromoteWrite, DismissWrite
<1>8. CASE \/ \E e \in Emps, n \in Amounts, c \in Kinds : ManualPayment(a, e, n, c)
           \/ \E t \in txns : ReverseTransaction(a, t)
  BY <1>8 DEF ManualPayment, ReverseTransaction
<1> QED
  BY <1>1, <1>2, <1>3, <1>4, <1>5, <1>6, <1>7, <1>8 DEF ActorStep

\* Results, rows for review, transactions and incomes stay once they are there.
BooksGrow ==
  /\ txns \subseteq txns' /\ incomes \subseteq incomes'
  /\ \A m \in Rows : \A k \in DOMAIN results[m] :
       k \in DOMAIN results'[m] /\ results'[m][k] = results[m][k]
  /\ \A i \in DOMAIN review :
       /\ i \in DOMAIN review' /\ review'[i].msg = review[i].msg
       /\ review[i].booked => review'[i].booked

\* Every step only adds to the books.
LEMMA BooksOnlyGrow ==
  ASSUME Typed, EngineStep
  PROVE  BooksGrow
<1> USE DEF BooksGrow
<1>0. TypeOK
  BY DEF Typed
<1>1. ASSUME UNCHANGED <<results, review, txns, incomes>> PROVE BooksGrow
  BY <1>1
<1>2. CASE Elsewhere \/ Requeued \/ Crash
  BY <1>1, <1>2 DEF Elsewhere, Requeued, Requeue, Crash, bookVars
<1>3. ASSUME NEW a \in Actors, ActorStep(a) PROVE BooksGrow
  <2>1. CASE ReadText
    <3>1. UNCHANGED <<review, txns, incomes>>
      BY <2>1 DEF ReadText
    <3>2. \A m \in Rows : \/ results'[m] = results[m]
                          \/ \E r \in AllReadings : results'[m] = Append(results[m], r)
      <4>1. Msg("parser") \in Rows
        BY <2>1, ActorFacts DEF ReadText, Typed, AtHand, AtHandOf, Workers
      <4>2. PICK r \in ReadingsOf(Msg("parser")) :
               results' \in {results, [results EXCEPT ![Msg("parser")] = Append(results[Msg("parser")], r)]}
        BY <2>1 DEF ReadText, ReadingsOf, StoreParserResult
      <4>3. r \in AllReadings /\ results \in [Rows -> Seq(AllReadings)]
        BY <1>0, <4>1, <4>2 DEF AllReadings, TypeOK
      <4>4. ASSUME NEW m \in Rows
            PROVE  results'[m] = results[m] \/ results'[m] = Append(results[m], r)
        BY <4>1, <4>2, <4>3
      <4> QED
        BY <4>3, <4>4, Zenon
    <3>3. \A m \in Rows : results[m] \in Seq(AllReadings)
      BY <1>0 DEF TypeOK
    <3>4. \A m \in Rows : \A k \in DOMAIN results[m] :
            k \in DOMAIN results'[m] /\ results'[m][k] = results[m][k]
      BY <3>2, <3>3, AppendProperties
    <3> QED
      BY <3>1, <3>4
  <2>2. ASSUME NEW u \in ReviewRows, review' = Append(review, u), UNCHANGED <<results, txns, incomes>>
        PROVE  BooksGrow
    <3>1. \A i \in DOMAIN review : i \in DOMAIN review' /\ review'[i] = review[i]
      BY <1>0, <2>2, AppendProperties DEF TypeOK
    <3> QED
      BY <2>2, <3>1
  <2>3. CASE a \in Workers /\ (StoreUnmatched(a) \/ StoreFailed(a))
    <3>1. /\ ReviewRow(Msg(a), slip[a]) \in ReviewRows
          /\ ReviewRow(Msg(a), Detected(a)) \in ReviewRows
      BY <2>3, RowAtHandTyped DEF StoreUnmatched, StoreFailed
    <3>2. /\ UNCHANGED <<results, txns, incomes>>
          /\ \/ review' = Append(review, ReviewRow(Msg(a), slip[a]))
             \/ review' = Append(review, ReviewRow(Msg(a), Detected(a)))
             \/ review' = review
      BY <2>3, Zenon DEF StoreUnmatched, StoreFailed
    <3> QED
      BY <3>1, <3>2, <2>2, <1>1
  <2>4. CASE BookIncome \/ TxnInsert(a)
    BY <2>4 DEF BookIncome, TxnInsert
  <2>5. CASE a \in Reviewers /\ (PromoteWrite(a) \/ DismissWrite(a))
    <3> DEFINE i == cur[a][2]
    <3>1. i \in DOMAIN review
      BY <2>5, ActorFacts DEF PromoteWrite, DismissWrite, Typed, AtHand, AtHandOf, Booking
    <3>2. \A j \in DOMAIN review : review[j] \in ReviewRows
      BY <1>0 DEF TypeOK
    <3>3. CASE review' = [review EXCEPT ![i].state = "dismissed"]
      <4>1. \A j \in DOMAIN review : /\ j \in DOMAIN review' /\ review'[j].msg = review[j].msg
                                     /\ review'[j].booked = review[j].booked
        BY <3>1, <3>2, <3>3 DEF ReviewRows
      <4> QED
        BY <2>5, <4>1 DEF PromoteWrite, DismissWrite
    <3>4. CASE review' = [review EXCEPT ![i].state = "promoted", ![i].booked = TRUE]
      <4>1. review' = [review EXCEPT ![i] = [review[i] EXCEPT !.state = "promoted", !.booked = TRUE]]
        BY <3>1, <3>2, <3>4 DEF ReviewRows
      <4>2. \A j \in DOMAIN review : /\ j \in DOMAIN review' /\ review'[j].msg = review[j].msg
                                     /\ review[j].booked => review'[j].booked
        BY <3>1, <3>2, <4>1 DEF ReviewRows
      <4> QED
        BY <2>5, <4>2 DEF PromoteWrite, DismissWrite
    <3> QED
      BY <2>5, <3>3, <3>4 DEF PromoteWrite, DismissWrite
  <2>6. CASE \/ PollPending \/ PollParsed \/ Dispatch \/ CashLookup \/ MatchEmployee
             \/ (\E r \in batch[a] : Take(a, r)) \/ BatchDone(a) \/ MarkNext(a) \/ MarkFailed(a)
             \/ BatchFails(a) \/ TxnCheck(a) \/ UpsertLedger(a) \/ Booked(a) \/ StatementFails(a)
             \/ (\E i \in DOMAIN review, e \in Emps, o \in Amounts \cup {0}, c \in Kinds : PromoteRead(a, i, e, o, c))
             \/ (\E i \in DOMAIN review : DismissRead(a, i))
             \/ (\E e \in Emps, n \in Amounts, c \in Kinds : ManualPayment(a, e, n, c))
             \/ (\E t \in txns : ReverseTransaction(a, t))
    BY <2>6, <1>1 DEF PollPending, PollParsed, Dispatch, CashLookup, MatchEmployee, Take, BatchDone,
         MarkNext, MarkFailed, BatchFails, TxnCheck, UpsertLedger, Booked, StatementFails,
         PromoteRead, DismissRead, ManualPayment, ReverseTransaction, bookVars
  <2> QED
    BY <1>3, <2>1, <2>3, <2>4, <2>5, <2>6 DEF ActorStep, WorkerStep, TxnStep, ReviewStep, Workers
<1> QED
  BY <1>2, <1>3 DEF EngineStep

-----------------------------------------------------------------------------
(* The bearings of a task *)

\* The bearings of a task that a step does not move.
LEMMA AtHandKept ==
  ASSUME Typed, BooksGrow, NEW b \in Actors,
         pc'[b] = pc[b], cur'[b] = cur[b], txn'[b] = txn[b], batch'[b] = batch[b]
  PROVE  AtHandOf(b)'
<1>1. AtHandOf(b) /\ TypeOK
  BY DEF Typed, AtHand
<1>2. \A r \in Rows \X Nat : Takeable(r) => Takeable(r)'
  BY DEF Takeable, BooksGrow
<1>3. /\ PlacesOf(b)' = PlacesOf(b) /\ Msg(b)' = Msg(b) /\ batch[b] \subseteq Rows \X Nat
      /\ cur[b] \in (Rows \cup {NoRow}) \X Nat
  BY <1>1 DEF PlacesOf, Msg, TypeOK
<1>4. b = "booker" /\ pc[b] \notin {"idle", "take"} => cur[b] \in Rows \X Nat
  BY <1>1, <1>3 DEF AtHandOf, Workers, Msg
<1>5. b \in Reviewers /\ pc[b] \in Booking \cup {"dismiss"} =>
        cur[b][2] \in DOMAIN review' /\ review'[cur[b][2]].msg = review[cur[b][2]].msg
  BY <1>1 DEF AtHandOf, BooksGrow
<1> QED
  BY <1>1, <1>2, <1>3, <1>4, <1>5 DEF AtHandOf

\* The parser's bearings.
LEMMA ParserAtHand ==
  ASSUME Typed, ActorStep("parser")
  PROVE  AtHandOf("parser")'
<1> DEFINE a == "parser"
<1>0. /\ TypeOK /\ pc[a] \in ParserPlaces /\ (pc[a] \notin {"idle", "take"} => Msg(a) \in Rows)
      /\ batch[a] \subseteq Rows \X Nat
  BY ActorFacts DEF Typed, AtHand, AtHandOf, PlacesOf, Workers, TypeOK
<1>1. SUFFICES pc'[a] \in ParserPlaces /\ (pc'[a] \notin {"idle", "take"} => Msg(a)' \in Rows)
  BY <1>1, ActorFacts DEF AtHandOf, PlacesOf, ParserPlaces, Booking, Workers
<1> USE ActorFacts, <1>0
<1> USE DEF TypeOK, Jump, ParserPlaces, Msg
<1>2. CASE PollPending
  BY <1>2 DEF PollPending
<1>3. CASE ReadText
  <2>1. cur' = cur /\ pc[a] = "read" /\ pc'[a] \in {"mark", "unmatched"}
    BY <1>3 DEF ReadText
  <2> QED
    BY <2>1
<1>4. CASE WorkerStep(a)
  BY <1>4 DEF WorkerStep, Take, BatchDone, StoreUnmatched, MarkNext, StoreFailed, MarkFailed, BatchFails
<1>5. CASE StatementFails(a)
  BY <1>5 DEF StatementFails, Raised, Workers
<1> QED
  BY <1>2, <1>3, <1>4, <1>5 DEF ActorStep

\* The booker's bearings.
LEMMA BookerAtHand ==
  ASSUME Typed, ActorStep("booker")
  PROVE  AtHandOf("booker")'
<1> DEFINE a == "booker"
<1>0. /\ TypeOK /\ pc[a] \in BookerPlaces /\ (pc[a] \notin {"idle", "take"} => Msg(a) \in Rows)
      /\ batch[a] \subseteq Rows \X Nat
      /\ \A r \in batch[a] : Takeable(r)
      /\ pc[a] \notin {"idle", "take"} => Takeable(cur[a])
      /\ pc[a] \in Booking \cup {"income"} =>
           txn[a].msg = Msg(a) /\ ~txn[a].reversal /\ txn[a].emp \in Emps
  BY ActorFacts DEF Typed, AtHand, AtHandOf, PlacesOf, Workers, TypeOK
<1>1. SUFFICES
      /\ pc'[a] \in BookerPlaces /\ (pc'[a] \notin {"idle", "take"} => Msg(a)' \in Rows)
      /\ \A r \in batch'[a] : Takeable(r)'
      /\ pc'[a] \notin {"idle", "take"} => Takeable(cur[a])'
      /\ pc'[a] \in Booking \cup {"income"} =>
           txn'[a].msg = Msg(a)' /\ ~txn'[a].reversal /\ txn'[a].emp \in Emps
  BY <1>1, ActorFacts DEF AtHandOf, PlacesOf, Workers
<1> USE ActorFacts, <1>0
<1> USE DEF TypeOK, Jump, BookerPlaces, Booking, Msg
<1>2. CASE PollParsed
  <2>1. results' = results /\ pc'[a] = "take" /\ batch' = [batch EXCEPT ![a] = batch'[a]]
    BY <1>2 DEF PollParsed, bookVars
  <2>2. \A r \in batch'[a] : Takeable(r)
    <3> DEFINE all == UNION {{<<m, k>> : k \in DOMAIN results[m]} :
                       m \in {x \in Rows : status[x] = "parsed" /\ attempts[x] < MaxAttempts}}
    <3>1. batch'[a] = {r \in all : results[r[1]][r[2]].type \in AccountingTypes}
      BY <1>2 DEF PollParsed
    <3>2. \A r \in all : r[2] \in DOMAIN results[r[1]]
      OBVIOUS
    <3> QED
      BY <3>1, <3>2 DEF Takeable
  <2> QED
    BY <2>1, <2>2 DEF Takeable
<1>3. ASSUME results' = results, batch' = batch, cur' = cur,
             pc[a] \notin {"idle", "take"}
      PROVE  /\ \A r \in batch'[a] : Takeable(r)'
             /\ pc'[a] \notin {"idle", "take"} => Takeable(cur[a])' /\ Msg(a)' \in Rows
  BY <1>3 DEF Takeable
<1>4. CASE Dispatch
  <2>1. pc'[a] \in {"unmatched", "mark", "lookup", "match"}
    BY <1>4, ParsedFacts DEF Dispatch, AccountingTypes, AmountTypes
  <2> QED
    BY <1>4, <1>3, <2>1 DEF Dispatch
<1>5. CASE CashLookup \/ MatchEmployee
  <2>1. \/ /\ pc'[a] \in {"check", "income"}
           /\ \E e \in Emps : txn' = [txn EXCEPT ![a] = Payment(Msg(a), Parsed(a), e)]
        \/ pc'[a] = "unmatched"
    BY <1>5 DEF CashLookup, MatchEmployee
  <2>2. results' = results /\ batch' = batch /\ cur' = cur /\ pc[a] \notin {"idle", "take"}
    BY <1>5 DEF CashLookup, MatchEmployee, bookVars
  <2>3. pc'[a] \in {"check", "income"} =>
          txn'[a].msg = Msg(a)' /\ ~txn'[a].reversal /\ txn'[a].emp \in Emps
    BY <2>1, <2>2 DEF Payment
  <2> QED
    BY <1>3, <2>1, <2>2, <2>3
<1>6. CASE BookIncome
  BY <1>6, <1>3 DEF BookIncome
<1>7. CASE WorkerStep(a)
  <2>1. ASSUME NEW r \in batch[a], Take(a, r)
        PROVE  /\ results' = results /\ batch'[a] \subseteq batch[a]
               /\ cur'[a] = r /\ pc'[a] = "validate"
    BY <2>1 DEF Take
  <2>2. CASE BatchDone(a) \/ BatchFails(a)
    <3>1. results' = results /\ batch'[a] \subseteq batch[a] /\ pc'[a] = "idle"
      BY <2>2 DEF BatchDone, BatchFails, bookVars
    <3> QED
      BY <3>1 DEF Takeable
  <2>3. CASE StoreUnmatched(a) \/ MarkNext(a) \/ StoreFailed(a) \/ MarkFailed(a)
    <3>1. /\ results' = results /\ batch' = batch /\ cur' = cur /\ pc[a] \notin {"idle", "take"}
          /\ pc'[a] \in {"mark", "take", "exmark"}
      BY <2>3 DEF StoreUnmatched, MarkNext, StoreFailed, MarkFailed
    <3> QED
      BY <1>3, <3>1
  <2>4. CASE \E r \in batch[a] : Take(a, r)
    <3>1. PICK r \in batch[a] : Take(a, r)
      BY <2>4
    <3>2. r \in Rows \X Nat /\ Takeable(r)
      BY <3>1
    <3> QED
      BY <3>1, <3>2, <2>1 DEF Takeable
  <2> QED
    BY <1>7, <2>2, <2>3, <2>4 DEF WorkerStep
<1>8. CASE TxnStep(a)
  <2>1. /\ results' = results /\ batch' = batch /\ cur' = cur /\ pc[a] \in Booking
        /\ \/ txn' = txn /\ pc'[a] \in {"insert", "idle", "booked", "except", "ledger"}
           \/ pc'[a] \in {"mark"}
    BY <1>8 DEF TxnStep, TxnCheck, TxnInsert, UpsertLedger, Booked, Raised, bookVars
  <2> QED
    BY <1>3, <2>1
<1>9. CASE StatementFails(a)
  <2>1. /\ results' = results /\ batch' = batch /\ cur' = cur /\ pc[a] \notin {"idle", "take"}
        /\ pc'[a] = "except"
    BY <1>9 DEF StatementFails, Raised, Workers, bookVars
  <2> QED
    BY <1>3, <2>1
<1> QED
  BY <1>2, <1>4, <1>5, <1>6, <1>7, <1>8, <1>9 DEF ActorStep

\* A reviewer's bearings.
LEMMA ReviewerAtHand ==
  ASSUME Typed, NEW a \in Reviewers, ActorStep(a)
  PROVE  AtHandOf(a)'
<1>0. /\ TypeOK /\ a \in Actors /\ a \notin Workers /\ a \notin Clerks
      /\ pc[a] \in ReviewerPlaces
      /\ pc[a] \in Booking \cup {"dismiss"} => cur[a][2] \in DOMAIN review
      /\ pc[a] \in Booking => /\ txn[a].msg = review[cur[a][2]].msg /\ ~txn[a].reversal
                              /\ txn[a].emp \in Emps
  BY ActorFacts DEF Typed, AtHand, AtHandOf, PlacesOf, Workers
<1>1. SUFFICES
      /\ pc'[a] \in ReviewerPlaces
      /\ pc'[a] \in Booking \cup {"dismiss"} => cur'[a][2] \in DOMAIN review'
      /\ pc'[a] \in Booking => /\ txn'[a].msg = review'[cur'[a][2]].msg /\ ~txn'[a].reversal
                               /\ txn'[a].emp \in Emps
  BY <1>0, <1>1, ActorFacts DEF AtHandOf, PlacesOf, ReviewerPlaces, Booking, Workers
<1> USE <1>0
<1> USE DEF TypeOK, Jump, ReviewerPlaces, Booking
<1>2. ASSUME NEW i \in DOMAIN review, NEW e \in Emps, NEW o \in Amounts \cup {0}, NEW c \in Kinds, PromoteRead(a, i, e, o, c)
      PROVE  /\ review' = review /\ pc'[a] = "check" /\ cur'[a][2] = i
             /\ txn'[a].msg = review[i].msg /\ ~txn'[a].reversal /\ txn'[a].emp \in Emps
  BY <1>2 DEF PromoteRead, bookVars
<1>3. ASSUME NEW i \in DOMAIN review, DismissRead(a, i)
      PROVE  review' = review /\ pc'[a] = "dismiss" /\ cur'[a][2] = i
  BY <1>3 DEF DismissRead, bookVars
<1>4. CASE PromoteWrite(a) \/ DismissWrite(a) \/ StatementFails(a)
  BY <1>4 DEF PromoteWrite, DismissWrite, StatementFails, Raised
<1>5. CASE TxnStep(a)
  BY <1>5 DEF TxnStep, TxnCheck, TxnInsert, UpsertLedger, Booked, Raised, bookVars
<1> QED
  BY <1>2, <1>3, <1>4, <1>5, ActorFacts DEF ActorStep, ReviewStep

\* A clerk's bearings.
LEMMA ClerkAtHand ==
  ASSUME Typed, NEW a \in Clerks, ActorStep(a)
  PROVE  AtHandOf(a)'
<1>0. /\ TypeOK /\ a \in Actors /\ a \notin Workers /\ a \notin Reviewers
      /\ pc[a] \in ClerkPlaces
      /\ pc[a] \in Booking => txn[a].emp \in Emps /\ (txn[a].msg = NoMsg \/ txn[a].reversal)
      /\ \A t \in txns : t.emp \in Emps
  BY ActorFacts DEF Typed, AtHand, AtHandOf, PlacesOf, Workers
<1>1. SUFFICES
      /\ pc'[a] \in ClerkPlaces
      /\ pc'[a] \in Booking => txn'[a].emp \in Emps /\ (txn'[a].msg = NoMsg \/ txn'[a].reversal)
  BY <1>0, <1>1, ActorFacts DEF AtHandOf, PlacesOf, ClerkPlaces, Booking, Workers
<1> USE <1>0
<1> USE DEF TypeOK, Jump, ClerkPlaces, Booking
<1>2. ASSUME NEW e \in Emps, NEW n \in Amounts, NEW c \in Kinds, ManualPayment(a, e, n, c)
      PROVE  pc'[a] = "check" /\ txn'[a].emp \in Emps /\ txn'[a].msg = NoMsg
  BY <1>2 DEF ManualPayment, NoTxn
<1>3. ASSUME NEW t \in txns, ReverseTransaction(a, t)
      PROVE  pc'[a] = "check" /\ txn'[a].emp \in Emps /\ txn'[a].reversal
  <2>1. t \in Transactions /\ t.emp \in Emps
    OBVIOUS
  <2>2. [t EXCEPT !.reversal = TRUE].emp = t.emp /\ [t EXCEPT !.reversal = TRUE].reversal
    BY <2>1 DEF Transactions
  <2> QED
    BY <1>3, <2>1, <2>2 DEF ReverseTransaction
<1>4. CASE StatementFails(a)
  BY <1>4 DEF StatementFails, Raised
<1>5. CASE TxnStep(a)
  BY <1>5, ActorFacts DEF TxnStep, TxnCheck, TxnInsert, UpsertLedger, Booked, Raised
<1> QED
  BY <1>2, <1>3, <1>4, <1>5, ActorFacts DEF ActorStep

\* Only the parser changes what is stored of a reading.
LEMMA ResultsStep ==
  ASSUME Typed, EngineStep
  PROVE  \/ results' = results
         \/ /\ ReadText /\ Msg("parser") \in Rows
            /\ \E r \in ReadingsOf(Msg("parser")) :
                 results' = [results EXCEPT ![Msg("parser")] = Append(results[Msg("parser")], r)]
<1>1. CASE Elsewhere \/ Requeued \/ Crash
  BY <1>1 DEF Elsewhere, Requeued, Requeue, Crash, bookVars
<1>2. CASE ReadText
  <2>1. Msg("parser") \in Rows
    BY <1>2, ActorFacts DEF ReadText, Typed, AtHand, AtHandOf, Workers
  <2> QED
    BY <1>2, <2>1 DEF ReadText, ReadingsOf, StoreParserResult
<1>3. ASSUME NEW a \in Actors, ActorStep(a), ~ReadText PROVE results' = results
  BY <1>3 DEF ActorStep, WorkerStep, TxnStep, ReviewStep, PollPending, PollParsed, Dispatch, CashLookup,
     MatchEmployee, BookIncome, Take, BatchDone, StoreUnmatched, MarkNext, StoreFailed, MarkFailed,
     BatchFails, TxnCheck, TxnInsert, UpsertLedger, Booked, StatementFails, PromoteRead, DismissRead,
     PromoteWrite, DismissWrite, ManualPayment, ReverseTransaction, bookVars
<1> QED
  BY <1>1, <1>2, <1>3 DEF EngineStep

\* Only an INSERT adds a transaction.
LEMMA TxnsStep ==
  ASSUME TypeOK, EngineStep
  PROVE  \/ txns' = txns
         \/ \E a \in Actors : /\ TxnInsert(a) /\ a # "parser" /\ ~Taken(txn[a])
                             /\ txns' = txns \cup {txn[a]}
<1>1. CASE Elsewhere \/ Requeued \/ Crash
  BY <1>1 DEF Elsewhere, Requeued, Requeue, Crash, bookVars
<1>2. ASSUME NEW a \in Actors, TxnInsert(a)
      PROVE  txns' = txns \/ (~Taken(txn[a]) /\ txns' = txns \cup {txn[a]})
  BY <1>2 DEF TxnInsert
<1>3. ASSUME NEW a \in Actors, ActorStep(a), ~(TxnInsert(a) /\ a # "parser") PROVE txns' = txns
  BY <1>3 DEF ActorStep, WorkerStep, TxnStep, ReviewStep, PollPending, ReadText, PollParsed, Dispatch,
     CashLookup, MatchEmployee, BookIncome, Take, BatchDone, StoreUnmatched, MarkNext, StoreFailed,
     MarkFailed, BatchFails, TxnCheck, UpsertLedger, Booked, StatementFails, PromoteRead, DismissRead,
     PromoteWrite, DismissWrite, ManualPayment, ReverseTransaction, bookVars
<1> QED
  BY <1>1, <1>2, <1>3 DEF EngineStep

\* Every step keeps the bearings.
LEMMA AtHandStep ==
  ASSUME Typed, EngineStep
  PROVE  AtHand'
<1>0. TypeOK /\ BooksGrow /\ ResultsRead /\ \A t \in txns : t.emp \in Emps
  BY BooksOnlyGrow DEF Typed, AtHand
<1>1. ResultsRead'
  <2>1. CASE results' = results
    BY <1>0, <2>1 DEF ResultsRead, ReadingsOf
  <2>2. ASSUME NEW r \in ReadingsOf(Msg("parser")), Msg("parser") \in Rows,
               results' = [results EXCEPT ![Msg("parser")] = Append(results[Msg("parser")], r)]
        PROVE  ResultsRead'
    <3> DEFINE m == Msg("parser")
    <3>1. r \in AllReadings /\ results[m] \in Seq(AllReadings)
      BY <1>0, <2>2 DEF AllReadings, TypeOK
    <3>2. \A k \in DOMAIN Append(results[m], r) :
            Append(results[m], r)[k] = r \/ (k \in DOMAIN results[m] /\ Append(results[m], r)[k] = results[m][k])
      BY <3>1, AppendProperties
    <3>3. \A k \in DOMAIN results'[m] : results'[m][k] \in ReadingsOf(m)
      BY <1>0, <2>2, <3>2 DEF ResultsRead, TypeOK
    <3>4. \A x \in Rows \ {m} : results'[x] = results[x]
      BY <1>0, <2>2 DEF TypeOK
    <3>5. \A x \in Rows : ReadingsOf(x)' = ReadingsOf(x)
      BY DEF ReadingsOf
    <3> QED
      BY <1>0, <3>3, <3>4, <3>5 DEF ResultsRead
  <2> QED
    BY <2>1, <2>2, ResultsStep
<1>2. \A t \in txns' : t.emp \in Emps
  <2>1. \A a \in Actors : TxnInsert(a) => txn[a].emp \in Emps
    BY DEF TxnInsert, Typed, AtHand, AtHandOf, Booking
  <2> QED
    BY <1>0, <2>1, TxnsStep
<1>3. \A b \in Actors : AtHandOf(b)'
  <2>1. ASSUME NEW a \in Actors, ActorStep(a), NEW b \in Actors PROVE AtHandOf(b)'
    <3>1. CASE b = a
      BY <2>1, <3>1, ActorFacts, ParserAtHand, BookerAtHand, ReviewerAtHand, ClerkAtHand
    <3>2. CASE b # a
      BY <1>0, <2>1, <3>2, OthersRest, AtHandKept
    <3> QED
      BY <3>1, <3>2
  <2>2. ASSUME Elsewhere \/ Requeued, NEW b \in Actors PROVE AtHandOf(b)'
    BY <1>0, <2>2, AtHandKept DEF Elsewhere, Requeued, Requeue, taskVars
  <2>3. ASSUME Crash, NEW b \in Actors PROVE AtHandOf(b)'
    <3>1. pc'[b] = "idle" /\ batch'[b] = {}
      BY <2>3 DEF Crash
    <3> QED
      BY <3>1 DEF AtHandOf, PlacesOf, ParserPlaces, BookerPlaces, ReviewerPlaces, ClerkPlaces, Booking
  <2> QED
    BY <2>1, <2>2, <2>3 DEF EngineStep
<1> QED
  BY <1>1, <1>2, <1>3 DEF AtHand

\* The first state.
LEMMA InitTyped ==
  ASSUME Init
  PROVE  Typed
<1>1. TypeOK
  <2>1. NoSlip \in Slips /\ NoTxn \in Transactions /\ "idle" \in Places
    BY DEF NoSlip, NoTxn, Slips, Transactions, NoMsg, Methods, Periods, Categories, Places, ParserPlaces
  <2>2. status \in [Rows -> Statuses]
    BY DEF Init, ArchiveInit, Statuses
  <2>3. ledger \in [Emps -> [Accounts -> Int]]
    BY DEF Init
  <2>4. "none" \in Statuses /\ 1 \in Periods
    BY DEF Statuses, Periods
  <2> QED
    BY <2>1, <2>2, <2>3, <2>4 DEF Init, TypeOK
<1>2. ASSUME NEW a \in Actors PROVE AtHandOf(a)
  <2>1. pc[a] = "idle" /\ batch[a] = {}
    BY DEF Init
  <2> QED
    BY <2>1 DEF AtHandOf, PlacesOf, ParserPlaces, BookerPlaces, ReviewerPlaces, ClerkPlaces, Booking
<1>3. ResultsRead /\ \A t \in txns : t.emp \in Emps
  BY DEF Init, ResultsRead
<1> QED
  BY <1>1, <1>2, <1>3 DEF Typed, AtHand

\* Every variable keeps its type, and every task its bearings.
LEMMA AlwaysTyped == Spec => []Typed
<1>1. Init => Typed
  BY InitTyped
<1>2. Typed /\ [Next]_vars => Typed'
  <2>1. Typed /\ [Next]_vars => EngineStep
    BY StepsCovered DEF Typed
  <2> QED
    BY <2>1, TypeStep, AtHandStep DEF Typed
<1> QED
  BY <1>1, <1>2, PTL DEF Spec

\* The engine's variables keep their types: rows, results, transactions and the
\* review queue, and what every worker, reviewer and clerk holds.
THEOREM TypeCorrect == Spec => []TypeOK
<1>1. Typed => TypeOK
  BY DEF Typed
<1> QED
  BY <1>1, AlwaysTyped, PTL

-----------------------------------------------------------------------------
(* Money in sight *)

\* The environment stays, and failures are only counted up.
LEMMA FaultsStep ==
  ASSUME TypeOK, EngineStep
  PROVE  /\ env' = env /\ env.faults \in Nat
         /\ faults' = faults \/ (faults < env.faults /\ faults' = faults + 1)
<1>1. env.faults \in Nat
  BY EnvironmentsAssumption DEF TypeOK
<1>2. CASE Elsewhere \/ Requeued \/ Crash
  BY <1>1, <1>2 DEF Elsewhere, Requeued, Requeue, Crash
<1>3. ASSUME NEW a \in Actors, ActorStep(a)
      PROVE  env' = env /\ (faults' = faults \/ (faults < env.faults /\ faults' = faults + 1))
  BY <1>3 DEF ActorStep, WorkerStep, TxnStep, ReviewStep, PollPending, ReadText, PollParsed, Dispatch,
     CashLookup, MatchEmployee, BookIncome, Take, BatchDone, StoreUnmatched, MarkNext, StoreFailed,
     MarkFailed, BatchFails, TxnCheck, TxnInsert, UpsertLedger, Booked, StatementFails, PromoteRead,
     DismissRead, PromoteWrite, DismissWrite, ManualPayment, ReverseTransaction, histVars
<1> QED
  BY <1>1, <1>2, <1>3 DEF EngineStep

\* A row becomes final in the last statement of a worker, and in no other.
LEMMA SettledStep ==
  ASSUME Typed, EngineStep, NEW m \in Rows, Settled(m)'
  PROVE  \/ Settled(m)
         \/ \E a \in Workers :
              /\ Msg(a) = m
              /\ \/ MarkNext(a) /\ nxt[a] \in {"done", "skipped", "failed"}
                 \/ MarkFailed(a)
<1>0. status \in [Rows -> Statuses]
  BY DEF Typed, TypeOK
<1>1. CASE status' = status
  BY <1>1 DEF Settled
<1>2. ASSUME NEW x \in Rows, status' = [status EXCEPT ![x] = "pending"] PROVE Settled(m)
  BY <1>0, <1>2 DEF Settled
<1>3. CASE Elsewhere \/ Requeued \/ Crash
  BY <1>1, <1>2, <1>3 DEF Elsewhere, Requeued, Requeue, Crash
<1>4. ASSUME NEW a \in Workers, NEW r \in batch[a], Take(a, r) PROVE Settled(m)
  <2>1. r[1] \in Rows
    BY ActorFacts DEF Typed, TypeOK
  <2>2. status' = [status EXCEPT ![r[1]] = "parsing"] \/ status' = [status EXCEPT ![r[1]] = "accounting"]
    BY <1>4 DEF Take, MarkStatus
  <2> QED
    BY <1>0, <2>1, <2>2 DEF Settled
<1>5. ASSUME NEW a \in Workers, MarkNext(a) \/ MarkFailed(a) 
      PROVE  \/ Settled(m)
             \/ Msg(a) = m /\ \/ MarkNext(a) /\ nxt[a] \in {"done", "skipped", "failed"}
                              \/ MarkFailed(a)
  <2>1. Msg(a) \in Rows
    BY <1>5, ActorFacts DEF MarkNext, MarkFailed, Typed, AtHand, AtHandOf
  <2>2. CASE MarkNext(a)
    BY <1>0, <2>1, <2>2 DEF MarkNext, MarkStatus, Settled
  <2>3. CASE MarkFailed(a)
    BY <1>0, <2>1, <2>3 DEF MarkFailed, MarkStatus, Settled
  <2> QED
    BY <1>5, <2>2, <2>3
<1>6. ASSUME NEW a \in Actors, ActorStep(a),
             ~(a \in Workers /\ ((\E r \in batch[a] : Take(a, r)) \/ MarkNext(a) \/ MarkFailed(a)))
      PROVE  status' = status
  BY <1>6 DEF ActorStep, WorkerStep, TxnStep, ReviewStep, PollPending, ReadText, PollParsed, Dispatch,
     CashLookup, MatchEmployee, BookIncome, BatchDone, StoreUnmatched, StoreFailed,
     BatchFails, TxnCheck, TxnInsert, UpsertLedger, Booked, StatementFails, PromoteRead,
     DismissRead, PromoteWrite, DismissWrite, ManualPayment, ReverseTransaction, archiveVars
<1> QED
  BY <1>1, <1>3, <1>4, <1>5, <1>6 DEF EngineStep

\* What is in sight stays there.
LEMMA InSightStays ==
  ASSUME BooksGrow, NEW m, InSight(m)
  PROVE  InSight(m)'
BY DEF BooksGrow, InSight

\* A row for the reviewers brings its message in sight.
LEMMA ReviewedIsInSight ==
  ASSUME Typed, NEW m \in Rows, NEW s, review' = Append(review, ReviewRow(m, s)),
         ReviewRow(m, s) \in ReviewRows
  PROVE  InSight(m)'
<1>1. /\ Len(review) + 1 \in DOMAIN review'
      /\ review'[Len(review) + 1] = ReviewRow(m, s)
  BY AppendProperties DEF Typed, TypeOK
<1>2. ReviewRow(m, s).msg = m
  BY DEF ReviewRow
<1> QED
  BY <1>1, <1>2 DEF InSight

\* A worker that moves keeps in sight what it is about to make final.
LEMMA SightOfMover ==
  ASSUME Typed, BooksGrow, NEW a \in Workers, SightOf(a), ActorStep(a),
         env' = env, env.faults \in Nat, env.faults <= 1
  PROVE  SightOf(a)'
<1>1. PICK m : m = Msg(a)
  OBVIOUS
<1>2. /\ a \in Actors /\ a \notin Reviewers /\ a \notin Clerks
      /\ pc[a] \notin {"idle", "take"} => m \in Rows
      /\ pc[a] \in Booking \cup {"income"} => a = "booker" /\ txn[a].msg = m
  <2>1. pc[a] \in Booking \cup {"income"} => a = "booker"
    BY ActorFacts DEF Typed, AtHand, AtHandOf, PlacesOf, ParserPlaces, Booking, Workers
  <2> QED
    BY <1>1, <2>1, ActorFacts DEF Typed, AtHand, AtHandOf, Workers
<1>3. InSight(m) => InSight(m)'
  BY InSightStays
<1>4. pc' \in [Actors -> Places] /\ pc \in [Actors -> Places] /\ nxt \in [Actors -> Statuses] /\ faults \in Nat
      /\ txn \in [Actors -> Transactions]
  <2>1. EngineStep
    BY <1>2 DEF EngineStep
  <2> QED
    BY <2>1, TypeStep DEF Typed, TypeOK
<1>5. ASSUME pc'[a] \notin {"mark", "ledger", "booked", "exmark", "except"} PROVE SightOf(a)'
  BY <1>5 DEF SightOf
<1>6. ASSUME cur' = cur, InSight(m)' \/ ~Counts(m) PROVE SightOf(a)'
  <2>1. Msg(a)' = m
    BY <1>1, <1>6 DEF Msg
  <2>2. Counts(m)' = Counts(m)
    BY DEF Counts, ReadingsOf
  <2> QED
    BY <1>6, <2>1, <2>2 DEF SightOf
<1>7. CASE a = "parser" /\ ReadText
  <2>1. PICK r :
          /\ WriteSlip("parser", NoSlip, IF Bookable(m, r) THEN "parsed" ELSE "skipped")
          /\ Jump("parser", IF Bookable(m, r) \/ Refused(m, r) THEN "mark" ELSE "unmatched")
    BY <1>1, <1>7 DEF ReadText
  <2>2. CASE Bookable(m, r)
    <3>1. pc'[a] = "mark" /\ nxt'[a] = "parsed"
      BY <1>2, <1>4, <1>7, <2>1, <2>2 DEF Jump, WriteSlip
    <3> QED
      BY <3>1 DEF SightOf
  <2>3. CASE ~Bookable(m, r) /\ Refused(m, r)
    <3>1. ~Counts(m) /\ cur' = cur
      BY <1>7, <2>3 DEF ReadText, Refused, Counts
    <3> QED
      BY <1>6, <3>1
  <2>4. CASE ~Bookable(m, r) /\ ~Refused(m, r)
    BY <1>2, <1>4, <1>5, <1>7, <2>1, <2>4 DEF Jump
  <2> QED
    BY <2>2, <2>3, <2>4
<1>8. CASE StoreUnmatched(a)
  <2>1. InSight(m)'
    BY <1>1, <1>2, <1>8, ReviewedIsInSight, RowAtHandTyped DEF StoreUnmatched
  <2> QED
    BY <1>6, <1>8, <2>1 DEF StoreUnmatched
<1>9. CASE a = "booker" /\ Dispatch
  <2> DEFINE r == Parsed("booker")
  <2>1. /\ m \in Rows /\ r \in ReadingsOf(m) /\ cur' = cur
        /\ pc[a] = "validate"
    BY <1>1, <1>9, ParsedFacts DEF Dispatch
  <2>2. \/ pc'[a] \in {"unmatched", "lookup", "match"}
        \/ pc'[a] = "mark" /\ (r.type = "escort_payment" \/ m \notin FromMe)
    BY <1>1, <1>4, <1>9, ActorFacts, ParsedFacts DEF Dispatch, Jump, AccountingTypes, AmountTypes
  <2>3. r.type = "escort_payment" \/ m \notin FromMe => ~Counts(m)
    BY <2>1, DutyListIsNoAmount DEF Counts
  <2> QED
    BY <1>5, <1>6, <2>1, <2>2, <2>3
<1>10. CASE a = "booker" /\ BookIncome
  <2>1. InSight(m)'
    BY <1>2, <1>10 DEF BookIncome, InSight
  <2> QED
    BY <1>6, <1>10, <2>1 DEF BookIncome
<1>11. CASE TxnStep(a)
  <2>1. pc[a] \in Booking /\ a = "booker" /\ txn[a].msg = m
    BY <1>2, <1>11 DEF TxnStep, TxnCheck, TxnInsert, UpsertLedger, Booked, Booking
  <2>2. pc[a] \in {"ledger", "booked"} => InSight(m)' \/ ~Counts(m)
    BY <1>1, <1>3 DEF SightOf
  <2>3. CASE TxnCheck(a)
    <3>1. cur' = cur /\ (pc'[a] \in {"insert", "idle"} \/ Taken(txn[a]))
      BY <1>2, <1>4, <2>3 DEF TxnCheck, Jump
    <3>2. Taken(txn[a]) => InSight(m)
      BY <2>1, TakenFacts DEF InSight
    <3> QED
      BY <1>3, <1>5, <1>6, <3>1, <3>2
  <2>4. CASE TxnInsert(a)
    <3>1. InSight(m)' /\ cur' = cur
      <4>1. CASE Taken(txn[a])
        BY <2>1, <2>4, <4>1, TakenFacts DEF TxnInsert, InSight
      <4>2. CASE ~Taken(txn[a])
        BY <2>1, <2>4, <4>2 DEF TxnInsert, InSight
      <4> QED
        BY <4>1, <4>2
    <3> QED
      BY <1>6, <3>1
  <2>5. CASE UpsertLedger(a) \/ Booked(a)
    BY <1>6, <2>2, <2>5 DEF UpsertLedger, Booked
  <2> QED
    BY <1>11, <2>3, <2>4, <2>5 DEF TxnStep
<1>12. CASE StatementFails(a)
  <2>1. pc'[a] = "except" /\ faults' = faults + 1
    BY <1>2, <1>4, <1>12 DEF StatementFails, Raised, Jump
  <2> QED
    BY <1>4, <2>1 DEF SightOf
<1>13. CASE StoreFailed(a)
  <2>1. pc[a] = "except" /\ cur' = cur
    BY <1>13 DEF StoreFailed
  <2>2. CASE review' = Append(review, ReviewRow(Msg(a), Detected(a)))
    <3>1. InSight(m)'
      BY <1>1, <1>2, <2>1, <2>2, ReviewedIsInSight, RowAtHandTyped
    <3> QED
      BY <1>6, <2>1, <3>1
  <2>3. CASE faults < env.faults
    BY <1>1, <1>3, <1>4, <1>6, <2>1, <2>3 DEF SightOf
  <2> QED
    BY <1>13, <2>2, <2>3 DEF StoreFailed
<1>14. CASE \/ a = "parser" /\ PollPending
            \/ a = "booker" /\ (PollParsed \/ CashLookup \/ MatchEmployee)
            \/ (\E r \in batch[a] : Take(a, r)) \/ BatchDone(a) \/ BatchFails(a)
            \/ MarkNext(a) \/ MarkFailed(a)
  <2>1. pc'[a] \in {"idle", "take", "read", "validate", "check", "income", "unmatched"}
    BY <1>2, <1>4, <1>14 DEF PollPending, PollParsed, CashLookup, MatchEmployee, Take, BatchDone, BatchFails,
       MarkNext, MarkFailed, Jump
  <2> QED
    BY <1>5, <2>1
<1> QED
  BY <1>2, <1>7, <1>8, <1>9, <1>10, <1>11, <1>12, <1>13, <1>14 DEF ActorStep, WorkerStep

\* Every step keeps in sight what is or becomes final.
LEMMA SightStep ==
  ASSUME Typed, SightInv, EngineStep
  PROVE  SightInv'
<1>1. /\ BooksGrow /\ env' = env /\ env.faults \in Nat /\ faults \in Nat
      /\ faults' = faults \/ faults' = faults + 1
  BY BooksOnlyGrow, FaultsStep DEF Typed, TypeOK
<1>2. SUFFICES ASSUME env.faults <= 1
               PROVE  SettledInSight' /\ \A a \in Workers : SightOf(a)'
  BY <1>1 DEF SightInv
<1>3. SettledInSight /\ \A a \in Workers : SightOf(a)
  BY <1>2 DEF SightInv
<1>4. SettledInSight'
  <2>1. SUFFICES ASSUME NEW m \in Rows, Settled(m)', Counts(m) PROVE InSight(m)'
    BY DEF SettledInSight, Counts, ReadingsOf
  <2>2. Settled(m) => InSight(m)
    BY <1>3, <2>1 DEF SettledInSight
  <2>3. ASSUME NEW a \in Workers, Msg(a) = m,
               (MarkNext(a) /\ nxt[a] \in {"done", "skipped", "failed"}) \/ MarkFailed(a)
        PROVE  InSight(m)
    BY <1>3, <2>1, <2>3 DEF SightOf, MarkNext, MarkFailed
  <2> QED
    BY <1>1, <2>1, <2>2, <2>3, SettledStep, InSightStays
<1>5. ASSUME NEW a \in Workers PROVE SightOf(a)'
  <2>1. a \in Actors
    BY ActorFacts
  <2>2. ASSUME pc'[a] = pc[a], cur'[a] = cur[a], nxt'[a] = nxt[a] PROVE SightOf(a)'
    <3>1. PICK m : m = Msg(a)
      OBVIOUS
    <3>2. Msg(a)' = m /\ Counts(m)' = Counts(m) /\ (InSight(m) => InSight(m)')
      BY <1>1, <2>2, <3>1, InSightStays DEF Msg, Counts, ReadingsOf
    <3>3. faults >= env.faults => faults' >= env'.faults
      BY <1>1
    <3>4. SightOf(a)
      BY <1>3
    <3> QED
      BY <2>2, <3>1, <3>2, <3>3, <3>4 DEF SightOf
  <2>3. CASE Elsewhere \/ Requeued
    BY <2>2, <2>3 DEF Elsewhere, Requeued, Requeue, taskVars
  <2>4. CASE Crash
    BY <2>1, <2>4 DEF Crash, SightOf
  <2>5. ASSUME NEW b \in Actors, ActorStep(b) PROVE SightOf(a)'
    <3>1. CASE b = a
      BY <1>1, <1>2, <1>3, <2>5, <3>1, SightOfMover
    <3>2. CASE b # a
      BY <2>1, <2>2, <2>5, <3>2, OthersRest DEF Typed
    <3> QED
      BY <3>1, <3>2
  <2> QED
    BY <2>3, <2>4, <2>5 DEF EngineStep
<1> QED
  BY <1>4, <1>5

\* What the owner paid stays in sight: when a message with an amount of his is
\* through the pipeline, the amount is in the ledger or before the reviewers,
\* also when one statement, or the process, failed on the way.
THEOREM OwnersMoneyStaysInSight == Spec => []MoneyVisible
<1>1. Init => SightInv
  <2>1. ASSUME Init PROVE SettledInSight /\ \A a \in Workers : SightOf(a)
    <3>1. (\A m \in Rows : status[m] = "none") /\ \A a \in Workers : pc[a] = "idle"
      BY <2>1, ActorFacts DEF Init, ArchiveInit
    <3> QED
      BY <3>1 DEF SettledInSight, Settled, SightOf
  <2> QED
    BY <2>1 DEF SightInv
<1>2. Typed /\ SightInv /\ [Next]_vars => SightInv'
  BY StepsCovered, SightStep DEF Typed
<1>3. Typed /\ SightInv => MoneyVisible
  <2>1. SUFFICES ASSUME Typed, SettledInSight, NEW m \in Rows, Settled(m), Money(m), m \in Trusted
                 PROVE  InSight(m)
    BY DEF SightInv, MoneyVisible, InSight
  <2>2. Counts(m)
    BY <2>1 DEF Typed, AtHand, ResultsRead, Money, Counts
  <2> QED
    BY <2>1, <2>2 DEF SettledInSight
<1> QED
  BY <1>1, <1>2, <1>3, AlwaysTyped, PTL DEF Spec

-----------------------------------------------------------------------------
(* Booked once *)

\* While nothing may fail, nothing does.
LEMMA QuietStep ==
  ASSUME TypeOK, Quiet, faults = 0, EngineStep
  PROVE  /\ Quiet' /\ faults' = 0 /\ env' = env
         /\ ~Requeued /\ ~Crash /\ \A a \in Actors : ~StatementFails(a) /\ ~BatchFails(a)
<1>1. env.faults = 0 /\ ~Allowed("requeue")
  BY DEF Quiet
<1>2. env' = env /\ faults' = 0
  BY <1>1, FaultsStep
<1>3. Quiet'
  BY <1>2 DEF Quiet, Allowed
<1> QED
  BY <1>1, <1>2, <1>3 DEF Requeued, Crash, StatementFails, BatchFails

\* Who pays for a message: the booker, or a reviewer; a clerk never does.
LEMMA PaidStep ==
  ASSUME Typed, EngineStep, NEW m \in Rows
  PROVE  \/ PaidFor(m)' = PaidFor(m)
         \/ /\ TxnInsert("booker") /\ txn["booker"].msg = m
            /\ PaidFor(m)' = PaidFor(m) \cup {txn["booker"]}
         \/ \E a \in Reviewers :
              TxnInsert(a) /\ txn[a].msg = m /\ PaidFor(m)' = PaidFor(m) \cup {txn[a]}
<1>1. CASE txns' = txns
  BY <1>1 DEF PaidFor
<1>2. ASSUME NEW a \in Actors, TxnInsert(a), a # "parser", txns' = txns \cup {txn[a]},
             PaidFor(m)' # PaidFor(m)
      PROVE  /\ a = "booker" \/ a \in Reviewers
             /\ txn[a].msg = m /\ PaidFor(m)' = PaidFor(m) \cup {txn[a]}
  <2>1. a \in Clerks => txn[a].msg = NoMsg \/ txn[a].reversal
    BY <1>2 DEF Typed, AtHand, AtHandOf, TxnInsert, Booking
  <2>2. NoMsg # m
    BY ArchiveAssumption DEF NoMsg
  <2>3. CASE txn[a].msg = m /\ ~txn[a].reversal
    <3>1. a = "booker" \/ a \in Reviewers
      BY <1>2, <2>1, <2>2, <2>3, ActorFacts
    <3> QED
      BY <1>2, <2>3, <3>1 DEF PaidFor
  <2>4. CASE ~(txn[a].msg = m /\ ~txn[a].reversal)
    BY <1>2, <2>4 DEF PaidFor
  <2> QED
    BY <2>3, <2>4
<1>3. ASSUME NEW a \in Actors, TxnInsert(a), a = "booker" PROVE TxnInsert("booker")
  BY <1>3 DEF TxnInsert, Jump, Raised
<1> QED
  BY <1>1, <1>2, <1>3, TxnsStep DEF Typed

\* How the review queue moves: a worker adds a row, or a reviewer writes one.
LEMMA QueueStep ==
  ASSUME Typed, EngineStep
  PROVE  \/ review' = review
         \/ \E a \in Workers, u \in ReviewRows :
              /\ StoreUnmatched(a) \/ StoreFailed(a)
              /\ u.msg = Msg(a) /\ ~u.booked /\ review' = Append(review, u)
         \/ \E a \in Reviewers :
              /\ PromoteWrite(a) \/ DismissWrite(a)
              /\ DOMAIN review' = DOMAIN review
              /\ \A i \in DOMAIN review :
                   /\ review'[i].msg = review[i].msg
                   /\ i # cur[a][2] \/ DismissWrite(a) => review'[i].booked = review[i].booked
                   /\ i = cur[a][2] /\ PromoteWrite(a) => review'[i].booked
<1>0. TypeOK /\ \A j \in DOMAIN review : review[j] \in ReviewRows
  BY DEF Typed, TypeOK
<1>1. CASE Elsewhere \/ Requeued \/ Crash
  BY <1>1 DEF Elsewhere, Requeued, Requeue, Crash, bookVars
<1>2. ASSUME NEW a \in Workers, StoreUnmatched(a) \/ StoreFailed(a), review' # review
      PROVE  \E u \in ReviewRows : u.msg = Msg(a) /\ ~u.booked /\ review' = Append(review, u)
  <2>1. /\ ReviewRow(Msg(a), slip[a]) \in ReviewRows
        /\ ReviewRow(Msg(a), Detected(a)) \in ReviewRows
    BY <1>2, RowAtHandTyped DEF StoreUnmatched, StoreFailed
  <2>2. \/ review' = Append(review, ReviewRow(Msg(a), slip[a]))
        \/ review' = Append(review, ReviewRow(Msg(a), Detected(a)))
    BY <1>2, Zenon DEF StoreUnmatched, StoreFailed
  <2>3. \A s : ReviewRow(Msg(a), s).msg = Msg(a) /\ ~ReviewRow(Msg(a), s).booked
    BY DEF ReviewRow
  <2> QED
    BY <2>1, <2>2, <2>3
<1>3. ASSUME NEW a \in Reviewers, PromoteWrite(a) \/ DismissWrite(a)
      PROVE  /\ DOMAIN review' = DOMAIN review
             /\ \A i \in DOMAIN review :
                  /\ review'[i].msg = review[i].msg
                  /\ i # cur[a][2] \/ DismissWrite(a) => review'[i].booked = review[i].booked
                  /\ i = cur[a][2] /\ PromoteWrite(a) => review'[i].booked
  <2> DEFINE i == cur[a][2]
  <2>1. i \in DOMAIN review
    BY <1>3, ActorFacts DEF PromoteWrite, DismissWrite, Typed, AtHand, AtHandOf, Booking
  <2>2. CASE DismissWrite(a)
    <3>1. review' = [review EXCEPT ![i].state = "dismissed"] /\ ~PromoteWrite(a)
      BY <2>2 DEF DismissWrite, PromoteWrite
    <3> QED
      BY <1>0, <2>1, <2>2, <3>1 DEF ReviewRows
  <2>3. CASE PromoteWrite(a)
    <3>1. review' = [review EXCEPT ![i].state = "promoted", ![i].booked = TRUE] /\ ~DismissWrite(a)
      BY <2>3 DEF DismissWrite, PromoteWrite
    <3>2. review' = [review EXCEPT ![i] = [review[i] EXCEPT !.state = "promoted", !.booked = TRUE]]
      BY <1>0, <2>1, <3>1 DEF ReviewRows
    <3>3. DOMAIN review' = DOMAIN review /\ review'[i].msg = review[i].msg /\ review'[i].booked
      BY <1>0, <2>1, <3>2 DEF ReviewRows
    <3>4. \A j \in DOMAIN review : j # i => review'[j] = review[j]
      BY <2>1, <3>2
    <3> QED
      BY <3>1, <3>3, <3>4
  <2> QED
    BY <1>3, <2>2, <2>3
<1>4. ASSUME NEW a \in Actors, ActorStep(a),
             ~(a \in Workers /\ (StoreUnmatched(a) \/ StoreFailed(a))),
             ~(a \in Reviewers /\ (PromoteWrite(a) \/ DismissWrite(a)))
      PROVE  review' = review
  BY <1>4 DEF ActorStep, WorkerStep, TxnStep, ReviewStep, PollPending, ReadText, PollParsed, Dispatch,
     CashLookup, MatchEmployee, BookIncome, Take, BatchDone, MarkNext, MarkFailed, BatchFails,
     TxnCheck, TxnInsert, UpsertLedger, Booked, StatementFails, PromoteRead, DismissRead,
     ManualPayment, ReverseTransaction, bookVars
<1> QED
  BY <1>1, <1>2, <1>3, <1>4 DEF EngineStep

\* A row is first touched by the worker that has it.
LEMMA UntouchedStays ==
  ASSUME Typed, EngineStep, NEW m \in Rows, Untouched(m)
  PROVE  \/ Untouched(m)'
         \/ TxnInsert("booker") /\ Msg("booker") = m
         \/ \E a \in Workers : (StoreUnmatched(a) \/ StoreFailed(a)) /\ Msg(a) = m
<1>0. /\ PaidFor(m) = {} /\ \A i \in DOMAIN review : review[i].msg # m
      /\ review \in Seq(ReviewRows)
  BY DEF Untouched, RowsOf, Typed, TypeOK
<1>1. PaidFor(m)' = {} \/ (TxnInsert("booker") /\ Msg("booker") = m)
  <2>1. \A a \in Reviewers : TxnInsert(a) => txn[a].msg # m
    BY <1>0, ActorFacts DEF TxnInsert, Typed, AtHand, AtHandOf, Booking
  <2>2. TxnInsert("booker") => txn["booker"].msg = Msg("booker")
    BY ActorFacts DEF TxnInsert, Typed, AtHand, AtHandOf, Booking
  <2> QED
    BY <1>0, <2>1, <2>2, PaidStep
<1>2. \/ \A i \in DOMAIN review' : review'[i].msg # m
      \/ \E a \in Workers : (StoreUnmatched(a) \/ StoreFailed(a)) /\ Msg(a) = m
  <2>1. ASSUME NEW u \in ReviewRows, review' = Append(review, u), u.msg # m
        PROVE  \A i \in DOMAIN review' : review'[i].msg # m
    <3>1. \A i \in DOMAIN review' : review'[i] = u \/ (i \in DOMAIN review /\ review'[i] = review[i])
      BY <1>0, <2>1, AppendProperties
    <3> QED
      BY <1>0, <2>1, <3>1
  <2> QED
    BY <1>0, <2>1, QueueStep
<1> QED
  BY <1>1, <1>2 DEF Untouched, RowsOf

\* Whose step touches a row: the parser's or the booker's that has marked it.
LEMMA UntouchedKept ==
  ASSUME Typed, ParserInv, BookerInv, EngineStep, NEW m \in Rows, Untouched(m)
  PROVE  \/ Untouched(m)'
         \/ status[m] = "parsing" /\ StoreUnmatched("parser")
         \/ status[m] = "accounting" /\ (TxnInsert("booker") \/ StoreUnmatched("booker"))
<1>1. TxnInsert("booker") /\ Msg("booker") = m => status[m] = "accounting"
  BY DEF TxnInsert, BookerInv
<1>2. ASSUME NEW a \in Workers, StoreUnmatched(a) \/ StoreFailed(a), Msg(a) = m
      PROVE  \/ status[m] = "parsing" /\ StoreUnmatched("parser")
             \/ status[m] = "accounting" /\ StoreUnmatched("booker")
  <2>1. CASE a = "parser"
    <3>1. ~StoreFailed(a)
      BY <2>1 DEF StoreFailed, ParserInv
    <3>2. StoreUnmatched("parser") /\ status[m] = "parsing"
      BY <1>2, <2>1, <3>1 DEF StoreUnmatched, ParserInv, Jump, Msg, ReviewRow
    <3> QED
      BY <3>2
  <2>2. CASE a = "booker"
    <3>1. ~StoreFailed(a)
      BY <2>2 DEF StoreFailed, BookerInv
    <3>2. StoreUnmatched("booker") /\ status[m] = "accounting"
      BY <1>2, <2>2, <3>1 DEF StoreUnmatched, BookerInv, Jump, Msg, ReviewRow
    <3> QED
      BY <3>2
  <2> QED
    BY <2>1, <2>2 DEF Workers
<1> QED
  BY <1>1, <1>2, UntouchedStays

\* How a row moves through the pipeline when nothing fails.
LEMMA StatusMoves ==
  ASSUME Typed, Quiet, PipelineInv, EngineStep, NEW m \in Rows, status'[m] # status[m]
  PROVE  \/ status[m] = "none" /\ status'[m] = "pending"
         \/ /\ status[m] = "pending" /\ status'[m] = "parsing"
            /\ pc["parser"] = "take" /\ pc'["parser"] = "read"
         \/ /\ status[m] = "parsing" /\ status'[m] = nxt["parser"] /\ Msg("parser") = m
            /\ pc["parser"] = "mark" /\ pc'["parser"] = "take"
         \/ /\ status[m] = "parsed" /\ status'[m] = "accounting"
            /\ pc["booker"] = "take" /\ pc'["booker"] = "validate"
         \/ /\ status[m] = "accounting" /\ status'[m] = nxt["booker"] /\ Msg("booker") = m
            /\ pc["booker"] = "mark" /\ pc'["booker"] = "take"
<1>0. /\ status \in [Rows -> Statuses] /\ pc \in [Actors -> Places]
      /\ batch \in [Actors -> SUBSET (Rows \X Nat)]
      /\ "parser" \in Actors /\ "booker" \in Actors
  BY ActorFacts DEF Typed, TypeOK
<1>1. ~Requeued /\ ~Crash /\ \A a \in Actors : ~MarkFailed(a)
  <2>1. TypeOK /\ faults = 0 /\ ParserInv /\ BookerInv
    BY DEF Typed, PipelineInv
  <2>2. \A a \in Actors : MarkFailed(a) => a \in Workers
    BY ActorFacts DEF MarkFailed, Typed, AtHand, AtHandOf, PlacesOf, ReviewerPlaces, ClerkPlaces,
       Booking, Workers
  <2>3. \A a \in Workers : pc[a] # "exmark"
    BY <2>1 DEF Workers, ParserInv, BookerInv
  <2> QED
    BY <2>1, <2>2, <2>3, QuietStep DEF MarkFailed
<1>2. CASE Elsewhere
  BY <1>0, <1>2 DEF Elsewhere
<1>3. ASSUME NEW r \in batch["parser"], Take("parser", r)
      PROVE  status[m] = "pending" /\ status'[m] = "parsing"
             /\ pc["parser"] = "take" /\ pc'["parser"] = "read"
  BY <1>0, <1>3 DEF Take, MarkStatus, Jump, PipelineInv, ParserInv
<1>4. ASSUME NEW r \in batch["booker"], Take("booker", r)
      PROVE  status[m] = "parsed" /\ status'[m] = "accounting"
             /\ pc["booker"] = "take" /\ pc'["booker"] = "validate"
  BY <1>0, <1>4 DEF Take, MarkStatus, Jump, PipelineInv, BookerInv
<1>5. ASSUME MarkNext("parser")
      PROVE  /\ status[m] = "parsing" /\ status'[m] = nxt["parser"] /\ Msg("parser") = m
             /\ pc["parser"] = "mark" /\ pc'["parser"] = "take"
  BY <1>0, <1>5 DEF MarkNext, MarkStatus, Jump, PipelineInv, ParserInv
<1>6. ASSUME MarkNext("booker")
      PROVE  /\ status[m] = "accounting" /\ status'[m] = nxt["booker"] /\ Msg("booker") = m
             /\ pc["booker"] = "mark" /\ pc'["booker"] = "take"
  BY <1>0, <1>6 DEF MarkNext, MarkStatus, Jump, PipelineInv, BookerInv
<1>7. ASSUME NEW a \in Workers, WorkerStep(a)
      PROVE  \/ MarkNext("parser") \/ MarkNext("booker")
             \/ \E r \in batch["parser"] : Take("parser", r)
             \/ \E r \in batch["booker"] : Take("booker", r)
  <2>1. ~(BatchDone(a) \/ StoreUnmatched(a) \/ StoreFailed(a) \/ MarkFailed(a) \/ BatchFails(a))
    BY <1>1, ActorFacts DEF BatchDone, StoreUnmatched, StoreFailed, BatchFails, archiveVars
  <2>2. (\E r \in batch[a] : Take(a, r)) \/ MarkNext(a)
    BY <1>7, <2>1 DEF WorkerStep
  <2> QED
    BY <2>2 DEF Workers, Take, MarkNext, MarkStatus, Jump, Msg, WriteSlip
<1>8. ASSUME NEW a \in Actors, ActorStep(a), ~(a \in Workers /\ WorkerStep(a)) PROVE FALSE
  BY <1>8 DEF ActorStep, TxnStep, ReviewStep, PollPending, ReadText, PollParsed, Dispatch,
     CashLookup, MatchEmployee, BookIncome, TxnCheck, TxnInsert, UpsertLedger, Booked,
     StatementFails, PromoteRead, DismissRead, PromoteWrite, DismissWrite, ManualPayment,
     ReverseTransaction, archiveVars
<1> QED
  BY <1>1, <1>2, <1>3, <1>4, <1>5, <1>6, <1>7, <1>8 DEF EngineStep

\* The rows stay as they are, whoever moves.
LEMMA RowsStep ==
  ASSUME Typed, Quiet, PipelineInv, EngineStep
  PROVE  RowsInv'
<1>0. RowsInv /\ ParserInv /\ BookerInv /\ results \in [Rows -> Seq(AllReadings)]
  BY DEF PipelineInv, Typed, TypeOK
<1>1. SUFFICES ASSUME NEW m \in Rows
               PROVE  /\ status'[m] \in {"none", "pending"} => Untouched(m)' /\ results'[m] = <<>>
                      /\ status'[m] = "parsed" => Untouched(m)'
                      /\ Len(results'[m]) <= 1
  BY DEF RowsInv
<1>2. \/ results'[m] = results[m]
      \/ /\ status[m] = "parsing" /\ results[m] = <<>> /\ Len(results'[m]) <= 1
         /\ pc["parser"] = "read" /\ pc'["parser"] \in {"mark", "unmatched"}
  <2>1. ASSUME ReadText, NEW r \in ReadingsOf(Msg("parser")), Msg("parser") = m,
               results' = [results EXCEPT ![Msg("parser")] = Append(results[Msg("parser")], r)]
        PROVE  /\ status[m] = "parsing" /\ results[m] = <<>> /\ Len(results'[m]) <= 1
               /\ pc["parser"] = "read" /\ pc'["parser"] \in {"mark", "unmatched"}
    <3>1. status[m] = "parsing" /\ results[m] = <<>> /\ pc["parser"] = "read"
      BY <1>0, <2>1 DEF ReadText, ParserInv
    <3>2. Len(results'[m]) = 1
      <4>1. results'[m] = Append(results[m], r)
        BY <1>0, <2>1
      <4>2. results[m] \in Seq(AllReadings) /\ Len(results[m]) = 0 /\ r \in AllReadings
        BY <1>0, <2>1, <3>1 DEF AllReadings
      <4> QED
        BY <4>1, <4>2, AppendProperties
    <3>3. pc'["parser"] \in {"mark", "unmatched"}
      BY <2>1, ActorFacts DEF ReadText, Jump, Typed, TypeOK
    <3> QED
      BY <3>1, <3>2, <3>3
  <2>2. CASE Msg("parser") = m
    BY <2>1, <2>2, ResultsStep
  <2>3. CASE Msg("parser") # m
    BY <1>0, <2>3, ResultsStep
  <2> QED
    BY <2>2, <2>3
<1>3. CASE status'[m] = status[m]
  BY <1>0, <1>2, <1>3, UntouchedKept DEF RowsInv
<1>4. CASE status'[m] # status[m]
  <2>1. CASE status[m] = "none" /\ status'[m] = "pending"
    BY <1>0, <1>2, <2>1, UntouchedKept DEF RowsInv
  <2>2. CASE /\ status[m] = "parsing" /\ status'[m] = nxt["parser"] /\ Msg("parser") = m
             /\ pc["parser"] = "mark" /\ pc'["parser"] = "take"
    <3>1. nxt["parser"] = "skipped" \/ (nxt["parser"] = "parsed" /\ Untouched(m))
      BY <1>0, <2>2 DEF ParserInv
    <3>2. ~StoreUnmatched("parser")
      BY <2>2 DEF StoreUnmatched
    <3> QED
      BY <1>0, <1>2, <2>2, <3>1, <3>2, UntouchedKept DEF RowsInv
  <2>3. CASE \/ status'[m] \in {"parsing", "accounting"}
             \/ status'[m] = nxt["booker"] /\ pc["booker"] = "mark"
    BY <1>0, <1>2, <2>3 DEF RowsInv, BookerInv
  <2> QED
    BY <1>4, <2>1, <2>2, <2>3, StatusMoves
<1> QED
  BY <1>3, <1>4

\* The parser's rows stay as they are while others move.
LEMMA ParserRests ==
  ASSUME Typed, Quiet, PipelineInv, EngineStep,
         pc'["parser"] = pc["parser"], cur'["parser"] = cur["parser"],
         batch'["parser"] = batch["parser"], nxt'["parser"] = nxt["parser"]
  PROVE  ParserInv'
<1>0. RowsInv /\ ParserInv /\ BookerInv
  BY DEF PipelineInv
<1>1. PICK m : m = Msg("parser")
  OBVIOUS
<1>2. /\ Msg("parser")' = m
      /\ batch["parser"] \subseteq Rows \X Nat
      /\ pc["parser"] \notin {"idle", "take"} => m \in Rows
  BY <1>1, ActorFacts DEF Msg, Typed, TypeOK, AtHand, AtHandOf, Workers
<1>3. \A x \in Rows : status[x] \in {"pending", "parsing"} => status'[x] = status[x]
  BY <1>0, StatusMoves
<1>4. results' = results \/ pc["parser"] # "read"
  <2>1. ~ReadText
    BY ActorFacts DEF ReadText, Jump, Typed, TypeOK
  <2> QED
    BY <2>1, ResultsStep
<1>5. m \in Rows /\ status[m] = "parsing" /\ Untouched(m) => Untouched(m)'
  <2>1. ~StoreUnmatched("parser")
    BY ActorFacts DEF StoreUnmatched, Jump, Typed, TypeOK
  <2> QED
    BY <1>0, <2>1, UntouchedKept
<1> QED
  BY <1>0, <1>1, <1>2, <1>3, <1>4, <1>5 DEF ParserInv

\* A row the parser holds is read once, and kept or put up once.
LEMMA ParserMoves ==
  ASSUME Typed, Quiet, PipelineInv, ActorStep("parser")
  PROVE  ParserInv'
<1>0. /\ RowsInv /\ ParserInv /\ BookerInv /\ EngineStep
      /\ pc \in [Actors -> Places] /\ nxt \in [Actors -> Statuses]
      /\ cur \in [Actors -> (Rows \cup {NoRow}) \X Nat]
      /\ batch \in [Actors -> SUBSET (Rows \X Nat)] /\ status \in [Rows -> Statuses]
      /\ "parser" \in Actors
  BY ActorFacts DEF PipelineInv, Typed, TypeOK, EngineStep
<1>1. PICK m : m = Msg("parser")
  OBVIOUS
<1>2. ASSUME txns' = txns, review' = review, NEW x PROVE Untouched(x)' = Untouched(x)
  BY <1>2 DEF Untouched, PaidFor, RowsOf
<1>3. CASE PollPending
  <2>1. \A r \in batch'["parser"] : r[2] = 0 /\ status[r[1]] = "pending"
    BY <1>0, <1>3 DEF PollPending
  <2>2. status' = status /\ pc'["parser"] = "take"
    BY <1>0, <1>3 DEF PollPending, Jump, archiveVars
  <2> QED
    BY <2>1, <2>2 DEF ParserInv
<1>4. ASSUME NEW r \in batch["parser"], Take("parser", r) PROVE ParserInv'
  <2>1. /\ r \in Rows \X Nat /\ r[2] = 0 /\ status[r[1]] = "pending"
        /\ status' = [status EXCEPT ![r[1]] = "parsing"]
        /\ batch'["parser"] = batch["parser"] \ {r} /\ cur'["parser"] = r /\ pc'["parser"] = "read"
        /\ results' = results
    BY <1>0, <1>4 DEF Take, MarkStatus, Jump, ParserInv
  <2>2. Untouched(r[1])' /\ results[r[1]] = <<>>
    BY <1>0, <1>2, <1>4, <2>1 DEF RowsInv, Take
  <2>3. \A q \in batch'["parser"] : q[2] = 0 /\ status'[q[1]] = "pending"
    <3>1. ASSUME NEW q \in batch["parser"], q # r
          PROVE  q \in Rows \X Nat /\ q[2] = 0 /\ status[q[1]] = "pending" /\ q[1] # r[1]
      <4>1. q \in Rows \X Nat /\ q[2] = 0 /\ status[q[1]] = "pending"
        BY <1>0 DEF ParserInv
      <4>2. q = <<q[1], q[2]>> /\ r = <<r[1], r[2]>>
        BY <2>1, <4>1
      <4> QED
        BY <2>1, <3>1, <4>1, <4>2
    <3> QED
      BY <1>0, <2>1, <3>1
  <2>4. Msg("parser")' = r[1] /\ status'[r[1]] = "parsing"
    BY <1>0, <2>1 DEF Msg
  <2>5. Untouched(Msg("parser"))'
    BY <2>2, <2>4 DEF Untouched, PaidFor, RowsOf
  <2> QED
    BY <2>1, <2>2, <2>3, <2>4, <2>5 DEF ParserInv
<1>5. CASE ReadText
  <2>1. /\ status' = status /\ batch' = batch /\ cur' = cur /\ txns' = txns /\ review' = review
        /\ pc["parser"] = "read"
    BY <1>5 DEF ReadText, archiveVars
  <2>2. \/ pc'["parser"] = "mark" /\ nxt'["parser"] \in {"parsed", "skipped"}
        \/ pc'["parser"] = "unmatched" /\ nxt'["parser"] = "skipped"
    <3>1. PICK r :
            /\ WriteSlip("parser", NoSlip, IF Bookable(m, r) THEN "parsed" ELSE "skipped")
            /\ Jump("parser", IF Bookable(m, r) \/ Refused(m, r) THEN "mark" ELSE "unmatched")
      BY <1>1, <1>5 DEF ReadText
    <3>2. nxt'["parser"] = IF Bookable(m, r) THEN "parsed" ELSE "skipped"
      BY <1>0, <3>1 DEF WriteSlip
    <3>3. pc'["parser"] = IF Bookable(m, r) \/ Refused(m, r) THEN "mark" ELSE "unmatched"
      BY <1>0, <3>1 DEF Jump
    <3> QED
      BY <3>2, <3>3
  <2>3. Msg("parser")' = m /\ status[m] = "parsing" /\ Untouched(m)'
    BY <1>0, <1>1, <1>2, <2>1 DEF Msg, ParserInv
  <2>4. Untouched(Msg("parser"))'
    BY <2>3 DEF Untouched, PaidFor, RowsOf
  <2> QED
    BY <1>0, <2>1, <2>2, <2>3, <2>4 DEF ParserInv
<1>6. CASE BatchDone("parser")
  <2>1. status' = status /\ batch' = batch /\ pc'["parser"] = "idle"
    BY <1>0, <1>6 DEF BatchDone, Jump, archiveVars
  <2> QED
    BY <1>0, <2>1 DEF ParserInv
<1>7. CASE StoreUnmatched("parser")
  <2>1. status' = status /\ batch' = batch /\ cur' = cur /\ nxt' = nxt /\ pc["parser"] = "unmatched"
        /\ pc'["parser"] = "mark"
    BY <1>0, <1>7 DEF StoreUnmatched, Jump, archiveVars
  <2>2. Msg("parser")' = m
    BY <1>1, <2>1 DEF Msg
  <2> QED
    BY <1>0, <1>1, <2>1, <2>2 DEF ParserInv
<1>8. CASE MarkNext("parser")
  <2>1. /\ m \in Rows /\ status[m] = "parsing" /\ batch' = batch /\ pc'["parser"] = "take"
        /\ status' = [status EXCEPT ![m] = nxt["parser"]]
    BY <1>0, <1>1, <1>8, ActorFacts
       DEF MarkNext, MarkStatus, Jump, ParserInv, Typed, AtHand, AtHandOf, Workers
  <2>2. \A r \in batch["parser"] : r[1] \in Rows /\ r[1] # m
    BY <1>0, <2>1 DEF ParserInv
  <2> QED
    BY <1>0, <2>1, <2>2 DEF ParserInv
<1>9. ~StatementFails("parser") /\ ~BatchFails("parser") /\ ~StoreFailed("parser") /\ ~MarkFailed("parser")
  <2>1. ~StatementFails("parser") /\ ~BatchFails("parser")
    BY <1>0, QuietStep DEF Typed, PipelineInv
  <2> QED
    BY <1>0, <2>1 DEF StoreFailed, MarkFailed, ParserInv
<1> QED
  BY <1>3, <1>4, <1>5, <1>6, <1>7, <1>8, <1>9, ActorFacts DEF ActorStep, WorkerStep

\* The booker's rows stay as they are while others move.
LEMMA BookerRests ==
  ASSUME Typed, Quiet, PipelineInv, EngineStep,
         pc'["booker"] = pc["booker"], cur'["booker"] = cur["booker"],
         batch'["booker"] = batch["booker"], nxt'["booker"] = nxt["booker"]
  PROVE  BookerInv'
<1>0. RowsInv /\ ParserInv /\ BookerInv
  BY DEF PipelineInv
<1>1. PICK m : m = Msg("booker")
  OBVIOUS
<1>2. /\ Msg("booker")' = m
      /\ batch["booker"] \subseteq Rows \X Nat
      /\ pc["booker"] \notin {"idle", "take"} => m \in Rows
  BY <1>1, ActorFacts DEF Msg, Typed, TypeOK, AtHand, AtHandOf, Workers
<1>3. \A x \in Rows : status[x] \in {"parsed", "accounting"} => status'[x] = status[x]
  BY <1>0, StatusMoves
<1>4. m \in Rows /\ status[m] = "accounting" /\ Untouched(m) => Untouched(m)'
  <2>1. ~StoreUnmatched("booker")
    BY ActorFacts DEF StoreUnmatched, Jump, Typed, TypeOK
  <2>2. ~TxnInsert("booker")
    <3>1. TxnInsert("booker") => pc'["booker"] \in {"except", "ledger"}
      BY ActorFacts DEF TxnInsert, Jump, Raised, Workers, Typed, TypeOK
    <3> QED
      BY <3>1 DEF TxnInsert
  <2> QED
    BY <1>0, <2>1, <2>2, UntouchedKept
<1> QED
  BY <1>0, <1>1, <1>2, <1>3, <1>4 DEF BookerInv

\* A row the booker holds is booked or put up, and then it is through.
LEMMA BookerMoves ==
  ASSUME Typed, Quiet, PipelineInv, ActorStep("booker")
  PROVE  BookerInv'
<1>0. /\ RowsInv /\ ParserInv /\ BookerInv /\ EngineStep
      /\ pc \in [Actors -> Places] /\ nxt \in [Actors -> Statuses]
      /\ cur \in [Actors -> (Rows \cup {NoRow}) \X Nat]
      /\ batch \in [Actors -> SUBSET (Rows \X Nat)] /\ status \in [Rows -> Statuses]
      /\ results \in [Rows -> Seq(AllReadings)]
      /\ "booker" \in Actors
  BY ActorFacts DEF PipelineInv, Typed, TypeOK, EngineStep
<1>1. PICK m : m = Msg("booker")
  OBVIOUS
<1>2. ASSUME txns' = txns, review' = review, NEW x PROVE Untouched(x)' = Untouched(x)
  BY <1>2 DEF Untouched, PaidFor, RowsOf
<1>3. ASSUME status' = status, batch' = batch, cur' = cur, pc["booker"] \notin {"idle", "take"},
             pc'["booker"] \notin {"except", "exmark"},
             pc'["booker"] \in {"unmatched", "mark"} => nxt'["booker"] \in {"done", "skipped", "failed"},
             \/ pc'["booker"] \notin {"validate", "lookup", "match", "income", "unmatched", "check", "insert"}
             \/ txns' = txns /\ review' = review /\ Untouched(m)
      PROVE  BookerInv'
  <2>1. Msg("booker")' = m
    BY <1>1, <1>3 DEF Msg
  <2>2. txns' = txns /\ review' = review /\ Untouched(m) => Untouched(Msg("booker"))'
    BY <1>2, <2>1 DEF Untouched, PaidFor, RowsOf
  <2> QED
    BY <1>0, <1>1, <1>3, <2>1, <2>2 DEF BookerInv
<1>4. CASE PollParsed
  <2>1. \A r \in batch'["booker"] : r[2] = 1 /\ status[r[1]] = "parsed"
    <3> DEFINE all == UNION {{<<x, k>> : k \in DOMAIN results[x]} :
                       x \in {y \in Rows : status[y] = "parsed" /\ attempts[y] < MaxAttempts}}
    <3>1. batch'["booker"] \subseteq all
      BY <1>0, <1>4 DEF PollParsed
    <3>2. \A r \in all : r[2] = 1 /\ status[r[1]] = "parsed"
      <4>1. \A x \in Rows : \A k \in DOMAIN results[x] : k = 1
        BY <1>0 DEF RowsInv
      <4> QED
        BY <4>1
    <3> QED
      BY <3>1, <3>2
  <2>2. status' = status /\ pc'["booker"] = "take"
    BY <1>0, <1>4 DEF PollParsed, Jump, archiveVars
  <2> QED
    BY <2>1, <2>2 DEF BookerInv
<1>5. ASSUME NEW r \in batch["booker"], Take("booker", r) PROVE BookerInv'
  <2>1. /\ r \in Rows \X Nat /\ r[2] = 1 /\ status[r[1]] = "parsed"
        /\ status' = [status EXCEPT ![r[1]] = "accounting"]
        /\ batch'["booker"] = batch["booker"] \ {r} /\ cur'["booker"] = r /\ pc'["booker"] = "validate"
    BY <1>0, <1>5 DEF Take, MarkStatus, Jump, BookerInv
  <2>2. Untouched(r[1])'
    BY <1>0, <1>2, <1>5, <2>1 DEF RowsInv, Take
  <2>3. \A q \in batch'["booker"] : q[2] = 1 /\ status'[q[1]] = "parsed"
    <3>1. ASSUME NEW q \in batch["booker"], q # r
          PROVE  q \in Rows \X Nat /\ q[2] = 1 /\ status[q[1]] = "parsed" /\ q[1] # r[1]
      <4>1. q \in Rows \X Nat /\ q[2] = 1 /\ status[q[1]] = "parsed"
        BY <1>0 DEF BookerInv
      <4>2. q = <<q[1], q[2]>> /\ r = <<r[1], r[2]>>
        BY <2>1, <4>1
      <4> QED
        BY <2>1, <3>1, <4>1, <4>2
    <3> QED
      BY <1>0, <2>1, <3>1
  <2>4. Msg("booker")' = r[1] /\ status'[r[1]] = "accounting"
    BY <1>0, <2>1 DEF Msg
  <2>5. Untouched(Msg("booker"))'
    BY <2>2, <2>4 DEF Untouched, PaidFor, RowsOf
  <2> QED
    BY <2>1, <2>3, <2>4, <2>5 DEF BookerInv
<1>6. CASE BatchDone("booker")
  <2>1. status' = status /\ batch' = batch /\ pc'["booker"] = "idle"
    BY <1>0, <1>6 DEF BatchDone, Jump, archiveVars
  <2> QED
    BY <1>0, <2>1 DEF BookerInv
<1>7. CASE Dispatch
  <2>1. \/ pc'["booker"] \in {"unmatched", "mark"} /\ nxt'["booker"] \in {"done", "skipped"}
        \/ pc'["booker"] \in {"lookup", "match"}
    <3> DEFINE r == Parsed("booker")
               ok == ValidForAccounting(r)
               foreign == r.type = "payment" /\ m \notin FromMe
    <3>1. nxt'["booker"] = IF ok /\ r.type = "escort_payment" THEN "done"
                           ELSE IF ~ok \/ foreign THEN "skipped" ELSE "none"
      BY <1>0, <1>1, <1>7 DEF Dispatch, WriteSlip
    <3>2. pc'["booker"] = CASE ~ok -> "unmatched"
                            [] ok /\ (r.type = "escort_payment" \/ foreign) -> "mark"
                            [] ok /\ r.type = "cash_command" -> "lookup"
                            [] ok /\ r.type # "escort_payment" /\ ~foreign /\ r.type # "cash_command" -> "match"
      BY <1>0, <1>1, <1>7 DEF Dispatch, Jump
    <3>3. CASE ~ok
      BY <3>1, <3>2, <3>3
    <3>4. CASE ok /\ (r.type = "escort_payment" \/ foreign)
      BY <3>1, <3>2, <3>4
    <3>5. CASE ok /\ r.type # "escort_payment" /\ ~foreign
      BY <3>2, <3>5
    <3> QED
      BY <3>3, <3>4, <3>5
  <2>2. Untouched(m)
    BY <1>0, <1>1, <1>7 DEF Dispatch, BookerInv
  <2> QED
    BY <1>3, <1>7, <2>1, <2>2 DEF Dispatch, archiveVars
<1>8. CASE CashLookup \/ MatchEmployee
  <2>1. \/ pc'["booker"] \in {"check", "income"}
        \/ pc'["booker"] = "unmatched" /\ nxt'["booker"] \in {"skipped", "failed"}
    BY <1>0, <1>8 DEF CashLookup, MatchEmployee, Jump, WriteSlip
  <2>2. Untouched(m)
    BY <1>0, <1>1, <1>8 DEF CashLookup, MatchEmployee, BookerInv
  <2>3. /\ status' = status /\ batch' = batch /\ cur' = cur /\ pc["booker"] \notin {"idle", "take"}
        /\ txns' = txns /\ review' = review
    BY <1>8 DEF CashLookup, MatchEmployee, archiveVars, bookVars
  <2> QED
    BY <1>3, <2>1, <2>2, <2>3
<1>9. CASE BookIncome
  <2>1. pc'["booker"] = "mark" /\ nxt'["booker"] = "done"
    BY <1>0, <1>9 DEF BookIncome, Jump, WriteSlip
  <2> QED
    BY <1>3, <1>9, <2>1 DEF BookIncome, archiveVars
<1>10. CASE StoreUnmatched("booker")
  <2>1. pc'["booker"] = "mark" /\ nxt'["booker"] = nxt["booker"]
    BY <1>0, <1>10 DEF StoreUnmatched, Jump
  <2>2. nxt["booker"] \in {"done", "skipped", "failed"}
    BY <1>0, <1>10 DEF StoreUnmatched, BookerInv
  <2> QED
    BY <1>3, <1>10, <2>1, <2>2 DEF StoreUnmatched, archiveVars
<1>11. CASE MarkNext("booker")
  <2>1. /\ m \in Rows /\ status[m] = "accounting" /\ batch' = batch /\ pc'["booker"] = "take"
        /\ status' = [status EXCEPT ![m] = nxt["booker"]]
    BY <1>0, <1>1, <1>11, ActorFacts
       DEF MarkNext, MarkStatus, Jump, BookerInv, Typed, AtHand, AtHandOf, Workers
  <2>2. \A r \in batch["booker"] : r[1] \in Rows /\ r[1] # m
    BY <1>0, <2>1 DEF BookerInv
  <2> QED
    BY <1>0, <2>1, <2>2 DEF BookerInv
<1>12. CASE TxnStep("booker")
  <2>1. pc["booker"] \in {"check", "insert"} => ~Taken(txn["booker"]) /\ ~txn["booker"].reversal /\ Untouched(m)
    <3>1. pc["booker"] \in {"check", "insert"} => txn["booker"].msg = m /\ ~txn["booker"].reversal
      BY <1>1, ActorFacts DEF Typed, AtHand, AtHandOf, Booking
    <3>2. pc["booker"] \in {"check", "insert"} => Untouched(m)
      BY <1>0, <1>1 DEF BookerInv
    <3> QED
      BY <3>1, <3>2, TakenFacts DEF Untouched, PaidFor
  <2>2. /\ status' = status /\ batch' = batch /\ cur' = cur /\ pc["booker"] \notin {"idle", "take"}
    BY <1>12 DEF TxnStep, TxnCheck, TxnInsert, UpsertLedger, Booked, archiveVars
  <2>3. \/ pc["booker"] = "check" /\ pc'["booker"] = "insert" /\ txns' = txns /\ review' = review
        \/ pc'["booker"] \in {"ledger", "booked"}
        \/ pc'["booker"] = "mark" /\ nxt'["booker"] = "done"
    BY <1>0, <1>12, <2>1 DEF TxnStep, TxnCheck, TxnInsert, UpsertLedger, Booked, Jump, WriteSlip, bookVars
  <2> QED
    BY <1>3, <2>1, <2>2, <2>3
<1>13. ~StatementFails("booker") /\ ~BatchFails("booker") /\ ~StoreFailed("booker") /\ ~MarkFailed("booker")
  <2>1. ~StatementFails("booker") /\ ~BatchFails("booker")
    BY <1>0, QuietStep DEF Typed, PipelineInv
  <2> QED
    BY <1>0, <2>1 DEF StoreFailed, MarkFailed, BookerInv
<1> QED
  BY <1>4, <1>5, <1>6, <1>7, <1>8, <1>9, <1>10, <1>11, <1>12, <1>13, ActorFacts DEF ActorStep, WorkerStep

\* The pipeline takes a row through once.
LEMMA PipelineStep ==
  ASSUME Typed, Quiet, PipelineInv, EngineStep
  PROVE  PipelineInv'
<1>0. faults' = 0 /\ TypeOK /\ ~Requeued /\ ~Crash
  BY QuietStep DEF Typed, PipelineInv
<1>1. RowsInv'
  BY RowsStep
<1>2. CASE Elsewhere
  <2>1. UNCHANGED <<pc, cur, batch, nxt>>
    BY <1>2 DEF Elsewhere, taskVars
  <2> QED
    BY <1>0, <1>1, <2>1, ParserRests, BookerRests DEF PipelineInv
<1>3. ASSUME NEW a \in Actors, ActorStep(a), a # "parser" PROVE ParserInv'
  BY <1>0, <1>3, OthersRest, ParserRests, ActorFacts
<1>4. ASSUME NEW a \in Actors, ActorStep(a), a # "booker" PROVE BookerInv'
  BY <1>0, <1>4, OthersRest, BookerRests, ActorFacts
<1>5. ASSUME ActorStep("parser") PROVE PipelineInv'
  BY <1>0, <1>1, <1>4, <1>5, ParserMoves, ActorFacts DEF PipelineInv
<1>6. ASSUME ActorStep("booker") PROVE PipelineInv'
  BY <1>0, <1>1, <1>3, <1>6, BookerMoves, ActorFacts DEF PipelineInv
<1>7. ASSUME NEW a \in Actors, ActorStep(a), a # "parser", a # "booker" PROVE PipelineInv'
  BY <1>0, <1>1, <1>3, <1>4, <1>7 DEF PipelineInv
<1>8. ASSUME NEW a \in Actors, ActorStep(a), a = "parser" \/ a = "booker"
      PROVE  ActorStep("parser") \/ ActorStep("booker")
  BY <1>8
<1> QED
  BY <1>0, <1>2, <1>5, <1>6, <1>7, <1>8 DEF EngineStep

\* One reviewer at the desk.
LEMMA OneAtTheDesk ==
  ASSUME Quiet, NEW a \in Reviewers, NEW b \in Reviewers, a \in env.desk, b \in env.desk
  PROVE  a = b
<1> DEFINE S == Reviewers \cap env.desk
<1>1. IsFiniteSet(S) /\ Cardinality(S) \in Nat /\ Cardinality(S) <= 1
  <2>1. IsFiniteSet(S)
    BY ActorsAssumption, FS_Subset
  <2> QED
    BY <2>1, FS_CardinalityType DEF Quiet
<1>2. Cardinality(S) = 1
  BY <1>1, FS_EmptySet
<1>3. PICK x : S = {x}
  BY <1>1, <1>2, FS_Singleton
<1> QED
  BY <1>3

\* What a step does to a reviewer's task while nothing fails.
LEMMA ReviewerMoves ==
  ASSUME Typed, Quiet, faults = 0, EngineStep, NEW a \in Reviewers
  PROVE  \/ pc'[a] = pc[a] /\ cur'[a] = cur[a]
         \/ /\ pc[a] = "idle" /\ a \in env.desk /\ review' = review /\ txns' = txns
            /\ \/ /\ pc'[a] = "check" /\ cur'[a][2] \in DOMAIN review
                  /\ ~review[cur'[a][2]].booked
               \/ pc'[a] = "dismiss"
         \/ /\ pc[a] = "check" /\ pc'[a] \in {"idle", "insert", "booked"} /\ cur'[a] = cur[a]
            /\ review' = review /\ txns' = txns
            /\ pc'[a] = "booked" => Taken(txn[a])
         \/ /\ pc[a] = "insert" /\ TxnInsert(a) /\ cur'[a] = cur[a]
            /\ pc'[a] = IF Taken(txn[a]) THEN "idle" ELSE "ledger"
         \/ pc[a] = "ledger" /\ pc'[a] = "booked" /\ cur'[a] = cur[a]
         \/ pc[a] = "booked" /\ PromoteWrite(a) /\ pc'[a] = "idle"
         \/ pc[a] = "dismiss" /\ pc'[a] = "idle"
<1>0. /\ TypeOK /\ a \in Actors /\ a \notin Workers /\ a \notin Clerks
      /\ pc \in [Actors -> Places] /\ cur \in [Actors -> (Rows \cup {NoRow}) \X Nat]
      /\ ~Requeued /\ ~Crash /\ ~StatementFails(a)
      /\ pc[a] \in Booking => ~txn[a].reversal
  BY ActorFacts, QuietStep DEF Typed, TypeOK, AtHand, AtHandOf, Workers
<1>1. CASE Elsewhere
  BY <1>1 DEF Elsewhere, taskVars
<1>2. ASSUME NEW b \in Actors, ActorStep(b), b # a PROVE pc'[a] = pc[a] /\ cur'[a] = cur[a]
  BY <1>0, <1>2, OthersRest
<1>3. ASSUME TxnStep(a)
      PROVE  \/ /\ pc[a] = "check" /\ pc'[a] \in {"idle", "insert", "booked"} /\ cur'[a] = cur[a]
                /\ review' = review /\ txns' = txns
                /\ pc'[a] = "booked" => Taken(txn[a])
             \/ /\ pc[a] = "insert" /\ TxnInsert(a) /\ cur'[a] = cur[a]
                /\ pc'[a] = IF Taken(txn[a]) THEN "idle" ELSE "ledger"
             \/ pc[a] = "ledger" /\ pc'[a] = "booked" /\ cur'[a] = cur[a]
  <2>1. CASE TxnCheck(a)
    BY <1>0, <2>1 DEF TxnCheck, Jump, bookVars
  <2>2. CASE TxnInsert(a)
    <3>1. cur' = cur /\ pc[a] = "insert" /\ pc'[a] = IF Taken(txn[a]) THEN "idle" ELSE "ledger"
      BY <1>0, <2>2 DEF TxnInsert, Jump, Raised
    <3> QED
      BY <2>2, <3>1
  <2>3. CASE UpsertLedger(a)
    BY <1>0, <2>3 DEF UpsertLedger, Jump
  <2> QED
    BY <1>3, <2>1, <2>2, <2>3 DEF TxnStep, Booked
<1>4. ASSUME ReviewStep(a), pc[a] = "idle" => a \in env.desk
      PROVE  \/ /\ pc[a] = "idle" /\ a \in env.desk /\ review' = review /\ txns' = txns
                /\ \/ /\ pc'[a] = "check" /\ cur'[a][2] \in DOMAIN review
                      /\ ~review[cur'[a][2]].booked
                   \/ pc'[a] = "dismiss"
             \/ pc[a] = "booked" /\ PromoteWrite(a) /\ pc'[a] = "idle"
             \/ pc[a] = "dismiss" /\ pc'[a] = "idle"
  <2>1. ASSUME NEW i \in DOMAIN review, NEW e \in Emps, NEW o \in Amounts \cup {0}, NEW c \in Kinds, PromoteRead(a, i, e, o, c)
        PROVE  /\ pc[a] = "idle" /\ review' = review /\ txns' = txns
               /\ pc'[a] = "check" /\ cur'[a][2] \in DOMAIN review /\ ~review[cur'[a][2]].booked
    BY <1>0, <2>1 DEF PromoteRead, Promotable, Jump, bookVars
  <2>2. ASSUME NEW i \in DOMAIN review, DismissRead(a, i)
        PROVE  pc[a] = "idle" /\ review' = review /\ txns' = txns /\ pc'[a] = "dismiss"
    BY <1>0, <2>2 DEF DismissRead, Jump, bookVars
  <2>3. CASE PromoteWrite(a)
    <3>1. pc[a] = "booked" /\ pc'[a] = "idle"
      BY <1>0, <2>3 DEF PromoteWrite, Jump
    <3> QED
      BY <2>3, <3>1
  <2>4. CASE DismissWrite(a)
    BY <1>0, <2>4 DEF DismissWrite, Jump
  <2> QED
    BY <1>4, <2>1, <2>2, <2>3, <2>4 DEF ReviewStep
<1>5. ASSUME ActorStep(a) PROVE TxnStep(a) \/ (ReviewStep(a) /\ (pc[a] = "idle" => a \in env.desk))
  BY <1>0, <1>5, ActorFacts DEF ActorStep
<1>6. ASSUME NEW b \in Actors, ActorStep(b), b = a PROVE ActorStep(a)
  BY <1>6
<1> QED
  BY <1>0, <1>1, <1>2, <1>3, <1>4, <1>5, <1>6 DEF EngineStep

\* The message of a row in the queue is not a worker's to pay or put up.
LEMMA QueuedIsTouched ==
  ASSUME NEW i \in DOMAIN review
  PROVE  ~Untouched(review[i].msg)
BY DEF Untouched, RowsOf

\* Whoever pays for a message is the first.
LEMMA PaidFirst ==
  ASSUME Typed, PipelineInv, DeskInv, EngineStep, NEW m \in Rows, PaidFor(m)' # PaidFor(m)
  PROVE  /\ PaidFor(m) = {}
         /\ \/ TxnInsert("booker") /\ Untouched(m) /\ PaidFor(m)' = {txn["booker"]}
            \/ \E a \in Reviewers :
                 /\ TxnInsert(a) /\ review[cur[a][2]].msg = m /\ cur[a][2] \in DOMAIN review
                 /\ ~Taken(txn[a]) /\ PaidFor(m)' = {txn[a]}
<1>1. CASE /\ TxnInsert("booker") /\ txn["booker"].msg = m
           /\ PaidFor(m)' = PaidFor(m) \cup {txn["booker"]}
  <2>1. Msg("booker") = m
    BY <1>1, ActorFacts DEF TxnInsert, Typed, AtHand, AtHandOf, Booking
  <2>2. Untouched(m)
    BY <1>1, <2>1 DEF TxnInsert, PipelineInv, BookerInv
  <2> QED
    BY <1>1, <2>2 DEF Untouched
<1>2. ASSUME NEW a \in Reviewers, TxnInsert(a), txn[a].msg = m, PaidFor(m)' = PaidFor(m) \cup {txn[a]}
      PROVE  /\ PaidFor(m) = {} /\ review[cur[a][2]].msg = m /\ cur[a][2] \in DOMAIN review
             /\ ~Taken(txn[a])
  <2>1. /\ review[cur[a][2]].msg = m /\ cur[a][2] \in DOMAIN review /\ ~txn[a].reversal
        /\ pc[a] = "insert"
    BY <1>2, ActorFacts DEF TxnInsert, Typed, AtHand, AtHandOf, Booking
  <2>2. PaidFor(m) = {}
    BY <2>1 DEF DeskInv, PromotionIsFirst
  <2> QED
    BY <1>2, <2>1, <2>2, TakenFacts DEF PaidFor
<1> QED
  BY <1>1, <1>2, PaidStep

\* A row that is put up is the first of its message, which nobody has paid.
LEMMA PutUpFirst ==
  ASSUME Typed, PipelineInv, EngineStep,
         NEW a \in Workers, StoreUnmatched(a) \/ StoreFailed(a)
  PROVE  /\ Msg(a) \in Rows /\ Untouched(Msg(a)) /\ txns' = txns
<1>1. pc[a] # "except"
  BY DEF PipelineInv, ParserInv, BookerInv, Workers
<1>2. StoreUnmatched(a) /\ pc[a] = "unmatched"
  BY <1>1 DEF StoreFailed, StoreUnmatched
<1>3. Msg(a) \in Rows
  BY <1>2, ActorFacts DEF Typed, AtHand, AtHandOf
<1>4. Untouched(Msg(a))
  BY <1>2 DEF PipelineInv, ParserInv, BookerInv, Workers
<1> QED
  BY <1>2, <1>3, <1>4 DEF StoreUnmatched

\* A queued row stays, or is the one that was just put up.
LEMMA QueuedRows ==
  ASSUME Typed, PipelineInv, EngineStep, NEW i \in DOMAIN review'
  PROVE  \/ i \in DOMAIN review /\ review'[i].msg = review[i].msg
         \/ /\ i \notin DOMAIN review /\ review'[i].msg \in Rows /\ Untouched(review'[i].msg)
            /\ txns' = txns /\ ~review'[i].booked /\ \A j \in DOMAIN review' \ {i} : j \in DOMAIN review
<1>0. review \in Seq(ReviewRows)
  BY DEF Typed, TypeOK
<1>1. ASSUME NEW a \in Workers, NEW u \in ReviewRows, StoreUnmatched(a) \/ StoreFailed(a),
             u.msg = Msg(a), ~u.booked, review' = Append(review, u)
      PROVE  \/ i \in DOMAIN review /\ review'[i].msg = review[i].msg
             \/ /\ i \notin DOMAIN review /\ review'[i].msg \in Rows /\ Untouched(review'[i].msg)
                /\ txns' = txns /\ ~review'[i].booked /\ \A j \in DOMAIN review' \ {i} : j \in DOMAIN review
  <2>1. Msg(a) \in Rows /\ Untouched(Msg(a)) /\ txns' = txns
    BY <1>1, PutUpFirst
  <2>2. CASE i \in DOMAIN review
    BY <1>0, <1>1, <2>2, AppendProperties
  <2>3. CASE i \notin DOMAIN review
    <3>1. review'[i] = u /\ \A j \in DOMAIN review' \ {i} : j \in DOMAIN review
      BY <1>0, <1>1, <2>3, AppendProperties
    <3>2. review'[i].msg = Msg(a)
      BY <1>1, <3>1
    <3> QED
      BY <1>1, <2>1, <2>3, <3>1, <3>2
  <2> QED
    BY <2>2, <2>3
<1> QED
  BY <1>1, QueueStep

\* The desk stays as it is.
LEMMA DeskStep ==
  ASSUME Typed, Quiet, PipelineInv, DeskInv, EngineStep
  PROVE  DeskInv'
<1>0. /\ TypeOK /\ faults = 0 /\ env' = env /\ BooksGrow /\ review \in Seq(ReviewRows)
      /\ AtTheDesk /\ PaidOnce /\ OneRowEach /\ PaidShows /\ PromotionIsFirst
      /\ \A i \in DOMAIN review : review[i].msg \in Rows
  <2>1. \A i \in DOMAIN review : review[i] \in ReviewRows
    BY DEF Typed, TypeOK
  <2> QED
    BY <2>1, QuietStep, BooksOnlyGrow DEF DeskInv, PipelineInv, Typed, TypeOK, ReviewRows
<1>1. AtTheDesk'
  <2>1. ASSUME NEW a \in Reviewers, pc'[a] # "idle" PROVE a \in env.desk
    BY <1>0, <2>1, ReviewerMoves DEF AtTheDesk
  <2> QED
    BY <1>0, <2>1 DEF AtTheDesk
<1>2. PaidOnce'
  <2>1. ASSUME NEW m \in Rows PROVE \A t, u \in PaidFor(m)' : t = u
    <3>1. CASE PaidFor(m)' = PaidFor(m)
      BY <1>0, <3>1 DEF PaidOnce
    <3>2. CASE PaidFor(m)' # PaidFor(m)
      <4>1. \E x : PaidFor(m)' = {x}
        BY <3>2, PaidFirst
      <4> QED
        BY <4>1
    <3> QED
      BY <3>1, <3>2
  <2> QED
    BY <2>1 DEF PaidOnce
<1>3. OneRowEach'
  <2>1. ASSUME NEW i \in DOMAIN review', NEW j \in DOMAIN review', review'[i].msg = review'[j].msg, i # j
        PROVE  FALSE
    <3>1. CASE i \in DOMAIN review /\ j \in DOMAIN review
      BY <1>0, <2>1, <3>1 DEF OneRowEach, BooksGrow
    <3>2. CASE i \notin DOMAIN review
      <4>1. j \in DOMAIN review /\ Untouched(review'[i].msg)
        BY <2>1, <3>2, QueuedRows
      <4>2. review[j].msg = review'[i].msg
        BY <1>0, <2>1, <4>1 DEF BooksGrow
      <4> QED
        BY <4>1, <4>2, QueuedIsTouched
    <3>3. CASE j \notin DOMAIN review
      <4>1. i \in DOMAIN review /\ Untouched(review'[j].msg)
        BY <2>1, <3>3, QueuedRows
      <4>2. review[i].msg = review'[j].msg
        BY <1>0, <2>1, <4>1 DEF BooksGrow
      <4> QED
        BY <4>1, <4>2, QueuedIsTouched
    <3> QED
      BY <3>1, <3>2, <3>3
  <2> QED
    BY <2>1 DEF OneRowEach
<1>4. PaidShows'
  <2>1. ASSUME NEW i \in DOMAIN review', NEW m, m = review'[i].msg, PaidFor(m)' # {}
        PROVE  \/ review'[i].booked
               \/ \E a \in Reviewers : pc'[a] \in {"ledger", "booked"} /\ cur'[a][2] = i
    <3>1. i \in DOMAIN review /\ review[i].msg = m /\ m \in Rows
      <4>1. CASE i \in DOMAIN review
        BY <1>0, <2>1, <4>1 DEF BooksGrow
      <4>2. CASE i \notin DOMAIN review
        <5>1. Untouched(m) /\ txns' = txns
          BY <2>1, <4>2, QueuedRows
        <5> QED
          BY <2>1, <5>1 DEF Untouched, PaidFor
      <4> QED
        BY <4>1, <4>2
    <3>2. CASE PaidFor(m)' = PaidFor(m)
      <4>1. \/ review[i].booked
            \/ \E a \in Reviewers : pc[a] \in {"ledger", "booked"} /\ cur[a][2] = i
        BY <1>0, <2>1, <3>1, <3>2 DEF PaidShows
      <4>2. CASE review[i].booked
        BY <1>0, <3>1, <4>2 DEF BooksGrow
      <4>3. ASSUME NEW a \in Reviewers, pc[a] \in {"ledger", "booked"}, cur[a][2] = i
            PROVE  \/ review'[i].booked
                   \/ pc'[a] \in {"ledger", "booked"} /\ cur'[a][2] = i
        <5>1. \/ pc'[a] \in {"ledger", "booked"} /\ cur'[a] = cur[a]
              \/ PromoteWrite(a)
          BY <1>0, <4>3, ReviewerMoves
        <5>2. PromoteWrite(a) => review'[i].booked
          <6>1. SUFFICES ASSUME PromoteWrite(a) PROVE review'[i].booked
            OBVIOUS
          <6>2. review[i] \in ReviewRows
            BY <1>0, <3>1
          <6> QED
            BY <1>0, <3>1, <4>3, <6>1, <6>2 DEF PromoteWrite, ReviewRows
        <5> QED
          BY <4>3, <5>1, <5>2
      <4> QED
        BY <4>1, <4>2, <4>3
    <3>3. CASE PaidFor(m)' # PaidFor(m)
      <4>1. ~Untouched(m)
        BY <3>1, QueuedIsTouched
      <4>2. PICK a \in Reviewers : /\ TxnInsert(a) /\ review[cur[a][2]].msg = m /\ cur[a][2] \in DOMAIN review
                                   /\ ~Taken(txn[a])
        BY <3>1, <3>3, <4>1, PaidFirst
      <4>3. cur[a][2] = i
        BY <1>0, <3>1, <4>2 DEF OneRowEach
      <4>4. pc'[a] = "ledger" /\ cur'[a] = cur[a]
        <5>1. a \in Actors /\ pc \in [Actors -> Places]
          BY <1>0, ActorFacts DEF TypeOK
        <5> QED
          BY <4>2, <5>1 DEF TxnInsert, Jump
      <4> QED
        BY <4>3, <4>4
    <3> QED
      BY <3>2, <3>3
  <2>2. ASSUME NEW i \in DOMAIN review', PaidFor(review[i].msg)' # {}
        PROVE  \/ review'[i].booked
               \/ \E a \in Reviewers : pc'[a] \in {"ledger", "booked"} /\ cur'[a][2] = i
    <3>1. PICK m : m = review'[i].msg
      OBVIOUS
    <3>2. PaidFor(m)' # {}
      BY <2>2, <3>1 DEF PaidFor
    <3> QED
      BY <2>1, <3>1, <3>2
  <2> QED
    BY <2>2 DEF PaidShows
<1>5. PromotionIsFirst'
  <2>1. ASSUME NEW a \in Reviewers, pc'[a] \in {"check", "insert"}, NEW i, i = cur'[a][2],
               NEW m, m = review'[i].msg
        PROVE  ~review'[i].booked /\ PaidFor(m)' = {}
    <3>1. CASE pc[a] = "idle"
      <4>1. /\ a \in env.desk /\ review' = review /\ txns' = txns
            /\ i \in DOMAIN review /\ ~review[i].booked
        BY <1>0, <2>1, <3>1, ReviewerMoves
      <4>2. ASSUME NEW b \in Reviewers, pc[b] \in {"ledger", "booked"} PROVE FALSE
        BY <1>0, <3>1, <4>1, <4>2, OneAtTheDesk DEF AtTheDesk
      <4>3. PaidFor(m) = {}
        BY <1>0, <2>1, <4>1, <4>2 DEF PaidShows
      <4> QED
        BY <4>1, <4>3 DEF PaidFor
    <3>2. CASE pc[a] # "idle"
      <4>1. pc[a] \in {"check", "insert"} /\ cur'[a] = cur[a] /\ ~TxnInsert(a)
        <5>1. TxnInsert(a) => pc'[a] \in {"idle", "ledger"}
          BY <1>0, ActorFacts DEF TxnInsert, Jump, Raised, TypeOK, Workers
        <5> QED
          BY <1>0, <2>1, <3>2, <5>1, ReviewerMoves
      <4>2. i \in DOMAIN review /\ ~review[i].booked /\ PaidFor(review[i].msg) = {}
        BY <1>0, <2>1, <4>1, ActorFacts DEF PromotionIsFirst, Typed, AtHand, AtHandOf, Booking
      <4>3. review'[i].msg = review[i].msg /\ review[i].msg \in Rows
        BY <1>0, <4>2 DEF BooksGrow
      <4>4. a \in env.desk
        BY <1>0, <3>2 DEF AtTheDesk
      <4>5. ASSUME NEW b \in Reviewers, b # a, pc[b] # "idle" PROVE FALSE
        BY <1>0, <4>4, <4>5, OneAtTheDesk DEF AtTheDesk
      <4>6. PaidFor(m)' = PaidFor(m)
        <5>1. ~Untouched(m)
          BY <2>1, <4>2, <4>3, QueuedIsTouched
        <5>2. ASSUME NEW b \in Reviewers, TxnInsert(b) PROVE FALSE
          <6>1. pc[b] = "insert"
            BY <5>2 DEF TxnInsert
          <6>2. b = a
            BY <4>5, <6>1
          <6> QED
            BY <4>1, <5>2, <6>2
        <5> QED
          BY <2>1, <4>3, <5>1, <5>2, PaidFirst
      <4>7. ~review'[i].booked
        <5>1. ASSUME NEW b \in Reviewers, PromoteWrite(b) \/ DismissWrite(b),
                     \A j \in DOMAIN review :
                       j # cur[b][2] \/ DismissWrite(b) => review'[j].booked = review[j].booked
              PROVE  FALSE
          BY <4>1, <4>5, <5>1 DEF PromoteWrite, DismissWrite
        <5>2. ASSUME NEW u \in ReviewRows, review' = Append(review, u) PROVE review'[i] = review[i]
          BY <1>0, <4>2, <5>2, AppendProperties
        <5> QED
          BY <4>2, <5>1, <5>2, QueueStep
      <4> QED
        BY <2>1, <4>2, <4>3, <4>6, <4>7
    <3> QED
      BY <3>1, <3>2
  <2>2. ASSUME NEW a \in Reviewers, pc'[a] \in {"check", "insert"}
        PROVE  ~review'[cur'[a][2]].booked /\ PaidFor(review[cur[a][2]].msg)' = {}
    <3>1. PICK i : i = cur'[a][2]
      OBVIOUS
    <3>2. PICK m : m = review'[i].msg
      OBVIOUS
    <3>3. ~review'[i].booked /\ PaidFor(m)' = {}
      BY <2>1, <2>2, <3>1, <3>2
    <3> QED
      BY <3>1, <3>2, <3>3 DEF PaidFor
  <2> QED
    BY <2>2 DEF PromotionIsFirst
<1> QED
  BY <1>1, <1>2, <1>3, <1>4, <1>5 DEF DeskInv

\* The pipeline and the desk hold always.
LEMMA AlwaysOnce == Spec => []OnceInv
<1>1. Init => OnceInv
  <2>1. ASSUME Init, Quiet PROVE PipelineInv /\ DeskInv
    <3>1. /\ \A m \in Rows : status[m] = "none" /\ results[m] = <<>>
          /\ \A a \in Actors : pc[a] = "idle" /\ batch[a] = {}
          /\ faults = 0 /\ txns = {} /\ review = <<>>
      BY <2>1 DEF Init, ArchiveInit
    <3>2. \A m \in Rows : PaidFor(m) = {} /\ Untouched(m)
      BY <3>1 DEF PaidFor, Untouched, RowsOf
    <3>3. RowsInv
      BY <3>1, <3>2 DEF RowsInv
    <3>4. ParserInv /\ BookerInv
      BY <3>1, ActorFacts DEF ParserInv, BookerInv
    <3>5. DeskInv
      BY <3>1, <3>2, ActorFacts DEF DeskInv, AtTheDesk, PaidOnce, OneRowEach, PaidShows, PromotionIsFirst
    <3> QED
      BY <3>1, <3>3, <3>4, <3>5 DEF PipelineInv
  <2> QED
    BY <2>1 DEF OnceInv
<1>2. Typed /\ OnceInv /\ [Next]_vars => OnceInv'
  <2>1. SUFFICES ASSUME Typed, OnceInv, EngineStep, Quiet' PROVE PipelineInv' /\ DeskInv'
    BY StepsCovered DEF Typed, OnceInv
  <2>2. env' = env
    BY <2>1, FaultsStep DEF Typed
  <2>3. Quiet
    BY <2>1, <2>2 DEF Quiet, Allowed
  <2> QED
    BY <2>1, <2>3, PipelineStep, DeskStep DEF OnceInv
<1> QED
  BY <1>1, <1>2, AlwaysTyped, PTL DEF Spec

\* A message is booked once, by the worker or by the reviewer, as long as nothing
\* fails, nobody requeues it and no two reviewers have the same row open.
THEOREM MessageIsBookedOnce == Spec => []BookedOnce
<1>1. OnceInv => BookedOnce
  <2>1. SUFFICES ASSUME PaidOnce, NEW m \in Rows PROVE Cardinality(PaidFor(m)) <= 1
    BY DEF OnceInv, BookedOnce, Quiet, DeskInv, PaidFor
  <2>2. CASE PaidFor(m) = {}
    BY <2>2, FS_EmptySet
  <2>3. CASE PaidFor(m) # {}
    <3>1. PICK t : t \in PaidFor(m)
      BY <2>3
    <3>2. PaidFor(m) = {t}
      BY <2>1, <3>1 DEF PaidOnce
    <3>3. Cardinality({t}) = 1
      BY FS_Singleton
    <3> QED
      BY <3>2, <3>3
  <2> QED
    BY <2>2, <2>3
<1> QED
  BY <1>1, AlwaysOnce, PTL

-----------------------------------------------------------------------------
(* Sums over finite sets *)

\* SumFunctionOnSet takes the elements out in the order One gives them.
One(s) == CHOOSE x \in s : TRUE
Unfolds(g, f, F) ==
  g = [s \in F |-> IF s = {} THEN 0 ELSE f[One(s)] + g[s \ {One(s)}]]

\* The library's sum is the unfolding of its definition.
LEMMA SumDef ==
  ASSUME NEW f, NEW S
  PROVE  SumFunctionOnSet(f, S) = (CHOOSE g : Unfolds(g, f, SUBSET S))[S]
BY DEF SumFunctionOnSet, FoldFunctionOnSet, MapThenFoldSet, Unfolds, One

\* The chosen element is one.
LEMMA OneIn ==
  ASSUME NEW s, s # {}
  PROVE  One(s) \in s
BY DEF One

\* A nonempty collection of finite sets has one none of whose proper subsets is in it.
LEMMA SmallestSet ==
  ASSUME NEW P, P # {}, \A s \in P : IsFiniteSet(s)
  PROVE  \E s \in P : \A t \in SUBSET s : t # s => t \notin P
<1> DEFINE sizes == {Cardinality(s) : s \in P}
           less == OpToRel(<, Nat)
<1>1. sizes \subseteq Nat /\ sizes # {}
  BY FS_CardinalityType
<1>2. IsWellFoundedOn(less, Nat)
  BY NatLessThanWellFounded, Zenon
<1> HIDE DEF less
<1>5. \E n \in sizes : \A k \in sizes : ~(<<k, n>> \in less)
  <2> HIDE DEF sizes
  <2> QED
    BY <1>1, <1>2, WFMin, Zenon
<1>6. PICK n \in sizes : \A k \in sizes : ~(<<k, n>> \in less)
  BY <1>5
<1>3. PICK s \in P : n = Cardinality(s)
  OBVIOUS
<1>4. \A t \in P : ~(Cardinality(t) < Cardinality(s))
  BY <1>1, <1>6, <1>3 DEF less, OpToRel
<1>7. ASSUME NEW t \in SUBSET s, t # s, t \in P
      PROVE  FALSE
  <2>1. IsFiniteSet(s) /\ IsFiniteSet(t)
    BY <1>7
  <2>2. Cardinality(t) < Cardinality(s)
    BY <2>1, <1>7, FS_Subset, FS_CardinalityType
  <2> QED
    BY <2>2, <1>4, <1>7
<1> QED
  BY <1>7

\* Two unfoldings agree on the finite sets both cover.
LEMMA UnfoldsOnce ==
  ASSUME NEW f, NEW S, NEW T, NEW g, NEW h,
         Unfolds(g, f, SUBSET S), Unfolds(h, f, SUBSET T),
         NEW s, s \subseteq S, s \subseteq T, IsFiniteSet(s)
  PROVE  g[s] = h[s]
<1> DEFINE P == {t \in SUBSET s : g[t] # h[t]}
<1> SUFFICES ASSUME P # {} PROVE FALSE
  OBVIOUS
<1>1. \A t \in P : IsFiniteSet(t)
  BY FS_Subset
<1>2. PICK t \in P : \A u \in SUBSET t : u # t => u \notin P
  <2> HIDE DEF P
  <2> QED
    BY <1>1, SmallestSet
<1>3. /\ g[t] = IF t = {} THEN 0 ELSE f[One(t)] + g[t \ {One(t)}]
      /\ h[t] = IF t = {} THEN 0 ELSE f[One(t)] + h[t \ {One(t)}]
  <2>1. t \in SUBSET S /\ t \in SUBSET T
    OBVIOUS
  <2> QED
    BY <2>1 DEF Unfolds
<1>4. t # {} => g[t \ {One(t)}] = h[t \ {One(t)}]
  BY <1>2, OneIn
<1> QED
  BY <1>3, <1>4

\* The sum over a finite set unfolds.
LEMMA SumUnfolds ==
  ASSUME NEW f, NEW S, IsFiniteSet(S)
  PROVE  \E g : Unfolds(g, f, SUBSET S)
<1> DEFINE P == {t \in SUBSET S : ~\E g : Unfolds(g, f, SUBSET t)}
<1> SUFFICES ASSUME P # {} PROVE FALSE
  OBVIOUS
<1>1. \A t \in P : IsFiniteSet(t)
  BY FS_Subset
<1>2. PICK t \in P : \A u \in SUBSET t : u # t => u \notin P
  <2> HIDE DEF P
  <2> QED
    BY <1>1, SmallestSet
<1> DEFINE G(u) == CHOOSE g : Unfolds(g, f, SUBSET u)
           h == [u \in SUBSET t |-> IF u = {} THEN 0 ELSE f[One(u)] + G(u \ {One(u)})[u \ {One(u)}]]
<1>3. ASSUME NEW u \in SUBSET t, u # t
      PROVE  Unfolds(G(u), f, SUBSET u)
  <2>1. \E g : Unfolds(g, f, SUBSET u)
    BY <1>2, <1>3
  <2> QED
    BY <2>1
<1>4. ASSUME NEW u \in SUBSET t, u # t
      PROVE  h[u] = G(u)[u]
  <2>1. G(u)[u] = IF u = {} THEN 0 ELSE f[One(u)] + G(u)[u \ {One(u)}]
    <3>1. Unfolds(G(u), f, SUBSET u)
      BY <1>3, <1>4
    <3> HIDE DEF G
    <3> QED
      BY <3>1 DEF Unfolds
  <2>2. u # {} => G(u)[u \ {One(u)}] = G(u \ {One(u)})[u \ {One(u)}]
    <3> SUFFICES ASSUME u # {} PROVE G(u)[u \ {One(u)}] = G(u \ {One(u)})[u \ {One(u)}]
      OBVIOUS
    <3> DEFINE v == u \ {One(u)}
    <3>1. v \in SUBSET u /\ v \in SUBSET t /\ v # t /\ IsFiniteSet(v)
      <4>1. IsFiniteSet(t)
        BY <1>1
      <4> QED
        BY <4>1, OneIn, FS_Subset, <1>4
    <3>2. Unfolds(G(u), f, SUBSET u) /\ Unfolds(G(v), f, SUBSET v)
      BY <1>3, <1>4, <3>1
    <3> HIDE DEF G, v
    <3>3. G(u)[v] = G(v)[v]
      BY <3>1, <3>2, UnfoldsOnce
    <3> QED
      BY <3>3 DEF v
  <2> HIDE DEF G
  <2> QED
    BY <2>1, <2>2
<1>5. Unfolds(h, f, SUBSET t)
  <2> SUFFICES ASSUME NEW u \in SUBSET t
               PROVE  (IF u = {} THEN 0 ELSE f[One(u)] + G(u \ {One(u)})[u \ {One(u)}])
                        = IF u = {} THEN 0 ELSE f[One(u)] + h[u \ {One(u)}]
    <3> HIDE DEF G
    <3> QED
      BY DEF Unfolds
  <2>1. u # {} => h[u \ {One(u)}] = G(u \ {One(u)})[u \ {One(u)}]
    <3> SUFFICES ASSUME u # {} PROVE h[u \ {One(u)}] = G(u \ {One(u)})[u \ {One(u)}]
      OBVIOUS
    <3>1. u \ {One(u)} \in SUBSET t /\ u \ {One(u)} # t
      BY OneIn
    <3> HIDE DEF h, G
    <3> QED
      BY <3>1, <1>4
  <2> HIDE DEF h, G
  <2> QED
    BY <2>1
<1> HIDE DEF h
<1> QED
  BY <1>5

\* Nothing sums up to 0.
LEMMA SumOfNone ==
  ASSUME NEW f
  PROVE  SumFunctionOnSet(f, {}) = 0
<1> DEFINE g == CHOOSE g : Unfolds(g, f, SUBSET {})
<1>1. Unfolds(g, f, SUBSET {})
  BY SumUnfolds, FS_EmptySet
<1>2. SumFunctionOnSet(f, {}) = g[{}]
  BY SumDef
<1> HIDE DEF g
<1> QED
  BY <1>1, <1>2 DEF Unfolds

\* A sum is the value of the chosen element and the sum of the others.
LEMMA SumOfSome ==
  ASSUME NEW f, NEW S, IsFiniteSet(S), S # {}
  PROVE  SumFunctionOnSet(f, S) = f[One(S)] + SumFunctionOnSet(f, S \ {One(S)})
<1> DEFINE G(u) == CHOOSE g : Unfolds(g, f, SUBSET u)
           v == S \ {One(S)}
<1>1. v \in SUBSET S /\ IsFiniteSet(v)
  BY FS_Subset
<1>2. Unfolds(G(S), f, SUBSET S) /\ Unfolds(G(v), f, SUBSET v)
  BY SumUnfolds, <1>1
<1>3. SumFunctionOnSet(f, S) = G(S)[S] /\ SumFunctionOnSet(f, v) = G(v)[v]
  BY SumDef
<1> HIDE DEF G
<1>4. G(S)[S] = f[One(S)] + G(S)[v]
  BY <1>2 DEF Unfolds
<1> HIDE DEF v
<1>5. G(S)[v] = G(v)[v]
  BY <1>1, <1>2, UnfoldsOnce
<1> QED
  BY <1>3, <1>4, <1>5 DEF v

\* A sum of integers is an integer, and any one element can be taken out.
LEMMA SumWithout ==
  ASSUME NEW f, NEW S, IsFiniteSet(S), \A x \in S : f[x] \in Int
  PROVE  /\ SumFunctionOnSet(f, S) \in Int
         /\ \A x \in S : SumFunctionOnSet(f, S) = f[x] + SumFunctionOnSet(f, S \ {x})
<1> DEFINE Sum(u) == SumFunctionOnSet(f, u)
           Splits(u) == Sum(u) \in Int /\ \A x \in u : Sum(u) = f[x] + Sum(u \ {x})
           P == {t \in SUBSET S : ~Splits(t)}
<1> SUFFICES ASSUME P # {} PROVE FALSE
  OBVIOUS
<1>1. \A t \in P : IsFiniteSet(t)
  BY FS_Subset
<1>2. PICK t \in P : \A u \in SUBSET t : u # t => u \notin P
  <2> HIDE DEF P
  <2> QED
    BY <1>1, SmallestSet
<1>3. t # {}
  <2> SUFFICES ASSUME t = {} PROVE FALSE
    OBVIOUS
  <2>1. Sum({}) = 0
    BY SumOfNone
  <2>2. ~Splits({})
    <3> HIDE DEF Splits
    <3> QED OBVIOUS
  <2> HIDE DEF Sum
  <2> QED
    BY <2>1, <2>2
<1> DEFINE o == One(t)
<1>4. o \in t
  BY <1>3, OneIn
<1>5. Sum(t) = f[o] + Sum(t \ {o})
  BY <1>1, <1>3, SumOfSome
<1>6. \A u \in SUBSET t : u # t => Splits(u)
  <2> HIDE DEF Splits
  <2> QED
    BY <1>2
<1> HIDE DEF Sum, o
<1>7. Splits(t \ {o})
  <2> HIDE DEF Splits
  <2> QED
    BY <1>4, <1>6
<1>8. ASSUME NEW x \in t, x # o
      PROVE  Sum(t) = f[x] + Sum(t \ {x})
  <2>1. Splits(t \ {x})
    <3> HIDE DEF Splits
    <3> QED
      BY <1>6
  <2>2. Sum(t \ {o}) = f[x] + Sum((t \ {o}) \ {x})
    BY <1>7, <1>8
  <2>3. Sum(t \ {x}) = f[o] + Sum((t \ {x}) \ {o})
    BY <2>1, <1>4, <1>8
  <2>4. (t \ {o}) \ {x} = (t \ {x}) \ {o}
    OBVIOUS
  <2>5. Sum((t \ {o}) \ {x}) \in Int
    <3>1. (t \ {o}) \ {x} \in SUBSET t /\ (t \ {o}) \ {x} # t
      BY <1>4
    <3>2. Splits((t \ {o}) \ {x})
      <4> HIDE DEF Splits
      <4> QED
        BY <3>1, <1>6
    <3> QED
      BY <3>2
  <2>6. f[o] \in Int /\ f[x] \in Int
    BY <1>4
  <2> DEFINE rest == Sum((t \ {o}) \ {x})
  <2>7. /\ Sum(t \ {o}) = f[x] + rest
        /\ Sum(t \ {x}) = f[o] + rest
        /\ rest \in Int
    BY <2>2, <2>3, <2>4, <2>5, Zenon
  <2> HIDE DEF Splits, rest, P
  <2> QED
    BY <1>5, <2>6, <2>7
<1>9. Splits(t)
  <2>1. f[o] \in Int
    BY <1>4
  <2> QED
    BY <1>5, <1>7, <1>8, <2>1
<1> HIDE DEF Splits
<1> QED
  BY <1>9

\* A sum depends on the values of its own elements only.
LEMMA SumOfEquals ==
  ASSUME NEW f, NEW g, NEW S, IsFiniteSet(S), \A x \in S : f[x] = g[x]
  PROVE  SumFunctionOnSet(f, S) = SumFunctionOnSet(g, S)
<1> DEFINE P == {t \in SUBSET S : SumFunctionOnSet(f, t) # SumFunctionOnSet(g, t)}
<1> SUFFICES ASSUME P # {} PROVE FALSE
  OBVIOUS
<1>1. \A t \in P : IsFiniteSet(t)
  BY FS_Subset
<1>2. PICK t \in P : \A u \in SUBSET t : u # t => u \notin P
  <2> HIDE DEF P
  <2> QED
    BY <1>1, SmallestSet
<1>3. CASE t = {}
  BY <1>3, SumOfNone
<1>4. CASE t # {}
  <2>1. One(t) \in t
    BY <1>4, OneIn
  <2>2. SumFunctionOnSet(f, t \ {One(t)}) = SumFunctionOnSet(g, t \ {One(t)})
    BY <1>2, <2>1
  <2>3. f[One(t)] = g[One(t)]
    BY <2>1
  <2> QED
    BY <1>1, <1>4, <2>2, <2>3, SumOfSome
<1> QED
  BY <1>3, <1>4

\* Zeros sum up to 0.
LEMMA SumOfZeros ==
  ASSUME NEW f, NEW S, IsFiniteSet(S), \A x \in S : f[x] = 0
  PROVE  SumFunctionOnSet(f, S) = 0
<1> DEFINE P == {t \in SUBSET S : SumFunctionOnSet(f, t) # 0}
<1> SUFFICES ASSUME P # {} PROVE FALSE
  OBVIOUS
<1>1. \A t \in P : IsFiniteSet(t)
  BY FS_Subset
<1>2. PICK t \in P : \A u \in SUBSET t : u # t => u \notin P
  <2> HIDE DEF P
  <2> QED
    BY <1>1, SmallestSet
<1>3. t # {}
  BY SumOfNone
<1>4. One(t) \in t
  BY <1>3, OneIn
<1>5. SumFunctionOnSet(f, t \ {One(t)}) = 0
  BY <1>2, <1>4
<1>6. f[One(t)] = 0
  BY <1>4
<1> QED
  BY <1>1, <1>3, <1>5, <1>6, SumOfSome

\* One value is its sum.
LEMMA SumOfOne ==
  ASSUME NEW f, NEW x, f[x] \in Int
  PROVE  SumFunctionOnSet(f, {x}) = f[x]
<1>1. IsFiniteSet({x}) /\ {x} \ {x} = {}
  BY FS_Singleton
<1>2. SumFunctionOnSet(f, {x}) = f[x] + SumFunctionOnSet(f, {x} \ {x})
  BY <1>1, SumWithout
<1>3. SumFunctionOnSet(f, {}) = 0
  BY SumOfNone
<1> QED
  BY <1>1, <1>2, <1>3

\* The sum of sums is the sum of both.
LEMMA SumOfSums ==
  ASSUME NEW f, NEW g, NEW h, NEW S, IsFiniteSet(S),
         \A x \in S : f[x] \in Int /\ g[x] \in Int /\ h[x] = f[x] + g[x]
  PROVE  SumFunctionOnSet(h, S) = SumFunctionOnSet(f, S) + SumFunctionOnSet(g, S)
<1> DEFINE P == {t \in SUBSET S : SumFunctionOnSet(h, t) # SumFunctionOnSet(f, t) + SumFunctionOnSet(g, t)}
<1> SUFFICES ASSUME P # {} PROVE FALSE
  OBVIOUS
<1>1. \A t \in P : IsFiniteSet(t)
  BY FS_Subset
<1>2. PICK t \in P : \A u \in SUBSET t : u # t => u \notin P
  <2> HIDE DEF P
  <2> QED
    BY <1>1, SmallestSet
<1>3. CASE t = {}
  BY <1>3, SumOfNone
<1>4. CASE t # {}
  <2> DEFINE x == One(t)
             rest == t \ {x}
  <2>1. x \in t /\ IsFiniteSet(t) /\ IsFiniteSet(rest) /\ t \subseteq S
    BY <1>1, <1>4, OneIn, FS_Subset
  <2>2. rest \in SUBSET t /\ rest # t /\ rest \in SUBSET S
    BY <2>1
  <2>3. SumFunctionOnSet(h, rest) = SumFunctionOnSet(f, rest) + SumFunctionOnSet(g, rest)
    BY <1>2, <2>2
  <2>4. /\ SumFunctionOnSet(h, t) = h[x] + SumFunctionOnSet(h, rest)
        /\ SumFunctionOnSet(f, t) = f[x] + SumFunctionOnSet(f, rest)
        /\ SumFunctionOnSet(g, t) = g[x] + SumFunctionOnSet(g, rest)
    BY <1>4, <2>1, SumOfSome
  <2>5. f[x] \in Int /\ g[x] \in Int /\ h[x] = f[x] + g[x]
    BY <2>1
  <2>6. SumFunctionOnSet(f, rest) \in Int /\ SumFunctionOnSet(g, rest) \in Int
    BY <2>1, SumWithout
  <2>7. SumFunctionOnSet(h, t) # SumFunctionOnSet(f, t) + SumFunctionOnSet(g, t)
    BY <1>2
  <2> HIDE DEF P, x, rest
  <2> QED
    BY <2>3, <2>4, <2>5, <2>6, <2>7
<1> QED
  BY <1>3, <1>4

-----------------------------------------------------------------------------
(* The ledger agrees *)

\* The transactions and the ledger move in two statements only.
LEMMA LedgerMoves ==
  ASSUME Typed, EngineStep, faults = 0, env.faults = 0
  PROVE  \/ /\ UNCHANGED <<txns, ledger>>
            /\ \A a \in Actors : /\ pc'[a] = "ledger" <=> pc[a] = "ledger"
                                 /\ pc[a] = "ledger" => txn'[a] = txn[a]
         \/ \E a \in Actors : pc[a] \in Booking /\ (TxnInsert(a) \/ UpsertLedger(a))
<1> DEFINE Rests(b) == (pc'[b] = "ledger" <=> pc[b] = "ledger") /\ (pc[b] = "ledger" => txn'[b] = txn[b])
<1>0. TypeOK
  BY DEF Typed
<1>1. ~Crash /\ \A a \in Actors : ~StatementFails(a)
  BY DEF Crash, StatementFails
<1>2. CASE Elsewhere \/ Requeued
  BY <1>2 DEF Elsewhere, Requeued, Requeue, bookVars, taskVars
<1>3. ASSUME NEW a \in Actors, ActorStep(a), ~TxnInsert(a), ~UpsertLedger(a)
      PROVE  UNCHANGED <<txns, ledger>> /\ Rests(a)
  <2> USE <1>0 DEF TypeOK, Jump, WriteSlip, Raised, bookVars
  <2>1. CASE a = "parser" /\ (PollPending \/ ReadText)
    BY <2>1 DEF PollPending, ReadText
  <2>2. CASE a = "booker" /\ (PollParsed \/ Dispatch \/ BookIncome)
    BY <2>2 DEF PollParsed, Dispatch, BookIncome
  <2>3. CASE a = "booker" /\ (CashLookup \/ MatchEmployee)
    BY <2>3 DEF CashLookup, MatchEmployee
  <2>4. CASE WorkerStep(a)
    BY <2>4 DEF WorkerStep, Take, BatchDone, StoreUnmatched, MarkNext, StoreFailed, MarkFailed, BatchFails
  <2>5. CASE TxnCheck(a) \/ Booked(a)
    BY <2>5 DEF TxnCheck, Booked
  <2>6. CASE ReviewStep(a)
    BY <2>6 DEF ReviewStep, PromoteRead, DismissRead, PromoteWrite, DismissWrite
  <2>7. CASE \/ \E e \in Emps, n \in Amounts, c \in Kinds : ManualPayment(a, e, n, c)
             \/ \E t \in txns : ReverseTransaction(a, t)
    BY <2>7 DEF ManualPayment, ReverseTransaction
  <2> QED
    BY <1>1, <1>3, <2>1, <2>2, <2>3, <2>4, <2>5, <2>6, <2>7 DEF ActorStep, TxnStep
<1>4. ASSUME NEW a \in Actors, ActorStep(a) PROVE \A b \in Actors \ {a} : Rests(b)
  BY <1>0, <1>4, OthersRest
<1>5. ASSUME NEW a \in Actors, TxnInsert(a) \/ UpsertLedger(a) PROVE pc[a] \in Booking
  BY <1>5 DEF TxnInsert, UpsertLedger, Booking
<1> QED
  BY <1>1, <1>2, <1>3, <1>4, <1>5 DEF EngineStep

\* Who is about to book has an employee, a period and an amount.
LEMMA BookingTyped ==
  ASSUME Typed
  PROVE  /\ \A a \in Actors : pc[a] \in Booking => txn[a].emp \in Emps
         /\ \A a \in Actors : Account(txn[a]) \in Accounts /\ Signed(txn[a]) \in Int
         /\ \A t \in txns : Signed(t) \in Int
         /\ \A a \in Actors : \A e, p : Due(a, e, p) \in Int
<1>1. \A a \in Actors : txn[a] \in Transactions
  BY DEF Typed, TypeOK
<1>2. \A a \in Actors : Account(txn[a]) \in Accounts /\ Signed(txn[a]) \in Int
  BY <1>1, SignedTyped
<1>3. \A t \in txns : Signed(t) \in Int
  BY SignedTyped DEF Typed, TypeOK
<1>4. \A a \in Actors : pc[a] \in Booking => txn[a].emp \in Emps
  BY DEF Typed, AtHand, AtHandOf
<1> QED
  BY <1>2, <1>3, <1>4 DEF Due

\* The tasks are finitely many.
LEMMA FiniteActors == IsFiniteSet(Actors)
<1>1. IsFiniteSet({"parser", "booker"})
  <2>1. {"parser", "booker"} = {"parser"} \cup {"booker"}
    OBVIOUS
  <2>2. IsFiniteSet({"parser"}) /\ IsFiniteSet({"booker"})
    BY FS_Singleton
  <2> QED
    BY <2>1, <2>2, FS_Union
<1>2. IsFiniteSet({"parser", "booker"} \cup Reviewers)
  BY <1>1, ActorsAssumption, FS_Union
<1> QED
  BY <1>2, ActorsAssumption, FS_Union DEF Actors

\* Only a's share of what is due changes.
LEMMA DueChanges ==
  ASSUME Typed, NEW d, NEW e, NEW p, NEW a \in Actors, d \in Int,
         Due(a, e, p)' = Due(a, e, p) + d,
         \A b \in Actors \ {a} : Due(b, e, p)' = Due(b, e, p)
  PROVE  /\ SumFunction(DueTo(e, p)) \in Int
         /\ SumFunction(DueTo(e, p)') = SumFunction(DueTo(e, p)) + d
<1> DEFINE f == [b \in Actors |-> Due(b, e, p)]
           g == [b \in Actors |-> Due(b, e, p)']
           rest == Actors \ {a}
<1>1. IsFiniteSet(Actors) /\ IsFiniteSet(rest)
  BY FiniteActors, FS_Subset
<1>2. \A b \in Actors : f[b] \in Int
  BY BookingTyped
<1>3. \A b \in rest : g[b] = f[b]
  OBVIOUS
<1>4. f[a] \in Int /\ g[a] = f[a] + d
  BY <1>2
<1>5. \A b \in Actors : g[b] \in Int
  <2> HIDE DEF f, g
  <2> QED
    BY <1>2, <1>3, <1>4
<1>6. SumFunction(DueTo(e, p)) = SumFunctionOnSet(f, Actors)
      /\ SumFunction(DueTo(e, p)') = SumFunctionOnSet(g, Actors)
  <2>1. DueTo(e, p) = f /\ DueTo(e, p)' = g /\ DOMAIN f = Actors /\ DOMAIN g = Actors
    BY DEF DueTo
  <2> HIDE DEF f, g
  <2> QED
    BY <2>1 DEF SumFunction
<1> HIDE DEF f, g, rest
<1>7. /\ SumFunctionOnSet(f, Actors) \in Int /\ SumFunctionOnSet(f, rest) \in Int
      /\ SumFunctionOnSet(f, Actors) = f[a] + SumFunctionOnSet(f, rest)
  BY <1>1, <1>2, SumWithout DEF rest
<1>8. SumFunctionOnSet(g, Actors) = g[a] + SumFunctionOnSet(g, rest)
  BY <1>1, <1>5, SumWithout DEF rest
<1>9. SumFunctionOnSet(g, rest) = SumFunctionOnSet(f, rest)
  BY <1>1, <1>3, SumOfEquals
<1> QED
  BY <1>4, <1>6, <1>7, <1>8, <1>9

\* A new transaction counts for its own employee and period.
LEMMA BookedChanges ==
  ASSUME Typed, IsFiniteSet(txns), NEW t, t \notin txns, Signed(t) \in Int, txns' = txns \cup {t},
         NEW e, NEW p
  PROVE  /\ SumFunction(BookedFor(e, p)) \in Int
         /\ SumFunction(BookedFor(e, p)')
              = SumFunction(BookedFor(e, p)) + (IF t.emp = e /\ Account(t) = p THEN Signed(t) ELSE 0)
<1> DEFINE S == {u \in txns : u.emp = e /\ Account(u) = p}
           T == {u \in txns' : u.emp = e /\ Account(u) = p}
           f == [u \in S |-> Signed(u)]
           g == [u \in T |-> Signed(u)]
<1>1. IsFiniteSet(S)
  BY FS_Subset
<1>2. \A u \in S : f[u] \in Int
  BY BookingTyped
<1>3. SumFunctionOnSet(f, S) \in Int
  <2> HIDE DEF f, S
  <2> QED
    BY <1>1, <1>2, SumWithout
<1>4. SumFunction(BookedFor(e, p)) = SumFunctionOnSet(f, S)
      /\ SumFunction(BookedFor(e, p)') = SumFunctionOnSet(g, T)
  <2>1. BookedFor(e, p) = f /\ BookedFor(e, p)' = g /\ DOMAIN f = S /\ DOMAIN g = T
    BY DEF BookedFor, TxnsOf, Signed, Account
  <2> HIDE DEF f, g, S, T
  <2> QED
    BY <2>1 DEF SumFunction
<1>5. CASE t.emp = e /\ Account(t) = p
  <2>1. T = S \cup {t} /\ t \notin S /\ t \in T /\ T \ {t} = S
    BY <1>5
  <2>2. IsFiniteSet(T)
    <3> HIDE DEF S, T
    <3> QED
      BY <1>1, <2>1, FS_AddElement
  <2>3. g[t] = Signed(t) /\ \A u \in S : g[u] = f[u]
    BY <2>1
  <2>4. \A u \in T : g[u] \in Int
    <3> HIDE DEF f, g, S, T
    <3> QED
      BY <1>2, <2>1, <2>3
  <2> HIDE DEF f, g, S, T
  <2>5. SumFunctionOnSet(g, T) = g[t] + SumFunctionOnSet(g, S)
    BY <2>1, <2>2, <2>4, SumWithout
  <2>6. SumFunctionOnSet(g, S) = SumFunctionOnSet(f, S)
    BY <1>1, <2>3, SumOfEquals
  <2> QED
    BY <1>3, <1>4, <1>5, <2>3, <2>5, <2>6
<1>6. CASE ~(t.emp = e /\ Account(t) = p)
  <2>1. T = S /\ g = f
    BY <1>6
  <2> HIDE DEF f, g, S, T
  <2> QED
    BY <1>3, <1>4, <1>6, <2>1
<1> QED
  BY <1>5, <1>6

\* A transaction falls due as it enters, and is paid up as it reaches the ledger.
LEMMA AgreeStep ==
  ASSUME Typed, Typed', AgreeInv, EngineStep
  PROVE  AgreeInv'
<1>1. IsFiniteSet(txns')
  <2>1. txns' = txns \/ \E t : txns' = txns \cup {t}
    BY TxnsStep DEF Typed
  <2> QED
    BY <2>1, FS_AddElement DEF AgreeInv
<1>2. /\ env' = env
      /\ env.faults = 0 => faults' = 0
  BY FaultsStep DEF Typed, AgreeInv
<1> SUFFICES ASSUME env.faults = 0, NEW e \in Emps, NEW p \in Accounts
             PROVE  AgreesAt(e, p)'
  BY <1>1, <1>2 DEF AgreeInv
<1>3. faults = 0 /\ AgreesAt(e, p) /\ ledger[e][p] \in Int /\ TypeOK
  BY DEF AgreeInv, Typed, TypeOK
<1>4. CASE /\ UNCHANGED <<txns, ledger>>
           /\ \A a \in Actors : /\ pc'[a] = "ledger" <=> pc[a] = "ledger"
                                /\ pc[a] = "ledger" => txn'[a] = txn[a]
  <2>1. BookedFor(e, p)' = BookedFor(e, p)
    BY <1>4 DEF BookedFor, TxnsOf, Signed, Account
  <2>2. \A a \in Actors : Due(a, e, p)' = Due(a, e, p)
    BY <1>4 DEF Due, Signed, Account
  <2>3. DueTo(e, p)' = DueTo(e, p)
    BY <2>2 DEF DueTo
  <2> QED
    BY <1>3, <1>4, <2>1, <2>3 DEF AgreesAt
<1>5. ASSUME NEW a \in Actors, pc[a] \in Booking, TxnInsert(a), ~Taken(txn[a])
      PROVE  AgreesAt(e, p)'
  <2> DEFINE d == IF txn[a].emp = e /\ Account(txn[a]) = p THEN Signed(txn[a]) ELSE 0
  <2>1. /\ txns' = txns \cup {txn[a]} /\ ledger' = ledger /\ txn' = txn
        /\ pc[a] = "insert" /\ pc' = [pc EXCEPT ![a] = "ledger"]
    BY <1>5 DEF TxnInsert, Jump
  <2>2. d \in Int /\ Signed(txn[a]) \in Int
    BY BookingTyped
  <2>3. Due(a, e, p)' = Due(a, e, p) + d
    BY <1>3, <2>1, <2>2 DEF Due, TypeOK, Signed, Account
  <2>4. \A b \in Actors \ {a} : Due(b, e, p)' = Due(b, e, p)
    BY <1>3, <2>1 DEF Due, TypeOK, Signed, Account
  <2> HIDE DEF d
  <2>5. /\ SumFunction(DueTo(e, p)) \in Int
        /\ SumFunction(DueTo(e, p)') = SumFunction(DueTo(e, p)) + d
    BY <2>2, <2>3, <2>4, DueChanges
  <2>6. SumFunction(BookedFor(e, p)') = SumFunction(BookedFor(e, p)) + d
    BY <1>5, <2>1, <2>2, UntakenIsNew, BookedChanges DEF AgreeInv, d
  <2> QED
    BY <1>3, <2>1, <2>2, <2>5, <2>6 DEF AgreesAt
<1>6. ASSUME NEW a \in Actors, TxnInsert(a), Taken(txn[a])
      PROVE  AgreesAt(e, p)'
  <2>1. /\ txns' = txns /\ ledger' = ledger /\ txn' = txn
        /\ pc[a] = "insert" /\ pc' = [pc EXCEPT ![a] = Raised(a)] /\ Raised(a) # "ledger"
    BY <1>6 DEF TxnInsert, Jump, Raised
  <2>2. BookedFor(e, p)' = BookedFor(e, p)
    BY <2>1 DEF BookedFor, TxnsOf, Signed, Account
  <2>3. \A b \in Actors : Due(b, e, p)' = Due(b, e, p)
    BY <1>3, <2>1 DEF Due, TypeOK, Signed, Account
  <2>4. DueTo(e, p)' = DueTo(e, p)
    BY <2>3 DEF DueTo
  <2> QED
    BY <1>3, <2>1, <2>2, <2>4 DEF AgreesAt
<1>7. ASSUME NEW a \in Actors, pc[a] \in Booking, UpsertLedger(a)
      PROVE  AgreesAt(e, p)'
  <2> DEFINE d == IF txn[a].emp = e /\ Account(txn[a]) = p THEN Signed(txn[a]) ELSE 0
  <2>1. /\ txns' = txns /\ txn' = txn
        /\ ledger' = [ledger EXCEPT ![txn[a].emp][Account(txn[a])] = @ + Signed(txn[a])]
        /\ pc[a] = "ledger" /\ pc' = [pc EXCEPT ![a] = "booked"]
    BY <1>7 DEF UpsertLedger, Jump
  <2>2. d \in Int /\ 0 - d \in Int /\ txn[a].emp \in Emps /\ Account(txn[a]) \in Accounts
    BY <1>7, BookingTyped
  <2>3. Due(a, e, p)' = Due(a, e, p) + (0 - d)
    <3>1. Due(a, e, p) = d
      BY <2>1 DEF Due
    <3>2. Due(a, e, p)' = 0
      BY <1>3, <2>1 DEF Due, TypeOK
    <3> QED
      BY <2>2, <3>1, <3>2
  <2>4. \A b \in Actors \ {a} : Due(b, e, p)' = Due(b, e, p)
    BY <1>3, <2>1 DEF Due, TypeOK, Signed, Account
  <2>5. ledger'[e][p] = ledger[e][p] + d
    BY <1>3, <2>1, <2>2 DEF TypeOK
  <2>6. BookedFor(e, p)' = BookedFor(e, p)
    BY <2>1 DEF BookedFor, TxnsOf, Signed, Account
  <2> HIDE DEF d
  <2>7. /\ SumFunction(DueTo(e, p)) \in Int
        /\ SumFunction(DueTo(e, p)') = SumFunction(DueTo(e, p)) + (0 - d)
    BY <2>2, <2>3, <2>4, DueChanges
  <2> QED
    BY <1>3, <2>2, <2>5, <2>6, <2>7 DEF AgreesAt
<1> QED
  BY <1>3, <1>4, <1>5, <1>6, <1>7, LedgerMoves

\* total_paid and total_advance are the sums of an employee's transactions of
\* their categories, but for the ones whose task has yet to reach the ledger,
\* whoever books at the same time: the UNIQUE txn_ref lets one of a race through
\* to the ledger, whatever category the others name.
THEOREM LedgerFollowsTransactions == Spec => []LedgerAgrees
<1>1. Init => AgreeInv
  <2> SUFFICES ASSUME Init PROVE AgreeInv
    OBVIOUS
  <2>1. txns = {} /\ IsFiniteSet(txns) /\ faults = 0
    BY FS_EmptySet DEF Init
  <2>2. ASSUME NEW e \in Emps, NEW p \in Accounts PROVE AgreesAt(e, p)
    <3>1. Typed
      BY InitTyped
    <3>2. ledger[e][p] = 0 /\ \A a \in Actors : Due(a, e, p) = 0
      BY DEF Init, Due
    <3>3. TxnsOf(e, p) = {} /\ DOMAIN BookedFor(e, p) = {}
      BY <2>1 DEF TxnsOf, BookedFor
    <3>4. SumFunction(BookedFor(e, p)) = 0
      BY <3>3, SumOfNone DEF SumFunction
    <3>5. DOMAIN DueTo(e, p) = Actors /\ \A a \in Actors : DueTo(e, p)[a] = 0
      BY <3>2 DEF DueTo
    <3>6. SumFunction(DueTo(e, p)) = 0
      BY <3>5, SumOfZeros, FiniteActors DEF SumFunction
    <3> QED
      BY <3>2, <3>4, <3>6 DEF AgreesAt
  <2> QED
    BY <2>1, <2>2 DEF AgreeInv
<1>2. Typed /\ Typed' /\ AgreeInv /\ [Next]_vars => AgreeInv'
  BY StepsCovered, AgreeStep DEF Typed
<1>3. AgreeInv => LedgerAgrees
  BY DEF AgreeInv, LedgerAgrees, AgreesAt, DueTo, BookedFor, TxnsOf
<1> QED
  BY <1>1, <1>2, <1>3, AlwaysTyped, PTL DEF Spec

-----------------------------------------------------------------------------
(* Following the pointers *)

Unfolded(g, c) ==
  [n \in 0..8 |->
     [x \in Emps |-> [seen \in SUBSET Emps |->
        IF n = 0 \/ c[x] = NoEmp \/ x \in seen THEN x ELSE g[n - 1][c[x]][seen \cup {x}]]]]
Follows(g, c) == g = Unfolded(g, c)

\* One pointer more than p follows.
Further(c, p) ==
  [x \in Emps |-> [seen \in SUBSET Emps |-> IF c[x] = NoEmp \/ x \in seen THEN x ELSE p[c[x]][seen \cup {x}]]]

\* The recursion of Resolve has a solution.
LEMMA PointersFollowed ==
  ASSUME NEW c
  PROVE  \E g : Follows(g, c)
<1> DEFINE g0 == [x \in Emps |-> [seen \in SUBSET Emps |-> x]]
           g1 == Further(c, g0)
           g2 == Further(c, g1)
           g3 == Further(c, g2)
           g4 == Further(c, g3)
           g5 == Further(c, g4)
           g6 == Further(c, g5)
           g7 == Further(c, g6)
           g8 == Further(c, g7)
<1> DEFINE h == [n \in 0..8 |-> IF n = 0 THEN g0 ELSE IF n = 1 THEN g1 ELSE IF n = 2 THEN g2
                           ELSE IF n = 3 THEN g3 ELSE IF n = 4 THEN g4 ELSE IF n = 5 THEN g5
                           ELSE IF n = 6 THEN g6 ELSE IF n = 7 THEN g7 ELSE g8]
<1>1. /\ g1 = Further(c, g0) /\ g2 = Further(c, g1) /\ g3 = Further(c, g2) /\ g4 = Further(c, g3)
      /\ g5 = Further(c, g4) /\ g6 = Further(c, g5) /\ g7 = Further(c, g6) /\ g8 = Further(c, g7)
  OBVIOUS
<1> HIDE DEF g1, g2, g3, g4, g5, g6, g7, g8
<1>2. h[0] = g0
  OBVIOUS
<1> HIDE DEF g0
<1>3. \A n \in 1..8 : h[n] = Further(c, h[n - 1])
  <2>1. /\ h[1] = g1 /\ h[2] = g2 /\ h[3] = g3 /\ h[4] = g4
        /\ h[5] = g5 /\ h[6] = g6 /\ h[7] = g7 /\ h[8] = g8
    OBVIOUS
  <2> HIDE DEF h
  <2> QED
    BY <1>1, <1>2, <2>1
<1>4. h = [n \in 0..8 |-> h[n]]
  OBVIOUS
<1> HIDE DEF h
<1>5. ASSUME NEW n \in 0..8
      PROVE  h[n] = [x \in Emps |-> [seen \in SUBSET Emps |->
                       IF n = 0 \/ c[x] = NoEmp \/ x \in seen THEN x ELSE h[n - 1][c[x]][seen \cup {x}]]]
  <2>1. CASE n = 0
    BY <1>2, <2>1 DEF g0
  <2>2. CASE n # 0
    <3>1. n \in 1..8 /\ h[n] = Further(c, h[n - 1])
      BY <1>3, <2>2
    <3> DEFINE p == h[n - 1]
    <3> HIDE DEF p
    <3>2. Further(c, p) = [x \in Emps |-> [seen \in SUBSET Emps |->
                             IF n = 0 \/ c[x] = NoEmp \/ x \in seen THEN x ELSE p[c[x]][seen \cup {x}]]]
      BY <2>2 DEF Further
    <3> QED
      BY <3>1, <3>2, Zenon DEF p
  <2> QED
    BY <2>1, <2>2
<1>6. [n \in 0..8 |-> h[n]] = Unfolded(h, c)
  BY <1>5, Zenon DEF Unfolded
<1>7. h = Unfolded(h, c)
  BY <1>4, <1>6
<1> QED
  BY <1>7 DEF Follows

\* Whoever Resolve finds was found by following eight pointers.
LEMMA ResolveUnfolds ==
  ASSUME NEW c, NEW e
  PROVE  \E g : Follows(g, c) /\ Resolve(c, e) = g[8][e][{}]
<1> DEFINE g == CHOOSE g : Follows(g, c)
<1>1. Follows(g, c)
  BY PointersFollowed
<1>2. Resolve(c, e) = g[8][e][{}]
  BY DEF Resolve, Follows, Unfolded
<1> HIDE DEF g
<1> QED
  BY <1>1, <1>2

\* Nobody is followed from where there is no pointer left, or none to take.
LEMMA FollowEnds ==
  ASSUME NEW c, NEW g, Follows(g, c), NEW n \in 0..8, NEW x \in Emps, NEW seen \in SUBSET Emps,
         n = 0 \/ c[x] = NoEmp \/ x \in seen
  PROVE  g[n][x][seen] = x
<1>1. g[n] = [y \in Emps |-> [s \in SUBSET Emps |->
                IF n = 0 \/ c[y] = NoEmp \/ y \in s THEN y ELSE g[n - 1][c[y]][s \cup {y}]]]
  BY DEF Follows, Unfolded
<1> QED
  BY <1>1

\* A step along the pointers.
LEMMA FollowGoesOn ==
  ASSUME NEW c, NEW g, Follows(g, c), NEW n \in 1..8
  PROVE  g[n] = Further(c, g[n - 1])
<1>1. n \in 0..8 /\ n # 0
  OBVIOUS
<1>2. g[n] = [x \in Emps |-> [seen \in SUBSET Emps |->
                IF n = 0 \/ c[x] = NoEmp \/ x \in seen THEN x ELSE g[n - 1][c[x]][seen \cup {x}]]]
  BY <1>1 DEF Follows, Unfolded
<1> QED
  BY <1>1, <1>2 DEF Further

\* Pointers that stay in a set lead into it.
LEMMA ResolveStays ==
  ASSUME NEW c, NEW S \in SUBSET Emps, \A x \in S : c[x] = NoEmp \/ c[x] \in S, NEW e \in S
  PROVE  Resolve(c, e) \in S
<1>1. PICK g : Follows(g, c) /\ Resolve(c, e) = g[8][e][{}]
  BY ResolveUnfolds
<1> DEFINE P(n) == \A x \in S, seen \in SUBSET Emps : g[n][x][seen] \in S
<1>2. P(0)
  BY <1>1, FollowEnds
<1>3. ASSUME NEW n \in 1..8, P(n - 1)
      PROVE  P(n)
  <2> SUFFICES ASSUME NEW x \in S, NEW seen \in SUBSET Emps PROVE g[n][x][seen] \in S
    OBVIOUS
  <2>1. n \in 0..8 /\ x \in Emps /\ seen \cup {x} \in SUBSET Emps
    OBVIOUS
  <2>2. CASE c[x] = NoEmp \/ x \in seen
    <3>1. g[n][x][seen] = x
      BY <1>1, <2>1, <2>2, FollowEnds
    <3> QED
      BY <3>1
  <2>3. CASE c[x] # NoEmp /\ x \notin seen
    <3> DEFINE p == g[n - 1]
    <3>1. g[n] = Further(c, p)
      BY <1>1, FollowGoesOn
    <3>2. \A y \in S, t \in SUBSET Emps : p[y][t] \in S
      BY <1>3
    <3> HIDE DEF p, P
    <3>3. g[n][x][seen] = p[c[x]][seen \cup {x}]
      BY <2>1, <2>3, <3>1 DEF Further
    <3> QED
      BY <2>1, <2>3, <3>2, <3>3
  <2> QED
    BY <2>2, <2>3
<1> HIDE DEF P
<1>4. P(1) /\ P(2) /\ P(3) /\ P(4)
  BY <1>2, <1>3
<1>5. P(5) /\ P(6) /\ P(7) /\ P(8)
  BY <1>4, <1>3
<1> QED
  BY <1>1, <1>5 DEF P

\* One pointer is followed.
LEMMA ResolveOnce ==
  ASSUME NEW c, NoEmp \notin Emps, NEW e \in Emps, c[e] = NoEmp \/ (c[e] \in Emps /\ c[c[e]] = NoEmp)
  PROVE  Resolve(c, e) = IF c[e] = NoEmp THEN e ELSE c[e]
<1>1. PICK g : Follows(g, c) /\ Resolve(c, e) = g[8][e][{}]
  BY ResolveUnfolds
<1>2. {} \in SUBSET Emps /\ {e} \in SUBSET Emps /\ {} \cup {e} = {e}
  OBVIOUS
<1>3. CASE c[e] = NoEmp
  <2>1. g[8][e][{}] = e
    BY <1>1, <1>2, <1>3, FollowEnds
  <2> QED
    BY <1>1, <1>3, <2>1
<1>4. CASE c[e] # NoEmp
  <2>1. g[8] = Further(c, g[7])
    <3>1. 8 \in 1..8 /\ 8 - 1 = 7
      OBVIOUS
    <3> QED
      BY <1>1, <3>1, FollowGoesOn
  <2>2. g[8][e][{}] = g[7][c[e]][{e}]
    BY <1>2, <1>4, <2>1 DEF Further
  <2>3. g[7][c[e]][{e}] = c[e]
    BY <1>1, <1>2, <1>4, FollowEnds
  <2> QED
    BY <1>1, <1>2, <1>4, <2>2, <2>3
<1> QED
  BY <1>3, <1>4

\* Among nine employees at most, pointers that go down a rank lead to one who has none.
LEMMA ResolveLeadsHome ==
  ASSUME NEW c, \A x \in Emps : c[x] \in Emps \cup {NoEmp},
         IsFiniteSet(Emps), Cardinality(Emps) <= 9,
         NEW r \in [Emps -> Nat], \A x \in Emps : c[x] # NoEmp => r[c[x]] < r[x], NEW e \in Emps
  PROVE  c[Resolve(c, e)] = NoEmp
<1>1. PICK g : Follows(g, c) /\ Resolve(c, e) = g[8][e][{}]
  BY ResolveUnfolds
<1> DEFINE Above(x, seen) == \A s \in seen : r[x] < r[s]
           P(n) == \A x \in Emps, seen \in SUBSET Emps :
                     Above(x, seen) /\ Cardinality(seen) >= 8 - n => c[g[n][x][seen]] = NoEmp
<1>2. ASSUME NEW x \in Emps, NEW seen \in SUBSET Emps, Above(x, seen)
      PROVE  /\ x \notin seen /\ IsFiniteSet(seen) /\ Cardinality(seen) \in Nat
             /\ IsFiniteSet(seen \cup {x}) /\ seen \cup {x} \in SUBSET Emps
             /\ Cardinality(seen \cup {x}) = Cardinality(seen) + 1
  <2>1. x \notin seen
    BY <1>2
  <2> QED
    BY <2>1, FS_Subset, FS_AddElement, FS_CardinalityType
<1>3. ASSUME NEW x \in Emps, NEW seen \in SUBSET Emps, Above(x, seen), c[x] # NoEmp
      PROVE  c[x] \in Emps /\ Above(c[x], seen \cup {x}) 
  BY <1>3
<1>4. P(0)
  <2> SUFFICES ASSUME NEW x \in Emps, NEW seen \in SUBSET Emps, Above(x, seen), Cardinality(seen) >= 8
               PROVE  c[g[0][x][seen]] = NoEmp
    OBVIOUS
  <2>1. g[0][x][seen] = x
    BY <1>1, FollowEnds
  <2>2. SUFFICES ASSUME c[x] # NoEmp PROVE FALSE
    BY <2>1
  <2>3. c[x] \in Emps /\ Above(c[x], seen \cup {x})
    BY <1>3, <2>2
  <2>4. /\ seen \cup {x} \in SUBSET Emps /\ Cardinality(seen \cup {x}) >= 9
        /\ Cardinality(seen \cup {x}) \in Nat
    <3>1. /\ seen \cup {x} \in SUBSET Emps /\ Cardinality(seen) \in Nat
          /\ Cardinality(seen \cup {x}) = Cardinality(seen) + 1
      BY <1>2
    <3> HIDE DEF Above
    <3> QED
      BY <3>1
  <2>5. /\ (seen \cup {x}) \cup {c[x]} \in SUBSET Emps
        /\ Cardinality((seen \cup {x}) \cup {c[x]}) = Cardinality(seen \cup {x}) + 1
    <3>1. Above(c[x], seen \cup {x}) /\ c[x] \in Emps /\ seen \cup {x} \in SUBSET Emps
      BY <2>3, <2>4
    <3> DEFINE now == seen \cup {x}
    <3> HIDE DEF now, Above
    <3> QED
      BY <1>2, <3>1 DEF now
  <2>6. Cardinality((seen \cup {x}) \cup {c[x]}) <= Cardinality(Emps)
    BY <2>5, FS_Subset
  <2> QED
    BY <2>4, <2>5, <2>6, FS_CardinalityType
<1>5. ASSUME NEW n \in 1..8, P(n - 1)
      PROVE  P(n)
  <2> SUFFICES ASSUME NEW x \in Emps, NEW seen \in SUBSET Emps, Above(x, seen), Cardinality(seen) >= 8 - n
               PROVE  c[g[n][x][seen]] = NoEmp
    OBVIOUS
  <2>1. n \in 0..8
    OBVIOUS
  <2>2. CASE c[x] = NoEmp
    <3>1. g[n][x][seen] = x
      BY <1>1, <2>1, <2>2, FollowEnds
    <3> QED
      BY <2>2, <3>1
  <2>3. CASE c[x] # NoEmp
    <3>1. c[x] \in Emps /\ Above(c[x], seen \cup {x})
      BY <1>3, <2>3
    <3>2. /\ seen \cup {x} \in SUBSET Emps /\ x \notin seen
          /\ Cardinality(seen \cup {x}) >= 8 - (n - 1)
      <4>1. /\ seen \cup {x} \in SUBSET Emps /\ x \notin seen /\ Cardinality(seen) \in Nat
            /\ Cardinality(seen \cup {x}) = Cardinality(seen) + 1
        BY <1>2
      <4> HIDE DEF Above
      <4> QED
        BY <4>1
    <3>4. g[n][x][seen] = g[n - 1][c[x]][seen \cup {x}]
      <4> DEFINE p == g[n - 1]
      <4>1. g[n] = Further(c, p)
        BY <1>1, FollowGoesOn
      <4> HIDE DEF p, P, Above
      <4>2. g[n][x][seen] = p[c[x]][seen \cup {x}]
        BY <2>3, <3>2, <4>1 DEF Further
      <4> QED
        BY <4>2 DEF p
    <3>3. c[g[n - 1][c[x]][seen \cup {x}]] = NoEmp
      <4> HIDE DEF Above
      <4> QED
        BY <1>5, <3>1, <3>2
    <3> QED
      BY <3>3, <3>4
  <2> QED
    BY <2>2, <2>3
<1>6. P(8)
  <2> HIDE DEF P
  <2>1. P(1) /\ P(2) /\ P(3) /\ P(4)
    BY <1>4, <1>5
  <2> QED
    BY <2>1, <1>5
<1>7. Above(e, {}) /\ Cardinality({}) >= 8 - 8
  BY FS_EmptySet
<1> HIDE DEF Above
<1> QED
  BY <1>1, <1>6, <1>7

-----------------------------------------------------------------------------
(* Sums in the reports *)

\* A sum taken part by part is the sum of all: home says which part an element is in.
LEMMA SumByParts ==
  ASSUME NEW C, IsFiniteSet(C), NEW T, IsFiniteSet(T), NEW f, \A t \in T : f[t] \in Int,
         NEW home, \A t \in T : home[t] \in C
  PROVE  SumFunctionOnSet([c \in C |-> SumFunctionOnSet(f, {t \in T : home[t] = c})], C) = SumFunctionOnSet(f, T)
<1> DEFINE Part(s, c) == {t \in s : home[t] = c}
           Parts(s) == [c \in C |-> SumFunctionOnSet(f, Part(s, c))]
           P == {s \in SUBSET T : SumFunctionOnSet(Parts(s), C) # SumFunctionOnSet(f, s)}
<1> SUFFICES ASSUME P # {} PROVE FALSE
  <2>1. T \notin P => SumFunctionOnSet(Parts(T), C) = SumFunctionOnSet(f, T)
    OBVIOUS
  <2> HIDE DEF P
  <2> QED
    BY <2>1
<1>1. \A s \in P : IsFiniteSet(s)
  BY FS_Subset
<1>2. PICK s \in P : \A u \in SUBSET s : u # s => u \notin P
  <2> HIDE DEF P
  <2> QED
    BY <1>1, SmallestSet
<1>3. s \in SUBSET T /\ IsFiniteSet(s) /\ SumFunctionOnSet(Parts(s), C) # SumFunctionOnSet(f, s)
  BY <1>1, <1>2
<1>4. ASSUME NEW u \in SUBSET s, u # s
      PROVE  SumFunctionOnSet(Parts(u), C) = SumFunctionOnSet(f, u)
  <2>1. u \in SUBSET T /\ u \notin P
    BY <1>2, <1>3, <1>4
  <2> HIDE DEF Parts
  <2> QED
    BY <2>1
<1> HIDE DEF P
<1>5. CASE s = {}
  <2>1. \A c \in C : Parts(s)[c] = 0
    <3> SUFFICES ASSUME NEW c \in C PROVE SumFunctionOnSet(f, Part(s, c)) = 0
      OBVIOUS
    <3>1. Part(s, c) = {}
      BY <1>5
    <3> HIDE DEF Part
    <3> QED
      BY <3>1, SumOfNone
  <2>2. SumFunctionOnSet(Parts(s), C) = 0
    <3> HIDE DEF Parts
    <3> QED
      BY <2>1, SumOfZeros
  <2>3. SumFunctionOnSet(f, s) = 0
    BY <1>5, SumOfNone
  <2> HIDE DEF Parts
  <2> QED
    BY <1>3, <2>2, <2>3
<1>6. CASE s # {}
  <2>1. PICK o \in s : TRUE
    BY <1>6
  <2> DEFINE u == s \ {o}
             d == home[o]
  <2>2. /\ u \in SUBSET s /\ u # s /\ IsFiniteSet(u) /\ o \in T /\ d \in C /\ f[o] \in Int
        /\ \A t \in s : f[t] \in Int
    BY <1>3, FS_Subset
  <2>3. /\ SumFunctionOnSet(f, s) = f[o] + SumFunctionOnSet(f, u)
        /\ SumFunctionOnSet(f, u) \in Int
    BY <1>3, <2>2, SumWithout
  <2>4. ASSUME NEW c \in C
        PROVE  /\ Parts(u)[c] \in Int /\ Parts(s)[c] \in Int
               /\ c # d => Parts(s)[c] = Parts(u)[c]
               /\ c = d => Parts(s)[c] = f[o] + Parts(u)[c]
    <3>1. /\ IsFiniteSet(Part(s, c)) /\ IsFiniteSet(Part(u, c))
          /\ Part(s, c) \subseteq s /\ Part(u, c) \subseteq s
      BY <1>3, FS_Subset
    <3>2. /\ c # d => Part(s, c) = Part(u, c)
          /\ c = d => o \in Part(s, c) /\ Part(s, c) \ {o} = Part(u, c)
      OBVIOUS
    <3>3. /\ Parts(u)[c] = SumFunctionOnSet(f, Part(u, c))
          /\ Parts(s)[c] = SumFunctionOnSet(f, Part(s, c))
      OBVIOUS
    <3> HIDE DEF Part, Parts, u, d
    <3>4. \A t \in Part(s, c) \cup Part(u, c) : f[t] \in Int
      BY <2>2, <3>1
    <3>5. SumFunctionOnSet(f, Part(s, c)) \in Int /\ SumFunctionOnSet(f, Part(u, c)) \in Int
      BY <3>1, <3>4, SumWithout
    <3>6. c = d => SumFunctionOnSet(f, Part(s, c)) = f[o] + SumFunctionOnSet(f, Part(u, c))
      BY <3>1, <3>2, <3>4, SumWithout
    <3> QED
      BY <3>2, <3>3, <3>5, <3>6
  <2>5. SumFunctionOnSet(Parts(u), C) = SumFunctionOnSet(f, u)
    <3> HIDE DEF Parts
    <3> QED
      BY <1>4, <2>2
  <2> HIDE DEF Parts, u, d
  <2>6. /\ SumFunctionOnSet(Parts(s), C) = Parts(s)[d] + SumFunctionOnSet(Parts(s), C \ {d})
        /\ SumFunctionOnSet(Parts(u), C) = Parts(u)[d] + SumFunctionOnSet(Parts(u), C \ {d})
    BY <2>2, <2>4, SumWithout
  <2>7. /\ SumFunctionOnSet(Parts(s), C \ {d}) = SumFunctionOnSet(Parts(u), C \ {d})
        /\ SumFunctionOnSet(Parts(u), C \ {d}) \in Int
    <3>1. IsFiniteSet(C \ {d})
      BY FS_Subset
    <3>2. \A c \in C \ {d} : Parts(s)[c] = Parts(u)[c] /\ Parts(u)[c] \in Int
      BY <2>4
    <3> QED
      BY <3>1, <3>2, SumOfEquals, SumWithout
  <2>8. Parts(s)[d] = f[o] + Parts(u)[d] /\ Parts(u)[d] \in Int
    BY <2>2, <2>4
  <2> QED
    BY <1>3, <2>2, <2>3, <2>5, <2>6, <2>7, <2>8
<1> QED
  BY <1>5, <1>6

-----------------------------------------------------------------------------
(* Employees and their pointers *)

Fields == {"present", "active", "primary", "id", "name", "canon"}
Doubts == [cand : Emps, susp : Emps, status : {"pending", "resolved"}]
PeopleShape ==
  /\ DOMAIN emp = Emps
  /\ \A e \in Emps : DOMAIN emp[e] = Fields /\ emp[e].present \in BOOLEAN
  /\ doubts \subseteq Doubts
  /\ DOMAIN apc = Admins /\ DOMAIN ask = Admins
  /\ \A a \in Admins : ask[a].doubt \subseteq Doubts

\* Somebody on record, or nobody.
OnRecord(e) == e = NoEmp \/ (e \in Emps /\ Present(e))

\* A request that is about to write a pointer has its two rows.
Aims(a) == apc[a] \in {"link", "patch"} => ask[a].dup \in Emps /\ OnRecord(ask[a].canon)

PeopleInv ==
  /\ PeopleShape
  /\ \A e \in Emps : OnRecord(emp[e].canon)
  /\ \A a \in Admins : Aims(a)

\* Nobody gets a pointer, and nobody leaves the record.
Loosened == \A e \in Emps : /\ Present(e) => Present(e)'
                            /\ emp'[e].canon \in {emp[e].canon, NoEmp}

\* A request makes its row a duplicate.
Merges(a) ==
  /\ apc[a] \in {"link", "patch"}
  /\ \A e \in Emps : /\ Present(e) => Present(e)'
                     /\ e # ask[a].dup => emp'[e].canon = emp[e].canon
  /\ emp'[ask[a].dup].canon \in {emp[ask[a].dup].canon, ask[a].canon}

\* A request has read its two rows.
Aimed(a) ==
  /\ emp' = emp /\ ask'[a].dup \in Emps
  /\ \/ ask'[a].canon = NoEmp
     \/ /\ ask'[a].canon # ask'[a].dup
        /\ \E o \in Emps : Present(o) /\ ask'[a].canon = Resolve(Pointers, o)

\* Of the other requests a request changes nothing.
AloneAt(a) == \A b \in Admins \ {a} : apc'[b] = apc[b] /\ ask'[b] = ask[b]

\* The step of a request.
Requested(a) ==
  /\ AloneAt(a)
  /\ \/ Aimed(a)
     \/ apc'[a] \notin {"link", "patch"} /\ (Loosened \/ Merges(a))

\* Every other step.
Others ==
  /\ Loosened
  /\ \A a \in Admins : apc'[a] = "idle" \/ (apc'[a] = apc[a] /\ ask'[a] = ask[a])

-----------------------------------------------------------------------------
(* Lookups *)

\* Whoever is on record resolves to somebody who is.
LEMMA ResolvedIsPresent ==
  ASSUME PeopleInv, NEW e \in Emps, Present(e)
  PROVE  Resolve(Pointers, e) \in Emps /\ Present(Resolve(Pointers, e))
<1> DEFINE S == {x \in Emps : Present(x)}
<1>1. \A x \in S : Pointers[x] = NoEmp \/ Pointers[x] \in S
  BY DEF PeopleInv, OnRecord, Pointers
<1>2. S \in SUBSET Emps /\ e \in S
  OBVIOUS
<1>3. Resolve(Pointers, e) \in S
  <2> HIDE DEF S
  <2> QED
    BY <1>1, <1>2, ResolveStays
<1> QED
  BY <1>3

\* Lookups find active employees.
LEMMA FoundIsActive ==
  ASSUME NEW w
  PROVE  Found(w) \subseteq Active /\ Again(w) \subseteq Active
<1>1. /\ \A p : ByPrimary(p) \subseteq Active /\ ById(p) \subseteq Active /\ ByAlias(p) \subseteq Active
      /\ \A p : ByWbom(p) \subseteq Active
      /\ \A n : ByName(n) \subseteq Active /\ ByLikeness(n) \subseteq Active
  BY DEF ByPrimary, ById, ByAlias, ByWbom, ByName, ByLikeness, Named
<1>2. Again(w) \subseteq Active
  BY <1>1 DEF Again
<1> DEFINE stages == <<ByPrimary(w.pay), ById(w.id), ByAlias(w.pay), ByAlias(w.id),
                       ByWbom(w.pay) \cup ByWbom(w.id), ByName(w.name), ByLikeness(w.name)>>
           hits == {i \in DOMAIN stages : stages[i] # {}}
<1>3. DOMAIN stages = 1..7 /\ \A i \in 1..7 : stages[i] \subseteq Active
  <2>1. DOMAIN stages = 1..7
    OBVIOUS
  <2>2. /\ stages[1] \subseteq Active /\ stages[2] \subseteq Active /\ stages[3] \subseteq Active
        /\ stages[4] \subseteq Active /\ stages[5] \subseteq Active /\ stages[6] \subseteq Active
        /\ stages[7] \subseteq Active
    BY <1>1
  <2> HIDE DEF stages
  <2> QED
    BY <2>1, <2>2
<1>4. hits # {} => Min(hits) \in hits
  <2> SUFFICES ASSUME hits # {} PROVE \E x \in hits : \A y \in hits : x <= y
    BY DEF Min
  <2>1. hits \subseteq 1..7
    BY <1>3
  <2> HIDE DEF hits, stages
  <2>2. \A k \in 1..7 : k \in hits /\ (\A j \in 1..7 : j < k => j \notin hits) => \A y \in hits : k <= y
    BY <2>1
  <2>3. \E k \in 1..7 : k \in hits /\ \A j \in 1..7 : j < k => j \notin hits
    <3>1. SUFFICES ASSUME \A k \in 1..7 : k \in hits => \E j \in 1..7 : j < k /\ j \in hits PROVE FALSE
      BY <3>1
    <3>2. 1 \notin hits /\ 2 \notin hits
      BY <3>1
    <3>3. 3 \notin hits /\ 4 \notin hits
      BY <3>1, <3>2
    <3>4. 5 \notin hits /\ 6 \notin hits /\ 7 \notin hits
      BY <3>1, <3>2, <3>3
    <3>5. \E k \in 1..7 : k \in hits
      BY <2>1
    <3> QED
      BY <3>2, <3>3, <3>4, <3>5
  <2> QED
    BY <2>2, <2>3
<1>5. Found(w) = IF hits = {} THEN {} ELSE stages[Min(hits)]
  BY DEF Found
<1>6. \A i \in hits : stages[i] \subseteq Active
  BY <1>3
<1> HIDE DEF hits, stages
<1> QED
  BY <1>2, <1>4, <1>5, <1>6

LEMMA ActivePresent == \A e \in Active : e \in Emps /\ Present(e)
BY DEF Active, Present

\* The rows a name resembles.
LEMMA SuspectsOnRecord ==
  ASSUME NEW n
  PROVE  Suspects(n) \subseteq Emps
BY DEF Suspects, Named, Active

\* A lookup with creation finds somebody who is on record then, and writes no pointer.
LEMMA MatchStep ==
  ASSUME PeopleInv, NEW w, NEW r \in Emps, Match(w, r) \/ AutoCreate(w, r), apc' = apc, ask' = ask
  PROVE  PeopleShape' /\ Loosened /\ Present(r)'
<1> USE DEF PeopleInv
<1>1. CASE Match(w, r)
  <2>1. Present(r)
    <3>1. PICK e \in Found(w) : r = Resolve(Pointers, e)
      BY <1>1 DEF Match
    <3> QED
      BY <3>1, FoundIsActive, ActivePresent, ResolvedIsPresent
  <2>2. emp' \in {emp, [emp EXCEPT ![r].name = w.name]} /\ doubts' = doubts
    BY <1>1 DEF Match, Enriched
  <2>3. /\ DOMAIN emp' = Emps
        /\ \A e \in Emps : DOMAIN emp'[e] = Fields /\ emp'[e].present = emp[e].present /\ emp'[e].canon = emp[e].canon
    BY <2>2 DEF PeopleShape, Fields
  <2> QED
    BY <2>1, <2>2, <2>3 DEF PeopleShape, Loosened, Present
<1>2. CASE AutoCreate(w, r)
  <2>1. doubts' \subseteq Doubts
    <3>1. \/ doubts' = doubts
          \/ \E s \in Suspects(w.name) : doubts' = doubts \cup {[cand |-> r, susp |-> s, status |-> "pending"]}
      BY <1>2 DEF AutoCreate, Doubt
    <3>2. \A s \in Suspects(w.name) : [cand |-> r, susp |-> s, status |-> "pending"] \in Doubts
      BY SuspectsOnRecord DEF Doubts
    <3> QED
      BY <3>1, <3>2 DEF PeopleShape
  <2>2. CASE \E e \in Again(w) : r = Resolve(Pointers, e) /\ emp' = emp
    <3>1. Present(r)
      BY <2>2, FoundIsActive, ActivePresent, ResolvedIsPresent
    <3> QED
      BY <2>1, <2>2, <3>1 DEF PeopleShape, Loosened, Present
  <2>3. CASE \E id : emp' = [emp EXCEPT ![r] = Person(w.pay, id, w.name)]
    <3>1. PICK id : emp' = [emp EXCEPT ![r] = Person(w.pay, id, w.name)]
      BY <2>3
    <3>2. /\ DOMAIN emp' = Emps /\ emp'[r] = Person(w.pay, id, w.name)
          /\ \A e \in Emps \ {r} : emp'[e] = emp[e]
      BY <3>1 DEF PeopleShape
    <3>3. /\ DOMAIN Person(w.pay, id, w.name) = Fields /\ Person(w.pay, id, w.name).present = TRUE
          /\ Person(w.pay, id, w.name).canon = NoEmp
      BY DEF Person, Fields
    <3> QED
      BY <2>1, <3>2, <3>3 DEF PeopleShape, Loosened, Present
  <2> QED
    BY <1>2, <2>2, <2>3 DEF AutoCreate
<1> QED
  BY <1>1, <1>2

-----------------------------------------------------------------------------
(* The steps of requests *)

\* A request reads its two rows, and writes one pointer.
LEMMA RequestStep ==
  ASSUME PeopleInv, NEW a \in Admins, AdminStep(a)
  PROVE  PeopleShape' /\ Requested(a)
<1> USE DEF PeopleInv
<1>1. \A l, q : Ask(a, l, q) => /\ apc'[a] = l /\ ask'[a] = q /\ AloneAt(a)
                                /\ DOMAIN apc' = Admins /\ DOMAIN ask' = Admins
  BY DEF Ask, AloneAt, PeopleShape
<1>2. NoRequest.doubt = {}
  BY DEF NoRequest
<1>3. ASSUME emp' = emp, doubts' \subseteq Doubts, NEW l, NEW q, Ask(a, l, q), q.doubt \subseteq Doubts
      PROVE  PeopleShape'
  <2>1. \A b \in Admins : ask'[b].doubt \subseteq Doubts
    BY <1>1, <1>3 DEF AloneAt, PeopleShape
  <2> QED
    BY <1>1, <1>3, <2>1 DEF PeopleShape
<1>4. \A e \in Emps : Present(e) /\ emp[e].canon = NoEmp => Resolve(Pointers, e) = e
  <2>1. Pointers \in [Emps -> {emp[e].canon : e \in Emps}] /\ \A e \in Emps : Pointers[e] = emp[e].canon
    BY DEF Pointers
  <2> QED
    BY <2>1, ResolveOnce, PeopleAssumption
<1>5. ASSUME NEW d \in Emps, NEW c \in Emps, Linkable(d, c) PROVE \E o \in Emps : Present(o) /\ c = Resolve(Pointers, o)
  BY <1>4, <1>5 DEF Linkable
<1>6. ASSUME NEW d \in Emps, NEW c \in Emps, LinkRead(a, d, c)
      PROVE  PeopleShape' /\ Requested(a)
  <2> DEFINE q == [NoRequest EXCEPT !.op = "link", !.dup = d, !.canon = c]
  <2>1. q.dup = d /\ q.canon = c /\ q.doubt = {}
    BY <1>2 DEF NoRequest
  <2>2. Ask(a, "link", q) /\ emp' = emp /\ doubts' = doubts /\ Linkable(d, c)
    BY <1>6 DEF LinkRead
  <2> HIDE DEF q
  <2>3. PeopleShape'
    BY <1>3, <2>1, <2>2 DEF PeopleShape
  <2>4. ask'[a] = q /\ AloneAt(a)
    BY <1>1, <2>2
  <2>5. d # c
    BY <2>2 DEF Linkable
  <2> QED
    BY <1>5, <2>1, <2>2, <2>3, <2>4, <2>5 DEF Requested, Aimed
<1>7. ASSUME NEW d \in doubts, NEW merge \in BOOLEAN, ReviewRead(a, d, merge)
      PROVE  PeopleShape' /\ Requested(a)
  <2> DEFINE q == [NoRequest EXCEPT !.op = "review", !.dup = d.cand, !.canon = d.susp, !.doubt = {d}]
             l == IF merge THEN "link" ELSE "close"
  <2>1. q.dup = d.cand /\ q.canon = d.susp /\ q.doubt = {d}
    BY DEF NoRequest
  <2>2. Ask(a, l, q) /\ emp' = emp /\ doubts' = doubts /\ (merge => Linkable(d.cand, d.susp))
    BY <1>7 DEF ReviewRead
  <2>3. d \in Doubts /\ d.cand \in Emps /\ d.susp \in Emps
    BY DEF PeopleShape, Doubts
  <2>4. l \in {"link", "close"} /\ (l = "link" => merge)
    OBVIOUS
  <2> HIDE DEF q, l
  <2>5. PeopleShape'
    BY <1>3, <2>1, <2>2, <2>3 DEF PeopleShape
  <2>6. ask'[a] = q /\ apc'[a] = l /\ AloneAt(a)
    BY <1>1, <2>2
  <2>7. Loosened
    BY <2>2 DEF Loosened, Present
  <2>8. merge => d.cand # d.susp
    BY <2>2 DEF Linkable
  <2>9. CASE l = "link"
    BY <1>5, <2>1, <2>2, <2>3, <2>4, <2>5, <2>6, <2>8, <2>9 DEF Requested, Aimed
  <2> QED
    BY <2>4, <2>5, <2>6, <2>7, <2>9 DEF Requested
<1>8. ASSUME NEW e \in Emps, NEW body \in Bodies, PatchRead(a, e, body)
      PROVE  PeopleShape' /\ Requested(a)
  <2> DEFINE owners == IF body.id = emp[e].id THEN {} ELSE ById(body.id) \ {e}
             targets == IF owners = {} THEN {e} ELSE {Resolve(Pointers, o) : o \in owners}
  <2>1. PICK target \in targets :
          Ask(a, "patch", [NoRequest EXCEPT !.op = "patch", !.dup = e, !.body = body,
                             !.canon = IF target = e THEN NoEmp ELSE target,
                             !.old = {emp[e].primary, emp[e].id}])
    BY <1>8 DEF PatchRead
  <2> DEFINE q == [NoRequest EXCEPT !.op = "patch", !.dup = e, !.body = body,
                     !.canon = IF target = e THEN NoEmp ELSE target,
                     !.old = {emp[e].primary, emp[e].id}]
  <2>2. q.dup = e /\ q.doubt = {} /\ q.canon = IF target = e THEN NoEmp ELSE target
    BY DEF NoRequest
  <2>3. Ask(a, "patch", q) /\ emp' = emp /\ doubts' = doubts
    BY <1>8, <2>1 DEF PatchRead
  <2>4. target # e => \E o \in Emps : Present(o) /\ target = Resolve(Pointers, o)
    <3>1. \A o \in owners : o \in Emps /\ Present(o)
      BY DEF ById, Active, Present
    <3> HIDE DEF owners
    <3> QED
      BY <3>1
  <2> HIDE DEF q, owners, targets
  <2>5. PeopleShape'
    BY <1>3, <2>2, <2>3 DEF PeopleShape
  <2>6. ask'[a] = q /\ AloneAt(a)
    BY <1>1, <2>3
  <2>7. Aimed(a)
    BY <2>2, <2>3, <2>4, <2>6 DEF Aimed
  <2> QED
    BY <2>5, <2>6, <2>7 DEF Requested
<1>9. ASSUME \/ apc[a] = "link" /\ emp' = [emp EXCEPT ![ask[a].dup].canon = ask[a].canon]
             \/ /\ apc[a] = "patch"
                /\ \E new : /\ DOMAIN new = Fields /\ new.present = emp[ask[a].dup].present
                            /\ new.canon \in {emp[ask[a].dup].canon, ask[a].canon}
                            /\ emp' = [emp EXCEPT ![ask[a].dup] = new]
      PROVE  /\ DOMAIN emp' = Emps /\ Merges(a)
             /\ \A e \in Emps : DOMAIN emp'[e] = Fields /\ emp'[e].present \in BOOLEAN
  <2> DEFINE d == ask[a].dup
  <2>1. d \in Emps
    BY <1>9 DEF Aims
  <2>2. /\ DOMAIN emp' = Emps /\ \A e \in Emps \ {d} : emp'[e] = emp[e]
        /\ DOMAIN emp'[d] = Fields /\ emp'[d].present = emp[d].present
        /\ emp'[d].canon \in {emp[d].canon, ask[a].canon}
    BY <1>9, <2>1 DEF PeopleShape, Fields
  <2> HIDE DEF d
  <2>3. \A e \in Emps : DOMAIN emp'[e] = Fields /\ emp'[e].present = emp[e].present
    BY <2>2 DEF PeopleShape
  <2>4. Merges(a)
    BY <1>9, <2>2, <2>3 DEF Merges, Present, d
  <2> QED
    BY <2>2, <2>3, <2>4 DEF PeopleShape
<1>10. ASSUME Merges(a), DOMAIN emp' = Emps, doubts' = doubts,
              \A e \in Emps : DOMAIN emp'[e] = Fields /\ emp'[e].present \in BOOLEAN,
              NEW l, l \notin {"link", "patch"}, NEW q, Ask(a, l, q), q.doubt \subseteq Doubts
       PROVE  PeopleShape' /\ Requested(a)
  <2>1. AloneAt(a) /\ apc'[a] = l /\ ask'[a] = q /\ DOMAIN apc' = Admins /\ DOMAIN ask' = Admins
    BY <1>1, <1>10
  <2>2. \A b \in Admins : ask'[b].doubt \subseteq Doubts
    BY <1>10, <2>1 DEF AloneAt, PeopleShape
  <2> QED
    BY <1>10, <2>1, <2>2 DEF PeopleShape, Requested
<1>11. CASE LinkWrite(a)
  <2>1. /\ apc[a] = "link" /\ emp' = [emp EXCEPT ![ask[a].dup].canon = ask[a].canon] /\ doubts' = doubts
        /\ Ask(a, "close", ask[a]) \/ Ask(a, "idle", NoRequest)
    BY <1>11 DEF LinkWrite, Done
  <2>2. /\ DOMAIN emp' = Emps /\ Merges(a)
        /\ \A e \in Emps : DOMAIN emp'[e] = Fields /\ emp'[e].present \in BOOLEAN
    BY <1>9, <2>1
  <2>3. "close" \notin {"link", "patch"} /\ "idle" \notin {"link", "patch"} /\ ask[a].doubt \subseteq Doubts
    BY DEF PeopleShape
  <2> QED
    BY <1>2, <1>10, <2>1, <2>2, <2>3
<1>12. CASE PatchWrite(a)
  <2> DEFINE q == ask[a]
             old == emp[q.dup]
             new == [old EXCEPT
                      !.name = IF q.body.name = NoName THEN @ ELSE q.body.name,
                      !.primary = IF q.body.primary = NoPhone THEN @ ELSE q.body.primary,
                      !.id = IF q.body.id = NoPhone \/ q.canon # NoEmp THEN @ ELSE q.body.id,
                      !.canon = IF q.canon = NoEmp THEN @ ELSE q.canon]
  <2>1. /\ apc[a] = "patch" /\ emp' = [emp EXCEPT ![q.dup] = new] /\ doubts' = doubts
        /\ Ask(a, "fold", ask[a]) \/ Ask(a, "idle", NoRequest)
    BY <1>12 DEF PatchWrite, Done
  <2>2. DOMAIN old = Fields
    BY <2>1 DEF PeopleShape, Aims
  <2>3. DOMAIN new = Fields /\ new.present = old.present /\ new.canon \in {old.canon, q.canon}
    <3> HIDE DEF old, q
    <3> QED
      BY <2>2 DEF Fields
  <2> HIDE DEF new
  <2>4. /\ DOMAIN emp' = Emps /\ Merges(a)
        /\ \A e \in Emps : DOMAIN emp'[e] = Fields /\ emp'[e].present \in BOOLEAN
    BY <1>9, <2>1, <2>3
  <2>5. "fold" \notin {"link", "patch"} /\ "idle" \notin {"link", "patch"} /\ ask[a].doubt \subseteq Doubts
    BY DEF PeopleShape
  <2> QED
    BY <1>2, <1>10, <2>1, <2>4, <2>5
<1>13. ASSUME emp' = emp PROVE Loosened
  BY <1>13 DEF Loosened, Present
<1>14. CASE ReviewClose(a)
  <2>1. /\ emp' = emp /\ Ask(a, "idle", NoRequest)
        /\ doubts' = (doubts \ ask[a].doubt) \cup {[d EXCEPT !.status = "resolved"] : d \in ask[a].doubt}
    BY <1>14 DEF ReviewClose, Done
  <2>2. \A d \in Doubts : [d EXCEPT !.status = "resolved"] \in Doubts
    BY DEF Doubts
  <2>3. doubts' \subseteq Doubts
    <3>1. ask[a].doubt \subseteq Doubts /\ doubts \subseteq Doubts
      BY DEF PeopleShape
    <3> QED
      BY <2>1, <2>2, <3>1
  <2> QED
    BY <1>1, <1>2, <1>3, <1>13, <2>1, <2>3 DEF Requested
<1>15. CASE PatchFold(a)
  <2>1. emp' = emp /\ doubts' = doubts /\ Ask(a, "idle", NoRequest)
    BY <1>15 DEF PatchFold, Done
  <2> QED
    BY <1>1, <1>2, <1>3, <1>13, <2>1 DEF Requested, PeopleShape
<1> QED
  <2>1. \A d, c \in Emps : LinkRead(a, d, c) => PeopleShape' /\ Requested(a)
    BY <1>6
  <2>2. \A d \in doubts, merge \in BOOLEAN : ReviewRead(a, d, merge) => PeopleShape' /\ Requested(a)
    BY <1>7
  <2>3. \A e \in Emps, body \in Bodies : PatchRead(a, e, body) => PeopleShape' /\ Requested(a)
    BY <1>8
  <2> QED
    BY <2>1, <2>2, <2>3, <1>11, <1>12, <1>14, <1>15 DEF AdminStep

-----------------------------------------------------------------------------
(* The people stay on record *)

\* The steps that concern people.
LEMMA PeopleSteps ==
  ASSUME [Next]_vars
  PROVE  \/ UNCHANGED peopleVars
         \/ MatchEmployee \/ Crash
         \/ \E a \in Admins : MayAsk(a) /\ AdminStep(a)
         \/ \E e \in Emps : MarkInactive(e)
         \/ \E e \in Emps, p \in Phones : AddAlias(e, p)
<1>1. CASE UNCHANGED vars
  BY <1>1, SMT DEF vars, peopleVars
<1> DEFINE Rest == UNCHANGED peopleVars
<1>2. Archived \/ NewMonth => Rest
  BY SMT DEF Archived, NewMonth, peopleVars
<1>3. CASE ParserStep
  <2>1. Rest
    BY <1>3, SMT DEF ParserStep, PollPending, Take, BatchDone, ReadText, StoreUnmatched, MarkNext,
                StoreFailed, MarkFailed, peopleVars
  <2> QED
    BY <2>1
<1>4. \A a : TxnStep(a) => Rest
  BY SMT DEF TxnStep, TxnCheck, TxnInsert, UpsertLedger, Booked, peopleVars
<1>5. CASE BookerStep
  <2>1. Rest \/ MatchEmployee
    BY <1>4, <1>5, SMT DEF BookerStep, PollParsed, Take, BatchDone, Dispatch, CashLookup, BookIncome,
                StoreUnmatched, MarkNext, StoreFailed, MarkFailed, peopleVars
  <2> QED
    BY <2>1
<1>6. \A a : StatementFails(a) \/ BatchFails(a) => Rest
  BY SMT DEF StatementFails, BatchFails, peopleVars
<1>7. \A a, i : (\E e \in Emps, o \in Amounts \cup {0}, c \in Kinds : PromoteRead(a, i, e, o, c)) \/ DismissRead(a, i) => Rest
  BY SMT DEF PromoteRead, DismissRead, peopleVars
<1>8. \A a : PromoteWrite(a) \/ DismissWrite(a) => Rest
  BY SMT DEF PromoteWrite, DismissWrite, peopleVars
<1>9. \A a : \A e \in Emps, n \in Amounts, c \in Kinds : ManualPayment(a, e, n, c) => Rest
  BY SMT DEF ManualPayment, peopleVars
<1>10. \A a : \A t \in txns : ReverseTransaction(a, t) => Rest
  BY SMT DEF ReverseTransaction, peopleVars
<1>11. \A m \in Rows, reset \in BOOLEAN : Requeue(m, reset) => Rest
  BY SMT DEF Requeue, peopleVars
<1>12. CASE Next
  <2> HIDE DEF Rest
  <2>1. Rest \/ MatchEmployee \/ Crash
        \/ (\E a \in Admins : MayAsk(a) /\ AdminStep(a))
        \/ (\E e \in Emps : MarkInactive(e))
        \/ (\E e \in Emps, p \in Phones : AddAlias(e, p)) \/ ParserStep \/ BookerStep
    BY <1>12, <1>2, <1>4, <1>6, <1>7, <1>8, <1>9, <1>10, <1>11, ZenonT(60) DEF Next
  <2> QED
    BY <2>1, <1>3, <1>5 DEF Rest
<1> QED
  BY <1>1, <1>12

\* No other step writes a pointer.
LEMMA OtherSteps ==
  ASSUME PeopleInv,
         \/ UNCHANGED peopleVars \/ MatchEmployee \/ Crash
         \/ (\E e \in Emps : MarkInactive(e)) \/ (\E e \in Emps, p \in Phones : AddAlias(e, p))
  PROVE  PeopleShape' /\ Others
<1> USE DEF PeopleInv
<1>1. ASSUME emp' = emp, doubts' = doubts, apc' = apc, ask' = ask PROVE PeopleShape' /\ Others
  BY <1>1 DEF PeopleShape, Others, Loosened, Present
<1>2. CASE UNCHANGED peopleVars
  BY <1>1, <1>2 DEF peopleVars
<1>3. CASE MatchEmployee
  <2>1. apc' = apc /\ ask' = ask
    BY <1>3 DEF MatchEmployee
  <2>2. \/ \E e \in Emps : Match(Parsed("booker"), e) \/ AutoCreate(Parsed("booker"), e)
        \/ emp' = emp /\ doubts' = doubts
    BY <1>3 DEF MatchEmployee
  <2>3. (\E e \in Emps : Match(Parsed("booker"), e) \/ AutoCreate(Parsed("booker"), e)) => PeopleShape' /\ Loosened
    BY <2>1, MatchStep
  <2> QED
    BY <1>1, <2>1, <2>2, <2>3 DEF Others
<1>4. CASE Crash
  <2>1. emp' = emp /\ doubts' = doubts /\ apc' = [a \in Admins |-> "idle"] /\ ask' = [a \in Admins |-> NoRequest]
    BY <1>4 DEF Crash
  <2> QED
    BY <2>1 DEF PeopleShape, Others, Loosened, Present, NoRequest
<1>5. ASSUME NEW e \in Emps, MarkInactive(e) PROVE PeopleShape' /\ Others
  <2>1. emp' = [emp EXCEPT ![e].active = FALSE] /\ doubts' = doubts /\ apc' = apc /\ ask' = ask
    BY <1>5 DEF MarkInactive
  <2>2. /\ DOMAIN emp' = Emps
        /\ \A x \in Emps : DOMAIN emp'[x] = Fields /\ emp'[x].present = emp[x].present /\ emp'[x].canon = emp[x].canon
    BY <2>1 DEF PeopleShape, Fields
  <2> QED
    BY <2>1, <2>2 DEF PeopleShape, Others, Loosened, Present
<1>6. ASSUME NEW e \in Emps, NEW p \in Phones, AddAlias(e, p) PROVE PeopleShape' /\ Others
  BY <1>1, <1>6 DEF AddAlias
<1> QED
  BY <1>2, <1>3, <1>4, <1>5, <1>6

\* A step is another one, or that of a request which may be made.
LEMMA StepOfPeople ==
  ASSUME PeopleInv, [Next]_vars
  PROVE  PeopleShape' /\ (Others \/ \E a \in Admins : MayAsk(a) /\ Requested(a))
<1>1. ASSUME NEW a \in Admins, MayAsk(a), AdminStep(a) PROVE PeopleShape' /\ Requested(a)
  BY <1>1, RequestStep
<1> QED
  BY <1>1, OtherSteps, PeopleSteps

\* Rows of fpe_employees are not deleted.
LEMMA StaysOnRecord ==
  ASSUME PeopleInv, [Next]_vars
  PROVE  \A e \in Emps : Present(e) => Present(e)'
<1>1. Others \/ \E a \in Admins : Requested(a)
  BY StepOfPeople
<1>2. Loosened => \A e \in Emps : Present(e) => Present(e)'
  BY DEF Loosened
<1>3. ASSUME NEW a \in Admins, Merges(a) \/ Aimed(a) PROVE \A e \in Emps : Present(e) => Present(e)'
  BY <1>3 DEF Merges, Aimed, Present
<1> QED
  BY <1>1, <1>2, <1>3 DEF Others, Requested

\* Pointers lead to rows on record.
LEMMA PeopleStep ==
  ASSUME PeopleInv, [Next]_vars
  PROVE  PeopleInv'
<1> USE DEF PeopleInv
<1>1. PeopleShape' /\ (Others \/ \E a \in Admins : Requested(a))
  BY StepOfPeople
<1>2. \A e : OnRecord(e) => OnRecord(e)'
  BY StaysOnRecord DEF OnRecord
<1>3. ASSUME NEW e \in Emps PROVE OnRecord(emp[e].canon)'
  <2>1. OnRecord(emp[e].canon) /\ OnRecord(NoEmp)
    BY DEF OnRecord
  <2>2. emp'[e].canon \in {emp[e].canon, NoEmp} \/ \E a \in Admins : Merges(a)
    BY <1>1 DEF Others, Requested, Loosened, Aimed
  <2>3. ASSUME NEW a \in Admins, Merges(a) PROVE OnRecord(emp[e].canon)'
    <3>1. OnRecord(ask[a].canon)
      BY <2>3 DEF Merges, Aims
    <3>2. emp'[e].canon \in {emp[e].canon, ask[a].canon}
      BY <2>3 DEF Merges
    <3>3. OnRecord(emp'[e].canon)
      BY <2>1, <3>1, <3>2
    <3>4. \A x : OnRecord(x) => x = NoEmp \/ (x \in Emps /\ emp'[x].present)
      BY <1>2 DEF OnRecord, Present
    <3> QED
      BY <3>3, <3>4 DEF OnRecord, Present
  <2>4. CASE emp'[e].canon \in {emp[e].canon, NoEmp}
    <3>1. OnRecord(emp'[e].canon)
      BY <2>1, <2>4
    <3>2. \A x : OnRecord(x) => x = NoEmp \/ (x \in Emps /\ emp'[x].present)
      BY <1>2 DEF OnRecord, Present
    <3> QED
      BY <3>1, <3>2 DEF OnRecord, Present
  <2> QED
    BY <2>2, <2>3, <2>4
<1>4. ASSUME NEW b \in Admins PROVE Aims(b)'
  <2>0. \A x : OnRecord(x) => x = NoEmp \/ (x \in Emps /\ emp'[x].present)
    BY <1>2 DEF OnRecord, Present
  <2>1. ASSUME apc'[b] = apc[b], ask'[b] = ask[b] PROVE Aims(b)'
    BY <2>0, <2>1 DEF Aims, OnRecord, Present
  <2>2. ASSUME apc'[b] \notin {"link", "patch"} PROVE Aims(b)'
    BY <2>2 DEF Aims
  <2>3. ASSUME Aimed(b) PROVE Aims(b)'
    <3>1. ask'[b].dup \in Emps /\ emp' = emp
      BY <2>3 DEF Aimed
    <3>2. ask'[b].canon = NoEmp \/ (ask'[b].canon \in Emps /\ Present(ask'[b].canon))
      BY <2>3, ResolvedIsPresent DEF Aimed
    <3> QED
      BY <3>1, <3>2 DEF Aims, OnRecord, Present
  <2>4. "idle" \notin {"link", "patch"}
    OBVIOUS
  <2>5. CASE Others
    BY <2>1, <2>2, <2>4, <2>5 DEF Others
  <2>6. ASSUME NEW a \in Admins, Requested(a) PROVE Aims(b)'
    BY <2>1, <2>2, <2>3, <2>6 DEF Requested, AloneAt
  <2> QED
    BY <1>1, <2>5, <2>6
<1> QED
  BY <1>1, <1>3, <1>4

-----------------------------------------------------------------------------
(* Everybody leads home *)

\* Nobody is merged at the start.
LEMMA PeopleAtFirst ==
  ASSUME Init
  PROVE  PeopleInv /\ \A e \in Emps : emp[e].canon = NoEmp
<1>1. ASSUME NEW e \in Emps
      PROVE  DOMAIN emp[e] = Fields /\ emp[e].present \in BOOLEAN /\ emp[e].canon = NoEmp
  <2>1. emp[e] = IF e \in DOMAIN env.people THEN env.people[e] ELSE Absent
    BY DEF Init
  <2>2. e \in DOMAIN env.people => env.people[e] \in Registered
    BY EnvironmentsAssumption DEF Init
  <2>3. \A p \in Registered : DOMAIN p = Fields /\ p.present \in BOOLEAN /\ p.canon = NoEmp
    BY DEF Registered, Fields
  <2>4. DOMAIN Absent = Fields /\ Absent.present \in BOOLEAN /\ Absent.canon = NoEmp
    BY DEF Absent, Fields
  <2> QED
    BY <2>1, <2>2, <2>3, <2>4
<1>2. /\ DOMAIN emp = Emps /\ doubts = {}
      /\ DOMAIN apc = Admins /\ DOMAIN ask = Admins
      /\ \A a \in Admins : apc[a] = "idle" /\ ask[a].doubt = {}
  BY DEF Init, NoRequest
<1>3. PeopleShape
  BY <1>1, <1>2 DEF PeopleShape
<1>4. \A a \in Admins : Aims(a)
  BY <1>2 DEF Aims
<1> QED
  BY <1>1, <1>3, <1>4 DEF PeopleInv, OnRecord

\* Pointers go down a rank.
Ranked(r, e) == emp[e].canon # NoEmp => r[emp[e].canon] < r[e]
Descending == \E r \in [Emps -> Nat] : \A e \in Emps : Ranked(r, e)

\* A request merges its row into one that is nobody's duplicate.
AimsHome(a) ==
  apc[a] \in {"link", "patch"} /\ ask[a].canon # NoEmp =>
    ask[a].canon # ask[a].dup /\ emp[ask[a].canon].canon = NoEmp

OneRequest == \A a, b \in Admins : a = b \/ Idle(a) \/ Idle(b)
HomeInv == ~env.overlap => OneRequest /\ Descending /\ \A a \in Admins : AimsHome(a)

\* Down the ranks everybody leads to one who is nobody's duplicate.
LEMMA DescendingLeadsHome ==
  ASSUME PeopleInv, Descending, Cardinality(Emps) <= 9
  PROVE  LinksLeadHome
<1>1. PICK r \in [Emps -> Nat] : \A e \in Emps : Ranked(r, e)
  BY DEF Descending
<1>2. \A x \in Emps : Pointers[x] = emp[x].canon /\ Pointers[x] \in Emps \cup {NoEmp}
  BY DEF Pointers, PeopleInv, OnRecord
<1>3. \A x \in Emps : Pointers[x] # NoEmp => r[Pointers[x]] < r[x]
  BY <1>1, <1>2 DEF Ranked
<1> SUFFICES ASSUME NEW e \in Emps PROVE Pointers[Resolve(Pointers, e)] = NoEmp
  BY DEF LinksLeadHome
<1> DEFINE c == Pointers
<1> HIDE DEF c
<1>4. \A x \in Emps : c[x] \in Emps \cup {NoEmp}
  BY <1>2 DEF c
<1>5. \A x \in Emps : c[x] # NoEmp => r[c[x]] < r[x]
  BY <1>3 DEF c
<1>6. IsFiniteSet(Emps)
  BY PeopleAssumption
<1>7. c[Resolve(c, e)] = NoEmp
  BY <1>4, <1>5, <1>6, ResolveLeadsHome
<1> QED
  BY <1>7 DEF c

\* A merge into one who is nobody's duplicate puts him below everybody else.
LEMMA DescendingStays ==
  ASSUME PeopleInv, PeopleInv', Descending,
         Loosened \/ \E a \in Admins : Merges(a) /\ AimsHome(a)
  PROVE  Descending'
<1>1. PICK r \in [Emps -> Nat] : \A e \in Emps : Ranked(r, e)
  BY DEF Descending
<1>2. ASSUME \A e \in Emps : emp'[e].canon \in {emp[e].canon, NoEmp}
      PROVE  Descending'
  <2>1. \A e \in Emps : emp'[e].canon # NoEmp => r[emp'[e].canon] < r[e]
    BY <1>1, <1>2 DEF Ranked
  <2> QED
    BY <2>1 DEF Descending, Ranked
<1>3. CASE Loosened
  BY <1>2, <1>3 DEF Loosened
<1>4. ASSUME NEW a \in Admins, Merges(a), AimsHome(a) PROVE Descending'
  <2> DEFINE d == ask[a].dup
             k == ask[a].canon
  <2>1. /\ apc[a] \in {"link", "patch"} /\ d \in Emps
        /\ \A e \in Emps : e # d => emp'[e].canon = emp[e].canon
        /\ emp'[d].canon \in {emp[d].canon, k}
    BY <1>4 DEF Merges, PeopleInv, Aims
  <2>2. CASE k = NoEmp
    BY <1>2, <2>1, <2>2
  <2>3. CASE k # NoEmp
    <3>1. k # d /\ emp[k].canon = NoEmp
      BY <1>4, <2>1, <2>3 DEF AimsHome
    <3>2. \A e \in Emps : emp[e].canon = NoEmp \/ emp[e].canon \in Emps
      BY DEF PeopleInv, OnRecord
    <3>3. k \in Emps
      BY <1>4, <2>1, <2>3 DEF PeopleInv, Aims, OnRecord
    <3> DEFINE s == [x \in Emps |-> IF x = k THEN 0 ELSE r[x] + 1]
    <3> HIDE DEF d, k
    <3>4. s \in [Emps -> Nat]
      BY <1>1
    <3>5. ASSUME NEW e \in Emps, emp'[e].canon # NoEmp PROVE s[emp'[e].canon] < s[e]
      <4>1. emp'[e].canon = emp[e].canon \/ (e = d /\ emp'[e].canon = k)
        BY <2>1
      <4>2. e # k
        BY <3>1, <3>5, <4>1
      <4>3. s[e] = r[e] + 1 /\ r[e] \in Nat
        BY <1>1, <4>2
      <4>4. CASE emp'[e].canon = k
        BY <3>3, <4>3, <4>4
      <4>5. CASE emp'[e].canon = emp[e].canon /\ emp[e].canon # k
        <5>1. emp[e].canon \in Emps /\ r[emp[e].canon] < r[e]
          BY <1>1, <3>2, <3>5, <4>5 DEF Ranked
        <5>2. s[emp[e].canon] = r[emp[e].canon] + 1 /\ r[emp[e].canon] \in Nat
          BY <1>1, <4>5, <5>1
        <5> QED
          BY <4>3, <4>5, <5>1, <5>2
      <4> QED
        BY <4>1, <4>4, <4>5
    <3> HIDE DEF s
    <3> QED
      BY <3>4, <3>5 DEF Descending, Ranked
  <2> QED
    BY <2>2, <2>3
<1> QED
  BY <1>3, <1>4

\* Requests that come one at a time merge into somebody who is nobody's duplicate.
LEMMA HomeStep ==
  ASSUME Cardinality(Emps) <= 9, PeopleInv, PeopleInv', HomeInv, env' = env, [Next]_vars
  PROVE  HomeInv'
<1> SUFFICES ASSUME ~env.overlap PROVE (OneRequest /\ Descending /\ \A a \in Admins : AimsHome(a))'
  BY DEF HomeInv
<1>1. OneRequest /\ Descending /\ \A a \in Admins : AimsHome(a)
  BY DEF HomeInv
<1>2. LinksLeadHome
  BY <1>1, DescendingLeadsHome
<1>3. CASE Others
  <2>1. OneRequest'
    BY <1>1, <1>3 DEF Others, OneRequest, Idle
  <2>2. Descending'
    BY <1>1, <1>3, DescendingStays DEF Others
  <2>3. ASSUME NEW a \in Admins PROVE AimsHome(a)'
    <3>1. CASE apc'[a] = "idle"
      BY <3>1 DEF AimsHome
    <3>2. CASE apc'[a] = apc[a] /\ ask'[a] = ask[a]
      <4>1. SUFFICES ASSUME apc[a] \in {"link", "patch"}, ask[a].canon # NoEmp
                     PROVE  ask[a].canon # ask[a].dup /\ emp'[ask[a].canon].canon = NoEmp
        BY <3>2 DEF AimsHome
      <4>2. ask[a].canon # ask[a].dup /\ emp[ask[a].canon].canon = NoEmp /\ ask[a].canon \in Emps
        BY <1>1, <4>1 DEF AimsHome, PeopleInv, Aims, OnRecord
      <4> QED
        BY <1>3, <4>2 DEF Others, Loosened
    <3> QED
      BY <1>3, <3>1, <3>2 DEF Others
  <2> QED
    BY <2>1, <2>2, <2>3
<1>4. ASSUME NEW a \in Admins, MayAsk(a), Requested(a)
      PROVE  (OneRequest /\ Descending /\ \A b \in Admins : AimsHome(b))'
  <2>1. \A b \in Admins \ {a} : apc[b] = "idle" /\ apc'[b] = "idle"
    BY <1>4 DEF MayAsk, Idle, Requested, AloneAt
  <2>2. OneRequest'
    BY <2>1 DEF OneRequest, Idle
  <2>3. Descending'
    <3>1. CASE Aimed(a)
      <4>1. Loosened
        BY <3>1 DEF Aimed, Loosened, Present
      <4> QED
        BY <1>1, <4>1, DescendingStays
    <3>2. CASE Loosened \/ Merges(a)
      BY <1>1, <3>2, DescendingStays
    <3> QED
      BY <1>4, <3>1, <3>2 DEF Requested
  <2>4. \A b \in Admins \ {a} : AimsHome(b)'
    BY <2>1 DEF AimsHome
  <2>5. AimsHome(a)'
    <3>1. CASE Aimed(a)
      <4>1. SUFFICES ASSUME ask'[a].canon # NoEmp
                     PROVE  ask'[a].canon # ask'[a].dup /\ emp'[ask'[a].canon].canon = NoEmp
        BY DEF AimsHome
      <4>2. /\ ask'[a].canon # ask'[a].dup
            /\ \E o \in Emps : Present(o) /\ ask'[a].canon = Resolve(Pointers, o)
        BY <3>1, <4>1 DEF Aimed
      <4>3. ask'[a].canon \in Emps /\ Pointers[ask'[a].canon] = NoEmp
        BY <1>2, <4>2, ResolvedIsPresent DEF LinksLeadHome
      <4>4. emp[ask'[a].canon].canon = NoEmp
        BY <4>3 DEF Pointers
      <4> QED
        BY <3>1, <4>2, <4>4 DEF Aimed
    <3>2. CASE apc'[a] \notin {"link", "patch"}
      BY <3>2 DEF AimsHome
    <3> QED
      BY <1>4, <3>1, <3>2 DEF Requested
  <2> QED
    BY <2>2, <2>3, <2>4, <2>5
<1> QED
  BY <1>3, <1>4, StepOfPeople

-----------------------------------------------------------------------------
(* Whoever is paid is on record *)

PayeesInv ==
  /\ IsFiniteSet(txns)
  /\ \A t \in txns : Present(t.emp)
  /\ \A a \in Actors : pc[a] \in Booking => Present(txn[a].emp)

\* Who begins to book has found somebody on record.
LEMMA BookingBegins ==
  ASSUME Typed, PeopleInv, PayeesInv, EngineStep, \A e \in Emps : Present(e) => Present(e)',
         NEW a \in Actors, pc'[a] \in Booking
  PROVE  \/ pc[a] \in Booking /\ txn'[a] = txn[a]
         \/ txn'[a].emp \in Emps /\ emp'[txn'[a].emp].present
<1> DEFINE Begins == txn'[a].emp \in Emps /\ emp'[txn'[a].emp].present
           Stays == pc[a] \in Booking /\ txn'[a] = txn[a]
<1>0. TypeOK
  BY DEF Typed
<1> USE <1>0 DEF TypeOK, Jump, WriteSlip, Booking
<1>1. CASE Elsewhere \/ Requeued
  BY <1>1 DEF Elsewhere, Requeued, Requeue, taskVars
<1>2. CASE Crash
  BY <1>2 DEF Crash
<1>3. ASSUME NEW b \in Actors, b # a, ActorStep(b) PROVE Stays
  BY <1>3, OthersRest
<1>4. CASE ActorStep(a)
  <2>1. CASE a = "parser" /\ (PollPending \/ ReadText)
    BY <2>1 DEF PollPending, ReadText
  <2>2. CASE a = "booker" /\ (PollParsed \/ Dispatch \/ BookIncome)
    BY <2>2 DEF PollParsed, Dispatch, BookIncome
  <2>3. CASE a = "booker" /\ CashLookup
    <3>1. \E e \in Emps : Present(e) /\ txn' = [txn EXCEPT ![a] = Payment(Msg(a), Parsed(a), e)]
      BY <2>3 DEF CashLookup
    <3>2. PICK e \in Emps : Present(e) /\ txn' = [txn EXCEPT ![a] = Payment(Msg(a), Parsed(a), e)]
      BY <3>1
    <3>3. txn'[a].emp = e
      BY <3>2 DEF Payment
    <3> QED
      BY <3>2, <3>3 DEF Present
  <2>4. CASE a = "booker" /\ MatchEmployee
    <3>1. PICK e \in Emps : /\ Match(Parsed(a), e) \/ AutoCreate(Parsed(a), e)
                            /\ txn' = [txn EXCEPT ![a] = Payment(Msg(a), Parsed(a), e)]
      BY <2>4 DEF MatchEmployee
    <3>2. apc' = apc /\ ask' = ask
      BY <2>4 DEF MatchEmployee
    <3>3. Present(e)'
      BY <3>1, <3>2, MatchStep
    <3>4. txn'[a].emp = e
      BY <3>1 DEF Payment
    <3> QED
      BY <3>3, <3>4 DEF Present
  <2>5. CASE WorkerStep(a)
    BY <2>5 DEF WorkerStep, Take, BatchDone, StoreUnmatched, MarkNext, StoreFailed, MarkFailed, BatchFails
  <2>6. CASE TxnStep(a)
    BY <2>6 DEF TxnStep, TxnCheck, TxnInsert, UpsertLedger, Booked, Raised
  <2>7. CASE StatementFails(a)
    BY <2>7 DEF StatementFails, Raised
  <2>8. CASE ReviewStep(a)
    <3>1. CASE \E i \in DOMAIN review, e \in Emps, o \in Amounts \cup {0}, c \in Kinds : PromoteRead(a, i, e, o, c)
      <4>1. PICK i \in DOMAIN review, e \in Emps, o \in Amounts \cup {0}, c \in Kinds : PromoteRead(a, i, e, o, c)
        BY <3>1
      <4>2. Present(e) /\ txn'[a].emp = e
        BY <4>1 DEF PromoteRead
      <4> QED
        BY <4>2 DEF Present
    <3>2. CASE (\E i \in DOMAIN review : DismissRead(a, i)) \/ PromoteWrite(a) \/ DismissWrite(a)
      BY <3>2 DEF DismissRead, PromoteWrite, DismissWrite
    <3> QED
      BY <2>8, <3>1, <3>2 DEF ReviewStep
  <2>9. ASSUME NEW e \in Emps, NEW n \in Amounts, NEW c \in Kinds, ManualPayment(a, e, n, c) PROVE Begins
    <3>1. Present(e) /\ txn'[a].emp = e
      BY <2>9 DEF ManualPayment, NoTxn
    <3> QED
      BY <3>1 DEF Present
  <2>10. ASSUME NEW t \in txns, ReverseTransaction(a, t) PROVE Begins
    <3>1. t \in Transactions /\ t.emp \in Emps /\ Present(t.emp)
      BY DEF Typed, AtHand, PayeesInv
    <3>2. txn'[a].emp = t.emp
      BY <2>10, <3>1 DEF ReverseTransaction, Transactions
    <3> QED
      BY <3>1, <3>2 DEF Present
  <2> QED
    BY <1>4, <2>1, <2>2, <2>3, <2>4, <2>5, <2>6, <2>7, <2>8, <2>9, <2>10 DEF ActorStep
<1> QED
  BY <1>1, <1>2, <1>3, <1>4 DEF EngineStep

\* Transactions are of employees on record.
LEMMA PayeesStep ==
  ASSUME Typed, Typed', PeopleInv, PayeesInv, [Next]_vars
  PROVE  PayeesInv'
<1>0. EngineStep
  BY StepsCovered DEF Typed
<1>1. \A e \in Emps : Present(e) => Present(e)'
  BY StaysOnRecord
<1>2. \/ txns' = txns
      \/ \E a \in Actors : pc[a] \in Booking /\ txns' = txns \cup {txn[a]}
  <2>1. \A a : TxnInsert(a) => pc[a] \in Booking
    BY DEF TxnInsert, Booking
  <2> QED
    BY <1>0, <2>1, TxnsStep DEF Typed
<1>3. IsFiniteSet(txns')
  BY <1>2, FS_AddElement DEF PayeesInv
<1>4. \A a \in Actors : pc[a] \in Booking => txn[a].emp \in Emps /\ Present(txn[a].emp)
  BY DEF Typed, AtHand, AtHandOf, PayeesInv
<1>5. \A t \in txns : t.emp \in Emps /\ Present(t.emp)
  BY DEF Typed, AtHand, PayeesInv
<1>6. \A e \in Emps : Present(e) => emp'[e].present
  BY <1>1 DEF Present
<1>7. \A t \in txns' : emp'[t.emp].present
  BY <1>2, <1>4, <1>5, <1>6
<1>8. ASSUME NEW a \in Actors, pc'[a] \in Booking PROVE emp'[txn'[a].emp].present
  BY <1>0, <1>1, <1>4, <1>6, <1>8, BookingBegins DEF Present
<1> QED
  BY <1>3, <1>7, <1>8 DEF PayeesInv, Present, Booking

-----------------------------------------------------------------------------
(* Every payment is listed *)

\* What GET /employees and the history promise where no employee is merged twice.
CountedOnce == (\A e \in Emps : ~MergedTwice(e)) => SumFunction([c \in ListedRows |-> TotalPaid(c)]) = LedgerSum
InHistory == \A t \in txns : ~t.reversal /\ ~MergedTwice(t.emp) => t \in HistoryOf(t.emp)

\* A payment is shown on the row of its employee, or of the one he points to.
LEMMA ShownAtHome ==
  ASSUME Typed, PeopleInv, PayeesInv, NEW t \in txns, ~t.reversal
  PROVE  \A c \in Emps : t \in Shown(c) <=> t.emp = c \/ emp[t.emp].canon = c
BY DEF Typed, AtHand, PayeesInv, Shown, Members

\* The row that shows a payment is the one the lookup finds.
LEMMA HistoryHolds ==
  ASSUME Typed, PeopleInv, PayeesInv
  PROVE  InHistory
<1> SUFFICES ASSUME NEW t \in txns, ~t.reversal, ~MergedTwice(t.emp) PROVE t \in HistoryOf(t.emp)
  BY DEF InHistory
<1> DEFINE e == t.emp
<1>1. e \in Emps /\ (emp[e].canon = NoEmp \/ emp[e].canon \in Emps)
  BY DEF Typed, AtHand, PeopleInv, OnRecord
<1>2. \A x \in Emps : Pointers[x] = emp[x].canon
  BY DEF Pointers
<1>3. Pointers[e] = NoEmp \/ (Pointers[e] \in Emps /\ Pointers[Pointers[e]] = NoEmp)
  BY <1>1, <1>2 DEF MergedTwice
<1> DEFINE c == Pointers
<1> HIDE DEF c, e
<1>4. Resolve(c, e) = IF c[e] = NoEmp THEN e ELSE c[e]
  <2>1. c[e] = NoEmp \/ (c[e] \in Emps /\ c[c[e]] = NoEmp)
    BY <1>3 DEF c
  <2> QED
    BY <1>1, <2>1, ResolveOnce, PeopleAssumption
<1>5. Resolve(Pointers, e) \in Emps /\ (e = Resolve(Pointers, e) \/ emp[e].canon = Resolve(Pointers, e))
  BY <1>1, <1>2, <1>3, <1>4 DEF c
<1> QED
  BY <1>5, ShownAtHome DEF HistoryOf, e

\* The rows part the payments among them.
LEMMA CountedHolds ==
  ASSUME Typed, PeopleInv, PayeesInv
  PROVE  CountedOnce
<1> SUFFICES ASSUME \A e \in Emps : ~MergedTwice(e) PROVE SumFunction([c \in ListedRows |-> TotalPaid(c)]) = LedgerSum
  BY DEF CountedOnce
<1> DEFINE T == {t \in txns : ~t.reversal}
           C == ListedRows
           f == [t \in T |-> t.amount]
           home == [t \in T |-> IF emp[t.emp].canon = NoEmp THEN t.emp ELSE emp[t.emp].canon]
<1>1. IsFiniteSet(T) /\ IsFiniteSet(C)
  <2>1. T \subseteq txns /\ C \subseteq Emps
    BY DEF ListedRows
  <2> QED
    BY <2>1, FS_Subset, PeopleAssumption DEF PayeesInv
<1>2. \A t \in T : f[t] = t.amount /\ f[t] \in Int
  BY DEF Typed, TypeOK, Transactions
<1>3. ASSUME NEW t \in T PROVE home[t] \in C
  <2>1. t.emp \in Emps /\ Present(t.emp)
    BY DEF Typed, AtHand, PayeesInv
  <2>2. OnRecord(emp[t.emp].canon) /\ ~MergedTwice(t.emp)
    BY <2>1 DEF PeopleInv
  <2> QED
    BY <2>1, <2>2 DEF OnRecord, MergedTwice, ListedRows
<1>4. ASSUME NEW c \in C PROVE Shown(c) = {t \in T : home[t] = c}
  <2>1. c \in Emps /\ emp[c].canon = NoEmp /\ c # NoEmp
    BY PeopleAssumption DEF ListedRows
  <2>2. Shown(c) \subseteq T
    BY DEF Shown
  <2>3. ASSUME NEW t \in T PROVE t \in Shown(c) <=> home[t] = c
    <3>1. t \in Shown(c) <=> t.emp = c \/ emp[t.emp].canon = c
      BY <2>1, ShownAtHome
    <3> QED
      BY <2>1, <3>1
  <2> HIDE DEF T, home
  <2> QED
    BY <2>2, <2>3
<1>5. ASSUME NEW c \in C PROVE TotalPaid(c) = SumFunctionOnSet(f, {t \in T : home[t] = c})
  <2>1. Shown(c) \subseteq T /\ IsFiniteSet(Shown(c))
    BY <1>1, FS_Subset DEF Shown
  <2>2. TotalPaid(c) = SumFunctionOnSet([t \in Shown(c) |-> t.amount], Shown(c))
    BY DEF TotalPaid, SumFunction
  <2> DEFINE S == Shown(c)
             g == [t \in S |-> t.amount]
  <2>3. \A t \in S : g[t] = f[t]
    BY <2>1
  <2>4. SumFunctionOnSet(g, S) = SumFunctionOnSet(f, S)
    <3> HIDE DEF f, g, S
    <3> QED
      BY <2>1, <2>3, SumOfEquals DEF S
  <2> HIDE DEF f, home, T
  <2> QED
    BY <1>4, <2>2, <2>4
<1>6. LedgerSum = SumFunctionOnSet(f, T)
  BY DEF LedgerSum, SumFunction
<1>7. SumFunction([c \in C |-> TotalPaid(c)]) = SumFunctionOnSet([c \in C |-> TotalPaid(c)], C)
  BY DEF SumFunction
<1> DEFINE parts == [c \in C |-> SumFunctionOnSet(f, {t \in T : home[t] = c})]
           totals == [c \in C |-> TotalPaid(c)]
<1>8. totals = parts
  <2> HIDE DEF f, T, C, home
  <2> QED
    BY <1>5
<1>9. SumFunctionOnSet(parts, C) = SumFunctionOnSet(f, T)
  <2> HIDE DEF f, T, C, home
  <2> QED
    BY <1>1, <1>2, <1>3, SumByParts
<1> QED
  BY <1>6, <1>7, <1>8, <1>9

\* Employees, pointers and payees stay on record.
LEMMA PeopleAndPayees ==
  Spec => [](Typed /\ PeopleInv /\ PayeesInv)
<1>1. Init => PeopleInv /\ PayeesInv
  <2>1. Init => txns = {} /\ \A a \in Actors : pc[a] = "idle"
    BY DEF Init
  <2>2. Init => PayeesInv
    BY <2>1, FS_EmptySet DEF PayeesInv, Booking
  <2> QED
    BY <2>2, PeopleAtFirst
<1>2. Typed /\ Typed' /\ PeopleInv /\ PayeesInv /\ [Next]_vars => PeopleInv' /\ PayeesInv'
  BY PeopleStep, PayeesStep
<1> QED
  BY <1>1, <1>2, AlwaysTyped, PTL DEF Spec

\* GET /employees and the history ("canonical + every member that resolves to it"):
\* a payment is counted on exactly one row, and shown in the history of its
\* employee, unless that one was merged twice; any number of requests may overlap.
THEOREM PaymentsAreCounted == Spec => [](CountedOnce /\ InHistory)
<1>1. Typed /\ PeopleInv /\ PayeesInv => CountedOnce /\ InHistory
  BY CountedHolds, HistoryHolds
<1> QED
  BY <1>1, PeopleAndPayees, PTL

\* And with identity requests one at a time everybody leads to an employee who is
\* nobody's duplicate: link_duplicate refuses a canonical row that points elsewhere
\* and update_employee resolves its target.  _resolve_canonical follows eight
\* pointers, enough for nine employees in a row and no more.
THEOREM PaymentsAreListed == Cardinality(Emps) <= 9 => (Spec => []PaidIsListed)
<1> SUFFICES ASSUME Cardinality(Emps) <= 9 PROVE Spec => []PaidIsListed
  OBVIOUS
<1>1. Init => HomeInv
  <2> SUFFICES ASSUME Init PROVE OneRequest /\ Descending /\ \A a \in Admins : AimsHome(a)
    BY DEF HomeInv
  <2>1. \A a \in Admins : apc[a] = "idle"
    BY DEF Init
  <2>2. [e \in Emps |-> 0] \in [Emps -> Nat]
    OBVIOUS
  <2>3. Descending
    BY <2>2, PeopleAtFirst DEF Descending, Ranked
  <2> QED
    BY <2>1, <2>3 DEF OneRequest, Idle, AimsHome
<1>2. Typed /\ PeopleInv /\ PeopleInv' /\ HomeInv /\ [Next]_vars => HomeInv'
  <2>1. Typed /\ [Next]_vars => env' = env
    BY StepsCovered, FaultsStep DEF Typed
  <2> QED
    BY <2>1, HomeStep
<1>3. PeopleInv /\ HomeInv /\ CountedOnce /\ InHistory => PaidIsListed
  BY DescendingLeadsHome DEF HomeInv, CountedOnce, InHistory, PaidIsListed
<1>4. Typed /\ PeopleInv /\ HomeInv /\ CountedOnce /\ InHistory => PaidIsListed
  BY <1>3
<1> QED
  BY <1>1, <1>2, <1>4, PeopleAndPayees, PaymentsAreCounted, PTL DEF Spec

-----------------------------------------------------------------------------
(* The books reconcile *)

\* Nobody is there to requeue, dismiss, reverse or add a payment.
Modest ==
  /\ env.faults = 0 /\ env.ops \subseteq {"promote", "advance", "month", "people", "alias"}
  /\ Cardinality(Reviewers \cap env.desk) <= 1

\* What the parser read in the owner's payment; 0 in anything else.
AmountRead(m) ==
  IF results[m] # <<>> /\ results[m][1].type = "payment" THEN results[m][1].amount ELSE 0

\* Only messages are booked, and only promotions open at the desk.
OnlyMessages ==
  /\ \A a \in Reviewers : pc[a] # "dismiss"
  /\ \A a \in Clerks : pc[a] = "idle"
  /\ \A t \in txns : ~t.reversal /\ t.msg \in Rows

\* A row for review shows the amount that was read, and waits until it is booked.
RowsAsRead ==
  \A i \in DOMAIN review :
    /\ review[i].amount = AmountRead(review[i].msg)
    /\ review[i].state = IF review[i].booked THEN "promoted" ELSE "pending"

\* So does a transaction, unless a reviewer made it.
TxnsAsRead == \A t \in txns : RowsOf(t.msg) = {} => t.amount = AmountRead(t.msg)

\* A message with an amount that is through was booked or put up.
ThroughIsBooked == \A m \in Rows : Settled(m) /\ AmountRead(m) # 0 => ~Untouched(m)

\* What the workers carry is what was read.
ParserReads ==
  /\ pc["parser"] = "unmatched" => slip["parser"].amount = 0
  /\ pc["parser"] \in {"unmatched", "mark"} /\ nxt["parser"] = "skipped" => AmountRead(Msg("parser")) = 0
BookerReads ==
  /\ pc["booker"] \notin {"lookup", "income"}
  /\ pc["booker"] = "match" => Parsed("booker").type = "payment"
  /\ pc["booker"] = "unmatched" => slip["booker"].amount = AmountRead(Msg("booker"))
  /\ pc["booker"] \in {"check", "insert"} => txn["booker"].amount = AmountRead(Msg("booker"))
  /\ pc["booker"] \in {"ledger", "booked"} => ~Untouched(Msg("booker"))
  /\ pc["booker"] = "mark" => AmountRead(Msg("booker")) = 0 \/ ~Untouched(Msg("booker"))

AsRead ==
  OnlyMessages /\ RowsAsRead /\ TxnsAsRead /\ ThroughIsBooked /\ ParserReads /\ BookerReads
ReadInv == Modest /\ OnlyPayments => AsRead

\* A modest environment is a quiet one, and stays.
LEMMA ModestStep ==
  ASSUME Typed, EngineStep, Modest
  PROVE  /\ Quiet /\ Modest' /\ env' = env
         /\ ~Allowed("dismiss") /\ ~Allowed("manual") /\ ~Allowed("reverse")
<1>1. env' = env
  BY FaultsStep DEF Typed
<1>2. \A op \in {"dismiss", "manual", "reverse", "requeue"} : op \notin env.ops
  BY DEF Modest
<1> QED
  BY <1>1, <1>2 DEF Modest, Quiet, Allowed

\* Messages that are payments now were payments before.
LEMMA PaymentsBefore ==
  ASSUME BooksGrow, OnlyPayments'
  PROVE  OnlyPayments
BY DEF BooksGrow, OnlyPayments

\* What was read changes in the parser's look at the text only.
LEMMA AmountKept ==
  ASSUME Typed, EngineStep, NEW m \in Rows, ~(ReadText /\ Msg("parser") = m)
  PROVE  AmountRead(m)' = AmountRead(m)
<1>1. results \in [Rows -> Seq(AllReadings)]
  BY DEF Typed, TypeOK
<1>2. results'[m] = results[m]
  BY <1>1, ResultsStep
<1> QED
  BY <1>2 DEF AmountRead

\* So it is settled for a message that was touched, or is with the booker.
LEMMA TouchedAmountKept ==
  ASSUME Typed, PipelineInv, EngineStep, NEW m \in Rows, ~Untouched(m) \/ status[m] # "parsing"
  PROVE  AmountRead(m)' = AmountRead(m)
<1>1. ReadText => Untouched(Msg("parser")) /\ status[Msg("parser")] = "parsing"
  BY DEF ReadText, PipelineInv, ParserInv
<1>2. ~(ReadText /\ Msg("parser") = m)
  BY <1>1
<1> QED
  BY <1>2, AmountKept

\* What the booker has is the one reading of its message, a payment of the owner
\* or a duty list.
LEMMA ParsedIsRead ==
  ASSUME Typed, PipelineInv, OnlyPayments, pc["booker"] \notin {"idle", "take"}
  PROVE  /\ Msg("booker") \in Rows /\ status[Msg("booker")] = "accounting"
         /\ Parsed("booker").type \in {"payment", "escort_payment"}
         /\ Parsed("booker").type = "payment" =>
              /\ AmountRead(Msg("booker")) = Parsed("booker").amount
              /\ Msg("booker") \in FromMe /\ ValidForAccounting(Parsed("booker"))
         /\ Parsed("booker").type # "payment" => AmountRead(Msg("booker")) = 0
<1> DEFINE m == Msg("booker")
           k == cur["booker"][2]
<1>1. /\ m \in Rows /\ status[m] = "accounting" /\ k \in DOMAIN results[m]
      /\ results[m][k].type \in AccountingTypes /\ Len(results[m]) <= 1 /\ results[m] \in Seq(AllReadings)
  BY ActorFacts DEF Typed, TypeOK, AtHand, AtHandOf, Takeable, Workers, Msg, PipelineInv, BookerInv, RowsInv
<1>2. k = 1 /\ results[m] # <<>>
  BY <1>1
<1>3. Parsed("booker") = results[m][1]
  BY <1>2 DEF Parsed, Msg
<1>4. /\ results[m][1].type \notin {"cash_command", "income_command"}
      /\ results[m][1].type = "payment" => m \in FromMe /\ results[m][1].amount > 0
  BY <1>1, <1>2 DEF OnlyPayments
<1>5. AmountRead(m) = IF results[m][1].type = "payment" THEN results[m][1].amount ELSE 0
  BY <1>2 DEF AmountRead
<1> HIDE DEF m, k
<1> QED
  BY <1>1, <1>2, <1>3, <1>4, <1>5 DEF m, AccountingTypes, AmountTypes, ValidForAccounting

\* Nobody books anything but messages.
LEMMA OnlyMessagesStep ==
  ASSUME Typed, Modest, faults = 0, OnlyMessages, EngineStep
  PROVE  OnlyMessages'
<1>0. /\ TypeOK /\ Quiet /\ ~Allowed("dismiss") /\ ~Allowed("manual") /\ ~Allowed("reverse")
      /\ ~Requeued /\ ~Crash /\ \A a \in Actors : ~StatementFails(a) /\ ~BatchFails(a)
      /\ pc \in [Actors -> Places]
  BY ModestStep, QuietStep DEF Typed, TypeOK
<1>1. ASSUME NEW a \in Reviewers PROVE pc'[a] # "dismiss"
  <2>1. CASE Elsewhere
    BY <2>1 DEF Elsewhere, taskVars, OnlyMessages
  <2>2. ASSUME NEW b \in Actors, ActorStep(b) PROVE pc'[a] # "dismiss"
    <3>1. CASE a # b
      BY <1>0, <2>2, <3>1, OthersRest, ActorFacts DEF OnlyMessages
    <3>2. CASE a = b
      <4>0. ActorStep(a)
        BY <2>2, <3>2
      <4>1. TxnStep(a) \/ ReviewStep(a)
        BY <1>0, <4>0, ActorFacts DEF ActorStep, Workers
      <4>2. CASE TxnStep(a)
        BY <1>0, <4>2, ActorFacts DEF TxnStep, TxnCheck, TxnInsert, UpsertLedger, Booked, Jump, Raised, Workers
      <4>3. CASE ReviewStep(a)
        BY <1>0, <4>3, ActorFacts DEF ReviewStep, PromoteRead, PromoteWrite, DismissWrite, Jump
      <4> QED
        BY <4>1, <4>2, <4>3
    <3> QED
      BY <3>1, <3>2
  <2> QED
    BY <1>0, <2>1, <2>2 DEF EngineStep
<1>2. ASSUME NEW a \in Clerks PROVE pc'[a] = "idle"
  <2>1. CASE Elsewhere
    BY <2>1 DEF Elsewhere, taskVars, OnlyMessages
  <2>2. ASSUME NEW b \in Actors, ActorStep(b) PROVE pc'[a] = "idle"
    <3>1. CASE a # b
      BY <1>0, <2>2, <3>1, OthersRest, ActorFacts DEF OnlyMessages
    <3>2. CASE a = b
      <4>0. ActorStep(a)
        BY <2>2, <3>2
      <4>1. TxnStep(a)
        BY <1>0, <4>0, ActorFacts DEF ActorStep, Workers
      <4> QED
        BY <4>1 DEF TxnStep, TxnCheck, TxnInsert, UpsertLedger, Booked, OnlyMessages
    <3> QED
      BY <3>1, <3>2
  <2> QED
    BY <1>0, <2>1, <2>2 DEF EngineStep
<1>3. ASSUME NEW t \in txns' PROVE ~t.reversal /\ t.msg \in Rows
  <2>1. ASSUME NEW a \in Actors, TxnInsert(a), a # "parser" PROVE ~txn[a].reversal /\ txn[a].msg \in Rows
    <3>1. pc[a] = "insert"
      BY <2>1 DEF TxnInsert
    <3>2. CASE a = "booker"
      BY <3>1, <3>2, ActorFacts DEF Typed, AtHand, AtHandOf, Booking, Workers
    <3>3. CASE a \in Reviewers
      <4>1. \A i \in DOMAIN review : review[i] \in ReviewRows
        BY <1>0 DEF TypeOK
      <4>2. \A i \in DOMAIN review : review[i].msg \in Rows
        BY <4>1 DEF ReviewRows
      <4> QED
        BY <3>1, <3>3, <4>2, ActorFacts DEF Typed, AtHand, AtHandOf, Booking
    <3>4. a \notin Clerks
      BY <3>1 DEF OnlyMessages
    <3> QED
      BY <2>1, <3>2, <3>3, <3>4, ActorFacts
  <2> QED
    BY <1>0, <2>1, TxnsStep DEF OnlyMessages
<1> QED
  BY <1>1, <1>2, <1>3 DEF OnlyMessages

\* How the queue moves then: a worker puts a row up, or a reviewer promotes one.
LEMMA QueueMoves ==
  ASSUME Typed, PipelineInv, OnlyMessages, EngineStep
  PROVE  \/ review' = review
         \/ \E a \in Workers :
              /\ StoreUnmatched(a) /\ Msg(a) \in Rows /\ ReviewRow(Msg(a), slip[a]) \in ReviewRows
              /\ review' = Append(review, ReviewRow(Msg(a), slip[a]))
         \/ \E i \in DOMAIN review :
              review' = [review EXCEPT ![i] = [review[i] EXCEPT !.state = "promoted", !.booked = TRUE]]
<1>0. \A j \in DOMAIN review : review[j] \in ReviewRows
  BY DEF Typed, TypeOK
<1>1. ASSUME NEW a \in Workers, StoreUnmatched(a) \/ StoreFailed(a)
      PROVE  /\ StoreUnmatched(a) /\ Msg(a) \in Rows /\ ReviewRow(Msg(a), slip[a]) \in ReviewRows
             /\ review' = Append(review, ReviewRow(Msg(a), slip[a]))
  <2>1. pc[a] # "except"
    BY DEF PipelineInv, ParserInv, BookerInv, Workers
  <2>2. StoreUnmatched(a) /\ pc[a] = "unmatched"
    BY <1>1, <2>1 DEF StoreFailed, StoreUnmatched
  <2>3. Msg(a) \in Rows
    BY <2>2, ActorFacts DEF Typed, AtHand, AtHandOf
  <2>4. ReviewRow(Msg(a), slip[a]) \in ReviewRows
    BY <2>2, RowAtHandTyped
  <2> QED
    BY <2>2, <2>3, <2>4 DEF StoreUnmatched
<1>2. ASSUME NEW a \in Reviewers, PromoteWrite(a) \/ DismissWrite(a)
      PROVE  \E i \in DOMAIN review :
               review' = [review EXCEPT ![i] = [review[i] EXCEPT !.state = "promoted", !.booked = TRUE]]
  <2>1. PromoteWrite(a) /\ pc[a] = "booked"
    BY <1>2 DEF DismissWrite, PromoteWrite, OnlyMessages
  <2> DEFINE i == cur[a][2]
  <2>2. i \in DOMAIN review
    BY <2>1, ActorFacts DEF Typed, AtHand, AtHandOf, Booking
  <2>3. review' = [review EXCEPT ![i].state = "promoted", ![i].booked = TRUE]
    BY <2>1 DEF PromoteWrite
  <2>4. review' = [review EXCEPT ![i] = [review[i] EXCEPT !.state = "promoted", !.booked = TRUE]]
    BY <1>0, <2>2, <2>3 DEF ReviewRows
  <2> QED
    BY <2>2, <2>4
<1> QED
  BY <1>1, <1>2, QueueStep

\* The rows keep showing what was read.
LEMMA RowsAsReadStep ==
  ASSUME Typed, PipelineInv, OnlyMessages, RowsAsRead, ParserReads, BookerReads, EngineStep
  PROVE  RowsAsRead'
<1>0. review \in Seq(ReviewRows) /\ \A i \in DOMAIN review : review[i] \in ReviewRows
  BY DEF Typed, TypeOK
<1>1. ASSUME NEW i \in DOMAIN review', NEW m, m = review'[i].msg,
             i \in DOMAIN review /\ review[i].msg = m /\ review[i].amount = review'[i].amount
      PROVE  review'[i].amount = AmountRead(m)'
  <2>1. m \in Rows
    BY <1>0, <1>1 DEF ReviewRows
  <2>2. AmountRead(m)' = AmountRead(m)
    BY <1>1, <2>1, QueuedIsTouched, TouchedAmountKept
  <2> QED
    BY <1>1, <2>2 DEF RowsAsRead
<1>2. ASSUME NEW i \in DOMAIN review', NEW m, m = review'[i].msg
      PROVE  /\ review'[i].amount = AmountRead(m)'
             /\ review'[i].state = IF review'[i].booked THEN "promoted" ELSE "pending"
  <2>1. CASE review' = review
    BY <1>1, <1>2, <2>1 DEF RowsAsRead
  <2>2. ASSUME NEW a \in Workers, StoreUnmatched(a), Msg(a) \in Rows, ReviewRow(Msg(a), slip[a]) \in ReviewRows,
               review' = Append(review, ReviewRow(Msg(a), slip[a]))
        PROVE  /\ review'[i].amount = AmountRead(m)'
               /\ review'[i].state = IF review'[i].booked THEN "promoted" ELSE "pending"
    <3> DEFINE u == ReviewRow(Msg(a), slip[a])
    <3>1. u.amount = slip[a].amount /\ u.msg = Msg(a) /\ u.state = "pending" /\ ~u.booked /\ u \in ReviewRows
      BY <2>2 DEF ReviewRow
    <3>2. pc[a] = "unmatched"
      BY <2>2 DEF StoreUnmatched
    <3>3. slip[a].amount = AmountRead(Msg(a))
      BY <3>2 DEF ParserReads, BookerReads, PipelineInv, ParserInv, Workers
    <3>4. AmountRead(Msg(a))' = AmountRead(Msg(a))
      <4>1. ReadText => review' = review
        BY DEF ReadText
      <4>2. review' # review
        BY <1>0, <2>2, AppendProperties
      <4>3. ASSUME NEW x \in Rows, x = Msg(a) PROVE AmountRead(x)' = AmountRead(x)
        BY <4>1, <4>2, AmountKept
      <4>4. cur' = cur
        BY <2>2 DEF StoreUnmatched
      <4> QED
        BY <2>2, <4>3, <4>4 DEF AmountRead, Msg
    <3>5. review' = Append(review, u)
      BY <2>2
    <3>6. m = Msg(a) => AmountRead(m)' = AmountRead(Msg(a))
      <4>1. cur' = cur
        BY <2>2 DEF StoreUnmatched
      <4> QED
        BY <3>4, <4>1 DEF AmountRead, Msg
    <3> HIDE DEF u
    <3>7. review'[i] = u \/ (i \in DOMAIN review /\ review'[i] = review[i])
      BY <1>0, <1>2, <3>1, <3>5, AppendProperties
    <3>8. CASE review'[i] = u
      BY <1>2, <3>1, <3>3, <3>6, <3>8
    <3>9. CASE i \in DOMAIN review /\ review'[i] = review[i]
      BY <1>1, <1>2, <3>9 DEF RowsAsRead
    <3> QED
      BY <3>7, <3>8, <3>9
  <2>3. ASSUME NEW j \in DOMAIN review,
               review' = [review EXCEPT ![j] = [review[j] EXCEPT !.state = "promoted", !.booked = TRUE]]
        PROVE  /\ review'[i].amount = AmountRead(m)'
               /\ review'[i].state = IF review'[i].booked THEN "promoted" ELSE "pending"
    <3>1. i \in DOMAIN review
      BY <1>0, <1>2, <2>3
    <3>2. review[i] \in ReviewRows /\ review[j] \in ReviewRows
      BY <1>0, <3>1
    <3>3. CASE i = j
      <4>1. review'[i] = [review[i] EXCEPT !.state = "promoted", !.booked = TRUE]
        BY <1>0, <2>3, <3>1, <3>3
      <4>2. review'[i].msg = review[i].msg /\ review'[i].amount = review[i].amount
            /\ review'[i].state = "promoted" /\ review'[i].booked
        BY <3>2, <4>1 DEF ReviewRows
      <4> QED
        BY <1>1, <1>2, <3>1, <4>2
    <3>4. CASE i # j
      <4>1. review'[i] = review[i]
        BY <1>0, <2>3, <3>1, <3>4
      <4> QED
        BY <1>1, <1>2, <3>1, <4>1 DEF RowsAsRead
    <3> QED
      BY <3>3, <3>4
  <2> QED
    BY <2>1, <2>2, <2>3, QueueMoves
<1>3. ASSUME NEW i \in DOMAIN review'
      PROVE  /\ review'[i].amount = AmountRead(review[i].msg)'
             /\ review'[i].state = IF review'[i].booked THEN "promoted" ELSE "pending"
  <2>1. PICK m : m = review'[i].msg
    OBVIOUS
  <2>2. /\ review'[i].amount = AmountRead(m)'
        /\ review'[i].state = IF review'[i].booked THEN "promoted" ELSE "pending"
    BY <1>2, <2>1
  <2> QED
    BY <2>1, <2>2 DEF AmountRead
<1> QED
  BY <1>3 DEF RowsAsRead

\* A transaction of a message that was never put up is of the amount that was read.
LEMMA TxnsAsReadStep ==
  ASSUME Typed, PipelineInv, OnlyMessages, TxnsAsRead, BookerReads, EngineStep
  PROVE  TxnsAsRead'
<1>0. BooksGrow /\ \A i \in DOMAIN review : i \in DOMAIN review' /\ review'[i].msg = review[i].msg
  BY BooksOnlyGrow DEF BooksGrow
<1>1. ASSUME NEW t \in txns', NEW m, m = t.msg, \A i \in DOMAIN review' : review'[i].msg # m
      PROVE  t.amount = AmountRead(m)'
  <2>1. RowsOf(m) = {}
    BY <1>0, <1>1 DEF RowsOf
  <2>2. CASE t \in txns
    <3>1. m \in Rows /\ t \in PaidFor(m)
      BY <1>1, <2>2 DEF OnlyMessages, PaidFor
    <3>2. AmountRead(m)' = AmountRead(m)
      BY <3>1, TouchedAmountKept DEF Untouched
    <3> QED
      BY <1>1, <2>1, <2>2, <3>2 DEF TxnsAsRead
  <2>3. ASSUME NEW a \in Actors, TxnInsert(a), a # "parser", t = txn[a]
        PROVE  t.amount = AmountRead(m)'
    <3>1. pc[a] = "insert" /\ a \notin Clerks
      BY <2>3 DEF TxnInsert, OnlyMessages
    <3>2. a \notin Reviewers
      BY <1>1, <2>1, <2>3, <3>1, ActorFacts DEF RowsOf, Typed, AtHand, AtHandOf, Booking
    <3>3. a = "booker"
      BY <2>3, <3>1, <3>2, ActorFacts
    <3>4. m = Msg("booker") /\ m \in Rows /\ txn["booker"].amount = AmountRead(m) /\ status[m] = "accounting"
      BY <1>1, <2>3, <3>1, <3>3, ActorFacts
         DEF Typed, AtHand, AtHandOf, Booking, Workers, BookerReads, PipelineInv, BookerInv
    <3>5. AmountRead(m)' = AmountRead(m)
      BY <3>4, TouchedAmountKept
    <3> QED
      BY <2>3, <3>3, <3>4, <3>5
  <2> QED
    BY <1>1, <2>2, <2>3, TxnsStep DEF Typed
<1>2. ASSUME NEW t \in txns', \A i \in DOMAIN review' : review'[i].msg # t.msg
      PROVE  t.amount = AmountRead(t.msg)'
  <2>1. PICK m : m = t.msg
    OBVIOUS
  <2>2. t.amount = AmountRead(m)'
    BY <1>1, <1>2, <2>1
  <2> QED
    BY <2>1, <2>2 DEF AmountRead
<1> QED
  BY <1>2 DEF TxnsAsRead, RowsOf

\* A message with an amount goes through booked or put up.
LEMMA ThroughIsBookedStep ==
  ASSUME Typed, Quiet, PipelineInv, ThroughIsBooked, ParserReads, BookerReads, EngineStep
  PROVE  ThroughIsBooked'
<1>0. BooksGrow
  BY BooksOnlyGrow
<1>1. SUFFICES ASSUME NEW m \in Rows, Settled(m)', Untouched(m)' PROVE AmountRead(m)' = 0
  BY DEF ThroughIsBooked
<1>2. Untouched(m)
  <2>1. txns \subseteq txns' /\ \A i \in DOMAIN review : i \in DOMAIN review' /\ review'[i].msg = review[i].msg
    BY <1>0 DEF BooksGrow
  <2> QED
    BY <1>1, <2>1 DEF Untouched, PaidFor, RowsOf
<1>3. AmountRead(m) = 0
  <2>1. CASE status'[m] = status[m]
    BY <1>1, <1>2, <2>1 DEF Settled, ThroughIsBooked
  <2>2. CASE status'[m] # status[m]
    <3>1. CASE /\ status[m] = "parsing" /\ status'[m] = nxt["parser"] /\ Msg("parser") = m
               /\ pc["parser"] = "mark" /\ pc'["parser"] = "take"
      <4>1. nxt["parser"] = "skipped"
        BY <1>1, <3>1 DEF Settled, PipelineInv, ParserInv
      <4> QED
        BY <3>1, <4>1 DEF ParserReads
    <3>2. CASE /\ status[m] = "accounting" /\ status'[m] = nxt["booker"] /\ Msg("booker") = m
               /\ pc["booker"] = "mark" /\ pc'["booker"] = "take"
      BY <1>2, <3>2 DEF BookerReads
    <3> QED
      BY <1>1, <2>2, <3>1, <3>2, StatusMoves DEF Settled
  <2> QED
    BY <2>1, <2>2
<1>4. ~(ReadText /\ Msg("parser") = m)
  <2>1. ReadText => status' = status /\ status[Msg("parser")] = "parsing"
    BY DEF ReadText, archiveVars, PipelineInv, ParserInv
  <2> QED
    BY <1>1, <2>1 DEF Settled
<1> QED
  BY <1>3, <1>4, AmountKept

\* What was touched stays so.
LEMMA TouchedStays ==
  ASSUME Typed, EngineStep, NEW m, ~Untouched(m)
  PROVE  ~Untouched(m)'
<1>1. txns \subseteq txns' /\ \A i \in DOMAIN review : i \in DOMAIN review' /\ review'[i].msg = review[i].msg
  BY BooksOnlyGrow DEF BooksGrow
<1> QED
  BY <1>1 DEF Untouched, PaidFor, RowsOf

\* The parser skips what is no payment.
LEMMA ParserReadsStep ==
  ASSUME Typed, Quiet, PipelineInv, ParserReads, EngineStep
  PROVE  ParserReads'
<1>0. /\ TypeOK /\ RowsInv /\ ParserInv /\ "parser" \in Actors /\ ~Requeued /\ ~Crash
      /\ pc \in [Actors -> Places] /\ nxt \in [Actors -> Statuses] /\ slip \in [Actors -> Slips]
      /\ cur \in [Actors -> (Rows \cup {NoRow}) \X Nat] /\ results \in [Rows -> Seq(AllReadings)]
  BY ActorFacts, QuietStep DEF Typed, TypeOK, PipelineInv
<1>1. PICK m : m = Msg("parser")
  OBVIOUS
<1>2. pc["parser"] \notin {"idle", "take"} => m \in Rows
  BY <1>0, <1>1, ActorFacts DEF Typed, AtHand, AtHandOf, Workers
<1>3. ASSUME cur'["parser"] = cur["parser"], nxt'["parser"] = nxt["parser"], slip'["parser"] = slip["parser"],
             pc["parser"] \in {"unmatched", "mark"}, pc'["parser"] \in {pc["parser"], "mark"}
      PROVE  ParserReads'
  <2>1. AmountRead(m)' = AmountRead(m)
    BY <1>2, <1>3, AmountKept DEF ReadText
  <2>2. Msg("parser")' = m
    BY <1>1, <1>3 DEF Msg
  <2>3. AmountRead(Msg("parser"))' = AmountRead(m)
    BY <2>1, <2>2 DEF AmountRead
  <2> QED
    BY <1>1, <1>3, <2>3 DEF ParserReads
<1>4. ASSUME pc'["parser"] \notin {"unmatched", "mark"} PROVE ParserReads'
  BY <1>4 DEF ParserReads
<1>5. ASSUME UNCHANGED <<pc["parser"], cur["parser"], nxt["parser"], slip["parser"]>> PROVE ParserReads'
  BY <1>3, <1>4, <1>5
<1>6. CASE Elsewhere
  BY <1>5, <1>6 DEF Elsewhere, taskVars
<1>7. ASSUME NEW a \in Actors, ActorStep(a), a # "parser" PROVE ParserReads'
  BY <1>0, <1>5, <1>7, OthersRest
<1>8. CASE ReadText
  <2>1. PICK r \in ReadingsOf(m) :
          /\ IF Chatter(m, r) THEN UNCHANGED results ELSE StoreParserResult(m, r)
          /\ WriteSlip("parser", NoSlip, IF Bookable(m, r) THEN "parsed" ELSE "skipped")
    BY <1>1, <1>8 DEF ReadText, ReadingsOf
  <2>2. m \in Rows /\ results[m] = <<>> /\ cur' = cur
    BY <1>0, <1>1, <1>2, <1>8 DEF ReadText, ParserInv
  <2>3. slip'["parser"].amount = 0 /\ nxt'["parser"] = IF Bookable(m, r) THEN "parsed" ELSE "skipped"
    BY <1>0, <2>1 DEF WriteSlip, NoSlip
  <2>4. r.type # "payment" => AmountRead(m)' = 0
    <3>1. results'[m] = <<>> \/ results'[m] = Append(<<>>, r)
      BY <1>0, <2>1, <2>2 DEF StoreParserResult
    <3>2. Append(<<>>, r)[1] = r
      BY <2>1
    <3> QED
      BY <3>1, <3>2 DEF AmountRead
  <2>5. nxt'["parser"] = "skipped" => AmountRead(m)' = 0
    BY <2>3, <2>4 DEF Bookable
  <2>6. Msg("parser")' = m
    BY <1>1, <2>2 DEF Msg
  <2> QED
    BY <2>3, <2>5, <2>6 DEF ParserReads, AmountRead
<1>9. CASE StoreUnmatched("parser")
  BY <1>0, <1>3, <1>9 DEF StoreUnmatched, Jump
<1>10. CASE PollPending \/ (\E r \in batch["parser"] : Take("parser", r)) \/ BatchDone("parser")
            \/ MarkNext("parser") \/ StoreFailed("parser") \/ MarkFailed("parser") \/ BatchFails("parser")
            \/ StatementFails("parser")
  <2>1. pc'["parser"] \in {"take", "read", "idle", "exmark", "except"}
    BY <1>0, <1>10 DEF PollPending, Take, BatchDone, MarkNext, StoreFailed, MarkFailed, BatchFails,
       StatementFails, Raised, Workers, Jump
  <2> QED
    BY <1>4, <2>1
<1>11. ASSUME ActorStep("parser") PROVE ParserReads'
  BY <1>8, <1>9, <1>10, <1>11, ActorFacts DEF ActorStep, WorkerStep
<1>12. ASSUME NEW a \in Actors, ActorStep(a), a = "parser" PROVE ActorStep("parser")
  BY <1>12
<1> QED
  BY <1>0, <1>6, <1>7, <1>11, <1>12 DEF EngineStep

\* The booker carries what was read until it is booked or put up.
LEMMA BookerReadsStep ==
  ASSUME Typed, Quiet, PipelineInv, OnlyPayments, BookerReads, EngineStep
  PROVE  BookerReads'
<1>0. /\ TypeOK /\ RowsInv /\ BookerInv /\ BooksGrow /\ "booker" \in Actors /\ ~Requeued /\ ~Crash
      /\ pc \in [Actors -> Places] /\ nxt \in [Actors -> Statuses] /\ slip \in [Actors -> Slips]
      /\ cur \in [Actors -> (Rows \cup {NoRow}) \X Nat] /\ txn \in [Actors -> Transactions]
  BY ActorFacts, QuietStep, BooksOnlyGrow DEF Typed, TypeOK, PipelineInv
<1> DEFINE b == "booker"
<1>1. PICK m : m = Msg(b)
  OBVIOUS
<1>2. pc[b] \notin {"idle", "take"} => /\ m \in Rows /\ status[m] = "accounting"
                                       /\ cur[b][2] \in DOMAIN results[m]
  BY <1>0, <1>1, ActorFacts DEF Typed, AtHand, AtHandOf, Takeable, Workers, Msg, BookerInv
<1>3. pc[b] \notin {"idle", "take"} => AmountRead(m)' = AmountRead(m)
  BY <1>2, TouchedAmountKept
<1>4. ASSUME cur'[b] = cur[b], pc[b] \notin {"idle", "take"},
             pc'[b] \notin {"lookup", "income"},
             pc'[b] = "match" => Parsed(b).type = "payment",
             pc'[b] = "unmatched" => slip'[b].amount = AmountRead(m),
             pc'[b] \in {"check", "insert"} => txn'[b].amount = AmountRead(m),
             pc'[b] \in {"ledger", "booked"} => ~Untouched(m)',
             pc'[b] = "mark" => AmountRead(m) = 0 \/ ~Untouched(m)'
      PROVE  BookerReads'
  <2>1. Msg(b)' = m
    BY <1>1, <1>4 DEF Msg
  <2>2. AmountRead(Msg(b))' = AmountRead(m) /\ Untouched(Msg(b))' = Untouched(m)'
    BY <1>3, <1>4, <2>1 DEF AmountRead, Untouched, PaidFor, RowsOf
  <2>3. Parsed(b)' = Parsed(b)
    <3>1. m = cur[b][1]
      BY <1>1 DEF Msg
    <3>2. results'[m][cur[b][2]] = results[m][cur[b][2]]
      BY <1>0, <1>2, <1>4 DEF BooksGrow
    <3> QED
      BY <1>4, <3>1, <3>2 DEF Parsed
  <2> QED
    BY <1>4, <2>2, <2>3 DEF BookerReads
<1>5. ASSUME pc'[b] \in {"idle", "take", "validate", "except", "exmark"} PROVE BookerReads'
  BY <1>5 DEF BookerReads
<1>6. ASSUME UNCHANGED <<pc[b], cur[b], txn[b], slip[b]>> PROVE BookerReads'
  <2>1. CASE pc[b] \in {"idle", "take"}
    BY <1>5, <1>6, <2>1
  <2>2. CASE pc[b] \notin {"idle", "take"}
    <3>1. ~Untouched(m) => ~Untouched(m)'
      BY TouchedStays
    <3> QED
      BY <1>1, <1>4, <1>6, <2>2, <3>1 DEF BookerReads
  <2> QED
    BY <2>1, <2>2
<1>7. CASE Elsewhere
  BY <1>6, <1>7 DEF Elsewhere, taskVars
<1>8. ASSUME NEW a \in Actors, ActorStep(a), a # b PROVE BookerReads'
  BY <1>0, <1>6, <1>8, OthersRest
<1>9. CASE Dispatch
  <2>1. pc[b] = "validate" /\ cur' = cur
    BY <1>9 DEF Dispatch
  <2>2. CASE Parsed(b).type = "payment"
    <3>1. ValidForAccounting(Parsed(b)) /\ m \in FromMe
      BY <1>1, <2>1, <2>2, ParsedIsRead
    <3>2. pc'[b] = "match"
      BY <1>0, <1>1, <1>9, <2>2, <3>1 DEF Dispatch, Jump
    <3> QED
      BY <1>4, <2>1, <2>2, <3>2
  <2>3. CASE Parsed(b).type # "payment"
    <3>1. Parsed(b).type = "escort_payment" /\ AmountRead(m) = 0
      BY <1>1, <2>1, <2>3, ParsedIsRead
    <3>2. pc'[b] \in {"unmatched", "mark"}
      BY <1>0, <1>1, <1>9, <3>1 DEF Dispatch, Jump
    <3>3. slip'[b].amount = 0
      BY <1>0, <1>1, <1>9 DEF Dispatch, WriteSlip, NoSlip
    <3> QED
      BY <1>4, <2>1, <3>1, <3>2, <3>3
  <2> QED
    BY <2>2, <2>3
<1>10. CASE MatchEmployee
  <2>1. pc[b] = "match" /\ cur' = cur /\ Parsed(b).type = "payment"
    BY <1>10 DEF MatchEmployee, BookerReads
  <2>2. AmountRead(m) = Parsed(b).amount
    BY <1>1, <2>1, ParsedIsRead
  <2>3. \/ pc'[b] = "check" /\ txn'[b].amount = Parsed(b).amount
        \/ pc'[b] = "unmatched" /\ slip'[b].amount = Parsed(b).amount
    <3>1. ASSUME NEW e \in Emps, txn' = [txn EXCEPT ![b] = Payment(Msg(b), Parsed(b), e)]
          PROVE  txn'[b].amount = Parsed(b).amount
      BY <1>0, <3>1 DEF Payment
    <3>2. ASSUME WriteSlip(b, [amount |-> Parsed(b).amount, method |-> Parsed(b).method, dated |-> TRUE], "failed")
          PROVE  slip'[b].amount = Parsed(b).amount
      BY <1>0, <3>2 DEF WriteSlip
    <3> QED
      BY <1>0, <1>10, <2>1, <3>1, <3>2 DEF MatchEmployee, Jump
  <2> QED
    BY <1>4, <2>1, <2>2, <2>3
<1>11. CASE StoreUnmatched(b)
  <2>1. pc[b] = "unmatched" /\ pc'[b] = "mark" /\ cur' = cur
    BY <1>0, <1>11 DEF StoreUnmatched, Jump
  <2>2. ReviewRow(Msg(b), slip[b]) \in ReviewRows /\ review \in Seq(ReviewRows)
    BY <1>0, <2>1, RowAtHandTyped DEF Workers, TypeOK
  <2>3. \E i \in DOMAIN review' : review'[i] = ReviewRow(Msg(b), slip[b])
    <3>1. review' = Append(review, ReviewRow(Msg(b), slip[b]))
      BY <1>11 DEF StoreUnmatched
    <3> QED
      BY <2>2, <3>1, AppendProperties
  <2>4. ReviewRow(Msg(b), slip[b]).msg = m
    BY <1>1 DEF ReviewRow
  <2>5. \E i \in DOMAIN review' : review'[i].msg = m
    BY <2>3, <2>4
  <2>6. ~Untouched(m)'
    BY <2>5 DEF Untouched, RowsOf
  <2> QED
    BY <1>4, <2>1, <2>6
<1>12. CASE TxnStep(b)
  <2>1. /\ cur' = cur /\ pc[b] \in Booking
        /\ txn[b].msg = m /\ ~txn[b].reversal
    BY <1>0, <1>1, <1>12, ActorFacts DEF TxnStep, TxnCheck, TxnInsert, UpsertLedger, Booked, Booking,
         Typed, AtHand, AtHandOf
  <2>2. txn[b] \in txns' => ~Untouched(m)'
    BY <2>1 DEF Untouched, PaidFor
  <2>t. Taken(txn[b]) /\ txns' = txns => ~Untouched(m)'
    BY <2>1, TakenFacts DEF Untouched, PaidFor
  <2>3. CASE TxnCheck(b)
    <3>1. /\ txns' = txns /\ txn' = txn /\ pc[b] = "check"
          /\ pc'[b] = "insert" \/ (pc'[b] = "booked" /\ Taken(txn[b]))
      BY <1>0, <2>1, <2>3 DEF TxnCheck, Jump, bookVars
    <3> QED
      BY <1>1, <1>4, <2>1, <2>t, <3>1 DEF BookerReads, Booking
  <2>4. CASE TxnInsert(b)
    <3>1. /\ txn[b] \in txns' \/ (Taken(txn[b]) /\ txns' = txns)
          /\ pc'[b] \in {"except", "ledger"}
      BY <1>0, <2>4 DEF TxnInsert, Jump, Raised, Workers
    <3> QED
      BY <1>4, <1>5, <2>1, <2>2, <2>t, <3>1 DEF Booking
  <2>5. CASE UpsertLedger(b) \/ Booked(b)
    <3>1. pc[b] \in {"ledger", "booked"} /\ pc'[b] \in {"booked", "mark"}
      BY <1>0, <2>5 DEF UpsertLedger, Booked, Jump, WriteSlip
    <3>2. ~Untouched(m)'
      BY <1>1, <3>1, TouchedStays DEF BookerReads
    <3> QED
      BY <1>4, <2>1, <3>1, <3>2 DEF Booking
  <2> QED
    BY <1>12, <2>3, <2>4, <2>5 DEF TxnStep
<1>13. CASE PollParsed \/ (\E r \in batch[b] : Take(b, r)) \/ BatchDone(b) \/ MarkNext(b)
            \/ StoreFailed(b) \/ MarkFailed(b) \/ BatchFails(b) \/ StatementFails(b)
  <2>1. pc'[b] \in {"idle", "take", "validate", "except", "exmark"}
    BY <1>0, <1>13 DEF PollParsed, Take, BatchDone, MarkNext, StoreFailed, MarkFailed, BatchFails,
       StatementFails, Raised, Workers, Jump
  <2> QED
    BY <1>5, <2>1
<1>14. ~CashLookup /\ ~BookIncome
  BY DEF CashLookup, BookIncome, BookerReads
<1>15. ASSUME ActorStep(b) PROVE BookerReads'
  BY <1>9, <1>10, <1>11, <1>12, <1>13, <1>14, <1>15, ActorFacts DEF ActorStep, WorkerStep
<1>16. ASSUME NEW a \in Actors, ActorStep(a), a = b PROVE ActorStep(b)
  BY <1>16
<1> QED
  BY <1>0, <1>7, <1>8, <1>15, <1>16 DEF EngineStep

\* The rows of a message that wait for review.
WaitingOf(m) == {i \in RowsOf(m) : review[i].state = "pending"}

\* At rest, what is booked for a message and what waits come to what was read.
LEMMA MessageReconciles ==
  ASSUME Typed, PipelineInv, DeskInv, AsRead, OnlyPayments, BookedAsRead, AtRest,
         NEW m \in Rows, status[m] \in {"none", "done", "skipped", "failed"},
         NEW f, \A t \in txns : ~t.reversal => f[t] = t.amount,
         NEW w, \A i \in DOMAIN review : review[i].state = "pending" => w[i] = review[i].amount,
         NEW L, L = PaidFor(m), NEW U, U = WaitingOf(m)
  PROVE  /\ AmountRead(m) \in Int
         /\ SumFunctionOnSet(f, L) \in Int /\ SumFunctionOnSet(w, U) \in Int
         /\ SumFunctionOnSet(f, L) + SumFunctionOnSet(w, U) = AmountRead(m)
<1> DEFINE n == AmountRead(m)
           Balanced == /\ n \in Int
                       /\ SumFunctionOnSet(f, L) \in Int /\ SumFunctionOnSet(w, U) \in Int
                       /\ SumFunctionOnSet(f, L) + SumFunctionOnSet(w, U) = n
<1> SUFFICES Balanced
  OBVIOUS
<1>0. ASSUME NEW p, NEW q, p \in Int, q \in Int, p + q = n, SumFunctionOnSet(f, L) = p, SumFunctionOnSet(w, U) = q
      PROVE  Balanced
  <2> HIDE DEF n
  <2>1. n \in Int
    BY <1>0
  <2> QED
    BY <1>0, <2>1
<1>1. L = PaidFor(m) /\ U = {i \in RowsOf(m) : review[i].state = "pending"}
  BY DEF WaitingOf
<1>2. n \in Int
  <2>1. results[m] # <<>> => results[m] \in Seq(AllReadings) /\ 1 \in DOMAIN results[m]
    BY DEF Typed, TypeOK
  <2>2. results[m] # <<>> => results[m][1] \in ReadingsOf(m)
    BY <2>1 DEF Typed, AtHand, ResultsRead
  <2>3. results[m] # <<>> => results[m][1].amount \in Int
    BY <2>2, ReadingTypes
  <2> QED
    BY <2>3 DEF AmountRead
<1>3. SumFunctionOnSet(f, {}) = 0 /\ SumFunctionOnSet(w, {}) = 0
  BY SumOfNone
<1>4. ASSUME NEW t \in PaidFor(m) PROVE L = {t} /\ f[t] = t.amount
  BY <1>1, <1>4 DEF DeskInv, PaidOnce, PaidFor
<1>5. CASE RowsOf(m) = {}
  <2>1. U = {}
    BY <1>1, <1>5
  <2>2. CASE PaidFor(m) = {}
    <3>1. n = 0
      <4>1. Untouched(m)
        BY <1>5, <2>2 DEF Untouched
      <4>2. status[m] = "none" => results[m] = <<>>
        BY DEF PipelineInv, RowsInv
      <4> QED
        BY <4>1, <4>2 DEF AsRead, ThroughIsBooked, Settled, AmountRead
    <3>2. SumFunctionOnSet(f, L) = 0 /\ SumFunctionOnSet(w, U) = 0
      BY <1>1, <1>3, <2>1, <2>2
    <3> HIDE DEF n, Balanced
    <3> QED
      BY <1>0, <3>1, <3>2
  <2>3. ASSUME NEW t \in PaidFor(m) PROVE SumFunctionOnSet(f, L) = n
    <3>1. t.amount = n
      BY <1>5, <2>3 DEF AsRead, TxnsAsRead, PaidFor
    <3>2. L = {t} /\ f[t] = n
      BY <1>4, <2>3, <3>1
    <3> HIDE DEF n
    <3>3. SumFunctionOnSet(f, {t}) = n
      BY <1>2, <3>2, SumOfOne
    <3> QED
      BY <3>2, <3>3
  <2>4. CASE PaidFor(m) # {}
    <3>1. SumFunctionOnSet(f, L) = n
      BY <2>3, <2>4
    <3>2. SumFunctionOnSet(w, U) = 0
      BY <1>3, <2>1
    <3> HIDE DEF n, Balanced
    <3> QED
      BY <1>0, <1>2, <3>1, <3>2
  <2> QED
    BY <2>2, <2>4
<1>6. ASSUME NEW i \in RowsOf(m)
      PROVE  Balanced
  <2>1. i \in DOMAIN review /\ review[i].msg = m /\ RowsOf(m) = {i}
    BY <1>6 DEF DeskInv, OneRowEach, RowsOf
  <2>2. review[i].amount = n /\ (review[i].state = IF review[i].booked THEN "promoted" ELSE "pending")
    BY <2>1 DEF AsRead, RowsAsRead
  <2>3. CASE review[i].booked
    <3>1. U = {}
      BY <1>1, <2>1, <2>2, <2>3
    <3>2. PICK t \in txns : ~t.reversal /\ t.msg = m /\ t.amount = n
      BY <2>1, <2>2, <2>3 DEF BookedAsRead
    <3>3. t \in PaidFor(m)
      BY <3>2 DEF PaidFor
    <3>4. L = {t} /\ f[t] = n
      BY <1>4, <3>2, <3>3
    <3>5. SumFunctionOnSet(w, U) = 0
      BY <1>3, <3>1
    <3> HIDE DEF n, Balanced
    <3>6. SumFunctionOnSet(f, L) = n
      BY <1>2, <3>4, SumOfOne
    <3> QED
      BY <1>0, <1>2, <3>5, <3>6
  <2>4. CASE ~review[i].booked
    <3>1. U = {i} /\ w[i] = n
      BY <1>1, <2>1, <2>2, <2>4
    <3>2. PaidFor(m) = {}
      BY <2>1, <2>4, ActorFacts DEF DeskInv, PaidShows, AtRest
    <3>3. L = {}
      BY <1>1, <3>2
    <3>4. SumFunctionOnSet(f, L) = 0
      BY <1>3, <3>3
    <3> HIDE DEF n, Balanced
    <3>5. SumFunctionOnSet(w, U) = n
      BY <1>2, <3>1, SumOfOne
    <3> QED
      BY <1>0, <1>2, <3>4, <3>5
  <2> QED
    BY <2>3, <2>4
<1> HIDE DEF n, Balanced
<1>7. CASE RowsOf(m) # {}
  BY <1>6, <1>7
<1> QED
  BY <1>5, <1>7

\* The owner's payments the parser read in a message come to what was read in it.
PaymentsIn(m) ==
  {<<m, k>> : k \in {j \in DOMAIN results[m] : m \in FromMe /\ results[m][j].type = "payment"}}

LEMMA ParserPart ==
  ASSUME Typed, PipelineInv, OnlyPayments, NEW m \in Rows, AmountRead(m) \in Int,
         NEW P, P = PaymentsIn(m), NEW f, \A q \in P : f[q] = results[q[1]][q[2]].amount
  PROVE  SumFunctionOnSet(f, P) = AmountRead(m)
<1>1. results[m] \in Seq(AllReadings) /\ Len(results[m]) <= 1
  BY DEF Typed, TypeOK, PipelineInv, RowsInv
<1>2. \A k \in DOMAIN results[m] : k = 1 /\ results[m] # <<>>
  BY <1>1
<1>3. CASE results[m] # <<>> /\ results[m][1].type = "payment"
  <2>1. 1 \in DOMAIN results[m]
    BY <1>1, <1>3
  <2>2. m \in FromMe
    BY <1>3, <2>1 DEF OnlyPayments
  <2>3. P = {<<m, 1>>}
    BY <1>2, <1>3, <2>1, <2>2 DEF PaymentsIn
  <2>4. PICK q : q = <<m, 1>>
    OBVIOUS
  <2>5. P = {q} /\ f[q] = AmountRead(m)
    BY <1>3, <2>3, <2>4 DEF AmountRead
  <2>6. SumFunctionOnSet(f, {q}) = AmountRead(m)
    BY <2>5, SumOfOne
  <2> QED
    BY <2>5, <2>6
<1>4. CASE ~(results[m] # <<>> /\ results[m][1].type = "payment")
  <2>1. AmountRead(m) = 0
    BY <1>4 DEF AmountRead
  <2>2. P = {}
    BY <1>2, <1>4 DEF PaymentsIn
  <2> QED
    BY <2>1, <2>2, SumOfNone
<1> QED
  BY <1>3, <1>4

\* So the three sums of reconcile.py come out even, message by message.
LEMMA SumsReconcile ==
  ASSUME Typed, IsFiniteSet(txns), PipelineInv, DeskInv, AsRead, OnlyPayments, BookedAsRead, AtRest,
         \A m \in Rows : status[m] \in {"none", "done", "skipped", "failed"}
  PROVE  ParserSum = LedgerSum + UnmatchedSum
<1> DEFINE T == {u \in txns : ~u.reversal}
           I == {j \in DOMAIN review : review[j].state = "pending"}
           Q == UNION {{<<m, k>> : k \in {j \in DOMAIN results[m] : results[m][j].type = "payment"}} : m \in FromMe}
           f == [t \in T |-> t.amount]
           w == [i \in I |-> review[i].amount]
           g == [q \in Q |-> results[q[1]][q[2]].amount]
           ofT == [t \in T |-> t.msg]
           ofI == [i \in I |-> review[i].msg]
           ofQ == [q \in Q |-> q[1]]
           L(m) == {t \in T : ofT[t] = m}
           U(m) == {i \in I : ofI[i] = m}
           P(m) == {q \in Q : ofQ[q] = m}
           fs == [m \in Rows |-> SumFunctionOnSet(f, L(m))]
           ws == [m \in Rows |-> SumFunctionOnSet(w, U(m))]
           gs == [m \in Rows |-> SumFunctionOnSet(g, P(m))]
<1>1. IsFiniteSet(Rows) /\ FromMe \subseteq Rows
  BY ArchiveAssumption, EngineAssumption
<1>2. review \in Seq(ReviewRows) /\ \A i \in DOMAIN review : review[i] \in ReviewRows
  BY DEF Typed, TypeOK
<1>3. \A i \in DOMAIN review : review[i].msg \in Rows /\ review[i].amount \in Int
  BY <1>2 DEF ReviewRows
<1>4. \A t \in txns : t.amount \in Int /\ (~t.reversal => t.msg \in Rows)
  BY DEF Typed, TypeOK, Transactions, AsRead, OnlyMessages
<1>5. ASSUME NEW q \in Q
      PROVE  \E m \in FromMe : \E k \in DOMAIN results[m] :
               q = <<m, k>> /\ results[m][k].type = "payment" /\ k = 1 /\ results[m][k].amount \in Int
  <2>0. PICK m \in FromMe : \E k \in DOMAIN results[m] : q = <<m, k>> /\ results[m][k].type = "payment"
    OBVIOUS
  <2>1. PICK k \in DOMAIN results[m] : q = <<m, k>> /\ results[m][k].type = "payment"
    BY <2>0
  <2>2. results[m] \in Seq(AllReadings) /\ Len(results[m]) <= 1
    BY <1>1 DEF Typed, TypeOK, PipelineInv, RowsInv
  <2>3. k = 1
    BY <2>2
  <2>4. results[m][k].amount \in Int
    BY <1>1, ReadingTypes DEF Typed, AtHand, ResultsRead
  <2> QED
    BY <2>1, <2>3, <2>4
<1>6. IsFiniteSet(T) /\ IsFiniteSet(I) /\ IsFiniteSet(Q)
  <2>1. IsFiniteSet(T)
    BY FS_Subset
  <2>2. IsFiniteSet(I)
    <3>1. IsFiniteSet(1 .. Len(review)) /\ I \subseteq 1 .. Len(review)
      BY <1>2, FS_Interval
    <3> QED
      BY <3>1, FS_Subset
  <2>3. IsFiniteSet(Q)
    <3>1. IsFiniteSet(Rows \X {1})
      BY <1>1, FS_Singleton, FS_Product
    <3>2. Q \subseteq Rows \X {1}
      <4> HIDE DEF Q
      <4> QED
        BY <1>1, <1>5
    <3> QED
      BY <3>1, <3>2, FS_Subset
  <2> QED
    BY <2>1, <2>2, <2>3
<1>7. /\ \A t \in T : f[t] \in Int /\ ofT[t] \in Rows
      /\ \A i \in I : w[i] \in Int /\ ofI[i] \in Rows
  BY <1>3, <1>4
<1>8. \A q \in Q : g[q] \in Int /\ ofQ[q] \in Rows
  <2> SUFFICES ASSUME NEW q \in Q PROVE g[q] \in Int /\ ofQ[q] \in Rows
    OBVIOUS
  <2>0. PICK m \in FromMe : \E k \in DOMAIN results[m] :
          q = <<m, k>> /\ results[m][k].type = "payment" /\ k = 1 /\ results[m][k].amount \in Int
    BY <1>5
  <2>1. PICK k \in DOMAIN results[m] :
          q = <<m, k>> /\ results[m][k].type = "payment" /\ k = 1 /\ results[m][k].amount \in Int
    BY <2>0
  <2>2. g[q] = results[q[1]][q[2]].amount /\ ofQ[q] = q[1] /\ q[1] = m /\ q[2] = k
    BY <2>1
  <2> QED
    BY <1>1, <2>1, <2>2
<1>9. ASSUME NEW m \in Rows
      PROVE  fs[m] \in Int /\ ws[m] \in Int /\ gs[m] = fs[m] + ws[m]
  <2>1. L(m) = PaidFor(m)
    BY DEF PaidFor
  <2>2. U(m) = WaitingOf(m)
    BY DEF WaitingOf, RowsOf
  <2>3. /\ \A t \in txns : ~t.reversal => f[t] = t.amount
        /\ \A i \in DOMAIN review : review[i].state = "pending" => w[i] = review[i].amount
    OBVIOUS
  <2>4. /\ AmountRead(m) \in Int
        /\ SumFunctionOnSet(f, L(m)) \in Int /\ SumFunctionOnSet(w, U(m)) \in Int
        /\ SumFunctionOnSet(f, L(m)) + SumFunctionOnSet(w, U(m)) = AmountRead(m)
    <3>1. PICK x, y : x = L(m) /\ y = U(m)
      OBVIOUS
    <3>2. x = PaidFor(m) /\ y = WaitingOf(m)
      BY <2>1, <2>2, <3>1
    <3> HIDE DEF f, w, L, U
    <3>3. /\ AmountRead(m) \in Int
          /\ SumFunctionOnSet(f, x) \in Int /\ SumFunctionOnSet(w, y) \in Int
          /\ SumFunctionOnSet(f, x) + SumFunctionOnSet(w, y) = AmountRead(m)
      BY <2>3, <3>2, MessageReconciles
    <3> QED
      BY <3>1, <3>3
  <2>5. SumFunctionOnSet(g, P(m)) = AmountRead(m)
    <3>1. P(m) = PaymentsIn(m)
      <4>1. ASSUME NEW q \in P(m) PROVE q \in PaymentsIn(m)
        <5>0. q \in Q /\ q[1] = m
          OBVIOUS
        <5>1. PICK v \in FromMe : \E k \in DOMAIN results[v] :
                q = <<v, k>> /\ results[v][k].type = "payment" /\ k = 1 /\ results[v][k].amount \in Int
          BY <1>5, <5>0
        <5> QED
          BY <5>0, <5>1 DEF PaymentsIn
      <4>2. ASSUME NEW q \in PaymentsIn(m) PROVE q \in P(m)
        <5>1. q \in Q /\ q[1] = m
          BY <4>2 DEF PaymentsIn
        <5> QED
          BY <5>1
      <4> HIDE DEF P
      <4> QED
        BY <4>1, <4>2
    <3>2. \A q \in P(m) : g[q] = results[q[1]][q[2]].amount
      OBVIOUS
    <3>3. PICK x : x = P(m)
      OBVIOUS
    <3>4. x = PaymentsIn(m) /\ \A q \in x : g[q] = results[q[1]][q[2]].amount
      BY <3>1, <3>2, <3>3
    <3> HIDE DEF g, P, Q
    <3>5. SumFunctionOnSet(g, x) = AmountRead(m)
      BY <2>4, <3>4, ParserPart
    <3> QED
      BY <3>3, <3>5
  <2> HIDE DEF f, w, g, L, U, P
  <2> QED
    BY <2>4, <2>5
<1>10. /\ SumFunctionOnSet(fs, Rows) = SumFunctionOnSet(f, T)
       /\ SumFunctionOnSet(ws, Rows) = SumFunctionOnSet(w, I)
       /\ SumFunctionOnSet(gs, Rows) = SumFunctionOnSet(g, Q)
  <2> HIDE DEF T, I, Q, f, w, g, ofT, ofI, ofQ
  <2>1. SumFunctionOnSet(fs, Rows) = SumFunctionOnSet(f, T)
    BY <1>1, <1>6, <1>7, SumByParts
  <2>2. SumFunctionOnSet(ws, Rows) = SumFunctionOnSet(w, I)
    BY <1>1, <1>6, <1>7, SumByParts
  <2>3. SumFunctionOnSet(gs, Rows) = SumFunctionOnSet(g, Q)
    BY <1>1, <1>6, <1>8, SumByParts
  <2> QED
    BY <2>1, <2>2, <2>3
<1>11. SumFunctionOnSet(gs, Rows) = SumFunctionOnSet(fs, Rows) + SumFunctionOnSet(ws, Rows)
  <2> HIDE DEF fs, ws, gs
  <2> QED
    BY <1>1, <1>9, SumOfSums
<1>12. /\ LedgerSum = SumFunctionOnSet(f, T) /\ UnmatchedSum = SumFunctionOnSet(w, I)
       /\ ParserSum = SumFunctionOnSet(g, Q)
  BY DEF LedgerSum, UnmatchedSum, ParserSum, SumFunction
<1> HIDE DEF T, I, Q, f, w, g, fs, ws, gs
<1> QED
  BY <1>10, <1>11, <1>12

\* What was read stays what is booked, put up and carried.
LEMMA AsReadStep ==
  ASSUME Typed, Modest, PipelineInv, OnlyPayments, AsRead, EngineStep
  PROVE  AsRead'
<1>1. Quiet /\ faults = 0
  BY ModestStep DEF PipelineInv
<1> QED
  BY <1>1, OnlyMessagesStep, RowsAsReadStep, TxnsAsReadStep, ThroughIsBookedStep, ParserReadsStep, BookerReadsStep
     DEF AsRead

\* It is so from the start, and always.
LEMMA AlwaysRead == Spec => []ReadInv
<1>1. Init => ReadInv
  <2>1. SUFFICES ASSUME Init PROVE AsRead
    BY DEF ReadInv
  <2>2. /\ \A m \in Rows : results[m] = <<>> /\ status[m] = "none"
        /\ \A a \in Actors : pc[a] = "idle"
        /\ txns = {} /\ review = <<>>
    BY <2>1 DEF Init, ArchiveInit
  <2>3. OnlyMessages /\ RowsAsRead /\ TxnsAsRead
    BY <2>2, ActorFacts DEF OnlyMessages, RowsAsRead, TxnsAsRead
  <2>4. ThroughIsBooked
    BY <2>2 DEF ThroughIsBooked, Settled
  <2>5. ParserReads /\ BookerReads
    BY <2>2, ActorFacts DEF ParserReads, BookerReads
  <2> QED
    BY <2>3, <2>4, <2>5 DEF AsRead
<1>2. Typed /\ OnceInv /\ ReadInv /\ [Next]_vars => ReadInv'
  <2>1. SUFFICES ASSUME Typed, OnceInv, ReadInv, EngineStep, Modest', OnlyPayments' PROVE AsRead'
    BY StepsCovered DEF Typed, ReadInv
  <2>2. env' = env
    BY <2>1, FaultsStep DEF Typed
  <2>3. Modest
    BY <2>1, <2>2 DEF Modest
  <2>4. OnlyPayments
    BY <2>1, BooksOnlyGrow, PaymentsBefore
  <2>5. PipelineInv
    BY <2>1, <2>3, ModestStep DEF OnceInv
  <2> QED
    BY <2>1, <2>3, <2>4, <2>5, AsReadStep DEF ReadInv
<1> QED
  BY <1>1, <1>2, AlwaysTyped, AlwaysOnce, PTL DEF Spec

\* reconcile.py ("ledger_sum + unmatched_review_sum == parser_detected_sum"): with the tasks at rest
\* and nothing failed, requeued or dismissed, no payment the owner wrote is missing
\* from the ledger and the review queue, and none is in both.
THEOREM BooksReconcile == Spec => []Reconciles
<1>1. Typed /\ PayeesInv /\ OnceInv /\ ReadInv => Reconciles
  <2> SUFFICES ASSUME Typed, PayeesInv, OnceInv, ReadInv, Modest, OnlyPayments, BookedAsRead, AtRest,
                      \A m \in Rows : status[m] \in {"none", "done", "skipped", "failed"}
               PROVE  ParserSum = LedgerSum + UnmatchedSum
    BY DEF Reconciles, Modest
  <2>1. Quiet
    BY DEF Modest, Quiet, Allowed
  <2> QED
    BY <2>1, SumsReconcile DEF OnceInv, ReadInv, PayeesInv
<1> QED
  BY <1>1, PeopleAndPayees, AlwaysOnce, AlwaysRead, PTL

=============================================================================
