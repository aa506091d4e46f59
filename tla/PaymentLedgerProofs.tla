------------------------ MODULE PaymentLedgerProofs ------------------------
(***************************************************************************)
(* What the cash ledger guarantees for any drafts, employees, amounts and  *)
(* handlers, whatever fails and however the statements interleave.         *)
(*                                                                         *)
(* Neither property is inductive alone: 'sent' is written one await after  *)
(* the row, and a counter-row two awaits after its original was chosen.    *)
(* CommandInv says what a handler between those awaits may rely on.        *)
(***************************************************************************)
EXTENDS PaymentLedger, SequenceTheorems, FiniteSetTheorems, TLAPS

\* What a handler between two awaits may rely on.
CommandInv ==
  \A h \in Handlers :
    LET d == cmd[h].draft
        i == cmd[h].row IN
    /\ pc[h] = "mark_sent" => PaymentsOf(d) # {}
    /\ pc[h] \in ReversePCs => drafts[d].status # "none"
    /\ pc[h] \in {"rev_mark", "rev_insert"} =>
         i \in DOMAIN ledger /\ ledger[i].kind # "reversal" /\ ledger[i].emp = drafts[d].emp
    /\ pc[h] = "rev_insert" => ledger[i].reversed

LedgerInv == TypeOK /\ CommandInv /\ SentIsRecorded /\ CountersBalance

\* A step appends rows and sets is_reversed, nothing else.
Keeps ==
  /\ Len(ledger) <= Len(ledger')
  /\ \A i \in DOMAIN ledger :
       /\ ledger'[i].kind = ledger[i].kind /\ ledger'[i].emp = ledger[i].emp
       /\ ledger'[i].amount = ledger[i].amount /\ ledger'[i].draft = ledger[i].draft
       /\ ledger'[i].of = ledger[i].of
       /\ ledger[i].reversed => ledger'[i].reversed

\* Where 'sent', a handler's position and a counter-row come from.
SentOrigin ==
  \A d \in Drafts : drafts'[d].status = "sent" => drafts[d].status = "sent" \/ PaymentsOf(d) # {}
HandlerOrigin ==
  \A g \in Handlers :
    LET d == cmd'[g].draft
        i == cmd'[g].row IN
    /\ pc'[g] = "mark_sent" =>
         \/ pc[g] = "mark_sent" /\ cmd'[g] = cmd[g]
         \/ \E k \in DOMAIN ledger' : ledger'[k].kind # "reversal" /\ ledger'[k].draft = d
    /\ pc'[g] \in ReversePCs =>
         (pc[g] \in ReversePCs /\ d = cmd[g].draft) \/ drafts[d].status # "none"
    /\ pc'[g] \in {"rev_mark", "rev_insert"} =>
         \/ pc[g] \in {"rev_mark", "rev_insert"} /\ cmd'[g] = cmd[g]
         \/ i \in DOMAIN ledger /\ ledger[i].kind # "reversal" /\ ledger[i].emp = drafts[d].emp
    /\ pc'[g] = "rev_insert" =>
         (pc[g] = "rev_insert" /\ cmd'[g] = cmd[g]) \/ ledger'[i].reversed
CounterOrigin ==
  \A j \in DOMAIN ledger' : ledger'[j].kind = "reversal" =>
    \/ j \in DOMAIN ledger
    \/ LET i == ledger'[j].of IN
       /\ j = Len(ledger) + 1 /\ i \in DOMAIN ledger
       /\ ledger[i].kind # "reversal" /\ ledger[i].reversed
       /\ ledger'[j].emp = ledger[i].emp /\ ledger'[j].amount = -ledger[i].amount

EmployeeKept ==
  \A d \in Drafts : drafts[d].status # "none" =>
    drafts'[d].emp = drafts[d].emp /\ drafts'[d].status # "none"

-----------------------------------------------------------------------------
\* Changing the status, the correction or the approved amount of a draft.
LEMMA DraftFields ==
  ASSUME NEW f \in [Drafts -> Draft], NEW d \in Drafts
  PROVE  /\ \A s \in DraftStatus : [f EXCEPT ![d].status = s] \in [Drafts -> Draft]
         /\ \A c \in {"null", "reversal", "adjustment"} :
              [f EXCEPT ![d].corr = c] \in [Drafts -> Draft]
         /\ \A a \in Amounts \cup {0} : [f EXCEPT ![d].approved = a] \in [Drafts -> Draft]
<1>1. ASSUME NEW s \in DraftStatus PROVE [f EXCEPT ![d].status = s] \in [Drafts -> Draft]
  <2>1. [f[d] EXCEPT !.status = s] \in Draft
    BY DEF Draft
  <2> QED
    BY <2>1
<1>2. ASSUME NEW c \in {"null", "reversal", "adjustment"}
      PROVE  [f EXCEPT ![d].corr = c] \in [Drafts -> Draft]
  <2>1. [f[d] EXCEPT !.corr = c] \in Draft
    BY DEF Draft
  <2> QED
    BY <2>1
<1>3. ASSUME NEW a \in Amounts \cup {0}
      PROVE  [f EXCEPT ![d].approved = a] \in [Drafts -> Draft]
  <2>1. [f[d] EXCEPT !.approved = a] \in Draft
    BY DEF Draft
  <2> QED
    BY <2>1
<1> QED
  BY <1>1, <1>2, <1>3

\* INSERT: a new last row, the others as they were.
LEMMA AppendRow ==
  ASSUME NEW s \in Seq(Row), NEW r \in Row
  PROVE  /\ Append(s, r) \in Seq(Row) /\ Len(s) \in Nat
         /\ Len(Append(s, r)) = Len(s) + 1
         /\ DOMAIN s = 1..Len(s) /\ DOMAIN Append(s, r) = 1..(Len(s) + 1)
         /\ \A i \in 1..Len(s) : Append(s, r)[i] = s[i]
         /\ Append(s, r)[Len(s) + 1] = r
  OBVIOUS

\* UPDATE ... SET is_reversed = true: one field of one row.
LEMMA MarkRow ==
  ASSUME NEW s \in Seq(Row), NEW n \in 1..Len(s)
  PROVE  LET t == [s EXCEPT ![n].reversed = TRUE] IN
         /\ t \in Seq(Row) /\ Len(t) = Len(s)
         /\ DOMAIN s = 1..Len(s) /\ DOMAIN t = 1..Len(s)
         /\ t[n].reversed /\ \A i \in 1..Len(s) : i # n => t[i] = s[i]
         /\ t[n].kind = s[n].kind /\ t[n].emp = s[n].emp /\ t[n].amount = s[n].amount
         /\ t[n].draft = s[n].draft /\ t[n].of = s[n].of
<1> DEFINE r == [s[n] EXCEPT !.reversed = TRUE]
           t == [s EXCEPT ![n] = r]
<1>1. s \in [1..Len(s) -> Row] /\ DOMAIN s = 1..Len(s) /\ Len(s) \in Nat
  BY LenProperties
<1>2. r \in Row
  BY <1>1 DEF Row
<1>3. t \in Seq(Row) /\ Len(t) = Len(s) /\ \A i \in 1..Len(s) : t[i] = IF i = n THEN r ELSE s[i]
  BY <1>2, ExceptSeq
<1>4. DOMAIN t = 1..Len(s)
  BY <1>1
<1>5. [s EXCEPT ![n].reversed = TRUE] = t
  BY <1>1
<1>6. /\ t[n] = r /\ r.reversed /\ r.kind = s[n].kind /\ r.emp = s[n].emp
      /\ r.amount = s[n].amount /\ r.draft = s[n].draft /\ r.of = s[n].of
  BY <1>1 DEF Row
<1> QED
  BY <1>1, <1>3, <1>4, <1>5, <1>6

\* What finalize_payment inserts is a row of the ledger.
LEMMA PaymentRow ==
  ASSUME TypeOK, NEW h \in Handlers
  PROVE  Payment(cmd[h].draft, cmd[h].amount) \in Row
<1>1. cmd[h].draft \in Drafts /\ cmd[h].amount \in Amounts \cup {0} /\ drafts \in [Drafts -> Draft]
  BY DEF TypeOK, Command
<1>2. /\ drafts[cmd[h].draft].emp \in Employees
      /\ drafts[cmd[h].draft].kind \in {"escort", "advance"}
  BY <1>1 DEF Draft
<1>3. cmd[h].amount \in Int
  <2>1. \A a \in Amounts : a \in Nat
    BY LedgerAssumption, Zenon
  <2> QED
    BY <1>1, <2>1
<1> QED
  BY <1>1, <1>2, <1>3 DEF Payment, Row

\* A payment row is never of the kind a reversal has.
LEMMA PaymentKind ==
  ASSUME TypeOK, NEW h \in Handlers
  PROVE  Payment(cmd[h].draft, cmd[h].amount).kind # "reversal"
<1>1. cmd[h].draft \in Drafts /\ drafts \in [Drafts -> Draft]
  BY DEF TypeOK, Command
<1>2. drafts[cmd[h].draft].kind \in {"escort", "advance"}
  BY <1>1 DEF Draft
<1> QED
  BY <1>2 DEF Payment

\* The counter-row of a reversal is a row of the ledger.
LEMMA CounterRow ==
  ASSUME TypeOK, NEW h \in Handlers, cmd[h].row \in DOMAIN ledger
  PROVE  Counter(cmd[h].draft, cmd[h].row) \in Row
<1>1. /\ cmd[h].draft \in Drafts /\ cmd[h].row \in Nat /\ drafts \in [Drafts -> Draft]
      /\ ledger \in Seq(Row)
  BY DEF TypeOK, Command
<1>2. drafts[cmd[h].draft].emp \in Employees
  BY <1>1 DEF Draft
<1>3. ledger[cmd[h].row] \in Row
  BY <1>1, LenProperties
<1>4. -ledger[cmd[h].row].amount \in Int
  BY <1>3 DEF Row
<1> QED
  BY <1>1, <1>2, <1>4 DEF Counter, Row

\* Every step keeps the types.
LEMMA TypeStep ==
  ASSUME LedgerInv, [Next]_vars
  PROVE  TypeOK'
<1>0. env' = env
  BY DEF Next, vars
<1> USE LedgerAssumption, <1>0 DEF LedgerInv, CommandInv, TypeOK, Command, PCs, PaidPCs, ReversePCs, AdjustPCs
<1>1. ASSUME NEW h \in Handlers, PaidRead(h) PROVE TypeOK'
  BY <1>1 DEF PaidRead, Goto, Exists
<1>2. ASSUME NEW h \in Handlers, FinalizeRead(h) PROVE TypeOK'
  BY <1>2 DEF FinalizeRead, Goto, Exists
<1>3. ASSUME NEW h \in Handlers, FinalizeInsert(h) PROVE TypeOK'
  BY <1>3, PaymentRow, AppendRow DEF FinalizeInsert, Goto
<1>4. ASSUME NEW h \in Handlers, FinalizeMarkSent(h) PROVE TypeOK'
  <2>1. drafts' \in [Drafts -> Draft]
    BY <1>4, DraftFields DEF FinalizeMarkSent, SetStatus, DraftStatus
  <2> QED
    BY <1>4, <2>1 DEF FinalizeMarkSent, Goto
<1>5. ASSUME NEW h \in Handlers, FinalizeFails(h) PROVE TypeOK'
  BY <1>5 DEF FinalizeFails, Goto
<1>6. ASSUME NEW h \in Handlers, PaidMarkApproved(h) PROVE TypeOK'
  <2> DEFINE d == cmd[h].draft
             f == SetStatus(d, "approved")
             a == IF Exists(d) THEN cmd[h].amount ELSE f[d].approved
  <2>1. f \in [Drafts -> Draft]
    BY DraftFields DEF DraftStatus, SetStatus
  <2>2. a \in Amounts \cup {0}
    BY <2>1 DEF Draft
  <2>3. [f EXCEPT ![d].approved = a] \in [Drafts -> Draft]
    BY <2>1, <2>2, DraftFields, ZenonT(30)
  <2>4. drafts' = [f EXCEPT ![d].approved = a]
    BY <1>6 DEF PaidMarkApproved
  <2> QED
    BY <1>6, <2>3, <2>4 DEF PaidMarkApproved, Goto
<1>7. ASSUME NEW h \in Handlers, PaidFails(h) PROVE TypeOK'
  BY <1>7 DEF PaidFails, Goto
<1>8. ASSUME NEW h \in Handlers, TellAccountant(h) PROVE TypeOK'
  BY <1>8 DEF TellAccountant, Goto
<1>9. ASSUME NEW h \in Handlers, ReverseFind(h) PROVE TypeOK'
  <2>1. \A i \in Matching(cmd[h].draft, cmd[h].amount) : i \in Nat
    BY LenProperties DEF Matching
  <2>2. pc' \in [Handlers -> PCs] /\ UNCHANGED <<drafts, ledger, audit, recent, told, served>>
    BY <1>9 DEF ReverseFind, Goto
  <2>3. cmd' = cmd \/ \E i \in Nat : cmd' = [cmd EXCEPT ![h].row = i]
    BY <1>9, <2>1 DEF ReverseFind
  <2>4. ASSUME NEW i \in Nat PROVE [cmd EXCEPT ![h].row = i] \in [Handlers -> Command]
    <3>1. [cmd[h] EXCEPT !.row = i] \in Command
      BY cmd[h] \in Command DEF Command
    <3> QED
      BY <3>1
  <2>5. cmd' \in [Handlers -> Command]
    <3>1. CASE cmd' = cmd
      BY <3>1
    <3>2. CASE cmd' # cmd
      <4>1. PICK i \in Nat : cmd' = [cmd EXCEPT ![h].row = i]
        BY <2>3, <3>2
      <4> QED
        BY <2>4, <4>1
    <3> QED
      BY <3>1, <3>2
  <2> QED
    BY <2>2, <2>5
<1>10. ASSUME NEW h \in Handlers, ReverseMark(h) PROVE TypeOK'
  <2>1. cmd[h].row \in 1..Len(ledger)
    BY <1>10 DEF ReverseMark
  <2> QED
    BY <1>10, <2>1, MarkRow DEF ReverseMark, Goto
<1>11. ASSUME NEW h \in Handlers, ReverseInsert(h) PROVE TypeOK'
  BY <1>11, CounterRow, AppendRow DEF ReverseInsert, Goto
<1>12. ASSUME NEW h \in Handlers, ReverseDraft(h) PROVE TypeOK'
  <2> DEFINE f == [drafts EXCEPT ![cmd[h].draft].status = "reversed"]
  <2>1. f \in [Drafts -> Draft]
    BY DraftFields DEF DraftStatus
  <2>2. [f EXCEPT ![cmd[h].draft].corr = "reversal"] \in [Drafts -> Draft]
    BY <2>1, DraftFields
  <2>3. drafts' = [f EXCEPT ![cmd[h].draft].corr = "reversal"]
    BY <1>12 DEF ReverseDraft
  <2> QED
    BY <1>12, <2>2, <2>3 DEF ReverseDraft, Goto
<1>13. ASSUME NEW h \in Handlers, AdjustCheck(h) PROVE TypeOK'
  BY <1>13 DEF AdjustCheck, Goto, AdjustmentsOf
<1>14. ASSUME NEW h \in Handlers, AdjustInsert(h) PROVE TypeOK'
  <2>1. /\ drafts[cmd[h].draft].emp \in Employees /\ cmd[h].draft \in Drafts
        /\ drafts[cmd[h].draft].kind \in {"escort", "advance"}
    BY DEF Draft
  <2>2. PICK x \in Drafts : drafts' = [drafts EXCEPT ![x] =
            [status |-> "pending", kind |-> drafts[cmd[h].draft].kind,
             emp |-> drafts[cmd[h].draft].emp, expected |-> cmd[h].amount,
             approved |-> 0, corr |-> "adjustment", of |-> cmd[h].draft]]
    BY <1>14 DEF AdjustInsert
  <2>3. drafts' \in [Drafts -> Draft]
    BY <1>14, <2>1, <2>2 DEF AdjustInsert, Draft, DraftStatus
  <2> QED
    BY <1>14, <2>3 DEF AdjustInsert, Goto
<1>15. ASSUME NEW h \in Handlers, AdjustMark(h) PROVE TypeOK'
  <2>1. drafts' \in [Drafts -> Draft]
    BY <1>15, DraftFields DEF AdjustMark
  <2> QED
    BY <1>15, <2>1 DEF AdjustMark, Goto
<1>16. ASSUME NEW h \in Handlers, LogCorrection(h) PROVE TypeOK'
  BY <1>16 DEF LogCorrection, Goto
<1>17. ASSUME NEW h \in Handlers, CorrectionFails(h) PROVE TypeOK'
  BY <1>17 DEF CorrectionFails, Goto
<1>18. ASSUME NEW h \in Handlers, NEW x \in Text, ReceivePaid(h, x) PROVE TypeOK'
  <2>1. Remember(x) \in Seq(Text) /\ Len(Remember(x)) <= DedupMax
    <3>1. CASE Len(recent) < DedupMax
      BY <3>1 DEF Remember
    <3>2. CASE ~(Len(recent) < DedupMax)
      <4>1. recent # << >> /\ Len(recent) = DedupMax
        BY <3>2
      <4>2. Tail(recent) \in Seq(Text) /\ Len(Tail(recent)) = DedupMax - 1
        BY <4>1, HeadTailProperties
      <4> QED
        BY <3>2, <4>2 DEF Remember
    <3> QED
      BY <3>1, <3>2
  <2>2. x.draft \in Drafts /\ x.amount \in Amounts
    BY DEF Text
  <2>3. cmd' \in [Handlers -> Command] /\ pc' \in [Handlers -> PCs]
    BY <1>18, <2>2 DEF ReceivePaid, Goto
  <2>4. served' \in 0..MaxCommands
    BY <1>18 DEF ReceivePaid
  <2> QED
    BY <1>18, <2>1, <2>3, <2>4 DEF ReceivePaid
<1>19. ASSUME NEW h \in Handlers, NEW d \in Drafts, ReversePayment(h, d) PROVE TypeOK'
  <2>1. AmountOf(d) \in Amounts \cup {0}
    BY DEF AmountOf, Draft
  <2> QED
    BY <1>19, <2>1 DEF ReversePayment, Goto
<1>20. ASSUME NEW h \in Handlers, NEW d \in Drafts, NEW a \in Amounts, AdjustPayment(h, d, a) PROVE TypeOK'
  BY <1>20, SMTT(30) DEF AdjustPayment, Goto
<1>21. ASSUME NEW d \in Drafts, CreateEscortDraft(d) PROVE TypeOK'
  <2>1. PICK e \in Employees, net \in Amounts :
          drafts' = [drafts EXCEPT ![d] =
            [NewDraft EXCEPT !.status = "pending", !.emp = e, !.expected = net]]
    BY <1>21 DEF CreateEscortDraft
  <2>2. [NewDraft EXCEPT !.status = "pending", !.emp = e, !.expected = net] \in Draft
    BY DEF Draft, DraftStatus, NewDraft
  <2> QED
    BY <1>21, <2>1, <2>2 DEF CreateEscortDraft
<1>22. ASSUME NEW d \in Drafts, CreateAdvanceDraft(d) PROVE TypeOK'
  <2>1. PICK e \in Employees, a \in Amounts :
          drafts' = [drafts EXCEPT ![d] =
            [NewDraft EXCEPT !.status = "pending", !.emp = e, !.expected = a, !.kind = "advance"]]
    BY <1>22 DEF CreateAdvanceDraft
  <2>2. [NewDraft EXCEPT !.status = "pending", !.emp = e, !.expected = a, !.kind = "advance"] \in Draft
    BY DEF Draft, DraftStatus, NewDraft
  <2> QED
    BY <1>22, <2>1, <2>2 DEF CreateAdvanceDraft
<1>23. ASSUME NEW d \in Drafts, ExpireStaleDraft(d) PROVE TypeOK'
  <2>1. drafts' \in [Drafts -> Draft]
    BY <1>23, DraftFields DEF ExpireStaleDraft, DraftStatus
  <2> QED
    BY <1>23, <2>1 DEF ExpireStaleDraft, Goto
<1>24. ASSUME NEW d \in Drafts, DeleteStaleDraft(d) PROVE TypeOK'
  <2>1. drafts' \in [Drafts -> Draft]
    BY <1>24, DraftFields DEF DeleteStaleDraft, DraftStatus
  <2> QED
    BY <1>24, <2>1 DEF DeleteStaleDraft, Goto
<1>25. CASE DedupExpires
  BY <1>25, HeadTailProperties DEF DedupExpires
<1>26. CASE Restart
  BY <1>26 DEF Restart
<1>27. CASE UNCHANGED vars
  BY <1>27 DEF vars
<1> QED
  BY <1>1, <1>2, <1>3, <1>4, <1>5, <1>6, <1>7, <1>8, <1>9, <1>10, <1>11, <1>12, <1>13, <1>14, <1>15, <1>16, <1>17, <1>18, <1>19, <1>20, <1>21, <1>22, <1>23, <1>24, <1>25, <1>26, <1>27
  DEF Next, Step, HandlerStep

\* Every step keeps the fields of the rows there are.
LEMMA KeepStep ==
  ASSUME LedgerInv, [Next]_vars
  PROVE  Keeps
<1>0. env' = env
  BY DEF Next, vars
<1> USE LedgerAssumption, <1>0 DEF LedgerInv, CommandInv, Keeps, TypeOK, Command, PCs, PaidPCs, ReversePCs, AdjustPCs
<1>1. ASSUME NEW h \in Handlers, PaidRead(h) PROVE Keeps
  BY <1>1 DEF PaidRead, Goto, Exists
<1>2. ASSUME NEW h \in Handlers, FinalizeRead(h) PROVE Keeps
  BY <1>2 DEF FinalizeRead, Goto, Exists
<1>3. ASSUME NEW h \in Handlers, FinalizeInsert(h) PROVE Keeps
  BY <1>3, PaymentRow, AppendRow, SMTT(30) DEF FinalizeInsert, Keeps
<1>4. ASSUME NEW h \in Handlers, FinalizeMarkSent(h) PROVE Keeps
  BY <1>4 DEF FinalizeMarkSent, Goto, SetStatus, Exists
<1>5. ASSUME NEW h \in Handlers, FinalizeFails(h) PROVE Keeps
  BY <1>5 DEF FinalizeFails, Goto
<1>6. ASSUME NEW h \in Handlers, PaidMarkApproved(h) PROVE Keeps
  BY <1>6 DEF PaidMarkApproved, Goto, SetStatus, Exists
<1>7. ASSUME NEW h \in Handlers, PaidFails(h) PROVE Keeps
  BY <1>7 DEF PaidFails, Goto
<1>8. ASSUME NEW h \in Handlers, TellAccountant(h) PROVE Keeps
  BY <1>8 DEF TellAccountant, Goto
<1>9. ASSUME NEW h \in Handlers, ReverseFind(h) PROVE Keeps
  BY <1>9 DEF ReverseFind, Goto, Matching
<1>10. ASSUME NEW h \in Handlers, ReverseMark(h) PROVE Keeps
  <2>1. cmd[h].row \in 1..Len(ledger)
    BY <1>10 DEF ReverseMark
  <2> QED
    BY <1>10, <2>1, MarkRow DEF ReverseMark, Keeps
<1>11. ASSUME NEW h \in Handlers, ReverseInsert(h) PROVE Keeps
  BY <1>11, CounterRow, AppendRow, SMTT(30) DEF ReverseInsert, Keeps
<1>12. ASSUME NEW h \in Handlers, ReverseDraft(h) PROVE Keeps
  BY <1>12 DEF ReverseDraft, Goto
<1>13. ASSUME NEW h \in Handlers, AdjustCheck(h) PROVE Keeps
  BY <1>13 DEF AdjustCheck, Goto, AdjustmentsOf
<1>14. ASSUME NEW h \in Handlers, AdjustInsert(h) PROVE Keeps
  BY <1>14 DEF AdjustInsert, Goto
<1>15. ASSUME NEW h \in Handlers, AdjustMark(h) PROVE Keeps
  BY <1>15 DEF AdjustMark, Goto
<1>16. ASSUME NEW h \in Handlers, LogCorrection(h) PROVE Keeps
  BY <1>16 DEF LogCorrection, Goto
<1>17. ASSUME NEW h \in Handlers, CorrectionFails(h) PROVE Keeps
  BY <1>17 DEF CorrectionFails, Goto
<1>18. ASSUME NEW h \in Handlers, NEW x \in Text, ReceivePaid(h, x) PROVE Keeps
  BY <1>18 DEF ReceivePaid, Goto, Remember
<1>19. ASSUME NEW h \in Handlers, NEW d \in Drafts, ReversePayment(h, d) PROVE Keeps
  BY <1>19 DEF ReversePayment, Goto, AmountOf
<1>20. ASSUME NEW h \in Handlers, NEW d \in Drafts, NEW a \in Amounts, AdjustPayment(h, d, a) PROVE Keeps
  BY <1>20 DEF AdjustPayment, Goto
<1>21. ASSUME NEW d \in Drafts, CreateEscortDraft(d) PROVE Keeps
  BY <1>21 DEF CreateEscortDraft
<1>22. ASSUME NEW d \in Drafts, CreateAdvanceDraft(d) PROVE Keeps
  BY <1>22 DEF CreateAdvanceDraft
<1>23. ASSUME NEW d \in Drafts, ExpireStaleDraft(d) PROVE Keeps
  BY <1>23 DEF ExpireStaleDraft
<1>24. ASSUME NEW d \in Drafts, DeleteStaleDraft(d) PROVE Keeps
  BY <1>24 DEF DeleteStaleDraft
<1>25. CASE DedupExpires
  BY <1>25 DEF DedupExpires
<1>26. CASE Restart
  BY <1>26 DEF Restart
<1>27. CASE UNCHANGED vars
  BY <1>27 DEF vars
<1> QED
  BY <1>1, <1>2, <1>3, <1>4, <1>5, <1>6, <1>7, <1>8, <1>9, <1>10, <1>11, <1>12, <1>13, <1>14, <1>15, <1>16, <1>17, <1>18, <1>19, <1>20, <1>21, <1>22, <1>23, <1>24, <1>25, <1>26, <1>27
  DEF Next, Step, HandlerStep

\* A draft that exists keeps its employee and does not become new again.
LEMMA EmployeeStep ==
  ASSUME LedgerInv, [Next]_vars
  PROVE  EmployeeKept
<1>0. env' = env
  BY DEF Next, vars
<1> USE LedgerAssumption, <1>0 DEF LedgerInv, CommandInv, EmployeeKept, TypeOK, Command, PCs, PaidPCs, ReversePCs, AdjustPCs
<1>1. ASSUME NEW h \in Handlers, PaidRead(h) PROVE EmployeeKept
  BY <1>1 DEF PaidRead, Goto, Exists
<1>2. ASSUME NEW h \in Handlers, FinalizeRead(h) PROVE EmployeeKept
  BY <1>2 DEF FinalizeRead, Goto, Exists
<1>3. ASSUME NEW h \in Handlers, FinalizeInsert(h) PROVE EmployeeKept
  BY <1>3 DEF FinalizeInsert, Goto, Payment
<1>4. ASSUME NEW h \in Handlers, FinalizeMarkSent(h) PROVE EmployeeKept
  BY <1>4 DEF FinalizeMarkSent, Goto, SetStatus, Exists
<1>5. ASSUME NEW h \in Handlers, FinalizeFails(h) PROVE EmployeeKept
  BY <1>5 DEF FinalizeFails, Goto
<1>6. ASSUME NEW h \in Handlers, PaidMarkApproved(h) PROVE EmployeeKept
  BY <1>6, SMTT(30) DEF PaidMarkApproved, Goto, SetStatus, Exists
<1>7. ASSUME NEW h \in Handlers, PaidFails(h) PROVE EmployeeKept
  BY <1>7 DEF PaidFails, Goto
<1>8. ASSUME NEW h \in Handlers, TellAccountant(h) PROVE EmployeeKept
  BY <1>8 DEF TellAccountant, Goto
<1>9. ASSUME NEW h \in Handlers, ReverseFind(h) PROVE EmployeeKept
  BY <1>9 DEF ReverseFind, Goto, Matching
<1>10. ASSUME NEW h \in Handlers, ReverseMark(h) PROVE EmployeeKept
  BY <1>10 DEF ReverseMark, Goto
<1>11. ASSUME NEW h \in Handlers, ReverseInsert(h) PROVE EmployeeKept
  BY <1>11 DEF ReverseInsert, Goto, Counter
<1>12. ASSUME NEW h \in Handlers, ReverseDraft(h) PROVE EmployeeKept
  BY <1>12 DEF ReverseDraft, Goto
<1>13. ASSUME NEW h \in Handlers, AdjustCheck(h) PROVE EmployeeKept
  BY <1>13 DEF AdjustCheck, Goto, AdjustmentsOf
<1>14. ASSUME NEW h \in Handlers, AdjustInsert(h) PROVE EmployeeKept
  BY <1>14 DEF AdjustInsert, Goto
<1>15. ASSUME NEW h \in Handlers, AdjustMark(h) PROVE EmployeeKept
  BY <1>15 DEF AdjustMark, Goto
<1>16. ASSUME NEW h \in Handlers, LogCorrection(h) PROVE EmployeeKept
  BY <1>16 DEF LogCorrection, Goto
<1>17. ASSUME NEW h \in Handlers, CorrectionFails(h) PROVE EmployeeKept
  BY <1>17 DEF CorrectionFails, Goto
<1>18. ASSUME NEW h \in Handlers, NEW x \in Text, ReceivePaid(h, x) PROVE EmployeeKept
  BY <1>18 DEF ReceivePaid, Goto, Remember
<1>19. ASSUME NEW h \in Handlers, NEW d \in Drafts, ReversePayment(h, d) PROVE EmployeeKept
  BY <1>19 DEF ReversePayment, Goto, AmountOf
<1>20. ASSUME NEW h \in Handlers, NEW d \in Drafts, NEW a \in Amounts, AdjustPayment(h, d, a) PROVE EmployeeKept
  BY <1>20 DEF AdjustPayment, Goto
<1>21. ASSUME NEW d \in Drafts, CreateEscortDraft(d) PROVE EmployeeKept
  BY <1>21 DEF CreateEscortDraft
<1>22. ASSUME NEW d \in Drafts, CreateAdvanceDraft(d) PROVE EmployeeKept
  BY <1>22 DEF CreateAdvanceDraft
<1>23. ASSUME NEW d \in Drafts, ExpireStaleDraft(d) PROVE EmployeeKept
  BY <1>23 DEF ExpireStaleDraft
<1>24. ASSUME NEW d \in Drafts, DeleteStaleDraft(d) PROVE EmployeeKept
  BY <1>24 DEF DeleteStaleDraft
<1>25. CASE DedupExpires
  BY <1>25 DEF DedupExpires
<1>26. CASE Restart
  BY <1>26 DEF Restart
<1>27. CASE UNCHANGED vars
  BY <1>27 DEF vars
<1> QED
  BY <1>1, <1>2, <1>3, <1>4, <1>5, <1>6, <1>7, <1>8, <1>9, <1>10, <1>11, <1>12, <1>13, <1>14, <1>15, <1>16, <1>17, <1>18, <1>19, <1>20, <1>21, <1>22, <1>23, <1>24, <1>25, <1>26, <1>27
  DEF Next, Step, HandlerStep

\* The rows of a draft stay.
LEMMA PaymentsStay ==
  ASSUME TypeOK, TypeOK', Keeps, NEW d \in Drafts, PaymentsOf(d) # {}
  PROVE  PaymentsOf(d)' # {}
<1>1. PICK i \in DOMAIN ledger : ledger[i].kind # "reversal" /\ ledger[i].draft = d
  BY DEF PaymentsOf
<1>2. DOMAIN ledger = 1..Len(ledger) /\ DOMAIN ledger' = 1..Len(ledger')
      /\ Len(ledger) \in Nat /\ Len(ledger') \in Nat
  BY LenProperties DEF TypeOK
<1>3. i \in DOMAIN ledger' /\ ledger'[i].kind # "reversal" /\ ledger'[i].draft = d
  BY <1>1, <1>2 DEF Keeps
<1> QED
  BY <1>3 DEF PaymentsOf

\* An inserted payment is one of its draft's.
LEMMA PaymentInserted ==
  ASSUME TypeOK, NEW h \in Handlers, FinalizeInsert(h)
  PROVE  PaymentsOf(cmd[h].draft)' # {}
<1>1. ledger \in Seq(Row) /\ Len(ledger) \in Nat /\ DOMAIN ledger' = 1..(Len(ledger) + 1)
      /\ ledger'[Len(ledger) + 1] = Payment(cmd[h].draft, cmd[h].amount)
  BY DEF TypeOK, FinalizeInsert
<1>2. cmd' = cmd
  BY DEF FinalizeInsert
<1>3. Len(ledger) + 1 \in PaymentsOf(cmd[h].draft)'
  BY <1>1, <1>2, PaymentKind DEF PaymentsOf, Payment
<1> QED
  BY <1>3

\* Only a handler that inserted the row before marks a draft sent.
LEMMA SentOriginStep ==
  ASSUME LedgerInv, [Next]_vars
  PROVE  SentOrigin
<1>0. env' = env
  BY DEF Next, vars
<1> USE LedgerAssumption, <1>0 DEF LedgerInv, CommandInv, SentOrigin, TypeOK, Command
<1>1. ASSUME NEW h \in Handlers, PaidRead(h) PROVE SentOrigin
  BY <1>1 DEF PaidRead, Goto, Exists
<1>2. ASSUME NEW h \in Handlers, FinalizeRead(h) PROVE SentOrigin
  BY <1>2 DEF FinalizeRead, Goto, Exists
<1>3. ASSUME NEW h \in Handlers, FinalizeInsert(h) PROVE SentOrigin
  BY <1>3 DEF FinalizeInsert, Goto, Payment
<1>4. ASSUME NEW h \in Handlers, FinalizeMarkSent(h) PROVE SentOrigin
  BY <1>4 DEF FinalizeMarkSent, Goto, SetStatus, Exists
<1>5. ASSUME NEW h \in Handlers, FinalizeFails(h) PROVE SentOrigin
  BY <1>5 DEF FinalizeFails, Goto
<1>6. ASSUME NEW h \in Handlers, PaidMarkApproved(h) PROVE SentOrigin
  BY <1>6 DEF PaidMarkApproved, Goto, SetStatus, Exists
<1>7. ASSUME NEW h \in Handlers, PaidFails(h) PROVE SentOrigin
  BY <1>7 DEF PaidFails, Goto
<1>8. ASSUME NEW h \in Handlers, TellAccountant(h) PROVE SentOrigin
  BY <1>8 DEF TellAccountant, Goto
<1>9. ASSUME NEW h \in Handlers, ReverseFind(h) PROVE SentOrigin
  BY <1>9 DEF ReverseFind, Goto, Matching
<1>10. ASSUME NEW h \in Handlers, ReverseMark(h) PROVE SentOrigin
  BY <1>10 DEF ReverseMark, Goto
<1>11. ASSUME NEW h \in Handlers, ReverseInsert(h) PROVE SentOrigin
  BY <1>11 DEF ReverseInsert, Goto, Counter
<1>12. ASSUME NEW h \in Handlers, ReverseDraft(h) PROVE SentOrigin
  BY <1>12 DEF ReverseDraft, Goto
<1>13. ASSUME NEW h \in Handlers, AdjustCheck(h) PROVE SentOrigin
  BY <1>13 DEF AdjustCheck, Goto, AdjustmentsOf
<1>14. ASSUME NEW h \in Handlers, AdjustInsert(h) PROVE SentOrigin
  BY <1>14 DEF AdjustInsert, Goto
<1>15. ASSUME NEW h \in Handlers, AdjustMark(h) PROVE SentOrigin
  BY <1>15 DEF AdjustMark, Goto
<1>16. ASSUME NEW h \in Handlers, LogCorrection(h) PROVE SentOrigin
  BY <1>16 DEF LogCorrection, Goto
<1>17. ASSUME NEW h \in Handlers, CorrectionFails(h) PROVE SentOrigin
  BY <1>17 DEF CorrectionFails, Goto
<1>18. ASSUME NEW h \in Handlers, NEW x \in Text, ReceivePaid(h, x) PROVE SentOrigin
  BY <1>18 DEF ReceivePaid, Goto, Remember
<1>19. ASSUME NEW h \in Handlers, NEW d \in Drafts, ReversePayment(h, d) PROVE SentOrigin
  BY <1>19 DEF ReversePayment, Goto, AmountOf
<1>20. ASSUME NEW h \in Handlers, NEW d \in Drafts, NEW a \in Amounts, AdjustPayment(h, d, a) PROVE SentOrigin
  BY <1>20 DEF AdjustPayment, Goto
<1>21. ASSUME NEW d \in Drafts, CreateEscortDraft(d) PROVE SentOrigin
  BY <1>21 DEF CreateEscortDraft
<1>22. ASSUME NEW d \in Drafts, CreateAdvanceDraft(d) PROVE SentOrigin
  BY <1>22 DEF CreateAdvanceDraft
<1>23. ASSUME NEW d \in Drafts, ExpireStaleDraft(d) PROVE SentOrigin
  BY <1>23 DEF ExpireStaleDraft
<1>24. ASSUME NEW d \in Drafts, DeleteStaleDraft(d) PROVE SentOrigin
  BY <1>24 DEF DeleteStaleDraft
<1>25. CASE DedupExpires
  BY <1>25 DEF DedupExpires
<1>26. CASE Restart
  BY <1>26 DEF Restart
<1>27. CASE UNCHANGED vars
  BY <1>27 DEF vars
<1> QED
  BY <1>1, <1>2, <1>3, <1>4, <1>5, <1>6, <1>7, <1>8, <1>9, <1>10, <1>11, <1>12, <1>13, <1>14, <1>15, <1>16, <1>17, <1>18, <1>19, <1>20, <1>21, <1>22, <1>23, <1>24, <1>25, <1>26, <1>27
  DEF Next, Step, HandlerStep

\* How a handler comes to where CommandInv speaks of it.
LEMMA HandlerOriginStep ==
  ASSUME LedgerInv, [Next]_vars
  PROVE  HandlerOrigin
<1>0. env' = env
  BY DEF Next, vars
<1> USE LedgerAssumption, <1>0 DEF LedgerInv, CommandInv, HandlerOrigin, TypeOK, Command, PCs, PaidPCs, ReversePCs, AdjustPCs
<1>1. ASSUME NEW h \in Handlers, PaidRead(h) PROVE HandlerOrigin
  BY <1>1 DEF PaidRead, Goto, Exists
<1>2. ASSUME NEW h \in Handlers, FinalizeRead(h) PROVE HandlerOrigin
  BY <1>2 DEF FinalizeRead, Goto, Exists
<1>3. ASSUME NEW h \in Handlers, FinalizeInsert(h) PROVE HandlerOrigin
  <2>1. cmd' = cmd /\ pc' = [pc EXCEPT ![h] = "mark_sent"]
    BY <1>3 DEF FinalizeInsert, Goto
  <2>2. \E k \in DOMAIN ledger' : ledger'[k].kind # "reversal" /\ ledger'[k].draft = cmd'[h].draft
    BY <1>3, <2>1, PaymentInserted DEF PaymentsOf
  <2> QED
    BY <2>1, <2>2
<1>4. ASSUME NEW h \in Handlers, FinalizeMarkSent(h) PROVE HandlerOrigin
  BY <1>4 DEF FinalizeMarkSent, Goto, SetStatus, Exists
<1>5. ASSUME NEW h \in Handlers, FinalizeFails(h) PROVE HandlerOrigin
  BY <1>5 DEF FinalizeFails, Goto
<1>6. ASSUME NEW h \in Handlers, PaidMarkApproved(h) PROVE HandlerOrigin
  BY <1>6 DEF PaidMarkApproved, Goto, SetStatus, Exists
<1>7. ASSUME NEW h \in Handlers, PaidFails(h) PROVE HandlerOrigin
  BY <1>7 DEF PaidFails, Goto
<1>8. ASSUME NEW h \in Handlers, TellAccountant(h) PROVE HandlerOrigin
  BY <1>8 DEF TellAccountant, Goto
<1>9. ASSUME NEW h \in Handlers, ReverseFind(h) PROVE HandlerOrigin
  <2>1. cmd[h].draft \in Drafts /\ cmd[h] \in Command
    OBVIOUS
  <2>2. CASE UNCHANGED cmd /\ Goto(h, "rev_draft")
    BY <1>9, <2>2 DEF ReverseFind, Goto
  <2>3. ASSUME NEW i \in Matching(cmd[h].draft, cmd[h].amount),
               cmd' = [cmd EXCEPT ![h].row = i], Goto(h, "rev_mark")
        PROVE  HandlerOrigin
    <3>1. cmd'[h].draft = cmd[h].draft /\ cmd'[h].row = i
      BY <2>1, <2>3
    <3>2. \A g \in Handlers : g # h => cmd'[g] = cmd[g] /\ pc'[g] = pc[g]
      BY <2>3 DEF Goto
    <3>3. /\ i \in DOMAIN ledger /\ ledger[i].kind # "reversal"
          /\ ledger[i].emp = drafts[cmd[h].draft].emp
      BY DEF Matching
    <3>4. pc'[h] = "rev_mark" /\ pc[h] = "rev_find"
      BY <1>9, <2>3 DEF Goto, ReverseFind
    <3> QED
      BY <3>1, <3>2, <3>3, <3>4
  <2> QED
    BY <1>9, <2>2, <2>3 DEF ReverseFind
<1>10. ASSUME NEW h \in Handlers, ReverseMark(h) PROVE HandlerOrigin
  <2>1. cmd[h].row \in 1..Len(ledger)
    BY <1>10 DEF ReverseMark
  <2>2. ledger'[cmd[h].row].reversed
    BY <1>10, <2>1, MarkRow DEF ReverseMark
  <2> QED
    BY <1>10, <2>2 DEF ReverseMark, Goto
<1>11. ASSUME NEW h \in Handlers, ReverseInsert(h) PROVE HandlerOrigin
  BY <1>11 DEF ReverseInsert, Goto, Counter
<1>12. ASSUME NEW h \in Handlers, ReverseDraft(h) PROVE HandlerOrigin
  BY <1>12 DEF ReverseDraft, Goto
<1>13. ASSUME NEW h \in Handlers, AdjustCheck(h) PROVE HandlerOrigin
  BY <1>13 DEF AdjustCheck, Goto, AdjustmentsOf
<1>14. ASSUME NEW h \in Handlers, AdjustInsert(h) PROVE HandlerOrigin
  BY <1>14 DEF AdjustInsert, Goto
<1>15. ASSUME NEW h \in Handlers, AdjustMark(h) PROVE HandlerOrigin
  BY <1>15 DEF AdjustMark, Goto
<1>16. ASSUME NEW h \in Handlers, LogCorrection(h) PROVE HandlerOrigin
  BY <1>16 DEF LogCorrection, Goto
<1>17. ASSUME NEW h \in Handlers, CorrectionFails(h) PROVE HandlerOrigin
  BY <1>17 DEF CorrectionFails, Goto
<1>18. ASSUME NEW h \in Handlers, NEW x \in Text, ReceivePaid(h, x) PROVE HandlerOrigin
  <2>1. /\ \A g \in Handlers : g # h => cmd'[g] = cmd[g] /\ pc'[g] = pc[g]
        /\ pc'[h] \in {"paid", "idle"}
    BY <1>18 DEF ReceivePaid, Goto
  <2> QED
    BY <2>1
<1>19. ASSUME NEW h \in Handlers, NEW d \in Drafts, ReversePayment(h, d) PROVE HandlerOrigin
  BY <1>19 DEF ReversePayment, Goto, AmountOf
<1>20. ASSUME NEW h \in Handlers, NEW d \in Drafts, NEW a \in Amounts, AdjustPayment(h, d, a) PROVE HandlerOrigin
  BY <1>20 DEF AdjustPayment, Goto
<1>21. ASSUME NEW d \in Drafts, CreateEscortDraft(d) PROVE HandlerOrigin
  BY <1>21 DEF CreateEscortDraft
<1>22. ASSUME NEW d \in Drafts, CreateAdvanceDraft(d) PROVE HandlerOrigin
  BY <1>22 DEF CreateAdvanceDraft
<1>23. ASSUME NEW d \in Drafts, ExpireStaleDraft(d) PROVE HandlerOrigin
  BY <1>23 DEF ExpireStaleDraft
<1>24. ASSUME NEW d \in Drafts, DeleteStaleDraft(d) PROVE HandlerOrigin
  BY <1>24 DEF DeleteStaleDraft
<1>25. CASE DedupExpires
  BY <1>25 DEF DedupExpires
<1>26. CASE Restart
  BY <1>26 DEF Restart
<1>27. CASE UNCHANGED vars
  BY <1>27 DEF vars
<1> QED
  BY <1>1, <1>2, <1>3, <1>4, <1>5, <1>6, <1>7, <1>8, <1>9, <1>10, <1>11, <1>12, <1>13, <1>14, <1>15, <1>16, <1>17, <1>18, <1>19, <1>20, <1>21, <1>22, <1>23, <1>24, <1>25, <1>26, <1>27
  DEF Next, Step, HandlerStep

\* A new counter-row is written by a handler that marked its original.
LEMMA CounterOriginStep ==
  ASSUME LedgerInv, [Next]_vars
  PROVE  CounterOrigin
<1>0. env' = env
  BY DEF Next, vars
<1> USE LedgerAssumption, <1>0 DEF LedgerInv, CommandInv, CounterOrigin, TypeOK, Command, PCs, PaidPCs, ReversePCs, AdjustPCs
<1>1. ASSUME NEW h \in Handlers, PaidRead(h) PROVE CounterOrigin
  BY <1>1 DEF PaidRead, Goto, Exists
<1>2. ASSUME NEW h \in Handlers, FinalizeRead(h) PROVE CounterOrigin
  BY <1>2 DEF FinalizeRead, Goto, Exists
<1>3. ASSUME NEW h \in Handlers, FinalizeInsert(h) PROVE CounterOrigin
  <2>1. Payment(cmd[h].draft, cmd[h].amount) \in Row
    BY <1>3, PaymentRow
  <2>2. Payment(cmd[h].draft, cmd[h].amount).kind # "reversal"
    BY PaymentKind
  <2> QED
    BY <1>3, <2>1, <2>2, AppendRow DEF FinalizeInsert
<1>4. ASSUME NEW h \in Handlers, FinalizeMarkSent(h) PROVE CounterOrigin
  BY <1>4 DEF FinalizeMarkSent, Goto, SetStatus, Exists
<1>5. ASSUME NEW h \in Handlers, FinalizeFails(h) PROVE CounterOrigin
  BY <1>5 DEF FinalizeFails, Goto
<1>6. ASSUME NEW h \in Handlers, PaidMarkApproved(h) PROVE CounterOrigin
  BY <1>6 DEF PaidMarkApproved, Goto, SetStatus, Exists
<1>7. ASSUME NEW h \in Handlers, PaidFails(h) PROVE CounterOrigin
  BY <1>7 DEF PaidFails, Goto
<1>8. ASSUME NEW h \in Handlers, TellAccountant(h) PROVE CounterOrigin
  BY <1>8 DEF TellAccountant, Goto
<1>9. ASSUME NEW h \in Handlers, ReverseFind(h) PROVE CounterOrigin
  BY <1>9 DEF ReverseFind, Goto, Matching
<1>10. ASSUME NEW h \in Handlers, ReverseMark(h) PROVE CounterOrigin
  <2>1. cmd[h].row \in 1..Len(ledger)
    BY <1>10 DEF ReverseMark
  <2> QED
    BY <1>10, <2>1, MarkRow DEF ReverseMark
<1>11. ASSUME NEW h \in Handlers, ReverseInsert(h) PROVE CounterOrigin
  <2>1. Counter(cmd[h].draft, cmd[h].row) \in Row /\ cmd[h].row \in 1..Len(ledger)
    BY <1>11, CounterRow DEF ReverseInsert
  <2>2. LET c == Counter(cmd[h].draft, cmd[h].row) IN
        /\ c.kind = "reversal" /\ c.of = cmd[h].row /\ c.emp = drafts[cmd[h].draft].emp
        /\ c.amount = -ledger[cmd[h].row].amount
    BY DEF Counter
  <2> QED
    BY <1>11, <2>1, <2>2, AppendRow, SMTT(30) DEF ReverseInsert
<1>12. ASSUME NEW h \in Handlers, ReverseDraft(h) PROVE CounterOrigin
  BY <1>12 DEF ReverseDraft, Goto
<1>13. ASSUME NEW h \in Handlers, AdjustCheck(h) PROVE CounterOrigin
  BY <1>13 DEF AdjustCheck, Goto, AdjustmentsOf
<1>14. ASSUME NEW h \in Handlers, AdjustInsert(h) PROVE CounterOrigin
  BY <1>14 DEF AdjustInsert, Goto
<1>15. ASSUME NEW h \in Handlers, AdjustMark(h) PROVE CounterOrigin
  BY <1>15 DEF AdjustMark, Goto
<1>16. ASSUME NEW h \in Handlers, LogCorrection(h) PROVE CounterOrigin
  BY <1>16 DEF LogCorrection, Goto
<1>17. ASSUME NEW h \in Handlers, CorrectionFails(h) PROVE CounterOrigin
  BY <1>17 DEF CorrectionFails, Goto
<1>18. ASSUME NEW h \in Handlers, NEW x \in Text, ReceivePaid(h, x) PROVE CounterOrigin
  BY <1>18 DEF ReceivePaid, Goto, Remember
<1>19. ASSUME NEW h \in Handlers, NEW d \in Drafts, ReversePayment(h, d) PROVE CounterOrigin
  BY <1>19 DEF ReversePayment, Goto, AmountOf
<1>20. ASSUME NEW h \in Handlers, NEW d \in Drafts, NEW a \in Amounts, AdjustPayment(h, d, a) PROVE CounterOrigin
  BY <1>20 DEF AdjustPayment, Goto
<1>21. ASSUME NEW d \in Drafts, CreateEscortDraft(d) PROVE CounterOrigin
  BY <1>21 DEF CreateEscortDraft
<1>22. ASSUME NEW d \in Drafts, CreateAdvanceDraft(d) PROVE CounterOrigin
  BY <1>22 DEF CreateAdvanceDraft
<1>23. ASSUME NEW d \in Drafts, ExpireStaleDraft(d) PROVE CounterOrigin
  BY <1>23 DEF ExpireStaleDraft
<1>24. ASSUME NEW d \in Drafts, DeleteStaleDraft(d) PROVE CounterOrigin
  BY <1>24 DEF DeleteStaleDraft
<1>25. CASE DedupExpires
  BY <1>25 DEF DedupExpires
<1>26. CASE Restart
  BY <1>26 DEF Restart
<1>27. CASE UNCHANGED vars
  BY <1>27 DEF vars
<1> QED
  BY <1>1, <1>2, <1>3, <1>4, <1>5, <1>6, <1>7, <1>8, <1>9, <1>10, <1>11, <1>12, <1>13, <1>14, <1>15, <1>16, <1>17, <1>18, <1>19, <1>20, <1>21, <1>22, <1>23, <1>24, <1>25, <1>26, <1>27
  DEF Next, Step, HandlerStep

\* The invariant is inductive.
LEMMA InvStep ==
  ASSUME LedgerInv, [Next]_vars
  PROVE  LedgerInv'
<1>1. TypeOK' /\ Keeps /\ EmployeeKept /\ SentOrigin /\ HandlerOrigin /\ CounterOrigin
  BY TypeStep, KeepStep, EmployeeStep, SentOriginStep, HandlerOriginStep, CounterOriginStep
<1>2. \A d \in Drafts : PaymentsOf(d) # {} => PaymentsOf(d)' # {}
  BY <1>1, PaymentsStay DEF LedgerInv
<1>3. /\ DOMAIN ledger = 1..Len(ledger) /\ DOMAIN ledger' = 1..Len(ledger')
      /\ Len(ledger) \in Nat /\ Len(ledger') \in Nat
  BY <1>1, LenProperties DEF TypeOK, LedgerInv
<1>4. SentIsRecorded'
  BY <1>1, <1>2 DEF LedgerInv, SentIsRecorded, SentOrigin
<1>5. CommandInv'
  <2> SUFFICES ASSUME NEW g \in Handlers
               PROVE  LET d == cmd'[g].draft
                          i == cmd'[g].row IN
                      /\ pc'[g] = "mark_sent" =>
                           \E k \in DOMAIN ledger' : ledger'[k].kind # "reversal" /\ ledger'[k].draft = d
                      /\ pc'[g] \in ReversePCs => drafts'[d].status # "none"
                      /\ pc'[g] \in {"rev_mark", "rev_insert"} =>
                           /\ i \in DOMAIN ledger' /\ ledger'[i].kind # "reversal"
                           /\ ledger'[i].emp = drafts'[d].emp
                      /\ pc'[g] = "rev_insert" => ledger'[i].reversed
    BY DEF CommandInv, PaymentsOf
  <2>1. cmd'[g].draft \in Drafts /\ cmd[g].draft \in Drafts
    BY <1>1 DEF TypeOK, Command, LedgerInv
  <2>2. pc'[g] = "mark_sent" =>
          \E k \in DOMAIN ledger' : ledger'[k].kind # "reversal" /\ ledger'[k].draft = cmd'[g].draft
    BY <1>1, <1>2, <2>1 DEF HandlerOrigin, CommandInv, LedgerInv, PaymentsOf
  <2>3. pc'[g] \in ReversePCs => drafts[cmd'[g].draft].status # "none"
    BY <1>1, <2>1 DEF HandlerOrigin, CommandInv, LedgerInv
  <2>4. pc'[g] \in ReversePCs => /\ drafts'[cmd'[g].draft].status # "none"
                                 /\ drafts'[cmd'[g].draft].emp = drafts[cmd'[g].draft].emp
    BY <1>1, <2>1, <2>3 DEF EmployeeKept
  <2>5. pc'[g] \in {"rev_mark", "rev_insert"} =>
          LET i == cmd'[g].row IN
          i \in DOMAIN ledger /\ ledger[i].kind # "reversal" /\ ledger[i].emp = drafts[cmd'[g].draft].emp
    BY <1>1 DEF HandlerOrigin, CommandInv, LedgerInv
  <2>6. pc'[g] \in {"rev_mark", "rev_insert"} =>
          LET i == cmd'[g].row IN
          i \in DOMAIN ledger' /\ ledger'[i].kind # "reversal" /\ ledger'[i].emp = drafts'[cmd'[g].draft].emp
    BY <1>1, <1>3, <2>4, <2>5 DEF Keeps, ReversePCs
  <2>7. pc'[g] = "rev_insert" => ledger'[cmd'[g].row].reversed
    <3>1. CASE pc[g] = "rev_insert" /\ cmd'[g] = cmd[g]
      BY <1>1, <3>1 DEF CommandInv, LedgerInv, Keeps
    <3>2. CASE ~(pc[g] = "rev_insert" /\ cmd'[g] = cmd[g])
      BY <1>1, <3>2 DEF HandlerOrigin
    <3> QED
      BY <3>1, <3>2
  <2> QED
    BY <2>2, <2>4, <2>6, <2>7
<1>6. CountersBalance'
  <2> SUFFICES ASSUME NEW j \in DOMAIN ledger', ledger'[j].kind = "reversal"
               PROVE  LET i == ledger'[j].of IN
                      /\ i \in 1..(j - 1) /\ ledger'[i].kind # "reversal" /\ ledger'[i].reversed
                      /\ ledger'[j].emp = ledger'[i].emp /\ ledger'[j].amount = -ledger'[i].amount
    BY DEF CountersBalance
  <2>1. CASE j \in DOMAIN ledger
    <3>1. ledger[j].kind = "reversal" /\ ledger'[j].of = ledger[j].of
          /\ ledger'[j].emp = ledger[j].emp /\ ledger'[j].amount = ledger[j].amount
      BY <1>1, <2>1 DEF Keeps
    <3>2. LET i == ledger[j].of IN
          /\ i \in 1..(j - 1) /\ ledger[i].kind # "reversal" /\ ledger[i].reversed
          /\ ledger[j].emp = ledger[i].emp /\ ledger[j].amount = -ledger[i].amount
      BY <2>1, <3>1 DEF LedgerInv, CountersBalance
    <3>3. ledger[j].of \in DOMAIN ledger
      BY <1>3, <2>1, <3>2
    <3> QED
      BY <1>1, <3>1, <3>2, <3>3 DEF Keeps
  <2>2. CASE j \notin DOMAIN ledger
    <3>1. LET i == ledger'[j].of IN
          /\ j = Len(ledger) + 1 /\ i \in DOMAIN ledger
          /\ ledger[i].kind # "reversal" /\ ledger[i].reversed
          /\ ledger'[j].emp = ledger[i].emp /\ ledger'[j].amount = -ledger[i].amount
      BY <1>1, <2>2 DEF CounterOrigin
    <3> QED
      BY <1>1, <1>3, <3>1 DEF Keeps
  <2> QED
    BY <2>1, <2>2
<1> QED
  BY <1>1, <1>4, <1>5, <1>6 DEF LedgerInv

\* An empty ledger and idle handlers.
LEMMA LedgerInit == Init => LedgerInv
<1> SUFFICES ASSUME Init PROVE LedgerInv
  OBVIOUS
<1>1. NewDraft \in Draft
  BY LedgerAssumption DEF NewDraft, Draft, DraftStatus
<1>2. ledger \in Seq(Row) /\ recent \in Seq(Text) /\ Len(recent) = 0 /\ DOMAIN ledger = {}
  BY DEF Init
<1>3. drafts \in [Drafts -> Draft] /\ \A d \in Drafts : drafts[d].status = "none"
  BY <1>1 DEF Init, NewDraft
<1>4. pc \in [Handlers -> PCs] /\ \A h \in Handlers : pc[h] = "idle"
  BY DEF Init, PCs
<1>5. cmd \in [Handlers -> Command] /\ told \in [Drafts -> Nat] /\ served \in 0..MaxCommands
  BY LedgerAssumption DEF Init, Command
<1>6. TypeOK
  BY <1>2, <1>3, <1>4, <1>5, LedgerAssumption DEF TypeOK, Init
<1> QED
  BY <1>2, <1>3, <1>4, <1>6 DEF LedgerInv, CommandInv, SentIsRecorded, CountersBalance, ReversePCs

\* The invariant holds of every reachable state.
THEOREM LedgerInvariant == Spec => []LedgerInv
<1>1. Init => LedgerInv
  BY LedgerInit
<1>2. LedgerInv /\ [Next]_vars => LedgerInv'
  BY InvStep
<1> QED
  BY <1>1, <1>2, PTL DEF Spec

\* Every variable keeps its type; the duplicate cache stays within its limit.
THEOREM TypeCorrect == Spec => []TypeOK
<1>1. LedgerInv => TypeOK
  BY DEF LedgerInv
<1> QED
  BY <1>1, LedgerInvariant, PTL

\* finalize_payment's order of statements: 'sent' implies a row in the ledger.
THEOREM SentRecorded == Spec => []SentIsRecorded
<1>1. LedgerInv => SentIsRecorded
  BY DEF LedgerInv
<1> QED
  BY <1>1, LedgerInvariant, PTL

\* reverse_payment's counter-rows balance the rows they point at.
THEOREM Balanced == Spec => []CountersBalance
<1>1. LedgerInv => CountersBalance
  BY DEF LedgerInv
<1> QED
  BY <1>1, LedgerInvariant, PTL

\* "Immutable-ledger approach": no step deletes or rewrites a row.
THEOREM Immutable == Spec => LedgerImmutable
<1>1. LedgerInv /\ [Next]_vars => Keeps
  BY KeepStep
<1>2. Keeps => [Keeps]_vars
  OBVIOUS
<1> QED
  BY <1>1, LedgerInvariant, PTL DEF Spec, LedgerImmutable, Keeps

-----------------------------------------------------------------------------
(* The books against the accountant *)

\* A command past its first look at the draft, and one whose row is written.
Finishing == {"finalize", "insert", "mark_sent", "approve", "tell"}
Recorded == {"mark_sent", "approve", "tell"}
\* What a draft that was paid can be afterwards: no cleanup reaches it.
Settled == {"sent", "approved", "reversed"}

\* The commands whose row is in the ledger and whose instruction is still to come.
Pending(d) == {h \in Handlers : pc[h] \in Recorded /\ cmd[h].draft = d}

ProgressInv ==
  \A h \in Handlers :
    /\ pc[h] \in Finishing => drafts[cmd[h].draft].status # "none"
    /\ pc[h] \in ReversePCs => drafts[cmd[h].draft].status \in Settled

\* Every row of a draft is told of, or about to be.
CountInv ==
  ~env.failures => \A d \in Drafts : drafts[d].status # "deleted" =>
    Cardinality(PaymentsOf(d)) = told[d] + Cardinality(Pending(d))

AloneInv == ~env.overlap => \A g, h \in Handlers : pc[g] # "idle" /\ pc[h] # "idle" => g = h

\* A row has one counter-row, and a reversal under way is the row's first.
OnceInv ==
  ~env.overlap =>
    /\ \A j, k \in DOMAIN ledger :
         /\ ledger[j].kind = "reversal" /\ ledger[k].kind = "reversal"
         /\ ledger[j].of = ledger[k].of
         => j = k
    /\ \A h \in Handlers :
         /\ pc[h] = "rev_mark" => ~ledger[cmd[h].row].reversed
         /\ pc[h] = "rev_insert" => CountersOf(cmd[h].row) = {}

BooksInv == LedgerInv /\ ProgressInv /\ CountInv /\ AloneInv /\ OnceInv

\* How the status of a draft moves, and where a handler's position comes from.
StatusMoves ==
  \A d \in Drafts : /\ drafts[d].status = "deleted" => drafts'[d].status = "deleted"
                    /\ drafts[d].status \in Settled => drafts'[d].status \in Settled
ProgressOrigin ==
  \A g \in Handlers :
    /\ pc'[g] \in Finishing => \/ pc[g] \in Finishing /\ cmd'[g].draft = cmd[g].draft
                               \/ drafts[cmd'[g].draft].status # "none"
    /\ pc'[g] \in ReversePCs => \/ pc[g] \in ReversePCs /\ cmd'[g].draft = cmd[g].draft
                                \/ drafts[cmd'[g].draft].status \in Settled

\* What a step does to the rows, the instructions and the commands of a draft:
\* nothing, one more row with its command, or one more instruction.
Unmoved(d) == PaymentsOf(d)' = PaymentsOf(d) /\ Pending(d)' = Pending(d) /\ told'[d] = told[d]
Inserted(d) ==
  /\ PaymentsOf(d)' = PaymentsOf(d) \cup {Len(ledger) + 1} /\ told'[d] = told[d]
  /\ \E h \in Handlers \ Pending(d) : Pending(d)' = Pending(d) \cup {h}
Instructed(d) ==
  /\ PaymentsOf(d)' = PaymentsOf(d) /\ told'[d] = told[d] + 1
  /\ \E h \in Pending(d) : Pending(d)' = Pending(d) \ {h}
Counted == \A d \in Drafts : drafts'[d].status # "deleted" =>
             Unmoved(d) \/ Inserted(d) \/ Instructed(d)

\* Deleted and paid drafts stay so.
LEMMA StatusStep ==
  ASSUME BooksInv, [Next]_vars
  PROVE  StatusMoves
<1>0. env' = env
  BY DEF Next, vars
<1> USE LedgerAssumption, <1>0 DEF BooksInv, LedgerInv, ProgressInv, StatusMoves, Settled, TypeOK, Command, PCs, PaidPCs, ReversePCs, AdjustPCs
<1>1. ASSUME NEW h \in Handlers, PaidRead(h) PROVE StatusMoves
  BY <1>1 DEF PaidRead, Goto, Exists
<1>2. ASSUME NEW h \in Handlers, FinalizeRead(h) PROVE StatusMoves
  BY <1>2 DEF FinalizeRead, Goto, Exists
<1>3. ASSUME NEW h \in Handlers, FinalizeInsert(h) PROVE StatusMoves
  BY <1>3 DEF FinalizeInsert, Goto, Payment
<1>4. ASSUME NEW h \in Handlers, FinalizeMarkSent(h) PROVE StatusMoves
  BY <1>4 DEF FinalizeMarkSent, Goto, SetStatus, Exists
<1>5. ASSUME NEW h \in Handlers, FinalizeFails(h) PROVE StatusMoves
  BY <1>5 DEF FinalizeFails, Goto
<1>6. ASSUME NEW h \in Handlers, PaidMarkApproved(h) PROVE StatusMoves
  BY <1>6, SMTT(30) DEF PaidMarkApproved, Goto, SetStatus, Exists
<1>7. ASSUME NEW h \in Handlers, PaidFails(h) PROVE StatusMoves
  BY <1>7 DEF PaidFails, Goto
<1>8. ASSUME NEW h \in Handlers, TellAccountant(h) PROVE StatusMoves
  BY <1>8 DEF TellAccountant, Goto
<1>9. ASSUME NEW h \in Handlers, ReverseFind(h) PROVE StatusMoves
  BY <1>9 DEF ReverseFind, Goto, Matching
<1>10. ASSUME NEW h \in Handlers, ReverseMark(h) PROVE StatusMoves
  BY <1>10 DEF ReverseMark, Goto
<1>11. ASSUME NEW h \in Handlers, ReverseInsert(h) PROVE StatusMoves
  BY <1>11 DEF ReverseInsert, Goto, Counter
<1>12. ASSUME NEW h \in Handlers, ReverseDraft(h) PROVE StatusMoves
  <2> DEFINE d == cmd[h].draft
             f == [drafts EXCEPT ![d].status = "reversed"]
  <2>1. d \in Drafts /\ drafts[d].status \in Settled /\ drafts[d].status # "deleted"
    BY <1>12 DEF ReverseDraft
  <2>2. f \in [Drafts -> Draft] /\ f[d].status = "reversed" /\ \A x \in Drafts : x # d => f[x] = drafts[x]
    <3>1. f \in [Drafts -> Draft] /\ drafts \in [Drafts -> Draft]
      BY <2>1, DraftFields DEF DraftStatus
    <3>2. drafts[d] \in Draft
      BY <2>1, <3>1
    <3> QED
      BY <2>1, <3>1, <3>2, SMTT(30) DEF Draft
  <2>3. drafts' = [f EXCEPT ![d].corr = "reversal"]
    BY <1>12, <2>1 DEF ReverseDraft
  <2> HIDE DEF f
  <2>4. drafts'[d].status = "reversed" /\ \A x \in Drafts : x # d => drafts'[x] = drafts[x]
    BY <2>1, <2>2, <2>3 DEF Draft
  <2> QED
    BY <2>1, <2>4
<1>13. ASSUME NEW h \in Handlers, AdjustCheck(h) PROVE StatusMoves
  BY <1>13 DEF AdjustCheck, Goto, AdjustmentsOf
<1>14. ASSUME NEW h \in Handlers, AdjustInsert(h) PROVE StatusMoves
  BY <1>14 DEF AdjustInsert, Goto
<1>15. ASSUME NEW h \in Handlers, AdjustMark(h) PROVE StatusMoves
  BY <1>15 DEF AdjustMark, Goto
<1>16. ASSUME NEW h \in Handlers, LogCorrection(h) PROVE StatusMoves
  BY <1>16 DEF LogCorrection, Goto
<1>17. ASSUME NEW h \in Handlers, CorrectionFails(h) PROVE StatusMoves
  BY <1>17 DEF CorrectionFails, Goto
<1>18. ASSUME NEW h \in Handlers, NEW x \in Text, ReceivePaid(h, x) PROVE StatusMoves
  BY <1>18 DEF ReceivePaid, Goto, Remember
<1>19. ASSUME NEW h \in Handlers, NEW d \in Drafts, ReversePayment(h, d) PROVE StatusMoves
  BY <1>19 DEF ReversePayment, Goto, AmountOf
<1>20. ASSUME NEW h \in Handlers, NEW d \in Drafts, NEW a \in Amounts, AdjustPayment(h, d, a) PROVE StatusMoves
  BY <1>20 DEF AdjustPayment, Goto
<1>21. ASSUME NEW d \in Drafts, CreateEscortDraft(d) PROVE StatusMoves
  BY <1>21 DEF CreateEscortDraft
<1>22. ASSUME NEW d \in Drafts, CreateAdvanceDraft(d) PROVE StatusMoves
  BY <1>22 DEF CreateAdvanceDraft
<1>23. ASSUME NEW d \in Drafts, ExpireStaleDraft(d) PROVE StatusMoves
  BY <1>23 DEF ExpireStaleDraft
<1>24. ASSUME NEW d \in Drafts, DeleteStaleDraft(d) PROVE StatusMoves
  BY <1>24 DEF DeleteStaleDraft
<1>25. CASE DedupExpires
  BY <1>25 DEF DedupExpires
<1>26. CASE Restart
  BY <1>26 DEF Restart
<1>27. CASE UNCHANGED vars
  BY <1>27 DEF vars
<1> QED
  BY <1>1, <1>2, <1>3, <1>4, <1>5, <1>6, <1>7, <1>8, <1>9, <1>10, <1>11, <1>12, <1>13, <1>14, <1>15, <1>16, <1>17, <1>18, <1>19, <1>20, <1>21, <1>22, <1>23, <1>24, <1>25, <1>26, <1>27
  DEF Next, Step, HandlerStep

\* A handler moves on from where it was, or looked at the draft.
LEMMA ProgressStep ==
  ASSUME BooksInv, [Next]_vars
  PROVE  ProgressOrigin
<1>0. env' = env
  BY DEF Next, vars
<1> USE LedgerAssumption, <1>0 DEF BooksInv, LedgerInv, ProgressInv, ProgressOrigin, Finishing, Settled, TypeOK, Command, PCs, PaidPCs, ReversePCs, AdjustPCs
<1>1. ASSUME NEW h \in Handlers, PaidRead(h) PROVE ProgressOrigin
  BY <1>1 DEF PaidRead, Goto, Exists
<1>2. ASSUME NEW h \in Handlers, FinalizeRead(h) PROVE ProgressOrigin
  BY <1>2 DEF FinalizeRead, Goto, Exists
<1>3. ASSUME NEW h \in Handlers, FinalizeInsert(h) PROVE ProgressOrigin
  BY <1>3 DEF FinalizeInsert, Goto, Payment
<1>4. ASSUME NEW h \in Handlers, FinalizeMarkSent(h) PROVE ProgressOrigin
  BY <1>4 DEF FinalizeMarkSent, Goto, SetStatus, Exists
<1>5. ASSUME NEW h \in Handlers, FinalizeFails(h) PROVE ProgressOrigin
  BY <1>5 DEF FinalizeFails, Goto
<1>6. ASSUME NEW h \in Handlers, PaidMarkApproved(h) PROVE ProgressOrigin
  BY <1>6 DEF PaidMarkApproved, Goto, SetStatus, Exists
<1>7. ASSUME NEW h \in Handlers, PaidFails(h) PROVE ProgressOrigin
  BY <1>7 DEF PaidFails, Goto
<1>8. ASSUME NEW h \in Handlers, TellAccountant(h) PROVE ProgressOrigin
  BY <1>8 DEF TellAccountant, Goto
<1>9. ASSUME NEW h \in Handlers, ReverseFind(h) PROVE ProgressOrigin
  BY <1>9 DEF ReverseFind, Goto, Matching
<1>10. ASSUME NEW h \in Handlers, ReverseMark(h) PROVE ProgressOrigin
  BY <1>10 DEF ReverseMark, Goto
<1>11. ASSUME NEW h \in Handlers, ReverseInsert(h) PROVE ProgressOrigin
  BY <1>11 DEF ReverseInsert, Goto, Counter
<1>12. ASSUME NEW h \in Handlers, ReverseDraft(h) PROVE ProgressOrigin
  BY <1>12 DEF ReverseDraft, Goto
<1>13. ASSUME NEW h \in Handlers, AdjustCheck(h) PROVE ProgressOrigin
  BY <1>13 DEF AdjustCheck, Goto, AdjustmentsOf
<1>14. ASSUME NEW h \in Handlers, AdjustInsert(h) PROVE ProgressOrigin
  BY <1>14 DEF AdjustInsert, Goto
<1>15. ASSUME NEW h \in Handlers, AdjustMark(h) PROVE ProgressOrigin
  BY <1>15 DEF AdjustMark, Goto
<1>16. ASSUME NEW h \in Handlers, LogCorrection(h) PROVE ProgressOrigin
  BY <1>16 DEF LogCorrection, Goto
<1>17. ASSUME NEW h \in Handlers, CorrectionFails(h) PROVE ProgressOrigin
  BY <1>17 DEF CorrectionFails, Goto
<1>18. ASSUME NEW h \in Handlers, NEW x \in Text, ReceivePaid(h, x) PROVE ProgressOrigin
  BY <1>18 DEF ReceivePaid, Goto, Remember
<1>19. ASSUME NEW h \in Handlers, NEW d \in Drafts, ReversePayment(h, d) PROVE ProgressOrigin
  BY <1>19 DEF ReversePayment, Goto, AmountOf
<1>20. ASSUME NEW h \in Handlers, NEW d \in Drafts, NEW a \in Amounts, AdjustPayment(h, d, a) PROVE ProgressOrigin
  BY <1>20 DEF AdjustPayment, Goto
<1>21. ASSUME NEW d \in Drafts, CreateEscortDraft(d) PROVE ProgressOrigin
  BY <1>21 DEF CreateEscortDraft
<1>22. ASSUME NEW d \in Drafts, CreateAdvanceDraft(d) PROVE ProgressOrigin
  BY <1>22 DEF CreateAdvanceDraft
<1>23. ASSUME NEW d \in Drafts, ExpireStaleDraft(d) PROVE ProgressOrigin
  BY <1>23 DEF ExpireStaleDraft
<1>24. ASSUME NEW d \in Drafts, DeleteStaleDraft(d) PROVE ProgressOrigin
  BY <1>24 DEF DeleteStaleDraft
<1>25. CASE DedupExpires
  BY <1>25 DEF DedupExpires
<1>26. CASE Restart
  BY <1>26 DEF Restart
<1>27. CASE UNCHANGED vars
  BY <1>27 DEF vars
<1> QED
  BY <1>1, <1>2, <1>3, <1>4, <1>5, <1>6, <1>7, <1>8, <1>9, <1>10, <1>11, <1>12, <1>13, <1>14, <1>15, <1>16, <1>17, <1>18, <1>19, <1>20, <1>21, <1>22, <1>23, <1>24, <1>25, <1>26, <1>27
  DEF Next, Step, HandlerStep

\* Commands that must not overlap do not.
LEMMA AloneStep ==
  ASSUME BooksInv, [Next]_vars
  PROVE  AloneInv'
<1>0. env' = env
  BY DEF Next, vars
<1> USE LedgerAssumption, <1>0 DEF BooksInv, LedgerInv, AloneInv, MayStart, TypeOK, Command, PCs, PaidPCs, ReversePCs, AdjustPCs
<1>1. ASSUME NEW h \in Handlers, PaidRead(h) PROVE AloneInv'
  BY <1>1 DEF PaidRead, Goto, Exists
<1>2. ASSUME NEW h \in Handlers, FinalizeRead(h) PROVE AloneInv'
  BY <1>2 DEF FinalizeRead, Goto, Exists
<1>3. ASSUME NEW h \in Handlers, FinalizeInsert(h) PROVE AloneInv'
  BY <1>3 DEF FinalizeInsert, Goto, Payment
<1>4. ASSUME NEW h \in Handlers, FinalizeMarkSent(h) PROVE AloneInv'
  BY <1>4 DEF FinalizeMarkSent, Goto, SetStatus, Exists
<1>5. ASSUME NEW h \in Handlers, FinalizeFails(h) PROVE AloneInv'
  BY <1>5 DEF FinalizeFails, Goto
<1>6. ASSUME NEW h \in Handlers, PaidMarkApproved(h) PROVE AloneInv'
  BY <1>6 DEF PaidMarkApproved, Goto, SetStatus, Exists
<1>7. ASSUME NEW h \in Handlers, PaidFails(h) PROVE AloneInv'
  BY <1>7 DEF PaidFails, Goto
<1>8. ASSUME NEW h \in Handlers, TellAccountant(h) PROVE AloneInv'
  BY <1>8 DEF TellAccountant, Goto
<1>9. ASSUME NEW h \in Handlers, ReverseFind(h) PROVE AloneInv'
  BY <1>9, SMTT(30) DEF ReverseFind, Goto, Matching
<1>10. ASSUME NEW h \in Handlers, ReverseMark(h) PROVE AloneInv'
  BY <1>10 DEF ReverseMark, Goto
<1>11. ASSUME NEW h \in Handlers, ReverseInsert(h) PROVE AloneInv'
  BY <1>11 DEF ReverseInsert, Goto, Counter
<1>12. ASSUME NEW h \in Handlers, ReverseDraft(h) PROVE AloneInv'
  BY <1>12 DEF ReverseDraft, Goto
<1>13. ASSUME NEW h \in Handlers, AdjustCheck(h) PROVE AloneInv'
  BY <1>13 DEF AdjustCheck, Goto, AdjustmentsOf
<1>14. ASSUME NEW h \in Handlers, AdjustInsert(h) PROVE AloneInv'
  BY <1>14 DEF AdjustInsert, Goto
<1>15. ASSUME NEW h \in Handlers, AdjustMark(h) PROVE AloneInv'
  BY <1>15 DEF AdjustMark, Goto
<1>16. ASSUME NEW h \in Handlers, LogCorrection(h) PROVE AloneInv'
  BY <1>16 DEF LogCorrection, Goto
<1>17. ASSUME NEW h \in Handlers, CorrectionFails(h) PROVE AloneInv'
  BY <1>17 DEF CorrectionFails, Goto
<1>18. ASSUME NEW h \in Handlers, NEW x \in Text, ReceivePaid(h, x) PROVE AloneInv'
  BY <1>18 DEF ReceivePaid, Goto, Remember
<1>19. ASSUME NEW h \in Handlers, NEW d \in Drafts, ReversePayment(h, d) PROVE AloneInv'
  BY <1>19 DEF ReversePayment, Goto, AmountOf
<1>20. ASSUME NEW h \in Handlers, NEW d \in Drafts, NEW a \in Amounts, AdjustPayment(h, d, a) PROVE AloneInv'
  BY <1>20 DEF AdjustPayment, Goto
<1>21. ASSUME NEW d \in Drafts, CreateEscortDraft(d) PROVE AloneInv'
  BY <1>21 DEF CreateEscortDraft
<1>22. ASSUME NEW d \in Drafts, CreateAdvanceDraft(d) PROVE AloneInv'
  BY <1>22 DEF CreateAdvanceDraft
<1>23. ASSUME NEW d \in Drafts, ExpireStaleDraft(d) PROVE AloneInv'
  BY <1>23 DEF ExpireStaleDraft
<1>24. ASSUME NEW d \in Drafts, DeleteStaleDraft(d) PROVE AloneInv'
  BY <1>24 DEF DeleteStaleDraft
<1>25. CASE DedupExpires
  BY <1>25 DEF DedupExpires
<1>26. CASE Restart
  BY <1>26 DEF Restart
<1>27. CASE UNCHANGED vars
  BY <1>27 DEF vars
<1> QED
  BY <1>1, <1>2, <1>3, <1>4, <1>5, <1>6, <1>7, <1>8, <1>9, <1>10, <1>11, <1>12, <1>13, <1>14, <1>15, <1>16, <1>17, <1>18, <1>19, <1>20, <1>21, <1>22, <1>23, <1>24, <1>25, <1>26, <1>27
  DEF Next, Step, HandlerStep

\* The handlers of a draft, when no handler enters or leaves the positions after
\* its INSERT.
LEMMA PendingSame ==
  ASSUME TypeOK, TypeOK', NEW d \in Drafts,
         \A g \in Handlers : (pc'[g] \in Recorded /\ cmd'[g].draft = d)
                               <=> (pc[g] \in Recorded /\ cmd[g].draft = d)
  PROVE  Pending(d)' = Pending(d)
  BY DEF Pending

\* A row that is marked keeps its draft and kind.
LEMMA PaymentsMarked ==
  ASSUME LedgerInv, NEW h \in Handlers, ReverseMark(h), NEW d \in Drafts
  PROVE  PaymentsOf(d)' = PaymentsOf(d)
<1>1. cmd[h].row \in 1..Len(ledger) /\ ledger \in Seq(Row)
  BY LenProperties DEF LedgerInv, TypeOK, CommandInv, ReverseMark
<1>2. /\ DOMAIN ledger' = DOMAIN ledger
      /\ \A i \in DOMAIN ledger : ledger'[i].kind = ledger[i].kind /\ ledger'[i].draft = ledger[i].draft
  BY <1>1, MarkRow DEF ReverseMark
<1> QED
  BY <1>2 DEF PaymentsOf

\* A counter-row is not a payment.
LEMMA PaymentsCountered ==
  ASSUME LedgerInv, NEW h \in Handlers, ReverseInsert(h), NEW d \in Drafts
  PROVE  PaymentsOf(d)' = PaymentsOf(d)
<1>1. cmd[h].row \in DOMAIN ledger /\ ledger \in Seq(Row) /\ TypeOK
  BY DEF LedgerInv, TypeOK, CommandInv, ReverseInsert
<1> DEFINE r == Counter(cmd[h].draft, cmd[h].row)
<1>2. r \in Row /\ r.kind = "reversal"
  BY <1>1, CounterRow DEF Counter
<1>3. /\ DOMAIN ledger = 1..Len(ledger) /\ DOMAIN ledger' = 1..(Len(ledger) + 1)
      /\ \A i \in 1..Len(ledger) : ledger'[i] = ledger[i]
      /\ ledger'[Len(ledger) + 1] = r /\ Len(ledger) \in Nat
  BY <1>1, <1>2, AppendRow DEF ReverseInsert
<1> HIDE DEF r
<1> QED
  BY <1>2, <1>3 DEF PaymentsOf

\* The row finalize_payment inserts is one more of its draft and of no other.
LEMMA PaymentsGrow ==
  ASSUME LedgerInv, NEW h \in Handlers, FinalizeInsert(h), NEW d \in Drafts
  PROVE  PaymentsOf(d)' = IF d = cmd[h].draft THEN PaymentsOf(d) \cup {Len(ledger) + 1}
                          ELSE PaymentsOf(d)
<1>1. ledger \in Seq(Row) /\ TypeOK
  BY DEF LedgerInv, TypeOK
<1> DEFINE r == Payment(cmd[h].draft, cmd[h].amount)
<1>2. r \in Row /\ r.kind # "reversal" /\ r.draft = cmd[h].draft
  BY <1>1, PaymentRow, PaymentKind DEF Payment
<1>3. /\ DOMAIN ledger = 1..Len(ledger) /\ DOMAIN ledger' = 1..(Len(ledger) + 1)
      /\ \A i \in 1..Len(ledger) : ledger'[i] = ledger[i]
      /\ ledger'[Len(ledger) + 1] = r /\ Len(ledger) \in Nat
  BY <1>1, <1>2, AppendRow DEF FinalizeInsert
<1> HIDE DEF r
<1> QED
  BY <1>2, <1>3 DEF PaymentsOf

\* Without failures a row, its command and its instruction move together.
LEMMA CountedStep ==
  ASSUME BooksInv, TypeOK', ~env.failures, [Next]_vars
  PROVE  Counted
<1>0. env' = env
  BY DEF Next, vars
<1> USE LedgerAssumption, <1>0 DEF BooksInv, LedgerInv, TypeOK, Command
<1>1. ASSUME NEW h \in Handlers, PaidRead(h) PROVE Counted
  <2> SUFFICES ASSUME NEW d \in Drafts, drafts'[d].status # "deleted" PROVE Unmoved(d)
    BY DEF Counted
  <2>1. PaymentsOf(d)' = PaymentsOf(d) /\ told' = told
    BY <1>1 DEF PaidRead, PaymentsOf
  <2>2. Pending(d)' = Pending(d)
    BY <1>1, PendingSame DEF PaidRead, Goto, Recorded
  <2> QED
    BY <2>1, <2>2 DEF Unmoved
<1>2. ASSUME NEW h \in Handlers, FinalizeRead(h) PROVE Counted
  <2> SUFFICES ASSUME NEW d \in Drafts, drafts'[d].status # "deleted" PROVE Unmoved(d)
    BY DEF Counted
  <2>1. PaymentsOf(d)' = PaymentsOf(d) /\ told' = told
    BY <1>2 DEF FinalizeRead, PaymentsOf
  <2>2. d = cmd[h].draft => Exists(d)
    BY <1>2 DEF FinalizeRead, Exists, ProgressInv, Finishing
  <2>3. Pending(d)' = Pending(d)
    BY <1>2, <2>2, PendingSame DEF FinalizeRead, Goto, Recorded
  <2> QED
    BY <2>1, <2>3 DEF Unmoved
<1>3. ASSUME NEW h \in Handlers, FinalizeInsert(h) PROVE Counted
  <2> SUFFICES ASSUME NEW d \in Drafts PROVE Unmoved(d) \/ Inserted(d)
    BY DEF Counted
  <2>1. told' = told
    BY <1>3 DEF FinalizeInsert
  <2>2. CASE d # cmd[h].draft
    <3>1. PaymentsOf(d)' = PaymentsOf(d)
      BY <1>3, <2>2, PaymentsGrow
    <3>2. Pending(d)' = Pending(d)
      BY <1>3, <2>2, PendingSame DEF FinalizeInsert, Goto, Recorded
    <3> QED
      BY <2>1, <3>1, <3>2 DEF Unmoved
  <2>3. CASE d = cmd[h].draft
    <3>1. PaymentsOf(d)' = PaymentsOf(d) \cup {Len(ledger) + 1}
      BY <1>3, <2>3, PaymentsGrow
    <3>2. h \in Handlers \ Pending(d)
      BY <1>3 DEF FinalizeInsert, Pending, Recorded
    <3>3. Pending(d)' = Pending(d) \cup {h}
      BY <1>3, <2>3 DEF FinalizeInsert, Goto, Pending, Recorded
    <3> QED
      BY <2>1, <3>1, <3>2, <3>3 DEF Inserted
  <2> QED
    BY <2>2, <2>3
<1>4. ASSUME NEW h \in Handlers, FinalizeMarkSent(h) PROVE Counted
  <2> SUFFICES ASSUME NEW d \in Drafts, drafts'[d].status # "deleted" PROVE Unmoved(d)
    BY DEF Counted
  <2>1. PaymentsOf(d)' = PaymentsOf(d) /\ told' = told
    BY <1>4 DEF FinalizeMarkSent, PaymentsOf
  <2>2. Pending(d)' = Pending(d)
    BY <1>4, PendingSame DEF FinalizeMarkSent, Goto, Recorded
  <2> QED
    BY <2>1, <2>2 DEF Unmoved
<1>5. ASSUME NEW h \in Handlers, FinalizeFails(h) PROVE Counted
  BY <1>5 DEF FinalizeFails
<1>6. ASSUME NEW h \in Handlers, PaidMarkApproved(h) PROVE Counted
  <2> SUFFICES ASSUME NEW d \in Drafts, drafts'[d].status # "deleted" PROVE Unmoved(d)
    BY DEF Counted
  <2>1. PaymentsOf(d)' = PaymentsOf(d) /\ told' = told
    BY <1>6 DEF PaidMarkApproved, PaymentsOf
  <2>2. Pending(d)' = Pending(d)
    BY <1>6, PendingSame DEF PaidMarkApproved, Goto, Recorded
  <2> QED
    BY <2>1, <2>2 DEF Unmoved
<1>7. ASSUME NEW h \in Handlers, PaidFails(h) PROVE Counted
  BY <1>7 DEF PaidFails
<1>8. ASSUME NEW h \in Handlers, TellAccountant(h) PROVE Counted
  <2> SUFFICES ASSUME NEW d \in Drafts PROVE Unmoved(d) \/ Instructed(d)
    BY DEF Counted
  <2>1. PaymentsOf(d)' = PaymentsOf(d)
    BY <1>8 DEF TellAccountant, PaymentsOf
  <2>2. CASE d # cmd[h].draft
    <3>1. told'[d] = told[d]
      BY <1>8, <2>2 DEF TellAccountant
    <3>2. Pending(d)' = Pending(d)
      BY <1>8, <2>2, PendingSame DEF TellAccountant, Goto, Recorded
    <3> QED
      BY <2>1, <3>1, <3>2 DEF Unmoved
  <2>3. CASE d = cmd[h].draft
    <3>1. told'[d] = told[d] + 1
      BY <1>8, <2>3 DEF TellAccountant
    <3>2. h \in Pending(d)
      BY <1>8, <2>3 DEF TellAccountant, Pending, Recorded
    <3>3. Pending(d)' = Pending(d) \ {h}
      BY <1>8, <2>3 DEF TellAccountant, Goto, Pending, Recorded
    <3> QED
      BY <2>1, <3>1, <3>2, <3>3 DEF Instructed
  <2> QED
    BY <2>2, <2>3
<1>9. ASSUME NEW h \in Handlers, ReverseFind(h) PROVE Counted
  <2> SUFFICES ASSUME NEW d \in Drafts, drafts'[d].status # "deleted" PROVE Unmoved(d)
    BY DEF Counted
  <2>1. PaymentsOf(d)' = PaymentsOf(d) /\ told' = told
    BY <1>9 DEF ReverseFind, PaymentsOf
  <2>2. Pending(d)' = Pending(d)
    BY <1>9, PendingSame DEF ReverseFind, Goto, Recorded
  <2> QED
    BY <2>1, <2>2 DEF Unmoved
<1>10. ASSUME NEW h \in Handlers, ReverseMark(h) PROVE Counted
  <2> SUFFICES ASSUME NEW d \in Drafts, drafts'[d].status # "deleted" PROVE Unmoved(d)
    BY DEF Counted
  <2>1. PaymentsOf(d)' = PaymentsOf(d) /\ told' = told
    BY <1>10, PaymentsMarked DEF ReverseMark
  <2>2. Pending(d)' = Pending(d)
    BY <1>10, PendingSame DEF ReverseMark, Goto, Recorded
  <2> QED
    BY <2>1, <2>2 DEF Unmoved
<1>11. ASSUME NEW h \in Handlers, ReverseInsert(h) PROVE Counted
  <2> SUFFICES ASSUME NEW d \in Drafts, drafts'[d].status # "deleted" PROVE Unmoved(d)
    BY DEF Counted
  <2>1. PaymentsOf(d)' = PaymentsOf(d) /\ told' = told
    BY <1>11, PaymentsCountered DEF ReverseInsert
  <2>2. Pending(d)' = Pending(d)
    BY <1>11, PendingSame DEF ReverseInsert, Goto, Recorded
  <2> QED
    BY <2>1, <2>2 DEF Unmoved
<1>12. ASSUME NEW h \in Handlers, ReverseDraft(h) PROVE Counted
  <2> SUFFICES ASSUME NEW d \in Drafts, drafts'[d].status # "deleted" PROVE Unmoved(d)
    BY DEF Counted
  <2>1. PaymentsOf(d)' = PaymentsOf(d) /\ told' = told
    BY <1>12 DEF ReverseDraft, PaymentsOf
  <2>2. Pending(d)' = Pending(d)
    BY <1>12, PendingSame DEF ReverseDraft, Goto, Recorded
  <2> QED
    BY <2>1, <2>2 DEF Unmoved
<1>13. ASSUME NEW h \in Handlers, AdjustCheck(h) PROVE Counted
  <2> SUFFICES ASSUME NEW d \in Drafts, drafts'[d].status # "deleted" PROVE Unmoved(d)
    BY DEF Counted
  <2>1. PaymentsOf(d)' = PaymentsOf(d) /\ told' = told
    BY <1>13 DEF AdjustCheck, PaymentsOf
  <2>2. Pending(d)' = Pending(d)
    BY <1>13, PendingSame DEF AdjustCheck, Goto, Recorded
  <2> QED
    BY <2>1, <2>2 DEF Unmoved
<1>14. ASSUME NEW h \in Handlers, AdjustInsert(h) PROVE Counted
  <2> SUFFICES ASSUME NEW d \in Drafts, drafts'[d].status # "deleted" PROVE Unmoved(d)
    BY DEF Counted
  <2>1. PaymentsOf(d)' = PaymentsOf(d) /\ told' = told
    BY <1>14 DEF AdjustInsert, PaymentsOf
  <2>2. Pending(d)' = Pending(d)
    BY <1>14, PendingSame DEF AdjustInsert, Goto, Recorded
  <2> QED
    BY <2>1, <2>2 DEF Unmoved
<1>15. ASSUME NEW h \in Handlers, AdjustMark(h) PROVE Counted
  <2> SUFFICES ASSUME NEW d \in Drafts, drafts'[d].status # "deleted" PROVE Unmoved(d)
    BY DEF Counted
  <2>1. PaymentsOf(d)' = PaymentsOf(d) /\ told' = told
    BY <1>15 DEF AdjustMark, PaymentsOf
  <2>2. Pending(d)' = Pending(d)
    BY <1>15, PendingSame DEF AdjustMark, Goto, Recorded
  <2> QED
    BY <2>1, <2>2 DEF Unmoved
<1>16. ASSUME NEW h \in Handlers, LogCorrection(h) PROVE Counted
  <2> SUFFICES ASSUME NEW d \in Drafts, drafts'[d].status # "deleted" PROVE Unmoved(d)
    BY DEF Counted
  <2>1. PaymentsOf(d)' = PaymentsOf(d) /\ told' = told
    BY <1>16 DEF LogCorrection, PaymentsOf
  <2>2. Pending(d)' = Pending(d)
    BY <1>16, PendingSame DEF LogCorrection, Goto, Recorded
  <2> QED
    BY <2>1, <2>2 DEF Unmoved
<1>17. ASSUME NEW h \in Handlers, CorrectionFails(h) PROVE Counted
  BY <1>17 DEF CorrectionFails
<1>18. ASSUME NEW h \in Handlers, NEW x \in Text, ReceivePaid(h, x) PROVE Counted
  <2> SUFFICES ASSUME NEW y \in Drafts, drafts'[y].status # "deleted" PROVE Unmoved(y)
    BY DEF Counted
  <2>1. PaymentsOf(y)' = PaymentsOf(y) /\ told' = told
    BY <1>18 DEF ReceivePaid, PaymentsOf
  <2>2. Pending(y)' = Pending(y)
    BY <1>18, PendingSame DEF ReceivePaid, Goto, Recorded
  <2> QED
    BY <2>1, <2>2 DEF Unmoved
<1>19. ASSUME NEW h \in Handlers, NEW d \in Drafts, ReversePayment(h, d) PROVE Counted
  <2> SUFFICES ASSUME NEW y \in Drafts, drafts'[y].status # "deleted" PROVE Unmoved(y)
    BY DEF Counted
  <2>1. PaymentsOf(y)' = PaymentsOf(y) /\ told' = told
    BY <1>19 DEF ReversePayment, PaymentsOf
  <2>2. Pending(y)' = Pending(y)
    BY <1>19, PendingSame DEF ReversePayment, Goto, Recorded
  <2> QED
    BY <2>1, <2>2 DEF Unmoved
<1>20. ASSUME NEW h \in Handlers, NEW d \in Drafts, NEW a \in Amounts, AdjustPayment(h, d, a) PROVE Counted
  <2> SUFFICES ASSUME NEW y \in Drafts, drafts'[y].status # "deleted" PROVE Unmoved(y)
    BY DEF Counted
  <2>1. PaymentsOf(y)' = PaymentsOf(y) /\ told' = told
    BY <1>20 DEF AdjustPayment, PaymentsOf
  <2>2. Pending(y)' = Pending(y)
    BY <1>20, PendingSame DEF AdjustPayment, Goto, Recorded
  <2> QED
    BY <2>1, <2>2 DEF Unmoved
<1>21. ASSUME NEW d \in Drafts, CreateEscortDraft(d) PROVE Counted
  <2> SUFFICES ASSUME NEW y \in Drafts, drafts'[y].status # "deleted" PROVE Unmoved(y)
    BY DEF Counted
  <2>1. PaymentsOf(y)' = PaymentsOf(y) /\ told' = told
    BY <1>21 DEF CreateEscortDraft, PaymentsOf
  <2>2. Pending(y)' = Pending(y)
    BY <1>21, PendingSame DEF CreateEscortDraft, Goto, Recorded
  <2> QED
    BY <2>1, <2>2 DEF Unmoved
<1>22. ASSUME NEW d \in Drafts, CreateAdvanceDraft(d) PROVE Counted
  <2> SUFFICES ASSUME NEW y \in Drafts, drafts'[y].status # "deleted" PROVE Unmoved(y)
    BY DEF Counted
  <2>1. PaymentsOf(y)' = PaymentsOf(y) /\ told' = told
    BY <1>22 DEF CreateAdvanceDraft, PaymentsOf
  <2>2. Pending(y)' = Pending(y)
    BY <1>22, PendingSame DEF CreateAdvanceDraft, Goto, Recorded
  <2> QED
    BY <2>1, <2>2 DEF Unmoved
<1>23. ASSUME NEW d \in Drafts, ExpireStaleDraft(d) PROVE Counted
  <2> SUFFICES ASSUME NEW y \in Drafts, drafts'[y].status # "deleted" PROVE Unmoved(y)
    BY DEF Counted
  <2>1. PaymentsOf(y)' = PaymentsOf(y) /\ told' = told
    BY <1>23 DEF ExpireStaleDraft, PaymentsOf
  <2>2. Pending(y)' = Pending(y)
    BY <1>23, PendingSame DEF ExpireStaleDraft, Goto, Recorded
  <2> QED
    BY <2>1, <2>2 DEF Unmoved
<1>24. ASSUME NEW d \in Drafts, DeleteStaleDraft(d) PROVE Counted
  <2> SUFFICES ASSUME NEW y \in Drafts, drafts'[y].status # "deleted" PROVE Unmoved(y)
    BY DEF Counted
  <2>1. PaymentsOf(y)' = PaymentsOf(y) /\ told' = told
    BY <1>24 DEF DeleteStaleDraft, PaymentsOf
  <2>2. Pending(y)' = Pending(y)
    BY <1>24, PendingSame DEF DeleteStaleDraft, Goto, Recorded
  <2> QED
    BY <2>1, <2>2 DEF Unmoved
<1>25. CASE DedupExpires
  <2> SUFFICES ASSUME NEW d \in Drafts, drafts'[d].status # "deleted" PROVE Unmoved(d)
    BY DEF Counted
  <2>1. PaymentsOf(d)' = PaymentsOf(d) /\ told' = told
    BY <1>25 DEF DedupExpires, PaymentsOf
  <2>2. Pending(d)' = Pending(d)
    BY <1>25, PendingSame DEF DedupExpires, Goto, Recorded
  <2> QED
    BY <2>1, <2>2 DEF Unmoved
<1>26. CASE Restart
  BY <1>26 DEF Restart
<1>27. CASE UNCHANGED vars
  <2> SUFFICES ASSUME NEW d \in Drafts, drafts'[d].status # "deleted" PROVE Unmoved(d)
    BY DEF Counted
  <2>1. PaymentsOf(d)' = PaymentsOf(d) /\ told' = told
    BY <1>27 DEF vars, PaymentsOf
  <2>2. Pending(d)' = Pending(d)
    BY <1>27, PendingSame DEF vars, Goto, Recorded
  <2> QED
    BY <2>1, <2>2 DEF Unmoved
<1> QED
  BY <1>1, <1>2, <1>3, <1>4, <1>5, <1>6, <1>7, <1>8, <1>9, <1>10, <1>11, <1>12, <1>13, <1>14, <1>15, <1>16, <1>17, <1>18, <1>19, <1>20, <1>21, <1>22, <1>23, <1>24, <1>25, <1>26, <1>27
  DEF Next, Step, HandlerStep

\* Rows, instructions and commands are finitely many; the counts agree again.
LEMMA CountStep ==
  ASSUME BooksInv, TypeOK', StatusMoves, [Next]_vars
  PROVE  CountInv'
<1>0. env' = env
  BY DEF Next, vars
<1> SUFFICES ASSUME ~env.failures, NEW d \in Drafts, drafts'[d].status # "deleted"
             PROVE  Cardinality(PaymentsOf(d)') = told'[d] + Cardinality(Pending(d)')
  BY <1>0 DEF CountInv
<1>1. Unmoved(d) \/ Inserted(d) \/ Instructed(d)
  BY CountedStep DEF Counted
<1>2. Cardinality(PaymentsOf(d)) = told[d] + Cardinality(Pending(d)) /\ told[d] \in Nat
  BY DEF StatusMoves, BooksInv, CountInv, LedgerInv, TypeOK
<1>3. IsFiniteSet(Pending(d)) /\ Cardinality(Pending(d)) \in Nat
  <2>1. Pending(d) \in SUBSET Handlers
    BY DEF Pending
  <2> QED
    BY <2>1, LedgerAssumption, FS_Subset, FS_CardinalityType
<1>4. IsFiniteSet(PaymentsOf(d)) /\ Len(ledger) + 1 \notin PaymentsOf(d)
  <2>1. PaymentsOf(d) \in SUBSET (1..Len(ledger)) /\ Len(ledger) \in Nat
    BY LenProperties DEF PaymentsOf, BooksInv, LedgerInv, TypeOK
  <2>2. IsFiniteSet(1..Len(ledger))
    BY <2>1, FS_Interval
  <2> QED
    BY <2>1, <2>2, FS_Subset
<1>5. CASE Unmoved(d)
  BY <1>2, <1>5 DEF Unmoved
<1>6. CASE Inserted(d)
  <2>1. PICK h \in Handlers \ Pending(d) : Pending(d)' = Pending(d) \cup {h}
    BY <1>6 DEF Inserted
  <2>2. Cardinality(Pending(d) \cup {h}) = Cardinality(Pending(d)) + 1
    BY <1>3, <2>1, FS_AddElement
  <2>3. Cardinality(PaymentsOf(d) \cup {Len(ledger) + 1}) = Cardinality(PaymentsOf(d)) + 1
    BY <1>4, FS_AddElement
  <2>4. Cardinality(Pending(d)') = Cardinality(Pending(d)) + 1
    BY <2>1, <2>2, Zenon
  <2>5. Cardinality(PaymentsOf(d)') = Cardinality(PaymentsOf(d)) + 1 /\ told'[d] = told[d]
    BY <1>6, <2>3, Zenon DEF Inserted
  <2> QED
    BY <1>2, <1>3, <2>4, <2>5
<1>7. CASE Instructed(d)
  <2>1. PICK h \in Pending(d) : Pending(d)' = Pending(d) \ {h}
    BY <1>7 DEF Instructed
  <2>2. Cardinality(Pending(d) \ {h}) = Cardinality(Pending(d)) - 1
    BY <1>3, <2>1, FS_RemoveElement
  <2>3. Cardinality(Pending(d)') = Cardinality(Pending(d)) - 1
    BY <2>1, <2>2, Zenon
  <2>4. Cardinality(PaymentsOf(d)') = Cardinality(PaymentsOf(d)) /\ told'[d] = told[d] + 1
    BY <1>7, Zenon DEF Instructed
  <2> QED
    BY <1>2, <1>3, <2>3, <2>4
<1> QED
  BY <1>1, <1>5, <1>6, <1>7

\* The ledger and the rows at hand, as far as OnceInv looks at them.
LEMMA RowsSame ==
  ASSUME OnceInv, env' = env, ledger' = ledger,
         \A g \in Handlers : pc'[g] \in {"rev_mark", "rev_insert"} =>
           pc'[g] = pc[g] /\ cmd'[g].row = cmd[g].row
  PROVE  OnceInv'
  BY DEF OnceInv, CountersOf

\* A row is chosen for reversal while it has no counter-row.
LEMMA OnceStep ==
  ASSUME BooksInv, [Next]_vars
  PROVE  OnceInv'
<1>0. env' = env
  BY DEF Next, vars
<1> USE LedgerAssumption, <1>0 DEF BooksInv, LedgerInv, TypeOK, Command
<1>1. ASSUME NEW h \in Handlers, PaidRead(h) PROVE OnceInv'
  <2>1. ledger' = ledger
    BY <1>1 DEF PaidRead
  <2>2. \A g \in Handlers : /\ pc'[g] \in {"rev_mark", "rev_insert"} =>
                                pc'[g] = pc[g] /\ cmd'[g].row = cmd[g].row
    BY <1>1 DEF PaidRead, Goto
  <2> QED
    BY <2>1, <2>2, RowsSame
<1>2. ASSUME NEW h \in Handlers, FinalizeRead(h) PROVE OnceInv'
  <2>1. ledger' = ledger
    BY <1>2 DEF FinalizeRead
  <2>2. \A g \in Handlers : /\ pc'[g] \in {"rev_mark", "rev_insert"} =>
                                pc'[g] = pc[g] /\ cmd'[g].row = cmd[g].row
    BY <1>2 DEF FinalizeRead, Goto
  <2> QED
    BY <2>1, <2>2, RowsSame
<1>3. ASSUME NEW h \in Handlers, FinalizeInsert(h) PROVE OnceInv'
  <2> SUFFICES ASSUME ~env.overlap PROVE OnceInv'
    BY DEF OnceInv
  <2>a. \A g \in Handlers : g # h => pc'[g] = "idle" /\ pc[g] = "idle"
    BY <1>3 DEF AloneInv, FinalizeInsert, Goto
  <2> DEFINE r == Payment(cmd[h].draft, cmd[h].amount)
  <2>1. ledger \in Seq(Row) /\ TypeOK
    OBVIOUS
  <2>2. r \in Row /\ r.kind # "reversal"
    BY <2>1, PaymentRow, PaymentKind
  <2>3. /\ DOMAIN ledger = 1..Len(ledger) /\ DOMAIN ledger' = 1..(Len(ledger) + 1)
        /\ \A i \in 1..Len(ledger) : ledger'[i] = ledger[i]
        /\ ledger'[Len(ledger) + 1] = r /\ Len(ledger) \in Nat
    BY <1>3, <2>1, <2>2, AppendRow DEF FinalizeInsert
  <2>4. \A g \in Handlers : pc'[g] \notin {"rev_mark", "rev_insert"}
    BY <1>3, <2>a DEF FinalizeInsert, Goto
  <2> HIDE DEF r
  <2>5. \A j \in DOMAIN ledger' : ledger'[j].kind = "reversal" => j \in DOMAIN ledger /\ ledger'[j] = ledger[j]
    BY <2>2, <2>3
  <2>6. \A j, k \in DOMAIN ledger' :
          /\ ledger'[j].kind = "reversal" /\ ledger'[k].kind = "reversal"
          /\ ledger'[j].of = ledger'[k].of
          => j = k
    BY <2>5 DEF OnceInv
  <2> QED
    BY <2>4, <2>6 DEF OnceInv
<1>4. ASSUME NEW h \in Handlers, FinalizeMarkSent(h) PROVE OnceInv'
  <2>1. ledger' = ledger
    BY <1>4 DEF FinalizeMarkSent
  <2>2. \A g \in Handlers : /\ pc'[g] \in {"rev_mark", "rev_insert"} =>
                                pc'[g] = pc[g] /\ cmd'[g].row = cmd[g].row
    BY <1>4 DEF FinalizeMarkSent, Goto
  <2> QED
    BY <2>1, <2>2, RowsSame
<1>5. ASSUME NEW h \in Handlers, FinalizeFails(h) PROVE OnceInv'
  <2>1. ledger' = ledger
    BY <1>5 DEF FinalizeFails
  <2>2. \A g \in Handlers : /\ pc'[g] \in {"rev_mark", "rev_insert"} =>
                                pc'[g] = pc[g] /\ cmd'[g].row = cmd[g].row
    BY <1>5 DEF FinalizeFails, Goto
  <2> QED
    BY <2>1, <2>2, RowsSame
<1>6. ASSUME NEW h \in Handlers, PaidMarkApproved(h) PROVE OnceInv'
  <2>1. ledger' = ledger
    BY <1>6 DEF PaidMarkApproved
  <2>2. \A g \in Handlers : /\ pc'[g] \in {"rev_mark", "rev_insert"} =>
                                pc'[g] = pc[g] /\ cmd'[g].row = cmd[g].row
    BY <1>6 DEF PaidMarkApproved, Goto
  <2> QED
    BY <2>1, <2>2, RowsSame
<1>7. ASSUME NEW h \in Handlers, PaidFails(h) PROVE OnceInv'
  <2>1. ledger' = ledger
    BY <1>7 DEF PaidFails
  <2>2. \A g \in Handlers : /\ pc'[g] \in {"rev_mark", "rev_insert"} =>
                                pc'[g] = pc[g] /\ cmd'[g].row = cmd[g].row
    BY <1>7 DEF PaidFails, Goto
  <2> QED
    BY <2>1, <2>2, RowsSame
<1>8. ASSUME NEW h \in Handlers, TellAccountant(h) PROVE OnceInv'
  <2>1. ledger' = ledger
    BY <1>8 DEF TellAccountant
  <2>2. \A g \in Handlers : /\ pc'[g] \in {"rev_mark", "rev_insert"} =>
                                pc'[g] = pc[g] /\ cmd'[g].row = cmd[g].row
    BY <1>8 DEF TellAccountant, Goto
  <2> QED
    BY <2>1, <2>2, RowsSame
<1>9. ASSUME NEW h \in Handlers, ReverseFind(h) PROVE OnceInv'
  <2> SUFFICES ASSUME ~env.overlap PROVE OnceInv'
    BY DEF OnceInv
  <2>a. \A g \in Handlers : g # h => pc'[g] = "idle" /\ pc[g] = "idle"
    BY <1>9 DEF AloneInv, ReverseFind, Goto
  <2>1. ledger' = ledger
    BY <1>9 DEF ReverseFind
  <2>2. pc'[h] # "rev_insert" /\ (pc'[h] = "rev_mark" => ~ledger[cmd'[h].row].reversed)
    BY <1>9 DEF ReverseFind, Goto, Matching
  <2>3. \A g \in Handlers : /\ pc'[g] # "rev_insert"
                            /\ pc'[g] = "rev_mark" => ~ledger[cmd'[g].row].reversed
    BY <2>a, <2>2
  <2> QED
    BY <2>1, <2>3 DEF OnceInv
<1>10. ASSUME NEW h \in Handlers, ReverseMark(h) PROVE OnceInv'
  <2> SUFFICES ASSUME ~env.overlap PROVE OnceInv'
    BY DEF OnceInv
  <2>a. \A g \in Handlers : g # h => pc'[g] = "idle" /\ pc[g] = "idle"
    BY <1>10 DEF AloneInv, ReverseMark, Goto
  <2> DEFINE n == cmd[h].row
  <2>1. n \in 1..Len(ledger) /\ ledger \in Seq(Row) /\ DOMAIN ledger = 1..Len(ledger)
    BY <1>10, LenProperties DEF ReverseMark, CommandInv
  <2>2. /\ DOMAIN ledger' = DOMAIN ledger
        /\ \A i \in DOMAIN ledger : ledger'[i].kind = ledger[i].kind /\ ledger'[i].of = ledger[i].of
    BY <1>10, <2>1, MarkRow DEF ReverseMark
  <2>3. \A j \in DOMAIN ledger : ledger[j].kind = "reversal" => ledger[j].of # n
    BY <1>10, <2>1 DEF ReverseMark, OnceInv, CountersBalance
  <2>4. pc'[h] = "rev_insert" /\ cmd' = cmd
    BY <1>10 DEF ReverseMark, Goto
  <2>5. \A j \in DOMAIN ledger' : ledger'[j].kind = "reversal" => ledger'[j].of # n
    BY <2>2, <2>3
  <2>6. \A g \in Handlers :
          /\ pc'[g] # "rev_mark"
          /\ pc'[g] = "rev_insert" =>
               \A j \in DOMAIN ledger' : ledger'[j].kind = "reversal" => ledger'[j].of # cmd'[g].row
    BY <2>a, <2>4, <2>5
  <2>7. \A j, k \in DOMAIN ledger' :
          /\ ledger'[j].kind = "reversal" /\ ledger'[k].kind = "reversal"
          /\ ledger'[j].of = ledger'[k].of
          => j = k
    BY <2>2 DEF OnceInv
  <2> QED
    BY <2>6, <2>7 DEF OnceInv, CountersOf
<1>11. ASSUME NEW h \in Handlers, ReverseInsert(h) PROVE OnceInv'
  <2> SUFFICES ASSUME ~env.overlap PROVE OnceInv'
    BY DEF OnceInv
  <2>a. \A g \in Handlers : g # h => pc'[g] = "idle" /\ pc[g] = "idle"
    BY <1>11 DEF AloneInv, ReverseInsert, Goto
  <2> DEFINE n == cmd[h].row
             r == Counter(cmd[h].draft, n)
  <2>1. n \in DOMAIN ledger /\ ledger \in Seq(Row) /\ TypeOK
    BY <1>11 DEF ReverseInsert, CommandInv
  <2>2. r \in Row /\ r.kind = "reversal" /\ r.of = n
    BY <2>1, CounterRow DEF Counter
  <2>3. /\ DOMAIN ledger = 1..Len(ledger) /\ DOMAIN ledger' = 1..(Len(ledger) + 1)
        /\ \A i \in 1..Len(ledger) : ledger'[i] = ledger[i]
        /\ ledger'[Len(ledger) + 1] = r /\ Len(ledger) \in Nat
    BY <1>11, <2>1, <2>2, AppendRow DEF ReverseInsert
  <2>4. \A j \in DOMAIN ledger : ledger[j].kind = "reversal" => ledger[j].of # n
    BY <1>11 DEF ReverseInsert, OnceInv, CountersOf
  <2>5. \A g \in Handlers : pc'[g] \notin {"rev_mark", "rev_insert"}
    BY <1>11, <2>a DEF ReverseInsert, Goto
  <2>6. \A j, k \in DOMAIN ledger :
          /\ ledger[j].kind = "reversal" /\ ledger[k].kind = "reversal"
          /\ ledger[j].of = ledger[k].of
          => j = k
    BY DEF OnceInv
  <2> HIDE DEF r, n
  <2>7. \A j, k \in DOMAIN ledger' :
          /\ ledger'[j].kind = "reversal" /\ ledger'[k].kind = "reversal"
          /\ ledger'[j].of = ledger'[k].of
          => j = k
    <3> SUFFICES ASSUME NEW j \in DOMAIN ledger', NEW k \in DOMAIN ledger',
                        ledger'[j].kind = "reversal", ledger'[k].kind = "reversal",
                        ledger'[j].of = ledger'[k].of
                 PROVE  j = k
      OBVIOUS
    <3>1. CASE j \in DOMAIN ledger /\ k \in DOMAIN ledger
      BY <2>3, <2>6, <3>1
    <3>2. CASE j \in DOMAIN ledger /\ k = Len(ledger) + 1
      BY <2>2, <2>3, <2>4, <3>2
    <3>3. CASE k \in DOMAIN ledger /\ j = Len(ledger) + 1
      BY <2>2, <2>3, <2>4, <3>3
    <3> QED
      BY <2>3, <3>1, <3>2, <3>3
  <2> QED
    BY <2>5, <2>7 DEF OnceInv
<1>12. ASSUME NEW h \in Handlers, ReverseDraft(h) PROVE OnceInv'
  <2>1. ledger' = ledger
    BY <1>12 DEF ReverseDraft
  <2>2. \A g \in Handlers : /\ pc'[g] \in {"rev_mark", "rev_insert"} =>
                                pc'[g] = pc[g] /\ cmd'[g].row = cmd[g].row
    BY <1>12 DEF ReverseDraft, Goto
  <2> QED
    BY <2>1, <2>2, RowsSame
<1>13. ASSUME NEW h \in Handlers, AdjustCheck(h) PROVE OnceInv'
  <2>1. ledger' = ledger
    BY <1>13 DEF AdjustCheck
  <2>2. \A g \in Handlers : /\ pc'[g] \in {"rev_mark", "rev_insert"} =>
                                pc'[g] = pc[g] /\ cmd'[g].row = cmd[g].row
    BY <1>13 DEF AdjustCheck, Goto
  <2> QED
    BY <2>1, <2>2, RowsSame
<1>14. ASSUME NEW h \in Handlers, AdjustInsert(h) PROVE OnceInv'
  <2>1. ledger' = ledger
    BY <1>14 DEF AdjustInsert
  <2>2. \A g \in Handlers : /\ pc'[g] \in {"rev_mark", "rev_insert"} =>
                                pc'[g] = pc[g] /\ cmd'[g].row = cmd[g].row
    BY <1>14 DEF AdjustInsert, Goto
  <2> QED
    BY <2>1, <2>2, RowsSame
<1>15. ASSUME NEW h \in Handlers, AdjustMark(h) PROVE OnceInv'
  <2>1. ledger' = ledger
    BY <1>15 DEF AdjustMark
  <2>2. \A g \in Handlers : /\ pc'[g] \in {"rev_mark", "rev_insert"} =>
                                pc'[g] = pc[g] /\ cmd'[g].row = cmd[g].row
    BY <1>15 DEF AdjustMark, Goto
  <2> QED
    BY <2>1, <2>2, RowsSame
<1>16. ASSUME NEW h \in Handlers, LogCorrection(h) PROVE OnceInv'
  <2>1. ledger' = ledger
    BY <1>16 DEF LogCorrection
  <2>2. \A g \in Handlers : /\ pc'[g] \in {"rev_mark", "rev_insert"} =>
                                pc'[g] = pc[g] /\ cmd'[g].row = cmd[g].row
    BY <1>16 DEF LogCorrection, Goto
  <2> QED
    BY <2>1, <2>2, RowsSame
<1>17. ASSUME NEW h \in Handlers, CorrectionFails(h) PROVE OnceInv'
  <2>1. ledger' = ledger
    BY <1>17 DEF CorrectionFails
  <2>2. \A g \in Handlers : /\ pc'[g] \in {"rev_mark", "rev_insert"} =>
                                pc'[g] = pc[g] /\ cmd'[g].row = cmd[g].row
    BY <1>17 DEF CorrectionFails, Goto
  <2> QED
    BY <2>1, <2>2, RowsSame
<1>18. ASSUME NEW h \in Handlers, NEW x \in Text, ReceivePaid(h, x) PROVE OnceInv'
  <2>1. ledger' = ledger
    BY <1>18 DEF ReceivePaid
  <2>2. \A g \in Handlers : /\ pc'[g] \in {"rev_mark", "rev_insert"} =>
                                pc'[g] = pc[g] /\ cmd'[g].row = cmd[g].row
    BY <1>18 DEF ReceivePaid, Goto
  <2> QED
    BY <2>1, <2>2, RowsSame
<1>19. ASSUME NEW h \in Handlers, NEW d \in Drafts, ReversePayment(h, d) PROVE OnceInv'
  <2>1. ledger' = ledger
    BY <1>19 DEF ReversePayment
  <2>2. \A g \in Handlers : /\ pc'[g] \in {"rev_mark", "rev_insert"} =>
                                pc'[g] = pc[g] /\ cmd'[g].row = cmd[g].row
    BY <1>19 DEF ReversePayment, Goto
  <2> QED
    BY <2>1, <2>2, RowsSame
<1>20. ASSUME NEW h \in Handlers, NEW d \in Drafts, NEW a \in Amounts, AdjustPayment(h, d, a) PROVE OnceInv'
  <2>1. ledger' = ledger
    BY <1>20 DEF AdjustPayment
  <2>2. \A g \in Handlers : /\ pc'[g] \in {"rev_mark", "rev_insert"} =>
                                pc'[g] = pc[g] /\ cmd'[g].row = cmd[g].row
    BY <1>20 DEF AdjustPayment, Goto
  <2> QED
    BY <2>1, <2>2, RowsSame
<1>21. ASSUME NEW d \in Drafts, CreateEscortDraft(d) PROVE OnceInv'
  <2>1. ledger' = ledger
    BY <1>21 DEF CreateEscortDraft
  <2>2. \A g \in Handlers : /\ pc'[g] \in {"rev_mark", "rev_insert"} =>
                                pc'[g] = pc[g] /\ cmd'[g].row = cmd[g].row
    BY <1>21 DEF CreateEscortDraft
  <2> QED
    BY <2>1, <2>2, RowsSame
<1>22. ASSUME NEW d \in Drafts, CreateAdvanceDraft(d) PROVE OnceInv'
  <2>1. ledger' = ledger
    BY <1>22 DEF CreateAdvanceDraft
  <2>2. \A g \in Handlers : /\ pc'[g] \in {"rev_mark", "rev_insert"} =>
                                pc'[g] = pc[g] /\ cmd'[g].row = cmd[g].row
    BY <1>22 DEF CreateAdvanceDraft
  <2> QED
    BY <2>1, <2>2, RowsSame
<1>23. ASSUME NEW d \in Drafts, ExpireStaleDraft(d) PROVE OnceInv'
  <2>1. ledger' = ledger
    BY <1>23 DEF ExpireStaleDraft
  <2>2. \A g \in Handlers : /\ pc'[g] \in {"rev_mark", "rev_insert"} =>
                                pc'[g] = pc[g] /\ cmd'[g].row = cmd[g].row
    BY <1>23 DEF ExpireStaleDraft
  <2> QED
    BY <2>1, <2>2, RowsSame
<1>24. ASSUME NEW d \in Drafts, DeleteStaleDraft(d) PROVE OnceInv'
  <2>1. ledger' = ledger
    BY <1>24 DEF DeleteStaleDraft
  <2>2. \A g \in Handlers : /\ pc'[g] \in {"rev_mark", "rev_insert"} =>
                                pc'[g] = pc[g] /\ cmd'[g].row = cmd[g].row
    BY <1>24 DEF DeleteStaleDraft
  <2> QED
    BY <2>1, <2>2, RowsSame
<1>25. CASE DedupExpires
  <2>1. ledger' = ledger
    BY <1>25 DEF DedupExpires
  <2>2. \A g \in Handlers : /\ pc'[g] \in {"rev_mark", "rev_insert"} =>
                                pc'[g] = pc[g] /\ cmd'[g].row = cmd[g].row
    BY <1>25 DEF DedupExpires
  <2> QED
    BY <2>1, <2>2, RowsSame
<1>26. CASE Restart
  <2>1. ledger' = ledger
    BY <1>26 DEF Restart
  <2>2. \A g \in Handlers : /\ pc'[g] \in {"rev_mark", "rev_insert"} =>
                                pc'[g] = pc[g] /\ cmd'[g].row = cmd[g].row
    BY <1>26 DEF Restart
  <2> QED
    BY <2>1, <2>2, RowsSame
<1>27. CASE UNCHANGED vars
  <2>1. ledger' = ledger
    BY <1>27 DEF vars
  <2>2. \A g \in Handlers : /\ pc'[g] \in {"rev_mark", "rev_insert"} =>
                                pc'[g] = pc[g] /\ cmd'[g].row = cmd[g].row
    BY <1>27 DEF vars
  <2> QED
    BY <2>1, <2>2, RowsSame
<1> QED
  BY <1>1, <1>2, <1>3, <1>4, <1>5, <1>6, <1>7, <1>8, <1>9, <1>10, <1>11, <1>12, <1>13, <1>14, <1>15, <1>16, <1>17, <1>18, <1>19, <1>20, <1>21, <1>22, <1>23, <1>24, <1>25, <1>26, <1>27
  DEF Next, Step, HandlerStep

\* Every step keeps the invariant.
LEMMA BooksStep ==
  ASSUME BooksInv, [Next]_vars
  PROVE  BooksInv'
<1>1. LedgerInv' /\ TypeOK' /\ TypeOK
  BY InvStep DEF BooksInv, LedgerInv
<1>2. StatusMoves /\ ProgressOrigin /\ EmployeeKept
  BY StatusStep, ProgressStep, EmployeeStep DEF BooksInv
<1>3. ProgressInv'
  <2> SUFFICES ASSUME NEW g \in Handlers
               PROVE  /\ pc'[g] \in Finishing => drafts'[cmd'[g].draft].status # "none"
                      /\ pc'[g] \in ReversePCs => drafts'[cmd'[g].draft].status \in Settled
    BY DEF ProgressInv
  <2>1. cmd'[g].draft \in Drafts
    BY <1>1 DEF TypeOK, Command
  <2>2. pc'[g] \in Finishing => drafts[cmd'[g].draft].status # "none"
    BY <1>2 DEF ProgressOrigin, ProgressInv, BooksInv
  <2>3. pc'[g] \in ReversePCs => drafts[cmd'[g].draft].status \in Settled
    BY <1>2 DEF ProgressOrigin, ProgressInv, BooksInv
  <2> QED
    BY <1>2, <2>1, <2>2, <2>3 DEF StatusMoves, EmployeeKept
<1>4. CountInv' /\ AloneInv' /\ OnceInv'
  BY <1>1, <1>2, CountStep, AloneStep, OnceStep
<1> QED
  BY <1>1, <1>3, <1>4 DEF BooksInv

\* The invariant of the books holds of every reachable state.
THEOREM BooksInvariant == Spec => []BooksInv
<1>1. Init => BooksInv
  <2> SUFFICES ASSUME Init, LedgerInv PROVE BooksInv
    BY LedgerInit
  <2>1. DOMAIN ledger = {} /\ \A h \in Handlers : pc[h] = "idle"
    BY DEF Init
  <2>2. \A d \in Drafts : PaymentsOf(d) = {} /\ Pending(d) = {} /\ told[d] = 0
    BY <2>1 DEF PaymentsOf, Pending, Recorded, Init
  <2>3. CountInv
    <3> SUFFICES ASSUME NEW d \in Drafts
                 PROVE  Cardinality(PaymentsOf(d)) = told[d] + Cardinality(Pending(d))
      BY DEF CountInv
    <3>1. Cardinality(PaymentsOf(d)) = 0 /\ Cardinality(Pending(d)) = 0 /\ told[d] = 0
      BY <2>2, FS_EmptySet
    <3> QED
      BY <3>1
  <2> QED
    BY <2>1, <2>3 DEF BooksInv, ProgressInv, AloneInv, OnceInv, Finishing, ReversePCs
<1>2. BooksInv /\ [Next]_vars => BooksInv'
  BY BooksStep
<1> QED
  BY <1>1, <1>2, PTL DEF Spec

\* _cmd_paid and reverse_payment: what the accountant is told is what the ledger
\* holds, and no payment is taken back twice.
THEOREM BooksAgreeHolds == Spec => []BooksAgree
<1>1. BooksInv => BooksAgree
  <2> SUFFICES ASSUME BooksInv PROVE BooksAgree
    OBVIOUS
  <2>1. ASSUME ~env.failures, NEW d \in Drafts, drafts[d].status # "deleted"
        PROVE  /\ told[d] <= Cardinality(PaymentsOf(d))
               /\ (\A h \in Handlers : pc[h] = "idle") => told[d] = Cardinality(PaymentsOf(d))
    <3>1. Cardinality(PaymentsOf(d)) = told[d] + Cardinality(Pending(d)) /\ told[d] \in Nat
      BY <2>1 DEF BooksInv, CountInv, LedgerInv, TypeOK
    <3>2. Pending(d) \in SUBSET Handlers
      BY DEF Pending
    <3>3. Cardinality(Pending(d)) \in Nat
      BY <3>2, LedgerAssumption, FS_Subset, FS_CardinalityType
    <3>4. (\A h \in Handlers : pc[h] = "idle") => Pending(d) = {}
      BY DEF Pending, Recorded
    <3> QED
      BY <3>1, <3>3, <3>4, FS_EmptySet
  <2>2. ASSUME ~env.overlap, NEW i \in DOMAIN ledger PROVE Cardinality(CountersOf(i)) <= 1
    <3>1. \A j, k \in CountersOf(i) : j = k
      BY <2>2 DEF CountersOf, BooksInv, OnceInv
    <3>2. CountersOf(i) = {} \/ \E j : CountersOf(i) = {j}
      BY <3>1
    <3>3. Cardinality({}) = 0 /\ \A j : Cardinality({j}) = 1
      BY FS_EmptySet, FS_Singleton, Zenon
    <3>4. Cardinality(CountersOf(i)) = 0 \/ Cardinality(CountersOf(i)) = 1
      BY <3>2, <3>3, Zenon
    <3> QED
      BY <3>4
  <2> QED
    BY <2>1, <2>2 DEF BooksAgree
<1> QED
  BY <1>1, BooksInvariant, PTL
=============================================================================
