--------------------------- MODULE OutboundProofs ---------------------------
(***************************************************************************)
(* What the outbound queue guarantees for any rows, bridges and processes, *)
(* with crashes, lost answers, failing UPDATEs and exceptions of any kind. *)
(*                                                                         *)
(* The invariant couples the exclusive claim (a row held by a worker is    *)
(* 'sending' and held by no other) with the count of deliveries: a row is  *)
(* at most one delivery ahead of its attempts, and only while 'sending'.   *)
(***************************************************************************)
EXTENDS Outbound, TLAPS

\* When no answer is lost, a message that was delivered is recorded as sent, or is
\* about to be by the worker that sent it, or was left 'sending' by a crash.
OnceInv ==
  ~env.failures => \A r \in Rows :
    /\ delivered[r] \in {0, 1}
    /\ delivered[r] = 1 =>
         /\ stat[r] \in {"sent", "sending"}
         /\ \A p \in Procs : Holds(p, r) => row[p] = r /\ pc[p] = "mark_sent"

\* A probe is under way only while the breaker is half open.
ProbeInv ==
  ~env.raises => \A p \in Procs, b \in Bridges : probing[p][b] => circuit[p][b] = "half_open"

OutInv ==
  /\ TypeOK /\ RowAtHand /\ ClaimsExclusive /\ CountsInv /\ BreakerInv
  /\ OnceInv /\ ProbeInv /\ ProbeIsFree

-----------------------------------------------------------------------------
\* record_failure keeps a breaker's types, and opens it at the threshold.
LEMMA RecordFailureKeeps ==
  ASSUME NEW p \in Procs, NEW b \in Bridges, TypeOK, BreakerInv, RecordFailure(p, b)
  PROVE  /\ circuit' \in [Procs -> [Bridges -> {"closed", "open", "half_open"}]]
         /\ fails' \in [Procs -> [Bridges -> 0..Threshold]]
         /\ probing' \in [Procs -> [Bridges -> BOOLEAN]]
         /\ BreakerInv'
<1> DEFINE C == {"closed", "open", "half_open"}
<1>t. /\ circuit \in [Procs -> [Bridges -> C]] /\ fails \in [Procs -> [Bridges -> 0..Threshold]]
      /\ probing \in [Procs -> [Bridges -> BOOLEAN]]
  BY DEF TypeOK
<1>1. circuit' \in [Procs -> [Bridges -> C]]
  <2>1. CASE circuit' = circuit
    BY <1>t, <2>1
  <2>2. CASE circuit' = [circuit EXCEPT ![p][b] = "open"]
    BY <1>t, <2>2
  <2> QED
    BY <2>1, <2>2 DEF RecordFailure
<1>2. fails' \in [Procs -> [Bridges -> 0..Threshold]]
  <2>1. CASE fails' = fails
    BY <1>t, <2>1
  <2>2. CASE fails' = [fails EXCEPT ![p][b] = @ + 1] /\ circuit[p][b] = "closed"
    <3>1. fails[p][b] + 1 \in 0..Threshold
      BY <1>t, <2>2, LimitsAssumption DEF BreakerInv
    <3> QED
      BY <1>t, <2>2, <3>1
  <2> QED
    BY <2>1, <2>2 DEF RecordFailure
<1>3. probing' \in [Procs -> [Bridges -> BOOLEAN]]
  <2>1. CASE probing' = probing
    BY <1>t, <2>1
  <2>2. CASE probing' = [probing EXCEPT ![p][b] = FALSE]
    BY <1>t, <2>2
  <2> QED
    BY <2>1, <2>2 DEF RecordFailure
<1>4. BreakerInv'
  <2> SUFFICES ASSUME NEW q \in Procs, NEW d \in Bridges, circuit'[q][d] = "closed"
               PROVE  fails'[q][d] < Threshold
    BY DEF BreakerInv
  <2>1. CASE q = p /\ d = b
    BY <1>t, <2>1, LimitsAssumption DEF RecordFailure, JustOpens, BreakerInv
  <2>2. CASE ~(q = p /\ d = b)
    <3>1. circuit'[q][d] = circuit[q][d] /\ fails'[q][d] = fails[q][d]
      BY <1>t, <2>2 DEF RecordFailure
    <3> QED
      BY <3>1 DEF BreakerInv
  <2> QED
    BY <2>1, <2>2
<1> QED
  BY <1>1, <1>2, <1>3, <1>4

\* Every step keeps the position and the row of a worker together.
LEMMA RowAtHandStep ==
  ASSUME OutInv, [Next]_vars
  PROVE  RowAtHand'
<1>0. env' = env
  BY DEF Next, vars
<1> USE SetsAssumption, LimitsAssumption, <1>0
<1> USE DEF OutInv, RowAtHand, TypeOK, Status, PCs, table, worker, breaker
<1>1. ASSUME NEW p \in Procs, Claim(p) PROVE RowAtHand'
  BY <1>1 DEF Claim, Goto, Due
<1>2. ASSUME NEW p \in Procs, SweepEnds(p) PROVE RowAtHand'
  BY <1>2 DEF SweepEnds, Goto
<1>3. ASSUME NEW p \in Procs, StartSend(p) PROVE RowAtHand'
  BY <1>3 DEF StartSend, Goto, TakeRow, Allowed
<1>4. ASSUME NEW p \in Procs, SendRefused(p) PROVE RowAtHand'
  BY <1>4 DEF SendRefused, Goto, TakeRow, Allowed
<1>5. ASSUME NEW p \in Procs, PostStubbed(p) PROVE RowAtHand'
  BY <1>5 DEF PostStubbed, Goto, RecordSuccess, BridgeOf
<1>6. ASSUME NEW p \in Procs, PostSucceeds(p) PROVE RowAtHand'
  BY <1>6 DEF PostSucceeds, Goto, Posting, Deliver, RecordSuccess, BridgeOf, Counted
<1>7. ASSUME NEW p \in Procs, PostFails(p) PROVE RowAtHand'
  BY <1>7 DEF PostFails, Goto, Posting, Deliver, RecordFailure, JustOpens, BridgeOf, Counted
<1>8. ASSUME NEW p \in Procs, PostRaises(p) PROVE RowAtHand'
  BY <1>8 DEF PostRaises, Goto, Posting
<1>9. ASSUME NEW p \in Procs, AlertCircuitOpen(p) PROVE RowAtHand'
  BY <1>9 DEF AlertCircuitOpen, Goto, InsertRow, BridgeOf
<1>10. ASSUME NEW p \in Procs, MarkSent(p) PROVE RowAtHand'
  BY <1>10 DEF MarkSent, Goto, NextRow
<1>11. ASSUME NEW p \in Procs, MarkSentRaises(p) PROVE RowAtHand'
  BY <1>11 DEF MarkSentRaises, Goto
<1>12. ASSUME NEW p \in Procs, MarkFailed(p) PROVE RowAtHand'
  BY <1>12 DEF MarkFailed, Goto, NextRow
<1>13. ASSUME NEW p \in Procs, SweepAborts(p) PROVE RowAtHand'
  BY <1>13 DEF SweepAborts, Goto
<1>14. ASSUME NEW p \in Procs, Crash(p) PROVE RowAtHand'
  BY <1>14 DEF Crash, Goto
<1>15. ASSUME NEW r \in Rows, Enqueue(r) PROVE RowAtHand'
  BY <1>15 DEF Enqueue, InsertRow, Alerts
<1>16. ASSUME NEW r \in Rows, BackoffElapses(r) PROVE RowAtHand'
  BY <1>16 DEF BackoffElapses
<1>17. ASSUME NEW p \in Procs, NEW b \in Bridges, BreakerCools(p, b) PROVE RowAtHand'
  BY <1>17 DEF BreakerCools
<1>18. ASSUME NEW p \in Procs, NEW b \in Bridges, WindowSlides(p, b) PROVE RowAtHand'
  BY <1>18 DEF WindowSlides
<1>19. CASE UNCHANGED vars
  BY <1>19 DEF vars, state
<1> QED
  BY <1>1, <1>2, <1>3, <1>4, <1>5, <1>6, <1>7, <1>8, <1>9, <1>10, <1>11, <1>12, <1>13, <1>14, <1>15, <1>16, <1>17, <1>18, <1>19
  DEF Next, Step, SweepStep

\* Every step keeps the claims exclusive.
LEMMA ClaimsStep ==
  ASSUME OutInv, [Next]_vars
  PROVE  ClaimsExclusive'
<1>0. env' = env
  BY DEF Next, vars
<1> USE SetsAssumption, LimitsAssumption, <1>0
<1> USE DEF OutInv, RowAtHand, ClaimsExclusive, Holds, TypeOK, Status, PCs, table, worker, breaker
<1>1. ASSUME NEW p \in Procs, Claim(p) PROVE ClaimsExclusive'
  <2>1. PICK S \in SUBSET Due :
          /\ stat' = [r \in Rows |-> IF r \in S THEN "sending" ELSE stat[r]]
          /\ batch' = [batch EXCEPT ![p] = S]
    BY <1>1 DEF Claim
  <2>2. UNCHANGED row /\ S \subseteq Rows /\ \A r \in S : stat[r] # "sending"
    BY <1>1 DEF Claim, Due
  <2>3. ASSUME NEW r \in Rows, NEW q \in Procs, Holds(q, r)'
        PROVE  IF r \in S THEN q = p ELSE Holds(q, r)
    BY <2>1, <2>2, <2>3
  <2> QED
    BY <2>1, <2>2, <2>3
<1>2. ASSUME NEW p \in Procs, SweepEnds(p) PROVE ClaimsExclusive'
  BY <1>2 DEF SweepEnds, Goto
<1>3. ASSUME NEW p \in Procs, StartSend(p) PROVE ClaimsExclusive'
  BY <1>3 DEF StartSend, Goto, TakeRow, Allowed
<1>4. ASSUME NEW p \in Procs, SendRefused(p) PROVE ClaimsExclusive'
  BY <1>4 DEF SendRefused, Goto, TakeRow, Allowed
<1>5. ASSUME NEW p \in Procs, PostStubbed(p) PROVE ClaimsExclusive'
  BY <1>5 DEF PostStubbed, Goto, RecordSuccess, BridgeOf
<1>6. ASSUME NEW p \in Procs, PostSucceeds(p) PROVE ClaimsExclusive'
  BY <1>6 DEF PostSucceeds, Goto, Posting, Deliver, RecordSuccess, BridgeOf, Counted
<1>7. ASSUME NEW p \in Procs, PostFails(p) PROVE ClaimsExclusive'
  BY <1>7 DEF PostFails, Goto, Posting, Deliver, RecordFailure, JustOpens, BridgeOf, Counted
<1>8. ASSUME NEW p \in Procs, PostRaises(p) PROVE ClaimsExclusive'
  BY <1>8 DEF PostRaises, Goto, Posting
<1>9. ASSUME NEW p \in Procs, AlertCircuitOpen(p) PROVE ClaimsExclusive'
  BY <1>9 DEF AlertCircuitOpen, Goto, InsertRow, BridgeOf
<1>10. ASSUME NEW p \in Procs, MarkSent(p) PROVE ClaimsExclusive'
  BY <1>10 DEF MarkSent, Goto, NextRow
<1>11. ASSUME NEW p \in Procs, MarkSentRaises(p) PROVE ClaimsExclusive'
  BY <1>11 DEF MarkSentRaises, Goto
<1>12. ASSUME NEW p \in Procs, MarkFailed(p) PROVE ClaimsExclusive'
  BY <1>12 DEF MarkFailed, Goto, NextRow
<1>13. ASSUME NEW p \in Procs, SweepAborts(p) PROVE ClaimsExclusive'
  BY <1>13 DEF SweepAborts, Goto
<1>14. ASSUME NEW p \in Procs, Crash(p) PROVE ClaimsExclusive'
  BY <1>14 DEF Crash, Goto
<1>15. ASSUME NEW r \in Rows, Enqueue(r) PROVE ClaimsExclusive'
  BY <1>15 DEF Enqueue, InsertRow, Alerts
<1>16. ASSUME NEW r \in Rows, BackoffElapses(r) PROVE ClaimsExclusive'
  BY <1>16 DEF BackoffElapses
<1>17. ASSUME NEW p \in Procs, NEW b \in Bridges, BreakerCools(p, b) PROVE ClaimsExclusive'
  BY <1>17 DEF BreakerCools
<1>18. ASSUME NEW p \in Procs, NEW b \in Bridges, WindowSlides(p, b) PROVE ClaimsExclusive'
  BY <1>18 DEF WindowSlides
<1>19. CASE UNCHANGED vars
  BY <1>19 DEF vars, state
<1> QED
  BY <1>1, <1>2, <1>3, <1>4, <1>5, <1>6, <1>7, <1>8, <1>9, <1>10, <1>11, <1>12, <1>13, <1>14, <1>15, <1>16, <1>17, <1>18, <1>19
  DEF Next, Step, SweepStep

\* Every step leaves a closed breaker below its threshold.
LEMMA BreakerStep ==
  ASSUME OutInv, [Next]_vars
  PROVE  BreakerInv'
<1>0. env' = env
  BY DEF Next, vars
<1> USE SetsAssumption, LimitsAssumption, <1>0
<1> USE DEF OutInv, BreakerInv, RowAtHand, TypeOK, Status, PCs, table, worker, breaker
<1>1. ASSUME NEW p \in Procs, Claim(p) PROVE BreakerInv'
  BY <1>1 DEF Claim, Goto, Due
<1>2. ASSUME NEW p \in Procs, SweepEnds(p) PROVE BreakerInv'
  BY <1>2 DEF SweepEnds, Goto
<1>3. ASSUME NEW p \in Procs, StartSend(p) PROVE BreakerInv'
  BY <1>3 DEF StartSend, Goto, TakeRow, Allowed
<1>4. ASSUME NEW p \in Procs, SendRefused(p) PROVE BreakerInv'
  BY <1>4 DEF SendRefused, Goto, TakeRow, Allowed
<1>5. ASSUME NEW p \in Procs, PostStubbed(p) PROVE BreakerInv'
  BY <1>5 DEF PostStubbed, Goto, RecordSuccess, BridgeOf
<1>6. ASSUME NEW p \in Procs, PostSucceeds(p) PROVE BreakerInv'
  BY <1>6 DEF PostSucceeds, Goto, Posting, Deliver, RecordSuccess, BridgeOf, Counted
<1>7. ASSUME NEW p \in Procs, PostFails(p) PROVE BreakerInv'
  <2>1. BridgeOf(p) \in Bridges /\ RecordFailure(p, BridgeOf(p))
    BY <1>7 DEF PostFails, Posting, BridgeOf
  <2> QED
    BY <2>1, RecordFailureKeeps
<1>8. ASSUME NEW p \in Procs, PostRaises(p) PROVE BreakerInv'
  BY <1>8 DEF PostRaises, Goto, Posting
<1>9. ASSUME NEW p \in Procs, AlertCircuitOpen(p) PROVE BreakerInv'
  BY <1>9 DEF AlertCircuitOpen, Goto, InsertRow, BridgeOf
<1>10. ASSUME NEW p \in Procs, MarkSent(p) PROVE BreakerInv'
  BY <1>10 DEF MarkSent, Goto, NextRow
<1>11. ASSUME NEW p \in Procs, MarkSentRaises(p) PROVE BreakerInv'
  BY <1>11 DEF MarkSentRaises, Goto
<1>12. ASSUME NEW p \in Procs, MarkFailed(p) PROVE BreakerInv'
  BY <1>12 DEF MarkFailed, Goto, NextRow
<1>13. ASSUME NEW p \in Procs, SweepAborts(p) PROVE BreakerInv'
  BY <1>13 DEF SweepAborts, Goto
<1>14. ASSUME NEW p \in Procs, Crash(p) PROVE BreakerInv'
  BY <1>14 DEF Crash, Goto
<1>15. ASSUME NEW r \in Rows, Enqueue(r) PROVE BreakerInv'
  BY <1>15 DEF Enqueue, InsertRow, Alerts
<1>16. ASSUME NEW r \in Rows, BackoffElapses(r) PROVE BreakerInv'
  BY <1>16 DEF BackoffElapses
<1>17. ASSUME NEW p \in Procs, NEW b \in Bridges, BreakerCools(p, b) PROVE BreakerInv'
  BY <1>17 DEF BreakerCools
<1>18. ASSUME NEW p \in Procs, NEW b \in Bridges, WindowSlides(p, b) PROVE BreakerInv'
  BY <1>18 DEF WindowSlides
<1>19. CASE UNCHANGED vars
  BY <1>19 DEF vars, state
<1> QED
  BY <1>1, <1>2, <1>3, <1>4, <1>5, <1>6, <1>7, <1>8, <1>9, <1>10, <1>11, <1>12, <1>13, <1>14, <1>15, <1>16, <1>17, <1>18, <1>19
  DEF Next, Step, SweepStep

\* Every step keeps deliveries and attempts in line.
LEMMA CountsStep ==
  ASSUME OutInv, [Next]_vars
  PROVE  CountsInv'
<1>0. env' = env
  BY DEF Next, vars
<1> USE SetsAssumption, LimitsAssumption, <1>0
<1> USE DEF OutInv, CountsInv, RowAtHand, ClaimsExclusive, Holds, TypeOK, Status, PCs, table, worker, breaker
<1>1. ASSUME NEW p \in Procs, Claim(p) PROVE CountsInv'
  BY <1>1 DEF Claim, Goto, Due
<1>2. ASSUME NEW p \in Procs, SweepEnds(p) PROVE CountsInv'
  BY <1>2 DEF SweepEnds, Goto
<1>3. ASSUME NEW p \in Procs, StartSend(p) PROVE CountsInv'
  BY <1>3 DEF StartSend, Goto, TakeRow, Allowed
<1>4. ASSUME NEW p \in Procs, SendRefused(p) PROVE CountsInv'
  BY <1>4 DEF SendRefused, Goto, TakeRow, Allowed
<1>5. ASSUME NEW p \in Procs, PostStubbed(p) PROVE CountsInv'
  BY <1>5 DEF PostStubbed, Goto, RecordSuccess, BridgeOf
<1>6. ASSUME NEW p \in Procs, PostSucceeds(p) PROVE CountsInv'
  BY <1>6 DEF PostSucceeds, Goto, Posting, Deliver, RecordSuccess, BridgeOf, Counted
<1>7. ASSUME NEW p \in Procs, PostFails(p) PROVE CountsInv'
  BY <1>7 DEF PostFails, Goto, Posting, Deliver, RecordFailure, JustOpens, BridgeOf, Counted
<1>8. ASSUME NEW p \in Procs, PostRaises(p) PROVE CountsInv'
  BY <1>8 DEF PostRaises, Goto, Posting
<1>9. ASSUME NEW p \in Procs, AlertCircuitOpen(p) PROVE CountsInv'
  BY <1>9 DEF AlertCircuitOpen, Goto, InsertRow, BridgeOf
<1>10. ASSUME NEW p \in Procs, MarkSent(p) PROVE CountsInv'
  BY <1>10 DEF MarkSent, Goto, NextRow
<1>11. ASSUME NEW p \in Procs, MarkSentRaises(p) PROVE CountsInv'
  BY <1>11 DEF MarkSentRaises, Goto
<1>12. ASSUME NEW p \in Procs, MarkFailed(p) PROVE CountsInv'
  BY <1>12 DEF MarkFailed, Goto, NextRow
<1>13. ASSUME NEW p \in Procs, SweepAborts(p) PROVE CountsInv'
  BY <1>13 DEF SweepAborts, Goto
<1>14. ASSUME NEW p \in Procs, Crash(p) PROVE CountsInv'
  BY <1>14 DEF Crash, Goto
<1>15. ASSUME NEW r \in Rows, Enqueue(r) PROVE CountsInv'
  BY <1>15 DEF Enqueue, InsertRow, Alerts
<1>16. ASSUME NEW r \in Rows, BackoffElapses(r) PROVE CountsInv'
  BY <1>16 DEF BackoffElapses
<1>17. ASSUME NEW p \in Procs, NEW b \in Bridges, BreakerCools(p, b) PROVE CountsInv'
  BY <1>17 DEF BreakerCools
<1>18. ASSUME NEW p \in Procs, NEW b \in Bridges, WindowSlides(p, b) PROVE CountsInv'
  BY <1>18 DEF WindowSlides
<1>19. CASE UNCHANGED vars
  BY <1>19 DEF vars, state
<1> QED
  BY <1>1, <1>2, <1>3, <1>4, <1>5, <1>6, <1>7, <1>8, <1>9, <1>10, <1>11, <1>12, <1>13, <1>14, <1>15, <1>16, <1>17, <1>18, <1>19
  DEF Next, Step, SweepStep

\* Every step keeps the types.
LEMMA TypeStep ==
  ASSUME OutInv, [Next]_vars
  PROVE  TypeOK'
<1>0. env' = env
  BY DEF Next, vars
<1> USE SetsAssumption, LimitsAssumption, <1>0
<1> USE DEF OutInv, CountsInv, RowAtHand, ClaimsExclusive, Holds, BreakerInv, TypeOK, Status, PCs, table, worker, breaker
<1>1. ASSUME NEW p \in Procs, Claim(p) PROVE TypeOK'
  BY <1>1 DEF Claim, Goto, Due
<1>2. ASSUME NEW p \in Procs, SweepEnds(p) PROVE TypeOK'
  BY <1>2 DEF SweepEnds, Goto
<1>3. ASSUME NEW p \in Procs, StartSend(p) PROVE TypeOK'
  BY <1>3 DEF StartSend, Goto, TakeRow, Allowed
<1>4. ASSUME NEW p \in Procs, SendRefused(p) PROVE TypeOK'
  BY <1>4 DEF SendRefused, Goto, TakeRow, Allowed
<1>5. ASSUME NEW p \in Procs, PostStubbed(p) PROVE TypeOK'
  BY <1>5 DEF PostStubbed, Goto, RecordSuccess, BridgeOf
<1>6. ASSUME NEW p \in Procs, PostSucceeds(p) PROVE TypeOK'
  BY <1>6 DEF PostSucceeds, Goto, Posting, Deliver, RecordSuccess, BridgeOf, Counted
<1>7. ASSUME NEW p \in Procs, PostFails(p) PROVE TypeOK'
  <2>1. row[p] \in Rows /\ BridgeOf(p) \in Bridges
    BY <1>7 DEF PostFails, Posting, BridgeOf
  <2>6. delivered' \in [Rows -> 0..(MaxAttempts + 1)]
    <3>1. CASE UNCHANGED delivered
      BY <3>1
    <3>2. CASE Deliver(p)
      BY <2>1, <3>2 DEF Deliver, Counted
    <3> QED
      BY <1>7, <3>1, <3>2 DEF PostFails
  <2>3. /\ circuit' \in [Procs -> [Bridges -> {"closed", "open", "half_open"}]]
        /\ fails' \in [Procs -> [Bridges -> 0..Threshold]]
        /\ probing' \in [Procs -> [Bridges -> BOOLEAN]]
    BY <1>7, <2>1, RecordFailureKeeps DEF PostFails
  <2>5. pc' \in [Procs -> PCs]
    BY <1>7 DEF PostFails, Goto
  <2> QED
    BY <1>7, <2>3, <2>5, <2>6 DEF PostFails
<1>8. ASSUME NEW p \in Procs, PostRaises(p) PROVE TypeOK'
  BY <1>8 DEF PostRaises, Goto, Posting
<1>9. ASSUME NEW p \in Procs, AlertCircuitOpen(p) PROVE TypeOK'
  <2>1. AlertOf[BridgeOf(p)] \in Rows
    BY <1>9 DEF AlertCircuitOpen, BridgeOf
  <2>2. stat' \in [Rows -> Status]
    <3>1. CASE InsertRow(AlertOf[BridgeOf(p)])
      BY <2>1, <3>1 DEF InsertRow
    <3>2. CASE UNCHANGED stat
      BY <3>2
    <3> QED
      BY <1>9, <3>1, <3>2 DEF AlertCircuitOpen
  <2>3. pc' \in [Procs -> PCs]
    BY <1>9 DEF AlertCircuitOpen, Goto
  <2> QED
    BY <1>9, <2>2, <2>3 DEF AlertCircuitOpen
<1>10. ASSUME NEW p \in Procs, MarkSent(p) PROVE TypeOK'
  BY <1>10 DEF MarkSent, Goto, NextRow
<1>11. ASSUME NEW p \in Procs, MarkSentRaises(p) PROVE TypeOK'
  BY <1>11 DEF MarkSentRaises, Goto
<1>12. ASSUME NEW p \in Procs, MarkFailed(p) PROVE TypeOK'
  <2>1. row[p] \in Rows /\ att[row[p]] + 1 \in 0..MaxAttempts
    BY <1>12 DEF MarkFailed
  <2>2. att' \in [Rows -> 0..MaxAttempts]
    BY <1>12, <2>1 DEF MarkFailed
  <2>3. stat' \in [Rows -> Status] /\ due' \in [Rows -> BOOLEAN]
    BY <1>12, <2>1 DEF MarkFailed
  <2> QED
    BY <1>12, <2>2, <2>3 DEF MarkFailed, NextRow, Goto
<1>13. ASSUME NEW p \in Procs, SweepAborts(p) PROVE TypeOK'
  BY <1>13 DEF SweepAborts, Goto
<1>14. ASSUME NEW p \in Procs, Crash(p) PROVE TypeOK'
  BY <1>14 DEF Crash, Goto
<1>15. ASSUME NEW r \in Rows, Enqueue(r) PROVE TypeOK'
  BY <1>15 DEF Enqueue, InsertRow, Alerts
<1>16. ASSUME NEW r \in Rows, BackoffElapses(r) PROVE TypeOK'
  BY <1>16 DEF BackoffElapses
<1>17. ASSUME NEW p \in Procs, NEW b \in Bridges, BreakerCools(p, b) PROVE TypeOK'
  BY <1>17 DEF BreakerCools
<1>18. ASSUME NEW p \in Procs, NEW b \in Bridges, WindowSlides(p, b) PROVE TypeOK'
  BY <1>18 DEF WindowSlides
<1>19. CASE UNCHANGED vars
  BY <1>19 DEF vars, state
<1> QED
  BY <1>1, <1>2, <1>3, <1>4, <1>5, <1>6, <1>7, <1>8, <1>9, <1>10, <1>11, <1>12, <1>13, <1>14, <1>15, <1>16, <1>17, <1>18, <1>19
  DEF Next, Step, SweepStep

\* Without lost answers a delivered row is never held again.
LEMMA OnceStep ==
  ASSUME OutInv, [Next]_vars
  PROVE  OnceInv'
<1>0. env' = env
  BY DEF Next, vars
<1> USE SetsAssumption, LimitsAssumption, <1>0
<1> USE DEF OutInv, OnceInv, RowAtHand, ClaimsExclusive, Holds, TypeOK, Status, PCs, table, worker, breaker
<1>1. ASSUME NEW p \in Procs, Claim(p) PROVE OnceInv'
  <2>1. PICK S \in SUBSET Due :
          /\ stat' = [r \in Rows |-> IF r \in S THEN "sending" ELSE stat[r]]
          /\ batch' = [batch EXCEPT ![p] = S]
    BY <1>1 DEF Claim
  <2>2. UNCHANGED <<row, delivered>> /\ S \subseteq Rows
    BY <1>1 DEF Claim, Due
  <2>3. \A r \in S : stat[r] \notin {"sent", "sending"}
    BY <1>1 DEF Claim, Due
  <2>4. \A q \in Procs : pc[q] = "mark_sent" => pc'[q] = "mark_sent"
    BY <1>1 DEF Claim, Goto
  <2>5. ASSUME NEW r \in Rows, NEW q \in Procs, Holds(q, r)', r \notin S
        PROVE  Holds(q, r)
    BY <2>1, <2>2, <2>5
  <2> QED
    BY <2>1, <2>2, <2>3, <2>4, <2>5
<1>2. ASSUME NEW p \in Procs, SweepEnds(p) PROVE OnceInv'
  BY <1>2 DEF SweepEnds, Goto
<1>3. ASSUME NEW p \in Procs, StartSend(p) PROVE OnceInv'
  BY <1>3 DEF StartSend, Goto, TakeRow, Allowed
<1>4. ASSUME NEW p \in Procs, SendRefused(p) PROVE OnceInv'
  BY <1>4 DEF SendRefused, Goto, TakeRow, Allowed
<1>5. ASSUME NEW p \in Procs, PostStubbed(p) PROVE OnceInv'
  BY <1>5 DEF PostStubbed, Goto, RecordSuccess, BridgeOf
<1>6. ASSUME NEW p \in Procs, PostSucceeds(p) PROVE OnceInv'
  BY <1>6 DEF PostSucceeds, Goto, Posting, Deliver, RecordSuccess, BridgeOf, Counted
<1>7. ASSUME NEW p \in Procs, PostFails(p) PROVE OnceInv'
  BY <1>7 DEF PostFails, Goto, Posting, Deliver, RecordFailure, JustOpens, BridgeOf, Counted
<1>8. ASSUME NEW p \in Procs, PostRaises(p) PROVE OnceInv'
  BY <1>8 DEF PostRaises, Goto, Posting
<1>9. ASSUME NEW p \in Procs, AlertCircuitOpen(p) PROVE OnceInv'
  BY <1>9 DEF AlertCircuitOpen, Goto, InsertRow, BridgeOf
<1>10. ASSUME NEW p \in Procs, MarkSent(p) PROVE OnceInv'
  BY <1>10 DEF MarkSent, Goto, NextRow
<1>11. ASSUME NEW p \in Procs, MarkSentRaises(p) PROVE OnceInv'
  BY <1>11 DEF MarkSentRaises, Goto
<1>12. ASSUME NEW p \in Procs, MarkFailed(p) PROVE OnceInv'
  BY <1>12 DEF MarkFailed, Goto, NextRow
<1>13. ASSUME NEW p \in Procs, SweepAborts(p) PROVE OnceInv'
  BY <1>13 DEF SweepAborts, Goto
<1>14. ASSUME NEW p \in Procs, Crash(p) PROVE OnceInv'
  BY <1>14 DEF Crash, Goto
<1>15. ASSUME NEW r \in Rows, Enqueue(r) PROVE OnceInv'
  BY <1>15 DEF Enqueue, InsertRow, Alerts
<1>16. ASSUME NEW r \in Rows, BackoffElapses(r) PROVE OnceInv'
  BY <1>16 DEF BackoffElapses
<1>17. ASSUME NEW p \in Procs, NEW b \in Bridges, BreakerCools(p, b) PROVE OnceInv'
  BY <1>17 DEF BreakerCools
<1>18. ASSUME NEW p \in Procs, NEW b \in Bridges, WindowSlides(p, b) PROVE OnceInv'
  BY <1>18 DEF WindowSlides
<1>19. CASE UNCHANGED vars
  BY <1>19 DEF vars, state
<1> QED
  BY <1>1, <1>2, <1>3, <1>4, <1>5, <1>6, <1>7, <1>8, <1>9, <1>10, <1>11, <1>12, <1>13, <1>14, <1>15, <1>16, <1>17, <1>18, <1>19
  DEF Next, Step, SweepStep

\* Every outcome of a post but an unexpected exception clears the in-flight flag.
LEMMA ProbeStep ==
  ASSUME OutInv, [Next]_vars
  PROVE  ProbeIsFree'
<1>0. env' = env
  BY DEF Next, vars
<1> USE SetsAssumption, LimitsAssumption, <1>0
<1> USE DEF OutInv, ProbeIsFree, ProbeInv, RowAtHand, TypeOK, Status, PCs, table, worker, breaker
<1>1. ASSUME NEW p \in Procs, Claim(p) PROVE ProbeIsFree'
  BY <1>1 DEF Claim, Goto, Due
<1>2. ASSUME NEW p \in Procs, SweepEnds(p) PROVE ProbeIsFree'
  BY <1>2 DEF SweepEnds, Goto
<1>3. ASSUME NEW p \in Procs, StartSend(p) PROVE ProbeIsFree'
  BY <1>3 DEF StartSend, Goto, TakeRow, Allowed
<1>4. ASSUME NEW p \in Procs, SendRefused(p) PROVE ProbeIsFree'
  BY <1>4 DEF SendRefused, Goto, TakeRow, Allowed
<1>5. ASSUME NEW p \in Procs, PostStubbed(p) PROVE ProbeIsFree'
  BY <1>5 DEF PostStubbed, Goto, RecordSuccess, BridgeOf
<1>6. ASSUME NEW p \in Procs, PostSucceeds(p) PROVE ProbeIsFree'
  BY <1>6 DEF PostSucceeds, Goto, Posting, Deliver, RecordSuccess, BridgeOf, Counted
<1>7. ASSUME NEW p \in Procs, PostFails(p) PROVE ProbeIsFree'
  BY <1>7 DEF PostFails, Goto, Posting, Deliver, RecordFailure, JustOpens, BridgeOf, Counted
<1>8. ASSUME NEW p \in Procs, PostRaises(p) PROVE ProbeIsFree'
  BY <1>8 DEF PostRaises, Goto, Posting
<1>9. ASSUME NEW p \in Procs, AlertCircuitOpen(p) PROVE ProbeIsFree'
  BY <1>9 DEF AlertCircuitOpen, Goto, InsertRow, BridgeOf
<1>10. ASSUME NEW p \in Procs, MarkSent(p) PROVE ProbeIsFree'
  BY <1>10 DEF MarkSent, Goto, NextRow
<1>11. ASSUME NEW p \in Procs, MarkSentRaises(p) PROVE ProbeIsFree'
  BY <1>11 DEF MarkSentRaises, Goto
<1>12. ASSUME NEW p \in Procs, MarkFailed(p) PROVE ProbeIsFree'
  BY <1>12 DEF MarkFailed, Goto, NextRow
<1>13. ASSUME NEW p \in Procs, SweepAborts(p) PROVE ProbeIsFree'
  BY <1>13 DEF SweepAborts, Goto
<1>14. ASSUME NEW p \in Procs, Crash(p) PROVE ProbeIsFree'
  BY <1>14 DEF Crash, Goto
<1>15. ASSUME NEW r \in Rows, Enqueue(r) PROVE ProbeIsFree'
  BY <1>15 DEF Enqueue, InsertRow, Alerts
<1>16. ASSUME NEW r \in Rows, BackoffElapses(r) PROVE ProbeIsFree'
  BY <1>16 DEF BackoffElapses
<1>17. ASSUME NEW p \in Procs, NEW b \in Bridges, BreakerCools(p, b) PROVE ProbeIsFree'
  BY <1>17 DEF BreakerCools
<1>18. ASSUME NEW p \in Procs, NEW b \in Bridges, WindowSlides(p, b) PROVE ProbeIsFree'
  BY <1>18 DEF WindowSlides
<1>19. CASE UNCHANGED vars
  BY <1>19 DEF vars, state
<1> QED
  BY <1>1, <1>2, <1>3, <1>4, <1>5, <1>6, <1>7, <1>8, <1>9, <1>10, <1>11, <1>12, <1>13, <1>14, <1>15, <1>16, <1>17, <1>18, <1>19
  DEF Next, Step, SweepStep

\* A breaker leaves half_open only through a record call, which clears the flag.
LEMMA ProbeInvStep ==
  ASSUME OutInv, [Next]_vars
  PROVE  ProbeInv'
<1>0. env' = env
  BY DEF Next, vars
<1> USE SetsAssumption, LimitsAssumption, <1>0
<1> USE DEF OutInv, ProbeIsFree, ProbeInv, RowAtHand, TypeOK, Status, PCs, table, worker, breaker
<1>1. ASSUME NEW p \in Procs, Claim(p) PROVE ProbeInv'
  BY <1>1 DEF Claim, Goto, Due
<1>2. ASSUME NEW p \in Procs, SweepEnds(p) PROVE ProbeInv'
  BY <1>2 DEF SweepEnds, Goto
<1>3. ASSUME NEW p \in Procs, StartSend(p) PROVE ProbeInv'
  BY <1>3 DEF StartSend, Goto, TakeRow, Allowed
<1>4. ASSUME NEW p \in Procs, SendRefused(p) PROVE ProbeInv'
  BY <1>4 DEF SendRefused, Goto, TakeRow, Allowed
<1>5. ASSUME NEW p \in Procs, PostStubbed(p) PROVE ProbeInv'
  BY <1>5 DEF PostStubbed, Goto, RecordSuccess, BridgeOf
<1>6. ASSUME NEW p \in Procs, PostSucceeds(p) PROVE ProbeInv'
  BY <1>6 DEF PostSucceeds, Goto, Posting, Deliver, RecordSuccess, BridgeOf, Counted
<1>7. ASSUME NEW p \in Procs, PostFails(p) PROVE ProbeInv'
  <2>1. BridgeOf(p) \in Bridges /\ RecordFailure(p, BridgeOf(p))
    BY <1>7 DEF PostFails, Posting, BridgeOf
  <2> SUFFICES ASSUME ~env.raises, NEW q \in Procs, NEW b \in Bridges, probing'[q][b]
               PROVE  circuit'[q][b] = "half_open"
    OBVIOUS
  <2>2. probing[q][b] /\ circuit[q][b] = "half_open"
    <3>1. CASE probing' = probing
      BY <3>1
    <3>2. CASE probing' = [probing EXCEPT ![p][BridgeOf(p)] = FALSE]
      BY <2>1, <3>2
    <3> QED
      BY <2>1, <3>1, <3>2 DEF RecordFailure
  <2>3. CASE q = p /\ b = BridgeOf(p)
    BY <2>1, <2>2, <2>3 DEF RecordFailure
  <2>4. CASE ~(q = p /\ b = BridgeOf(p))
    BY <2>1, <2>2, <2>4 DEF RecordFailure
  <2> QED
    BY <2>3, <2>4
<1>8. ASSUME NEW p \in Procs, PostRaises(p) PROVE ProbeInv'
  BY <1>8 DEF PostRaises, Goto, Posting
<1>9. ASSUME NEW p \in Procs, AlertCircuitOpen(p) PROVE ProbeInv'
  BY <1>9 DEF AlertCircuitOpen, Goto, InsertRow, BridgeOf
<1>10. ASSUME NEW p \in Procs, MarkSent(p) PROVE ProbeInv'
  BY <1>10 DEF MarkSent, Goto, NextRow
<1>11. ASSUME NEW p \in Procs, MarkSentRaises(p) PROVE ProbeInv'
  BY <1>11 DEF MarkSentRaises, Goto
<1>12. ASSUME NEW p \in Procs, MarkFailed(p) PROVE ProbeInv'
  BY <1>12 DEF MarkFailed, Goto, NextRow
<1>13. ASSUME NEW p \in Procs, SweepAborts(p) PROVE ProbeInv'
  BY <1>13 DEF SweepAborts, Goto
<1>14. ASSUME NEW p \in Procs, Crash(p) PROVE ProbeInv'
  BY <1>14 DEF Crash, Goto
<1>15. ASSUME NEW r \in Rows, Enqueue(r) PROVE ProbeInv'
  BY <1>15 DEF Enqueue, InsertRow, Alerts
<1>16. ASSUME NEW r \in Rows, BackoffElapses(r) PROVE ProbeInv'
  BY <1>16 DEF BackoffElapses
<1>17. ASSUME NEW p \in Procs, NEW b \in Bridges, BreakerCools(p, b) PROVE ProbeInv'
  BY <1>17 DEF BreakerCools
<1>18. ASSUME NEW p \in Procs, NEW b \in Bridges, WindowSlides(p, b) PROVE ProbeInv'
  BY <1>18 DEF WindowSlides
<1>19. CASE UNCHANGED vars
  BY <1>19 DEF vars, state
<1> QED
  BY <1>1, <1>2, <1>3, <1>4, <1>5, <1>6, <1>7, <1>8, <1>9, <1>10, <1>11, <1>12, <1>13, <1>14, <1>15, <1>16, <1>17, <1>18, <1>19
  DEF Next, Step, SweepStep

\* The invariant holds of every reachable state.
THEOREM OutboundInvariant == Spec => []OutInv
<1>1. Init => OutInv
  BY SetsAssumption, LimitsAssumption
  DEF Init, OutInv, TypeOK, RowAtHand, ClaimsExclusive, Holds, CountsInv, BreakerInv, OnceInv, ProbeInv, ProbeIsFree, Status, PCs
<1>2. OutInv /\ [Next]_vars => OutInv'
  BY TypeStep, RowAtHandStep, ClaimsStep, CountsStep, BreakerStep, OnceStep, ProbeInvStep, ProbeStep DEF OutInv
<1> QED
  BY <1>1, <1>2, PTL DEF Spec

\* Every variable keeps its type: attempts never exceed max_attempts, a breaker
\* never counts more failures than its threshold.
THEOREM TypeCorrect == Spec => []TypeOK
<1>1. OutInv => TypeOK
  BY DEF OutInv
<1> QED
  BY <1>1, OutboundInvariant, PTL

\* FOR UPDATE SKIP LOCKED and the status together make a claim exclusive.
THEOREM ExclusiveClaims == Spec => []ClaimsExclusive
<1>1. OutInv => ClaimsExclusive
  BY DEF OutInv
<1> QED
  BY <1>1, OutboundInvariant, PTL

\* No message is delivered more often than max_attempts, whatever is lost.
THEOREM BoundedDeliveries == Spec => []DeliveriesBounded
<1>1. OutInv => DeliveriesBounded
  BY LimitsAssumption DEF OutInv, TypeOK, CountsInv, DeliveriesBounded, Status
<1> QED
  BY <1>1, OutboundInvariant, PTL

\* When no answer is lost a message is delivered at most once, crashes or not.
THEOREM OneDelivery == Spec => []DeliveredOnce
<1>1. OutInv => DeliveredOnce
  BY DEF OutInv, OnceInv, TypeOK, DeliveredOnce
<1> QED
  BY <1>1, OutboundInvariant, PTL

\* A half-open breaker has its probe free whenever no probe is under way.
THEOREM FreeProbe == Spec => []ProbeIsFree
<1>1. OutInv => ProbeIsFree
  BY DEF OutInv
<1> QED
  BY <1>1, OutboundInvariant, PTL

\* A step leaves rows that are sent or in the DLQ alone.
FinalStay ==
  \A r \in Rows : stat[r] \in {"sent", "dlq"} =>
    stat'[r] = stat[r] /\ delivered'[r] = delivered[r]

\* No worker holds a row that is sent or in the DLQ.
LEMMA FinalStep ==
  ASSUME OutInv, [Next]_vars
  PROVE  FinalStay
<1>0. env' = env
  BY DEF Next, vars
<1> USE SetsAssumption, LimitsAssumption, <1>0
<1> USE DEF OutInv, FinalStay, RowAtHand, ClaimsExclusive, Holds, TypeOK, Status, PCs, table, worker, breaker
<1>1. ASSUME NEW p \in Procs, Claim(p) PROVE FinalStay
  <2>1. PICK S \in SUBSET Due :
          /\ stat' = [r \in Rows |-> IF r \in S THEN "sending" ELSE stat[r]]
          /\ batch' = [batch EXCEPT ![p] = S]
    BY <1>1 DEF Claim
  <2>2. UNCHANGED delivered /\ S \subseteq Rows /\ \A r \in S : stat[r] \notin {"sent", "dlq"}
    BY <1>1 DEF Claim, Due
  <2> QED
    BY <2>1, <2>2
<1>2. ASSUME NEW p \in Procs, SweepEnds(p) PROVE FinalStay
  BY <1>2 DEF SweepEnds, Goto
<1>3. ASSUME NEW p \in Procs, StartSend(p) PROVE FinalStay
  BY <1>3 DEF StartSend, Goto, TakeRow, Allowed
<1>4. ASSUME NEW p \in Procs, SendRefused(p) PROVE FinalStay
  BY <1>4 DEF SendRefused, Goto, TakeRow, Allowed
<1>5. ASSUME NEW p \in Procs, PostStubbed(p) PROVE FinalStay
  BY <1>5 DEF PostStubbed, Goto, RecordSuccess, BridgeOf
<1>6. ASSUME NEW p \in Procs, PostSucceeds(p) PROVE FinalStay
  BY <1>6 DEF PostSucceeds, Goto, Posting, Deliver, RecordSuccess, BridgeOf, Counted
<1>7. ASSUME NEW p \in Procs, PostFails(p) PROVE FinalStay
  BY <1>7 DEF PostFails, Goto, Posting, Deliver, RecordFailure, JustOpens, BridgeOf, Counted
<1>8. ASSUME NEW p \in Procs, PostRaises(p) PROVE FinalStay
  BY <1>8 DEF PostRaises, Goto, Posting
<1>9. ASSUME NEW p \in Procs, AlertCircuitOpen(p) PROVE FinalStay
  BY <1>9 DEF AlertCircuitOpen, Goto, InsertRow, BridgeOf
<1>10. ASSUME NEW p \in Procs, MarkSent(p) PROVE FinalStay
  BY <1>10 DEF MarkSent, Goto, NextRow
<1>11. ASSUME NEW p \in Procs, MarkSentRaises(p) PROVE FinalStay
  BY <1>11 DEF MarkSentRaises, Goto
<1>12. ASSUME NEW p \in Procs, MarkFailed(p) PROVE FinalStay
  BY <1>12 DEF MarkFailed, Goto, NextRow
<1>13. ASSUME NEW p \in Procs, SweepAborts(p) PROVE FinalStay
  BY <1>13 DEF SweepAborts, Goto
<1>14. ASSUME NEW p \in Procs, Crash(p) PROVE FinalStay
  BY <1>14 DEF Crash, Goto
<1>15. ASSUME NEW r \in Rows, Enqueue(r) PROVE FinalStay
  BY <1>15 DEF Enqueue, InsertRow, Alerts
<1>16. ASSUME NEW r \in Rows, BackoffElapses(r) PROVE FinalStay
  BY <1>16 DEF BackoffElapses
<1>17. ASSUME NEW p \in Procs, NEW b \in Bridges, BreakerCools(p, b) PROVE FinalStay
  BY <1>17 DEF BreakerCools
<1>18. ASSUME NEW p \in Procs, NEW b \in Bridges, WindowSlides(p, b) PROVE FinalStay
  BY <1>18 DEF WindowSlides
<1>19. CASE UNCHANGED vars
  BY <1>19 DEF vars, state
<1> QED
  BY <1>1, <1>2, <1>3, <1>4, <1>5, <1>6, <1>7, <1>8, <1>9, <1>10, <1>11, <1>12, <1>13, <1>14, <1>15, <1>16, <1>17, <1>18, <1>19
  DEF Next, Step, SweepStep

\* Sent and dlq are final, and nothing is delivered for such a row again.
THEOREM FinalResults == Spec => ResultIsFinal
<1>1. OutInv /\ [Next]_vars =>
        [\A r \in Rows : stat[r] \in {"sent", "dlq"} =>
           stat'[r] = stat[r] /\ delivered'[r] = delivered[r]]_vars
  BY FinalStep DEF FinalStay
<1> QED
  BY <1>1, OutboundInvariant, PTL DEF Spec, ResultIsFinal

-----------------------------------------------------------------------------
(* The refinement of ClaimQueue.  The claim is exclusive, so the owner of a row *)
(* is its holder, and a step that keeps who holds what keeps the owners.        *)

\* A held row is owned by its holder, and a row that nobody holds is nobody's.
LEMMA OwnerIsHolder ==
  ASSUME ClaimsExclusive
  PROVE  \A r \in Rows :
           /\ \A p \in Procs : Holds(p, r) => QueueOwner[r] = p
           /\ (\A p \in Procs : ~Holds(p, r)) => QueueOwner[r] = NoRow
<1> TAKE r \in Rows
<1>1. ASSUME NEW p \in Procs, Holds(p, r) PROVE QueueOwner[r] = p
  <2>1. PICK q \in Procs : q = (CHOOSE x \in Procs : Holds(x, r)) /\ Holds(q, r)
    BY <1>1
  <2> QED
    BY <1>1, <2>1 DEF QueueOwner, ClaimsExclusive
<1>2. (\A p \in Procs : ~Holds(p, r)) => QueueOwner[r] = NoRow
  BY DEF QueueOwner
<1> QED
  BY <1>1, <1>2

\* The same after a step.
LEMMA NextOwnerIsHolder ==
  ASSUME ClaimsExclusive'
  PROVE  \A r \in Rows :
           /\ \A p \in Procs : Holds(p, r)' => QueueOwner'[r] = p
           /\ (\A p \in Procs : ~Holds(p, r)') => QueueOwner'[r] = NoRow
<1> TAKE r \in Rows
<1>1. ASSUME NEW p \in Procs, Holds(p, r)' PROVE QueueOwner'[r] = p
  <2>1. PICK q \in Procs : q = (CHOOSE x \in Procs : Holds(x, r)') /\ Holds(q, r)'
    BY <1>1
  <2> QED
    BY <1>1, <2>1 DEF QueueOwner, ClaimsExclusive
<1>2. (\A p \in Procs : ~Holds(p, r)') => QueueOwner'[r] = NoRow
  BY DEF QueueOwner
<1> QED
  BY <1>1, <1>2

\* The owners change in the rows r of S only, if elsewhere the same hold.
LEMMA OwnersFollow ==
  ASSUME ClaimsExclusive, ClaimsExclusive', NEW S \in SUBSET Rows,
         \A q \in Procs, r \in Rows \ S : Holds(q, r)' <=> Holds(q, r)
  PROVE  \A r \in Rows \ S : QueueOwner'[r] = QueueOwner[r]
<1> TAKE r \in Rows \ S
<1>1. CASE \E q \in Procs : Holds(q, r)
  BY <1>1, OwnerIsHolder, NextOwnerIsHolder
<1>2. CASE \A q \in Procs : ~Holds(q, r)
  BY <1>2, OwnerIsHolder, NextOwnerIsHolder
<1> QED
  BY <1>1, <1>2

\* A step that leaves the table and who holds what alone is no step of the queue.
LEMMA QueueStutters ==
  ASSUME ClaimsExclusive, ClaimsExclusive', UNCHANGED stat,
         \A q \in Procs, r \in Rows : Holds(q, r)' <=> Holds(q, r)
  PROVE  UNCHANGED Queue!queue
<1>1. \A r \in Rows : QueueOwner'[r] = QueueOwner[r]
  <2>1. \A r \in Rows \ {} : QueueOwner'[r] = QueueOwner[r]
    BY OwnersFollow, {} \in SUBSET Rows
  <2> QED
    BY <2>1
<1>2. QueueOwner' = QueueOwner
  BY <1>1 DEF QueueOwner
<1>3. QueueStatus' = QueueStatus
  BY DEF QueueStatus
<1> QED
  BY <1>2, <1>3 DEF Queue!queue

\* A row is inserted.
LEMMA InsertIsPut ==
  ASSUME OutInv, ClaimsExclusive', NEW r \in Rows, stat[r] = "absent", InsertRow(r), UNCHANGED <<batch, row>>
  PROVE  Queue!Put(r)
<1>1. \A q \in Procs, x \in Rows : Holds(q, x)' <=> Holds(q, x)
  BY DEF Holds
<1>2. QueueOwner' = QueueOwner
  <2>1. \A x \in Rows \ {} : QueueOwner'[x] = QueueOwner[x]
    BY <1>1, OwnersFollow, {} \in SUBSET Rows DEF OutInv
  <2> QED
    BY <2>1 DEF QueueOwner
<1>3. QueueStatus[r] = "new" /\ QueueStatus' = [QueueStatus EXCEPT ![r] = "waiting"]
  BY DEF OutInv, TypeOK, InsertRow, QueueStatus
<1> QED
  BY <1>2, <1>3 DEF Queue!Put

\* The row at hand is finished or has to wait.
LEMMA ResultIsLetGo ==
  ASSUME OutInv, ClaimsExclusive', NEW p \in Procs, NEW s \in {"failed", "sent", "dlq"},
         row[p] \in Rows, stat' = [stat EXCEPT ![row[p]] = s], NextRow(p)
  PROVE  \E i \in Rows, t \in {"waiting", "finished"} : Queue!LetGo(p, i, t)
<1>0. PICK i \in Rows : i = row[p]
  OBVIOUS
<1> USE <1>0
<1> DEFINE t == IF s = "failed" THEN "waiting" ELSE "finished"
<1>1. Holds(p, i) /\ stat[i] = "sending"
  BY DEF OutInv, ClaimsExclusive, Holds
<1>2. \A q \in Procs, x \in Rows \ {i} : Holds(q, x)' <=> Holds(q, x)
  BY SetsAssumption DEF OutInv, TypeOK, Holds, NextRow
<1>3. \A q \in Procs : ~Holds(q, i)'
  BY <1>1, SetsAssumption DEF OutInv, TypeOK, RowAtHand, ClaimsExclusive, Holds, NextRow
<1>4. QueueOwner' = [QueueOwner EXCEPT ![i] = NoRow]
  <2>1. QueueOwner'[i] = NoRow
    BY <1>3, NextOwnerIsHolder
  <2>2. \A x \in Rows \ {i} : QueueOwner'[x] = QueueOwner[x]
    <3>1. {i} \in SUBSET Rows
      OBVIOUS
    <3> QED
      BY <1>2, <3>1, OwnersFollow DEF OutInv
  <2> QED
    BY <2>1, <2>2 DEF QueueOwner
<1>5. QueueStatus[i] = "claimed" /\ QueueStatus' = [QueueStatus EXCEPT ![i] = t]
  BY <1>1 DEF OutInv, TypeOK, QueueStatus
<1>6. QueueOwner[i] = p
  BY <1>1, OwnerIsHolder DEF OutInv
<1>7. Queue!LetGo(p, i, t)
  BY <1>4, <1>5, <1>6 DEF Queue!LetGo
<1>8. t \in {"waiting", "finished"}
  OBVIOUS
<1> QED
  BY <1>7, <1>8

\* A worker that drops its batch loses its rows.
LEMMA DroppingIsLose ==
  ASSUME OutInv, ClaimsExclusive', NEW p \in Procs, UNCHANGED stat,
         row' = [row EXCEPT ![p] = NoRow], batch' = [batch EXCEPT ![p] = {}]
  PROVE  Queue!Lose(p)
<1>1. \A x \in Rows : /\ ~Holds(p, x)'
                       /\ \A q \in Procs \ {p} : Holds(q, x)' <=> Holds(q, x)
  BY SetsAssumption DEF OutInv, TypeOK, Holds
<1>2. ASSUME NEW x \in Rows
      PROVE  QueueOwner'[x] = IF QueueOwner[x] = p THEN NoRow ELSE QueueOwner[x]
  <2>1. CASE \E q \in Procs \ {p} : Holds(q, x)
    BY <1>1, <2>1, OwnerIsHolder, NextOwnerIsHolder DEF OutInv
  <2>2. CASE \A q \in Procs \ {p} : ~Holds(q, x)
    <3>1. QueueOwner'[x] = NoRow
      BY <1>1, <2>2, NextOwnerIsHolder
    <3>2. QueueOwner[x] = p \/ QueueOwner[x] = NoRow
      BY <2>2, OwnerIsHolder DEF OutInv
    <3> QED
      BY <3>1, <3>2
  <2> QED
    BY <2>1, <2>2
<1>3. QueueOwner' = [x \in Rows |-> IF QueueOwner[x] = p THEN NoRow ELSE QueueOwner[x]]
  BY <1>2 DEF QueueOwner
<1>4. QueueStatus' = QueueStatus
  BY DEF QueueStatus
<1> QED
  BY <1>3, <1>4 DEF Queue!Lose

\* The claiming transaction claims its rows for its process.
LEMMA ClaimIsClaim ==
  ASSUME OutInv, ClaimsExclusive', NEW p \in Procs, Claim(p)
  PROVE  \E S \in SUBSET Rows : Queue!ClaimSome(p, S)
<1>1. PICK S \in SUBSET Due :
        /\ stat' = [r \in Rows |-> IF r \in S THEN "sending" ELSE stat[r]]
        /\ batch' = [batch EXCEPT ![p] = S]
  BY DEF Claim
<1>2. S \in SUBSET Rows /\ \A r \in S : stat[r] \in {"pending", "failed"}
  BY DEF Due
<1>3. batch[p] = {} /\ UNCHANGED row
  BY DEF OutInv, RowAtHand, Claim
<1>4. \A q \in Procs, r \in Rows \ S : Holds(q, r)' <=> Holds(q, r)
  BY <1>1, <1>3 DEF OutInv, TypeOK, Holds
<1>5. \A r \in S : Holds(p, r)'
  BY <1>1 DEF OutInv, TypeOK, Holds
<1>6. \A r \in Rows : QueueOwner'[r] = IF r \in S THEN p ELSE QueueOwner[r]
  <2>1. \A r \in Rows \ S : QueueOwner'[r] = QueueOwner[r]
    BY <1>2, <1>4, OwnersFollow DEF OutInv
  <2>2. \A r \in S : QueueOwner'[r] = p
    BY <1>2, <1>5, NextOwnerIsHolder
  <2> QED
    BY <2>1, <2>2
<1>7. QueueOwner' = [r \in Rows |-> IF r \in S THEN p ELSE QueueOwner[r]]
  BY <1>6 DEF QueueOwner
<1>8. /\ \A r \in S : QueueStatus[r] = "waiting"
      /\ QueueStatus' = [r \in Rows |-> IF r \in S THEN "claimed" ELSE QueueStatus[r]]
  BY <1>1, <1>2 DEF QueueStatus
<1> QED
  BY <1>2, <1>7, <1>8 DEF Queue!ClaimSome

\* Every step of the outbound queue is a step of ClaimQueue or none.
LEMMA QueueStep ==
  ASSUME OutInv, OutInv', [Next]_vars
  PROVE  [Queue!Next]_(Queue!queue)
<1> DEFINE Kept == \A q \in Procs, r \in Rows : Holds(q, r)' <=> Holds(q, r)
<1>0. ClaimsExclusive /\ ClaimsExclusive'
  BY DEF OutInv
<1> USE <1>0
<1>1. UNCHANGED stat /\ Kept => UNCHANGED Queue!queue
  BY QueueStutters
<1>2. ASSUME NEW p \in Procs, SweepEnds(p) PROVE UNCHANGED Queue!queue
  <2>1. UNCHANGED stat /\ Kept
    BY <1>2, SetsAssumption DEF OutInv, RowAtHand, TypeOK, Holds, SweepEnds, table
  <2> QED
    BY <1>1, <2>1
<1>3. ASSUME NEW p \in Procs, StartSend(p) PROVE UNCHANGED Queue!queue
  <2>1. UNCHANGED stat /\ \E r \in Rows : TakeRow(p, r)
    BY <1>3 DEF StartSend, table
  <2>2. PICK r \in Rows : TakeRow(p, r)
    BY <2>1
  <2>3. row[p] = NoRow /\ r \in batch[p]
    BY <2>2 DEF OutInv, RowAtHand, TakeRow
  <2>4. Kept
    BY <2>2, <2>3, SetsAssumption DEF OutInv, TypeOK, Holds, TakeRow
  <2> QED
    BY <1>1, <2>1, <2>4
<1>4. ASSUME NEW p \in Procs, SendRefused(p) PROVE UNCHANGED Queue!queue
  <2>1. UNCHANGED stat /\ \E r \in Rows : TakeRow(p, r)
    BY <1>4 DEF SendRefused, table
  <2>2. PICK r \in Rows : TakeRow(p, r)
    BY <2>1
  <2>3. row[p] = NoRow /\ r \in batch[p]
    BY <2>2 DEF OutInv, RowAtHand, TakeRow
  <2>4. Kept
    BY <2>2, <2>3, SetsAssumption DEF OutInv, TypeOK, Holds, TakeRow
  <2> QED
    BY <1>1, <2>1, <2>4
<1>5. ASSUME NEW p \in Procs, PostStubbed(p) PROVE UNCHANGED Queue!queue
  <2>1. UNCHANGED stat /\ Kept
    BY <1>5, SetsAssumption DEF OutInv, RowAtHand, TypeOK, Holds, PostStubbed, table
  <2> QED
    BY <1>1, <2>1
<1>6. ASSUME NEW p \in Procs, PostSucceeds(p) PROVE UNCHANGED Queue!queue
  <2>1. UNCHANGED stat /\ Kept
    BY <1>6, SetsAssumption DEF OutInv, RowAtHand, TypeOK, Holds, PostSucceeds, table
  <2> QED
    BY <1>1, <2>1
<1>7. ASSUME NEW p \in Procs, PostFails(p) PROVE UNCHANGED Queue!queue
  <2>1. UNCHANGED stat /\ Kept
    BY <1>7, SetsAssumption DEF OutInv, RowAtHand, TypeOK, Holds, PostFails, table
  <2> QED
    BY <1>1, <2>1
<1>8. ASSUME NEW p \in Procs, PostRaises(p) PROVE UNCHANGED Queue!queue
  <2>1. UNCHANGED stat /\ Kept
    BY <1>8, SetsAssumption DEF OutInv, RowAtHand, TypeOK, Holds, PostRaises, table
  <2> QED
    BY <1>1, <2>1
<1>9. ASSUME NEW p \in Procs, MarkSentRaises(p) PROVE UNCHANGED Queue!queue
  <2>1. UNCHANGED stat /\ Kept
    BY <1>9, SetsAssumption DEF OutInv, RowAtHand, TypeOK, Holds, MarkSentRaises, table
  <2> QED
    BY <1>1, <2>1
<1>10. ASSUME NEW r \in Rows, BackoffElapses(r) PROVE UNCHANGED Queue!queue
  <2>1. UNCHANGED stat /\ Kept
    BY <1>10 DEF BackoffElapses, worker, Holds
  <2> QED
    BY <1>1, <2>1
<1>11. ASSUME NEW p \in Procs, NEW b \in Bridges, BreakerCools(p, b) \/ WindowSlides(p, b)
       PROVE  UNCHANGED Queue!queue
  <2>1. UNCHANGED stat /\ Kept
    BY <1>11 DEF BreakerCools, WindowSlides, table, worker, Holds
  <2> QED
    BY <1>1, <2>1
<1>12. CASE UNCHANGED vars
  <2>1. UNCHANGED stat /\ Kept
    BY <1>12 DEF vars, state, table, worker, Holds
  <2> QED
    BY <1>1, <2>1
<1>13. ASSUME NEW r \in Rows, Enqueue(r) PROVE Queue!Next
  <2>1. Queue!Put(r)
    BY <1>13, InsertIsPut DEF Enqueue, worker
  <2> QED
    BY <2>1 DEF Queue!Next
<1>14. ASSUME NEW p \in Procs, AlertCircuitOpen(p) PROVE [Queue!Next]_(Queue!queue)
  <2> DEFINE r == AlertOf[BridgeOf(p)]
  <2>1. r \in Rows /\ UNCHANGED <<batch, row>>
    BY <1>14, SetsAssumption DEF AlertCircuitOpen, BridgeOf, OutInv, TypeOK, RowAtHand
  <2>2. UNCHANGED stat \/ (stat[r] = "absent" /\ InsertRow(r))
    BY <1>14 DEF AlertCircuitOpen, InsertRow
  <2> HIDE DEF r
  <2>3. CASE UNCHANGED stat
    BY <1>1, <2>1, <2>3 DEF Holds
  <2>4. CASE stat[r] = "absent" /\ InsertRow(r)
    <3>1. Queue!Put(r)
      BY <2>1, <2>4, InsertIsPut
    <3> QED
      BY <2>1, <3>1 DEF Queue!Next
  <2> QED
    BY <2>2, <2>3, <2>4
<1>15. ASSUME NEW p \in Procs, MarkSent(p) PROVE Queue!Next
  <2>1. row[p] \in Rows /\ stat' = [stat EXCEPT ![row[p]] = "sent"] /\ NextRow(p)
    BY <1>15 DEF MarkSent, OutInv, TypeOK, RowAtHand
  <2> QED
    BY <2>1, ResultIsLetGo DEF Queue!Next
<1>16. ASSUME NEW p \in Procs, MarkFailed(p) PROVE Queue!Next
  <2>1. PICK s \in {"failed", "dlq"} :
          row[p] \in Rows /\ stat' = [stat EXCEPT ![row[p]] = s] /\ NextRow(p)
    BY <1>16 DEF MarkFailed, OutInv, TypeOK, RowAtHand
  <2> QED
    BY <2>1, ResultIsLetGo DEF Queue!Next
<1>17. ASSUME NEW p \in Procs, SweepAborts(p) \/ Crash(p) PROVE Queue!Next
  <2>1. Queue!Lose(p)
    BY <1>17, DroppingIsLose DEF SweepAborts, Crash, table
  <2> QED
    BY <2>1 DEF Queue!Next
<1>18. ASSUME NEW p \in Procs, Claim(p) PROVE Queue!Next
  <2>1. \E S \in SUBSET Rows : Queue!ClaimSome(p, S)
    BY <1>18, ClaimIsClaim
  <2> QED
    BY <2>1 DEF Queue!Next
<1> QED
  BY <1>2, <1>3, <1>4, <1>5, <1>6, <1>7, <1>8, <1>9, <1>10, <1>11, <1>12, <1>13, <1>14, <1>15, <1>16, <1>17, <1>18
  DEF Next, Step, SweepStep

\* sweep_once with any number of processes, rows, crashes and lost answers implements
\* the claim queue: nobody takes over a row that a worker has, only its owner lets go
\* of it, and what is sent or in the DLQ stays so.
THEOREM OutboundRefinesClaimQueue == Spec => ImplementsClaimQueue
<1>1. Init => Queue!Init
  BY SetsAssumption DEF Init, Queue!Init, QueueStatus, QueueOwner, Holds
<1>2. OutInv /\ OutInv' /\ [Next]_vars => [Queue!Next]_(Queue!queue)
  BY QueueStep
<1> QED
  BY <1>1, <1>2, OutboundInvariant, PTL DEF Spec, ImplementsClaimQueue, Queue!Spec
=============================================================================
