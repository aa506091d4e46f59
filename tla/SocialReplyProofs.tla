-------------------------- MODULE SocialReplyProofs --------------------------
(***************************************************************************)
(* What the social auto reply guarantees for any conversations, messages,  *)
(* daemons and retry requests.                                             *)
(*                                                                         *)
(* No property is inductive alone: a message is claimed three awaits       *)
(* before its reply is in the queue, and a row is taken two awaits before  *)
(* its result is written.  ClaimInv says what holds of the messages a      *)
(* daemon has in hand, HoldInv of the rows a sweep has in hand.            *)
(***************************************************************************)
EXTENDS SocialReply, FiniteSetTheorems, TLAPS

PlanPCs == {"plan", "ignore", "cooldown", "enqueue"}
HoldPCs == {"send", "mark_sent", "mark_blocked", "mark_failed"}
PCs == {"idle", "threads", "mark_queued", "sweep", "mark_events", "block_events", "rate"}
         \cup PlanPCs \cup HoldPCs

\* The type invariant.
TypeOK ==
  /\ inbox \in [Events -> {"absent", "pending", "planning", "queued", "sent", "blocked", "ignored", "needs_admin"}]
  /\ stored \in SUBSET Events /\ answered \in [Threads -> SUBSET Intents(Events)]
  /\ qstat \in [Events -> {"absent", "pending", "sending", "sent", "blocked", "failed", "dlq"}]
  /\ qatt \in [Events -> Nat] /\ qevs \in [Events -> SUBSET Events] /\ fresh \in [Events -> BOOLEAN]
  /\ qorder \in [Events -> SUBSET (Unlisted \X Unlisted)]
  /\ order \in [Sweepers -> SUBSET (Unlisted \X Unlisted)]
  /\ pc \in [Sweepers -> PCs] /\ todo \in [Sweepers -> SUBSET Threads] /\ claimed \in [Sweepers -> SUBSET Events]
  /\ row \in [Sweepers -> Events \cup {NoRow}] /\ attempt \in [Sweepers -> Nat]
  /\ \A s \in Sweepers : pc[s] \in HoldPCs \cup {"mark_events", "block_events"} => row[s] \in Events
  /\ cooling \in BOOLEAN /\ paused \in BOOLEAN
  /\ delivered \in [Events -> Nat] /\ retries \in Nat /\ env \in Environments

\* The messages in a reply or in the hands of a daemon are not pending any more, so
\* that nobody claims them ...
TakenInv ==
  /\ \A r \in Events : \A e \in qevs[r] : inbox[e] \notin {"absent", "pending"}
  /\ \A s \in Sweepers : \A e \in claimed[s] : inbox[e] \notin {"absent", "pending"}

\* ... no two daemons have one in hand, and until its reply is in the queue it is in
\* no other.  A row that a sweep has in hand exists.
ClaimInv ==
  /\ \A s, u \in Sweepers : s # u => claimed[s] \cap claimed[u] = {}
  /\ \A s \in Sweepers : pc[s] \in PlanPCs => \A r \in Events : claimed[s] \cap qevs[r] = {}
  /\ \A r \in Events : IF qstat[r] = "absent" THEN qevs[r] = {} ELSE r \in qevs[r]
  /\ \A s \in Sweepers : pc[s] \in HoldPCs \cup {"mark_events"} => qstat[row[s]] # "absent"

\* What a daemon plans a reply for: recruiting messages of one conversation.
PlanInv ==
  \A s \in Sweepers :
    /\ pc[s] \in {"plan", "cooldown", "enqueue"} => AllRecruiting(claimed[s])
    /\ \A e, f \in claimed[s] : ThreadOf[e] = ThreadOf[f]

\* Two replies have no message in common.
RepliesDisjoint == \A r, q \in Events : r # q => qevs[r] \cap qevs[q] = {}

\* Without lost answers a row is delivered once: who has it in hand is alone with it,
\* and a row that was delivered is not due again.
HoldInv ==
  ~env.failures =>
    /\ \A s \in Sweepers : pc[s] \in HoldPCs => row[s] \in Events /\ qstat[row[s]] = "sending"
    /\ \A s, u \in Sweepers : s # u /\ pc[s] \in HoldPCs /\ pc[u] \in HoldPCs => row[s] # row[u]
DeliveryInv ==
  ~env.failures =>
    /\ \A r \in Events : delivered[r] <= 1 /\ (delivered[r] # 0 => qstat[r] \in {"sending", "sent"})
    /\ \A s \in Sweepers : pc[s] \in {"send", "mark_blocked", "mark_failed"} => delivered[row[s]] = 0

\* Without crashes what counts as answered has a reply, or is about to.
AnsweredInv ==
  ~env.crashes =>
    \A t \in Threads : \A i \in answered[t] :
      \/ \E r \in Events : TargetOf[t] = Target(r) /\ i \in Intents(qevs[r])
      \/ \E d \in Daemons : /\ pc[d] \in {"cooldown", "enqueue"}
                            /\ \E e \in claimed[d] : ThreadOf[e] = t /\ IntentOf[e] = i

\* Only the daemons that run plan; a single one still finds no recent reply when it
\* puts its own into the queue.
RunningInv == \A d \in Daemons : pc[d] # "idle" => d \in env.running
CheckedInv ==
  Cardinality(env.running \cap Daemons) <= 1 => \A d \in Daemons : pc[d] = "enqueue" => ~RecentDupe(d)

\* The order that goes with the intents of a plan or a reply is one of its unlisted ones.
OrderInv ==
  /\ \A d \in Daemons :
       pc[d] \in {"cooldown", "enqueue"} => order[d] \in Orders(Intents(claimed[d]) \cap Unlisted)
  /\ \A r \in Events : qorder[r] \in Orders(Intents(qevs[r]) \cap Unlisted)

\* What the query of the cooldown ensures: the texts of the intents differ.
TextsDiffer ==
  Cardinality(env.running \cap Daemons) <= 1 =>
    \A r, q \in Events :
      r # q /\ fresh[r] /\ fresh[q] /\ Target(r) = Target(q) =>
        Intents(qevs[r]) # Intents(qevs[q]) \/ qorder[r] # qorder[q]

PlannerInv == TypeOK /\ TakenInv /\ ClaimInv /\ PlanInv /\ OnlyRecruitingAnswered
SocialInv ==
  /\ PlannerInv /\ RepliesDisjoint /\ HoldInv /\ DeliveryInv
  /\ AnsweredInv /\ RunningInv /\ CheckedInv /\ OrderInv /\ TextsDiffer
-----------------------------------------------------------------------------
\* Every step keeps the types.
LEMMA TypeStep ==
  ASSUME PlannerInv, [Next]_vars
  PROVE  TypeOK'
<1>0. env' = env
  BY DEF Next, vars
<1> USE ConstantsAssumption, <1>0 DEF inboxVars, queueVars, planVars, sendVars, flagVars, histVars, Sweepers, PlannerInv, TypeOK, PCs, PlanPCs, HoldPCs
<1>1. ASSUME NEW x \in Events, Ingest(x) PROVE TypeOK'
  BY <1>1 DEF Ingest
<1>2. ASSUME NEW x \in Events, Classify(x) PROVE TypeOK'
  BY <1>2 DEF Classify
<1>3. ASSUME NEW x \in Events, CooldownElapses(x) PROVE TypeOK'
  BY <1>3 DEF CooldownElapses
<1>4. ASSUME NEW d \in Daemons, NEW t \in Threads, ClaimThread(d, t) PROVE TypeOK'
  BY <1>4 DEF ClaimThread, Goto, SetStatus, Claimable
<1>5. ASSUME NEW d \in Daemons, ReadThreads(d) PROVE TypeOK'
  BY <1>5 DEF ReadThreads, Goto
<1>6. ASSUME NEW d \in Daemons, PlanReply(d) PROVE TypeOK'
  <2>1. Intents(claimed[d]) \subseteq Intents(Events)
    BY DEF Intents
  <2>2. answered' \in [Threads -> SUBSET Intents(Events)]
    BY <1>6, <2>1 DEF PlanReply
  <2>3. order' \in [Sweepers -> SUBSET (Unlisted \X Unlisted)]
    <3>1. PICK R \in Orders(Intents(claimed[d]) \cap Unlisted) : order' = [order EXCEPT ![d] = R]
      BY <1>6 DEF PlanReply
    <3>2. R \subseteq Unlisted \X Unlisted
      BY DEF Orders
    <3> QED
      BY <3>1, <3>2
  <2> QED
    BY <1>6, <2>2, <2>3 DEF PlanReply, Goto
<1>7. ASSUME NEW d \in Daemons, PlanNothing(d) PROVE TypeOK'
  BY <1>7 DEF PlanNothing, Goto
<1>8. ASSUME NEW d \in Daemons, PlanRaises(d) PROVE TypeOK'
  BY <1>8 DEF PlanRaises, Goto, Drop, SetStatus
<1>9. ASSUME NEW d \in Daemons, MarkIgnored(d) PROVE TypeOK'
  BY <1>9 DEF MarkIgnored, Goto, Drop, SetStatus
<1>10. ASSUME NEW d \in Daemons, CooldownCheck(d) PROVE TypeOK'
  BY <1>10 DEF CooldownCheck, Goto
<1>11. ASSUME NEW d \in Daemons, EnqueueReply(d) PROVE TypeOK'
  <2>1. PICK r \in claimed[d] :
          IF qstat[r] = "absent"
          THEN /\ qstat' = [qstat EXCEPT ![r] = "pending"]
               /\ qevs' = [qevs EXCEPT ![r] = claimed[d]]
               /\ qorder' = [qorder EXCEPT ![r] = order[d]]
               /\ fresh' = [fresh EXCEPT ![r] = TRUE]
               /\ Goto(d, "mark_queued") /\ UNCHANGED <<claimed, order>>
          ELSE Drop(d) /\ Goto(d, "threads") /\ UNCHANGED <<qstat, qevs, qorder, fresh>>
    BY <1>11 DEF EnqueueReply
  <2>2. r \in Events /\ pc[d] = "enqueue" /\ UNCHANGED <<inboxVars, qatt, todo, sendVars, flagVars, histVars>>
    BY <1>11 DEF EnqueueReply
  <2>3. CASE qstat[r] = "absent"
    <3>1. /\ qstat' \in [Events -> {"absent", "pending", "sending", "sent", "blocked", "failed", "dlq"}]
          /\ qevs' \in [Events -> SUBSET Events] /\ fresh' \in [Events -> BOOLEAN]
      BY <2>1, <2>2, <2>3
    <3>2. qorder' \in [Events -> SUBSET (Unlisted \X Unlisted)]
      <4>1. qorder' = [qorder EXCEPT ![r] = order[d]] /\ order[d] \in SUBSET (Unlisted \X Unlisted)
        BY <2>1, <2>3
      <4> HIDE DEF TypeOK
      <4>2. qorder \in [Events -> SUBSET (Unlisted \X Unlisted)]
        BY DEF TypeOK
      <4> QED
        BY <2>2, <4>1, <4>2
    <3>3. pc' \in [Sweepers -> PCs] /\ pc' = [pc EXCEPT ![d] = "mark_queued"]
      BY <2>1, <2>2, <2>3 DEF Goto
    <3> QED
      BY <2>1, <2>2, <2>3, <3>1, <3>2, <3>3
  <2>4. CASE qstat[r] # "absent"
    BY <2>1, <2>2, <2>4, SMTT(30) DEF Goto, Drop
  <2> QED
    BY <2>3, <2>4
<1>12. ASSUME NEW d \in Daemons, MarkQueued(d) PROVE TypeOK'
  BY <1>12 DEF MarkQueued, Goto, Drop, SetStatus
<1>13. ASSUME NEW d \in Daemons, CheckRate(d) PROVE TypeOK'
  BY <1>13 DEF CheckRate, Goto
<1>14. ASSUME NEW d \in Daemons, MarkRate(d) PROVE TypeOK'
  BY <1>14 DEF MarkRate, Goto
<1>15. ASSUME NEW s \in Sweepers, PickRow(s) PROVE TypeOK'
  BY <1>15 DEF PickRow, Goto, DueRows
<1>16. ASSUME NEW s \in Sweepers, NothingDue(s) PROVE TypeOK'
  BY <1>16 DEF NothingDue, Goto
<1>17. ASSUME NEW s \in Sweepers, SendSucceeds(s) PROVE TypeOK'
  BY <1>17 DEF SendSucceeds, Goto, Sent, Deliver
<1>18. ASSUME NEW s \in Sweepers, SendDenied(s) PROVE TypeOK'
  BY <1>18 DEF SendDenied, Goto, Sent
<1>19. ASSUME NEW s \in Sweepers, SendFails(s) PROVE TypeOK'
  BY <1>19 DEF SendFails, Goto, Sent, Deliver
<1>20. ASSUME NEW s \in Sweepers, MarkSent(s) PROVE TypeOK'
  BY <1>20 DEF MarkSent, Goto, Write
<1>21. ASSUME NEW s \in Sweepers, MarkEvents(s) PROVE TypeOK'
  BY <1>21 DEF MarkEvents, Goto, SetStatus, SweepDone
<1>22. ASSUME NEW s \in Sweepers, MarkRaises(s) PROVE TypeOK'
  BY <1>22 DEF MarkRaises, Goto
<1>23. ASSUME NEW s \in Sweepers, MarkBlocked(s) PROVE TypeOK'
  BY <1>23 DEF MarkBlocked, Goto, Write
<1>24. ASSUME NEW s \in Sweepers, BlockEvents(s) PROVE TypeOK'
  BY <1>24 DEF BlockEvents, Goto, SetStatus, SweepDone
<1>25. ASSUME NEW s \in Sweepers, MarkFailed(s) PROVE TypeOK'
  BY <1>25 DEF MarkFailed, Goto, Write, SweepDone
<1>26. ASSUME NEW s \in Sweepers, Abort(s) PROVE TypeOK'
  BY <1>26 DEF Abort, Goto, Drop, SweepDone
<1>27. ASSUME NEW a \in Apis, NEW r \in Events, RetryRow(a, r) PROVE TypeOK'
  BY <1>27 DEF RetryRow, Goto
<1>28. CASE SetPaused
  BY <1>28 DEF SetPaused
<1>29. CASE RateElapses
  BY <1>29 DEF RateElapses
<1>30. CASE UNCHANGED vars
  BY <1>30 DEF vars, state
<1> QED
  BY <1>1, <1>2, <1>3, <1>4, <1>5, <1>6, <1>7, <1>8, <1>9, <1>10, <1>11, <1>12, <1>13, <1>14, <1>15, <1>16, <1>17, <1>18, <1>19, <1>20, <1>21, <1>22, <1>23, <1>24, <1>25, <1>26, <1>27, <1>28, <1>29, <1>30
  DEF Next, Step, PlanStep, SweepStep

\* Every step leaves what is taken out of the reach of a claim.
LEMMA TakenStep ==
  ASSUME PlannerInv, TypeOK', [Next]_vars
  PROVE  TakenInv'
<1>0. env' = env
  BY DEF Next, vars
<1> USE ConstantsAssumption, <1>0 DEF inboxVars, queueVars, planVars, sendVars, flagVars, histVars, Sweepers, PlannerInv, TakenInv, ClaimInv, TypeOK, PCs, PlanPCs, HoldPCs
<1>1. ASSUME NEW x \in Events, Ingest(x) PROVE TakenInv'
  BY <1>1 DEF Ingest
<1>2. ASSUME NEW x \in Events, Classify(x) PROVE TakenInv'
  BY <1>2 DEF Classify
<1>3. ASSUME NEW x \in Events, CooldownElapses(x) PROVE TakenInv'
  BY <1>3 DEF CooldownElapses
<1>4. ASSUME NEW d \in Daemons, NEW t \in Threads, ClaimThread(d, t) PROVE TakenInv'
  BY <1>4 DEF ClaimThread, Goto, SetStatus, Claimable
<1>5. ASSUME NEW d \in Daemons, ReadThreads(d) PROVE TakenInv'
  BY <1>5 DEF ReadThreads, Goto
<1>6. ASSUME NEW d \in Daemons, PlanReply(d) PROVE TakenInv'
  BY <1>6 DEF PlanReply, Goto
<1>7. ASSUME NEW d \in Daemons, PlanNothing(d) PROVE TakenInv'
  BY <1>7 DEF PlanNothing, Goto
<1>8. ASSUME NEW d \in Daemons, PlanRaises(d) PROVE TakenInv'
  BY <1>8 DEF PlanRaises, Goto, Drop, SetStatus
<1>9. ASSUME NEW d \in Daemons, MarkIgnored(d) PROVE TakenInv'
  BY <1>9 DEF MarkIgnored, Goto, Drop, SetStatus
<1>10. ASSUME NEW d \in Daemons, CooldownCheck(d) PROVE TakenInv'
  BY <1>10 DEF CooldownCheck, Goto
<1>11. ASSUME NEW d \in Daemons, EnqueueReply(d) PROVE TakenInv'
  <2>1. PICK r \in claimed[d] :
          IF qstat[r] = "absent"
          THEN /\ qstat' = [qstat EXCEPT ![r] = "pending"]
               /\ qevs' = [qevs EXCEPT ![r] = claimed[d]]
               /\ qorder' = [qorder EXCEPT ![r] = order[d]]
               /\ fresh' = [fresh EXCEPT ![r] = TRUE]
               /\ Goto(d, "mark_queued") /\ UNCHANGED <<claimed, order>>
          ELSE Drop(d) /\ Goto(d, "threads") /\ UNCHANGED <<qstat, qevs, qorder, fresh>>
    BY <1>11 DEF EnqueueReply
  <2>2. r \in Events /\ pc[d] = "enqueue" /\ UNCHANGED <<inboxVars, qatt, todo, sendVars, flagVars, histVars>>
    BY <1>11 DEF EnqueueReply
  <2>3. CASE qstat[r] = "absent"
    BY <2>1, <2>2, <2>3, SMTT(30) DEF Goto
  <2>4. CASE qstat[r] # "absent"
    BY <2>1, <2>2, <2>4 DEF Goto, Drop
  <2> QED
    BY <2>3, <2>4
<1>12. ASSUME NEW d \in Daemons, MarkQueued(d) PROVE TakenInv'
  BY <1>12 DEF MarkQueued, Goto, Drop, SetStatus
<1>13. ASSUME NEW d \in Daemons, CheckRate(d) PROVE TakenInv'
  BY <1>13 DEF CheckRate, Goto
<1>14. ASSUME NEW d \in Daemons, MarkRate(d) PROVE TakenInv'
  BY <1>14 DEF MarkRate, Goto
<1>15. ASSUME NEW s \in Sweepers, PickRow(s) PROVE TakenInv'
  BY <1>15 DEF PickRow, Goto, DueRows
<1>16. ASSUME NEW s \in Sweepers, NothingDue(s) PROVE TakenInv'
  BY <1>16 DEF NothingDue, Goto
<1>17. ASSUME NEW s \in Sweepers, SendSucceeds(s) PROVE TakenInv'
  BY <1>17 DEF SendSucceeds, Goto, Sent, Deliver
<1>18. ASSUME NEW s \in Sweepers, SendDenied(s) PROVE TakenInv'
  BY <1>18 DEF SendDenied, Goto, Sent
<1>19. ASSUME NEW s \in Sweepers, SendFails(s) PROVE TakenInv'
  BY <1>19 DEF SendFails, Goto, Sent, Deliver
<1>20. ASSUME NEW s \in Sweepers, MarkSent(s) PROVE TakenInv'
  BY <1>20 DEF MarkSent, Goto, Write
<1>21. ASSUME NEW s \in Sweepers, MarkEvents(s) PROVE TakenInv'
  BY <1>21 DEF MarkEvents, Goto, SetStatus, SweepDone
<1>22. ASSUME NEW s \in Sweepers, MarkRaises(s) PROVE TakenInv'
  BY <1>22 DEF MarkRaises, Goto
<1>23. ASSUME NEW s \in Sweepers, MarkBlocked(s) PROVE TakenInv'
  BY <1>23 DEF MarkBlocked, Goto, Write
<1>24. ASSUME NEW s \in Sweepers, BlockEvents(s) PROVE TakenInv'
  BY <1>24 DEF BlockEvents, Goto, SetStatus, SweepDone
<1>25. ASSUME NEW s \in Sweepers, MarkFailed(s) PROVE TakenInv'
  BY <1>25 DEF MarkFailed, Goto, Write, SweepDone
<1>26. ASSUME NEW s \in Sweepers, Abort(s) PROVE TakenInv'
  BY <1>26 DEF Abort, Goto, Drop, SweepDone
<1>27. ASSUME NEW a \in Apis, NEW r \in Events, RetryRow(a, r) PROVE TakenInv'
  BY <1>27 DEF RetryRow, Goto
<1>28. CASE SetPaused
  BY <1>28 DEF SetPaused
<1>29. CASE RateElapses
  BY <1>29 DEF RateElapses
<1>30. CASE UNCHANGED vars
  BY <1>30 DEF vars, state
<1> QED
  BY <1>1, <1>2, <1>3, <1>4, <1>5, <1>6, <1>7, <1>8, <1>9, <1>10, <1>11, <1>12, <1>13, <1>14, <1>15, <1>16, <1>17, <1>18, <1>19, <1>20, <1>21, <1>22, <1>23, <1>24, <1>25, <1>26, <1>27, <1>28, <1>29, <1>30
  DEF Next, Step, PlanStep, SweepStep

\* Every step keeps the claims apart.
LEMMA ClaimStep ==
  ASSUME PlannerInv, TypeOK', [Next]_vars
  PROVE  ClaimInv'
<1>0. env' = env
  BY DEF Next, vars
<1> USE ConstantsAssumption, <1>0 DEF inboxVars, queueVars, planVars, sendVars, flagVars, histVars, Sweepers, PlannerInv, TakenInv, ClaimInv, TypeOK, PCs, PlanPCs, HoldPCs
<1>1. ASSUME NEW x \in Events, Ingest(x) PROVE ClaimInv'
  BY <1>1 DEF Ingest
<1>2. ASSUME NEW x \in Events, Classify(x) PROVE ClaimInv'
  BY <1>2 DEF Classify
<1>3. ASSUME NEW x \in Events, CooldownElapses(x) PROVE ClaimInv'
  BY <1>3 DEF CooldownElapses
<1>4. ASSUME NEW d \in Daemons, NEW t \in Threads, ClaimThread(d, t) PROVE ClaimInv'
  BY <1>4 DEF ClaimThread, Goto, SetStatus, Claimable
<1>5. ASSUME NEW d \in Daemons, ReadThreads(d) PROVE ClaimInv'
  BY <1>5 DEF ReadThreads, Goto
<1>6. ASSUME NEW d \in Daemons, PlanReply(d) PROVE ClaimInv'
  BY <1>6 DEF PlanReply, Goto
<1>7. ASSUME NEW d \in Daemons, PlanNothing(d) PROVE ClaimInv'
  BY <1>7 DEF PlanNothing, Goto
<1>8. ASSUME NEW d \in Daemons, PlanRaises(d) PROVE ClaimInv'
  BY <1>8 DEF PlanRaises, Goto, Drop, SetStatus
<1>9. ASSUME NEW d \in Daemons, MarkIgnored(d) PROVE ClaimInv'
  BY <1>9 DEF MarkIgnored, Goto, Drop, SetStatus
<1>10. ASSUME NEW d \in Daemons, CooldownCheck(d) PROVE ClaimInv'
  BY <1>10 DEF CooldownCheck, Goto
<1>11. ASSUME NEW d \in Daemons, EnqueueReply(d) PROVE ClaimInv'
  <2>1. PICK r \in claimed[d] :
          IF qstat[r] = "absent"
          THEN /\ qstat' = [qstat EXCEPT ![r] = "pending"]
               /\ qevs' = [qevs EXCEPT ![r] = claimed[d]]
               /\ qorder' = [qorder EXCEPT ![r] = order[d]]
               /\ fresh' = [fresh EXCEPT ![r] = TRUE]
               /\ Goto(d, "mark_queued") /\ UNCHANGED <<claimed, order>>
          ELSE Drop(d) /\ Goto(d, "threads") /\ UNCHANGED <<qstat, qevs, qorder, fresh>>
    BY <1>11 DEF EnqueueReply
  <2>2. r \in Events /\ pc[d] = "enqueue" /\ UNCHANGED <<inboxVars, qatt, todo, sendVars, flagVars, histVars>>
    BY <1>11 DEF EnqueueReply
  <2>3. CASE qstat[r] = "absent"
    <3>1. /\ qstat' = [qstat EXCEPT ![r] = "pending"] /\ qevs' = [qevs EXCEPT ![r] = claimed[d]]
          /\ pc' = [pc EXCEPT ![d] = "mark_queued"] /\ UNCHANGED claimed
      BY <2>1, <2>3 DEF Goto
    <3>2. ASSUME NEW s \in Sweepers, pc'[s] \in PlanPCs, NEW q \in Events
          PROVE  claimed'[s] \cap qevs'[q] = {}
      <4>1. s # d /\ pc[s] \in PlanPCs
        BY <3>1, <3>2
      <4> QED
        BY <3>1, <4>1
    <3>3. ASSUME NEW q \in Events PROVE IF qstat'[q] = "absent" THEN qevs'[q] = {} ELSE q \in qevs'[q]
      BY <3>1, <2>2
    <3>4. ASSUME NEW s \in Sweepers, pc'[s] \in HoldPCs \cup {"mark_events"} PROVE qstat'[row'[s]] # "absent"
      BY <2>2, <3>1, <3>4
    <3> QED
      BY <3>1, <3>2, <3>3, <3>4
  <2>4. CASE qstat[r] # "absent"
    BY <2>1, <2>2, <2>4 DEF Goto, Drop
  <2> QED
    BY <2>3, <2>4
<1>12. ASSUME NEW d \in Daemons, MarkQueued(d) PROVE ClaimInv'
  BY <1>12 DEF MarkQueued, Goto, Drop, SetStatus
<1>13. ASSUME NEW d \in Daemons, CheckRate(d) PROVE ClaimInv'
  BY <1>13 DEF CheckRate, Goto
<1>14. ASSUME NEW d \in Daemons, MarkRate(d) PROVE ClaimInv'
  BY <1>14 DEF MarkRate, Goto
<1>15. ASSUME NEW s \in Sweepers, PickRow(s) PROVE ClaimInv'
  BY <1>15 DEF PickRow, Goto, DueRows
<1>16. ASSUME NEW s \in Sweepers, NothingDue(s) PROVE ClaimInv'
  BY <1>16 DEF NothingDue, Goto
<1>17. ASSUME NEW s \in Sweepers, SendSucceeds(s) PROVE ClaimInv'
  BY <1>17 DEF SendSucceeds, Goto, Sent, Deliver
<1>18. ASSUME NEW s \in Sweepers, SendDenied(s) PROVE ClaimInv'
  BY <1>18 DEF SendDenied, Goto, Sent
<1>19. ASSUME NEW s \in Sweepers, SendFails(s) PROVE ClaimInv'
  BY <1>19 DEF SendFails, Goto, Sent, Deliver
<1>20. ASSUME NEW s \in Sweepers, MarkSent(s) PROVE ClaimInv'
  BY <1>20 DEF MarkSent, Goto, Write
<1>21. ASSUME NEW s \in Sweepers, MarkEvents(s) PROVE ClaimInv'
  BY <1>21 DEF MarkEvents, Goto, SetStatus, SweepDone
<1>22. ASSUME NEW s \in Sweepers, MarkRaises(s) PROVE ClaimInv'
  BY <1>22 DEF MarkRaises, Goto
<1>23. ASSUME NEW s \in Sweepers, MarkBlocked(s) PROVE ClaimInv'
  BY <1>23 DEF MarkBlocked, Goto, Write
<1>24. ASSUME NEW s \in Sweepers, BlockEvents(s) PROVE ClaimInv'
  BY <1>24 DEF BlockEvents, Goto, SetStatus, SweepDone
<1>25. ASSUME NEW s \in Sweepers, MarkFailed(s) PROVE ClaimInv'
  BY <1>25 DEF MarkFailed, Goto, Write, SweepDone
<1>26. ASSUME NEW s \in Sweepers, Abort(s) PROVE ClaimInv'
  BY <1>26 DEF Abort, Goto, Drop, SweepDone
<1>27. ASSUME NEW a \in Apis, NEW r \in Events, RetryRow(a, r) PROVE ClaimInv'
  BY <1>27 DEF RetryRow, Goto
<1>28. CASE SetPaused
  BY <1>28 DEF SetPaused
<1>29. CASE RateElapses
  BY <1>29 DEF RateElapses
<1>30. CASE UNCHANGED vars
  BY <1>30 DEF vars, state
<1> QED
  BY <1>1, <1>2, <1>3, <1>4, <1>5, <1>6, <1>7, <1>8, <1>9, <1>10, <1>11, <1>12, <1>13, <1>14, <1>15, <1>16, <1>17, <1>18, <1>19, <1>20, <1>21, <1>22, <1>23, <1>24, <1>25, <1>26, <1>27, <1>28, <1>29, <1>30
  DEF Next, Step, PlanStep, SweepStep

\* Every step keeps a plan to the recruiting messages of one conversation.
LEMMA PlanInvStep ==
  ASSUME PlannerInv, TypeOK', [Next]_vars
  PROVE  PlanInv'
<1>0. env' = env
  BY DEF Next, vars
<1> USE ConstantsAssumption, <1>0 DEF inboxVars, queueVars, planVars, sendVars, flagVars, histVars, Sweepers, PlannerInv, PlanInv, AllRecruiting, TypeOK, PCs, PlanPCs, HoldPCs
<1>1. ASSUME NEW x \in Events, Ingest(x) PROVE PlanInv'
  BY <1>1 DEF Ingest
<1>2. ASSUME NEW x \in Events, Classify(x) PROVE PlanInv'
  BY <1>2 DEF Classify
<1>3. ASSUME NEW x \in Events, CooldownElapses(x) PROVE PlanInv'
  BY <1>3 DEF CooldownElapses
<1>4. ASSUME NEW d \in Daemons, NEW t \in Threads, ClaimThread(d, t) PROVE PlanInv'
  BY <1>4 DEF ClaimThread, Goto, SetStatus, Claimable
<1>5. ASSUME NEW d \in Daemons, ReadThreads(d) PROVE PlanInv'
  BY <1>5 DEF ReadThreads, Goto
<1>6. ASSUME NEW d \in Daemons, PlanReply(d) PROVE PlanInv'
  BY <1>6 DEF PlanReply, Goto
<1>7. ASSUME NEW d \in Daemons, PlanNothing(d) PROVE PlanInv'
  BY <1>7 DEF PlanNothing, Goto
<1>8. ASSUME NEW d \in Daemons, PlanRaises(d) PROVE PlanInv'
  BY <1>8 DEF PlanRaises, Goto, Drop, SetStatus
<1>9. ASSUME NEW d \in Daemons, MarkIgnored(d) PROVE PlanInv'
  BY <1>9 DEF MarkIgnored, Goto, Drop, SetStatus
<1>10. ASSUME NEW d \in Daemons, CooldownCheck(d) PROVE PlanInv'
  BY <1>10 DEF CooldownCheck, Goto
<1>11. ASSUME NEW d \in Daemons, EnqueueReply(d) PROVE PlanInv'
  BY <1>11 DEF EnqueueReply, Goto, Drop
<1>12. ASSUME NEW d \in Daemons, MarkQueued(d) PROVE PlanInv'
  BY <1>12 DEF MarkQueued, Goto, Drop, SetStatus
<1>13. ASSUME NEW d \in Daemons, CheckRate(d) PROVE PlanInv'
  BY <1>13 DEF CheckRate, Goto
<1>14. ASSUME NEW d \in Daemons, MarkRate(d) PROVE PlanInv'
  BY <1>14 DEF MarkRate, Goto
<1>15. ASSUME NEW s \in Sweepers, PickRow(s) PROVE PlanInv'
  BY <1>15 DEF PickRow, Goto, DueRows
<1>16. ASSUME NEW s \in Sweepers, NothingDue(s) PROVE PlanInv'
  BY <1>16 DEF NothingDue, Goto
<1>17. ASSUME NEW s \in Sweepers, SendSucceeds(s) PROVE PlanInv'
  BY <1>17 DEF SendSucceeds, Goto, Sent, Deliver
<1>18. ASSUME NEW s \in Sweepers, SendDenied(s) PROVE PlanInv'
  BY <1>18 DEF SendDenied, Goto, Sent
<1>19. ASSUME NEW s \in Sweepers, SendFails(s) PROVE PlanInv'
  BY <1>19 DEF SendFails, Goto, Sent, Deliver
<1>20. ASSUME NEW s \in Sweepers, MarkSent(s) PROVE PlanInv'
  BY <1>20 DEF MarkSent, Goto, Write
<1>21. ASSUME NEW s \in Sweepers, MarkEvents(s) PROVE PlanInv'
  BY <1>21 DEF MarkEvents, Goto, SetStatus, SweepDone
<1>22. ASSUME NEW s \in Sweepers, MarkRaises(s) PROVE PlanInv'
  BY <1>22 DEF MarkRaises, Goto
<1>23. ASSUME NEW s \in Sweepers, MarkBlocked(s) PROVE PlanInv'
  BY <1>23 DEF MarkBlocked, Goto, Write
<1>24. ASSUME NEW s \in Sweepers, BlockEvents(s) PROVE PlanInv'
  BY <1>24 DEF BlockEvents, Goto, SetStatus, SweepDone
<1>25. ASSUME NEW s \in Sweepers, MarkFailed(s) PROVE PlanInv'
  BY <1>25 DEF MarkFailed, Goto, Write, SweepDone
<1>26. ASSUME NEW s \in Sweepers, Abort(s) PROVE PlanInv'
  BY <1>26 DEF Abort, Goto, Drop, SweepDone
<1>27. ASSUME NEW a \in Apis, NEW r \in Events, RetryRow(a, r) PROVE PlanInv'
  BY <1>27 DEF RetryRow, Goto
<1>28. CASE SetPaused
  BY <1>28 DEF SetPaused
<1>29. CASE RateElapses
  BY <1>29 DEF RateElapses
<1>30. CASE UNCHANGED vars
  BY <1>30 DEF vars, state
<1> QED
  BY <1>1, <1>2, <1>3, <1>4, <1>5, <1>6, <1>7, <1>8, <1>9, <1>10, <1>11, <1>12, <1>13, <1>14, <1>15, <1>16, <1>17, <1>18, <1>19, <1>20, <1>21, <1>22, <1>23, <1>24, <1>25, <1>26, <1>27, <1>28, <1>29, <1>30
  DEF Next, Step, PlanStep, SweepStep

\* No step puts another message into a reply.
LEMMA RecruitingStep ==
  ASSUME PlannerInv, TypeOK', [Next]_vars
  PROVE  OnlyRecruitingAnswered'
<1>0. env' = env
  BY DEF Next, vars
<1> USE ConstantsAssumption, <1>0 DEF inboxVars, queueVars, planVars, sendVars, flagVars, histVars, Sweepers, PlannerInv, PlanInv, AllRecruiting, OnlyRecruitingAnswered, TypeOK, PCs, PlanPCs, HoldPCs
<1>1. ASSUME NEW x \in Events, Ingest(x) PROVE OnlyRecruitingAnswered'
  BY <1>1 DEF Ingest
<1>2. ASSUME NEW x \in Events, Classify(x) PROVE OnlyRecruitingAnswered'
  BY <1>2 DEF Classify
<1>3. ASSUME NEW x \in Events, CooldownElapses(x) PROVE OnlyRecruitingAnswered'
  BY <1>3 DEF CooldownElapses
<1>4. ASSUME NEW d \in Daemons, NEW t \in Threads, ClaimThread(d, t) PROVE OnlyRecruitingAnswered'
  BY <1>4 DEF ClaimThread, Goto, SetStatus, Claimable
<1>5. ASSUME NEW d \in Daemons, ReadThreads(d) PROVE OnlyRecruitingAnswered'
  BY <1>5 DEF ReadThreads, Goto
<1>6. ASSUME NEW d \in Daemons, PlanReply(d) PROVE OnlyRecruitingAnswered'
  BY <1>6 DEF PlanReply, Goto
<1>7. ASSUME NEW d \in Daemons, PlanNothing(d) PROVE OnlyRecruitingAnswered'
  BY <1>7 DEF PlanNothing, Goto
<1>8. ASSUME NEW d \in Daemons, PlanRaises(d) PROVE OnlyRecruitingAnswered'
  BY <1>8 DEF PlanRaises, Goto, Drop, SetStatus
<1>9. ASSUME NEW d \in Daemons, MarkIgnored(d) PROVE OnlyRecruitingAnswered'
  BY <1>9 DEF MarkIgnored, Goto, Drop, SetStatus
<1>10. ASSUME NEW d \in Daemons, CooldownCheck(d) PROVE OnlyRecruitingAnswered'
  BY <1>10 DEF CooldownCheck, Goto
<1>11. ASSUME NEW d \in Daemons, EnqueueReply(d) PROVE OnlyRecruitingAnswered'
  <2>1. PICK r \in claimed[d] :
          IF qstat[r] = "absent"
          THEN /\ qstat' = [qstat EXCEPT ![r] = "pending"]
               /\ qevs' = [qevs EXCEPT ![r] = claimed[d]]
               /\ qorder' = [qorder EXCEPT ![r] = order[d]]
               /\ fresh' = [fresh EXCEPT ![r] = TRUE]
               /\ Goto(d, "mark_queued") /\ UNCHANGED <<claimed, order>>
          ELSE Drop(d) /\ Goto(d, "threads") /\ UNCHANGED <<qstat, qevs, qorder, fresh>>
    BY <1>11 DEF EnqueueReply
  <2>2. r \in Events /\ pc[d] = "enqueue" /\ UNCHANGED <<inboxVars, qatt, todo, sendVars, flagVars, histVars>>
    BY <1>11 DEF EnqueueReply
  <2>3. CASE qstat[r] = "absent"
    BY <2>1, <2>2, <2>3, SMTT(30) DEF Goto
  <2>4. CASE qstat[r] # "absent"
    BY <2>1, <2>2, <2>4 DEF Goto, Drop
  <2> QED
    BY <2>3, <2>4
<1>12. ASSUME NEW d \in Daemons, MarkQueued(d) PROVE OnlyRecruitingAnswered'
  BY <1>12 DEF MarkQueued, Goto, Drop, SetStatus
<1>13. ASSUME NEW d \in Daemons, CheckRate(d) PROVE OnlyRecruitingAnswered'
  BY <1>13 DEF CheckRate, Goto
<1>14. ASSUME NEW d \in Daemons, MarkRate(d) PROVE OnlyRecruitingAnswered'
  BY <1>14 DEF MarkRate, Goto
<1>15. ASSUME NEW s \in Sweepers, PickRow(s) PROVE OnlyRecruitingAnswered'
  BY <1>15 DEF PickRow, Goto, DueRows
<1>16. ASSUME NEW s \in Sweepers, NothingDue(s) PROVE OnlyRecruitingAnswered'
  BY <1>16 DEF NothingDue, Goto
<1>17. ASSUME NEW s \in Sweepers, SendSucceeds(s) PROVE OnlyRecruitingAnswered'
  BY <1>17 DEF SendSucceeds, Goto, Sent, Deliver
<1>18. ASSUME NEW s \in Sweepers, SendDenied(s) PROVE OnlyRecruitingAnswered'
  BY <1>18 DEF SendDenied, Goto, Sent
<1>19. ASSUME NEW s \in Sweepers, SendFails(s) PROVE OnlyRecruitingAnswered'
  BY <1>19 DEF SendFails, Goto, Sent, Deliver
<1>20. ASSUME NEW s \in Sweepers, MarkSent(s) PROVE OnlyRecruitingAnswered'
  BY <1>20 DEF MarkSent, Goto, Write
<1>21. ASSUME NEW s \in Sweepers, MarkEvents(s) PROVE OnlyRecruitingAnswered'
  BY <1>21 DEF MarkEvents, Goto, SetStatus, SweepDone
<1>22. ASSUME NEW s \in Sweepers, MarkRaises(s) PROVE OnlyRecruitingAnswered'
  BY <1>22 DEF MarkRaises, Goto
<1>23. ASSUME NEW s \in Sweepers, MarkBlocked(s) PROVE OnlyRecruitingAnswered'
  BY <1>23 DEF MarkBlocked, Goto, Write
<1>24. ASSUME NEW s \in Sweepers, BlockEvents(s) PROVE OnlyRecruitingAnswered'
  BY <1>24 DEF BlockEvents, Goto, SetStatus, SweepDone
<1>25. ASSUME NEW s \in Sweepers, MarkFailed(s) PROVE OnlyRecruitingAnswered'
  BY <1>25 DEF MarkFailed, Goto, Write, SweepDone
<1>26. ASSUME NEW s \in Sweepers, Abort(s) PROVE OnlyRecruitingAnswered'
  BY <1>26 DEF Abort, Goto, Drop, SweepDone
<1>27. ASSUME NEW a \in Apis, NEW r \in Events, RetryRow(a, r) PROVE OnlyRecruitingAnswered'
  BY <1>27 DEF RetryRow, Goto
<1>28. CASE SetPaused
  BY <1>28 DEF SetPaused
<1>29. CASE RateElapses
  BY <1>29 DEF RateElapses
<1>30. CASE UNCHANGED vars
  BY <1>30 DEF vars, state
<1> QED
  BY <1>1, <1>2, <1>3, <1>4, <1>5, <1>6, <1>7, <1>8, <1>9, <1>10, <1>11, <1>12, <1>13, <1>14, <1>15, <1>16, <1>17, <1>18, <1>19, <1>20, <1>21, <1>22, <1>23, <1>24, <1>25, <1>26, <1>27, <1>28, <1>29, <1>30
  DEF Next, Step, PlanStep, SweepStep

\* No step puts a message into a second reply.
LEMMA DisjointStep ==
  ASSUME PlannerInv, RepliesDisjoint, TypeOK', [Next]_vars
  PROVE  RepliesDisjoint'
<1>0. env' = env
  BY DEF Next, vars
<1> USE ConstantsAssumption, <1>0 DEF inboxVars, queueVars, planVars, sendVars, flagVars, histVars, Sweepers, PlannerInv, ClaimInv, RepliesDisjoint, TypeOK, PCs, PlanPCs, HoldPCs
<1>1. ASSUME NEW x \in Events, Ingest(x) PROVE RepliesDisjoint'
  BY <1>1 DEF Ingest
<1>2. ASSUME NEW x \in Events, Classify(x) PROVE RepliesDisjoint'
  BY <1>2 DEF Classify
<1>3. ASSUME NEW x \in Events, CooldownElapses(x) PROVE RepliesDisjoint'
  BY <1>3 DEF CooldownElapses
<1>4. ASSUME NEW d \in Daemons, NEW t \in Threads, ClaimThread(d, t) PROVE RepliesDisjoint'
  BY <1>4 DEF ClaimThread, Goto, SetStatus, Claimable
<1>5. ASSUME NEW d \in Daemons, ReadThreads(d) PROVE RepliesDisjoint'
  BY <1>5 DEF ReadThreads, Goto
<1>6. ASSUME NEW d \in Daemons, PlanReply(d) PROVE RepliesDisjoint'
  BY <1>6 DEF PlanReply, Goto
<1>7. ASSUME NEW d \in Daemons, PlanNothing(d) PROVE RepliesDisjoint'
  BY <1>7 DEF PlanNothing, Goto
<1>8. ASSUME NEW d \in Daemons, PlanRaises(d) PROVE RepliesDisjoint'
  BY <1>8 DEF PlanRaises, Goto, Drop, SetStatus
<1>9. ASSUME NEW d \in Daemons, MarkIgnored(d) PROVE RepliesDisjoint'
  BY <1>9 DEF MarkIgnored, Goto, Drop, SetStatus
<1>10. ASSUME NEW d \in Daemons, CooldownCheck(d) PROVE RepliesDisjoint'
  BY <1>10 DEF CooldownCheck, Goto
<1>11. ASSUME NEW d \in Daemons, EnqueueReply(d) PROVE RepliesDisjoint'
  <2>1. PICK r \in claimed[d] :
          IF qstat[r] = "absent"
          THEN /\ qstat' = [qstat EXCEPT ![r] = "pending"]
               /\ qevs' = [qevs EXCEPT ![r] = claimed[d]]
               /\ qorder' = [qorder EXCEPT ![r] = order[d]]
               /\ fresh' = [fresh EXCEPT ![r] = TRUE]
               /\ Goto(d, "mark_queued") /\ UNCHANGED <<claimed, order>>
          ELSE Drop(d) /\ Goto(d, "threads") /\ UNCHANGED <<qstat, qevs, qorder, fresh>>
    BY <1>11 DEF EnqueueReply
  <2>2. r \in Events /\ pc[d] = "enqueue" /\ UNCHANGED <<inboxVars, qatt, todo, sendVars, flagVars, histVars>>
    BY <1>11 DEF EnqueueReply
  <2>3. CASE qstat[r] = "absent"
    <3>1. \A q \in Events : claimed[d] \cap qevs[q] = {}
      BY <2>2
    <3>2. qevs'[r] = claimed[d] /\ \A q \in Events : q # r => qevs'[q] = qevs[q]
      BY <2>1, <2>2, <2>3
    <3>3. RepliesDisjoint
      OBVIOUS
    <3> QED
      BY ONLY <3>1, <3>2, <3>3 DEF RepliesDisjoint
  <2>4. CASE qstat[r] # "absent"
    BY <2>1, <2>2, <2>4 DEF Goto, Drop
  <2> QED
    BY <2>3, <2>4
<1>12. ASSUME NEW d \in Daemons, MarkQueued(d) PROVE RepliesDisjoint'
  BY <1>12 DEF MarkQueued, Goto, Drop, SetStatus
<1>13. ASSUME NEW d \in Daemons, CheckRate(d) PROVE RepliesDisjoint'
  BY <1>13 DEF CheckRate, Goto
<1>14. ASSUME NEW d \in Daemons, MarkRate(d) PROVE RepliesDisjoint'
  BY <1>14 DEF MarkRate, Goto
<1>15. ASSUME NEW s \in Sweepers, PickRow(s) PROVE RepliesDisjoint'
  BY <1>15 DEF PickRow, Goto, DueRows
<1>16. ASSUME NEW s \in Sweepers, NothingDue(s) PROVE RepliesDisjoint'
  BY <1>16 DEF NothingDue, Goto
<1>17. ASSUME NEW s \in Sweepers, SendSucceeds(s) PROVE RepliesDisjoint'
  BY <1>17 DEF SendSucceeds, Goto, Sent, Deliver
<1>18. ASSUME NEW s \in Sweepers, SendDenied(s) PROVE RepliesDisjoint'
  BY <1>18 DEF SendDenied, Goto, Sent
<1>19. ASSUME NEW s \in Sweepers, SendFails(s) PROVE RepliesDisjoint'
  BY <1>19 DEF SendFails, Goto, Sent, Deliver
<1>20. ASSUME NEW s \in Sweepers, MarkSent(s) PROVE RepliesDisjoint'
  BY <1>20 DEF MarkSent, Goto, Write
<1>21. ASSUME NEW s \in Sweepers, MarkEvents(s) PROVE RepliesDisjoint'
  BY <1>21 DEF MarkEvents, Goto, SetStatus, SweepDone
<1>22. ASSUME NEW s \in Sweepers, MarkRaises(s) PROVE RepliesDisjoint'
  BY <1>22 DEF MarkRaises, Goto
<1>23. ASSUME NEW s \in Sweepers, MarkBlocked(s) PROVE RepliesDisjoint'
  BY <1>23 DEF MarkBlocked, Goto, Write
<1>24. ASSUME NEW s \in Sweepers, BlockEvents(s) PROVE RepliesDisjoint'
  BY <1>24 DEF BlockEvents, Goto, SetStatus, SweepDone
<1>25. ASSUME NEW s \in Sweepers, MarkFailed(s) PROVE RepliesDisjoint'
  BY <1>25 DEF MarkFailed, Goto, Write, SweepDone
<1>26. ASSUME NEW s \in Sweepers, Abort(s) PROVE RepliesDisjoint'
  BY <1>26 DEF Abort, Goto, Drop, SweepDone
<1>27. ASSUME NEW a \in Apis, NEW r \in Events, RetryRow(a, r) PROVE RepliesDisjoint'
  BY <1>27 DEF RetryRow, Goto
<1>28. CASE SetPaused
  BY <1>28 DEF SetPaused
<1>29. CASE RateElapses
  BY <1>29 DEF RateElapses
<1>30. CASE UNCHANGED vars
  BY <1>30 DEF vars, state
<1> QED
  BY <1>1, <1>2, <1>3, <1>4, <1>5, <1>6, <1>7, <1>8, <1>9, <1>10, <1>11, <1>12, <1>13, <1>14, <1>15, <1>16, <1>17, <1>18, <1>19, <1>20, <1>21, <1>22, <1>23, <1>24, <1>25, <1>26, <1>27, <1>28, <1>29, <1>30
  DEF Next, Step, PlanStep, SweepStep

\* Every step keeps a row in one pair of hands.
LEMMA HoldStep ==
  ASSUME TypeOK, HoldInv, TypeOK', [Next]_vars
  PROVE  HoldInv'
<1>0. env' = env
  BY DEF Next, vars
<1> USE ConstantsAssumption, <1>0 DEF inboxVars, queueVars, planVars, sendVars, flagVars, histVars, Sweepers, HoldInv, TypeOK, PCs, PlanPCs, HoldPCs
<1>1. ASSUME NEW x \in Events, Ingest(x) PROVE HoldInv'
  BY <1>1 DEF Ingest
<1>2. ASSUME NEW x \in Events, Classify(x) PROVE HoldInv'
  BY <1>2 DEF Classify
<1>3. ASSUME NEW x \in Events, CooldownElapses(x) PROVE HoldInv'
  BY <1>3 DEF CooldownElapses
<1>4. ASSUME NEW d \in Daemons, NEW t \in Threads, ClaimThread(d, t) PROVE HoldInv'
  BY <1>4 DEF ClaimThread, Goto, SetStatus, Claimable
<1>5. ASSUME NEW d \in Daemons, ReadThreads(d) PROVE HoldInv'
  BY <1>5 DEF ReadThreads, Goto
<1>6. ASSUME NEW d \in Daemons, PlanReply(d) PROVE HoldInv'
  BY <1>6 DEF PlanReply, Goto
<1>7. ASSUME NEW d \in Daemons, PlanNothing(d) PROVE HoldInv'
  BY <1>7 DEF PlanNothing, Goto
<1>8. ASSUME NEW d \in Daemons, PlanRaises(d) PROVE HoldInv'
  BY <1>8 DEF PlanRaises, Goto, Drop, SetStatus
<1>9. ASSUME NEW d \in Daemons, MarkIgnored(d) PROVE HoldInv'
  BY <1>9 DEF MarkIgnored, Goto, Drop, SetStatus
<1>10. ASSUME NEW d \in Daemons, CooldownCheck(d) PROVE HoldInv'
  BY <1>10 DEF CooldownCheck, Goto
<1>11. ASSUME NEW d \in Daemons, EnqueueReply(d) PROVE HoldInv'
  <2>1. PICK r \in claimed[d] :
          IF qstat[r] = "absent"
          THEN /\ qstat' = [qstat EXCEPT ![r] = "pending"]
               /\ qevs' = [qevs EXCEPT ![r] = claimed[d]]
               /\ qorder' = [qorder EXCEPT ![r] = order[d]]
               /\ fresh' = [fresh EXCEPT ![r] = TRUE]
               /\ Goto(d, "mark_queued") /\ UNCHANGED <<claimed, order>>
          ELSE Drop(d) /\ Goto(d, "threads") /\ UNCHANGED <<qstat, qevs, qorder, fresh>>
    BY <1>11 DEF EnqueueReply
  <2>2. r \in Events /\ pc[d] = "enqueue" /\ UNCHANGED <<inboxVars, qatt, todo, sendVars, flagVars, histVars>>
    BY <1>11 DEF EnqueueReply
  <2>3. CASE qstat[r] = "absent"
    <3>1. /\ \A u \in Sweepers : pc'[u] \in HoldPCs => pc[u] \in HoldPCs
          /\ row' = row /\ \A q \in Events : qstat[q] = "sending" => qstat'[q] = "sending"
      BY <2>1, <2>2, <2>3 DEF Goto
    <3>2. HoldInv
      OBVIOUS
    <3> QED
      BY ONLY <1>0, <3>1, <3>2 DEF HoldInv
  <2>4. CASE qstat[r] # "absent"
    BY <2>1, <2>2, <2>4 DEF Goto, Drop
  <2> QED
    BY <2>3, <2>4
<1>12. ASSUME NEW d \in Daemons, MarkQueued(d) PROVE HoldInv'
  BY <1>12 DEF MarkQueued, Goto, Drop, SetStatus
<1>13. ASSUME NEW d \in Daemons, CheckRate(d) PROVE HoldInv'
  BY <1>13 DEF CheckRate, Goto
<1>14. ASSUME NEW d \in Daemons, MarkRate(d) PROVE HoldInv'
  BY <1>14 DEF MarkRate, Goto
<1>15. ASSUME NEW s \in Sweepers, PickRow(s) PROVE HoldInv'
  BY <1>15 DEF PickRow, Goto, DueRows
<1>16. ASSUME NEW s \in Sweepers, NothingDue(s) PROVE HoldInv'
  BY <1>16 DEF NothingDue, Goto
<1>17. ASSUME NEW s \in Sweepers, SendSucceeds(s) PROVE HoldInv'
  BY <1>17 DEF SendSucceeds, Goto, Sent, Deliver
<1>18. ASSUME NEW s \in Sweepers, SendDenied(s) PROVE HoldInv'
  BY <1>18 DEF SendDenied, Goto, Sent
<1>19. ASSUME NEW s \in Sweepers, SendFails(s) PROVE HoldInv'
  BY <1>19 DEF SendFails, Goto, Sent, Deliver
<1>20. ASSUME NEW s \in Sweepers, MarkSent(s) PROVE HoldInv'
  BY <1>20 DEF MarkSent, Goto, Write
<1>21. ASSUME NEW s \in Sweepers, MarkEvents(s) PROVE HoldInv'
  BY <1>21 DEF MarkEvents, Goto, SetStatus, SweepDone
<1>22. ASSUME NEW s \in Sweepers, MarkRaises(s) PROVE HoldInv'
  BY <1>22 DEF MarkRaises, Goto
<1>23. ASSUME NEW s \in Sweepers, MarkBlocked(s) PROVE HoldInv'
  BY <1>23 DEF MarkBlocked, Goto, Write
<1>24. ASSUME NEW s \in Sweepers, BlockEvents(s) PROVE HoldInv'
  BY <1>24 DEF BlockEvents, Goto, SetStatus, SweepDone
<1>25. ASSUME NEW s \in Sweepers, MarkFailed(s) PROVE HoldInv'
  BY <1>25 DEF MarkFailed, Goto, Write, SweepDone
<1>26. ASSUME NEW s \in Sweepers, Abort(s) PROVE HoldInv'
  BY <1>26 DEF Abort, Goto, Drop, SweepDone
<1>27. ASSUME NEW a \in Apis, NEW r \in Events, RetryRow(a, r) PROVE HoldInv'
  BY <1>27 DEF RetryRow, Goto
<1>28. CASE SetPaused
  BY <1>28 DEF SetPaused
<1>29. CASE RateElapses
  BY <1>29 DEF RateElapses
<1>30. CASE UNCHANGED vars
  BY <1>30 DEF vars, state
<1> QED
  BY <1>1, <1>2, <1>3, <1>4, <1>5, <1>6, <1>7, <1>8, <1>9, <1>10, <1>11, <1>12, <1>13, <1>14, <1>15, <1>16, <1>17, <1>18, <1>19, <1>20, <1>21, <1>22, <1>23, <1>24, <1>25, <1>26, <1>27, <1>28, <1>29, <1>30
  DEF Next, Step, PlanStep, SweepStep

\* No step delivers a row that was delivered.
LEMMA DeliveryStep ==
  ASSUME TypeOK, HoldInv, DeliveryInv, TypeOK', [Next]_vars
  PROVE  DeliveryInv'
<1>0. env' = env
  BY DEF Next, vars
<1> USE ConstantsAssumption, <1>0 DEF inboxVars, queueVars, planVars, sendVars, flagVars, histVars, Sweepers, HoldInv, DeliveryInv, TypeOK, PCs, PlanPCs, HoldPCs
<1>1. ASSUME NEW x \in Events, Ingest(x) PROVE DeliveryInv'
  BY <1>1 DEF Ingest
<1>2. ASSUME NEW x \in Events, Classify(x) PROVE DeliveryInv'
  BY <1>2 DEF Classify
<1>3. ASSUME NEW x \in Events, CooldownElapses(x) PROVE DeliveryInv'
  BY <1>3 DEF CooldownElapses
<1>4. ASSUME NEW d \in Daemons, NEW t \in Threads, ClaimThread(d, t) PROVE DeliveryInv'
  BY <1>4 DEF ClaimThread, Goto, SetStatus, Claimable
<1>5. ASSUME NEW d \in Daemons, ReadThreads(d) PROVE DeliveryInv'
  BY <1>5 DEF ReadThreads, Goto
<1>6. ASSUME NEW d \in Daemons, PlanReply(d) PROVE DeliveryInv'
  BY <1>6 DEF PlanReply, Goto
<1>7. ASSUME NEW d \in Daemons, PlanNothing(d) PROVE DeliveryInv'
  BY <1>7 DEF PlanNothing, Goto
<1>8. ASSUME NEW d \in Daemons, PlanRaises(d) PROVE DeliveryInv'
  BY <1>8 DEF PlanRaises, Goto, Drop, SetStatus
<1>9. ASSUME NEW d \in Daemons, MarkIgnored(d) PROVE DeliveryInv'
  BY <1>9 DEF MarkIgnored, Goto, Drop, SetStatus
<1>10. ASSUME NEW d \in Daemons, CooldownCheck(d) PROVE DeliveryInv'
  BY <1>10 DEF CooldownCheck, Goto
<1>11. ASSUME NEW d \in Daemons, EnqueueReply(d) PROVE DeliveryInv'
  BY <1>11, SMTT(30) DEF EnqueueReply, Goto, Drop
<1>12. ASSUME NEW d \in Daemons, MarkQueued(d) PROVE DeliveryInv'
  BY <1>12 DEF MarkQueued, Goto, Drop, SetStatus
<1>13. ASSUME NEW d \in Daemons, CheckRate(d) PROVE DeliveryInv'
  BY <1>13 DEF CheckRate, Goto
<1>14. ASSUME NEW d \in Daemons, MarkRate(d) PROVE DeliveryInv'
  BY <1>14 DEF MarkRate, Goto
<1>15. ASSUME NEW s \in Sweepers, PickRow(s) PROVE DeliveryInv'
  BY <1>15 DEF PickRow, Goto, DueRows
<1>16. ASSUME NEW s \in Sweepers, NothingDue(s) PROVE DeliveryInv'
  BY <1>16 DEF NothingDue, Goto
<1>17. ASSUME NEW s \in Sweepers, SendSucceeds(s) PROVE DeliveryInv'
  BY <1>17 DEF SendSucceeds, Goto, Sent, Deliver
<1>18. ASSUME NEW s \in Sweepers, SendDenied(s) PROVE DeliveryInv'
  BY <1>18 DEF SendDenied, Goto, Sent
<1>19. ASSUME NEW s \in Sweepers, SendFails(s) PROVE DeliveryInv'
  BY <1>19 DEF SendFails, Goto, Sent, Deliver
<1>20. ASSUME NEW s \in Sweepers, MarkSent(s) PROVE DeliveryInv'
  BY <1>20 DEF MarkSent, Goto, Write
<1>21. ASSUME NEW s \in Sweepers, MarkEvents(s) PROVE DeliveryInv'
  BY <1>21 DEF MarkEvents, Goto, SetStatus, SweepDone
<1>22. ASSUME NEW s \in Sweepers, MarkRaises(s) PROVE DeliveryInv'
  BY <1>22 DEF MarkRaises, Goto
<1>23. ASSUME NEW s \in Sweepers, MarkBlocked(s) PROVE DeliveryInv'
  BY <1>23 DEF MarkBlocked, Goto, Write
<1>24. ASSUME NEW s \in Sweepers, BlockEvents(s) PROVE DeliveryInv'
  BY <1>24 DEF BlockEvents, Goto, SetStatus, SweepDone
<1>25. ASSUME NEW s \in Sweepers, MarkFailed(s) PROVE DeliveryInv'
  BY <1>25 DEF MarkFailed, Goto, Write, SweepDone
<1>26. ASSUME NEW s \in Sweepers, Abort(s) PROVE DeliveryInv'
  BY <1>26 DEF Abort, Goto, Drop, SweepDone
<1>27. ASSUME NEW a \in Apis, NEW r \in Events, RetryRow(a, r) PROVE DeliveryInv'
  BY <1>27 DEF RetryRow, Goto
<1>28. CASE SetPaused
  BY <1>28 DEF SetPaused
<1>29. CASE RateElapses
  BY <1>29 DEF RateElapses
<1>30. CASE UNCHANGED vars
  BY <1>30 DEF vars, state
<1> QED
  BY <1>1, <1>2, <1>3, <1>4, <1>5, <1>6, <1>7, <1>8, <1>9, <1>10, <1>11, <1>12, <1>13, <1>14, <1>15, <1>16, <1>17, <1>18, <1>19, <1>20, <1>21, <1>22, <1>23, <1>24, <1>25, <1>26, <1>27, <1>28, <1>29, <1>30
  DEF Next, Step, PlanStep, SweepStep

\* Every step is that of a daemon that runs.
LEMMA RunningStep ==
  ASSUME TypeOK, RunningInv, TypeOK', [Next]_vars
  PROVE  RunningInv'
<1>0. env' = env
  BY DEF Next, vars
<1> USE ConstantsAssumption, <1>0 DEF inboxVars, queueVars, planVars, sendVars, flagVars, histVars, Sweepers, RunningInv, TypeOK, PCs, PlanPCs, HoldPCs
<1>1. ASSUME NEW x \in Events, Ingest(x) PROVE RunningInv'
  BY <1>1 DEF Ingest
<1>2. ASSUME NEW x \in Events, Classify(x) PROVE RunningInv'
  BY <1>2 DEF Classify
<1>3. ASSUME NEW x \in Events, CooldownElapses(x) PROVE RunningInv'
  BY <1>3 DEF CooldownElapses
<1>4. ASSUME NEW d \in Daemons, NEW t \in Threads, ClaimThread(d, t) PROVE RunningInv'
  BY <1>4 DEF ClaimThread, Goto, SetStatus, Claimable
<1>5. ASSUME NEW d \in Daemons, ReadThreads(d) PROVE RunningInv'
  BY <1>5 DEF ReadThreads, Goto
<1>6. ASSUME NEW d \in Daemons, PlanReply(d) PROVE RunningInv'
  BY <1>6 DEF PlanReply, Goto
<1>7. ASSUME NEW d \in Daemons, PlanNothing(d) PROVE RunningInv'
  BY <1>7 DEF PlanNothing, Goto
<1>8. ASSUME NEW d \in Daemons, PlanRaises(d) PROVE RunningInv'
  BY <1>8 DEF PlanRaises, Goto, Drop, SetStatus
<1>9. ASSUME NEW d \in Daemons, MarkIgnored(d) PROVE RunningInv'
  BY <1>9 DEF MarkIgnored, Goto, Drop, SetStatus
<1>10. ASSUME NEW d \in Daemons, CooldownCheck(d) PROVE RunningInv'
  BY <1>10 DEF CooldownCheck, Goto
<1>11. ASSUME NEW d \in Daemons, EnqueueReply(d) PROVE RunningInv'
  BY <1>11 DEF EnqueueReply, Goto, Drop
<1>12. ASSUME NEW d \in Daemons, MarkQueued(d) PROVE RunningInv'
  BY <1>12 DEF MarkQueued, Goto, Drop, SetStatus
<1>13. ASSUME NEW d \in Daemons, CheckRate(d) PROVE RunningInv'
  BY <1>13 DEF CheckRate, Goto
<1>14. ASSUME NEW d \in Daemons, MarkRate(d) PROVE RunningInv'
  BY <1>14 DEF MarkRate, Goto
<1>15. ASSUME NEW s \in Sweepers, PickRow(s) PROVE RunningInv'
  BY <1>15 DEF PickRow, Goto, DueRows
<1>16. ASSUME NEW s \in Sweepers, NothingDue(s) PROVE RunningInv'
  BY <1>16 DEF NothingDue, Goto
<1>17. ASSUME NEW s \in Sweepers, SendSucceeds(s) PROVE RunningInv'
  BY <1>17 DEF SendSucceeds, Goto, Sent, Deliver
<1>18. ASSUME NEW s \in Sweepers, SendDenied(s) PROVE RunningInv'
  BY <1>18 DEF SendDenied, Goto, Sent
<1>19. ASSUME NEW s \in Sweepers, SendFails(s) PROVE RunningInv'
  BY <1>19 DEF SendFails, Goto, Sent, Deliver
<1>20. ASSUME NEW s \in Sweepers, MarkSent(s) PROVE RunningInv'
  BY <1>20 DEF MarkSent, Goto, Write
<1>21. ASSUME NEW s \in Sweepers, MarkEvents(s) PROVE RunningInv'
  BY <1>21 DEF MarkEvents, Goto, SetStatus, SweepDone
<1>22. ASSUME NEW s \in Sweepers, MarkRaises(s) PROVE RunningInv'
  BY <1>22 DEF MarkRaises, Goto
<1>23. ASSUME NEW s \in Sweepers, MarkBlocked(s) PROVE RunningInv'
  BY <1>23 DEF MarkBlocked, Goto, Write
<1>24. ASSUME NEW s \in Sweepers, BlockEvents(s) PROVE RunningInv'
  BY <1>24 DEF BlockEvents, Goto, SetStatus, SweepDone
<1>25. ASSUME NEW s \in Sweepers, MarkFailed(s) PROVE RunningInv'
  BY <1>25 DEF MarkFailed, Goto, Write, SweepDone
<1>26. ASSUME NEW s \in Sweepers, Abort(s) PROVE RunningInv'
  BY <1>26 DEF Abort, Goto, Drop, SweepDone
<1>27. ASSUME NEW a \in Apis, NEW r \in Events, RetryRow(a, r) PROVE RunningInv'
  BY <1>27 DEF RetryRow, Goto
<1>28. CASE SetPaused
  BY <1>28 DEF SetPaused
<1>29. CASE RateElapses
  BY <1>29 DEF RateElapses
<1>30. CASE UNCHANGED vars
  BY <1>30 DEF vars, state
<1> QED
  BY <1>1, <1>2, <1>3, <1>4, <1>5, <1>6, <1>7, <1>8, <1>9, <1>10, <1>11, <1>12, <1>13, <1>14, <1>15, <1>16, <1>17, <1>18, <1>19, <1>20, <1>21, <1>22, <1>23, <1>24, <1>25, <1>26, <1>27, <1>28, <1>29, <1>30
  DEF Next, Step, PlanStep, SweepStep

\* What counts as answered stays so while replies stay and no daemon between the
\* plan and the queue moves.
LEMMA AnsweredKept ==
  ASSUME AnsweredInv, env' = env, answered' = answered, qevs' = qevs,
         \A d \in Daemons : pc[d] \in {"cooldown", "enqueue"} =>
           pc'[d] \in {"cooldown", "enqueue"} /\ claimed'[d] = claimed[d]
  PROVE  AnsweredInv'
<1> SUFFICES ASSUME ~env.crashes, NEW t \in Threads, NEW i \in answered[t]
             PROVE  \/ \E r \in Events : TargetOf[t] = Target(r) /\ i \in Intents(qevs[r])
                    \/ \E d \in Daemons : /\ pc'[d] \in {"cooldown", "enqueue"}
                                          /\ \E e \in claimed'[d] : ThreadOf[e] = t /\ IntentOf[e] = i
  BY DEF AnsweredInv
<1>1. CASE \E r \in Events : TargetOf[t] = Target(r) /\ i \in Intents(qevs[r])
  BY <1>1
<1>2. CASE \E d \in Daemons : /\ pc[d] \in {"cooldown", "enqueue"}
                              /\ \E e \in claimed[d] : ThreadOf[e] = t /\ IntentOf[e] = i
  BY <1>2
<1> QED
  BY <1>1, <1>2 DEF AnsweredInv

\* Every step leaves what counts as answered with a reply.
LEMMA AnsweredStep ==
  ASSUME PlannerInv, AnsweredInv, TypeOK', [Next]_vars
  PROVE  AnsweredInv'
<1>0. env' = env
  BY DEF Next, vars
<1> USE ConstantsAssumption, <1>0 DEF inboxVars, queueVars, planVars, sendVars, flagVars, histVars, Sweepers, PlannerInv, TypeOK, PCs, PlanPCs, HoldPCs
<1>1. ASSUME NEW x \in Events, Ingest(x) PROVE AnsweredInv'
  BY <1>1, AnsweredKept DEF Ingest
<1>2. ASSUME NEW x \in Events, Classify(x) PROVE AnsweredInv'
  BY <1>2, AnsweredKept DEF Classify
<1>3. ASSUME NEW x \in Events, CooldownElapses(x) PROVE AnsweredInv'
  BY <1>3, AnsweredKept DEF CooldownElapses
<1>4. ASSUME NEW d \in Daemons, NEW t \in Threads, ClaimThread(d, t) PROVE AnsweredInv'
  BY <1>4, AnsweredKept DEF ClaimThread, Goto, SetStatus, Claimable
<1>5. ASSUME NEW d \in Daemons, ReadThreads(d) PROVE AnsweredInv'
  BY <1>5, AnsweredKept DEF ReadThreads, Goto
<1>6. ASSUME NEW d \in Daemons, PlanReply(d) PROVE AnsweredInv'
  <2> SUFFICES ASSUME ~env.crashes, NEW t \in Threads, NEW i \in answered'[t]
               PROVE  \/ \E r \in Events : TargetOf[t] = Target(r) /\ i \in Intents(qevs'[r])
                      \/ \E c \in Daemons : /\ pc'[c] \in {"cooldown", "enqueue"}
                                            /\ \E e \in claimed'[c] : ThreadOf[e] = t /\ IntentOf[e] = i
    BY DEF AnsweredInv
  <2>1. PICK u \in Threads : /\ \A e \in claimed[d] : ThreadOf[e] = u
                             /\ answered' = [answered EXCEPT ![u] = answered[u] \cup Intents(claimed[d])]
    BY <1>6 DEF PlanReply
  <2>2. /\ pc[d] = "plan" /\ pc' = [pc EXCEPT ![d] = "cooldown"] /\ UNCHANGED <<claimed, qevs>>
    BY <1>6 DEF PlanReply, Goto
  <2>3. CASE i \in answered[t]
    <3>1. CASE \E r \in Events : TargetOf[t] = Target(r) /\ i \in Intents(qevs[r])
      BY <2>2, <3>1
    <3>2. CASE \E c \in Daemons : /\ pc[c] \in {"cooldown", "enqueue"}
                                  /\ \E e \in claimed[c] : ThreadOf[e] = t /\ IntentOf[e] = i
      BY <2>2, <3>2
    <3> HIDE DEF PlannerInv, TypeOK
    <3> QED
      BY <2>3, <3>1, <3>2 DEF AnsweredInv
  <2>4. CASE i \notin answered[t]
    <3>1. t = u /\ i \in Intents(claimed[d])
      BY <2>1, <2>4
    <3>2. PICK e \in claimed[d] : IntentOf[e] = i
      BY <3>1 DEF Intents
    <3>3. pc'[d] = "cooldown" /\ e \in claimed'[d] /\ ThreadOf[e] = t
      BY <2>1, <2>2, <3>1, <3>2
    <3> QED
      BY <3>2, <3>3
  <2> QED
    BY <2>3, <2>4
<1>7. ASSUME NEW d \in Daemons, PlanNothing(d) PROVE AnsweredInv'
  BY <1>7, AnsweredKept DEF PlanNothing, Goto
<1>8. ASSUME NEW d \in Daemons, PlanRaises(d) PROVE AnsweredInv'
  BY <1>8, AnsweredKept DEF PlanRaises, Goto, Drop, SetStatus
<1>9. ASSUME NEW d \in Daemons, MarkIgnored(d) PROVE AnsweredInv'
  BY <1>9, AnsweredKept DEF MarkIgnored, Goto, Drop, SetStatus
<1>10. ASSUME NEW d \in Daemons, CooldownCheck(d) PROVE AnsweredInv'
  <2> SUFFICES ASSUME ~env.crashes, NEW t \in Threads, NEW i \in answered'[t]
               PROVE  \/ \E r \in Events : TargetOf[t] = Target(r) /\ i \in Intents(qevs'[r])
                      \/ \E c \in Daemons : /\ pc'[c] \in {"cooldown", "enqueue"}
                                            /\ \E e \in claimed'[c] : ThreadOf[e] = t /\ IntentOf[e] = i
    BY DEF AnsweredInv
  <2>1. /\ pc[d] = "cooldown" /\ UNCHANGED <<claimed, qevs, answered>>
        /\ pc' = [pc EXCEPT ![d] = IF RecentDupe(d) THEN "ignore" ELSE "enqueue"]
    BY <1>10 DEF CooldownCheck, Goto
  <2>2. CASE \E r \in Events : TargetOf[t] = Target(r) /\ i \in Intents(qevs[r])
    BY <2>1, <2>2
  <2>3. ASSUME NEW c \in Daemons, pc[c] \in {"cooldown", "enqueue"},
               NEW e \in claimed[c], ThreadOf[e] = t, IntentOf[e] = i
        PROVE  \/ \E r \in Events : TargetOf[t] = Target(r) /\ i \in Intents(qevs'[r])
               \/ \E b \in Daemons : /\ pc'[b] \in {"cooldown", "enqueue"}
                                     /\ \E f \in claimed'[b] : ThreadOf[f] = t /\ IntentOf[f] = i
    <3>1. CASE pc'[c] \in {"cooldown", "enqueue"}
      BY <2>1, <2>3, <3>1
    <3>2. CASE pc'[c] \notin {"cooldown", "enqueue"}
      <4>1. c = d /\ RecentDupe(d)
        BY <2>1, <2>3, <3>2
      <4>2. PICK r \in Events, f \in claimed[d] : Target(r) = Target(f) /\ Intents(qevs[r]) = Intents(claimed[d])
        BY <4>1 DEF RecentDupe, SameIntent
      <4>3. Target(r) = TargetOf[t]
        BY <2>3, <4>1, <4>2 DEF PlanInv, Target
      <4>4. i \in Intents(claimed[d])
        BY <2>3, <4>1 DEF Intents
      <4> QED
        BY <2>1, <4>2, <4>3, <4>4
    <3> QED
      BY <3>1, <3>2
  <2> HIDE DEF PlannerInv, TypeOK
  <2> QED
    BY <2>1, <2>2, <2>3 DEF AnsweredInv
<1>11. ASSUME NEW d \in Daemons, EnqueueReply(d) PROVE AnsweredInv'
  <2> SUFFICES ASSUME ~env.crashes, NEW t \in Threads, NEW i \in answered'[t]
               PROVE  \/ \E r \in Events : TargetOf[t] = Target(r) /\ i \in Intents(qevs'[r])
                      \/ \E c \in Daemons : /\ pc'[c] \in {"cooldown", "enqueue"}
                                            /\ \E e \in claimed'[c] : ThreadOf[e] = t /\ IntentOf[e] = i
    BY DEF AnsweredInv
  <2>1. PICK r \in claimed[d] :
          IF qstat[r] = "absent"
          THEN qevs' = [qevs EXCEPT ![r] = claimed[d]] /\ Goto(d, "mark_queued") /\ UNCHANGED claimed
          ELSE Drop(d) /\ Goto(d, "threads") /\ UNCHANGED qevs
    BY <1>11 DEF EnqueueReply
  <2>2. r \in Events /\ pc[d] = "enqueue" /\ answered' = answered
    BY <1>11 DEF EnqueueReply
  \* The conflict on the idempotency key does not arise.
  <2>3. qstat[r] = "absent" /\ qevs[r] = {}
    BY <2>2 DEF ClaimInv
  <2>4. qevs' = [qevs EXCEPT ![r] = claimed[d]] /\ pc' = [pc EXCEPT ![d] = "mark_queued"] /\ claimed' = claimed
    BY <2>1, <2>3 DEF Goto
  <2>5. ASSUME NEW q \in Events, TargetOf[t] = Target(q), i \in Intents(qevs[q])
        PROVE  \E x \in Events : TargetOf[t] = Target(x) /\ i \in Intents(qevs'[x])
    <3>1. q # r
      BY <2>3, <2>5 DEF Intents
    <3>2. qevs'[q] = qevs[q]
      BY <2>4, <3>1
    <3> QED
      BY <2>5, <3>2
  <2>6. ASSUME NEW c \in Daemons, pc[c] \in {"cooldown", "enqueue"},
               NEW e \in claimed[c], ThreadOf[e] = t, IntentOf[e] = i
        PROVE  \/ \E x \in Events : TargetOf[t] = Target(x) /\ i \in Intents(qevs'[x])
               \/ \E b \in Daemons : /\ pc'[b] \in {"cooldown", "enqueue"}
                                     /\ \E f \in claimed'[b] : ThreadOf[f] = t /\ IntentOf[f] = i
    <3>1. CASE c # d
      BY <2>4, <2>6, <3>1
    <3>2. CASE c = d
      <4>1. qevs'[r] = claimed[d]
        BY <2>2, <2>4
      <4>2. i \in Intents(qevs'[r])
        BY <2>6, <3>2, <4>1 DEF Intents
      <4>3. TargetOf[t] = Target(r)
        BY <2>6, <3>2 DEF PlanInv, Target
      <4> QED
        BY <2>2, <4>2, <4>3
    <3> QED
      BY <3>1, <3>2
  <2> QED
    BY <2>2, <2>5, <2>6 DEF AnsweredInv
<1>12. ASSUME NEW d \in Daemons, MarkQueued(d) PROVE AnsweredInv'
  BY <1>12, AnsweredKept DEF MarkQueued, Goto, Drop, SetStatus
<1>13. ASSUME NEW d \in Daemons, CheckRate(d) PROVE AnsweredInv'
  BY <1>13, AnsweredKept DEF CheckRate, Goto
<1>14. ASSUME NEW d \in Daemons, MarkRate(d) PROVE AnsweredInv'
  BY <1>14, AnsweredKept DEF MarkRate, Goto
<1>15. ASSUME NEW s \in Sweepers, PickRow(s) PROVE AnsweredInv'
  BY <1>15, AnsweredKept DEF PickRow, Goto, DueRows
<1>16. ASSUME NEW s \in Sweepers, NothingDue(s) PROVE AnsweredInv'
  BY <1>16, AnsweredKept DEF NothingDue, Goto
<1>17. ASSUME NEW s \in Sweepers, SendSucceeds(s) PROVE AnsweredInv'
  BY <1>17, AnsweredKept DEF SendSucceeds, Goto, Sent, Deliver
<1>18. ASSUME NEW s \in Sweepers, SendDenied(s) PROVE AnsweredInv'
  BY <1>18, AnsweredKept DEF SendDenied, Goto, Sent
<1>19. ASSUME NEW s \in Sweepers, SendFails(s) PROVE AnsweredInv'
  BY <1>19, AnsweredKept DEF SendFails, Goto, Sent, Deliver
<1>20. ASSUME NEW s \in Sweepers, MarkSent(s) PROVE AnsweredInv'
  BY <1>20, AnsweredKept DEF MarkSent, Goto, Write
<1>21. ASSUME NEW s \in Sweepers, MarkEvents(s) PROVE AnsweredInv'
  BY <1>21, AnsweredKept DEF MarkEvents, Goto, SetStatus, SweepDone
<1>22. ASSUME NEW s \in Sweepers, MarkRaises(s) PROVE AnsweredInv'
  BY <1>22, AnsweredKept DEF MarkRaises, Goto
<1>23. ASSUME NEW s \in Sweepers, MarkBlocked(s) PROVE AnsweredInv'
  BY <1>23, AnsweredKept DEF MarkBlocked, Goto, Write
<1>24. ASSUME NEW s \in Sweepers, BlockEvents(s) PROVE AnsweredInv'
  BY <1>24, AnsweredKept DEF BlockEvents, Goto, SetStatus, SweepDone
<1>25. ASSUME NEW s \in Sweepers, MarkFailed(s) PROVE AnsweredInv'
  BY <1>25, AnsweredKept DEF MarkFailed, Goto, Write, SweepDone
<1>26. ASSUME NEW s \in Sweepers, Abort(s) PROVE AnsweredInv'
  <2>1. env.crashes
    BY <1>26 DEF Abort
  <2> QED
    BY <2>1 DEF AnsweredInv
<1>27. ASSUME NEW a \in Apis, NEW r \in Events, RetryRow(a, r) PROVE AnsweredInv'
  BY <1>27, AnsweredKept DEF RetryRow, Goto
<1>28. CASE SetPaused
  BY <1>28, AnsweredKept DEF SetPaused
<1>29. CASE RateElapses
  BY <1>29, AnsweredKept DEF RateElapses
<1>30. CASE UNCHANGED vars
  BY <1>30, AnsweredKept DEF vars, state
<1> QED
  BY <1>1, <1>2, <1>3, <1>4, <1>5, <1>6, <1>7, <1>8, <1>9, <1>10, <1>11, <1>12, <1>13, <1>14, <1>15, <1>16, <1>17, <1>18, <1>19, <1>20, <1>21, <1>22, <1>23, <1>24, <1>25, <1>26, <1>27, <1>28, <1>29, <1>30
  DEF Next, Step, PlanStep, SweepStep

\* With one daemon running at most one is in a pass.
LEMMA OneDaemon ==
  ASSUME RunningInv, Cardinality(env.running \cap Daemons) <= 1,
         NEW d \in Daemons, NEW c \in Daemons, pc[d] # "idle", pc[c] # "idle"
  PROVE  c = d
<1> DEFINE R == env.running \cap Daemons
<1>1. IsFiniteSet(R)
  BY ConstantsAssumption, FS_Subset, R \subseteq Daemons
<1>2. c \in R /\ d \in R
  BY DEF RunningInv
<1>3. IsFiniteSet(R \ {c}) /\ Cardinality(R \ {c}) = Cardinality(R) - 1
  BY <1>1, <1>2, FS_RemoveElement
<1>4. Cardinality(R) \in Nat
  BY <1>1, FS_CardinalityType
<1>5. Cardinality(R \ {c}) = 0
  BY <1>3, <1>4, FS_CardinalityType
<1>6. R \ {c} = {}
  BY <1>3, <1>5, FS_EmptySet
<1> QED
  BY <1>2, <1>6

\* Replies that are no longer fresh, or the same, leave a check as it was.
LEMMA CheckedKept ==
  ASSUME TypeOK, CheckedInv, env' = env, qevs' = qevs, qorder' = qorder,
         \A r \in Events : fresh'[r] => fresh[r],
         \A d \in Daemons : pc'[d] = "enqueue" => pc[d] = "enqueue" /\ claimed'[d] = claimed[d] /\ order'[d] = order[d]
  PROVE  CheckedInv'
  BY DEF CheckedInv, RecentDupe, SameIntent

\* Where no reply enters the queue and none becomes fresh, the texts differ as before.
LEMMA TextsKept ==
  ASSUME TextsDiffer, env' = env, qevs' = qevs, qorder' = qorder, \A r \in Events : fresh'[r] => fresh[r]
  PROVE  TextsDiffer'
  BY DEF TextsDiffer

\* Every step keeps the check of a single daemon valid until its reply is in the queue.
LEMMA CheckedStep ==
  ASSUME TypeOK, RunningInv, CheckedInv, TypeOK', [Next]_vars
  PROVE  CheckedInv'
<1>0. env' = env
  BY DEF Next, vars
<1> USE ConstantsAssumption, <1>0 DEF inboxVars, queueVars, planVars, sendVars, flagVars, histVars, Sweepers, TypeOK, PCs, PlanPCs, HoldPCs
<1>1. ASSUME NEW x \in Events, Ingest(x) PROVE CheckedInv'
  BY <1>1, CheckedKept DEF Ingest
<1>2. ASSUME NEW x \in Events, Classify(x) PROVE CheckedInv'
  BY <1>2, CheckedKept DEF Classify
<1>3. ASSUME NEW x \in Events, CooldownElapses(x) PROVE CheckedInv'
  BY <1>3, CheckedKept DEF CooldownElapses
<1>4. ASSUME NEW d \in Daemons, NEW t \in Threads, ClaimThread(d, t) PROVE CheckedInv'
  BY <1>4, CheckedKept DEF ClaimThread, Goto, SetStatus, Claimable
<1>5. ASSUME NEW d \in Daemons, ReadThreads(d) PROVE CheckedInv'
  BY <1>5, CheckedKept DEF ReadThreads, Goto
<1>6. ASSUME NEW d \in Daemons, PlanReply(d) PROVE CheckedInv'
  BY <1>6, CheckedKept DEF PlanReply, Goto
<1>7. ASSUME NEW d \in Daemons, PlanNothing(d) PROVE CheckedInv'
  BY <1>7, CheckedKept DEF PlanNothing, Goto
<1>8. ASSUME NEW d \in Daemons, PlanRaises(d) PROVE CheckedInv'
  BY <1>8, CheckedKept DEF PlanRaises, Goto, Drop, SetStatus
<1>9. ASSUME NEW d \in Daemons, MarkIgnored(d) PROVE CheckedInv'
  BY <1>9, CheckedKept DEF MarkIgnored, Goto, Drop, SetStatus
<1>10. ASSUME NEW d \in Daemons, CooldownCheck(d) PROVE CheckedInv'
  <2> SUFFICES ASSUME Cardinality(env.running \cap Daemons) <= 1, NEW c \in Daemons, pc'[c] = "enqueue"
               PROVE  ~RecentDupe(c)'
    BY DEF CheckedInv
  <2>1. UNCHANGED <<claimed, order, qevs, qorder, fresh>>
    BY <1>10 DEF CooldownCheck
  <2>2. RecentDupe(c)' = RecentDupe(c)
    BY <2>1 DEF RecentDupe, SameIntent
  <2>3. CASE c = d
    BY <1>10, <2>2, <2>3 DEF CooldownCheck, Goto
  <2>4. CASE c # d
    BY <1>10, <2>2, <2>4 DEF CooldownCheck, Goto, CheckedInv
  <2> QED
    BY <2>3, <2>4
<1>11. ASSUME NEW d \in Daemons, EnqueueReply(d) PROVE CheckedInv'
  <2> SUFFICES ASSUME Cardinality(env.running \cap Daemons) <= 1, NEW c \in Daemons, pc'[c] = "enqueue"
               PROVE  ~RecentDupe(c)'
    BY DEF CheckedInv
  <2>1. pc[d] = "enqueue" /\ pc'[d] # "enqueue" /\ c # d /\ pc[c] = "enqueue"
    BY <1>11 DEF EnqueueReply, Goto
  <2> QED
    BY <2>1, OneDaemon
<1>12. ASSUME NEW d \in Daemons, MarkQueued(d) PROVE CheckedInv'
  BY <1>12, CheckedKept DEF MarkQueued, Goto, Drop, SetStatus
<1>13. ASSUME NEW d \in Daemons, CheckRate(d) PROVE CheckedInv'
  BY <1>13, CheckedKept DEF CheckRate, Goto
<1>14. ASSUME NEW d \in Daemons, MarkRate(d) PROVE CheckedInv'
  BY <1>14, CheckedKept DEF MarkRate, Goto
<1>15. ASSUME NEW s \in Sweepers, PickRow(s) PROVE CheckedInv'
  BY <1>15, CheckedKept DEF PickRow, Goto, DueRows
<1>16. ASSUME NEW s \in Sweepers, NothingDue(s) PROVE CheckedInv'
  BY <1>16, CheckedKept DEF NothingDue, Goto
<1>17. ASSUME NEW s \in Sweepers, SendSucceeds(s) PROVE CheckedInv'
  BY <1>17, CheckedKept DEF SendSucceeds, Goto, Sent, Deliver
<1>18. ASSUME NEW s \in Sweepers, SendDenied(s) PROVE CheckedInv'
  BY <1>18, CheckedKept DEF SendDenied, Goto, Sent
<1>19. ASSUME NEW s \in Sweepers, SendFails(s) PROVE CheckedInv'
  BY <1>19, CheckedKept DEF SendFails, Goto, Sent, Deliver
<1>20. ASSUME NEW s \in Sweepers, MarkSent(s) PROVE CheckedInv'
  BY <1>20, CheckedKept DEF MarkSent, Goto, Write
<1>21. ASSUME NEW s \in Sweepers, MarkEvents(s) PROVE CheckedInv'
  BY <1>21, CheckedKept DEF MarkEvents, Goto, SetStatus, SweepDone
<1>22. ASSUME NEW s \in Sweepers, MarkRaises(s) PROVE CheckedInv'
  BY <1>22, CheckedKept DEF MarkRaises, Goto
<1>23. ASSUME NEW s \in Sweepers, MarkBlocked(s) PROVE CheckedInv'
  BY <1>23, CheckedKept DEF MarkBlocked, Goto, Write
<1>24. ASSUME NEW s \in Sweepers, BlockEvents(s) PROVE CheckedInv'
  BY <1>24, CheckedKept DEF BlockEvents, Goto, SetStatus, SweepDone
<1>25. ASSUME NEW s \in Sweepers, MarkFailed(s) PROVE CheckedInv'
  BY <1>25, CheckedKept DEF MarkFailed, Goto, Write, SweepDone
<1>26. ASSUME NEW s \in Sweepers, Abort(s) PROVE CheckedInv'
  BY <1>26, CheckedKept DEF Abort, Goto, Drop, SweepDone
<1>27. ASSUME NEW a \in Apis, NEW r \in Events, RetryRow(a, r) PROVE CheckedInv'
  BY <1>27, CheckedKept DEF RetryRow, Goto
<1>28. CASE SetPaused
  BY <1>28, CheckedKept DEF SetPaused
<1>29. CASE RateElapses
  BY <1>29, CheckedKept DEF RateElapses
<1>30. CASE UNCHANGED vars
  BY <1>30, CheckedKept DEF vars, state
<1> QED
  BY <1>1, <1>2, <1>3, <1>4, <1>5, <1>6, <1>7, <1>8, <1>9, <1>10, <1>11, <1>12, <1>13, <1>14, <1>15, <1>16, <1>17, <1>18, <1>19, <1>20, <1>21, <1>22, <1>23, <1>24, <1>25, <1>26, <1>27, <1>28, <1>29, <1>30
  DEF Next, Step, PlanStep, SweepStep

\* No step makes a second fresh reply with the same text of intents.
LEMMA TextsStep ==
  ASSUME TypeOK, CheckedInv, TextsDiffer, TypeOK', [Next]_vars
  PROVE  TextsDiffer'
<1>0. env' = env
  BY DEF Next, vars
<1> USE ConstantsAssumption, <1>0 DEF inboxVars, queueVars, planVars, sendVars, flagVars, histVars, Sweepers, TypeOK, PCs, PlanPCs, HoldPCs
<1>1. ASSUME NEW x \in Events, Ingest(x) PROVE TextsDiffer'
  BY <1>1, TextsKept DEF Ingest
<1>2. ASSUME NEW x \in Events, Classify(x) PROVE TextsDiffer'
  BY <1>2, TextsKept DEF Classify
<1>3. ASSUME NEW x \in Events, CooldownElapses(x) PROVE TextsDiffer'
  BY <1>3, TextsKept DEF CooldownElapses
<1>4. ASSUME NEW d \in Daemons, NEW t \in Threads, ClaimThread(d, t) PROVE TextsDiffer'
  BY <1>4, TextsKept DEF ClaimThread, Goto, SetStatus, Claimable
<1>5. ASSUME NEW d \in Daemons, ReadThreads(d) PROVE TextsDiffer'
  BY <1>5, TextsKept DEF ReadThreads, Goto
<1>6. ASSUME NEW d \in Daemons, PlanReply(d) PROVE TextsDiffer'
  BY <1>6, TextsKept DEF PlanReply, Goto
<1>7. ASSUME NEW d \in Daemons, PlanNothing(d) PROVE TextsDiffer'
  BY <1>7, TextsKept DEF PlanNothing, Goto
<1>8. ASSUME NEW d \in Daemons, PlanRaises(d) PROVE TextsDiffer'
  BY <1>8, TextsKept DEF PlanRaises, Goto, Drop, SetStatus
<1>9. ASSUME NEW d \in Daemons, MarkIgnored(d) PROVE TextsDiffer'
  BY <1>9, TextsKept DEF MarkIgnored, Goto, Drop, SetStatus
<1>10. ASSUME NEW d \in Daemons, CooldownCheck(d) PROVE TextsDiffer'
  BY <1>10, TextsKept DEF CooldownCheck, Goto
<1>11. ASSUME NEW d \in Daemons, EnqueueReply(d) PROVE TextsDiffer'
  <2>1. PICK r \in claimed[d] :
          \/ /\ qevs' = [qevs EXCEPT ![r] = claimed[d]] /\ fresh' = [fresh EXCEPT ![r] = TRUE]
             /\ qorder' = [qorder EXCEPT ![r] = order[d]]
          \/ UNCHANGED <<qevs, qorder, fresh>>
    BY <1>11 DEF EnqueueReply
  <2>2. CASE UNCHANGED <<qevs, qorder, fresh>>
    BY <2>2, TextsKept
  <2>3. CASE /\ qevs' = [qevs EXCEPT ![r] = claimed[d]] /\ fresh' = [fresh EXCEPT ![r] = TRUE]
             /\ qorder' = [qorder EXCEPT ![r] = order[d]]
    <3> SUFFICES ASSUME Cardinality(env.running \cap Daemons) <= 1, NEW p \in Events, NEW q \in Events, p # q,
                        fresh'[p], fresh'[q], Target(p) = Target(q)
                 PROVE  Intents(qevs'[p]) # Intents(qevs'[q]) \/ qorder'[p] # qorder'[q]
      BY DEF TextsDiffer
    <3>1. pc[d] = "enqueue" /\ r \in Events
      BY <1>11 DEF EnqueueReply
    <3>2. ~RecentDupe(d)
      BY <3>1 DEF CheckedInv
    <3>3. ASSUME NEW x \in Events, x # r, fresh'[x], Target(x) = Target(r)
          PROVE  Intents(qevs'[x]) # Intents(qevs'[r]) \/ qorder'[x] # qorder'[r]
      <4>1. qevs'[x] = qevs[x] /\ fresh[x] /\ qevs'[r] = claimed[d]
        BY <2>3, <3>1, <3>3
      <4>2. qorder'[x] = qorder[x] /\ qorder'[r] = order[d]
        BY <2>3, <3>1, <3>3
      <4> QED
        BY <3>2, <3>3, <4>1, <4>2 DEF RecentDupe, SameIntent
    <3>4. CASE p # r /\ q # r
      BY <2>3, <3>4 DEF TextsDiffer
    <3> QED
      BY <3>1, <3>3, <3>4
  <2> QED
    BY <2>1, <2>2, <2>3
<1>12. ASSUME NEW d \in Daemons, MarkQueued(d) PROVE TextsDiffer'
  BY <1>12, TextsKept DEF MarkQueued, Goto, Drop, SetStatus
<1>13. ASSUME NEW d \in Daemons, CheckRate(d) PROVE TextsDiffer'
  BY <1>13, TextsKept DEF CheckRate, Goto
<1>14. ASSUME NEW d \in Daemons, MarkRate(d) PROVE TextsDiffer'
  BY <1>14, TextsKept DEF MarkRate, Goto
<1>15. ASSUME NEW s \in Sweepers, PickRow(s) PROVE TextsDiffer'
  BY <1>15, TextsKept DEF PickRow, Goto, DueRows
<1>16. ASSUME NEW s \in Sweepers, NothingDue(s) PROVE TextsDiffer'
  BY <1>16, TextsKept DEF NothingDue, Goto
<1>17. ASSUME NEW s \in Sweepers, SendSucceeds(s) PROVE TextsDiffer'
  BY <1>17, TextsKept DEF SendSucceeds, Goto, Sent, Deliver
<1>18. ASSUME NEW s \in Sweepers, SendDenied(s) PROVE TextsDiffer'
  BY <1>18, TextsKept DEF SendDenied, Goto, Sent
<1>19. ASSUME NEW s \in Sweepers, SendFails(s) PROVE TextsDiffer'
  BY <1>19, TextsKept DEF SendFails, Goto, Sent, Deliver
<1>20. ASSUME NEW s \in Sweepers, MarkSent(s) PROVE TextsDiffer'
  BY <1>20, TextsKept DEF MarkSent, Goto, Write
<1>21. ASSUME NEW s \in Sweepers, MarkEvents(s) PROVE TextsDiffer'
  BY <1>21, TextsKept DEF MarkEvents, Goto, SetStatus, SweepDone
<1>22. ASSUME NEW s \in Sweepers, MarkRaises(s) PROVE TextsDiffer'
  BY <1>22, TextsKept DEF MarkRaises, Goto
<1>23. ASSUME NEW s \in Sweepers, MarkBlocked(s) PROVE TextsDiffer'
  BY <1>23, TextsKept DEF MarkBlocked, Goto, Write
<1>24. ASSUME NEW s \in Sweepers, BlockEvents(s) PROVE TextsDiffer'
  BY <1>24, TextsKept DEF BlockEvents, Goto, SetStatus, SweepDone
<1>25. ASSUME NEW s \in Sweepers, MarkFailed(s) PROVE TextsDiffer'
  BY <1>25, TextsKept DEF MarkFailed, Goto, Write, SweepDone
<1>26. ASSUME NEW s \in Sweepers, Abort(s) PROVE TextsDiffer'
  BY <1>26, TextsKept DEF Abort, Goto, Drop, SweepDone
<1>27. ASSUME NEW a \in Apis, NEW r \in Events, RetryRow(a, r) PROVE TextsDiffer'
  BY <1>27, TextsKept DEF RetryRow, Goto
<1>28. CASE SetPaused
  BY <1>28, TextsKept DEF SetPaused
<1>29. CASE RateElapses
  BY <1>29, TextsKept DEF RateElapses
<1>30. CASE UNCHANGED vars
  BY <1>30, TextsKept DEF vars, state
<1> QED
  BY <1>1, <1>2, <1>3, <1>4, <1>5, <1>6, <1>7, <1>8, <1>9, <1>10, <1>11, <1>12, <1>13, <1>14, <1>15, <1>16, <1>17, <1>18, <1>19, <1>20, <1>21, <1>22, <1>23, <1>24, <1>25, <1>26, <1>27, <1>28, <1>29, <1>30
  DEF Next, Step, PlanStep, SweepStep

\* An order of a plan or a reply that stays, or is put aside, remains one.
LEMMA OrderKept ==
  ASSUME OrderInv, qevs' = qevs, qorder' = qorder,
         \A d \in Daemons : pc'[d] \in {"cooldown", "enqueue"} =>
           pc[d] \in {"cooldown", "enqueue"} /\ claimed'[d] = claimed[d] /\ order'[d] = order[d]
  PROVE  OrderInv'
  BY DEF OrderInv

\* Every step keeps orders those of the unlisted intents.
LEMMA OrderStep ==
  ASSUME TypeOK, OrderInv, TypeOK', [Next]_vars
  PROVE  OrderInv'
<1>0. env' = env
  BY DEF Next, vars
<1> USE ConstantsAssumption, <1>0 DEF inboxVars, queueVars, planVars, sendVars, flagVars, histVars, Sweepers, TypeOK, PCs, PlanPCs, HoldPCs
<1>1. ASSUME NEW x \in Events, Ingest(x) PROVE OrderInv'
  BY <1>1, OrderKept DEF Ingest
<1>2. ASSUME NEW x \in Events, Classify(x) PROVE OrderInv'
  BY <1>2, OrderKept DEF Classify
<1>3. ASSUME NEW x \in Events, CooldownElapses(x) PROVE OrderInv'
  BY <1>3, OrderKept DEF CooldownElapses
<1>4. ASSUME NEW d \in Daemons, NEW t \in Threads, ClaimThread(d, t) PROVE OrderInv'
  BY <1>4, OrderKept DEF ClaimThread, Goto, SetStatus, Claimable
<1>5. ASSUME NEW d \in Daemons, ReadThreads(d) PROVE OrderInv'
  BY <1>5, OrderKept DEF ReadThreads, Goto
<1>6. ASSUME NEW d \in Daemons, PlanReply(d) PROVE OrderInv'
  <2>1. PICK R \in Orders(Intents(claimed[d]) \cap Unlisted) : order' = [order EXCEPT ![d] = R]
    BY <1>6 DEF PlanReply
  <2>2. pc' = [pc EXCEPT ![d] = "cooldown"] /\ UNCHANGED <<claimed, qevs, qorder>>
    BY <1>6 DEF PlanReply, Goto
  <2>3. ASSUME NEW c \in Daemons, pc'[c] \in {"cooldown", "enqueue"}
        PROVE  order'[c] \in Orders(Intents(claimed'[c]) \cap Unlisted)
    <3>1. CASE c = d
      BY <2>1, <2>2, <3>1
    <3>2. CASE c # d
      BY <2>1, <2>2, <2>3, <3>2 DEF OrderInv
    <3> QED
      BY <3>1, <3>2
  <2> QED
    BY <2>2, <2>3 DEF OrderInv
<1>7. ASSUME NEW d \in Daemons, PlanNothing(d) PROVE OrderInv'
  BY <1>7, OrderKept DEF PlanNothing, Goto
<1>8. ASSUME NEW d \in Daemons, PlanRaises(d) PROVE OrderInv'
  BY <1>8, OrderKept DEF PlanRaises, Goto, Drop, SetStatus
<1>9. ASSUME NEW d \in Daemons, MarkIgnored(d) PROVE OrderInv'
  BY <1>9, OrderKept DEF MarkIgnored, Goto, Drop, SetStatus
<1>10. ASSUME NEW d \in Daemons, CooldownCheck(d) PROVE OrderInv'
  BY <1>10, OrderKept DEF CooldownCheck, Goto
<1>11. ASSUME NEW d \in Daemons, EnqueueReply(d) PROVE OrderInv'
  <2>1. PICK r \in claimed[d] :
          IF qstat[r] = "absent"
          THEN /\ qevs' = [qevs EXCEPT ![r] = claimed[d]] /\ qorder' = [qorder EXCEPT ![r] = order[d]]
               /\ Goto(d, "mark_queued") /\ UNCHANGED <<claimed, order>>
          ELSE Drop(d) /\ Goto(d, "threads") /\ UNCHANGED <<qevs, qorder>>
    BY <1>11 DEF EnqueueReply
  <2>2. r \in Events /\ pc[d] = "enqueue" /\ order[d] \in Orders(Intents(claimed[d]) \cap Unlisted)
    BY <1>11 DEF EnqueueReply, OrderInv
  <2>3. CASE qstat[r] = "absent"
    <3>1. /\ qevs' = [qevs EXCEPT ![r] = claimed[d]] /\ qorder' = [qorder EXCEPT ![r] = order[d]]
          /\ pc' = [pc EXCEPT ![d] = "mark_queued"] /\ UNCHANGED <<claimed, order>>
      BY <2>1, <2>3 DEF Goto
    <3>2. ASSUME NEW q \in Events PROVE qorder'[q] \in Orders(Intents(qevs'[q]) \cap Unlisted)
      <4>1. CASE q = r
        BY <2>2, <3>1, <4>1
      <4>2. CASE q # r
        BY <2>2, <3>1, <4>2 DEF OrderInv
      <4> QED
        BY <4>1, <4>2
    <3>3. ASSUME NEW c \in Daemons, pc'[c] \in {"cooldown", "enqueue"}
          PROVE  order'[c] \in Orders(Intents(claimed'[c]) \cap Unlisted)
      BY <3>1, <3>3 DEF OrderInv
    <3> QED
      BY <3>2, <3>3 DEF OrderInv
  <2>4. CASE qstat[r] # "absent"
    BY <2>1, <2>2, <2>4, OrderKept DEF Goto, Drop
  <2> QED
    BY <2>3, <2>4
<1>12. ASSUME NEW d \in Daemons, MarkQueued(d) PROVE OrderInv'
  BY <1>12, OrderKept DEF MarkQueued, Goto, Drop, SetStatus
<1>13. ASSUME NEW d \in Daemons, CheckRate(d) PROVE OrderInv'
  BY <1>13, OrderKept DEF CheckRate, Goto
<1>14. ASSUME NEW d \in Daemons, MarkRate(d) PROVE OrderInv'
  BY <1>14, OrderKept DEF MarkRate, Goto
<1>15. ASSUME NEW s \in Sweepers, PickRow(s) PROVE OrderInv'
  BY <1>15, OrderKept DEF PickRow, Goto, DueRows
<1>16. ASSUME NEW s \in Sweepers, NothingDue(s) PROVE OrderInv'
  BY <1>16, OrderKept DEF NothingDue, Goto
<1>17. ASSUME NEW s \in Sweepers, SendSucceeds(s) PROVE OrderInv'
  BY <1>17, OrderKept DEF SendSucceeds, Goto, Sent, Deliver
<1>18. ASSUME NEW s \in Sweepers, SendDenied(s) PROVE OrderInv'
  BY <1>18, OrderKept DEF SendDenied, Goto, Sent
<1>19. ASSUME NEW s \in Sweepers, SendFails(s) PROVE OrderInv'
  BY <1>19, OrderKept DEF SendFails, Goto, Sent, Deliver
<1>20. ASSUME NEW s \in Sweepers, MarkSent(s) PROVE OrderInv'
  BY <1>20, OrderKept DEF MarkSent, Goto, Write
<1>21. ASSUME NEW s \in Sweepers, MarkEvents(s) PROVE OrderInv'
  BY <1>21, OrderKept DEF MarkEvents, Goto, SetStatus, SweepDone
<1>22. ASSUME NEW s \in Sweepers, MarkRaises(s) PROVE OrderInv'
  BY <1>22, OrderKept DEF MarkRaises, Goto
<1>23. ASSUME NEW s \in Sweepers, MarkBlocked(s) PROVE OrderInv'
  BY <1>23, OrderKept DEF MarkBlocked, Goto, Write
<1>24. ASSUME NEW s \in Sweepers, BlockEvents(s) PROVE OrderInv'
  BY <1>24, OrderKept DEF BlockEvents, Goto, SetStatus, SweepDone
<1>25. ASSUME NEW s \in Sweepers, MarkFailed(s) PROVE OrderInv'
  BY <1>25, OrderKept DEF MarkFailed, Goto, Write, SweepDone
<1>26. ASSUME NEW s \in Sweepers, Abort(s) PROVE OrderInv'
  BY <1>26, OrderKept DEF Abort, Goto, Drop, SweepDone
<1>27. ASSUME NEW a \in Apis, NEW r \in Events, RetryRow(a, r) PROVE OrderInv'
  BY <1>27, OrderKept DEF RetryRow, Goto
<1>28. CASE SetPaused
  BY <1>28, OrderKept DEF SetPaused
<1>29. CASE RateElapses
  BY <1>29, OrderKept DEF RateElapses
<1>30. CASE UNCHANGED vars
  BY <1>30, OrderKept DEF vars, state
<1> QED
  BY <1>1, <1>2, <1>3, <1>4, <1>5, <1>6, <1>7, <1>8, <1>9, <1>10, <1>11, <1>12, <1>13, <1>14, <1>15, <1>16, <1>17, <1>18, <1>19, <1>20, <1>21, <1>22, <1>23, <1>24, <1>25, <1>26, <1>27, <1>28, <1>29, <1>30
  DEF Next, Step, PlanStep, SweepStep

\* There is one order of no intent and of one: so equal intents with different texts have
\* two unlisted ones.
LEMMA OrderOfFew ==
  ASSUME NEW U, \A i, j \in U : i = j, NEW R \in Orders(U)
  PROVE  R = {}
<1>1. R \subseteq U \X U /\ \A i \in U : <<i, i>> \notin R
  BY DEF Orders
<1>2. ASSUME NEW p \in R PROVE FALSE
  <2>1. PICK i, j \in U : p = <<i, j>>
    BY <1>1
  <2>2. i = j
    OBVIOUS
  <2> QED
    BY <1>1, <2>1, <2>2
<1> QED
  BY <1>2

\* Different texts and orders of the unlisted intents give the cooldown.
LEMMA CooldownFromTexts ==
  ASSUME OrderInv, TextsDiffer
  PROVE  CooldownHolds
<1> SUFFICES ASSUME Cardinality(env.running \cap Daemons) <= 1, NEW r \in Events, NEW q \in Events, r # q,
                    fresh[r], fresh[q], Target(r) = Target(q), Intents(qevs[r]) = Intents(qevs[q])
             PROVE  qorder[r] # qorder[q] /\ \E i, j \in Intents(qevs[r]) \cap Unlisted : i # j
  BY DEF CooldownHolds
<1>1. qorder[r] # qorder[q]
  BY DEF TextsDiffer
<1>2. ASSUME \A i, j \in Intents(qevs[r]) \cap Unlisted : i = j PROVE FALSE
  <2>1. qorder[r] \in Orders(Intents(qevs[r]) \cap Unlisted) /\ qorder[q] \in Orders(Intents(qevs[r]) \cap Unlisted)
    BY DEF OrderInv
  <2>2. qorder[r] = {} /\ qorder[q] = {}
    BY <1>2, <2>1, OrderOfFew
  <2> QED
    BY <1>1, <2>2
<1> QED
  BY <1>1, <1>2

-----------------------------------------------------------------------------
\* The inductive invariant holds in every state.
THEOREM SocialInvariant == Spec => []SocialInv
<1>1. Init => SocialInv
  <2> SUFFICES ASSUME Init PROVE SocialInv
    OBVIOUS
  <2> USE ConstantsAssumption DEF Init
  <2>1. TypeOK
    BY DEF TypeOK, PCs, PlanPCs, HoldPCs, Sweepers
  <2>2. TakenInv /\ ClaimInv /\ PlanInv /\ OnlyRecruitingAnswered /\ RepliesDisjoint
    BY DEF TakenInv, ClaimInv, PlanInv, OnlyRecruitingAnswered, RepliesDisjoint, PlanPCs, HoldPCs, AllRecruiting, Sweepers
  <2>3. HoldInv /\ DeliveryInv /\ AnsweredInv /\ RunningInv /\ CheckedInv /\ TextsDiffer
    BY DEF HoldInv, DeliveryInv, AnsweredInv, RunningInv, CheckedInv, TextsDiffer, HoldPCs, Sweepers
  <2>4. OrderInv
    <3>1. Intents({}) = {} /\ {} \in Orders({})
      BY DEF Intents, Orders
    <3>2. ASSUME NEW r \in Events PROVE qorder[r] \in Orders(Intents(qevs[r]) \cap Unlisted)
      <4>1. qevs[r] = {} /\ qorder[r] = {} /\ Intents({}) \cap Unlisted = {}
        BY <3>1
      <4> QED
        BY <3>1, <4>1
    <3> QED
      BY <3>2 DEF OrderInv, Sweepers
  <2> QED
    BY <2>1, <2>2, <2>3, <2>4 DEF SocialInv, PlannerInv
<1>2. SocialInv /\ [Next]_vars => SocialInv'
  <2> SUFFICES ASSUME SocialInv, [Next]_vars PROVE SocialInv'
    OBVIOUS
  <2>0. PlannerInv /\ TypeOK
    BY DEF SocialInv, PlannerInv
  <2>1. TypeOK'
    BY <2>0, TypeStep
  <2>2. PlannerInv'
    BY <2>0, <2>1, TakenStep, ClaimStep, PlanInvStep, RecruitingStep DEF PlannerInv
  <2>3. RepliesDisjoint' /\ HoldInv' /\ DeliveryInv'
    BY <2>0, <2>1, DisjointStep, HoldStep, DeliveryStep DEF SocialInv
  <2>4. AnsweredInv' /\ RunningInv' /\ CheckedInv' /\ OrderInv' /\ TextsDiffer'
    BY <2>0, <2>1, AnsweredStep, RunningStep, CheckedStep, OrderStep, TextsStep DEF SocialInv
  <2> QED
    BY <2>2, <2>3, <2>4 DEF SocialInv
<1> QED
  BY <1>1, <1>2, PTL DEF Spec

\* The tables, the daemons and the sweeps keep their types.
THEOREM TypeCorrect == Spec => []TypeOK
<1>1. SocialInv => TypeOK
  BY DEF SocialInv, PlannerInv
<1> QED
  BY <1>1, SocialInvariant, PTL

\* A message is in one reply at most; without lost answers a reply is delivered once at
\* most; without crashes what counts as answered has its reply (pending_events,
\* enqueue_reply, sweep_once).
THEOREM AnsweredOnceHolds == Spec => []AnsweredOnce
<1>1. SocialInv => AnsweredOnce
  BY DEF SocialInv, RepliesDisjoint, DeliveryInv, AnsweredInv, AnsweredOnce
<1> QED
  BY <1>1, SocialInvariant, PTL

\* No automatic reply answers a message that is not recruiting, whichever of the planner
\* and ingest_social_event comes first.
THEOREM RecruitingOnly == Spec => []OnlyRecruitingAnswered
<1>1. SocialInv => OnlyRecruitingAnswered
  BY DEF SocialInv, PlannerInv
<1> QED
  BY <1>1, SocialInvariant, PTL

\* One daemon never puts two replies with the same intents for a target into the queue
\* within the cooldown, on any number of platforms, unless two of them are unlisted and
\* their messages came in another order (process_due_threads, _ordered_unique).
THEOREM CooldownKeeps == Spec => []CooldownHolds
<1>1. SocialInv => CooldownHolds
  BY CooldownFromTexts DEF SocialInv
<1> QED
  BY <1>1, SocialInvariant, PTL
=============================================================================
