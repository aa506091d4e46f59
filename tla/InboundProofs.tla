--------------------------- MODULE InboundProofs ---------------------------
(***************************************************************************)
(* What the pollers guarantee for any bridges, messages, timestamps and    *)
(* limit, with crashes, failing statements and exceptions anywhere.        *)
(*                                                                         *)
(* PolledOnce rests on the mark that a poller sets before it acts and that *)
(* only the poller of the message's bridge sets.  NoGap is not inductive:  *)
(* a cursor may move because everything up to the newest timestamp of the  *)
(* batch is marked or still at hand (Covered), and a message that arrives  *)
(* lies ahead of every cursor because cursors never pass the newest        *)
(* message (Bounded).                                                      *)
(***************************************************************************)
EXTENDS Inbound, TLAPS

Mine(b, m) == BridgeOf[m] = b /\ (m \in InMsgs <=> phase[b] = "in")

Holding == {"mark", "save", "ingest", "gate", "route", "reply"}
InBatch == {"next", "advance"} \cup Holding

\* An actor is at steps of its kind, with messages of its own.
WorkInv ==
  /\ \A b \in Bridges :
       /\ pc[b] \in {"start", "dead", "poll"} \cup InBatch
       /\ \A m \in batch[b] : m \in Msgs /\ Mine(b, m)
       /\ pc[b] \in Holding => cur[b] \in Msgs /\ Mine(b, cur[b])
       /\ pc[b] \in {"save", "ingest", "gate", "reply"} => phase[b] = "in"
       /\ pc[b] \in Holding \ {"mark"} => cur[b] \in processed
       /\ pc[b] = "advance" => batch[b] = {}
  /\ \A h \in Hooks :
       /\ pc[h] \in {"idle", "hook_check", "hook_mark", "hook_save", "hook_ingest",
                     "hook_route", "hook_reply"}
       /\ pc[h] # "idle" => cur[h] \in InMsgs /\ h \in env.hooks

\* Without webhooks: nothing has been done for a message that is not marked, and
\* only the poller that marked it does something for it.
OnceInv ==
  env.hooks = {} =>
    /\ \A m \in Msgs : m \notin processed => handled[m] = 0 /\ replied[m] = 0
    /\ \A m \in Msgs : handled[m] <= 1 /\ replied[m] <= 1
    /\ \A b \in Bridges :
         /\ pc[b] = "mark" => cur[b] \notin processed
         /\ pc[b] \in {"save", "ingest", "gate", "route"} => handled[cur[b]] = 0 /\ replied[cur[b]] = 0
         /\ pc[b] = "reply" => replied[cur[b]] = 0

\* Messages of one stream have different timestamps.
Distinct ==
  env.ordered => \A m, n \in store : m # n /\ SameStream(m, n) => env.time[m] # env.time[n]

\* Up to the newest timestamp of the batch every message is marked or at hand.
Covered ==
  env.ordered =>
    \A b \in Bridges : pc[b] \in InBatch =>
      \A m \in store :
        Mine(b, m) /\ env.kind[m] # "blank" /\ env.time[m] <= newCursor[b] =>
          m \in processed \/ m \in batch[b] \/ (pc[b] = "mark" /\ cur[b] = m)

\* A cursor lies behind or at a message that arrived.
Bounded ==
  /\ \A b \in Bridges :
       /\ cursor[b] = 0 \/ \E n \in store : n \in InMsgs /\ BridgeOf[n] = b /\ cursor[b] <= env.time[n]
       /\ cursorDB[b] = 0 \/ \E n \in store : n \in InMsgs /\ BridgeOf[n] = b /\ cursorDB[b] <= env.time[n]
       /\ pc[b] \in InBatch =>
            newCursor[b] = 0 \/ \E n \in store : Mine(b, n) /\ newCursor[b] <= env.time[n]
  /\ outCursor = 0 \/ \E n \in store : n \in OutMsgs /\ outCursor <= env.time[n]

InboundInv == TypeOK /\ WorkInv /\ OnceInv /\ Distinct /\ Covered /\ Bounded /\ NoGap

-----------------------------------------------------------------------------
\* Every step keeps the types.
LEMMA TypeStep ==
  ASSUME InboundInv, [Next]_vars
  PROVE  TypeOK'
<1>0. env' = env
  BY DEF Next, vars
<1> USE ConstantsAssumption, <1>0
<1> USE DEF InboundInv, TypeOK, WorkInv, Mine, Holding, InBatch, Msgs, Actors, Phones, tables, cursors, fetchVars, histVars
<1>1. ASSUME NEW b \in Bridges, StartPoller(b) PROVE TypeOK'
  BY <1>1 DEF StartPoller, Goto
<1>2. ASSUME NEW b \in Bridges, StartFails(b) PROVE TypeOK'
  BY <1>2 DEF StartFails, Goto
<1>3. ASSUME NEW b \in Bridges, Fetch(b) PROVE TypeOK'
  BY <1>3 DEF Fetch, Goto, Fetched, Candidates, Latest, Since
<1>4. ASSUME NEW b \in Bridges, FetchFails(b) PROVE TypeOK'
  BY <1>4 DEF FetchFails, Goto, Since
<1>5. ASSUME NEW b \in Bridges, CheckProcessed(b) PROVE TypeOK'
  <2>1. PICK m \in batch[b] : /\ batch' = [batch EXCEPT ![b] = @ \ {m}]
                              /\ IF m \in processed THEN UNCHANGED <<pc, cur>>
                                 ELSE Goto(b, "mark") /\ Take(b, m)
    BY <1>5 DEF CheckProcessed
  <2>2. m \in Msgs /\ batch' \in [Bridges -> SUBSET Msgs]
    BY <2>1
  <2>3. CASE UNCHANGED <<pc, cur>>
    BY <1>5, <2>2, <2>3 DEF CheckProcessed
  <2>4. CASE Goto(b, "mark") /\ Take(b, m)
    BY <1>5, <2>2, <2>4 DEF CheckProcessed, Goto, Take
  <2> QED
    BY <2>1, <2>3, <2>4
<1>6. ASSUME NEW b \in Bridges, MarkProcessed(b) PROVE TypeOK'
  BY <1>6 DEF MarkProcessed, Goto
<1>7. ASSUME NEW b \in Bridges, SaveMessage(b) PROVE TypeOK'
  <2>1. cur[b] \in InMsgs
    BY <1>7 DEF SaveMessage
  <2>2. saved' \in [InMsgs -> Nat]
    BY <1>7, <2>1, SMTT(30) DEF SaveMessage, Inc
  <2>3. AfterSave(b) \in {"next", "ingest", "gate"}
    BY DEF AfterSave
  <2> QED
    BY <1>7, <2>2, <2>3 DEF SaveMessage, Goto
<1>8. ASSUME NEW b \in Bridges, IngestSocial(b) PROVE TypeOK'
  BY <1>8 DEF IngestSocial, Goto
<1>9. ASSUME NEW b \in Bridges, CheckCooldown(b) PROVE TypeOK'
  <2>1. CASE Goto(b, "next")
    BY <1>9, <2>1 DEF CheckCooldown, Goto
  <2>2. CASE Goto(b, "route")
    BY <1>9, <2>2 DEF CheckCooldown, Goto
  <2> QED
    BY <1>9, <2>1, <2>2 DEF CheckCooldown
<1>10. ASSUME NEW b \in Bridges, ProcessMessage(b) PROVE TypeOK'
  <2>1. cur[b] \in Msgs /\ handled' \in [Msgs -> Nat]
    BY <1>10 DEF ProcessMessage, Inc
  <2>2. CASE Goto(b, "next")
    BY <1>10, <2>1, <2>2 DEF ProcessMessage, Goto
  <2>3. CASE Goto(b, "reply")
    BY <1>10, <2>1, <2>3 DEF ProcessMessage, Goto
  <2> QED
    BY <1>10, <2>2, <2>3 DEF ProcessMessage
<1>11. ASSUME NEW b \in Bridges, SendReply(b) PROVE TypeOK'
  BY <1>11 DEF SendReply, Goto, Inc
<1>12. ASSUME NEW b \in Bridges, KeepReply(b) PROVE TypeOK'
  BY <1>12 DEF KeepReply, Goto
<1>13. ASSUME NEW b \in Bridges, AdvanceCursor(b) PROVE TypeOK'
  <2>1. CASE newCursor[b] > Since(b)
    <3>1. cursor' \in [Bridges -> 0..MaxTime]
      BY <1>13, <2>1 DEF AdvanceCursor
    <3> QED
      BY <1>13, <2>1, <3>1 DEF AdvanceCursor, Goto, Take
  <2>2. CASE ~(newCursor[b] > Since(b))
    BY <1>13, <2>2, SMTT(30) DEF AdvanceCursor, Goto, Take, NextPhase
  <2> QED
    BY <2>1, <2>2
<1>14. ASSUME NEW b \in Bridges, SetCursor(b) PROVE TypeOK'
  BY <1>14, SMTT(30) DEF SetCursor, Goto, NextPhase
<1>15. ASSUME NEW b \in Bridges, PollRaises(b) PROVE TypeOK'
  BY <1>15 DEF PollRaises, Goto, Take
<1>16. ASSUME NEW h \in Hooks, HookCheck(h) PROVE TypeOK'
  <2>1. CASE HookDone(h)
    BY <1>16, <2>1 DEF HookCheck, HookDone, Goto, Take
  <2>2. CASE Goto(h, "hook_mark") /\ UNCHANGED cur
    BY <1>16, <2>2 DEF HookCheck, Goto
  <2> QED
    BY <1>16, <2>1, <2>2 DEF HookCheck
<1>17. ASSUME NEW h \in Hooks, HookMark(h) PROVE TypeOK'
  BY <1>17 DEF HookMark, Goto
<1>18. ASSUME NEW h \in Hooks, HookUnmarked(h) PROVE TypeOK'
  BY <1>18 DEF HookUnmarked, Goto
<1>19. ASSUME NEW h \in Hooks, HookSave(h) PROVE TypeOK'
  <2>1. cur[h] \in InMsgs
    BY <1>19 DEF HookSave
  <2>2. saved' \in [InMsgs -> Nat]
    BY <1>19, <2>1 DEF HookSave, Inc
  <2> QED
    BY <1>19, <2>2 DEF HookSave, Goto
<1>20. ASSUME NEW h \in Hooks, HookIngest(h) PROVE TypeOK'
  <2>1. ingested' \in SUBSET InMsgs
    BY <1>20 DEF HookIngest
  <2>2. CASE HookDone(h)
    BY <1>20, <2>1, <2>2 DEF HookIngest, HookDone, Goto, Take
  <2>3. CASE Goto(h, "hook_route") /\ UNCHANGED cur
    BY <1>20, <2>1, <2>3 DEF HookIngest, Goto
  <2> QED
    BY <1>20, <2>2, <2>3 DEF HookIngest
<1>21. ASSUME NEW h \in Hooks, HookProcess(h) PROVE TypeOK'
  <2>1. cur[h] \in Msgs
    BY <1>21 DEF HookProcess
  <2>2. handled' \in [Msgs -> Nat]
    BY <1>21, <2>1 DEF HookProcess, Inc
  <2>3. CASE HookDone(h)
    BY <1>21, <2>2, <2>3 DEF HookProcess, HookDone, Goto, Take
  <2>4. CASE Goto(h, "hook_reply") /\ UNCHANGED cur
    BY <1>21, <2>2, <2>4 DEF HookProcess, Goto
  <2> QED
    BY <1>21, <2>3, <2>4 DEF HookProcess
<1>22. ASSUME NEW h \in Hooks, HookReply(h) PROVE TypeOK'
  <2>1. cur[h] \in Msgs
    BY <1>22 DEF HookReply
  <2>2. replied' \in [Msgs -> Nat]
    BY <1>22, <2>1 DEF HookReply, Inc
  <2> QED
    BY <1>22, <2>2 DEF HookReply, HookDone, Goto, Take
<1>23. ASSUME NEW h \in Hooks, HookRaises(h) PROVE TypeOK'
  BY <1>23 DEF HookRaises, Goto, HookDone, Take
<1>24. ASSUME NEW h \in Hooks, NEW m \in InMsgs, HookStart(h, m) PROVE TypeOK'
  BY <1>24 DEF HookStart, Goto, Take
<1>25. ASSUME NEW m \in Msgs, Arrive(m) PROVE TypeOK'
  BY <1>25 DEF Arrive
<1>26. ASSUME NEW p \in Phones, CooldownElapses(p) PROVE TypeOK'
  BY <1>26 DEF CooldownElapses
<1>27. ASSUME Crash PROVE TypeOK'
  BY <1>27 DEF Crash
<1>28. CASE UNCHANGED vars
  BY <1>28 DEF vars, state
<1> QED
  BY <1>1, <1>2, <1>3, <1>4, <1>5, <1>6, <1>7, <1>8, <1>9, <1>10, <1>11, <1>12, <1>13, <1>14, <1>15, <1>16, <1>17, <1>18, <1>19, <1>20, <1>21, <1>22, <1>23, <1>24, <1>25, <1>26, <1>27, <1>28
  DEF Next, Step, PollStep, HookStep

\* Every step keeps an actor and its messages together.
LEMMA WorkStep ==
  ASSUME InboundInv, [Next]_vars
  PROVE  WorkInv'
<1>0. env' = env
  BY DEF Next, vars
<1> USE ConstantsAssumption, <1>0
<1> USE DEF InboundInv, TypeOK, WorkInv, Mine, Holding, InBatch, Msgs, Actors, tables, cursors, fetchVars, histVars
<1>1. ASSUME NEW b \in Bridges, StartPoller(b) PROVE WorkInv'
  BY <1>1 DEF StartPoller, Goto
<1>2. ASSUME NEW b \in Bridges, StartFails(b) PROVE WorkInv'
  BY <1>2 DEF StartFails, Goto
<1>3. ASSUME NEW b \in Bridges, Fetch(b) PROVE WorkInv'
  BY <1>3 DEF Fetch, Goto, Fetched, Candidates, Latest, Since
<1>4. ASSUME NEW b \in Bridges, FetchFails(b) PROVE WorkInv'
  BY <1>4 DEF FetchFails, Goto, Since
<1>5. ASSUME NEW b \in Bridges, CheckProcessed(b) PROVE WorkInv'
  <2>1. UNCHANGED <<phase, processed>>
    BY <1>5 DEF CheckProcessed
  <2>2. PICK m \in batch[b] : /\ batch' = [batch EXCEPT ![b] = @ \ {m}]
                              /\ \/ UNCHANGED <<pc, cur>>
                                 \/ Goto(b, "mark") /\ Take(b, m)
    BY <1>5 DEF CheckProcessed
  <2>3. m \in Msgs /\ Mine(b, m)
    BY <2>2
  <2>4. CASE UNCHANGED <<pc, cur>>
    BY <1>5, <2>1, <2>2, <2>4 DEF CheckProcessed
  <2>5. CASE Goto(b, "mark") /\ Take(b, m)
    BY <1>5, <2>1, <2>2, <2>3, <2>5 DEF CheckProcessed, Goto, Take
  <2> QED
    BY <2>2, <2>4, <2>5
<1>6. ASSUME NEW b \in Bridges, MarkProcessed(b) PROVE WorkInv'
  BY <1>6 DEF MarkProcessed, Goto
<1>7. ASSUME NEW b \in Bridges, SaveMessage(b) PROVE WorkInv'
  BY <1>7, SMTT(30) DEF SaveMessage, Goto, AfterSave, Inc
<1>8. ASSUME NEW b \in Bridges, IngestSocial(b) PROVE WorkInv'
  BY <1>8 DEF IngestSocial, Goto
<1>9. ASSUME NEW b \in Bridges, CheckCooldown(b) PROVE WorkInv'
  BY <1>9 DEF CheckCooldown, Goto
<1>10. ASSUME NEW b \in Bridges, ProcessMessage(b) PROVE WorkInv'
  <2>1. UNCHANGED <<batch, phase, cur, processed>>
    BY <1>10 DEF ProcessMessage
  <2>2. CASE Goto(b, "next")
    BY <1>10, <2>1, <2>2 DEF ProcessMessage, Goto
  <2>3. CASE phase[b] = "in" /\ Goto(b, "reply")
    BY <1>10, <2>1, <2>3 DEF ProcessMessage, Goto
  <2> QED
    BY <1>10, <2>2, <2>3 DEF ProcessMessage
<1>11. ASSUME NEW b \in Bridges, SendReply(b) PROVE WorkInv'
  BY <1>11 DEF SendReply, Goto, Inc
<1>12. ASSUME NEW b \in Bridges, KeepReply(b) PROVE WorkInv'
  BY <1>12 DEF KeepReply, Goto
<1>13. ASSUME NEW b \in Bridges, AdvanceCursor(b) PROVE WorkInv'
  BY <1>13 DEF AdvanceCursor, Goto, Take, NextPhase, Since
<1>14. ASSUME NEW b \in Bridges, SetCursor(b) PROVE WorkInv'
  BY <1>14 DEF SetCursor, Goto, NextPhase
<1>15. ASSUME NEW b \in Bridges, PollRaises(b) PROVE WorkInv'
  BY <1>15 DEF PollRaises, Goto, Take
<1>16. ASSUME NEW h \in Hooks, HookCheck(h) PROVE WorkInv'
  BY <1>16 DEF HookCheck, Goto, HookDone, Take
<1>17. ASSUME NEW h \in Hooks, HookMark(h) PROVE WorkInv'
  BY <1>17 DEF HookMark, Goto
<1>18. ASSUME NEW h \in Hooks, HookUnmarked(h) PROVE WorkInv'
  BY <1>18 DEF HookUnmarked, Goto
<1>19. ASSUME NEW h \in Hooks, HookSave(h) PROVE WorkInv'
  BY <1>19 DEF HookSave, Goto, Inc
<1>20. ASSUME NEW h \in Hooks, HookIngest(h) PROVE WorkInv'
  <2>1. UNCHANGED <<batch, phase, processed>> /\ cur[h] \in InMsgs /\ h \in env.hooks
    BY <1>20 DEF HookIngest
  <2>2. CASE HookDone(h)
    BY <1>20, <2>1, <2>2 DEF HookIngest, HookDone, Goto, Take
  <2>3. CASE Goto(h, "hook_route") /\ UNCHANGED cur
    BY <1>20, <2>1, <2>3 DEF HookIngest, Goto
  <2> QED
    BY <1>20, <2>2, <2>3 DEF HookIngest
<1>21. ASSUME NEW h \in Hooks, HookProcess(h) PROVE WorkInv'
  <2>1. UNCHANGED <<batch, phase, processed>> /\ cur[h] \in InMsgs /\ h \in env.hooks
    BY <1>21 DEF HookProcess
  <2>2. CASE HookDone(h)
    BY <1>21, <2>1, <2>2 DEF HookProcess, HookDone, Goto, Take
  <2>3. CASE Goto(h, "hook_reply") /\ UNCHANGED cur
    BY <1>21, <2>1, <2>3 DEF HookProcess, Goto
  <2> QED
    BY <1>21, <2>2, <2>3 DEF HookProcess
<1>22. ASSUME NEW h \in Hooks, HookReply(h) PROVE WorkInv'
  BY <1>22 DEF HookReply, Goto, HookDone, Take, Inc
<1>23. ASSUME NEW h \in Hooks, HookRaises(h) PROVE WorkInv'
  BY <1>23 DEF HookRaises, Goto, HookDone, Take
<1>24. ASSUME NEW h \in Hooks, NEW m \in InMsgs, HookStart(h, m) PROVE WorkInv'
  BY <1>24 DEF HookStart, Goto, Take
<1>25. ASSUME NEW m \in Msgs, Arrive(m) PROVE WorkInv'
  BY <1>25 DEF Arrive
<1>26. ASSUME NEW p \in Phones, CooldownElapses(p) PROVE WorkInv'
  BY <1>26 DEF CooldownElapses
<1>27. ASSUME Crash PROVE WorkInv'
  BY <1>27 DEF Crash
<1>28. CASE UNCHANGED vars
  BY <1>28 DEF vars, state
<1> QED
  BY <1>1, <1>2, <1>3, <1>4, <1>5, <1>6, <1>7, <1>8, <1>9, <1>10, <1>11, <1>12, <1>13, <1>14, <1>15, <1>16, <1>17, <1>18, <1>19, <1>20, <1>21, <1>22, <1>23, <1>24, <1>25, <1>26, <1>27, <1>28
  DEF Next, Step, PollStep, HookStep

\* Every step keeps what is done for a message behind its mark.
LEMMA OnceStep ==
  ASSUME InboundInv, [Next]_vars
  PROVE  OnceInv'
<1>0. env' = env
  BY DEF Next, vars
<1> USE ConstantsAssumption, <1>0
<1> USE DEF InboundInv, TypeOK, WorkInv, OnceInv, Mine, Holding, InBatch, Msgs, Actors, tables, cursors, fetchVars, histVars
<1>1. ASSUME NEW b \in Bridges, StartPoller(b) PROVE OnceInv'
  BY <1>1 DEF StartPoller, Goto
<1>2. ASSUME NEW b \in Bridges, StartFails(b) PROVE OnceInv'
  BY <1>2 DEF StartFails, Goto
<1>3. ASSUME NEW b \in Bridges, Fetch(b) PROVE OnceInv'
  BY <1>3 DEF Fetch, Goto, Fetched, Candidates, Latest, Since
<1>4. ASSUME NEW b \in Bridges, FetchFails(b) PROVE OnceInv'
  BY <1>4 DEF FetchFails, Goto, Since
<1>5. ASSUME NEW b \in Bridges, CheckProcessed(b) PROVE OnceInv'
  BY <1>5 DEF CheckProcessed, Goto, Take
<1>6. ASSUME NEW b \in Bridges, MarkProcessed(b) PROVE OnceInv'
  BY <1>6 DEF MarkProcessed, Goto
<1>7. ASSUME NEW b \in Bridges, SaveMessage(b) PROVE OnceInv'
  BY <1>7 DEF SaveMessage, Goto, AfterSave, Inc
<1>8. ASSUME NEW b \in Bridges, IngestSocial(b) PROVE OnceInv'
  BY <1>8 DEF IngestSocial, Goto
<1>9. ASSUME NEW b \in Bridges, CheckCooldown(b) PROVE OnceInv'
  BY <1>9 DEF CheckCooldown, Goto
<1>10. ASSUME NEW b \in Bridges, ProcessMessage(b) PROVE OnceInv'
  <2>1. /\ cur[b] \in processed /\ cur[b] \in Msgs
        /\ \A c \in Bridges : c # b /\ pc[c] \in Holding => cur[c] # cur[b]
    BY <1>10 DEF ProcessMessage
  <2>2. /\ UNCHANGED <<cur, processed, replied>> /\ pc[b] = "route"
        /\ handled' = [handled EXCEPT ![cur[b]] = @ + 1]
    BY <1>10 DEF ProcessMessage, Inc
  <2>3. /\ pc'[b] \in {"next", "reply"}
        /\ \A c \in Bridges : c # b => pc'[c] = pc[c]
    BY <1>10 DEF ProcessMessage, Goto
  <2> QED
    BY <2>1, <2>2, <2>3
<1>11. ASSUME NEW b \in Bridges, SendReply(b) PROVE OnceInv'
  <2>1. /\ cur[b] \in processed /\ cur[b] \in Msgs
        /\ \A c \in Bridges : c # b /\ pc[c] \in Holding => cur[c] # cur[b]
    BY <1>11 DEF SendReply
  <2>2. /\ UNCHANGED <<cur, processed, handled>> /\ pc[b] = "reply"
        /\ replied' = [replied EXCEPT ![cur[b]] = @ + 1]
    BY <1>11 DEF SendReply, Inc
  <2>3. /\ pc'[b] = "next"
        /\ \A c \in Bridges : c # b => pc'[c] = pc[c]
    BY <1>11 DEF SendReply, Goto
  <2> QED
    BY <2>1, <2>2, <2>3
<1>12. ASSUME NEW b \in Bridges, KeepReply(b) PROVE OnceInv'
  BY <1>12 DEF KeepReply, Goto
<1>13. ASSUME NEW b \in Bridges, AdvanceCursor(b) PROVE OnceInv'
  BY <1>13 DEF AdvanceCursor, Goto, Take, NextPhase, Since
<1>14. ASSUME NEW b \in Bridges, SetCursor(b) PROVE OnceInv'
  BY <1>14 DEF SetCursor, Goto, NextPhase
<1>15. ASSUME NEW b \in Bridges, PollRaises(b) PROVE OnceInv'
  BY <1>15 DEF PollRaises, Goto, Take
<1>16. ASSUME NEW h \in Hooks, HookCheck(h) PROVE OnceInv'
  BY <1>16 DEF HookCheck, Goto, HookDone, Take
<1>17. ASSUME NEW h \in Hooks, HookMark(h) PROVE OnceInv'
  BY <1>17 DEF HookMark, Goto
<1>18. ASSUME NEW h \in Hooks, HookUnmarked(h) PROVE OnceInv'
  BY <1>18 DEF HookUnmarked, Goto
<1>19. ASSUME NEW h \in Hooks, HookSave(h) PROVE OnceInv'
  BY <1>19 DEF HookSave, Goto, Inc
<1>20. ASSUME NEW h \in Hooks, HookIngest(h) PROVE OnceInv'
  BY <1>20 DEF HookIngest, Goto, HookDone, Take
<1>21. ASSUME NEW h \in Hooks, HookProcess(h) PROVE OnceInv'
  BY <1>21 DEF HookProcess, Goto, HookDone, Take, Inc
<1>22. ASSUME NEW h \in Hooks, HookReply(h) PROVE OnceInv'
  BY <1>22 DEF HookReply, Goto, HookDone, Take, Inc
<1>23. ASSUME NEW h \in Hooks, HookRaises(h) PROVE OnceInv'
  BY <1>23 DEF HookRaises, Goto, HookDone, Take
<1>24. ASSUME NEW h \in Hooks, NEW m \in InMsgs, HookStart(h, m) PROVE OnceInv'
  BY <1>24 DEF HookStart, Goto, Take
<1>25. ASSUME NEW m \in Msgs, Arrive(m) PROVE OnceInv'
  BY <1>25 DEF Arrive
<1>26. ASSUME NEW p \in Phones, CooldownElapses(p) PROVE OnceInv'
  BY <1>26 DEF CooldownElapses
<1>27. ASSUME Crash PROVE OnceInv'
  BY <1>27 DEF Crash
<1>28. CASE UNCHANGED vars
  BY <1>28 DEF vars, state
<1> QED
  BY <1>1, <1>2, <1>3, <1>4, <1>5, <1>6, <1>7, <1>8, <1>9, <1>10, <1>11, <1>12, <1>13, <1>14, <1>15, <1>16, <1>17, <1>18, <1>19, <1>20, <1>21, <1>22, <1>23, <1>24, <1>25, <1>26, <1>27, <1>28
  DEF Next, Step, PollStep, HookStep

\* Arrivals in order keep the timestamps of a stream apart.
LEMMA DistinctStep ==
  ASSUME InboundInv, [Next]_vars
  PROVE  Distinct'
<1>0. env' = env
  BY DEF Next, vars
<1> USE ConstantsAssumption, <1>0
<1> USE DEF InboundInv, TypeOK, Distinct, tables, cursors, fetchVars, histVars
<1>1. ASSUME NEW b \in Bridges, StartPoller(b) PROVE Distinct'
  BY <1>1 DEF StartPoller, Goto
<1>2. ASSUME NEW b \in Bridges, StartFails(b) PROVE Distinct'
  BY <1>2 DEF StartFails, Goto
<1>3. ASSUME NEW b \in Bridges, Fetch(b) PROVE Distinct'
  BY <1>3 DEF Fetch, Goto, Fetched, Candidates, Latest, Since
<1>4. ASSUME NEW b \in Bridges, FetchFails(b) PROVE Distinct'
  BY <1>4 DEF FetchFails, Goto, Since
<1>5. ASSUME NEW b \in Bridges, CheckProcessed(b) PROVE Distinct'
  BY <1>5 DEF CheckProcessed, Goto, Take
<1>6. ASSUME NEW b \in Bridges, MarkProcessed(b) PROVE Distinct'
  BY <1>6 DEF MarkProcessed, Goto
<1>7. ASSUME NEW b \in Bridges, SaveMessage(b) PROVE Distinct'
  BY <1>7 DEF SaveMessage, Goto, AfterSave, Inc
<1>8. ASSUME NEW b \in Bridges, IngestSocial(b) PROVE Distinct'
  BY <1>8 DEF IngestSocial, Goto
<1>9. ASSUME NEW b \in Bridges, CheckCooldown(b) PROVE Distinct'
  BY <1>9 DEF CheckCooldown, Goto
<1>10. ASSUME NEW b \in Bridges, ProcessMessage(b) PROVE Distinct'
  BY <1>10 DEF ProcessMessage, Goto, Inc
<1>11. ASSUME NEW b \in Bridges, SendReply(b) PROVE Distinct'
  BY <1>11 DEF SendReply, Goto, Inc
<1>12. ASSUME NEW b \in Bridges, KeepReply(b) PROVE Distinct'
  BY <1>12 DEF KeepReply, Goto
<1>13. ASSUME NEW b \in Bridges, AdvanceCursor(b) PROVE Distinct'
  BY <1>13 DEF AdvanceCursor, Goto, Take, NextPhase, Since
<1>14. ASSUME NEW b \in Bridges, SetCursor(b) PROVE Distinct'
  BY <1>14 DEF SetCursor, Goto, NextPhase
<1>15. ASSUME NEW b \in Bridges, PollRaises(b) PROVE Distinct'
  BY <1>15 DEF PollRaises, Goto, Take
<1>16. ASSUME NEW h \in Hooks, HookCheck(h) PROVE Distinct'
  BY <1>16 DEF HookCheck, Goto, HookDone, Take
<1>17. ASSUME NEW h \in Hooks, HookMark(h) PROVE Distinct'
  BY <1>17 DEF HookMark, Goto
<1>18. ASSUME NEW h \in Hooks, HookUnmarked(h) PROVE Distinct'
  BY <1>18 DEF HookUnmarked, Goto
<1>19. ASSUME NEW h \in Hooks, HookSave(h) PROVE Distinct'
  BY <1>19 DEF HookSave, Goto, Inc
<1>20. ASSUME NEW h \in Hooks, HookIngest(h) PROVE Distinct'
  BY <1>20 DEF HookIngest, Goto, HookDone, Take
<1>21. ASSUME NEW h \in Hooks, HookProcess(h) PROVE Distinct'
  BY <1>21 DEF HookProcess, Goto, HookDone, Take, Inc
<1>22. ASSUME NEW h \in Hooks, HookReply(h) PROVE Distinct'
  BY <1>22 DEF HookReply, Goto, HookDone, Take, Inc
<1>23. ASSUME NEW h \in Hooks, HookRaises(h) PROVE Distinct'
  BY <1>23 DEF HookRaises, Goto, HookDone, Take
<1>24. ASSUME NEW h \in Hooks, NEW m \in InMsgs, HookStart(h, m) PROVE Distinct'
  BY <1>24 DEF HookStart, Goto, Take
<1>25. ASSUME NEW m \in Msgs, Arrive(m) PROVE Distinct'
  <2>1. store' = store \cup {m} /\ (env.ordered => \A n \in store : SameStream(m, n) => env.time[n] < env.time[m])
    BY <1>25 DEF Arrive
  <2>2. env.time \in [Msgs -> 1..MaxTime] /\ store \subseteq Msgs
    OBVIOUS
  <2>3. \A k, n \in Msgs : env.time[k] < env.time[n] => env.time[k] # env.time[n]
    BY <2>2
  <2> QED
    BY <2>1, <2>2, <2>3 DEF SameStream
<1>26. ASSUME NEW p \in Phones, CooldownElapses(p) PROVE Distinct'
  BY <1>26 DEF CooldownElapses
<1>27. ASSUME Crash PROVE Distinct'
  BY <1>27 DEF Crash
<1>28. CASE UNCHANGED vars
  BY <1>28 DEF vars, state
<1> QED
  BY <1>1, <1>2, <1>3, <1>4, <1>5, <1>6, <1>7, <1>8, <1>9, <1>10, <1>11, <1>12, <1>13, <1>14, <1>15, <1>16, <1>17, <1>18, <1>19, <1>20, <1>21, <1>22, <1>23, <1>24, <1>25, <1>26, <1>27, <1>28
  DEF Next, Step, PollStep, HookStep

\* No step moves a cursor past the newest message.
LEMMA BoundedStep ==
  ASSUME InboundInv, [Next]_vars
  PROVE  Bounded'
<1>0. env' = env
  BY DEF Next, vars
<1> USE ConstantsAssumption, <1>0
<1> USE DEF InboundInv, TypeOK, WorkInv, Bounded, Mine, Holding, InBatch, Msgs, Actors, tables, cursors, fetchVars, histVars
<1>1. ASSUME NEW b \in Bridges, StartPoller(b) PROVE Bounded'
  BY <1>1 DEF StartPoller, Goto
<1>2. ASSUME NEW b \in Bridges, StartFails(b) PROVE Bounded'
  BY <1>2 DEF StartFails, Goto
<1>3. ASSUME NEW b \in Bridges, Fetch(b) PROVE Bounded'
  BY <1>3 DEF Fetch, Goto, Fetched, Candidates, Latest, Since
<1>4. ASSUME NEW b \in Bridges, FetchFails(b) PROVE Bounded'
  BY <1>4 DEF FetchFails, Goto, Since
<1>5. ASSUME NEW b \in Bridges, CheckProcessed(b) PROVE Bounded'
  BY <1>5 DEF CheckProcessed, Goto, Take
<1>6. ASSUME NEW b \in Bridges, MarkProcessed(b) PROVE Bounded'
  BY <1>6 DEF MarkProcessed, Goto
<1>7. ASSUME NEW b \in Bridges, SaveMessage(b) PROVE Bounded'
  BY <1>7 DEF SaveMessage, Goto, AfterSave, Inc
<1>8. ASSUME NEW b \in Bridges, IngestSocial(b) PROVE Bounded'
  BY <1>8 DEF IngestSocial, Goto
<1>9. ASSUME NEW b \in Bridges, CheckCooldown(b) PROVE Bounded'
  BY <1>9 DEF CheckCooldown, Goto
<1>10. ASSUME NEW b \in Bridges, ProcessMessage(b) PROVE Bounded'
  BY <1>10 DEF ProcessMessage, Goto, Inc
<1>11. ASSUME NEW b \in Bridges, SendReply(b) PROVE Bounded'
  BY <1>11 DEF SendReply, Goto, Inc
<1>12. ASSUME NEW b \in Bridges, KeepReply(b) PROVE Bounded'
  BY <1>12 DEF KeepReply, Goto
<1>13. ASSUME NEW b \in Bridges, AdvanceCursor(b) PROVE Bounded'
  BY <1>13 DEF AdvanceCursor, Goto, Take, NextPhase, Since
<1>14. ASSUME NEW b \in Bridges, SetCursor(b) PROVE Bounded'
  BY <1>14 DEF SetCursor, Goto, NextPhase
<1>15. ASSUME NEW b \in Bridges, PollRaises(b) PROVE Bounded'
  BY <1>15 DEF PollRaises, Goto, Take
<1>16. ASSUME NEW h \in Hooks, HookCheck(h) PROVE Bounded'
  BY <1>16 DEF HookCheck, Goto, HookDone, Take
<1>17. ASSUME NEW h \in Hooks, HookMark(h) PROVE Bounded'
  BY <1>17 DEF HookMark, Goto
<1>18. ASSUME NEW h \in Hooks, HookUnmarked(h) PROVE Bounded'
  BY <1>18 DEF HookUnmarked, Goto
<1>19. ASSUME NEW h \in Hooks, HookSave(h) PROVE Bounded'
  BY <1>19 DEF HookSave, Goto, Inc
<1>20. ASSUME NEW h \in Hooks, HookIngest(h) PROVE Bounded'
  BY <1>20 DEF HookIngest, Goto, HookDone, Take
<1>21. ASSUME NEW h \in Hooks, HookProcess(h) PROVE Bounded'
  BY <1>21 DEF HookProcess, Goto, HookDone, Take, Inc
<1>22. ASSUME NEW h \in Hooks, HookReply(h) PROVE Bounded'
  BY <1>22 DEF HookReply, Goto, HookDone, Take, Inc
<1>23. ASSUME NEW h \in Hooks, HookRaises(h) PROVE Bounded'
  BY <1>23 DEF HookRaises, Goto, HookDone, Take
<1>24. ASSUME NEW h \in Hooks, NEW m \in InMsgs, HookStart(h, m) PROVE Bounded'
  BY <1>24 DEF HookStart, Goto, Take
<1>25. ASSUME NEW m \in Msgs, Arrive(m) PROVE Bounded'
  BY <1>25 DEF Arrive
<1>26. ASSUME NEW p \in Phones, CooldownElapses(p) PROVE Bounded'
  BY <1>26 DEF CooldownElapses
<1>27. ASSUME Crash PROVE Bounded'
  BY <1>27 DEF Crash
<1>28. CASE UNCHANGED vars
  BY <1>28 DEF vars, state
<1> QED
  BY <1>1, <1>2, <1>3, <1>4, <1>5, <1>6, <1>7, <1>8, <1>9, <1>10, <1>11, <1>12, <1>13, <1>14, <1>15, <1>16, <1>17, <1>18, <1>19, <1>20, <1>21, <1>22, <1>23, <1>24, <1>25, <1>26, <1>27, <1>28
  DEF Next, Step, PollStep, HookStep

\* Every step keeps a batch complete up to its newest timestamp.
LEMMA CoveredStep ==
  ASSUME InboundInv, [Next]_vars
  PROVE  Covered'
<1>0. env' = env
  BY DEF Next, vars
<1> USE ConstantsAssumption, <1>0
<1> USE DEF InboundInv, TypeOK, WorkInv, Covered, Mine, Holding, InBatch, Msgs, Actors, tables, cursors, fetchVars, histVars
<1>1. ASSUME NEW b \in Bridges, StartPoller(b) PROVE Covered'
  BY <1>1 DEF StartPoller, Goto
<1>2. ASSUME NEW b \in Bridges, StartFails(b) PROVE Covered'
  BY <1>2 DEF StartFails, Goto
<1>3. ASSUME NEW b \in Bridges, Fetch(b) PROVE Covered'
  <2>t. env.time \in [Msgs -> 1..MaxTime] /\ store \subseteq Msgs
    OBVIOUS
  <2>1. PICK R \in Fetched(b) : LET S == {m \in R : env.kind[m] # "blank"} IN
          \E t \in Latest(S, Since(b)) :
            batch' = [batch EXCEPT ![b] = S] /\ newCursor' = [newCursor EXCEPT ![b] = t]
    BY <1>3 DEF Fetch
  <2> DEFINE S == {m \in R : env.kind[m] # "blank"}
  <2>2. PICK t \in Latest(S, Since(b)) :
          batch' = [batch EXCEPT ![b] = S] /\ newCursor' = [newCursor EXCEPT ![b] = t]
    BY <2>1
  <2>3. UNCHANGED <<store, processed, cur, phase>> /\ pc' = [pc EXCEPT ![b] = "next"]
    BY <1>3 DEF Fetch, Goto
  <2>4. ASSUME env.ordered, NEW m \in store, Mine(b, m), env.kind[m] # "blank", env.time[m] <= t
        PROVE  m \in processed \/ m \in S
    <3>1. CASE env.time[m] <= Since(b)
      BY <2>t, <2>4, <3>1 DEF Since, NoGap, Stream
    <3>2. CASE ~(env.time[m] <= Since(b))
      <4>1. Since(b) \in Nat /\ env.time[m] \in Nat
        BY <2>t DEF Since
      <4>2. m \in Candidates(b)
        BY <2>4, <3>2, <4>1 DEF Candidates
      <4>3. t # Since(b)
        BY <2>4, <3>2
      <4>4. PICK x \in S : t = env.time[x]
        BY <4>3 DEF Latest
      <4>5. CASE m \in R
        BY <2>4, <4>5
      <4>6. CASE m \notin R
        <5>1. x \in R /\ x \in Candidates(b)
          BY <4>4 DEF Fetched
        <5>2. env.time[x] <= env.time[m]
          BY <4>2, <4>6, <5>1 DEF Fetched
        <5>3. x \in store /\ x # m /\ SameStream(m, x)
          BY <2>4, <4>6, <5>1 DEF Candidates, SameStream
        <5>4. env.time[m] # env.time[x]
          BY <2>4, <5>3 DEF Distinct
        <5>5. env.time[x] \in Nat /\ env.time[m] <= env.time[x]
          BY <2>t, <2>4, <4>4, <5>3
        <5> QED
          BY ONLY <4>1, <5>2, <5>4, <5>5
      <4> QED
        BY <4>5, <4>6
    <3> QED
      BY <3>1, <3>2
  <2> QED
    BY <2>2, <2>3, <2>4
<1>4. ASSUME NEW b \in Bridges, FetchFails(b) PROVE Covered'
  <2>t. env.time \in [Msgs -> 1..MaxTime] /\ store \subseteq Msgs
    OBVIOUS
  <2>1. /\ UNCHANGED <<store, processed, batch, cur, phase>>
        /\ newCursor' = [newCursor EXCEPT ![b] = Since(b)]
        /\ pc' = [pc EXCEPT ![b] = "next"]
    BY <1>4 DEF FetchFails, Goto
  <2>2. ASSUME env.ordered, NEW m \in store, Mine(b, m), env.kind[m] # "blank", env.time[m] <= Since(b)
        PROVE  m \in processed
    BY <2>t, <2>2 DEF Since, NoGap, Stream
  <2> QED
    BY <2>1, <2>2
<1>5. ASSUME NEW b \in Bridges, CheckProcessed(b) PROVE Covered'
  BY <1>5 DEF CheckProcessed, Goto, Take
<1>6. ASSUME NEW b \in Bridges, MarkProcessed(b) PROVE Covered'
  BY <1>6 DEF MarkProcessed, Goto
<1>7. ASSUME NEW b \in Bridges, SaveMessage(b) PROVE Covered'
  BY <1>7 DEF SaveMessage, Goto, AfterSave, Inc
<1>8. ASSUME NEW b \in Bridges, IngestSocial(b) PROVE Covered'
  BY <1>8 DEF IngestSocial, Goto
<1>9. ASSUME NEW b \in Bridges, CheckCooldown(b) PROVE Covered'
  BY <1>9 DEF CheckCooldown, Goto
<1>10. ASSUME NEW b \in Bridges, ProcessMessage(b) PROVE Covered'
  BY <1>10 DEF ProcessMessage, Goto, Inc
<1>11. ASSUME NEW b \in Bridges, SendReply(b) PROVE Covered'
  BY <1>11 DEF SendReply, Goto, Inc
<1>12. ASSUME NEW b \in Bridges, KeepReply(b) PROVE Covered'
  BY <1>12 DEF KeepReply, Goto
<1>13. ASSUME NEW b \in Bridges, AdvanceCursor(b) PROVE Covered'
  BY <1>13 DEF AdvanceCursor, Goto, Take, NextPhase, Since
<1>14. ASSUME NEW b \in Bridges, SetCursor(b) PROVE Covered'
  BY <1>14 DEF SetCursor, Goto, NextPhase
<1>15. ASSUME NEW b \in Bridges, PollRaises(b) PROVE Covered'
  BY <1>15 DEF PollRaises, Goto, Take
<1>16. ASSUME NEW h \in Hooks, HookCheck(h) PROVE Covered'
  BY <1>16 DEF HookCheck, Goto, HookDone, Take
<1>17. ASSUME NEW h \in Hooks, HookMark(h) PROVE Covered'
  BY <1>17 DEF HookMark, Goto
<1>18. ASSUME NEW h \in Hooks, HookUnmarked(h) PROVE Covered'
  BY <1>18 DEF HookUnmarked, Goto
<1>19. ASSUME NEW h \in Hooks, HookSave(h) PROVE Covered'
  BY <1>19 DEF HookSave, Goto, Inc
<1>20. ASSUME NEW h \in Hooks, HookIngest(h) PROVE Covered'
  BY <1>20 DEF HookIngest, Goto, HookDone, Take
<1>21. ASSUME NEW h \in Hooks, HookProcess(h) PROVE Covered'
  BY <1>21 DEF HookProcess, Goto, HookDone, Take, Inc
<1>22. ASSUME NEW h \in Hooks, HookReply(h) PROVE Covered'
  BY <1>22 DEF HookReply, Goto, HookDone, Take, Inc
<1>23. ASSUME NEW h \in Hooks, HookRaises(h) PROVE Covered'
  BY <1>23 DEF HookRaises, Goto, HookDone, Take
<1>24. ASSUME NEW h \in Hooks, NEW m \in InMsgs, HookStart(h, m) PROVE Covered'
  BY <1>24 DEF HookStart, Goto, Take
<1>25. ASSUME NEW m \in Msgs, Arrive(m) PROVE Covered'
  <2>t. env.time \in [Msgs -> 1..MaxTime] /\ store \subseteq Msgs
    OBVIOUS
  <2>1. store' = store \cup {m} /\ UNCHANGED <<processed, cursor, cursorDB, outCursor, batch, newCursor, phase, pc, cur>>
    BY <1>25 DEF Arrive
  <2>2. ASSUME env.ordered, NEW n \in store, SameStream(m, n) PROVE env.time[n] < env.time[m]
    BY <1>25, <2>2 DEF Arrive
  <2>3. ASSUME env.ordered, NEW b \in Bridges, pc[b] \in InBatch, Mine(b, m)
        PROVE  newCursor[b] < env.time[m]
    <3>1. newCursor[b] \in Nat /\ env.time[m] \in Nat /\ env.time[m] > 0
      BY <2>t
    <3>2. CASE newCursor[b] = 0
      BY <3>1, <3>2
    <3>3. CASE newCursor[b] # 0
      <4>1. PICK n \in store : Mine(b, n) /\ newCursor[b] <= env.time[n]
        BY <2>3, <3>3 DEF Bounded
      <4>2. SameStream(m, n) /\ env.time[n] \in Nat
        BY <2>t, <2>3, <4>1 DEF SameStream
      <4> QED
        BY <2>2, <2>3, <3>1, <4>1, <4>2
    <3> QED
      BY <3>2, <3>3
  <2>4. ASSUME NEW b \in Bridges, newCursor[b] < env.time[m] PROVE ~(env.time[m] <= newCursor[b])
    BY <2>t, <2>4
  <2> QED
    BY <2>1, <2>3, <2>4
<1>26. ASSUME NEW p \in Phones, CooldownElapses(p) PROVE Covered'
  BY <1>26 DEF CooldownElapses
<1>27. ASSUME Crash PROVE Covered'
  BY <1>27 DEF Crash
<1>28. CASE UNCHANGED vars
  BY <1>28 DEF vars, state
<1> QED
  BY <1>1, <1>2, <1>3, <1>4, <1>5, <1>6, <1>7, <1>8, <1>9, <1>10, <1>11, <1>12, <1>13, <1>14, <1>15, <1>16, <1>17, <1>18, <1>19, <1>20, <1>21, <1>22, <1>23, <1>24, <1>25, <1>26, <1>27, <1>28, SMTT(30)
  DEF Next, Step, PollStep, HookStep

\* No step leaves an unmarked message behind a cursor.
LEMMA NoGapStep ==
  ASSUME InboundInv, [Next]_vars
  PROVE  NoGap'
<1>0. env' = env
  BY DEF Next, vars
<1> USE ConstantsAssumption, <1>0
<1> USE DEF InboundInv, TypeOK, WorkInv, NoGap, Stream, Mine, Holding, InBatch, Msgs, Actors, tables, cursors, fetchVars, histVars
<1>1. ASSUME NEW b \in Bridges, StartPoller(b) PROVE NoGap'
  BY <1>1 DEF StartPoller, Goto
<1>2. ASSUME NEW b \in Bridges, StartFails(b) PROVE NoGap'
  BY <1>2 DEF StartFails, Goto
<1>3. ASSUME NEW b \in Bridges, Fetch(b) PROVE NoGap'
  BY <1>3 DEF Fetch, Goto, Fetched, Candidates, Latest, Since
<1>4. ASSUME NEW b \in Bridges, FetchFails(b) PROVE NoGap'
  BY <1>4 DEF FetchFails, Goto, Since
<1>5. ASSUME NEW b \in Bridges, CheckProcessed(b) PROVE NoGap'
  BY <1>5 DEF CheckProcessed, Goto, Take
<1>6. ASSUME NEW b \in Bridges, MarkProcessed(b) PROVE NoGap'
  BY <1>6 DEF MarkProcessed, Goto
<1>7. ASSUME NEW b \in Bridges, SaveMessage(b) PROVE NoGap'
  BY <1>7 DEF SaveMessage, Goto, AfterSave, Inc
<1>8. ASSUME NEW b \in Bridges, IngestSocial(b) PROVE NoGap'
  BY <1>8 DEF IngestSocial, Goto
<1>9. ASSUME NEW b \in Bridges, CheckCooldown(b) PROVE NoGap'
  BY <1>9 DEF CheckCooldown, Goto
<1>10. ASSUME NEW b \in Bridges, ProcessMessage(b) PROVE NoGap'
  BY <1>10 DEF ProcessMessage, Goto, Inc
<1>11. ASSUME NEW b \in Bridges, SendReply(b) PROVE NoGap'
  BY <1>11 DEF SendReply, Goto, Inc
<1>12. ASSUME NEW b \in Bridges, KeepReply(b) PROVE NoGap'
  BY <1>12 DEF KeepReply, Goto
<1>13. ASSUME NEW b \in Bridges, AdvanceCursor(b) PROVE NoGap'
  <2>t. env.time \in [Msgs -> 1..MaxTime] /\ store \subseteq Msgs
    OBVIOUS
  <2>1. /\ UNCHANGED <<store, processed, cursorDB, outCursor>> /\ pc[b] = "next" /\ batch[b] = {}
        /\ cursor' \in {cursor, [cursor EXCEPT ![b] = newCursor[b]]}
        /\ cursor' # cursor => phase[b] = "in"
    BY <1>13 DEF AdvanceCursor
  <2>2. ASSUME env.ordered, NEW m \in store, Mine(b, m), env.kind[m] # "blank", env.time[m] <= newCursor[b]
        PROVE  m \in processed
    BY <2>1, <2>2 DEF Covered
  <2>3. CASE cursor' = cursor
    BY <2>1, <2>3
  <2>4. CASE cursor' = [cursor EXCEPT ![b] = newCursor[b]] /\ phase[b] = "in"
    BY <2>1, <2>2, <2>4
  <2> QED
    BY <2>1, <2>3, <2>4
<1>14. ASSUME NEW b \in Bridges, SetCursor(b) PROVE NoGap'
  <2>t. env.time \in [Msgs -> 1..MaxTime] /\ store \subseteq Msgs
    OBVIOUS
  <2>1. UNCHANGED <<store, processed, cursor>> /\ pc[b] = "advance" /\ batch[b] = {}
    BY <1>14 DEF SetCursor
  <2>2. ASSUME env.ordered, NEW m \in store, Mine(b, m), env.kind[m] # "blank", env.time[m] <= newCursor[b]
        PROVE  m \in processed
    BY <2>1, <2>2 DEF Covered
  <2>3. CASE phase[b] = "in"
    <3>1. cursorDB' = [cursorDB EXCEPT ![b] = newCursor[b]] /\ UNCHANGED outCursor
      BY <1>14, <2>3 DEF SetCursor
    <3> QED
      BY <2>1, <2>2, <2>3, <3>1
  <2>4. CASE phase[b] # "in"
    <3>1. outCursor' = newCursor[b] /\ UNCHANGED cursorDB
      BY <1>14, <2>4 DEF SetCursor
    <3>2. b = OutBridge
      BY <2>4
    <3> QED
      BY <2>1, <2>2, <2>4, <3>1, <3>2
  <2> QED
    BY <2>3, <2>4
<1>15. ASSUME NEW b \in Bridges, PollRaises(b) PROVE NoGap'
  BY <1>15 DEF PollRaises, Goto, Take
<1>16. ASSUME NEW h \in Hooks, HookCheck(h) PROVE NoGap'
  BY <1>16 DEF HookCheck, Goto, HookDone, Take
<1>17. ASSUME NEW h \in Hooks, HookMark(h) PROVE NoGap'
  BY <1>17 DEF HookMark, Goto
<1>18. ASSUME NEW h \in Hooks, HookUnmarked(h) PROVE NoGap'
  BY <1>18 DEF HookUnmarked, Goto
<1>19. ASSUME NEW h \in Hooks, HookSave(h) PROVE NoGap'
  BY <1>19 DEF HookSave, Goto, Inc
<1>20. ASSUME NEW h \in Hooks, HookIngest(h) PROVE NoGap'
  BY <1>20 DEF HookIngest, Goto, HookDone, Take
<1>21. ASSUME NEW h \in Hooks, HookProcess(h) PROVE NoGap'
  BY <1>21 DEF HookProcess, Goto, HookDone, Take, Inc
<1>22. ASSUME NEW h \in Hooks, HookReply(h) PROVE NoGap'
  BY <1>22 DEF HookReply, Goto, HookDone, Take, Inc
<1>23. ASSUME NEW h \in Hooks, HookRaises(h) PROVE NoGap'
  BY <1>23 DEF HookRaises, Goto, HookDone, Take
<1>24. ASSUME NEW h \in Hooks, NEW m \in InMsgs, HookStart(h, m) PROVE NoGap'
  BY <1>24 DEF HookStart, Goto, Take
<1>25. ASSUME NEW m \in Msgs, Arrive(m) PROVE NoGap'
  <2>t. env.time \in [Msgs -> 1..MaxTime] /\ store \subseteq Msgs
    OBVIOUS
  <2>1. store' = store \cup {m} /\ UNCHANGED <<processed, cursor, cursorDB, outCursor, batch, newCursor, phase, pc, cur>>
    BY <1>25 DEF Arrive
  <2>2. ASSUME env.ordered, NEW n \in store, SameStream(m, n) PROVE env.time[n] < env.time[m]
    BY <1>25, <2>2 DEF Arrive
  <2>3. ASSUME env.ordered, NEW v \in Nat, NEW n \in store, SameStream(m, n), v <= env.time[n]
        PROVE  ~(env.time[m] <= v)
    <3>1. env.time[n] < env.time[m] /\ env.time[n] \in Nat /\ env.time[m] \in Nat
      BY <2>t, <2>2, <2>3
    <3> QED
      BY <2>3, <3>1
  <2>4. env.time[m] \in Nat /\ ~(env.time[m] <= 0)
    BY <2>t
  <2>5. ASSUME env.ordered, m \in InMsgs, NEW b \in Bridges, BridgeOf[m] = b
        PROVE  ~(env.time[m] <= cursor[b]) /\ ~(env.time[m] <= cursorDB[b])
    <3>1. cursor[b] \in Nat /\ cursorDB[b] \in Nat
      OBVIOUS
    <3>2. \A n \in store : n \in InMsgs /\ BridgeOf[n] = b => SameStream(m, n)
      BY <2>5 DEF SameStream
    <3> QED
      BY <2>3, <2>4, <2>5, <3>1, <3>2, SMTT(30) DEF Bounded
  <2>6. ASSUME env.ordered, m \notin InMsgs PROVE ~(env.time[m] <= outCursor)
    <3>1. outCursor \in Nat
      OBVIOUS
    <3>2. \A n \in store : n \in OutMsgs => SameStream(m, n)
      BY <2>t, <2>6 DEF SameStream
    <3> QED
      BY <2>3, <2>4, <2>6, <3>1, <3>2 DEF Bounded
  <2> QED
    BY <2>1, <2>5, <2>6
<1>26. ASSUME NEW p \in Phones, CooldownElapses(p) PROVE NoGap'
  BY <1>26 DEF CooldownElapses
<1>27. ASSUME Crash PROVE NoGap'
  BY <1>27 DEF Crash
<1>28. CASE UNCHANGED vars
  BY <1>28 DEF vars, state
<1> QED
  BY <1>1, <1>2, <1>3, <1>4, <1>5, <1>6, <1>7, <1>8, <1>9, <1>10, <1>11, <1>12, <1>13, <1>14, <1>15, <1>16, <1>17, <1>18, <1>19, <1>20, <1>21, <1>22, <1>23, <1>24, <1>25, <1>26, <1>27, <1>28
  DEF Next, Step, PollStep, HookStep

-----------------------------------------------------------------------------
LEMMA InitInv == Init => InboundInv
<1> USE ConstantsAssumption
<1> SUFFICES ASSUME Init PROVE InboundInv
  OBVIOUS
<1>1. TypeOK
  BY DEF Init, TypeOK, Msgs, Actors, Phones
<1>2. WorkInv /\ OnceInv
  BY DEF Init, WorkInv, OnceInv, Actors, Holding, InBatch
<1>3. Distinct /\ Covered /\ Bounded /\ NoGap
  BY DEF Init, Distinct, Covered, Bounded, NoGap, Stream, Actors, InBatch, Holding
<1> QED
  BY <1>1, <1>2, <1>3 DEF InboundInv

LEMMA Invariance == Spec => []InboundInv
<1>1. InboundInv /\ [Next]_vars => InboundInv'
  BY TypeStep, WorkStep, OnceStep, DistinctStep, CoveredStep, BoundedStep, NoGapStep DEF InboundInv
<1> QED
  BY <1>1, InitInv, PTL DEF Spec

\* The state keeps its types, whatever fails.
THEOREM TypeCorrect == Spec => []TypeOK
<1>1. InboundInv => TypeOK
  BY DEF InboundInv
<1> QED
  BY <1>1, Invariance, PTL

\* For any bridges, messages, limit and timestamps, also equal ones, and with crashes
\* and exceptions: a poller starts the workflow of a message once at most and replies
\* once at most.
THEOREM PolledOnceHolds == Spec => []PolledOnce
<1>1. InboundInv => PolledOnce
  BY DEF InboundInv, OnceInv, PolledOnce
<1> QED
  BY <1>1, Invariance, PTL

\* While the stores fill in the order of the timestamps, no cursor passes a message
\* that was not marked, whatever fails and whatever the webhooks do.
THEOREM NoGapHolds == Spec => []NoGap
<1>1. InboundInv => NoGap
  BY DEF InboundInv
<1> QED
  BY <1>1, Invariance, PTL
=============================================================================
