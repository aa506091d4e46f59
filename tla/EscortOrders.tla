----------------------------- MODULE EscortOrders -----------------------------
(***************************************************************************)
(* Escort programs from the order to the roster (modules/escort,           *)
(* escort_roster): a client's order makes a draft for each lighter; the    *)
(* admin's completed draft confirms one of them, or makes a confirmed      *)
(* program, and deletes the drafts it supersedes; old messages of the      *)
(* admin are backfilled as confirmed programs or matched to programs.      *)
(***************************************************************************)
EXTENDS EscortRoster

CONSTANTS
  Likeness,   \* the ratio of two vessel names, in percent
  NoProgram   \* no match

Alike(a, b) == IF a = None \/ b = None THEN 0 ELSE IF a = b THEN 100 ELSE Likeness[{a, b}]

Insert(r) == /\ lastId < MaxPrograms
             /\ lastId' = lastId + 1
             /\ programs' = [q \in DOMAIN programs \cup {lastId + 1} |->
                               IF q = lastId + 1 THEN r ELSE programs[q]]

-----------------------------------------------------------------------------
(* The client's order: handle_escort_client_message, save_escort_programs *)

Save(o, c) == IF o.lighters = <<>> THEN Idle
              ELSE [pc |-> "save", o |-> o, c |-> c]
Saved(w) == Goes(w, Save([job[w].o EXCEPT !.lighters = Tail(@)], job[w].c))

\* One program for each lighter, or one without a lighter.
HandleEscortClientMessage(w, c) ==
  \E t \in env.orders :
    LET o == ParseEscortMessage(t) IN
    /\ Takes(w, "order", Save(IF o.lighters = <<>> THEN [o EXCEPT !.lighters = <<Lighter(None, None)>>] ELSE o, c))
    /\ UNCHANGED <<programs, lastId, roster, lighters, slips, missed, env>>

\* A program of the vessels that is not 'cancelled', closed ones too, stands for the order.
SaveLook(w) ==
  LET o == job[w].o
      dup == {p \in DOMAIN programs : /\ o.mv # None /\ programs[p].mv = o.mv
                                      /\ programs[p].lv = Head(o.lighters).lv
                                      /\ programs[p].status # "cancelled"} IN
  /\ At(w, "save")
  /\ IF dup # {} THEN Saved(w) ELSE Goes(w, [job[w] EXCEPT !.pc = "save_insert"])
  /\ UNCHANGED <<programs, lastId, roster, lighters, slips, missed, served, env>>

SaveInsert(w) ==
  LET l == Head(job[w].o.lighters) IN
  /\ At(w, "save_insert")
  /\ Insert([Row(job[w].o.mv, l.lv, "draft") EXCEPT !.master = l.master, !.client = job[w].c])
  /\ Saved(w)
  /\ UNCHANGED <<roster, lighters, slips, missed, served, env>>

-----------------------------------------------------------------------------
(* The admin's completed draft: handle_admin_escort_completion *)

\* _find_pending_program: the drafts of both vessels; else the draft of the mother
\* vessel whose lighter is most alike, from 60 percent on; else any draft of the mother vessel.
\* The newest program_date wins, and of one date any.
Newest(ps) == {p \in ps : \A q \in ps : programs[q].date <= programs[p].date}
FindPendingProgram(mv, lv) ==
  LET mine == {p \in Drafts : mv # None /\ programs[p].mv = mv}
      exact == {p \in mine : lv # None /\ programs[p].lv = lv}
      best == {p \in mine : /\ Alike(lv, programs[p].lv) >= 60
                            /\ \A q \in mine : Alike(lv, programs[q].lv) <= Alike(lv, programs[p].lv)}
  IN  IF exact # {} THEN Newest(exact) ELSE IF best # {} THEN Newest(best) ELSE Newest(mine)

HandleAdminEscortCompletion(w) ==
  \E t \in env.completions :
    LET d == ParseCompletedDraft(t, Today)
        found == FindPendingProgram(d.mv, d.lv) IN
    /\ IsCompletedEscortDraft(t)
    /\ \/ \E p \in found :
            Takes(w, "complete", [pc |-> "confirm", p |-> p, d |-> d,
                                  slip |-> [client |-> programs[p].client, mv |-> d.mv, lv |-> d.lv]])
       \/ /\ found = {} \/ env.failures   \* a SELECT that raises finds nothing
          /\ Takes(w, "complete", [pc |-> "existing", d |-> d])
    /\ UNCHANGED <<programs, lastId, roster, lighters, slips, missed, env>>

\* Deviation (mutation runs): the mother vessels are compared the wrong way round.
Mut_SupersededInverted(lv, mv) ==
  {p \in Drafts : /\ Alike(lv, programs[p].lv) >= 75
                  /\ mv = None \/ programs[p].mv = None \/ Alike(mv, programs[p].mv) < 60}

\* reconcile_drafts_for_confirmation: drafts of lighters alike to 75 percent, unless
\* both mother vessels are known and less than 60 percent alike.
Superseded(lv, mv) ==
  {p \in Drafts : /\ Alike(lv, programs[p].lv) >= 75
                  /\ mv = None \/ programs[p].mv = None \/ Alike(mv, programs[p].mv) >= 60}

Reconcile(lv, mv, j) == IF lv = None THEN j ELSE [pc |-> "reconcile", lv |-> lv, mv |-> mv, then |-> j]

ReconcileRead(w) ==
  /\ At(w, "reconcile")
  /\ Goes(w, Drop(Superseded(job[w].lv, job[w].mv), job[w].then))
  /\ missed' = missed \ Superseded(job[w].lv, job[w].mv)
  /\ UNCHANGED <<programs, lastId, roster, lighters, slips, served, env>>

\* _update_program_confirmed writes by the id alone; it fills an empty lighter.  An UPDATE
\* that raises is logged, and the answer goes on all the same.
Confirmed(r, d) == [r EXCEPT !.status = "confirmed", !.escort = d.escort, !.mobile = d.mobile,
                             !.lv = IF @ = None THEN d.lv ELSE @, !.date = d.date]

UpdateProgramConfirmed(w) ==
  LET p == job[w].p
      d == job[w].d IN
  /\ At(w, "confirm")
  /\ \/ programs' = IF p \in DOMAIN programs THEN [programs EXCEPT ![p] = Confirmed(@, d)] ELSE programs
     \/ env.failures /\ programs' = programs
  /\ Goes(w, Reconcile(d.lv, d.mv, IF job[w].slip.client = None THEN Idle
                                   ELSE [pc |-> "slip", slip |-> job[w].slip]))
  /\ UNCHANGED <<lastId, roster, lighters, slips, missed, served, env>>

\* _create_confirmed_from_admin: the confirmed program of the escort on the mother
\* vessel is updated, or one is inserted.
FindExisting(w) ==
  LET d == job[w].d
      same == {p \in DOMAIN programs : /\ programs[p].status = "confirmed"
                                       /\ programs[p].mv = d.mv /\ programs[p].escort = d.escort} IN
  /\ At(w, "existing")
  /\ Goes(w, IF same # {} THEN [pc |-> "confirm", p |-> Max(same), d |-> d,
                                slip |-> [client |-> None, mv |-> d.mv, lv |-> d.lv]]
             ELSE [pc |-> "create", d |-> d])
  /\ UNCHANGED <<programs, lastId, roster, lighters, slips, missed, served, env>>

CreateConfirmed(w) ==
  LET d == job[w].d IN
  /\ At(w, "create")
  /\ Insert([Confirmed(Row(d.mv, d.lv, "confirmed"), d) EXCEPT !.master = d.master,
                                                               !.shift = IF d.shift = "" THEN "D" ELSE d.shift])
  /\ Goes(w, Reconcile(d.lv, d.mv, Idle))
  /\ UNCHANGED <<roster, lighters, slips, missed, served, env>>

\* The slip goes to the client in the remarks of the program found.
SendSlip(w) ==
  /\ At(w, "slip")
  /\ slips' = slips \cup {job[w].slip}
  /\ Done(w)
  /\ UNCHANGED <<programs, lastId, roster, lighters, missed, served, env>>

\* POST /reconcile, for every program beyond draft that has a lighter.
ReconcileAll(s) == IF s = <<>> THEN Idle ELSE [pc |-> "rec_next", rows |-> s]
ApiReconcileDrafts(w) ==
  LET ids == {p \in DOMAIN programs : /\ programs[p].status \in {"confirmed", "Assigned", "Completed"}
                                      /\ programs[p].lv # None}
      s == SetToSortSeq(ids, >) IN
  /\ Takes(w, "reconcile", ReconcileAll([k \in DOMAIN s |-> programs[s[k]]]))
  /\ UNCHANGED <<programs, lastId, roster, lighters, slips, missed, env>>

ReconcileNext(w) ==
  LET s == job[w].rows IN
  /\ At(w, "rec_next")
  /\ Goes(w, Reconcile(Head(s).lv, Head(s).mv, ReconcileAll(Tail(s))))
  /\ UNCHANGED <<programs, lastId, roster, lighters, slips, missed, served, env>>

-----------------------------------------------------------------------------
(* Backfills from the admin's old messages *)

RecordsOf(ts) == FlattenSeq([k \in DOMAIN ts |-> ParseMessageToLighters(ts[k])])

Backfill(s) == IF s = <<>> THEN Idle ELSE [pc |-> "backfill", recs |-> s]

\* sync_from_bridge_sqlite reads the outbound messages in order.
SyncFromBridgeSqlite(w) ==
  /\ Takes(w, "backfill", Backfill(RecordsOf(env.sent)))
  /\ UNCHANGED <<programs, lastId, roster, lighters, slips, missed, env>>

DateOf(r) == IF r.date = 0 THEN Today ELSE r.date

\* Deviation (mutation runs): only a program of the very day counts.
Mut_BackfilledSameDay(r) == {p \in DOMAIN programs : /\ r.lv # None /\ programs[p].lv = r.lv
                                                     /\ programs[p].date = DateOf(r)
                                                     /\ programs[p].status # "cancelled"}

\* A program of the lighter within a day; without a lighter nothing is looked for.
Backfilled(r) == {p \in DOMAIN programs : /\ r.lv # None /\ programs[p].lv = r.lv
                                          /\ programs[p].date - DateOf(r) \in -1..1
                                          /\ programs[p].status # "cancelled"}

BackfillLook(w) ==
  LET r == Head(job[w].recs) IN
  /\ At(w, "backfill")
  /\ Goes(w, IF (r.lv = None /\ r.mv = None) \/ Backfilled(r) # {} THEN Backfill(Tail(job[w].recs))
             ELSE [job[w] EXCEPT !.pc = "backfill_insert"])
  /\ UNCHANGED <<programs, lastId, roster, lighters, slips, missed, served, env>>

BackfillInsert(w) ==
  LET r == Head(job[w].recs) IN
  /\ At(w, "backfill_insert")
  /\ Insert([Row(r.mv, r.lv, "confirmed") EXCEPT !.master = r.master, !.escort = r.escort, !.mobile = r.mobile,
               !.shift = r.shift, !.date = DateOf(r), !.hist = TRUE])
  /\ Goes(w, Sync(lastId + 1, Backfill(Tail(job[w].recs))))
  /\ UNCHANGED <<roster, lighters, slips, missed, served, env>>

\* _match_to_program: the first stage that finds one; the confidence in percent.
\* Of equals in an unordered SELECT any comes first.
Found(p, conf) == [p |-> p, conf |-> conf]
MatchToProgram(r) ==
  LET P == DOMAIN programs
      Lv(p) == Alike(r.lv, programs[p].lv)
      Mv(p) == Alike(r.mv, programs[p].mv)
      Near(p, n) == r.date # 0 /\ programs[p].date - r.date \in -n..n
      Best(ps, F(_)) == {p \in ps : \A q \in ps : F(q) <= F(p)}
      mobile == {p \in P : r.mobile # None /\ programs[p].mobile = r.mobile}
      master == {p \in P : r.master # None /\ programs[p].master = r.master /\ Lv(p) >= 70}
      dated == Best({p \in P : Near(p, 14) /\ Lv(p) >= 75}, Lv)
      pair == Best({p \in P : Lv(p) >= 80 /\ Mv(p) >= 70}, LAMBDA p : Lv(p) * 60 + Mv(p) * 40)
      vessel == {p \in Best(P, Lv) : Lv(p) >= 90}
      named == {p \in P : r.escort # None /\ programs[p].escort = r.escort /\ Near(p, 3)}
  IN  IF mobile # {} THEN {Found(Max(mobile), 100)}
      ELSE IF master # {} THEN {Found(p, Min({95, 70 + (Lv(p) * 30) \div 100})) : p \in master}
      ELSE IF dated # {} THEN {Found(p, 75 + (Lv(p) * 20) \div 100) : p \in dated}
      ELSE IF pair # {} THEN {Found(p, ((Lv(p) * 60 + Mv(p) * 40) * 85) \div 10000) : p \in {Max(pair)}}
      ELSE IF vessel # {} THEN {Found(p, (Lv(p) * 75) \div 100) : p \in {Max(vessel)}}
      ELSE IF named # {} THEN {Found(p, 50) : p \in named}
      ELSE {Found(NoProgram, 0)}

History(s) == IF s = <<>> THEN Idle ELSE [pc |-> "history", recs |-> s]

\* sync_conversation_history: the group of a message is inserted once, its lighters
\* on every pass.
SyncConversationHistory(w) ==
  /\ Takes(w, "history", History(RecordsOf(env.sent)))
  /\ UNCHANGED <<programs, lastId, roster, lighters, slips, missed, env>>

HistoryMatch(w) ==
  /\ At(w, "history")
  /\ \E m \in MatchToProgram(Head(job[w].recs)) :
       Goes(w, [pc |-> "history_insert", m |-> m, recs |-> job[w].recs])
  /\ UNCHANGED <<programs, lastId, roster, lighters, slips, missed, served, env>>

HistoryInsert(w) ==
  LET m == job[w].m
      next == History(Tail(job[w].recs)) IN
  /\ At(w, "history_insert") /\ Len(lighters) < MaxLighters
  /\ lighters' = Append(lighters, [rec |-> Head(job[w].recs), p |-> m.p])
  /\ Goes(w, IF m.conf >= 75 THEN Sync(m.p, next) ELSE next)
  /\ UNCHANGED <<programs, lastId, roster, slips, missed, served, env>>

\* rebuild_roster_from_history: every program is synced, then the lighters without a
\* program are matched again.
RebuildRosterFromHistory(w) ==
  /\ Takes(w, "rebuild", SyncAll(SetToSortSeq(DOMAIN programs, <), [pc |-> "unmatched"]))
  /\ UNCHANGED <<programs, lastId, roster, lighters, slips, missed, env>>

Rematch(s) == IF s = <<>> THEN Idle ELSE [pc |-> "rematch", ids |-> s]
ReadUnmatched(w) ==
  /\ At(w, "unmatched")
  /\ Goes(w, Rematch(SelectSeq([k \in DOMAIN lighters |-> k], LAMBDA k : lighters[k].p = NoProgram)))
  /\ UNCHANGED <<programs, lastId, roster, lighters, slips, missed, served, env>>

\* Without the mother vessel, which the query does not read.
RematchOne(w) ==
  LET k == Head(job[w].ids) IN
  /\ At(w, "rematch")
  /\ \E m \in MatchToProgram([lighters[k].rec EXCEPT !.mv = None]) :
       lighters' = IF m.conf >= 50 THEN [lighters EXCEPT ![k].p = m.p] ELSE lighters
  /\ Goes(w, Rematch(Tail(job[w].ids)))
  /\ UNCHANGED <<programs, lastId, roster, slips, missed, served, env>>

-----------------------------------------------------------------------------
(* The other writers of a program *)

\* ESCORTCONFIRM, the release of a duty (see EscortRelease), and the other system.
Rewrite(p, r) ==
  /\ programs' = [programs EXCEPT ![p] = r]
  /\ UNCHANGED <<lastId, roster, lighters, slips, missed, job, kind, served, env>>
SetStatus(p, st) == Rewrite(p, [programs[p] EXCEPT !.status = st])

EscortConfirm(p) == "confirm" \in env.ops /\ programs[p].end = 0 /\ SetStatus(p, "confirmed")
Assign(p) == /\ "assign" \in env.ops /\ programs[p].status \in {"draft", "confirmed"}
             /\ SetStatus(p, "Assigned")
Cancel(p) == /\ "cancel" \in env.ops /\ programs[p].status \in {"draft", "confirmed", "Assigned"}
             /\ \E st \in {"Cancelled", "cancelled"} : SetStatus(p, st)
\* The end shift is that of the slip, by day when it names none.
CloseProgram(p) ==
  /\ "close" \in env.ops /\ programs[p].status \in {"draft", "confirmed", "Assigned"}
  /\ \E d \in Days, s \in {"D", "N"} :
       Rewrite(p, [programs[p] EXCEPT !.status = "Completed", !.end = d, !.es = s])

-----------------------------------------------------------------------------
(* Statements that fail *)

\* Where the worlds let them, the statements of orders, answers, syncs, edits and
\* deletions raise.  save_escort_programs logs it and goes on with the next lighter, an
\* answer goes on after its reconciliation and ends where it looks for a program or
\* makes one, a sync that raises is swallowed by its callers, and other requests end.
Fails(w) ==
  LET left == IF At(w, "reconcile") THEN Superseded(job[w].lv, job[w].mv) ELSE job[w].ids IN
  /\ env.failures
  /\ \/ /\ At(w, "save") \/ At(w, "save_insert")
        /\ Saved(w)
        /\ missed' = missed
     \/ /\ At(w, "reconcile") \/ At(w, "drop_entries") \/ At(w, "drop_programs")
        /\ IF kind[w] = "complete" THEN Goes(w, job[w].then) ELSE Done(w)
        /\ missed' = missed \cup left
     \/ /\ At(w, "sync_read") \/ At(w, "sync_write")
        /\ Goes(w, job[w].then)
        /\ missed' = missed
     \/ /\ \/ At(w, "existing") \/ At(w, "create") \/ At(w, "create_entry")
           \/ At(w, "edit_write") \/ At(w, "edit_read") \/ At(w, "edit_pay")
        /\ Done(w)
        /\ missed' = missed
  /\ UNCHANGED <<programs, lastId, roster, lighters, slips, served, env>>

-----------------------------------------------------------------------------
(* The worlds *)

\* What the parsers make of a text, and what a PATCH may give.
Order == [mv : Names, lighters : Seq([lv : Names, master : Phones \cup {None}])]
Record == [mv : Names, lv : Names, master : Phones \cup {None}, escort : Names, mobile : Phones \cup {None},
           date : 0..LastDay, shift : {"D", "N"}]
Completion == [mv : Names, lv : Names, master : Phones \cup {None}, escort : Names, mobile : Phones \cup {None},
               date : Days, shift : {"D", "N", ""}]
Edit == [start : 0..LastDay, end : 0..LastDay, ss : {"D", "N", ""}, es : {"D", "N", ""}, conv : Conveyances \cup {-1}]

\* The texts of a world are texts as EscortText reads them; a line with a date has its day.
ASSUME EnvironmentsAssumption ==
  \A e \in Environments :
    /\ e.overlap \in BOOLEAN /\ e.failures \in BOOLEAN
    /\ \A t \in e.orders : ParseEscortMessage(t) \in Order
    /\ \A t \in e.completions : ParseCompletedDraft(t, Today) \in Completion
    /\ RecordsOf(e.sent) \in Seq(Record)
    /\ e.edits \subseteq Edit /\ e.entries \subseteq Edit
    /\ DOMAIN e.programs \subseteq 1..MaxPrograms /\ \A p \in DOMAIN e.programs : e.programs[p] \in Program
    /\ e.listed \subseteq DOMAIN e.programs

Init ==
  /\ env \in Environments
  /\ programs = env.programs
  /\ lastId \in DOMAIN env.programs \cup {0} /\ \A p \in DOMAIN env.programs : p <= lastId
  /\ roster = [p \in env.listed |-> EntryOf(env.programs[p])]
  /\ lighters = <<>> /\ slips = {} /\ missed = {}
  /\ job = [w \in Workers |-> Idle] /\ kind = [w \in Workers |-> NoKind] /\ served = 0

Request(w) ==
  \/ \E c \in Clients : HandleEscortClientMessage(w, c)
  \/ HandleAdminEscortCompletion(w) \/ ApiReconcileDrafts(w)
  \/ SyncFromBridgeSqlite(w) \/ SyncConversationHistory(w) \/ RebuildRosterFromHistory(w)
  \/ SyncAllPrograms(w) \/ CreateRosterEntry(w)
  \/ CleanupDraftEntries(w) \/ ExpireStaleDrafts(w) \/ CleanupEmptyDrafts(w) \/ CleanupJunkDrafts(w)
  \/ \E p \in DOMAIN programs : SyncOne(w, p) \/ DeleteDraftProgram(w, p)
  \/ \E p \in DOMAIN roster : UpdateRosterEntry(w, p)

Step(w) ==
  \/ SaveLook(w) \/ SaveInsert(w) \/ Fails(w)
  \/ UpdateProgramConfirmed(w) \/ FindExisting(w) \/ CreateConfirmed(w) \/ SendSlip(w)
  \/ ReconcileRead(w) \/ ReconcileNext(w) \/ DropEntries(w) \/ DropPrograms(w)
  \/ BackfillLook(w) \/ BackfillInsert(w) \/ HistoryMatch(w) \/ HistoryInsert(w)
  \/ ReadUnmatched(w) \/ RematchOne(w)
  \/ SyncRead(w) \/ SyncWrite(w) \/ SyncNext(w)
  \/ EditWrite(w) \/ EditRead(w) \/ EditPay(w) \/ CreateEntry(w)

Next ==
  \/ \E w \in Workers : Request(w) \/ Step(w)
  \/ \E p \in DOMAIN programs : EscortConfirm(p) \/ Assign(p) \/ Cancel(p) \/ CloseProgram(p)

Spec == Init /\ [][Next]_vars

-----------------------------------------------------------------------------
AtRest == \A w \in Workers : job[w] = Idle

\* A program beyond 'draft' is never deleted: not by the reconciliation after a
\* confirmation, not by POST /reconcile, not by a clean-up or a DELETE, even when it left
\* 'draft' after the request had read it.
ConfirmedIsKept == [][\A p \in DOMAIN programs : programs[p].status # "draft" => p \in DOMAIN programs']_vars

\* Twice the days between two points in time, in half days, both ends included.
RefShifts(e) ==
  LET n == (2 * e.end + ShiftIndex(e.es)) - (2 * e.start + ShiftIndex(e.ss)) + 1
  IN  IF n < 0 THEN 0 ELSE n

\* An edit overlaps no other request, none of its statements fails, and it gives a date or
\* a shift: a conveyance given alone is written without the total.
EditsRecompute ==
  "edit" \in env.ops =>
    /\ ~env.overlap \/ "edit" \in env.apart
    /\ ~env.failures
    /\ \A u \in env.edits : u.start > 0 \/ u.end > 0 \/ u.ss # "" \/ u.es # ""

\* The total of an entry that has not both dates: the legacy payment of its program.
Legacy(p) == IF p \in DOMAIN env.programs THEN env.programs[p].legacy ELSE 0
UndatedTotal(p) == IF Legacy(p) > 0 THEN Legacy(p) ELSE -1

\* However an entry came by its dates (a sync, an edit, by hand, several of them), its pay
\* is that of its dates and shifts: the shifts from start to end at the rate, and the
\* conveyance; a legacy payment lasts until there are two dates and no longer
\* (update_roster_entry, sync_program_to_roster, create_roster_entry, count_shifts).
PayFollowsDates ==
  EditsRecompute => \A p \in DOMAIN roster :
    LET e == roster[p]
        dated == e.start # 0 /\ e.end # 0 IN
    /\ dated /\ AtRest => e.total = RefShifts(e) * Rate + e.conv
    /\ ~dated => e.total = UndatedTotal(p)

\* When the admin has answered orders that raced each other, no draft is left of a lighter
\* that has a confirmed program of the same mother vessel: the drafts that two order
\* handlers made of one order are found by the reconciliation.  Only a statement of it
\* that fails, which the answer swallows, leaves the drafts it was to delete, until
\* an answer reconciles them again.
SupersededIsGone ==
  (AtRest /\ {"complete", "delete"} \subseteq env.apart) =>
    \A p, q \in DOMAIN programs :
      ~ /\ programs[p].status = "draft" /\ p \notin missed /\ programs[q].status = "confirmed"
        /\ programs[p].mv = programs[q].mv /\ programs[p].lv = programs[q].lv /\ programs[p].lv # None

\* A backfill that is run again, after programs have been confirmed, cancelled or
\* deleted, makes no second program for a duty it has: no two backfilled programs of a
\* lighter are within a day of each other.
BackfilledOnce ==
  ("backfill" \in env.apart) => \A p, q \in DOMAIN programs :
    ~ /\ p # q /\ programs[p].hist /\ programs[q].hist
      /\ programs[p].status # "cancelled" /\ programs[q].status # "cancelled"
      /\ programs[p].lv = programs[q].lv /\ programs[p].lv # None
      /\ programs[p].date - programs[q].date \in -1..1

=============================================================================
