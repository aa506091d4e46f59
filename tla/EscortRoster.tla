----------------------------- MODULE EscortRoster -----------------------------
(***************************************************************************)
(* The escort roster (escort_roster/db, calculations): a mirror of the     *)
(* programs (wbom_escort_programs) with the pay of each, kept in           *)
(* escort_roster_entries.  Entries are written by the sync of a program,   *)
(* by edits and by hand, and deleted with drafts.                          *)
(*                                                                         *)
(* A request is served by a worker and split at its awaits; no statement   *)
(* shares a transaction with another.  A read that only feeds the next     *)
(* statement of the same function is one step with the reads around it.    *)
(***************************************************************************)
EXTENDS EscortText, FiniteSets, FiniteSetsExt, Functions

CONSTANTS
  MaxPrograms,  \* bound: program ids are 1 .. MaxPrograms; greater ids are entries made by hand
  MaxEntries,   \* bound: ids of roster entries
  Clients,
  Today,        \* CURRENT_DATE
  Rate,         \* shift_rate
  Conveyances,  \* what a PATCH may set; the configured one is 0
  Workers,
  MaxRequests,  \* bound: requests served in a behaviour
  MaxLighters,  \* bound: rows of escort_order_lighters
  Environments  \* see env

ASSUME RosterAssumption ==
  /\ LastDay \in Nat /\ Today \in 1..LastDay /\ Rate \in Nat /\ Conveyances \subseteq Nat
  /\ MaxPrograms \in Nat /\ MaxEntries \in Nat /\ MaxRequests \in Nat /\ MaxLighters \in Nat
  /\ None \notin Vessels \cup Escorts \cup Phones \cup Clients

VARIABLES
  programs,   \* wbom_escort_programs: a function on the ids of its rows
  lastId,     \* its sequence
  roster,     \* escort_roster_entries: a function on the program_ids of its rows
  lighters,   \* escort_order_lighters
  slips,      \* the final slips sent to clients
  missed,     \* history: the drafts a failed statement left after an answer of the admin
  job,        \* what each worker is at
  kind,       \* the kind of its request
  served,     \* requests taken so far
  env         \* the operations, texts, clients and days of a behaviour, and whether
              \* requests overlap and statements fail

vars == <<programs, lastId, roster, lighters, slips, missed, job, kind, served, env>>

Days == 1..LastDay
Statuses == {"draft", "confirmed", "Assigned", "Completed", "Cancelled", "cancelled"}
Names == Vessels \cup Escorts \cup {None, Signature, Heading}
Program == [mv : Names, lv : Names, master : Phones \cup {None}, escort : Names, mobile : Phones \cup {None},
            status : Statuses, date : Days, shift : {"D", "N"}, end : 0..LastDay, es : {"D", "N", ""},
            legacy : Nat, client : Clients \cup {None}, hist : BOOLEAN]
\* start and end are 0 while not given, total is -1 while there is no pay.
Entry == [lv : Names, status : {"draft", "active", "completed", "cancelled"}, start : 0..LastDay, ss : {"D", "N"},
          end : 0..LastDay, es : {"D", "N"}, shifts : Nat, conv : Nat, total : Int, version : Nat]

\* end_shift (es) is written with the end; total_payment (legacy) by no code of today.
Row(mv, lv, st) == [mv |-> mv, lv |-> lv, master |-> None, escort |-> None, mobile |-> None, status |-> st,
                    date |-> Today, shift |-> "D", end |-> 0, es |-> "", legacy |-> 0,
                    client |-> None, hist |-> FALSE]

\* A worker's job is its position and what it keeps between awaits (then: the job to
\* go on with).
Idle == [pc |-> "idle"]
NoKind == "none"
Goes(w, j) == /\ job' = [job EXCEPT ![w] = j]
              /\ kind' = IF j = Idle THEN [kind EXCEPT ![w] = NoKind] ELSE kind
\* Worker w takes a request of kind o and goes on with j.  Requests overlap where the
\* environment lets them; those of env.apart run alone.
Takes(w, o, j) ==
  /\ job[w] = Idle /\ served < MaxRequests /\ o \in env.ops
  /\ \A v \in Workers : job[v] # Idle => env.overlap /\ {o, kind[v]} \cap env.apart = {}
  /\ job' = [job EXCEPT ![w] = j]
  /\ kind' = IF j = Idle THEN kind ELSE [kind EXCEPT ![w] = o]
  /\ served' = served + 1
At(w, l) == job[w] # Idle /\ job[w].pc = l
Done(w) == Goes(w, Idle)

-----------------------------------------------------------------------------
(* Shifts and pay *)

ShiftIndex(s) == IF s = "D" THEN 0 ELSE 1

\* Deviation (mutation runs): the loop takes in the last day, which is added again.
Mut_CountShiftsLastDay(start, ss, end, es) ==
  LET loop[d \in 0..LastDay + 1] == IF d <= end THEN 2 + loop[d + 1] ELSE 0
  IN  IF end < start THEN 0
      ELSE IF start = end THEN IF ShiftIndex(es) < ShiftIndex(ss) THEN 0
                               ELSE ShiftIndex(es) - ShiftIndex(ss) + 1
      ELSE (2 - ShiftIndex(ss)) + loop[start + 1] + (ShiftIndex(es) + 1)

\* count_shifts: the first day from its shift on, two for each day between, the
\* last day up to its shift.
CountShifts(start, ss, end, es) ==
  LET loop[d \in 0..LastDay + 1] == IF d < end THEN 2 + loop[d + 1] ELSE 0
  IN  IF end < start THEN 0
      ELSE IF start = end THEN IF ShiftIndex(es) < ShiftIndex(ss) THEN 0
                               ELSE ShiftIndex(es) - ShiftIndex(ss) + 1
      ELSE (2 - ShiftIndex(ss)) + loop[start + 1] + (ShiftIndex(es) + 1)

\* calculate_pay, on an entry with both dates
Paid(e, conv) ==
  LET n == CountShifts(e.start, e.ss, e.end, e.es)
  IN  [e EXCEPT !.shifts = n, !.conv = conv, !.total = n * Rate + conv]

RosterStatus(st) == CASE st \in {"draft", "confirmed"} -> "draft"
                      [] st = "Assigned" -> "active"
                      [] st = "Completed" -> "completed"
                      [] OTHER -> "cancelled"

-----------------------------------------------------------------------------
(* sync_program_to_roster *)

\* The entry that the row of a program gives: a duty without an end shift ends with the
\* night, and one without an end date keeps its legacy payment.
EntryOf(r) ==
  LET e == [lv |-> r.lv, status |-> RosterStatus(r.status), start |-> r.date, ss |-> r.shift,
            end |-> r.end, es |-> IF r.es = "" THEN "N" ELSE r.es, shifts |-> 0, conv |-> 0, total |-> -1, version |-> 1]
  IN  IF r.end # 0 THEN Paid(e, 0)
      ELSE IF r.legacy > 0 THEN [e EXCEPT !.total = r.legacy] ELSE e

\* A sync of program p that goes on with job j.
Sync(p, j) == [pc |-> "sync_read", p |-> p, then |-> j]

\* The program and the version of its entry are read; a program that is gone is an
\* error, which every caller swallows.
SyncRead(w) ==
  LET p == job[w].p IN
  /\ At(w, "sync_read")
  /\ IF p \in DOMAIN programs
     THEN Goes(w, [pc |-> "sync_write", p |-> p, e |-> EntryOf(programs[p]),
                   old |-> IF p \in DOMAIN roster THEN roster[p].version ELSE 0, then |-> job[w].then])
     ELSE Goes(w, job[w].then)
  /\ UNCHANGED <<programs, lastId, roster, lighters, slips, missed, served, env>>

\* UPDATE of an entry that is still there, or INSERT unless one has come (UNIQUE).
SyncWrite(w) ==
  LET p == job[w].p
      old == job[w].old IN
  /\ At(w, "sync_write")
  /\ roster' = IF old > 0 /\ p \in DOMAIN roster
               THEN [roster EXCEPT ![p] = [job[w].e EXCEPT !.version = old + 1]]
               ELSE IF old = 0 /\ p \notin DOMAIN roster
               THEN [q \in DOMAIN roster \cup {p} |-> IF q = p THEN job[w].e ELSE roster[q]]
               ELSE roster
  /\ Goes(w, job[w].then)
  /\ UNCHANGED <<programs, lastId, lighters, slips, missed, served, env>>

\* /sync, /recalculate and /sync-all: the programs one after the other.
SyncAll(s, j) == [pc |-> "sync_all", ids |-> s, then |-> j]

SyncOne(w, p) ==
  /\ Takes(w, "sync", Sync(p, Idle))
  /\ p \in DOMAIN programs
  /\ UNCHANGED <<programs, lastId, roster, lighters, slips, missed, env>>

SyncAllPrograms(w) ==
  /\ Takes(w, "syncall", SyncAll(SetToSortSeq(DOMAIN programs, <), Idle))
  /\ UNCHANGED <<programs, lastId, roster, lighters, slips, missed, env>>

SyncNext(w) ==
  /\ At(w, "sync_all")
  /\ IF job[w].ids = <<>> THEN Goes(w, job[w].then)
     ELSE Goes(w, Sync(Head(job[w].ids), SyncAll(Tail(job[w].ids), job[w].then)))
  /\ UNCHANGED <<programs, lastId, roster, lighters, slips, missed, served, env>>

-----------------------------------------------------------------------------
(* Edits and entries made by hand *)

\* PATCH /{id}: the fields given, in one UPDATE.
UpdateRosterEntry(w, p) ==
  \E u \in env.edits :
    /\ p \in DOMAIN roster
    /\ Takes(w, "edit", [pc |-> "edit_write", p |-> p, u |-> u])
    /\ UNCHANGED <<programs, lastId, roster, lighters, slips, missed, env>>

\* What a request gives of an entry: start, end are 0, the shifts "" and conv -1 when it
\* does not.
Patched(e, u) == [e EXCEPT !.start = IF u.start > 0 THEN u.start ELSE @,
                           !.end = IF u.end > 0 THEN u.end ELSE @,
                           !.ss = IF u.ss # "" THEN u.ss ELSE @,
                           !.es = IF u.es # "" THEN u.es ELSE @,
                           !.conv = IF u.conv >= 0 THEN u.conv ELSE @]

EditWrite(w) ==
  LET p == job[w].p
      u == job[w].u IN
  /\ At(w, "edit_write")
  /\ roster' = IF p \notin DOMAIN roster THEN roster ELSE [roster EXCEPT ![p] = Patched(@, u)]
  /\ IF u.start > 0 \/ u.end > 0 \/ u.ss # "" \/ u.es # "" THEN Goes(w, [job[w] EXCEPT !.pc = "edit_read"]) ELSE Done(w)
  /\ UNCHANGED <<programs, lastId, lighters, slips, missed, served, env>>

\* When a date or a shift was given the row is read again and its pay computed,
\* with the conveyance of the destination unless one was given ...
EditRead(w) ==
  LET p == job[w].p IN
  /\ At(w, "edit_read")
  /\ IF p \in DOMAIN roster /\ roster[p].start # 0 /\ roster[p].end # 0
     THEN Goes(w, [pc |-> "edit_pay", p |-> p,
                   e |-> Paid(roster[p], IF job[w].u.conv >= 0 THEN job[w].u.conv ELSE 0)])
     ELSE Done(w)
  /\ UNCHANGED <<programs, lastId, roster, lighters, slips, missed, served, env>>

\* ... and only the pay is written.
EditPay(w) ==
  LET p == job[w].p
      e == job[w].e IN
  /\ At(w, "edit_pay")
  /\ roster' = IF p \notin DOMAIN roster THEN roster
               ELSE [roster EXCEPT ![p].shifts = e.shifts, ![p].conv = e.conv, ![p].total = e.total]
  /\ Done(w)
  /\ UNCHANGED <<programs, lastId, lighters, slips, missed, served, env>>

\* POST: an id above all others is read ...
CreateRosterEntry(w) ==
  /\ \E p \in MaxPrograms + 1..MaxEntries, u \in env.entries :
       /\ p - 1 \in DOMAIN roster \cup {MaxPrograms} /\ \A q \in DOMAIN roster : q < p
       /\ Takes(w, "create", [pc |-> "create_entry", p |-> p, u |-> u])
  /\ UNCHANGED <<programs, lastId, roster, lighters, slips, missed, env>>

\* The entry that a request u gives, with its pay when both dates are known.
HandMade(u) ==
  LET conv == IF u.conv >= 0 THEN u.conv ELSE 0
      e == [lv |-> None, status |-> "draft", start |-> u.start, ss |-> IF u.ss = "" THEN "D" ELSE u.ss,
            end |-> u.end, es |-> IF u.es = "" THEN "N" ELSE u.es,
            shifts |-> 0, conv |-> conv, total |-> -1, version |-> 1]
  IN  IF u.start # 0 /\ u.end # 0 THEN Paid(e, conv) ELSE e

\* ... and inserted, unless another request has taken it.
CreateEntry(w) ==
  LET p == job[w].p IN
  /\ At(w, "create_entry")
  /\ roster' = IF p \in DOMAIN roster THEN roster
               ELSE [q \in DOMAIN roster \cup {p} |-> IF q = p THEN HandMade(job[w].u) ELSE roster[q]]
  /\ Done(w)
  /\ UNCHANGED <<programs, lastId, lighters, slips, missed, served, env>>

-----------------------------------------------------------------------------
(* Deletions *)

\* cleanup_draft_entries deletes the entries of roster_status 'draft', which those
\* of confirmed programs have too; expire_stale_drafts those that are old.
DeleteDraftEntries(ids) ==
  /\ roster' = Restrict(roster, DOMAIN roster \ ids)
  /\ UNCHANGED <<programs, lastId, lighters, slips, missed, env>>

DraftEntries == {p \in DOMAIN roster : roster[p].status = "draft"}
CleanupDraftEntries(w) == Takes(w, "cleanup", Idle) /\ DeleteDraftEntries(DraftEntries)
ExpireStaleDrafts(w) == \E old \in SUBSET DraftEntries : Takes(w, "expire", Idle) /\ DeleteDraftEntries(old)

\* The programs ids are to go, entries first, and job j after that.
Drop(ids, j) == IF ids = {} THEN j ELSE [pc |-> "drop_entries", ids |-> ids, then |-> j]

DropEntries(w) ==
  /\ At(w, "drop_entries")
  /\ roster' = Restrict(roster, DOMAIN roster \ job[w].ids)
  /\ Goes(w, [job[w] EXCEPT !.pc = "drop_programs"])
  /\ UNCHANGED <<programs, lastId, lighters, slips, missed, served, env>>

\* Deviation (mutation runs): the rows are deleted by their ids alone.
Mut_DropProgramsAny(w) ==
  /\ At(w, "drop_programs")
  /\ programs' = Restrict(programs, DOMAIN programs \ job[w].ids)
  /\ Goes(w, job[w].then)
  /\ UNCHANGED <<lastId, roster, lighters, slips, missed, served, env>>

\* DELETE ... AND status = 'draft'
DropPrograms(w) ==
  /\ At(w, "drop_programs")
  /\ programs' = Restrict(programs, {p \in DOMAIN programs : p \in job[w].ids => programs[p].status # "draft"})
  /\ Goes(w, job[w].then)
  /\ UNCHANGED <<lastId, roster, lighters, slips, missed, served, env>>

Drafts == {p \in DOMAIN programs : programs[p].status = "draft"}
CleanupEmptyDrafts(w) ==
  \E old \in SUBSET {p \in Drafts : programs[p].mv = None /\ programs[p].lv = None /\ programs[p].escort = None} :
    /\ Takes(w, "empty", Drop(old, Idle))
    /\ UNCHANGED <<programs, lastId, roster, lighters, slips, missed, env>>

CleanupJunkDrafts(w) ==
  /\ Takes(w, "junk", Drop({p \in Drafts : programs[p].lv = Heading}, Idle))
  /\ UNCHANGED <<programs, lastId, roster, lighters, slips, missed, env>>

DeleteDraftProgram(w, p) ==
  /\ Takes(w, "delete", Drop({p} \cap Drafts, Idle))
  /\ UNCHANGED <<programs, lastId, roster, lighters, slips, missed, env>>
=============================================================================
