---------------------------- MODULE PayrollPeople ----------------------------
(***************************************************************************)
(* Who a payment belongs to (fazle_payroll_engine: employee, normalization,*)
(* PATCH /employees).  A payment names a person by phone, employee id and  *)
(* name; the engine looks the person up in stages and makes a new employee *)
(* when a phone leads nowhere.  Duplicates are not deleted but point to    *)
(* the employee they duplicate, and every lookup follows the pointers.     *)
(*                                                                         *)
(* Not modelled: audit rows, name aliases and resolution_status, which no  *)
(* lookup reads, and employee_code, which repeats the id.                  *)
(***************************************************************************)
EXTENDS PayrollRules, FiniteSets, FiniteSetsExt

CONSTANTS
  Emps,          \* rows fpe_employees may hold
  Phones, Names,
  Likeness,      \* fuzz.token_set_ratio of two names, in percent
  WbomPhones,    \* phones of active wbom_employees
  Admins,        \* identity requests that may be open at once
  Bodies,        \* bodies of PATCH requests: new id, primary phone and name
  NoEmp

MaybePhone == Phones \cup {NoPhone}
MaybeName == Names \cup {NoName}

ASSUME PeopleAssumption ==
  /\ IsFiniteSet(Emps)
  /\ NoEmp \notin Emps /\ NoPhone \notin Phones /\ NoName \notin Names
  /\ WbomPhones \subseteq Phones
  /\ Likeness \in [Names \X Names -> 0..100]

VARIABLES
  emp,      \* fpe_employees: present, active, primary, id, name, canon
  alias,    \* fpe_employee_aliases of type phone
  doubts,   \* fpe_employee_review_queue: candidate, suspect, status
  apc, ask  \* of an identity request: where it is, what it asks for

peopleVars == <<emp, alias, doubts, apc, ask>>

NoBody == [id |-> NoPhone, primary |-> NoPhone, name |-> NoName]
NoRequest == [op |-> "none", dup |-> NoEmp, canon |-> NoEmp, body |-> NoBody, old |-> {}, doubt |-> {}]
Absent == [present |-> FALSE, active |-> FALSE, primary |-> NoPhone, id |-> NoPhone,
           name |-> NoName, canon |-> NoEmp]
Person(primary, id, name) ==
  [present |-> TRUE, active |-> TRUE, primary |-> primary, id |-> id, name |-> name, canon |-> NoEmp]

Present(e) == emp[e].present
Active == {e \in Emps : emp[e].present /\ emp[e].active}

-----------------------------------------------------------------------------
(* Lookup *)

\* _resolve_canonical and resolve_to_canonical: at most eight pointers, none
\* of them twice.
Resolve(c, e) ==
  LET follow[n \in 0..8] ==
        [x \in Emps |-> [seen \in SUBSET Emps |->
           IF n = 0 \/ c[x] = NoEmp \/ x \in seen THEN x
           ELSE follow[n - 1][c[x]][seen \cup {x}]]]
  IN  follow[8][e][{}]
Pointers == [e \in Emps |-> emp[e].canon]

ByPrimary(p) == {e \in Active : p # NoPhone /\ emp[e].primary = p}
ById(p) == {e \in Active : p # NoPhone /\ emp[e].id = p}
ByAlias(p) == {e \in Active : p # NoPhone /\ alias[p] = e}
ByWbom(p) == IF p \in WbomPhones THEN ByPrimary(p) ELSE {}
ByName(n) == {e \in Active : n # NoName /\ emp[e].name = n}

\* Fuzzy names: FUZZY_THRESHOLD and FUZZY_AMBIGUITY_MARGIN.
Named == {e \in Active : emp[e].name # NoName}
Score(n, e) == Likeness[n, emp[e].name]
ByLikeness(n) ==
  IF n = NoName THEN {}
  ELSE {e \in Named : Score(n, e) >= 96
                       /\ \A f \in Named \ {e} : Score(n, e) - Score(n, f) >= 5}
\* The best name, when it is close enough to ask a reviewer.
Suspects(n) ==
  IF n = NoName THEN {}
  ELSE {e \in Named : Score(n, e) >= 70 /\ \A f \in Named : Score(n, e) >= Score(n, f)}

\* The employees the first stage that finds any finds; fetch_one takes one.
Found(w) ==
  LET stages == <<ByPrimary(w.pay), ById(w.id), ByAlias(w.pay), ByAlias(w.id),
                  ByWbom(w.pay) \cup ByWbom(w.id), ByName(w.name), ByLikeness(w.name)>>
      hits == {i \in DOMAIN stages : stages[i] # {}}
  IN  IF hits = {} THEN {} ELSE stages[Min(hits)]
\* A person without any phone is not created.
Creatable(w) == w.pay # NoPhone \/ w.id # NoPhone

\* _maybe_enrich_full_name: a person known by phone only gets the name.
ByPhoneStage(w) == ByPrimary(w.pay) \cup ById(w.id) \cup ByAlias(w.pay) \cup ByAlias(w.id) # {}
Enriched(e, w) ==
  IF ByPhoneStage(w) /\ w.name # NoName /\ emp[e].name = NoName
  THEN [emp EXCEPT ![e].name = w.name] ELSE emp

\* match_or_create_employee finds somebody: r is the employee it returns.
Match(w, r) ==
  /\ \E e \in Found(w) : r = Resolve(Pointers, e)
  /\ emp' = Enriched(r, w)
  /\ UNCHANGED <<alias, doubts>>

\* _auto_create_employee, one transaction under the lock of the person: looks
\* again, by id or primary phone and then by name, and inserts.
Again(w) ==
  LET id == IF w.id # NoPhone THEN w.id ELSE w.pay
      phones == ById(id) \cup ByPrimary(id)
  IN  IF phones # {} THEN phones ELSE ByName(w.name)
\* Somebody with a close name is put before a reviewer.
Doubt(w, r) ==
  \/ Suspects(w.name) = {} /\ UNCHANGED doubts
  \/ \E s \in Suspects(w.name) :
       doubts' = IF s = r THEN doubts
                 ELSE doubts \cup {[cand |-> r, susp |-> s, status |-> "pending"]}
AutoCreate(w, r) ==
  /\ Found(w) = {} /\ Creatable(w)
  /\ \/ /\ \E e \in Again(w) : r = Resolve(Pointers, e)
        /\ UNCHANGED <<emp, alias>>
     \/ /\ Again(w) = {} /\ ~Present(r)
        /\ LET id == IF w.id # NoPhone THEN w.id ELSE w.pay IN
             /\ emp' = [emp EXCEPT ![r] = Person(w.pay, id, w.name)]
             /\ alias' = [p \in Phones |->
                            IF p \in {w.pay, id} /\ alias[p] = NoEmp THEN r ELSE alias[p]]
  /\ Doubt(w, r)

-----------------------------------------------------------------------------
(* Identity requests *)

Idle(a) == apc[a] = "idle"
Ask(a, l, q) == apc' = [apc EXCEPT ![a] = l] /\ ask' = [ask EXCEPT ![a] = q]
Done(a) == Ask(a, "idle", NoRequest)

\* Deviation (mutation runs): the canonical row may be a duplicate itself.
Mut_LinkableChain(dup, canon) == dup # canon /\ Present(dup) /\ Present(canon)

\* link_duplicate up to the lock: the rows are read, and the canonical one must
\* not point elsewhere.
Linkable(dup, canon) ==
  /\ dup # canon /\ Present(dup) /\ Present(canon)
  /\ emp[canon].canon = NoEmp
LinkRead(a, dup, canon) ==
  /\ Idle(a) /\ Linkable(dup, canon)
  /\ Ask(a, "link", [NoRequest EXCEPT !.op = "link", !.dup = dup, !.canon = canon])
  /\ UNCHANGED <<emp, alias, doubts>>

\* resolve_review: approved_merge goes through link_duplicate, the other
\* decisions only close the row.
ReviewRead(a, d, merge) ==
  /\ Idle(a) /\ d \in doubts /\ d.status = "pending"
  /\ merge => Linkable(d.cand, d.susp)
  /\ Ask(a, IF merge THEN "link" ELSE "close",
         [NoRequest EXCEPT !.op = "review", !.dup = d.cand, !.canon = d.susp, !.doubt = {d}])
  /\ UNCHANGED <<emp, alias, doubts>>

\* The transaction of link_duplicate.  pg_advisory_xact_lock is called before
\* the transaction starts, so that it is given back at once.
LinkWrite(a) ==
  /\ apc[a] = "link"
  /\ emp' = [emp EXCEPT ![ask[a].dup].canon = ask[a].canon]
  /\ IF ask[a].op = "review" THEN Ask(a, "close", ask[a]) ELSE Done(a)
  /\ UNCHANGED <<alias, doubts>>

ReviewClose(a) ==
  /\ apc[a] = "close"
  /\ doubts' = (doubts \ ask[a].doubt) \cup {[d EXCEPT !.status = "resolved"] : d \in ask[a].doubt}
  /\ Done(a)
  /\ UNCHANGED <<emp, alias>>

\* PATCH /employees/{id}.  When somebody active has the new employee_id_phone,
\* this row becomes a duplicate of whoever that resolves to.
PatchRead(a, e, body) ==
  /\ Idle(a) /\ Present(e)
  /\ LET owners == IF body.id = emp[e].id THEN {} ELSE ById(body.id) \ {e}
         targets == IF owners = {} THEN {e} ELSE {Resolve(Pointers, o) : o \in owners}
     IN  \E target \in targets :
           Ask(a, "patch", [NoRequest EXCEPT !.op = "patch", !.dup = e, !.body = body,
                              !.canon = IF target = e THEN NoEmp ELSE target,
                              !.old = {emp[e].primary, emp[e].id}])
  /\ UNCHANGED <<emp, alias, doubts>>

\* One UPDATE of the fields that are given; the id only when it is not shared.
PatchWrite(a) ==
  /\ apc[a] = "patch"
  /\ LET q == ask[a]
         new == [emp[q.dup] EXCEPT
                   !.name = IF q.body.name = NoName THEN @ ELSE q.body.name,
                   !.primary = IF q.body.primary = NoPhone THEN @ ELSE q.body.primary,
                   !.id = IF q.body.id = NoPhone \/ q.canon # NoEmp THEN @ ELSE q.body.id,
                   !.canon = IF q.canon = NoEmp THEN @ ELSE q.canon]
     IN  emp' = [emp EXCEPT ![q.dup] = new]
  /\ IF ask[a].canon = NoEmp THEN Done(a) ELSE Ask(a, "fold", ask[a])
  /\ UNCHANGED <<alias, doubts>>

\* The merged row's phones become aliases of the target where they are free.
PatchFold(a) ==
  /\ apc[a] = "fold"
  /\ alias' = [p \in Phones |-> IF p \in ask[a].old /\ alias[p] = NoEmp
                                THEN ask[a].canon ELSE alias[p]]
  /\ Done(a)
  /\ UNCHANGED <<emp, doubts>>

\* mark_inactive and add_alias_safe: one statement.
MarkInactive(e) ==
  /\ e \in Active
  /\ emp' = [emp EXCEPT ![e].active = FALSE]
  /\ UNCHANGED <<alias, doubts, apc, ask>>

AddAlias(e, p) ==
  /\ Present(e) /\ alias[p] = NoEmp
  /\ alias' = [alias EXCEPT ![p] = e]
  /\ UNCHANGED <<emp, doubts, apc, ask>>

AdminStep(a) ==
  \/ \E d, c \in Emps : LinkRead(a, d, c)
  \/ \E d \in doubts, merge \in BOOLEAN : ReviewRead(a, d, merge)
  \/ \E e \in Emps, body \in Bodies : PatchRead(a, e, body)
  \/ LinkWrite(a) \/ ReviewClose(a) \/ PatchWrite(a) \/ PatchFold(a)

-----------------------------------------------------------------------------
\* Every employee leads to one who is nobody's duplicate: link_duplicate
\* refuses a canonical row that points elsewhere, and PATCH resolves its target
\* first, so that the soft links of employee.py form no circle.
LinksLeadHome == \A e \in Emps : Pointers[Resolve(Pointers, e)] = NoEmp
=============================================================================
