------------------------------- MODULE Roles -------------------------------
(***************************************************************************)
(* Admin users and their roles (modules/rbac): the check in front of every *)
(* command and the commands that change users.                             *)
(***************************************************************************)
EXTENDS DeskTasks

CONSTANTS
  Phones,   \* phones of admins, now or later
  Owners    \* ADMIN_NUMBERS

VARIABLES users   \* fazle_admins with fazle_admin_roles

Levels == <<"viewer", "operator", "accountant", "admin", "superadmin">>
Level(role) == CHOOSE i \in DOMAIN Levels : Levels[i] = role
MaxLevel(p) == IF users[p].roles = {} THEN 0
               ELSE CHOOSE n \in {Level(r) : r \in users[p].roles} :
                      \A r \in users[p].roles : Level(r) <= n

\* Deviation (mutation runs): USER ROLE and USER ADD ask for an admin only.
Mut_RoleForAdmins(command) ==
  CASE command \in {"approve", "reject", "edit"} -> "operator"
    [] command \in {"payimport", "payroll_compute", "payroll_trans", "payroll_paid", "payroll_cancel"} -> "accountant"
    [] command \in {"schedule_run", "user_role", "user_add"} -> "admin"
    [] OTHER -> "superadmin"

\* COMMAND_ROLE
RequiredRole(command) ==
  CASE command \in {"approve", "reject", "edit"} -> "operator"
    [] command \in {"payimport", "payroll_compute", "payroll_trans", "payroll_paid", "payroll_cancel"} -> "accountant"
    [] command = "schedule_run" -> "admin"
    [] OTHER -> "superadmin"

NoUser == [status |-> "none", roles |-> {}]
User(roles) == [status |-> "active", roles |-> roles]

\* ensure_bootstrap_admins: an owner without a row gets one, an owner with a row
\* gets the role; the status of the row stays.
Bootstrapped(u) ==
  [p \in Phones |-> IF p \notin Owners THEN u[p]
                    ELSE IF u[p].status = "none" THEN User({"superadmin"})
                    ELSE [u[p] EXCEPT !.roles = @ \cup {"superadmin"}]]

RolesInit ==
  users = Bootstrapped([p \in Phones |->
            IF p \in DOMAIN env.users THEN User({env.users[p]}) ELSE NoUser])

\* check_permission: who the phone is ...
CheckActor(t) ==
  /\ At(t, "check")
  /\ IF users[job[t].by].status = "active" THEN Goto(t, "check_level") ELSE Finish(t)
  /\ UNCHANGED users

Permitted(t) == MaxLevel(job[t].by) >= Level(RequiredRole(job[t].op))

\* add_admin makes the user ...
AddUser(t) ==
  /\ At(t, "user_add")
  /\ IF users[job[t].phone].status # "none" THEN UNCHANGED users /\ Finish(t)
     ELSE users' = [users EXCEPT ![job[t].phone] = User({})] /\ Goto(t, "grant")

\* ... and then grants the role; set_role grants one to a user that exists and
\* takes none away.
SetRole(t) ==
  /\ At(t, "user_role")
  /\ IF users[job[t].phone].status = "none" THEN Finish(t) ELSE Goto(t, "grant")
  /\ UNCHANGED users

Grant(t) ==
  /\ At(t, "grant")
  /\ users' = [users EXCEPT ![job[t].phone].roles = @ \cup {job[t].role}]
  /\ Finish(t)

\* disable_admin; nothing enables the user again.
DisableUser(t) ==
  /\ At(t, "user_remove")
  /\ users' = IF users[job[t].phone].status = "none" THEN users
              ELSE [users EXCEPT ![job[t].phone].status = "disabled"]
  /\ Finish(t)

\* revoke_role; no command leads here, only the route.
RevokeRole(t) ==
  /\ At(t, "user_revoke")
  /\ users' = [users EXCEPT ![job[t].phone].roles = @ \ {job[t].role}]
  /\ Finish(t)

UserRoutes == {"user_add", "user_role", "user_revoke", "user_remove"}

\* The routes under /admin/users ask for the key of the application and for no
\* role.
UserRoute(t, op, p, role) ==
  /\ op \in env.routes
  /\ Begin(t, op, [op |-> op, by |-> "http", phone |-> p, role |-> role])
  /\ UNCHANGED users

RolesStep(t) == AddUser(t) \/ SetRole(t) \/ Grant(t) \/ DisableUser(t) \/ RevokeRole(t)
=============================================================================
