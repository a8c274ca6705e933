-------------------------------- MODULE Staff --------------------------------
(***************************************************************************)
(* Roles, permissions and staff accounts: admin_staff.py,                  *)
(* admin_staff_service.py, rbac.py, rbac_seed.py and the administrator's   *)
(* part of users.py.  A permission stands for its group: profile for the   *)
(* baseline of every staff account, book for what travelers may do, manage *)
(* for users.admin.manage, staff for admins.staff.*.                       *)
(***************************************************************************)
EXTENDS Naturals, FiniteSets

CONSTANTS
    Users,
    Chief,          \* the administrator that is seeded
    StaffRoles,     \* rows for the roles named staff-...
    Workers, Null,
    Asks            \* permissions that a request may name

ASSUME StaffAssumption ==
    /\ Asks \subseteq SUBSET {"profile", "book", "manage", "staff"}
    /\ Chief \in Users
    /\ {"user", "superadmin", Null} \cap StaffRoles = {}
    /\ Null \notin {"user", "superadmin"}
    /\ \A P \in SUBSET {"profile", "book", "manage", "staff"} : P # Null

VARIABLES
    user,       \* users, with whether they have an admin and a passenger row
    perms,      \* role_permissions, Null where there is no role
    granted,    \* the permissions the last edit of a staff role asked for
    req         \* each request under way, with what it has loaded

vars == <<user, perms, granted, req>>

-----------------------------------------------------------------------------
ALL_PERMISSIONS == {"profile", "book", "manage", "staff"}
USER_ROLE_PERMISSIONS == {"book"}
BASELINE_ADMIN_PERMISSIONS == {"profile"}
SUPERADMIN_ONLY == {"staff"}

Roles == {"user", "superadmin"} \cup StaffRoles

UserRow == [stored: BOOLEAN, active: BOOLEAN, role: Roles \cup {Null},
            admin: BOOLEAN, passenger: BOOLEAN]

Request == [op: {"idle"}]
    \cup [op: {"update", "replace"}, role: Roles,
          perms: SUBSET ALL_PERMISSIONS, stale: BOOLEAN]
    \cup [op: {"delete"}, user: Users, role: Roles]

Idle == [op |-> "idle"]
Nobody == [stored |-> FALSE, active |-> FALSE, role |-> Null,
           admin |-> FALSE, passenger |-> FALSE]

(* Rows and requests keep their types, and every role that somebody has    *)
(* exists.                                                                 *)
StaffTypeOK ==
    /\ user \in [Users -> UserRow]
    /\ \A u \in Users : user[u].role # Null => perms[user[u].role] # Null
    /\ perms \in [Roles -> (SUBSET ALL_PERMISSIONS) \cup {Null}]
    /\ granted \in [StaffRoles -> SUBSET ALL_PERMISSIONS]
    /\ req \in [Workers -> Request]

Init ==
    /\ user = [u \in Users |->
                 IF u = Chief THEN [stored |-> TRUE, active |-> TRUE, role |-> "superadmin",
                                    admin |-> TRUE, passenger |-> FALSE]
                 ELSE Nobody]
    /\ perms = [r \in Roles |-> CASE r = "user" -> USER_ROLE_PERMISSIONS
                                  [] r = "superadmin" -> ALL_PERMISSIONS
                                  [] OTHER -> Null]
    /\ granted = [r \in StaffRoles |-> {}]
    /\ req = [w \in Workers |-> Idle]

Stored == {u \in Users : user[u].stored}

Begin(w, r) == /\ req[w] = Idle
               /\ req' = [req EXCEPT ![w] = r]
Finish(w) == req' = [req EXCEPT ![w] = Idle]

(* get_current_user and require_permission.                                *)
HasPermission(a, p) ==
    /\ a \in Stored /\ user[a].active
    /\ user[a].role # Null
    /\ p \in perms[user[a].role]

IsSuperadmin(u) == user[u].role = "superadmin"

(* Fault: nothing is added to what was asked for.                          *)
RequestedBare(P) == P

(* Every staff account gets the baseline with what is asked for.           *)
Requested(P) == P \cup BASELINE_ADMIN_PERMISSIONS

(* Only a superadmin assigns staff management.                             *)
Assignable(a, P) == IsSuperadmin(a) \/ P \cap SUPERADMIN_ONLY = {}

-----------------------------------------------------------------------------
(* Registration: role "user" and a passenger row.                          *)
Register(u) ==
    /\ u \notin Stored
    /\ user' = [user EXCEPT ![u] = [stored |-> TRUE, active |-> TRUE, role |-> "user",
                                    admin |-> FALSE, passenger |-> TRUE]]
    /\ UNCHANGED <<perms, granted, req>>

(* A passport that is uploaded makes the missing passenger row.            *)
EnsurePassenger(u) ==
    /\ u \in Stored /\ user[u].active
    /\ user' = [user EXCEPT ![u].passenger = TRUE]
    /\ UNCHANGED <<perms, granted, req>>

(* POST /admin/staff.  It reads the caller's role only, so it is one step. *)
CreateStaff(a, u, r, P) ==
    /\ HasPermission(a, "staff") /\ Assignable(a, Requested(P))
    /\ u \notin Stored /\ r \in StaffRoles /\ perms[r] = Null
    /\ user' = [user EXCEPT ![u] = [stored |-> TRUE, active |-> TRUE, role |-> r,
                                    admin |-> TRUE, passenger |-> FALSE]]
    /\ perms' = [perms EXCEPT ![r] = Requested(P)]
    /\ granted' = [granted EXCEPT ![r] = Requested(P)]
    /\ UNCHANGED req

(* Fault: a superadmin who has an admin row is edited like others.         *)
UpdateLoadAny(w, a, u, P) ==
    /\ HasPermission(a, "staff") /\ a # u
    /\ u \in Stored /\ user[u].admin
    /\ user[u].role # Null
    /\ Assignable(a, Requested(P))
    /\ Begin(w, [op |-> "update", role |-> user[u].role,
                 perms |-> Requested(P), stale |-> FALSE])
    /\ UNCHANGED <<user, perms, granted>>

(* PATCH /admin/staff/{id}: the role of the row that was loaded is looked  *)
(* at, and is the one that is edited.                                      *)
UpdateLoad(w, a, u, P) ==
    /\ HasPermission(a, "staff") /\ a # u
    /\ u \in Stored /\ user[u].admin
    /\ user[u].role # Null /\ ~IsSuperadmin(u)
    /\ Assignable(a, Requested(P))
    /\ Begin(w, [op |-> "update", role |-> user[u].role,
                 perms |-> Requested(P), stale |-> FALSE])
    /\ UNCHANGED <<user, perms, granted>>

(* The DELETE sees the rows of this moment; those that others commit from  *)
(* here on it leaves.                                                      *)
UpdateDelete(w) ==
    /\ req[w].op = "update"
    /\ req' = [req EXCEPT ![w].op = "replace"]
    /\ UNCHANGED <<user, perms, granted>>

(* Another edit of the role meanwhile: its rows are still there.           *)
Left(w) == IF req[w].stale /\ perms[req[w].role] # Null THEN perms[req[w].role] ELSE {}

(* An edit that commits leaves its rows to those whose DELETE is over.     *)
EndEdit(w) ==
    req' = [x \in Workers |->
              CASE x = w -> Idle
                [] x # w /\ req[x].op = "replace" /\ req[x].role = req[w].role ->
                     [req[x] EXCEPT !.stale = TRUE]
                [] OTHER -> req[x]]

(* The key of role_permissions is the pair: the insert of a row that is    *)
(* there fails the request.                                                *)
UpdateCommit(w) ==
    /\ req[w].op = "replace"
    /\ perms[req[w].role] # Null
    /\ Left(w) \cap req[w].perms = {}
    /\ perms' = [perms EXCEPT ![req[w].role] = Left(w) \cup req[w].perms]
    /\ granted' = [r \in StaffRoles |-> IF r = req[w].role THEN req[w].perms ELSE granted[r]]
    /\ EndEdit(w)
    /\ UNCHANGED user

UpdateAbort(w) ==
    /\ req[w].op = "replace"
    /\ perms[req[w].role] = Null \/ Left(w) \cap req[w].perms # {}
    /\ Finish(w)
    /\ UNCHANGED <<user, perms, granted>>

(* Enabling and disabling, by PATCH of a staff account or of any account;  *)
(* the latter includes one's own.                                          *)
SetStatus(a, u) ==
    /\ u \in Stored
    /\ \/ HasPermission(a, "manage")
       \/ HasPermission(a, "staff") /\ a # u /\ user[u].admin
          /\ user[u].role # Null /\ ~IsSuperadmin(u)
    /\ user' = [user EXCEPT ![u].active = ~@]
    /\ UNCHANGED <<perms, granted, req>>

(* PATCH /users/admin/{id}/role: any role that exists, for anybody.        *)
ChangeRole(a, u, r) ==
    /\ HasPermission(a, "manage")
    /\ perms[r] # Null
    /\ u \in Stored
    /\ user' = [user EXCEPT ![u].role = r]
    /\ UNCHANGED <<perms, granted, req>>

(* DELETE /admin/staff/{id}.                                               *)
DeleteLoad(w, a, u) ==
    /\ HasPermission(a, "staff") /\ a # u
    /\ u \in Stored /\ user[u].admin
    /\ user[u].role # Null /\ ~IsSuperadmin(u)
    /\ Begin(w, [op |-> "delete", user |-> u, role |-> user[u].role])
    /\ UNCHANGED <<user, perms, granted>>

(* Fault: the role goes, and who else has it keeps it.                     *)
DeleteOrphans(w) ==
    /\ req[w].op = "delete"
    /\ user[req[w].user].stored /\ ~user[req[w].user].passenger
    /\ user' = [user EXCEPT ![req[w].user] = Nobody]
    /\ IF req[w].role \in StaffRoles
       THEN /\ perms' = [perms EXCEPT ![req[w].role] = Null]
            /\ granted' = [granted EXCEPT ![req[w].role] = {}]
       ELSE UNCHANGED <<perms, granted>>
    /\ Finish(w)

(* The admin row, the account and, if it is a staff role, the role with    *)
(* its permissions; who else has the role is left without one.             *)
DeleteCommit(w) ==
    /\ req[w].op = "delete"
    /\ user[req[w].user].stored /\ ~user[req[w].user].passenger
    /\ LET r == req[w].role IN
       IF r \in StaffRoles
       THEN /\ user' = [u \in Users |->
                          CASE u = req[w].user -> Nobody
                            [] u # req[w].user /\ user[u].role = r -> [user[u] EXCEPT !.role = Null]
                            [] OTHER -> user[u]]
            /\ perms' = [perms EXCEPT ![r] = Null]
            /\ granted' = [granted EXCEPT ![r] = {}]
       ELSE /\ user' = [user EXCEPT ![req[w].user] = Nobody]
            /\ UNCHANGED <<perms, granted>>
    /\ Finish(w)

(* A passenger row would lose its account, which the column forbids; an    *)
(* account that is gone fails too.  DELETE /users/admin/{id} removes no    *)
(* profile first, every account has one, and so it fails always.           *)
DeleteAbort(w) ==
    /\ req[w].op = "delete"
    /\ ~user[req[w].user].stored \/ user[req[w].user].passenger
    /\ Finish(w)
    /\ UNCHANGED <<user, perms, granted>>

(* seed_rbac, at every deployment: adds what is missing, removes nothing.  *)
SeedRbac ==
    /\ perms' = [perms EXCEPT !["user"] = @ \cup USER_ROLE_PERMISSIONS,
                              !["superadmin"] = @ \cup ALL_PERMISSIONS]
    /\ UNCHANGED <<user, granted, req>>

Drop(w) == req[w] # Idle /\ Finish(w) /\ UNCHANGED <<user, perms, granted>>

-----------------------------------------------------------------------------
Next ==
    \/ \E u \in Users : Register(u) \/ EnsurePassenger(u)
    \/ \E a, u \in Users, P \in Asks :
          \/ \E r \in StaffRoles : CreateStaff(a, u, r, P)
          \/ \E w \in Workers : UpdateLoad(w, a, u, P)
    \/ \E w \in Workers :
          \/ UpdateDelete(w) \/ UpdateCommit(w) \/ UpdateAbort(w)
          \/ \E a, u \in Users : DeleteLoad(w, a, u)
          \/ DeleteCommit(w) \/ DeleteAbort(w) \/ Drop(w)
    \/ \E a, u \in Users : SetStatus(a, u) \/ \E r \in Roles : ChangeRole(a, u, r)
    \/ SeedRbac

Spec == Init /\ [][Next]_vars

-----------------------------------------------------------------------------
(* Properties.                                                             *)

(* The permissions of a staff role are those one edit asked for, never a   *)
(* mixture of two that overlap.  Nothing locks the role: the baseline,     *)
(* which every edit inserts, makes the second of them fail.                *)
PermissionsAsAsked ==
    \A r \in StaffRoles : perms[r] # Null => perms[r] = granted[r]

(* The superadmin's role keeps every permission, also when somebody is     *)
(* promoted, demoted or deleted while his permissions are being edited.    *)
SuperadminIntact == perms["superadmin"] = ALL_PERMISSIONS

=============================================================================
