----------------------------- MODULE StaffProofs ------------------------------
(***************************************************************************)
(* Permissions of staff roles, proved of Staff for every number of users,  *)
(* roles and requests that edit, delete and promote at the same time.      *)
(***************************************************************************)
EXTENDS Staff, TLAPS

(* No edit is about the superadmin's role, and every edit inserts the      *)
(* baseline; so rows that another edit has left make it fail, since they   *)
(* have the baseline too.                                                  *)
StaffInv ==
    /\ StaffTypeOK
    /\ PermissionsAsAsked
    /\ SuperadminIntact
    /\ perms["user"] # Null
    /\ \A r \in StaffRoles : perms[r] # Null => "profile" \in perms[r]
    /\ \A w \in Workers : req[w].op \in {"update", "replace"} =>
          req[w].role # "superadmin" /\ "profile" \in req[w].perms

-----------------------------------------------------------------------------
(* The three roles of the start are what they should be.                   *)
THEOREM InitInv == Init => StaffInv
<1> SUFFICES ASSUME Init PROVE StaffInv
  OBVIOUS
<1> USE StaffAssumption DEF Init, Roles
<1>1. /\ perms["superadmin"] = ALL_PERMISSIONS /\ perms["user"] = USER_ROLE_PERMISSIONS
      /\ \A r \in StaffRoles : perms[r] = Null
  OBVIOUS
<1>2. ALL_PERMISSIONS # Null /\ USER_ROLE_PERMISSIONS # Null
  BY DEF ALL_PERMISSIONS, USER_ROLE_PERMISSIONS
<1>3. perms \in [Roles -> (SUBSET ALL_PERMISSIONS) \cup {Null}]
  <2>1. USER_ROLE_PERMISSIONS \in SUBSET ALL_PERMISSIONS
    BY DEF ALL_PERMISSIONS, USER_ROLE_PERMISSIONS
  <2> QED BY ONLY <1>1, <2>1, Init DEF Init, Roles
<1>4. user \in [Users -> UserRow]
  BY DEF UserRow, Nobody
<1>5. \A u \in Users : user[u].role = Null \/ user[u].role = "superadmin"
  BY DEF Nobody
<1>6. req \in [Workers -> Request] /\ \A w \in Workers : req[w].op = "idle"
  BY DEF Request, Idle
<1>7. granted \in [StaffRoles -> SUBSET ALL_PERMISSIONS]
  OBVIOUS
<1> QED BY <1>1, <1>2, <1>3, <1>4, <1>5, <1>6, <1>7
        DEF StaffInv, StaffTypeOK, PermissionsAsAsked, SuperadminIntact

(* What a request asks for, with the baseline, is a set of permissions.    *)
LEMMA RequestedType ==
  ASSUME NEW P \in Asks
  PROVE  Requested(P) \in SUBSET ALL_PERMISSIONS /\ "profile" \in Requested(P)
  BY StaffAssumption DEF Requested, BASELINE_ADMIN_PERMISSIONS, ALL_PERMISSIONS

(* Steps that only change accounts, none of which gets a role that does    *)
(* not exist.                                                              *)
LEMMA AccountStep ==
  ASSUME StaffInv, UNCHANGED <<perms, granted>>, user' \in [Users -> UserRow],
         \A u \in Users : user'[u].role # Null => perms[user'[u].role] # Null,
         req' \in [Workers -> Request],
         \A w \in Workers : req'[w].op \in {"update", "replace"} =>
            req'[w].role # "superadmin" /\ "profile" \in req'[w].perms
  PROVE  StaffInv'
  BY DEF StaffInv, StaffTypeOK, PermissionsAsAsked, SuperadminIntact

(* Registration, creation, edits, deletions, promotions and the seed.      *)
THEOREM StepInv == StaffInv /\ [Next]_vars => StaffInv'
<1> SUFFICES ASSUME StaffInv, StaffTypeOK, [Next]_vars PROVE StaffInv'
  BY DEF StaffInv
<1>0. /\ "user" \in Roles /\ "superadmin" \in Roles /\ StaffRoles \subseteq Roles
      /\ "user" # Null /\ perms["user"] # Null
      /\ Null \notin StaffRoles /\ "user" \notin StaffRoles /\ "superadmin" \notin StaffRoles
  BY StaffAssumption DEF Roles, StaffInv
<1>r. \A w \in Workers : req[w].op \in {"update", "replace"} =>
          req[w].role # "superadmin" /\ "profile" \in req[w].perms
  BY DEF StaffInv
<1>t. ASSUME NEW u \in Users, NEW row \in UserRow, user' = [user EXCEPT ![u] = row],
             row.role # Null => perms[row.role] # Null, UNCHANGED <<perms, granted, req>>
      PROVE  StaffInv'
  <2>1. user' \in [Users -> UserRow] /\ req' \in [Workers -> Request]
    BY <1>t DEF StaffTypeOK
  <2>2. \A v \in Users : user'[v].role # Null => perms[user'[v].role] # Null
    BY <1>t DEF StaffTypeOK
  <2> QED BY <1>t, <1>r, <2>1, <2>2, AccountStep
<1>1. ASSUME NEW u \in Users, Register(u) \/ EnsurePassenger(u) PROVE StaffInv'
  <2>1. CASE Register(u)
    <3>1. [stored |-> TRUE, active |-> TRUE, role |-> "user", admin |-> FALSE,
           passenger |-> TRUE] \in UserRow
      BY <1>0 DEF UserRow
    <3> QED BY <1>0, <1>t, <2>1, <3>1 DEF Register
  <2>2. CASE EnsurePassenger(u)
    <3> DEFINE row == [user[u] EXCEPT !.passenger = TRUE]
    <3>1. row \in UserRow /\ row.role = user[u].role
      BY DEF StaffTypeOK, UserRow
    <3>2. user' = [user EXCEPT ![u] = row] /\ UNCHANGED <<perms, granted, req>>
      BY <2>2 DEF EnsurePassenger
    <3> HIDE DEF row
    <3> QED BY <1>t, <3>1, <3>2 DEF StaffTypeOK
  <2> QED BY <1>1, <2>1, <2>2
<1>2. ASSUME NEW a \in Users, NEW u \in Users, NEW P \in Asks, NEW r \in StaffRoles,
             CreateStaff(a, u, r, P)
      PROVE  StaffInv'
  <2> DEFINE Q == Requested(P)
  <2>1. Q \in SUBSET ALL_PERMISSIONS /\ "profile" \in Q
    BY RequestedType
  <2>2. /\ perms' = [perms EXCEPT ![r] = Q] /\ granted' = [granted EXCEPT ![r] = Q]
        /\ user' = [user EXCEPT ![u] = [stored |-> TRUE, active |-> TRUE, role |-> r,
                                        admin |-> TRUE, passenger |-> FALSE]]
        /\ req' = req
    BY <1>2 DEF CreateStaff
  <2> HIDE DEF Q
  <2>3. Q # Null
    BY <2>1, StaffAssumption DEF ALL_PERMISSIONS
  <2>4. user' \in [Users -> UserRow] /\ perms' \in [Roles -> (SUBSET ALL_PERMISSIONS) \cup {Null}]
    BY <1>0, <2>1, <2>2 DEF StaffTypeOK, UserRow
  <2>5. \A v \in Users : user'[v].role # Null => perms'[user'[v].role] # Null
    BY <1>0, <2>2, <2>3 DEF StaffTypeOK, UserRow
  <2> QED BY <1>0, <1>r, <2>1, <2>2, <2>4, <2>5
          DEF StaffInv, StaffTypeOK, PermissionsAsAsked, SuperadminIntact
<1>3. ASSUME NEW a \in Users, NEW u \in Users, NEW P \in Asks, NEW w \in Workers,
             UpdateLoad(w, a, u, P)
      PROVE  StaffInv'
  <2>1. /\ user[u].role \in Roles /\ user[u].role # "superadmin"
        /\ Requested(P) \in SUBSET ALL_PERMISSIONS /\ "profile" \in Requested(P)
    BY <1>3, RequestedType DEF UpdateLoad, IsSuperadmin, StaffTypeOK, UserRow
  <2>2. req' = [req EXCEPT ![w] = [op |-> "update", role |-> user[u].role,
                                   perms |-> Requested(P), stale |-> FALSE]]
    BY <1>3 DEF UpdateLoad, Begin
  <2>3. req' \in [Workers -> Request]
    BY <2>1, <2>2 DEF StaffTypeOK, Request
  <2> QED BY <1>3, <1>r, <2>1, <2>2, <2>3, AccountStep DEF UpdateLoad, StaffTypeOK
<1>4. ASSUME NEW w \in Workers, UpdateDelete(w) PROVE StaffInv'
  <2> DEFINE r == [req[w] EXCEPT !.op = "replace"]
  <2>1. req[w] \in [op: {"update", "replace"}, role: Roles, perms: SUBSET ALL_PERMISSIONS,
                    stale: BOOLEAN]
    BY <1>4 DEF UpdateDelete, StaffTypeOK, Request, Idle
  <2>2. r \in Request /\ r.role = req[w].role /\ r.perms = req[w].perms
    BY <2>1 DEF Request
  <2>3. req' = [req EXCEPT ![w] = r]
    BY <1>4 DEF UpdateDelete
  <2>4. req[w].role # "superadmin" /\ "profile" \in req[w].perms
    BY <1>4, <1>r DEF UpdateDelete
  <2> HIDE DEF r
  <2> QED BY <1>4, <1>r, <2>2, <2>3, <2>4, AccountStep DEF UpdateDelete, StaffTypeOK
<1>5. ASSUME NEW w \in Workers, UpdateCommit(w) PROVE StaffInv'
  <2> DEFINE r == req[w].role
  <2>1. /\ r \in Roles /\ req[w].perms \in SUBSET ALL_PERMISSIONS
        /\ r # "superadmin" /\ "profile" \in req[w].perms
    BY <1>5, <1>r DEF UpdateCommit, StaffTypeOK, Request, Idle
  <2>2. Left(w) \in SUBSET ALL_PERMISSIONS
    <3>1. perms[r] \in (SUBSET ALL_PERMISSIONS) \cup {Null}
      BY <2>1 DEF StaffTypeOK
    <3>2. CASE perms[r] = Null
      BY <3>2 DEF Left
    <3>3. CASE perms[r] # Null
      <4> DEFINE S == SUBSET ALL_PERMISSIONS
      <4>1. {} \in S
        OBVIOUS
      <4>2. perms[r] \in S \cup {Null}
        BY <3>1
      <4> HIDE DEF S
      <4>3. Left(w) \in S
        BY ONLY <3>3, <4>1, <4>2 DEF Left
      <4> QED BY <4>3 DEF S
    <3> QED BY <3>2, <3>3
  <2>3. "profile" \notin Left(w)
    BY <1>5, <2>1 DEF UpdateCommit
  <2>4. r \in StaffRoles => Left(w) = {}
    BY <2>3 DEF Left, StaffInv
  <2>5. /\ perms' = [perms EXCEPT ![r] = Left(w) \cup req[w].perms]
        /\ granted' = [x \in StaffRoles |-> IF x = r THEN req[w].perms ELSE granted[x]]
        /\ user' = user
    BY <1>5 DEF UpdateCommit
  <2>6. (Left(w) \cup req[w].perms) \in SUBSET ALL_PERMISSIONS /\ Left(w) \cup req[w].perms # Null
    BY <2>1, <2>2, StaffAssumption DEF ALL_PERMISSIONS
  <2>7. /\ req' \in [Workers -> Request]
        /\ \A x \in Workers : req'[x].op \in {"update", "replace"} =>
              req'[x].role # "superadmin" /\ "profile" \in req'[x].perms
    <3> SUFFICES ASSUME NEW x \in Workers
                 PROVE  /\ req'[x] \in Request
                        /\ req'[x].op \in {"update", "replace"} =>
                              req'[x].role # "superadmin" /\ "profile" \in req'[x].perms
      BY <1>5 DEF UpdateCommit, EndEdit
    <3>1. CASE x # w /\ req[x].op = "replace" /\ req[x].role = req[w].role
      <4>1. req'[x] = [req[x] EXCEPT !.stale = TRUE]
        BY <1>5, <3>1 DEF UpdateCommit, EndEdit
      <4>2. req[x] \in [op: {"update", "replace"}, role: Roles, perms: SUBSET ALL_PERMISSIONS,
                        stale: BOOLEAN]
        BY <3>1 DEF StaffTypeOK, Request
      <4> QED BY <1>r, <3>1, <4>1, <4>2 DEF Request
    <3>2. CASE ~(x # w /\ req[x].op = "replace" /\ req[x].role = req[w].role)
      <4>1. req'[x] = Idle \/ req'[x] = req[x]
        BY <1>5, <3>2 DEF UpdateCommit, EndEdit
      <4> QED BY <1>r, <4>1 DEF Idle, Request, StaffTypeOK
    <3> QED BY <3>1, <3>2
  <2> HIDE DEF r
  <2>8. /\ perms' \in [Roles -> (SUBSET ALL_PERMISSIONS) \cup {Null}]
        /\ granted' \in [StaffRoles -> SUBSET ALL_PERMISSIONS]
        /\ \A x \in Roles : perms[x] # Null => perms'[x] # Null
    BY <2>1, <2>5, <2>6 DEF StaffTypeOK
  <2>9. StaffTypeOK'
    BY <2>5, <2>7, <2>8 DEF StaffTypeOK, UserRow
  <2>10. PermissionsAsAsked' /\ \A x \in StaffRoles : perms'[x] # Null => "profile" \in perms'[x]
    BY <1>0, <2>1, <2>4, <2>5 DEF PermissionsAsAsked, StaffInv, StaffTypeOK, r
  <2>11. SuperadminIntact' /\ perms'["user"] # Null
    BY <1>0, <2>1, <2>5, <2>8 DEF StaffInv, SuperadminIntact, StaffTypeOK
  <2> QED BY <2>7, <2>9, <2>10, <2>11 DEF StaffInv
<1>6. ASSUME NEW w \in Workers, UpdateAbort(w) \/ DeleteAbort(w) \/ Drop(w) PROVE StaffInv'
  BY <1>6, <1>r, AccountStep
  DEF UpdateAbort, DeleteAbort, Drop, Finish, Idle, Request, StaffTypeOK
<1>7. ASSUME NEW w \in Workers, NEW a \in Users, NEW u \in Users, DeleteLoad(w, a, u)
      PROVE  StaffInv'
  BY <1>7, <1>r, AccountStep DEF DeleteLoad, Begin, Request, StaffTypeOK, UserRow
<1>8. ASSUME NEW w \in Workers, DeleteCommit(w) PROVE StaffInv'
  <2> DEFINE r == req[w].role
             gone == req[w].user
  <2>1. r \in Roles /\ gone \in Users
    BY <1>8 DEF DeleteCommit, StaffTypeOK, Request, Idle
  <2>2. /\ req' \in [Workers -> Request]
        /\ \A x \in Workers : req'[x] = Idle \/ req'[x] = req[x]
    BY <1>8 DEF DeleteCommit, Finish, StaffTypeOK, Request, Idle
  <2>3. Nobody \in UserRow /\ Nobody.role = Null
    BY DEF Nobody, UserRow
  <2>4. CASE r \in StaffRoles
    <3>1. /\ user' = [u \in Users |->
                        CASE u = gone -> Nobody
                          [] u # gone /\ user[u].role = r -> [user[u] EXCEPT !.role = Null]
                          [] OTHER -> user[u]]
          /\ perms' = [perms EXCEPT ![r] = Null] /\ granted' = [granted EXCEPT ![r] = {}]
      BY <1>8, <2>4 DEF DeleteCommit
    <3>2. \A u \in Users : [user[u] EXCEPT !.role = Null] \in UserRow
      BY DEF StaffTypeOK, UserRow
    <3>3. user' \in [Users -> UserRow]
      BY <2>3, <3>1, <3>2 DEF StaffTypeOK
    <3>4. \A u \in Users : user'[u].role = Null \/ (user'[u].role = user[u].role /\ user[u].role # r)
      <4> SUFFICES ASSUME NEW u \in Users
                   PROVE  user'[u].role = Null \/ (user'[u].role = user[u].role /\ user[u].role # r)
        OBVIOUS
      <4>1. CASE u = gone
        BY <2>3, <3>1, <4>1
      <4>2. CASE u # gone /\ user[u].role = r
        <5>1. user'[u] = [user[u] EXCEPT !.role = Null]
          BY <3>1, <4>2
        <5> QED BY <5>1 DEF StaffTypeOK, UserRow
      <4>3. CASE u # gone /\ user[u].role # r
        BY <3>1, <4>3
      <4> QED BY <4>1, <4>2, <4>3
    <3> HIDE DEF r, gone
    <3>5. /\ perms' \in [Roles -> (SUBSET ALL_PERMISSIONS) \cup {Null}]
          /\ granted' \in [StaffRoles -> SUBSET ALL_PERMISSIONS]
          /\ \A x \in Roles : x # r => perms'[x] = perms[x]
          /\ perms'[r] = Null
          /\ \A x \in StaffRoles : x # r => granted'[x] = granted[x]
      <4> DEFINE P == SUBSET ALL_PERMISSIONS
                 PN == (SUBSET ALL_PERMISSIONS) \cup {Null}
      <4>1. perms \in [Roles -> PN] /\ granted \in [StaffRoles -> P]
        BY DEF StaffTypeOK
      <4>0. Null \in PN /\ {} \in P
        <5>1. Null \in PN
          BY Zenon
        <5>2. {} \in P
          OBVIOUS
        <5> QED BY <5>1, <5>2
      <4> HIDE DEF P, PN
      <4>2. perms' \in [Roles -> PN] /\ granted' \in [StaffRoles -> P]
        BY ONLY <2>1, <3>1, <4>0, <4>1
      <4>3. /\ \A x \in Roles : x # r => perms'[x] = perms[x]
            /\ perms'[r] = Null
            /\ \A x \in StaffRoles : x # r => granted'[x] = granted[x]
        BY ONLY <2>1, <3>1, <4>1
      <4> QED BY <4>2, <4>3 DEF P, PN
    <3>6. \A u \in Users : user'[u].role # Null => perms'[user'[u].role] # Null
      BY <3>4, <3>5 DEF StaffTypeOK, UserRow
    <3>7. StaffTypeOK'
      BY <2>2, <3>3, <3>5, <3>6 DEF StaffTypeOK
    <3>8. PermissionsAsAsked' /\ \A x \in StaffRoles : perms'[x] # Null => "profile" \in perms'[x]
      BY <1>0, <3>5 DEF PermissionsAsAsked, StaffInv
    <3>9. SuperadminIntact' /\ perms'["user"] # Null
      BY <1>0, <2>4, <3>5 DEF StaffInv, SuperadminIntact
    <3> QED BY <1>r, <2>2, <3>7, <3>8, <3>9 DEF StaffInv, Idle
  <2>5. CASE r \notin StaffRoles
    <3>1. user' = [user EXCEPT ![gone] = Nobody] /\ UNCHANGED <<perms, granted>>
      BY <1>8, <2>5 DEF DeleteCommit
    <3>2. user' \in [Users -> UserRow]
      BY <2>3, <3>1 DEF StaffTypeOK
    <3>3. \A u \in Users : user'[u].role # Null => perms[user'[u].role] # Null
      BY <2>3, <3>1 DEF StaffTypeOK
    <3> QED BY <1>r, <2>2, <3>1, <3>2, <3>3, AccountStep DEF Idle
  <2> QED BY <2>4, <2>5
<1>9. ASSUME NEW a \in Users, NEW u \in Users, SetStatus(a, u) PROVE StaffInv'
  <2> DEFINE row == [user[u] EXCEPT !.active = ~@]
  <2>1. row \in UserRow /\ row.role = user[u].role
    BY DEF StaffTypeOK, UserRow
  <2>2. user' = [user EXCEPT ![u] = row] /\ UNCHANGED <<perms, granted, req>>
    BY <1>9 DEF SetStatus
  <2> HIDE DEF row
  <2> QED BY <1>t, <2>1, <2>2 DEF StaffTypeOK
<1>10. ASSUME NEW a \in Users, NEW u \in Users, NEW r \in Roles, ChangeRole(a, u, r)
       PROVE  StaffInv'
  <2> DEFINE row == [user[u] EXCEPT !.role = r]
  <2>1. row \in UserRow /\ row.role = r
    BY DEF StaffTypeOK, UserRow
  <2>2. user' = [user EXCEPT ![u] = row] /\ UNCHANGED <<perms, granted, req>> /\ perms[r] # Null
    BY <1>10 DEF ChangeRole
  <2> HIDE DEF row
  <2> QED BY <1>t, <2>1, <2>2
<1>11. CASE SeedRbac
  <2>1. /\ perms["user"] \in SUBSET ALL_PERMISSIONS
        /\ perms["superadmin"] = ALL_PERMISSIONS
    <3>1. perms["user"] \in (SUBSET ALL_PERMISSIONS) \cup {Null}
      <4> DEFINE PN == (SUBSET ALL_PERMISSIONS) \cup {Null}
      <4>1. perms \in [Roles -> PN]
        BY <1>0 DEF StaffTypeOK
      <4> HIDE DEF PN
      <4>2. perms["user"] \in PN
        BY ONLY <4>1 DEF Roles
      <4> QED BY <4>2 DEF PN
    <3>2. perms["user"] # Null /\ perms["superadmin"] = ALL_PERMISSIONS
      BY <1>0 DEF StaffInv, SuperadminIntact
    <3> QED BY ONLY <3>1, <3>2
  <2> DEFINE seeded == perms["user"] \cup USER_ROLE_PERMISSIONS
  <2>2. seeded \in SUBSET ALL_PERMISSIONS /\ seeded # Null /\ ALL_PERMISSIONS # Null
    BY <2>1, StaffAssumption DEF ALL_PERMISSIONS, USER_ROLE_PERMISSIONS
  <2>3. perms' = [perms EXCEPT !["user"] = seeded, !["superadmin"] = ALL_PERMISSIONS]
    BY <1>11, <2>1 DEF SeedRbac
  <2>4. UNCHANGED <<user, granted, req>>
    BY <1>11 DEF SeedRbac
  <2> HIDE DEF seeded
  <2>5. /\ perms' \in [Roles -> (SUBSET ALL_PERMISSIONS) \cup {Null}]
        /\ perms'["superadmin"] = ALL_PERMISSIONS /\ perms'["user"] # Null
        /\ \A r \in StaffRoles : perms'[r] = perms[r]
        /\ \A r \in Roles : perms[r] # Null => perms'[r] # Null
    BY <1>0, <2>2, <2>3 DEF StaffTypeOK
  <2>6. StaffTypeOK'
    BY <2>4, <2>5 DEF StaffTypeOK, UserRow
  <2> QED BY <1>r, <2>4, <2>5, <2>6 DEF StaffInv, PermissionsAsAsked, SuperadminIntact
<1>12. CASE UNCHANGED vars
  BY <1>12, <1>r, AccountStep DEF vars, StaffTypeOK
<1> QED
  BY <1>1, <1>2, <1>3, <1>4, <1>5, <1>6, <1>7, <1>8, <1>9, <1>10, <1>11, <1>12 DEF Next
THEOREM Invariance == Spec => []StaffInv
  BY InitInv, StepInv, PTL DEF Spec

(* Rows and requests keep their types, and a role that somebody has exists.*)
THEOREM StaffTypeCorrect == Spec => []StaffTypeOK
<1>1. StaffInv => StaffTypeOK
  BY DEF StaffInv
<1> QED BY <1>1, Invariance, PTL

(* A staff role has the permissions that one edit asked for, never a       *)
(* mixture of two.                                                         *)
THEOREM PermissionsAsAskedHolds == Spec => []PermissionsAsAsked
<1>1. StaffInv => PermissionsAsAsked
  BY DEF StaffInv
<1> QED BY <1>1, Invariance, PTL

(* The superadmin's role keeps every permission.                           *)
THEOREM SuperadminIntactHolds == Spec => []SuperadminIntact
<1>1. StaffInv => SuperadminIntact
  BY DEF StaffInv
<1> QED BY <1>1, Invariance, PTL

=============================================================================
