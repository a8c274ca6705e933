---------------------------- MODULE AccountsProofs -----------------------------
(***************************************************************************)
(* Accounts, their verification mails and their reset links, proved of     *)
(* Accounts for every number of accounts, links and requests.              *)
(***************************************************************************)
EXTENDS Accounts, TLAPS

Resetting == {w \in Workers : req[w].op = "reset"}
Drawing == {w \in Workers : req[w].op \in {"forgot", "forgotten"}}

(* An account is registered by one request, and by nobody once it is       *)
(* stored; but in staging, the link has left before the row is committed.  *)
RegisterInv ==
    /\ \A w \in Registering : req[w].user \notin Stored
    /\ \A w, x \in Registering : req[w].user = req[x].user => w = x
    /\ Environment # "staging" =>
          \A w \in Workers : req[w].op = "registered" => user[req[w].user].invited

(* A link is in one place only, a row or the request that draws it, and    *)
(* has set no password then; a request that resets has it from its own     *)
(* row.                                                                    *)
LinksInv ==
    /\ \A u \in Users : user[u].reset # Null => link[user[u].reset] \in {"drawn", "mailed"}
    /\ \A u, v \in Users : user[u].reset # Null /\ user[u].reset = user[v].reset => u = v
    /\ \A w \in Drawing : link[req[w].link] \in {"drawn", "mailed"}
    /\ \A w \in Drawing, u \in Users : user[u].reset # req[w].link
    /\ \A w, x \in Drawing : req[w].link = req[x].link => w = x
    /\ \A w \in Resetting : link[req[w].link] # "fresh"
    /\ \A w \in Resetting, u \in Users : user[u].reset = req[w].link => u = req[w].user
    /\ \A w \in Resetting, x \in Drawing : req[x].link # req[w].link

(* Defaults are for who has found no row.                                  *)
PrefsInv ==
    \A w \in Workers : req[w].op = "prefs" => (req[w].value = "default" => req[w].missing)

InvitedInv == Environment # "staging" => EveryoneCanVerify

AccountsInv ==
    AccountsTypeOK /\ RegisterInv /\ LinksInv /\ PrefsInv /\ InvitedInv

-----------------------------------------------------------------------------
(* The fields of a request, by its kind.                                   *)
LEMMA RequestFields ==
  ASSUME AccountsTypeOK
  PROVE  /\ \A w \in Registering : /\ req[w].user \in Users
                                   /\ req[w].email \in Emails /\ req[w].pw \in Passwords
         /\ \A w \in Drawing : req[w].user \in Users /\ req[w].link \in Links
         /\ \A w \in Resetting : /\ req[w].user \in Users
                                 /\ req[w].link \in Links /\ req[w].pw \in Passwords
         /\ \A w \in Workers : req[w].op \in {"verify", "lapsed", "change", "prefs"} =>
                                    req[w].user \in Users
         /\ \A w \in Workers : req[w].op = "change" => req[w].pw \in Passwords
         /\ \A w \in Workers : req[w].op = "prefs" => /\ req[w].value \in {"default", "chosen"}
                                                     /\ req[w].missing \in BOOLEAN
  BY DEF AccountsTypeOK, Request, Idle, Registering, Drawing, Resetting

THEOREM InitInv == Init => AccountsInv
<1> SUFFICES ASSUME Init PROVE AccountsInv
  OBVIOUS
<1>1. /\ \A u \in Users : user[u].reset = Null /\ ~user[u].stored /\ ~user[u].lapsed
      /\ \A w \in Workers : req[w].op = "idle"
  BY DEF Init, Idle
<1>2. AccountsTypeOK
  BY <1>1 DEF Init, AccountsTypeOK, UserRow, Request, Idle
<1>3. Registering = {} /\ Drawing = {} /\ Resetting = {} /\ Stored = {}
  BY <1>1 DEF Registering, Drawing, Resetting, Stored
<1> QED BY <1>1, <1>2, <1>3
        DEF AccountsInv, RegisterInv, LinksInv, PrefsInv, InvitedInv, EveryoneCanVerify

-----------------------------------------------------------------------------
(* A step that ends a request or begins one that has no link of its own.   *)
LEMMA RequestStep ==
  ASSUME AccountsInv, UNCHANGED <<user, link>>,
         NEW w \in Workers, NEW r \in Request, req' = [req EXCEPT ![w] = r],
         r.op \in {"idle", "verify", "change", "prefs", "reset", "lapsed"},
         r.op = "reset" => user[r.user].reset = r.link /\ r.link # Null,
         r.op = "prefs" => (r.value = "default" => r.missing)
  PROVE  AccountsInv'
<1> USE DEF AccountsInv
<1>1. /\ req'[w] = r
      /\ \A x \in Workers : x # w => req'[x] = req[x]
      /\ req' \in [Workers -> Request]
  BY DEF AccountsTypeOK
<1>2. /\ Registering' = Registering \ {w} /\ Drawing' = Drawing \ {w}
      /\ Resetting' \subseteq Resetting \cup {w}
      /\ (w \in Resetting' => r.op = "reset") /\ Stored' = Stored
  BY <1>1 DEF Registering, Drawing, Resetting, Stored
<1>3. r.op = "reset" => r.user \in Users /\ r.link \in Links
  BY DEF Request, Idle
<1>4. AccountsTypeOK'
  BY <1>1 DEF AccountsTypeOK
<1>5. RegisterInv'
  BY <1>1, <1>2 DEF RegisterInv
<1>6. LinksInv'
  <2>1. /\ \A u \in Users : user'[u].reset # Null => link'[user'[u].reset] \in {"drawn", "mailed"}
        /\ \A u, v \in Users : user'[u].reset # Null /\ user'[u].reset = user'[v].reset => u = v
        /\ \A x \in Drawing' : link'[req'[x].link] \in {"drawn", "mailed"}
        /\ \A x \in Drawing', u \in Users : user'[u].reset # req'[x].link
        /\ \A x, y \in Drawing' : req'[x].link = req'[y].link => x = y
    BY <1>1, <1>2 DEF LinksInv, Drawing
  <2>2. \A x \in Resetting' : link'[req'[x].link] # "fresh"
    BY <1>1, <1>2, <1>3 DEF LinksInv, Resetting
  <2>3. \A x \in Resetting', u \in Users : user'[u].reset = req'[x].link => u = req'[x].user
    BY <1>1, <1>2, <1>3 DEF LinksInv, Resetting
  <2>4. \A x \in Resetting', y \in Drawing' : req'[y].link # req'[x].link
    BY <1>1, <1>2, <1>3 DEF LinksInv, Resetting, Drawing
  <2> QED BY <2>1, <2>2, <2>3, <2>4 DEF LinksInv
<1>7. PrefsInv'
  BY <1>1 DEF PrefsInv
<1>8. InvitedInv'
  BY DEF InvitedInv, EveryoneCanVerify, Stored
<1> QED BY <1>4, <1>5, <1>6, <1>7, <1>8

(* A step that writes columns of one row, none of which makes an account   *)
(* or stores a link, and may end the request.                              *)
LEMMA RowStep ==
  ASSUME AccountsInv, link' = link,
         req' = req \/ \E w \in Workers : req' = [req EXCEPT ![w] = Idle],
         NEW u \in Users, NEW row \in UserRow, user' = [user EXCEPT ![u] = row],
         row.stored = user[u].stored, row.invited = user[u].invited,
         user[u].verified => row.verified,
         row.reset \in {user[u].reset, Null}, row.lapsed => row.reset # Null
  PROVE  AccountsInv'
<1> USE DEF AccountsInv
<1>1. /\ user'[u] = row
      /\ \A v \in Users : v # u => user'[v] = user[v]
      /\ user' \in [Users -> UserRow]
  BY DEF AccountsTypeOK
<1>2. /\ \A x \in Workers : req'[x] = req[x] \/ req'[x] = Idle
      /\ req' \in [Workers -> Request]
  BY DEF AccountsTypeOK, Request, Idle
<1>3. /\ \A v \in Users : user'[v].reset \in {user[v].reset, Null}
      /\ \A v \in Users : user'[v].invited = user[v].invited
      /\ Stored' = Stored
  BY <1>1 DEF Stored
<1>4. /\ Registering' \subseteq Registering /\ Drawing' \subseteq Drawing
      /\ Resetting' \subseteq Resetting
      /\ \A x \in Registering' \cup Drawing' \cup Resetting' : req'[x] = req[x]
  BY <1>2 DEF Registering, Drawing, Resetting, Idle
<1>5. AccountsTypeOK'
  BY <1>1, <1>2 DEF AccountsTypeOK
<1>6. RegisterInv'
  <2>1. \A x \in Workers : req'[x].op = "registered" => x \in Registering'
    BY DEF Registering
  <2>2. \A x \in Registering : req[x].user \in Users
    BY RequestFields
  <2> QED BY <1>3, <1>4, <2>1, <2>2 DEF RegisterInv
<1>7. LinksInv'
  <2>1. /\ \A x \in Drawing : req[x].link # Null
        /\ \A x \in Resetting : req[x].link # Null
    BY RequestFields, AccountsAssumption
  <2>2. /\ \A v \in Users : user'[v].reset # Null => link'[user'[v].reset] \in {"drawn", "mailed"}
        /\ \A v, z \in Users : user'[v].reset # Null /\ user'[v].reset = user'[z].reset => v = z
    BY <1>3 DEF LinksInv
  <2>3. /\ \A x \in Drawing' : link'[req'[x].link] \in {"drawn", "mailed"}
        /\ \A x \in Drawing', v \in Users : user'[v].reset # req'[x].link
        /\ \A x, y \in Drawing' : req'[x].link = req'[y].link => x = y
    BY <1>3, <1>4, <2>1 DEF LinksInv
  <2>4. /\ \A x \in Resetting' : link'[req'[x].link] # "fresh"
        /\ \A x \in Resetting', v \in Users : user'[v].reset = req'[x].link => v = req'[x].user
        /\ \A x \in Resetting', y \in Drawing' : req'[y].link # req'[x].link
    BY <1>3, <1>4, <2>1 DEF LinksInv
  <2> QED BY <2>2, <2>3, <2>4 DEF LinksInv
<1>8. PrefsInv'
  BY <1>2 DEF PrefsInv, Idle
<1>9. InvitedInv'
  BY <1>1, <1>3 DEF InvitedInv, EveryoneCanVerify, Stored
<1> QED BY <1>5, <1>6, <1>7, <1>8, <1>9

-----------------------------------------------------------------------------
(* Registration.                                                           *)
LEMMA RegisterFlushInv ==
  ASSUME AccountsInv, NEW w \in Workers, NEW u \in Users, NEW e \in Emails,
         NEW p \in Passwords, RegisterFlush(w, u, e, p)
  PROVE  AccountsInv'
<1> DEFINE r == [op |-> "register", user |-> u, email |-> e, pw |-> p]
<1>1. /\ u \notin Stored /\ \A x \in Registering : req[x].user # u
      /\ req[w] = Idle /\ req' = [req EXCEPT ![w] = r] /\ UNCHANGED <<user, link>>
  BY DEF RegisterFlush, Begin
<1>2. r \in Request /\ r.op = "register" /\ r.user = u
  BY DEF Request
<1> HIDE DEF r
<1>3. /\ req'[w] = r
      /\ \A x \in Workers : x # w => req'[x] = req[x]
      /\ req' \in [Workers -> Request]
  BY <1>1, <1>2 DEF AccountsInv, AccountsTypeOK
<1>4. /\ Registering' = Registering \cup {w} /\ Drawing' = Drawing
      /\ Resetting' = Resetting /\ Stored' = Stored /\ w \notin Drawing \cup Resetting
  BY <1>1, <1>2, <1>3 DEF Registering, Drawing, Resetting, Stored, Idle
<1>5. AccountsTypeOK'
  BY <1>1, <1>3 DEF AccountsInv, AccountsTypeOK
<1>6. RegisterInv'
  BY <1>1, <1>2, <1>3, <1>4 DEF AccountsInv, RegisterInv, Registering
<1>7. LinksInv'
  BY <1>1, <1>3, <1>4 DEF AccountsInv, LinksInv, Drawing, Resetting
<1>8. PrefsInv' /\ InvitedInv'
  BY <1>1, <1>2, <1>3, <1>4 DEF AccountsInv, PrefsInv, InvitedInv, EveryoneCanVerify
<1> QED BY <1>5, <1>6, <1>7, <1>8 DEF AccountsInv

(* What a registration under way does to its own row and request.          *)
LEMMA RegisterStep ==
  ASSUME AccountsInv, link' = link,
         NEW w \in Registering, NEW r \in Request, req' = [req EXCEPT ![w] = r],
         NEW row \in UserRow, user' = [user EXCEPT ![req[w].user] = row],
         \/ r = Idle
         \/ r.op = "registered" /\ r.user = req[w].user /\ ~row.stored,
         Environment # "staging" => (r.op = "registered" \/ row.stored => row.invited),
         row.reset = user[req[w].user].reset, row.lapsed = user[req[w].user].lapsed
  PROVE  AccountsInv'
<1> DEFINE u == req[w].user
<1> USE DEF AccountsInv
<1>1. w \in Workers /\ u \in Users /\ u \notin Stored
  BY RequestFields DEF Registering, RegisterInv
<1>2. /\ user'[u] = row /\ user' \in [Users -> UserRow]
      /\ \A v \in Users : v # u => user'[v] = user[v]
      /\ req'[w] = r /\ req' \in [Workers -> Request]
      /\ \A x \in Workers : x # w => req'[x] = req[x]
  BY <1>1 DEF AccountsTypeOK
<1>3. \A x \in Registering : x # w => req[x].user # u
  BY DEF RegisterInv
<1> HIDE DEF u
<1>4. /\ Registering' \subseteq Registering /\ Drawing' = Drawing /\ Resetting' = Resetting
      /\ w \notin Drawing \cup Resetting
      /\ (w \in Registering' => r.op = "registered")
      /\ Stored' \subseteq Stored \cup {u} /\ (u \in Stored' => row.stored)
  BY <1>1, <1>2 DEF Registering, Drawing, Resetting, Stored, Idle
<1>5. \A v \in Users : user'[v].reset = user[v].reset /\ user'[v].lapsed = user[v].lapsed
  BY <1>2 DEF u
<1>6. AccountsTypeOK'
  BY <1>2, <1>5 DEF AccountsTypeOK
<1>7. RegisterInv'
  <2>1. \/ r = Idle
        \/ r.op = "registered" /\ r.user = u /\ ~row.stored
    BY DEF u
  <2>2. \A x \in Registering' : req'[x].user \notin Stored'
    <3>1. \A x \in Registering' : x = w \/ (x \in Registering /\ x # w)
      BY <1>4
    <3>2. w \in Registering' => req'[w].user \notin Stored'
      BY <1>1, <1>2, <1>4, <2>1 DEF Idle, Stored
    <3> QED BY <1>2, <1>3, <1>4, <3>1, <3>2 DEF RegisterInv, Registering
  <2>3. \A x, y \in Registering' : req'[x].user = req'[y].user => x = y
    BY <1>2, <1>3, <1>4, <2>1 DEF RegisterInv, Registering, Idle
  <2>4. Environment # "staging" =>
          \A x \in Workers : req'[x].op = "registered" => user'[req'[x].user].invited
    <3> SUFFICES ASSUME NEW x \in Workers, req'[x].op = "registered", Environment # "staging"
                 PROVE  user'[req'[x].user].invited
      OBVIOUS
    <3>1. CASE x = w
      BY <1>2, <2>1, <3>1 DEF Idle
    <3>2. CASE x # w
      <4>1. req'[x] = req[x] /\ x \in Registering
        BY <1>2, <3>2 DEF Registering
      <4>2. req[x].user \in Users /\ req[x].user # u
        BY <1>3, <3>2, <4>1, RequestFields
      <4> QED BY <1>2, <4>1, <4>2 DEF RegisterInv
    <3> QED BY <3>1, <3>2
  <2> QED BY <2>2, <2>3, <2>4 DEF RegisterInv
<1>8. LinksInv'
  BY <1>2, <1>4, <1>5 DEF LinksInv, Drawing, Resetting
<1>9. PrefsInv'
  BY <1>1, <1>2 DEF PrefsInv, Idle
<1>10. InvitedInv'
  BY <1>2, <1>4 DEF InvitedInv, EveryoneCanVerify, Stored
<1> QED BY <1>6, <1>7, <1>8, <1>9, <1>10

-----------------------------------------------------------------------------
(* Reset links.                                                            *)
LEMMA ForgotFlushInv ==
  ASSUME AccountsInv, NEW w \in Workers, NEW u \in Users, NEW l \in Links,
         ForgotFlush(w, u, l)
  PROVE  AccountsInv'
<1> DEFINE r == [op |-> "forgot", user |-> u, link |-> l]
<1> USE DEF AccountsInv
<1>1. /\ link[l] = "fresh" /\ link' = [link EXCEPT ![l] = "drawn"]
      /\ req[w] = Idle /\ req' = [req EXCEPT ![w] = r] /\ UNCHANGED user
  BY DEF ForgotFlush, Begin
<1>2. r \in Request /\ r.op = "forgot" /\ r.link = l
  BY DEF Request
<1> HIDE DEF r
<1>3. /\ req'[w] = r
      /\ \A x \in Workers : x # w => req'[x] = req[x]
      /\ req' \in [Workers -> Request]
  BY <1>1, <1>2 DEF AccountsTypeOK
<1>4. /\ Registering' = Registering /\ Drawing' = Drawing \cup {w}
      /\ Resetting' = Resetting /\ Stored' = Stored
      /\ w \notin Registering \cup Drawing \cup Resetting
  BY <1>1, <1>2, <1>3 DEF Registering, Drawing, Resetting, Stored, Idle
<1>5. /\ link' \in [Links -> {"fresh", "drawn", "mailed", "used"}] /\ link'[l] = "drawn"
      /\ \A k \in Links : k # l => link'[k] = link[k]
  BY <1>1 DEF AccountsTypeOK
<1>6. AccountsTypeOK'
  BY <1>1, <1>3, <1>5 DEF AccountsTypeOK
<1>7. RegisterInv'
  BY <1>1, <1>2, <1>3, <1>4 DEF RegisterInv, Registering
<1>8. LinksInv'
  <2>1. /\ \A x \in Drawing : req[x].link \in Links /\ req[x].link # l
        /\ \A x \in Resetting : req[x].link \in Links /\ req[x].link # l
        /\ \A v \in Users : user[v].reset # l
    BY <1>1, RequestFields, AccountsAssumption DEF LinksInv
  <2>2. \A v \in Users : user[v].reset # Null => user[v].reset \in Links
    BY DEF AccountsTypeOK, UserRow
  <2>3. /\ \A v \in Users : user'[v].reset # Null => link'[user'[v].reset] \in {"drawn", "mailed"}
        /\ \A v, z \in Users : user'[v].reset # Null /\ user'[v].reset = user'[z].reset => v = z
    BY <1>1, <1>5, <2>1, <2>2 DEF LinksInv
  <2>4. /\ \A x \in Drawing' : link'[req'[x].link] \in {"drawn", "mailed"}
        /\ \A x \in Drawing', v \in Users : user'[v].reset # req'[x].link
        /\ \A x, y \in Drawing' : req'[x].link = req'[y].link => x = y
    BY <1>1, <1>2, <1>3, <1>4, <1>5, <2>1 DEF LinksInv, Drawing
  <2>5. /\ \A x \in Resetting' : link'[req'[x].link] # "fresh"
        /\ \A x \in Resetting', v \in Users : user'[v].reset = req'[x].link => v = req'[x].user
        /\ \A x \in Resetting', y \in Drawing' : req'[y].link # req'[x].link
    BY <1>1, <1>2, <1>3, <1>4, <1>5, <2>1 DEF LinksInv, Drawing, Resetting
  <2> QED BY <2>3, <2>4, <2>5 DEF LinksInv
<1>9. PrefsInv' /\ InvitedInv'
  BY <1>1, <1>2, <1>3, <1>4 DEF PrefsInv, InvitedInv, EveryoneCanVerify
<1> QED BY <1>6, <1>7, <1>8, <1>9

LEMMA ForgotMailInv ==
  ASSUME AccountsInv, NEW w \in Workers, NEW sent \in BOOLEAN, ForgotMail(w, sent)
  PROVE  AccountsInv'
<1> DEFINE r == [req[w] EXCEPT !.op = "forgotten"]
           l == req[w].link
<1> USE DEF AccountsInv
<1>0. req[w] \in [op: {"forgot", "forgotten"}, user: Users, link: Links]
  BY DEF ForgotMail, AccountsTypeOK, Request, Idle
<1>1. /\ link' = [link EXCEPT ![l] = "mailed"] \/ link' = link
      /\ req[w].op = "forgot" /\ req' = [req EXCEPT ![w] = r] /\ UNCHANGED user
  BY DEF ForgotMail, Continue
<1>2. r \in Request /\ r.op = "forgotten" /\ r.link = l /\ l \in Links
  BY <1>0 DEF Request
<1> HIDE DEF r, l
<1>3. /\ req'[w] = r
      /\ \A x \in Workers : x # w => req'[x] = req[x]
      /\ req' \in [Workers -> Request]
  BY <1>1, <1>2 DEF AccountsTypeOK
<1>4. /\ Registering' = Registering /\ Drawing' = Drawing
      /\ Resetting' = Resetting /\ Stored' = Stored
      /\ w \notin Registering \cup Resetting /\ w \in Drawing
  BY <1>1, <1>2, <1>3 DEF Registering, Drawing, Resetting, Stored
<1>5. /\ link' \in [Links -> {"fresh", "drawn", "mailed", "used"}]
      /\ \A k \in Links : link'[k] = link[k] \/ link'[k] = "mailed"
  BY <1>1 DEF AccountsTypeOK
<1>6. \A x \in Workers : x \in Drawing \cup Resetting => req'[x].link = req[x].link
  BY <1>2, <1>3 DEF l
<1>7. \A x \in Resetting : req'[x] = req[x]
  BY <1>3, <1>4 DEF Resetting
<1>8. AccountsTypeOK'
  BY <1>1, <1>3, <1>5 DEF AccountsTypeOK
<1>9. RegisterInv'
  BY <1>1, <1>2, <1>3, <1>4 DEF RegisterInv, Registering
<1>10. LinksInv'
  <2>1. \A x \in Drawing \cup Resetting : x \in Workers /\ req[x].link \in Links
    BY RequestFields DEF Drawing, Resetting
  <2>2. \A v \in Users : user[v].reset # Null => user[v].reset \in Links
    BY DEF AccountsTypeOK, UserRow
  <2>3. /\ \A v \in Users : user'[v].reset # Null => link'[user'[v].reset] \in {"drawn", "mailed"}
        /\ \A v, z \in Users : user'[v].reset # Null /\ user'[v].reset = user'[z].reset => v = z
    BY <1>1, <1>5, <2>2 DEF LinksInv
  <2>4. /\ \A x \in Drawing' : link'[req'[x].link] \in {"drawn", "mailed"}
        /\ \A x \in Drawing', v \in Users : user'[v].reset # req'[x].link
        /\ \A x, y \in Drawing' : req'[x].link = req'[y].link => x = y
    BY <1>1, <1>4, <1>5, <1>6, <2>1 DEF LinksInv
  <2>5. /\ \A x \in Resetting' : link'[req'[x].link] # "fresh"
        /\ \A x \in Resetting', v \in Users : user'[v].reset = req'[x].link => v = req'[x].user
        /\ \A x \in Resetting', y \in Drawing' : req'[y].link # req'[x].link
    BY <1>1, <1>4, <1>5, <1>6, <1>7, <2>1 DEF LinksInv
  <2> QED BY <2>3, <2>4, <2>5 DEF LinksInv
<1>11. PrefsInv' /\ InvitedInv'
  BY <1>1, <1>2, <1>3, <1>4 DEF PrefsInv, InvitedInv, EveryoneCanVerify
<1> QED BY <1>8, <1>9, <1>10, <1>11

(* The link goes from the request to the row.                              *)
LEMMA ForgotCommitInv ==
  ASSUME AccountsInv, NEW w \in Workers, ForgotCommit(w)
  PROVE  AccountsInv'
<1> DEFINE u == req[w].user
           l == req[w].link
           row == [user[u] EXCEPT !.reset = l, !.lapsed = FALSE]
<1> USE DEF AccountsInv
<1>0. w \in Drawing
  BY DEF ForgotCommit, Drawing
<1>1. u \in Users /\ l \in Links /\ l # Null
  BY <1>0, RequestFields, AccountsAssumption
<1>2. /\ row \in UserRow /\ row.reset = l /\ row.lapsed = FALSE
      /\ row.stored = user[u].stored /\ row.verified = user[u].verified
      /\ row.invited = user[u].invited
  <2>1. user[u] \in UserRow
    BY <1>1 DEF AccountsTypeOK
  <2> HIDE DEF u, l
  <2> QED BY <1>1, <2>1 DEF UserRow
<1>3. user' = [user EXCEPT ![u] = row] /\ req' = [req EXCEPT ![w] = Idle] /\ link' = link
  BY <1>1 DEF ForgotCommit, Finish, AccountsTypeOK
<1>4. link[l] \in {"drawn", "mailed"} /\ \A v \in Users : user[v].reset # l
  BY <1>0 DEF LinksInv
<1> HIDE DEF row
<1>5. /\ user'[u] = row /\ user' \in [Users -> UserRow]
      /\ \A v \in Users : v # u => user'[v] = user[v]
      /\ \A v \in Users : user'[v].stored = user[v].stored /\ user'[v].invited = user[v].invited
      /\ \A v \in Users : user'[v].verified = user[v].verified
      /\ req'[w] = Idle /\ req' \in [Workers -> Request]
      /\ \A x \in Workers : x # w => req'[x] = req[x]
  <2>1. /\ req'[w] = Idle /\ req' \in [Workers -> Request]
        /\ \A x \in Workers : x # w => req'[x] = req[x]
    BY <1>3 DEF AccountsTypeOK, Request, Idle
  <2> HIDE DEF u, l
  <2>2. /\ user'[u] = row /\ user' \in [Users -> UserRow]
        /\ \A v \in Users : v # u => user'[v] = user[v]
    BY <1>1, <1>2, <1>3 DEF AccountsTypeOK
  <2> QED BY <1>2, <2>1, <2>2
<1>6. /\ Registering' = Registering /\ Drawing' = Drawing \ {w}
      /\ Resetting' = Resetting /\ Stored' = Stored
      /\ w \notin Registering \cup Resetting
      /\ \A x \in Workers : x \in Registering \cup Drawing' \cup Resetting => req'[x] = req[x]
  BY <1>0, <1>5 DEF Registering, Drawing, Resetting, Stored, Idle
<1>7. AccountsTypeOK'
  BY <1>1, <1>2, <1>3, <1>5 DEF AccountsTypeOK
<1>8. RegisterInv'
  <2>1. \A x \in Registering : x \in Workers /\ req[x].user \in Users
    BY RequestFields DEF Registering
  <2>2. \A x \in Workers : req'[x].op = "registered" => x \in Registering /\ req'[x] = req[x]
    BY <1>6 DEF Registering
  <2> QED BY <1>5, <1>6, <2>1, <2>2 DEF RegisterInv
<1>9. LinksInv'
  <2>1. \A x \in Drawing \cup Resetting : x \in Workers /\ req[x].link \in Links
    BY RequestFields DEF Drawing, Resetting
  <2>2. /\ \A v \in Users : user'[v].reset # Null => link'[user'[v].reset] \in {"drawn", "mailed"}
        /\ \A v, z \in Users : user'[v].reset # Null /\ user'[v].reset = user'[z].reset => v = z
    BY <1>2, <1>3, <1>4, <1>5 DEF LinksInv
  <2>3. \A x \in Drawing' : x \in Drawing /\ x # w /\ req'[x] = req[x] /\ req[x].link # l
    BY <1>0, <1>6, <2>1 DEF LinksInv
  <2>4. \A x \in Resetting' : x \in Resetting /\ req'[x] = req[x] /\ req[x].link # l
    BY <1>0, <1>6, <2>1 DEF LinksInv
  <2> HIDE DEF u, l
  <2>5. /\ \A x \in Drawing' : link'[req'[x].link] \in {"drawn", "mailed"}
        /\ \A x \in Drawing', v \in Users : user'[v].reset # req'[x].link
        /\ \A x, y \in Drawing' : req'[x].link = req'[y].link => x = y
    BY <1>2, <1>3, <1>5, <2>3 DEF LinksInv
  <2>6. /\ \A x \in Resetting' : link'[req'[x].link] # "fresh"
        /\ \A x \in Resetting', v \in Users : user'[v].reset = req'[x].link => v = req'[x].user
        /\ \A x \in Resetting', y \in Drawing' : req'[y].link # req'[x].link
    BY <1>2, <1>3, <1>5, <2>3, <2>4 DEF LinksInv
  <2> QED BY <2>2, <2>5, <2>6 DEF LinksInv
<1>10. PrefsInv' /\ InvitedInv'
  <2>1. PrefsInv'
    BY <1>5 DEF PrefsInv, Idle
  <2>2. Stored \subseteq Users
    BY DEF Stored
  <2> HIDE DEF u, l
  <2>3. InvitedInv'
    BY <1>5, <1>6, <2>2 DEF InvitedInv, EveryoneCanVerify
  <2> QED BY <2>1, <2>3
<1> QED BY <1>7, <1>8, <1>9, <1>10

(* The row loses its link, which nobody else has.                          *)
LEMMA ResetCommitInv ==
  ASSUME AccountsInv, NEW w \in Workers, ResetCommit(w)
  PROVE  AccountsInv'
<1> DEFINE u == req[w].user
           l == req[w].link
           row == [user[u] EXCEPT !.pw = req[w].pw, !.reset = Null, !.lapsed = FALSE]
<1> USE DEF AccountsInv
<1>0. w \in Resetting
  BY DEF ResetCommit, Resetting
<1>1. u \in Users /\ l \in Links /\ req[w].pw \in Passwords /\ l # Null
  BY <1>0, RequestFields, AccountsAssumption
<1>2. /\ row \in UserRow /\ row.reset = Null /\ row.lapsed = FALSE
      /\ row.stored = user[u].stored /\ row.verified = user[u].verified
      /\ row.invited = user[u].invited
  <2>1. user[u] \in UserRow
    BY <1>1 DEF AccountsTypeOK
  <2> HIDE DEF u, l
  <2> QED BY <1>1, <2>1 DEF UserRow
<1>3. /\ user' = [user EXCEPT ![u] = row] /\ req' = [req EXCEPT ![w] = Idle]
      /\ link' = [link EXCEPT ![l] = "used"]
  BY <1>1 DEF ResetCommit, Finish, AccountsTypeOK
<1>4. /\ \A v \in Users : user[v].reset = l => v = u
      /\ \A x \in Drawing : req[x].link # l
  BY <1>0 DEF LinksInv
<1> HIDE DEF row
<1>5. /\ user'[u] = row /\ user' \in [Users -> UserRow]
      /\ \A v \in Users : v # u => user'[v] = user[v]
      /\ \A v \in Users : user'[v].stored = user[v].stored /\ user'[v].invited = user[v].invited
      /\ \A v \in Users : user'[v].verified = user[v].verified
      /\ req'[w] = Idle /\ req' \in [Workers -> Request]
      /\ \A x \in Workers : x # w => req'[x] = req[x]
  <2>1. /\ req'[w] = Idle /\ req' \in [Workers -> Request]
        /\ \A x \in Workers : x # w => req'[x] = req[x]
    BY <1>3 DEF AccountsTypeOK, Request, Idle
  <2> HIDE DEF u, l
  <2>2. /\ user'[u] = row /\ user' \in [Users -> UserRow]
        /\ \A v \in Users : v # u => user'[v] = user[v]
    BY <1>1, <1>2, <1>3 DEF AccountsTypeOK
  <2> QED BY <1>2, <2>1, <2>2
<1>6. /\ Registering' = Registering /\ Drawing' = Drawing
      /\ Resetting' = Resetting \ {w} /\ Stored' = Stored
      /\ w \notin Registering \cup Drawing
      /\ \A x \in Workers : x \in Registering \cup Drawing \cup Resetting' => req'[x] = req[x]
  BY <1>0, <1>5 DEF Registering, Drawing, Resetting, Stored, Idle
<1>7. /\ link' \in [Links -> {"fresh", "drawn", "mailed", "used"}]
      /\ link'[l] = "used" /\ \A k \in Links : k # l => link'[k] = link[k]
  BY <1>1, <1>3 DEF AccountsTypeOK
<1>8. AccountsTypeOK'
  BY <1>1, <1>2, <1>5, <1>7 DEF AccountsTypeOK
<1>9. RegisterInv'
  <2>1. \A x \in Registering : x \in Workers /\ req[x].user \in Users
    BY RequestFields DEF Registering
  <2>2. \A x \in Workers : req'[x].op = "registered" => x \in Registering /\ req'[x] = req[x]
    BY <1>6 DEF Registering
  <2> QED BY <1>5, <1>6, <2>1, <2>2 DEF RegisterInv
<1>10. LinksInv'
  <2>1. \A x \in Drawing \cup Resetting : x \in Workers /\ req[x].link \in Links
    BY RequestFields DEF Drawing, Resetting
  <2>2. \A v \in Users : user'[v].reset # Null =>
          v # u /\ user'[v].reset = user[v].reset /\ user[v].reset \in Links \ {l}
    <3>1. \A v \in Users : user[v].reset # Null => user[v].reset \in Links
      BY DEF AccountsTypeOK, UserRow
    <3> HIDE DEF u, l
    <3> QED BY <1>2, <1>4, <1>5, <3>1
  <2>3. \A x \in Drawing' : x \in Drawing /\ req'[x] = req[x] /\ req[x].link # l
    BY <1>4, <1>6, <2>1
  <2>4. \A x \in Resetting' : x \in Resetting /\ req'[x] = req[x]
    BY <1>6, <2>1
  <2> HIDE DEF u, l
  <2>5. /\ \A v \in Users : user'[v].reset # Null => link'[user'[v].reset] \in {"drawn", "mailed"}
        /\ \A v, z \in Users : user'[v].reset # Null /\ user'[v].reset = user'[z].reset => v = z
    BY <1>7, <2>2 DEF LinksInv
  <2>6. /\ \A x \in Drawing' : link'[req'[x].link] \in {"drawn", "mailed"}
        /\ \A x \in Drawing', v \in Users : user'[v].reset # req'[x].link
        /\ \A x, y \in Drawing' : req'[x].link = req'[y].link => x = y
    <3>1. \A x \in Drawing : req[x].link # Null
      BY RequestFields, AccountsAssumption
    <3> QED BY <1>7, <2>1, <2>2, <2>3, <3>1 DEF LinksInv
  <2>7. /\ \A x \in Resetting' : link'[req'[x].link] # "fresh"
        /\ \A x \in Resetting', v \in Users : user'[v].reset = req'[x].link => v = req'[x].user
        /\ \A x \in Resetting', y \in Drawing' : req'[y].link # req'[x].link
    <3>1. \A x \in Resetting : req[x].link # Null
      BY RequestFields, AccountsAssumption
    <3> QED BY <1>7, <2>1, <2>2, <2>3, <2>4, <3>1 DEF LinksInv
  <2> QED BY <2>5, <2>6, <2>7 DEF LinksInv
<1>11. PrefsInv' /\ InvitedInv'
  <2>1. PrefsInv'
    BY <1>5 DEF PrefsInv, Idle
  <2>2. Stored \subseteq Users
    BY DEF Stored
  <2> HIDE DEF u, l
  <2>3. InvitedInv'
    BY <1>5, <1>6, <2>2 DEF InvitedInv, EveryoneCanVerify
  <2> QED BY <2>1, <2>3
<1> QED BY <1>8, <1>9, <1>10, <1>11

-----------------------------------------------------------------------------
(* Every step keeps the invariant.                                         *)
LEMMA StepInv == AccountsInv /\ [Next]_vars => AccountsInv'
<1> SUFFICES ASSUME AccountsInv, [Next]_vars PROVE AccountsInv'
  OBVIOUS
<1>u. \A u \in Users : user[u] \in UserRow /\ (user[u].lapsed => user[u].reset # Null)
  BY DEF AccountsInv, AccountsTypeOK
<1>f. AccountsTypeOK
  BY DEF AccountsInv
<1>i. Idle \in Request /\ Idle.op = "idle"
  BY DEF Idle, Request
<1>1. ASSUME NEW w \in Workers, NEW u \in Users, NEW e \in Emails, NEW p \in Passwords,
             RegisterFlush(w, u, e, p)
      PROVE  AccountsInv'
  BY <1>1, RegisterFlushInv
<1>2. ASSUME NEW w \in Workers, NEW sent \in BOOLEAN, RegisterMail(w, sent) PROVE AccountsInv'
  <2> DEFINE u == req[w].user
             row == [user[u] EXCEPT !.invited = sent \/ Environment = "dev"]
             r == [req[w] EXCEPT !.op = "registered"]
  <2>0. req[w] \in [op: {"register", "registered"}, user: Users, email: Emails, pw: Passwords]
    BY <1>2, <1>f DEF RegisterMail, AccountsTypeOK, Request, Idle
  <2>1. w \in Registering /\ u \in Users /\ u \notin Stored
    BY <1>2, <2>0 DEF RegisterMail, Registering, AccountsInv, RegisterInv
  <2>2. r \in Request /\ r.op = "registered" /\ r.user = u
    BY <2>0 DEF Request
  <2>3. /\ row \in UserRow /\ ~row.stored /\ row.invited = (sent \/ Environment = "dev")
        /\ row.reset = user[u].reset /\ row.lapsed = user[u].lapsed
    <3> HIDE DEF u
    <3> QED BY <1>u, <2>1 DEF UserRow, Stored
  <2>4. CASE /\ sent \/ Environment # "prod"
             /\ user' = [user EXCEPT ![u].invited = sent \/ Environment = "dev"]
             /\ req' = [req EXCEPT ![w] = r]
    <3>1. user' = [user EXCEPT ![u] = row]
      BY <2>4
    <3>2. Environment # "staging" => row.invited
      BY <2>3, <2>4, AccountsAssumption
    <3>3. link' = link /\ req' = [req EXCEPT ![w] = r]
      BY <1>2, <2>4 DEF RegisterMail
    <3> HIDE DEF row, r, u
    <3>4. user' = [user EXCEPT ![req[w].user] = row] /\ r.user = req[w].user
          /\ row.reset = user[req[w].user].reset /\ row.lapsed = user[req[w].user].lapsed
      BY <2>2, <2>3, <3>1 DEF u
    <3> QED BY <2>1, <2>2, <2>3, <3>2, <3>3, <3>4, RegisterStep
  <2>5. CASE user' = user /\ req' = [req EXCEPT ![w] = Idle]
    BY <1>2, <1>i, <2>5, RequestStep, Zenon DEF RegisterMail, Idle
  <2> QED BY <1>2, <2>4, <2>5 DEF RegisterMail, Continue, Finish
<1>3. ASSUME NEW w \in Workers, RegisterCommit(w) PROVE AccountsInv'
  <2> DEFINE u == req[w].user
             row == [user[u] EXCEPT !.stored = TRUE, !.email = req[w].email, !.pw = req[w].pw]
  <2>1. w \in Registering /\ (Environment # "staging" => user[u].invited)
    BY <1>3 DEF RegisterCommit, Registering, AccountsInv, RegisterInv
  <2>2. u \in Users /\ req[w].email \in Emails /\ req[w].pw \in Passwords
    BY <1>f, <2>1, RequestFields
  <2>3. /\ row \in UserRow /\ (Environment # "staging" => row.invited)
        /\ row.reset = user[u].reset /\ row.lapsed = user[u].lapsed
    <3> HIDE DEF u
    <3> QED BY <1>u, <2>1, <2>2 DEF UserRow
  <2>4. user' = [user EXCEPT ![u] = row] /\ req' = [req EXCEPT ![w] = Idle] /\ link' = link
    BY <1>3 DEF RegisterCommit, Finish
  <2> HIDE DEF row
  <2> QED BY <1>i, <2>1, <2>3, <2>4, RegisterStep
<1>4. ASSUME NEW w \in Workers, NEW u \in Users, VerifyLoad(w, u) PROVE AccountsInv'
  <2> DEFINE r == [op |-> "verify", user |-> u]
  <2>1. r \in Request /\ r.op = "verify"
    BY DEF Request
  <2>2. req' = [req EXCEPT ![w] = r] /\ UNCHANGED <<user, link>>
    BY <1>4 DEF VerifyLoad, Begin
  <2> HIDE DEF r
  <2> QED BY <2>1, <2>2, RequestStep
<1>5. ASSUME NEW w \in Workers, VerifyCommit(w) PROVE AccountsInv'
  <2> DEFINE u == req[w].user
             row == [user[u] EXCEPT !.verified = TRUE]
  <2>1. u \in Users
    BY <1>5, <1>f, RequestFields DEF VerifyCommit
  <2>2. /\ row \in UserRow /\ row.verified /\ row.stored = user[u].stored
        /\ row.invited = user[u].invited /\ row.reset = user[u].reset
        /\ row.lapsed = user[u].lapsed
    <3> HIDE DEF u
    <3> QED BY <1>u, <2>1 DEF UserRow
  <2>3. user' = [user EXCEPT ![u] = row] /\ req' = [req EXCEPT ![w] = Idle] /\ link' = link
    BY <1>5 DEF VerifyCommit, Finish
  <2> HIDE DEF row, u
  <2> QED BY <1>u, <2>1, <2>2, <2>3, RowStep
<1>6. ASSUME NEW w \in Workers, NEW u \in Users, NEW l \in Links, ForgotFlush(w, u, l)
      PROVE  AccountsInv'
  BY <1>6, ForgotFlushInv
<1>7. ASSUME NEW w \in Workers, NEW sent \in BOOLEAN, ForgotMail(w, sent) PROVE AccountsInv'
  BY <1>7, ForgotMailInv
<1>8. ASSUME NEW w \in Workers, ForgotCommit(w) PROVE AccountsInv'
  BY <1>8, ForgotCommitInv
<1>9. ASSUME NEW w \in Workers, NEW u \in Users, NEW p \in Passwords, ResetLoad(w, u, p)
      PROVE  AccountsInv'
  <2> DEFINE r == [op |-> "reset", user |-> u, link |-> user[u].reset, pw |-> p]
  <2>0. user[u].reset \in Links /\ user[u].reset # Null
    BY <1>9, <1>u, AccountsAssumption DEF ResetLoad, UserRow
  <2>1. /\ r \in Request /\ r.op = "reset" /\ r.user = u /\ r.link = user[u].reset
    BY <2>0 DEF Request
  <2>2. req' = [req EXCEPT ![w] = r] /\ UNCHANGED <<user, link>>
    BY <1>9 DEF ResetLoad, Begin
  <2> HIDE DEF r
  <2> QED BY <2>0, <2>1, <2>2, RequestStep
<1>10. ASSUME NEW w \in Workers, ResetCommit(w) PROVE AccountsInv'
  BY <1>10, ResetCommitInv
<1>11. ASSUME NEW w \in Workers, NEW u \in Users, NEW p \in Passwords, ChangeLoad(w, u, p)
       PROVE  AccountsInv'
  <2> DEFINE r == [op |-> "change", user |-> u, pw |-> p]
  <2>1. r \in Request /\ r.op = "change"
    BY DEF Request
  <2>2. req' = [req EXCEPT ![w] = r] /\ UNCHANGED <<user, link>>
    BY <1>11 DEF ChangeLoad, Begin
  <2> HIDE DEF r
  <2> QED BY <2>1, <2>2, RequestStep
<1>12. ASSUME NEW w \in Workers, ChangeCommit(w) PROVE AccountsInv'
  <2> DEFINE u == req[w].user
             row == [user[u] EXCEPT !.pw = req[w].pw]
  <2>1. u \in Users /\ req[w].pw \in Passwords
    BY <1>12, <1>f, RequestFields DEF ChangeCommit
  <2>2. /\ row \in UserRow /\ row.verified = user[u].verified /\ row.stored = user[u].stored
        /\ row.invited = user[u].invited /\ row.reset = user[u].reset
        /\ row.lapsed = user[u].lapsed
    <3> HIDE DEF u
    <3> QED BY <1>u, <2>1 DEF UserRow
  <2>3. user' = [user EXCEPT ![u] = row] /\ req' = [req EXCEPT ![w] = Idle] /\ link' = link
    BY <1>12 DEF ChangeCommit, Finish
  <2> HIDE DEF row, u
  <2> QED BY <1>u, <2>1, <2>2, <2>3, RowStep
<1>13. ASSUME NEW w \in Workers, NEW u \in Users, NEW value \in {"default", "chosen"},
              PrefsLoad(w, u, value)
       PROVE  AccountsInv'
  <2> DEFINE r == [op |-> "prefs", user |-> u, value |-> value,
                   missing |-> user[u].prefs = "none"]
  <2>1. r \in Request /\ r.op = "prefs" /\ (r.value = "default" => r.missing)
    BY <1>13 DEF Request, PrefsLoad
  <2>2. req' = [req EXCEPT ![w] = r] /\ UNCHANGED <<user, link>>
    BY <1>13 DEF PrefsLoad, Begin
  <2> HIDE DEF r
  <2> QED BY <2>1, <2>2, RequestStep
<1>14. ASSUME NEW w \in Workers, PrefsCommit(w) PROVE AccountsInv'
  <2> DEFINE u == req[w].user
             row == [user[u] EXCEPT !.prefs = req[w].value]
  <2>1. u \in Users /\ req[w].value \in {"default", "chosen"}
    BY <1>14, <1>f, RequestFields DEF PrefsCommit
  <2>2. /\ row \in UserRow /\ row.verified = user[u].verified /\ row.stored = user[u].stored
        /\ row.invited = user[u].invited /\ row.reset = user[u].reset
        /\ row.lapsed = user[u].lapsed
    <3> HIDE DEF u
    <3> QED BY <1>u, <2>1 DEF UserRow
  <2>3. user' = [user EXCEPT ![u] = row] /\ req' = [req EXCEPT ![w] = Idle] /\ link' = link
    BY <1>14 DEF PrefsCommit, Finish
  <2> HIDE DEF row, u
  <2> QED BY <1>u, <2>1, <2>2, <2>3, RowStep
<1>15. ASSUME NEW w \in Workers, PrefsAbort(w) PROVE AccountsInv'
  BY <1>15, <1>i, RequestStep DEF PrefsAbort, Finish, Idle
<1>16. ASSUME NEW w \in Workers, Drop(w) PROVE AccountsInv'
  <2>1. CASE w \in Registering
    <3> DEFINE u == req[w].user
               row == [user[u] EXCEPT !.invited = FALSE]
    <3>1. u \in Users /\ u \notin Stored
      BY <1>f, <2>1, RequestFields DEF AccountsInv, RegisterInv
    <3>2. /\ row \in UserRow /\ ~row.stored
          /\ row.reset = user[u].reset /\ row.lapsed = user[u].lapsed
      <4> HIDE DEF u
      <4> QED BY <1>u, <3>1 DEF UserRow, Stored
    <3>3. user' = [user EXCEPT ![u] = row] /\ req' = [req EXCEPT ![w] = Idle] /\ link' = link
      <4>1. user' = [v \in Users |-> IF v = u THEN row ELSE user[v]]
        BY <1>16, <2>1 DEF Drop
      <4>2. user \in [Users -> UserRow]
        BY <1>f DEF AccountsTypeOK
      <4> QED BY <1>16, <3>1, <4>1, <4>2 DEF Drop, Finish
    <3> HIDE DEF row
    <3> QED BY <1>i, <2>1, <3>2, <3>3, RegisterStep
  <2>2. CASE w \notin Registering
    <3>1. user' = user
      BY <1>16, <1>f, <2>2 DEF Drop, AccountsTypeOK
    <3> QED BY <1>16, <1>i, <3>1, RequestStep DEF Drop, Finish, Idle
  <2> QED BY <2>1, <2>2
<1>17. ASSUME NEW u \in Users, LinkLapses(u) PROVE AccountsInv'
  <2> DEFINE row == [user[u] EXCEPT !.lapsed = TRUE]
  <2>1. /\ row \in UserRow /\ row.verified = user[u].verified /\ row.stored = user[u].stored
        /\ row.invited = user[u].invited /\ row.reset = user[u].reset
    BY <1>u DEF UserRow
  <2>2. user' = [user EXCEPT ![u] = row] /\ req' = req /\ link' = link /\ user[u].reset # Null
    BY <1>17 DEF LinkLapses
  <2> HIDE DEF row
  <2> QED BY <1>u, <2>1, <2>2, RowStep
<1>18. ASSUME NEW w \in Workers, ResetLapsedCommit(w) PROVE AccountsInv'
  <2> DEFINE u == req[w].user
             row == [user[u] EXCEPT !.reset = Null, !.lapsed = FALSE]
  <2>1. u \in Users
    BY <1>18, <1>f, RequestFields DEF ResetLapsedCommit
  <2>2. /\ row \in UserRow /\ row.verified = user[u].verified /\ row.stored = user[u].stored
        /\ row.invited = user[u].invited /\ row.reset = Null /\ ~row.lapsed
    <3> HIDE DEF u
    <3> QED BY <1>u, <2>1 DEF UserRow
  <2>3. user' = [user EXCEPT ![u] = row] /\ req' = [req EXCEPT ![w] = Idle] /\ link' = link
    BY <1>18 DEF ResetLapsedCommit, Finish
  <2> HIDE DEF row, u
  <2> QED BY <1>u, <2>1, <2>2, <2>3, RowStep
<1>19. ASSUME NEW u \in Users, NEW e \in Emails, EmailChange(u, e) PROVE AccountsInv'
  <2> DEFINE row == [user[u] EXCEPT !.email = e]
  <2>1. /\ row \in UserRow /\ row.verified = user[u].verified /\ row.stored = user[u].stored
        /\ row.invited = user[u].invited /\ row.reset = user[u].reset
        /\ row.lapsed = user[u].lapsed
    BY <1>u DEF UserRow
  <2>2. user' = [user EXCEPT ![u] = row] /\ req' = req /\ link' = link
    BY <1>19 DEF EmailChange
  <2> HIDE DEF row
  <2> QED BY <1>u, <2>1, <2>2, RowStep
<1>20. ASSUME NEW w \in Workers, NEW u \in Users, ResetLapsedLoad(w, u) PROVE AccountsInv'
  <2> DEFINE r == [op |-> "lapsed", user |-> u]
  <2>1. r \in Request /\ r.op = "lapsed"
    BY DEF Request
  <2>2. req' = [req EXCEPT ![w] = r] /\ UNCHANGED <<user, link>>
    BY <1>20 DEF ResetLapsedLoad, Begin
  <2> HIDE DEF r
  <2> QED BY <2>1, <2>2, RequestStep
<1>21. CASE UNCHANGED vars
  BY <1>21 DEF vars, AccountsInv, AccountsTypeOK, RegisterInv, LinksInv, PrefsInv,
               InvitedInv, EveryoneCanVerify, Registering, Drawing, Resetting, Stored
<1> QED BY <1>1, <1>2, <1>3, <1>4, <1>5, <1>6, <1>7, <1>8, <1>9, <1>10, <1>11, <1>12, <1>13,
           <1>14, <1>15, <1>16, <1>17, <1>18, <1>19, <1>20, <1>21 DEF Next

-----------------------------------------------------------------------------
(* The strengthened invariant, for every number of accounts and requests.  *)
THEOREM Invariance == Spec => []AccountsInv
<1> QED BY InitInv, StepInv, PTL DEF Spec

(* Rows and requests keep their types, and a reset link lapses only while  *)
(* there is one.                                                           *)
THEOREM AccountsTypeCorrect == Spec => []AccountsTypeOK
<1>1. AccountsInv => AccountsTypeOK
  BY DEF AccountsInv
<1> QED BY <1>1, Invariance, PTL

(* Nobody is left with an account he cannot verify, in production and in   *)
(* development.  In staging it is false: see RegisterMail.                 *)
THEOREM EveryoneCanVerifyHolds ==
  ASSUME Environment \in {"dev", "prod"}
  PROVE  Spec => []EveryoneCanVerify
<1>1. AccountsInv => EveryoneCanVerify
  BY DEF AccountsInv, InvitedInv
<1> QED BY <1>1, Invariance, PTL

(* A link that has set a password is in no row again.                      *)
THEOREM UsedLinkIsDeadHolds == Spec => []UsedLinkIsDead
<1>1. AccountsInv => UsedLinkIsDead
  BY DEF AccountsInv, LinksInv, UsedLinkIsDead
<1> QED BY <1>1, Invariance, PTL

-----------------------------------------------------------------------------
(* Only who commits preferences writes that column, and defaults only if   *)
(* there is no row.                                                        *)
LEMMA PrefsStep ==
  ASSUME AccountsInv, [Next]_vars, NEW u \in Users, user[u].prefs = "chosen"
  PROVE  user'[u].prefs = "chosen"
<1>t. user \in [Users -> UserRow]
  BY DEF AccountsInv, AccountsTypeOK
<1>r. user[u] \in [stored: BOOLEAN, email: Emails \cup {Null}, pw: Passwords \cup {Null},
                   verified: BOOLEAN, invited: BOOLEAN, reset: Links \cup {Null},
                   lapsed: BOOLEAN, prefs: {"none", "default", "chosen"}]
  BY <1>t DEF UserRow
<1>1. CASE user' = user
  BY <1>1
<1>2. ASSUME NEW w \in Workers, PrefsCommit(w) PROVE user'[u].prefs = "chosen"
  <2>1. CASE req[w].user = u
    <3>1. ~req[w].missing
      BY <1>2, <2>1 DEF PrefsCommit
    <3>2. req[w].value = "chosen"
      BY <1>2, <3>1, RequestFields DEF PrefsCommit, AccountsInv, PrefsInv
    <3> QED BY <1>2, <1>t, <1>r, <2>1, <3>2 DEF PrefsCommit
  <2>2. CASE req[w].user # u
    BY <1>2, <1>t, <2>2 DEF PrefsCommit
  <2> QED BY <2>1, <2>2
<1>3. ASSUME NEW w \in Workers,
             \/ RegisterCommit(w) \/ VerifyCommit(w) \/ ForgotCommit(w) \/ ResetCommit(w)
             \/ ResetLapsedCommit(w) \/ ChangeCommit(w) \/ \E sent \in BOOLEAN : RegisterMail(w, sent)
      PROVE  user'[u].prefs = "chosen"
  <2>1. CASE RegisterMail(w, TRUE) \/ RegisterMail(w, FALSE)
    BY <1>t, <1>r, <2>1 DEF RegisterMail
  <2>2. CASE RegisterCommit(w)
    BY <1>t, <1>r, <2>2 DEF RegisterCommit
  <2>3. CASE VerifyCommit(w)
    BY <1>t, <1>r, <2>3 DEF VerifyCommit
  <2>4. CASE ForgotCommit(w)
    BY <1>t, <1>r, <2>4 DEF ForgotCommit
  <2>5. CASE ResetCommit(w)
    BY <1>t, <1>r, <2>5 DEF ResetCommit
  <2>6. CASE ChangeCommit(w)
    BY <1>t, <1>r, <2>6 DEF ChangeCommit
  <2>7. CASE ResetLapsedCommit(w)
    BY <1>t, <1>r, <2>7 DEF ResetLapsedCommit
  <2> QED BY <1>3, <2>1, <2>2, <2>3, <2>4, <2>5, <2>6, <2>7
<1>4. ASSUME NEW v \in Users, LinkLapses(v) \/ \E e \in Emails : EmailChange(v, e)
      PROVE  user'[u].prefs = "chosen"
  <2>1. CASE v = u
    BY <1>4, <1>t, <1>r, <2>1 DEF LinkLapses, EmailChange
  <2>2. CASE v # u
    BY <1>4, <1>t, <2>2 DEF LinkLapses, EmailChange
  <2> QED BY <2>1, <2>2
<1>5. ASSUME NEW w \in Workers, Drop(w) PROVE user'[u].prefs = "chosen"
  BY <1>5, <1>r DEF Drop
<1>6. CASE Next
  BY <1>1, <1>2, <1>3, <1>4, <1>5, <1>6
     DEF Next, RegisterFlush, VerifyLoad, ForgotFlush, ForgotMail, ResetLoad, ResetLapsedLoad,
         ChangeLoad,
         PrefsLoad, PrefsAbort
<1> QED BY <1>1, <1>6 DEF vars

(* What a user has chosen is not replaced by defaults.                     *)
THEOREM PrefsKeptHolds == Spec => PrefsKept
<1>1. AccountsInv /\ [Next]_vars =>
        [\A u \in Users : user[u].prefs = "chosen" => user'[u].prefs = "chosen"]_vars
  BY PrefsStep
<1> QED BY <1>1, Invariance, PTL DEF Spec, PrefsKept

=============================================================================
