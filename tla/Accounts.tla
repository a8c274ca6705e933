------------------------------ MODULE Accounts -------------------------------
(***************************************************************************)
(* Accounts (auth.py, and e-mail, password and preferences of users.py):   *)
(* registration with its verification mail, the verification, forgotten    *)
(* and changed passwords.  Mails are sent before the transaction that they *)
(* speak of is committed.                                                  *)
(***************************************************************************)
EXTENDS Naturals, FiniteSets

CONSTANTS
    Users, Emails, Passwords,
    Links,          \* tokens of password-reset links
    Workers, Null,
    Environment     \* settings.ENVIRONMENT: only "prod" is is_production, only "dev" is_development

ASSUME AccountsAssumption ==
    /\ Environment \in {"dev", "staging", "prod"}
    /\ Null \notin Emails \cup Passwords \cup Links

VARIABLES
    user,       \* the users table, one row for each account
    link,       \* what has become of each reset link
    req         \* each request under way, with what it has loaded

vars == <<user, link, req>>

-----------------------------------------------------------------------------
(* invited: the verification link has reached the owner, by mail or, in    *)
(* development, with the answer.                                           *)
UserRow == [stored: BOOLEAN, email: Emails \cup {Null}, pw: Passwords \cup {Null},
            verified: BOOLEAN, invited: BOOLEAN,
            reset: Links \cup {Null}, lapsed: BOOLEAN,
            prefs: {"none", "default", "chosen"}]

Request == [op: {"idle"}]
    \cup [op: {"register", "registered"}, user: Users, email: Emails, pw: Passwords]
    \cup [op: {"verify", "lapsed"}, user: Users]
    \cup [op: {"forgot", "forgotten"}, user: Users, link: Links]
    \cup [op: {"reset"}, user: Users, link: Links, pw: Passwords]
    \cup [op: {"change"}, user: Users, pw: Passwords]
    \cup [op: {"prefs"}, user: Users, value: {"default", "chosen"}, missing: BOOLEAN]

Idle == [op |-> "idle"]

(* Rows and requests keep their types; a reset link and its expiry are set *)
(* and cleared together.                                                   *)
AccountsTypeOK ==
    /\ user \in [Users -> UserRow]
    /\ \A u \in Users : user[u].lapsed => user[u].reset # Null
    /\ link \in [Links -> {"fresh", "drawn", "mailed", "used"}]
    /\ req \in [Workers -> Request]

Init ==
    /\ user = [u \in Users |->
                 [stored |-> FALSE, email |-> Null, pw |-> Null, verified |-> FALSE,
                  invited |-> FALSE, reset |-> Null, lapsed |-> FALSE, prefs |-> "none"]]
    /\ link = [l \in Links |-> "fresh"]
    /\ req = [w \in Workers |-> Idle]

Stored == {u \in Users : user[u].stored}
Registering == {w \in Workers : req[w].op \in {"register", "registered"}}

Begin(w, r) == /\ req[w] = Idle
               /\ req' = [req EXCEPT ![w] = r]
Continue(w, op) == req' = [req EXCEPT ![w].op = op]
Finish(w) == req' = [req EXCEPT ![w] = Idle]

(* The unique key on users.email: an insert or update waits for the        *)
(* transaction that has the address uncommitted, and fails when it is in.  *)
Free(e) ==
    /\ \A u \in Stored : user[u].email # e
    /\ \A w \in Registering : req[w].email # e

(* forgot_password flushes before it mails, so it holds the row: an update *)
(* of the row by anybody else waits for its end.                           *)
Unlocked(u) == \A w \in Workers : req[w].op \in {"forgot", "forgotten"} => req[w].user # u

-----------------------------------------------------------------------------
(* POST /register: the row is flushed, the mail sent, the row committed.   *)
RegisterFlush(w, u, e, p) ==
    /\ u \notin Stored /\ \A x \in Registering : req[x].user # u
    /\ Free(e)
    /\ Begin(w, [op |-> "register", user |-> u, email |-> e, pw |-> p])
    /\ UNCHANGED <<user, link>>

(* Fault: the registration goes on without its mail.                       *)
RegisterMailIgnored(w, sent) ==
    /\ req[w].op = "register"
    /\ user' = [user EXCEPT ![req[w].user].invited = sent \/ Environment = "dev"]
    /\ Continue(w, "registered")
    /\ UNCHANGED link

(* A mail that cannot be sent rolls the account back in production only;   *)
(* in development the answer has the link; in staging the registration     *)
(* goes on although the link has reached nobody.                           *)
RegisterMail(w, sent) ==
    /\ req[w].op = "register"
    /\ IF ~sent /\ Environment = "prod"
       THEN Finish(w) /\ UNCHANGED user
       ELSE /\ user' = [user EXCEPT ![req[w].user].invited = sent \/ Environment = "dev"]
            /\ Continue(w, "registered")
    /\ UNCHANGED link

RegisterCommit(w) ==
    /\ req[w].op = "registered"
    /\ user' = [user EXCEPT ![req[w].user] =
                  [@ EXCEPT !.stored = TRUE, !.email = req[w].email, !.pw = req[w].pw]]
    /\ Finish(w)
    /\ UNCHANGED link

(* Verification, by the page or by the link itself.                        *)
VerifyLoad(w, u) ==
    /\ u \in Stored /\ user[u].invited /\ ~user[u].verified
    /\ Begin(w, [op |-> "verify", user |-> u])
    /\ UNCHANGED <<user, link>>

VerifyCommit(w) ==
    /\ req[w].op = "verify" /\ Unlocked(req[w].user)
    /\ user' = [user EXCEPT ![req[w].user].verified = TRUE]
    /\ Finish(w)
    /\ UNCHANGED link

-----------------------------------------------------------------------------
(* POST /forgot-password draws a new link, whatever the row has.           *)
ForgotFlush(w, u, l) ==
    /\ u \in Stored /\ Unlocked(u)
    /\ link[l] = "fresh"
    /\ Begin(w, [op |-> "forgot", user |-> u, link |-> l])
    /\ link' = [link EXCEPT ![l] = "drawn"]
    /\ UNCHANGED user

(* The answer is the same whether the mail is sent or not.                 *)
ForgotMail(w, sent) ==
    /\ req[w].op = "forgot"
    /\ link' = IF sent \/ Environment = "dev"
               THEN [link EXCEPT ![req[w].link] = "mailed"] ELSE link
    /\ Continue(w, "forgotten")
    /\ UNCHANGED user

ForgotCommit(w) ==
    /\ req[w].op = "forgotten"
    /\ user' = [user EXCEPT ![req[w].user].reset = req[w].link,
                            ![req[w].user].lapsed = FALSE]
    /\ Finish(w)
    /\ UNCHANGED link

LinkLapses(u) ==
    /\ user[u].reset # Null /\ ~user[u].lapsed
    /\ user' = [user EXCEPT ![u].lapsed = TRUE]
    /\ UNCHANGED <<link, req>>

(* POST /reset-password with a link the owner has got.                     *)
ResetLoad(w, u, p) ==
    /\ u \in Stored
    /\ user[u].reset # Null /\ link[user[u].reset] \in {"mailed", "used"}
    /\ ~user[u].lapsed
    /\ Begin(w, [op |-> "reset", user |-> u, link |-> user[u].reset, pw |-> p])
    /\ UNCHANGED <<user, link>>

(* A link that has lapsed when the row is loaded is removed on the way to  *)
(* the 400.                                                                *)
ResetLapsedLoad(w, u) ==
    /\ u \in Stored
    /\ user[u].reset # Null /\ link[user[u].reset] \in {"mailed", "used"}
    /\ user[u].lapsed
    /\ Begin(w, [op |-> "lapsed", user |-> u])
    /\ UNCHANGED <<user, link>>

(* Fault: the link goes and its expiry stays.                              *)
ResetLapsedHalf(w) ==
    /\ req[w].op = "lapsed" /\ Unlocked(req[w].user)
    /\ user' = [user EXCEPT ![req[w].user].reset = Null]
    /\ Finish(w)
    /\ UNCHANGED link

(* The columns are cleared by the id of the row: a newer link, committed   *)
(* since the load, goes as well.                                           *)
ResetLapsedCommit(w) ==
    /\ req[w].op = "lapsed" /\ Unlocked(req[w].user)
    /\ user' = [user EXCEPT ![req[w].user].reset = Null, ![req[w].user].lapsed = FALSE]
    /\ Finish(w)
    /\ UNCHANGED link

(* Fault: the link is left in the row.                                     *)
ResetKeepsLink(w) ==
    /\ req[w].op = "reset" /\ Unlocked(req[w].user)
    /\ user' = [user EXCEPT ![req[w].user].pw = req[w].pw]
    /\ link' = [link EXCEPT ![req[w].link] = "used"]
    /\ Finish(w)

(* The row loses its link, be it the one of the request or one that was    *)
(* mailed while the request was under way.  "used" is stored nowhere: it   *)
(* remembers that the link has set a password.                             *)
ResetCommit(w) ==
    /\ req[w].op = "reset" /\ Unlocked(req[w].user)
    /\ user' = [user EXCEPT ![req[w].user].pw = req[w].pw,
                            ![req[w].user].reset = Null,
                            ![req[w].user].lapsed = FALSE]
    /\ link' = [link EXCEPT ![req[w].link] = "used"]
    /\ Finish(w)

(* POST /users/me/password: the user knows the password that is loaded.    *)
ChangeLoad(w, u, p) ==
    /\ u \in Stored /\ user[u].verified
    /\ Begin(w, [op |-> "change", user |-> u, pw |-> p])
    /\ UNCHANGED <<user, link>>

ChangeCommit(w) ==
    /\ req[w].op = "change" /\ Unlocked(req[w].user)
    /\ user' = [user EXCEPT ![req[w].user].pw = req[w].pw]
    /\ Finish(w)
    /\ UNCHANGED link

(* PATCH /users/me: a new address is not verified again.                   *)
EmailChange(u, e) ==
    /\ u \in Stored /\ user[u].verified /\ Unlocked(u)
    /\ Free(e)
    /\ user' = [user EXCEPT ![u].email = e]
    /\ UNCHANGED <<link, req>>

(* GET and PATCH of the preferences: who finds none inserts a row, with    *)
(* the defaults or with what was chosen.  A GET that finds one ends.       *)
PrefsLoad(w, u, value) ==
    /\ u \in Stored /\ user[u].verified
    /\ user[u].prefs = "none" \/ value = "chosen"
    /\ Begin(w, [op |-> "prefs", user |-> u, value |-> value,
                 missing |-> user[u].prefs = "none"])
    /\ UNCHANGED <<user, link>>

(* Fault: a row that is there by now is written over.                      *)
PrefsUpsert(w) ==
    /\ req[w].op = "prefs"
    /\ user' = [user EXCEPT ![req[w].user].prefs = req[w].value]
    /\ Finish(w)
    /\ UNCHANGED link

PrefsCommit(w) ==
    /\ req[w].op = "prefs"
    /\ req[w].missing => user[req[w].user].prefs = "none"
    /\ user' = [user EXCEPT ![req[w].user].prefs = req[w].value]
    /\ Finish(w)
    /\ UNCHANGED link

(* The row is unique for the user: a second insert is answered with a 500. *)
PrefsAbort(w) ==
    /\ req[w].op = "prefs" /\ req[w].missing
    /\ user[req[w].user].prefs # "none"
    /\ Finish(w)
    /\ UNCHANGED <<user, link>>

(* The process dies, or the commit fails; a mail that was sent stays sent. *)
Drop(w) ==
    /\ req[w] # Idle
    /\ Finish(w)
    /\ user' = [u \in Users |-> IF w \in Registering /\ u = req[w].user
                               THEN [user[u] EXCEPT !.invited = FALSE] ELSE user[u]]
    /\ UNCHANGED link

-----------------------------------------------------------------------------
Next ==
    \/ \E w \in Workers :
          \/ \E u \in Users, e \in Emails, p \in Passwords : RegisterFlush(w, u, e, p)
          \/ \E sent \in BOOLEAN : RegisterMail(w, sent) \/ ForgotMail(w, sent)
          \/ \E u \in Users : VerifyLoad(w, u) \/ ResetLapsedLoad(w, u)
          \/ \E u \in Users, l \in Links : ForgotFlush(w, u, l)
          \/ \E u \in Users, p \in Passwords : ResetLoad(w, u, p) \/ ChangeLoad(w, u, p)
          \/ RegisterCommit(w) \/ VerifyCommit(w) \/ ForgotCommit(w)
          \/ \E u \in Users, value \in {"default", "chosen"} : PrefsLoad(w, u, value)
          \/ PrefsCommit(w) \/ PrefsAbort(w)
          \/ ResetCommit(w) \/ ResetLapsedCommit(w) \/ ChangeCommit(w) \/ Drop(w)
    \/ \E u \in Users : LinkLapses(u) \/ \E e \in Emails : EmailChange(u, e)

Spec == Init /\ [][Next]_vars

-----------------------------------------------------------------------------
(* Properties.                                                             *)

(* Nobody is left with an account he cannot verify, for whom the address   *)
(* is taken for good: where registrations are rolled back (production) or  *)
(* answered with the link (development), no row is committed without one   *)
(* of the two.  In staging the code does neither, and the property fails.  *)
EveryoneCanVerify == \A u \in Stored : ~user[u].verified => user[u].invited

(* A link that has set a password is in no row again, whatever links were  *)
(* mailed, stored and removed by requests that ran beside it.              *)
UsedLinkIsDead == \A u \in Users : user[u].reset # Null => link[user[u].reset] # "used"

(* What a user has chosen is not replaced by the defaults of a GET that    *)
(* found no row.                                                           *)
PrefsKept ==
    [][\A u \in Users : user[u].prefs = "chosen" => user'[u].prefs = "chosen"]_vars

=============================================================================
