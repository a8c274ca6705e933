------------------------------- MODULE Tokens --------------------------------
(***************************************************************************)
(* Sessions of one user: the token pairs the server issues and exchanges   *)
(* (auth.py, jwt.py), and the mobile application that keeps one pair and   *)
(* has several calls under way, each of which may find the access token    *)
(* rejected and start an exchange.  A pair is an access token and the      *)
(* refresh token that was issued with it.                                  *)
(***************************************************************************)
EXTENDS Naturals, FiniteSets

CONSTANTS
    Pairs,      \* token pairs that can be issued
    Callers,    \* calls the application may have under way
    Workers,    \* requests the server may have under way
    Null

ASSUME TokensAssumption == Null \notin Pairs \cup Callers \cup Workers

VARIABLES
    pair,       \* the row of each refresh token, with the access token
    active,     \* users.is_active
    phone,      \* what the application has stored
    caller,     \* each call of the application
    req         \* each request of the server, with what it has loaded

vars == <<pair, active, phone, caller, req>>

-----------------------------------------------------------------------------
RefreshStatus == {"absent", "live", "lapsed", "revoked"}
AccessStatus == {"live", "dead"}    \* dead: past its expiry, or on the blacklist

(* issuer is not a column: it remembers which exchange wrote the row.      *)
PairRow == [refresh: RefreshStatus, access: AccessStatus, parent: Pairs \cup {Null},
            issuer: Workers \cup {Null}]

(* dropped: the application was closed while it was exchanging the pair.   *)
Phone == [held: Pairs \cup {Null}, dropped: BOOLEAN]

Caller == [step: {"idle", "rejected", "waiting", "served", "refused", "retrying"},
           pair: Pairs \cup {Null}]

Request == [op: {"idle"}]
    \cup [op: {"issue"}, by: Callers \cup {Null}, parent: Pairs \cup {Null}]
    \cup [op: {"logout"}, pair: Pairs]

Idle == [op |-> "idle"]
Rest == [step |-> "idle", pair |-> Null]

(* The rows, the stored pair, the calls and the requests keep their types. *)
TokensTypeOK ==
    /\ pair \in [Pairs -> PairRow]
    /\ active \in BOOLEAN
    /\ phone \in Phone
    /\ caller \in [Callers -> Caller]
    /\ req \in [Workers -> Request]

Init ==
    /\ pair = [t \in Pairs |-> [refresh |-> "absent", access |-> "live",
                           parent |-> Null, issuer |-> Null]]
    /\ active = TRUE
    /\ phone = [held |-> Null, dropped |-> FALSE]
    /\ caller = [c \in Callers |-> Rest]
    /\ req = [w \in Workers |-> Idle]

Issued == {t \in Pairs : pair[t].refresh # "absent"}

(* A bound of the model: a pair is left for every request under way.       *)
SparePair == Cardinality({w \in Workers : req[w].op = "issue"}) < Cardinality(Pairs \ Issued)

Begin(w, r) == /\ req[w] = Idle
               /\ req' = [req EXCEPT ![w] = r]
Finish(w) == req' = [req EXCEPT ![w] = Idle]

(* An answer reaches the call that still waits for it, if there is one.    *)
Answered(c, answer) ==
    [d \in Callers |-> IF d = c /\ caller[c].step = "waiting" THEN answer ELSE caller[d]]

-----------------------------------------------------------------------------
(* The server.                                                             *)

(* authenticate_user lets active users in; the application has emptied its *)
(* storage before it asks.                                                 *)
LoginLoad(w, c) ==
    /\ SparePair /\ active
    /\ caller[c] = Rest
    /\ Begin(w, [op |-> "issue", by |-> c, parent |-> Null])
    /\ caller' = [caller EXCEPT ![c] = [step |-> "waiting", pair |-> Null]]
    /\ phone' = [held |-> Null, dropped |-> FALSE]
    /\ UNCHANGED <<pair, active>>

(* POST /refresh selects the token among those not revoked, and looks      *)
(* neither at the access token nor at the user.                            *)
RefreshLoad(w, c) ==
    /\ SparePair
    /\ caller[c].step = "rejected"
    /\ pair[caller[c].pair].refresh = "live"
    /\ Begin(w, [op |-> "issue", by |-> c, parent |-> caller[c].pair])
    /\ caller' = [caller EXCEPT ![c].step = "waiting"]
    /\ UNCHANGED <<pair, active, phone>>

(* Fault: the lapsed token gets a status of its own.                       *)
RefreshLapsedMarks(c) ==
    /\ caller[c].step = "rejected"
    /\ pair[caller[c].pair].refresh = "lapsed"
    /\ pair' = [pair EXCEPT ![caller[c].pair].refresh = "expired"]
    /\ caller' = [caller EXCEPT ![c].step = "refused"]
    /\ UNCHANGED <<active, phone, req>>

(* A token past its thirty days is marked revoked on the way to the 401.   *)
RefreshLapsed(c) ==
    /\ caller[c].step = "rejected"
    /\ pair[caller[c].pair].refresh = "lapsed"
    /\ pair' = [pair EXCEPT ![caller[c].pair].refresh = "revoked"]
    /\ caller' = [caller EXCEPT ![c].step = "refused"]
    /\ UNCHANGED <<active, phone, req>>

RefreshRevoked(c) ==
    /\ caller[c].step = "rejected"
    /\ pair[caller[c].pair].refresh = "revoked"
    /\ caller' = [caller EXCEPT ![c].step = "refused"]
    /\ UNCHANGED <<pair, active, phone, req>>

Issuer(w) == IF req[w].parent = Null THEN Null ELSE w

(* Fault: the exchanged token is left as it is.                            *)
IssueKeepsParent(w, t) ==
    /\ req[w].op = "issue"
    /\ pair[t].refresh = "absent"
    /\ pair' = [pair EXCEPT ![t] = [refresh |-> "live", access |-> "live",
                                    parent |-> req[w].parent, issuer |-> Issuer(w)]]
    /\ caller' = Answered(req[w].by, [step |-> "served", pair |-> t])
    /\ Finish(w)
    /\ UNCHANGED <<active, phone>>

(* login, token and refresh end alike: the new row is inserted and, in the *)
(* same transaction, the exchanged one revoked.                            *)
IssueCommit(w, t) ==
    /\ req[w].op = "issue"
    /\ pair[t].refresh = "absent"
    /\ pair' = [x \in Pairs |->
                  CASE x = t -> [refresh |-> "live", access |-> "live",
                                 parent |-> req[w].parent, issuer |-> Issuer(w)]
                    [] x = req[w].parent -> [pair[x] EXCEPT !.refresh = "revoked"]
                    [] OTHER -> pair[x]]
    /\ caller' = Answered(req[w].by, [step |-> "served", pair |-> t])
    /\ Finish(w)
    /\ UNCHANGED <<active, phone>>

(* POST /logout with an access token that get_current_payload and          *)
(* get_current_user accept.                                                *)
LogoutLoad(w) ==
    /\ phone.held # Null
    /\ pair[phone.held].access = "live" /\ active
    /\ Begin(w, [op |-> "logout", pair |-> phone.held])
    /\ UNCHANGED <<pair, active, phone, caller>>

(* The second of two rows for one jti meets the unique key and the answer  *)
(* is the same; the refresh token is not touched.  The application empties *)
(* its storage whatever the answer is.                                     *)
LogoutCommit(w) ==
    /\ req[w].op = "logout"
    /\ pair' = [pair EXCEPT ![req[w].pair].access = "dead"]
    /\ phone' = [held |-> Null, dropped |-> FALSE]
    /\ Finish(w)
    /\ UNCHANGED <<active, caller>>

(* The process dies, or the commit fails: the call gets a 5xx.             *)
Drop(w) ==
    /\ req[w] # Idle
    /\ IF req[w].op = "issue"
       THEN /\ caller' = Answered(req[w].by, [step |-> "refused", pair |-> req[w].parent])
            /\ UNCHANGED phone
       ELSE /\ phone' = [held |-> Null, dropped |-> FALSE]
            /\ UNCHANGED caller
    /\ Finish(w)
    /\ UNCHANGED <<pair, active>>

(* PATCH /users/admin/{id}/enable.                                         *)
SetActive == active' = ~active /\ UNCHANGED <<pair, phone, caller, req>>

AccessLapses(t) ==
    /\ t \in Issued /\ pair[t].access = "live"
    /\ pair' = [pair EXCEPT ![t].access = "dead"]
    /\ UNCHANGED <<active, phone, caller, req>>

RefreshLapses(t) ==
    /\ pair[t].refresh = "live"
    /\ pair' = [pair EXCEPT ![t].refresh = "lapsed"]
    /\ UNCHANGED <<active, phone, caller, req>>

-----------------------------------------------------------------------------
(* The application.                                                        *)

(* A call is answered 401, and reads the stored refresh token.             *)
CallRejected(c) ==
    /\ caller[c] = Rest
    /\ phone.held # Null
    /\ pair[phone.held].access # "live" \/ ~active
    /\ caller' = [caller EXCEPT ![c] = [step |-> "rejected", pair |-> phone.held]]
    /\ UNCHANGED <<pair, active, phone, req>>

(* Thirty seconds without an answer; the server may still be at work.      *)
TimeOut(c) ==
    /\ caller[c].step = "waiting"
    /\ caller' = [caller EXCEPT ![c].step = "refused"]
    /\ req' = [w \in Workers |-> IF req[w].op = "issue" /\ req[w].by = c
                                 THEN [req[w] EXCEPT !.by = Null] ELSE req[w]]
    /\ UNCHANGED <<pair, active, phone>>

(* After an exchange the call is repeated; after a login there is none.    *)
SaveTokens(c) ==
    /\ caller[c].step = "served"
    /\ phone' = [held |-> caller[c].pair, dropped |-> FALSE]
    /\ caller' = [caller EXCEPT ![c] = IF pair[caller[c].pair].parent = Null THEN Rest
                                       ELSE [@ EXCEPT !.step = "retrying"]]
    /\ UNCHANGED <<pair, active, req>>

(* A call that fails when it is repeated, for whatever reason, empties the *)
(* storage; one that is rejected goes through the exchange again first.    *)
Retry(c) ==
    /\ caller[c].step = "retrying"
    /\ \/ /\ active
          /\ caller' = [caller EXCEPT ![c] = Rest]
          /\ UNCHANGED phone
       \/ /\ phone' = [held |-> Null, dropped |-> FALSE]
          /\ caller' = [caller EXCEPT ![c] = Rest]
       \/ /\ ~active /\ phone.held # Null
          /\ caller' = [caller EXCEPT ![c] = [step |-> "rejected", pair |-> phone.held]]
          /\ UNCHANGED phone
    /\ UNCHANGED <<pair, active, req>>

(* Fault: a failed exchange leaves the storage as it is.                   *)
GiveUpKeeping(c) ==
    /\ caller[c].step = "refused"
    /\ caller' = [caller EXCEPT ![c] = Rest]
    /\ UNCHANGED <<pair, active, phone, req>>

(* Whatever made an exchange fail, the storage is emptied, even when       *)
(* another call has just stored a new pair.  A login only fails.           *)
GiveUp(c) ==
    /\ caller[c].step = "refused"
    /\ phone' = IF caller[c].pair = Null THEN phone
                ELSE [held |-> Null, dropped |-> FALSE]
    /\ caller' = [caller EXCEPT ![c] = Rest]
    /\ UNCHANGED <<pair, active, req>>

(* The application is closed; the storage stays.                           *)
Close ==
    /\ phone' = [phone EXCEPT !.dropped = @ \/ \E c \in Callers : caller[c] # Rest]
    /\ caller' = [c \in Callers |-> Rest]
    /\ req' = [w \in Workers |-> IF req[w].op = "issue" THEN [req[w] EXCEPT !.by = Null]
                                 ELSE req[w]]
    /\ UNCHANGED <<pair, active>>

-----------------------------------------------------------------------------
ServerStep(w) ==
    \/ \E t \in Pairs : IssueCommit(w, t)
    \/ LogoutCommit(w)
    \/ Drop(w)

CallerStep(c) ==
    \/ \E w \in Workers : RefreshLoad(w, c)
    \/ RefreshLapsed(c) \/ RefreshRevoked(c)
    \/ TimeOut(c) \/ SaveTokens(c) \/ Retry(c) \/ GiveUp(c)

Next ==
    \/ \E w \in Workers : ServerStep(w) \/ LogoutLoad(w)
    \/ \E c \in Callers : CallerStep(c) \/ CallRejected(c) \/ \E w \in Workers : LoginLoad(w, c)
    \/ \E t \in Pairs : AccessLapses(t) \/ RefreshLapses(t)
    \/ SetActive \/ Close

Spec == Init /\ [][Next]_vars

-----------------------------------------------------------------------------
(* Properties.                                                             *)

(* The exchange reads the token, and revokes it at its commit, without a   *)
(* lock: one token may get several successors.  They come from requests    *)
(* that were under way together, each with one, and a token that has a     *)
(* successor is revoked for good.                                          *)
RotationBounded ==
    \A u \in Issued : pair[u].parent # Null =>
       /\ pair[pair[u].parent].refresh = "revoked"
       /\ \A v \in Issued \ {u} : pair[v].parent = pair[u].parent =>
                                   pair[v].issuer # pair[u].issuer

(* However the calls of the application exchange, time out, save and give  *)
(* up, what it has stored can be exchanged, unless some call is just       *)
(* exchanging it or the application was closed while one did.              *)
PhoneHoldsUsable ==
    phone.held # Null /\ pair[phone.held].refresh = "revoked" =>
       \/ phone.dropped
       \/ \E c \in Callers :
             \/ caller[c].step \in {"rejected", "waiting", "refused"} /\ caller[c].pair = phone.held
             \/ caller[c].step = "served" /\ pair[caller[c].pair].parent = phone.held

=============================================================================
