---------------------------- MODULE TokensProofs -----------------------------
(***************************************************************************)
(* However many calls exchange a token at the same time, its successors    *)
(* come from different requests, and the application is not left with a    *)
(* token that is revoked: proved of Tokens for every number of pairs,      *)
(* calls and requests.                                                     *)
(***************************************************************************)
EXTENDS Tokens, TLAPS

(* A request that is exchanging a token has issued no successor of it: it  *)
(* found the token not revoked, and whoever issues a successor revokes the *)
(* token in the same transaction.                                          *)
Fresh(w) ==
    req[w].op = "issue" /\ req[w].parent # Null =>
       /\ req[w].parent \in Issued
       /\ \A u \in Issued : pair[u].parent = req[w].parent => pair[u].issuer # w

TokensInv == TokensTypeOK /\ RotationBounded /\ \A w \in Workers : Fresh(w)

-----------------------------------------------------------------------------
(* The initial rows are absent and no request is under way.                *)
THEOREM InitInv == Init => TokensInv
  BY TokensAssumption DEF Init, TokensInv, TokensTypeOK, RotationBounded, Fresh, Issued,
     PairRow, RefreshStatus, AccessStatus, Phone, Caller, Request, Idle, Rest

(* A step that only marks tokens lapsed, dead or revoked, and starts no    *)
(* exchange, keeps every request's view.                                   *)
LEMMA MarksKeepInv ==
  ASSUME TokensInv, TokensTypeOK',
         \A t \in Pairs : /\ pair'[t].parent = pair[t].parent
                          /\ pair'[t].issuer = pair[t].issuer
                          /\ pair[t].refresh = "absent" <=> pair'[t].refresh = "absent"
                          /\ pair[t].refresh = "revoked" => pair'[t].refresh = "revoked",
         \A w \in Workers : req'[w].op = "issue" =>
                               req[w].op = "issue" /\ req'[w].parent = req[w].parent
  PROVE  TokensInv'
<1>1. Issued' = Issued
  BY DEF Issued
<1>2. RotationBounded'
  BY <1>1 DEF TokensInv, RotationBounded, TokensTypeOK, PairRow, Issued
<1>3. \A w \in Workers : Fresh(w)'
  BY <1>1 DEF TokensInv, Fresh, Issued
<1> QED BY <1>2, <1>3 DEF TokensInv

(* Every action keeps rows, calls and requests in their types.             *)
LEMMA TypeStep == TokensTypeOK /\ [Next]_vars => TokensTypeOK'
<1> SUFFICES ASSUME TokensTypeOK, [Next]_vars PROVE TokensTypeOK'
  OBVIOUS
<1> USE DEF TokensTypeOK, Request, Idle
<1>1. ASSUME NEW w \in Workers, NEW t \in Pairs, IssueCommit(w, t) PROVE TokensTypeOK'
  <2>1. \A x \in Pairs : pair'[x] \in PairRow
    <3>1. [refresh |-> "live", access |-> "live", parent |-> req[w].parent,
           issuer |-> Issuer(w)] \in PairRow
      BY <1>1 DEF IssueCommit, Issuer, PairRow, RefreshStatus, AccessStatus
    <3>2. \A x \in Pairs : [pair[x] EXCEPT !.refresh = "revoked"] \in PairRow
      BY DEF PairRow, RefreshStatus
    <3> QED BY <1>1, <3>1, <3>2 DEF IssueCommit
  <2>2. pair' \in [Pairs -> PairRow]
    BY <1>1, <2>1 DEF IssueCommit
  <2>3. caller' \in [Callers -> Caller]
    BY <1>1 DEF IssueCommit, Answered, Caller
  <2>4. req' \in [Workers -> Request]
    BY <1>1 DEF IssueCommit, Finish
  <2> QED BY <1>1, <2>2, <2>3, <2>4 DEF IssueCommit
<1>2. ASSUME NEW w \in Workers, LogoutCommit(w) PROVE TokensTypeOK'
  BY <1>2 DEF LogoutCommit, Finish, PairRow, AccessStatus, Phone
<1>3. ASSUME NEW w \in Workers, Drop(w) PROVE TokensTypeOK'
  <2>0. phone' = phone \/ phone' = [held |-> Null, dropped |-> FALSE]
    BY <1>3 DEF Drop
  <2>3. [held |-> Null, dropped |-> FALSE] \in Phone
    BY DEF Phone
  <2>1. req' \in [Workers -> Request] /\ phone' \in Phone
    BY <1>3, <2>0, <2>3 DEF Drop, Finish
  <2>2. caller' \in [Callers -> Caller]
    <3>1. CASE req[w].op = "issue"
      BY <1>3, <3>1 DEF Drop, Answered, Caller
    <3>2. CASE req[w].op # "issue"
      BY <1>3, <3>2 DEF Drop
    <3> QED BY <3>1, <3>2
  <2> QED BY <1>3, <2>1, <2>2 DEF Drop
<1>4. ASSUME NEW w \in Workers, LogoutLoad(w) PROVE TokensTypeOK'
  BY <1>4 DEF LogoutLoad, Begin, Phone
<1>5. ASSUME NEW w \in Workers, NEW c \in Callers, RefreshLoad(w, c) PROVE TokensTypeOK'
  BY <1>5 DEF RefreshLoad, Begin, Caller
<1>6. ASSUME NEW w \in Workers, NEW c \in Callers, LoginLoad(w, c) PROVE TokensTypeOK'
  BY <1>6 DEF LoginLoad, Begin, Caller, Phone
<1>7. ASSUME NEW c \in Callers, RefreshLapsed(c) PROVE TokensTypeOK'
  <2>1. \A t \in Pairs : pair'[t] \in PairRow
    BY <1>7 DEF RefreshLapsed, PairRow, RefreshStatus
  <2>2. pair' \in [Pairs -> PairRow]
    BY <1>7, <2>1 DEF RefreshLapsed
  <2>3. caller' \in [Callers -> Caller]
    BY <1>7 DEF RefreshLapsed, Caller
  <2> QED BY <1>7, <2>2, <2>3 DEF RefreshLapsed
<1>8. ASSUME NEW c \in Callers, RefreshRevoked(c) PROVE TokensTypeOK'
  BY <1>8 DEF RefreshRevoked, Caller
<1>9. ASSUME NEW c \in Callers, TimeOut(c) PROVE TokensTypeOK'
  BY <1>9 DEF TimeOut, Caller
<1>10. ASSUME NEW c \in Callers, SaveTokens(c) PROVE TokensTypeOK'
  BY <1>10 DEF SaveTokens, Caller, Phone, Rest
<1>11. ASSUME NEW c \in Callers, Retry(c) PROVE TokensTypeOK'
  <2>0. phone' = phone \/ phone' = [held |-> Null, dropped |-> FALSE]
    BY <1>11 DEF Retry
  <2>4. [held |-> Null, dropped |-> FALSE] \in Phone
    BY DEF Phone
  <2>1. phone' \in Phone
    BY <2>0, <2>4
  <2>2. [step |-> "rejected", pair |-> phone.held] \in Caller /\ Rest \in Caller
    BY DEF Phone, Caller, Rest
  <2>3. caller' \in [Callers -> Caller]
    BY <1>11, <2>2 DEF Retry
  <2> QED BY <1>11, <2>1, <2>3 DEF Retry
<1>12. ASSUME NEW c \in Callers, GiveUp(c) PROVE TokensTypeOK'
  BY <1>12 DEF GiveUp, Caller, Phone, Rest
<1>13. ASSUME NEW c \in Callers, CallRejected(c) PROVE TokensTypeOK'
  BY <1>13 DEF CallRejected, Caller, Phone
<1>14. ASSUME NEW t \in Pairs, AccessLapses(t) \/ RefreshLapses(t) PROVE TokensTypeOK'
  BY <1>14 DEF AccessLapses, RefreshLapses, PairRow, RefreshStatus, AccessStatus
<1>15. CASE SetActive
  BY <1>15 DEF SetActive
<1>16. CASE Close
  <2>1. phone' \in Phone
    BY <1>16 DEF Close, Phone
  <2>2. caller' \in [Callers -> Caller]
    BY <1>16 DEF Close, Caller, Rest
  <2>3. req' \in [Workers -> Request]
    <3>1. \A w \in Workers : req[w].op = "issue" => [req[w] EXCEPT !.by = Null] \in Request
      OBVIOUS
    <3> QED BY <1>16, <3>1 DEF Close
  <2> QED BY <1>16, <2>1, <2>2, <2>3 DEF Close
<1>17. CASE UNCHANGED vars
  BY <1>17 DEF vars
<1> HIDE DEF TokensTypeOK, Request, Idle
<1> QED
  BY <1>1, <1>2, <1>3, <1>4, <1>5, <1>6, <1>7, <1>8, <1>9, <1>10, <1>11, <1>12, <1>13, <1>14,
     <1>15, <1>16, <1>17 DEF Next, ServerStep, CallerStep

(* The transaction that stores a successor revokes the token it is of.     *)
LEMMA IssueKeepsInv ==
  ASSUME TokensInv, TokensTypeOK', NEW w \in Workers, NEW t \in Pairs, IssueCommit(w, t)
  PROVE  TokensInv'
<1> DEFINE p == req[w].parent
<1> USE TokensAssumption
<1>1. /\ req[w].op = "issue" /\ p \in Pairs \cup {Null}
      /\ pair \in [Pairs -> PairRow]
      /\ t \notin Issued /\ Issued' = Issued \cup {t}
      /\ p # Null => p \in Issued
      /\ \A u \in Issued : p # Null /\ pair[u].parent = p => pair[u].issuer # w
  BY DEF TokensInv, TokensTypeOK, Fresh, IssueCommit, Issued, Request, Idle, PairRow
<1>2. /\ pair'[t].parent = p /\ (p # Null => pair'[t].issuer = w)
      /\ \A u \in Issued : /\ pair'[u].parent = pair[u].parent
                           /\ pair'[u].issuer = pair[u].issuer
                           /\ pair[u].refresh = "revoked" => pair'[u].refresh = "revoked"
      /\ p # Null => pair'[p].refresh = "revoked"
  BY <1>1 DEF IssueCommit, Issuer, Issued, PairRow
<1>3. \A u \in Issued : pair[u].parent # Null => pair[u].parent \in Issued
  BY <1>1 DEF TokensInv, RotationBounded, Issued, PairRow
<1>4. RotationBounded'
  <2> SUFFICES ASSUME NEW u \in Issued', pair'[u].parent # Null
               PROVE  /\ pair'[pair'[u].parent].refresh = "revoked"
                      /\ \A v \in Issued' \ {u} : pair'[v].parent = pair'[u].parent =>
                                                   pair'[v].issuer # pair'[u].issuer
    BY DEF RotationBounded
  <2>1. CASE u = t
    BY <1>1, <1>2, <2>1
  <2>2. CASE u \in Issued
    <3>1. pair'[pair'[u].parent].refresh = "revoked"
      BY <1>2, <1>3, <2>2 DEF TokensInv, RotationBounded
    <3>2. ASSUME NEW v \in Issued \ {u}, pair'[v].parent = pair'[u].parent
          PROVE  pair'[v].issuer # pair'[u].issuer
      BY <1>2, <2>2, <3>2 DEF TokensInv, RotationBounded
    <3>3. pair'[t].parent = pair'[u].parent => pair'[t].issuer # pair'[u].issuer
      BY <1>1, <1>2, <2>2
    <3> QED BY <1>1, <3>1, <3>2, <3>3
  <2> QED BY <1>1, <2>1, <2>2
<1>5. ASSUME NEW x \in Workers PROVE Fresh(x)'
  <2>1. req'[x] = IF x = w THEN Idle ELSE req[x]
    BY DEF IssueCommit, Finish, TokensInv, TokensTypeOK
  <2>2. CASE x = w
    BY <2>1, <2>2 DEF Fresh, Idle
  <2>3. CASE x # w
    <3>1. req'[x] = req[x] /\ Fresh(x)
      BY <2>1, <2>3 DEF TokensInv
    <3>2. SUFFICES ASSUME req[x].op = "issue", req[x].parent # Null
                   PROVE  /\ req[x].parent \in Issued'
                          /\ \A u \in Issued' : pair'[u].parent = req[x].parent =>
                                               pair'[u].issuer # x
      BY <3>1 DEF Fresh
    <3>3. /\ req[x].parent \in Issued
          /\ \A u \in Issued : pair[u].parent = req[x].parent => pair[u].issuer # x
      BY <3>1, <3>2 DEF Fresh
    <3> QED BY <1>1, <1>2, <2>3, <3>2, <3>3
  <2> QED BY <2>2, <2>3
<1> QED BY <1>4, <1>5 DEF TokensInv

(* A request starts to exchange a token that nobody has exchanged yet.     *)
LEMMA LoadKeepsInv ==
  ASSUME TokensInv, TokensTypeOK', NEW w \in Workers, NEW c \in Callers,
         RefreshLoad(w, c) \/ LoginLoad(w, c)
  PROVE  TokensInv'
<1>1. pair' = pair /\ Issued' = Issued
  BY DEF RefreshLoad, LoginLoad, Issued
<1>2. RotationBounded'
  BY <1>1 DEF TokensInv, RotationBounded
<1>3. \A x \in Workers \ {w} : req'[x] = req[x]
  BY DEF RefreshLoad, LoginLoad, Begin, TokensInv, TokensTypeOK
<1>4. Fresh(w)'
  <2>1. req'[w].parent # Null => /\ req'[w].parent \in Pairs
                                 /\ pair[req'[w].parent].refresh = "live"
    BY DEF RefreshLoad, LoginLoad, Begin, TokensInv, TokensTypeOK, Request, Idle, Caller
  <2> QED BY <1>1, <2>1 DEF Fresh, TokensInv, RotationBounded, Issued
<1> QED BY <1>1, <1>2, <1>3, <1>4 DEF TokensInv, Fresh

(* The invariant is inductive: what is left marks tokens or ends requests. *)
LEMMA NextInv == TokensInv /\ [Next]_vars => TokensInv'
<1> SUFFICES ASSUME TokensInv, [Next]_vars PROVE TokensInv'
  OBVIOUS
<1>0. TokensTypeOK'
  BY TypeStep DEF TokensInv
<1>1. ASSUME NEW w \in Workers, NEW t \in Pairs, IssueCommit(w, t) PROVE TokensInv'
  BY <1>0, <1>1, IssueKeepsInv
<1>2. ASSUME NEW w \in Workers, NEW c \in Callers, RefreshLoad(w, c) \/ LoginLoad(w, c)
      PROVE TokensInv'
  BY <1>0, <1>2, LoadKeepsInv
<1> USE DEF TokensInv, TokensTypeOK, PairRow, Request, Idle
<1>3. ASSUME NEW w \in Workers, LogoutCommit(w) \/ Drop(w) \/ LogoutLoad(w) PROVE TokensInv'
  <2>1. CASE LogoutCommit(w)
    BY <1>0, <2>1, MarksKeepInv DEF LogoutCommit, Finish
  <2>2. CASE Drop(w)
    BY <1>0, <2>2, MarksKeepInv DEF Drop, Finish
  <2>3. CASE LogoutLoad(w)
    BY <1>0, <2>3, MarksKeepInv DEF LogoutLoad, Begin
  <2> QED BY <1>3, <2>1, <2>2, <2>3
<1>4. ASSUME NEW c \in Callers, RefreshLapsed(c) PROVE TokensInv'
  BY <1>0, <1>4, MarksKeepInv DEF RefreshLapsed
<1>5. ASSUME NEW c \in Callers, TimeOut(c) PROVE TokensInv'
  BY <1>0, <1>5, MarksKeepInv DEF TimeOut
<1>6. ASSUME NEW c \in Callers,
             RefreshRevoked(c) \/ SaveTokens(c) \/ Retry(c) \/ GiveUp(c) \/ CallRejected(c)
      PROVE TokensInv'
  BY <1>0, <1>6, MarksKeepInv DEF RefreshRevoked, SaveTokens, Retry, GiveUp, CallRejected
<1>7. ASSUME NEW t \in Pairs, AccessLapses(t) \/ RefreshLapses(t) PROVE TokensInv'
  BY <1>0, <1>7, MarksKeepInv DEF AccessLapses, RefreshLapses
<1>8. CASE SetActive
  BY <1>0, <1>8, MarksKeepInv DEF SetActive
<1>9. CASE Close
  BY <1>0, <1>9, MarksKeepInv DEF Close
<1>10. CASE UNCHANGED vars
  BY <1>0, <1>10, MarksKeepInv DEF vars
<1> QED
  BY <1>1, <1>2, <1>3, <1>4, <1>5, <1>6, <1>7, <1>8, <1>9, <1>10 DEF Next, ServerStep, CallerStep

-----------------------------------------------------------------------------
(* The invariant holds in every reachable state.                           *)
THEOREM TokensInvariance == Spec => []TokensInv
  BY InitInv, NextInv, PTL DEF Spec

(* auth.py, jwt.py: rows, calls and requests keep their types.             *)
THEOREM TokensTypeCorrect == Spec => []TokensTypeOK
  BY TokensInvariance, PTL DEF TokensInv

(* POST /refresh: the successors of one refresh token come from different  *)
(* requests, and the token is revoked once it has one.                     *)
THEOREM RotationBoundedHolds == Spec => []RotationBounded
  BY TokensInvariance, PTL DEF TokensInv

-----------------------------------------------------------------------------
(* What the application has stored.                                        *)

Exchanges(c, t) ==
    caller[c].step \in {"rejected", "waiting", "refused"} /\ caller[c].pair = t

(* Some call will replace or empty the storage, or was closed before that. *)
Covered ==
    \/ phone.dropped
    \/ \E c \in Callers :
          \/ Exchanges(c, phone.held)
          \/ caller[c].step = "served" /\ pair[caller[c].pair].parent = phone.held

(* A token that is revoked, or is as soon as a request commits.            *)
AtRisk(t) ==
    \/ pair[t].refresh = "revoked"
    \/ \E w \in Workers : req[w].op = "issue" /\ req[w].parent = t

(* A pair that was answered to c alone, and not stored yet.                *)
Unseen(c, t) ==
    /\ t \in Issued
    /\ t # phone.held
    /\ ~AtRisk(t)
    /\ \A d \in Callers \ {c} : caller[d].pair # t

(* The request of a call exchanges the call's own pair, and is its only    *)
(* one.                                                                    *)
OwnRequest(w) ==
    req[w].op = "issue" /\ req[w].by # Null =>
       /\ caller[req[w].by].step = "waiting" /\ caller[req[w].by].pair = req[w].parent
       /\ \A v \in Workers \ {w} : req[v].op = "issue" => req[v].by # req[w].by

HeldOK ==
    phone.held # Null => phone.held \in Issued /\ (AtRisk(phone.held) => Covered)

CallerOK(c) ==
    /\ caller[c].pair # Null => caller[c].pair \in Issued
    /\ caller[c].step = "served" => Unseen(c, caller[c].pair)

(* That the stored token is not revoked unawares is not inductive: a token *)
(* becomes revoked by a request whose call has given up already, and a     *)
(* pair that is stored must not have been exchanged before.                *)
PhoneInv ==
    /\ HeldOK
    /\ \A c \in Callers : CallerOK(c)
    /\ \A w \in Workers : OwnRequest(w)

(* At the start nothing is stored, called or requested.                    *)
LEMMA InitPhone == Init => PhoneInv
  BY DEF Init, PhoneInv, HeldOK, CallerOK, OwnRequest, Rest, Idle

(* The types of what the invariant is about.                               *)
LEMMA PhoneTypes ==
  ASSUME TokensTypeOK
  PROVE  /\ pair \in [Pairs -> PairRow] /\ Issued \subseteq Pairs
         /\ phone.held \in Pairs \cup {Null} /\ phone.dropped \in BOOLEAN
         /\ caller \in [Callers -> Caller]
         /\ \A c \in Callers : caller[c].pair \in Pairs \cup {Null}
         /\ req \in [Workers -> Request]
         /\ \A w \in Workers : req[w].op = "issue" =>
               req[w].by \in Callers \cup {Null} /\ req[w].parent \in Pairs \cup {Null}
         /\ Null \notin Pairs /\ Null \notin Callers /\ Null \notin Issued
  BY TokensAssumption DEF TokensTypeOK, Phone, Caller, Request, Issued

(* The commit of an exchange answers a pair that nobody has seen to the    *)
(* call that waits for it.                                                 *)
LEMMA IssueKeepsPhone ==
  ASSUME TokensInv, PhoneInv, NEW w \in Workers, NEW t \in Pairs, IssueCommit(w, t)
  PROVE  PhoneInv'
<1> DEFINE p == req[w].parent
           b == req[w].by
<1>0. /\ TokensTypeOK /\ HeldOK /\ (\A c \in Callers : CallerOK(c))
      /\ (\A v \in Workers : OwnRequest(v)) /\ \A v \in Workers : Fresh(v)
  BY DEF TokensInv, PhoneInv
<1> USE PhoneTypes
<1>1. /\ t \notin Issued /\ Issued' = Issued \cup {t} /\ phone' = phone
      /\ req[w].op = "issue" /\ p \in Issued \cup {Null} /\ b \in Callers \cup {Null}
      /\ req' = [req EXCEPT ![w] = Idle]
  BY <1>0 DEF IssueCommit, Finish, Issued, PairRow, Fresh
<1>2. /\ pair'[t].refresh = "live" /\ pair'[t].parent = p
      /\ \A u \in Issued : /\ pair'[u].parent = pair[u].parent
                           /\ pair'[u].refresh = "revoked" => pair[u].refresh = "revoked" \/ u = p
  BY <1>0, <1>1 DEF IssueCommit, Issued, PairRow
<1>3. \A u \in Issued : AtRisk(u)' => AtRisk(u)
  BY <1>0, <1>1, <1>2 DEF AtRisk, Idle
<1>4. ~AtRisk(t)'
  BY <1>0, <1>1, <1>2 DEF AtRisk, Idle, Fresh
<1>5. /\ caller' = [d \in Callers |-> IF d = b THEN [step |-> "served", pair |-> t] ELSE caller[d]]
      /\ b # Null => caller[b].step = "waiting" /\ caller[b].pair = p
  BY <1>0, <1>1 DEF IssueCommit, Answered, OwnRequest
<1>6. HeldOK'
  <2> SUFFICES ASSUME phone.held # Null, AtRisk(phone.held)' PROVE Covered'
    BY <1>0, <1>1 DEF HeldOK
  <2>0. phone.held \in Issued
    BY <1>0 DEF HeldOK
  <2>5. AtRisk(phone.held)
    BY <1>1, <1>3, <2>0 DEF AtRisk
  <2>1. Covered
    BY <1>0, <2>5 DEF HeldOK
  <2>2. CASE phone.dropped
    BY <1>1, <2>2 DEF Covered
  <2>3. ASSUME NEW c \in Callers, Exchanges(c, phone.held) PROVE Covered'
    BY <1>0, <1>1, <1>2, <1>5, <2>3 DEF Covered, Exchanges
  <2>4. ASSUME NEW c \in Callers, caller[c].step = "served", pair[caller[c].pair].parent = phone.held
        PROVE  Covered'
    BY <1>0, <1>1, <1>2, <1>5, <2>4 DEF Covered, CallerOK, Unseen
  <2> QED BY <2>1, <2>2, <2>3, <2>4 DEF Covered
<1>7. ASSUME NEW c \in Callers PROVE CallerOK(c)'
  <2>1. CASE c = b
    <3>1. \A d \in Callers \ {c} : caller'[d].pair # t
      BY <1>0, <1>1, <1>5, <2>1 DEF CallerOK
    <3>2. t # phone'.held
      BY <1>0, <1>1 DEF HeldOK
    <3> QED BY <1>1, <1>4, <1>5, <2>1, <3>1, <3>2 DEF CallerOK, Unseen
  <2>2. CASE c # b
    BY <1>0, <1>1, <1>3, <1>5, <2>2 DEF CallerOK, Unseen
  <2> QED BY <2>1, <2>2
<1>8. ASSUME NEW v \in Workers PROVE OwnRequest(v)'
  BY <1>0, <1>1, <1>5 DEF OwnRequest, Idle
<1> QED BY <1>6, <1>7, <1>8 DEF PhoneInv


(* A step that revokes nothing, starts no exchange and saves no pair, and  *)
(* after which a call that matters still does, or the storage is emptied.  *)
LEMMA CalmKeepsPhone ==
  ASSUME TokensTypeOK, PhoneInv, TokensTypeOK',
         \A t \in Pairs : /\ pair'[t].parent = pair[t].parent
                          /\ pair[t].refresh = "absent" <=> pair'[t].refresh = "absent"
                          /\ pair'[t].refresh = "revoked" => pair[t].refresh = "revoked",
         \A w \in Workers : req'[w].op = "issue" =>
            /\ req[w].op = "issue" /\ req'[w].parent = req[w].parent
            /\ \/ req'[w].by = Null
               \/ req'[w].by = req[w].by /\ caller'[req[w].by] = caller[req[w].by],
         \A c \in Callers :
            /\ caller'[c].step = "served" => caller'[c] = caller[c]
            /\ caller'[c].pair \in {caller[c].pair, phone.held, Null},
         \/ phone'.held = Null
         \/ phone'.held = phone.held /\ (Covered => Covered')
  PROVE  PhoneInv'
<1>0. HeldOK /\ (\A c \in Callers : CallerOK(c)) /\ \A v \in Workers : OwnRequest(v)
  BY DEF PhoneInv
<1> USE PhoneTypes
<1>1. Issued' = Issued
  BY DEF Issued
<1>2. ASSUME NEW u \in Pairs, AtRisk(u)' PROVE AtRisk(u)
  BY <1>2 DEF AtRisk
<1>3. HeldOK'
  <2>1. CASE phone'.held = Null
    BY <2>1 DEF HeldOK
  <2>2. CASE phone'.held = phone.held /\ (Covered => Covered')
    <3> SUFFICES ASSUME phone.held # Null PROVE phone.held \in Issued /\ (AtRisk(phone.held)' => Covered')
      BY <1>1, <2>2 DEF HeldOK
    <3>1. phone.held \in Issued /\ (AtRisk(phone.held) => Covered)
      BY <1>0 DEF HeldOK
    <3>2. AtRisk(phone.held)' => AtRisk(phone.held)
      BY <1>2, <2>2, <3>1 DEF AtRisk
    <3> QED BY <2>2, <3>1, <3>2
  <2> QED BY <2>1, <2>2
<1>4. ASSUME NEW c \in Callers PROVE CallerOK(c)'
  <2>1. caller'[c].pair # Null => caller'[c].pair \in Issued
    BY <1>0 DEF CallerOK, HeldOK
  <2>2. ASSUME caller'[c].step = "served" PROVE Unseen(c, caller[c].pair)'
    <3>0. PICK t : t = caller[c].pair
      OBVIOUS
    <3>1. caller'[c] = caller[c] /\ caller[c].step = "served" /\ Unseen(c, t)
      BY <1>0, <2>2, <3>0 DEF CallerOK
    <3>2. t \in Issued /\ t # Null /\ t # phone.held /\ t # phone'.held /\ ~AtRisk(t)'
      BY <1>2, <3>1 DEF Unseen
    <3>3. \A d \in Callers \ {c} : caller'[d].pair # t
      BY <3>1, <3>2 DEF Unseen
    <3> QED BY <1>1, <3>0, <3>1, <3>2, <3>3 DEF Unseen, AtRisk
  <2> QED BY <1>1, <2>1, <2>2 DEF CallerOK
<1>5. ASSUME NEW v \in Workers PROVE OwnRequest(v)'
  BY <1>0 DEF OwnRequest
<1> QED BY <1>3, <1>4, <1>5 DEF PhoneInv

(* What neither exchanges nor saves.                                       *)
LEMMA QuietKeepsPhone ==
  ASSUME TokensTypeOK, PhoneInv, TokensTypeOK',
         \/ \E w \in Workers : LogoutCommit(w) \/ LogoutLoad(w) \/ Drop(w)
         \/ \E c \in Callers : RefreshRevoked(c) \/ TimeOut(c) \/ Retry(c) \/ GiveUp(c)
                              \/ CallRejected(c)
         \/ \E t \in Pairs : AccessLapses(t) \/ RefreshLapses(t)
         \/ SetActive \/ Close \/ UNCHANGED vars
  PROVE  PhoneInv'
<1> USE PhoneTypes DEF TokensTypeOK, PairRow
<1>1. ASSUME NEW w \in Workers, LogoutCommit(w) PROVE PhoneInv'
  BY <1>1, CalmKeepsPhone DEF LogoutCommit, Finish, Idle
<1>2. ASSUME NEW w \in Workers, LogoutLoad(w) PROVE PhoneInv'
  BY <1>2, CalmKeepsPhone DEF LogoutLoad, Begin, Covered, Exchanges
<1>3. ASSUME NEW w \in Workers, Drop(w), req[w].op = "issue" PROVE PhoneInv'
  <2>1. OwnRequest(w) /\ \A v \in Workers : OwnRequest(v)
    BY DEF PhoneInv
  <2>2. Covered => Covered'
    BY <1>3, <2>1 DEF Covered, Exchanges, Drop, Answered, OwnRequest
  <2>3. \A c \in Callers : /\ caller'[c].step = "served" => caller'[c] = caller[c]
                           /\ caller'[c].pair = caller[c].pair
                           /\ c # req[w].by => caller'[c] = caller[c]
    BY <1>3, <2>1 DEF Drop, Answered, OwnRequest
  <2>4. \A v \in Workers : req'[v].op = "issue" => v # w /\ req'[v] = req[v]
    BY <1>3 DEF Drop, Finish, Idle
  <2>5. pair' = pair /\ phone' = phone
    BY <1>3 DEF Drop
  <2>6. \A v \in Workers : req'[v].op = "issue" /\ req[v].by # Null => req[v].by # req[w].by
    BY <1>3, <2>1, <2>4 DEF OwnRequest
  <2> QED BY <2>2, <2>3, <2>4, <2>5, <2>6, CalmKeepsPhone
<1>4. ASSUME NEW w \in Workers, Drop(w), req[w].op # "issue" PROVE PhoneInv'
  BY <1>4, CalmKeepsPhone DEF Drop, Finish, Idle
<1>5. ASSUME NEW c \in Callers, RefreshRevoked(c) PROVE PhoneInv'
  <2>1. Covered => Covered'
    BY <1>5 DEF RefreshRevoked, Covered, Exchanges
  <2>2. \A v \in Workers : req[v].op = "issue" => req[v].by # c
    BY <1>5 DEF PhoneInv, OwnRequest, RefreshRevoked
  <2> QED BY <1>5, <2>1, <2>2, CalmKeepsPhone DEF RefreshRevoked
<1>6. ASSUME NEW c \in Callers, TimeOut(c) PROVE PhoneInv'
  <2>1. Covered => Covered'
    BY <1>6 DEF TimeOut, Covered, Exchanges
  <2> QED BY <1>6, <2>1, CalmKeepsPhone DEF TimeOut
<1>7. ASSUME NEW c \in Callers, Retry(c) PROVE PhoneInv'
  <2>1. phone' = phone => (Covered => Covered')
    BY <1>7 DEF Retry, Covered, Exchanges
  <2>2. \A v \in Workers : req[v].op = "issue" => req[v].by # c
    BY <1>7 DEF PhoneInv, OwnRequest, Retry
  <2> QED BY <1>7, <2>1, <2>2, CalmKeepsPhone DEF Retry, Rest
<1>8. ASSUME NEW c \in Callers, GiveUp(c) PROVE PhoneInv'
  <2>1. phone' = phone => phone'.held = Null \/ (Covered => Covered')
    BY <1>8 DEF GiveUp, Covered, Exchanges
  <2>2. \A v \in Workers : req[v].op = "issue" => req[v].by # c
    BY <1>8 DEF PhoneInv, OwnRequest, GiveUp
  <2> QED BY <1>8, <2>1, <2>2, CalmKeepsPhone DEF GiveUp, Rest
<1>9. ASSUME NEW c \in Callers, CallRejected(c) PROVE PhoneInv'
  <2>1. Covered => Covered'
    BY <1>9 DEF CallRejected, Covered, Exchanges, Rest
  <2>2. \A v \in Workers : req[v].op = "issue" => req[v].by # c
    BY <1>9 DEF PhoneInv, OwnRequest, CallRejected, Rest
  <2> QED BY <1>9, <2>1, <2>2, CalmKeepsPhone DEF CallRejected
<1>10. ASSUME NEW t \in Pairs, AccessLapses(t) \/ RefreshLapses(t) PROVE PhoneInv'
  <2>1. /\ \A u \in Pairs : /\ pair'[u].parent = pair[u].parent
                            /\ pair[u].refresh = "absent" <=> pair'[u].refresh = "absent"
                            /\ pair'[u].refresh = "revoked" => pair[u].refresh = "revoked"
        /\ UNCHANGED <<phone, caller, req>>
    BY <1>10 DEF AccessLapses, RefreshLapses
  <2>2. Covered => Covered'
    BY <2>1 DEF Covered, Exchanges, PhoneInv, CallerOK, Unseen
  <2> QED BY <2>1, <2>2, CalmKeepsPhone
<1>11. CASE SetActive \/ UNCHANGED vars
  BY <1>11, CalmKeepsPhone DEF SetActive, vars, Covered, Exchanges
<1>12. CASE Close
  <2>1. phone'.held = phone.held /\ (phone.dropped => phone'.dropped)
    BY <1>12 DEF Close, Phone
  <2>2. ASSUME NEW c \in Callers, caller[c] # Rest PROVE phone'.dropped
    BY <1>12, <2>2 DEF Close, Phone
  <2>3. Covered => phone'.dropped
    BY <2>1, <2>2 DEF Covered, Exchanges, Rest
  <2>4. Covered => Covered'
    BY <2>3 DEF Covered
  <2> QED BY <1>12, <2>1, <2>4, CalmKeepsPhone DEF Close, Rest
<1> QED
  BY <1>1, <1>2, <1>3, <1>4, <1>5, <1>6, <1>7, <1>8, <1>9, <1>10, <1>11, <1>12

(* A login empties the storage before it asks.                             *)
LEMMA LoginKeepsPhone ==
  ASSUME TokensInv, PhoneInv, NEW w \in Workers, NEW c \in Callers, LoginLoad(w, c)
  PROVE  PhoneInv'
<1>0. /\ TokensTypeOK /\ (\A d \in Callers : CallerOK(d)) /\ \A v \in Workers : OwnRequest(v)
  BY DEF TokensInv, PhoneInv
<1> USE PhoneTypes DEF LoginLoad
<1>1. /\ phone'.held = Null /\ Issued' = Issued /\ pair' = pair
      /\ req' = [req EXCEPT ![w] = [op |-> "issue", by |-> c, parent |-> Null]]
      /\ caller' = [caller EXCEPT ![c] = [step |-> "waiting", pair |-> Null]]
      /\ caller[c] = Rest
  BY DEF Begin, Issued
<1>2. \A u \in Issued : AtRisk(u)' => AtRisk(u)
  BY <1>0, <1>1 DEF AtRisk
<1>3. ASSUME NEW d \in Callers PROVE CallerOK(d)'
  BY <1>0, <1>1, <1>2 DEF CallerOK, Unseen
<1>4. ASSUME NEW v \in Workers PROVE OwnRequest(v)'
  BY <1>0, <1>1 DEF OwnRequest, Rest
<1> QED BY <1>1, <1>3, <1>4 DEF PhoneInv, HeldOK

(* A call that was rejected begins to exchange its pair, or finds that it  *)
(* has lapsed: nobody was answered that pair who has not stored it yet.    *)
LEMMA ExchangeKeepsPhone ==
  ASSUME TokensInv, PhoneInv, NEW c \in Callers,
         RefreshLapsed(c) \/ \E w \in Workers : RefreshLoad(w, c)
  PROVE  PhoneInv'
<1> PICK p : p = caller[c].pair
  OBVIOUS
<1>0. /\ TokensTypeOK /\ HeldOK /\ (\A d \in Callers : CallerOK(d))
      /\ \A v \in Workers : OwnRequest(v)
  BY DEF TokensInv, PhoneInv
<1> USE PhoneTypes
<1> DEFINE Calls == /\ phone' = phone /\ caller[c].step = "rejected" /\ caller'[c].pair = p
                    /\ caller'[c].step \in {"waiting", "refused"}
                    /\ \A d \in Callers \ {c} : caller'[d] = caller[d]
           Marks == \A t \in Pairs :
                      /\ pair'[t].parent = pair[t].parent
                      /\ pair[t].refresh = "absent" <=> pair'[t].refresh = "absent"
                      /\ pair'[t].refresh = "revoked" => pair[t].refresh = "revoked" \/ t = p
           Starts(v) == /\ req'[v] = [op |-> "issue", by |-> c, parent |-> p]
                        /\ caller'[c].step = "waiting"
                        /\ \A x \in Workers \ {v} : req'[x] = req[x]
           Requests == (\E v \in Workers : Starts(v)) \/ req' = req
<1>11. ASSUME RefreshLapsed(c) PROVE Calls /\ Marks /\ Requests
  BY <1>0, <1>11 DEF RefreshLapsed, PairRow
<1>12. ASSUME NEW w \in Workers, RefreshLoad(w, c) PROVE Calls /\ Marks /\ Requests
  <2>1. Calls /\ Marks
    BY <1>0, <1>12 DEF RefreshLoad
  <2>2. Starts(w)
    BY <1>0, <1>12 DEF RefreshLoad, Begin
  <2> QED BY <2>1, <2>2
<1>1. Calls
  BY <1>11, <1>12
<1>2. Marks /\ Issued' = Issued
  BY <1>11, <1>12 DEF Issued
<1>3. Requests
  BY <1>11, <1>12
<1>4. ASSUME NEW u \in Issued, u # p, AtRisk(u)' PROVE AtRisk(u)
  <2>1. pair'[u].refresh = "revoked" => pair[u].refresh = "revoked"
    BY <1>0, <1>2, <1>4
  <2>2. \A w \in Workers : req'[w].op = "issue" /\ req'[w].parent = u =>
                            req[w].op = "issue" /\ req[w].parent = u
    BY <1>3, <1>4
  <2> QED BY <1>4, <2>1, <2>2 DEF AtRisk
<1>5. \A v \in Workers : req[v].op = "issue" => req[v].by # c
  BY <1>0, <1>1 DEF OwnRequest
<1>6. HeldOK'
  <2> SUFFICES ASSUME phone.held # Null
               PROVE  phone.held \in Issued /\ (AtRisk(phone.held)' => Covered')
    BY <1>1, <1>2 DEF HeldOK
  <2>1. phone.held \in Issued /\ (AtRisk(phone.held) => Covered)
    BY <1>0 DEF HeldOK
  <2>2. CASE phone.held = p
    BY <1>1, <2>1, <2>2 DEF Covered, Exchanges
  <2>3. CASE phone.held # p
    <3>1. AtRisk(phone.held)' => AtRisk(phone.held)
      BY <1>1, <1>4, <2>1, <2>3 DEF AtRisk
    <3>2. Covered => Covered'
      BY <1>0, <1>1, <1>2, <2>3 DEF Covered, Exchanges, CallerOK, Unseen
    <3> QED BY <2>1, <3>1, <3>2
  <2> QED BY <2>2, <2>3
<1>7. ASSUME NEW d \in Callers PROVE CallerOK(d)'
  <2>1. CASE d = c
    BY <1>0, <1>1, <1>2, <2>1 DEF CallerOK
  <2>2. CASE d # c
    <3>1. PICK u : u = caller[d].pair
      OBVIOUS
    <3>2. caller[d].step = "served" => u \in Issued /\ u # p /\ ~AtRisk(u)'
      BY <1>0, <1>4, <2>2, <3>1 DEF CallerOK, Unseen
    <3> QED BY <1>0, <1>1, <1>2, <2>2, <3>1, <3>2 DEF CallerOK, Unseen, AtRisk
  <2> QED BY <2>1, <2>2
<1>8. ASSUME NEW v \in Workers PROVE OwnRequest(v)'
  BY <1>0, <1>1, <1>3, <1>5 DEF OwnRequest
<1> QED BY <1>6, <1>7, <1>8 DEF PhoneInv

(* A pair that is stored has not been exchanged by anybody.                *)
LEMMA SaveKeepsPhone ==
  ASSUME TokensInv, PhoneInv, NEW c \in Callers, SaveTokens(c)
  PROVE  PhoneInv'
<1>0. /\ TokensTypeOK /\ (\A d \in Callers : CallerOK(d)) /\ \A v \in Workers : OwnRequest(v)
  BY DEF TokensInv, PhoneInv
<1> USE PhoneTypes
<1>1. PICK t : t = caller[c].pair
  OBVIOUS
<1>2. /\ phone'.held = t /\ t \in Issued /\ ~AtRisk(t) /\ caller[c].step = "served"
      /\ \A d \in Callers \ {c} : caller[d].pair # t
  BY <1>0, <1>1 DEF SaveTokens, CallerOK, Unseen
<1>3. /\ UNCHANGED <<pair, req>> /\ Issued' = Issued
      /\ \A d \in Callers \ {c} : caller'[d] = caller[d]
      /\ caller'[c].step \in {"idle", "retrying"} /\ caller'[c].pair \in {t, Null}
  BY <1>0, <1>1 DEF SaveTokens, Rest, Issued
<1>4. ~AtRisk(t)' /\ \A u \in Issued : AtRisk(u)' => AtRisk(u)
  BY <1>2, <1>3 DEF AtRisk
<1>5. HeldOK'
  BY <1>2, <1>3, <1>4 DEF HeldOK, AtRisk
<1>6. ASSUME NEW d \in Callers PROVE CallerOK(d)'
  <2>1. CASE d = c
    BY <1>2, <1>3, <2>1 DEF CallerOK
  <2>2. CASE d # c
    BY <1>0, <1>2, <1>3, <2>2 DEF CallerOK, Unseen, AtRisk
  <2> QED BY <2>1, <2>2
<1>7. ASSUME NEW v \in Workers PROVE OwnRequest(v)'
  BY <1>0, <1>2, <1>3 DEF OwnRequest
<1> QED BY <1>5, <1>6, <1>7 DEF PhoneInv

(* Together with the first invariant, the second is inductive.             *)
LEMMA PhoneStep == TokensInv /\ PhoneInv /\ [Next]_vars => PhoneInv'
<1> SUFFICES ASSUME TokensInv, PhoneInv, [Next]_vars PROVE PhoneInv'
  OBVIOUS
<1>1. TokensTypeOK /\ TokensTypeOK'
  BY NextInv DEF TokensInv
<1> QED
  BY <1>1, IssueKeepsPhone, QuietKeepsPhone, LoginKeepsPhone, ExchangeKeepsPhone, SaveKeepsPhone
  DEF Next, ServerStep, CallerStep

(* auth_notifier.dart, auth.py: what the application has stored can be     *)
(* exchanged, unless a call of it is just doing so or was closed then.     *)
THEOREM PhoneHoldsUsableHolds == Spec => []PhoneHoldsUsable
<1>1. TokensInv /\ PhoneInv => PhoneHoldsUsable
  BY PhoneTypes DEF TokensInv, PhoneInv, HeldOK, AtRisk, Covered, Exchanges, PhoneHoldsUsable
<1> QED BY <1>1, InitInv, InitPhone, NextInv, PhoneStep, PTL DEF Spec

=============================================================================
