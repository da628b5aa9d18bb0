------------------------ MODULE RefreshRotation_proofs ------------------------
(***************************************************************************)
(* Theorems about RefreshRotation for any number of users, sessions,       *)
(* tokens and handlers: first of Spec, then of SerialSpec, where requests  *)
(* about one session do not overlap (what a session keeps, and that the    *)
(* statements of the handlers implement SessionFamily).                    *)
(***************************************************************************)
EXTENDS RefreshRotation, TLAPS

\* A handler that continues with a request leaves req a table of requests.
LEMMA ContinueType ==
  ASSUME req \in [Handlers -> Request], NEW h \in Handlers, NEW r \in Request,
         Continue(h, r)
  PROVE  /\ req' \in [Handlers -> Request]
         /\ req'[h] = r
         /\ \A g \in Handlers \ {h} : req'[g] = req[g]
BY DEF Continue

\* The requests a handler goes through, from one statement to the next.
LEMMA RequestTypes ==
  /\ Idle \in Request
  /\ \A u \in Users :
       [Idle EXCEPT !.pc = "createSession", !.user = u] \in Request
  /\ \A r \in Request :
       /\ r.pc = "createSession" =>
            \A s \in Sessions : [r EXCEPT !.pc = "store", !.session = s] \in Request
       /\ r.pc = "revokeOld" => [r EXCEPT !.pc = "store"] \in Request
       /\ r.pc = "store" =>
            \A t \in Tokens : [r EXCEPT !.pc = "reply", !.token = t] \in Request
       /\ r.pc = "revokeFamily" => [r EXCEPT !.pc = "revokeSession"] \in Request
  /\ \A t \in Tokens, s \in Sessions :
       /\ [pc |-> "revokeOld", user |-> Null, session |-> s, token |-> t,
           why |-> "none"] \in Request
       /\ \A w \in {"reuse", "logout"} :
            [pc |-> "revokeFamily", user |-> Null, session |-> s, token |-> t,
             why |-> w] \in Request
<1>1. Idle \in Request
  BY DEF Request
<1>2. ASSUME NEW u \in Users
      PROVE  [Idle EXCEPT !.pc = "createSession", !.user = u] \in Request
  BY DEF Idle, Request
<1>3. ASSUME NEW r \in Request, r.pc = "createSession", NEW s \in Sessions
      PROVE  [r EXCEPT !.pc = "store", !.session = s] \in Request
  <2>1. r \in [pc : {"createSession"}, user : Users, session : {Null},
               token : {Null}, why : {"none"}]
    BY <1>3 DEF Idle, Request
  <2>2. [r EXCEPT !.pc = "store", !.session = s]
          \in [pc : {"store"}, user : Users \cup {Null}, session : Sessions,
              token : Tokens \cup {Null}, why : {"none"}]
    BY <2>1
  <2> QED
    BY <2>2 DEF Request
<1>4. ASSUME NEW r \in Request, r.pc = "revokeOld"
      PROVE  [r EXCEPT !.pc = "store"] \in Request
  BY <1>4 DEF Idle, Request
<1>5. ASSUME NEW r \in Request, r.pc = "store", NEW t \in Tokens
      PROVE  [r EXCEPT !.pc = "reply", !.token = t] \in Request
  <2>1. r \in [pc : {"store"}, user : Users \cup {Null}, session : Sessions,
               token : Tokens \cup {Null}, why : {"none"}]
    BY <1>5 DEF Idle, Request
  <2>2. [r EXCEPT !.pc = "reply", !.token = t]
          \in [pc : {"revokeOld", "reply"}, user : Users \cup {Null},
              session : Sessions, token : Tokens, why : {"none"}]
    BY <2>1
  <2> QED
    BY <2>2 DEF Request
<1>6. ASSUME NEW r \in Request, r.pc = "revokeFamily"
      PROVE  [r EXCEPT !.pc = "revokeSession"] \in Request
  BY <1>6 DEF Idle, Request
<1>7. ASSUME NEW t \in Tokens, NEW s \in Sessions
      PROVE  /\ [pc |-> "revokeOld", user |-> Null, session |-> s, token |-> t,
                 why |-> "none"] \in Request
             /\ \A w \in {"reuse", "logout"} :
                  [pc |-> "revokeFamily", user |-> Null, session |-> s,
                   token |-> t, why |-> w] \in Request
  BY DEF Request
<1> QED
  BY <1>1, <1>2, <1>3, <1>4, <1>5, <1>6, <1>7

\* What a request carries when its next statement is about to run.
LEMMA RequestFields ==
  \A r \in Request :
    /\ r.pc = "createSession" => r.user \in Users
    /\ r.pc = "store" => /\ r.session \in Sessions
                         /\ IssuedPair(r) \in Pair
    /\ r.pc \in {"revokeOld", "reply"} => r.session \in Sessions /\ r.token \in Tokens
    /\ r.pc \in {"revokeFamily", "revokeSession"} =>
         r.session \in Sessions /\ r.why \in {"reuse", "logout"}
BY DEF Request, Idle, IssuedPair, Pair

LEMMA TypeInit == Init => TypeOK
<1> SUFFICES ASSUME Init PROVE TypeOK
  OBVIOUS
<1>1. req \in [Handlers -> Request]
  BY RequestTypes DEF Init
<1>2. pair \in [Tokens -> Pair]
  BY DEF Init, Pair
<1> QED
  BY <1>1, <1>2 DEF Init, TypeOK, Reasons

LEMMA TypeStep == TypeOK /\ [Next]_vars => TypeOK'
<1> SUFFICES ASSUME TypeOK, [Next]_vars PROVE TypeOK'
  OBVIOUS
<1> USE DEF TypeOK
<1>1. ASSUME NEW h \in Handlers, NEW u \in Users, Login(h, u) PROVE TypeOK'
  BY <1>1, ContinueType, RequestTypes DEF Login
<1>2. ASSUME NEW h \in Handlers, CreateSession(h) PROVE TypeOK'
  <2>1. PICK s \in Sessions :
          /\ owner' = [owner EXCEPT ![s] = req[h].user]
          /\ Continue(h, [req[h] EXCEPT !.pc = "store", !.session = s])
    BY <1>2 DEF CreateSession
  <2>2. req' \in [Handlers -> Request]
    BY <1>2, <2>1, ContinueType, RequestTypes DEF CreateSession
  <2> QED
    BY <1>2, <2>1, <2>2, RequestFields DEF CreateSession
<1>3. ASSUME NEW h \in Handlers, StoreToken(h) PROVE TypeOK'
  <2>1. PICK t \in Tokens :
          /\ family' = [family EXCEPT ![t] = req[h].session]
          /\ pair' = [pair EXCEPT ![t] = IssuedPair(req[h])]
          /\ Continue(h, [req[h] EXCEPT !.pc = "reply", !.token = t])
    BY <1>3 DEF StoreToken
  <2>2. req' \in [Handlers -> Request]
    BY <1>3, <2>1, ContinueType, RequestTypes DEF StoreToken
  <2> QED
    BY <1>3, <2>1, <2>2, RequestFields DEF StoreToken
<1>4. ASSUME NEW h \in Handlers, Reply(h) PROVE TypeOK'
  <2>1. req' \in [Handlers -> Request]
    BY <1>4, ContinueType, RequestTypes DEF Reply
  <2> QED
    BY <1>4, <2>1, RequestFields DEF Reply
<1>5. ASSUME NEW h \in Handlers, NEW t \in Tokens, Refresh(h, t) PROVE TypeOK'
  BY <1>5, ContinueType, RequestTypes DEF Refresh, Take
<1>6. ASSUME NEW h \in Handlers, RevokeOld(h) PROVE TypeOK'
  <2>1. req' \in [Handlers -> Request]
    BY <1>6, ContinueType, RequestTypes DEF RevokeOld, Goto
  <2> QED
    BY <1>6, <2>1, RequestFields DEF RevokeOld, Reasons
<1>7. ASSUME NEW h \in Handlers, NEW t \in Tokens, Logout(h, t) PROVE TypeOK'
  BY <1>7, ContinueType, RequestTypes DEF Logout, Take
<1>8. ASSUME NEW h \in Handlers, RevokeFamily(h) PROVE TypeOK'
  <2>1. req' \in [Handlers -> Request]
    BY <1>8, ContinueType, RequestTypes DEF RevokeFamily, Goto
  <2> QED
    BY <1>8, <2>1, RequestFields DEF RevokeFamily, Reasons
<1>9. ASSUME NEW h \in Handlers, RevokeSession(h) PROVE TypeOK'
  <2>1. req' \in [Handlers -> Request]
    BY <1>9, ContinueType, RequestTypes DEF RevokeSession
  <2> QED
    BY <1>9, <2>1, RequestFields DEF RevokeSession
<1>10. ASSUME NEW h \in Handlers, RevokeFamilyFails(h) PROVE TypeOK'
  BY <1>10, ContinueType, RequestTypes DEF RevokeFamilyFails, Goto
<1>11. ASSUME NEW h \in Handlers, RevokeSessionFails(h) PROVE TypeOK'
  BY <1>11, ContinueType, RequestTypes DEF RevokeSessionFails
<1>12. ASSUME NEW h \in Handlers, Abandon(h) PROVE TypeOK'
  BY <1>12, ContinueType, RequestTypes DEF Abandon
<1>13. ASSUME NEW u \in Users, DeleteAccount(u) PROVE TypeOK'
  BY <1>13 DEF DeleteAccount, SessionsOf
<1>14. ASSUME NEW t \in Tokens, Expire(t) PROVE TypeOK'
  BY <1>14 DEF Expire
<1>15. CASE UNCHANGED vars
  BY <1>15 DEF vars
<1> QED
  BY <1>1, <1>2, <1>3, <1>4, <1>5, <1>6, <1>7, <1>8, <1>9, <1>10, <1>11,
     <1>12, <1>13, <1>14, <1>15 DEF Next, Step

\* Every reachable state is well typed: each handler carries the ids its next
\* statement needs.
THEOREM TypeCorrect == Spec => []TypeOK
BY TypeInit, TypeStep, PTL DEF Spec

-----------------------------------------------------------------------------
(* Every interleaving: the tables *)

tables == <<users, owner, closed, family, reason>>

\* Only six of the actions write a row of the three tables.
LEMMA TableStep ==
  ASSUME [Next]_vars
  PROVE  \/ UNCHANGED tables
         \/ \E h \in Handlers :
              \/ CreateSession(h)
              \/ StoreToken(h)
              \/ RevokeOld(h)
              \/ RevokeFamily(h)
              \/ RevokeSession(h)
         \/ \E u \in Users : DeleteAccount(u)
BY DEF Next, Step, vars, tables, Login, Reply, Refresh, Logout,
       RevokeFamilyFails, RevokeSessionFails, Abandon, Expire

LEMMA ForeignKeysStep ==
  TypeOK /\ ForeignKeys /\ [Next]_vars => ForeignKeys'
<1> SUFFICES ASSUME TypeOK, ForeignKeys, [Next]_vars PROVE ForeignKeys'
  OBVIOUS
<1> USE NullsAreNoIds DEF TypeOK, ForeignKeys
<1>1. ASSUME NEW h \in Handlers, CreateSession(h) PROVE ForeignKeys'
  BY <1>1 DEF CreateSession
<1>2. ASSUME NEW h \in Handlers, StoreToken(h) PROVE ForeignKeys'
  BY <1>2 DEF StoreToken
<1>3. ASSUME NEW h \in Handlers, RevokeOld(h) \/ RevokeFamily(h)
      PROVE  ForeignKeys'
  BY <1>3 DEF RevokeOld, RevokeFamily
<1>4. ASSUME NEW h \in Handlers, RevokeSession(h) PROVE ForeignKeys'
  BY <1>4 DEF RevokeSession
<1>5. ASSUME NEW u \in Users, DeleteAccount(u) PROVE ForeignKeys'
  BY <1>5 DEF DeleteAccount, SessionsOf
<1>6. CASE UNCHANGED tables
  BY <1>6 DEF tables
<1> QED
  BY <1>1, <1>2, <1>3, <1>4, <1>5, <1>6, TableStep

\* The three tables stay consistent through every race of the handlers with
\* the cascade of an account deletion.
THEOREM TablesConsistent == Spec => []ForeignKeys
<1>1. Init => ForeignKeys
  BY NullsAreNoIds DEF Init, ForeignKeys
<1> QED
  BY <1>1, TypeCorrect, ForeignKeysStep, PTL DEF Spec

\* No interleaving of rotations, reuse detections and logouts undoes a
\* revocation or overwrites why it happened.
THEOREM RevocationPermanent == Spec => RevocationIsPermanent
<1>1. ASSUME TypeOK, [Next]_vars
      PROVE  /\ \A t \in Tokens : reason[t] # "none" => reason'[t] = reason[t]
             /\ \A s \in closed : s \in closed' \/ owner'[s] = Gone
  <2> USE DEF TypeOK
  <2>1. CASE \E h \in Handlers : CreateSession(h) \/ StoreToken(h)
    BY <2>1 DEF CreateSession, StoreToken
  <2>2. CASE \E h \in Handlers : RevokeFamily(h)
    BY <2>2 DEF RevokeFamily
  <2>3. CASE \E h \in Handlers : RevokeSession(h)
    BY <2>3 DEF RevokeSession
  <2>4. CASE \E u \in Users : DeleteAccount(u)
    BY <2>4 DEF DeleteAccount, SessionsOf
  <2>5. CASE UNCHANGED tables
    BY <2>5 DEF tables
  <2>6. CASE \E h \in Handlers : RevokeOld(h)
    BY <2>6 DEF RevokeOld
  <2> QED
    BY <1>1, <2>1, <2>2, <2>3, <2>4, <2>5, <2>6, TableStep
<1> QED
  BY <1>1, TypeCorrect, PTL DEF Spec, RevocationIsPermanent

-----------------------------------------------------------------------------
(* Every interleaving: who may still issue a token *)

\* The three ways a handler can be an issuer after a step.
KeepsIssuing(h) ==
  /\ req[h].pc \in {"revokeOld", "store"}
  /\ req'[h].session = req[h].session
  /\ req'[h].token = req[h].token

StartsRedeeming(h) ==
  /\ req'[h].token \in Tokens
  /\ req'[h].session = family[req'[h].token]
  /\ reason[req'[h].token] = "none"

OpensSession(h) ==
  /\ req'[h].token = Null
  /\ req'[h].session \in Sessions
  /\ owner[req'[h].session] = Null

\* Only refresh starts a redemption, with a token it read as not revoked, and
\* only the login of a new session starts to issue without one.
LEMMA IssuersStep ==
  ASSUME TypeOK, [Next]_vars, NEW h \in Handlers,
         req'[h].pc \in {"revokeOld", "store"}
  PROVE  KeepsIssuing(h) \/ StartsRedeeming(h) \/ OpensSession(h)
<1> USE DEF TypeOK
<1>0. Idle.pc = "idle"
  BY DEF Idle
<1>1. ASSUME NEW g \in Handlers, NEW r, Continue(g, r)
      PROVE  req'[h] = IF h = g THEN r ELSE req[h]
  BY <1>1 DEF Continue
<1> DEFINE Goal == KeepsIssuing(h) \/ StartsRedeeming(h) \/ OpensSession(h)
<1>2. ASSUME req'[h] = req[h] PROVE Goal
  BY <1>2 DEF KeepsIssuing
<1>3. ASSUME NEW g \in Handlers, NEW u \in Users, Login(g, u) PROVE Goal
  <2>1. [Idle EXCEPT !.pc = "createSession", !.user = u].pc = "createSession"
    BY DEF Idle
  <2> QED
    BY <1>1, <1>2, <1>3, <2>1 DEF Login
<1>4. ASSUME NEW g \in Handlers, CreateSession(g) PROVE Goal
  <2>1. PICK s \in Sessions :
          /\ owner[s] = Null
          /\ Continue(g, [req[g] EXCEPT !.pc = "store", !.session = s])
    BY <1>4 DEF CreateSession
  <2>2. req[g] \in [pc : {"createSession"}, user : Users, session : {Null},
                    token : {Null}, why : {"none"}]
    BY <1>4 DEF CreateSession, Request, Idle
  <2>3. /\ [req[g] EXCEPT !.pc = "store", !.session = s].session = s
        /\ [req[g] EXCEPT !.pc = "store", !.session = s].token = Null
    BY <2>2
  <2> QED
    BY <1>1, <1>2, <2>1, <2>3 DEF OpensSession
<1>5. ASSUME NEW g \in Handlers, StoreToken(g) PROVE Goal
  <2>1. PICK t \in Tokens :
          Continue(g, [req[g] EXCEPT !.pc = "reply", !.token = t])
    BY <1>5 DEF StoreToken
  <2>2. [req[g] EXCEPT !.pc = "reply", !.token = t].pc = "reply"
    BY DEF Request, Idle
  <2> QED
    BY <1>1, <1>2, <2>1, <2>2
<1>6. ASSUME NEW g \in Handlers, NEW t \in Tokens, Refresh(g, t) PROVE Goal
  BY <1>1, <1>2, <1>6 DEF Refresh, Take, StartsRedeeming
<1>7. ASSUME NEW g \in Handlers, RevokeOld(g) PROVE Goal
  <2>1. Continue(g, [req[g] EXCEPT !.pc = "store"]) /\ req[g].pc = "revokeOld"
    BY <1>7 DEF RevokeOld, Goto
  <2>2. /\ [req[g] EXCEPT !.pc = "store"].session = req[g].session
        /\ [req[g] EXCEPT !.pc = "store"].token = req[g].token
    BY DEF Request, Idle
  <2> QED
    BY <1>1, <1>2, <2>1, <2>2 DEF KeepsIssuing
<1>8. ASSUME NEW g \in Handlers, NEW t \in Tokens, Logout(g, t) PROVE Goal
  BY <1>1, <1>2, <1>8 DEF Logout, Take
<1>9. ASSUME NEW g \in Handlers, RevokeFamily(g) \/ RevokeFamilyFails(g)
      PROVE  Goal
  <2>1. Continue(g, [req[g] EXCEPT !.pc = "revokeSession"])
    BY <1>9 DEF RevokeFamily, RevokeFamilyFails, Goto
  <2>2. [req[g] EXCEPT !.pc = "revokeSession"].pc = "revokeSession"
    BY DEF Request, Idle
  <2> QED
    BY <1>1, <1>2, <2>1, <2>2
<1>10. ASSUME NEW g \in Handlers,
              Reply(g) \/ RevokeSession(g) \/ RevokeSessionFails(g) \/ Abandon(g)
       PROVE  Goal
  <2>1. Continue(g, Idle)
    BY <1>10 DEF Reply, RevokeSession, RevokeSessionFails, Abandon
  <2> QED
    BY <1>0, <1>1, <1>2, <2>1
<1>11. CASE (\E u \in Users : DeleteAccount(u)) \/ (\E t \in Tokens : Expire(t))
  BY <1>2, <1>11 DEF DeleteAccount, Expire
<1>12. CASE UNCHANGED vars
  BY <1>2, <1>12 DEF vars
<1> QED
  BY <1>3, <1>4, <1>5, <1>6, <1>7, <1>8, <1>9, <1>10, <1>11, <1>12
  DEF Next, Step

\* After a token is revoked the handlers that can still redeem it are among
\* those that had already read it: two redemptions of a token always overlap.
THEOREM RedeemWindow == Spec => RedeemWindowCloses
<1>1. ASSUME TypeOK, [Next]_vars, NEW t \in Tokens, reason[t] # "none"
      PROVE  Redeemers(t)' \subseteq Redeemers(t)
  <2> SUFFICES ASSUME NEW h \in Handlers,
                      req'[h].pc \in {"revokeOld", "store"}, req'[h].token = t
               PROVE  h \in Redeemers(t)
    BY DEF Redeemers
  <2>1. KeepsIssuing(h)
    BY <1>1, IssuersStep, NullsAreNoIds DEF StartsRedeeming, OpensSession
  <2> QED
    BY <2>1 DEF KeepsIssuing, Redeemers
<1>2. TypeOK /\ [Next]_vars =>
        \A t \in Tokens : reason[t] # "none" => Redeemers(t)' \subseteq Redeemers(t)
  BY <1>1
<1> QED
  BY <1>2, TypeCorrect, PTL DEF Spec, RedeemWindowCloses

\* The tokens of a family only grow by what its issuers store, and no step
\* makes a revoked token live or a session unborn.
LEMMA LiveStep ==
  ASSUME TypeOK, [Next]_vars, NEW s \in Sessions, Issuers(s) = {}
  PROVE  /\ Live(s)' \subseteq Live(s)
         /\ owner[s] # Null => owner'[s] # Null
<1> USE DEF TypeOK, Live, Family
<1>1. ASSUME NEW h \in Handlers, CreateSession(h)
      PROVE  /\ Live(s)' \subseteq Live(s)
             /\ owner[s] # Null => owner'[s] # Null
  BY <1>1, NullsAreNoIds DEF CreateSession
<1>2. ASSUME NEW h \in Handlers, StoreToken(h)
      PROVE  /\ Live(s)' \subseteq Live(s)
             /\ owner[s] # Null => owner'[s] # Null
  <2>1. req[h].session # s
    BY <1>2 DEF StoreToken, Issuers
  <2> QED
    BY <1>2, <2>1 DEF StoreToken
<1>3. ASSUME NEW h \in Handlers, RevokeOld(h)
      PROVE  Live(s)' \subseteq Live(s) /\ owner' = owner
  BY <1>3 DEF RevokeOld
<1>4. ASSUME NEW h \in Handlers, RevokeFamily(h)
      PROVE  Live(s)' \subseteq Live(s) /\ owner' = owner
  BY <1>4 DEF RevokeFamily
<1>5. ASSUME NEW h \in Handlers, RevokeSession(h)
      PROVE  Live(s)' \subseteq Live(s) /\ owner' = owner
  BY <1>5 DEF RevokeSession
<1>6. ASSUME NEW u \in Users, DeleteAccount(u)
      PROVE  /\ Live(s)' \subseteq Live(s)
             /\ owner[s] # Null => owner'[s] # Null
  BY <1>6, NullsAreNoIds DEF DeleteAccount, SessionsOf
<1>7. CASE UNCHANGED tables
  BY <1>7 DEF tables
<1> QED
  BY <1>1, <1>2, <1>3, <1>4, <1>5, <1>6, <1>7, TableStep

\* One step of any handler leaves a finished family finished.
LEMMA FinishedStep ==
  ASSUME TypeOK, [Next]_vars, NEW s \in Sessions, Finished(s)
  PROVE  Finished(s)'
<1>1. Live(s)' = {} /\ owner'[s] # Null
  BY LiveStep DEF Finished
<1>2. ASSUME NEW h \in Handlers, req'[h].pc \in {"revokeOld", "store"},
             req'[h].session = s
      PROVE  FALSE
  <2>1. ~KeepsIssuing(h)
    BY <1>2 DEF KeepsIssuing, Finished, Issuers
  <2>2. ~StartsRedeeming(h)
    BY <1>2 DEF StartsRedeeming, Finished, Live, Family
  <2>3. ~OpensSession(h)
    BY <1>2 DEF OpensSession, Finished
  <2> QED
    BY <1>2, <2>1, <2>2, <2>3, IssuersStep
<1> QED
  BY <1>1, <1>2 DEF Finished, Issuers

\* A family that has no live token and no handler about to store one is dead
\* for good, in every interleaving and after any replay.
THEOREM FinishedStays == Spec => FinishedFamilyStaysFinished
<1>1. TypeOK /\ [Next]_vars => \A s \in Sessions : Finished(s) => Finished(s)'
  BY FinishedStep
<1> QED
  BY <1>1, TypeCorrect, PTL DEF Spec, FinishedFamilyStaysFinished

-----------------------------------------------------------------------------
(***************************************************************************)
(* SerialSpec.                                                             *)
(***************************************************************************)
\* What SerialSpec adds to a step of Spec.
LEMMA SerialStep ==
  [SerialNext]_vars => [Next]_vars /\ (OneRequestPerSession => OneRequestPerSession')
BY DEF SerialNext, OneRequestPerSession, vars

LEMMA SerialTypeCorrect == SerialSpec => [](TypeOK /\ ForeignKeys)
<1>1. Init => TypeOK /\ ForeignKeys
  BY TypeInit, NullsAreNoIds DEF Init, ForeignKeys
<1>2. TypeOK /\ ForeignKeys /\ [SerialNext]_vars => (TypeOK /\ ForeignKeys)'
  BY TypeStep, ForeignKeysStep, SerialStep
<1> QED
  BY <1>1, <1>2, PTL DEF SerialSpec

LEMMA SerialInit == Init => SerialInv
<1> SUFFICES ASSUME Init PROVE SerialInv
  OBVIOUS
<1>1. \A h \in Handlers : req[h].pc = "idle" /\ req[h].session = Null
  BY DEF Init, Idle
<1>2. \A t \in Tokens : family[t] = Null /\ reason[t] = "none"
  BY DEF Init
<1>3. \A s \in Sessions : Live(s) = {} /\ ~Killed(s) /\ ~Sealed(s)
  BY <1>1, <1>2, NullsAreNoIds DEF Live, Family, Killed, Sealed, Init
<1> QED
  BY <1>1, <1>2, <1>3
  DEF SerialInv, OneRequestPerSession, HandlersInStep, InStep, OneLiveToken

-----------------------------------------------------------------------------
(* Finished families *)

\* Revoking the family of a session on which nobody else works finishes it.
LEMMA RevokeFamilyFinishes ==
  ASSUME TypeOK, HandlersInStep, OneRequestPerSession', NEW h \in Handlers,
         RevokeFamily(h), NEW s \in Sessions, req[h].session = s
  PROVE  Finished(s)'
<1>1. req[h].why # "none"
  BY RequestFields DEF RevokeFamily, TypeOK
<1>2. owner[s] # Null /\ owner' = owner /\ family' = family
  BY DEF HandlersInStep, InStep, RevokeFamily
<1>3. \A t \in Tokens : family[t] = s => reason'[t] # "none"
  BY <1>1 DEF RevokeFamily
<1>4. [req[h] EXCEPT !.pc = "revokeSession"] \in Request
  BY RequestTypes DEF RevokeFamily, TypeOK
<1>5. req'[h] = [req[h] EXCEPT !.pc = "revokeSession"]
  BY <1>4, ContinueType DEF RevokeFamily, Goto, TypeOK
<1>6. /\ [req[h] EXCEPT !.pc = "revokeSession"].pc = "revokeSession"
      /\ [req[h] EXCEPT !.pc = "revokeSession"].session = s
  BY DEF Request, Idle, TypeOK
<1>7. ASSUME NEW g \in Handlers, req'[g].pc \in {"revokeOld", "store"},
             req'[g].session = s
      PROVE  FALSE
  BY <1>5, <1>6, <1>7, NullsAreNoIds DEF OneRequestPerSession
<1>8. Live(s)' = {}
  BY <1>2, <1>3 DEF Live, Family
<1>9. Issuers(s)' = {}
  BY <1>7 DEF Issuers
<1> QED
  BY <1>2, <1>8, <1>9 DEF Finished

LEMMA KilledStep ==
  ASSUME TypeOK, HandlersInStep, OneRequestPerSession', [Next]_vars,
         \A t \in Tokens : family[t] = Null => reason[t] = "none",
         NEW s \in Sessions, Killed(s) => Finished(s), Killed(s)'
  PROVE  Finished(s)'
<1> USE DEF TypeOK
<1>1. CASE Killed(s)
  BY <1>1, FinishedStep
<1> SUFFICES ASSUME ~Killed(s) PROVE Finished(s)'
  BY <1>1
<1>2. PICK t \in Tokens : family'[t] = s /\ reason'[t] \in {"reuse", "logout"}
  BY DEF Killed, Family
<1>3. ~(family[t] = s /\ reason[t] \in {"reuse", "logout"})
  BY DEF Killed, Family
<1>4. ASSUME NEW h \in Handlers, CreateSession(h) \/ RevokeSession(h) PROVE FALSE
  BY <1>2, <1>3, <1>4 DEF CreateSession, RevokeSession
<1>5. ASSUME NEW h \in Handlers, StoreToken(h) PROVE FALSE
  BY <1>2, <1>3, <1>5 DEF StoreToken
<1>6. ASSUME NEW h \in Handlers, RevokeOld(h) PROVE FALSE
  BY <1>2, <1>3, <1>6 DEF RevokeOld
<1>7. ASSUME NEW h \in Handlers, RevokeFamily(h) PROVE Finished(s)'
  <2>1. req[h].session = s
    BY <1>2, <1>3, <1>7 DEF RevokeFamily
  <2> QED
    BY <1>7, <2>1, RevokeFamilyFinishes
<1>8. ASSUME NEW u \in Users, DeleteAccount(u) PROVE FALSE
  BY <1>2, <1>3, <1>8, NullsAreNoIds DEF DeleteAccount, SessionsOf
<1>9. CASE UNCHANGED tables
  BY <1>2, <1>3, <1>9 DEF tables
<1> QED
  BY <1>4, <1>5, <1>6, <1>7, <1>8, <1>9, TableStep

\* A handler that is about to close its session has revoked its family, or
\* failed to.
LEMMA SealingStep ==
  ASSUME TypeOK, [Next]_vars, NEW h \in Handlers, req'[h].pc = "revokeSession"
  PROVE  \/ req'[h] = req[h]
         \/ /\ RevokeFamily(h) \/ RevokeFamilyFails(h)
            /\ req'[h].session = req[h].session
<1> USE DEF TypeOK
<1> DEFINE Goal == \/ req'[h] = req[h]
                   \/ /\ RevokeFamily(h) \/ RevokeFamilyFails(h)
                      /\ req'[h].session = req[h].session
<1>1. ASSUME NEW g \in Handlers, NEW r, Continue(g, r)
      PROVE  req'[h] = IF h = g THEN r ELSE req[h]
  BY <1>1 DEF Continue
<1>2. ASSUME NEW g \in Handlers, NEW r, Continue(g, r), r.pc # "revokeSession"
      PROVE  Goal
  BY <1>1, <1>2
<1>3. ASSUME NEW g \in Handlers, NEW u \in Users, Login(g, u) PROVE Goal
  <2>1. [Idle EXCEPT !.pc = "createSession", !.user = u].pc = "createSession"
    BY DEF Idle
  <2> QED
    BY <1>2, <1>3, <2>1 DEF Login
<1>4. ASSUME NEW g \in Handlers, CreateSession(g) PROVE Goal
  <2>1. PICK s \in Sessions :
          Continue(g, [req[g] EXCEPT !.pc = "store", !.session = s])
    BY <1>4 DEF CreateSession
  <2>2. [req[g] EXCEPT !.pc = "store", !.session = s].pc = "store"
    BY DEF Request, Idle
  <2> QED
    BY <1>2, <2>1, <2>2
<1>5. ASSUME NEW g \in Handlers, StoreToken(g) PROVE Goal
  <2>1. PICK t \in Tokens :
          Continue(g, [req[g] EXCEPT !.pc = "reply", !.token = t])
    BY <1>5 DEF StoreToken
  <2>2. [req[g] EXCEPT !.pc = "reply", !.token = t].pc = "reply"
    BY DEF Request, Idle
  <2> QED
    BY <1>2, <2>1, <2>2
<1>6. ASSUME NEW g \in Handlers, NEW t \in Tokens, Refresh(g, t) \/ Logout(g, t)
      PROVE  Goal
  BY <1>1, <1>6 DEF Refresh, Logout, Take
<1>7. ASSUME NEW g \in Handlers, RevokeOld(g) PROVE Goal
  <2>1. [req[g] EXCEPT !.pc = "store"].pc = "store"
    BY DEF Request, Idle
  <2> QED
    BY <1>2, <1>7, <2>1 DEF RevokeOld, Goto
<1>8. ASSUME NEW g \in Handlers, RevokeFamily(g) \/ RevokeFamilyFails(g)
      PROVE  Goal
  <2>1. Continue(g, [req[g] EXCEPT !.pc = "revokeSession"])
    BY <1>8 DEF RevokeFamily, RevokeFamilyFails, Goto
  <2>2. [req[g] EXCEPT !.pc = "revokeSession"].session = req[g].session
    BY DEF Request, Idle
  <2> QED
    BY <1>1, <1>8, <2>1, <2>2
<1>9. ASSUME NEW g \in Handlers,
             Reply(g) \/ RevokeSession(g) \/ RevokeSessionFails(g) \/ Abandon(g)
      PROVE  Goal
  <2>1. Continue(g, Idle) /\ Idle.pc = "idle"
    BY <1>9 DEF Reply, RevokeSession, RevokeSessionFails, Abandon, Idle
  <2> QED
    BY <1>2, <2>1
<1>10. CASE \/ \E u \in Users : DeleteAccount(u)
            \/ \E t \in Tokens : Expire(t)
            \/ UNCHANGED vars
  BY <1>10 DEF DeleteAccount, Expire, vars
<1> QED
  BY <1>3, <1>4, <1>5, <1>6, <1>7, <1>8, <1>9, <1>10 DEF Next, Step

LEMMA SealedStep ==
  ASSUME TypeOK, HandlersInStep, OneRequestPerSession', [Next]_vars,
         ~StatementsFail, NEW s \in Sessions, Sealed(s) => Finished(s), Sealed(s)'
  PROVE  Finished(s)'
<1>1. CASE Sealed(s)
  BY <1>1, FinishedStep
<1>2. CASE ~Sealed(s)
  <2>1. s \notin closed'
    <3>1. ASSUME NEW h \in Handlers, RevokeSession(h) PROVE s \notin closed'
      BY <1>2, <3>1 DEF RevokeSession, Sealed
    <3>2. CASE ~\E h \in Handlers : RevokeSession(h)
      BY <1>2, <3>2, TableStep DEF CreateSession, StoreToken, RevokeOld, RevokeFamily,
         DeleteAccount, SessionsOf, tables, Sealed
    <3> QED
      BY <3>1, <3>2
  <2>2. PICK h \in Handlers : req'[h].pc = "revokeSession" /\ req'[h].session = s
    BY <2>1 DEF Sealed
  <2>3. req'[h] # req[h]
    BY <1>2, <2>2 DEF Sealed
  <2>4. RevokeFamily(h) /\ req[h].session = s
    BY <2>2, <2>3, SealingStep DEF RevokeFamilyFails
  <2> QED
    BY <2>4, RevokeFamilyFinishes
<1> QED
  BY <1>1, <1>2

-----------------------------------------------------------------------------
(* One live token *)

LEMMA OneLiveStep ==
  ASSUME TypeOK, HandlersInStep, OneLiveToken, [Next]_vars
  PROVE  OneLiveToken'
<1> USE DEF TypeOK
<1>1. ASSUME NEW s \in Sessions, Live(s)' \subseteq Live(s)
      PROVE  \A t, u \in Live(s)' : t = u
  BY <1>1 DEF OneLiveToken
<1>2. ASSUME NEW h \in Handlers, StoreToken(h), NEW s \in Sessions
      PROVE  \A t, u \in Live(s)' : t = u
  <2>1. CASE s = req[h].session
    <3>1. Live(s) = {}
      BY <1>2, <2>1 DEF StoreToken, HandlersInStep, InStep
    <3>2. PICK t \in Tokens : family' = [family EXCEPT ![t] = req[h].session]
      BY <1>2 DEF StoreToken
    <3>3. Live(s)' \subseteq {t}
      BY <1>2, <3>1, <3>2 DEF StoreToken, Live, Family
    <3> QED
      BY <3>3
  <2>2. CASE s # req[h].session
    <3>1. Live(s)' \subseteq Live(s)
      BY <1>2, <2>2 DEF StoreToken, Live, Family
    <3> QED
      BY <1>1, <3>1
  <2> QED
    BY <2>1, <2>2
<1>3. ASSUME ~\E h \in Handlers : StoreToken(h), NEW s \in Sessions
      PROVE  Live(s)' \subseteq Live(s)
  <2> USE DEF Live, Family
  <2>1. CASE \E h \in Handlers : CreateSession(h) \/ RevokeSession(h)
    BY <2>1 DEF CreateSession, RevokeSession
  <2>2. CASE \E h \in Handlers : RevokeOld(h)
    BY <2>2 DEF RevokeOld
  <2>3. CASE \E h \in Handlers : RevokeFamily(h)
    BY <2>3 DEF RevokeFamily
  <2>4. CASE \E u \in Users : DeleteAccount(u)
    BY <2>4, NullsAreNoIds DEF DeleteAccount, SessionsOf
  <2>5. CASE UNCHANGED tables
    BY <2>5 DEF tables
  <2> QED
    BY <1>3, <2>1, <2>2, <2>3, <2>4, <2>5, TableStep
<1> QED
  BY <1>1, <1>2, <1>3 DEF OneLiveToken

\* The actions that write a row also move their handler on.
LEMMA WritersMove ==
  ASSUME TypeOK, NEW g \in Handlers,
         RevokeOld(g) \/ RevokeFamily(g) \/ StoreToken(g) \/ CreateSession(g)
  PROVE  req'[g] # req[g]
<1> USE DEF TypeOK
<1>1. ASSUME NEW r, Continue(g, r) PROVE req'[g] = r
  BY <1>1 DEF Continue
<1>2. /\ [req[g] EXCEPT !.pc = "store"].pc = "store"
      /\ [req[g] EXCEPT !.pc = "revokeSession"].pc = "revokeSession"
      /\ \A t \in Tokens : [req[g] EXCEPT !.pc = "reply", !.token = t].pc = "reply"
      /\ \A s \in Sessions :
           [req[g] EXCEPT !.pc = "store", !.session = s].pc = "store"
  BY DEF Request, Idle
<1>3. CASE RevokeOld(g) \/ RevokeFamily(g)
  BY <1>1, <1>2, <1>3 DEF RevokeOld, RevokeFamily, Goto
<1>4. CASE StoreToken(g)
  <2>1. PICK t \in Tokens :
          Continue(g, [req[g] EXCEPT !.pc = "reply", !.token = t])
    BY <1>4 DEF StoreToken
  <2>2. req'[g].pc = "reply"
    <3>1. [req[g] EXCEPT !.pc = "reply", !.token = t].pc = "reply"
      BY <1>2
    <3>2. req'[g] = [req[g] EXCEPT !.pc = "reply", !.token = t]
      BY <1>1, <2>1
    <3> QED
      BY <3>1, <3>2
  <2>3. req[g].pc = "store"
    BY <1>4 DEF StoreToken
  <2> QED
    BY <2>2, <2>3
<1>5. CASE CreateSession(g)
  <2>1. PICK s \in Sessions :
          Continue(g, [req[g] EXCEPT !.pc = "store", !.session = s])
    BY <1>5 DEF CreateSession
  <2>2. req'[g].pc = "store"
    <3>1. [req[g] EXCEPT !.pc = "store", !.session = s].pc = "store"
      BY <1>2
    <3>2. req'[g] = [req[g] EXCEPT !.pc = "store", !.session = s]
      BY <1>1, <2>1
    <3> QED
      BY <3>1, <3>2
  <2>3. req[g].pc = "createSession"
    BY <1>5 DEF CreateSession
  <2> QED
    BY <2>2, <2>3
<1> QED
  BY <1>3, <1>4, <1>5

\* A step leaves every handler in step that it does not advance: the rows it
\* writes belong to another session, or are deleted with the session.
LEMMA OthersInStep ==
  ASSUME TypeOK, ForeignKeys, HandlersInStep, OneRequestPerSession, [Next]_vars,
         NEW g \in Handlers, req'[g] = req[g]
  PROVE  InStep(g)'
<1>0. ~(RevokeOld(g) \/ RevokeFamily(g) \/ StoreToken(g) \/ CreateSession(g))
  BY WritersMove
<1> USE <1>0, NullsAreNoIds DEF TypeOK
<1> DEFINE s == req[g].session
           t == req[g].token
           Owned == owner'[s] # Null
           Held == \/ family'[t] = s /\ reason'[t] = "none"
                   \/ family'[t] = Gone /\ owner'[s] = Gone
           Empty == Live(s)' = {}
<1>1. CASE req[g].pc \notin {"store", "revokeOld", "revokeFamily", "revokeSession"}
  BY <1>1 DEF InStep
<1> SUFFICES ASSUME req[g].pc \in {"store", "revokeOld", "revokeFamily",
                                   "revokeSession"}
             PROVE  InStep(g)'
  BY <1>1
<1>2. s \in Sessions /\ owner[s] # Null
  BY RequestFields DEF HandlersInStep, InStep
<1>3. \A h \in Handlers \ {g} : req[h].session # s
  BY <1>2 DEF OneRequestPerSession
<1>4. Owned
  <2> HIDE DEF s
  <2>1. CASE \E h \in Handlers : CreateSession(h)
    BY <1>2, <2>1 DEF CreateSession
  <2>2. CASE \E u \in Users : DeleteAccount(u)
    BY <1>2, <2>2 DEF DeleteAccount
  <2> QED
    BY <1>2, <2>1, <2>2, TableStep
    DEF StoreToken, RevokeOld, RevokeFamily, RevokeSession, tables
<1>5. ASSUME req[g].pc = "revokeOld" PROVE Held
  <2>1. /\ t \in Tokens
        /\ \/ family[t] = s /\ reason[t] = "none"
           \/ family[t] = Gone /\ owner[s] = Gone
    BY <1>5, RequestFields DEF HandlersInStep, InStep
  <2> HIDE DEF s, t
  <2>2. ASSUME NEW h \in Handlers, RevokeOld(h) PROVE Held
    <3>1. req[h].session # s
      BY <1>3, <2>2
    <3>2. /\ req[h].token \in Tokens
          /\ family[req[h].token] \in {req[h].session, Gone}
      BY <2>2, RequestFields DEF RevokeOld, HandlersInStep, InStep
    <3>3. CASE family[t] = s
      <4>1. req[h].token # t
        BY <1>2, <3>1, <3>2, <3>3
      <4>2. reason'[t] = reason[t]
        BY <2>1, <2>2, <4>1 DEF RevokeOld
      <4> QED
        BY <2>1, <2>2, <4>2 DEF RevokeOld
    <3>4. CASE family[t] = Gone
      BY <2>1, <2>2, <3>4 DEF RevokeOld
    <3> QED
      BY <2>1, <3>3, <3>4
  <2>3. ASSUME NEW h \in Handlers, RevokeFamily(h) PROVE Held
    <3>1. req[h].session # s
      BY <1>3, <2>3
    <3> QED
      BY <2>1, <2>3, <3>1 DEF RevokeFamily
  <2>4. ASSUME NEW h \in Handlers, StoreToken(h) PROVE Held
    BY <1>2, <2>1, <2>4 DEF StoreToken
  <2>5. ASSUME NEW h \in Handlers, CreateSession(h) PROVE Held
    BY <1>2, <2>1, <2>5 DEF CreateSession
  <2>6. ASSUME NEW u \in Users, DeleteAccount(u) PROVE Held
    <3>1. /\ family'[t] = IF family[t] \in SessionsOf(u) THEN Gone ELSE family[t]
          /\ owner'[s] = IF s \in SessionsOf(u) THEN Gone ELSE owner[s]
          /\ reason' = reason
      BY <1>2, <2>1, <2>6 DEF DeleteAccount
    <3> QED
      BY <1>2, <2>1, <3>1 DEF SessionsOf
  <2>7. CASE UNCHANGED tables \/ \E h \in Handlers : RevokeSession(h)
    BY <2>1, <2>7 DEF RevokeSession, tables
  <2> QED
    BY <2>2, <2>3, <2>4, <2>5, <2>6, <2>7, TableStep
<1>6. ASSUME req[g].pc = "store" PROVE Empty
  <2>1. \A x \in Tokens : family[x] = s => reason[x] # "none"
    BY <1>6 DEF HandlersInStep, InStep, Live, Family
  <2>0. s' = s
    OBVIOUS
  <2> HIDE DEF s
  <2>2. ASSUME NEW x \in Tokens, family'[x] = s PROVE reason'[x] # "none"
    <3>1. ASSUME NEW h \in Handlers, StoreToken(h) PROVE family[x] = s
      <4>1. req[h].session # s
        BY <1>3, <3>1
      <4> QED
        BY <2>2, <3>1, <4>1 DEF StoreToken
    <3>2. ASSUME NEW u \in Users, DeleteAccount(u) PROVE family[x] = s
      BY <1>2, <2>2, <3>2 DEF DeleteAccount, SessionsOf
    <3>3. family[x] = s
      BY <2>2, <3>1, <3>2, TableStep
      DEF CreateSession, RevokeOld, RevokeFamily, RevokeSession, tables
    <3>4. reason[x] # "none"
      BY <2>1, <3>3
    <3>5. ASSUME NEW h \in Handlers, RevokeFamily(h) PROVE reason'[x] # "none"
      BY <3>4, <3>5 DEF RevokeFamily
    <3>6. ASSUME NEW h \in Handlers, RevokeOld(h) PROVE reason'[x] # "none"
      BY <3>4, <3>6 DEF RevokeOld
    <3> QED
      BY <3>4, <3>5, <3>6, TableStep
      DEF CreateSession, StoreToken, RevokeSession, DeleteAccount, tables
  <2> QED
    BY <2>0, <2>2 DEF Live, Family
<1>7. /\ req'[g].pc = req[g].pc
      /\ req'[g].session = s
      /\ req'[g].token = t
  OBVIOUS
<1> QED
  BY <1>4, <1>5, <1>6, <1>7 DEF InStep

LEMMA OnlyStepsMove ==
  ASSUME TypeOK, [Next]_vars, NEW g \in Handlers, req'[g] # req[g]
  PROVE  Step(g)
<1>1. ASSUME NEW h \in Handlers, h # g, NEW r, Continue(h, r) PROVE FALSE
  BY <1>1 DEF Continue, TypeOK
<1>2. ASSUME NEW h \in Handlers, h # g, Step(h) PROVE FALSE
  BY <1>1, <1>2
  DEF Step, Login, CreateSession, StoreToken, Reply, Refresh, RevokeOld, Logout,
      RevokeFamily, RevokeSession, RevokeFamilyFails, RevokeSessionFails, Abandon,
      Take, Goto
<1> QED
  BY <1>2 DEF Next, DeleteAccount, Expire, vars

LEMMA InStepStep ==
  ASSUME TypeOK, ForeignKeys, HandlersInStep, OneRequestPerSession, OneLiveToken,
         [Next]_vars, NEW g \in Handlers
  PROVE  InStep(g)'
<1> USE NullsAreNoIds DEF TypeOK
<1>1. CASE req'[g] = req[g]
  BY <1>1, OthersInStep
<1> SUFFICES ASSUME Step(g) PROVE InStep(g)'
  BY <1>1, OnlyStepsMove
<1>2. ASSUME NEW r, Continue(g, r) PROVE req'[g] = r
  BY <1>2 DEF Continue
<1>3. ASSUME NEW r, Continue(g, r),
             r.pc \notin {"store", "revokeOld", "revokeFamily", "revokeSession"}
      PROVE  InStep(g)'
  BY <1>2, <1>3 DEF InStep
<1>4. ASSUME NEW u \in Users, Login(g, u) PROVE InStep(g)'
  <2>1. [Idle EXCEPT !.pc = "createSession", !.user = u].pc = "createSession"
    BY DEF Idle
  <2> QED
    BY <1>3, <1>4, <2>1 DEF Login
<1>5. CASE CreateSession(g)
  <2>1. PICK s \in Sessions :
          /\ owner[s] = Null
          /\ owner' = [owner EXCEPT ![s] = req[g].user]
          /\ Continue(g, [req[g] EXCEPT !.pc = "store", !.session = s])
    BY <1>5 DEF CreateSession
  <2>2. /\ [req[g] EXCEPT !.pc = "store", !.session = s].pc = "store"
        /\ [req[g] EXCEPT !.pc = "store", !.session = s].session = s
    BY DEF Request, Idle
  <2>3. req'[g].pc = "store" /\ req'[g].session = s
    BY <1>2, <2>1, <2>2
  <2>4. owner'[s] # Null
    BY <1>5, <2>1 DEF CreateSession
  <2>5. \A t \in Tokens : family'[t] # s
    BY <1>5, <2>1 DEF CreateSession, ForeignKeys
  <2> QED
    BY <2>3, <2>4, <2>5 DEF InStep, Live, Family
<1>6. CASE StoreToken(g)
  <2>1. PICK t \in Tokens :
          Continue(g, [req[g] EXCEPT !.pc = "reply", !.token = t])
    BY <1>6 DEF StoreToken
  <2>2. [req[g] EXCEPT !.pc = "reply", !.token = t].pc = "reply"
    BY DEF Request, Idle
  <2> QED
    BY <1>3, <2>1, <2>2
<1>7. ASSUME NEW t \in Tokens, Refresh(g, t) \/ Logout(g, t) PROVE InStep(g)'
  <2>1. family[t] \in Sessions /\ owner[family[t]] \in Users
    BY <1>7 DEF Refresh, Logout, ForeignKeys
  <2>2. req'[g].session = family[t] /\ req'[g].token = t /\ req'[g].pc # "store"
    BY <1>2, <1>7 DEF Refresh, Logout, Take
  <2>3. req'[g].pc = "revokeOld" => reason[t] = "none"
    BY <1>2, <1>7 DEF Refresh, Logout, Take
  <2>4. owner' = owner /\ family' = family /\ reason' = reason
    BY <1>7 DEF Refresh, Logout
  <2> QED
    BY <2>1, <2>2, <2>3, <2>4 DEF InStep
<1>8. CASE RevokeOld(g)
  <2> DEFINE s == req[g].session
             t == req[g].token
  <2>1. t \in Tokens /\ s \in Sessions
    BY <1>8, RequestFields DEF RevokeOld
  <2>2. [req[g] EXCEPT !.pc = "store"].session = s
    BY DEF Request, Idle
  <2>3. req'[g].session = s /\ req'[g].pc # "revokeOld"
    BY <1>2, <1>8, <2>2 DEF RevokeOld, Goto, Request, Idle
  <2>4. owner' = owner /\ family' = family /\ owner[s] # Null
    BY <1>8 DEF RevokeOld, HandlersInStep, InStep
  <2>5. \/ family[t] = s /\ reason[t] = "none"
        \/ family[t] = Gone /\ owner[s] = Gone
    BY <1>8 DEF RevokeOld, HandlersInStep, InStep
  <2> HIDE DEF s, t
  <2>6. ASSUME NEW x \in Tokens, family[x] = s PROVE reason'[x] # "none"
    <3>1. family[t] = s /\ reason[t] = "none"
      BY <2>1, <2>5, <2>6 DEF ForeignKeys
    <3>2. reason' = [reason EXCEPT ![t] = "rotated"]
      BY <1>8, <2>1, <3>1 DEF RevokeOld, t
    <3>3. reason[x] = "none" => x = t
      BY <2>1, <2>6, <3>1 DEF OneLiveToken, Live, Family
    <3> QED
      BY <2>1, <3>2, <3>3
  <2> QED
    BY <2>3, <2>4, <2>6 DEF InStep, Live, Family
<1>9. CASE RevokeFamily(g) \/ RevokeFamilyFails(g)
  <2>1. /\ [req[g] EXCEPT !.pc = "revokeSession"].session = req[g].session
        /\ [req[g] EXCEPT !.pc = "revokeSession"].pc = "revokeSession"
    BY DEF Request, Idle
  <2>2. /\ req'[g] = [req[g] EXCEPT !.pc = "revokeSession"]
        /\ owner' = owner
        /\ owner[req[g].session] # Null
    BY <1>2, <1>9
    DEF RevokeFamily, RevokeFamilyFails, Goto, HandlersInStep, InStep
  <2> QED
    BY <2>1, <2>2 DEF InStep
<1>10. CASE Reply(g) \/ RevokeSession(g) \/ RevokeSessionFails(g) \/ Abandon(g)
  <2>1. Continue(g, Idle) /\ Idle.pc = "idle"
    BY <1>10 DEF Reply, RevokeSession, RevokeSessionFails, Abandon, Idle
  <2> QED
    BY <1>3, <2>1
<1> QED
  BY <1>4, <1>5, <1>6, <1>7, <1>8, <1>9, <1>10 DEF Step

\* An id that was never stored was never revoked.
LEMMA FreshStep ==
  ASSUME TypeOK, [Next]_vars,
         \A t \in Tokens : family[t] = Null => reason[t] = "none"
  PROVE  \A t \in Tokens : family'[t] = Null => reason'[t] = "none"
<1> USE NullsAreNoIds DEF TypeOK
<1>1. CASE \E h \in Handlers : CreateSession(h) \/ RevokeSession(h)
  BY <1>1 DEF CreateSession, RevokeSession
<1>2. ASSUME NEW h \in Handlers, StoreToken(h)
      PROVE  \A t \in Tokens : family'[t] = Null => reason'[t] = "none"
  BY <1>2 DEF StoreToken
<1>3. ASSUME NEW h \in Handlers, RevokeOld(h)
      PROVE  \A t \in Tokens : family'[t] = Null => reason'[t] = "none"
  BY <1>3 DEF RevokeOld
<1>4. ASSUME NEW h \in Handlers, RevokeFamily(h)
      PROVE  \A t \in Tokens : family'[t] = Null => reason'[t] = "none"
  BY <1>4, RequestFields DEF RevokeFamily
<1>5. ASSUME NEW u \in Users, DeleteAccount(u)
      PROVE  \A t \in Tokens : family'[t] = Null => reason'[t] = "none"
  BY <1>5 DEF DeleteAccount, SessionsOf
<1>6. CASE UNCHANGED tables
  BY <1>6 DEF tables
<1> QED
  BY <1>1, <1>2, <1>3, <1>4, <1>5, <1>6, TableStep

LEMMA SerialInvStep ==
  TypeOK /\ ForeignKeys /\ SerialInv /\ [SerialNext]_vars => SerialInv'
<1> SUFFICES ASSUME TypeOK, ForeignKeys, SerialInv, [SerialNext]_vars
             PROVE  SerialInv'
  OBVIOUS
<1>1. [Next]_vars /\ OneRequestPerSession'
  BY SerialStep DEF SerialInv
<1>2. HandlersInStep'
  BY <1>1, InStepStep DEF SerialInv, HandlersInStep
<1>3. OneLiveToken'
  BY <1>1, OneLiveStep DEF SerialInv
<1>4. \A t \in Tokens : family'[t] = Null => reason'[t] = "none"
  BY <1>1, FreshStep DEF SerialInv
<1>5. \A s \in Sessions : Killed(s)' => Finished(s)'
  BY <1>1, KilledStep DEF SerialInv
<1>6. ~StatementsFail => \A s \in Sessions : Sealed(s)' => Finished(s)'
  BY <1>1, SealedStep DEF SerialInv
<1> QED
  BY <1>1, <1>2, <1>3, <1>4, <1>5, <1>6 DEF SerialInv

\* The inductive invariant of rotation without overlapping requests.
THEOREM SerialInvariant == SerialSpec => []SerialInv
BY SerialInit, SerialInvStep, SerialTypeCorrect, PTL DEF SerialSpec

\* Two live tokens of one session never coexist, for any number of sessions,
\* through crashes, lost replies and statements that fail.
THEOREM AtMostOneLive == SerialSpec => []OneLiveToken
<1>1. SerialInv => OneLiveToken
  BY DEF SerialInv
<1> QED
  BY <1>1, SerialInvariant, PTL

\* Whatever a detected reuse or a logout revoked belongs to a family none of
\* whose tokens can be exchanged again.
THEOREM KilledFamiliesAreDead == SerialSpec => []KilledFamilyIsDead
<1>1. TypeOK /\ SerialInv => KilledFamilyIsDead
  BY DEF SerialInv, KilledFamilyIsDead, Killed, Family, Finished
<1> QED
  BY <1>1, SerialTypeCorrect, SerialInvariant, PTL

\* When every statement succeeds, a session marked revoked has no usable
\* token, although refresh never looks at the mark.
THEOREM ClosedSessionsAreDead ==
  ~StatementsFail => (SerialSpec => []ClosedSessionIsDead)
<1> SUFFICES ASSUME ~StatementsFail PROVE SerialSpec => []ClosedSessionIsDead
  OBVIOUS
<1>1. TypeOK /\ SerialInv => ClosedSessionIsDead
  BY DEF TypeOK, SerialInv, ClosedSessionIsDead, Sealed, Finished
<1> QED
  BY <1>1, SerialTypeCorrect, SerialInvariant, PTL

-----------------------------------------------------------------------------
(***************************************************************************)
(* Rotation without overlapping requests implements SessionFamily, for any *)
(* number of users, sessions, tokens and handlers and with statements that *)
(* fail: every statement of a handler is a step of the baton or leaves it  *)
(* alone.                                                                  *)
(***************************************************************************)
phases == [s \in Sessions |-> PhaseOf(s)]
holders == [s \in Sessions |-> HolderOf(s)]
usedTokens == {t \in Tokens : family[t] # Null}

\* The phase and the holder of a session, read off its rows and handlers.
LEMMA Phases ==
  ASSUME NEW s \in Sessions
  PROVE  /\ owner[s] = Null => PhaseOf(s) = "unborn"
         /\ owner[s] = Gone => PhaseOf(s) = "deleted"
         /\ owner[s] \in Users =>
              /\ Live(s) # {} => PhaseOf(s) = "held"
              /\ Live(s) = {} /\ Owing(s) # {} => PhaseOf(s) = "owed"
              /\ Live(s) = {} /\ Owing(s) = {} => PhaseOf(s) = "over"
         /\ Live(s) = {} => HolderOf(s) = Null
         /\ \A t : Live(s) = {t} => HolderOf(s) = t
BY NullsAreNoIds DEF PhaseOf, HolderOf

\* The same after a step.
LEMMA PhasesNext ==
  ASSUME NEW s \in Sessions
  PROVE  /\ owner'[s] = Null => PhaseOf(s)' = "unborn"
         /\ owner'[s] = Gone => PhaseOf(s)' = "deleted"
         /\ owner'[s] \in Users =>
              /\ Live(s)' # {} => PhaseOf(s)' = "held"
              /\ Live(s)' = {} /\ Owing(s)' # {} => PhaseOf(s)' = "owed"
              /\ Live(s)' = {} /\ Owing(s)' = {} => PhaseOf(s)' = "over"
         /\ Live(s)' = {} => HolderOf(s)' = Null
         /\ \A t : Live(s)' = {t} => HolderOf(s)' = t
BY NullsAreNoIds DEF PhaseOf, HolderOf

\* A session whose row, live tokens and owing handlers a step leaves alone, or
\* that is deleted, keeps its phase and holder.
LEMMA SameSession ==
  ASSUME NEW s \in Sessions, owner'[s] = owner[s], Live(s)' = Live(s),
         Owing(s)' = Owing(s) \/ owner[s] \in {Null, Gone} \/ Live(s) # {}
  PROVE  PhaseOf(s)' = PhaseOf(s) /\ HolderOf(s)' = HolderOf(s)
BY NullsAreNoIds DEF PhaseOf, HolderOf

\* A step that changes no session but s is described by what it does to s.
LEMMA OneSession ==
  ASSUME NEW s \in Sessions,
         \A z \in Sessions \ {s} :
           PhaseOf(z)' = PhaseOf(z) /\ HolderOf(z)' = HolderOf(z)
  PROVE  /\ phases' = [phases EXCEPT ![s] = PhaseOf(s)']
         /\ holders' = [holders EXCEPT ![s] = HolderOf(s)']
BY DEF phases, holders

LEMMA NoSession ==
  ASSUME \A z \in Sessions : PhaseOf(z)' = PhaseOf(z) /\ HolderOf(z)' = HolderOf(z)
  PROVE  phases' = phases /\ holders' = holders
BY DEF phases, holders

\* The handler that moves is the only one to enter or leave Owing.
LEMMA OwingMoves ==
  ASSUME TypeOK, NEW h \in Handlers, NEW r, Continue(h, r), NEW s \in Sessions
  PROVE  /\ r.pc = "store" /\ r.session = s => Owing(s)' = Owing(s) \cup {h}
         /\ ~(r.pc = "store" /\ r.session = s) => Owing(s)' = Owing(s) \ {h}
         /\ req[h].pc # "store" \/ req[h].session # s => Owing(s) \ {h} = Owing(s)
<1>1. req'[h] = r /\ \A g \in Handlers \ {h} : req'[g] = req[g]
  BY DEF Continue, TypeOK
<1> QED
  BY <1>1 DEF Owing

LEMMA OwingEnters ==
  ASSUME TypeOK, NEW h \in Handlers, NEW r, Continue(h, r), NEW s \in Sessions,
         r.pc = "store", r.session = s, req[h].pc # "store"
  PROVE  Owing(s)' # {} /\ \A z \in Sessions \ {s} : Owing(z)' = Owing(z)
<1>1. Owing(s)' = Owing(s) \cup {h}
  BY OwingMoves
<1>2. ASSUME NEW z \in Sessions \ {s} PROVE Owing(z)' = Owing(z)
  <2>1. Owing(z)' = Owing(z) \ {h} /\ Owing(z) \ {h} = Owing(z)
    BY OwingMoves
  <2> QED
    BY <2>1
<1> QED
  BY <1>1, <1>2

\* A token whose session and revocation are untouched stays live or dead.
LEMMA LiveSame ==
  ASSUME NEW s \in Sessions,
         \A t \in Tokens : /\ (family'[t] = s) <=> (family[t] = s)
                           /\ family[t] = s => reason'[t] = reason[t]
  PROVE  Live(s)' = Live(s)
BY DEF Live, Family

\* A step that writes no row and leaves the owing handlers alone is a stutter.
LEMMA QuietStep ==
  ASSUME UNCHANGED <<owner, family, reason>>,
         \A s \in Sessions : Owing(s)' = Owing(s)
  PROVE  UNCHANGED SF!vars
<1>1. \A s \in Sessions : Live(s)' = Live(s)
  BY LiveSame
<1>2. \A s \in Sessions : PhaseOf(s)' = PhaseOf(s) /\ HolderOf(s)' = HolderOf(s)
  BY <1>1, SameSession
<1>3. phases' = phases /\ holders' = holders /\ usedTokens' = usedTokens
  BY <1>2, NoSession DEF usedTokens
<1> QED
  BY <1>3 DEF SF!vars, phases, holders, usedTokens

LEMMA QuietHandlers ==
  ASSUME TypeOK, NEW h \in Handlers, NEW r, Continue(h, r), r.pc # "store",
         req[h].pc # "store", UNCHANGED <<owner, family, reason>>
  PROVE  UNCHANGED SF!vars
<1>1. \A s \in Sessions : Owing(s)' = Owing(s)
  BY OwingMoves
<1> QED
  BY <1>1, QuietStep

\* A login opens the session: it has no token yet, and owes its first one.
LEMMA CreateSessionOpens ==
  ASSUME TypeOK, ForeignKeys, NEW h \in Handlers, CreateSession(h)
  PROVE  SF!Next
<1> USE NullsAreNoIds DEF TypeOK
<1>1. req[h] \in Request /\ req[h].pc = "createSession" /\ req[h].user \in Users
  BY RequestFields DEF CreateSession
<1>2. \A z : LET r == [req[h] EXCEPT !.pc = "store", !.session = z]
            IN  r.pc = "store" /\ r.session = z
  BY <1>1 DEF Request, Idle
<1>3. PICK s \in Sessions :
        /\ owner[s] = Null
        /\ owner' = [owner EXCEPT ![s] = req[h].user]
        /\ Continue(h, [req[h] EXCEPT !.pc = "store", !.session = s])
  BY DEF CreateSession
<1>4. PICK r :
        /\ owner[s] = Null
        /\ owner' = [owner EXCEPT ![s] = req[h].user]
        /\ Continue(h, r) /\ r.pc = "store" /\ r.session = s
  BY <1>3, <1>2
<1>5. UNCHANGED <<family, reason>>
  BY DEF CreateSession
<1>6. \A z \in Sessions : Live(z)' = Live(z)
  BY <1>5, LiveSame
<1>7. Live(s) = {}
  BY <1>4 DEF ForeignKeys, Live, Family
<1>8. Owing(s)' # {} /\ \A z \in Sessions \ {s} : Owing(z)' = Owing(z)
  BY <1>4, <1>1, OwingEnters
<1>9. PhaseOf(s) = "unborn" /\ PhaseOf(s)' = "owed" /\ HolderOf(s)' = HolderOf(s)
  BY <1>4, <1>1, <1>6, <1>7, <1>8, Phases, PhasesNext
<1>10. \A z \in Sessions \ {s} : PhaseOf(z)' = PhaseOf(z) /\ HolderOf(z)' = HolderOf(z)
  BY <1>4, <1>6, <1>8, SameSession
<1>11. /\ phases' = [phases EXCEPT ![s] = "owed"]
       /\ holders' = [holders EXCEPT ![s] = HolderOf(s)]
       /\ usedTokens' = usedTokens
  BY <1>5, <1>9, <1>10, OneSession DEF usedTokens
<1>12. holders' = holders /\ phases[s] = "unborn"
  BY <1>9, <1>11 DEF holders, phases
<1>13. SF!Open(s)
  BY <1>11, <1>12 DEF SF!Open, phases, holders, usedTokens
<1> QED
  BY <1>13 DEF SF!Next

\* The successor that a handler stores is the token the session owes.
LEMMA StoreTokenGrants ==
  ASSUME TypeOK, HandlersInStep, NEW h \in Handlers, StoreToken(h),
         \A t \in Tokens : family[t] = Null => reason[t] = "none"
  PROVE  SF!Next
<1> USE NullsAreNoIds DEF TypeOK
<1>1. PICK s \in Sessions :
        /\ req[h] \in Request /\ req[h].pc = "store" /\ s = req[h].session
        /\ owner[s] \in Users /\ UNCHANGED <<owner, reason>>
  BY RequestFields DEF StoreToken
<1>2. \A t : [req[h] EXCEPT !.pc = "reply", !.token = t].pc = "reply"
  BY <1>1 DEF Request, Idle
<1>3. PICK t, r :
        /\ t \in Tokens /\ family[t] = Null
        /\ family' = [family EXCEPT ![t] = s]
        /\ Continue(h, r) /\ r.pc = "reply"
  BY <1>1, <1>2 DEF StoreToken
<1>4. Live(s) = {}
  BY <1>1 DEF HandlersInStep, InStep
<1>5. Live(s)' = {t} /\ \A z \in Sessions \ {s} : Live(z)' = Live(z)
  BY <1>3, <1>1, <1>4 DEF Live, Family
<1>6. Owing(s) # {} /\ \A z \in Sessions \ {s} : Owing(z)' = Owing(z)
  BY <1>3, <1>1, <1>2, OwingMoves DEF Owing
<1>7. PhaseOf(s) = "owed" /\ PhaseOf(s)' = "held" /\ HolderOf(s)' = t
  BY <1>1, <1>4, <1>5, <1>6, Phases, PhasesNext
<1>8. \A z \in Sessions \ {s} : PhaseOf(z)' = PhaseOf(z) /\ HolderOf(z)' = HolderOf(z)
  BY <1>1, <1>5, <1>6, SameSession
<1>9. /\ phases' = [phases EXCEPT ![s] = "held"]
      /\ holders' = [holders EXCEPT ![s] = t]
  BY <1>1, <1>7, <1>8, OneSession
<1>10. usedTokens' = usedTokens \cup {t} /\ t \notin usedTokens
  BY <1>3, <1>1 DEF usedTokens
<1>11. SF!Grant(s, t)
  BY <1>1, <1>7, <1>9, <1>10 DEF SF!Grant, phases, holders, usedTokens
<1> QED
  BY <1>1, <1>3, <1>11 DEF SF!Next

\* Revoking the presented token is the exchange: it was the live one.  When
\* the account was deleted meanwhile nothing is revoked.
LEMMA RevokeOldExchanges ==
  ASSUME TypeOK, ForeignKeys, HandlersInStep, OneLiveToken,
         NEW h \in Handlers, RevokeOld(h)
  PROVE  SF!Next \/ UNCHANGED SF!vars
<1> USE NullsAreNoIds DEF TypeOK
<1>1. PICK s, t, r :
        /\ s \in Sessions /\ t \in Tokens /\ req[h] \in Request /\ req[h].pc = "revokeOld"
        /\ req[h].session = s /\ req[h].token = t
        /\ Continue(h, r) /\ r = [req[h] EXCEPT !.pc = "store"]
        /\ UNCHANGED <<owner, family>>
  BY RequestFields DEF RevokeOld, Goto
<1>2. r.pc = "store" /\ r.session = s
  BY <1>1 DEF Request, Idle
<1>3. Owing(s)' # {} /\ \A z \in Sessions \ {s} : Owing(z)' = Owing(z)
  BY <1>1, <1>2, OwingEnters
<1>4. CASE family[t] = s /\ reason[t] = "none"
  <2>1. reason' = [reason EXCEPT ![t] = "rotated"]
    BY <1>1, <1>4 DEF RevokeOld
  <2>2. t \in Live(s) /\ owner[s] \in Users
    BY <1>1, <1>4 DEF Live, Family, ForeignKeys
  <2>3. Live(s) = {t}
    BY <1>1, <2>2 DEF OneLiveToken
  <2>4. Live(s)' = {}
    BY <1>1, <2>1, <2>3 DEF Live, Family
  <2>5. \A z \in Sessions \ {s} : Live(z)' = Live(z)
    BY <1>1, <1>4, <2>1 DEF Live, Family
  <2>6. PhaseOf(s) = "held" /\ PhaseOf(s)' = "owed" /\ HolderOf(s)' = Null
    BY <1>1, <1>3, <2>2, <2>3, <2>4, Phases, PhasesNext
  <2>7. \A z \in Sessions \ {s} :
          PhaseOf(z)' = PhaseOf(z) /\ HolderOf(z)' = HolderOf(z)
    BY <1>1, <1>3, <2>5, SameSession
  <2>8. /\ phases' = [phases EXCEPT ![s] = "owed"]
        /\ holders' = [holders EXCEPT ![s] = Null]
    BY <1>1, <2>6, <2>7, OneSession
  <2>9. SF!Exchange(s)
    BY <1>1, <2>6, <2>8 DEF SF!Exchange, phases, holders
  <2> QED
    BY <1>1, <2>9 DEF SF!Next
<1>5. CASE family[t] = Gone /\ owner[s] = Gone
  <2>1. reason' = reason
    BY <1>5, <1>1 DEF RevokeOld
  <2>2. \A z \in Sessions : Live(z)' = Live(z)
    BY <1>1, <2>1, LiveSame
  <2>3. \A z \in Sessions : PhaseOf(z)' = PhaseOf(z) /\ HolderOf(z)' = HolderOf(z)
    BY <1>1, <1>3, <1>5, <2>2, SameSession
  <2>4. phases' = phases /\ holders' = holders /\ usedTokens' = usedTokens
    BY <1>1, <2>3, NoSession DEF usedTokens
  <2> QED
    BY <2>4 DEF SF!vars, phases, holders, usedTokens
<1> QED
  BY <1>1, <1>4, <1>5 DEF HandlersInStep, InStep

\* Revoking the family ends the session, unless it was over or deleted.
LEMMA RevokeFamilyEnds ==
  ASSUME TypeOK, ForeignKeys, OneRequestPerSession, NEW h \in Handlers,
         RevokeFamily(h)
  PROVE  SF!Next \/ UNCHANGED SF!vars
<1> USE NullsAreNoIds DEF TypeOK
<1>1. PICK s, r :
        /\ s \in Sessions /\ req[h] \in Request
        /\ req[h].pc = "revokeFamily" /\ req[h].session = s
        /\ Continue(h, r) /\ r = [req[h] EXCEPT !.pc = "revokeSession"]
        /\ UNCHANGED <<owner, family>>
        /\ \A t \in Tokens :
             reason'[t] = IF family[t] = s /\ reason[t] = "none"
                            THEN req[h].why ELSE reason[t]
  BY RequestFields DEF RevokeFamily, Goto
<1>2. req[h].why # "none" /\ r.pc # "store"
  BY <1>1, RequestFields DEF Request, Idle
<1>3. \A z \in Sessions : Owing(z)' = Owing(z)
  BY <1>1, <1>2, OwingMoves
<1>4. Owing(s) = {}
  BY <1>1, NullsAreNoIds DEF OneRequestPerSession, Owing
<1>5. Live(s)' = {}
  BY <1>1, <1>2 DEF Live, Family
<1>6. ASSUME NEW z \in Sessions \ {s} PROVE Live(z)' = Live(z)
  BY <1>1, LiveSame
<1>7. \A z \in Sessions \ {s} : PhaseOf(z)' = PhaseOf(z) /\ HolderOf(z)' = HolderOf(z)
  BY <1>1, <1>3, <1>6, SameSession
<1>8. usedTokens' = usedTokens
  BY <1>1 DEF usedTokens
<1>9. CASE owner[s] \in Users /\ Live(s) # {}
  <2>1. PhaseOf(s) = "held" /\ PhaseOf(s)' = "over" /\ HolderOf(s)' = Null
    BY <1>1, <1>3, <1>4, <1>5, <1>9, Phases, PhasesNext
  <2>2. /\ phases' = [phases EXCEPT ![s] = "over"]
        /\ holders' = [holders EXCEPT ![s] = Null]
    BY <1>1, <1>7, <2>1, OneSession
  <2>3. SF!End(s)
    BY <1>1, <1>8, <2>1, <2>2 DEF SF!End, phases, holders, usedTokens
  <2> QED
    BY <1>1, <2>3 DEF SF!Next
<1>10. CASE Live(s) = {}
  <2>1. PhaseOf(s)' = PhaseOf(s) /\ HolderOf(s)' = HolderOf(s)
    BY <1>1, <1>3, <1>5, <1>10, SameSession
  <2>2. phases' = phases /\ holders' = holders
    BY <1>7, <2>1, NoSession
  <2> QED
    BY <1>8, <2>2 DEF SF!vars, phases, holders, usedTokens
<1>11. CASE owner[s] \in {Null, Gone} /\ Live(s) # {}
  <2>1. PICK t \in Tokens : family[t] = s
    BY <1>11 DEF Live, Family
  <2> QED
    BY <1>1, <1>11, <2>1 DEF ForeignKeys
<1> QED
  BY <1>1, <1>9, <1>10, <1>11

\* A handler that is lost before it stored the token it owes ends the session.
LEMMA AbandonEnds ==
  ASSUME TypeOK, HandlersInStep, OneRequestPerSession, NEW h \in Handlers, Abandon(h)
  PROVE  SF!Next \/ UNCHANGED SF!vars
<1> USE NullsAreNoIds DEF TypeOK
<1>1. /\ Continue(h, Idle) /\ Idle.pc # "store" /\ req[h] \in Request
      /\ UNCHANGED <<owner, family, reason>>
  BY DEF Abandon, Idle
<1>2. CASE req[h].pc # "store"
  BY <1>1, <1>2, QuietHandlers
<1>3. CASE req[h].pc = "store"
  <2>1. PICK s \in Sessions : req[h].session = s
    BY <1>1, <1>3, RequestFields
  <2>2. Live(s) = {} /\ owner[s] \in Users \cup {Gone}
    BY <1>3, <2>1 DEF HandlersInStep, InStep
  <2>3. \A z \in Sessions : Live(z)' = Live(z)
    BY <1>1, LiveSame
  <2>4. Owing(s) = {h}
    BY <1>3, <2>1 DEF Owing, OneRequestPerSession
  <2>5. Owing(s)' = {}
    BY <1>1, <2>4, OwingMoves
  <2>6. ASSUME NEW z \in Sessions \ {s} PROVE Owing(z)' = Owing(z)
    <3>1. Owing(z)' = Owing(z) \ {h} /\ Owing(z) \ {h} = Owing(z)
      BY <1>1, <2>1, OwingMoves
    <3> QED
      BY <3>1
  <2>7. \A z \in Sessions \ {s} :
          PhaseOf(z)' = PhaseOf(z) /\ HolderOf(z)' = HolderOf(z)
    BY <1>1, <2>3, <2>6, SameSession
  <2>8. CASE owner[s] \in Users
    <3>1. PhaseOf(s) = "owed" /\ PhaseOf(s)' = "over" /\ HolderOf(s)' = Null
      BY <1>1, <2>2, <2>3, <2>4, <2>5, <2>8, Phases, PhasesNext
    <3>2. /\ phases' = [phases EXCEPT ![s] = "over"]
          /\ holders' = [holders EXCEPT ![s] = Null]
      BY <2>7, <3>1, OneSession
    <3>3. SF!End(s)
      BY <1>1, <3>1, <3>2 DEF SF!End, phases, holders
    <3> QED
      BY <3>3 DEF SF!Next
  <2>9. CASE owner[s] = Gone
    <3>1. PhaseOf(s)' = PhaseOf(s) /\ HolderOf(s)' = HolderOf(s)
      BY <1>1, <2>3, <2>9, SameSession
    <3>2. phases' = phases /\ holders' = holders /\ usedTokens' = usedTokens
      BY <1>1, <2>7, <3>1, NoSession DEF usedTokens
    <3> QED
      BY <3>2 DEF SF!vars, phases, holders, usedTokens
  <2> QED
    BY <2>2, <2>8, <2>9
<1> QED
  BY <1>2, <1>3

\* The cascade deletes the account's sessions in one step, whatever their phase.
LEMMA DeleteAccountDeletes ==
  ASSUME TypeOK, ForeignKeys, NEW u \in Users, DeleteAccount(u)
  PROVE  SF!Next
<1> USE NullsAreNoIds DEF TypeOK
<1>1. PICK D : D = SessionsOf(u)
  OBVIOUS
<1>2. /\ \A s \in D : s \in Sessions /\ owner[s] \in Users /\ owner'[s] = Gone
      /\ \A s \in Sessions \ D : owner'[s] = owner[s]
      /\ \A t \in Tokens : family'[t] = IF family[t] \in D THEN Gone ELSE family[t]
      /\ UNCHANGED <<reason, req>>
  BY <1>1 DEF DeleteAccount, SessionsOf
<1>3. \A s \in Sessions : Owing(s)' = Owing(s)
  BY <1>2 DEF Owing
<1>4. \A s \in D : Live(s)' = {}
  BY <1>2 DEF Live, Family
<1>5. ASSUME NEW s \in Sessions \ D PROVE Live(s)' = Live(s)
  BY <1>2, LiveSame
<1>6. \A s \in Sessions \ D : PhaseOf(s)' = PhaseOf(s) /\ HolderOf(s)' = HolderOf(s)
  BY <1>2, <1>3, <1>5, SameSession
<1>7. \A s \in D : PhaseOf(s)' = "deleted" /\ HolderOf(s)' = Null
  BY <1>2, <1>4, PhasesNext
<1>8. \A s \in D : PhaseOf(s) \notin {"unborn", "deleted"}
  <2>1. ASSUME NEW s \in D PROVE PhaseOf(s) \in {"held", "owed", "over"}
    BY <1>2, Phases
  <2> QED
    BY <2>1
<1>9. /\ phases' = [s \in Sessions |-> IF s \in D THEN "deleted" ELSE phases[s]]
      /\ holders' = [s \in Sessions |-> IF s \in D THEN Null ELSE holders[s]]
  BY <1>6, <1>7 DEF phases, holders
<1>10. usedTokens' = usedTokens
  BY <1>2 DEF usedTokens
<1>11. SF!Delete(D)
  BY <1>9, <1>10 DEF SF!Delete, phases, holders, usedTokens
<1>12. D \in SUBSET {s \in Sessions : phases[s] \notin {"unborn", "deleted"}}
  BY <1>2, <1>8 DEF phases
<1> QED
  BY <1>11, <1>12 DEF SF!Next, phases

\* Every statement is a step of the baton or leaves it alone.
LEMMA RefinementStep ==
  TypeOK /\ ForeignKeys /\ SerialInv /\ [SerialNext]_vars => [SF!Next]_(SF!vars)
<1> SUFFICES ASSUME TypeOK, ForeignKeys, SerialInv, [Next]_vars
             PROVE  SF!Next \/ UNCHANGED SF!vars
  BY SerialStep
<1>1. /\ HandlersInStep /\ OneLiveToken /\ OneRequestPerSession
      /\ \A t \in Tokens : family[t] = Null => reason[t] = "none"
  BY DEF SerialInv
<1>2. ASSUME NEW h \in Handlers, Step(h) PROVE SF!Next \/ UNCHANGED SF!vars
  <2>1. ASSUME NEW u \in Users, Login(h, u) PROVE UNCHANGED SF!vars
    <3>1. [Idle EXCEPT !.pc = "createSession", !.user = u].pc # "store"
      BY DEF Idle
    <3>2. Idle.pc # "store"
      BY DEF Idle
    <3>3. PICK r : Continue(h, r) /\ r.pc # "store"
      BY <2>1, <3>1 DEF Login
    <3> QED
      BY <1>2, <2>1, <3>2, <3>3, QuietHandlers DEF Login
  <2>2. ASSUME NEW t \in Tokens, Refresh(h, t) \/ Logout(h, t)
        PROVE  UNCHANGED SF!vars
    <3>1. PICK r : Continue(h, r) /\ r.pc # "store"
      BY <2>2 DEF Refresh, Logout, Take
    <3> QED
      BY <2>2, <3>1, QuietHandlers DEF Refresh, Logout, Idle
  <2>3. CASE Reply(h) \/ RevokeSession(h) \/ RevokeSessionFails(h)
    <3>1. Continue(h, Idle) /\ Idle.pc # "store"
      BY <2>3 DEF Reply, RevokeSession, RevokeSessionFails, Idle
    <3> QED
      BY <2>3, <3>1, QuietHandlers DEF Reply, RevokeSession, RevokeSessionFails
  <2>4. CASE RevokeFamilyFails(h)
    <3>1. PICK r : Continue(h, r) /\ r = [req[h] EXCEPT !.pc = "revokeSession"]
      BY <2>4 DEF RevokeFamilyFails, Goto
    <3>2. r.pc # "store"
      BY <2>4, <3>1 DEF RevokeFamilyFails, TypeOK, Request, Idle
    <3> QED
      BY <2>4, <3>1, <3>2, QuietHandlers DEF RevokeFamilyFails
  <2> QED
    BY <1>1, <1>2, <2>1, <2>2, <2>3, <2>4, CreateSessionOpens, StoreTokenGrants,
       RevokeOldExchanges, RevokeFamilyEnds, AbandonEnds DEF Step
<1>3. ASSUME NEW t \in Tokens, Expire(t) PROVE UNCHANGED SF!vars
  <2>1. \A s \in Sessions : Owing(s)' = Owing(s)
    BY <1>3 DEF Expire, Owing
  <2> QED
    BY <1>3, <2>1, QuietStep DEF Expire
<1>4. CASE UNCHANGED vars
  <2>1. \A s \in Sessions : Owing(s)' = Owing(s)
    BY <1>4 DEF vars, Owing
  <2> QED
    BY <1>4, <2>1, QuietStep DEF vars
<1> QED
  BY <1>2, <1>3, <1>4, DeleteAccountDeletes DEF Next

LEMMA RefinementInit == Init => SF!Init
<1> SUFFICES ASSUME Init PROVE SF!Init
  OBVIOUS
<1>1. \A s \in Sessions : owner[s] = Null /\ Live(s) = {}
  BY NullsAreNoIds DEF Init, Live, Family
<1>2. \A s \in Sessions : PhaseOf(s) = "unborn" /\ HolderOf(s) = Null
  BY <1>1, Phases
<1> QED
  BY <1>2 DEF SF!Init, Init

\* The statements of login, refresh, logout and delete_me, with at most one
\* request per session in flight, implement the baton that SessionFamily
\* describes: no token is handed out twice, and a session that ended stays
\* ended.
THEOREM Refinement == SerialSpec => ImplementsSessionFamily
<1>1. TypeOK /\ ForeignKeys /\ SerialInv /\ [SerialNext]_vars => [SF!Next]_(SF!vars)
  BY RefinementStep
<1> QED
  BY <1>1, RefinementInit, SerialTypeCorrect, SerialInvariant, PTL
  DEF SerialSpec, ImplementsSessionFamily, SF!Spec
=============================================================================
