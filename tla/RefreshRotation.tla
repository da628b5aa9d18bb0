--------------------------- MODULE RefreshRotation ---------------------------
(***************************************************************************)
(* Sessions and rotating refresh tokens of the auth service: the handlers  *)
(* login_password, refresh, logout and delete_me of                        *)
(* backend/crates/auth-service/src/app.rs over the tables auth.users,      *)
(* auth.sessions and auth.refresh_tokens.                                  *)
(*                                                                         *)
(* Every handler is a sequence of SQL statements, and every statement is   *)
(* its own transaction (adapters.rs hands each one the pool), so one       *)
(* action below is one statement and the handlers interleave between any   *)
(* two of them.  A handler can also disappear between two statements: the  *)
(* process dies, the gateway's deadline passes and tonic drops the future, *)
(* or a statement whose error is propagated with `?` fails.  All three are *)
(* Abandon.                                                                *)
(*                                                                         *)
(* Tokens are drawn from a finite pool of ids, each used once: they stand  *)
(* for 32 random bytes, of which the database keeps the SHA-256.           *)
(***************************************************************************)
CONSTANTS
  Users,           \* accounts that are active at the start
  Sessions,        \* pool of session ids
  Tokens,          \* pool of refresh tokens
  Handlers,        \* RPC handlers of the auth service that can be in flight
  Null,            \* no row yet, an SQL NULL, and the nil UUID
  Gone,            \* the row existed and was deleted
  StatementsFail   \* whether a statement whose error is ignored may fail

ASSUME NullsAreNoIds ==
  /\ Null # Gone
  /\ {Null, Gone} \cap (Users \cup Sessions \cup Tokens) = {}

ASSUME StatementsFailIsBoolean == StatementsFail \in BOOLEAN

VARIABLES
  users,     \* auth.users: the ids that have a row
  owner,     \* auth.sessions.user_id of each session id
  closed,    \* auth.sessions rows with revoked_at set
  family,    \* auth.refresh_tokens.session_id of each token
  reason,    \* auth.refresh_tokens.revoked_reason ("none": revoked_at NULL)
  expired,   \* tokens whose expires_at has passed
  pair,      \* the exchange each token came from, and its access token
  granted,   \* tokens that reached a client
  req        \* what each handler is doing

vars == <<users, owner, closed, family, reason, expired, pair, granted, req>>

Reasons == {"none", "rotated", "reuse", "logout"}

Idle == [pc |-> "idle", user |-> Null, session |-> Null, token |-> Null,
         why |-> "none"]

\* A handler's local variables, by the statement it will execute next.
Request ==
  {Idle}
  \cup [pc : {"createSession"}, user : Users, session : {Null},
        token : {Null}, why : {"none"}]
  \cup [pc : {"store"}, user : Users \cup {Null}, session : Sessions,
        token : Tokens \cup {Null}, why : {"none"}]
  \cup [pc : {"revokeOld", "reply"}, user : Users \cup {Null},
        session : Sessions, token : Tokens, why : {"none"}]
  \cup [pc : {"revokeFamily", "revokeSession"}, user : {Null},
        session : Sessions, token : Tokens, why : {"reuse", "logout"}]

\* The token that was exchanged for this one (Null after a login), which the
\* code does not keep: parent_id is always NULL.  And the "sub" claim of the
\* access token issued next to it.
Pair == [origin : Tokens \cup {Null}, subject : Users \cup {Null}]

TypeOK ==
  /\ users \subseteq Users
  /\ owner \in [Sessions -> Users \cup {Null, Gone}]
  /\ closed \subseteq Sessions
  /\ family \in [Tokens -> Sessions \cup {Null, Gone}]
  /\ reason \in [Tokens -> Reasons]
  /\ expired \subseteq Tokens
  /\ pair \in [Tokens -> Pair]
  /\ granted \subseteq Tokens
  /\ req \in [Handlers -> Request]

Init ==
  /\ users = Users
  /\ owner = [s \in Sessions |-> Null]
  /\ closed = {}
  /\ family = [t \in Tokens |-> Null]
  /\ reason = [t \in Tokens |-> "none"]
  /\ expired = {}
  /\ pair = [t \in Tokens |->
               [origin |-> Null, subject |-> Null]]
  /\ granted = {}
  /\ req = [h \in Handlers |-> Idle]

\* Handler h continues as r says.
Continue(h, r) == req' = [req EXCEPT ![h] = r]

Goto(h, pc) == Continue(h, [req[h] EXCEPT !.pc = pc])

-----------------------------------------------------------------------------
(* login_password *)

\* The statements up to the password check: find_by_email, password_hash and
\* touch_login.  A refused login changes nothing.
Login(h, u) ==
  /\ req[h] = Idle
  /\ u \in users
  /\ Continue(h, [Idle EXCEPT !.pc = "createSession", !.user = u])
  /\ UNCHANGED <<users, owner, closed, family, reason, expired, pair, granted>>

\* INSERT INTO auth.sessions; the foreign key refuses a deleted user.
CreateSession(h) ==
  /\ req[h].pc = "createSession"
  /\ req[h].user \in users
  /\ \E s \in Sessions :
       /\ owner[s] = Null
       /\ owner' = [owner EXCEPT ![s] = req[h].user]
       /\ Continue(h, [req[h] EXCEPT !.pc = "store", !.session = s])
  /\ UNCHANGED <<users, closed, family, reason, expired, pair, granted>>

(* issue_pair, the tail of login_password and of refresh *)

\* The access token is issued for the user id the caller passed, which is the
\* nil UUID when the caller is refresh.
IssuedPair(r) == [origin |-> r.token, subject |-> r.user]

\* INSERT INTO auth.refresh_tokens; the foreign key refuses a deleted session.
StoreToken(h) ==
  /\ req[h].pc = "store"
  /\ owner[req[h].session] \in Users
  /\ \E t \in Tokens :
       /\ family[t] = Null
       /\ family' = [family EXCEPT ![t] = req[h].session]
       /\ pair' = [pair EXCEPT ![t] = IssuedPair(req[h])]
       /\ Continue(h, [req[h] EXCEPT !.pc = "reply", !.token = t])
  /\ UNCHANGED <<users, owner, closed, reason, expired, granted>>

\* The TokenPair reaches the client.
Reply(h) ==
  /\ req[h].pc = "reply"
  /\ granted' = granted \cup {req[h].token}
  /\ Continue(h, Idle)
  /\ UNCHANGED <<users, owner, closed, family, reason, expired, pair>>

-----------------------------------------------------------------------------
(* refresh and logout *)

\* A handler starts to work on token t and its session.
Take(h, t, pc, why) ==
  Continue(h, [pc |-> pc, user |-> Null, session |-> family[t], token |-> t,
               why |-> why])

\* Mutant of Refresh: revoked_at is not looked at.
RefreshRevokedToo(h, t) ==
  /\ req[h] = Idle
  /\ t \in granted
  /\ family[t] \in Sessions
  /\ t \notin expired
  /\ Take(h, t, "revokeOld", "none")
  /\ UNCHANGED <<users, owner, closed, family, reason, expired, pair, granted>>

\* find_by_hash and the two checks of refresh: a revoked token is a reuse, an
\* expired one is refused without effect (a stuttering step), as is a token
\* that has no row.
Refresh(h, t) ==
  /\ req[h] = Idle
  /\ t \in granted
  /\ family[t] \in Sessions
  /\ \/ /\ reason[t] # "none"
        /\ Take(h, t, "revokeFamily", "reuse")
     \/ /\ reason[t] = "none"
        /\ t \notin expired
        /\ Take(h, t, "revokeOld", "none")
  /\ UNCHANGED <<users, owner, closed, family, reason, expired, pair, granted>>

\* Mutant of RevokeOld: the successor is stored and the old token kept.
RevokeOldForgotten(h) ==
  /\ req[h].pc = "revokeOld"
  /\ Goto(h, "store")
  /\ UNCHANGED <<users, owner, closed, family, reason, expired, pair, granted>>

\* UPDATE ... SET revoked_at WHERE id = $2 AND revoked_at IS NULL: it may
\* match no row, and refresh does not look at how many rows it changed.
RevokeOld(h) ==
  /\ req[h].pc = "revokeOld"
  /\ reason' = IF /\ family[req[h].token] \in Sessions
                  /\ reason[req[h].token] = "none"
                 THEN [reason EXCEPT ![req[h].token] = "rotated"]
                 ELSE reason
  /\ Goto(h, "store")
  /\ UNCHANGED <<users, owner, closed, family, expired, pair, granted>>

\* Mutant of Logout: an unknown token is not answered at once.
LogoutUnknown(h, t) ==
  /\ req[h] = Idle
  /\ t \in granted
  /\ Take(h, t, "revokeFamily", "logout")
  /\ UNCHANGED <<users, owner, closed, family, reason, expired, pair, granted>>

\* find_by_hash of logout: any token that has a row, revoked and expired ones
\* included.  An unknown token is answered Ok at once, without effect.
Logout(h, t) ==
  /\ req[h] = Idle
  /\ t \in granted
  /\ family[t] \in Sessions
  /\ Take(h, t, "revokeFamily", "logout")
  /\ UNCHANGED <<users, owner, closed, family, reason, expired, pair, granted>>

\* Mutants of RevokeFamily: only the presented token; revoked rows as well.
RevokeFamilyPresented(h) ==
  /\ req[h].pc = "revokeFamily"
  /\ reason' = IF reason[req[h].token] = "none"
                 THEN [reason EXCEPT ![req[h].token] = req[h].why] ELSE reason
  /\ Goto(h, "revokeSession")
  /\ UNCHANGED <<users, owner, closed, family, expired, pair, granted>>

RevokeFamilyAgain(h) ==
  /\ req[h].pc = "revokeFamily"
  /\ reason' = [t \in Tokens |->
                  IF family[t] = req[h].session THEN req[h].why ELSE reason[t]]
  /\ Goto(h, "revokeSession")
  /\ UNCHANGED <<users, owner, closed, family, expired, pair, granted>>

\* UPDATE ... WHERE session_id = $2 AND revoked_at IS NULL
RevokeFamily(h) ==
  /\ req[h].pc = "revokeFamily"
  /\ reason' = [t \in Tokens |->
                  IF family[t] = req[h].session /\ reason[t] = "none"
                    THEN req[h].why ELSE reason[t]]
  /\ Goto(h, "revokeSession")
  /\ UNCHANGED <<users, owner, closed, family, expired, pair, granted>>

\* UPDATE auth.sessions SET revoked_at, then the answer to the client.
RevokeSession(h) ==
  /\ req[h].pc = "revokeSession"
  /\ closed' = IF owner[req[h].session] \in Users
                 THEN closed \cup {req[h].session} ELSE closed
  /\ Continue(h, Idle)
  /\ UNCHANGED <<users, owner, family, reason, expired, pair, granted>>

\* Both results are discarded with `let _ =`: when the first statement fails
\* the second one still runs, and when that fails the answer is the same.
RevokeFamilyFails(h) ==
  /\ StatementsFail
  /\ req[h].pc = "revokeFamily"
  /\ Goto(h, "revokeSession")
  /\ UNCHANGED <<users, owner, closed, family, reason, expired, pair, granted>>

RevokeSessionFails(h) ==
  /\ StatementsFail
  /\ req[h].pc = "revokeSession"
  /\ Continue(h, Idle)
  /\ UNCHANGED <<users, owner, closed, family, reason, expired, pair, granted>>

-----------------------------------------------------------------------------
\* The handler stops between two statements: a crash, a cancelled call, an
\* error returned by `?`, or a reply that never arrives.
Abandon(h) ==
  /\ req[h] # Idle
  /\ Continue(h, Idle)
  /\ UNCHANGED <<users, owner, closed, family, reason, expired, pair, granted>>

\* The sessions of a user, which its deletion removes by cascade.
SessionsOf(u) == {s \in Sessions : owner[s] = u}

\* Mutant of DeleteAccount: refresh_tokens without ON DELETE CASCADE.
DeleteAccountKeepsTokens(u) ==
  /\ u \in users
  /\ users' = users \ {u}
  /\ owner' = [s \in Sessions |-> IF s \in SessionsOf(u) THEN Gone ELSE owner[s]]
  /\ closed' = closed \ SessionsOf(u)
  /\ UNCHANGED <<family, reason, expired, pair, granted, req>>

\* delete_me: one DELETE; ON DELETE CASCADE takes the sessions and their tokens.
DeleteAccount(u) ==
  /\ u \in users
  /\ users' = users \ {u}
  /\ owner' = [s \in Sessions |-> IF s \in SessionsOf(u) THEN Gone ELSE owner[s]]
  /\ closed' = closed \ SessionsOf(u)
  /\ family' = [t \in Tokens |->
                  IF family[t] \in SessionsOf(u) THEN Gone ELSE family[t]]
  /\ UNCHANGED <<reason, expired, pair, granted, req>>

\* refresh_ttl_s has passed since the token was issued.
Expire(t) ==
  /\ family[t] \in Sessions
  /\ t \notin expired
  /\ expired' = expired \cup {t}
  /\ UNCHANGED <<users, owner, closed, family, reason, pair, granted, req>>

Step(h) ==
  \/ \E u \in Users : Login(h, u)
  \/ CreateSession(h)
  \/ StoreToken(h)
  \/ Reply(h)
  \/ \E t \in Tokens : Refresh(h, t)
  \/ RevokeOld(h)
  \/ \E t \in Tokens : Logout(h, t)
  \/ RevokeFamily(h)
  \/ RevokeSession(h)
  \/ RevokeFamilyFails(h)
  \/ RevokeSessionFails(h)
  \/ Abandon(h)

Next ==
  \/ \E h \in Handlers : Step(h)
  \/ \E u \in Users : DeleteAccount(u)
  \/ \E t \in Tokens : Expire(t)

Spec == Init /\ [][Next]_vars

-----------------------------------------------------------------------------
(* The environment in which rotation is meant to work: at most one request *)
(* about a session is in flight.  Nothing in the service enforces it; the  *)
(* web client aims at it by sharing one refresh promise per page.          *)

OneRequestPerSession ==
  \A g, h \in Handlers :
    g # h /\ req[g].session = req[h].session => req[g].session = Null

SerialNext == Next /\ OneRequestPerSession'

SerialSpec == Init /\ [][SerialNext]_vars

-----------------------------------------------------------------------------
(* Properties of every interleaving *)

Family(s) == {t \in Tokens : family[t] = s}

Live(s) == {t \in Family(s) : reason[t] = "none"}

\* The handlers of refresh that found token t valid and have yet to store its
\* successor.
Redeemers(t) ==
  {h \in Handlers : req[h].pc \in {"revokeOld", "store"} /\ req[h].token = t}

\* The handlers that are going to store a token in session s.
Issuers(s) ==
  {h \in Handlers : req[h].pc \in {"revokeOld", "store"} /\ req[h].session = s}

\* A family that will never be usable again.
Finished(s) == Live(s) = {} /\ Issuers(s) = {} /\ owner[s] # Null

\* The rows of the three tables stay consistent through every race of
\* inserting handlers (CreateSession, StoreToken) with the cascade of
\* delete_me: a session belongs to a user that exists, a token to a session
\* that exists, and a revoked session is a session.
ForeignKeys ==
  /\ \A s \in Sessions : owner[s] \in Users => owner[s] \in users
  /\ \A t \in Tokens : family[t] \in Sessions => owner[family[t]] \in Users
  /\ \A s \in closed : owner[s] \in Users

\* A revocation is never undone and keeps its first reason, however many
\* rotations, reuse detections and logouts meet on the same rows: that is
\* what `AND revoked_at IS NULL` is for in the three UPDATEs.
RevocationIsPermanent ==
  [][/\ \A t \in Tokens : reason[t] # "none" => reason'[t] = reason[t]
     /\ \A s \in closed : s \in closed' \/ owner'[s] = Gone]_vars

\* Once a token is revoked no further handler starts to redeem it: a second
\* redemption can only come from a handler that had read the row before.
RedeemWindowCloses ==
  [][\A t \in Tokens :
       reason[t] # "none" => Redeemers(t)' \subseteq Redeemers(t)]_vars

\* A family without live token and without handler about to store one never
\* comes back to life, whatever requests are replayed against it afterwards.
FinishedFamilyStaysFinished ==
  [][\A s \in Sessions : Finished(s) => Finished(s)']_vars

-----------------------------------------------------------------------------
(* Properties of SerialSpec *)

\* Rotation hands the session over: two live tokens of one family never
\* coexist, through crashes, lost replies and failing statements.
OneLiveToken ==
  \A s \in Sessions : \A t, u \in Live(s) : t = u

\* A family in which a reuse or a logout revoked anything is dead and stays
\* dead: no token of it can be exchanged again.
KilledFamilyIsDead ==
  \A t \in Tokens :
    reason[t] \in {"reuse", "logout"} /\ family[t] \in Sessions
      => Live(family[t]) = {}

\* A session marked revoked has no usable refresh token.  refresh never reads
\* auth.sessions.revoked_at, so this rests on the order of the two UPDATEs.
ClosedSessionIsDead == \A s \in closed : Live(s) = {}

(* The inductive invariant behind the three. *)

Killed(s) == \E t \in Family(s) : reason[t] \in {"reuse", "logout"}

\* Revoked by its session, or about to be: RevokeFamily has run.
Sealed(s) ==
  s \in closed \/ \E h \in Handlers : /\ req[h].pc = "revokeSession"
                                     /\ req[h].session = s

\* The handlers are where the tables say: one that is about to revoke a token
\* found the live one, unless the account was deleted meanwhile, and one that
\* is about to store a token finds none.
InStep(h) ==
  /\ req[h].pc \in {"store", "revokeOld", "revokeFamily", "revokeSession"}
       => owner[req[h].session] # Null
  /\ req[h].pc = "revokeOld" =>
       \/ /\ family[req[h].token] = req[h].session
          /\ reason[req[h].token] = "none"
       \/ /\ family[req[h].token] = Gone
          /\ owner[req[h].session] = Gone
  /\ req[h].pc = "store" => Live(req[h].session) = {}

HandlersInStep == \A h \in Handlers : InStep(h)

\* With one request per session every exchange starts from the one live token
\* and leaves none until the successor is stored; whatever a reuse or a logout
\* touched is finished, and so is a closed session unless the statement that
\* should have revoked its family failed unnoticed.
SerialInv ==
  /\ OneRequestPerSession
  /\ HandlersInStep
  /\ OneLiveToken
  /\ \A t \in Tokens : family[t] = Null => reason[t] = "none"
  /\ \A s \in Sessions : Killed(s) => Finished(s)
  /\ ~StatementsFail => \A s \in Sessions : Sealed(s) => Finished(s)

(* What the repository says and the code does not keep; see the violation runs. *)

\* auth.proto says of Refresh "The previous token is invalidated atomically":
\* a token is exchanged for at most one successor.  find_by_hash and revoke
\* are two statements, and the second one's row count is not looked at.
RedeemedOnce ==
  \A t, u \in Tokens :
    pair[t].origin = pair[u].origin /\ pair[t].origin # Null => t = u

\* auth.proto: GetMe resolves the profile from the JWT claims, so the access
\* token a client is handed has to name the owner of its session.  It does not
\* after the first refresh, which passes the nil UUID (app.rs:171).
AccessTokenNamesOwner ==
  \A t \in granted :
    family[t] \in Sessions => pair[t].subject = owner[family[t]]

-----------------------------------------------------------------------------
(* SerialSpec implements SessionFamily *)

\* The handlers between an exchange (or a login) and the token they owe.
Owing(s) == {h \in Handlers : req[h].pc = "store" /\ req[h].session = s}

PhaseOf(s) ==
  CASE owner[s] = Null -> "unborn"
    [] owner[s] = Gone -> "deleted"
    [] owner[s] \in Users /\ Live(s) # {} -> "held"
    [] owner[s] \in Users /\ Live(s) = {} /\ Owing(s) # {} -> "owed"
    [] owner[s] \in Users /\ Live(s) = {} /\ Owing(s) = {} -> "over"

HolderOf(s) == IF Live(s) = {} THEN Null ELSE CHOOSE t \in Live(s) : TRUE

SF == INSTANCE SessionFamily WITH
        phase <- [s \in Sessions |-> PhaseOf(s)],
        holder <- [s \in Sessions |-> HolderOf(s)],
        used <- {t \in Tokens : family[t] # Null}

\* With one request per session in flight, the tables and handlers behave like
\* the baton: every statement is a step of SessionFamily or leaves it alone.
ImplementsSessionFamily == SF!Spec

=============================================================================
